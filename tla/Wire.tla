-------------------------------- MODULE Wire --------------------------------
(***************************************************************************)
(* The packets of idlc's stubs: how the code that CodeGenerator emits lays *)
(* out the arguments of a call, or what it returns, after the message      *)
(* header (CodeGenerator+Serialization.cpp).  Scalars come first, packed;  *)
(* a string, a blob or a custom type has there the offset and the length   *)
(* of its bytes, which follow the scalars from an 8-byte boundary on.      *)
(*                                                                         *)
(* A signature is a sequence of lowercase IDL type names; buffers and      *)
(* values are sequences of bytes, a scalar's as long as its type is wide.  *)
(* Blobs are shorter than 2^32 bytes.                                      *)
(***************************************************************************)
EXTENDS Integers, Sequences, SequencesExt

\* A byte nobody has written: whatever the memory held before.
Junk == -1

JunkBytes(n) == [k \in 1 .. n |-> Junk]

gWireSizes ==
  [bool |-> 1, int8 |-> 1, int16 |-> 2, int32 |-> 4, int64 |-> 8,
   uint8 |-> 1, uint16 |-> 2, uint32 |-> 4, uint64 |-> 8,
   float32 |-> 4, float64 |-> 8, string |-> 8, blob |-> 8, void |-> 0]

\* Types idlc does not know are encoded as blobs.
IsBlob(t) == t \in {"string", "blob"} \/ t \notin DOMAIN gWireSizes

WireSize(t) == IF t \in DOMAIN gWireSizes THEN gWireSizes[t] ELSE 8

-----------------------------------------------------------------------------
(* The layout of a message structure                                       *)

ElementOffset(sig, i) ==
  SumFunctionOnSet([j \in DOMAIN sig |-> WireSize(sig[j])], 1 .. (i - 1))

ScalarBytes(sig) == ElementOffset(sig, Len(sig) + 1)

BlobStartOffset(sig) == ((ScalarBytes(sig) + 7) \div 8) * 8

BlobSize(sig, args, i) == IF IsBlob(sig[i]) THEN Len(args[i]) ELSE 0

\* A mutant: blobOff stays where it was.
BlobOffsetStays(sig, args, i) ==
  IF i > Len(sig)
  THEN BlobStartOffset(sig)
         + SumFunctionOnSet([j \in DOMAIN sig |-> BlobSize(sig, args, j)], DOMAIN sig)
  ELSE BlobStartOffset(sig)

\* Where the i-th element's bytes are: blobOff when the loop comes to it.
BlobOffset(sig, args, i) ==
  BlobStartOffset(sig)
    + SumFunctionOnSet([j \in DOMAIN sig |-> BlobSize(sig, args, j)], 1 .. (i - 1))

BytesFor(sig, args) == BlobOffset(sig, args, Len(sig) + 1)

-----------------------------------------------------------------------------
(* Bytes                                                                   *)

\* A uint32_t in memory.
Word(n) ==
  <<n % 256, (n \div 256) % 256, (n \div 65536) % 256, (n \div 16777216) % 256>>

WordAt(in, off) ==
  in[off + 1] + 256 * (in[off + 2] + 256 * (in[off + 3] + 256 * in[off + 4]))

\* What memcpy(out.data() + off, bytes) writes.
At(off, bytes) == [p \in (off + 1) .. (off + Len(bytes)) |-> bytes[p - off]]

\* in.subspan(off, n); past the end of the span, the bytes that happen to be there.
Subspan(in, off, n) ==
  IF off + n <= Len(in) THEN SubSeq(in, off + 1, off + n) ELSE JunkBytes(n)

-----------------------------------------------------------------------------
(* What serWriteSerializers emits                                          *)

\* The i-th element as it stands among the scalars.
Element(sig, args, i) ==
  IF IsBlob(sig[i])
  THEN Word(BlobOffset(sig, args, i)) \o Word(Len(args[i]))
  ELSE args[i]

\* What the i-th round of serialize writes: a blob's bytes, then the element.
WrittenElement(sig, args, i) ==
  LET element == At(ElementOffset(sig, i), Element(sig, args, i))
      bytes == At(BlobOffset(sig, args, i), IF IsBlob(sig[i]) THEN args[i] ELSE <<>>)
  IN  [p \in DOMAIN element \cup DOMAIN bytes |->
         IF p \in DOMAIN element THEN element[p] ELSE bytes[p]]

\* What serialize writes to its buffer, later rounds over earlier ones.
Written(sig, args) ==
  LET round == [i \in DOMAIN sig |-> WrittenElement(sig, args, i)]
      last(p) == Max({i \in DOMAIN sig : p \in DOMAIN round[i]})
  IN  [p \in UNION {DOMAIN round[i] : i \in DOMAIN sig} |-> round[last(p)][p]]

\* The buffer after serialize.
Serialize(out, written) ==
  [p \in DOMAIN out |-> IF p \in DOMAIN written THEN written[p] ELSE out[p]]

\* deserialize refuses short messages, and elements that take no space.
Decodes(in, sig) ==
  /\ Len(in) >= ScalarBytes(sig)
  /\ \A i \in DOMAIN sig : WireSize(sig[i]) > 0

DecodedElement(in, sig, i) ==
  LET off == ElementOffset(sig, i)
  IN  IF IsBlob(sig[i])
      THEN Subspan(in, WordAt(in, off), WordAt(in, off + 4))
      ELSE Subspan(in, off, WireSize(sig[i]))

Deserialize(in, sig) == [i \in DOMAIN sig |-> DecodedElement(in, sig, i)]

\* Arguments of the types in a signature, in a packet whose offsets and lengths
\* are within 32 bits.
Fits(sig, args) ==
  /\ sig \in Seq(STRING) /\ args \in Seq(Seq(0 .. 255)) /\ Len(args) = Len(sig)
  /\ \A i \in DOMAIN sig :
       WireSize(sig[i]) > 0 /\ (~IsBlob(sig[i]) => Len(args[i]) = WireSize(sig[i]))
  /\ BytesFor(sig, args) \div 65536 < 65536

\* A message structure that deserialize has not filled in.
Unset(sig) ==
  [i \in DOMAIN sig |-> IF IsBlob(sig[i]) THEN <<>> ELSE JunkBytes(WireSize(sig[i]))]
=============================================================================
