----------------------------- MODULE Idlc_proofs -----------------------------
(***************************************************************************)
(* Proofs about the interface compiler, for any source files and any       *)
(* failures: no stub is written when a file is refused, and no assertion   *)
(* of the builder that the model leaves out can fail.                      *)
(***************************************************************************)
EXTENDS Idlc, TLAPS

\* Until all files have been read nothing is written; main returns once.
NothingYet ==
  /\ file \in Nat
  /\ line \in CommandLines
  /\ status # "running" => phase = "exit"
  /\ phase \in {"options", "directory"} \/ Parsing => output = << >>

IInv == NothingYet /\ AllOrNothing

LEMMA InitNothing == Init => IInv
BY DEF Init, IInv, NothingYet, AllOrNothing, Parsing

\* A token changes nothing but the place, the builder and, when the builder
\* throws or aborts, the end of main.
LEMMA TakeNothing ==
  ASSUME IInv,
         NEW from, NEW fits, NEW to, NEW b, Take(from, fits, to, b)
  PROVE  IInv'
BY DEF IInv, NothingYet, AllOrNothing, Take, Parsing, Exit, outVars

LEMMA NextNothing == IInv /\ [Next]_vars => IInv'
<1> SUFFICES ASSUME IInv, [Next]_vars PROVE IInv'
  OBVIOUS
<1>1. CASE ParseCommandLine \/ CreateDirectories
  BY <1>1 DEF IInv, NothingYet, AllOrNothing, ParseCommandLine, CreateDirectories,
              Exit, Parsing, outVars
<1>2. CASE Punctuate
  BY <1>2, TakeNothing DEF Punctuate
<1>3. CASE \/ IncludePath \/ EmptyPath \/ InterfaceName \/ InterfaceEnd \/ MethodName
           \/ DecoratorKey \/ DecoratorValue \/ DecoratorClose \/ EmptyValue
  BY <1>3, TakeNothing
     DEF IncludePath, EmptyPath, InterfaceName, InterfaceEnd, MethodName,
         DecoratorKey, DecoratorValue, DecoratorClose, EmptyValue
<1>4. CASE \/ ArgsOpen \/ ReturnOpen \/ ArgName \/ ArgType \/ ListClose
           \/ AsyncMarker \/ SyncMarker
  BY <1>4, TakeNothing
     DEF ArgsOpen, ReturnOpen, ArgName, ArgType, ListClose, AsyncMarker, SyncMarker
<1>5. CASE ParseError
  BY <1>5 DEF IInv, NothingYet, AllOrNothing, ParseError, Exit, Parsing, outVars
<1>6. CASE FileDone
  BY <1>6 DEF IInv, NothingYet, AllOrNothing, FileDone, Parsing, outVars
<1>7. ASSUME NEW opens \in BOOLEAN, WriteFile(opens) PROVE IInv'
  <2>1. /\ phase = "parse" /\ file > Len(line.files)
        /\ UNCHANGED <<line, phase, status, file>>
    BY <1>7 DEF WriteFile, Generating
  <2>2. Len(line.files) \in Nat
    BY IdlcAssumption DEF IInv, NothingYet
  <2>3. ~Parsing'
    BY <2>1, <2>2 DEF Parsing, IInv, NothingYet
  <2>4. status = "running"
    BY <2>1 DEF IInv, NothingYet
  <2>5. QED
    BY <2>1, <2>3, <2>4 DEF IInv, NothingYet, AllOrNothing
<1>8. CASE AllWritten
  BY <1>8 DEF IInv, NothingYet, AllOrNothing, AllWritten, Exit, Parsing, outVars
<1>9. CASE UNCHANGED vars
  BY <1>9 DEF IInv, NothingYet, AllOrNothing, vars, outVars, Parsing
<1>10. QED
  BY <1>1, <1>2, <1>3, <1>4, <1>5, <1>6, <1>7, <1>8, <1>9 DEF Next

\* When main fails, no stub has been written, of any interface (main.cpp).
THEOREM NoneOnFailure == Spec => []AllOrNothing
<1>1. IInv => AllOrNothing
  BY DEF IInv
<1>2. QED
  BY <1>1, InitNothing, NextNothing, PTL DEF Spec

-----------------------------------------------------------------------------
(* The builder's assertions, by the places of the grammar from which its   *)
(* functions are called.                                                   *)

InMethod == {"method", "key", "equals", "value", "close", "arrow", "return"}
InList == {"first arg", "next arg", "colon", "type", "arg end"}
InInterface == {"interface open", "member"} \cup InMethod \cup InList

\* What is being built at a place: an interface, a method, a list, an argument
\* and a decorator; an empty name is none.
InStep(b, place) ==
  /\ b.current.name # "" <=> place \in InInterface
  /\ b.currentMethod.name # "" <=> place \in InMethod \cup InList
  /\ b.argContext \in IF place \in InList THEN {"Parameter", "Return"} ELSE {"None"}
  /\ place \in {"colon", "type"} => b.nextArgName # ""
  /\ place \in {"equals", "value", "close"} => b.nextDecoratorKey # ""

\* The assertions on what is being built hold whenever the parser calls the
\* builder (the asserts of InterfaceDescriptionBuilder.cpp, but for the one
\* that PushNextDecorator models).
AssertionsHold == phase # "exit" => InStep(builder, at)

Shaped(b) ==
  /\ {"current", "currentMethod", "argContext", "nextArgName", "nextArgTypename",
      "nextDecoratorKey", "nextDecoratorValue", "decorators", "includes", "allIds",
      "thrown", "aborted"} \subseteq DOMAIN b
  /\ {"name", "methods", "numCustomTypes"} \subseteq DOMAIN b.current
  /\ {"name", "async", "params", "returns"} \subseteq DOMAIN b.currentMethod

Good(b, place) == Shaped(b) /\ InStep(b, place)
Refused(b) == b.thrown = TRUE \/ b.aborted = TRUE

BuilderInv == phase # "exit" => Good(builder, at)

LEMMA FreshBuilder == ASSUME NEW asserts PROVE Good(Builder(asserts), "top")
BY DEF Good, Shaped, InStep, Builder, NoInterface, NoMethod, Interface, Method,
       InInterface, InMethod, InList

\* Each function of the builder leads from one place to the next.
LEMMA BuilderInclude ==
  ASSUME NEW b, NEW path, Good(b, "path")
  PROVE  Good(AddIncludePath(b, path), "include end") /\ Good(AddIncludePath(b, path), "top")
BY DEF Good, Shaped, InStep, AddIncludePath, InInterface, InMethod, InList

LEMMA BuilderInterface ==
  ASSUME NEW b, NEW name, name # ""
  PROVE  /\ Good(b, "interface name") => Good(BeginInterface(b, name), "interface open")
         /\ Good(b, "member") => Good(EndInterface(b), "top")
BY DEF Good, Shaped, InStep, BeginInterface, EndInterface, Interface, NoInterface,
       InInterface, InMethod, InList

LEMMA BuilderMethod ==
  ASSUME NEW b, NEW name, name # "", Good(b, "member")
  PROVE  Good(BeginMethod(b, name), "method") \/ Refused(BeginMethod(b, name))
BY DEF Good, Shaped, InStep, BeginMethod, Method, Throw, Refused,
       InInterface, InMethod, InList

LEMMA BuilderEndMethod ==
  ASSUME NEW b, Good(b, "arrow")
  PROVE  Good(EndMethod(b), "member") \/ Refused(EndMethod(b))
<1> DEFINE numbers == {Stoull[v] : v \in Decorator(b, "identifier")}
           method == IF numbers = {} THEN b.currentMethod
                     ELSE [b.currentMethod EXCEPT !.identifier = CHOOSE n \in numbers : TRUE]
           done == [b EXCEPT !.current.methods = Append(@, method),
                             !.currentMethod = NoMethod, !.decorators = << >>]
<1>1. EndMethod(b) = IF Invalid \in numbers THEN Throw(b) ELSE done
  BY DEF EndMethod
<1>2. Refused(Throw(b))
  BY DEF Refused, Throw, Good, Shaped
<1>3. Good(done, "member")
  <2> HIDE DEF method
  <2>1. QED
    BY DEF Good, Shaped, InStep, NoMethod, Method, InInterface, InMethod, InList
<1>4. QED
  BY <1>1, <1>2, <1>3

LEMMA BuilderMarkers ==
  ASSUME NEW b, Good(b, "arrow"), NEW isAsync
  PROVE  Good(SetMethodAsync(b, isAsync), "arrow") /\ Good(SetMethodAsync(b, isAsync), "return")
BY DEF Good, Shaped, InStep, SetMethodAsync, InInterface, InMethod, InList

LEMMA BuilderLists ==
  ASSUME NEW b
  PROVE  /\ Good(b, "method") => Good(BeginMethodParams(b), "first arg")
         /\ Good(b, "return") => Good(BeginMethodReturns(b), "first arg")
         /\ Good(b, "first arg") \/ Good(b, "arg end") =>
              Good(EndMethodParams(b), "arrow") /\ Good(EndMethodReturns(b), "arrow")
BY DEF Good, Shaped, InStep, BeginMethodParams, BeginMethodReturns, EndMethodParams,
       EndMethodReturns, InInterface, InMethod, InList

LEMMA BuilderArguments ==
  ASSUME NEW b, NEW word
  PROVE  /\ (Good(b, "first arg") \/ Good(b, "next arg")) /\ word # "" =>
              Good(SetNextArgName(b, word), "colon")
         /\ Good(b, "type") => Good(SetNextArgTypename(b, word), "type")
         /\ Good(b, "type") => Good(PushNextArg(b), "arg end")
<1>1. (Good(b, "first arg") \/ Good(b, "next arg")) /\ word # "" =>
              Good(SetNextArgName(b, word), "colon")
  BY DEF Good, Shaped, InStep, SetNextArgName, InInterface, InMethod, InList
<1>2. Good(b, "type") => Good(SetNextArgTypename(b, word), "type")
  BY DEF Good, Shaped, InStep, SetNextArgTypename, InInterface, InMethod, InList
<1>3. Good(b, "type") => Good(PushNextArg(b), "arg end")
  BY DEF Good, Shaped, InStep, PushNextArg, InInterface, InMethod, InList
<1>4. QED
  BY <1>1, <1>2, <1>3

LEMMA BuilderDecorators ==
  ASSUME NEW b, NEW word
  PROVE  /\ Good(b, "key") /\ word # "" => Good(SetNextDecoratorKey(b, word), "equals")
         /\ Good(b, "value") => Good(SetNextDecoratorValue(b, word), "close")
         /\ Good(b, "close") => Good(PushNextDecorator(b), "method")
                               \/ Refused(PushNextDecorator(b))
<1>1. Good(b, "key") /\ word # "" => Good(SetNextDecoratorKey(b, word), "equals")
  BY DEF Good, Shaped, InStep, SetNextDecoratorKey, InInterface, InMethod, InList
<1>2. Good(b, "value") => Good(SetNextDecoratorValue(b, word), "close")
  BY DEF Good, Shaped, InStep, SetNextDecoratorValue, InInterface, InMethod, InList
<1>3. Good(b, "close") => Good(PushNextDecorator(b), "method")
                            \/ Refused(PushNextDecorator(b))
  BY DEF Good, Shaped, InStep, PushNextDecorator, Abort, Throw, Refused,
         InInterface, InMethod, InList
<1>4. QED
  BY <1>1, <1>2, <1>3

\* A token keeps the invariant if its builder call fits its places.
LEMMA TakeGood ==
  ASSUME BuilderInv, NEW from, NEW fits, NEW to, NEW b, Take(from, fits, to, b),
         fits /\ Good(builder, from) => Good(b, to) \/ Refused(b)
  PROVE  BuilderInv'
<1>1. /\ Parsing /\ at = from /\ fits
      /\ at' = to /\ builder' = b
      /\ Refused(b) => phase' = "exit"
  BY DEF Take, Exit, Refused
<1>2. Good(builder, from)
  BY <1>1 DEF BuilderInv, Parsing
<1>3. Good(b, to) \/ phase' = "exit"
  BY <1>1, <1>2
<1>4. QED
  BY <1>1, <1>3 DEF BuilderInv

\* The places that a token leads between, when the builder is not told of it.
LEMMA PunctuationPlaces ==
  ASSUME NEW p \in Punctuation
  PROVE  \/ p.from = "top" /\ p.to = "include"
         \/ p.from = "include" /\ p.to = "path"
         \/ p.from = "include end" /\ p.to = "top"
         \/ p.from = "top" /\ p.to = "interface name"
         \/ p.from = "interface open" /\ p.to = "member"
         \/ p.from = "method" /\ p.to = "key"
         \/ p.from = "equals" /\ p.to = "value"
         \/ p.from = "colon" /\ p.to = "type"
         \/ p.from = "arg end" /\ p.to = "next arg"
<1>1. ASSUME p = [from |-> "top", text |-> "#include", to |-> "include"]
      PROVE  p.from = "top" /\ p.to = "include"
  BY <1>1
<1>2. ASSUME p = [from |-> "include", text |-> "<", to |-> "path"]
      PROVE  p.from = "include" /\ p.to = "path"
  BY <1>2
<1>3. ASSUME p = [from |-> "include end", text |-> ">", to |-> "top"]
      PROVE  p.from = "include end" /\ p.to = "top"
  BY <1>3
<1>4. ASSUME p = [from |-> "top", text |-> "interface", to |-> "interface name"]
      PROVE  p.from = "top" /\ p.to = "interface name"
  BY <1>4
<1>5. ASSUME p = [from |-> "interface open", text |-> "{", to |-> "member"]
      PROVE  p.from = "interface open" /\ p.to = "member"
  BY <1>5
<1>6. ASSUME p = [from |-> "method", text |-> "[", to |-> "key"]
      PROVE  p.from = "method" /\ p.to = "key"
  BY <1>6
<1>7. ASSUME p = [from |-> "equals", text |-> "=", to |-> "value"]
      PROVE  p.from = "equals" /\ p.to = "value"
  BY <1>7
<1>8. ASSUME p = [from |-> "colon", text |-> ":", to |-> "type"]
      PROVE  p.from = "colon" /\ p.to = "type"
  BY <1>8
<1>9. ASSUME p = [from |-> "arg end", text |-> ",", to |-> "next arg"]
      PROVE  p.from = "arg end" /\ p.to = "next arg"
  BY <1>9
<1>10. QED
  BY <1>1, <1>2, <1>3, <1>4, <1>5, <1>6, <1>7, <1>8, <1>9, Zenon DEF Punctuation

\* They are alike to the builder.
LEMMA PunctuationGood ==
  ASSUME NEW b, NEW p \in Punctuation, Good(b, p.from)
  PROVE  Good(b, p.to)
<1>1. /\ p.from \in InInterface <=> p.to \in InInterface
      /\ p.from \in InMethod \cup InList <=> p.to \in InMethod \cup InList
      /\ p.from \in InList <=> p.to \in InList
      /\ p.to \in {"colon", "type"} => p.from \in {"colon", "type"}
      /\ p.to \in {"equals", "value", "close"} => p.from \in {"equals", "value", "close"}
  BY PunctuationPlaces DEF InInterface, InMethod, InList
<1>2. QED
  BY <1>1 DEF Good, InStep

LEMMA WordsNotEmpty == \A w \in Identifiers \cup TypeNames : w # ""
BY IdlcAssumption

LEMMA NextGood == BuilderInv /\ [Next]_vars => BuilderInv'
<1> SUFFICES ASSUME BuilderInv, [Next]_vars PROVE BuilderInv'
  OBVIOUS
<1>1. CASE ParseCommandLine \/ CreateDirectories \/ ParseError \/ AllWritten
  <2>1. at' = at /\ builder' = builder /\ phase # "exit"
    BY <1>1 DEF ParseCommandLine, CreateDirectories, ParseError, AllWritten, Parsing,
                Generating
  <2>2. QED
    BY <2>1 DEF BuilderInv
<1>2. CASE Punctuate
  BY <1>2, TakeGood, PunctuationGood DEF Punctuate
<1>3. CASE IncludePath \/ EmptyPath
  BY <1>3, TakeGood, BuilderInclude DEF IncludePath, EmptyPath
<1>4. CASE InterfaceName
  BY <1>4, TakeGood, BuilderInterface, WordsNotEmpty DEF InterfaceName
<1>5. CASE InterfaceEnd
  BY <1>5, TakeGood, BuilderInterface, "a" # "" DEF InterfaceEnd
<1>6. CASE MethodName
  BY <1>6, TakeGood, BuilderMethod, WordsNotEmpty DEF MethodName
<1>7. CASE DecoratorKey
  BY <1>7, TakeGood, BuilderDecorators, WordsNotEmpty DEF DecoratorKey
<1>8. CASE DecoratorValue \/ DecoratorClose \/ EmptyValue
  BY <1>8, TakeGood, BuilderDecorators DEF DecoratorValue, DecoratorClose, EmptyValue
<1>9. CASE ArgsOpen \/ ReturnOpen
  BY <1>9, TakeGood, BuilderLists DEF ArgsOpen, ReturnOpen
<1>10. CASE ArgName
  <2>1. tok # "" \/ tok \notin Identifiers
    BY WordsNotEmpty
  <2> DEFINE from == IF at = "next arg" THEN at ELSE "first arg"
  <2>2. Good(builder, from) /\ tok # "" => Good(SetNextArgName(builder, tok), "colon")
    BY BuilderArguments
  <2>3. Take(from, tok \in Identifiers, "colon", SetNextArgName(builder, tok))
    BY <1>10 DEF ArgName
  <2>4. QED
    BY <2>1, <2>2, <2>3, TakeGood
<1>11. CASE ArgType
  <2> DEFINE typed == SetNextArgTypename(builder, tok)
  <2>1. Good(builder, "type") => Good(PushNextArg(typed), "arg end")
    BY BuilderArguments
  <2>2. QED
    BY <1>11, <2>1, TakeGood DEF ArgType
<1>12. CASE ListClose
  <2> DEFINE from == IF at = "first arg" THEN at ELSE "arg end"
             params == builder.argContext = "Parameter"
             to == IF params THEN "arrow" ELSE "member"
             b == IF params THEN EndMethodParams(builder)
                  ELSE EndMethod(EndMethodReturns(builder))
  <2>1. Good(builder, from) => Good(b, to) \/ Refused(b)
    BY BuilderLists, BuilderEndMethod
  <2>2. Take(from, tok = ")", to, b)
    BY <1>12 DEF ListClose
  <2>3. QED
    BY <2>1, <2>2, TakeGood
<1>13. CASE AsyncMarker \/ SyncMarker
  BY <1>13, TakeGood, BuilderMarkers, BuilderEndMethod DEF AsyncMarker, SyncMarker
<1>14. CASE FileDone
  BY <1>14, FreshBuilder DEF FileDone, BuilderInv, Parsing
<1>15. CASE \E opens \in BOOLEAN : WriteFile(opens)
  BY <1>15 DEF WriteFile, Generating, BuilderInv
<1>16. CASE UNCHANGED vars
  BY <1>16 DEF vars, BuilderInv
<1>17. QED
  BY <1>1, <1>2, <1>3, <1>4, <1>5, <1>6, <1>7, <1>8, <1>9, <1>10, <1>11, <1>12,
     <1>13, <1>14, <1>15, <1>16 DEF Next

\* The parser never calls the builder with nothing to work on
\* (InterfaceDescriptionBuilder.cpp).
THEOREM BuilderAsserts == Spec => []AssertionsHold
<1>1. Init => BuilderInv
  BY FreshBuilder DEF Init, BuilderInv
<1>2. BuilderInv => AssertionsHold
  BY DEF BuilderInv, Good, AssertionsHold
<1>3. QED
  BY <1>1, <1>2, NextGood, PTL DEF Spec
=============================================================================
