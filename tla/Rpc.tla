-------------------------------- MODULE Rpc ---------------------------------
(***************************************************************************)
(* A server and its clients, each running a stub that idlc generates       *)
(* (CodeGenerator+Client.cpp, CodeGenerator+Server.cpp) over a stream.     *)
(* Each client is a Client object with a stream of its own and makes its   *)
(* calls one at a time.                                                    *)
(*                                                                         *)
(* The streams are external: the stubs need them to hand the server whole  *)
(* requests in order, and replies to whoever sent the request received     *)
(* last.  An operation on a stream may fail, as may the allocation of a    *)
(* buffer.  A method's id stands for its name, of which it is the hash.    *)
(***************************************************************************)
EXTENDS Wire

CONSTANTS
  Clients,
  ClientIdl,     \* the methods of the interface: [async, params, returns]
  ServerIdl,     \* the same in the file the server's stub was made from
  Calls,         \* [method, args] a client may make
  Results,       \* what the implementation may return, for each method
  NoResult,      \* an asynchronous call returns nothing
  TagModulus,    \* tags are of type uint32_t, 2^32 in the code
  MaxCalls,      \* calls a client makes (bound)
  MaxFailures    \* failures of the streams and of malloc (bound)

ASSUME RpcAssumption ==
  /\ \A call \in Calls : call.method \in DOMAIN ClientIdl
  /\ TagModulus \in Nat \ {0}
  /\ MaxCalls \in Nat
  /\ MaxFailures \in Nat

\* Calls and results are of the types that the interface has for them.
ASSUME PacketAssumption ==
  /\ \A call \in Calls :
       /\ call = [method |-> call.method, args |-> call.args]
       /\ Fits(ClientIdl[call.method].params, call.args)
  /\ \A m \in DOMAIN ServerIdl : \A result \in Results[m] :
       Fits(ServerIdl[m].returns, result)

VARIABLES
  client,        \* "idle", "waiting" for a reply, or "gone": the process is
  nextTag,       \* Client::nextTag
  sentTag,       \* the tag of the call being made
  txBuf,         \* Client::txBuf after the header; txBufSize says how much
  requests,      \* sent and not received yet
  replies,       \* the same to each client
  running,       \* the server is in run()
  serving,       \* the call whose implementation runs: none or one
  serverBuf,     \* Server::txBuf
  failures,      \* how many there were
  issued,        \* history: each client's calls
  executed,      \* history: the calls the implementation got, and its answers
  returned       \* history: what each client's calls came back with

clientVars == <<client, nextTag, sentTag, txBuf>>
serverVars == <<running, serving, serverBuf>>
history == <<issued, executed, returned>>
vars == <<clientVars, requests, replies, serverVars, failures, history>>

Init ==
  /\ client = [c \in Clients |-> "idle"]
  /\ nextTag = [c \in Clients |-> 0]
  /\ sentTag = [c \in Clients |-> 0]
  /\ txBuf = [c \in Clients |-> <<>>]
  /\ requests = <<>>
  /\ replies = [c \in Clients |-> <<>>]
  /\ running = TRUE
  /\ serving = <<>>
  /\ serverBuf = <<>>
  /\ failures = 0
  /\ issued = [c \in Clients |-> <<>>]
  /\ executed = [c \in Clients |-> <<>>]
  /\ returned = [c \in Clients |-> <<>>]

Fails ==
  /\ failures < MaxFailures
  /\ failures' = failures + 1

\* A mutant: tags that do not wrap.
WideTag(tag) == tag + 1

\* __atomic_add_fetch on nextTag
NextTag(tag) == (tag + 1) % TagModulus

\* _ensureTxBuf: the payload's room in a buffer, which grows and never shrinks.
EnsureTxBuf(buf, payloadBytes) ==
  IF payloadBytes + 16 > Len(buf) THEN JunkBytes(payloadBytes + 16) ELSE buf

\* The buffer once a message of that size is built up in it.
Marshalled(buf, payloadBytes, written) ==
  Serialize(EnsureTxBuf(buf, payloadBytes), written)

\* The size of each message's payload, and what is written there.
Request ==
  [call \in Calls |->
     LET sig == ClientIdl[call.method].params
     IN  [size |-> BytesFor(sig, call.args), written |-> Written(sig, call.args)]]

Reply ==
  [m \in DOMAIN ServerIdl |-> [result \in Results[m] |->
     LET sig == ServerIdl[m].returns
     IN  [size |-> BytesFor(sig, result), written |-> Written(sig, result)]]]

-----------------------------------------------------------------------------
(* The client                                                              *)

\* A call of a generated method, up to the wait for its reply.
Call(c, call) ==
  LET method == ClientIdl[call.method]
      tag == NextTag(nextTag[c])
      data == Request[call]
      buf == Marshalled(txBuf[c], data.size, data.written)
      message == [from |-> c, type |-> call.method, tag |-> tag,
                  payload |-> SubSeq(buf, 1, data.size)]
  IN  /\ client[c] = "idle"
      /\ Len(issued[c]) < MaxCalls
      /\ nextTag' = [nextTag EXCEPT ![c] = tag]
      /\ sentTag' = [sentTag EXCEPT ![c] = tag]
      /\ txBuf' = [txBuf EXCEPT ![c] = buf]
      /\ requests' = Append(requests, message)
      /\ issued' = [issued EXCEPT ![c] = Append(@, call)]
      /\ IF method.async
         THEN /\ returned' = [returned EXCEPT ![c] = Append(@, NoResult)]
              /\ UNCHANGED client
         ELSE /\ client' = [client EXCEPT ![c] = "waiting"]
              /\ UNCHANGED returned
      /\ UNCHANGED <<replies, serverVars, failures, executed>>

\* No buffer, or sendRequest fails: _HandleError exits the process.
CallFails(c) ==
  /\ client[c] = "idle"
  /\ Len(issued[c]) < MaxCalls
  /\ Fails
  /\ client' = [client EXCEPT ![c] = "gone"]
  /\ UNCHANGED <<nextTag, sentTag, txBuf, requests, replies, serverVars, history>>

\* The reply to the call.  A wrong tag or type, or a reply that cannot be
\* decoded, is logged, and what the reply structure holds then is returned.
ReceiveReply(c) ==
  /\ client[c] = "waiting"
  /\ replies[c] # <<>>
  /\ LET reply == Head(replies[c])
         call == issued[c][Len(issued[c])]
         sig == ClientIdl[call.method].returns
         result == IF Decodes(reply.payload, sig)
                   THEN Deserialize(reply.payload, sig)
                   ELSE Unset(sig)
     IN  returned' = [returned EXCEPT ![c] = Append(@, result)]
  /\ replies' = [replies EXCEPT ![c] = Tail(@)]
  /\ client' = [client EXCEPT ![c] = "idle"]
  /\ UNCHANGED <<nextTag, sentTag, txBuf, requests, serverVars, failures,
                 issued, executed>>

\* receiveReply fails: that is logged, and the header of no message is read.
ReceiveReplyFails(c) ==
  /\ client[c] = "waiting"
  /\ Fails
  /\ client' = [client EXCEPT ![c] = "gone"]
  /\ UNCHANGED <<nextTag, sentTag, txBuf, requests, replies, serverVars, history>>

-----------------------------------------------------------------------------
(* The server                                                              *)

Ready == running /\ serving = <<>>

Unanswered(request, result) ==
  <<[from |-> request.from, type |-> request.type, tag |-> request.tag,
     result |-> result]>>

\* Mutants: asynchronous calls are answered too, calls that return nothing are not.
AnsweredAlways(request, result) == Unanswered(request, result)

AnsweredIfResult(request, result) ==
  IF ServerIdl[request.type].returns = <<>> THEN <<>> ELSE Unanswered(request, result)

\* The reply that is due once the implementation has been called.
ReplyDue(request, result) ==
  IF ServerIdl[request.type].async THEN <<>> ELSE Unanswered(request, result)

\* runOne: the request's implementation is called with the arguments in it.  A
\* request of a type the server does not know, or that does not decode, is left
\* unanswered; so is every asynchronous one.
RunOne ==
  /\ Ready
  /\ requests # <<>>
  /\ requests' = Tail(requests)
  /\ LET request == Head(requests)
         known == request.type \in DOMAIN ServerIdl
         method == ServerIdl[request.type]
     IN  IF known /\ Decodes(request.payload, method.params)
         THEN \E result \in Results[request.type] :
                /\ executed' = [executed EXCEPT ![request.from] = Append(@,
                     [call |-> [method |-> request.type,
                                args |-> Deserialize(request.payload, method.params)],
                      answer |-> IF method.async THEN NoResult ELSE result])]
                /\ serving' = ReplyDue(request, result)
         ELSE UNCHANGED <<executed, serving>>
  /\ UNCHANGED <<clientVars, replies, running, serverBuf, failures, issued, returned>>

\* The implementation has returned; its result is in the transmit buffer.
MarshallReply ==
  /\ serving # <<>>
  /\ serving' = <<>>
  /\ LET now == Head(serving)
         data == Reply[now.type][now.result]
     IN  serverBuf' = Marshalled(serverBuf, data.size, data.written)

\* _sendReply
SendReply ==
  /\ MarshallReply
  /\ LET now == Head(serving)
         reply == [type |-> now.type, tag |-> now.tag,
                   payload |-> SubSeq(serverBuf', 1, Reply[now.type][now.result].size)]
     IN  replies' = [replies EXCEPT ![now.from] = Append(@, reply)]
  /\ UNCHANGED <<clientVars, requests, running, failures, history>>

\* The stream does not take the reply: that is logged, and nobody sends it again.
SendReplyFails ==
  /\ MarshallReply
  /\ Fails
  /\ UNCHANGED <<clientVars, requests, replies, running, history>>

\* receive fails, which ends run(), or there is no memory for a reply.
ServerStops ==
  /\ running
  /\ Fails
  /\ running' = FALSE
  /\ serving' = <<>>
  /\ UNCHANGED <<clientVars, requests, replies, serverBuf, history>>

-----------------------------------------------------------------------------
Next ==
  \/ \E c \in Clients :
       \/ \E call \in Calls : Call(c, call)
       \/ CallFails(c)
       \/ ReceiveReply(c)
       \/ ReceiveReplyFails(c)
  \/ RunOne
  \/ SendReply
  \/ SendReplyFails
  \/ ServerStops

\* run() takes requests as long as it runs, the implementation returns, and a
\* client that waits takes the reply that has come.
Fairness ==
  /\ WF_vars(RunOne)
  /\ WF_vars(SendReply)
  /\ \A c \in Clients : WF_vars(ReceiveReply(c))

Spec == Init /\ [][Next]_vars /\ Fairness

-----------------------------------------------------------------------------
(* Properties                                                              *)

Messages == [from : Clients, type : DOMAIN ClientIdl, tag : 0 .. (TagModulus - 1),
             payload : Seq(-1 .. 255)]

\* The type invariant: the stubs' members and the streams hold what they should.
TypeOK ==
  /\ client \in [Clients -> {"idle", "waiting", "gone"}]
  /\ nextTag \in [Clients -> 0 .. (TagModulus - 1)]
  /\ sentTag \in [Clients -> 0 .. (TagModulus - 1)]
  /\ txBuf \in [Clients -> Seq(-1 .. 255)]
  /\ requests \in Seq(Messages)
  /\ \A c \in Clients :
       replies[c] \in Seq([type : DOMAIN ServerIdl, tag : 0 .. (TagModulus - 1),
                           payload : Seq(-1 .. 255)])
  /\ running \in BOOLEAN
  /\ Len(serving) <= 1
  /\ serverBuf \in Seq(-1 .. 255)
  /\ failures \in 0 .. MaxFailures

\* A message or a call being served belongs to the call c is in.
Current(c, m) ==
  /\ client[c] # "idle"
  /\ m.tag = sentTag[c]
  /\ m.type = issued[c][Len(issued[c])].method

\* The requests of c that will be answered, and its calls being served.
Asked(c) == {i \in DOMAIN requests :
               requests[i].from = c /\ ~ServerIdl[requests[i].type].async}

Served(c) == {i \in DOMAIN serving : serving[i].from = c}

\* A client and the server are in step: at most one request that will be answered,
\* call being served or reply is under way for a client, it is for the call the
\* client waits in, and an asynchronous call leaves none.  So the reply a client
\* takes is its own, although all a reply has to tell is a tag that wraps.
InStep ==
  \A c \in Clients :
    /\ \A i \in Asked(c) : Current(c, requests[i])
    /\ \A i \in Served(c) : Current(c, serving[i])
    /\ \A i \in DOMAIN replies[c] : Current(c, replies[c][i])
    /\ Cardinality(Asked(c)) + Cardinality(Served(c)) + Len(replies[c]) <= 1

Waits(call) == ~ClientIdl[call.method].async

Answers(call) ==
  IF ClientIdl[call.method].async THEN {NoResult} ELSE Results[call.method]

Promise == INSTANCE RemoteCalls WITH NoAnswer <- NoResult

\* The stubs keep RemoteCalls's promise: arguments and results go through the
\* packets unchanged, in order, once, each to its own call.
KeepsPromise == Promise!Spec

\* A client that waits gets out of it, unless something failed on the way.
WaitEnds ==
  \A c \in Clients : client[c] = "waiting" ~> (client[c] # "waiting" \/ failures > 0)

\* A call returns on a reply with the tag it sent, never on another one
\* (CodeGenerator+Client.cpp:331: "if any message tag other than the one we sent
\* is received, we'll abort").
OnlyOwnTag ==
  [][\A c \in Clients :
       client[c] = "waiting" /\ client'[c] = "idle"
         => Head(replies[c]).tag = sentTag[c]]_vars
=============================================================================
