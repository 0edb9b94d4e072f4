---------------------------- MODULE RemoteCalls -----------------------------
(***************************************************************************)
(* What idlc's stubs promise the programs on both sides: the server's      *)
(* implementation gets each client's calls with the arguments they were    *)
(* made with, in the order they were made and each at most once; a call    *)
(* that waits returns what its own execution answered.                     *)
(***************************************************************************)
EXTENDS Naturals, Sequences

CONSTANTS
  Clients,
  Calls,         \* what may be asked
  Waits(_),      \* does the caller wait for an answer?
  Answers(_),    \* what a call may be answered
  NoAnswer       \* what a call that does not wait comes back with

VARIABLES
  issued,        \* each client's calls
  executed,      \* [call, answer] for each of them the server has executed
  returned       \* what they came back with

Init ==
  /\ issued = [c \in Clients |-> <<>>]
  /\ executed = [c \in Clients |-> <<>>]
  /\ returned = [c \in Clients |-> <<>>]

Waiting(c) == Len(returned[c]) < Len(issued[c])

Issue(c, call) ==
  /\ ~Waiting(c)
  /\ issued' = [issued EXCEPT ![c] = Append(@, call)]
  /\ returned' = IF Waits(call) THEN returned
                 ELSE [returned EXCEPT ![c] = Append(@, NoAnswer)]
  /\ UNCHANGED executed

Execute(c) ==
  LET n == Len(executed[c]) + 1
  IN  /\ n <= Len(issued[c])
      /\ \E answer \in Answers(issued[c][n]) :
           executed' = [executed EXCEPT ![c] =
             Append(@, [call |-> issued[c][n], answer |-> answer])]
      /\ UNCHANGED <<issued, returned>>

Return(c) ==
  /\ Waiting(c)
  /\ Len(executed[c]) = Len(issued[c])
  /\ returned' = [returned EXCEPT ![c] =
       Append(@, executed[c][Len(executed[c])].answer)]
  /\ UNCHANGED <<issued, executed>>

Next ==
  \E c \in Clients :
    \/ \E call \in Calls : Issue(c, call)
    \/ Execute(c)
    \/ Return(c)

Spec == Init /\ [][Next]_<<issued, executed, returned>>
=============================================================================
