----------------------------- MODULE PageOwners -----------------------------
(***************************************************************************)
(* What the physical allocator promises, without bitmaps: every page frame *)
(* is in one place, a call takes as many available frames as were asked    *)
(* for (all that are left when there are fewer) and grants those it        *)
(* reports, and a returned frame becomes available again or is lost.       *)
(*                                                                         *)
(* Frames are lost in two ways, which are the allocator's defects: a call  *)
(* that takes frames from several banks may report only some of them, and  *)
(* a returned frame that is not recognised is not made available.          *)
(***************************************************************************)
EXTENDS Naturals, FiniteSets

CONSTANTS
  Frames,        \* all page frames of the machine
  Banks,         \* the sets of frames that are handed out from one place
  Kept,          \* the frames that are recognised when they are returned
  MaxGrant       \* largest number of frames asked for in a call

VARIABLES
  place,         \* the place of each frame
  granted        \* the frames the last call reported to its caller

vars == <<place, granted>>

In(p) == {f \in Frames : place[f] = p}

Init == place = [f \in Frames |-> "absent"] /\ granted = {}

\* The frames whose place a step changes, and a step that takes them from p to q.
Moved == {f \in Frames : place'[f] # place[f]}
Moves(p, q) ==
  \A f \in Frames : place'[f] # place[f] => place[f] = p /\ place'[f] \in q

Donate == granted' = {} /\ Moves("absent", {"avail"})

\* What the last bank gave is reported in full, so a call that is served by one
\* bank loses nothing.
Grant(n) ==
  /\ Moves("avail", {"owned", "lost"})
  /\ granted' = {f \in Moved : place'[f] = "owned"}
  /\ Cardinality(Moved) <= n
  /\ Cardinality(Moved) < n => In("avail") = Moved
  /\ Moved # {} => \E bank \in Banks : /\ Moved \cap bank # {}
                                       /\ Moved \cap bank \subseteq granted'

Return(n) ==
  /\ granted' = {}
  /\ Cardinality(Moved) = n
  /\ Moves("owned", {"avail", "lost"})
  /\ \A f \in Moved : place'[f] = "avail" <=> f \in Kept

Next == Donate \/ \E n \in 1 .. MaxGrant : Grant(n) \/ Return(n)

Spec == Init /\ [][Next]_vars
=============================================================================
