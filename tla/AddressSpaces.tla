--------------------------- MODULE AddressSpaces ----------------------------
(***************************************************************************)
(* What the page tables promise, without the structures in between.  The   *)
(* address space of a map is a row of slots; a slot shows a window or      *)
(* nothing, and a window translates offsets.  A map that is made shows the *)
(* windows its parent shows in the kernel's slots, and from then on what   *)
(* either does in such a window shows in both; every other window belongs  *)
(* to one map.                                                             *)
(***************************************************************************)
CONSTANTS
  Maps, Slots, KernelSlots, Windows, Offsets,
  NoWindow,      \* what a slot shows that shows no window
  Nothing        \* what an offset without a mapping translates to

VARIABLES
  view,          \* view[m][s]: the window map m shows in slot s
  content        \* content[w][o]: what window w, once shown, translates o to

vars == <<view, content>>

Hidden == [s \in Slots |-> NoWindow]
Shown == {view[m][s] : m \in Maps, s \in Slots} \ {NoWindow}

\* Where a step changes what can be seen through a window.
Changed == {c \in (Shown \cap Shown') \X Offsets :
              content[c[1]][c[2]] # content'[c[1]][c[2]]}

Init == view = [m \in Maps |-> Hidden]

\* The first map shows new windows in slots of the kernel, with any content.
Start(m) ==
  /\ Shown = {}
  /\ \A s \in Slots \ KernelSlots : view'[m][s] = NoWindow
  /\ \A s, t \in KernelSlots :
       view'[m][s] # NoWindow /\ view'[m][s] = view'[m][t] => s = t
  /\ \A n \in Maps \ {m} : view'[n] = Hidden

\* A map is made with its parent's windows in the kernel's slots.
Make(m, p) ==
  /\ view[m] = Hidden
  /\ view' = [view EXCEPT ![m] = [s \in Slots |->
                IF s \in KernelSlots THEN view[p][s] ELSE NoWindow]]
  /\ Changed = {}

\* A map that is deleted takes nothing from the others.
Delete(m) ==
  /\ view' = [view EXCEPT ![m] = Hidden]
  /\ Changed = {}

\* The first mapping in an empty slot is in a window no map shows.
Show(m, s) ==
  /\ view[m][s] = NoWindow
  /\ \E w \in Windows \ Shown :
       /\ view' = [view EXCEPT ![m][s] = w]
       /\ \A o, u \in Offsets :
            content'[w][o] # Nothing /\ content'[w][u] # Nothing => o = u
  /\ Changed = {}

\* Mapping or unmapping one offset; all maps that show the window see it.
Change == \A c, d \in Changed : c = d

Next ==
  \/ UNCHANGED view /\ Change
  \/ \E m \in Maps : Start(m) \/ Delete(m)
  \/ \E m, p \in Maps : Make(m, p)
  \/ \E m \in Maps, s \in Slots : Show(m, s)

Spec == Init /\ [][Next]_vars
=============================================================================
