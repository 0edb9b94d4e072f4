------------------------------ MODULE MCVmMaps ------------------------------
(* Small address spaces for TLC.                                           *)
EXTENDS VmMaps

\* Six entries a structure: entries 0 to 2 of a PML4 are the user's, 3 is the
\* aperture, 4 VAlloc's, 5 other kernel addresses.
Slot(i) == i * Reach(4)

MCFrames == 1 .. 13
MCRecognised == 1 .. 7

\* A region of two pages, one that user code may write.
MCRegions == {[physBase |-> 40, length |-> 2, mode |-> {"write", "user"}]}

UserBase == 1
KernelBase == Slot(5)
MCBases == {UserBase, KernelBase}

\* The second allocation needs a page table that the zone's does not.
Zone == Slot(4)
Other == Slot(4) + Reach(2)
MCVAreas == {Zone, Other}

MCAccessed == {Other}
MCWatched == {UserBase, UserBase + 1, KernelBase, Zone, Other, Slot(3)}
=============================================================================
