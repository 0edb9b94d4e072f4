------------------------------ MODULE MCVAlloc ------------------------------
(* Small memory maps for the virtual page allocator.                       *)
EXTENDS VAlloc

Span(base, n) == [base |-> base, numPages |-> n]

\* One region of 16 pages after its bitmap, the first 5 of which can be freed.
MapOne == <<Span(0, 22)>>
=============================================================================
