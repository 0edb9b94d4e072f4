---------------------------- MODULE MCPhysAlloc -----------------------------
(* Small memory maps for the physical allocator.                           *)
EXTENDS PhysAlloc

Span(base, n) == [base |-> base, numPages |-> n]

\* Two regions a hole apart, and a range more than kMaxRegions allows.  The
\* last word of the second bitmap has stray bits.
MapTwo == <<Span(0, 5), Span(10, 2), Span(30, 1)>>

\* Two ranges that touch.  The first has four pages to give and a bitmap of two
\* bytes, which are set whole: its last four bits stand for the second range's
\* bitmap page and for its first three pages.
MapClose == <<Span(0, 5), Span(5, 5)>>
=============================================================================
