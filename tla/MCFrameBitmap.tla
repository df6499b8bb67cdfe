--------------------------- MODULE MCFrameBitmap ---------------------------
(* A bitmap of eleven pages in words of three bits (three words and a tail *)
(* no word covers), with the first two pages below "1 MiB".               *)
EXTENDS FrameBitmap

Used(S) == [type |-> "used", pages |-> S]
Other(S) == [type |-> "other", pages |-> S]

\* No used memory; used memory clear of the low pages; used memory that
\* overlaps them; used memory in the tail; all memory used, so that
\* m_free_pages wraps below zero.
MCMaps == { <<>>,
            <<Other({0, 1}), Used({4})>>,
            <<Used({1, 2})>>,
            <<Used({3}), Used({9})>>,
            <<Used(0 .. 10)>> }

\* Requests of one page up to one more than a word holds.
MCRequestsFit == 1 .. 4

=============================================================================
