----------------------------- MODULE MCNumbers ------------------------------
EXTENDS Numbers

\* Both sides of the limits of the fixnums, -7 .. 7, of size_t, and beyond.
MCLiterals == {-9, -8, -7, -2, -1, 0, 1, 2, 3, 4, 7, 8, 9, 15, 16}
\* Whole and half doubles on both sides of zero, of the fixnums and of size_t.
MCDoubles == {2 * n : n \in {-10, -8, -1, 0, 3, 4, 6, 8}} \cup {3}
=============================================================================
