--------------------------- MODULE MCFileService ---------------------------
(* FileService on small instances.                                          *)
EXTENDS FileService, TLC

CONSTANTS f1, f2, r1, r2, d1, d2

OneFile      == {f1}
TwoFiles     == {f1, f2}
TwoRequests  == {r1, r2}
OneRequest   == {r1}
OneDeletion  == {d1}
TwoDeletions == {d1, d2}

\* Requests are interchangeable, and so are deletions.  Files are not: an idle
\* handler names a CHOOSEn one.
Symmetric == Permutations({r1, r2}) \cup Permutations({d1, d2})
=============================================================================
