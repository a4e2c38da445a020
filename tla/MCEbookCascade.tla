--------------------------- MODULE MCEbookCascade ---------------------------
(* Instances of EbookCascade for TLC. *)
EXTENDS EbookCascade, TLC

CONSTANTS r1, r2, w1, w2, p1, p2

LibraryFirst == <<"lazylibrarian", "shelfarr">>
LibraryOnly == <<"lazylibrarian">>
ShelfarrOnly == <<"shelfarr">>

Symmetric == Permutations(Requests) \cup Permutations(Works) \cup Permutations(Providers)
=============================================================================
