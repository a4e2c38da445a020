--------------------------- MODULE MCBookBotImport ---------------------------
(* Two scenes for TLC: two torrents that may want one directory, with a crash *)
(* and a title that changes; one torrent beside an ARR application's, over    *)
(* two crashes, the retention interval and the return of a deleted torrent.   *)
EXTENDS BookBotImport, TLC

CONSTANTS t1, t2, a1

TwoScenes ==
    {[torrents |-> {t1, t2}, crashes |-> 2, returns |-> 0, retitles |-> 1, retention |-> FALSE],
     [torrents |-> {t1, a1}, crashes |-> 2, returns |-> 1, retitles |-> 1, retention |-> TRUE]}

Symmetric == Permutations(Torrents) \cup Permutations(Titles)
=============================================================================
