--------------------------- MODULE MCPhysicalMedia ---------------------------
(* Two scenes for TLC: one delivery and everything that can befall it; two    *)
(* deliveries that one pass handles, and a restart.                           *)
EXTENDS PhysicalMedia, TLC

CONSTANTS d1, d2

AllKinds == {"movie", "tv", "unknown", "group", "invalid"}

TwoScenes ==
    {[discs |-> {d1}, crashes |-> 2, outages |-> 1, resends |-> 1, resolves |-> 1, others |-> 1],
     [discs |-> {d1, d2}, crashes |-> 1, outages |-> 0, resends |-> 0, resolves |-> 0, others |-> 0]}
=============================================================================
