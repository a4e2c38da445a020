---------------------------- MODULE AbbaOwnership ----------------------------
(* What the ABBA adapter promises Huey, without its journal and without      *)
(* qBittorrent: a correlation ends up holding one torrent hash, joined to    *)
(* the one correlation that holds it, or refused; a hash once held is never  *)
(* held by anyone else, even after its holder has failed.                    *)
CONSTANTS Correlations, Hashes, NoHash, NoCorrelation

\* "nothing", "holds", "joined", "refused", or "lost" (held, and failed since)
VARIABLE own

Nothing == [is |-> "nothing", hash |-> NoHash, root |-> NoCorrelation]

Holders(h) == {c \in Correlations : own[c].is \in {"holds", "lost"} /\ own[c].hash = h}

Init == own = [c \in Correlations |-> Nothing]

Becomes(c, is, h, root) == own' = [own EXCEPT ![c] = [is |-> is, hash |-> h, root |-> root]]

Hold(c) ==
    /\ own[c] = Nothing
    /\ \E h \in Hashes : Holders(h) = {} /\ Becomes(c, "holds", h, NoCorrelation)

Join(c) ==
    /\ own[c] = Nothing
    /\ \E h \in Hashes : \E root \in Holders(h) : Becomes(c, "joined", h, root)

Refuse(c) == own[c] = Nothing /\ Becomes(c, "refused", NoHash, NoCorrelation)

Lose(c) == own[c].is = "holds" /\ Becomes(c, "lost", own[c].hash, NoCorrelation)

Next == \E c \in Correlations : Hold(c) \/ Join(c) \/ Refuse(c) \/ Lose(c)

Spec == Init /\ [][Next]_own
=============================================================================
