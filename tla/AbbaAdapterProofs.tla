-------------------------- MODULE AbbaAdapterProofs --------------------------
(***************************************************************************)
(* Theorems about AbbaAdapter, for any number of correlations, listings    *)
(* and hashes, and however often the world changes.                        *)
(*                                                                         *)
(* The argument is about one bit of the journal's row, mutated: it is      *)
(* durable before anything reaches qBittorrent, it is never taken back, and *)
(* a row that has it keeps its hash for good.  A row without it may be     *)
(* released, so nobody joins it; and nothing was ever sent for it.         *)
(***************************************************************************)
EXTENDS AbbaAdapter, FiniteSetTheorems, TLAPS

-----------------------------------------------------------------------------
(* Types                                                                   *)

State == {"none", "prepared", "submitting", "queued", "submission_uncertain", "failed"}
Corr == Correlations \cup {NoCorrelation}
Row == [cand : Candidates \cup {NoHash}, hash : Hashes \cup {NoHash}, state : State,
        changed : BOOLEAN, canon : Corr, candOwner : Corr, mutated : BOOLEAN]
TorrentRow == [there : BOOLEAN, tags : SUBSET Correlations,
               cat : {"none", "audiobooks", "audiobooks-imported", "other"}, bad : BOOLEAN]
HandPC == {"idle", "resume", "resolve", "submit", "add", "unsent", "refused", "lost",
           "confirm", "adopt", "tag", "observe", "progress"}
HandRow == [pc : HandPC, corr : Corr, seen : TorrentRow, was : State]

Typed == TypeOK /\ hand \in HandRow

-----------------------------------------------------------------------------
(* The invariant                                                           *)

\* The row of a correlation: what is in doubt or done was mutated first, and
\* what was mutated owns its hash and its listing.
RowInv ==
    \A c \in Correlations : LET r == journal[c] IN
        /\ (r.state = "none") <=> (r = NoRow)
        /\ r.candOwner # NoCorrelation => r.canon # NoCorrelation \/ r.changed
        /\ r.changed => r.state = "failed" /\ ~r.mutated
        /\ r.mutated => Updatable(r) /\ r.hash # NoHash
        /\ r.state \in {"submitting", "queued", "submission_uncertain"} => r.mutated
        /\ r.state \notin {"none", "failed"} => r.hash # NoHash

\* Aliases lead to a row that can no longer be released.
AliasInv ==
    \A c \in Correlations : LET o == journal[c].canon IN
        o # NoCorrelation =>
            /\ journal[c].hash # NoHash
            /\ journal[o].mutated /\ journal[o].hash = journal[c].hash

\* One owner per hash and per listing.
UniqueInv ==
    /\ \A h \in Hashes : \A c, d \in HashOwners(h) : c = d
    /\ \A k \in Candidates : \A c, d \in CandidateOwners(k) : c = d

\* The call under way is about a row that is still to be settled.
HandInv ==
    hand.pc # "idle" =>
        /\ hand.corr \in Correlations
        /\ Updatable(journal[hand.corr]) /\ journal[hand.corr].state \notin {"none", "failed"}
        /\ hand.pc \in {"add", "unsent", "refused", "lost", "confirm", "tag", "progress"} =>
               journal[hand.corr].mutated
        /\ hand.pc \in {"add", "unsent", "refused", "lost", "confirm"} =>
               journal[hand.corr].state = "submitting"
        /\ hand.pc \in {"resolve", "submit"} => hand.was = "prepared"

\* What was sent belongs to a mutated row, and a prepared row sent nothing.
SentInv ==
    /\ \A h \in Hashes : sends[h] # 0 =>
           \E c \in Correlations : journal[c].hash = h /\ journal[c].mutated
    /\ \A c \in Correlations :
           journal[c].state = "prepared" /\ journal[c].canon = NoCorrelation =>
               sends[journal[c].hash] = 0

\* Nothing was sent either for a row that the call, an earlier one or a later
\* one may put back to prepared.
UnsentInv ==
    hand.pc \in {"submit", "add", "unsent"}
      \/ (hand.pc \in {"resume", "resolve", "adopt", "tag"} /\ hand.was = "prepared")
    => sends[Hash] = 0

JournalInv == RowInv /\ AliasInv /\ UniqueInv /\ SentInv /\ TagsAreJournalled /\ AddedOnce
CallInv == HandInv /\ UnsentInv

IInv == Typed /\ JournalInv /\ CallInv

-----------------------------------------------------------------------------
(* The operators                                                           *)

LEMMA OneOfSome ==
    ASSUME NEW S \in SUBSET Correlations
    PROVE  /\ S = {} => OneOf(S) = NoCorrelation
           /\ S # {} => OneOf(S) \in S
           /\ OneOf(S) = NoCorrelation => S = {}
BY NoneAreNone DEF OneOf

\* Who owns a listing or a hash has a row of it that is not released.
LEMMA OwnersKept ==
    /\ \A k : CandidateOwners(k) \subseteq Correlations /\ \A c \in CandidateOwners(k) :
           journal[c].cand = k /\ journal[c].candOwner = NoCorrelation /\ Retained(journal[c])
    /\ \A h : HashOwners(h) \subseteq Correlations /\ \A c \in HashOwners(h) :
           journal[c].hash = h /\ journal[c].canon = NoCorrelation /\ Retained(journal[c])
BY DEF CandidateOwners, HashOwners

\* Who is neither released nor still to be settled was mutated.
LEMMA SettledOwner ==
    ASSUME Typed, RowInv, NEW c \in Correlations, Retained(journal[c]),
           journal[c].canon = NoCorrelation, ~Unsettled(c)
    PROVE  journal[c].mutated
BY NoneAreNone DEF RowInv, Unsettled, Retained, Typed, TypeOK

\* The owner a new row is joined to was mutated and holds that hash.
LEMMA HashOwnerKept ==
    ASSUME Typed, JournalInv, NEW k \in Candidates, NEW h \in Hashes \cup {NoHash},
           ~Pending(k, h), HashOwner(k, h) # NoCorrelation
    PROVE  /\ HashOwner(k, h) \in Correlations /\ h \in Hashes
           /\ journal[HashOwner(k, h)].mutated /\ journal[HashOwner(k, h)].hash = h
<1> DEFINE o == OneOf(CandidateOwners(k))
<1> DEFINE n == HashOwner(k, h)
<1>1. h \in Hashes
  BY DEF HashOwner
<1>2. CASE SameResult(k, h)
  <2>1. /\ o \in Correlations /\ Retained(journal[o]) /\ journal[o].hash = h
    BY <1>2, OneOfSome, OwnersKept DEF SameResult
  <2>2. n = IF journal[o].canon = NoCorrelation THEN o ELSE journal[o].canon
    BY <1>1, <1>2, NoneAreNone DEF HashOwner
  <2>3. CASE journal[o].canon = NoCorrelation
    <3>1. n = o /\ ~Unsettled(o)
      BY <2>2, <2>3 DEF Pending
    <3>2. journal[o].mutated
      BY <2>1, <2>3, <3>1, SettledOwner DEF JournalInv
    <3> QED
      BY <1>1, <2>1, <3>1, <3>2
  <2>4. CASE journal[o].canon # NoCorrelation
    <3>1. n = journal[o].canon /\ n \in Correlations
      BY <2>1, <2>2, <2>4 DEF Typed, TypeOK
    <3> QED
      BY <1>1, <2>1, <2>4, <3>1 DEF JournalInv, AliasInv
  <2> QED
    BY <2>3, <2>4
<1>3. CASE ~SameResult(k, h)
  <2>1. n = OneOf(HashOwners(h))
    BY <1>1, <1>3, NoneAreNone DEF HashOwner
  <2>2. /\ n \in Correlations /\ Retained(journal[n]) /\ journal[n].hash = h
        /\ journal[n].canon = NoCorrelation
    BY <2>1, OneOfSome, OwnersKept
  <2>3. ~Unsettled(n)
    BY DEF Pending
  <2> QED
    BY <1>1, <2>2, <2>3, SettledOwner DEF JournalInv
<1> QED
  BY <1>2, <1>3

\* A row that is joined to nobody has no rival for its hash.
LEMMA NoHashOwner ==
    ASSUME NEW k \in Candidates, NEW h \in Hashes, Typed, HashOwner(k, h) = NoCorrelation
    PROVE  HashOwners(h) = {}
<1> DEFINE o == OneOf(CandidateOwners(k))
<1>1. ~SameResult(k, h)
  <2> SUFFICES ASSUME SameResult(k, h) PROVE FALSE
    OBVIOUS
  <2>1. HashOwner(k, h) = IF journal[o].canon = NoCorrelation THEN o ELSE journal[o].canon
    BY NoneAreNone DEF HashOwner
  <2> QED
    BY <2>1 DEF SameResult
<1>2. HashOwner(k, h) = OneOf(HashOwners(h))
  BY <1>1, NoneAreNone DEF HashOwner
<1> QED
  BY <1>2, OneOfSome, OwnersKept

\* A hash that was sent has an owner.
LEMMA SentIsOwned ==
    ASSUME Typed, JournalInv, NEW h \in Hashes, HashOwners(h) = {}
    PROVE  sends[h] = 0
BY DEF JournalInv, SentInv, RowInv, NoRow, HashOwners, Retained, Updatable

-----------------------------------------------------------------------------
(* What a step does to the journal                                         *)

LEMMA NewRowShape ==
    ASSUME Typed, JournalInv, NEW k \in Candidates, NEW h \in Hashes \cup {NoHash},
           NEW state \in {"prepared", "failed"}, ~Pending(k, h)
    PROVE  LET r == NewRow(k, h, state) IN
           /\ r \in Row /\ r.cand = k /\ r.hash = h /\ ~r.mutated
           /\ r.state \in {"prepared", "failed"} /\ (r.state = "prepared" => state = "prepared")
           /\ r.canon = HashOwner(k, h) /\ r.candOwner = OneOf(CandidateOwners(k))
           /\ r.changed => r.state = "failed"
           /\ r.candOwner # NoCorrelation => r.canon # NoCorrelation \/ r.changed
<1> DEFINE o == OneOf(CandidateOwners(k))
<1> DEFINE clash == o # NoCorrelation /\ ~SameResult(k, h)
<1>1. o \in Corr
  BY OneOfSome, OwnersKept DEF Corr
<1>2. HashOwner(k, h) \in Corr
  BY HashOwnerKept DEF Corr
<1>3. NewRow(k, h, state) =
        [cand |-> k, hash |-> h, state |-> IF clash THEN "failed" ELSE state,
         changed |-> clash, canon |-> HashOwner(k, h), candOwner |-> o, mutated |-> FALSE]
  BY DEF NewRow
<1>4. o # NoCorrelation /\ ~clash => HashOwner(k, h) # NoCorrelation
  BY DEF HashOwner, SameResult
<1>5. clash \in BOOLEAN
  OBVIOUS
<1> HIDE DEF o, clash
<1>6. NewRow(k, h, state) \in Row
  BY <1>1, <1>2, <1>3, <1>5 DEF Row, State, Corr
<1> QED
  BY <1>3, <1>4, <1>6 DEF o

LEMMA NewRowKept ==
    ASSUME Typed, JournalInv, NEW c \in Correlations, journal[c] = NoRow,
           NEW k \in Candidates, NEW h \in Hashes \cup {NoHash},
           NEW state \in {"prepared", "failed"}, h = NoHash => state = "failed", ~Pending(k, h),
           journal' = [journal EXCEPT ![c] = NewRow(k, h, state)], UNCHANGED <<torrents, sends>>
    PROVE  journal' \in [Correlations -> Row] /\ JournalInv'
<1> DEFINE r == NewRow(k, h, state)
<1>1. /\ r \in Row /\ r.cand = k /\ r.hash = h /\ ~r.mutated
      /\ r.state \in {"prepared", "failed"} /\ (r.state = "prepared" => state = "prepared")
      /\ r.canon = HashOwner(k, h) /\ r.candOwner = OneOf(CandidateOwners(k))
      /\ r.changed => r.state = "failed"
      /\ r.candOwner # NoCorrelation => r.canon # NoCorrelation \/ r.changed
  BY NewRowShape
<1>2. journal'[c] = r /\ \A d \in Correlations : d # c => journal'[d] = journal[d]
  BY DEF Typed, TypeOK
<1>3. journal' \in [Correlations -> Row]
  BY <1>1 DEF Typed, TypeOK, Row, State, Corr
<1>4. ~journal[c].mutated /\ journal[c].state = "none"
  BY DEF NoRow
<1> HIDE DEF r
<1>5. RowInv'
  <2>1. r # NoRow /\ r.state # "none" /\ (r.state # "failed" => r.hash # NoHash)
    BY <1>1 DEF NoRow
  <2> QED
    BY <1>1, <1>2, <2>1 DEF JournalInv, RowInv, Updatable
<1>6. AliasInv'
  <2> SUFFICES ASSUME NEW d \in Correlations, journal'[d].canon # NoCorrelation
               PROVE  /\ journal'[d].hash # NoHash
                      /\ journal'[journal'[d].canon].mutated
                      /\ journal'[journal'[d].canon].hash = journal'[d].hash
    BY DEF AliasInv
  <2>1. journal'[d].canon \in Correlations
    BY <1>3 DEF Row, Corr
  <2>2. CASE d = c
    BY <1>1, <1>2, <1>4, <2>1, <2>2, HashOwnerKept, NoneAreNone
  <2>3. CASE d # c
    BY <1>2, <1>4, <2>1, <2>3 DEF JournalInv, AliasInv
  <2> QED
    BY <2>2, <2>3
<1>7. \A x \in Hashes : HashOwners(x)' \subseteq HashOwners(x) \cup {c}
  BY <1>2 DEF HashOwners
<1>8. \A x \in Candidates : CandidateOwners(x)' \subseteq CandidateOwners(x) \cup {c}
  BY <1>2 DEF CandidateOwners
<1>9. r.state = "prepared" /\ r.canon = NoCorrelation => h \in Hashes /\ HashOwners(h) = {}
  BY <1>1, NoHashOwner
<1>10. UniqueInv'
  <2>1. ASSUME NEW x \in Hashes, c \in HashOwners(x)' PROVE HashOwners(x) = {}
    <3>1. r.hash = x /\ r.canon = NoCorrelation /\ Retained(r)
      BY <1>2, <2>1 DEF HashOwners
    <3> QED
      BY <1>1, <1>9, <3>1 DEF Retained
  <2>2. ASSUME NEW x \in Candidates, c \in CandidateOwners(x)' PROVE CandidateOwners(x) = {}
    <3>1. r.cand = x /\ r.candOwner = NoCorrelation
      BY <1>2, <2>2 DEF CandidateOwners
    <3> QED
      BY <1>1, <3>1, OneOfSome, OwnersKept
  <2> QED
    BY <1>7, <1>8, <2>1, <2>2 DEF JournalInv, UniqueInv
<1>11. SentInv'
  <2>1. \A x \in Hashes : sends'[x] # 0 =>
           \E d \in Correlations : journal'[d].hash = x /\ journal'[d].mutated
    BY <1>2, <1>4 DEF JournalInv, SentInv
  <2>2. \A d \in Correlations : journal'[d].state = "prepared" /\ journal'[d].canon = NoCorrelation =>
           sends'[journal'[d].hash] = 0
    BY <1>1, <1>2, <1>9, SentIsOwned DEF JournalInv, SentInv
  <2> QED
    BY <2>1, <2>2 DEF SentInv
<1>12. TagsAreJournalled' /\ AddedOnce'
  <2>1. \A x \in Hashes : \A d \in torrents[x].tags : d \in Correlations /\ d # c
    BY <1>4 DEF JournalInv, TagsAreJournalled, Typed, TypeOK
  <2> QED
    BY <1>2, <2>1 DEF JournalInv, TagsAreJournalled, AddedOnce
<1> QED
  BY <1>3, <1>5, <1>6, <1>10, <1>11, <1>12 DEF JournalInv

\* The row of the call under way is the only one a step writes, and it keeps
\* everything but its state and the bit.
LEMMA RecordShape ==
    ASSUME Typed, HandInv, hand.pc # "idle", NEW state, NEW started \in BOOLEAN,
           state \in State \ {"none"}, Record(state, started)
    PROVE  LET c == hand.corr IN
           /\ c \in Correlations /\ Updatable(journal[c]) /\ journal[c].state \notin {"none", "failed"}
           /\ journal' \in [Correlations -> Row]
           /\ journal'[c] = [journal[c] EXCEPT !.state = state, !.mutated = @ \/ started]
           /\ \A d \in Correlations : d # c => journal'[d] = journal[d]
           /\ journal'[c].state = state /\ journal'[c].mutated = (journal[c].mutated \/ started)
           /\ journal'[c].hash = journal[c].hash /\ journal'[c].cand = journal[c].cand
           /\ journal'[c].changed = journal[c].changed
           /\ journal'[c].canon = NoCorrelation /\ journal'[c].candOwner = NoCorrelation
<1> DEFINE c == hand.corr
<1>1. c \in Correlations /\ Updatable(journal[c]) /\ journal[c].state \notin {"none", "failed"}
  BY DEF HandInv
<1>2. journal \in [Correlations -> Row]
  BY DEF Typed, TypeOK, Row, State, Corr
<1>3. journal' = [journal EXCEPT ![c].state = state, ![c].mutated = @ \/ started]
  BY <1>1 DEF Record, Written
<1> HIDE DEF c
<1>4. /\ journal'[c] = [journal[c] EXCEPT !.state = state, !.mutated = @ \/ started]
      /\ \A d \in Correlations : d # c => journal'[d] = journal[d]
  BY <1>1, <1>2, <1>3
<1>5. journal[c] \in Row /\ (journal[c].mutated \/ started) \in BOOLEAN
  BY <1>1, <1>2
<1>6. journal'[c] \in Row
  BY <1>4, <1>5 DEF Row
<1>7. journal' \in [Correlations -> Row]
  BY <1>1, <1>2, <1>3, <1>4, <1>6
<1>8. /\ journal'[c].state = state /\ journal'[c].mutated = (journal[c].mutated \/ started)
      /\ journal'[c].hash = journal[c].hash /\ journal'[c].cand = journal[c].cand
      /\ journal'[c].changed = journal[c].changed
      /\ journal'[c].canon = journal[c].canon /\ journal'[c].candOwner = journal[c].candOwner
  BY <1>4, <1>5 DEF Row
<1> QED
  BY <1>1, <1>4, <1>7, <1>8 DEF c, Updatable

\* Tags only ever gain the correlation of the call, and only in its torrent.
Tagged(t) ==
    \A h \in Hashes : \A c \in torrents'[h].tags :
        c \in torrents[h].tags \/ (t /\ c = hand.corr /\ h = Hash)

LEMMA RecordKept ==
    ASSUME Typed, JournalInv, HandInv, hand.pc # "idle", NEW state, NEW started \in BOOLEAN,
           state \in State \ {"none"}, Record(state, started),
           state \notin {"prepared", "failed"} => journal[hand.corr].mutated \/ started,
           state = "failed" => ~started,
           state = "prepared" => sends[Hash] = 0,
           Tagged(journal[hand.corr].mutated), UNCHANGED sends
    PROVE  JournalInv'
<1> DEFINE c == hand.corr
<1>1. /\ c \in Correlations /\ Updatable(journal[c]) /\ journal[c].state \notin {"none", "failed"}
      /\ \A d \in Correlations : d # c => journal'[d] = journal[d]
      /\ journal'[c].state = state /\ journal'[c].mutated = (journal[c].mutated \/ started)
      /\ journal'[c].hash = journal[c].hash /\ journal'[c].cand = journal[c].cand
      /\ journal'[c].changed = journal[c].changed
      /\ journal'[c].canon = NoCorrelation /\ journal'[c].candOwner = NoCorrelation
  BY RecordShape
<1>2. journal[c].hash \in Hashes /\ ~journal[c].changed /\ journal[c].canon = NoCorrelation
      /\ journal[c].candOwner = NoCorrelation
  BY <1>1 DEF JournalInv, RowInv, Typed, TypeOK, Updatable
<1> HIDE DEF c
<1>3. RowInv'
  <2>1. journal'[c].state # "none" /\ journal'[c] # NoRow
    BY <1>1 DEF NoRow, State
  <2>2. journal'[c].candOwner = NoCorrelation /\ Updatable(journal'[c])
    BY <1>1 DEF Updatable
  <2>3. ~journal'[c].changed /\ journal'[c].hash # NoHash
    BY <1>1, <1>2, NoneAreNone
  <2>4. journal'[c].state \notin {"prepared", "failed"} => journal'[c].mutated
    BY <1>1 DEF c
  <2> QED
    BY <1>1, <2>1, <2>2, <2>3, <2>4 DEF JournalInv, RowInv, Updatable
<1>4. AliasInv'
  BY <1>1 DEF JournalInv, AliasInv, Typed, TypeOK
<1>5. UniqueInv'
  <2>1. Retained(journal[c])
    BY <1>1 DEF Retained
  <2>2. \A h \in Hashes : HashOwners(h)' \subseteq HashOwners(h)
    BY <1>1, <1>2, <2>1 DEF HashOwners
  <2>3. \A k \in Candidates : CandidateOwners(k)' \subseteq CandidateOwners(k)
    BY <1>1, <1>2, <2>1 DEF CandidateOwners
  <2> QED
    BY <2>2, <2>3 DEF JournalInv, UniqueInv
<1>6. SentInv'
  <2>1. \A h \in Hashes : sends'[h] # 0 =>
           \E d \in Correlations : journal'[d].hash = h /\ journal'[d].mutated
    <3> SUFFICES ASSUME NEW h \in Hashes, sends[h] # 0
                 PROVE  \E d \in Correlations : journal'[d].hash = h /\ journal'[d].mutated
      OBVIOUS
    <3>1. PICK d \in Correlations : journal[d].hash = h /\ journal[d].mutated
      BY DEF JournalInv, SentInv
    <3>2. journal'[d].hash = h /\ journal'[d].mutated
      BY <1>1, <3>1
    <3> QED
      BY <3>2
  <2>2. \A d \in Correlations : journal'[d].state = "prepared" /\ journal'[d].canon = NoCorrelation =>
           sends'[journal'[d].hash] = 0
    BY <1>1 DEF JournalInv, SentInv, Hash, c
  <2> QED
    BY <2>1, <2>2 DEF SentInv
<1>7. TagsAreJournalled'
  <2> SUFFICES ASSUME NEW h \in Hashes, NEW d \in torrents'[h].tags
               PROVE  /\ journal'[d].hash = h /\ journal'[d].mutated
                      /\ journal'[d].canon = NoCorrelation
    BY DEF TagsAreJournalled
  <2>1. CASE d \in torrents[h].tags
    <3>1. d \in Correlations /\ journal[d].hash = h /\ journal[d].mutated /\ journal[d].canon = NoCorrelation
      BY <2>1 DEF JournalInv, TagsAreJournalled, Typed, TypeOK
    <3> QED
      BY <1>1, <3>1
  <2>2. CASE d \notin torrents[h].tags
    BY <1>1, <2>2 DEF Tagged, Hash, c
  <2> QED
    BY <2>1, <2>2
<1> QED
  BY <1>3, <1>4, <1>5, <1>6, <1>7 DEF JournalInv, AddedOnce

\* A step that writes no row keeps the journal's promises.
LEMMA TagKept ==
    ASSUME Typed, JournalInv, HandInv, hand.pc # "idle", UNCHANGED <<journal, sends>>,
           Tagged(journal[hand.corr].mutated)
    PROVE  JournalInv'
<1>1. Updatable(journal[hand.corr])
  BY DEF HandInv
<1>2. TagsAreJournalled'
  BY <1>1 DEF JournalInv, TagsAreJournalled, Tagged, Hash, Updatable
<1> QED
  BY <1>2 DEF JournalInv, RowInv, AliasInv, UniqueInv, SentInv, AddedOnce, HashOwners, CandidateOwners

\* So does one that touches neither a row nor a tag.
LEMMA JournalStill ==
    ASSUME JournalInv, UNCHANGED <<journal, sends>>,
           \A h \in Hashes : torrents'[h].tags \subseteq torrents[h].tags
    PROVE  JournalInv'
BY DEF JournalInv, RowInv, AliasInv, UniqueInv, SentInv, AddedOnce, HashOwners, CandidateOwners,
   TagsAreJournalled

-----------------------------------------------------------------------------
(* The call under way                                                      *)

LEMMA IdleCall ==
    ASSUME hand' = Idle
    PROVE  hand' \in HandRow /\ CallInv'
<1>1. hand'.pc = "idle"
  BY DEF Idle
<1>2. hand' \in HandRow
  BY DEF Idle, HandRow, HandPC, Corr, TorrentRow, NoTorrent, State
<1> QED
  BY <1>1, <1>2 DEF CallInv, HandInv, UnsentInv

LEMMA GotoShape ==
    ASSUME Typed, NEW pc \in HandPC, Goto(pc)
    PROVE  hand' \in HandRow /\ hand'.pc = pc /\ hand'.corr = hand.corr /\ hand'.was = hand.was
BY DEF Goto, Typed, HandRow

LEMMA TypedFrom ==
    ASSUME Typed, UNCHANGED outside, journal' \in [Correlations -> Row],
           torrents' \in [Hashes -> TorrentRow], hand' \in HandRow, sends' \in [Hashes -> Nat]
    PROVE  Typed'
BY DEF Typed, TypeOK, outside, Row, State, Corr, TorrentRow, HandRow, HandPC

LEMMA TypedParts ==
    ASSUME Typed
    PROVE  /\ journal \in [Correlations -> Row] /\ torrents \in [Hashes -> TorrentRow]
           /\ hand \in HandRow /\ sends \in [Hashes -> Nat]
BY DEF Typed, TypeOK, Row, State, Corr, TorrentRow

LEMMA AtWork ==
    ASSUME IInv, hand.pc # "idle"
    PROVE  /\ hand.corr \in Correlations /\ Hash \in Hashes /\ torrents[Hash] \in TorrentRow
           /\ Updatable(journal[hand.corr]) /\ journal[hand.corr].state \in State \ {"none", "failed"}
BY TypedParts DEF IInv, CallInv, HandInv, JournalInv, RowInv, Hash, Row, State

\* A step that ends the call with what it writes.
LEMMA RecordAndReturn ==
    ASSUME IInv, hand.pc # "idle", NEW state, NEW started \in BOOLEAN,
           state \in State \ {"none"}, Record(state, started), hand' = Idle,
           state \notin {"prepared", "failed"} => journal[hand.corr].mutated \/ started,
           state = "failed" => ~started,
           state = "prepared" => sends[Hash] = 0,
           torrents' \in [Hashes -> TorrentRow], Tagged(journal[hand.corr].mutated),
           UNCHANGED <<sends, outside>>
    PROVE  IInv'
<1>1. JournalInv'
  BY RecordKept DEF IInv, CallInv
<1>2. journal' \in [Correlations -> Row]
  BY RecordShape DEF IInv, CallInv
<1>3. hand' \in HandRow /\ CallInv'
  BY IdleCall
<1>4. Typed'
  BY <1>2, <1>3, TypedFrom, TypedParts DEF IInv
<1> QED
  BY <1>1, <1>3, <1>4 DEF IInv

\* A step that ends the call, and writes nothing.
LEMMA JustReturn ==
    ASSUME IInv, hand' = Idle, UNCHANGED <<journal, torrents, sends, outside>>
    PROVE  IInv'
<1>1. JournalInv'
  BY JournalStill DEF IInv
<1>2. hand' \in HandRow /\ CallInv'
  BY IdleCall
<1>3. Typed'
  BY <1>2, TypedFrom, TypedParts DEF IInv
<1> QED
  BY <1>1, <1>2, <1>3 DEF IInv

\* A step that goes on, and writes nothing.
LEMMA GoOn ==
    ASSUME IInv, hand.pc # "idle", NEW pc \in HandPC, hand' \in HandRow, hand'.pc = pc,
           hand'.corr = hand.corr, hand'.was = hand.was,
           torrents' \in [Hashes -> TorrentRow], Tagged(journal[hand.corr].mutated),
           UNCHANGED <<journal, sends, outside>>,
           pc \in {"add", "unsent", "refused", "lost", "confirm", "tag", "progress"} =>
               journal[hand.corr].mutated,
           pc \notin {"add", "unsent", "refused", "lost", "confirm"},
           pc \in {"resolve", "submit"} => hand.was = "prepared",
           pc \in {"submit", "unsent"} \/
             (pc \in {"resume", "resolve", "adopt", "tag"} /\ hand.was = "prepared") => sends[Hash] = 0
    PROVE  IInv'
<1>1. JournalInv'
  BY TagKept DEF IInv, CallInv
<1>2. CallInv'
  BY AtWork DEF CallInv, HandInv, UnsentInv, Hash
<1>3. Typed'
  BY TypedFrom, TypedParts DEF IInv
<1> QED
  BY <1>1, <1>2, <1>3 DEF IInv

\* A step that writes the row and goes on.
LEMMA RecordAndGoOn ==
    ASSUME IInv, hand.pc # "idle", NEW state, state \in State \ {"none", "failed"},
           Record(state, TRUE), NEW pc \in {"add", "tag", "progress"}, Goto(pc),
           pc = "add" => state = "submitting",
           state = "prepared" => sends[Hash] = 0,
           pc = "add" \/ (pc = "tag" /\ hand.was = "prepared") => sends[Hash] = 0,
           UNCHANGED <<torrents, sends, outside>>
    PROVE  IInv'
<1>1. Tagged(journal[hand.corr].mutated)
  BY DEF Tagged
<1>2. JournalInv'
  BY <1>1, RecordKept DEF IInv, CallInv
<1>3. /\ journal' \in [Correlations -> Row]
      /\ journal'[hand.corr].state = state /\ journal'[hand.corr].mutated
      /\ Updatable(journal'[hand.corr]) /\ journal'[hand.corr].hash = Hash
  BY RecordShape DEF IInv, CallInv, Updatable, Hash
<1>4. hand' \in HandRow /\ hand'.pc = pc /\ hand'.corr = hand.corr /\ hand'.was = hand.was
  BY GotoShape DEF IInv, HandPC
<1>5. CallInv'
  BY <1>3, <1>4, AtWork DEF CallInv, HandInv, UnsentInv, Hash
<1>6. Typed'
  BY <1>3, <1>4, TypedFrom, TypedParts DEF IInv
<1> QED
  BY <1>2, <1>5, <1>6 DEF IInv

-----------------------------------------------------------------------------
(* The actions                                                             *)

LEMMA Untagged ==
    ASSUME UNCHANGED torrents
    PROVE  \A t : Tagged(t)
BY DEF Tagged

\* A call begins with a row that is still to be settled.
LEMMA CallBegins ==
    ASSUME IInv, NEW c \in Correlations, NEW pc \in {"resume", "observe"}, NEW seen \in TorrentRow,
           journal[c] # NoRow, ~Settled(journal[c]),
           hand' = [pc |-> pc, corr |-> c, seen |-> seen, was |-> journal[c].state],
           UNCHANGED <<journal, torrents, sends, outside>>
    PROVE  IInv'
<1>1. JournalInv'
  BY JournalStill DEF IInv
<1>2. journal[c] \in Row /\ journal[c].state \notin {"none", "failed"} /\ Updatable(journal[c])
  BY TypedParts DEF IInv, JournalInv, RowInv, Settled, Updatable
<1>3. journal[c].state \in State
  BY <1>2 DEF Row
<1>4. hand' \in HandRow
  BY <1>3 DEF HandRow, HandPC, Corr
<1>5. journal[c].state = "prepared" => sends[journal[c].hash] = 0
  BY <1>2 DEF IInv, JournalInv, SentInv, Updatable
<1>6. CallInv'
  BY <1>2, <1>5 DEF CallInv, HandInv, UnsentInv, Hash
<1>7. Typed'
  BY <1>4, TypedFrom, TypedParts DEF IInv
<1> QED
  BY <1>1, <1>6, <1>7 DEF IInv

LEMMA GrabStep ==
    ASSUME IInv, NEW c \in Correlations, NEW k \in Candidates, Grab(c, k)
    PROVE  IInv'
<1>1. hand.pc = "idle"
  BY DEF Grab
<1>2. CASE Known(c, k)
  <2>1. hand' = [pc |-> "resume", corr |-> c, seen |-> NoTorrent, was |-> journal[c].state]
    BY <1>2 DEF Known, Idle
  <2>2. NoTorrent \in TorrentRow
    BY DEF NoTorrent, TorrentRow
  <2> QED
    BY <1>2, <2>1, <2>2, CallBegins DEF Known
<1>3. CASE Gone(c, k)
  <2>1. journal' \in [Correlations -> Row] /\ JournalInv'
    BY <1>3, NewRowKept DEF Gone, IInv
  <2>2. CallInv'
    BY <1>1, <1>3 DEF Gone, CallInv, HandInv, UnsentInv
  <2>3. Typed'
    BY <1>3, <2>1, TypedFrom, TypedParts DEF Gone, IInv
  <2> QED
    BY <2>1, <2>2, <2>3 DEF IInv
<1>4. CASE Prepare(c, k)
  <2> DEFINE r == NewRow(k, page[k], "prepared")
  <2>1. page[k] \in Hashes /\ ~Pending(k, page[k]) /\ journal[c] = NoRow
    BY <1>4 DEF Prepare, IInv, Typed, TypeOK
  <2>2. journal' = [journal EXCEPT ![c] = r] /\ UNCHANGED <<torrents, sends, outside>>
    BY <1>4 DEF Prepare
  <2>3. journal' \in [Correlations -> Row] /\ JournalInv' /\ journal'[c] = r
    BY <2>1, <2>2, NewRowKept, TypedParts, NoneAreNone DEF IInv
  <2>4. CASE Settled(r)
    <3>1. hand' = Idle
      BY <1>4, <2>4 DEF Prepare
    <3>2. hand' \in HandRow /\ CallInv'
      BY <3>1, IdleCall
    <3>3. Typed'
      BY <2>2, <2>3, <3>2, TypedFrom, TypedParts DEF IInv
    <3> QED
      BY <2>3, <3>2, <3>3 DEF IInv
  <2>5. CASE ~Settled(r)
    <3>1. hand' = [pc |-> "submit", corr |-> c, seen |-> NoTorrent, was |-> "prepared"]
      BY <1>4, <2>5 DEF Prepare, Idle
    <3>2. hand' \in HandRow
      BY <3>1 DEF HandRow, HandPC, Corr, NoTorrent, TorrentRow, State
    <3>3. r.canon = NoCorrelation /\ r.state = "prepared" /\ r.candOwner = NoCorrelation
      BY <2>1, <2>5, NewRowShape DEF Settled, IInv
    <3>4. sends'[journal'[c].hash] = 0
      BY <2>3, <3>3 DEF JournalInv, SentInv
    <3>5. CallInv'
      BY <2>3, <3>1, <3>3, <3>4 DEF CallInv, HandInv, UnsentInv, Hash, Updatable
    <3>6. Typed'
      BY <2>2, <2>3, <3>2, TypedFrom, TypedParts DEF IInv
    <3> QED
      BY <2>3, <3>5, <3>6 DEF IInv
  <2> QED
    BY <2>4, <2>5
<1> QED
  BY <1>2, <1>3, <1>4 DEF Grab

LEMMA StatusStep ==
    ASSUME IInv, NEW c \in Correlations, Status(c)
    PROVE  IInv'
<1>1. journal[c].hash \in Hashes
  BY TypedParts DEF Status, IInv, JournalInv, RowInv, Settled, Row
<1>2. torrents[journal[c].hash] \in TorrentRow
  BY <1>1, TypedParts DEF IInv
<1>3. hand' = [pc |-> "observe", corr |-> c, seen |-> torrents[journal[c].hash], was |-> journal[c].state]
  BY DEF Status, Idle
<1> QED
  BY <1>2, <1>3, CallBegins DEF Status

\* The torrent was found: it is to be adopted.
LEMMA FoundStep ==
    ASSUME IInv, hand.pc \in {"resume", "submit"}, Found, UNCHANGED <<journal, torrents, sends, outside>>
    PROVE  IInv'
<1>1. /\ hand' \in HandRow /\ hand'.pc = "adopt" /\ hand'.corr = hand.corr /\ hand'.was = hand.was
  BY AtWork, TypedParts DEF Found, IInv, HandRow, HandPC
<1>2. hand.was = "prepared" => sends[Hash] = 0
  BY DEF IInv, CallInv, UnsentInv
<1> QED
  BY <1>1, <1>2, GoOn, Untagged, TypedParts DEF IInv, HandPC

LEMMA ResumeStep ==
    ASSUME IInv, Resume
    PROVE  IInv'
<1>1. hand.pc = "resume" /\ UNCHANGED <<torrents, sends, outside>>
  BY DEF Resume
<1>2. CASE Found /\ UNCHANGED journal
  BY <1>1, <1>2, FoundStep
<1>3. CASE UNCHANGED journal /\ hand.was = "prepared" /\ Goto("resolve")
  <2>1. sends[Hash] = 0
    BY <1>1, <1>3 DEF IInv, CallInv, UnsentInv
  <2>2. hand' \in HandRow /\ hand'.pc = "resolve" /\ hand'.corr = hand.corr /\ hand'.was = hand.was
    BY <1>3, GotoShape DEF IInv, HandPC
  <2> QED
    BY <1>1, <1>3, <2>1, <2>2, GoOn, Untagged, TypedParts DEF IInv, HandPC
<1>4. CASE UNCHANGED journal /\ Return
  BY <1>1, <1>4, JustReturn DEF Return
<1>5. CASE Record("failed", FALSE) /\ Return
  BY <1>1, <1>5, RecordAndReturn, Untagged, TypedParts DEF IInv, Return, State
<1> QED
  BY <1>2, <1>3, <1>4, <1>5 DEF Resume

LEMMA ResolveStep ==
    ASSUME IInv, Resolve
    PROVE  IInv'
<1>1. hand.pc = "resolve" /\ UNCHANGED <<torrents, sends, outside>>
  BY DEF Resolve
<1>2. CASE Goto("submit") /\ UNCHANGED journal
  <2>1. sends[Hash] = 0 /\ hand.was = "prepared"
    BY <1>1 DEF IInv, CallInv, HandInv, UnsentInv
  <2>2. hand' \in HandRow /\ hand'.pc = "submit" /\ hand'.corr = hand.corr /\ hand'.was = hand.was
    BY <1>2, GotoShape DEF IInv, HandPC
  <2> QED
    BY <1>1, <1>2, <2>1, <2>2, GoOn, Untagged, TypedParts DEF IInv, HandPC
<1>3. CASE UNCHANGED journal /\ Return
  BY <1>1, <1>3, JustReturn DEF Return
<1>4. CASE Record("failed", FALSE) /\ Return
  BY <1>1, <1>4, RecordAndReturn, Untagged, TypedParts DEF IInv, Return, State
<1> QED
  BY <1>2, <1>3, <1>4 DEF Resolve

LEMMA SubmitStep ==
    ASSUME IInv, Submit
    PROVE  IInv'
<1>1. hand.pc = "submit" /\ UNCHANGED <<torrents, sends, outside>> /\ sends[Hash] = 0
  BY DEF Submit, IInv, CallInv, UnsentInv
<1>2. CASE Found /\ UNCHANGED journal
  BY <1>1, <1>2, FoundStep
<1>3. CASE Started /\ Goto("add")
  BY <1>1, <1>3, RecordAndGoOn DEF Started, State
<1>4. CASE Record("failed", FALSE) /\ Return
  BY <1>1, <1>4, RecordAndReturn, Untagged, TypedParts DEF IInv, Return, State
<1>5. CASE Record("prepared", FALSE) /\ Return
  BY <1>1, <1>5, RecordAndReturn, Untagged, TypedParts DEF IInv, Return, State
<1> QED
  BY <1>2, <1>3, <1>4, <1>5 DEF Submit

\* The one step that reaches qBittorrent's list: nobody had sent this hash, and
\* the row that owns it is in doubt until the answer is known.
LEMMA AddStep ==
    ASSUME IInv, Add
    PROVE  IInv'
<1> DEFINE c == hand.corr
<1>1. hand.pc = "add" /\ UNCHANGED <<journal, outside>>
  BY DEF Add
<1>2. /\ c \in Correlations /\ Hash \in Hashes /\ journal[c].hash = Hash
      /\ Updatable(journal[c]) /\ journal[c].mutated /\ journal[c].state = "submitting"
      /\ sends[Hash] = 0
  BY <1>1, AtWork DEF IInv, CallInv, HandInv, UnsentInv, Hash
<1>3. PICK pc \in {"unsent", "refused", "lost", "confirm"} :
        /\ Goto(pc)
        /\ pc = "unsent" => sends' = sends
        /\ pc # "unsent" => sends' = [sends EXCEPT ![Hash] = @ + 1]
  BY DEF Add
<1>4. hand' \in HandRow /\ hand'.pc = pc /\ hand'.corr = c
  BY <1>3, GotoShape DEF IInv, HandPC
<1>5. CallInv'
  BY <1>1, <1>2, <1>3, <1>4 DEF CallInv, HandInv, UnsentInv, Hash, Updatable
<1>6. sends' \in [Hashes -> Nat] /\ (\A h \in Hashes : h # Hash => sends'[h] = sends[h]) /\ sends'[Hash] \in {0, 1}
  BY <1>2, <1>3, TypedParts DEF IInv
<1>7. \/ UNCHANGED torrents
      \/ torrents' = [torrents EXCEPT ![Hash] =
             [there |-> TRUE, tags |-> {c}, cat |-> "audiobooks", bad |-> FALSE]]
  BY DEF Add
<1> HIDE DEF c
<1>8. torrents' \in [Hashes -> TorrentRow]
  <2>1. [there |-> TRUE, tags |-> {c}, cat |-> "audiobooks", bad |-> FALSE] \in TorrentRow
    BY <1>2 DEF TorrentRow
  <2> QED
    BY <1>2, <1>7, <2>1, TypedParts DEF IInv
<1>9. TagsAreJournalled'
  <2> SUFFICES ASSUME NEW h \in Hashes, NEW d \in torrents'[h].tags
               PROVE  journal[d].hash = h /\ journal[d].mutated /\ journal[d].canon = NoCorrelation
    BY <1>1 DEF TagsAreJournalled
  <2>1. d \in torrents[h].tags \/ (h = Hash /\ d = c)
    BY <1>2, <1>7, TypedParts DEF IInv
  <2> QED
    BY <1>2, <2>1 DEF IInv, JournalInv, TagsAreJournalled, Updatable
<1>10. SentInv'
  <2>1. ASSUME NEW d \in Correlations, journal[d].state = "prepared", journal[d].canon = NoCorrelation
        PROVE  sends'[journal[d].hash] = 0
    <3>1. journal[d].hash \in Hashes
      BY <2>1, TypedParts DEF IInv, JournalInv, RowInv, Row
    <3>2. journal[d].hash # Hash
      <4> SUFFICES ASSUME journal[d].hash = Hash PROVE FALSE
        OBVIOUS
      <4>1. d \in HashOwners(Hash) /\ c \in HashOwners(Hash)
        BY <1>2, <2>1 DEF HashOwners, Retained, Updatable
      <4>2. d = c
        BY <1>2, <4>1 DEF IInv, JournalInv, UniqueInv
      <4> QED
        BY <1>2, <2>1, <4>2
    <3> QED
      BY <1>6, <2>1, <3>1, <3>2 DEF IInv, JournalInv, SentInv
  <2>2. \A h \in Hashes : sends'[h] # 0 =>
           \E d \in Correlations : journal[d].hash = h /\ journal[d].mutated
    BY <1>2, <1>6 DEF IInv, JournalInv, SentInv
  <2> QED
    BY <1>1, <2>1, <2>2 DEF SentInv
<1>11. AddedOnce'
  BY <1>6 DEF IInv, JournalInv, AddedOnce
<1>12. RowInv' /\ AliasInv' /\ UniqueInv'
  BY <1>1 DEF IInv, JournalInv, RowInv, AliasInv, UniqueInv, HashOwners, CandidateOwners
<1>13. Typed'
  BY <1>1, <1>4, <1>6, <1>8, TypedFrom, TypedParts DEF IInv
<1> QED
  BY <1>5, <1>9, <1>10, <1>11, <1>12, <1>13 DEF IInv, JournalInv

LEMMA AnsweredStep ==
    ASSUME IInv, Answered
    PROVE  IInv'
<1>1. /\ hand.pc \in {"unsent", "refused", "lost"} /\ UNCHANGED <<torrents, sends, outside>>
      /\ Record(Outcome(hand.pc), FALSE) /\ hand' = Idle
  BY DEF Answered, Return
<1>2. /\ Outcome(hand.pc) \in {"prepared", "failed", "submission_uncertain"}
      /\ Outcome(hand.pc) = "prepared" => hand.pc = "unsent"
  BY <1>1 DEF Outcome
<1>3. journal[hand.corr].mutated /\ (hand.pc = "unsent" => sends[Hash] = 0)
  BY <1>1 DEF IInv, CallInv, HandInv, UnsentInv
<1> QED
  BY <1>1, <1>2, <1>3, RecordAndReturn, Untagged, TypedParts DEF IInv, State

LEMMA ConfirmStep ==
    ASSUME IInv, Confirm
    PROVE  IInv'
<1>1. /\ hand.pc = "confirm" /\ UNCHANGED <<torrents, sends, outside>>
      /\ journal[hand.corr].mutated
  BY DEF Confirm, IInv, CallInv, HandInv
<1>2. CASE hand' = [hand EXCEPT !.pc = "progress", !.seen = torrents[Hash]] /\ UNCHANGED journal
  <2>1. /\ hand' \in HandRow /\ hand'.pc = "progress" /\ hand'.corr = hand.corr /\ hand'.was = hand.was
    BY <1>1, <1>2, AtWork, TypedParts DEF IInv, HandRow, HandPC
  <2> QED
    BY <1>1, <1>2, <2>1, GoOn, Untagged, TypedParts DEF IInv, HandPC
<1>3. CASE Record("failed", FALSE) /\ Return
  BY <1>1, <1>3, RecordAndReturn, Untagged, TypedParts DEF IInv, Return, State
<1>4. CASE Record("submission_uncertain", FALSE) /\ Return
  BY <1>1, <1>4, RecordAndReturn, Untagged, TypedParts DEF IInv, Return, State
<1> QED
  BY <1>2, <1>3, <1>4 DEF Confirm

\* A prepared row has sent nothing.
LEMMA PreparedUnsent ==
    ASSUME IInv, hand.pc # "idle", journal[hand.corr].state = "prepared"
    PROVE  sends[Hash] = 0
BY AtWork DEF IInv, JournalInv, SentInv, Updatable, Hash

LEMMA AdoptStep ==
    ASSUME IInv, Adopt
    PROVE  IInv'
<1> DEFINE tagged == hand.corr \in hand.seen.tags
<1>1. hand.pc = "adopt" /\ UNCHANGED <<torrents, sends, outside>>
  BY DEF Adopt
<1>2. CASE Record(IF tagged THEN "queued" ELSE "failed", tagged) /\ Return
  <2>1. CASE tagged
    <3>1. Record("queued", TRUE)
      BY <1>2, <2>1 DEF Record, Written
    <3> QED
      BY <1>1, <1>2, <3>1, RecordAndReturn, Untagged, TypedParts DEF IInv, Return, State
  <2>2. CASE ~tagged
    <3>1. Record("failed", FALSE)
      BY <1>2, <2>2 DEF Record, Written
    <3> QED
      BY <1>1, <1>2, <3>1, RecordAndReturn, Untagged, TypedParts DEF IInv, Return, State
  <2> QED
    BY <2>1, <2>2
<1>3. CASE Record("failed", FALSE) /\ Return
  BY <1>1, <1>3, RecordAndReturn, Untagged, TypedParts DEF IInv, Return, State
<1>4. CASE Record(journal[hand.corr].state, TRUE) /\ Goto("progress")
  BY <1>1, <1>4, RecordAndGoOn, AtWork, PreparedUnsent
<1>5. CASE Claim("submitting") /\ Goto("tag")
  <2>1. hand.was = "prepared" => sends[Hash] = 0
    BY <1>1 DEF IInv, CallInv, UnsentInv
  <2>2. Record("submitting", TRUE) /\ "submitting" \in State \ {"none", "failed"}
    BY <1>5 DEF Claim, State
  <2> QED
    BY <1>1, <1>5, <2>1, <2>2, RecordAndGoOn
<1> QED
  BY <1>2, <1>3, <1>4, <1>5 DEF Adopt

LEMMA TagStep ==
    ASSUME IInv, Tag
    PROVE  IInv'
<1>1. /\ hand.pc = "tag" /\ UNCHANGED <<sends, outside>> /\ journal[hand.corr].mutated
      /\ hand.was = "prepared" => sends[Hash] = 0
  BY DEF Tag, IInv, CallInv, HandInv, UnsentInv
<1>2. /\ torrents' \in [Hashes -> TorrentRow]
      /\ \A h \in Hashes : \A c \in torrents'[h].tags :
             c \in torrents[h].tags \/ (c = hand.corr /\ h = Hash)
  <2>1. Hash \in Hashes /\ hand.corr \in Correlations /\ torrents \in [Hashes -> TorrentRow]
    BY <1>1, AtWork, TypedParts DEF IInv
  <2>2. \/ UNCHANGED torrents
        \/ torrents' = [torrents EXCEPT ![Hash].tags = @ \cup {hand.corr}]
        \/ torrents' = [torrents EXCEPT ![Hash].tags = IF torrents[Hash].there THEN @ \cup {hand.corr} ELSE @]
    BY DEF Tag
  <2> QED
    BY <2>1, <2>2 DEF TorrentRow
<1>3. Tagged(journal[hand.corr].mutated)
  BY <1>1, <1>2 DEF Tagged
<1>4. CASE hand' = [hand EXCEPT !.pc = "progress", !.seen = torrents'[Hash]] /\ UNCHANGED journal
  <2>1. torrents'[Hash] \in TorrentRow
    BY <1>1, <1>2, AtWork
  <2>2. /\ hand' \in HandRow /\ hand'.pc = "progress" /\ hand'.corr = hand.corr /\ hand'.was = hand.was
    BY <1>4, <2>1, TypedParts DEF IInv, HandRow, HandPC
  <2> QED
    BY <1>1, <1>2, <1>3, <1>4, <2>2, GoOn DEF HandPC
<1>5. ASSUME NEW end \in {"failed", "submission_uncertain", "submitting", "prepared"},
             end = "prepared" => hand.was = "prepared", Record(end, FALSE), Return
      PROVE  IInv'
  BY <1>1, <1>2, <1>3, <1>5, RecordAndReturn DEF Return, State
<1> QED
  BY <1>4, <1>5 DEF Tag

LEMMA ProgressStep ==
    ASSUME IInv, Progress
    PROVE  IInv'
<1>1. /\ hand.pc = "progress" /\ UNCHANGED <<torrents, sends, outside>>
      /\ journal[hand.corr].mutated /\ Record(Observed(hand.seen), FALSE) /\ hand' = Idle
  BY DEF Progress, IInv, CallInv, HandInv, Return
<1>2. Observed(hand.seen) \in {"failed", "queued"}
  BY DEF Observed
<1> QED
  BY <1>1, <1>2, RecordAndReturn, Untagged, TypedParts DEF IInv, State

LEMMA ObserveStep ==
    ASSUME IInv, Observe
    PROVE  IInv'
<1>1. hand.pc = "observe" /\ UNCHANGED <<torrents, sends, outside>>
  BY DEF Observe
<1>2. CASE Record("failed", FALSE) /\ Return
  BY <1>1, <1>2, RecordAndReturn, Untagged, TypedParts DEF IInv, Return, State
<1>3. CASE Record("queued", TRUE) /\ Return
  BY <1>1, <1>3, RecordAndReturn, Untagged, TypedParts DEF IInv, Return, State
<1>4. CASE Record(journal[hand.corr].state, TRUE) /\ Goto("progress")
  BY <1>1, <1>4, RecordAndGoOn, AtWork, PreparedUnsent
<1> QED
  BY <1>2, <1>3, <1>4 DEF Observe

LEMMA WorldStep ==
    ASSUME IInv, World
    PROVE  IInv'
<1>1. UNCHANGED <<journal, hand, sends>>
  BY DEF World
<1>2. /\ torrents' \in [Hashes -> TorrentRow]
      /\ \A h \in Hashes : torrents'[h].tags \subseteq torrents[h].tags
  <2>1. torrents \in [Hashes -> TorrentRow]
    BY TypedParts DEF IInv
  <2>2. CASE UNCHANGED torrents
    BY <2>1, <2>2
  <2>3. CASE Torrent
    <3>1. PICK h \in Hashes, cat \in {"audiobooks", "other"} :
            torrents' = [torrents EXCEPT ![h] =
              IF ~torrents[h].there THEN [there |-> TRUE, tags |-> {}, cat |-> cat, bad |-> FALSE]
              ELSE IF cat = "audiobooks" /\ torrents[h].cat = "audiobooks"
                   THEN [torrents[h] EXCEPT !.cat = "audiobooks-imported"]
                   ELSE NoTorrent]
      BY <2>3 DEF Torrent
    <3>2. torrents[h] \in TorrentRow
      BY <2>1
    <3>3. /\ [torrents[h] EXCEPT !.cat = "audiobooks-imported"] \in TorrentRow
          /\ [torrents[h] EXCEPT !.cat = "audiobooks-imported"].tags = torrents[h].tags
          /\ NoTorrent \in TorrentRow /\ NoTorrent.tags = {}
          /\ [there |-> TRUE, tags |-> {}, cat |-> cat, bad |-> FALSE] \in TorrentRow
      BY <3>2 DEF TorrentRow, NoTorrent
    <3> QED
      BY <2>1, <3>1, <3>3
  <2>4. CASE Break
    <3>1. PICK h \in Hashes : torrents' = [torrents EXCEPT ![h] = [torrents[h] EXCEPT !.bad = TRUE]]
      BY <2>4 DEF Break
    <3>2. torrents[h] \in TorrentRow
      BY <2>1
    <3>3. /\ [torrents[h] EXCEPT !.bad = TRUE] \in TorrentRow
          /\ [torrents[h] EXCEPT !.bad = TRUE].tags = torrents[h].tags
      BY <3>2 DEF TorrentRow
    <3> QED
      BY <2>1, <3>1, <3>3
  <2> QED
    BY <2>2, <2>3, <2>4 DEF World
<1>3. /\ live' \subseteq Candidates /\ page' \in [Candidates -> Hashes]
      /\ churn' \in 0..MaxChurn
  BY ChurnAssumption DEF World, Listing, IInv, Typed, TypeOK
<1>4. Typed'
  BY <1>1, <1>2, <1>3 DEF IInv, Typed, TypeOK, TorrentRow, HandRow
<1>5. JournalInv'
  BY <1>1, <1>2, JournalStill DEF IInv
<1>6. CallInv'
  BY <1>1 DEF IInv, CallInv, HandInv, UnsentInv, Hash
<1> QED
  BY <1>4, <1>5, <1>6 DEF IInv

-----------------------------------------------------------------------------
(* The theorems                                                            *)

LEMMA InvInit == Init => IInv
<1> SUFFICES ASSUME Init PROVE IInv
  OBVIOUS
<1>1. \A c \in Correlations : journal[c] = NoRow
  BY DEF Init
<1>2. Typed
  BY ChurnAssumption DEF Init, Typed, TypeOK, NoRow, NoTorrent, Idle, HandRow, HandPC, Corr,
     TorrentRow, State
<1>3. RowInv /\ AliasInv /\ UniqueInv
  <2>1. \A c \in Correlations : ~Retained(journal[c])
    BY <1>1 DEF Retained, NoRow
  <2>2. UniqueInv
    BY <2>1 DEF UniqueInv, HashOwners, CandidateOwners
  <2>3. /\ NoRow.state = "none" /\ NoRow.candOwner = NoCorrelation /\ NoRow.canon = NoCorrelation
        /\ ~NoRow.changed /\ ~NoRow.mutated
    BY DEF NoRow
  <2> QED
    BY <1>1, <2>2, <2>3 DEF RowInv, AliasInv
<1>4. SentInv /\ TagsAreJournalled /\ AddedOnce
  BY <1>1 DEF Init, SentInv, TagsAreJournalled, AddedOnce, NoRow, NoTorrent
<1>5. CallInv
  BY DEF Init, Idle, CallInv, HandInv, UnsentInv
<1> QED
  BY <1>2, <1>3, <1>4, <1>5 DEF IInv, JournalInv

LEMMA InvStep == IInv /\ [Next]_vars => IInv'
<1> SUFFICES ASSUME IInv, [Next]_vars PROVE IInv'
  OBVIOUS
<1>1. CASE UNCHANGED vars
  <2>1. JournalInv'
    BY <1>1, JournalStill DEF vars, IInv
  <2>2. CallInv' /\ Typed'
    BY <1>1 DEF vars, IInv, CallInv, HandInv, UnsentInv, Hash, Typed, TypeOK
  <2> QED
    BY <2>1, <2>2 DEF IInv
<1>2. CASE Crash
  BY <1>2, JustReturn DEF Crash, Return
<1>3. CASE Next /\ ~Crash
  BY <1>3, GrabStep, StatusStep, ResumeStep, ResolveStep, SubmitStep, AddStep, AnsweredStep,
     ConfirmStep, AdoptStep, TagStep, ProgressStep, ObserveStep, WorldStep DEF Next, Step
<1> QED
  BY <1>1, <1>2, <1>3

THEOREM Invariance == Spec => []IInv
BY InvInit, InvStep, PTL DEF Spec

\* The journal accounts for every tag in qBittorrent, the unique indexes hold
\* in the middle of every grab, and an alias always leads to its owner.
THEOREM JournalSoundHolds == Spec => []JournalSound
<1>1. ASSUME IInv PROVE JournalSound
  <2> USE <1>1 DEF IInv
  <2>1. ASSUME NEW S, \A c, d \in S : c = d PROVE Cardinality(S) <= 1
    <3>1. CASE S = {}
      BY <3>1, FS_EmptySet
    <3>2. CASE S # {}
      <4>1. PICK c \in S : S = {c}
        BY <2>1, <3>2
      <4>2. Cardinality({c}) = 1
        BY FS_Singleton
      <4> QED
        BY <4>1, <4>2
    <3> QED
      BY <3>1, <3>2
  <2>2. OneOwner
    BY <2>1 DEF JournalInv, UniqueInv, OneOwner
  <2>3. AliasesAnswerable
    <3> SUFFICES ASSUME NEW c \in Correlations, journal[c].canon # NoCorrelation
                 PROVE  /\ journal[journal[c].canon].canon = NoCorrelation
                        /\ journal[journal[c].canon].hash = journal[c].hash
                        /\ Retained(journal[journal[c].canon])
      BY DEF AliasesAnswerable
    <3>1. journal[c].canon \in Correlations
      BY TypedParts DEF Row, Corr
    <3>2. journal[journal[c].canon].mutated /\ journal[journal[c].canon].hash = journal[c].hash
      BY DEF JournalInv, AliasInv
    <3> QED
      BY <3>1, <3>2 DEF JournalInv, RowInv, Updatable, Retained, NoRow
  <2> QED
    BY <2>2, <2>3 DEF JournalSound, JournalInv, Typed
<1> QED
  BY <1>1, Invariance, PTL

\* No hash reaches qBittorrent twice, whatever is lost, killed or asked again.
THEOREM AddedOnceHolds == Spec => []AddedOnce
<1>1. IInv => AddedOnce
  BY DEF IInv, JournalInv
<1> QED
  BY <1>1, Invariance, PTL

-----------------------------------------------------------------------------
(* The adapter keeps its contract with Huey                                *)

\* What the contract sees of a row.
LEMMA OwnedBy ==
    ASSUME Typed, RowInv, NEW c \in Correlations
    PROVE  /\ journal[c].mutated =>
                Owned(c) = [is |-> IF journal[c].state = "failed" THEN "lost" ELSE "holds",
                            hash |-> journal[c].hash, root |-> NoCorrelation]
           /\ ~journal[c].mutated /\ journal[c].canon = NoCorrelation =>
                Owned(c) = IF journal[c].state = "failed"
                           THEN [is |-> "refused", hash |-> NoHash, root |-> NoCorrelation]
                           ELSE Contract!Nothing
           /\ journal[c].changed =>
                Owned(c) = [is |-> "refused", hash |-> NoHash, root |-> NoCorrelation]
           /\ journal[c].canon # NoCorrelation /\ ~journal[c].changed =>
                Owned(c) = [is |-> "joined", hash |-> journal[c].hash, root |-> journal[c].canon]
           /\ Owned(c).is \in {"holds", "lost"} => journal[c].mutated /\ Owned(c).hash = journal[c].hash
<1> DEFINE r == journal[c]
<1>1. /\ r.changed => r.state = "failed" /\ ~r.mutated
      /\ r.mutated => r.canon = NoCorrelation
  BY DEF RowInv, Updatable
<1>2. CASE r.mutated
  BY <1>1, <1>2 DEF Owned
<1>3. CASE ~r.mutated /\ r.changed
  BY <1>1, <1>3 DEF Owned
<1>4. CASE ~r.mutated /\ ~r.changed /\ r.canon = NoCorrelation
  BY <1>1, <1>4 DEF Owned, Contract!Nothing
<1>5. CASE ~r.mutated /\ ~r.changed /\ r.canon # NoCorrelation
  BY <1>1, <1>5 DEF Owned
<1> QED
  BY <1>2, <1>3, <1>4, <1>5

\* The contract's view of all rows, and of one that changes.
Ownership == [c \in Correlations |-> Owned(c)]

LEMMA Becoming ==
    ASSUME NEW c \in Correlations, NEW is, NEW h, NEW root,
           Owned(c)' = [is |-> is, hash |-> h, root |-> root],
           \A d \in Correlations : d # c => Owned(d)' = Owned(d)
    PROVE  Contract!Becomes(c, is, h, root)
BY DEF Contract!Becomes

\* A new row holds nothing yet, is refused, or joins whoever holds its hash.
LEMMA NewRowIsAllowed ==
    ASSUME Typed, JournalInv, Typed', RowInv', NEW c \in Correlations, journal[c] = NoRow,
           NEW k \in Candidates, NEW h \in Hashes \cup {NoHash},
           NEW state \in {"prepared", "failed"}, ~Pending(k, h),
           journal' = [journal EXCEPT ![c] = NewRow(k, h, state)]
    PROVE  Contract!Next \/ UNCHANGED Ownership
<1> DEFINE r == NewRow(k, h, state)
<1>1. /\ r.hash = h /\ ~r.mutated /\ r.canon = HashOwner(k, h)
      /\ journal'[c] = r /\ \A d \in Correlations : d # c => journal'[d] = journal[d]
  BY NewRowShape DEF Typed, TypeOK
<1>2. \A d \in Correlations : d # c => Owned(d)' = Owned(d)
  BY <1>1 DEF Owned
<1>3. Owned(c) = Contract!Nothing
  <2>1. ~journal[c].mutated /\ journal[c].canon = NoCorrelation /\ journal[c].state # "failed"
    BY DEF NoRow
  <2> QED
    BY <2>1, OwnedBy DEF JournalInv
<1> HIDE DEF r
<1>4. /\ Owned(c)' = Contract!Nothing
      \/ Owned(c)' = [is |-> "refused", hash |-> NoHash, root |-> NoCorrelation]
      \/ /\ r.canon # NoCorrelation
         /\ Owned(c)' = [is |-> "joined", hash |-> h, root |-> r.canon]
  BY <1>1 DEF Owned, Contract!Nothing
<1>5. CASE Owned(c)' = Contract!Nothing
  BY <1>2, <1>3, <1>5 DEF Ownership
<1>6. CASE Owned(c)' = [is |-> "refused", hash |-> NoHash, root |-> NoCorrelation]
  <2>1. Contract!Becomes(c, "refused", NoHash, NoCorrelation)
    BY <1>2, <1>6, Becoming
  <2> QED
    BY <1>3, <2>1 DEF Contract!Next, Contract!Refuse
<1>7. CASE r.canon # NoCorrelation /\ Owned(c)' = [is |-> "joined", hash |-> h, root |-> r.canon]
  <2> DEFINE o == HashOwner(k, h)
  <2>1. /\ o \in Correlations /\ h \in Hashes /\ journal[o].mutated /\ journal[o].hash = h
    BY <1>1, <1>7, HashOwnerKept
  <2>2. Owned(o).is \in {"holds", "lost"} /\ Owned(o).hash = h
    BY <2>1, OwnedBy DEF JournalInv
  <2>3. o \in Contract!Holders(h)
    BY <2>1, <2>2 DEF Contract!Holders
  <2>4. Contract!Becomes(c, "joined", h, o)
    BY <1>1, <1>2, <1>7, Becoming
  <2> QED
    BY <1>3, <2>1, <2>3, <2>4 DEF Contract!Next, Contract!Join
<1> QED
  BY <1>4, <1>5, <1>6, <1>7

\* A row that is written keeps what it holds, takes its hash with nobody else
\* holding it, loses it, or is refused before anything was sent.
LEMMA RecordIsAllowed ==
    ASSUME IInv, IInv', hand.pc # "idle", NEW state \in State \ {"none"}, NEW started \in BOOLEAN,
           Record(state, started), state = "failed" => ~started,
           NEW c \in Correlations, c = hand.corr
    PROVE  Contract!Next \/ UNCHANGED Ownership
<1>1. /\ Updatable(journal[c]) /\ journal[c].state \notin {"none", "failed"}
      /\ \A d \in Correlations : d # c => journal'[d] = journal[d]
      /\ journal'[c].state = state /\ journal'[c].mutated = (journal[c].mutated \/ started)
      /\ journal'[c].hash = journal[c].hash /\ journal'[c].canon = NoCorrelation
      /\ journal[c].hash \in Hashes
  BY RecordShape, AtWork DEF IInv, CallInv, Hash
<1>2. \A d \in Correlations : d # c => Owned(d)' = Owned(d)
  BY <1>1 DEF Owned
<1>3. CASE journal[c].mutated
  <2>1. journal'[c].mutated
    BY <1>1, <1>3
  <2>2. Owned(c) = [is |-> "holds", hash |-> journal[c].hash, root |-> NoCorrelation]
    BY <1>1, <1>3, OwnedBy DEF IInv, JournalInv
  <2>3. Owned(c)' = [is |-> IF state = "failed" THEN "lost" ELSE "holds",
                     hash |-> journal[c].hash, root |-> NoCorrelation]
    BY <1>1, <2>1 DEF Owned, IInv, JournalInv, RowInv
  <2>4. CASE state = "failed"
    <3>1. Contract!Becomes(c, "lost", journal[c].hash, NoCorrelation)
      BY <1>1, <1>2, <2>3, <2>4, Becoming
    <3> QED
      BY <1>1, <2>2, <3>1 DEF Contract!Next, Contract!Lose
  <2>5. CASE state # "failed"
    BY <1>2, <2>2, <2>3, <2>5 DEF Ownership
  <2> QED
    BY <2>4, <2>5
<1>4. CASE ~journal[c].mutated /\ started
  <2>1. Owned(c) = Contract!Nothing
    BY <1>1, <1>4, OwnedBy DEF IInv, JournalInv, Updatable
  <2>2. Owned(c)' = [is |-> "holds", hash |-> journal[c].hash, root |-> NoCorrelation]
    BY <1>1, <1>4 DEF Owned, IInv, JournalInv, RowInv
  <2>3. Contract!Holders(journal[c].hash) = {}
    <3> SUFFICES ASSUME NEW d \in Contract!Holders(journal[c].hash) PROVE FALSE
      OBVIOUS
    <3>1. d \in Correlations /\ journal[d].mutated /\ journal[d].hash = journal[c].hash
      BY OwnedBy DEF Contract!Holders, IInv, JournalInv
    <3>2. d \in HashOwners(journal[c].hash) /\ c \in HashOwners(journal[c].hash)
      BY <1>1, <3>1 DEF HashOwners, Retained, Updatable, IInv, JournalInv, RowInv, NoRow
    <3> QED
      BY <1>1, <1>4, <3>1, <3>2 DEF IInv, JournalInv, UniqueInv
  <2>4. Contract!Becomes(c, "holds", journal[c].hash, NoCorrelation)
    BY <1>1, <1>2, <2>2, Becoming
  <2> QED
    BY <1>1, <2>1, <2>3, <2>4 DEF Contract!Next, Contract!Hold
<1>5. CASE ~journal[c].mutated /\ ~started
  <2>1. Owned(c) = Contract!Nothing
    BY <1>1, <1>5, OwnedBy DEF IInv, JournalInv, Updatable
  <2>2. ~journal'[c].mutated
    BY <1>1, <1>5
  <2>3. Owned(c)' = IF state = "failed"
                    THEN [is |-> "refused", hash |-> NoHash, root |-> NoCorrelation]
                    ELSE Contract!Nothing
    BY <1>1, <2>2 DEF Owned, IInv, JournalInv, RowInv, Contract!Nothing
  <2>4. CASE state = "failed"
    <3>1. Contract!Becomes(c, "refused", NoHash, NoCorrelation)
      BY <1>1, <1>2, <2>3, <2>4, Becoming
    <3> QED
      BY <1>1, <2>1, <3>1 DEF Contract!Next, Contract!Refuse
  <2>5. CASE state # "failed"
    BY <1>2, <2>1, <2>3, <2>5 DEF Ownership
  <2> QED
    BY <2>4, <2>5
<1> QED
  BY <1>3, <1>4, <1>5

\* A step of the call writes its row once, if at all.
LEMMA StepWritesOnce ==
    ASSUME IInv, Step
    PROVE  /\ hand.pc # "idle"
           /\ \/ UNCHANGED journal
              \/ \E state \in State \ {"none"}, started \in BOOLEAN :
                     Record(state, started) /\ (state = "failed" => ~started)
<1> DEFINE Writes == \E state \in State \ {"none"}, started \in BOOLEAN :
                         Record(state, started) /\ (state = "failed" => ~started)
<1>1. \A st \in State \ {"none", "failed"} : Record(st, TRUE) => Writes
  <2> SUFFICES ASSUME NEW st \in State \ {"none", "failed"}, Record(st, TRUE) PROVE Writes
    OBVIOUS
  <2> WITNESS st \in State \ {"none"}, TRUE \in BOOLEAN
  <2> QED
    OBVIOUS
<1>2. \A st \in State \ {"none"} : Record(st, FALSE) => Writes
  <2> SUFFICES ASSUME NEW st \in State \ {"none"}, Record(st, FALSE) PROVE Writes
    OBVIOUS
  <2> WITNESS st \in State \ {"none"}, FALSE \in BOOLEAN
  <2> QED
    OBVIOUS
<1> HIDE DEF Writes
<1>3. CASE Resume \/ Resolve \/ Submit \/ Confirm \/ Add
  BY <1>1, <1>2, <1>3 DEF Resume, Resolve, Submit, Started, Confirm, Add, State, Writes
<1>4. CASE Answered \/ Progress
  <2>1. hand.pc # "idle" /\ \E st \in State \ {"none"} : Record(st, FALSE)
    BY <1>4 DEF Answered, Outcome, Progress, Observed, State
  <2> QED
    BY <1>2, <2>1 DEF Writes
<1>5. CASE Adopt \/ Observe
  <2> DEFINE tagged == hand.corr \in hand.seen.tags
  <2>1. hand.pc # "idle" /\ journal[hand.corr].state \in State \ {"none", "failed"}
    BY <1>5, AtWork DEF Adopt, Observe
  <2>2. Record(IF tagged THEN "queued" ELSE "failed", tagged)
          => Record("queued", TRUE) \/ Record("failed", FALSE)
    BY DEF Record, Written
  <2>3. \/ Record(IF tagged THEN "queued" ELSE "failed", tagged) \/ Record("queued", TRUE)
        \/ Record("failed", FALSE) \/ Record(journal[hand.corr].state, TRUE) \/ Record("submitting", TRUE)
    BY <1>5 DEF Adopt, Observe, Claim
  <2> HIDE DEF tagged
  <2>4. \/ Record("queued", TRUE) \/ Record("failed", FALSE) \/ Record("submitting", TRUE)
        \/ Record(journal[hand.corr].state, TRUE)
    BY <2>2, <2>3
  <2>5. Writes
    BY <1>1, <1>2, <2>1, <2>4 DEF State
  <2> QED
    BY <2>1, <2>5 DEF Writes
<1>6. CASE Tag
  <2>1. hand.pc # "idle" /\ (UNCHANGED journal \/ \E st \in State \ {"none"} : Record(st, FALSE))
    BY <1>6 DEF Tag, State
  <2> QED
    BY <1>2, <2>1 DEF Writes
<1> QED
  BY <1>3, <1>4, <1>5, <1>6 DEF Step

\* The journal implements AbbaOwnership: a correlation ends up holding one
\* hash, joined to the one that holds it, or refused, and a hash once held is
\* never held by anyone else, even after its holder has failed.
THEOREM KeepsTheContractHolds == Spec => KeepsTheContract
<1>1. Init => Contract!Init
  <2>1. NoRow.canon = NoCorrelation /\ ~NoRow.mutated /\ ~NoRow.changed /\ NoRow.state = "none"
    BY DEF NoRow
  <2>2. Init => \A c \in Correlations : Owned(c) = Contract!Nothing
    BY <2>1 DEF Init, Owned, Contract!Nothing
  <2> QED
    BY <2>2 DEF Contract!Init
<1>2. IInv /\ IInv' /\ [Next]_vars => [Contract!Next]_Ownership
  <2> SUFFICES ASSUME IInv, IInv', [Next]_vars PROVE Contract!Next \/ UNCHANGED Ownership
    OBVIOUS
  <2>1. CASE UNCHANGED journal
    BY <2>1 DEF Ownership, Owned
  <2>2. CASE Step /\ ~UNCHANGED journal
    <3>1. PICK state \in State \ {"none"}, started \in BOOLEAN :
            Record(state, started) /\ (state = "failed" => ~started)
      BY <2>2, StepWritesOnce
    <3>2. hand.pc # "idle" /\ hand.corr \in Correlations
      BY <2>2, StepWritesOnce, AtWork
    <3>3. PICK c \in Correlations : c = hand.corr
      BY <3>2
    <3> QED
      BY <3>1, <3>2, <3>3, RecordIsAllowed
  <2>3. ASSUME NEW c \in Correlations, NEW k \in Candidates, Gone(c, k)
        PROVE  Contract!Next \/ UNCHANGED Ownership
    BY <2>3, NewRowIsAllowed DEF Gone, IInv, JournalInv
  <2>4. ASSUME NEW c \in Correlations, NEW k \in Candidates, Prepare(c, k)
        PROVE  Contract!Next \/ UNCHANGED Ownership
    <3>1. page[k] \in Hashes
      BY DEF IInv, Typed, TypeOK
    <3> QED
      BY <2>4, <3>1, NewRowIsAllowed DEF Prepare, IInv, JournalInv
  <2> QED
    BY <2>1, <2>2, <2>3, <2>4 DEF Next, Grab, Known, Status, Crash, World, vars
<1> QED
  BY <1>1, <1>2, Invariance, PTL DEF Spec, KeepsTheContract, Contract!Spec, Ownership
=============================================================================
