----------------------------- MODULE AbbaAdapter -----------------------------
(* The ABBA adapter (docker/abba/app.py): one process that serialises grabs  *)
(* and status queries with a lock, journals every acquisition in SQLite      *)
(* before it asks qBittorrent for anything, and may be killed between any    *)
(* two of its steps.  AudioBookBay's listings and qBittorrent change under   *)
(* it.  A correlation is one of Huey's requests, a candidate one listing.    *)
EXTENDS Naturals, FiniteSets

CONSTANTS Correlations, Candidates, Hashes, NoHash, NoCorrelation,
          MaxChurn    \* bound: changes made by AudioBookBay, BookBot and people

ASSUME NoneAreNone == NoHash \notin Hashes /\ NoCorrelation \notin Correlations
ASSUME ChurnAssumption == MaxChurn \in Nat

VARIABLES
    journal,    \* acquisitions: the row of each correlation
    live,       \* candidates whose cached listing has not expired
    page,       \* the hash each listing resolves to now
    torrents,   \* qBittorrent: the torrent with each hash
    hand,       \* the call under way
    sends,      \* adds per hash that may have reached qBittorrent
    churn

vars == <<journal, live, page, torrents, hand, sends, churn>>
outside == <<live, page, churn>>

NoRow == [cand |-> NoHash, hash |-> NoHash, state |-> "none", changed |-> FALSE,
          canon |-> NoCorrelation, candOwner |-> NoCorrelation, mutated |-> FALSE]
NoTorrent == [there |-> FALSE, tags |-> {}, cat |-> "none", bad |-> FALSE]
Idle == [pc |-> "idle", corr |-> NoCorrelation, seen |-> NoTorrent, was |-> "none"]

TypeOK ==
    /\ journal \in [Correlations -> [cand : Candidates \cup {NoHash}, hash : Hashes \cup {NoHash},
           state : {"none", "prepared", "submitting", "queued", "submission_uncertain", "failed"},
           changed : BOOLEAN, canon : Correlations \cup {NoCorrelation},
           candOwner : Correlations \cup {NoCorrelation}, mutated : BOOLEAN]]
    /\ live \subseteq Candidates
    /\ page \in [Candidates -> Hashes]
    /\ torrents \in [Hashes -> [there : BOOLEAN, tags : SUBSET Correlations,
           cat : {"none", "audiobooks", "audiobooks-imported", "other"}, bad : BOOLEAN]]
    /\ hand.pc \in {"idle", "resume", "resolve", "submit", "add", "unsent", "refused", "lost",
                    "confirm", "adopt", "tag", "observe", "progress"}
    /\ hand.corr \in Correlations \cup {NoCorrelation}
    /\ sends \in [Hashes -> Nat]
    /\ churn \in 0..MaxChurn

-----------------------------------------------------------------------------
(* The journal                                                             *)

\* Mutant: a failed acquisition gives its identities back, whatever was sent.
RetainedUnlessFailed(r) == r.state \notin {"none", "failed"}

\* A row keeps its identities unless it failed before any mutation.
Retained(r) == r.state # "none" /\ (r.state = "failed" => r.mutated)

HashOwners(h) ==
    {c \in Correlations : /\ journal[c].hash = h /\ journal[c].canon = NoCorrelation
                          /\ Retained(journal[c])}

CandidateOwners(k) ==
    {c \in Correlations : /\ journal[c].cand = k /\ journal[c].candOwner = NoCorrelation
                          /\ Retained(journal[c])}

OneOf(S) == IF S = {} THEN NoCorrelation ELSE CHOOSE c \in S : TRUE

\* Mutant: an owner that may still be released is joined at once.
NeverUnsettled(c) == FALSE

\* An owner that nothing was sent for may still be released: wait for it.
Unsettled(c) ==
    /\ c # NoCorrelation
    /\ journal[c].state = "prepared" /\ ~journal[c].mutated
    /\ journal[c].canon = NoCorrelation

SameResult(k, h) ==
    LET o == OneOf(CandidateOwners(k)) IN o # NoCorrelation /\ h # NoHash /\ journal[o].hash = h

\* Mutant: only the listing's own owner is asked about the hash.
HashOwnerOfCandidate(k, h) ==
    IF h # NoHash /\ SameResult(k, h) THEN OneOf(CandidateOwners(k)) ELSE NoCorrelation

HashOwner(k, h) ==
    LET o == OneOf(CandidateOwners(k))
    IN  CASE h = NoHash -> NoCorrelation
          [] h # NoHash /\ SameResult(k, h) ->
                 IF journal[o].canon = NoCorrelation THEN o ELSE journal[o].canon
          [] OTHER -> OneOf(HashOwners(h))

Pending(k, h) == Unsettled(OneOf(CandidateOwners(k))) \/ Unsettled(HashOwner(k, h))

\* The row _insert_or_existing writes for a new correlation.
NewRow(k, h, state) ==
    LET o == OneOf(CandidateOwners(k))
        clash == o # NoCorrelation /\ ~SameResult(k, h)
    IN  [cand |-> k, hash |-> h, state |-> IF clash THEN "failed" ELSE state,
         changed |-> clash, canon |-> HashOwner(k, h), candOwner |-> o, mutated |-> FALSE]

Updatable(r) == r.canon = NoCorrelation /\ r.candOwner = NoCorrelation

Written(c, state, started) ==
    IF Updatable(journal[c])
    THEN [journal EXCEPT ![c].state = state, ![c].mutated = @ \/ started]
    ELSE journal

Record(state, started) == journal' = Written(hand.corr, state, started)

\* Answered for good: refused, an alias, or failed.
Settled(r) == r.canon # NoCorrelation \/ r.state = "failed"

Return == hand' = Idle
Goto(pc) == hand' = [hand EXCEPT !.pc = pc]

-----------------------------------------------------------------------------
(* A grab                                                                  *)

\* The journal's row goes first: one for another candidate is a conflict.
Known(c, k) ==
    /\ journal[c] # NoRow /\ journal[c].cand = k /\ ~Settled(journal[c])
    /\ hand' = [Idle EXCEPT !.pc = "resume", !.corr = c, !.was = journal[c].state]
    /\ UNCHANGED <<journal, torrents, sends, outside>>

\* The listing is gone, or it no longer resolves: a failure without a hash.
Gone(c, k) ==
    /\ journal[c] = NoRow /\ ~Pending(k, NoHash)
    /\ journal' = [journal EXCEPT ![c] = NewRow(k, NoHash, "failed")]
    /\ UNCHANGED <<hand, torrents, sends, outside>>

\* prepare: the row is durable before qBittorrent is asked anything.
Prepare(c, k) ==
    /\ journal[c] = NoRow /\ k \in live /\ ~Pending(k, page[k])
    /\ LET r == NewRow(k, page[k], "prepared")
       IN  /\ journal' = [journal EXCEPT ![c] = r]
           /\ hand' = IF Settled(r) THEN Idle
                      ELSE [Idle EXCEPT !.pc = "submit", !.corr = c, !.was = "prepared"]
    /\ UNCHANGED <<torrents, sends, outside>>

Grab(c, k) == hand.pc = "idle" /\ (Known(c, k) \/ Gone(c, k) \/ Prepare(c, k))

Hash == journal[hand.corr].hash

\* The torrent is there: adopt it, with what the lookup saw of it.
Found == hand' = [hand EXCEPT !.pc = "adopt", !.seen = torrents[Hash]]

\* An earlier commitment: look before anything else.
Resume ==
    /\ hand.pc = "resume"
    /\ \/ /\ torrents[Hash].there /\ Found
          /\ UNCHANGED journal
       \/ /\ ~torrents[Hash].there
          /\ IF hand.was = "prepared" THEN Goto("resolve") ELSE Return
          /\ UNCHANGED journal
       \/ Record("failed", FALSE) /\ Return       \* a terminal qBittorrent error
       \/ UNCHANGED journal /\ Return             \* it cannot be reached
    /\ UNCHANGED <<torrents, sends, outside>>

\* The listing is resolved again and must still be the committed hash.
Resolve ==
    /\ hand.pc = "resolve"
    /\ LET k == journal[hand.corr].cand
       IN  \/ /\ k \in live /\ page[k] = Hash
              /\ Goto("submit") /\ UNCHANGED journal
           \/ Record("failed", FALSE) /\ Return
           \/ UNCHANGED journal /\ Return
    /\ UNCHANGED <<torrents, sends, outside>>

Started == Record("submitting", TRUE)

Submit ==
    /\ hand.pc = "submit"
    /\ \/ torrents[Hash].there /\ Found /\ UNCHANGED journal
       \/ ~torrents[Hash].there /\ Started /\ Goto("add")
       \/ Record("failed", FALSE) /\ Return
       \/ Record("prepared", FALSE) /\ Return
    /\ UNCHANGED <<torrents, sends, outside>>

\* The POST: never sent, refused, or received; the answer may be lost.
Add ==
    /\ hand.pc = "add"
    /\ \/ Goto("unsent") /\ UNCHANGED <<torrents, sends>>
       \/ /\ Goto("refused") \/ Goto("lost")
          /\ sends' = [sends EXCEPT ![Hash] = @ + 1]
          /\ UNCHANGED torrents
       \/ /\ ~torrents[Hash].there
          /\ Goto("confirm") \/ Goto("lost")
          /\ sends' = [sends EXCEPT ![Hash] = @ + 1]
          /\ torrents' = [torrents EXCEPT ![Hash] =
                 [there |-> TRUE, tags |-> {hand.corr}, cat |-> "audiobooks", bad |-> FALSE]]
    /\ UNCHANGED <<journal, outside>>

\* Mutant: a lost answer is treated as an add that was never sent.
LostIsUnsent(pc) == CASE pc \in {"unsent", "lost"} -> "prepared" [] pc = "refused" -> "failed"

\* Mutant: the error's code is stored as the row's state.
OutcomeRaw(pc) ==
    CASE pc = "unsent" -> "qbit_unreachable" [] pc = "refused" -> "failed" [] pc = "lost" -> "submission_uncertain"

Outcome(pc) ==
    CASE pc = "unsent" -> "prepared"
      [] pc = "refused" -> "failed"
      [] pc = "lost" -> "submission_uncertain"

Answered ==
    /\ hand.pc \in {"unsent", "refused", "lost"}
    /\ Record(Outcome(hand.pc), FALSE) /\ Return
    /\ UNCHANGED <<torrents, sends, outside>>

\* The added torrent must show up, where it belongs and with its tag.
Confirm ==
    /\ hand.pc = "confirm"
    /\ LET t == torrents[Hash]
       IN  \/ /\ t.there /\ hand.corr \in t.tags /\ t.cat = "audiobooks"
              /\ hand' = [hand EXCEPT !.pc = "progress", !.seen = t]
              /\ UNCHANGED journal
           \/ /\ t.there /\ ~(hand.corr \in t.tags /\ t.cat = "audiobooks")
              /\ Record("failed", FALSE) /\ Return
           \/ Record("submission_uncertain", FALSE) /\ Return
    /\ UNCHANGED <<torrents, sends, outside>>

\* Mutant: a torrent is adopted before the journal knows of it.
AdoptUnrecorded(state) == journal' = journal

\* The tag is about to be added: the row is durable first.
Claim(state) == Record(state, TRUE)

\* A torrent of this hash: only where audiobooks go, and under our tag.
Adopt ==
    /\ hand.pc = "adopt"
    /\ LET t == hand.seen
           tagged == hand.corr \in t.tags
       IN  \/ /\ t.cat = "audiobooks-imported"
              /\ Record(IF tagged THEN "queued" ELSE "failed", tagged) /\ Return
           \/ t.cat = "other" /\ Record("failed", FALSE) /\ Return
           \/ /\ t.cat = "audiobooks" /\ tagged
              /\ Record(journal[hand.corr].state, TRUE) /\ Goto("progress")
           \/ t.cat = "audiobooks" /\ ~tagged /\ Claim("submitting") /\ Goto("tag")
    /\ UNCHANGED <<torrents, sends, outside>>

\* addTags, then the torrent is read again.  Whoever began with a prepared row
\* puts it back to prepared when that reading fails.
Tag ==
    /\ hand.pc = "tag"
    /\ \/ /\ torrents' = [torrents EXCEPT ![Hash].tags = IF torrents[Hash].there THEN @ \cup {hand.corr} ELSE @]
          /\ IF /\ hand.corr \in torrents'[Hash].tags
                /\ torrents'[Hash].cat = "audiobooks"
             THEN hand' = [hand EXCEPT !.pc = "progress", !.seen = torrents'[Hash]] /\ UNCHANGED journal
             ELSE /\ Return
                  /\ \/ Record("failed", FALSE) /\ torrents[Hash].there
                     \/ Record(IF hand.was = "prepared" THEN "prepared" ELSE "submitting", FALSE)
                        /\ ~torrents[Hash].there
       \/ /\ \/ UNCHANGED torrents
             \/ torrents[Hash].there /\ torrents' = [torrents EXCEPT ![Hash].tags = @ \cup {hand.corr}]
          /\ \E end \in {"failed", "submission_uncertain", "prepared"} :
                 /\ end = "prepared" => hand.was = "prepared"
                 /\ Record(end, FALSE)
          /\ Return
    /\ UNCHANGED <<sends, outside>>

\* Mutant: the torrent's state is answered and not journalled.
AnsweredOnly(t) == journal[hand.corr].state

Observed(t) == IF t.bad THEN "failed" ELSE "queued"

\* _qbit_status_job's second half: a broken torrent is a failure that keeps the
\* hash.  qBittorrent's progress is taken to be a number: an answer that is none is
\* an error of the call (public_status), like one that is lost.
Progress ==
    /\ hand.pc = "progress"
    /\ Record(Observed(hand.seen), FALSE) /\ Return
    /\ UNCHANGED <<torrents, sends, outside>>

-----------------------------------------------------------------------------
(* A status query                                                          *)

Status(c) ==
    /\ hand.pc = "idle"
    /\ journal[c] # NoRow /\ ~Settled(journal[c]) /\ torrents[journal[c].hash].there
    /\ hand' = [Idle EXCEPT !.pc = "observe", !.corr = c, !.seen = torrents[journal[c].hash],
                            !.was = journal[c].state]
    /\ UNCHANGED <<journal, torrents, sends, outside>>

\* Only a torrent with our tag, where it was put or where BookBot moved it.
Observe ==
    /\ hand.pc = "observe"
    /\ LET t == hand.seen
       IN  \/ /\ hand.corr \notin t.tags \/ t.cat = "other"
              /\ Record("failed", FALSE) /\ Return
           \/ /\ hand.corr \in t.tags /\ t.cat = "audiobooks-imported"
              /\ Record("queued", TRUE) /\ Return
           \/ /\ hand.corr \in t.tags /\ t.cat = "audiobooks"
              /\ Record(journal[hand.corr].state, TRUE) /\ Goto("progress")
    /\ UNCHANGED <<torrents, sends, outside>>

-----------------------------------------------------------------------------
(* The rest of the world                                                   *)

\* The process is killed and starts again: the journal is all it has.
Crash ==
    /\ hand.pc # "idle" /\ Return
    /\ UNCHANGED <<journal, torrents, sends, outside>>

Listing ==
    \/ \E k \in live : live' = live \ {k} /\ UNCHANGED page
    \/ \E k \in Candidates, h \in Hashes :
           page[k] # h /\ page' = [page EXCEPT ![k] = h] /\ UNCHANGED live

\* Somebody adds the same torrent, BookBot imports it, it breaks, it is removed.
Torrent ==
    \E h \in Hashes, cat \in {"audiobooks", "other"} :
        torrents' = [torrents EXCEPT ![h] =
            IF ~@.there THEN [there |-> TRUE, tags |-> {}, cat |-> cat, bad |-> FALSE]
            ELSE IF cat = "audiobooks" /\ @.cat = "audiobooks" THEN [@ EXCEPT !.cat = "audiobooks-imported"]
            ELSE NoTorrent]

Break == \E h \in Hashes :
    /\ torrents[h].there /\ ~torrents[h].bad
    /\ torrents' = [torrents EXCEPT ![h].bad = TRUE]

World ==
    /\ churn < MaxChurn /\ churn' = churn + 1
    /\ \/ Listing /\ UNCHANGED torrents
       \/ (Torrent \/ Break) /\ UNCHANGED <<live, page>>
    /\ UNCHANGED <<journal, hand, sends>>

Init ==
    /\ journal = [c \in Correlations |-> NoRow]
    /\ live = Candidates
    /\ page \in [Candidates -> Hashes]
    /\ torrents = [h \in Hashes |-> NoTorrent]
    /\ hand = Idle
    /\ sends = [h \in Hashes |-> 0]
    /\ churn = 0

Step == Resume \/ Resolve \/ Submit \/ Add \/ Answered \/ Confirm \/ Adopt \/ Tag \/ Progress \/ Observe

Next ==
    \/ \E c \in Correlations : Status(c) \/ \E k \in Candidates : Grab(c, k)
    \/ Step
    \/ Crash
    \/ World

Spec == Init /\ [][Next]_vars

\* Huey polls every 30 seconds, and the process is not killed in every poll.
Fairness ==
    /\ WF_vars(Step)
    /\ SF_vars(Progress)
    /\ SF_vars(Observe)
    /\ \A c \in Correlations : SF_vars(Status(c))

FairSpec == Spec /\ Fairness

-----------------------------------------------------------------------------
(* Properties                                                              *)

\* No hash is sent to qBittorrent twice: not after a lost answer, not after a
\* restart between the journal and the add, not for another request.
AddedOnce == \A h \in Hashes : sends[h] <= 1

\* A torrent with a request's tag is one the journal can account for: its row
\* was durable first, it still holds that hash, and nobody took it over.
TagsAreJournalled ==
    \A h \in Hashes : \A c \in torrents[h].tags :
        /\ journal[c].hash = h /\ journal[c].mutated
        /\ journal[c].canon = NoCorrelation

\* The unique indexes never refuse a write in the middle of a grab.
OneOwner ==
    /\ \A h \in Hashes : Cardinality(HashOwners(h)) <= 1
    /\ \A k \in Candidates : Cardinality(CandidateOwners(k)) <= 1

\* What an alias is answered with exists: its owner still holds that hash, and
\* is not an alias itself.
AliasesAnswerable ==
    \A c \in Correlations : journal[c].canon # NoCorrelation =>
        /\ journal[journal[c].canon].canon = NoCorrelation
        /\ journal[journal[c].canon].hash = journal[c].hash
        /\ Retained(journal[journal[c].canon])

Owned(c) ==
    LET r == journal[c]
    IN  CASE r.changed \/ (r.state = "failed" /\ r.canon = NoCorrelation /\ ~r.mutated) ->
                 [is |-> "refused", hash |-> NoHash, root |-> NoCorrelation]
          [] r.canon # NoCorrelation /\ ~r.changed ->
                 [is |-> "joined", hash |-> r.hash, root |-> r.canon]
          [] r.mutated /\ r.canon = NoCorrelation /\ ~r.changed ->
                 [is |-> IF r.state = "failed" THEN "lost" ELSE "holds", hash |-> r.hash, root |-> NoCorrelation]
          [] OTHER -> [is |-> "nothing", hash |-> NoHash, root |-> NoCorrelation]

Contract == INSTANCE AbbaOwnership WITH own <- [c \in Correlations |-> Owned(c)]

\* The journal keeps the adapter's promise to Huey, through every crash.
KeepsTheContract == Contract!Spec

Sent(c) == journal[c].state \in {"submitting", "submission_uncertain"} /\ Updatable(journal[c])
Exists(c) == journal[c] # NoRow /\ journal[c].hash # NoHash /\ torrents[journal[c].hash].there

\* A torrent that made it to qBittorrent is reported, whatever answer was lost:
\* Huey's polls take the row out of doubt.
DoubtEnds == \A c \in Correlations : []<>(~Sent(c) \/ ~Exists(c))

\* The journal accounts for what qBittorrent has, under indexes that hold.
JournalSound == TypeOK /\ TagsAreJournalled /\ OneOwner /\ AliasesAnswerable
=============================================================================
