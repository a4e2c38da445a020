--------------------------- MODULE LedgerMigration ---------------------------
(* Start-up over ledgers an older version wrote.  Two correlations could then *)
(* hold one torrent hash or one listing, both in the adapter's journal        *)
(* (docker/abba/app.py Journal._initialize) and in Huey's requests            *)
(* (database.py _migrate_abba_collisions), and two LazyLibrarian books one    *)
(* hash.  Each is repaired before the unique indexes are built, which abort   *)
(* the start if a pair is left.                                               *)
EXTENDS Naturals, FiniteSets

CONSTANTS Ids,               \* request numbers, from 1; the correlation huey:n is n
          Candidates, Hashes, NoHash,
          Ledgers            \* of "journal", "rows", "lazy", those to start from

VARIABLES journal, rows, lazy, starts
vars == <<journal, rows, lazy, starts>>

None == 0
Sent == {"submitting", "queued", "submission_uncertain"}
Live == {"processing", "queued", "completed"}

Min(S) == CHOOSE x \in S : \A y \in S : x <= y

\* The member of S with the least rank, then the least number.
First(S, Rank(_)) ==
    Min({c \in S : \A d \in S : Rank(c) <= Rank(d)})

-----------------------------------------------------------------------------
(* The adapter's journal                                                   *)

NoEntry == [cand |-> NoHash, hash |-> NoHash, state |-> "none", mutated |-> FALSE,
            canon |-> None, candOwner |-> None, changed |-> FALSE]

Retained(r) == r.state # "none" /\ (r.state = "failed" => r.mutated)

\* A row that was sent, or that another row already follows, keeps its hash.
Backfilled(j) ==
    LET followed(c) == \E d \in Ids : j[d].canon = c \/ j[d].candOwner = c
        keeps(c) == IF j[c].state \in Sent THEN j[c].hash # NoHash ELSE followed(c)
    IN  [c \in Ids |-> [j[c] EXCEPT !.mutated = @ \/ keeps(c)]]

HashRoots(j, h) == {c \in Ids : j[c].hash = h /\ h # NoHash /\ j[c].canon = None /\ Retained(j[c])}

\* The elected owner of a hash: one that has not failed, then the lowest number.
HashRoot(j, h) ==
    LET Rank(c) == IF j[c].state = "failed" THEN 1 ELSE 0 IN First(HashRoots(j, h), Rank)

\* Mutant: a start moves only the next row behind the elected one.
HashElectedNext(j) ==
    [c \in Ids |->
        IF /\ c \in HashRoots(j, j[c].hash) /\ c # HashRoot(j, j[c].hash)
           /\ c = Min(HashRoots(j, j[c].hash) \ {HashRoot(j, j[c].hash)})
        THEN [j[c] EXCEPT !.canon = HashRoot(j, j[c].hash)] ELSE j[c]]

\* Of several roots one stays; it can no longer be released.
HashElected(j) ==
    [c \in Ids |->
        IF c \notin HashRoots(j, j[c].hash) \/ Cardinality(HashRoots(j, j[c].hash)) = 1 THEN j[c]
        ELSE IF c = HashRoot(j, j[c].hash)
             THEN [j[c] EXCEPT !.mutated = @ \/ j[c].state = "prepared"]
             ELSE [j[c] EXCEPT !.canon = HashRoot(j, j[c].hash)]]

\* Mutant: rows that follow a root which lost the election are left alone.
HashUnflattened(j) == j

\* Every alias of a hash follows its root directly.
HashFlattened(j) ==
    [c \in Ids |->
        IF /\ j[c].hash # NoHash /\ j[c].canon # None
           /\ HashRoots(j, j[c].hash) # {} /\ c # HashRoot(j, j[c].hash)
        THEN [j[c] EXCEPT !.canon = HashRoot(j, j[c].hash)]
        ELSE j[c]]

CandidateRoots(j, k) == {c \in Ids : j[c].cand = k /\ j[c].candOwner = None /\ Retained(j[c])}

CandidateRoot(j, k) ==
    LET Rank(c) == IF j[c].state = "failed" THEN 1
                   ELSE IF j[c].state # "prepared" \/ j[c].mutated \/ j[c].canon # None THEN 0
                   ELSE 2
    IN  First(CandidateRoots(j, k), Rank)

\* Mutant: the listing's conflict releases the hash the row still owns.
BehindReleased(j, c, o) ==
    IF j[o].hash # NoHash /\ j[c].hash = j[o].hash
    THEN [j[c] EXCEPT !.candOwner = o]
    ELSE [j[c] EXCEPT !.candOwner = o, !.state = "failed", !.changed = TRUE, !.mutated = FALSE]

\* A row of the listing beside its owner o: an alias if the hash is the same,
\* otherwise a result that changed, whatever it had reached.
Behind(j, c, o) ==
    IF j[o].hash # NoHash /\ j[c].hash = j[o].hash
    THEN [j[c] EXCEPT !.candOwner = o]
    ELSE [j[c] EXCEPT !.candOwner = o, !.state = "failed", !.changed = TRUE]

\* Mutant: rows of one listing with one hash are taken to have converged.
CandidateElectedConflicts(j) ==
    [c \in Ids |->
        LET S == CandidateRoots(j, j[c].cand)
        IN  IF c \notin S \/ c = CandidateRoot(j, j[c].cand) \/ j[c].hash = j[CandidateRoot(j, j[c].cand)].hash
            THEN j[c] ELSE Behind(j, c, CandidateRoot(j, j[c].cand))]

CandidateElected(j) ==
    [c \in Ids |->
        IF c \notin CandidateRoots(j, j[c].cand) \/ Cardinality(CandidateRoots(j, j[c].cand)) = 1 THEN j[c]
        ELSE IF c = CandidateRoot(j, j[c].cand)
             THEN [j[c] EXCEPT !.mutated = @ \/ (j[c].state = "prepared" /\ j[c].canon = None)]
             ELSE Behind(j, c, CandidateRoot(j, j[c].cand))]

CandidateFlattened(j) ==
    [c \in Ids |->
        IF /\ j[c].candOwner # None /\ CandidateRoots(j, j[c].cand) # {}
           /\ c # CandidateRoot(j, j[c].cand)
        THEN Behind(j, c, CandidateRoot(j, j[c].cand))
        ELSE j[c]]

\* The passes, in order and in one transaction.
MigrateJournal ==
    \E b \in {Backfilled(journal)} : \E e \in {HashElected(b)} : \E f \in {HashFlattened(e)} :
        \E k \in {CandidateElected(f)} : journal' = CandidateFlattened(k)

-----------------------------------------------------------------------------
(* Huey's requests                                                         *)

NoRequest == [cand |-> NoHash, hash |-> NoHash, status |-> "none", canon |-> None, conflict |-> FALSE]

Owners(R, k) == {c \in Ids : R[c].cand = k /\ k # NoHash /\ R[c].canon = None /\ R[c].status \in Live}
Hashed(R, h) == {c \in Ids : R[c].hash = h /\ h # NoHash /\ R[c].canon = None /\ R[c].status \in Live}

CandidateOwner(R, k) ==
    LET Rank(c) == IF R[c].hash # NoHash \/ R[c].status \in {"queued", "completed"} THEN 0 ELSE 1
    IN  First(Owners(R, k), Rank)

\* Mutant: a duplicate without a hash is failed and follows nobody.
SettledAlone(R) ==
    [c \in Ids |->
        LET o == CandidateOwner(R, R[c].cand)
        IN  IF c \notin Owners(R, R[c].cand) \/ c = o \/ (R[c].hash = R[o].hash /\ R[o].hash # NoHash) THEN R[c]
            ELSE [R[c] EXCEPT !.status = "failed", !.conflict = R[c].hash # R[o].hash]]

\* Rows of one listing: without a hash they follow the owner, with another
\* hash they are quarantined, with the same hash the next pass joins them.
Settled(R) ==
    [c \in Ids |->
        LET o == CandidateOwner(R, R[c].cand)
        IN  IF c \notin Owners(R, R[c].cand) \/ c = o \/ (R[c].hash = R[o].hash /\ R[o].hash # NoHash) THEN R[c]
            ELSE IF R[c].hash = R[o].hash THEN [R[c] EXCEPT !.status = "failed", !.canon = o]
            ELSE [R[c] EXCEPT !.status = "failed", !.conflict = TRUE]]

\* Mutant: only the row itself becomes an alias.
FollowNone(R, S) == S

\* _coalesce_abba_row also takes along whoever followed the new alias.
Follow(R, S) ==
    [c \in Ids |-> IF R[c].canon # None /\ S[R[c].canon].canon # None
                   THEN [S[c] EXCEPT !.canon = S[R[c].canon].canon] ELSE S[c]]

Joined(R) ==
    [c \in Ids |->
        IF c \in Hashed(R, R[c].hash) /\ c # Min(Hashed(R, R[c].hash))
        THEN [R[c] EXCEPT !.status = "failed", !.canon = Min(Hashed(R, R[c].hash))]
        ELSE R[c]]

\* Mutant: the listings are repaired, the hashes are left to the index.
CandidatesOnly(R) == Follow(R, Settled(R))

HueyMigrated(R) ==
    LET S == Follow(R, Settled(R)) IN Follow(S, Joined(S))

-----------------------------------------------------------------------------
(* Huey's LazyLibrarian requests: a shared hash proves nothing about the    *)
(* works, so nothing becomes an alias.                                      *)

NoBook == [hash |-> NoHash, status |-> "none", retry |-> "none"]

Tracked(L, h) == {c \in Ids : L[c].hash = h /\ h # NoHash /\ L[c].status \in Live}
Proved(L, h) == {c \in Tracked(L, h) : L[c].status = "completed"}

\* Mutant: the quarantine forgets the retry that still owns the backend.
QuarantinedBook(r) == [r EXCEPT !.status = "failed"]

Quarantined(r) ==
    [r EXCEPT !.status = "failed", !.retry = IF @ = "none" THEN @ ELSE "blocked"]

\* Mutant: a second completed request keeps the hash.
LazyQuarantineOnly(L) ==
    [c \in Ids |->
        LET S == Tracked(L, L[c].hash)
        IN  IF c \notin S \/ Cardinality(S) = 1 \/ c \in Proved(L, L[c].hash) THEN L[c] ELSE Quarantined(L[c])]

LazyMigrated(L) ==
    [c \in Ids |->
        LET S == Tracked(L, L[c].hash)
            P == Proved(L, L[c].hash)
        IN  IF c \notin S \/ Cardinality(S) = 1 THEN L[c]
            ELSE IF c \notin P THEN Quarantined(L[c])
            ELSE IF c = Min(P) THEN L[c]
            ELSE [L[c] EXCEPT !.hash = NoHash]]

-----------------------------------------------------------------------------
(* What older versions left                                                *)

Entries ==
    {NoEntry} \cup
    {[NoEntry EXCEPT !.cand = k, !.hash = h, !.state = s, !.mutated = m] :
        k \in Candidates, h \in Hashes,
        s \in {"prepared", "queued", "failed"}, m \in BOOLEAN} \cup
    {[NoEntry EXCEPT !.cand = k, !.state = "failed"] : k \in Candidates}

\* Rows of one hash, or one listing, may already follow one another.
MayFollow(j, c, d) == d # c /\ j[c].hash # NoHash /\ j[c].hash = j[d].hash

HashLinks(j) ==
    {f \in [Ids -> Ids \cup {None}] :
        \A c \in Ids : f[c] # None => MayFollow(j, c, f[c]) /\ f[f[c]] = None}

CandidateLinks(j, f) ==
    {g \in [Ids -> Ids \cup {None}] :
        \A c \in Ids : g[c] # None =>
            /\ MayFollow(j, c, g[c]) /\ j[c].cand = j[g[c]].cand /\ g[g[c]] = None
            /\ f[c] = IF f[g[c]] = None THEN g[c] ELSE f[g[c]]}

Requests ==
    {NoRequest} \cup
    {[NoRequest EXCEPT !.cand = k, !.hash = h, !.status = s] :
        k \in Candidates, h \in Hashes, s \in Live} \cup
    {[NoRequest EXCEPT !.cand = k, !.status = s] : k \in Candidates, s \in {"processing", "failed"}}

\* An alias in Huey is a failed row.
RequestLinks(R) ==
    {f \in [Ids -> Ids \cup {None}] :
        \A c \in Ids : f[c] # None =>
            /\ f[c] # c /\ f[f[c]] = None /\ R[c].status = "failed" /\ R[f[c]].status # "none"}

Books ==
    {NoBook} \cup
    {[hash |-> h, status |-> s, retry |-> t] :
        h \in Hashes, s \in {"processing", "queued"}, t \in {"none", "awaiting_import"}} \cup
    {[hash |-> h, status |-> "completed", retry |-> "fulfilled"] : h \in Hashes}

Legacy(name, old, S, empty) == IF name = old THEN S ELSE [Ids -> {empty}]

\* The repairs do not read one another's ledger: one at a time has rows.
Init ==
    /\ \E old \in Ledgers :
          /\ \E j \in Legacy("journal", old, [Ids -> Entries], NoEntry) :
             \E f \in HashLinks(j) : \E g \in CandidateLinks(j, f) :
                journal = [c \in Ids |-> [j[c] EXCEPT !.canon = f[c], !.candOwner = g[c]]]
          /\ \E R \in Legacy("rows", old, [Ids -> Requests], NoRequest) : \E f \in RequestLinks(R) :
                rows = [c \in Ids |-> [R[c] EXCEPT !.canon = f[c]]]
          /\ lazy \in Legacy("lazy", old, [Ids -> Books], NoBook)
    /\ starts = 0

\* A start of both programs: each repairs its own ledger.
Start ==
    /\ starts < 2 /\ starts' = starts + 1
    /\ MigrateJournal
    /\ rows' = HueyMigrated(rows)
    /\ lazy' = LazyMigrated(lazy)

Next == Start
Spec == Init /\ [][Next]_vars

-----------------------------------------------------------------------------
(* Properties                                                              *)

AtMostOne(S) == Cardinality(S) <= 1

\* The unique indexes can be built after the repair, so the programs start: one
\* root for each hash and for each listing in both ledgers, one LazyLibrarian
\* request for each hash (app.py 832-847, database.py 368-409).
IndexesBuild ==
    starts > 0 =>
        /\ \A h \in Hashes : /\ AtMostOne(HashRoots(journal, h)) /\ AtMostOne(Hashed(rows, h))
                             /\ AtMostOne(Tracked(lazy, h))
        /\ \A k \in Candidates : AtMostOne(CandidateRoots(journal, k)) /\ AtMostOne(Owners(rows, k))

\* After the repair nothing follows a row that follows another, and what the
\* journal's aliases follow is a retained owner of the same hash, so a lookup
\* through an alias always ends at a usable owner.
AliasesReachAnOwner ==
    starts > 0 => \A c \in Ids :
        /\ journal[c].canon # None =>
               LET o == journal[journal[c].canon]
               IN  o.canon = None /\ o.hash = journal[c].hash /\ Retained(o)
        /\ journal[c].candOwner # None =>
               LET o == journal[journal[c].candOwner]
               IN  o.candOwner = None /\ o.cand = journal[c].cand /\ Retained(o)
        /\ rows[c].canon # None => rows[rows[c].canon].canon = None

Elected(j) == [c \in Ids |-> <<j[c].state, j[c].canon, j[c].candOwner>>]

\* A second start finds nothing left to repair: an elected owner stays elected
\* and nothing that was retained is released.
SecondStartIdle ==
    [][starts > 0 => /\ UNCHANGED <<Elected(journal), rows, lazy>>
                     /\ \A c \in Ids : Retained(journal[c]) => Retained(journal'[c])]_vars

\* A torrent that was sent keeps an owner in the journal, and a request Huey was
\* following is followed afterwards, follows one that is, or is set aside as a
\* conflict; a completed request stays so unless it follows another.
NothingDropped ==
    [][/\ \A c \in Ids : journal[c].state = "queued" => HashRoots(journal', journal[c].hash) # {}
       /\ \A c \in Ids : rows[c].canon = None /\ rows[c].status \in Live =>
              LET r == rows'[c]
              IN  \/ r.canon = None /\ (r.status \in Live \/ r.conflict)
                  \/ r.canon # None /\ (rows'[r.canon].status \in Live \/ rows'[r.canon].conflict)
       /\ \A c \in Ids : lazy[c].status \in Live =>
              \/ lazy'[c].status = lazy[c].status
              \/ lazy'[c].retry # "awaiting_import" /\ lazy[c].status # "completed"]_vars

\* After a start both programs run and every lookup ends at an owner.
LedgersRepaired == IndexesBuild /\ AliasesReachAnOwner

\* A repair drops nothing, and is done with after one start.
RepairIsFinal == SecondStartIdle /\ NothingDropped
=============================================================================
