---------------------------- MODULE EbookCascade ----------------------------
(***************************************************************************)
(* The ebook acquisition cascade of the Huey intake.                       *)
(*                                                                         *)
(* One logical ebook request owns an ordered policy of backends.  A runner *)
(* thread tries them one after the other: it searches, reserves the        *)
(* resolved work and the backend's own identifier, crosses a durable       *)
(* "mutation boundary" and only then sends the one request that is not     *)
(* idempotent.  Every step that changes the database is one SQLite         *)
(* transaction and one action here; the HTTP calls between them are where  *)
(* other threads, BookBot (a second process writing the same database), the *)
(* remote services, a fault or a restart interleave.                       *)
(*                                                                         *)
(* A request that every backend missed becomes a silent retry, claimed     *)
(* again later by a background worker that reuses the same rows.           *)
(***************************************************************************)
EXTENDS Integers, Sequences, FiniteSets

CONSTANTS
    Requests,     \* Huey request ids
    Works,        \* canonical work identities (ebook_cascades.identity_key)
    Providers,    \* identifiers a backend gives to a book (BookID, work id)
    None,         \* SQL NULL
    Policy,       \* ordered, duplicate-free backends
    RetryLimit,   \* UNAVAILABLE_RETRY_LIMIT (7 in the code)
    MaxCrashes,   \* bound on the crashes explored
    MaxFaults     \* bound on the exceptions that escape a runner

Backends == {"lazylibrarian", "shelfarr"}
Ordinals == 1..Len(Policy)

ASSUME PolicyAssumption ==
    /\ Policy \in Seq(Backends)
    /\ Len(Policy) >= 1
    /\ \A i, j \in Ordinals : Policy[i] = Policy[j] => i = j
ASSUME BoundsAssumption ==
    /\ RetryLimit \in Nat \ {0}
    /\ MaxCrashes \in Nat
    /\ MaxFaults \in Nat
ASSUME NoneAssumption == None \notin Requests \cup Works \cup Providers \cup Backends

VARIABLES
    requests,       \* requests: status, external_id set, startup recovery event
    cascades,       \* ebook_cascades
    attempts,       \* ebook_backend_attempts, per ordinal
    reservations,   \* ebook_backend_reservations: owner of [backend][identifier]
    retries,        \* unavailable_retries
    confirmations,  \* candidate_confirmations
    runner,         \* the thread running the cascade: lost in a crash
    phase,          \* Huey's process: "up", "down", "recovering"
    poll,           \* per backend, what its reconciliation loop just read
    bookbot,        \* BookBot between its eligibility reads and its UPDATE
    remote,         \* the job at the backend
    posts,          \* number of non-idempotent submissions sent, ever
    crashes, faults

stored == <<requests, cascades, attempts, reservations, retries, confirmations>>
vars == <<stored, runner, phase, poll, bookbot, remote, posts, crashes, faults>>

-----------------------------------------------------------------------------
(* Rows and row sets *)

RequestStatus == {"absent", "processing", "awaiting_selection", "queued",
                  "completed", "needs_selection", "failed"}
CascadeState == {"none", "searching", "awaiting_selection", "mutating",
                 "uncertain", "queued", "completed", "failed"}
AttemptStatus == {"pending", "searching", "awaiting_selection", "mutating",
                  "miss", "unavailable", "queued", "completed", "failed",
                  "uncertain"}
RetryState == {"none", "queued", "retrying", "awaiting_import", "blocked",
               "fulfilled", "expired"}
ConfirmationState == {"none", "pending", "claimed", "expired", "failed"}
RunnerPC == {"idle", "ready", "select", "begin", "searching", "resolved",
             "locked", "posted", "collided", "forced", "finish"}
RemoteState == {"absent", "pending", "active", "completed", "failed"}

RequestRow == [status : RequestStatus, external : BOOLEAN, startup : BOOLEAN]
CascadeRow == [state : CascadeState, ordinal : Ordinals,
               identity : Works \cup {None}, mutation : Backends \cup {None},
               final : Backends \cup {None}]
AttemptRow == [status : AttemptStatus, provider : Providers \cup {None},
               external : BOOLEAN, notFound : BOOLEAN]
RetryRow == [state : RetryState, count : 0..RetryLimit,
             identity : Works \cup {None}, due : BOOLEAN]
ConfirmationRow == [state : ConfirmationState, bound : BOOLEAN,
                    selected : Works \cup {None}]
RunnerRow == [pc : RunnerPC, background : BOOLEAN,
              owner : Requests \cup {None}]

PollRow == [kind : {"none", "recover", "observe", "prove"},
            request : Requests \cup {None}, seen : RemoteState]
BookBotRow == [request : Requests \cup {None}, outcome : {"completed", "failed"}]

IdleRunner == [pc |-> "idle", background |-> FALSE, owner |-> None]
NoPoll == [kind |-> "none", request |-> None, seen |-> "absent"]
IdleBookBot == [request |-> None, outcome |-> "failed"]

\* The partial unique indexes of the two tables that can own a work.
OwningCascade == {"searching", "awaiting_selection", "mutating", "uncertain",
                  "queued", "completed"}
OwningRetry == {"queued", "retrying", "awaiting_import", "blocked"}
\* A retry in one of these states keeps the request's reservations.
RetainingRetry == OwningRetry \cup {"fulfilled"}
\* A cascade the terminal trigger still follows.
LiveCascade == {"mutating", "uncertain", "queued"}
SearchSafe == {"searching", "awaiting_selection"}

Current(r) == Policy[cascades[r].ordinal]
CurrentAttempt(r) == attempts[r][cascades[r].ordinal]

Coalesce(a, b) == IF a # None THEN a ELSE b

Without(r) == [b \in Backends |-> [p \in Providers |->
    IF reservations[b][p] = r THEN None ELSE reservations[b][p]]]

\* Mutant: the reservations go whatever the retry still needs.
ReleaseAlways(r, s) == Without(r)

\* Reservations left when r's are deleted unless its retry row, in state s,
\* still retains them.
Release(r, s) == IF s \in RetainingRetry THEN reservations ELSE Without(r)

\* Mutant: the closed cascade is reset along with its state.
ForgetMutation(c) == [c EXCEPT !.state = "failed", !.mutation = None]

FailCascade(c) == [c EXCEPT !.state = "failed"]

\* Mutant: the marker is left to a later transaction.
CrossUnmarked(c, b) == [c EXCEPT !.state = "mutating"]

CrossBoundary(c, b) == [c EXCEPT !.state = "mutating", !.mutation = b]

\* Other requests that own work w through the index of either table.
RetryOwners(r, w) == {q \in Requests \ {r} :
    retries[q].state \in OwningRetry /\ retries[q].identity = w}
CascadeOwners(r, w) == {q \in Requests \ {r} :
    cascades[q].state \in OwningCascade /\ cascades[q].identity = w}

\* The retry table is read on every call; the unique index of the cascades
\* fails the one update that writes the work.
WorkOwners(r, w) ==
    IF RetryOwners(r, w) # {} THEN RetryOwners(r, w)
    ELSE IF cascades[r].identity = None THEN CascadeOwners(r, w) ELSE {}

\* Mutant: off by one at the limit.
RetryMissedLate(retry) ==
    IF retry.count > RetryLimit
    THEN [retry EXCEPT !.state = "expired", !.due = FALSE]
    ELSE [retry EXCEPT !.state = "queued", !.due = FALSE]

\* Mutant: every miss starts a new series.
RetryMissedAfresh(retry) ==
    [retry EXCEPT !.state = "queued", !.count = 0, !.due = FALSE]

\* A retry that ended before a handoff: bounded requeue.
RetryMissed(retry) ==
    IF retry.count >= RetryLimit
    THEN [retry EXCEPT !.state = "expired", !.due = FALSE]
    ELSE [retry EXCEPT !.state = "queued", !.due = FALSE]

-----------------------------------------------------------------------------
TypeOK ==
    /\ requests \in [Requests -> RequestRow]
    /\ cascades \in [Requests -> CascadeRow]
    /\ attempts \in [Requests -> [Ordinals -> AttemptRow]]
    /\ reservations \in [Backends -> [Providers -> Requests \cup {None}]]
    /\ retries \in [Requests -> RetryRow]
    /\ confirmations \in [Requests -> ConfirmationRow]
    /\ runner \in [Requests -> RunnerRow]
    /\ phase \in {"up", "down", "recovering"}
    /\ poll \in [Backends -> PollRow]
    /\ bookbot \in BookBotRow
    /\ remote \in [Requests -> RemoteState]
    /\ posts \in [Requests -> Nat]
    /\ crashes \in 0..MaxCrashes
    /\ faults \in 0..MaxFaults

Init ==
    /\ requests = [r \in Requests |->
         [status |-> "absent", external |-> FALSE, startup |-> FALSE]]
    /\ cascades = [r \in Requests |->
         [state |-> "none", ordinal |-> 1, identity |-> None,
          mutation |-> None, final |-> None]]
    /\ attempts = [r \in Requests |-> [o \in Ordinals |->
         [status |-> "pending", provider |-> None,
          external |-> FALSE, notFound |-> FALSE]]]
    /\ reservations = [b \in Backends |-> [p \in Providers |-> None]]
    /\ retries = [r \in Requests |->
         [state |-> "none", count |-> 0, identity |-> None, due |-> FALSE]]
    /\ confirmations = [r \in Requests |->
         [state |-> "none", bound |-> FALSE, selected |-> None]]
    /\ runner = [r \in Requests |-> IdleRunner]
    /\ phase = "up"
    /\ poll = [b \in Backends |-> NoPoll]
    /\ bookbot = IdleBookBot
    /\ remote = [r \in Requests |-> "absent"]
    /\ posts = [r \in Requests |-> 0]
    /\ crashes = 0
    /\ faults = 0

-----------------------------------------------------------------------------
(* Intake and the runner *)

world == <<poll, bookbot, remote, posts, crashes, faults>>

Goto(r, pc) == runner' = [runner EXCEPT ![r].pc = pc]

\* The runner returns: a background run still owes its retry cleanup.
Return(r) ==
    runner' = [runner EXCEPT ![r] =
        IF @.background THEN [@ EXCEPT !.pc = "finish", !.owner = None]
        ELSE IdleRunner]

\* The retry worker and the startup recovery run their batch in sequence.
BackgroundIdle ==
    \A r \in Requests : runner[r].background => runner[r].pc = "ready"

\* A new ebook request: row, cascade and attempts in one transaction.
Intake(r) ==
    /\ phase = "up"
    /\ requests[r].status = "absent"
    /\ requests' = [requests EXCEPT ![r].status = "processing"]
    /\ cascades' = [cascades EXCEPT ![r].state = "searching"]
    /\ runner' = [runner EXCEPT ![r] = [IdleRunner EXCEPT !.pc = "begin"]]
    /\ UNCHANGED <<attempts, reservations, retries, confirmations, phase, world>>

\* Claim every due retry and rearm its cascade; the whole batch is claimed in
\* one transaction and then run one request at a time.
ClaimableRows(r) ==
    /\ retries[r].state = "queued"
    /\ retries[r].count < RetryLimit
    /\ requests[r].status = "failed"
    /\ cascades[r].state = "failed"
    /\ cascades[r].mutation = None
    /\ cascades[r].identity = retries[r].identity

ClaimDueRetries ==
    LET batch == {r \in Requests : ClaimableRows(r) /\ retries[r].due} IN
    /\ phase = "up"
    /\ \A r \in Requests : ~runner[r].background
    /\ batch # {}
    /\ requests' = [r \in Requests |-> IF r \in batch
         THEN [requests[r] EXCEPT !.status = "processing", !.external = FALSE]
         ELSE requests[r]]
    /\ cascades' = [r \in Requests |-> IF r \in batch
         THEN [cascades[r] EXCEPT !.state = "searching", !.ordinal = 1,
                                  !.mutation = None, !.final = None]
         ELSE cascades[r]]
    /\ attempts' = [r \in Requests |-> IF r \in batch
         THEN [o \in Ordinals |-> [attempts[r][o] EXCEPT !.status = "pending",
                                   !.external = FALSE, !.notFound = FALSE]]
         ELSE attempts[r]]
    /\ retries' = [r \in Requests |-> IF r \in batch
         THEN [retries[r] EXCEPT !.state = "retrying", !.count = @ + 1,
                                 !.due = FALSE]
         ELSE retries[r]]
    /\ runner' = [r \in Requests |-> IF r \in batch
         THEN [pc |-> "ready", background |-> TRUE, owner |-> None]
         ELSE runner[r]]
    /\ UNCHANGED <<reservations, confirmations, phase, world>>

RunNext(r) ==
    /\ runner[r].pc = "ready"
    /\ BackgroundIdle
    /\ Goto(r, "begin")
    /\ UNCHANGED <<stored, phase, world>>

Collide(r, owners) ==
    /\ \E q \in owners :
         runner' = [runner EXCEPT ![r].pc = "collided", ![r].owner = q]
    /\ UNCHANGED <<stored, phase, world>>

\* A claimed selection reserves its work before the attempt begins.
SelectIdentity(r) ==
    LET w == confirmations[r].selected
        owners == WorkOwners(r, w)
    IN
    /\ runner[r].pc = "select"
    /\ \/ owners # {} /\ Collide(r, owners)
       \/ /\ owners = {}
          /\ cascades' = [cascades EXCEPT ![r].identity = w]
          /\ Goto(r, "begin")
          /\ UNCHANGED <<requests, attempts, reservations, retries,
                         confirmations, phase, world>>

\* What begin_ebook_attempt demands of the rows; it raises otherwise.
MayBegin(r) ==
    /\ cascades[r].mutation = None
    /\ cascades[r].state \in SearchSafe
    /\ CurrentAttempt(r).status \in {"pending"} \cup SearchSafe
    /\ requests[r].status = "processing"

BeginAttempt(r) ==
    /\ runner[r].pc = "begin"
    /\ MayBegin(r)
    /\ attempts' = [attempts EXCEPT ![r][cascades[r].ordinal].status = "searching"]
    /\ cascades' = [cascades EXCEPT ![r].state = "searching"]
    /\ Goto(r, "searching")
    /\ UNCHANGED <<requests, reservations, retries, confirmations, phase, world>>

\* A search-only attempt in progress, before any mutation.
Searching(r) ==
    /\ cascades[r].mutation = None
    /\ cascades[r].state = "searching"
    /\ CurrentAttempt(r).status = "searching"
    /\ requests[r].status = "processing"

-----------------------------------------------------------------------------
(* Pre-mutation outcomes *)

\* Mutant: off by one at the end of the policy.
PastLastBackend(r) == cascades[r].ordinal > Len(Policy)

AtLastBackend(r) == cascades[r].ordinal = Len(Policy)

\* advance_ebook_backend with another backend left in the policy.
AdvanceToNext(r, outcome, notFound) ==
    LET o == cascades[r].ordinal IN
    /\ Searching(r)
    /\ ~AtLastBackend(r)
    /\ attempts' = [attempts EXCEPT ![r][o].status = outcome,
                                    ![r][o].notFound = notFound]
    /\ cascades' = [cascades EXCEPT ![r].ordinal = o + 1]
    /\ Goto(r, "begin")
    /\ UNCHANGED <<requests, reservations, retries, confirmations, phase, world>>

\* advance_ebook_backend on the last backend: the request fails, a silent
\* retry is requeued or expires, and a first conclusive miss becomes a retry.
Exhaust(r, outcome, notFound) ==
    LET o == cascades[r].ordinal
        w == cascades[r].identity
        tried == [attempts[r] EXCEPT ![o].status = outcome, ![o].notFound = notFound]
        conclusive == /\ w # None
                      /\ \A i \in Ordinals : tried[i].status = "miss"
                      /\ \E i \in Ordinals : tried[i].notFound
        retry == IF retries[r].state = "retrying" THEN RetryMissed(retries[r])
                 ELSE IF conclusive /\ RetryOwners(r, w) = {} /\ retries[r].state = "none"
                 THEN [state |-> "queued", count |-> 0, identity |-> w, due |-> FALSE]
                 ELSE retries[r]
    IN
    /\ Searching(r)
    /\ AtLastBackend(r)
    /\ attempts' = [attempts EXCEPT ![r] = tried]
    /\ cascades' = [cascades EXCEPT ![r] = FailCascade(@)]
    /\ requests' = [requests EXCEPT ![r].status = "failed", ![r].external = FALSE]
    /\ retries' = [retries EXCEPT ![r] = retry]
    /\ reservations' = Release(r, retry.state)
    /\ Return(r)
    /\ UNCHANGED <<confirmations, phase, world>>

Advance(r, outcome, notFound) ==
    AdvanceToNext(r, outcome, notFound) \/ Exhaust(r, outcome, notFound)

\* terminalize_ebook_cascade: close without trying another backend.
MayTerminalize(r) ==
    /\ cascades[r].mutation = None
    /\ cascades[r].state \in SearchSafe
    /\ CurrentAttempt(r).status \in SearchSafe
    /\ requests[r].status \in {"processing", "awaiting_selection"}

Terminalize(r, status) ==
    /\ MayTerminalize(r)
    /\ attempts' = [attempts EXCEPT ![r][cascades[r].ordinal].status = "failed"]
    /\ cascades' = [cascades EXCEPT ![r] = FailCascade(@)]
    /\ requests' = [requests EXCEPT ![r].status = status]
    /\ reservations' = Release(r, retries[r].state)
    /\ Return(r)
    /\ UNCHANGED <<retries, confirmations, phase, world>>

\* The search found nothing this backend can map, or the backend is down.
SearchMisses(r) ==
    /\ runner[r].pc = "searching"
    /\ \E outcome \in {"miss", "unavailable"} : Advance(r, outcome, FALSE)

\* Several works matched and none is authoritative yet: close, unless an
\* interactive run can prompt.
SearchIsAmbiguous(r) ==
    /\ runner[r].pc = "searching"
    /\ cascades[r].identity = None
    /\ Terminalize(r, "needs_selection")

\* An unexpected exception before the boundary.
SearchRaises(r) ==
    /\ runner[r].pc \in {"searching", "resolved"}
    /\ Terminalize(r, "failed")

Prompt(r) ==
    /\ runner[r].pc = "searching"
    /\ ~runner[r].background
    /\ cascades[r].identity = None
    /\ confirmations[r].state \notin {"pending", "claimed"}
    /\ Searching(r)
    /\ confirmations' = [confirmations EXCEPT ![r] =
         [state |-> "pending", bound |-> FALSE, selected |-> None]]
    /\ requests' = [requests EXCEPT ![r].status = "awaiting_selection"]
    /\ cascades' = [cascades EXCEPT ![r].state = "awaiting_selection"]
    /\ attempts' = [attempts EXCEPT
         ![r][cascades[r].ordinal].status = "awaiting_selection"]
    /\ runner' = [runner EXCEPT ![r] = IdleRunner]
    /\ UNCHANGED <<reservations, retries, phase, world>>

\* Other requests that reserved the backend's identifier p or an alias of it.
IdentifierOwners(r, p, aliases) ==
    {reservations[Current(r)][i] : i \in {p} \cup aliases} \ {None, r}

\* The work, the identifier p and its aliases become r's.
Reserve(r, w, p, aliases) ==
    /\ cascades' = [cascades EXCEPT ![r].identity = w]
    /\ attempts' = [attempts EXCEPT ![r][cascades[r].ordinal].provider = p]
    /\ reservations' = [reservations EXCEPT ![Current(r)] =
         [i \in Providers |-> IF i \in {p} \cup aliases THEN r ELSE @[i]]]
    /\ Goto(r, "resolved")
    /\ UNCHANGED <<requests, retries, confirmations, phase, world>>

\* The search resolved one work, unless the cascade is already bound to one.
Resolve(r) ==
    \E w \in Works, p \in Providers, aliases \in SUBSET Providers :
    LET work == Coalesce(cascades[r].identity, w)
        owners == WorkOwners(r, work)
        idOwners == IdentifierOwners(r, p, aliases)
        mismatch == CurrentAttempt(r).provider \notin {None, p}
    IN
    /\ runner[r].pc = "searching"
    /\ Searching(r)
    /\ Current(r) = "lazylibrarian" => aliases = {}
    /\ \/ owners # {} /\ Collide(r, owners)
       \/ owners = {} /\ mismatch /\ Terminalize(r, "failed")
       \/ owners = {} /\ ~mismatch /\ idOwners # {} /\ Collide(r, idOwners)
       \/ owners = {} /\ ~mismatch /\ idOwners = {} /\ Reserve(r, work, p, aliases)

\* The collision's owner is made due at once, in a transaction of its own;
\* then this request closes as an alias of the owner.
ForceOwner(r) ==
    LET q == runner[r].owner IN
    /\ runner[r].pc = "collided"
    /\ retries' = [retries EXCEPT ![q].due = @ \/ retries[q].state = "queued"]
    /\ Goto(r, "forced")
    /\ UNCHANGED <<requests, cascades, attempts, reservations, confirmations,
                   phase, world>>

CloseDuplicate(r) ==
    /\ runner[r].pc = "forced"
    /\ Terminalize(r, "failed")

-----------------------------------------------------------------------------
(* The mutation boundary and what follows it *)

\* After the work is reserved: no release for LazyLibrarian (the only miss
\* that proves unavailability), or the backend became unreachable.
PreflightMisses(r) ==
    /\ runner[r].pc = "resolved"
    /\ \/ Current(r) = "lazylibrarian" /\ Advance(r, "miss", TRUE)
       \/ Advance(r, "unavailable", FALSE)

\* What lock_ebook_mutation demands of the rows.
MayLock(r) ==
    /\ Searching(r)
    /\ cascades[r].identity # None
    /\ CurrentAttempt(r).provider # None
    /\ reservations[Current(r)][CurrentAttempt(r).provider] = r

Lock(r) ==
    /\ runner[r].pc = "resolved"
    /\ MayLock(r)
    /\ cascades' = [cascades EXCEPT ![r] = CrossBoundary(@, Current(r))]
    /\ attempts' = [attempts EXCEPT ![r][cascades[r].ordinal].status = "mutating"]
    /\ Goto(r, "locked")
    /\ UNCHANGED <<requests, reservations, retries, confirmations, phase, world>>

\* The submission leaves; it may be lost, be handled late, or be accepted.
Submit(r) ==
    /\ runner[r].pc = "locked"
    /\ posts' = [posts EXCEPT ![r] = @ + 1]
    /\ \E s \in {"absent", "pending", "active"} :
         remote' = [remote EXCEPT ![r] = IF @ = "absent" THEN s ELSE @]
    /\ Goto(r, "posted")
    /\ UNCHANGED <<stored, phase, poll, bookbot, crashes, faults>>

\* persist_ebook_result: a handoff, a quarantine or a definite failure,
\* together with the retry transitions of the same transaction and trigger.
HandoffBoundary(r) ==
    \/ /\ cascades[r].mutation = None
       /\ cascades[r].state = "searching"
       /\ CurrentAttempt(r).status = "searching"
    \/ /\ cascades[r].mutation = Current(r)
       /\ cascades[r].state = "mutating"
       /\ CurrentAttempt(r).status = "mutating"

FailureBoundary(r) ==
    /\ cascades[r].mutation = Current(r)
    /\ cascades[r].state \in {"mutating", "uncertain"}
    /\ CurrentAttempt(r).status = cascades[r].state

\* Mutant: an accepted handoff counts as the book.
RetryAfterEager(retry, result) ==
    IF retry.state = "retrying" /\ result \in {"queued", "completed"}
    THEN [retry EXCEPT !.state = "fulfilled"] ELSE retry

\* Mutant: the result reaches the cascade but not the retry.
RetryUnsynced(retry, result) == retry

RetryAfter(retry, result) ==
    CASE retry.state = "retrying" /\ result \in {"queued", "uncertain"} ->
           [retry EXCEPT !.state = "awaiting_import"]
      [] retry.state \in {"retrying", "awaiting_import"} /\ result = "failed" ->
           [retry EXCEPT !.state = "blocked"]
      [] retry.state \in {"retrying", "awaiting_import"} /\ result = "completed" ->
           [retry EXCEPT !.state = "fulfilled"]
      [] OTHER -> retry

PersistResult(r, result) ==
    LET o == cascades[r].ordinal
        handedOff == result \in {"queued", "completed"}
    IN
    /\ IF result = "failed" THEN FailureBoundary(r) ELSE HandoffBoundary(r)
    /\ handedOff => cascades[r].identity # None
    /\ requests[r].status \in {"processing", "queued"}
    /\ ~requests[r].external
    /\ requests' = [requests EXCEPT
         ![r].status = IF result = "uncertain" THEN "queued" ELSE result,
         ![r].external = result # "uncertain"]
    /\ cascades' = [cascades EXCEPT ![r].state = result,
         ![r].final = IF handedOff THEN Coalesce(@, Current(r)) ELSE @]
    /\ attempts' = [attempts EXCEPT ![r][o].status = result,
         ![r][o].external = result # "uncertain"]
    /\ reservations' = IF result = "failed" THEN Release(r, retries[r].state)
                       ELSE reservations
    /\ retries' = [retries EXCEPT ![r] = RetryAfter(@, result)]
    /\ UNCHANGED <<confirmations, phase>>

\* The result of a job that the response, or the correlation after a lost
\* response, showed.  LazyLibrarian only ever reports a handoff.
Response(r) ==
    IF Current(r) = "lazylibrarian" \/ remote[r] = "active" THEN "queued" ELSE remote[r]

Handoff(r) ==
    /\ runner[r].pc = "posted"
    /\ remote[r] \notin {"absent", "pending"}
    /\ PersistResult(r, Response(r))
    /\ Return(r)
    /\ UNCHANGED world

\* The outcome is unknown, or Shelfarr could not prove before the boundary
\* that no correlated job exists.
Quarantine(r) ==
    /\ \/ runner[r].pc = "posted"
       \/ runner[r].pc = "resolved" /\ Current(r) = "shelfarr"
    /\ PersistResult(r, "uncertain")
    /\ Return(r)
    /\ UNCHANGED world

\* Shelfarr already has a request for this work: attach, nothing is sent.
Attach(r) ==
    /\ runner[r].pc = "resolved"
    /\ Current(r) = "shelfarr"
    /\ \E s \in {"active", "completed"} :
         /\ remote' = [remote EXCEPT ![r] = s]
         /\ PersistResult(r, IF s = "active" THEN "queued" ELSE "completed")
    /\ Return(r)
    /\ UNCHANGED <<poll, bookbot, posts, crashes, faults>>

\* finish_unavailable_retry_attempt, the cleanup every background run owes.
FinishRetry(r) ==
    LET status == requests[r].status
        retry == CASE retries[r].state # "retrying" -> retries[r]
                   [] retries[r].state = "retrying" /\ status = "queued" ->
                        [retries[r] EXCEPT !.state = "awaiting_import"]
                   [] retries[r].state = "retrying" /\ status = "completed" ->
                        [retries[r] EXCEPT !.state = "fulfilled"]
                   [] retries[r].state = "retrying"
                      /\ status \in {"needs_selection", "failed"} ->
                        RetryMissed(retries[r])
                   [] OTHER -> retries[r]
    IN
    /\ runner[r].pc = "finish"
    /\ retries' = [retries EXCEPT ![r] = retry]
    /\ requests' = [requests EXCEPT ![r].status =
         IF retries[r].state = "retrying" /\ @ = "needs_selection" THEN "failed" ELSE @]
    /\ reservations' = IF retry.state = "expired" /\ retries[r].state = "retrying"
                       THEN Release(r, "expired") ELSE reservations
    /\ runner' = [runner EXCEPT ![r] = IdleRunner]
    /\ UNCHANGED <<cascades, attempts, confirmations, phase, world>>

-----------------------------------------------------------------------------
(* What the triggers do when a request's status becomes terminal *)

\* The blocked owner's current attempt is the job the request is bound to.
ExactBlockedOwner(r) ==
    /\ retries[r].state = "blocked"
    /\ cascades[r].state = "failed"
    /\ cascades[r].identity # None
    /\ Coalesce(cascades[r].final, cascades[r].mutation) = Current(r)
    /\ CurrentAttempt(r).external
    /\ requests[r].external

RequestCompletes(r) ==
    LET o == cascades[r].ordinal
        fires == requests[r].status # "completed"
        live == fires /\ cascades[r].state \in LiveCascade
        repaired == fires /\ ExactBlockedOwner(r)
    IN
    /\ fires /\ retries[r].state = "blocked" => repaired
    /\ requests' = [requests EXCEPT ![r].status = "completed"]
    /\ cascades' = IF live \/ repaired
         THEN [cascades EXCEPT ![r].state = "completed",
                               ![r].final = Coalesce(@, Current(r))]
         ELSE cascades
    /\ attempts' = IF repaired \/ (live /\ CurrentAttempt(r).status \in LiveCascade)
         THEN [attempts EXCEPT ![r][o].status = "completed"]
         ELSE attempts
    /\ retries' = IF fires /\ retries[r].state \in {"retrying", "awaiting_import", "blocked"}
         THEN [retries EXCEPT ![r].state = "fulfilled"]
         ELSE retries
    /\ UNCHANGED <<reservations, confirmations>>

RequestFails(r) ==
    LET o == cascades[r].ordinal
        fires == requests[r].status # "failed"
        live == fires /\ cascades[r].state \in LiveCascade
    IN
    /\ requests' = [requests EXCEPT ![r].status = "failed"]
    /\ cascades' = IF live THEN [cascades EXCEPT ![r] = FailCascade(@)] ELSE cascades
    /\ attempts' = IF live /\ CurrentAttempt(r).status \in LiveCascade
         THEN [attempts EXCEPT ![r][o].status = "failed"]
         ELSE attempts
    /\ reservations' = IF live THEN Release(r, retries[r].state) ELSE reservations
    /\ retries' = [retries EXCEPT ![r].state =
         IF fires /\ @ = "awaiting_import" THEN "blocked" ELSE @]
    /\ UNCHANGED confirmations

-----------------------------------------------------------------------------
(* Reconciliation: each backend's loop reads a row, asks the backend, then   *)
(* records what it was told in a transaction that checks the row again.      *)

\* Rows whose submission may have crossed: a lost response, or a dispatch that
\* a restart interrupted.
Unconfirmed(r) ==
    /\ ~requests[r].external
    /\ \/ requests[r].status = "queued"
       \/ requests[r].status = "processing" /\ requests[r].startup

Correlated(r) == requests[r].status = "queued" /\ requests[r].external

\* Answers that lead to a write: a job that exists for an unconfirmed row, a
\* terminal job for a correlated one (BookBot, not Huey, completes a
\* LazyLibrarian download) and a late completion for a blocked Shelfarr owner.
Poll(r) ==
    LET b == Current(r) IN
    /\ phase = "up"
    /\ poll[b].kind = "none"
    /\ \E kind \in {"recover", "observe", "prove"} :
         /\ \/ kind = "recover" /\ Unconfirmed(r) /\ remote[r] \notin {"absent", "pending"}
            \/ kind = "observe" /\ Correlated(r) /\ remote[r] = "failed"
            \/ /\ kind = "observe" /\ Correlated(r) /\ remote[r] = "completed"
               /\ b = "shelfarr"
            \/ /\ kind = "prove" /\ requests[r].status = "failed"
               /\ ExactBlockedOwner(r) /\ remote[r] = "completed"
               /\ b = "shelfarr"
         /\ poll' = [poll EXCEPT ![b] = [kind |-> kind, request |-> r, seen |-> remote[r]]]
    /\ UNCHANGED <<stored, runner, phase, bookbot, remote, posts, crashes, faults>>

\* The loop holds an answer of this kind about request r, and is done with it.
Records(b, kind, r) ==
    /\ poll[b].kind = kind
    /\ poll[b].request = r
    /\ poll' = [poll EXCEPT ![b] = NoPoll]
    /\ UNCHANGED <<runner, phase, bookbot, remote, posts, crashes, faults>>

MayRecover(r) ==
    /\ CurrentAttempt(r).status \in {"mutating", "uncertain"}
    /\ cascades[r].state \in {"mutating", "uncertain"}
    /\ CurrentAttempt(r).provider # None
    /\ reservations[Current(r)][CurrentAttempt(r).provider] = r
    /\ requests[r].status \in {"processing", "queued"}
    /\ ~requests[r].external

\* record_ebook_recovered_handoff; a Shelfarr job that already failed is
\* persisted as a failure instead.
RecoverHandoff(r) ==
    LET o == cascades[r].ordinal
        b == Current(r)
    IN
    /\ Records(b, "recover", r)
    /\ b = "shelfarr" => poll[b].seen # "failed"
    /\ MayRecover(r)
    /\ requests' = [requests EXCEPT ![r].status = "queued", ![r].external = TRUE]
    /\ attempts' = [attempts EXCEPT ![r][o].status = "queued", ![r][o].external = TRUE]
    /\ cascades' = [cascades EXCEPT ![r].state = "queued", ![r].final = b]
    /\ retries' = [retries EXCEPT ![r].state =
         IF @ = "retrying" THEN "awaiting_import" ELSE @]
    /\ UNCHANGED <<reservations, confirmations>>

RecoverFailure(r) ==
    /\ Records("shelfarr", "recover", r)
    /\ poll["shelfarr"].seen = "failed"
    /\ PersistResult(r, "failed")

\* record_shelfarr_state, record_lazylibrarian_state
ObserveTerminal(r) ==
    LET b == Current(r) IN
    /\ Records(b, "observe", r)
    /\ requests[r].status = "queued"
    /\ IF poll[b].seen = "completed" THEN RequestCompletes(r) ELSE RequestFails(r)

\* record_blocked_shelfarr_completion
ProveBlocked(r) ==
    /\ Records("shelfarr", "prove", r)
    /\ requests[r].status = "failed"
    /\ ExactBlockedOwner(r)
    /\ RequestCompletes(r)

\* The answer is unusable, or the row moved on and the guarded write did not
\* match it.
DropPoll(b) ==
    /\ poll[b].kind # "none"
    /\ poll' = [poll EXCEPT ![b] = NoPoll]
    /\ UNCHANGED <<stored, runner, phase, bookbot, remote, posts, crashes, faults>>

-----------------------------------------------------------------------------
(* BookBot, a process of its own: it reads, in no transaction, whether the   *)
(* row may take the outcome of its import, then updates it without a guard   *)

BookBotReads(r) ==
    /\ bookbot.request = None
    /\ Current(r) = "lazylibrarian"
    /\ requests[r].external
    /\ remote[r] = "completed"
    /\ \E outcome \in {"completed", "failed"} :
         /\ \/ requests[r].status = "queued"
            \/ /\ outcome = "completed"
               /\ requests[r].status = "failed"
               /\ ExactBlockedOwner(r)
         /\ bookbot' = [request |-> r, outcome |-> outcome]
    /\ UNCHANGED <<stored, runner, phase, poll, remote, posts, crashes, faults>>

BookBotWrites(r) ==
    /\ bookbot.request = r
    /\ IF bookbot.outcome = "completed" THEN RequestCompletes(r) ELSE RequestFails(r)
    /\ bookbot' = IdleBookBot
    /\ UNCHANGED <<runner, phase, poll, remote, posts, crashes, faults>>

\* A locked database, an aborting trigger or BookBot's own end.
BookBotSkips ==
    /\ bookbot.request # None
    /\ bookbot' = IdleBookBot
    /\ UNCHANGED <<stored, runner, phase, poll, remote, posts, crashes, faults>>

-----------------------------------------------------------------------------
(* Candidate confirmations *)

\* Mutant: a second click on a prompt whose selection is being acquired.
PromptReopened(r) ==
    /\ phase = "up"
    /\ confirmations[r].state \in {"pending", "claimed"}
    /\ requests[r].status \in {"awaiting_selection", "processing"}

\* Mutant: only a prompt that Discord showed is ever closed.
PromptShown(r) ==
    /\ phase = "up"
    /\ confirmations[r].state = "pending" /\ confirmations[r].bound
    /\ requests[r].status = "awaiting_selection"

PromptOpen(r) ==
    /\ phase = "up"
    /\ confirmations[r].state = "pending"
    /\ requests[r].status = "awaiting_selection"

BindPrompt(r) ==
    /\ phase = "up"
    /\ confirmations[r].state = "pending"
    /\ ~confirmations[r].bound
    /\ confirmations' = [confirmations EXCEPT ![r].bound = TRUE]
    /\ UNCHANGED <<requests, cascades, attempts, reservations, retries, runner,
                   phase, world>>

ClaimSelection(r) ==
    /\ PromptOpen(r)
    /\ confirmations[r].bound
    /\ \E w \in Works : confirmations' =
         [confirmations EXCEPT ![r].state = "claimed", ![r].selected = w]
    /\ requests' = [requests EXCEPT ![r].status = "processing"]
    /\ runner' = [runner EXCEPT ![r] = [IdleRunner EXCEPT !.pc = "select"]]
    /\ UNCHANGED <<cascades, attempts, reservations, retries, phase, world>>

\* Expiry, a rejected prompt and a prompt Discord could not deliver: the
\* released request takes its cascade with it.
ClosePrompt(r) ==
    /\ PromptOpen(r)
    /\ cascades[r].mutation = None
    /\ \E s \in {"expired", "failed"} :
         confirmations' = [confirmations EXCEPT ![r].state = s]
    /\ requests' = [requests EXCEPT ![r].status = "needs_selection"]
    /\ attempts' = [attempts EXCEPT ![r][cascades[r].ordinal].status =
         IF @ \in SearchSafe THEN "failed" ELSE @]
    /\ cascades' = [cascades EXCEPT ![r] = FailCascade(@)]
    /\ reservations' = Release(r, retries[r].state)
    /\ UNCHANGED <<retries, runner, phase, world>>

-----------------------------------------------------------------------------
(* Faults, crashes and restarts *)

\* An exception escapes the run (a locked database, say).  The worker swallows
\* it and still cleans up; one raised by the cleanup abandons the whole batch.
\* One that escapes the start-up recovery closes the client, and with it Huey
\* (on_ready): that is Crash.
Fault(r) ==
    /\ phase = "up"
    /\ faults < MaxFaults
    /\ faults' = faults + 1
    /\ \/ /\ runner[r].pc \notin {"idle", "ready", "finish"}
          /\ Return(r)
       \/ /\ runner[r].pc = "finish"
          /\ runner' = [q \in Requests |->
               IF runner[q].background THEN IdleRunner ELSE runner[q]]
    /\ UNCHANGED <<stored, phase, poll, bookbot, remote, posts, crashes>>

Crash ==
    /\ phase # "down"
    /\ crashes < MaxCrashes
    /\ crashes' = crashes + 1
    /\ phase' = "down"
    /\ runner' = [r \in Requests |-> IdleRunner]
    /\ poll' = [b \in Backends |-> NoPoll]
    /\ UNCHANGED <<stored, bookbot, remote, posts, faults>>

\* A prompt that was never bound to a Discord message before the crash.
Unbound(r) ==
    /\ confirmations[r].state = "pending"
    /\ ~confirmations[r].bound
    /\ requests[r].status = "awaiting_selection"

\* A dispatch that crossed the mutation boundary and was not persisted.
Interrupted(r) ==
    /\ requests[r].status = "processing"
    /\ ~requests[r].external
    /\ cascades[r].mutation # None

\* RequestStore.initialize at start-up: close unbound prompts, mark interrupted
\* dispatches for reconciliation, repair retries whose run never finished.
Initialize ==
    LET reopened(r) == IF retries[r].state = "retrying" /\ requests[r].status = "needs_selection"
                       THEN "failed" ELSE requests[r].status
        retry(r) ==
            CASE retries[r].state = "awaiting_import" /\ requests[r].status = "failed" ->
                   [retries[r] EXCEPT !.state = "blocked"]
              [] retries[r].state \in {"awaiting_import", "retrying"}
                 /\ requests[r].status = "completed" ->
                   [retries[r] EXCEPT !.state = "fulfilled"]
              [] retries[r].state = "retrying" /\ requests[r].status = "queued" ->
                   [retries[r] EXCEPT !.state = "awaiting_import"]
              [] retries[r].state = "retrying" /\ reopened(r) = "failed" ->
                   RetryMissed(retries[r])
              [] OTHER -> retries[r]
        released == {r \in Requests :
            /\ Unbound(r) \/ retries[r].state = "retrying"
            /\ retry(r).state \notin RetainingRetry}
    IN
    /\ phase = "down"
    /\ phase' = "recovering"
    /\ confirmations' = [r \in Requests |-> IF Unbound(r)
         THEN [confirmations[r] EXCEPT !.state = "failed"] ELSE confirmations[r]]
    /\ requests' = [r \in Requests |-> [requests[r] EXCEPT
         !.status = IF Unbound(r) THEN "needs_selection" ELSE reopened(r),
         !.startup = @ \/ Interrupted(r)]]
    /\ cascades' = [r \in Requests |-> IF Unbound(r)
         THEN FailCascade(cascades[r]) ELSE cascades[r]]
    /\ attempts' = [r \in Requests |->
         IF Unbound(r) /\ CurrentAttempt(r).status \in SearchSafe
         THEN [attempts[r] EXCEPT ![cascades[r].ordinal].status = "failed"]
         ELSE attempts[r]]
    /\ retries' = [r \in Requests |-> retry(r)]
    /\ reservations' = [b \in Backends |-> [p \in Providers |->
         IF reservations[b][p] \in released THEN None ELSE reservations[b][p]]]
    /\ UNCHANGED <<runner, world>>

\* Mutant: whatever was being processed is run again.
ResumableAny(r) == requests[r].status = "processing"

\* Mutant: silent retries are left to the retry worker.
ResumableFresh(r) ==
    /\ requests[r].status = "processing"
    /\ cascades[r].mutation = None
    /\ cascades[r].state = "searching"
    /\ retries[r].state = "none"

\* resume_ebook_cascades: searches that provably never crossed the boundary
\* are run again, one at a time, before intake and the loops start.
Resumable(r) ==
    /\ requests[r].status = "processing"
    /\ cascades[r].mutation = None
    /\ \/ cascades[r].state = "searching"
       \/ cascades[r].state = "awaiting_selection" /\ confirmations[r].state = "claimed"

Resume(r) ==
    /\ phase = "recovering"
    /\ Resumable(r)
    /\ \A q \in Requests : runner[q].pc = "idle"
    /\ runner' = [runner EXCEPT ![r] =
         [pc |-> IF /\ retries[r].state # "retrying"
                    /\ confirmations[r].state = "claimed"
                    /\ cascades[r].identity = None
                 THEN "select" ELSE "begin",
          background |-> TRUE, owner |-> None]]
    /\ UNCHANGED <<stored, phase, world>>

Ready ==
    /\ phase = "recovering"
    /\ \A r \in Requests : runner[r].pc = "idle" /\ ~Resumable(r)
    /\ phase' = "up"
    /\ UNCHANGED <<stored, runner, world>>

-----------------------------------------------------------------------------
(* Time and the remote services *)

RetryFallsDue(r) ==
    /\ retries[r].state = "queued"
    /\ ~retries[r].due
    /\ retries' = [retries EXCEPT ![r].due = TRUE]
    /\ UNCHANGED <<requests, cascades, attempts, reservations, confirmations,
                   runner, phase, world>>

\* A late submission becomes visible; a job finishes or fails; a failed job is
\* repaired at the backend and still finishes.
RemoteMoves(r) ==
    /\ \/ remote[r] = "pending" /\ remote' = [remote EXCEPT ![r] = "active"]
       \/ remote[r] = "active" /\ \E s \in {"completed", "failed"} :
             remote' = [remote EXCEPT ![r] = s]
       \/ remote[r] = "failed" /\ remote' = [remote EXCEPT ![r] = "completed"]
    /\ UNCHANGED <<stored, runner, phase, poll, bookbot, posts, crashes, faults>>

-----------------------------------------------------------------------------
RunnerStep(r) ==
    \/ SelectIdentity(r) \/ BeginAttempt(r)
    \/ SearchMisses(r) \/ SearchIsAmbiguous(r) \/ SearchRaises(r) \/ Prompt(r)
    \/ Resolve(r) \/ ForceOwner(r) \/ CloseDuplicate(r)
    \/ PreflightMisses(r) \/ Lock(r) \/ Submit(r)
    \/ Handoff(r) \/ Quarantine(r) \/ Attach(r) \/ FinishRetry(r)

ReconcileStep(r) ==
    \/ Poll(r) \/ RecoverHandoff(r) \/ RecoverFailure(r)
    \/ ObserveTerminal(r) \/ ProveBlocked(r)

Next ==
    \/ ClaimDueRetries \/ Crash \/ Initialize \/ Ready \/ BookBotSkips
    \/ \E b \in Backends : DropPoll(b)
    \/ \E r \in Requests :
         \/ Intake(r) \/ RunNext(r) \/ RunnerStep(r) \/ ReconcileStep(r)
         \/ BookBotReads(r) \/ BookBotWrites(r)
         \/ BindPrompt(r) \/ ClaimSelection(r) \/ ClosePrompt(r)
         \/ Fault(r) \/ Resume(r) \/ RetryFallsDue(r) \/ RemoteMoves(r)

Spec == Init /\ [][Next]_vars

-----------------------------------------------------------------------------
(* Fairness: a live thread takes its next step, the retry and expiry loops   *)
(* come round, the clock advances, and the container is restarted.  Nothing  *)
(* is assumed of the remote services, BookBot or the requester.              *)

Fairness ==
    /\ WF_vars(ClaimDueRetries) /\ WF_vars(Initialize) /\ WF_vars(Ready)
    /\ \A r \in Requests :
         /\ WF_vars(RunnerStep(r)) /\ WF_vars(RunNext(r)) /\ WF_vars(Resume(r))
         /\ WF_vars(ClosePrompt(r)) /\ WF_vars(RetryFallsDue(r))

FairSpec == Spec /\ Fairness

-----------------------------------------------------------------------------
(* Safety *)

\* A submission is never repeated, over fallbacks, silent retries, faults and
\* restarts, and the durable mutation marker is always written before it.
SubmittedOnce ==
    \A r \in Requests :
        /\ posts[r] <= 1
        /\ posts[r] = 1 => cascades[r].mutation # None

\* A crossed boundary is never authorized to fall back: the marker stays, and
\* the attempt it belongs to stays the current one.
NoFallbackAfterMutation ==
    [][\A r \in Requests : cascades[r].mutation # None =>
         /\ cascades'[r].mutation = cascades[r].mutation
         /\ cascades'[r].ordinal = cascades[r].ordinal]_vars

\* One work has one owner over both tables: the two partial unique indexes
\* each see only their own, so the exclusion between them is the code's.
OwnsWork(r, w) ==
    \/ cascades[r].state \in OwningCascade /\ cascades[r].identity = w
    \/ retries[r].state \in OwningRetry /\ retries[r].identity = w

OneOwnerPerWork ==
    \A r, q \in Requests : \A w \in Works :
        OwnsWork(r, w) /\ OwnsWork(q, w) => r = q

\* While a request acquires, or its retry may still be fulfilled, every
\* backend identifier it resolved stays reserved to it.
ReservationsHeld ==
    \A r \in Requests :
        cascades[r].state \in OwningCascade \/ retries[r].state \in RetainingRetry =>
            \A o \in Ordinals : attempts[r][o].provider # None =>
                reservations[Policy[o]][attempts[r][o].provider] = r

\* A waiting retry keeps exactly the rows the next claim selects on; otherwise
\* it would own its work for ever and never be retried.
QueuedRetryClaimable ==
    \A r \in Requests : retries[r].state = "queued" => ClaimableRows(r)

\* Whatever other threads, BookBot and restarts did while a runner waited for
\* a backend, the guards of its next transaction hold: no run is ever thrown
\* out by a state error, above all not between the submission and its record.
RunnerAccepted ==
    \A r \in Requests :
        /\ runner[r].pc = "begin" => MayBegin(r)
        /\ runner[r].pc \in {"searching", "resolved"} => Searching(r)
        /\ runner[r].pc = "resolved" => MayLock(r)
        /\ runner[r].pc \in {"select", "collided", "forced"} => MayTerminalize(r)
        /\ runner[r].pc \in {"locked", "posted"} =>
             /\ HandoffBoundary(r)
             /\ cascades[r].mutation = Current(r)
             /\ requests[r].status = "processing"
             /\ ~requests[r].external

\* A fulfilled retry was verified: its request and cascade are complete, under
\* the backend that acquired it, and the job it is bound to did finish.
FulfilledProved ==
    \A r \in Requests : retries[r].state = "fulfilled" =>
        /\ requests[r].status = "completed"
        /\ cascades[r].state = "completed"
        /\ cascades[r].final = Current(r)
        /\ remote[r] = "completed"

\* The retry row tells where the acquisition stands: an import awaited or
\* blocked has a handoff or a crossed boundary behind it, never an open search.
RetryMatchesCascade ==
    \A r \in Requests :
        /\ retries[r].state = "awaiting_import" => requests[r].status = "queued"
        /\ retries[r].state = "blocked" =>
             requests[r].status = "failed" /\ ExactBlockedOwner(r)
        /\ retries[r].state = "expired" =>
             requests[r].status = "failed" /\ cascades[r].mutation = None

\* Two threads never run one request: a claimed selection, a claimed retry and
\* a start-up resume only ever find its runner gone.
OneRunner ==
    [][\A r \in Requests :
         runner'[r].pc \in {"ready", "select"} /\ runner'[r] # runner[r] =>
             runner[r].pc = "idle"]_vars

\* A request reported complete keeps the identifiers it was acquired under, so
\* that no later request acquires the same work again.
SuccessKeepsIdentifiers ==
    \A r \in Requests : requests[r].status = "completed" =>
        \A o \in Ordinals : attempts[r][o].provider # None =>
            reservations[Policy[o]][attempts[r][o].provider] = r

\* A work and every backend identifier resolved for it have one owner for as
\* long as it may be acquired.
OwnershipHeld == OneOwnerPerWork /\ ReservationsHeld

\* Over the whole life of a request its retry, its cascade, its reservations and
\* the backend's job tell one story.
HistoryConsistent == ReservationsHeld /\ FulfilledProved /\ RetryMatchesCascade

-----------------------------------------------------------------------------
(* Liveness *)

\* A search that did not cross its boundary ends, whatever restarts interrupt
\* it: the request is decided, asks its requester, or reaches the boundary. Only
\* a runner thrown out by an exception is left to the next restart.
SearchEnds ==
    \A r \in Requests :
        requests[r].status = "processing" /\ cascades[r].mutation = None
            ~> \/ requests[r].status # "processing"
               \/ cascades[r].mutation # None
               \/ faults > 0

\* A prompt never holds its request for ever.
PromptCloses ==
    \A r \in Requests :
        requests[r].status = "awaiting_selection" ~> requests[r].status # "awaiting_selection"

\* A silent retry runs out: it is fulfilled or expires, or a submission it
\* made stands between it and another attempt (or an exception lost its runner).
RetryRunsOut ==
    \A r \in Requests :
        retries[r].state = "queued" ~>
            \/ retries[r].state \in {"fulfilled", "expired", "awaiting_import", "blocked"}
            \/ cascades[r].mutation # None
            \/ faults > 0

\* No search, prompt or retry holds its request for ever.
NothingHangs == SearchEnds /\ PromptCloses /\ RetryRunsOut

-----------------------------------------------------------------------------
(* The abstract specification this one implements *)

StageOf(r) ==
    CASE cascades[r].state = "none" -> "new"
      [] cascades[r].state = "searching" -> "seeking"
      [] cascades[r].state = "awaiting_selection" -> "asking"
      [] cascades[r].state \in LiveCascade -> "committed"
      [] cascades[r].state = "completed" -> "acquired"
      [] cascades[r].state = "failed" /\ retries[r].state \in {"queued", "retrying"} ->
           "waiting"
      [] OTHER -> "failed"

Acquired == INSTANCE Acquisition WITH
    Rounds <- RetryLimit,
    stage <- [r \in Requests |-> StageOf(r)],
    claim <- [r \in Requests |->
        IF cascades[r].state \in OwningCascade \/ retries[r].state \in OwningRetry
        THEN cascades[r].identity ELSE None],
    rounds <- [r \in Requests |-> retries[r].count],
    sent <- [r \in Requests |-> posts[r] > 0]

\* The cascade, with its threads, restarts and outside writers, keeps the
\* promise of Acquisition: an exclusive claim, one commitment, one submission.
ImplementsAcquisition == Acquired!Spec

=============================================================================
