---------------------------- MODULE RequestIntake ----------------------------
(***************************************************************************)
(* How Discord messages become requests and how requests for one work are  *)
(* coalesced: RequestProcessor.process in several worker threads, the      *)
(* store's exact-target and ABBA identities, start-up recovery, the silent *)
(* retry claim, and redrive_selection.py, an operator's process that       *)
(* drives stuck rows beside the running Huey.                              *)
(*                                                                         *)
(* Every operator on db is one method of RequestStore: one transaction.    *)
(* The dispatch of a service is reduced to its possible results.           *)
(***************************************************************************)
EXTENDS Integers, FiniteSets, FiniteSetsExt, SequencesExt

CONSTANTS
    Messages,      \* Discord message ids
    Targets,       \* exact targets (media type, kind, title, author)
    NoTarget,      \* unparsable text, or text which identifies no work
    Kind,          \* Kind[t]: "arr", "abba" or "ebook"
    Candidates, HashOf, None,   \* ABBA candidates and the torrent of each
    Workers,       \* threads of asyncio.to_thread(processor.process, ...)
    Worlds,        \* what messages say, and which have rows older than target_key
    MaxRows,       \* bound: rows of requests
    MaxRestarts, MaxRedrives    \* bounds: restarts, batches of the operator

ASSUME TargetsAssumption ==
    /\ NoTarget \notin Targets /\ Kind \in [Targets -> {"arr", "abba", "ebook"}]
    /\ None \notin Messages
    /\ None \notin Candidates /\ None \notin {HashOf[c] : c \in Candidates}

ASSUME WorldsAssumption ==
    /\ Worlds \subseteq [target : [Messages -> Targets \cup {NoTarget}],
                         legacy : SUBSET Messages]
    /\ MaxRows \in Nat
    /\ \A w \in Worlds : IsFiniteSet(w.legacy) /\ Cardinality(w.legacy) <= MaxRows
    /\ MaxRestarts \in Nat /\ MaxRedrives \in Nat

VARIABLES
    world,     \* the member of Worlds this is; it never changes
    db,        \* db.row: table requests; db.alias: table delivery_aliases
    worker,    \* worker[w]: what thread w is doing
    redrive,   \* the operator's batch
    restarts, redrives

vars == <<world, db, worker, redrive, restarts, redrives>>

-----------------------------------------------------------------------------
\* The target the text of a message names, or NoTarget; the messages whose rows
\* predate target_key.
Target == world.target
Legacy == world.legacy

Rows == 1..MaxRows
Status == {"absent", "new", "processing", "awaiting_selection", "needs_selection",
           "queued", "completed", "failed"}
Active == {"new", "processing", "awaiting_selection", "queued", "completed"}
Committed == {"queued", "completed"}
RetryLive == {"queued", "retrying", "awaiting_import", "blocked"}
Hashes == {HashOf[c] : c \in Candidates}

Row == [status : Status, msg : Messages \cup {None}, key : Targets \cup {NoTarget},
        canonical : Rows \cup {0}, cand : Candidates \cup {None},
        hash : Hashes \cup {None},
        retry : RetryLive \cup {"none", "fulfilled", "expired"},
        prompt : {"none", "posting", "open", "claimed", "sent", "over", "refused"}]

Absent == [status |-> "absent", msg |-> None, key |-> NoTarget, canonical |-> 0,
           cand |-> None, hash |-> None, retry |-> "none", prompt |-> "none"]

\* The target a row names, whether or not its target_key column was filled.
WorkOf(d, r) == IF d.row[r].msg = None THEN NoTarget ELSE Target[d.row[r].msg]
KindOf(d, r) == IF WorkOf(d, r) = NoTarget THEN "none" ELSE Kind[WorkOf(d, r)]
IsLive(d, r) == d.row[r].status \in Active /\ d.row[r].canonical = 0

\* The row that got furthest, then the oldest.
Furthest(d, S) ==
    LET rank(r) == CASE d.row[r].status = "completed" -> 0
                     [] d.row[r].status = "queued" -> 1
                     [] OTHER -> 2
    IN  CHOOSE r \in S : \A s \in S : rank(r) < rank(s) \/ (rank(r) = rank(s) /\ r <= s)

\* _target_key_owner: the live owner of target k other than r, or 0.
TargetKeyOwner(d, r, k) ==
    LET owners == {s \in Rows \ {r} : d.row[s].key = k /\ IsLive(d, s)}
    IN  IF k = NoTarget \/ owners = {} THEN 0 ELSE Furthest(d, owners)

\* get_by_message_id
Resolve(d, m) ==
    IF d.alias[m] # 0 THEN d.alias[m]
    ELSE LET own == {r \in Rows : d.row[r].msg = m} IN IF own = {} THEN 0 ELSE Min(own)

-----------------------------------------------------------------------------
(* Coalescing                                                              *)

\* Mutant: deliveries already aliased onto the new aliases stay with them.
RepointRowsOnly(d, S, o) ==
    [row |-> [s \in Rows |-> IF d.row[s].canonical \in S THEN [d.row[s] EXCEPT !.canonical = o]
                             ELSE d.row[s]],
     alias |-> [m \in Messages |-> IF m \in {d.row[s].msg : s \in S} THEN o ELSE d.alias[m]]]

\* Mutant: rows already aliased onto the new aliases keep pointing at them.
RepointDeliveriesOnly(d, S, o) ==
    [row |-> d.row,
     alias |-> [m \in Messages |-> IF d.alias[m] \in S \/ m \in {d.row[s].msg : s \in S}
                                   THEN o ELSE d.alias[m]]]

\* _repoint_aliased_request, for each of the rows S.
Repoint(d, S, o) ==
    [row |-> [s \in Rows |-> IF d.row[s].canonical \in S THEN [d.row[s] EXCEPT !.canonical = o]
                             ELSE d.row[s]],
     alias |-> [m \in Messages |-> IF d.alias[m] \in S \/ m \in {d.row[s].msg : s \in S}
                                   THEN o ELSE d.alias[m]]]

ClosedPrompt(p) == IF p \in {"posting", "open", "claimed", "sent"} THEN "over" ELSE p

\* _coalesce_target_duplicate, _coalesce_abba_row: the rows S become aliases of
\* o, and their prompts are closed.
Coalesce(d, S, o) ==
    LET moved == Repoint(d, S, o)
        folded(s) == [moved.row[s] EXCEPT !.status = "failed", !.canonical = o,
                                          !.prompt = ClosedPrompt(@)]
    IN  [row |-> [s \in Rows |-> IF s \in S THEN folded(s) ELSE moved.row[s]],
         alias |-> moved.alias]

\* Mutant: the owner commits without sweeping its inert twins.
NoSweep(d, o) == d

\* _sweep_target_siblings: needs_selection twins of a committed owner.
SweepSiblings(d, o) ==
    LET twins == {s \in Rows \ {o} : /\ d.row[o].key # NoTarget
                                     /\ d.row[s].key = d.row[o].key
                                     /\ d.row[s].status = "needs_selection"
                                     /\ d.row[s].canonical = 0}
    IN  Coalesce(d, twins, o)

\* Another live ABBA request already downloads this torrent.
HashOwner(d, r, h) ==
    LET owners == {s \in Rows \ {r} : /\ KindOf(d, s) = "abba" /\ d.row[s].hash = h
                                      /\ d.row[s].canonical = 0
                                      /\ d.row[s].status \in {"processing", "queued", "completed"}}
    IN  IF h = None \/ owners = {} THEN 0 ELSE Furthest(d, owners)

\* Mutant: the torrent's owner is not looked for when the hash is stored.
TargetOnly(d, r, st, h) == IF st \in Active THEN TargetKeyOwner(d, r, d.row[r].key) ELSE 0

\* The request onto which transition coalesces r instead of updating it.
TransitionOwner(d, r, st, h) ==
    IF st \in {"processing", "queued"} /\ HashOwner(d, r, h) # 0 THEN HashOwner(d, r, h)
    ELSE IF st \in Active THEN TargetKeyOwner(d, r, d.row[r].key) ELSE 0

\* transition raises KeyError: the guarded UPDATE finds no row.
TransitionRaises(d, r, st, h) == TransitionOwner(d, r, st, h) = 0 /\ d.row[r].canonical # 0

Transition(d, r, st, h) ==
    LET o == TransitionOwner(d, r, st, h)
        written == [d EXCEPT !.row[r].status = st, !.row[r].hash = h]
    IN  IF o # 0 THEN Coalesce(d, {r}, o)
        ELSE IF d.row[r].canonical # 0 THEN d
        ELSE IF st \in Committed THEN SweepSiblings(written, r) ELSE written

-----------------------------------------------------------------------------
(* Intake                                                                  *)

RetryOwner(d, k) ==
    LET owners == {r \in Rows : d.row[r].key = k /\ d.row[r].retry \in RetryLive}
    IN  IF k = NoTarget \/ owners = {} THEN 0 ELSE Min(owners)

\* Mutant: only an owner that is really acquiring the target counts.
CommittedOwner(d, k) ==
    LET owners == {r \in Rows : d.row[r].key = k /\ d.row[r].status \in Committed}
    IN  IF k = NoTarget \/ owners = {} THEN 0 ELSE Min(owners)

ActiveOwner(d, k) ==
    LET owners == {r \in Rows : d.row[r].key = k /\ d.row[r].status \in Active}
    IN  IF k = NoTarget \/ owners = {} THEN 0 ELSE Min(owners)

\* Mutant: only active rows own a target, not those waiting for a retry.
ActiveOwnerOnly(d, k) == ActiveOwner(d, k)

\* The request create_request finds for the target of a new message.
CanonicalFor(d, k) == IF RetryOwner(d, k) # 0 THEN RetryOwner(d, k) ELSE ActiveOwner(d, k)

\* Mutant: the message is not looked for again inside the transaction.
NeverSeen(d, m) == 0

\* Idempotency key of create_request, read again under its write lock.
SeenBefore(d, m) == Resolve(d, m)

FreeRow(d) == CHOOSE r \in Rows : d.row[r].status = "absent" /\ \A s \in 1..(r-1) : d.row[s].status # "absent"
HasRoom(d) == \E r \in Rows : d.row[r].status = "absent"

\* An ebook request starts its cascade in the transaction that creates it.
Inserted(d, m) ==
    LET t == Target[m]
    IN  [d EXCEPT !.row[FreeRow(d)] =
            [Absent EXCEPT !.msg = m, !.key = t,
             !.status = IF t # NoTarget /\ Kind[t] = "ebook" THEN "processing" ELSE "new"]]

\* create_request: the new state and the request it returns.
CreateRequest(d, m) ==
    LET seen == SeenBefore(d, m)
        owner == CanonicalFor(d, Target[m])
    IN  IF seen # 0 THEN [db |-> d, row |-> seen, created |-> FALSE]
        ELSE IF owner # 0
             THEN [db |-> [d EXCEPT !.alias[m] = owner], row |-> owner, created |-> FALSE]
             ELSE [db |-> Inserted(d, m), row |-> FreeRow(d), created |-> TRUE]

Idle == [pc |-> "idle", msg |-> None, row |-> 0]

\* Discord delivers a message, the first time or again after a reconnect.
Deliver(w, m) ==
    /\ worker[w].pc = "idle" /\ m \notin Legacy
    /\ worker' = [worker EXCEPT ![w] = [pc |-> "look", msg |-> m, row |-> 0]]
    /\ UNCHANGED <<db, redrive, restarts, redrives>>

Look(w) ==
    /\ worker[w].pc = "look"
    /\ worker' = [worker EXCEPT ![w] = IF Resolve(db, worker[w].msg) # 0 THEN Idle
                                       ELSE [@ EXCEPT !.pc = "create"]]
    /\ UNCHANGED <<db, redrive, restarts, redrives>>

Create(w) ==
    /\ worker[w].pc = "create" /\ HasRoom(db)
    /\ LET m == worker[w].msg
           made == CreateRequest(db, m)
           next == CASE Target[m] = NoTarget -> "decline"
                     [] Target[m] # NoTarget /\ Kind[Target[m]] = "ebook" -> "dispatch"
                     [] OTHER -> "start"
       IN  /\ db' = made.db
           /\ worker' = [worker EXCEPT ![w] =
                  IF made.created THEN [@ EXCEPT !.pc = next, !.row = made.row] ELSE Idle]
    /\ UNCHANGED <<redrive, restarts, redrives>>

\* parse_rejected, unidentifying_request_rejected
Decline(w) ==
    /\ worker[w].pc = "decline"
    /\ db' = Transition(db, worker[w].row, "needs_selection", None)
    /\ worker' = [worker EXCEPT ![w] = Idle]
    /\ UNCHANGED <<redrive, restarts, redrives>>

Start(w) ==
    /\ worker[w].pc = "start"
    /\ db' = Transition(db, worker[w].row, "processing", None)
    /\ worker' = [worker EXCEPT ![w].pc = "dispatch"]
    /\ UNCHANGED <<redrive, restarts, redrives>>

-----------------------------------------------------------------------------
(* Dispatch and its result                                                 *)

CandidateOwner(d, r, c) ==
    LET owners == {s \in Rows \ {r} : /\ KindOf(d, s) = "abba" /\ d.row[s].cand = c
                                      /\ d.row[s].canonical = 0
                                      /\ d.row[s].status \in {"processing", "queued", "completed"}}
    IN  IF owners = {} THEN 0 ELSE Furthest(d, owners)

\* Mutant: the marker is a state the schema does not know.
MarkedStarted(p) == IF p = "claimed" THEN "dispatch_started" ELSE p

\* mark_candidate_dispatch_started
Marked(p) == IF p = "claimed" THEN "sent" ELSE p

\* reserve_abba_dispatch
ReserveAbba(d, r, c) ==
    IF CandidateOwner(d, r, c) # 0 THEN Coalesce(d, {r}, CandidateOwner(d, r, c))
    ELSE [d EXCEPT !.row[r].cand = c, !.row[r].prompt = Marked(@)]

\* The handler searches and crosses its dispatch boundary with candidate c.
Dispatch(w) ==
    LET r == worker[w].row
        persist == [worker EXCEPT ![w].pc = "persist"]
    IN  /\ worker[w].pc = "dispatch"
        /\ \/ /\ KindOf(db, r) = "abba"
              /\ \E c \in Candidates :
                     /\ db' = ReserveAbba(db, r, c)
                     /\ worker' = IF db'.row[r].canonical # 0
                                  THEN [worker EXCEPT ![w] = Idle] ELSE persist
           \/ /\ KindOf(db, r) = "arr"
              /\ db' = [db EXCEPT !.row[r].prompt = Marked(@)]
              /\ worker' = persist
           \/ db' = db /\ worker' = persist     \* not crossed: no match, or a choice
        /\ UNCHANGED <<redrive, restarts, redrives>>

\* The hash known with the result: that of the reserved candidate.
ResultHash(d, r, st) ==
    IF st = "queued" /\ d.row[r].cand # None THEN HashOf[d.row[r].cand] ELSE None

\* Results a handler may return for r, where no candidate was reserved too.
Results(d, r) ==
    IF d.row[r].cand # None THEN {"queued", "failed"}
    ELSE IF d.row[r].prompt = "sent" THEN {"queued", "completed", "failed"}
    ELSE IF d.row[r].prompt = "claimed" \/ KindOf(d, r) = "abba" THEN {"needs_selection", "failed"}
    ELSE {"queued", "completed", "needs_selection", "failed"}

\* What the ebook ledger does with its unavailable retry in the transaction
\* that persists the result (terminalize_ebook_cascade, persist_ebook_result).
RetryAfter(d, r, st) ==
    LET old == d.row[r].retry
    IN  IF KindOf(d, r) # "ebook" THEN {old}
        ELSE CASE st = "failed" /\ old = "none" -> {"none", "queued"}
               [] st = "failed" /\ old = "retrying" -> {"queued", "expired"}
               [] st = "queued" /\ old = "retrying" -> {"awaiting_import"}
               [] st = "completed" /\ old = "retrying" -> {"fulfilled"}
               [] OTHER -> {old}

\* An ebook result is written by the ledger's own transactions, which keep the
\* row active or end it and know no sibling; a silent retry never ends in a
\* question.
EbookResult(d, r, st) == [d EXCEPT !.row[r].status = st]

Persist(w) ==
    LET r == worker[w].row
    IN  /\ worker[w].pc = "persist"
        /\ \E st \in Results(db, r) :
               LET settled == IF KindOf(db, r) = "ebook" THEN EbookResult(db, r, st)
                              ELSE Transition(db, r, st, ResultHash(db, r, st))
               IN  /\ ~(st = "needs_selection" /\ db.row[r].retry = "retrying")
                   /\ \E x \in RetryAfter(db, r, st) :
                          db' = [settled EXCEPT !.row[r].retry = x]
        /\ worker' = [worker EXCEPT ![w] = Idle]
        /\ UNCHANGED <<redrive, restarts, redrives>>

\* create_candidate_confirmation accepts only a processing request whose last
\* prompt, if any, has ended.
CanPrompt(d, r) == /\ d.row[r].status = "processing"
                   /\ d.row[r].prompt \in {"none", "over", "refused"}
Prompted(d, r) == [d EXCEPT !.row[r].status = "awaiting_selection", !.row[r].prompt = "posting"]

\* The result is a choice: persist it, then post it as a reply to the message.
Offer(w) ==
    LET r == worker[w].row
    IN  /\ worker[w].pc = "persist"
        /\ KindOf(db, r) # "ebook" /\ db.row[r].cand = None /\ CanPrompt(db, r)
        /\ db' = Prompted(db, r)
        /\ worker' = [worker EXCEPT ![w].pc = "post"]
        /\ UNCHANGED <<redrive, restarts, redrives>>

\* bind_candidate_prompt after Discord confirmed the prompt; Released is
\* fail_candidate_prompt, and what expiry and a refusal do to the row.
Bound(d, r) == IF d.row[r].prompt = "posting" THEN [d EXCEPT !.row[r].prompt = "open"] ELSE d
Released(d, r, how) ==
    IF d.row[r].status = "awaiting_selection"
    THEN [d EXCEPT !.row[r].status = "needs_selection", !.row[r].prompt = how] ELSE d

Post(w) ==
    /\ worker[w].pc = "post"
    /\ db' \in {Bound(db, worker[w].row), Released(db, worker[w].row, "over")}
    /\ worker' = [worker EXCEPT ![w] = Idle]
    /\ UNCHANGED <<redrive, restarts, redrives>>

\* expire_candidate_confirmations, or the requester answers "none of these".
Release(r) ==
    /\ db.row[r].prompt = "open" /\ db.row[r].status = "awaiting_selection"
    /\ \E how \in {"over", "refused"} : db' = Released(db, r, how)
    /\ UNCHANGED <<worker, redrive, restarts, redrives>>

\* The requester chooses: claim_candidate_selection, then the dispatch.
Choose(w, r) ==
    /\ worker[w].pc = "idle"
    /\ db.row[r].prompt = "open" /\ db.row[r].status = "awaiting_selection"
    /\ db' = [db EXCEPT !.row[r].prompt = "claimed", !.row[r].status = "processing"]
    /\ worker' = [worker EXCEPT ![w] = [pc |-> "dispatch", msg |-> None, row |-> r]]
    /\ UNCHANGED <<redrive, restarts, redrives>>

-----------------------------------------------------------------------------
(* Background work                                                         *)

Held(r) == \E w \in Workers : worker[w].row = r /\ worker[w].pc # "idle"
Redriving(r) == redrive.pc # "idle" /\ redrive.row = r

\* Reconciliation ends a queued request; an import failure blocks a retry.
Settle(r) ==
    /\ db.row[r].status = "queued"
    /\ \E st \in {"completed", "failed"} :
           db' = [db EXCEPT !.row[r].status = st,
                            !.row[r].retry = IF @ # "awaiting_import" THEN @
                                             ELSE IF st = "completed" THEN "fulfilled"
                                             ELSE "blocked"]
    /\ UNCHANGED <<worker, redrive, restarts, redrives>>

\* A proof arrives late for a blocked retry (unavailable_retry_terminal_sync).
Prove(r) ==
    /\ db.row[r].retry = "blocked"
    /\ db' = [db EXCEPT !.row[r].status = "completed", !.row[r].retry = "fulfilled"]
    /\ UNCHANGED <<worker, redrive, restarts, redrives>>

\* One due row of claim_due_unavailable_retries, and the cascade it starts.
ClaimRetry(w, r) ==
    LET o == TargetKeyOwner(db, r, db.row[r].key)
    IN  /\ worker[w].pc = "idle"
        /\ db.row[r].retry = "queued" /\ db.row[r].status = "failed"
        /\ db' = IF o # 0 THEN [Coalesce(db, {r}, o) EXCEPT !.row[r].retry = "expired"]
                 ELSE [db EXCEPT !.row[r].retry = "retrying", !.row[r].status = "processing"]
        /\ worker' = [worker EXCEPT ![w] =
               IF o # 0 THEN @ ELSE [pc |-> "dispatch", msg |-> None, row |-> r]]
        /\ UNCHANGED <<redrive, restarts, redrives>>

\* Start-up recovery resumes an ebook cascade that was searching.
ResumeEbook(w, r) ==
    /\ worker[w].pc = "idle" /\ ~Held(r)
    /\ KindOf(db, r) = "ebook" /\ db.row[r].status = "processing"
    /\ worker' = [worker EXCEPT ![w] = [pc |-> "persist", msg |-> None, row |-> r]]
    /\ UNCHANGED <<db, redrive, restarts, redrives>>

\* reconcile_abba_requests: an interrupted grab is found again at the adapter.
RecoverAbba(r) ==
    /\ KindOf(db, r) = "abba" /\ ~Held(r)
    /\ db.row[r].status = "processing" /\ db.row[r].cand # None /\ db.row[r].hash = None
    /\ \E st \in {"queued", "failed"} : db' = Transition(db, r, st, ResultHash(db, r, st))
    /\ UNCHANGED <<worker, redrive, restarts, redrives>>

-----------------------------------------------------------------------------
(* Restart of Huey                                                         *)

\* Mutant: a request interrupted before its first dispatch is not recovered.
InterruptedProcessing(d, r) ==
    /\ d.row[r].status = "processing"
    /\ KindOf(d, r) # "ebook" /\ (KindOf(d, r) # "abba" \/ d.row[r].cand = None)

\* _fail_interrupted_requests
Interrupted(d, r) ==
    /\ d.row[r].status \in {"new", "processing"}
    /\ KindOf(d, r) # "ebook" \/ d.row[r].status = "new"
    /\ KindOf(d, r) # "abba" \/ d.row[r].cand = None \/ d.row[r].status = "new"

\* In initialize's order: unbound prompts, unsent choices, interrupted rows.
Recovered(d) ==
    LET unsent(x) == \/ x.prompt = "posting" /\ x.status = "awaiting_selection"
                     \/ x.prompt = "claimed" /\ x.status = "processing" /\ x.hash = None
    IN  [d EXCEPT !.row = [r \in Rows |->
            IF unsent(d.row[r])
            THEN [d.row[r] EXCEPT !.status = "needs_selection", !.prompt = "over"]
            ELSE IF Interrupted(d, r) THEN [d.row[r] EXCEPT !.status = "failed"]
            ELSE d.row[r]]]

\* _backfill_target_keys: one committed row of each unkeyed target is keyed,
\* unless an active row has the key already.
Backfilled(d) ==
    LET unkeyed(t) == {r \in Rows : /\ WorkOf(d, r) = t /\ d.row[r].key = NoTarget
                                    /\ d.row[r].status \in Committed}
        keyed(t) == \E r \in Rows : d.row[r].key = t /\ d.row[r].status \in Active
    IN  [d EXCEPT !.row = [r \in Rows |->
            LET t == WorkOf(d, r)
            IN  IF /\ t # NoTarget /\ r \in unkeyed(t) /\ ~keyed(t)
                   /\ r = Furthest(d, unkeyed(t))
                THEN [d.row[r] EXCEPT !.key = t] ELSE d.row[r]]]

Restart ==
    /\ restarts < MaxRestarts /\ restarts' = restarts + 1
    /\ db' = Backfilled(Recovered(db))
    /\ worker' = [w \in Workers |-> Idle]
    /\ UNCHANGED <<redrive, redrives>>

-----------------------------------------------------------------------------
(* redrive_selection.py: a process of its own                              *)

AtRest == [pc |-> "idle", plan |-> {}, asked |-> {}, row |-> 0]

\* Rows stuck_rows reads and survey_row finds a choice for, with no owner now.
Stuck(d) == {r \in Rows : /\ d.row[r].status = "needs_selection" /\ d.row[r].canonical = 0
                          /\ KindOf(d, r) = "arr" /\ d.row[r].prompt \in {"none", "over"}
                          /\ TargetKeyOwner(d, r, WorkOf(d, r)) = 0}

Scan ==
    /\ redrive.pc = "idle" /\ redrives < MaxRedrives /\ Stuck(db) # {}
    /\ redrives' = redrives + 1
    /\ redrive' = [AtRest EXCEPT !.pc = "next", !.plan = Stuck(db)]
    /\ UNCHANGED <<db, worker, restarts>>

\* One prompt per exact target per batch.
MayAsk(t) == t \notin redrive.asked

NextRow ==
    /\ redrive.pc = "next"
    /\ redrive' =
         IF redrive.plan = {} THEN AtRest
         ELSE LET r == Min(redrive.plan)
                  rest == [redrive EXCEPT !.plan = @ \ {r}]
              IN  IF MayAsk(WorkOf(db, r)) THEN [rest EXCEPT !.pc = "key", !.row = r]
                  ELSE rest
    /\ UNCHANGED <<db, worker, restarts, redrives>>

\* reserve_target_key; its answer is ignored by the batch.
ReserveKey(d, r, k) ==
    IF TargetKeyOwner(d, r, k) # 0 \/ d.row[r].key # NoTarget \/ d.row[r].canonical # 0
    THEN d ELSE [d EXCEPT !.row[r].key = k]

KeyRow ==
    /\ redrive.pc = "key"
    /\ db' = ReserveKey(db, redrive.row, WorkOf(db, redrive.row))
    /\ redrive' = [redrive EXCEPT !.pc = "drive"]
    /\ UNCHANGED <<worker, restarts, redrives>>

\* The row is driven to processing; an exception ends the batch.
DriveRow ==
    /\ redrive.pc = "drive"
    /\ db' = Transition(db, redrive.row, "processing", None)
    /\ redrive' = IF TransitionRaises(db, redrive.row, "processing", None) THEN AtRest
                  ELSE [redrive EXCEPT !.pc = "offer"]
    /\ UNCHANGED <<worker, restarts, redrives>>

OfferRow ==
    /\ redrive.pc = "offer"
    /\ IF CanPrompt(db, redrive.row)
       THEN /\ db' = Prompted(db, redrive.row)
            /\ redrive' = [redrive EXCEPT !.pc = "post"]
       ELSE db' = db /\ redrive' = AtRest
    /\ UNCHANGED <<worker, restarts, redrives>>

\* Discord confirms and the prompt is bound, or the row is released.
PostRow ==
    /\ redrive.pc = "post"
    /\ \/ /\ db' = Bound(db, redrive.row) /\ db' # db
          /\ redrive' = [redrive EXCEPT !.pc = "next", !.row = 0,
                                        !.asked = @ \cup {WorkOf(db, redrive.row)}]
       \/ /\ db' = Released(db, redrive.row, "over")
          /\ redrive' = [redrive EXCEPT !.pc = "next", !.row = 0]
    /\ UNCHANGED <<worker, restarts, redrives>>

\* collapse --apply: the plan is stale, so the store reads everything again.
Collapse(r) ==
    LET o == TargetKeyOwner(db, r, WorkOf(db, r))
    IN  /\ db.row[r].status = "needs_selection" /\ db.row[r].canonical = 0
        /\ KindOf(db, r) = "arr" /\ o # 0
        /\ db' = Coalesce(db, {r}, o)
        /\ UNCHANGED <<worker, redrive, restarts, redrives>>

-----------------------------------------------------------------------------
\* Rows which predate the candidate picker wait in needs_selection, unkeyed.
LegacyRow(m) == [Absent EXCEPT !.msg = m, !.status = "needs_selection"]

Init ==
    /\ world \in Worlds
    /\ LET old == SetToSeq(Legacy)
       IN  db = [row |-> [r \in Rows |-> IF r \in DOMAIN old THEN LegacyRow(old[r]) ELSE Absent],
                 alias |-> [m \in Messages |-> 0]]
    /\ worker = [w \in Workers |-> Idle]
    /\ redrive = AtRest /\ restarts = 0 /\ redrives = 0

WorkerStep(w) == Look(w) \/ Create(w) \/ Decline(w) \/ Start(w) \/ Dispatch(w)
                 \/ Persist(w) \/ Offer(w) \/ Post(w)

Step ==
    \/ \E w \in Workers : \/ WorkerStep(w)
                          \/ \E m \in Messages : Deliver(w, m)
                          \/ \E r \in Rows : Choose(w, r) \/ ClaimRetry(w, r) \/ ResumeEbook(w, r)
    \/ \E r \in Rows : Release(r) \/ Settle(r) \/ Prove(r) \/ RecoverAbba(r) \/ Collapse(r)
    \/ Restart
    \/ Scan \/ NextRow \/ KeyRow \/ DriveRow \/ OfferRow \/ PostRow

Next == Step /\ UNCHANGED world

Spec == Init /\ [][Next]_vars

-----------------------------------------------------------------------------
(* Properties                                                              *)

\* The tables and the processes keep their types.
TypeOK ==
    /\ db.row \in [Rows -> Row] /\ db.alias \in [Messages -> Rows \cup {0}]
    /\ \A w \in Workers : /\ worker[w].row \in Rows \cup {0}
                          /\ worker[w].msg \in Messages \cup {None}
    /\ redrive.plan \subseteq Rows /\ redrive.row \in Rows \cup {0}
    /\ restarts \in 0..MaxRestarts /\ redrives \in 0..MaxRedrives

\* requests_active_target_uq never has to refuse a write: whatever intake, the
\* retry claim, the operator and recovery do, at most one row of a target key
\* is active, so no transaction raises and strands its row.
OneActiveRowPerKey ==
    \A r, s \in Rows : r # s /\ db.row[r].key # NoTarget /\ db.row[r].key = db.row[s].key
                       => ~(db.row[r].status \in Active /\ db.row[s].status \in Active)

\* A request folded onto another is inert for good: its owner is no alias
\* itself, it holds no answerable prompt, and no retry of it can start.
AliasesAreInert ==
    \A r \in Rows : db.row[r].canonical # 0 =>
        /\ db.row[db.row[r].canonical].canonical = 0
        /\ db.row[r].status = "failed"
        /\ db.row[r].prompt \in {"none", "over", "refused"}
        /\ db.row[r].retry \notin RetryLive

\* However often requests are folded onto one another, the durable record of a
\* delivery leads to the row that is acted on, never to an alias.
DeliveriesReachOwner ==
    \A m \in Messages : Resolve(db, m) # 0 => db.row[Resolve(db, m)].canonical = 0

\* One Discord message makes at most one request, however many worker threads
\* hold copies of it.
OneRequestPerMessage ==
    \A r, s \in Rows : r # s /\ db.row[r].msg # None => db.row[r].msg # db.row[s].msg

\* Two requests never download one torrent: neither by reserving one candidate
\* nor by finding one hash behind two candidates.
OneDownloadPerTorrent ==
    \A r, s \in Rows : r # s /\ IsLive(db, r) /\ IsLive(db, s) =>
        /\ db.row[r].cand # None /\ db.row[r].status # "awaiting_selection"
           => db.row[r].cand # db.row[s].cand
        /\ db.row[r].hash # None => db.row[r].hash # db.row[s].hash

\* While an owner settles a target, no keyed twin is left waiting for a choice
\* nobody will offer.  Ebook rows know no sweep; neither does the start-up that
\* keys a settled row which predates target_key.
NoTwinLeftBehind ==
    \A r, s \in Rows :
        r # s /\ IsLive(db, r) /\ db.row[r].status \in Committed /\ KindOf(db, r) # "ebook"
        /\ db.row[r].key # NoTarget /\ db.row[s].key = db.row[r].key
        /\ ~(db.row[r].msg \in Legacy /\ restarts > 0)
        => db.row[s].status # "needs_selection"

\* At most one request of a target either acquires it or waits to acquire it:
\* a backlog row is never overtaken by a second request for the same work.
RetryKeepsTarget ==
    \A r, s \in Rows :
        r # s /\ db.row[r].key # NoTarget /\ db.row[r].key = db.row[s].key
        /\ db.row[r].retry \in RetryLive
        => db.row[s].status \notin Active /\ db.row[s].retry \notin RetryLive

\* Between new and a durable end a request is always in somebody's hands: a
\* thread, the operator's batch, or a recovery loop that will find it.
NobodyStranded ==
    \A r \in Rows : db.row[r].status \in {"new", "processing"} =>
        \/ Held(r) \/ Redriving(r)
        \/ KindOf(db, r) = "ebook"
        \/ KindOf(db, r) = "abba" /\ db.row[r].cand # None

\* Rows whose exact target another request already owns cannot be prompted at
\* all, as the head of redrive_selection.py has it.  They are: Huey creates the
\* owner after the batch has read its snapshot, and the batch ignores that
\* reserve_target_key refused the row.
OwnedTargetsNotAsked ==
    \A r \in Rows : db.row[r].prompt \in {"posting", "open"}
                   => TargetKeyOwner(db, r, WorkOf(db, r)) = 0

\* A target is one request's business: one active row, one retry.
OneOwnerPerTarget == OneActiveRowPerKey /\ RetryKeepsTarget

\* Neither a message nor a torrent counts twice.
NothingTwice == OneRequestPerMessage /\ OneDownloadPerTorrent

\* The tables are sound, and whatever was folded leads to a living owner.
AliasesResolve == TypeOK /\ AliasesAreInert /\ DeliveriesReachOwner

\* Every open request has somebody who settles it, every twin of a settled one
\* has been swept.
NobodyWaitsInVain == NobodyStranded /\ NoTwinLeftBehind
=============================================================================
