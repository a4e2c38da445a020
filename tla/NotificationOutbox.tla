------------------------- MODULE NotificationOutbox -------------------------
(***************************************************************************)
(* Huey's notification outbox: the table notification_deliveries, the      *)
(* producers that stage rows in it, and reconcile_notifications, which     *)
(* stages what terminal requests still owe, sends the rows to Discord and  *)
(* finally sets requests.notified_at.                                      *)
(*                                                                         *)
(* A request is reduced to what the outbox looks at: its status, the kind  *)
(* of its last terminal event, the state of its unavailable retry, and     *)
(* notified_at.  Its transitions are those of the cascade and of BookBot.  *)
(* The notices of trusted library events share the table; PhysicalMedia     *)
(* stages them.                                                            *)
(***************************************************************************)
EXTENDS Integers, Sequences, FiniteSets

CONSTANTS
    Requests,       \* requests
    Workers,        \* callers of reconcile_notifications: the loop, replies
    NoWorker,       \* the lock is free
    Broken,         \* lifecycle routes whose channel never answers
    Batch,          \* LIMIT of pending_notification_deliveries (500)
    RetryLimit,     \* claims of one unavailable retry (7)
    MaxSetbacks     \* bound on restarts and failing calls together

ASSUME BoundsAssumption ==
    /\ Batch \in Nat \ {0} /\ RetryLimit \in Nat
    /\ MaxSetbacks \in Nat

ASSUME LockAssumption == NoWorker \notin Workers

VARIABLES
    requests,   \* requests[r]: status, last terminal event, notified_at set
    retry,      \* unavailable_retries[r].state, with its count of claims
    outbox,     \* notification_deliveries in order of id
    reply,      \* reply[r]: events deliver_response has still to stage
    seen,       \* requests a reconciler has found outside the silent lifecycle
    pass,       \* pass[w]: where worker w stands in reconcile_notifications
    lock,       \* client._huey_notification_lock
    bookbot,    \* bookbot[r]: the outcome BookBot, having read r, is about to write
    overtaken,  \* history: announced failures that BookBot turned into an end
    crashes, faults

vars == <<requests, retry, outbox, reply, seen, pass, lock, bookbot, overtaken, crashes, faults>>
rows == <<requests, retry>>
huey == <<reply, seen, pass, lock>>
late == <<bookbot, overtaken>>

-----------------------------------------------------------------------------
EventRoute ==
    [request_accepted  |-> "request-status", request_completed |-> "request-status",
     request_failed    |-> "request-status", download_queued   |-> "download-queue",
     download_active   |-> "download-queue", library_imported  |-> "recent-additions",
     import_failed     |-> "import-errors",  submission_uncertain |-> "import-errors",
     system_health     |-> "system-health"]

Events == DOMAIN EventRoute
Routes == {EventRoute[e] : e \in Events}

Status        == {"processing", "queued", "completed", "failed"}
TerminalEvent == {"none", "handler", "import", "startup"}
RetryState    == {"none", "queued", "retrying", "awaiting_import", "blocked",
                  "fulfilled", "expired"}

Outcome       == {"completed", "failed"}

Terminal(r) == requests[r].status \in {"completed", "failed"}

SilentStates == {"retrying", "awaiting_import", "blocked"}

\* Mutant: the blocked state is forgotten.
SilentInFlight(r) == retry[r].state \in {"retrying", "awaiting_import"}

\* unavailable_retry_is_silent.
RetryIsSilent(r) == retry[r].state \in SilentStates

\* The partial unique indexes on (owner, event_key, route) and INSERT OR IGNORE.
Staged(owner) == {outbox[i].event : i \in {j \in DOMAIN outbox : outbox[j].owner = owner}}

Enqueued(owner, event) ==
    IF event \in Staged(owner) THEN outbox
    ELSE Append(outbox, [owner |-> owner, event |-> event, delivered |-> FALSE, sent |-> 0])

Delivered(owner, event) ==
    \E i \in DOMAIN outbox :
        outbox[i].owner = owner /\ outbox[i].event = event /\ outbox[i].delivered

AllDelivered(owner) ==
    \A i \in DOMAIN outbox : outbox[i].owner = owner => outbox[i].delivered

\* terminal_notifications: what a terminal row owes, in staging order.
TerminalPlans(status, event) ==
    IF status = "completed"
    THEN IF event = "handler" THEN <<"request_completed">>
                              ELSE <<"request_completed", "library_imported">>
    ELSE CASE event = "import"  -> <<"request_failed", "import_failed">>
           [] event = "startup" -> <<"request_failed", "system_health">>
           [] OTHER             -> <<"request_failed">>

\* response_notifications: what the synchronous answer of intake stages.
ResponsePlans(status) ==
    CASE status = "queued"    -> <<"request_accepted", "download_queued">>
      [] status = "completed" -> <<"request_completed">>
      [] status = "failed"    -> <<"request_failed">>

StatusEvent(status) == IF status = "completed" THEN "request_completed" ELSE "request_failed"

\* Mutant: the finalizer trusts the generation the pass had staged.
MayFinalizeStale(r) == Terminal(r) /\ ~requests[r].notified /\ AllDelivered(r)

\* mark_notified_if_delivered, one atomic UPDATE with its predicate.
MayFinalize(r) ==
    /\ Terminal(r)
    /\ ~requests[r].notified
    /\ Delivered(r, StatusEvent(requests[r].status))
    /\ AllDelivered(r)

Idle == [pc |-> "idle", terminals |-> {}, plans |-> <<>>, ids |-> {}, batch |-> {}]

Init ==
    /\ requests = [r \in Requests |->
                    [status |-> "processing", event |-> "none", notified |-> FALSE]]
    /\ retry = [r \in Requests |-> [state |-> "none", count |-> 0]]
    /\ outbox = <<>>
    /\ reply = [r \in Requests |-> <<>>]
    /\ seen = {}
    /\ pass = [w \in Workers |-> Idle]
    /\ lock = NoWorker
    /\ bookbot = [r \in Requests |-> "none"] /\ overtaken = {}
    /\ crashes = 0 /\ faults = 0

-----------------------------------------------------------------------------
(* The producers.                                                          *)

\* The handler's transition, then deliver_response's plans for its answer.
IntakeAnswers(r) ==
    /\ requests[r].status = "processing" /\ retry[r].state = "none"
    /\ \E status \in {"queued", "completed", "failed"} :
        /\ requests' = [requests EXCEPT ![r].status = status,
                            ![r].event = IF status = "queued" THEN "none" ELSE "handler"]
        /\ reply' = [reply EXCEPT ![r] = ResponsePlans(status)]
    /\ UNCHANGED <<retry, outbox, seen, pass, lock, crashes, faults>>

\* advance_ebook_backend past the last backend after a conclusive miss: the
\* failure, the retry row and the failure's delivery are one transaction.
IntakeMisses(r) ==
    /\ requests[r].status = "processing" /\ retry[r].state = "none" /\ RetryLimit > 0
    /\ requests' = [requests EXCEPT ![r].status = "failed", ![r].event = "handler"]
    /\ retry' = [retry EXCEPT ![r].state = "queued"]
    /\ outbox' = Enqueued(r, "request_failed")
    /\ reply' = [reply EXCEPT ![r] = ResponsePlans("failed")]
    /\ UNCHANGED <<seen, pass, lock, crashes, faults>>

\* deliver_response: one transaction per plan.
StageReply(r) ==
    /\ reply[r] # <<>>
    /\ outbox' = Enqueued(r, Head(reply[r]))
    /\ reply' = [reply EXCEPT ![r] = Tail(@)]
    /\ UNCHANGED <<requests, retry, seen, pass, lock, crashes, faults>>

\* _visible_notification_plans and _enqueue_visible_notification read whether a
\* retry is silent in a transaction of their own.
SeeVisible(r) ==
    /\ requests[r].status = "queued" /\ r \notin seen /\ ~RetryIsSilent(r)
    /\ seen' = seen \cup {r}
    /\ UNCHANGED <<requests, retry, outbox, reply, pass, lock, crashes, faults>>

\* *_state_notifications; download_completed is staged in the same way.
ProgressEvent == "download_active"

\* record_*_state: progress and its delivery, if the row is still queued.
RecordProgress(r) ==
    /\ r \in seen
    /\ outbox' = IF requests[r].status = "queued" THEN Enqueued(r, ProgressEvent) ELSE outbox
    /\ seen' = seen \ {r}
    /\ UNCHANGED <<requests, retry, reply, pass, lock, crashes, faults>>

\* The attention notice of an uncertain submission, not tied to the status.
StageAttention(r) ==
    /\ r \in seen
    /\ outbox' = Enqueued(r, "submission_uncertain")
    /\ seen' = seen \ {r}
    /\ UNCHANGED <<requests, retry, reply, pass, lock, crashes, faults>>

-----------------------------------------------------------------------------
(* Requests end through writers that stage nothing: the reconciliation of  *)
(* ARR and the backends, and BookBot, with the triggers on their update.   *)

\* unavailable_retry_terminal_sync acts on the end of a silent retry.
Syncs(r) == requests[r].status # "completed" /\ RetryIsSilent(r)

\* Mutant: the trigger fulfils the retry and leaves notified_at set.
FulfilQuietly(r) ==
    /\ requests' = [requests EXCEPT ![r].status = "completed", ![r].event = "import"]
    /\ retry' = [retry EXCEPT ![r].state = IF Syncs(r) THEN "fulfilled" ELSE @]

\* It fulfils the retry and reopens the outbox; without it notified_at stays.
Fulfil(r) ==
    /\ requests' = [requests EXCEPT ![r].status = "completed", ![r].event = "import",
                        ![r].notified = @ /\ ~Syncs(r)]
    /\ retry' = [retry EXCEPT ![r].state = IF Syncs(r) THEN "fulfilled" ELSE @]

\* mark_arr_completed, record_shelfarr_state and, for a blocked retry,
\* record_blocked_shelfarr_completion check the row in the transaction; they
\* complete no request that BookBot works on.
Completes(r) ==
    /\ bookbot[r] = "none"
    /\ \/ requests[r].status = "queued"
       \/ requests[r].status = "failed" /\ retry[r].state = "blocked"
    /\ Fulfil(r)
    /\ UNCHANGED <<outbox, huey, crashes, faults>>

\* unavailable_retry_import_failure_sync: a silent retry becomes blocked.
Break(r) ==
    /\ requests' = [requests EXCEPT ![r].status = "failed", ![r].event = "import"]
    /\ retry' = [retry EXCEPT ![r].state =
                    IF requests[r].status # "failed" /\ @ = "awaiting_import" THEN "blocked" ELSE @]

\* A definitive failure after the handoff, from Huey's reconciliation.
ImportFails(r) ==
    /\ requests[r].status = "queued"
    /\ Break(r)
    /\ UNCHANGED <<outbox, huey, crashes, faults>>

\* BookBot reads, in no transaction, whether the row may take its outcome.
BookBotReads(r) ==
    /\ bookbot[r] = "none"
    /\ \E outcome \in Outcome :
        /\ \/ requests[r].status = "queued"
           \/ outcome = "completed" /\ requests[r].status = "failed" /\ retry[r].state = "blocked"
        /\ bookbot' = [bookbot EXCEPT ![r] = outcome]
    /\ UNCHANGED <<rows, outbox, huey, overtaken, crashes, faults>>

\* The failure of r was told and marked, and no silent retry is under way.
Closed(r) ==
    /\ requests[r].status = "failed" /\ requests[r].notified
    /\ ~RetryIsSilent(r)

\* The update by id alone, whatever the row has become meanwhile.
BookBotWrites(r) ==
    /\ bookbot[r] \in Outcome
    /\ IF bookbot[r] = "completed" THEN Fulfil(r) ELSE Break(r)
    /\ overtaken' = IF bookbot[r] = "completed" /\ Closed(r) THEN overtaken \cup {r} ELSE overtaken
    /\ bookbot' = [bookbot EXCEPT ![r] = "none"]
    /\ UNCHANGED <<outbox, huey, crashes, faults>>

\* BookBot is stopped or cannot write, and reads the row anew.
BookBotSkips(r) ==
    /\ bookbot[r] \in Outcome
    /\ bookbot' = [bookbot EXCEPT ![r] = "none"]
    /\ UNCHANGED <<rows, outbox, huey, overtaken, crashes, faults>>

\* claim_due_unavailable_retries; a forced retry is due at once.
ClaimRetry(r) ==
    /\ requests[r].status = "failed" /\ retry[r].state = "queued"
    /\ requests' = [requests EXCEPT ![r].status = "processing"]
    /\ retry' = [retry EXCEPT ![r].state = "retrying", ![r].count = @ + 1]
    /\ UNCHANGED <<outbox, huey, crashes, faults>>

RetryHandsOff(r) ==
    /\ requests[r].status = "processing" /\ retry[r].state = "retrying"
    /\ requests' = [requests EXCEPT ![r].status = "queued"]
    /\ retry' = [retry EXCEPT ![r].state = "awaiting_import"]
    /\ UNCHANGED <<outbox, huey, crashes, faults>>

\* Mutant: the ceiling is compared with <=, as if the claim came later.
MayRequeueOnceMore(r) == retry[r].count <= RetryLimit

MayRequeue(r) == retry[r].count < RetryLimit

RetryMisses(r) ==
    /\ requests[r].status = "processing" /\ retry[r].state = "retrying"
    /\ requests' = [requests EXCEPT ![r].status = "failed", ![r].event = "handler"]
    /\ retry' = [retry EXCEPT ![r].state = IF MayRequeue(r) THEN "queued" ELSE "expired"]
    /\ UNCHANGED <<outbox, huey, crashes, faults>>

-----------------------------------------------------------------------------
(* reconcile_notifications, under one asyncio lock.                        *)

\* Mutant: a lock per caller instead of one per client.
LockOwn(w) == lock # w

LockFree(w) == lock = NoWorker

BeginPass(w) ==
    /\ pass[w].pc = "idle" /\ LockFree(w)
    /\ lock' = w
    /\ pass' = [pass EXCEPT ![w] =
                [Idle EXCEPT !.pc = "check",
                    !.terminals = {[id |-> r, status |-> requests[r].status,
                                    event |-> requests[r].event] :
                        r \in {q \in Requests : Terminal(q) /\ ~requests[q].notified}}]]
    /\ UNCHANGED <<rows, outbox, reply, seen, crashes, faults>>

\* A silent request is skipped; another joins terminal_ids with its plans, made
\* from the row as it was read.
CheckTerminal(w) ==
    /\ pass[w].pc = "check" /\ pass[w].plans = <<>>
    /\ \E t \in pass[w].terminals :
        pass' = [pass EXCEPT ![w].terminals = @ \ {t},
                    ![w].ids = IF RetryIsSilent(t.id) THEN @ ELSE @ \cup {t.id},
                    ![w].plans = IF RetryIsSilent(t.id) THEN <<>>
                                 ELSE LET plans == TerminalPlans(t.status, t.event)
                                      IN [i \in DOMAIN plans |-> <<t.id, plans[i]>>]]
    /\ UNCHANGED <<rows, outbox, reply, seen, lock, crashes, faults>>

StagePlan(w) ==
    /\ pass[w].plans # <<>>
    /\ outbox' = Enqueued(Head(pass[w].plans)[1], Head(pass[w].plans)[2])
    /\ pass' = [pass EXCEPT ![w].plans = Tail(@)]
    /\ UNCHANGED <<rows, reply, seen, lock, crashes, faults>>

\* The oldest undelivered rows, ORDER BY id LIMIT.
Pending ==
    LET undelivered == {i \in DOMAIN outbox : ~outbox[i].delivered}
    IN {i \in undelivered : Cardinality({j \in undelivered : j <= i}) <= Batch}

ReadPending(w) ==
    /\ pass[w].pc = "check" /\ pass[w].terminals = {} /\ pass[w].plans = <<>>
    /\ pass' = [pass EXCEPT ![w].pc = "send", ![w].batch = Pending]
    /\ UNCHANGED <<rows, outbox, reply, seen, lock, crashes, faults>>

\* The loop takes the rows of its batch in order of id.
Oldest(w, i) == i \in pass[w].batch /\ \A j \in pass[w].batch : i <= j

\* channel.send returns, and the row has still to be marked.
SendSucceeds(w) ==
    /\ pass[w].pc = "send"
    /\ \E i \in pass[w].batch :
        /\ Oldest(w, i)
        /\ EventRoute[outbox[i].event] \notin Broken
        /\ outbox' = [outbox EXCEPT ![i].sent = @ + 1]
    /\ pass' = [pass EXCEPT ![w].pc = "mark"]
    /\ UNCHANGED <<rows, reply, seen, lock, crashes, faults>>

\* Mutant: one unavailable route ends the round.
SkipRest(w, i) == pass' = [pass EXCEPT ![w].batch = {}]

SkipRow(w, i) == pass' = [pass EXCEPT ![w].batch = @ \ {i}]

\* No channel, or send raises: the row stays for the next round, and a message
\* whose response was lost was sent all the same.
SendFails(w) ==
    /\ pass[w].pc = "send"
    /\ \E i \in pass[w].batch :
        /\ Oldest(w, i)
        /\ IF EventRoute[outbox[i].event] \in Broken
           THEN UNCHANGED <<faults, outbox>>
           ELSE /\ crashes + faults < MaxSetbacks /\ faults' = faults + 1
                /\ \E reached \in {0, 1} : outbox' = [outbox EXCEPT ![i].sent = @ + reached]
        /\ SkipRow(w, i)
    /\ UNCHANGED <<rows, reply, seen, lock, crashes>>

MarkDelivered(w) ==
    /\ pass[w].pc = "mark"
    /\ \E i \in pass[w].batch :
        /\ Oldest(w, i)
        /\ outbox' = [outbox EXCEPT ![i].delivered = TRUE]
        /\ pass' = [pass EXCEPT ![w].pc = "send", ![w].batch = @ \ {i}]
    /\ UNCHANGED <<rows, reply, seen, lock, crashes, faults>>

Finalize(w) ==
    /\ pass[w].pc = "send" /\ pass[w].batch = {}
    /\ \E r \in pass[w].ids :
        /\ requests' = [requests EXCEPT ![r].notified = @ \/ MayFinalize(r)]
        /\ pass' = [pass EXCEPT ![w].ids = @ \ {r}]
    /\ UNCHANGED <<retry, outbox, reply, seen, lock, crashes, faults>>

EndPass(w) ==
    /\ pass[w].pc = "send" /\ pass[w].batch = {} /\ pass[w].ids = {}
    /\ pass' = [pass EXCEPT ![w] = Idle]
    /\ lock' = NoWorker
    /\ UNCHANGED <<rows, outbox, reply, seen, crashes, faults>>

\* A database call raises: the lock is released and the pass is abandoned.
PassRaises(w) ==
    /\ pass[w].pc # "idle" /\ crashes + faults < MaxSetbacks
    /\ pass' = [pass EXCEPT ![w] = Idle]
    /\ lock' = NoWorker
    /\ faults' = faults + 1
    /\ UNCHANGED <<rows, outbox, reply, seen, crashes>>

\* A restart: threads are lost, and a request that had not reached a durable
\* state fails; a retry's run is resumed.
Restart ==
    /\ crashes + faults < MaxSetbacks
    /\ crashes' = crashes + 1
    /\ pass' = [w \in Workers |-> Idle] /\ lock' = NoWorker
    /\ reply' = [r \in Requests |-> <<>>] /\ seen' = {}
    /\ requests' = [r \in Requests |->
            IF requests[r].status = "processing" /\ retry[r].state = "none"
            THEN [requests[r] EXCEPT !.status = "failed", !.event = "startup"]
            ELSE requests[r]]
    /\ UNCHANGED <<retry, outbox, faults>>

-----------------------------------------------------------------------------
PassStep(w) ==
    /\ \/ BeginPass(w) \/ CheckTerminal(w) \/ StagePlan(w) \/ ReadPending(w)
       \/ SendSucceeds(w) \/ SendFails(w) \/ MarkDelivered(w)
       \/ Finalize(w) \/ EndPass(w)
    /\ UNCHANGED late

Lifecycle(r) ==
    \/ IntakeAnswers(r) \/ IntakeMisses(r) \/ StageReply(r)
    \/ SeeVisible(r) \/ RecordProgress(r) \/ StageAttention(r)
    \/ Completes(r) \/ ImportFails(r)
    \/ ClaimRetry(r) \/ RetryHandsOff(r) \/ RetryMisses(r)

BookBot(r) == BookBotReads(r) \/ BookBotWrites(r) \/ BookBotSkips(r)

Next ==
    \/ \E r \in Requests : Lifecycle(r) /\ UNCHANGED late
    \/ \E r \in Requests : BookBot(r)
    \/ \E w \in Workers : PassStep(w) \/ (PassRaises(w) /\ UNCHANGED late)
    \/ Restart /\ UNCHANGED late

Spec == Init /\ [][Next]_vars

\* The loop of notification_loop runs for the client's lifetime, and Discord
\* answers on every route that is not broken once the faults are used up.
\* Nothing is assumed of BookBot.
Fairness == \A w \in Workers : WF_vars(PassStep(w))

FairSpec == Spec /\ Fairness

-----------------------------------------------------------------------------
(* Properties.                                                             *)

TypeOK ==
    /\ requests \in [Requests -> [status : Status, event : TerminalEvent, notified : BOOLEAN]]
    /\ retry \in [Requests -> [state : RetryState, count : 0..RetryLimit]]
    /\ outbox \in Seq([owner : Requests, event : Events, delivered : BOOLEAN, sent : Nat])
    /\ reply \in [Requests -> Seq(Events)]
    /\ seen \subseteq Requests
    /\ \A w \in Workers :
        /\ pass[w].pc \in {"idle", "check", "send", "mark"}
        /\ pass[w].ids \subseteq Requests
        /\ pass[w].batch \subseteq DOMAIN outbox
    /\ lock \in Workers \cup {NoWorker}
    /\ bookbot \in [Requests -> Outcome \cup {"none"}] /\ overtaken \subseteq Requests
    /\ crashes \in 0..MaxSetbacks /\ faults \in 0..MaxSetbacks

\* A request marked notified has told its requester how it ended: the message of
\* its current terminal state, and of its import, has been delivered, however the
\* request got there (failure, silent retry, late import) while a pass was under
\* way.  Only BookBot's unguarded update of a failure that was told and marked in
\* the middle of it leaves the mark of that failure on a completed request.
NotifiedKnows ==
    \A r \in Requests :
        requests[r].notified /\ Terminal(r) =>
            IF r \in overtaken THEN Delivered(r, "request_failed")
            ELSE /\ Delivered(r, StatusEvent(requests[r].status))
                 /\ requests[r].status = "completed" /\ requests[r].event = "import"
                        => Delivered(r, "library_imported")

\* One Discord message per logical event: a message is repeated only if a call
\* failed or Huey restarted between the send and its mark.
NoNeedlessRepeat ==
    /\ \A i \in DOMAIN outbox : outbox[i].sent <= 1 + faults + crashes
    /\ \A i, j \in DOMAIN outbox :
        outbox[i].owner = outbox[j].owner /\ outbox[i].event = outbox[j].event => i = j

\* A silent retry stages nothing: no progress, miss or failure of a background
\* attempt reaches Discord, although the check is a read of its own.
SilentStaysSilent ==
    [][\A r \in Requests :
        retry[r].state \in SilentStates => Staged(r)' = Staged(r)]_vars

\* Whatever is staged reaches Discord unless its own route is broken: again and
\* again every row of a working route is delivered.
StagedIsDelivered ==
    []<>(\A i \in DOMAIN outbox :
            EventRoute[outbox[i].event] \notin Broken => outbox[i].delivered)

\* A completed request is announced, and so is a failed one, unless a retry or
\* BookBot takes it over: no end is left owing its message but those overtaken.
EndIsAnnounced ==
    \A r \in Requests :
        /\ requests[r].status = "completed" ~> Delivered(r, "request_completed") \/ r \in overtaken
        /\ requests[r].status = "failed" /\ retry[r].state = "none"
                ~> Delivered(r, "request_failed") \/ requests[r].status = "completed"

\* The rows keep their types, and what is marked as notified was told.
OutboxSound == TypeOK /\ NotifiedKnows

\* Nothing that a requester is owed is withheld: staged rows of working routes
\* are delivered, and the end of every request is announced.
EverythingIsTold == StagedIsDelivered /\ EndIsAnnounced
=============================================================================
