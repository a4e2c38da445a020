---------------------- MODULE NotificationOutboxProofs ----------------------
(***************************************************************************)
(* Theorems about NotificationOutbox, for any requests, any callers of the *)
(* reconciliation, any broken routes and any bound on faults and restarts. *)
(*                                                                         *)
(* The invariant follows a message from its producer to its mark.  The     *)
(* hard part is the import of a request whose pass is abandoned between    *)
(* its two notices: the first must not be delivered, or count as the end   *)
(* of the request, before a later pass has staged the second.              *)
(***************************************************************************)
EXTENDS NotificationOutbox, SequenceTheorems, TLAPS

-----------------------------------------------------------------------------
(* The invariant                                                           *)

OutRow == [owner : Requests, event : Events, delivered : BOOLEAN, sent : Nat]
RequestRow == [status : Status, event : TerminalEvent, notified : BOOLEAN]
RetryRow == [state : RetryState, count : 0..RetryLimit]
TerminalRow == [id : Requests, status : {"completed", "failed"}, event : TerminalEvent]
Plan == Requests \X Events
PassRow == [pc : {"idle", "check", "send", "mark"}, terminals : SUBSET TerminalRow,
            plans : Seq(Plan), ids : SUBSET Requests, batch : SUBSET Nat]

Typed == TypeOK /\ pass \in [Workers -> PassRow]

\* The status of a request and the state of its silent retry.
RowInv ==
    \A r \in Requests :
        /\ requests[r].status = "processing" => retry[r].state \in {"none", "retrying"}
        /\ requests[r].status = "queued" => retry[r].state \in {"none", "awaiting_import"}
        /\ requests[r].status = "completed" => retry[r].state \in {"none", "fulfilled"}
        /\ requests[r].status = "failed" =>
             retry[r].state \in {"none", "queued", "expired", "blocked"}
        /\ retry[r].state \in {"queued", "expired"} => requests[r].event = "handler"
        /\ retry[r].state = "none" => retry[r].count = 0
        /\ retry[r].state = "queued" => retry[r].count < RetryLimit
        /\ requests[r].notified /\ requests[r].status \in {"processing", "queued"} =>
             retry[r].state # "none"

\* What BookBot may take for the end of r, while it has not written it.
Booked(r) ==
    \/ requests[r].status = "queued"
    \/ requests[r].status = "failed" /\ retry[r].state \in {"none", "blocked"}

\* What BookBot read may have failed since, without a retry or with one blocked;
\* where it completed a failure that was told, the mark is that failure's.
LateInv ==
    \A r \in Requests :
        /\ bookbot[r] # "none" => Booked(r)
        /\ r \in overtaken =>
             /\ requests[r].status = "completed" /\ requests[r].event = "import"
             /\ requests[r].notified /\ Delivered(r, "request_failed")

\* What has been staged for a request, or is about to be by its intake.
StageInv ==
    \A r \in Requests :
        /\ retry[r].state # "none" =>
             /\ "request_failed" \in Staged(r)
             /\ \A k \in DOMAIN reply[r] : reply[r][k] = "request_failed"
        /\ \A k \in DOMAIN reply[r] : reply[r][k] = "request_completed" =>
             requests[r].status = "completed" /\ requests[r].event = "handler"
        /\ "request_completed" \in Staged(r) =>
             requests[r].status = "completed" /\ r \notin overtaken
        /\ r \in seen => retry[r].state = "none" /\ requests[r].status # "processing"

\* Nothing silent starts from here any more.
Settled(r) == Terminal(r) /\ retry[r].state \in {"none", "fulfilled"}

HasPlan(w, r, e) == \E k \in DOMAIN pass[w].plans : pass[w].plans[k] = <<r, e>>

\* One worker at a time, and what it read at its start still bounds what it stages.
PassInv ==
    \A w \in Workers :
        /\ pass[w].pc # "idle" <=> lock = w
        /\ pass[w].pc # "check" => pass[w].plans = <<>> /\ pass[w].terminals = {}
        /\ pass[w].pc \notin {"send", "mark"} => pass[w].batch = {}
        /\ \A t \in pass[w].terminals :
             /\ t.status = "completed" =>
                  /\ requests[t.id].status = "completed" /\ requests[t.id].event = t.event
                  /\ t.id \notin overtaken
             /\ \/ t.status = "failed" /\ t.event = "handler"
                \/ Settled(t.id)
                \/ retry[t.id].state = "blocked"
        /\ \A r \in Requests, e \in Events : HasPlan(w, r, e) =>
             /\ e = "request_failed" \/ Settled(r)
             /\ e = "request_completed" =>
                  /\ requests[r].status = "completed" /\ r \notin overtaken
                  /\ requests[r].event = "import" =>
                       "library_imported" \in Staged(r) \/ HasPlan(w, r, "library_imported")

\* The pass has still to stage the import of r.
Owes(w, r) ==
    \/ \E t \in pass[w].terminals : t.id = r /\ t.status = "completed" /\ t.event = "import"
    \/ HasPlan(w, r, "library_imported")

\* No pass sends anything while an announced import has only one of its notices.
ImportInv ==
    \A r \in Requests :
        /\ requests[r].status = "completed" /\ requests[r].event = "import"
        /\ "request_completed" \in Staged(r) /\ "library_imported" \notin Staged(r)
        => \A w \in Workers : pass[w].pc = "idle" \/ (pass[w].pc = "check" /\ Owes(w, r))

\* What a mark on the request stands for, also while a silent retry runs.
NotifiedInv ==
    \A r \in Requests : requests[r].notified /\ r \notin overtaken =>
        IF requests[r].status = "completed"
        THEN /\ Delivered(r, "request_completed")
             /\ requests[r].event = "import" => Delivered(r, "library_imported")
        ELSE Delivered(r, "request_failed")

\* One row per message; a row counts one send more than the failures allow only
\* once it is marked, or while its sender is about to mark it.
OnceInv ==
    /\ \A i, j \in DOMAIN outbox :
         outbox[i].owner = outbox[j].owner /\ outbox[i].event = outbox[j].event => i = j
    /\ \A w \in Workers : \A i \in pass[w].batch : ~outbox[i].delivered
    /\ \A i \in DOMAIN outbox :
         \/ outbox[i].sent <= faults + crashes
         \/ /\ outbox[i].sent <= 1 + faults + crashes
            /\ outbox[i].delivered \/ \E w \in Workers : pass[w].pc = "mark" /\ Oldest(w, i)

IInv ==
    Typed /\ RowInv /\ LateInv /\ StageInv /\ PassInv /\ ImportInv /\ NotifiedInv /\ OnceInv

-----------------------------------------------------------------------------
(* What a step does to the outbox                                          *)

NewRow(o, e) == [owner |-> o, event |-> e, delivered |-> FALSE, sent |-> 0]

\* The message e of o is staged: once, at the end, and nothing else changes.
Stages(o, e) ==
    /\ DOMAIN outbox \subseteq DOMAIN outbox'
    /\ \A i \in DOMAIN outbox : outbox'[i] = outbox[i]
    /\ \A i, j \in DOMAIN outbox' \ DOMAIN outbox :
         i = j /\ outbox'[i] = NewRow(o, e) /\ e \notin Staged(o)
    /\ e \in Staged(o) \/ DOMAIN outbox' # DOMAIN outbox

\* The row k is sent or marked, and no other row changes.
Touches(k, row) ==
    /\ k \in DOMAIN outbox /\ DOMAIN outbox' = DOMAIN outbox
    /\ \A i \in DOMAIN outbox \ {k} : outbox'[i] = outbox[i]
    /\ outbox'[k] = row
    /\ row.owner = outbox[k].owner /\ row.event = outbox[k].event
    /\ outbox[k].delivered => row.delivered

\* Messages stay staged, and what was delivered stays delivered.
Keeps ==
    /\ DOMAIN outbox \subseteq DOMAIN outbox'
    /\ \A q, e : /\ e \in Staged(q) => e \in Staged(q)'
                 /\ Delivered(q, e) => Delivered(q, e)'

LEMMA StagedMeans ==
    \A q, e : e \in Staged(q) <=> \E i \in DOMAIN outbox : outbox[i].owner = q /\ outbox[i].event = e
BY DEF Staged

LEMMA StagedMeansNext ==
    (\A q, e : e \in Staged(q) <=> \E i \in DOMAIN outbox : outbox[i].owner = q /\ outbox[i].event = e)'
BY StagedMeans, PTL

\* INSERT OR IGNORE adds the one missing row.
LEMMA EnqueuedStages ==
    ASSUME outbox \in Seq(OutRow), NEW o \in Requests, NEW e \in Events, outbox' = Enqueued(o, e)
    PROVE  outbox' \in Seq(OutRow) /\ Stages(o, e)
<1>1. NewRow(o, e) \in OutRow
  BY DEF NewRow, OutRow
<1>2. CASE e \in Staged(o)
  BY <1>2 DEF Enqueued, Stages
<1>3. CASE e \notin Staged(o)
  <2>1. outbox' = Append(outbox, NewRow(o, e))
    BY <1>3 DEF Enqueued, NewRow
  <2>2. /\ outbox' \in Seq(OutRow) /\ Len(outbox) \in Nat
        /\ DOMAIN outbox = 1..Len(outbox) /\ DOMAIN outbox' = 1..(Len(outbox) + 1)
        /\ \A i \in 1..Len(outbox) : outbox'[i] = outbox[i]
        /\ outbox'[Len(outbox) + 1] = NewRow(o, e)
    BY <1>1, <2>1
  <2>3. DOMAIN outbox' \ DOMAIN outbox = {Len(outbox) + 1}
    BY <2>2
  <2>4. DOMAIN outbox \subseteq DOMAIN outbox' /\ DOMAIN outbox' # DOMAIN outbox
    <3>1. DOMAIN outbox' # DOMAIN outbox
      BY <2>3
    <3>2. DOMAIN outbox \subseteq DOMAIN outbox'
      BY <2>2
    <3> QED  BY <3>1, <3>2
  <2>5. \A i, j \in DOMAIN outbox' \ DOMAIN outbox : i = j /\ outbox'[i] = NewRow(o, e)
    BY <2>2, <2>3
  <2> QED  BY <1>3, <2>2, <2>4, <2>5 DEF Stages
<1> QED  BY <1>2, <1>3

LEMMA StagesKeeps ==
    ASSUME NEW o, NEW e, Stages(o, e)
    PROVE  /\ Keeps
           /\ \A q, x : x \in Staged(q)' <=> (x \in Staged(q) \/ (q = o /\ x = e))
           /\ \A q, x : Delivered(q, x)' <=> Delivered(q, x)
<1>1. \A q, x : x \in Staged(q) => x \in Staged(q)'
  BY StagedMeans, StagedMeansNext DEF Stages
<1>2. \A q, x : x \in Staged(q)' => (x \in Staged(q) \/ (q = o /\ x = e))
  BY StagedMeans, StagedMeansNext DEF Stages, NewRow
<1>3. e \in Staged(o)'
  <2>1. CASE e \in Staged(o)
    BY <2>1, <1>1
  <2>2. CASE e \notin Staged(o)
    <3>1. PICK i \in DOMAIN outbox' : i \notin DOMAIN outbox
      BY <2>2 DEF Stages
    <3>2. outbox'[i].owner = o /\ outbox'[i].event = e
      BY <3>1 DEF Stages, NewRow
    <3> QED  BY <3>1, <3>2, StagedMeansNext
  <2> QED  BY <2>1, <2>2
<1>4. \A q, x : Delivered(q, x)' <=> Delivered(q, x)
  BY DEF Delivered, Stages, NewRow
<1> QED  BY <1>1, <1>2, <1>3, <1>4 DEF Keeps, Stages

\* A send or a mark keeps every row in its place.
LEMMA RowTouched ==
    ASSUME outbox \in Seq(OutRow), NEW k \in DOMAIN outbox, NEW row \in OutRow,
           row.owner = outbox[k].owner, row.event = outbox[k].event,
           outbox[k].delivered => row.delivered,
           outbox' = [outbox EXCEPT ![k] = row]
    PROVE  outbox' \in Seq(OutRow) /\ Touches(k, row)
<1>1. Len(outbox) \in Nat /\ DOMAIN outbox = 1..Len(outbox) /\ outbox \in [1..Len(outbox) -> OutRow]
  OBVIOUS
<1>2. outbox' \in [1..Len(outbox) -> OutRow]
  BY <1>1
<1>3. Touches(k, row)
  BY <1>1, <1>2 DEF Touches
<1>4. outbox' \in Seq(OutRow)
  BY <1>1, <1>2, IsASeq
<1> QED  BY <1>3, <1>4

LEMMA TouchesKeeps ==
    ASSUME NEW k, NEW row, Touches(k, row)
    PROVE  /\ Keeps
           /\ \A q, x : x \in Staged(q)' <=> x \in Staged(q)
<1>1. \A i \in DOMAIN outbox :
        /\ outbox'[i].owner = outbox[i].owner /\ outbox'[i].event = outbox[i].event
        /\ outbox[i].delivered => outbox'[i].delivered
  BY DEF Touches
<1>2. \A q, x : x \in Staged(q)' <=> x \in Staged(q)
  BY <1>1, StagedMeans, StagedMeansNext DEF Touches
<1>3. \A q, x : Delivered(q, x) => Delivered(q, x)'
  BY <1>1 DEF Delivered, Touches
<1> QED  BY <1>2, <1>3 DEF Keeps, Touches

LEMMA SameKeeps ==
    ASSUME UNCHANGED outbox
    PROVE  Keeps /\ \A q : Staged(q)' = Staged(q)
BY DEF Keeps, Staged, Delivered

-----------------------------------------------------------------------------
(* What a step does to a request                                           *)

Becomes(r, s, e, n, state, c) ==
    /\ requests'[r] = [status |-> s, event |-> e, notified |-> n]
    /\ retry'[r] = [state |-> state, count |-> c]

Stays(r) == requests'[r] = requests[r] /\ retry'[r] = retry[r]

Answered(r) ==
    /\ requests[r].status = "processing" /\ retry[r].state = "none"
    /\ \/ Becomes(r, "queued", "none", requests[r].notified, "none", retry[r].count)
       \/ Becomes(r, "completed", "handler", requests[r].notified, "none", retry[r].count)
       \/ Becomes(r, "failed", "handler", requests[r].notified, "none", retry[r].count)

Missed(r) ==
    /\ requests[r].status = "processing" /\ retry[r].state = "none" /\ RetryLimit > 0
    /\ Becomes(r, "failed", "handler", requests[r].notified, "queued", retry[r].count)

Imported(r) ==
    /\ Booked(r)
    /\ IF RetryIsSilent(r)
       THEN Becomes(r, "completed", "import", FALSE, "fulfilled", retry[r].count)
       ELSE Becomes(r, "completed", "import", requests[r].notified, retry[r].state, retry[r].count)

NotImported(r) ==
    /\ Booked(r)
    /\ Becomes(r, "failed", "import", requests[r].notified,
               IF requests[r].status # "failed" /\ retry[r].state = "awaiting_import"
               THEN "blocked" ELSE retry[r].state,
               retry[r].count)

Claimed(r) ==
    /\ requests[r].status = "failed" /\ retry[r].state = "queued"
    /\ Becomes(r, "processing", requests[r].event, requests[r].notified,
               "retrying", retry[r].count + 1)

HandedOff(r) ==
    /\ requests[r].status = "processing" /\ retry[r].state = "retrying"
    /\ Becomes(r, "queued", requests[r].event, requests[r].notified,
               "awaiting_import", retry[r].count)

MissedAgain(r) ==
    /\ requests[r].status = "processing" /\ retry[r].state = "retrying"
    /\ Becomes(r, "failed", "handler", requests[r].notified,
               IF retry[r].count < RetryLimit THEN "queued" ELSE "expired", retry[r].count)

Orphaned(r) ==
    /\ requests[r].status = "processing" /\ retry[r].state = "none"
    /\ Becomes(r, "failed", "startup", requests[r].notified, "none", retry[r].count)

Marked(r) ==
    /\ MayFinalize(r)
    /\ \E w \in Workers : pass[w].pc = "send"
    /\ Becomes(r, requests[r].status, requests[r].event, TRUE, retry[r].state, retry[r].count)

\* All of them but the first miss, the only one that starts a retry.
Goes(r) ==
    \/ Stays(r) \/ Answered(r) \/ Imported(r) \/ NotImported(r)
    \/ Claimed(r) \/ HandedOff(r) \/ MissedAgain(r) \/ Orphaned(r) \/ Marked(r)

Fate(r) == Goes(r) \/ Missed(r)

LEMMA RowsTyped ==
    ASSUME Typed
    PROVE  /\ requests \in [Requests -> RequestRow] /\ retry \in [Requests -> RetryRow]
           /\ \A r \in Requests :
                /\ requests[r].status \in Status /\ requests[r].event \in TerminalEvent
                /\ requests[r].notified \in BOOLEAN
                /\ retry[r].state \in RetryState /\ retry[r].count \in 0..RetryLimit
                /\ requests[r] = [status |-> requests[r].status, event |-> requests[r].event,
                                  notified |-> requests[r].notified]
                /\ retry[r] = [state |-> retry[r].state, count |-> retry[r].count]
<1>1. requests \in [Requests -> RequestRow] /\ retry \in [Requests -> RetryRow]
  BY DEF Typed, TypeOK, RequestRow, RetryRow
<1>2. ASSUME NEW r \in Requests
      PROVE  requests[r] \in RequestRow /\ retry[r] \in RetryRow
  BY <1>1
<1> QED  BY <1>1, <1>2 DEF RequestRow, RetryRow

\* An action on one request leaves the others as they are.
LEMMA AnswersFate ==
    ASSUME Typed, NEW r \in Requests, IntakeAnswers(r)
    PROVE  Answered(r) /\ \A q \in Requests \ {r} : Stays(q)
<1>1. /\ requests[r].status = "processing" /\ retry[r].state = "none" /\ retry' = retry
  BY DEF IntakeAnswers
<1>2. PICK status \in {"queued", "completed", "failed"} :
        requests' = [requests EXCEPT ![r].status = status,
                            ![r].event = IF status = "queued" THEN "none" ELSE "handler"]
  BY DEF IntakeAnswers
<1>3. requests'[r] = [status |-> status, event |-> IF status = "queued" THEN "none" ELSE "handler",
                      notified |-> requests[r].notified]
  BY <1>2, RowsTyped DEF RequestRow
<1>4. \A q \in Requests \ {r} : Stays(q)
  BY <1>1, <1>2, RowsTyped DEF Stays
<1>5. Becomes(r, status, IF status = "queued" THEN "none" ELSE "handler",
              requests[r].notified, "none", retry[r].count)
  BY <1>1, <1>3, RowsTyped DEF Becomes
<1> QED  BY <1>1, <1>4, <1>5 DEF Answered

LEMMA MissesFate ==
    ASSUME Typed, NEW r \in Requests, IntakeMisses(r)
    PROVE  Missed(r) /\ \A q \in Requests \ {r} : Stays(q)
<1>1. /\ requests[r].status = "processing" /\ retry[r].state = "none" /\ RetryLimit > 0
      /\ requests' = [requests EXCEPT ![r].status = "failed", ![r].event = "handler"]
      /\ retry' = [retry EXCEPT ![r].state = "queued"]
  BY DEF IntakeMisses
<1>2. Becomes(r, "failed", "handler", requests[r].notified, "queued", retry[r].count)
  BY <1>1, RowsTyped DEF Becomes, RequestRow, RetryRow
<1>3. \A q \in Requests \ {r} : Stays(q)
  BY <1>1, RowsTyped DEF Stays
<1> QED  BY <1>1, <1>2, <1>3 DEF Missed

LEMMA FulfilFate ==
    ASSUME Typed, NEW r \in Requests, Booked(r), Fulfil(r)
    PROVE  Imported(r) /\ \A q \in Requests \ {r} : Stays(q)
<1> DEFINE b == requests[r].notified /\ ~RetryIsSilent(r)
           t == IF RetryIsSilent(r) THEN "fulfilled" ELSE retry[r].state
<1>1. Syncs(r) = RetryIsSilent(r)
  BY DEF Syncs, Booked, RetryIsSilent
<1>2. /\ requests' = [requests EXCEPT ![r].status = "completed", ![r].event = "import",
                        ![r].notified = b]
      /\ retry' = [retry EXCEPT ![r].state = t]
  BY <1>1 DEF Fulfil
<1>3. /\ requests'[r] = [status |-> "completed", event |-> "import", notified |-> b]
      /\ retry'[r] = [state |-> t, count |-> retry[r].count]
      /\ \A q \in Requests \ {r} : Stays(q)
  <2> HIDE DEF b, t
  <2>1. requests'[r] = [status |-> "completed", event |-> "import", notified |-> b]
    BY <1>2, RowsTyped DEF RequestRow
  <2>2. retry'[r] = [state |-> t, count |-> retry[r].count]
    BY <1>2, RowsTyped DEF RetryRow
  <2>3. \A q \in Requests \ {r} : Stays(q)
    BY <1>2, RowsTyped DEF Stays
  <2> QED  BY <2>1, <2>2, <2>3
<1>4. CASE RetryIsSilent(r)
  <2>1. b = FALSE /\ t = "fulfilled"
    BY <1>4
  <2>2. Becomes(r, "completed", "import", FALSE, "fulfilled", retry[r].count)
    BY <1>3, <2>1 DEF Becomes
  <2> QED  BY <1>3, <1>4, <2>2 DEF Imported
<1>5. CASE ~RetryIsSilent(r)
  <2>1. b = requests[r].notified /\ t = retry[r].state
    BY <1>5, RowsTyped
  <2>2. Becomes(r, "completed", "import", requests[r].notified, retry[r].state, retry[r].count)
    BY <1>3, <2>1 DEF Becomes
  <2> QED  BY <1>3, <1>5, <2>2 DEF Imported
<1> QED  BY <1>4, <1>5

LEMMA CompletesFate ==
    ASSUME Typed, NEW r \in Requests, Completes(r)
    PROVE  Imported(r) /\ \A q \in Requests \ {r} : Stays(q)
BY FulfilFate DEF Completes, Booked

LEMMA BreakFate ==
    ASSUME Typed, NEW r \in Requests, Booked(r), Break(r)
    PROVE  NotImported(r) /\ \A q \in Requests \ {r} : Stays(q)
<1> DEFINE t == IF requests[r].status # "failed" /\ retry[r].state = "awaiting_import"
                THEN "blocked" ELSE retry[r].state
<1>1. /\ requests' = [requests EXCEPT ![r].status = "failed", ![r].event = "import"]
      /\ retry' = [retry EXCEPT ![r].state = t]
  BY DEF Break
<1>2. requests'[r] = [status |-> "failed", event |-> "import", notified |-> requests[r].notified]
  BY <1>1, RowsTyped DEF RequestRow
<1>3. retry'[r] = [state |-> t, count |-> retry[r].count] /\ \A q \in Requests \ {r} : Stays(q)
  <2> HIDE DEF t
  <2>1. retry'[r] = [state |-> t, count |-> retry[r].count]
    BY <1>1, RowsTyped DEF RetryRow
  <2>2. \A q \in Requests \ {r} : Stays(q)
    BY <1>1, RowsTyped DEF Stays
  <2> QED  BY <2>1, <2>2
<1> QED  BY <1>2, <1>3 DEF NotImported, Becomes

LEMMA ImportFailsFate ==
    ASSUME Typed, NEW r \in Requests, ImportFails(r)
    PROVE  NotImported(r) /\ \A q \in Requests \ {r} : Stays(q)
BY BreakFate DEF ImportFails, Booked

\* BookBot writes over what has become of the row that it read.
LEMMA BookBotFate ==
    ASSUME Typed, LateInv, NEW r \in Requests, BookBotWrites(r)
    PROVE  /\ IF bookbot[r] = "completed" THEN Imported(r) ELSE NotImported(r)
           /\ \A q \in Requests \ {r} : Stays(q)
<1>1. Booked(r)
  BY DEF BookBotWrites, LateInv, Outcome
<1>2. CASE bookbot[r] = "completed"
  BY <1>1, <1>2, FulfilFate DEF BookBotWrites
<1>3. CASE bookbot[r] # "completed"
  BY <1>1, <1>3, BreakFate DEF BookBotWrites
<1> QED  BY <1>2, <1>3

LEMMA ClaimFate ==
    ASSUME Typed, NEW r \in Requests, ClaimRetry(r)
    PROVE  Claimed(r) /\ \A q \in Requests \ {r} : Stays(q)
<1>1. /\ requests[r].status = "failed" /\ retry[r].state = "queued"
      /\ requests' = [requests EXCEPT ![r].status = "processing"]
      /\ retry' = [retry EXCEPT ![r].state = "retrying", ![r].count = @ + 1]
  BY DEF ClaimRetry
<1>2. requests'[r] = [status |-> "processing", event |-> requests[r].event,
                      notified |-> requests[r].notified]
  BY <1>1, RowsTyped DEF RequestRow
<1>3. retry'[r] = [state |-> "retrying", count |-> retry[r].count + 1]
  BY <1>1, RowsTyped DEF RetryRow
<1>4. \A q \in Requests \ {r} : Stays(q)
  BY <1>1, RowsTyped DEF Stays
<1> QED  BY <1>1, <1>2, <1>3, <1>4 DEF Claimed, Becomes

LEMMA HandsOffFate ==
    ASSUME Typed, NEW r \in Requests, RetryHandsOff(r)
    PROVE  HandedOff(r) /\ \A q \in Requests \ {r} : Stays(q)
<1>1. /\ requests[r].status = "processing" /\ retry[r].state = "retrying"
      /\ requests' = [requests EXCEPT ![r].status = "queued"]
      /\ retry' = [retry EXCEPT ![r].state = "awaiting_import"]
  BY DEF RetryHandsOff
<1>2. requests'[r] = [status |-> "queued", event |-> requests[r].event,
                      notified |-> requests[r].notified]
  BY <1>1, RowsTyped DEF RequestRow
<1>3. retry'[r] = [state |-> "awaiting_import", count |-> retry[r].count]
  BY <1>1, RowsTyped DEF RetryRow
<1>4. \A q \in Requests \ {r} : Stays(q)
  BY <1>1, RowsTyped DEF Stays
<1> QED  BY <1>1, <1>2, <1>3, <1>4 DEF HandedOff, Becomes

LEMMA RetryMissesFate ==
    ASSUME Typed, NEW r \in Requests, RetryMisses(r)
    PROVE  MissedAgain(r) /\ \A q \in Requests \ {r} : Stays(q)
<1>1. /\ requests[r].status = "processing" /\ retry[r].state = "retrying"
      /\ requests' = [requests EXCEPT ![r].status = "failed", ![r].event = "handler"]
      /\ retry' = [retry EXCEPT ![r].state = IF retry[r].count < RetryLimit
                                              THEN "queued" ELSE "expired"]
  BY DEF RetryMisses, MayRequeue
<1>2. requests'[r] = [status |-> "failed", event |-> "handler", notified |-> requests[r].notified]
  BY <1>1, RowsTyped DEF RequestRow
<1>3. retry'[r] = [state |-> IF retry[r].count < RetryLimit THEN "queued" ELSE "expired",
                  count |-> retry[r].count]
  BY <1>1, RowsTyped DEF RetryRow
<1>4. \A q \in Requests \ {r} : Stays(q)
  BY <1>1, RowsTyped DEF Stays
<1> QED  BY <1>1, <1>2, <1>3, <1>4 DEF MissedAgain, Becomes

LEMMA RestartFate ==
    ASSUME Typed, Restart
    PROVE  \A q \in Requests : Stays(q) \/ Orphaned(q)
<1> SUFFICES ASSUME NEW q \in Requests PROVE Stays(q) \/ Orphaned(q)
  OBVIOUS
<1>1. /\ requests' = [r \in Requests |->
            IF requests[r].status = "processing" /\ retry[r].state = "none"
            THEN [requests[r] EXCEPT !.status = "failed", !.event = "startup"]
            ELSE requests[r]]
      /\ retry' = retry
  BY DEF Restart
<1>2. CASE requests[q].status = "processing" /\ retry[q].state = "none"
  <2>1. requests'[q] = [requests[q] EXCEPT !.status = "failed", !.event = "startup"]
    BY <1>1, <1>2
  <2>2. requests'[q] = [status |-> "failed", event |-> "startup", notified |-> requests[q].notified]
    BY <2>1, RowsTyped DEF RequestRow
  <2> QED  BY <1>1, <1>2, <2>2, RowsTyped DEF Orphaned, Becomes
<1>3. CASE ~(requests[q].status = "processing" /\ retry[q].state = "none")
  BY <1>1, <1>3 DEF Stays
<1> QED  BY <1>2, <1>3

LEMMA FinalizeFate ==
    ASSUME Typed, NEW w \in Workers, Finalize(w)
    PROVE  \A q \in Requests : Stays(q) \/ Marked(q)
<1>1. PICK r \in pass[w].ids :
        /\ pass[w].pc = "send" /\ retry' = retry
        /\ requests' = [requests EXCEPT ![r].notified = @ \/ MayFinalize(r)]
  BY DEF Finalize
<1>2. r \in Requests
  BY DEF Typed, TypeOK
<1>3. \A q \in Requests \ {r} : Stays(q)
  BY <1>1, <1>2, RowsTyped DEF Stays
<1>4. CASE MayFinalize(r)
  <2>1. (requests[r].notified \/ MayFinalize(r)) = TRUE
    BY <1>4
  <2>2. requests' = [requests EXCEPT ![r].notified = TRUE]
    BY <1>1, <2>1
  <2>3. requests'[r] = [status |-> requests[r].status, event |-> requests[r].event, notified |-> TRUE]
    BY <1>2, <2>2, RowsTyped DEF RequestRow
  <2> QED  BY <1>1, <1>2, <1>3, <1>4, <2>3, RowsTyped DEF Marked, Becomes
<1>5. CASE ~MayFinalize(r)
  <2>1. (requests[r].notified \/ MayFinalize(r)) = requests[r].notified
    BY <1>2, <1>5, RowsTyped
  <2>2. requests' = [requests EXCEPT ![r].notified = requests[r].notified]
    BY <1>1, <2>1
  <2>3. requests'[r] = requests[r]
    BY <1>2, <2>2, RowsTyped DEF RequestRow
  <2> QED  BY <1>1, <1>3, <2>3 DEF Stays
<1> QED  BY <1>4, <1>5

LEMMA StepFate ==
    ASSUME Typed, LateInv, [Next]_vars
    PROVE  \A q \in Requests : Fate(q)
<1>1. ASSUME UNCHANGED rows PROVE \A q \in Requests : Fate(q)
  BY <1>1 DEF rows, Fate, Goes, Stays
<1>2. CASE UNCHANGED vars
  BY <1>1, <1>2 DEF vars, rows
<1>3. CASE \E r \in Requests : Lifecycle(r)
  <2> PICK r \in Requests : Lifecycle(r)
    BY <1>3
  <2>1. CASE IntakeAnswers(r)
    BY <2>1, AnswersFate DEF Fate, Goes
  <2>2. CASE IntakeMisses(r)
    BY <2>2, MissesFate DEF Fate, Goes
  <2>3. CASE StageReply(r) \/ SeeVisible(r) \/ RecordProgress(r) \/ StageAttention(r)
    BY <2>3, <1>1 DEF StageReply, SeeVisible, RecordProgress, StageAttention, rows
  <2>4. CASE Completes(r)
    BY <2>4, CompletesFate DEF Fate, Goes
  <2>5. CASE ImportFails(r)
    BY <2>5, ImportFailsFate DEF Fate, Goes
  <2>6. CASE ClaimRetry(r)
    BY <2>6, ClaimFate DEF Fate, Goes
  <2>7. CASE RetryHandsOff(r)
    BY <2>7, HandsOffFate DEF Fate, Goes
  <2>8. CASE RetryMisses(r)
    BY <2>8, RetryMissesFate DEF Fate, Goes
  <2> QED
    BY <2>1, <2>2, <2>3, <2>4, <2>5, <2>6, <2>7, <2>8 DEF Lifecycle
<1>4. CASE \E w \in Workers : PassStep(w) \/ PassRaises(w)
  <2> PICK w \in Workers : PassStep(w) \/ PassRaises(w)
    BY <1>4
  <2>1. CASE Finalize(w)
    BY <2>1, FinalizeFate DEF Fate, Goes
  <2>2. CASE BeginPass(w) \/ CheckTerminal(w) \/ StagePlan(w) \/ ReadPending(w)
             \/ SendSucceeds(w) \/ SendFails(w) \/ MarkDelivered(w) \/ EndPass(w) \/ PassRaises(w)
    BY <2>2, <1>1 DEF BeginPass, CheckTerminal, StagePlan, ReadPending, SendSucceeds, SendFails,
                      MarkDelivered, EndPass, PassRaises
  <2> QED
    BY <2>1, <2>2 DEF PassStep
<1>5. CASE Restart
  BY <1>5, RestartFate DEF Fate, Goes
<1>6. CASE \E r \in Requests : BookBot(r)
  <2> PICK r \in Requests : BookBot(r)
    BY <1>6
  <2>1. CASE BookBotWrites(r)
    BY <2>1, BookBotFate DEF Fate, Goes
  <2>2. CASE BookBotReads(r) \/ BookBotSkips(r)
    BY <2>2, <1>1 DEF BookBotReads, BookBotSkips
  <2> QED  BY <2>1, <2>2 DEF BookBot
<1> QED  BY <1>2, <1>3, <1>4, <1>5, <1>6 DEF Next

\* What BookBot has in hand, and whose mark it has overtaken.
LateMoves(r) ==
    /\ r \in overtaken => r \in overtaken'
    /\ r \in overtaken' => r \in overtaken \/ (Closed(r) /\ Imported(r))
    /\ Closed(r) /\ Imported(r) => r \in overtaken'
    /\ bookbot'[r] # "none" =>
         \/ Booked(r) /\ Stays(r)
         \/ bookbot[r] # "none" /\ requests'[r].status # "completed"

LEMMA LateStep ==
    ASSUME Typed, LateInv, [Next]_vars, NEW q \in Requests
    PROVE  LateMoves(q)
<1>0. /\ Imported(q) => requests[q].status # "completed" /\ requests'[q].status = "completed"
      /\ NotImported(q) => requests'[q].status = "failed"
      /\ bookbot[q] # "none" => requests[q].status \in {"queued", "failed"}
  BY DEF Imported, NotImported, Becomes, Booked, LateInv
<1>1. ASSUME UNCHANGED late, requests'[q].status = requests[q].status PROVE LateMoves(q)
  BY <1>0, <1>1 DEF LateMoves, late
<1>2. ASSUME UNCHANGED late, requests'[q].status # "completed" PROVE LateMoves(q)
  BY <1>0, <1>2 DEF LateMoves, late
<1>3. ASSUME UNCHANGED late, bookbot[q] = "none", ~Closed(q) PROVE LateMoves(q)
  BY <1>3 DEF LateMoves, late
<1>4. ASSUME UNCHANGED rows PROVE Stays(q) /\ requests'[q].status = requests[q].status
  BY <1>4 DEF Stays, rows
<1>5. CASE UNCHANGED vars
  BY <1>1, <1>5 DEF vars, late
<1>6. CASE \E r \in Requests : Lifecycle(r) /\ UNCHANGED late
  <2> PICK r \in Requests : Lifecycle(r) /\ UNCHANGED late
    BY <1>6
  <2>1. CASE StageReply(r) \/ SeeVisible(r) \/ RecordProgress(r) \/ StageAttention(r)
    BY <2>1, <1>1, <1>4 DEF StageReply, SeeVisible, RecordProgress, StageAttention, rows
  <2>2. CASE IntakeAnswers(r)
    <3>1. CASE q = r
      <4>1. bookbot[q] = "none" /\ ~Closed(q)
        BY <1>0, <2>2, <3>1 DEF IntakeAnswers, Closed
      <4> QED  BY <1>3, <4>1
    <3> QED  BY <3>1, <1>1, <2>2, AnswersFate DEF Stays
  <2>3. CASE IntakeMisses(r)
    <3>1. CASE q = r
      <4>1. Missed(r)
        BY <2>3, MissesFate
      <4>2. requests'[r].status # "completed"
        BY <4>1 DEF Missed, Becomes
      <4> QED  BY <1>2, <3>1, <4>2
    <3> QED  BY <3>1, <1>1, <2>3, MissesFate DEF Stays
  <2>4. CASE Completes(r)
    <3>1. CASE q = r
      <4>1. bookbot[q] = "none" /\ ~Closed(q)
        BY <2>4, <3>1 DEF Completes, Closed, RetryIsSilent, SilentStates
      <4> QED  BY <1>3, <4>1
    <3> QED  BY <3>1, <1>1, <2>4, CompletesFate DEF Stays
  <2>5. CASE ImportFails(r)
    <3>1. CASE q = r
      <4>1. NotImported(r)
        BY <2>5, ImportFailsFate
      <4>2. requests'[r].status # "completed"
        BY <4>1 DEF NotImported, Becomes
      <4> QED  BY <1>2, <3>1, <4>2
    <3> QED  BY <3>1, <1>1, <2>5, ImportFailsFate DEF Stays
  <2>6. CASE ClaimRetry(r)
    <3>1. CASE q = r
      <4>1. Claimed(r)
        BY <2>6, ClaimFate
      <4>2. requests'[r].status # "completed"
        BY <4>1 DEF Claimed, Becomes
      <4> QED  BY <1>2, <3>1, <4>2
    <3> QED  BY <3>1, <1>1, <2>6, ClaimFate DEF Stays
  <2>7. CASE RetryHandsOff(r)
    <3>1. CASE q = r
      <4>1. HandedOff(r)
        BY <2>7, HandsOffFate
      <4>2. requests'[r].status # "completed"
        BY <4>1 DEF HandedOff, Becomes
      <4> QED  BY <1>2, <3>1, <4>2
    <3> QED  BY <3>1, <1>1, <2>7, HandsOffFate DEF Stays
  <2>8. CASE RetryMisses(r)
    <3>1. CASE q = r
      <4>1. MissedAgain(r)
        BY <2>8, RetryMissesFate
      <4>2. requests'[r].status # "completed"
        BY <4>1 DEF MissedAgain, Becomes
      <4> QED  BY <1>2, <3>1, <4>2
    <3> QED  BY <3>1, <1>1, <2>8, RetryMissesFate DEF Stays
  <2> QED
    BY <2>1, <2>2, <2>3, <2>4, <2>5, <2>6, <2>7, <2>8 DEF Lifecycle
<1>7. CASE \E r \in Requests : BookBot(r)
  <2> PICK r \in Requests : BookBot(r)
    BY <1>7
  <2>0. bookbot \in [Requests -> Outcome \cup {"none"}]
    BY DEF Typed, TypeOK
  <2>1. CASE BookBotWrites(r)
    <3>1. /\ IF bookbot[r] = "completed" THEN Imported(r) ELSE NotImported(r)
          /\ q # r => Stays(q)
      BY <2>1, BookBotFate
    <3>2. /\ overtaken' = IF bookbot[r] = "completed" /\ Closed(r)
                          THEN overtaken \cup {r} ELSE overtaken
          /\ bookbot' = [bookbot EXCEPT ![r] = "none"]
      BY <2>1 DEF BookBotWrites
    <3>3. CASE q = r
      <4>1. bookbot'[q] = "none"
        BY <2>0, <3>2, <3>3
      <4>2. CASE bookbot[r] = "completed"
        BY <3>1, <3>2, <3>3, <4>1, <4>2 DEF LateMoves
      <4>3. CASE bookbot[r] # "completed"
        <5>1. ~Imported(q)
          BY <1>0, <3>1, <3>3, <4>3
        <5> QED  BY <3>2, <3>3, <4>1, <4>3, <5>1 DEF LateMoves
      <4> QED  BY <4>2, <4>3
    <3>4. CASE q # r
      <4>1. bookbot'[q] = bookbot[q] /\ (q \in overtaken' <=> q \in overtaken)
            /\ requests'[q].status = requests[q].status
        BY <2>0, <3>1, <3>2, <3>4 DEF Stays
      <4> QED  BY <1>0, <4>1 DEF LateMoves
    <3> QED  BY <3>3, <3>4
  <2>2. CASE BookBotReads(r)
    <3>1. /\ overtaken' = overtaken /\ Stays(q) /\ requests'[q].status = requests[q].status
          /\ q # r => bookbot'[q] = bookbot[q]
      BY <1>4, <2>0, <2>2 DEF BookBotReads
    <3>2. q = r => Booked(q)
      BY <2>2 DEF BookBotReads, Booked
    <3> QED  BY <1>0, <3>1, <3>2 DEF LateMoves
  <2>3. CASE BookBotSkips(r)
    <3>1. /\ overtaken' = overtaken /\ requests'[q].status = requests[q].status
          /\ bookbot'[q] # "none" => bookbot[q] # "none"
      BY <1>4, <2>0, <2>3 DEF BookBotSkips
    <3> QED  BY <1>0, <3>1 DEF LateMoves
  <2> QED  BY <2>1, <2>2, <2>3 DEF BookBot
<1>8. CASE \E w \in Workers : PassStep(w) \/ (PassRaises(w) /\ UNCHANGED late)
  <2> PICK w \in Workers : PassStep(w) \/ (PassRaises(w) /\ UNCHANGED late)
    BY <1>8
  <2>0. UNCHANGED late
    BY DEF PassStep
  <2>1. CASE Finalize(w)
    <3>1. Stays(q) \/ Marked(q)
      BY <2>1, FinalizeFate
    <3>2. requests'[q].status = requests[q].status
      BY <3>1 DEF Stays, Marked, Becomes
    <3> QED  BY <1>1, <2>0, <3>2
  <2>2. CASE BeginPass(w) \/ CheckTerminal(w) \/ StagePlan(w) \/ ReadPending(w)
             \/ SendSucceeds(w) \/ SendFails(w) \/ MarkDelivered(w) \/ EndPass(w) \/ PassRaises(w)
    BY <1>1, <1>4, <2>0, <2>2 DEF BeginPass, CheckTerminal, StagePlan, ReadPending, SendSucceeds,
                      SendFails, MarkDelivered, EndPass, PassRaises
  <2> QED
    BY <2>1, <2>2 DEF PassStep
<1>9. CASE Restart /\ UNCHANGED late
  <2>1. Stays(q) \/ Orphaned(q)
    BY <1>9, RestartFate
  <2>2. requests'[q].status = requests[q].status \/ requests'[q].status # "completed"
    BY <2>1 DEF Stays, Orphaned, Becomes
  <2> QED  BY <1>1, <1>2, <1>9, <2>2
<1> QED  BY <1>5, <1>6, <1>7, <1>8, <1>9 DEF Next

\* The status of a request and its retry move together.
RowOK(r) ==
    /\ requests[r].status = "processing" => retry[r].state \in {"none", "retrying"}
    /\ requests[r].status = "queued" => retry[r].state \in {"none", "awaiting_import"}
    /\ requests[r].status = "completed" => retry[r].state \in {"none", "fulfilled"}
    /\ requests[r].status = "failed" =>
         retry[r].state \in {"none", "queued", "expired", "blocked"}
    /\ retry[r].state \in {"queued", "expired"} => requests[r].event = "handler"
    /\ retry[r].state = "none" => retry[r].count = 0
    /\ retry[r].state = "queued" => retry[r].count < RetryLimit
    /\ requests[r].notified /\ requests[r].status \in {"processing", "queued"} =>
         retry[r].state # "none"

\* An end is left only by a retry, and a completed request not at all.
Firm(r) ==
    /\ requests[r].status = "completed" =>
         requests[r]'.status = "completed" /\ requests[r]'.event = requests[r].event
    /\ requests[r].status = "completed" => (r \in overtaken' <=> r \in overtaken)
    /\ Settled(r) => Settled(r)'
    /\ retry[r].state = "blocked" => retry[r]'.state = "blocked" \/ Settled(r)'
    /\ retry[r].state # "none" => retry[r]'.state # "none"

LEMMA FateRow ==
    ASSUME Typed, NEW r \in Requests, RowOK(r), Fate(r), LateMoves(r)
    PROVE  RowOK(r)' /\ Firm(r)
<1>0. requests[r].status = "completed" => (r \in overtaken' <=> r \in overtaken)
  BY DEF LateMoves, Closed
<1> USE <1>0, RowsTyped
<1>1. CASE Stays(r)
  BY <1>1 DEF RowOK, Stays, Firm, Settled, Terminal
<1>2. CASE Answered(r)
  BY <1>2 DEF RowOK, Answered, Becomes, Firm, Settled, Terminal
<1>3. CASE Missed(r)
  BY <1>3 DEF RowOK, Missed, Becomes, Firm, Settled, Terminal
<1>4. CASE Imported(r)
  BY <1>4 DEF RowOK, Imported, Booked, RetryIsSilent, SilentStates, Becomes, Firm, Settled, Terminal
<1>5. CASE NotImported(r)
  BY <1>5 DEF RowOK, NotImported, Booked, Becomes, Firm, Settled, Terminal
<1>6. CASE Claimed(r)
  BY <1>6 DEF RowOK, Claimed, Becomes, Firm, Settled, Terminal
<1>7. CASE HandedOff(r)
  BY <1>7 DEF RowOK, HandedOff, Becomes, Firm, Settled, Terminal
<1>8. CASE MissedAgain(r)
  BY <1>8 DEF RowOK, MissedAgain, Becomes, Firm, Settled, Terminal
<1>9. CASE Orphaned(r)
  BY <1>9 DEF RowOK, Orphaned, Becomes, Firm, Settled, Terminal
<1>10. CASE Marked(r)
  BY <1>10 DEF RowOK, Marked, Becomes, Firm, Settled, Terminal, MayFinalize
<1> QED
  BY <1>1, <1>2, <1>3, <1>4, <1>5, <1>6, <1>7, <1>8, <1>9, <1>10 DEF Fate, Goes

LEMMA RowStep ==
    ASSUME Typed, RowInv, LateInv, [Next]_vars
    PROVE  RowInv' /\ \A r \in Requests : Firm(r)
<1>1. \A r \in Requests : RowOK(r)
  BY DEF RowInv, RowOK
<1>2. \A r \in Requests : RowOK(r)' /\ Firm(r)
  BY <1>1, StepFate, LateStep, FateRow
<1>3. RowInv'
  BY <1>2 DEF RowInv, RowOK
<1> QED  BY <1>2, <1>3

LEMMA LateFate ==
    ASSUME Typed, RowInv, LateInv, NEW r \in Requests, Fate(r), LateMoves(r), bookbot'[r] # "none"
    PROVE  Booked(r)'
<1> USE RowsTyped
<1>0. Booked(r) /\ (Stays(r) \/ requests'[r].status # "completed")
  BY DEF LateMoves, LateInv
<1>1. CASE Stays(r)
  BY <1>0, <1>1 DEF Booked, Stays
<1>2. CASE NotImported(r)
  BY <1>2 DEF NotImported, Booked, Becomes, RowInv
<1>3. CASE Imported(r)
  BY <1>0, <1>3 DEF Imported, Booked, Becomes, Stays
<1>4. CASE Marked(r)
  BY <1>0, <1>4 DEF Booked, Marked, Becomes
<1>5. ~Answered(r) /\ ~Missed(r) /\ ~Claimed(r) /\ ~HandedOff(r) /\ ~MissedAgain(r) /\ ~Orphaned(r)
  BY <1>0 DEF Booked, Answered, Missed, Claimed, HandedOff, MissedAgain, Orphaned
<1> QED  BY <1>1, <1>2, <1>3, <1>4, <1>5 DEF Fate, Goes

-----------------------------------------------------------------------------
(* What a step does to a pass                                              *)

LEMMA PassTyped ==
    ASSUME Typed, NEW w \in Workers
    PROVE  /\ pass[w] \in PassRow
           /\ pass[w].pc \in {"idle", "check", "send", "mark"}
           /\ pass[w].terminals \subseteq TerminalRow /\ pass[w].plans \in Seq(Plan)
           /\ pass[w].ids \subseteq Requests /\ pass[w].batch \subseteq DOMAIN outbox
<1>1. pass[w] \in PassRow
  BY DEF Typed
<1>2. pass[w].batch \subseteq DOMAIN outbox
  BY DEF Typed, TypeOK
<1> QED  BY <1>1, <1>2 DEF PassRow

\* Only the pass of w changes; these are its fields now.
Turns(w, pc, terminals, plans, ids, batch) ==
    /\ pass'[w].pc = pc /\ pass'[w].terminals = terminals /\ pass'[w].plans = plans
    /\ pass'[w].ids = ids /\ pass'[w].batch = batch
    /\ \A v \in Workers \ {w} : pass'[v] = pass[v]

LEMMA OutboxTyped ==
    ASSUME Typed
    PROVE  /\ outbox \in Seq(OutRow)
           /\ \A i \in DOMAIN outbox : /\ i \in Nat /\ outbox[i] \in OutRow
                                       /\ outbox[i].owner \in Requests /\ outbox[i].event \in Events
                                       /\ outbox[i].sent \in Nat /\ outbox[i].delivered \in BOOLEAN
<1>1. outbox \in Seq(OutRow)
  BY DEF Typed, TypeOK, OutRow
<1>2. \A i \in DOMAIN outbox : i \in Nat /\ outbox[i] \in OutRow
  BY <1>1
<1> QED  BY <1>1, <1>2 DEF OutRow

LEMMA RowSent ==
    ASSUME Typed, NEW i \in DOMAIN outbox, outbox' = [outbox EXCEPT ![i].sent = @ + 1]
    PROVE  outbox' \in Seq(OutRow) /\ Touches(i, [outbox[i] EXCEPT !.sent = @ + 1])
<1> DEFINE row == [outbox[i] EXCEPT !.sent = @ + 1]
<1>1. outbox[i] \in OutRow
  BY OutboxTyped
<1>2. /\ row \in OutRow /\ row.owner = outbox[i].owner /\ row.event = outbox[i].event
      /\ (outbox[i].delivered => row.delivered)
  BY <1>1 DEF OutRow
<1>3. outbox' = [outbox EXCEPT ![i] = row]
  OBVIOUS
<1> HIDE DEF row
<1>4. outbox' \in Seq(OutRow) /\ Touches(i, row)
  BY <1>2, <1>3, OutboxTyped, RowTouched
<1> QED  BY <1>4 DEF row

LEMMA RowMarked ==
    ASSUME Typed, NEW i \in DOMAIN outbox, outbox' = [outbox EXCEPT ![i].delivered = TRUE]
    PROVE  outbox' \in Seq(OutRow) /\ Touches(i, [outbox[i] EXCEPT !.delivered = TRUE])
<1> DEFINE row == [outbox[i] EXCEPT !.delivered = TRUE]
<1>1. outbox[i] \in OutRow
  BY OutboxTyped
<1>2. /\ row \in OutRow /\ row.owner = outbox[i].owner /\ row.event = outbox[i].event
      /\ (outbox[i].delivered => row.delivered)
  BY <1>1 DEF OutRow
<1>3. outbox' = [outbox EXCEPT ![i] = row]
  OBVIOUS
<1> HIDE DEF row
<1>4. outbox' \in Seq(OutRow) /\ Touches(i, row)
  BY <1>2, <1>3, OutboxTyped, RowTouched
<1> QED  BY <1>4 DEF row

Unmarked == {[id |-> r, status |-> requests[r].status, event |-> requests[r].event] :
                 r \in {q \in Requests : Terminal(q) /\ ~requests[q].notified}}

LEMMA IdleTyped == Idle \in PassRow
<1>1. <<>> \in Seq(Plan)
  OBVIOUS
<1> QED  BY <1>1 DEF Idle, PassRow

LEMMA BeginTurns ==
    ASSUME Typed, NEW w \in Workers, BeginPass(w)
    PROVE  Turns(w, "check", Unmarked, <<>>, {}, {}) /\ pass' \in [Workers -> PassRow]
<1>1. Unmarked \in SUBSET TerminalRow
  <2>1. ASSUME NEW r \in Requests, Terminal(r)
        PROVE  [id |-> r, status |-> requests[r].status, event |-> requests[r].event] \in TerminalRow
    BY <2>1, RowsTyped DEF Terminal, TerminalRow
  <2> QED  BY <2>1 DEF Unmarked
<1>2. pass' = [pass EXCEPT ![w] = [Idle EXCEPT !.pc = "check", !.terminals = Unmarked]]
  BY DEF BeginPass, Unmarked
<1>3. pass \in [Workers -> PassRow]
  BY DEF Typed
<1> DEFINE p == [Idle EXCEPT !.pc = "check", !.terminals = Unmarked]
<1>4. /\ p.pc = "check" /\ p.terminals = Unmarked /\ p.plans = <<>> /\ p.ids = {} /\ p.batch = {}
  BY DEF Idle
<1>5. p \in PassRow
  BY <1>1, IdleTyped DEF PassRow
<1> HIDE DEF p
<1> QED  BY <1>2, <1>3, <1>4, <1>5 DEF Turns, p

\* What the pass makes of the terminal row t.
Plans(t) ==
    LET plans == TerminalPlans(t.status, t.event)
    IN [i \in DOMAIN plans |-> <<t.id, plans[i]>>]

\* The plans of a terminal row, in staging order.
LEMMA PlansAre ==
    ASSUME NEW t \in TerminalRow
    PROVE  LET p(e) == <<t.id, e>> IN
           Plans(t) \in
             IF t.status = "completed"
             THEN IF t.event = "handler"
                  THEN {<<p("request_completed")>>}
                  ELSE {<<p("request_completed"), p("library_imported")>>}
             ELSE IF t.event = "handler"
                  THEN {<<p("request_failed")>>}
                  ELSE {<<p("request_failed")>>, <<p("request_failed"), p("import_failed")>>,
                        <<p("request_failed"), p("system_health")>>}
<1> DEFINE s == TerminalPlans(t.status, t.event)
<1>1. Plans(t) = [i \in DOMAIN s |-> <<t.id, s[i]>>]
  BY DEF Plans
<1>2. t.status \in {"completed", "failed"}
  BY DEF TerminalRow
<1>3. s \in IF t.status = "completed"
             THEN IF t.event = "handler"
                  THEN {<<"request_completed">>}
                  ELSE {<<"request_completed", "library_imported">>}
             ELSE IF t.event = "handler"
                  THEN {<<"request_failed">>}
                  ELSE {<<"request_failed">>, <<"request_failed", "import_failed">>,
                        <<"request_failed", "system_health">>}
  BY <1>2 DEF TerminalPlans
<1> HIDE DEF s
<1>4. ASSUME NEW a, s = <<a>> PROVE Plans(t) = <<<<t.id, a>>>>
  BY <1>1, <1>4
<1>5. ASSUME NEW a, NEW b, s = <<a, b>> PROVE Plans(t) = <<<<t.id, a>>, <<t.id, b>>>>
  BY <1>1, <1>5
<1> QED  BY <1>3, <1>4, <1>5

LEMMA EventsAre ==
    Events = {"request_accepted", "request_completed", "request_failed", "download_queued",
              "download_active", "library_imported", "import_failed", "submission_uncertain",
              "system_health"}
BY DEF Events, EventRoute

\* What the plans of t have in common.
PlansFit(t, plans) ==
    /\ plans \in Seq(Plan)
    /\ \A k \in DOMAIN plans :
         /\ plans[k][1] = t.id
         /\ plans[k][2] = "request_failed" \/ t.status = "completed" \/ t.event # "handler"
         /\ plans[k][2] = "request_completed" => t.status = "completed"
    /\ t.status = "completed" /\ t.event # "handler" =>
         \E k \in DOMAIN plans : plans[k] = <<t.id, "library_imported">>

LEMMA PlansTyped ==
    ASSUME NEW t \in TerminalRow
    PROVE  PlansFit(t, Plans(t))
<1>1. t.id \in Requests /\ t.status \in {"completed", "failed"}
  BY DEF TerminalRow
<1>2. ASSUME NEW a \in Events PROVE <<t.id, a>> \in Plan
  BY <1>1 DEF Plan
<1>3. ASSUME NEW a \in Events, Plans(t) = <<<<t.id, a>>>>,
             t.status = "completed" => t.event = "handler",
             a = "request_failed" \/ t.status = "completed",
             a = "request_completed" => t.status = "completed"
      PROVE  PlansFit(t, Plans(t))
  <2>1. <<<<t.id, a>>>> \in Seq(Plan)
    BY <1>2
  <2> QED  BY <1>3, <2>1 DEF PlansFit
<1>4. ASSUME NEW a \in Events, NEW b \in Events, Plans(t) = <<<<t.id, a>>, <<t.id, b>>>>,
             t.status = "completed" => b = "library_imported",
             t.status # "completed" => t.event # "handler" /\ a = "request_failed" /\ b # "request_completed"
      PROVE  PlansFit(t, Plans(t))
  <2>1. <<<<t.id, a>>, <<t.id, b>>>> \in Seq(Plan)
    BY <1>2
  <2>2. /\ DOMAIN Plans(t) = {1, 2}
        /\ Plans(t)[1] = <<t.id, a>> /\ Plans(t)[2] = <<t.id, b>>
    BY <1>4
  <2>3. \A k \in DOMAIN Plans(t) : Plans(t)[k][1] = t.id /\ Plans(t)[k][2] \in {a, b}
    BY <2>2
  <2>4. /\ t.status = "completed" \/ t.event # "handler"
        /\ "request_completed" \in {a, b} => t.status = "completed"
    BY <1>4
  <2> QED  BY <1>1, <1>4, <2>1, <2>2, <2>3, <2>4 DEF PlansFit
<1> QED  BY <1>1, <1>3, <1>4, PlansAre, EventsAre

LEMMA CheckTurns ==
    ASSUME Typed, NEW w \in Workers, CheckTerminal(w)
    PROVE  /\ pass[w].pc = "check" /\ pass[w].plans = <<>>
           /\ \E t \in pass[w].terminals :
                Turns(w, "check", pass[w].terminals \ {t},
                      IF RetryIsSilent(t.id) THEN <<>> ELSE Plans(t),
                      IF RetryIsSilent(t.id) THEN pass[w].ids ELSE pass[w].ids \cup {t.id},
                      pass[w].batch)
           /\ pass' \in [Workers -> PassRow]
<1>1. PICK t \in pass[w].terminals :
        pass' = [pass EXCEPT ![w].terminals = @ \ {t},
                    ![w].ids = IF RetryIsSilent(t.id) THEN @ ELSE @ \cup {t.id},
                    ![w].plans = IF RetryIsSilent(t.id) THEN <<>> ELSE Plans(t)]
  BY DEF CheckTerminal, Plans
<1>2. t \in TerminalRow /\ t.id \in Requests
  BY PassTyped DEF TerminalRow
<1>3. Plans(t) \in Seq(Plan)
  BY <1>2, PlansTyped DEF PlansFit
<1>4. pass[w].pc = "check" /\ pass[w].plans = <<>>
  BY DEF CheckTerminal
<1> DEFINE T == pass[w].terminals \ {t}
           I == IF RetryIsSilent(t.id) THEN pass[w].ids ELSE pass[w].ids \cup {t.id}
           P == IF RetryIsSilent(t.id) THEN <<>> ELSE Plans(t)
<1>5. pass' = [pass EXCEPT ![w].terminals = T, ![w].ids = I, ![w].plans = P]
  BY <1>1 DEF Typed
<1>6. T \in SUBSET TerminalRow /\ I \in SUBSET Requests
  BY <1>2, PassTyped
<1>7. P \in Seq(Plan)
  <2>1. <<>> \in Seq(Plan)
    OBVIOUS
  <2> QED  BY <1>3, <2>1
<1>8. Turns(w, "check", T, P, I, pass[w].batch) /\ pass' \in [Workers -> PassRow]
  <2> HIDE DEF T, I, P
  <2>1. pass \in [Workers -> PassRow]
    BY DEF Typed
  <2> QED  BY <1>4, <1>5, <1>6, <1>7, <2>1 DEF Turns, PassRow
<1> QED  BY <1>4, <1>8

LEMMA StageTurns ==
    ASSUME Typed, PassInv, NEW w \in Workers, StagePlan(w)
    PROVE  /\ pass[w].pc = "check" /\ pass[w].plans # <<>> /\ Head(pass[w].plans) \in Plan
           /\ Turns(w, "check", pass[w].terminals, Tail(pass[w].plans), pass[w].ids, pass[w].batch)
           /\ pass' \in [Workers -> PassRow]
<1>1. /\ pass[w].plans # <<>> /\ pass[w].pc = "check" /\ pass[w].plans \in Seq(Plan)
      /\ pass' = [pass EXCEPT ![w].plans = Tail(@)]
  BY PassTyped DEF StagePlan, PassInv
<1>2. Tail(pass[w].plans) \in Seq(Plan) /\ Head(pass[w].plans) \in Plan
  BY <1>1
<1> DEFINE P == Tail(pass[w].plans)
<1>3. pass' = [pass EXCEPT ![w].plans = P]
  BY <1>1
<1>4. Turns(w, "check", pass[w].terminals, P, pass[w].ids, pass[w].batch)
      /\ pass' \in [Workers -> PassRow]
  <2>1. pass \in [Workers -> PassRow] /\ P \in Seq(Plan)
    BY <1>2 DEF Typed
  <2> HIDE DEF P
  <2> QED  BY <1>1, <1>3, <2>1 DEF Turns, PassRow
<1> QED  BY <1>1, <1>2, <1>4

LEMMA ReadTurns ==
    ASSUME Typed, NEW w \in Workers, ReadPending(w)
    PROVE  /\ pass[w].pc = "check" /\ pass[w].plans = <<>> /\ pass[w].terminals = {}
           /\ Turns(w, "send", {}, <<>>, pass[w].ids, Pending)
           /\ \A i \in Pending : i \in DOMAIN outbox /\ ~outbox[i].delivered
           /\ pass' \in [Workers -> PassRow]
<1>1. /\ pass[w].pc = "check" /\ pass[w].plans = <<>> /\ pass[w].terminals = {}
      /\ pass' = [pass EXCEPT ![w].pc = "send", ![w].batch = Pending]
  BY DEF ReadPending
<1>2. \A i \in Pending : i \in DOMAIN outbox /\ ~outbox[i].delivered
  BY DEF Pending
<1>3. Pending \in SUBSET Nat /\ pass \in [Workers -> PassRow]
  BY <1>2, OutboxTyped DEF Typed
<1> QED  BY <1>1, <1>2, <1>3 DEF Turns, PassRow

\* Another row of the batch, and the same ids.
LEMMA BatchTurns ==
    ASSUME Typed, NEW w \in Workers, NEW pc \in {"send", "mark"}, NEW batch \in SUBSET Nat,
           pass' = [pass EXCEPT ![w].pc = pc, ![w].batch = batch]
    PROVE  /\ Turns(w, pc, pass[w].terminals, pass[w].plans, pass[w].ids, batch)
           /\ pass' \in [Workers -> PassRow]
<1>1. pass \in [Workers -> PassRow]
  BY DEF Typed
<1> QED  BY <1>1 DEF Turns, PassRow

\* The row i of the batch has been sent, and waits for its mark.
LEMMA SucceedsTurns ==
    ASSUME Typed, NEW w \in Workers, SendSucceeds(w)
    PROVE  /\ pass[w].pc = "send"
           /\ Turns(w, "mark", pass[w].terminals, pass[w].plans, pass[w].ids, pass[w].batch)
           /\ pass' \in [Workers -> PassRow] /\ outbox' \in Seq(OutRow)
           /\ \E i \in pass[w].batch :
                /\ i \in DOMAIN outbox /\ Oldest(w, i)
                /\ Touches(i, [outbox[i] EXCEPT !.sent = @ + 1])
<1>1. /\ pass[w].pc = "send" /\ pass' = [pass EXCEPT ![w].pc = "mark"]
      /\ \E i \in pass[w].batch :
           Oldest(w, i) /\ outbox' = [outbox EXCEPT ![i].sent = @ + 1]
  BY DEF SendSucceeds
<1>2. PICK i \in pass[w].batch : Oldest(w, i) /\ outbox' = [outbox EXCEPT ![i].sent = @ + 1]
  BY <1>1
<1>3. i \in DOMAIN outbox /\ outbox[i] \in OutRow
  BY PassTyped, OutboxTyped
<1>4. outbox' \in Seq(OutRow) /\ Touches(i, [outbox[i] EXCEPT !.sent = @ + 1])
  BY <1>2, <1>3, RowSent
<1>5. /\ Turns(w, "mark", pass[w].terminals, pass[w].plans, pass[w].ids, pass[w].batch)
      /\ pass' \in [Workers -> PassRow]
  <2>1. pass \in [Workers -> PassRow]
    BY DEF Typed
  <2> QED  BY <1>1, <2>1 DEF Turns, PassRow
<1> QED  BY <1>1, <1>2, <1>3, <1>4, <1>5

\* No answer: the row stays undelivered, sent all the same or not.
LEMMA FailsTurns ==
    ASSUME Typed, NEW w \in Workers, SendFails(w)
    PROVE  /\ pass[w].pc = "send" /\ crashes' = crashes
           /\ pass' \in [Workers -> PassRow] /\ outbox' \in Seq(OutRow)
           /\ \E i \in pass[w].batch :
                /\ i \in DOMAIN outbox /\ Oldest(w, i)
                /\ Turns(w, "send", pass[w].terminals, pass[w].plans, pass[w].ids,
                         pass[w].batch \ {i})
                /\ \/ outbox' = outbox /\ faults' = faults
                   \/ outbox' = outbox /\ crashes + faults < MaxSetbacks /\ faults' = faults + 1
                   \/ /\ crashes + faults < MaxSetbacks /\ faults' = faults + 1
                      /\ Touches(i, [outbox[i] EXCEPT !.sent = @ + 1])
<1>1. PICK i \in pass[w].batch :
        /\ Oldest(w, i)
        /\ \/ outbox' = outbox /\ faults' = faults
           \/ /\ crashes + faults < MaxSetbacks /\ faults' = faults + 1
              /\ \E reached \in {0, 1} : outbox' = [outbox EXCEPT ![i].sent = @ + reached]
        /\ pass' = [pass EXCEPT ![w].batch = @ \ {i}]
  BY DEF SendFails, SkipRow
<1>2. pass[w].pc = "send" /\ crashes' = crashes
  BY DEF SendFails
<1>3. i \in DOMAIN outbox /\ outbox[i] \in OutRow
  BY PassTyped, OutboxTyped
<1>4. /\ outbox' \in Seq(OutRow)
      /\ outbox' = outbox \/ Touches(i, [outbox[i] EXCEPT !.sent = @ + 1])
  <2>1. CASE outbox' = outbox
    BY <2>1, OutboxTyped
  <2>2. CASE outbox' = [outbox EXCEPT ![i].sent = @ + 0]
    <3>1. [outbox[i] EXCEPT !.sent = @ + 0] = outbox[i]
      BY <1>3 DEF OutRow
    <3>2. outbox' = [outbox EXCEPT ![i] = outbox[i]]
      BY <2>2, <3>1
    <3>3. outbox' = outbox
      BY <1>3, <3>2, OutboxTyped
    <3> QED  BY <3>3, OutboxTyped
  <2>3. CASE outbox' = [outbox EXCEPT ![i].sent = @ + 1]
    BY <1>3, <2>3, RowSent
  <2> QED  BY <1>1, <2>1, <2>2, <2>3
<1>5. /\ Turns(w, "send", pass[w].terminals, pass[w].plans, pass[w].ids, pass[w].batch \ {i})
      /\ pass' \in [Workers -> PassRow]
  <2> DEFINE B == pass[w].batch \ {i}
  <2>1. pass' = [pass EXCEPT ![w].batch = B]
    BY <1>1
  <2>2. pass \in [Workers -> PassRow] /\ B \in SUBSET Nat
    BY PassTyped, OutboxTyped DEF Typed
  <2> HIDE DEF B
  <2>3. Turns(w, "send", pass[w].terminals, pass[w].plans, pass[w].ids, B)
        /\ pass' \in [Workers -> PassRow]
    BY <1>2, <2>1, <2>2 DEF Turns, PassRow
  <2> QED  BY <2>3 DEF B
<1>6. \/ outbox' = outbox /\ faults' = faults
      \/ outbox' = outbox /\ crashes + faults < MaxSetbacks /\ faults' = faults + 1
      \/ /\ crashes + faults < MaxSetbacks /\ faults' = faults + 1
         /\ Touches(i, [outbox[i] EXCEPT !.sent = @ + 1])
  BY <1>1, <1>4
<1> QED  BY <1>1, <1>2, <1>3, <1>4, <1>5, <1>6

LEMMA MarkTurns ==
    ASSUME Typed, NEW w \in Workers, MarkDelivered(w)
    PROVE  /\ pass[w].pc = "mark"
           /\ pass' \in [Workers -> PassRow] /\ outbox' \in Seq(OutRow)
           /\ \E i \in pass[w].batch :
                /\ i \in DOMAIN outbox /\ Oldest(w, i)
                /\ Turns(w, "send", pass[w].terminals, pass[w].plans, pass[w].ids,
                         pass[w].batch \ {i})
                /\ Touches(i, [outbox[i] EXCEPT !.delivered = TRUE])
<1>1. PICK i \in pass[w].batch :
        /\ Oldest(w, i)
        /\ outbox' = [outbox EXCEPT ![i].delivered = TRUE]
        /\ pass' = [pass EXCEPT ![w].pc = "send", ![w].batch = @ \ {i}]
  BY DEF MarkDelivered
<1>2. pass[w].pc = "mark"
  BY DEF MarkDelivered
<1>3. i \in DOMAIN outbox
  BY PassTyped
<1>4. outbox' \in Seq(OutRow) /\ Touches(i, [outbox[i] EXCEPT !.delivered = TRUE])
  BY <1>1, <1>3, RowMarked
<1>5. /\ Turns(w, "send", pass[w].terminals, pass[w].plans, pass[w].ids, pass[w].batch \ {i})
      /\ pass' \in [Workers -> PassRow]
  <2> DEFINE B == pass[w].batch \ {i}
  <2>1. pass' = [pass EXCEPT ![w].pc = "send", ![w].batch = B]
    BY <1>1
  <2>2. B \in SUBSET Nat
    BY PassTyped, OutboxTyped
  <2> HIDE DEF B
  <2>3. Turns(w, "send", pass[w].terminals, pass[w].plans, pass[w].ids, B)
        /\ pass' \in [Workers -> PassRow]
    BY <2>1, <2>2, BatchTurns
  <2> QED  BY <2>3 DEF B
<1> QED  BY <1>1, <1>2, <1>3, <1>4, <1>5

LEMMA FinalizeTurns ==
    ASSUME Typed, NEW w \in Workers, Finalize(w)
    PROVE  /\ pass[w].pc = "send" /\ pass[w].batch = {}
           /\ pass' \in [Workers -> PassRow]
           /\ \E ids \in SUBSET Requests :
                Turns(w, "send", pass[w].terminals, pass[w].plans, ids, {})
<1>1. /\ pass[w].pc = "send" /\ pass[w].batch = {}
      /\ \E r \in pass[w].ids : pass' = [pass EXCEPT ![w].ids = @ \ {r}]
  BY DEF Finalize
<1>2. PICK r \in pass[w].ids : pass' = [pass EXCEPT ![w].ids = @ \ {r}]
  BY <1>1
<1> DEFINE J == pass[w].ids \ {r}
<1>3. pass' = [pass EXCEPT ![w].ids = J]
  BY <1>2
<1>4. pass \in [Workers -> PassRow] /\ J \in SUBSET Requests
  BY PassTyped DEF Typed
<1> HIDE DEF J
<1>5. Turns(w, "send", pass[w].terminals, pass[w].plans, J, {}) /\ pass' \in [Workers -> PassRow]
  BY <1>1, <1>3, <1>4 DEF Turns, PassRow
<1> QED  BY <1>1, <1>4, <1>5

LEMMA IdleTurns ==
    ASSUME Typed, NEW w \in Workers, pass' = [pass EXCEPT ![w] = Idle]
    PROVE  Turns(w, "idle", {}, <<>>, {}, {}) /\ pass' \in [Workers -> PassRow]
<1>1. pass \in [Workers -> PassRow]
  BY DEF Typed
<1>2. /\ Idle.pc = "idle" /\ Idle.terminals = {} /\ Idle.plans = <<>> /\ Idle.ids = {}
      /\ Idle.batch = {}
  BY DEF Idle
<1> QED  BY <1>1, <1>2, IdleTyped DEF Turns

\* A restart leaves no pass.
LEMMA RestartIdles ==
    ASSUME Restart
    PROVE  /\ pass' \in [Workers -> PassRow]
           /\ \A w \in Workers :
                /\ pass'[w].pc = "idle" /\ pass'[w].terminals = {} /\ pass'[w].plans = <<>>
                /\ pass'[w].ids = {} /\ pass'[w].batch = {}
<1>1. pass' = [w \in Workers |-> Idle]
  BY DEF Restart
<1>2. /\ Idle.pc = "idle" /\ Idle.terminals = {} /\ Idle.plans = <<>> /\ Idle.ids = {}
      /\ Idle.batch = {}
  BY DEF Idle
<1> QED  BY <1>1, <1>2, IdleTyped

-----------------------------------------------------------------------------
(* Types                                                                   *)

\* The messages and the answers that the producers may stage.
LEMMA EventsIn ==
    ASSUME Typed
    PROVE  /\ ProgressEvent \in Events /\ "submission_uncertain" \in Events
           /\ "request_failed" \in Events
           /\ \A r \in Requests : reply[r] \in Seq(Events)
           /\ \A s \in {"queued", "completed", "failed"} : ResponsePlans(s) \in Seq(Events)
<1>1. \A r \in Requests : reply[r] \in Seq(Events)
  BY DEF Typed, TypeOK
<1>2. ASSUME NEW s \in {"queued", "completed", "failed"} PROVE ResponsePlans(s) \in Seq(Events)
  <2>1. ResponsePlans(s) \in {<<"request_accepted", "download_queued">>, <<"request_completed">>,
                              <<"request_failed">>}
    BY DEF ResponsePlans
  <2>2. <<"request_accepted", "download_queued">> \in Seq(Events)
    BY EventsAre
  <2>3. <<"request_completed">> \in Seq(Events) /\ <<"request_failed">> \in Seq(Events)
    BY EventsAre
  <2> QED  BY <2>1, <2>2, <2>3
<1> QED  BY <1>1, <1>2, EventsAre DEF ProgressEvent

\* An enqueue by a typed producer.
LEMMA EnqueueStep ==
    ASSUME Typed, NEW o \in Requests, NEW e \in Events, outbox' = Enqueued(o, e)
    PROVE  outbox' \in Seq(OutRow) /\ Stages(o, e) /\ Keeps
BY OutboxTyped, EnqueuedStages, StagesKeeps

LEMMA RepliesStep ==
    ASSUME Typed, NEW r \in Requests, StageReply(r)
    PROVE  /\ reply[r] # <<>> /\ Head(reply[r]) \in Events /\ Tail(reply[r]) \in Seq(Events)
           /\ reply' = [reply EXCEPT ![r] = Tail(@)]
           /\ outbox' \in Seq(OutRow) /\ Stages(r, Head(reply[r])) /\ Keeps
<1>1. reply[r] # <<>> /\ outbox' = Enqueued(r, Head(reply[r])) /\ reply' = [reply EXCEPT ![r] = Tail(@)]
  BY DEF StageReply
<1>2. Head(reply[r]) \in Events /\ Tail(reply[r]) \in Seq(Events)
  <2>1. reply[r] \in Seq(Events)
    BY EventsIn
  <2> QED  BY <1>1, <2>1
<1> QED  BY <1>1, <1>2, EnqueueStep

LEMMA PlanStep ==
    ASSUME Typed, PassInv, NEW w \in Workers, StagePlan(w)
    PROVE  LET h == Head(pass[w].plans) IN
           h \in Plan /\ outbox' \in Seq(OutRow) /\ Stages(h[1], h[2]) /\ Keeps
<1>1. Head(pass[w].plans) \in Plan
  BY StageTurns
<1>2. outbox' = Enqueued(Head(pass[w].plans)[1], Head(pass[w].plans)[2])
  BY DEF StagePlan
<1>3. Head(pass[w].plans)[1] \in Requests /\ Head(pass[w].plans)[2] \in Events
  BY <1>1 DEF Plan
<1> QED  BY <1>1, <1>2, <1>3, EnqueueStep

\* The progress of a request that is still queued.
LEMMA ProgressStep ==
    ASSUME Typed, NEW r \in Requests, RecordProgress(r)
    PROVE  /\ outbox' \in Seq(OutRow) /\ Keeps
           /\ outbox' = outbox \/ Stages(r, "download_active")
<1>1. outbox' = IF requests[r].status = "queued" THEN Enqueued(r, ProgressEvent) ELSE outbox
  BY DEF RecordProgress
<1>2. CASE outbox' = outbox
  BY <1>2, OutboxTyped, SameKeeps
<1>3. CASE outbox' = Enqueued(r, ProgressEvent)
  BY <1>3, EnqueueStep, EventsIn DEF ProgressEvent
<1> QED  BY <1>1, <1>2, <1>3

\* BookBot knows nothing of the outbox and of those who serve it.
LEMMA BookBotOnlyWrites ==
    ASSUME NEW r, BookBot(r)
    PROVE  UNCHANGED <<outbox, reply, seen, pass, lock, crashes, faults>>
BY DEF BookBot, BookBotReads, BookBotWrites, BookBotSkips, huey

\* What every step leaves of the outbox.
LEMMA OutboxStep ==
    ASSUME Typed, PassInv, [Next]_vars
    PROVE  outbox' \in Seq(OutRow) /\ Keeps
<1>1. ASSUME outbox' = outbox PROVE outbox' \in Seq(OutRow) /\ Keeps
  BY <1>1, OutboxTyped, SameKeeps
<1>2. CASE UNCHANGED vars
  BY <1>1, <1>2 DEF vars
<1>3. CASE \E r \in Requests : Lifecycle(r)
  <2> PICK r \in Requests : Lifecycle(r)
    BY <1>3
  <2>1. CASE IntakeMisses(r)
    BY <2>1, EnqueueStep, EventsIn DEF IntakeMisses
  <2>2. CASE StageReply(r)
    BY <2>2, RepliesStep
  <2>3. CASE RecordProgress(r)
    BY <2>3, ProgressStep
  <2>4. CASE StageAttention(r)
    BY <2>4, EnqueueStep, EventsIn DEF StageAttention
  <2>5. CASE IntakeAnswers(r) \/ SeeVisible(r) \/ Completes(r) \/ ImportFails(r) \/ ClaimRetry(r)
             \/ RetryHandsOff(r) \/ RetryMisses(r)
    BY <1>1, <2>5 DEF IntakeAnswers, SeeVisible, Completes, ImportFails, ClaimRetry,
                      RetryHandsOff, RetryMisses
  <2> QED  BY <2>1, <2>2, <2>3, <2>4, <2>5 DEF Lifecycle
<1>4. CASE \E w \in Workers : PassStep(w) \/ PassRaises(w)
  <2> PICK w \in Workers : PassStep(w) \/ PassRaises(w)
    BY <1>4
  <2>1. CASE StagePlan(w)
    BY <2>1, PlanStep
  <2>2. CASE SendSucceeds(w)
    BY <2>2, SucceedsTurns, TouchesKeeps
  <2>3. CASE SendFails(w)
    <3>1. outbox' \in Seq(OutRow)
      BY <2>3, FailsTurns
    <3>2. outbox' = outbox \/ \E i : Touches(i, [outbox[i] EXCEPT !.sent = @ + 1])
      BY <2>3, FailsTurns
    <3> QED  BY <1>1, <3>1, <3>2, TouchesKeeps
  <2>4. CASE MarkDelivered(w)
    BY <2>4, MarkTurns, TouchesKeeps
  <2>5. CASE BeginPass(w) \/ CheckTerminal(w) \/ ReadPending(w) \/ Finalize(w) \/ EndPass(w)
             \/ PassRaises(w)
    BY <1>1, <2>5 DEF BeginPass, CheckTerminal, ReadPending, Finalize, EndPass, PassRaises
  <2> QED  BY <2>1, <2>2, <2>3, <2>4, <2>5 DEF PassStep
<1>5. CASE Restart
  BY <1>1, <1>5 DEF Restart
<1>6. CASE \E r \in Requests : BookBot(r)
  BY <1>1, <1>6, BookBotOnlyWrites
<1> QED  BY <1>2, <1>3, <1>4, <1>5, <1>6 DEF Next

\* The rows of the requests and of the retries keep their types.
LEMMA FateTyped ==
    ASSUME Typed, NEW r \in Requests, RowOK(r), Fate(r)
    PROVE  requests'[r] \in RequestRow /\ retry'[r] \in RetryRow
<1> USE RowsTyped DEF Status, TerminalEvent, RetryState
<1>1. ASSUME NEW s \in Status, NEW e \in TerminalEvent, NEW n \in BOOLEAN,
             NEW t \in RetryState, NEW c \in 0..RetryLimit, Becomes(r, s, e, n, t, c)
      PROVE  requests'[r] \in RequestRow /\ retry'[r] \in RetryRow
  BY <1>1 DEF Becomes, RequestRow, RetryRow
<1>2. CASE Stays(r)
  BY <1>2 DEF Stays
<1>3. CASE Answered(r)
  BY <1>1, <1>3 DEF Answered
<1>4. CASE Missed(r)
  BY <1>1, <1>4 DEF Missed
<1>5. CASE Imported(r)
  <2>1. CASE ~RetryIsSilent(r)
    BY <1>1, <1>5, <2>1 DEF Imported
  <2>2. CASE RetryIsSilent(r)
    <3>1. Becomes(r, "completed", "import", FALSE, "fulfilled", retry[r].count)
      BY <1>5, <2>2 DEF Imported
    <3> QED  BY <3>1 DEF Becomes, RequestRow, RetryRow
  <2> QED  BY <2>1, <2>2
<1>6. CASE NotImported(r)
  BY <1>1, <1>6 DEF NotImported
<1>7. CASE Claimed(r)
  <2>1. retry[r].count + 1 \in 0..RetryLimit
    BY <1>7, BoundsAssumption DEF Claimed, RowOK
  <2> QED  BY <1>1, <1>7, <2>1 DEF Claimed
<1>8. CASE HandedOff(r)
  BY <1>1, <1>8 DEF HandedOff
<1>9. CASE MissedAgain(r)
  BY <1>1, <1>9 DEF MissedAgain
<1>10. CASE Orphaned(r)
  BY <1>1, <1>10 DEF Orphaned
<1>11. CASE Marked(r)
  BY <1>11 DEF Marked, Becomes, RequestRow, RetryRow
<1> QED
  BY <1>2, <1>3, <1>4, <1>5, <1>6, <1>7, <1>8, <1>9, <1>10, <1>11 DEF Fate, Goes

Rows(f) == f = [q \in Requests |-> f[q]]

LEMMA FulfilAssigns ==
    ASSUME Typed, NEW r \in Requests, Fulfil(r)
    PROVE  Rows(requests') /\ Rows(retry')
<1> DEFINE b == requests[r].notified /\ ~Syncs(r)
           t == IF Syncs(r) THEN "fulfilled" ELSE retry[r].state
<1>0. requests = [q \in Requests |-> requests[q]] /\ retry = [q \in Requests |-> retry[q]]
  BY RowsTyped
<1>1. /\ requests' = [requests EXCEPT ![r].status = "completed", ![r].event = "import",
                        ![r].notified = b]
      /\ retry' = [retry EXCEPT ![r].state = t]
  BY DEF Fulfil
<1> HIDE DEF b, t
<1> QED  BY <1>0, <1>1 DEF Rows

LEMMA RowsAssigned ==
    ASSUME Typed, [Next]_vars
    PROVE  Rows(requests') /\ Rows(retry')
<1>0. requests = [q \in Requests |-> requests[q]] /\ retry = [q \in Requests |-> retry[q]]
  BY RowsTyped
<1> USE <1>0 DEF Rows
<1>1. CASE UNCHANGED vars
  BY <1>1 DEF vars
<1>2. CASE \E r \in Requests : Lifecycle(r)
  <2> PICK r \in Requests : Lifecycle(r)
    BY <1>2
  <2>1. CASE IntakeAnswers(r)
    BY <2>1 DEF IntakeAnswers
  <2>2. CASE IntakeMisses(r)
    BY <2>2 DEF IntakeMisses
  <2>3. CASE StageReply(r) \/ SeeVisible(r) \/ RecordProgress(r) \/ StageAttention(r)
    BY <2>3 DEF StageReply, SeeVisible, RecordProgress, StageAttention
  <2>4. CASE Completes(r)
    BY <2>4, FulfilAssigns DEF Completes
  <2>5. CASE ImportFails(r)
    BY <2>5 DEF ImportFails, Break
  <2>6. CASE ClaimRetry(r)
    BY <2>6 DEF ClaimRetry
  <2>7. CASE RetryHandsOff(r)
    BY <2>7 DEF RetryHandsOff
  <2>8. CASE RetryMisses(r)
    BY <2>8 DEF RetryMisses
  <2> QED
    BY <2>1, <2>2, <2>3, <2>4, <2>5, <2>6, <2>7, <2>8 DEF Lifecycle
<1>3. CASE \E w \in Workers : PassStep(w) \/ PassRaises(w)
  <2> PICK w \in Workers : PassStep(w) \/ PassRaises(w)
    BY <1>3
  <2>1. CASE Finalize(w)
    <3>1. PICK r \in pass[w].ids : retry' = retry
             /\ requests' = [requests EXCEPT ![r].notified = @ \/ MayFinalize(r)]
      BY <2>1 DEF Finalize
    <3> DEFINE b == requests[r].notified \/ MayFinalize(r)
    <3>2. requests' = [requests EXCEPT ![r].notified = b]
      BY <3>1
    <3> HIDE DEF b
    <3> QED  BY <3>1, <3>2
  <2>2. CASE BeginPass(w) \/ CheckTerminal(w) \/ StagePlan(w) \/ ReadPending(w)
             \/ SendSucceeds(w) \/ SendFails(w) \/ MarkDelivered(w) \/ EndPass(w) \/ PassRaises(w)
    BY <2>2 DEF BeginPass, CheckTerminal, StagePlan, ReadPending, SendSucceeds, SendFails,
                      MarkDelivered, EndPass, PassRaises, rows
  <2> QED
    BY <2>1, <2>2 DEF PassStep
<1>4. CASE Restart
  BY <1>4 DEF Restart
<1>5. CASE \E r \in Requests : BookBot(r)
  <2> PICK r \in Requests : BookBot(r)
    BY <1>5
  <2>1. CASE BookBotWrites(r)
    BY <2>1, FulfilAssigns DEF BookBotWrites, Break
  <2>2. CASE BookBotReads(r) \/ BookBotSkips(r)
    BY <2>2 DEF BookBotReads, BookBotSkips, rows
  <2> QED  BY <2>1, <2>2 DEF BookBot
<1> QED  BY <1>1, <1>2, <1>3, <1>4, <1>5 DEF Next

LEMMA RowsStep ==
    ASSUME Typed, RowInv, LateInv, [Next]_vars
    PROVE  requests' \in [Requests -> RequestRow] /\ retry' \in [Requests -> RetryRow]
<1>1. \A r \in Requests : RowOK(r)
  BY DEF RowInv, RowOK
<1>2. \A r \in Requests : requests'[r] \in RequestRow /\ retry'[r] \in RetryRow
  BY <1>1, StepFate, FateTyped
<1> QED  BY <1>2, RowsAssigned DEF Rows

\* What is left of a pass once a step has changed it.
PassFits ==
    /\ pass' \in [Workers -> PassRow]
    /\ \A w \in Workers : pass'[w].batch \subseteq DOMAIN outbox'

LEMMA PassStepTyped ==
    ASSUME Typed, PassInv, [Next]_vars
    PROVE  PassFits
<1>0. \A w \in Workers : pass[w].batch \subseteq DOMAIN outbox'
  BY PassTyped, OutboxStep DEF Keeps
<1>1. ASSUME UNCHANGED pass PROVE PassFits
  BY <1>0, <1>1 DEF PassFits, Typed
<1>2. CASE UNCHANGED vars
  BY <1>1, <1>2 DEF vars
<1>3. CASE \E r \in Requests : Lifecycle(r)
  BY <1>1, <1>3 DEF Lifecycle, IntakeAnswers, IntakeMisses, StageReply, SeeVisible, RecordProgress,
       StageAttention, Completes, ImportFails, ClaimRetry, RetryHandsOff, RetryMisses, huey
<1>4. CASE \E w \in Workers : PassStep(w) \/ PassRaises(w)
  <2> PICK w \in Workers : PassStep(w) \/ PassRaises(w)
    BY <1>4
  <2>1. CASE BeginPass(w)
    BY <1>0, <2>1, BeginTurns DEF PassFits, Turns
  <2>2. CASE CheckTerminal(w)
    BY <1>0, <2>2, CheckTurns DEF PassFits, Turns
  <2>3. CASE StagePlan(w)
    BY <1>0, <2>3, StageTurns DEF PassFits, Turns
  <2>4. CASE ReadPending(w)
    <3>1. Pending \subseteq DOMAIN outbox'
      BY <2>4, ReadTurns, OutboxStep DEF Keeps
    <3> QED  BY <1>0, <2>4, <3>1, ReadTurns DEF PassFits, Turns
  <2>5. CASE SendSucceeds(w)
    BY <1>0, <2>5, SucceedsTurns DEF PassFits, Turns
  <2>6. CASE SendFails(w)
    BY <1>0, <2>6, FailsTurns DEF PassFits, Turns
  <2>7. CASE MarkDelivered(w)
    BY <1>0, <2>7, MarkTurns DEF PassFits, Turns
  <2>8. CASE Finalize(w)
    BY <1>0, <2>8, FinalizeTurns DEF PassFits, Turns
  <2>9. CASE EndPass(w) \/ PassRaises(w)
    <3>1. pass' = [pass EXCEPT ![w] = Idle]
      BY <2>9 DEF EndPass, PassRaises
    <3> QED  BY <1>0, <3>1, IdleTurns DEF PassFits, Turns
  <2> QED
    BY <2>1, <2>2, <2>3, <2>4, <2>5, <2>6, <2>7, <2>8, <2>9 DEF PassStep
<1>5. CASE Restart
  BY <1>5, RestartIdles DEF PassFits
<1>6. CASE \E r \in Requests : BookBot(r)
  BY <1>1, <1>6, BookBotOnlyWrites
<1> QED  BY <1>2, <1>3, <1>4, <1>5, <1>6 DEF Next

\* The variables that no lemma above is about.
RestTyped ==
    /\ reply \in [Requests -> Seq(Events)] /\ seen \subseteq Requests
    /\ lock \in Workers \cup {NoWorker}
    /\ bookbot \in [Requests -> Outcome \cup {"none"}] /\ overtaken \subseteq Requests
    /\ crashes \in 0..MaxSetbacks /\ faults \in 0..MaxSetbacks

LEMMA RestStep ==
    ASSUME Typed, [Next]_vars
    PROVE  RestTyped'
<1>1. RestTyped
  BY DEF Typed, TypeOK, RestTyped
<1>2. ASSUME UNCHANGED <<reply, seen, lock, bookbot, overtaken, crashes, faults>> PROVE RestTyped'
  BY <1>1, <1>2 DEF RestTyped
<1>3. CASE UNCHANGED vars
  BY <1>2, <1>3 DEF vars
<1>4. CASE \E r \in Requests : Lifecycle(r) /\ UNCHANGED late
  <2> PICK r \in Requests : Lifecycle(r) /\ UNCHANGED late
    BY <1>4
  <2>0. UNCHANGED <<bookbot, overtaken>>
    BY DEF late
  <2>1. CASE IntakeAnswers(r)
    <3>1. PICK s \in {"queued", "completed", "failed"} : reply' = [reply EXCEPT ![r] = ResponsePlans(s)]
      BY <2>1 DEF IntakeAnswers
    <3>2. reply' \in [Requests -> Seq(Events)]
      BY <1>1, <3>1, EventsIn DEF RestTyped
    <3> QED  BY <1>1, <2>0, <2>1, <3>2 DEF RestTyped, IntakeAnswers
  <2>2. CASE IntakeMisses(r)
    <3>1. reply' \in [Requests -> Seq(Events)]
      BY <1>1, <2>2, EventsIn DEF RestTyped, IntakeMisses
    <3> QED  BY <1>1, <2>0, <2>2, <3>1 DEF RestTyped, IntakeMisses
  <2>3. CASE StageReply(r)
    <3>1. reply' \in [Requests -> Seq(Events)]
      BY <1>1, <2>3, RepliesStep DEF RestTyped
    <3> QED  BY <1>1, <2>0, <2>3, <3>1 DEF RestTyped, StageReply
  <2>4. CASE SeeVisible(r) \/ RecordProgress(r) \/ StageAttention(r)
    BY <1>1, <2>0, <2>4 DEF RestTyped, SeeVisible, RecordProgress, StageAttention
  <2>5. CASE Completes(r) \/ ImportFails(r) \/ ClaimRetry(r) \/ RetryHandsOff(r) \/ RetryMisses(r)
    BY <1>2, <2>0, <2>5 DEF Completes, ImportFails, ClaimRetry, RetryHandsOff, RetryMisses, huey
  <2> QED  BY <2>1, <2>2, <2>3, <2>4, <2>5 DEF Lifecycle
<1>5. CASE \E w \in Workers : PassStep(w) \/ (PassRaises(w) /\ UNCHANGED late)
  <2> PICK w \in Workers : PassStep(w) \/ (PassRaises(w) /\ UNCHANGED late)
    BY <1>5
  <2>0. UNCHANGED <<bookbot, overtaken>>
    BY DEF PassStep, late
  <2>1. CASE BeginPass(w) \/ EndPass(w)
    BY <1>1, <2>0, <2>1 DEF RestTyped, BeginPass, EndPass
  <2>2. CASE SendFails(w)
    <3>1. faults' = faults \/ (crashes + faults < MaxSetbacks /\ faults' = faults + 1)
      BY <2>2, FailsTurns
    <3>2. faults' \in 0..MaxSetbacks
      BY <1>1, <3>1, BoundsAssumption DEF RestTyped
    <3> QED  BY <1>1, <2>0, <2>2, <3>2, FailsTurns DEF RestTyped, SendFails
  <2>3. CASE PassRaises(w)
    BY <1>1, <2>0, <2>3, BoundsAssumption DEF RestTyped, PassRaises
  <2>4. CASE CheckTerminal(w) \/ StagePlan(w) \/ ReadPending(w) \/ SendSucceeds(w)
             \/ MarkDelivered(w) \/ Finalize(w)
    BY <1>2, <2>0, <2>4 DEF CheckTerminal, StagePlan, ReadPending, SendSucceeds, MarkDelivered, Finalize
  <2> QED  BY <2>1, <2>2, <2>3, <2>4 DEF PassStep
<1>6. CASE Restart /\ UNCHANGED late
  <2>1. reply' \in [Requests -> Seq(Events)]
    <3>1. <<>> \in Seq(Events)
      OBVIOUS
    <3> QED  BY <1>6, <3>1 DEF Restart
  <2>2. /\ crashes + faults < MaxSetbacks /\ crashes' = crashes + 1 /\ faults' = faults
        /\ lock' = NoWorker /\ seen' = {}
    BY <1>6 DEF Restart
  <2>3. crashes' \in 0..MaxSetbacks /\ faults' \in 0..MaxSetbacks
    BY <1>1, <2>2, BoundsAssumption DEF RestTyped
  <2> QED  BY <1>1, <1>6, <2>1, <2>2, <2>3 DEF RestTyped, late
<1>7. CASE \E r \in Requests : BookBot(r)
  <2> PICK r \in Requests : BookBot(r)
    BY <1>7
  <2>1. bookbot' \in [Requests -> Outcome \cup {"none"}] /\ overtaken' \subseteq Requests
    BY <1>1 DEF RestTyped, BookBot, BookBotReads, BookBotWrites, BookBotSkips, Outcome
  <2>2. UNCHANGED <<reply, seen, lock, crashes, faults>>
    BY BookBotOnlyWrites
  <2> QED  BY <1>1, <2>1, <2>2 DEF RestTyped
<1> QED  BY <1>3, <1>4, <1>5, <1>6, <1>7 DEF Next

LEMMA TypeStep ==
    ASSUME Typed, RowInv, LateInv, PassInv, [Next]_vars
    PROVE  Typed'
<1>1. requests' \in [Requests -> RequestRow] /\ retry' \in [Requests -> RetryRow]
  BY RowsStep
<1>2. outbox' \in Seq(OutRow)
  BY OutboxStep
<1>3. pass' \in [Workers -> PassRow] /\ \A w \in Workers : pass'[w].batch \subseteq DOMAIN outbox'
  BY PassStepTyped DEF PassFits
<1>4. \A w \in Workers : pass'[w].pc \in {"idle", "check", "send", "mark"}
                         /\ pass'[w].ids \subseteq Requests
  BY <1>3 DEF PassRow
<1>5. RestTyped'
  BY RestStep
<1> QED  BY <1>1, <1>2, <1>3, <1>4, <1>5 DEF Typed, TypeOK, RestTyped, RequestRow, RetryRow, OutRow

-----------------------------------------------------------------------------
(* Passes                                                                  *)

\* Under the lock the other callers are idle, with nothing in hand.
LEMMA Alone ==
    ASSUME Typed, PassInv, NEW w \in Workers, pass[w].pc # "idle"
    PROVE  lock = w /\ \A v \in Workers \ {w} : pass[v].pc = "idle" /\ lock # v
BY DEF PassInv

LEMMA NobodyWorks ==
    ASSUME Typed, PassInv, lock = NoWorker
    PROVE  \A v \in Workers : pass[v].pc = "idle"
BY LockAssumption DEF PassInv

\* The parts of PassInv.
LockOK(w) == pass[w].pc # "idle" <=> lock = w
PhaseOK(w) ==
    /\ pass[w].pc # "check" => pass[w].plans = <<>> /\ pass[w].terminals = {}
    /\ pass[w].pc \notin {"send", "mark"} => pass[w].batch = {}
TerminalOK(t) ==
    /\ t.status = "completed" =>
         /\ requests[t.id].status = "completed" /\ requests[t.id].event = t.event
         /\ t.id \notin overtaken
    /\ \/ t.status = "failed" /\ t.event = "handler"
       \/ Settled(t.id)
       \/ retry[t.id].state = "blocked"
PlanOK(w, r, e) ==
    HasPlan(w, r, e) =>
      /\ e = "request_failed" \/ Settled(r)
      /\ e = "request_completed" =>
           /\ requests[r].status = "completed" /\ r \notin overtaken
           /\ requests[r].event = "import" =>
                "library_imported" \in Staged(r) \/ HasPlan(w, r, "library_imported")
PassOK(w) ==
    /\ LockOK(w) /\ PhaseOK(w)
    /\ \A t \in pass[w].terminals : TerminalOK(t)
    /\ \A r \in Requests, e \in Events : PlanOK(w, r, e)

LEMMA PassParts == PassInv <=> \A w \in Workers : PassOK(w)
BY DEF PassInv, PassOK, LockOK, PhaseOK, TerminalOK, PlanOK

LEMMA PassPartsNext == (PassInv <=> \A w \in Workers : PassOK(w))'
BY PassParts, PTL

\* What a pass has read stays true while others move.
LEMMA TerminalKept ==
    ASSUME NEW t \in TerminalRow, TerminalOK(t), Firm(t.id)
    PROVE  TerminalOK(t)'
BY DEF TerminalOK, Firm

LEMMA PlanKept ==
    ASSUME Typed, Keeps, NEW w \in Workers, NEW r \in Requests, Firm(r), NEW e \in Events,
           PlanOK(w, r, e), pass'[w].plans = pass[w].plans
    PROVE  PlanOK(w, r, e)'
<1>1. \A x : HasPlan(w, r, x)' <=> HasPlan(w, r, x)
  BY DEF HasPlan
<1> QED  BY <1>1 DEF PlanOK, Firm, Keeps, Settled, Terminal

LEMMA PassKept ==
    ASSUME Typed, PassInv, Keeps, \A r \in Requests : Firm(r), NEW w \in Workers,
           pass'[w] = pass[w], lock' = w <=> lock = w
    PROVE  PassOK(w)'
<1>1. PassOK(w)
  BY PassParts
<1>2. LockOK(w)' /\ PhaseOK(w)'
  BY <1>1 DEF PassOK, LockOK, PhaseOK
<1>3. \A t \in pass[w].terminals : TerminalOK(t)'
  <2> SUFFICES ASSUME NEW t \in pass[w].terminals PROVE TerminalOK(t)'
    OBVIOUS
  <2>1. t \in TerminalRow /\ t.id \in Requests
    BY PassTyped DEF TerminalRow
  <2> QED  BY <1>1, <2>1, TerminalKept DEF PassOK
<1>4. \A r \in Requests, e \in Events : PlanOK(w, r, e)'
  BY <1>1, PlanKept DEF PassOK
<1> QED  BY <1>2, <1>3, <1>4 DEF PassOK

\* The terminal rows of a step that reads no row of its own.
LEMMA TerminalsKept ==
    ASSUME Typed, PassInv, \A r \in Requests : Firm(r), NEW w \in Workers,
           pass'[w].terminals \subseteq pass[w].terminals
    PROVE  (\A t \in pass[w].terminals : TerminalOK(t))'
<1> SUFFICES ASSUME NEW t \in pass[w].terminals PROVE TerminalOK(t)'
  OBVIOUS
<1>1. t \in TerminalRow /\ t.id \in Requests
  BY PassTyped DEF TerminalRow
<1> QED  BY <1>1, PassParts, TerminalKept DEF PassOK

LEMMA NoPlans ==
    ASSUME NEW w \in Workers, pass'[w].plans = <<>>
    PROVE  \A r, e : ~HasPlan(w, r, e)' /\ PlanOK(w, r, e)'
BY DEF HasPlan, PlanOK

LEMMA BeginPassOK ==
    ASSUME Typed, RowInv, LateInv, NEW w \in Workers, BeginPass(w), \A r \in Requests : Firm(r)
    PROVE  PassOK(w)'
<1>1. Turns(w, "check", Unmarked, <<>>, {}, {}) /\ lock' = w /\ requests' = requests /\ retry' = retry
  BY BeginTurns DEF BeginPass, rows
<1>2. LockOK(w)' /\ PhaseOK(w)'
  BY <1>1 DEF Turns, LockOK, PhaseOK
<1>3. ASSUME NEW t \in Unmarked PROVE TerminalOK(t)'
  <2>1. PICK r \in Requests : /\ Terminal(r) /\ ~requests[r].notified
                              /\ t = [id |-> r, status |-> requests[r].status, event |-> requests[r].event]
    BY DEF Unmarked
  <2>2. TerminalOK(t)
    BY <2>1, RowsTyped DEF TerminalOK, Settled, Terminal, RowInv, LateInv, RetryState
  <2>3. t \in TerminalRow
    BY <2>1, RowsTyped DEF TerminalRow, Terminal
  <2> QED  BY <1>1, <2>1, <2>2, <2>3, TerminalKept
<1>4. \A r, e : PlanOK(w, r, e)'
  BY <1>1, NoPlans DEF Turns
<1> QED  BY <1>1, <1>2, <1>3, <1>4 DEF PassOK, Turns

LEMMA CheckPassOK ==
    ASSUME Typed, RowInv, PassInv, NEW w \in Workers, CheckTerminal(w), \A r \in Requests : Firm(r)
    PROVE  PassOK(w)'
<1>1. PICK t \in pass[w].terminals :
                Turns(w, "check", pass[w].terminals \ {t},
                      IF RetryIsSilent(t.id) THEN <<>> ELSE Plans(t),
                      IF RetryIsSilent(t.id) THEN pass[w].ids ELSE pass[w].ids \cup {t.id},
                      pass[w].batch)
  BY CheckTurns
<1>2. /\ pass[w].pc = "check" /\ lock' = lock /\ requests' = requests /\ retry' = retry
      /\ outbox' = outbox
  BY DEF CheckTerminal, rows
<1>3. PassOK(w)
  BY PassParts
<1>4. LockOK(w)' /\ PhaseOK(w)'
  BY <1>1, <1>2, <1>3 DEF Turns, PassOK, LockOK, PhaseOK
<1>5. (\A x \in pass[w].terminals : TerminalOK(x))'
  BY <1>1, TerminalsKept DEF Turns
<1>6. ASSUME NEW r \in Requests, NEW e \in Events PROVE PlanOK(w, r, e)'
  <2>1. CASE RetryIsSilent(t.id)
    BY <1>1, <2>1, NoPlans DEF Turns
  <2>2. CASE ~RetryIsSilent(t.id)
    <3>1. t \in TerminalRow /\ t.id \in Requests /\ pass'[w].plans = Plans(t)
      BY <1>1, <2>2, PassTyped DEF TerminalRow, Turns
    <3>2. PlansFit(t, Plans(t))
      BY <3>1, PlansTyped
    <3>3. TerminalOK(t)
      BY <1>3 DEF PassOK
    <3>4. \A k \in DOMAIN Plans(t) : Plans(t)[k] = <<Plans(t)[k][1], Plans(t)[k][2]>>
      BY <3>2 DEF PlansFit, Plan
    <3>5. \A q, x : HasPlan(w, q, x)' <=> \E k \in DOMAIN Plans(t) : Plans(t)[k] = <<q, x>>
      BY <3>1 DEF HasPlan
    <3> SUFFICES ASSUME HasPlan(w, r, e)'
                 PROVE  /\ e = "request_failed" \/ Settled(r)'
                        /\ e = "request_completed" =>
                             /\ requests'[r].status = "completed" /\ r \notin overtaken'
                             /\ requests'[r].event = "import" => HasPlan(w, r, "library_imported")'
      BY DEF PlanOK
    <3>6. PICK k \in DOMAIN Plans(t) : Plans(t)[k] = <<r, e>>
      BY <3>5
    <3>7. r = t.id /\ (e = "request_failed" \/ t.status = "completed" \/ t.event # "handler")
          /\ (e = "request_completed" => t.status = "completed")
      BY <3>2, <3>6 DEF PlansFit
    <3>8. e = "request_failed" \/ Settled(r)
      <4>1. CASE t.status = "completed"
        BY <3>3, <3>7, <4>1, RowsTyped DEF TerminalOK, Settled, Terminal, RowInv
      <4>2. CASE retry[t.id].state = "blocked"
        BY <2>2, <4>2 DEF RetryIsSilent, SilentStates
      <4> QED  BY <3>3, <3>7, <4>1, <4>2 DEF TerminalOK
    <3>9. e = "request_completed" =>
            /\ requests[r].status = "completed" /\ r \notin overtaken
            /\ requests[r].event = "import" => HasPlan(w, r, "library_imported")'
      <4> SUFFICES ASSUME e = "request_completed"
                   PROVE  /\ requests[r].status = "completed" /\ r \notin overtaken
                          /\ requests[r].event = "import" => HasPlan(w, r, "library_imported")'
        OBVIOUS
      <4>1. t.status = "completed" /\ requests[r].status = "completed" /\ requests[r].event = t.event
            /\ r \notin overtaken
        BY <3>3, <3>7 DEF TerminalOK
      <4>2. ASSUME t.event = "import" PROVE HasPlan(w, r, "library_imported")'
        BY <3>2, <3>5, <3>7, <4>1, <4>2 DEF PlansFit
      <4> QED  BY <4>1, <4>2
    <3> QED  BY <1>2, <3>8, <3>9 DEF Settled, Terminal, Firm
  <2> QED  BY <2>1, <2>2
<1> QED  BY <1>4, <1>5, <1>6 DEF PassOK

\* Staging the head of the plans leaves the rest of them.
LEMMA TailPlans ==
    ASSUME Typed, PassInv, NEW w \in Workers, StagePlan(w)
    PROVE  LET h == Head(pass[w].plans) IN
           \A r, e : HasPlan(w, r, e) <=> (h = <<r, e>> \/ HasPlan(w, r, e)')
<1> DEFINE s == pass[w].plans
<1>1. s \in Seq(Plan) /\ s # <<>> /\ pass'[w].plans = Tail(s)
  BY PassTyped, StageTurns DEF Turns
<1>2. /\ Head(s) = s[1] /\ DOMAIN s = 1..Len(s) /\ Len(s) \in Nat /\ Len(s) >= 1
      /\ DOMAIN Tail(s) = 1..(Len(s) - 1)
      /\ \A k \in 1..(Len(s) - 1) : Tail(s)[k] = s[k + 1]
  BY <1>1
<1>3. \A x : (\E k \in DOMAIN s : s[k] = x) <=> (Head(s) = x \/ \E k \in DOMAIN Tail(s) : Tail(s)[k] = x)
  <2> SUFFICES ASSUME NEW x
               PROVE  (\E k \in DOMAIN s : s[k] = x)
                      <=> (Head(s) = x \/ \E k \in DOMAIN Tail(s) : Tail(s)[k] = x)
    OBVIOUS
  <2>1. ASSUME NEW k \in DOMAIN s, s[k] = x
        PROVE  Head(s) = x \/ \E j \in DOMAIN Tail(s) : Tail(s)[j] = x
    <3>1. CASE k = 1
      BY <1>2, <2>1, <3>1
    <3>2. CASE k # 1
      <4>1. k - 1 \in DOMAIN Tail(s) /\ Tail(s)[k - 1] = s[k]
        BY <1>2, <3>2
      <4> QED  BY <2>1, <4>1
    <3> QED  BY <3>1, <3>2
  <2>2. Head(s) = x => \E k \in DOMAIN s : s[k] = x
    BY <1>2
  <2>3. ASSUME NEW k \in DOMAIN Tail(s), Tail(s)[k] = x PROVE \E j \in DOMAIN s : s[j] = x
    <3>1. k + 1 \in DOMAIN s /\ s[k + 1] = x
      BY <1>2, <2>3
    <3> QED  BY <3>1
  <2> QED  BY <2>1, <2>2, <2>3
<1>4. \A r, e : HasPlan(w, r, e) <=> \E k \in DOMAIN s : s[k] = <<r, e>>
  BY DEF HasPlan
<1>5. \A r, e : HasPlan(w, r, e)' <=> \E k \in DOMAIN Tail(s) : Tail(s)[k] = <<r, e>>
  BY <1>1 DEF HasPlan
<1> HIDE DEF s
<1>6. \A r, e : HasPlan(w, r, e) <=> (Head(s) = <<r, e>> \/ HasPlan(w, r, e)')
  BY <1>3, <1>4, <1>5
<1> QED  BY <1>6 DEF s

LEMMA StagePassOK ==
    ASSUME Typed, PassInv, NEW w \in Workers, StagePlan(w), \A r \in Requests : Firm(r)
    PROVE  PassOK(w)'
<1>1. /\ pass[w].pc = "check"
      /\ Turns(w, "check", pass[w].terminals, Tail(pass[w].plans), pass[w].ids, pass[w].batch)
  BY StageTurns
<1>2. lock' = lock /\ requests' = requests /\ retry' = retry
  BY DEF StagePlan, rows
<1>3. PassOK(w)
  BY PassParts
<1>4. LockOK(w)' /\ PhaseOK(w)'
  BY <1>1, <1>2, <1>3 DEF Turns, PassOK, LockOK, PhaseOK
<1>5. (\A x \in pass[w].terminals : TerminalOK(x))'
  BY <1>1, TerminalsKept DEF Turns
<1>6. ASSUME NEW r \in Requests, NEW e \in Events PROVE PlanOK(w, r, e)'
  <2> DEFINE h == Head(pass[w].plans)
  <2>1. h \in Plan /\ Stages(h[1], h[2]) /\ Keeps
    BY PlanStep
  <2>2. \A q, x : HasPlan(w, q, x) <=> (h = <<q, x>> \/ HasPlan(w, q, x)')
    BY TailPlans
  <2>3. PlanOK(w, r, e) /\ PlanOK(w, r, "library_imported")
    BY <1>3, EventsAre DEF PassOK
  <2> HIDE DEF h
  <2>4. ASSUME HasPlan(w, r, "library_imported")
        PROVE  "library_imported" \in Staged(r)' \/ HasPlan(w, r, "library_imported")'
    <3>1. CASE h = <<r, "library_imported">>
      <4>1. "library_imported" \in Staged(r)'
        BY <2>1, <3>1, StagesKeeps
      <4> QED  BY <4>1
    <3> QED  BY <2>2, <2>4, <3>1
  <2>5. ASSUME "library_imported" \in Staged(r) PROVE "library_imported" \in Staged(r)'
    BY <2>1, <2>5 DEF Keeps
  <2> QED  BY <1>2, <2>2, <2>3, <2>4, <2>5 DEF PlanOK, Settled, Terminal, Firm
<1> QED  BY <1>4, <1>5, <1>6 DEF PassOK

\* A pass that sends has neither terminal rows nor plans left.
LEMMA SendPassOK ==
    ASSUME Typed, PassInv, NEW w \in Workers, NEW pc \in {"send", "mark"}, NEW ids, NEW batch,
           pass[w].pc # "idle", pass[w].terminals = {}, pass[w].plans = <<>>,
           Turns(w, pc, {}, <<>>, ids, batch), lock' = lock
    PROVE  PassOK(w)'
<1>1. LockOK(w)
  BY PassParts DEF PassOK
<1>2. LockOK(w)' /\ PhaseOK(w)'
  BY <1>1 DEF Turns, LockOK, PhaseOK
<1>3. \A r, e : PlanOK(w, r, e)'
  BY NoPlans DEF Turns
<1> QED  BY <1>2, <1>3 DEF PassOK, Turns

LEMMA IdlePassOK ==
    ASSUME NEW w \in Workers, lock' = NoWorker, pass'[w].pc = "idle", pass'[w].terminals = {},
           pass'[w].plans = <<>>, pass'[w].batch = {}
    PROVE  PassOK(w)'
<1>1. LockOK(w)' /\ PhaseOK(w)'
  BY LockAssumption DEF LockOK, PhaseOK
<1>2. \A r, e : PlanOK(w, r, e)'
  BY NoPlans
<1> QED  BY <1>1, <1>2 DEF PassOK

LEMMA PassInvStep ==
    ASSUME Typed, RowInv, LateInv, PassInv, [Next]_vars
    PROVE  PassInv'
<1>0. Keeps /\ \A r \in Requests : Firm(r)
  BY OutboxStep, RowStep
<1> SUFFICES ASSUME NEW v \in Workers PROVE PassOK(v)'
  BY PassPartsNext
<1>1. ASSUME pass'[v] = pass[v], lock' = v <=> lock = v PROVE PassOK(v)'
  BY <1>0, <1>1, PassKept
<1>2. CASE UNCHANGED vars
  BY <1>1, <1>2 DEF vars
<1>3. CASE \E r \in Requests : Lifecycle(r)
  <2>1. pass' = pass /\ lock' = lock
    BY <1>3 DEF Lifecycle, IntakeAnswers, IntakeMisses, StageReply, SeeVisible, RecordProgress,
         StageAttention, Completes, ImportFails, ClaimRetry, RetryHandsOff, RetryMisses, huey
  <2> QED  BY <1>1, <2>1
<1>4. CASE \E w \in Workers : PassStep(w) \/ PassRaises(w)
  <2> PICK w \in Workers : PassStep(w) \/ PassRaises(w)
    BY <1>4
  <2>1. CASE BeginPass(w)
    <3>1. CASE v = w
      BY <1>0, <2>1, <3>1, BeginPassOK
    <3>2. CASE v # w
      <4>1. lock = NoWorker /\ lock' = w /\ pass'[v] = pass[v]
        BY <2>1, <3>2, BeginTurns DEF BeginPass, LockFree, Turns
      <4> QED  BY <1>1, <3>2, <4>1, LockAssumption
    <3> QED  BY <3>1, <3>2
  <2>2. CASE CheckTerminal(w)
    <3>1. CASE v = w
      BY <1>0, <2>2, <3>1, CheckPassOK
    <3>2. CASE v # w
      <4>1. lock' = lock /\ pass'[v] = pass[v]
        BY <2>2, <3>2, CheckTurns DEF CheckTerminal, Turns
      <4> QED  BY <1>1, <4>1
    <3> QED  BY <3>1, <3>2
  <2>3. CASE StagePlan(w)
    <3>1. CASE v = w
      BY <1>0, <2>3, <3>1, StagePassOK
    <3>2. CASE v # w
      <4>1. lock' = lock /\ pass'[v] = pass[v]
        BY <2>3, <3>2, StageTurns DEF StagePlan, Turns
      <4> QED  BY <1>1, <4>1
    <3> QED  BY <3>1, <3>2
  <2>4. ASSUME NEW pc \in {"send", "mark"}, NEW ids, NEW batch, pass[w].pc # "idle",
               pass[w].terminals = {}, pass[w].plans = <<>>, lock' = lock,
               Turns(w, pc, {}, <<>>, ids, batch)
        PROVE  PassOK(v)'
    <3>1. CASE v = w
      BY <2>4, <3>1, SendPassOK
    <3>2. CASE v # w
      BY <1>1, <2>4, <3>2 DEF Turns
    <3> QED  BY <3>1, <3>2
  <2>5. ASSUME pass[w].pc \in {"send", "mark"} PROVE pass[w].terminals = {} /\ pass[w].plans = <<>>
    BY <2>5, PassParts DEF PassOK, PhaseOK
  <2>6. CASE ReadPending(w)
    <3>1. lock' = lock
      BY <2>6 DEF ReadPending
    <3> QED  BY <2>4, <2>6, <3>1, ReadTurns
  <2>7. CASE SendSucceeds(w)
    <3>1. lock' = lock
      BY <2>7 DEF SendSucceeds
    <3> QED  BY <2>4, <2>5, <2>7, <3>1, SucceedsTurns
  <2>8. CASE SendFails(w)
    <3>1. lock' = lock
      BY <2>8 DEF SendFails
    <3>2. pass[w].pc = "send" /\ \E B : Turns(w, "send", pass[w].terminals, pass[w].plans, pass[w].ids, B)
      BY <2>8, FailsTurns
    <3> QED  BY <2>4, <2>5, <3>1, <3>2
  <2>9. CASE MarkDelivered(w)
    <3>1. lock' = lock
      BY <2>9 DEF MarkDelivered
    <3>2. pass[w].pc = "mark" /\ \E B : Turns(w, "send", pass[w].terminals, pass[w].plans, pass[w].ids, B)
      BY <2>9, MarkTurns
    <3> QED  BY <2>4, <2>5, <3>1, <3>2
  <2>10. CASE Finalize(w)
    <3>1. lock' = lock
      BY <2>10 DEF Finalize
    <3>2. pass[w].pc = "send" /\ \E J : Turns(w, "send", pass[w].terminals, pass[w].plans, J, {})
      BY <2>10, FinalizeTurns
    <3> QED  BY <2>4, <2>5, <3>1, <3>2
  <2>11. CASE EndPass(w) \/ PassRaises(w)
    <3>1. pass' = [pass EXCEPT ![w] = Idle] /\ lock' = NoWorker /\ pass[w].pc # "idle"
      BY <2>11 DEF EndPass, PassRaises
    <3>2. Turns(w, "idle", {}, <<>>, {}, {})
      BY <3>1, IdleTurns
    <3>3. CASE v = w
      BY <3>1, <3>2, <3>3, IdlePassOK DEF Turns
    <3>4. CASE v # w
      <4>1. lock # v /\ lock' # v /\ pass'[v] = pass[v]
        BY <3>1, <3>2, <3>4, Alone, LockAssumption DEF Turns
      <4> QED  BY <1>1, <4>1
    <3> QED  BY <3>3, <3>4
  <2> QED
    BY <2>1, <2>2, <2>3, <2>6, <2>7, <2>8, <2>9, <2>10, <2>11 DEF PassStep
<1>5. CASE Restart
  <2>1. lock' = NoWorker
    BY <1>5 DEF Restart
  <2> QED  BY <1>5, <2>1, RestartIdles, IdlePassOK
<1>6. CASE \E r \in Requests : BookBot(r)
  BY <1>1, <1>6, BookBotOnlyWrites
<1> QED  BY <1>2, <1>3, <1>4, <1>5, <1>6 DEF Next

-----------------------------------------------------------------------------
(* What is staged                                                          *)

StageOK(r) ==
    /\ retry[r].state # "none" =>
         /\ "request_failed" \in Staged(r)
         /\ \A k \in DOMAIN reply[r] : reply[r][k] = "request_failed"
    /\ \A k \in DOMAIN reply[r] : reply[r][k] = "request_completed" =>
         requests[r].status = "completed" /\ requests[r].event = "handler"
    /\ "request_completed" \in Staged(r) =>
         requests[r].status = "completed" /\ r \notin overtaken
    /\ r \in seen => retry[r].state = "none" /\ requests[r].status # "processing"

\* A step that starts no retry, answers nothing and stages no completion of its
\* own leaves the staging of a request as it must be.
LEMMA StageKept ==
    ASSUME Typed, Keeps, NEW r \in Requests, StageOK(r), Firm(r), Goes(r),
           \A k \in DOMAIN reply'[r] : \E j \in DOMAIN reply[r] : reply'[r][k] = reply[r][j],
           "request_completed" \in Staged(r)' =>
             \/ "request_completed" \in Staged(r)
             \/ requests[r].status = "completed" /\ r \notin overtaken,
           r \in seen' => r \in seen
    PROVE  StageOK(r)'
<1>1. retry'[r].state # "none" => retry[r].state # "none"
  BY DEF Goes, Stays, Answered, Imported, NotImported, Claimed, HandedOff, MissedAgain, Orphaned,
         Marked, Becomes, RetryIsSilent, SilentStates
<1>2. retry[r].state = "none" /\ requests[r].status # "processing" =>
        requests'[r].status # "processing"
  BY DEF Goes, Stays, Answered, Imported, NotImported, Claimed, HandedOff, MissedAgain, Orphaned,
         Marked, Becomes
<1>3. retry[r].state # "none" => retry'[r].state # "none"
  BY DEF Firm
<1>4. retry'[r].state # "none" =>
         /\ "request_failed" \in Staged(r)'
         /\ \A k \in DOMAIN reply'[r] : reply'[r][k] = "request_failed"
  BY <1>1 DEF StageOK, Keeps
<1>5. \A k \in DOMAIN reply'[r] : reply'[r][k] = "request_completed" =>
         requests'[r].status = "completed" /\ requests'[r].event = "handler"
  BY DEF StageOK, Firm
<1>6. "request_completed" \in Staged(r)' => requests'[r].status = "completed" /\ r \notin overtaken'
  BY DEF StageOK, Firm
<1>7. r \in seen' => retry'[r].state = "none" /\ requests'[r].status # "processing"
  BY <1>1, <1>2 DEF StageOK
<1> QED  BY <1>4, <1>5, <1>6, <1>7 DEF StageOK

\* The same for a request that the step does not name.
LEMMA StageOther ==
    ASSUME Typed, Keeps, NEW r \in Requests, StageOK(r), Firm(r), Goes(r),
           reply'[r] = reply[r] \/ reply'[r] = <<>>, \A e : e \in Staged(r)' => e \in Staged(r),
           r \in seen' => r \in seen
    PROVE  StageOK(r)'
BY StageKept

LEMMA StageParts == StageInv <=> \A r \in Requests : StageOK(r)
BY DEF StageInv, StageOK

LEMMA StagePartsNext == (StageInv <=> \A r \in Requests : StageOK(r))'
BY StageParts, PTL

\* Completed by its handler, failed, or handed over: the answer says which.
LEMMA AnswersStageOK ==
    ASSUME Typed, RowInv, StageInv, NEW r \in Requests, IntakeAnswers(r)
    PROVE  StageOK(r)'
<1>1. PICK s \in {"queued", "completed", "failed"} :
        /\ requests' = [requests EXCEPT ![r].status = s,
                            ![r].event = IF s = "queued" THEN "none" ELSE "handler"]
        /\ reply' = [reply EXCEPT ![r] = ResponsePlans(s)]
  BY DEF IntakeAnswers
<1>2. /\ requests[r].status = "processing" /\ retry[r].state = "none" /\ retry' = retry
      /\ outbox' = outbox /\ seen' = seen
  BY DEF IntakeAnswers
<1>3. requests'[r].status = s /\ requests'[r].event = (IF s = "queued" THEN "none" ELSE "handler")
  BY <1>1, RowsTyped DEF RequestRow
<1>4. reply'[r] = ResponsePlans(s)
  BY <1>1 DEF Typed, TypeOK
<1>5. \A k \in DOMAIN ResponsePlans(s) : ResponsePlans(s)[k] = "request_completed" => s = "completed"
  <2>1. CASE s = "queued"
    <3>1. ResponsePlans(s) = <<"request_accepted", "download_queued">>
      BY <2>1 DEF ResponsePlans
    <3> QED  BY <3>1
  <2>2. CASE s = "failed"
    <3>1. ResponsePlans(s) = <<"request_failed">>
      BY <2>2 DEF ResponsePlans
    <3> QED  BY <3>1
  <2> QED  BY <2>1, <2>2
<1>6. "request_completed" \notin Staged(r)' /\ r \notin seen'
  BY <1>2, SameKeeps, StageParts DEF StageOK
<1> QED  BY <1>2, <1>3, <1>4, <1>5, <1>6 DEF StageOK

LEMMA MissesStageOK ==
    ASSUME Typed, RowInv, StageInv, NEW r \in Requests, IntakeMisses(r)
    PROVE  StageOK(r)'
<1>1. /\ requests[r].status = "processing" /\ outbox' = Enqueued(r, "request_failed") /\ seen' = seen
      /\ reply' = [reply EXCEPT ![r] = ResponsePlans("failed")]
  BY DEF IntakeMisses
<1>2. ResponsePlans("failed") = <<"request_failed">>
  BY DEF ResponsePlans
<1>3. \A k \in DOMAIN reply'[r] : reply'[r][k] = "request_failed"
  BY <1>1, <1>2 DEF Typed, TypeOK
<1>4. Stages(r, "request_failed")
  BY <1>1, EnqueueStep, EventsIn
<1>5. "request_failed" \in Staged(r)' /\ "request_completed" \notin Staged(r)'
  BY <1>1, <1>4, StagesKeeps, StageParts DEF StageOK
<1>6. r \notin seen'
  BY <1>1, StageParts DEF StageOK
<1> QED  BY <1>3, <1>5, <1>6 DEF StageOK

LEMMA StageInvStep ==
    ASSUME Typed, RowInv, LateInv, PassInv, StageInv, [Next]_vars
    PROVE  StageInv'
<1>0. Keeps /\ \A q \in Requests : Firm(q) /\ StageOK(q)
  BY OutboxStep, RowStep, StageParts
<1> SUFFICES ASSUME NEW q \in Requests PROVE StageOK(q)'
  BY StagePartsNext
<1>1. ASSUME Goes(q), outbox' = outbox, reply'[q] = reply[q] \/ reply'[q] = <<>>,
             q \in seen' => q \in seen
      PROVE  StageOK(q)'
  BY <1>0, <1>1, SameKeeps, StageOther
<1>2. ASSUME NEW o, NEW e, Stages(o, e), Stays(q), q = o => e # "request_completed",
             reply'[q] = reply[q], q \in seen' => q \in seen
      PROVE  StageOK(q)'
  <2>1. \A x : x \in Staged(q)' => x \in Staged(q) \/ (q = o /\ x = e)
    BY <1>2, StagesKeeps
  <2>2. "request_completed" \in Staged(q)' => "request_completed" \in Staged(q)
    BY <1>2, <2>1
  <2> QED  BY <1>0, <1>2, <2>2, StageKept DEF Goes
<1>3. ASSUME UNCHANGED rows PROVE Stays(q)
  BY <1>3 DEF Stays, rows
<1>4. CASE UNCHANGED vars
  BY <1>1, <1>3, <1>4 DEF vars, rows, Goes
<1>5. CASE \E r \in Requests : Lifecycle(r)
  <2> PICK r \in Requests : Lifecycle(r)
    BY <1>5
  <2>1. CASE IntakeAnswers(r)
    <3>1. CASE q = r
      BY <2>1, <3>1, AnswersStageOK
    <3>2. CASE q # r
      <4>1. outbox' = outbox /\ reply'[q] = reply[q] /\ seen' = seen
        BY <2>1, <3>2 DEF IntakeAnswers, Typed, TypeOK
      <4> QED  BY <1>1, <2>1, <3>2, <4>1, AnswersFate DEF Goes
    <3> QED  BY <3>1, <3>2
  <2>2. CASE IntakeMisses(r)
    <3>1. CASE q = r
      BY <2>2, <3>1, MissesStageOK
    <3>2. CASE q # r
      <4>1. outbox' = Enqueued(r, "request_failed") /\ reply'[q] = reply[q] /\ seen' = seen
        BY <2>2, <3>2 DEF IntakeMisses, Typed, TypeOK
      <4>2. Stages(r, "request_failed")
        BY <4>1, EnqueueStep, EventsIn
      <4> QED  BY <1>2, <2>2, <3>2, <4>1, <4>2, MissesFate
    <3> QED  BY <3>1, <3>2
  <2>3. CASE StageReply(r)
    <3>1. /\ reply[r] # <<>> /\ Stages(r, Head(reply[r])) /\ reply' = [reply EXCEPT ![r] = Tail(@)]
          /\ seen' = seen /\ Stays(q) /\ reply[r] \in Seq(Events)
      BY <1>3, <2>3, RepliesStep, EventsIn DEF StageReply, rows
    <3>2. CASE q = r
      <4>1. reply'[q] = Tail(reply[q])
        BY <3>1, <3>2 DEF Typed, TypeOK
      <4>2. /\ \A k \in DOMAIN Tail(reply[q]) : \E j \in DOMAIN reply[q] : Tail(reply[q])[k] = reply[q][j]
            /\ \E j \in DOMAIN reply[q] : Head(reply[q]) = reply[q][j]
        <5> DEFINE s == reply[q]
        <5>1. s \in Seq(Events) /\ s # <<>>
          BY <3>1, <3>2
        <5> HIDE DEF s
        <5>2. /\ Head(s) = s[1] /\ DOMAIN s = 1..Len(s) /\ Len(s) \in Nat /\ Len(s) >= 1
              /\ DOMAIN Tail(s) = 1..(Len(s) - 1)
              /\ \A k \in 1..(Len(s) - 1) : Tail(s)[k] = s[k + 1]
          BY <5>1
        <5>3. ASSUME NEW k \in DOMAIN Tail(s) PROVE \E j \in DOMAIN s : Tail(s)[k] = s[j]
          <6>1. k + 1 \in DOMAIN s /\ Tail(s)[k] = s[k + 1]
            BY <5>2
          <6> QED  BY <6>1
        <5>4. 1 \in DOMAIN s /\ Head(s) = s[1]
          BY <5>2
        <5>5. \A k \in DOMAIN Tail(s) : \E j \in DOMAIN s : Tail(s)[k] = s[j]
          BY <5>3
        <5> QED  BY <5>4, <5>5 DEF s
      <4>3. Head(reply[q]) = "request_completed" => requests[q].status = "completed" /\ q \notin overtaken
        BY <1>0, <4>2 DEF StageOK, LateInv
      <4>4. "request_completed" \in Staged(q)' =>
              \/ "request_completed" \in Staged(q)
              \/ requests[q].status = "completed" /\ q \notin overtaken
        BY <3>1, <3>2, <4>3, StagesKeeps
      <4> QED  BY <1>0, <3>1, <4>1, <4>2, <4>4, StageKept DEF Goes
    <3>3. CASE q # r
      <4>1. reply'[q] = reply[q]
        BY <3>1, <3>3 DEF Typed, TypeOK
      <4> QED  BY <1>2, <3>1, <3>3, <4>1
    <3> QED  BY <3>2, <3>3
  <2>4. CASE SeeVisible(r)
    <3>1. requests' = requests /\ retry' = retry /\ outbox' = outbox /\ reply' = reply
          /\ seen' = seen \cup {r}
      BY <2>4 DEF SeeVisible
    <3>2. CASE q = r
      <4>1. retry[q].state = "none" /\ requests[q].status = "queued"
        BY <2>4, <3>2 DEF SeeVisible, RowInv, RetryIsSilent, SilentStates
      <4> QED  BY <1>0, <3>1, <4>1, SameKeeps DEF StageOK
    <3>3. CASE q # r
      BY <1>1, <1>3, <3>1, <3>3 DEF Goes, rows
    <3> QED  BY <3>2, <3>3
  <2>5. CASE RecordProgress(r)
    <3>1. Stays(q) /\ reply' = reply /\ seen' = seen \ {r}
      BY <1>3, <2>5 DEF RecordProgress, rows
    <3>2. outbox' = outbox \/ Stages(r, "download_active")
      BY <2>5, ProgressStep
    <3> QED  BY <1>1, <1>2, <3>1, <3>2 DEF Goes
  <2>6. CASE StageAttention(r)
    <3>1. Stays(q) /\ reply' = reply /\ seen' = seen \ {r}
          /\ outbox' = Enqueued(r, "submission_uncertain")
      BY <1>3, <2>6 DEF StageAttention, rows
    <3>2. Stages(r, "submission_uncertain")
      BY <3>1, EnqueueStep, EventsIn
    <3> QED  BY <1>2, <3>1, <3>2
  <2>7. CASE Completes(r) \/ ImportFails(r) \/ ClaimRetry(r) \/ RetryHandsOff(r) \/ RetryMisses(r)
    <3>1. Goes(q)
      BY <2>7, CompletesFate, ImportFailsFate, ClaimFate, HandsOffFate, RetryMissesFate DEF Goes
    <3>2. outbox' = outbox /\ reply' = reply /\ seen' = seen
      BY <2>7 DEF Completes, ImportFails, ClaimRetry, RetryHandsOff, RetryMisses, huey
    <3> QED  BY <1>1, <3>1, <3>2
  <2> QED  BY <2>1, <2>2, <2>3, <2>4, <2>5, <2>6, <2>7 DEF Lifecycle
<1>6. CASE \E w \in Workers : PassStep(w) \/ PassRaises(w)
  <2> PICK w \in Workers : PassStep(w) \/ PassRaises(w)
    BY <1>6
  <2>1. CASE StagePlan(w)
    <3> DEFINE h == Head(pass[w].plans)
    <3>1. Stays(q) /\ reply' = reply /\ seen' = seen
      BY <1>3, <2>1 DEF StagePlan, rows
    <3>2. h \in Plan /\ Stages(h[1], h[2])
      BY <2>1, PlanStep
    <3>3. h = <<q, "request_completed">> => requests[q].status = "completed" /\ q \notin overtaken
      <4>1. h = <<q, "request_completed">> => HasPlan(w, q, "request_completed")
        BY <2>1, TailPlans
      <4>2. PlanOK(w, q, "request_completed")
        BY PassParts, EventsAre DEF PassOK
      <4> QED  BY <4>1, <4>2 DEF PlanOK
    <3> HIDE DEF h
    <3>4. h = <<h[1], h[2]>>
      BY <3>2 DEF Plan
    <3>5. "request_completed" \in Staged(q)' =>
            \/ "request_completed" \in Staged(q)
            \/ requests[q].status = "completed" /\ q \notin overtaken
      BY <3>2, <3>3, <3>4, StagesKeeps
    <3> QED  BY <1>0, <3>1, <3>5, StageKept DEF Goes
  <2>2. CASE SendSucceeds(w) \/ MarkDelivered(w)
    <3>1. Stays(q) /\ reply' = reply /\ seen' = seen
      BY <1>3, <2>2 DEF SendSucceeds, MarkDelivered, rows
    <3>2. \A x : x \in Staged(q)' => x \in Staged(q)
      BY <2>2, SucceedsTurns, MarkTurns, TouchesKeeps
    <3> QED  BY <1>0, <3>1, <3>2, StageOther DEF Goes
  <2>3. CASE SendFails(w)
    <3>1. Stays(q) /\ reply' = reply /\ seen' = seen
      BY <1>3, <2>3 DEF SendFails, rows
    <3>2. outbox' = outbox \/ \E i : Touches(i, [outbox[i] EXCEPT !.sent = @ + 1])
      BY <2>3, FailsTurns
    <3>3. \A x : x \in Staged(q)' => x \in Staged(q)
      BY <3>2, SameKeeps, TouchesKeeps
    <3> QED  BY <1>0, <3>1, <3>3, StageOther DEF Goes
  <2>4. CASE Finalize(w)
    <3>1. outbox' = outbox /\ reply' = reply /\ seen' = seen
      BY <2>4 DEF Finalize
    <3> QED  BY <1>1, <2>4, <3>1, FinalizeFate DEF Goes
  <2>5. CASE BeginPass(w) \/ CheckTerminal(w) \/ ReadPending(w) \/ EndPass(w) \/ PassRaises(w)
    <3>1. Stays(q) /\ outbox' = outbox /\ reply' = reply /\ seen' = seen
      BY <1>3, <2>5 DEF BeginPass, CheckTerminal, ReadPending, EndPass, PassRaises, rows
    <3> QED  BY <1>1, <3>1 DEF Goes
  <2> QED  BY <2>1, <2>2, <2>3, <2>4, <2>5 DEF PassStep
<1>7. CASE Restart
  <2>1. outbox' = outbox /\ reply'[q] = <<>> /\ seen' = {}
    BY <1>7 DEF Restart
  <2> QED  BY <1>1, <1>7, <2>1, RestartFate DEF Goes
<1>8. CASE \E r \in Requests : BookBot(r)
  <2> PICK r \in Requests : BookBot(r)
    BY <1>8
  <2>1. outbox' = outbox /\ reply' = reply /\ seen' = seen
    BY BookBotOnlyWrites
  <2>2. CASE BookBotWrites(r)
    <3>1. Goes(q)
      BY <2>2, BookBotFate DEF Goes
    <3> QED  BY <1>1, <2>1, <3>1
  <2>3. CASE BookBotReads(r) \/ BookBotSkips(r)
    <3>1. Stays(q)
      BY <1>3, <2>3 DEF BookBotReads, BookBotSkips
    <3> QED  BY <1>1, <2>1, <3>1 DEF Goes
  <2> QED  BY <2>2, <2>3 DEF BookBot
<1> QED  BY <1>4, <1>5, <1>6, <1>7, <1>8 DEF Next

-----------------------------------------------------------------------------
(* Imports                                                                 *)

HalfTold(r) ==
    /\ requests[r].status = "completed" /\ requests[r].event = "import"
    /\ "request_completed" \in Staged(r) /\ "library_imported" \notin Staged(r)

Covers(w, r) == pass[w].pc = "idle" \/ (pass[w].pc = "check" /\ Owes(w, r))

ImportOK(r) == HalfTold(r) => \A w \in Workers : Covers(w, r)

LEMMA ImportParts == ImportInv <=> \A r \in Requests : ImportOK(r)
BY DEF ImportInv, ImportOK, HalfTold, Covers

LEMMA ImportPartsNext == (ImportInv <=> \A r \in Requests : ImportOK(r))'
BY ImportParts, PTL

\* A request is left with half its notices only by the pass that stages them.
LEMMA HalfToldBefore ==
    ASSUME NEW r \in Requests, Keeps, Firm(r), StageOK(r), HalfTold(r)',
           "request_completed" \in Staged(r)' =>
             "request_completed" \in Staged(r) \/
             (requests[r].status = "completed" /\ requests[r].event # "import")
    PROVE  HalfTold(r)
BY DEF HalfTold, Keeps, Firm, StageOK

LEMMA CoversKept ==
    ASSUME NEW w \in Workers, NEW r, Covers(w, r), pass'[w] = pass[w]
    PROVE  Covers(w, r)'
BY DEF Covers, Owes, HasPlan

LEMMA ImportKept ==
    ASSUME NEW r \in Requests, Keeps, Firm(r), StageOK(r), ImportOK(r),
           "request_completed" \in Staged(r)' =>
             "request_completed" \in Staged(r) \/
             (requests[r].status = "completed" /\ requests[r].event # "import"),
           \A w \in Workers : pass'[w] = pass[w] \/ pass'[w].pc = "idle"
    PROVE  ImportOK(r)'
<1> SUFFICES ASSUME HalfTold(r)', NEW w \in Workers PROVE Covers(w, r)'
  BY DEF ImportOK
<1>1. Covers(w, r)
  BY HalfToldBefore DEF ImportOK
<1>2. CASE pass'[w] = pass[w]
  BY <1>1, <1>2, CoversKept
<1>3. CASE pass'[w].pc = "idle"
  BY <1>3 DEF Covers
<1> QED  BY <1>2, <1>3

\* A pass starts with every completed request that is not marked.
LEMMA BeginImportOK ==
    ASSUME Typed, PassInv, StageInv, NotifiedInv, NEW w \in Workers, BeginPass(w),
           NEW r \in Requests, ImportOK(r)
    PROVE  ImportOK(r)'
<1> SUFFICES ASSUME HalfTold(r)', NEW v \in Workers PROVE Covers(v, r)'
  BY DEF ImportOK
<1>1. Turns(w, "check", Unmarked, <<>>, {}, {}) /\ outbox' = outbox
      /\ requests' = requests /\ lock = NoWorker
  BY BeginTurns DEF BeginPass, LockFree, rows
<1>2. HalfTold(r)
  BY <1>1, SameKeeps DEF HalfTold
<1>3. CASE v # w
  <2>1. pass'[v] = pass[v] /\ pass[v].pc = "idle"
    BY <1>1, <1>3, NobodyWorks DEF Turns
  <2> QED  BY <2>1 DEF Covers
<1>4. CASE v = w
  <2>1. ~requests[r].notified
    <3>1. ~Delivered(r, "library_imported")
      BY <1>2, StagedMeans DEF HalfTold, Delivered
    <3>2. r \notin overtaken
      BY <1>2 DEF HalfTold, StageInv
    <3> QED  BY <1>2, <3>1, <3>2 DEF NotifiedInv, HalfTold
  <2> DEFINE t == [id |-> r, status |-> requests[r].status, event |-> requests[r].event]
  <2>2. t \in Unmarked
    BY <1>2, <2>1 DEF Unmarked, HalfTold, Terminal
  <2>3. t.id = r /\ t.status = "completed" /\ t.event = "import"
    BY <1>2 DEF HalfTold
  <2> HIDE DEF t
  <2> QED  BY <1>1, <1>4, <2>2, <2>3 DEF Covers, Owes, Turns
<1> QED  BY <1>3, <1>4

\* Reading a terminal row turns what is owed into plans.
LEMMA CheckImportOK ==
    ASSUME Typed, RowInv, PassInv, NEW w \in Workers, CheckTerminal(w),
           NEW r \in Requests, ImportOK(r)
    PROVE  ImportOK(r)'
<1> SUFFICES ASSUME HalfTold(r)', NEW v \in Workers PROVE Covers(v, r)'
  BY DEF ImportOK
<1>1. PICK t \in pass[w].terminals :
                Turns(w, "check", pass[w].terminals \ {t},
                      IF RetryIsSilent(t.id) THEN <<>> ELSE Plans(t),
                      IF RetryIsSilent(t.id) THEN pass[w].ids ELSE pass[w].ids \cup {t.id},
                      pass[w].batch)
  BY CheckTurns
<1>2. /\ pass[w].pc = "check" /\ pass[w].plans = <<>> /\ requests' = requests /\ outbox' = outbox
  BY DEF CheckTerminal, rows
<1>3. HalfTold(r)
  BY <1>2, SameKeeps DEF HalfTold
<1>4. Covers(v, r)
  BY <1>3 DEF ImportOK
<1>5. CASE v # w
  BY <1>1, <1>4, <1>5, CoversKept DEF Turns
<1>6. CASE v = w
  <2>1. ~HasPlan(w, r, "library_imported")
    BY <1>2 DEF HasPlan
  <2>2. PICK u \in pass[w].terminals : u.id = r /\ u.status = "completed" /\ u.event = "import"
    BY <1>2, <1>4, <1>6, <2>1 DEF Covers, Owes
  <2>3. CASE u # t
    BY <1>1, <1>6, <2>2, <2>3 DEF Covers, Owes, Turns
  <2>4. CASE u = t
    <3>1. ~RetryIsSilent(r)
      BY <1>3 DEF RowInv, HalfTold, RetryIsSilent, SilentStates
    <3>2. t \in TerminalRow /\ pass'[w].plans = Plans(t) /\ pass'[w].pc = "check"
      BY <1>1, <2>2, <2>4, <3>1, PassTyped DEF Turns
    <3>3. \E k \in DOMAIN Plans(t) : Plans(t)[k] = <<r, "library_imported">>
      BY <2>2, <2>4, <3>2, PlansTyped DEF PlansFit
    <3> QED  BY <1>6, <3>2, <3>3 DEF Covers, Owes, HasPlan
  <2> QED  BY <2>3, <2>4
<1> QED  BY <1>5, <1>6

\* The first notice of an import is staged by a pass that has the second in hand.
LEMMA PlanImportOK ==
    ASSUME Typed, PassInv, NEW w \in Workers, StagePlan(w), NEW r \in Requests, ImportOK(r)
    PROVE  ImportOK(r)'
<1> SUFFICES ASSUME HalfTold(r)', NEW v \in Workers PROVE Covers(v, r)'
  BY DEF ImportOK
<1> DEFINE h == Head(pass[w].plans)
<1>1. /\ pass[w].pc = "check"
      /\ Turns(w, "check", pass[w].terminals, Tail(pass[w].plans), pass[w].ids, pass[w].batch)
  BY StageTurns
<1>2. h \in Plan /\ Stages(h[1], h[2])
  BY PlanStep
<1>3. requests' = requests
  BY DEF StagePlan, rows
<1>4. \A q, x : HasPlan(w, q, x) <=> (h = <<q, x>> \/ HasPlan(w, q, x)')
  BY TailPlans
<1>5. PlanOK(w, r, "request_completed")
  BY PassParts, EventsAre DEF PassOK
<1> HIDE DEF h
<1>6. h = <<h[1], h[2]>>
  BY <1>2 DEF Plan
<1>7. h # <<r, "library_imported">>
  BY <1>2, <1>6, StagesKeeps DEF HalfTold
<1>8. /\ requests[r].status = "completed" /\ requests[r].event = "import"
      /\ "library_imported" \notin Staged(r)
  BY <1>2, <1>3, StagesKeeps DEF HalfTold
<1>9. CASE v # w
  <2>1. pass'[v] = pass[v] /\ pass[v].pc = "idle"
    BY <1>1, <1>9, Alone DEF Turns
  <2> QED  BY <2>1 DEF Covers
<1>10. CASE v = w
  <2>1. Owes(w, r)
    <3>1. CASE h = <<r, "request_completed">>
      BY <1>4, <1>5, <1>8, <3>1 DEF PlanOK, Owes
    <3>2. CASE h # <<r, "request_completed">>
      <4>1. "request_completed" \in Staged(r)
        BY <1>2, <1>6, <3>2, StagesKeeps DEF HalfTold
      <4>2. Covers(w, r)
        BY <1>8, <4>1 DEF ImportOK, HalfTold
      <4> QED  BY <1>1, <4>2 DEF Covers
    <3> QED  BY <3>1, <3>2
  <2>2. Owes(w, r)'
    BY <1>1, <1>4, <1>7, <2>1 DEF Owes, Turns
  <2> QED  BY <1>1, <1>10, <2>2 DEF Covers, Turns
<1> QED  BY <1>9, <1>10

\* While a pass sends, no import is half told.
LEMMA SendersTell ==
    ASSUME Typed, PassInv, NEW w \in Workers, NEW r \in Requests, ImportOK(r),
           \/ pass[w].pc \in {"send", "mark"}
           \/ pass[w].pc = "check" /\ pass[w].terminals = {} /\ pass[w].plans = <<>>
    PROVE  ~HalfTold(r)
<1>1. ~Covers(w, r)
  BY DEF Covers, Owes, HasPlan
<1> QED  BY <1>1 DEF ImportOK

LEMMA ImportInvStep ==
    ASSUME Typed, RowInv, LateInv, StageInv, PassInv, ImportInv, NotifiedInv, [Next]_vars
    PROVE  ImportInv'
<1> SUFFICES ASSUME NEW q \in Requests PROVE ImportOK(q)'
  BY ImportPartsNext
<1>0. Keeps /\ Firm(q) /\ StageOK(q) /\ ImportOK(q)
  BY OutboxStep, RowStep, StageParts, ImportParts
<1>1. ASSUME pass' = pass, outbox' = outbox PROVE ImportOK(q)'
  BY <1>0, <1>1, SameKeeps, ImportKept
<1>2. ASSUME NEW o, NEW e, Stages(o, e), pass' = pass,
             o = q /\ e = "request_completed" =>
                 requests[q].status = "completed" /\ requests[q].event # "import"
      PROVE  ImportOK(q)'
  <2>1. "request_completed" \in Staged(q)' =>
          "request_completed" \in Staged(q) \/
          (requests[q].status = "completed" /\ requests[q].event # "import")
    BY <1>2, StagesKeeps
  <2> QED  BY <1>0, <1>2, <2>1, ImportKept
<1>3. CASE UNCHANGED vars
  BY <1>1, <1>3 DEF vars
<1>4. CASE \E r \in Requests : Lifecycle(r)
  <2> PICK r \in Requests : Lifecycle(r)
    BY <1>4
  <2>1. CASE IntakeMisses(r)
    <3>1. pass' = pass /\ outbox' = Enqueued(r, "request_failed")
      BY <2>1 DEF IntakeMisses
    <3> QED  BY <1>2, <3>1, EnqueueStep, EventsIn
  <2>2. CASE StageReply(r)
    <3>1. pass' = pass /\ Stages(r, Head(reply[r])) /\ reply[r] # <<>> /\ reply[r] \in Seq(Events)
      BY <2>2, RepliesStep, EventsIn DEF StageReply
    <3>2. 1 \in DOMAIN reply[r] /\ Head(reply[r]) = reply[r][1]
      BY <3>1
    <3>3. r = q /\ Head(reply[r]) = "request_completed" =>
            requests[q].status = "completed" /\ requests[q].event # "import"
      BY <1>0, <3>2 DEF StageOK
    <3> QED  BY <1>2, <3>1, <3>3
  <2>3. CASE RecordProgress(r)
    <3>1. pass' = pass
      BY <2>3 DEF RecordProgress
    <3> QED  BY <1>1, <1>2, <2>3, <3>1, ProgressStep
  <2>4. CASE StageAttention(r)
    <3>1. pass' = pass /\ outbox' = Enqueued(r, "submission_uncertain")
      BY <2>4 DEF StageAttention
    <3> QED  BY <1>2, <3>1, EnqueueStep, EventsIn
  <2>5. CASE IntakeAnswers(r) \/ SeeVisible(r) \/ Completes(r) \/ ImportFails(r) \/ ClaimRetry(r)
             \/ RetryHandsOff(r) \/ RetryMisses(r)
    BY <1>1, <2>5 DEF IntakeAnswers, SeeVisible, Completes, ImportFails, ClaimRetry,
                      RetryHandsOff, RetryMisses, huey
  <2> QED  BY <2>1, <2>2, <2>3, <2>4, <2>5 DEF Lifecycle
<1>5. CASE \E w \in Workers : PassStep(w) \/ PassRaises(w)
  <2> PICK w \in Workers : PassStep(w) \/ PassRaises(w)
    BY <1>5
  <2>1. CASE BeginPass(w)
    BY <1>0, <2>1, BeginImportOK
  <2>2. CASE CheckTerminal(w)
    BY <1>0, <2>2, CheckImportOK
  <2>3. CASE StagePlan(w)
    BY <1>0, <2>3, PlanImportOK
  <2>4. ASSUME \/ pass[w].pc \in {"send", "mark"}
               \/ pass[w].pc = "check" /\ pass[w].terminals = {} /\ pass[w].plans = <<>>,
               \A x : x \in Staged(q)' => x \in Staged(q)
        PROVE  ImportOK(q)'
    <3>1. ~HalfTold(q)
      BY <1>0, <2>4, SendersTell
    <3>2. ~HalfTold(q)'
      BY <1>0, <2>4, <3>1, HalfToldBefore
    <3> QED  BY <3>2 DEF ImportOK
  <2>5. CASE ReadPending(w) \/ Finalize(w) \/ EndPass(w)
    <3>1. outbox' = outbox
      BY <2>5 DEF ReadPending, Finalize, EndPass
    <3>2. \/ pass[w].pc = "send"
          \/ pass[w].pc = "check" /\ pass[w].terminals = {} /\ pass[w].plans = <<>>
      BY <2>5 DEF ReadPending, Finalize, EndPass
    <3> QED  BY <2>4, <3>1, <3>2, SameKeeps
  <2>6. CASE SendSucceeds(w)
    BY <2>4, <2>6, SucceedsTurns, TouchesKeeps
  <2>7. CASE SendFails(w)
    <3>1. pass[w].pc = "send"
          /\ (outbox' = outbox \/ \E i : Touches(i, [outbox[i] EXCEPT !.sent = @ + 1]))
      BY <2>7, FailsTurns
    <3>2. \A x : x \in Staged(q)' => x \in Staged(q)
      BY <3>1, SameKeeps, TouchesKeeps
    <3> QED  BY <2>4, <3>1, <3>2
  <2>8. CASE MarkDelivered(w)
    BY <2>4, <2>8, MarkTurns, TouchesKeeps
  <2>9. CASE PassRaises(w)
    <3>1. outbox' = outbox /\ pass' = [pass EXCEPT ![w] = Idle]
      BY <2>9 DEF PassRaises
    <3>2. \A v \in Workers : pass'[v] = pass[v] \/ pass'[v].pc = "idle"
      BY <3>1, IdleTurns DEF Turns
    <3> QED  BY <1>0, <3>1, <3>2, SameKeeps, ImportKept
  <2> QED
    BY <2>1, <2>2, <2>3, <2>5, <2>6, <2>7, <2>8, <2>9 DEF PassStep
<1>6. CASE Restart
  <2>1. \A w \in Workers : Covers(w, q)'
    BY <1>6, RestartIdles DEF Covers
  <2> QED  BY <2>1 DEF ImportOK
<1>7. CASE \E r \in Requests : BookBot(r)
  BY <1>1, <1>7, BookBotOnlyWrites
<1> QED  BY <1>3, <1>4, <1>5, <1>6, <1>7 DEF Next

-----------------------------------------------------------------------------
(* What a mark stands for                                                  *)

NotifiedOK(r) ==
    requests[r].notified /\ r \notin overtaken =>
        IF requests[r].status = "completed"
        THEN /\ Delivered(r, "request_completed")
             /\ requests[r].event = "import" => Delivered(r, "library_imported")
        ELSE Delivered(r, "request_failed")

LEMMA NotifiedInvStep ==
    ASSUME Typed, RowInv, LateInv, StageInv, PassInv, ImportInv, NotifiedInv, [Next]_vars
    PROVE  NotifiedInv'
<1> SUFFICES ASSUME NEW r \in Requests PROVE NotifiedOK(r)'
  BY DEF NotifiedInv, NotifiedOK
<1>0. /\ Keeps /\ Fate(r) /\ NotifiedOK(r) /\ ImportOK(r) /\ LateMoves(r)
      /\ \A e : Delivered(r, e) => Delivered(r, e)'
      /\ r \in overtaken => r \in overtaken'
  BY OutboxStep, StepFate, LateStep, ImportParts DEF NotifiedInv, NotifiedOK, Keeps, LateMoves
<1>1. CASE Stays(r)
  BY <1>0, <1>1 DEF Stays, NotifiedOK
<1>2. CASE Answered(r)
  BY <1>0, <1>2 DEF Answered, Becomes, NotifiedOK, RowInv
<1>3. CASE Missed(r)
  BY <1>0, <1>3 DEF Missed, Becomes, NotifiedOK, RowInv
<1>4. CASE Imported(r)
  <2>1. CASE RetryIsSilent(r)
    <3>1. ~requests'[r].notified
      BY <1>4, <2>1 DEF Imported, Becomes
    <3> QED  BY <3>1 DEF NotifiedOK
  <2>2. CASE ~RetryIsSilent(r)
    <3>1. requests'[r].notified = requests[r].notified
      BY <1>4, <2>2 DEF Imported, Becomes
    <3>2. requests[r].notified => Closed(r)
      BY <1>4, <2>2 DEF Imported, Booked, Closed, RowInv, RetryIsSilent, SilentStates
    <3>3. requests'[r].notified => r \in overtaken'
      BY <1>0, <1>4, <3>1, <3>2 DEF LateMoves
    <3> QED  BY <3>3 DEF NotifiedOK
  <2> QED  BY <2>1, <2>2
<1>5. CASE NotImported(r)
  BY <1>0, <1>5 DEF NotImported, Booked, Becomes, NotifiedOK
<1>6. CASE Claimed(r)
  BY <1>0, <1>6 DEF Claimed, Becomes, NotifiedOK
<1>7. CASE HandedOff(r)
  BY <1>0, <1>7 DEF HandedOff, Becomes, NotifiedOK
<1>8. CASE MissedAgain(r)
  BY <1>0, <1>8 DEF MissedAgain, Becomes, NotifiedOK
<1>9. CASE Orphaned(r)
  BY <1>0, <1>9 DEF Orphaned, Becomes, NotifiedOK, RowInv
<1>10. CASE Marked(r)
  <2>1. /\ requests'[r].status = requests[r].status /\ requests'[r].event = requests[r].event
        /\ Terminal(r) /\ Delivered(r, StatusEvent(requests[r].status)) /\ AllDelivered(r)
    BY <1>10 DEF Marked, Becomes, MayFinalize
  <2>2. PICK w \in Workers : pass[w].pc = "send"
    BY <1>10 DEF Marked
  <2>3. \A e : e \in Staged(r) => Delivered(r, e)
    BY <2>1, StagedMeans DEF AllDelivered, Delivered
  <2>4. \A e : Delivered(r, e) => e \in Staged(r)
    BY StagedMeans DEF Delivered
  <2>5. ~HalfTold(r)
    BY <1>0, <2>2, SendersTell
  <2>6. CASE requests[r].status = "completed"
    <3>1. Delivered(r, "request_completed")
      BY <2>1, <2>6 DEF StatusEvent
    <3>2. requests[r].event = "import" => Delivered(r, "library_imported")
      BY <2>3, <2>4, <2>5, <2>6, <3>1 DEF HalfTold
    <3> QED  BY <1>0, <2>1, <2>6, <3>1, <3>2 DEF NotifiedOK
  <2>7. CASE requests[r].status # "completed"
    <3>1. Delivered(r, "request_failed")
      BY <2>1, <2>7 DEF StatusEvent
    <3> QED  BY <1>0, <2>1, <2>7, <3>1 DEF NotifiedOK
  <2> QED  BY <2>6, <2>7
<1> QED
  BY <1>0, <1>1, <1>2, <1>3, <1>4, <1>5, <1>6, <1>7, <1>8, <1>9, <1>10 DEF Fate, Goes

\* BookBot may write until the row it read is taken up again, and a failure is
\* overtaken with what it told.
LEMMA LateInvStep ==
    ASSUME Typed, RowInv, LateInv, PassInv, NotifiedInv, [Next]_vars
    PROVE  LateInv'
<1> SUFFICES ASSUME NEW r \in Requests
             PROVE  /\ bookbot'[r] # "none" => Booked(r)'
                    /\ r \in overtaken' =>
                         /\ requests'[r].status = "completed" /\ requests'[r].event = "import"
                         /\ requests'[r].notified /\ Delivered(r, "request_failed")'
  BY DEF LateInv
<1>0. Fate(r) /\ LateMoves(r) /\ (Delivered(r, "request_failed") => Delivered(r, "request_failed")')
  BY OutboxStep, StepFate, LateStep DEF Keeps
<1>1. bookbot'[r] # "none" => Booked(r)'
  BY <1>0, LateFate
<1>2. CASE r \in overtaken
  <2>1. /\ requests[r].status = "completed" /\ requests[r].event = "import"
        /\ requests[r].notified /\ Delivered(r, "request_failed")
    BY <1>2 DEF LateInv
  <2>2. Stays(r) \/ Marked(r)
    BY <1>0, <2>1 DEF Fate, Goes, Answered, Missed, Imported, NotImported, Booked, Claimed,
                      HandedOff, MissedAgain, Orphaned
  <2>3. requests'[r].status = "completed" /\ requests'[r].event = "import" /\ requests'[r].notified
    BY <2>1, <2>2 DEF Stays, Marked, Becomes
  <2> QED  BY <1>0, <1>1, <2>1, <2>3
<1>3. CASE r \notin overtaken /\ r \in overtaken'
  <2>1. Closed(r) /\ Imported(r)
    BY <1>0, <1>3 DEF LateMoves
  <2>2. Delivered(r, "request_failed")
    BY <1>3, <2>1 DEF Closed, NotifiedInv
  <2>3. requests'[r].status = "completed" /\ requests'[r].event = "import" /\ requests'[r].notified
    BY <2>1 DEF Closed, Imported, Becomes
  <2> QED  BY <1>0, <1>1, <2>2, <2>3
<1> QED  BY <1>1, <1>2, <1>3

-----------------------------------------------------------------------------
(* One message per event                                                   *)

Unique ==
    \A i, j \in DOMAIN outbox :
        outbox[i].owner = outbox[j].owner /\ outbox[i].event = outbox[j].event => i = j
BatchOpen == \A w \in Workers : \A i \in pass[w].batch : ~outbox[i].delivered
InFlight(i) == \E w \in Workers : pass[w].pc = "mark" /\ Oldest(w, i)
CountOK(i) ==
    \/ outbox[i].sent <= faults + crashes
    \/ outbox[i].sent <= 1 + faults + crashes /\ (outbox[i].delivered \/ InFlight(i))

LEMMA OnceParts == OnceInv <=> Unique /\ BatchOpen /\ \A i \in DOMAIN outbox : CountOK(i)
BY DEF OnceInv, Unique, BatchOpen, CountOK, InFlight

LEMMA OncePartsNext == (OnceInv <=> Unique /\ BatchOpen /\ \A i \in DOMAIN outbox : CountOK(i))'
BY OnceParts, PTL

LEMMA CountTyped ==
    ASSUME Typed
    PROVE  faults \in Nat /\ crashes \in Nat
BY BoundsAssumption DEF Typed, TypeOK

\* A step of a pass, or of nobody, that leaves the rows as they are.
LEMMA OnceKept ==
    ASSUME Typed, OnceInv, outbox' = outbox,
           \A w \in Workers : \A i \in pass'[w].batch : i \in DOMAIN outbox /\ ~outbox[i].delivered,
           \A i \in DOMAIN outbox : InFlight(i) => InFlight(i)',
           faults' = faults, crashes' = crashes
    PROVE  OnceInv'
<1>1. Unique' /\ BatchOpen'
  BY OnceParts DEF Unique, BatchOpen
<1>2. \A i \in DOMAIN outbox' : CountOK(i)'
  BY OnceParts DEF CountOK
<1> QED  BY <1>1, <1>2, OncePartsNext

\* A fault pays for the message that may have been sent in vain.
LEMMA OncePaid ==
    ASSUME Typed, OnceInv, outbox' = outbox,
           \A w \in Workers : \A i \in pass'[w].batch : i \in DOMAIN outbox /\ ~outbox[i].delivered,
           \/ faults' = faults + 1 /\ crashes' = crashes
           \/ faults' = faults /\ crashes' = crashes + 1
    PROVE  OnceInv'
<1>1. Unique' /\ BatchOpen'
  BY OnceParts DEF Unique, BatchOpen
<1>2. \A i \in DOMAIN outbox' : CountOK(i)'
  <2> SUFFICES ASSUME NEW i \in DOMAIN outbox PROVE CountOK(i)'
    OBVIOUS
  <2>1. outbox[i].sent \in Nat /\ CountOK(i) /\ faults \in Nat /\ crashes \in Nat
    BY OnceParts, OutboxTyped, CountTyped
  <2>2. outbox[i].sent <= 1 + faults + crashes
    BY <2>1 DEF CountOK
  <2> QED  BY <2>1, <2>2 DEF CountOK
<1> QED  BY <1>1, <1>2, OncePartsNext

\* Staging adds a row that nobody has sent.
LEMMA OnceStaged ==
    ASSUME Typed, OnceInv, NEW o, NEW e, Stages(o, e),
           \A w \in Workers : pass'[w].batch = pass[w].batch /\ pass'[w].pc = pass[w].pc,
           faults' = faults, crashes' = crashes
    PROVE  OnceInv'
<1>1. Unique'
  <2> SUFFICES ASSUME NEW i \in DOMAIN outbox', NEW j \in DOMAIN outbox',
                      outbox'[i].owner = outbox'[j].owner, outbox'[i].event = outbox'[j].event
               PROVE  i = j
    BY DEF Unique
  <2>1. CASE i \in DOMAIN outbox /\ j \in DOMAIN outbox
    BY <2>1, OnceParts DEF Unique, Stages
  <2>2. CASE i \notin DOMAIN outbox /\ j \notin DOMAIN outbox
    BY <2>2 DEF Stages
  <2>3. ASSUME NEW a \in DOMAIN outbox, NEW b \in DOMAIN outbox' \ DOMAIN outbox,
               outbox'[a].owner = outbox'[b].owner, outbox'[a].event = outbox'[b].event
        PROVE  FALSE
    <3>1. outbox'[b] = NewRow(o, e) /\ e \notin Staged(o) /\ outbox'[a] = outbox[a]
      BY DEF Stages
    <3>2. outbox[a].owner = o /\ outbox[a].event = e
      BY <2>3, <3>1 DEF NewRow
    <3> QED  BY <3>1, <3>2, StagedMeans
  <2> QED  BY <2>1, <2>2, <2>3
<1>2. BatchOpen'
  BY OnceParts, PassTyped DEF BatchOpen, Stages
<1>3. \A i : InFlight(i) => InFlight(i)'
  BY DEF InFlight, Oldest
<1>4. \A i \in DOMAIN outbox' : CountOK(i)'
  <2> SUFFICES ASSUME NEW i \in DOMAIN outbox' PROVE CountOK(i)'
    OBVIOUS
  <2>1. CASE i \in DOMAIN outbox
    BY <1>3, <2>1, OnceParts DEF CountOK, Stages
  <2>2. CASE i \notin DOMAIN outbox
    <3>1. outbox'[i].sent = 0
      BY <2>2 DEF Stages, NewRow
    <3> QED  BY <3>1, CountTyped DEF CountOK
  <2> QED  BY <2>1, <2>2
<1> QED  BY <1>1, <1>2, <1>4, OncePartsNext

LEMMA TouchesUnique ==
    ASSUME Unique, NEW k, NEW row, Touches(k, row)
    PROVE  Unique'
<1>1. \A i \in DOMAIN outbox :
        outbox'[i].owner = outbox[i].owner /\ outbox'[i].event = outbox[i].event
  BY DEF Touches
<1> QED  BY <1>1 DEF Unique, Touches

\* The batch of the one pass at work, and no other.
LEMMA OthersHoldNothing ==
    ASSUME Typed, PassInv, NEW w \in Workers, pass[w].pc # "idle"
    PROVE  \A v \in Workers \ {w} : pass[v].pc = "idle" /\ pass[v].batch = {}
BY Alone, PassParts DEF PassOK, PhaseOK

LEMMA SucceedsOnce ==
    ASSUME Typed, PassInv, OnceInv, NEW w \in Workers, SendSucceeds(w)
    PROVE  OnceInv'
<1>1. /\ pass[w].pc = "send" /\ faults' = faults /\ crashes' = crashes
      /\ Turns(w, "mark", pass[w].terminals, pass[w].plans, pass[w].ids, pass[w].batch)
  BY SucceedsTurns DEF SendSucceeds
<1>2. PICK k \in pass[w].batch : /\ k \in DOMAIN outbox /\ Oldest(w, k)
                                 /\ Touches(k, [outbox[k] EXCEPT !.sent = @ + 1])
  BY SucceedsTurns
<1>3. \A v \in Workers : pass[v].pc # "mark"
  BY <1>1, OthersHoldNothing
<1>4. outbox[k].sent \in Nat /\ outbox'[k].sent = outbox[k].sent + 1
      /\ outbox'[k].delivered = outbox[k].delivered
  BY <1>2, OutboxTyped DEF Touches, OutRow
<1>5. Unique'
  BY <1>2, OnceParts, TouchesUnique
<1>6. BatchOpen'
  <2> SUFFICES ASSUME NEW v \in Workers, NEW i \in pass'[v].batch PROVE ~outbox'[i].delivered
    BY DEF BatchOpen
  <2>1. v = w /\ i \in pass[w].batch /\ i \in DOMAIN outbox
    BY <1>1, OthersHoldNothing, PassTyped DEF Turns
  <2>2. ~outbox[i].delivered
    BY <2>1, OnceParts DEF BatchOpen
  <2> QED  BY <1>2, <1>4, <2>1, <2>2 DEF Touches
<1>7. \A i \in DOMAIN outbox' : CountOK(i)'
  <2> SUFFICES ASSUME NEW i \in DOMAIN outbox PROVE CountOK(i)'
    BY <1>2 DEF Touches
  <2>1. CountOK(i) /\ ~InFlight(i)
    BY <1>3, OnceParts DEF InFlight
  <2>2. CASE i = k
    <3>1. ~outbox[k].delivered
      BY <1>2, OnceParts DEF BatchOpen
    <3>2. outbox'[k].sent <= 1 + faults + crashes
      BY <1>4, <2>1, <2>2, <3>1, CountTyped DEF CountOK
    <3>3. InFlight(k)'
      BY <1>1, <1>2 DEF InFlight, Oldest, Turns
    <3> QED  BY <1>1, <2>2, <3>2, <3>3 DEF CountOK
  <2>3. CASE i # k
    <3>1. outbox'[i] = outbox[i]
      BY <1>2, <2>3 DEF Touches
    <3> QED  BY <1>1, <2>1, <3>1 DEF CountOK
  <2> QED  BY <2>2, <2>3
<1> QED  BY <1>5, <1>6, <1>7, OncePartsNext

LEMMA MarksOnce ==
    ASSUME Typed, PassInv, OnceInv, NEW w \in Workers, MarkDelivered(w)
    PROVE  OnceInv'
<1>1. pass[w].pc = "mark" /\ faults' = faults /\ crashes' = crashes
  BY DEF MarkDelivered
<1>2. PICK k \in pass[w].batch : /\ k \in DOMAIN outbox /\ Oldest(w, k)
                                 /\ Turns(w, "send", pass[w].terminals, pass[w].plans, pass[w].ids,
                                          pass[w].batch \ {k})
                                 /\ Touches(k, [outbox[k] EXCEPT !.delivered = TRUE])
  BY MarkTurns
<1>3. outbox[k].sent \in Nat /\ outbox'[k].sent = outbox[k].sent /\ outbox'[k].delivered
  BY <1>2, OutboxTyped DEF Touches, OutRow
<1>4. Unique'
  BY <1>2, OnceParts, TouchesUnique
<1>5. BatchOpen'
  <2> SUFFICES ASSUME NEW v \in Workers, NEW i \in pass'[v].batch PROVE ~outbox'[i].delivered
    BY DEF BatchOpen
  <2>1. v = w /\ i \in pass[w].batch /\ i # k /\ i \in DOMAIN outbox
    BY <1>1, <1>2, OthersHoldNothing, PassTyped DEF Turns
  <2>2. ~outbox[i].delivered
    BY <2>1, OnceParts DEF BatchOpen
  <2> QED  BY <1>2, <2>1, <2>2 DEF Touches
<1>6. \A i \in DOMAIN outbox' : CountOK(i)'
  <2> SUFFICES ASSUME NEW i \in DOMAIN outbox PROVE CountOK(i)'
    BY <1>2 DEF Touches
  <2>1. CountOK(i)
    BY OnceParts
  <2>2. CASE i = k
    BY <1>1, <1>3, <2>1, <2>2, CountTyped DEF CountOK
  <2>3. CASE i # k
    <3>1. outbox'[i] = outbox[i]
      BY <1>2, <2>3 DEF Touches
    <3>2. ~InFlight(i)
      <4> SUFFICES ASSUME NEW v \in Workers, pass[v].pc = "mark", Oldest(v, i) PROVE FALSE
        BY DEF InFlight
      <4>1. v = w
        BY <1>1, OthersHoldNothing
      <4>2. i \in pass[w].batch /\ i <= k /\ k <= i
        BY <1>2, <4>1 DEF Oldest
      <4> QED  BY <1>2, <2>3, <4>2, OutboxTyped
    <3> QED  BY <1>1, <2>1, <3>1, <3>2 DEF CountOK
  <2> QED  BY <2>2, <2>3
<1> QED  BY <1>4, <1>5, <1>6, OncePartsNext

LEMMA FailsOnce ==
    ASSUME Typed, PassInv, OnceInv, NEW w \in Workers, SendFails(w)
    PROVE  OnceInv'
<1>1. pass[w].pc = "send" /\ crashes' = crashes
  BY FailsTurns
<1>2. PICK k \in pass[w].batch :
        /\ k \in DOMAIN outbox /\ Oldest(w, k)
        /\ Turns(w, "send", pass[w].terminals, pass[w].plans, pass[w].ids, pass[w].batch \ {k})
        /\ \/ outbox' = outbox /\ faults' = faults
           \/ outbox' = outbox /\ crashes + faults < MaxSetbacks /\ faults' = faults + 1
           \/ /\ crashes + faults < MaxSetbacks /\ faults' = faults + 1
              /\ Touches(k, [outbox[k] EXCEPT !.sent = @ + 1])
  BY FailsTurns
<1>3. \A v \in Workers : \A i \in pass'[v].batch : i \in DOMAIN outbox /\ ~outbox[i].delivered
  <2> SUFFICES ASSUME NEW v \in Workers, NEW i \in pass'[v].batch
               PROVE  i \in DOMAIN outbox /\ ~outbox[i].delivered
    OBVIOUS
  <2>1. v = w /\ i \in pass[w].batch /\ i \in DOMAIN outbox
    BY <1>1, <1>2, OthersHoldNothing, PassTyped DEF Turns
  <2> QED  BY <2>1, OnceParts DEF BatchOpen
<1>4. \A i : ~InFlight(i)
  BY <1>1, OthersHoldNothing DEF InFlight
<1>5. CASE outbox' = outbox /\ faults' = faults
  BY <1>1, <1>3, <1>4, <1>5, OnceKept
<1>6. CASE outbox' = outbox /\ faults' = faults + 1
  BY <1>1, <1>3, <1>6, OncePaid
<1>7. CASE faults' = faults + 1 /\ Touches(k, [outbox[k] EXCEPT !.sent = @ + 1])
  <2>1. outbox[k].sent \in Nat /\ outbox'[k].sent = outbox[k].sent + 1
        /\ outbox'[k].delivered = outbox[k].delivered
    BY <1>2, <1>7, OutboxTyped DEF Touches, OutRow
  <2>2. Unique'
    BY <1>7, OnceParts, TouchesUnique
  <2>3. BatchOpen'
    BY <1>3, <1>7, <2>1 DEF BatchOpen, Touches
  <2>4. \A i \in DOMAIN outbox' : CountOK(i)'
    <3> SUFFICES ASSUME NEW i \in DOMAIN outbox PROVE CountOK(i)'
      BY <1>7 DEF Touches
    <3>1. CountOK(i) /\ outbox[i].sent \in Nat /\ faults \in Nat /\ crashes \in Nat
      BY OnceParts, OutboxTyped, CountTyped
    <3>2. CASE i = k
      <4>1. ~outbox[k].delivered
        BY <1>2, OnceParts DEF BatchOpen
      <4>2. outbox[k].sent <= faults + crashes
        BY <1>4, <3>1, <3>2, <4>1 DEF CountOK
      <4> QED  BY <1>1, <1>7, <2>1, <3>1, <3>2, <4>2 DEF CountOK
    <3>3. CASE i # k
      <4>1. outbox'[i] = outbox[i]
        BY <1>7, <3>3 DEF Touches
      <4>2. outbox[i].sent <= 1 + faults + crashes
        BY <3>1 DEF CountOK
      <4> QED  BY <1>1, <1>7, <3>1, <4>1, <4>2 DEF CountOK
    <3> QED  BY <3>2, <3>3
  <2> QED  BY <2>2, <2>3, <2>4, OncePartsNext
<1> QED  BY <1>2, <1>5, <1>6, <1>7

LEMMA OnceInvStep ==
    ASSUME Typed, PassInv, OnceInv, [Next]_vars
    PROVE  OnceInv'
<1>0. \A w \in Workers : \A i \in pass[w].batch : i \in DOMAIN outbox /\ ~outbox[i].delivered
  BY PassTyped, OnceParts DEF BatchOpen
<1>1. ASSUME outbox' = outbox, pass' = pass, faults' = faults, crashes' = crashes PROVE OnceInv'
  BY <1>0, <1>1, OnceKept DEF InFlight, Oldest
<1>2. ASSUME NEW o, NEW e, Stages(o, e), pass' = pass, faults' = faults, crashes' = crashes
      PROVE  OnceInv'
  BY <1>2, OnceStaged
<1>3. CASE UNCHANGED vars
  BY <1>1, <1>3 DEF vars
<1>4. CASE \E r \in Requests : Lifecycle(r)
  <2> PICK r \in Requests : Lifecycle(r)
    BY <1>4
  <2>1. pass' = pass /\ faults' = faults /\ crashes' = crashes
    BY DEF Lifecycle, IntakeAnswers, IntakeMisses, StageReply, SeeVisible, RecordProgress,
         StageAttention, Completes, ImportFails, ClaimRetry, RetryHandsOff, RetryMisses, huey
  <2>2. CASE IntakeMisses(r)
    <3>1. outbox' = Enqueued(r, "request_failed")
      BY <2>2 DEF IntakeMisses
    <3> QED  BY <1>2, <2>1, <3>1, EnqueueStep, EventsIn
  <2>3. CASE StageReply(r)
    BY <1>2, <2>1, <2>3, RepliesStep
  <2>4. CASE RecordProgress(r)
    BY <1>1, <1>2, <2>1, <2>4, ProgressStep
  <2>5. CASE StageAttention(r)
    <3>1. outbox' = Enqueued(r, "submission_uncertain")
      BY <2>5 DEF StageAttention
    <3> QED  BY <1>2, <2>1, <3>1, EnqueueStep, EventsIn
  <2>6. CASE IntakeAnswers(r) \/ SeeVisible(r) \/ Completes(r) \/ ImportFails(r) \/ ClaimRetry(r)
             \/ RetryHandsOff(r) \/ RetryMisses(r)
    BY <1>1, <2>1, <2>6 DEF IntakeAnswers, SeeVisible, Completes, ImportFails, ClaimRetry,
                      RetryHandsOff, RetryMisses
  <2> QED  BY <2>2, <2>3, <2>4, <2>5, <2>6 DEF Lifecycle
<1>5. CASE \E w \in Workers : PassStep(w) \/ PassRaises(w)
  <2> PICK w \in Workers : PassStep(w) \/ PassRaises(w)
    BY <1>5
  <2>1. ASSUME NEW pc, NEW T, NEW P, NEW J, NEW B, Turns(w, pc, T, P, J, B), pass[w].pc # "mark",
               \A i \in B : i \in DOMAIN outbox /\ ~outbox[i].delivered,
               outbox' = outbox, faults' = faults, crashes' = crashes
        PROVE  OnceInv'
    <3>1. \A v \in Workers : \A i \in pass'[v].batch : i \in DOMAIN outbox /\ ~outbox[i].delivered
      BY <1>0, <2>1 DEF Turns
    <3>2. \A i : InFlight(i) => InFlight(i)'
      BY <2>1 DEF InFlight, Oldest, Turns
    <3> QED  BY <2>1, <3>1, <3>2, OnceKept
  <2>2. CASE BeginPass(w)
    <3>1. pass[w].pc # "mark" /\ outbox' = outbox /\ faults' = faults /\ crashes' = crashes
      BY <2>2 DEF BeginPass
    <3> QED  BY <2>1, <2>2, <3>1, BeginTurns
  <2>3. CASE CheckTerminal(w)
    <3>1. outbox' = outbox /\ faults' = faults /\ crashes' = crashes
      BY <2>3 DEF CheckTerminal
    <3>2. pass[w].pc = "check" /\ \E T, P, J : Turns(w, "check", T, P, J, pass[w].batch)
      BY <2>3, CheckTurns
    <3> QED  BY <1>0, <2>1, <3>1, <3>2
  <2>4. CASE StagePlan(w)
    <3>1. Turns(w, "check", pass[w].terminals, Tail(pass[w].plans), pass[w].ids, pass[w].batch)
          /\ pass[w].pc = "check" /\ faults' = faults /\ crashes' = crashes
      BY <2>4, StageTurns DEF StagePlan
    <3>2. \A v \in Workers : pass'[v].batch = pass[v].batch /\ pass'[v].pc = pass[v].pc
      BY <3>1 DEF Turns
    <3> QED  BY <2>4, <3>1, <3>2, PlanStep, OnceStaged
  <2>5. CASE ReadPending(w)
    <3>1. outbox' = outbox /\ faults' = faults /\ crashes' = crashes
      BY <2>5 DEF ReadPending
    <3> QED  BY <2>1, <2>5, <3>1, ReadTurns
  <2>6. CASE SendSucceeds(w)
    BY <2>6, SucceedsOnce
  <2>7. CASE SendFails(w)
    BY <2>7, FailsOnce
  <2>8. CASE MarkDelivered(w)
    BY <2>8, MarksOnce
  <2>9. CASE Finalize(w)
    <3>1. outbox' = outbox /\ faults' = faults /\ crashes' = crashes
      BY <2>9 DEF Finalize
    <3> QED  BY <2>1, <2>9, <3>1, FinalizeTurns
  <2>10. CASE EndPass(w)
    <3>1. outbox' = outbox /\ faults' = faults /\ crashes' = crashes /\ pass[w].pc = "send"
          /\ pass' = [pass EXCEPT ![w] = Idle]
      BY <2>10 DEF EndPass
    <3> QED  BY <2>1, <3>1, IdleTurns
  <2>11. CASE PassRaises(w)
    <3>1. outbox' = outbox /\ faults' = faults + 1 /\ crashes' = crashes
          /\ pass' = [pass EXCEPT ![w] = Idle]
      BY <2>11 DEF PassRaises
    <3>2. \A v \in Workers : \A i \in pass'[v].batch : i \in DOMAIN outbox /\ ~outbox[i].delivered
      BY <1>0, <3>1, IdleTurns DEF Turns
    <3> QED  BY <3>1, <3>2, OncePaid
  <2> QED
    BY <2>2, <2>3, <2>4, <2>5, <2>6, <2>7, <2>8, <2>9, <2>10, <2>11 DEF PassStep
<1>6. CASE Restart
  <2>1. outbox' = outbox /\ faults' = faults /\ crashes' = crashes + 1
    BY <1>6 DEF Restart
  <2> QED  BY <1>6, <2>1, RestartIdles, OncePaid
<1>7. CASE \E r \in Requests : BookBot(r)
  BY <1>1, <1>7, BookBotOnlyWrites
<1> QED  BY <1>3, <1>4, <1>5, <1>6, <1>7 DEF Next

-----------------------------------------------------------------------------
(* Theorems                                                                *)

LEMMA InvInit == Init => IInv
<1> SUFFICES ASSUME Init PROVE IInv
  OBVIOUS
<1>1. /\ \A r \in Requests : /\ requests[r].status = "processing" /\ requests[r].event = "none"
                             /\ requests[r].notified = FALSE
                             /\ retry[r].state = "none" /\ retry[r].count = 0 /\ reply[r] = <<>>
                             /\ bookbot[r] = "none"
      /\ \A w \in Workers : pass[w] = Idle
      /\ outbox = <<>> /\ seen = {} /\ lock = NoWorker /\ crashes = 0 /\ faults = 0
      /\ overtaken = {}
  BY DEF Init
<1>2. \A q, e : e \notin Staged(q)
  BY <1>1 DEF Staged
<1>3. \A w \in Workers : /\ pass[w].pc = "idle" /\ pass[w].terminals = {} /\ pass[w].plans = <<>>
                         /\ pass[w].ids = {} /\ pass[w].batch = {}
  BY <1>1 DEF Idle
<1>4. Typed
  <2>1. requests \in [Requests -> RequestRow]
    BY DEF Init, RequestRow, Status, TerminalEvent
  <2>2. retry \in [Requests -> RetryRow]
    BY BoundsAssumption DEF Init, RetryRow, RetryState
  <2>3. outbox \in Seq(OutRow)
    <3>1. <<>> \in Seq(OutRow)
      OBVIOUS
    <3> QED  BY <1>1, <3>1
  <2>4. reply \in [Requests -> Seq(Events)]
    <3>1. <<>> \in Seq(Events)
      OBVIOUS
    <3> QED  BY <3>1 DEF Init
  <2>5. pass \in [Workers -> PassRow]
    BY IdleTyped DEF Init
  <2>6. \A w \in Workers : /\ pass[w].pc \in {"idle", "check", "send", "mark"}
                           /\ pass[w].ids \subseteq Requests /\ pass[w].batch \subseteq DOMAIN outbox
    BY <1>3
  <2>7. crashes \in 0..MaxSetbacks /\ faults \in 0..MaxSetbacks
    BY <1>1, BoundsAssumption
  <2>8. bookbot \in [Requests -> Outcome \cup {"none"}] /\ overtaken \subseteq Requests
    BY DEF Init
  <2> QED
    BY <1>1, <2>1, <2>2, <2>3, <2>4, <2>5, <2>6, <2>7, <2>8 DEF Typed, TypeOK, RequestRow, RetryRow, OutRow
<1>5. RowInv
  BY <1>1 DEF RowInv
<1>6. StageInv
  BY <1>1, <1>2 DEF StageInv
<1>7. PassInv
  <2>1. \A w \in Workers : \A r, e : ~HasPlan(w, r, e)
    BY <1>3 DEF HasPlan
  <2> QED  BY <1>1, <1>3, <2>1, LockAssumption DEF PassInv
<1>8. ImportInv
  BY <1>2 DEF ImportInv
<1>9. NotifiedInv
  BY <1>1 DEF NotifiedInv
<1>10. OnceInv
  BY <1>1, <1>3 DEF OnceInv
<1>11. LateInv
  BY <1>1 DEF LateInv
<1> QED  BY <1>4, <1>5, <1>6, <1>7, <1>8, <1>9, <1>10, <1>11 DEF IInv

LEMMA InvStep == IInv /\ [Next]_vars => IInv'
<1> SUFFICES ASSUME IInv, [Next]_vars PROVE IInv'
  OBVIOUS
<1>1. Typed /\ RowInv /\ LateInv /\ StageInv /\ PassInv /\ ImportInv /\ NotifiedInv /\ OnceInv
  BY DEF IInv
<1>2. Typed'
  BY <1>1, TypeStep
<1>3. RowInv'
  BY <1>1, RowStep
<1>4. StageInv'
  BY <1>1, StageInvStep
<1>5. PassInv'
  BY <1>1, PassInvStep
<1>6. ImportInv'
  BY <1>1, ImportInvStep
<1>7. NotifiedInv'
  BY <1>1, NotifiedInvStep
<1>8. OnceInv'
  BY <1>1, OnceInvStep
<1>9. LateInv'
  BY <1>1, LateInvStep
<1> QED  BY <1>2, <1>3, <1>4, <1>5, <1>6, <1>7, <1>8, <1>9 DEF IInv

\* The invariant holds in every state the outbox can reach.
THEOREM Invariance == Spec => []IInv
BY InvInit, InvStep, PTL DEF Spec

\* A request marked as notified has told its requester how it ended, and of its
\* import, however failure, silent retry, late import, lost pass and restart met;
\* where BookBot wrote over a failure that was told and marked in the middle of
\* its update, the mark is the failure's and the failure was delivered.
THEOREM OutboxSoundHolds == Spec => []OutboxSound
<1>1. IInv => OutboxSound
  <2> SUFFICES ASSUME IInv PROVE OutboxSound
    OBVIOUS
  <2>1. TypeOK
    BY DEF IInv, Typed
  <2>2. NotifiedKnows
    BY DEF IInv, LateInv, NotifiedInv, NotifiedKnows, Terminal, StatusEvent
  <2> QED  BY <2>1, <2>2 DEF OutboxSound
<1> QED  BY <1>1, Invariance, PTL

\* One row per logical event, and one message per row but for those that a
\* failed call or a restart has cost.
THEOREM NoNeedlessRepeatHolds == Spec => []NoNeedlessRepeat
<1>1. IInv => NoNeedlessRepeat
  <2> SUFFICES ASSUME IInv PROVE NoNeedlessRepeat
    OBVIOUS
  <2>1. Typed /\ OnceInv
    BY DEF IInv
  <2>2. \A i \in DOMAIN outbox : outbox[i].sent <= 1 + faults + crashes
    <3> SUFFICES ASSUME NEW i \in DOMAIN outbox PROVE outbox[i].sent <= 1 + faults + crashes
      OBVIOUS
    <3>1. CountOK(i) /\ outbox[i].sent \in Nat /\ faults \in Nat /\ crashes \in Nat
      BY <2>1, OnceParts, OutboxTyped, CountTyped
    <3> QED  BY <3>1 DEF CountOK
  <2> QED  BY <2>1, <2>2 DEF OnceInv, NoNeedlessRepeat
<1> QED  BY <1>1, Invariance, PTL

\* A background attempt stages nothing, although the check for one is read in a
\* transaction of its own, and passes and replies outlive the state they read.
THEOREM SilentStaysSilentHolds == Spec => SilentStaysSilent
<1> DEFINE Quiet == \A r \in Requests :
                      retry[r].state \in SilentStates => Staged(r)' = Staged(r)
<1>1. IInv /\ [Next]_vars => [Quiet]_vars
  <2> SUFFICES ASSUME IInv, [Next]_vars, NEW r \in Requests, retry[r].state \in SilentStates
               PROVE  Staged(r)' = Staged(r)
    OBVIOUS
  <2>0. Typed /\ RowInv /\ StageInv /\ PassInv /\ StageOK(r) /\ retry[r].state # "none"
        /\ retry[r].state # "fulfilled"
    BY StageParts DEF IInv, SilentStates
  <2>1. ASSUME outbox' = outbox PROVE Staged(r)' = Staged(r)
    BY <2>1, SameKeeps
  <2>2. ASSUME NEW o, NEW e, Stages(o, e), o = r => e \in Staged(r) PROVE Staged(r)' = Staged(r)
    BY <2>2, StagesKeeps
  <2>3. ASSUME \A x : x \in Staged(r)' <=> x \in Staged(r) PROVE Staged(r)' = Staged(r)
    BY <2>3
  <2>4. CASE UNCHANGED vars
    BY <2>1, <2>4 DEF vars
  <2>5. CASE \E q \in Requests : Lifecycle(q)
    <3> PICK q \in Requests : Lifecycle(q)
      BY <2>5
    <3>1. CASE IntakeMisses(q)
      <4>1. q # r /\ outbox' = Enqueued(q, "request_failed")
        BY <2>0, <3>1 DEF IntakeMisses
      <4> QED  BY <2>0, <2>2, <4>1, EnqueueStep, EventsIn
    <3>2. CASE StageReply(q)
      <4>1. Stages(q, Head(reply[q])) /\ reply[q] # <<>> /\ reply[q] \in Seq(Events)
        BY <2>0, <3>2, RepliesStep, EventsIn
      <4>2. 1 \in DOMAIN reply[q] /\ Head(reply[q]) = reply[q][1]
        BY <4>1
      <4>3. q = r => Head(reply[q]) = "request_failed" /\ "request_failed" \in Staged(r)
        BY <2>0, <4>2 DEF StageOK
      <4> QED  BY <2>2, <4>1, <4>3
    <3>3. CASE RecordProgress(q)
      <4>1. q # r
        BY <2>0, <3>3 DEF RecordProgress, StageOK
      <4> QED  BY <2>0, <2>1, <2>2, <3>3, <4>1, ProgressStep
    <3>4. CASE StageAttention(q)
      <4>1. q # r /\ outbox' = Enqueued(q, "submission_uncertain")
        BY <2>0, <3>4 DEF StageAttention, StageOK
      <4> QED  BY <2>0, <2>2, <4>1, EnqueueStep, EventsIn
    <3>5. CASE IntakeAnswers(q) \/ SeeVisible(q) \/ Completes(q) \/ ImportFails(q) \/ ClaimRetry(q)
               \/ RetryHandsOff(q) \/ RetryMisses(q)
      BY <2>1, <3>5 DEF IntakeAnswers, SeeVisible, Completes, ImportFails, ClaimRetry,
                        RetryHandsOff, RetryMisses
    <3> QED  BY <3>1, <3>2, <3>3, <3>4, <3>5 DEF Lifecycle
  <2>6. CASE \E w \in Workers : PassStep(w) \/ PassRaises(w)
    <3> PICK w \in Workers : PassStep(w) \/ PassRaises(w)
      BY <2>6
    <3>1. CASE StagePlan(w)
      <4> DEFINE h == Head(pass[w].plans)
      <4>1. h \in Plan /\ Stages(h[1], h[2])
        BY <2>0, <3>1, PlanStep
      <4>2. h = <<h[1], h[2]>> /\ h[1] \in Requests /\ h[2] \in Events
        BY <4>1 DEF Plan
      <4>3. HasPlan(w, h[1], h[2])
        BY <2>0, <3>1, <4>2, TailPlans
      <4>4. h[2] = "request_failed" \/ Settled(h[1])
        BY <2>0, <4>2, <4>3, PassParts DEF PassOK, PlanOK
      <4> HIDE DEF h
      <4>5. h[1] = r => h[2] \in Staged(r)
        BY <2>0, <4>4 DEF StageOK, Settled
      <4> QED  BY <2>2, <4>1, <4>5
    <3>2. CASE SendSucceeds(w)
      BY <2>0, <2>3, <3>2, SucceedsTurns, TouchesKeeps
    <3>3. CASE SendFails(w)
      <4>1. outbox' = outbox \/ \E i : Touches(i, [outbox[i] EXCEPT !.sent = @ + 1])
        BY <2>0, <3>3, FailsTurns
      <4> QED  BY <2>1, <2>3, <4>1, TouchesKeeps
    <3>4. CASE MarkDelivered(w)
      BY <2>0, <2>3, <3>4, MarkTurns, TouchesKeeps
    <3>5. CASE BeginPass(w) \/ CheckTerminal(w) \/ ReadPending(w) \/ Finalize(w) \/ EndPass(w)
               \/ PassRaises(w)
      BY <2>1, <3>5 DEF BeginPass, CheckTerminal, ReadPending, Finalize, EndPass, PassRaises
    <3> QED  BY <3>1, <3>2, <3>3, <3>4, <3>5 DEF PassStep
  <2>7. CASE Restart
    BY <2>1, <2>7 DEF Restart
  <2>8. CASE \E q \in Requests : BookBot(q)
    BY <2>1, <2>8, BookBotOnlyWrites
  <2> QED  BY <2>4, <2>5, <2>6, <2>7, <2>8 DEF Next
<1>2. [][Quiet]_vars => SilentStaysSilent
  BY PTL DEF SilentStaysSilent
<1> HIDE DEF Quiet
<1> QED  BY <1>1, <1>2, Invariance, PTL DEF Spec
=============================================================================
