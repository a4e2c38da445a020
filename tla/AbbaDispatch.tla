----------------------------- MODULE AbbaDispatch -----------------------------
(* Huey's side of an audiobook acquisition: the thread that dispatches a      *)
(* request (orchestrator.py, clients.py), the poll that recovers and follows  *)
(* it (huey.py reconcile_abba_requests), and the rows both write.  The        *)
(* adapter is AbbaOwnership: it acts for a request once it has been asked,    *)
(* and answers, or does not, at any time.                                     *)
EXTENDS Naturals, FiniteSets

CONSTANTS Requests, Candidates, Hashes, NoHash, NoRequest, NoCandidate,
          Silent,        \* requests whose answers from the adapter never arrive
          MaxRestarts

VARIABLES
    rows,       \* requests: [status, cand, marked, hash, canon, startup]
    own,        \* the adapter's side
    asked,      \* requests with a grab the adapter may still act on
    worker,     \* the thread of each request: [pc, job]
    poll,       \* the reconciliation pass: [pc, todo, req, job]
    restarts

vars == <<rows, own, asked, worker, poll, restarts>>

Adapter == INSTANCE AbbaOwnership WITH Correlations <- Requests, NoCorrelation <- NoRequest

Active == {"processing", "queued", "completed"}
NewRow == [status |-> "new", cand |-> NoCandidate, marked |-> FALSE, hash |-> NoHash,
           canon |-> NoRequest, startup |-> FALSE]
NoJob == [is |-> "nothing", hash |-> NoHash, root |-> NoRequest]
IdleWorker == [pc |-> "idle", job |-> NoJob]
IdlePoll == [pc |-> "idle", todo |-> {}, req |-> NoRequest, job |-> NoJob]

\* What a call's outcome can be: an exact job, or one of the client's errors.
Jobs == [is : {"nothing", "holds", "joined", "refused", "lost", "uncertain", "rejected", "broken"},
         hash : Hashes \cup {NoHash}, root : Requests \cup {NoRequest}]

TypeOK ==
    /\ rows \in [Requests -> [status : {"new", "processing", "queued", "completed", "failed", "needs_selection"},
           cand : Candidates \cup {NoCandidate}, marked : BOOLEAN, hash : Hashes \cup {NoHash},
           canon : Requests \cup {NoRequest}, startup : BOOLEAN]]
    /\ asked \subseteq Requests
    /\ worker \in [Requests -> [pc : {"idle", "reserve", "post", "wait", "persist"}, job : Jobs]]
    /\ poll \in [pc : {"idle", "recover", "resume", "answer", "persist", "follow"}, todo : SUBSET Requests,
                 req : Requests \cup {NoRequest}, job : Jobs]
    /\ restarts \in 0..MaxRestarts

-----------------------------------------------------------------------------
(* The store                                                               *)

\* Mutant: rows that already follow the alias keep pointing at it.
RepointNone(a, o) == [r \in Requests |-> rows[r]]

\* _repoint_aliased_request
Repoint(a, o) ==
    [r \in Requests |-> IF rows[r].canon = a THEN [rows[r] EXCEPT !.canon = o] ELSE rows[r]]

\* _coalesce_abba_row: a becomes an inert alias of o.
Aliased(a, o) == [Repoint(a, o) EXCEPT ![a].status = "failed", ![a].canon = o]

\* Mutant: only a request that is already queued owns its listing.
CandidateOwnersQueued(c, k) ==
    {r \in Requests \ {c} : rows[r].cand = k /\ rows[r].canon = NoRequest /\ rows[r].status \in {"queued", "completed"}}

CandidateOwners(c, k) ==
    {r \in Requests \ {c} : rows[r].cand = k /\ rows[r].canon = NoRequest /\ rows[r].status \in Active}

HashOwners(c, h) ==
    {r \in Requests \ {c} : /\ h # NoHash /\ rows[r].hash = h /\ rows[r].canon = NoRequest
                            /\ rows[r].status \in Active}

\* coalesce_abba_request accepts this owner for an alias the adapter reported.
MayJoin(c, job) ==
    LET o == job.root IN
        /\ o # c /\ rows[o].canon = NoRequest
        /\ rows[o].status \in Active \cup {"failed"}
        /\ rows[c].status \in {"processing", "queued"}
        /\ rows[c].hash \in {NoHash, job.hash} /\ rows[o].hash \in {NoHash, job.hash}

\* transition(queued): a hash another request has already is a duplicate.
Queued(c, h) ==
    IF HashOwners(c, h) # {}
    THEN Aliased(c, CHOOSE o \in HashOwners(c, h) : TRUE)
    ELSE [rows EXCEPT ![c].status = "queued", ![c].hash = h]

\* Mutant: the external status is stored as the request's.
InDoubtRaw == "submission_uncertain"

\* The status of a dispatch whose outcome is unknown.
InDoubt == "queued"

\* What an exact job, or the lack of one, does to an unaliased request.
Persisted(c, job) ==
    CASE job.is = "holds" -> Queued(c, job.hash)
      [] job.is = "joined" -> IF MayJoin(c, job) THEN Aliased(c, job.root) ELSE rows
      [] job.is \in {"refused", "lost", "rejected", "broken"} ->
             [rows EXCEPT ![c].status = "failed", ![c].hash = job.hash]
      [] job.is = "uncertain" -> [rows EXCEPT ![c].status = InDoubt, ![c].hash = NoHash]

-----------------------------------------------------------------------------
(* The dispatching thread                                                  *)

\* The request, or a confirmed choice, has one exact listing.
Dispatch(c) ==
    /\ rows[c].status = "new"
    /\ rows' = [rows EXCEPT ![c].status = "processing"]
    /\ worker' = [worker EXCEPT ![c].pc = "reserve"]
    /\ UNCHANGED <<own, asked, poll, restarts>>

\* reserve_abba_dispatch, one transaction
Reserve(c, k) ==
    /\ worker[c].pc = "reserve"
    /\ IF CandidateOwners(c, k) # {}
       THEN /\ \E o \in CandidateOwners(c, k) : rows' = Aliased(c, o)
            /\ worker' = [worker EXCEPT ![c] = IdleWorker]
       ELSE /\ rows' = [rows EXCEPT ![c].cand = k, ![c].marked = TRUE]
            /\ worker' = [worker EXCEPT ![c].pc = "post"]
    /\ UNCHANGED <<own, asked, poll, restarts>>

Post(c) ==
    /\ worker[c].pc = "post"
    /\ asked' = asked \cup {c}
    /\ worker' = [worker EXCEPT ![c].pc = "wait"]
    /\ UNCHANGED <<rows, own, poll, restarts>>

\* Mutant: a lost answer without a job is a failed acquisition.
UnansweredFails == [NoJob EXCEPT !.is = "broken"]

Unanswered == [NoJob EXCEPT !.is = "uncertain"]

\* The answer to the POST, or to the status query after it was lost.  A
\* definite rejection means that the adapter is done with the call.
Rejected == [NoJob EXCEPT !.is = "rejected"]

Answers(c) ==
    {Unanswered} \cup (IF c \in Silent THEN {}
                      ELSE IF own[c].is = "nothing" THEN {Rejected} ELSE {own[c]})

Outcome(c, job) == asked' = IF job = Rejected THEN asked \ {c} ELSE asked

Wait(c) ==
    /\ worker[c].pc = "wait"
    /\ \E job \in Answers(c) :
           /\ Outcome(c, job)
           /\ worker' = [worker EXCEPT ![c] = [pc |-> "persist", job |-> job]]
    /\ UNCHANGED <<rows, own, poll, restarts>>

\* One transaction; an owner it does not accept leaves the row as it is.
Persist(c) ==
    /\ worker[c].pc = "persist"
    /\ rows' = IF rows[c].canon = NoRequest THEN Persisted(c, worker[c].job) ELSE rows
    /\ worker' = [worker EXCEPT ![c] = IdleWorker]
    /\ UNCHANGED <<own, asked, poll, restarts>>

-----------------------------------------------------------------------------
(* The reconciliation pass                                                 *)

\* uncertain_abba_requests and interrupted_abba_requests
Recoverable(c) ==
    /\ rows[c].marked /\ rows[c].hash = NoHash
    /\ \/ rows[c].status = "queued"
       \/ rows[c].status = "processing" /\ rows[c].startup

Recovering == {c \in Requests : Recoverable(c)}
Following == {c \in Requests : rows[c].status = "queued" /\ rows[c].hash # NoHash}

Begin ==
    /\ poll.pc = "idle" /\ Recovering \cup Following # {}
    /\ poll' = [IdlePoll EXCEPT !.pc = "recover", !.todo = Recovering]
    /\ UNCHANGED <<rows, own, asked, worker, restarts>>

\* Mutant: an error of one request ends the pass.
NextOrNone(c) == IdlePoll

\* The pass goes on with the next request.
NextRequest(c) == [poll EXCEPT !.pc = "recover", !.todo = @ \ {c}, !.req = NoRequest, !.job = NoJob]

\* ORDER BY updated_at: a request without answers is not updated and comes first.
Oldest(c) == c \in Silent \/ poll.todo \cap Silent = {}

\* recover_request: a job, none, or an error, which only tells the operator.
Recover(c) ==
    /\ poll.pc = "recover" /\ c \in poll.todo /\ Oldest(c)
    /\ \/ poll' = NextRequest(c)
       \/ /\ c \notin Silent /\ own[c].is # "nothing"
          /\ poll' = [poll EXCEPT !.pc = "persist", !.req = c, !.job = own[c]]
       \/ /\ c \notin Silent /\ own[c].is = "nothing"
          /\ poll' = [poll EXCEPT !.pc = "resume", !.req = c]
    /\ UNCHANGED <<rows, own, asked, worker, restarts>>

\* resume_grab: the persisted listing is asked for again.
Resume ==
    /\ poll.pc = "resume"
    /\ asked' = asked \cup {poll.req}
    /\ poll' = [poll EXCEPT !.pc = "answer"]
    /\ UNCHANGED <<rows, own, worker, restarts>>

Answer ==
    /\ poll.pc = "answer"
    /\ \E job \in Answers(poll.req) :
           /\ Outcome(poll.req, job)
           /\ poll' = IF job = Unanswered THEN NextRequest(poll.req)
                      ELSE [poll EXCEPT !.pc = "persist", !.job = job]
    /\ UNCHANGED <<rows, own, worker, restarts>>

\* persist_recovered, coalesce_alias, reject_unrecoverable_candidate
PersistRecovered ==
    /\ poll.pc = "persist"
    /\ LET c == poll.req
       IN  /\ rows' = CASE rows[c].canon # NoRequest -> rows
                        [] rows[c].canon = NoRequest /\ poll.job = Rejected ->
                               [rows EXCEPT ![c].status = "needs_selection"]
                        [] OTHER -> Persisted(c, poll.job)
           /\ poll' = NextRequest(c)
    /\ UNCHANGED <<own, asked, worker, restarts>>

\* Then the queued requests, read after the recoveries.
Follow ==
    /\ poll.pc = "recover" /\ poll.todo = {}
    /\ poll' = [poll EXCEPT !.pc = "follow", !.todo = Following]
    /\ UNCHANGED <<rows, own, asked, worker, restarts>>

\* Progress is recorded quietly; only a failed job changes the status, and
\* only of a row that is still queued (record_abba_state).
Observe(c) ==
    /\ poll.pc = "follow" /\ c \in poll.todo
    /\ \/ UNCHANGED rows
       \/ /\ c \notin Silent /\ own[c].is = "lost" /\ rows[c].status = "queued"
          /\ rows' = [rows EXCEPT ![c].status = "failed"]
    /\ poll' = [poll EXCEPT !.todo = @ \ {c}]
    /\ UNCHANGED <<own, asked, worker, restarts>>

End ==
    /\ poll.pc = "follow" /\ poll.todo = {}
    /\ poll' = IdlePoll
    /\ UNCHANGED <<rows, own, asked, worker, restarts>>

-----------------------------------------------------------------------------
(* Everything else                                                         *)

\* The adapter decides for a request it was asked about, whenever it can.
Act(c) ==
    /\ c \in asked
    /\ Adapter!Hold(c) \/ Adapter!Join(c) \/ Adapter!Refuse(c) \/ Adapter!Lose(c)
    /\ UNCHANGED <<rows, asked, worker, poll, restarts>>

\* BookBot imported the torrent this request is queued for.  Its check and its
\* UPDATE are one step here; a request that fails between them is completed all
\* the same in the code, which EbookCascade and NotificationOutbox model.
Import(c) ==
    /\ own[c].is = "holds" /\ rows[c].status = "queued" /\ rows[c].hash = own[c].hash
    /\ rows' = [rows EXCEPT ![c].status = "completed"]
    /\ UNCHANGED <<own, asked, worker, poll, restarts>>

\* Mutant: every interrupted dispatch is released at start-up.
InterruptedReleased(r) == [r EXCEPT !.status = "needs_selection"]

\* A dispatch that crossed the boundary is kept; any other one has failed.
Interrupted(r) == IF r.marked THEN [r EXCEPT !.startup = TRUE] ELSE [r EXCEPT !.status = "failed"]

Restart ==
    /\ restarts < MaxRestarts /\ restarts' = restarts + 1
    /\ rows' = [c \in Requests |-> IF rows[c].status = "processing" THEN Interrupted(rows[c]) ELSE rows[c]]
    /\ worker' = [c \in Requests |-> IdleWorker]
    /\ poll' = IdlePoll
    /\ UNCHANGED <<own, asked>>

Init ==
    /\ rows = [c \in Requests |-> NewRow]
    /\ Adapter!Init
    /\ asked = {}
    /\ worker = [c \in Requests |-> IdleWorker]
    /\ poll = IdlePoll
    /\ restarts = 0

WorkerStep(c) == Dispatch(c) \/ (\E k \in Candidates : Reserve(c, k)) \/ Post(c) \/ Wait(c) \/ Persist(c)
PollStep == Resume \/ Answer \/ PersistRecovered \/ Follow \/ End \/ \E c \in Requests : Recover(c) \/ Observe(c)

Next ==
    \/ \E c \in Requests : WorkerStep(c) \/ Act(c) \/ Import(c)
    \/ Begin \/ PollStep
    \/ Restart

Spec == Init /\ [][Next]_vars

\* Huey polls for ever; an adapter that is not silent answers some of the
\* polls, and finishes what it was asked.
Answered(c) == Recover(c) /\ poll'.pc # "recover"
AnsweredResume(c) == poll.req = c /\ Answer /\ poll'.pc = "persist"

Fairness ==
    /\ WF_vars(Begin) /\ WF_vars(PollStep)
    /\ \A c \in Requests :
          /\ WF_vars(WorkerStep(c)) /\ WF_vars(Act(c) /\ own[c].is = "nothing")
          /\ SF_vars(Answered(c)) /\ SF_vars(AnsweredResume(c))

FairSpec == Spec /\ Fairness

-----------------------------------------------------------------------------
(* Properties                                                              *)

\* What the adapter holds for a request, Huey tracks: neither a lost answer nor
\* a restart nor another request makes it failed, released, or an alias.
NothingForgotten ==
    \A c \in Requests : own[c].is = "holds" => rows[c].status \in Active /\ rows[c].canon = NoRequest

\* No two live requests own a listing or a hash: no write meets a unique index.
IdentitiesUnique ==
    \A c \in Requests : rows[c].status \in Active /\ rows[c].canon = NoRequest =>
        /\ HashOwners(c, rows[c].hash) = {}
        /\ rows[c].cand # NoCandidate => CandidateOwners(c, rows[c].cand) = {}

\* Whatever follows an alias must find its owner in one step, though the owner
\* itself can become an alias later.
AliasesFlat ==
    \A c \in Requests : rows[c].canon # NoRequest =>
        rows[c].canon # c /\ rows[rows[c].canon].canon = NoRequest

\* The two ledgers agree: an owner the adapter names is one Huey can join.
AdapterOwnersUsable ==
    \A c \in Requests : own[c].is = "joined" /\ rows[c].canon = NoRequest /\ rows[c].status \in {"processing", "queued"}
        => MayJoin(c, own[c])

\* An adapter that never answers for one request does not stop the others:
\* a dispatch in doubt is settled.
OthersRecover == \A c \in Requests \ Silent : []<>~Recoverable(c)

\* Huey's rows are sound and agree with the adapter about who owns what.
LedgersAgree ==
    TypeOK /\ NothingForgotten /\ IdentitiesUnique /\ AliasesFlat /\ AdapterOwnersUsable
=============================================================================
