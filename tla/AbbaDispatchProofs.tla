-------------------------- MODULE AbbaDispatchProofs --------------------------
(* Huey's ledger and the adapter's agree (LedgersAgree), for every set of      *)
(* requests, listings, hashes and silent requests and every number of          *)
(* restarts.  What is used of the adapter is its contract, AbbaOwnership.      *)
EXTENDS AbbaDispatch, TLAPS

-----------------------------------------------------------------------------
(* The inductive invariant                                                  *)

\* NULL is no request, no listing and no hash.
NullsAreNone == NoRequest \notin Requests /\ NoCandidate \notin Candidates /\ NoHash \notin Hashes

Typing == TypeOK /\ own \in [Requests -> Jobs]

\* The contract: a hash has one holder for good, and who is joined is joined
\* to the holder.
Held(c) == own[c].is \in {"holds", "lost"}
Claimed(c) ==
    /\ own[c].is \in {"nothing", "holds", "joined", "refused", "lost"}
    /\ IF own[c].is \in {"nothing", "refused"} THEN own[c].hash = NoHash ELSE own[c].hash \in Hashes
    /\ own[c].is = "joined" =>
           own[c].root \in Requests /\ Held(own[c].root) /\ own[own[c].root].hash = own[c].hash
HoldersUnique ==
    \A c, d \in Requests : Held(c) /\ Held(d) /\ own[c].hash = own[d].hash => c = d

\* A row against what the adapter holds for it, or still may.
RowTrue(c) ==
    /\ c \in asked \/ own[c].is # "nothing" => rows[c].marked
    /\ rows[c].marked <=> rows[c].cand # NoCandidate
    /\ rows[c].status = "new" => ~rows[c].marked /\ ~rows[c].startup /\ rows[c].hash = NoHash
    /\ rows[c].hash # NoHash => Held(c) /\ own[c].hash = rows[c].hash
    /\ Held(c) => rows[c].status \in Active \cup {"failed"} /\ rows[c].canon = NoRequest
    /\ rows[c].canon # NoRequest => rows[c].status = "failed"
    /\ rows[c].status \notin Active => own[c].is # "holds" /\ (own[c].is = "nothing" => c \notin asked)

\* An answer is what the adapter holds, or held; a rejected call is over.
JobTrue(c, job) ==
    \/ job = Unanswered
    \/ job = Rejected /\ own[c].is = "nothing" /\ c \notin asked
    \/ job.is \in {"holds", "joined", "refused", "lost"} /\ job = own[c]
    \/ job.is = "holds" /\ own[c].is = "lost" /\ job.hash = own[c].hash

\* A thread owns its row: the pass does not recover it.
WorkerTrue(c) ==
    worker[c].pc # "idle" =>
        /\ rows[c].status = "processing" /\ ~rows[c].startup /\ rows[c].hash = NoHash
        /\ rows[c].marked <=> worker[c].pc # "reserve"
        /\ worker[c].pc = "persist" => JobTrue(c, worker[c].job)

\* What the pass has read to recover still has to be recovered.
PollTrue ==
    /\ poll.pc \in {"recover", "resume", "answer", "persist"} => \A c \in poll.todo : Recoverable(c)
    /\ poll.pc \in {"resume", "answer", "persist"} => poll.req \in Requests /\ Recoverable(poll.req)
    /\ poll.pc = "persist" => JobTrue(poll.req, poll.job) /\ poll.job # Unanswered

\* One live request per listing.
ListingsUnique ==
    \A c, d \in Requests :
        rows[c].status \in Active /\ rows[d].status \in Active
            /\ rows[c].cand = rows[d].cand /\ rows[c].cand # NoCandidate => c = d

RowsTrue == \A c \in Requests : Claimed(c) /\ RowTrue(c) /\ WorkerTrue(c)
IInv == Typing /\ HoldersUnique /\ RowsTrue /\ PollTrue /\ ListingsUnique /\ AliasesFlat

-----------------------------------------------------------------------------
(* Rows                                                                     *)

Rows == [status : {"new", "processing", "queued", "completed", "failed", "needs_selection"},
         cand : Candidates \cup {NoCandidate}, marked : BOOLEAN, hash : Hashes \cup {NoHash},
         canon : Requests \cup {NoRequest}, startup : BOOLEAN]

\* What a step of another request may change of a row: whom it follows.
SameRow(d) ==
    /\ rows'[d].status = rows[d].status /\ rows'[d].cand = rows[d].cand /\ rows'[d].marked = rows[d].marked
    /\ rows'[d].hash = rows[d].hash /\ rows'[d].startup = rows[d].startup
    /\ rows'[d].canon = NoRequest <=> rows[d].canon = NoRequest
OthersSame(c) == \A d \in Requests : d # c => SameRow(d)

\* The tables after a step are sound by themselves.
TablesSound == rows \in [Requests -> Rows] /\ ListingsUnique /\ AliasesFlat

\* A row that changes in place, and does not become live by it.
LEMMA RowChanges ==
    ASSUME IInv, NEW c \in Requests, NEW e \in Rows, rows' = [rows EXCEPT ![c] = e],
           e.canon = rows[c].canon, e.cand # NoCandidate => e.cand = rows[c].cand,
           e.status \in Active /\ e.cand # NoCandidate => rows[c].status \in Active
    PROVE  TablesSound' /\ OthersSame(c) /\ rows'[c] = e
<1>1. rows \in [Requests -> Rows]
  BY DEF IInv, Typing, TypeOK, Rows
<1>2. rows' \in [Requests -> Rows] /\ rows'[c] = e /\ \A d \in Requests : d # c => rows'[d] = rows[d]
  BY <1>1
<1>3. ListingsUnique'
  BY <1>2 DEF IInv, ListingsUnique
<1>4. AliasesFlat'
  <2>1. \A d \in Requests : rows'[d].canon = rows[d].canon
    BY <1>2
  <2>2. \A d \in Requests : rows[d].canon \in Requests \cup {NoRequest}
    BY <1>1 DEF Rows
  <2> QED BY <2>1, <2>2 DEF IInv, AliasesFlat
<1> QED BY <1>2, <1>3, <1>4 DEF TablesSound, OthersSame, SameRow

\* A row that becomes an alias of one that is none.
LEMMA RowAliased ==
    ASSUME NullsAreNone, IInv, NEW a \in Requests, NEW o \in Requests, o # a, rows[o].canon = NoRequest,
           rows' = Aliased(a, o)
    PROVE  /\ TablesSound' /\ OthersSame(a)
           /\ rows'[a].status = "failed" /\ rows'[a].canon = o /\ rows'[a].cand = rows[a].cand
           /\ rows'[a].marked = rows[a].marked /\ rows'[a].hash = rows[a].hash /\ rows'[a].startup = rows[a].startup
<1>1. rows \in [Requests -> Rows]
  BY DEF IInv, Typing, TypeOK, Rows
<1>2. ASSUME NEW d \in Requests, d # a
      PROVE  /\ rows'[d] \in Rows /\ SameRow(d)
             /\ rows'[d].canon = IF rows[d].canon = a THEN o ELSE rows[d].canon
  <2>1. rows'[d] = IF rows[d].canon = a THEN [rows[d] EXCEPT !.canon = o] ELSE rows[d]
    BY <1>2 DEF Aliased, Repoint
  <2>2. rows[d] \in Rows
    BY <1>1
  <2> QED BY <2>1, <2>2 DEF Rows, SameRow, NullsAreNone
<1>3. rows[a].canon # a
  BY DEF IInv, AliasesFlat, NullsAreNone
<1>4. /\ rows'[a] \in Rows /\ rows'[a].status = "failed" /\ rows'[a].canon = o /\ rows'[a].cand = rows[a].cand
      /\ rows'[a].marked = rows[a].marked /\ rows'[a].hash = rows[a].hash /\ rows'[a].startup = rows[a].startup
  <2>1. rows'[a] = [rows[a] EXCEPT !.status = "failed", !.canon = o]
    BY <1>3 DEF Aliased, Repoint
  <2>2. rows[a] \in Rows
    BY <1>1
  <2> QED BY <2>1, <2>2 DEF Rows
<1>5. rows' \in [Requests -> Rows]
  <2>1. rows' = [d \in Requests |-> rows'[d]]
    BY DEF Aliased, Repoint
  <2> QED BY <1>2, <1>4, <2>1
<1>6. ListingsUnique'
  BY <1>2, <1>4 DEF IInv, ListingsUnique, SameRow, Active
<1>7. AliasesFlat'
  <2>1. rows'[o].canon = NoRequest
    BY <1>2 DEF SameRow
  <2>2. ASSUME NEW d \in Requests, d # a, rows'[d].canon # NoRequest
        PROVE  rows'[d].canon # d /\ rows'[rows'[d].canon].canon = NoRequest
    <3>1. rows[d].canon # NoRequest /\ rows[d].canon \in Requests /\ rows[d].canon # d
      BY <1>1, <1>2, <2>2 DEF SameRow, Rows, IInv, AliasesFlat
    <3>2. CASE rows[d].canon = a
      BY <1>2, <2>1, <2>2, <3>2
    <3>3. CASE rows[d].canon # a
      <4>1. rows'[d].canon = rows[d].canon /\ rows[rows[d].canon].canon = NoRequest
        BY <1>2, <2>2, <3>1, <3>3 DEF IInv, AliasesFlat
      <4> QED BY <1>2, <3>1, <3>3, <4>1 DEF SameRow
    <3> QED BY <3>2, <3>3
  <2> QED BY <1>4, <2>1, <2>2 DEF AliasesFlat
<1> QED BY <1>2, <1>4, <1>5, <1>6, <1>7 DEF TablesSound, OthersSame

\* Nobody has the hash another request holds: no hash is a duplicate.
LEMMA HashUnowned ==
    ASSUME NullsAreNone, IInv, NEW c \in Requests, NEW h, h # NoHash, Held(c), own[c].hash = h
    PROVE  HashOwners(c, h) = {}
BY DEF IInv, RowsTrue, RowTrue, HoldersUnique, HashOwners

\* An answer that is recorded for a request in doubt leaves its row sound.
LEMMA PersistedTrue ==
    ASSUME NullsAreNone, IInv, NEW c \in Requests, NEW job \in Jobs, JobTrue(c, job), rows[c].marked,
           rows[c].hash = NoHash, rows[c].status \in {"processing", "queued"},
           rows' = Persisted(c, job), own' = own, asked' = asked
    PROVE  TablesSound' /\ OthersSame(c) /\ RowTrue(c)'
<1>1. Claimed(c) /\ RowTrue(c) /\ rows[c] \in Rows
  BY DEF IInv, RowsTrue, Typing, TypeOK, Rows
<1>2. rows[c].canon = NoRequest /\ rows[c].status \in Active
  BY <1>1 DEF RowTrue, Active
<1>3. CASE job.is = "holds"
  <2>1. Held(c) /\ own[c].hash = job.hash /\ job.hash \in Hashes /\ job.hash # NoHash
    BY <1>1, <1>3 DEF JobTrue, Unanswered, Rejected, NoJob, Claimed, Held, NullsAreNone
  <2> DEFINE e == [rows[c] EXCEPT !.status = "queued", !.hash = job.hash]
  <2>2. rows' = [rows EXCEPT ![c] = e]
    BY <1>3, <2>1, HashUnowned DEF Persisted, Queued
  <2>3. /\ e \in Rows /\ e.status = "queued" /\ e.hash = job.hash /\ e.canon = rows[c].canon
        /\ e.cand = rows[c].cand /\ e.marked = rows[c].marked
    BY <1>1, <2>1 DEF Rows
  <2> HIDE DEF e
  <2>4. TablesSound' /\ OthersSame(c) /\ rows'[c] = e
    BY <1>2, <2>2, <2>3, RowChanges
  <2>5. RowTrue(c)'
    BY <1>1, <1>2, <2>1, <2>3, <2>4 DEF RowTrue, Held, Active
  <2> QED BY <2>4, <2>5
<1>4. CASE job.is = "joined" /\ MayJoin(c, job)
  <2>1. job = own[c] /\ own[c].is = "joined"
    BY <1>4 DEF JobTrue, Unanswered, Rejected, NoJob
  <2>2. job.root \in Requests /\ job.root # c /\ rows[job.root].canon = NoRequest
    BY <1>1, <1>4, <2>1 DEF MayJoin, Claimed
  <2>3. rows' = Aliased(c, job.root)
    BY <1>4 DEF Persisted
  <2>4. /\ TablesSound' /\ OthersSame(c)
        /\ rows'[c].status = "failed" /\ rows'[c].canon = job.root /\ rows'[c].cand = rows[c].cand
        /\ rows'[c].marked = rows[c].marked /\ rows'[c].hash = rows[c].hash
    BY <2>2, <2>3, RowAliased
  <2>5. RowTrue(c)'
    BY <1>1, <2>1, <2>4 DEF RowTrue, Held, Active
  <2> QED BY <2>4, <2>5
<1>5. CASE job.is = "joined" /\ ~MayJoin(c, job)
  <2>1. rows' = rows
    BY <1>5 DEF Persisted
  <2> QED BY <1>1, <2>1 DEF IInv, Typing, TypeOK, Rows, TablesSound, OthersSame, SameRow, RowTrue, Held,
         ListingsUnique, AliasesFlat
<1>6. CASE job.is \in {"refused", "lost", "rejected"}
  <2>1. own[c].is # "holds" /\ (own[c].is = "nothing" => c \notin asked)
    BY <1>6 DEF JobTrue, Unanswered, Rejected, NoJob
  <2>2. job.hash # NoHash => Held(c) /\ own[c].hash = job.hash
    <3>1. ASSUME job = own[c], job.is = "refused"
          PROVE  job.hash = NoHash
      BY <1>1, <3>1 DEF Claimed
    <3> QED BY <1>6, <3>1 DEF JobTrue, Unanswered, Rejected, NoJob, Held
  <2> DEFINE e == [rows[c] EXCEPT !.status = "failed", !.hash = job.hash]
  <2>3. rows' = [rows EXCEPT ![c] = e]
    BY <1>6 DEF Persisted
  <2>4. /\ e \in Rows /\ e.status = "failed" /\ e.hash = job.hash /\ e.canon = rows[c].canon
        /\ e.cand = rows[c].cand /\ e.marked = rows[c].marked
    BY <1>1 DEF Rows, Jobs
  <2> HIDE DEF e
  <2>5. TablesSound' /\ OthersSame(c) /\ rows'[c] = e
    BY <2>3, <2>4, RowChanges DEF Active
  <2>6. RowTrue(c)'
    BY <1>1, <1>2, <2>1, <2>2, <2>4, <2>5 DEF RowTrue, Held, Active
  <2> QED BY <2>5, <2>6
<1>7. CASE job.is = "uncertain"
  <2> DEFINE e == [rows[c] EXCEPT !.status = "queued", !.hash = NoHash]
  <2>1. rows' = [rows EXCEPT ![c] = e]
    BY <1>7 DEF Persisted, InDoubt
  <2>2. /\ e \in Rows /\ e.status = "queued" /\ e.hash = NoHash /\ e.canon = rows[c].canon
        /\ e.cand = rows[c].cand /\ e.marked = rows[c].marked
    BY <1>1 DEF Rows
  <2> HIDE DEF e
  <2>3. TablesSound' /\ OthersSame(c) /\ rows'[c] = e
    BY <1>2, <2>1, <2>2, RowChanges
  <2>4. RowTrue(c)'
    BY <1>1, <1>2, <2>2, <2>3 DEF RowTrue, Held, Active
  <2> QED BY <2>3, <2>4
<1> QED BY <1>3, <1>4, <1>5, <1>6, <1>7 DEF JobTrue, Unanswered, Rejected, NoJob

-----------------------------------------------------------------------------
(* What a step of one request leaves of the others, and of the pass          *)

\* Nothing of another request changes.
Untouched(d) == SameRow(d) /\ worker'[d] = worker[d] /\ (d \in asked' <=> d \in asked)

\* A request that a step does not touch stays sound.
LEMMA RequestKept ==
    ASSUME NEW d \in Requests, Claimed(d), RowTrue(d), WorkerTrue(d), Untouched(d), own' = own
    PROVE  Claimed(d)' /\ RowTrue(d)' /\ WorkerTrue(d)'
BY DEF Untouched, SameRow, Claimed, RowTrue, WorkerTrue, JobTrue, Held

\* The pass holds no request but those it has to recover.
InPass(c) ==
    \/ poll.pc \in {"recover", "resume", "answer", "persist"} /\ c \in poll.todo
    \/ poll.pc \in {"resume", "answer", "persist"} /\ c = poll.req

\* What the pass holds is in doubt still, and no thread has it.
LEMMA InPassRecoverable ==
    ASSUME IInv, NEW c \in Requests, InPass(c)
    PROVE  Recoverable(c) /\ worker[c].pc = "idle"
BY DEF IInv, InPass, PollTrue, RowsTrue, WorkerTrue, Recoverable

\* A step on a row the pass does not hold leaves the pass right about its own.
LEMMA PassKept ==
    ASSUME IInv, NEW c \in Requests, ~InPass(c), \A d \in Requests : d # c => Untouched(d), own' = own, poll' = poll
    PROVE  PollTrue'
<1>1. poll.todo \subseteq Requests
  BY DEF IInv, Typing, TypeOK
<1>2. \A d \in Requests : d # c /\ Recoverable(d) => Recoverable(d)'
  BY DEF Untouched, SameRow, Recoverable
<1>3. poll.pc \in {"recover", "resume", "answer", "persist"} => \A d \in poll.todo : Recoverable(d)'
  BY <1>1, <1>2 DEF IInv, PollTrue, InPass
<1>4. poll.pc \in {"resume", "answer", "persist"} => poll.req \in Requests /\ poll.req # c /\ Recoverable(poll.req)'
  BY <1>2 DEF IInv, PollTrue, InPass
<1>5. poll.pc = "persist" => JobTrue(poll.req, poll.job)' /\ poll.job # Unanswered
  BY <1>4 DEF IInv, PollTrue, Untouched, JobTrue
<1> QED BY <1>3, <1>4, <1>5 DEF PollTrue, JobTrue

\* A step of a thread, or of BookBot, on a row the pass does not hold.
LEMMA RequestStep ==
    ASSUME IInv, NEW c \in Requests, ~InPass(c), TablesSound', OthersSame(c), RowTrue(c)', WorkerTrue(c)',
           \A d \in Requests : d # c => worker'[d] = worker[d] /\ (d \in asked' <=> d \in asked),
           own' = own, poll' = poll, restarts' = restarts,
           asked' \subseteq Requests, worker'[c] \in [pc : {"idle", "reserve", "post", "wait", "persist"}, job : Jobs],
           \E w : worker' = [worker EXCEPT ![c] = w]
    PROVE  IInv'
<1>1. \A d \in Requests : d # c => Untouched(d)
  BY DEF OthersSame, Untouched
<1>2. RowsTrue'
  <2>1. Claimed(c)'
    BY DEF IInv, RowsTrue, Claimed, Held
  <2> QED BY <1>1, <2>1, RequestKept DEF IInv, RowsTrue
<1>3. PollTrue'
  BY <1>1, PassKept
<1>4. Typing'
  <2>1. worker' \in [Requests -> [pc : {"idle", "reserve", "post", "wait", "persist"}, job : Jobs]]
    BY DEF IInv, Typing, TypeOK
  <2> QED BY <2>1 DEF IInv, Typing, TypeOK, TablesSound, Rows
<1>5. HoldersUnique'
  BY DEF IInv, HoldersUnique, Held
<1> QED BY <1>2, <1>3, <1>4, <1>5 DEF IInv, TablesSound

\* The rows stay as they are.
LEMMA RowsStay ==
    ASSUME IInv, rows' = rows
    PROVE  TablesSound' /\ \A d \in Requests : SameRow(d)
BY DEF IInv, Typing, TypeOK, Rows, TablesSound, SameRow, ListingsUnique, AliasesFlat

-----------------------------------------------------------------------------
(* The dispatching thread                                                   *)

\* The types of one request's thread.
Threads == [pc : {"idle", "reserve", "post", "wait", "persist"}, job : Jobs]

\* One thread moves, the others stand.
LEMMA ThreadMoves ==
    ASSUME IInv, NEW c \in Requests, NEW w \in Threads, worker' = [worker EXCEPT ![c] = w]
    PROVE  worker'[c] = w /\ \A d \in Requests : d # c => worker'[d] = worker[d]
BY DEF IInv, Typing, TypeOK

\* The outcomes without a job are outcomes.
LEMMA JobsTyped == NoJob \in Jobs /\ Unanswered \in Jobs /\ Rejected \in Jobs
BY DEF NoJob, Unanswered, Rejected, Jobs

\* A new row has no identity yet, so taking it up disturbs nobody's.
LEMMA DispatchKeeps ==
    ASSUME IInv, NEW c \in Requests, Dispatch(c)
    PROVE  IInv'
<1>1. rows[c] \in Rows /\ worker[c] \in Threads /\ RowTrue(c) /\ rows[c].status = "new"
  BY DEF IInv, Typing, TypeOK, Rows, Threads, RowsTrue, Dispatch
<1> DEFINE e == [rows[c] EXCEPT !.status = "processing"]
           w == [worker[c] EXCEPT !.pc = "reserve"]
<1>2. /\ e \in Rows /\ e.status = "processing" /\ e.canon = rows[c].canon /\ e.cand = rows[c].cand
      /\ e.marked = rows[c].marked /\ e.hash = rows[c].hash /\ e.startup = rows[c].startup
  BY <1>1 DEF Rows
<1>3. w \in Threads /\ w.pc = "reserve"
  BY <1>1 DEF Threads
<1>4. rows' = [rows EXCEPT ![c] = e] /\ worker' = [worker EXCEPT ![c] = w]
  BY DEF Dispatch
<1> HIDE DEF e, w
<1>5. ~rows[c].marked /\ rows[c].cand = NoCandidate /\ rows[c].canon = NoRequest
  BY <1>1 DEF RowTrue
<1>6. TablesSound' /\ OthersSame(c) /\ rows'[c] = e
  BY <1>2, <1>4, <1>5, RowChanges
<1>7. worker'[c] = w /\ \A d \in Requests : d # c => worker'[d] = worker[d]
  BY <1>3, <1>4, ThreadMoves
<1>8. own' = own /\ asked' = asked /\ poll' = poll /\ restarts' = restarts
  BY DEF Dispatch
<1>9. RowTrue(c)'
  BY <1>1, <1>2, <1>5, <1>6, <1>8 DEF RowTrue, Held, Active
<1>10. WorkerTrue(c)'
  BY <1>1, <1>2, <1>3, <1>5, <1>6, <1>7 DEF WorkerTrue, RowTrue
<1>11. ~InPass(c)
  BY <1>1, InPassRecoverable DEF Recoverable
<1>12. asked' \subseteq Requests
  BY <1>8 DEF IInv, Typing, TypeOK
<1> QED BY <1>3, <1>4, <1>6, <1>7, <1>8, <1>9, <1>10, <1>11, <1>12, RequestStep DEF Threads

\* A thread's row is the thread's alone.
LEMMA ThreadRow ==
    ASSUME IInv, NEW c \in Requests, worker[c].pc # "idle"
    PROVE  /\ ~InPass(c) /\ RowTrue(c) /\ WorkerTrue(c) /\ Claimed(c)
           /\ rows[c] \in Rows /\ worker[c] \in Threads
           /\ rows[c].status = "processing" /\ rows[c].canon = NoRequest /\ rows[c].hash = NoHash
           /\ ~rows[c].startup /\ (rows[c].marked <=> worker[c].pc # "reserve")
BY InPassRecoverable DEF IInv, Typing, TypeOK, Rows, Threads, RowsTrue, RowTrue, WorkerTrue

\* reserve_abba_dispatch: the row follows the listing's live owner, or becomes it.
\* Nothing was sent for it, so nothing the adapter holds is forgotten.
LEMMA ReserveKeeps ==
    ASSUME NullsAreNone, IInv, NEW c \in Requests, NEW k \in Candidates, Reserve(c, k)
    PROVE  IInv'
<1>1. /\ ~InPass(c) /\ RowTrue(c) /\ rows[c] \in Rows /\ worker[c] \in Threads
      /\ rows[c].status = "processing" /\ rows[c].canon = NoRequest /\ rows[c].hash = NoHash
      /\ ~rows[c].startup /\ ~rows[c].marked
  BY ThreadRow DEF Reserve
<1>2. own[c].is = "nothing" /\ c \notin asked /\ rows[c].cand = NoCandidate
  BY <1>1 DEF RowTrue
<1>3. own' = own /\ asked' = asked /\ poll' = poll /\ restarts' = restarts /\ asked \subseteq Requests
  BY DEF Reserve, IInv, Typing, TypeOK
<1>4. CASE CandidateOwners(c, k) # {}
  <2>1. PICK o \in CandidateOwners(c, k) : rows' = Aliased(c, o)
    BY <1>4 DEF Reserve
  <2>2. o \in Requests /\ o # c /\ rows[o].canon = NoRequest
    BY DEF CandidateOwners
  <2>3. /\ TablesSound' /\ OthersSame(c)
        /\ rows'[c].status = "failed" /\ rows'[c].canon = o /\ rows'[c].cand = rows[c].cand
        /\ rows'[c].marked = rows[c].marked /\ rows'[c].hash = rows[c].hash
    BY <2>1, <2>2, RowAliased
  <2>4. IdleWorker \in Threads /\ IdleWorker.pc = "idle" /\ worker' = [worker EXCEPT ![c] = IdleWorker]
    BY <1>4, JobsTyped DEF Reserve, IdleWorker, Threads
  <2>5. worker'[c] = IdleWorker /\ \A d \in Requests : d # c => worker'[d] = worker[d]
    BY <2>4, ThreadMoves
  <2>6. RowTrue(c)'
    BY <1>1, <1>2, <1>3, <2>3 DEF RowTrue, Held, Active
  <2>7. WorkerTrue(c)'
    BY <2>4, <2>5 DEF WorkerTrue
  <2> QED BY <1>1, <1>3, <2>3, <2>4, <2>5, <2>6, <2>7, RequestStep DEF Threads
<1>5. CASE CandidateOwners(c, k) = {}
  <2> DEFINE e == [rows[c] EXCEPT !.cand = k, !.marked = TRUE]
             w == [worker[c] EXCEPT !.pc = "post"]
  <2>1. /\ e \in Rows /\ e.status = "processing" /\ e.canon = NoRequest /\ e.cand = k
        /\ e.marked /\ e.hash = NoHash /\ ~e.startup
    BY <1>1 DEF Rows
  <2>2. w \in Threads /\ w.pc = "post"
    BY <1>1 DEF Threads
  <2>3. rows' = [rows EXCEPT ![c] = e] /\ worker' = [worker EXCEPT ![c] = w]
    BY <1>5 DEF Reserve
  <2> HIDE DEF e, w
  <2>4. worker'[c] = w /\ \A d \in Requests : d # c => worker'[d] = worker[d]
    BY <2>2, <2>3, ThreadMoves
  <2>5. rows' \in [Requests -> Rows] /\ rows'[c] = e /\ \A d \in Requests : d # c => rows'[d] = rows[d]
    BY <2>1, <2>3 DEF IInv, Typing, TypeOK, Rows
  <2>6. OthersSame(c)
    BY <2>5 DEF OthersSame, SameRow
  <2>7. ListingsUnique'
    <3>1. ASSUME NEW d \in Requests, d # c, rows[d].status \in Active, rows[d].cand = k
          PROVE  FALSE
      <4>1. RowTrue(d)
        BY DEF IInv, RowsTrue
      <4>2. rows[d].canon = NoRequest
        BY <3>1, <4>1 DEF RowTrue, Active
      <4> QED BY <1>5, <3>1, <4>2 DEF CandidateOwners
    <3> QED BY <2>1, <2>5, <3>1 DEF IInv, ListingsUnique
  <2>8. AliasesFlat'
    <3>1. \A d \in Requests : rows'[d].canon = rows[d].canon /\ rows[d].canon \in Requests \cup {NoRequest}
      BY <1>1, <2>1, <2>5 DEF IInv, Typing, TypeOK
    <3> QED BY <3>1 DEF IInv, AliasesFlat
  <2>9. TablesSound'
    BY <2>5, <2>7, <2>8 DEF TablesSound
  <2>10. RowTrue(c)'
    BY <1>1, <1>2, <1>3, <2>1, <2>5 DEF RowTrue, Held, Active, NullsAreNone
  <2>11. WorkerTrue(c)'
    BY <2>1, <2>2, <2>4, <2>5 DEF WorkerTrue
  <2> QED BY <1>1, <1>3, <2>2, <2>3, <2>4, <2>6, <2>9, <2>10, <2>11, RequestStep DEF Threads
<1> QED BY <1>4, <1>5

\* The request is sent only after its row was marked.
LEMMA PostKeeps ==
    ASSUME IInv, NEW c \in Requests, Post(c)
    PROVE  IInv'
<1>1. /\ ~InPass(c) /\ RowTrue(c) /\ worker[c] \in Threads
      /\ rows[c].status = "processing" /\ rows[c].hash = NoHash /\ ~rows[c].startup /\ rows[c].marked
  BY ThreadRow DEF Post
<1> DEFINE w == [worker[c] EXCEPT !.pc = "wait"]
<1>2. w \in Threads /\ w.pc = "wait" /\ worker' = [worker EXCEPT ![c] = w]
  BY <1>1 DEF Threads, Post
<1> HIDE DEF w
<1>3. worker'[c] = w /\ \A d \in Requests : d # c => worker'[d] = worker[d]
  BY <1>2, ThreadMoves
<1>4. /\ own' = own /\ poll' = poll /\ restarts' = restarts /\ rows' = rows
      /\ asked' \subseteq Requests /\ \A d \in Requests : d # c => (d \in asked' <=> d \in asked)
  BY DEF Post, IInv, Typing, TypeOK
<1>5. TablesSound' /\ OthersSame(c)
  BY <1>4, RowsStay DEF OthersSame
<1>6. RowTrue(c)'
  BY <1>1, <1>4 DEF RowTrue, Held, Active
<1>7. WorkerTrue(c)'
  BY <1>1, <1>2, <1>3, <1>4 DEF WorkerTrue
<1> QED BY <1>1, <1>2, <1>3, <1>4, <1>5, <1>6, <1>7, RequestStep DEF Threads

\* An answer is true of the request it is about.
LEMMA AnswersTrue ==
    ASSUME IInv, NEW c \in Requests, NEW job \in Answers(c), Outcome(c, job), own' = own
    PROVE  /\ JobTrue(c, job)'
           /\ job \in Jobs /\ asked' \subseteq asked /\ \A d \in Requests : d # c => (d \in asked' <=> d \in asked)
<1>1. Claimed(c) /\ own[c] \in Jobs
  BY DEF IInv, RowsTrue, Typing
<1>2. job \in Jobs
  BY <1>1, JobsTyped DEF Answers
<1>3. asked' \subseteq asked /\ \A d \in Requests : d # c => (d \in asked' <=> d \in asked)
  BY DEF Outcome
<1>4. job = Unanswered \/ (job = Rejected /\ own[c].is = "nothing") \/ (job = own[c] /\ own[c].is # "nothing")
  <2>1. CASE c \in Silent
    BY <2>1 DEF Answers
  <2>2. CASE c \notin Silent /\ own[c].is = "nothing"
    BY <2>2 DEF Answers
  <2>3. CASE c \notin Silent /\ own[c].is # "nothing"
    BY <2>3 DEF Answers
  <2> QED BY <2>1, <2>2, <2>3
<1>5. job = Rejected => c \notin asked'
  BY DEF Outcome
<1> QED BY <1>1, <1>2, <1>3, <1>4, <1>5 DEF JobTrue, Claimed

\* The answer the thread takes along is true, and stays so until it is recorded.
LEMMA WaitKeeps ==
    ASSUME IInv, NEW c \in Requests, Wait(c)
    PROVE  IInv'
<1>1. /\ ~InPass(c) /\ RowTrue(c) /\ worker[c] \in Threads
      /\ rows[c].status = "processing" /\ rows[c].hash = NoHash /\ ~rows[c].startup /\ rows[c].marked
  BY ThreadRow DEF Wait
<1>2. PICK job \in Answers(c) : Outcome(c, job) /\ worker' = [worker EXCEPT ![c] = [pc |-> "persist", job |-> job]]
  BY DEF Wait
<1>3. own' = own /\ poll' = poll /\ restarts' = restarts /\ rows' = rows /\ asked \subseteq Requests
  BY DEF Wait, IInv, Typing, TypeOK
<1>4. /\ JobTrue(c, job)' /\ job \in Jobs /\ asked' \subseteq asked
      /\ \A d \in Requests : d # c => (d \in asked' <=> d \in asked)
  BY <1>2, <1>3, AnswersTrue
<1> DEFINE w == [pc |-> "persist", job |-> job]
<1>5. w \in Threads /\ w.pc = "persist" /\ w.job = job /\ worker' = [worker EXCEPT ![c] = w]
  BY <1>2, <1>4 DEF Threads
<1> HIDE DEF w
<1>6. worker'[c] = w /\ \A d \in Requests : d # c => worker'[d] = worker[d]
  BY <1>5, ThreadMoves
<1>7. TablesSound' /\ OthersSame(c)
  BY <1>3, RowsStay DEF OthersSame
<1>8. RowTrue(c)'
  BY <1>1, <1>3, <1>4 DEF RowTrue, Held, Active
<1>9. WorkerTrue(c)'
  BY <1>1, <1>3, <1>4, <1>5, <1>6 DEF WorkerTrue
<1> QED BY <1>1, <1>3, <1>4, <1>5, <1>6, <1>7, <1>8, <1>9, RequestStep DEF Threads

\* The thread records its answer on a row that is its own since Dispatch.
LEMMA PersistKeeps ==
    ASSUME NullsAreNone, IInv, NEW c \in Requests, Persist(c)
    PROVE  IInv'
<1>1. /\ ~InPass(c) /\ RowTrue(c) /\ worker[c] \in Threads /\ WorkerTrue(c) /\ rows[c].canon = NoRequest
      /\ rows[c].status = "processing" /\ rows[c].hash = NoHash /\ ~rows[c].startup /\ rows[c].marked
  BY ThreadRow DEF Persist
<1>2. JobTrue(c, worker[c].job) /\ worker[c].job \in Jobs
  BY <1>1 DEF WorkerTrue, Threads, Persist
<1>3. own' = own /\ poll' = poll /\ restarts' = restarts /\ asked' = asked /\ asked \subseteq Requests
  BY DEF Persist, IInv, Typing, TypeOK
<1>4. rows' = Persisted(c, worker[c].job)
  BY <1>1 DEF Persist
<1>5. TablesSound' /\ OthersSame(c) /\ RowTrue(c)'
  BY <1>1, <1>2, <1>3, <1>4, PersistedTrue
<1>6. IdleWorker \in Threads /\ IdleWorker.pc = "idle" /\ worker' = [worker EXCEPT ![c] = IdleWorker]
  BY JobsTyped DEF Persist, IdleWorker, Threads
<1>7. worker'[c] = IdleWorker /\ \A d \in Requests : d # c => worker'[d] = worker[d]
  BY <1>6, ThreadMoves
<1>8. WorkerTrue(c)'
  BY <1>6, <1>7 DEF WorkerTrue
<1> QED BY <1>1, <1>3, <1>5, <1>6, <1>7, <1>8, RequestStep DEF Threads

-----------------------------------------------------------------------------
(* The reconciliation pass                                                  *)

\* The pass moves, the rows, the adapter and the threads do not.
LEMMA PollMoves ==
    ASSUME IInv, rows' = rows, own' = own, worker' = worker, restarts' = restarts, asked' \subseteq Requests,
           poll' \in [pc : {"idle", "recover", "resume", "answer", "persist", "follow"}, todo : SUBSET Requests,
                      req : Requests \cup {NoRequest}, job : Jobs],
           PollTrue', \A c \in Requests : RowTrue(c)' /\ WorkerTrue(c)'
    PROVE  IInv'
<1>1. Typing'
  BY DEF IInv, Typing, TypeOK
<1>2. RowsTrue'
  BY DEF IInv, RowsTrue, Claimed, Held
<1>3. HoldersUnique' /\ ListingsUnique' /\ AliasesFlat'
  BY DEF IInv, HoldersUnique, Held, ListingsUnique, AliasesFlat
<1> QED BY <1>1, <1>2, <1>3 DEF IInv

\* Nothing but the pass moves.
LEMMA OnlyPollMoves ==
    ASSUME IInv, rows' = rows, own' = own, worker' = worker, restarts' = restarts, asked' = asked,
           poll' \in [pc : {"idle", "recover", "resume", "answer", "persist", "follow"}, todo : SUBSET Requests,
                      req : Requests \cup {NoRequest}, job : Jobs],
           PollTrue'
    PROVE  IInv'
<1>1. asked' \subseteq Requests
  BY DEF IInv, Typing, TypeOK
<1>2. \A c \in Requests : RowTrue(c)' /\ WorkerTrue(c)'
  BY DEF IInv, RowsTrue, RowTrue, WorkerTrue, JobTrue, Held
<1> QED BY <1>1, <1>2, PollMoves

\* The types of the pass.
Polls == [pc : {"idle", "recover", "resume", "answer", "persist", "follow"}, todo : SUBSET Requests,
          req : Requests \cup {NoRequest}, job : Jobs]

\* The pass with its next request.
LEMMA NextTyped ==
    ASSUME IInv, NEW c \in Requests
    PROVE  /\ NextRequest(c) \in Polls /\ NextRequest(c).pc = "recover"
           /\ NextRequest(c).todo = poll.todo \ {c}
<1>1. poll \in Polls
  BY DEF IInv, Typing, TypeOK, Polls
<1> QED BY <1>1, JobsTyped DEF NextRequest, Polls

\* The pass at rest.
LEMMA IdleTyped == IdlePoll \in Polls /\ IdlePoll.pc = "idle"
BY JobsTyped DEF IdlePoll, Polls

\* The pass starts with what is in doubt, and so in no thread.
LEMMA BeginKeeps ==
    ASSUME IInv, Begin
    PROVE  IInv'
<1> DEFINE p == [IdlePoll EXCEPT !.pc = "recover", !.todo = Recovering]
<1>1. Recovering \subseteq Requests /\ \A c \in Recovering : Recoverable(c)
  BY DEF Recovering
<1>2. p \in Polls /\ p.pc = "recover" /\ p.todo = Recovering
  BY <1>1, IdleTyped DEF Polls
<1>3. poll' = p
  BY DEF Begin
<1> HIDE DEF p
<1>4. rows' = rows /\ own' = own /\ worker' = worker /\ restarts' = restarts /\ asked' = asked
  BY DEF Begin
<1>5. PollTrue'
  BY <1>1, <1>2, <1>3, <1>4 DEF PollTrue, Recoverable
<1> QED BY <1>2, <1>3, <1>4, <1>5, OnlyPollMoves DEF Polls

\* A status query changes nothing; its answer is what the adapter holds.
LEMMA RecoverKeeps ==
    ASSUME IInv, NEW c \in Requests, Recover(c)
    PROVE  IInv'
<1>1. rows' = rows /\ own' = own /\ worker' = worker /\ restarts' = restarts /\ asked' = asked
  BY DEF Recover
<1>2. /\ poll \in Polls /\ poll.pc = "recover" /\ c \in poll.todo /\ Recoverable(c)
      /\ \A d \in poll.todo : Recoverable(d)
  BY DEF Recover, IInv, Typing, TypeOK, Polls, PollTrue
<1>3. \A d \in Requests : Recoverable(d)' <=> Recoverable(d)
  BY <1>1 DEF Recoverable
<1>4. Claimed(c) /\ own[c] \in Jobs /\ poll.todo \subseteq Requests
  BY <1>2 DEF IInv, RowsTrue, Typing, Polls
<1>5. CASE poll' = NextRequest(c)
  <2>1. PollTrue'
    BY <1>2, <1>3, <1>4, <1>5, NextTyped DEF PollTrue
  <2> QED BY <1>1, <1>5, <2>1, NextTyped, OnlyPollMoves DEF Polls
<1>6. CASE own[c].is # "nothing" /\ poll' = [poll EXCEPT !.pc = "persist", !.req = c, !.job = own[c]]
  <2>1. poll' \in Polls /\ poll'.pc = "persist" /\ poll'.req = c /\ poll'.job = own[c] /\ poll'.todo = poll.todo
    BY <1>2, <1>4, <1>6 DEF Polls
  <2>2. JobTrue(c, own[c])' /\ own[c] # Unanswered
    BY <1>1, <1>4, <1>6 DEF JobTrue, Claimed, Unanswered, NoJob
  <2>3. PollTrue'
    BY <1>1, <1>2, <1>3, <1>4, <2>1, <2>2 DEF PollTrue, JobTrue
  <2> QED BY <1>1, <2>1, <2>3, OnlyPollMoves DEF Polls
<1>7. CASE poll' = [poll EXCEPT !.pc = "resume", !.req = c]
  <2>1. poll' \in Polls /\ poll'.pc = "resume" /\ poll'.req = c /\ poll'.todo = poll.todo
    BY <1>2, <1>7 DEF Polls
  <2>2. PollTrue'
    BY <1>2, <1>3, <1>4, <2>1 DEF PollTrue
  <2> QED BY <1>1, <2>1, <2>2, OnlyPollMoves DEF Polls
<1> QED BY <1>5, <1>6, <1>7 DEF Recover

\* The request the pass is at.
LEMMA AtHand ==
    ASSUME IInv, poll.pc \in {"resume", "answer", "persist"}
    PROVE  /\ poll \in Polls /\ poll.req \in Requests /\ poll.todo \subseteq Requests
           /\ Recoverable(poll.req) /\ worker[poll.req].pc = "idle" /\ RowTrue(poll.req) /\ InPass(poll.req)
           /\ rows[poll.req] \in Rows
           /\ \A d \in poll.todo : Recoverable(d)
<1>1. poll \in Polls /\ poll.req \in Requests /\ Recoverable(poll.req) /\ \A d \in poll.todo : Recoverable(d)
  BY DEF IInv, Typing, TypeOK, Polls, PollTrue
<1>2. poll.todo \subseteq Requests /\ InPass(poll.req)
  BY <1>1 DEF Polls, InPass
<1> QED BY <1>1, <1>2, InPassRecoverable DEF IInv, RowsTrue, Typing, TypeOK, Rows

\* A listing is asked for again only for a row that is marked and in doubt.
LEMMA ResumeKeeps ==
    ASSUME IInv, Resume
    PROVE  IInv'
<1>1. /\ poll \in Polls /\ poll.req \in Requests /\ poll.todo \subseteq Requests
      /\ Recoverable(poll.req) /\ worker[poll.req].pc = "idle"
      /\ \A d \in poll.todo : Recoverable(d)
  BY AtHand DEF Resume
<1>2. rows' = rows /\ own' = own /\ worker' = worker /\ restarts' = restarts /\ asked' = asked \cup {poll.req}
  BY DEF Resume
<1>3. asked' \subseteq Requests
  BY <1>1, <1>2 DEF IInv, Typing, TypeOK
<1>4. poll' \in Polls /\ poll'.pc = "answer" /\ poll'.req = poll.req /\ poll'.todo = poll.todo
  BY <1>1 DEF Resume, Polls
<1>5. PollTrue'
  BY <1>1, <1>2, <1>4 DEF PollTrue, Recoverable
<1>6. ASSUME NEW c \in Requests
      PROVE  RowTrue(c)' /\ WorkerTrue(c)'
  <2>1. RowTrue(c) /\ WorkerTrue(c)
    BY DEF IInv, RowsTrue
  <2>2. CASE c = poll.req
    BY <1>1, <1>2, <2>1, <2>2 DEF RowTrue, Recoverable, Active, Held, WorkerTrue
  <2>3. CASE c # poll.req
    BY <1>2, <2>1, <2>3 DEF RowTrue, Held, WorkerTrue, JobTrue
  <2> QED BY <2>2, <2>3
<1> QED BY <1>2, <1>3, <1>4, <1>5, <1>6, PollMoves DEF Polls

\* The answer to the repeated request is true of the row at hand.
LEMMA AnswerKeeps ==
    ASSUME IInv, Answer
    PROVE  IInv'
<1>0. PICK q \in Requests : q = poll.req
  BY AtHand DEF Answer
<1>1. /\ poll \in Polls /\ poll.todo \subseteq Requests
      /\ Recoverable(q) /\ worker[q].pc = "idle"
      /\ \A d \in poll.todo : Recoverable(d)
  BY <1>0, AtHand DEF Answer
<1>2. PICK job \in Answers(q) : /\ Outcome(q, job)
                                /\ poll' = IF job = Unanswered THEN NextRequest(q)
                                           ELSE [poll EXCEPT !.pc = "persist", !.job = job]
  BY <1>0 DEF Answer
<1>3. rows' = rows /\ own' = own /\ worker' = worker /\ restarts' = restarts
  BY DEF Answer
<1>4. /\ JobTrue(q, job)' /\ job \in Jobs /\ asked' \subseteq asked
      /\ \A d \in Requests : d # q => (d \in asked' <=> d \in asked)
  BY <1>1, <1>2, <1>3, AnswersTrue
<1>5. asked' \subseteq Requests
  BY <1>4 DEF IInv, Typing, TypeOK
<1>6. \A d \in Requests : Recoverable(d)' <=> Recoverable(d)
  BY <1>3 DEF Recoverable
<1>7. ASSUME NEW c \in Requests
      PROVE  RowTrue(c)' /\ WorkerTrue(c)'
  <2>1. RowTrue(c) /\ WorkerTrue(c)
    BY DEF IInv, RowsTrue
  <2>2. CASE c = q
    BY <1>1, <1>3, <1>4, <2>1, <2>2 DEF RowTrue, Recoverable, Held, WorkerTrue
  <2>3. CASE c # q
    BY <1>3, <1>4, <2>1, <2>3 DEF RowTrue, Held, WorkerTrue, JobTrue
  <2> QED BY <2>2, <2>3
<1>8. CASE job = Unanswered
  <2>1. poll' = NextRequest(q)
    BY <1>2, <1>8
  <2>2. PollTrue'
    BY <1>1, <1>6, <2>1, NextTyped DEF PollTrue
  <2> QED BY <1>1, <1>3, <1>5, <1>7, <2>1, <2>2, NextTyped, PollMoves DEF Polls
<1>9. CASE job # Unanswered
  <2>1. poll' \in Polls /\ poll'.pc = "persist" /\ poll'.req = q /\ poll'.job = job /\ poll'.todo = poll.todo
    BY <1>1, <1>2, <1>4, <1>0, <1>9 DEF Polls
  <2>2. PollTrue'
    BY <1>1, <1>4, <1>6, <1>9, <2>1 DEF PollTrue, JobTrue
  <2> QED BY <1>3, <1>5, <1>7, <2>1, <2>2, PollMoves DEF Polls
<1> QED BY <1>8, <1>9

\* The row of a request the pass does not wait for, or has just settled.
LEMMA PassSettles ==
    ASSUME IInv, NEW c \in Requests, worker[c].pc = "idle",
           TablesSound', OthersSame(c), RowTrue(c)',
           own' = own, asked' = asked, worker' = worker, restarts' = restarts,
           poll' \in Polls, PollTrue'
    PROVE  IInv'
<1>1. \A d \in Requests : d # c => Untouched(d)
  BY DEF OthersSame, Untouched
<1>2. RowsTrue'
  <2>1. Claimed(c)' /\ WorkerTrue(c)'
    BY DEF IInv, RowsTrue, Claimed, Held, WorkerTrue
  <2> QED BY <1>1, <2>1, RequestKept DEF IInv, RowsTrue
<1>3. Typing'
  BY DEF IInv, Typing, TypeOK, TablesSound, Rows, Polls
<1>4. HoldersUnique'
  BY DEF IInv, HoldersUnique, Held
<1> QED BY <1>2, <1>3, <1>4 DEF IInv, TablesSound

\* What the pass records is for a row no thread has, and takes it out of doubt or leaves it.
LEMMA PersistRecoveredKeeps ==
    ASSUME NullsAreNone, IInv, PersistRecovered
    PROVE  IInv'
<1>0. PICK q \in Requests : q = poll.req
  BY AtHand DEF PersistRecovered
<1>1. /\ poll \in Polls /\ poll.todo \subseteq Requests
      /\ Recoverable(q) /\ worker[q].pc = "idle" /\ RowTrue(q) /\ rows[q] \in Rows
      /\ \A d \in poll.todo : Recoverable(d)
  BY <1>0, AtHand DEF PersistRecovered
<1>2. JobTrue(q, poll.job) /\ poll.job \in Jobs
  BY <1>0, <1>1 DEF PersistRecovered, IInv, PollTrue, Polls
<1>3. own' = own /\ worker' = worker /\ restarts' = restarts /\ asked' = asked /\ poll' = NextRequest(q)
  BY <1>0 DEF PersistRecovered
<1>4. rows[q].marked /\ rows[q].hash = NoHash /\ rows[q].status \in {"processing", "queued"} /\ rows[q].canon = NoRequest
  BY <1>1 DEF Recoverable, RowTrue
<1>5. rows' = IF poll.job = Rejected THEN [rows EXCEPT ![q].status = "needs_selection"] ELSE Persisted(q, poll.job)
  BY <1>0, <1>4 DEF PersistRecovered
<1>6. TablesSound' /\ OthersSame(q) /\ RowTrue(q)'
  <2>1. CASE poll.job = Rejected
    <3> DEFINE e == [rows[q] EXCEPT !.status = "needs_selection"]
    <3>1. /\ e \in Rows /\ e.status = "needs_selection" /\ e.hash = NoHash /\ e.canon = NoRequest
          /\ e.cand = rows[q].cand /\ e.marked = rows[q].marked
      BY <1>1, <1>4 DEF Rows
    <3>2. rows' = [rows EXCEPT ![q] = e]
      BY <1>5, <2>1
    <3> HIDE DEF e
    <3>3. TablesSound' /\ OthersSame(q) /\ rows'[q] = e
      BY <1>1, <1>4, <3>1, <3>2, RowChanges DEF Active
    <3>4. own[q].is = "nothing" /\ q \notin asked
      BY <1>2, <2>1 DEF JobTrue, Unanswered, Rejected, NoJob, Claimed
    <3>5. RowTrue(q)'
      BY <1>1, <1>3, <1>4, <3>1, <3>3, <3>4 DEF RowTrue, Held, Active
    <3> QED BY <3>3, <3>5
  <2>2. CASE poll.job # Rejected
    BY <1>1, <1>2, <1>3, <1>4, <1>5, <2>2, PersistedTrue
  <2> QED BY <2>1, <2>2
<1>7. PollTrue'
  <2>1. \A d \in poll.todo \ {q} : Recoverable(d)'
    BY <1>1, <1>6 DEF OthersSame, SameRow, Recoverable
  <2> QED BY <1>1, <1>3, <2>1, NextTyped DEF PollTrue
<1> QED BY <1>1, <1>3, <1>6, <1>7, NextTyped, PassSettles

\* The queued rows are read after the recoveries; nothing is held of them.
LEMMA FollowKeeps ==
    ASSUME IInv, Follow
    PROVE  IInv'
<1>1. poll \in Polls /\ Following \subseteq Requests
  BY DEF IInv, Typing, TypeOK, Polls, Following
<1>2. poll' \in Polls /\ poll'.pc = "follow"
  BY <1>1 DEF Follow, Polls
<1>3. PollTrue'
  BY <1>2 DEF PollTrue
<1> QED BY <1>2, <1>3, OnlyPollMoves DEF Follow, Polls

\* The pass ends.
LEMMA EndKeeps ==
    ASSUME IInv, End
    PROVE  IInv'
<1>1. poll' \in Polls /\ poll'.pc = "idle"
  BY IdleTyped DEF End
<1>2. PollTrue'
  BY <1>1 DEF PollTrue
<1> QED BY <1>1, <1>2, OnlyPollMoves DEF End, Polls

\* Only a job the adapter lost fails its row (record_abba_state).
LEMMA ObserveKeeps ==
    ASSUME IInv, NEW c \in Requests, Observe(c)
    PROVE  IInv'
<1>1. poll \in Polls /\ RowTrue(c) /\ WorkerTrue(c) /\ rows[c] \in Rows
  BY DEF IInv, RowsTrue, Typing, TypeOK, Polls, Rows
<1>2. poll' \in Polls /\ poll'.pc = "follow"
  BY <1>1 DEF Observe, Polls
<1>3. PollTrue'
  BY <1>2 DEF PollTrue
<1>4. own' = own /\ worker' = worker /\ restarts' = restarts /\ asked' = asked
  BY DEF Observe
<1>5. CASE rows' = rows
  BY <1>2, <1>3, <1>4, <1>5, OnlyPollMoves DEF Polls
<1>6. CASE own[c].is = "lost" /\ rows[c].status = "queued" /\ rows' = [rows EXCEPT ![c].status = "failed"]
  <2> DEFINE e == [rows[c] EXCEPT !.status = "failed"]
  <2>1. /\ e \in Rows /\ e.status = "failed" /\ e.hash = rows[c].hash /\ e.canon = rows[c].canon
        /\ e.cand = rows[c].cand /\ e.marked = rows[c].marked
    BY <1>1 DEF Rows
  <2>2. rows' = [rows EXCEPT ![c] = e]
    BY <1>6
  <2> HIDE DEF e
  <2>3. TablesSound' /\ OthersSame(c) /\ rows'[c] = e
    BY <2>1, <2>2, RowChanges DEF Active
  <2>4. RowTrue(c)'
    BY <1>1, <1>4, <1>6, <2>1, <2>3 DEF RowTrue, Held, Active
  <2>5. worker[c].pc = "idle"
    BY <1>1, <1>6 DEF WorkerTrue
  <2> QED BY <1>2, <1>3, <1>4, <2>3, <2>4, <2>5, PassSettles
<1> QED BY <1>5, <1>6 DEF Observe

-----------------------------------------------------------------------------
(* The adapter, BookBot and the restart                                     *)

\* What the adapter may decide: a first answer, or that a job it holds is lost.
Decision(c, e) ==
    /\ e \in Jobs /\ e.is \in {"holds", "joined", "refused", "lost"}
    /\ IF e.is = "refused" THEN e.hash = NoHash ELSE e.hash \in Hashes
    /\ own[c].is = "nothing" \/ (own[c].is = "holds" /\ e.is = "lost" /\ e.hash = own[c].hash)
    /\ e.is \in {"holds", "lost"} => \A d \in Requests : d # c /\ Held(d) => own[d].hash # e.hash
    /\ e.is = "joined" => e.root \in Requests /\ e.root # c /\ Held(e.root) /\ own[e.root].hash = e.hash

\* The contract allows no other decision.
LEMMA DecisionsOnly ==
    ASSUME IInv, NEW c \in Requests, Act(c)
    PROVE  \E e : Decision(c, e) /\ own' = [own EXCEPT ![c] = e]
<1>1. Claimed(c) /\ own[c] \in Jobs /\ NoHash \in Hashes \cup {NoHash}
  BY DEF IInv, RowsTrue, Typing
<1>2. CASE Adapter!Hold(c)
  <2>1. PICK h \in Hashes : Adapter!Holders(h) = {} /\ Adapter!Becomes(c, "holds", h, NoRequest)
    BY <1>2 DEF Adapter!Hold
  <2> DEFINE e == [is |-> "holds", hash |-> h, root |-> NoRequest]
  <2>2. own' = [own EXCEPT ![c] = e]
    BY <2>1 DEF Adapter!Becomes
  <2>3. own[c].is = "nothing"
    BY <1>2 DEF Adapter!Hold, Adapter!Nothing
  <2>4. \A d \in Requests : Held(d) => own[d].hash # h
    BY <2>1 DEF Adapter!Holders, Held
  <2>5. Decision(c, e)
    BY <2>3, <2>4 DEF Decision, Jobs
  <2> QED BY <2>2, <2>5
<1>3. CASE Adapter!Join(c)
  <2>0. PICK h \in Hashes : \E root \in Adapter!Holders(h) : Adapter!Becomes(c, "joined", h, root)
    BY <1>3 DEF Adapter!Join
  <2>1. PICK root \in Adapter!Holders(h) : Adapter!Becomes(c, "joined", h, root)
    BY <2>0
  <2> DEFINE e == [is |-> "joined", hash |-> h, root |-> root]
  <2>2. own' = [own EXCEPT ![c] = e]
    BY <2>1 DEF Adapter!Becomes
  <2>3. own[c].is = "nothing"
    BY <1>3 DEF Adapter!Join, Adapter!Nothing
  <2>4. root \in Requests /\ Held(root) /\ own[root].hash = h /\ root # c
    BY <2>3 DEF Adapter!Holders, Held
  <2>5. Decision(c, e)
    BY <2>3, <2>4 DEF Decision, Jobs
  <2> QED BY <2>2, <2>5
<1>4. CASE Adapter!Refuse(c)
  <2> DEFINE e == [is |-> "refused", hash |-> NoHash, root |-> NoRequest]
  <2>1. own' = [own EXCEPT ![c] = e] /\ own[c].is = "nothing"
    BY <1>4 DEF Adapter!Refuse, Adapter!Becomes, Adapter!Nothing
  <2>2. Decision(c, e)
    BY <2>1 DEF Decision, Jobs
  <2> QED BY <2>1, <2>2
<1>5. CASE Adapter!Lose(c)
  <2> DEFINE e == [is |-> "lost", hash |-> own[c].hash, root |-> NoRequest]
  <2>1. own' = [own EXCEPT ![c] = e] /\ own[c].is = "holds"
    BY <1>5 DEF Adapter!Lose, Adapter!Becomes
  <2>2. own[c].hash \in Hashes
    BY <1>1, <2>1 DEF Claimed
  <2>3. \A d \in Requests : d # c /\ Held(d) => own[d].hash # own[c].hash
    BY <2>1 DEF IInv, HoldersUnique, Held
  <2>4. Decision(c, e)
    BY <2>1, <2>2, <2>3 DEF Decision, Jobs
  <2> QED BY <2>1, <2>4
<1> QED BY <1>2, <1>3, <1>4, <1>5 DEF Act

\* What an answer said stays true when the adapter decides.
LEMMA JobStaysTrue ==
    ASSUME NEW c \in Requests, NEW e, Decision(c, e), c \in asked, own \in [Requests -> Jobs],
           own' = [own EXCEPT ![c] = e], asked' = asked,
           NEW d \in Requests, NEW job, JobTrue(d, job)
    PROVE  JobTrue(d, job)'
<1>1. CASE d # c
  BY <1>1 DEF JobTrue
<1>2. CASE d = c
  <2>1. own'[c] = e
    OBVIOUS
  <2>2. CASE job = Unanswered
    BY <2>2 DEF JobTrue
  <2>3. CASE own[c].is = "nothing" /\ job # Unanswered
    BY <1>2, <2>3 DEF JobTrue, Unanswered, Rejected, NoJob
  <2>4. CASE own[c].is = "holds" /\ job # Unanswered
    BY <1>2, <2>1, <2>4 DEF JobTrue, Decision
  <2> QED BY <2>2, <2>3, <2>4 DEF Decision
<1> QED BY <1>1, <1>2

\* The adapter decides at any time, under threads and pass: what it decides is for a
\* marked row that is live, since a settled row without a decision was never left asked.
LEMMA ActKeeps ==
    ASSUME NullsAreNone, IInv, NEW c \in Requests, Act(c)
    PROVE  IInv'
<1>1. PICK e : Decision(c, e) /\ own' = [own EXCEPT ![c] = e]
  BY DecisionsOnly
<1>2. /\ rows' = rows /\ asked' = asked /\ worker' = worker /\ poll' = poll /\ restarts' = restarts
      /\ c \in asked /\ own \in [Requests -> Jobs]
  BY DEF Act, IInv, Typing
<1>3. own' \in [Requests -> Jobs] /\ own'[c] = e /\ \A d \in Requests : d # c => own'[d] = own[d]
  BY <1>1, <1>2 DEF Decision
<1>4. \A d \in Requests : Held(d) => Held(d)' /\ own'[d].hash = own[d].hash
  BY <1>1, <1>3 DEF Held, Decision
<1>5. Typing'
  BY <1>2, <1>3 DEF IInv, Typing, TypeOK
<1>6. HoldersUnique'
  <2>1. \A d \in Requests : d # c => (Held(d)' <=> Held(d)) /\ own'[d].hash = own[d].hash
    BY <1>3 DEF Held
  <2>2. Held(c)' => \A d \in Requests : d # c /\ Held(d) => own[d].hash # own'[c].hash
    BY <1>1, <1>3 DEF Held, Decision
  <2> QED BY <2>1, <2>2 DEF IInv, HoldersUnique
<1>7. ASSUME NEW d \in Requests
      PROVE  Claimed(d)' /\ RowTrue(d)' /\ WorkerTrue(d)'
  <2>1. Claimed(d) /\ RowTrue(d) /\ WorkerTrue(d)
    BY DEF IInv, RowsTrue
  <2>2. WorkerTrue(d)'
    <3>1. worker[d].pc = "persist" => JobTrue(d, worker[d].job)'
      BY <1>1, <1>2, <2>1, JobStaysTrue DEF WorkerTrue
    <3> QED BY <1>2, <2>1, <3>1 DEF WorkerTrue, JobTrue
  <2>3. CASE d = c
    <3>1. Claimed(d)'
      BY <1>1, <1>3, <1>4, <2>3 DEF Claimed, Decision
    <3>2. RowTrue(d)'
      <4>1. CASE own[c].is = "nothing"
        <5>1. /\ rows[c].marked /\ rows[c].status \in Active /\ rows[c].hash = NoHash /\ rows[c].canon = NoRequest
              /\ rows[c].status # "new"
          BY <1>2, <2>1, <2>3, <4>1 DEF RowTrue, Held, Active
        <5> QED BY <1>1, <1>2, <1>3, <2>1, <2>3, <5>1 DEF RowTrue
      <4>2. CASE own[c].is = "holds" /\ e.is = "lost" /\ e.hash = own[c].hash
        BY <1>2, <1>3, <2>1, <2>3, <4>2 DEF RowTrue, Held
      <4> QED BY <1>1, <4>1, <4>2 DEF Decision
    <3> QED BY <2>2, <3>1, <3>2
  <2>4. CASE d # c
    <3>1. Claimed(d)'
      BY <1>3, <1>4, <2>1, <2>4 DEF Claimed
    <3>2. RowTrue(d)'
      BY <1>2, <1>3, <2>1, <2>4 DEF RowTrue, Held
    <3> QED BY <2>2, <3>1, <3>2
  <2> QED BY <2>3, <2>4
<1>8. PollTrue'
  <2>1. poll.pc = "persist" => JobTrue(poll.req, poll.job)'
    BY <1>1, <1>2, JobStaysTrue DEF IInv, PollTrue
  <2> QED BY <1>2, <2>1 DEF IInv, PollTrue, Recoverable, JobTrue
<1>9. ListingsUnique' /\ AliasesFlat'
  BY <1>2 DEF IInv, ListingsUnique, AliasesFlat
<1> QED BY <1>5, <1>6, <1>7, <1>8, <1>9 DEF IInv, RowsTrue

\* BookBot completes a queued row that has its hash, so no pass recovers it.
LEMMA ImportKeeps ==
    ASSUME NullsAreNone, IInv, NEW c \in Requests, Import(c)
    PROVE  IInv'
<1>1. Claimed(c) /\ RowTrue(c) /\ WorkerTrue(c) /\ rows[c] \in Rows
  BY DEF IInv, RowsTrue, Typing, TypeOK, Rows
<1>2. rows[c].status = "queued" /\ rows[c].hash # NoHash /\ Held(c) /\ own[c].hash = rows[c].hash /\ rows[c].canon = NoRequest
  BY <1>1 DEF Import, Claimed, RowTrue, Held, NullsAreNone
<1>3. ~InPass(c) /\ worker[c].pc = "idle"
  BY <1>1, <1>2, InPassRecoverable DEF Recoverable, WorkerTrue
<1> DEFINE e == [rows[c] EXCEPT !.status = "completed"]
<1>4. /\ e \in Rows /\ e.status = "completed" /\ e.hash = rows[c].hash /\ e.canon = rows[c].canon
      /\ e.cand = rows[c].cand /\ e.marked = rows[c].marked
  BY <1>1 DEF Rows
<1>5. rows' = [rows EXCEPT ![c] = e]
  BY DEF Import
<1> HIDE DEF e
<1>6. own' = own /\ asked' = asked /\ worker' = worker /\ poll' = poll /\ restarts' = restarts
  BY DEF Import
<1>7. TablesSound' /\ OthersSame(c) /\ rows'[c] = e
  BY <1>2, <1>4, <1>5, RowChanges DEF Active
<1>8. RowTrue(c)'
  BY <1>1, <1>2, <1>4, <1>6, <1>7 DEF RowTrue, Held, Active
<1>9. PollTrue'
  BY <1>3, <1>6, <1>7, PassKept DEF OthersSame, Untouched
<1>10. poll' \in Polls
  BY <1>6 DEF IInv, Typing, TypeOK, Polls
<1> QED BY <1>3, <1>6, <1>7, <1>8, <1>9, <1>10, PassSettles

\* A restart fails only what was never sent, and keeps the rest in doubt.
LEMMA RestartKeeps ==
    ASSUME MaxRestarts \in Nat, IInv, Restart
    PROVE  IInv'
<1>1. rows \in [Requests -> Rows] /\ restarts \in 0..MaxRestarts
  BY DEF IInv, Typing, TypeOK, Rows
<1>2. /\ own' = own /\ asked' = asked /\ poll' = IdlePoll /\ worker' = [c \in Requests |-> IdleWorker]
      /\ restarts' \in 0..MaxRestarts
  BY <1>1 DEF Restart
<1>3. ASSUME NEW c \in Requests
      PROVE  /\ rows'[c] \in Rows
             /\ rows'[c].cand = rows[c].cand /\ rows'[c].marked = rows[c].marked
             /\ rows'[c].hash = rows[c].hash /\ rows'[c].canon = rows[c].canon
             /\ rows'[c].status = IF rows[c].status = "processing" /\ ~rows[c].marked THEN "failed" ELSE rows[c].status
             /\ rows'[c].status = "new" => ~rows'[c].startup \/ rows[c].startup
  <2>1. rows[c] \in Rows
    BY <1>1
  <2>2. rows'[c] = IF rows[c].status = "processing" THEN Interrupted(rows[c]) ELSE rows[c]
    BY DEF Restart
  <2>3. CASE rows[c].status = "processing" /\ rows[c].marked
    BY <2>1, <2>2, <2>3 DEF Interrupted, Rows
  <2>4. CASE rows[c].status = "processing" /\ ~rows[c].marked
    BY <2>1, <2>2, <2>4 DEF Interrupted, Rows
  <2>5. CASE rows[c].status # "processing"
    BY <2>1, <2>2, <2>5
  <2> QED BY <2>3, <2>4, <2>5
<1>4. rows' \in [Requests -> Rows]
  <2>1. rows' = [c \in Requests |-> rows'[c]]
    BY DEF Restart
  <2> QED BY <1>3, <2>1
<1>5. \A c \in Requests : rows'[c].status \in Active => rows[c].status \in Active
  BY <1>3 DEF Active
<1>6. ListingsUnique'
  BY <1>3, <1>5 DEF IInv, ListingsUnique
<1>7. AliasesFlat'
  <2>1. \A c \in Requests : rows[c].canon \in Requests \cup {NoRequest}
    BY <1>1 DEF Rows
  <2> QED BY <1>3, <2>1 DEF IInv, AliasesFlat
<1>8. Typing'
  <2>1. worker' \in [Requests -> Threads]
    BY <1>2, JobsTyped DEF IdleWorker, Threads
  <2>2. poll' \in Polls
    BY <1>2, IdleTyped
  <2> QED BY <1>2, <1>4, <2>1, <2>2 DEF IInv, Typing, TypeOK, Rows, Threads, Polls
<1>9. ASSUME NEW c \in Requests
      PROVE  Claimed(c)' /\ RowTrue(c)' /\ WorkerTrue(c)'
  <2>1. Claimed(c) /\ RowTrue(c)
    BY DEF IInv, RowsTrue
  <2>2. Claimed(c)' /\ WorkerTrue(c)'
    BY <1>2, <2>1 DEF Claimed, Held, WorkerTrue, IdleWorker
  <2>3. CASE rows[c].status = "processing" /\ ~rows[c].marked
    <3>1. c \notin asked /\ own[c].is = "nothing"
      BY <2>1, <2>3 DEF RowTrue
    <3> QED BY <1>2, <1>3, <2>1, <2>2, <2>3, <3>1 DEF RowTrue, Held, Active
  <2>4. CASE ~(rows[c].status = "processing" /\ ~rows[c].marked)
    BY <1>2, <1>3, <2>1, <2>2, <2>4 DEF RowTrue, Held
  <2> QED BY <2>3, <2>4
<1>10. PollTrue' /\ HoldersUnique'
  BY <1>2 DEF IInv, PollTrue, HoldersUnique, Held, IdlePoll
<1> QED BY <1>6, <1>7, <1>8, <1>9, <1>10 DEF IInv, RowsTrue

-----------------------------------------------------------------------------
(* The theorem                                                              *)

\* Nothing was asked, and every row is new.
LEMMA InitInvariant ==
    ASSUME NullsAreNone, MaxRestarts \in Nat, Init
    PROVE  IInv
<1>1. /\ rows = [c \in Requests |-> NewRow] /\ own = [c \in Requests |-> Adapter!Nothing] /\ asked = {}
      /\ worker = [c \in Requests |-> IdleWorker] /\ poll = IdlePoll /\ restarts = 0
  BY DEF Init, Adapter!Init
<1>2. NewRow \in Rows /\ Adapter!Nothing \in Jobs /\ IdleWorker \in Threads
  BY JobsTyped DEF NewRow, Rows, Adapter!Nothing, Jobs, IdleWorker, Threads
<1>3. Typing
  BY <1>1, <1>2, IdleTyped DEF Typing, TypeOK, Rows, Threads, Polls
<1>4. \A c \in Requests : Claimed(c) /\ RowTrue(c) /\ WorkerTrue(c)
  BY <1>1 DEF Claimed, RowTrue, WorkerTrue, Held, NewRow, Adapter!Nothing, IdleWorker, Active
<1>5. HoldersUnique /\ PollTrue /\ ListingsUnique /\ AliasesFlat
  BY <1>1 DEF HoldersUnique, PollTrue, ListingsUnique, AliasesFlat, Held, NewRow, Adapter!Nothing, IdlePoll, Active
<1> QED BY <1>3, <1>4, <1>5 DEF IInv, RowsTrue

\* Every step keeps the invariant.
LEMMA NextInvariant ==
    ASSUME NullsAreNone, MaxRestarts \in Nat, IInv, [Next]_vars
    PROVE  IInv'
<1>1. CASE UNCHANGED vars
  BY <1>1 DEF vars, IInv, Typing, TypeOK, HoldersUnique, Held, RowsTrue, Claimed, RowTrue, WorkerTrue, JobTrue,
     PollTrue, Recoverable, ListingsUnique, AliasesFlat
<1>2. ASSUME NEW c \in Requests, WorkerStep(c)
      PROVE  IInv'
  BY <1>2, DispatchKeeps, ReserveKeeps, PostKeeps, WaitKeeps, PersistKeeps DEF WorkerStep
<1>3. ASSUME NEW c \in Requests, Act(c) \/ Import(c)
      PROVE  IInv'
  BY <1>3, ActKeeps, ImportKeeps
<1>4. CASE PollStep
  BY <1>4, ResumeKeeps, AnswerKeeps, PersistRecoveredKeeps, FollowKeeps, EndKeeps, RecoverKeeps, ObserveKeeps DEF PollStep
<1> QED BY <1>1, <1>2, <1>3, <1>4, BeginKeeps, RestartKeeps DEF Next

\* The invariant holds the agreement of the ledgers.
LEMMA InvariantAgrees ==
    ASSUME NullsAreNone, IInv
    PROVE  LedgersAgree
<1>1. TypeOK /\ AliasesFlat
  BY DEF IInv, Typing
<1>2. NothingForgotten
  <2>1. ASSUME NEW c \in Requests, own[c].is = "holds"
        PROVE  rows[c].status \in Active /\ rows[c].canon = NoRequest
    <3>1. RowTrue(c)
      BY DEF IInv, RowsTrue
    <3> QED BY <2>1, <3>1 DEF RowTrue, Held
  <2> QED BY <2>1 DEF NothingForgotten
<1>3. IdentitiesUnique
  <2>1. ASSUME NEW c \in Requests, rows[c].status \in Active
        PROVE  HashOwners(c, rows[c].hash) = {}
    <3>1. CASE rows[c].hash = NoHash
      BY <3>1 DEF HashOwners
    <3>2. CASE rows[c].hash # NoHash
      <4>1. Held(c) /\ own[c].hash = rows[c].hash
        BY <3>2 DEF IInv, RowsTrue, RowTrue
      <4> QED BY <3>2, <4>1, HashUnowned
    <3> QED BY <3>1, <3>2
  <2>2. ASSUME NEW c \in Requests, rows[c].status \in Active, rows[c].cand # NoCandidate
        PROVE  CandidateOwners(c, rows[c].cand) = {}
    BY <2>2 DEF IInv, ListingsUnique, CandidateOwners
  <2> QED BY <2>1, <2>2 DEF IdentitiesUnique
<1>4. AdapterOwnersUsable
  <2>1. ASSUME NEW c \in Requests, own[c].is = "joined", rows[c].status \in {"processing", "queued"}
        PROVE  MayJoin(c, own[c])
    <3>1. Claimed(c) /\ RowTrue(c)
      BY DEF IInv, RowsTrue
    <3>2. PICK o \in Requests : o = own[c].root /\ Held(o) /\ own[o].hash = own[c].hash
      BY <2>1, <3>1 DEF Claimed
    <3>3. RowTrue(o)
      BY DEF IInv, RowsTrue
    <3>4. rows[o].canon = NoRequest /\ rows[o].status \in Active \cup {"failed"} /\ rows[o].hash \in {NoHash, own[c].hash}
      BY <3>2, <3>3 DEF RowTrue
    <3>5. o # c /\ rows[c].hash = NoHash
      BY <2>1, <3>1, <3>2 DEF RowTrue, Held
    <3> QED BY <2>1, <3>2, <3>4, <3>5 DEF MayJoin
  <2> QED BY <2>1 DEF AdapterOwnersUsable
<1> QED BY <1>1, <1>2, <1>3, <1>4 DEF LedgersAgree

\* Huey's rows and the adapter's answers agree for good: what the adapter holds for a
\* request Huey tracks, no two live requests own a listing or a hash, an alias leads to its
\* owner in one step, and an owner the adapter names can be joined (database.py 4840-5061,
\* huey.py 1277-1584), over lost answers, restarts and every order of threads and pass.
THEOREM LedgersStayAgreed ==
    ASSUME NullsAreNone, MaxRestarts \in Nat
    PROVE  Spec => []LedgersAgree
<1>1. IInv /\ [Next]_vars => IInv'
  BY NextInvariant
<1>2. IInv => LedgersAgree
  BY InvariantAgrees
<1>3. Init => IInv
  BY InitInvariant
<1> QED BY <1>1, <1>2, <1>3, PTL DEF Spec
=============================================================================
