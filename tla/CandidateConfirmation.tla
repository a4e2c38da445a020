------------------------ MODULE CandidateConfirmation ------------------------
(***************************************************************************)
(* The life of one candidate prompt: a request Huey could not match        *)
(* exactly is stored with its options, posted to Discord, bound to the     *)
(* posted message, answered by a reply, refused, expired or released by a  *)
(* restart, and posted again by the operator's batch.                      *)
(*                                                                         *)
(* The tables candidate_confirmations and candidate_confirmation_replies,  *)
(* the status column of the request, the Discord messages that carry the   *)
(* prompts and replies, and the service that receives the chosen option.   *)
(***************************************************************************)
EXTENDS Integers, FiniteSets

CONSTANTS
    Replies,        \* Discord messages sent by people
    Workers,        \* threads that handle them
    Users, Requester, Owner,   \* Owner may answer for the proxy bot only
    Options,        \* ordinals offered by the prompt
    Tokens, NoneOfThese,   \* what people write: an ordinal, a refusal, other text
    MaxPrompts, MaxRestarts,   \* bounds: generations of the prompt, restarts
    PostOutlastsTTL \* posting a prompt may take longer than its TTL

ASSUME UsersAssumption == Requester \in Users /\ Owner \in Users
ASSUME BoundsAssumption ==
    /\ Options \subseteq 1..3 /\ Options \subseteq Tokens /\ MaxPrompts \in Nat
    /\ MaxRestarts \in Nat /\ PostOutlastsTTL \in BOOLEAN

VARIABLES
    proxy,     \* the stored requester is the proxy bot
    service,   \* "arr" or "abba": what a restart does to a sent choice
    status,    \* requests.status
    conf,      \* the candidate_confirmations row
    gen,       \* generations of the prompt so far; its Discord message id too
    replies,   \* candidate_confirmation_replies: outcome per reply message
    mail,      \* what a delivered message says, and to which one it replies
    visible,   \* prompts Discord shows
    poster,    \* who is posting which generation
    worker,    \* worker[w]: thread w handling a reply
    posts,     \* acquisitions sent to the service
    requested, \* messages Huey took for new requests
    restarts

vars == <<proxy, service, status, conf, gen, replies, mail, visible, poster, worker, posts, requested, restarts>>
store == <<status, conf, gen, replies>>

-----------------------------------------------------------------------------
Posters == {"gateway", "operator"}
NoMail == [author |-> Requester, here |-> TRUE, token |-> NoneOfThese, ref |-> 0]
OtherMessage == MaxPrompts + 1   \* replied to, and no prompt; or no reply at all
Outcomes == {"claimed", "invalid", "expired", "duplicate", "rejected"}
IdleWorker == [pc |-> "idle", reply |-> 0, choice |-> 0, gen |-> 0]
IdlePoster == [pc |-> "idle", gen |-> 0]
NoConf == [status |-> "absent", prompt |-> 0, due |-> FALSE, choice |-> 0, marked |-> FALSE]

-----------------------------------------------------------------------------
(* Prompts                                                                 *)

\* Mutant: a finished prompt is reopened with its old message id.
Reopened == [conf EXCEPT !.status = "pending", !.due = FALSE, !.choice = 0]

\* A new prompt row, or a finished one reset.
FreshConf == [NoConf EXCEPT !.status = "pending"]

\* create_candidate_confirmation: the row is inserted, or a finished one reset.
Prompt(p) ==
    /\ poster[p].pc = "idle" /\ status = "processing" /\ gen < MaxPrompts
    /\ (p = "gateway") = (gen = 0)
    /\ conf.status \in {"absent", "expired", "failed"}
    /\ gen' = gen + 1
    /\ conf' = FreshConf
    /\ status' = "awaiting_selection"
    /\ poster' = [poster EXCEPT ![p] = [pc |-> "post", gen |-> gen + 1]]
    /\ UNCHANGED <<replies, mail, visible, worker, posts, requested, restarts>>

\* The operator drives a request that waits for clarification.
Redrive ==
    /\ status = "needs_selection" /\ poster["operator"].pc = "idle"
    /\ conf.status \in {"absent", "expired", "failed"} /\ gen < MaxPrompts
    /\ status' = "processing"
    /\ UNCHANGED <<conf, gen, replies, mail, visible, poster, worker, posts, requested, restarts>>

\* Discord shows the prompt; its answer to the poster may still be lost.
Show(p) ==
    /\ poster[p].pc = "post"
    /\ visible' = visible \cup {poster[p].gen}
    /\ poster' = [poster EXCEPT ![p].pc = "bind"]
    /\ UNCHANGED <<store, mail, worker, posts, requested, restarts>>

\* bind_candidate_prompt succeeds
Bind(p) ==
    /\ poster[p].pc = "bind"
    /\ conf.status = "pending" /\ conf.prompt \in {0, poster[p].gen}
    /\ conf' = [conf EXCEPT !.prompt = poster[p].gen]
    /\ poster' = [poster EXCEPT ![p] = IdlePoster]
    /\ UNCHANGED <<status, gen, replies, mail, visible, worker, posts, requested, restarts>>

\* Mutant: the failed poster releases the row without closing the prompt.
ReleaseRowOnly(how) ==
    IF conf.status = "pending" /\ status = "awaiting_selection"
    THEN status' = "needs_selection" /\ UNCHANGED conf
    ELSE UNCHANGED <<status, conf>>

\* The row and its prompt are released together, or neither is.
ReleasePrompt(how) ==
    IF conf.status = "pending" /\ status = "awaiting_selection"
    THEN /\ conf' = [conf EXCEPT !.status = how]
         /\ status' = "needs_selection"
    ELSE UNCHANGED <<status, conf>>

\* The post failed or could not be bound: fail_candidate_prompt.
FailPost(p) ==
    /\ \/ poster[p].pc = "post"
       \/ poster[p].pc = "bind"
    /\ ReleasePrompt("failed")
    /\ poster' = [poster EXCEPT ![p] = IdlePoster]
    /\ UNCHANGED <<gen, replies, mail, visible, worker, posts, requested, restarts>>

\* expires_at passes.
Tick ==
    /\ conf.status = "pending" /\ ~conf.due
    /\ PostOutlastsTTL \/ \A p \in Posters : poster[p].pc = "idle"
    /\ conf' = [conf EXCEPT !.due = TRUE]
    /\ UNCHANGED <<status, gen, replies, mail, visible, poster, worker, posts, requested, restarts>>

Due == conf.due

\* expire_candidate_confirmations, called every round of notification_loop
Expire ==
    /\ conf.status = "pending" /\ status = "awaiting_selection" /\ Due
    /\ ReleasePrompt("expired")
    /\ UNCHANGED <<gen, replies, mail, visible, poster, worker, posts, requested, restarts>>

-----------------------------------------------------------------------------
(* Replies                                                                 *)

\* Discord delivers a message; again, after a reconnect, the same content, with
\* its reference or without.
Deliver(w, m) ==
    /\ worker[w].pc = "idle" /\ visible # {}
    /\ \E a \in Users, here \in BOOLEAN, t \in Tokens, ref \in visible \cup {OtherMessage},
          kept \in BOOLEAN :
           LET fresh == [author |-> a, here |-> here, token |-> t, ref |-> ref]
           IN  /\ mail[m] \in {NoMail, fresh}
               /\ ref = OtherMessage => a = Requester /\ here   \* bound: a prompt tells them apart
               /\ mail' = [mail EXCEPT ![m] = fresh]
               /\ worker' = [worker EXCEPT ![w] =
                      [pc |-> IF kept THEN "handle" ELSE "bare", reply |-> m,
                       choice |-> 0, gen |-> 0]]
    /\ UNCHANGED <<store, visible, poster, posts, requested, restarts>>

\* _SELECTION_MEDIA_TYPES: every prompt is in a channel of these media types;
\* another channel may be one of them or not.
MayBe(selectionChannel, x) == x.here => selectionChannel

\* Mutant: the replies' table is not asked.
SubmitAlways(m) == requested' = requested \cup {m}

\* processor.process: get_by_message_id and create_request know a message that
\* was recorded as a reply or is a request already.
Submit(m) == requested' = IF replies[m] = "unseen" THEN requested \cup {m} ELSE requested

\* A bare ordinal or refusal is a selection token, no safe request.
SelectionTokens == 1..3 \cup {NoneOfThese}

\* Mutant: a refusal without its reference is a title.
UnreferencedOrdinal(x, selectionChannel) == selectionChannel /\ x.token \in 1..3

Unreferenced(x, selectionChannel) == selectionChannel /\ x.token \in SelectionTokens

\* A message without a reference is corrected or taken for a request.
Bare(w) ==
    LET m == worker[w].reply
    IN  /\ worker[w].pc = "bare"
        /\ \E selectionChannel \in BOOLEAN :
               /\ MayBe(selectionChannel, mail[m])
               /\ IF Unreferenced(mail[m], selectionChannel) THEN UNCHANGED requested ELSE Submit(m)
        /\ worker' = [worker EXCEPT ![w] = IdleWorker]
        /\ UNCHANGED <<store, mail, visible, poster, posts, restarts>>

\* Mutant: the proxy's requests are open to whoever answers them.
MayClaimAlways(a) == proxy \/ a = Requester

\* _proxy_owner_may_claim beside the requester; the bot itself never replies.
MayClaim(a) == IF proxy THEN a = Owner ELSE a = Requester

\* Only the requester refuses, and the proxy bot is nobody who could.
MayRefuse(a) == ~proxy /\ a = Requester

\* Mutant: only a finished prompt is closed, a claimed one is still open.
StandingUnlessFinished ==
    CASE conf.status = "expired" -> "expired"
      [] conf.status = "failed" -> "closed"
      [] OTHER -> "open"

\* What the referenced prompt is to any reply.
Standing ==
    CASE conf.status = "claimed" -> "taken"
      [] conf.status = "expired" -> "expired"
      [] conf.status = "pending" /\ status = "awaiting_selection" -> "open"
      [] OTHER -> "closed"

Authorized(x) == x.here /\ IF x.token = NoneOfThese THEN MayRefuse(x.author) ELSE MayClaim(x.author)

OpenVerdict(x) ==
    CASE Due -> "lapsed"
      [] ~Due /\ x.token = NoneOfThese -> "rejected"
      [] ~Due /\ x.token \in Options -> "claimed"
      [] OTHER -> "invalid"

\* The outcome of claim_candidate_selection / reject_candidate_selection for
\* reply m; "not_found" and a known reply's "duplicate" record nothing.
Verdict(m) ==
    LET x == mail[m]
    IN  IF x.ref # conf.prompt THEN "not_found"
        ELSE IF replies[m] # "unseen" \/ Standing = "taken" THEN "duplicate"
        ELSE IF ~Authorized(x) THEN "invalid"
        ELSE CASE Standing = "expired" -> "expired"
               [] Standing = "closed" -> "invalid"
               [] OTHER -> OpenVerdict(x)

\* Mutant: the verdict is recorded as it is, outside the column's check.
RecordedRaw(verdict) == verdict

\* The outcome column's value for a verdict.
Recorded(verdict) == IF verdict = "lapsed" THEN "expired" ELSE verdict

\* One transaction: the verdict, its record and what it does to the rows.
Handle(w) ==
    LET m == worker[w].reply
        v == Verdict(m)
    IN  /\ worker[w].pc = "handle"
        /\ replies' = IF v = "not_found" \/ replies[m] # "unseen" THEN replies
                      ELSE [replies EXCEPT ![m] = Recorded(v)]
        /\ CASE v = "lapsed" -> ReleasePrompt("expired")
             [] v = "rejected" -> ReleasePrompt("failed")
             [] v = "claimed" ->
                  /\ conf' = [conf EXCEPT !.status = "claimed", !.choice = mail[m].token]
                  /\ status' = "processing"
             [] OTHER -> UNCHANGED <<status, conf>>
        /\ worker' = [worker EXCEPT ![w] =
               CASE v = "claimed" -> [pc |-> "mark", reply |-> m, choice |-> mail[m].token, gen |-> gen]
                 [] v = "not_found" -> [@ EXCEPT !.pc = "unknown"]
                 [] OTHER -> IdleWorker]
        /\ UNCHANGED <<gen, mail, visible, poster, posts, requested, restarts>>

\* _reply_targets_huey_candidate_prompt: what a reference is found to be.
Found(x) == {"unresolved", IF x.ref = OtherMessage THEN "other" ELSE "prompt"}

\* Mutant: a reference Discord cannot resolve is taken for another message.
FailOpen(found, selectionChannel) == found # "prompt"

\* A reply to a message that is no live prompt is ordinary input unless that
\* message is one of Huey's prompts, or might be one.
OrdinaryInput(found, selectionChannel) ==
    found = "other" \/ (found = "unresolved" /\ ~selectionChannel)

\* A reply nothing is recorded of is corrected or taken for a request.
Unknown(w) ==
    LET m == worker[w].reply
    IN  /\ worker[w].pc = "unknown"
        /\ \E found \in Found(mail[m]), selectionChannel \in BOOLEAN :
               /\ MayBe(selectionChannel, mail[m])
               /\ IF OrdinaryInput(found, selectionChannel) THEN Submit(m) ELSE UNCHANGED requested
        /\ worker' = [worker EXCEPT ![w] = IdleWorker]
        /\ UNCHANGED <<store, mail, visible, poster, posts, restarts>>

-----------------------------------------------------------------------------
(* The claimed choice                                                      *)

Persisted(w, st) ==
    /\ status' = IF status = "processing" THEN st ELSE status
    /\ worker' = [worker EXCEPT ![w] = IdleWorker]

\* The candidate is validated afresh: it may be gone before anything is sent.
Stale(w) ==
    /\ worker[w].pc = "mark"
    /\ \E st \in {"needs_selection", "failed"} : Persisted(w, st)
    /\ UNCHANGED <<conf, gen, replies, mail, visible, poster, posts, requested, restarts>>

\* mark_candidate_dispatch_started, immediately before the POST
Mark(w) ==
    /\ worker[w].pc = "mark" /\ conf.status = "claimed" /\ status = "processing"
    /\ conf' = [conf EXCEPT !.marked = TRUE]
    /\ worker' = [worker EXCEPT ![w].pc = "send"]
    /\ UNCHANGED <<status, gen, replies, mail, visible, poster, posts, requested, restarts>>

\* Mutant: the request is sent before the boundary is durable.
MaySendEarly(w) == worker[w].pc \in {"mark", "send"}

MaySend(w) == worker[w].pc = "send"

\* The POST; the service creates the acquisition or refuses it.
Send(w) ==
    /\ MaySend(w)
    /\ \E created \in BOOLEAN :
           /\ posts' = posts \cup {[gen |-> worker[w].gen, choice |-> worker[w].choice,
                                    reply |-> worker[w].reply, created |-> created]}
           /\ worker' = [worker EXCEPT ![w].pc = IF created THEN "created" ELSE "refused"]
    /\ UNCHANGED <<store, mail, visible, poster, requested, restarts>>

\* The response, or a lost one: queued to be correlated, never released.
Answer(w) ==
    /\ worker[w].pc \in {"created", "refused"}
    /\ \E st \in {"queued", "failed"} :
           /\ worker[w].pc = "created" => st = "queued"
           /\ Persisted(w, st)
    /\ UNCHANGED <<conf, gen, replies, mail, visible, poster, posts, requested, restarts>>

-----------------------------------------------------------------------------
\* _fail_claimed_pre_dispatch_confirmations
PreDispatch == conf.status = "claimed" /\ ~conf.marked /\ status = "processing"

\* initialize: an unbound prompt and an unsent choice are released; a sent one
\* stays owned (ABBA) or ends as failed for review (Radarr, Sonarr).  The
\* operator's process is not Huey's and goes on.
Restart ==
    /\ restarts < MaxRestarts /\ restarts' = restarts + 1
    /\ \/ /\ conf.status = "pending" /\ conf.prompt = 0 /\ status = "awaiting_selection"
          /\ ReleasePrompt("failed")
       \/ /\ PreDispatch
          /\ conf' = [conf EXCEPT !.status = "failed"]
          /\ status' = "needs_selection"
       \/ /\ ~(conf.status = "pending" /\ conf.prompt = 0 /\ status = "awaiting_selection")
          /\ ~PreDispatch
          /\ status' = IF status = "processing" /\ (service = "arr" \/ ~conf.marked)
                       THEN "failed" ELSE status
          /\ UNCHANGED conf
    /\ worker' = [w \in Workers |-> IdleWorker]
    /\ poster' = [poster EXCEPT !["gateway"] = IdlePoster]
    /\ UNCHANGED <<gen, replies, mail, visible, posts, requested>>

\* reconcile_abba_requests finds the interrupted grab at the adapter, which
\* resumes it or reports its failure.
Recover ==
    /\ service = "abba" /\ status = "processing" /\ conf.status = "claimed" /\ conf.marked
    /\ \A w \in Workers : worker[w].pc = "idle"
    /\ \E st \in {"queued", "failed"} : status' = st
    /\ UNCHANGED <<conf, gen, replies, mail, visible, poster, worker, posts, requested, restarts>>

-----------------------------------------------------------------------------
Init ==
    /\ proxy \in BOOLEAN /\ service \in {"arr", "abba"}
    /\ status = "processing" /\ conf = NoConf /\ gen = 0
    /\ replies = [m \in Replies |-> "unseen"] /\ mail = [m \in Replies |-> NoMail]
    /\ visible = {} /\ poster = [p \in Posters |-> IdlePoster]
    /\ worker = [w \in Workers |-> IdleWorker]
    /\ posts = {} /\ requested = {} /\ restarts = 0

WorkerStep(w) == Bare(w) \/ Handle(w) \/ Unknown(w) \/ Stale(w) \/ Mark(w) \/ Send(w) \/ Answer(w)
PosterStep(p) == Prompt(p) \/ Show(p) \/ Bind(p) \/ FailPost(p)

Step ==
    \/ \E p \in Posters : PosterStep(p)
    \/ \E w \in Workers : WorkerStep(w) \/ \E m \in Replies : Deliver(w, m)
    \/ Redrive \/ Tick \/ Expire \/ Restart \/ Recover

Next == Step /\ UNCHANGED <<proxy, service>>

Spec == Init /\ [][Next]_vars

-----------------------------------------------------------------------------
(* Properties                                                              *)

\* The tables and the processes keep their types.
TypeOK ==
    /\ status \in {"processing", "awaiting_selection", "needs_selection", "queued", "failed"}
    /\ conf.status \in {"absent", "pending", "claimed", "expired", "failed"}
    /\ gen \in 0..MaxPrompts /\ conf.prompt \in 0..MaxPrompts /\ visible \subseteq 1..MaxPrompts
    /\ conf.choice \in Options \cup {0}
    /\ replies \in [Replies -> Outcomes \cup {"unseen"}]
    /\ requested \subseteq Replies /\ restarts \in 0..MaxRestarts

\* The request waits for an answer exactly while its prompt can be answered;
\* otherwise a reply would act on a row that moved on, or no reply ever could.
PromptMatchesRow == (status = "awaiting_selection") <=> (conf.status = "pending")

\* However many replies race, are repeated or arrive after a restart, one
\* prompt leads to at most one acquisition.
OneSubmissionPerPrompt == \A x, y \in posts : x.gen = y.gen => x = y

\* What is sent to the service is what an authorised person chose, in the
\* request's channel, by replying to a prompt.
SubmittedAsChosen ==
    \A x \in posts : LET m == mail[x.reply] IN
        /\ replies[x.reply] = "claimed"
        /\ m.token = x.choice /\ m.here
        /\ m.author = IF proxy THEN Owner ELSE Requester

\* Once the service has accepted a choice, nothing offers the request again:
\* not a restart between sending and persisting, nor a late expiry or refusal.
AcquiredIsNotOffered ==
    (\E x \in posts : x.created) => status \notin {"needs_selection", "awaiting_selection"}

\* A message of the request's channel that replies to one of its prompts.
Answers(x) == x.here /\ x.ref \in 1..MaxPrompts

\* A message recorded as a reply never becomes a request, whatever is left of
\* it when Discord delivers it again.  An answer that arrives with its reference
\* never does either, not before its prompt is bound, nor when the reference
\* cannot be resolved; a choice or a refusal does not even without it.
RepliesAreNotRequests ==
    [][\A m \in requested' \ requested :
           /\ replies[m] = "unseen"
           /\ Answers(mail[m]) =>
                /\ mail[m].token \notin SelectionTokens
                /\ \E w \in Workers : worker[w].pc = "bare" /\ worker[w].reply = m]_vars

\* create_candidate_confirmation says resetting the row "correctly makes a
\* stale Discord prompt unanswerable": an option is chosen only by a reply to
\* the generation of the prompt that offered it, as long as no post outlasts
\* the prompt's time to live.
StalePromptUnanswerable == \A x \in posts : mail[x.reply].ref = x.gen

\* The tables are sound, and row and prompt move together.
PromptSound == TypeOK /\ PromptMatchesRow

\* One prompt leads to one submission at most, of what an authorised reply to
\* that very prompt chose.
ChoiceIsObeyed == OneSubmissionPerPrompt /\ SubmittedAsChosen /\ StalePromptUnanswerable
=============================================================================
