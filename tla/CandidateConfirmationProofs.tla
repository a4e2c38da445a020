--------------------- MODULE CandidateConfirmationProofs ---------------------
(***************************************************************************)
(* Theorems about CandidateConfirmation, for any number of replies,        *)
(* threads, users, options, prompts and restarts.                          *)
(*                                                                         *)
(* What makes them true is one fact about a claimed prompt: it stays       *)
(* claimed until a restart, which takes every thread with it, so the       *)
(* thread that holds the choice is alone and of the present generation.    *)
(***************************************************************************)
EXTENDS CandidateConfirmation, TLAPS

-----------------------------------------------------------------------------
(* The types of all the state                                              *)

Generation == 0..MaxPrompts

ConfRow == [status : {"absent", "pending", "claimed", "expired", "failed"},
            prompt : Generation, due : BOOLEAN, choice : Options \cup {0}, marked : BOOLEAN]
Message == [author : Users, here : BOOLEAN, token : Tokens \cup {NoneOfThese},
            ref : Generation \cup {OtherMessage}]
PosterRow == [pc : {"idle", "post", "bind"}, gen : Generation]
WorkerPC == {"idle", "handle", "bare", "unknown", "mark", "send", "created", "refused"}
WorkerRow == [pc : WorkerPC, reply : Replies \cup {0}, choice : Options \cup {0}, gen : Generation]
Post == [gen : Generation, choice : Options \cup {0}, reply : Replies, created : BOOLEAN]

Typed ==
    /\ proxy \in BOOLEAN
    /\ status \in {"processing", "awaiting_selection", "needs_selection", "queued", "failed"}
    /\ conf \in ConfRow
    /\ gen \in Generation
    /\ replies \in [Replies -> Outcomes \cup {"unseen"}]
    /\ mail \in [Replies -> Message]
    /\ visible \subseteq 1..MaxPrompts
    /\ poster \in [Posters -> PosterRow]
    /\ \A p \in Posters : poster[p].pc # "idle" => poster[p].gen # 0
    /\ worker \in [Workers -> WorkerRow]
    /\ \A w \in Workers : worker[w].pc # "idle" => worker[w].reply \in Replies
    /\ posts \subseteq Post
    /\ requested \subseteq Replies
    /\ restarts \in 0..MaxRestarts

-----------------------------------------------------------------------------
(* The invariant                                                           *)

\* A thread that works on the claimed choice, and one that is past the marker.
Holds(w) == worker[w].pc \in {"mark", "send", "created", "refused"}
Dispatching(w) == worker[w].pc \in {"send", "created", "refused"}

\* A reply that is being handled has been delivered, and keeps its content.
DeliveredInv ==
    \A w \in Workers : worker[w].pc # "idle" => mail[worker[w].reply].ref # 0

\* What the reply m chose, and whose reply it is.
Chose(m, choice) ==
    /\ replies[m] = "claimed" /\ mail[m].ref # 0
    /\ mail[m].token = choice /\ mail[m].here
    /\ mail[m].author = IF proxy THEN Owner ELSE Requester

\* The claimed prompt has one thread at most, of its own generation, with the
\* choice of an authorised reply.
HolderInv ==
    \A w \in Workers : Holds(w) =>
        /\ conf.status = "claimed"
        /\ worker[w].gen = gen
        /\ Chose(worker[w].reply, worker[w].choice)
        /\ Dispatching(w) => conf.marked /\ status = "processing"
        /\ worker[w].pc = "mark" => ~conf.marked
        /\ worker[w].pc \in {"mark", "send"} => posts = {}
        /\ worker[w].pc = "refused" => \A x \in posts : ~x.created
        /\ \A v \in Workers : Holds(v) => v = w

\* What was sent was sent once, behind the durable marker, which stays.
PostedInv ==
    /\ conf.marked => conf.status = "claimed"
    /\ posts # {} => conf.marked
    /\ \A x, y \in posts : x = y
    /\ \A x \in posts : x.gen = gen /\ Chose(x.reply, x.choice)
    /\ (\E x \in posts : x.created) => status \in {"processing", "queued", "failed"}

Coherent == PromptMatchesRow /\ DeliveredInv /\ HolderInv /\ PostedInv

IInv == Typed /\ Coherent

\* Nobody posts an earlier generation, and whoever posts this one has not been
\* overtaken by its expiry: it is what PostOutlastsTTL would break.
PosterInv ==
    /\ \A p \in Posters : poster[p].pc # "idle" =>
           /\ gen # 0 /\ poster[p].gen = gen
           /\ \A q \in Posters : poster[q].pc # "idle" => q = p
           /\ p = "gateway" => conf.status = "pending"
           /\ conf.status = "pending" => ~conf.due /\ conf.prompt = 0
    /\ conf.status = "pending" => conf.prompt \in {0, gen}
    /\ \A w \in Workers : Holds(w) => mail[worker[w].reply].ref = gen
    /\ \A x \in posts : mail[x.reply].ref = x.gen

-----------------------------------------------------------------------------
(* Types                                                                   *)

LEMMA TypedInit == Init => Typed
BY UsersAssumption, BoundsAssumption DEF Init, Typed, NoConf, NoMail, IdlePoster, IdleWorker, ConfRow,
   Message, PosterRow, WorkerRow, WorkerPC, Generation, Outcomes, Posters

\* Who is idle does nothing, and is of the type of its row.
LEMMA IdleType ==
    /\ IdleWorker \in WorkerRow /\ IdleWorker.pc = "idle"
    /\ IdlePoster \in PosterRow /\ IdlePoster.pc = "idle"
BY BoundsAssumption DEF IdleWorker, IdlePoster, WorkerRow, WorkerPC, PosterRow, Generation

LEMMA ReleaseType ==
    ASSUME Typed, NEW how \in {"expired", "failed"}, ReleasePrompt(how)
    PROVE  conf' \in ConfRow /\ status' \in {status, "needs_selection"}
BY DEF ReleasePrompt, Typed, ConfRow

LEMMA PosterType ==
    ASSUME Typed, NEW p \in Posters, PosterStep(p), UNCHANGED <<proxy, service>>
    PROVE  Typed'
<1>1. CASE Prompt(p)
  <2>1. gen + 1 \in Generation /\ 0 \in Generation
    BY <1>1, BoundsAssumption DEF Prompt, Typed, Generation
  <2>2. conf' \in ConfRow /\ poster' \in [Posters -> PosterRow]
    BY <1>1, <2>1 DEF Prompt, Typed, FreshConf, NoConf, ConfRow, PosterRow
  <2>3. gen + 1 # 0
    BY DEF Typed, Generation
  <2> QED
    BY <1>1, <2>1, <2>2, <2>3 DEF Prompt, Typed, PosterRow
<1>2. CASE Show(p)
  <2>1. poster[p].gen \in 1..MaxPrompts
    BY <1>2 DEF Show, Typed, PosterRow, Generation
  <2> QED
    BY <1>2, <2>1 DEF Show, Typed, store, PosterRow
<1>3. CASE Bind(p)
  <2>1. conf' \in ConfRow
    BY <1>3 DEF Bind, Typed, ConfRow, PosterRow
  <2>2. poster' \in [Posters -> PosterRow] /\ \A q \in Posters : poster'[q] \in {poster[q], IdlePoster}
    BY <1>3, IdleType DEF Bind, Typed
  <2> QED
    BY <1>3, <2>1, <2>2, IdleType DEF Bind, Typed
<1>4. CASE FailPost(p)
  <2>1. conf' \in ConfRow /\ status' \in {status, "needs_selection"}
    BY <1>4, ReleaseType DEF FailPost
  <2>2. poster' \in [Posters -> PosterRow] /\ \A q \in Posters : poster'[q] \in {poster[q], IdlePoster}
    BY <1>4, IdleType DEF FailPost, Typed
  <2> QED
    BY <1>4, <2>1, <2>2, IdleType DEF FailPost, Typed
<1> QED
  BY <1>1, <1>2, <1>3, <1>4 DEF PosterStep

LEMMA ReplyType ==
    ASSUME Typed, NEW w \in Workers, Bare(w) \/ Handle(w) \/ Unknown(w),
           UNCHANGED <<proxy, service>>
    PROVE  Typed'
<1>1. CASE Bare(w) \/ Unknown(w)
  <2>1. /\ worker' \in [Workers -> WorkerRow]
        /\ \A v \in Workers : worker'[v].pc # "idle" => worker'[v].reply \in Replies
    BY <1>1, IdleType DEF Bare, Unknown, Typed
  <2>2. UNCHANGED <<store, mail, visible, poster, posts, restarts>>
    BY <1>1 DEF Bare, Unknown
  <2>3. requested' \subseteq Replies
    BY <1>1 DEF Bare, Unknown, Submit, Typed
  <2> QED
    BY <2>1, <2>2, <2>3 DEF Typed, store
<1>2. CASE Handle(w)
  <2> DEFINE m == worker[w].reply
  <2>1. m \in Replies
    BY <1>2 DEF Handle, Typed
  <2>2. Verdict(m) = "claimed" => mail[m].token \in Options
    BY DEF Verdict, OpenVerdict
  <2>3. Verdict(m) # "not_found" => Recorded(Verdict(m)) \in Outcomes
    BY DEF Verdict, OpenVerdict, Recorded, Outcomes
  <2>4. replies' \in [Replies -> Outcomes \cup {"unseen"}]
    BY <1>2, <2>1, <2>3 DEF Handle, Typed
  <2>5. conf' \in ConfRow /\ status' \in {status, "needs_selection", "processing"}
    <3>1. CASE Verdict(m) \in {"lapsed", "rejected"}
      BY <1>2, <3>1, ReleaseType DEF Handle
    <3>2. CASE Verdict(m) = "claimed"
      BY <1>2, <2>2, <3>2 DEF Handle, Typed, ConfRow
    <3>3. CASE Verdict(m) \notin {"lapsed", "rejected", "claimed"}
      BY <1>2, <3>3 DEF Handle, Typed
    <3> QED
      BY <3>1, <3>2, <3>3
  <2>6. PICK row \in WorkerRow :
          /\ worker' = [worker EXCEPT ![w] = row]
          /\ row.pc # "idle" => row.reply \in Replies
    <3>1. worker[w] \in WorkerRow
      BY DEF Typed
    <3>2. CASE Verdict(m) = "claimed"
      <4> DEFINE r == [pc |-> "mark", reply |-> m, choice |-> mail[m].token, gen |-> gen]
      <4>1. r \in WorkerRow /\ r.reply \in Replies
        BY <2>1, <2>2, <3>2 DEF Typed, WorkerRow, WorkerPC
      <4>2. worker' = [worker EXCEPT ![w] = r]
        BY <1>2, <3>2 DEF Handle
      <4> QED
        BY <4>1, <4>2
    <3>3. CASE Verdict(m) = "not_found"
      <4> DEFINE r == [worker[w] EXCEPT !.pc = "unknown"]
      <4>1. r \in WorkerRow /\ r.reply \in Replies
        BY <2>1, <3>1 DEF WorkerRow, WorkerPC
      <4>2. worker' = [worker EXCEPT ![w] = r]
        BY <1>2, <3>3 DEF Handle
      <4> QED
        BY <4>1, <4>2
    <3>4. CASE Verdict(m) \notin {"claimed", "not_found"}
      <4>1. worker' = [worker EXCEPT ![w] = IdleWorker]
        BY <1>2, <3>4 DEF Handle
      <4> QED
        BY <4>1, IdleType
    <3> QED
      BY <3>2, <3>3, <3>4
  <2>7. /\ worker' \in [Workers -> WorkerRow]
        /\ \A v \in Workers : worker'[v].pc # "idle" => worker'[v].reply \in Replies
    BY <2>6 DEF Typed
  <2> QED
    BY <1>2, <2>4, <2>5, <2>7 DEF Handle, Typed
<1> QED
  BY <1>1, <1>2

LEMMA ChoiceType ==
    ASSUME Typed, NEW w \in Workers, Stale(w) \/ Mark(w) \/ Send(w) \/ Answer(w),
           UNCHANGED <<proxy, service>>
    PROVE  Typed'
<1>1. CASE Stale(w) \/ Answer(w)
  <2>1. /\ worker' \in [Workers -> WorkerRow]
        /\ \A v \in Workers : worker'[v].pc # "idle" => worker'[v].reply \in Replies
    BY <1>1, IdleType DEF Stale, Answer, Persisted, Typed
  <2>2. status' \in {status, "needs_selection", "failed", "queued"}
    BY <1>1 DEF Stale, Answer, Persisted
  <2>3. UNCHANGED <<conf, gen, replies, mail, visible, poster, posts, requested, restarts>>
    BY <1>1 DEF Stale, Answer
  <2> QED
    BY <2>1, <2>2, <2>3 DEF Typed
<1>2. CASE Mark(w)
  <2>1. conf' \in ConfRow
    BY <1>2 DEF Mark, Typed, ConfRow
  <2>2. /\ worker' \in [Workers -> WorkerRow]
        /\ \A v \in Workers : worker'[v].pc # "idle" => worker'[v].reply \in Replies
    BY <1>2 DEF Mark, Typed, WorkerRow, WorkerPC
  <2> QED
    BY <1>2, <2>1, <2>2 DEF Mark, Typed
<1>3. CASE Send(w)
  <2>1. worker[w].reply \in Replies /\ worker[w] \in WorkerRow
    BY <1>3 DEF Send, MaySend, Typed
  <2>2. posts' \subseteq Post
    BY <1>3, <2>1 DEF Send, Typed, Post, WorkerRow
  <2>3. /\ worker' \in [Workers -> WorkerRow]
        /\ \A v \in Workers : worker'[v].pc # "idle" => worker'[v].reply \in Replies
    BY <1>3, <2>1 DEF Send, Typed, WorkerRow, WorkerPC
  <2> QED
    BY <1>3, <2>2, <2>3 DEF Send, Typed, store
<1> QED
  BY <1>1, <1>2, <1>3

LEMMA DeliverType ==
    ASSUME Typed, NEW w \in Workers, NEW m \in Replies, Deliver(w, m),
           UNCHANGED <<proxy, service>>
    PROVE  Typed'
<1>1. PICK a \in Users, here \in BOOLEAN, t \in Tokens, ref \in visible \cup {OtherMessage},
           kept \in BOOLEAN :
        LET fresh == [author |-> a, here |-> here, token |-> t, ref |-> ref]
        IN  /\ mail[m] \in {NoMail, fresh}
            /\ mail' = [mail EXCEPT ![m] = fresh]
            /\ worker' = [worker EXCEPT ![w] =
                   [pc |-> IF kept THEN "handle" ELSE "bare", reply |-> m,
                    choice |-> 0, gen |-> 0]]
  BY DEF Deliver
<1>2. mail' \in [Replies -> Message]
  <2>1. [author |-> a, here |-> here, token |-> t, ref |-> ref] \in Message
    BY BoundsAssumption DEF Message, Typed, Generation, OtherMessage
  <2> QED
    BY <1>1, <2>1 DEF Typed
<1>3. /\ worker' \in [Workers -> WorkerRow]
      /\ \A v \in Workers : worker'[v].pc # "idle" => worker'[v].reply \in Replies
  <2>1. [pc |-> IF kept THEN "handle" ELSE "bare", reply |-> m, choice |-> 0, gen |-> 0]
          \in WorkerRow
    BY BoundsAssumption DEF WorkerRow, WorkerPC, Generation
  <2> QED
    BY <1>1, <2>1 DEF Typed
<1> QED
  BY <1>2, <1>3 DEF Deliver, Typed, store

LEMMA TableType ==
    ASSUME Typed, Redrive \/ Tick \/ Expire \/ Restart \/ Recover, UNCHANGED <<proxy, service>>
    PROVE  Typed'
<1>1. CASE Redrive
  BY <1>1 DEF Redrive, Typed
<1>2. CASE Tick
  BY <1>2 DEF Tick, Typed, ConfRow
<1>3. CASE Expire
  <2>1. conf' \in ConfRow /\ status' \in {status, "needs_selection"}
    BY <1>3, ReleaseType DEF Expire
  <2> QED
    BY <1>3, <2>1 DEF Expire, Typed
<1>4. CASE Restart
  <2>1. conf' \in ConfRow /\ status' \in {status, "needs_selection", "failed"}
    <3>1. CASE ReleasePrompt("failed")
      BY <3>1, ReleaseType
    <3>2. CASE conf' = [conf EXCEPT !.status = "failed"] /\ status' = "needs_selection"
      BY <3>2 DEF Typed, ConfRow
    <3>3. CASE UNCHANGED conf /\ status' \in {status, "failed"}
      BY <3>3 DEF Typed
    <3> QED
      BY <1>4, <3>1, <3>2, <3>3 DEF Restart
  <2>2. /\ worker' \in [Workers -> WorkerRow] /\ \A w \in Workers : worker'[w] = IdleWorker
        /\ poster' \in [Posters -> PosterRow] /\ \A q \in Posters : poster'[q] \in {poster[q], IdlePoster}
    BY <1>4, IdleType DEF Restart, Typed
  <2>3. restarts' \in 0..MaxRestarts
    BY <1>4, BoundsAssumption DEF Restart, Typed
  <2> QED
    BY <1>4, <2>1, <2>2, <2>3, IdleType DEF Restart, Typed
<1>5. CASE Recover
  BY <1>5 DEF Recover, Typed
<1> QED
  BY <1>1, <1>2, <1>3, <1>4, <1>5

LEMMA TypedStep == Typed /\ [Next]_vars => Typed'
<1> SUFFICES ASSUME Typed, [Next]_vars PROVE Typed'
  OBVIOUS
<1>1. CASE UNCHANGED vars
  BY <1>1 DEF vars, Typed
<1>2. CASE Next
  BY <1>2, PosterType, ReplyType, ChoiceType, DeliverType, TableType DEF Next, Step, WorkerStep
<1> QED
  BY <1>1, <1>2

-----------------------------------------------------------------------------
(* The prompt, its thread and what was sent                                *)

\* While the prompt is not claimed nobody works on a choice, and nothing has
\* been sent.
LEMMA Unclaimed ==
    ASSUME Coherent, conf.status # "claimed"
    PROVE  (\A w \in Workers : ~Holds(w)) /\ posts = {} /\ ~conf.marked
BY DEF Coherent, HolderInv, PostedInv

\* A choice stands as long as its reply keeps its outcome and its text.
LEMMA ChoiceStands ==
    ASSUME NEW m, NEW choice, Chose(m, choice), proxy' = proxy,
           replies'[m] = replies[m], mail'[m] = mail[m]
    PROVE  Chose(m, choice)'
BY DEF Chose

\* Releasing the prompt touches no thread: there is none to touch.
LEMMA ReleaseStep ==
    ASSUME Coherent, NEW how \in {"expired", "failed"}, ReleasePrompt(how),
           UNCHANGED <<proxy, gen, replies, mail, worker, posts, requested>>, Typed
    PROVE  Coherent'
<1>1. CASE conf.status = "pending" /\ status = "awaiting_selection"
  <2>1. (\A w \in Workers : ~Holds(w)) /\ posts = {} /\ ~conf.marked
    BY <1>1, Unclaimed
  <2>2. conf' = [conf EXCEPT !.status = how] /\ status' = "needs_selection"
    BY <1>1 DEF ReleasePrompt
  <2>3. conf'.status = how /\ conf'.marked = conf.marked
    BY <2>2 DEF Typed, ConfRow
  <2> QED
    BY <2>1, <2>2, <2>3 DEF Coherent, PromptMatchesRow, DeliveredInv, HolderInv, PostedInv, Holds
<1>2. CASE ~(conf.status = "pending" /\ status = "awaiting_selection")
  <2>1. UNCHANGED <<status, conf>>
    BY <1>2 DEF ReleasePrompt
  <2> QED
    BY <2>1 DEF Coherent, PromptMatchesRow, DeliveredInv, HolderInv, PostedInv, Holds,
       Dispatching, Chose
<1> QED
  BY <1>1, <1>2

LEMMA PosterStepCoherent ==
    ASSUME IInv, NEW p \in Posters, PosterStep(p), UNCHANGED <<proxy, service>>
    PROVE  Coherent'
<1> USE DEF IInv
<1>1. CASE Prompt(p)
  <2>1. (\A w \in Workers : ~Holds(w)) /\ posts = {}
    BY <1>1, Unclaimed DEF Prompt
  <2>2. conf'.status = "pending" /\ ~conf'.marked
    BY <1>1 DEF Prompt, FreshConf, NoConf
  <2> QED
    BY <1>1, <2>1, <2>2 DEF Prompt, Coherent, PromptMatchesRow, DeliveredInv, HolderInv,
       PostedInv, Holds
<1>2. CASE Show(p) \/ Bind(p)
  <2>1. /\ UNCHANGED <<status, gen, replies, mail, worker, posts, requested>>
        /\ conf'.status = conf.status /\ conf'.marked = conf.marked
    BY <1>2 DEF Show, Bind, store, Typed, ConfRow
  <2> QED
    BY <2>1 DEF Coherent, PromptMatchesRow, DeliveredInv, HolderInv, PostedInv, Holds,
       Dispatching, Chose
<1>3. CASE FailPost(p)
  BY <1>3, ReleaseStep DEF FailPost
<1> QED
  BY <1>1, <1>2, <1>3 DEF PosterStep

LEMMA DeliverCoherent ==
    ASSUME IInv, NEW w \in Workers, NEW m \in Replies, Deliver(w, m),
           UNCHANGED <<proxy, service>>
    PROVE  Coherent'
<1> USE DEF IInv
<1>1. PICK a \in Users, here \in BOOLEAN, t \in Tokens, ref \in visible \cup {OtherMessage},
           kept \in BOOLEAN :
        LET fresh == [author |-> a, here |-> here, token |-> t, ref |-> ref]
        IN  /\ mail[m] \in {NoMail, fresh}
            /\ mail' = [mail EXCEPT ![m] = fresh]
            /\ worker' = [worker EXCEPT ![w] =
                   [pc |-> IF kept THEN "handle" ELSE "bare", reply |-> m,
                    choice |-> 0, gen |-> 0]]
  BY DEF Deliver
<1>2. ref # 0
  BY BoundsAssumption DEF Typed, OtherMessage
<1>3. /\ mail'[m] = [author |-> a, here |-> here, token |-> t, ref |-> ref]
      /\ \A n \in Replies : n # m => mail'[n] = mail[n]
  BY <1>1 DEF Typed
<1>4. \A n \in Replies : mail[n].ref # 0 => mail'[n] = mail[n]
  <2>1. mail[m].ref # 0 => mail'[m] = mail[m]
    BY <1>1 DEF Typed, NoMail
  <2> QED
    BY <1>3, <2>1
<1>5. /\ worker'[w].pc \in {"handle", "bare"} /\ worker'[w].reply = m
      /\ \A v \in Workers : v # w => worker'[v] = worker[v]
  BY <1>1 DEF Typed
<1>6. UNCHANGED <<status, conf, gen, replies, posts, requested>>
  BY DEF Deliver, store
<1>7. DeliveredInv'
  <2> SUFFICES ASSUME NEW v \in Workers, worker'[v].pc # "idle"
               PROVE  mail'[worker'[v].reply].ref # 0
    BY DEF DeliveredInv
  <2>1. CASE v = w
    BY <1>2, <1>3, <1>5, <2>1
  <2>2. CASE v # w
    BY <1>4, <1>5, <2>2 DEF DeliveredInv, Coherent, Typed
  <2> QED
    BY <2>1, <2>2
<1>8. \A n \in Replies : \A c : Chose(n, c) => Chose(n, c)'
  BY <1>4, <1>6 DEF Chose
<1>9. HolderInv'
  <2>1. \A v \in Workers : Holds(v)' => v # w /\ Holds(v) /\ worker'[v] = worker[v]
    BY <1>5 DEF Holds
  <2>2. \A v \in Workers : Holds(v) => worker[v].reply \in Replies
    BY DEF Holds, Typed
  <2> QED
    BY <1>6, <1>8, <2>1, <2>2 DEF HolderInv, Coherent, Dispatching
<1>10. PostedInv'
  <2>1. \A x \in posts : x.reply \in Replies
    BY DEF Typed, Post
  <2> QED
    BY <1>6, <1>8, <2>1 DEF PostedInv, Coherent
<1> QED
  BY <1>6, <1>7, <1>9, <1>10 DEF Coherent, PromptMatchesRow

\* A claim is what an authorised reply to an open prompt says.
LEMMA ClaimIsAuthorised ==
    ASSUME NEW m, Verdict(m) = "claimed"
    PROVE  /\ conf.status = "pending" /\ status = "awaiting_selection"
           /\ mail[m].here /\ mail[m].ref = conf.prompt /\ ~conf.due /\ replies[m] = "unseen"
           /\ mail[m].author = IF proxy THEN Owner ELSE Requester
BY DEF Verdict, OpenVerdict, Standing, Authorized, MayClaim, MayRefuse, Due

LEMMA HandleCoherent ==
    ASSUME IInv, NEW w \in Workers, Handle(w), UNCHANGED <<proxy, service>>
    PROVE  Coherent'
<1> USE DEF IInv
<1> DEFINE m == worker[w].reply
<1> DEFINE v == Verdict(m)
<1>1. worker[w].pc = "handle" /\ m \in Replies /\ mail[m].ref # 0
  BY DEF Handle, Typed, Coherent, DeliveredInv
<1>2. \A n \in Replies : n # m \/ replies[n] # "unseen" => replies'[n] = replies[n]
  BY <1>1 DEF Handle, Typed
<1>3. UNCHANGED <<gen, mail, posts, requested>>
  BY DEF Handle
<1>4. \A n \in Replies : \A c : Chose(n, c) => Chose(n, c)'
  BY <1>2, <1>3 DEF Chose
<1>5. CASE v = "claimed"
  <2>1. /\ (\A u \in Workers : ~Holds(u)) /\ posts = {} /\ ~conf.marked
        /\ mail[m].here /\ mail[m].author = IF proxy THEN Owner ELSE Requester
        /\ replies[m] = "unseen"
    BY <1>5, ClaimIsAuthorised, Unclaimed
  <2>2. /\ conf'.status = "claimed" /\ ~conf'.marked /\ status' = "processing"
        /\ conf' \in ConfRow
    <3>1. /\ conf' = [conf EXCEPT !.status = "claimed", !.choice = mail[m].token]
          /\ status' = "processing"
      BY <1>5 DEF Handle
    <3>2. mail[m].token \in Options
      BY <1>5 DEF Verdict, OpenVerdict
    <3> QED
      BY <2>1, <3>1, <3>2 DEF Typed, ConfRow
  <2>3. replies'[m] = "claimed"
    BY <1>1, <1>5, <2>1 DEF Handle, Typed, Recorded
  <2>4. worker' = [worker EXCEPT ![w] = [pc |-> "mark", reply |-> m, choice |-> mail[m].token, gen |-> gen]]
    BY <1>5 DEF Handle
  <2>5. /\ worker'[w] = [pc |-> "mark", reply |-> m, choice |-> mail[m].token, gen |-> gen]
        /\ \A u \in Workers : u # w => worker'[u] = worker[u]
    BY <2>4 DEF Typed
  <2>6. \A n, c : n = m /\ c = mail[m].token => Chose(n, c)'
    BY <1>1, <1>3, <2>1, <2>3 DEF Chose
  <2>7. \A u \in Workers : Holds(u)' => u = w
    BY <2>1, <2>5 DEF Holds
  <2>8. HolderInv'
    BY <1>3, <2>1, <2>2, <2>5, <2>6, <2>7 DEF HolderInv, Dispatching, Chose
  <2>9. DeliveredInv'
    BY <1>1, <1>3, <2>5 DEF DeliveredInv, Coherent
  <2> QED
    BY <1>3, <2>1, <2>2, <2>8, <2>9 DEF Coherent, PromptMatchesRow, PostedInv
<1>6. CASE v # "claimed"
  <2>1. PICK row : /\ worker' = [worker EXCEPT ![w] = row]
                   /\ row.pc \in {"idle", "unknown"} /\ (row.pc = "unknown" => row.reply = m)
    <3>1. CASE v = "not_found"
      <4>1. worker' = [worker EXCEPT ![w] = [worker[w] EXCEPT !.pc = "unknown"]]
        BY <3>1 DEF Handle
      <4>2. worker[w] \in WorkerRow
        BY DEF Typed
      <4> DEFINE r == [worker[w] EXCEPT !.pc = "unknown"]
      <4>3. r.pc = "unknown" /\ r.reply = m
        BY <4>2 DEF WorkerRow
      <4> HIDE DEF r
      <4> QED
        BY <4>1, <4>3 DEF r
    <3>2. CASE v # "not_found"
      <4>1. worker' = [worker EXCEPT ![w] = IdleWorker]
        BY <1>6, <3>2 DEF Handle
      <4> QED
        BY <4>1, IdleType
    <3> QED
      BY <3>1, <3>2
  <2>2. /\ worker'[w] = row
        /\ \A u \in Workers : u # w => worker'[u] = worker[u]
    BY <2>1 DEF Typed
  <2>3. DeliveredInv'
    BY <1>1, <1>3, <2>1, <2>2 DEF DeliveredInv, Coherent
  <2>4. \A u \in Workers : Holds(u)' => Holds(u) /\ worker'[u] = worker[u] /\ worker[u].reply \in Replies
    BY <2>1, <2>2 DEF Holds, Typed
  <2>5. \A x \in posts : x.reply \in Replies
    BY DEF Typed, Post
  <2>6. CASE conf.status = "pending" /\ status = "awaiting_selection"
    <3>1. (\A u \in Workers : ~Holds(u)) /\ posts = {} /\ ~conf.marked
      BY <2>6, Unclaimed
    <3>2. \/ UNCHANGED <<status, conf>>
          \/ conf'.status \in {"expired", "failed"} /\ conf'.marked = conf.marked /\ status' = "needs_selection"
      BY <1>6, <2>6 DEF Handle, ReleasePrompt, Typed, ConfRow
    <3> QED
      BY <1>3, <2>3, <2>4, <3>1, <3>2 DEF Coherent, PromptMatchesRow, HolderInv, PostedInv
  <2>7. CASE ~(conf.status = "pending" /\ status = "awaiting_selection")
    <3>1. UNCHANGED <<status, conf>>
      BY <1>6, <2>7 DEF Handle, ReleasePrompt
    <3>2. HolderInv'
      BY <1>3, <1>4, <2>4, <3>1 DEF HolderInv, Coherent, Dispatching
    <3>3. PostedInv'
      BY <1>3, <1>4, <2>5, <3>1 DEF PostedInv, Coherent
    <3> QED
      BY <1>3, <2>3, <3>1, <3>2, <3>3 DEF Coherent, PromptMatchesRow
  <2> QED
    BY <2>6, <2>7
<1> QED
  BY <1>5, <1>6

\* A thread that leaves its reply, with no word about it.
LEMMA LeaveCoherent ==
    ASSUME IInv, NEW w \in Workers, Bare(w) \/ Unknown(w), UNCHANGED <<proxy, service>>
    PROVE  Coherent'
<1> USE DEF IInv
<1>1. UNCHANGED <<status, conf, gen, replies, mail, posts>>
  BY DEF Bare, Unknown, store
<1>3. \A u \in Workers : worker'[u].pc = "idle" \/ worker'[u] = worker[u]
  BY IdleType DEF Bare, Unknown, Typed
<1>4. \A u \in Workers : Holds(u)' => Holds(u) /\ worker'[u] = worker[u]
  BY <1>3 DEF Holds
<1>5. HolderInv'
  BY <1>1, <1>4 DEF HolderInv, Coherent, Dispatching, Chose
<1>6. DeliveredInv'
  BY <1>1, <1>3 DEF DeliveredInv, Coherent
<1> QED
  BY <1>1, <1>5, <1>6 DEF Coherent, PromptMatchesRow, PostedInv, Chose

\* A thread that works on the choice is the only one.
LEMMA HolderIsAlone ==
    ASSUME IInv, NEW w \in Workers, Holds(w)
    PROVE  /\ conf.status = "claimed" /\ status # "awaiting_selection"
           /\ \A v \in Workers : v # w => ~Holds(v)
BY DEF IInv, Coherent, HolderInv, PromptMatchesRow

\* A thread that lets go of the choice: what was sent is queued or failed.
LEMMA PersistCoherent ==
    ASSUME IInv, NEW w \in Workers, Stale(w) \/ Answer(w), UNCHANGED <<proxy, service>>
    PROVE  Coherent'
<1> USE DEF IInv
<1>1. UNCHANGED <<conf, gen, replies, mail, posts, requested>>
  BY DEF Stale, Answer
<1>2. Holds(w) /\ conf.status = "claimed" /\ status # "awaiting_selection"
  BY HolderIsAlone DEF Stale, Answer, Holds
<1>3. \A u \in Workers : worker'[u].pc = "idle" \/ (u # w /\ worker'[u] = worker[u])
  BY IdleType DEF Stale, Answer, Persisted, Typed
<1>4. \A u \in Workers : ~Holds(u)'
  BY <1>2, <1>3, HolderIsAlone DEF Holds
<1>5. status' # "awaiting_selection" /\ (posts # {} => status' \in {status, "queued", "failed"})
  <2>1. worker[w].pc = "mark" => posts = {}
    BY DEF Coherent, HolderInv, Holds
  <2> QED
    BY <1>2, <2>1 DEF Stale, Answer, Persisted
<1>6. DeliveredInv'
  BY <1>1, <1>3 DEF DeliveredInv, Coherent
<1> QED
  BY <1>1, <1>2, <1>4, <1>5, <1>6 DEF Coherent, PromptMatchesRow, HolderInv, PostedInv, Chose

LEMMA MarkCoherent ==
    ASSUME IInv, NEW w \in Workers, Mark(w), UNCHANGED <<proxy, service>>
    PROVE  Coherent'
<1> USE DEF IInv
<1>1. UNCHANGED <<status, gen, replies, mail, posts, requested>> /\ status = "processing"
  BY DEF Mark
<1>2. conf'.status = "claimed" /\ conf'.marked
  BY DEF Mark, Typed, ConfRow
<1>3. Holds(w) /\ posts = {} /\ worker[w].gen = gen /\ Chose(worker[w].reply, worker[w].choice)
  BY DEF Mark, Holds, Coherent, HolderInv
<1>4. /\ worker'[w].pc = "send" /\ worker'[w].gen = worker[w].gen
      /\ worker'[w].reply = worker[w].reply /\ worker'[w].choice = worker[w].choice
      /\ \A u \in Workers : u # w => worker'[u] = worker[u]
  <2>1. worker[w] \in WorkerRow
    BY DEF Typed
  <2> QED
    BY <2>1 DEF Mark, Typed, WorkerRow
<1>5. \A u \in Workers : Holds(u)' => u = w
  BY <1>3, <1>4, HolderIsAlone DEF Holds
<1>6. HolderInv'
  BY <1>1, <1>2, <1>3, <1>4, <1>5 DEF HolderInv, Dispatching, Chose
<1>7. DeliveredInv'
  BY <1>1, <1>4 DEF DeliveredInv, Coherent, Mark
<1> QED
  BY <1>1, <1>2, <1>3, <1>6, <1>7 DEF Coherent, PromptMatchesRow, PostedInv

LEMMA SendCoherent ==
    ASSUME IInv, NEW w \in Workers, Send(w), UNCHANGED <<proxy, service>>
    PROVE  Coherent'
<1> USE DEF IInv
<1>1. UNCHANGED <<status, conf, gen, replies, mail, requested>>
  BY DEF Send, store
<1>2. /\ Holds(w) /\ posts = {} /\ worker[w].gen = gen /\ Chose(worker[w].reply, worker[w].choice)
      /\ conf.marked /\ status = "processing" /\ conf.status = "claimed"
  BY DEF Send, MaySend, Holds, Coherent, HolderInv, Dispatching
<1>3. PICK created \in BOOLEAN :
        /\ posts' = posts \cup {[gen |-> worker[w].gen, choice |-> worker[w].choice,
                                 reply |-> worker[w].reply, created |-> created]}
        /\ worker' = [worker EXCEPT ![w].pc = IF created THEN "created" ELSE "refused"]
  BY DEF Send
<1>4. /\ worker'[w].pc = IF created THEN "created" ELSE "refused"
      /\ worker'[w].gen = worker[w].gen
      /\ worker'[w].reply = worker[w].reply /\ worker'[w].choice = worker[w].choice
      /\ \A u \in Workers : u # w => worker'[u] = worker[u]
  <2>1. worker[w] \in WorkerRow
    BY DEF Typed
  <2> QED
    BY <1>3, <2>1 DEF Typed, WorkerRow
<1>5. \A u \in Workers : Holds(u)' => u = w
  BY <1>2, <1>4, HolderIsAlone DEF Holds
<1>6. \A x \in posts' : /\ x.gen = gen /\ x.choice = worker[w].choice
                        /\ x.reply = worker[w].reply /\ x.created = created
  BY <1>2, <1>3
<1>7. HolderInv'
  BY <1>1, <1>2, <1>4, <1>5, <1>6 DEF HolderInv, Dispatching, Chose
<1>8. DeliveredInv'
  BY <1>1, <1>4 DEF DeliveredInv, Coherent, Send, MaySend
<1>9. PostedInv'
  BY <1>1, <1>2, <1>3, <1>6 DEF PostedInv, Chose
<1> QED
  BY <1>1, <1>7, <1>8, <1>9 DEF Coherent, PromptMatchesRow

LEMMA TableCoherent ==
    ASSUME IInv, Redrive \/ Tick \/ Expire \/ Restart \/ Recover, UNCHANGED <<proxy, service>>
    PROVE  Coherent'
<1> USE DEF IInv
<1>1. CASE Redrive
  <2>1. (\A w \in Workers : ~Holds(w)) /\ posts = {} /\ conf.status # "pending"
    BY <1>1, Unclaimed DEF Redrive
  <2> QED
    BY <1>1, <2>1 DEF Redrive, Coherent, PromptMatchesRow, DeliveredInv, HolderInv, PostedInv, Holds
<1>2. CASE Tick
  <2>1. conf'.status = conf.status /\ conf'.marked = conf.marked
    BY <1>2 DEF Tick, Typed, ConfRow
  <2> QED
    BY <1>2, <2>1 DEF Tick, Coherent, PromptMatchesRow, DeliveredInv, HolderInv, PostedInv,
       Holds, Dispatching, Chose
<1>3. CASE Expire
  BY <1>3, ReleaseStep DEF Expire
<1>4. CASE Restart
  <2>1. UNCHANGED <<gen, replies, mail, posts, requested>>
    BY <1>4 DEF Restart
  <2>2. \A w \in Workers : worker'[w].pc = "idle"
    BY <1>4, IdleType DEF Restart
  <2>3. DeliveredInv' /\ HolderInv'
    BY <2>2 DEF DeliveredInv, HolderInv, Holds
  <2>4. CASE ReleasePrompt("failed") /\ conf.status = "pending" /\ status = "awaiting_selection"
    <3>1. posts = {} /\ ~conf.marked
      BY <2>4, Unclaimed
    <3>2. conf'.status = "failed" /\ conf'.marked = conf.marked /\ status' = "needs_selection"
      BY <2>4 DEF ReleasePrompt, Typed, ConfRow
    <3> QED
      BY <2>1, <2>3, <3>1, <3>2 DEF Coherent, PromptMatchesRow, PostedInv
  <2>5. CASE PreDispatch /\ conf' = [conf EXCEPT !.status = "failed"] /\ status' = "needs_selection"
    <3>1. posts = {} /\ ~conf.marked
      BY <2>5 DEF PreDispatch, Coherent, PostedInv
    <3>2. conf'.status = "failed" /\ conf'.marked = conf.marked
      BY <2>5 DEF Typed, ConfRow
    <3> QED
      BY <2>1, <2>3, <2>5, <3>1, <3>2 DEF Coherent, PromptMatchesRow, PostedInv
  <2>6. CASE /\ UNCHANGED conf
             /\ status' = IF status = "processing" /\ (service = "arr" \/ ~conf.marked)
                          THEN "failed" ELSE status
    BY <2>1, <2>3, <2>6 DEF Coherent, PromptMatchesRow, PostedInv, Chose
  <2> QED
    BY <1>4, <2>4, <2>5, <2>6 DEF Restart
<1>5. CASE Recover
  <2>1. conf.status = "claimed" /\ status' \in {"queued", "failed"} /\ status = "processing"
    BY <1>5 DEF Recover
  <2>2. UNCHANGED <<conf, gen, replies, mail, worker, posts, requested>>
    BY <1>5 DEF Recover
  <2>3. \A w \in Workers : ~Holds(w)
    BY <1>5 DEF Recover, Holds
  <2> QED
    BY <2>1, <2>2, <2>3 DEF Coherent, PromptMatchesRow, DeliveredInv, HolderInv, PostedInv,
       Holds, Chose
<1> QED
  BY <1>1, <1>2, <1>3, <1>4, <1>5

-----------------------------------------------------------------------------
(* The theorems                                                            *)

LEMMA InvInit == Init => IInv
<1> SUFFICES ASSUME Init PROVE IInv
  OBVIOUS
<1>1. Typed
  BY TypedInit
<1>2. \A w \in Workers : worker[w].pc = "idle"
  BY IdleType DEF Init
<1> QED
  BY <1>1, <1>2 DEF Init, IInv, Coherent, PromptMatchesRow, DeliveredInv, HolderInv, Holds,
     PostedInv, NoConf

LEMMA InvStep == IInv /\ [Next]_vars => IInv'
<1> SUFFICES ASSUME IInv, [Next]_vars PROVE IInv'
  OBVIOUS
<1>1. Typed'
  BY TypedStep DEF IInv
<1>2. CASE UNCHANGED vars
  BY <1>2 DEF vars, IInv, Coherent, Typed, PromptMatchesRow, DeliveredInv, HolderInv, Holds,
     Dispatching, Chose, PostedInv
<1>3. CASE Next
  <2>1. Coherent'
    BY <1>3, PosterStepCoherent, LeaveCoherent, HandleCoherent, PersistCoherent, MarkCoherent,
       SendCoherent, DeliverCoherent, TableCoherent DEF Next, Step, WorkerStep
  <2> QED
    BY <1>1, <2>1 DEF IInv
<1> QED
  BY <1>2, <1>3

THEOREM Invariance == Spec => []IInv
BY InvInit, InvStep, PTL DEF Spec

\* The tables keep their types and an open prompt is exactly what the request
\* waits for: the transactions of database.py move the row and its prompt
\* together, whatever replies, expiries and restarts come between them.
THEOREM PromptSoundHolds == Spec => []PromptSound
<1>1. IInv => PromptSound
  BY DEF IInv, Typed, Coherent, PromptSound, TypeOK, ConfRow, Generation
<1> QED
  BY <1>1, Invariance, PTL

\* A choice the service accepted is never offered again: what was sent was sent
\* behind mark_candidate_dispatch_started, and nothing takes the marker back.
THEOREM AcquiredIsNotOfferedHolds == Spec => []AcquiredIsNotOffered
<1>1. IInv => AcquiredIsNotOffered
  BY DEF IInv, Coherent, PostedInv, AcquiredIsNotOffered
<1> QED
  BY <1>1, Invariance, PTL

\* Whoever takes a message for a request is the thread that handles it, and the
\* message was never recorded as a reply.
LEMMA SubmitFate ==
    ASSUME Typed, Step, NEW m \in requested' \ requested
    PROVE  /\ replies[m] = "unseen" /\ mail' = mail
           /\ Answers(mail[m]) => mail[m].token \notin SelectionTokens
                                  /\ \E w \in Workers : worker[w].pc = "bare" /\ worker[w].reply = m
<1>1. PICK w \in Workers : Bare(w) \/ Unknown(w)
  BY DEF Step, PosterStep, WorkerStep, Prompt, Show, Bind, FailPost, Deliver, Handle, Stale, Mark,
     Send, Answer, Redrive, Tick, Expire, Restart, Recover
<1>2. mail' = mail
  BY <1>1 DEF Bare, Unknown
<1>3. m = worker[w].reply /\ replies[m] = "unseen"
  BY <1>1 DEF Bare, Unknown, Submit
<1>4. CASE Bare(w)
  <2>1. Answers(mail[m]) => mail[m].token \notin SelectionTokens
    BY <1>3, <1>4 DEF Bare, MayBe, Unreferenced, Answers
  <2> QED
    BY <1>2, <1>3, <1>4, <2>1 DEF Bare
<1>5. CASE Unknown(w)
  <2>1. Answers(mail[m]) => mail[m].ref # OtherMessage
    BY BoundsAssumption DEF Answers, OtherMessage
  <2>2. ~Answers(mail[m])
    BY <1>3, <1>5, <2>1 DEF Unknown, MayBe, Found, OrdinaryInput, Answers
  <2> QED
    BY <1>2, <1>3, <2>2
<1> QED
  BY <1>1, <1>4, <1>5

\* A message that was recorded as a reply, and an answer that arrives with its
\* reference, never become requests: _reply_targets_huey_candidate_prompt fails
\* closed and create_request knows the replies.
THEOREM RepliesAreNotRequestsHolds == Spec => RepliesAreNotRequests
<1>1. IInv /\ [Next]_vars =>
        [\A m \in requested' \ requested :
            /\ replies[m] = "unseen"
            /\ Answers(mail[m]) =>
                 /\ mail[m].token \notin SelectionTokens
                 /\ \E w \in Workers : worker[w].pc = "bare" /\ worker[w].reply = m]_vars
  BY SubmitFate DEF IInv, Next
<1> QED
  BY <1>1, Invariance, PTL DEF Spec, RepliesAreNotRequests

\* No request is a choice or a refusal that answers a prompt: what was sent stays
\* what it was, however often and in whatever form Discord delivers it again.
NoChoiceRequested ==
    \A m \in requested :
        /\ mail[m].ref # 0
        /\ Answers(mail[m]) => mail[m].token \notin SelectionTokens

\* A delivered message keeps its content.
LEMMA MailStays ==
    ASSUME Typed, Step, NEW m \in Replies, mail[m].ref # 0
    PROVE  mail'[m] = mail[m]
<1>1. CASE \E w \in Workers, n \in Replies : Deliver(w, n)
  BY <1>1 DEF Deliver, NoMail, Typed
<1>2. CASE ~\E w \in Workers, n \in Replies : Deliver(w, n)
  BY <1>2 DEF Step, PosterStep, WorkerStep, Prompt, Show, Bind, FailPost, Handle, Stale, Mark,
     Send, Answer, Redrive, Tick, Expire, Restart, Recover, Bare, Unknown
<1> QED
  BY <1>1, <1>2

\* A choice or a refusal that answers a prompt in its channel is no request in any
\* state: the guard of bare tokens and the durable reply ids hold together.
THEOREM NoChoiceRequestedHolds == Spec => []NoChoiceRequested
<1>1. Init => NoChoiceRequested
  BY DEF Init, NoChoiceRequested
<1>2. IInv /\ NoChoiceRequested /\ [Next]_vars => NoChoiceRequested'
  <2> SUFFICES ASSUME IInv, NoChoiceRequested, [Next]_vars PROVE NoChoiceRequested'
    OBVIOUS
  <2>1. CASE UNCHANGED vars
    BY <2>1 DEF vars, NoChoiceRequested, Answers
  <2>2. CASE Next
    <3>1. Step /\ Typed /\ DeliveredInv
      BY <2>2 DEF Next, IInv, Coherent
    <3>2. ASSUME NEW m \in requested
          PROVE  mail'[m] = mail[m]
      BY <3>1, MailStays DEF NoChoiceRequested, Typed
    <3>3. ASSUME NEW m \in requested' \ requested
          PROVE  mail'[m].ref # 0 /\ (Answers(mail'[m]) => mail'[m].token \notin SelectionTokens)
      <4>1. mail' = mail /\ (Answers(mail[m]) => mail[m].token \notin SelectionTokens)
        BY <3>1, SubmitFate
      <4>2. PICK w \in Workers : worker[w].pc # "idle" /\ worker[w].reply = m
        BY <3>1 DEF Step, PosterStep, WorkerStep, Prompt, Show, Bind, FailPost, Deliver, Handle, Stale,
           Mark, Send, Answer, Redrive, Tick, Expire, Restart, Recover, Bare, Unknown, Submit
      <4> QED
        BY <3>1, <4>1, <4>2 DEF DeliveredInv
    <3> QED
      BY <3>2, <3>3 DEF NoChoiceRequested, Answers
  <2> QED
    BY <2>1, <2>2
<1> QED
  BY <1>1, <1>2, Invariance, PTL DEF Spec

\* One submission per prompt, of what an authorised person chose: with any
\* number of replies and threads, however long a post takes.
THEOREM OneAuthorisedSubmission == Spec => [](OneSubmissionPerPrompt /\ SubmittedAsChosen)
<1>1. IInv => OneSubmissionPerPrompt /\ SubmittedAsChosen
  BY DEF IInv, Coherent, PostedInv, Chose, OneSubmissionPerPrompt, SubmittedAsChosen
<1> QED
  BY <1>1, Invariance, PTL

-----------------------------------------------------------------------------
(* Posts that end before the prompt expires                                *)

\* While a prompt is being posted, no reply can name it.
LEMMA BoundBeforeAnswered ==
    ASSUME IInv, PosterInv, NEW w \in Workers, worker[w].pc # "idle",
           Verdict(worker[w].reply) # "not_found", conf.status = "pending"
    PROVE  /\ \A p \in Posters : poster[p].pc = "idle"
           /\ mail[worker[w].reply].ref = gen
BY DEF IInv, Coherent, DeliveredInv, PosterInv, Verdict

LEMMA PosterStepTimely ==
    ASSUME IInv, PosterInv, NEW p \in Posters, PosterStep(p), UNCHANGED <<proxy, service>>
    PROVE  PosterInv'
<1> USE DEF IInv
<1>0. gen \in Int /\ poster \in [Posters -> PosterRow] /\ conf \in ConfRow
  BY BoundsAssumption DEF Typed, Generation
<1>1. CASE Prompt(p)
  <2>1. (\A w \in Workers : ~Holds(w)) /\ posts = {} /\ conf.status # "pending"
    BY <1>1, Unclaimed DEF Prompt
  <2>2. conf'.prompt = 0 /\ conf'.status = "pending" /\ ~conf'.due
    BY <1>1 DEF Prompt, FreshConf, NoConf
  <2>3. \A q \in Posters : q # p => poster[q].pc = "idle"
    BY <1>0, <1>1, <2>1 DEF Prompt, PosterInv, Posters
  <2>4. gen' = gen + 1 /\ gen' # 0
    BY <1>0, <1>1 DEF Prompt, Typed, Generation
  <2>5. /\ poster'[p].gen = gen'
        /\ \A q \in Posters : q # p => poster'[q].pc = "idle"
    BY <1>0, <1>1, <2>3 DEF Prompt
  <2>6. UNCHANGED <<worker, posts>>
    BY <1>1 DEF Prompt
  <2> QED
    BY <2>1, <2>2, <2>4, <2>5, <2>6 DEF PosterInv, Holds
<1>2. CASE Show(p)
  <2>1. UNCHANGED <<conf, gen, mail, worker, posts>>
    BY <1>2 DEF Show, store
  <2>2. \A q \in Posters : poster'[q].gen = poster[q].gen /\ (poster'[q].pc # "idle" => poster[q].pc # "idle")
    BY <1>0, <1>2 DEF Show, PosterRow
  <2> QED
    BY <2>1, <2>2 DEF PosterInv, Holds
<1>3. CASE Bind(p) \/ FailPost(p)
  <2>1. UNCHANGED <<gen, mail, worker, posts>>
    BY <1>3 DEF Bind, FailPost
  <2>2. \A q \in Posters : poster'[q].pc = "idle"
    BY <1>0, <1>3, IdleType DEF Bind, FailPost, PosterInv
  <2>3. conf'.status = "pending" => conf'.prompt \in {0, gen}
    <3>1. CASE Bind(p)
      BY <1>0, <3>1 DEF Bind, PosterInv, ConfRow
    <3>2. CASE FailPost(p)
      BY <1>0, <3>2 DEF FailPost, ReleasePrompt, PosterInv, ConfRow
    <3> QED
      BY <1>3, <3>1, <3>2
  <2> QED
    BY <2>1, <2>2, <2>3 DEF PosterInv, Holds
<1> QED
  BY <1>1, <1>2, <1>3 DEF PosterStep

LEMMA DeliverTimely ==
    ASSUME IInv, PosterInv, NEW w \in Workers, NEW m \in Replies, Deliver(w, m),
           UNCHANGED <<proxy, service>>
    PROVE  PosterInv'
<1> USE DEF IInv
<1>1. UNCHANGED <<conf, gen, poster, posts>>
  BY DEF Deliver, store
<1>2. \A n \in Replies : mail[n].ref # 0 => mail'[n] = mail[n]
  <2>1. mail[m].ref # 0 => mail'[m] = mail[m]
    BY DEF Deliver, Typed, NoMail
  <2> QED
    BY <2>1 DEF Deliver, Typed
<1>3. \A u \in Workers : Holds(u)' => Holds(u) /\ worker'[u] = worker[u] /\ worker[u].reply \in Replies
  BY DEF Deliver, Holds, Typed
<1>4. \A u \in Workers : Holds(u) => mail[worker[u].reply].ref # 0
  BY DEF Coherent, HolderInv, Chose
<1>5. \A x \in posts : x.reply \in Replies /\ mail[x.reply].ref # 0
  BY DEF Coherent, PostedInv, Chose, Typed, Post
<1> QED
  BY <1>1, <1>2, <1>3, <1>4, <1>5 DEF PosterInv

LEMMA WorkerStepTimely ==
    ASSUME IInv, PosterInv, NEW w \in Workers, WorkerStep(w), UNCHANGED <<proxy, service>>
    PROVE  PosterInv'
<1> USE DEF IInv
<1>1. CASE Handle(w)
  <2> DEFINE v == Verdict(worker[w].reply)
  <2>1. UNCHANGED <<gen, mail, poster, posts>>
    BY <1>1 DEF Handle
  <2>2. CASE conf.status = "pending" /\ v # "not_found"
    <3>1. (\A p \in Posters : poster'[p].pc = "idle") /\ mail[worker[w].reply].ref = gen
      BY <1>1, <2>1, <2>2, BoundBeforeAnswered DEF Handle
    <3>2. (\A u \in Workers : ~Holds(u)) /\ posts = {}
      BY <2>2, Unclaimed
    <3>3. \A u \in Workers : Holds(u)' => u = w /\ worker'[u].reply = worker[w].reply
      BY <1>1, <3>2, IdleType DEF Handle, Holds, Typed
    <3>4. conf'.status = "pending" => UNCHANGED conf
      BY <1>1 DEF Handle, ReleasePrompt, Typed, ConfRow
    <3> QED
      BY <2>1, <3>1, <3>2, <3>3, <3>4 DEF PosterInv
  <2>3. CASE ~(conf.status = "pending" /\ v # "not_found")
    <3>1. v # "claimed"
      BY <2>3, ClaimIsAuthorised
    <3>2. UNCHANGED conf
      BY <1>1, <2>3, <3>1 DEF Handle, ReleasePrompt
    <3>3. \A u \in Workers : Holds(u)' => Holds(u) /\ worker'[u] = worker[u]
      <4>1. \A u \in Workers : u # w => worker'[u] = worker[u]
        BY <1>1 DEF Handle, Typed
      <4>2. worker'[w].pc \in {"idle", "unknown"}
        <5>1. worker[w] \in WorkerRow
          BY DEF Typed
        <5>2. CASE v = "not_found"
          <6>1. worker'[w] = [worker[w] EXCEPT !.pc = "unknown"]
            BY <1>1, <5>2 DEF Handle, Typed
          <6> QED
            BY <5>1, <6>1 DEF WorkerRow
        <5>3. CASE v # "not_found"
          BY <1>1, <3>1, <5>3, IdleType DEF Handle, Typed
        <5> QED
          BY <5>2, <5>3
      <4> QED
        BY <4>1, <4>2 DEF Holds
    <3> QED
      BY <2>1, <3>2, <3>3 DEF PosterInv
  <2> QED
    BY <2>2, <2>3
<1>2. CASE Send(w)
  <2>1. UNCHANGED <<conf, gen, mail, poster>>
    BY <1>2 DEF Send, store
  <2>2. Holds(w) /\ posts = {} /\ worker[w].gen = gen /\ mail[worker[w].reply].ref = gen
    BY <1>2 DEF Send, MaySend, Holds, Coherent, HolderInv, PosterInv
  <2>3. \A x \in posts' : x.gen = gen /\ x.reply = worker[w].reply
    BY <1>2, <2>2 DEF Send
  <2>4. \A u \in Workers : Holds(u)' => Holds(u) /\ worker'[u].reply = worker[u].reply
    BY <1>2, <2>2 DEF Send, Holds, Typed, WorkerRow
  <2> QED
    BY <2>1, <2>2, <2>3, <2>4 DEF PosterInv
<1>3. CASE Mark(w)
  <2>1. UNCHANGED <<gen, mail, poster, posts>> /\ conf'.status = "claimed"
    BY <1>3 DEF Mark, Typed, ConfRow
  <2>2. \A u \in Workers : Holds(u)' => Holds(u) /\ worker'[u].reply = worker[u].reply
    BY <1>3 DEF Mark, Holds, Typed, WorkerRow
  <2>3. conf.status = "claimed"
    BY <1>3 DEF Mark
  <2> QED
    BY <2>1, <2>2, <2>3 DEF PosterInv
<1>4. CASE Bare(w) \/ Unknown(w) \/ Stale(w) \/ Answer(w)
  <2>1. UNCHANGED <<conf, gen, mail, poster, posts>>
    BY <1>4 DEF Bare, Unknown, Stale, Answer, store
  <2>2. \A u \in Workers : Holds(u)' => Holds(u) /\ worker'[u] = worker[u]
    BY <1>4, IdleType DEF Bare, Unknown, Stale, Answer, Persisted, Holds, Typed
  <2> QED
    BY <2>1, <2>2 DEF PosterInv
<1> QED
  BY <1>1, <1>2, <1>3, <1>4 DEF WorkerStep

LEMMA TableTimely ==
    ASSUME ~PostOutlastsTTL, IInv, PosterInv,
           Redrive \/ Tick \/ Expire \/ Restart \/ Recover, UNCHANGED <<proxy, service>>
    PROVE  PosterInv'
<1> USE DEF IInv
<1>0. conf \in ConfRow /\ poster \in [Posters -> PosterRow]
  BY DEF Typed
<1>1. CASE Redrive \/ Recover
  BY <1>1 DEF Redrive, Recover, PosterInv, Holds
<1>2. CASE Tick \/ Expire
  <2>1. UNCHANGED <<gen, mail, poster, worker, posts>>
    BY <1>2 DEF Tick, Expire
  <2>2. \A p \in Posters : poster[p].pc = "idle"
    BY <1>2 DEF Tick, Expire, Due, PosterInv
  <2>3. conf'.prompt = conf.prompt /\ conf.status = "pending"
    BY <1>0, <1>2 DEF Tick, Expire, ReleasePrompt, ConfRow
  <2> QED
    BY <2>1, <2>2, <2>3 DEF PosterInv, Holds
<1>3. CASE Restart
  <2>1. UNCHANGED <<gen, mail, posts>> /\ \A w \in Workers : ~Holds(w)'
    BY <1>3, IdleType DEF Restart, Holds
  <2>2. \A p \in Posters : poster'[p].pc # "idle" => p # "gateway" /\ poster'[p] = poster[p]
    BY <1>0, <1>3, IdleType DEF Restart
  <2>3. conf'.status = "pending" => UNCHANGED conf
    BY <1>0, <1>3 DEF Restart, ReleasePrompt, ConfRow
  <2> QED
    BY <2>1, <2>2, <2>3 DEF PosterInv
<1> QED
  BY <1>1, <1>2, <1>3

\* An option is chosen only by a reply to the generation of the prompt that
\* offered it, and it leads to one submission, of an authorised choice.  The
\* hypothesis is what create_candidate_confirmation takes for granted when it
\* calls a stale prompt unanswerable: a post ends before its prompt expires.
THEOREM ChoiceIsObeyedHolds ==
    ASSUME ~PostOutlastsTTL
    PROVE  Spec => []ChoiceIsObeyed
<1>1. Init => PosterInv
  <2> SUFFICES ASSUME Init PROVE PosterInv
    OBVIOUS
  <2>1. \A w \in Workers : ~Holds(w)
    BY IdleType DEF Init, Holds
  <2> QED
    BY <2>1, IdleType DEF Init, PosterInv, NoConf
<1>2. IInv /\ PosterInv /\ [Next]_vars => PosterInv'
  <2> SUFFICES ASSUME IInv, PosterInv, [Next]_vars PROVE PosterInv'
    OBVIOUS
  <2>1. CASE UNCHANGED vars
    BY <2>1 DEF vars, PosterInv, Holds
  <2>2. CASE Next
    BY <2>2, PosterStepTimely, DeliverTimely, WorkerStepTimely, TableTimely DEF Next, Step
  <2> QED
    BY <2>1, <2>2
<1>3. IInv /\ PosterInv => ChoiceIsObeyed
  BY DEF IInv, Coherent, PostedInv, PosterInv, Chose, ChoiceIsObeyed, OneSubmissionPerPrompt,
     SubmittedAsChosen, StalePromptUnanswerable
<1> QED
  BY <1>1, <1>2, <1>3, Invariance, PTL DEF Spec
=============================================================================
