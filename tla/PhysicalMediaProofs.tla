------------------------ MODULE PhysicalMediaProofs ------------------------
(* PhysicalMedia requests one import for each decision (OnePost), never loses *)
(* or mistakes a delivery (MediaSound) and leaves what has ended to the       *)
(* operator, a stale pass over a new decision excepted (TerminalStays), for   *)
(* every set of discs, every kind and every bound.  The inductive invariant   *)
(* says how far Huey's copy of an event may be from the event, and what each  *)
(* stage of the pass has established.                                         *)
EXTENDS PhysicalMedia, TLAPS

-----------------------------------------------------------------------------
(* The inductive invariant                                                  *)

States == Active \cup Terminal \cup {"none"}
Medias == Kinds \cup {"movie", "group", "none"}
Events == [state : States, media : Medias, path : Names \cup {"directory", "none"},
           entity : BOOLEAN, command : Nat]
Manifests == [file : Names \cup {"none"}, kind : Kinds \cup {"none", "movie", "invalid"}]
Directories == [files : SUBSET Names, manifest : Manifests]
Stages == {"none", "validate", "alarm", "final", "branch", "complete", "announce", "cleanup", "attention",
           "notice", "rewrite", "path", "submit", "preview", "post", "posted"}
Passes == [phase : {"idle", "discover", "events"}, todo : SUBSET Discs, cur : Discs \cup {Nobody},
           pc : Stages, state : States, snap : [Discs -> Events], notice : Names \cup {"none"}]
Counters == [crashes : Nat, outages : Nat, others : Nat, sends : [Discs -> Nat], resolves : [Discs -> Nat]]

\* Every variable has its type.
Typing ==
    /\ kind \in [Discs -> Kinds \cup {"none"}]
    /\ dir \in [Discs -> Directories]
    /\ sending \in [Discs -> {"idle", "mkv"}]
    /\ event \in [Discs -> Events]
    /\ quarantine \in [Discs -> [Names -> {"none", "received", "manual_review"}]]
    /\ library \in [Discs -> {"none", "disc", "other"}]
    /\ commands \in [Discs -> Seq({"queued", "completed", "failed"})]
    /\ operator \in [Discs -> {"idle", "movie", "nonstandard"}]
    /\ pass \in Passes
    /\ bounds \in Counters

\* A stage of the pass belongs to one of its loops.
PassWhole ==
    /\ pass.pc = "none" <=> D = Nobody
    /\ pass.phase = "idle" => D = Nobody
    /\ D \notin pass.todo
    /\ pass.pc \in {"validate", "alarm"} => pass.phase = "discover"
    /\ pass.pc \notin {"none", "validate", "alarm"} => pass.phase = "events"
    /\ At("alarm") => pass.notice \in Names /\ quarantine[D][pass.notice] = "received"
    /\ At("attention") => pass.state \in {"manual_review", "failed"}

\* The operator has decided on the validated event since the pass has read it.
Decided(d) ==
    /\ pass.snap[d].state = "validated" /\ pass.snap[d].media \notin {"tv", "group"}
    /\ \/ event[d].state = "validated" /\ event[d].media = "movie"
       \/ event[d].state = "manual_review" /\ event[d].media = "group"
    /\ kind[d] \in {"movie", "unknown"} /\ bounds.resolves[d] # 0

\* Huey's copy of an event is the event until the pass changes it, or the
\* operator decides on a validated one.
Copied(d) == event[d] = pass.snap[d] /\ event[d].state \in Active
CopyTrue ==
    /\ pass.phase = "events" => \A d \in pass.todo : Copied(d) \/ Decided(d)
    /\ At("validate") => event[D].state = "received"
    /\ pass.pc \in {"final", "branch", "complete"} => Copied(D) \/ Decided(D)
    /\ pass.pc \in {"rewrite", "path"} => event[D] = Row /\ event[D].state = "identity_resolved"
    /\ At("submit") => event[D].state = "identity_resolved"
    /\ pass.pc \in {"preview", "post", "posted"} => event[D].state = "import_submitting"
    /\ At("attention") => Copied(D) \/ Decided(D) \/ event[D].state = "import_submitting"
    /\ \A d \in Discs : operator[d] # "idle" => event[d].state \notin {"none", "received"}

\* An import may be requested once for a delivery, and once for a decision; a
\* pass that is still to request it has that request left, and so has a decision
\* that is still to reach the event.
Posts(d) == Len(commands[d])
Holding(d) ==
    /\ pass.phase = "events" /\ pass.snap[d].state = "validated"
    /\ d \in pass.todo \/ (D = d /\ pass.pc \in {"final", "branch"})
MayPost(d) ==
    \/ event[d].state \in {"none", "received", "validated", "identity_resolved"}
    \/ D = d /\ pass.pc \in {"preview", "post"}
    \/ Holding(d)
PostsCounted ==
    \A d \in Discs :
        /\ Posts(d) <= 1 + bounds.resolves[d]
        /\ MayPost(d) \/ operator[d] # "idle" => Posts(d) <= bounds.resolves[d]
        /\ MayPost(d) /\ operator[d] # "idle" => Posts(d) < bounds.resolves[d]
        /\ event[d].command <= Posts(d) /\ (event[d].state = "importing" => event[d].command # 0)
        /\ D = d /\ pass.pc = "posted" => Posts(d) # 0

\* What is completed, or about to be, is in the library; Sonarr is believed.
Imported(d) ==
    \/ event[d].state = "completed" \/ <<d, "imported">> \in outbox
    \/ D = d /\ pass.pc \in {"complete", "announce"}
ImportedProved == \A d \in Discs : Imported(d) => library[d] = "disc" \/ kind[d] = "tv"

DiscoverPublished == pass.phase = "discover" => \A d \in pass.todo : dir[d].manifest # NoManifest

Told(d) == dir[d].manifest.file
OnlyNamed(d) == dir[d].files = {"named"}
Clean(d) == \A f \in Names : quarantine[d][f] = "none"

\* Only a disc that is a series is taken for one; the operator decides on single
\* MKVs, and what was marked nonstandard is not validated.
KindTrue(d) ==
    /\ dir[d].manifest.kind \in {"none", "movie", "invalid", kind[d]}
    /\ dir[d].manifest = NoManifest \/ Told(d) \in Names
    /\ event[d].media = "tv" => kind[d] = "tv"
    /\ kind[d] \notin {"movie", "unknown"} =>
           /\ dir[d].manifest.kind \in {"none", kind[d]} /\ operator[d] = "idle"
           /\ event[d].media \in {"none", kind[d]}
    /\ kind[d] \in {"movie", "unknown"} /\ event[d].state \in {"received", "validated"} =>
           event[d].media \notin {"tv", "group"}

\* Nothing is known of a disc before its delivery.
Unknown(d) ==
    bounds.sends[d] = 0 =>
        /\ dir[d].files = {} /\ dir[d].manifest = NoManifest /\ sending[d] = "idle"
        /\ event[d].state = "none" /\ commands[d] = <<>> /\ operator[d] = "idle" /\ Clean(d)

\* A movie that was delivered once, and that the operator has not touched: its
\* event knows the name its manifest gives, or its one MKV has it.
Once(d) == kind[d] = "movie" /\ bounds.sends[d] = 1 /\ bounds.resolves[d] = 0
MovieWhole(d) ==
    /\ Clean(d) /\ operator[d] = "idle"
    /\ dir[d].manifest = NoManifest \/ dir[d].manifest.kind = "movie"
    /\ sending[d] = "mkv" => event[d].state = "none" /\ dir[d].manifest = NoManifest
    /\ commands[d] = <<>> => dir[d].files = {"feature"} \/ OnlyNamed(d)
    /\ event[d].state = "none" => dir[d].files = {"feature"} /\ Told(d) # "named" /\ commands[d] = <<>>
    /\ event[d].state # "none" =>
           /\ event[d].path \in Names /\ event[d].media = "movie"
           /\ \/ Told(d) \in {"none", event[d].path}
              \/ Told(d) = "named" /\ OnlyNamed(d) /\ commands[d] = <<>>
           /\ event[d].path = "named" => Told(d) # "feature"

DiscWhole(d) == KindTrue(d) /\ Unknown(d) /\ (Once(d) => MovieWhole(d))
DiscsWhole == \A d \in Discs : DiscWhole(d)

\* Such a movie has its new name, then its manifest, then its event.
MovieRenamed ==
    D \in Discs /\ Once(D) =>
        /\ pass.pc \in {"rewrite", "path", "submit", "preview", "post"} =>
               OnlyNamed(D) /\ dir[D].manifest # NoManifest
        /\ pass.pc \in {"path", "submit", "preview", "post"} => Told(D) = "named"
        /\ pass.pc \in {"submit", "preview", "post"} => event[D].path = "named"

IInv ==
    /\ Typing /\ PassWhole /\ CopyTrue /\ PostsCounted /\ ImportedProved
    /\ SourceKept /\ DiscoverPublished /\ DiscsWhole /\ MovieRenamed

-----------------------------------------------------------------------------
(* Types                                                                    *)

\* A stage of the pass has a current disc.
LEMMA CurrentDisc ==
    ASSUME Typing, PassWhole, pass.pc # "none"
    PROVE  D \in Discs
BY DEF Typing, Passes, PassWhole, D

\* A pass that is idle.
LEMMA IdleTyped == Idle \in Passes
BY DEF Idle, Passes, Stages, States, Events, Medias, NoEvent

\* The pass goes on to another stage.
LEMMA GotoTyped ==
    ASSUME pass \in Passes, NEW p \in Stages, Goto(p)
    PROVE  pass' \in Passes
BY DEF Goto, Passes

\* The pass is done with its disc.
LEMMA DoneTyped ==
    ASSUME pass \in Passes, Done
    PROVE  pass' \in Passes
BY DEF Done, Passes, Stages, States

\* It takes a disc.
LEMMA TakeTyped ==
    ASSUME pass \in Passes, NEW d \in Discs, NEW p \in Stages, Take(d, p)
    PROVE  pass' \in Passes
BY DEF Take, Passes

\* It passes a disc over.
LEMMA SkipTyped ==
    ASSUME pass \in Passes, NEW d \in Discs, Skip(d)
    PROVE  pass' \in Passes
BY DEF Skip, Passes

\* It has found what a person must see.
LEMMA AttentionTyped ==
    ASSUME pass \in Passes, NEW s \in States, Attention(s)
    PROVE  pass' \in Passes
BY DEF Attention, Passes, Stages

\* An event with another state.
LEMMA StateTyped ==
    ASSUME NEW e \in Events, NEW s \in States
    PROVE  [e EXCEPT !.state = s] \in Events
BY DEF Events

\* An event that is not completed is changed as it is told.
LEMMA OpenTransition ==
    ASSUME Typing, NEW d \in Discs, NEW e \in Events, event[d].state # "completed", Transition(d, e)
    PROVE  event' \in [Discs -> Events] /\ event' = [event EXCEPT ![d] = e]
BY DEF Typing, Transition

\* A failed call is counted.
LEMMA OutagesTyped ==
    ASSUME bounds \in Counters, bounds' = [bounds EXCEPT !.outages = @ + 1]
    PROVE  bounds' \in Counters /\ bounds'.sends = bounds.sends /\ bounds'.resolves = bounds.resolves
BY DEF Counters

\* A restart is counted.
LEMMA CrashesTyped ==
    ASSUME bounds \in Counters, bounds' = [bounds EXCEPT !.crashes = @ + 1]
    PROVE  bounds' \in Counters /\ bounds'.sends = bounds.sends /\ bounds'.resolves = bounds.resolves
BY DEF Counters

-----------------------------------------------------------------------------
(* What a step leaves alone                                                 *)

\* Nothing of a disc changes that its own clauses speak of.
SameDisc(d) ==
    /\ kind'[d] = kind[d] /\ dir'[d] = dir[d] /\ sending'[d] = sending[d] /\ event'[d] = event[d]
    /\ quarantine'[d] = quarantine[d] /\ commands'[d] = commands[d] /\ operator'[d] = operator[d]
    /\ bounds'.sends[d] = bounds.sends[d] /\ bounds'.resolves[d] = bounds.resolves[d]
SameDiscs == \A d \in Discs : SameDisc(d)

\* A disc keeps its clauses if nothing of it changes.
LEMMA DiscUnchanged ==
    ASSUME NEW d \in Discs, DiscWhole(d), SameDisc(d)
    PROVE  DiscWhole(d)'
BY DEF SameDisc, DiscWhole, KindTrue, Unknown, Once, MovieWhole, Told, OnlyNamed, Clean

\* So do all discs.
LEMMA DiscsUnchanged ==
    ASSUME DiscsWhole, SameDiscs
    PROVE  DiscsWhole'
BY DiscUnchanged DEF DiscsWhole, SameDiscs

\* A step of one disc leaves the others as they were.
LEMMA OneDiscChanges ==
    ASSUME DiscsWhole, NEW d \in Discs, \A x \in Discs : x # d => SameDisc(x), DiscWhole(d)'
    PROVE  DiscsWhole'
BY DiscUnchanged DEF DiscsWhole

\* The tables the pass and its surroundings share.
tables == <<kind, dir, sending, event, quarantine, commands, operator, library>>

\* The pass moves to a stage that has changed nothing and claims nothing.
LEMMA QuietPass ==
    ASSUME IInv, pass' \in Passes, bounds' \in Counters, UNCHANGED tables,
           bounds'.sends = bounds.sends, bounds'.resolves = bounds.resolves,
           \A d \in Discs : <<d, "imported">> \in outbox' => <<d, "imported">> \in outbox,
           pass'.pc \notin {"complete", "announce", "rewrite", "path", "submit", "preview", "post", "posted"},
           PassWhole', CopyTrue', DiscoverPublished',
           \A d \in Discs : Holding(d)' => MayPost(d)
    PROVE  IInv'
<1>1. Typing'
  BY DEF IInv, Typing, tables
<1>2. PostsCounted'
  <2>1. \A d \in Discs : MayPost(d)' => MayPost(d)
    BY DEF MayPost, tables
  <2> QED BY <2>1 DEF IInv, PostsCounted, Posts, tables, D
<1>3. ImportedProved'
  BY DEF IInv, ImportedProved, Imported, tables, D
<1>4. SourceKept'
  BY DEF IInv, SourceKept, tables
<1>5. DiscsWhole'
  BY DiscsUnchanged DEF IInv, SameDiscs, SameDisc, tables
<1>6. MovieRenamed'
  BY DEF MovieRenamed, D
<1> QED BY <1>1, <1>2, <1>3, <1>4, <1>5, <1>6 DEF IInv

-----------------------------------------------------------------------------
(* Steps of the pass that change nothing but the pass                       *)

\* The manifests of the intake are listed.
LEMMA DiscoverKeeps ==
    ASSUME IInv, Discover
    PROVE  IInv'
<1>1. pass' \in Passes
  BY IdleTyped DEF Discover, Passes, Published
<1>2. /\ pass'.phase = "discover" /\ pass'.cur = Nobody /\ pass'.pc = "none" /\ pass'.todo = Published
  BY DEF Discover, Idle
<1>3. UNCHANGED <<tables, outbox, bounds>>
  BY DEF Discover, outside, tables
<1>4. PassWhole' /\ CopyTrue' /\ DiscoverPublished'
  BY <1>2, <1>3, NobodyIsNoDisc DEF IInv, PassWhole, CopyTrue, Copied, Decided, DiscoverPublished, Published, tables, At, D
<1>5. \A d \in Discs : ~Holding(d)'
  BY <1>2 DEF Holding
<1> QED BY <1>1, <1>2, <1>3, <1>4, <1>5, QuietPass DEF IInv, Typing

\* The events are read.
LEMMA ListEventsKeeps ==
    ASSUME IInv, ListEvents
    PROVE  IInv'
<1>1. pass' \in Passes
  BY DEF IInv, Typing, Passes, ListEvents
<1>2. /\ pass'.phase = "events" /\ pass'.cur = Nobody /\ pass'.pc = "none" /\ pass'.snap = event
      /\ pass'.todo = {d \in Discs : event[d].state \in Active}
  BY DEF IInv, Typing, Passes, PassWhole, ListEvents, D
<1>3. UNCHANGED <<tables, outbox, bounds>>
  BY DEF ListEvents, outside, tables
<1>4. PassWhole' /\ CopyTrue' /\ DiscoverPublished'
  BY <1>2, <1>3, NobodyIsNoDisc DEF IInv, PassWhole, CopyTrue, Copied, Decided, DiscoverPublished, tables, At, D
<1>5. \A d \in Discs : Holding(d)' => MayPost(d)
  BY <1>2 DEF Holding, MayPost
<1> QED BY <1>1, <1>2, <1>3, <1>4, <1>5, QuietPass DEF IInv, Typing

\* The pass is over, or cut short: nothing of it is left.
LEMMA IdleKeeps ==
    ASSUME IInv, pass' = Idle, UNCHANGED <<tables, outbox>>, bounds' \in Counters,
           bounds'.sends = bounds.sends, bounds'.resolves = bounds.resolves
    PROVE  IInv'
<1>1. pass'.phase = "idle" /\ pass'.cur = Nobody /\ pass'.pc = "none" /\ pass'.todo = {}
  BY DEF Idle
<1>2. PassWhole' /\ CopyTrue' /\ DiscoverPublished'
  BY <1>1 DEF IInv, PassWhole, CopyTrue, Copied, Decided, DiscoverPublished, tables, At, D
<1>3. \A d \in Discs : ~Holding(d)'
  BY <1>1 DEF Holding
<1> QED BY <1>1, <1>2, <1>3, IdleTyped, QuietPass

\* The pass ends.
LEMMA EndPassKeeps ==
    ASSUME IInv, EndPass
    PROVE  IInv'
BY IdleKeeps DEF EndPass, outside, tables, IInv, Typing

\* Huey stops.
LEMMA CrashKeeps ==
    ASSUME IInv, Crash
    PROVE  IInv'
<1>1. bounds' \in Counters /\ bounds'.sends = bounds.sends /\ bounds'.resolves = bounds.resolves
  BY CrashesTyped DEF IInv, Typing, Crash
<1> QED BY <1>1, IdleKeeps DEF Crash, tables

\* A disc's turn ends.
LEMMA DoneKeeps ==
    ASSUME IInv, Done, D # Nobody, UNCHANGED tables, bounds' \in Counters,
           bounds'.sends = bounds.sends, bounds'.resolves = bounds.resolves,
           \A d \in Discs : <<d, "imported">> \in outbox' => <<d, "imported">> \in outbox
    PROVE  IInv'
<1>1. /\ pass'.phase = pass.phase /\ pass'.cur = Nobody /\ pass'.pc = "none"
      /\ pass'.todo = pass.todo /\ pass'.snap = pass.snap
  BY DEF IInv, Typing, Passes, Done
<1>2. PassWhole' /\ CopyTrue' /\ DiscoverPublished'
  BY <1>1, NobodyIsNoDisc DEF IInv, Typing, Passes, PassWhole, CopyTrue, Copied, Decided, DiscoverPublished, tables, At, D
<1>3. pass' \in Passes
  BY DoneTyped DEF IInv, Typing
<1>4. \A d \in Discs : Holding(d)' => MayPost(d)
  BY <1>1 DEF Holding, MayPost
<1> QED BY <1>1, <1>2, <1>3, <1>4, QuietPass

\* A person is told.
LEMMA NoticeKeeps ==
    ASSUME IInv, Notice
    PROVE  IInv'
<1>1. D # Nobody /\ \A d \in Discs : <<d, "imported">> \in outbox' => <<d, "imported">> \in outbox
  BY DEF Notice, At, D
<1> QED BY <1>1, DoneKeeps DEF Notice, outside, tables, IInv, Typing

\* A call fails: the event is left for the next pass.
LEMMA OutageKeeps ==
    ASSUME IInv, Outage
    PROVE  IInv'
<1>1. bounds' \in Counters /\ bounds'.sends = bounds.sends /\ bounds'.resolves = bounds.resolves
  BY OutagesTyped DEF IInv, Typing, Outage
<1> QED BY <1>1, DoneKeeps DEF Outage, tables

\* Something a person must see is found, at a stage that has changed nothing.
LEMMA AttentionKeeps ==
    ASSUME IInv, NEW s \in {"manual_review", "failed"}, Attention(s), UNCHANGED tables,
           bounds' \in Counters, bounds'.sends = bounds.sends, bounds'.resolves = bounds.resolves,
           outbox' = outbox, pass.pc \in {"final", "branch", "preview"}
    PROVE  IInv'
<1>1. /\ pass'.phase = pass.phase /\ pass'.cur = pass.cur /\ pass'.pc = "attention" /\ pass'.state = s
      /\ pass'.todo = pass.todo /\ pass'.snap = pass.snap
  BY DEF IInv, Typing, Passes, Attention
<1>2. PassWhole' /\ CopyTrue' /\ DiscoverPublished'
  BY <1>1 DEF IInv, PassWhole, CopyTrue, Copied, Decided, DiscoverPublished, tables, At, D, Active
<1>3. pass' \in Passes
  BY AttentionTyped DEF IInv, Typing, States, Terminal
<1>4. \A d \in Discs : Holding(d)' => MayPost(d)
  BY <1>1 DEF Holding, MayPost
<1> QED BY <1>1, <1>2, <1>3, <1>4, QuietPass

\* The stages that only ask for a person.
LEMMA ReviewsKeep ==
    ASSUME IInv, Classify \/ Untrusted \/ Uncertain
    PROVE  IInv'
BY AttentionKeeps DEF Classify, Untrusted, Uncertain, Review, outside, tables, At, IInv, Typing

\* A final file that cannot be read is such a stage.
LEMMA UnreadableKeeps ==
    ASSUME IInv, Unreadable
    PROVE  IInv'
<1>1. bounds' \in Counters /\ bounds'.sends = bounds.sends /\ bounds'.resolves = bounds.resolves
  BY OutagesTyped DEF IInv, Typing, Unreadable
<1> QED BY <1>1, AttentionKeeps DEF Unreadable, Review, tables, At

\* A known delivery is skipped.
LEMMA SkipKeeps ==
    ASSUME IInv, NEW d \in Discs, Pending("discover", d), Skip(d), UNCHANGED <<tables, outbox, bounds>>
    PROVE  IInv'
<1>1. /\ pass'.phase = pass.phase /\ pass'.cur = pass.cur /\ pass'.pc = pass.pc /\ pass'.notice = pass.notice
      /\ pass'.state = pass.state /\ pass'.snap = pass.snap /\ pass'.todo = pass.todo \ {d}
  BY DEF IInv, Typing, Passes, Skip
<1>2. pass.pc = "none"
  BY DEF IInv, PassWhole, Pending
<1>3. PassWhole' /\ CopyTrue' /\ DiscoverPublished'
  BY <1>1, <1>2 DEF IInv, PassWhole, CopyTrue, Copied, Decided, DiscoverPublished, tables, At, D
<1>4. pass' \in Passes
  BY SkipTyped DEF IInv, Typing
<1>5. \A x \in Discs : ~Holding(x)'
  BY <1>1 DEF Holding, Pending
<1> QED BY <1>1, <1>2, <1>3, <1>4, <1>5, QuietPass DEF IInv, Typing

\* A manifest of an event that exists is passed over.
LEMMA SkipKnownKeeps ==
    ASSUME IInv, NEW d \in Discs, SkipKnown(d)
    PROVE  IInv'
BY SkipKeeps DEF SkipKnown, outside, tables

\* The pass takes an event.
LEMMA BeginKeeps ==
    ASSUME IInv, NEW d \in Discs, Begin(d)
    PROVE  IInv'
<1>1. /\ pass'.phase = pass.phase /\ pass'.cur = d /\ pass'.pc = "final"
      /\ pass'.snap = pass.snap /\ pass'.todo = pass.todo \ {d} /\ pass.phase = "events" /\ d \in pass.todo
  BY DEF IInv, Typing, Passes, Begin, Take, Pending
<1>2. UNCHANGED <<tables, outbox, bounds>>
  BY DEF Begin, outside, tables
<1>3. PassWhole' /\ CopyTrue' /\ DiscoverPublished'
  BY <1>1, <1>2, NobodyIsNoDisc DEF IInv, PassWhole, CopyTrue, Copied, Decided, DiscoverPublished, tables, At, D, Row
<1>4. pass' \in Passes
  BY TakeTyped DEF IInv, Typing, Begin, Stages
<1>5. \A x \in Discs : Holding(x)' => MayPost(x)
  BY <1>1 DEF Holding, MayPost, D
<1> QED BY <1>1, <1>2, <1>3, <1>4, <1>5, QuietPass DEF IInv, Typing

-----------------------------------------------------------------------------
(* Steps of the pass that claim something                                   *)

\* The final file is in the library: the event may be completed.
LEMMA FinalKeeps ==
    ASSUME IInv, Final(Row), pass.pc \in {"final", "branch"}, pass' \in Passes, pass'.pc = "complete",
           pass'.phase = pass.phase, pass'.cur = pass.cur, pass'.todo = pass.todo,
           pass'.snap = pass.snap, UNCHANGED <<tables, outbox, bounds>>
    PROVE  IInv'
<1>1. D \in Discs /\ (event[D] = Row \/ Row.media \notin {"tv", "group"})
  BY CurrentDisc DEF IInv, CopyTrue, Copied, Decided, Row
<1>2. library[D] = "disc" \/ kind[D] = "tv"
  BY <1>1 DEF Final, MovieFinal, SeriesFinal, IInv, DiscsWhole, DiscWhole, KindTrue
<1>3. Typing' /\ SourceKept'
  BY DEF IInv, Typing, SourceKept, tables
<1>4. PassWhole' /\ CopyTrue' /\ DiscoverPublished'
  BY DEF IInv, PassWhole, CopyTrue, Copied, Decided, DiscoverPublished, tables, At, D, Active
<1>5. PostsCounted' /\ MovieRenamed'
  BY DEF IInv, PostsCounted, MayPost, Holding, Posts, MovieRenamed, tables, D
<1>6. ImportedProved'
  BY <1>2 DEF IInv, ImportedProved, Imported, tables, D
<1>7. DiscsWhole'
  BY DiscsUnchanged DEF IInv, SameDiscs, SameDisc, tables
<1> QED BY <1>3, <1>4, <1>5, <1>6, <1>7 DEF IInv

\* The pass looks for the final file, and goes on without it.
LEMMA CheckFinalKeeps ==
    ASSUME IInv, CheckFinal
    PROVE  IInv'
<1>1. UNCHANGED <<tables, outbox, bounds>> /\ pass.pc = "final" /\ bounds \in Counters /\ pass \in Passes
  BY DEF CheckFinal, outside, tables, At, IInv, Typing
<1>2. CASE Final(Row)
  <2>1. pass' = [pass EXCEPT !.pc = "complete", !.state = "completed"]
    BY <1>2 DEF CheckFinal, Final, Differs, MovieFinal, SeriesFinal
  <2>2. /\ pass' \in Passes /\ pass'.pc = "complete" /\ pass'.phase = pass.phase
        /\ pass'.cur = pass.cur /\ pass'.todo = pass.todo /\ pass'.snap = pass.snap
    BY <1>1, <2>1 DEF Passes, Stages, States, Terminal
  <2> QED BY <1>1, <1>2, <2>2, FinalKeeps
<1>3. CASE Differs(Row) /\ ~Final(Row)
  <2>1. Attention("manual_review")
    BY <1>3 DEF CheckFinal, Review
  <2> QED BY <1>1, <2>1, AttentionKeeps DEF tables
<1>4. CASE ~Differs(Row) /\ ~Final(Row)
  <2>1. Goto("branch")
    BY <1>4 DEF CheckFinal
  <2>2. /\ pass' \in Passes /\ pass'.pc = "branch" /\ pass'.phase = pass.phase /\ pass'.cur = pass.cur
        /\ pass'.todo = pass.todo /\ pass'.snap = pass.snap
    BY <1>1, <2>1, GotoTyped DEF Goto, Passes, Stages
  <2>3. PassWhole' /\ CopyTrue' /\ DiscoverPublished'
    BY <1>1, <2>2 DEF IInv, PassWhole, CopyTrue, Copied, Decided, DiscoverPublished, tables, At, D, Row
  <2>4. \A d \in Discs : Holding(d)' => MayPost(d)
    BY <1>1, <2>2 DEF Holding, MayPost, D
  <2> QED BY <1>1, <2>2, <2>3, <2>4, QuietPass
<1> QED BY <1>2, <1>3, <1>4

\* A completed command is believed only with its file.
LEMMA PollKeeps ==
    ASSUME IInv, Poll
    PROVE  IInv'
<1>1. UNCHANGED <<tables, outbox, bounds>> /\ pass.pc = "branch" /\ bounds \in Counters /\ pass \in Passes
      /\ D # Nobody
  BY DEF Poll, outside, tables, At, D, IInv, Typing
<1>2. \/ Final(Row) /\ Goto("complete")
      \/ \E s \in {"manual_review", "failed"} : Attention(s)
      \/ Done
  BY DEF Poll, Review
<1>3. CASE Final(Row) /\ Goto("complete")
  <2>1. /\ pass' \in Passes /\ pass'.pc = "complete" /\ pass'.phase = pass.phase /\ pass'.cur = pass.cur
        /\ pass'.todo = pass.todo /\ pass'.snap = pass.snap
    BY <1>1, <1>3, GotoTyped DEF Goto, Passes, Stages
  <2> QED BY <1>1, <1>3, <2>1, FinalKeeps
<1>4. CASE \E s \in {"manual_review", "failed"} : Attention(s)
  BY <1>1, <1>4, AttentionKeeps DEF tables
<1>5. CASE Done
  BY <1>1, <1>5, DoneKeeps DEF tables
<1> QED BY <1>2, <1>3, <1>4, <1>5

\* The preview shows the MKV: its request has not been made.
LEMMA PreviewKeeps ==
    ASSUME IInv, Preview
    PROVE  IInv'
<1>1. UNCHANGED <<tables, outbox, bounds>> /\ pass.pc = "preview" /\ bounds \in Counters /\ pass \in Passes
  BY DEF Preview, outside, tables, At, IInv, Typing
<1>2. CASE Goto("post")
  <2>1. /\ pass' \in Passes /\ pass'.pc = "post" /\ pass'.phase = pass.phase /\ pass'.cur = pass.cur
        /\ pass'.todo = pass.todo /\ pass'.snap = pass.snap
    BY <1>1, <1>2, GotoTyped DEF Goto, Passes, Stages
  <2>2. Typing' /\ SourceKept'
    BY <1>1, <2>1 DEF IInv, Typing, SourceKept, tables
  <2>3. PassWhole' /\ CopyTrue' /\ DiscoverPublished'
    BY <1>1, <2>1 DEF IInv, PassWhole, CopyTrue, Copied, Decided, DiscoverPublished, tables, At, D
  <2>4. PostsCounted' /\ ImportedProved' /\ MovieRenamed'
    BY <1>1, <2>1 DEF IInv, PostsCounted, MayPost, Holding, Posts, ImportedProved, Imported, MovieRenamed, Once, OnlyNamed,
       Told, tables, D
  <2>5. DiscsWhole'
    BY <1>1, DiscsUnchanged DEF IInv, SameDiscs, SameDisc, tables
  <2> QED BY <2>2, <2>3, <2>4, <2>5 DEF IInv
<1>3. CASE Review
  BY <1>1, <1>3, AttentionKeeps DEF Review, tables
<1> QED BY <1>2, <1>3 DEF Preview

\* The event moves, and with it neither its name nor what it is.
LEMMA EventMoves ==
    ASSUME IInv, NEW d \in Discs, NEW e \in Events, event' = [event EXCEPT ![d] = e],
           UNCHANGED <<kind, dir, sending, quarantine, commands, operator, library, bounds>>,
           event[d].state # "none", e.state # "none", e.media = event[d].media, e.path = event[d].path,
           e.state \in {"received", "validated"} => event[d].state \in {"received", "validated"}
    PROVE  DiscsWhole' /\ SourceKept'
<1>1. event'[d] = e /\ \A x \in Discs : x # d => event'[x] = event[x]
  BY DEF IInv, Typing
<1>2. DiscWhole(d)
  BY DEF IInv, DiscsWhole
<1>3. DiscWhole(d)'
  BY <1>1, <1>2 DEF DiscWhole, KindTrue, Unknown, Once, MovieWhole, Told, OnlyNamed, Clean
<1>4. \A x \in Discs : x # d => SameDisc(x)
  BY <1>1 DEF SameDisc
<1>5. SourceKept'
  BY DEF IInv, SourceKept
<1> QED BY <1>3, <1>4, <1>5, OneDiscChanges DEF IInv

\* The pass decides on the event of its disc: what it does to it and where it goes.
EventStep(s, p) ==
    /\ event' = [event EXCEPT ![D] = [event[D] EXCEPT !.state = s]]
    /\ pass'.pc = p /\ pass'.phase = pass.phase /\ pass'.todo = pass.todo /\ pass'.snap = pass.snap
    /\ pass'.cur = IF p = "none" THEN Nobody ELSE pass.cur
    /\ pass' \in Passes
    /\ UNCHANGED <<kind, dir, sending, quarantine, commands, operator, library, outbox, bounds>>

\* The pass changes the state of the event it works on.
LEMMA EventStepKeeps ==
    ASSUME IInv, NEW s \in States, NEW p \in {"none", "announce", "notice", "preview"}, EventStep(s, p),
           D \in Discs, event[D].state # "none", s # "none", s # "importing",
           p # "none" => pass.pc \notin {"none", "validate", "alarm"},
           s \in {"validated", "identity_resolved"} => event[D].state \in {"received", "validated"} /\ p = "none",
           s = "completed" => library[D] = "disc" \/ kind[D] = "tv",
           s = "received" => FALSE,
           p = "announce" => s = "completed",
           p = "preview" => pass.pc = "submit" /\ s = "import_submitting"
    PROVE  IInv'
<1> DEFINE e == [event[D] EXCEPT !.state = s]
<1>1. /\ event' = [event EXCEPT ![D] = e] /\ e \in Events /\ e.state = s /\ e.media = event[D].media
      /\ e.path = event[D].path /\ e.command = event[D].command
  BY StateTyped DEF IInv, Typing, EventStep, Events
<1> HIDE DEF e
<1>2. /\ event' \in [Discs -> Events] /\ event'[D] = e
      /\ \A x \in Discs : x # D => event'[x] = event[x]
  BY <1>1 DEF IInv, Typing
<1>3. /\ pass'.pc = p /\ pass'.phase = pass.phase /\ pass'.todo = pass.todo /\ pass'.snap = pass.snap
      /\ pass'.cur = IF p = "none" THEN Nobody ELSE D
      /\ pass' \in Passes
      /\ UNCHANGED <<kind, dir, sending, quarantine, commands, operator, library, outbox, bounds>>
  BY DEF EventStep, D
<1>4. Typing'
  BY <1>2, <1>3 DEF IInv, Typing
<1>5. DiscsWhole' /\ SourceKept'
  BY <1>1, <1>3, EventMoves
<1>6. D \notin pass.todo
  BY DEF IInv, PassWhole
<1>7. PassWhole' /\ DiscoverPublished'
  BY <1>3, NobodyIsNoDisc DEF IInv, Typing, Passes, PassWhole, DiscoverPublished, At, D
<1>8. CopyTrue'
  BY <1>1, <1>2, <1>3, <1>6 DEF IInv, Typing, Passes, CopyTrue, Copied, Decided, At, D
<1>9. PostsCounted'
  <2>1. p = "preview" => event[D].state = "identity_resolved"
    BY NobodyIsNoDisc DEF IInv, CopyTrue, At, D
  <2>2. ASSUME NEW d \in Discs, d = D, MayPost(d)'
        PROVE  MayPost(d)
    <3>1. ~Holding(d)'
      BY <1>3, <1>6, <2>2, NobodyIsNoDisc DEF Holding, D
    <3>2. event'[d].state \in {"none", "received", "validated", "identity_resolved"} => MayPost(d)
      BY <1>1, <1>2, <2>2 DEF MayPost
    <3>3. pass'.pc \in {"preview", "post"} => MayPost(d)
      BY <1>3, <2>1, <2>2 DEF MayPost
    <3> QED BY <2>2, <3>1, <3>2, <3>3 DEF MayPost
  <2>3. \A x \in Discs : x # D => (MayPost(x)' => MayPost(x))
    BY <1>2, <1>3, NobodyIsNoDisc DEF MayPost, Holding, D
  <2>4. pass'.pc # "posted" /\ (event'[D].state = "importing" => FALSE) /\ event'[D].command = event[D].command
    BY <1>1, <1>2, <1>3
  <2>5. \A x \in Discs : (MayPost(x)' => MayPost(x)) /\ Posts(x)' = Posts(x)
    BY <1>3, <2>2, <2>3 DEF Posts
  <2> QED BY <1>2, <1>3, <2>4, <2>5 DEF IInv, PostsCounted
<1>10. ImportedProved'
  BY <1>1, <1>2, <1>3 DEF IInv, ImportedProved, Imported, D
<1>11. MovieRenamed'
  BY <1>1, <1>2, <1>3 DEF IInv, MovieRenamed, Once, OnlyNamed, Told, D
<1> QED BY <1>4, <1>5, <1>7, <1>8, <1>9, <1>10, <1>11 DEF IInv

\* The event is validated.
LEMMA ValidateKeeps ==
    ASSUME IInv, Validate
    PROVE  IInv'
<1>1. D \in Discs /\ event[D].state = "received"
  BY CurrentDisc DEF IInv, CopyTrue, Copied, Decided, Validate, At
<1>2. EventStep("validated", "none")
  <2>1. [event[D] EXCEPT !.state = "validated"] \in Events
    BY <1>1, StateTyped DEF IInv, Typing, States, Active
  <2>2. event' = [event EXCEPT ![D] = [event[D] EXCEPT !.state = "validated"]]
    BY <1>1, <2>1, OpenTransition DEF IInv, Validate
  <2>3. /\ pass' \in Passes /\ pass'.pc = "none" /\ pass'.phase = pass.phase /\ pass'.todo = pass.todo
        /\ pass'.snap = pass.snap /\ pass'.cur = Nobody
    BY DoneTyped DEF IInv, Typing, Passes, Validate, Done
  <2> QED BY <2>2, <2>3 DEF EventStep, Validate, outside
<1> QED BY <1>1, <1>2, EventStepKeeps DEF States, Active

\* The event is completed: its file is in the library.
LEMMA CompleteKeeps ==
    ASSUME IInv, Complete
    PROVE  IInv'
<1>1. D \in Discs /\ event[D].state \in Active \cup {"manual_review"} /\ pass.pc = "complete"
  BY CurrentDisc DEF IInv, CopyTrue, Copied, Decided, Complete, At, Active
<1>2. EventStep("completed", "announce")
  <2>1. [event[D] EXCEPT !.state = "completed"] \in Events
    BY <1>1, StateTyped DEF IInv, Typing, States, Terminal
  <2>2. event' = [event EXCEPT ![D] = [event[D] EXCEPT !.state = "completed"]]
    BY <1>1, <2>1, OpenTransition DEF IInv, Complete, Active
  <2>3. /\ pass' \in Passes /\ pass'.pc = "announce" /\ pass'.phase = pass.phase /\ pass'.todo = pass.todo
        /\ pass'.snap = pass.snap /\ pass'.cur = pass.cur
    BY GotoTyped DEF IInv, Typing, Passes, Stages, Complete, Goto
  <2> QED BY <2>2, <2>3 DEF EventStep, Complete, outside
<1>3. library[D] = "disc" \/ kind[D] = "tv"
  BY <1>1 DEF IInv, ImportedProved, Imported
<1> QED BY <1>1, <1>2, <1>3, EventStepKeeps DEF States, Terminal, Active

\* The event waits for a person, who is told next.
LEMMA SetAttentionKeeps ==
    ASSUME IInv, SetAttention
    PROVE  IInv'
<1>1. /\ D \in Discs /\ event[D].state \in Active \cup {"manual_review"} /\ pass.pc = "attention"
      /\ pass.state \in {"manual_review", "failed"}
  BY CurrentDisc DEF IInv, CopyTrue, Copied, Decided, PassWhole, SetAttention, At, Active
<1>2. EventStep(pass.state, "notice")
  <2>1. [event[D] EXCEPT !.state = pass.state] \in Events
    BY <1>1, StateTyped DEF IInv, Typing, States, Terminal
  <2>2. event' = [event EXCEPT ![D] = [event[D] EXCEPT !.state = pass.state]]
    BY <1>1, <2>1, OpenTransition DEF IInv, SetAttention, Active
  <2>3. /\ pass' \in Passes /\ pass'.pc = "notice" /\ pass'.phase = pass.phase /\ pass'.todo = pass.todo
        /\ pass'.snap = pass.snap /\ pass'.cur = pass.cur
    BY GotoTyped DEF IInv, Typing, Passes, Stages, SetAttention, Goto
  <2> QED BY <2>2, <2>3 DEF EventStep, SetAttention, outside
<1> QED BY <1>1, <1>2, EventStepKeeps DEF States, Terminal, Active

\* The request's boundary is written down before it is crossed.
LEMMA SubmitKeeps ==
    ASSUME IInv, Submit
    PROVE  IInv'
<1>1. D \in Discs /\ event[D].state = "identity_resolved" /\ pass.pc = "submit"
  BY CurrentDisc DEF IInv, CopyTrue, Copied, Decided, Submit, At
<1>2. EventStep("import_submitting", "preview")
  <2>1. [event[D] EXCEPT !.state = "import_submitting"] \in Events
    BY <1>1, StateTyped DEF IInv, Typing, States, Active
  <2>2. event' = [event EXCEPT ![D] = [event[D] EXCEPT !.state = "import_submitting"]]
    BY <1>1, <2>1, OpenTransition DEF IInv, Submit
  <2>3. /\ pass' \in Passes /\ pass'.pc = "preview" /\ pass'.phase = pass.phase /\ pass'.todo = pass.todo
        /\ pass'.snap = pass.snap /\ pass'.cur = pass.cur
    BY GotoTyped DEF IInv, Typing, Passes, Stages, Submit, Goto
  <2> QED BY <2>2, <2>3 DEF EventStep, Submit, outside
<1> QED BY <1>1, <1>2, EventStepKeeps DEF States, Active

\* The identity is found: the event keeps its state's successor and its entity.
LEMMA ResolveKeeps ==
    ASSUME IInv, Resolve
    PROVE  IInv'
<1>1. /\ D \in Discs /\ event[D].state \in {"received", "validated", "manual_review"}
      /\ pass.pc = "branch" /\ MayPost(D)
  <2>1. D \in Discs /\ pass.pc = "branch" /\ Row.state \in {"received", "validated"}
    BY CurrentDisc DEF IInv, Resolve, At
  <2>2. Copied(D) \/ Decided(D)
    BY <2>1 DEF IInv, CopyTrue
  <2>3. Decided(D) => Holding(D)
    BY <2>1, NobodyIsNoDisc DEF IInv, PassWhole, Decided, Holding
  <2> QED BY <2>1, <2>2, <2>3 DEF Copied, Decided, MayPost, Row
<1>2. CASE ~(MovieIdentified \/ SeriesIdentified)
  <2>1. Attention("manual_review") /\ UNCHANGED <<tables, outbox, bounds>>
    BY <1>2 DEF Resolve, Review, outside, tables
  <2> QED BY <1>1, <2>1, AttentionKeeps DEF IInv, Typing, tables
<1>3. CASE MovieIdentified \/ SeriesIdentified
  <2> DEFINE e == [event[D] EXCEPT !.state = "identity_resolved", !.entity = TRUE]
  <2>1. /\ e \in Events /\ e.state = "identity_resolved" /\ e.media = event[D].media
        /\ e.path = event[D].path /\ e.command = event[D].command
    BY <1>1 DEF IInv, Typing, Events, States, Active
  <2>2. Transition(D, e) /\ Done
    BY <1>3 DEF Resolve
  <2> HIDE DEF e
  <2>3. event' \in [Discs -> Events] /\ event' = [event EXCEPT ![D] = e]
    BY <1>1, <2>1, <2>2, OpenTransition DEF IInv
  <2>4. event'[D] = e /\ \A x \in Discs : x # D => event'[x] = event[x]
    BY <1>1, <2>3 DEF IInv, Typing
  <2>5. /\ pass' \in Passes /\ pass'.pc = "none" /\ pass'.phase = pass.phase /\ pass'.todo = pass.todo
        /\ pass'.snap = pass.snap /\ pass'.cur = Nobody
    BY <2>2, DoneTyped DEF IInv, Typing, Passes, Done
  <2>6. UNCHANGED <<kind, dir, sending, quarantine, commands, operator, library, outbox, bounds>>
    BY <1>3 DEF Resolve, outside
  <2>7. Typing'
    BY <2>3, <2>5, <2>6 DEF IInv, Typing
  <2>8. DiscsWhole' /\ SourceKept'
    BY <1>1, <2>1, <2>3, <2>6, EventMoves
  <2>9. D \notin pass.todo /\ pass.todo \subseteq Discs
    BY DEF IInv, Typing, Passes, PassWhole
  <2>10. PassWhole' /\ DiscoverPublished' /\ MovieRenamed'
    BY <2>5, <2>6, NobodyIsNoDisc DEF IInv, Typing, Passes, PassWhole, DiscoverPublished, MovieRenamed, At, D
  <2>11. CopyTrue'
    BY <2>1, <2>4, <2>5, <2>6, <2>9 DEF IInv, CopyTrue, Copied, Decided, At
  <2>12. PostsCounted'
    BY <1>1, <2>1, <2>4, <2>5, <2>6, <2>9, NobodyIsNoDisc DEF IInv, PostsCounted, MayPost, Holding, Posts, D
  <2>13. ImportedProved'
    BY <2>1, <2>4, <2>5, <2>6, NobodyIsNoDisc DEF IInv, ImportedProved, Imported, D
  <2> QED BY <2>7, <2>8, <2>10, <2>11, <2>12, <2>13 DEF IInv
<1> QED BY <1>2, <1>3

\* The event knows its command: there is one.
LEMMA SetImportingKeeps ==
    ASSUME IInv, SetImporting
    PROVE  IInv'
<1>1. D \in Discs /\ event[D].state = "import_submitting" /\ pass.pc = "posted"
  BY CurrentDisc DEF IInv, CopyTrue, Copied, Decided, SetImporting, At
<1>2. Posts(D) \in Nat /\ Posts(D) # 0
  BY <1>1 DEF IInv, Typing, PostsCounted, Posts
<1> DEFINE e == [event[D] EXCEPT !.state = "importing", !.command = Posts(D)]
<1>3. /\ e \in Events /\ e.state = "importing" /\ e.media = event[D].media
      /\ e.path = event[D].path /\ e.command = Posts(D)
  BY <1>1, <1>2 DEF IInv, Typing, Events, States, Active
<1>4. Transition(D, e) /\ Done
  BY DEF SetImporting, Posts
<1> HIDE DEF e
<1>5. event' \in [Discs -> Events] /\ event' = [event EXCEPT ![D] = e]
  BY <1>1, <1>3, <1>4, OpenTransition DEF IInv
<1>6. event'[D] = e /\ \A x \in Discs : x # D => event'[x] = event[x]
  BY <1>1, <1>5 DEF IInv, Typing
<1>7. /\ pass' \in Passes /\ pass'.pc = "none" /\ pass'.phase = pass.phase /\ pass'.todo = pass.todo
      /\ pass'.snap = pass.snap /\ pass'.cur = Nobody
  BY <1>4, DoneTyped DEF IInv, Typing, Passes, Done
<1>8. UNCHANGED <<kind, dir, sending, quarantine, commands, operator, library, outbox, bounds>>
  BY DEF SetImporting, outside
<1>9. Typing'
  BY <1>5, <1>7, <1>8 DEF IInv, Typing
<1>10. DiscsWhole' /\ SourceKept'
  BY <1>1, <1>3, <1>5, <1>8, EventMoves
<1>11. D \notin pass.todo /\ pass.todo \subseteq Discs
  BY DEF IInv, Typing, Passes, PassWhole
<1>12. PassWhole' /\ DiscoverPublished' /\ MovieRenamed'
  BY <1>7, <1>8, NobodyIsNoDisc DEF IInv, Typing, Passes, PassWhole, DiscoverPublished, MovieRenamed, At, D
<1>13. CopyTrue'
  BY <1>3, <1>6, <1>7, <1>8, <1>11 DEF IInv, CopyTrue, Copied, Decided, At
<1>14. PostsCounted'
  BY <1>1, <1>2, <1>3, <1>6, <1>7, <1>8, <1>11, NobodyIsNoDisc DEF IInv, PostsCounted, MayPost, Holding, Posts, D
<1>15. ImportedProved'
  BY <1>3, <1>6, <1>7, <1>8, NobodyIsNoDisc DEF IInv, ImportedProved, Imported, D
<1> QED BY <1>9, <1>10, <1>12, <1>13, <1>14, <1>15 DEF IInv

\* The item is announced: it is in the library.
LEMMA AnnounceKeeps ==
    ASSUME IInv, Announce
    PROVE  IInv'
<1>1. D \in Discs /\ pass.pc = "announce" /\ pass \in Passes /\ bounds \in Counters
  BY CurrentDisc DEF IInv, Typing, Announce, At
<1>2. UNCHANGED <<tables, bounds>> /\ outbox' = outbox \cup {<<D, "imported">>}
  BY DEF Announce, outside, tables
<1>3. /\ pass' \in Passes /\ pass'.phase = pass.phase /\ pass'.todo = pass.todo /\ pass'.snap = pass.snap
      /\ \/ pass'.pc = "none" /\ pass'.cur = Nobody
         \/ pass'.pc = "cleanup" /\ pass'.cur = pass.cur
  <2>1. CASE pass.state = "completed"
    <3>1. Goto("cleanup")
      BY <2>1 DEF Announce
    <3> QED BY <1>1, <3>1, GotoTyped DEF Goto, Passes, Stages
  <2>2. CASE pass.state # "completed"
    <3>1. Done
      BY <2>2 DEF Announce
    <3> QED BY <1>1, <3>1, DoneTyped DEF Done, Passes
  <2> QED BY <2>1, <2>2
<1>4. Typing'
  BY <1>2, <1>3 DEF IInv, Typing, tables
<1>5. PassWhole' /\ CopyTrue' /\ DiscoverPublished' /\ MovieRenamed'
  BY <1>1, <1>2, <1>3, NobodyIsNoDisc DEF IInv, Passes, PassWhole, CopyTrue, Copied, Decided, DiscoverPublished, MovieRenamed,
     tables, At, D
<1>6. PostsCounted' /\ SourceKept'
  BY <1>2, <1>3 DEF IInv, PostsCounted, MayPost, Holding, Posts, SourceKept, tables
<1>7. ImportedProved'
  BY <1>1, <1>2, <1>3 DEF IInv, ImportedProved, Imported, tables
<1>8. DiscsWhole'
  BY <1>2, DiscsUnchanged DEF IInv, SameDiscs, SameDisc, tables
<1> QED BY <1>4, <1>5, <1>6, <1>7, <1>8 DEF IInv

\* An import is requested: it was not since the last decision.
LEMMA PostKeeps ==
    ASSUME IInv, Post
    PROVE  IInv'
<1>1. PICK d \in Discs : pass.cur = d
  BY CurrentDisc DEF IInv, Post, At, D
<1>2. /\ pass.pc = "post" /\ pass \in Passes /\ event[d].state = "import_submitting"
      /\ d \notin pass.todo
  BY <1>1 DEF IInv, Typing, CopyTrue, PassWhole, Post, At, D
<1>3. UNCHANGED <<kind, dir, sending, event, quarantine, operator, library, outbox, bounds>>
  BY DEF Post, outside
<1>4. /\ commands' \in [Discs -> Seq({"queued", "completed", "failed"})]
      /\ commands'[d] = Append(commands[d], "queued")
      /\ \A x \in Discs : x # d => commands'[x] = commands[x]
  BY <1>1 DEF IInv, Typing, Post, D
<1>5. Posts(d)' = Posts(d) + 1 /\ Posts(d) \in Nat /\ \A x \in Discs : x # d => Posts(x)' = Posts(x)
  BY <1>4 DEF IInv, Typing, Posts
<1>6. /\ pass' \in Passes /\ pass'.pc = "posted" /\ pass'.phase = pass.phase /\ pass'.todo = pass.todo
      /\ pass'.snap = pass.snap /\ pass'.cur = d
  BY <1>1, <1>2, GotoTyped DEF Post, Goto, Passes, Stages
<1>7. Typing' /\ SourceKept'
  BY <1>3, <1>4, <1>6 DEF IInv, Typing, SourceKept
<1>8. PassWhole' /\ CopyTrue' /\ DiscoverPublished' /\ MovieRenamed'
  BY <1>1, <1>2, <1>3, <1>6 DEF IInv, PassWhole, CopyTrue, Copied, Decided, DiscoverPublished, MovieRenamed, At, D
<1>9. PostsCounted'
  <2>1. ASSUME NEW x \in Discs, x # d
        PROVE  MayPost(x)' => MayPost(x)
    BY <1>3, <1>6, <2>1 DEF MayPost, Holding, D
  <2>2. ~MayPost(d)'
    BY <1>2, <1>3, <1>6 DEF MayPost, Holding, D
  <2>3. /\ Posts(d) <= bounds.resolves[d] /\ event[d].command <= Posts(d)
        /\ operator[d] # "idle" => Posts(d) < bounds.resolves[d]
    BY <1>1, <1>2 DEF IInv, PostsCounted, MayPost, Holding, D
  <2>4. bounds.resolves[d] \in Nat /\ event[d].command \in Nat
    BY DEF IInv, Typing, Events, Counters
  <2>5. /\ Posts(d)' <= 1 + bounds.resolves[d] /\ event[d].command <= Posts(d)' /\ Posts(d)' # 0
        /\ operator[d] # "idle" => Posts(d)' <= bounds.resolves[d]
    BY <1>5, <2>3, <2>4
  <2> QED BY <1>1, <1>2, <1>3, <1>5, <1>6, <2>1, <2>2, <2>5 DEF IInv, PostsCounted, D
<1>10. ImportedProved'
  BY <1>3, <1>6 DEF IInv, ImportedProved, Imported, D
<1>11. DiscsWhole'
  <2>1. DiscWhole(d) /\ commands'[d] # <<>>
    BY <1>4 DEF IInv, DiscsWhole, Typing
  <2>2. Once(d) => event[d].path = "named" /\ Told(d) = "named"
    BY <1>1, <1>2 DEF IInv, MovieRenamed, D
  <2>3. DiscWhole(d)'
    BY <1>2, <1>3, <2>1, <2>2 DEF DiscWhole, KindTrue, Unknown, Once, MovieWhole, Told, OnlyNamed, Clean
  <2>4. \A x \in Discs : x # d => SameDisc(x)
    BY <1>3, <1>4 DEF SameDisc
  <2> QED BY <2>3, <2>4, OneDiscChanges DEF IInv
<1> QED BY <1>7, <1>8, <1>9, <1>10, <1>11 DEF IInv

-----------------------------------------------------------------------------
(* Steps that change a delivery's directory, or what is known of it          *)

\* Where an import may still be requested without a decision, none was.
LEMMA NoCommands ==
    ASSUME IInv, NEW d \in Discs, MayPost(d), bounds.resolves[d] = 0
    PROVE  commands[d] = <<>>
<1>1. commands[d] \in Seq({"queued", "completed", "failed"}) /\ Len(commands[d]) <= 0
  BY DEF IInv, Typing, PostsCounted, Posts
<1> QED BY <1>1

\* A manifest is registered: it is the disc's own, and names its one MKV.
LEMMA RegisterKeeps ==
    ASSUME IInv, NEW d \in Discs, Register(d)
    PROVE  IInv'
<1>1. /\ pass.phase = "discover" /\ D = Nobody /\ d \in pass.todo /\ pass.pc = "none" /\ pass \in Passes
      /\ dir[d].manifest # NoManifest
  BY DEF IInv, Typing, PassWhole, DiscoverPublished, Register, Pending
<1>2. CASE event[d].state # "none"
  BY <1>2, SkipKeeps DEF Register, outside, tables
<1>3. CASE event[d].state = "none"
  <2> DEFINE m == dir[d].manifest
             e == [NoEvent EXCEPT !.state = "received", !.media = m.kind,
                                  !.path = IF m.kind = "movie" THEN m.file ELSE "directory"]
  <2>1. /\ m.file \in Names /\ m.kind \in {"movie", "unknown", "tv", "group"} /\ m.kind \in Medias
        /\ m.kind = "tv" => kind[d] = "tv"
        /\ kind[d] = "tv" => m.kind = "tv"
    BY <1>1 DEF IInv, Typing, Directories, Manifests, Medias, DiscsWhole, DiscWhole, KindTrue, Told, Register, Loads,
       LoadsMovie, LoadsUnknown, LoadsGroup
  <2>2. /\ e \in Events /\ e.state = "received" /\ e.media = m.kind /\ e.command = 0
        /\ e.path = IF m.kind = "movie" THEN m.file ELSE "directory"
    BY <2>1 DEF NoEvent, Events, States, Active
  <2>3. event' = [event EXCEPT ![d] = e] /\ Take(d, "validate")
    BY <1>3 DEF Register
  <2> HIDE DEF e
  <2>4. /\ event' \in [Discs -> Events] /\ event'[d] = e
        /\ \A x \in Discs : x # d => event'[x] = event[x]
    BY <2>2, <2>3 DEF IInv, Typing
  <2>5. /\ pass' \in Passes /\ pass'.pc = "validate" /\ pass'.cur = d /\ pass'.phase = "discover"
        /\ pass'.todo = pass.todo \ {d}
    BY <1>1, <2>3, TakeTyped DEF Take, Passes, Stages
  <2>6. UNCHANGED <<kind, dir, sending, quarantine, commands, operator, library, outbox, bounds>>
    BY DEF Register, outside
  <2>7. Typing' /\ SourceKept'
    BY <2>4, <2>5, <2>6 DEF IInv, Typing, SourceKept
  <2>8. PassWhole' /\ DiscoverPublished' /\ MovieRenamed'
    BY <1>1, <2>5, <2>6, NobodyIsNoDisc DEF IInv, Passes, PassWhole, DiscoverPublished, MovieRenamed, At, D
  <2>9. CopyTrue'
    BY <1>3, <2>2, <2>4, <2>5, <2>6 DEF IInv, CopyTrue, Copied, Decided, At, D
  <2>10. PostsCounted'
    <3>1. ASSUME NEW x \in Discs
          PROVE  MayPost(x)' => MayPost(x)
      BY <1>3, <2>4, <2>5, <2>6 DEF MayPost, Holding, D
    <3>2. 0 <= Posts(d)
      BY DEF IInv, Typing, Posts
    <3> QED BY <1>3, <2>2, <2>4, <2>5, <2>6, <3>1, <3>2 DEF IInv, PostsCounted, Posts, D
  <2>11. ImportedProved'
    BY <2>2, <2>4, <2>5, <2>6 DEF IInv, ImportedProved, Imported, D
  <2>12. DiscWhole(d)'
    <3>1. KindTrue(d)'
      BY <2>1, <2>2, <2>4, <2>6 DEF IInv, DiscsWhole, DiscWhole, KindTrue, Told
    <3>2. Unknown(d)'
      BY <1>1, <2>6 DEF IInv, DiscsWhole, DiscWhole, Unknown
    <3>3. Once(d)' => MovieWhole(d)'
      BY <1>1, <1>3, <2>1, <2>2, <2>4, <2>6 DEF IInv, DiscsWhole, DiscWhole, Once, MovieWhole, Told, OnlyNamed, Clean
    <3> QED BY <3>1, <3>2, <3>3 DEF DiscWhole
  <2>13. DiscsWhole'
    <3>1. \A x \in Discs : x # d => SameDisc(x)
      BY <2>4, <2>6 DEF SameDisc
    <3> QED BY <2>12, <3>1, OneDiscChanges DEF IInv
  <2> QED BY <2>7, <2>8, <2>9, <2>10, <2>11, <2>13 DEF IInv
<1> QED BY <1>2, <1>3

\* A manifest that is refused is not a movie's that was delivered once.
LEMMA RefusedIsStrange ==
    ASSUME IInv, NEW d \in Discs, dir[d].manifest # NoManifest, ~Known(d), ~Loads(dir[d].manifest, dir[d].files)
    PROVE  ~Once(d) /\ bounds.sends[d] # 0 /\ Told(d) \in Names
<1>1. KindTrue(d) /\ Unknown(d) /\ (Once(d) => MovieWhole(d))
  BY DEF IInv, DiscsWhole, DiscWhole
<1>2. Told(d) \in Names /\ bounds.sends[d] # 0
  BY <1>1 DEF KindTrue, Unknown
<1>3. ASSUME MovieWhole(d)
      PROVE  FALSE
  BY <1>2, <1>3 DEF MovieWhole, Told, OnlyNamed, Known, SourceOf, Loads, LoadsMovie, Names
<1> QED BY <1>1, <1>2, <1>3

\* Another refused manifest, or its notice: nothing else of the disc changes.
LEMMA QuarantineMoves ==
    ASSUME IInv, NEW d \in Discs, ~Once(d), bounds.sends[d] # 0,
           \A x \in Discs : x # d => quarantine'[x] = quarantine[x],
           UNCHANGED <<kind, dir, sending, event, commands, operator, bounds>>
    PROVE  DiscsWhole'
<1>1. DiscWhole(d)'
  BY DEF IInv, DiscsWhole, DiscWhole, KindTrue, Unknown, Once, Told
<1>2. \A x \in Discs : x # d => SameDisc(x)
  BY DEF SameDisc
<1> QED BY <1>1, <1>2, OneDiscChanges DEF IInv

\* A manifest is refused.
LEMMA RefuseKeeps ==
    ASSUME IInv, NEW d \in Discs, Refuse(d)
    PROVE  IInv'
<1> DEFINE f == dir[d].manifest.file
<1>1. /\ pass.phase = "discover" /\ D = Nobody /\ d \in pass.todo /\ pass.pc = "none" /\ pass \in Passes
      /\ dir[d].manifest # NoManifest
  BY DEF IInv, Typing, PassWhole, DiscoverPublished, Refuse, Pending
<1>2. ~Once(d) /\ bounds.sends[d] # 0 /\ f \in Names
  BY <1>1, RefusedIsStrange DEF Refuse, Told
<1>3. CASE quarantine[d][f] # "none"
  BY <1>3, SkipKeeps DEF Refuse, outside, tables
<1>4. CASE quarantine[d][f] = "none"
  <2>1. /\ quarantine' = [quarantine EXCEPT ![d][f] = "received"]
        /\ pass' = [pass EXCEPT !.todo = @ \ {d}, !.cur = d, !.pc = "alarm", !.notice = f]
    BY <1>4 DEF Refuse
  <2>2. UNCHANGED <<kind, dir, sending, event, commands, operator, library, outbox, bounds>>
    BY DEF Refuse, outside
  <2> HIDE DEF f
  <2>3. /\ quarantine' \in [Discs -> [Names -> {"none", "received", "manual_review"}]]
        /\ quarantine'[d][f] = "received" /\ \A x \in Discs : x # d => quarantine'[x] = quarantine[x]
    BY <1>2, <2>1 DEF IInv, Typing
  <2>4. /\ pass' \in Passes /\ pass'.pc = "alarm" /\ pass'.cur = d /\ pass'.phase = "discover" /\ pass'.notice = f
        /\ pass'.todo = pass.todo \ {d}
    BY <1>1, <1>2, <2>1 DEF Passes, Stages
  <2>5. Typing' /\ SourceKept'
    BY <2>2, <2>3, <2>4 DEF IInv, Typing, SourceKept
  <2>6. PassWhole' /\ CopyTrue' /\ DiscoverPublished' /\ MovieRenamed'
    BY <1>1, <1>2, <2>2, <2>3, <2>4, NobodyIsNoDisc DEF IInv, Passes, PassWhole, CopyTrue, Copied, Decided, DiscoverPublished,
       MovieRenamed, At, D
  <2>7. PostsCounted' /\ ImportedProved'
    BY <2>2, <2>4 DEF IInv, PostsCounted, MayPost, Holding, Posts, ImportedProved, Imported, D
  <2>8. DiscsWhole'
    BY <1>2, <2>2, <2>3, QuarantineMoves
  <2> QED BY <2>5, <2>6, <2>7, <2>8 DEF IInv
<1> QED BY <1>3, <1>4

\* A quarantined manifest belongs to no movie that was delivered once.
LEMMA QuarantinedIsStrange ==
    ASSUME IInv, NEW d \in Discs, NEW f \in Names, quarantine[d][f] = "received"
    PROVE  ~Once(d) /\ bounds.sends[d] # 0
BY DEF IInv, DiscsWhole, DiscWhole, MovieWhole, Unknown, Clean

\* A person is told of a refused manifest.
LEMMA AlarmKeeps ==
    ASSUME IInv, Alarm
    PROVE  IInv'
<1>1. PICK d \in Discs : pass.cur = d
  BY CurrentDisc DEF IInv, Alarm, At, D
<1>2. pass.pc = "alarm" /\ pass.notice \in Names /\ quarantine[d][pass.notice] = "received" /\ D # Nobody
  BY <1>1, NobodyIsNoDisc DEF IInv, PassWhole, Alarm, At, D
<1>3. ~Once(d) /\ bounds.sends[d] # 0
  BY <1>2, QuarantinedIsStrange
<1>4. UNCHANGED <<kind, dir, sending, event, commands, operator, library, bounds>>
  BY DEF Alarm, outside
<1>5. /\ quarantine' \in [Discs -> [Names -> {"none", "received", "manual_review"}]]
      /\ \A x \in Discs : x # d => quarantine'[x] = quarantine[x]
      /\ \A x \in Discs : <<x, "imported">> \in outbox' => <<x, "imported">> \in outbox
  BY <1>1, <1>2 DEF IInv, Typing, Alarm, D, Names
<1>6. /\ pass' \in Passes /\ pass'.pc = "none" /\ pass'.cur = Nobody /\ pass'.phase = pass.phase
      /\ pass'.todo = pass.todo /\ pass'.snap = pass.snap
  BY DoneTyped DEF IInv, Typing, Alarm, Done, Passes
<1>7. Typing' /\ SourceKept'
  BY <1>4, <1>5, <1>6 DEF IInv, Typing, SourceKept
<1>8. PassWhole' /\ CopyTrue' /\ DiscoverPublished' /\ MovieRenamed'
  BY <1>4, <1>6, NobodyIsNoDisc DEF IInv, Typing, Passes, PassWhole, CopyTrue, Copied, Decided, DiscoverPublished, MovieRenamed, At, D
<1>9. PostsCounted' /\ ImportedProved'
  BY <1>4, <1>5, <1>6 DEF IInv, PostsCounted, MayPost, Holding, Posts, ImportedProved, Imported
<1>10. DiscsWhole'
  BY <1>3, <1>4, <1>5, QuarantineMoves
<1> QED BY <1>7, <1>8, <1>9, <1>10 DEF IInv

\* So is a person whose notice a restart cut short.
LEMMA AlarmLaterKeeps ==
    ASSUME IInv, NEW d \in Discs, NEW f \in Names, AlarmLater(d, f)
    PROVE  IInv'
<1>1. ~Once(d) /\ bounds.sends[d] # 0 /\ D = Nobody /\ pass.pc = "none"
  BY QuarantinedIsStrange DEF IInv, PassWhole, AlarmLater
<1>2. UNCHANGED <<kind, dir, sending, event, commands, operator, library, bounds, pass>>
  BY DEF AlarmLater, outside
<1>3. /\ quarantine' \in [Discs -> [Names -> {"none", "received", "manual_review"}]]
      /\ \A x \in Discs : x # d => quarantine'[x] = quarantine[x]
      /\ \A x \in Discs : <<x, "imported">> \in outbox' => <<x, "imported">> \in outbox
  BY DEF IInv, Typing, AlarmLater, Names
<1>4. Typing' /\ SourceKept'
  BY <1>2, <1>3 DEF IInv, Typing, SourceKept
<1>5. PassWhole' /\ CopyTrue' /\ DiscoverPublished' /\ MovieRenamed'
  BY <1>1, <1>2 DEF IInv, PassWhole, CopyTrue, Copied, Decided, DiscoverPublished, MovieRenamed, At, D, Once, OnlyNamed, Told, Row
<1>6. PostsCounted' /\ ImportedProved'
  BY <1>1, <1>2, <1>3 DEF IInv, PostsCounted, MayPost, Holding, Posts, ImportedProved, Imported, D
<1>7. DiscsWhole'
  BY <1>1, <1>2, <1>3, QuarantineMoves
<1> QED BY <1>4, <1>5, <1>6, <1>7 DEF IInv

\* The worker changes the directory of its disc, and claims nothing of an import.
LEMMA DirectoryMoves ==
    ASSUME IInv, NEW d \in Discs, NEW s \in Directories, dir' = [dir EXCEPT ![d] = s],
           UNCHANGED <<kind, sending, event, quarantine, commands, operator, library, outbox, bounds>>,
           pass' \in Passes, pass'.pc \notin {"complete", "announce", "preview", "post", "posted", "final", "branch"},
           pass'.phase = pass.phase, pass'.todo = pass.todo, pass'.snap = pass.snap, DiscWhole(d)'
    PROVE  Typing' /\ PostsCounted' /\ ImportedProved' /\ DiscsWhole'
<1>1. dir' \in [Discs -> Directories] /\ \A x \in Discs : x # d => dir'[x] = dir[x]
  BY DEF IInv, Typing
<1>2. Typing'
  BY <1>1 DEF IInv, Typing
<1>3. PostsCounted' /\ ImportedProved'
  BY DEF IInv, PostsCounted, MayPost, Holding, Posts, ImportedProved, Imported, D
<1>4. \A x \in Discs : x # d => SameDisc(x)
  BY <1>1 DEF SameDisc
<1>5. DiscsWhole'
  BY <1>4, OneDiscChanges DEF IInv
<1> QED BY <1>2, <1>3, <1>5

\* The MKV has its name: nothing was requested for it yet.
LEMMA RenameKeeps ==
    ASSUME IInv, Rename
    PROVE  IInv'
<1>1. PICK d \in Discs : pass.cur = d
  BY CurrentDisc DEF IInv, Rename, At, D
<1>2. /\ pass.pc = "branch" /\ pass \in Passes /\ event[d] = Row /\ event[d].state = "identity_resolved"
      /\ D = d
  <2>1. pass.pc = "branch" /\ Row.state = "identity_resolved" /\ D = d
    BY <1>1 DEF Rename, At, D
  <2>2. Copied(D) \/ Decided(D)
    BY <2>1 DEF IInv, CopyTrue
  <2> QED BY <2>1, <2>2 DEF IInv, Typing, Copied, Decided, Row
<1>3. Source \in dir[d].files /\ (event[d].media = "movie" => Told(d) = Source)
  BY <1>1, <1>2 DEF Rename, Trusted, Told, D
<1>4. UNCHANGED <<kind, sending, event, quarantine, commands, operator, library, outbox, bounds>>
  BY DEF Rename, outside
<1> DEFINE s == [dir[d] EXCEPT !.files = (@ \ {Source}) \cup {"named"}]
<1>5. /\ s \in Directories /\ s.manifest = dir[d].manifest
      /\ s.files = (dir[d].files \ {Source}) \cup {"named"}
  <2>1. dir[d] \in Directories
    BY <1>1 DEF IInv, Typing
  <2> QED BY <2>1 DEF Directories, Names
<1>6. dir' = [dir EXCEPT ![d] = s]
  BY <1>1, <1>2 DEF Rename
<1> HIDE DEF s
<1>7. dir'[d] = s /\ \A x \in Discs : x # d => dir'[x] = dir[x]
  BY <1>5, <1>6 DEF IInv, Typing
<1>8. /\ pass' \in Passes /\ pass'.pc = "rewrite" /\ pass'.phase = pass.phase /\ pass'.todo = pass.todo
      /\ pass'.snap = pass.snap /\ pass'.cur = d
  BY <1>1, <1>2, GotoTyped DEF Rename, Goto, Passes, Stages
<1>9. Once(d) => /\ dir[d].files \in {{"feature"}, {"named"}} /\ event[d].media = "movie" /\ commands[d] = <<>>
                 /\ dir[d].manifest # NoManifest
  <2>1. SUFFICES ASSUME Once(d) PROVE commands[d] = <<>>
    BY <1>2, <1>3, <2>1 DEF IInv, DiscsWhole, DiscWhole, MovieWhole, OnlyNamed, NoManifest, Told, Names
  <2> QED BY <1>2, <2>1, NoCommands DEF MayPost, Holding, Once
<1>10. Once(d) => s.files = {"named"}
  BY <1>3, <1>5, <1>9
<1>11. bounds.sends[d] # 0
  BY <1>3 DEF IInv, DiscsWhole, DiscWhole, Unknown
<1>12. DiscWhole(d)'
  <2>1. KindTrue(d)'
    BY <1>4, <1>5, <1>7 DEF IInv, DiscsWhole, DiscWhole, KindTrue, Told
  <2>2. Unknown(d)'
    BY <1>4, <1>11 DEF Unknown
  <2>3. Once(d)' => MovieWhole(d)'
    BY <1>2, <1>4, <1>5, <1>7, <1>10 DEF IInv, DiscsWhole, DiscWhole, Once, MovieWhole, Told, OnlyNamed, Clean
  <2> QED BY <2>1, <2>2, <2>3 DEF DiscWhole
<1>13. Typing' /\ PostsCounted' /\ ImportedProved' /\ DiscsWhole'
  BY <1>4, <1>5, <1>6, <1>8, <1>12, DirectoryMoves
<1>14. PassWhole' /\ CopyTrue'
  BY <1>1, <1>2, <1>4, <1>8, NobodyIsNoDisc DEF IInv, PassWhole, CopyTrue, Copied, Decided, At, D, Row
<1>15. SourceKept' /\ DiscoverPublished'
  <2>1. s.files # {}
    BY <1>5
  <2>2. SourceKept'
    BY <1>4, <1>7, <2>1 DEF IInv, SourceKept
  <2>3. DiscoverPublished'
    BY <1>2, <1>8 DEF IInv, PassWhole, DiscoverPublished
  <2> QED BY <2>2, <2>3
<1>16. MovieRenamed'
  BY <1>4, <1>5, <1>7, <1>8, <1>9, <1>10 DEF MovieRenamed, OnlyNamed, Once, D
<1> QED BY <1>13, <1>14, <1>15, <1>16 DEF IInv

\* Then the manifest names it.
LEMMA RewriteManifestKeeps ==
    ASSUME IInv, RewriteManifest
    PROVE  IInv'
<1>1. PICK d \in Discs : pass.cur = d
  BY CurrentDisc DEF IInv, RewriteManifest, At, D
<1>2. /\ pass.pc = "rewrite" /\ pass \in Passes /\ event[d] = Row /\ event[d].state = "identity_resolved"
      /\ D = d
  BY <1>1 DEF IInv, Typing, CopyTrue, RewriteManifest, At, D
<1>4. UNCHANGED <<kind, sending, event, quarantine, commands, operator, library, outbox, bounds>>
  BY DEF RewriteManifest, outside
<1> DEFINE s == [dir[d] EXCEPT !.manifest.file = "named"]
<1>5. /\ s \in Directories /\ s.files = dir[d].files /\ s.manifest.file = "named"
      /\ s.manifest.kind = dir[d].manifest.kind /\ s.manifest # NoManifest
  <2>1. dir[d] \in Directories
    BY <1>1 DEF IInv, Typing
  <2> QED BY <2>1 DEF Directories, Manifests, Names, NoManifest
<1>6. dir' = [dir EXCEPT ![d] = s]
  BY <1>1, <1>2 DEF RewriteManifest
<1> HIDE DEF s
<1>7. dir'[d] = s /\ \A x \in Discs : x # d => dir'[x] = dir[x]
  BY <1>5, <1>6 DEF IInv, Typing
<1>8. /\ pass' \in Passes /\ pass'.pc = "path" /\ pass'.phase = pass.phase /\ pass'.todo = pass.todo
      /\ pass'.snap = pass.snap /\ pass'.cur = d
  BY <1>1, <1>2, GotoTyped DEF RewriteManifest, Goto, Passes, Stages
<1>9. Once(d) => OnlyNamed(d) /\ dir[d].manifest # NoManifest /\ commands[d] = <<>>
  <2>1. SUFFICES ASSUME Once(d) PROVE commands[d] = <<>>
    BY <1>1, <1>2, <2>1 DEF IInv, MovieRenamed
  <2> QED BY <1>2, <2>1, NoCommands DEF MayPost, Holding, Once
<1>11. bounds.sends[d] # 0
  BY <1>2 DEF IInv, DiscsWhole, DiscWhole, Unknown
<1>12. DiscWhole(d)'
  <2>1. KindTrue(d)'
    BY <1>2, <1>4, <1>5, <1>7 DEF IInv, DiscsWhole, DiscWhole, KindTrue, Told, Names
  <2>2. Unknown(d)'
    BY <1>4, <1>11 DEF Unknown
  <2>3. Once(d)' => MovieWhole(d)'
    BY <1>2, <1>4, <1>5, <1>7, <1>9 DEF IInv, DiscsWhole, DiscWhole, Once, MovieWhole, Told, OnlyNamed, Clean
  <2> QED BY <2>1, <2>2, <2>3 DEF DiscWhole
<1>13. Typing' /\ PostsCounted' /\ ImportedProved' /\ DiscsWhole'
  BY <1>4, <1>5, <1>6, <1>8, <1>12, DirectoryMoves
<1>14. PassWhole' /\ CopyTrue'
  BY <1>1, <1>2, <1>4, <1>8, NobodyIsNoDisc DEF IInv, PassWhole, CopyTrue, Copied, Decided, At, D, Row
<1>15. SourceKept' /\ DiscoverPublished'
  <2>1. SourceKept'
    BY <1>4, <1>5, <1>7 DEF IInv, SourceKept
  <2>2. DiscoverPublished'
    BY <1>2, <1>8 DEF IInv, PassWhole, DiscoverPublished
  <2> QED BY <2>1, <2>2
<1>16. MovieRenamed'
  BY <1>4, <1>5, <1>7, <1>8, <1>9 DEF MovieRenamed, OnlyNamed, Once, Told, D
<1> QED BY <1>13, <1>14, <1>15, <1>16 DEF IInv

\* Then the event of a movie does.
LEMMA UpdatePathKeeps ==
    ASSUME IInv, UpdatePath
    PROVE  IInv'
<1>1. PICK d \in Discs : pass.cur = d
  BY CurrentDisc DEF IInv, UpdatePath, At, D
<1>2. /\ pass.pc = "path" /\ pass \in Passes /\ event[d] = Row /\ event[d].state = "identity_resolved"
      /\ D = d
  BY <1>1 DEF IInv, Typing, CopyTrue, UpdatePath, At, D
<1>3. UNCHANGED <<kind, dir, sending, quarantine, commands, operator, library, outbox, bounds>>
  BY DEF UpdatePath, outside
<1> DEFINE e == IF event[d].media = "movie" THEN [event[d] EXCEPT !.path = "named"] ELSE event[d]
<1>4. /\ e \in Events /\ e.state = event[d].state /\ e.media = event[d].media /\ e.command = event[d].command
      /\ e.path = IF event[d].media = "movie" THEN "named" ELSE event[d].path
  <2>1. event[d] \in Events
    BY <1>1 DEF IInv, Typing
  <2> QED BY <2>1 DEF Events, Names
<1>5. Transition(d, e) /\ Goto("submit")
  BY <1>1, <1>2 DEF UpdatePath
<1> HIDE DEF e
<1>6. event' \in [Discs -> Events] /\ event' = [event EXCEPT ![d] = e]
  BY <1>2, <1>4, <1>5, OpenTransition DEF IInv
<1>7. event'[d] = e /\ \A x \in Discs : x # d => event'[x] = event[x]
  BY <1>6 DEF IInv, Typing
<1>8. /\ pass' \in Passes /\ pass'.pc = "submit" /\ pass'.phase = pass.phase /\ pass'.todo = pass.todo
      /\ pass'.snap = pass.snap /\ pass'.cur = d
  BY <1>1, <1>2, <1>5, GotoTyped DEF Goto, Passes, Stages
<1>9. Once(d) => OnlyNamed(d) /\ Told(d) = "named" /\ dir[d].manifest # NoManifest /\ event[d].media = "movie"
  BY <1>1, <1>2 DEF IInv, MovieRenamed, DiscsWhole, DiscWhole, MovieWhole
<1>10. Typing' /\ SourceKept'
  BY <1>3, <1>6, <1>8 DEF IInv, Typing, SourceKept
<1>11. d \notin pass.todo /\ pass.todo \subseteq Discs
  BY <1>1, <1>2 DEF IInv, PassWhole, Passes
<1>12. PassWhole' /\ DiscoverPublished'
  BY <1>1, <1>2, <1>3, <1>8, NobodyIsNoDisc DEF IInv, PassWhole, DiscoverPublished, At, D
<1>13. CopyTrue'
  BY <1>1, <1>2, <1>3, <1>4, <1>7, <1>8, <1>11 DEF IInv, CopyTrue, Copied, Decided, At, D
<1>14. PostsCounted'
  BY <1>1, <1>2, <1>3, <1>4, <1>7, <1>8 DEF IInv, PostsCounted, MayPost, Holding, Posts, D
<1>15. ImportedProved'
  BY <1>2, <1>3, <1>4, <1>7, <1>8 DEF IInv, ImportedProved, Imported, D
<1>16. DiscWhole(d)'
  <2>1. KindTrue(d)'
    BY <1>3, <1>4, <1>7 DEF IInv, DiscsWhole, DiscWhole, KindTrue, Told
  <2>2. Unknown(d)'
    BY <1>3, <1>4, <1>7 DEF IInv, DiscsWhole, DiscWhole, Unknown, Clean
  <2>3. Once(d)' => MovieWhole(d)'
    BY <1>2, <1>3, <1>4, <1>7, <1>9 DEF IInv, DiscsWhole, DiscWhole, Once, MovieWhole, Told, OnlyNamed, Clean, Names
  <2> QED BY <2>1, <2>2, <2>3 DEF DiscWhole
<1>17. DiscsWhole'
  <2>1. \A x \in Discs : x # d => SameDisc(x)
    BY <1>3, <1>7 DEF SameDisc
  <2> QED BY <1>16, <2>1, OneDiscChanges DEF IInv
<1>18. MovieRenamed'
  BY <1>3, <1>4, <1>7, <1>8, <1>9 DEF MovieRenamed, OnlyNamed, Once, Told, D
<1> QED BY <1>10, <1>12, <1>13, <1>14, <1>15, <1>17, <1>18 DEF IInv

\* The empty directory goes: the import has taken its MKV.
LEMMA CleanupKeeps ==
    ASSUME IInv, Cleanup
    PROVE  IInv'
<1>1. PICK d \in Discs : pass.cur = d
  BY CurrentDisc DEF IInv, Cleanup, At, D
<1>2. pass.pc = "cleanup" /\ pass \in Passes /\ bounds \in Counters /\ pass.phase = "events" /\ D = d
  BY <1>1 DEF IInv, Typing, PassWhole, Cleanup, At, D
<1>3. UNCHANGED <<kind, sending, event, quarantine, commands, operator, library, outbox, bounds>>
  BY DEF Cleanup, outside
<1>4. /\ pass' \in Passes /\ pass'.pc = "none" /\ pass'.phase = pass.phase /\ pass'.todo = pass.todo
      /\ pass'.snap = pass.snap /\ pass'.cur = Nobody
  BY <1>2, DoneTyped DEF Cleanup, Done, Passes
<1>5. PassWhole' /\ CopyTrue' /\ DiscoverPublished' /\ MovieRenamed'
  BY <1>2, <1>3, <1>4, NobodyIsNoDisc DEF IInv, PassWhole, CopyTrue, Copied, Decided, DiscoverPublished, MovieRenamed, Passes, At, D
<1>6. CASE ~Removable
  <2>1. UNCHANGED tables
    BY <1>3, <1>6 DEF Cleanup, tables
  <2>2. \A x \in Discs : Holding(x)' => MayPost(x)
    BY <1>4 DEF Holding, MayPost
  <2> QED BY <1>2, <1>3, <1>4, <1>5, <2>1, <2>2, QuietPass
<1>7. CASE Removable
  <2> DEFINE s == [dir[d] EXCEPT !.manifest = NoManifest]
  <2>1. s \in Directories /\ s.files = dir[d].files /\ s.manifest = NoManifest
    BY DEF IInv, Typing, Directories, Manifests, NoManifest
  <2>2. dir' = [dir EXCEPT ![d] = s]
    BY <1>2, <1>7 DEF Cleanup
  <2> HIDE DEF s
  <2>3. dir'[d] = s
    BY <2>2 DEF IInv, Typing
  <2>4. dir[d].files = {}
    BY <1>2, <1>7 DEF Removable
  <2>5. KindTrue(d)'
    BY <1>3, <2>1, <2>3 DEF IInv, DiscsWhole, DiscWhole, KindTrue, NoManifest
  <2>6. Unknown(d)'
    BY <1>3, <2>1, <2>3 DEF IInv, DiscsWhole, DiscWhole, Unknown, Clean
  <2>7. Once(d)' => MovieWhole(d)'
    <3>1. SUFFICES ASSUME Once(d) PROVE MovieWhole(d)'
      BY <1>3 DEF Once
    <3>2. MovieWhole(d) /\ dir'[d].files = {} /\ dir'[d].manifest = NoManifest /\ Told(d)' = "none"
      BY <2>1, <2>3, <2>4, <3>1 DEF IInv, DiscsWhole, DiscWhole, Told, NoManifest
    <3>3. commands[d] # <<>> /\ event[d].state # "none" /\ sending[d] # "mkv"
      BY <2>4, <3>2 DEF MovieWhole, OnlyNamed
    <3> QED BY <1>3, <3>2, <3>3 DEF MovieWhole, Clean
  <2>8. DiscWhole(d)'
    BY <2>5, <2>6, <2>7 DEF DiscWhole
  <2>9. Typing' /\ PostsCounted' /\ ImportedProved' /\ DiscsWhole'
    BY <1>3, <1>4, <2>1, <2>2, <2>8, DirectoryMoves
  <2>10. SourceKept'
    BY <1>3, <2>1, <2>2, <2>3 DEF IInv, Typing, SourceKept
  <2> QED BY <1>5, <2>9, <2>10 DEF IInv
<1> QED BY <1>6, <1>7

-----------------------------------------------------------------------------
(* Steps of BatFire, the ARR application and the operator                    *)

\* A delivery is counted.
LEMMA SendsTyped ==
    ASSUME bounds \in Counters, NEW d \in Discs, bounds' = [bounds EXCEPT !.sends[d] = @ + 1]
    PROVE  /\ bounds' \in Counters /\ bounds'.resolves = bounds.resolves
           /\ bounds'.sends[d] = bounds.sends[d] + 1 /\ bounds.sends[d] \in Nat
           /\ \A x \in Discs : x # d => bounds'.sends[x] = bounds.sends[x]
BY DEF Counters

\* A decision is counted.
LEMMA ResolvesTyped ==
    ASSUME bounds \in Counters, NEW d \in Discs, bounds' = [bounds EXCEPT !.resolves[d] = @ + 1]
    PROVE  /\ bounds' \in Counters /\ bounds'.sends = bounds.sends
           /\ bounds'.resolves[d] = bounds.resolves[d] + 1 /\ bounds.resolves[d] \in Nat
           /\ \A x \in Discs : x # d => bounds'.resolves[x] = bounds.resolves[x]
BY DEF Counters

\* Another file is counted.
LEMMA OthersTyped ==
    ASSUME bounds \in Counters, bounds' = [bounds EXCEPT !.others = @ + 1]
    PROVE  bounds' \in Counters /\ bounds'.sends = bounds.sends /\ bounds'.resolves = bounds.resolves
BY DEF Counters

\* What the pass works on has an event, and the operator leaves it alone.
LEMMA WorkedOn ==
    ASSUME IInv, D \in Discs, pass.pc \in {"rewrite", "path", "submit", "preview", "post"}
    PROVE  event[D].state \in Active /\ MayPost(D)
BY NobodyIsNoDisc DEF IInv, CopyTrue, Copied, Decided, MayPost, Holding, At, Active, D

\* The MKV is delivered, for the first time or again.
LEMMA DeliverKeeps ==
    ASSUME IInv, NEW d \in Discs, Deliver(d)
    PROVE  IInv'
<1>1. UNCHANGED <<kind, event, quarantine, outbox, library, commands, operator, pass>>
  BY DEF Deliver
<1>2. /\ bounds' \in Counters /\ bounds'.resolves = bounds.resolves
      /\ bounds'.sends[d] = bounds.sends[d] + 1 /\ bounds.sends[d] \in Nat
      /\ \A x \in Discs : x # d => bounds'.sends[x] = bounds.sends[x]
  BY SendsTyped DEF IInv, Typing, Deliver
<1> DEFINE s == [dir[d] EXCEPT !.files = @ \cup {"feature"}]
<1>3. s \in Directories /\ s.files = dir[d].files \cup {"feature"} /\ s.manifest = dir[d].manifest
  <2>1. dir[d] \in Directories
    BY DEF IInv, Typing
  <2> QED BY <2>1 DEF Directories, Names
<1>4. dir' = [dir EXCEPT ![d] = s]
  BY DEF Deliver
<1> HIDE DEF s
<1>5. dir'[d] = s /\ dir' \in [Discs -> Directories] /\ \A x \in Discs : x # d => dir'[x] = dir[x]
  BY <1>3, <1>4 DEF IInv, Typing
<1>6. /\ sending' \in [Discs -> {"idle", "mkv"}] /\ sending'[d] = "mkv"
      /\ \A x \in Discs : x # d => sending'[x] = sending[x]
  BY DEF IInv, Typing, Deliver
<1>7. Typing'
  BY <1>1, <1>2, <1>5, <1>6 DEF IInv, Typing
<1>8. PassWhole' /\ CopyTrue' /\ PostsCounted' /\ ImportedProved'
  BY <1>1, <1>2 DEF IInv, PassWhole, CopyTrue, Copied, Decided, PostsCounted, MayPost, Holding, Posts, ImportedProved, Imported, At, Row, D
<1>9. SourceKept' /\ DiscoverPublished'
  <2>1. SourceKept'
    BY <1>1, <1>2, <1>3, <1>5 DEF IInv, SourceKept
  <2>2. \A x \in Discs : dir'[x].manifest = dir[x].manifest
    BY <1>3, <1>5
  <2>3. pass.todo \subseteq Discs
    BY DEF IInv, Typing, Passes
  <2> QED BY <1>1, <2>1, <2>2, <2>3 DEF IInv, DiscoverPublished
<1>10. KindTrue(d) /\ Unknown(d)
  BY DEF IInv, DiscsWhole, DiscWhole
<1>11. Once(d)' => bounds.sends[d] = 0
  BY <1>2 DEF Once
<1>12. DiscWhole(d)'
  <2>1. KindTrue(d)'
    BY <1>1, <1>3, <1>5, <1>10 DEF KindTrue, Told
  <2>2. Unknown(d)'
    BY <1>2 DEF Unknown
  <2>3. Once(d)' => MovieWhole(d)'
    BY <1>1, <1>3, <1>5, <1>6, <1>10, <1>11 DEF Unknown, MovieWhole, Told, OnlyNamed, Clean, NoManifest
  <2> QED BY <2>1, <2>2, <2>3 DEF DiscWhole
<1>13. DiscsWhole'
  <2>1. \A x \in Discs : x # d => SameDisc(x)
    BY <1>1, <1>2, <1>5, <1>6 DEF SameDisc
  <2> QED BY <1>12, <2>1, OneDiscChanges DEF IInv
<1>14. MovieRenamed'
  <2>1. SUFFICES ASSUME D = d, Once(d)', pass.pc \in {"rewrite", "path", "submit", "preview", "post"}
                 PROVE  FALSE
    BY <1>1, <1>2, <1>5, <2>1 DEF IInv, MovieRenamed, Once, OnlyNamed, Told, D
  <2>2. event[d].state \in Active
    BY <2>1, WorkedOn
  <2> QED BY <1>10, <1>11, <2>1, <2>2 DEF Unknown, Active
<1> QED BY <1>7, <1>8, <1>9, <1>13, <1>14 DEF IInv

\* Its manifest is published.
LEMMA PublishManifestKeeps ==
    ASSUME IInv, NEW d \in Discs, PublishManifest(d)
    PROVE  IInv'
<1>1. UNCHANGED <<kind, event, quarantine, outbox, library, commands, operator, pass, bounds>>
  BY DEF PublishManifest
<1> DEFINE s == [dir[d] EXCEPT !.manifest = [file |-> "feature", kind |-> kind[d]]]
<1>3. /\ s \in Directories /\ s.files = dir[d].files /\ s.manifest # NoManifest
      /\ s.manifest.file = "feature" /\ s.manifest.kind = kind[d]
  <2>1. dir[d] \in Directories /\ kind[d] \in Kinds \cup {"none"}
    BY DEF IInv, Typing
  <2> QED BY <2>1 DEF Directories, Manifests, Names, NoManifest
<1>4. dir' = [dir EXCEPT ![d] = s] /\ sending[d] = "mkv"
  BY DEF PublishManifest
<1> HIDE DEF s
<1>5. dir'[d] = s /\ dir' \in [Discs -> Directories] /\ \A x \in Discs : x # d => dir'[x] = dir[x]
  BY <1>3, <1>4 DEF IInv, Typing
<1>6. /\ sending' \in [Discs -> {"idle", "mkv"}] /\ sending'[d] = "idle"
      /\ \A x \in Discs : x # d => sending'[x] = sending[x]
  BY DEF IInv, Typing, PublishManifest
<1>7. Typing'
  BY <1>1, <1>5, <1>6 DEF IInv, Typing
<1>8. PassWhole' /\ CopyTrue' /\ PostsCounted' /\ ImportedProved'
  BY <1>1 DEF IInv, PassWhole, CopyTrue, Copied, Decided, PostsCounted, MayPost, Holding, Posts, ImportedProved, Imported, At, Row, D
<1>9. SourceKept' /\ DiscoverPublished'
  <2>1. SourceKept'
    BY <1>1, <1>3, <1>5 DEF IInv, SourceKept
  <2>2. pass.todo \subseteq Discs
    BY DEF IInv, Typing, Passes
  <2> QED BY <1>1, <1>3, <1>5, <2>1, <2>2 DEF IInv, DiscoverPublished
<1>10. KindTrue(d) /\ Unknown(d) /\ (Once(d) => MovieWhole(d))
  BY DEF IInv, DiscsWhole, DiscWhole
<1>11. Once(d) => event[d].state = "none"
  BY <1>4, <1>10 DEF MovieWhole
<1>12. DiscWhole(d)'
  <2>1. KindTrue(d)'
    BY <1>1, <1>3, <1>5, <1>10 DEF KindTrue, Told, Names
  <2>2. Unknown(d)'
    BY <1>1, <1>4, <1>10 DEF Unknown
  <2>3. Once(d)' => MovieWhole(d)'
    BY <1>1, <1>3, <1>5, <1>6, <1>10, <1>11 DEF Once, MovieWhole, Told, OnlyNamed, Clean
  <2> QED BY <2>1, <2>2, <2>3 DEF DiscWhole
<1>13. DiscsWhole'
  <2>1. \A x \in Discs : x # d => SameDisc(x)
    BY <1>1, <1>5, <1>6 DEF SameDisc
  <2> QED BY <1>12, <2>1, OneDiscChanges DEF IInv
<1>14. MovieRenamed'
  <2>1. SUFFICES ASSUME D \in Discs, Once(D), pass.pc \in {"rewrite", "path", "submit", "preview", "post"}
                 PROVE  D # d
    BY <1>1, <1>5, <2>1 DEF IInv, MovieRenamed, Once, OnlyNamed, Told, D
  <2>2. event[D].state # "none"
    BY <2>1, WorkedOn DEF Active
  <2> QED BY <1>11, <2>1, <2>2
<1> QED BY <1>7, <1>8, <1>9, <1>13, <1>14 DEF IInv

\* The command moves the MKV into the library: there is a command.
LEMMA ImportMovesKeeps ==
    ASSUME IInv, NEW d \in Discs, ImportMoves(d)
    PROVE  IInv'
<1>1. UNCHANGED <<kind, sending, event, quarantine, outbox, commands, operator, pass, bounds>>
  BY DEF ImportMoves
<1>2. commands[d] # <<>>
  BY DEF ImportMoves, Queued
<1> DEFINE s == [dir[d] EXCEPT !.files = @ \ {"named"}]
<1>3. s \in Directories /\ s.manifest = dir[d].manifest
  <2>1. dir[d] \in Directories
    BY DEF IInv, Typing
  <2> QED BY <2>1 DEF Directories
<1>4. dir' = [dir EXCEPT ![d] = s]
  BY DEF ImportMoves
<1> HIDE DEF s
<1>5. dir'[d] = s /\ dir' \in [Discs -> Directories] /\ \A x \in Discs : x # d => dir'[x] = dir[x]
  BY <1>3, <1>4 DEF IInv, Typing
<1>6. /\ library' \in [Discs -> {"none", "disc", "other"}] /\ library'[d] = "disc"
      /\ \A x \in Discs : x # d => library'[x] = library[x]
  BY DEF IInv, Typing, ImportMoves
<1>7. Typing'
  BY <1>1, <1>5, <1>6 DEF IInv, Typing
<1>8. PassWhole' /\ CopyTrue' /\ PostsCounted'
  BY <1>1 DEF IInv, PassWhole, CopyTrue, Copied, Decided, PostsCounted, MayPost, Holding, Posts, At, Row, D
<1>9. ImportedProved' /\ SourceKept'
  BY <1>1, <1>5, <1>6 DEF IInv, ImportedProved, Imported, SourceKept, D
<1>10. DiscoverPublished'
  <2>1. \A x \in Discs : dir'[x].manifest = dir[x].manifest
    BY <1>3, <1>5
  <2>2. pass.todo \subseteq Discs
    BY DEF IInv, Typing, Passes
  <2> QED BY <1>1, <2>1, <2>2 DEF IInv, DiscoverPublished
<1>11. DiscWhole(d)'
  <2>1. KindTrue(d) /\ Unknown(d) /\ (Once(d) => MovieWhole(d))
    BY DEF IInv, DiscsWhole, DiscWhole
  <2>2. KindTrue(d)'
    BY <1>1, <1>3, <1>5, <2>1 DEF KindTrue, Told
  <2>3. Unknown(d)'
    BY <1>1, <1>2, <2>1 DEF Unknown
  <2>4. Once(d)' => MovieWhole(d)'
    BY <1>1, <1>2, <1>3, <1>5, <2>1 DEF Once, MovieWhole, Told, OnlyNamed, Clean
  <2> QED BY <2>2, <2>3, <2>4 DEF DiscWhole
<1>12. DiscsWhole'
  <2>1. \A x \in Discs : x # d => SameDisc(x)
    BY <1>1, <1>5 DEF SameDisc
  <2> QED BY <1>11, <2>1, OneDiscChanges DEF IInv
<1>13. MovieRenamed'
  <2>1. SUFFICES ASSUME D \in Discs, Once(D), pass.pc \in {"rewrite", "path", "submit", "preview", "post"}
                 PROVE  D # d
    BY <1>1, <1>5, <2>1 DEF IInv, MovieRenamed, Once, OnlyNamed, Told, D
  <2>2. commands[D] = <<>>
    BY <2>1, WorkedOn, NoCommands DEF Once
  <2> QED BY <1>2, <2>2
<1> QED BY <1>7, <1>8, <1>9, <1>10, <1>12, <1>13 DEF IInv

\* A command ends: there are as many as before.
LEMMA CommandEndsKeeps ==
    ASSUME IInv, NEW d \in Discs, CommandEnds(d)
    PROVE  IInv'
<1>1. UNCHANGED <<kind, dir, sending, event, quarantine, outbox, library, operator, pass, bounds>>
  BY DEF CommandEnds
<1>2. PICK n \in Queued(d), status \in {"completed", "failed"} : commands' = [commands EXCEPT ![d][n] = status]
  BY DEF CommandEnds
<1>3. /\ commands' \in [Discs -> Seq({"queued", "completed", "failed"})]
      /\ Len(commands'[d]) = Len(commands[d]) /\ Len(commands[d]) # 0
      /\ \A x \in Discs : x # d => commands'[x] = commands[x]
  <2>1. commands \in [Discs -> Seq({"queued", "completed", "failed"})] /\ n \in DOMAIN commands[d]
    BY DEF IInv, Typing, Queued
  <2>2. /\ [commands[d] EXCEPT ![n] = status] \in Seq({"queued", "completed", "failed"})
        /\ Len([commands[d] EXCEPT ![n] = status]) = Len(commands[d]) /\ Len(commands[d]) # 0
    BY <2>1
  <2> QED BY <1>2, <2>1, <2>2
<1>4. \A x \in Discs : Posts(x)' = Posts(x) /\ (commands'[x] = <<>> <=> commands[x] = <<>>)
  BY <1>3 DEF Posts
<1>5. Typing'
  BY <1>1, <1>3 DEF IInv, Typing
<1>6. PassWhole' /\ CopyTrue' /\ ImportedProved' /\ SourceKept' /\ DiscoverPublished' /\ MovieRenamed'
  BY <1>1 DEF IInv, PassWhole, CopyTrue, Copied, Decided, ImportedProved, Imported, SourceKept, DiscoverPublished, MovieRenamed,
     Once, OnlyNamed, Told, At, Row, D
<1>7. PostsCounted'
  BY <1>1, <1>4 DEF IInv, PostsCounted, MayPost, Holding, D
<1>8. DiscWhole(d)'
  BY <1>1, <1>4 DEF IInv, DiscsWhole, DiscWhole, KindTrue, Unknown, Once, MovieWhole, Told, OnlyNamed, Clean
<1>9. DiscsWhole'
  <2>1. \A x \in Discs : x # d => SameDisc(x)
    BY <1>1, <1>3 DEF SameDisc
  <2> QED BY <1>8, <2>1, OneDiscChanges DEF IInv
<1> QED BY <1>5, <1>6, <1>7, <1>9 DEF IInv

\* The identity gets another file: it had none.
LEMMA OtherFileKeeps ==
    ASSUME IInv, NEW d \in Discs, OtherFile(d)
    PROVE  IInv'
<1>1. UNCHANGED <<kind, dir, sending, event, quarantine, outbox, commands, operator, pass>>
  BY DEF OtherFile
<1>2. bounds' \in Counters /\ bounds'.sends = bounds.sends /\ bounds'.resolves = bounds.resolves
  BY OthersTyped DEF IInv, Typing, OtherFile
<1>3. /\ library' \in [Discs -> {"none", "disc", "other"}] /\ library[d] = "none"
      /\ \A x \in Discs : x # d => library'[x] = library[x]
  BY DEF IInv, Typing, OtherFile
<1>4. Typing'
  BY <1>1, <1>2, <1>3 DEF IInv, Typing
<1>5. PassWhole' /\ CopyTrue' /\ PostsCounted' /\ DiscoverPublished' /\ MovieRenamed'
  BY <1>1, <1>2 DEF IInv, PassWhole, CopyTrue, Copied, Decided, PostsCounted, MayPost, Holding, Posts, DiscoverPublished, MovieRenamed,
     Once, OnlyNamed, Told, At, Row, D
<1>6. ImportedProved' /\ SourceKept'
  BY <1>1, <1>2, <1>3 DEF IInv, ImportedProved, Imported, SourceKept, D
<1>7. DiscsWhole'
  BY <1>1, <1>2, DiscsUnchanged DEF IInv, SameDiscs, SameDisc
<1> QED BY <1>4, <1>5, <1>6, <1>7 DEF IInv

\* The operator decides, in the manifest first: if a pass works on the event, the
\* event is validated.
LEMMA OperatorWritesKeeps ==
    ASSUME IInv, NEW d \in Discs, NEW decision \in {"movie", "nonstandard"}, OperatorWrites(d, decision)
    PROVE  IInv'
<1>1. UNCHANGED <<kind, sending, event, quarantine, outbox, library, commands, pass>>
  BY DEF OperatorWrites
<1>2. /\ bounds' \in Counters /\ bounds'.sends = bounds.sends
      /\ bounds'.resolves[d] = bounds.resolves[d] + 1 /\ bounds.resolves[d] \in Nat
      /\ \A x \in Discs : x # d => bounds'.resolves[x] = bounds.resolves[x]
  BY ResolvesTyped DEF IInv, Typing, OperatorWrites
<1>3. /\ event[d].state \in {"manual_review", "failed", "validated"} /\ operator[d] = "idle"
      /\ dir[d].manifest.kind \in {"movie", "unknown"}
  BY DEF OperatorWrites, Operable
<1> DEFINE s == [dir[d] EXCEPT !.manifest.kind = IF decision = "movie" THEN "movie" ELSE "invalid"]
<1>4. /\ s \in Directories /\ s.files = dir[d].files /\ s.manifest.file = dir[d].manifest.file
      /\ s.manifest.kind \in {"movie", "invalid"} /\ s.manifest # NoManifest
  <2>1. dir[d] \in Directories
    BY DEF IInv, Typing
  <2> QED BY <2>1 DEF Directories, Manifests, NoManifest
<1>5. dir' = [dir EXCEPT ![d] = s]
  BY DEF OperatorWrites
<1> HIDE DEF s
<1>6. dir'[d] = s /\ dir' \in [Discs -> Directories] /\ \A x \in Discs : x # d => dir'[x] = dir[x]
  BY <1>4, <1>5 DEF IInv, Typing
<1>7. /\ operator' \in [Discs -> {"idle", "movie", "nonstandard"}]
      /\ \A x \in Discs : x # d => operator'[x] = operator[x]
  BY DEF IInv, Typing, OperatorWrites
<1>8. Typing'
  BY <1>1, <1>2, <1>6, <1>7 DEF IInv, Typing
<1>9. PassWhole' /\ ImportedProved'
  BY <1>1 DEF IInv, PassWhole, ImportedProved, Imported, At, D
<1>10. CopyTrue'
  <2>1. \A x \in Discs : (Copied(x) => Copied(x)') /\ (Decided(x) => Decided(x)')
    BY <1>1, <1>2 DEF Copied, Decided
  <2>2. \A x \in Discs : operator'[x] # "idle" => event'[x].state \notin {"none", "received"}
    BY <1>1, <1>3, <1>7 DEF IInv, CopyTrue
  <2>3. pass.todo \subseteq Discs /\ (pass.pc # "none" => D \in Discs)
    BY CurrentDisc DEF IInv, Typing, Passes
  <2> QED BY <1>1, <2>1, <2>2, <2>3 DEF IInv, CopyTrue, At, Row, D
<1>11. PostsCounted'
  <2>1. /\ Posts(d) \in Nat /\ Posts(d) <= 1 + bounds.resolves[d]
        /\ MayPost(d) => Posts(d) <= bounds.resolves[d]
    BY DEF IInv, Typing, PostsCounted, Posts
  <2>2. \A x \in Discs : (MayPost(x)' <=> MayPost(x)) /\ Posts(x)' = Posts(x)
    BY <1>1 DEF MayPost, Holding, Posts, D
  <2>3. /\ Posts(d)' <= 1 + bounds'.resolves[d] /\ Posts(d)' <= bounds'.resolves[d]
        /\ MayPost(d)' => Posts(d)' < bounds'.resolves[d]
    BY <1>2, <2>1, <2>2
  <2>4. \A x \in Discs : x # d => operator'[x] = operator[x] /\ bounds'.resolves[x] = bounds.resolves[x]
    BY <1>2, <1>7
  <2>5. \A x \in Discs : /\ event'[x].command <= Posts(x)'
                         /\ event'[x].state = "importing" => event'[x].command # 0
                         /\ D' = x /\ pass'.pc = "posted" => Posts(x)' # 0
    BY <1>1, <2>2 DEF IInv, PostsCounted, D
  <2>6. \A x \in Discs : x # d =>
            /\ Posts(x)' <= 1 + bounds'.resolves[x]
            /\ MayPost(x)' \/ operator'[x] # "idle" => Posts(x)' <= bounds'.resolves[x]
            /\ MayPost(x)' /\ operator'[x] # "idle" => Posts(x)' < bounds'.resolves[x]
    BY <2>2, <2>4 DEF IInv, PostsCounted
  <2> QED BY <2>3, <2>5, <2>6 DEF PostsCounted
<1>12. SourceKept'
  BY <1>1, <1>2, <1>4, <1>6 DEF IInv, SourceKept
<1>13. DiscoverPublished'
  <2>1. pass.todo \subseteq Discs
    BY DEF IInv, Typing, Passes
  <2> QED BY <1>1, <1>4, <1>6, <2>1 DEF IInv, DiscoverPublished
<1>14. ~Once(d)'
  BY <1>2 DEF Once
<1>15. DiscWhole(d)'
  <2>1. KindTrue(d) /\ Unknown(d)
    BY DEF IInv, DiscsWhole, DiscWhole
  <2>2. KindTrue(d)'
    BY <1>1, <1>3, <1>4, <1>6, <2>1 DEF KindTrue, Told, NoManifest
  <2>3. Unknown(d)'
    BY <1>1, <1>2, <1>3, <2>1 DEF Unknown
  <2> QED BY <1>14, <2>2, <2>3 DEF DiscWhole
<1>16. DiscsWhole'
  <2>1. \A x \in Discs : x # d => SameDisc(x)
    BY <1>1, <1>2, <1>6, <1>7 DEF SameDisc
  <2> QED BY <1>15, <2>1, OneDiscChanges DEF IInv
<1>17. MovieRenamed'
  BY <1>1, <1>2, <1>6, <1>14 DEF IInv, MovieRenamed, Once, OnlyNamed, Told, D
<1> QED BY <1>8, <1>9, <1>10, <1>11, <1>12, <1>13, <1>16, <1>17 DEF IInv

\* Then in the event: it is taken up again, or stays in review.
LEMMA OperatorUpdatesKeeps ==
    ASSUME IInv, NEW d \in Discs, OperatorUpdates(d)
    PROVE  IInv'
<1>1. UNCHANGED <<kind, dir, sending, quarantine, outbox, library, commands, pass, bounds>> /\ operator[d] # "idle"
  BY DEF OperatorUpdates
<1>2. /\ operator' \in [Discs -> {"idle", "movie", "nonstandard"}] /\ operator'[d] = "idle"
      /\ \A x \in Discs : x # d => operator'[x] = operator[x]
  BY DEF IInv, Typing, OperatorUpdates
<1>3. KindTrue(d) /\ Unknown(d) /\ ~Once(d) /\ bounds.sends[d] # 0 /\ kind[d] \in {"movie", "unknown"}
  BY <1>1 DEF IInv, DiscsWhole, DiscWhole, KindTrue, Unknown, MovieWhole
<1>4. /\ Posts(d) <= 1 + bounds.resolves[d] /\ Posts(d) <= bounds.resolves[d]
      /\ MayPost(d) => bounds.resolves[d] # 0
  <2>1. /\ Posts(d) \in Nat /\ bounds.resolves[d] \in Nat /\ Posts(d) <= bounds.resolves[d]
        /\ MayPost(d) => Posts(d) < bounds.resolves[d]
    BY <1>1 DEF IInv, Typing, Counters, PostsCounted, Posts
  <2> QED BY <2>1
<1>5. /\ event' \in [Discs -> Events] /\ \A x \in Discs : x # d => event'[x] = event[x]
      /\ event'[d].command = event[d].command
      /\ \/ event'[d] = event[d] /\ ~Operable(d)
         \/ Operable(d) /\ event'[d].state = "validated" /\ event'[d].media = "movie"
         \/ Operable(d) /\ event'[d].state = "manual_review" /\ event'[d].media = "group"
  <2>1. event \in [Discs -> Events]
    BY DEF IInv, Typing
  <2>2. CASE ~Operable(d)
    BY <2>1, <2>2 DEF OperatorUpdates
  <2>3. CASE Operable(d)
    <3>1. event' = [event EXCEPT ![d].media = IF operator[d] = "movie" THEN "movie" ELSE "group",
                                 ![d].state = IF operator[d] = "movie" THEN "validated" ELSE "manual_review"]
      BY <2>3 DEF OperatorUpdates
    <3> QED BY <2>1, <2>3, <3>1 DEF Events, States, Medias, Active, Terminal
  <2> QED BY <2>2, <2>3
<1>6. Typing'
  BY <1>1, <1>2, <1>5 DEF IInv, Typing
<1>7. PassWhole' /\ SourceKept' /\ DiscoverPublished'
  BY <1>1 DEF IInv, PassWhole, SourceKept, DiscoverPublished, At, D
<1>8. CopyTrue'
  <2>1. Copied(d) \/ Decided(d) => Copied(d)' \/ Decided(d)'
    <3>1. CASE ~Operable(d)
      BY <1>1, <1>5, <3>1 DEF Copied, Decided
    <3>2. CASE Operable(d) /\ Copied(d)
      <4>1. event[d].state = "validated" /\ MayPost(d)
        BY <3>2 DEF Operable, Copied, Active, MayPost
      <4>2. pass.snap[d].state = "validated" /\ pass.snap[d].media \notin {"tv", "group"}
        BY <1>3, <3>2, <4>1 DEF Copied, KindTrue
      <4> QED BY <1>1, <1>3, <1>4, <1>5, <3>2, <4>1, <4>2 DEF Decided
    <3>3. CASE Operable(d) /\ Decided(d)
      BY <1>1, <1>5, <3>3 DEF Decided
    <3> QED BY <3>1, <3>2, <3>3
  <2>2. \A x \in Discs : Copied(x) \/ Decided(x) => Copied(x)' \/ Decided(x)'
    BY <1>1, <1>5, <2>1 DEF Copied, Decided
  <2>3. \A x \in Discs : event[x].state \in {"received", "identity_resolved", "import_submitting"} => event'[x] = event[x]
    BY <1>5 DEF Operable
  <2>4. \A x \in Discs : operator'[x] # "idle" => event'[x].state \notin {"none", "received"}
    BY <1>2, <1>5 DEF IInv, CopyTrue
  <2>5. pass.todo \subseteq Discs /\ (pass.pc # "none" => D \in Discs)
    BY CurrentDisc DEF IInv, Typing, Passes
  <2>6. /\ pass'.phase = "events" => \A x \in pass'.todo : Copied(x)' \/ Decided(x)'
        /\ pass'.pc \in {"final", "branch", "complete"} => Copied(D)' \/ Decided(D)'
    BY <1>1, <2>2, <2>5 DEF IInv, CopyTrue, Copied, Decided, D
  <2>7. /\ At("validate")' => event'[D].state = "received"
        /\ pass'.pc \in {"rewrite", "path"} => event'[D] = Row /\ event'[D].state = "identity_resolved"
        /\ At("submit")' => event'[D].state = "identity_resolved"
        /\ pass'.pc \in {"preview", "post", "posted"} => event'[D].state = "import_submitting"
    BY <1>1, <2>3, <2>5 DEF IInv, CopyTrue, At, D
  <2>8. At("attention")' => (Copied(D) \/ Decided(D))' \/ event'[D].state = "import_submitting"
    BY <1>1, <2>2, <2>3, <2>5 DEF IInv, CopyTrue, Copied, Decided, At, D
  <2> QED BY <1>1, <2>4, <2>6, <2>7, <2>8 DEF CopyTrue, Row, D
<1>9. PostsCounted'
  <2>1. \A x \in Discs : Posts(x)' = Posts(x) /\ (x # d => (MayPost(x)' <=> MayPost(x)))
    BY <1>1, <1>5 DEF MayPost, Holding, Posts, D
  <2>2. event'[d].state = "importing" => event[d].state = "importing"
    BY <1>5
  <2> QED BY <1>1, <1>2, <1>4, <1>5, <2>1, <2>2 DEF IInv, PostsCounted, D
<1>10. ImportedProved'
  <2>1. \A x \in Discs : event'[x].state = "completed" => event[x].state = "completed"
    BY <1>5
  <2> QED BY <1>1, <2>1 DEF IInv, ImportedProved, Imported, D
<1>11. DiscWhole(d)'
  <2>1. KindTrue(d)'
    BY <1>1, <1>2, <1>3, <1>5 DEF KindTrue, Told
  <2> QED BY <1>1, <1>3, <2>1 DEF DiscWhole, Unknown, Once
<1>12. DiscsWhole'
  <2>1. \A x \in Discs : x # d => SameDisc(x)
    BY <1>1, <1>2, <1>5 DEF SameDisc
  <2> QED BY <1>11, <2>1, OneDiscChanges DEF IInv
<1>13. MovieRenamed'
  BY <1>1, <1>3, <1>5 DEF IInv, MovieRenamed, Once, OnlyNamed, Told, D
<1> QED BY <1>6, <1>7, <1>8, <1>9, <1>10, <1>12, <1>13 DEF IInv

-----------------------------------------------------------------------------
(* The theorems                                                             *)

\* The invariant holds when nothing was delivered.
LEMMA InitInvariant == Init => IInv
<1> SUFFICES ASSUME Init PROVE IInv
  OBVIOUS
<1>1. \A d \in Discs : /\ dir[d].files = {} /\ dir[d].manifest = NoManifest /\ event[d] = NoEvent
                      /\ commands[d] = <<>> /\ operator[d] = "idle" /\ sending[d] = "idle" /\ Clean(d)
                      /\ bounds.sends[d] = 0 /\ bounds.resolves[d] = 0
  BY DEF Init, Clean
<1>2. pass.phase = "idle" /\ D = Nobody /\ pass.pc = "none" /\ pass.todo = {}
  BY DEF Init, Idle, D
<1>3. Typing
  <2>1. NoEvent \in Events /\ NoManifest \in Manifests
    BY DEF NoEvent, Events, States, Medias, NoManifest, Manifests
  <2>2. dir \in [Discs -> Directories]
    BY <2>1 DEF Init, Directories
  <2>3. pass \in Passes
    BY IdleTyped DEF Init
  <2>4. bounds \in Counters
    BY DEF Init, Counters
  <2>5. commands \in [Discs -> Seq({"queued", "completed", "failed"})]
    BY DEF Init
  <2> QED BY <2>1, <2>2, <2>3, <2>4, <2>5 DEF Init, Typing
<1>4. PassWhole /\ CopyTrue /\ DiscoverPublished /\ MovieRenamed
  BY <1>1, <1>2, NobodyIsNoDisc DEF PassWhole, CopyTrue, Copied, Decided, DiscoverPublished, MovieRenamed, At, D
<1>5. PostsCounted
  BY <1>1, <1>2, NobodyIsNoDisc DEF PostsCounted, Posts, NoEvent
<1>6. ImportedProved /\ SourceKept
  BY <1>1, <1>2 DEF Init, ImportedProved, Imported, SourceKept, NoEvent
<1>7. DiscsWhole
  BY <1>1 DEF DiscsWhole, DiscWhole, KindTrue, Unknown, Once, Told, NoManifest, NoEvent
<1> QED BY <1>3, <1>4, <1>5, <1>6, <1>7 DEF IInv

\* Every step keeps it.
LEMMA NextInvariant == IInv /\ [Next]_vars => IInv'
<1> SUFFICES ASSUME IInv, [Next]_vars PROVE IInv'
  OBVIOUS
<1>1. CASE Loops
  BY <1>1, DiscoverKeeps, ListEventsKeeps, EndPassKeeps, SkipKnownKeeps, RegisterKeeps, RefuseKeeps, BeginKeeps,
     AlarmLaterKeeps DEF Loops
<1>2. CASE Work
  BY <1>2, ValidateKeeps, AlarmKeeps, CheckFinalKeeps, CompleteKeeps, AnnounceKeeps, CleanupKeeps, SetAttentionKeeps,
     NoticeKeeps, ReviewsKeep, ResolveKeeps, RenameKeeps, RewriteManifestKeeps, UpdatePathKeeps, SubmitKeeps,
     PreviewKeeps, PostKeeps, SetImportingKeeps, PollKeeps DEF Work
<1>3. CASE Failures
  BY <1>3, OutageKeeps, UnreadableKeeps, CrashKeeps DEF Failures
<1>4. CASE Surroundings
  BY <1>4, DeliverKeeps, PublishManifestKeeps, ImportMovesKeeps, CommandEndsKeeps, OtherFileKeeps,
     OperatorWritesKeeps, OperatorUpdatesKeeps DEF Surroundings
<1>5. CASE UNCHANGED vars
  <2>1. UNCHANGED <<kind, dir, sending, event, quarantine, outbox, library, commands, operator, pass, bounds>>
    BY <1>5 DEF vars
  <2>2. Typing' /\ PassWhole' /\ CopyTrue' /\ PostsCounted'
    BY <2>1 DEF IInv, Typing, PassWhole, CopyTrue, Copied, Decided, PostsCounted, MayPost, Holding, Posts, At, Row, D
  <2>3. ImportedProved' /\ SourceKept' /\ DiscoverPublished' /\ MovieRenamed'
    BY <2>1 DEF IInv, ImportedProved, Imported, SourceKept, DiscoverPublished, MovieRenamed, Once, OnlyNamed, Told, D
  <2>4. DiscsWhole'
    BY <2>1, DiscsUnchanged DEF IInv, SameDiscs, SameDisc
  <2> QED BY <2>2, <2>3, <2>4 DEF IInv
<1> QED BY <1>1, <1>2, <1>3, <1>4, <1>5 DEF Next

\* The ARR application is asked for an import once for a delivery, and once
\* more for each decision of the operator: a crash on either side of the
\* request, or a lost answer, never repeats it.
THEOREM OnePostPerDecision == Spec => []OnePost
<1>1. IInv /\ [Next]_vars => IInv'
  BY NextInvariant
<1>2. IInv => OnePost
  BY DEF IInv, PostsCounted, Posts, OnePost
<1> QED BY <1>1, <1>2, InitInvariant, PTL DEF Spec

\* The events keep their types, a delivered MKV is in the intake or in the
\* library, what is announced as a new movie is the disc's own file, and no
\* movie is mistaken for an invalid delivery because Huey stopped between its
\* new name and its manifest.
THEOREM MediaStaySound == Spec => []MediaSound
<1>1. IInv /\ [Next]_vars => IInv'
  BY NextInvariant
<1>2. ASSUME IInv PROVE MediaSound
  <2>1. TypeOK
    <3> SUFFICES ASSUME NEW d \in Discs
                 PROVE  /\ event[d].state \in Active \cup Terminal \cup {"none"}
                        /\ event[d].media \in Kinds \cup {"movie", "group", "none"}
                        /\ event[d].path \in Names \cup {"directory", "none"}
                        /\ event[d].command \in 0..Len(commands[d])
                        /\ event[d].state = "importing" => event[d].command # 0
                        /\ dir[d].files \subseteq Names /\ dir[d].manifest.file \in Names \cup {"none"}
                        /\ library[d] \in {"none", "disc", "other"}
      BY DEF TypeOK
    <3>1. event[d] \in Events /\ dir[d] \in Directories /\ library[d] \in {"none", "disc", "other"}
      BY <1>2 DEF IInv, Typing
    <3>2. event[d].command \in 0..Len(commands[d]) /\ (event[d].state = "importing" => event[d].command # 0)
      BY <1>2, <3>1 DEF IInv, Typing, PostsCounted, Posts, Events
    <3> QED BY <3>1, <3>2 DEF Events, Directories, Manifests, States, Medias
  <2>2. SourceKept
    BY <1>2 DEF IInv
  <2>3. CompletedProved
    BY <1>2 DEF IInv, CompletedProved, ImportedProved, Imported, DiscsWhole, DiscWhole, KindTrue
  <2>4. MoviesRecognized
    BY <1>2 DEF IInv, MoviesRecognized, DiscsWhole, DiscWhole, Once, MovieWhole, Clean
  <2> QED BY <2>1, <2>2, <2>3, <2>4 DEF MediaSound
<1> QED BY <1>1, <1>2, InitInvariant, PTL DEF Spec

\* An event that has ended keeps its state, unless the pass that changes it has
\* read it before the operator's decision.
Ended(d) ==
    /\ event[d].state \in Terminal /\ operator[d] = "idle" /\ ~Overruled(d)
           => event'[d].state = event[d].state
    /\ event[d].state = "completed" => event'[d].state = "completed"

\* The pass changes only the event it works on, which has not ended.
LEMMA TransitionKeepsEnded ==
    ASSUME IInv, NEW e, Transition(D, e), NEW d \in Discs,
           event[D].state \notin Terminal \/ (Overruled(D) /\ event[D].state # "completed")
    PROVE  Ended(d)
<1>1. event[D].state # "completed"
  BY DEF Terminal
<1>2. event' = [event EXCEPT ![D] = e]
  BY <1>1 DEF Transition
<1>3. d # D => event'[d] = event[d]
  BY <1>2 DEF IInv, Typing
<1> QED BY <1>1, <1>3 DEF Ended

\* No step changes an event that has ended, unless the operator decides, or has
\* decided while a pass worked on it.
LEMMA StepKeepsEnded ==
    ASSUME IInv, [Next]_vars, NEW d \in Discs
    PROVE  Ended(d)
<1>1. CASE UNCHANGED event
  BY <1>1 DEF Ended
<1>2. CASE Validate \/ Complete \/ SetAttention \/ Submit \/ UpdatePath \/ Resolve \/ SetImporting
  <2>1. \/ event[D].state \in Active
        \/ pass.phase = "events" /\ Decided(D)
    BY <1>2 DEF IInv, PassWhole, CopyTrue, Copied, Validate, Complete, SetAttention, Submit, UpdatePath, Resolve,
       SetImporting, At, Active, D
  <2>2. Decided(D) => event[D].state \in Active \/ (event[D].state = "manual_review" /\ pass.snap[D].media # event[D].media)
    BY DEF Decided, Active
  <2>3. event[D].state \notin Terminal \/ (Overruled(D) /\ event[D].state # "completed")
    BY <2>1, <2>2 DEF Overruled, Active, Terminal
  <2>4. UNCHANGED event \/ \E e : Transition(D, e)
    BY <1>2 DEF Validate, Complete, SetAttention, Submit, UpdatePath, Resolve, SetImporting
  <2> QED BY <1>1, <2>3, <2>4, TransitionKeepsEnded
<1>3. ASSUME NEW x \in Discs, Register(x), event' # event
      PROVE  Ended(d)
  <2>1. event[x].state = "none" /\ \A y \in Discs : y # x => event'[y] = event[y]
    BY <1>3 DEF IInv, Typing, Register
  <2> QED BY <2>1 DEF Ended, Terminal
<1>4. ASSUME NEW x \in Discs, OperatorUpdates(x), event' # event
      PROVE  Ended(d)
  <2>1. operator[x] # "idle" /\ event[x].state # "completed" /\ \A y \in Discs : y # x => event'[y] = event[y]
    BY <1>4 DEF IInv, Typing, OperatorUpdates, Operable
  <2> QED BY <2>1 DEF Ended
<1> QED BY <1>1, <1>2, <1>3, <1>4 DEF Next, Loops, Work, Failures, Surroundings, vars, Discover, ListEvents, EndPass,
     SkipKnown, Refuse, Begin, AlarmLater, Alarm, CheckFinal, Announce, Cleanup, Notice, Classify, Rename, Untrusted,
     RewriteManifest, Preview, Post, Uncertain, Poll, Outage, Unreadable, Crash, Deliver, PublishManifest,
     ImportMoves, CommandEnds, OtherFile, OperatorWrites

\* Neither a restart, nor another delivery, nor a pass takes an event back from
\* review or failure, except the pass that has read the event as validated before
\* the operator decided on it; and nothing takes one back from completion.
THEOREM EndedStaysEnded == Spec => TerminalStays
<1>1. IInv /\ [Next]_vars => IInv'
  BY NextInvariant
<1>2. IInv /\ [Next]_vars =>
        [\A d \in Discs :
            /\ event[d].state \in Terminal /\ operator[d] = "idle" /\ ~Overruled(d)
                   => event'[d].state = event[d].state
            /\ event[d].state = "completed" => event'[d].state = "completed"]_vars
  BY StepKeepsEnded DEF Ended
<1> QED BY <1>1, <1>2, InitInvariant, PTL DEF Spec, TerminalStays
=============================================================================
