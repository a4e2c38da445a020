--------------------------- MODULE PhysicalMedia ---------------------------
(* The intake of DVD and Blu-ray rips (src/scripts/huey/physical_media.py):  *)
(* BatFire publishes a directory with an MKV and, last, its manifest; Huey's *)
(* worker registers a trusted event, gives the MKV its name, has Radarr or   *)
(* Sonarr move it into the library and announces the result.  Directory,     *)
(* manifest, event, ARR command and notice change in separate steps, and     *)
(* Huey may stop between any two of them.                                    *)
EXTENDS Naturals, Sequences, FiniteSets

CONSTANTS Discs,        \* deliveries, each one MKV (or group) with its SHA-256
          Nobody,
          Kinds,        \* what the deliveries of the run may be
          Scenes        \* bounds: the discs that are delivered, and how often
                        \* each thing happens

ASSUME NobodyIsNoDisc == Nobody \notin Discs

VARIABLES kind,        \* what is on the disc
          known,       \* whether the ARR application knows its exact identity
          dir,         \* the delivery's directory: its MKVs and what its manifest says
          sending,     \* the delivery script, between the MKV and the manifest
          event,       \* trusted_library_events, by the MKV's SHA-256
          quarantine,  \* the same table, by the hash of a refused manifest
          outbox,      \* notices staged for an event
          library,     \* what the ARR application has for the identity
          commands,    \* the ARR application's import commands for the delivery
          operator,    \* physical_media_admin, between the manifest and the event
          pass,        \* Huey's worker
          scene,       \* the bounds of the behaviour, and what has been used of them
          bounds
vars == <<kind, known, dir, sending, event, quarantine, outbox, library, commands, operator, pass, scene, bounds>>
outside == <<kind, known, sending, library, operator, scene, bounds>>

Names == {"feature", "named"}
NoManifest == [file |-> "none", kind |-> "none"]
NoEvent == [state |-> "none", media |-> "none", path |-> "none", entity |-> FALSE, command |-> 0]
Idle == [phase |-> "idle", todo |-> {}, cur |-> Nobody, pc |-> "none", state |-> "none",
         snap |-> [d \in Discs |-> NoEvent], notice |-> "none"]

D == pass.cur
Row == pass.snap[D]                \* the event as the pass has read it
At(pc) == pass.cur # Nobody /\ pass.pc = pc
Pending(phase, d) == pass.phase = phase /\ D = Nobody /\ d \in pass.todo
Goto(pc) == pass' = [pass EXCEPT !.pc = pc]
Done == pass' = [pass EXCEPT !.cur = Nobody, !.pc = "none", !.state = "none", !.notice = "none"]
Take(d, pc) == pass' = [pass EXCEPT !.todo = @ \ {d}, !.cur = d, !.pc = pc]
Skip(d) == pass' = [pass EXCEPT !.todo = @ \ {d}]

\* Mutant: an event that was not validated before the restart is forgotten.
ActiveValidated == {"validated", "identity_resolved", "import_submitting", "importing"}

\* Mutant: a failed event is taken up again.
ActiveFailed == {"received", "validated", "identity_resolved", "import_submitting", "importing", "failed"}

Active == {"received", "validated", "identity_resolved", "import_submitting", "importing"}
Terminal == {"completed", "manual_review", "failed"}

Video(media) == media \in {"movie", "tv"}

\* transition_trusted_library_event: a completed event is never changed.
Transition(d, e) == event' = IF event[d].state = "completed" THEN event ELSE [event EXCEPT ![d] = e]

-----------------------------------------------------------------------------
(* Discovery: every manifest of the intake                                 *)

Published == {d \in Discs : dir[d].manifest # NoManifest}

Discover ==
    /\ pass.phase = "idle"
    /\ pass' = [Idle EXCEPT !.phase = "discover", !.todo = Published]
    /\ UNCHANGED <<outside, dir, event, quarantine, outbox, commands>>

\* A movie's manifest names its one MKV; an unidentified disc is read alike.
SourceOf(m) == IF m.kind \in {"movie", "unknown", "invalid"} THEN m.file ELSE "none"

\* Mutant: only the MKV that is still there is recognised.
KnownWhileThere(d) == event[d].path = SourceOf(dir[d].manifest) /\ event[d].path \in dir[d].files

\* The manifest names the MKV of an event the worker already owns.
Known(d) == event[d].state # "none" /\ event[d].path = SourceOf(dir[d].manifest)

\* The checks of a single movie, an unidentified movie and a group of MKVs.
LoadsMovie(m, files) == m.kind = "movie" /\ files = {m.file}
LoadsUnknown(m, files) == m.kind = "unknown" /\ m.file \in files
LoadsGroup(m, files) == m.kind \in {"tv", "group"} /\ m.file \in files
Loads(m, files) == LoadsMovie(m, files) \/ LoadsUnknown(m, files) \/ LoadsGroup(m, files)

SkipKnown(d) ==
    /\ Pending("discover", d) /\ Known(d)
    /\ Skip(d)
    /\ UNCHANGED <<outside, dir, event, quarantine, outbox, commands>>

\* INSERT OR IGNORE by the SHA-256 of the MKV; a group's path is its directory.
Register(d) ==
    LET m == dir[d].manifest IN
    /\ Pending("discover", d) /\ ~Known(d) /\ Loads(m, dir[d].files)
    /\ IF event[d].state = "none"
       THEN /\ event' = [event EXCEPT ![d] = [NoEvent EXCEPT !.state = "received", !.media = m.kind,
                            !.path = IF m.kind = "movie" THEN m.file ELSE "directory"]]
            /\ Take(d, "validate")
       ELSE Skip(d) /\ UNCHANGED event
    /\ UNCHANGED <<outside, dir, quarantine, outbox, commands>>

Validate ==
    /\ At("validate")
    /\ Transition(D, [event[D] EXCEPT !.state = "validated"])
    /\ Done
    /\ UNCHANGED <<outside, dir, quarantine, outbox, commands>>

\* A refused manifest is registered under the hash of its own bytes.
Refuse(d) ==
    LET f == dir[d].manifest.file IN
    /\ Pending("discover", d) /\ ~Known(d) /\ ~Loads(dir[d].manifest, dir[d].files)
    /\ IF quarantine[d][f] = "none"
       THEN /\ quarantine' = [quarantine EXCEPT ![d][f] = "received"]
            /\ pass' = [pass EXCEPT !.todo = @ \ {d}, !.cur = d, !.pc = "alarm", !.notice = f]
       ELSE Skip(d) /\ UNCHANGED quarantine
    /\ UNCHANGED <<outside, dir, event, outbox, commands>>

Alarm ==
    /\ At("alarm")
    /\ quarantine' = [quarantine EXCEPT ![D][pass.notice] = "manual_review"]
    /\ outbox' = outbox \cup {<<D, pass.notice>>}
    /\ Done
    /\ UNCHANGED <<outside, dir, event, commands>>

\* A refused manifest whose notice a restart cut short: it has no identity.
AlarmLater(d, f) ==
    /\ pass.phase = "events" /\ D = Nobody /\ quarantine[d][f] = "received"
    /\ quarantine' = [quarantine EXCEPT ![d][f] = "manual_review"]
    /\ outbox' = outbox \cup {<<d, f>>}
    /\ UNCHANGED <<outside, dir, event, commands, pass>>

ListEvents ==
    /\ pass.phase = "discover" /\ D = Nobody /\ pass.todo = {}
    /\ pass' = [pass EXCEPT !.phase = "events", !.snap = event,
                            !.todo = {d \in Discs : event[d].state \in Active}]
    /\ UNCHANGED <<outside, dir, event, quarantine, outbox, commands>>

EndPass ==
    /\ pass.phase = "events" /\ D = Nobody /\ pass.todo = {}
    /\ \A d \in Discs, f \in Names : quarantine[d][f] # "received"
    /\ pass' = Idle
    /\ UNCHANGED <<outside, dir, event, quarantine, outbox, commands>>

-----------------------------------------------------------------------------
(* One event: first the final file, then one step of its state             *)

\* _attention: the state first, the notice in a transaction of its own.
Attention(state) == pass' = [pass EXCEPT !.pc = "attention", !.state = state]
Review == Attention("manual_review")

\* Mutant: whatever Radarr has for the movie is the delivery's.
AnyFile(s) == s.entity /\ Video(s.media) /\ library[D] # "none"

\* Radarr's file must have the MKV's size and SHA-256, Sonarr's must exist.
MovieFinal(s) == s.media = "movie" /\ s.entity /\ library[D] = "disc"
SeriesFinal(s) == s.media = "tv" /\ s.entity /\ library[D] # "none"
Final(s) == MovieFinal(s) \/ SeriesFinal(s)

\* Radarr's file is another one.
Differs(s) == s.media = "movie" /\ s.entity /\ library[D] = "other"

Begin(d) ==
    /\ Pending("events", d)
    /\ Take(d, "final")
    /\ UNCHANGED <<outside, dir, event, quarantine, outbox, commands>>

CheckFinal ==
    /\ At("final")
    /\ CASE Final(Row) -> pass' = [pass EXCEPT !.pc = "complete", !.state = "completed"]
         [] Differs(Row) -> Review
         [] OTHER -> Goto("branch")
    /\ UNCHANGED <<outside, dir, event, quarantine, outbox, commands>>

Complete ==
    /\ At("complete")
    /\ Transition(D, [event[D] EXCEPT !.state = "completed"])
    /\ Goto("announce")
    /\ UNCHANGED <<outside, dir, quarantine, outbox, commands>>

\* The notice, then the removal of a movie's empty directory, unless it is the
\* command that has just completed.
Announce ==
    /\ At("announce")
    /\ outbox' = outbox \cup {<<D, "imported">>}
    /\ IF pass.state = "completed" THEN Goto("cleanup") ELSE Done
    /\ UNCHANGED <<outside, dir, event, quarantine, commands>>

Removable == Row.path \in Names /\ dir[D].files = {} /\ SourceOf(dir[D].manifest) = Row.path

Cleanup ==
    /\ At("cleanup")
    /\ dir' = IF Removable THEN [dir EXCEPT ![D].manifest = NoManifest] ELSE dir
    /\ Done
    /\ UNCHANGED <<outside, event, quarantine, outbox, commands>>

SetAttention ==
    /\ At("attention")
    /\ Transition(D, [event[D] EXCEPT !.state = pass.state])
    /\ Goto("notice")
    /\ UNCHANGED <<outside, dir, quarantine, outbox, commands>>

Notice ==
    /\ At("notice")
    /\ outbox' = outbox \cup {<<D, "failed">>}
    /\ Done
    /\ UNCHANGED <<outside, dir, event, quarantine, commands>>

\* Ambiguous and nonstandard videos wait for a person.
Classify ==
    /\ At("branch") /\ ~Video(Row.media)
    /\ Review
    /\ UNCHANGED <<outside, dir, event, quarantine, outbox, commands>>

\* One exact movie, corroborated by the disc's duration, that has no file yet;
\* one exact series that has every episode of the manifest.
MovieIdentified == Row.media = "movie" /\ known[D] /\ library[D] = "none"
SeriesIdentified == Row.media = "tv" /\ known[D]

Resolve ==
    /\ At("branch") /\ Video(Row.media) /\ Row.state \in {"received", "validated"}
    /\ IF MovieIdentified \/ SeriesIdentified
       THEN Transition(D, [event[D] EXCEPT !.state = "identity_resolved", !.entity = TRUE]) /\ Done
       ELSE Review /\ UNCHANGED event
    /\ UNCHANGED <<outside, dir, quarantine, outbox, commands>>

\* The row's MKV if it is there, else the one that has its SHA-256; Sonarr's
\* MKV by either name.
MovieSource == IF Row.path \in dir[D].files THEN Row.path ELSE CHOOSE f \in Names : f # Row.path
SeriesSource == IF "feature" \in dir[D].files THEN "feature" ELSE "named"
Source == IF Row.media = "movie" THEN MovieSource ELSE SeriesSource

\* It is in the intake, and a movie's manifest names it.
Trusted ==
    /\ Source \in dir[D].files
    /\ Row.media = "movie" => Row.path \in Names /\ dir[D].manifest.file = Source

\* Mutant: the MKV is removed although nothing else has its content.
RenameAway ==
    /\ At("branch") /\ Video(Row.media) /\ Row.state = "identity_resolved" /\ Trusted
    /\ dir' = [dir EXCEPT ![D].files = @ \ {"feature"}]
    /\ Goto("rewrite")
    /\ UNCHANGED <<outside, event, quarantine, outbox, commands>>

\* A copy that already has the name is verified and replaces the source.
Rename ==
    /\ At("branch") /\ Video(Row.media) /\ Row.state = "identity_resolved" /\ Trusted
    /\ dir' = [dir EXCEPT ![D].files = (@ \ {Source}) \cup {"named"}]
    /\ Goto("rewrite")
    /\ UNCHANGED <<outside, event, quarantine, outbox, commands>>

Untrusted ==
    /\ At("branch") /\ Video(Row.media) /\ Row.state = "identity_resolved" /\ ~Trusted
    /\ Review
    /\ UNCHANGED <<outside, dir, event, quarantine, outbox, commands>>

RewriteManifest ==
    /\ At("rewrite")
    /\ dir' = [dir EXCEPT ![D].manifest.file = "named"]
    /\ Goto("path")
    /\ UNCHANGED <<outside, event, quarantine, outbox, commands>>

\* A group's path stays its directory.
UpdatePath ==
    /\ At("path")
    /\ Transition(D, IF Row.media = "movie" THEN [event[D] EXCEPT !.path = "named"] ELSE event[D])
    /\ Goto("submit")
    /\ UNCHANGED <<outside, dir, quarantine, outbox, commands>>

\* Mutant: the boundary is not written down before it is crossed.
SubmitUnmarked ==
    /\ At("submit")
    /\ Goto("preview")
    /\ UNCHANGED <<outside, dir, event, quarantine, outbox, commands>>

\* The boundary of the import request, durable before it is crossed.
Submit ==
    /\ At("submit")
    /\ Transition(D, [event[D] EXCEPT !.state = "import_submitting"])
    /\ Goto("preview")
    /\ UNCHANGED <<outside, dir, quarantine, outbox, commands>>

\* The preview must show the MKV under its identity, without a rejection; for a
\* series, every MKV with one episode.
MoviePreviewed == Row.media = "movie" /\ "named" \in dir[D].files
SeriesPreviewed == Row.media = "tv" /\ "named" \in dir[D].files

Preview ==
    /\ At("preview")
    /\ \/ (MoviePreviewed \/ SeriesPreviewed) /\ Goto("post")
       \/ Review
    /\ UNCHANGED <<outside, dir, event, quarantine, outbox, commands>>

Post ==
    /\ At("post")
    /\ commands' = [commands EXCEPT ![D] = Append(@, "queued")]
    /\ Goto("posted")
    /\ UNCHANGED <<outside, dir, event, quarantine, outbox>>

\* Mutant: the command is not kept.
SetImportingUnknown ==
    /\ At("posted")
    /\ Transition(D, [event[D] EXCEPT !.state = "importing"])
    /\ Done
    /\ UNCHANGED <<outside, dir, quarantine, outbox, commands>>

SetImporting ==
    /\ At("posted")
    /\ Transition(D, [event[D] EXCEPT !.state = "importing", !.command = Len(commands[D])])
    /\ Done
    /\ UNCHANGED <<outside, dir, quarantine, outbox, commands>>

\* A restart across the boundary: nobody knows whether the import was requested.
Uncertain ==
    /\ At("branch") /\ Video(Row.media) /\ Row.state = "import_submitting"
    /\ Review
    /\ UNCHANGED <<outside, dir, event, quarantine, outbox, commands>>

\* A completed command is believed only with its final file.
Poll ==
    /\ At("branch") /\ Video(Row.media) /\ Row.state = "importing"
    /\ LET status == commands[D][Row.command] IN
       CASE status = "completed" /\ Final(Row) -> Goto("complete")
         [] status = "completed" /\ Differs(Row) -> Review
         [] status = "completed" /\ ~Final(Row) /\ ~Differs(Row) -> Attention("failed")
         [] status = "failed" -> Attention("failed")
         [] OTHER -> Done
    /\ UNCHANGED <<outside, dir, event, quarantine, outbox, commands>>

-----------------------------------------------------------------------------
(* Failures of Huey and of what it calls                                   *)

CallsArr ==
    \/ pass.pc = "final" /\ Row.entity
    \/ pass.pc = "branch" /\ Video(Row.media) /\ Row.state \in {"received", "validated", "importing"}
    \/ pass.pc \in {"preview", "post", "posted"}

\* A call fails or its answer is lost: the event is left as it is.
Outage ==
    /\ D # Nobody /\ pass.phase = "events" /\ CallsArr
    /\ bounds.outages < scene.outages /\ bounds' = [bounds EXCEPT !.outages = @ + 1]
    /\ Done
    /\ UNCHANGED <<scene, kind, known, sending, library, operator, dir, event, quarantine, outbox, commands>>

\* The final file cannot be read or verified.
Unreadable ==
    /\ At("final") /\ Row.media = "movie" /\ Row.entity /\ library[D] # "none"
    /\ bounds.outages < scene.outages /\ bounds' = [bounds EXCEPT !.outages = @ + 1]
    /\ Review
    /\ UNCHANGED <<scene, kind, known, sending, library, operator, dir, event, quarantine, outbox, commands>>

\* Huey stops, or an error outside the handlers ends the pass.
Crash ==
    /\ pass.phase # "idle"
    /\ bounds.crashes < scene.crashes /\ bounds' = [bounds EXCEPT !.crashes = @ + 1]
    /\ pass' = Idle
    /\ UNCHANGED <<scene, kind, known, sending, library, operator, dir, event, quarantine, outbox, commands>>

-----------------------------------------------------------------------------
(* BatFire, the ARR application and the operator                           *)

\* The delivery script renames the MKV it has transferred, the manifest last.
Deliver(d) ==
    /\ sending[d] = "idle"
    /\ d \in scene.discs /\ bounds.sends[d] <= scene.resends
    /\ dir' = [dir EXCEPT ![d].files = @ \cup {"feature"}]
    /\ sending' = [sending EXCEPT ![d] = "mkv"]
    /\ bounds' = [bounds EXCEPT !.sends[d] = @ + 1]
    /\ UNCHANGED <<scene, kind, known, event, quarantine, outbox, library, commands, operator, pass>>

PublishManifest(d) ==
    /\ sending[d] = "mkv"
    /\ dir' = [dir EXCEPT ![d].manifest = [file |-> "feature", kind |-> kind[d]]]
    /\ sending' = [sending EXCEPT ![d] = "idle"]
    /\ UNCHANGED <<scene, kind, known, event, quarantine, outbox, library, commands, operator, pass, bounds>>

Queued(d) == {n \in DOMAIN commands[d] : commands[d][n] = "queued"}

\* The command moves the MKV, and ends later.
ImportMoves(d) ==
    /\ Queued(d) # {} /\ "named" \in dir[d].files
    /\ dir' = [dir EXCEPT ![d].files = @ \ {"named"}]
    /\ library' = [library EXCEPT ![d] = "disc"]
    /\ UNCHANGED <<scene, kind, known, sending, event, quarantine, outbox, commands, operator, pass, bounds>>

\* With or without the file.
CommandEnds(d) ==
    /\ \E n \in Queued(d), status \in {"completed", "failed"} :
           /\ status = "failed" => library[d] # "disc"
           /\ commands' = [commands EXCEPT ![d][n] = status]
    /\ UNCHANGED <<scene, kind, known, dir, sending, event, quarantine, outbox, library, operator, pass, bounds>>

\* The identity is acquired by another way.
OtherFile(d) ==
    /\ library[d] = "none" /\ bounds.others < scene.others
    /\ library' = [library EXCEPT ![d] = "other"]
    /\ bounds' = [bounds EXCEPT !.others = @ + 1]
    /\ UNCHANGED <<scene, kind, known, dir, sending, event, quarantine, outbox, commands, operator, pass>>

\* What resolve-movie and mark-nonstandard change: a pass may be at work on an
\* event that is validated.
Operable(d) == event[d].state \in {"manual_review", "failed", "validated"}

\* First the manifest; the operator has waited for the commands to end.  A single
\* MKV is marked nonstandard without the list of files its new kind requires.
OperatorWrites(d, decision) ==
    /\ operator[d] = "idle" /\ bounds.resolves[d] < scene.resolves
    /\ Operable(d) /\ Queued(d) = {}
    /\ dir[d].manifest.kind \in {"movie", "unknown"}
    /\ dir' = [dir EXCEPT ![d].manifest.kind = IF decision = "movie" THEN "movie" ELSE "invalid"]
    /\ operator' = [operator EXCEPT ![d] = decision]
    /\ bounds' = [bounds EXCEPT !.resolves[d] = @ + 1]
    /\ UNCHANGED <<scene, kind, known, sending, event, quarantine, outbox, library, commands, pass>>

OperatorUpdates(d) ==
    /\ operator[d] # "idle"
    /\ event' = IF ~Operable(d) THEN event
                ELSE [event EXCEPT ![d].media = IF operator[d] = "movie" THEN "movie" ELSE "group",
                                   ![d].state = IF operator[d] = "movie" THEN "validated" ELSE "manual_review"]
    /\ known' = [known EXCEPT ![d] = @ \/ operator[d] = "movie"]
    /\ operator' = [operator EXCEPT ![d] = "idle"]
    /\ UNCHANGED <<scene, kind, dir, sending, quarantine, outbox, library, commands, pass, bounds>>

Init ==
    /\ scene \in Scenes
    /\ kind \in [Discs -> Kinds \cup {"none"}]
    /\ known \in [Discs -> BOOLEAN]
    /\ \A d \in Discs : IF d \in scene.discs THEN kind[d] # "none"
                       ELSE kind[d] = "none" /\ ~known[d]
    /\ dir = [d \in Discs |-> [files |-> {}, manifest |-> NoManifest]]
    /\ sending = [d \in Discs |-> "idle"]
    /\ event = [d \in Discs |-> NoEvent]
    /\ quarantine = [d \in Discs |-> [f \in Names |-> "none"]]
    /\ outbox = {}
    /\ library = [d \in Discs |-> "none"]
    /\ commands = [d \in Discs |-> <<>>]
    /\ operator = [d \in Discs |-> "idle"]
    /\ pass = Idle
    /\ bounds = [crashes |-> 0, outages |-> 0, others |-> 0,
                 sends |-> [d \in Discs |-> 0], resolves |-> [d \in Discs |-> 0]]

Loops ==
    \/ Discover \/ ListEvents \/ EndPass
    \/ \E d \in Discs :
           \/ SkipKnown(d) \/ Register(d) \/ Refuse(d) \/ Begin(d)
           \/ \E f \in Names : AlarmLater(d, f)
Work ==
    \/ Validate \/ Alarm \/ CheckFinal \/ Complete \/ Announce \/ Cleanup \/ SetAttention \/ Notice
    \/ Classify \/ Resolve \/ Rename \/ Untrusted \/ RewriteManifest \/ UpdatePath
    \/ Submit \/ Preview \/ Post \/ SetImporting \/ Uncertain \/ Poll
Failures == Outage \/ Unreadable \/ Crash
Surroundings ==
    \E d \in Discs :
        \/ Deliver(d) \/ PublishManifest(d) \/ ImportMoves(d) \/ CommandEnds(d) \/ OtherFile(d)
        \/ \E decision \in {"movie", "nonstandard"} : OperatorWrites(d, decision)
        \/ OperatorUpdates(d)
Next == Loops \/ Work \/ Failures \/ Surroundings
Spec == Init /\ [][Next]_vars

\* The worker's loop goes on after a restart, and an accepted command ends.
Fairness == WF_vars(Loops) /\ WF_vars(Work) /\ \A d \in Discs : WF_vars(CommandEnds(d))
FairSpec == Spec /\ Fairness

-----------------------------------------------------------------------------
(* Properties                                                              *)

TypeOK ==
    \A d \in Discs :
        /\ event[d].state \in Active \cup Terminal \cup {"none"}
        /\ event[d].media \in Kinds \cup {"movie", "group", "none"}
        /\ event[d].path \in Names \cup {"directory", "none"}
        /\ event[d].command \in 0..Len(commands[d])
        /\ event[d].state = "importing" => event[d].command # 0
        /\ dir[d].files \subseteq Names /\ dir[d].manifest.file \in Names \cup {"none"}
        /\ library[d] \in {"none", "disc", "other"}

\* An import is requested once, and once more for each decision of the operator
\* on the event, whatever answer is lost and wherever Huey stops
\* (docs/architecture.md 72-73, docs/recovery.md 488-493).
OnePost == \A d \in Discs : Len(commands[d]) <= 1 + bounds.resolves[d]

\* The delivered MKV is in the intake or in the library, under whatever name.
SourceKept ==
    \A d \in Discs : bounds.sends[d] > 0 => dir[d].files # {} \/ library[d] = "disc"

\* A movie is completed, and announced as a new library item, only when the
\* library has the file of its own disc.
CompletedProved ==
    \A d \in Discs :
        event[d].media = "movie" /\ (event[d].state = "completed" \/ <<d, "imported">> \in outbox)
            => library[d] = "disc"

\* A movie that was delivered once is never taken for a new, invalid delivery,
\* wherever Huey stops between the new name, the manifest, the event's path,
\* the move and the removal of the directory.
MoviesRecognized ==
    \A d \in Discs :
        kind[d] = "movie" /\ bounds.sends[d] = 1 /\ bounds.resolves[d] = 0 =>
            \A f \in Names : quarantine[d][f] = "none"

\* The pass works on the event as it was before the operator's decision.
Overruled(d) ==
    pass.phase = "events" /\ d \in pass.todo \cup {D} /\ pass.snap[d].media # event[d].media

\* What was reviewed, failed or completed stays so until the operator resolves
\* it (docs/recovery.md 492-493), unless the decision was made on a validated
\* event that a pass was working on: the pass's next transition does not see it.
\* What is completed stays so for ever.
TerminalStays ==
    [][\A d \in Discs :
          /\ event[d].state \in Terminal /\ operator[d] = "idle" /\ ~Overruled(d)
                => event'[d].state = event[d].state
          /\ event[d].state = "completed" => event'[d].state = "completed"]_vars

\* Every published delivery ends: imported, in review, failed or refused.
DeliveriesEnd ==
    \A d \in Discs :
        d \in Published ~> \/ event[d].state \in Terminal
                          \/ \E f \in Names : quarantine[d][f] = "manual_review"

\* The events are sound, and every delivery is where its event says.
MediaSound == TypeOK /\ SourceKept /\ CompletedProved /\ MoviesRecognized
=============================================================================
