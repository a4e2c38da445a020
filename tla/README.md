# A TLA+ development for wysearr

wysearr is a media-acquisition node: Huey takes requests from Discord and hands
them to acquisition services, BookBot imports what they download, an adapter
(ABBA) serves audiobooks, and scripts bootstrap, validate and rotate the whole.
This directory models the parts of it whose correctness rests on the order of
steps of several threads and processes over SQLite databases, qBittorrent, a file
system and Discord. It checks them with TLC, and proves with TLAPS what matters most
of the intake, the ebook cascade, the confirmations, the outbox, the audiobook adapter
and Huey's dispatch over it, BookBot's imports and the physical media.

## 1. Inventory of the system

| Component | State it keeps | Interacts with | Hard behaviour | What makes it correct | Module |
|---|---|---|---|---|---|
| Ebook cascade: `huey/database.py`, `schema.sql`, `orchestrator.py` | `requests`, `ebook_*` tables, `unavailable_retries`, 4 triggers | clients (HTTP), reconcilers and BookBot (same rows) | threads hold rows over HTTP calls; restarts; two indexes guard one fact | one submission; no fallback after the boundary; one owner per work and identifier; nothing stuck | `EbookCascade` |
| Ebook reconciliation: `huey.py` loops, `clients.py` | a row read before the remote call | the cascade's tables, Shelfarr, LazyLibrarian | answers applied to rows that moved on | terminal states come with proof | `EbookCascade` |
| Request intake: `orchestrator.py`, `database.py`, `redrive_selection.py` | `requests.target_key`, `canonical_request_id`, `delivery_aliases` | Discord, an operator's process | redelivered messages, twins, chains of aliases, restarts | one active request per target; aliases lead to owners | `RequestIntake` |
| Candidate confirmations: `database.py`, `orchestrator.py`, `huey.py` | `candidate_confirmations`, `candidate_confirmation_replies` | Discord, services | double replies, expiry, a restart around the POST | one acquisition per prompt, as chosen | `CandidateConfirmation` |
| Notification outbox: `notifications.py`, `huey.py`, `database.py` | `notification_deliveries`, `notified_at` | Discord | crash between send and mark; two passes | everything is told; silent retries are silent | `NotificationOutbox` |
| ABBA adapter: `docker/abba/app.py` | its journal | AudioBookBay, qBittorrent | lost answers, changing listings, kills | a torrent is added once and has one owner | `AbbaAdapter`, `AbbaOwnership` |
| Audiobook dispatch: `orchestrator.py`, `clients.py`, `huey.py`, `database.py` | `requests` | the adapter, BookBot | two ledgers that must agree | what the adapter holds Huey tracks | `AbbaDispatch` |
| Ledger repair at start-up: `app.py`, `database.py` | both ledgers, as older versions left them | - | elections on two axes | indexes can be built, nothing is dropped | `LedgerMigration` |
| BookBot imports: `bookbot_lib/` | its ledger, library, categories | qBittorrent, files, Huey's database | crash between copy, category and ledger | no payload lost, published twice or deleted unproved | `BookBotImport` |
| BookBot write-back: `bookbot_lib/huey.py` | none | Huey's database from another process | check, then unguarded update | completes only what is still owned | `EbookCascade`, `BookBotImport` |
| Physical media: `physical_media.py`, `physical_media_admin.py`, delivery script | `trusted_library_events`, the intake directory | Radarr, Sonarr, BatFire, an operator | lost POST response, stops between rename, manifest and row | one import per delivery, none lost | `PhysicalMedia` |
| Backend clients: `clients.py`, `services.py` | none | HTTP services | a response lost after the effect | uncertainty is never reported as failure | inside the above |
| ARR and direct handlers | none | Radarr, Sonarr, Lidarr | - | a dispatch is one of its results | results only |
| Matching, bencode | none | - | - | string and byte computations | not modelled |
| Password rotation: `rotate_qbittorrent_password.py` | its journal and lock, `.env` | qBittorrent, an operator | kills between any two files or calls, lost answers, the ban of wrong logins | the password is never lost; a later run ends what was begun | `PasswordRotation` |
| Key rotation: `rotate_prowlarr_key.py` | `.env` | Prowlarr and its `config.xml` | no lock, no journal, a queued command | one reset, and `.env` follows it | `KeyRotation` |
| Bootstrap, validation, backup, port forwarding, deployment | configuration files | every service | - | converge on the configuration, or report | not modelled |
| Louie, scoring survey | none | - | - | read-only views | not modelled |

`PROJECT.json` lists each with its status, and the hazards at the lines where
they bite, including those no property covers.

## 2. The modules

Each module has one action per transaction, remote call or file operation of the
code, and what a process may be killed between is two actions. `PROJECT.json`
("map") gives the lines of every definition. Definitions commented `Mutant:` are
wrong variants of the definition after them, used only to show that the
properties can fail.

Composition: `AbbaAdapter` implements `AbbaOwnership`, and `AbbaDispatch` runs
Huey over that contract instead of the adapter's detail, so what Huey relies on
is what the adapter was proved to promise. `EbookCascade` implements
`Acquisition`. Theorems are in modules of their own that extend the component's:
`EbookCascadeProofs`, `RequestIntakeProofs`, `CandidateConfirmationProofs`,
`NotificationOutboxProofs`, `AbbaAdapterProofs`, `AbbaDispatchProofs`,
`BookBotImportProofs`, `PhysicalMediaProofs`. The MC modules give model values,
scenes and symmetry. `MCAbba` and `MCRecoveries` hold several specifications side by
side: they share no variable, `part` says at the start which of them runs while the
others stand still, so each keeps exactly its own behaviours.

### `EbookCascade`, `Acquisition`

| Variable | In the code |
|---|---|
| `requests[r]` | `requests`: `status`, whether `external_id` is set, and whether the start-up recovery event was recorded |
| `cascades[r]` | `ebook_cascades`: `state`, `current_ordinal`, `identity_key`, `mutation_backend`, `final_backend` |
| `attempts[r][o]` | `ebook_backend_attempts`: `status`, `backend_identity`, external id set, conclusive miss (`notFound`) |
| `reservations[b][p]` | `ebook_backend_reservations`: the owner of a primary identifier or alias |
| `retries[r]` | `unavailable_retries`: `state`, `retry_count`, `identity_key`, and `next_retry_at` as `due` |
| `confirmations[r]` | `candidate_confirmations`: `status`, bound to a message, selected work |
| `runner[r]` | the thread in `_run_ebook_cascade`, at the point between two transactions where it stands; `background` when the retry worker or start-up runs it |
| `poll[b]`, `bookbot` | a reconciler or BookBot between what it read and what it writes |
| `phase` | Huey's process: up, down, recovering (before intake and loops) |
| `remote[r]`, `posts[r]` | the job at the backend, and the non-idempotent submissions ever sent |

`Intake` is `create_request` with `create_ebook_cascade`. The runner's loop is
`BeginAttempt`, then a search (`SearchMisses`, `SearchIsAmbiguous`,
`SearchRaises`, `Prompt`), or `Resolve` (`set_ebook_identity`), then a preflight
(`PreflightMisses`, `Attach`, `Quarantine`) or `Lock` (`lock_ebook_mutation`),
`Submit` (the HTTP call) and `Handoff` or `Quarantine` (`persist_ebook_result`).
`Advance` and `Terminalize` are whole transactions with the trigger effects and
the requeue or expiry of a silent retry they contain. A collision is `Collide`,
`ForceOwner`, `CloseDuplicate`: two transactions in the code, two steps here.
`ClaimDueRetries`, `RunNext`, `FinishRetry` are the retry worker.
`RequestCompletes` and `RequestFails` are what the triggers do to a request whose
status an outside writer changes; `ObserveTerminal`, `ProveBlocked`,
`RecoverHandoff`, `RecoverFailure` and `BookBotWrites` use them. `Crash`,
`Initialize`, `Resume`, `Ready` are a restart; `Fault` is an exception that
escapes the runner. `Acquisition` is what all this promises per request: it
seeks, claims a work exclusively, commits and sends at most once, and never seeks
again after that.

Abstractions: `requests.service` always equals the current policy entry;
`dispatch_started_at` is set exactly when `mutation_backend` is; `complete` and
`completed` are one status. Time is the `due` flag and the enabledness of
`ClosePrompt`. LazyLibrarian's `addBook`, `queueBook`, `searchBook` are one
submission, a job's non-terminal phases one state. Download hashes of different
requests differ (a collision ends in the quarantine that is modelled). A Shelfarr
job correlated with the request's own id cannot exist before its submission.
Start-up steps that cannot match a row with a cascade have no effect here.

### `RequestIntake`

| Variable | In the code |
|---|---|
| `db.row[r]` | `requests`: message, `target_key`, `status`, `canonical_request_id`, the dispatch marker, candidate and hash; with it the row's prompt (`candidate_confirmations.status`) and its `unavailable_retries.state` |
| `db.alias[m]` | `delivery_aliases` |
| `worker[w]` | a thread in `RequestProcessor.process`, between two transactions |
| `redrive` | `redrive_batch`, an operator's process beside Huey, with its snapshot |
| `world` | what the messages ask for, and which rows are older than `target_key` |

Operators on `db` are methods of `RequestStore`: `CreateRequest`, `Transition`
(which may coalesce instead), `ReserveAbba`, `Prompted`, `Bound`, `Released`,
`ReserveKey`, `Collapse`; `Coalesce`, `Repoint` and `SweepSiblings` are the
helpers they share. Actions are `Deliver`, `Look`, `Create`, `Decline`, `Start`,
`Dispatch`, `Persist`, `Offer`, `Post` (a thread), `Choose`, `Release`
(the requester or expiry), `Settle`, `Prove`, `ClaimRetry`, `ResumeEbook`,
`RecoverAbba` (loops), `Scan`, `KeyRow`, `DriveRow`, `OfferRow`, `PostRow`
(the operator) and `Restart` (`initialize` in its order). What a service does
with a request is the set of results it can return.

### `CandidateConfirmation`

`conf` and `replies` are the two tables, `status` the request's, `gen` counts the
prompts posted for the row and stands for their message ids, `visible` is what
Discord shows, `mail` what each reply says and refers to, `poster` and `worker`
are the threads (and the operator's process) that post and that handle a reply,
`posts` the acquisitions the service received. `Prompt`, `Redrive`, `Show`,
`Bind`, `FailPost`, `Tick`, `Expire` are the prompt's life; `Deliver`,
`Handle` (`claim_candidate_selection` and `reject_candidate_selection`, with the
verdict they record), `Unknown` and `Bare` what becomes of a message: one whose
reference is no live prompt is corrected or taken for a request as `OrdinaryInput`
decides (`_reply_targets_huey_candidate_prompt` answers yes, no or cannot say:
`Found`), one without a reference as `Unreferenced` does; `Submit` is
`processor.process`, which knows recorded replies;
`Stale`, `Mark`, `Send`, `Answer`, `Recover`, `Restart` what becomes of a choice.
Candidates, names and texts are ordinals; an ebook's choice goes on in
`EbookCascade`.

### `NotificationOutbox`

`outbox` is `notification_deliveries` in order of id, `requests` and `retry` what
the outbox reads of a request, `reply` the plans `deliver_response` has still to
stage, `pass[w]` a caller of `reconcile_notifications` and `lock` its lock.
Producers: `IntakeAnswers`, `IntakeMisses`, `StageReply`, `RecordProgress`,
`SeeVisible`, `StageAttention`, `Completes`, `ImportFails`, `ClaimRetry`,
`RetryHandsOff`, `RetryMisses`. BookBot reads the row (`BookBotReads`) and writes it
by its id alone (`BookBotWrites`), whatever Huey or a pass did in between; the
triggers on its update are `Fulfil` and `Break`, and `overtaken` is a history of the
failures that were told and marked before it completed them. A pass is `BeginPass`, `CheckTerminal`,
`StagePlan`, `ReadPending`, `SendSucceeds` or `SendFails` or `SkipRow`,
`MarkDelivered`, `Finalize`, `EndPass`; `PassRaises` is an exception in it.
A message is its event's kind; its route is that of `EVENT_ROUTES`. The batch of a
pass is the set of the oldest undelivered rows, taken in order of id.

### `AbbaAdapter`, `AbbaOwnership`, `AbbaDispatch`

The adapter: `journal` is `acquisitions`, `hand` the call under way (one at a
time, as `_grab_lock` makes it), `live` and `page` AudioBookBay's listings,
`torrents` and `sends` qBittorrent. `Grab` leads through `Known`, `Gone`,
`Prepare`, `Hash`, `Found`, `Started`, `Submit`, `Add`, `Outcome`, `Confirm`;
`Resume` and `Resolve` are `_resume_committed`; `Claim` and `Tag` adopt a torrent
that is there; `Status` and `Observe` are a status query. `Crash` is a kill
between any two of them. `World` is listings that expire or change and torrents
that people and BookBot add, move, break and remove. The contract says what that
amounts to for Huey: a correlation holds a hash, is joined to its holder, is
refused, or loses what it held.

Huey's side: `rows` is `requests`, `own` the contract's state, `asked` the grabs
the adapter may still act on, `worker` and `poll` the dispatching thread and
`reconcile_abba_requests`. `Reserve`, `Post`, `Outcome`, `Wait`, `Persist` are a
dispatch; `Recover`, `Resume`, `Answer`, `PersistRecovered`, `Follow`, `End` a
pass; `Act` the adapter, `Import` BookBot, `Restart` `initialize`.

### `LedgerMigration`

`journal`, `rows`, `lazy` are the three ledgers, with every content an older
version without the unique indexes could leave (`Legacy`); `Start` repairs them
in the code's passes (`HashElected`, `HashFlattened`, `CandidateElected`,
`CandidateFlattened`; `Settled`, `Joined`; `LazyMigrated`), and is then taken
again.

### `BookBotImport`

`ledger` and `retention` are BookBot's tables, `category` and `payload`
qBittorrent's side, `library` each directory with its content and
`.bookbot-import.json`, `archive` the duplicates, `title` the name Huey's row
gives a torrent, `huey` the row that waits for it, `cycle` where `run_cycle`
stands in its three loops. `Attempt`, `Adopt`, `Archive`, `Place`, `PutBack`,
`MarkCopied`, `ClearMarker`, `SetCategory`, `MarkImported`, `Tell`, `Complete`
are one import in order; `Reject`, `CopyFails`, `AttemptFailed`,
`SetCategoryFails`, `CategoryFailed`, `DestinationUnsafe`, `Fail` its failures;
`Reconcile`, `Observe`, `Delete`, `Keep`, `MarkDeleted` the first and the third
loop. A directory's content is whose payload it is.

### `PhysicalMedia`

`dir` is a delivery's directory (its MKVs and its manifest), `sending` the
delivery script between MKV and manifest, `event` and `quarantine` the rows of
`trusted_library_events` by MKV and by refused manifest, `outbox` the notices,
`library` and `commands` the ARR application, `operator` `physical_media_admin`
between manifest and row, `pass` Huey's worker. `Discover` to `Alarm` is the first
half of a pass; `Begin`, `CheckFinal`, `Classify`, `Resolve`, `Rename`,
`RewriteManifest`, `UpdatePath`, `Submit`, `Preview`, `Post`, `SetImporting`,
`Poll`, `Complete`, `Cleanup`, `Attention` the second, per event and state.

### `PasswordRotation`, `KeyRotation`

Both scripts only go forward: nothing restores an old credential, and a run that
was interrupted is resumed by the next. `run[r]` is a process with its local
variables, `faults` counts kills, lost answers, failed reads and writes and edits.

The password: `live`, `limit`, `failed`, `torrents` are qBittorrent's password,
`web_ui_max_auth_fail_count`, failures in a row and inventory, `env` the password
`.env` assigns, `journal` and `lock` the two files. `Open`, `TakeLock`, `Load`,
`Login`, `Prepare` begin; `CheckEnv` to `CheckInventory` are the checks of the
journal's phase, `ProbeNew`, `ProbeOld`, `ClearFailures` being `_reconcile_auth`;
`EnsureGuard`, `PostPassword`, `WriteEnv`, `ReadBack`, `RestoreLimit`,
`RemoveJournal` are the mutations, each behind its `SetPhase`; `FinishRestored` is
the last resumption, `Look` and `Report` the preflight. An ended run remembers
whether it failed with the plain message or asked for forward recovery.

The key: `live` and `config` are the key in force and the one in `config.xml`,
`commands` Prowlarr's list, `env` `.env`'s. `ReadConfig`, `Resume`,
`ListCommands`, `Post`, `Poll`, `Confirm`, `UpdateEnv`, `Verify` are a run,
`StartCommand`, `ResetKey`, `TakeEffect`, `EndCommand` are Prowlarr.

Assumed: qBittorrent serves this host's requests in the order they were sent, and
a preflight of the password's rotation runs alone (see below).

## 3. What the runs check

Every passing run is exhaustive within its bounds. `CHECK_DEADLOCK FALSE` is set
in all of them: a world whose requests are all decided rightly stops.

| Run | Instance | Properties |
|---|---|---|
| `two_requests` | 2 requests, 1 work, 1 identifier, LazyLibrarian then Shelfarr, retry limit 1, 1 crash | `TypeOK`, `OneOwnerPerWork`, `OwnershipHeld`, `QueuedRetryClaimable`, `RunnerAccepted`, `OneRunner`, `ImplementsAcquisition` |
| `long_history` | 1 request, 2 identifiers, both backends, retry limit 3, 2 crashes, 2 faults | `SubmittedOnce`, `HistoryConsistent`, `NoFallbackAfterMutation`, `NothingHangs` |
| `liveness` | 2 requests, LazyLibrarian, retry limit 2, 1 crash | `NothingHangs` |
| `late_import` | 1 request, LazyLibrarian | `SuccessKeepsIdentifiers`, violated |
| `intake` | 3 messages, 2 threads, 3 rows, 5 worlds, 1 restart, 2 re-drives | `AliasesResolve`, `OneOwnerPerTarget`, `NothingTwice`, `NobodyWaitsInVain` |
| `asked_twice` | 2 messages for one film, 1 old row, 1 re-drive | `OwnedTargetsNotAsked`, violated |
| `confirm` | 2 messages (a reply to a prompt, to another message or to none), 2 users, 2 threads, 1 option, "none of these" and other text, 2 prompts, 1 restart | `PromptSound`, `ChoiceIsObeyed`, `AcquiredIsNotOffered`, `RepliesAreNotRequests` |
| `outbox` | 1 request, 2 passes, a broken import-errors route, batch of 10, 1 retry, 1 crash or failing call | `OutboxSound`, `NoNeedlessRepeat`, `SilentStaysSilent`, `EverythingIsTold` |
| `abba` | 3 requests, 2 listings, 2 hashes; 2 changes of the world, 2 restarts; ledgers of 3 rows | `JournalSound`, `AddedOnce`, `KeepsTheContract`, `LedgersAgree`, `LedgersRepaired`, `RepairIsFinal` |
| `recoveries` | 2 requests for 2 listings of one torrent; 2 requests of which the adapter never answers for one; 1 torrent, 2 crashes; rotations with 2 overlapping runs: of the password with 2 faults, 5 passwords, limit 2 raised to 8; of the key with 1 fault, 3 resets | `RotationsSound`, `RecoveriesEnd`, `RunsTellTheTruth`, `RotationsEnd` |
| `bookbot` | 2 torrents, 2 titles, 2 crashes, 1 new title; 1 torrent and 1 of an ARR application with retention and a return | `CopiesSound`, `NothingDestroyed` |
| `disc` | 1 delivery of each of 5 kinds with 2 restarts, an outage, a re-delivery, a decision, another acquisition; 2 deliveries, 1 restart | `MediaSound`, `OnePost`, `TerminalStays`, `DeliveriesEnd` |

What they say:

**Cascade.** `SubmittedOnce`, `NoFallbackAfterMutation`: at most one submission,
always behind the durable marker, and nothing is searched again once it is there.
`OneOwnerPerWork`, over both tables: each unique index sees its own, the exclusion
between a waiting retry and another request's active cascade is a read in
`set_ebook_identity`, and dropping either half breaks the property.
`OwnershipHeld` adds `ReservationsHeld`: every path that releases reservations
asks the retry first, and no alias is taken over. `RunnerAccepted`: no other
thread, restart or BookBot moves the rows under a runner so that its next
transaction raises; it is why a submission that was sent can always be recorded.
`HistoryConsistent` is `ReservationsHeld`, `FulfilledProved` (a fulfilled retry
stands on a finished job) and `RetryMatchesCascade`. `QueuedRetryClaimable`: a
waiting retry matches what the claim selects on. `OneRunner`: a selection, a claim
and a resume only start where nobody runs. `NothingHangs` is `SearchEnds`,
`PromptCloses` and `RetryRunsOut`, the first and the last as long as no fault has
thrown a run out: such a run leaves its row `processing`, or a claimed retry
`retrying`, until the next restart, and nothing guarantees one.

**Intake.** `OneOwnerPerTarget`: one active row per key, so the unique index never
has to refuse a write, and one row that waits for a retry, though the operator's
batch works on a snapshot. `AliasesResolve`: an alias is
inert for good, its owner is no alias, and a delivery's record leads to the row
that is acted on, however rows are folded onto one another. `NothingTwice`: one
request per message, one live request per listing and per hash.
`NobodyWaitsInVain`: every row in `new` or `processing` is in the hands of a
thread or of a recovery that finds it, and no keyed twin of a settled row waits
(ebooks, which know no sweep, aside, and old rows that a start-up keyed after they
had settled: `_backfill_target_keys` sweeps nothing).

**Confirmations.** `ChoiceIsObeyed`: one submission per prompt, of what an
authorised reply chose, and an answer to an old prompt chooses nothing.
`AcquiredIsNotOffered`: a choice the service accepted is never offered again.
`RepliesAreNotRequests`: a message that was recorded as a reply never becomes a
request, however Discord delivers it again; an answer that arrives with its reference
never does, even before its prompt is bound or when Discord cannot resolve the
reference; a bare ordinal or refusal does not even without it. Other text without a
reference is a request, as the code means it. `PromptSound`: the row waits exactly
while its prompt is open.

**Outbox.** `OutboxSound`: a request marked notified has been told its present
end, except one that BookBot completed after its failure had been told and marked
(see `late_import` below): it keeps the failure's mark, and its completion is never
announced. `NoNeedlessRepeat`: a message is repeated only after a failed call or a
restart. `SilentStaysSilent`: no background attempt stages anything, although the
check is a read of its own. `EverythingIsTold`: rows of working routes are
delivered, and the end of every request but those is announced.

**Audiobooks.** `AddedOnce`: no hash is sent to qBittorrent twice. `JournalSound`:
the unique indexes never refuse a write, tags are accounted for, aliases have a
retained owner. `KeepsTheContract`: the refinement of `AbbaOwnership`.
`LedgersAgree`: what the adapter holds for a request Huey tracks, identities are
unique, aliases are flat, and an owner the adapter names is one Huey can join.
`LedgersRepaired`, `RepairIsFinal`: every old ledger is repaired so that the
indexes can be built and every lookup ends at an owner, at the first start, and
nothing that was sent, followed or completed is dropped. `RecoveriesEnd` is
`DoubtEnds`, a torrent that exists is reported, whatever answer was lost;
`OthersRecover`, a request the adapter never answers for does not hold up the
others; and BookBot's `CopiesAreReported`.

**BookBot.** `CopiesSound`: a payload reported as copied, or whose torrent was
deleted, is in the library or in the duplicates, in one directory, and the marker
of a finished import is gone. `NothingDestroyed` is `ContentsKept`, no import makes
a content disappear, and `DeletesOnlyImported`, a payload is deleted only when its
copy is proved, over three loops that share one stale list. `CopiesAreReported`: a
copy ends with Huey told, or as an explicit failure.

**Physical media.** `OnePost`: an import is requested once, and once more for each
decision of the operator. `MediaSound`: the MKV is never lost, a movie is completed
only with the file of its own disc, and a movie delivered once is never taken for a
new, invalid delivery. `TerminalStays`: an event in review or failed is only reopened by
the operator, except that a pass that read it as `validated` before the operator's
decision overrules that decision (see below); a completed one is final. `DeliveriesEnd`: every delivery reaches a final state.

**Rotations.** `RotationsSound`: the password in force is always in `.env`, or
in the journal with `.env` trailing; however many runs are resumed, their wrong
logins never reach the limit, which is why it is raised before the first of them;
without a journal nothing of a rotation is left; and no reset of the key is
posted behind one that is under way, except by a run beside it.
`RunsTellTheTruth`: a run that has read `.env`, has no other beside it and fails
without asking for forward recovery leaves one password everywhere and the limit as
it was, and "rotated" is only said when no
reset with the replaced key is left to replace the new one. `RotationsEnd`: a
rotation that was begun ends.

**Bounds and why they are enough.** Races are between one row and its environment
or between two rows for one thing; three rows (`intake`, `abba`) give chains of
aliases, where a third row follows one that becomes an alias itself. One retry
reaches the limit and the expiry; `long_history` has three, for a claim after a
requeue after a claim. Two crashes allow a restart in the middle of a recovery;
`intake`, `confirm` and `outbox` have one (`outbox` a restart or a failing call), since their start-up is a single
transaction that leaves nothing half done. Two identifiers, listings or titles give
disjoint and shared ones; two ebooks that contend for several identifiers are left to
the proof of `OwnershipHeldHolds`. The worlds of `intake` are a film asked for twice, films
older than the picker, one of them asked for anew, two audiobooks that are one torrent,
and an ebook with a retry: the ways rows are folded. `PostOutlastsTTL = FALSE` in `confirm`
excludes a post that takes longer than the quarter of an hour a prompt lives (see
below; with it, `StalePromptUnanswerable` fails). The code's limits of 7 retries, 100 and 500 rows do not change the cases,
except that a backlog of 500 rows on one broken route would keep the others
waiting; it is listed with the hazards. Two runs of a rotation are one and the one
that resumes or overlaps it; two faults hit a run and its resumption; a third reset
is the one that would be too many; the raised limit of 8, for the code's 1000, is out
of reach of two runs that fail as often as two faults let them.

**Fairness.** Nothing is assumed of requesters, operators, backends, crashes or
faults. Assumed are:

- cascade: weak fairness of the steps of Huey's own threads (HTTP calls have
  timeouts), of prompt expiry (called each round of the completion loop), of the
  clock, and of the container's restart;
- outbox: weak fairness of the passes' steps; `notification_loop` runs for the
  client's lifetime; BookBot may be between its check and its update for ever;
- adapter: weak fairness of the steps of a call, strong fairness of status queries
  and of the steps that record what they find, since Huey polls every 30 seconds
  and the process is not killed in every poll;
- dispatch: the pass is taken again and again and ends; the adapter acts on what it
  was asked and answers some of the queries about each request, except those it is
  silent about;
- BookBot: the container is restarted and its loop goes on, `next_retry_at` passes,
  a destination that can be verified again and again is reconciled, and Huey's
  database, if it is usable again and again, is updated;
- physical media: the worker's loop goes on and accepted commands end;
- rotations: a run that is not killed goes on, the operator starts another while a
  journal is left, or while `.env` and `config.xml` differ, and puts the inventory
  back; Prowlarr carries out its commands, and the deadline of a wait passes.

**`late_import`**, a disagreement with the documentation. `docs/architecture.md`
says reservations bind identities "across active or successful requests". TLC
finds a successful request without them: Huey polls a failed torrent; the torrent
is repaired and finishes; BookBot reads the request as queued; Huey records the
failure, which fails the cascade and releases the reservations; BookBot's update,
which has no `AND status IN (...)`, completes the request. A later request for
the same book is then free to acquire it again. In the outbox the same race shows in
another way: if the failure was announced and `notified_at` set in between, and no
silent retry clears it, `pending_notifications` (`notified_at IS NULL`) never returns
the completed request, and its requester is left with the failure. `NotificationOutbox`
models the race, and its properties name these requests (`overtaken`).

**`asked_twice`**, another. The head of `redrive_selection.py` says that a row whose
target another request owns cannot be prompted. The batch reads all owners once, and
ignores the answer of `reserve_target_key` (`:494`): if a new message for the film has
created an owner since, the old row stays without a key, so `transition` does not find
the owner either, and the requester is asked twice. If the old row is then acquired,
the next start keys it, and the newer row may wait in `needs_selection` for a sweep
that does not come.

**Noticed while modelling**, without a run of their own:

- `bind_candidate_prompt` (`database.py:4220`) does not know which generation of a
  prompt its message shows: a post that outlasts the prompt's time to live could be
  bound to a later one.
- The repairs elect differently: Huey puts rows that were sent before the others
  (`database.py:1601`), the adapter those that have not failed (`app.py:534`), then
  both the lowest number; `docs/architecture.md:277-278` promises the same owner in
  both ledgers.
- A category that cannot be set to the end leaves a failed import in its base
  category (`service.py:359-372`; `docs/architecture.md:414-415`), and a later import
  of the same title moves an earlier one to the duplicates (`storage.py:310`).
- A preflight of the password's rotation takes no lock. Beside a rotation its probe
  of the old password counts under whatever limit then holds: with a limit of 2, two
  of them get the host banned. A rotation that waits with an older reading of `.env`
  adds one failed login as well.
- A password's run that cannot read `.env` fails with the plain message although a
  journal is pending (`rotate_qbittorrent_password.py:1004-1023`), and one whose
  journal is gone but whose directory could not be synchronised asks for a forward
  recovery that finds nothing (`:601-608`).
- The key's resumption (`rotate_prowlarr_key.py:525-553`) does not look for active
  commands: after two overlapping runs were killed it can report success while the
  older reset is still queued. When the answer to the POST and every listing are lost,
  the wait ends with the plain failure although a reset is queued (`:417-437`).
- Physical media: `resolve_movie` and `mark_nonstandard` also act on a `validated` event
  (`physical_media_admin.py:48`, `:79`), which a pass may have read before and be asking
  Radarr about. Its next transition, guarded only by `state != 'completed'`
  (`database.py:5726`), then takes `manual_review` back to `identity_resolved`, against
  `docs/recovery.md:492-493`. TLC finds it as a violation of `TerminalStays` without its
  exemption `Overruled`; no file is lost and no import requested beyond the one the
  decision allows (`MediaSound`, `OnePost`).
- Physical media: an outage in the preview becomes `manual_review`
  (`physical_media.py:657`; `docs/architecture.md:78`); a stop between the rename
  and the manifest is not repaired (`physical_media.py:1068-1070`;
  `docs/recovery.md:483-486`); a manifest sent again is quarantined
  (`physical_media.py:1222-1253`; `docs/recovery.md:495`) and a series' one is never
  recognised (`physical_media.py:908`); episodes that were already there complete an
  event (`physical_media.py:1198-1203`); a stop after the state of `_attention`
  loses its notice (`physical_media.py:1207-1209`). The model has all of them.

## 4. What is proved

Each theorem holds for every value of the constants that satisfies the named
assumptions of its module; none is about a bounded instance. Each proof module has
one inductive invariant, `IInv`, made of named parts, with a lemma per action (or
per action and part) that the step keeps it, and `Invariance` says `Spec => []IInv`.
What the runs check follows from it.

**`EbookCascadeProofs`**: for every set of requests, works and identifiers, every
policy, retry limit and bound, from `PolicyAssumption` (a non-empty, duplicate-free
sequence of backends), `BoundsAssumption` and `NoneAssumption` (NULL is no value).

- `TypeCorrect`: `Spec => []TypeOK`; `TypeOK` is inductive.
- `StepBounded`, the lemma the rest stands on: seen from one request, any step
  leaves its boundary untouched, searches on before it, crosses it, or sends the
  one submission behind it.
- `NoFallback`: `Spec => NoFallbackAfterMutation`, from `StepBounded` and
  `TypeCorrect`.
- `AtMostOneSubmission`: `Spec => []SubmittedOnce`. The property is not inductive:
  it says nothing of a thread that has locked and not yet sent. `SubmissionInv`
  adds that such a thread's marker is written and nothing was sent before, and
  that nothing was sent while the marker is NULL.

The second half of the module is the life of one request. Its rows are in six tables,
and most combinations of them would make some later transaction raise. `Sound(r)` says
that every reachable combination is one of ten situations (`Fresh`, `Searching` and so
on up to `ImportedLate`), and what goes with each: whose work a retry names, who runs in
the background, which reservations it holds, what a poll or BookBot may still write.
Only `Sole` relates two requests: nobody else owns the work that a request owns. `Life`
lists what a step may do to one request, so an action is one lemma for the request it
moves and none for the others.

- `OneOwnerPerWorkHolds`, `OwnershipHeldHolds`, `QueuedRetryClaimableHolds`,
  `RunnerAcceptedHolds`, `HistoryConsistentHolds`: the five invariants of the runs.
- `OneRunnerHolds`: the action property, from the situations in which a request has
  no runner.
- `Implements`: `Spec => ImplementsAcquisition`. The initial states map to initial
  states, and each member of `Life` to a step of `Acquisition` or a stutter.

**`RequestIntakeProofs`**, for any messages, targets, candidates, threads and worlds and
any number of rows, restarts and batches, from `TargetsAssumption` (a target has a kind,
and NULL is no value) and `WorldsAssumption` (the rows older than `target_key` fit the
table). `IInv` has three layers. `RowSound`: which columns a row may have together, given
its kind; a row without a key is older than the column or names no work. `Pair` and
`Swept`: what two rows may be together; `Folded`, where aliases lead. `ThreadRow`,
`DrivenRow` and `Waits`: where a row stands that a thread, the batch or the batch's plan
holds. The layers are separate because the code is: a transaction writes one row
(`Writes`) or folds a set of rows onto an owner (`Folds`), whoever calls it, so
`TransitionOK`, `ReserveOK`, `CreateOK`, `PromptOK`, `SettleOK`, `ClaimOK`, `KeyOK`,
`RecoverOK` and `BackfillOK` are about the tables alone. `Left` says what such a
transaction may do to every other row, nothing or the fold of a waiting twin, and `Frame`
and `BatchFrame` that whoever holds such a row still finds it where its next transaction
expects it. An action's lemma then joins one of each.

- `TargetsHaveOneOwner`, `AliasesLeadToOwners`, `NothingIsTakenTwice`,
  `EverybodyIsAttendedTo`: the four invariants of the run `intake`. The retry claim's
  fold onto an owner is shown never to happen (`RetryUnowned`): the claim re-reads what
  the intake already guarantees.

**`CandidateConfirmationProofs`**, from `UsersAssumption` (the requester and the owner
are users) and `BoundsAssumption`. The invariant turns on one fact: a claimed prompt
stays claimed until a restart, which takes every thread with it. So `HolderInv` can
say that the thread that holds the choice is alone, of the present generation, and has
sent nothing before it sends; `PostedInv` that what was sent was sent once, behind the
marker, which stays.

- `PromptSoundHolds`, `AcquiredIsNotOfferedHolds`.
- `RepliesAreNotRequestsHolds`, an action property: who submits a message (`Bare`,
  `Unknown`) has found it to be neither. `NoChoiceRequestedHolds`: hence no choice or
  refusal that answers a prompt is ever a request.
- `OneAuthorisedSubmission`: one submission per prompt, of an authorised choice,
  however long a post takes.
- `ChoiceIsObeyedHolds`: in addition, an answer chooses among the options of the
  prompt it was given to, if `~PostOutlastsTTL`. The hypothesis is needed
  (`bind_candidate_prompt` does not know generations, see section 3) and is part of
  the theorem; `PosterInv` is what it adds.

**`NotificationOutboxProofs`**, from `BoundsAssumption` and `LockAssumption` (no pass is
called "nobody"). The parts of `IInv`: `RowInv`, a request and its retry agree;
`StageInv`, what may be staged, planned in a reply or seen, given both; `PassInv`,
one pass sends at a time, by the lock, and what it has read still bounds what it
stages; `LateInv`, what may have become of a row that BookBot has read;
`ImportInv`, the hard part, no pass sends while an announced import has only
one of its two notices, although a pass can be abandoned between them; `NotifiedInv`;
`OnceInv`, which counts every repetition against a failed call or a restart.

- `OutboxSoundHolds`, `NoNeedlessRepeatHolds`, and `SilentStaysSilentHolds`, an action
  property.

**`AbbaAdapterProofs`**, from `NoneAreNone` (NULL is no value) and `ChurnAssumption`. The
invariant is about one bit of a journal row, `mutated`: it is durable before anything
reaches qBittorrent, it is never taken back, and a row that has it keeps its hash for
good; a row without it may be released, so nobody joins it, and nothing was sent for
it. `JournalInv` says this of the rows, `CallInv` of the call under way.

- `JournalSoundHolds`, `AddedOnceHolds`.
- `KeepsTheContractHolds`: `Spec => KeepsTheContract`, the refinement of
  `AbbaOwnership`, step by step.

**`AbbaDispatchProofs`**, for any requests, listings, hashes, silent requests and number
of restarts (`MaxRestarts \in Nat`), from `NullsAreNone` (NULL is no value), over the
adapter's contract. Both are hypotheses of the theorem. Three parties write about one
request: its thread, the reconciliation pass and the adapter. `Claimed` and
`HoldersUnique` are the contract; `RowTrue` relates a row to what the adapter holds for
it, or may still hold because it was asked (a settled row was never left asked, so a
late decision finds a live row); `JobTrue` says that an answer stays true between being
read and being recorded, whatever is decided or lost meanwhile; `WorkerTrue` and
`PollTrue` that a row in doubt has one writer, its thread or the pass, never both.

- `LedgersStayAgreed`: `Spec => []LedgersAgree`, the property that `MCAbba` checks of
  its instance as `Dispatch!LedgersAgree`. That the adapter keeps the contract it rests
  on is `KeepsTheContractHolds`. As a by-product (`HashUnowned`), the branch of
  `transition` that folds a row because its hash is a duplicate is never taken here: the
  contract already gives a hash one holder for good.

**`BookBotImportProofs`**, for any torrents, titles, retries and scenes, from
`NamesApart` (BookBot's categories are not those of an ARR application, and "nobody"
and a stranger's directory are no torrents) and `RetriesPositive`. The properties say
where a payload is when its ledger row claims a copy; they are not inductive, because a
copy is published before it is recorded and its marker outlives the record. `IInv` says
who may have a marker (`DirectoriesSound`: the directory's owner, until the import is
recorded), that no torrent owns two directories (`OwnersUnique`), what can still be put
back while a payload is published (`Publishing`), what each stage of an import has
established (`StageHolds`), that a torrent in its imported category is past its copy and
has no marker left by which it could be published again (`MovedArePast`), and that what
the stale list of the cycle calls imported still is (`ListsTrue`).

- `CopiesStaySound`, and `NothingIsDestroyed`, an action property: from `ListsTrue` and
  `MovedArePast`, a deletion finds the copy that the ledger proves.

**`PhysicalMediaProofs`**, for any discs, kinds and scenes, from `NobodyIsNoDisc`. The
worker acts on a copy of the event that it read at the start of its pass, while the
operator, BatFire and the ARR application go on. `CopyTrue` says that the copy is the
event until the pass changes it (`Copied`), or the operator has decided on a validated
one since (`Decided`); `PostsCounted` that an event which may still be posted has a
request left (`MayPost`: before the boundary, at it, or held as validated by the pass),
and another for a decision that has still to reach it; `KindTrue` that only single MKVs
are decided on; `MovieWhole` and
`MovieRenamed` how the MKV's name, the manifest and the event's path may differ between
any two steps of the rename, for a movie delivered once.

- `OnePostPerDecision`, `MediaStaySound`, and `EndedStaysEnded`, an action property.

**Only model-checked**:

- Liveness (`NothingHangs`, `EverythingIsTold`, `RecoveriesEnd`, `RotationsEnd`,
  `DeliveriesEnd`): it rests on fairness and so on ENABLED, which the prover does not
  handle. The safety theorems are about `Spec`, and so hold of `FairSpec` too.
- `SuccessKeepsIdentifiers` and `OwnedTargetsNotAsked`, which are false.
- `LedgerMigration`, `PasswordRotation` and `KeyRotation`. The repairs
  of `LedgerMigration` are elections over whole tables; what they compute is checked for
  all ledgers of three rows. `NeverBanned` of the password's rotation depends on the
  raised limit being out of reach of the faults, so it has no proof for every bound.

## 5. Not modelled, and why

- Inside modelled components. The one-off schema migrations of the cascade tables;
  the cursor of proof checks; progress phases of reconciliation. BookBot's wait for
  start-up validation, dry runs, health marker and OPF contents; the conflict check
  that only audiobook metadata triggers is reduced to a plan's name. Physical media:
  a group is one MKV, refused manifests are told apart by the file they name, the
  operator decides after the queued commands have ended, and resolves only movies and
  unidentified single MKVs; the drive's trigger and ARM's choice of a job are outside.
  ABBA: parsing of pages, redirects, rate limits and the validation of HTTP input.
- ARR and direct handlers: HTTP requests without state of their own; their results,
  and a restart between the POST and its result, are in `RequestIntake` and
  `CandidateConfirmation`.
- Matching and bencode: computations on strings and bytes. The modules take their
  outcomes (an exact match, candidates, none) as inputs.
- Rotations: the user name, file modes and the versions of APIs; the evidence by which
  the key's deadline chooses its message; `check_prowlarr_rotation.py`, which only reads.
- Bootstrap, validation, backup, port forwarding, deployment: one-shot I/O around ten
  services' APIs, that writes what the configuration says or reports what it finds.
- Louie and the scoring survey read and keep nothing.

Hazards without a property are in `PROJECT.json` with the reason. Known ones that are
not listed there: the cursor of proof checks (`database.py:5912`), a stop during the
last permitted copy (`ledger.py:144`), the list of 100 events
(`physical_media.py:1276`), acceptance messages lost at a restart (`huey.py:1858`) and
an operator's batch that dies after `transition` (`redrive_selection.py:495`).

## 6. What could be proved next

1. Password rotation: `PasswordKnown` and `NothingLeftBehind`, from: the holder of the
   lock has read the journal that is there, and each phase implies what was changed.
2. Key rotation: no reset is posted behind one that is under way.
