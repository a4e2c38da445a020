--------------------------- MODULE PasswordRotation ---------------------------
(***************************************************************************)
(* scripts/rotate_qbittorrent_password.py: the live qBittorrent password   *)
(* is replaced and .env follows, with a journal from which a later run     *)
(* goes forward.  The operator starts runs, of which any may be killed     *)
(* between two steps; nothing goes back to the old password.               *)
(*                                                                         *)
(* A password is a number.  .env is the password it assigns; what else it  *)
(* holds matters only to the snapshot a run takes.  qBittorrent serves the *)
(* requests of this host in the order they were sent, so a call without an *)
(* answer was carried out or was not when the next one is served.          *)
(***************************************************************************)
EXTENDS Naturals, FiniteSets

CONSTANTS
    Runs,               \* processes of the script
    NoRun,              \* the lock is free
    Passwords,          \* enough of them that a generated one is new
    OriginalLimit,      \* web_ui_max_auth_fail_count before the rotation
    GuardMinimum,       \* ROTATION_GUARD_MINIMUM (1000)
    MaxFaults           \* bound on crashes, lost answers, failed writes, edits

ASSUME LimitAssumption == OriginalLimit \in Nat /\ GuardMinimum \in Nat /\ MaxFaults \in Nat

ASSUME PasswordAssumption ==
    IsFiniteSet(Passwords) /\ Cardinality(Passwords) > 2 + Cardinality(Runs)

VARIABLES
    live, limit, failed,    \* qBittorrent: password, ban limit, failures in a row
    torrents,               \* its inventory, of which there are two
    env,                    \* the password .env assigns
    journal,                \* password-rotation.json
    lock,                   \* password-rotation.lock
    run,                    \* run[r]: where the process is, and its local variables
    faults

server == <<live, limit, failed, torrents>>
vars == <<server, env, journal, lock, run, faults>>

Phases == {"prepared", "guarded", "remote_attempted", "remote_applied", "env_converged",
           "guard_restored"}

NoJournal == [phase |-> "none"]

Larger(m, n) == IF m > n THEN m ELSE n

\* _parse_journal refuses anything else; a phase of "none" is no file.
Readable(j) ==
    /\ j.phase \in Phases
    /\ {j.old, j.new} \subseteq Passwords /\ j.old # j.new
    /\ j.original \in Nat /\ j.guard >= Larger(j.original, GuardMinimum)

\* Any password is as good as another to begin with.
First == CHOOSE p \in Passwords : TRUE

Idle == [pc |-> "idle", apply |-> FALSE, seen |-> First, fresh |-> FALSE, resumed |-> FALSE,
         copy |-> NoJournal, auth |-> "none", stage |-> "first", plain |-> FALSE]

Init ==
    /\ live = First /\ env = live
    /\ limit = OriginalLimit /\ failed = 0
    /\ torrents = 0 /\ journal = NoJournal /\ lock = NoRun
    /\ run = [r \in Runs |-> Idle]
    /\ faults = 0

Fault == faults < MaxFaults /\ faults' = faults + 1

\* A run ends; that it failed plainly, and did not ask for forward recovery, is
\* remembered of what it prints.  Its lock goes with the process.
Ended(r, outcome) == [run EXCEPT ![r] = [Idle EXCEPT !.plain = (outcome = "generic")]]
Unlocked(r) == IF lock = r THEN NoRun ELSE lock

Exit(r, outcome) == run' = Ended(r, outcome) /\ lock' = Unlocked(r)

Goto(r, pc) == run' = [run EXCEPT ![r].pc = pc] /\ UNCHANGED lock

\* Mutant: a checkpoint that was lost fails as plainly as its write.
FailurePlain(r) ==
    IF run[r].copy = NoJournal \/ run[r].pc \in Phases THEN "generic" ELSE "forward"

\* Whether a failure is the plain one or asks for forward recovery: once a
\* journal is loaded or written nothing is said to be unchanged.
Failure(r) == IF run[r].copy = NoJournal THEN "generic" ELSE "forward"
Fail(r) == Exit(r, Failure(r))

-----------------------------------------------------------------------------
(* qBittorrent and the files                                               *)

\* A wrong password counts towards the ban of this host, a right one ends the
\* count, and a banned host is answered with an error.
LoginState(p) ==
    IF failed >= limit THEN "unknown" ELSE IF p = live THEN "accepted" ELSE "rejected"
Counted(p) ==
    CASE LoginState(p) = "accepted" -> 0
      [] LoginState(p) = "rejected" -> failed + 1
      [] OTHER -> failed

\* _probe: the answer may be lost, whether or not the login was served.
Probe(p, state) ==
    /\ \/ state = LoginState(p) /\ failed' = Counted(p) /\ UNCHANGED faults
       \/ state = "unknown" /\ Fault /\ failed' \in {failed, Counted(p)}
    /\ UNCHANGED <<live, limit, torrents>>

\* A preference is set once and never again by the same call.
Set(variable, next, answered) ==
    \/ answered /\ next = variable[2] /\ UNCHANGED faults
    \/ ~answered /\ Fault /\ next \in {variable[1], variable[2]}

\* A private file is replaced whole: written; not written; written, with an
\* error from the directory's fsync.
Written(old, new, next, reported) ==
    \/ reported /\ next = new /\ UNCHANGED faults
    \/ ~reported /\ Fault /\ next \in {old, new}

\* update_dotenv and every editor replace .env: no run's snapshot of it holds.
Stale(runs) == [r \in Runs |-> [runs[r] EXCEPT !.fresh = FALSE]]

\* A file that is being replaced, or is not private, is not read.
ReadRefused(r) ==
    /\ run[r].pc \in {"open", "load", "look", "check", "readback"}
    /\ Fault
    /\ Exit(r, IF run[r].pc \in {"load", "look"} /\ journal # NoJournal THEN "forward"
               ELSE Failure(r))
    /\ UNCHANGED <<server, env, journal>>

\* The version, the limit or the inventory is asked for and no answer comes.
ReadLost(r) ==
    /\ run[r].pc \in {"prepare", "finish", "inventory", "guard", "report"}
    /\ Fault /\ Fail(r)
    /\ UNCHANGED <<server, env, journal>>

-----------------------------------------------------------------------------
(* One run                                                                 *)

\* The operator starts a rotation or, without --apply, a preflight; rotations
\* may overlap, a preflight takes no lock and is run alone.
Start(r, apply) ==
    /\ run[r].pc = "idle"
    /\ \A q \in Runs : run[q].pc = "idle" \/ (apply /\ run[q].apply)
    /\ IF apply THEN UNCHANGED faults ELSE Fault
    /\ run' = [run EXCEPT ![r] = [Idle EXCEPT !.pc = "open", !.apply = apply]]
    /\ UNCHANGED <<server, env, journal, lock>>

\* .env is read before the lock is taken.
Open(r) ==
    /\ run[r].pc = "open"
    /\ run' = [run EXCEPT ![r].seen = env, ![r].fresh = TRUE,
                          ![r].pc = IF run[r].apply THEN "lock" ELSE "look"]
    /\ UNCHANGED <<server, env, journal, lock, faults>>

TakeLock(r) ==
    /\ run[r].pc = "lock"
    /\ IF lock = NoRun
       THEN lock' = r /\ run' = [run EXCEPT ![r].pc = "load"]
       ELSE Fail(r)
    /\ UNCHANGED <<server, env, journal, faults>>

\* Mutant: a run begins a rotation of its own whatever journal it finds.
LoadNothing(r) ==
    /\ run[r].pc = "load"
    /\ Goto(r, "login")
    /\ UNCHANGED <<server, env, journal, faults>>

\* With a journal, its rotation is resumed.
Load(r) ==
    /\ run[r].pc = "load"
    /\ CASE journal = NoJournal -> Goto(r, "login")
         [] Readable(journal) ->
                /\ run' = [run EXCEPT ![r].copy = journal, ![r].resumed = TRUE,
                                      ![r].pc = "check"]
                /\ UNCHANGED lock
         [] OTHER -> Exit(r, "forward")
    /\ UNCHANGED <<server, env, journal, faults>>

\* Without one, a login with the password of .env that was read first.
Login(r) ==
    /\ run[r].pc = "login"
    /\ \E state \in {"accepted", "rejected", "unknown"} :
          /\ Probe(run[r].seen, state)
          /\ IF state = "accepted"
             THEN Goto(r, IF run[r].apply THEN "prepare" ELSE "report") ELSE Fail(r)
    /\ UNCHANGED <<env, journal>>

\* A password that nobody ever had.
Generated == CHOOSE p \in Passwords : p \notin {live, env} \cup {run[r].seen : r \in Runs}

Prepared(r) ==
    [phase |-> "prepared", old |-> run[r].seen, new |-> Generated, original |-> limit,
     guard |-> Larger(limit, GuardMinimum), torrents |-> torrents]

\* A write that reports an error is a plain failure, also with the journal there.
Prepare(r) ==
    /\ run[r].pc = "prepare"
    /\ \E reported \in BOOLEAN :
          /\ Written(journal, Prepared(r), journal', reported)
          /\ IF reported
             THEN /\ run' = [run EXCEPT ![r].copy = Prepared(r), ![r].pc = "check"]
                  /\ UNCHANGED lock
             ELSE Fail(r)
    /\ UNCHANGED <<server, env>>

ByPhase(r) ==
    CASE run[r].copy.phase = "guard_restored" -> "finish"
      [] run[r].copy.phase = "remote_attempted" -> "probe_new"
      [] run[r].copy.phase = "prepared" /\ ~run[r].resumed -> "inventory"
      [] OTHER -> "auth"

Expected(r) ==
    IF run[r].copy.phase \in {"prepared", "guarded"} THEN "old" ELSE "new"

\* .env must still hold one of the journal's two passwords.
CheckEnv(r) ==
    /\ run[r].pc = "check"
    /\ IF env \in {run[r].copy.old, run[r].copy.new}
       THEN /\ run' = [run EXCEPT ![r].seen = env, ![r].auth = Expected(r),
                                  ![r].pc = ByPhase(r)]
            /\ UNCHANGED lock
       ELSE Fail(r)
    /\ UNCHANGED <<server, env, journal, faults>>

PasswordOf(r) == IF run[r].auth = "old" THEN run[r].copy.old ELSE run[r].copy.new

\* _require_auth: exactly the password of the journal's phase.
Authenticate(r) ==
    /\ run[r].pc \in {"auth", "last"}
    /\ \E state \in {"accepted", "rejected", "unknown"} :
          /\ Probe(PasswordOf(r), state)
          /\ IF state = "accepted"
             THEN Goto(r, IF run[r].pc = "auth" THEN "inventory" ELSE "remove")
             ELSE Fail(r)
    /\ UNCHANGED <<env, journal>>

\* _reconcile_auth: the new password, the old one, then the accepted one again,
\* which ends the count of failures; anything but one accepted password fails.
AfterReconcile(r) ==
    CASE run[r].stage = "first"  -> "inventory"
      [] run[r].stage = "posted" -> IF run[r].auth = "new" THEN "remote_applied" ELSE "fail"
      [] run[r].stage = "last"   -> IF run[r].auth = "new" THEN "restore" ELSE "fail"

ProbeNew(r) ==
    /\ run[r].pc = "probe_new"
    /\ \E state \in {"accepted", "rejected", "unknown"} :
          /\ Probe(run[r].copy.new, state)
          /\ IF state = "unknown" THEN Fail(r)
             ELSE /\ run' = [run EXCEPT ![r].pc = "probe_old",
                                ![r].auth = IF state = "accepted" THEN "new" ELSE "none"]
                  /\ UNCHANGED lock
    /\ UNCHANGED <<env, journal>>

ProbeOld(r) ==
    /\ run[r].pc = "probe_old"
    /\ \E state \in {"accepted", "rejected", "unknown"} :
          /\ Probe(run[r].copy.old, state)
          /\ IF state = "unknown" \/ (state = "accepted") = (run[r].auth = "new") THEN Fail(r)
             ELSE /\ run' = [run EXCEPT ![r].pc = "clear",
                                ![r].auth = IF state = "accepted" THEN "old" ELSE "new"]
                  /\ UNCHANGED lock
    /\ UNCHANGED <<env, journal>>

ClearFailures(r) ==
    /\ run[r].pc = "clear"
    /\ \E state \in {"accepted", "rejected", "unknown"} :
          /\ Probe(PasswordOf(r), state)
          /\ IF state = "accepted" /\ AfterReconcile(r) # "fail"
             THEN Goto(r, AfterReconcile(r)) ELSE Fail(r)
    /\ UNCHANGED <<env, journal>>

\* A torrent that came or went stops the rotation where it is.
CheckInventory(r) ==
    /\ run[r].pc = "inventory"
    /\ IF torrents # run[r].copy.torrents THEN Fail(r)
       ELSE Goto(r, IF ~run[r].apply THEN "report"
                    ELSE IF run[r].stage = "first" THEN "guard" ELSE "probe_new")
    /\ UNCHANGED <<server, env, journal, faults>>

NextPhase(r) ==
    IF run[r].copy.phase = "prepared" THEN "guarded"
    ELSE IF run[r].auth = "old" THEN "remote_attempted" ELSE "remote_applied"

\* Mutant: the ban limit stays as it is.
EnsureNothing(r) ==
    /\ run[r].pc = "guard"
    /\ Goto(r, NextPhase(r))
    /\ UNCHANGED <<server, env, journal, faults>>

\* The ban limit is raised, if it is not yet, and read back.
EnsureGuard(r) ==
    /\ run[r].pc = "guard"
    /\ IF limit = run[r].copy.guard
       THEN Goto(r, NextPhase(r)) /\ UNCHANGED <<limit, faults>>
       ELSE \E answered \in BOOLEAN :
               /\ Set(<<limit, run[r].copy.guard>>, limit', answered)
               /\ IF answered THEN Goto(r, NextPhase(r)) ELSE Fail(r)
    /\ UNCHANGED <<live, failed, torrents, env, journal>>

AfterMark(phase, auth) ==
    CASE phase = "guarded" -> IF auth = "old" THEN "remote_attempted" ELSE "remote_applied"
      [] phase = "remote_attempted" -> "post"
      [] phase = "remote_applied" -> "env"
      [] phase = "env_converged" -> "auth"
      [] phase = "guard_restored" -> "last"

\* _set_phase: a checkpoint that may be lost asks for forward recovery.
SetPhase(r) ==
    /\ run[r].pc \in Phases
    /\ LET marked == [run[r].copy EXCEPT !.phase = run[r].pc] IN
       \E reported \in BOOLEAN :
          /\ Written(journal, marked, journal', reported)
          /\ IF reported
             THEN /\ run' = [run EXCEPT ![r].copy = marked,
                                ![r].stage = IF run[r].pc = "env_converged" THEN "last" ELSE @,
                                ![r].pc = AfterMark(run[r].pc, run[r].auth)]
                  /\ UNCHANGED lock
             ELSE Fail(r)
    /\ UNCHANGED <<server, env>>

\* The password is posted once, whatever the answer; a login will tell.
PostPassword(r) ==
    /\ run[r].pc = "post"
    /\ \E answered \in BOOLEAN : Set(<<live, run[r].copy.new>>, live', answered)
    /\ run' = [run EXCEPT ![r].stage = "posted", ![r].pc = "probe_new"]
    /\ UNCHANGED <<limit, failed, torrents, env, journal, lock>>

\* _assert_snapshot and update_dotenv: only the run that began the rotation
\* still relies on its first reading, and an error of the update is ignored.
WriteEnv(r) ==
    /\ run[r].pc = "env"
    /\ IF run[r].seen = run[r].copy.old /\ ~run[r].resumed /\ ~run[r].fresh
       THEN Fail(r) /\ UNCHANGED <<env, faults>>
       ELSE IF run[r].seen = run[r].copy.old
       THEN /\ \E reported \in BOOLEAN : Written(env, run[r].copy.new, env', reported)
            /\ run' = Stale([run EXCEPT ![r].pc = "readback"]) /\ UNCHANGED lock
       ELSE Goto(r, "readback") /\ UNCHANGED <<env, faults>>
    /\ UNCHANGED <<server, journal>>

\* Mutant: the update's silence is taken for success.
ReadNothingBack(r) ==
    /\ run[r].pc = "readback"
    /\ Goto(r, "env_converged")
    /\ UNCHANGED <<server, env, journal, faults>>

ReadBack(r) ==
    /\ run[r].pc = "readback"
    /\ IF env = run[r].copy.new THEN Goto(r, "env_converged") ELSE Fail(r)
    /\ UNCHANGED <<server, env, journal, faults>>

\* Mutant: the limit the server has now is taken for the original one.
RestoreNothing(r) ==
    /\ run[r].pc = "restore"
    /\ Goto(r, "guard_restored")
    /\ UNCHANGED <<server, env, journal, faults>>

RestoreLimit(r) ==
    /\ run[r].pc = "restore"
    /\ \E answered \in BOOLEAN :
          /\ Set(<<limit, run[r].copy.original>>, limit', answered)
          /\ IF answered THEN Goto(r, "guard_restored") ELSE Fail(r)
    /\ UNCHANGED <<live, failed, torrents, env, journal>>

\* _remove_journal may fail before or after the file is gone.
RemoveJournal(r) ==
    /\ run[r].pc = "remove"
    /\ \E reported \in BOOLEAN :
          /\ Written(journal, NoJournal, journal', reported)
          /\ Exit(r, IF reported THEN "applied" ELSE "forward")
    /\ UNCHANGED <<server, env>>

\* The resumption of a rotation that had only its journal left to remove.
FinishRestored(r) ==
    /\ run[r].pc = "finish"
    /\ \E state \in {"accepted", "rejected", "unknown"} :
          /\ Probe(run[r].copy.new, state)
          /\ IF /\ state = "accepted" /\ limit = run[r].copy.original
                /\ torrents = run[r].copy.torrents
             THEN Goto(r, "remove") ELSE Fail(r)
    /\ UNCHANGED <<env, journal>>

\* _preflight: without the lock, against the journal it finds.
Look(r) ==
    /\ run[r].pc = "look"
    /\ CASE journal = NoJournal -> Goto(r, "login")
         [] Readable(journal) /\ run[r].seen \in {journal.old, journal.new} ->
                /\ run' = [run EXCEPT ![r].copy = journal,
                             ![r].auth = IF journal.phase \in {"prepared", "guarded"}
                                         THEN "old" ELSE "new",
                             ![r].pc = IF journal.phase = "remote_attempted"
                                       THEN "probe_new" ELSE "auth"]
                /\ UNCHANGED lock
         [] OTHER -> Exit(r, "forward")
    /\ UNCHANGED <<server, env, journal, faults>>

Report(r) ==
    /\ run[r].pc = "report"
    /\ Exit(r, IF run[r].copy = NoJournal THEN "passed" ELSE "pending")
    /\ UNCHANGED <<server, env, journal, faults>>

Step(r) ==
    \/ Open(r) \/ TakeLock(r) \/ Load(r) \/ Login(r) \/ Prepare(r) \/ CheckEnv(r)
    \/ Authenticate(r) \/ ProbeNew(r) \/ ProbeOld(r) \/ ClearFailures(r)
    \/ CheckInventory(r) \/ EnsureGuard(r) \/ SetPhase(r) \/ PostPassword(r)
    \/ WriteEnv(r) \/ ReadBack(r) \/ RestoreLimit(r) \/ RemoveJournal(r)
    \/ FinishRestored(r) \/ Look(r) \/ Report(r)

-----------------------------------------------------------------------------
(* What happens around it                                                  *)

Crash(r) ==
    /\ run[r].pc # "idle"
    /\ Fault /\ Exit(r, "none")
    /\ UNCHANGED <<server, env, journal>>

\* Another assignment of .env is edited.
EditEnv ==
    /\ Fault /\ run' = Stale(run)
    /\ UNCHANGED <<server, env, journal, lock>>

\* A torrent is added, and removed again by the operator.
Add ==
    /\ Fault /\ torrents' = 1 - torrents
    /\ UNCHANGED <<live, limit, failed, env, journal, lock, run>>

PutBack ==
    /\ journal # NoJournal /\ torrents # journal.torrents
    /\ torrents' = journal.torrents
    /\ UNCHANGED <<live, limit, failed, env, journal, lock, run, faults>>

Next ==
    \/ \E r \in Runs :
          \/ Step(r) \/ ReadRefused(r) \/ ReadLost(r) \/ Crash(r)
          \/ \E apply \in BOOLEAN : Start(r, apply)
    \/ EditEnv \/ Add \/ PutBack

\* A run that is not killed goes on; the operator starts another one while a
\* journal is left, and puts the inventory back.
Fairness ==
    /\ \A r \in Runs : WF_vars(Step(r)) /\ WF_vars(journal # NoJournal /\ Start(r, TRUE))
    /\ WF_vars(PutBack)

Spec == Init /\ [][Next]_vars /\ Fairness

-----------------------------------------------------------------------------
(* Properties                                                              *)

TypeOK ==
    /\ live \in Passwords /\ env \in Passwords
    /\ limit \in {OriginalLimit, Larger(OriginalLimit, GuardMinimum)} /\ failed \in Nat
    /\ journal = NoJournal \/ Readable(journal)
    /\ lock \in Runs \cup {NoRun}

\* No password is lost: the one qBittorrent accepts is in .env, or both are in
\* the journal and .env is the one that trails (_apply_locked 757-988).
PasswordKnown ==
    \/ live = env
    \/ journal # NoJournal /\ env = journal.old /\ live = journal.new

\* The wrong logins of the script never get this host banned, for as long as
\* any number of runs is resumed (_ensure_guard, _reconcile_auth).
NeverBanned == failed < limit

\* Without a journal nothing of a rotation is left behind.
NothingLeftBehind == journal = NoJournal => limit = OriginalLimit /\ live = env

RotationSound == TypeOK /\ PasswordKnown /\ NeverBanned /\ NothingLeftBehind

\* A run that fails without asking for forward recovery leaves, when no other
\* run goes on, one password everywhere and the limit as it was (_set_phase 573-583).
\* A run that fails before it reads the journal (at "open": the .env cannot be
\* read) says nothing of the rotation it has found, and is left out.
PlainFailure ==
    [][\A r \in Runs :
          /\ run[r].pc \notin {"idle", "open"} /\ run'[r].plain
          /\ \A q \in Runs \ {r} : run[q].pc = "idle"
          => live' = env' /\ limit' = OriginalLimit]_vars

\* A rotation that was begun and is not finished: it must end, whatever run was
\* killed or went unanswered (_apply_locked 757-988).
Pending == journal # NoJournal
=============================================================================
