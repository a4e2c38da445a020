----------------------------- MODULE KeyRotation -----------------------------
(***************************************************************************)
(* scripts/rotate_prowlarr_key.py: Prowlarr makes itself a new API key     *)
(* when it carries out the command ResetApiKey; the script posts that      *)
(* command once, learns the key from config.xml and lets .env follow.      *)
(* There is no lock and no journal: config.xml is the authority a later    *)
(* run resumes from.  A key is a number, and Prowlarr counts them up.      *)
(***************************************************************************)
EXTENDS Naturals, FiniteSets

CONSTANTS
    Runs,           \* processes of the script
    MaxResets,      \* commands Prowlarr accepts, at most; a positive number
    MaxFaults       \* bound on crashes, lost answers, failed writes, edits

VARIABLES
    live,           \* the key Prowlarr accepts
    config,         \* the key in config.xml
    commands,       \* ResetApiKey commands in order of id: status, and key of the post
    env,            \* the key .env assigns
    run,            \* run[r]: where the process is, and its local variables
    faults

server == <<live, config, commands>>
vars == <<server, env, run, faults>>

Ids   == 1..MaxResets
NoKey == 0
Keys  == 1..(MaxResets + 1)

\* _active_command_ids; an ended command stays in the list.
ActiveStatuses == {"queued", "started", "reset"}
Active == {i \in Ids : commands[i].status \in ActiveStatuses}
Listed == {i \in Ids : commands[i].status # "none"}

Idle == [pc |-> "idle", old |-> NoKey, fresh |-> FALSE, polled |-> FALSE, key |-> NoKey]

Init ==
    /\ live = 1 /\ config = live /\ env = live
    /\ commands = [i \in Ids |-> [status |-> "none", key |-> NoKey]]
    /\ run = [r \in Runs |-> Idle]
    /\ faults = 0

Fault == faults < MaxFaults /\ faults' = faults + 1

\* Every failure leaves the process and what it had written; the message, and
\* with it the deadline's evidence, only tells the operator what to expect.
Failed(r)  == [run EXCEPT ![r] = Idle]
Goto(r, pc) == run' = [run EXCEPT ![r].pc = pc]

\* _read_private_bounded: a file that is being replaced, or is not private, is
\* not read.
Refused(r) == Fault /\ run' = Failed(r)

\* _probe_host: rejected with 401, or accepted with the key of config.xml, or
\* no answer.
Probe(key, state) ==
    \/ state = (IF key = live THEN "accepted" ELSE "rejected") /\ UNCHANGED faults
    \/ state = "unknown" /\ Fault

ProbeStates == {"accepted", "rejected", "unknown"}

-----------------------------------------------------------------------------
(* Prowlarr                                                                *)

Advance(from, to) ==
    \E i \in Ids : commands[i].status = from /\ commands' = [commands EXCEPT ![i].status = to]

\* A command is started; it writes a key nobody ever had to config.xml, or
\* fails; requests are checked against the new key a moment later.
StartCommand == Advance("queued", "started") /\ UNCHANGED <<live, config, env, run, faults>>

ResetKey ==
    /\ Advance("started", "reset") /\ config' = config + 1
    /\ UNCHANGED <<live, env, run, faults>>

TakeEffect ==
    /\ live # config /\ live' = config
    /\ UNCHANGED <<config, commands, env, run, faults>>

EndCommand ==
    /\ \/ Advance("reset", "ended") /\ UNCHANGED faults
       \/ Advance("started", "ended") /\ Fault
    /\ UNCHANGED <<live, config, env, run>>

Prowlarr == StartCommand \/ ResetKey \/ TakeEffect \/ EndCommand

\* A post is accepted with the key in force; ids grow, up to MaxResets.
Free == Ids \ Listed
AcceptReset(key) ==
    /\ key = live
    /\ \E id \in Free :
          /\ \A i \in Free : id <= i
          /\ commands' = [commands EXCEPT ![id] = [status |-> "queued", key |-> key]]

-----------------------------------------------------------------------------
(* One run with --apply; without it a run stops where it would first write  *)

\* .env is read first.
Start(r) ==
    /\ run[r].pc \in {"idle", "rotated"}
    /\ run' = [run EXCEPT ![r] = [Idle EXCEPT !.pc = "config", !.old = env, !.fresh = TRUE]]
    /\ UNCHANGED <<server, env, faults>>

\* A config.xml with another key has the authority; the plain case goes on.
ReadConfig(r) ==
    /\ run[r].pc = "config"
    /\ \/ run' = [run EXCEPT ![r].key = IF config = run[r].old THEN NoKey ELSE config,
                             ![r].pc = IF config = run[r].old THEN "list" ELSE "diverged"]
          /\ UNCHANGED faults
       \/ Refused(r)
    /\ UNCHANGED <<server, env>>

\* Mutant: a config.xml that differs from .env is an error.
ResumeNever(r) ==
    /\ run[r].pc = "diverged"
    /\ run' = Failed(r)
    /\ UNCHANGED <<server, env, faults>>

\* The key of .env must be rejected and the other accepted as Prowlarr's own.
Resume(r) ==
    /\ run[r].pc = "diverged"
    /\ \E state \in ProbeStates :
          /\ Probe(run[r].key, state)
          /\ run' = IF state = "accepted" /\ run[r].old # live /\ config = run[r].key
                    THEN [run EXCEPT ![r].pc = "update"] ELSE Failed(r)
    /\ UNCHANGED <<server, env>>

\* Mutant: the command is posted whatever is active.
ListNothing(r) ==
    /\ run[r].pc = "list"
    /\ Goto(r, "post")
    /\ UNCHANGED <<server, env, faults>>

\* A command that is already active is followed, not posted again.
ListCommands(r) ==
    /\ run[r].pc = "list"
    /\ \E state \in ProbeStates :
          /\ Probe(run[r].old, state)
          /\ run' = IF state # "accepted" \/ config # run[r].old THEN Failed(r)
                    ELSE [run EXCEPT ![r].pc = IF Active = {} THEN "post" ELSE "poll"]
    /\ UNCHANGED <<server, env>>

\* The command is posted once: accepted with or without an answer, refused
\* with a key that is no longer in force, or lost.
Post(r) ==
    /\ run[r].pc = "post"
    /\ \/ AcceptReset(run[r].old) /\ UNCHANGED faults
       \/ (run[r].old # live \/ Free = {}) /\ UNCHANGED <<commands, faults>>
       \/ Fault /\ UNCHANGED commands
    /\ Goto(r, "poll")
    /\ UNCHANGED <<live, config, env>>

\* One poll: the key of config.xml and the answer to the old key.
Poll(r) ==
    /\ run[r].pc = "poll"
    /\ IF config # run[r].old /\ run[r].old # live
       THEN run' = [run EXCEPT ![r].key = config, ![r].pc = "candidate"]
       ELSE Goto(r, "wait")
    /\ UNCHANGED <<server, env, faults>>

\* Mutant: a reset may still be active.
ConfirmEarly(r) ==
    /\ run[r].pc = "candidate"
    /\ run' = [run EXCEPT ![r].polled = TRUE, ![r].pc = "update"]
    /\ UNCHANGED <<server, env, faults>>

\* A changed key is final once it is Prowlarr's own, the old one is rejected,
\* no reset is active any more and config.xml still holds it.
Confirm(r) ==
    /\ run[r].pc = "candidate"
    /\ \E state \in ProbeStates :
          /\ Probe(run[r].key, state)
          /\ run' = IF state = "accepted" /\ config = run[r].key /\ Active = {}
                    THEN [run EXCEPT ![r].polled = TRUE, ![r].pc = "update"]
                    ELSE [run EXCEPT ![r].key = NoKey, ![r].pc = "wait"]
    /\ UNCHANGED <<server, env>>

Again(r) == run[r].pc = "wait" /\ Goto(r, "poll") /\ UNCHANGED <<server, env, faults>>

Deadline(r) ==
    /\ run[r].pc = "wait"
    /\ run' = Failed(r)
    /\ UNCHANGED <<server, env, faults>>

\* .env must be as it was read; an error of the update is ignored.
UpdateEnv(r) ==
    /\ run[r].pc = "update"
    /\ IF config = run[r].key /\ run[r].fresh
       THEN /\ \/ env' = run[r].key /\ UNCHANGED faults
               \/ env' = env /\ Fault
            /\ run' = [q \in Runs |-> [run[q] EXCEPT !.fresh = FALSE,
                                          !.pc = IF q = r THEN "verify" ELSE @]]
       ELSE run' = Failed(r) /\ UNCHANGED <<env, faults>>
    /\ UNCHANGED server

\* What was written is read back and tried.
Verify(r) ==
    /\ run[r].pc = "verify"
    /\ \E state \in ProbeStates :
          /\ Probe(run[r].key, state)
          /\ run' = IF /\ env = run[r].key /\ config = run[r].key
                       /\ state = "accepted" /\ run[r].old # live
                    THEN [run EXCEPT ![r].pc = "rotated"] ELSE Failed(r)
    /\ UNCHANGED <<server, env>>

Step(r) ==
    \/ ReadConfig(r) \/ Resume(r) \/ ListCommands(r) \/ Post(r) \/ Poll(r) \/ Confirm(r)
    \/ Again(r) \/ Deadline(r) \/ UpdateEnv(r) \/ Verify(r)

Crash(r) ==
    /\ run[r].pc \notin {"idle", "rotated"}
    /\ Fault /\ run' = Failed(r)
    /\ UNCHANGED <<server, env>>

\* Another assignment of .env is edited.
EditEnv ==
    /\ Fault /\ run' = [r \in Runs |-> [run[r] EXCEPT !.fresh = FALSE]]
    /\ UNCHANGED <<server, env>>

Next == Prowlarr \/ EditEnv \/ \E r \in Runs : Start(r) \/ Step(r) \/ Crash(r)

\* Prowlarr carries its commands out; the operator starts runs while the files
\* differ; a wait ends, because its deadline passes.
Fairness ==
    /\ WF_vars(StartCommand) /\ WF_vars(ResetKey) /\ WF_vars(TakeEffect)
    /\ WF_vars(EndCommand)
    /\ \A r \in Runs : /\ WF_vars(Step(r)) /\ SF_vars(Deadline(r))
                       /\ WF_vars(config # env /\ Start(r))

Spec == Init /\ [][Next]_vars /\ Fairness

-----------------------------------------------------------------------------
(* Properties                                                              *)

TypeOK ==
    /\ {live, config, env} \subseteq Keys
    /\ commands \in [Ids -> [status : ActiveStatuses \cup {"none", "ended"},
                             key : Keys \cup {NoKey}]]
    /\ \A r \in Runs : {run[r].old, run[r].key} \subseteq Keys \cup {NoKey}

\* However often a run is killed and started again, no reset is posted behind
\* one that may still be carried out, but by a run beside it (list 588-610).
NoRepeatedReset == Cardinality(Active) <= Cardinality(Runs)

KeySound == TypeOK /\ NoRepeatedReset

\* When a run says "rotated", no reset that was posted with the key it replaced
\* is left to replace the new one (_wait_for_authoritative_key 376-438).
RotatedIsFinal ==
    [][\A r \in Runs :
          run[r].pc = "verify" /\ run'[r].pc = "rotated" /\ run[r].polled
          => \A i \in Active : commands[i].key # run[r].old]_vars

\* Prowlarr has made itself another key than .env has: .env must follow
\* (_converge_environment 441-487, and the resumption 519-553).
Pending == config # env
=============================================================================
