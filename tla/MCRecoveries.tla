---------------------------- MODULE MCRecoveries ----------------------------
(* What must eventually happen, for TLC: the adapter's journal, Huey's        *)
(* dispatch, BookBot's cycle and the two rotations of a credential, each with *)
(* its own fairness.  They share no variable: a behaviour is a behaviour of   *)
(* the one that is chosen at the start, while the others stand still.         *)
EXTENDS PasswordRotation, TLC

CONSTANTS r1, r2, k1, k2, h1, h2, t1, x1, x2, None

VARIABLES part,
          doubts, adapterLive, page, client, hand, sends, churn,   \* AbbaAdapter
          rows, own, asked, worker, poll, restarts,                \* AbbaDispatch
          ledger, retention, category, library, archive,           \* BookBotImport
          payload, title, huey, cycle, bounds,
          keyLive, config, commands, keyEnv, keyRun, keyFaults     \* KeyRotation

adapterVars == <<doubts, adapterLive, page, client, hand, sends, churn>>
dispatchVars == <<rows, own, asked, worker, poll, restarts>>
bookbotVars == <<ledger, retention, category, library, archive, payload, title, huey, cycle, bounds>>
keyVars == <<keyLive, config, commands, keyEnv, keyRun, keyFaults>>

\* Two requests for two listings of one torrent.
Adapter == INSTANCE AbbaAdapter WITH
    Correlations <- {r1, r2}, Candidates <- {k1, k2}, Hashes <- {h1},
    NoHash <- None, NoCorrelation <- None, MaxChurn <- 2,
    journal <- doubts, live <- adapterLive, torrents <- client

\* Two requests; the adapter never answers for the second, which comes first.
Dispatch == INSTANCE AbbaDispatch WITH
    Requests <- {r1, r2}, Candidates <- {k1, k2}, Hashes <- {h1, h2}, NoHash <- None,
    NoRequest <- None, NoCandidate <- None, Silent <- {r2}, MaxRestarts <- 2

\* One torrent, two crashes.
BookBot == INSTANCE BookBotImport WITH
    Torrents <- {t1}, Arr <- {}, Titles <- {x1, x2}, NoTitle <- None, Nobody <- None,
    Foreign <- "foreign", MaxRetries <- 2,
    Scenes <- {[torrents |-> {t1}, crashes |-> 2, returns |-> 0, retitles |-> 0, retention |-> FALSE]}

\* Two overlapping runs, three resets: one more than the runs could post at once.
Key == INSTANCE KeyRotation WITH
    MaxResets <- 3, MaxFaults <- 1, live <- keyLive, env <- keyEnv, run <- keyRun, faults <- keyFaults

\* The parts that stand still have one initial state.
MCInit ==
    /\ part \in {"adapter", "dispatch", "bookbot", "password", "key"}
    /\ Adapter!Init /\ Dispatch!Init /\ BookBot!Init /\ Init /\ Key!Init
    /\ part # "bookbot" =>
           /\ library = [x \in {x1, x2} |-> BookBot!Empty]
           /\ payload[t1] = "good" /\ title[t1] = x1

Others(chosen) ==
    /\ chosen # "adapter"  => UNCHANGED adapterVars
    /\ chosen # "dispatch" => UNCHANGED dispatchVars
    /\ chosen # "bookbot"  => UNCHANGED bookbotVars
    /\ chosen # "password" => UNCHANGED vars
    /\ chosen # "key"      => UNCHANGED keyVars

AdapterStep  == part = "adapter" /\ Adapter!Next /\ Others("adapter")
DispatchStep == part = "dispatch" /\ Dispatch!Next /\ Others("dispatch")
BookBotStep  == part = "bookbot" /\ BookBot!Next /\ Others("bookbot")
PasswordStep == part = "password" /\ Next /\ Others("password")
KeyStep      == part = "key" /\ Key!Next /\ Others("key")

MCNext ==
    UNCHANGED part /\ (AdapterStep \/ DispatchStep \/ BookBotStep \/ PasswordStep \/ KeyStep)
MCVars == <<part, adapterVars, dispatchVars, bookbotVars, vars, keyVars>>

MCFairness ==
    \/ part = "adapter" /\ Adapter!Fairness
    \/ part = "dispatch" /\ Dispatch!Fairness
    \/ part = "bookbot" /\ BookBot!Fairness
    \/ part = "password" /\ Fairness
    \/ part = "key" /\ Key!Fairness

MCSpec == MCInit /\ [][MCNext]_MCVars /\ MCFairness

-----------------------------------------------------------------------------
(* Properties                                                              *)

\* A torrent that made it to qBittorrent is reported, whatever answer was lost
\* (app.py 2680-2736).
DoubtEnds == Adapter!DoubtEnds

\* An adapter that never answers for one request does not stop the others
\* (huey.py 1453-1513).
OthersRecover == Dispatch!OthersRecover

\* A copy that was made ends with Huey told of the completion or with the
\* ledger's explicit failure (service.py 296-455).
CopiesAreReported == BookBot!CopiesAreReported

RecoveriesEnd == DoubtEnds /\ OthersRecover /\ CopiesAreReported

\* Neither rotation loses a credential, gets the host banned, or asks twice for
\* what was asked already (rotate_qbittorrent_password.py 757-988,
\* rotate_prowlarr_key.py 588-610).
RotationsSound == RotationSound /\ Key!KeySound

\* What a run says when it ends is so (rotate_qbittorrent_password.py 573-583,
\* rotate_prowlarr_key.py 376-438).
RunsTellTheTruth == PlainFailure /\ Key!RotatedIsFinal

\* A rotation that was begun ends, whatever run was killed or went unanswered
\* (rotate_qbittorrent_password.py 757-988, rotate_prowlarr_key.py 441-553).
RotationsEnd == []<>~(Pending \/ Key!Pending)
=============================================================================
