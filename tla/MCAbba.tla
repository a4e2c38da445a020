-------------------------------- MODULE MCAbba --------------------------------
(* The audiobook side for TLC: the adapter's journal, Huey's dispatch and the *)
(* repair of old ledgers.  The three share no variable, so a behaviour of     *)
(* this module is a behaviour of one of them, chosen at the start, while the  *)
(* others stand still: every state of each is reached, and nothing else.      *)
EXTENDS AbbaAdapter, TLC

CONSTANTS r1, r2, r3, k1, k2, h1, h2, NoCandidate, MaxRestarts

VARIABLES part,                                   \* the one that runs
          rows, own, asked, worker, poll, restarts,     \* AbbaDispatch
          oldJournal, oldRows, oldBooks, starts         \* LedgerMigration

dispatchVars == <<rows, own, asked, worker, poll, restarts>>
migrationVars == <<oldJournal, oldRows, oldBooks, starts>>

Dispatch == INSTANCE AbbaDispatch WITH
    Requests <- Correlations, NoRequest <- NoCorrelation, Silent <- {}

Ids == 1..Cardinality(Correlations)

Migration == INSTANCE LedgerMigration WITH Ledgers <- {"journal", "rows", "lazy"},
    journal <- oldJournal, rows <- oldRows, lazy <- oldBooks

Still(name, from, x) == part # name => x = from

MCInit ==
    /\ part \in {"adapter", "dispatch", "migration"}
    /\ Init /\ Dispatch!Init
    /\ Still("adapter", [k \in Candidates |-> h1], page)
    /\ IF part = "migration" THEN Migration!Init
       ELSE /\ oldJournal = [c \in Ids |-> Migration!NoEntry]
            /\ oldRows = [c \in Ids |-> Migration!NoRequest]
            /\ oldBooks = [c \in Ids |-> Migration!NoBook]
            /\ starts = 0

AdapterStep == part = "adapter" /\ Next /\ UNCHANGED <<dispatchVars, migrationVars>>
DispatchStep == part = "dispatch" /\ Dispatch!Next /\ UNCHANGED <<vars, migrationVars>>
MigrationStep == part = "migration" /\ Migration!Next /\ UNCHANGED <<vars, dispatchVars>>

MCNext == UNCHANGED part /\ (AdapterStep \/ DispatchStep \/ MigrationStep)
MCVars == <<part, vars, dispatchVars, migrationVars>>
MCSpec == MCInit /\ [][MCNext]_MCVars

Symmetric == Permutations(Correlations) \cup Permutations(Candidates) \cup Permutations(Hashes)

-----------------------------------------------------------------------------
(* The properties of the two instances                                     *)

\* What the adapter holds for a request, Huey tracks, and both agree on the
\* owner of a listing and of a hash (database.py 4840-5061, huey.py 1277-1584).
LedgersAgree == Dispatch!LedgersAgree

\* The unique indexes can be built after the repair and aliases lead to owners
\* (app.py 471-847, database.py 368-409).
LedgersRepaired == Migration!LedgersRepaired

\* What was sent, followed or completed still is, and a second start finds
\* nothing left to repair (app.py 494-518, database.py 1565-1832).
RepairIsFinal == Migration!RepairIsFinal
=============================================================================
