------------------------ MODULE BookBotImportProofs ------------------------
(* BookBotImport keeps every content and every copy sound (CopiesSound), and *)
(* destroys nothing (NothingDestroyed), for every set of torrents and titles, *)
(* every number of retries and every bound.  The inductive invariant says     *)
(* what each stage of an import has established: IInv below.                  *)
EXTENDS BookBotImport, FiniteSetTheorems, TLAPS

-----------------------------------------------------------------------------
(* The inductive invariant                                                  *)

Statuses == {"none", "processing", "retry", "rejected", "failed", "copied",
             "copied_failed", "imported", "deleted"}
Places == Titles \cup {NoTitle}
Rows == [status : Statuses, attempts : 0..MaxRetries, tries : 0..MaxRetries, dest : Places,
         waits : BOOLEAN, old : BOOLEAN]
Categories == {"downloading", "base", "imported", "absent"}
Directories == [owner : Torrents \cup {Foreign, Nobody}, marker : Torrents \cup {Nobody}]
Stages == {"none", "copy", "place", "mark", "finalize", "category", "import", "complete", "fail", "deleted"}
Cycles == [phase : {"idle", "reconcile", "process", "retain"}, seen : [All -> Categories],
           todo : SUBSET All, cur : All \cup {Nobody}, pc : Stages, plan : Places,
           moved : Directories]

\* Every variable has its type.
Typing ==
    /\ ledger \in [Torrents -> Rows]
    /\ retention \in [Arr -> {"none", "fresh", "old", "deleted"}]
    /\ category \in [All -> Categories]
    /\ library \in [Titles -> Directories]
    /\ archive \subseteq Torrents \cup {Foreign}
    /\ title \in [Torrents -> Places]
    /\ huey \in [All -> {"open", "completed", "failed"}]
    /\ cycle \in Cycles

Status(t) == ledger[t].status
Copying == {"none", "processing", "retry"}   \* no copy is recorded yet

\* A directory s that has, or had, the name x.
Marked(s, x) ==
    s.marker # Nobody =>
        /\ s.marker = s.owner
        /\ Status(s.marker) \notin {"imported", "deleted"}
        /\ Status(s.marker) = "copied" => ledger[s.marker].dest = x
Unrecorded(s) == s.owner \in Torrents /\ Status(s.owner) \in Copying => s.marker = s.owner
Sound(s, x) == Marked(s, x) /\ Unrecorded(s)

\* A marker names the directory's owner, whose copy is not finished, and a copy
\* nobody has recorded still has its marker.
DirectoriesSound == \A x \in Titles : Sound(library[x], x)

\* No torrent owns two directories.
OwnersUnique ==
    \A x, y \in Titles :
        library[x].owner \in Torrents /\ library[x].owner = library[y].owner => x = y

Unmarked(t) == \A x \in Titles : library[x].marker # t

\* While the payload is published, its name is free, nothing else has its
\* content, and what was moved away could still be put back.
Publishing ==
    At("place") =>
        /\ library[cycle.plan].owner = Nobody /\ library[cycle.plan].marker = Nobody
        /\ Sound(cycle.moved, cycle.plan)
        /\ cycle.moved.owner # T
        /\ \A x \in Titles : library[x].owner # T
        /\ cycle.moved.owner \in Torrents => \A x \in Titles : library[x].owner # cycle.moved.owner

\* What each stage of an import has established.
StageHolds ==
    /\ At("none") <=> T = Nobody
    /\ cycle.pc \in {"copy", "place", "mark"} => T \in Torrents /\ Status(T) = "processing"
    /\ cycle.pc \in {"finalize", "category", "import"} => T \in Torrents /\ Status(T) = "copied"
    /\ At("complete") => T \in Torrents /\ Status(T) = "imported"
    /\ At("fail") => T \in Torrents
    /\ At("deleted") /\ T \in Torrents => Status(T) = "imported"
    /\ cycle.pc \in {"place", "mark"} => cycle.plan \in Titles
    /\ At("mark") => library[cycle.plan].marker = T
    /\ cycle.pc \in {"category", "import"} => Unmarked(T)

\* A torrent that is past its copy, and has no marker it could be published by.
Past(t) == Status(t) \notin Copying /\ Unmarked(t) /\ (At("place") => cycle.moved.marker # t)
MovedArePast == \A t \in Torrents : category[t] = "imported" => Past(t)

\* The cycle's list is old, but what it lists as imported still is.
ListsTrue ==
    /\ cycle.phase \in {"reconcile", "process"} =>
           \A t \in All : cycle.seen[t] = "imported" => category[t] = "imported"
    /\ cycle.phase = "reconcile" => \A t \in cycle.todo : category[t] = "imported"
    /\ cycle.phase = "retain" => \A t \in cycle.todo : category[t] = "imported"

IInv ==
    /\ Typing /\ DirectoriesSound /\ OwnersUnique /\ Publishing /\ StageHolds
    /\ PayloadsKept /\ MovedArePast /\ ListsTrue

-----------------------------------------------------------------------------
(* Types                                                                    *)

\* The next stage.
LEMMA GotoTyped ==
    ASSUME cycle \in Cycles, NEW p \in Stages, Goto(p)
    PROVE  cycle' \in Cycles
BY DEF Goto, Cycles

\* The end of a torrent's turn.
LEMMA DoneTyped ==
    ASSUME cycle \in Cycles, Done
    PROVE  cycle' \in Cycles
BY DEF Done, Cycles, Stages, Places, Directories, Empty

\* The beginning of its turn.
LEMMA TakeTyped ==
    ASSUME cycle \in Cycles, NEW t \in All, NEW p \in Stages, Take(t, p)
    PROVE  cycle' \in Cycles
BY DEF Take, Cycles

\* A torrent that is passed over.
LEMMA DropTyped ==
    ASSUME cycle \in Cycles, NEW t \in All, Drop(t)
    PROVE  cycle' \in Cycles
BY DEF Drop, Cycles

\* A row of the ledger is replaced.
LEMMA RowTyped ==
    ASSUME ledger \in [Torrents -> Rows], NEW t, NEW f \in Rows, Row(t, f)
    PROVE  ledger' \in [Torrents -> Rows]
BY DEF Row

\* An attempt that is counted.
LEMMA AttemptTyped ==
    ASSUME NEW r \in Rows, r.attempts < MaxRetries
    PROVE  [r EXCEPT !.status = "processing", !.attempts = @ + 1, !.waits = FALSE] \in Rows
<1> DEFINE a == r.attempts + 1
<1>1. a \in 0..MaxRetries
  BY RetriesPositive DEF Rows
<1> HIDE DEF a
<1>2. [r EXCEPT !.status = "processing", !.attempts = a, !.waits = FALSE] \in Rows
  BY <1>1 DEF Rows, Statuses
<1> QED BY <1>2 DEF a

\* A copy that is recorded.
LEMMA CopiedTyped ==
    ASSUME NEW r \in Rows, NEW x \in Places
    PROVE  [r EXCEPT !.status = "copied", !.dest = x, !.tries = 0] \in Rows
<1>1. 0 \in 0..MaxRetries
  BY RetriesPositive
<1> QED BY <1>1 DEF Rows, Statuses

\* A move that is attempted once more.
LEMMA TriesTyped ==
    ASSUME NEW r \in Rows, ~(r.tries + 1 >= MaxRetries)
    PROVE  [r EXCEPT !.tries = @ + 1, !.waits = TRUE] \in Rows
<1> DEFINE n == r.tries + 1
<1>1. n \in 0..MaxRetries
  BY RetriesPositive DEF Rows
<1> HIDE DEF n
<1>2. [r EXCEPT !.tries = n, !.waits = TRUE] \in Rows
  BY <1>1 DEF Rows
<1> QED BY <1>2 DEF n

\* The cycle's list is made.
LEMMA BeginCycleKeeps ==
    ASSUME IInv, BeginCycle
    PROVE  IInv'
<1>1. Typing'
    <2> USE DEF IInv
    <2>1. cycle' \in Cycles
      BY DEF Typing, Cycles, Idle, Imported, Stages, Places, Directories, Empty, BeginCycle
    <2> QED BY <2>1 DEF Typing, BeginCycle
<1>2. Publishing' /\ StageHolds'
  BY NamesApart DEF BeginCycle, Idle, Publishing, At, T, StageHolds
<1>3. MovedArePast' /\ ListsTrue'
  BY NamesApart DEF IInv, BeginCycle, Idle, Imported, All, Empty, Typing, Unrecorded, Status,
         Copying, T, StageHolds, Unmarked, PayloadsKept, MovedArePast, Past, ListsTrue
<1>4. DirectoriesSound' /\ OwnersUnique' /\ PayloadsKept'
  BY DEF IInv, BeginCycle, Idle, Typing, DirectoriesSound, Sound, Marked, Unrecorded, Status,
         OwnersUnique, PayloadsKept, Kept
<1> QED BY <1>1, <1>2, <1>3, <1>4 DEF IInv

\* One loop of the cycle ends, the next takes its part of the list.
LEMMA NextLoopKeeps ==
    ASSUME IInv, NextLoop
    PROVE  IInv'
<1>1. Typing'
    <2> USE DEF IInv
    <2>1. cycle' \in Cycles
      BY DEF Typing, Cycles, Idle, Imported, Ready, All, Categories, Stages, Places, Directories, Empty, NextLoop
    <2> QED BY <2>1 DEF Typing, NextLoop
<1>2. Publishing' /\ StageHolds'
  BY NamesApart DEF IInv, NextLoop, T, Idle, Publishing, At, StageHolds
<1>3. MovedArePast' /\ ListsTrue'
  BY NamesApart DEF IInv, NextLoop, T, Ready, Imported, Idle, All, Empty, Marked, Unrecorded,
         Status, At, StageHolds, Unmarked, PayloadsKept, MovedArePast, Past, ListsTrue
<1>4. DirectoriesSound' /\ OwnersUnique' /\ PayloadsKept'
  BY DEF IInv, NextLoop, T, Ready, Empty, Typing, DirectoriesSound, Sound, Marked, Unrecorded,
         Status, OwnersUnique, PayloadsKept, Kept
<1> QED BY <1>1, <1>2, <1>3, <1>4 DEF IInv

\* An ARR torrent is seen in its imported category.
LEMMA ObserveKeeps ==
    ASSUME NEW t \in Arr, IInv, Observe(t)
    PROVE  IInv'
<1>1. Typing'
    <2> USE DEF IInv
    <2>1. cycle' \in Cycles
      BY DropTyped DEF Typing, All, Observe
    <2>2. retention' \in [Arr -> {"none", "fresh", "old", "deleted"}]
      BY DEF Typing, Observe
    <2> QED BY <2>1, <2>2 DEF Typing, Observe
<1>2. Publishing' /\ StageHolds'
  BY NamesApart DEF IInv, Observe, Pending, Drop, T, Publishing, At, StageHolds
<1>3. MovedArePast' /\ ListsTrue'
  BY NamesApart DEF IInv, Observe, Pending, Drop, T, Typing, Unrecorded, Status, Copying,
         OwnersUnique, Publishing, At, StageHolds, Unmarked, MovedArePast, Past, ListsTrue
<1>4. DirectoriesSound' /\ OwnersUnique' /\ PayloadsKept'
  BY DEF IInv, Observe, Typing, DirectoriesSound, Sound, Marked, Unrecorded, Status,
         OwnersUnique, PayloadsKept, Kept
<1> QED BY <1>1, <1>2, <1>3, <1>4 DEF IInv

\* The copy of a moved torrent is reconciled: the move was made after the marker was cleared.
LEMMA ReconcileKeeps ==
    ASSUME NEW t \in Torrents, IInv, Reconcile(t)
    PROVE  IInv'
<1>1. Typing'
    <2> USE DEF IInv
    <2>1. [ledger[t] EXCEPT !.status = "imported", !.old = @ /\ ledger[t].status = "imported"] \in Rows
      BY DEF Typing, Rows, Statuses, Reconcile
    <2>2. ledger' \in [Torrents -> Rows]
      BY <2>1, RowTyped DEF Typing, Reconcile
    <2>3. cycle' \in Cycles
      BY TakeTyped DEF Typing, Stages, All, Pending, Reconcile
    <2> QED BY <2>1, <2>2, <2>3 DEF Typing, Reconcile
<1>2. DirectoriesSound' /\ OwnersUnique'
  BY NamesApart DEF IInv, Reconcile, Pending, Reconcilable, Empty, Row, DirectoriesSound, Sound,
         Marked, Unrecorded, Status, Copying, OwnersUnique, Publishing, At, StageHolds,
         Unmarked, PayloadsKept, MovedArePast, Past, ListsTrue
<1>3. Publishing' /\ StageHolds'
  BY NamesApart DEF IInv, Reconcile, Pending, Reconcilable, Empty, Row, Take, T, Typing, Status,
         Publishing, At, StageHolds
<1>4. PayloadsKept'
  BY NamesApart DEF IInv, Reconcile, Reconcilable, Row, PayloadsKept, Kept
<1>5. MovedArePast' /\ ListsTrue'
  BY NamesApart DEF IInv, Reconcile, Pending, Reconcilable, Empty, Row, Take, T, Typing,
         Unrecorded, Status, Copying, OwnersUnique, Publishing, At, StageHolds, Unmarked,
         PayloadsKept, MovedArePast, Past, ListsTrue
<1> QED BY <1>1, <1>2, <1>3, <1>4, <1>5 DEF IInv

\* A moved torrent is left alone.
LEMMA LeaveImportedKeeps ==
    ASSUME NEW t \in Torrents, IInv, LeaveImported(t)
    PROVE  IInv'
<1>1. Typing'
    <2> USE DEF IInv
    <2>1. cycle' \in Cycles
      BY DropTyped DEF Typing, All, LeaveImported
    <2> QED BY <2>1 DEF Typing, LeaveImported
<1>2. Publishing' /\ StageHolds'
  BY NamesApart DEF IInv, LeaveImported, Pending, Drop, T, Publishing, At, StageHolds
<1>3. MovedArePast' /\ ListsTrue'
  BY NamesApart DEF IInv, LeaveImported, Pending, Drop, T, Typing, Unrecorded, Status, Copying,
         OwnersUnique, Publishing, At, StageHolds, Unmarked, MovedArePast, Past, ListsTrue
<1>4. DirectoriesSound' /\ OwnersUnique' /\ PayloadsKept'
  BY DEF IInv, LeaveImported, Typing, DirectoriesSound, Sound, Marked, Unrecorded, Status,
         OwnersUnique, PayloadsKept, Kept
<1> QED BY <1>1, <1>2, <1>3, <1>4 DEF IInv

\* A copy is begun.
LEMMA AttemptKeeps ==
    ASSUME NEW t \in Torrents, IInv, Attempt(t)
    PROVE  IInv'
<1>1. Typing'
    <2> USE DEF IInv
    <2>1. [ledger[t] EXCEPT !.status = "processing", !.attempts = @ + 1, !.waits = FALSE] \in Rows
      BY AttemptTyped DEF Typing, ShouldCopy, Attempt
    <2>2. ledger' \in [Torrents -> Rows]
      BY <2>1, RowTyped DEF Typing, Attempt
    <2>3. cycle' \in Cycles
      BY DEF Typing, Cycles, Stages, Planned, All, Attempt
    <2> QED BY <2>1, <2>2, <2>3 DEF Typing, Attempt
<1>2. DirectoriesSound' /\ OwnersUnique'
  BY NamesApart DEF IInv, Attempt, Pending, ShouldCopy, Row, Planned, T, Typing,
         DirectoriesSound, Sound, Marked, Unrecorded, Status, Copying, OwnersUnique
<1>3. Publishing' /\ StageHolds'
  BY NamesApart DEF IInv, Attempt, Pending, ShouldCopy, Row, Planned, T, Typing,
         DirectoriesSound, Sound, Marked, Status, Publishing, At, StageHolds
<1>4. PayloadsKept'
  BY NamesApart DEF IInv, Attempt, Row, PayloadsKept, Kept
<1>5. MovedArePast' /\ ListsTrue'
  BY NamesApart DEF IInv, Attempt, Pending, ShouldCopy, Row, Unrecorded, Status, Copying,
         OwnersUnique, Publishing, At, StageHolds, Unmarked, PayloadsKept, Kept, MovedArePast,
         Past, ListsTrue
<1> QED BY <1>1, <1>2, <1>3, <1>4, <1>5 DEF IInv

\* A copy that was made is finalized.
LEMMA ResumeKeeps ==
    ASSUME NEW t \in Torrents, IInv, Resume(t)
    PROVE  IInv'
<1>1. Typing'
    <2> USE DEF IInv
    <2>1. cycle' \in Cycles
      BY TakeTyped DEF Typing, Stages, All, Pending, Resume
    <2> QED BY <2>1 DEF Typing, Resume
<1>2. Publishing' /\ StageHolds'
  BY NamesApart DEF Resume, Pending, ShouldFinalize, Take, T, Status, Publishing, At, StageHolds
<1>3. MovedArePast' /\ ListsTrue'
  BY NamesApart DEF IInv, Resume, Pending, ShouldFinalize, Take, T, Typing, Unrecorded, Status,
         Copying, OwnersUnique, Publishing, At, StageHolds, Unmarked, PayloadsKept, Kept,
         MovedArePast, Past, ListsTrue
<1>4. DirectoriesSound' /\ OwnersUnique' /\ PayloadsKept'
  BY DEF IInv, Resume, Pending, Typing, DirectoriesSound, Sound, Marked, Unrecorded, Status,
         OwnersUnique, PayloadsKept, Kept
<1> QED BY <1>1, <1>2, <1>3, <1>4 DEF IInv

\* There is nothing to do for a torrent.
LEMMA IgnoreKeeps ==
    ASSUME NEW t \in Torrents, IInv, Ignore(t)
    PROVE  IInv'
<1>1. Typing'
    <2> USE DEF IInv
    <2>1. cycle' \in Cycles
      BY DropTyped DEF Typing, All, Ignore
    <2> QED BY <2>1 DEF Typing, Ignore
<1>2. Publishing' /\ StageHolds'
  BY NamesApart DEF IInv, Ignore, Pending, ShouldCopy, ShouldFinalize, Drop, T, Publishing, At,
         StageHolds
<1>3. MovedArePast' /\ ListsTrue'
  BY NamesApart DEF IInv, Ignore, Drop, T, Typing, Unrecorded, Status, Copying, OwnersUnique,
         Publishing, At, StageHolds, Unmarked, PayloadsKept, Kept, MovedArePast, Past, ListsTrue
<1>4. DirectoriesSound' /\ OwnersUnique' /\ PayloadsKept'
  BY DEF IInv, Ignore, Pending, ShouldCopy, Typing, DirectoriesSound, Sound, Marked, Unrecorded,
         Status, OwnersUnique, PayloadsKept, Kept
<1> QED BY <1>1, <1>2, <1>3, <1>4 DEF IInv

\* A torrent is deleted: the ledger proves the copy.
LEMMA DeleteKeeps ==
    ASSUME NEW t \in All, IInv, Delete(t)
    PROVE  IInv'
<1>1. Typing'
    <2> USE DEF IInv
    <2>1. cycle' \in Cycles
      BY TakeTyped DEF Typing, Stages, All, Pending, Delete
    <2>2. category' \in [All -> Categories]
      BY DEF Typing, Categories, Delete
    <2> QED BY <2>1, <2>2 DEF Typing, Delete
<1>2. Publishing' /\ StageHolds'
  BY NamesApart DEF Delete, Pending, Eligible, Take, T, Status, Publishing, At, StageHolds
<1>3. MovedArePast' /\ ListsTrue'
  BY NamesApart DEF IInv, Delete, Pending, Eligible, Take, T, Typing, Unrecorded, Status,
         Copying, OwnersUnique, Publishing, At, StageHolds, Unmarked, PayloadsKept, Kept,
         MovedArePast, Past, ListsTrue
<1>4. DirectoriesSound' /\ OwnersUnique' /\ PayloadsKept'
  BY DEF IInv, Delete, Pending, Typing, DirectoriesSound, Sound, Marked, Unrecorded, Status,
         OwnersUnique, PayloadsKept, Kept
<1> QED BY <1>1, <1>2, <1>3, <1>4 DEF IInv

\* A torrent is not deleted, or it is and the answer is lost.
LEMMA KeepKeeps ==
    ASSUME NEW t \in All, IInv, Keep(t)
    PROVE  IInv'
<1>1. Typing'
    <2> USE DEF IInv
    <2>1. cycle' \in Cycles
      BY DropTyped DEF Typing, All, Keep
    <2>2. category' \in [All -> Categories]
      BY DEF Typing, Categories, Keep
    <2> QED BY <2>1, <2>2 DEF Typing, Keep
<1>2. Publishing' /\ StageHolds'
  BY NamesApart DEF IInv, Keep, Pending, Drop, T, Publishing, At, StageHolds
<1>3. MovedArePast' /\ ListsTrue'
  BY NamesApart DEF IInv, Keep, Pending, Eligible, Drop, T, Typing, Unrecorded, Status, Copying,
         OwnersUnique, Publishing, At, StageHolds, Unmarked, PayloadsKept, Kept, MovedArePast,
         Past, ListsTrue
<1>4. DirectoriesSound' /\ OwnersUnique' /\ PayloadsKept'
  BY DEF IInv, Keep, Pending, Typing, DirectoriesSound, Sound, Marked, Unrecorded, Status,
         OwnersUnique, PayloadsKept, Kept
<1> QED BY <1>1, <1>2, <1>3, <1>4 DEF IInv

\* The payload is refused.
LEMMA RejectKeeps ==
    ASSUME IInv, Reject
    PROVE  IInv'
<1>1. Typing'
    <2> USE DEF IInv
    <2>1. T \in Torrents
      BY DEF StageHolds, At, Reject
    <2>2. [ledger[T] EXCEPT !.status = "rejected"] \in Rows
      BY <2>1 DEF Typing, Rows, Statuses, Reject
    <2>3. ledger' \in [Torrents -> Rows]
      BY <2>1, <2>2, RowTyped DEF Typing, Reject
    <2>4. cycle' \in Cycles
      BY GotoTyped DEF Typing, Stages, Reject
    <2> QED BY <2>1, <2>2, <2>3, <2>4 DEF Typing, Reject
<1>2. DirectoriesSound' /\ OwnersUnique'
  BY NamesApart DEF IInv, Reject, Conflict, Row, T, DirectoriesSound, Sound, Marked, Unrecorded,
         Status, Copying, OwnersUnique
<1>3. Publishing' /\ StageHolds'
  BY NamesApart DEF IInv, Reject, At, Importable, Adoptable, Conflict, T, Goto, Publishing,
         StageHolds
<1>4. PayloadsKept'
  BY NamesApart DEF IInv, Reject, Row, PayloadsKept, Kept
<1>5. MovedArePast' /\ ListsTrue'
  BY NamesApart DEF IInv, Reject, At, Importable, Adoptable, Conflict, Row, T, Goto, Accepted,
         Marked, Unrecorded, Status, Copying, OwnersUnique, Publishing, StageHolds, Unmarked,
         PayloadsKept, Kept, MovedArePast, Past, ListsTrue
<1> QED BY <1>1, <1>2, <1>3, <1>4, <1>5 DEF IInv

\* The published copy is adopted.
LEMMA AdoptKeeps ==
    ASSUME IInv, Adopt
    PROVE  IInv'
<1>1. Typing'
    <2> USE DEF IInv
    <2>1. cycle' \in Cycles
      BY GotoTyped DEF Typing, Stages, Adopt
    <2> QED BY <2>1 DEF Typing, Adopt
<1>2. Publishing' /\ StageHolds'
  BY NamesApart DEF IInv, Adopt, At, Importable, Adoptable, Goto, Accepted, T, Typing,
         DirectoriesSound, Sound, Marked, Unrecorded, Status, Copying, OwnersUnique, Publishing,
         StageHolds, Unmarked, PayloadsKept, ListsTrue, Cycles, Places
<1>3. MovedArePast' /\ ListsTrue'
  BY NamesApart DEF IInv, Adopt, At, Importable, Adoptable, Goto, Accepted, T, Marked,
         Unrecorded, Status, StageHolds, Unmarked, PayloadsKept, Kept, MovedArePast, Past,
         ListsTrue
<1>4. DirectoriesSound' /\ OwnersUnique' /\ PayloadsKept'
  BY DEF IInv, Adopt, At, Importable, T, Typing, DirectoriesSound, Sound, Marked, Unrecorded,
         Status, OwnersUnique, PayloadsKept, Kept
<1> QED BY <1>1, <1>2, <1>3, <1>4 DEF IInv

\* What has the planned name is moved away; it was nobody's other directory.
LEMMA ArchiveKeeps ==
    ASSUME IInv, Archive
    PROVE  IInv'
<1>1. Typing'
    <2> USE DEF IInv
    <2>1. cycle.plan \in Titles
      BY DEF Typing, Cycles, Places, Importable, Archive
    <2>2. library[cycle.plan] \in Directories
      BY <2>1 DEF Typing, Archive
    <2>3. cycle' \in Cycles
      BY <2>1, <2>2 DEF Typing, Cycles, Stages, Archive
    <2>4. library' \in [Titles -> Directories] /\ archive' \subseteq Torrents \cup {Foreign}
      BY <2>1, <2>2, <2>3 DEF Typing, Directories, Empty, Archived, Contents, Archive
    <2> QED BY <2>1, <2>2, <2>3, <2>4 DEF Typing, Archive
<1>2. DirectoriesSound' /\ OwnersUnique'
  BY NamesApart DEF IInv, Archive, At, Archived, Empty, Accepted, DirectoriesSound, Sound,
         Marked, Unrecorded, Status, OwnersUnique
<1>3. Publishing' /\ StageHolds'
  BY NamesApart DEF IInv, Archive, At, Importable, Adoptable, Conflict, Archived, Empty,
         Accepted, T, Contents, Typing, DirectoriesSound, Sound, Marked, Unrecorded, Status,
         Copying, OwnersUnique, Publishing, StageHolds, Unmarked, PayloadsKept, ListsTrue, All,
         Cycles, Places
<1>4. PayloadsKept'
  BY NamesApart DEF IInv, Archive, At, Archived, Contents, PayloadsKept, Kept
<1>5. MovedArePast' /\ ListsTrue'
  BY NamesApart DEF IInv, Archive, At, Importable, Adoptable, Conflict, Archived, Empty, Typing,
         DirectoriesSound, Sound, Marked, Unrecorded, Status, StageHolds, Unmarked,
         PayloadsKept, Kept, MovedArePast, Past, ListsTrue, All, Cycles, Places
<1> QED BY <1>1, <1>2, <1>3, <1>4, <1>5 DEF IInv

\* The payload is published: the torrent owned no other directory.
LEMMA PlaceKeeps ==
    ASSUME IInv, Place
    PROVE  IInv'
<1>1. Typing'
    <2> USE DEF IInv
    <2>1. T \in Torrents
      BY DEF StageHolds, At, Place
    <2>2. cycle' \in Cycles
      BY DEF Typing, Cycles, Stages, Directories, Empty, Place
    <2>3. library' \in [Titles -> Directories]
      BY <2>1, <2>2 DEF Typing, Directories, Place
    <2> QED BY <2>1, <2>2, <2>3 DEF Typing, Place
<1>2. DirectoriesSound' /\ OwnersUnique'
  BY NamesApart DEF IInv, Place, At, T, Empty, Typing, DirectoriesSound, Sound, Marked,
         Unrecorded, Status, OwnersUnique, Publishing, StageHolds
<1>3. Publishing' /\ StageHolds'
  BY NamesApart DEF IInv, Place, At, T, Empty, Typing, DirectoriesSound, Sound, Status,
         Publishing, StageHolds
<1>4. PayloadsKept'
  BY NamesApart DEF IInv, Place, Publishing, PayloadsKept, Kept
<1>5. MovedArePast' /\ ListsTrue'
  BY NamesApart DEF IInv, Place, At, T, Empty, Marked, Unrecorded, Status, Copying,
         OwnersUnique, Publishing, StageHolds, Unmarked, PayloadsKept, MovedArePast, Past,
         ListsTrue
<1> QED BY <1>1, <1>2, <1>3, <1>4, <1>5 DEF IInv

\* The copy is recorded: the only marker is the planned directory's.
LEMMA MarkCopiedKeeps ==
    ASSUME IInv, MarkCopied
    PROVE  IInv'
<1>1. Typing'
    <2> USE DEF IInv
    <2>1. T \in Torrents
      BY DEF StageHolds, At, MarkCopied
    <2>2. cycle.plan \in Places
      BY DEF Typing, Cycles
    <2>3. [ledger[T] EXCEPT !.status = "copied", !.dest = cycle.plan, !.tries = 0] \in Rows
      BY <2>1, <2>2, CopiedTyped DEF Typing
    <2>4. ledger' \in [Torrents -> Rows]
      BY <2>1, <2>2, <2>3, RowTyped DEF Typing, MarkCopied
    <2>5. cycle' \in Cycles
      BY GotoTyped DEF Typing, Stages, MarkCopied
    <2> QED BY <2>1, <2>2, <2>3, <2>4, <2>5 DEF Typing, MarkCopied
<1>2. DirectoriesSound' /\ OwnersUnique'
  BY NamesApart DEF IInv, MarkCopied, At, Row, T, Goto, Typing, DirectoriesSound, Sound, Marked,
         Unrecorded, Status, OwnersUnique, StageHolds
<1>3. Publishing' /\ StageHolds'
  BY NamesApart DEF IInv, MarkCopied, At, Row, T, Goto, Typing, Status, Publishing, StageHolds
<1>4. PayloadsKept'
  BY NamesApart DEF IInv, MarkCopied, At, Row, T, Goto, Typing, DirectoriesSound, Sound, Marked,
         StageHolds, PayloadsKept, Kept
<1>5. MovedArePast' /\ ListsTrue'
  BY NamesApart DEF IInv, MarkCopied, At, Row, T, Goto, Marked, Unrecorded, Status, StageHolds,
         Unmarked, MovedArePast, Past, ListsTrue
<1> QED BY <1>1, <1>2, <1>3, <1>4, <1>5 DEF IInv

\* The marker is cleared: there was no other.
LEMMA ClearMarkerKeeps ==
    ASSUME IInv, ClearMarker
    PROVE  IInv'
<1>1. Typing'
    <2> USE DEF IInv
    <2>1. cycle' \in Cycles
      BY GotoTyped DEF Typing, Stages, ClearMarker
    <2>2. library' \in [Titles -> Directories]
      BY DEF Typing, Directories, ClearMarker
    <2> QED BY <2>1, <2>2 DEF Typing, ClearMarker
<1>2. DirectoriesSound' /\ OwnersUnique'
  BY NamesApart DEF IInv, ClearMarker, At, Clearable, T, Goto, Destination, Empty, Typing,
         DirectoriesSound, Sound, Marked, Unrecorded, Status, Copying, OwnersUnique, StageHolds
<1>3. Publishing' /\ StageHolds'
  BY NamesApart DEF IInv, ClearMarker, At, Clearable, T, Goto, Destination, Empty, Typing,
         DirectoriesSound, Sound, Marked, Status, Publishing, StageHolds, Unmarked
<1>4. PayloadsKept'
  BY NamesApart DEF IInv, ClearMarker, PayloadsKept, Kept
<1>5. MovedArePast' /\ ListsTrue'
  BY NamesApart DEF IInv, ClearMarker, At, Clearable, T, Goto, Destination, Empty, Marked,
         Unrecorded, Status, StageHolds, Unmarked, PayloadsKept, Kept, MovedArePast, Past,
         ListsTrue
<1> QED BY <1>1, <1>2, <1>3, <1>4, <1>5 DEF IInv

\* The copy is given up.
LEMMA DestinationUnsafeKeeps ==
    ASSUME IInv, DestinationUnsafe
    PROVE  IInv'
<1>1. Typing'
    <2> USE DEF IInv
    <2>1. T \in Torrents
      BY DEF StageHolds, At, DestinationUnsafe
    <2>2. [ledger[T] EXCEPT !.status = "copied_failed"] \in Rows
      BY <2>1 DEF Typing, Rows, Statuses, DestinationUnsafe
    <2>3. ledger' \in [Torrents -> Rows]
      BY <2>1, <2>2, RowTyped DEF Typing, DestinationUnsafe
    <2>4. cycle' \in Cycles
      BY GotoTyped DEF Typing, Stages, DestinationUnsafe
    <2> QED BY <2>1, <2>2, <2>3, <2>4 DEF Typing, DestinationUnsafe
<1>2. DirectoriesSound' /\ OwnersUnique'
  BY NamesApart DEF IInv, DestinationUnsafe, At, Row, DirectoriesSound, Sound, Marked,
         Unrecorded, Status, Copying, OwnersUnique
<1>3. Publishing' /\ StageHolds'
  BY NamesApart DEF IInv, DestinationUnsafe, At, T, Goto, Publishing, StageHolds
<1>4. PayloadsKept'
  BY NamesApart DEF IInv, DestinationUnsafe, Row, PayloadsKept, Kept
<1>5. MovedArePast' /\ ListsTrue'
  BY NamesApart DEF IInv, DestinationUnsafe, At, Row, T, Goto, Marked, Unrecorded, Status,
         Copying, OwnersUnique, Publishing, StageHolds, Unmarked, MovedArePast, Past, ListsTrue
<1> QED BY <1>1, <1>2, <1>3, <1>4, <1>5 DEF IInv

\* The torrent is moved: its marker is gone.
LEMMA SetCategoryKeeps ==
    ASSUME IInv, SetCategory
    PROVE  IInv'
<1>1. Typing'
    <2> USE DEF IInv
    <2>1. cycle' \in Cycles
      BY GotoTyped DEF Typing, Stages, SetCategory
    <2>2. category' \in [All -> Categories]
      BY DEF Typing, Categories, SetCategory
    <2> QED BY <2>1, <2>2 DEF Typing, SetCategory
<1>2. Publishing' /\ StageHolds'
  BY NamesApart DEF IInv, SetCategory, At, T, Goto, Status, Publishing, StageHolds, Unmarked
<1>3. MovedArePast' /\ ListsTrue'
  BY NamesApart DEF IInv, SetCategory, At, T, Goto, Marked, Unrecorded, Status, Copying,
         OwnersUnique, Publishing, StageHolds, Unmarked, PayloadsKept, MovedArePast, Past,
         ListsTrue
<1>4. DirectoriesSound' /\ OwnersUnique' /\ PayloadsKept'
  BY DEF IInv, SetCategory, Typing, DirectoriesSound, Sound, Marked, Unrecorded, Status,
         OwnersUnique, PayloadsKept, Kept
<1> QED BY <1>1, <1>2, <1>3, <1>4 DEF IInv

\* The import is recorded.
LEMMA MarkImportedKeeps ==
    ASSUME IInv, MarkImported
    PROVE  IInv'
<1>1. Typing'
    <2> USE DEF IInv
    <2>1. T \in Torrents
      BY DEF StageHolds, At, MarkImported
    <2>2. [ledger[T] EXCEPT !.status = "imported", !.old = FALSE] \in Rows
      BY <2>1 DEF Typing, Rows, Statuses, MarkImported
    <2>3. ledger' \in [Torrents -> Rows]
      BY <2>1, <2>2, RowTyped DEF Typing, MarkImported
    <2>4. cycle' \in Cycles
      BY GotoTyped DEF Typing, Stages, MarkImported
    <2> QED BY <2>1, <2>2, <2>3, <2>4 DEF Typing, MarkImported
<1>2. DirectoriesSound' /\ OwnersUnique'
  BY NamesApart DEF IInv, MarkImported, At, Row, T, Goto, Typing, DirectoriesSound, Sound,
         Marked, Unrecorded, Status, Copying, OwnersUnique, StageHolds, Unmarked
<1>3. Publishing' /\ StageHolds'
  BY NamesApart DEF IInv, MarkImported, At, Row, T, Goto, Typing, Status, Publishing, StageHolds
<1>4. PayloadsKept'
  BY NamesApart DEF IInv, MarkImported, At, Row, Status, StageHolds, PayloadsKept, Kept
<1>5. MovedArePast' /\ ListsTrue'
  BY NamesApart DEF IInv, MarkImported, At, Row, T, Goto, Marked, Unrecorded, Status, Copying,
         OwnersUnique, Publishing, StageHolds, Unmarked, MovedArePast, Past, ListsTrue
<1> QED BY <1>1, <1>2, <1>3, <1>4, <1>5 DEF IInv

\* Huey is told of the completion.
LEMMA CompleteKeeps ==
    ASSUME IInv, Complete
    PROVE  IInv'
<1>1. Typing'
    <2> USE DEF IInv
    <2>1. cycle' \in Cycles
      BY DoneTyped DEF Typing, Complete, Tell
    <2>2. huey' \in [All -> {"open", "completed", "failed"}]
      BY DEF Typing, Complete, Tell
    <2> QED BY <2>1, <2>2 DEF Typing, Complete, Tell
<1>2. Publishing' /\ StageHolds'
  BY NamesApart DEF Complete, Tell, At, T, Done, Publishing, StageHolds
<1>3. PayloadsKept'
  BY NamesApart DEF IInv, Complete, Tell, Status, StageHolds, PayloadsKept, Kept
<1>4. MovedArePast' /\ ListsTrue'
  BY NamesApart DEF IInv, Complete, Tell, At, T, Done, Empty, Marked, Unrecorded, Status,
         StageHolds, Unmarked, PayloadsKept, Kept, MovedArePast, Past, ListsTrue
<1>5. DirectoriesSound' /\ OwnersUnique'
  BY DEF IInv, Complete, Tell, DirectoriesSound, Sound, Marked, Unrecorded, Status, OwnersUnique
<1> QED BY <1>1, <1>2, <1>3, <1>4, <1>5 DEF IInv

\* Huey is told of the failure.
LEMMA FailKeeps ==
    ASSUME IInv, Fail
    PROVE  IInv'
<1>1. Typing'
    <2> USE DEF IInv
    <2>1. cycle' \in Cycles
      BY DoneTyped DEF Typing, Fail, Tell
    <2>2. huey' \in [All -> {"open", "completed", "failed"}]
      BY DEF Typing, Fail, Tell
    <2> QED BY <2>1, <2>2 DEF Typing, Fail, Tell
<1>2. Publishing' /\ StageHolds'
  BY NamesApart DEF Fail, Tell, At, T, Done, Publishing, StageHolds
<1>3. PayloadsKept'
  BY NamesApart DEF IInv, Fail, Tell, PayloadsKept, Kept
<1>4. MovedArePast' /\ ListsTrue'
  BY NamesApart DEF IInv, Fail, Tell, At, T, Done, Empty, Marked, Unrecorded, Status,
         StageHolds, Unmarked, PayloadsKept, Kept, MovedArePast, Past, ListsTrue
<1>5. DirectoriesSound' /\ OwnersUnique'
  BY DEF IInv, Fail, Tell, DirectoriesSound, Sound, Marked, Unrecorded, Status, OwnersUnique
<1> QED BY <1>1, <1>2, <1>3, <1>4, <1>5 DEF IInv

\* The process dies.
LEMMA CrashKeeps ==
    ASSUME IInv, Crash
    PROVE  IInv'
<1>1. Typing'
    <2> USE DEF IInv
    <2>1. cycle' \in Cycles
      BY DEF Typing, Cycles, Idle, Stages, Places, Categories, Directories, Empty, All, Crash
    <2> QED BY <2>1 DEF Typing, Crash
<1>2. Publishing' /\ StageHolds'
  BY NamesApart DEF IInv, Crash, Idle, Publishing, At, T, StageHolds
<1>3. MovedArePast' /\ ListsTrue'
  BY NamesApart DEF IInv, Crash, Idle, All, Empty, Typing, Unrecorded, Status, Copying, T,
         StageHolds, Unmarked, MovedArePast, Past, ListsTrue
<1>4. DirectoriesSound' /\ OwnersUnique' /\ PayloadsKept'
  BY DEF IInv, Crash, Typing, DirectoriesSound, Sound, Marked, Unrecorded, Status, OwnersUnique,
         PayloadsKept, Kept
<1> QED BY <1>1, <1>2, <1>3, <1>4 DEF IInv

\* A download ends.
LEMMA DownloadedKeeps ==
    ASSUME NEW t \in All, IInv, Downloaded(t)
    PROVE  IInv'
<1>1. Typing'
    <2> USE DEF IInv
    <2>1. category' \in [All -> Categories]
      BY DEF Typing, Categories, Downloaded
    <2> QED BY <2>1 DEF Typing, Downloaded
<1>2. MovedArePast' /\ ListsTrue'
  BY NamesApart DEF IInv, Downloaded, Typing, DirectoriesSound, Status, Copying, OwnersUnique,
         Publishing, At, T, StageHolds, Unmarked, PayloadsKept, MovedArePast, Past, ListsTrue
<1>3. DirectoriesSound' /\ OwnersUnique' /\ Publishing' /\ StageHolds' /\ PayloadsKept'
  BY DEF IInv, Downloaded, Typing, DirectoriesSound, Sound, Marked, Unrecorded, Status, Copying,
         OwnersUnique, Publishing, At, T, StageHolds, Unmarked, PayloadsKept, Kept
<1> QED BY <1>1, <1>2, <1>3 DEF IInv

\* A torrent is added again.
LEMMA ReturnKeeps ==
    ASSUME NEW t \in All, IInv, Return(t)
    PROVE  IInv'
<1>1. Typing'
    <2> USE DEF IInv
    <2>1. category' \in [All -> Categories] /\ huey' \in [All -> {"open", "completed", "failed"}]
      BY DEF Typing, Categories, Return
    <2> QED BY <2>1 DEF Typing, Return
<1>2. PayloadsKept'
  BY NamesApart DEF IInv, Return, PayloadsKept, Kept
<1>3. MovedArePast' /\ ListsTrue'
  BY NamesApart DEF IInv, Return, Typing, DirectoriesSound, Status, Copying, OwnersUnique,
         Publishing, At, T, StageHolds, Unmarked, PayloadsKept, MovedArePast, Past, ListsTrue
<1>4. DirectoriesSound' /\ OwnersUnique' /\ Publishing' /\ StageHolds'
  BY DEF IInv, Return, Typing, DirectoriesSound, Sound, Marked, Unrecorded, Status,
         OwnersUnique, Publishing, At, T, StageHolds, Unmarked
<1> QED BY <1>1, <1>2, <1>3, <1>4 DEF IInv

\* A retry falls due.
LEMMA ElapseKeeps ==
    ASSUME NEW t \in Torrents, IInv, Elapse(t)
    PROVE  IInv'
<1>1. Typing'
    <2> USE DEF IInv
    <2>1. [ledger[t] EXCEPT !.waits = FALSE] \in Rows
      BY DEF Typing, Rows, Statuses, Elapse
    <2>2. ledger' \in [Torrents -> Rows]
      BY <2>1, RowTyped DEF Typing, Elapse
    <2> QED BY <2>1, <2>2 DEF Typing, Elapse
<1>2. DirectoriesSound' /\ OwnersUnique'
  BY NamesApart DEF IInv, Elapse, Row, DirectoriesSound, Sound, Marked, Unrecorded, Status,
         OwnersUnique
<1>3. Publishing' /\ StageHolds'
  BY NamesApart DEF IInv, Elapse, Row, Typing, DirectoriesSound, Sound, Marked, Unrecorded,
         Status, Publishing, At, T, StageHolds, Unmarked
<1>4. PayloadsKept'
  BY NamesApart DEF IInv, Elapse, Row, PayloadsKept, Kept
<1>5. MovedArePast' /\ ListsTrue'
  BY NamesApart DEF IInv, Elapse, Row, Typing, DirectoriesSound, Status, Copying, OwnersUnique,
         Publishing, At, T, StageHolds, Unmarked, PayloadsKept, MovedArePast, Past, ListsTrue
<1> QED BY <1>1, <1>2, <1>3, <1>4, <1>5 DEF IInv

\* A title is settled anew.
LEMMA RetitleKeeps ==
    ASSUME NEW t \in Torrents, IInv, Retitle(t)
    PROVE  IInv'
<1>1. Typing'
    <2> USE DEF IInv
    <2>1. title' \in [Torrents -> Places]
      BY DEF Typing, Places, Retitle
    <2> QED BY <2>1 DEF Typing, Retitle
<1>2. DirectoriesSound' /\ OwnersUnique' /\ Publishing' /\ StageHolds' /\ PayloadsKept' /\ MovedArePast' /\ ListsTrue'
  BY DEF IInv, Retitle, Typing, DirectoriesSound, Sound, Marked, Unrecorded, Status, Copying,
         OwnersUnique, Publishing, At, T, StageHolds, Unmarked, PayloadsKept, Kept,
         MovedArePast, Past, ListsTrue
<1> QED BY <1>1, <1>2 DEF IInv

\* The retention interval passes.
LEMMA AgeKeeps ==
    ASSUME NEW t \in All, IInv, Age(t)
    PROVE  IInv'
<1>1. Typing'
  <2>1. CASE t \in Arr
    BY <2>1 DEF IInv, Typing, Age
  <2>2. CASE t \in Torrents
    <3>1. [ledger[t] EXCEPT !.old = TRUE] \in Rows
      BY <2>2 DEF IInv, Typing, Rows
    <3>2. ledger' \in [Torrents -> Rows]
      BY <2>2, <3>1, RowTyped, NamesApart DEF IInv, Typing, Age
    <3> QED BY <2>2, <3>2, NamesApart DEF IInv, Typing, Age
  <2> QED BY <2>1, <2>2 DEF All
<1>2. \A u \in Torrents : ledger'[u].status = ledger[u].status /\ ledger'[u].dest = ledger[u].dest
  BY DEF IInv, Typing, Rows, Age, Row
<1>3. UNCHANGED <<category, library, archive, huey, cycle>>
  BY DEF Age
<1>4. DirectoriesSound' /\ OwnersUnique'
  BY <1>2, <1>3, NamesApart DEF IInv, Typing, Directories, DirectoriesSound, OwnersUnique, Sound, Marked, Unrecorded, Status
<1>5. Publishing' /\ StageHolds'
  BY <1>2, <1>3, NamesApart DEF IInv, Typing, Cycles, Directories, Publishing, StageHolds, Sound, Marked, Unrecorded, Status, Unmarked, At, T
<1>6. PayloadsKept' /\ MovedArePast' /\ ListsTrue'
  BY <1>2, <1>3 DEF IInv, PayloadsKept, Kept, MovedArePast, ListsTrue, Past, Unmarked, Status, At
<1> QED BY <1>1, <1>4, <1>5, <1>6 DEF IInv

\* The deletion is recorded.
LEMMA MarkDeletedKeeps ==
    ASSUME IInv, MarkDeleted
    PROVE  IInv'
<1>1. T \in All /\ At("deleted") /\ (T \in Torrents => Status(T) = "imported")
  BY DEF IInv, Typing, Cycles, StageHolds, MarkDeleted, At, T
<1>2. cycle' \in Cycles
  BY DoneTyped DEF IInv, Typing, MarkDeleted
<1>3. cycle'.pc = "none" /\ cycle'.cur = Nobody /\ cycle'.phase = cycle.phase
      /\ cycle'.seen = cycle.seen /\ cycle'.todo = cycle.todo
  BY DEF IInv, Typing, Cycles, MarkDeleted, Done
<1>4. UNCHANGED <<category, library, archive, title, huey>>
  BY DEF MarkDeleted
<1>5. Typing' /\ \A u \in Torrents : /\ ledger'[u].status # ledger[u].status =>
                                           ledger'[u].status = "deleted" /\ ledger[u].status = "imported"
                                     /\ ledger'[u].dest = ledger[u].dest
  <2>1. CASE T \in Arr
    BY <2>1, <1>2, <1>4 DEF IInv, Typing, MarkDeleted
  <2>2. CASE T \in Torrents
    <3>1. [ledger[T] EXCEPT !.status = "deleted"] \in Rows
      BY <2>2 DEF IInv, Typing, Rows, Statuses
    <3>2. ledger' \in [Torrents -> Rows] /\ retention' = retention
      BY <2>2, <3>1, RowTyped, NamesApart DEF IInv, Typing, MarkDeleted
    <3>3. ledger' = [ledger EXCEPT ![T] = [ledger[T] EXCEPT !.status = "deleted"]]
      BY <2>2, NamesApart DEF MarkDeleted, Row
    <3>4. ledger[T].status = "imported" /\ ledger \in [Torrents -> Rows]
      BY <1>1, <2>2 DEF Status, IInv, Typing
    <3>5. \A u \in Torrents : /\ ledger'[u].status # ledger[u].status =>
                                    ledger'[u].status = "deleted" /\ ledger[u].status = "imported"
                              /\ ledger'[u].dest = ledger[u].dest
      BY <3>3, <3>4 DEF Rows
    <3> QED BY <1>2, <1>4, <3>2, <3>5 DEF IInv, Typing
  <2> QED BY <1>1, <2>1, <2>2 DEF All
<1>6. DirectoriesSound' /\ OwnersUnique'
  BY <1>4, <1>5, NamesApart DEF IInv, Typing, Directories, DirectoriesSound, OwnersUnique, Sound, Marked, Unrecorded, Status, Copying
<1>7. Publishing' /\ StageHolds'
  BY <1>3 DEF Publishing, StageHolds, At, T
<1>8. PayloadsKept'
  BY <1>4, <1>5 DEF IInv, PayloadsKept, Kept
<1>9. MovedArePast' /\ ListsTrue'
  BY <1>3, <1>4, <1>5 DEF IInv, MovedArePast, ListsTrue, Past, Unmarked, Status, At, Copying
<1> QED BY <1>5, <1>6, <1>7, <1>8, <1>9 DEF IInv

\* The move fails: the torrent may be moved all the same, and its marker is gone.
LEMMA SetCategoryFailsKeeps ==
    ASSUME IInv, SetCategoryFails
    PROVE  IInv'
<1>1. T \in Torrents /\ At("category") /\ Status(T) = "copied" /\ Unmarked(T) /\ cycle.cur = T
  BY DEF IInv, StageHolds, SetCategoryFails, At, T
<1>2. category' \in [All -> Categories]
      /\ \A t \in All : category'[t] # category[t] => t = T /\ category'[t] = "imported"
  BY DEF IInv, Typing, SetCategoryFails, Categories
<1>3. UNCHANGED <<retention, library, archive, title, huey>>
  BY DEF SetCategoryFails
<1>4. /\ ledger' \in [Torrents -> Rows] /\ cycle' \in Cycles
      /\ \A t \in Torrents : ledger'[t].dest = ledger[t].dest
      /\ \A t \in Torrents : ledger'[t].status # ledger[t].status =>
            t = T /\ ledger'[t].status = "copied_failed"
      /\ cycle'.phase = cycle.phase /\ cycle'.seen = cycle.seen /\ cycle'.todo = cycle.todo
      /\ \/ cycle'.pc = "fail" /\ cycle'.cur = T
         \/ cycle'.pc = "none" /\ cycle'.cur = Nobody
  <2>1. CASE ledger[T].tries + 1 >= MaxRetries
    <3>1. [ledger[T] EXCEPT !.status = "copied_failed"] \in Rows
      BY <1>1 DEF IInv, Typing, Rows, Statuses
    <3>2. Row(T, [ledger[T] EXCEPT !.status = "copied_failed"]) /\ Goto("fail")
      BY <2>1 DEF SetCategoryFails, CategoryFailed
    <3>3. ledger' \in [Torrents -> Rows] /\ cycle' \in Cycles
      BY <3>1, <3>2, RowTyped, GotoTyped DEF IInv, Typing, Stages
    <3> QED BY <1>1, <3>2, <3>3 DEF IInv, Typing, Rows, Cycles, Row, Goto
  <2>2. CASE ~(ledger[T].tries + 1 >= MaxRetries)
    <3>1. [ledger[T] EXCEPT !.tries = @ + 1, !.waits = TRUE] \in Rows
      BY <1>1, <2>2, TriesTyped DEF IInv, Typing
    <3>2. Row(T, [ledger[T] EXCEPT !.tries = @ + 1, !.waits = TRUE]) /\ Done
      BY <2>2 DEF SetCategoryFails, CategoryFailed
    <3>3. ledger' \in [Torrents -> Rows] /\ cycle' \in Cycles
      BY <3>1, <3>2, RowTyped, DoneTyped DEF IInv, Typing
    <3> QED BY <1>1, <3>2, <3>3 DEF IInv, Typing, Rows, Cycles, Row, Done
  <2> QED BY <2>1, <2>2
<1>5. Typing'
  BY <1>2, <1>3, <1>4 DEF IInv, Typing
<1>6. DirectoriesSound' /\ OwnersUnique'
  BY <1>3, <1>4, NamesApart DEF IInv, Typing, Directories, DirectoriesSound, OwnersUnique, Sound, Marked,
     Unrecorded, Status, Copying
<1>7. Publishing' /\ StageHolds'
  BY <1>1, <1>4, NamesApart DEF Publishing, StageHolds, At, T
<1>8. PayloadsKept'
  BY <1>3, <1>4 DEF IInv, PayloadsKept, Kept
<1>9. MovedArePast'
  <2>1. ASSUME NEW t \in Torrents, category'[t] = "imported"
        PROVE  Status(t) \notin Copying /\ Unmarked(t)
    BY <1>1, <1>2, <2>1 DEF IInv, MovedArePast, Past, Copying, All
  <2>2. ASSUME NEW t \in Torrents, Status(t) \notin Copying, Unmarked(t)
        PROVE  Past(t)'
    BY <1>3, <1>4, <2>2 DEF Past, Unmarked, Status, At, Copying
  <2> QED BY <2>1, <2>2 DEF MovedArePast
<1>10. ListsTrue'
  BY <1>2, <1>4 DEF IInv, Typing, Cycles, ListsTrue
<1> QED BY <1>5, <1>6, <1>7, <1>8, <1>9, <1>10 DEF IInv

\* The copy fails, and what was moved away is put back: the name is still free.
LEMMA CopyFailsKeeps ==
    ASSUME IInv, CopyFails
    PROVE  IInv'
<1>1. T \in Torrents /\ Status(T) = "processing" /\ cycle.cur = T /\ cycle.pc \in {"copy", "place", "mark"}
  BY DEF IInv, StageHolds, CopyFails, At, T
<1>2. UNCHANGED <<retention, category, title, huey>>
  BY DEF CopyFails
<1>3. /\ ledger' \in [Torrents -> Rows] /\ cycle' \in Cycles
      /\ \A t \in Torrents : ledger'[t].dest = ledger[t].dest
      /\ \A t \in Torrents : ledger'[t].status # ledger[t].status =>
            t = T /\ ledger[t].status = "processing" /\ ledger'[t].status \in {"failed", "retry"}
      /\ cycle'.phase = cycle.phase /\ cycle'.seen = cycle.seen /\ cycle'.todo = cycle.todo
      /\ \/ cycle'.pc = "fail" /\ cycle'.cur = T
         \/ cycle'.pc = "none" /\ cycle'.cur = Nobody
  <2>1. CASE ledger[T].attempts >= MaxRetries
    <3>1. [ledger[T] EXCEPT !.status = "failed"] \in Rows
      BY <1>1 DEF IInv, Typing, Rows, Statuses
    <3>2. Row(T, [ledger[T] EXCEPT !.status = "failed"]) /\ Goto("fail")
      BY <2>1 DEF CopyFails, AttemptFailed
    <3>3. ledger' \in [Torrents -> Rows] /\ cycle' \in Cycles
      BY <3>1, <3>2, RowTyped, GotoTyped DEF IInv, Typing, Stages
    <3> QED BY <1>1, <3>2, <3>3 DEF IInv, Typing, Rows, Cycles, Row, Goto, Status
  <2>2. CASE ~(ledger[T].attempts >= MaxRetries)
    <3>1. [ledger[T] EXCEPT !.status = "retry", !.waits = TRUE] \in Rows
      BY <1>1 DEF IInv, Typing, Rows, Statuses
    <3>2. Row(T, [ledger[T] EXCEPT !.status = "retry", !.waits = TRUE]) /\ Done
      BY <2>2 DEF CopyFails, AttemptFailed
    <3>3. ledger' \in [Torrents -> Rows] /\ cycle' \in Cycles
      BY <3>1, <3>2, RowTyped, DoneTyped DEF IInv, Typing
    <3> QED BY <1>1, <3>2, <3>3 DEF IInv, Typing, Rows, Cycles, Row, Done, Status
  <2> QED BY <2>1, <2>2
<1>4. StageHolds' /\ Publishing'
  BY <1>1, <1>3, NamesApart DEF StageHolds, Publishing, At, T
<1>5. CASE UNCHANGED <<library, archive>>
  <2>1. Typing'
    BY <1>2, <1>3, <1>5 DEF IInv, Typing
  <2>2. DirectoriesSound' /\ OwnersUnique'
    BY <1>3, <1>5, NamesApart DEF IInv, Typing, Directories, DirectoriesSound, OwnersUnique, Sound, Marked,
       Unrecorded, Status, Copying
  <2>3. PayloadsKept' /\ MovedArePast' /\ ListsTrue'
    BY <1>1, <1>2, <1>3, <1>5 DEF IInv, PayloadsKept, Kept, MovedArePast, ListsTrue, Past, Unmarked,
       Status, At, Copying, All
  <2> QED BY <1>4, <2>1, <2>2, <2>3 DEF IInv
<1>6. CASE At("place") /\ PutBack
  <2> DEFINE p == cycle.plan
             m == cycle.moved
  <2>1. /\ p \in Titles /\ m \in Directories
        /\ library[p].owner = Nobody /\ library[p].marker = Nobody
        /\ Sound(m, p) /\ m.owner # T
        /\ m.owner \in Torrents => \A x \in Titles : library[x].owner # m.owner
    BY <1>6 DEF IInv, Typing, Cycles, StageHolds, Publishing, At
  <2>2. /\ library' \in [Titles -> Directories] /\ library'[p] = m
        /\ \A x \in Titles : x # p => library'[x] = library[x]
        /\ archive' = archive \ Contents(m)
    BY <1>6, <2>1 DEF IInv, Typing, PutBack
  <2> HIDE DEF p, m
  <2>3. Typing'
    BY <1>2, <1>3, <2>2 DEF IInv, Typing
  <2>4. \A x \in Titles : \/ library'[x] = library[x] /\ Sound(library[x], x)
                          \/ x = p /\ library'[x] = m /\ Sound(m, x)
    BY <2>1, <2>2 DEF IInv, DirectoriesSound
  <2>5. DirectoriesSound'
    BY <1>3, <2>1, <2>2, <2>4, NamesApart DEF IInv, Typing, Directories, DirectoriesSound, Sound, Marked,
       Unrecorded, Status, Copying
  <2>6. OwnersUnique'
    BY <2>1, <2>2 DEF IInv, OwnersUnique
  <2>7. \A c \in Torrents : Kept(c) => Kept(c)'
    BY <2>1, <2>2, NamesApart DEF Kept, Contents
  <2>8. PayloadsKept'
    BY <1>2, <1>3, <2>7 DEF IInv, PayloadsKept
  <2>9. \A t \in Torrents : Past(t) => m.marker # t
    BY <1>6 DEF Past, m
  <2>10. MovedArePast' /\ ListsTrue'
    BY <1>1, <1>2, <1>3, <2>2, <2>9 DEF IInv, MovedArePast, ListsTrue, Past, Unmarked, Status, At, Copying
  <2> QED BY <1>4, <2>3, <2>5, <2>6, <2>8, <2>10 DEF IInv
<1> QED BY <1>5, <1>6 DEF CopyFails

-----------------------------------------------------------------------------
(* The invariant, and what it says                                          *)

\* The invariant is inductive.
LEMMA InitInvariant == Init => IInv
<1> SUFFICES ASSUME Init PROVE IInv
  OBVIOUS
<1>1. Typing
  <2>1. NoRow \in Rows
    BY RetriesPositive DEF NoRow, Rows, Statuses, Places
  <2>2. Empty \in Directories /\ [Empty EXCEPT !.owner = Foreign] \in Directories
    BY DEF Empty, Directories
  <2>3. Idle \in Cycles
    BY <2>2 DEF Idle, Cycles, Stages, Places, Categories
  <2> QED BY <2>1, <2>2, <2>3 DEF Init, Typing, Categories, Places
<1>2. \A x \in Titles : library[x].marker = Nobody /\ library[x].owner \in {Nobody, Foreign}
  BY DEF Init, Empty
<1>3. DirectoriesSound /\ OwnersUnique
  BY <1>2, NamesApart DEF DirectoriesSound, OwnersUnique, Sound, Marked, Unrecorded
<1>4. cycle.pc = "none" /\ T = Nobody /\ cycle.phase = "idle"
  BY DEF Init, Idle, T
<1>5. Publishing /\ StageHolds /\ ListsTrue
  BY <1>4 DEF Publishing, StageHolds, ListsTrue, At
<1>6. PayloadsKept /\ MovedArePast
  BY DEF Init, NoRow, PayloadsKept, MovedArePast, All
<1> QED BY <1>1, <1>3, <1>5, <1>6 DEF IInv

\* Every step keeps the invariant.
LEMMA NextInvariant == IInv /\ [Next]_vars => IInv'
<1> SUFFICES ASSUME IInv, [Next]_vars PROVE IInv'
  OBVIOUS
<1>1. CASE Loops
  BY <1>1, BeginCycleKeeps, NextLoopKeeps, ObserveKeeps, ReconcileKeeps, LeaveImportedKeeps, AttemptKeeps,
     ResumeKeeps, IgnoreKeeps, DeleteKeeps, KeepKeeps DEF Loops
<1>2. CASE Work
  BY <1>2, RejectKeeps, AdoptKeeps, ArchiveKeeps, PlaceKeeps, MarkCopiedKeeps, CopyFailsKeeps,
     ClearMarkerKeeps, DestinationUnsafeKeeps, SetCategoryKeeps, SetCategoryFailsKeeps, MarkImportedKeeps,
     CompleteKeeps, FailKeeps, MarkDeletedKeeps DEF Work
<1>3. CASE Environment
  BY <1>3, CrashKeeps, DownloadedKeeps, AgeKeeps, ReturnKeeps, ElapseKeeps, RetitleKeeps DEF Environment
<1>4. CASE UNCHANGED vars
  BY <1>4 DEF vars, IInv, Typing, DirectoriesSound, Sound, Marked, Unrecorded, Status, OwnersUnique, Publishing,
     StageHolds, Unmarked, PayloadsKept, Kept, MovedArePast, Past, ListsTrue, At, T
<1> QED BY <1>1, <1>2, <1>3, <1>4 DEF Next

\* No torrent owns two directories, counted as the run counts them.
LEMMA OneDirectoryHolds == OwnersUnique => OneDirectory
<1> SUFFICES ASSUME OwnersUnique, NEW t \in Torrents
             PROVE  Cardinality({x \in Titles : library[x].owner = t}) <= 1
  BY DEF OneDirectory
<1> DEFINE S == {x \in Titles : library[x].owner = t}
<1>1. CASE S = {}
  <2>1. Cardinality(S) = 0
    BY <1>1, FS_EmptySet
  <2> QED BY <2>1
<1>2. CASE S # {}
  <2>1. PICK x \in S : TRUE
    BY <1>2
  <2>2. S = {x}
    BY <2>1 DEF OwnersUnique
  <2>3. Cardinality(S) = 1
    BY <2>2, FS_Singleton
  <2> QED BY <2>3
<1> QED BY <1>1, <1>2

\* The invariant is what the runs check, and more.
LEMMA InvariantSound == IInv => CopiesSound
<1> SUFFICES ASSUME IInv PROVE CopiesSound
  OBVIOUS
<1>1. TypeOK
  BY DEF IInv, Typing, TypeOK, Rows, Statuses, Places, Categories, Directories
<1>2. MarkerEnds
  BY DEF IInv, Typing, Directories, DirectoriesSound, Sound, Marked, Status, MarkerEnds
<1> QED BY <1>1, <1>2, OneDirectoryHolds DEF IInv, CopiesSound

\* The ledger is sound: a payload reported as copied, or whose torrent was
\* deleted, is in the library or the duplicates, in one directory, and a finished
\* import has no marker it could be taken for an interrupted one by.
THEOREM CopiesStaySound == Spec => []CopiesSound
<1>1. IInv /\ [Next]_vars => IInv'
  BY NextInvariant
<1> QED BY <1>1, InitInvariant, InvariantSound, PTL DEF Spec

-----------------------------------------------------------------------------
(* Nothing is destroyed                                                     *)

\* What is moved away is archived, what is published has a free name, and what
\* is put back leaves the archive for the library.
LEMMA StepKeepsContents ==
    ASSUME IInv, [Next]_vars, NEW c \in Torrents \cup {Foreign}, Kept(c)
    PROVE  Kept(c)'
<1>1. CASE Archive
  BY <1>1, NamesApart DEF IInv, Typing, Directories, Kept, Archive, Archived, Contents, Empty
<1>2. CASE Place
  BY <1>2, NamesApart DEF IInv, Typing, StageHolds, Publishing, Kept, Place, At
<1>3. CASE CopyFails
  <2>1. CASE UNCHANGED <<library, archive>>
    BY <2>1 DEF Kept
  <2>2. CASE At("place") /\ PutBack
    BY <2>2, NamesApart DEF IInv, Typing, Publishing, StageHolds, Kept, PutBack, Contents, At
  <2> QED BY <1>3, <2>1, <2>2 DEF CopyFails
<1>4. CASE ClearMarker
  BY <1>4 DEF IInv, Typing, Directories, Kept, ClearMarker
<1>5. CASE UNCHANGED <<library, archive>>
  BY <1>5 DEF Kept
<1> QED BY <1>1, <1>2, <1>3, <1>4, <1>5 DEF Next, Loops, Work, Environment, vars, BeginCycle, NextLoop, Observe,
     Reconcile, LeaveImported, Attempt, Resume, Ignore, Delete, Keep, Reject, Adopt, MarkCopied,
     DestinationUnsafe, SetCategory, SetCategoryFails, MarkImported, Complete, Fail, Tell, MarkDeleted, Crash,
     Downloaded, Age, Return, Elapse, Retitle

\* What the retention deletes: a torrent that is imported now, whatever the list
\* says, and whose copy the ledger proves.
DeletedImported(t) ==
    category[t] # "absent" /\ category'[t] = "absent" =>
        /\ category[t] = "imported"
        /\ t \in Arr => retention[t] = "old"
        /\ t \in Torrents => ledger[t].status = "imported" /\ ledger[t].old /\ Kept(t)

\* A step that deletes a torrent deletes an imported one, whose copy the ledger proves.
LEMMA StepDeletesImported ==
    ASSUME IInv, [Next]_vars, NEW t \in All
    PROVE  DeletedImported(t)
<1>1. ASSUME NEW u \in All, Delete(u) \/ Keep(u)
      PROVE  DeletedImported(t)
  <2>1. category[t] # "absent" /\ category'[t] = "absent" =>
            t = u /\ Eligible(u) /\ category[u] = "imported"
    BY <1>1 DEF IInv, Typing, ListsTrue, Delete, Keep, Pending
  <2> QED BY <2>1, NamesApart DEF IInv, PayloadsKept, Eligible, DeletedImported
<1>2. CASE SetCategory \/ SetCategoryFails
  BY <1>2 DEF IInv, Typing, SetCategory, SetCategoryFails, DeletedImported
<1>3. ASSUME NEW u \in All, Downloaded(u) \/ Return(u)
      PROVE  DeletedImported(t)
  BY <1>3 DEF IInv, Typing, Downloaded, Return, DeletedImported
<1>4. CASE UNCHANGED category
  BY <1>4 DEF DeletedImported
<1> QED BY <1>1, <1>2, <1>3, <1>4 DEF Next, Loops, Work, Environment, vars, BeginCycle, NextLoop, Observe,
     Reconcile, LeaveImported, Attempt, Resume, Ignore, Reject, Adopt, Archive, Place, MarkCopied, CopyFails,
     ClearMarker, DestinationUnsafe, MarkImported, Complete, Fail, Tell, MarkDeleted, Crash, Age, Elapse, Retitle

\* No import makes a content disappear, and no payload is deleted that nobody
\* proved to have copied, wherever the process stops and whatever is lost.
THEOREM NothingIsDestroyed == Spec => NothingDestroyed
<1>1. IInv /\ [Next]_vars => IInv'
  BY NextInvariant
<1>2. IInv /\ [Next]_vars => [\A c \in Torrents \cup {Foreign} : Kept(c) => Kept(c)']_vars
  BY StepKeepsContents
<1>3. IInv /\ [Next]_vars =>
        [\A t \in All : category[t] # "absent" /\ category'[t] = "absent" =>
            /\ category[t] = "imported"
            /\ t \in Arr => retention[t] = "old"
            /\ t \in Torrents => ledger[t].status = "imported" /\ ledger[t].old /\ Kept(t)]_vars
  BY StepDeletesImported DEF DeletedImported
<1> QED BY <1>1, <1>2, <1>3, InitInvariant, PTL DEF Spec, NothingDestroyed, ContentsKept, DeletesOnlyImported
=============================================================================
