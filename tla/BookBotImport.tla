--------------------------- MODULE BookBotImport ---------------------------
(* BookBot's cycle (src/scripts/processing): completed torrents are copied   *)
(* into the library, moved to their -imported category, reported to Huey and *)
(* deleted after the retention interval.  The payload's copy, qBittorrent's  *)
(* category, BookBot's ledger and Huey's row change in separate steps, and   *)
(* the process may stop between any two of them.                             *)
EXTENDS Naturals, FiniteSets

CONSTANTS Torrents,      \* torrents in BookBot's own base categories
          Arr,           \* torrents an ARR application imports itself
          Titles,        \* directory names of one library
          NoTitle, Nobody,
          Foreign,       \* content the library already had
          MaxRetries,    \* BOOKBOT_MAX_RETRIES
          Scenes         \* bounds: the torrents there are, how often each thing
                         \* happens, whether the retention interval passes

ASSUME RetriesPositive == MaxRetries \in Nat \ {0}
\* BookBot imports from categories no ARR application uses.
ASSUME NamesApart ==
    /\ Torrents \cap Arr = {}
    /\ Nobody \notin Torrents \cup Arr \cup {Foreign} /\ Foreign \notin Torrents \cup Arr

VARIABLES ledger,     \* imports: one row for each torrent
          retention,  \* retention: what is known of an ARR torrent's age
          category,   \* qBittorrent: the torrent's category, "absent" if deleted
          library,    \* each directory's content and its .bookbot-import.json
          archive,    \* duplicates: contents moved out of the way
          payload,    \* what the torrent's files are: importable or not
          title,      \* the directory a torrent's request names now
          huey,       \* the request that waits for the torrent
          cycle,      \* the running cycle
          bounds      \* the scene, and what is left of its counters
vars == <<ledger, retention, category, library, archive, payload, title, huey, cycle, bounds>>

All == Torrents \cup Arr

NoRow == [status |-> "none", attempts |-> 0, tries |-> 0, dest |-> NoTitle,
          waits |-> FALSE, old |-> FALSE]
Empty == [owner |-> Nobody, marker |-> Nobody]
Idle == [phase |-> "idle", seen |-> [t \in All |-> "absent"], todo |-> {},
         cur |-> Nobody, pc |-> "none", plan |-> NoTitle, moved |-> Empty]

T == cycle.cur
At(pc) == cycle.pc = pc
Goto(pc) == cycle' = [cycle EXCEPT !.pc = pc]
Done == cycle' = [cycle EXCEPT !.cur = Nobody, !.pc = "none", !.plan = NoTitle, !.moved = Empty]
Take(t, pc) == cycle' = [cycle EXCEPT !.todo = @ \ {t}, !.cur = t, !.pc = pc]
Drop(t) == cycle' = [cycle EXCEPT !.todo = @ \ {t}]
Row(t, f) == ledger' = [ledger EXCEPT ![t] = f]

Pending(phase, t) == cycle.phase = phase /\ T = Nobody /\ t \in cycle.todo

-----------------------------------------------------------------------------
(* The cycle's three loops over one list of torrents                       *)

Imported(seen) == {t \in All : seen[t] = "imported"}
Ready(seen) == {t \in Torrents : seen[t] = "base"}

BeginCycle ==
    /\ cycle.phase = "idle"
    /\ cycle' = [Idle EXCEPT !.phase = "reconcile", !.seen = category, !.todo = Imported(category)]
    /\ UNCHANGED <<ledger, retention, category, library, archive, payload, title, huey, bounds>>

NextLoop ==
    /\ cycle.phase # "idle" /\ T = Nobody /\ cycle.todo = {}
    /\ cycle' = CASE cycle.phase = "reconcile" ->
                       [cycle EXCEPT !.phase = "process", !.todo = Ready(cycle.seen)]
                  [] cycle.phase = "process" ->
                       [cycle EXCEPT !.phase = "retain", !.todo = Imported(cycle.seen)]
                  [] OTHER -> Idle
    /\ UNCHANGED <<ledger, retention, category, library, archive, payload, title, huey, bounds>>

-----------------------------------------------------------------------------
(* First loop: reconcile what is already in an imported category           *)

\* An ARR torrent ages from the first time it is seen there.
Observe(t) ==
    /\ Pending("reconcile", t) /\ t \in Arr
    /\ retention' = [retention EXCEPT ![t] = IF @ = "none" THEN "fresh" ELSE @]
    /\ Drop(t)
    /\ UNCHANGED <<ledger, category, library, archive, payload, title, huey, bounds>>

\* Mutant: only a copy whose row is still open is reconciled.
CopiedOnly(t) == ledger[t].status = "copied"

\* The ledger knows a copy for the torrent, reported to Huey or not.
Reconcilable(t) == ledger[t].status \in {"copied", "imported"}

\* The move to the imported category was the last thing that was done.
Reconcile(t) ==
    /\ Pending("reconcile", t) /\ t \in Torrents
    /\ Reconcilable(t) /\ library[ledger[t].dest] # Empty
    /\ Row(t, [ledger[t] EXCEPT !.status = "imported", !.old = @ /\ ledger[t].status = "imported"])
    /\ Take(t, "complete")
    /\ UNCHANGED <<retention, category, library, archive, payload, title, huey, bounds>>

\* Nothing to reconcile, or the directory cannot be verified this time.
LeaveImported(t) ==
    /\ Pending("reconcile", t) /\ t \in Torrents
    /\ Drop(t)
    /\ UNCHANGED <<ledger, retention, category, library, archive, payload, title, huey, bounds>>

-----------------------------------------------------------------------------
(* Second loop: copy and finalize                                          *)

\* Mutant: the last attempt is not counted.
ShouldCopyOnce(t) ==
    /\ ledger[t].status \in {"none", "processing", "retry"}
    /\ ledger[t].attempts <= MaxRetries /\ ~ledger[t].waits

ShouldCopy(t) ==
    /\ ledger[t].status \in {"none", "processing", "retry"}
    /\ ledger[t].attempts < MaxRetries /\ ~ledger[t].waits

ShouldFinalize(t) ==
    ledger[t].status = "copied" /\ ledger[t].tries < MaxRetries /\ ~ledger[t].waits

\* Files BookBot may import: regular, of a supported kind, in their category.
Accepted(t) == payload[t] = "good"

\* The name Huey's exactly correlated row gives, none if that is uncertain.
Planned(t) == title[t]

\* begin_attempt is durable before anything is copied; the plan is made once.
Attempt(t) ==
    /\ Pending("process", t) /\ ShouldCopy(t)
    /\ Row(t, [ledger[t] EXCEPT !.status = "processing", !.attempts = @ + 1, !.waits = FALSE])
    /\ cycle' = [cycle EXCEPT !.todo = @ \ {t}, !.cur = t, !.pc = "copy", !.plan = Planned(t)]
    /\ UNCHANGED <<retention, category, library, archive, payload, title, huey, bounds>>

Resume(t) ==
    /\ Pending("process", t) /\ ShouldFinalize(t)
    /\ Take(t, "finalize")
    /\ UNCHANGED <<ledger, retention, category, library, archive, payload, title, huey, bounds>>

Ignore(t) ==
    /\ Pending("process", t) /\ ~ShouldCopy(t) /\ ~ShouldFinalize(t)
    /\ Drop(t)
    /\ UNCHANGED <<ledger, retention, category, library, archive, payload, title, huey, bounds>>

\* A copy of this torrent that was published under the planned name.  Its
\* metadata.opf is taken to be the one that would be written now; the code makes a
\* new copy when they differ.
Adoptable == library[cycle.plan].marker = T

\* Mutant: nobody looks for a copy under another name.
NoConflict == FALSE

\* A copy of this torrent that was published under another name.  The code looks
\* for it only when the title came with audiobook metadata.
Conflict == \E x \in Titles \ {cycle.plan} : library[x].marker = T

Importable == Accepted(T) /\ cycle.plan # NoTitle

\* An unsafe or unsupported payload, an uncertain correlation, or a conflict.
Reject ==
    /\ At("copy") /\ (Importable => ~Adoptable /\ Conflict)
    /\ Row(T, [ledger[T] EXCEPT !.status = "rejected"])
    /\ Goto("fail")
    /\ UNCHANGED <<retention, category, library, archive, payload, title, huey, bounds>>

Adopt ==
    /\ At("copy") /\ Importable /\ Adoptable
    /\ Goto("mark")
    /\ UNCHANGED <<ledger, retention, category, library, archive, payload, title, huey, bounds>>

Contents(s) == {s.owner} \ {Nobody}

\* Mutant: what was there is overwritten.
NotArchived(s) == archive

Archived(s) == archive \cup Contents(s)

\* The payload is staged; what has its name is moved to the duplicates.
Archive ==
    /\ At("copy") /\ Importable /\ ~Adoptable /\ ~Conflict
    /\ archive' = Archived(library[cycle.plan])
    /\ library' = [library EXCEPT ![cycle.plan] = Empty]
    /\ cycle' = [cycle EXCEPT !.pc = "place", !.moved = library[cycle.plan]]
    /\ UNCHANGED <<ledger, retention, category, payload, title, huey, bounds>>

\* Mutant: the copy is recorded before it is published.
PlaceLate ==
    /\ At("place")
    /\ cycle' = [cycle EXCEPT !.pc = "mark", !.moved = Empty]
    /\ UNCHANGED <<ledger, retention, category, library, archive, payload, title, huey, bounds>>

\* os.replace publishes the payload and its marker at once.
Place ==
    /\ At("place")
    /\ library' = [library EXCEPT ![cycle.plan] = [owner |-> T, marker |-> T]]
    /\ cycle' = [cycle EXCEPT !.pc = "mark", !.moved = Empty]
    /\ UNCHANGED <<ledger, retention, category, archive, payload, title, huey, bounds>>

MarkCopied ==
    /\ At("mark")
    /\ Row(T, [ledger[T] EXCEPT !.status = "copied", !.dest = cycle.plan, !.tries = 0])
    /\ Goto("finalize")
    /\ UNCHANGED <<retention, category, library, archive, payload, title, huey, bounds>>

\* What was moved away is put back.
PutBack ==
    /\ library' = [library EXCEPT ![cycle.plan] = cycle.moved]
    /\ archive' = archive \ Contents(cycle.moved)

\* The copy is attempted again later, up to MaxRetries times.
AttemptFailed ==
    IF ledger[T].attempts >= MaxRetries
    THEN Row(T, [ledger[T] EXCEPT !.status = "failed"]) /\ Goto("fail")
    ELSE Row(T, [ledger[T] EXCEPT !.status = "retry", !.waits = TRUE]) /\ Done

\* Any other exception up to there.
CopyFails ==
    /\ cycle.pc \in {"copy", "place", "mark"}
    /\ IF At("place") /\ cycle.moved # Empty THEN PutBack ELSE UNCHANGED <<library, archive>>
    /\ AttemptFailed
    /\ UNCHANGED <<retention, category, payload, title, huey, bounds>>

Destination == library[ledger[T].dest]

\* The destination is a directory, and its marker, if any, is the torrent's.
Clearable == Destination # Empty /\ Destination.marker \in {Nobody, T}

\* Mutant: the marker is left for a later cycle.
ClearMarkerLater ==
    /\ At("finalize") /\ Clearable
    /\ Goto("category")
    /\ UNCHANGED <<ledger, retention, category, library, archive, payload, title, huey, bounds>>

ClearMarker ==
    /\ At("finalize") /\ Clearable
    /\ library' = [library EXCEPT ![ledger[T].dest].marker = Nobody]
    /\ Goto("category")
    /\ UNCHANGED <<ledger, retention, category, archive, payload, title, huey, bounds>>

\* The destination is not as it was left, or cannot be read: no more attempts.
DestinationUnsafe ==
    /\ At("finalize")
    /\ Row(T, [ledger[T] EXCEPT !.status = "copied_failed"])
    /\ Goto("fail")
    /\ UNCHANGED <<retention, category, library, archive, payload, title, huey, bounds>>

SetCategory ==
    /\ At("category")
    /\ category' = [category EXCEPT ![T] = "imported"]
    /\ Goto("import")
    /\ UNCHANGED <<ledger, retention, library, archive, payload, title, huey, bounds>>

\* Only the move is attempted again, the copy is not.
CategoryFailed ==
    IF ledger[T].tries + 1 >= MaxRetries
    THEN Row(T, [ledger[T] EXCEPT !.status = "copied_failed"]) /\ Goto("fail")
    ELSE Row(T, [ledger[T] EXCEPT !.tries = @ + 1, !.waits = TRUE]) /\ Done

\* The call fails, or it is carried out and its answer is lost.
SetCategoryFails ==
    /\ At("category")
    /\ \E c \in {category[T], "imported"} : category' = [category EXCEPT ![T] = c]
    /\ CategoryFailed
    /\ UNCHANGED <<retention, library, archive, payload, title, huey, bounds>>

MarkImported ==
    /\ At("import")
    /\ Row(T, [ledger[T] EXCEPT !.status = "imported", !.old = FALSE])
    /\ Goto("complete")
    /\ UNCHANGED <<retention, category, library, archive, payload, title, huey, bounds>>

\* Huey's row is updated only while it is open; a locked database is skipped.
Tell(pc, status) ==
    /\ At(pc)
    /\ \E h \in {huey[T], status} :
           huey' = [huey EXCEPT ![T] = IF @ = "open" THEN h ELSE @]
    /\ Done
    /\ UNCHANGED <<ledger, retention, category, library, archive, payload, title, bounds>>

Complete == Tell("complete", "completed")
Fail == Tell("fail", "failed")

-----------------------------------------------------------------------------
(* Third loop: retention                                                   *)

\* Mutant: age alone is proof enough.
OldEnoughAlone(t) == t \in Torrents \/ retention[t] = "old"

Eligible(t) ==
    \/ t \in Arr /\ retention[t] = "old"
    \/ t \in Torrents /\ ledger[t].status = "imported" /\ ledger[t].old

Delete(t) ==
    /\ Pending("retain", t) /\ Eligible(t)
    /\ category' = [category EXCEPT ![t] = "absent"]
    /\ Take(t, "deleted")
    /\ UNCHANGED <<ledger, retention, library, archive, payload, title, huey, bounds>>

\* Not due, or the deletion fails, or its answer is lost.
Keep(t) ==
    /\ Pending("retain", t)
    /\ \E c \in {category[t]} \cup (IF Eligible(t) THEN {"absent"} ELSE {}) :
           category' = [category EXCEPT ![t] = c]
    /\ Drop(t)
    /\ UNCHANGED <<ledger, retention, library, archive, payload, title, huey, bounds>>

MarkDeleted ==
    /\ At("deleted")
    /\ IF T \in Arr
       THEN retention' = [retention EXCEPT ![T] = "deleted"] /\ UNCHANGED ledger
       ELSE Row(T, [ledger[T] EXCEPT !.status = "deleted"]) /\ UNCHANGED retention
    /\ Done
    /\ UNCHANGED <<category, library, archive, payload, title, huey, bounds>>

-----------------------------------------------------------------------------
(* The process and its surroundings                                        *)

\* The process dies, or an error outside the handlers ends the cycle.
Crash ==
    /\ cycle.phase # "idle" /\ bounds.crashes > 0
    /\ cycle' = Idle
    /\ bounds' = [bounds EXCEPT !.crashes = @ - 1]
    /\ UNCHANGED <<ledger, retention, category, library, archive, payload, title, huey>>

Downloaded(t) ==
    /\ category[t] = "downloading"
    /\ category' = [category EXCEPT ![t] = IF t \in Arr THEN "imported" ELSE "base"]
    /\ UNCHANGED <<ledger, retention, library, archive, payload, title, huey, cycle, bounds>>

\* next_retry_at passes.
Elapse(t) ==
    /\ ledger[t].waits
    /\ Row(t, [ledger[t] EXCEPT !.waits = FALSE])
    /\ UNCHANGED <<retention, category, library, archive, payload, title, huey, cycle, bounds>>

\* The retention interval passes.
Age(t) ==
    /\ bounds.retention
    /\ IF t \in Arr
       THEN /\ retention[t] = "fresh" /\ retention' = [retention EXCEPT ![t] = "old"]
            /\ UNCHANGED ledger
       ELSE /\ ledger[t].status = "imported" /\ ~ledger[t].old
            /\ Row(t, [ledger[t] EXCEPT !.old = TRUE]) /\ UNCHANGED retention
    /\ UNCHANGED <<category, library, archive, payload, title, huey, cycle, bounds>>

\* The title of the torrent's request is settled anew in Huey.
Retitle(t) ==
    /\ t \in bounds.torrents /\ bounds.retitles > 0
    /\ \E x \in (Titles \cup {NoTitle}) \ {title[t]} : title' = [title EXCEPT ![t] = x]
    /\ bounds' = [bounds EXCEPT !.retitles = @ - 1]
    /\ UNCHANGED <<ledger, retention, category, library, archive, payload, huey, cycle>>

\* The same torrent is added again for a new request.
Return(t) ==
    /\ t \in bounds.torrents /\ category[t] = "absent" /\ bounds.returns > 0
    /\ category' = [category EXCEPT ![t] = "downloading"]
    /\ huey' = [huey EXCEPT ![t] = "open"]
    /\ bounds' = [bounds EXCEPT !.returns = @ - 1]
    /\ UNCHANGED <<ledger, retention, library, archive, payload, title, cycle>>

Init ==
    /\ bounds \in Scenes
    /\ ledger = [t \in Torrents |-> NoRow]
    /\ retention = [t \in Arr |-> "none"]
    /\ category = [t \in All |-> IF t \in bounds.torrents THEN "downloading" ELSE "absent"]
    /\ library \in [Titles -> {Empty, [Empty EXCEPT !.owner = Foreign]}]
    /\ archive = {}
    /\ payload \in [Torrents -> {"good", "unsafe"}]
    /\ title \in [Torrents -> Titles \cup {NoTitle}]
    /\ \A t \in Torrents : IF t \in bounds.torrents THEN title[t] # NoTitle
                          ELSE title[t] = NoTitle /\ payload[t] = "good"
    /\ huey = [t \in All |-> "open"]
    /\ cycle = Idle

Loops ==
    \/ BeginCycle \/ NextLoop
    \/ \E t \in Arr : Observe(t)
    \/ \E t \in Torrents : Reconcile(t) \/ LeaveImported(t) \/ Attempt(t) \/ Resume(t) \/ Ignore(t)
    \/ \E t \in All : Delete(t) \/ Keep(t)
Work ==
    \/ Reject \/ Adopt \/ Archive \/ Place \/ MarkCopied \/ CopyFails
    \/ ClearMarker \/ DestinationUnsafe \/ SetCategory \/ SetCategoryFails
    \/ MarkImported \/ Complete \/ Fail \/ MarkDeleted
Environment ==
    \/ Crash
    \/ \E t \in All : Downloaded(t) \/ Age(t) \/ Return(t)
    \/ \E t \in Torrents : Elapse(t) \/ Retitle(t)
Next == Loops \/ Work \/ Environment
Spec == Init /\ [][Next]_vars

\* The process is restarted and its loop goes on; a destination that can be
\* verified again and again, and a database that is writable again and again,
\* are verified and written some time.
Fairness ==
    /\ WF_vars(Loops) /\ WF_vars(Work)
    /\ \A t \in Torrents : /\ WF_vars(Elapse(t)) /\ SF_vars(Reconcile(t))
                           /\ SF_vars(Complete /\ T = t /\ huey'[t] # "open")
FairSpec == Spec /\ Fairness

-----------------------------------------------------------------------------
(* Properties                                                              *)

TypeOK ==
    /\ \A t \in Torrents :
           /\ ledger[t].status \in {"none", "processing", "retry", "rejected", "failed", "copied",
                                    "copied_failed", "imported", "deleted"}
           /\ ledger[t].attempts \in 0..MaxRetries /\ ledger[t].tries \in 0..MaxRetries
           /\ ledger[t].dest \in Titles \cup {NoTitle} /\ title[t] \in Titles \cup {NoTitle}
    /\ \A t \in Arr : retention[t] \in {"none", "fresh", "old", "deleted"}
    /\ \A t \in All : category[t] \in {"downloading", "base", "imported", "absent"}
    /\ \A x \in Titles : library[x].owner \in Torrents \cup {Foreign, Nobody}
    /\ archive \subseteq Torrents \cup {Foreign}

Kept(c) == c \in archive \/ \E x \in Titles : library[x].owner = c

\* Whatever fails or stops between two steps, a payload BookBot has reported as
\* copied, or whose torrent it deleted, is in the library or in the duplicates
\* (storage.py 262-330, service.py 296-391).
PayloadsKept ==
    \A t \in Torrents :
        (ledger[t].status \in {"copied", "imported", "deleted"} \/ huey[t] = "completed") => Kept(t)

\* No import makes anything disappear that the library or the duplicates held.
ContentsKept == [][\A c \in Torrents \cup {Foreign} : Kept(c) => Kept(c)']_vars

\* A retried copy is adopted or refused, never published under a second name
\* (storage.py 362-436).
OneDirectory ==
    \A t \in Torrents : Cardinality({x \in Titles : library[x].owner = t}) <= 1

\* The marker of an interrupted import is gone before the torrent is moved, so a
\* finished import is never taken for an interrupted one (service.py 366-391).
MarkerEnds ==
    \A x \in Titles : library[x].marker # Nobody =>
        ledger[library[x].marker].status \notin {"imported", "deleted"}

\* A payload is deleted only in an imported category, only after the interval,
\* and for BookBot's own categories only when its ledger proves the copy
\* (docs/wysearr-lessons-learned.md 39-41), however stale the cycle's list is.
DeletesOnlyImported ==
    [][\A t \in All : category[t] # "absent" /\ category'[t] = "absent" =>
          /\ category[t] = "imported"
          /\ t \in Arr => retention[t] = "old"
          /\ t \in Torrents => ledger[t].status = "imported" /\ ledger[t].old /\ Kept(t)]_vars

\* Nothing is destroyed: neither a content that was in the library or the
\* duplicates, nor a payload nobody proved to have copied (storage.py 299-436,
\* service.py 137-189).
NothingDestroyed == ContentsKept /\ DeletesOnlyImported

\* A copy that was made is reported: it ends with Huey told of the completion or
\* with the ledger's explicit failure, across crashes and lost answers.
CopiesAreReported ==
    \A t \in Torrents :
        ledger[t].status \in {"copied", "imported"} ~>
            (huey[t] # "open" \/ ledger[t].status = "copied_failed")

\* The ledger is sound, every copy is in one place and its marker is true.
CopiesSound == TypeOK /\ PayloadsKept /\ OneDirectory /\ MarkerEnds
=============================================================================
