------------------------ MODULE RequestIntakeProofs ------------------------
(***************************************************************************)
(* Theorems about RequestIntake, for any messages, targets, candidates,    *)
(* threads and worlds, and any number of rows, restarts and re-drives.     *)
(*                                                                         *)
(* The invariant has three layers: what one row of requests can be, what   *)
(* two rows can be together, and who works on which row.  A transaction is *)
(* one of two things to the tables: it writes one row, or it folds a set   *)
(* of rows onto an owner; each has its lemma.                              *)
(***************************************************************************)
EXTENDS RequestIntake, FiniteSetTheorems, WellFoundedInduction, TLAPS

-----------------------------------------------------------------------------
(* What one row can be                                                     *)

DbType == [row : [Rows -> Row], alias : [Messages -> Rows \cup {0}]]

\* The work a row names, and its kind, in the world W.
Work(W, x) == IF x.msg = None THEN NoTarget ELSE W.target[x.msg]
Sort(W, x) == IF Work(W, x) = NoTarget THEN "none" ELSE Kind[Work(W, x)]

Unsettled == {"none", "over", "refused"}

\* The columns of a row agree with its status, whatever its kind.
StatusSound(x) ==
    /\ x.status = "absent" => x.msg = None /\ x.key = NoTarget /\ x.canonical = 0
                              /\ x.cand = None /\ x.hash = None
    /\ x.status # "absent" => x.msg \in Messages
    /\ x.canonical # 0 => x.status = "failed" /\ x.prompt \in Unsettled
                          /\ x.retry \notin RetryLive
    /\ x.cand # None => x.status \in {"processing", "queued", "completed", "failed"}
                        /\ x.prompt # "claimed"
    /\ x.hash # None => x.status \in {"queued", "completed", "failed"} /\ x.cand # None
    /\ x.prompt \in {"posting", "open"} <=> x.status = "awaiting_selection"
    /\ x.status = "new" => x.prompt = "none"

\* The retry of a row waits while the row is failed, runs while it is
\* processing, and awaits the import while it is queued.
RetrySound(x) ==
    /\ x.retry \in {"queued", "blocked"} => x.status = "failed"
    /\ x.retry = "retrying" => x.status = "processing"
    /\ x.retry = "awaiting_import" => x.status = "queued"

\* What a row's kind excludes.  A row without its key is older than the column,
\* and only films among those are ever driven on.
KindSound(W, x) ==
    /\ x.key \in {NoTarget, Work(W, x)}
    /\ x.key = NoTarget /\ x.status # "absent" => x.msg \in W.legacy \/ Work(W, x) = NoTarget
    /\ x.key = NoTarget /\ Sort(W, x) \in {"abba", "ebook"} => x.status = "needs_selection"
    /\ Work(W, x) = NoTarget => x.status \in {"absent", "new", "needs_selection", "failed"}
                              /\ x.canonical = 0
    /\ Sort(W, x) = "ebook" => x.prompt \in Unsettled /\ x.status # "new"
    /\ Sort(W, x) # "ebook" => x.retry = "none"
    /\ Sort(W, x) # "abba" => x.cand = None /\ x.hash = None

RowSound(W, x) == StatusSound(x) /\ RetrySound(x) /\ KindSound(W, x)

-----------------------------------------------------------------------------
(* What two rows can be together                                           *)

LiveRow(x) == x.status \in Active /\ x.canonical = 0
Keyed(x, y) == x.key # NoTarget /\ x.key = y.key

Pair(x, y) ==
    /\ Keyed(x, y) => ~(x.status \in Active /\ y.status \in Active)
    /\ Keyed(x, y) /\ x.retry \in RetryLive => y.status \notin Active /\ y.retry \notin RetryLive
    /\ x.msg # None => x.msg # y.msg
    /\ LiveRow(x) /\ LiveRow(y) => /\ x.cand # None => x.cand # y.cand
                                   /\ x.hash # None => x.hash # y.hash

\* The owner x has swept its twin y.  A start-up keys settled rows that predate
\* target_key and sweeps nothing.
Swept(W, again, x, y) ==
    LiveRow(x) /\ x.status \in Committed /\ Sort(W, x) # "ebook" /\ Keyed(x, y)
    /\ ~(x.msg \in W.legacy /\ again)
    => y.status # "needs_selection"

\* What was folded leads to a row that was not, and so does its delivery.
Folded(d) ==
    /\ \A r \in Rows : d.row[r].canonical # 0 =>
           d.row[d.row[r].canonical].canonical = 0 /\ d.alias[d.row[r].msg] # 0
    /\ \A m \in Messages : d.alias[m] # 0 => d.row[d.alias[m]].canonical = 0

Core(W, d) ==
    /\ d \in DbType
    /\ \A r \in Rows : RowSound(W, d.row[r])
    /\ \A r, s \in Rows : r # s => Pair(d.row[r], d.row[s])
    /\ Folded(d)

Twins(W, again, d) ==
    \A r, s \in Rows : r # s => Swept(W, again, d.row[r], d.row[s])

-----------------------------------------------------------------------------
(* Who works on which row                                                  *)

WorkerRow == [pc : {"idle", "look", "create", "decline", "start", "dispatch", "persist", "post"},
              msg : Messages \cup {None}, row : Rows \cup {0}]
BatchRow == [pc : {"idle", "next", "key", "drive", "offer", "post"}, plan : SUBSET Rows,
             asked : SUBSET (Targets \cup {NoTarget}), row : Rows \cup {0}]

NoRow == {"idle", "look", "create"}

\* The thread t's row x is where the thread's last transaction left it.
ThreadRow(t, x) ==
    /\ t.pc \in NoRow <=> t.row = 0
    /\ t.pc \in {"look", "create"} => t.msg \in Messages
    /\ t.pc \notin NoRow => x.canonical = 0
    /\ t.pc = "decline" => x.status = "new" /\ Sort(world, x) = "none"
    /\ t.pc = "start" => x.status = "new" /\ Sort(world, x) \notin {"none", "ebook"}
    /\ t.pc \in {"dispatch", "persist"} => x.status = "processing"
    /\ t.pc = "post" => x.prompt = "posting"

\* A thread's row is its own.
ThreadSound(w) ==
    /\ ThreadRow(worker[w], db.row[worker[w].row])
    /\ \A v \in Workers : worker[w].row # 0 /\ worker[v].row = worker[w].row => v = w

\* A row of the batch's plan still waits, or has been folded since.
Waits(x) ==
    /\ Sort(world, x) = "arr"
    /\ x.canonical # 0 \/ (x.status = "needs_selection" /\ x.prompt \in {"none", "over"})

\* The row x the batch is at.
DrivenRow(b, x) ==
    /\ b.pc \in {"idle", "next"} <=> b.row = 0
    /\ b.pc \in {"key", "drive"} => Waits(x)
    /\ b.pc \in {"offer", "post"} => Sort(world, x) = "arr"
    /\ b.pc = "offer" => \/ x.status = "failed"
                         \/ /\ x.status = "processing" /\ x.prompt \in {"none", "over"}
                            /\ x.canonical = 0
    /\ b.pc = "post" => x.status \in {"failed", "needs_selection"} \/ x.prompt = "posting"

BatchSound ==
    /\ DrivenRow(redrive, db.row[redrive.row])
    /\ redrive.row \notin redrive.plan
    /\ \A q \in redrive.plan : Waits(db.row[q])
    /\ redrive.pc \in {"offer", "post"} => ~Held(redrive.row)

Typed ==
    /\ world \in Worlds
    /\ worker \in [Workers -> WorkerRow]
    /\ redrive \in BatchRow
    /\ restarts \in 0..MaxRestarts /\ redrives \in 0..MaxRedrives

IInv ==
    /\ Typed
    /\ Core(world, db)
    /\ Twins(world, restarts > 0, db)
    /\ \A w \in Workers : ThreadSound(w)
    /\ BatchSound
    /\ NobodyStranded

-----------------------------------------------------------------------------
(* Choices                                                                 *)

\* Every set of rows has a first one.
LEMMA NatMin ==
    ASSUME NEW T \in SUBSET Nat, T # {}
    PROVE  \E m \in T : \A k \in T : m <= k
<1> DEFINE below == {0..k : k \in T}
<1>1. below \subseteq FiniteSubsetsOf(Nat) /\ below # {}
  <2>1. ASSUME NEW k \in T PROVE 0..k \in FiniteSubsetsOf(Nat)
    <3>1. IsFiniteSet(0..k)
      BY FS_Interval
    <3> QED  BY <3>1 DEF FiniteSubsetsOf
  <2> QED  BY <2>1
<1>2. PICK x \in below : \A y \in below : ~(<<y, x>> \in StrictSubsetOrdering(Nat))
  <2> HIDE DEF below
  <2> QED  BY <1>1, FS_StrictSubsetOrderingWellFounded, WFMin
<1>3. PICK m \in T : x = 0..m
  BY <1>2
<1>4. ASSUME NEW k \in T, k < m PROVE FALSE
  <2>1. 0..k \in below
    OBVIOUS
  <2>2. m \in x /\ m \notin 0..k /\ \A i \in 0..k : i \in x
    BY <1>3, <1>4
  <2>3. (0..k) \subseteq Nat /\ x \subseteq Nat
    BY <1>3
  <2>4. <<0..k, x>> \in StrictSubsetOrdering(Nat)
    BY <2>2, <2>3 DEF StrictSubsetOrdering
  <2> QED  BY <1>2, <2>1, <2>4
<1> QED  BY <1>4

\* Row numbers start at one; zero is no row.
LEMMA RowsNat == Rows \subseteq Nat /\ 0 \notin Rows
BY WorldsAssumption DEF Rows

\* The oldest row of a set is one of it.
LEMMA MinOf ==
    ASSUME NEW S \in SUBSET Rows, S # {}
    PROVE  Min(S) \in S
<1>1. S \in SUBSET Nat
  BY RowsNat
<1>2. \E m \in S : \A k \in S : m <= k
  BY <1>1, NatMin
<1> QED  BY <1>2 DEF Min

\* So is the row that got furthest.
LEMMA FurthestOf ==
    ASSUME NEW d, NEW S \in SUBSET Rows, S # {}
    PROVE  Furthest(d, S) \in S
<1> DEFINE rank(r) == CASE d.row[r].status = "completed" -> 0
                        [] d.row[r].status = "queued" -> 1
                        [] OTHER -> 2
           best(T) == \E r \in T : \A s \in S : rank(r) < rank(s) \/ (rank(r) = rank(s) /\ r <= s)
           done == {r \in S : rank(r) = 0}
           sent == {r \in S : rank(r) = 1}
<1>1. S \subseteq Nat /\ \A r \in S : rank(r) \in 0..2
  <2>1. S \subseteq Nat
    BY RowsNat
  <2>2. \A r \in S : rank(r) \in 0..2
    OBVIOUS
  <2> QED  BY <2>1, <2>2
<1> HIDE DEF rank
<1>2. CASE done # {}
  <2>1. PICK m \in done : \A k \in done : m <= k
    BY <1>1, <1>2, NatMin
  <2>2. \A s \in S : rank(m) < rank(s) \/ (rank(m) = rank(s) /\ m <= s)
    BY <1>1, <2>1
  <2> QED  BY <2>1, <2>2 DEF Furthest, rank
<1>3. CASE done = {} /\ sent # {}
  <2>1. PICK m \in sent : \A k \in sent : m <= k
    BY <1>1, <1>3, NatMin
  <2>2. \A s \in S : rank(m) < rank(s) \/ (rank(m) = rank(s) /\ m <= s)
    BY <1>1, <1>3, <2>1
  <2> QED  BY <2>1, <2>2 DEF Furthest, rank
<1>4. CASE done = {} /\ sent = {}
  <2>1. PICK m \in S : \A k \in S : m <= k
    BY <1>1, NatMin
  <2>2. \A s \in S : rank(m) < rank(s) \/ (rank(m) = rank(s) /\ m <= s)
    BY <1>1, <1>4, <2>1
  <2> QED  BY <2>1, <2>2 DEF Furthest, rank
<1> QED  BY <1>2, <1>3, <1>4


-----------------------------------------------------------------------------
(* The queries                                                             *)

\* The store's kind of a row is the kind of the row's work.
LEMMA KindIs ==
    ASSUME NEW d, NEW r
    PROVE  WorkOf(d, r) = Work(world, d.row[r]) /\ KindOf(d, r) = Sort(world, d.row[r])
BY DEF WorkOf, KindOf, Work, Sort, Target

\* The owner of a target is another live row with its key; there is none only if
\* every other row with the key is settled in failure, waits or is an alias.
LEMMA KeyOwner ==
    ASSUME NEW d, NEW r, NEW k
    PROVE  LET o == TargetKeyOwner(d, r, k)
           IN  /\ o # 0 => /\ o \in Rows /\ o # r /\ k # NoTarget
                           /\ d.row[o].key = k /\ LiveRow(d.row[o])
               /\ o = 0 => k = NoTarget
                           \/ \A s \in Rows : s # r /\ d.row[s].key = k => ~LiveRow(d.row[s])
<1> DEFINE owners == {s \in Rows \ {r} : d.row[s].key = k /\ IsLive(d, s)}
<1>1. owners # {} => Furthest(d, owners) \in owners
  <2>1. owners \in SUBSET Rows
    OBVIOUS
  <2> QED  BY <2>1, FurthestOf
<1>2. 0 \notin Rows
  BY RowsNat
<1> QED  BY <1>1, <1>2 DEF TargetKeyOwner, IsLive, LiveRow

\* The same of the live row that downloads a torrent,
LEMMA TorrentOwner ==
    ASSUME NEW d, NEW r, NEW h
    PROVE  LET o == HashOwner(d, r, h)
               owns(s) == /\ Sort(world, d.row[s]) = "abba" /\ d.row[s].hash = h
                          /\ d.row[s].canonical = 0
                          /\ d.row[s].status \in {"processing", "queued", "completed"}
           IN  /\ o # 0 => o \in Rows /\ o # r /\ owns(o) /\ h # None
               /\ o = 0 => h = None \/ \A s \in Rows : s # r => ~owns(s)
<1> DEFINE owners == {s \in Rows \ {r} : /\ KindOf(d, s) = "abba" /\ d.row[s].hash = h
                                        /\ d.row[s].canonical = 0
                                        /\ d.row[s].status \in {"processing", "queued", "completed"}}
<1>1. owners # {} => Furthest(d, owners) \in owners
  <2>1. owners \in SUBSET Rows
    OBVIOUS
  <2> QED  BY <2>1, FurthestOf
<1>2. 0 \notin Rows
  BY RowsNat
<1> QED  BY <1>1, <1>2, KindIs DEF HashOwner

\* and of the live row that reserved a listing.
LEMMA ListingOwner ==
    ASSUME NEW d, NEW r, NEW c
    PROVE  LET o == CandidateOwner(d, r, c)
               owns(s) == /\ Sort(world, d.row[s]) = "abba" /\ d.row[s].cand = c
                          /\ d.row[s].canonical = 0
                          /\ d.row[s].status \in {"processing", "queued", "completed"}
           IN  /\ o # 0 => o \in Rows /\ o # r /\ owns(o)
               /\ o = 0 => \A s \in Rows : s # r => ~owns(s)
<1> DEFINE owners == {s \in Rows \ {r} : /\ KindOf(d, s) = "abba" /\ d.row[s].cand = c
                                        /\ d.row[s].canonical = 0
                                        /\ d.row[s].status \in {"processing", "queued", "completed"}}
<1>1. owners # {} => Furthest(d, owners) \in owners
  <2>1. owners \in SUBSET Rows
    OBVIOUS
  <2> QED  BY <2>1, FurthestOf
<1>2. 0 \notin Rows
  BY RowsNat
<1> QED  BY <1>1, <1>2, KindIs DEF CandidateOwner

\* The owner create_request finds acts on the target or waits to.
LEMMA NewOwner ==
    ASSUME NEW d, NEW k
    PROVE  LET o == CanonicalFor(d, k)
               owns(s) == d.row[s].key = k /\ (d.row[s].retry \in RetryLive \/ d.row[s].status \in Active)
           IN  /\ o # 0 => o \in Rows /\ owns(o)
               /\ o = 0 => k = NoTarget \/ \A s \in Rows : ~owns(s)
<1> DEFINE retrying == {r \in Rows : d.row[r].key = k /\ d.row[r].retry \in RetryLive}
           acting == {r \in Rows : d.row[r].key = k /\ d.row[r].status \in Active}
<1>1. /\ retrying # {} => Min(retrying) \in retrying
      /\ acting # {} => Min(acting) \in acting
  <2>1. retrying \in SUBSET Rows /\ acting \in SUBSET Rows
    OBVIOUS
  <2> QED  BY <2>1, MinOf
<1>2. 0 \notin Rows
  BY RowsNat
<1> QED  BY <1>1, <1>2 DEF CanonicalFor, RetryOwner, ActiveOwner

\* A delivery leads to its alias' owner, or else to its own row.
LEMMA Delivery ==
    ASSUME NEW d, NEW m
    PROVE  /\ d.alias[m] # 0 => Resolve(d, m) = d.alias[m]
           /\ d.alias[m] = 0 /\ Resolve(d, m) # 0 =>
                  Resolve(d, m) \in Rows /\ d.row[Resolve(d, m)].msg = m
           /\ Resolve(d, m) = 0 => d.alias[m] = 0 /\ \A r \in Rows : d.row[r].msg # m
<1> DEFINE own == {r \in Rows : d.row[r].msg = m}
<1>1. own # {} => Min(own) \in own
  <2>1. own \in SUBSET Rows
    OBVIOUS
  <2> QED  BY <2>1, MinOf
<1>2. 0 \notin Rows
  BY RowsNat
<1> QED  BY <1>1, <1>2 DEF Resolve

-----------------------------------------------------------------------------
(* Folding                                                                 *)

\* A folded row's prompt can no longer be answered.
LEMMA Closed ==
    ASSUME NEW p \in {"none", "posting", "open", "claimed", "sent", "over", "refused"}
    PROVE  ClosedPrompt(p) \in Unsettled
BY DEF ClosedPrompt, Unsettled

\* The rows S may be folded onto o.
MayFold(W, d, S, o) ==
    /\ S \subseteq Rows /\ o \in Rows \ S /\ d.row[o].canonical = 0
    /\ \A s \in S : /\ d.row[s].status # "absent" /\ d.row[s].retry \notin RetryLive
                    /\ d.row[s].key # NoTarget \/ Sort(W, d.row[s]) = "arr"

\* What folding does to each row and each delivery.
Folds(d, S, o, e) ==
    /\ e \in DbType
    /\ \A q \in Rows :
           /\ e.row[q].msg = d.row[q].msg /\ e.row[q].key = d.row[q].key
           /\ e.row[q].cand = d.row[q].cand /\ e.row[q].hash = d.row[q].hash
           /\ e.row[q].retry = d.row[q].retry
           /\ e.row[q].canonical = IF q \in S \/ d.row[q].canonical \in S THEN o
                                   ELSE d.row[q].canonical
           /\ q \notin S => e.row[q].status = d.row[q].status /\ e.row[q].prompt = d.row[q].prompt
           /\ q \in S => e.row[q].status = "failed" /\ e.row[q].prompt \in Unsettled
    /\ \A m \in Messages : e.alias[m] =
           IF d.alias[m] \in S \/ m \in {d.row[s].msg : s \in S} THEN o ELSE d.alias[m]

\* Coalesce does to the tables what Folds says.
LEMMA FoldRows ==
    ASSUME NEW d \in DbType, NEW S \in SUBSET Rows, NEW o \in Rows
    PROVE  Folds(d, S, o, Coalesce(d, S, o))
<1> DEFINE moved == Repoint(d, S, o)
           e == Coalesce(d, S, o)
           there(x) == [x EXCEPT !.canonical = o]
           closed(x) == [x EXCEPT !.status = "failed", !.canonical = o, !.prompt = ClosedPrompt(@)]
<1>1. \A x \in Row :
          /\ there(x) \in Row /\ there(x).canonical = o
          /\ there(x).msg = x.msg /\ there(x).key = x.key /\ there(x).cand = x.cand
          /\ there(x).hash = x.hash /\ there(x).retry = x.retry
          /\ there(x).status = x.status /\ there(x).prompt = x.prompt
  BY DEF Row
<1>2. \A x \in Row :
          /\ closed(x) \in Row /\ closed(x).canonical = o
          /\ closed(x).msg = x.msg /\ closed(x).key = x.key /\ closed(x).cand = x.cand
          /\ closed(x).hash = x.hash /\ closed(x).retry = x.retry
          /\ closed(x).status = "failed" /\ closed(x).prompt \in Unsettled
  <2> SUFFICES ASSUME NEW x \in Row
               PROVE  /\ closed(x) \in Row /\ closed(x).canonical = o
                      /\ closed(x).msg = x.msg /\ closed(x).key = x.key /\ closed(x).cand = x.cand
                      /\ closed(x).hash = x.hash /\ closed(x).retry = x.retry
                      /\ closed(x).status = "failed" /\ closed(x).prompt \in Unsettled
    OBVIOUS
  <2>1. ClosedPrompt(x.prompt) \in Unsettled
    BY Closed DEF Row
  <2> QED
    BY <2>1 DEF Row, Status, Unsettled
<1> HIDE DEF there, closed
<1>3. \A q \in Rows : d.row[q] \in Row
  BY DEF DbType
<1>4. \A q \in Rows : moved.row[q] = IF d.row[q].canonical \in S THEN there(d.row[q]) ELSE d.row[q]
  BY DEF Repoint, there
<1>5. \A q \in Rows : e.row[q] = IF q \in S THEN closed(moved.row[q]) ELSE moved.row[q]
  BY DEF Coalesce, closed
<1>6. \A m \in Messages : e.alias[m] =
          IF d.alias[m] \in S \/ m \in {d.row[s].msg : s \in S} THEN o ELSE d.alias[m]
  BY DEF Coalesce, Repoint
<1>7. e = [row |-> [q \in Rows |-> e.row[q]], alias |-> [m \in Messages |-> e.alias[m]]]
  BY DEF Coalesce, Repoint
<1> HIDE DEF moved, e
<1>8. \A q \in Rows : moved.row[q] \in Row /\ e.row[q] \in Row
  BY <1>1, <1>2, <1>3, <1>4, <1>5
<1>9. e \in DbType
  <2>1. \A m \in Messages : e.alias[m] \in Rows \cup {0}
    BY <1>6 DEF DbType
  <2> QED
    BY <1>7, <1>8, <2>1 DEF DbType
<1>10. Folds(d, S, o, e)
  <2>1. ASSUME NEW q \in Rows
        PROVE  /\ e.row[q].msg = d.row[q].msg /\ e.row[q].key = d.row[q].key
               /\ e.row[q].cand = d.row[q].cand /\ e.row[q].hash = d.row[q].hash
               /\ e.row[q].retry = d.row[q].retry
               /\ e.row[q].canonical = IF q \in S \/ d.row[q].canonical \in S THEN o
                                       ELSE d.row[q].canonical
               /\ q \notin S => e.row[q].status = d.row[q].status /\ e.row[q].prompt = d.row[q].prompt
               /\ q \in S => e.row[q].status = "failed" /\ e.row[q].prompt \in Unsettled
    BY <1>1, <1>2, <1>3, <1>4, <1>5, <1>8
  <2> QED
    BY <1>6, <1>9, <2>1 DEF Folds
<1> QED
  BY <1>10 DEF e

\* Folding keeps the tables sound, and whoever swept its twins has swept them.
LEMMA FoldCore ==
    ASSUME NEW W, NEW d, NEW S, NEW o, NEW e,
           Core(W, d), MayFold(W, d, S, o), Folds(d, S, o, e)
    PROVE  Core(W, e)
<1>1. /\ S \subseteq Rows /\ o \in Rows /\ o \notin S /\ d.row[o].canonical = 0
      /\ d \in DbType /\ e \in DbType /\ 0 \notin Rows
  BY RowsNat DEF Core, MayFold, Folds
<1>2. ASSUME NEW q \in Rows PROVE RowSound(W, e.row[q])
  <2>1. /\ e.row[q].msg = d.row[q].msg /\ e.row[q].key = d.row[q].key
        /\ e.row[q].cand = d.row[q].cand /\ e.row[q].hash = d.row[q].hash
        /\ e.row[q].retry = d.row[q].retry
        /\ q \notin S => e.row[q].status = d.row[q].status /\ e.row[q].prompt = d.row[q].prompt
        /\ q \in S => e.row[q].status = "failed" /\ e.row[q].prompt \in Unsettled
        /\ e.row[q].canonical = IF q \in S \/ d.row[q].canonical \in S THEN o
                                ELSE d.row[q].canonical
    BY DEF Folds
  <2>2. RowSound(W, d.row[q]) /\ Sort(W, e.row[q]) = Sort(W, d.row[q]) /\ Work(W, e.row[q]) = Work(W, d.row[q])
    BY <2>1 DEF Core, Sort, Work
  <2>3. q \in S => /\ d.row[q].status # "absent" /\ d.row[q].retry \notin RetryLive
                   /\ d.row[q].key # NoTarget \/ Sort(W, d.row[q]) = "arr"
    BY DEF MayFold
  <2>4. StatusSound(e.row[q])
    BY <1>1, <2>1, <2>2, <2>3 DEF RowSound, StatusSound, Unsettled
  <2>5. RetrySound(e.row[q])
    BY <2>1, <2>2, <2>3 DEF RowSound, RetrySound, RetryLive
  <2>6. KindSound(W, e.row[q])
    <3>1. Work(W, d.row[q]) = NoTarget => Sort(W, d.row[q]) = "none"
      BY DEF Sort
    <3> QED
      BY <1>1, <2>1, <2>2, <2>3, <3>1 DEF RowSound, StatusSound, KindSound, Unsettled
  <2> QED
    BY <2>4, <2>5, <2>6 DEF RowSound
<1>3. ASSUME NEW q \in Rows, NEW p \in Rows, q # p PROVE Pair(e.row[q], e.row[p])
  <2>1. \A x \in {p, q} :
           /\ e.row[x].msg = d.row[x].msg /\ e.row[x].key = d.row[x].key
           /\ e.row[x].cand = d.row[x].cand /\ e.row[x].hash = d.row[x].hash
           /\ e.row[x].retry = d.row[x].retry
           /\ e.row[x].status \in Active => d.row[x].status \in Active
           /\ LiveRow(e.row[x]) => LiveRow(d.row[x])
    BY <1>1 DEF Folds, LiveRow, Active
  <2>2. Pair(d.row[q], d.row[p])
    BY <1>3 DEF Core
  <2> QED
    BY <2>1, <2>2 DEF Pair, Keyed
<1>4. Folded(e)
  <2>1. ASSUME NEW q \in Rows, e.row[q].canonical # 0
        PROVE  e.row[e.row[q].canonical].canonical = 0 /\ e.alias[e.row[q].msg] # 0
    <3>1. CASE e.row[q].canonical = o
      <4>1. e.row[o].canonical = 0
        BY <1>1 DEF Folds
      <4>2. d.row[q].status # "absent"
        BY <1>1, <2>1 DEF Folds, MayFold, Core, RowSound, StatusSound
      <4>3. d.row[q].msg \in Messages /\ e.row[q].msg = d.row[q].msg
        BY <4>2 DEF Core, RowSound, StatusSound, Folds
      <4>4. e.alias[d.row[q].msg] # 0
        <5>1. CASE q \in S
          BY <1>1, <4>3, <5>1 DEF Folds
        <5>2. CASE q \notin S
          <6>1. d.row[q].canonical # 0
            BY <1>1, <2>1, <5>2 DEF Folds
          <6>2. d.alias[d.row[q].msg] # 0
            BY <6>1 DEF Core, Folded
          <6> QED  BY <1>1, <4>3, <6>2 DEF Folds
        <5> QED  BY <5>1, <5>2
      <4> QED  BY <3>1, <4>1, <4>3, <4>4
    <3>2. CASE e.row[q].canonical # o
      <4>1. q \notin S /\ d.row[q].canonical \notin S /\ e.row[q].canonical = d.row[q].canonical
        BY <3>2 DEF Folds
      <4>2. d.row[d.row[q].canonical].canonical = 0 /\ d.alias[d.row[q].msg] # 0
        BY <2>1, <4>1 DEF Core, Folded
      <4>3. d.row[q].canonical \in Rows /\ e.row[q].msg = d.row[q].msg
        BY <1>1, <2>1, <4>1 DEF DbType, Row, Folds
      <4>4. e.row[d.row[q].canonical].canonical = 0
        BY <1>1, <4>1, <4>2, <4>3 DEF Folds
      <4>5. d.row[q].msg \in Messages
        BY <2>1, <4>1 DEF Core, RowSound, StatusSound
      <4>6. e.alias[d.row[q].msg] # 0
        BY <1>1, <4>2, <4>5 DEF Folds
      <4> QED  BY <4>1, <4>3, <4>4, <4>6
    <3> QED  BY <3>1, <3>2
  <2>2. ASSUME NEW m \in Messages, e.alias[m] # 0 PROVE e.row[e.alias[m]].canonical = 0
    <3>1. CASE e.alias[m] = o
      BY <1>1, <3>1 DEF Folds
    <3>2. CASE e.alias[m] # o
      <4>1. e.alias[m] = d.alias[m] /\ d.alias[m] \notin S
        BY <3>2 DEF Folds
      <4>2. d.alias[m] \in Rows /\ d.row[d.alias[m]].canonical = 0
        BY <1>1, <2>2, <4>1 DEF Core, Folded, DbType
      <4> QED  BY <1>1, <4>1, <4>2 DEF Folds
    <3> QED  BY <3>1, <3>2
  <2> QED
    BY <2>1, <2>2 DEF Folded
<1> QED
  BY <1>1, <1>2, <1>3, <1>4 DEF Core

\* Folding leaves no twin behind that was not there before.
LEMMA FoldTwins ==
    ASSUME NEW W, NEW again, NEW d, NEW S, NEW o, NEW e,
           Core(W, d), MayFold(W, d, S, o), Folds(d, S, o, e), Twins(W, again, d)
    PROVE  Twins(W, again, e)
<1> SUFFICES ASSUME NEW q \in Rows, NEW p \in Rows, q # p
             PROVE  Swept(W, again, e.row[q], e.row[p])
  BY DEF Twins
<1>1. \A x \in {p, q} :
         /\ e.row[x].msg = d.row[x].msg /\ e.row[x].key = d.row[x].key
         /\ e.row[x].status = "needs_selection" => d.row[x].status = "needs_selection"
         /\ LiveRow(e.row[x]) => LiveRow(d.row[x]) /\ e.row[x].status = d.row[x].status
  <2>1. 0 \notin Rows /\ S \subseteq Rows
    BY RowsNat DEF MayFold
  <2>2. o # 0
    BY <2>1 DEF MayFold
  <2> QED  BY <2>1, <2>2 DEF Folds, LiveRow, Active
<1>2. Swept(W, again, d.row[q], d.row[p])
  BY DEF Twins
<1> QED
  BY <1>1, <1>2 DEF Swept, Keyed, Sort, Work

-----------------------------------------------------------------------------
(* Writing one row                                                         *)

Writes(d, r, e) ==
    /\ e \in DbType /\ e.alias = d.alias
    /\ \A q \in Rows \ {r} : e.row[q] = d.row[q]
    /\ e.row[r].msg = d.row[r].msg /\ e.row[r].canonical = d.row[r].canonical

\* A write is sound if the row it leaves is, alone and beside every other row,
LEMMA WriteCore ==
    ASSUME NEW W, NEW d, NEW r \in Rows, NEW e,
           Core(W, d), Writes(d, r, e), RowSound(W, e.row[r]),
           \A q \in Rows \ {r} : Pair(e.row[r], d.row[q]) /\ Pair(d.row[q], e.row[r])
    PROVE  Core(W, e)
<1>1. \A q \in Rows : RowSound(W, e.row[q])
  BY DEF Core, Writes
<1>2. \A p, q \in Rows : p # q => Pair(e.row[p], e.row[q])
  BY DEF Core, Writes
<1>3. Folded(e)
  <2>1. \A q \in Rows : e.row[q].msg = d.row[q].msg /\ e.row[q].canonical = d.row[q].canonical
    BY DEF Writes
  <2>2. /\ \A q \in Rows : d.row[q].canonical \in Rows \cup {0}
        /\ \A m \in Messages : d.alias[m] \in Rows \cup {0}
    BY DEF Core, DbType, Row
  <2> QED
    BY <2>1, <2>2 DEF Core, Folded, Writes
<1> QED
  BY <1>1, <1>2, <1>3 DEF Core, Writes

\* and leaves no twin behind.
LEMMA WriteTwins ==
    ASSUME NEW W, NEW again, NEW d, NEW r \in Rows, NEW e,
           Twins(W, again, d), Writes(d, r, e),
           \A q \in Rows \ {r} : /\ Swept(W, again, e.row[r], d.row[q])
                                 /\ Swept(W, again, d.row[q], e.row[r])
    PROVE  Twins(W, again, e)
BY DEF Twins, Writes

\* The row x turns into z and claims nothing it did not have.
Calm(x, z) ==
    /\ z.msg = x.msg /\ z.key = x.key /\ z.cand = x.cand /\ z.hash \in {x.hash, None}
    /\ z.canonical = x.canonical
    /\ z.status \in Active => x.status \in Active
    /\ z.retry \in RetryLive => x.retry \in RetryLive \/ x.status \in Active

\* Nor does it settle, or come to wait from rest.
Unswept(W, x, z) ==
    /\ z.status \in Committed => x.status \in Committed \/ Sort(W, x) = "ebook"
    /\ z.status = "needs_selection" => x.status \in Active \cup {"needs_selection"}

\* A calm write disturbs no other row,
LEMMA CalmPair ==
    ASSUME NEW x, NEW z, NEW y, Pair(x, y), Pair(y, x), Calm(x, z)
    PROVE  Pair(z, y) /\ Pair(y, z)
<1>1. LiveRow(z) => LiveRow(x)
  BY DEF Calm, LiveRow
<1>2. Pair(z, y)
  BY <1>1 DEF Pair, Calm, Keyed
<1>3. Pair(y, z)
  BY <1>1 DEF Pair, Calm, Keyed
<1> QED  BY <1>2, <1>3

\* nor any twin, if it settles nothing;
LEMMA CalmTwin ==
    ASSUME NEW W, NEW again, NEW x, NEW z, NEW y, Pair(x, y), Pair(y, x),
           Calm(x, z), Unswept(W, x, z), Swept(W, again, x, y), Swept(W, again, y, x)
    PROVE  Swept(W, again, z, y) /\ Swept(W, again, y, z)
<1>1. LiveRow(z) => LiveRow(x)
  BY DEF Calm, LiveRow
<1>2. Sort(W, z) = Sort(W, x)
  BY DEF Calm, Sort, Work
<1>3. Swept(W, again, z, y)
  BY <1>1, <1>2 DEF Swept, Calm, Unswept, Keyed
<1>4. Swept(W, again, y, z)
  BY <1>1, <1>2 DEF Swept, Calm, Unswept, Keyed, Pair, Committed, Active
<1> QED  BY <1>3, <1>4

\* so only the row itself has to be looked at.
LEMMA WriteCalm ==
    ASSUME NEW W, NEW again, NEW d, NEW r \in Rows, NEW e,
           Core(W, d), Twins(W, again, d), Writes(d, r, e), RowSound(W, e.row[r]),
           Calm(d.row[r], e.row[r]), Unswept(W, d.row[r], e.row[r])
    PROVE  Core(W, e) /\ Twins(W, again, e)
<1>1. \A q \in Rows \ {r} : Pair(e.row[r], d.row[q]) /\ Pair(d.row[q], e.row[r])
  BY CalmPair DEF Core
<1>2. \A q \in Rows \ {r} : /\ Swept(W, again, e.row[r], d.row[q])
                            /\ Swept(W, again, d.row[q], e.row[r])
  BY CalmTwin DEF Core, Twins
<1> QED
  BY <1>1, <1>2, WriteCore, WriteTwins

-----------------------------------------------------------------------------
(* The writes of the transactions                                          *)

Prompts == {"none", "posting", "open", "claimed", "sent", "over", "refused"}
Retries == RetryLive \cup {"none", "fulfilled", "expired"}

\* The columns of r in e, but for those in the list, are those in d.
Rest(x, z, changed) ==
    /\ "status" \notin changed => z.status = x.status
    /\ "key" \notin changed => z.key = x.key
    /\ "cand" \notin changed => z.cand = x.cand
    /\ "hash" \notin changed => z.hash = x.hash
    /\ "retry" \notin changed => z.retry = x.retry
    /\ "prompt" \notin changed => z.prompt = x.prompt

\* What the single UPDATEs write.
LEMMA PutStatus ==
    ASSUME NEW d \in DbType, NEW r \in Rows, NEW st \in Status
    PROVE  LET e == [d EXCEPT !.row[r].status = st]
           IN  Writes(d, r, e) /\ e.row[r].status = st /\ Rest(d.row[r], e.row[r], {"status"})
BY DEF Writes, DbType, Row, Rest

LEMMA PutHash ==
    ASSUME NEW d \in DbType, NEW r \in Rows, NEW st \in Status, NEW h \in Hashes \cup {None}
    PROVE  LET e == [d EXCEPT !.row[r].status = st, !.row[r].hash = h]
           IN  /\ Writes(d, r, e) /\ e.row[r].status = st /\ e.row[r].hash = h
               /\ Rest(d.row[r], e.row[r], {"status", "hash"})
<1> DEFINE M == Messages \cup {None}
           K == Targets \cup {NoTarget}
           N == Rows \cup {0}
           C == Candidates \cup {None}
           H == Hashes \cup {None}
<1>1. Row = [status : Status, msg : M, key : K, canonical : N, cand : C, hash : H,
             retry : Retries, prompt : Prompts]
  BY DEF Row, Retries, Prompts
<1>2. h \in H
  OBVIOUS
<1> HIDE DEF M, K, N, C, H
<1> QED
  BY <1>1, <1>2 DEF Writes, DbType, Rest

WithPrompt(d, r, st, p) == [d EXCEPT !.row[r].status = st, !.row[r].prompt = p]

LEMMA PutPrompt ==
    ASSUME NEW d \in DbType, NEW r \in Rows, NEW st \in Status, NEW p \in Prompts
    PROVE  LET e == WithPrompt(d, r, st, p)
           IN  /\ Writes(d, r, e) /\ e.row[r].status = st /\ e.row[r].prompt = p
               /\ Rest(d.row[r], e.row[r], {"status", "prompt"})
<1> DEFINE M == Messages \cup {None}
           K == Targets \cup {NoTarget}
           N == Rows \cup {0}
           C == Candidates \cup {None}
           H == Hashes \cup {None}
<1>1. Row = [status : Status, msg : M, key : K, canonical : N, cand : C, hash : H,
             retry : Retries, prompt : Prompts]
  BY DEF Row, Retries, Prompts
<1> HIDE DEF M, K, N, C, H
<1> QED
  BY <1>1 DEF WithPrompt, Writes, DbType, Rest

LEMMA PutOnlyPrompt ==
    ASSUME NEW d \in DbType, NEW r \in Rows, NEW p \in Prompts
    PROVE  [d EXCEPT !.row[r].prompt = p] = WithPrompt(d, r, d.row[r].status, p)
           /\ d.row[r].status \in Status
BY DEF WithPrompt, DbType, Row

WithRetry(d, r, st, y) == [d EXCEPT !.row[r].status = st, !.row[r].retry = y]

LEMMA PutRetry ==
    ASSUME NEW d \in DbType, NEW r \in Rows, NEW st \in Status, NEW y \in Retries
    PROVE  LET e == WithRetry(d, r, st, y)
           IN  /\ Writes(d, r, e) /\ e.row[r].status = st /\ e.row[r].retry = y
               /\ Rest(d.row[r], e.row[r], {"status", "retry"})
<1> DEFINE M == Messages \cup {None}
           K == Targets \cup {NoTarget}
           N == Rows \cup {0}
           C == Candidates \cup {None}
           H == Hashes \cup {None}
<1>1. Row = [status : Status, msg : M, key : K, canonical : N, cand : C, hash : H,
             retry : Retries, prompt : Prompts]
  BY DEF Row, Retries, Prompts
<1> HIDE DEF M, K, N, C, H
<1>2. LET e == WithRetry(d, r, st, y)
      IN  /\ e.alias = d.alias /\ \A q \in Rows \ {r} : e.row[q] = d.row[q]
          /\ e.row[r].msg = d.row[r].msg /\ e.row[r].canonical = d.row[r].canonical
          /\ e.row[r].status = st /\ e.row[r].retry = y
          /\ Rest(d.row[r], e.row[r], {"status", "retry"})
  BY <1>1 DEF WithRetry, DbType, Rest
<1>3. WithRetry(d, r, st, y) \in DbType
  <2> DEFINE f == [d EXCEPT !.row[r].status = st]
  <2>1. f \in DbType
    BY PutStatus DEF Writes
  <2>2. WithRetry(d, r, st, y) = [f EXCEPT !.row[r].retry = y]
    BY DEF WithRetry, DbType
  <2> HIDE DEF f
  <2>3. [f EXCEPT !.row[r].retry = y] \in DbType
    BY <2>1 DEF DbType, Row, Retries
  <2> QED  BY <2>2, <2>3
<1> QED
  BY <1>2, <1>3 DEF Writes

Reserved(d, r, c) == [d EXCEPT !.row[r].cand = c, !.row[r].prompt = Marked(@)]

LEMMA PutListing ==
    ASSUME NEW d \in DbType, NEW r \in Rows, NEW c \in Candidates
    PROVE  LET e == Reserved(d, r, c)
           IN  /\ Writes(d, r, e) /\ e.row[r].cand = c /\ e.row[r].prompt = Marked(d.row[r].prompt)
               /\ Rest(d.row[r], e.row[r], {"cand", "prompt"})
<1> DEFINE M == Messages \cup {None}
           K == Targets \cup {NoTarget}
           N == Rows \cup {0}
           C == Candidates \cup {None}
           H == Hashes \cup {None}
<1>1. Row = [status : Status, msg : M, key : K, canonical : N, cand : C, hash : H,
             retry : Retries, prompt : Prompts]
  BY DEF Row, Retries, Prompts
<1> DEFINE p == Marked(d.row[r].prompt)
           e == Reserved(d, r, c)
           f == [d EXCEPT !.row[r].cand = c, !.row[r].prompt = p]
<1>2. p \in Prompts /\ c \in C
  BY DEF DbType, Row, Marked, Prompts
<1>3. e = f
  BY DEF DbType, Row, Reserved
<1>4. /\ Writes(d, r, f) /\ f.row[r].cand = c /\ f.row[r].prompt = p
      /\ Rest(d.row[r], f.row[r], {"cand", "prompt"})
  <2> HIDE DEF M, K, N, C, H, p
  <2> QED  BY <1>1, <1>2 DEF Writes, DbType, Rest
<1> QED
  BY <1>3, <1>4

LEMMA PutKey ==
    ASSUME NEW d \in DbType, NEW r \in Rows, NEW k \in Targets \cup {NoTarget}
    PROVE  LET e == [d EXCEPT !.row[r].key = k]
           IN  /\ Writes(d, r, e) /\ e.row[r].key = k
               /\ Rest(d.row[r], e.row[r], {"key"})
BY DEF Writes, DbType, Row, Rest

-----------------------------------------------------------------------------
(* The transactions of the store                                           *)

Sound(W, again, d) == Core(W, d) /\ Twins(W, again, d)

\* A row nobody wrote is as it was, or was a twin and has been folded.
Left(x, y) ==
    /\ y.msg = x.msg /\ y.cand = x.cand
    /\ \/ y.status = x.status /\ y.prompt = x.prompt /\ (y.canonical = 0 <=> x.canonical = 0)
       \/ x.status = "needs_selection" /\ y.status = "failed" /\ y.canonical # 0

AllLeft(d, S, e) == \A q \in Rows \ S : Left(d.row[q], e.row[q])

\* A fold leaves the rows it does not name as they were,
LEMMA FoldFrame ==
    ASSUME NEW W, NEW d, NEW S, NEW o, NEW e, MayFold(W, d, S, o), Folds(d, S, o, e)
    PROVE  AllLeft(d, S, e)
<1>1. o \in Rows /\ S \subseteq Rows /\ 0 \notin Rows
  BY RowsNat DEF MayFold
<1>2. ASSUME NEW q \in Rows \ S PROVE Left(d.row[q], e.row[q])
  <2>1. /\ e.row[q].msg = d.row[q].msg /\ e.row[q].cand = d.row[q].cand
        /\ e.row[q].status = d.row[q].status /\ e.row[q].prompt = d.row[q].prompt
        /\ e.row[q].canonical = IF d.row[q].canonical \in S THEN o ELSE d.row[q].canonical
    BY <1>2 DEF Folds
  <2>2. o # 0 /\ 0 \notin S
    BY <1>1
  <2>3. e.row[q].canonical = 0 <=> d.row[q].canonical = 0
    BY <2>1, <2>2
  <2> QED  BY <2>1, <2>3 DEF Left
<1> QED
  BY <1>2 DEF AllLeft

\* and so does a write.
LEMMA WriteFrame ==
    ASSUME NEW d, NEW r, NEW e, Writes(d, r, e)
    PROVE  AllLeft(d, {r}, e)
BY DEF Writes, Left, AllLeft

\* A committed owner sweeps its twins.
LEMMA SweepFolds ==
    ASSUME NEW W, NEW again, NEW d, NEW f, NEW r \in Rows,
           Sound(W, again, d), Core(W, f), Writes(d, r, f),
           f.row[r].status \in Committed, f.row[r].canonical = 0
    PROVE  LET e == SweepSiblings(f, r)
           IN  Sound(W, again, e) /\ AllLeft(f, {r}, e)
               /\ e.row[r].status = f.row[r].status /\ e.row[r].canonical = 0
<1> DEFINE S == {s \in Rows \ {r} : /\ f.row[r].key # NoTarget
                                    /\ f.row[s].key = f.row[r].key
                                    /\ f.row[s].status = "needs_selection"
                                    /\ f.row[s].canonical = 0}
           e == SweepSiblings(f, r)
<1>1. f \in DbType /\ S \in SUBSET Rows
  BY DEF Core
<1>2. e = Coalesce(f, S, r)
  BY DEF SweepSiblings
<1>3. Folds(f, S, r, e)
  BY <1>1, <1>2, FoldRows
<1>4. MayFold(W, f, S, r)
  <2>1. ASSUME NEW s \in S
        PROVE  f.row[s].status # "absent" /\ f.row[s].retry \notin RetryLive
    <3>1. RowSound(W, f.row[s])
      BY DEF Core
    <3> QED  BY <3>1 DEF RowSound, RetrySound, RetryLive
  <2> QED  BY <2>1 DEF MayFold
<1>5. \A q \in Rows : q \in S <=> /\ q # r /\ f.row[r].key # NoTarget
                                  /\ f.row[q].key = f.row[r].key
                                  /\ f.row[q].status = "needs_selection"
                                  /\ f.row[q].canonical = 0
  OBVIOUS
<1> HIDE DEF S, e
<1>6. Core(W, e)
  BY <1>3, <1>4, FoldCore
<1>7. AllLeft(f, S, e) /\ r \notin S /\ r # 0
  <2>1. AllLeft(f, S, e)
    BY <1>3, <1>4, FoldFrame
  <2>2. r # 0
    BY RowsNat
  <2> QED  BY <1>5, <2>1, <2>2
<1>8. e.row[r].status = f.row[r].status /\ e.row[r].canonical = 0
  <2>1. 0 \notin S
    BY <1>4, RowsNat DEF MayFold
  <2> QED  BY <1>3, <1>7, <2>1 DEF Folds
<1>9. AllLeft(f, {r}, e)
  <2>1. ASSUME NEW q \in Rows, q # r PROVE Left(f.row[q], e.row[q])
    <3>1. CASE q \in S
      BY <1>3, <1>5, <1>7, <3>1 DEF Folds, Left
    <3>2. CASE q \notin S
      BY <1>7, <3>2 DEF AllLeft
    <3> QED  BY <3>1, <3>2
  <2> QED  BY <2>1 DEF AllLeft
<1>10. ASSUME NEW q \in Rows, NEW p \in Rows, q # p PROVE Swept(W, again, e.row[q], e.row[p])
  <2>1. \A x \in {p, q} :
         /\ e.row[x].msg = f.row[x].msg /\ e.row[x].key = f.row[x].key
         /\ e.row[x].status = "needs_selection" => f.row[x].status = "needs_selection" /\ x \notin S
         /\ LiveRow(e.row[x]) => LiveRow(f.row[x]) /\ e.row[x].status = f.row[x].status
    BY <1>3, <1>7 DEF Folds, LiveRow, Active
  <2>2. CASE p = r
    BY <1>8, <2>2 DEF Swept, Committed
  <2>3. CASE q = r
    <3>1. f.row[p].canonical # 0 => f.row[p].status = "failed"
      BY DEF Core, RowSound, StatusSound
    <3>2. \/ f.row[r].key = NoTarget \/ f.row[p].key # f.row[r].key
          \/ f.row[p].status # "needs_selection" \/ f.row[p].canonical # 0 \/ p \in S
      BY <1>5, <1>10, <2>3
    <3> QED  BY <2>1, <2>3, <3>1, <3>2 DEF Swept, Keyed
  <2>4. CASE p # r /\ q # r
    <3>1. f.row[p] = d.row[p] /\ f.row[q] = d.row[q]
      BY <2>4 DEF Writes
    <3>2. Swept(W, again, d.row[q], d.row[p])
      BY <1>10 DEF Sound, Twins
    <3> QED  BY <2>1, <3>1, <3>2 DEF Swept, Keyed, Sort, Work
  <2> QED  BY <2>2, <2>3, <2>4
<1>11. Twins(W, again, e)
  BY <1>10 DEF Twins
<1> QED
  BY <1>6, <1>8, <1>9, <1>11 DEF Sound, e

\* What a transition starts from: a request at work, or a film row which waits
\* and is driven on, folded meanwhile or not.
MayTransit(W, x, st) ==
    /\ Sort(W, x) # "ebook"
    /\ \/ x.status = "new" /\ st = "processing" /\ Sort(W, x) # "none"
       \/ x.status = "new" /\ st = "needs_selection"
       \/ x.status = "processing" /\ st \in {"queued", "completed", "failed"}
       \/ x.status = "processing" /\ st = "needs_selection" /\ x.cand = None
       \/ /\ Sort(W, x) = "arr" /\ st = "processing"
          /\ x.canonical # 0 \/ x.status = "needs_selection"

\* Only a submission that was accepted brings a hash, that of its listing.
LEMMA HashIs ==
    ASSUME NEW d \in DbType, NEW r \in Rows, NEW st
    PROVE  LET h == ResultHash(d, r, st)
           IN  /\ h \in Hashes \cup {None}
               /\ h # None => st = "queued" /\ d.row[r].cand # None
<1>1. d.row[r].cand \in Candidates \cup {None}
  BY DEF DbType, Row
<1> QED
  BY <1>1 DEF ResultHash, Hashes

\* The write of a transition which finds no owner.
Written(d, r, st) == [d EXCEPT !.row[r].status = st, !.row[r].hash = ResultHash(d, r, st)]

\* A transition without an owner in its way is sound: it claims a target, or a
\* torrent, that nobody else has.
LEMMA TransitWrite ==
    ASSUME NEW again, NEW d, NEW r \in Rows, NEW st \in Status,
           Sound(world, again, d), d.row[r].canonical = 0, MayTransit(world, d.row[r], st),
           TransitionOwner(d, r, st, ResultHash(d, r, st)) = 0
    PROVE  LET f == Written(d, r, st)
           IN  /\ Writes(d, r, f) /\ Core(world, f)
               /\ st \notin Committed => Twins(world, again, f)
               /\ f.row[r].status = st /\ f.row[r].prompt = d.row[r].prompt
               /\ f.row[r].retry = d.row[r].retry
<1> DEFINE h == ResultHash(d, r, st)
           f == Written(d, r, st)
           x == d.row[r]
           z == f.row[r]
<1>1. /\ d \in DbType /\ h \in Hashes \cup {None}
      /\ h # None => st = "queued" /\ x.cand # None
  BY HashIs DEF Sound, Core
<1>2. Writes(d, r, f) /\ z.status = st /\ z.hash = h /\ Rest(x, z, {"status", "hash"})
  <2> HIDE DEF h
  <2> QED  BY <1>1, PutHash DEF Written, h
<1>3. /\ z.msg = x.msg /\ z.canonical = x.canonical /\ z.key = x.key /\ z.cand = x.cand
      /\ z.retry = x.retry /\ z.prompt = x.prompt
      /\ Sort(world, z) = Sort(world, x) /\ Work(world, z) = Work(world, x)
  <2>1. z.msg = x.msg /\ z.canonical = x.canonical
    BY <1>2 DEF Writes
  <2>2. z.key = x.key /\ z.cand = x.cand /\ z.retry = x.retry /\ z.prompt = x.prompt
    BY <1>2 DEF Rest
  <2>3. Sort(world, z) = Sort(world, x) /\ Work(world, z) = Work(world, x)
    <3> HIDE DEF f, x, z
    <3> QED  BY <2>1 DEF Sort, Work
  <2> QED  BY <2>1, <2>2, <2>3
<1>4. RowSound(world, x) /\ x.canonical = 0 /\ MayTransit(world, x, st)
  BY DEF Sound, Core
<1>5. x.key = NoTarget => Sort(world, x) # "abba"
  BY <1>4 DEF RowSound, StatusSound, KindSound, MayTransit, Sort
<1> DEFINE y(q) == d.row[q]
<1>6. \A q \in Rows \ {r} : /\ RowSound(world, y(q)) /\ Pair(x, y(q)) /\ Pair(y(q), x)
                            /\ Swept(world, again, x, y(q)) /\ Swept(world, again, y(q), x)
  BY DEF Sound, Core, Twins
<1>7. \A q \in Rows \ {r} : st \in Active /\ Keyed(x, y(q)) => ~LiveRow(y(q))
  <2>1. st \in Active => TargetKeyOwner(d, r, x.key) = 0
    BY DEF TransitionOwner
  <2> QED  BY <2>1, KeyOwner DEF Keyed
<1>8. \A q \in Rows \ {r} : h # None => ~(/\ Sort(world, y(q)) = "abba" /\ y(q).hash = h
                                          /\ y(q).canonical = 0
                                          /\ y(q).status \in {"processing", "queued", "completed"})
  <2>1. h # None => HashOwner(d, r, h) = 0
    BY <1>1 DEF TransitionOwner
  <2> QED  BY <2>1, TorrentOwner
<1> HIDE DEF f, h, x, z, y
<1>9. RowSound(world, z)
  <2>1. StatusSound(z)
    BY <1>1, <1>2, <1>3, <1>4 DEF RowSound, StatusSound, KindSound, MayTransit, Unsettled, Sort
  <2>2. RetrySound(z)
    BY <1>3, <1>4, <1>2 DEF RowSound, RetrySound, KindSound, MayTransit
  <2>3. KindSound(world, z)
    <3>2. Work(world, x) = NoTarget => Sort(world, x) = "none"
      BY DEF Sort
    <3>3. Sort(world, x) # "abba" => x.cand = None
      BY <1>4 DEF RowSound, KindSound
    <3> QED
      BY <1>1, <1>2, <1>3, <1>4, <1>5, <3>2, <3>3
      DEF RowSound, StatusSound, KindSound, MayTransit, Unsettled
  <2> QED  BY <2>1, <2>2, <2>3 DEF RowSound
<1>10. ASSUME NEW q \in Rows \ {r} PROVE Pair(z, y(q)) /\ Pair(y(q), z)
  <2>1. /\ RowSound(world, y(q)) /\ Pair(x, y(q)) /\ Pair(y(q), x)
        /\ st \in Active /\ Keyed(x, y(q)) => ~LiveRow(y(q))
        /\ h # None => ~(/\ Sort(world, y(q)) = "abba" /\ y(q).hash = h /\ y(q).canonical = 0
                         /\ y(q).status \in {"processing", "queued", "completed"})
    BY <1>6, <1>7, <1>8
  <2>2. (st \in Active /\ Keyed(x, y(q)) => y(q).status \notin Active) /\ (Keyed(z, y(q)) <=> Keyed(x, y(q)))
        /\ (Keyed(y(q), z) <=> Keyed(x, y(q)))
    BY <1>3, <2>1 DEF LiveRow, Keyed, RowSound, StatusSound, Active
  <2>3. x.retry = "none"
    BY <1>4 DEF RowSound, KindSound, MayTransit
  <2>4. Keyed(x, y(q)) => y(q).retry \notin RetryLive
    <3>1. Keyed(x, y(q)) => Work(world, y(q)) = Work(world, x) /\ Work(world, x) # NoTarget
      BY <1>4, <2>1 DEF RowSound, KindSound, Keyed
    <3>2. Keyed(x, y(q)) => Sort(world, y(q)) # "ebook"
      BY <1>4, <3>1 DEF MayTransit, Sort
    <3> QED  BY <2>1, <3>2 DEF RowSound, KindSound, RetryLive
  <2>5. LiveRow(z) /\ LiveRow(y(q)) => /\ x.cand # None => x.cand # y(q).cand
                                       /\ z.hash # None => z.hash # y(q).hash
    <3>1. x.cand # None => x.status = "processing"
      BY <1>4 DEF RowSound, StatusSound, MayTransit, KindSound
    <3>2. x.cand # None => LiveRow(x)
      BY <1>4, <3>1 DEF LiveRow, Active
    <3>3. z.hash # None /\ z.hash = y(q).hash => y(q).status \in {"queued", "completed", "failed"} /\ Sort(world, y(q)) = "abba"
      BY <2>1 DEF RowSound, StatusSound, KindSound
    <3> QED  BY <1>2, <2>1, <3>2, <3>3 DEF Pair, LiveRow, Active
  <2>6. x.msg # y(q).msg \/ x.msg = None
    BY <2>1 DEF Pair
  <2>7. Pair(z, y(q))
    BY <1>2, <1>3, <2>2, <2>3, <2>5, <2>6 DEF Pair, RetryLive
  <2>8. Pair(y(q), z)
    <3>1. LiveRow(y(q)) /\ LiveRow(z) => /\ y(q).cand # None => y(q).cand # z.cand
                                         /\ y(q).hash # None => y(q).hash # z.hash
      BY <1>3, <2>5
    <3>2. y(q).msg # None => y(q).msg # z.msg
      BY <1>3, <2>1 DEF Pair
    <3> QED  BY <1>2, <1>3, <2>2, <2>3, <2>4, <3>1, <3>2 DEF Pair, RetryLive
  <2> QED  BY <2>7, <2>8
<1>11. Core(world, f)
  BY <1>2, <1>9, <1>10, WriteCore DEF Sound, y, z
<1>12. ASSUME st \notin Committed PROVE Twins(world, again, f)
  <2>1. ASSUME NEW q \in Rows \ {r}
        PROVE  Swept(world, again, z, y(q)) /\ Swept(world, again, y(q), z)
    <3>1. Swept(world, again, z, y(q))
      BY <1>2, <1>12 DEF Swept
    <3>2. Swept(world, again, y(q), z)
      <4>1. CASE st = "needs_selection"
        <5>1. x.status \in {"new", "processing", "needs_selection"} /\ Swept(world, again, y(q), x) /\ Pair(x, y(q))
          BY <1>4, <1>6, <4>1 DEF MayTransit, RowSound, StatusSound
        <5> QED  BY <1>2, <1>3, <5>1 DEF Swept, Pair, Keyed, LiveRow, Active, Committed
      <4>2. CASE st # "needs_selection"
        BY <1>2, <4>2 DEF Swept
      <4> QED  BY <4>1, <4>2
    <3> QED  BY <3>1, <3>2
  <2> QED
    BY <1>2, <2>1, WriteTwins DEF Sound, y, z
<1> QED
  BY <1>2, <1>3, <1>11, <1>12 DEF f, h, z, x

\* A transition, with the fold or the sweep it may turn into, is sound, and the
\* row ends with the status asked for, or folded.
LEMMA TransitionOK ==
    ASSUME NEW again, NEW d, NEW r \in Rows, NEW st \in Status,
           Sound(world, again, d), MayTransit(world, d.row[r], st)
    PROVE  LET e == Transition(d, r, st, ResultHash(d, r, st))
           IN  /\ Sound(world, again, e) /\ AllLeft(d, {r}, e)
               /\ e.row[r].msg = d.row[r].msg /\ e.row[r].retry = d.row[r].retry
               /\ \/ /\ e.row[r].status = st /\ e.row[r].canonical = 0 /\ d.row[r].canonical = 0
                     /\ st = "processing" => e.row[r].prompt = d.row[r].prompt
                  \/ /\ e.row[r].status = "failed" /\ e.row[r].canonical # 0
                     /\ d.row[r].status \in Active => st = "queued"
<1> DEFINE h == ResultHash(d, r, st)
           o == TransitionOwner(d, r, st, h)
           x == d.row[r]
           e == Transition(d, r, st, h)
           f == Written(d, r, st)
<1>1. /\ d \in DbType /\ h \in Hashes \cup {None}
      /\ h # None => st = "queued" /\ x.cand # None
  BY HashIs DEF Sound, Core
<1>2. RowSound(world, x) /\ MayTransit(world, x, st)
  BY DEF Sound, Core
<1>3. o # 0 => /\ o \in Rows /\ o # r /\ d.row[o].canonical = 0
               /\ x.key # NoTarget \/ h # None
               /\ h = None => x.status \notin Active
  <2>1. CASE o = HashOwner(d, r, h)
    <3>1. o # 0 => h # None /\ o \in Rows /\ o # r /\ d.row[o].canonical = 0
      BY <2>1, TorrentOwner
    <3> QED  BY <3>1
  <2>2. CASE o = TargetKeyOwner(d, r, x.key)
    <3>1. o # 0 => /\ o \in Rows /\ o # r /\ x.key # NoTarget
                   /\ d.row[o].key = x.key /\ LiveRow(d.row[o])
      BY <2>2, KeyOwner
    <3>2. o # 0 => Pair(x, d.row[o])
      BY <3>1 DEF Sound, Core
    <3> QED  BY <3>1, <3>2 DEF Pair, Keyed, LiveRow
  <2>3. o = HashOwner(d, r, h) \/ o = TargetKeyOwner(d, r, x.key) \/ o = 0
    BY DEF TransitionOwner
  <2> QED  BY <2>1, <2>2, <2>3
<1>4. CASE o # 0
  <2>1. e = Coalesce(d, {r}, o)
    BY <1>4 DEF Transition
  <2>2. Folds(d, {r}, o, e)
    BY <1>1, <1>3, <1>4, <2>1, FoldRows
  <2>3. x.status # "absent" /\ x.retry \notin RetryLive
    BY <1>2 DEF MayTransit, RowSound, StatusSound, KindSound, RetryLive
  <2>4. x.key # NoTarget \/ Sort(world, x) = "arr"
    <3>1. h # None => Sort(world, x) = "abba" /\ x.status # "needs_selection"
      BY <1>1, <1>2 DEF RowSound, StatusSound, KindSound
    <3>2. h # None => x.key # NoTarget
      BY <1>2, <3>1 DEF RowSound, KindSound
    <3> QED  BY <1>3, <1>4, <3>2
  <2>5. MayFold(world, d, {r}, o)
    BY <1>3, <1>4, <2>3, <2>4 DEF MayFold
  <2> HIDE DEF o, e, h
  <2>6. Sound(world, again, e)
    BY <2>2, <2>5, FoldCore, FoldTwins DEF Sound
  <2>7. AllLeft(d, {r}, e)
    BY <2>2, <2>5, FoldFrame
  <2>8. e.row[r].status = "failed" /\ e.row[r].canonical # 0
        /\ e.row[r].msg = x.msg /\ e.row[r].retry = x.retry
    BY <1>3, <1>4, <2>2 DEF Folds
  <2> QED
    BY <1>1, <1>3, <1>4, <2>6, <2>7, <2>8 DEF e, h
<1>5. CASE o = 0 /\ x.canonical # 0
  <2>1. e = d
    BY <1>5 DEF Transition
  <2>2. AllLeft(d, {r}, d)
    BY DEF AllLeft, Left
  <2>3. x.status = "failed"
    BY <1>2, <1>5 DEF RowSound, StatusSound
  <2> QED
    BY <1>5, <2>1, <2>2, <2>3 DEF Active
<1>6. CASE o = 0 /\ x.canonical = 0
  <2>1. /\ Writes(d, r, f) /\ Core(world, f)
        /\ st \notin Committed => Twins(world, again, f)
        /\ f.row[r].status = st /\ f.row[r].prompt = x.prompt /\ f.row[r].retry = x.retry
    BY <1>6, TransitWrite
  <2>2. e = IF st \in Committed THEN SweepSiblings(f, r) ELSE f
    BY <1>6 DEF Transition, Written
  <2>3. f.row[r].canonical = 0 /\ f.row[r].msg = x.msg /\ AllLeft(d, {r}, f)
    BY <1>6, <2>1, WriteFrame DEF Writes
  <2> HIDE DEF f, e
  <2>4. CASE st \in Committed
    <3>1. Sound(world, again, e) /\ AllLeft(f, {r}, e)
          /\ e.row[r].status = f.row[r].status /\ e.row[r].canonical = 0
      BY <2>1, <2>2, <2>3, <2>4, SweepFolds
    <3>2. AllLeft(d, {r}, e)
      BY <2>1, <3>1 DEF AllLeft, Writes
    <3>3. e.row[r].msg = x.msg /\ e.row[r].retry = x.retry
      <4> DEFINE S == {s \in Rows \ {r} : /\ f.row[r].key # NoTarget
                                          /\ f.row[s].key = f.row[r].key
                                          /\ f.row[s].status = "needs_selection"
                                          /\ f.row[s].canonical = 0}
      <4>1. e = Coalesce(f, S, r)
        BY <2>2, <2>4 DEF SweepSiblings
      <4>2. f \in DbType /\ S \in SUBSET Rows
        BY <2>1 DEF Core
      <4> HIDE DEF S
      <4>3. Folds(f, S, r, e)
        BY <4>1, <4>2, FoldRows
      <4>4. e.row[r].msg = f.row[r].msg /\ e.row[r].retry = f.row[r].retry
        BY <4>3 DEF Folds
      <4> QED  BY <2>1, <2>3, <4>4
    <3> QED
      BY <1>6, <2>1, <2>4, <3>1, <3>2, <3>3 DEF Committed, e
  <2>5. CASE st \notin Committed
    BY <1>6, <2>1, <2>2, <2>3, <2>5 DEF Sound, e
  <2> QED  BY <2>4, <2>5
<1> QED  BY <1>4, <1>5, <1>6

\* reserve_abba_dispatch: the request reserves the candidate or is folded onto
\* the one that has it.
LEMMA ReserveOK ==
    ASSUME NEW again, NEW d, NEW r \in Rows, NEW c \in Candidates,
           Sound(world, again, d), Sort(world, d.row[r]) = "abba",
           d.row[r].status = "processing", d.row[r].canonical = 0
    PROVE  LET e == ReserveAbba(d, r, c)
           IN  /\ Sound(world, again, e) /\ AllLeft(d, {r}, e) /\ e.row[r].msg = d.row[r].msg
               /\ \/ e.row[r].canonical # 0 /\ e.row[r].status = "failed"
                  \/ e.row[r].canonical = 0 /\ e.row[r].status = "processing"
<1> DEFINE o == CandidateOwner(d, r, c)
           x == d.row[r]
           e == ReserveAbba(d, r, c)
           y(q) == d.row[q]
<1>1. /\ d \in DbType /\ RowSound(world, x)
      /\ \A q \in Rows : RowSound(world, y(q))
      /\ \A q \in Rows \ {r} : Pair(x, y(q)) /\ Pair(y(q), x)
      /\ \A q \in Rows \ {r} : Swept(world, again, y(q), x)
  BY DEF Sound, Core, Twins
<1>2. CASE o # 0
  <2>1. e = Coalesce(d, {r}, o)
    BY <1>2 DEF ReserveAbba
  <2>2. o \in Rows /\ o # r /\ d.row[o].canonical = 0
    BY <1>2, ListingOwner
  <2>3. Folds(d, {r}, o, e)
    BY <1>1, <2>1, <2>2, FoldRows
  <2>4. MayFold(world, d, {r}, o)
    <3>1. x.status # "absent" /\ x.retry \notin RetryLive /\ x.key # NoTarget
      BY <1>1 DEF RowSound, KindSound, RetryLive
    <3> QED  BY <2>2, <3>1 DEF MayFold
  <2> HIDE DEF o, e
  <2>5. Sound(world, again, e)
    BY <2>3, <2>4, FoldCore, FoldTwins DEF Sound
  <2>6. AllLeft(d, {r}, e)
    BY <2>3, <2>4, FoldFrame
  <2>7. e.row[r].status = "failed" /\ e.row[r].canonical # 0 /\ e.row[r].msg = x.msg
    BY <1>2, <2>3 DEF Folds
  <2> QED  BY <2>5, <2>6, <2>7 DEF e
<1>3. CASE o = 0
  <2> DEFINE z == e.row[r]
  <2>1. e = Reserved(d, r, c)
    BY <1>3 DEF ReserveAbba, Reserved
  <2>2. /\ Writes(d, r, e) /\ z.cand = c /\ z.prompt = Marked(x.prompt)
        /\ Rest(x, z, {"cand", "prompt"})
    BY <1>1, <2>1, PutListing
  <2>3. \A q \in Rows \ {r} : ~(/\ Sort(world, y(q)) = "abba" /\ y(q).cand = c
                                /\ y(q).canonical = 0
                                /\ y(q).status \in {"processing", "queued", "completed"})
    BY <1>3, ListingOwner
  <2> HIDE DEF o, e, z, x, y
  <2>4. z.msg = x.msg /\ z.canonical = 0
    BY <2>2 DEF Writes, x, z
  <2>5. z.status = "processing" /\ z.key = x.key /\ z.hash = x.hash /\ z.retry = x.retry
    BY <2>2 DEF Rest, x
  <2>6. Sort(world, z) = Sort(world, x) /\ Work(world, z) = Work(world, x)
    BY <2>4 DEF Sort, Work
  <2>7. Sort(world, x) = "abba" /\ x.status = "processing" /\ x.canonical = 0
    BY DEF x
  <2>8. RowSound(world, z)
    <3>1. /\ z.prompt # "claimed"
          /\ z.prompt \in {"posting", "open"} <=> x.prompt \in {"posting", "open"}
      BY <2>2 DEF Marked, Unsettled
    <3>2. StatusSound(z)
      BY <1>1, <2>4, <2>5, <2>7, <3>1 DEF RowSound, StatusSound
    <3>3. RetrySound(z) /\ KindSound(world, z)
      BY <1>1, <2>4, <2>5, <2>6, <2>7 DEF RowSound, RetrySound, KindSound
    <3> QED  BY <3>2, <3>3 DEF RowSound
  <2>9. x.hash = None
    BY <1>1, <2>7 DEF RowSound, StatusSound
  <2>10. ASSUME NEW q \in Rows \ {r} PROVE Pair(z, y(q)) /\ Pair(y(q), z)
    <3>1. RowSound(world, y(q)) /\ Pair(x, y(q)) /\ Pair(y(q), x)
      BY <1>1
    <3>2. LiveRow(y(q)) => y(q).cand # c
      <4>1. y(q).cand = c => /\ Sort(world, y(q)) = "abba"
                             /\ y(q).status \in {"processing", "queued", "completed", "failed"}
        BY <3>1, TargetsAssumption DEF RowSound, StatusSound, KindSound
      <4> QED  BY <2>3, <4>1 DEF LiveRow, Active
    <3>3. Pair(z, y(q))
      BY <2>2, <2>4, <2>5, <2>7, <2>9, <3>1, <3>2 DEF Pair, Keyed
    <3>4. Pair(y(q), z)
      BY <2>2, <2>4, <2>5, <2>7, <2>9, <3>1, <3>2 DEF Pair, Keyed
    <3> QED  BY <3>3, <3>4
  <2>11. \A q \in Rows \ {r} : Swept(world, again, z, y(q)) /\ Swept(world, again, y(q), z)
    BY <2>5 DEF Swept, Committed
  <2>12. Core(world, e)
    BY <2>2, <2>8, <2>10, WriteCore DEF y, z, Sound
  <2>13. Twins(world, again, e)
    BY <2>2, <2>11, WriteTwins DEF y, z, Sound
  <2>14. AllLeft(d, {r}, e)
    BY <2>2, WriteFrame
  <2> QED  BY <2>4, <2>5, <2>12, <2>13, <2>14 DEF Sound, e, z, x
<1> QED  BY <1>2, <1>3

\* create_request inserts into a free row;
LEMMA FreeRowOf ==
    ASSUME NEW d, HasRoom(d)
    PROVE  FreeRow(d) \in Rows /\ d.row[FreeRow(d)].status = "absent"
<1> DEFINE T == {r \in Rows : d.row[r].status = "absent"}
<1>1. T \in SUBSET Nat /\ T # {}
  BY RowsNat DEF HasRoom
<1>2. PICK r \in T : \A k \in T : r <= k
  BY <1>1, NatMin
<1>3. \A s \in 1..(r - 1) : d.row[s].status # "absent"
  <2>1. \A s \in 1..(r - 1) : s \in Rows /\ ~(r <= s)
    BY <1>2, WorldsAssumption DEF Rows
  <2> QED  BY <1>2, <2>1
<1> QED
  BY <1>2, <1>3 DEF FreeRow

\* The new row of create_request.
NewRow(m) == [Absent EXCEPT !.msg = m, !.key = Target[m],
              !.status = IF Target[m] # NoTarget /\ Kind[Target[m]] = "ebook"
                         THEN "processing" ELSE "new"]

\* the row it inserts is sound;
LEMMA NewRowIs ==
    ASSUME world \in Worlds, NEW m \in Messages
    PROVE  LET z == NewRow(m)
           IN  /\ z \in Row /\ z.msg = m /\ z.key = Target[m] /\ z.canonical = 0 /\ z.cand = None
               /\ z.hash = None /\ z.retry = "none" /\ z.prompt = "none"
               /\ z.status = IF Sort(world, z) = "ebook" THEN "processing" ELSE "new"
               /\ Work(world, z) = Target[m] /\ RowSound(world, z)
<1> DEFINE z == NewRow(m)
<1>1. Target[m] \in Targets \cup {NoTarget}
  BY WorldsAssumption DEF Target
<1>2. /\ z.msg = m /\ z.key = Target[m] /\ z.canonical = 0 /\ z.cand = None
      /\ z.hash = None /\ z.retry = "none" /\ z.prompt = "none"
      /\ z.status = IF Target[m] # NoTarget /\ Kind[Target[m]] = "ebook"
                    THEN "processing" ELSE "new"
  BY DEF NewRow, Absent
<1>3. z \in Row
  BY <1>1 DEF NewRow, Absent, Row, Status
<1> HIDE DEF z
<1>4. Work(world, z) = Target[m]
  BY <1>2, TargetsAssumption DEF Work, Target
<1>5. Target[m] # NoTarget /\ Kind[Target[m]] = "ebook" <=> Sort(world, z) = "ebook"
  BY <1>4 DEF Sort
<1>6. Work(world, z) = NoTarget => Sort(world, z) = "none"
  BY DEF Sort
<1>7. RowSound(world, z)
  BY <1>2, <1>4, <1>5, <1>6 DEF RowSound, StatusSound, RetrySound, KindSound, Unsettled, RetryLive
<1> QED  BY <1>2, <1>3, <1>4, <1>5, <1>7 DEF z

\* and it inserts only if nobody owns or awaits the target and the message is new.
LEMMA CreateOK ==
    ASSUME NEW again, NEW d, NEW m \in Messages,
           world \in Worlds, Sound(world, again, d), HasRoom(d)
    PROVE  LET made == CreateRequest(d, m)
               z == made.db.row[made.row]
           IN  /\ Sound(world, again, made.db)
               /\ ~made.created => AllLeft(d, {}, made.db)
               /\ made.created =>
                      /\ made.row \in Rows /\ d.row[made.row].status = "absent"
                      /\ AllLeft(d, {made.row}, made.db)
                      /\ z.canonical = 0 /\ Work(world, z) = Target[m]
                      /\ z.status = IF Sort(world, z) = "ebook" THEN "processing" ELSE "new"
<1> DEFINE made == CreateRequest(d, m)
           o == CanonicalFor(d, Target[m])
           y(q) == d.row[q]
<1>1. /\ d \in DbType /\ \A q \in Rows : RowSound(world, y(q)) /\ y(q) \in Row
  BY DEF Sound, Core, DbType
<1>2. CASE SeenBefore(d, m) # 0
  <2>1. made.db = d /\ ~made.created
    BY <1>2 DEF CreateRequest
  <2> QED  BY <2>1 DEF AllLeft, Left
<1>3. CASE SeenBefore(d, m) = 0 /\ o # 0
  <2> DEFINE e == [d EXCEPT !.alias[m] = o]
  <2>1. made.db = e /\ ~made.created
    BY <1>3 DEF CreateRequest
  <2>2. o \in Rows /\ (d.row[o].retry \in RetryLive \/ d.row[o].status \in Active)
    BY <1>3, NewOwner
  <2>3. d.row[o].canonical = 0
    BY <1>1, <2>2 DEF RowSound, StatusSound, Active
  <2>4. e \in DbType /\ e.row = d.row /\ \A n \in Messages : e.alias[n] = IF n = m THEN o ELSE d.alias[n]
    BY <1>1, <2>2 DEF DbType
  <2> HIDE DEF o, e
  <2>5. Folded(e)
    <3>1. ASSUME NEW q \in Rows, d.row[q].canonical # 0
          PROVE  d.row[d.row[q].canonical].canonical = 0 /\ e.alias[d.row[q].msg] # 0
      <4>1. d.row[d.row[q].canonical].canonical = 0 /\ d.alias[d.row[q].msg] # 0
        BY <3>1 DEF Sound, Core, Folded
      <4>2. d.row[q].msg \in Messages
        BY <1>1, <3>1 DEF RowSound, StatusSound
      <4> QED  BY <1>3, <2>4, <4>1, <4>2
    <3>2. \A n \in Messages : e.alias[n] # 0 => d.row[e.alias[n]].canonical = 0
      BY <2>3, <2>4 DEF Sound, Core, Folded
    <3> QED  BY <2>4, <3>1, <3>2 DEF Folded
  <2>6. Sound(world, again, e)
    BY <2>4, <2>5 DEF Sound, Core, Twins
  <2>7. AllLeft(d, {}, e)
    BY <2>4 DEF AllLeft, Left
  <2> QED  BY <2>1, <2>6, <2>7
<1>4. CASE SeenBefore(d, m) = 0 /\ o = 0
  <2> DEFINE r == FreeRow(d)
             z == NewRow(m)
             e == [d EXCEPT !.row[r] = z]
  <2>1. made.db = e /\ made.created /\ made.row = r
    BY <1>4 DEF CreateRequest, Inserted, NewRow
  <2>2. r \in Rows /\ d.row[r].status = "absent"
    BY FreeRowOf
  <2>3. /\ z \in Row /\ z.msg = m /\ z.key = Target[m] /\ z.canonical = 0 /\ z.cand = None
        /\ z.hash = None /\ z.retry = "none" /\ z.prompt = "none"
        /\ z.status = IF Sort(world, z) = "ebook" THEN "processing" ELSE "new"
        /\ Work(world, z) = Target[m] /\ RowSound(world, z)
    BY NewRowIs
  <2> HIDE DEF z, r
  <2>4. /\ e \in DbType /\ e.alias = d.alias /\ e.row[r] = z
        /\ \A q \in Rows \ {r} : e.row[q] = d.row[q]
    BY <1>1, <2>2, <2>3 DEF DbType
  <2>5. \A q \in Rows : y(q).msg # m /\ (Target[m] # NoTarget /\ y(q).key = Target[m]
                            => y(q).retry \notin RetryLive /\ y(q).status \notin Active)
    BY <1>4, Delivery, NewOwner DEF SeenBefore
  <2> HIDE DEF e, y, o, made
  <2>6. ASSUME NEW q \in Rows \ {r} PROVE Pair(z, y(q)) /\ Pair(y(q), z)
    <3>1. /\ y(q).msg # m
          /\ Target[m] # NoTarget /\ y(q).key = Target[m]
             => y(q).retry \notin RetryLive /\ y(q).status \notin Active
      BY <2>5
    <3>2. z.retry \notin RetryLive
      BY <2>3 DEF RetryLive
    <3> QED  BY <2>3, <3>1, <3>2 DEF Pair, Keyed
  <2>7. \A q \in Rows \ {r} : Swept(world, again, z, y(q)) /\ Swept(world, again, y(q), z)
    BY <2>3 DEF Swept, Committed
  <2>8. Folded(e)
    <3>1. d.row[r].canonical = 0
      BY <1>1, <2>2 DEF RowSound, StatusSound, y
    <3>2. \A q \in Rows : e.row[q].canonical = d.row[q].canonical
      BY <2>3, <2>4, <3>1
    <3>3. \A q \in Rows : e.row[q].canonical # 0 => e.row[q].msg = d.row[q].msg
      BY <2>3, <2>4
    <3>4. /\ \A q \in Rows : d.row[q].canonical \in Rows \cup {0}
          /\ \A n \in Messages : d.alias[n] \in Rows \cup {0}
      BY <1>1 DEF DbType, Row
    <3>5. Folded(d)
      BY DEF Sound, Core
    <3> QED  BY <2>4, <3>2, <3>3, <3>4, <3>5 DEF Folded
  <2>9. Core(world, e)
    <3>1. \A q \in Rows : RowSound(world, e.row[q])
      BY <1>1, <2>3, <2>4 DEF y
    <3>2. ASSUME NEW q \in Rows, NEW p \in Rows, q # p PROVE Pair(e.row[q], e.row[p])
      BY <2>4, <2>6, <3>2 DEF y, Sound, Core
    <3> QED  BY <2>4, <2>8, <3>1, <3>2 DEF Core
  <2>10. Twins(world, again, e)
    BY <2>4, <2>7 DEF y, Sound, Twins
  <2>11. AllLeft(d, {r}, e)
    BY <2>4 DEF AllLeft, Left
  <2> QED  BY <2>1, <2>2, <2>3, <2>4, <2>9, <2>10, <2>11 DEF Sound, made
<1> QED  BY <1>2, <1>3, <1>4

\* A calm write, as a transaction.
LEMMA CalmOK ==
    ASSUME NEW again, NEW d, NEW r \in Rows, NEW e,
           Sound(world, again, d), Writes(d, r, e), RowSound(world, e.row[r]),
           Calm(d.row[r], e.row[r]), Unswept(world, d.row[r], e.row[r])
    PROVE  Sound(world, again, e) /\ AllLeft(d, {r}, e)
BY WriteCalm, WriteFrame DEF Sound

\* The steps of a prompt: posted, bound, ended, answered, crossed.
PromptStep(x, z) ==
    \/ /\ x.status = "processing" /\ x.prompt \in Unsettled /\ x.cand = None
       /\ Sort(world, x) # "ebook" /\ z.status = "awaiting_selection" /\ z.prompt = "posting"
    \/ x.prompt = "posting" /\ z.prompt = "open" /\ z.status = x.status
    \/ /\ x.status = "awaiting_selection" /\ z.status = "needs_selection"
       /\ z.prompt \in {"over", "refused"}
    \/ x.status = "awaiting_selection" /\ z.status = "processing" /\ z.prompt = "claimed"
    \/ /\ x.status = "processing" /\ Sort(world, x) = "arr"
       /\ z.status = "processing" /\ z.prompt = Marked(x.prompt)

\* Each step of a prompt is calm.
LEMMA PromptOK ==
    ASSUME NEW again, NEW d, NEW r \in Rows, NEW e,
           Sound(world, again, d), Writes(d, r, e),
           Rest(d.row[r], e.row[r], {"status", "prompt"}), PromptStep(d.row[r], e.row[r])
    PROVE  Sound(world, again, e) /\ AllLeft(d, {r}, e)
<1> DEFINE x == d.row[r]
           z == e.row[r]
<1>1. RowSound(world, x) /\ PromptStep(x, z)
  BY DEF Sound, Core
<1>2. /\ z.msg = x.msg /\ z.canonical = x.canonical /\ z.key = x.key /\ z.cand = x.cand
      /\ z.hash = x.hash /\ z.retry = x.retry
  BY DEF Writes, Rest
<1> HIDE DEF x, z
<1>3. Sort(world, z) = Sort(world, x) /\ Work(world, z) = Work(world, x)
  BY <1>2 DEF Sort, Work
<1>4. Work(world, x) = NoTarget => Sort(world, x) = "none"
  BY DEF Sort
<1>5. /\ x.prompt \in {"posting", "open"} <=> x.status = "awaiting_selection"
      /\ x.status \in {"processing", "awaiting_selection"}
      /\ x.canonical = 0 /\ x.hash = None /\ x.key = NoTarget => Sort(world, x) \notin {"abba", "ebook"}
  BY <1>1 DEF PromptStep, RowSound, StatusSound, KindSound
<1>6. StatusSound(z)
  BY <1>1, <1>2, <1>5 DEF PromptStep, RowSound, StatusSound, Unsettled, Marked
<1>7. RetrySound(z)
  BY <1>1, <1>2, <1>3, <1>5 DEF PromptStep, RowSound, RetrySound, KindSound, Unsettled
<1>8. KindSound(world, z)
  BY <1>1, <1>2, <1>3, <1>4, <1>5 DEF PromptStep, RowSound, KindSound, StatusSound, Unsettled
<1>9. Calm(x, z) /\ Unswept(world, x, z)
  BY <1>1, <1>2, <1>5 DEF PromptStep, Calm, Unswept, Active, Committed
<1>10. RowSound(world, z)
  BY <1>6, <1>7, <1>8 DEF RowSound
<1> QED
  BY <1>9, <1>10, CalmOK DEF x, z

\* Reconciliation settles a queued row; an ebook result ends its cascade.
SettleStep(x, z) ==
    /\ x.status = "queued" /\ z.status \in {"completed", "failed"}
    /\ z.retry = IF x.retry # "awaiting_import" THEN x.retry
                 ELSE IF z.status = "completed" THEN "fulfilled" ELSE "blocked"

ResultStep(x, z) ==
    /\ x.status = "processing" /\ Sort(world, x) = "ebook"
    /\ \/ z.status = "failed" /\ x.retry = "retrying" /\ z.retry \in {"queued", "expired"}
       \/ z.status = "failed" /\ x.retry = "none" /\ z.retry \in {"none", "queued"}
       \/ z.status = "failed" /\ x.retry \notin {"none", "retrying"} /\ z.retry = x.retry
       \/ z.status = "queued" /\ x.retry = "retrying" /\ z.retry = "awaiting_import"
       \/ z.status = "completed" /\ x.retry = "retrying" /\ z.retry = "fulfilled"
       \/ z.status \in {"queued", "completed", "needs_selection"} /\ x.retry # "retrying"
          /\ z.retry = x.retry

\* So is each end of a queued or a searching row.
LEMMA SettleOK ==
    ASSUME NEW again, NEW d, NEW r \in Rows, NEW e,
           Sound(world, again, d), Writes(d, r, e), Rest(d.row[r], e.row[r], {"status", "retry"}),
           SettleStep(d.row[r], e.row[r]) \/ ResultStep(d.row[r], e.row[r])
    PROVE  Sound(world, again, e) /\ AllLeft(d, {r}, e)
<1> DEFINE x == d.row[r]
           z == e.row[r]
<1>1. RowSound(world, x) /\ (SettleStep(x, z) \/ ResultStep(x, z))
  BY DEF Sound, Core
<1>2. /\ z.msg = x.msg /\ z.canonical = x.canonical /\ z.key = x.key /\ z.cand = x.cand
      /\ z.hash = x.hash /\ z.prompt = x.prompt
  BY DEF Writes, Rest
<1> HIDE DEF x, z
<1>3. Sort(world, z) = Sort(world, x) /\ Work(world, z) = Work(world, x)
  BY <1>2 DEF Sort, Work
<1>4. Work(world, x) = NoTarget => Sort(world, x) = "none"
  BY DEF Sort
<1>5. CASE SettleStep(x, z)
  <2>1. StatusSound(z)
    BY <1>1, <1>2, <1>5 DEF SettleStep, RowSound, StatusSound
  <2>2. RetrySound(z)
    BY <1>1, <1>2, <1>5 DEF SettleStep, RowSound, RetrySound
  <2>3. KindSound(world, z)
    BY <1>1, <1>2, <1>3, <1>4, <1>5 DEF SettleStep, RowSound, KindSound, RetrySound
  <2>4. Calm(x, z) /\ Unswept(world, x, z)
    BY <1>2, <1>5 DEF SettleStep, Calm, Unswept, Active, Committed
  <2> QED
    BY <2>1, <2>2, <2>3, <2>4, CalmOK DEF RowSound, x, z
<1>6. CASE ResultStep(x, z)
  <2>1. StatusSound(z)
    BY <1>1, <1>2, <1>6 DEF ResultStep, RowSound, StatusSound, KindSound, Unsettled, RetryLive
  <2>2. RetrySound(z)
    BY <1>1, <1>2, <1>6 DEF ResultStep, RowSound, RetrySound
  <2>3. KindSound(world, z)
    BY <1>1, <1>2, <1>3, <1>4, <1>6 DEF ResultStep, RowSound, KindSound, RetrySound
  <2>4. Calm(x, z) /\ Unswept(world, x, z)
    BY <1>2, <1>6 DEF ResultStep, Calm, Unswept, Active, Committed
  <2> QED
    BY <2>1, <2>2, <2>3, <2>4, CalmOK DEF RowSound, x, z
<1> QED  BY <1>1, <1>5, <1>6

\* A live retry keeps its target: nobody else acts on it, so the claim finds no
\* owner and a late proof meets none.
ClaimStep(x, z) ==
    \/ /\ x.retry = "queued" /\ x.status = "failed"
       /\ z.retry = "retrying" /\ z.status = "processing"
    \/ x.retry = "blocked" /\ z.retry = "fulfilled" /\ z.status = "completed"

\* A claimed or proved retry is not, but its target is still its own.
LEMMA ClaimOK ==
    ASSUME NEW again, NEW d, NEW r \in Rows, NEW e,
           Sound(world, again, d), Writes(d, r, e), Rest(d.row[r], e.row[r], {"status", "retry"}),
           ClaimStep(d.row[r], e.row[r])
    PROVE  Sound(world, again, e) /\ AllLeft(d, {r}, e)
<1> DEFINE x == d.row[r]
           z == e.row[r]
           y(q) == d.row[q]
<1>1. /\ RowSound(world, x) /\ ClaimStep(x, z)
      /\ \A q \in Rows \ {r} : Pair(x, y(q)) /\ Pair(y(q), x)
      /\ \A q \in Rows : RowSound(world, y(q))
  BY DEF Sound, Core
<1>2. /\ z.msg = x.msg /\ z.canonical = x.canonical /\ z.key = x.key /\ z.cand = x.cand
      /\ z.hash = x.hash /\ z.prompt = x.prompt
  BY DEF Writes, Rest
<1> HIDE DEF x, y, z
<1>3. Sort(world, z) = Sort(world, x) /\ Work(world, z) = Work(world, x)
  BY <1>2 DEF Sort, Work
<1>4. Work(world, x) = NoTarget => Sort(world, x) = "none"
  BY DEF Sort
<1>5. /\ Sort(world, x) = "ebook" /\ x.cand = None /\ x.hash = None /\ x.retry \in RetryLive
      /\ x.status = "failed" /\ x.canonical = 0 /\ x.prompt \in Unsettled /\ x.key # NoTarget
  BY <1>1 DEF ClaimStep, RowSound, StatusSound, RetrySound, KindSound, RetryLive
<1>6. StatusSound(z)
  BY <1>1, <1>2, <1>5 DEF ClaimStep, RowSound, StatusSound, Unsettled
<1>7. RetrySound(z) /\ KindSound(world, z)
  BY <1>1, <1>2, <1>3, <1>4, <1>5 DEF ClaimStep, RowSound, RetrySound, KindSound
<1>8. ASSUME NEW q \in Rows \ {r} PROVE Pair(z, y(q)) /\ Pair(y(q), z)
  <2>1. Pair(x, y(q)) /\ Pair(y(q), x)
    BY <1>1
  <2>2. Keyed(z, y(q)) \/ Keyed(y(q), z) => y(q).status \notin Active /\ y(q).retry \notin RetryLive
    BY <1>2, <1>5, <2>1 DEF Pair, Keyed
  <2>3. Pair(z, y(q))
    BY <1>2, <1>5, <2>1, <2>2 DEF Pair
  <2>4. Pair(y(q), z)
    BY <1>2, <1>5, <2>1, <2>2 DEF Pair
  <2> QED  BY <2>3, <2>4
<1>9. \A q \in Rows \ {r} : Swept(world, again, z, y(q)) /\ Swept(world, again, y(q), z)
  BY <1>1, <1>3, <1>5 DEF ClaimStep, Swept
<1>10. Core(world, e)
  BY <1>6, <1>7, <1>8, WriteCore DEF Sound, RowSound, y, z
<1>11. Twins(world, again, e)
  BY <1>9, WriteTwins DEF Sound, y, z
<1> QED
  BY <1>10, <1>11, WriteFrame DEF Sound

\* The retry claim never meets an owner.
LEMMA RetryUnowned ==
    ASSUME NEW again, NEW d, NEW r \in Rows,
           Sound(world, again, d), d.row[r].retry \in RetryLive
    PROVE  TargetKeyOwner(d, r, d.row[r].key) = 0
<1> DEFINE o == TargetKeyOwner(d, r, d.row[r].key)
<1>1. o # 0 => /\ o \in Rows /\ o # r /\ d.row[r].key # NoTarget
               /\ d.row[o].key = d.row[r].key /\ LiveRow(d.row[o])
  BY KeyOwner
<1>2. o # 0 => Pair(d.row[r], d.row[o])
  BY <1>1 DEF Sound, Core
<1> QED
  BY <1>1, <1>2 DEF Pair, Keyed, LiveRow

\* The operator keys a row which waits and whose target nobody owns.
LEMMA KeyOK ==
    ASSUME NEW again, NEW d, NEW r \in Rows,
           world \in Worlds, Sound(world, again, d), Waits(d.row[r])
    PROVE  LET e == ReserveKey(d, r, Work(world, d.row[r]))
           IN  /\ Sound(world, again, e) /\ AllLeft(d, {r}, e)
               /\ e.row[r].msg = d.row[r].msg /\ e.row[r].canonical = d.row[r].canonical
               /\ e.row[r].status = d.row[r].status /\ e.row[r].prompt = d.row[r].prompt
<1> DEFINE k == Work(world, d.row[r])
           x == d.row[r]
           e == ReserveKey(d, r, k)
           f == [d EXCEPT !.row[r].key = k]
           y(q) == d.row[q]
<1>1. CASE e = d
  BY <1>1 DEF AllLeft, Left
<1>2. CASE e # d
  <2> DEFINE z == f.row[r]
  <2>1. e = f /\ TargetKeyOwner(d, r, k) = 0 /\ x.key = NoTarget /\ x.canonical = 0
    BY <1>2 DEF ReserveKey
  <2>2. /\ RowSound(world, x) /\ x \in Row /\ d \in DbType
        /\ \A q \in Rows \ {r} : Pair(x, y(q)) /\ Pair(y(q), x) /\ RowSound(world, y(q))
    BY DEF Sound, Core, DbType
  <2>3. k \in Targets \cup {NoTarget}
    BY <2>2, WorldsAssumption DEF Work, Row
  <2>4. Writes(d, r, f) /\ z.key = k /\ Rest(x, z, {"key"})
    <3> HIDE DEF k
    <3> QED  BY <2>2, <2>3, PutKey
  <2>5. \A q \in Rows \ {r} : k # NoTarget /\ y(q).key = k => ~LiveRow(y(q))
    BY <2>1, KeyOwner
  <2>6. Sort(world, x) = "arr" /\ x.status = "needs_selection"
    BY <2>1 DEF Waits
  <2>7. x.retry = "none"
    BY <2>2, <2>6 DEF RowSound, KindSound
  <2>8. k = Work(world, x)
    OBVIOUS
  <2> HIDE DEF f, z, k, x, y
  <2>9. /\ z.msg = x.msg /\ z.canonical = x.canonical /\ z.status = x.status /\ z.cand = x.cand
        /\ z.hash = x.hash /\ z.retry = x.retry /\ z.prompt = x.prompt
    BY <2>4 DEF Writes, Rest, x, z
  <2>10. Sort(world, z) = Sort(world, x) /\ Work(world, z) = Work(world, x)
    BY <2>9 DEF Sort, Work
  <2>11. RowSound(world, z)
    <3>1. StatusSound(z)
      BY <2>2, <2>6, <2>9 DEF RowSound, StatusSound
    <3>2. RetrySound(z) /\ KindSound(world, z)
      BY <2>2, <2>4, <2>6, <2>8, <2>9, <2>10 DEF RowSound, RetrySound, KindSound
    <3> QED  BY <3>1, <3>2 DEF RowSound
  <2>12. ASSUME NEW q \in Rows \ {r}
         PROVE  /\ Pair(z, y(q)) /\ Pair(y(q), z)
                /\ Swept(world, again, z, y(q)) /\ Swept(world, again, y(q), z)
    <3>1. Pair(x, y(q)) /\ Pair(y(q), x)
      BY <2>2
    <3>2. z.status \notin Active /\ z.retry \notin RetryLive /\ z.status \notin Committed
      BY <2>6, <2>7, <2>9 DEF Active, RetryLive, Committed
    <3>3. Pair(z, y(q)) /\ Pair(y(q), z)
      BY <2>9, <3>1, <3>2 DEF Pair, LiveRow
    <3>4. Swept(world, again, z, y(q)) /\ Swept(world, again, y(q), z)
      BY <2>4, <2>5, <3>2 DEF Swept, Keyed
    <3> QED  BY <3>3, <3>4
  <2>13. Core(world, f) /\ Twins(world, again, f)
    BY <2>4, <2>11, <2>12, WriteCore, WriteTwins DEF Sound, y, z
  <2>14. AllLeft(d, {r}, f)
    BY <2>4, WriteFrame
  <2> QED  BY <2>1, <2>9, <2>13, <2>14 DEF Sound, x, z, k
<1> QED  BY <1>1, <1>2

-----------------------------------------------------------------------------
(* The start-up of Huey                                                    *)

\* The start-up ends what a stopped process held.
RecoverStep(x, z) ==
    /\ z.msg = x.msg /\ z.key = x.key /\ z.cand = x.cand /\ z.hash = x.hash
    /\ z.retry = x.retry /\ z.canonical = x.canonical
    /\ \/ /\ x.status = "awaiting_selection" /\ x.prompt = "posting"
          /\ z.status = "needs_selection" /\ z.prompt = "over"
       \/ /\ x.status = "processing" /\ x.prompt = "claimed"
          /\ z.status = "needs_selection" /\ z.prompt = "over"
       \/ /\ x.status = "new" \/ (x.status = "processing" /\ Sort(world, x) # "ebook")
          /\ z.status = "failed" /\ z.prompt = x.prompt
       \/ /\ z.status = x.status /\ z.prompt = x.prompt /\ x.status # "new"
          /\ x.status = "processing" => Sort(world, x) = "ebook"
                                        \/ (Sort(world, x) = "abba" /\ x.cand # None)
          /\ x.prompt # "posting"

\* Recovered does to every row a step of the start-up,
LEMMA RecoverSteps ==
    ASSUME NEW again, NEW d, Sound(world, again, d)
    PROVE  /\ Recovered(d) \in DbType /\ Recovered(d).alias = d.alias
           /\ \A r \in Rows : RecoverStep(d.row[r], Recovered(d).row[r])
<1> DEFINE e == Recovered(d)
           ended(x) == [x EXCEPT !.status = "needs_selection", !.prompt = "over"]
           failed(x) == [x EXCEPT !.status = "failed"]
<1>1. d \in DbType /\ \A r \in Rows : d.row[r] \in Row /\ RowSound(world, d.row[r])
  BY DEF Sound, Core, DbType
<1>2. ASSUME NEW x \in Row
      PROVE  /\ ended(x) \in Row
             /\ ended(x).msg = x.msg /\ ended(x).key = x.key /\ ended(x).cand = x.cand
             /\ ended(x).hash = x.hash /\ ended(x).retry = x.retry
             /\ ended(x).canonical = x.canonical
             /\ ended(x).status = "needs_selection" /\ ended(x).prompt = "over"
  <2>1. ended(x) \in Row
    BY DEF Row, Status
  <2> QED  BY <2>1 DEF Row
<1>3. \A x \in Row :
        /\ failed(x) \in Row
        /\ failed(x).msg = x.msg /\ failed(x).key = x.key /\ failed(x).cand = x.cand
        /\ failed(x).hash = x.hash /\ failed(x).retry = x.retry /\ failed(x).canonical = x.canonical
        /\ failed(x).status = "failed" /\ failed(x).prompt = x.prompt
  BY DEF Row, Status
<1> DEFINE unsent(x) == \/ x.prompt = "posting" /\ x.status = "awaiting_selection"
                        \/ x.prompt = "claimed" /\ x.status = "processing" /\ x.hash = None
           g == [r \in Rows |-> IF unsent(d.row[r]) THEN ended(d.row[r])
                                ELSE IF Interrupted(d, r) THEN failed(d.row[r]) ELSE d.row[r]]
<1>4. e = [d EXCEPT !.row = g]
  BY DEF Recovered
<1> HIDE DEF e, ended, failed, unsent
<1>5. ASSUME NEW r \in Rows PROVE g[r] \in Row /\ RecoverStep(d.row[r], g[r])
  <2> DEFINE x == d.row[r]
  <2>1. x \in Row /\ RowSound(world, x) /\ KindOf(d, r) = Sort(world, x)
    BY <1>1, KindIs
  <2>2. Interrupted(d, r) <=> /\ x.status \in {"new", "processing"}
                              /\ Sort(world, x) # "ebook" \/ x.status = "new"
                              /\ Sort(world, x) # "abba" \/ x.cand = None \/ x.status = "new"
    BY <2>1 DEF Interrupted
  <2>3. /\ x.prompt = "posting" => x.status = "awaiting_selection"
        /\ x.status = "processing" => x.hash = None
    BY <2>1 DEF RowSound, StatusSound
  <2>4. g[r] = IF unsent(x) THEN ended(x) ELSE IF Interrupted(d, r) THEN failed(x) ELSE x
    OBVIOUS
  <2> HIDE DEF x, g
  <2>5. CASE unsent(x)
    <3>1. g[r] = ended(x)
      BY <2>4, <2>5
    <3> QED  BY <1>2, <2>1, <2>5, <3>1 DEF RecoverStep, x, unsent
  <2>6. CASE ~unsent(x) /\ Interrupted(d, r)
    <3>1. g[r] = failed(x)
      BY <2>4, <2>6
    <3> QED  BY <1>3, <2>1, <2>2, <2>6, <3>1 DEF RecoverStep, x
  <2>7. CASE ~unsent(x) /\ ~Interrupted(d, r)
    <3>1. g[r] = x
      BY <2>4, <2>7
    <3>2. x.prompt # "posting" /\ x.status # "new"
          /\ (x.status = "processing" => Sort(world, x) = "ebook"
                                         \/ (Sort(world, x) = "abba" /\ x.cand # None))
      BY <2>2, <2>3, <2>7 DEF unsent
    <3> QED  BY <2>1, <3>1, <3>2 DEF RecoverStep, x
  <2> QED  BY <2>5, <2>6, <2>7
<1>6. e \in DbType /\ e.alias = d.alias /\ e.row = g
  <2>1. g \in [Rows -> Row]
    BY <1>5
  <2> HIDE DEF g
  <2> QED  BY <1>1, <1>4, <2>1 DEF DbType
<1> QED
  BY <1>5, <1>6 DEF e

\* which is calm,
LEMMA RecoverCalm ==
    ASSUME NEW x, NEW z, RowSound(world, x), RecoverStep(x, z)
    PROVE  RowSound(world, z) /\ Calm(x, z) /\ Unswept(world, x, z)
<1>1. Sort(world, z) = Sort(world, x) /\ Work(world, z) = Work(world, x)
  BY DEF RecoverStep, Sort, Work
<1>2. Work(world, x) = NoTarget => Sort(world, x) = "none"
  BY DEF Sort
<1>3. StatusSound(z)
  BY DEF RecoverStep, RowSound, StatusSound, Unsettled
<1>4. RetrySound(z)
  BY DEF RecoverStep, RowSound, RetrySound, KindSound, Unsettled
<1>5. KindSound(world, z)
  BY <1>1, <1>2 DEF RecoverStep, RowSound, KindSound, StatusSound, Unsettled
<1>6. Calm(x, z) /\ Unswept(world, x, z)
  BY DEF RecoverStep, Calm, Unswept, Active, Committed
<1> QED
  BY <1>3, <1>4, <1>5, <1>6 DEF RowSound

\* so the tables it leaves are sound.
LEMMA RecoverOK ==
    ASSUME NEW again, NEW d, Sound(world, again, d)
    PROVE  Sound(world, TRUE, Recovered(d))
<1> DEFINE e == Recovered(d)
           x(r) == d.row[r]
           z(r) == e.row[r]
<1>1. /\ e \in DbType /\ e.alias = d.alias /\ \A r \in Rows : RecoverStep(x(r), z(r))
  BY RecoverSteps
<1>2. /\ \A r \in Rows : RowSound(world, x(r))
      /\ \A r, s \in Rows : r # s => Pair(x(r), x(s)) /\ Swept(world, again, x(r), x(s))
      /\ \A r \in Rows : x(r).canonical \in Rows \cup {0}
      /\ \A m \in Messages : d.alias[m] \in Rows \cup {0}
      /\ Folded(d)
  BY DEF Sound, Core, Twins, DbType, Row
<1> HIDE DEF e
<1>3. Folded(e)
  <2>1. \A r \in Rows : z(r).msg = x(r).msg /\ z(r).canonical = x(r).canonical
    BY <1>1 DEF RecoverStep
  <2> QED  BY <1>1, <1>2, <2>1 DEF Folded
<1> HIDE DEF x, z
<1>4. \A r \in Rows : RowSound(world, z(r)) /\ Calm(x(r), z(r)) /\ Unswept(world, x(r), z(r))
  BY <1>1, <1>2, RecoverCalm
<1>5. ASSUME NEW r \in Rows, NEW s \in Rows, r # s
      PROVE  Pair(z(r), z(s)) /\ Swept(world, TRUE, z(r), z(s))
  <2>1. /\ Pair(x(r), x(s)) /\ Pair(x(s), x(r))
        /\ Swept(world, again, x(r), x(s)) /\ Swept(world, again, x(s), x(r))
    BY <1>2, <1>5
  <2>2. Pair(z(r), x(s)) /\ Pair(x(s), z(r))
    BY <1>4, <2>1, CalmPair
  <2>3. Swept(world, again, z(r), x(s)) /\ Swept(world, again, x(s), z(r))
    BY <1>4, <2>1, CalmTwin
  <2>4. Pair(z(r), z(s))
    BY <1>4, <2>2, CalmPair
  <2>5. Swept(world, again, z(r), z(s))
    BY <1>4, <2>2, <2>3, CalmTwin
  <2>6. Swept(world, TRUE, z(r), z(s))
    BY <2>5 DEF Swept
  <2> QED  BY <2>4, <2>6
<1> QED
  BY <1>1, <1>3, <1>4, <1>5 DEF Sound, Core, Twins, z, e

\* A settled row which predates target_key gets its key, one row of a target
\* and only if no active row has the key.
Unkeyed(d, t) == {r \in Rows : /\ WorkOf(d, r) = t /\ d.row[r].key = NoTarget
                               /\ d.row[r].status \in Committed}
Rekeyed(d, r) ==
    LET t == Work(world, d.row[r])
    IN  /\ t # NoTarget /\ r \in Unkeyed(d, t) /\ r = Furthest(d, Unkeyed(d, t))
        /\ ~ \E s \in Rows : d.row[s].key = t /\ d.row[s].status \in Active

KeyStep(x, z) ==
    /\ z.msg = x.msg /\ z.status = x.status /\ z.cand = x.cand /\ z.hash = x.hash
    /\ z.retry = x.retry /\ z.prompt = x.prompt /\ z.canonical = x.canonical

\* Backfilled changes keys only,
LEMMA BackfillSteps ==
    ASSUME NEW d \in DbType, world \in Worlds
    PROVE  LET e == Backfilled(d)
           IN  /\ e \in DbType /\ e.alias = d.alias
               /\ \A r \in Rows :
                      /\ KeyStep(d.row[r], e.row[r])
                      /\ e.row[r].key = IF Rekeyed(d, r) THEN Work(world, d.row[r])
                                        ELSE d.row[r].key
<1> DEFINE e == Backfilled(d)
           with(x, t) == [x EXCEPT !.key = t]
           g == [r \in Rows |-> IF Rekeyed(d, r) THEN with(d.row[r], Work(world, d.row[r]))
                                ELSE d.row[r]]
<1>1. \A r \in Rows : d.row[r] \in Row /\ Work(world, d.row[r]) \in Targets \cup {NoTarget}
  BY WorldsAssumption DEF DbType, Work, Row
<1>2. ASSUME NEW x \in Row, NEW t \in Targets \cup {NoTarget}
      PROVE  with(x, t) \in Row /\ KeyStep(x, with(x, t)) /\ with(x, t).key = t
  BY DEF Row, KeyStep
<1>3. e = [d EXCEPT !.row = g]
  BY KindIs DEF Backfilled, Rekeyed, Unkeyed
<1> HIDE DEF e, with
<1>4. ASSUME NEW r \in Rows
      PROVE  /\ g[r] \in Row /\ KeyStep(d.row[r], g[r])
             /\ g[r].key = IF Rekeyed(d, r) THEN Work(world, d.row[r]) ELSE d.row[r].key
  <2>1. g[r] = IF Rekeyed(d, r) THEN with(d.row[r], Work(world, d.row[r])) ELSE d.row[r]
    OBVIOUS
  <2> HIDE DEF g
  <2>2. KeyStep(d.row[r], d.row[r])
    BY DEF KeyStep
  <2> QED  BY <1>1, <1>2, <2>1, <2>2
<1>5. e \in DbType /\ e.alias = d.alias /\ e.row = g
  <2>1. g \in [Rows -> Row]
    BY <1>4
  <2> HIDE DEF g
  <2> QED  BY <1>3, <2>1 DEF DbType
<1> QED
  BY <1>4, <1>5 DEF e

\* and keys one row of a target that no active row has.
LEMMA BackfillOK ==
    ASSUME NEW d, world \in Worlds, Sound(world, TRUE, d)
    PROVE  Sound(world, TRUE, Backfilled(d))
<1> DEFINE e == Backfilled(d)
           x(r) == d.row[r]
           z(r) == e.row[r]
           new(r) == Rekeyed(d, r)
<1>1. /\ e \in DbType /\ e.alias = d.alias
      /\ \A r \in Rows : /\ KeyStep(x(r), z(r))
                         /\ z(r).key = IF new(r) THEN Work(world, x(r)) ELSE x(r).key
  <2>1. d \in DbType
    BY DEF Sound, Core
  <2> QED  BY <2>1, BackfillSteps
<1>2. /\ \A r \in Rows : RowSound(world, x(r))
      /\ \A r, s \in Rows : r # s => Pair(x(r), x(s)) /\ Swept(world, TRUE, x(r), x(s))
      /\ Folded(d)
  BY DEF Sound, Core, Twins
<1>3. \A r \in Rows : new(r) => /\ x(r).key = NoTarget /\ x(r).status \in Committed
                                /\ Work(world, x(r)) # NoTarget
                                /\ \A s \in Rows : x(s).key = Work(world, x(r))
                                                   => x(s).status \notin Active
  BY DEF Rekeyed, Unkeyed
<1>4. \A r, s \in Rows : new(r) /\ new(s) /\ Work(world, x(r)) = Work(world, x(s)) => r = s
  BY DEF Rekeyed
<1>5. Folded(e)
  <2>1. \A r \in Rows : z(r).msg = x(r).msg /\ z(r).canonical = x(r).canonical
    BY <1>1 DEF KeyStep
  <2>2. /\ \A r \in Rows : x(r).canonical \in Rows \cup {0}
        /\ \A m \in Messages : d.alias[m] \in Rows \cup {0}
    BY DEF Sound, Core, DbType, Row
  <2> HIDE DEF e
  <2> QED  BY <1>1, <1>2, <2>1, <2>2 DEF Folded
<1> HIDE DEF e, x, z, new
<1>6. ASSUME NEW r \in Rows
      PROVE  /\ RowSound(world, z(r)) /\ Sort(world, z(r)) = Sort(world, x(r))
             /\ new(r) => x(r).retry = "none" /\ x(r).msg \in world.legacy
                          /\ Sort(world, x(r)) # "ebook"
  <2>1. RowSound(world, x(r)) /\ KeyStep(x(r), z(r))
        /\ z(r).key = IF new(r) THEN Work(world, x(r)) ELSE x(r).key
    BY <1>1, <1>2
  <2>2. Sort(world, z(r)) = Sort(world, x(r)) /\ Work(world, z(r)) = Work(world, x(r))
    BY <2>1 DEF KeyStep, Sort, Work
  <2>3. new(r) => /\ x(r).key = NoTarget /\ x(r).status \in Committed /\ Work(world, x(r)) # NoTarget
    BY <1>3
  <2>4. new(r) => /\ Sort(world, x(r)) \notin {"abba", "ebook"} /\ x(r).msg \in world.legacy
                  /\ x(r).retry = "none"
    BY <2>1, <2>3 DEF RowSound, KindSound, Committed
  <2>5. StatusSound(z(r))
    BY <2>1, <2>3 DEF RowSound, StatusSound, KeyStep, Committed
  <2>6. RetrySound(z(r))
    BY <2>1 DEF RowSound, RetrySound, KeyStep
  <2>7. KindSound(world, z(r))
    BY <2>1, <2>2, <2>3, <2>4 DEF RowSound, KindSound, KeyStep
  <2> QED  BY <2>2, <2>4, <2>5, <2>6, <2>7 DEF RowSound
<1>7. ASSUME NEW r \in Rows, NEW s \in Rows, r # s
      PROVE  Pair(z(r), z(s)) /\ Swept(world, TRUE, z(r), z(s))
  <2>1. /\ Pair(x(r), x(s)) /\ Pair(x(s), x(r)) /\ Swept(world, TRUE, x(r), x(s))
        /\ KeyStep(x(r), z(r)) /\ KeyStep(x(s), z(s))
        /\ RowSound(world, x(r)) /\ RowSound(world, x(s))
    BY <1>1, <1>2, <1>7
  <2>2. LiveRow(z(r)) = LiveRow(x(r)) /\ LiveRow(z(s)) = LiveRow(x(s))
    BY <2>1 DEF KeyStep, LiveRow
  <2>3. CASE ~new(r) /\ ~new(s)
    <3>1. z(r).key = x(r).key /\ z(s).key = x(s).key
      BY <1>1, <2>3
    <3>2. Pair(z(r), z(s))
      BY <2>1, <2>2, <3>1 DEF Pair, Keyed, KeyStep
    <3>3. Swept(world, TRUE, z(r), z(s))
      BY <1>6, <2>1, <2>2, <3>1 DEF Swept, Keyed, KeyStep
    <3> QED  BY <3>2, <3>3
  <2>4. CASE new(r) \/ new(s)
    <3>1. Keyed(z(r), z(s)) => /\ ~(x(r).status \in Active /\ x(s).status \in Active)
                               /\ x(r).retry \notin RetryLive /\ x(s).retry \notin RetryLive
      <4>1. CASE new(r)
        <5>1. z(r).key = Work(world, x(r)) /\ x(r).retry = "none" /\ Sort(world, x(r)) # "ebook"
          BY <1>1, <1>6, <4>1
        <5>2. z(s).key = z(r).key => ~new(s)
          BY <1>1, <1>4, <1>7, <4>1, <5>1
        <5>3. z(s).key = z(r).key => x(s).key = Work(world, x(r))
          BY <1>1, <5>1, <5>2
        <5>4. z(s).key = z(r).key => x(s).status \notin Active
          BY <1>3, <4>1, <5>3
        <5>5. z(s).key = z(r).key => Work(world, x(s)) = Work(world, x(r))
          BY <1>3, <2>1, <4>1, <5>3 DEF RowSound, KindSound
        <5>6. z(s).key = z(r).key => x(s).retry = "none"
          BY <2>1, <5>1, <5>5 DEF RowSound, KindSound, Sort
        <5> QED  BY <5>1, <5>4, <5>6 DEF Keyed, RetryLive
      <4>2. CASE new(s)
        <5>1. z(s).key = Work(world, x(s)) /\ x(s).retry = "none" /\ Sort(world, x(s)) # "ebook"
          BY <1>1, <1>6, <4>2
        <5>2. z(s).key = z(r).key => ~new(r)
          BY <1>1, <1>4, <1>7, <4>2, <5>1
        <5>3. z(s).key = z(r).key => x(r).key = Work(world, x(s))
          BY <1>1, <5>1, <5>2
        <5>4. z(s).key = z(r).key => x(r).status \notin Active
          BY <1>3, <4>2, <5>3
        <5>5. z(s).key = z(r).key => Work(world, x(s)) = Work(world, x(r))
          BY <1>3, <2>1, <4>2, <5>3 DEF RowSound, KindSound
        <5>6. z(s).key = z(r).key => x(r).retry = "none"
          BY <2>1, <5>1, <5>5 DEF RowSound, KindSound, Sort
        <5> QED  BY <5>1, <5>4, <5>6 DEF Keyed, RetryLive
      <4> QED  BY <2>4, <4>1, <4>2
    <3>2. Pair(z(r), z(s))
      BY <2>1, <2>2, <3>1 DEF Pair, KeyStep
    <3>3. Swept(world, TRUE, z(r), z(s))
      <4>1. CASE new(r)
        BY <1>6, <2>1, <4>1 DEF Swept, KeyStep
      <4>2. CASE new(s)
        BY <1>3, <2>1, <4>2 DEF Swept, KeyStep, Committed
      <4> QED  BY <2>4, <4>1, <4>2
    <3> QED  BY <3>2, <3>3
  <2> QED  BY <2>3, <2>4
<1> QED
  BY <1>1, <1>5, <1>6, <1>7 DEF Sound, Core, Twins, e, z

-----------------------------------------------------------------------------
(* What a step leaves alone                                                *)

\* No thread holds a row that waits, is settled or is folded; the batch holds
\* no other row than one that waits or that it drives.
LEMMA HeldRow ==
    ASSUME IInv, NEW v \in Workers, worker[v].row # 0
    PROVE  LET x == db.row[worker[v].row]
           IN  /\ worker[v].row \in Rows /\ x.canonical = 0
               /\ x.status \in {"new", "processing", "awaiting_selection"}
               /\ x.status = "awaiting_selection" => x.prompt = "posting"
<1>1. /\ worker[v] \in WorkerRow /\ ThreadRow(worker[v], db.row[worker[v].row])
      /\ RowSound(world, db.row[worker[v].row])
  BY DEF IInv, Typed, ThreadSound, Core, WorkerRow
<1> QED
  BY <1>1 DEF WorkerRow, ThreadRow, RowSound, StatusSound, NoRow

\* The same of the batch: its rows are films, and no thread's.
LEMMA BatchHolds ==
    ASSUME IInv
    PROVE  /\ redrive.row # 0 =>
                  LET x == db.row[redrive.row]
                  IN  /\ redrive.row \in Rows /\ Sort(world, x) = "arr"
                      /\ \/ x.status \in {"failed", "needs_selection"}
                         \/ x.status = "awaiting_selection" /\ x.prompt = "posting"
                         \/ x.status = "processing" /\ redrive.pc = "offer"
                      /\ \A v \in Workers : worker[v].row # redrive.row
           /\ \A q \in redrive.plan :
                  /\ q \in Rows /\ db.row[q].status \in {"failed", "needs_selection"}
                  /\ Sort(world, db.row[q]) = "arr"
                  /\ \A v \in Workers : worker[v].row # q
<1>1. /\ redrive \in BatchRow /\ DrivenRow(redrive, db.row[redrive.row])
      /\ \A q \in redrive.plan : Waits(db.row[q])
      /\ redrive.pc \in {"offer", "post"} => ~Held(redrive.row)
      /\ \A q \in Rows : RowSound(world, db.row[q])
  BY DEF IInv, Typed, BatchSound, Core
<1>2. ASSUME NEW q \in Rows, Waits(db.row[q])
      PROVE  /\ db.row[q].status \in {"failed", "needs_selection"} /\ Sort(world, db.row[q]) = "arr"
             /\ \A v \in Workers : worker[v].row # q
  <2>1. db.row[q].status \in {"failed", "needs_selection"} /\ Sort(world, db.row[q]) = "arr"
    BY <1>1, <1>2 DEF Waits, RowSound, StatusSound
  <2>2. q # 0
    BY RowsNat
  <2> QED  BY <2>1, <2>2, HeldRow
<1>3. ASSUME redrive.row # 0, NEW v \in Workers, worker[v].row = redrive.row
      PROVE  redrive.pc \notin {"offer", "post"}
  <2>1. worker[v].pc # "idle"
    BY <1>3 DEF IInv, ThreadSound, ThreadRow, NoRow
  <2> QED  BY <1>1, <1>3, <2>1 DEF Held
<1>4. ASSUME redrive.row # 0
      PROVE  LET x == db.row[redrive.row]
             IN  /\ redrive.row \in Rows /\ Sort(world, x) = "arr"
                 /\ \/ x.status \in {"failed", "needs_selection"}
                    \/ x.status = "awaiting_selection" /\ x.prompt = "posting"
                    \/ x.status = "processing" /\ redrive.pc = "offer"
                 /\ \A v \in Workers : worker[v].row # redrive.row
  <2>1. redrive.row \in Rows /\ redrive.pc \in {"key", "drive", "offer", "post"}
    BY <1>1, <1>4 DEF BatchRow, DrivenRow
  <2>2. CASE redrive.pc \in {"key", "drive"}
    BY <1>1, <1>2, <2>1, <2>2 DEF DrivenRow
  <2>3. CASE redrive.pc \in {"offer", "post"}
    BY <1>1, <1>3, <1>4, <2>1, <2>3 DEF DrivenRow, RowSound, StatusSound
  <2> QED  BY <2>1, <2>2, <2>3
<1>5. \A q \in redrive.plan : q \in Rows
  BY <1>1 DEF BatchRow
<1> QED  BY <1>1, <1>2, <1>4, <1>5

\* Whoever holds a row that was left alone finds it as it was: a thread,
LEMMA LeftThread ==
    ASSUME NEW t \in WorkerRow, NEW x, NEW y, ThreadRow(t, x), StatusSound(x), Left(x, y)
    PROVE  ThreadRow(t, y)
<1>1. Sort(world, y) = Sort(world, x)
  BY DEF Left, Sort, Work
<1>2. t.pc \in NoRow \/ t.pc \in {"decline", "start", "dispatch", "persist", "post"}
  BY DEF WorkerRow, NoRow
<1> QED
  BY <1>1, <1>2 DEF ThreadRow, Left, StatusSound, NoRow

\* the batch's plan,
LEMMA LeftWaits ==
    ASSUME NEW x, NEW y, Waits(x), StatusSound(x), Left(x, y)
    PROVE  Waits(y)
<1>1. Sort(world, y) = Sort(world, x)
  BY DEF Left, Sort, Work
<1> QED
  BY <1>1 DEF Waits, Left, StatusSound

\* and the batch at its row.
LEMMA LeftDriven ==
    ASSUME NEW b, NEW x, NEW y, DrivenRow(b, x), StatusSound(x), Left(x, y)
    PROVE  DrivenRow(b, y)
<1>1. Sort(world, y) = Sort(world, x)
  BY DEF Left, Sort, Work
<1>2. Waits(x) => Waits(y)
  BY LeftWaits
<1> QED
  BY <1>1, <1>2 DEF DrivenRow, Left, StatusSound

\* Who attends to a request that is open.
Attended(x, held) ==
    x.status \in {"new", "processing"} =>
        held \/ Sort(world, x) = "ebook" \/ (Sort(world, x) = "abba" /\ x.cand # None)

\* NobodyStranded in terms of rows, now and after a step.
LEMMA StrandedIs ==
    NobodyStranded <=> \A q \in Rows : Attended(db.row[q], Held(q) \/ Redriving(q))
BY KindIs DEF NobodyStranded, Attended

LEMMA StrandedNext ==
    (NobodyStranded <=> \A q \in Rows : Attended(db.row[q], Held(q) \/ Redriving(q)))'
BY StrandedIs, PTL

\* A step of the threads, or of nobody, which writes at most the row r: the
\* threads that go on do not hold r, the batch does not either, and r, if it is
\* open, is attended to.
LEMMA Frame ==
    ASSUME IInv, NEW r \in Rows \cup {0}, UNCHANGED <<world, redrive>>,
           worker' \in [Workers -> WorkerRow], AllLeft(db, {r}, db'),
           \A v \in Workers :
               \/ worker'[v] = worker[v] /\ (r = 0 \/ worker[v].row # r)
               \/ /\ worker[v].row \in {0, r} /\ worker'[v].row \in {0, r}
                  /\ ThreadRow(worker'[v], db'.row[r]),
           \A u, v \in Workers : r # 0 /\ worker'[u].row = r /\ worker'[v].row = r => u = v,
           r # 0 => redrive.row # r /\ r \notin redrive.plan,
           r # 0 => Attended(db'.row[r], Held(r)')
    PROVE  (\A v \in Workers : ThreadSound(v))' /\ BatchSound' /\ NobodyStranded'
<1>1. /\ worker \in [Workers -> WorkerRow] /\ redrive \in BatchRow
      /\ \A q \in Rows : StatusSound(db.row[q])
      /\ \A q \in Rows \ {r} : Left(db.row[q], db'.row[q])
  BY DEF IInv, Typed, Core, RowSound, AllLeft
<1>2. /\ \A v \in Workers : ThreadSound(v)
      /\ DrivenRow(redrive, db.row[redrive.row]) /\ redrive.row \notin redrive.plan
      /\ \A q \in redrive.plan : Waits(db.row[q])
      /\ redrive.pc \in {"offer", "post"} => ~Held(redrive.row)
  BY DEF IInv, BatchSound
<1>3. 0 \notin Rows
  BY RowsNat
<1>4. ASSUME NEW v \in Workers PROVE ThreadRow(worker'[v], db'.row[worker'[v].row])
  <2>1. CASE worker'[v] = worker[v] /\ (r = 0 \/ worker[v].row # r)
    <3>1. ThreadRow(worker[v], db.row[worker[v].row]) /\ worker[v] \in WorkerRow
      BY <1>1, <1>2 DEF ThreadSound
    <3>2. CASE worker[v].row = 0
      BY <2>1, <3>1, <3>2 DEF ThreadRow, NoRow
    <3>3. CASE worker[v].row # 0
      <4>1. worker[v].row \in Rows \ {r}
        BY <1>3, <2>1, <3>1, <3>3 DEF WorkerRow
      <4> QED  BY <1>1, <2>1, <3>1, <4>1, LeftThread
    <3> QED  BY <3>2, <3>3
  <2>2. CASE /\ worker[v].row \in {0, r} /\ worker'[v].row \in {0, r}
             /\ ThreadRow(worker'[v], db'.row[r])
    BY <2>2 DEF ThreadRow, NoRow
  <2> QED  BY <2>1, <2>2
<1>5. ASSUME NEW v \in Workers, NEW u \in Workers, worker'[v].row # 0, worker'[u].row = worker'[v].row
      PROVE  u = v
  <2>1. CASE worker'[v] = worker[v] /\ worker'[u] = worker[u]
    BY <1>2, <1>5, <2>1 DEF ThreadSound
  <2>2. CASE worker'[v].row = r /\ r # 0
    BY <1>5, <2>2
  <2>3. CASE worker'[v] # worker[v] \/ worker'[u] # worker[u]
    <3>1. worker'[v].row = r /\ r # 0
      BY <1>5, <2>3
    <3> QED  BY <2>2, <3>1
  <2> QED  BY <2>1, <2>3
<1>6. (\A v \in Workers : ThreadSound(v))'
  <2>1. \A v \in Workers : /\ ThreadRow(worker'[v], db'.row[worker'[v].row])
                           /\ \A u \in Workers : worker'[v].row # 0 /\ worker'[u].row = worker'[v].row => u = v
    BY <1>4, <1>5
  <2> QED  BY <2>1 DEF ThreadSound, ThreadRow
<1>7. ASSUME NEW q \in Rows \ {r} PROVE (Held(q) <=> Held(q)')
  <2>1. \A v \in Workers : worker[v].row = q <=> worker'[v].row = q
    BY <1>3
  <2>2. \A v \in Workers : worker[v].row = q => worker'[v] = worker[v]
    BY <1>3
  <2> QED  BY <2>1, <2>2 DEF Held
<1>8. BatchSound'
  <2>1. \A q \in redrive.plan : Waits(db'.row[q])
    <3>1. \A q \in redrive.plan : q \in Rows \ {r}
      BY <1>1, <1>3 DEF BatchRow
    <3> QED  BY <1>1, <1>2, <3>1, LeftWaits
  <2>2. DrivenRow(redrive, db'.row[redrive.row])
    <3>1. CASE redrive.row = 0
      BY <1>2, <3>1 DEF DrivenRow
    <3>2. CASE redrive.row # 0
      <4>1. redrive.row \in Rows \ {r}
        BY <1>1, <3>2 DEF BatchRow
      <4> QED  BY <1>1, <1>2, <4>1, LeftDriven
    <3> QED  BY <3>1, <3>2
  <2>3. redrive.pc \in {"offer", "post"} => ~Held(redrive.row)'
    <3>1. redrive.pc \in {"offer", "post"} => redrive.row \in Rows \ {r}
      BY <1>1, <1>2 DEF DrivenRow, BatchRow
    <3> QED  BY <1>2, <1>7, <3>1
  <2> QED  BY <1>2, <2>1, <2>2, <2>3 DEF BatchSound, DrivenRow, Waits, Held
<1>9. NobodyStranded'
  <2>1. ASSUME NEW q \in Rows PROVE Attended(db'.row[q], Held(q)' \/ Redriving(q))
    <3>1. CASE q = r
      BY <1>3, <3>1 DEF Attended
    <3>2. CASE q # r
      <4>1. Attended(db.row[q], Held(q) \/ Redriving(q)) /\ Left(db.row[q], db'.row[q])
        BY <1>1, <3>2, StrandedIs DEF IInv
      <4>2. Sort(world, db'.row[q]) = Sort(world, db.row[q])
        BY <4>1 DEF Left, Sort, Work
      <4> QED  BY <1>7, <3>2, <4>1, <4>2 DEF Attended, Left
    <3> QED  BY <3>1, <3>2
  <2>2. \A q : Redriving(q)' = Redriving(q)
    BY DEF Redriving
  <2> QED  BY <2>1, <2>2, StrandedNext DEF Attended
<1> QED  BY <1>6, <1>8, <1>9

\* A step of the batch, which writes at most its own row r.
LEMMA BatchFrame ==
    ASSUME IInv, NEW r \in Rows \cup {0}, UNCHANGED <<world, worker>>,
           redrive' \in BatchRow, AllLeft(db, {r}, db'),
           redrive.row \in {0, r}, redrive'.row \in {0, r},
           r # 0 => \A v \in Workers : worker[v].row # r,
           DrivenRow(redrive', db'.row[r]), redrive'.row \notin redrive'.plan,
           \A q \in redrive'.plan : q # r /\ Waits(db.row[q]),
           r # 0 => Attended(db'.row[r], Redriving(r)')
    PROVE  (\A v \in Workers : ThreadSound(v))' /\ BatchSound' /\ NobodyStranded'
<1>1. /\ worker \in [Workers -> WorkerRow]
      /\ \A q \in Rows : StatusSound(db.row[q])
      /\ \A q \in Rows \ {r} : Left(db.row[q], db'.row[q])
  BY DEF IInv, Typed, Core, RowSound, AllLeft
<1>2. \A v \in Workers : ThreadSound(v)
  BY DEF IInv
<1>3. 0 \notin Rows
  BY RowsNat
<1>4. ASSUME NEW v \in Workers PROVE ThreadRow(worker[v], db'.row[worker[v].row])
  <2>1. ThreadRow(worker[v], db.row[worker[v].row]) /\ worker[v] \in WorkerRow
    BY <1>1, <1>2 DEF ThreadSound
  <2>2. CASE worker[v].row = 0
    BY <2>1, <2>2 DEF ThreadRow, NoRow
  <2>3. CASE worker[v].row # 0
    <3>1. worker[v].row \in Rows \ {r}
      BY <1>3, <2>1, <2>3 DEF WorkerRow
    <3> QED  BY <1>1, <2>1, <3>1, LeftThread
  <2> QED  BY <2>2, <2>3
<1>5. (\A v \in Workers : ThreadSound(v))'
  <2>1. \A v \in Workers : /\ ThreadRow(worker[v], db'.row[worker[v].row])
                           /\ \A u \in Workers : worker[v].row # 0 /\ worker[u].row = worker[v].row => u = v
    BY <1>2, <1>4 DEF ThreadSound
  <2> QED  BY <2>1 DEF ThreadSound, ThreadRow
<1>6. \A q : Held(q)' = Held(q)
  BY DEF Held
<1>7. BatchSound'
  <2>1. \A q \in redrive'.plan : Waits(db'.row[q])
    <3>1. \A q \in redrive'.plan : q \in Rows \ {r} /\ Waits(db.row[q])
      BY DEF BatchRow
    <3> QED  BY <1>1, <3>1, LeftWaits
  <2>2. DrivenRow(redrive', db'.row[redrive'.row])
    <3>1. CASE redrive'.row = 0
      BY <3>1 DEF DrivenRow
    <3>2. CASE redrive'.row = r
      BY <3>2
    <3> QED  BY <3>1, <3>2
  <2>3. redrive'.pc \in {"offer", "post"} => ~Held(redrive'.row)
    <3>1. redrive'.pc \in {"offer", "post"} => redrive'.row = r /\ r # 0
      BY DEF DrivenRow
    <3> QED  BY <3>1 DEF Held
  <2> QED  BY <1>6, <2>1, <2>2, <2>3 DEF BatchSound, DrivenRow, Waits, Held
<1>8. NobodyStranded'
  <2>1. ASSUME NEW q \in Rows PROVE Attended(db'.row[q], Held(q)' \/ Redriving(q)')
    <3>1. CASE q = r
      BY <1>3, <3>1 DEF Attended
    <3>2. CASE q # r
      <4>1. Attended(db.row[q], Held(q) \/ Redriving(q)) /\ Left(db.row[q], db'.row[q])
        BY <1>1, <3>2, StrandedIs DEF IInv
      <4>2. Sort(world, db'.row[q]) = Sort(world, db.row[q])
        BY <4>1 DEF Left, Sort, Work
      <4>3. ~Redriving(q)
        BY <1>3, <3>2 DEF Redriving
      <4> QED  BY <1>6, <3>2, <4>1, <4>2, <4>3 DEF Attended, Left
    <3> QED  BY <3>1, <3>2
  <2> QED  BY <2>1, StrandedNext DEF Attended
<1> QED  BY <1>5, <1>7, <1>8

\* The parts of the invariant, after a step.
LEMMA Joined ==
    ASSUME IInv, UNCHANGED world, Sound(world, restarts' > 0, db'),
           worker' \in [Workers -> WorkerRow], redrive' \in BatchRow,
           restarts' \in 0..MaxRestarts, redrives' \in 0..MaxRedrives,
           (\A v \in Workers : ThreadSound(v))' /\ BatchSound' /\ NobodyStranded'
    PROVE  IInv'
<1>1. Typed'
  BY DEF IInv, Typed
<1>2. Core(world, db)' /\ Twins(world, restarts > 0, db)'
  BY DEF Sound, Core, Twins, Folded, Swept, Keyed, Sort, Work, RowSound, KindSound
<1> QED
  BY <1>1, <1>2 DEF IInv

\* One thread w takes a step on the row r, its own or one nobody holds, and
\* comes to be t.
LEMMA ThreadInv ==
    ASSUME IInv, NEW w \in Workers, NEW r \in Rows \cup {0}, NEW t \in WorkerRow,
           UNCHANGED <<world, redrive, restarts, redrives>>,
           worker' = [worker EXCEPT ![w] = t],
           worker[w].row \in {0, r}, t.row \in {0, r}, ThreadRow(t, db'.row[r]),
           r # 0 => /\ \A v \in Workers \ {w} : worker[v].row # r
                    /\ redrive.row # r /\ r \notin redrive.plan
                    /\ Attended(db'.row[r], t.row = r),
           AllLeft(db, {r}, db'), Sound(world, restarts > 0, db')
    PROVE  IInv'
<1>1. /\ worker' \in [Workers -> WorkerRow] /\ redrive' \in BatchRow
      /\ restarts' \in 0..MaxRestarts /\ redrives' \in 0..MaxRedrives
  BY DEF IInv, Typed
<1>2. worker'[w] = t /\ \A v \in Workers \ {w} : worker'[v] = worker[v]
  BY DEF IInv, Typed
<1>3. \A v \in Workers :
           \/ worker'[v] = worker[v] /\ (r = 0 \/ worker[v].row # r)
           \/ /\ worker[v].row \in {0, r} /\ worker'[v].row \in {0, r}
              /\ ThreadRow(worker'[v], db'.row[r])
  BY <1>2
<1>4. \A u, v \in Workers : r # 0 /\ worker'[u].row = r /\ worker'[v].row = r => u = v
  BY <1>2
<1>5. r # 0 => Attended(db'.row[r], Held(r)')
  <2>1. r # 0 /\ t.row = r => t.pc # "idle"
    BY DEF ThreadRow, NoRow
  <2>2. r # 0 /\ t.row = r => Held(r)'
    BY <1>2, <2>1 DEF Held
  <2> QED  BY <2>2 DEF Attended
<1>6. (\A v \in Workers : ThreadSound(v))' /\ BatchSound' /\ NobodyStranded'
  BY <1>1, <1>3, <1>4, <1>5, Frame
<1> QED
  BY <1>1, <1>6, Joined

\* Nobody's step, on the row r which nobody holds.
LEMMA RowInv ==
    ASSUME IInv, NEW r \in Rows \cup {0},
           UNCHANGED <<world, worker, redrive, restarts, redrives>>,
           r # 0 => /\ \A v \in Workers : worker[v].row # r
                    /\ redrive.row # r /\ r \notin redrive.plan
                    /\ Attended(db'.row[r], FALSE),
           AllLeft(db, {r}, db'), Sound(world, restarts > 0, db')
    PROVE  IInv'
<1>1. /\ worker' \in [Workers -> WorkerRow] /\ redrive' \in BatchRow
      /\ restarts' \in 0..MaxRestarts /\ redrives' \in 0..MaxRedrives
  BY DEF IInv, Typed
<1>2. \A v \in Workers : worker'[v] = worker[v] /\ (r = 0 \/ worker[v].row # r)
  OBVIOUS
<1>3. \A u, v \in Workers : r # 0 /\ worker'[u].row = r /\ worker'[v].row = r => u = v
  OBVIOUS
<1>4. r # 0 => Attended(db'.row[r], Held(r)')
  BY DEF Attended
<1>5. (\A v \in Workers : ThreadSound(v))' /\ BatchSound' /\ NobodyStranded'
  BY <1>1, <1>2, <1>3, <1>4, Frame
<1> QED
  BY <1>1, <1>5, Joined

\* A step of the batch on its row.
LEMMA BatchInv ==
    ASSUME IInv, NEW r \in Rows \cup {0}, UNCHANGED <<world, worker, restarts>>,
           redrive' \in BatchRow, redrives' \in 0..MaxRedrives,
           redrive.row \in {0, r}, redrive'.row \in {0, r}, r # 0 => redrive.row = r \/ r \in redrive.plan,
           DrivenRow(redrive', db'.row[r]), redrive'.row \notin redrive'.plan,
           \A q \in redrive'.plan : q # r /\ Waits(db.row[q]),
           r # 0 => Attended(db'.row[r], redrive'.row = r),
           AllLeft(db, {r}, db'), Sound(world, restarts > 0, db')
    PROVE  IInv'
<1>1. worker' \in [Workers -> WorkerRow] /\ restarts' \in 0..MaxRestarts
  BY DEF IInv, Typed
<1>2. r # 0 => \A v \in Workers : worker[v].row # r
  BY BatchHolds
<1>3. r # 0 => Attended(db'.row[r], Redriving(r)')
  <2>1. r # 0 /\ redrive'.row = r => Redriving(r)'
    BY DEF DrivenRow, Redriving
  <2> QED  BY <2>1 DEF Attended
<1>4. (\A v \in Workers : ThreadSound(v))' /\ BatchSound' /\ NobodyStranded'
  BY <1>2, <1>3, BatchFrame
<1> QED
  BY <1>1, <1>4, Joined

\* A thread's own row.
LEMMA OwnRow ==
    ASSUME IInv, NEW w \in Workers, worker[w].pc \notin NoRow
    PROVE  LET r == worker[w].row
           IN  /\ r # 0 /\ r \in Rows /\ db.row[r].canonical = 0
               /\ \A v \in Workers \ {w} : worker[v].row # r
               /\ redrive.row # r /\ r \notin redrive.plan
               /\ RowSound(world, db.row[r]) /\ ThreadRow(worker[w], db.row[r])
               /\ worker[w] \in WorkerRow
<1>1. /\ ThreadSound(w) /\ \A v \in Workers : ThreadSound(v)
      /\ worker[w] \in WorkerRow
      /\ \A q \in Rows : RowSound(world, db.row[q])
  BY DEF IInv, Typed, Core
<1>2. worker[w].row # 0
  BY <1>1 DEF ThreadSound, ThreadRow
<1>3. worker[w].row \in Rows /\ db.row[worker[w].row].canonical = 0
  BY <1>2, HeldRow
<1>4. \A v \in Workers \ {w} : worker[v].row # worker[w].row
  BY <1>1, <1>2 DEF ThreadSound
<1>5. redrive.row # worker[w].row /\ worker[w].row \notin redrive.plan
  BY <1>2, BatchHolds
<1> QED
  BY <1>1, <1>2, <1>3, <1>4, <1>5 DEF ThreadSound

\* What every step starts from.
LEMMA NowSound == IInv => Sound(world, restarts > 0, db) /\ world \in Worlds /\ db \in DbType
BY DEF IInv, Sound, Core, Typed

LEMMA IdleRow == Idle \in WorkerRow /\ Idle.row = 0 /\ \A x : ThreadRow(Idle, x)
BY DEF Idle, WorkerRow, ThreadRow, NoRow

LEMMA SameLeft == \A S : AllLeft(db, S, db)
BY DEF AllLeft, Left

-----------------------------------------------------------------------------
(* The steps                                                               *)

\* A thread takes up a message,
LEMMA DeliverInv ==
    ASSUME IInv, NEW w \in Workers, NEW m \in Messages, Deliver(w, m), UNCHANGED world
    PROVE  IInv'
<1> DEFINE t == [pc |-> "look", msg |-> m, row |-> 0]
<1>1. /\ worker[w].pc = "idle" /\ worker' = [worker EXCEPT ![w] = t] /\ db' = db
      /\ UNCHANGED <<redrive, restarts, redrives>>
  BY DEF Deliver
<1>2. worker[w].row = 0
  BY <1>1 DEF IInv, ThreadSound, ThreadRow, NoRow
<1>3. t \in WorkerRow /\ t.row = 0 /\ ThreadRow(t, db'.row[0])
  BY DEF WorkerRow, ThreadRow, NoRow
<1> HIDE DEF t
<1>4. AllLeft(db, {0}, db') /\ Sound(world, restarts > 0, db')
  BY <1>1, SameLeft, NowSound
<1> QED
  BY <1>1, <1>2, <1>3, <1>4, ThreadInv

\* finds it known,
LEMMA LookInv ==
    ASSUME IInv, NEW w \in Workers, Look(w), UNCHANGED world
    PROVE  IInv'
<1> DEFINE t == IF Resolve(db, worker[w].msg) # 0 THEN Idle ELSE [worker[w] EXCEPT !.pc = "create"]
<1>1. /\ worker[w].pc = "look" /\ worker' = [worker EXCEPT ![w] = t] /\ db' = db
      /\ UNCHANGED <<redrive, restarts, redrives>>
  BY DEF Look, IInv, Typed
<1>2. worker[w].row = 0 /\ worker[w].msg \in Messages /\ worker[w] \in WorkerRow
  BY <1>1 DEF IInv, Typed, ThreadSound, ThreadRow, NoRow
<1>3. t \in WorkerRow /\ t.row = 0 /\ ThreadRow(t, db'.row[0])
  <2>1. CASE t = Idle
    BY <2>1, IdleRow
  <2>2. CASE t = [worker[w] EXCEPT !.pc = "create"]
    BY <1>2, <2>2 DEF WorkerRow, ThreadRow, NoRow
  <2> QED  BY <2>1, <2>2
<1> HIDE DEF t
<1>4. AllLeft(db, {0}, db') /\ Sound(world, restarts > 0, db')
  BY <1>1, SameLeft, NowSound
<1> QED
  BY <1>1, <1>2, <1>3, <1>4, ThreadInv

\* or makes a request of it, or an alias,
LEMMA CreateInv ==
    ASSUME IInv, NEW w \in Workers, Create(w), UNCHANGED world
    PROVE  IInv'
<1> DEFINE m == worker[w].msg
           made == CreateRequest(db, m)
           next == CASE Target[m] = NoTarget -> "decline"
                     [] Target[m] # NoTarget /\ Kind[Target[m]] = "ebook" -> "dispatch"
                     [] OTHER -> "start"
           t == IF made.created THEN [worker[w] EXCEPT !.pc = next, !.row = made.row] ELSE Idle
<1>1. /\ worker[w].pc = "create" /\ worker' = [worker EXCEPT ![w] = t] /\ db' = made.db
      /\ UNCHANGED <<redrive, restarts, redrives>> /\ HasRoom(db)
  BY DEF Create, IInv, Typed
<1>2. worker[w].row = 0 /\ m \in Messages /\ worker[w] \in WorkerRow
  BY <1>1 DEF IInv, Typed, ThreadSound, ThreadRow, NoRow
<1>3. /\ Sound(world, restarts > 0, made.db)
      /\ ~made.created => AllLeft(db, {}, made.db)
      /\ made.created =>
             LET z == made.db.row[made.row]
             IN  /\ made.row \in Rows /\ db.row[made.row].status = "absent"
                 /\ AllLeft(db, {made.row}, made.db)
                 /\ z.canonical = 0 /\ Work(world, z) = Target[m]
                 /\ z.status = IF Sort(world, z) = "ebook" THEN "processing" ELSE "new"
  BY <1>1, <1>2, NowSound, CreateOK
<1> HIDE DEF made
<1>4. CASE ~made.created
  <2>1. t = Idle /\ AllLeft(db, {0}, db')
    BY <1>1, <1>3, <1>4 DEF AllLeft
  <2> HIDE DEF t
  <2> QED
    BY <1>1, <1>2, <1>3, <2>1, IdleRow, ThreadInv
<1>5. CASE made.created
  <2> DEFINE r == made.row
             z == made.db.row[r]
  <2>1. t = [worker[w] EXCEPT !.pc = next, !.row = r]
    BY <1>5
  <2>2. Target[m] \in Targets \cup {NoTarget}
    BY <1>2, NowSound, WorldsAssumption DEF Target
  <2>3. Sort(world, z) = IF Target[m] = NoTarget THEN "none" ELSE Kind[Target[m]]
    BY <1>3, <1>5 DEF Sort
  <2>4. /\ next \in {"decline", "dispatch", "start"}
        /\ next = "decline" => Sort(world, z) = "none"
        /\ next = "dispatch" => Sort(world, z) = "ebook"
        /\ next = "start" => Sort(world, z) \notin {"none", "ebook"}
    BY <2>2, <2>3, TargetsAssumption
  <2> HIDE DEF t, next, z, m
  <2>5. t \in WorkerRow /\ t.pc = next /\ t.row = r
    BY <1>2, <1>3, <1>5, <2>1, <2>4 DEF WorkerRow
  <2>6. r # 0 /\ r \in Rows
    BY <1>3, <1>5, RowsNat
  <2>7. z.canonical = 0 /\ z.status = IF Sort(world, z) = "ebook" THEN "processing" ELSE "new"
    BY <1>3, <1>5 DEF z
  <2>8. ThreadRow(t, z)
    BY <2>4, <2>5, <2>6, <2>7 DEF ThreadRow, NoRow
  <2>9. /\ \A v \in Workers : worker[v].row # r
        /\ redrive.row # r /\ r \notin redrive.plan
    <3>1. db.row[r].status = "absent"
      BY <1>3, <1>5
    <3> QED  BY <2>6, <3>1, HeldRow, BatchHolds
  <2>10. Attended(z, t.row = r)
    BY <2>5 DEF Attended
  <2>11. AllLeft(db, {r}, db')
    BY <1>1, <1>3, <1>5
  <2> QED
    BY <1>1, <1>2, <1>3, <2>5, <2>6, <2>8, <2>9, <2>10, <2>11, ThreadInv DEF z
<1> QED  BY <1>4, <1>5

\* A result which is none of the ebook ledger's.
LEMMA DeclineInv ==
    ASSUME IInv, NEW w \in Workers, Decline(w), UNCHANGED world
    PROVE  IInv'
<1> DEFINE r == worker[w].row
<1>1. /\ worker[w].pc = "decline" /\ worker' = [worker EXCEPT ![w] = Idle]
      /\ db' = Transition(db, r, "needs_selection", ResultHash(db, r, "needs_selection"))
      /\ UNCHANGED <<redrive, restarts, redrives>>
  BY DEF Decline, ResultHash
<1>2. /\ r # 0 /\ r \in Rows /\ \A v \in Workers \ {w} : worker[v].row # r
      /\ redrive.row # r /\ r \notin redrive.plan
      /\ ThreadRow(worker[w], db.row[r])
  BY <1>1, OwnRow DEF NoRow
<1> HIDE DEF r
<1>3. MayTransit(world, db.row[r], "needs_selection")
  BY <1>1, <1>2 DEF ThreadRow, MayTransit
<1>4. "needs_selection" \in Status
  BY DEF Status
<1>5. /\ Sound(world, restarts > 0, db') /\ AllLeft(db, {r}, db')
      /\ db'.row[r].status \in {"needs_selection", "failed"}
  BY <1>1, <1>2, <1>3, <1>4, NowSound, TransitionOK
<1>6. Attended(db'.row[r], Idle.row = r)
  BY <1>5 DEF Attended
<1> QED
  BY <1>1, <1>2, <1>5, <1>6, IdleRow, ThreadInv DEF r

\* and drives it on.
LEMMA StartInv ==
    ASSUME IInv, NEW w \in Workers, Start(w), UNCHANGED world
    PROVE  IInv'
<1> DEFINE r == worker[w].row
           t == [worker[w] EXCEPT !.pc = "dispatch"]
<1>1. /\ worker[w].pc = "start" /\ worker' = [worker EXCEPT ![w] = t]
      /\ db' = Transition(db, r, "processing", ResultHash(db, r, "processing"))
      /\ UNCHANGED <<redrive, restarts, redrives>>
  BY DEF Start, ResultHash, IInv, Typed
<1>2. /\ r # 0 /\ r \in Rows /\ \A v \in Workers \ {w} : worker[v].row # r
      /\ redrive.row # r /\ r \notin redrive.plan
      /\ ThreadRow(worker[w], db.row[r]) /\ worker[w] \in WorkerRow
  BY <1>1, OwnRow DEF NoRow
<1>3. t \in WorkerRow /\ t.pc = "dispatch" /\ t.row = r
  BY <1>2 DEF WorkerRow
<1> HIDE DEF r, t
<1>4. db.row[r].status = "new" /\ MayTransit(world, db.row[r], "processing")
  BY <1>1, <1>2 DEF ThreadRow, MayTransit
<1>5. "processing" \in Status /\ db.row[r].status \in Active
  BY <1>4 DEF Status, Active
<1>6. /\ Sound(world, restarts > 0, db') /\ AllLeft(db, {r}, db')
      /\ db'.row[r].status = "processing" /\ db'.row[r].canonical = 0
  BY <1>1, <1>2, <1>4, <1>5, NowSound, TransitionOK
<1>7. ThreadRow(t, db'.row[r]) /\ Attended(db'.row[r], t.row = r)
  BY <1>2, <1>3, <1>6 DEF ThreadRow, NoRow, Attended
<1> QED
  BY <1>1, <1>2, <1>3, <1>6, <1>7, ThreadInv DEF r

\* It crosses the boundary of the dispatch, or does not,
LEMMA DispatchInv ==
    ASSUME IInv, NEW w \in Workers, Dispatch(w), UNCHANGED world
    PROVE  IInv'
<1> DEFINE r == worker[w].row
           t == [worker[w] EXCEPT !.pc = "persist"]
<1>1. worker[w].pc = "dispatch" /\ UNCHANGED <<redrive, restarts, redrives>>
  BY DEF Dispatch
<1>2. /\ r # 0 /\ r \in Rows /\ \A v \in Workers \ {w} : worker[v].row # r
      /\ redrive.row # r /\ r \notin redrive.plan /\ db.row[r].canonical = 0
      /\ ThreadRow(worker[w], db.row[r]) /\ worker[w] \in WorkerRow
  BY <1>1, OwnRow DEF NoRow
<1>3. /\ t \in WorkerRow /\ t.pc = "persist" /\ t.row = r
      /\ [worker EXCEPT ![w].pc = "persist"] = [worker EXCEPT ![w] = t]
  BY <1>2 DEF WorkerRow, IInv, Typed
<1>4. KindOf(db, r) = Sort(world, db.row[r]) /\ db.row[r].status = "processing"
  BY <1>1, <1>2, KindIs DEF ThreadRow
<1>5. ASSUME AllLeft(db, {r}, db'), Sound(world, restarts > 0, db'),
             db'.row[r].status = "processing", db'.row[r].canonical = 0,
             worker' = [worker EXCEPT ![w] = t]
      PROVE  IInv'
  <2> HIDE DEF t, r
  <2>1. ThreadRow(t, db'.row[r]) /\ Attended(db'.row[r], t.row = r)
    BY <1>2, <1>3, <1>5 DEF ThreadRow, NoRow, Attended
  <2> QED
    BY <1>1, <1>2, <1>3, <1>5, <2>1, ThreadInv DEF r
<1>6. CASE /\ KindOf(db, r) = "abba"
           /\ \E c \in Candidates :
                  /\ db' = ReserveAbba(db, r, c)
                  /\ worker' = IF db'.row[r].canonical # 0
                               THEN [worker EXCEPT ![w] = Idle] ELSE [worker EXCEPT ![w] = t]
  <2>1. PICK c \in Candidates :
            /\ db' = ReserveAbba(db, r, c)
            /\ worker' = IF db'.row[r].canonical # 0
                         THEN [worker EXCEPT ![w] = Idle] ELSE [worker EXCEPT ![w] = t]
    BY <1>6
  <2> HIDE DEF t
  <2>2. /\ Sound(world, restarts > 0, db') /\ AllLeft(db, {r}, db')
        /\ \/ db'.row[r].canonical # 0 /\ db'.row[r].status = "failed"
           \/ db'.row[r].canonical = 0 /\ db'.row[r].status = "processing"
    <3> HIDE DEF r
    <3>1. Sound(world, restarts > 0, db) /\ Sort(world, db.row[r]) = "abba" /\ r \in Rows
          /\ db.row[r].status = "processing" /\ db.row[r].canonical = 0
      BY <1>2, <1>4, <1>6, NowSound
    <3> QED  BY <2>1, <3>1, ReserveOK
  <2>3. CASE db'.row[r].canonical = 0
    BY <1>5, <2>1, <2>2, <2>3
  <2>4. CASE db'.row[r].canonical # 0
    <3>1. Attended(db'.row[r], Idle.row = r) /\ worker' = [worker EXCEPT ![w] = Idle]
      BY <2>1, <2>2, <2>4 DEF Attended
    <3> QED
      BY <1>1, <1>2, <2>2, <3>1, IdleRow, ThreadInv
  <2> QED  BY <2>3, <2>4
<1>7. CASE /\ KindOf(db, r) = "arr" /\ db' = [db EXCEPT !.row[r].prompt = Marked(@)]
           /\ worker' = [worker EXCEPT ![w] = t]
  <2> DEFINE p == Marked(db.row[r].prompt)
             e == WithPrompt(db, r, db.row[r].status, p)
  <2>1. db' = [db EXCEPT !.row[r].prompt = p] /\ p \in Prompts
    BY <1>2, <1>7, NowSound DEF DbType, Row, Marked, Prompts
  <2> HIDE DEF p, r, t
  <2>2. db' = e /\ db.row[r].status \in Status
    BY <1>2, <2>1, NowSound, PutOnlyPrompt
  <2> HIDE DEF e
  <2>3. /\ Writes(db, r, e) /\ e.row[r].prompt = p /\ e.row[r].status = db.row[r].status
        /\ Rest(db.row[r], e.row[r], {"status", "prompt"})
        /\ e.row[r].canonical = db.row[r].canonical
    <3>1. /\ Writes(db, r, e) /\ e.row[r].prompt = p /\ e.row[r].status = db.row[r].status
          /\ Rest(db.row[r], e.row[r], {"status", "prompt"})
      BY <1>2, <2>1, <2>2, NowSound, PutPrompt DEF e
    <3> QED  BY <3>1 DEF Writes
  <2>4. PromptStep(db.row[r], e.row[r])
    BY <1>4, <1>7, <2>3 DEF PromptStep, p
  <2>5. Sound(world, restarts > 0, e) /\ AllLeft(db, {r}, e)
    BY <1>2, <2>3, <2>4, NowSound, PromptOK
  <2> QED
    BY <1>2, <1>4, <1>5, <1>7, <2>2, <2>3, <2>5
<1>8. CASE db' = db /\ worker' = [worker EXCEPT ![w] = t]
  BY <1>2, <1>4, <1>5, <1>8, SameLeft, NowSound
<1> QED
  BY <1>3, <1>6, <1>7, <1>8 DEF Dispatch

\* writes the result,
LEMMA PersistInv ==
    ASSUME IInv, NEW w \in Workers, Persist(w), UNCHANGED world
    PROVE  IInv'
<1> DEFINE r == worker[w].row
           x == db.row[r]
<1>1. /\ worker[w].pc = "persist" /\ worker' = [worker EXCEPT ![w] = Idle]
      /\ UNCHANGED <<redrive, restarts, redrives>>
  BY DEF Persist
<1>2. /\ r # 0 /\ r \in Rows /\ \A v \in Workers \ {w} : worker[v].row # r
      /\ redrive.row # r /\ r \notin redrive.plan /\ x.canonical = 0
      /\ ThreadRow(worker[w], x) /\ RowSound(world, x)
  BY <1>1, OwnRow DEF NoRow
<1>3. KindOf(db, r) = Sort(world, x) /\ x.status = "processing"
  BY <1>1, <1>2, KindIs DEF ThreadRow
<1>4. PICK st \in Results(db, r) :
          /\ ~(st = "needs_selection" /\ x.retry = "retrying")
          /\ \E y \in RetryAfter(db, r, st) :
                 db' = [(IF KindOf(db, r) = "ebook" THEN EbookResult(db, r, st)
                         ELSE Transition(db, r, st, ResultHash(db, r, st)))
                        EXCEPT !.row[r].retry = y]
  BY DEF Persist
<1>5. /\ st \in {"queued", "completed", "needs_selection", "failed"} /\ st \in Status
      /\ st = "needs_selection" => x.cand = None
  BY DEF Results, Status
<1>6. ASSUME AllLeft(db, {r}, db'), Sound(world, restarts > 0, db'),
             db'.row[r].status \notin {"new", "processing"}
      PROVE  IInv'
  <2>1. Attended(db'.row[r], Idle.row = r)
    BY <1>6 DEF Attended
  <2> QED
    BY <1>1, <1>2, <1>6, <2>1, IdleRow, ThreadInv
<1>7. CASE Sort(world, x) = "ebook"
  <2>1. PICK y \in RetryAfter(db, r, st) : db' = [EbookResult(db, r, st) EXCEPT !.row[r].retry = y]
    BY <1>3, <1>4, <1>7
  <2> DEFINE e == WithRetry(db, r, st, y)
  <2>2. db' = e
    BY <2>1, <1>2, NowSound DEF EbookResult, WithRetry
  <2>3. y \in Retries
    BY <1>2, NowSound DEF RetryAfter, Retries, RetryLive, DbType, Row
  <2> HIDE DEF r
  <2>4. /\ Writes(db, r, e) /\ e.row[r].status = st /\ e.row[r].retry = y
        /\ Rest(db.row[r], e.row[r], {"status", "retry"})
    BY <1>2, <1>5, <2>3, NowSound, PutRetry
  <2> HIDE DEF e, x
  <2>5. \/ st = "failed" /\ x.retry = "retrying" /\ y \in {"queued", "expired"}
        \/ st = "failed" /\ x.retry = "none" /\ y \in {"none", "queued"}
        \/ st = "failed" /\ x.retry \notin {"none", "retrying"} /\ y = x.retry
        \/ st = "queued" /\ x.retry = "retrying" /\ y = "awaiting_import"
        \/ st = "completed" /\ x.retry = "retrying" /\ y = "fulfilled"
        \/ st \in {"queued", "completed", "needs_selection"} /\ x.retry # "retrying" /\ y = x.retry
    BY <1>3, <1>4, <1>5, <1>7 DEF RetryAfter, x
  <2>6. ResultStep(x, e.row[r])
    BY <1>3, <1>7, <2>4, <2>5 DEF ResultStep
  <2>7. Sound(world, restarts > 0, e) /\ AllLeft(db, {r}, e)
    BY <1>2, <2>4, <2>6, NowSound, SettleOK DEF x
  <2> QED
    BY <1>5, <1>6, <2>2, <2>4, <2>7
<1>8. CASE Sort(world, x) # "ebook"
  <2> DEFINE e == Transition(db, r, st, ResultHash(db, r, st))
  <2>1. db' = [e EXCEPT !.row[r].retry = x.retry]
    BY <1>3, <1>4, <1>8 DEF RetryAfter
  <2>2. MayTransit(world, x, st)
    BY <1>3, <1>5, <1>8 DEF MayTransit
  <2> HIDE DEF r
  <2>3. /\ Sound(world, restarts > 0, e) /\ AllLeft(db, {r}, e) /\ e.row[r].retry = x.retry
        /\ e.row[r].status = st \/ e.row[r].status = "failed"
    BY <1>2, <1>5, <2>2, NowSound, TransitionOK
  <2> HIDE DEF e, x
  <2>4. db' = e
    <3>1. e \in DbType /\ e.row[r] \in Row
      BY <1>2, <2>3 DEF Sound, Core, DbType
    <3>2. [e.row[r] EXCEPT !.retry = x.retry] = e.row[r]
      BY <2>3, <3>1 DEF Row
    <3> QED  BY <1>2, <2>1, <3>1, <3>2 DEF DbType
  <2> QED
    BY <1>5, <1>6, <2>3, <2>4
<1> QED  BY <1>7, <1>8

\* A prompt is posted on the row r, whoever's it is.
LEMMA PromptedOK ==
    ASSUME IInv, NEW r \in Rows, CanPrompt(db, r), db.row[r].cand = None,
           Sort(world, db.row[r]) # "ebook"
    PROVE  LET e == Prompted(db, r)
           IN  /\ Sound(world, restarts > 0, e) /\ AllLeft(db, {r}, e)
               /\ e.row[r].status = "awaiting_selection" /\ e.row[r].prompt = "posting"
               /\ e.row[r].canonical = db.row[r].canonical /\ e.row[r].msg = db.row[r].msg
<1> DEFINE e == WithPrompt(db, r, "awaiting_selection", "posting")
<1>1. Prompted(db, r) = e
  BY DEF Prompted, WithPrompt
<1>2. "awaiting_selection" \in Status /\ "posting" \in Prompts
  BY DEF Status, Prompts
<1>3. /\ Writes(db, r, e) /\ e.row[r].status = "awaiting_selection" /\ e.row[r].prompt = "posting"
      /\ Rest(db.row[r], e.row[r], {"status", "prompt"})
  BY <1>2, NowSound, PutPrompt
<1> HIDE DEF e
<1>4. PromptStep(db.row[r], e.row[r])
  BY <1>3 DEF CanPrompt, PromptStep, Unsettled
<1>5. Sound(world, restarts > 0, e) /\ AllLeft(db, {r}, e)
  BY <1>3, <1>4, NowSound, PromptOK
<1> QED
  BY <1>1, <1>3, <1>5 DEF Writes

\* or a choice,
LEMMA OfferInv ==
    ASSUME IInv, NEW w \in Workers, Offer(w), UNCHANGED world
    PROVE  IInv'
<1> DEFINE r == worker[w].row
           t == [worker[w] EXCEPT !.pc = "post"]
<1>1. /\ worker[w].pc = "persist" /\ worker' = [worker EXCEPT ![w] = t]
      /\ UNCHANGED <<redrive, restarts, redrives>> /\ db' = Prompted(db, r)
      /\ CanPrompt(db, r) /\ db.row[r].cand = None /\ KindOf(db, r) # "ebook"
  BY DEF Offer, IInv, Typed
<1>2. /\ r # 0 /\ r \in Rows /\ \A v \in Workers \ {w} : worker[v].row # r
      /\ redrive.row # r /\ r \notin redrive.plan /\ db.row[r].canonical = 0
      /\ worker[w] \in WorkerRow
  BY <1>1, OwnRow DEF NoRow
<1>3. t \in WorkerRow /\ t.pc = "post" /\ t.row = r
  BY <1>2 DEF WorkerRow
<1> HIDE DEF r, t
<1>4. /\ Sound(world, restarts > 0, db') /\ AllLeft(db, {r}, db')
      /\ db'.row[r].prompt = "posting" /\ db'.row[r].canonical = 0
      /\ db'.row[r].status = "awaiting_selection"
  BY <1>1, <1>2, KindIs, PromptedOK
<1>5. ThreadRow(t, db'.row[r]) /\ Attended(db'.row[r], t.row = r)
  BY <1>2, <1>3, <1>4 DEF ThreadRow, NoRow, Attended
<1> QED
  BY <1>1, <1>2, <1>3, <1>4, <1>5, ThreadInv DEF r

\* A posted prompt is bound; a prompt or its request is released.
LEMMA BoundOK ==
    ASSUME IInv, NEW r \in Rows
    PROVE  LET e == Bound(db, r)
           IN  /\ Sound(world, restarts > 0, e) /\ AllLeft(db, {r}, e)
               /\ e.row[r].status = db.row[r].status
               /\ e # db => e.row[r].status = "awaiting_selection"
<1>1. CASE db.row[r].prompt # "posting"
  BY <1>1, SameLeft, NowSound DEF Bound
<1>2. CASE db.row[r].prompt = "posting"
  <2> DEFINE e == WithPrompt(db, r, db.row[r].status, "open")
  <2>1. "open" \in Prompts
    BY DEF Prompts
  <2>2. Bound(db, r) = e /\ db.row[r].status \in Status
    BY <1>2, <2>1, NowSound, PutOnlyPrompt DEF Bound
  <2>3. /\ Writes(db, r, e) /\ e.row[r].status = db.row[r].status /\ e.row[r].prompt = "open"
        /\ Rest(db.row[r], e.row[r], {"status", "prompt"})
    BY <2>1, <2>2, NowSound, PutPrompt
  <2> HIDE DEF e
  <2>4. PromptStep(db.row[r], e.row[r])
    BY <1>2, <2>3 DEF PromptStep
  <2>5. Sound(world, restarts > 0, e) /\ AllLeft(db, {r}, e)
    BY <2>3, <2>4, NowSound, PromptOK
  <2>6. db.row[r].status = "awaiting_selection"
    BY <1>2 DEF IInv, Core, RowSound, StatusSound
  <2> QED  BY <2>2, <2>3, <2>5, <2>6
<1> QED  BY <1>1, <1>2

LEMMA ReleasedOK ==
    ASSUME IInv, NEW r \in Rows, NEW how \in {"over", "refused"}
    PROVE  LET e == Released(db, r, how)
           IN  /\ Sound(world, restarts > 0, e) /\ AllLeft(db, {r}, e)
               /\ e.row[r].status = IF db.row[r].status = "awaiting_selection"
                                    THEN "needs_selection" ELSE db.row[r].status
<1>1. CASE db.row[r].status # "awaiting_selection"
  BY <1>1, SameLeft, NowSound DEF Released
<1>2. CASE db.row[r].status = "awaiting_selection"
  <2> DEFINE e == WithPrompt(db, r, "needs_selection", how)
  <2>1. "needs_selection" \in Status /\ how \in Prompts
    BY DEF Status, Prompts
  <2>2. Released(db, r, how) = e
    BY <1>2 DEF Released, WithPrompt
  <2>3. /\ Writes(db, r, e) /\ e.row[r].status = "needs_selection" /\ e.row[r].prompt = how
        /\ Rest(db.row[r], e.row[r], {"status", "prompt"})
    BY <2>1, NowSound, PutPrompt
  <2> HIDE DEF e
  <2>4. PromptStep(db.row[r], e.row[r])
    BY <1>2, <2>3 DEF PromptStep
  <2>5. Sound(world, restarts > 0, e) /\ AllLeft(db, {r}, e)
    BY <2>3, <2>4, NowSound, PromptOK
  <2> QED  BY <1>2, <2>2, <2>3, <2>5
<1> QED  BY <1>1, <1>2

\* and posts it.
LEMMA PostInv ==
    ASSUME IInv, NEW w \in Workers, Post(w), UNCHANGED world
    PROVE  IInv'
<1> DEFINE r == worker[w].row
<1>1. /\ worker[w].pc = "post" /\ worker' = [worker EXCEPT ![w] = Idle]
      /\ UNCHANGED <<redrive, restarts, redrives>>
      /\ db' = Bound(db, r) \/ db' = Released(db, r, "over")
  BY DEF Post
<1>2. /\ r # 0 /\ r \in Rows /\ \A v \in Workers \ {w} : worker[v].row # r
      /\ redrive.row # r /\ r \notin redrive.plan
      /\ ThreadRow(worker[w], db.row[r]) /\ RowSound(world, db.row[r])
  BY <1>1, OwnRow DEF NoRow
<1> HIDE DEF r
<1>3. db.row[r].status = "awaiting_selection"
  BY <1>1, <1>2 DEF ThreadRow, RowSound, StatusSound
<1>4. /\ Sound(world, restarts > 0, db') /\ AllLeft(db, {r}, db')
      /\ db'.row[r].status \in {"awaiting_selection", "needs_selection"}
  BY <1>1, <1>2, <1>3, BoundOK, ReleasedOK
<1>5. Attended(db'.row[r], Idle.row = r)
  BY <1>4 DEF Attended
<1> QED
  BY <1>1, <1>2, <1>4, <1>5, IdleRow, ThreadInv DEF r

\* A row nobody holds: an open prompt, a settled row, one that waits to retry.
LEMMA FreeOf ==
    ASSUME IInv, NEW r \in Rows,
           LET x == db.row[r]
           IN  \/ x.status = "awaiting_selection" /\ x.prompt # "posting"
               \/ x.status \in {"queued", "completed"}
               \/ x.status = "failed" /\ Sort(world, x) # "arr"
    PROVE  /\ r # 0 /\ \A v \in Workers : worker[v].row # r
           /\ redrive.row # r /\ r \notin redrive.plan
<1>1. r # 0
  BY RowsNat
<1> QED  BY <1>1, HeldRow, BatchHolds

\* A choice makes the row a thread's again,
LEMMA ChooseInv ==
    ASSUME IInv, NEW w \in Workers, NEW r \in Rows, Choose(w, r), UNCHANGED world
    PROVE  IInv'
<1> DEFINE t == [pc |-> "dispatch", msg |-> None, row |-> r]
           e == WithPrompt(db, r, "processing", "claimed")
<1>1. /\ worker[w].pc = "idle" /\ worker' = [worker EXCEPT ![w] = t]
      /\ UNCHANGED <<redrive, restarts, redrives>>
      /\ db.row[r].prompt = "open" /\ db.row[r].status = "awaiting_selection"
      /\ db' = [db EXCEPT !.row[r].prompt = "claimed", !.row[r].status = "processing"]
  BY DEF Choose
<1>2. worker[w].row = 0
  BY <1>1 DEF IInv, ThreadSound, ThreadRow, NoRow
<1>3. t \in WorkerRow /\ t.pc = "dispatch" /\ t.row = r
  BY DEF WorkerRow
<1>4. "processing" \in Status /\ "claimed" \in Prompts
  BY DEF Status, Prompts
<1>5. db' = e
  BY <1>1, NowSound DEF WithPrompt, DbType, Row
<1>6. /\ Writes(db, r, e) /\ e.row[r].status = "processing" /\ e.row[r].prompt = "claimed"
      /\ Rest(db.row[r], e.row[r], {"status", "prompt"})
  BY <1>4, NowSound, PutPrompt
<1> HIDE DEF e, t
<1>7. PromptStep(db.row[r], e.row[r])
  BY <1>1, <1>6 DEF PromptStep
<1>8. Sound(world, restarts > 0, e) /\ AllLeft(db, {r}, e)
  BY <1>6, <1>7, NowSound, PromptOK
<1>9. /\ r # 0 /\ \A v \in Workers : worker[v].row # r
      /\ redrive.row # r /\ r \notin redrive.plan
  BY <1>1, FreeOf
<1>10. e.row[r].canonical = 0
  BY <1>1, <1>6 DEF Writes, IInv, Core, RowSound, StatusSound
<1>11. ThreadRow(t, e.row[r]) /\ Attended(e.row[r], t.row = r)
  BY <1>3, <1>6, <1>9, <1>10 DEF ThreadRow, NoRow, Attended
<1>12. /\ ThreadRow(t, db'.row[r]) /\ Attended(db'.row[r], t.row = r)
       /\ AllLeft(db, {r}, db') /\ Sound(world, restarts > 0, db')
  BY <1>5, <1>8, <1>11
<1> QED
  BY <1>1, <1>2, <1>3, <1>9, <1>12, ThreadInv

\* as does a retry,
LEMMA ClaimRetryInv ==
    ASSUME IInv, NEW w \in Workers, NEW r \in Rows, ClaimRetry(w, r), UNCHANGED world
    PROVE  IInv'
<1> DEFINE t == [pc |-> "dispatch", msg |-> None, row |-> r]
           e == WithRetry(db, r, "processing", "retrying")
<1>1. db.row[r].retry \in RetryLive
  BY DEF ClaimRetry, RetryLive
<1>2. TargetKeyOwner(db, r, db.row[r].key) = 0
  BY <1>1, NowSound, RetryUnowned
<1>3. /\ worker[w].pc = "idle" /\ UNCHANGED <<redrive, restarts, redrives>>
      /\ db.row[r].retry = "queued" /\ db.row[r].status = "failed"
      /\ db' = [db EXCEPT !.row[r].retry = "retrying", !.row[r].status = "processing"]
      /\ worker' = [worker EXCEPT ![w] = t]
  BY <1>2 DEF ClaimRetry
<1>4. worker[w].row = 0
  BY <1>3 DEF IInv, ThreadSound, ThreadRow, NoRow
<1>5. t \in WorkerRow /\ t.pc = "dispatch" /\ t.row = r
  BY DEF WorkerRow
<1>6. "processing" \in Status /\ "retrying" \in Retries
  BY DEF Status, Retries, RetryLive
<1>7. db' = e
  BY <1>3, NowSound DEF WithRetry, DbType, Row
<1>8. /\ Writes(db, r, e) /\ e.row[r].status = "processing" /\ e.row[r].retry = "retrying"
      /\ Rest(db.row[r], e.row[r], {"status", "retry"})
  BY <1>6, NowSound, PutRetry
<1> HIDE DEF e, t
<1>9. ClaimStep(db.row[r], e.row[r])
  BY <1>3, <1>8 DEF ClaimStep
<1>10. Sound(world, restarts > 0, e) /\ AllLeft(db, {r}, e)
  BY <1>8, <1>9, NowSound, ClaimOK
<1>11. Sort(world, db.row[r]) = "ebook" /\ db.row[r].canonical = 0
  BY <1>1, <1>3 DEF IInv, Core, RowSound, KindSound, StatusSound
<1>12. /\ r # 0 /\ \A v \in Workers : worker[v].row # r
       /\ redrive.row # r /\ r \notin redrive.plan
  BY <1>3, <1>11, FreeOf
<1>13. e.row[r].canonical = 0
  BY <1>8, <1>11 DEF Writes
<1>14. ThreadRow(t, e.row[r]) /\ Attended(e.row[r], t.row = r)
  BY <1>5, <1>8, <1>12, <1>13 DEF ThreadRow, NoRow, Attended
<1>15. /\ ThreadRow(t, db'.row[r]) /\ Attended(db'.row[r], t.row = r)
       /\ AllLeft(db, {r}, db') /\ Sound(world, restarts > 0, db')
  BY <1>7, <1>10, <1>14
<1> QED
  BY <1>3, <1>4, <1>5, <1>12, <1>15, ThreadInv

\* and the resumption of a cascade.
LEMMA ResumeEbookInv ==
    ASSUME IInv, NEW w \in Workers, NEW r \in Rows, ResumeEbook(w, r), UNCHANGED world
    PROVE  IInv'
<1> DEFINE t == [pc |-> "persist", msg |-> None, row |-> r]
           x == db.row[r]
<1>1. /\ worker[w].pc = "idle" /\ UNCHANGED <<db, redrive, restarts, redrives>> /\ ~Held(r)
      /\ Sort(world, x) = "ebook" /\ x.status = "processing"
      /\ worker' = [worker EXCEPT ![w] = t]
  BY KindIs DEF ResumeEbook
<1>2. worker[w].row = 0
  BY <1>1 DEF IInv, ThreadSound, ThreadRow, NoRow
<1>3. t \in WorkerRow /\ t.pc = "persist" /\ t.row = r
  BY DEF WorkerRow
<1> HIDE DEF t
<1>4. x.canonical = 0
  BY <1>1 DEF IInv, Core, RowSound, StatusSound
<1>5. r # 0 /\ redrive.row # r /\ r \notin redrive.plan
  <2>1. r # 0
    BY RowsNat
  <2> QED  BY <1>1, <2>1, BatchHolds
<1>6. \A v \in Workers : worker[v].row # r
  BY <1>1, <1>5 DEF IInv, ThreadSound, ThreadRow, NoRow, Held
<1>7. ThreadRow(t, x) /\ Attended(x, t.row = r)
  BY <1>1, <1>3, <1>4, <1>5 DEF ThreadRow, NoRow, Attended
<1>8. AllLeft(db, {r}, db') /\ Sound(world, restarts > 0, db')
  BY <1>1, SameLeft, NowSound
<1> QED
  BY <1>1, <1>2, <1>3, <1>5, <1>6, <1>7, <1>8, ThreadInv

\* Prompts end;
LEMMA ReleaseInv ==
    ASSUME IInv, NEW r \in Rows, Release(r), UNCHANGED world
    PROVE  IInv'
<1>1. /\ db.row[r].prompt = "open" /\ db.row[r].status = "awaiting_selection"
      /\ UNCHANGED <<worker, redrive, restarts, redrives>>
  BY DEF Release
<1>2. PICK how \in {"over", "refused"} : db' = Released(db, r, how)
  BY DEF Release
<1>3. /\ Sound(world, restarts > 0, db') /\ AllLeft(db, {r}, db')
      /\ db'.row[r].status = "needs_selection"
  BY <1>1, <1>2, ReleasedOK
<1>4. /\ r # 0 /\ \A v \in Workers : worker[v].row # r
      /\ redrive.row # r /\ r \notin redrive.plan
  BY <1>1, FreeOf
<1>5. Attended(db'.row[r], FALSE)
  BY <1>3 DEF Attended
<1> QED
  BY <1>1, <1>3, <1>4, <1>5, RowInv

\* queued requests end;
LEMMA SettleInv ==
    ASSUME IInv, NEW r \in Rows, Settle(r), UNCHANGED world
    PROVE  IInv'
<1> DEFINE x == db.row[r]
<1>1. x.status = "queued" /\ UNCHANGED <<worker, redrive, restarts, redrives>>
  BY DEF Settle
<1>2. PICK st \in {"completed", "failed"} :
          db' = [db EXCEPT !.row[r].status = st,
                           !.row[r].retry = IF @ # "awaiting_import" THEN @
                                            ELSE IF st = "completed" THEN "fulfilled"
                                            ELSE "blocked"]
  BY DEF Settle
<1> DEFINE y == IF x.retry # "awaiting_import" THEN x.retry
                ELSE IF st = "completed" THEN "fulfilled" ELSE "blocked"
           e == WithRetry(db, r, st, y)
<1>3. st \in Status /\ y \in Retries
  BY NowSound DEF Status, Retries, RetryLive, DbType, Row
<1>4. db' = e
  BY <1>2, NowSound DEF WithRetry, DbType, Row
<1>5. y = IF x.retry # "awaiting_import" THEN x.retry
          ELSE IF st = "completed" THEN "fulfilled" ELSE "blocked"
  OBVIOUS
<1> HIDE DEF y
<1>6. /\ Writes(db, r, e) /\ e.row[r].status = st /\ e.row[r].retry = y
      /\ Rest(x, e.row[r], {"status", "retry"})
  BY <1>3, NowSound, PutRetry
<1> HIDE DEF e, x
<1>7. SettleStep(x, e.row[r])
  BY <1>1, <1>5, <1>6 DEF SettleStep
<1>8. Sound(world, restarts > 0, e) /\ AllLeft(db, {r}, e)
  BY <1>6, <1>7, NowSound, SettleOK DEF x
<1>9. /\ r # 0 /\ \A v \in Workers : worker[v].row # r
      /\ redrive.row # r /\ r \notin redrive.plan
  BY <1>1, FreeOf DEF x
<1>10. /\ Attended(db'.row[r], FALSE)
       /\ Sound(world, restarts > 0, db') /\ AllLeft(db, {r}, db')
  BY <1>4, <1>6, <1>8 DEF Attended
<1> QED
  BY <1>1, <1>9, <1>10, RowInv

\* a blocked retry is proved;
LEMMA ProveInv ==
    ASSUME IInv, NEW r \in Rows, Prove(r), UNCHANGED world
    PROVE  IInv'
<1> DEFINE x == db.row[r]
           e == WithRetry(db, r, "completed", "fulfilled")
<1>1. /\ x.retry = "blocked" /\ UNCHANGED <<worker, redrive, restarts, redrives>>
      /\ db' = [db EXCEPT !.row[r].status = "completed", !.row[r].retry = "fulfilled"]
  BY DEF Prove
<1>2. x.status = "failed" /\ Sort(world, x) = "ebook"
  BY <1>1 DEF IInv, Core, RowSound, RetrySound, KindSound
<1>3. "completed" \in Status /\ "fulfilled" \in Retries
  BY DEF Status, Retries
<1>4. db' = e
  BY <1>1 DEF WithRetry
<1>5. /\ Writes(db, r, e) /\ e.row[r].status = "completed" /\ e.row[r].retry = "fulfilled"
      /\ Rest(x, e.row[r], {"status", "retry"})
  BY <1>3, NowSound, PutRetry
<1> HIDE DEF e, x
<1>6. ClaimStep(x, e.row[r])
  BY <1>1, <1>5 DEF ClaimStep
<1>7. Sound(world, restarts > 0, e) /\ AllLeft(db, {r}, e)
  BY <1>5, <1>6, NowSound, ClaimOK DEF x
<1>8. /\ r # 0 /\ \A v \in Workers : worker[v].row # r
      /\ redrive.row # r /\ r \notin redrive.plan
  BY <1>2, FreeOf DEF x
<1>9. /\ Attended(db'.row[r], FALSE)
      /\ Sound(world, restarts > 0, db') /\ AllLeft(db, {r}, db')
  BY <1>4, <1>5, <1>7 DEF Attended
<1> QED
  BY <1>1, <1>8, <1>9, RowInv

\* an interrupted grab is found;
LEMMA RecoverAbbaInv ==
    ASSUME IInv, NEW r \in Rows, RecoverAbba(r), UNCHANGED world
    PROVE  IInv'
<1> DEFINE x == db.row[r]
<1>1. /\ Sort(world, x) = "abba" /\ ~Held(r) /\ x.status = "processing"
      /\ UNCHANGED <<worker, redrive, restarts, redrives>>
  BY KindIs DEF RecoverAbba
<1>2. PICK st \in {"queued", "failed"} : db' = Transition(db, r, st, ResultHash(db, r, st))
  BY DEF RecoverAbba
<1>3. st \in Status /\ MayTransit(world, x, st)
  BY <1>1 DEF Status, MayTransit
<1>4. /\ Sound(world, restarts > 0, db') /\ AllLeft(db, {r}, db')
      /\ db'.row[r].status \in {"queued", "failed"}
  BY <1>2, <1>3, NowSound, TransitionOK
<1>5. r # 0
  BY RowsNat
<1>6. redrive.row # r /\ r \notin redrive.plan
  BY <1>1, <1>5, BatchHolds
<1>7. \A v \in Workers : worker[v].row # r
  BY <1>1, <1>5 DEF IInv, ThreadSound, ThreadRow, NoRow, Held
<1>8. Attended(db'.row[r], FALSE)
  BY <1>4 DEF Attended
<1> QED
  BY <1>1, <1>4, <1>5, <1>6, <1>7, <1>8, RowInv

\* and the operator folds a row: no one's step, on a row no one holds.
LEMMA CollapseInv ==
    ASSUME IInv, NEW r \in Rows, Collapse(r), UNCHANGED world
    PROVE  IInv'
<1> DEFINE o == TargetKeyOwner(db, r, WorkOf(db, r))
           x == db.row[r]
<1>1. /\ x.status = "needs_selection" /\ x.canonical = 0 /\ Sort(world, x) = "arr"
      /\ o # 0 /\ db' = Coalesce(db, {r}, o)
      /\ UNCHANGED <<worker, redrive, restarts, redrives>>
  BY KindIs DEF Collapse
<1>2. o \in Rows /\ o # r /\ LiveRow(db.row[o])
  BY <1>1, KeyOwner
<1> HIDE DEF o
<1>3. /\ RowSound(world, x) /\ Core(world, db) /\ Twins(world, restarts > 0, db)
      /\ db \in DbType
  BY DEF IInv, Core
<1>4. Folds(db, {r}, o, db')
  BY <1>1, <1>2, <1>3, FoldRows
<1>5. MayFold(world, db, {r}, o)
  BY <1>1, <1>2, <1>3 DEF MayFold, RowSound, KindSound, RetryLive, LiveRow
<1>6. Sound(world, restarts > 0, db') /\ AllLeft(db, {r}, db')
  BY <1>3, <1>4, <1>5, FoldCore, FoldTwins, FoldFrame DEF Sound
<1>7. Left(x, db'.row[r])
  <2>1. 0 \notin Rows
    BY RowsNat
  <2> QED  BY <1>1, <1>2, <1>4, <2>1 DEF Folds, Left
<1>8. AllLeft(db, {0}, db')
  BY <1>6, <1>7 DEF AllLeft
<1> QED
  BY <1>1, <1>6, <1>8, RowInv

\* The batch at rest holds nothing.
LEMMA RestRow == AtRest \in BatchRow /\ AtRest.row = 0 /\ AtRest.plan = {} /\ \A x : DrivenRow(AtRest, x)
BY DEF AtRest, BatchRow, DrivenRow

\* The batch reads its plan,
LEMMA ScanInv ==
    ASSUME IInv, Scan, UNCHANGED world
    PROVE  IInv'
<1>1. /\ redrive.pc = "idle" /\ redrives < MaxRedrives /\ redrives' = redrives + 1
      /\ redrive' = [AtRest EXCEPT !.pc = "next", !.plan = Stuck(db)]
      /\ UNCHANGED <<db, worker, restarts>>
  BY DEF Scan
<1>2. Stuck(db) \subseteq Rows
  BY DEF Stuck
<1>3. \A q \in Stuck(db) : q # 0 /\ Waits(db.row[q])
  BY KindIs, RowsNat DEF Stuck, Waits
<1>4. redrives' \in 0..MaxRedrives
  BY <1>1, WorldsAssumption DEF IInv, Typed
<1>5. redrive.row = 0
  BY <1>1 DEF IInv, BatchSound, DrivenRow
<1>6. redrive' \in BatchRow /\ redrive'.pc = "next" /\ redrive'.row = 0 /\ redrive'.plan = Stuck(db)
  BY <1>1, <1>2 DEF AtRest, BatchRow
<1>7. DrivenRow(redrive', db'.row[0]) /\ redrive'.row \notin redrive'.plan
  BY <1>3, <1>6 DEF DrivenRow
<1>8. AllLeft(db, {0}, db') /\ Sound(world, restarts > 0, db')
  BY <1>1, SameLeft, NowSound
<1> QED
  BY <1>1, <1>3, <1>4, <1>5, <1>6, <1>7, <1>8, BatchInv

\* A row that waits is open to nobody.
LEMMA WaitsAttended ==
    ASSUME NEW x, RowSound(world, x), Waits(x), NEW h
    PROVE  Attended(x, h)
BY DEF Waits, Attended, RowSound, StatusSound

\* takes a row out of it,
LEMMA NextRowInv ==
    ASSUME IInv, NextRow, UNCHANGED world
    PROVE  IInv'
<1> DEFINE r == Min(redrive.plan)
           rest == [redrive EXCEPT !.plan = @ \ {r}]
           at == [rest EXCEPT !.pc = "key", !.row = r]
<1>1. /\ redrive.pc = "next" /\ UNCHANGED <<db, worker, restarts, redrives>>
      /\ \/ redrive.plan = {} /\ redrive' = AtRest
         \/ redrive.plan # {} /\ redrive' \in {at, rest}
  BY DEF NextRow
<1>2. /\ redrive \in BatchRow /\ redrives \in 0..MaxRedrives
      /\ redrive.row = 0 /\ 0 \notin redrive.plan /\ redrive.plan \in SUBSET Rows
      /\ \A q \in redrive.plan : Waits(db.row[q])
      /\ \A q \in Rows : RowSound(world, db.row[q])
  BY <1>1 DEF IInv, Typed, BatchSound, DrivenRow, Core, BatchRow
<1>3. \A S : AllLeft(db, S, db') /\ Sound(world, restarts > 0, db')
  BY <1>1, SameLeft, NowSound
<1>4. CASE redrive' = AtRest
  <2>1. \A q \in redrive'.plan : q # 0 /\ Waits(db.row[q])
    BY <1>4, RestRow
  <2> QED
    BY <1>1, <1>2, <1>3, <1>4, <2>1, RestRow, BatchInv
<1>5. CASE redrive.plan # {} /\ redrive' = rest
  <2>1. redrive' \in BatchRow /\ redrive'.pc = "next" /\ redrive'.row = 0 /\ redrive'.plan \subseteq redrive.plan
    BY <1>1, <1>2, <1>5 DEF BatchRow
  <2>2. DrivenRow(redrive', db'.row[0])
    BY <2>1 DEF DrivenRow
  <2>3. \A q \in redrive'.plan : q # 0 /\ Waits(db.row[q])
    BY <1>2, <2>1
  <2> QED
    BY <1>1, <1>2, <1>3, <2>1, <2>2, <2>3, BatchInv
<1>6. CASE redrive.plan # {} /\ redrive' = at
  <2>1. r \in redrive.plan
    BY <1>2, <1>6, MinOf
  <2>2. /\ redrive' \in BatchRow /\ redrive'.pc = "key" /\ redrive'.row = r
        /\ redrive'.plan = redrive.plan \ {r}
    BY <1>1, <1>2, <1>6, <2>1 DEF BatchRow
  <2> HIDE DEF r, at, rest
  <2>3. r \in Rows /\ r # 0 /\ Waits(db.row[r])
    BY <1>2, <2>1
  <2>4. DrivenRow(redrive', db'.row[r]) /\ Attended(db'.row[r], redrive'.row = r)
    BY <1>1, <1>2, <2>2, <2>3, WaitsAttended DEF DrivenRow
  <2>5. \A q \in redrive'.plan : q # r /\ Waits(db.row[q])
    BY <1>2, <2>2
  <2> QED
    BY <1>1, <1>2, <1>3, <2>1, <2>2, <2>3, <2>4, <2>5, BatchInv
<1> QED  BY <1>1, <1>4, <1>5, <1>6

\* The batch's own row.
LEMMA BatchOwn ==
    ASSUME IInv, redrive.pc \notin {"idle", "next"}
    PROVE  LET r == redrive.row
           IN  /\ r \in Rows /\ r # 0 /\ DrivenRow(redrive, db.row[r])
               /\ Sort(world, db.row[r]) = "arr" /\ RowSound(world, db.row[r])
               /\ redrive \in BatchRow /\ redrives \in 0..MaxRedrives
               /\ r \notin redrive.plan
               /\ \A q \in redrive.plan : q # r /\ Waits(db.row[q])
<1>1. /\ redrive \in BatchRow /\ DrivenRow(redrive, db.row[redrive.row])
      /\ redrives \in 0..MaxRedrives /\ redrive.row \notin redrive.plan
      /\ \A q \in redrive.plan : Waits(db.row[q])
      /\ \A q \in Rows : RowSound(world, db.row[q])
  BY DEF IInv, Typed, BatchSound, Core
<1>2. redrive.row # 0
  BY <1>1 DEF DrivenRow
<1>3. redrive.row \in Rows /\ Sort(world, db.row[redrive.row]) = "arr"
  BY <1>2, BatchHolds
<1> QED  BY <1>1, <1>2, <1>3

\* keys it,
LEMMA KeyRowInv ==
    ASSUME IInv, KeyRow, UNCHANGED world
    PROVE  IInv'
<1> DEFINE r == redrive.row
<1>1. /\ redrive.pc = "key" /\ redrive' = [redrive EXCEPT !.pc = "drive"]
      /\ db' = ReserveKey(db, r, Work(world, db.row[r]))
      /\ UNCHANGED <<worker, restarts, redrives>>
  BY KindIs DEF KeyRow
<1>2. /\ r \in Rows /\ r # 0 /\ DrivenRow(redrive, db.row[r]) /\ RowSound(world, db.row[r])
      /\ redrive \in BatchRow /\ redrives \in 0..MaxRedrives /\ r \notin redrive.plan
      /\ \A q \in redrive.plan : q # r /\ Waits(db.row[q])
  BY <1>1, BatchOwn
<1>3. Waits(db.row[r])
  BY <1>1, <1>2 DEF DrivenRow
<1>4. /\ Sound(world, restarts > 0, db') /\ AllLeft(db, {r}, db')
      /\ db'.row[r].msg = db.row[r].msg /\ db'.row[r].canonical = db.row[r].canonical
      /\ db'.row[r].status = db.row[r].status /\ db'.row[r].prompt = db.row[r].prompt
  BY <1>1, <1>2, <1>3, NowSound, KeyOK
<1>5. Waits(db'.row[r])
  BY <1>3, <1>4 DEF Waits, Sort, Work
<1>6. /\ redrive' \in BatchRow /\ redrive'.pc = "drive" /\ redrive'.row = r
      /\ redrive'.plan = redrive.plan
  BY <1>1, <1>2 DEF BatchRow
<1>7. RowSound(world, db'.row[r])
  BY <1>2, <1>4 DEF Sound, Core
<1> HIDE DEF r
<1>8. DrivenRow(redrive', db'.row[r]) /\ Attended(db'.row[r], redrive'.row = r)
  BY <1>2, <1>5, <1>6, <1>7, WaitsAttended DEF DrivenRow
<1> QED
  BY <1>1, <1>2, <1>4, <1>6, <1>8, BatchInv DEF r

\* drives it on, or onto the owner it has meanwhile,
LEMMA DriveRowInv ==
    ASSUME IInv, DriveRow, UNCHANGED world
    PROVE  IInv'
<1> DEFINE r == redrive.row
           x == db.row[r]
           on == [redrive EXCEPT !.pc = "offer"]
<1>1. /\ redrive.pc = "drive" /\ db' = Transition(db, r, "processing", None)
      /\ redrive' = (IF TransitionRaises(db, r, "processing", None) THEN AtRest ELSE on)
      /\ UNCHANGED <<worker, restarts, redrives>>
  BY DEF DriveRow
<1>2. /\ r \in Rows /\ r # 0 /\ DrivenRow(redrive, x) /\ RowSound(world, x)
      /\ redrive \in BatchRow /\ redrives \in 0..MaxRedrives /\ r \notin redrive.plan
      /\ \A q \in redrive.plan : q # r /\ Waits(db.row[q])
      /\ Sort(world, x) = "arr"
  BY <1>1, BatchOwn
<1>3. Waits(x)
  BY <1>1, <1>2 DEF DrivenRow
<1>4. db' = Transition(db, r, "processing", ResultHash(db, r, "processing"))
  BY <1>1 DEF ResultHash
<1>5. "processing" \in Status /\ MayTransit(world, x, "processing")
  BY <1>2, <1>3 DEF Status, MayTransit, Waits
<1>6. /\ Sound(world, restarts > 0, db') /\ AllLeft(db, {r}, db')
      /\ db'.row[r].msg = x.msg
      /\ \/ /\ db'.row[r].status = "processing" /\ db'.row[r].canonical = 0 /\ x.canonical = 0
            /\ db'.row[r].prompt = x.prompt
         \/ db'.row[r].status = "failed" /\ db'.row[r].canonical # 0
  <2>1. x.canonical # 0 \/ x.status \notin Active
    BY <1>3 DEF Waits, Active
  <2> HIDE DEF r
  <2> QED  BY <1>2, <1>4, <1>5, <2>1, NowSound, TransitionOK
<1>7. CASE TransitionRaises(db, r, "processing", None)
  <2>1. redrive' = AtRest /\ x.canonical # 0
    BY <1>1, <1>7 DEF TransitionRaises
  <2> HIDE DEF r, x
  <2>2. Attended(db'.row[r], redrive'.row = r)
    BY <1>6, <2>1 DEF Attended
  <2>3. \A q \in redrive'.plan : q # r /\ Waits(db.row[q])
    BY <2>1, RestRow
  <2> QED
    BY <1>1, <1>2, <1>6, <2>1, <2>2, <2>3, RestRow, BatchInv DEF r
<1>8. CASE ~TransitionRaises(db, r, "processing", None)
  <2>1. /\ redrive' \in BatchRow /\ redrive'.pc = "offer" /\ redrive'.row = r
        /\ redrive'.plan = redrive.plan
    BY <1>1, <1>2, <1>8 DEF BatchRow
  <2> HIDE DEF r, x
  <2>2. Sort(world, db'.row[r]) = "arr"
    BY <1>2, <1>6 DEF Sort, Work
  <2>3. DrivenRow(redrive', db'.row[r]) /\ Attended(db'.row[r], redrive'.row = r)
    BY <1>2, <1>3, <1>6, <2>1, <2>2 DEF DrivenRow, Attended, Waits
  <2> QED
    BY <1>1, <1>2, <1>6, <2>1, <2>3, BatchInv DEF r
<1> QED  BY <1>7, <1>8

\* offers the choice,
LEMMA OfferRowInv ==
    ASSUME IInv, OfferRow, UNCHANGED world
    PROVE  IInv'
<1> DEFINE r == redrive.row
           x == db.row[r]
<1>1. /\ redrive.pc = "offer" /\ UNCHANGED <<worker, restarts, redrives>>
      /\ \/ /\ CanPrompt(db, r) /\ db' = Prompted(db, r)
            /\ redrive' = [redrive EXCEPT !.pc = "post"]
         \/ ~CanPrompt(db, r) /\ db' = db /\ redrive' = AtRest
  BY DEF OfferRow
<1>2. /\ r \in Rows /\ r # 0 /\ DrivenRow(redrive, x) /\ RowSound(world, x)
      /\ redrive \in BatchRow /\ redrives \in 0..MaxRedrives /\ r \notin redrive.plan
      /\ \A q \in redrive.plan : q # r /\ Waits(db.row[q])
      /\ Sort(world, x) = "arr"
  BY <1>1, BatchOwn
<1>3. CASE CanPrompt(db, r)
  <2>1. x.cand = None
    BY <1>2 DEF RowSound, KindSound
  <2>2. /\ Sound(world, restarts > 0, db') /\ AllLeft(db, {r}, db')
        /\ db'.row[r].status = "awaiting_selection" /\ db'.row[r].prompt = "posting"
        /\ db'.row[r].msg = x.msg
    BY <1>1, <1>2, <1>3, <2>1, PromptedOK
  <2>3. /\ redrive' \in BatchRow /\ redrive'.pc = "post" /\ redrive'.row = r
        /\ redrive'.plan = redrive.plan
    BY <1>1, <1>2, <1>3 DEF BatchRow
  <2> HIDE DEF r, x
  <2>4. Sort(world, db'.row[r]) = "arr"
    BY <1>2, <2>2 DEF Sort, Work
  <2>5. DrivenRow(redrive', db'.row[r]) /\ Attended(db'.row[r], redrive'.row = r)
    BY <1>2, <2>2, <2>3, <2>4 DEF DrivenRow, Attended
  <2> QED
    BY <1>1, <1>2, <2>2, <2>3, <2>5, BatchInv DEF r
<1>4. CASE ~CanPrompt(db, r)
  <2>1. db' = db /\ redrive' = AtRest
    BY <1>1, <1>4
  <2>2. x.status = "failed"
    BY <1>1, <1>2, <1>4 DEF DrivenRow, CanPrompt
  <2> HIDE DEF r
  <2>3. Attended(db'.row[r], redrive'.row = r)
    BY <2>1, <2>2 DEF Attended
  <2>4. \A q \in redrive'.plan : q # r /\ Waits(db.row[q])
    BY <2>1, RestRow
  <2>5. AllLeft(db, {r}, db') /\ Sound(world, restarts > 0, db')
    BY <2>1, SameLeft, NowSound
  <2> QED
    BY <1>1, <1>2, <2>1, <2>3, <2>4, <2>5, RestRow, BatchInv DEF r
<1> QED  BY <1>3, <1>4

\* and posts it.
LEMMA PostRowInv ==
    ASSUME IInv, PostRow, UNCHANGED world
    PROVE  IInv'
<1> DEFINE r == redrive.row
           x == db.row[r]
           t == WorkOf(db, r)
<1>1. /\ redrive.pc = "post" /\ UNCHANGED <<worker, restarts, redrives>>
      /\ \/ /\ db' = Bound(db, r) /\ db' # db
            /\ redrive' = [redrive EXCEPT !.pc = "next", !.row = 0, !.asked = @ \cup {t}]
         \/ /\ db' = Released(db, r, "over")
            /\ redrive' = [redrive EXCEPT !.pc = "next", !.row = 0]
  BY DEF PostRow
<1>2. /\ r \in Rows /\ r # 0 /\ DrivenRow(redrive, x) /\ RowSound(world, x)
      /\ redrive \in BatchRow /\ redrives \in 0..MaxRedrives /\ r \notin redrive.plan
      /\ \A q \in redrive.plan : q # r /\ Waits(db.row[q])
  BY <1>1, BatchOwn
<1>3. t \in Targets \cup {NoTarget}
  <2>1. x \in Row
    BY <1>2, NowSound DEF DbType
  <2> QED  BY <2>1, NowSound, KindIs, WorldsAssumption DEF Work, Row
<1> HIDE DEF t
<1>4. /\ redrive' \in BatchRow /\ redrive'.pc = "next" /\ redrive'.row = 0
      /\ redrive'.plan = redrive.plan
  <2> DEFINE A == redrive.asked \cup {t}
  <2>1. CASE redrive' = [redrive EXCEPT !.pc = "next", !.row = 0, !.asked = A]
    <3>1. A \subseteq Targets \cup {NoTarget}
      BY <1>2, <1>3 DEF BatchRow
    <3> HIDE DEF A
    <3> QED  BY <1>2, <2>1, <3>1 DEF BatchRow
  <2>2. CASE redrive' = [redrive EXCEPT !.pc = "next", !.row = 0]
    BY <1>2, <2>2 DEF BatchRow
  <2>3. [redrive EXCEPT !.pc = "next", !.row = 0, !.asked = @ \cup {t}]
            = [redrive EXCEPT !.pc = "next", !.row = 0, !.asked = A]
    BY <1>2 DEF BatchRow
  <2> QED  BY <1>1, <2>1, <2>2, <2>3
<1>5. x.status \in {"failed", "needs_selection", "awaiting_selection"}
  BY <1>1, <1>2 DEF DrivenRow, RowSound, StatusSound
<1>6. /\ Sound(world, restarts > 0, db') /\ AllLeft(db, {r}, db')
      /\ db'.row[r].status \in {"failed", "needs_selection", "awaiting_selection"}
  BY <1>1, <1>2, <1>5, BoundOK, ReleasedOK
<1> HIDE DEF r
<1>7. DrivenRow(redrive', db'.row[r]) /\ Attended(db'.row[r], redrive'.row = r)
  BY <1>4, <1>6 DEF DrivenRow, Attended
<1>8. 0 \notin redrive.plan
  BY <1>2, RowsNat DEF BatchRow
<1> QED
  BY <1>1, <1>2, <1>4, <1>6, <1>7, <1>8, BatchInv DEF r

\* Huey starts again: nobody waits for the threads that died, and the batch,
\* which lives on, finds its rows where it can leave them.
LEMMA RestartInv ==
    ASSUME IInv, Restart, UNCHANGED world
    PROVE  IInv'
<1> DEFINE e == Recovered(db)
           f == Backfilled(e)
<1>1. /\ restarts < MaxRestarts /\ restarts' = restarts + 1 /\ db' = f
      /\ worker' = [w \in Workers |-> Idle] /\ UNCHANGED <<redrive, redrives>>
  BY DEF Restart
<1>2. restarts' \in 0..MaxRestarts /\ restarts' > 0
  BY <1>1, WorldsAssumption DEF IInv, Typed
<1>3. worker' \in [Workers -> WorkerRow] /\ \A w \in Workers : worker'[w] = Idle
  BY <1>1, IdleRow
<1>4. Sound(world, TRUE, e)
  BY NowSound, RecoverOK
<1>5. Sound(world, TRUE, f) /\ e \in DbType
  BY <1>4, NowSound, BackfillOK DEF Sound, Core
<1>6. \A q \in Rows : RecoverStep(db.row[q], e.row[q]) /\ KeyStep(e.row[q], f.row[q])
  BY <1>5, NowSound, RecoverSteps, BackfillSteps
<1> HIDE DEF e, f
<1>7. /\ redrive \in BatchRow /\ DrivenRow(redrive, db.row[redrive.row])
      /\ redrive.row \notin redrive.plan /\ redrives \in 0..MaxRedrives
      /\ \A q \in redrive.plan : Waits(db.row[q])
      /\ \A q \in Rows : RowSound(world, db.row[q])
  BY DEF IInv, Typed, BatchSound, Core
<1>8. ASSUME NEW q \in Rows
      PROVE  /\ Sort(world, f.row[q]) = Sort(world, db.row[q])
             /\ Waits(db.row[q]) => Waits(f.row[q])
             /\ DrivenRow(redrive, db.row[q]) => DrivenRow(redrive, f.row[q])
             /\ Attended(f.row[q], FALSE)
  <2> DEFINE x == db.row[q]
             y == e.row[q]
             z == f.row[q]
  <2>1. RecoverStep(x, y) /\ KeyStep(y, z) /\ RowSound(world, x)
    BY <1>6, <1>7
  <2> HIDE DEF x, y, z
  <2>2. z.msg = x.msg /\ z.cand = x.cand /\ z.canonical = x.canonical
    BY <2>1 DEF RecoverStep, KeyStep
  <2>3. Sort(world, z) = Sort(world, x)
    BY <2>2 DEF Sort, Work
  <2>4. Waits(x) => Waits(z)
    BY <2>1, <2>2, <2>3 DEF RecoverStep, KeyStep, Waits, RowSound, StatusSound
  <2>5. DrivenRow(redrive, x) => DrivenRow(redrive, z)
    BY <2>1, <2>2, <2>3, <2>4 DEF RecoverStep, KeyStep, DrivenRow, RowSound, StatusSound
  <2>6. Attended(z, FALSE)
    BY <2>1, <2>2, <2>3 DEF RecoverStep, KeyStep, Attended
  <2> QED  BY <2>3, <2>4, <2>5, <2>6 DEF x, z
<1>9. (\A v \in Workers : ThreadSound(v))'
  <2>1. \A v \in Workers : /\ ThreadRow(worker'[v], db'.row[worker'[v].row])
                           /\ \A u \in Workers : worker'[v].row # 0 /\ worker'[u].row = worker'[v].row => u = v
    BY <1>3, IdleRow
  <2> QED  BY <2>1 DEF ThreadSound, ThreadRow
<1>10. BatchSound'
  <2>1. \A q \in redrive.plan : Waits(db'.row[q])
    BY <1>1, <1>7, <1>8 DEF BatchRow
  <2>2. DrivenRow(redrive, db'.row[redrive.row])
    <3>1. CASE redrive.row = 0
      BY <1>7, <3>1 DEF DrivenRow
    <3>2. CASE redrive.row # 0
      <4>1. redrive.row \in Rows
        BY <1>7, <3>2 DEF BatchRow
      <4> QED  BY <1>1, <1>7, <1>8, <4>1
    <3> QED  BY <3>1, <3>2
  <2>3. ~Held(redrive.row)'
    BY <1>1, <1>3 DEF Held, Idle
  <2> QED  BY <1>1, <1>7, <2>1, <2>2, <2>3 DEF BatchSound, DrivenRow, Waits, Held
<1>11. NobodyStranded'
  <2>1. \A q \in Rows : Attended(db'.row[q], Held(q)' \/ Redriving(q)')
    BY <1>1, <1>8 DEF Attended
  <2> QED  BY <2>1, StrandedNext DEF Attended
<1>12. Sound(world, restarts' > 0, db')
  BY <1>1, <1>2, <1>5
<1> QED
  BY <1>1, <1>2, <1>3, <1>7, <1>9, <1>10, <1>11, <1>12, Joined

-----------------------------------------------------------------------------
(* The invariant                                                           *)

\* The rows that predate target_key are of different messages and fit the table.
LEMMA OldRows ==
    ASSUME world \in Worlds
    PROVE  LET old == SetToSeq(Legacy)
           IN  /\ \A r \in DOMAIN old : old[r] \in Legacy
               /\ \A r, s \in DOMAIN old : old[r] = old[s] => r = s
<1>1. IsFiniteSet(Legacy)
  BY WorldsAssumption DEF Legacy
<1>2. PICK f \in Bijection(1..Cardinality(Legacy), Legacy) : TRUE
  BY <1>1, FS_CardinalityType DEF ExistsBijection
<1>3. f \in [1..Cardinality(Legacy) -> Legacy] /\ IsInjective(f)
  BY <1>2 DEF Bijection, Injection
<1>4. /\ SetToSeq(Legacy) \in [1..Cardinality(Legacy) -> Legacy]
      /\ IsInjective(SetToSeq(Legacy))
  BY <1>3 DEF SetToSeq
<1> QED
  BY <1>4 DEF IsInjective

\* What a row is before the first message: absent, or older than target_key.
LEMMA FirstRow ==
    ASSUME world \in Worlds, NEW x, x = Absent \/ \E m \in Legacy : x = LegacyRow(m)
    PROVE  /\ x \in Row /\ RowSound(world, x)
           /\ x.status \in {"absent", "needs_selection"} /\ x.key = NoTarget
           /\ x.canonical = 0 /\ x.msg \in Legacy \cup {None}
           /\ x.retry \notin RetryLive /\ ~LiveRow(x)
<1>1. Legacy \subseteq Messages /\ None \notin Messages
  BY WorldsAssumption, TargetsAssumption DEF Legacy
<1>2. /\ x.status \in {"absent", "needs_selection"} /\ x.key = NoTarget /\ x.canonical = 0
      /\ x.cand = None /\ x.hash = None /\ x.retry = "none" /\ x.prompt = "none"
      /\ x.status = "absent" => x.msg = None
      /\ x.status = "needs_selection" => x.msg \in Legacy
  <2>1. CASE x = Absent
    BY <2>1 DEF Absent
  <2>2. CASE \E m \in Legacy : x = LegacyRow(m)
    BY <2>2 DEF Absent, LegacyRow
  <2> QED  BY <2>1, <2>2
<1>3. x \in Row
  <2>1. Absent \in Row
    BY DEF Absent, Row, Status
  <2>2. ASSUME NEW m \in Legacy PROVE LegacyRow(m) \in Row
    <3>1. "needs_selection" \in Status /\ m \in Messages \cup {None}
      BY <1>1 DEF Status
    <3> DEFINE a == Absent
    <3>2. a \in Row
      BY <2>1
    <3> HIDE DEF a
    <3>3. [a EXCEPT !.msg = m, !.status = "needs_selection"] \in Row
      BY <3>1, <3>2 DEF Row
    <3> QED  BY <3>3 DEF LegacyRow, a
  <2> QED  BY <2>1, <2>2
<1>4. StatusSound(x) /\ RetrySound(x) /\ ~LiveRow(x) /\ x.retry \notin RetryLive
  BY <1>1, <1>2 DEF StatusSound, RetrySound, Unsettled, LiveRow, Active, RetryLive
<1>5. x.status = "absent" => Sort(world, x) = "none"
  BY <1>2 DEF Sort, Work
<1>6. KindSound(world, x)
  BY <1>2, <1>5 DEF KindSound, Unsettled, Legacy
<1> QED
  BY <1>2, <1>3, <1>4, <1>6 DEF RowSound

\* The invariant holds at first,
LEMMA InvInit ==
    ASSUME Init
    PROVE  IInv
<1> DEFINE old == SetToSeq(Legacy)
<1>1. /\ world \in Worlds /\ worker = [w \in Workers |-> Idle]
      /\ redrive = AtRest /\ restarts = 0 /\ redrives = 0
      /\ db = [row |-> [r \in Rows |-> IF r \in DOMAIN old THEN LegacyRow(old[r]) ELSE Absent],
               alias |-> [m \in Messages |-> 0]]
  BY DEF Init
<1>2. /\ \A r \in DOMAIN old : old[r] \in Legacy
      /\ \A r, s \in DOMAIN old : old[r] = old[s] => r = s
  BY <1>1, OldRows
<1>3. None \notin Messages /\ Legacy \subseteq Messages
  BY <1>1, TargetsAssumption, WorldsAssumption DEF Legacy
<1> HIDE DEF old
<1>4. ASSUME NEW r \in Rows
      PROVE  /\ db.row[r] \in Row /\ RowSound(world, db.row[r])
             /\ db.row[r].status \in {"absent", "needs_selection"} /\ db.row[r].key = NoTarget
             /\ db.row[r].canonical = 0 /\ db.row[r].msg \in Legacy \cup {None}
             /\ db.row[r].retry \notin RetryLive /\ ~LiveRow(db.row[r])
  <2>1. db.row[r] = Absent \/ \E m \in Legacy : db.row[r] = LegacyRow(m)
    BY <1>1, <1>2
  <2> QED  BY <1>1, <2>1, FirstRow
<1>5. ASSUME NEW r \in Rows, NEW s \in Rows, r # s, db.row[r].msg # None
      PROVE  db.row[r].msg # db.row[s].msg
  <2>1. \A q \in Rows : db.row[q].msg = IF q \in DOMAIN old THEN old[q] ELSE None
    BY <1>1 DEF LegacyRow, Absent
  <2> QED  BY <1>2, <1>3, <1>5, <2>1
<1>6. db \in DbType
  <2>1. db.row \in [Rows -> Row] /\ db.alias \in [Messages -> Rows \cup {0}]
    BY <1>1, <1>4
  <2>2. db = [row |-> db.row, alias |-> db.alias]
    BY <1>1
  <2> QED  BY <2>1, <2>2 DEF DbType
<1>7. Core(world, db)
  <2>1. \A r, s \in Rows : r # s => Pair(db.row[r], db.row[s])
    BY <1>4, <1>5 DEF Pair, Keyed
  <2>2. Folded(db)
    BY <1>1, <1>4 DEF Folded
  <2> QED  BY <1>4, <1>6, <2>1, <2>2 DEF Core
<1>8. Twins(world, restarts > 0, db)
  BY <1>4 DEF Twins, Swept
<1>9. \A w \in Workers : ThreadSound(w)
  BY <1>1, IdleRow DEF ThreadSound
<1>10. BatchSound
  BY <1>1, RestRow DEF BatchSound, AtRest
<1>11. NobodyStranded
  BY <1>4 DEF NobodyStranded
<1>12. Typed
  BY <1>1, IdleRow, RestRow, WorldsAssumption DEF Typed
<1> QED
  BY <1>7, <1>8, <1>9, <1>10, <1>11, <1>12 DEF IInv

\* and every step keeps it.
LEMMA InvStep ==
    ASSUME IInv, [Next]_vars
    PROVE  IInv'
<1>1. CASE UNCHANGED vars
  <2>1. UNCHANGED <<world, db, worker, redrive, restarts, redrives>>
    BY <1>1 DEF vars
  <2>2. \A v \in Workers : worker'[v] = worker[v]
    BY <2>1
  <2>3. AllLeft(db, {0}, db') /\ Sound(world, restarts > 0, db')
    BY <2>1, SameLeft, NowSound
  <2> QED  BY <2>1, <2>2, <2>3, RowInv
<1>2. CASE Next
  <2>1. UNCHANGED world /\ Step
    BY <1>2 DEF Next
  <2>2. ASSUME NEW w \in Workers, WorkerStep(w) PROVE IInv'
    BY <2>1, <2>2, LookInv, CreateInv, DeclineInv, StartInv, DispatchInv, PersistInv,
       OfferInv, PostInv DEF WorkerStep
  <2>3. ASSUME NEW w \in Workers, NEW m \in Messages, Deliver(w, m) PROVE IInv'
    BY <2>1, <2>3, DeliverInv
  <2>4. ASSUME NEW w \in Workers, NEW r \in Rows,
               Choose(w, r) \/ ClaimRetry(w, r) \/ ResumeEbook(w, r)
        PROVE  IInv'
    BY <2>1, <2>4, ChooseInv, ClaimRetryInv, ResumeEbookInv
  <2>5. ASSUME NEW r \in Rows,
               Release(r) \/ Settle(r) \/ Prove(r) \/ RecoverAbba(r) \/ Collapse(r)
        PROVE  IInv'
    BY <2>1, <2>5, ReleaseInv, SettleInv, ProveInv, RecoverAbbaInv, CollapseInv
  <2>6. CASE Restart \/ Scan \/ NextRow \/ KeyRow \/ DriveRow \/ OfferRow \/ PostRow
    BY <2>1, <2>6, RestartInv, ScanInv, NextRowInv, KeyRowInv, DriveRowInv, OfferRowInv, PostRowInv
  <2> QED
    BY <2>1, <2>2, <2>3, <2>4, <2>5, <2>6 DEF Step
<1> QED  BY <1>1, <1>2

\* The three layers hold in every state.
THEOREM Invariance == Spec => []IInv
<1>1. Init => IInv
  BY InvInit
<1>2. IInv /\ [Next]_vars => IInv'
  BY InvStep
<1> QED
  BY <1>1, <1>2, PTL DEF Spec

-----------------------------------------------------------------------------
(* The properties                                                          *)

\* Two requests never act on one target, nor does one act while another still
\* waits to retry it: neither the intake, which looks for both, nor the retry
\* claim, the operator's batch or the start-up lets it happen, so the unique
\* index on active targets never refuses a write.
THEOREM TargetsHaveOneOwner == Spec => []OneOwnerPerTarget
<1>1. IInv => OneOwnerPerTarget
  <2> SUFFICES ASSUME IInv, NEW r \in Rows, NEW s \in Rows, r # s,
                      db.row[r].key # NoTarget, db.row[r].key = db.row[s].key
               PROVE  /\ ~(db.row[r].status \in Active /\ db.row[s].status \in Active)
                      /\ db.row[r].retry \in RetryLive =>
                             db.row[s].status \notin Active /\ db.row[s].retry \notin RetryLive
    BY DEF OneOwnerPerTarget, OneActiveRowPerKey, RetryKeepsTarget
  <2>1. Pair(db.row[r], db.row[s])
    BY DEF IInv, Core
  <2> QED  BY <2>1 DEF Pair, Keyed
<1> QED
  BY <1>1, Invariance, PTL

\* Whatever is folded onto whatever, in any order and by any of the processes,
\* an alias leads in one step to a row that is none, is inert for good, and the
\* delivery it was made from leads there too.
THEOREM AliasesLeadToOwners == Spec => []AliasesResolve
<1>1. IInv => AliasesResolve
  <2> SUFFICES ASSUME IInv PROVE AliasesResolve
    OBVIOUS
  <2>1. /\ Typed /\ db \in DbType /\ Folded(db)
        /\ \A r \in Rows : StatusSound(db.row[r])
    BY DEF IInv, Core, RowSound
  <2>2. TypeOK
    BY <2>1 DEF Typed, TypeOK, DbType, WorkerRow, BatchRow
  <2>3. AliasesAreInert
    BY <2>1 DEF AliasesAreInert, Folded, StatusSound, Unsettled
  <2>4. ASSUME NEW m \in Messages, Resolve(db, m) # 0
        PROVE  db.row[Resolve(db, m)].canonical = 0
    BY <2>1, <2>4, Delivery DEF Folded
  <2> QED
    BY <2>2, <2>3, <2>4 DEF AliasesResolve, DeliveriesReachOwner
<1> QED
  BY <1>1, Invariance, PTL

\* One message makes one request, in however many threads it is delivered, and
\* one torrent serves one live request, whether two searches pick one listing
\* or two listings turn out to be one torrent.
THEOREM NothingIsTakenTwice == Spec => []NothingTwice
<1>1. IInv => NothingTwice
  <2> SUFFICES ASSUME IInv, NEW r \in Rows, NEW s \in Rows, r # s
               PROVE  /\ db.row[r].msg # None => db.row[r].msg # db.row[s].msg
                      /\ IsLive(db, r) /\ IsLive(db, s) =>
                             /\ db.row[r].cand # None /\ db.row[r].status # "awaiting_selection"
                                => db.row[r].cand # db.row[s].cand
                             /\ db.row[r].hash # None => db.row[r].hash # db.row[s].hash
    BY DEF NothingTwice, OneRequestPerMessage, OneDownloadPerTorrent
  <2>1. Pair(db.row[r], db.row[s])
    BY DEF IInv, Core
  <2> QED  BY <2>1 DEF Pair, IsLive, LiveRow
<1> QED
  BY <1>1, Invariance, PTL

\* An open request is always in the hands of a thread, of the operator's batch
\* or of a recovery loop, at any moment Huey may stop; and once a target is
\* settled none of its keyed rows still waits for a choice nobody will offer.
THEOREM EverybodyIsAttendedTo == Spec => []NobodyWaitsInVain
<1>1. IInv => NobodyWaitsInVain
  <2> SUFFICES ASSUME IInv PROVE NobodyWaitsInVain
    OBVIOUS
  <2>1. ASSUME NEW r \in Rows, NEW s \in Rows, r # s, IsLive(db, r),
               db.row[r].status \in Committed, KindOf(db, r) # "ebook",
               db.row[r].key # NoTarget, db.row[s].key = db.row[r].key,
               ~(db.row[r].msg \in Legacy /\ restarts > 0)
        PROVE  db.row[s].status # "needs_selection"
    <3>1. Swept(world, restarts > 0, db.row[r], db.row[s])
      BY <2>1 DEF IInv, Twins
    <3> QED  BY <2>1, <3>1, KindIs DEF Swept, IsLive, LiveRow, Keyed, Legacy
  <2> QED
    BY <2>1 DEF NobodyWaitsInVain, NoTwinLeftBehind, IInv
<1> QED
  BY <1>1, Invariance, PTL
=============================================================================
