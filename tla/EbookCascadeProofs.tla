------------------------ MODULE EbookCascadeProofs ------------------------
(***************************************************************************)
(* Theorems about EbookCascade, for every set of requests, works and       *)
(* identifiers, every policy, retry limit and bound on crashes and faults. *)
(*                                                                         *)
(* Type correctness comes first, one lemma per action.  The two theorems   *)
(* about the mutation boundary then follow from one lemma, StepBounded,    *)
(* which says what any step may do to the boundary of one request.         *)
(*                                                                         *)
(* The life of a request over its six tables is the third part: every      *)
(* reachable combination of its rows is one of ten named situations.  From *)
(* it follow one owner per work, reservations that are held, retries that  *)
(* can be claimed, runners whose next transaction is accepted, and the     *)
(* refinement of Acquisition.  Only one fact relates two requests: nobody  *)
(* else owns the work that a request owns.                                 *)
(***************************************************************************)
EXTENDS EbookCascade, TLAPS

-----------------------------------------------------------------------------
(* The database rows, and helpers on their types *)

StoredOK ==
    /\ requests \in [Requests -> RequestRow]
    /\ cascades \in [Requests -> CascadeRow]
    /\ attempts \in [Requests -> [Ordinals -> AttemptRow]]
    /\ reservations \in [Backends -> [Providers -> Requests \cup {None}]]
    /\ retries \in [Requests -> RetryRow]
    /\ confirmations \in [Requests -> ConfirmationRow]

LEMMA OrdinalIsBackend ==
    ASSUME NEW o \in Ordinals PROVE Policy[o] \in Backends
BY PolicyAssumption DEF Ordinals

LEMMA FirstOrdinal == 1 \in Ordinals
BY PolicyAssumption DEF Ordinals

LEMMA CurrentIsBackend ==
    ASSUME StoredOK, NEW r \in Requests
    PROVE  cascades[r].ordinal \in Ordinals /\ Current(r) \in Backends
BY OrdinalIsBackend DEF StoredOK, CascadeRow, Current

LEMMA ReleaseType ==
    ASSUME StoredOK, NEW r \in Requests, NEW s
    PROVE  Release(r, s) \in [Backends -> [Providers -> Requests \cup {None}]]
BY DEF StoredOK, Release, Without

LEMMA ReturnType ==
    ASSUME runner \in [Requests -> RunnerRow], NEW r \in Requests, Return(r)
    PROVE  runner' \in [Requests -> RunnerRow]
BY DEF Return, RunnerRow, RunnerPC, IdleRunner

LEMMA GotoType ==
    ASSUME runner \in [Requests -> RunnerRow], NEW r \in Requests,
           NEW pc \in RunnerPC, Goto(r, pc)
    PROVE  runner' \in [Requests -> RunnerRow]
BY DEF Goto, RunnerRow

LEMMA RetryMissedType ==
    ASSUME NEW retry \in RetryRow PROVE RetryMissed(retry) \in RetryRow
BY DEF RetryMissed, RetryRow, RetryState

LEMMA AttemptRowType ==
    ASSUME NEW a \in AttemptRow, NEW s \in AttemptStatus
    PROVE  [a EXCEPT !.status = s] \in AttemptRow
BY DEF AttemptRow

LEMMA AttemptUpdateType ==
    ASSUME attempts \in [Requests -> [Ordinals -> AttemptRow]],
           NEW r \in Requests, NEW o \in Ordinals, NEW a \in AttemptRow
    PROVE  [attempts EXCEPT ![r][o] = a] \in [Requests -> [Ordinals -> AttemptRow]]
OBVIOUS

LEMMA AttemptStatusType ==
    ASSUME attempts \in [Requests -> [Ordinals -> AttemptRow]],
           NEW r \in Requests, NEW o \in Ordinals, NEW s \in AttemptStatus
    PROVE  [attempts EXCEPT ![r][o].status = s] \in [Requests -> [Ordinals -> AttemptRow]]
<1>1. attempts[r][o] \in AttemptRow
  OBVIOUS
<1>2. [attempts[r][o] EXCEPT !.status = s] \in AttemptRow
  BY <1>1, AttemptRowType
<1>3. [attempts EXCEPT ![r][o].status = s] =
      [attempts EXCEPT ![r][o] = [attempts[r][o] EXCEPT !.status = s]]
  OBVIOUS
<1> QED
  BY <1>2, <1>3, AttemptUpdateType

LEMMA InitType == Init => TypeOK
BY FirstOrdinal, BoundsAssumption DEF Init, TypeOK, RequestRow, RequestStatus, CascadeRow,
   CascadeState, AttemptRow, AttemptStatus, RetryRow, RetryState, ConfirmationRow,
   ConfirmationState, RunnerRow, RunnerPC, IdleRunner, PollRow, NoPoll, BookBotRow,
   IdleBookBot, RemoteState

LEMMA TerminalizeType ==
    ASSUME StoredOK, runner \in [Requests -> RunnerRow], NEW r \in Requests,
           NEW status \in RequestStatus, Terminalize(r, status)
    PROVE  StoredOK' /\ runner' \in [Requests -> RunnerRow]
<1>1. attempts' \in [Requests -> [Ordinals -> AttemptRow]]
  <2>1. "failed" \in AttemptStatus
    BY DEF AttemptStatus
  <2> QED
    BY <2>1, CurrentIsBackend, AttemptStatusType DEF Terminalize, StoredOK
<1>2. cascades' \in [Requests -> CascadeRow]
  BY DEF Terminalize, StoredOK, CascadeRow, CascadeState, FailCascade
<1>3. requests' \in [Requests -> RequestRow]
  BY DEF Terminalize, StoredOK, RequestRow
<1>4. reservations' \in [Backends -> [Providers -> Requests \cup {None}]]
  BY ReleaseType DEF Terminalize
<1>5. runner' \in [Requests -> RunnerRow]
  BY ReturnType DEF Terminalize
<1> QED
  BY <1>1, <1>2, <1>3, <1>4, <1>5 DEF Terminalize, StoredOK

LEMMA AttemptOutcomeType ==
    ASSUME attempts \in [Requests -> [Ordinals -> AttemptRow]],
           NEW r \in Requests, NEW o \in Ordinals, NEW s \in AttemptStatus, NEW n \in BOOLEAN
    PROVE  /\ [attempts EXCEPT ![r][o].status = s, ![r][o].notFound = n]
                \in [Requests -> [Ordinals -> AttemptRow]]
           /\ [attempts EXCEPT ![r][o].status = s, ![r][o].external = n]
                \in [Requests -> [Ordinals -> AttemptRow]]
           /\ [attempts[r] EXCEPT ![o].status = s, ![o].notFound = n]
                \in [Ordinals -> AttemptRow]
<1>1. attempts[r][o] \in AttemptRow
  OBVIOUS
<1>2. /\ [attempts[r][o] EXCEPT !.status = s, !.notFound = n] \in AttemptRow
      /\ [attempts[r][o] EXCEPT !.status = s, !.external = n] \in AttemptRow
  BY <1>1 DEF AttemptRow
<1>3. [attempts EXCEPT ![r][o].status = s, ![r][o].notFound = n] =
      [attempts EXCEPT ![r][o] = [attempts[r][o] EXCEPT !.status = s, !.notFound = n]]
  OBVIOUS
<1>4. [attempts EXCEPT ![r][o].status = s, ![r][o].external = n] =
      [attempts EXCEPT ![r][o] = [attempts[r][o] EXCEPT !.status = s, !.external = n]]
  OBVIOUS
<1>5. [attempts[r] EXCEPT ![o].status = s, ![o].notFound = n] =
      [attempts[r] EXCEPT ![o] = [attempts[r][o] EXCEPT !.status = s, !.notFound = n]]
  OBVIOUS
<1>6. [attempts[r] EXCEPT ![o] = [attempts[r][o] EXCEPT !.status = s, !.notFound = n]]
        \in [Ordinals -> AttemptRow]
  BY <1>2
<1> QED
  BY <1>2, <1>3, <1>4, <1>5, <1>6, AttemptUpdateType

LEMMA AdvanceType ==
    ASSUME StoredOK, runner \in [Requests -> RunnerRow], NEW r \in Requests,
           NEW outcome \in {"miss", "unavailable"}, NEW notFound \in BOOLEAN,
           Advance(r, outcome, notFound)
    PROVE  StoredOK' /\ runner' \in [Requests -> RunnerRow]
<1>o. cascades[r].ordinal \in Ordinals /\ outcome \in AttemptStatus
  BY CurrentIsBackend DEF AttemptStatus
<1>1. CASE AdvanceToNext(r, outcome, notFound)
  <2>1. attempts' \in [Requests -> [Ordinals -> AttemptRow]]
    BY <1>o, <1>1, AttemptOutcomeType DEF AdvanceToNext, StoredOK
  <2>2. cascades[r].ordinal + 1 \in Ordinals
    BY <1>o, <1>1, PolicyAssumption DEF AdvanceToNext, AtLastBackend, Ordinals
  <2>3. cascades' \in [Requests -> CascadeRow]
    BY <1>1, <2>2 DEF AdvanceToNext, StoredOK, CascadeRow
  <2>4. runner' \in [Requests -> RunnerRow]
    BY <1>1, GotoType DEF AdvanceToNext, RunnerPC
  <2> QED
    BY <1>1, <2>1, <2>3, <2>4 DEF AdvanceToNext, StoredOK
<1>2. CASE Exhaust(r, outcome, notFound)
  <2>1. attempts' \in [Requests -> [Ordinals -> AttemptRow]]
    <3>1. [attempts[r] EXCEPT ![cascades[r].ordinal].status = outcome,
                              ![cascades[r].ordinal].notFound = notFound]
            \in [Ordinals -> AttemptRow]
      BY <1>o, AttemptOutcomeType DEF StoredOK
    <3> QED
      BY <1>2, <3>1 DEF Exhaust, StoredOK
  <2>2. cascades' \in [Requests -> CascadeRow]
    BY <1>2 DEF Exhaust, StoredOK, CascadeRow, CascadeState, FailCascade
  <2>3. requests' \in [Requests -> RequestRow]
    BY <1>2 DEF Exhaust, StoredOK, RequestRow, RequestStatus
  <2>4. PICK retry \in RetryRow : /\ retries' = [retries EXCEPT ![r] = retry]
                                  /\ reservations' = Release(r, retry.state)
    <3>1. retries[r] \in RetryRow /\ cascades[r].identity \in Works \cup {None}
      BY DEF StoredOK, CascadeRow
    <3>2. [state |-> "queued", count |-> 0, identity |-> cascades[r].identity,
           due |-> FALSE] \in RetryRow
      BY <3>1, BoundsAssumption DEF RetryRow, RetryState
    <3>3. RetryMissed(retries[r]) \in RetryRow
      BY <3>1, RetryMissedType
    <3> QED
      BY <1>2, <3>1, <3>2, <3>3 DEF Exhaust
  <2>5. retries' \in [Requests -> RetryRow]
    BY <2>4 DEF StoredOK
  <2>6. reservations' \in [Backends -> [Providers -> Requests \cup {None}]]
    BY <2>4, ReleaseType
  <2>7. runner' \in [Requests -> RunnerRow]
    BY <1>2, ReturnType DEF Exhaust
  <2> QED
    BY <1>2, <2>1, <2>2, <2>3, <2>5, <2>6, <2>7 DEF Exhaust, StoredOK
<1> QED
  BY <1>1, <1>2 DEF Advance

LEMMA RetryAfterType ==
    ASSUME NEW retry \in RetryRow, NEW result PROVE RetryAfter(retry, result) \in RetryRow
BY DEF RetryAfter, RetryRow, RetryState

LEMMA CascadeClosedType ==
    ASSUME NEW c \in CascadeRow
    PROVE  /\ FailCascade(c) \in CascadeRow
           /\ \A b \in Backends : CrossBoundary(c, b) \in CascadeRow
BY DEF CascadeRow, CascadeState, FailCascade, CrossBoundary

LEMMA CascadeFinalType ==
    ASSUME cascades \in [Requests -> CascadeRow], NEW r \in Requests,
           NEW s \in CascadeState, NEW f \in Backends \cup {None}
    PROVE  [cascades EXCEPT ![r].state = s, ![r].final = f] \in [Requests -> CascadeRow]
BY DEF CascadeRow

LEMMA PersistType ==
    ASSUME StoredOK, NEW r \in Requests,
           NEW result \in {"queued", "completed", "failed", "uncertain"},
           PersistResult(r, result)
    PROVE  StoredOK'
<1>o. cascades[r].ordinal \in Ordinals /\ Current(r) \in Backends /\ result \in AttemptStatus
  BY CurrentIsBackend DEF AttemptStatus
<1>1. requests' \in [Requests -> RequestRow]
  BY DEF PersistResult, StoredOK, RequestRow, RequestStatus
<1>2. cascades' \in [Requests -> CascadeRow]
  <2>1. cascades[r].final \in Backends \cup {None} /\ result \in CascadeState
    BY DEF StoredOK, CascadeRow, CascadeState
  <2>2. PICK f \in Backends \cup {None} :
          cascades' = [cascades EXCEPT ![r].state = result, ![r].final = f]
    BY <1>o, <2>1 DEF PersistResult, Coalesce
  <2> QED
    BY <2>1, <2>2, CascadeFinalType DEF StoredOK
<1>3. attempts' \in [Requests -> [Ordinals -> AttemptRow]]
  BY <1>o, AttemptOutcomeType DEF PersistResult, StoredOK
<1>4. reservations' \in [Backends -> [Providers -> Requests \cup {None}]]
  <2>1. reservations' = Release(r, retries[r].state) \/ reservations' = reservations
    BY DEF PersistResult
  <2> QED
    BY <2>1, ReleaseType DEF StoredOK
<1>5. retries' \in [Requests -> RetryRow]
  <2>1. RetryAfter(retries[r], result) \in RetryRow
    BY RetryAfterType DEF StoredOK
  <2> QED
    BY <2>1 DEF PersistResult, StoredOK
<1> QED
  BY <1>1, <1>2, <1>3, <1>4, <1>5 DEF PersistResult, StoredOK

LEMMA CompletesType ==
    ASSUME StoredOK, NEW r \in Requests, RequestCompletes(r) PROVE StoredOK'
<1>o. cascades[r].ordinal \in Ordinals /\ Current(r) \in Backends /\ "completed" \in AttemptStatus
  BY CurrentIsBackend DEF AttemptStatus
<1>1. requests' \in [Requests -> RequestRow]
  BY DEF RequestCompletes, StoredOK, RequestRow, RequestStatus
<1>2. cascades' \in [Requests -> CascadeRow]
  <2>1. cascades[r].final \in Backends \cup {None} /\ "completed" \in CascadeState
    BY DEF StoredOK, CascadeRow, CascadeState
  <2>2. \/ cascades' = cascades
        \/ \E f \in Backends \cup {None} :
             cascades' = [cascades EXCEPT ![r].state = "completed", ![r].final = f]
    BY <1>o, <2>1 DEF RequestCompletes, Coalesce
  <2>3. CASE cascades' = cascades
    BY <2>3 DEF StoredOK
  <2>4. ASSUME NEW f \in Backends \cup {None},
               cascades' = [cascades EXCEPT ![r].state = "completed", ![r].final = f]
        PROVE  cascades' \in [Requests -> CascadeRow]
    BY <2>1, <2>4, CascadeFinalType DEF StoredOK
  <2> QED
    BY <2>2, <2>3, <2>4
<1>3. attempts' \in [Requests -> [Ordinals -> AttemptRow]]
  BY <1>o, AttemptStatusType DEF RequestCompletes, StoredOK
<1>4. retries' \in [Requests -> RetryRow]
  BY DEF RequestCompletes, StoredOK, RetryRow, RetryState
<1> QED
  BY <1>1, <1>2, <1>3, <1>4 DEF RequestCompletes, StoredOK

LEMMA FailsType ==
    ASSUME StoredOK, NEW r \in Requests, RequestFails(r) PROVE StoredOK'
<1>o. cascades[r].ordinal \in Ordinals /\ "failed" \in AttemptStatus
  BY CurrentIsBackend DEF AttemptStatus
<1>1. requests' \in [Requests -> RequestRow]
  BY DEF RequestFails, StoredOK, RequestRow, RequestStatus
<1>2. cascades' \in [Requests -> CascadeRow]
  BY CascadeClosedType DEF RequestFails, StoredOK
<1>3. attempts' \in [Requests -> [Ordinals -> AttemptRow]]
  BY <1>o, AttemptStatusType DEF RequestFails, StoredOK
<1>4. retries' \in [Requests -> RetryRow]
  BY DEF RequestFails, StoredOK, RetryRow, RetryState
<1>5. reservations' \in [Backends -> [Providers -> Requests \cup {None}]]
  <2>1. reservations' = Release(r, retries[r].state) \/ reservations' = reservations
    BY DEF RequestFails
  <2> QED
    BY <2>1, ReleaseType DEF StoredOK
<1> QED
  BY <1>1, <1>2, <1>3, <1>4, <1>5 DEF RequestFails, StoredOK

LEMMA FrameType ==
    ASSUME TypeOK, StoredOK', runner' \in [Requests -> RunnerRow],
           phase' \in {"up", "down", "recovering"}, UNCHANGED world
    PROVE  TypeOK'
BY DEF TypeOK, StoredOK, world

LEMMA StoredType == ASSUME TypeOK PROVE StoredOK
BY DEF TypeOK, StoredOK

LEMMA CascadeStateType ==
    ASSUME cascades \in [Requests -> CascadeRow], NEW r \in Requests, NEW s \in CascadeState
    PROVE  [cascades EXCEPT ![r].state = s] \in [Requests -> CascadeRow]
BY DEF CascadeRow

LEMMA RunnerOwnerType ==
    ASSUME runner \in [Requests -> RunnerRow], NEW r \in Requests,
           NEW pc \in RunnerPC, NEW q \in Requests \cup {None}
    PROVE  [runner EXCEPT ![r].pc = pc, ![r].owner = q] \in [Requests -> RunnerRow]
BY DEF RunnerRow

LEMMA RearmedType ==
    /\ \A a \in AttemptRow : [a EXCEPT !.status = "pending", !.external = FALSE,
                                        !.notFound = FALSE] \in AttemptRow
    /\ \A x \in RetryRow : x.count < RetryLimit =>
         [x EXCEPT !.state = "retrying", !.count = @ + 1, !.due = FALSE] \in RetryRow
<1>1. ASSUME NEW a \in AttemptRow
      PROVE  [a EXCEPT !.status = "pending", !.external = FALSE, !.notFound = FALSE]
                \in AttemptRow
  BY DEF AttemptRow, AttemptStatus
<1>2. ASSUME NEW x \in RetryRow, x.count < RetryLimit
      PROVE  [x EXCEPT !.state = "retrying", !.count = @ + 1, !.due = FALSE] \in RetryRow
  <2>1. x.count + 1 \in 0..RetryLimit
    BY <1>2, BoundsAssumption DEF RetryRow
  <2> QED
    BY <2>1 DEF RetryRow, RetryState
<1> QED
  BY <1>1, <1>2

LEMMA IntakeType ==
    ASSUME TypeOK, NEW r \in Requests, Intake(r) PROVE TypeOK'
<1>1. requests' \in [Requests -> RequestRow]
  BY DEF Intake, TypeOK, RequestRow, RequestStatus
<1>2. cascades' \in [Requests -> CascadeRow]
  BY DEF Intake, TypeOK, CascadeRow, CascadeState
<1>3. runner' \in [Requests -> RunnerRow]
  BY DEF Intake, TypeOK, RunnerRow, RunnerPC, IdleRunner
<1> QED
  BY <1>1, <1>2, <1>3, FrameType DEF Intake, TypeOK, StoredOK

LEMMA ClaimDueRetriesType ==
    ASSUME TypeOK, ClaimDueRetries PROVE TypeOK'
<1> DEFINE batch == {r \in Requests : ClaimableRows(r) /\ retries[r].due}
<1>1. requests' \in [Requests -> RequestRow]
  BY DEF ClaimDueRetries, TypeOK, RequestRow, RequestStatus
<1>2. cascades' \in [Requests -> CascadeRow]
  BY FirstOrdinal DEF ClaimDueRetries, TypeOK, CascadeRow, CascadeState
<1>3. attempts' \in [Requests -> [Ordinals -> AttemptRow]]
  <2>1. \A r \in Requests : attempts'[r] = attempts[r] \/ attempts'[r] =
          [o \in Ordinals |-> [attempts[r][o] EXCEPT !.status = "pending",
                                !.external = FALSE, !.notFound = FALSE]]
    BY DEF ClaimDueRetries
  <2>2. \A r \in Requests : attempts[r] \in [Ordinals -> AttemptRow]
    BY DEF TypeOK
  <2>3. \A r \in Requests : attempts'[r] \in [Ordinals -> AttemptRow]
    <3> SUFFICES ASSUME NEW r \in Requests PROVE attempts'[r] \in [Ordinals -> AttemptRow]
      OBVIOUS
    <3>1. \A o \in Ordinals : attempts[r][o] \in AttemptRow
      BY <2>2
    <3>2. \A o \in Ordinals : [attempts[r][o] EXCEPT !.status = "pending",
            !.external = FALSE, !.notFound = FALSE] \in AttemptRow
      BY <3>1, RearmedType
    <3>3. [o \in Ordinals |-> [attempts[r][o] EXCEPT !.status = "pending",
            !.external = FALSE, !.notFound = FALSE]] \in [Ordinals -> AttemptRow]
      BY <3>2
    <3> QED
      BY <2>1, <2>2, <3>3
  <2> QED
    BY <2>3 DEF ClaimDueRetries
<1>4. retries' \in [Requests -> RetryRow]
  <2>1. \A r \in batch : [retries[r] EXCEPT !.state = "retrying", !.count = @ + 1,
                                              !.due = FALSE] \in RetryRow
    BY RearmedType DEF ClaimableRows, TypeOK
  <2> QED
    BY <2>1 DEF ClaimDueRetries, TypeOK
<1>5. runner' \in [Requests -> RunnerRow]
  BY DEF ClaimDueRetries, TypeOK, RunnerRow, RunnerPC
<1> QED
  BY <1>1, <1>2, <1>3, <1>4, <1>5, FrameType DEF ClaimDueRetries, TypeOK, StoredOK

LEMMA CollideType ==
    ASSUME TypeOK, NEW r \in Requests, NEW owners \in SUBSET Requests, Collide(r, owners)
    PROVE  TypeOK'
<1>1. runner' \in [Requests -> RunnerRow]
  <2>1. PICK q \in owners :
          runner' = [runner EXCEPT ![r].pc = "collided", ![r].owner = q]
    BY DEF Collide
  <2> QED
    BY <2>1, RunnerOwnerType DEF TypeOK, RunnerPC
<1> QED
  BY <1>1 DEF Collide, TypeOK, stored, world

LEMMA WorkOwnersType ==
    ASSUME NEW r \in Requests, NEW w PROVE WorkOwners(r, w) \in SUBSET Requests
BY DEF WorkOwners, RetryOwners, CascadeOwners

LEMMA IdentifierOwnersType ==
    ASSUME StoredOK, NEW r \in Requests, NEW p \in Providers, NEW aliases \in SUBSET Providers
    PROVE  IdentifierOwners(r, p, aliases) \in SUBSET Requests
BY CurrentIsBackend DEF IdentifierOwners, StoredOK

LEMMA TerminalizeTypeOK ==
    ASSUME TypeOK, NEW r \in Requests, NEW status \in RequestStatus, Terminalize(r, status)
    PROVE  TypeOK'
<1>1. StoredOK' /\ runner' \in [Requests -> RunnerRow]
  BY TerminalizeType, StoredType DEF TypeOK
<1> QED
  BY <1>1, FrameType DEF Terminalize, TypeOK

LEMMA AdvanceTypeOK ==
    ASSUME TypeOK, NEW r \in Requests, NEW outcome \in {"miss", "unavailable"},
           NEW notFound \in BOOLEAN, Advance(r, outcome, notFound)
    PROVE  TypeOK'
<1>1. StoredOK' /\ runner' \in [Requests -> RunnerRow]
  BY AdvanceType, StoredType DEF TypeOK
<1> QED
  BY <1>1, FrameType DEF Advance, AdvanceToNext, Exhaust, TypeOK

LEMMA SelectType ==
    ASSUME TypeOK, NEW r \in Requests, SelectIdentity(r) PROVE TypeOK'
<1> DEFINE w == confirmations[r].selected
<1>1. CASE WorkOwners(r, w) # {} /\ Collide(r, WorkOwners(r, w))
  BY <1>1, CollideType, WorkOwnersType
<1>2. CASE WorkOwners(r, w) = {}
  <2>1. w \in Works \cup {None}
    BY DEF TypeOK, ConfirmationRow
  <2>2. cascades' \in [Requests -> CascadeRow]
    <3>1. cascades' = [cascades EXCEPT ![r].identity = w]
      BY <1>2 DEF SelectIdentity
    <3> QED
      BY <2>1, <3>1 DEF TypeOK, CascadeRow
  <2>3. runner' \in [Requests -> RunnerRow]
    BY <1>2, GotoType DEF SelectIdentity, TypeOK, RunnerPC
  <2> QED
    BY <1>2, <2>2, <2>3, FrameType DEF SelectIdentity, TypeOK, StoredOK
<1> QED
  BY <1>1, <1>2 DEF SelectIdentity

LEMMA BeginType ==
    ASSUME TypeOK, NEW r \in Requests, BeginAttempt(r) PROVE TypeOK'
<1>1. attempts' \in [Requests -> [Ordinals -> AttemptRow]]
  <2>1. "searching" \in AttemptStatus
    BY DEF AttemptStatus
  <2> QED
    BY <2>1, StoredType, CurrentIsBackend, AttemptStatusType DEF BeginAttempt, TypeOK
<1>2. cascades' \in [Requests -> CascadeRow]
  BY DEF BeginAttempt, TypeOK, CascadeRow, CascadeState
<1>3. runner' \in [Requests -> RunnerRow]
  BY GotoType DEF BeginAttempt, TypeOK, RunnerPC
<1> QED
  BY <1>1, <1>2, <1>3, FrameType DEF BeginAttempt, TypeOK, StoredOK

LEMMA PromptType ==
    ASSUME TypeOK, NEW r \in Requests, Prompt(r) PROVE TypeOK'
<1>1. attempts' \in [Requests -> [Ordinals -> AttemptRow]]
  <2>1. "awaiting_selection" \in AttemptStatus
    BY DEF AttemptStatus
  <2> QED
    BY <2>1, StoredType, CurrentIsBackend, AttemptStatusType DEF Prompt, TypeOK
<1>2. cascades' \in [Requests -> CascadeRow]
  BY CascadeStateType DEF Prompt, TypeOK, CascadeState
<1>3. runner' \in [Requests -> RunnerRow]
  BY DEF Prompt, TypeOK, RunnerRow, RunnerPC, IdleRunner
<1>4. requests' \in [Requests -> RequestRow]
  BY DEF Prompt, TypeOK, RequestRow, RequestStatus
<1>5. confirmations' \in [Requests -> ConfirmationRow]
  BY DEF Prompt, TypeOK, ConfirmationRow, ConfirmationState
<1> QED
  BY <1>1, <1>2, <1>3, <1>4, <1>5, FrameType DEF Prompt, TypeOK, StoredOK

LEMMA ReserveType ==
    ASSUME TypeOK, NEW r \in Requests, NEW work \in Works \cup {None}, NEW p \in Providers,
           NEW aliases \in SUBSET Providers, Reserve(r, work, p, aliases)
    PROVE  TypeOK'
<1>1. cascades' \in [Requests -> CascadeRow]
  BY DEF Reserve, TypeOK, CascadeRow
<1>2. attempts' \in [Requests -> [Ordinals -> AttemptRow]]
  <2> DEFINE o == cascades[r].ordinal
             a == [attempts[r][o] EXCEPT !.provider = p]
  <2>1. o \in Ordinals
    BY StoredType, CurrentIsBackend
  <2>2. attempts[r][o] \in AttemptRow
    BY <2>1 DEF TypeOK
  <2>3. a \in AttemptRow
    BY <2>2 DEF AttemptRow
  <2>4. attempts' = [attempts EXCEPT ![r][o] = a]
    BY DEF Reserve
  <2> HIDE DEF o, a
  <2> QED
    BY <2>1, <2>3, <2>4, AttemptUpdateType DEF TypeOK
<1>3. reservations' \in [Backends -> [Providers -> Requests \cup {None}]]
  BY StoredType, CurrentIsBackend DEF Reserve, TypeOK
<1>4. runner' \in [Requests -> RunnerRow]
  BY GotoType DEF Reserve, TypeOK, RunnerPC
<1> QED
  BY <1>1, <1>2, <1>3, <1>4, FrameType DEF Reserve, TypeOK, StoredOK

LEMMA ResolveType ==
    ASSUME TypeOK, NEW r \in Requests, Resolve(r) PROVE TypeOK'
<1>1. PICK w \in Works, p \in Providers, aliases \in SUBSET Providers :
        \/ Collide(r, WorkOwners(r, Coalesce(cascades[r].identity, w)))
        \/ Terminalize(r, "failed")
        \/ Collide(r, IdentifierOwners(r, p, aliases))
        \/ Reserve(r, Coalesce(cascades[r].identity, w), p, aliases)
  BY DEF Resolve
<1> DEFINE work == Coalesce(cascades[r].identity, w)
<1>2. CASE Collide(r, WorkOwners(r, work))
  BY <1>2, CollideType, WorkOwnersType
<1>3. CASE Terminalize(r, "failed")
  BY <1>3, TerminalizeTypeOK DEF RequestStatus
<1>4. CASE Collide(r, IdentifierOwners(r, p, aliases))
  BY <1>4, CollideType, IdentifierOwnersType, StoredType
<1>5. CASE Reserve(r, work, p, aliases)
  <2>1. work \in Works \cup {None}
    BY DEF TypeOK, CascadeRow, Coalesce
  <2> QED
    BY <1>5, <2>1, ReserveType
<1> QED
  BY <1>1, <1>2, <1>3, <1>4, <1>5

LEMMA CollidedType ==
    ASSUME TypeOK, NEW r \in Requests, ForceOwner(r) \/ CloseDuplicate(r) PROVE TypeOK'
<1>1. CASE ForceOwner(r)
  <2>1. retries' \in [Requests -> RetryRow]
    BY <1>1 DEF ForceOwner, TypeOK, RetryRow
  <2>2. runner' \in [Requests -> RunnerRow]
    BY <1>1, GotoType DEF ForceOwner, TypeOK, RunnerPC
  <2> QED
    BY <1>1, <2>1, <2>2, FrameType DEF ForceOwner, TypeOK, StoredOK
<1>2. CASE CloseDuplicate(r)
  BY <1>2, TerminalizeTypeOK DEF CloseDuplicate, RequestStatus
<1> QED
  BY <1>1, <1>2

LEMMA SearchOutcomeType ==
    ASSUME TypeOK, NEW r \in Requests,
           SearchMisses(r) \/ SearchIsAmbiguous(r) \/ SearchRaises(r) \/ PreflightMisses(r)
    PROVE  TypeOK'
<1>1. CASE SearchMisses(r)
  BY <1>1, AdvanceTypeOK DEF SearchMisses
<1>2. CASE SearchIsAmbiguous(r)
  BY <1>2, TerminalizeTypeOK DEF SearchIsAmbiguous, RequestStatus
<1>3. CASE SearchRaises(r)
  BY <1>3, TerminalizeTypeOK DEF SearchRaises, RequestStatus
<1>4. CASE PreflightMisses(r)
  BY <1>4, AdvanceTypeOK DEF PreflightMisses
<1> QED
  BY <1>1, <1>2, <1>3, <1>4

LEMMA LockType ==
    ASSUME TypeOK, NEW r \in Requests, Lock(r) PROVE TypeOK'
<1>1. attempts' \in [Requests -> [Ordinals -> AttemptRow]]
  <2>1. "mutating" \in AttemptStatus
    BY DEF AttemptStatus
  <2> QED
    BY <2>1, StoredType, CurrentIsBackend, AttemptStatusType DEF Lock, TypeOK
<1>2. cascades' \in [Requests -> CascadeRow]
  <2>1. CrossBoundary(cascades[r], Current(r)) \in CascadeRow
    BY StoredType, CurrentIsBackend, CascadeClosedType DEF TypeOK
  <2> QED
    BY <2>1 DEF Lock, TypeOK
<1>3. runner' \in [Requests -> RunnerRow]
  BY GotoType DEF Lock, TypeOK, RunnerPC
<1> QED
  BY <1>1, <1>2, <1>3, FrameType DEF Lock, TypeOK, StoredOK

LEMMA SubmitType ==
    ASSUME TypeOK, NEW r \in Requests, Submit(r) PROVE TypeOK'
<1>1. runner' \in [Requests -> RunnerRow]
  BY GotoType DEF Submit, TypeOK, RunnerPC
<1>2. posts' \in [Requests -> Nat]
  BY DEF Submit, TypeOK
<1>3. remote' \in [Requests -> RemoteState]
  BY DEF Submit, TypeOK, RemoteState
<1> QED
  BY <1>1, <1>2, <1>3 DEF Submit, TypeOK, stored

LEMMA ResultType ==
    ASSUME TypeOK, NEW r \in Requests, Handoff(r) \/ Quarantine(r) \/ Attach(r)
    PROVE  TypeOK'
<1>1. runner' \in [Requests -> RunnerRow]
  BY ReturnType DEF Handoff, Quarantine, Attach, TypeOK
<1>2. CASE Handoff(r)
  <2>1. Response(r) \in {"queued", "completed", "failed", "uncertain"}
    BY <1>2 DEF Handoff, Response, TypeOK, RemoteState
  <2>2. StoredOK' /\ phase' = phase
    BY <1>2, <2>1, PersistType, StoredType DEF Handoff, PersistResult
  <2> QED
    BY <1>1, <1>2, <2>2, FrameType DEF Handoff, TypeOK
<1>3. CASE Quarantine(r)
  <2>1. StoredOK' /\ phase' = phase
    BY <1>3, PersistType, StoredType DEF Quarantine, PersistResult
  <2> QED
    BY <1>1, <1>3, <2>1, FrameType DEF Quarantine, TypeOK
<1>4. CASE Attach(r)
  <2>1. StoredOK' /\ phase' = phase
    BY <1>4, PersistType, StoredType DEF Attach, PersistResult
  <2>2. remote' \in [Requests -> RemoteState]
    BY <1>4 DEF Attach, TypeOK, RemoteState
  <2> QED
    BY <1>1, <1>4, <2>1, <2>2 DEF Attach, TypeOK, StoredOK
<1> QED
  BY <1>2, <1>3, <1>4

LEMMA FinishType ==
    ASSUME TypeOK, NEW r \in Requests, FinishRetry(r) PROVE TypeOK'
<1>1. requests' \in [Requests -> RequestRow]
  BY DEF FinishRetry, TypeOK, RequestRow, RequestStatus
<1>2. PICK retry \in RetryRow : retries' = [retries EXCEPT ![r] = retry]
  <2>1. retries[r] \in RetryRow
    BY DEF TypeOK
  <2>2. /\ RetryMissed(retries[r]) \in RetryRow
        /\ [retries[r] EXCEPT !.state = "awaiting_import"] \in RetryRow
        /\ [retries[r] EXCEPT !.state = "fulfilled"] \in RetryRow
    BY <2>1, RetryMissedType DEF RetryRow, RetryState
  <2> QED
    BY <2>1, <2>2 DEF FinishRetry
<1>3. retries' \in [Requests -> RetryRow]
  BY <1>2 DEF TypeOK
<1>4. reservations' \in [Backends -> [Providers -> Requests \cup {None}]]
  <2>1. reservations' = Release(r, "expired") \/ reservations' = reservations
    BY DEF FinishRetry
  <2> QED
    BY <2>1, ReleaseType, StoredType DEF TypeOK
<1>5. runner' \in [Requests -> RunnerRow]
  BY DEF FinishRetry, TypeOK, IdleRunner, RunnerRow, RunnerPC
<1> QED
  BY <1>1, <1>3, <1>4, <1>5, FrameType DEF FinishRetry, TypeOK, StoredOK

LEMMA PollType ==
    ASSUME TypeOK, NEW r \in Requests, Poll(r) PROVE TypeOK'
<1>1. PICK kind \in {"recover", "observe", "prove"} :
        poll' = [poll EXCEPT ![Current(r)] =
                   [kind |-> kind, request |-> r, seen |-> remote[r]]]
  BY DEF Poll
<1>2. poll' \in [Backends -> PollRow]
  BY <1>1, StoredType, CurrentIsBackend DEF TypeOK, PollRow
<1> QED
  BY <1>2 DEF Poll, TypeOK, stored

LEMMA RecordsType ==
    ASSUME TypeOK, NEW b \in Backends, NEW kind, NEW r \in Requests,
           Records(b, kind, r), StoredOK'
    PROVE  TypeOK'
<1>1. poll' \in [Backends -> PollRow]
  BY DEF Records, TypeOK, PollRow, NoPoll, RemoteState
<1> QED
  BY <1>1 DEF Records, TypeOK, StoredOK

LEMMA ReconcileType ==
    ASSUME TypeOK, NEW r \in Requests, ReconcileStep(r) PROVE TypeOK'
<1>o. cascades[r].ordinal \in Ordinals /\ Current(r) \in Backends
  BY StoredType, CurrentIsBackend
<1>1. CASE Poll(r)
  BY <1>1, PollType
<1>2. CASE RecoverHandoff(r)
  <2>1. requests' \in [Requests -> RequestRow]
    BY <1>2 DEF RecoverHandoff, TypeOK, RequestRow, RequestStatus
  <2>2. attempts' \in [Requests -> [Ordinals -> AttemptRow]]
    BY <1>2, <1>o, AttemptOutcomeType DEF RecoverHandoff, TypeOK, AttemptStatus
  <2>3. cascades' \in [Requests -> CascadeRow]
    BY <1>2, <1>o, CascadeFinalType DEF RecoverHandoff, TypeOK, CascadeState
  <2>4. retries' \in [Requests -> RetryRow]
    BY <1>2 DEF RecoverHandoff, TypeOK, RetryRow, RetryState
  <2>5. StoredOK'
    BY <1>2, <2>1, <2>2, <2>3, <2>4 DEF RecoverHandoff, TypeOK, StoredOK
  <2> QED
    BY <1>2, <1>o, <2>5, RecordsType DEF RecoverHandoff
<1>3. CASE RecoverFailure(r)
  <2>1. StoredOK' /\ Records("shelfarr", "recover", r)
    BY <1>3, PersistType, StoredType DEF RecoverFailure
  <2> QED
    BY <2>1, RecordsType DEF Backends
<1>4. CASE ObserveTerminal(r)
  <2>1. StoredOK' /\ Records(Current(r), "observe", r)
    BY <1>4, CompletesType, FailsType, StoredType DEF ObserveTerminal
  <2> QED
    BY <1>o, <2>1, RecordsType
<1>5. CASE ProveBlocked(r)
  <2>1. StoredOK' /\ Records("shelfarr", "prove", r)
    BY <1>5, CompletesType, StoredType DEF ProveBlocked
  <2> QED
    BY <2>1, RecordsType DEF Backends
<1> QED
  BY <1>1, <1>2, <1>3, <1>4, <1>5 DEF ReconcileStep

LEMMA BookBotType ==
    ASSUME TypeOK, NEW r \in Requests,
           BookBotReads(r) \/ BookBotWrites(r) \/ BookBotSkips
    PROVE  TypeOK'
<1>1. StoredOK'
  BY CompletesType, FailsType, StoredType
  DEF BookBotReads, BookBotWrites, BookBotSkips, stored, StoredOK
<1>2. bookbot' \in BookBotRow
  BY DEF BookBotReads, BookBotWrites, BookBotSkips, BookBotRow, IdleBookBot
<1> QED
  BY <1>1, <1>2 DEF BookBotReads, BookBotWrites, BookBotSkips, TypeOK, StoredOK

LEMMA DropPollType ==
    ASSUME TypeOK, NEW b \in Backends, DropPoll(b) PROVE TypeOK'
<1>1. poll' \in [Backends -> PollRow]
  BY DEF DropPoll, TypeOK, PollRow, NoPoll, RemoteState
<1> QED
  BY <1>1 DEF DropPoll, TypeOK, stored

LEMMA RequestStatusType ==
    ASSUME requests \in [Requests -> RequestRow], NEW r \in Requests, NEW s \in RequestStatus
    PROVE  [requests EXCEPT ![r].status = s] \in [Requests -> RequestRow]
BY DEF RequestRow

LEMMA ConfirmationRowType ==
    ASSUME confirmations \in [Requests -> ConfirmationRow], NEW r \in Requests,
           NEW s \in ConfirmationState
    PROVE  /\ [confirmations EXCEPT ![r].state = s] \in [Requests -> ConfirmationRow]
           /\ \A w \in Works : [confirmations EXCEPT ![r].state = s, ![r].selected = w]
                                  \in [Requests -> ConfirmationRow]
BY DEF ConfirmationRow

LEMMA ConfirmationType ==
    ASSUME TypeOK, NEW r \in Requests, BindPrompt(r) \/ ClaimSelection(r) \/ ClosePrompt(r)
    PROVE  TypeOK'
<1>1. confirmations' \in [Requests -> ConfirmationRow]
  <2>1. CASE BindPrompt(r)
    BY <2>1 DEF BindPrompt, TypeOK, ConfirmationRow
  <2>2. CASE ClaimSelection(r)
    <3>1. PICK w \in Works : confirmations' =
            [confirmations EXCEPT ![r].state = "claimed", ![r].selected = w]
      BY <2>2 DEF ClaimSelection
    <3>2. "claimed" \in ConfirmationState
      BY DEF ConfirmationState
    <3> QED
      BY <3>1, <3>2, ConfirmationRowType DEF TypeOK
  <2>3. CASE ClosePrompt(r)
    <3>1. PICK s \in {"expired", "failed"} :
            confirmations' = [confirmations EXCEPT ![r].state = s]
      BY <2>3 DEF ClosePrompt
    <3>2. s \in ConfirmationState
      BY DEF ConfirmationState
    <3> QED
      BY <3>1, <3>2, ConfirmationRowType DEF TypeOK
  <2> QED
    BY <2>1, <2>2, <2>3
<1>2. CASE BindPrompt(r)
  BY <1>1, <1>2, FrameType DEF BindPrompt, TypeOK, StoredOK
<1>3. CASE ClaimSelection(r)
  <2>1. requests' \in [Requests -> RequestRow]
    BY <1>3, RequestStatusType DEF ClaimSelection, TypeOK, RequestStatus
  <2>2. runner' \in [Requests -> RunnerRow]
    BY <1>3 DEF ClaimSelection, TypeOK, RunnerRow, RunnerPC, IdleRunner
  <2> QED
    BY <1>1, <1>3, <2>1, <2>2, FrameType DEF ClaimSelection, TypeOK, StoredOK
<1>4. CASE ClosePrompt(r)
  <2>1. requests' \in [Requests -> RequestRow]
    BY <1>4, RequestStatusType DEF ClosePrompt, TypeOK, RequestStatus
  <2>2. attempts' \in [Requests -> [Ordinals -> AttemptRow]]
    <3> DEFINE o == cascades[r].ordinal
               s == IF attempts[r][o].status \in SearchSafe THEN "failed"
                    ELSE attempts[r][o].status
    <3>1. o \in Ordinals
      BY StoredType, CurrentIsBackend
    <3>2. s \in AttemptStatus
      BY <3>1 DEF TypeOK, AttemptRow, AttemptStatus
    <3>3. attempts' = [attempts EXCEPT ![r][o].status = s]
      BY <1>4 DEF ClosePrompt
    <3> HIDE DEF o, s
    <3> QED
      BY <3>1, <3>2, <3>3, AttemptStatusType DEF TypeOK
  <2>3. cascades' \in [Requests -> CascadeRow]
    BY <1>4, CascadeClosedType DEF ClosePrompt, TypeOK
  <2>4. reservations' \in [Backends -> [Providers -> Requests \cup {None}]]
    BY <1>4, ReleaseType, StoredType DEF ClosePrompt
  <2> QED
    BY <1>1, <1>4, <2>1, <2>2, <2>3, <2>4, FrameType DEF ClosePrompt, TypeOK, StoredOK
<1> QED
  BY <1>2, <1>3, <1>4

LEMMA FaultType ==
    ASSUME TypeOK, NEW r \in Requests, Fault(r) PROVE TypeOK'
<1>1. runner' \in [Requests -> RunnerRow]
  <2>1. CASE Return(r)
    BY <2>1, ReturnType DEF TypeOK
  <2>2. CASE runner' = [q \in Requests |-> IF runner[q].background THEN IdleRunner ELSE runner[q]]
    BY <2>2 DEF TypeOK, RunnerRow, RunnerPC, IdleRunner
  <2> QED
    BY <2>1, <2>2 DEF Fault
<1>2. faults' \in 0..MaxFaults
  BY BoundsAssumption DEF Fault, TypeOK
<1> QED
  BY <1>1, <1>2 DEF Fault, TypeOK, stored

LEMMA CrashType ==
    ASSUME TypeOK, Crash PROVE TypeOK'
<1>1. runner' \in [Requests -> RunnerRow] /\ poll' \in [Backends -> PollRow]
  BY DEF Crash, RunnerRow, RunnerPC, IdleRunner, PollRow, NoPoll, RemoteState
<1>2. crashes' \in 0..MaxCrashes
  BY BoundsAssumption DEF Crash, TypeOK
<1> QED
  BY <1>1, <1>2 DEF Crash, TypeOK, stored

LEMMA InitializeType ==
    ASSUME TypeOK, Initialize PROVE TypeOK'
<1>1. confirmations' \in [Requests -> ConfirmationRow]
  BY DEF Initialize, TypeOK, ConfirmationRow, ConfirmationState
<1>2. requests' \in [Requests -> RequestRow]
  <2>1. \A r \in Requests : requests[r] \in RequestRow
    BY DEF TypeOK
  <2>2. \A r \in Requests : requests'[r] \in RequestRow
    BY <2>1 DEF Initialize, RequestRow, RequestStatus, Unbound, Interrupted
  <2> QED
    BY <2>2 DEF Initialize
<1>3. cascades' \in [Requests -> CascadeRow]
  BY CascadeClosedType DEF Initialize, TypeOK
<1>4. attempts' \in [Requests -> [Ordinals -> AttemptRow]]
  <2>1. \A r \in Requests : attempts[r] \in [Ordinals -> AttemptRow]
    BY DEF TypeOK
  <2>2. \A r \in Requests : \/ attempts'[r] = attempts[r]
                            \/ attempts'[r] = [attempts[r] EXCEPT ![cascades[r].ordinal] =
                                  [attempts[r][cascades[r].ordinal] EXCEPT !.status = "failed"]]
    BY DEF Initialize
  <2>3. ASSUME NEW r \in Requests PROVE attempts'[r] \in [Ordinals -> AttemptRow]
    <3>1. attempts[r][cascades[r].ordinal] \in AttemptRow
      BY <2>1, StoredType, CurrentIsBackend
    <3>2. [attempts[r][cascades[r].ordinal] EXCEPT !.status = "failed"] \in AttemptRow
      BY <3>1, AttemptRowType DEF AttemptStatus
    <3>3. [attempts[r] EXCEPT ![cascades[r].ordinal] =
             [attempts[r][cascades[r].ordinal] EXCEPT !.status = "failed"]]
               \in [Ordinals -> AttemptRow]
      BY <2>1, <3>2
    <3> QED
      BY <2>1, <2>2, <3>3
  <2> QED
    BY <2>3 DEF Initialize
<1>5. retries' \in [Requests -> RetryRow]
  <2>1. ASSUME NEW r \in Requests PROVE retries'[r] \in RetryRow
    <3>1. retries[r] \in RetryRow
      BY DEF TypeOK
    <3>2. /\ RetryMissed(retries[r]) \in RetryRow
          /\ [retries[r] EXCEPT !.state = "awaiting_import"] \in RetryRow
          /\ [retries[r] EXCEPT !.state = "fulfilled"] \in RetryRow
          /\ [retries[r] EXCEPT !.state = "blocked"] \in RetryRow
      BY <3>1, RetryMissedType DEF RetryRow, RetryState
    <3> QED
      BY <3>1, <3>2 DEF Initialize
  <2> QED
    BY <2>1 DEF Initialize
<1>6. reservations' \in [Backends -> [Providers -> Requests \cup {None}]]
  BY DEF Initialize, TypeOK
<1> QED
  BY <1>1, <1>2, <1>3, <1>4, <1>5, <1>6, FrameType DEF Initialize, TypeOK, StoredOK

LEMMA ProcessType ==
    ASSUME TypeOK, NEW r \in Requests, RunNext(r) \/ Resume(r) \/ Ready PROVE TypeOK'
<1>1. runner' \in [Requests -> RunnerRow]
  <2>1. CASE RunNext(r)
    BY <2>1, GotoType DEF RunNext, TypeOK, RunnerPC
  <2>2. CASE Resume(r)
    <3>1. PICK pc \in {"select", "begin"} : runner' =
            [runner EXCEPT ![r] = [pc |-> pc, background |-> TRUE, owner |-> None]]
      BY <2>2 DEF Resume
    <3> QED
      BY <3>1 DEF TypeOK, RunnerRow, RunnerPC
  <2>3. CASE Ready
    BY <2>3 DEF Ready, TypeOK
  <2> QED
    BY <2>1, <2>2, <2>3
<1> QED
  BY <1>1 DEF RunNext, Resume, Ready, TypeOK, stored, world

LEMMA TimeType ==
    ASSUME TypeOK, NEW r \in Requests, RetryFallsDue(r) \/ RemoteMoves(r) PROVE TypeOK'
<1>1. CASE RetryFallsDue(r)
  <2>1. retries' \in [Requests -> RetryRow]
    BY <1>1 DEF RetryFallsDue, TypeOK, RetryRow
  <2> QED
    BY <1>1, <2>1, FrameType DEF RetryFallsDue, TypeOK, StoredOK
<1>2. CASE RemoteMoves(r)
  <2>1. remote' \in [Requests -> RemoteState]
    BY <1>2 DEF RemoteMoves, TypeOK, RemoteState
  <2> QED
    BY <1>2, <2>1 DEF RemoteMoves, TypeOK, stored
<1> QED
  BY <1>1, <1>2

LEMMA RunnerStepType ==
    ASSUME TypeOK, NEW r \in Requests, RunnerStep(r) PROVE TypeOK'
BY SelectType, BeginType, SearchOutcomeType, PromptType, ResolveType, CollidedType, LockType,
   SubmitType, ResultType, FinishType DEF RunnerStep

LEMMA TypeStep == TypeOK /\ [Next]_vars => TypeOK'
<1> SUFFICES ASSUME TypeOK, [Next]_vars PROVE TypeOK'
  OBVIOUS
<1>1. CASE ClaimDueRetries
  BY <1>1, ClaimDueRetriesType
<1>2. CASE Crash
  BY <1>2, CrashType
<1>3. CASE Initialize
  BY <1>3, InitializeType
<1>4. CASE Ready
  BY <1>4, FrameType DEF Ready, TypeOK, stored, StoredOK
<1>5. CASE BookBotSkips
  BY <1>5 DEF BookBotSkips, TypeOK, stored, BookBotRow, IdleBookBot
<1>6. ASSUME NEW b \in Backends, DropPoll(b) PROVE TypeOK'
  BY <1>6, DropPollType
<1>7. ASSUME NEW r \in Requests,
             \/ Intake(r) \/ RunNext(r) \/ RunnerStep(r) \/ ReconcileStep(r)
             \/ BookBotReads(r) \/ BookBotWrites(r)
             \/ BindPrompt(r) \/ ClaimSelection(r) \/ ClosePrompt(r)
             \/ Fault(r) \/ Resume(r) \/ RetryFallsDue(r) \/ RemoteMoves(r)
      PROVE  TypeOK'
  BY <1>7, IntakeType, ProcessType, RunnerStepType, ReconcileType, BookBotType,
     ConfirmationType, FaultType, TimeType
<1>8. CASE UNCHANGED vars
  BY <1>8 DEF vars, stored, TypeOK
<1> QED
  BY <1>1, <1>2, <1>3, <1>4, <1>5, <1>6, <1>7, <1>8 DEF Next

\* Every row and every thread keeps its type, for any number of requests,
\* works and backends' identifiers and any retry limit.
THEOREM TypeCorrect == Spec => []TypeOK
BY InitType, TypeStep, PTL DEF Spec

-----------------------------------------------------------------------------
(* What a step may do to the boundary of one request: nothing, search on     *)
(* before it, cross it, or send the one submission after it.                 *)

Untouched(q) ==
    /\ cascades'[q].mutation = cascades[q].mutation
    /\ cascades'[q].ordinal = cascades[q].ordinal
    /\ posts'[q] = posts[q]
    /\ runner'[q].pc = "locked" => runner[q].pc = "locked"

SearchesOn(q) ==
    /\ cascades[q].mutation = None /\ cascades'[q].mutation = None
    /\ posts'[q] = posts[q]
    /\ runner'[q].pc # "locked"

Crosses(q) ==
    /\ cascades[q].mutation = None /\ cascades'[q].mutation # None
    /\ posts'[q] = posts[q]

Sends(q) ==
    /\ runner[q].pc = "locked" /\ runner'[q].pc # "locked"
    /\ cascades'[q].mutation = cascades[q].mutation
    /\ cascades'[q].ordinal = cascades[q].ordinal
    /\ posts'[q] = posts[q] + 1

Bounded(q) == Untouched(q) \/ SearchesOn(q) \/ Crosses(q) \/ Sends(q)

LEMMA RunnerBounded ==
    ASSUME TypeOK, NEW r \in Requests, NEW q \in Requests, RunnerStep(r)
    PROVE  Bounded(q)
<1>t. TypeOK' /\ runner \in [Requests -> RunnerRow] /\ cascades \in [Requests -> CascadeRow]
  BY RunnerStepType DEF TypeOK
<1>1. CASE Lock(r)
  <2>1. Current(r) # None
    BY StoredType, CurrentIsBackend, NoneAssumption
  <2> QED
    BY <1>t, <1>1, <2>1 DEF Lock, MayLock, Searching, CrossBoundary, Bounded, Crosses, Untouched,
       Goto, world, RunnerRow, CascadeRow
<1>2. CASE Submit(r)
  BY <1>t, <1>2 DEF Submit, Bounded, Sends, Untouched, Goto, stored, TypeOK, RunnerRow
<1>3. ASSUME NEW status, Terminalize(r, status) PROVE Bounded(q)
  BY <1>t, <1>3 DEF Terminalize, FailCascade, Bounded, Untouched, Return, IdleRunner, world,
     RunnerRow, CascadeRow
<1>4. ASSUME NEW outcome, NEW notFound, Advance(r, outcome, notFound) PROVE Bounded(q)
  <2>1. CASE AdvanceToNext(r, outcome, notFound)
    BY <1>t, <2>1 DEF AdvanceToNext, Searching, Goto, Bounded, SearchesOn, Untouched, world,
       RunnerRow, CascadeRow
  <2>2. CASE Exhaust(r, outcome, notFound)
    BY <1>t, <2>2 DEF Exhaust, FailCascade, Bounded, Untouched, Return, IdleRunner, world,
       RunnerRow, CascadeRow
  <2> QED
    BY <1>4, <2>1, <2>2 DEF Advance
<1>5. ASSUME NEW owners, Collide(r, owners) PROVE Bounded(q)
  BY <1>t, <1>5 DEF Collide, Bounded, Untouched, stored, world, RunnerRow
<1>6. ASSUME NEW w, NEW p, NEW aliases, Reserve(r, w, p, aliases) PROVE Bounded(q)
  BY <1>t, <1>6 DEF Reserve, Goto, Bounded, Untouched, world, RunnerRow, CascadeRow
<1>7. CASE Resolve(r)
  BY <1>3, <1>5, <1>6, <1>7 DEF Resolve
<1>8. CASE SearchMisses(r) \/ SearchIsAmbiguous(r) \/ SearchRaises(r)
           \/ PreflightMisses(r) \/ CloseDuplicate(r)
  BY <1>3, <1>4, <1>8 DEF SearchMisses, SearchIsAmbiguous, SearchRaises, PreflightMisses,
     CloseDuplicate
<1>9. CASE SelectIdentity(r)
  <2>1. CASE \E owners \in {WorkOwners(r, confirmations[r].selected)} : Collide(r, owners)
    BY <1>5, <2>1
  <2>2. CASE /\ cascades' = [cascades EXCEPT ![r].identity = confirmations[r].selected]
             /\ Goto(r, "begin")
             /\ UNCHANGED world
    BY <1>t, <2>2 DEF Goto, Bounded, Untouched, world, RunnerRow, CascadeRow
  <2> QED
    BY <1>9, <2>1, <2>2 DEF SelectIdentity
<1>10. CASE BeginAttempt(r) \/ Prompt(r)
  BY <1>t, <1>10 DEF BeginAttempt, Prompt, Goto, IdleRunner, Bounded, Untouched, world,
     RunnerRow, CascadeRow
<1>11. CASE ForceOwner(r) \/ FinishRetry(r)
  BY <1>t, <1>11 DEF ForceOwner, FinishRetry, Goto, IdleRunner, Bounded, Untouched, world, RunnerRow
<1>12. CASE Handoff(r) \/ Quarantine(r) \/ Attach(r)
  <2>1. PICK result : PersistResult(r, result) /\ Return(r) /\ UNCHANGED posts
    BY <1>12 DEF Handoff, Quarantine, Attach, world
  <2> QED
    BY <1>t, <2>1 DEF PersistResult, Return, IdleRunner, Bounded, Untouched, RunnerRow, CascadeRow
<1> QED
  BY <1>1, <1>2, <1>7, <1>8, <1>9, <1>10, <1>11, <1>12 DEF RunnerStep

LEMMA ReconcileBounded ==
    ASSUME TypeOK, NEW r \in Requests, NEW q \in Requests,
           ReconcileStep(r) \/ BookBotReads(r) \/ BookBotWrites(r)
    PROVE  Bounded(q)
<1>1. UNCHANGED <<runner, posts>>
  BY DEF ReconcileStep, Poll, RecoverHandoff, RecoverFailure, ObserveTerminal, ProveBlocked,
     Records, BookBotReads, BookBotWrites
<1>2. \/ UNCHANGED cascades
      \/ RequestCompletes(r) \/ RequestFails(r) \/ PersistResult(r, "failed")
      \/ RecoverHandoff(r)
  BY DEF ReconcileStep, Poll, RecoverFailure, ObserveTerminal, ProveBlocked,
     BookBotReads, BookBotWrites, stored
<1>3. /\ cascades'[q].mutation = cascades[q].mutation
      /\ cascades'[q].ordinal = cascades[q].ordinal
  <2>1. CASE RequestCompletes(r)
    BY <2>1 DEF RequestCompletes, TypeOK, CascadeRow
  <2>2. CASE RequestFails(r)
    BY <2>2 DEF RequestFails, FailCascade, TypeOK, CascadeRow
  <2>3. CASE PersistResult(r, "failed")
    BY <2>3 DEF PersistResult, TypeOK, CascadeRow
  <2>4. CASE RecoverHandoff(r)
    BY <2>4 DEF RecoverHandoff, TypeOK, CascadeRow
  <2> QED
    BY <1>2, <2>1, <2>2, <2>3, <2>4
<1> QED
  BY <1>1, <1>3 DEF Bounded, Untouched

LEMMA StepBounded ==
    ASSUME TypeOK, [Next]_vars, NEW q \in Requests PROVE Bounded(q)
<1>1. CASE ClaimDueRetries
  BY <1>1 DEF ClaimDueRetries, ClaimableRows, TypeOK, CascadeRow, Bounded, SearchesOn, Untouched, world
<1>2. CASE Crash
  BY <1>2 DEF Crash, IdleRunner, stored, Bounded, Untouched
<1>3. CASE Initialize
  BY <1>3 DEF Initialize, FailCascade, TypeOK, CascadeRow, Bounded, Untouched, world
<1>4. CASE Ready \/ BookBotSkips \/ UNCHANGED vars \/ \E b \in Backends : DropPoll(b)
  BY <1>4 DEF Ready, BookBotSkips, DropPoll, vars, stored, world, Bounded, Untouched
<1>5. ASSUME NEW r \in Requests, ReconcileStep(r) \/ BookBotReads(r) \/ BookBotWrites(r)
      PROVE  Bounded(q)
  BY <1>5, ReconcileBounded
<1>6. ASSUME NEW r \in Requests, RunnerStep(r) PROVE Bounded(q)
  BY <1>6, RunnerBounded
<1>7. ASSUME NEW r \in Requests, BindPrompt(r) \/ RetryFallsDue(r) \/ RemoteMoves(r)
      PROVE  Bounded(q)
  BY <1>7 DEF BindPrompt, RetryFallsDue, RemoteMoves, stored, world, Bounded, Untouched
<1>8. ASSUME NEW r \in Requests, Intake(r) \/ ClaimSelection(r) \/ Resume(r) \/ RunNext(r)
      PROVE  Bounded(q)
  <2>1. CASE Intake(r)
    BY <2>1 DEF Intake, IdleRunner, TypeOK, CascadeRow, RunnerRow, world, Bounded, Untouched
  <2>2. CASE ClaimSelection(r)
    BY <2>2 DEF ClaimSelection, IdleRunner, TypeOK, RunnerRow, world, Bounded, Untouched
  <2>3. CASE Resume(r)
    BY <2>3 DEF Resume, TypeOK, RunnerRow, stored, world, Bounded, Untouched
  <2>4. CASE RunNext(r)
    BY <2>4 DEF RunNext, Goto, TypeOK, RunnerRow, stored, world, Bounded, Untouched
  <2> QED
    BY <1>8, <2>1, <2>2, <2>3, <2>4
<1>9. ASSUME NEW r \in Requests, ClosePrompt(r) PROVE Bounded(q)
  BY <1>9 DEF ClosePrompt, FailCascade, TypeOK, CascadeRow, world, Bounded, Untouched
<1>10. ASSUME NEW r \in Requests, Fault(r) PROVE Bounded(q)
  <2>1. CASE Return(r)
    BY <1>10, <2>1 DEF Fault, Return, IdleRunner, TypeOK, RunnerRow, stored, Bounded, Untouched
  <2>2. CASE runner' = [p \in Requests |-> IF runner[p].background THEN IdleRunner ELSE runner[p]]
    <3>1. runner'[q] = IdleRunner \/ runner'[q] = runner[q]
      BY <2>2
    <3> QED
      BY <1>10, <3>1 DEF Fault, IdleRunner, stored, Bounded, Untouched
  <2> QED
    BY <1>10, <2>1, <2>2 DEF Fault
<1> QED
  BY <1>1, <1>2, <1>3, <1>4, <1>5, <1>6, <1>7, <1>8, <1>9, <1>10 DEF Next

-----------------------------------------------------------------------------
\* A request that crossed its boundary never falls back: neither its mutation
\* marker nor its current backend changes again.
THEOREM NoFallback == Spec => NoFallbackAfterMutation
<1>1. TypeOK /\ [Next]_vars =>
        [\A r \in Requests : cascades[r].mutation # None =>
           /\ cascades'[r].mutation = cascades[r].mutation
           /\ cascades'[r].ordinal = cascades[r].ordinal]_vars
  BY StepBounded DEF Bounded, Untouched, SearchesOn, Crosses, Sends
<1> QED
  BY <1>1, TypeCorrect, PTL DEF Spec, NoFallbackAfterMutation

\* The inductive form of SubmittedOnce: a thread about to submit has written
\* its marker, and nothing was sent before it.
SubmissionInv ==
    \A r \in Requests :
        /\ posts[r] \in {0, 1}
        /\ cascades[r].mutation = None => posts[r] = 0
        /\ runner[r].pc = "locked" => cascades[r].mutation # None /\ posts[r] = 0

LEMMA SubmissionInit == Init => SubmissionInv
BY DEF Init, IdleRunner, SubmissionInv

LEMMA SubmissionStep == TypeOK /\ SubmissionInv /\ [Next]_vars => SubmissionInv'
<1> SUFFICES ASSUME TypeOK, SubmissionInv, [Next]_vars, NEW r \in Requests
             PROVE  /\ posts'[r] \in {0, 1}
                    /\ cascades'[r].mutation = None => posts'[r] = 0
                    /\ runner'[r].pc = "locked" =>
                         cascades'[r].mutation # None /\ posts'[r] = 0
  BY DEF SubmissionInv
<1>1. Bounded(r)
  BY StepBounded
<1>2. CASE Untouched(r) \/ SearchesOn(r)
  BY <1>2 DEF Untouched, SearchesOn, SubmissionInv
<1>3. CASE Crosses(r)
  BY <1>3 DEF Crosses, SubmissionInv
<1>4. CASE Sends(r)
  BY <1>4 DEF Sends, SubmissionInv
<1> QED
  BY <1>1, <1>2, <1>3, <1>4 DEF Bounded

\* A request sends at most one submission, and only behind its durable
\* marker, however often it is retried, restarted or thrown out.
THEOREM AtMostOneSubmission == Spec => []SubmittedOnce
<1>1. SubmissionInv => SubmittedOnce
  BY DEF SubmissionInv, SubmittedOnce
<1> QED
  BY <1>1, SubmissionInit, SubmissionStep, TypeCorrect, PTL DEF Spec

-----------------------------------------------------------------------------
(* The ten situations of a request                                         *)

Waits(r) == runner[r].pc \in {"idle", "finish"}

Unsubmitted(r) ==
    /\ ~requests[r].external /\ ~requests[r].startup
    /\ cascades[r].mutation = None /\ cascades[r].final = None

\* Every later attempt is still to come.
Ahead(r) ==
    \A o \in Ordinals : o > cascades[r].ordinal => attempts[r][o].status = "pending"

Fresh(r) ==
    /\ requests[r].status = "absent" /\ Unsubmitted(r) /\ Ahead(r)
    /\ cascades[r].state = "none" /\ cascades[r].ordinal = 1 /\ cascades[r].identity = None
    /\ CurrentAttempt(r).status = "pending"
    /\ \A o \in Ordinals : attempts[r][o].provider = None
    /\ retries[r].state = "none" /\ confirmations[r].state = "none"
    /\ runner[r].pc = "idle"

\* The search, before any boundary, and what each place of its runner implies.
Seeking(r) ==
    /\ requests[r].status = "processing" /\ Unsubmitted(r) /\ Ahead(r)
    /\ cascades[r].state \in SearchSafe
    /\ CurrentAttempt(r).status \in {"pending"} \cup SearchSafe
    /\ retries[r].state \in {"none", "retrying"}
    /\ cascades[r].state = "awaiting_selection" => retries[r].state = "none"
    /\ confirmations[r].state # "pending"
    /\ confirmations[r].state = "claimed" /\ cascades[r].identity = None =>
         /\ confirmations[r].selected # None
         /\ CurrentAttempt(r).status = "awaiting_selection"
         /\ runner[r].pc \notin {"begin", "ready"}
    /\ runner[r].pc \notin {"locked", "posted"}
    /\ runner[r].pc \in {"searching", "resolved"} =>
         cascades[r].state = "searching" /\ CurrentAttempt(r).status = "searching"
    /\ runner[r].pc = "resolved" =>
         cascades[r].identity # None /\ CurrentAttempt(r).provider # None
    /\ runner[r].pc \in {"select", "collided", "forced"} => CurrentAttempt(r).status \in SearchSafe
    /\ runner[r].pc = "select" =>
         cascades[r].identity = None /\ confirmations[r].state = "claimed"

Asking(r) ==
    /\ requests[r].status = "awaiting_selection" /\ Unsubmitted(r) /\ Ahead(r)
    /\ cascades[r].state = "awaiting_selection" /\ cascades[r].identity = None
    /\ CurrentAttempt(r).status = "awaiting_selection"
    /\ retries[r].state = "none" /\ confirmations[r].state = "pending"
    /\ runner[r].pc = "idle"

\* Closed without a submission; a silent retry may be waiting, or still be
\* owed the cleanup of its run.
Missed(r) ==
    /\ requests[r].status \in {"failed", "needs_selection"} /\ Unsubmitted(r)
    /\ cascades[r].state = "failed"
    /\ retries[r].state \in {"none", "queued", "retrying", "expired"}
    /\ retries[r].state = "queued" =>
         requests[r].status = "failed" /\ retries[r].count < RetryLimit
    /\ retries[r].state = "expired" => requests[r].status = "failed"
    /\ confirmations[r].state # "pending"
    /\ Waits(r)

\* The job the request is bound to: the current attempt at the current backend.
Bound(r) ==
    /\ cascades[r].identity # None
    /\ cascades[r].mutation \in {None, Current(r)}
    /\ cascades[r].final \in {None, Current(r)}
    /\ confirmations[r].state # "pending"

Crossed(r) ==
    /\ requests[r].status = "processing" /\ ~requests[r].external
    /\ Bound(r) /\ cascades[r].state = "mutating"
    /\ cascades[r].mutation # None /\ cascades[r].final = None
    /\ CurrentAttempt(r).status = "mutating"
    /\ retries[r].state \in {"none", "retrying"}
    /\ \/ Waits(r)
       \/ runner[r].pc \in {"locked", "posted"} /\ ~requests[r].startup

Doubtful(r) ==
    /\ requests[r].status = "queued" /\ ~requests[r].external
    /\ Bound(r) /\ cascades[r].state = "uncertain" /\ cascades[r].final = None
    /\ CurrentAttempt(r).status = "uncertain"
    /\ retries[r].state \in {"none", "awaiting_import"}
    /\ Waits(r)

HandedOff(r) ==
    /\ requests[r].external /\ CurrentAttempt(r).external
    /\ Bound(r)
    /\ cascades[r].final = None => cascades[r].mutation # None
    /\ Waits(r)

Accepted(r) ==
    /\ requests[r].status = "queued" /\ HandedOff(r)
    /\ cascades[r].state = "queued" /\ cascades[r].final # None
    /\ CurrentAttempt(r).status = "queued"
    /\ retries[r].state \in {"none", "awaiting_import"}

Imported(r) ==
    /\ requests[r].status = "completed" /\ HandedOff(r)
    /\ cascades[r].state = "completed" /\ cascades[r].final # None
    /\ retries[r].state \in {"none", "fulfilled"}
    /\ remote[r] = "completed"

Lost(r) ==
    /\ requests[r].status = "failed" /\ HandedOff(r)
    /\ cascades[r].state = "failed"
    /\ retries[r].state \in {"none", "blocked"}

\* An import recorded after the loop had given the request up.
ImportedLate(r) ==
    /\ requests[r].status = "completed" /\ HandedOff(r)
    /\ cascades[r].state = "failed"
    /\ retries[r].state = "none"

Situated(r) ==
    \/ Fresh(r) \/ Seeking(r) \/ Asking(r) \/ Missed(r) \/ Crossed(r)
    \/ Doubtful(r) \/ Accepted(r) \/ Imported(r) \/ Lost(r) \/ ImportedLate(r)

\* A retry is about the work of its cascade, and its series starts at zero.
RetryIdentity(r) ==
    /\ retries[r].state # "none" =>
         cascades[r].identity # None /\ retries[r].identity = cascades[r].identity
    /\ retries[r].state = "none" => retries[r].count = 0

Backgrounded(r) == runner[r].pc \in {"ready", "finish"} => runner[r].background

Owning(r) ==
    cascades[r].state \in OwningCascade \/ retries[r].state \in RetainingRetry

Reserved(r) ==
    Owning(r) => \A o \in Ordinals : attempts[r][o].provider # None =>
        reservations[Policy[o]][attempts[r][o].provider] = r

-----------------------------------------------------------------------------
(* What the loops and BookBot hold about a request                         *)

Committed(r) == Crossed(r) \/ Doubtful(r) \/ Accepted(r) \/ Imported(r) \/ Lost(r) \/ ImportedLate(r)

Polled(r) ==
    \A b \in Backends : poll[b].kind # "none" /\ poll[b].request = r =>
        /\ Committed(r)
        /\ requests[r].status = "processing" => requests[r].startup
        /\ poll[b].kind \in {"observe", "prove"} => requests[r].external
        /\ poll[b].kind = "prove" =>
             poll[b].seen = "completed" /\ Current(r) = "shelfarr"
        /\ poll[b].kind \in {"observe", "prove"} /\ poll[b].seen = "completed" =>
             b = "shelfarr" /\ remote[r] = "completed"

BookBotHolds(r) ==
    bookbot.request = r =>
        /\ Accepted(r) \/ Lost(r)
        /\ Current(r) = "lazylibrarian"
        /\ remote[r] = "completed"

\* Nobody else owns the work that r owns.
Claimed(r) == cascades[r].state \in OwningCascade \/ retries[r].state \in OwningRetry
Sole(r) ==
    \A q \in Requests : Claimed(r) /\ Claimed(q) /\ cascades[r].identity # None
        /\ cascades[r].identity = cascades[q].identity => q = r

\* The rows of one request agree with each other.
RowsAgree(r) == Situated(r) /\ RetryIdentity(r) /\ Backgrounded(r) /\ Reserved(r)

Sound(r) ==
    /\ RowsAgree(r) /\ Polled(r) /\ BookBotHolds(r) /\ Sole(r)
    /\ phase = "down" => runner[r].pc = "idle"

IInv == TypeOK /\ SubmissionInv /\ \A r \in Requests : Sound(r)

-----------------------------------------------------------------------------
(* What one step may do to one request                                     *)

\* Nobody takes an identifier that q reserved.
Untaken(q) ==
    \A b \in Backends : \A p \in Providers :
        reservations[b][p] = q => reservations'[b][p] = q

\* Nothing but what an idle runner was, the due flag of its retry, the message of its prompt, or its job
\* at the backend, which never loses a completion.
Still(q) ==
    /\ requests'[q] = requests[q] /\ cascades'[q] = cascades[q]
    /\ attempts'[q] = attempts[q]
    /\ confirmations'[q].state = confirmations[q].state
    /\ confirmations'[q].selected = confirmations[q].selected
    /\ posts'[q] = posts[q]
    /\ runner'[q].pc = runner[q].pc
    /\ runner'[q].pc # "idle" => runner'[q].background = runner[q].background
    /\ retries'[q].state = retries[q].state
    /\ retries'[q].count = retries[q].count
    /\ retries'[q].identity = retries[q].identity
    /\ remote[q] = "completed" => remote'[q] = "completed"
    /\ Untaken(q)

Keeps(r) ==
    /\ cascades'[r].identity = cascades[r].identity
    /\ retries'[r].count = retries[r].count
    /\ posts'[r] = posts[r]

SameRetry(r) == retries'[r].state = retries[r].state

Opens(r) == Fresh(r) /\ Seeking(r)' /\ cascades'[r].state = "searching" /\ Keeps(r) /\ SameRetry(r)

Searches(r) ==
    /\ Seeking(r) /\ Seeking(r)' /\ Keeps(r) /\ SameRetry(r)
    /\ cascades'[r].state \in {cascades[r].state, "searching"}

Claims(r) ==
    /\ Seeking(r) /\ Seeking(r)' /\ SameRetry(r)
    /\ cascades'[r].state = cascades[r].state
    /\ cascades[r].identity = None /\ cascades'[r].identity \in Works
    /\ retries'[r].count = retries[r].count /\ posts'[r] = posts[r]
    /\ \A q \in Requests \ {r} :
         /\ Claimed(q) => cascades[q].identity # cascades'[r].identity
         /\ cascades'[q] = cascades[q]

Asks(r) ==
    /\ Seeking(r) /\ Asking(r)' /\ Keeps(r) /\ SameRetry(r)
    /\ cascades[r].state = "searching"

Answers(r) ==
    /\ Asking(r) /\ Seeking(r)' /\ Keeps(r) /\ SameRetry(r)
    /\ cascades'[r].state = "awaiting_selection"

Misses(r) ==
    /\ Seeking(r) \/ Asking(r)
    /\ Missed(r)' /\ Keeps(r)
    /\ retries'[r].state \in {"queued", "retrying"} => cascades[r].state = "searching"

Settles(r) ==
    /\ Missed(r) /\ Missed(r)' /\ Keeps(r)
    /\ \/ SameRetry(r)
       \/ retries[r].state = "retrying" /\ retries'[r].state \in {"queued", "expired"}

SeeksAgain(r) ==
    /\ Missed(r) /\ Seeking(r)'
    /\ retries[r].state = "queued" /\ retries'[r].state = "retrying"
    /\ cascades'[r].state = "searching"
    /\ cascades'[r].identity = cascades[r].identity /\ posts'[r] = posts[r]
    /\ retries'[r].count = retries[r].count + 1

\* A committed request only moves on: it keeps its backend, its correlation and
\* a completion.
MovesOn(r) ==
    /\ cascades'[r].ordinal = cascades[r].ordinal
    /\ requests[r].external => requests'[r].external
    /\ requests'[r].status = "processing" =>
         requests[r].status = "processing" /\ (requests[r].startup => requests'[r].startup)
    /\ remote[r] = "completed" => remote'[r] = "completed"

Underway(r) == Crossed(r) \/ Doubtful(r) \/ Accepted(r)

Commits(r) ==
    /\ Seeking(r) /\ Underway(r)' /\ Keeps(r)
    /\ cascades[r].state = "searching" /\ cascades[r].identity # None

Submits(r) ==
    /\ Crossed(r) /\ Crossed(r)' /\ MovesOn(r) /\ SameRetry(r)
    /\ cascades'[r].identity = cascades[r].identity
    /\ retries'[r].count = retries[r].count
    /\ posts[r] = 0 /\ posts'[r] = 1

Proceeds(r) == Underway(r) /\ Underway(r)' /\ Keeps(r) /\ MovesOn(r)

\* Only BookBot imports what LazyLibrarian downloaded.
ByItsImporter(r) == Current(r) = "shelfarr" \/ bookbot'.request # r

Acquires(r) ==
    /\ \/ Seeking(r) /\ cascades[r].state = "searching" /\ cascades[r].identity # None
       \/ Underway(r) /\ MovesOn(r)
       \/ Lost(r) /\ retries[r].state = "blocked" /\ MovesOn(r)
    /\ Imported(r)' /\ Keeps(r)
    /\ Accepted(r) \/ Lost(r) => ByItsImporter(r)

Loses(r) == Underway(r) /\ Lost(r)' /\ Keeps(r) /\ MovesOn(r)

Rests(r) ==
    /\ \/ Lost(r) /\ Lost(r)'
       \/ Lost(r) /\ ImportedLate(r)' /\ ByItsImporter(r)
       \/ Imported(r) /\ Imported(r)'
       \/ ImportedLate(r) /\ ImportedLate(r)'
    /\ Keeps(r) /\ SameRetry(r) /\ MovesOn(r)

Life(r) ==
    \/ Still(r) \/ Opens(r) \/ Searches(r) \/ Claims(r) \/ Asks(r) \/ Answers(r)
    \/ Misses(r) \/ Settles(r) \/ SeeksAgain(r) \/ Commits(r) \/ Submits(r)
    \/ Proceeds(r) \/ Acquires(r) \/ Loses(r) \/ Rests(r)

Lives == \A r \in Requests : Life(r) /\ RowsAgree(r)'

-----------------------------------------------------------------------------
(* Types of the rows of one request                                        *)

LEMMA Rows ==
    ASSUME TypeOK, NEW r \in Requests
    PROVE  /\ requests[r] \in RequestRow /\ cascades[r] \in CascadeRow
           /\ attempts[r] \in [Ordinals -> AttemptRow] /\ retries[r] \in RetryRow
           /\ confirmations[r] \in ConfirmationRow /\ runner[r] \in RunnerRow
           /\ cascades[r].ordinal \in Ordinals /\ Current(r) \in Backends
           /\ CurrentAttempt(r) \in AttemptRow
           /\ remote[r] \in RemoteState /\ posts[r] \in Nat
BY StoredType, CurrentIsBackend DEF TypeOK, CurrentAttempt

LEMMA NoneIsNothing ==
    /\ None \notin Requests /\ None \notin Works /\ None \notin Providers
    /\ None \notin Backends
    /\ "shelfarr" # None /\ "lazylibrarian" # None
BY NoneAssumption DEF Backends

\* A request that a step leaves alone keeps whatever its rows agree on.
LEMMA StillAgrees ==
    ASSUME TypeOK, TypeOK', NEW q \in Requests, Still(q), RowsAgree(q)
    PROVE  RowsAgree(q)'
<1>r. /\ cascades[q].ordinal \in Ordinals
      /\ CurrentAttempt(q)' = CurrentAttempt(q) /\ Current(q)' = Current(q)
  BY Rows DEF Still, CurrentAttempt, Current
<1>u. Unsubmitted(q)' = Unsubmitted(q) /\ Ahead(q)' = Ahead(q) /\ Waits(q)' = Waits(q)
  BY DEF Still, Unsubmitted, Ahead, Waits
<1>b. Bound(q)' = Bound(q)
  BY <1>r DEF Still, Bound
<1>h. HandedOff(q)' = HandedOff(q)
  BY <1>r, <1>u, <1>b DEF Still, HandedOff
<1>1. Situated(q)'
  <2>1. CASE Fresh(q)
    BY <1>r, <1>u, <2>1 DEF Still, Fresh, Situated
  <2>2. CASE Seeking(q)
    BY <1>r, <1>u, <2>2 DEF Still, Seeking, Situated
  <2>3. CASE Asking(q)
    BY <1>r, <1>u, <2>3 DEF Still, Asking, Situated
  <2>4. CASE Missed(q)
    BY <1>r, <1>u, <2>4 DEF Still, Missed, Situated
  <2>5. CASE Crossed(q)
    BY <1>r, <1>u, <1>b, <2>5 DEF Still, Crossed, Situated
  <2>6. CASE Doubtful(q)
    BY <1>r, <1>u, <1>b, <2>6 DEF Still, Doubtful, Situated
  <2>7. CASE Accepted(q)
    BY <1>r, <1>h, <2>7 DEF Still, Accepted, Situated
  <2>8. CASE Imported(q)
    BY <1>r, <1>h, <2>8 DEF Still, Imported, Situated
  <2>9. CASE Lost(q)
    BY <1>r, <1>h, <2>9 DEF Still, Lost, Situated
  <2>10. CASE ImportedLate(q)
    BY <1>r, <1>h, <2>10 DEF Still, ImportedLate, Situated
  <2> QED
    BY <2>1, <2>2, <2>3, <2>4, <2>5, <2>6, <2>7, <2>8, <2>9, <2>10 DEF RowsAgree, Situated
<1>2. RetryIdentity(q)'
  BY DEF Still, RowsAgree, RetryIdentity
<1>3. Backgrounded(q)'
  BY DEF Still, RowsAgree, Backgrounded
<1>4. Reserved(q)'
  <2> SUFFICES ASSUME Owning(q)', NEW o \in Ordinals, attempts'[q][o].provider # None
               PROVE  reservations'[Policy[o]][attempts'[q][o].provider] = q
    BY DEF Reserved
  <2>1. Owning(q) /\ attempts[q][o] \in AttemptRow /\ attempts'[q][o] = attempts[q][o]
    BY Rows DEF Still, Owning
  <2>2. attempts[q][o].provider \in Providers
    BY <2>1 DEF AttemptRow
  <2>3. reservations[Policy[o]][attempts[q][o].provider] = q
    BY <2>1 DEF RowsAgree, Reserved
  <2> QED
    BY <2>1, <2>2, <2>3, OrdinalIsBackend DEF Still, Untaken
<1> QED
  BY <1>1, <1>2, <1>3, <1>4 DEF RowsAgree

LEMMA StillLives ==
    ASSUME TypeOK, TypeOK', NEW q \in Requests, RowsAgree(q), Still(q)
    PROVE  Life(q) /\ RowsAgree(q)'
BY StillAgrees DEF Life

\* A step that leaves every request but r alone is settled by what it does to r.
LEMMA OneLives ==
    ASSUME TypeOK, TypeOK', \A q \in Requests : RowsAgree(q), NEW r \in Requests,
           Life(r) /\ RowsAgree(r)', \A q \in Requests \ {r} : Still(q)
    PROVE  Lives
BY StillLives DEF Lives

-----------------------------------------------------------------------------
(* What the invariant says                                                 *)

\* A claimable row is the row of a missed search, and only of one.
LEMMA InvClaimable == IInv => QueuedRetryClaimable
<1> SUFFICES ASSUME IInv, NEW r \in Requests, retries[r].state = "queued"
             PROVE  ClaimableRows(r)
  BY DEF QueuedRetryClaimable
<1>1. Missed(r) /\ RetryIdentity(r)
  BY DEF IInv, Sound, RowsAgree, Situated, Fresh, Seeking, Asking, Crossed, Doubtful, Accepted,
     Imported, Lost, ImportedLate
<1> QED
  BY <1>1 DEF Missed, Unsubmitted, RetryIdentity, ClaimableRows

LEMMA InvAccepted == IInv => RunnerAccepted
<1> SUFFICES ASSUME IInv, NEW r \in Requests
             PROVE  /\ runner[r].pc = "begin" => MayBegin(r)
                    /\ runner[r].pc \in {"searching", "resolved"} => Searching(r)
                    /\ runner[r].pc = "resolved" => MayLock(r)
                    /\ runner[r].pc \in {"select", "collided", "forced"} => MayTerminalize(r)
                    /\ runner[r].pc \in {"locked", "posted"} =>
                         /\ HandoffBoundary(r)
                         /\ cascades[r].mutation = Current(r)
                         /\ requests[r].status = "processing"
                         /\ ~requests[r].external
  BY DEF RunnerAccepted
<1>s. RowsAgree(r) /\ Situated(r) /\ Reserved(r) /\ TypeOK
  BY DEF IInv, Sound, RowsAgree
<1>1. runner[r].pc \notin {"idle", "finish"} => Seeking(r) \/ Crossed(r)
  BY <1>s DEF Situated, Fresh, Asking, Missed, Doubtful, Accepted, Imported, Lost, ImportedLate,
     HandedOff, Waits
<1>2. CASE Seeking(r)
  <2>1. /\ runner[r].pc = "begin" => MayBegin(r)
        /\ runner[r].pc \in {"searching", "resolved"} => Searching(r)
        /\ runner[r].pc \in {"select", "collided", "forced"} => MayTerminalize(r)
        /\ runner[r].pc \notin {"locked", "posted"}
    BY <1>2 DEF Seeking, Unsubmitted, MayBegin, Searching, MayTerminalize
  <2>2. runner[r].pc = "resolved" => MayLock(r)
    <3> SUFFICES ASSUME runner[r].pc = "resolved" PROVE MayLock(r)
      OBVIOUS
    <3>1. cascades[r].identity # None /\ CurrentAttempt(r).provider # None /\ Owning(r)
      BY <1>2 DEF Seeking, Owning, OwningCascade
    <3>2. reservations[Current(r)][CurrentAttempt(r).provider] = r
      BY <1>s, <3>1, Rows DEF Reserved, CurrentAttempt, Current
    <3> QED
      BY <2>1, <3>1, <3>2 DEF MayLock
  <2> QED
    BY <2>1, <2>2
<1>3. CASE Crossed(r)
  <2>1. /\ runner[r].pc \in {"locked", "posted", "idle", "finish"}
        /\ cascades[r].mutation = Current(r) /\ HandoffBoundary(r)
        /\ requests[r].status = "processing" /\ ~requests[r].external
    BY <1>3 DEF Crossed, Bound, Waits, HandoffBoundary
  <2> QED
    BY <2>1
<1>4. CASE runner[r].pc \in {"idle", "finish"}
  BY <1>4
<1> QED
  BY <1>1, <1>2, <1>3, <1>4

LEMMA InvHistory == IInv => HistoryConsistent
<1> SUFFICES ASSUME IInv, NEW r \in Requests
             PROVE  /\ Reserved(r)
                    /\ retries[r].state = "fulfilled" =>
                         /\ requests[r].status = "completed"
                         /\ cascades[r].state = "completed"
                         /\ cascades[r].final = Current(r)
                         /\ remote[r] = "completed"
                    /\ retries[r].state = "awaiting_import" => requests[r].status = "queued"
                    /\ retries[r].state = "blocked" =>
                         requests[r].status = "failed" /\ ExactBlockedOwner(r)
                    /\ retries[r].state = "expired" =>
                         requests[r].status = "failed" /\ cascades[r].mutation = None
  BY DEF HistoryConsistent, ReservationsHeld, FulfilledProved, RetryMatchesCascade, Reserved, Owning
<1>s. Situated(r) /\ Reserved(r) /\ TypeOK
  BY DEF IInv, Sound, RowsAgree
<1>1. CASE Fresh(r) \/ Seeking(r) \/ Asking(r) \/ Crossed(r)
  BY <1>s, <1>1 DEF Fresh, Seeking, Asking, Crossed
<1>2. CASE Missed(r)
  BY <1>s, <1>2 DEF Missed, Unsubmitted
<1>3. CASE Doubtful(r) \/ Accepted(r) \/ ImportedLate(r)
  BY <1>s, <1>3 DEF Doubtful, Accepted, ImportedLate
<1>4. CASE Imported(r)
  BY <1>s, <1>4 DEF Imported, HandedOff, Bound
<1>5. CASE Lost(r)
  <2>1. Coalesce(cascades[r].final, cascades[r].mutation) = Current(r)
    BY <1>5 DEF Lost, HandedOff, Bound, Coalesce
  <2> QED
    BY <1>s, <1>5, <2>1 DEF Lost, HandedOff, Bound, ExactBlockedOwner
<1> QED
  BY <1>s, <1>1, <1>2, <1>3, <1>4, <1>5 DEF Situated

LEMMA InvOneOwner == IInv => OneOwnerPerWork
<1> SUFFICES ASSUME IInv, NEW r \in Requests, NEW q \in Requests, NEW w \in Works,
                    OwnsWork(r, w), OwnsWork(q, w)
             PROVE  r = q
  BY DEF OneOwnerPerWork
<1>1. \A p \in {r, q} : Claimed(p) /\ cascades[p].identity = w
  BY DEF IInv, Sound, RowsAgree, RetryIdentity, OwnsWork, Claimed, OwningRetry
<1> QED
  BY <1>1, NoneIsNothing DEF IInv, Sound, Sole

-----------------------------------------------------------------------------
(* Helpers of the step lemmas                                              *)

\* The situation of a request, from what the guards of the actions read.
LEMMA Where ==
    ASSUME IInv, NEW r \in Requests
    PROVE  /\ requests[r].status = "absent" => Fresh(r)
           /\ requests[r].status = "processing" =>
                IF cascades[r].mutation = None THEN Seeking(r) ELSE Crossed(r)
           /\ requests[r].status = "awaiting_selection" => Asking(r)
           /\ confirmations[r].state = "pending" => Asking(r)
           /\ requests[r].status = "queued" => Doubtful(r) \/ Accepted(r)
           /\ requests[r].status = "queued" /\ requests[r].external => Accepted(r)
           /\ retries[r].state = "queued" => Missed(r)
           /\ retries[r].state = "blocked" => Lost(r)
           /\ cascades[r].state = "uncertain" => Doubtful(r)
           /\ cascades[r].state = "mutating" => Crossed(r)
           /\ runner[r].pc \notin {"idle", "finish"} => requests[r].status = "processing"
<1>s. Situated(r) /\ RetryIdentity(r)
  BY DEF IInv, Sound, RowsAgree
<1>1. CASE Fresh(r)
  BY <1>1 DEF Fresh
<1>2. CASE Seeking(r)
  BY <1>2 DEF Seeking, Unsubmitted, SearchSafe
<1>3. CASE Asking(r)
  BY <1>3 DEF Asking
<1>4. CASE Missed(r)
  BY <1>4 DEF Missed, Waits
<1>5. CASE Crossed(r)
  BY <1>5 DEF Crossed, Bound
<1>6. CASE Doubtful(r)
  BY <1>6 DEF Doubtful, Bound, Waits
<1>7. CASE Accepted(r)
  BY <1>7 DEF Accepted, HandedOff, Bound, Waits
<1>8. CASE Imported(r) \/ Lost(r) \/ ImportedLate(r)
  BY <1>8 DEF Imported, Lost, ImportedLate, HandedOff, Bound, Waits
<1> QED
  BY <1>s, <1>1, <1>2, <1>3, <1>4, <1>5, <1>6, <1>7, <1>8 DEF Situated

SameProviders(r) ==
    \A o \in Ordinals : attempts'[r][o].provider = attempts[r][o].provider

LEMMA StatusChange ==
    ASSUME TypeOK, NEW r \in Requests, NEW s,
           attempts' = [attempts EXCEPT ![r][cascades[r].ordinal].status = s]
    PROVE  /\ attempts'[r][cascades[r].ordinal] = [CurrentAttempt(r) EXCEPT !.status = s]
           /\ attempts'[r][cascades[r].ordinal].status = s
           /\ attempts'[r][cascades[r].ordinal].provider = CurrentAttempt(r).provider
           /\ attempts'[r][cascades[r].ordinal].external = CurrentAttempt(r).external
           /\ \A o \in Ordinals \ {cascades[r].ordinal} : attempts'[r][o] = attempts[r][o]
           /\ \A q \in Requests \ {r} : attempts'[q] = attempts[q]
           /\ SameProviders(r)
<1>1. /\ attempts \in [Requests -> [Ordinals -> AttemptRow]]
      /\ cascades[r].ordinal \in Ordinals /\ CurrentAttempt(r) \in AttemptRow
  BY Rows DEF TypeOK
<1>2. attempts'[r][cascades[r].ordinal] = [CurrentAttempt(r) EXCEPT !.status = s]
  BY <1>1 DEF CurrentAttempt
<1>3. /\ \A o \in Ordinals \ {cascades[r].ordinal} : attempts'[r][o] = attempts[r][o]
      /\ \A q \in Requests \ {r} : attempts'[q] = attempts[q]
  BY <1>1
<1>4. /\ [CurrentAttempt(r) EXCEPT !.status = s].status = s
      /\ [CurrentAttempt(r) EXCEPT !.status = s].provider = CurrentAttempt(r).provider
      /\ [CurrentAttempt(r) EXCEPT !.status = s].external = CurrentAttempt(r).external
  BY <1>1 DEF AttemptRow
<1>5. SameProviders(r)
  BY <1>1, <1>2, <1>3, <1>4 DEF SameProviders, CurrentAttempt
<1> QED
  BY <1>2, <1>3, <1>4, <1>5

LEMMA ReleaseUntaken ==
    ASSUME TypeOK, NEW r \in Requests, NEW s,
           reservations' = Release(r, s) \/ reservations' = reservations
    PROVE  \A q \in Requests \ {r} : Untaken(q)
BY DEF TypeOK, Release, Without, Untaken

LEMMA ReservedKept ==
    ASSUME NEW r \in Requests, Reserved(r), Owning(r)', Owning(r),
           reservations' = reservations, SameProviders(r)
    PROVE  Reserved(r)'
BY DEF Reserved, SameProviders

LEMMA ReturnEnds ==
    ASSUME TypeOK, NEW r \in Requests, Return(r)
    PROVE  /\ Waits(r)' /\ Backgrounded(r)'
           /\ \A q \in Requests \ {r} : runner'[q] = runner[q]
<1>1. runner \in [Requests -> RunnerRow]
  BY DEF TypeOK
<1>2. runner'[r] = IF runner[r].background
                   THEN [runner[r] EXCEPT !.pc = "finish", !.owner = None] ELSE IdleRunner
  BY <1>1 DEF Return
<1>3. CASE runner[r].background
  <2>1. runner'[r].pc = "finish" /\ runner'[r].background
    BY <1>1, <1>2, <1>3 DEF RunnerRow
  <2> QED
    BY <1>1, <2>1 DEF Return, Waits, Backgrounded
<1>4. CASE ~runner[r].background
  BY <1>1, <1>2, <1>4 DEF Return, Waits, Backgrounded, IdleRunner
<1> QED
  BY <1>3, <1>4

LEMMA GotoMoves ==
    ASSUME TypeOK, NEW r \in Requests, NEW pc, Goto(r, pc)
    PROVE  /\ runner'[r].pc = pc /\ runner'[r].background = runner[r].background
           /\ \A q \in Requests \ {r} : runner'[q] = runner[q]
BY DEF TypeOK, RunnerRow, Goto

-----------------------------------------------------------------------------
(* Intake, search and the outcomes before the boundary                     *)

LEMMA IntakeLives ==
    ASSUME IInv, TypeOK', NEW r \in Requests, Intake(r) PROVE Lives
<1>t. TypeOK /\ Fresh(r) /\ RowsAgree(r) /\ CurrentAttempt(r)' = CurrentAttempt(r)
  BY Where, Rows DEF IInv, Sound, Intake, CurrentAttempt, TypeOK, CascadeRow
<1>1. /\ requests'[r] = [requests[r] EXCEPT !.status = "processing"]
      /\ cascades'[r] = [cascades[r] EXCEPT !.state = "searching"]
      /\ runner'[r].pc = "begin"
  BY <1>t DEF Intake, TypeOK, IdleRunner
<1>2. /\ requests'[r].status = "processing" /\ requests'[r].external = requests[r].external
      /\ requests'[r].startup = requests[r].startup
      /\ cascades'[r].state = "searching" /\ cascades'[r].identity = cascades[r].identity
      /\ cascades'[r].mutation = cascades[r].mutation /\ cascades'[r].final = cascades[r].final
      /\ cascades'[r].ordinal = cascades[r].ordinal
  BY <1>t, <1>1, Rows DEF RequestRow, CascadeRow
<1>3. Seeking(r)'
  BY <1>t, <1>1, <1>2 DEF Intake, Fresh, Seeking, Unsubmitted, Ahead, SearchSafe
<1>4. RowsAgree(r)'
  BY <1>t, <1>1, <1>2, <1>3 DEF Intake, Fresh, RowsAgree, Situated, RetryIdentity, Backgrounded,
     Reserved
<1>5. Life(r)
  BY <1>t, <1>2, <1>3 DEF Intake, Life, Opens, Keeps, SameRetry, world
<1>6. \A q \in Requests \ {r} : Still(q)
  BY <1>t DEF Intake, Still, Untaken, world, TypeOK
<1> QED
  BY <1>t, <1>4, <1>5, <1>6, OneLives DEF IInv, Sound

LEMMA TerminalizeLives ==
    ASSUME IInv, TypeOK', NEW r \in Requests, Seeking(r), NEW status \in {"needs_selection", "failed"},
           Terminalize(r, status), UNCHANGED <<posts, remote>>
    PROVE  Lives
<1>t. TypeOK /\ RowsAgree(r)
  BY DEF IInv, Sound
<1>1. /\ requests'[r].status = status /\ requests'[r].external = requests[r].external
      /\ requests'[r].startup = requests[r].startup
      /\ cascades'[r].state = "failed" /\ cascades'[r].identity = cascades[r].identity
      /\ cascades'[r].mutation = cascades[r].mutation /\ cascades'[r].final = cascades[r].final
      /\ cascades'[r].ordinal = cascades[r].ordinal
  BY <1>t, Rows DEF Terminalize, FailCascade, TypeOK, RequestRow, CascadeRow
<1>2. SameProviders(r) /\ \A q \in Requests \ {r} : attempts'[q] = attempts[q]
  BY <1>t, StatusChange DEF Terminalize
<1>3. Waits(r)' /\ Backgrounded(r)' /\ \A q \in Requests \ {r} : runner'[q] = runner[q]
  BY <1>t, ReturnEnds DEF Terminalize
<1>4. Missed(r)'
  BY <1>1, <1>3 DEF Terminalize, Seeking, Missed, Unsubmitted
<1>5. Reserved(r)'
  <2>1. CASE Owning(r)'
    <3>1. retries[r].state \in RetainingRetry
      BY <1>1, <2>1 DEF Owning, Terminalize, OwningCascade
    <3>2. reservations' = reservations /\ Owning(r)
      BY <3>1 DEF Terminalize, Release, Owning
    <3> QED
      BY <1>t, <1>2, <2>1, <3>2, ReservedKept DEF RowsAgree
  <2> QED
    BY <2>1 DEF Reserved
<1>6. RowsAgree(r)'
  BY <1>t, <1>1, <1>3, <1>4, <1>5 DEF RowsAgree, Situated, RetryIdentity, Terminalize
<1>7. Life(r)
  BY <1>1, <1>4 DEF Terminalize, Life, Misses, Keeps, Seeking, SearchSafe
<1>8. \A q \in Requests \ {r} : Untaken(q)
  BY <1>t, ReleaseUntaken DEF Terminalize
<1>9. \A q \in Requests \ {r} : Still(q)
  BY <1>t, <1>2, <1>3, <1>8 DEF Terminalize, Still, TypeOK
<1> QED
  BY <1>t, <1>6, <1>7, <1>9, OneLives DEF IInv, Sound

\* The two columns an outcome writes leave the provider of every attempt alone.
LEMMA OutcomeChange ==
    ASSUME TypeOK, NEW r \in Requests, NEW s, NEW n,
           \/ attempts' = [attempts EXCEPT ![r][cascades[r].ordinal].status = s,
                                           ![r][cascades[r].ordinal].notFound = n]
           \/ attempts' = [attempts EXCEPT ![r] =
                [attempts[r] EXCEPT ![cascades[r].ordinal].status = s,
                                    ![cascades[r].ordinal].notFound = n]]
    PROVE  /\ \A o \in Ordinals \ {cascades[r].ordinal} : attempts'[r][o] = attempts[r][o]
           /\ \A q \in Requests \ {r} : attempts'[q] = attempts[q]
           /\ SameProviders(r)
<1> DEFINE o == cascades[r].ordinal
           a == [attempts[r][o] EXCEPT !.status = s, !.notFound = n]
<1>1. /\ attempts \in [Requests -> [Ordinals -> AttemptRow]]
      /\ o \in Ordinals /\ attempts[r][o] \in AttemptRow
  BY Rows DEF TypeOK
<1>2. attempts' = [attempts EXCEPT ![r] = [attempts[r] EXCEPT ![o] = a]]
  BY <1>1
<1>3. a.provider = attempts[r][o].provider
  BY <1>1 DEF AttemptRow
<1>4. attempts'[r] = [attempts[r] EXCEPT ![o] = a]
  BY <1>1, <1>2
<1> HIDE DEF a
<1>5. /\ attempts'[r][o] = a
      /\ \A p \in Ordinals \ {o} : attempts'[r][p] = attempts[r][p]
  BY <1>1, <1>4
<1>6. SameProviders(r)
  BY <1>3, <1>5 DEF SameProviders
<1> QED
  BY <1>1, <1>2, <1>5, <1>6

LEMMA AdvanceToNextLives ==
    ASSUME IInv, TypeOK', NEW r \in Requests, Seeking(r), NEW outcome, NEW notFound,
           AdvanceToNext(r, outcome, notFound)
    PROVE  Lives
<1>t. TypeOK /\ RowsAgree(r)
  BY DEF IInv, Sound
<1>1. /\ cascades'[r].state = cascades[r].state /\ cascades'[r].identity = cascades[r].identity
      /\ cascades'[r].mutation = cascades[r].mutation /\ cascades'[r].final = cascades[r].final
      /\ cascades'[r].ordinal = cascades[r].ordinal + 1
      /\ cascades'[r].ordinal \in Ordinals /\ cascades[r].ordinal \in Ordinals
      /\ cascades[r].ordinal \in Int
  BY <1>t, Rows DEF AdvanceToNext, TypeOK, CascadeRow, Ordinals
<1>2. /\ SameProviders(r) /\ \A q \in Requests \ {r} : attempts'[q] = attempts[q]
      /\ \A o \in Ordinals \ {cascades[r].ordinal} : attempts'[r][o] = attempts[r][o]
  BY <1>t, OutcomeChange DEF AdvanceToNext
<1>3. runner'[r].pc = "begin" /\ \A q \in Requests \ {r} : runner'[q] = runner[q]
  BY <1>t, GotoMoves DEF AdvanceToNext
<1>4. \A o \in Ordinals : o > cascades[r].ordinal => attempts'[r][o].status = "pending"
  BY <1>1, <1>2 DEF Seeking, Ahead, Ordinals
<1>5. CurrentAttempt(r)'.status = "pending" /\ Ahead(r)'
  <2>1. CurrentAttempt(r)' = attempts'[r][cascades'[r].ordinal]
    BY DEF CurrentAttempt
  <2>2. \A o \in Ordinals : o > cascades[r].ordinal + 1 => o > cascades[r].ordinal
    BY <1>1 DEF Ordinals
  <2>3. cascades[r].ordinal + 1 > cascades[r].ordinal
    BY <1>1
  <2> QED
    BY <1>1, <1>4, <2>1, <2>2, <2>3 DEF Ahead
<1>6. CurrentAttempt(r).status = "searching" /\ cascades[r].state = "searching"
  BY DEF AdvanceToNext, Searching
<1>7. Seeking(r)'
  BY <1>1, <1>3, <1>5, <1>6 DEF AdvanceToNext, Seeking, Unsubmitted
<1>8. Reserved(r)'
  BY <1>t, <1>1, <1>2, <1>6, ReservedKept DEF AdvanceToNext, RowsAgree, Owning, OwningCascade
<1>9. RowsAgree(r)'
  BY <1>t, <1>1, <1>3, <1>7, <1>8 DEF AdvanceToNext, RowsAgree, Situated, RetryIdentity, Backgrounded
<1>10. Life(r)
  BY <1>1, <1>7 DEF AdvanceToNext, Life, Searches, Keeps, SameRetry, world
<1>11. \A q \in Requests \ {r} : Still(q)
  BY <1>t, <1>2, <1>3 DEF AdvanceToNext, Still, Untaken, world, TypeOK
<1> QED
  BY <1>t, <1>9, <1>10, <1>11, OneLives DEF IInv, Sound

LEMMA RetryMissedFields ==
    ASSUME NEW x \in RetryRow
    PROVE  /\ RetryMissed(x).state \in {"queued", "expired"}
           /\ RetryMissed(x).state = "queued" => x.count < RetryLimit
           /\ RetryMissed(x).count = x.count /\ RetryMissed(x).identity = x.identity
BY BoundsAssumption DEF RetryMissed, RetryRow

LEMMA ExhaustLives ==
    ASSUME IInv, TypeOK', NEW r \in Requests, Seeking(r), NEW outcome, NEW notFound,
           Exhaust(r, outcome, notFound)
    PROVE  Lives
<1>t. TypeOK /\ RowsAgree(r) /\ retries[r] \in RetryRow
  BY Rows DEF IInv, Sound
<1>1. /\ requests'[r].status = "failed" /\ requests'[r].external = FALSE
      /\ requests'[r].startup = requests[r].startup
      /\ cascades'[r].state = "failed" /\ cascades'[r].identity = cascades[r].identity
      /\ cascades'[r].mutation = cascades[r].mutation /\ cascades'[r].final = cascades[r].final
      /\ cascades'[r].ordinal = cascades[r].ordinal
  <2>1. /\ requests' = [requests EXCEPT ![r].status = "failed", ![r].external = FALSE]
        /\ cascades' = [cascades EXCEPT ![r] = FailCascade(@)]
    BY DEF Exhaust
  <2> QED
    BY <1>t, <2>1, Rows DEF FailCascade, TypeOK, RequestRow, CascadeRow
<1>2. SameProviders(r) /\ \A q \in Requests \ {r} : attempts'[q] = attempts[q]
  BY <1>t, OutcomeChange DEF Exhaust
<1>3. Waits(r)' /\ Backgrounded(r)' /\ \A q \in Requests \ {r} : runner'[q] = runner[q]
  BY <1>t, ReturnEnds DEF Exhaust
<1>4. cascades[r].state = "searching" /\ Owning(r) /\ posts' = posts /\ remote' = remote
  BY DEF Exhaust, Searching, Owning, OwningCascade, world
<1>5. /\ retries'[r].state \in {"none", "queued", "expired"}
      /\ retries'[r].count = retries[r].count
      /\ retries'[r].state = "queued" => retries'[r].count < RetryLimit
      /\ RetryIdentity(r)'
      /\ reservations' = Release(r, retries'[r].state)
      /\ \A q \in Requests \ {r} : retries'[q] = retries[q]
  <2>1. PICK x : /\ retries' = [retries EXCEPT ![r] = x]
                 /\ reservations' = Release(r, x.state)
                 /\ \/ retries[r].state = "retrying" /\ x = RetryMissed(retries[r])
                    \/ /\ retries[r].state = "none" /\ cascades[r].identity # None
                       /\ x = [state |-> "queued", count |-> 0,
                               identity |-> cascades[r].identity, due |-> FALSE]
                    \/ retries[r].state # "retrying" /\ x = retries[r]
    BY DEF Exhaust
  <2>2. retries'[r] = x /\ \A q \in Requests \ {r} : retries'[q] = retries[q]
    BY <1>t, <2>1 DEF TypeOK
  <2>3. CASE retries[r].state = "retrying" /\ x = RetryMissed(retries[r])
    BY <1>t, <1>1, <2>1, <2>2, <2>3, RetryMissedFields DEF RowsAgree, RetryIdentity
  <2>4. CASE /\ retries[r].state = "none" /\ cascades[r].identity # None
             /\ x = [state |-> "queued", count |-> 0,
                     identity |-> cascades[r].identity, due |-> FALSE]
    BY <1>t, <1>1, <2>1, <2>2, <2>4, BoundsAssumption DEF RowsAgree, RetryIdentity
  <2>5. CASE retries[r].state # "retrying" /\ x = retries[r]
    BY <1>t, <1>1, <2>1, <2>2, <2>5 DEF RowsAgree, RetryIdentity, Seeking
  <2> QED
    BY <2>1, <2>3, <2>4, <2>5
<1>6. Missed(r)'
  BY <1>1, <1>3, <1>5 DEF Exhaust, Seeking, Missed, Unsubmitted
<1>7. Reserved(r)'
  <2>1. CASE Owning(r)'
    <3>1. retries'[r].state \in RetainingRetry
      BY <1>1, <2>1 DEF Owning, OwningCascade
    <3>2. reservations' = reservations
      BY <1>5, <3>1 DEF Release
    <3> QED
      BY <1>t, <1>2, <1>4, <2>1, <3>2, ReservedKept DEF RowsAgree
  <2> QED
    BY <2>1 DEF Reserved
<1>8. RowsAgree(r)'
  BY <1>3, <1>5, <1>6, <1>7 DEF RowsAgree, Situated
<1>9. Life(r)
  BY <1>1, <1>4, <1>5, <1>6 DEF Life, Misses, Keeps
<1>10. \A q \in Requests \ {r} : Untaken(q)
  BY <1>t, <1>5, ReleaseUntaken
<1>11. \A q \in Requests \ {r} : Still(q)
  BY <1>t, <1>2, <1>3, <1>4, <1>5, <1>10 DEF Exhaust, Still, TypeOK
<1> QED
  BY <1>t, <1>8, <1>9, <1>11, OneLives DEF IInv, Sound

LEMMA PromptLives ==
    ASSUME IInv, TypeOK', NEW r \in Requests, Prompt(r) PROVE Lives
<1>t. TypeOK /\ Seeking(r) /\ RowsAgree(r)
  BY Where DEF IInv, Sound, Prompt, Searching
<1>1. /\ requests'[r].status = "awaiting_selection"
      /\ requests'[r].external = requests[r].external
      /\ requests'[r].startup = requests[r].startup
      /\ cascades'[r].state = "awaiting_selection" /\ cascades'[r].identity = cascades[r].identity
      /\ cascades'[r].mutation = cascades[r].mutation /\ cascades'[r].final = cascades[r].final
      /\ cascades'[r].ordinal = cascades[r].ordinal
      /\ confirmations'[r].state = "pending" /\ runner'[r].pc = "idle"
  BY <1>t, Rows DEF Prompt, IdleRunner, TypeOK, RequestRow, CascadeRow
<1>2. /\ SameProviders(r) /\ \A q \in Requests \ {r} : attempts'[q] = attempts[q]
      /\ CurrentAttempt(r)'.status = "awaiting_selection"
      /\ \A o \in Ordinals \ {cascades[r].ordinal} : attempts'[r][o] = attempts[r][o]
  <2>1. CurrentAttempt(r)' = attempts'[r][cascades[r].ordinal]
    BY <1>1 DEF CurrentAttempt
  <2>2. attempts' = [attempts EXCEPT
          ![r][cascades[r].ordinal].status = "awaiting_selection"]
    BY DEF Prompt
  <2>3. /\ SameProviders(r) /\ \A q \in Requests \ {r} : attempts'[q] = attempts[q]
        /\ \A o \in Ordinals \ {cascades[r].ordinal} : attempts'[r][o] = attempts[r][o]
    BY <1>t, <2>2, StatusChange
  <2>4. attempts'[r][cascades[r].ordinal].status = "awaiting_selection"
    BY <1>t, <2>2, StatusChange
  <2> QED
    BY <2>1, <2>3, <2>4
<1>3. cascades[r].state = "searching" /\ cascades[r].identity = None /\ retries' = retries
  BY DEF Prompt, Searching
<1>4. Ahead(r)'
  BY <1>t, <1>1, <1>2, Rows DEF Seeking, Ahead, Ordinals
<1>5. Asking(r)'
  BY <1>t, <1>1, <1>2, <1>3, <1>4 DEF Seeking, Asking, Unsubmitted, RowsAgree, RetryIdentity
<1>6. Reserved(r)'
  BY <1>t, <1>1, <1>2, <1>3, ReservedKept DEF Prompt, RowsAgree, Owning, OwningCascade
<1>7. RowsAgree(r)'
  BY <1>t, <1>1, <1>3, <1>5, <1>6 DEF RowsAgree, Situated, RetryIdentity, Backgrounded
<1>8. Life(r)
  BY <1>t, <1>1, <1>3, <1>5 DEF Prompt, Life, Asks, Keeps, SameRetry, world
<1>9. \A q \in Requests \ {r} : Still(q)
  BY <1>t, <1>2 DEF Prompt, Still, Untaken, world, TypeOK
<1> QED
  BY <1>t, <1>7, <1>8, <1>9, OneLives DEF IInv, Sound

\* A place of the runner that a search may be at, its rows being the same.
LEMMA SearchGoesOn ==
    ASSUME IInv, TypeOK', NEW r \in Requests, Seeking(r), NEW pc,
           runner'[r].pc = pc, runner'[r].background = runner[r].background,
           \A q \in Requests \ {r} : runner'[q] = runner[q],
           UNCHANGED <<requests, cascades, attempts, reservations, confirmations, posts, remote>>,
           \A q \in Requests :
             /\ retries'[q].state = retries[q].state
             /\ retries'[q].count = retries[q].count
             /\ retries'[q].identity = retries[q].identity,
           \/ pc = "begin" /\ runner[r].pc = "ready"
           \/ pc \in {"collided", "forced"} /\ CurrentAttempt(r).status \in SearchSafe
    PROVE  Lives
<1>t. TypeOK /\ RowsAgree(r) /\ CurrentAttempt(r)' = CurrentAttempt(r)
  BY DEF IInv, Sound, CurrentAttempt
<1>1. Seeking(r)'
  BY <1>t DEF Seeking, Unsubmitted, Ahead
<1>2. RowsAgree(r)'
  BY <1>t, <1>1 DEF RowsAgree, Situated, RetryIdentity, Backgrounded, Reserved, Owning
<1>3. Life(r)
  BY <1>1 DEF Life, Searches, Keeps, SameRetry
<1>4. \A q \in Requests \ {r} : Still(q)
  BY DEF Still, Untaken
<1> QED
  BY <1>t, <1>2, <1>3, <1>4, OneLives DEF IInv, Sound

LEMMA CollideLives ==
    ASSUME IInv, TypeOK', NEW r \in Requests, Seeking(r), NEW owners, Collide(r, owners),
           CurrentAttempt(r).status \in SearchSafe
    PROVE  Lives
<1>1. PICK q \in owners : runner' = [runner EXCEPT ![r].pc = "collided", ![r].owner = q]
  BY DEF Collide
<1>2. /\ runner'[r].pc = "collided" /\ runner'[r].background = runner[r].background
      /\ \A p \in Requests \ {r} : runner'[p] = runner[p]
  BY <1>1 DEF IInv, TypeOK, RunnerRow
<1> QED
  BY <1>2, SearchGoesOn DEF Collide, stored, world

LEMMA RunNextLives ==
    ASSUME IInv, TypeOK', NEW r \in Requests, RunNext(r) PROVE Lives
<1>1. /\ runner'[r].pc = "begin" /\ runner'[r].background = runner[r].background
      /\ \A q \in Requests \ {r} : runner'[q] = runner[q]
  BY GotoMoves DEF RunNext, IInv
<1>2. Seeking(r)
  <2>1. runner[r].pc = "ready"
    BY DEF RunNext
  <2>2. requests[r].status = "processing" /\ ~Crossed(r)
    BY <2>1, Where DEF Crossed, Waits
  <2> QED
    BY <2>2, Where
<1> QED
  BY <1>1, <1>2, SearchGoesOn DEF RunNext, stored, world

LEMMA ForceOwnerLives ==
    ASSUME IInv, TypeOK', NEW r \in Requests, ForceOwner(r) PROVE Lives
<1>1. /\ runner'[r].pc = "forced" /\ runner'[r].background = runner[r].background
      /\ \A q \in Requests \ {r} : runner'[q] = runner[q]
  BY GotoMoves DEF ForceOwner, IInv
<1>2. \A q \in Requests : /\ retries'[q].state = retries[q].state
                          /\ retries'[q].count = retries[q].count
                          /\ retries'[q].identity = retries[q].identity
  BY DEF ForceOwner, IInv, TypeOK, RetryRow
<1>3. Seeking(r) /\ CurrentAttempt(r).status \in SearchSafe
  <2>1. runner[r].pc = "collided"
    BY DEF ForceOwner
  <2>2. requests[r].status = "processing" /\ ~Crossed(r)
    BY <2>1, Where DEF Crossed, Waits
  <2> QED
    BY <2>1, <2>2, Where DEF Seeking
<1> QED
  BY <1>1, <1>2, <1>3, SearchGoesOn DEF ForceOwner, world

\* Neither index knows the work: nobody owns it.
LEMMA NobodyOwns ==
    ASSUME IInv, NEW r \in Requests, NEW w \in Works, cascades[r].identity = None,
           WorkOwners(r, w) = {}
    PROVE  \A q \in Requests \ {r} : Claimed(q) => cascades[q].identity # w
<1>1. RetryOwners(r, w) = {} /\ CascadeOwners(r, w) = {}
  BY DEF WorkOwners
<1> SUFFICES ASSUME NEW q \in Requests \ {r}, Claimed(q), cascades[q].identity = w
             PROVE  FALSE
  OBVIOUS
<1>2. retries[q].state \in OwningRetry => retries[q].identity = w
  BY DEF IInv, Sound, RowsAgree, RetryIdentity, OwningRetry
<1> QED
  BY <1>1, <1>2 DEF Claimed, RetryOwners, CascadeOwners

LEMMA SelectLives ==
    ASSUME IInv, TypeOK', NEW r \in Requests, SelectIdentity(r) PROVE Lives
<1> DEFINE w == confirmations[r].selected
<1>t. TypeOK /\ RowsAgree(r) /\ runner[r].pc = "select"
  BY DEF IInv, Sound, SelectIdentity
<1>s. Seeking(r) /\ CurrentAttempt(r).status \in SearchSafe
  <2>1. requests[r].status = "processing" /\ ~Crossed(r)
    BY <1>t, Where DEF Crossed, Waits
  <2> QED
    BY <1>t, <2>1, Where DEF Seeking
<1>1. CASE Collide(r, WorkOwners(r, w))
  BY <1>1, <1>s, CollideLives
<1>2. CASE WorkOwners(r, w) = {} /\ ~Collide(r, WorkOwners(r, w))
  <2>w. w \in Works /\ cascades[r].identity = None
    BY <1>t, <1>s, Rows DEF Seeking, ConfirmationRow
  <2>a. /\ cascades' = [cascades EXCEPT ![r].identity = w] /\ Goto(r, "begin")
        /\ UNCHANGED <<requests, attempts, reservations, retries, confirmations, phase, world>>
    BY <1>2 DEF SelectIdentity
  <2>1. /\ cascades'[r].state = cascades[r].state /\ cascades'[r].identity = w
        /\ cascades'[r].mutation = cascades[r].mutation /\ cascades'[r].final = cascades[r].final
        /\ cascades'[r].ordinal = cascades[r].ordinal
        /\ \A q \in Requests \ {r} : cascades'[q] = cascades[q]
    BY <1>t, <2>a, Rows DEF TypeOK, CascadeRow
  <2>2. /\ runner'[r].pc = "begin" /\ \A q \in Requests \ {r} : runner'[q] = runner[q]
    BY <1>t, <2>a, GotoMoves
  <2>3. CurrentAttempt(r)' = CurrentAttempt(r)
    BY <2>a, <2>1 DEF CurrentAttempt
  <2>n. w # None
    BY <2>w, NoneIsNothing
  <2>4. Seeking(r)'
    BY <1>s, <2>a, <2>1, <2>2, <2>3, <2>n DEF Seeking, Unsubmitted, Ahead
  <2>5. retries[r].state = "none"
    BY <1>t, <2>w DEF RowsAgree, RetryIdentity
  <2>6. RowsAgree(r)'
    BY <1>t, <2>a, <2>1, <2>2, <2>4, <2>5 DEF RowsAgree, Situated, RetryIdentity, Backgrounded,
       Reserved, Owning
  <2>7. \A q \in Requests \ {r} : Claimed(q) => cascades[q].identity # w
    BY <1>2, <2>w, NobodyOwns
  <2>8. Life(r)
    BY <1>s, <2>a, <2>1, <2>4, <2>w, <2>7 DEF Life, Claims, SameRetry, world
  <2>9. \A q \in Requests \ {r} : Still(q)
    BY <2>a, <2>1, <2>2 DEF Still, Untaken, world
  <2> QED
    BY <1>t, <2>6, <2>8, <2>9, OneLives DEF IInv, Sound
<1> QED
  BY <1>1, <1>2 DEF SelectIdentity

LEMMA BeginLives ==
    ASSUME IInv, TypeOK', NEW r \in Requests, BeginAttempt(r) PROVE Lives
<1>t. TypeOK /\ Seeking(r) /\ RowsAgree(r) /\ runner[r].pc = "begin"
  BY Where DEF IInv, Sound, BeginAttempt, MayBegin
<1>1. /\ cascades'[r].state = "searching" /\ cascades'[r].identity = cascades[r].identity
      /\ cascades'[r].mutation = cascades[r].mutation /\ cascades'[r].final = cascades[r].final
      /\ cascades'[r].ordinal = cascades[r].ordinal
      /\ \A q \in Requests \ {r} : cascades'[q] = cascades[q]
  BY <1>t, Rows DEF BeginAttempt, TypeOK, CascadeRow
<1>2. runner'[r].pc = "searching" /\ \A q \in Requests \ {r} : runner'[q] = runner[q]
  BY <1>t, GotoMoves DEF BeginAttempt
<1>a. attempts' = [attempts EXCEPT ![r][cascades[r].ordinal].status = "searching"]
  BY DEF BeginAttempt
<1>3. /\ SameProviders(r) /\ \A q \in Requests \ {r} : attempts'[q] = attempts[q]
      /\ \A o \in Ordinals \ {cascades[r].ordinal} : attempts'[r][o] = attempts[r][o]
  BY <1>t, <1>a, StatusChange
<1>4. CurrentAttempt(r)'.status = "searching"
  <2>1. CurrentAttempt(r)' = attempts'[r][cascades[r].ordinal]
    BY <1>1 DEF CurrentAttempt
  <2>2. attempts'[r][cascades[r].ordinal].status = "searching"
    BY <1>t, <1>a, StatusChange
  <2> QED
    BY <2>1, <2>2
<1>5. Ahead(r)'
  BY <1>t, <1>1, <1>3, Rows DEF Seeking, Ahead, Ordinals
<1>6. Seeking(r)'
  BY <1>t, <1>1, <1>2, <1>4, <1>5 DEF BeginAttempt, Seeking, Unsubmitted, SearchSafe
<1>7. Reserved(r)'
  BY <1>t, <1>1, <1>3, ReservedKept DEF BeginAttempt, Seeking, RowsAgree, Owning, OwningCascade,
     SearchSafe
<1>8. RowsAgree(r)'
  BY <1>t, <1>1, <1>2, <1>6, <1>7 DEF BeginAttempt, RowsAgree, Situated, RetryIdentity, Backgrounded
<1>9. Life(r)
  BY <1>t, <1>1, <1>6 DEF BeginAttempt, Life, Searches, Keeps, SameRetry, world
<1>10. \A q \in Requests \ {r} : Still(q)
  BY <1>1, <1>2, <1>3 DEF BeginAttempt, Still, Untaken, world
<1> QED
  BY <1>t, <1>8, <1>9, <1>10, OneLives DEF IInv, Sound

LEMMA PolicyInjective ==
    ASSUME NEW i \in Ordinals, NEW j \in Ordinals, Policy[i] = Policy[j] PROVE i = j
BY PolicyAssumption

\* The identifiers of the work become r's: none of them was another request's,
\* and r keeps those of the backends it tried before.
LEMMA ReserveHolds ==
    ASSUME TypeOK, NEW r \in Requests, NEW w, NEW p \in Providers, NEW aliases \in SUBSET Providers,
           Reserved(r), Owning(r), IdentifierOwners(r, p, aliases) = {}, Reserve(r, w, p, aliases)
    PROVE  /\ Reserved(r)'
           /\ \A q \in Requests \ {r} : Untaken(q)
           /\ CurrentAttempt(r)' = [CurrentAttempt(r) EXCEPT !.provider = p]
           /\ \A o \in Ordinals \ {cascades[r].ordinal} : attempts'[r][o] = attempts[r][o]
           /\ \A q \in Requests \ {r} : attempts'[q] = attempts[q]
<1> DEFINE o == cascades[r].ordinal
           b == Current(r)
           taken == {p} \cup aliases
<1>t. /\ o \in Ordinals /\ b \in Backends /\ CurrentAttempt(r) \in AttemptRow
      /\ attempts \in [Requests -> [Ordinals -> AttemptRow]]
      /\ reservations \in [Backends -> [Providers -> Requests \cup {None}]]
      /\ b = Policy[o]
  BY Rows DEF TypeOK, Current
<1>1. cascades'[r].ordinal = o
  BY Rows DEF Reserve, TypeOK, CascadeRow
<1>2. /\ attempts'[r][o] = [CurrentAttempt(r) EXCEPT !.provider = p]
      /\ \A i \in Ordinals \ {o} : attempts'[r][i] = attempts[r][i]
      /\ \A q \in Requests \ {r} : attempts'[q] = attempts[q]
  BY <1>t DEF Reserve, CurrentAttempt
<1>3. /\ \A i \in taken : reservations'[b][i] = r
      /\ \A i \in Providers \ taken : reservations'[b][i] = reservations[b][i]
      /\ \A c \in Backends \ {b} : reservations'[c] = reservations[c]
  BY <1>t DEF Reserve
<1>4. \A i \in taken : reservations[b][i] \in {None, r}
  BY <1>t DEF IdentifierOwners
<1>5. ASSUME NEW q \in Requests \ {r} PROVE Untaken(q)
  <2> SUFFICES ASSUME NEW c \in Backends, NEW i \in Providers, reservations[c][i] = q
               PROVE  reservations'[c][i] = q
    BY DEF Untaken
  <2>1. c = b => i \notin taken
    BY <1>4, NoneIsNothing
  <2> QED
    BY <1>3, <2>1
<1>6. CurrentAttempt(r)' = [CurrentAttempt(r) EXCEPT !.provider = p]
  BY <1>1, <1>2 DEF CurrentAttempt
<1>7. ASSUME NEW i \in Ordinals, attempts'[r][i].provider # None
      PROVE  reservations'[Policy[i]][attempts'[r][i].provider] = r
  <2>1. CASE i = o
    <3>1. attempts'[r][i].provider = p
      BY <1>t, <1>2, <2>1 DEF AttemptRow
    <3> QED
      BY <1>t, <1>3, <2>1, <3>1
  <2>2. CASE i # o
    <3>1. attempts'[r][i] = attempts[r][i] /\ Policy[i] \in Backends \ {b}
      BY <1>t, <1>2, <2>2, PolicyInjective, OrdinalIsBackend
    <3>2. reservations[Policy[i]][attempts[r][i].provider] = r
      BY <1>7, <3>1 DEF Reserved
    <3> QED
      BY <1>3, <3>1, <3>2
  <2> QED
    BY <2>1, <2>2
<1>8. Reserved(r)'
  BY <1>7 DEF Reserved
<1> QED
  BY <1>2, <1>5, <1>6, <1>8

LEMMA ReserveLives ==
    ASSUME IInv, TypeOK', NEW r \in Requests, Seeking(r), Searching(r), NEW w \in Works,
           NEW p \in Providers, NEW aliases \in SUBSET Providers,
           cascades[r].identity = None => WorkOwners(r, w) = {},
           cascades[r].identity # None => w = cascades[r].identity,
           IdentifierOwners(r, p, aliases) = {}, Reserve(r, w, p, aliases)
    PROVE  Lives
<1>t. TypeOK /\ RowsAgree(r) /\ Reserved(r) /\ Owning(r)
  BY DEF IInv, Sound, RowsAgree, Searching, Owning, OwningCascade
<1>1. /\ cascades'[r].state = cascades[r].state /\ cascades'[r].identity = w
      /\ cascades'[r].mutation = cascades[r].mutation /\ cascades'[r].final = cascades[r].final
      /\ cascades'[r].ordinal = cascades[r].ordinal
      /\ \A q \in Requests \ {r} : cascades'[q] = cascades[q]
  BY <1>t, Rows DEF Reserve, TypeOK, CascadeRow
<1>2. /\ runner'[r].pc = "resolved" /\ \A q \in Requests \ {r} : runner'[q] = runner[q]
  BY <1>t, GotoMoves DEF Reserve
<1>3. /\ Reserved(r)' /\ CurrentAttempt(r)' = [CurrentAttempt(r) EXCEPT !.provider = p]
      /\ \A o \in Ordinals \ {cascades[r].ordinal} : attempts'[r][o] = attempts[r][o]
  BY <1>t, ReserveHolds
<1>o. \A q \in Requests \ {r} : Untaken(q) /\ attempts'[q] = attempts[q]
  BY <1>t, ReserveHolds
<1>4. /\ CurrentAttempt(r)'.status = CurrentAttempt(r).status
      /\ CurrentAttempt(r)'.provider = p
  BY <1>t, <1>3, Rows DEF AttemptRow
<1>5. Ahead(r)'
  BY <1>t, <1>1, <1>3, Rows DEF Seeking, Ahead, Ordinals
<1>n. w # None /\ p # None
  BY NoneIsNothing
<1>6. Seeking(r)'
  BY <1>1, <1>2, <1>4, <1>5, <1>n DEF Reserve, Searching, Seeking, Unsubmitted
<1>7. RetryIdentity(r)'
  BY <1>t, <1>1, <1>n DEF Reserve, RowsAgree, RetryIdentity
<1>8. RowsAgree(r)'
  BY <1>2, <1>3, <1>6, <1>7 DEF RowsAgree, Situated, Backgrounded
<1>9. Life(r)
  <2>1. CASE cascades[r].identity = None
    <3>1. \A q \in Requests \ {r} : Claimed(q) => cascades[q].identity # w
      BY <2>1, NobodyOwns
    <3> QED
      BY <1>1, <1>6, <2>1, <3>1 DEF Reserve, Life, Claims, SameRetry, world
  <2>2. CASE cascades[r].identity # None
    BY <1>1, <1>6, <2>2 DEF Reserve, Life, Searches, Keeps, SameRetry, world
  <2> QED
    BY <2>1, <2>2
<1>10. \A q \in Requests \ {r} : Still(q)
  BY <1>1, <1>2, <1>o DEF Reserve, Still, world
<1> QED
  BY <1>t, <1>8, <1>9, <1>10, OneLives DEF IInv, Sound

LEMMA ResolveLives ==
    ASSUME IInv, TypeOK', NEW r \in Requests, Resolve(r) PROVE Lives
<1>t. Seeking(r) /\ Searching(r) /\ TypeOK
  BY Where DEF Resolve, Searching, IInv
<1>1. PICK w \in Works, p \in Providers, aliases \in SUBSET Providers :
        \/ Collide(r, WorkOwners(r, Coalesce(cascades[r].identity, w)))
        \/ Terminalize(r, "failed") /\ UNCHANGED world
        \/ Collide(r, IdentifierOwners(r, p, aliases))
        \/ /\ WorkOwners(r, Coalesce(cascades[r].identity, w)) = {}
           /\ IdentifierOwners(r, p, aliases) = {}
           /\ Reserve(r, Coalesce(cascades[r].identity, w), p, aliases)
  BY DEF Resolve, Terminalize
<1>2. CASE \E owners : Collide(r, owners)
  BY <1>2, <1>t, CollideLives DEF Searching, SearchSafe
<1>3. CASE Terminalize(r, "failed") /\ UNCHANGED world
  BY <1>3, <1>t, TerminalizeLives DEF world
<1>4. CASE /\ WorkOwners(r, Coalesce(cascades[r].identity, w)) = {}
           /\ IdentifierOwners(r, p, aliases) = {}
           /\ Reserve(r, Coalesce(cascades[r].identity, w), p, aliases)
  <2>1. Coalesce(cascades[r].identity, w) \in Works
    BY <1>t, Rows DEF Coalesce, CascadeRow
  <2>2. cascades[r].identity # None => Coalesce(cascades[r].identity, w) = cascades[r].identity
    BY DEF Coalesce
  <2> QED
    BY <1>4, <1>t, <2>1, <2>2, ReserveLives
<1> QED
  BY <1>1, <1>2, <1>3, <1>4

LEMMA LockLives ==
    ASSUME IInv, TypeOK', NEW r \in Requests, Lock(r) PROVE Lives
<1>t. /\ TypeOK /\ Seeking(r) /\ RowsAgree(r) /\ Current(r) \in Backends
      /\ cascades[r].state = "searching" /\ cascades[r].identity # None
  BY Where, Rows DEF IInv, Sound, Lock, MayLock, Searching
<1>1. /\ cascades'[r].state = "mutating" /\ cascades'[r].identity = cascades[r].identity
      /\ cascades'[r].mutation = Current(r) /\ cascades'[r].final = cascades[r].final
      /\ cascades'[r].ordinal = cascades[r].ordinal
      /\ \A q \in Requests \ {r} : cascades'[q] = cascades[q]
  BY <1>t, Rows DEF Lock, CrossBoundary, TypeOK, CascadeRow
<1>2. runner'[r].pc = "locked" /\ \A q \in Requests \ {r} : runner'[q] = runner[q]
  BY <1>t, GotoMoves DEF Lock
<1>a. attempts' = [attempts EXCEPT ![r][cascades[r].ordinal].status = "mutating"]
  BY DEF Lock
<1>3. /\ SameProviders(r) /\ \A q \in Requests \ {r} : attempts'[q] = attempts[q]
  BY <1>t, <1>a, StatusChange
<1>4. CurrentAttempt(r)'.status = "mutating" /\ Current(r)' = Current(r)
  <2>1. CurrentAttempt(r)' = attempts'[r][cascades[r].ordinal] /\ Current(r)' = Current(r)
    BY <1>1 DEF CurrentAttempt, Current
  <2>2. attempts'[r][cascades[r].ordinal].status = "mutating"
    BY <1>t, <1>a, StatusChange
  <2> QED
    BY <2>1, <2>2
<1>5. Crossed(r)'
  BY <1>t, <1>1, <1>2, <1>4, NoneIsNothing DEF Lock, Seeking, Unsubmitted, Crossed, Bound
<1>6. Reserved(r)'
  BY <1>t, <1>1, <1>3, ReservedKept DEF Lock, RowsAgree, Owning, OwningCascade
<1>7. RowsAgree(r)'
  BY <1>t, <1>1, <1>2, <1>5, <1>6 DEF Lock, RowsAgree, Situated, RetryIdentity, Backgrounded
<1>8. Life(r)
  BY <1>t, <1>1, <1>5 DEF Lock, Life, Commits, Underway, Keeps, world
<1>9. \A q \in Requests \ {r} : Still(q)
  BY <1>1, <1>2, <1>3 DEF Lock, Still, Untaken, world
<1> QED
  BY <1>t, <1>7, <1>8, <1>9, OneLives DEF IInv, Sound

LEMMA SubmitLives ==
    ASSUME IInv, TypeOK', NEW r \in Requests, Submit(r) PROVE Lives
<1>p. runner[r].pc = "locked"
  BY DEF Submit
<1>t. TypeOK /\ Crossed(r) /\ RowsAgree(r)
  BY <1>p, Where DEF IInv, Sound, Seeking
<1>1. runner'[r].pc = "posted" /\ \A q \in Requests \ {r} : runner'[q] = runner[q]
  BY <1>t, GotoMoves DEF Submit
<1>2. posts[r] = 0 /\ posts'[r] = 1 /\ \A q \in Requests \ {r} : posts'[q] = posts[q]
  BY <1>p, <1>t DEF Submit, IInv, SubmissionInv, TypeOK
<1>3. remote[r] = "completed" => remote'[r] = "completed"
  BY <1>t DEF Submit, TypeOK
<1>4. \A q \in Requests \ {r} : remote'[q] = remote[q]
  BY <1>t DEF Submit, TypeOK
<1>5. CurrentAttempt(r)' = CurrentAttempt(r) /\ Current(r)' = Current(r) /\ UNCHANGED stored
  BY DEF Submit, stored, CurrentAttempt, Current
<1>6. Crossed(r)'
  BY <1>p, <1>t, <1>1, <1>5 DEF Crossed, Bound, Waits, stored
<1>7. RowsAgree(r)'
  BY <1>t, <1>1, <1>5, <1>6 DEF RowsAgree, Situated, RetryIdentity, Backgrounded, Reserved,
     Owning, stored
<1>8. Life(r)
  BY <1>t, <1>2, <1>3, <1>5, <1>6 DEF Life, Submits, MovesOn, SameRetry, stored
<1>9. \A q \in Requests \ {r} : Still(q)
  BY <1>1, <1>2, <1>4, <1>5 DEF Still, Untaken, stored
<1> QED
  BY <1>t, <1>7, <1>8, <1>9, OneLives DEF IInv, Sound

-----------------------------------------------------------------------------
(* What persist_ebook_result makes of a request                            *)

LEMMA RetryAfterFields ==
    ASSUME NEW x \in RetryRow, NEW result
    PROVE  /\ RetryAfter(x, result).count = x.count
           /\ RetryAfter(x, result).identity = x.identity
           /\ x.state = "none" <=> RetryAfter(x, result).state = "none"
           /\ x.state \in {"retrying", "awaiting_import"} =>
                /\ result = "failed" => RetryAfter(x, result).state = "blocked"
                /\ result = "completed" => RetryAfter(x, result).state = "fulfilled"
           /\ x.state = "retrying" /\ result \in {"queued", "uncertain"} =>
                RetryAfter(x, result).state = "awaiting_import"
BY DEF RetryAfter, RetryRow

Results == {"queued", "completed", "failed", "uncertain"}

LEMMA PersistFields ==
    ASSUME TypeOK, NEW r \in Requests, NEW result \in Results, PersistResult(r, result)
    PROVE  /\ requests'[r].status = IF result = "uncertain" THEN "queued" ELSE result
           /\ requests'[r].external = (result # "uncertain")
           /\ requests'[r].startup = requests[r].startup
           /\ cascades'[r].state = result /\ cascades'[r].identity = cascades[r].identity
           /\ cascades'[r].mutation = cascades[r].mutation
           /\ cascades'[r].ordinal = cascades[r].ordinal
           /\ cascades'[r].final = IF result \in {"queued", "completed"}
                THEN Coalesce(cascades[r].final, Current(r)) ELSE cascades[r].final
           /\ CurrentAttempt(r)'.status = result
           /\ CurrentAttempt(r)'.external = (result # "uncertain")
           /\ Current(r)' = Current(r) /\ SameProviders(r)
           /\ retries'[r] = RetryAfter(retries[r], result)
           /\ confirmations' = confirmations /\ phase' = phase
           /\ \A q \in Requests \ {r} :
                /\ requests'[q] = requests[q] /\ cascades'[q] = cascades[q]
                /\ attempts'[q] = attempts[q] /\ retries'[q] = retries[q] /\ Untaken(q)
<1> DEFINE o == cascades[r].ordinal
           ext == result # "uncertain"
           a == [CurrentAttempt(r) EXCEPT !.status = result, !.external = ext]
<1>t. /\ o \in Ordinals /\ CurrentAttempt(r) \in AttemptRow
      /\ attempts \in [Requests -> [Ordinals -> AttemptRow]]
  BY Rows DEF TypeOK
<1>1. /\ requests'[r].status = IF result = "uncertain" THEN "queued" ELSE result
      /\ requests'[r].external = ext /\ requests'[r].startup = requests[r].startup
      /\ \A q \in Requests \ {r} : requests'[q] = requests[q]
  BY Rows DEF PersistResult, TypeOK, RequestRow
<1>2. /\ cascades'[r].state = result /\ cascades'[r].identity = cascades[r].identity
      /\ cascades'[r].mutation = cascades[r].mutation
      /\ cascades'[r].ordinal = o
      /\ cascades'[r].final = IF result \in {"queued", "completed"}
                THEN Coalesce(cascades[r].final, Current(r)) ELSE cascades[r].final
      /\ \A q \in Requests \ {r} : cascades'[q] = cascades[q]
  BY Rows DEF PersistResult, TypeOK, CascadeRow
<1>3. attempts' = [attempts EXCEPT ![r] = [attempts[r] EXCEPT ![o] = a]]
  BY <1>t DEF PersistResult, CurrentAttempt
<1>4. a.status = result /\ a.external = ext /\ a.provider = CurrentAttempt(r).provider
  BY <1>t DEF AttemptRow
<1> HIDE DEF a
<1>5. attempts'[r] = [attempts[r] EXCEPT ![o] = a]
  BY <1>t, <1>3
<1>6. /\ attempts'[r][o] = a /\ \A i \in Ordinals \ {o} : attempts'[r][i] = attempts[r][i]
      /\ \A q \in Requests \ {r} : attempts'[q] = attempts[q]
  BY <1>t, <1>3, <1>5
<1>7. SameProviders(r)
  BY <1>4, <1>6 DEF SameProviders, CurrentAttempt
<1>8. CurrentAttempt(r)' = a /\ Current(r)' = Current(r)
  BY <1>2, <1>6 DEF CurrentAttempt, Current
<1>9. /\ retries'[r] = RetryAfter(retries[r], result)
      /\ \A q \in Requests \ {r} : retries'[q] = retries[q]
  BY DEF PersistResult, TypeOK
<1>10. \A q \in Requests \ {r} : Untaken(q)
  BY ReleaseUntaken DEF PersistResult
<1> QED
  BY <1>1, <1>2, <1>4, <1>6, <1>7, <1>8, <1>9, <1>10 DEF PersistResult

LEMMA PersistAgrees ==
    ASSUME IInv, TypeOK', NEW r \in Requests, NEW result \in Results, PersistResult(r, result),
           Waits(r)', Backgrounded(r)', UNCHANGED posts,
           result = "completed" => remote'[r] = "completed",
           Seeking(r) \/ Crossed(r) \/ Doubtful(r), cascades[r].identity # None
    PROVE  /\ RowsAgree(r)' /\ Keeps(r)
           /\ result = "uncertain" => Doubtful(r)'
           /\ result = "queued" => Accepted(r)'
           /\ result = "completed" => Imported(r)'
           /\ result = "failed" => Lost(r)'
           /\ Doubtful(r) => result = "failed"
           /\ Seeking(r) => result # "failed" /\ cascades[r].state = "searching"
<1>t. TypeOK /\ RowsAgree(r) /\ Reserved(r) /\ retries[r] \in RetryRow /\ Current(r) \in Backends
  BY Rows DEF IInv, Sound, RowsAgree
<1>f. /\ requests'[r].status = IF result = "uncertain" THEN "queued" ELSE result
      /\ requests'[r].external = (result # "uncertain")
      /\ cascades'[r].state = result /\ cascades'[r].identity = cascades[r].identity
      /\ cascades'[r].mutation = cascades[r].mutation
      /\ cascades'[r].final = IF result \in {"queued", "completed"}
                THEN Coalesce(cascades[r].final, Current(r)) ELSE cascades[r].final
      /\ CurrentAttempt(r)'.status = result
      /\ CurrentAttempt(r)'.external = (result # "uncertain")
      /\ Current(r)' = Current(r) /\ SameProviders(r)
      /\ retries'[r] = RetryAfter(retries[r], result)
      /\ confirmations' = confirmations
  BY <1>t, PersistFields
<1>1. /\ cascades[r].final = None /\ confirmations[r].state # "pending"
      /\ cascades[r].mutation \in {None, Current(r)}
      /\ retries[r].state \in {"none", "retrying", "awaiting_import"}
      /\ retries[r].state = "awaiting_import" => Doubtful(r)
  <2>1. CASE Seeking(r)
    BY <2>1 DEF Seeking, Unsubmitted
  <2>2. CASE Crossed(r)
    BY <2>2 DEF Crossed, Bound
  <2>3. CASE Doubtful(r)
    BY <2>3 DEF Doubtful, Bound
  <2> QED
    BY <2>1, <2>2, <2>3
<1>2. result = "failed" => cascades[r].mutation = Current(r) /\ Current(r) # None
  BY <1>t, NoneIsNothing DEF PersistResult, FailureBoundary
<1>3. /\ Doubtful(r) => result = "failed"
      /\ Seeking(r) => result # "failed" /\ cascades[r].state = "searching"
  <2>1. Doubtful(r) => result = "failed"
    BY DEF PersistResult, HandoffBoundary, Doubtful
  <2>2. Seeking(r) => cascades[r].mutation = None
    BY DEF Seeking, Unsubmitted
  <2>3. Seeking(r) => result # "failed"
    BY <1>2, <2>2
  <2>4. Seeking(r) => cascades[r].state = "searching"
    BY <2>3 DEF PersistResult, HandoffBoundary, Seeking, SearchSafe
  <2> QED
    BY <2>1, <2>3, <2>4
<1>4. Bound(r)'
  BY <1>f, <1>1 DEF Bound, Coalesce
<1>5. result = "uncertain" => Doubtful(r)'
  <2> SUFFICES ASSUME result = "uncertain" PROVE Doubtful(r)'
    OBVIOUS
  <2>1. retries'[r].state \in {"none", "awaiting_import"}
    BY <1>t, <1>f, <1>1, <1>3, RetryAfterFields
  <2>2. requests'[r].status = "queued" /\ ~requests'[r].external /\ cascades'[r].final = None
    BY <1>f, <1>1
  <2> QED
    BY <1>f, <1>4, <2>1, <2>2 DEF Doubtful
<1>6. result # "uncertain" => HandedOff(r)'
  BY <1>t, <1>f, <1>1, <1>2, <1>4, NoneIsNothing DEF HandedOff, Coalesce, Results
<1>7. result = "queued" => Accepted(r)'
  BY <1>t, <1>f, <1>1, <1>3, <1>6, RetryAfterFields, NoneIsNothing DEF Accepted, Coalesce
<1>8. result = "completed" => Imported(r)'
  BY <1>t, <1>f, <1>1, <1>3, <1>6, RetryAfterFields, NoneIsNothing DEF Imported, Coalesce
<1>9. result = "failed" => Lost(r)'
  BY <1>t, <1>f, <1>1, <1>6, RetryAfterFields DEF Lost
<1>10. Situated(r)'
  BY <1>5, <1>7, <1>8, <1>9 DEF Situated, Results
<1>11. RetryIdentity(r)'
  BY <1>t, <1>f, RetryAfterFields DEF RowsAgree, RetryIdentity
<1>12. Reserved(r)'
  <2>1. CASE Owning(r)'
    <3>1. Owning(r)
      BY <1>f, <1>1, <2>1 DEF Owning, Seeking, Crossed, Doubtful, OwningCascade, SearchSafe
    <3>2. reservations' = reservations
      <4>1. CASE result = "failed"
        <5>1. retries[r].state \in RetainingRetry
          BY <1>t, <1>f, <1>1, <2>1, <4>1, RetryAfterFields DEF Owning, OwningCascade,
             RetainingRetry, OwningRetry
        <5> QED
          BY <4>1, <5>1 DEF PersistResult, Release
      <4>2. CASE result # "failed"
        BY <4>2 DEF PersistResult
      <4> QED
        BY <4>1, <4>2
    <3> QED
      BY <1>t, <1>f, <2>1, <3>1, <3>2, ReservedKept
  <2> QED
    BY <2>1 DEF Reserved
<1>13. RowsAgree(r)'
  BY <1>10, <1>11, <1>12 DEF RowsAgree
<1>14. Keeps(r)
  BY <1>t, <1>f, RetryAfterFields DEF Keeps
<1> QED
  BY <1>3, <1>5, <1>7, <1>8, <1>9, <1>13, <1>14

LEMMA PersistLives ==
    ASSUME IInv, TypeOK', NEW r \in Requests, NEW result \in Results, PersistResult(r, result),
           Waits(r)', Backgrounded(r)', UNCHANGED posts,
           \A q \in Requests \ {r} : runner'[q] = runner[q] /\ remote'[q] = remote[q],
           result = "completed" => remote'[r] = "completed",
           Seeking(r) \/ remote' = remote,
           Seeking(r) \/ Crossed(r) \/ Doubtful(r), cascades[r].identity # None
    PROVE  Lives
<1>t. TypeOK
  BY DEF IInv
<1>1. /\ RowsAgree(r)' /\ Keeps(r)
      /\ result = "uncertain" => Doubtful(r)'
      /\ result = "queued" => Accepted(r)'
      /\ result = "completed" => Imported(r)'
      /\ result = "failed" => Lost(r)'
      /\ Doubtful(r) => result = "failed"
      /\ Seeking(r) => result # "failed" /\ cascades[r].state = "searching"
  BY PersistAgrees
<1>2. /\ requests'[r].status = IF result = "uncertain" THEN "queued" ELSE result
      /\ requests'[r].external = (result # "uncertain")
      /\ cascades'[r].ordinal = cascades[r].ordinal
      /\ confirmations' = confirmations
      /\ \A q \in Requests \ {r} :
           /\ requests'[q] = requests[q] /\ cascades'[q] = cascades[q]
           /\ attempts'[q] = attempts[q] /\ retries'[q] = retries[q] /\ Untaken(q)
  BY <1>t, PersistFields
<1>3. ~requests[r].external
  BY DEF PersistResult
<1>4. Life(r)
  <2>m. CASE ~Seeking(r)
    <3>1. MovesOn(r)
      BY <1>2, <1>3, <2>m DEF MovesOn, Results
    <3>2. Underway(r)
      BY <2>m DEF Underway
    <3>3. CASE result \in {"uncertain", "queued"}
      BY <1>1, <3>1, <3>2, <3>3 DEF Life, Proceeds, Underway
    <3>4. CASE result = "completed"
      <4>1. ~Accepted(r) /\ ~Lost(r)
        BY <1>3 DEF Accepted, Lost, HandedOff
      <4> QED
        BY <1>1, <3>1, <3>2, <3>4, <4>1 DEF Life, Acquires
    <3>5. CASE result = "failed"
      BY <1>1, <3>1, <3>2, <3>5 DEF Life, Loses
    <3> QED
      BY <3>3, <3>4, <3>5 DEF Results
  <2>s. CASE Seeking(r)
    <3>1. CASE result \in {"uncertain", "queued"}
      BY <1>1, <2>s, <3>1 DEF Life, Commits, Underway
    <3>2. CASE result = "completed"
      <4>1. ~Accepted(r) /\ ~Lost(r)
        BY <1>3 DEF Accepted, Lost, HandedOff
      <4> QED
        BY <1>1, <2>s, <3>2, <4>1 DEF Life, Acquires
    <3> QED
      BY <1>1, <2>s, <3>1, <3>2 DEF Results
  <2> QED
    BY <2>m, <2>s
<1>5. \A q \in Requests \ {r} : Still(q)
  BY <1>2 DEF Still
<1> QED
  BY <1>t, <1>1, <1>4, <1>5, OneLives DEF IInv, Sound

LEMMA ResultLives ==
    ASSUME IInv, TypeOK', NEW r \in Requests, Handoff(r) \/ Quarantine(r) \/ Attach(r)
    PROVE  Lives
<1>t. TypeOK
  BY DEF IInv
<1>1. Waits(r)' /\ Backgrounded(r)' /\ \A q \in Requests \ {r} : runner'[q] = runner[q]
  BY <1>t, ReturnEnds DEF Handoff, Quarantine, Attach
<1>2. CASE runner[r].pc = "posted"
  <2>1. Crossed(r) /\ cascades[r].identity # None
    BY <1>2, Where DEF Seeking, Crossed, Bound
  <2>2. CASE Handoff(r)
    <3>1. Response(r) \in Results /\ (Response(r) = "completed" => remote[r] = "completed")
      BY <1>t, <2>2 DEF Handoff, Response, Results, TypeOK, RemoteState
    <3>2. PersistResult(r, Response(r)) /\ UNCHANGED world
      BY <2>2 DEF Handoff
    <3> QED
      BY <1>1, <2>1, <3>1, <3>2, PersistLives DEF world
  <2>3. CASE Quarantine(r)
    BY <1>1, <2>1, <2>3, PersistLives DEF Quarantine, Results, world
  <2> QED
    BY <1>2, <2>2, <2>3 DEF Attach
<1>3. CASE runner[r].pc = "resolved"
  <2>1. Seeking(r) /\ cascades[r].identity # None
    BY <1>3, Where DEF Seeking, Crossed, Waits
  <2>2. CASE Quarantine(r)
    BY <1>1, <2>1, <2>2, PersistLives DEF Quarantine, Results, world
  <2>3. CASE Attach(r)
    <3>1. PICK s \in {"active", "completed"} :
            /\ remote' = [remote EXCEPT ![r] = s]
            /\ PersistResult(r, IF s = "active" THEN "queued" ELSE "completed")
      BY <2>3 DEF Attach
    <3>2. remote'[r] = s /\ \A q \in Requests \ {r} : remote'[q] = remote[q]
      BY <1>t, <3>1 DEF TypeOK
    <3>3. UNCHANGED posts
      BY <2>3 DEF Attach
    <3>4. CASE s = "active"
      <4>1. PersistResult(r, "queued") /\ "queued" \in Results
        BY <3>1, <3>4 DEF Results
      <4> QED
        BY <1>1, <2>1, <3>2, <3>3, <4>1, PersistLives
    <3>5. CASE s = "completed"
      <4>1. PersistResult(r, "completed") /\ "completed" \in Results
        BY <3>1, <3>5 DEF Results
      <4> QED
        BY <1>1, <2>1, <3>2, <3>3, <3>5, <4>1, PersistLives
    <3> QED
      BY <3>4, <3>5
  <2> QED
    BY <1>3, <2>2, <2>3 DEF Handoff
<1> QED
  BY <1>2, <1>3 DEF Handoff, Quarantine, Attach

LEMMA RecoverFailureLives ==
    ASSUME IInv, TypeOK', NEW r \in Requests, RecoverFailure(r) PROVE Lives
<1>1. PersistResult(r, "failed") /\ UNCHANGED <<runner, remote, posts>> /\ "failed" \in Results
  BY DEF RecoverFailure, Records, Results
<1>2. Crossed(r) \/ Doubtful(r)
  BY <1>1, Where DEF PersistResult, FailureBoundary
<1>3. /\ cascades[r].identity # None
      /\ runner[r].pc \in {"idle", "finish"}
  <2>1. CASE Doubtful(r)
    BY <2>1 DEF Doubtful, Bound, Waits
  <2>2. CASE Crossed(r)
    <3>1. \E b \in Backends : poll[b].kind # "none" /\ poll[b].request = r
      BY DEF RecoverFailure, Records, Backends
    <3>2. requests[r].startup
      BY <2>2, <3>1 DEF IInv, Sound, Polled, Crossed
    <3> QED
      BY <2>2, <3>2 DEF Crossed, Bound, Waits
  <2> QED
    BY <1>2, <2>1, <2>2
<1>4. Waits(r)' /\ Backgrounded(r)'
  BY <1>1, <1>3 DEF IInv, Sound, RowsAgree, Waits, Backgrounded
<1> QED
  BY <1>1, <1>2, <1>3, <1>4, PersistLives

-----------------------------------------------------------------------------
(* Runners that end, and the cleanup of a background run                   *)

\* Wherever a thread is thrown out, the rows are those of a request without one.
LEMMA RunnerStops ==
    ASSUME IInv, TypeOK', NEW r \in Requests, runner[r].pc # "idle",
           Waits(r)', Backgrounded(r)',
           requests'[r] = requests[r], cascades'[r] = cascades[r], attempts'[r] = attempts[r],
           retries'[r] = retries[r], confirmations'[r] = confirmations[r],
           UNCHANGED <<reservations, posts, remote>>
    PROVE  Life(r) /\ RowsAgree(r)'
<1>t. /\ RowsAgree(r) /\ Situated(r) /\ CurrentAttempt(r)' = CurrentAttempt(r)
      /\ Current(r)' = Current(r) /\ Keeps(r) /\ SameRetry(r) /\ MovesOn(r)
      /\ Bound(r)' = Bound(r) /\ Unsubmitted(r)' = Unsubmitted(r) /\ Ahead(r)' = Ahead(r)
  BY DEF IInv, Sound, RowsAgree, CurrentAttempt, Current, Keeps, SameRetry, MovesOn, Bound,
     Unsubmitted, Ahead
<1>p. runner'[r].pc \in {"idle", "finish"}
  BY DEF Waits
<1>h. HandedOff(r) => HandedOff(r)'
  BY <1>t DEF HandedOff
<1>a. Backgrounded(r)' /\ RetryIdentity(r)' /\ Reserved(r)'
  BY <1>t DEF RowsAgree, RetryIdentity, Reserved, Owning
<1>1. CASE Fresh(r) \/ Asking(r)
  BY <1>1 DEF Fresh, Asking
<1>2. CASE Seeking(r)
  <2>1. Seeking(r)'
    BY <1>t, <1>p, <1>2 DEF Seeking
  <2> QED
    BY <1>t, <1>a, <1>2, <2>1 DEF RowsAgree, Situated, Life, Searches
<1>3. CASE Missed(r)
  <2>1. Missed(r)'
    BY <1>t, <1>3 DEF Missed
  <2> QED
    BY <1>t, <1>a, <1>3, <2>1 DEF RowsAgree, Situated, Life, Settles
<1>4. CASE Underway(r)
  <2>1. Underway(r)'
    BY <1>t, <1>h, <1>4 DEF Underway, Crossed, Doubtful, Accepted
  <2> QED
    BY <1>t, <1>a, <1>4, <2>1 DEF RowsAgree, Situated, Underway, Life, Proceeds
<1>5. CASE Imported(r)
  <2>1. Imported(r)'
    BY <1>t, <1>h, <1>5 DEF Imported
  <2> QED
    BY <1>t, <1>a, <1>5, <2>1 DEF RowsAgree, Situated, Life, Rests
<1>6. CASE Lost(r)
  <2>1. Lost(r)'
    BY <1>t, <1>h, <1>6 DEF Lost
  <2> QED
    BY <1>t, <1>a, <1>6, <2>1 DEF RowsAgree, Situated, Life, Rests
<1>7. CASE ImportedLate(r)
  <2>1. ImportedLate(r)'
    BY <1>t, <1>h, <1>7 DEF ImportedLate
  <2> QED
    BY <1>t, <1>a, <1>7, <2>1 DEF RowsAgree, Situated, Life, Rests
<1> QED
  BY <1>t, <1>1, <1>2, <1>3, <1>4, <1>5, <1>6, <1>7 DEF Situated, Underway

LEMMA FinishLives ==
    ASSUME IInv, TypeOK', NEW r \in Requests, FinishRetry(r) PROVE Lives
<1>t. TypeOK /\ RowsAgree(r) /\ retries[r] \in RetryRow /\ runner[r].pc = "finish"
  BY Rows DEF IInv, Sound, FinishRetry
<1>1. /\ Waits(r)' /\ Backgrounded(r)'
      /\ \A q \in Requests \ {r} : runner'[q] = runner[q]
  BY <1>t DEF FinishRetry, IdleRunner, Waits, Backgrounded, TypeOK
<1>2. /\ UNCHANGED <<cascades, attempts, confirmations, posts, remote>>
      /\ \A q \in Requests \ {r} : requests'[q] = requests[q] /\ retries'[q] = retries[q]
      /\ reservations' = Release(r, "expired") \/ reservations' = reservations
  BY <1>t DEF FinishRetry, world, TypeOK
<1>3. \A q \in Requests \ {r} : Still(q)
  BY <1>t, <1>1, <1>2, ReleaseUntaken DEF Still
<1>4. CASE retries[r].state = "retrying" /\ Missed(r)
  <2>1. /\ requests'[r].status = "failed" /\ requests'[r].external = requests[r].external
        /\ requests'[r].startup = requests[r].startup
    BY <1>t, <1>4, Rows DEF FinishRetry, Missed, TypeOK, RequestRow
  <2>2. retries'[r] = RetryMissed(retries[r])
    BY <1>t, <1>4 DEF FinishRetry, Missed, TypeOK
  <2>3. /\ retries'[r].state \in {"queued", "expired"}
        /\ retries'[r].state = "queued" => retries'[r].count < RetryLimit
        /\ retries'[r].count = retries[r].count /\ retries'[r].identity = retries[r].identity
    BY <1>t, <2>2, RetryMissedFields
  <2>4. Missed(r)'
    BY <1>1, <1>2, <1>4, <2>1, <2>3 DEF Missed, Unsubmitted
  <2>5. Reserved(r)'
    <3>1. CASE retries'[r].state = "queued"
      <4>1. reservations' = reservations /\ SameProviders(r) /\ Owning(r) /\ Owning(r)'
        BY <1>2, <1>4, <2>2, <3>1 DEF FinishRetry, SameProviders, Owning, RetainingRetry, OwningRetry
      <4> QED
        BY <1>t, <4>1, ReservedKept DEF RowsAgree
    <3>2. CASE retries'[r].state = "expired"
      BY <1>2, <1>4, <3>2 DEF Reserved, Owning, Missed, OwningCascade, RetainingRetry, OwningRetry
    <3> QED
      BY <2>3, <3>1, <3>2
  <2>6. RowsAgree(r)'
    BY <1>t, <1>1, <1>2, <1>4, <2>3, <2>4, <2>5 DEF RowsAgree, Situated, RetryIdentity
  <2>7. Life(r)
    BY <1>2, <1>4, <2>3, <2>4 DEF Life, Settles, Keeps
  <2> QED
    BY <1>t, <1>3, <2>6, <2>7, OneLives DEF IInv, Sound
<1>5. CASE ~(retries[r].state = "retrying" /\ Missed(r))
  <2>1. retries[r].state = "retrying" => requests[r].status = "processing"
    BY <1>t, <1>5 DEF RowsAgree, Situated, Fresh, Seeking, Asking, Crossed, Doubtful, Accepted,
       Imported, Lost, ImportedLate
  <2>2. /\ requests'[r] = requests[r] /\ retries'[r] = retries[r]
        /\ reservations' = reservations
    <3>1. CASE retries[r].state # "retrying"
      BY <1>t, <3>1, Rows DEF FinishRetry, TypeOK, RequestRow
    <3>2. CASE retries[r].state = "retrying"
      BY <1>t, <2>1, <3>2, Rows DEF FinishRetry, TypeOK, RequestRow
    <3> QED
      BY <3>1, <3>2
  <2>3. Life(r) /\ RowsAgree(r)'
    BY <1>t, <1>1, <1>2, <2>2, RunnerStops
  <2> QED
    BY <1>t, <1>3, <2>3, OneLives DEF IInv, Sound
<1> QED
  BY <1>4, <1>5

-----------------------------------------------------------------------------
(* Outcomes recorded by the loops and by BookBot                           *)

LEMMA CompletesFields ==
    ASSUME TypeOK, NEW r \in Requests, RequestCompletes(r), Accepted(r) \/ Lost(r)
    PROVE  /\ requests'[r].status = "completed" /\ requests'[r].external = requests[r].external
           /\ cascades'[r].identity = cascades[r].identity
           /\ cascades'[r].mutation = cascades[r].mutation
           /\ cascades'[r].ordinal = cascades[r].ordinal
           /\ CurrentAttempt(r)'.external = CurrentAttempt(r).external
           /\ Current(r)' = Current(r) /\ SameProviders(r)
           /\ IF Accepted(r) \/ retries[r].state = "blocked"
              THEN /\ cascades'[r].state = "completed"
                   /\ cascades'[r].final = Coalesce(cascades[r].final, Current(r))
              ELSE cascades' = cascades
           /\ IF retries[r].state = "none" THEN retries'[r] = retries[r]
              ELSE retries'[r] = [retries[r] EXCEPT !.state = "fulfilled"]
           /\ reservations' = reservations /\ confirmations' = confirmations
           /\ \A q \in Requests \ {r} :
                /\ requests'[q] = requests[q] /\ cascades'[q] = cascades[q]
                /\ attempts'[q] = attempts[q] /\ retries'[q] = retries[q]
<1>s. /\ requests[r].status # "completed"
      /\ Accepted(r) => /\ cascades[r].state \in LiveCascade
                        /\ retries[r].state \in {"none", "awaiting_import"}
      /\ Lost(r) => cascades[r].state \notin LiveCascade /\ retries[r].state \in {"none", "blocked"}
  BY DEF Accepted, Lost, LiveCascade
<1>b. retries[r].state = "blocked" <=> ExactBlockedOwner(r)
  BY <1>s DEF RequestCompletes, ExactBlockedOwner
<1>1. /\ requests'[r].status = "completed" /\ requests'[r].external = requests[r].external
      /\ \A q \in Requests \ {r} : requests'[q] = requests[q]
  BY Rows DEF RequestCompletes, TypeOK, RequestRow
<1>2. /\ IF Accepted(r) \/ retries[r].state = "blocked"
         THEN cascades' = [cascades EXCEPT ![r].state = "completed",
                                            ![r].final = Coalesce(@, Current(r))]
         ELSE cascades' = cascades
  BY <1>s, <1>b DEF RequestCompletes
<1>3. /\ cascades'[r].identity = cascades[r].identity
      /\ cascades'[r].mutation = cascades[r].mutation
      /\ cascades'[r].ordinal = cascades[r].ordinal
      /\ IF Accepted(r) \/ retries[r].state = "blocked"
         THEN /\ cascades'[r].state = "completed"
              /\ cascades'[r].final = Coalesce(cascades[r].final, Current(r))
         ELSE cascades' = cascades
      /\ \A q \in Requests \ {r} : cascades'[q] = cascades[q]
  BY <1>2, Rows DEF TypeOK, CascadeRow
<1>4. \/ attempts' = attempts
      \/ attempts' = [attempts EXCEPT ![r][cascades[r].ordinal].status = "completed"]
  BY DEF RequestCompletes
<1>5. /\ attempts'[r][cascades[r].ordinal].external = CurrentAttempt(r).external
      /\ SameProviders(r) /\ \A q \in Requests \ {r} : attempts'[q] = attempts[q]
  <2>1. CASE attempts' = attempts
    BY <2>1 DEF SameProviders, CurrentAttempt
  <2>2. CASE attempts' = [attempts EXCEPT ![r][cascades[r].ordinal].status = "completed"]
    BY <2>2, StatusChange
  <2> QED
    BY <1>4, <2>1, <2>2
<1>6. /\ CurrentAttempt(r)' = attempts'[r][cascades[r].ordinal] /\ Current(r)' = Current(r)
  BY <1>3 DEF CurrentAttempt, Current
<1>7. /\ IF retries[r].state = "none" THEN retries'[r] = retries[r]
         ELSE retries'[r] = [retries[r] EXCEPT !.state = "fulfilled"]
      /\ \A q \in Requests \ {r} : retries'[q] = retries[q]
  BY <1>s DEF RequestCompletes, TypeOK
<1> QED
  BY <1>1, <1>3, <1>5, <1>6, <1>7 DEF RequestCompletes

LEMMA CompletesLives ==
    ASSUME IInv, TypeOK', NEW r \in Requests, RequestCompletes(r), Accepted(r) \/ Lost(r),
           remote[r] = "completed", ByItsImporter(r), UNCHANGED <<runner, posts, remote>>
    PROVE  Lives
<1>t. TypeOK /\ RowsAgree(r) /\ retries[r] \in RetryRow /\ HandedOff(r) /\ Current(r) \in Backends
  BY Rows DEF IInv, Sound, Accepted, Lost
<1>f. /\ requests'[r].status = "completed" /\ requests'[r].external = requests[r].external
      /\ cascades'[r].identity = cascades[r].identity
      /\ cascades'[r].mutation = cascades[r].mutation
      /\ cascades'[r].ordinal = cascades[r].ordinal
      /\ CurrentAttempt(r)'.external = CurrentAttempt(r).external
      /\ Current(r)' = Current(r) /\ SameProviders(r)
      /\ IF Accepted(r) \/ retries[r].state = "blocked"
         THEN /\ cascades'[r].state = "completed"
              /\ cascades'[r].final = Coalesce(cascades[r].final, Current(r))
         ELSE cascades' = cascades
      /\ IF retries[r].state = "none" THEN retries'[r] = retries[r]
         ELSE retries'[r] = [retries[r] EXCEPT !.state = "fulfilled"]
      /\ reservations' = reservations /\ confirmations' = confirmations
      /\ \A q \in Requests \ {r} :
           /\ requests'[q] = requests[q] /\ cascades'[q] = cascades[q]
           /\ attempts'[q] = attempts[q] /\ retries'[q] = retries[q]
  BY <1>t, CompletesFields
<1>1. /\ retries'[r].count = retries[r].count /\ retries'[r].identity = retries[r].identity
      /\ retries'[r].state = IF retries[r].state = "none" THEN "none" ELSE "fulfilled"
  BY <1>t, <1>f DEF RetryRow
<1>2. MovesOn(r) /\ Keeps(r)
  BY <1>f, <1>1 DEF MovesOn, Keeps
<1>3. RetryIdentity(r)' /\ Backgrounded(r)'
  BY <1>t, <1>f, <1>1 DEF RowsAgree, RetryIdentity, Backgrounded
<1>4. \A q \in Requests \ {r} : Still(q)
  BY <1>f DEF Still, Untaken
<1>5. CASE Accepted(r) \/ retries[r].state = "blocked"
  <2>1. cascades'[r].state = "completed" /\ cascades'[r].final = Current(r)
    BY <1>t, <1>f, <1>5 DEF HandedOff, Bound, Coalesce
  <2>2. HandedOff(r)'
    BY <1>t, <1>f, <2>1, NoneIsNothing DEF HandedOff, Bound, Waits
  <2>3. Imported(r)'
    BY <1>t, <1>f, <1>1, <2>1, <2>2, NoneIsNothing DEF Imported
  <2>4. Owning(r) /\ Owning(r)'
    BY <1>5, <2>1 DEF Owning, OwningCascade, Accepted, RetainingRetry, OwningRetry
  <2>5. RowsAgree(r)'
    BY <1>t, <1>f, <1>3, <2>3, <2>4, ReservedKept DEF RowsAgree, Situated
  <2>6. Life(r)
    BY <1>2, <1>5, <2>3 DEF Life, Acquires, Underway
  <2> QED
    BY <1>t, <1>4, <2>5, <2>6, OneLives DEF IInv, Sound
<1>6. CASE ~(Accepted(r) \/ retries[r].state = "blocked")
  <2>1. Lost(r) /\ retries[r].state = "none" /\ cascades' = cascades
    BY <1>6, <1>f DEF Lost
  <2>2. HandedOff(r)'
    BY <1>t, <1>f, <2>1 DEF HandedOff, Bound, Waits
  <2>3. ImportedLate(r)'
    BY <1>f, <1>1, <2>1, <2>2 DEF ImportedLate, Lost
  <2>4. Reserved(r)'
    BY <1>1, <2>1 DEF Reserved, Owning, Lost, OwningCascade, RetainingRetry, OwningRetry
  <2>5. RowsAgree(r)'
    BY <1>3, <2>3, <2>4 DEF RowsAgree, Situated
  <2>6. Life(r)
    BY <1>1, <1>2, <2>1, <2>3 DEF Life, Rests, SameRetry
  <2> QED
    BY <1>t, <1>4, <2>5, <2>6, OneLives DEF IInv, Sound
<1> QED
  BY <1>5, <1>6

LEMMA FailsLives ==
    ASSUME IInv, TypeOK', NEW r \in Requests, RequestFails(r), Accepted(r) \/ Lost(r),
           UNCHANGED <<runner, posts, remote>>
    PROVE  Lives
<1>t. TypeOK /\ RowsAgree(r) /\ retries[r] \in RetryRow /\ HandedOff(r) /\ Current(r) \in Backends
  BY Rows DEF IInv, Sound, Accepted, Lost
<1>1. /\ requests'[r].status = "failed" /\ requests'[r].external = requests[r].external
      /\ \A q \in Requests \ {r} : requests'[q] = requests[q]
  BY <1>t, Rows DEF RequestFails, TypeOK, RequestRow
<1>2. /\ cascades'[r].state = "failed"
      /\ cascades'[r].identity = cascades[r].identity
      /\ cascades'[r].mutation = cascades[r].mutation
      /\ cascades'[r].final = cascades[r].final
      /\ cascades'[r].ordinal = cascades[r].ordinal
      /\ \A q \in Requests \ {r} : cascades'[q] = cascades[q]
  BY <1>t, Rows DEF RequestFails, FailCascade, TypeOK, CascadeRow, Accepted, Lost, LiveCascade
<1>3. \/ attempts' = attempts
      \/ attempts' = [attempts EXCEPT ![r][cascades[r].ordinal].status = "failed"]
  BY DEF RequestFails
<1>4. /\ attempts'[r][cascades[r].ordinal].external = CurrentAttempt(r).external
      /\ SameProviders(r) /\ \A q \in Requests \ {r} : attempts'[q] = attempts[q]
  <2>1. CASE attempts' = attempts
    BY <2>1 DEF SameProviders, CurrentAttempt
  <2>2. CASE attempts' = [attempts EXCEPT ![r][cascades[r].ordinal].status = "failed"]
    BY <1>t, <2>2, StatusChange
  <2> QED
    BY <1>3, <2>1, <2>2
<1>5. /\ CurrentAttempt(r)' = attempts'[r][cascades[r].ordinal] /\ Current(r)' = Current(r)
  BY <1>2 DEF CurrentAttempt, Current
<1>6. /\ retries'[r].state = IF retries[r].state = "none" THEN "none" ELSE "blocked"
      /\ retries'[r].count = retries[r].count /\ retries'[r].identity = retries[r].identity
      /\ \A q \in Requests \ {r} : retries'[q] = retries[q]
  BY <1>t DEF RequestFails, TypeOK, RetryRow, Accepted, Lost
<1>7. HandedOff(r)'
  BY <1>t, <1>1, <1>2, <1>4, <1>5 DEF HandedOff, Bound, Waits, RequestFails
<1>8. Lost(r)'
  BY <1>1, <1>2, <1>6, <1>7 DEF Lost
<1>9. Reserved(r)'
  <2>1. CASE Owning(r)'
    <3>1. retries[r].state \in {"awaiting_import", "blocked"}
      BY <1>2, <1>6, <2>1 DEF Owning, OwningCascade, RetainingRetry, OwningRetry, Accepted, Lost
    <3>2. reservations' = reservations /\ Owning(r)
      BY <3>1 DEF RequestFails, Release, Owning, RetainingRetry, OwningRetry
    <3> QED
      BY <1>t, <1>4, <2>1, <3>2, ReservedKept DEF RowsAgree
  <2> QED
    BY <2>1 DEF Reserved
<1>10. RowsAgree(r)'
  BY <1>t, <1>2, <1>6, <1>8, <1>9 DEF RowsAgree, Situated, RetryIdentity, Backgrounded
<1>11. MovesOn(r) /\ Keeps(r)
  BY <1>1, <1>2, <1>6 DEF MovesOn, Keeps
<1>12. Life(r)
  <2>1. CASE Accepted(r)
    BY <1>8, <1>11, <2>1 DEF Life, Loses, Underway
  <2>2. CASE Lost(r)
    <3>1. SameRetry(r)
      BY <1>6, <2>2 DEF SameRetry, Lost
    <3> QED
      BY <1>8, <1>11, <2>2, <3>1 DEF Life, Rests
  <2> QED
    BY <2>1, <2>2
<1>13. \A q \in Requests \ {r} : Untaken(q)
  BY <1>t, ReleaseUntaken DEF RequestFails
<1>14. \A q \in Requests \ {r} : Still(q)
  BY <1>1, <1>2, <1>4, <1>6, <1>13 DEF RequestFails, Still
<1> QED
  BY <1>t, <1>10, <1>12, <1>14, OneLives DEF IInv, Sound

LEMMA ObserveLives ==
    ASSUME IInv, TypeOK', NEW r \in Requests, ObserveTerminal(r) \/ ProveBlocked(r) PROVE Lives
<1>t. Current(r) \in Backends /\ "shelfarr" \in Backends
  BY Rows DEF IInv, Backends
<1>p. Polled(r)
  BY DEF IInv, Sound
<1>1. CASE ObserveTerminal(r)
  <2>1. /\ poll[Current(r)].kind = "observe" /\ poll[Current(r)].request = r
        /\ requests[r].status = "queued" /\ UNCHANGED <<runner, posts, remote, bookbot>>
    BY <1>1 DEF ObserveTerminal, Records
  <2>2. Accepted(r)
    BY <1>t, <1>p, <2>1, Where DEF Polled
  <2>3. CASE poll[Current(r)].seen = "completed"
    <3>1. Current(r) = "shelfarr" /\ remote[r] = "completed"
      BY <1>t, <1>p, <2>1, <2>3 DEF Polled
    <3>2. RequestCompletes(r) /\ ByItsImporter(r)
      BY <1>1, <2>3, <3>1 DEF ObserveTerminal, ByItsImporter
    <3> QED
      BY <2>1, <2>2, <3>1, <3>2, CompletesLives
  <2>4. CASE poll[Current(r)].seen # "completed"
    BY <1>1, <2>1, <2>2, <2>4, FailsLives DEF ObserveTerminal
  <2> QED
    BY <2>3, <2>4
<1>2. CASE ProveBlocked(r)
  <2>1. /\ poll["shelfarr"].kind = "prove" /\ poll["shelfarr"].request = r
        /\ UNCHANGED <<runner, posts, remote, bookbot>> /\ RequestCompletes(r)
        /\ retries[r].state = "blocked"
    BY <1>2 DEF ProveBlocked, Records, ExactBlockedOwner
  <2>2. Current(r) = "shelfarr" /\ remote[r] = "completed"
    BY <1>t, <1>p, <2>1 DEF Polled
  <2>3. Lost(r) /\ ByItsImporter(r)
    BY <2>1, <2>2, Where DEF ByItsImporter
  <2> QED
    BY <2>1, <2>2, <2>3, CompletesLives
<1> QED
  BY <1>1, <1>2

LEMMA BookBotLives ==
    ASSUME IInv, TypeOK', NEW r \in Requests, BookBotWrites(r) PROVE Lives
<1>1. /\ Accepted(r) \/ Lost(r)
      /\ remote[r] = "completed"
      /\ UNCHANGED <<runner, posts, remote>>
  BY DEF IInv, Sound, BookBotHolds, BookBotWrites
<1>2. ByItsImporter(r)
  BY NoneIsNothing DEF BookBotWrites, IdleBookBot, ByItsImporter
<1>3. RequestCompletes(r) \/ RequestFails(r)
  BY DEF BookBotWrites
<1> QED
  BY <1>1, <1>2, <1>3, CompletesLives, FailsLives

LEMMA RecoverLives ==
    ASSUME IInv, TypeOK', NEW r \in Requests, RecoverHandoff(r) PROVE Lives
<1> DEFINE o == cascades[r].ordinal
           a == [CurrentAttempt(r) EXCEPT !.status = "queued", !.external = TRUE]
<1>t. /\ TypeOK /\ RowsAgree(r) /\ retries[r] \in RetryRow /\ Current(r) \in Backends
      /\ o \in Ordinals /\ CurrentAttempt(r) \in AttemptRow
      /\ attempts \in [Requests -> [Ordinals -> AttemptRow]]
  BY Rows DEF IInv, Sound, TypeOK
<1>s. /\ Crossed(r) \/ Doubtful(r)
      /\ ~requests[r].external /\ UNCHANGED <<runner, posts, remote, reservations, confirmations>>
      /\ poll[Current(r)].kind # "none" /\ poll[Current(r)].request = r
  BY Where DEF RecoverHandoff, MayRecover, Records
<1>b. Bound(r) /\ runner[r].pc \in {"idle", "finish"}
  <2>1. CASE Doubtful(r)
    BY <2>1 DEF Doubtful, Waits
  <2>2. CASE Crossed(r)
    <3>1. requests[r].startup
      BY <1>t, <1>s, <2>2 DEF IInv, Sound, Polled, Crossed
    <3> QED
      BY <2>2, <3>1 DEF Crossed, Waits
  <2> QED
    BY <1>s, <2>1, <2>2
<1>1. /\ requests'[r].status = "queued" /\ requests'[r].external = TRUE
      /\ \A q \in Requests \ {r} : requests'[q] = requests[q]
  BY <1>t, Rows DEF RecoverHandoff, TypeOK, RequestRow
<1>2. /\ cascades'[r].state = "queued" /\ cascades'[r].final = Current(r)
      /\ cascades'[r].identity = cascades[r].identity
      /\ cascades'[r].mutation = cascades[r].mutation
      /\ cascades'[r].ordinal = o
      /\ \A q \in Requests \ {r} : cascades'[q] = cascades[q]
  BY <1>t, Rows DEF RecoverHandoff, TypeOK, CascadeRow
<1>3. attempts' = [attempts EXCEPT ![r] = [attempts[r] EXCEPT ![o] = a]]
  BY <1>t DEF RecoverHandoff, CurrentAttempt
<1>4. a.status = "queued" /\ a.external = TRUE /\ a.provider = CurrentAttempt(r).provider
  BY <1>t DEF AttemptRow
<1> HIDE DEF a
<1>5. attempts'[r] = [attempts[r] EXCEPT ![o] = a]
  BY <1>t, <1>3
<1>6. /\ attempts'[r][o] = a /\ \A i \in Ordinals \ {o} : attempts'[r][i] = attempts[r][i]
      /\ \A q \in Requests \ {r} : attempts'[q] = attempts[q]
  BY <1>t, <1>3, <1>5
<1>7. SameProviders(r)
  BY <1>4, <1>6 DEF SameProviders, CurrentAttempt
<1>8. CurrentAttempt(r)' = a /\ Current(r)' = Current(r)
  BY <1>2, <1>6 DEF CurrentAttempt, Current
<1>9. /\ retries'[r].state = IF retries[r].state = "retrying" THEN "awaiting_import"
                             ELSE retries[r].state
      /\ retries'[r].count = retries[r].count /\ retries'[r].identity = retries[r].identity
      /\ \A q \in Requests \ {r} : retries'[q] = retries[q]
  BY <1>t DEF RecoverHandoff, TypeOK, RetryRow
<1>10. HandedOff(r)'
  BY <1>t, <1>s, <1>b, <1>1, <1>2, <1>4, <1>8, NoneIsNothing DEF HandedOff, Bound, Waits
<1>11. retries[r].state \in {"none", "retrying", "awaiting_import"}
  BY <1>s DEF Crossed, Doubtful
<1>12. Accepted(r)'
  BY <1>t, <1>1, <1>2, <1>4, <1>8, <1>9, <1>10, <1>11, NoneIsNothing DEF Accepted
<1>13. Reserved(r)'
  BY <1>t, <1>s, <1>2, <1>7, ReservedKept DEF RowsAgree, Owning, OwningCascade, Crossed, Doubtful
<1>14. RowsAgree(r)'
  BY <1>t, <1>s, <1>2, <1>9, <1>12, <1>13 DEF RowsAgree, Situated, RetryIdentity, Backgrounded
<1>15. Life(r)
  BY <1>s, <1>1, <1>2, <1>9, <1>12 DEF Life, Proceeds, Underway, Keeps, MovesOn
<1>16. \A q \in Requests \ {r} : Still(q)
  BY <1>s, <1>1, <1>2, <1>6, <1>9 DEF Still, Untaken
<1> QED
  BY <1>t, <1>14, <1>15, <1>16, OneLives DEF IInv, Sound

-----------------------------------------------------------------------------
(* Confirmations                                                           *)

LEMMA ClaimSelectionLives ==
    ASSUME IInv, TypeOK', NEW r \in Requests, ClaimSelection(r) PROVE Lives
<1>t. TypeOK /\ RowsAgree(r) /\ Asking(r) /\ CurrentAttempt(r)' = CurrentAttempt(r)
  BY Where DEF IInv, Sound, ClaimSelection, PromptOpen, CurrentAttempt
<1>1. PICK w \in Works : confirmations' =
        [confirmations EXCEPT ![r].state = "claimed", ![r].selected = w]
  BY DEF ClaimSelection
<1>2. /\ confirmations'[r].state = "claimed" /\ confirmations'[r].selected = w
      /\ \A q \in Requests \ {r} : confirmations'[q] = confirmations[q]
  BY <1>t, <1>1, Rows DEF TypeOK, ConfirmationRow
<1>3. /\ requests'[r].status = "processing" /\ requests'[r].external = requests[r].external
      /\ requests'[r].startup = requests[r].startup
      /\ \A q \in Requests \ {r} : requests'[q] = requests[q]
  BY <1>t, Rows DEF ClaimSelection, TypeOK, RequestRow
<1>4. runner'[r].pc = "select" /\ \A q \in Requests \ {r} : runner'[q] = runner[q]
  BY <1>t DEF ClaimSelection, IdleRunner, TypeOK
<1>5. Seeking(r)'
  BY <1>t, <1>2, <1>3, <1>4, NoneIsNothing DEF ClaimSelection, Asking, Seeking, Unsubmitted, Ahead,
     SearchSafe
<1>6. RowsAgree(r)'
  BY <1>t, <1>4, <1>5 DEF ClaimSelection, RowsAgree, Situated, RetryIdentity, Backgrounded, Reserved,
     Owning
<1>7. Life(r)
  BY <1>t, <1>5 DEF ClaimSelection, Life, Answers, Asking, Keeps, SameRetry, world
<1>8. \A q \in Requests \ {r} : Still(q)
  BY <1>2, <1>3, <1>4 DEF ClaimSelection, Still, Untaken, world
<1> QED
  BY <1>t, <1>6, <1>7, <1>8, OneLives DEF IInv, Sound

LEMMA ClosePromptLives ==
    ASSUME IInv, TypeOK', NEW r \in Requests, ClosePrompt(r) PROVE Lives
<1>t. TypeOK /\ RowsAgree(r) /\ Asking(r)
  BY Where DEF IInv, Sound, ClosePrompt, PromptOpen
<1>1. PICK s \in {"expired", "failed"} : confirmations' = [confirmations EXCEPT ![r].state = s]
  BY DEF ClosePrompt
<1>2. /\ confirmations'[r].state # "pending"
      /\ \A q \in Requests \ {r} : confirmations'[q] = confirmations[q]
  BY <1>t, <1>1, Rows DEF TypeOK, ConfirmationRow
<1>3. /\ requests'[r].status = "needs_selection" /\ requests'[r].external = requests[r].external
      /\ requests'[r].startup = requests[r].startup
      /\ \A q \in Requests \ {r} : requests'[q] = requests[q]
  BY <1>t, Rows DEF ClosePrompt, TypeOK, RequestRow
<1>4. /\ cascades'[r].state = "failed" /\ cascades'[r].identity = cascades[r].identity
      /\ cascades'[r].mutation = cascades[r].mutation /\ cascades'[r].final = cascades[r].final
      /\ \A q \in Requests \ {r} : cascades'[q] = cascades[q]
  BY <1>t, Rows DEF ClosePrompt, FailCascade, TypeOK, CascadeRow
<1>5. Missed(r)'
  BY <1>t, <1>2, <1>3, <1>4 DEF ClosePrompt, Asking, Missed, Unsubmitted, Waits
<1>6. RowsAgree(r)'
  BY <1>t, <1>4, <1>5 DEF ClosePrompt, Asking, RowsAgree, Situated, RetryIdentity, Backgrounded,
     Reserved, Owning, OwningCascade, RetainingRetry, OwningRetry
<1>7. Life(r)
  BY <1>t, <1>4, <1>5 DEF ClosePrompt, Life, Misses, Asking, Keeps, world
<1>8. \A q \in Requests \ {r} : Untaken(q)
  BY <1>t, ReleaseUntaken DEF ClosePrompt
<1>9. \A q \in Requests \ {r} : attempts'[q] = attempts[q]
  BY <1>t DEF ClosePrompt, TypeOK
<1>10. \A q \in Requests \ {r} : Still(q)
  BY <1>2, <1>3, <1>4, <1>8, <1>9 DEF ClosePrompt, Still, world
<1> QED
  BY <1>t, <1>6, <1>7, <1>10, OneLives DEF IInv, Sound

-----------------------------------------------------------------------------
(* Faults, restarts, retries and time                                      *)

LEMMA QuietLives ==
    ASSUME IInv, TypeOK', UNCHANGED <<stored, runner, posts>>,
           \A r \in Requests : remote[r] = "completed" => remote'[r] = "completed"
    PROVE  Lives
<1>1. \A r \in Requests : Still(r)
  BY DEF stored, Still, Untaken
<1> QED
  BY <1>1, StillLives DEF Lives, IInv, Sound

LEMMA TouchLives ==
    ASSUME IInv, TypeOK', NEW r \in Requests, BindPrompt(r) \/ RetryFallsDue(r) PROVE Lives
<1>1. CASE BindPrompt(r)
  <2>1. \A q \in Requests : /\ confirmations'[q].state = confirmations[q].state
                            /\ confirmations'[q].selected = confirmations[q].selected
    BY <1>1 DEF BindPrompt, IInv, TypeOK, ConfirmationRow
  <2>2. \A q \in Requests : Still(q)
    BY <1>1, <2>1 DEF BindPrompt, Still, Untaken, world
  <2> QED
    BY <2>2, StillLives DEF Lives, IInv, Sound
<1>2. CASE RetryFallsDue(r)
  <2>1. \A q \in Requests : /\ retries'[q].state = retries[q].state
                            /\ retries'[q].count = retries[q].count
                            /\ retries'[q].identity = retries[q].identity
    BY <1>2 DEF RetryFallsDue, IInv, TypeOK, RetryRow
  <2>2. \A q \in Requests : Still(q)
    BY <1>2, <2>1 DEF RetryFallsDue, Still, Untaken, world
  <2> QED
    BY <2>2, StillLives DEF Lives, IInv, Sound
<1> QED
  BY <1>1, <1>2

\* Threads that end where they are, one or all of them.
LEMMA ThrownOut ==
    ASSUME IInv, TypeOK', UNCHANGED <<stored, posts, remote>>,
           \A q \in Requests :
             \/ runner'[q] = runner[q]
             \/ runner'[q] = IdleRunner
             \/ runner[q].pc # "idle" /\ Waits(q)' /\ Backgrounded(q)'
    PROVE  Lives
<1> SUFFICES ASSUME NEW q \in Requests PROVE Life(q) /\ RowsAgree(q)'
  BY DEF Lives
<1>t. TypeOK /\ RowsAgree(q)
  BY DEF IInv, Sound
<1>1. CASE runner'[q] = runner[q]
  <2>1. Still(q)
    BY <1>1 DEF Still, Untaken, stored
  <2> QED
    BY <1>t, <2>1, StillLives
<1>2. CASE runner'[q] = IdleRunner
  <2>1. CASE runner[q].pc = "idle"
    <3>1. Still(q)
      BY <1>2, <2>1 DEF Still, Untaken, IdleRunner, stored
    <3> QED
      BY <1>t, <3>1, StillLives
  <2>2. CASE runner[q].pc # "idle"
    <3>1. Waits(q)' /\ Backgrounded(q)'
      BY <1>2 DEF IdleRunner, Waits, Backgrounded
    <3> QED
      BY <2>2, <3>1, RunnerStops DEF stored
  <2> QED
    BY <2>1, <2>2
<1>3. CASE runner[q].pc # "idle" /\ Waits(q)' /\ Backgrounded(q)'
  BY <1>3, RunnerStops DEF stored
<1> QED
  BY <1>1, <1>2, <1>3

LEMMA FaultLives ==
    ASSUME IInv, TypeOK', NEW r \in Requests, Fault(r) PROVE Lives
<1>t. TypeOK /\ UNCHANGED <<stored, posts, remote>>
  BY DEF IInv, Fault
<1>1. CASE runner[r].pc \notin {"idle", "ready", "finish"} /\ Return(r)
  <2>1. Waits(r)' /\ Backgrounded(r)' /\ \A q \in Requests \ {r} : runner'[q] = runner[q]
    BY <1>t, <1>1, ReturnEnds
  <2> QED
    BY <1>t, <1>1, <2>1, ThrownOut
<1>2. CASE runner' = [q \in Requests |->
               IF runner[q].background THEN IdleRunner ELSE runner[q]]
  <2>1. \A q \in Requests : runner'[q] = runner[q] \/ runner'[q] = IdleRunner
    BY <1>2
  <2> QED
    BY <1>t, <2>1, ThrownOut
<1> QED
  BY <1>1, <1>2 DEF Fault

LEMMA CrashLives ==
    ASSUME IInv, TypeOK', Crash PROVE Lives
<1>1. \A q \in Requests : runner'[q] = IdleRunner
  BY DEF Crash
<1> QED
  BY <1>1, ThrownOut DEF Crash

LEMMA ResumeLives ==
    ASSUME IInv, TypeOK', NEW r \in Requests, Resume(r) PROVE Lives
<1>t. /\ TypeOK /\ RowsAgree(r) /\ Seeking(r) /\ CurrentAttempt(r)' = CurrentAttempt(r)
      /\ UNCHANGED <<stored, posts, remote>>
  BY Where DEF IInv, Sound, Resume, Resumable, stored, world, CurrentAttempt
<1>1. /\ runner'[r].pc = IF /\ retries[r].state # "retrying"
                            /\ confirmations[r].state = "claimed"
                            /\ cascades[r].identity = None
                         THEN "select" ELSE "begin"
      /\ \A q \in Requests \ {r} : runner'[q] = runner[q]
  BY <1>t DEF Resume, TypeOK
<1>2. cascades[r].identity = None => retries[r].state = "none"
  BY <1>t DEF RowsAgree, RetryIdentity
<1>3. Seeking(r)'
  BY <1>t, <1>1, <1>2 DEF stored, Seeking, Unsubmitted, Ahead, SearchSafe
<1>4. RowsAgree(r)'
  BY <1>t, <1>1, <1>3 DEF stored, RowsAgree, Situated, RetryIdentity, Backgrounded, Reserved, Owning
<1>5. Life(r)
  BY <1>t, <1>3 DEF stored, Life, Searches, Keeps, SameRetry
<1>6. \A q \in Requests \ {r} : Still(q)
  BY <1>t, <1>1 DEF stored, Still, Untaken
<1> QED
  BY <1>t, <1>4, <1>5, <1>6, OneLives DEF IInv, Sound

LEMMA ClaimDueLives ==
    ASSUME IInv, TypeOK', ClaimDueRetries PROVE Lives
<1> SUFFICES ASSUME NEW r \in Requests PROVE Life(r) /\ RowsAgree(r)'
  BY DEF Lives
<1>t. TypeOK /\ RowsAgree(r) /\ UNCHANGED <<reservations, confirmations, posts, remote>>
  BY DEF IInv, Sound, ClaimDueRetries, world
<1>1. CASE ~(ClaimableRows(r) /\ retries[r].due)
  <2>1. Still(r)
    BY <1>t, <1>1 DEF ClaimDueRetries, Still, Untaken
  <2> QED
    BY <1>t, <2>1, StillLives
<1>2. CASE ClaimableRows(r) /\ retries[r].due
  <2>1. Missed(r) /\ retries[r].state = "queued" /\ cascades[r].identity # None
    BY <1>t, <1>2, Where DEF ClaimableRows, RowsAgree, RetryIdentity
  <2>2. /\ requests'[r].status = "processing" /\ requests'[r].external = FALSE
        /\ requests'[r].startup = requests[r].startup
    BY <1>t, <1>2, Rows DEF ClaimDueRetries, RequestRow
  <2>3. /\ cascades'[r].state = "searching" /\ cascades'[r].ordinal = 1
        /\ cascades'[r].mutation = None /\ cascades'[r].final = None
        /\ cascades'[r].identity = cascades[r].identity
    BY <1>t, <1>2, Rows DEF ClaimDueRetries, CascadeRow
  <2>4. /\ retries'[r].state = "retrying" /\ retries'[r].count = retries[r].count + 1
        /\ retries'[r].identity = retries[r].identity
    BY <1>t, <1>2, Rows DEF ClaimDueRetries, RetryRow
  <2>5. runner'[r].pc = "ready" /\ runner'[r].background
    BY <1>2 DEF ClaimDueRetries
  <2>6. attempts'[r] = [o \in Ordinals |-> [attempts[r][o] EXCEPT !.status = "pending",
                                   !.external = FALSE, !.notFound = FALSE]]
    BY <1>2 DEF ClaimDueRetries
  <2>7. ASSUME NEW o \in Ordinals
        PROVE  /\ attempts'[r][o].status = "pending"
               /\ attempts'[r][o].provider = attempts[r][o].provider
    <3>1. attempts[r][o] \in AttemptRow
      BY <1>t, Rows
    <3>2. attempts'[r][o] = [attempts[r][o] EXCEPT !.status = "pending", !.external = FALSE,
                                                   !.notFound = FALSE]
      BY <2>6
    <3> QED
      BY <3>1, <3>2 DEF AttemptRow
  <2>8. CurrentAttempt(r)'.status = "pending"
    BY <2>3, <2>7, FirstOrdinal DEF CurrentAttempt
  <2>u. Unsubmitted(r)' /\ Ahead(r)'
    BY <2>1, <2>2, <2>3, <2>7 DEF Missed, Unsubmitted, Ahead
  <2>c. confirmations'[r] = confirmations[r] /\ confirmations[r].state # "pending"
    BY <1>t, <2>1 DEF Missed
  <2>9. Seeking(r)'
    BY <2>1, <2>2, <2>3, <2>4, <2>5, <2>8, <2>u, <2>c DEF Seeking, SearchSafe
  <2>10. Reserved(r)'
    BY <1>t, <2>1, <2>3, <2>7, ReservedKept DEF SameProviders, RowsAgree, Owning, OwningCascade,
       RetainingRetry, OwningRetry
  <2>11. RowsAgree(r)'
    BY <1>t, <2>1, <2>3, <2>4, <2>5, <2>9, <2>10 DEF RowsAgree, Situated, RetryIdentity, Backgrounded
  <2>12. Life(r)
    BY <1>t, <2>1, <2>3, <2>4, <2>9 DEF Life, SeeksAgain
  <2> QED
    BY <2>11, <2>12
<1> QED
  BY <1>1, <1>2

\* What the repair of start-up does to the rows of one request.
LEMMA InitializeFields ==
    ASSUME TypeOK, NEW r \in Requests, Initialize
    PROVE  /\ UNCHANGED <<runner, posts, remote>>
           /\ requests'[r] = [requests[r] EXCEPT
                !.status = IF Unbound(r) THEN "needs_selection"
                           ELSE IF retries[r].state = "retrying"
                                   /\ requests[r].status = "needs_selection"
                           THEN "failed" ELSE requests[r].status,
                !.startup = requests[r].startup \/ Interrupted(r)]
           /\ confirmations'[r] = IF Unbound(r) THEN [confirmations[r] EXCEPT !.state = "failed"]
                                  ELSE confirmations[r]
           /\ cascades'[r] = IF Unbound(r) THEN FailCascade(cascades[r]) ELSE cascades[r]
           /\ attempts'[r] = IF Unbound(r) /\ CurrentAttempt(r).status \in SearchSafe
                THEN [attempts[r] EXCEPT ![cascades[r].ordinal].status = "failed"]
                ELSE attempts[r]
           /\ retries[r].state = "retrying" /\ requests[r].status \in {"needs_selection", "failed"} =>
                retries'[r] = RetryMissed(retries[r])
           /\ retries[r].state = "retrying" /\ requests[r].status = "processing" =>
                retries'[r] = retries[r]
           /\ retries[r].state = "awaiting_import" /\ requests[r].status = "queued" =>
                retries'[r] = retries[r]
           /\ retries[r].state \notin {"awaiting_import", "retrying"} => retries'[r] = retries[r]
           /\ retries[r].state # "retrying" /\ ~Unbound(r) => Untaken(r)
           /\ retries'[r].state \in RetainingRetry => Untaken(r)
<1>1. UNCHANGED <<runner, posts, remote>>
  BY DEF Initialize, world
<1>2. requests'[r] = [requests[r] EXCEPT
                !.status = IF Unbound(r) THEN "needs_selection"
                           ELSE IF retries[r].state = "retrying"
                                   /\ requests[r].status = "needs_selection"
                           THEN "failed" ELSE requests[r].status,
                !.startup = requests[r].startup \/ Interrupted(r)]
  <2>1. requests[r] \in RequestRow
    BY Rows
  <2> QED
    BY <2>1 DEF Initialize, RequestRow
<1>3. confirmations'[r] = IF Unbound(r) THEN [confirmations[r] EXCEPT !.state = "failed"]
                          ELSE confirmations[r]
  BY DEF Initialize
<1>4. cascades'[r] = IF Unbound(r) THEN FailCascade(cascades[r]) ELSE cascades[r]
  BY DEF Initialize
<1>5. attempts'[r] = IF Unbound(r) /\ CurrentAttempt(r).status \in SearchSafe
                THEN [attempts[r] EXCEPT ![cascades[r].ordinal].status = "failed"]
                ELSE attempts[r]
  BY DEF Initialize
<1>6. retries[r].state = "retrying" /\ requests[r].status \in {"needs_selection", "failed"} =>
        retries'[r] = RetryMissed(retries[r])
  BY DEF Initialize
<1>7. retries[r].state = "retrying" /\ requests[r].status = "processing" =>
        retries'[r] = retries[r]
  BY DEF Initialize
<1>8. retries[r].state = "awaiting_import" /\ requests[r].status = "queued" =>
        retries'[r] = retries[r]
  BY DEF Initialize
<1>9. retries[r].state \notin {"awaiting_import", "retrying"} => retries'[r] = retries[r]
  BY DEF Initialize
<1>10. (retries[r].state # "retrying" /\ ~Unbound(r)) \/ retries'[r].state \in RetainingRetry =>
         Untaken(r)
  BY DEF Initialize, TypeOK, Untaken
<1> QED
  BY <1>1, <1>2, <1>3, <1>4, <1>5, <1>6, <1>7, <1>8, <1>9, <1>10

LEMMA InitializeLives ==
    ASSUME IInv, TypeOK', Initialize PROVE Lives
<1> SUFFICES ASSUME NEW r \in Requests PROVE Life(r) /\ RowsAgree(r)'
  BY DEF Lives
<1>t. /\ TypeOK /\ RowsAgree(r) /\ RetryIdentity(r) /\ Reserved(r)
      /\ runner[r].pc = "idle" /\ UNCHANGED <<runner, posts, remote>>
  BY InitializeFields DEF IInv, Sound, RowsAgree, Initialize
<1>r. /\ requests[r] \in RequestRow /\ cascades[r] \in CascadeRow /\ retries[r] \in RetryRow
      /\ confirmations[r] \in ConfirmationRow
  BY <1>t, Rows
<1>w. Waits(r)' /\ Backgrounded(r)'
  BY <1>t DEF Waits, Backgrounded
<1>q. /\ requests'[r].external = requests[r].external
      /\ requests'[r].startup = (requests[r].startup \/ Interrupted(r))
      /\ requests'[r].status = IF Unbound(r) THEN "needs_selection"
                           ELSE IF retries[r].state = "retrying"
                                   /\ requests[r].status = "needs_selection"
                           THEN "failed" ELSE requests[r].status
  <2> DEFINE st == IF Unbound(r) THEN "needs_selection"
                   ELSE IF retries[r].state = "retrying" /\ requests[r].status = "needs_selection"
                   THEN "failed" ELSE requests[r].status
             su == requests[r].startup \/ Interrupted(r)
  <2>1. requests'[r] = [requests[r] EXCEPT !.status = st, !.startup = su]
    BY <1>t, InitializeFields
  <2> HIDE DEF st, su
  <2>2. requests'[r].external = requests[r].external /\ requests'[r].startup = su
        /\ requests'[r].status = st
    BY <1>r, <2>1 DEF RequestRow
  <2> QED
    BY <2>2 DEF st, su
<1>1. CASE Unbound(r)
  <2>1. Asking(r) /\ ~Interrupted(r)
    BY <1>1, Where DEF Unbound, Interrupted
  <2>2. /\ cascades'[r].state = "failed" /\ cascades'[r].identity = cascades[r].identity
        /\ cascades'[r].mutation = cascades[r].mutation /\ cascades'[r].final = cascades[r].final
    BY <1>t, <1>r, <1>1, InitializeFields DEF FailCascade, CascadeRow
  <2>3. confirmations'[r].state = "failed"
    BY <1>t, <1>r, <1>1, InitializeFields DEF ConfirmationRow
  <2>4. retries'[r] = retries[r] /\ retries[r].state = "none"
    BY <1>t, <2>1, InitializeFields DEF Asking
  <2>5. Missed(r)'
    BY <1>1, <1>q, <1>w, <2>1, <2>2, <2>3, <2>4 DEF Asking, Missed, Unsubmitted
  <2>6. RowsAgree(r)'
    BY <1>t, <1>w, <2>2, <2>4, <2>5 DEF RowsAgree, Situated, RetryIdentity, Reserved, Owning,
       OwningCascade, RetainingRetry, OwningRetry
  <2>7. Life(r)
    BY <1>t, <2>1, <2>2, <2>4, <2>5 DEF Life, Misses, Keeps
  <2> QED
    BY <2>6, <2>7
<1>2. CASE ~Unbound(r) /\ retries[r].state = "retrying" /\ Missed(r)
  <2>1. retries'[r] = RetryMissed(retries[r])
    BY <1>t, <1>2, InitializeFields DEF Missed
  <2>2. /\ retries'[r].state \in {"queued", "expired"}
        /\ retries'[r].state = "queued" => retries'[r].count < RetryLimit
        /\ retries'[r].count = retries[r].count /\ retries'[r].identity = retries[r].identity
    BY <1>t, <1>r, <2>1, RetryMissedFields
  <2>3. UNCHANGED <<cascades[r], confirmations[r], attempts[r]>> /\ SameProviders(r)
    BY <1>t, <1>2, InitializeFields DEF SameProviders
  <2>4. requests'[r].status = "failed" /\ ~Interrupted(r)
    BY <1>2, <1>q DEF Missed, Unsubmitted, Interrupted
  <2>5. Missed(r)'
    BY <1>2, <1>q, <1>w, <2>2, <2>3, <2>4 DEF Missed, Unsubmitted
  <2>6. Reserved(r)'
    <3>1. CASE retries'[r].state = "queued"
      <4>1. Untaken(r) /\ Owning(r)
        BY <1>t, <1>2, <3>1, InitializeFields DEF Owning, RetainingRetry, OwningRetry
      <4>2. ASSUME NEW o \in Ordinals, attempts[r][o].provider # None
            PROVE  reservations'[Policy[o]][attempts[r][o].provider] = r
        <5>1. attempts[r][o].provider \in Providers /\ Policy[o] \in Backends
          BY <1>t, <4>2, Rows, OrdinalIsBackend DEF AttemptRow
        <5> QED
          BY <1>t, <4>1, <4>2, <5>1 DEF Reserved, Untaken
      <4> QED
        BY <2>3, <4>2 DEF Reserved
    <3>2. CASE retries'[r].state = "expired"
      BY <1>2, <2>3, <3>2 DEF Reserved, Owning, Missed, OwningCascade, RetainingRetry, OwningRetry
    <3> QED
      BY <2>2, <3>1, <3>2
  <2>7. RowsAgree(r)'
    BY <1>t, <1>w, <1>2, <2>2, <2>3, <2>5, <2>6 DEF RowsAgree, Situated, RetryIdentity
  <2>8. Life(r)
    BY <1>t, <1>2, <2>2, <2>3, <2>5 DEF Life, Settles, Keeps
  <2> QED
    BY <2>7, <2>8
<1>3. CASE ~Unbound(r) /\ ~(retries[r].state = "retrying" /\ Missed(r))
  <2>a. retries[r].state = "retrying" => requests[r].status = "processing"
    BY <1>t, <1>3 DEF RowsAgree, Situated, Fresh, Seeking, Asking, Crossed, Doubtful, Accepted,
       Imported, Lost, ImportedLate
  <2>b. retries[r].state = "awaiting_import" => requests[r].status = "queued"
    BY <1>t DEF RowsAgree, Situated, Fresh, Seeking, Asking, Missed, Crossed, Doubtful, Accepted,
       Imported, Lost, ImportedLate
  <2>1. /\ retries[r].state = "retrying" => requests[r].status = "processing"
        /\ retries[r].state = "awaiting_import" => requests[r].status = "queued"
    BY <2>a, <2>b
  <2>2. /\ UNCHANGED <<cascades[r], confirmations[r], attempts[r], retries[r]>>
        /\ requests'[r].status = requests[r].status
    <3>1. UNCHANGED <<cascades[r], confirmations[r], attempts[r]>>
      BY <1>t, <1>3, InitializeFields
    <3>2. retries'[r] = retries[r]
      BY <1>t, <1>r, <2>1, InitializeFields DEF RetryRow
    <3>3. requests'[r].status = requests[r].status
      BY <1>3, <1>q, <2>1
    <3> QED
      BY <3>1, <3>2, <3>3
  <2>3. Untaken(r)
    BY <1>t, <1>3, <2>2, InitializeFields DEF RetainingRetry, OwningRetry
  <2>4. CASE Interrupted(r)
    <3>1. Crossed(r)
      BY <2>4, Where DEF Interrupted
    <3>2. Bound(r)' = Bound(r) /\ CurrentAttempt(r)' = CurrentAttempt(r) /\ Keeps(r) /\ MovesOn(r)
      BY <1>t, <1>q, <2>2, <2>4, <3>1 DEF Bound, CurrentAttempt, Current, Keeps, MovesOn
    <3>3. Crossed(r)'
      BY <1>q, <1>w, <2>2, <3>1, <3>2 DEF Crossed
    <3>4. Reserved(r)'
      <4>1. ASSUME NEW o \in Ordinals, Owning(r), attempts[r][o].provider # None
            PROVE  reservations'[Policy[o]][attempts[r][o].provider] = r
        <5>1. attempts[r][o].provider \in Providers /\ Policy[o] \in Backends
          BY <1>t, <4>1, Rows, OrdinalIsBackend DEF AttemptRow
        <5> QED
          BY <1>t, <2>3, <4>1, <5>1 DEF Reserved, Untaken
      <4> QED
        BY <2>2, <4>1 DEF Reserved, Owning
    <3>5. RowsAgree(r)'
      BY <1>t, <1>w, <2>2, <3>3, <3>4 DEF RowsAgree, Situated, RetryIdentity
    <3>6. Life(r)
      BY <3>1, <3>2, <3>3 DEF Life, Proceeds, Underway
    <3> QED
      BY <3>5, <3>6
  <2>5. CASE ~Interrupted(r)
    <3>1. requests'[r] = requests[r]
      <4>1. requests[r].startup \in BOOLEAN
        BY <1>r DEF RequestRow
      <4>2. requests'[r] = [requests[r] EXCEPT !.status = requests[r].status,
                                               !.startup = requests[r].startup]
        BY <1>t, <1>3, <2>1, <2>5, <4>1, InitializeFields
      <4> QED
        BY <1>r, <4>2 DEF RequestRow
    <3>2. Still(r)
      BY <1>t, <2>2, <2>3, <3>1 DEF Still
    <3> QED
      BY <1>t, <3>2, StillLives
  <2> QED
    BY <2>4, <2>5
<1> QED
  BY <1>1, <1>2, <1>3

-----------------------------------------------------------------------------
(* Every step of the system                                                *)

LEMMA ClosesLives ==
    ASSUME IInv, TypeOK', NEW r \in Requests,
           SearchIsAmbiguous(r) \/ SearchRaises(r) \/ CloseDuplicate(r)
    PROVE  Lives
<1>1. PICK status \in {"needs_selection", "failed"} : Terminalize(r, status)
  BY DEF SearchIsAmbiguous, SearchRaises, CloseDuplicate
<1>2. runner[r].pc \in {"searching", "resolved", "forced"} /\ cascades[r].mutation = None
  BY <1>1 DEF SearchIsAmbiguous, SearchRaises, CloseDuplicate, Terminalize, MayTerminalize
<1>3. Seeking(r)
  BY <1>2, Where
<1> QED
  BY <1>1, <1>3, TerminalizeLives DEF Terminalize, world

LEMMA MissesLives ==
    ASSUME IInv, TypeOK', NEW r \in Requests, SearchMisses(r) \/ PreflightMisses(r) PROVE Lives
<1>1. PICK outcome \in {"miss", "unavailable"}, notFound \in BOOLEAN : Advance(r, outcome, notFound)
  BY DEF SearchMisses, PreflightMisses
<1>2. Seeking(r)
  BY <1>1, Where DEF Advance, AdvanceToNext, Exhaust, Searching
<1> QED
  BY <1>1, <1>2, AdvanceToNextLives, ExhaustLives DEF Advance

LEMMA RunnerLives ==
    ASSUME IInv, TypeOK', NEW r \in Requests, RunnerStep(r) PROVE Lives
BY SelectLives, BeginLives, MissesLives, ClosesLives, PromptLives, ResolveLives, ForceOwnerLives,
   LockLives, SubmitLives, ResultLives, FinishLives DEF RunnerStep

\* Reading an answer, letting one go, and what a backend does by itself.
LEMMA WatchLives ==
    ASSUME IInv, TypeOK', NEW r \in Requests,
           \/ Poll(r) \/ BookBotReads(r) \/ RemoteMoves(r) \/ BookBotSkips \/ Ready
           \/ (\E b \in Backends : DropPoll(b)) \/ UNCHANGED vars
    PROVE  Lives
<1>1. UNCHANGED <<stored, runner, posts>>
  BY DEF Poll, BookBotReads, RemoteMoves, BookBotSkips, Ready, DropPoll, vars, world
<1>2. CASE RemoteMoves(r)
  <2>1. \A q \in Requests : remote[q] = "completed" => remote'[q] = "completed"
    BY <1>2 DEF RemoteMoves, IInv, TypeOK
  <2> QED
    BY <1>1, <2>1, QuietLives
<1>3. CASE ~RemoteMoves(r)
  <2>1. UNCHANGED remote
    BY <1>3 DEF Poll, BookBotReads, BookBotSkips, Ready, DropPoll, vars, world
  <2> QED
    BY <1>1, <2>1, QuietLives
<1> QED
  BY <1>2, <1>3

LEMMA StepLives ==
    ASSUME IInv, [Next]_vars PROVE TypeOK' /\ Lives
<1>t. TypeOK'
  BY TypeStep DEF IInv
<1>1. CASE ClaimDueRetries \/ Crash \/ Initialize
  BY <1>t, <1>1, ClaimDueLives, CrashLives, InitializeLives
<1>2. CASE Ready \/ BookBotSkips \/ (\E b \in Backends : DropPoll(b)) \/ UNCHANGED vars
  <2> SUFFICES ASSUME NEW q \in Requests PROVE Life(q) /\ RowsAgree(q)'
    BY <1>t DEF Lives
  <2>1. Lives
    BY <1>t, <1>2, WatchLives
  <2> QED
    BY <2>1 DEF Lives
<1>3. ASSUME NEW r \in Requests, ReconcileStep(r) \/ BookBotReads(r) \/ BookBotWrites(r)
      PROVE  Lives
  BY <1>t, <1>3, WatchLives, RecoverLives, RecoverFailureLives, ObserveLives, BookBotLives
     DEF ReconcileStep
<1>4. ASSUME NEW r \in Requests, Intake(r) \/ RunNext(r) \/ RunnerStep(r) PROVE Lives
  BY <1>t, <1>4, IntakeLives, RunNextLives, RunnerLives
<1>5. ASSUME NEW r \in Requests, BindPrompt(r) \/ ClaimSelection(r) \/ ClosePrompt(r) PROVE Lives
  BY <1>t, <1>5, TouchLives, ClaimSelectionLives, ClosePromptLives
<1>6. ASSUME NEW r \in Requests, Fault(r) \/ Resume(r) \/ RetryFallsDue(r) \/ RemoteMoves(r)
      PROVE  Lives
  BY <1>t, <1>6, FaultLives, ResumeLives, TouchLives, WatchLives
<1> QED
  BY <1>t, <1>1, <1>2, <1>3, <1>4, <1>5, <1>6 DEF Next

-----------------------------------------------------------------------------
(* The invariant is inductive                                              *)

\* An owner after a step owned the work before, or has just claimed it.
LEMMA OwnedBefore ==
    ASSUME IInv, NEW r \in Requests, Life(r), Claimed(r)', cascades'[r].identity # None
    PROVE  \/ Claimed(r) /\ cascades'[r].identity = cascades[r].identity
           \/ Claims(r)
<1> USE DEF Claimed, OwningCascade, OwningRetry
<1>t. RowsAgree(r) /\ RetryIdentity(r)
  BY DEF IInv, Sound, RowsAgree
<1>1. CASE Still(r)
  BY <1>1 DEF Still
<1>2. CASE Opens(r)
  BY <1>2 DEF Opens, Fresh, Keeps
<1>3. CASE Searches(r) \/ Asks(r) \/ Commits(r)
  BY <1>3 DEF Searches, Asks, Commits, Seeking, SearchSafe, Keeps
<1>4. CASE Answers(r)
  BY <1>4 DEF Answers, Asking, Keeps
<1>5. CASE Misses(r)
  BY <1>5 DEF Misses, Seeking, Asking, SearchSafe, Keeps
<1>6. CASE Settles(r)
  BY <1>6 DEF Settles, Missed, SameRetry, Keeps
<1>7. CASE SeeksAgain(r)
  BY <1>7 DEF SeeksAgain
<1>8. CASE Submits(r)
  BY <1>8 DEF Submits, Crossed
<1>9. CASE Proceeds(r) \/ Loses(r)
  BY <1>9 DEF Proceeds, Loses, Underway, Crossed, Doubtful, Accepted, Keeps
<1>10. CASE Acquires(r)
  BY <1>10 DEF Acquires, Underway, Seeking, SearchSafe, Crossed, Doubtful, Accepted, Lost, Keeps
<1>11. CASE Rests(r)
  BY <1>11 DEF Rests, Lost, Imported, ImportedLate, SameRetry, Keeps
<1> QED
  BY <1>1, <1>2, <1>3, <1>4, <1>5, <1>6, <1>7, <1>8, <1>9, <1>10, <1>11 DEF Life

LEMMA SoleStep ==
    ASSUME IInv, TypeOK', Lives, NEW r \in Requests PROVE Sole(r)'
<1> SUFFICES ASSUME NEW q \in Requests, q # r, Claimed(r)', Claimed(q)',
                    cascades'[r].identity # None, cascades'[r].identity = cascades'[q].identity
             PROVE  FALSE
  BY DEF Sole, Claimed
<1>1. \/ Claimed(r) /\ cascades'[r].identity = cascades[r].identity
      \/ Claims(r)
  BY OwnedBefore DEF Lives
<1>2. \/ Claimed(q) /\ cascades'[q].identity = cascades[q].identity
      \/ Claims(q)
  BY OwnedBefore DEF Lives
<1>3. CASE Claims(r)
  BY <1>2, <1>3, NoneIsNothing DEF Claims
<1>4. CASE Claims(q)
  BY <1>1, <1>4, NoneIsNothing DEF Claims
<1> QED
  BY <1>1, <1>2, <1>3, <1>4 DEF IInv, Sound, Sole

\* The requests past their boundary, told from their rows.
PastBoundary(r) ==
    \/ requests[r].status \in {"queued", "completed"} \/ requests[r].external
    \/ requests[r].status = "processing" /\ cascades[r].mutation # None

LEMMA CommittedRows ==
    ASSUME NEW r \in Requests, Situated(r) PROVE Committed(r) <=> PastBoundary(r)
<1>1. CASE Fresh(r) \/ Seeking(r) \/ Asking(r) \/ Missed(r)
  <2>1. ~PastBoundary(r)
    BY <1>1 DEF Fresh, Seeking, Asking, Missed, Unsubmitted, PastBoundary
  <2>2. Committed(r) => PastBoundary(r)
    BY DEF Committed, PastBoundary, Crossed, Doubtful, Accepted, Imported, Lost, ImportedLate,
       HandedOff
  <2> QED
    BY <1>1, <2>1, <2>2
<1>2. CASE Committed(r)
  BY <1>2 DEF Committed, PastBoundary, Crossed, Doubtful, Accepted, Imported, Lost, ImportedLate,
     HandedOff
<1> QED
  BY <1>1, <1>2 DEF Situated, Committed

\* What committed stays so, at its backend, with its correlation.
LEMMA CommittedMoves ==
    ASSUME IInv, NEW r \in Requests, Committed(r), Life(r), RowsAgree(r)'
    PROVE  /\ Committed(r)' /\ MovesOn(r) /\ Current(r)' = Current(r)
           /\ Still(r) \/ Submits(r) \/ Proceeds(r) \/ Acquires(r) \/ Loses(r) \/ Rests(r)
<1>p. PastBoundary(r) /\ Situated(r)
  BY CommittedRows DEF IInv, Sound, RowsAgree
<1>n. ~Fresh(r) /\ ~Seeking(r) /\ ~Asking(r) /\ ~Missed(r)
  BY <1>p DEF Fresh, Seeking, Asking, Missed, Unsubmitted, PastBoundary
<1>1. CASE Still(r)
  <2>1. MovesOn(r) /\ Current(r)' = Current(r)
    BY <1>1 DEF Still, MovesOn, Current
  <2>2. Situated(r)' /\ PastBoundary(r)'
    BY <1>1, <1>p DEF RowsAgree, Still, PastBoundary
  <2>3. ~Fresh(r)' /\ ~Seeking(r)' /\ ~Asking(r)' /\ ~Missed(r)'
    BY <2>2 DEF Fresh, Seeking, Asking, Missed, Unsubmitted, PastBoundary
  <2>4. Committed(r)'
    BY <2>2, <2>3 DEF Situated, Committed
  <2> QED
    BY <1>1, <2>1, <2>4
<1>2. CASE Submits(r) \/ Proceeds(r)
  BY <1>2 DEF Submits, Proceeds, Underway, Committed, MovesOn, Current
<1>3. CASE Acquires(r)
  BY <1>3, <1>n DEF Acquires, Committed, MovesOn, Current
<1>4. CASE Loses(r)
  BY <1>4 DEF Loses, Committed, MovesOn, Current
<1>5. CASE Rests(r)
  BY <1>5 DEF Rests, Committed, MovesOn, Current
<1> QED
  BY <1>n, <1>1, <1>2, <1>3, <1>4, <1>5 DEF Life, Opens, Searches, Claims, Asks, Answers, Misses,
     Settles, SeeksAgain, Commits

\* The loops and BookBot only ever hold what they have just read, or held before.
LEMMA HeldBefore ==
    ASSUME TypeOK, [Next]_vars, NEW r \in Requests
    PROVE  /\ \A b \in Backends : poll'[b].kind # "none" /\ poll'[b].request = r =>
                poll'[b] = poll[b] \/ (Poll(r) /\ b = Current(r))
           /\ bookbot'.request = r => bookbot' = bookbot \/ BookBotReads(r)
<1> USE NoneIsNothing
<1>w. ASSUME UNCHANGED <<poll, bookbot>>
      PROVE  /\ \A b \in Backends : poll'[b].kind # "none" /\ poll'[b].request = r =>
                   poll'[b] = poll[b] \/ (Poll(r) /\ b = Current(r))
             /\ bookbot'.request = r => bookbot' = bookbot \/ BookBotReads(r)
  BY <1>w
<1>r. ASSUME NEW q \in Requests, NEW b \in Backends, NEW kind, Records(b, kind, q)
      PROVE  /\ \A c \in Backends : poll'[c].kind # "none" => poll'[c] = poll[c]
             /\ bookbot' = bookbot
  BY <1>r DEF Records, NoPoll, TypeOK
<1>1. CASE ClaimDueRetries \/ Initialize \/ Ready \/ UNCHANGED vars
  BY <1>1, <1>w DEF ClaimDueRetries, Initialize, Ready, vars, world
<1>2. CASE Crash
  BY <1>2 DEF Crash, NoPoll
<1>3. CASE BookBotSkips
  BY <1>3 DEF BookBotSkips, IdleBookBot
<1>4. ASSUME NEW b \in Backends, DropPoll(b)
      PROVE  /\ \A c \in Backends : poll'[c].kind # "none" => poll'[c] = poll[c]
             /\ bookbot' = bookbot
  BY <1>4 DEF DropPoll, NoPoll, TypeOK
<1>5. ASSUME NEW q \in Requests, Poll(q)
      PROVE  /\ \A c \in Backends : poll'[c].kind # "none" /\ poll'[c].request = r =>
                   poll'[c] = poll[c] \/ (Poll(r) /\ c = Current(r))
             /\ bookbot' = bookbot
  <2>1. PICK row : /\ row.request = q
                   /\ poll' = [poll EXCEPT ![Current(q)] = row]
    BY <1>5 DEF Poll
  <2>2. \A c \in Backends : c # Current(q) => poll'[c] = poll[c]
    BY <2>1 DEF TypeOK
  <2>3. poll'[Current(q)] = row
    BY <2>1, Rows DEF TypeOK
  <2>4. ASSUME NEW c \in Backends, poll'[c].request = r
        PROVE  poll'[c] = poll[c] \/ (Poll(r) /\ c = Current(r))
    <3>1. CASE c = Current(q)
      <4>1. q = r
        BY <2>1, <2>3, <2>4, <3>1
      <4> QED
        BY <1>5, <3>1, <4>1
    <3> QED
      BY <2>2, <3>1
  <2>5. bookbot' = bookbot
    BY <1>5 DEF Poll
  <2> QED
    BY <2>4, <2>5
<1>6. ASSUME NEW q \in Requests,
             RecoverHandoff(q) \/ RecoverFailure(q) \/ ObserveTerminal(q) \/ ProveBlocked(q)
      PROVE  /\ \A c \in Backends : poll'[c].kind # "none" => poll'[c] = poll[c]
             /\ bookbot' = bookbot
  <2>1. PICK b \in Backends, kind \in {"recover", "observe", "prove"} : Records(b, kind, q)
    BY <1>6, Rows DEF RecoverHandoff, RecoverFailure, ObserveTerminal, ProveBlocked, Backends
  <2> QED
    BY <2>1, <1>r
<1>7. ASSUME NEW q \in Requests, BookBotReads(q)
      PROVE  UNCHANGED poll /\ (bookbot'.request = r => BookBotReads(r))
  BY <1>7 DEF BookBotReads
<1>8. ASSUME NEW q \in Requests, BookBotWrites(q)
      PROVE  UNCHANGED poll /\ bookbot'.request = None
  BY <1>8 DEF BookBotWrites, IdleBookBot
<1>9. ASSUME NEW q \in Requests, RunnerStep(q) PROVE UNCHANGED <<poll, bookbot>>
  <2>1. ASSUME NEW status, Terminalize(q, status) PROVE UNCHANGED world
    BY <2>1 DEF Terminalize
  <2>2. ASSUME NEW outcome, NEW notFound, Advance(q, outcome, notFound) PROVE UNCHANGED world
    BY <2>2 DEF Advance, AdvanceToNext, Exhaust
  <2>3. ASSUME NEW owners, Collide(q, owners) PROVE UNCHANGED world
    BY <2>3 DEF Collide
  <2>4. CASE Resolve(q)
    BY <2>1, <2>3, <2>4 DEF Resolve, Reserve, world
  <2>5. CASE SelectIdentity(q)
    BY <2>3, <2>5 DEF SelectIdentity, world
  <2>6. CASE SearchMisses(q) \/ SearchIsAmbiguous(q) \/ SearchRaises(q)
             \/ PreflightMisses(q) \/ CloseDuplicate(q)
    BY <2>1, <2>2, <2>6 DEF SearchMisses, SearchIsAmbiguous, SearchRaises, PreflightMisses,
       CloseDuplicate, world
  <2>7. CASE BeginAttempt(q) \/ Prompt(q) \/ ForceOwner(q) \/ Lock(q) \/ FinishRetry(q)
    BY <2>7 DEF BeginAttempt, Prompt, ForceOwner, Lock, FinishRetry, world
  <2>8. CASE Submit(q) \/ Handoff(q) \/ Quarantine(q) \/ Attach(q)
    BY <2>8 DEF Submit, Handoff, Quarantine, Attach, world
  <2> QED
    BY <1>9, <2>4, <2>5, <2>6, <2>7, <2>8 DEF RunnerStep
<1>10. ASSUME NEW q \in Requests,
              \/ Intake(q) \/ RunNext(q) \/ BindPrompt(q) \/ ClaimSelection(q) \/ ClosePrompt(q)
              \/ Fault(q) \/ Resume(q) \/ RetryFallsDue(q) \/ RemoteMoves(q)
       PROVE  UNCHANGED <<poll, bookbot>>
  BY <1>10 DEF Intake, RunNext, BindPrompt, ClaimSelection, ClosePrompt, Fault, Resume,
     RetryFallsDue, RemoteMoves, world
<1>11. CASE \E b \in Backends : DropPoll(b)
  BY <1>4, <1>11
<1>12. CASE \E q \in Requests : ReconcileStep(q)
  BY <1>5, <1>6, <1>12 DEF ReconcileStep
<1>13. CASE \E q \in Requests : BookBotReads(q) \/ BookBotWrites(q)
  BY <1>7, <1>8, <1>13
<1>14. CASE \E q \in Requests :
              \/ RunnerStep(q)
              \/ Intake(q) \/ RunNext(q) \/ BindPrompt(q) \/ ClaimSelection(q) \/ ClosePrompt(q)
              \/ Fault(q) \/ Resume(q) \/ RetryFallsDue(q) \/ RemoteMoves(q)
  BY <1>9, <1>10, <1>14, <1>w
<1> QED
  BY <1>1, <1>2, <1>3, <1>11, <1>12, <1>13, <1>14 DEF Next

LEMMA PolledStep ==
    ASSUME IInv, [Next]_vars, Lives, NEW r \in Requests PROVE Polled(r)'
<1> SUFFICES ASSUME NEW b \in Backends, poll'[b].kind # "none", poll'[b].request = r
             PROVE  /\ Committed(r)'
                    /\ requests'[r].status = "processing" => requests'[r].startup
                    /\ poll'[b].kind \in {"observe", "prove"} => requests'[r].external
                    /\ poll'[b].kind = "prove" =>
                         poll'[b].seen = "completed" /\ Current(r)' = "shelfarr"
                    /\ poll'[b].kind \in {"observe", "prove"} /\ poll'[b].seen = "completed" =>
                         b = "shelfarr" /\ remote'[r] = "completed"
  BY DEF Polled
<1>t. TypeOK /\ Life(r) /\ RowsAgree(r)' /\ Polled(r)
  BY DEF IInv, Sound, Lives
<1>1. CASE poll'[b] = poll[b]
  <2>1. /\ Committed(r)
        /\ requests[r].status = "processing" => requests[r].startup
        /\ poll[b].kind \in {"observe", "prove"} => requests[r].external
        /\ poll[b].kind = "prove" => poll[b].seen = "completed" /\ Current(r) = "shelfarr"
        /\ poll[b].kind \in {"observe", "prove"} /\ poll[b].seen = "completed" =>
             b = "shelfarr" /\ remote[r] = "completed"
    BY <1>t, <1>1 DEF Polled
  <2>2. Committed(r)' /\ MovesOn(r) /\ Current(r)' = Current(r)
    BY <1>t, <2>1, CommittedMoves
  <2> QED
    BY <1>1, <2>1, <2>2 DEF MovesOn
<1>2. CASE Poll(r) /\ b = Current(r)
  <2>1. /\ UNCHANGED <<stored, runner, remote>>
        /\ \/ /\ Unconfirmed(r) /\ poll'[b].kind = "recover"
           \/ /\ Correlated(r) /\ poll'[b].kind = "observe" /\ poll'[b].seen = remote[r]
              /\ remote[r] = "completed" => b = "shelfarr"
           \/ /\ requests[r].status = "failed" /\ ExactBlockedOwner(r) /\ remote[r] = "completed"
              /\ b = "shelfarr" /\ poll'[b].kind = "prove" /\ poll'[b].seen = remote[r]
    <3>1. PICK kind \in {"recover", "observe", "prove"} :
             /\ \/ kind = "recover" /\ Unconfirmed(r) /\ remote[r] \notin {"absent", "pending"}
                \/ kind = "observe" /\ Correlated(r) /\ remote[r] = "failed"
                \/ /\ kind = "observe" /\ Correlated(r) /\ remote[r] = "completed"
                   /\ b = "shelfarr"
                \/ /\ kind = "prove" /\ requests[r].status = "failed"
                   /\ ExactBlockedOwner(r) /\ remote[r] = "completed"
                   /\ b = "shelfarr"
             /\ poll' = [poll EXCEPT ![b] = [kind |-> kind, request |-> r, seen |-> remote[r]]]
      BY <1>2 DEF Poll
    <3>2. poll'[b] = [kind |-> kind, request |-> r, seen |-> remote[r]]
      BY <1>t, <3>1 DEF TypeOK
    <3>3. poll'[b].kind = kind /\ poll'[b].seen = remote[r]
      BY <3>2
    <3>4. UNCHANGED <<stored, runner, remote>>
      BY <1>2 DEF Poll
    <3> QED
      BY <3>1, <3>3, <3>4
  <2>2. /\ Committed(r)
        /\ requests[r].status = "processing" => requests[r].startup
    <3>1. CASE Unconfirmed(r)
      BY <3>1, Where DEF Unconfirmed, Committed, Seeking, Unsubmitted
    <3>2. CASE Correlated(r) \/ (requests[r].status = "failed" /\ ExactBlockedOwner(r))
      BY <3>2, Where DEF Correlated, ExactBlockedOwner, Committed
    <3> QED
      BY <2>1, <3>1, <3>2
  <2>3. poll'[b].kind \in {"observe", "prove"} => requests[r].external
    BY <2>1 DEF Correlated, ExactBlockedOwner
  <2>4. Committed(r)' /\ Current(r)' = Current(r)
    BY <1>t, <2>2, CommittedMoves
  <2> QED
    BY <1>2, <2>1, <2>2, <2>3, <2>4 DEF stored
<1> QED
  BY <1>t, <1>1, <1>2, HeldBefore

LEMMA BookBotStep ==
    ASSUME IInv, [Next]_vars, Lives, NEW r \in Requests PROVE BookBotHolds(r)'
<1> SUFFICES ASSUME bookbot'.request = r
             PROVE  /\ (Accepted(r) \/ Lost(r))'
                    /\ Current(r)' = "lazylibrarian" /\ remote'[r] = "completed"
  BY DEF BookBotHolds
<1>t. TypeOK /\ Life(r) /\ RowsAgree(r)' /\ BookBotHolds(r)
  BY DEF IInv, Sound, Lives
<1>1. /\ Accepted(r) \/ Lost(r)
      /\ Current(r) = "lazylibrarian" /\ remote[r] = "completed"
  <2>1. CASE bookbot' = bookbot
    BY <1>t, <2>1 DEF BookBotHolds
  <2>2. CASE BookBotReads(r)
    BY <2>2, Where DEF BookBotReads, ExactBlockedOwner
  <2> QED
    BY <1>t, <2>1, <2>2, HeldBefore
<1>2. /\ MovesOn(r) /\ Current(r)' = Current(r) /\ Committed(r)'
      /\ Still(r) \/ Submits(r) \/ Proceeds(r) \/ Acquires(r) \/ Loses(r) \/ Rests(r)
  BY <1>t, <1>1, CommittedMoves DEF Committed
<1>3. ~ByItsImporter(r)
  BY <1>1 DEF ByItsImporter
<1>e. requests[r].external /\ requests'[r].external
  BY <1>1, <1>2 DEF Accepted, Lost, HandedOff, MovesOn
<1>4. CASE Still(r)
  <2>1. requests'[r].status \in {"queued", "failed"} /\ requests'[r] = requests[r]
    BY <1>1, <1>4 DEF Still, Accepted, Lost
  <2> QED
    BY <1>1, <1>2, <1>e, <2>1 DEF Committed, Crossed, Doubtful, Imported, ImportedLate, MovesOn
<1>5. CASE Submits(r) \/ Acquires(r)
  <2>1. ~Submits(r)
    BY <1>e DEF Submits, Crossed
  <2> QED
    BY <1>1, <1>3, <1>5, <2>1 DEF Acquires
<1>6. CASE Proceeds(r) \/ Loses(r)
  <2>1. Accepted(r)' \/ Lost(r)'
    BY <1>6, <1>e DEF Proceeds, Loses, Underway, Crossed, Doubtful
  <2> QED
    BY <1>1, <1>2, <2>1 DEF MovesOn
<1>7. CASE Rests(r)
  <2>1. ~Imported(r) /\ ~ImportedLate(r)
    BY <1>1 DEF Accepted, Lost, Imported, ImportedLate
  <2>2. Lost(r)'
    BY <1>3, <1>7, <2>1 DEF Rests
  <2> QED
    BY <1>1, <1>2, <2>2 DEF MovesOn
<1> QED
  BY <1>2, <1>4, <1>5, <1>6, <1>7

\* While the process is down nothing runs.
LEMMA DownStep ==
    ASSUME IInv, [Next]_vars, phase' = "down", NEW r \in Requests
    PROVE  runner'[r].pc = "idle"
<1> SUFFICES ASSUME ~Crash PROVE runner'[r].pc = "idle"
  BY DEF Crash, IdleRunner
<1>1. ~ClaimDueRetries /\ ~Initialize /\ ~Ready
  BY DEF ClaimDueRetries, Initialize, Ready
<1>r. ASSUME NEW q \in Requests, RunnerStep(q) PROVE runner[q].pc # "idle" /\ phase' = phase
  <2>1. ASSUME NEW status, Terminalize(q, status) PROVE phase' = phase
    BY <2>1 DEF Terminalize
  <2>2. ASSUME NEW outcome, NEW notFound, Advance(q, outcome, notFound) PROVE phase' = phase
    BY <2>2 DEF Advance, AdvanceToNext, Exhaust
  <2>3. ASSUME NEW owners, Collide(q, owners) PROVE phase' = phase
    BY <2>3 DEF Collide
  <2>4. CASE Resolve(q)
    BY <2>1, <2>3, <2>4 DEF Resolve, Reserve
  <2>5. CASE SelectIdentity(q)
    BY <2>3, <2>5 DEF SelectIdentity
  <2>6. CASE SearchMisses(q) \/ SearchIsAmbiguous(q) \/ SearchRaises(q)
             \/ PreflightMisses(q) \/ CloseDuplicate(q)
    BY <2>1, <2>2, <2>6 DEF SearchMisses, SearchIsAmbiguous, SearchRaises, PreflightMisses,
       CloseDuplicate
  <2>7. CASE BeginAttempt(q) \/ Prompt(q) \/ ForceOwner(q) \/ Lock(q) \/ FinishRetry(q)
    BY <2>7 DEF BeginAttempt, Prompt, ForceOwner, Lock, FinishRetry
  <2>8. CASE Submit(q) \/ Handoff(q) \/ Quarantine(q) \/ Attach(q)
    BY <2>8 DEF Submit, Handoff, Quarantine, Attach, PersistResult
  <2> QED
    BY <1>r, <2>4, <2>5, <2>6, <2>7, <2>8 DEF RunnerStep
<1>d. phase = "down" => \A q \in Requests : runner[q].pc = "idle"
  BY DEF IInv, Sound
<1>2. ASSUME NEW q \in Requests, RunnerStep(q) PROVE FALSE
  BY <1>d, <1>r, <1>2
<1>3. ASSUME NEW q \in Requests,
             Intake(q) \/ RunNext(q) \/ ClaimSelection(q) \/ Fault(q) \/ Resume(q)
      PROVE  FALSE
  BY <1>d, <1>3 DEF Intake, RunNext, ClaimSelection, PromptOpen, Fault, Resume
<1>4. ASSUME NEW q \in Requests, ReconcileStep(q) \/ BookBotReads(q) \/ BookBotWrites(q)
      PROVE  UNCHANGED <<runner, phase>>
  BY <1>4 DEF ReconcileStep, Poll, RecoverHandoff, RecoverFailure, ObserveTerminal, ProveBlocked,
     Records, BookBotReads, BookBotWrites
<1>5. ASSUME NEW q \in Requests,
             BindPrompt(q) \/ ClosePrompt(q) \/ RetryFallsDue(q) \/ RemoteMoves(q)
      PROVE  UNCHANGED <<runner, phase>>
  BY <1>5 DEF BindPrompt, ClosePrompt, RetryFallsDue, RemoteMoves
<1>6. CASE BookBotSkips \/ (\E b \in Backends : DropPoll(b)) \/ UNCHANGED vars
  BY <1>d, <1>6 DEF BookBotSkips, DropPoll, vars
<1>7. UNCHANGED <<runner, phase>>
  BY <1>1, <1>2, <1>3, <1>4, <1>5, <1>6 DEF Next, BookBotSkips, DropPoll, vars
<1> QED
  BY <1>d, <1>7

LEMMA InvStep == IInv /\ [Next]_vars => IInv'
<1> SUFFICES ASSUME IInv, [Next]_vars PROVE IInv'
  OBVIOUS
<1>1. TypeOK' /\ Lives
  BY StepLives
<1>2. SubmissionInv'
  BY SubmissionStep DEF IInv
<1>3. ASSUME NEW r \in Requests PROVE Sound(r)'
  <2>1. RowsAgree(r)'
    BY <1>1 DEF Lives
  <2>2. Polled(r)' /\ BookBotHolds(r)' /\ Sole(r)'
    BY <1>1, PolledStep, BookBotStep, SoleStep
  <2>3. phase' = "down" => runner'[r].pc = "idle"
    BY DownStep
  <2> QED
    BY <2>1, <2>2, <2>3 DEF Sound
<1> QED
  BY <1>1, <1>2, <1>3 DEF IInv

LEMMA InvInit == Init => IInv
<1> SUFFICES ASSUME Init PROVE IInv
  OBVIOUS
<1>1. TypeOK /\ SubmissionInv
  BY InitType, SubmissionInit
<1>2. ASSUME NEW r \in Requests PROVE Sound(r)
  <2>1. CurrentAttempt(r).status = "pending"
    BY FirstOrdinal DEF Init, CurrentAttempt
  <2>2. Fresh(r)
    BY <2>1 DEF Init, IdleRunner, Fresh, Unsubmitted, Ahead
  <2>3. RowsAgree(r)
    BY <2>2 DEF Init, IdleRunner, RowsAgree, Situated, RetryIdentity, Backgrounded, Reserved
  <2>4. Polled(r) /\ BookBotHolds(r)
    BY NoneIsNothing DEF Init, NoPoll, IdleBookBot, Polled, BookBotHolds
  <2>5. Sole(r)
    BY DEF Init, Sole
  <2> QED
    BY <2>3, <2>4, <2>5 DEF Init, Sound
<1> QED
  BY <1>1, <1>2 DEF IInv

-----------------------------------------------------------------------------
(* What holds of every reachable state                                     *)

THEOREM Invariance == Spec => []IInv
BY InvInit, InvStep, PTL DEF Spec

\* One work has one owner over the cascades and the retries, although each of
\* the two unique indexes sees only its own table.
THEOREM OneOwnerPerWorkHolds == Spec => []OneOwnerPerWork
BY Invariance, InvOneOwner, PTL

\* A work has one owner, and every backend identifier resolved for it stays
\* reserved to that owner while the work may still be acquired.
THEOREM OwnershipHeldHolds == Spec => []OwnershipHeld
<1>1. IInv => OwnershipHeld
  BY InvOneOwner, InvHistory DEF OwnershipHeld, HistoryConsistent
<1> QED
  BY <1>1, Invariance, PTL

\* A retry that waits keeps every row the worker's next claim selects on, so it
\* is never stranded while it owns its work.
THEOREM QueuedRetryClaimableHolds == Spec => []QueuedRetryClaimable
BY Invariance, InvClaimable, PTL

\* Whatever ran while a runner waited for a backend, the transaction it opens
\* next is accepted, above all the one that records a submission.
THEOREM RunnerAcceptedHolds == Spec => []RunnerAccepted
BY Invariance, InvAccepted, PTL

\* The retry, the cascade, the reservations and the backend's job of a request
\* tell one story: nothing is fulfilled without a completed job, and no import
\* is awaited or blocked without the acquisition it belongs to.
THEOREM HistoryConsistentHolds == Spec => []HistoryConsistent
BY Invariance, InvHistory, PTL

-----------------------------------------------------------------------------
(* One runner per request                                                  *)

\* A running request never goes back to where a claim or a prompt starts one.
StaysRun(r) == runner'[r] = runner[r] \/ runner'[r].pc \notin {"ready", "select"}

LEMMA RunnerStaysRun ==
    ASSUME TypeOK, NEW q \in Requests, RunnerStep(q), NEW r \in Requests PROVE StaysRun(r)
<1>t. runner \in [Requests -> RunnerRow]
  BY DEF TypeOK
<1>1. ASSUME Return(q) PROVE StaysRun(r)
  <2>1. CASE r = q
    BY <1>1, <2>1, ReturnEnds DEF StaysRun, Waits
  <2> QED
    BY <1>1, <2>1, ReturnEnds DEF StaysRun
<1>2. ASSUME NEW pc \in {"begin", "searching", "resolved", "forced", "locked", "posted"}, Goto(q, pc)
      PROVE  StaysRun(r)
  <2>1. CASE r = q
    BY <1>2, <2>1, GotoMoves DEF StaysRun
  <2> QED
    BY <1>2, <2>1, GotoMoves DEF StaysRun
<1>3. ASSUME NEW owners, Collide(q, owners) PROVE StaysRun(r)
  BY <1>t, <1>3 DEF Collide, RunnerRow, StaysRun
<1>4. ASSUME runner' = [runner EXCEPT ![q] = IdleRunner] PROVE StaysRun(r)
  BY <1>t, <1>4 DEF IdleRunner, StaysRun
<1>5. ASSUME NEW status, Terminalize(q, status) PROVE StaysRun(r)
  BY <1>1, <1>5 DEF Terminalize
<1>6. ASSUME NEW outcome, NEW notFound, Advance(q, outcome, notFound) PROVE StaysRun(r)
  BY <1>1, <1>2, <1>6 DEF Advance, AdvanceToNext, Exhaust
<1>7. CASE Resolve(q)
  BY <1>2, <1>3, <1>5, <1>7 DEF Resolve, Reserve
<1>8. CASE SelectIdentity(q)
  BY <1>2, <1>3, <1>8 DEF SelectIdentity
<1>9. CASE SearchMisses(q) \/ SearchIsAmbiguous(q) \/ SearchRaises(q)
           \/ PreflightMisses(q) \/ CloseDuplicate(q)
  BY <1>5, <1>6, <1>9 DEF SearchMisses, SearchIsAmbiguous, SearchRaises, PreflightMisses,
     CloseDuplicate
<1>10. CASE BeginAttempt(q) \/ ForceOwner(q) \/ Lock(q) \/ Submit(q)
  BY <1>2, <1>10 DEF BeginAttempt, ForceOwner, Lock, Submit
<1>11. CASE Prompt(q) \/ FinishRetry(q)
  BY <1>4, <1>11 DEF Prompt, FinishRetry
<1>12. CASE Handoff(q) \/ Quarantine(q) \/ Attach(q)
  BY <1>1, <1>12 DEF Handoff, Quarantine, Attach
<1> QED
  BY <1>7, <1>8, <1>9, <1>10, <1>11, <1>12 DEF RunnerStep

LEMMA OneRunnerStep ==
    ASSUME IInv, [Next]_vars, NEW r \in Requests,
           runner'[r].pc \in {"ready", "select"}, runner'[r] # runner[r]
    PROVE  runner[r].pc = "idle"
<1>t. TypeOK /\ ~StaysRun(r)
  BY DEF IInv, StaysRun
<1>1. CASE ClaimDueRetries
  <2>1. ClaimableRows(r) /\ ~runner[r].background
    BY <1>1 DEF ClaimDueRetries
  <2>2. Missed(r) /\ Backgrounded(r)
    BY <2>1, Where DEF ClaimableRows, IInv, Sound, RowsAgree
  <2> QED
    BY <2>1, <2>2 DEF Missed, Waits, Backgrounded
<1>2. CASE Crash
  BY <1>2 DEF Crash, IdleRunner
<1>3. ASSUME NEW q \in Requests, ClaimSelection(q) PROVE runner[r].pc = "idle"
  <2>1. q = r
    BY <1>t, <1>3 DEF ClaimSelection, TypeOK
  <2> QED
    BY <1>3, <2>1, Where DEF ClaimSelection, PromptOpen, Asking
<1>4. ASSUME NEW q \in Requests, Resume(q) PROVE runner[r].pc = "idle"
  BY <1>4 DEF Resume
<1>5. ASSUME NEW q \in Requests, Intake(q) PROVE FALSE
  BY <1>t, <1>5 DEF Intake, IdleRunner, TypeOK, StaysRun
<1>6. ASSUME NEW q \in Requests, RunNext(q) PROVE FALSE
  BY <1>t, <1>6, GotoMoves DEF RunNext, StaysRun
<1>7. ASSUME NEW q \in Requests, RunnerStep(q) PROVE FALSE
  BY <1>t, <1>7, RunnerStaysRun
<1>8. ASSUME NEW q \in Requests, Fault(q) PROVE FALSE
  <2>1. CASE Return(q)
    BY <1>t, <2>1, ReturnEnds DEF StaysRun, Waits
  <2>2. CASE runner' = [p \in Requests |-> IF runner[p].background THEN IdleRunner ELSE runner[p]]
    BY <1>t, <2>2 DEF IdleRunner, StaysRun
  <2> QED
    BY <1>8, <2>1, <2>2 DEF Fault
<1>9. ASSUME NEW q \in Requests,
             \/ ReconcileStep(q) \/ BookBotReads(q) \/ BookBotWrites(q)
             \/ BindPrompt(q) \/ ClosePrompt(q) \/ RetryFallsDue(q) \/ RemoteMoves(q)
      PROVE  FALSE
  BY <1>9 DEF ReconcileStep, Poll, RecoverHandoff, RecoverFailure, ObserveTerminal, ProveBlocked,
     Records, BookBotReads, BookBotWrites, BindPrompt, ClosePrompt, RetryFallsDue, RemoteMoves
<1>10. ~Initialize /\ ~Ready /\ ~BookBotSkips /\ ~(\E b \in Backends : DropPoll(b)) /\ ~UNCHANGED vars
  BY DEF Initialize, Ready, BookBotSkips, DropPoll, vars
<1> QED
  BY <1>1, <1>2, <1>3, <1>4, <1>5, <1>6, <1>7, <1>8, <1>9, <1>10 DEF Next

\* Two threads never run one request: the retry worker, a claimed prompt and the
\* resume of start-up only ever find its runner gone.
THEOREM OneRunnerHolds == Spec => OneRunner
<1>1. IInv /\ [Next]_vars =>
        [\A r \in Requests :
           runner'[r].pc \in {"ready", "select"} /\ runner'[r] # runner[r] =>
             runner[r].pc = "idle"]_vars
  BY OneRunnerStep
<1> QED
  BY <1>1, Invariance, PTL DEF Spec, OneRunner

-----------------------------------------------------------------------------
(* The cascade implements Acquisition                                      *)

ClaimOf(r) == IF Claimed(r) THEN cascades[r].identity ELSE None

\* The stage and the claim of each situation.
StageTable(r) ==
    /\ Fresh(r) => StageOf(r) = "new" /\ ClaimOf(r) = None
    /\ Seeking(r) => ClaimOf(r) = cascades[r].identity
    /\ cascades[r].state = "searching" => StageOf(r) = "seeking"
    /\ cascades[r].state = "awaiting_selection" => StageOf(r) = "asking"
    /\ Asking(r) => ClaimOf(r) = None /\ StageOf(r) = "asking"
    /\ Missed(r) =>
         IF retries[r].state \in {"queued", "retrying"}
         THEN StageOf(r) = "waiting" /\ ClaimOf(r) = cascades[r].identity /\ ClaimOf(r) # None
         ELSE StageOf(r) = "failed" /\ ClaimOf(r) = None
    /\ Underway(r) =>
         StageOf(r) = "committed" /\ ClaimOf(r) = cascades[r].identity /\ ClaimOf(r) # None
    /\ Imported(r) => StageOf(r) = "acquired" /\ ClaimOf(r) = cascades[r].identity
    /\ Lost(r) =>
         /\ StageOf(r) = "failed"
         /\ IF retries[r].state = "blocked"
            THEN ClaimOf(r) = cascades[r].identity /\ ClaimOf(r) # None
            ELSE ClaimOf(r) = None
    /\ ImportedLate(r) => StageOf(r) = "failed" /\ ClaimOf(r) = None

LEMMA Stages == \A r \in Requests : RetryIdentity(r) => StageTable(r)
<1> SUFFICES ASSUME NEW r \in Requests, RetryIdentity(r) PROVE StageTable(r)
  OBVIOUS
<1> USE DEF ClaimOf, Claimed, OwningCascade, OwningRetry, LiveCascade, StageOf
<1>1. Fresh(r) => StageOf(r) = "new" /\ ClaimOf(r) = None
  BY DEF Fresh
<1>2. Seeking(r) => ClaimOf(r) = cascades[r].identity
  BY DEF Seeking, SearchSafe
<1>3. /\ cascades[r].state = "searching" => StageOf(r) = "seeking"
      /\ cascades[r].state = "awaiting_selection" => StageOf(r) = "asking"
  OBVIOUS
<1>4. Asking(r) => ClaimOf(r) = None /\ StageOf(r) = "asking"
  BY DEF Asking
<1>5. Missed(r) => IF retries[r].state \in {"queued", "retrying"}
                   THEN /\ StageOf(r) = "waiting" /\ ClaimOf(r) = cascades[r].identity
                        /\ ClaimOf(r) # None
                   ELSE StageOf(r) = "failed" /\ ClaimOf(r) = None
  BY DEF Missed, RetryIdentity
<1>6. Underway(r) => /\ StageOf(r) = "committed" /\ ClaimOf(r) = cascades[r].identity
                     /\ ClaimOf(r) # None
  BY DEF Underway, Crossed, Doubtful, Accepted, HandedOff, Bound
<1>7. Imported(r) => StageOf(r) = "acquired" /\ ClaimOf(r) = cascades[r].identity
  BY DEF Imported
<1>8. Lost(r) => /\ StageOf(r) = "failed"
                 /\ IF retries[r].state = "blocked"
                    THEN ClaimOf(r) = cascades[r].identity /\ ClaimOf(r) # None
                    ELSE ClaimOf(r) = None
  BY DEF Lost, HandedOff, Bound
<1>9. ImportedLate(r) => StageOf(r) = "failed" /\ ClaimOf(r) = None
  BY DEF ImportedLate
<1> QED
  BY <1>1, <1>2, <1>3, <1>4, <1>5, <1>6, <1>7, <1>8, <1>9 DEF StageTable

LEMMA StagesNext == (\A r \in Requests : RetryIdentity(r) => StageTable(r))'
BY Stages, PTL

\* The steps of Acquisition, in the rows of one request.
FreesAll(r) ==
    /\ ClaimOf(r)' = None /\ retries'[r].count = retries[r].count
    /\ (posts'[r] > 0) = (posts[r] > 0)
KeepsAll(r) ==
    /\ ClaimOf(r)' = ClaimOf(r) /\ retries'[r].count = retries[r].count
    /\ (posts'[r] > 0) = (posts[r] > 0)

LEMMA Mapped ==
    ASSUME NEW r \in Requests
    PROVE  /\ Acquired!Keep(r) <=> KeepsAll(r)
           /\ Acquired!Free(r) <=> FreesAll(r)
           /\ \A from, to : Acquired!To(r, from, to) <=> StageOf(r) \in from /\ StageOf(r)' = to
           /\ Acquired!Stay(r) <=> StageOf(r)' = StageOf(r) /\ KeepsAll(r)
           /\ Acquired!Claim(r) <=>
                /\ StageOf(r) \in {"seeking", "asking"} /\ StageOf(r)' = StageOf(r)
                /\ ClaimOf(r) = None /\ ClaimOf(r)' \in Works
                /\ retries'[r].count = retries[r].count /\ (posts'[r] > 0) = (posts[r] > 0)
           /\ Acquired!SeekAgain(r) <=>
                /\ StageOf(r) = "waiting" /\ StageOf(r)' = "seeking"
                /\ ~(posts[r] > 0) /\ retries[r].count < RetryLimit
                /\ retries'[r].count = retries[r].count + 1
                /\ ClaimOf(r)' = ClaimOf(r) /\ (posts'[r] > 0) = (posts[r] > 0)
           /\ Acquired!Send(r) <=>
                /\ StageOf(r) = "committed" /\ StageOf(r)' = "committed"
                /\ ~(posts[r] > 0) /\ posts'[r] > 0
                /\ ClaimOf(r)' = ClaimOf(r) /\ retries'[r].count = retries[r].count
<1> USE DEF ClaimOf, Claimed
<1>1. Acquired!Keep(r) <=> KeepsAll(r)
  BY DEF Acquired!Keep, KeepsAll
<1>2. Acquired!Free(r) <=> FreesAll(r)
  BY DEF Acquired!Free, FreesAll
<1>3. \A from, to : Acquired!To(r, from, to) <=> StageOf(r) \in from /\ StageOf(r)' = to
  BY DEF Acquired!To
<1>4. Acquired!Stay(r) <=> StageOf(r)' = StageOf(r) /\ KeepsAll(r)
  BY <1>1 DEF Acquired!Stay
<1>5. Acquired!Claim(r) <=>
        /\ StageOf(r) \in {"seeking", "asking"} /\ StageOf(r)' = StageOf(r)
        /\ ClaimOf(r) = None /\ ClaimOf(r)' \in Works
        /\ retries'[r].count = retries[r].count /\ (posts'[r] > 0) = (posts[r] > 0)
  BY DEF Acquired!Claim
<1>6. Acquired!SeekAgain(r) <=>
        /\ StageOf(r) = "waiting" /\ StageOf(r)' = "seeking"
        /\ ~(posts[r] > 0) /\ retries[r].count < RetryLimit
        /\ retries'[r].count = retries[r].count + 1
        /\ ClaimOf(r)' = ClaimOf(r) /\ (posts'[r] > 0) = (posts[r] > 0)
  BY DEF Acquired!SeekAgain, Acquired!To
<1>7. Acquired!Send(r) <=>
        /\ StageOf(r) = "committed" /\ StageOf(r)' = "committed"
        /\ ~(posts[r] > 0) /\ posts'[r] > 0
        /\ ClaimOf(r)' = ClaimOf(r) /\ retries'[r].count = retries[r].count
  BY DEF Acquired!Send, Acquired!To
<1> QED
  BY <1>1, <1>2, <1>3, <1>4, <1>5, <1>6, <1>7

\* What a step does to a request is a step of Acquisition for it, or none.
LEMMA AbstractStep ==
    ASSUME IInv, TypeOK', NEW r \in Requests, Life(r), RowsAgree(r)'
    PROVE  Acquired!Step(r) \/ Acquired!Stay(r)
<1>t. /\ RetryIdentity(r) /\ RetryIdentity(r)' /\ StageTable(r) /\ StageTable(r)'
      /\ TypeOK /\ posts[r] \in {0, 1}
  BY Stages, StagesNext DEF IInv, Sound, RowsAgree, SubmissionInv
<1> USE <1>t, Mapped DEF Acquired!Step
<1>1. CASE Still(r)
  <2>1. StageOf(r)' = StageOf(r) /\ ClaimOf(r)' = ClaimOf(r)
    BY <1>1 DEF Still, StageOf, ClaimOf, Claimed
  <2> QED
    BY <1>1, <2>1 DEF Still, KeepsAll
<1>2. CASE Opens(r)
  <2>1. StageOf(r) = "new" /\ StageOf(r)' = "seeking" /\ KeepsAll(r)
    BY <1>2 DEF Opens, Fresh, StageTable, Keeps, KeepsAll
  <2> QED
    BY <2>1 DEF Acquired!Open
<1>3. CASE Searches(r)
  <2>1. KeepsAll(r) /\ StageOf(r) \in {"seeking", "asking"}
    BY <1>3 DEF Searches, Seeking, SearchSafe, StageTable, Keeps, KeepsAll
  <2>2. StageOf(r)' \in {StageOf(r), "seeking"}
    BY <1>3 DEF Searches, Seeking, SearchSafe, StageTable
  <2> QED
    BY <2>1, <2>2 DEF Acquired!Answer
<1>4. CASE Claims(r)
  <2>1. /\ StageOf(r) \in {"seeking", "asking"} /\ StageOf(r)' = StageOf(r)
        /\ ClaimOf(r) = None /\ ClaimOf(r)' \in Works
    BY <1>4 DEF Claims, Seeking, SearchSafe, StageTable
  <2> QED
    BY <1>4, <2>1 DEF Claims
<1>5. CASE Asks(r)
  <2>1. StageOf(r) = "seeking" /\ StageOf(r)' = "asking" /\ ClaimOf(r) = None /\ KeepsAll(r)
    BY <1>5 DEF Asks, Asking, StageTable, Keeps, KeepsAll
  <2> QED
    BY <2>1 DEF Acquired!Ask, ClaimOf, Claimed
<1>6. CASE Answers(r)
  <2>1. StageOf(r)' = StageOf(r) /\ KeepsAll(r)
    BY <1>6 DEF Answers, Asking, StageTable, Keeps, KeepsAll
  <2> QED
    BY <2>1
<1>7. CASE Misses(r)
  <2>1. StageOf(r) \in {"seeking", "asking"} /\ ClaimOf(r) = cascades[r].identity
    BY <1>7 DEF Misses, Seeking, Asking, SearchSafe, StageTable
  <2>2. CASE retries'[r].state \in {"queued", "retrying"}
    <3>1. /\ StageOf(r) = "seeking" /\ StageOf(r)' = "waiting"
          /\ ClaimOf(r) # None /\ KeepsAll(r)
      BY <1>7, <2>1, <2>2 DEF Misses, StageTable, Keeps, KeepsAll
    <3> QED
      BY <3>1 DEF Acquired!Wait, ClaimOf, Claimed
  <2>3. CASE retries'[r].state \notin {"queued", "retrying"}
    <3>1. StageOf(r)' = "failed" /\ FreesAll(r)
      BY <1>7, <2>3 DEF Misses, StageTable, Keeps, FreesAll
    <3> QED
      BY <2>1, <3>1 DEF Acquired!GiveUp
  <2> QED
    BY <2>2, <2>3
<1>8. CASE Settles(r)
  <2>1. CASE (retries[r].state \in {"queued", "retrying"}) = (retries'[r].state \in {"queued", "retrying"})
    <3>1. StageOf(r)' = StageOf(r) /\ KeepsAll(r)
      BY <1>8, <2>1 DEF Settles, StageTable, Keeps, KeepsAll
    <3> QED
      BY <3>1
  <2>2. CASE retries[r].state = "retrying" /\ retries'[r].state = "expired"
    <3>1. StageOf(r) = "waiting" /\ StageOf(r)' = "failed" /\ FreesAll(r)
      BY <1>8, <2>2 DEF Settles, StageTable, Keeps, FreesAll
    <3> QED
      BY <3>1 DEF Acquired!GiveUp
  <2> QED
    BY <1>8, <2>1, <2>2 DEF Settles, SameRetry
<1>9. CASE SeeksAgain(r)
  <2>1. /\ StageOf(r) = "waiting" /\ StageOf(r)' = "seeking" /\ ClaimOf(r)' = ClaimOf(r)
        /\ retries[r].count < RetryLimit
    BY <1>9 DEF SeeksAgain, Missed, StageTable
  <2>2. ~(posts[r] > 0) /\ posts'[r] = posts[r] /\ retries'[r].count = retries[r].count + 1
    BY <1>9 DEF SeeksAgain, Missed, Unsubmitted, IInv, SubmissionInv
  <2> QED
    BY <2>1, <2>2
<1>10. CASE Commits(r)
  <2>1. StageOf(r) = "seeking" /\ StageOf(r)' = "committed" /\ ClaimOf(r) # None /\ KeepsAll(r)
    BY <1>10 DEF Commits, StageTable, Keeps, KeepsAll
  <2> QED
    BY <2>1 DEF Acquired!Commit, ClaimOf, Claimed
<1>11. CASE Submits(r)
  <2>1. StageOf(r) = "committed" /\ StageOf(r)' = "committed" /\ ClaimOf(r)' = ClaimOf(r)
    BY <1>11 DEF Submits, StageTable, Underway
  <2> QED
    BY <1>11, <2>1 DEF Submits
<1>12. CASE Proceeds(r)
  <2>1. StageOf(r)' = StageOf(r) /\ KeepsAll(r)
    BY <1>12 DEF Proceeds, StageTable, Keeps, KeepsAll
  <2> QED
    BY <2>1
<1>13. CASE Acquires(r)
  <2>1. StageOf(r)' = "acquired" /\ ClaimOf(r)' = cascades[r].identity
    BY <1>13 DEF Acquires, StageTable, Keeps
  <2>2. /\ StageOf(r) \in {"seeking", "committed", "failed"}
        /\ ClaimOf(r) # None /\ ClaimOf(r) = cascades[r].identity
    BY <1>13 DEF Acquires, StageTable
  <2>3. KeepsAll(r)
    BY <1>13, <2>1, <2>2 DEF Acquires, Keeps, KeepsAll
  <2> QED
    BY <2>1, <2>2, <2>3 DEF Acquired!Acquire, ClaimOf, Claimed
<1>14. CASE Loses(r)
  <2>1. StageOf(r) = "committed" /\ StageOf(r)' = "failed" /\ (KeepsAll(r) \/ FreesAll(r))
    BY <1>14 DEF Loses, StageTable, Keeps, KeepsAll, FreesAll
  <2> QED
    BY <2>1 DEF Acquired!Fail
<1>15. CASE Rests(r)
  <2>1. StageOf(r)' = StageOf(r)
    BY <1>15 DEF Rests, StageTable
  <2>2. ClaimOf(r)' = ClaimOf(r)
    BY <1>15 DEF Rests, StageTable, Keeps, SameRetry, ImportedLate
  <2> QED
    BY <1>15, <2>1, <2>2 DEF Rests, Keeps, KeepsAll
<1> QED
  BY <1>1, <1>2, <1>3, <1>4, <1>5, <1>6, <1>7, <1>8, <1>9, <1>10, <1>11, <1>12, <1>13, <1>14, <1>15
     DEF Life

\* With all its threads, restarts and outside writers the cascade implements
\* Acquisition: exclusive claims, one commitment per request, one submission
\* behind it, and a bounded number of silent rounds before it.
THEOREM Implements == Spec => ImplementsAcquisition
<1>1. Init => Acquired!Init
  <2> SUFFICES ASSUME Init PROVE Acquired!Init
    OBVIOUS
  <2>1. \A r \in Requests : /\ StageOf(r) = "new" /\ ~Claimed(r)
                            /\ retries[r].count = 0 /\ (posts[r] > 0) = FALSE
    <3> SUFFICES ASSUME NEW r \in Requests
                 PROVE  /\ StageOf(r) = "new" /\ ~Claimed(r)
                        /\ retries[r].count = 0 /\ (posts[r] > 0) = FALSE
      OBVIOUS
    <3>1. cascades[r].state = "none" /\ retries[r].state = "none" /\ retries[r].count = 0
          /\ posts[r] = 0
      BY DEF Init
    <3>2. StageOf(r) = "new" /\ ~Claimed(r)
      BY <3>1 DEF StageOf, Claimed, OwningCascade, OwningRetry, LiveCascade
    <3>3. (posts[r] > 0) = FALSE
      BY <3>1
    <3> QED
      BY <3>1, <3>2, <3>3
  <2> QED
    BY <2>1 DEF Acquired!Init, Claimed
<1>2. IInv /\ [Next]_vars => Acquired!Next \/ UNCHANGED Acquired!acquisition
  <2> SUFFICES ASSUME IInv, [Next]_vars PROVE Acquired!Next
    OBVIOUS
  <2>1. TypeOK' /\ Lives /\ IInv'
    BY StepLives, InvStep
  <2>2. \A r \in Requests : Acquired!Step(r) \/ Acquired!Stay(r)
    BY <2>1, AbstractStep DEF Lives
  <2>3. Acquired!Exclusive'
    <3> SUFFICES ASSUME NEW r \in Requests, NEW q \in Requests,
                        ClaimOf(r)' = ClaimOf(q)', ClaimOf(r)' # None
                 PROVE  r = q
      BY DEF Acquired!Exclusive, ClaimOf, Claimed
    <3>1. /\ Claimed(r)' /\ Claimed(q)' /\ cascades'[r].identity # None
          /\ cascades'[r].identity = cascades'[q].identity
      BY DEF ClaimOf
    <3> QED
      BY <2>1, <3>1 DEF IInv, Sound, Sole
  <2> QED
    BY <2>2, <2>3 DEF Acquired!Next
<1> QED
  BY <1>1, <1>2, Invariance, PTL DEF Spec, ImplementsAcquisition, Acquired!Spec
=============================================================================
