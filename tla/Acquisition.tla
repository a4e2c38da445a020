----------------------------- MODULE Acquisition -----------------------------
(***************************************************************************)
(* What the ebook cascade promises, without its tables, threads, restarts  *)
(* or backends.  A request seeks a work it has claimed for itself alone,   *)
(* commits to acquiring it at most once and never seeks again after that.  *)
(* Several requests may move in one step: a restart repairs all its rows,  *)
(* and the retry worker claims all the requests that are due.              *)
(***************************************************************************)
EXTENDS Naturals

CONSTANTS Requests, Works, None, Rounds

VARIABLES
    stage,   \* where each request stands
    claim,   \* the work it claims, or None
    rounds,  \* how often it sought again
    sent     \* whether its one submission was sent

acquisition == <<stage, claim, rounds, sent>>

Stages == {"new", "seeking", "asking", "waiting", "committed", "acquired", "failed"}

Init ==
    /\ stage = [r \in Requests |-> "new"]
    /\ claim = [r \in Requests |-> None]
    /\ rounds = [r \in Requests |-> 0]
    /\ sent = [r \in Requests |-> FALSE]

Keep(r) == claim'[r] = claim[r] /\ rounds'[r] = rounds[r] /\ sent'[r] = sent[r]
Free(r) == claim'[r] = None /\ rounds'[r] = rounds[r] /\ sent'[r] = sent[r]
To(r, from, to) == stage[r] \in from /\ stage'[r] = to

Open(r) == To(r, {"new"}, "seeking") /\ Keep(r)

Claim(r) ==
    /\ stage[r] \in {"seeking", "asking"} /\ stage'[r] = stage[r]
    /\ claim[r] = None /\ claim'[r] \in Works
    /\ rounds'[r] = rounds[r] /\ sent'[r] = sent[r]

Ask(r) == To(r, {"seeking"}, "asking") /\ claim[r] = None /\ Keep(r)
Answer(r) == To(r, {"asking"}, "seeking") /\ Keep(r)

GiveUp(r) == To(r, {"seeking", "asking", "waiting"}, "failed") /\ Free(r)
Wait(r) == To(r, {"seeking"}, "waiting") /\ claim[r] # None /\ Keep(r)

SeekAgain(r) ==
    /\ To(r, {"waiting"}, "seeking")
    /\ ~sent[r] /\ rounds[r] < Rounds
    /\ rounds'[r] = rounds[r] + 1
    /\ claim'[r] = claim[r] /\ sent'[r] = sent[r]

Commit(r) == To(r, {"seeking"}, "committed") /\ claim[r] # None /\ Keep(r)

Send(r) ==
    /\ To(r, {"committed"}, "committed")
    /\ ~sent[r] /\ sent'[r]
    /\ claim'[r] = claim[r] /\ rounds'[r] = rounds[r]

\* A backend may already have the work; a failed acquisition that kept its
\* claim may still be proved complete.
Acquire(r) ==
    /\ To(r, {"seeking", "committed", "failed"}, "acquired")
    /\ claim[r] # None
    /\ Keep(r)

Fail(r) == To(r, {"committed"}, "failed") /\ (Keep(r) \/ Free(r))

Step(r) ==
    \/ Open(r) \/ Claim(r) \/ Ask(r) \/ Answer(r) \/ GiveUp(r) \/ Wait(r)
    \/ SeekAgain(r) \/ Commit(r) \/ Send(r) \/ Acquire(r) \/ Fail(r)

Stay(r) == stage'[r] = stage[r] /\ Keep(r)

\* No two requests claim one work.
Exclusive == \A r, q \in Requests : claim[r] = claim[q] /\ claim[r] # None => r = q

Next == Exclusive' /\ \A r \in Requests : Step(r) \/ Stay(r)

Spec == Init /\ [][Next]_acquisition
=============================================================================
