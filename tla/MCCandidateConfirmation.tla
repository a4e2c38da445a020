----------------------- MODULE MCCandidateConfirmation -----------------------
(* Instances of CandidateConfirmation for TLC.                             *)
EXTENDS CandidateConfirmation, TLC

CONSTANTS m1, m2, w1, w2, asker, owner, title

\* The offered options, a refusal, and other text.
AnyToken == Options \cup {NoneOfThese, title}
Symmetric == Permutations(Replies) \cup Permutations(Workers)
=============================================================================
