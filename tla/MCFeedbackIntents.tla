------------------------ MODULE MCFeedbackIntents ------------------------
(* Instances of FeedbackIntents for TLC. *)
EXTENDS FeedbackIntents, TLC

CONSTANTS i1, i2, a1, a2, c1, c2, c3, s1, s2, plain, shot, both, wrong

\* plain references nothing, shot one screenshot, both two; wrong is refused.
MCScreenshots == [p \in Payloads |->
    CASE p = plain -> {}
      [] p = shot  -> {a1}
      [] p = both  -> {a1, a2}
      [] OTHER     -> {a1}]
MCInvalid   == Payloads \cap {wrong}
MCMisplaced == {<<shot, a2>>} \cap (Payloads \X Attachments)

Symmetry == Permutations(Calls) \cup Permutations(Submissions)
=============================================================================
