-------------------------- MODULE MCReviewPipeline --------------------------
(* Small instances of ReviewPipeline for TLC.                              *)
EXTENDS ReviewProperties, TLC

CONSTANTS w1, w2, x1, x2, s1, s2

\* Workers are interchangeable, and so are sweeps.
Symmetry == Permutations(Workers) \cup Permutations(Sweeps)

AnyFault == {"dbError", "githubError", "sweepError", "wedge", "crash", "lockLost",
             "slowListener", "uninstall"}
=============================================================================
