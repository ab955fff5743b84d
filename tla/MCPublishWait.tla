---------------------------- MODULE MCPublishWait ----------------------------
(* Instances of PublishWait for TLC.                                       *)
EXTENDS PublishWait, TLC

CONSTANTS a, b, c   \* threads, as model values

TwoThreads == {a, b}
ThreeThreads == {a, b, c}

\* Sound for the runs that check no liveness property: no definition tells one
\* thread from another.
ThreadSymmetry == Permutations(Threads)
=============================================================================
