---------------------------- MODULE MCConvergence ----------------------------
(***************************************************************************)
(* Convergence for TLC: a commit of one session conflicts with another, on *)
(* every base.  A third session, with which the workspace is in degraded   *)
(* mode, is the first to go, and before anything but the scheduler moves.  *)
(***************************************************************************)
EXTENDS Convergence, TLC

CONSTANTS a, b, c

MCConflicts ==
  {[base |-> n, heads |-> (a :> 2 @@ b :> h)] : n \in 0..5, h \in 1..5}

\* Where no test may run, full-integration runs are left for when it has gone.
ThirdLeaves ==
  c \in live =>
    /\ gone' \cup (live \ live') \subseteq {c}
    /\ c \in live' \cup gone
    /\ UNCHANGED <<land, events>>
    /\ testCommand # "trusted" => UNCHANGED <<engine, testCommand>>

MCSpec == Init /\ [][Next /\ ThirdLeaves]_vars /\ Fairness
=============================================================================
