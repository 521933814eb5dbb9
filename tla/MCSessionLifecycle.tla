-------------------------- MODULE MCSessionLifecycle --------------------------
(***************************************************************************)
(* SessionLifecycle for TLC: the sessions are the first few positive        *)
(* numbers (TLC compares them as the code compares names); processes are    *)
(* model values, and the commands are interchangeable among the Clis.       *)
(***************************************************************************)
EXTENDS SessionLifecycle, TLC

TwoSessions   == {1, 2}
ThreeSessions == {1, 2, 3}
Symmetry      == Permutations(Clis)
===============================================================================
