------------------------------- MODULE MCGoalLoop -------------------------------
(* GoalLoop on a small instance.                                             *)
EXTENDS GoalLoop
===============================================================================
