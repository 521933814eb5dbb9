------------------------------ MODULE MCFollowers ------------------------------
(* Followers on a small instance.                                            *)
EXTENDS Followers
MCSlots == {1, 2, 3}
===============================================================================
