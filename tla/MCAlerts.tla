-------------------------------- MODULE MCAlerts --------------------------------
(* Alerts of a child and its parent.                                          *)
EXTENDS Alerts, TLC
CONSTANTS child, parent
MCParent == (child :> parent) @@ (parent :> None)
===============================================================================
