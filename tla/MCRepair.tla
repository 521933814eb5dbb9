-------------------------------- MODULE MCRepair --------------------------------
(* Repair with sessions and processes as model values.                        *)
EXTENDS Repair
CONSTANTS one, two, sweep, cli
===============================================================================
