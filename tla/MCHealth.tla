-------------------------------- MODULE MCHealth --------------------------------
(* Instances of Health for TLC: the checks share no state, so one slot, used     *)
(* again and again, meets everything that a check can meet.                      *)
EXTENDS Health

==================================================================================
