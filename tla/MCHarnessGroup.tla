--------------------------- MODULE MCHarnessGroup ---------------------------
(***************************************************************************)
(* HarnessGroup for TLC.  Nobody cancels a run by itself, and in a         *)
(* behaviour either an API request is issued, or a lease lapses under a    *)
(* live goroutine: then all runs complete, and only their verdicts differ. *)
(***************************************************************************)
EXTENDS HarnessGroup

Lapsed ==
    /\ \A q \in Request : pc[q] = "start"
    /\ \A t \in Attempt : run[t] # "failed"

MCNext ==
    /\ Next
    /\ \A t \in Attempt : run'[t] # "cancelled"
    /\ lapses' = 0 \/ Lapsed'

MCSpec == Init /\ [][MCNext]_vars
=============================================================================
