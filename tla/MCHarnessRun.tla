---------------------------- MODULE MCHarnessRun ----------------------------
(***************************************************************************)
(* HarnessRun for TLC: one parent, which may spawn one child.  Everything  *)
(* at once is too much for a liveness check, so the first state chooses a  *)
(* scenario, and each scenario leaves some of the environment out:         *)
(*   "worker"   a child, timeouts and a late recovery, but no request,     *)
(*              crash or fault                                             *)
(*   "cascade"  a child and a request that cancels both, while no task     *)
(*              times out and recovery is over when the first run comes    *)
(*   "alone"    all of it, and no child                                    *)
(***************************************************************************)
EXTENDS HarnessRun

ParentDef == [c \in Child |-> CHOOSE r \in Top : TRUE]
TargetDef == [q \in Cancels |-> CHOOSE r \in Top : TRUE]

VARIABLE scenario

MCInit == Init /\ scenario \in {"worker", "cascade", "alone"}

MCNext ==
    /\ Next /\ UNCHANGED scenario
    /\ scenario = "worker"  => UNCHANGED <<cancel, crashes, faults>>
    /\ scenario = "cascade" => /\ UNCHANGED <<crashes, faults>>
                               /\ \A r \in Run : stop'[r] # "expired"
                               /\ recovery = "due" => \A r \in Top : call'[r] = "unused"
    /\ scenario = "alone"   => \A c \in Child : call'[c] = "unused"

MCSpec == MCInit /\ [][MCNext]_<<vars, scenario>> /\ Fairness
=============================================================================
