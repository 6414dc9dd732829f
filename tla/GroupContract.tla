---------------------------- MODULE GroupContract ----------------------------
(***************************************************************************)
(* What a harness run group promises to whoever submitted it, with leases, *)
(* goroutines, scorecards and stale copies left out.                       *)
(*                                                                         *)
(* Items wait, are worked on, at most Width of them at a time, and settle; *)
(* work may be given back, when an attempt fails or is lost, but a settled *)
(* item is settled for good.  The group is reported closed only once every *)
(* item has settled.  A late refresh may report it open again: that costs  *)
(* another look at it, and nothing else.                                   *)
(***************************************************************************)
EXTENDS Integers, FiniteSets

CONSTANTS Work,     \* the items
          Width     \* how many are worked on at a time

VARIABLES phase, open

Phase == {"waiting", "working", "settled"}
promise == <<phase, open>>

Working == {i \in Work : phase[i] = "working"}

Init ==
    /\ phase = [i \in Work |-> "waiting"]
    /\ open = TRUE

Take(i) ==
    /\ phase[i] = "waiting"
    /\ Cardinality(Working) < Width
    /\ phase' = [phase EXCEPT ![i] = "working"]
    /\ UNCHANGED open

GiveBack(i) ==
    /\ phase[i] = "working"
    /\ phase' = [phase EXCEPT ![i] = "waiting"]
    /\ UNCHANGED open

Settle(i) ==
    /\ phase[i] = "working"
    /\ phase' = [phase EXCEPT ![i] = "settled"]
    /\ UNCHANGED open

Close ==
    /\ open
    /\ \A i \in Work : phase[i] = "settled"
    /\ open' = FALSE
    /\ UNCHANGED phase

Reopen ==
    /\ ~open
    /\ open' = TRUE
    /\ UNCHANGED phase

Next == (\E i \in Work : Take(i) \/ GiveBack(i) \/ Settle(i)) \/ Close \/ Reopen

Spec == Init /\ [][Next]_promise

=============================================================================
