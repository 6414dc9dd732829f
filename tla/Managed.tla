------------------------------- MODULE Managed -------------------------------
(***************************************************************************)
(* A resource that is made when it is first needed and reclaimed when      *)
(* nobody has used it for a while (reclaim.Managed): the cron service, the *)
(* workflow service and the browsers live in one.  Acquire takes a lease   *)
(* on it, Get only touches it.                                             *)
(*                                                                         *)
(* A call runs under the mutex from beginning to end and is one step.  The *)
(* idle timer is not under the mutex: a timer that has fired has started a *)
(* callback that may have to wait for the lock, and can no longer be       *)
(* stopped.  The reclaimer and onCreate, which run after the lock is       *)
(* released, change nothing here and are left out.                         *)
(***************************************************************************)
EXTENDS Integers, FiniteSets

CONSTANTS
    Holder,         \* callers of Acquire, each with one lease at a time
    MaxInstances,   \* bound: resources that are made
    MaxTouches,     \* bound: calls of Get and Acquire
    MaxSettings     \* bound: calls of SetIdleAfter and Close

ASSUME ManagedAssumption ==
    /\ IsFiniteSet(Holder)
    /\ MaxInstances \in Nat /\ MaxTouches \in Nat /\ MaxSettings \in Nat

None == 0

VARIABLES
    value,      \* m.value and m.ready: the instance, or None
    made,       \* instances made so far
    inUse,
    idleAfter,  \* whether m.idleAfter is positive
    timer,      \* m.timer: nil, armed, or fired and not cleared yet
    strays,     \* armed timers that m.timer does not point to any more
    fired,      \* callbacks that have not had the lock yet
    held,       \* the instance that each holder's lease is for
    torn,       \* history: Close has run under a lease
    touches, settings

resource    == <<value, made, inUse>>
timers      == <<timer, strays, fired>>
managedVars == <<value, made, inUse, idleAfter, timer, strays, fired, held, torn,
                 touches, settings>>

-----------------------------------------------------------------------------
(* scheduleLocked, whose argument stands for ready and idleAfter > 0.      *)
scheduleLocked(wanted) == timer' = IF wanted THEN "armed" ELSE timer

Touch == touches < MaxTouches /\ touches' = touches + 1
         /\ UNCHANGED <<strays, fired, idleAfter, torn, settings>>

(* getLocked gives out the instance there is, or makes one.                *)
Give(v) ==
    \/ value # None /\ v = value /\ UNCHANGED <<value, made>>
    \/ /\ value = None /\ made < MaxInstances
       /\ v = made + 1 /\ value' = v /\ made' = v

(* MUTANT: a touch only stops the timer.                                   *)
(* Definitions marked MUTANT are plausible bugs of the definition that     *)
(* follows them; no specification uses them.                               *)
GetStops ==
    /\ Touch
    /\ \E v \in 1 .. MaxInstances : Give(v)
    /\ timer' = "nil"
    /\ UNCHANGED <<inUse, held>>

Get ==
    /\ Touch
    /\ \E v \in 1 .. MaxInstances : Give(v)
    /\ timer' = IF idleAfter THEN "armed" ELSE "nil"
    /\ UNCHANGED <<inUse, held>>

Acquire(h) ==
    /\ held[h] = None /\ Touch
    /\ \E v \in 1 .. MaxInstances : Give(v) /\ held' = [held EXCEPT ![h] = v]
    /\ inUse' = inUse + 1 /\ timer' = "nil"

(* MUTANT: the lease is counted although there is nothing to lease.        *)
FactoryFailsCounted ==
    /\ value = None /\ Touch
    /\ timer' = "nil" /\ inUse' = inUse + 1
    /\ UNCHANGED <<value, made, held>>

(* Get or Acquire, and the factory returns an error.                       *)
FactoryFails ==
    /\ value = None /\ Touch
    /\ timer' = "nil"
    /\ UNCHANGED <<resource, held>>

release(h) ==
    /\ held[h] # None
    /\ held' = [held EXCEPT ![h] = None]
    /\ inUse' = IF inUse > 0 THEN inUse - 1 ELSE 0
    /\ scheduleLocked(inUse' = 0 /\ value # None /\ idleAfter)
    /\ UNCHANGED <<value, made, idleAfter, strays, fired, torn, touches, settings>>

-----------------------------------------------------------------------------
TimerFires ==
    /\ \/ timer = "armed" /\ timer' = "fired" /\ UNCHANGED strays
       \/ strays > 0 /\ strays' = strays - 1 /\ UNCHANGED timer
    /\ fired' = fired + 1
    /\ UNCHANGED <<resource, idleAfter, held, torn, touches, settings>>

(* MUTANT: the callback does not look whether the resource is in use.      *)
reclaimIdleUsed ==
    /\ fired > 0 /\ fired' = fired - 1
    /\ value' = None
    /\ timer' = "nil"
    /\ strays' = IF timer = "armed" THEN strays + 1 ELSE strays
    /\ UNCHANGED <<made, inUse, idleAfter, held, torn, touches, settings>>

(* The callback of any timer, also of one that was stopped too late; a     *)
(* timer that was armed in the meantime is forgotten, not stopped.         *)
reclaimIdle ==
    /\ fired > 0 /\ fired' = fired - 1
    /\ value' = IF inUse = 0 THEN None ELSE value
    /\ timer' = "nil"
    /\ strays' = IF timer = "armed" THEN strays + 1 ELSE strays
    /\ UNCHANGED <<made, inUse, idleAfter, held, torn, touches, settings>>

Setting == settings < MaxSettings /\ settings' = settings + 1
           /\ UNCHANGED <<made, strays, fired, held, touches>>

SetIdleAfter(positive) ==
    /\ Setting
    /\ idleAfter' = positive
    /\ timer' = IF positive /\ value # None /\ inUse = 0 THEN "armed" ELSE "nil"
    /\ UNCHANGED <<value, inUse, torn>>

Close ==
    /\ Setting
    /\ timer' = "nil" /\ value' = None /\ inUse' = 0
    /\ torn' = (torn \/ \E h \in Holder : held[h] # None)
    /\ UNCHANGED idleAfter

-----------------------------------------------------------------------------
ManagedInit ==
    /\ value = None /\ made = 0 /\ inUse = 0 /\ idleAfter = FALSE
    /\ timer = "nil" /\ strays = 0 /\ fired = 0
    /\ held = [h \in Holder |-> None] /\ torn = FALSE
    /\ touches = 0 /\ settings = 0

ManagedNext ==
    \/ Get \/ FactoryFails
    \/ \E h \in Holder : Acquire(h) \/ release(h)
    \/ TimerFires \/ reclaimIdle
    \/ \E positive \in BOOLEAN : SetIdleAfter(positive)
    \/ Close

(* Timers fire and their callbacks get the lock.  Leases are released, or  *)
(* they are not.                                                           *)
ManagedFairness == WF_managedVars(TimerFires) /\ WF_managedVars(reclaimIdle)

ManagedSpec == ManagedInit /\ [][ManagedNext]_managedVars /\ ManagedFairness

-----------------------------------------------------------------------------
(* The types; and the count is that of the leases, until a Close under a   *)
(* lease resets it.                                                        *)
ManagedTypeOK ==
    /\ value \in None .. made /\ made \in 0 .. MaxInstances
    /\ inUse \in 0 .. MaxTouches
    /\ ~torn => inUse = Cardinality({h \in Holder : held[h] # None})
    /\ idleAfter \in BOOLEAN /\ timer \in {"nil", "armed", "fired"}
    /\ strays \in Nat /\ fired \in Nat
    /\ held \in [Holder -> None .. made] /\ torn \in BOOLEAN
    /\ touches \in 0 .. MaxTouches /\ settings \in 0 .. MaxSettings

(* Nobody's lease outlives the resource it is for, whatever timer fires    *)
(* late.  Close is the exception: also leases that are taken after it are  *)
(* not safe then, as an older one that is released counts for them.        *)
HeldIsLive == \A h \in Holder : held[h] # None => torn \/ value = held[h]

(* A resource that nobody uses any more is reclaimed in the end: no        *)
(* sequence of touches, leases and late callbacks leaves it without timer. *)
IdleIsReclaimed == <>[](idleAfter /\ inUse = 0 => value = None)
=============================================================================
