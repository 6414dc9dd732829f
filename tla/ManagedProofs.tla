----------------------------- MODULE ManagedProofs -----------------------------
(***************************************************************************)
(* Theorems about Managed for any number of holders, calls and timers.     *)
(* HeldIsLive rests on the use count: reclaimIdle drops the resource only  *)
(* when the count is zero, and the count is that of the leases until Close *)
(* runs under one.                                                         *)
(***************************************************************************)
EXTENDS Managed, FiniteSetTheorems, TLAPS

(* The holders that have a lease.                                          *)
Leases == {h \in Holder : held[h] # None}

(* Each use of the count was a call, which bounds it.                      *)
ManagedInv == ManagedTypeOK /\ HeldIsLive /\ inUse <= touches

LEMMA FiniteLeases == IsFiniteSet(Leases) /\ Cardinality(Leases) \in Nat
  BY ManagedAssumption, FS_Subset, FS_CardinalityType DEF Leases

LEMMA ManagedInitInv == ManagedInit => ManagedInv
<1> SUFFICES ASSUME ManagedInit PROVE ManagedInv
  OBVIOUS
<1>1. {h \in Holder : held[h] # None} = {}
  BY DEF ManagedInit
<1>2. Cardinality({h \in Holder : held[h] # None}) = 0
  BY <1>1, FS_EmptySet
<1>3. ManagedTypeOK
  <2>1. /\ value \in None .. made /\ made \in 0 .. MaxInstances /\ inUse \in 0 .. MaxTouches
        /\ strays \in Nat /\ fired \in Nat
        /\ touches \in 0 .. MaxTouches /\ settings \in 0 .. MaxSettings
    BY ManagedAssumption DEF ManagedInit, None
  <2>2. held \in [Holder -> None .. made]
    BY DEF ManagedInit, None
  <2>3. idleAfter \in BOOLEAN /\ torn \in BOOLEAN /\ timer \in {"nil", "armed", "fired"}
    BY DEF ManagedInit
  <2> QED
    BY <2>1, <2>2, <2>3, <1>2 DEF ManagedInit, ManagedTypeOK
<1> QED
  BY <1>3 DEF ManagedInit, ManagedInv, HeldIsLive

LEMMA GiveIsNew ==
    ASSUME ManagedInv, NEW v \in 1 .. MaxInstances, Give(v)
    PROVE  /\ value' = v /\ v \in 1 .. made' /\ made' \in made .. MaxInstances
           /\ value # None => value' = value
  BY ManagedAssumption DEF Give, ManagedInv, ManagedTypeOK, None

LEMMA ManagedStep == ManagedInv /\ [ManagedNext]_managedVars => ManagedInv'
<1> SUFFICES ASSUME ManagedInv, [ManagedNext]_managedVars PROVE ManagedInv'
  OBVIOUS
<1> USE ManagedAssumption DEF ManagedInv
<1>l. IsFiniteSet(Leases) /\ Cardinality(Leases) \in Nat
  BY FiniteLeases
<1>t. ~torn => inUse = Cardinality(Leases)
  BY DEF ManagedTypeOK, Leases
<1>i. \A h \in Holder : held[h] # None => torn \/ value = held[h]
  BY DEF HeldIsLive
<1>1. CASE Get
  <2>1. PICK v \in 1 .. MaxInstances : Give(v)
    BY <1>1 DEF Get
  <2>2. UNCHANGED <<held, inUse, torn>>
    BY <1>1 DEF Get, Touch
  <2>3. HeldIsLive'
    BY <2>1, <2>2, <1>i, GiveIsNew DEF HeldIsLive, ManagedTypeOK, None
  <2>4. ManagedTypeOK'
    BY <1>1, <2>1, <2>2, GiveIsNew DEF Get, Touch, ManagedTypeOK, None
  <2> QED
    BY <1>1, <2>3, <2>4 DEF Get, Touch, ManagedTypeOK
<1>2. ASSUME NEW h \in Holder, Acquire(h) PROVE ManagedInv'
  <2>1. PICK v \in 1 .. MaxInstances : Give(v) /\ held' = [held EXCEPT ![h] = v]
    BY <1>2 DEF Acquire
  <2>2. Leases' = Leases \cup {h} /\ h \notin Leases
    BY <1>2, <2>1 DEF Acquire, Leases, ManagedTypeOK, None
  <2>3. Cardinality(Leases') = Cardinality(Leases) + 1
    BY <2>2, <1>l, FS_AddElement
  <2>4. HeldIsLive'
    BY <1>2, <2>1, <1>i, GiveIsNew DEF Acquire, Touch, HeldIsLive, ManagedTypeOK, None
  <2>5. held' \in [Holder -> None .. made']
    BY <2>1, GiveIsNew DEF ManagedTypeOK, None
  <2>6. ManagedTypeOK'
    BY <1>2, <2>1, <2>3, <2>5, <1>t, GiveIsNew DEF Acquire, Touch, ManagedTypeOK, Leases, None
  <2> QED
    BY <1>2, <2>4, <2>6 DEF Acquire, Touch, ManagedTypeOK
<1>3. ASSUME NEW h \in Holder, release(h) PROVE ManagedInv'
  <2>1. Leases' = Leases \ {h} /\ h \in Leases
    BY <1>3 DEF release, Leases, ManagedTypeOK, None
  <2>2. Cardinality(Leases') = Cardinality(Leases) - 1 /\ Cardinality(Leases) > 0
    BY <2>1, <1>l, FS_RemoveElement, FS_EmptySet
  <2>3. HeldIsLive'
    BY <1>3, <1>i DEF release, HeldIsLive, ManagedTypeOK, None
  <2>4. ManagedTypeOK'
    BY <1>3, <2>2, <1>t DEF release, scheduleLocked, ManagedTypeOK, Leases, None
  <2> QED
    BY <1>3, <2>3, <2>4 DEF release, ManagedTypeOK
<1>4. CASE reclaimIdle
  <2>1. HeldIsLive'
    <3>1. inUse = 0 /\ ~torn => Leases = {}
      BY <1>t, <1>l, FS_EmptySet
    <3> QED
      BY <1>4, <3>1, <1>i DEF reclaimIdle, HeldIsLive, Leases
  <2> QED
    BY <1>4, <2>1 DEF reclaimIdle, ManagedTypeOK, None
<1>5. CASE Close
  <2>1. ~torn' => Leases = {}
    BY <1>5 DEF Close, Leases
  <2>2. ~torn' => Cardinality(Leases') = 0
    BY <1>5, <2>1, FS_EmptySet DEF Close, Setting, Leases
  <2>3. HeldIsLive'
    BY <1>5, <2>1 DEF Close, Setting, HeldIsLive, Leases
  <2>4. ManagedTypeOK'
    BY <1>5, <2>2 DEF Close, Setting, ManagedTypeOK, Leases, None
  <2> QED
    BY <1>5, <2>3, <2>4 DEF Close, Setting, ManagedTypeOK
<1>6. CASE FactoryFails
  BY <1>6 DEF FactoryFails, Touch, resource, ManagedTypeOK, HeldIsLive
<1>7. CASE TimerFires
  BY <1>7 DEF TimerFires, resource, ManagedTypeOK, HeldIsLive
<1>8. CASE \E positive \in BOOLEAN : SetIdleAfter(positive)
  BY <1>8 DEF SetIdleAfter, Setting, ManagedTypeOK, HeldIsLive
<1>9. CASE UNCHANGED managedVars
  BY <1>9 DEF managedVars, ManagedTypeOK, HeldIsLive
<1> QED
  BY <1>1, <1>2, <1>3, <1>4, <1>5, <1>6, <1>7, <1>8, <1>9 DEF ManagedNext

LEMMA ManagedInvariant == ManagedSpec => []ManagedInv
  BY ManagedInitInv, ManagedStep, PTL DEF ManagedSpec

(* No timer of reclaimIdle, however late its callback gets the lock, takes *)
(* a resource from under a lease, Close under a lease excepted.            *)
THEOREM InUseIsNotReclaimed == ManagedSpec => []HeldIsLive
<1>1. ManagedInv => HeldIsLive
  BY DEF ManagedInv
<1> QED
  BY <1>1, ManagedInvariant, PTL

(* The types, and that Acquire and release keep the count that of the      *)
(* leases.                                                                 *)
THEOREM CountIsOfLeases == ManagedSpec => []ManagedTypeOK
<1>1. ManagedInv => ManagedTypeOK
  BY DEF ManagedInv
<1> QED
  BY <1>1, ManagedInvariant, PTL
=============================================================================
