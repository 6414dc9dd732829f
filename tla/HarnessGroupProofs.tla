------------------------- MODULE HarnessGroupProofs -------------------------
(***************************************************************************)
(* Theorems about HarnessGroup for every number of items, attempts, slots, *)
(* requests, crashes, faults and runs.                                     *)
(***************************************************************************)
EXTENDS HarnessGroup, FiniteSetTheorems, FunctionTheorems, TLAPS

(* The rows that the writers produce are rows.                             *)
LEMMA RowsAreRows ==
    ASSUME NEW r \in Row, crashes \in Nat
    PROVE  /\ ClaimedRow(r) \in Row
           /\ \A t \in Attempt : RecordedRow(r, t) \in Row
           /\ RenewedRow(r) \in Row
           /\ ScoringRow(r) \in Row
           /\ \A l \in Lease : RequeuedRow(r, l) \in Row
           /\ \A s \in ItemStatus : EndedRow(r, s) \in Row
           /\ \A b \in BOOLEAN : FailedRow(r, b) \in Row
           /\ \A o \in Outcome : FinalRow(r, o) \in Row
<1>1. workerID \in Nat
  BY DEF workerID
<1>2. ClaimedRow(r) \in Row /\ RenewedRow(r) \in Row /\ ScoringRow(r) \in Row
  BY <1>1 DEF Row, ClaimedRow, RenewedRow, ScoringRow, ItemStatus, Lease
<1>6. ASSUME NEW t \in Attempt
      PROVE  RecordedRow(r, t) \in Row
  <2>1. r.attempts + 1 \in Nat
    BY DEF Row
  <2> QED
    BY <1>1, <2>1 DEF Row, RecordedRow, ItemStatus, Lease
<1>3. ASSUME NEW x \in Row
      PROVE  /\ \A l \in Lease : RequeuedRow(x, l) \in Row
             /\ \A s \in ItemStatus : EndedRow(x, s) \in Row
  BY DEF Row, RequeuedRow, EndedRow, ItemStatus, Lease, Nobody
<1>4. \A b \in BOOLEAN : FailedRow(r, b) \in Row
  <2>1. [r EXCEPT !.attempts = @ + 1] \in Row
    BY DEF Row
  <2> QED
    BY <1>3, <2>1 DEF FailedRow, Lease, ItemStatus
<1>5. \A o \in Outcome : FinalRow(r, o) \in Row
  BY <1>3 DEF FinalRow, verdictToItemStatus, Lease, ItemStatus
<1> QED
  BY <1>2, <1>3, <1>4, <1>5, <1>6

LEMMA BlankRowType == BlankRow \in Row /\ RowList(NoRows)
  BY DEF BlankRow, NoRows, RowList, Row, ItemStatus, Lease, NoRun, Nobody

LEMMA ProcTypes ==
    /\ Attempt \subseteq Proc /\ Lister \subseteq Proc /\ Request \subseteq Lister
    /\ Cancels \subseteq Request /\ Retries \subseteq Request /\ Reports \subseteq Request
    /\ D \in Lister /\ D \notin Attempt /\ D \notin Request
    /\ Attempt \subseteq Nat \ {0}
    /\ Attempt \cap Request = {}
  BY ProcAssumption, ConfigAssumption
     DEF Proc, Lister, Request, D, Attempt

LEMMA FiniteItems == IsFiniteSet(Item)
<1>1. 1 \in Int /\ NItems \in Int
  BY ConfigAssumption
<1> QED
  BY <1>1, FS_Interval DEF Item

LEMMA WithoutType ==
    ASSUME NEW f, RowList(f), NEW i
    PROVE  RowList(Without(f, i))
  BY DEF RowList, Without

LEMMA ListingType ==
    ASSUME row \in [Item -> Row], NEW S, S \subseteq Item
    PROVE  RowList([i \in S |-> row[i]])
  BY DEF RowList

LEMMA TypeInit == Init => TypeOK
<1> SUFFICES ASSUME Init PROVE TypeOK
  OBVIOUS
<1>1. pc \in [Proc -> PC]
  BY DEF Init, PC
<1>2. \A q \in Lister : RowList(worklist[q])
  BY BlankRowType DEF Init
<1> QED
  BY <1>1, <1>2, BlankRowType
     DEF Init, TypeOK, GroupStatus, Card, NoCard, CardVerdict, RunStatus, Outcome

(* Steps of refreshGroupSummary.                                           *)
LEMMA TypeRefresh ==
    ASSUME TypeOK, NEW p \in Proc, refreshGroupSummary(p)
    PROVE  TypeOK'
<1> USE DEF TypeOK, store, counters, Goto
<1>1. CASE RefreshGet(p)
  BY <1>1 DEF RefreshGet, PC
<1>2. CASE RefreshList(p)
  BY <1>2 DEF RefreshList, AfterRefresh, PC, GroupStatus, deriveGroupStatus, ClosedStatus
<1>3. CASE RefreshWrite(p)
  BY <1>3 DEF RefreshWrite, AfterRefresh, PC, GroupStatus
<1> QED
  BY <1>1, <1>2, <1>3 DEF refreshGroupSummary

(* Steps of the dispatcher.                                                *)
LEMMA TypeDispatch ==
    ASSUME TypeOK, Dispatch
    PROVE  TypeOK'
<1> USE ProcTypes DEF TypeOK, store, locals, counters, Goto
<1>1. CASE Tick
  BY <1>1 DEF Tick, PC
<1>2. CASE RecoverList
  <2>1. RowList([i \in Expired |-> row[i]])
    BY ListingType DEF Expired
  <2> QED
    BY <1>2, <2>1 DEF RecoverList, PC
<1>3. CASE RecoverItem
  <2>1. PICK i \in Item :
          /\ First(DOMAIN worklist[D], i)
          /\ UpdateGroupItem(i, RequeuedRow(worklist[D][i], "none"))
          /\ recovered' = [recovered EXCEPT ![i] = @ + 1]
          /\ worklist' = [worklist EXCEPT ![D] = Without(@, i)]
          /\ Goto(D, IF Last(D, i) THEN "refGet" ELSE "recover")
    BY <1>3 DEF RecoverItem
  <2>2. worklist[D][i] \in Row
    BY <2>1 DEF First, RowList
  <2>3. RequeuedRow(worklist[D][i], "none") \in Row
    BY <2>2, RowsAreRows DEF Lease
  <2>4. RowList(Without(worklist[D], i))
    BY WithoutType
  <2> QED
    BY <1>3, <2>1, <2>3, <2>4 DEF RecoverItem, UpdateGroupItem, PC
<1>4. CASE Count
  <2>1. Active \subseteq Item
    BY DEF Active
  <2>2. Cardinality(Active) \in Nat
    BY <2>1, FiniteItems, FS_Subset, FS_CardinalityType
  <2>3. FreeSlots(Cardinality(Active)) \in Nat
    BY <2>2, ConfigAssumption DEF FreeSlots
  <2> QED
    BY <1>4, <2>3 DEF Count, PC
<1>5. CASE Claim
  <2>1. PICK i \in Item, t \in Attempt :
          /\ UpdateGroupItem(i, ClaimedRow(row[i]))
          /\ itemOf' = [itemOf EXCEPT ![t] = i]
          /\ Goto(t, "submit")
    BY <1>5 DEF Claim
  <2>2. ClaimedRow(row[i]) \in Row
    BY RowsAreRows
  <2>3. slots' \in Nat
    BY <1>5 DEF Claim
  <2> QED
    BY <1>5, <2>1, <2>2, <2>3 DEF Claim, UpdateGroupItem, PC, LivePC
<1>6. CASE ClaimDone
  BY <1>6 DEF ClaimDone, PC
<1> QED
  BY <1>1, <1>2, <1>3, <1>4, <1>5, <1>6 DEF Dispatch

(* Steps of an attempt.  The copies that Write consumes are rows.          *)
LEMMA TypeAttempt ==
    ASSUME TypeOK, NEW t \in Attempt, itemOf[t] \in Item, processClaimedItem(t)
    PROVE  TypeOK'
<1> USE ProcTypes DEF TypeOK, store, locals, counters, Goto
<1>1. copy[t] \in Row /\ row[itemOf[t]] \in Row /\ outcome[t] \in Outcome
  OBVIOUS
<1>2. ASSUME NEW l \in PC, Read(t, l)
      PROVE  TypeOK'
  BY <1>1, <1>2 DEF Read
<1>3. ASSUME NEW l \in PC, NEW r \in Row, Write(t, r, l), outcome' \in [Proc -> Outcome]
      PROVE  TypeOK'
  BY <1>3, BlankRowType DEF Write, UpdateGroupItem
<1>4. ASSUME NEW l \in PC, NEW r \in {NoRun} \cup Attempt, FailCard(t, r), Goto(t, l)
      PROVE  TypeOK'
  <2>1. [run |-> r, verdict |-> "error"] \in Card
    BY DEF Card, CardVerdict
  <2> QED
    BY <1>1, <1>4, <2>1 DEF FailCard
<1>5. CASE Submit(t)
  BY <1>5 DEF Submit, PC, LivePC, RunStatus
<1>6. CASE RecordRead(t)
  BY <1>2, <1>6 DEF RecordRead, PC, LivePC
<1>7. CASE RecordWrite(t)
  BY <1>1, <1>3, <1>7, RowsAreRows DEF RecordWrite, PC, LivePC
<1>8. CASE WaitRun(t)
  BY <1>8 DEF WaitRun, PC, LivePC, Outcome, RunEnded
<1>9. CASE WaitItem(t)
  BY <1>2, <1>9 DEF WaitItem, PC, LivePC
<1>10. CASE RenewWrite(t)
  BY <1>1, <1>3, <1>10, RowsAreRows DEF RenewWrite, PC, LivePC
<1>11. CASE ScoreRead(t)
  <2>1. CASE row[itemOf[t]].status = "cancelled"
    BY <1>11, <2>1 DEF ScoreRead, PC
  <2>2. CASE row[itemOf[t]].status # "cancelled"
    BY <1>2, <1>11, <2>2 DEF ScoreRead, PC, LivePC
  <2> QED
    BY <2>1, <2>2
<1>12. CASE ScoreWrite(t)
  BY <1>1, <1>3, <1>12, RowsAreRows DEF ScoreWrite, PC, LivePC
<1>13. CASE Score(t)
  <2>1. PICK v \in Verdicts(outcome[t]) :
          /\ card' = [card EXCEPT ![itemOf[t]] = [run |-> t, verdict |-> v]]
          /\ outcome' = [outcome EXCEPT ![t] = IF @ = "cancelled" THEN @ ELSE v]
    BY <1>13 DEF Score
  <2>2. v \in Outcome /\ [run |-> t, verdict |-> v] \in Card
    BY DEF Verdicts, Verdict, Outcome, Card, CardVerdict
  <2> QED
    BY <1>13, <2>1, <2>2 DEF Score, PC, LivePC
<1>14. CASE FinalRead(t)
  BY <1>2, <1>14 DEF FinalRead, PC, LivePC
<1>15. CASE FinalWrite(t)
  BY <1>1, <1>3, <1>15, RowsAreRows DEF FinalWrite, PC, Outcome
<1>16. CASE FailRead(t)
  BY <1>4, <1>16 DEF FailRead, PC, LivePC
<1>17. CASE FailWrite(t)
  BY <1>1, <1>3, <1>17, RowsAreRows DEF FailWrite, PC, Outcome
<1>18. CASE RefuseRead(t)
  BY <1>4, <1>18 DEF RefuseRead, PC, LivePC
<1>19. CASE RefuseWrite(t)
  BY <1>1, <1>3, <1>19, RowsAreRows DEF RefuseWrite, PC
<1> QED
  BY <1>5, <1>6, <1>7, <1>8, <1>9, <1>10, <1>11, <1>12, <1>13, <1>14, <1>15,
     <1>16, <1>17, <1>18, <1>19 DEF processClaimedItem

(* Steps of the three kinds of request.                                    *)
LEMMA TypeServe ==
    ASSUME TypeOK, Serve
    PROVE  TypeOK'
<1> USE ProcTypes DEF TypeOK, store, locals, counters, Goto
<1>1. ASSUME NEW q \in Request, NEW S, S \subseteq Item, NEW l \in PC, List(q, S, l)
      PROVE  TypeOK'
  BY <1>1, ListingType DEF List
<1>2. ASSUME NEW q \in Request, NEW i \in Item, First(DOMAIN worklist[q], i)
      PROVE  /\ worklist[q][i] \in Row
             /\ RowList(Without(worklist[q], i))
  <2>1. RowList(worklist[q]) /\ i \in DOMAIN worklist[q]
    BY <1>2 DEF First
  <2> QED
    BY <2>1, WithoutType DEF RowList
<1>3. ASSUME NEW q \in Cancels, CancelList(q)
      PROVE  TypeOK'
  BY <1>1, <1>3 DEF CancelList, Cancellable, PC
<1>4. ASSUME NEW q \in Cancels, CancelRun(q)
      PROVE  TypeOK'
  <2>1. run' \in [Attempt -> RunStatus]
    BY <1>4 DEF CancelRun, RunStatus
  <2> QED
    BY <1>4, <2>1 DEF CancelRun, PC
<1>5. ASSUME NEW q \in Cancels, CancelRow(q)
      PROVE  TypeOK'
  <2>1. PICK i \in Item :
          /\ First(DOMAIN worklist[q], i)
          /\ \/ UpdateGroupItem(i, EndedRow(worklist[q][i], "cancelled"))
             \/ UNCHANGED row
          /\ worklist' = [worklist EXCEPT ![q] = Without(@, i)]
          /\ Goto(q, IF Last(q, i) THEN "cancelGroup" ELSE "cancelRun")
    BY <1>5 DEF CancelRow
  <2>2. EndedRow(worklist[q][i], "cancelled") \in Row
    BY <1>2, <2>1, RowsAreRows DEF ItemStatus
  <2>3. row' \in [Item -> Row]
    BY <2>1, <2>2 DEF UpdateGroupItem
  <2> QED
    BY <1>2, <1>5, <2>1, <2>3 DEF CancelRow, PC
<1>6. ASSUME NEW q \in Cancels, CancelGroup(q)
      PROVE  TypeOK'
  BY <1>6 DEF CancelGroup, PC, GroupStatus
<1>7. ASSUME NEW q \in Retries, RetryList(q)
      PROVE  TypeOK'
  BY <1>1, <1>7 DEF RetryList, Retriable, PC
<1>8. ASSUME NEW q \in Retries, RetryRow(q)
      PROVE  TypeOK'
  <2>1. PICK i \in Item :
          /\ First(DOMAIN worklist[q], i)
          /\ UpdateGroupItem(i, RequeuedRow(worklist[q][i], "valid"))
          /\ worklist' = [worklist EXCEPT ![q] = Without(@, i)]
          /\ Goto(q, IF Last(q, i) THEN "retryGroup" ELSE "retryRow")
    BY <1>8 DEF RetryRow
  <2>2. RequeuedRow(worklist[q][i], "valid") \in Row
    BY <1>2, <2>1, RowsAreRows DEF Lease
  <2> QED
    BY <1>2, <1>8, <2>1, <2>2 DEF RetryRow, UpdateGroupItem, PC
<1>9. ASSUME NEW q \in Retries, RetryGroup(q)
      PROVE  TypeOK'
  BY <1>9 DEF RetryGroup, PC, GroupStatus
<1>10. ASSUME NEW q \in Reports, ReportList(q)
       PROVE  TypeOK'
  <2>1. PICK todo \in SUBSET NeedsRescore :
          List(q, todo, IF todo = {} THEN "done" ELSE "reportCard")
    BY <1>10 DEF ReportList
  <2>2. todo \subseteq Item
    BY DEF NeedsRescore, Rescorable
  <2> QED
    BY <1>1, <2>1, <2>2 DEF PC
<1>11. ASSUME NEW q \in Reports, ReportCard(q)
       PROVE  TypeOK'
  <2>1. PICK i \in Item, v \in Verdict :
          /\ First(DOMAIN worklist[q], i)
          /\ card' = [card EXCEPT ![i] = [run |-> worklist[q][i].run, verdict |-> v]]
          /\ outcome' = [outcome EXCEPT ![q] = v]
    BY <1>11 DEF ReportCard
  <2>2. [run |-> worklist[q][i].run, verdict |-> v] \in Card
    BY <1>2, <2>1 DEF Card, CardVerdict, Row
  <2> QED
    BY <1>11, <2>1, <2>2 DEF ReportCard, PC, Outcome
<1>12. ASSUME NEW q \in Reports, ReportRow(q)
       PROVE  TypeOK'
  <2>1. PICK i \in Item :
          /\ First(DOMAIN worklist[q], i)
          /\ \/ UpdateGroupItem(i, EndedRow(worklist[q][i], verdictToItemStatus(outcome[q])))
             \/ UNCHANGED row
          /\ worklist' = [worklist EXCEPT ![q] = Without(@, i)]
          /\ outcome' = [outcome EXCEPT ![q] = "none"]
          /\ Goto(q, IF Last(q, i) THEN "refGet" ELSE "reportCard")
    BY <1>12 DEF ReportRow
  <2>2. EndedRow(worklist[q][i], verdictToItemStatus(outcome[q])) \in Row
    BY <1>2, <2>1, RowsAreRows DEF ItemStatus, verdictToItemStatus
  <2>3. row' \in [Item -> Row]
    BY <2>1, <2>2 DEF UpdateGroupItem
  <2> QED
    BY <1>2, <1>12, <2>1, <2>3 DEF ReportRow, PC, Outcome
<1> QED
  BY <1>3, <1>4, <1>5, <1>6, <1>7, <1>8, <1>9, <1>10, <1>11, <1>12 DEF Serve

(* Steps of the world around the group.                                    *)
LEMMA TypeWorld ==
    ASSUME TypeOK,
           \/ \E t \in Attempt : RunEnds(t)
           \/ \E i \in Item : LeaseExpires(i)
           \/ \E p \in Proc : Fault(p)
           \/ Crash
    PROVE  TypeOK'
<1> USE ProcTypes, BlankRowType DEF TypeOK, store, locals, counters, Goto
<1>1. ASSUME NEW t \in Attempt, RunEnds(t)
      PROVE  TypeOK'
  BY <1>1 DEF RunEnds, RunEnded, RunStatus
<1>2. ASSUME NEW i \in Item, LeaseExpires(i)
      PROVE  TypeOK'
  <2>1. [row[i] EXCEPT !.lease = "expired"] \in Row
    BY DEF Row, Lease
  <2>2. lapses' \in Nat
    BY <1>2 DEF LeaseExpires
  <2> QED
    BY <1>2, <2>1, <2>2 DEF LeaseExpires, UpdateGroupItem
<1>3. ASSUME NEW p \in Proc, Fault(p)
      PROVE  TypeOK'
  <2>1. FaultLeadsTo(p) \in PC
    BY DEF FaultLeadsTo, PC, LivePC
  <2>2. pc' \in [Proc -> PC]
    BY <1>3, <2>1 DEF Fault
  <2>3. copy' \in [Attempt -> Row] /\ view' \in [Proc -> GroupStatus]
    BY <1>3 DEF Fault, GroupStatus
  <2>4. /\ worklist' = [q \in Lister |-> worklist'[q]]
        /\ \A q \in Lister : RowList(worklist'[q])
    BY <1>3 DEF Fault
  <2>5. outcome' \in [Proc -> Outcome] /\ slots' \in Nat /\ faults' \in Nat
    BY <1>3 DEF Fault, Outcome
  <2> QED
    BY <1>3, <2>2, <2>3, <2>4, <2>5 DEF Fault
<1>4. CASE Crash
  <2>1. pc' \in [Proc -> PC]
    BY <1>4 DEF Crash, PC
  <2>2. run' \in [Attempt -> RunStatus]
    BY <1>4 DEF Crash, RunStatus
  <2>3. /\ worklist' = [q \in Lister |-> worklist'[q]]
        /\ \A q \in Lister : RowList(worklist'[q])
    BY <1>4 DEF Crash
  <2> QED
    BY <1>4, <2>1, <2>2, <2>3 DEF Crash, GroupStatus, Outcome
<1> QED
  BY <1>1, <1>2, <1>3, <1>4

(* Every live goroutine was claimed for an item.                           *)
HasItem == \A t \in Attempt : Live(t) => itemOf[t] \in Item

(* Only a claim makes a goroutine live, and only a claim names its item.   *)
LEMMA LiveSteps ==
    ASSUME TypeOK, [Next]_vars
    PROVE  \/ Claim
           \/ itemOf' = itemOf /\ \A t \in Attempt : Live(t)' => Live(t)
<1> USE ProcTypes DEF TypeOK, locals, counters, Goto, Live, LivePC
<1>1. CASE Dispatch
  BY <1>1 DEF Dispatch, Tick, RecoverList, RecoverItem, Count, ClaimDone
<1>2. ASSUME NEW t \in Attempt, processClaimedItem(t)
      PROVE  itemOf' = itemOf /\ \A u \in Attempt : Live(u)' => Live(u)
  <2>1. ASSUME NEW l, Read(t, l)
        PROVE  itemOf' = itemOf /\ pc' = [pc EXCEPT ![t] = l]
    BY <2>1 DEF Read
  <2>2. ASSUME NEW l, NEW r, Write(t, r, l)
        PROVE  itemOf' = itemOf /\ pc' = [pc EXCEPT ![t] = l]
    BY <2>2 DEF Write
  <2>3. Live(t) /\ itemOf' = itemOf /\ \E l : pc' = [pc EXCEPT ![t] = l]
    <3>1. CASE Submit(t) \/ WaitRun(t) \/ Score(t)
      BY <3>1 DEF Submit, WaitRun, Score
    <3>2. CASE RecordRead(t) \/ FinalRead(t) \/ ScoreRead(t) \/ WaitItem(t)
      BY <3>2, <2>1 DEF RecordRead, FinalRead, ScoreRead, WaitItem
    <3>3. CASE FailRead(t) \/ RefuseRead(t)
      BY <3>3 DEF FailRead, RefuseRead, FailCard
    <3>4. CASE \/ RecordWrite(t) \/ RenewWrite(t) \/ ScoreWrite(t)
               \/ FinalWrite(t) \/ FailWrite(t) \/ RefuseWrite(t)
      BY <3>4, <2>2 DEF RecordWrite, RenewWrite, ScoreWrite, FinalWrite, FailWrite,
                        RefuseWrite
    <3> QED
      BY <1>2, <3>1, <3>2, <3>3, <3>4 DEF processClaimedItem
  <2> QED
    BY <2>3
<1>3. CASE Serve
  <2>1. itemOf' = itemOf /\ \E q \in Request : \E l : pc' = [pc EXCEPT ![q] = l]
    BY <1>3 DEF Serve, List, CancelList, CancelRun, CancelRow, CancelGroup, RetryList,
                RetryRow, RetryGroup, ReportList, ReportCard, ReportRow
  <2> QED
    BY <2>1
<1>4. ASSUME NEW p \in Proc, refreshGroupSummary(p)
      PROVE  itemOf' = itemOf /\ \A u \in Attempt : Live(u)' => Live(u)
  BY <1>4 DEF refreshGroupSummary, RefreshGet, RefreshList, RefreshWrite, AfterRefresh
<1>5. ASSUME NEW p \in Proc, Fault(p)
      PROVE  itemOf' = itemOf /\ \A u \in Attempt : Live(u)' => Live(u)
  BY <1>5 DEF Fault, FaultLeadsTo
<1>6. CASE Crash
  BY <1>6 DEF Crash
<1>7. CASE \/ \E t \in Attempt : RunEnds(t)
           \/ \E i \in Item : LeaseExpires(i)
  BY <1>7 DEF RunEnds, LeaseExpires
<1>8. CASE UNCHANGED vars
  BY <1>8 DEF vars
<1> QED
  BY <1>1, <1>2, <1>3, <1>4, <1>5, <1>6, <1>7, <1>8 DEF Next

LEMMA HasItemNext ==
    ASSUME TypeOK, HasItem, [Next]_vars
    PROVE  HasItem'
<1>1. CASE Claim
  <2>1. PICK i \in Item, t \in Attempt :
          itemOf' = [itemOf EXCEPT ![t] = i] /\ Goto(t, "submit")
    BY <1>1 DEF Claim
  <2> QED
    BY <2>1, ProcTypes DEF HasItem, TypeOK, Live, Goto
<1>2. CASE itemOf' = itemOf /\ \A t \in Attempt : Live(t)' => Live(t)
  BY <1>2 DEF HasItem
<1> QED
  BY <1>1, <1>2, LiveSteps

LEMMA ClaimedItems ==
    ASSUME HasItem, NEW t \in Attempt, processClaimedItem(t)
    PROVE  Live(t) /\ itemOf[t] \in Item
<1>1. Live(t)
  BY DEF processClaimedItem, Live, LivePC, Submit, RecordRead, RecordWrite, WaitRun,
         WaitItem, RenewWrite, ScoreRead, ScoreWrite, Score, FinalRead,
         FinalWrite, FailRead, FailWrite, RefuseRead, RefuseWrite
<1> QED
  BY <1>1 DEF HasItem

LEMMA TypeNext ==
    ASSUME TypeOK, HasItem, [Next]_vars
    PROVE  TypeOK'
<1>1. ASSUME NEW t \in Attempt, processClaimedItem(t)
      PROVE  TypeOK'
  BY <1>1, ClaimedItems, TypeAttempt
<1>2. CASE UNCHANGED vars
  BY <1>2 DEF vars, TypeOK
<1> QED
  BY <1>1, <1>2, TypeDispatch, TypeServe, TypeRefresh, TypeWorld DEF Next

(* The type invariant, with the fact it rests on, holds of every behaviour *)
(* of the specification.                                                   *)
THEOREM TypeCorrect == Spec => [](TypeOK /\ HasItem)
<1>1. Init => TypeOK /\ HasItem
  <2>1. Init => HasItem
    BY ProcTypes DEF Init, HasItem, Live, LivePC
  <2> QED
    BY <2>1, TypeInit
<1>2. TypeOK /\ HasItem /\ [Next]_vars => (TypeOK /\ HasItem)'
  BY TypeNext, HasItemNext
<1> QED
  BY <1>1, <1>2, PTL DEF Spec

-----------------------------------------------------------------------------
(***************************************************************************)
(* Recoverable.  Rows travel: through the copies of the goroutines and the *)
(* worklists of the loops, and back.  The invariant says that no row, on   *)
(* whichever leg of the journey, is one that recovery would overlook.      *)
(***************************************************************************)
Consistent(r) ==
    /\ r.status \in ActiveItem <=> r.owner # Nobody
    /\ r.status \in ActiveItem => r.lease # "none"
    /\ r.status \in EndedItem => r.lease = "none"

RecInv ==
    /\ \A i \in Item : Consistent(row[i])
    /\ \A t \in Attempt : Consistent(copy[t])
    /\ \A t \in Attempt : pc[t] = "renewWrite" => copy[t].owner # Nobody
    /\ \A q \in Lister : \A i \in DOMAIN worklist[q] : Consistent(worklist[q][i])

(* Every writer turns a consistent row into a consistent row.              *)
LEMMA WritersKeepConsistent ==
    ASSUME NEW r \in Row, crashes \in Nat
    PROVE  /\ Consistent(ClaimedRow(r))
           /\ \A t \in Attempt : Consistent(RecordedRow(r, t))
           /\ Consistent(r) /\ r.owner # Nobody => Consistent(RenewedRow(r))
           /\ Consistent(ScoringRow(r))
           /\ \A l \in Lease : Consistent(RequeuedRow(r, l))
           /\ \A s \in EndedItem : Consistent(EndedRow(r, s))
           /\ \A b \in BOOLEAN : Consistent(FailedRow(r, b))
           /\ \A o \in Outcome : Consistent(FinalRow(r, o))
<1> USE DEF Consistent, ActiveItem, EndedItem, Nobody, Row, ItemStatus
<1>1. workerID # 0
  BY DEF workerID
<1>2. /\ Consistent(ClaimedRow(r)) /\ Consistent(ScoringRow(r))
      /\ Consistent(r) /\ r.owner # Nobody => Consistent(RenewedRow(r))
  BY <1>1 DEF ClaimedRow, ScoringRow, RenewedRow
<1>3. \A t \in Attempt : Consistent(RecordedRow(r, t))
  BY <1>1 DEF RecordedRow
<1>4. ASSUME NEW x \in Row
      PROVE  /\ \A l \in Lease : Consistent(RequeuedRow(x, l))
             /\ \A s \in EndedItem : Consistent(EndedRow(x, s))
  BY DEF RequeuedRow, EndedRow
<1>5. \A b \in BOOLEAN : Consistent(FailedRow(r, b))
  <2>1. [r EXCEPT !.attempts = @ + 1] \in Row
    OBVIOUS
  <2>2. "valid" \in Lease /\ "failed" \in EndedItem
    BY DEF Lease
  <2> HIDE DEF Consistent, Row
  <2> QED
    BY <1>4, <2>1, <2>2 DEF FailedRow
<1>6. \A o \in Outcome : Consistent(FinalRow(r, o))
  <2>1. "valid" \in Lease /\ {"cancelled", "passed", "failed"} \subseteq EndedItem
    BY DEF Lease
  <2> HIDE DEF Consistent, Row, EndedItem
  <2> QED
    BY <1>4, <2>1 DEF FinalRow, verdictToItemStatus
<1> QED
  BY <1>2, <1>3, <1>4, <1>5, <1>6

LEMMA BlankIsConsistent == Consistent(BlankRow) /\ DOMAIN NoRows = {}
  BY DEF Consistent, BlankRow, ActiveItem, EndedItem, NoRows, Nobody

LEMMA RecAttempt ==
    ASSUME TypeOK, RecInv, NEW t \in Attempt, itemOf[t] \in Item, processClaimedItem(t)
    PROVE  RecInv'
<1> USE ProcTypes DEF store, locals, counters, Goto
<1>1. /\ copy[t] \in Row /\ row[itemOf[t]] \in Row
      /\ outcome[t] \in Outcome /\ crashes \in Nat
  BY DEF TypeOK
<1>2. ASSUME NEW l, Read(t, l), l = "renewWrite" => row[itemOf[t]].owner # Nobody
      PROVE  RecInv'
  BY <1>1, <1>2 DEF Read, RecInv, TypeOK
<1>3. ASSUME NEW l, NEW r, Write(t, r, l), Consistent(r), l # "renewWrite"
      PROVE  RecInv'
  BY <1>1, <1>3, BlankIsConsistent DEF Write, UpdateGroupItem, RecInv, TypeOK
<1>4. ASSUME NEW l, l # "renewWrite", UNCHANGED <<row, copy, worklist>>, Goto(t, l)
      PROVE  RecInv'
  BY <1>4 DEF RecInv, TypeOK
<1>5. CASE Submit(t) \/ WaitRun(t) \/ Score(t)
  BY <1>4, <1>5 DEF Submit, WaitRun, Score
<1>6. CASE RecordRead(t) \/ FinalRead(t)
  BY <1>2, <1>6 DEF RecordRead, FinalRead
<1>7. CASE ScoreRead(t)
  BY <1>2, <1>4, <1>7 DEF ScoreRead
<1>8. CASE WaitItem(t)
  <2>1. workerID # Nobody
    BY <1>1 DEF workerID, Nobody
  <2> QED
    BY <1>2, <1>4, <1>8, <2>1 DEF WaitItem
<1>9. CASE FailRead(t) \/ RefuseRead(t)
  BY <1>1, <1>9 DEF FailRead, RefuseRead, FailCard, RecInv, TypeOK
<1>10. CASE RecordWrite(t) \/ ScoreWrite(t)
  BY <1>1, <1>3, <1>10, WritersKeepConsistent DEF RecordWrite, ScoreWrite
<1>11. CASE RenewWrite(t)
  <2>1. Consistent(RenewedRow(copy[t]))
    BY <1>1, <1>11, WritersKeepConsistent DEF RenewWrite, RecInv
  <2> QED
    BY <1>3, <1>11, <2>1 DEF RenewWrite
<1>12. CASE FinalWrite(t) \/ FailWrite(t) \/ RefuseWrite(t)
  BY <1>1, <1>3, <1>12, WritersKeepConsistent DEF FinalWrite, FailWrite, RefuseWrite
<1> QED
  BY <1>5, <1>6, <1>7, <1>8, <1>9, <1>10, <1>11, <1>12 DEF processClaimedItem

(* What a loop takes from its worklist is a consistent row, and what it    *)
(* leaves there is still consistent.                                       *)
LEMMA RecWorklist ==
    ASSUME TypeOK, RecInv, NEW q \in Lister, NEW i \in Item, First(DOMAIN worklist[q], i)
    PROVE  /\ worklist[q][i] \in Row
           /\ Consistent(worklist[q][i])
           /\ \A j \in DOMAIN Without(worklist[q], i) :
                 Consistent(Without(worklist[q], i)[j])
<1>1. RowList(worklist[q]) /\ i \in DOMAIN worklist[q]
  BY DEF First, TypeOK
<1> QED
  BY <1>1 DEF RowList, RecInv, Without

LEMMA RecLoops ==
    ASSUME TypeOK, RecInv, Dispatch \/ Serve
    PROVE  RecInv'
<1> USE ProcTypes DEF store, locals, counters, Goto
<1>1. crashes \in Nat /\ "none" \in Lease /\ "valid" \in Lease
  BY DEF TypeOK, Lease
<1>2. ASSUME NEW q \in Lister, NEW l \in PC \ {"renewWrite"},
             UNCHANGED <<row, copy, worklist>>, Goto(q, l)
      PROVE  RecInv'
  BY <1>2 DEF RecInv, TypeOK
<1>3. ASSUME NEW q \in Lister, NEW S, S \subseteq Item, NEW l \in PC \ {"renewWrite"},
             worklist' = [worklist EXCEPT ![q] = [i \in S |-> row[i]]],
             UNCHANGED <<row, copy>>, Goto(q, l)
      PROVE  RecInv'
  BY <1>3 DEF RecInv, TypeOK
<1>4. ASSUME NEW q \in Lister, NEW i \in Item, NEW r, NEW l \in PC \ {"renewWrite"},
             First(DOMAIN worklist[q], i), Consistent(r),
             UpdateGroupItem(i, r) \/ UNCHANGED row,
             worklist' = [worklist EXCEPT ![q] = Without(@, i)],
             UNCHANGED copy, Goto(q, l)
      PROVE  RecInv'
  BY <1>4, RecWorklist DEF RecInv, TypeOK, UpdateGroupItem
<1>5. CASE Tick \/ Count \/ ClaimDone
  BY <1>2, <1>5 DEF Tick, Count, ClaimDone, PC, LivePC
<1>6. CASE RecoverList
  BY <1>3, <1>6 DEF RecoverList, Expired, PC, LivePC
<1>7. CASE RecoverItem
  <2>1. PICK i \in Item :
          /\ First(DOMAIN worklist[D], i)
          /\ UpdateGroupItem(i, RequeuedRow(worklist[D][i], "none"))
          /\ worklist' = [worklist EXCEPT ![D] = Without(@, i)]
          /\ Goto(D, IF Last(D, i) THEN "refGet" ELSE "recover")
    BY <1>7 DEF RecoverItem
  <2>2. Consistent(RequeuedRow(worklist[D][i], "none"))
    BY <1>1, <2>1, RecWorklist, WritersKeepConsistent
  <2> QED
    BY <1>4, <1>7, <2>1, <2>2 DEF RecoverItem, PC, LivePC
<1>8. CASE Claim
  <2>1. PICK i \in Item, t \in Attempt :
          UpdateGroupItem(i, ClaimedRow(row[i])) /\ Goto(t, "submit")
    BY <1>8 DEF Claim
  <2>2. Consistent(ClaimedRow(row[i]))
    BY <1>1, WritersKeepConsistent DEF TypeOK
  <2> QED
    BY <1>8, <2>1, <2>2 DEF Claim, UpdateGroupItem, RecInv, TypeOK
<1>9. ASSUME NEW q \in Cancels, CancelList(q) \/ CancelRun(q) \/ CancelGroup(q)
      PROVE  RecInv'
  BY <1>2, <1>3, <1>9 DEF CancelList, CancelRun, CancelGroup, List, Cancellable, PC, LivePC
<1>10. ASSUME NEW q \in Cancels, CancelRow(q)
       PROVE  RecInv'
  <2>1. PICK i \in Item :
          /\ First(DOMAIN worklist[q], i)
          /\ UpdateGroupItem(i, EndedRow(worklist[q][i], "cancelled")) \/ UNCHANGED row
          /\ worklist' = [worklist EXCEPT ![q] = Without(@, i)]
          /\ Goto(q, IF Last(q, i) THEN "cancelGroup" ELSE "cancelRun")
    BY <1>10 DEF CancelRow
  <2>2. Consistent(EndedRow(worklist[q][i], "cancelled"))
    BY <1>1, <2>1, RecWorklist, WritersKeepConsistent DEF EndedItem
  <2> QED
    BY <1>4, <1>10, <2>1, <2>2 DEF CancelRow, PC, LivePC
<1>11. ASSUME NEW q \in Retries, RetryList(q) \/ RetryGroup(q)
       PROVE  RecInv'
  BY <1>2, <1>3, <1>11 DEF RetryList, RetryGroup, List, Retriable, PC, LivePC
<1>12. ASSUME NEW q \in Retries, RetryRow(q)
       PROVE  RecInv'
  <2>1. PICK i \in Item :
          /\ First(DOMAIN worklist[q], i)
          /\ UpdateGroupItem(i, RequeuedRow(worklist[q][i], "valid"))
          /\ worklist' = [worklist EXCEPT ![q] = Without(@, i)]
          /\ Goto(q, IF Last(q, i) THEN "retryGroup" ELSE "retryRow")
    BY <1>12 DEF RetryRow
  <2>2. Consistent(RequeuedRow(worklist[q][i], "valid"))
    BY <1>1, <2>1, RecWorklist, WritersKeepConsistent
  <2> QED
    BY <1>4, <1>12, <2>1, <2>2 DEF RetryRow, PC, LivePC
<1>13. ASSUME NEW q \in Reports, ReportList(q)
       PROVE  RecInv'
  <2>1. PICK todo \in SUBSET NeedsRescore :
          List(q, todo, IF todo = {} THEN "done" ELSE "reportCard")
    BY <1>13 DEF ReportList
  <2>2. todo \subseteq Item
    BY DEF NeedsRescore, Rescorable
  <2>3. (IF todo = {} THEN "done" ELSE "reportCard") \in PC \ {"renewWrite"}
    BY DEF PC, LivePC
  <2> QED
    BY <1>3, <1>13, <2>1, <2>2, <2>3 DEF List
<1>14. ASSUME NEW q \in Reports, ReportCard(q)
       PROVE  RecInv'
  BY <1>2, <1>14 DEF ReportCard, PC, LivePC
<1>15. ASSUME NEW q \in Reports, ReportRow(q)
       PROVE  RecInv'
  <2>1. PICK i \in Item :
          /\ First(DOMAIN worklist[q], i)
          /\ \/ UpdateGroupItem(i, EndedRow(worklist[q][i], verdictToItemStatus(outcome[q])))
             \/ UNCHANGED row
          /\ worklist' = [worklist EXCEPT ![q] = Without(@, i)]
          /\ Goto(q, IF Last(q, i) THEN "refGet" ELSE "reportCard")
    BY <1>15 DEF ReportRow
  <2>2. Consistent(EndedRow(worklist[q][i], verdictToItemStatus(outcome[q])))
    BY <1>1, <2>1, RecWorklist, WritersKeepConsistent DEF EndedItem, verdictToItemStatus
  <2> QED
    BY <1>4, <1>15, <2>1, <2>2 DEF ReportRow, PC, LivePC
<1> QED
  BY <1>5, <1>6, <1>7, <1>8, <1>9, <1>10, <1>11, <1>12, <1>13, <1>14, <1>15
     DEF Dispatch, Serve

LEMMA RecNext ==
    ASSUME TypeOK, HasItem, RecInv, [Next]_vars
    PROVE  RecInv'
<1> USE ProcTypes DEF store, locals, counters, Goto
<1>1. ASSUME NEW t \in Attempt, processClaimedItem(t)
      PROVE  RecInv'
  BY <1>1, ClaimedItems, RecAttempt
<1>2. ASSUME NEW p \in Proc, refreshGroupSummary(p)
      PROVE  RecInv'
  BY <1>2 DEF refreshGroupSummary, RefreshGet, RefreshList, RefreshWrite, AfterRefresh,
              RecInv, TypeOK
<1>3. ASSUME NEW i \in Item, LeaseExpires(i)
      PROVE  RecInv'
  <2>1. Consistent([row[i] EXCEPT !.lease = "expired"])
    BY <1>3 DEF LeaseExpires, RecInv, Consistent, TypeOK, Row
  <2> QED
    BY <1>3, <2>1 DEF LeaseExpires, UpdateGroupItem, RecInv, TypeOK
<1>4. ASSUME NEW p \in Proc, Fault(p)
      PROVE  RecInv'
  <2>1. \A t \in Attempt : Consistent(copy'[t])
    BY <1>4, BlankIsConsistent DEF Fault, RecInv
  <2>2. \A q \in Lister : \A i \in DOMAIN worklist'[q] : Consistent(worklist'[q][i])
    BY <1>4, BlankIsConsistent DEF Fault, RecInv
  <2>3. \A t \in Attempt : pc'[t] = "renewWrite" => copy'[t].owner # Nobody
    BY <1>4 DEF Fault, FaultLeadsTo, RecInv, TypeOK
  <2> QED
    BY <1>4, <2>1, <2>2, <2>3 DEF Fault, RecInv
<1>5. CASE Crash
  BY <1>5, BlankIsConsistent DEF Crash, RecInv
<1>6. CASE \/ \E t \in Attempt : RunEnds(t)
           \/ UNCHANGED vars
  BY <1>6 DEF RunEnds, RecInv, vars
<1> QED
  BY <1>1, <1>2, <1>3, <1>4, <1>5, <1>6, RecLoops DEF Next

LEMMA RecAlways == Spec => []RecInv
<1>1. Init => RecInv
  <2> SUFFICES ASSUME Init PROVE RecInv
    OBVIOUS
  <2>1. \A t \in Attempt : pc[t] # "renewWrite" /\ Consistent(copy[t])
    BY BlankIsConsistent, ProcTypes DEF Init
  <2>2. \A q \in Lister : DOMAIN worklist[q] = {}
    BY BlankIsConsistent DEF Init
  <2>3. \A i \in Item : Consistent(row[i])
    BY BlankIsConsistent DEF Init
  <2> QED
    BY <2>1, <2>2, <2>3 DEF RecInv
<1>2. TypeOK /\ HasItem /\ RecInv /\ [Next]_vars => RecInv'
  BY RecNext
<1> QED
  BY <1>1, <1>2, TypeCorrect, PTL DEF Spec

(* Whatever requests, lapsed leases, failing calls and crashes befall the  *)
(* group, no item is ever left where recoverExpiredItems cannot find it.   *)
THEOREM AlwaysRecoverable == Spec => []Recoverable
<1>1. RecInv => Recoverable
  BY DEF RecInv, Consistent, Recoverable
<1> QED
  BY <1>1, RecAlways, PTL

-----------------------------------------------------------------------------
(***************************************************************************)
(* OneAttemptPerItem.  The claim takes queued rows only, so it is enough   *)
(* that no row is queued under a live goroutine.  Two things requeue a row *)
(* from a copy read earlier, recovery and RetryFailedGroup: the invariant  *)
(* says that what they listed is, and stays, free of live goroutines.      *)
(***************************************************************************)

(* Retries race neither each other nor reports.                            *)
SoleRetry == \/ Retries = {}
             \/ Reports = {} /\ \A q, r \in Retries : q = r

(* Besides, no lease lapses under a live goroutine.                        *)
Calm == MaxLapses = 0 /\ SoleRetry

(* And nothing but its own goroutine ends an item that is worked on.       *)
Uncut == Calm /\ Cancels = {} /\ Reports = {}

HoldsLease(t) ==
    LET r == row[itemOf[t]] IN
    /\ r.status # "queued"
    /\ r.status \in ActiveItem => r.lease = "valid"
    /\ Reports = {} => r.status \notin {"passed", "failed"}
    /\ Cancels \cup Reports = {} => r.status \in ActiveItem

Untouched(t, q) == itemOf[t] \notin DOMAIN worklist[q]

RecoveryInv ==
    /\ pc[D] # "recover" => DOMAIN worklist[D] = {}
    /\ Retries # {} => \A i \in DOMAIN worklist[D] : row[i].status # "failed"
    /\ Cancels \cup Reports = {} =>
         \A i \in DOMAIN worklist[D] : row[i].status \in ActiveItem

RetryInv ==
    \A q \in Retries : \A i \in DOMAIN worklist[q] :
        row[i].status \in {"failed", "cancelled"} /\ i \notin DOMAIN worklist[D]

OneInv ==
    /\ OneAttemptPerItem
    /\ \A t \in Attempt : Live(t) =>
        HoldsLease(t) /\ Untouched(t, D) /\ \A q \in Retries : Untouched(t, q)
    /\ RecoveryInv
    /\ RetryInv

(* A goroutine that keeps working leaves its row active, under a lease.    *)
LEMMA OneAttempt ==
    ASSUME SoleRetry, TypeOK, HasItem, RecInv, OneInv,
           NEW t \in Attempt, processClaimedItem(t)
    PROVE  OneInv'
<1> USE ProcTypes DEF store, locals, counters, Goto
<1>1. /\ Live(t) /\ itemOf[t] \in Item
      /\ copy[t] \in Row
  BY ClaimedItems DEF TypeOK
<1>2. ASSUME NEW l, UNCHANGED <<row, itemOf, worklist>>, Goto(t, l)
      PROVE  OneInv'
  BY <1>1, <1>2 DEF OneInv, OneAttemptPerItem, HoldsLease, Untouched, RecoveryInv, RetryInv,
                    Live, TypeOK
<1>3. ASSUME NEW l, NEW r, Write(t, r, l),
             l \in LivePC => r.status \in ActiveItem /\ r.lease = "valid"
      PROVE  OneInv'
  <2>1. /\ row' = [row EXCEPT ![itemOf[t]] = r] /\ pc' = [pc EXCEPT ![t] = l]
        /\ UNCHANGED <<itemOf, worklist>>
    BY <1>3 DEF Write, UpdateGroupItem
  <2>2. \A u \in Attempt : Live(u)' => Live(u)
    BY <1>1, <2>1 DEF Live, TypeOK
  <2>3. OneAttemptPerItem'
    BY <2>1, <2>2 DEF OneInv, OneAttemptPerItem
  <2>4. ASSUME NEW u \in Attempt, Live(u)'
        PROVE  HoldsLease(u)'
    <3>1. CASE u = t
      BY <1>1, <1>3, <2>1, <2>4, <3>1 DEF HoldsLease, Live, TypeOK, ActiveItem
    <3>2. CASE u # t
      <4>1. itemOf[u] # itemOf[t] /\ HoldsLease(u)
        BY <1>1, <2>2, <2>4, <3>2 DEF OneInv, OneAttemptPerItem
      <4> QED
        BY <2>1, <4>1 DEF HoldsLease
    <3> QED
      BY <3>1, <3>2
  <2>5. ASSUME NEW u \in Attempt, Live(u)'
        PROVE  (Untouched(u, D) /\ \A q \in Retries : Untouched(u, q))'
    BY <2>1, <2>2, <2>5 DEF OneInv, Untouched
  <2>6. RecoveryInv' /\ RetryInv'
    <3>1. \A q \in {D} \cup Retries : itemOf[t] \notin DOMAIN worklist[q]
      BY <1>1 DEF OneInv, Untouched
    <3>2. \A q \in {D} \cup Retries : DOMAIN worklist[q] \subseteq Item
      BY DEF TypeOK, RowList
    <3>3. \A i \in Item : i # itemOf[t] => row'[i] = row[i]
      BY <2>1 DEF TypeOK
    <3>4. pc'[D] = pc[D]
      BY <2>1 DEF TypeOK
    <3> QED
      BY <2>1, <3>1, <3>2, <3>3, <3>4 DEF OneInv, RecoveryInv, RetryInv
  <2> QED
    BY <2>3, <2>4, <2>5, <2>6 DEF OneInv
<1>4. CASE Submit(t) \/ WaitRun(t) \/ Score(t)
  BY <1>2, <1>4 DEF Submit, WaitRun, Score
<1>5. CASE RecordRead(t) \/ FinalRead(t) \/ ScoreRead(t) \/ WaitItem(t)
  BY <1>2, <1>5 DEF RecordRead, FinalRead, ScoreRead, WaitItem, Read
<1>6. CASE FailRead(t) \/ RefuseRead(t)
  BY <1>2, <1>6 DEF FailRead, RefuseRead, FailCard
<1>7. CASE RecordWrite(t) \/ ScoreWrite(t)
  BY <1>1, <1>3, <1>7 DEF RecordWrite, ScoreWrite, RecordedRow, ScoringRow, ActiveItem, Row
<1>8. CASE RenewWrite(t)
  <2>1. copy[t].status \in ActiveItem
    BY <1>8 DEF RenewWrite, RecInv, Consistent
  <2>2. RenewedRow(copy[t]).status \in ActiveItem /\ RenewedRow(copy[t]).lease = "valid"
    BY <1>1, <2>1 DEF RenewedRow, Row
  <2> QED
    BY <1>3, <1>8, <2>2 DEF RenewWrite
<1>9. CASE FinalWrite(t) \/ FailWrite(t) \/ RefuseWrite(t)
  BY <1>3, <1>9 DEF FinalWrite, FailWrite, RefuseWrite, LivePC
<1> QED
  BY <1>4, <1>5, <1>6, <1>7, <1>8, <1>9 DEF processClaimedItem

(* The dispatcher claims what nobody works on, and takes back what nobody  *)
(* works on.                                                               *)
LEMMA OneDispatch ==
    ASSUME SoleRetry, TypeOK, HasItem, OneInv, Dispatch
    PROVE  OneInv'
<1> USE ProcTypes DEF store, locals, counters, Goto
<1>1. CASE Tick \/ Count \/ ClaimDone
  BY <1>1 DEF Tick, Count, ClaimDone, OneInv, OneAttemptPerItem, HoldsLease, Untouched,
              RecoveryInv, RetryInv, Live, TypeOK
<1>2. CASE RecoverList
  <2>1. /\ UNCHANGED <<row, itemOf>>
        /\ worklist' = [worklist EXCEPT ![D] = [i \in Expired |-> row[i]]]
        /\ pc' = [pc EXCEPT ![D] = IF Expired = {} THEN "refGet" ELSE "recover"]
    BY <1>2 DEF RecoverList
  <2>2. DOMAIN worklist'[D] = Expired /\ \A q \in Retries : worklist'[q] = worklist[q]
    BY <2>1 DEF TypeOK
  <2>3. \A u \in Attempt : Live(u)' <=> Live(u)
    BY <2>1 DEF Live, TypeOK
  <2>4. \A i \in Expired : row[i].status \in ActiveItem /\ row[i].lease = "expired"
    BY DEF Expired
  <2>5. \A u \in Attempt : Live(u) => itemOf[u] \notin Expired
    BY <2>4 DEF OneInv, HoldsLease
  <2>6. RecoveryInv' /\ RetryInv'
    BY <2>1, <2>2, <2>4 DEF OneInv, RecoveryInv, RetryInv, ActiveItem, TypeOK
  <2> QED
    BY <2>1, <2>2, <2>3, <2>5, <2>6 DEF OneInv, OneAttemptPerItem, HoldsLease, Untouched
<1>3. CASE RecoverItem
  <2>1. PICK i \in Item :
          /\ First(DOMAIN worklist[D], i)
          /\ row' = [row EXCEPT ![i] = RequeuedRow(worklist[D][i], "none")]
          /\ worklist' = [worklist EXCEPT ![D] = Without(@, i)]
          /\ pc' = [pc EXCEPT ![D] = IF Last(D, i) THEN "refGet" ELSE "recover"]
    BY <1>3 DEF RecoverItem, UpdateGroupItem
  <2>2. i \in DOMAIN worklist[D] /\ itemOf' = itemOf
    BY <1>3, <2>1 DEF RecoverItem, First
  <2>3. /\ DOMAIN worklist'[D] = DOMAIN worklist[D] \ {i}
        /\ \A q \in Retries : worklist'[q] = worklist[q]
    BY <2>1 DEF Without, TypeOK
  <2>4. \A u \in Attempt : Live(u)' <=> Live(u)
    BY <2>1 DEF Live, TypeOK
  <2>5. \A u \in Attempt : Live(u) => itemOf[u] # i
    BY <2>2 DEF OneInv, Untouched
  <2>6. \A j \in Item : j # i => row'[j] = row[j]
    BY <2>1 DEF TypeOK
  <2>7. RecoveryInv'
    <3>1. Last(D, i) => DOMAIN worklist'[D] = {}
      BY <2>3 DEF Last
    <3>2. DOMAIN worklist[D] \subseteq Item
      BY DEF TypeOK, RowList
    <3> QED
      BY <2>1, <2>3, <2>6, <3>1, <3>2 DEF OneInv, RecoveryInv, TypeOK
  <2>8. RetryInv'
    <3>1. \A q \in Retries : DOMAIN worklist[q] \subseteq Item
      BY DEF TypeOK, RowList
    <3> QED
      BY <2>2, <2>3, <2>6, <3>1 DEF OneInv, RetryInv
  <2>9. \A u \in Attempt : Live(u) => row'[itemOf[u]] = row[itemOf[u]]
    BY <2>5, <2>6 DEF HasItem
  <2> QED
    BY <2>2, <2>3, <2>4, <2>7, <2>8, <2>9
       DEF OneInv, OneAttemptPerItem, HoldsLease, Untouched
<1>4. CASE Claim
  <2>1. PICK i \in Item, t \in Attempt :
          /\ First(Claimable, i)
          /\ First(Unused, t)
          /\ row' = [row EXCEPT ![i] = ClaimedRow(row[i])]
          /\ itemOf' = [itemOf EXCEPT ![t] = i]
          /\ pc' = [pc EXCEPT ![t] = "submit"]
    BY <1>4 DEF Claim, UpdateGroupItem
  <2>2. worklist' = worklist /\ pc[D] = "claim"
    BY <1>4 DEF Claim
  <2>3. row[i].status = "queued" /\ ~Live(t)
    BY <2>1 DEF First, Claimable, Unused, Live, LivePC
  <2>4. \A u \in Attempt : Live(u)' => u = t \/ Live(u)
    BY <2>1 DEF Live, TypeOK
  <2>5. \A u \in Attempt : Live(u) => itemOf[u] # i /\ u # t
    BY <2>3 DEF OneInv, HoldsLease
  <2>6. DOMAIN worklist[D] = {}
    BY <2>2 DEF OneInv, RecoveryInv
  <2>7. \A q \in Retries : i \notin DOMAIN worklist[q]
    BY <2>3 DEF OneInv, RetryInv
  <2>8. OneAttemptPerItem'
    BY <2>1, <2>4, <2>5 DEF OneInv, OneAttemptPerItem, TypeOK
  <2>9. ASSUME NEW u \in Attempt, Live(u)'
        PROVE  (HoldsLease(u) /\ Untouched(u, D) /\ \A q \in Retries : Untouched(u, q))'
    <3>1. CASE u = t
      <4>1. itemOf'[t] = i /\ row'[i] = ClaimedRow(row[i]) /\ row[i] \in Row
        BY <2>1 DEF TypeOK
      <4>2. row'[i].status = "running" /\ row'[i].lease = "valid"
        BY <4>1 DEF ClaimedRow, Row
      <4> QED
        BY <2>2, <2>6, <2>7, <3>1, <4>1, <4>2 DEF HoldsLease, Untouched, ActiveItem
    <3>2. CASE u # t
      <4>1. itemOf'[u] = itemOf[u] /\ row'[itemOf[u]] = row[itemOf[u]]
        BY <2>1, <2>4, <2>5, <2>9, <3>2 DEF TypeOK, HasItem
      <4> QED
        BY <2>2, <2>4, <2>9, <3>2, <4>1 DEF OneInv, HoldsLease, Untouched
    <3> QED
      BY <3>1, <3>2
  <2>10. RecoveryInv'
    BY <2>2, <2>6 DEF RecoveryInv
  <2>11. RetryInv'
    <3>1. \A q \in Retries : DOMAIN worklist[q] \subseteq Item
      BY DEF TypeOK, RowList
    <3> QED
      BY <2>1, <2>2, <2>7, <3>1, ZenonT(60) DEF OneInv, RetryInv, TypeOK
  <2> QED
    BY <2>8, <2>9, <2>10, <2>11 DEF OneInv
<1> QED
  BY <1>1, <1>2, <1>3, <1>4 DEF Dispatch

(* A request that rewrites rows from its listing.                          *)
LEMMA OneServe ==
    ASSUME SoleRetry, TypeOK, HasItem, OneInv, Serve
    PROVE  OneInv'
<1> USE ProcTypes DEF store, locals, counters, Goto
<1>1. \A q \in Lister : DOMAIN worklist[q] \subseteq Item
  BY DEF TypeOK, RowList
<1>2. ASSUME NEW q \in Request, NEW l, Goto(q, l), UNCHANGED <<row, itemOf, worklist>>
      PROVE  OneInv'
  BY <1>2, ZenonT(60) DEF OneInv, OneAttemptPerItem, HoldsLease, Untouched, RecoveryInv, RetryInv,
              Live, TypeOK
(* A worklist that is no retry's, or that lists failed rows only.          *)
<1>3. ASSUME NEW q \in Request, NEW S, NEW l, List(q, S, l),
             q \in Retries => \A i \in S : i \in Item /\ row[i].status = "failed"
      PROVE  OneInv'
  <2>1. /\ UNCHANGED <<row, itemOf>>
        /\ worklist' = [worklist EXCEPT ![q] = [i \in S |-> row[i]]]
        /\ pc' = [pc EXCEPT ![q] = l]
    BY <1>3 DEF List
  <2>2. /\ pc'[D] = pc[D] /\ worklist'[D] = worklist[D]
        /\ DOMAIN worklist'[q] = S
        /\ \A p \in Lister : p # q => worklist'[p] = worklist[p]
        /\ \A u \in Attempt : Live(u)' <=> Live(u)
    BY <2>1 DEF TypeOK, Live
  <2>3. q \in Retries => \A u \in Attempt : Live(u) => itemOf[u] \notin S
    BY <1>3 DEF OneInv, HoldsLease, SoleRetry
  <2>4. RetryInv'
    BY <1>3, <2>1, <2>2 DEF OneInv, RecoveryInv, RetryInv
  <2>5. RecoveryInv'
    BY <2>1, <2>2 DEF OneInv, RecoveryInv
  <2>6. ASSUME NEW u \in Attempt, Live(u)'
        PROVE  (HoldsLease(u) /\ Untouched(u, D) /\ \A p \in Retries : Untouched(u, p))'
    BY <2>1, <2>2, <2>3, <2>6 DEF OneInv, HoldsLease, Untouched
  <2> QED
    BY <2>1, <2>2, <2>4, <2>5, <2>6 DEF OneInv, OneAttemptPerItem
(* The first row of a worklist is written, or its write fails.             *)
<1>4. ASSUME NEW q \in Request, NEW l, NEW i \in DOMAIN worklist[q], NEW r,
             \/ row' = [row EXCEPT ![i] = r]
             \/ row' = row,
             worklist' = [worklist EXCEPT ![q] = Without(@, i)],
             pc' = [pc EXCEPT ![q] = l], itemOf' = itemOf,
             \/ r.status = "cancelled" /\ Cancels # {}
             \/ r.status \in {"passed", "failed"} /\ Reports # {}
             \/ q \in Retries
      PROVE  OneInv'
  <2>1. /\ pc'[D] = pc[D] /\ worklist'[D] = worklist[D]
        /\ DOMAIN worklist'[q] = DOMAIN worklist[q] \ {i}
        /\ \A p \in Lister : p # q => worklist'[p] = worklist[p]
        /\ \A u \in Attempt : Live(u)' <=> Live(u)
    BY <1>4 DEF TypeOK, Live, Without
  <2>2. i \in Item /\ \A j \in Item : j # i => row'[j] = row[j]
    BY <1>1, <1>4 DEF TypeOK
  <2>3. row'[i] = r \/ row'[i] = row[i]
    BY <1>4, <2>2 DEF TypeOK
  <2>4. q \in Retries => /\ i \notin DOMAIN worklist[D]
                         /\ \A u \in Attempt : Live(u) => itemOf[u] # i
                         /\ Retries = {q}
    BY <1>4 DEF OneInv, RetryInv, Untouched, SoleRetry
  <2>5. RetryInv'
    <3>1. ASSUME NEW p \in Retries, NEW j \in DOMAIN worklist'[p]
          PROVE  row'[j].status \in {"failed", "cancelled"} /\ j \notin DOMAIN worklist'[D]
      <4>1. /\ j \in DOMAIN worklist[p] /\ j \in Item
            /\ row[j].status \in {"failed", "cancelled"} /\ j \notin DOMAIN worklist[D]
        BY <1>1, <2>1, <3>1 DEF OneInv, RetryInv
      <4>2. CASE q \in Retries
        BY <2>1, <2>2, <2>4, <3>1, <4>1, <4>2
      <4>3. CASE q \notin Retries
        <5>1. Reports = {}
          BY <3>1 DEF SoleRetry
        <5> QED
          BY <1>4, <2>1, <2>2, <2>3, <4>1, <4>3, <5>1
      <4> QED
        BY <4>2, <4>3
    <3> QED
      BY <3>1 DEF RetryInv
  <2>6. RecoveryInv'
    <3>1. ASSUME Retries # {}, NEW j \in DOMAIN worklist[D]
          PROVE  row'[j].status # "failed"
      <4>1. row[j].status # "failed" /\ j \in Item
        BY <1>1, <3>1 DEF OneInv, RecoveryInv
      <4>2. Reports = {}
        BY <3>1 DEF SoleRetry
      <4> QED
        BY <1>4, <2>2, <2>3, <2>4, <3>1, <4>1, <4>2
    <3>2. ASSUME Cancels \cup Reports = {}, NEW j \in DOMAIN worklist[D]
          PROVE  row'[j].status \in ActiveItem
      <4>1. j # i /\ j \in Item /\ row[j].status \in ActiveItem
        BY <1>1, <1>4, <2>4, <3>2 DEF OneInv, RecoveryInv
      <4> QED
        BY <2>2, <4>1
    <3> QED
      BY <2>1, <3>1, <3>2 DEF OneInv, RecoveryInv
  <2>7. ASSUME NEW u \in Attempt, Live(u)'
        PROVE  (HoldsLease(u) /\ Untouched(u, D) /\ \A p \in Retries : Untouched(u, p))'
    <3>1. Live(u) /\ itemOf'[u] = itemOf[u] /\ itemOf[u] \in Item /\ HoldsLease(u)
      BY <1>4, <2>1, <2>7 DEF OneInv, HasItem
    <3>2. HoldsLease(u)'
      <4>1. CASE itemOf[u] = i
        BY <1>4, <2>3, <2>4, <3>1, <4>1 DEF HoldsLease, ActiveItem
      <4>2. CASE itemOf[u] # i
        BY <2>2, <3>1, <4>2 DEF HoldsLease
      <4> QED
        BY <4>1, <4>2
    <3> QED
      BY <2>1, <3>1, <3>2 DEF OneInv, Untouched
  <2> QED
    BY <1>4, <2>1, <2>5, <2>6, <2>7 DEF OneInv, OneAttemptPerItem
<1>5. ASSUME NEW q \in Cancels, CancelList(q) \/ CancelRun(q) \/ CancelGroup(q)
      PROVE  OneInv'
  <2>1. q \in Request /\ q \notin Retries
    BY ProcAssumption
  <2> QED
    BY <1>2, <1>3, <1>5, <2>1 DEF CancelList, CancelRun, CancelGroup
<1>6. ASSUME NEW q \in Cancels, CancelRow(q)
      PROVE  OneInv'
  <2>1. PICK i \in Item :
          /\ First(DOMAIN worklist[q], i)
          /\ UpdateGroupItem(i, EndedRow(worklist[q][i], "cancelled")) \/ UNCHANGED row
          /\ worklist' = [worklist EXCEPT ![q] = Without(@, i)]
          /\ Goto(q, IF Last(q, i) THEN "cancelGroup" ELSE "cancelRun")
    BY <1>6 DEF CancelRow
  <2>2. EndedRow(worklist[q][i], "cancelled").status = "cancelled"
    BY <1>6, <2>1 DEF EndedRow, TypeOK, RowList, Row, First
  <2> QED
    BY <1>4, <1>6, <2>1, <2>2 DEF CancelRow, UpdateGroupItem, First
<1>7. ASSUME NEW q \in Retries, RetryList(q) \/ RetryGroup(q)
      PROVE  OneInv'
  BY <1>2, <1>3, <1>7 DEF RetryList, RetryGroup, Retriable
<1>8. ASSUME NEW q \in Retries, RetryRow(q)
      PROVE  OneInv'
  BY <1>4, <1>8 DEF RetryRow, UpdateGroupItem, First
<1>9. ASSUME NEW q \in Reports, ReportList(q) \/ ReportCard(q)
      PROVE  OneInv'
  <2>1. q \in Request /\ q \notin Retries
    BY ProcAssumption
  <2> QED
    BY <1>2, <1>3, <1>9, <2>1 DEF ReportList, ReportCard
<1>10. ASSUME NEW q \in Reports, ReportRow(q)
       PROVE  OneInv'
  <2>1. PICK i \in Item :
          /\ First(DOMAIN worklist[q], i)
          /\ \/ UpdateGroupItem(i, EndedRow(worklist[q][i], verdictToItemStatus(outcome[q])))
             \/ UNCHANGED row
          /\ worklist' = [worklist EXCEPT ![q] = Without(@, i)]
          /\ Goto(q, IF Last(q, i) THEN "refGet" ELSE "reportCard")
    BY <1>10 DEF ReportRow
  <2>2. EndedRow(worklist[q][i], verdictToItemStatus(outcome[q])).status \in {"passed", "failed"}
    BY <1>10, <2>1 DEF EndedRow, verdictToItemStatus, TypeOK, RowList, Row, First
  <2> QED
    BY <1>4, <1>10, <2>1, <2>2 DEF ReportRow, UpdateGroupItem, First
<1> QED
  BY <1>5, <1>6, <1>7, <1>8, <1>9, <1>10 DEF Serve

(* A lease that runs out, but not under a live goroutine, a failing call   *)
(* or a crash leaves no live goroutine without a lease.                    *)
LEMMA OneWorld ==
    ASSUME SoleRetry, TypeOK, HasItem, OneInv, lapses' = lapses,
           \/ \E p \in Proc : refreshGroupSummary(p) \/ Fault(p)
           \/ \E i \in Item : LeaseExpires(i)
           \/ Crash
    PROVE  OneInv'
<1> USE ProcTypes DEF store, locals, counters, Goto
<1>1. ASSUME NEW p \in Proc, refreshGroupSummary(p)
      PROVE  OneInv'
  <2>1. /\ UNCHANGED <<row, itemOf, worklist>>
        /\ pc[p] \notin LivePC \cup {"recover"}
        /\ \E l \in {"refList", "refWrite", "done", "count", "idle"} :
             pc' = [pc EXCEPT ![p] = l]
    BY <1>1 DEF refreshGroupSummary, RefreshGet, RefreshList, RefreshWrite, AfterRefresh, LivePC
  <2>2. /\ \A u \in Attempt : Live(u)' => Live(u)
        /\ pc'[D] # "recover" => pc[D] # "recover"
    BY <2>1 DEF Live, LivePC, TypeOK
  <2> QED
    BY <2>1, <2>2 DEF OneInv, OneAttemptPerItem, HoldsLease, Untouched, RecoveryInv, RetryInv
<1>2. ASSUME NEW i \in Item, LeaseExpires(i)
      PROVE  OneInv'
  <2>1. row' = [row EXCEPT ![i] = [row[i] EXCEPT !.lease = "expired"]]
    BY <1>2 DEF LeaseExpires, UpdateGroupItem
  <2>2. UNCHANGED <<pc, itemOf, worklist>>
    BY <1>2 DEF LeaseExpires
  <2>3. LiveOn(i) = {}
    BY <1>2 DEF LeaseExpires, TypeOK
  <2>4. \A u \in Attempt : Live(u) => itemOf[u] # i
    BY <2>3 DEF LiveOn
  <2>5. \A j \in Item : row'[j].status = row[j].status /\ (j # i => row'[j] = row[j])
    BY <2>1 DEF TypeOK, Row
  <2>6. \A q \in Lister : DOMAIN worklist[q] \subseteq Item
    BY DEF TypeOK, RowList
  <2>7. \A u \in Attempt : Live(u) => HoldsLease(u)'
    BY <2>2, <2>4, <2>5 DEF OneInv, HoldsLease, HasItem
  <2>8. RecoveryInv' /\ RetryInv'
    BY <2>2, <2>5, <2>6 DEF OneInv, RecoveryInv, RetryInv
  <2> QED
    BY <2>2, <2>7, <2>8 DEF OneInv, OneAttemptPerItem, Untouched, Live
<1>3. ASSUME NEW p \in Proc, Fault(p)
      PROVE  OneInv'
  <2>1. /\ pc' = [pc EXCEPT ![p] = FaultLeadsTo(p)]
        /\ worklist' = [q \in Lister |-> IF q = p THEN NoRows ELSE worklist[q]]
        /\ UNCHANGED <<row, itemOf>>
        /\ pc[p] # "unused" /\ pc[p] # "done"
    BY <1>3 DEF Fault
  <2>2. \A u \in Attempt : Live(u)' => Live(u)
    BY <1>3, <2>1 DEF Live, FaultLeadsTo, LivePC, TypeOK, Fault
  <2>3. \A q \in Lister : \/ worklist'[q] = worklist[q]
                          \/ DOMAIN worklist'[q] = {}
    BY <2>1 DEF NoRows
  <2>4. pc'[D] # "recover" => DOMAIN worklist'[D] = {}
    BY <2>1, <2>3 DEF OneInv, RecoveryInv, TypeOK, NoRows
  <2> QED
    BY <2>1, <2>2, <2>3, <2>4
       DEF OneInv, OneAttemptPerItem, HoldsLease, Untouched, RecoveryInv, RetryInv
<1>4. CASE Crash
  <2>1. \A u \in Attempt : ~Live(u)'
    BY <1>4 DEF Crash, Live, LivePC
  <2>2. \A q \in Lister : DOMAIN worklist'[q] = {}
    BY <1>4 DEF Crash, NoRows
  <2> QED
    BY <2>1, <2>2 DEF OneInv, OneAttemptPerItem, RecoveryInv, RetryInv
<1> QED
  BY <1>1, <1>2, <1>3, <1>4

LEMMA OneNext ==
    ASSUME SoleRetry, TypeOK, HasItem, RecInv, OneInv, lapses' = lapses, [Next]_vars
    PROVE  OneInv'
<1>1. ASSUME NEW t \in Attempt, RunEnds(t)
      PROVE  OneInv'
  BY <1>1 DEF RunEnds, store, locals, counters, OneInv, OneAttemptPerItem, HoldsLease,
              Untouched, RecoveryInv, RetryInv, Live
<1>2. CASE UNCHANGED vars
  BY <1>2 DEF vars, OneInv, OneAttemptPerItem, HoldsLease, Untouched, RecoveryInv,
              RetryInv, Live
<1> QED
  BY <1>1, <1>2, OneAttempt, OneDispatch, OneServe, OneWorld DEF Next

(* Only LeaseExpires counts a lapse, and no more than MaxLapses of them.   *)
LEMMA LapsesCount ==
    ASSUME TypeOK, [Next]_vars
    PROVE  lapses' = lapses \/ (lapses < MaxLapses /\ lapses' = lapses + 1)
<1> USE DEF counters, locals
<1>1. CASE Dispatch
  BY <1>1 DEF Dispatch, Tick, RecoverList, RecoverItem, Count, Claim, ClaimDone
<1>2. ASSUME NEW t \in Attempt, processClaimedItem(t)
      PROVE  lapses' = lapses
  <2>1. ASSUME NEW l, Read(t, l)
        PROVE  lapses' = lapses
    BY <2>1 DEF Read
  <2>2. ASSUME NEW l, NEW r, Write(t, r, l)
        PROVE  lapses' = lapses
    BY <2>2 DEF Write
  <2>3. CASE Submit(t) \/ WaitRun(t) \/ Score(t) \/ FailRead(t) \/ RefuseRead(t)
    BY <2>3 DEF Submit, WaitRun, Score, FailRead, RefuseRead, FailCard
  <2>4. CASE RecordRead(t) \/ FinalRead(t) \/ ScoreRead(t) \/ WaitItem(t)
    BY <2>4, <2>1 DEF RecordRead, FinalRead, ScoreRead, WaitItem
  <2>5. CASE \/ RecordWrite(t) \/ RenewWrite(t) \/ ScoreWrite(t)
             \/ FinalWrite(t) \/ FailWrite(t) \/ RefuseWrite(t)
    BY <2>5, <2>2 DEF RecordWrite, RenewWrite, ScoreWrite, FinalWrite, FailWrite, RefuseWrite
  <2> QED
    BY <1>2, <2>3, <2>4, <2>5 DEF processClaimedItem
<1>3. CASE Serve
  BY <1>3 DEF Serve, List, CancelList, CancelRun, CancelRow, CancelGroup, RetryList,
              RetryRow, RetryGroup, ReportList, ReportCard, ReportRow
<1>4. CASE \/ \E t \in Attempt : RunEnds(t)
           \/ \E p \in Proc : refreshGroupSummary(p) \/ Fault(p)
           \/ Crash
  BY <1>4 DEF RunEnds, refreshGroupSummary, RefreshGet, RefreshList, RefreshWrite,
              AfterRefresh, Fault, Crash
<1>5. ASSUME NEW i \in Item, LeaseExpires(i)
      PROVE  lapses' = lapses \/ (lapses < MaxLapses /\ lapses' = lapses + 1)
  BY <1>5 DEF LeaseExpires
<1>6. CASE UNCHANGED vars
  BY <1>6 DEF vars
<1> QED
  BY <1>1, <1>2, <1>3, <1>4, <1>5, <1>6 DEF Next

(* OneInv is kept until the first lapse.                                   *)
LEMMA OneUntilLapse == ASSUME SoleRetry PROVE Spec => [](lapses = 0 => OneInv)
<1>1. Init => OneInv
  <2> SUFFICES ASSUME Init PROVE OneInv
    OBVIOUS
  <2>1. \A t \in Attempt : pc[t] = "unused"
    BY ProcTypes DEF Init
  <2>2. \A q \in Lister : DOMAIN worklist[q] = {}
    BY BlankIsConsistent DEF Init
  <2> QED
    BY <2>1, <2>2, ProcTypes
       DEF OneInv, OneAttemptPerItem, Live, LivePC, RecoveryInv, RetryInv
<1>2. TypeOK /\ HasItem /\ RecInv /\ (lapses = 0 => OneInv) /\ [Next]_vars
        => (lapses = 0 => OneInv)'
  <2> SUFFICES ASSUME TypeOK, HasItem, RecInv, lapses = 0 => OneInv, [Next]_vars, lapses' = 0
               PROVE  OneInv'
    OBVIOUS
  <2>1. lapses' = lapses
    BY LapsesCount DEF TypeOK
  <2> QED
    BY <2>1, OneNext
<1> QED
  BY <1>1, <1>2, TypeCorrect, RecAlways, PTL DEF Spec

(* Where no lease lapses at all, always.                                   *)
LEMMA OneAlways == ASSUME Calm PROVE Spec => []OneInv
<1>1. Init => lapses = 0
  BY DEF Init
<1>2. TypeOK /\ lapses = 0 /\ [Next]_vars => (lapses = 0)'
  BY LapsesCount DEF Calm
<1>3. SoleRetry
  BY DEF Calm
<1> QED
  BY <1>1, <1>2, <1>3, OneUntilLapse, TypeCorrect, PTL DEF Spec

(* As long as leases outlive the goroutines that hold them and retries     *)
(* race neither each other nor reports, no two goroutines of               *)
(* processClaimedItem work on one item, whatever crashes, failing calls    *)
(* and cancellations happen.                                               *)
THEOREM LeaseExcludes == ASSUME Calm PROVE Spec => []OneAttemptPerItem
<1>1. OneInv => OneAttemptPerItem
  BY DEF OneInv
<1> QED
  BY <1>1, OneAlways, PTL

(* As long as retries race neither each other nor reports, and until a     *)
(* lease lapses under its goroutine, no late write, by a recovery, a retry *)
(* or a report, puts an item back into the queue while a goroutine works   *)
(* on it.                                                                  *)
THEOREM QueueIsFree == ASSUME SoleRetry PROVE Spec => []QueuedItemsAreFree
<1>1. (lapses = 0 => OneInv) => QueuedItemsAreFree
  BY DEF OneInv, HoldsLease, QueuedItemsAreFree
<1> QED
  BY <1>1, OneUntilLapse, PTL

-----------------------------------------------------------------------------
(***************************************************************************)
(* ConcurrencyBound.  Live goroutines hold different active rows, and a    *)
(* row becomes active only by a claim, which takes a slot for it.          *)
(***************************************************************************)

SlotsInv == Cardinality(Active) + slots <= MaxConcurrency

LEMMA ActiveIsFinite ==
    /\ Active \subseteq Item /\ IsFiniteSet(Active) /\ Cardinality(Active) \in Nat
    /\ Active' \subseteq Item /\ IsFiniteSet(Active') /\ Cardinality(Active') \in Nat
<1>1. Active \subseteq Item /\ Active' \subseteq Item
  BY DEF Active
<1> QED
  BY <1>1, FiniteItems, FS_Subset, FS_CardinalityType

(* What a step may do to the rows: nothing, or to one row i only, which    *)
(* then was active, or stays as it was but for the lease, or is claimed,   *)
(* or is retried.                                                          *)
RowStep(i) ==
    /\ \A j \in Item : j # i => row'[j] = row[j]
    /\ UNCHANGED <<group, view>>
    /\ \A p \in Proc : pc'[p] \in {"refList", "refWrite"} => pc'[p] = pc[p]
    /\ \/ row'[i].status = row[i].status /\ slots' = slots
       \/ row[i].status \in ActiveItem /\ slots' = slots
       \/ Retries # {} /\ row'[i].status = "queued" /\ slots' = slots
       \/ /\ row[i].status = "queued" /\ row'[i].status = "running"
          /\ slots > 0 /\ slots' = slots - 1

LEMMA RowSteps ==
    ASSUME Uncut, TypeOK, HasItem, OneInv, [Next]_vars
    PROVE  \/ /\ row' = row
              /\ slots' \in {slots, 0, FreeSlots(Cardinality(Active))}
           \/ \E i \in Item : RowStep(i)
<1> USE ProcTypes DEF store, locals, counters, Goto
<1>1. CASE Claim
  <2>1. PICK i \in Item, t \in Attempt :
          /\ First(Claimable, i)
          /\ row' = [row EXCEPT ![i] = ClaimedRow(row[i])]
          /\ pc' = [pc EXCEPT ![t] = "submit"]
    BY <1>1 DEF Claim, UpdateGroupItem
  <2>2. row[i] \in Row /\ row[i].status = "queued"
    BY <2>1 DEF First, Claimable, TypeOK
  <2>3. ClaimedRow(row[i]).status = "running"
    BY <2>2 DEF ClaimedRow, Row
  <2>4. RowStep(i)
    BY <1>1, <2>1, <2>2, <2>3 DEF Claim, RowStep, TypeOK
  <2> QED
    BY <2>4
<1>2. CASE RecoverItem
  <2>1. PICK i \in Item :
          /\ First(DOMAIN worklist[D], i)
          /\ row' = [row EXCEPT ![i] = RequeuedRow(worklist[D][i], "none")]
          /\ \E l \in {"refGet", "recover"} : pc' = [pc EXCEPT ![D] = l]
    BY <1>2 DEF RecoverItem, UpdateGroupItem
  <2>2. row[i].status \in ActiveItem
    BY <2>1 DEF OneInv, RecoveryInv, Uncut, First
  <2>3. RowStep(i)
    BY <1>2, <2>1, <2>2 DEF RecoverItem, RowStep, TypeOK
  <2> QED
    BY <2>3
<1>3. ASSUME NEW t \in Attempt, processClaimedItem(t)
      PROVE  (row' = row /\ slots' = slots) \/ \E i \in Item : RowStep(i)
  <2>1. itemOf[t] \in Item /\ row[itemOf[t]].status \in ActiveItem
    BY <1>3, ClaimedItems DEF OneInv, HoldsLease, Uncut
  <2>2. ASSUME NEW l, l \notin {"refList", "refWrite"}, NEW r, Write(t, r, l)
        PROVE  RowStep(itemOf[t])
    BY <2>1, <2>2 DEF Write, UpdateGroupItem, RowStep, TypeOK
  <2>3. CASE Submit(t) \/ WaitRun(t) \/ Score(t)
    BY <2>3 DEF Submit, WaitRun, Score
  <2>4. CASE RecordRead(t) \/ FinalRead(t) \/ ScoreRead(t) \/ WaitItem(t)
    BY <2>4 DEF RecordRead, FinalRead, ScoreRead, WaitItem, Read
  <2>5. CASE FailRead(t) \/ RefuseRead(t)
    BY <2>5 DEF FailRead, RefuseRead, FailCard
  <2>6. CASE \/ RecordWrite(t) \/ RenewWrite(t) \/ ScoreWrite(t)
             \/ FinalWrite(t) \/ FailWrite(t) \/ RefuseWrite(t)
    <3>1. RowStep(itemOf[t])
      BY <2>2, <2>6 DEF RecordWrite, RenewWrite, ScoreWrite, FinalWrite, FailWrite, RefuseWrite
    <3> QED
      BY <2>1, <3>1
  <2> QED
    BY <1>3, <2>3, <2>4, <2>5, <2>6 DEF processClaimedItem
<1>4. ASSUME NEW i \in Item, LeaseExpires(i)
      PROVE  RowStep(i)
  BY <1>4 DEF LeaseExpires, UpdateGroupItem, RowStep, TypeOK, Row
<1>5. CASE Tick \/ RecoverList \/ Count \/ ClaimDone
  BY <1>5 DEF Tick, RecoverList, Count, ClaimDone
<1>6. ASSUME NEW p \in Proc, refreshGroupSummary(p) \/ Fault(p)
      PROVE  row' = row /\ slots' \in {slots, 0}
  BY <1>6 DEF refreshGroupSummary, RefreshGet, RefreshList, RefreshWrite, Fault
<1>7. CASE Crash \/ UNCHANGED vars \/ \E t \in Attempt : RunEnds(t)
  BY <1>7 DEF Crash, vars, RunEnds
<1>8. ASSUME NEW q \in Retries, RetryList(q) \/ RetryGroup(q)
      PROVE  row' = row /\ slots' = slots
  BY <1>8 DEF RetryList, RetryGroup, List
<1>9. ASSUME NEW q \in Retries, RetryRow(q)
      PROVE  \E i \in Item : RowStep(i)
  <2>1. PICK i \in Item :
          /\ First(DOMAIN worklist[q], i)
          /\ row' = [row EXCEPT ![i] = RequeuedRow(worklist[q][i], "valid")]
          /\ \E l \in {"retryGroup", "retryRow"} : pc' = [pc EXCEPT ![q] = l]
    BY <1>9 DEF RetryRow, UpdateGroupItem
  <2>2. worklist[q][i] \in Row
    BY <2>1 DEF TypeOK, RowList, First
  <2>3. RequeuedRow(worklist[q][i], "valid").status = "queued"
    BY <2>2 DEF RequeuedRow, Row
  <2>4. RowStep(i)
    BY <1>9, <2>1, <2>3 DEF RetryRow, RowStep, TypeOK
  <2> QED
    BY <2>4
<1>10. Serve => \E q \in Retries : RetryList(q) \/ RetryRow(q) \/ RetryGroup(q)
  BY DEF Serve, Uncut
<1> QED
  BY <1>1, <1>2, <1>3, <1>4, <1>5, <1>6, <1>7, <1>8, <1>9, <1>10 DEF Next, Dispatch

LEMMA SlotsNext ==
    ASSUME Uncut, TypeOK, HasItem, OneInv, SlotsInv, [Next]_vars
    PROVE  SlotsInv'
<1>1. /\ slots \in Nat /\ MaxConcurrency \in Nat
      /\ Cardinality(Active) + slots <= MaxConcurrency
  BY ConfigAssumption DEF TypeOK, SlotsInv
<1>2. CASE row' = row /\ slots' \in {slots, 0, FreeSlots(Cardinality(Active))}
  <2>1. Active' = Active
    BY <1>2 DEF Active
  <2> QED
    BY <1>1, <1>2, <2>1, ActiveIsFinite DEF FreeSlots, SlotsInv
<1>3. ASSUME NEW i \in Item, RowStep(i)
      PROVE  SlotsInv'
  <2>1. Active' \subseteq Active \cup {i}
    BY <1>3 DEF RowStep, Active
  <2>2. CASE slots' = slots /\ Active' \subseteq Active
    BY <1>1, <2>2, ActiveIsFinite, FS_Subset DEF SlotsInv
  <2>3. CASE slots > 0 /\ slots' = slots - 1
    <3>1. /\ IsFiniteSet(Active \cup {i}) /\ Cardinality(Active \cup {i}) \in Nat
          /\ Cardinality(Active \cup {i}) <= Cardinality(Active) + 1
      <4>1. IsFiniteSet(Active) /\ Cardinality(Active) \in Nat
        BY ActiveIsFinite
      <4>2. /\ IsFiniteSet(Active \cup {i})
            /\ Cardinality(Active \cup {i}) =
                 IF i \in Active THEN Cardinality(Active) ELSE Cardinality(Active) + 1
        BY <4>1, FS_AddElement
      <4> QED
        BY <4>1, <4>2
    <3>2. Cardinality(Active') <= Cardinality(Active \cup {i})
      BY <2>1, <3>1, FS_Subset
    <3> QED
      BY <1>1, <2>3, <3>1, <3>2, ActiveIsFinite DEF SlotsInv
  <2>4. \/ row'[i].status = row[i].status \/ row[i].status \in ActiveItem
        \/ row'[i].status = "queued"
        => Active' \subseteq Active
    BY <2>1 DEF Active, ActiveItem
  <2> QED
    BY <1>3, <2>2, <2>3, <2>4 DEF RowStep
<1> QED
  BY <1>2, <1>3, RowSteps

LEMMA SlotsAlways == ASSUME Uncut PROVE Spec => []SlotsInv
<1>1. Init => SlotsInv
  <2> SUFFICES ASSUME Init PROVE SlotsInv
    OBVIOUS
  <2>1. Active = {}
    BY DEF Init, Active, ActiveItem, BlankRow
  <2> QED
    BY <2>1, FS_EmptySet, ConfigAssumption DEF Init, SlotsInv
<1>2. TypeOK /\ HasItem /\ OneInv /\ SlotsInv /\ [Next]_vars => SlotsInv'
  BY SlotsNext
<1>3. Calm
  BY DEF Uncut
<1> QED
  BY <1>1, <1>2, <1>3, TypeCorrect, OneAlways, PTL DEF Spec

(* Unless somebody else ends an item under its goroutine, dispatchGroup    *)
(* keeps to MaxConcurrency goroutines, through crashes, recoveries,        *)
(* failing calls and a retry.                                              *)
THEOREM KeepsToItsSlots == ASSUME Uncut PROVE Spec => []ConcurrencyBound
<1>1. ASSUME TypeOK, HasItem, OneInv, SlotsInv
      PROVE  ConcurrencyBound
  <2> DEFINE Busy == {t \in Attempt : Live(t)}
             item == [t \in Busy |-> itemOf[t]]
  <2>1. \A t \in Busy : item[t] \in Active
    BY <1>1 DEF OneInv, HoldsLease, HasItem, Active, Uncut
  <2>2. \A t, u \in Busy : item[t] = item[u] => t = u
    BY <1>1 DEF OneInv, OneAttemptPerItem
  <2>3. item \in Injection(Busy, Active)
    <3>1. item \in [Busy -> Active]
      BY <2>1
    <3> QED
      BY <2>2, <3>1, Fun_IsInj
  <2>4. IsFiniteSet(Busy) /\ Cardinality(Busy) <= Cardinality(Active)
    BY <2>3, ActiveIsFinite, FS_Injection
  <2>5. Cardinality(Busy) \in Nat
    BY <2>4, FS_CardinalityType
  <2>6. Cardinality(Active) \in Nat /\ slots \in Nat /\ MaxConcurrency \in Nat
    BY <1>1, ActiveIsFinite, ConfigAssumption DEF TypeOK
  <2>7. Cardinality(Busy) <= MaxConcurrency
    BY <1>1, <2>4, <2>5, <2>6 DEF SlotsInv
  <2> QED
    BY <2>7 DEF ConcurrencyBound
<1>2. Calm
  BY DEF Uncut
<1> QED
  BY <1>1, <1>2, TypeCorrect, OneAlways, SlotsAlways, PTL

-----------------------------------------------------------------------------
(***************************************************************************)
(* GroupContract.  Without requests an ended row is never written again,   *)
(* so whoever saw all rows ended, even long ago, may close the group.      *)
(***************************************************************************)

(* The dispatcher is alone with its goroutines, and leases outlive them.   *)
Alone == MaxLapses = 0 /\ Request = {}

Settled == \A i \in Item : row[i].status \in EndedItem

AloneInv ==
    /\ group \notin Listed => Settled
    /\ \A p \in Proc : pc[p] = "refList" /\ view[p] = "cancelled" => Settled
    /\ \A p \in Proc : pc[p] = "refWrite" /\ view[p] \notin Listed => Settled

LEMMA AloneIsCalm ==
    ASSUME Alone
    PROVE  Uncut /\ Calm /\ Retries = {}
  BY DEF Alone, Calm, SoleRetry, Uncut, Request

(* How the group's status, and what a refresh knows of it, come about.     *)
ViewStep(p) ==
    /\ pc'[p] = "refList" => \/ pc[p] = "refList" /\ view'[p] = view[p]
                             \/ view'[p] = group
    /\ pc'[p] = "refWrite" => \/ pc[p] = "refWrite" /\ view'[p] = view[p]
                              \/ /\ pc[p] = "refList"
                                 /\ view'[p] = deriveGroupStatus(view[p], row)

LEMMA ViewSteps ==
    ASSUME Alone, TypeOK, [Next]_vars
    PROVE  /\ \A p \in Proc : ViewStep(p)
           /\ \/ group' = group
              \/ \E q \in Proc : pc[q] = "refWrite" /\ group' = view[q]
<1> USE ProcTypes DEF store, locals, counters, Goto
<1>1. ASSUME NEW p \in Proc, NEW l, l \notin {"refList", "refWrite"},
             pc' = [pc EXCEPT ![p] = l], UNCHANGED <<view, group>>
      PROVE  group' = group /\ \A q \in Proc : ViewStep(q)
  BY <1>1 DEF ViewStep, TypeOK
<1>2. CASE Dispatch
  <2>1. UNCHANGED <<view, group>>
    BY <1>2 DEF Dispatch, Tick, RecoverList, RecoverItem, Count, Claim, ClaimDone
  <2>2. \E p \in Proc, l \in {"list", "refGet", "recover", "claim", "submit", "idle"} :
          pc' = [pc EXCEPT ![p] = l]
    BY <1>2 DEF Dispatch, Tick, RecoverList, RecoverItem, Count, Claim, ClaimDone
  <2> QED
    BY <1>1, <2>1, <2>2
<1>3. ASSUME NEW t \in Attempt, processClaimedItem(t)
      PROVE  group' = group /\ \A q \in Proc : ViewStep(q)
  <2>1. ASSUME NEW l, l \notin {"refList", "refWrite"}, Read(t, l)
        PROVE  group' = group /\ \A q \in Proc : ViewStep(q)
    BY <1>1, <2>1 DEF Read
  <2>2. ASSUME NEW l, l \notin {"refList", "refWrite"}, NEW r, Write(t, r, l)
        PROVE  group' = group /\ \A q \in Proc : ViewStep(q)
    BY <1>1, <2>2 DEF Write
  <2>3. CASE Submit(t) \/ WaitRun(t) \/ Score(t)
    BY <1>1, <2>3 DEF Submit, WaitRun, Score
  <2>4. CASE RecordRead(t) \/ FinalRead(t)
    BY <2>1, <2>4 DEF RecordRead, FinalRead
  <2>5. CASE ScoreRead(t) \/ WaitItem(t)
    BY <1>1, <2>1, <2>5 DEF ScoreRead, WaitItem
  <2>6. CASE FailRead(t) \/ RefuseRead(t)
    BY <1>1, <2>6 DEF FailRead, RefuseRead, FailCard
  <2>7. CASE \/ RecordWrite(t) \/ RenewWrite(t) \/ ScoreWrite(t)
             \/ FinalWrite(t) \/ FailWrite(t) \/ RefuseWrite(t)
    BY <2>2, <2>7 DEF RecordWrite, RenewWrite, ScoreWrite, FinalWrite, FailWrite, RefuseWrite
  <2> QED
    BY <1>3, <2>3, <2>4, <2>5, <2>6, <2>7 DEF processClaimedItem
<1>4. ASSUME NEW p \in Proc, RefreshGet(p) \/ RefreshList(p)
      PROVE  group' = group /\ \A q \in Proc : ViewStep(q)
  BY <1>4 DEF RefreshGet, RefreshList, AfterRefresh, ViewStep, TypeOK
<1>5. ASSUME NEW p \in Proc, RefreshWrite(p)
      PROVE  /\ pc[p] = "refWrite" /\ group' = view[p]
             /\ \A q \in Proc : ViewStep(q)
  BY <1>5 DEF RefreshWrite, AfterRefresh, ViewStep, TypeOK
<1>6. ASSUME NEW p \in Proc, Fault(p)
      PROVE  group' = group /\ \A q \in Proc : ViewStep(q)
  <2>1. FaultLeadsTo(p) \notin {"refList", "refWrite"}
    BY DEF FaultLeadsTo
  <2> QED
    BY <1>6, <2>1 DEF Fault, ViewStep, TypeOK
<1>7. CASE Crash
  BY <1>7 DEF Crash, ViewStep
<1>8. CASE \/ \E t \in Attempt : RunEnds(t)
           \/ \E i \in Item : LeaseExpires(i)
           \/ UNCHANGED vars
  BY <1>8 DEF RunEnds, LeaseExpires, vars, ViewStep
<1>9. ~Serve
  BY AloneIsCalm DEF Serve, Uncut
<1> QED
  BY <1>2, <1>3, <1>4, <1>5, <1>6, <1>7, <1>8, <1>9 DEF Next, refreshGroupSummary

(* A status outside Listed is derived only from rows that have all ended,  *)
(* unless the group was cancelled before.                                  *)
LEMMA DerivedStatus ==
    ASSUME TypeOK, NEW s \in GroupStatus, s = "cancelled" => Settled
    PROVE  deriveGroupStatus(s, row) \notin Listed => Settled
<1>1. \A i \in Item : row[i].status \in ItemStatus
  BY DEF TypeOK, Row
<1> QED
  BY <1>1 DEF deriveGroupStatus, ClosedStatus, Some, Settled, Listed, ItemStatus, EndedItem

LEMMA AloneNext ==
    ASSUME Alone, TypeOK, HasItem, OneInv, AloneInv, [Next]_vars
    PROVE  AloneInv'
<1>1. Uncut /\ Retries = {}
  BY AloneIsCalm
<1>2. Settled => Settled'
  <2>1. ASSUME NEW i \in Item, RowStep(i), Settled
        PROVE  Settled'
    BY <1>1, <2>1 DEF RowStep, Settled, EndedItem, ActiveItem
  <2> QED
    BY <1>1, <2>1, RowSteps DEF Settled
<1>3. (group \notin Listed => Settled)'
  BY <1>2, ViewSteps DEF AloneInv
<1>4. ASSUME NEW p \in Proc
      PROVE  (pc[p] = "refList" /\ view[p] = "cancelled" => Settled)'
  <2>1. ViewStep(p)
    BY ViewSteps
  <2> QED
    BY <1>2, <2>1 DEF AloneInv, ViewStep, Listed
<1>5. ASSUME NEW p \in Proc
      PROVE  (pc[p] = "refWrite" /\ view[p] \notin Listed => Settled)'
  <2>1. ViewStep(p) /\ view[p] \in GroupStatus
    BY ViewSteps DEF TypeOK
  <2> QED
    BY <1>2, <2>1, DerivedStatus DEF AloneInv, ViewStep
<1> QED
  BY <1>3, <1>4, <1>5 DEF AloneInv

LEMMA AloneAlways == ASSUME Alone PROVE Spec => []AloneInv
<1>1. Init => AloneInv
  <2> SUFFICES ASSUME Init PROVE AloneInv
    OBVIOUS
  <2>1. \A p \in Proc : pc[p] \in {"idle", "start", "unused"}
    BY DEF Init
  <2> QED
    BY <2>1 DEF Init, AloneInv, Listed
<1>2. TypeOK /\ HasItem /\ OneInv /\ AloneInv /\ [Next]_vars => AloneInv'
  BY AloneNext
<1> QED
  BY <1>1, <1>2, AloneIsCalm, TypeCorrect, OneAlways, PTL DEF Spec

(* Left alone, refreshGroupSummary closes the group only over items that   *)
(* have all ended, however stale the listing that it works from.           *)
THEOREM ClosesOnlyWhenEnded == ASSUME Alone PROVE Spec => []GroupNeverEndsEarly
<1>1. AloneInv => GroupNeverEndsEarly
  BY DEF AloneInv, Settled, GroupNeverEndsEarly
<1> QED
  BY <1>1, AloneAlways, PTL

(* Every step of the group is a step of the contract, or none.             *)
LEMMA ContractStep ==
    ASSUME Alone, TypeOK, TypeOK', HasItem, OneInv, SlotsInv, AloneInv, AloneInv', [Next]_vars
    PROVE  [Contract!Next]_(Contract!promise)
<1> DEFINE ph == [i \in Item |-> PhaseOf(row[i].status)]
<1>1. \A i \in Item : row[i].status \in ItemStatus /\ row'[i].status \in ItemStatus
  BY DEF TypeOK, Row
<1>2. CASE row' = row
  <2>1. ph' = ph
    BY <1>2
  <2>2. CASE (group \in Listed) = (group' \in Listed)
    BY <2>1, <2>2 DEF Contract!promise
  <2>3. CASE group \in Listed /\ group' \notin Listed
    <3>1. \A i \in Item : ph[i] = "settled"
      BY <1>2, <2>3 DEF AloneInv, Settled, PhaseOf, EndedItem, ActiveItem
    <3> QED
      BY <2>1, <2>3, <3>1 DEF Contract!Next, Contract!Close
  <2>4. CASE group \notin Listed /\ group' \in Listed
    BY <2>1, <2>4 DEF Contract!Next, Contract!Reopen
  <2> QED
    BY <2>2, <2>3, <2>4
<1>3. ASSUME NEW i \in Item, RowStep(i)
      PROVE  [Contract!Next]_(Contract!promise)
  <2>1. /\ ph' = [ph EXCEPT ![i] = PhaseOf(row'[i].status)]
        /\ (group' \in Listed) = (group \in Listed)
    BY <1>3 DEF RowStep
  <2>2. CASE PhaseOf(row'[i].status) = ph[i]
    <3>1. ph' = ph
      BY <2>1, <2>2
    <3> QED
      BY <2>1, <3>1 DEF Contract!promise
  <2>3. CASE row[i].status \in ActiveItem /\ row'[i].status = "queued"
    <3>1. Contract!GiveBack(i)
      BY <2>1, <2>3 DEF Contract!GiveBack, PhaseOf, ActiveItem
    <3> QED
      BY <3>1 DEF Contract!Next
  <2>4. CASE row[i].status \in ActiveItem /\ row'[i].status \in EndedItem
    <3>1. Contract!Settle(i)
      BY <2>1, <2>4 DEF Contract!Settle, PhaseOf, ActiveItem, EndedItem
    <3> QED
      BY <3>1 DEF Contract!Next
  <2>5. CASE row[i].status = "queued" /\ row'[i].status = "running" /\ slots > 0
    <3>1. Contract!Working = Active
      <4>1. \A j \in Item : ph[j] = "working" <=> row[j].status \in ActiveItem
        BY DEF PhaseOf, ActiveItem
      <4>2. Contract!Working = {j \in Item : ph[j] = "working"}
        BY DEF Contract!Working
      <4> QED
        BY <4>1, <4>2 DEF Active
    <3>2. Cardinality(Active) < MaxConcurrency
      BY <2>5, ActiveIsFinite, ConfigAssumption DEF SlotsInv, TypeOK
    <3>3. Contract!Take(i)
      <4>1. ph[i] = "waiting" /\ ph' = [ph EXCEPT ![i] = "working"]
        BY <2>1, <2>5 DEF PhaseOf, ActiveItem
      <4>2. Cardinality(Contract!Working) < MaxConcurrency
        BY <3>1, <3>2
      (* The instance of FiniteSets in GroupContract defines the same Cardinality. *)
      <4>3. Contract!Cardinality(Contract!Working) = Cardinality(Contract!Working)
        BY DEF Contract!Cardinality, Cardinality, Contract!IsFiniteSet, IsFiniteSet
      <4> QED
        BY <2>1, <4>1, <4>2, <4>3 DEF Contract!Take
    <3> QED
      BY <3>3 DEF Contract!Next
  <2>6. row[i].status \in ActiveItem /\ row'[i].status \in ActiveItem
          => PhaseOf(row'[i].status) = ph[i]
    BY DEF PhaseOf, ActiveItem
  <2>7. row'[i].status = row[i].status => PhaseOf(row'[i].status) = ph[i]
    OBVIOUS
  <2>8. row'[i].status = "queued" \/ row'[i].status \in EndedItem \/ row'[i].status \in ActiveItem
    BY <1>1 DEF ItemStatus, EndedItem, ActiveItem
  <2> QED
    BY <1>3, <2>2, <2>3, <2>4, <2>5, <2>6, <2>7, <2>8, AloneIsCalm DEF RowStep
<1> QED
  BY <1>2, <1>3, RowSteps, AloneIsCalm

(* Left alone, the group implements GroupContract: leases, goroutines,     *)
(* crashes, recoveries and stale refreshes amount to items taken, given    *)
(* back and settled for good, and a group closed over settled items.       *)
THEOREM ImplementsContract == ASSUME Alone PROVE Spec => KeepsContract
<1>1. Init => Contract!Init
  BY DEF Init, Contract!Init, PhaseOf, BlankRow, Listed
<1>2. /\ TypeOK /\ TypeOK' /\ HasItem /\ OneInv /\ SlotsInv /\ AloneInv /\ AloneInv'
      /\ [Next]_vars
      => [Contract!Next]_(Contract!promise)
  BY ContractStep
<1> QED
  BY <1>1, <1>2, AloneIsCalm, TypeCorrect, OneAlways, SlotsAlways, AloneAlways, PTL
     DEF Spec, KeepsContract, Contract!Spec

=============================================================================
