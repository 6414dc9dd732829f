------------------------ MODULE HarnessAttemptProofs ------------------------
(***************************************************************************)
(* Theorems about the attempts of HarnessGroup: how many goroutines work   *)
(* on an item after leases have lapsed, how often an item is attempted,    *)
(* and what stands behind an item that has passed.                         *)
(***************************************************************************)
EXTENDS HarnessGroupProofs

(***************************************************************************)
(* DuplicatesArePaidFor.  A goroutine comes from a queued row, and a row   *)
(* is queued by the goroutine that gives it up, by a recovery, or by a     *)
(* retry.  The invariant counts with the goroutines of an item those that  *)
(* are due: one for a queued row, and one for a row that a retry may yet   *)
(* queue, which is a failed one or one that the retry has listed.          *)
(***************************************************************************)
ListedByRetry(i) == \E q \in Retries : i \in DOMAIN worklist[q]

MayBeRetried(i) == Retries # {} /\ (row[i].status = "failed" \/ ListedByRetry(i))

Due(i) == (IF row[i].status = "queued" THEN 1 ELSE 0)
        + (IF MayBeRetried(i) THEN 1 ELSE 0)

PaidInv == \A i \in Item : Cardinality(LiveOn(i)) + Due(i) <= 1 + recovered[i]

LEMMA FiniteLiveOn ==
    ASSUME NEW i
    PROVE  IsFiniteSet(LiveOn(i)) /\ Cardinality(LiveOn(i)) \in Nat
<1>1. IsFiniteSet(Attempt)
  <2>1. 1 \in Int /\ MaxRuns \in Int
    BY ConfigAssumption
  <2> QED
    BY <2>1, FS_Interval DEF Attempt
<1>2. LiveOn(i) \subseteq Attempt
  BY DEF LiveOn
<1> QED
  BY <1>1, <1>2, FS_Subset, FS_CardinalityType

LEMMA DueIsNat ==
    ASSUME NEW i
    PROVE  Due(i) \in Nat /\ Due(i)' \in Nat
  BY DEF Due

(* What is due changes with the row and with the retry's list only.        *)
LEMMA DueGrows ==
    ASSUME NEW i, ListedByRetry(i)' => ListedByRetry(i)
    PROVE  /\ Due(i)' <= Due(i) + 1
           /\ row'[i].status = row[i].status => Due(i)' <= Due(i)
           /\ row'[i].status \notin {"queued", "failed"} => Due(i)' <= Due(i)
           /\ row'[i].status # "queued" /\ Retries = {} => Due(i)' <= Due(i)
  BY DEF Due, MayBeRetried

(* The set L of goroutines becomes M, d are due and then e, and r leases   *)
(* have been taken back and then s.                                        *)
LEMMA Balance ==
    ASSUME NEW L, NEW M, IsFiniteSet(L),
           NEW d \in Nat, NEW e \in Nat, NEW r \in Nat, NEW s \in Nat,
           Cardinality(L) + d <= 1 + r,
           \/ M \subseteq L /\ e + r <= d + s
           \/ \E t : M \subseteq L \cup {t} /\ e + r + 1 <= d + s
           \/ \E t \in L : M \subseteq L \ {t} /\ e + r <= d + s + 1
    PROVE  Cardinality(M) + e <= 1 + s
<1>1. Cardinality(L) \in Nat
  BY FS_CardinalityType
<1>2. CASE M \subseteq L /\ e + r <= d + s
  <2>1. Cardinality(M) \in Nat /\ Cardinality(M) <= Cardinality(L)
    BY <1>2, FS_Subset, FS_CardinalityType
  <2> QED
    BY <1>1, <1>2, <2>1
<1>3. CASE \E t : M \subseteq L \cup {t} /\ e + r + 1 <= d + s
  <2>1. PICK t : M \subseteq L \cup {t}
    BY <1>3
  <2>2. /\ IsFiniteSet(L \cup {t})
        /\ Cardinality(L \cup {t}) = IF t \in L THEN Cardinality(L) ELSE Cardinality(L) + 1
    BY FS_AddElement
  <2>3. IsFiniteSet(M) /\ Cardinality(M) <= Cardinality(L \cup {t})
    BY <2>1, <2>2, FS_Subset
  <2>4. Cardinality(M) \in Nat
    BY <2>3, FS_CardinalityType
  <2> QED
    BY <1>1, <1>3, <2>2, <2>3, <2>4
<1>4. CASE \E t \in L : M \subseteq L \ {t} /\ e + r <= d + s + 1
  <2>1. PICK t \in L : M \subseteq L \ {t}
    BY <1>4
  <2>2. IsFiniteSet(L \ {t}) /\ Cardinality(L \ {t}) = Cardinality(L) - 1
    BY FS_RemoveElement
  <2>3. IsFiniteSet(M) /\ Cardinality(M) <= Cardinality(L \ {t})
    BY <2>1, <2>2, FS_Subset
  <2>4. Cardinality(M) \in Nat
    BY <2>3, FS_CardinalityType
  <2> QED
    BY <1>1, <1>4, <2>2, <2>3, <2>4
<1> QED
  BY <1>2, <1>3, <1>4

(* How a step changes the account of one item: it stays in balance, or a   *)
(* claim turns what is due into a goroutine, or a goroutine ends and may   *)
(* leave something due.                                                    *)
Kept(i)  == LiveOn(i)' \subseteq LiveOn(i) /\ Due(i)' + recovered[i] <= Due(i) + recovered'[i]
Taken(i) == \E t : /\ LiveOn(i)' \subseteq LiveOn(i) \cup {t}
                   /\ Due(i)' + recovered[i] + 1 <= Due(i) + recovered'[i]
Left(i)  == \E t \in LiveOn(i) : /\ LiveOn(i)' \subseteq LiveOn(i) \ {t}
                                 /\ Due(i)' + recovered[i] <= Due(i) + recovered'[i] + 1

(* A step that claims nothing and leaves the row's status, the history and *)
(* the retries' lists as they are.                                         *)
LEMMA KeptAsIs ==
    ASSUME TypeOK, NEW i \in Item, itemOf' = itemOf,
           \A t \in Attempt : Live(t)' => Live(t),
           ListedByRetry(i)' => ListedByRetry(i), recovered'[i] = recovered[i],
           \/ row'[i].status = row[i].status
           \/ row'[i].status \notin {"queued", "failed"}
           \/ row'[i].status # "queued" /\ Retries = {}
    PROVE  Kept(i)
<1>1. LiveOn(i)' \subseteq LiveOn(i)
  BY DEF LiveOn
<1>2. Due(i)' <= Due(i) /\ Due(i) \in Nat /\ Due(i)' \in Nat /\ recovered[i] \in Nat
  BY DueGrows, DueIsNat DEF TypeOK
<1> QED
  BY <1>1, <1>2 DEF Kept

LEMMA PaidClaim ==
    ASSUME TypeOK, HasItem, Claim, NEW i \in Item
    PROVE  Kept(i) \/ Taken(i)
<1>1. PICK k \in Item, t \in Attempt :
        /\ First(Claimable, k) /\ First(Unused, t)
        /\ row' = [row EXCEPT ![k] = ClaimedRow(row[k])]
        /\ itemOf' = [itemOf EXCEPT ![t] = k]
        /\ pc' = [pc EXCEPT ![t] = "submit"]
  BY DEF Claim, UpdateGroupItem, Goto
<1>2. worklist' = worklist /\ recovered' = recovered
  BY DEF Claim, counters
<1>3. ListedByRetry(i)' = ListedByRetry(i) /\ recovered[i] \in Nat
  BY <1>2 DEF ListedByRetry, TypeOK
<1>4. \A u \in Attempt : u # t => itemOf'[u] = itemOf[u] /\ (Live(u)' => Live(u))
  BY <1>1, ProcTypes DEF TypeOK, Live
<1>5. itemOf'[t] = k
  BY <1>1 DEF TypeOK
<1>6. CASE i = k
  <2>1. row[k].status = "queued" /\ row[k] \in Row
    BY <1>1 DEF First, Claimable, TypeOK
  <2>2. row'[k].status = "running"
    BY <1>1, <2>1 DEF TypeOK, ClaimedRow, Row
  <2>3. Due(i)' + 1 <= Due(i)
    BY <1>3, <1>6, <2>1, <2>2 DEF Due, MayBeRetried
  <2>4. LiveOn(i)' \subseteq LiveOn(i) \cup {t}
    BY <1>4 DEF LiveOn
  <2> QED
    BY <1>2, <1>3, <2>3, <2>4, DueIsNat DEF Taken
<1>7. CASE i # k
  <2>1. row'[i] = row[i]
    BY <1>1, <1>7 DEF TypeOK
  <2>2. Due(i)' <= Due(i)
    BY <1>3, <2>1, DueGrows
  <2>3. LiveOn(i)' \subseteq LiveOn(i)
    BY <1>4, <1>5, <1>7 DEF LiveOn
  <2> QED
    BY <1>2, <1>3, <2>2, <2>3, DueIsNat DEF Kept
<1> QED
  BY <1>6, <1>7

LEMMA PaidRecover ==
    ASSUME TypeOK, RecoverItem, NEW i \in Item
    PROVE  Kept(i)
<1> USE ProcTypes DEF Goto
<1>1. PICK k \in Item :
        /\ row' = [row EXCEPT ![k] = RequeuedRow(worklist[D][k], "none")]
        /\ recovered' = [recovered EXCEPT ![k] = @ + 1]
        /\ worklist' = [worklist EXCEPT ![D] = Without(@, k)]
        /\ pc' = [pc EXCEPT ![D] = IF Last(D, k) THEN "refGet" ELSE "recover"]
  BY DEF RecoverItem, UpdateGroupItem
<1>2. itemOf' = itemOf /\ \A t \in Attempt : Live(t)' => Live(t)
  BY <1>1 DEF RecoverItem, Live, TypeOK
<1>3. ListedByRetry(i)' => ListedByRetry(i)
  <2>1. \A q \in Retries : worklist'[q] = worklist[q]
    BY <1>1 DEF TypeOK
  <2> QED
    BY <2>1 DEF ListedByRetry
<1>4. CASE i = k
  <2>1. recovered'[i] = recovered[i] + 1 /\ recovered[i] \in Nat
    BY <1>1, <1>4 DEF TypeOK
  <2>2. Due(i)' <= Due(i) + 1
    BY <1>3, DueGrows
  <2>3. LiveOn(i)' \subseteq LiveOn(i)
    BY <1>2 DEF LiveOn
  <2> QED
    BY <2>1, <2>2, <2>3, DueIsNat DEF Kept
<1>5. CASE i # k
  <2>1. row'[i] = row[i] /\ recovered'[i] = recovered[i]
    BY <1>1, <1>5 DEF TypeOK
  <2> QED
    BY <1>2, <1>3, <2>1, KeptAsIs
<1> QED
  BY <1>4, <1>5

(* A goroutine either goes on, and then its row is active, or ends.        *)
LEMMA PaidAttempt ==
    ASSUME TypeOK, HasItem, RecInv, NEW t \in Attempt, processClaimedItem(t), NEW i \in Item
    PROVE  Kept(i) \/ Left(i)
<1> USE ProcTypes DEF store, locals, counters, Goto
<1>1. Live(t) /\ itemOf[t] \in Item /\ copy[t] \in Row
  BY ClaimedItems DEF TypeOK
<1>2. ASSUME NEW l, UNCHANGED <<row, itemOf, worklist, recovered>>, Goto(t, l)
      PROVE  Kept(i)
  <2>1. \A u \in Attempt : Live(u)' => Live(u)
    BY <1>1, <1>2 DEF Live, TypeOK
  <2> QED
    BY <1>2, <2>1, KeptAsIs DEF ListedByRetry
<1>3. ASSUME NEW l, NEW r, Write(t, r, l), l \in LivePC => r.status \in ActiveItem
      PROVE  Kept(i) \/ Left(i)
  <2>1. /\ row' = [row EXCEPT ![itemOf[t]] = r] /\ pc' = [pc EXCEPT ![t] = l]
        /\ UNCHANGED <<itemOf, worklist, recovered>>
    BY <1>3 DEF Write, UpdateGroupItem
  <2>2. \A u \in Attempt : /\ Live(u)' => Live(u)
                           /\ u = t => (Live(u)' => l \in LivePC)
    BY <1>1, <2>1 DEF Live, TypeOK
  <2>3. ListedByRetry(i)' => ListedByRetry(i)
    BY <2>1 DEF ListedByRetry
  <2>4. CASE i # itemOf[t]
    BY <2>1, <2>2, <2>3, <2>4, KeptAsIs DEF TypeOK
  <2>5. CASE i = itemOf[t] /\ l \in LivePC
    <3>1. row'[i].status \notin {"queued", "failed"}
      BY <1>1, <1>3, <2>1, <2>5 DEF TypeOK, ActiveItem
    <3> QED
      BY <2>1, <2>2, <2>3, <3>1, KeptAsIs
  <2>6. CASE i = itemOf[t] /\ l \notin LivePC
    <3>1. t \in LiveOn(i) /\ LiveOn(i)' \subseteq LiveOn(i) \ {t}
      BY <1>1, <2>1, <2>2, <2>6 DEF LiveOn
    <3>2. Due(i)' <= Due(i) + 1 /\ recovered[i] \in Nat /\ recovered'[i] = recovered[i]
      BY <2>1, <2>3, DueGrows DEF TypeOK
    <3> QED
      BY <3>1, <3>2, DueIsNat DEF Left
  <2> QED
    BY <2>4, <2>5, <2>6
<1>4. CASE Submit(t) \/ WaitRun(t) \/ Score(t)
  BY <1>2, <1>4 DEF Submit, WaitRun, Score
<1>5. CASE RecordRead(t) \/ FinalRead(t) \/ ScoreRead(t) \/ WaitItem(t)
  BY <1>2, <1>5 DEF RecordRead, FinalRead, ScoreRead, WaitItem, Read
<1>6. CASE FailRead(t) \/ RefuseRead(t)
  BY <1>2, <1>6 DEF FailRead, RefuseRead, FailCard
<1>7. CASE RecordWrite(t) \/ ScoreWrite(t)
  BY <1>1, <1>3, <1>7 DEF RecordWrite, ScoreWrite, RecordedRow, ScoringRow, ActiveItem, Row
<1>8. CASE RenewWrite(t)
  <2>1. copy[t].status \in ActiveItem
    BY <1>8 DEF RenewWrite, RecInv, Consistent
  <2>2. RenewedRow(copy[t]).status \in ActiveItem
    BY <1>1, <2>1 DEF RenewedRow, Row
  <2> QED
    BY <1>3, <1>8, <2>2 DEF RenewWrite
<1>9. CASE FinalWrite(t) \/ FailWrite(t) \/ RefuseWrite(t)
  BY <1>3, <1>9 DEF FinalWrite, FailWrite, RefuseWrite, LivePC
<1> QED
  BY <1>4, <1>5, <1>6, <1>7, <1>8, <1>9 DEF processClaimedItem

(* A cancel or a report leaves nothing due that was not, and the one retry *)
(* queues no row that was not due already.                                 *)
LEMMA PaidServe ==
    ASSUME SoleRetry, TypeOK, Serve, NEW i \in Item
    PROVE  Kept(i)
<1> USE ProcTypes DEF store, locals, counters, Goto
<1>1. itemOf' = itemOf /\ recovered' = recovered
  BY DEF Serve, List, CancelList, CancelRun, CancelRow, CancelGroup, RetryList,
         RetryRow, RetryGroup, ReportList, ReportCard, ReportRow
<1>2. \A t \in Attempt : Live(t)' => Live(t)
  <2>1. \E q \in Request : \E l : pc' = [pc EXCEPT ![q] = l]
    BY DEF Serve, List, CancelList, CancelRun, CancelRow, CancelGroup, RetryList,
           RetryRow, RetryGroup, ReportList, ReportCard, ReportRow
  <2> QED
    BY <2>1 DEF Live, TypeOK
<1>3. ASSUME row' = row,
             \/ worklist' = worklist
             \/ \E q \in Request \ Retries : \E w : worklist' = [worklist EXCEPT ![q] = w]
      PROVE  Kept(i)
  <2>1. \A q \in Retries : worklist'[q] = worklist[q]
    BY <1>3 DEF TypeOK
  <2> QED
    BY <1>1, <1>2, <1>3, <2>1, KeptAsIs DEF ListedByRetry
(* A cancel or a report ends the first row of its list.                    *)
<1>4. ASSUME NEW q \in Request \ Retries, NEW k \in Item, NEW r,
             r.status = "cancelled" \/ (r.status # "queued" /\ Retries = {}),
             UpdateGroupItem(k, r) \/ UNCHANGED row,
             worklist' = [worklist EXCEPT ![q] = Without(@, k)]
      PROVE  Kept(i)
  <2>1. ListedByRetry(i)' => ListedByRetry(i)
    <3>1. \A p \in Retries : worklist'[p] = worklist[p]
      BY <1>4 DEF TypeOK
    <3> QED
      BY <3>1 DEF ListedByRetry
  <2>2. row'[i] = row[i] \/ row'[i] = r
    BY <1>4 DEF UpdateGroupItem, TypeOK
  <2> QED
    BY <1>1, <1>2, <1>4, <2>1, <2>2, KeptAsIs
<1>5. ASSUME NEW q \in Cancels, CancelList(q) \/ CancelRun(q) \/ CancelGroup(q)
      PROVE  Kept(i)
  <2>1. q \in Request \ Retries
    BY ProcAssumption
  <2> QED
    BY <1>3, <1>5, <2>1 DEF CancelList, CancelRun, CancelGroup, List
<1>6. ASSUME NEW q \in Cancels, CancelRow(q)
      PROVE  Kept(i)
  <2>1. PICK k \in Item :
          /\ First(DOMAIN worklist[q], k)
          /\ UpdateGroupItem(k, EndedRow(worklist[q][k], "cancelled")) \/ UNCHANGED row
          /\ worklist' = [worklist EXCEPT ![q] = Without(@, k)]
    BY <1>6 DEF CancelRow
  <2>2. EndedRow(worklist[q][k], "cancelled").status = "cancelled"
    BY <1>6, <2>1 DEF EndedRow, TypeOK, RowList, Row, First
  <2>3. q \in Request \ Retries
    BY <1>6, ProcAssumption
  <2> QED
    BY <1>4, <2>1, <2>2, <2>3
<1>7. ASSUME NEW q \in Retries, RetryGroup(q)
      PROVE  Kept(i)
  BY <1>3, <1>7 DEF RetryGroup
<1>8. ASSUME NEW q \in Retries, RetryList(q)
      PROVE  Kept(i)
  <2>1. row' = row /\ worklist' = [worklist EXCEPT ![q] = [k \in Retriable |-> row[k]]]
    BY <1>8 DEF RetryList, List
  <2>2. ListedByRetry(i)' => row[i].status = "failed" \/ ListedByRetry(i)
    BY <2>1 DEF ListedByRetry, Retriable, TypeOK
  <2>3. Due(i)' <= Due(i)
    BY <2>1, <2>2 DEF Due, MayBeRetried
  <2>4. LiveOn(i)' \subseteq LiveOn(i)
    BY <1>1, <1>2 DEF LiveOn
  <2> QED
    BY <1>1, <2>3, <2>4, DueIsNat DEF Kept, TypeOK
<1>9. ASSUME NEW q \in Retries, RetryRow(q)
      PROVE  Kept(i)
  <2>1. PICK k \in Item :
          /\ First(DOMAIN worklist[q], k)
          /\ row' = [row EXCEPT ![k] = RequeuedRow(worklist[q][k], "valid")]
          /\ worklist' = [worklist EXCEPT ![q] = Without(@, k)]
    BY <1>9 DEF RetryRow, UpdateGroupItem
  <2>2. k \in DOMAIN worklist[q] /\ worklist[q][k] \in Row
    BY <2>1 DEF First, TypeOK, RowList
  <2>3. /\ DOMAIN worklist'[q] = DOMAIN worklist[q] \ {k}
        /\ Retries = {q}
    BY <1>9, <2>1 DEF Without, TypeOK, SoleRetry
  <2>4. CASE i = k
    <3>1. row'[i].status = "queued"
      BY <2>1, <2>2, <2>4 DEF TypeOK, RequeuedRow, Row
    <3>2. ListedByRetry(i) /\ ~ ListedByRetry(i)'
      BY <2>2, <2>3, <2>4 DEF ListedByRetry
    <3>3. Due(i)' <= Due(i)
      BY <3>1, <3>2, <2>3 DEF Due, MayBeRetried
    <3>4. LiveOn(i)' \subseteq LiveOn(i)
      BY <1>1, <1>2 DEF LiveOn
    <3> QED
      BY <1>1, <3>3, <3>4, DueIsNat DEF Kept, TypeOK
  <2>5. CASE i # k
    <3>1. row'[i] = row[i] /\ (ListedByRetry(i)' => ListedByRetry(i))
      BY <2>1, <2>3, <2>5 DEF TypeOK, ListedByRetry
    <3> QED
      BY <1>1, <1>2, <3>1, KeptAsIs
  <2> QED
    BY <2>4, <2>5
<1>10. ASSUME NEW q \in Reports, ReportList(q) \/ ReportCard(q)
       PROVE  Kept(i)
  <2>1. q \in Request \ Retries
    BY <1>10, ProcAssumption
  <2> QED
    BY <1>3, <1>10, <2>1 DEF ReportList, ReportCard, List
<1>11. ASSUME NEW q \in Reports, ReportRow(q)
       PROVE  Kept(i)
  <2>1. PICK k \in Item :
          /\ First(DOMAIN worklist[q], k)
          /\ \/ UpdateGroupItem(k, EndedRow(worklist[q][k], verdictToItemStatus(outcome[q])))
             \/ UNCHANGED row
          /\ worklist' = [worklist EXCEPT ![q] = Without(@, k)]
    BY <1>11 DEF ReportRow
  <2>2. EndedRow(worklist[q][k], verdictToItemStatus(outcome[q])).status # "queued"
    BY <1>11, <2>1 DEF EndedRow, verdictToItemStatus, TypeOK, RowList, Row, First
  <2>3. q \in Request \ Retries /\ Retries = {}
    BY <1>11, ProcAssumption DEF SoleRetry
  <2> QED
    BY <1>4, <2>1, <2>2, <2>3
<1> QED
  BY <1>5, <1>6, <1>7, <1>8, <1>9, <1>10, <1>11 DEF Serve

LEMMA PaidNext ==
    ASSUME SoleRetry, TypeOK, TypeOK', HasItem, RecInv, PaidInv, [Next]_vars
    PROVE  PaidInv'
<1> USE ProcTypes DEF store, locals, counters
<1> SUFFICES ASSUME NEW i \in Item
             PROVE  Cardinality(LiveOn(i)') + Due(i)' <= 1 + recovered'[i]
  BY DEF PaidInv
<1>1. Kept(i) \/ Taken(i) \/ Left(i)
  <2>1. CASE Claim
    BY <2>1, PaidClaim
  <2>2. CASE RecoverItem
    BY <2>2, PaidRecover
  <2>3. CASE \E t \in Attempt : processClaimedItem(t)
    BY <2>3, PaidAttempt
  <2>4. CASE Serve
    BY <2>4, PaidServe
  <2>5. ASSUME row'[i].status = row[i].status, recovered' = recovered, ~Claim,
               \A q \in Lister \ {D} : worklist'[q] = worklist[q] \/ DOMAIN worklist'[q] = {}
        PROVE  Kept(i)
    <3>1. itemOf' = itemOf /\ \A t \in Attempt : Live(t)' => Live(t)
      BY <2>5, LiveSteps
    <3>2. ListedByRetry(i)' => ListedByRetry(i)
      BY <2>5 DEF ListedByRetry
    <3> QED
      BY <2>5, <3>1, <3>2, KeptAsIs
  <2>6. CASE (Tick \/ RecoverList \/ Count \/ ClaimDone) /\ ~Claim
    BY <2>5, <2>6 DEF Tick, RecoverList, Count, ClaimDone, TypeOK
  <2>7. CASE (\E t \in Attempt : RunEnds(t)) /\ ~Claim
    BY <2>5, <2>7 DEF RunEnds
  <2>8. CASE (\E p \in Proc : refreshGroupSummary(p)) /\ ~Claim
    BY <2>5, <2>8 DEF refreshGroupSummary, RefreshGet, RefreshList, RefreshWrite
  <2>9. CASE (\E p \in Proc : Fault(p)) /\ ~Claim
    BY <2>5, <2>9, BlankIsConsistent DEF Fault
  <2>10. ASSUME NEW k \in Item, LeaseExpires(k), ~Claim
         PROVE  Kept(i)
    <3>1. row'[i].status = row[i].status
      BY <2>10 DEF LeaseExpires, UpdateGroupItem, TypeOK, Row
    <3> QED
      BY <2>5, <2>10, <3>1 DEF LeaseExpires
  <2>11. CASE Crash /\ ~Claim
    BY <2>5, <2>11, BlankIsConsistent DEF Crash
  <2>12. CASE UNCHANGED vars /\ ~Claim
    BY <2>5, <2>12 DEF vars
  <2> QED
    BY <2>1, <2>2, <2>3, <2>4, <2>6, <2>7, <2>8, <2>9, <2>10, <2>11, <2>12
       DEF Next, Dispatch
<1>2. /\ recovered[i] \in Nat /\ recovered'[i] \in Nat
      /\ Cardinality(LiveOn(i)) + Due(i) <= 1 + recovered[i]
  BY DEF PaidInv, TypeOK
<1> QED
  BY <1>1, <1>2, FiniteLiveOn, DueIsNat, Balance DEF Kept, Taken, Left

(* Whatever leases lapse under their goroutines, whatever is cancelled,    *)
(* fails or crashes, every goroutine that processClaimedItem has on an     *)
(* item beyond the first was paid for by a lease that recoverExpiredItems  *)
(* took back.                                                              *)
THEOREM DuplicatesNeedRecoveries == ASSUME SoleRetry PROVE Spec => []DuplicatesArePaidFor
<1>1. Init => PaidInv
  <2> SUFFICES ASSUME Init, NEW i \in Item
               PROVE  Cardinality(LiveOn(i)) + Due(i) <= 1 + recovered[i]
    BY DEF PaidInv
  <2>1. LiveOn(i) = {}
    BY ProcTypes DEF Init, LiveOn, Live, LivePC
  <2>2. ~ListedByRetry(i)
    BY ProcTypes, BlankIsConsistent DEF Init, ListedByRetry
  <2>3. Due(i) = 1
    BY <2>2 DEF Init, Due, MayBeRetried, BlankRow
  <2> QED
    BY <2>1, <2>3, FS_EmptySet DEF Init
<1>2. TypeOK /\ TypeOK' /\ HasItem /\ RecInv /\ PaidInv /\ [Next]_vars => PaidInv'
  BY PaidNext
<1>3. TypeOK /\ PaidInv => DuplicatesArePaidFor
  <2> SUFFICES ASSUME TypeOK, PaidInv, NEW i \in Item
               PROVE  Cardinality(LiveOn(i)) + (IF row[i].status = "queued" THEN 1 ELSE 0)
                          <= 1 + recovered[i]
    BY DEF DuplicatesArePaidFor
  <2>1. (IF row[i].status = "queued" THEN 1 ELSE 0) <= Due(i)
    BY DEF Due
  <2>2. recovered[i] \in Nat /\ Cardinality(LiveOn(i)) + Due(i) <= 1 + recovered[i]
    BY DEF TypeOK, PaidInv
  <2> QED
    BY <2>1, <2>2, FiniteLiveOn, DueIsNat
<1> QED
  BY <1>1, <1>2, <1>3, TypeCorrect, RecAlways, PTL DEF Spec

-----------------------------------------------------------------------------
(***************************************************************************)
(* EvidenceMatches.  The verdict travels from the run, over the outcome    *)
(* that the goroutine keeps, to the scorecard and the row.  While nobody   *)
(* else ends the item, its row and its card are written by its goroutine   *)
(* alone, and nobody rewrites the row of an item that has passed.          *)
(***************************************************************************)
Recorded(t) == pc[t] \in {"wait", "poll", "renewWrite", "scoreRead", "scoreWrite", "score",
                          "finalRead", "finalWrite", "failRead", "failWrite"}

Rewriting(t) == pc[t] \in {"renewWrite", "scoreWrite", "finalWrite", "failWrite"}

Passes(i, t) == /\ t \in Attempt
                /\ card[i] = [run |-> t, verdict |-> "pass"]
                /\ run[t] = "completed"

EvidenceOf(t) ==
    /\ pc[t] \in {"unused", "submit"} => run[t] = "none"
    /\ outcome[t] = "completed" => run[t] = "completed"
    /\ outcome[t] = "pass" => pc[t] \in {"finalRead", "finalWrite"} /\ Passes(itemOf[t], t)
    /\ Recorded(t) => row[itemOf[t]].run = t
    /\ Rewriting(t) => copy[t].run = t

EvidenceFor(i) == row[i].status = "passed" => Passes(i, row[i].run)

EvidenceInv == /\ \A t \in Attempt : EvidenceOf(t)
               /\ \A i \in Item : EvidenceFor(i)

(* A run that has completed stays so, and only Submit starts one.          *)
RunsGoOn == \A t \in Attempt : /\ run[t] = "completed" => run'[t] = "completed"
                               /\ pc'[t] \in {"unused", "submit"} /\ run[t] = "none"
                                    => run'[t] = "none"

(* The evidence of a goroutine that a step leaves alone: its variables,    *)
(* and the row and the card of its item while it is live.                  *)
LEMMA EvidenceKept ==
    ASSUME NEW t \in Attempt, EvidenceOf(t), RunsGoOn,
           pc'[t] = pc[t], outcome'[t] = outcome[t], itemOf'[t] = itemOf[t], copy'[t] = copy[t],
           Live(t) => /\ row'[itemOf[t]].run = row[itemOf[t]].run
                      /\ card'[itemOf[t]] = card[itemOf[t]]
    PROVE  EvidenceOf(t)'
<1>1. Recorded(t) => Live(t)
  BY DEF Recorded, Live, LivePC
<1>2. pc[t] \in {"finalRead", "finalWrite"} => Live(t)
  BY DEF Live, LivePC
<1> QED
  BY <1>1, <1>2 DEF EvidenceOf, RunsGoOn, Passes, Recorded, Rewriting

(* The evidence of a goroutine that has ended.                             *)
LEMMA EvidenceOver ==
    ASSUME NEW t, pc'[t] \notin LivePC \cup {"unused"}, outcome'[t] \notin {"completed", "pass"}
    PROVE  EvidenceOf(t)'
  BY DEF EvidenceOf, Recorded, Rewriting, LivePC

(* The evidence for an item that a step leaves alone, or does not pass.    *)
LEMMA EvidenceStays ==
    ASSUME NEW i \in Item, EvidenceFor(i), RunsGoOn,
           \/ row'[i].status # "passed"
           \/ /\ row'[i].status = row[i].status /\ row'[i].run = row[i].run
              /\ card'[i] = card[i]
    PROVE  EvidenceFor(i)'
  BY DEF EvidenceFor, RunsGoOn, Passes

(* An item with a live goroutine is active, and its row is not a loop's.   *)
LEMMA WorkedOn ==
    ASSUME Uncut, OneInv, NEW t \in Attempt, Live(t)
    PROVE  /\ row[itemOf[t]].status \in ActiveItem
           /\ row[itemOf[t]].status \notin {"queued", "passed"}
           /\ \A q \in {D} \cup Retries : itemOf[t] \notin DOMAIN worklist[q]
           /\ \A u \in Attempt : Live(u) /\ itemOf[u] = itemOf[t] => u = t
<1>1. HoldsLease(t) /\ OneAttemptPerItem
  BY DEF OneInv
<1>2. \A q \in {D} \cup Retries : itemOf[t] \notin DOMAIN worklist[q]
  BY DEF OneInv, Untouched
<1>3. row[itemOf[t]].status \in ActiveItem
  BY <1>1 DEF HoldsLease, Uncut
<1> QED
  BY <1>1, <1>2, <1>3 DEF ActiveItem, OneAttemptPerItem

(* A goroutine records its run in the row, scores what it was told of the  *)
(* run, and passes the item only on the card that it has written itself.   *)
LEMMA EvidenceAttempt ==
    ASSUME Uncut, TypeOK, HasItem, RecInv, OneInv, EvidenceInv,
           NEW t \in Attempt, processClaimedItem(t)
    PROVE  EvidenceInv'
<1> USE ProcTypes DEF store, locals, counters, Goto
<1> DEFINE i == itemOf[t]
<1>1. /\ Live(t) /\ i \in Item /\ copy[t] \in Row /\ row[i] \in Row
      /\ row[i].status # "passed"
      /\ \A u \in Attempt : Live(u) /\ u # t => itemOf[u] # i
  BY ClaimedItems, WorkedOn DEF TypeOK
<1>2. EvidenceOf(t)
  BY DEF EvidenceInv
(* What is left to say of a step that goes on to l: that the goroutine's   *)
(* own evidence is in order afterwards, and that of its item.              *)
<1>3. ASSUME NEW l, l \notin {"unused", "submit"}, pc' = [pc EXCEPT ![t] = l],
             itemOf' = itemOf, RunsGoOn,
             \A u \in Attempt : u # t => outcome'[u] = outcome[u] /\ copy'[u] = copy[u],
             \A k \in Item : k # i => row'[k] = row[k] /\ card'[k] = card[k],
             EvidenceOf(t)', row'[i].status # "passed" \/ EvidenceFor(i)'
      PROVE  EvidenceInv'
  <2>1. ASSUME NEW u \in Attempt, u # t
        PROVE  EvidenceOf(u)'
    <3>1. pc'[u] = pc[u]
      BY <1>3, <2>1 DEF TypeOK
    <3>2. Live(u) => itemOf[u] \in Item /\ itemOf[u] # i
      BY <1>1, <2>1 DEF HasItem
    <3> QED
      BY <1>3, <2>1, <3>1, <3>2, EvidenceKept DEF EvidenceInv
  <2>2. ASSUME NEW k \in Item
        PROVE  EvidenceFor(k)'
    <3>1. CASE k = i
      BY <1>3, <3>1 DEF EvidenceFor
    <3>2. CASE k # i
      BY <1>3, <3>2, EvidenceStays DEF EvidenceInv
    <3> QED
      BY <3>1, <3>2
  <2> QED
    BY <1>3, <2>1, <2>2 DEF EvidenceInv
<1>4. run' = run => RunsGoOn
  BY DEF RunsGoOn
<1>5. ASSUME NEW l, Read(t, l), l \notin {"unused", "submit"}, EvidenceOf(t)'
      PROVE  EvidenceInv'
  BY <1>1, <1>3, <1>4, <1>5 DEF Read, TypeOK
<1>6. ASSUME NEW l, NEW r \in Row, Write(t, r, l), l \notin {"unused", "submit"},
             \A u \in Attempt : u # t => outcome'[u] = outcome[u],
             EvidenceOf(t)', row'[i].status # "passed" \/ EvidenceFor(i)'
      PROVE  EvidenceInv'
  BY <1>3, <1>4, <1>6 DEF Write, UpdateGroupItem, TypeOK
<1>7. ASSUME NEW l, Read(t, l)
      PROVE  /\ pc'[t] = l /\ copy'[t] = row[i] /\ outcome'[t] = outcome[t] /\ run' = run
             /\ UNCHANGED <<row, card, itemOf>>
  BY <1>7 DEF Read, TypeOK
<1>8. ASSUME NEW l, NEW r, Write(t, r, l)
      PROVE  /\ pc'[t] = l /\ row'[i] = r /\ run' = run
             /\ UNCHANGED <<card, itemOf>>
  BY <1>1, <1>8 DEF Write, UpdateGroupItem, TypeOK
<1> USE DEF EvidenceOf, Recorded, Rewriting
<1>9. CASE Submit(t)
  <2>1. run[t] = "none" /\ outcome[t] \notin {"completed", "pass"}
    BY <1>2, <1>9 DEF Submit
  <2>2. PICK l \in {"recordRead", "refuseRead"} : pc' = [pc EXCEPT ![t] = l]
    BY <1>9 DEF Submit
  <2>3. UNCHANGED <<row, card, itemOf, copy, outcome>>
    BY <1>9 DEF Submit
  <2>4. pc'[t] = l
    BY <2>2 DEF TypeOK
  <2>5. RunsGoOn
    BY <1>9, <2>1, <2>4 DEF Submit, RunsGoOn, TypeOK
  <2> QED
    BY <1>1, <1>3, <2>1, <2>2, <2>3, <2>4, <2>5
<1>10. CASE RecordRead(t)
  BY <1>2, <1>5, <1>7, <1>10 DEF RecordRead
<1>11. CASE RecordWrite(t)
  <2>1. RecordedRow(copy[t], t) \in Row
    BY <1>1, RowsAreRows DEF TypeOK
  <2>2. RecordedRow(copy[t], t).run = t /\ RecordedRow(copy[t], t).status = "running"
    BY <1>1 DEF RecordedRow, Row
  <2> QED
    BY <1>2, <1>6, <1>8, <1>11, <2>1, <2>2 DEF RecordWrite
<1>12. CASE WaitRun(t)
  <2>1. UNCHANGED <<row, card, itemOf, copy, run>>
    BY <1>12 DEF WaitRun
  <2>2. PICK l \in {"scoreRead", "poll"} :
          /\ pc' = [pc EXCEPT ![t] = l]
          /\ \/ outcome' = outcome
             \/ \E s \in Reported(run[t]) \cap RunEnded : outcome' = [outcome EXCEPT ![t] = s]
    BY <1>12 DEF WaitRun
  <2>3. pc[t] = "wait" /\ pc'[t] = l
    BY <1>12, <2>2 DEF WaitRun, TypeOK
  <2>4. outcome'[t] # "pass" /\ (outcome'[t] = "completed" => run[t] = "completed")
    BY <1>2, <2>2, <2>3 DEF Reported, RunEnded, TypeOK
  <2> QED
    BY <1>1, <1>2, <1>3, <1>4, <2>1, <2>2, <2>3, <2>4 DEF TypeOK
<1>13. CASE WaitItem(t)
  <2>1. CASE Read(t, "renewWrite")
    BY <1>2, <1>5, <1>7, <1>13, <2>1 DEF WaitItem
  <2>2. CASE ~ Read(t, "renewWrite") /\ UNCHANGED <<store, run, locals, counters>>
    <3>1. PICK l \in {"scoreRead", "failRead", "wait"} : pc' = [pc EXCEPT ![t] = l]
      BY <1>13, <2>2 DEF WaitItem
    <3>2. pc'[t] = l /\ pc[t] = "poll"
      BY <1>13, <3>1 DEF WaitItem, TypeOK
    <3> QED
      BY <1>1, <1>2, <1>3, <1>4, <2>2, <3>1, <3>2
  <2> QED
    BY <1>13, <2>1, <2>2 DEF WaitItem
<1>14. CASE RenewWrite(t)
  <2>1. RenewedRow(copy[t]) \in Row
    BY <1>1, RowsAreRows DEF TypeOK
  <2>2. RenewedRow(copy[t]).run = t
    BY <1>1, <1>2, <1>14 DEF RenewedRow, RenewWrite, Row
  <2>3. RenewedRow(copy[t]).status \in ActiveItem
    BY <1>1, <1>14 DEF RenewedRow, RenewWrite, RecInv, Consistent, Row
  <2> QED
    BY <1>2, <1>6, <1>8, <1>14, <2>1, <2>2, <2>3 DEF RenewWrite, ActiveItem
<1>15. CASE ScoreRead(t)
  <2>1. CASE Read(t, "scoreWrite")
    BY <1>2, <1>5, <1>7, <1>15, <2>1 DEF ScoreRead
  <2>2. CASE UNCHANGED <<store, run, locals, counters>> /\ pc' = [pc EXCEPT ![t] = "refGet"]
    <3>1. pc'[t] = "refGet" /\ pc[t] = "scoreRead"
      BY <1>15, <2>2 DEF ScoreRead, TypeOK
    <3> QED
      BY <1>1, <1>2, <1>3, <1>4, <2>2, <3>1
  <2> QED
    BY <1>15, <2>1, <2>2 DEF ScoreRead
<1>16. CASE ScoreWrite(t)
  <2>1. ScoringRow(copy[t]) \in Row
    BY <1>1, RowsAreRows DEF TypeOK
  <2>2. ScoringRow(copy[t]).run = t /\ ScoringRow(copy[t]).status = "scoring"
    BY <1>1, <1>2, <1>16 DEF ScoringRow, ScoreWrite, Row
  <2> QED
    BY <1>2, <1>6, <1>8, <1>16, <2>1, <2>2 DEF ScoreWrite
<1>17. CASE Score(t)
  <2>1. PICK v \in Verdicts(outcome[t]) :
          /\ card' = [card EXCEPT ![i] = [run |-> t, verdict |-> v]]
          /\ outcome' = [outcome EXCEPT ![t] = IF @ = "cancelled" THEN @ ELSE v]
    BY <1>17 DEF Score
  <2>2. /\ UNCHANGED <<row, itemOf, copy, run>> /\ pc[t] = "score"
        /\ pc' = [pc EXCEPT ![t] = "finalRead"] /\ pc'[t] = "finalRead"
    BY <1>17 DEF Score, TypeOK
  <2>3. card'[i] = [run |-> t, verdict |-> v]
    BY <1>1, <2>1 DEF TypeOK
  <2>4. /\ outcome'[t] # "completed"
        /\ outcome'[t] = "pass" => v = "pass" /\ outcome[t] = "completed"
    BY <2>1 DEF TypeOK, Verdicts, Verdict
  <2>5. EvidenceOf(t)'
    BY <1>2, <2>2, <2>3, <2>4 DEF Passes
  <2> QED
    BY <1>1, <1>3, <1>4, <2>1, <2>2, <2>5 DEF TypeOK
<1>18. CASE FinalRead(t)
  BY <1>2, <1>5, <1>7, <1>18 DEF FinalRead, Passes
<1>19. CASE FinalWrite(t)
  <2>1. outcome[t] \in Outcome /\ copy[t].run = t
    BY <1>2, <1>19 DEF FinalWrite, TypeOK
  <2>2. /\ FinalRow(copy[t], outcome[t]) \in Row
        /\ FinalRow(copy[t], outcome[t]).run = t
        /\ FinalRow(copy[t], outcome[t]).status = "passed" => outcome[t] = "pass"
    <3>1. FinalRow(copy[t], outcome[t]) \in Row
      BY <1>1, <2>1, RowsAreRows DEF TypeOK
    <3>2. \A x \in Row : /\ RequeuedRow(x, "valid").run = x.run
                        /\ RequeuedRow(x, "valid").status = "queued"
                        /\ \A s : /\ EndedRow(x, s).run = x.run
                                  /\ EndedRow(x, s).status = s
      BY DEF RequeuedRow, EndedRow, Row
    <3> QED
      BY <1>1, <2>1, <3>1, <3>2 DEF FinalRow, verdictToItemStatus
  <2>3. outcome'[t] = "none" /\ \A u \in Attempt : u # t => outcome'[u] = outcome[u]
    BY <1>19 DEF FinalWrite, TypeOK
  <2>4. EvidenceOf(t)'
    BY <1>8, <1>19, <2>3, EvidenceOver DEF FinalWrite, LivePC
  <2>5. row'[i].status # "passed" \/ EvidenceFor(i)'
    BY <1>2, <1>8, <1>19, <2>2 DEF FinalWrite, EvidenceFor, Passes
  <2> QED
    BY <1>6, <1>19, <2>2, <2>3, <2>4, <2>5 DEF FinalWrite
<1>20. ASSUME NEW l \in {"failWrite", "refuseWrite"}, NEW r,
              FailCard(t, r), pc' = [pc EXCEPT ![t] = l],
              l = "failWrite" => pc[t] = "failRead", outcome[t] # "pass"
       PROVE  EvidenceInv'
  <2>1. /\ UNCHANGED <<row, itemOf, run, outcome>> /\ copy'[t] = row[i] /\ pc'[t] = l
        /\ \A u \in Attempt : u # t => copy'[u] = copy[u]
        /\ \A k \in Item : k # i => card'[k] = card[k]
    BY <1>1, <1>20 DEF FailCard, TypeOK
  <2>2. EvidenceOf(t)'
    BY <1>2, <1>20, <2>1
  <2> QED
    BY <1>1, <1>3, <1>4, <1>20, <2>1, <2>2
<1>21. CASE FailRead(t) \/ RefuseRead(t)
  BY <1>2, <1>20, <1>21 DEF FailRead, RefuseRead
<1>22. CASE FailWrite(t) \/ RefuseWrite(t)
  <2>1. PICK b \in BOOLEAN : /\ Write(t, FailedRow(copy[t], b), "refGet")
                             /\ outcome' = outcome \/ outcome' = [outcome EXCEPT ![t] = "none"]
                             /\ pc[t] \in {"failWrite", "refuseWrite"}
    BY <1>22 DEF FailWrite, RefuseWrite
  <2>2. FailedRow(copy[t], b) \in Row
    BY <1>1, RowsAreRows DEF TypeOK
  <2>3. FailedRow(copy[t], b).status \in {"queued", "failed"}
    <3>1. \A x \in Row : /\ RequeuedRow(x, "valid").status = "queued"
                        /\ EndedRow(x, "failed").status = "failed"
      BY DEF RequeuedRow, EndedRow, Row
    <3>2. [copy[t] EXCEPT !.attempts = @ + 1] \in Row
      BY <1>1 DEF Row
    <3> QED
      BY <1>1, <3>1, <3>2 DEF FailedRow
  <2>4. EvidenceOf(t)'
    BY <1>2, <1>8, <2>1 DEF TypeOK
  <2>5. \A u \in Attempt : u # t => outcome'[u] = outcome[u]
    BY <2>1 DEF TypeOK
  <2> QED
    BY <1>6, <1>8, <2>1, <2>2, <2>3, <2>4, <2>5
<1> QED
  BY <1>9, <1>10, <1>11, <1>12, <1>13, <1>14, <1>15, <1>16, <1>17, <1>18, <1>19, <1>21, <1>22
     DEF processClaimedItem

(* A step that leaves the goroutines alone, and requeues nothing that one  *)
(* of them works on.                                                       *)
LEMMA EvidenceElsewhere ==
    ASSUME HasItem, EvidenceInv, RunsGoOn, UNCHANGED <<card, itemOf>>,
           \A t \in Attempt : pc'[t] = pc[t] /\ outcome'[t] = outcome[t] /\ copy'[t] = copy[t],
           \A i \in Item :
              \/ row'[i].status = row[i].status /\ row'[i].run = row[i].run
              \/ row'[i].status = "queued" /\ \A t \in Attempt : Live(t) => itemOf[t] # i
    PROVE  EvidenceInv'
<1>1. ASSUME NEW t \in Attempt
      PROVE  EvidenceOf(t)'
  <2>1. Live(t) => row'[itemOf[t]].run = row[itemOf[t]].run
    BY DEF HasItem
  <2> QED
    BY <2>1, EvidenceKept DEF EvidenceInv
<1>2. ASSUME NEW i \in Item
      PROVE  EvidenceFor(i)'
  BY EvidenceStays DEF EvidenceInv
<1> QED
  BY <1>1, <1>2 DEF EvidenceInv

LEMMA EvidenceLoops ==
    ASSUME Uncut, TypeOK, HasItem, OneInv, EvidenceInv, Dispatch \/ Serve
    PROVE  EvidenceInv'
<1> USE ProcTypes DEF store, locals, counters, Goto
<1>1. ASSUME NEW q \in Lister \ Attempt, NEW l, pc' = [pc EXCEPT ![q] = l],
             UNCHANGED <<card, run, itemOf, copy, outcome>>,
             \A i \in Item :
                \/ row'[i] = row[i]
                \/ row'[i].status = "queued" /\ \A t \in Attempt : Live(t) => itemOf[t] # i
      PROVE  EvidenceInv'
  <2>1. \A t \in Attempt : pc'[t] = pc[t]
    BY <1>1 DEF TypeOK
  <2>2. RunsGoOn
    BY <1>1 DEF RunsGoOn
  <2> QED
    BY <1>1, <2>1, <2>2, EvidenceElsewhere
(* A recovery or a retry requeues a row of its list.                       *)
<1>2. ASSUME NEW q \in {D} \cup Retries, NEW k \in DOMAIN worklist[q], NEW x,
             row' = [row EXCEPT ![k] = RequeuedRow(worklist[q][k], x)]
      PROVE  \A i \in Item :
                \/ row'[i] = row[i]
                \/ row'[i].status = "queued" /\ \A t \in Attempt : Live(t) => itemOf[t] # i
  <2>1. worklist[q][k] \in Row /\ k \in Item
    BY <1>2 DEF TypeOK, RowList
  <2>2. RequeuedRow(worklist[q][k], x).status = "queued"
    BY <2>1 DEF RequeuedRow, Row
  <2>3. \A t \in Attempt : Live(t) => itemOf[t] # k
    BY <1>2, WorkedOn
  <2> QED
    BY <1>2, <2>1, <2>2, <2>3 DEF TypeOK
<1>3. D \notin Attempt /\ \A q \in Retries : q \in Lister /\ q \notin Attempt
  OBVIOUS
<1>4. CASE Tick \/ RecoverList \/ Count \/ ClaimDone
  BY <1>1, <1>3, <1>4 DEF Tick, RecoverList, Count, ClaimDone
<1>5. CASE RecoverItem
  <2>1. PICK k \in Item :
          /\ First(DOMAIN worklist[D], k)
          /\ row' = [row EXCEPT ![k] = RequeuedRow(worklist[D][k], "none")]
          /\ pc' = [pc EXCEPT ![D] = IF Last(D, k) THEN "refGet" ELSE "recover"]
    BY <1>5 DEF RecoverItem, UpdateGroupItem
  <2>2. UNCHANGED <<card, run, itemOf, copy, outcome>>
    BY <1>5 DEF RecoverItem
  <2> QED
    BY <1>1, <1>2, <1>3, <2>1, <2>2 DEF First
<1>6. CASE Claim
  <2>1. PICK k \in Item, t \in Attempt :
          /\ First(Claimable, k) /\ First(Unused, t)
          /\ row' = [row EXCEPT ![k] = ClaimedRow(row[k])]
          /\ itemOf' = [itemOf EXCEPT ![t] = k]
          /\ pc' = [pc EXCEPT ![t] = "submit"]
    BY <1>6 DEF Claim, UpdateGroupItem
  <2>2. UNCHANGED <<card, run, copy, outcome>>
    BY <1>6 DEF Claim
  <2>3. row[k].status = "queued" /\ row[k] \in Row /\ pc[t] = "unused" /\ pc'[t] = "submit"
    BY <2>1 DEF First, Claimable, Unused, TypeOK
  <2>4. row'[k].status = "running"
    BY <2>1, <2>3 DEF TypeOK, ClaimedRow, Row
  <2>5. RunsGoOn
    BY <2>2 DEF RunsGoOn
  <2>6. EvidenceOf(t)'
    BY <2>2, <2>3 DEF EvidenceInv, EvidenceOf, Recorded, Rewriting
  <2>7. ASSUME NEW u \in Attempt, u # t
        PROVE  EvidenceOf(u)'
    <3>1. pc'[u] = pc[u] /\ itemOf'[u] = itemOf[u]
      BY <2>1, <2>7 DEF TypeOK
    <3>2. Live(u) => itemOf[u] # k
      BY <2>3, WorkedOn
    <3>3. Live(u) => row'[itemOf[u]] = row[itemOf[u]]
      BY <2>1, <3>2 DEF HasItem, TypeOK
    <3> QED
      BY <2>2, <2>5, <3>1, <3>3, EvidenceKept DEF EvidenceInv
  <2>8. ASSUME NEW i \in Item
        PROVE  EvidenceFor(i)'
    <3>1. row'[i].status # "passed" \/ row'[i] = row[i]
      BY <2>1, <2>4 DEF TypeOK
    <3> QED
      BY <2>2, <2>5, <3>1, EvidenceStays DEF EvidenceInv
  <2> QED
    BY <2>6, <2>7, <2>8 DEF EvidenceInv
<1>7. ASSUME NEW q \in Retries, RetryList(q) \/ RetryGroup(q)
      PROVE  EvidenceInv'
  BY <1>1, <1>3, <1>7 DEF RetryList, RetryGroup, List
<1>8. ASSUME NEW q \in Retries, RetryRow(q)
      PROVE  EvidenceInv'
  <2>1. PICK k \in Item :
          /\ First(DOMAIN worklist[q], k)
          /\ row' = [row EXCEPT ![k] = RequeuedRow(worklist[q][k], "valid")]
          /\ pc' = [pc EXCEPT ![q] = IF Last(q, k) THEN "retryGroup" ELSE "retryRow"]
    BY <1>8 DEF RetryRow, UpdateGroupItem
  <2>2. UNCHANGED <<card, run, itemOf, copy, outcome>>
    BY <1>8 DEF RetryRow
  <2> QED
    BY <1>1, <1>2, <1>3, <2>1, <2>2 DEF First
<1> QED
  BY <1>4, <1>5, <1>6, <1>7, <1>8 DEF Dispatch, Serve, Uncut

LEMMA EvidenceWorld ==
    ASSUME TypeOK, HasItem, EvidenceInv,
           \/ \E t \in Attempt : RunEnds(t)
           \/ \E p \in Proc : refreshGroupSummary(p) \/ Fault(p)
           \/ \E i \in Item : LeaseExpires(i)
           \/ Crash
           \/ UNCHANGED vars
    PROVE  EvidenceInv'
<1> USE ProcTypes DEF store, locals, counters, Goto
<1>1. ASSUME NEW t \in Attempt, RunEnds(t)
      PROVE  EvidenceInv'
  <2>1. /\ UNCHANGED <<row, card, pc, itemOf, copy, outcome>>
        /\ run[t] \in {"running", "cancelling"}
        /\ \A u \in Attempt : u # t => run'[u] = run[u]
    BY <1>1 DEF RunEnds, TypeOK
  <2>2. RunsGoOn
    BY <2>1 DEF RunsGoOn, EvidenceInv, EvidenceOf
  <2> QED
    BY <2>1, <2>2, EvidenceElsewhere
<1>2. ASSUME NEW i \in Item, LeaseExpires(i)
      PROVE  EvidenceInv'
  <2>1. UNCHANGED <<card, run, pc, itemOf, copy, outcome>>
    BY <1>2 DEF LeaseExpires
  <2>2. \A k \in Item : row'[k].status = row[k].status /\ row'[k].run = row[k].run
    BY <1>2 DEF LeaseExpires, UpdateGroupItem, TypeOK, Row
  <2>3. RunsGoOn
    BY <2>1 DEF RunsGoOn
  <2> QED
    BY <2>1, <2>2, <2>3, EvidenceElsewhere
(* One process goes on, and if it is a goroutine, it no longer holds rows, *)
(* or knows no more than before.                                           *)
<1>3. ASSUME NEW p \in Proc, NEW l, l \notin {"unused", "submit"}, pc' = [pc EXCEPT ![p] = l],
             UNCHANGED <<row, card, run, itemOf>>,
             \A t \in Attempt : t # p => outcome'[t] = outcome[t] /\ copy'[t] = copy[t],
             p \in Attempt => EvidenceOf(p)'
      PROVE  EvidenceInv'
  <2>1. RunsGoOn
    BY <1>3 DEF RunsGoOn
  <2>2. ASSUME NEW t \in Attempt
        PROVE  EvidenceOf(t)'
    <3>1. CASE t = p
      BY <1>3, <3>1
    <3>2. CASE t # p
      <4>1. pc'[t] = pc[t]
        BY <1>3, <3>2 DEF TypeOK
      <4> QED
        BY <1>3, <2>1, <3>2, <4>1, EvidenceKept DEF EvidenceInv
    <3> QED
      BY <3>1, <3>2
  <2>3. ASSUME NEW i \in Item
        PROVE  EvidenceFor(i)'
    BY <1>3, <2>1, EvidenceStays DEF EvidenceInv
  <2> QED
    BY <2>2, <2>3 DEF EvidenceInv
<1>4. ASSUME NEW p \in Proc, refreshGroupSummary(p)
      PROVE  EvidenceInv'
  <2>1. PICK l \in {"refList", "refWrite", "done", "count", "idle"} :
          pc' = [pc EXCEPT ![p] = l]
    BY <1>4 DEF refreshGroupSummary, RefreshGet, RefreshList, RefreshWrite, AfterRefresh
  <2>2. /\ UNCHANGED <<row, card, run, itemOf, copy, outcome>>
        /\ pc[p] \in {"refGet", "refList", "refWrite"} /\ pc'[p] = l
    BY <1>4, <2>1 DEF refreshGroupSummary, RefreshGet, RefreshList, RefreshWrite, TypeOK
  <2>3. p \in Attempt => EvidenceOf(p)'
    BY <2>2 DEF EvidenceInv, EvidenceOf, Recorded, Rewriting
  <2> QED
    BY <1>3, <2>1, <2>2, <2>3
<1>5. ASSUME NEW p \in Proc, Fault(p)
      PROVE  EvidenceInv'
  <2>1. /\ pc' = [pc EXCEPT ![p] = FaultLeadsTo(p)] /\ pc'[p] = FaultLeadsTo(p)
        /\ UNCHANGED <<row, card, run, itemOf>>
        /\ pc[p] \notin {"unused", "finalRead", "failRead"}
    BY <1>5 DEF Fault, TypeOK
  <2>2. \A t \in Attempt : t # p => outcome'[t] = outcome[t] /\ copy'[t] = copy[t]
    BY <1>5 DEF Fault, TypeOK
  <2>3. FaultLeadsTo(p) \in {"refGet", "failRead", "wait", "idle", "done"}
    BY DEF FaultLeadsTo
  <2>4. ASSUME p \in Attempt
        PROVE  EvidenceOf(p)'
    <3>1. p # D
      BY <2>4
    <3>2. CASE pc[p] \in {"score", "renewWrite"}
      <4>1. pc'[p] \in {"failRead", "wait"} /\ outcome'[p] = outcome[p]
        BY <1>5, <2>1, <3>1, <3>2 DEF Fault, FaultLeadsTo
      <4> QED
        BY <2>1, <2>4, <3>2, <4>1 DEF EvidenceInv, EvidenceOf, Recorded, Rewriting
    <3>3. CASE pc[p] \notin {"score", "renewWrite"}
      <4>1. FaultLeadsTo(p) \in {"refGet", "done"}
        BY <3>1, <3>3 DEF FaultLeadsTo
      <4>2. outcome'[p] = "none"
        BY <1>5, <2>4, <3>1, <4>1 DEF Fault, TypeOK
      <4> QED
        BY <2>1, <2>4, <4>1, <4>2, EvidenceOver DEF LivePC
    <3> QED
      BY <3>2, <3>3
  <2> QED
    BY <1>3, <2>1, <2>2, <2>3, <2>4
<1>6. CASE Crash
  <2>1. UNCHANGED <<row, card, itemOf>>
    BY <1>6 DEF Crash
  <2>2. \A t \in Attempt : /\ outcome'[t] = "none"
                           /\ \/ pc'[t] = "done"
                              \/ pc[t] = "unused" /\ pc'[t] = "unused"
                              \/ pc[t] = "start" /\ pc'[t] = "start"
                           /\ run[t] \in {"none", "completed"} => run'[t] = run[t]
    BY <1>6 DEF Crash
  <2>3. RunsGoOn
    BY <2>2 DEF RunsGoOn
  <2>4. ASSUME NEW t \in Attempt
        PROVE  EvidenceOf(t)'
    <3>1. pc[t] = "unused" => run[t] = "none"
      BY DEF EvidenceInv, EvidenceOf
    <3>2. /\ outcome'[t] = "none" /\ pc'[t] \in {"done", "unused", "start"}
          /\ pc'[t] = "unused" => run'[t] = "none"
      BY <2>2, <3>1
    <3> QED
      BY <3>2 DEF EvidenceOf, Recorded, Rewriting
  <2>5. \A i \in Item : EvidenceFor(i)'
    BY <2>1, <2>3, EvidenceStays DEF EvidenceInv
  <2> QED
    BY <2>4, <2>5 DEF EvidenceInv
<1>7. CASE UNCHANGED vars
  <2>1. RunsGoOn
    BY <1>7 DEF RunsGoOn, vars
  <2> QED
    BY <1>7, <2>1, EvidenceElsewhere DEF vars
<1> QED
  BY <1>1, <1>2, <1>4, <1>5, <1>6, <1>7

LEMMA EvidenceAlways == ASSUME Uncut PROVE Spec => []EvidenceInv
<1>1. Init => EvidenceInv
  <2> SUFFICES ASSUME Init PROVE EvidenceInv
    OBVIOUS
  <2>1. \A t \in Attempt : pc[t] = "unused" /\ run[t] = "none" /\ outcome[t] = "none"
    BY ProcTypes DEF Init
  <2>2. \A i \in Item : row[i].status = "queued"
    BY DEF Init, BlankRow
  <2> QED
    BY <2>1, <2>2 DEF EvidenceInv, EvidenceOf, EvidenceFor, Recorded, Rewriting
<1>2. TypeOK /\ HasItem /\ RecInv /\ OneInv /\ EvidenceInv /\ [Next]_vars => EvidenceInv'
  BY EvidenceAttempt, EvidenceLoops, EvidenceWorld DEF Next
<1>3. Calm
  BY DEF Uncut
<1> QED
  BY <1>1, <1>2, <1>3, TypeCorrect, RecAlways, OneAlways, PTL DEF Spec

(* Through crashes, failing calls, recoveries and a retry, an item is      *)
(* shown as passed only if finalizeAttempt found a card that passes the    *)
(* very run which the row names, and that run completed and stays so.      *)
THEOREM PassesOnEvidence == ASSUME Uncut PROVE Spec => []EvidenceMatches
<1>1. EvidenceInv => EvidenceMatches
  BY DEF EvidenceInv, EvidenceFor, Passes, EvidenceMatches
<1> QED
  BY <1>1, EvidenceAlways, PTL

-----------------------------------------------------------------------------
(***************************************************************************)
(* AttemptsBounded.  A count is raised only by the goroutine that a claim  *)
(* made, and a claim finds a row below the bound; but rows are written     *)
(* back from copies, so a stale copy could bring a lower count back, and   *)
(* another one the higher count after the next claim.  The invariant       *)
(* bounds every count under way, and says that nothing under way is older  *)
(* than the row which a cancel or a report may still write.                *)
(***************************************************************************)
Cutters == Cancels \cup Reports

SoleCut == Calm /\ \A p, q \in Cutters : p = q

Bound(i) == MaxAttempts + recovered[i]

(* A goroutine that has still to count its attempt, and one with a copy.   *)
Early(t)  == pc[t] \in {"submit", "recordRead", "refuseRead"}
Writes(t) == pc[t] \in {"recordWrite", "renewWrite", "scoreWrite", "finalWrite",
                        "failWrite", "refuseWrite"}
Counts(t) == pc[t] \in {"recordWrite", "refuseWrite"}

(* No count of i that others have under way is below n.                    *)
NoOlder(n, i) ==
    /\ \A t \in Attempt : Writes(t) /\ itemOf[t] = i => n <= copy[t].attempts
    /\ \A p \in {D} \cup Retries : i \in DOMAIN worklist[p] => n <= worklist[p][i].attempts

RowCount(i) == /\ row[i].attempts <= Bound(i)
               /\ row[i].status = "queued" => row[i].attempts < Bound(i)

AttemptCount(t, i) ==
    itemOf[t] = i => /\ Early(t) => row[i].attempts < Bound(i)
                     /\ Writes(t) => copy[t].attempts <= Bound(i)
                     /\ Counts(t) => copy[t].attempts < Bound(i)

LoopCount(i) ==
    /\ i \in DOMAIN worklist[D] => worklist[D][i].attempts <= Bound(i)
    /\ \A q \in Retries : i \in DOMAIN worklist[q] => worklist[q][i].attempts < MaxAttempts

CutterCount(q, i) ==
    /\ pc[q] = "start" => NoOlder(row[i].attempts, i)
    /\ i \in DOMAIN worklist[q] => /\ worklist[q][i].attempts <= row[i].attempts
                                   /\ NoOlder(worklist[q][i].attempts, i)

CountOf(i) == /\ RowCount(i)
              /\ \A t \in Attempt : AttemptCount(t, i)
              /\ LoopCount(i)
              /\ \A q \in Cutters : CutterCount(q, i)

CountInv == \A i \in Item : CountOf(i)

LEMMA CountTypes ==
    ASSUME TypeOK
    PROVE  /\ \A i \in Item : row[i].attempts \in Nat /\ Bound(i) \in Nat
           /\ \A t \in Attempt : copy[t].attempts \in Nat
           /\ \A q \in Lister : \A i \in DOMAIN worklist[q] : worklist[q][i].attempts \in Nat
<1>1. \A q \in Lister : \A i \in DOMAIN worklist[q] : worklist[q][i] \in Row
  BY DEF TypeOK, RowList
<1> QED
  BY <1>1, ConfigAssumption DEF TypeOK, Bound, Row

(* What a step that does not write the row of i may take under way: what   *)
(* was so already, or the row as it is.                                    *)
SameOrRead(i) ==
    /\ \A t \in Attempt : itemOf'[t] = i =>
        /\ Early(t)' => row[i].status = "queued" \/ (Early(t) /\ itemOf[t] = i)
        /\ Writes(t)' => itemOf[t] = i /\ \/ Writes(t) /\ copy'[t] = copy[t] /\ pc'[t] = pc[t]
                                          \/ copy'[t] = row[i] /\ (Counts(t)' => Early(t))
    /\ \A p \in {D} \cup Retries : i \in DOMAIN worklist'[p] =>
        \/ i \in DOMAIN worklist[p] /\ worklist'[p][i] = worklist[p][i]
        \/ worklist'[p][i] = row[i] /\ (p \in Retries => row[i].attempts < MaxAttempts)
    /\ \A q \in Cutters :
        /\ pc'[q] = "start" => pc[q] = "start"
        /\ i \in DOMAIN worklist'[q] =>
            \/ i \in DOMAIN worklist[q] /\ worklist'[q][i] = worklist[q][i]
            \/ worklist'[q][i] = row[i] /\ pc[q] = "start"

LEMMA CountReads ==
    ASSUME TypeOK, TypeOK', NEW i \in Item, CountOf(i), SameOrRead(i),
           row'[i].attempts = row[i].attempts, recovered'[i] = recovered[i],
           row'[i].status = row[i].status \/ row'[i].status # "queued"
    PROVE  CountOf(i)'
<1>1. Bound(i)' = Bound(i) /\ Bound(i) \in Nat /\ row[i].attempts \in Nat
  BY CountTypes DEF Bound
<1>2. RowCount(i)'
  BY <1>1 DEF CountOf, RowCount
<1>3. ASSUME NEW t \in Attempt
      PROVE  AttemptCount(t, i)'
  <2>1. Counts(t)' => Writes(t)'
    BY DEF Counts, Writes
  <2> QED
    BY <1>1, <2>1 DEF CountOf, RowCount, AttemptCount, SameOrRead, Counts
<1>4. LoopCount(i)'
  BY <1>1 DEF CountOf, RowCount, LoopCount, SameOrRead
<1>5. ASSUME NEW n, n <= row[i].attempts, NoOlder(n, i)
      PROVE  NoOlder(n, i)'
  BY <1>5 DEF NoOlder, SameOrRead
<1>6. ASSUME NEW q \in Cutters
      PROVE  CutterCount(q, i)'
  <2>1. CutterCount(q, i)
    BY DEF CountOf
  <2>2. row[i].attempts <= row[i].attempts
    BY <1>1
  <2> QED
    BY <1>5, <2>1, <2>2 DEF CutterCount, SameOrRead
<1> QED
  BY <1>2, <1>3, <1>4, <1>6 DEF CountOf

(* The row of i is written by the only one that has it under way, apart    *)
(* from a cancel or a report.                                              *)
LEMMA CountWrites ==
    ASSUME TypeOK, TypeOK', NEW i \in Item, CountOf(i), NEW m,
           row'[i].attempts = m, recovered'[i] >= recovered[i], RowCount(i)',
           \A t \in Attempt : itemOf'[t] = i => ~ Early(t)' /\ ~ Writes(t)',
           \A p \in {D} \cup Retries : i \notin DOMAIN worklist'[p],
           \A q \in Cutters :
              /\ pc'[q] = pc[q] /\ worklist'[q] = worklist[q]
              /\ i \in DOMAIN worklist[q] => worklist[q][i].attempts <= m
    PROVE  CountOf(i)'
<1>1. \A t \in Attempt : AttemptCount(t, i)'
  BY DEF AttemptCount, Counts, Writes
<1>2. LoopCount(i)'
  BY DEF LoopCount
<1>3. \A n : NoOlder(n, i)'
  BY DEF NoOlder
<1>4. \A q \in Cutters : CutterCount(q, i)'
  BY <1>3 DEF CutterCount
<1> QED
  BY <1>1, <1>2, <1>4 DEF CountOf

(* A step that does not touch what is under way for k.                     *)
LEMMA Unmoved ==
    ASSUME NEW k \in Item,
           \A u \in Attempt : itemOf'[u] = k /\ (Early(u)' \/ Writes(u)') =>
              itemOf[u] = k /\ pc'[u] = pc[u] /\ copy'[u] = copy[u],
           \A q \in {D} \cup Retries \cup Cutters : k \in DOMAIN worklist'[q] =>
              k \in DOMAIN worklist[q] /\ worklist'[q][k] = worklist[q][k],
           \A q \in Cutters : pc'[q] = "start" => pc[q] = "start"
    PROVE  SameOrRead(k)
<1>1. ASSUME NEW u \in Attempt, itemOf'[u] = k
      PROVE  /\ Early(u)' => Early(u) /\ itemOf[u] = k
             /\ Writes(u)' => Writes(u) /\ itemOf[u] = k /\ copy'[u] = copy[u] /\ pc'[u] = pc[u]
  BY <1>1 DEF Early, Writes
<1>2. /\ \A p \in {D} \cup Retries : k \in DOMAIN worklist'[p] =>
            k \in DOMAIN worklist[p] /\ worklist'[p][k] = worklist[p][k]
      /\ \A q \in Cutters : k \in DOMAIN worklist'[q] =>
            k \in DOMAIN worklist[q] /\ worklist'[q][k] = worklist[q][k]
  OBVIOUS
<1> QED
  BY <1>1, <1>2 DEF SameOrRead

(* A goroutine reads the row that it is about to count, and writes back a  *)
(* count no lower than the copy it holds.                                  *)
LEMMA CountAttempt ==
    ASSUME Calm, TypeOK, TypeOK', HasItem, RecInv, OneInv, CountInv,
           NEW t \in Attempt, processClaimedItem(t)
    PROVE  CountInv'
<1> USE ProcTypes DEF store, locals, counters, Goto
<1>i. PICK i \in Item : i = itemOf[t]
  BY ClaimedItems
<1>1. /\ Live(t) /\ itemOf[t] = i /\ copy[t] \in Row
      /\ \A u \in Attempt : Live(u) /\ itemOf[u] = i => u = t
      /\ \A p \in {D} \cup Retries : i \notin DOMAIN worklist[p]
      /\ Cutters \subseteq Lister
      /\ CountOf(i)
  BY <1>i, ClaimedItems DEF TypeOK, OneInv, OneAttemptPerItem, Untouched, Cutters, CountInv
<1>2. \A u \in Attempt : Early(u) \/ Writes(u) => Live(u)
  BY DEF Early, Writes, Live, LivePC
<1>3. ASSUME NEW l, pc' = [pc EXCEPT ![t] = l], UNCHANGED <<row, itemOf, worklist, recovered>>,
             l \in {"submit", "recordRead", "refuseRead"} => Early(t),
             \A u \in Attempt : u # t => copy'[u] = copy[u],
             Writes(t)' => copy'[t] = row[i] /\ (Counts(t)' => Early(t))
      PROVE  CountInv'
  <2>1. /\ pc'[t] = l /\ \A p \in Proc : p # t => pc'[p] = pc[p]
        /\ Cutters \cap Attempt = {} /\ Cutters \subseteq Proc
    BY <1>3 DEF TypeOK, Cutters
  <2>2. ASSUME NEW k \in Item
        PROVE  SameOrRead(k)
    BY <1>1, <1>3, <2>1 DEF SameOrRead, Early, Writes
  <2> QED
    BY <1>3, <2>2, CountReads DEF CountInv
<1>4. ASSUME NEW l, NEW r \in Row, Write(t, r, l), l \in LivePC \cup {"refGet"},
             l \notin {"submit", "recordRead", "refuseRead"},
             ~ Writes(t)', Writes(t), copy[t].attempts <= r.attempts,
             r.attempts <= Bound(i), r.status = "queued" => r.attempts < Bound(i)
      PROVE  CountInv'
  <2>1. /\ row' = [row EXCEPT ![i] = r] /\ pc' = [pc EXCEPT ![t] = l]
        /\ copy' = [copy EXCEPT ![t] = BlankRow]
        /\ UNCHANGED <<itemOf, worklist, recovered>>
    BY <1>1, <1>4 DEF Write, UpdateGroupItem
  <2>2. /\ pc'[t] = l /\ row'[i] = r
        /\ \A p \in Proc : p # t => pc'[p] = pc[p]
        /\ \A u \in Attempt : u # t => copy'[u] = copy[u]
        /\ \A k \in Item : k # i => row'[k] = row[k]
        /\ Cutters \cap Attempt = {} /\ Cutters \subseteq Proc
    BY <1>1, <2>1 DEF TypeOK, Cutters
  <2>3. ASSUME NEW k \in Item, k # i
        PROVE  CountOf(k)'
    <3>1. SameOrRead(k)
      BY <1>1, <2>1, <2>2, <2>3, Unmoved
    <3> QED
      BY <2>1, <2>2, <2>3, <3>1, CountReads DEF CountInv
  <2>4. \A u \in Attempt : itemOf'[u] = i => ~ Early(u)' /\ ~ Writes(u)'
    BY <1>1, <1>2, <1>4, <2>1, <2>2 DEF Early, Writes
  <2>5. RowCount(i)'
    BY <1>4, <2>1, <2>2 DEF RowCount, Bound
  <2>6. ASSUME NEW q \in Cutters, i \in DOMAIN worklist[q]
        PROVE  worklist[q][i].attempts <= r.attempts
    <3>1. worklist[q][i].attempts <= copy[t].attempts
      BY <1>1, <1>4, <2>6 DEF CountOf, CutterCount, NoOlder
    <3>2. worklist[q][i].attempts \in Nat /\ copy[t].attempts \in Nat /\ r.attempts \in Nat
      BY <1>1, <2>6, CountTypes DEF Row
    <3> QED
      BY <1>4, <3>1, <3>2
  <2>7. recovered'[i] >= recovered[i]
    BY <1>1, <2>1 DEF TypeOK
  <2>8. CountOf(i)'
    BY <1>1, <2>1, <2>2, <2>4, <2>5, <2>6, <2>7, CountWrites
  <2> QED
    BY <2>3, <2>8 DEF CountInv
<1>5. ASSUME NEW l, Read(t, l), l \in LivePC, l \notin {"submit", "recordRead", "refuseRead"},
             l \in {"recordWrite", "refuseWrite"} => Early(t)
      PROVE  CountInv'
  <2>1. /\ pc' = [pc EXCEPT ![t] = l] /\ copy' = [copy EXCEPT ![t] = row[i]]
        /\ UNCHANGED <<row, itemOf, worklist, recovered>>
    BY <1>1, <1>5 DEF Read
  <2>2. pc'[t] = l /\ copy'[t] = row[i] /\ \A u \in Attempt : u # t => copy'[u] = copy[u]
    BY <2>1 DEF TypeOK
  <2> QED
    BY <1>3, <1>5, <2>1, <2>2 DEF Counts
<1>6. ASSUME NEW l, pc' = [pc EXCEPT ![t] = l], UNCHANGED <<row, itemOf, copy, worklist, recovered>>,
             l \in {"recordRead", "refuseRead"} => Early(t), l # "submit",
             l \notin {"recordWrite", "renewWrite", "scoreWrite", "finalWrite", "failWrite",
                       "refuseWrite"}
      PROVE  CountInv'
  <2>1. ~ Writes(t)'
    BY <1>6 DEF Writes, TypeOK
  <2> QED
    BY <1>3, <1>6, <2>1
(* What the writers of a row make of its count.                            *)
<1>7. /\ copy[t].attempts \in Nat /\ row[i].attempts \in Nat /\ MaxAttempts \in Nat
      /\ recovered[i] \in Nat /\ MaxAttempts <= Bound(i) /\ Bound(i) \in Nat
      /\ Writes(t) => copy[t].attempts <= Bound(i)
      /\ Counts(t) => copy[t].attempts < Bound(i)
  BY <1>1, CountTypes, ConfigAssumption DEF TypeOK, Bound, CountOf, AttemptCount
<1>8. \A x \in Row : /\ RequeuedRow(x, "valid").attempts = x.attempts
                    /\ RequeuedRow(x, "valid").status = "queued"
                    /\ \A s : /\ EndedRow(x, s).attempts = x.attempts
                              /\ EndedRow(x, s).status = s
  BY DEF RequeuedRow, EndedRow, Row
<1>9. CASE Submit(t)
  <2>1. PICK l \in {"recordRead", "refuseRead"} : pc' = [pc EXCEPT ![t] = l]
    BY <1>9 DEF Submit
  <2> QED
    BY <1>6, <1>9, <2>1 DEF Submit, Early
<1>10. CASE RecordRead(t)
  BY <1>5, <1>10 DEF RecordRead, Early, LivePC
<1>11. CASE RecordWrite(t)
  <2>1. RecordedRow(copy[t], t) \in Row
    BY <1>1, RowsAreRows DEF TypeOK
  <2>2. /\ RecordedRow(copy[t], t).attempts = copy[t].attempts + 1
        /\ RecordedRow(copy[t], t).status = "running"
    BY <1>1 DEF RecordedRow, Row
  <2>3. Writes(t) /\ Counts(t) /\ ~ Writes(t)'
    BY <1>11 DEF RecordWrite, Write, Writes, Counts, TypeOK
  <2> QED
    BY <1>4, <1>7, <1>11, <2>1, <2>2, <2>3 DEF RecordWrite, LivePC
<1>12. CASE WaitRun(t)
  <2>1. PICK l \in {"scoreRead", "poll"} : pc' = [pc EXCEPT ![t] = l]
    BY <1>12 DEF WaitRun
  <2> QED
    BY <1>6, <1>12, <2>1 DEF WaitRun
<1>13. CASE WaitItem(t)
  <2>1. CASE Read(t, "renewWrite")
    BY <1>5, <2>1 DEF LivePC
  <2>2. CASE ~ Read(t, "renewWrite")
    <3>1. PICK l \in {"scoreRead", "failRead", "wait"} : pc' = [pc EXCEPT ![t] = l]
      BY <1>13, <2>2 DEF WaitItem
    <3> QED
      BY <1>6, <1>13, <2>2, <3>1 DEF WaitItem
  <2> QED
    BY <2>1, <2>2
<1>14. CASE RenewWrite(t)
  <2>1. RenewedRow(copy[t]) \in Row
    BY <1>1, RowsAreRows DEF TypeOK
  <2>2. RenewedRow(copy[t]).attempts = copy[t].attempts
    BY <1>1 DEF RenewedRow, Row
  <2>3. Writes(t) /\ ~ Writes(t)'
    BY <1>14 DEF RenewWrite, Write, Writes, TypeOK
  <2>4. RenewedRow(copy[t]).status # "queued"
    BY <1>1, <1>14 DEF RenewWrite, RecInv, Consistent, RenewedRow, Row, ActiveItem
  <2> QED
    BY <1>4, <1>7, <1>14, <2>1, <2>2, <2>3, <2>4 DEF RenewWrite, LivePC
<1>15. CASE ScoreRead(t)
  <2>1. CASE Read(t, "scoreWrite")
    BY <1>5, <2>1 DEF LivePC
  <2>2. CASE ~ Read(t, "scoreWrite")
    BY <1>6, <1>15, <2>2 DEF ScoreRead
  <2> QED
    BY <2>1, <2>2
<1>16. CASE ScoreWrite(t)
  <2>1. ScoringRow(copy[t]) \in Row
    BY <1>1, RowsAreRows DEF TypeOK
  <2>2. /\ ScoringRow(copy[t]).attempts = copy[t].attempts
        /\ ScoringRow(copy[t]).status = "scoring"
    BY <1>1 DEF ScoringRow, Row
  <2>3. Writes(t) /\ ~ Writes(t)'
    BY <1>16 DEF ScoreWrite, Write, Writes, TypeOK
  <2> QED
    BY <1>4, <1>7, <1>16, <2>1, <2>2, <2>3 DEF ScoreWrite, LivePC
<1>17. CASE Score(t)
  BY <1>6, <1>17 DEF Score
<1>18. CASE FinalRead(t)
  BY <1>5, <1>18 DEF FinalRead, LivePC
<1>19. CASE FinalWrite(t)
  <2>1. outcome[t] \in Outcome
    BY DEF TypeOK
  <2>2. /\ FinalRow(copy[t], outcome[t]) \in Row
        /\ FinalRow(copy[t], outcome[t]).attempts = copy[t].attempts
        /\ FinalRow(copy[t], outcome[t]).status = "queued" => copy[t].attempts < MaxAttempts
    <3>1. FinalRow(copy[t], outcome[t]) \in Row
      BY <1>1, <2>1, RowsAreRows DEF TypeOK
    <3> QED
      BY <1>1, <1>8, <3>1 DEF FinalRow, verdictToItemStatus, shouldRetryAttempt
  <2>3. Writes(t) /\ ~ Writes(t)'
    BY <1>19 DEF FinalWrite, Write, Writes, TypeOK
  <2> QED
    BY <1>4, <1>7, <1>19, <2>2, <2>3 DEF FinalWrite
<1>20. ASSUME NEW l \in {"failWrite", "refuseWrite"}, NEW r,
              FailCard(t, r), pc' = [pc EXCEPT ![t] = l], l = "refuseWrite" => Early(t)
       PROVE  CountInv'
  <2>1. /\ copy'[t] = row[i] /\ pc'[t] = l
        /\ \A u \in Attempt : u # t => copy'[u] = copy[u]
        /\ UNCHANGED <<row, itemOf, worklist, recovered>>
    BY <1>1, <1>20 DEF FailCard, TypeOK
  <2> QED
    BY <1>3, <1>20, <2>1 DEF Counts
<1>21. CASE FailRead(t) \/ RefuseRead(t)
  BY <1>20, <1>21 DEF FailRead, RefuseRead, Early
<1>22. CASE FailWrite(t) \/ RefuseWrite(t)
  <2>1. PICK b \in BOOLEAN : /\ Write(t, FailedRow(copy[t], b), "refGet")
                             /\ b => Counts(t)
                             /\ Writes(t)
    BY <1>22 DEF FailWrite, RefuseWrite, Counts, Writes
  <2>2. FailedRow(copy[t], b) \in Row
    BY <1>1, RowsAreRows DEF TypeOK
  <2>3. /\ FailedRow(copy[t], b).attempts = IF b THEN copy[t].attempts + 1 ELSE copy[t].attempts
        /\ FailedRow(copy[t], b).status = "queued" => FailedRow(copy[t], b).attempts < MaxAttempts
    <3>1. /\ [copy[t] EXCEPT !.attempts = @ + 1] \in Row
          /\ [copy[t] EXCEPT !.attempts = @ + 1].attempts = copy[t].attempts + 1
      BY <1>1 DEF Row
    <3>2. CASE b
      <4> DEFINE c == [copy[t] EXCEPT !.attempts = @ + 1]
      <4>1. FailedRow(copy[t], b) = IF c.attempts < MaxAttempts THEN RequeuedRow(c, "valid")
                                                               ELSE EndedRow(c, "failed")
        BY <3>2 DEF FailedRow, shouldRetryAttempt
      <4>2. c \in Row /\ c.attempts = copy[t].attempts + 1
        BY <3>1
      <4> HIDE DEF c
      <4>3. FailedRow(copy[t], b).attempts = c.attempts
        BY <1>8, <4>1, <4>2
      <4>4. FailedRow(copy[t], b).status = "queued" => c.attempts < MaxAttempts
        BY <1>8, <4>1, <4>2
      <4> QED
        BY <3>2, <4>2, <4>3, <4>4
    <3>3. CASE ~b
      BY <1>1, <1>8, <3>3 DEF FailedRow, shouldRetryAttempt
    <3> QED
      BY <3>2, <3>3
  <2>4. ~ Writes(t)'
    BY <2>1 DEF Write, Writes, TypeOK
  <2> QED
    BY <1>4, <1>7, <2>1, <2>2, <2>3, <2>4
<1> QED
  BY <1>9, <1>10, <1>11, <1>12, <1>13, <1>14, <1>15, <1>16, <1>17, <1>18, <1>19, <1>21, <1>22
     DEF processClaimedItem

(* A loop takes i, the first row of its list, and goes on to l.            *)
TakesFirst(q, i, l) ==
    /\ i \in DOMAIN worklist[q] /\ l # "start" /\ pc[q] # "start"
    /\ pc' = [pc EXCEPT ![q] = l]
    /\ worklist' = [worklist EXCEPT ![q] = Without(@, i)]
    /\ \A k \in Item : k # i => row'[k] = row[k] /\ recovered'[k] = recovered[k]
    /\ UNCHANGED <<itemOf, copy>>

LEMMA CountLoops ==
    ASSUME SoleCut, TypeOK, TypeOK', HasItem, OneInv, CountInv, Dispatch \/ Serve
    PROVE  CountInv'
<1> USE ProcTypes, ProcAssumption DEF store, locals, counters, Goto
<1>1. /\ Cutters \subseteq Request /\ Cutters \subseteq Lister
      /\ Cutters \cap Retries = {} /\ D \notin Retries
      /\ Lister \cap Attempt = {}
  BY DEF Cutters, Lister
<1>2. \A u \in Attempt : Early(u) \/ Writes(u) => Live(u)
  BY DEF Early, Writes, Live, LivePC
(* A loop takes a step that reads no row and writes none.                  *)
<1>3. ASSUME NEW q \in Lister, NEW l, l # "start", pc' = [pc EXCEPT ![q] = l],
             UNCHANGED <<row, itemOf, copy, worklist, recovered>>
      PROVE  CountInv'
  <2>1. \A p \in Proc : pc'[p] = IF p = q THEN l ELSE pc[p]
    BY <1>3 DEF TypeOK
  <2>2. ASSUME NEW k \in Item
        PROVE  SameOrRead(k)
    BY <1>1, <1>3, <2>1, Unmoved
  <2> QED
    BY <1>3, <2>2, CountReads DEF CountInv
(* A loop lists rows.                                                      *)
<1>4. ASSUME NEW q \in Lister, NEW S \in SUBSET Item, NEW l, l # "start",
             pc' = [pc EXCEPT ![q] = l],
             worklist' = [worklist EXCEPT ![q] = [k \in S |-> row[k]]],
             UNCHANGED <<row, itemOf, copy, recovered>>,
             q \in Retries => \A k \in S : row[k].attempts < MaxAttempts,
             q \in Cutters => pc[q] = "start"
      PROVE  CountInv'
  <2>1. \A p \in Proc : pc'[p] = IF p = q THEN l ELSE pc[p]
    BY <1>4 DEF TypeOK
  <2>2. /\ \A p \in Lister : p # q => worklist'[p] = worklist[p]
        /\ DOMAIN worklist'[q] = S /\ \A k \in S : worklist'[q][k] = row[k]
    BY <1>4 DEF TypeOK
  <2>3. ASSUME NEW k \in Item
        PROVE  SameOrRead(k)
    <3>1. \A u \in Attempt : itemOf'[u] = k =>
            /\ Early(u)' => Early(u) /\ itemOf[u] = k
            /\ Writes(u)' => /\ Writes(u) /\ itemOf[u] = k
                             /\ copy'[u] = copy[u] /\ pc'[u] = pc[u]
      BY <1>1, <1>4, <2>1 DEF Early, Writes
    <3>2. \A p \in Lister : k \in DOMAIN worklist'[p] =>
            \/ k \in DOMAIN worklist[p] /\ worklist'[p][k] = worklist[p][k]
            \/ p = q /\ k \in S /\ worklist'[p][k] = row[k]
      BY <2>2
    <3>3. \A p \in {D} \cup Retries : k \in DOMAIN worklist'[p] =>
            \/ k \in DOMAIN worklist[p] /\ worklist'[p][k] = worklist[p][k]
            \/ worklist'[p][k] = row[k] /\ (p \in Retries => row[k].attempts < MaxAttempts)
      BY <1>1, <1>4, <3>2
    <3>4. \A p \in Cutters :
            /\ pc'[p] = "start" => pc[p] = "start"
            /\ k \in DOMAIN worklist'[p] =>
                \/ k \in DOMAIN worklist[p] /\ worklist'[p][k] = worklist[p][k]
                \/ worklist'[p][k] = row[k] /\ pc[p] = "start"
      BY <1>1, <1>4, <2>1, <3>2
    <3> QED
      BY <3>1, <3>3, <3>4 DEF SameOrRead
  <2> QED
    BY <1>4, <2>3, CountReads DEF CountInv
(* A loop writes, or fails to write, the first row i of its list.          *)
<1>5. ASSUME NEW q \in Lister, NEW i \in Item, NEW l, TakesFirst(q, i, l)
      PROVE  /\ \A p \in Proc : pc'[p] = "start" => pc[p] = "start"
             /\ \A p \in Proc : p # q => pc'[p] = pc[p]
             /\ \A p \in Lister : p # q => worklist'[p] = worklist[p]
             /\ i \notin DOMAIN worklist'[q]
             /\ \A k \in Item : k # i => CountOf(k)'
             /\ row'[i] = row[i] /\ recovered'[i] = recovered[i] => CountOf(i)'
  <2>1. \A p \in Proc : pc'[p] = IF p = q THEN l ELSE pc[p]
    BY <1>5 DEF TakesFirst, TypeOK
  <2>2. /\ \A p \in Lister : p # q => worklist'[p] = worklist[p]
        /\ DOMAIN worklist'[q] = DOMAIN worklist[q] \ {i}
        /\ \A k \in DOMAIN worklist'[q] : worklist'[q][k] = worklist[q][k]
    BY <1>5 DEF TakesFirst, TypeOK, Without
  <2>3. ASSUME NEW k \in Item
        PROVE  SameOrRead(k)
    <3>1. \A u \in Attempt : /\ pc'[u] = pc[u] /\ copy'[u] = copy[u]
                             /\ itemOf'[u] = itemOf[u]
      BY <1>1, <1>5, <2>1 DEF TakesFirst
    <3>2. \A p \in {D} \cup Retries \cup Cutters : k \in DOMAIN worklist'[p] =>
              k \in DOMAIN worklist[p] /\ worklist'[p][k] = worklist[p][k]
      BY <1>1, <2>2
    <3>3. \A p \in Cutters : pc'[p] = "start" => pc[p] = "start"
      BY <1>1, <1>5, <2>1 DEF TakesFirst
    <3> QED
      BY <3>1, <3>2, <3>3, Unmoved
  <2>4. \A k \in Item : row'[k] = row[k] /\ recovered'[k] = recovered[k] => CountOf(k)'
    BY <2>3, CountReads DEF CountInv
  <2> QED
    BY <1>1, <1>5, <2>1, <2>2, <2>4 DEF TakesFirst
(* A recovery or the retry writes a row that nobody else has under way.    *)
<1>6. ASSUME NEW q \in {D} \cup Retries, NEW i \in Item, First(DOMAIN worklist[q], i),
             NEW l, l # "start", pc' = [pc EXCEPT ![q] = l], pc[q] # "start",
             worklist' = [worklist EXCEPT ![q] = Without(@, i)],
             NEW x, row' = [row EXCEPT ![i] = RequeuedRow(worklist[q][i], x)],
             \A k \in Item : k # i => recovered'[k] = recovered[k],
             recovered'[i] >= recovered[i],
             worklist[q][i].attempts < MaxAttempts + recovered'[i],
             UNCHANGED <<itemOf, copy>>
      PROVE  CountInv'
  <2> DEFINE r == worklist[q][i]
  <2>1. i \in DOMAIN worklist[q] /\ r \in Row /\ q \in Lister
    BY <1>6 DEF First, TypeOK, RowList
  <2>2. /\ row'[i].attempts = r.attempts /\ row'[i].status = "queued"
        /\ \A k \in Item : k # i => row'[k] = row[k] /\ recovered'[k] = recovered[k]
    BY <1>6, <2>1 DEF TypeOK, RequeuedRow, Row
  <2>3. /\ \A p \in Proc : p # q => pc'[p] = pc[p]
        /\ \A p \in Lister : p # q => worklist'[p] = worklist[p]
        /\ i \notin DOMAIN worklist'[q]
        /\ \A k \in Item : k # i => CountOf(k)'
    <3>1. TakesFirst(q, i, l)
      BY <1>6, <2>1, <2>2 DEF TakesFirst
    <3> QED
      BY <1>5, <2>1, <3>1
  <2>4. \A u \in Attempt : itemOf'[u] = i => ~ Early(u)' /\ ~ Writes(u)'
    <3>1. \A u \in Attempt : Live(u) => itemOf[u] # i
      BY <1>6, <2>1 DEF OneInv, Untouched
    <3>2. \A u \in Attempt : pc'[u] = pc[u]
      BY <1>1, <2>1, <2>3
    <3> QED
      BY <1>2, <1>6, <3>1, <3>2 DEF Early, Writes
  <2>5. \A p \in {D} \cup Retries : i \notin DOMAIN worklist'[p]
    <3>1. \A p \in {D} \cup Retries : p # q => i \notin DOMAIN worklist[p]
      BY <1>1, <2>1 DEF OneInv, RetryInv, SoleCut, Calm, SoleRetry
    <3> QED
      BY <2>1, <2>3, <3>1
  <2>6. ASSUME NEW p \in Cutters
        PROVE  /\ pc'[p] = pc[p] /\ worklist'[p] = worklist[p]
               /\ i \in DOMAIN worklist[p] => worklist[p][i].attempts <= r.attempts
    <3>1. p # q
      BY <1>1, <1>6
    <3>2. i \in DOMAIN worklist[p] => worklist[p][i].attempts <= r.attempts
      BY <2>1, <2>6 DEF CountInv, CountOf, CutterCount, NoOlder
    <3> QED
      BY <1>1, <2>3, <3>1, <3>2
  <2>7. RowCount(i)'
    <3>1. r.attempts \in Nat /\ recovered'[i] \in Nat /\ MaxAttempts \in Nat
      BY <2>1, ConfigAssumption DEF Row, TypeOK
    <3> QED
      BY <1>6, <2>2, <3>1 DEF RowCount, Bound
  <2>8. CountOf(i) /\ recovered'[i] >= recovered[i]
    BY <1>6 DEF CountInv
  <2>9. CountOf(i)'
    BY <2>2, <2>4, <2>5, <2>6, <2>7, <2>8, CountWrites
  <2> QED
    BY <2>3, <2>9 DEF CountInv
(* The cancel or the report writes a row with a count that is not above    *)
(* the row's, and not above any other under way.                           *)
<1>7. ASSUME NEW q \in Cutters, NEW i \in Item, First(DOMAIN worklist[q], i),
             NEW l, l # "start", pc' = [pc EXCEPT ![q] = l], pc[q] # "start",
             worklist' = [worklist EXCEPT ![q] = Without(@, i)],
             NEW s, s # "queued",
             \/ row' = [row EXCEPT ![i] = EndedRow(worklist[q][i], s)]
             \/ row' = row,
             UNCHANGED <<itemOf, copy, recovered>>
      PROVE  CountInv'
  <2> DEFINE r == worklist[q][i]
  <2>1. i \in DOMAIN worklist[q] /\ r \in Row /\ q \in Lister
    BY <1>1, <1>7 DEF First, TypeOK, RowList
  <2>2. \A k \in Item : k # i => row'[k] = row[k]
    BY <1>7 DEF TypeOK
  <2>3. /\ \A p \in Proc : p # q => pc'[p] = pc[p]
        /\ \A p \in Lister : p # q => worklist'[p] = worklist[p]
        /\ i \notin DOMAIN worklist'[q]
        /\ \A p \in Proc : pc'[p] = "start" => pc[p] = "start"
        /\ \A k \in Item : k # i => CountOf(k)'
        /\ row'[i] = row[i] => CountOf(i)'
    <3>1. TakesFirst(q, i, l) /\ recovered'[i] = recovered[i]
      BY <1>7, <2>1, <2>2 DEF TakesFirst
    <3> QED
      BY <1>5, <2>1, <3>1
  <2>4. CASE row'[i] # row[i]
    <3>1. row'[i].attempts = r.attempts /\ row'[i].status # "queued"
      <4>1. row'[i] = EndedRow(r, s)
        BY <1>7, <2>4 DEF TypeOK
      <4>2. EndedRow(r, s).attempts = r.attempts /\ EndedRow(r, s).status = s
        BY <2>1 DEF EndedRow, Row
      <4> QED
        BY <1>7, <4>1, <4>2
    <3>2. /\ r.attempts <= row[i].attempts
          /\ r.attempts \in Nat /\ row[i].attempts \in Nat /\ Bound(i) \in Nat
          /\ CountOf(i)
      BY <1>7, <2>1, CountTypes DEF CountInv, CountOf, CutterCount
    <3>3. Bound(i)' = Bound(i)
      BY <1>7 DEF Bound
    <3>4. RowCount(i)'
      BY <3>1, <3>2, <3>3 DEF RowCount, CountOf
    <3>5. \A u \in Attempt : AttemptCount(u, i)'
      <4>1. \A u \in Attempt : pc'[u] = pc[u]
        BY <1>1, <2>1, <2>3
      <4> QED
        BY <1>7, <3>1, <3>2, <3>3, <4>1 DEF CountOf, AttemptCount, Early, Writes, Counts
    <3>6. LoopCount(i)'
      <4>1. \A p \in {D} \cup Retries : worklist'[p] = worklist[p]
        BY <1>1, <1>7, <2>3
      <4> QED
        BY <3>2, <3>3, <4>1 DEF CountOf, LoopCount
    <3>7. \A p \in Cutters : CutterCount(p, i)'
      <4>1. \A p \in Cutters : p = q
        BY <1>7 DEF SoleCut
      <4>2. pc'[q] # "start"
        BY <1>1, <1>7, <2>1 DEF TypeOK
      <4> QED
        BY <2>3, <4>1, <4>2 DEF CutterCount
    <3> QED
      BY <2>3, <3>4, <3>5, <3>6, <3>7 DEF CountOf, CountInv
  <2> QED
    BY <2>3, <2>4 DEF CountInv
<1>8. CASE Tick \/ Count \/ ClaimDone
  BY <1>3, <1>8 DEF Tick, Count, ClaimDone
<1>9. CASE RecoverList
  <2>1. D \notin Retries /\ D \notin Cutters /\ Expired \in SUBSET Item
    BY <1>1 DEF Expired
  <2> QED
    BY <1>4, <1>9, <2>1 DEF RecoverList
<1>10. CASE RecoverItem
  <2>1. PICK i \in Item :
          /\ First(DOMAIN worklist[D], i)
          /\ row' = [row EXCEPT ![i] = RequeuedRow(worklist[D][i], "none")]
          /\ recovered' = [recovered EXCEPT ![i] = @ + 1]
          /\ worklist' = [worklist EXCEPT ![D] = Without(@, i)]
          /\ pc' = [pc EXCEPT ![D] = IF Last(D, i) THEN "refGet" ELSE "recover"]
    BY <1>10 DEF RecoverItem, UpdateGroupItem
  <2>2. /\ recovered[i] \in Nat /\ recovered'[i] = recovered[i] + 1
        /\ \A k \in Item : k # i => recovered'[k] = recovered[k]
    BY <2>1 DEF TypeOK
  <2>3. worklist[D][i].attempts < MaxAttempts + recovered'[i]
    <3>1. /\ worklist[D][i].attempts <= MaxAttempts + recovered[i]
          /\ worklist[D][i].attempts \in Nat /\ MaxAttempts \in Nat
      BY <2>1, CountTypes, ConfigAssumption DEF CountInv, CountOf, LoopCount, Bound, First
    <3> QED
      BY <2>2, <3>1
  <2>4. recovered'[i] >= recovered[i]
    BY <2>2
  <2>5. pc[D] # "start" /\ UNCHANGED <<itemOf, copy>>
    BY <1>10 DEF RecoverItem
  <2>6. (IF Last(D, i) THEN "refGet" ELSE "recover") # "start"
    OBVIOUS
  <2>7. /\ First(DOMAIN worklist[D], i)
        /\ row' = [row EXCEPT ![i] = RequeuedRow(worklist[D][i], "none")]
        /\ worklist' = [worklist EXCEPT ![D] = Without(@, i)]
        /\ pc' = [pc EXCEPT ![D] = IF Last(D, i) THEN "refGet" ELSE "recover"]
        /\ \A k \in Item : k # i => recovered'[k] = recovered[k]
    BY <2>1, <2>2
  <2> QED
    BY <1>6, <2>3, <2>4, <2>5, <2>6, <2>7
<1>11. CASE Claim
  <2>1. PICK i \in Item, t \in Attempt :
          /\ First(Claimable, i) /\ First(Unused, t)
          /\ row' = [row EXCEPT ![i] = ClaimedRow(row[i])]
          /\ itemOf' = [itemOf EXCEPT ![t] = i]
          /\ pc' = [pc EXCEPT ![t] = "submit"]
    BY <1>11 DEF Claim, UpdateGroupItem
  <2>2. UNCHANGED <<copy, worklist, recovered>>
    BY <1>11 DEF Claim
  <2>3. row[i].status = "queued" /\ row[i] \in Row
    BY <2>1 DEF First, Claimable, TypeOK
  <2>4. /\ row'[i].attempts = row[i].attempts /\ row'[i].status = "running"
        /\ \A k \in Item : k # i => row'[k] = row[k]
    BY <2>1, <2>3 DEF TypeOK, ClaimedRow, Row
  <2>5. /\ pc'[t] = "submit" /\ itemOf'[t] = i
        /\ \A p \in Proc : p # t => pc'[p] = pc[p]
        /\ \A u \in Attempt : u # t => itemOf'[u] = itemOf[u]
    BY <2>1 DEF TypeOK
  <2>6. ASSUME NEW k \in Item
        PROVE  SameOrRead(k)
    <3>1. \A u \in Attempt : itemOf'[u] = k =>
            /\ Early(u)' => row[k].status = "queued" \/ (Early(u) /\ itemOf[u] = k)
            /\ Writes(u)' => /\ Writes(u) /\ itemOf[u] = k
                             /\ copy'[u] = copy[u] /\ pc'[u] = pc[u]
      BY <2>2, <2>3, <2>5 DEF Early, Writes
    <3>2. \A q \in Cutters : pc'[q] = pc[q]
      BY <1>1, <2>5
    <3> QED
      BY <2>2, <3>1, <3>2 DEF SameOrRead
  <2>7. \A k \in Item : /\ row'[k].attempts = row[k].attempts
                        /\ row'[k].status = row[k].status \/ row'[k].status # "queued"
    BY <2>4
  <2> QED
    BY <2>2, <2>6, <2>7, CountReads DEF CountInv
<1>12. ASSUME NEW q \in Cancels, CancelList(q)
       PROVE  CountInv'
  <2>1. q \notin Retries /\ Cancellable \in SUBSET Item
    BY <1>12 DEF Cancellable
  <2> QED
    BY <1>4, <1>12, <2>1 DEF CancelList, List
<1>13. ASSUME NEW q \in Cancels, CancelRun(q) \/ CancelGroup(q)
       PROVE  CountInv'
  BY <1>3, <1>13 DEF CancelRun, CancelGroup
<1>14. ASSUME NEW q \in Cancels, CancelRow(q)
       PROVE  CountInv'
  <2>1. PICK i \in Item :
          /\ First(DOMAIN worklist[q], i)
          /\ row' = [row EXCEPT ![i] = EndedRow(worklist[q][i], "cancelled")] \/ row' = row
          /\ worklist' = [worklist EXCEPT ![q] = Without(@, i)]
          /\ pc' = [pc EXCEPT ![q] = IF Last(q, i) THEN "cancelGroup" ELSE "cancelRun"]
    BY <1>14 DEF CancelRow, UpdateGroupItem
  <2>2. q \in Cutters /\ pc[q] # "start" /\ UNCHANGED <<itemOf, copy, recovered>>
    BY <1>14 DEF CancelRow, Cutters
  <2>3. "cancelled" # "queued"
    OBVIOUS
  <2> QED
    BY <1>7, <2>1, <2>2, <2>3
<1>15. ASSUME NEW q \in Retries, RetryList(q)
       PROVE  CountInv'
  <2>1. /\ q \notin Cutters /\ Retriable \in SUBSET Item
        /\ \A k \in Retriable : row[k].attempts < MaxAttempts
    BY <1>1, <1>15 DEF Retriable, shouldRetryAttempt
  <2> QED
    BY <1>4, <1>15, <2>1 DEF RetryList, List
<1>16. ASSUME NEW q \in Retries, RetryRow(q)
       PROVE  CountInv'
  <2>1. PICK i \in Item :
          /\ First(DOMAIN worklist[q], i)
          /\ row' = [row EXCEPT ![i] = RequeuedRow(worklist[q][i], "valid")]
          /\ worklist' = [worklist EXCEPT ![q] = Without(@, i)]
          /\ pc' = [pc EXCEPT ![q] = IF Last(q, i) THEN "retryGroup" ELSE "retryRow"]
    BY <1>16 DEF RetryRow, UpdateGroupItem
  <2>2. pc[q] # "start" /\ UNCHANGED <<itemOf, copy, recovered>>
    BY <1>16 DEF RetryRow
  <2>3. worklist[q][i].attempts < MaxAttempts + recovered'[i]
    <3>1. /\ worklist[q][i].attempts < MaxAttempts /\ worklist[q][i].attempts \in Nat
          /\ MaxAttempts \in Nat /\ recovered'[i] \in Nat
      BY <1>16, <2>1, CountTypes, ConfigAssumption
         DEF CountInv, CountOf, LoopCount, First, TypeOK
    <3> QED
      BY <3>1
  <2>4. recovered'[i] >= recovered[i] /\ \A k \in Item : recovered'[k] = recovered[k]
    BY <2>2 DEF TypeOK
  <2> QED
    BY <1>6, <1>16, <2>1, <2>2, <2>3, <2>4
<1>17. ASSUME NEW q \in Retries, RetryGroup(q)
       PROVE  CountInv'
  BY <1>3, <1>17 DEF RetryGroup
<1>18. ASSUME NEW q \in Reports, ReportList(q)
       PROVE  CountInv'
  <2>1. PICK todo \in SUBSET NeedsRescore :
          List(q, todo, IF todo = {} THEN "done" ELSE "reportCard")
    BY <1>18 DEF ReportList
  <2>2. q \notin Retries /\ todo \in SUBSET Item
    BY <1>18 DEF NeedsRescore, Rescorable
  <2> QED
    BY <1>4, <1>18, <2>1, <2>2 DEF ReportList, List
<1>19. ASSUME NEW q \in Reports, ReportCard(q)
       PROVE  CountInv'
  BY <1>3, <1>19 DEF ReportCard
<1>20. ASSUME NEW q \in Reports, ReportRow(q)
       PROVE  CountInv'
  <2>1. PICK i \in Item :
          /\ First(DOMAIN worklist[q], i)
          /\ \/ row' = [row EXCEPT ![i] = EndedRow(worklist[q][i], verdictToItemStatus(outcome[q]))]
             \/ row' = row
          /\ worklist' = [worklist EXCEPT ![q] = Without(@, i)]
          /\ pc' = [pc EXCEPT ![q] = IF Last(q, i) THEN "refGet" ELSE "reportCard"]
    BY <1>20 DEF ReportRow, UpdateGroupItem
  <2>2. q \in Cutters /\ pc[q] # "start" /\ UNCHANGED <<itemOf, copy, recovered>>
    BY <1>20 DEF ReportRow, Cutters
  <2>3. verdictToItemStatus(outcome[q]) # "queued"
    BY DEF verdictToItemStatus
  <2> QED
    BY <1>7, <2>1, <2>2, <2>3
<1> QED
  BY <1>8, <1>9, <1>10, <1>11, <1>12, <1>13, <1>14, <1>15, <1>16, <1>17, <1>18, <1>19, <1>20
     DEF Dispatch, Serve

LEMMA CountWorld ==
    ASSUME TypeOK, TypeOK', CountInv,
           \/ \E t \in Attempt : RunEnds(t)
           \/ \E p \in Proc : refreshGroupSummary(p) \/ Fault(p)
           \/ \E i \in Item : LeaseExpires(i)
           \/ Crash
           \/ UNCHANGED vars
    PROVE  CountInv'
<1> USE ProcTypes DEF store, locals, counters, Goto
<1>1. Cutters \subseteq Lister /\ Cutters \subseteq Proc
  BY DEF Cutters
(* What is under way stays as it is or is gone.                            *)
<1>2. ASSUME itemOf' = itemOf, recovered' = recovered,
             \A k \in Item : row'[k].attempts = row[k].attempts /\ row'[k].status = row[k].status,
             \A u \in Attempt : Early(u)' \/ Writes(u)' => pc'[u] = pc[u] /\ copy'[u] = copy[u],
             \A q \in Lister : worklist'[q] = worklist[q] \/ DOMAIN worklist'[q] = {},
             \A q \in Cutters : pc'[q] = "start" => pc[q] = "start"
      PROVE  CountInv'
  <2>1. ASSUME NEW k \in Item
        PROVE  SameOrRead(k)
    BY <1>1, <1>2, Unmoved
  <2> QED
    BY <1>2, <2>1, CountReads DEF CountInv
<1>3. CASE \E t \in Attempt : RunEnds(t)
  BY <1>2, <1>3 DEF RunEnds
<1>4. ASSUME NEW i \in Item, LeaseExpires(i)
      PROVE  CountInv'
  <2>1. \A k \in Item : row'[k].attempts = row[k].attempts /\ row'[k].status = row[k].status
    BY <1>4 DEF LeaseExpires, UpdateGroupItem, TypeOK, Row
  <2> QED
    BY <1>2, <1>4, <2>1 DEF LeaseExpires
<1>5. ASSUME NEW p \in Proc, refreshGroupSummary(p)
      PROVE  CountInv'
  <2>1. PICK l \in {"refList", "refWrite", "done", "count", "idle"} :
          pc' = [pc EXCEPT ![p] = l]
    BY <1>5 DEF refreshGroupSummary, RefreshGet, RefreshList, RefreshWrite, AfterRefresh
  <2>2. UNCHANGED <<row, itemOf, copy, worklist, recovered>>
    BY <1>5 DEF refreshGroupSummary, RefreshGet, RefreshList, RefreshWrite
  <2>3. \A u \in Proc : pc'[u] = pc[u] \/ pc'[u] = l
    BY <2>1 DEF TypeOK
  <2>4. \A u \in Attempt : Early(u)' \/ Writes(u)' => pc'[u] = pc[u]
    BY <2>3 DEF Early, Writes
  <2>5. \A q \in Cutters : pc'[q] = "start" => pc[q] = "start"
    BY <1>1, <2>3
  <2> QED
    BY <1>2, <2>2, <2>4, <2>5
<1>6. ASSUME NEW p \in Proc, Fault(p)
      PROVE  CountInv'
  <2>1. /\ pc' = [pc EXCEPT ![p] = FaultLeadsTo(p)]
        /\ copy' = [t \in Attempt |-> IF t = p THEN BlankRow ELSE copy[t]]
        /\ worklist' = [q \in Lister |-> IF q = p THEN NoRows ELSE worklist[q]]
        /\ UNCHANGED <<row, itemOf, recovered>>
    BY <1>6 DEF Fault
  <2>2. FaultLeadsTo(p) \in {"refGet", "failRead", "wait", "idle", "done"}
    BY DEF FaultLeadsTo
  <2>3. \A u \in Proc : pc'[u] = IF u = p THEN FaultLeadsTo(p) ELSE pc[u]
    BY <2>1 DEF TypeOK
  <2>4. \A u \in Attempt : Early(u)' \/ Writes(u)' => pc'[u] = pc[u] /\ copy'[u] = copy[u]
    BY <2>1, <2>2, <2>3 DEF Early, Writes
  <2>5. \A q \in Cutters : pc'[q] = "start" => pc[q] = "start"
    BY <1>1, <2>2, <2>3
  <2>6. \A q \in Lister : worklist'[q] = worklist[q] \/ DOMAIN worklist'[q] = {}
    BY <2>1, BlankIsConsistent
  <2> QED
    BY <1>2, <2>1, <2>4, <2>5, <2>6
<1>7. CASE Crash
  <2>1. UNCHANGED <<row, itemOf, recovered>>
    BY <1>7 DEF Crash
  <2>2. \A u \in Proc : pc'[u] \in {"idle", "done"} \/ (pc'[u] = pc[u] /\ pc[u] \in {"unused", "start"})
    BY <1>7 DEF Crash
  <2>3. \A u \in Attempt : ~ Early(u)' /\ ~ Writes(u)'
    BY <2>2 DEF Early, Writes
  <2>4. \A q \in Lister : DOMAIN worklist'[q] = {}
    BY <1>7, BlankIsConsistent DEF Crash
  <2> QED
    BY <1>1, <1>2, <2>1, <2>2, <2>3, <2>4
<1>8. CASE UNCHANGED vars
  BY <1>2, <1>8 DEF vars
<1> QED
  BY <1>3, <1>4, <1>5, <1>6, <1>7, <1>8

LEMMA CountInit == Init => CountInv
<1> SUFFICES ASSUME Init, NEW i \in Item PROVE CountOf(i)
  BY DEF CountInv
<1>1. row[i].attempts = 0 /\ Bound(i) = MaxAttempts /\ MaxAttempts > 0
  BY ConfigAssumption DEF Init, BlankRow, Bound
<1>2. \A t \in Attempt : pc[t] = "unused"
  BY ProcTypes DEF Init
<1>3. \A q \in Lister : DOMAIN worklist[q] = {}
  BY BlankIsConsistent DEF Init
<1>4. \A n : NoOlder(n, i)
  BY <1>2, <1>3, ProcTypes DEF NoOlder, Writes
<1>5. RowCount(i) /\ LoopCount(i)
  BY <1>1, <1>3, ProcTypes, ConfigAssumption DEF RowCount, LoopCount
<1>6. \A t \in Attempt : AttemptCount(t, i)
  BY <1>2 DEF AttemptCount, Early, Writes, Counts
<1>7. \A q \in Cutters : CutterCount(q, i)
  BY <1>3, <1>4, ProcTypes DEF CutterCount, Cutters
<1> QED
  BY <1>5, <1>6, <1>7 DEF CountOf

(* However runs, store calls, crashes and recoveries interleave with a     *)
(* retry and a cancel or a report, an item is attempted MaxAttempts times  *)
(* and once more for each of its leases that recoverExpiredItems took.     *)
THEOREM AttemptsStayBounded == ASSUME SoleCut PROVE Spec => []AttemptsBounded
<1>1. TypeOK /\ TypeOK' /\ HasItem /\ RecInv /\ OneInv /\ CountInv /\ [Next]_vars => CountInv'
  BY CountAttempt, CountLoops, CountWorld DEF Next, SoleCut
<1>2. CountInv => AttemptsBounded
  BY DEF CountInv, CountOf, RowCount, Bound, AttemptsBounded
<1>3. Calm
  BY DEF SoleCut
<1> QED
  BY <1>1, <1>2, <1>3, CountInit, TypeCorrect, RecAlways, OneAlways, PTL DEF Spec
=============================================================================
