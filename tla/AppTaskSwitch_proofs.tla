------------------------ MODULE AppTaskSwitch_proofs ------------------------
(***************************************************************************)
(* Proofs about the mode-switch kernel, for every set of modes and every   *)
(* list of modes.                                                          *)
(***************************************************************************)
EXTENDS AppTaskSwitch, WellFoundedInduction, TLAPS

-----------------------------------------------------------------------------
(* The helpers of app_task_switch_next                                     *)

(* The index of a mode is a place of the list or one past its end. *)
LEMMA ListIndexRange ==
  ASSUME NEW t
  PROVE  /\ ListIndex(t) \in 1..(Len(TaskList) + 1)
         /\ ListIndex(t) <= Len(TaskList) => TaskList[ListIndex(t)] = t
<1>1. Len(TaskList) \in Nat
  BY TaskListAssumption
<1>2. CASE \E i \in 1..Len(TaskList) : TaskList[i] = t
  BY <1>1, <1>2 DEF ListIndex
<1>3. CASE ~\E i \in 1..Len(TaskList) : TaskList[i] = t
  BY <1>1, <1>3, ListIndex(t) = Len(TaskList) + 1 DEF ListIndex
<1> QED
  BY <1>2, <1>3

(* Every mode that is tried is a listed mode other than the current one.   *)
LEMMA NextTryListed ==
  ASSUME NEW t, NEW k \in 1..Tries(t)
  PROVE  NextTry(t, k) \in Task /\ NextTry(t, k) # t
<1> DEFINE n == Len(TaskList)
<1>1. n \in Nat /\ n > 0
  BY TaskListAssumption
<1>2. ListIndex(t) \in 1..(n + 1) /\ (ListIndex(t) <= n => TaskList[ListIndex(t)] = t)
  BY ListIndexRange
<1>3. TryIndex(t, k) \in 1..n /\ TryIndex(t, k) # ListIndex(t)
  BY <1>1, <1>2 DEF Tries, TryIndex
<1>4. TaskList[TryIndex(t, k)] \in Task
  BY <1>1, <1>3, TaskListAssumption
<1>5. TaskList[TryIndex(t, k)] # t
  <2>1. CASE ListIndex(t) <= n
    BY <1>1, <1>2, <1>3, <2>1, TaskListAssumption
  <2>2. CASE ListIndex(t) > n
    <3>1. SUFFICES ASSUME TaskList[TryIndex(t, k)] = t
                   PROVE  FALSE
      OBVIOUS
    <3>2. ListIndex(t) = CHOOSE i \in 1..n : TaskList[i] = t
      BY <1>3, <3>1 DEF ListIndex
    <3>3. ListIndex(t) \in 1..n
      BY <1>3, <3>1, <3>2
    <3> QED
      BY <1>1, <2>2, <3>3
  <2> QED
    BY <1>1, <1>2, <2>1, <2>2
<1> QED
  BY <1>4, <1>5 DEF NextTry

(* The tries reach every listed mode but the current one. *)
LEMMA NextTryReaches ==
  ASSUME NEW t, NEW j \in 1..Len(TaskList), TaskList[j] # t
  PROVE  \E k \in 1..Tries(t) : NextTry(t, k) = TaskList[j]
<1> DEFINE n     == Len(TaskList)
           start == IF ListIndex(t) > n THEN 0 ELSE ListIndex(t)
           k     == IF j > start THEN j - start ELSE j - start + n
<1>1. n \in Nat /\ n > 0
  BY TaskListAssumption
<1>2. ListIndex(t) \in 1..(n + 1) /\ (ListIndex(t) <= n => TaskList[ListIndex(t)] = t)
  BY ListIndexRange
<1>3. j # ListIndex(t)
  BY <1>1, <1>2
<1>4. k \in 1..Tries(t)
  BY <1>1, <1>2, <1>3 DEF Tries
<1>5. TryIndex(t, k) = j
  BY <1>1, <1>2, <1>3 DEF TryIndex
<1> QED
  BY <1>4, <1>5 DEF NextTry

(* The least element of a non-empty set of tries. *)
LEMMA LeastTry ==
  ASSUME NEW n \in Nat, NEW S \in SUBSET (1..n), S # {}
  PROVE  \E k \in S : \A j \in S : k <= j
<1> DEFINE Less == OpToRel(<, Nat)
<1>1. IsWellFoundedOn(Less, Nat)
  BY NatLessThanWellFounded
<1>2. S \subseteq Nat
  OBVIOUS
<1>3. \A x, y \in Nat : <<y, x>> \notin Less => x <= y
  BY DEF OpToRel
<1> HIDE DEF Less
<1>4. \E x \in S : \A y \in S : <<y, x>> \notin Less
  BY <1>1, <1>2, WFMin
<1> QED
  BY <1>2, <1>3, <1>4

(* app_task_switch_next only ever asks for a listed, admitted mode other   *)
(* than the current one, and it finds one whenever there is one.           *)
THEOREM NextInListCorrect ==
  ASSUME NEW t, NEW Admitted
  PROVE  LET r == NextInList(t, Admitted)
         IN  /\ r # NoTask => r \in Task \cap Admitted /\ r # t
             /\ r = NoTask => \A j \in 1..Len(TaskList) :
                                TaskList[j] # t => TaskList[j] \notin Admitted
<1> DEFINE ok == {k \in 1..Tries(t) : NextTry(t, k) \in Admitted}
           r  == NextInList(t, Admitted)
<1>1. CASE ok = {}
  <2>1. r = NoTask
    BY <1>1 DEF NextInList
  <2>2. \A j \in 1..Len(TaskList) : TaskList[j] # t => TaskList[j] \notin Admitted
    BY <1>1, NextTryReaches
  <2> QED
    BY <2>1, <2>2
<1>2. CASE ok # {}
  <2>1. Tries(t) \in Nat
    BY ListIndexRange, TaskListAssumption DEF Tries
  <2>2. \E k \in ok : \A j \in ok : k <= j
    BY <1>2, <2>1, LeastTry
  <2> DEFINE k == CHOOSE k \in ok : \A j \in ok : k <= j
  <2>3. k \in ok
    BY <2>2
  <2>4. r = NextTry(t, k)
    BY <1>2 DEF NextInList
  <2>5. r \in Task /\ r # t /\ r \in Admitted
    BY <2>3, <2>4, NextTryListed
  <2> QED
    BY <2>5, TaskAssumption
<1> QED
  BY <1>1, <1>2

-----------------------------------------------------------------------------
(* Type correctness                                                        *)

(* The state of the kernel has its type. *)
THEOREM TypeCorrect == Spec => []TypeOK
<1>1. Init => TypeOK
  BY TaskAssumption DEF Init, TypeOK, PC
<1>2. TypeOK /\ [Next]_switchVars => TypeOK'
  <2> SUFFICES ASSUME TypeOK, [Next]_switchVars PROVE TypeOK'
    OBVIOUS
  <2> USE DEF TypeOK, PC
  <2>1. CASE Enter
    BY <2>1 DEF Enter
  <2>2. CASE Handle
    BY <2>2 DEF Handle, SwitchTo, NoSwitch
  <2>3. CASE PollNone
    BY <2>3 DEF PollNone
  <2>4. CASE PollCommit
    BY <2>4 DEF PollCommit
  <2>5. CASE PollClear
    BY <2>5 DEF PollClear
  <2>6. CASE Close
    BY <2>6 DEF Close
  <2>7. CASE Callback
    BY <2>7 DEF Callback, SwitchTo, NoSwitch
  <2>8. CASE PowerCut
    BY <2>8 DEF PowerCut
  <2>9. CASE Reset
    BY <2>9, TaskAssumption DEF Reset
  <2>10. CASE HiTimerFires
    BY <2>10 DEF HiTimerFires, SwitchTo
  <2>11. CASE UNCHANGED switchVars
    BY <2>11 DEF switchVars
  <2> QED
    BY <2>1, <2>2, <2>3, <2>4, <2>5, <2>6, <2>7, <2>8, <2>9, <2>10, <2>11
       DEF Next, Core
<1> QED
  BY <1>1, <1>2, PTL DEF Spec

-----------------------------------------------------------------------------
(* The safety of a switch                                                  *)

(* A pending request names another mode than the current one, between the  *)
(* steps of app_core as well: every place that assigns app_next_task has   *)
(* compared it with app_curr_task, and app_curr_task only changes where    *)
(* app_next_task is about to be cleared.                                   *)
THEOREM CommitsChangeMode == Spec => []CommitChangesMode
<1>1. Init => CommitChangesMode
  BY TaskAssumption DEF Init, CommitChangesMode
<1>2. TypeOK /\ CommitChangesMode /\ [Next]_switchVars => CommitChangesMode'
  <2> SUFFICES ASSUME TypeOK, CommitChangesMode, [Next]_switchVars
               PROVE  CommitChangesMode'
    OBVIOUS
  <2> USE DEF CommitChangesMode
  <2>1. CASE Enter
    BY <2>1 DEF Enter
  <2>2. CASE Handle
    BY <2>2 DEF Handle, SwitchTo, NoSwitch
  <2>3. CASE PollNone
    BY <2>3 DEF PollNone
  <2>4. CASE PollCommit
    BY <2>4 DEF PollCommit
  <2>5. CASE PollClear
    BY <2>5, TaskAssumption DEF PollClear, TypeOK
  <2>6. CASE Close
    BY <2>6 DEF Close
  <2>7. CASE Callback
    BY <2>7 DEF Callback, SwitchTo, NoSwitch
  <2>8. CASE PowerCut
    BY <2>8 DEF PowerCut
  <2>9. CASE Reset
    BY <2>9, TaskAssumption DEF Reset
  <2>10. CASE HiTimerFires
    BY <2>10 DEF HiTimerFires, SwitchTo
  <2>11. CASE UNCHANGED switchVars
    BY <2>11 DEF switchVars
  <2> QED
    BY <2>1, <2>2, <2>3, <2>4, <2>5, <2>6, <2>7, <2>8, <2>9, <2>10, <2>11
       DEF Next, Core
<1> QED
  BY <1>1, <1>2, TypeCorrect, PTL DEF Spec

(* app_get_curr_task tells the body that runs, whatever interrupts come.   *)
THEOREM BodiesAreCurrent == Spec => []BodyIsCurrent
<1>1. Init => BodyIsCurrent
  BY DEF Init, BodyIsCurrent
<1>2. BodyIsCurrent /\ [Next]_switchVars => BodyIsCurrent'
  <2> SUFFICES ASSUME BodyIsCurrent, [Next]_switchVars PROVE BodyIsCurrent'
    OBVIOUS
  <2> USE DEF BodyIsCurrent
  <2>1. CASE Enter
    BY <2>1 DEF Enter
  <2>2. CASE Handle
    BY <2>2 DEF Handle
  <2>3. CASE PollNone
    BY <2>3 DEF PollNone
  <2>4. CASE PollCommit
    BY <2>4 DEF PollCommit
  <2>5. CASE PollClear
    BY <2>5 DEF PollClear
  <2>6. CASE Close
    BY <2>6 DEF Close
  <2>7. CASE Callback
    BY <2>7 DEF Callback
  <2>8. CASE PowerCut
    BY <2>8 DEF PowerCut
  <2>9. CASE Reset
    BY <2>9 DEF Reset
  <2>10. CASE HiTimerFires
    BY <2>10 DEF HiTimerFires
  <2>11. CASE UNCHANGED switchVars
    BY <2>11 DEF switchVars
  <2> QED
    BY <2>1, <2>2, <2>3, <2>4, <2>5, <2>6, <2>7, <2>8, <2>9, <2>10, <2>11
       DEF Next, Core
<1> QED
  BY <1>1, <1>2, PTL DEF Spec

(* Between the two assignments of app_task_exitting both variables hold    *)
(* the requested mode, which is what makes the second one harmless.        *)
CommitPending == pc = "commit" => next = curr

RequestInv == RequestKept /\ CommitPending

(* No accepted request is lost, provided that no hardware timer fires in   *)
(* the window between the two assignments of app_task_exitting.            *)
THEOREM RequestsKept == ~CommitWindow => (Spec => []RequestKept)
<1> SUFFICES ASSUME ~CommitWindow PROVE Spec => []RequestKept
  OBVIOUS
<1>1. Init => RequestInv
  BY DEF Init, RequestInv, RequestKept, CommitPending
<1>2. TypeOK /\ RequestInv /\ [Next]_switchVars => RequestInv'
  <2> SUFFICES ASSUME TypeOK, RequestInv, [Next]_switchVars PROVE RequestInv'
    OBVIOUS
  <2> USE TaskAssumption DEF TypeOK, RequestInv, RequestKept, CommitPending
  <2>1. CASE Enter
    BY <2>1 DEF Enter
  <2>2. CASE Handle
    BY <2>2 DEF Handle, SwitchTo, NoSwitch
  <2>3. CASE PollNone
    BY <2>3 DEF PollNone
  <2>4. CASE PollCommit
    BY <2>4 DEF PollCommit
  <2>5. CASE PollClear
    BY <2>5 DEF PollClear
  <2>6. CASE Close
    BY <2>6 DEF Close
  <2>7. CASE Callback
    BY <2>7 DEF Callback, SwitchTo, NoSwitch
  <2>8. CASE PowerCut
    BY <2>8 DEF PowerCut
  <2>9. CASE Reset
    BY <2>9 DEF Reset
  <2>10. CASE HiTimerFires
    BY <2>10 DEF HiTimerFires, SwitchTo
  <2>11. CASE UNCHANGED switchVars
    BY <2>11 DEF switchVars
  <2> QED
    BY <2>1, <2>2, <2>3, <2>4, <2>5, <2>6, <2>7, <2>8, <2>9, <2>10, <2>11
       DEF Next, Core
<1>3. RequestInv => RequestKept
  BY DEF RequestInv
<1> QED
  BY <1>1, <1>2, <1>3, TypeCorrect, PTL DEF Spec
=============================================================================
