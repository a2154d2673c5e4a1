-------------------------- MODULE ActiveSetProofs --------------------------
(***************************************************************************)
(* Theorems about ActiveSet, for every finite set of requests, every set   *)
(* of waiters and every bound on the clones of a guard.                    *)
(***************************************************************************)
EXTENDS ActiveSet, FiniteSetTheorems, TLAPS

(* What a guard's position says of its clones and of its telemetry entry. *)
GuardInv ==
    \A i \in Ids :
        /\ strong[i] > 0 <=> gpc[i] = "held"
        /\ map[i] # "absent" => gpc[i] \in {"held", "dropping"}
        /\ gpc[i] = "held" => (telemetry <=> map[i] # "absent")

IInv == TypeOK /\ CountIsGuards /\ GuardInv /\ NoLostWakeup

-----------------------------------------------------------------------------
(* The counted guards form a finite set: the counter can be compared with its size. *)
LEMMA CountedFinite == IsFiniteSet(Counted) /\ Cardinality(Counted) \in Nat
<1>1. Counted \subseteq Ids
  BY DEF Counted
<1>2. IsFiniteSet(Counted)
  BY <1>1, IdsAssumption, FS_Subset
<1> QED
  BY <1>2, FS_CardinalityType

(* A zero counter means that no guard is counted. *)
LEMMA ZeroCountEmpty ==
    ASSUME CountIsGuards, count = 0
    PROVE  Counted = {}
BY CountedFinite, FS_EmptySet DEF CountIsGuards

(* A counted guard makes the counter positive: fetch_sub cannot underflow. *)
LEMMA CountedPositive ==
    ASSUME CountIsGuards, NEW i \in Counted
    PROVE  count \in Nat /\ count > 0
<1>1. Cardinality(Counted) # 0
  BY CountedFinite, FS_EmptySet
<1> QED
  BY <1>1, CountedFinite DEF CountIsGuards

(* How one guard's move between states changes the set of counted guards. *)
LEMMA CountedAfterMove ==
    ASSUME TypeOK, NEW i \in Ids, NEW s \in GuardStates,
           gpc' = [gpc EXCEPT ![i] = s]
    PROVE  /\ s \in {"counted", "held", "dropping", "removed"} => Counted' = Counted \cup {i}
           /\ s \notin {"counted", "held", "dropping", "removed"} => Counted' = Counted \ {i}
BY DEF TypeOK, Counted

-----------------------------------------------------------------------------
(* Every step of insert, clone, update and drop preserves the type invariant. *)
LEMMA GuardStepType ==
    ASSUME IInv, NEW i \in Ids, GuardStep(i)
    PROVE  TypeOK'
<1> USE ClonesAssumption DEF IInv, TypeOK, GuardStates, wvars, svars
<1>1. CASE InsertCount(i)
  BY <1>1 DEF InsertCount
<1>2. CASE InsertMap(i)
  BY <1>2 DEF InsertMap, Infos
<1>3. CASE Update(i)
  BY <1>3 DEF Update
<1>4. CASE CloneGuard(i)
  BY <1>4 DEF CloneGuard
<1>5. CASE DropClone(i)
  BY <1>5 DEF DropClone, GuardInv
<1>6. CASE DropMap(i)
  BY <1>6 DEF DropMap
<1>7. CASE DropCount(i)
  <2>1. i \in Counted
    BY <1>7 DEF DropCount, Counted
  <2>2. count > 0
    BY <2>1, CountedPositive
  <2> QED
    BY <1>7, <2>2 DEF DropCount
<1>8. CASE NotifyWaiters(i)
  BY <1>8 DEF NotifyWaiters, Listening
<1> QED
  BY <1>1, <1>2, <1>3, <1>4, <1>5, <1>6, <1>7, <1>8 DEF GuardStep

(* The counter follows the set of counted guards through insert and drop. *)
LEMMA GuardStepCount ==
    ASSUME IInv, NEW i \in Ids, GuardStep(i)
    PROVE  CountIsGuards'
<1> USE DEF IInv
<1>1. ASSUME count' = count, Counted' = Counted
      PROVE  CountIsGuards'
  BY <1>1 DEF CountIsGuards
<1>2. CASE InsertCount(i)
  <2>1. i \notin Counted
    BY <1>2 DEF InsertCount, Counted
  <2>2. Counted' = Counted \cup {i}
    BY <1>2, CountedAfterMove DEF InsertCount, GuardStates
  <2>3. Cardinality(Counted \cup {i}) = Cardinality(Counted) + 1
    BY <2>1, CountedFinite, FS_AddElement
  <2> QED
    BY <1>2, <2>2, <2>3 DEF InsertCount, CountIsGuards
<1>3. CASE InsertMap(i)
  <2>1. Counted' = Counted
    BY <1>3 DEF InsertMap, Counted, TypeOK
  <2> QED
    BY <1>1, <1>3, <2>1 DEF InsertMap
<1>4. CASE Update(i)
  BY <1>1, <1>4 DEF Update, Counted
<1>5. CASE CloneGuard(i)
  BY <1>1, <1>5 DEF CloneGuard, Counted
<1>6. CASE DropClone(i)
  <2>1. Counted' = Counted
    BY <1>6 DEF DropClone, Counted, TypeOK
  <2> QED
    BY <1>1, <1>6, <2>1 DEF DropClone
<1>7. CASE DropMap(i)
  <2>1. Counted' = Counted
    BY <1>7 DEF DropMap, Counted, TypeOK
  <2> QED
    BY <1>1, <1>7, <2>1 DEF DropMap
<1>8. CASE DropCount(i)
  <2>1. i \in Counted
    BY <1>8 DEF DropCount, Counted
  <2>2. Counted' = Counted \ {i}
    BY <1>8, CountedAfterMove DEF DropCount, GuardStates
  <2>3. Cardinality(Counted \ {i}) = Cardinality(Counted) - 1
    BY <2>1, CountedFinite, FS_RemoveElement
  <2> QED
    BY <1>8, <2>2, <2>3 DEF DropCount, CountIsGuards
<1>9. CASE NotifyWaiters(i)
  <2>1. Counted' = Counted
    BY <1>9 DEF NotifyWaiters, Counted, TypeOK
  <2> QED
    BY <1>1, <1>9, <2>1 DEF NotifyWaiters
<1> QED
  BY <1>2, <1>3, <1>4, <1>5, <1>6, <1>7, <1>8, <1>9 DEF GuardStep

(* Clones and telemetry entries stay in step with the guard's position. *)
LEMMA GuardStepGuardInv ==
    ASSUME IInv, NEW i \in Ids, GuardStep(i)
    PROVE  GuardInv'
<1> USE DEF IInv, TypeOK, GuardInv, svars, wvars
<1>1. CASE InsertCount(i)
  BY <1>1 DEF InsertCount
<1>2. CASE InsertMap(i)
  BY <1>2 DEF InsertMap
<1>3. CASE Update(i)
  BY <1>3 DEF Update, Infos
<1>4. CASE CloneGuard(i)
  BY <1>4 DEF CloneGuard
<1>5. CASE DropClone(i)
  BY <1>5 DEF DropClone
<1>6. CASE DropMap(i)
  BY <1>6 DEF DropMap
<1>7. CASE DropCount(i)
  BY <1>7 DEF DropCount
<1>8. CASE NotifyWaiters(i)
  BY <1>8 DEF NotifyWaiters
<1> QED
  BY <1>1, <1>2, <1>3, <1>4, <1>5, <1>6, <1>7, <1>8 DEF GuardStep

(* The drop that brings the counter to zero owes a notify_waiters, and the     *)
(* notify_waiters reaches every waiter that had parked.                        *)
LEMMA GuardStepWakeup ==
    ASSUME IInv, NEW i \in Ids, GuardStep(i)
    PROVE  NoLostWakeup'
<1> USE DEF IInv, TypeOK, NoLostWakeup, svars, wvars
<1>1. CASE InsertCount(i)
  BY <1>1 DEF InsertCount
<1>2. CASE InsertMap(i)
  BY <1>2 DEF InsertMap
<1>3. CASE Update(i)
  BY <1>3 DEF Update
<1>4. CASE CloneGuard(i)
  BY <1>4 DEF CloneGuard
<1>5. CASE DropClone(i)
  BY <1>5 DEF DropClone
<1>6. CASE DropMap(i)
  BY <1>6 DEF DropMap
<1>7. CASE DropCount(i)
  <2>1. count' = 0 => gpc'[i] = "last"
    BY <1>7 DEF DropCount
  <2> QED
    BY <1>7, <2>1 DEF DropCount
<1>8. CASE NotifyWaiters(i)
  <2>1. \A w \in Waiters : wpc'[w] \in {"positive", "parked"} => notified'[w]
    BY <1>8 DEF NotifyWaiters, Listening
  <2> QED
    BY <2>1
<1> QED
  BY <1>1, <1>2, <1>3, <1>4, <1>5, <1>6, <1>7, <1>8 DEF GuardStep

(* A waiter's step only moves that waiter. *)
LEMMA WaiterStepInv ==
    ASSUME IInv, NEW w \in Waiters, WaiterStep(w)
    PROVE  IInv'
<1> USE DEF IInv, svars
<1>1. UNCHANGED <<telemetry, svars>>
  BY DEF WaiterStep, WaitCall, WaitEnable, WaitLoad, WaitPoll, WaitWake
<1>2. CountIsGuards' /\ GuardInv'
  BY <1>1 DEF CountIsGuards, Counted, GuardInv
<1>3. TypeOK'
  BY <1>1 DEF TypeOK, WaiterStates, WaiterStep, WaitCall, WaitEnable, WaitLoad, WaitPoll, WaitWake
<1>4. NoLostWakeup'
  <2> USE DEF NoLostWakeup, TypeOK
  <2>1. CASE WaitCall(w)
    BY <1>1, <2>1 DEF WaitCall
  <2>2. CASE WaitEnable(w)
    BY <1>1, <2>2 DEF WaitEnable
  <2>3. CASE WaitLoad(w)
    BY <1>1, <2>3 DEF WaitLoad
  <2>4. CASE WaitWake(w)
    BY <1>1, <2>4 DEF WaitWake
  <2>5. CASE WaitPoll(w)
    BY <1>1, <2>5 DEF WaitPoll
  <2> QED
    BY <2>1, <2>2, <2>3, <2>4, <2>5 DEF WaiterStep
<1> QED
  BY <1>2, <1>3, <1>4

-----------------------------------------------------------------------------
LEMMA InitInv == Init => IInv
<1> SUFFICES ASSUME Init PROVE IInv
  OBVIOUS
<1>1. TypeOK
  BY ClonesAssumption DEF Init, TypeOK, GuardStates, WaiterStates
<1>2. Counted = {}
  BY DEF Init, Counted
<1>3. CountIsGuards
  BY <1>2, FS_EmptySet DEF Init, CountIsGuards
<1>4. GuardInv /\ NoLostWakeup
  BY DEF Init, GuardInv, NoLostWakeup
<1> QED
  BY <1>1, <1>3, <1>4 DEF IInv

LEMMA NextInv == IInv /\ [Next]_vars => IInv'
<1> SUFFICES ASSUME IInv, [Next]_vars PROVE IInv'
  OBVIOUS
<1>1. ASSUME NEW i \in Ids, GuardStep(i) PROVE IInv'
  BY <1>1, GuardStepType, GuardStepCount, GuardStepGuardInv, GuardStepWakeup DEF IInv
<1>2. ASSUME NEW w \in Waiters, WaiterStep(w) PROVE IInv'
  BY <1>2, WaiterStepInv
<1>3. CASE UNCHANGED vars
  BY <1>3 DEF vars, svars, wvars, IInv, TypeOK, CountIsGuards, Counted, GuardInv, NoLostWakeup
<1> QED
  BY <1>1, <1>2, <1>3 DEF Next

THEOREM Invariance == Safety => []IInv
BY InitInv, NextInv, PTL DEF Safety

(* Type correctness: in particular the counter never goes below zero. *)
THEOREM TypeCorrect == Safety => []TypeOK
<1>1. IInv => TypeOK
  BY DEF IInv
<1> QED
  BY <1>1, Invariance, PTL

(* The counter counts each guard once, from insert to the drop of its last clone. *)
THEOREM CounterExact == Safety => []CountIsGuards
<1>1. IInv => CountIsGuards
  BY DEF IInv
<1> QED
  BY <1>1, Invariance, PTL

(* A parked waiter of an empty set is notified or about to be. *)
THEOREM WakeupNotLost == Safety => []NoLostWakeup
<1>1. IInv => NoLostWakeup
  BY DEF IInv
<1> QED
  BY <1>1, Invariance, PTL

(* When the counter is zero the telemetry map is empty. *)
THEOREM ZeroClean == Safety => []ZeroMeansCleanMap
<1>1. IInv => ZeroMeansCleanMap
  <2> SUFFICES ASSUME IInv, count = 0, NEW i \in Ids
               PROVE  map[i] = "absent"
    BY DEF ZeroMeansCleanMap
  <2>1. Counted = {}
    BY ZeroCountEmpty DEF IInv
  <2> QED
    BY <2>1 DEF IInv, GuardInv, Counted
<1> QED
  BY <1>1, Invariance, PTL

(* A held guard is in the telemetry map exactly when there is one. *)
THEOREM HeldRecorded == Safety => []HeldIsRecorded
<1>1. IInv => HeldIsRecorded
  BY DEF IInv, GuardInv, HeldIsRecorded
<1> QED
  BY <1>1, Invariance, PTL

(* The map and the guards agree while there are guards, and when there are none. *)
THEOREM MapMirrored == Safety => []MapMirrorsGuards
<1>1. ZeroMeansCleanMap /\ HeldIsRecorded => MapMirrorsGuards
  BY DEF MapMirrorsGuards
<1> QED
  BY <1>1, ZeroClean, HeldRecorded, PTL

-----------------------------------------------------------------------------
(* Every step of the implementation is a step of the gate or leaves it alone. *)
LEMMA GuardStepSimulates ==
    ASSUME IInv, NEW i \in Ids, GuardStep(i)
    PROVE  [Gate!GateNext]_Gate!gvars
<1> USE DEF IInv, wvars, svars
<1>1. InCall' = InCall /\ Returned' = Returned
  BY DEF GuardStep, InsertCount, InsertMap, Update, CloneGuard, DropClone, DropMap, DropCount,
         NotifyWaiters, InCall, Returned
<1>2. ASSUME Counted' = Counted PROVE UNCHANGED Gate!gvars
  BY <1>1, <1>2 DEF Gate!gvars
<1>3. CASE InsertCount(i)
  <2>1. i \notin Counted /\ Counted' = Counted \cup {i}
    BY <1>3, CountedAfterMove DEF InsertCount, GuardStates, Counted
  <2>2. Gate!Enter(i)
    BY <1>1, <2>1 DEF Gate!Enter
  <2> QED
    BY <2>2 DEF Gate!GateNext
<1>4. CASE DropCount(i)
  <2>1. i \in Counted
    BY <1>4 DEF DropCount, Counted
  <2>2. Counted' = Counted \ {i}
    BY <1>4, CountedAfterMove DEF DropCount, GuardStates
  <2>3. Gate!Leave(i)
    BY <1>1, <2>1, <2>2 DEF Gate!Leave
  <2> QED
    BY <2>3 DEF Gate!GateNext
<1>5. CASE InsertMap(i) \/ Update(i) \/ CloneGuard(i) \/ DropClone(i) \/ DropMap(i) \/ NotifyWaiters(i)
  <2>1. Counted' = Counted
    BY <1>5 DEF InsertMap, Update, CloneGuard, DropClone, DropMap, NotifyWaiters, Counted, TypeOK
  <2> QED
    BY <1>2, <2>1
<1> QED
  BY <1>3, <1>4, <1>5 DEF GuardStep

LEMMA WaiterStepSimulates ==
    ASSUME IInv, NEW w \in Waiters, WaiterStep(w)
    PROVE  [Gate!GateNext]_Gate!gvars
<1> USE DEF IInv, TypeOK, svars
<1>1. Counted' = Counted
  BY DEF WaiterStep, WaitCall, WaitEnable, WaitLoad, WaitPoll, WaitWake, Counted
<1>2. CASE WaitCall(w)
  <2>1. Gate!Call(w)
    BY <1>1, <1>2 DEF WaitCall, Gate!Call, InCall, Returned
  <2> QED
    BY <2>1 DEF Gate!GateNext
<1>3. CASE WaitEnable(w) \/ WaitPoll(w) \/ WaitWake(w) \/ (WaitLoad(w) /\ count # 0)
  <2>1. InCall' = InCall /\ Returned' = Returned
    BY <1>3 DEF WaitEnable, WaitPoll, WaitWake, WaitLoad, InCall, Returned
  <2> QED
    BY <1>1, <2>1 DEF Gate!gvars
<1>4. CASE WaitLoad(w) /\ count = 0
  <2>1. Counted = {}
    BY <1>4, ZeroCountEmpty
  <2>2. /\ w \in InCall
        /\ InCall' = InCall \ {w}
        /\ Returned' = Returned \cup {w}
    BY <1>4 DEF WaitLoad, InCall, Returned
  <2>3. Gate!Return(w)
    BY <1>1, <2>1, <2>2 DEF Gate!Return
  <2> QED
    BY <2>3 DEF Gate!GateNext
<1> QED
  BY <1>2, <1>3, <1>4 DEF WaiterStep

(* The counter, the mutex and the Notify implement the gate's safety: wait_for_zero *)
(* returns only at an instant at which no request is in the set.                    *)
THEOREM Refinement == Safety => ImplementsGateSafety
<1>1. Init => Gate!GateInit
  BY DEF Init, Gate!GateInit, Counted, InCall, Returned
<1>2. IInv /\ [Next]_vars => [Gate!GateNext]_Gate!gvars
  <2> SUFFICES ASSUME IInv, [Next]_vars PROVE [Gate!GateNext]_Gate!gvars
    OBVIOUS
  <2>1. ASSUME NEW i \in Ids, GuardStep(i) PROVE [Gate!GateNext]_Gate!gvars
    BY <2>1, GuardStepSimulates
  <2>2. ASSUME NEW w \in Waiters, WaiterStep(w) PROVE [Gate!GateNext]_Gate!gvars
    BY <2>2, WaiterStepSimulates
  <2>3. CASE UNCHANGED vars
    BY <2>3 DEF vars, svars, wvars, Gate!gvars, Counted, InCall, Returned
  <2> QED
    BY <2>1, <2>2, <2>3 DEF Next
<1> QED
  BY <1>1, <1>2, Invariance, PTL DEF Safety, ImplementsGateSafety, Gate!GateSafety
=============================================================================
