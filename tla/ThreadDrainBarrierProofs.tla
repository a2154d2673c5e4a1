---------------------- MODULE ThreadDrainBarrierProofs ----------------------
(***************************************************************************)
(* Safety of the thread barrier, for every finite number of threads.  Its  *)
(* liveness fails (a wakeup can be lost), which only TLC can show.         *)
(***************************************************************************)
EXTENDS ThreadDrainBarrier, FiniteSetTheorems, TLAPS

IInv == TypeOK /\ LastThreadNotifies /\ ReturnMeansAllDone

LEMMA OwingFinite == IsFiniteSet(Owing) /\ Cardinality(Owing) \in Nat
<1>1. Owing \subseteq Threads
  BY DEF Owing
<1>2. IsFiniteSet(Owing)
  BY <1>1, ThreadsAssumption, FS_Subset
<1> QED
  BY <1>2, FS_CardinalityType

LEMMA InitInv == Init => IInv
<1> SUFFICES ASSUME Init PROVE IInv
  OBVIOUS
<1>1. Owing = Threads
  BY DEF Init, Owing
<1>2. Cardinality(Threads) \in Nat
  BY ThreadsAssumption, FS_CardinalityType
<1> QED
  BY <1>1, <1>2 DEF Init, IInv, TypeOK, ThreadStates, MainStates, LastThreadNotifies, ReturnMeansAllDone

(* The step that matters: a thread leaves the set and the counter together. *)
LEMMA ThreadDoneInv ==
    ASSUME IInv, NEW t \in Threads, ThreadDone(t)
    PROVE  IInv'
<1> USE DEF IInv, ThreadDone, TypeOK
<1>1. t \in Owing
  BY DEF Owing
<1>2. Owing' = Owing \ {t}
  BY DEF Owing
<1>3. Cardinality(Owing') = Cardinality(Owing) - 1
  BY <1>1, <1>2, OwingFinite, FS_RemoveElement
<1>4. Cardinality(Owing) # 0
  BY <1>1, OwingFinite, FS_EmptySet
<1>5. remaining = Cardinality(Owing) /\ remaining > 0 /\ remaining' = Cardinality(Owing')
  BY <1>3, <1>4, OwingFinite DEF LastThreadNotifies
<1>6. TypeOK'
  BY <1>5 DEF ThreadStates
<1>7. remaining = 1 => Owing' = {}
  BY <1>2, <1>3, <1>5, OwingFinite, FS_EmptySet, FS_Subset
<1>8. \A s \in Threads : tpc[s] # "last"
  BY <1>1 DEF LastThreadNotifies
<1>9. LastThreadNotifies'
  BY <1>5, <1>7, <1>8 DEF LastThreadNotifies
<1>10. ReturnMeansAllDone'
  BY <1>1 DEF ReturnMeansAllDone
<1> QED
  BY <1>6, <1>9, <1>10

(* Neither a start nor a panic nor the notification changes who owes a signal. *)
LEMMA QuietInv ==
    ASSUME IInv, NEW t \in Threads, Start(t) \/ Panic(t) \/ NotifyWaiters(t)
    PROVE  IInv'
<1> USE DEF IInv, Start, Panic, NotifyWaiters, TypeOK
<1>1. Owing' = Owing
  BY DEF Owing
<1>2. TypeOK'
  BY DEF ThreadStates
<1>3. LastThreadNotifies'
  BY <1>1 DEF LastThreadNotifies
<1>4. ReturnMeansAllDone'
  BY <1>1 DEF ReturnMeansAllDone
<1> QED
  BY <1>2, <1>3, <1>4

LEMMA MainInv ==
    ASSUME IInv, WaitAllDone \/ LoadRemaining \/ CreateNotified \/ Wake
    PROVE  IInv'
<1> USE DEF IInv, WaitAllDone, LoadRemaining, CreateNotified, Wake
<1>1. Owing' = Owing
  BY DEF Owing
<1>2. TypeOK'
  BY DEF TypeOK, MainStates
<1>3. LastThreadNotifies'
  BY <1>1 DEF LastThreadNotifies
<1>4. remaining = 0 => Owing = {}
  BY OwingFinite, FS_EmptySet DEF LastThreadNotifies
<1>5. ReturnMeansAllDone'
  BY <1>1, <1>4 DEF ReturnMeansAllDone
<1> QED
  BY <1>2, <1>3, <1>5

LEMMA NextInv == IInv /\ [Next]_vars => IInv'
<1> SUFFICES ASSUME IInv, [Next]_vars PROVE IInv'
  OBVIOUS
<1>1. CASE UNCHANGED vars
  BY <1>1 DEF vars, IInv, TypeOK, LastThreadNotifies, ReturnMeansAllDone, Owing
<1> QED
  BY <1>1, ThreadDoneInv, QuietInv, MainInv DEF Next

THEOREM Invariance == Safety => []IInv
BY InitInv, NextInv, PTL DEF Safety

(* The counter keeps its type: fetch_sub never goes below zero. *)
THEOREM TypeCorrect == Safety => []TypeOK
<1>1. IInv => TypeOK
  BY DEF IInv
<1> QED
  BY <1>1, Invariance, PTL

(* wait_all_done returns only after every thread's block_on has returned. *)
THEOREM ReturnSound == Safety => []ReturnMeansAllDone
<1>1. IInv => ReturnMeansAllDone
  BY DEF IInv
<1> QED
  BY <1>1, Invariance, PTL

(* The notification is sent once, by the last thread. *)
THEOREM OneNotifier == Safety => []LastThreadNotifies
<1>1. IInv => LastThreadNotifies
  BY DEF IInv
<1> QED
  BY <1>1, Invariance, PTL

(* Every step of the barrier is a step of the gate or leaves it alone. *)
LEMMA StepSimulates == IInv /\ [Next]_vars => [Gate!GateNext]_Gate!gvars
<1> SUFFICES ASSUME IInv, [Next]_vars PROVE [Gate!GateNext]_Gate!gvars
  OBVIOUS
<1> USE DEF IInv, TypeOK
<1>1. ASSUME NEW t \in Threads, ThreadDone(t) PROVE Gate!Leave(t)
  BY <1>1 DEF ThreadDone, Gate!Leave, Owing, InWait, Released
<1>2. ASSUME NEW t \in Threads, Start(t) \/ Panic(t) \/ NotifyWaiters(t)
      PROVE  UNCHANGED Gate!gvars
  BY <1>2 DEF Start, Panic, NotifyWaiters, Gate!gvars, Owing, InWait, Released
<1>3. CASE WaitAllDone
  <2>1. Gate!Call("main")
    BY <1>3 DEF WaitAllDone, Gate!Call, Owing, InWait, Released
  <2> QED
    BY <2>1 DEF Gate!GateNext
<1>4. CASE LoadRemaining /\ remaining = 0
  <2>1. Owing = {}
    BY <1>4, OwingFinite, FS_EmptySet DEF LastThreadNotifies
  <2>2. Gate!Return("main")
    BY <1>4, <2>1 DEF LoadRemaining, Gate!Return, Owing, InWait, Released
  <2> QED
    BY <2>2 DEF Gate!GateNext
<1>5. CASE (LoadRemaining /\ remaining # 0) \/ CreateNotified \/ Wake \/ UNCHANGED vars
  BY <1>5 DEF LoadRemaining, CreateNotified, Wake, vars, Gate!gvars, Owing, InWait, Released
<1> QED
  BY <1>1, <1>2, <1>3, <1>4, <1>5 DEF Next, Gate!GateNext

(* The barrier implements the safety of the drain gate. *)
THEOREM Refinement == Safety => ImplementsGateSafety
<1>1. Init => Gate!GateInit
  BY DEF Init, Gate!GateInit, Owing, InWait, Released
<1> QED
  BY <1>1, StepSimulates, Invariance, PTL DEF Safety, ImplementsGateSafety, Gate!GateSafety
=============================================================================
