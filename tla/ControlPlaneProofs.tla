------------------------- MODULE ControlPlaneProofs -------------------------
(***************************************************************************)
(* Safety of the restart protocol, for any number of restart attempts, any *)
(* set of process ids and any bound on the queue of requests.              *)
(***************************************************************************)
EXTENDS ControlPlane, TLAPS

(* A child's process, its id and its task go together. *)
ChildInv ==
    \A c \in Children :
        /\ proc[c] = "none" <=> task[c] = "none"
        /\ proc[c] # "none" => pid[c] \in Pids
        /\ proc[c] = "reaped" => task[c] \in {"crashed", "unlocked"}
        /\ proc[c] \in {"alive", "zombie"} => pid[c] \notin others

(* In the loop no reason to leave has been recorded and no child handed over to. *)
LoopInv ==
    /\ InLoop => cause = "none" /\ \A c \in Children : task[c] # "handed"
    /\ Left => cause # "none"
    /\ force => cause = "restart"

IInv == /\ TypeOK /\ LockHasOneHolder /\ ChildPidIsAttempts
        /\ SignalLeavesNoChild /\ StopsForASuccessor /\ ChildInv /\ LoopInv

(* The four properties, without the type invariant. *)
Core == LockHasOneHolder /\ ChildPidIsAttempts /\ SignalLeavesNoChild /\ StopsForASuccessor
            /\ ChildInv /\ LoopInv

-----------------------------------------------------------------------------
LEMMA InitInv == Init => IInv
<1> SUFFICES ASSUME Init PROVE IInv
  OBVIOUS
<1>1. TypeOK
  <2>1. restartQ \in Seq(BOOLEAN)
    BY DEF Init
  <2>2. /\ proc \in [Children -> {"none", "alive", "zombie", "reaped"}]
        /\ pid \in [Children -> Pids \cup {NoPid}]
        /\ task \in [Children -> {"none", "sleeping", "stable", "crashed", "failed", "handed", "unlocked"}]
        /\ request \in [Children -> BOOLEAN]
    BY DEF Init
  <2> QED
    BY <2>1, <2>2 DEF Init, TypeOK
<1>2. Core
  BY DEF Init, Core, LockHasOneHolder, ChildPidIsAttempts, SignalLeavesNoChild, StopsForASuccessor,
         ChildInv, LoopInv, Pending, InLoop, Left
<1> QED
  BY <1>1, <1>2 DEF IInv, Core

(* Type correctness, action by action. *)
LEMMA TypeStep ==
    ASSUME IInv, Next
    PROVE  TypeOK'
<1> USE DEF IInv, TypeOK, mainvars, sigvars, childvars
<1>1. ASSUME NEW f \in BOOLEAN, Restart(f) PROVE TypeOK'
  BY <1>1 DEF Restart
<1>2. CASE Poll
  BY <1>2 DEF Poll
<1>3. CASE RestartDropped
  <2>1. Tail(restartQ) \in Seq(BOOLEAN)
    BY <1>3 DEF RestartDropped
  <2> QED
    BY <1>3, <2>1 DEF RestartDropped, Taken
<1>4. ASSUME NEW c \in Children, NEW p \in Pids, RestartSpawned(c, p) PROVE TypeOK'
  <2>1. Head(restartQ) \in BOOLEAN /\ Tail(restartQ) \in Seq(BOOLEAN)
    BY <1>4 DEF RestartSpawned
  <2> QED
    BY <1>4, <2>1 DEF RestartSpawned, Taken
<1>5. ASSUME NEW c \in Children, CheckStability(c) PROVE TypeOK'
  BY <1>5 DEF CheckStability, Verdict
<1>6. ASSUME NEW c \in Children, HandOver(c) PROVE TypeOK'
  BY <1>6 DEF HandOver, Taken
<1>7. ASSUME NEW c \in Children, Unlock(c) PROVE TypeOK'
  BY <1>7 DEF Unlock, Taken
<1>8. CASE SigInt \/ SigTerm
  <2>1. TypeOK' \/ ~KillChild
    BY <1>8 DEF SigInt, SigTerm, Shutdown, Taken, KillChild
  <2> QED
    BY <1>8, <2>1 DEF SigInt, SigTerm, Shutdown
<1>9. CASE PreHookReturns \/ PreHookTimeout \/ ForceExit \/ GracefulExit
  BY <1>9 DEF PreHookReturns, PreHookTimeout, AfterPreHook, ForceExit, GracefulExit, Exit
<1>10. CASE SendSigInt \/ SendSigTerm
  BY <1>10 DEF SendSigInt, SendSigTerm
<1>11. ASSUME NEW c \in Children, ChildExits(c) PROVE TypeOK'
  BY <1>11 DEF ChildExits
<1>12. ASSUME NEW p \in Pids, StrangerStarts(p) \/ StrangerExits(p) PROVE TypeOK'
  BY <1>12 DEF StrangerStarts, StrangerExits
<1>13. CASE UNCHANGED vars
  BY <1>13 DEF vars
<1> QED
  BY <1>1, <1>2, <1>3, <1>4, <1>5, <1>6, <1>7, <1>8, <1>9, <1>10, <1>11, <1>12, <1>13
  DEF Next, Main, Environment

-----------------------------------------------------------------------------
(* Steps that leave the control plane's decisions and the children alone. *)
LEMMA QuietStep ==
    ASSUME IInv, UNCHANGED <<mainvars, childvars>>,
           \A c \in Children : pid[c] \in others' => pid[c] \in others \/ ~InUse(pid[c])
    PROVE  Core'
BY DEF IInv, Core, mainvars, childvars, LockHasOneHolder, ChildPidIsAttempts, SignalLeavesNoChild,
       StopsForASuccessor, ChildInv, LoopInv, Pending, InLoop, Left, InUse

(* Steps that move the control plane within the loop, or after it. *)
LEMMA PcStep ==
    ASSUME IInv, UNCHANGED <<inProgress, childPid, stopSent, force, cause, childvars, others>>,
           \/ pc \in {"top", "select"} /\ pc' \in {"top", "select"}
           \/ pc \in {"prehook", "draining"} /\ pc' \in {"draining", "exited"}
    PROVE  Core'
BY DEF IInv, Core, childvars, LockHasOneHolder, ChildPidIsAttempts, SignalLeavesNoChild,
       StopsForASuccessor, ChildInv, LoopInv, Pending, InLoop, Left

(* A new attempt: the lock was free, so it is the only one. *)
LEMMA SpawnStep ==
    ASSUME IInv, NEW c \in Children, NEW p \in Pids, RestartSpawned(c, p)
    PROVE  Core'
<1> USE DEF IInv, TypeOK, RestartSpawned, Taken, MayRestart, InUse
<1>1. Pending = {} /\ Pending' = {c}
  BY DEF Pending, LockHasOneHolder, InLoop
<1>2. LockHasOneHolder' /\ ChildPidIsAttempts'
  BY <1>1 DEF LockHasOneHolder, ChildPidIsAttempts, InLoop
<1>3. SignalLeavesNoChild' /\ StopsForASuccessor' /\ LoopInv'
  BY DEF SignalLeavesNoChild, StopsForASuccessor, LoopInv, InLoop, Left
<1>4. ChildInv'
  BY DEF ChildInv
<1> QED
  BY <1>2, <1>3, <1>4 DEF Core

(* A verdict: the attempt stays pending, its process dead only if it was seen dead. *)
LEMMA CheckStep ==
    ASSUME IInv, NEW c \in Children, CheckStability(c)
    PROVE  Core'
<1> USE DEF IInv, TypeOK, CheckStability, Verdict, mainvars
<1>1. Pending' = Pending /\ c \in Pending
  BY DEF Pending
<1>2. LockHasOneHolder' /\ ChildPidIsAttempts'
  BY <1>1 DEF LockHasOneHolder, ChildPidIsAttempts, InLoop
<1>3. SignalLeavesNoChild'
  BY DEF SignalLeavesNoChild
<1>4. StopsForASuccessor' /\ LoopInv'
  BY DEF StopsForASuccessor, LoopInv, InLoop, Left
<1>5. ChildInv'
  BY DEF ChildInv
<1> QED
  BY <1>2, <1>3, <1>4, <1>5 DEF Core

(* The handover: the child handed over to was the only pending one. *)
LEMMA HandOverStep ==
    ASSUME IInv, NEW c \in Children, HandOver(c)
    PROVE  Core'
<1> USE DEF IInv, TypeOK, HandOver, Taken
<1>1. \A d \in Children \ {c} : task[d] \in {"none", "unlocked"}
  BY DEF LockHasOneHolder, Pending, LoopInv, InLoop
<1>2. Pending' = {}
  BY <1>1 DEF Pending
<1>3. LockHasOneHolder' /\ ChildPidIsAttempts' /\ SignalLeavesNoChild'
  BY <1>2 DEF LockHasOneHolder, ChildPidIsAttempts, SignalLeavesNoChild, InLoop
<1>4. proc[c] \in {"alive", "zombie"}
  BY DEF ChildInv
<1>5. StopsForASuccessor' /\ LoopInv'
  BY <1>1, <1>4 DEF StopsForASuccessor, LoopInv, InLoop, Left
<1>6. ChildInv'
  BY DEF ChildInv
<1> QED
  BY <1>3, <1>5, <1>6 DEF Core

(* A failed attempt: nothing is pending any more. *)
LEMMA UnlockStep ==
    ASSUME IInv, NEW c \in Children, Unlock(c)
    PROVE  Core'
<1> USE DEF IInv, TypeOK, Unlock, Taken
<1>1. Pending' = {}
  BY DEF LockHasOneHolder, Pending
<1>2. LockHasOneHolder' /\ ChildPidIsAttempts'
  BY <1>1 DEF LockHasOneHolder, ChildPidIsAttempts, InLoop
<1>3. SignalLeavesNoChild' /\ StopsForASuccessor' /\ LoopInv'
  BY DEF SignalLeavesNoChild, StopsForASuccessor, LoopInv, InLoop, Left
<1>4. ChildInv'
  BY DEF ChildInv
<1> QED
  BY <1>2, <1>3, <1>4 DEF Core

(* A signal: the recorded id is that of the pending child, and every other process *)
(* still alive belongs to an attempt that was unlocked.                            *)
LEMMA ShutdownStep ==
    ASSUME IInv, NEW signal \in {"int", "term"}, Shutdown(signal)
    PROVE  Core'
<1> USE DEF IInv, TypeOK, Shutdown, Taken
<1>1. Pending' = Pending
  BY DEF Pending
<1>2. LockHasOneHolder' /\ ChildPidIsAttempts'
  BY <1>1 DEF LockHasOneHolder, ChildPidIsAttempts, InLoop
<1>3. \A c \in Children : proc'[c] = proc[c] \/ (proc[c] = "alive" /\ proc'[c] = "zombie")
  BY DEF KillChild
<1>4. SignalLeavesNoChild'
  <2> SUFFICES ASSUME NEW c \in Children, proc'[c] = "alive" PROVE task[c] = "unlocked"
    BY DEF SignalLeavesNoChild
  <2>1. proc[c] = "alive"
    BY <1>3
  <2>2. task[c] \notin {"none", "handed"}
    BY <2>1 DEF ChildInv, LoopInv, InLoop
  <2>3. c \notin Pending
    <3> SUFFICES ASSUME c \in Pending PROVE FALSE
      OBVIOUS
    <3>1. inProgress /\ childPid = pid[c] /\ pid[c] \in Pids
      BY <2>1 DEF LockHasOneHolder, ChildPidIsAttempts, ChildInv, InLoop
    <3>2. childPid # NoPid
      BY <3>1, NoPidAssumption
    <3>3. proc'[c] = "zombie"
      BY <2>1, <3>1, <3>2 DEF KillChild
    <3> QED
      BY <3>3
  <2> QED
    BY <2>2, <2>3 DEF Pending
<1>5. StopsForASuccessor' /\ LoopInv'
  BY DEF StopsForASuccessor, LoopInv, InLoop, Left
<1>6. others' \subseteq others
  BY DEF KillChild
<1>7. ChildInv'
  <2> SUFFICES ASSUME NEW c \in Children
               PROVE  /\ proc'[c] = "none" <=> task'[c] = "none"
                      /\ proc'[c] # "none" => pid'[c] \in Pids
                      /\ proc'[c] = "reaped" => task'[c] \in {"crashed", "unlocked"}
                      /\ proc'[c] \in {"alive", "zombie"} => pid'[c] \notin others'
    BY DEF ChildInv
  <2> QED
    BY <1>3, <1>6 DEF ChildInv
<1> QED
  BY <1>2, <1>4, <1>5, <1>7 DEF Core

(* A child's death takes nothing away from what is known of it. *)
LEMMA ChildExitStep ==
    ASSUME IInv, NEW c \in Children, ChildExits(c)
    PROVE  Core'
<1> USE DEF IInv, TypeOK, ChildExits, mainvars
<1>1. Pending' = Pending
  BY DEF Pending
<1>2. LockHasOneHolder' /\ ChildPidIsAttempts' /\ LoopInv'
  BY <1>1 DEF LockHasOneHolder, ChildPidIsAttempts, LoopInv, InLoop, Left
<1>3. SignalLeavesNoChild' /\ StopsForASuccessor'
  BY DEF SignalLeavesNoChild, StopsForASuccessor, Left
<1>4. ChildInv'
  BY DEF ChildInv
<1> QED
  BY <1>2, <1>3, <1>4 DEF Core

LEMMA CoreStep ==
    ASSUME IInv, Next
    PROVE  Core'
<1>1. ASSUME UNCHANGED <<mainvars, childvars, others>> PROVE Core'
  BY <1>1, QuietStep
<1>2. ASSUME NEW f \in BOOLEAN, Restart(f) PROVE Core'
  BY <1>1, <1>2 DEF Restart
<1>3. CASE SendSigInt \/ SendSigTerm
  BY <1>1, <1>3 DEF SendSigInt, SendSigTerm
<1>4. ASSUME NEW p \in Pids, StrangerStarts(p) \/ StrangerExits(p) PROVE Core'
  BY <1>4, QuietStep DEF StrangerStarts, StrangerExits
<1>5. CASE Poll \/ RestartDropped
  BY <1>5, PcStep DEF Poll, RestartDropped, Taken
<1>6. CASE PreHookReturns \/ PreHookTimeout \/ ForceExit \/ GracefulExit
  BY <1>6, PcStep DEF PreHookReturns, PreHookTimeout, PreHookTimedOut, AfterPreHook, ForceExit,
                      GracefulExit, Exit
<1>7. CASE SigInt \/ SigTerm
  BY <1>7, ShutdownStep DEF SigInt, SigTerm
<1>8. ASSUME NEW c \in Children,
             HandOver(c) \/ Unlock(c) \/ CheckStability(c) \/ ChildExits(c)
      PROVE  Core'
  BY <1>8, HandOverStep, UnlockStep, CheckStep, ChildExitStep
<1>9. CASE UNCHANGED vars
  BY <1>1, <1>9 DEF vars
<1> QED
  BY <1>2, <1>3, <1>4, <1>5, <1>6, <1>7, <1>8, <1>9, SpawnStep DEF Next, Main, Environment

LEMMA NextInv == IInv /\ [Next]_vars => IInv'
<1>1. ASSUME IInv, Next PROVE IInv'
  BY <1>1, TypeStep, CoreStep DEF IInv, Core
<1>2. ASSUME IInv, UNCHANGED vars PROVE IInv'
  <2>1. TypeOK'
    BY <1>2 DEF IInv, TypeOK, vars, mainvars, sigvars, childvars
  <2> QED
    BY <1>2, <2>1, QuietStep DEF IInv, Core, vars
<1> QED
  BY <1>1, <1>2

THEOREM Invariance == Safety => []IInv
BY InitInv, NextInv, PTL DEF Safety

(* Type correctness of the control plane. *)
THEOREM TypeCorrect == Safety => []TypeOK
<1>1. IInv => TypeOK
  BY DEF IInv
<1> QED
  BY <1>1, Invariance, PTL

(* restart_in_progress is a lock with at most one holder, and child_pid is the id *)
(* of the process under verification.                                             *)
THEOREM RestartLock == Safety => []OneAttempt
<1>1. IInv => OneAttempt
  BY DEF IInv, OneAttempt
<1> QED
  BY <1>1, Invariance, PTL

(* SIGINT and SIGTERM leave no unverified process behind. *)
THEOREM NoChildLeft == Safety => []SignalLeavesNoChild
<1>1. IInv => SignalLeavesNoChild
  BY DEF IInv
<1> QED
  BY <1>1, Invariance, PTL

(* A restart stops the accept loops only for the one child that was verified. *)
THEOREM OneSuccessor == Safety => []StopsForASuccessor
<1>1. IInv => StopsForASuccessor
  BY DEF IInv
<1> QED
  BY <1>1, Invariance, PTL

(* The exit that skips the drain is that of a restart that asked for it. *)
THEOREM ForcedExitOnly == Safety => CutOffOnlyIfForced
<1>1. IInv /\ [Next]_vars => [ExitAsAsked]_vars
  <2> SUFFICES ASSUME IInv, Next, pc = "draining", pc' = "exited", ~GracefulExit
               PROVE  cause = "restart" /\ \E c \in Children : task[c] = "handed" /\ request[c]
    BY DEF vars, ExitAsAsked
  <2>1. ForceExit
    <3>1. ASSUME NEW f \in BOOLEAN PROVE ~Restart(f)
      BY DEF Restart, mainvars
    <3>2. ~(Poll \/ RestartDropped \/ SigInt \/ SigTerm \/ PreHookReturns \/ PreHookTimeout)
      BY DEF Poll, RestartDropped, SigInt, SigTerm, Shutdown, Taken, PreHookReturns, PreHookTimeout,
             PreHookTimedOut
    <3>3. ~(SendSigInt \/ SendSigTerm \/ (pc = "exited" /\ UNCHANGED vars))
      BY DEF SendSigInt, SendSigTerm, mainvars
    <3>4. ASSUME NEW c \in Children
          PROVE  ~(HandOver(c) \/ Unlock(c) \/ CheckStability(c) \/ ChildExits(c))
      BY DEF HandOver, Unlock, Taken, CheckStability, ChildExits, mainvars
    <3>5. ASSUME NEW p \in Pids
          PROVE  /\ ~(StrangerStarts(p) \/ StrangerExits(p))
                 /\ \A c \in Children : ~RestartSpawned(c, p)
      BY DEF StrangerStarts, StrangerExits, RestartSpawned, Taken, mainvars
    <3> QED
      BY <3>1, <3>2, <3>3, <3>4, <3>5 DEF Next, Main, Environment
  <2>2. cause = "restart"
    BY <2>1 DEF ForceExit, SkipsDrain, IInv, LoopInv
  <2> QED
    BY <2>1, <2>2 DEF ForceExit, SkipsDrain, IInv, StopsForASuccessor
<1> QED
  BY <1>1, Invariance, PTL DEF Safety, CutOffOnlyIfForced

(* Both: what the control plane stops for, and what its exit may cut off. *)
THEOREM HandoverSound == Safety => OnlyAForcedHandoverCutsOff
<1>1. StopsForASuccessor' /\ [ExitAsAsked]_vars => [StopsForASuccessor' /\ ExitAsAsked]_vars
  OBVIOUS
<1> QED
  BY <1>1, OneSuccessor, ForcedExitOnly, PTL DEF CutOffOnlyIfForced, OnlyAForcedHandoverCutsOff

(* SIGKILL reaches an unrelated process only in the window between the reaping of *)
(* a crashed child and the receipt of its verdict.                                *)
THEOREM StrayKillWindow == Safety => KillGoesAstrayOnlyOnceReaped
<1>1. ASSUME IInv, Next, pc = "select", pc' = "draining", others' # others
      PROVE  \E c \in Children : task[c] = "crashed" /\ pid[c] = childPid /\ proc[c] = "reaped"
  <2>1. KillChild
    <3>1. ASSUME NEW f \in BOOLEAN PROVE ~Restart(f)
      BY <1>1 DEF Restart
    <3>2. ~(Poll \/ RestartDropped \/ PreHookReturns \/ PreHookTimeout \/ ForceExit \/ GracefulExit)
      BY <1>1 DEF Poll, RestartDropped, Taken, PreHookReturns, PreHookTimeout, PreHookTimedOut,
                  ForceExit, GracefulExit
    <3>3. ~(SendSigInt \/ SendSigTerm \/ (pc = "exited" /\ UNCHANGED vars))
      BY <1>1 DEF SendSigInt, SendSigTerm
    <3>4. ASSUME NEW c \in Children
          PROVE  ~(HandOver(c) \/ Unlock(c) \/ CheckStability(c) \/ ChildExits(c))
      BY <1>1 DEF HandOver, Unlock, Taken, CheckStability, ChildExits
    <3>5. ASSUME NEW p \in Pids
          PROVE  /\ ~(StrangerStarts(p) \/ StrangerExits(p))
                 /\ \A c \in Children : ~RestartSpawned(c, p)
      BY <1>1 DEF StrangerStarts, StrangerExits, RestartSpawned, Taken, mainvars
    <3> QED
      BY <1>1, <3>1, <3>2, <3>3, <3>4, <3>5 DEF Next, Main, Environment, SigInt, SigTerm, Shutdown
  <2>2. inProgress /\ childPid \in others
    BY <1>1, <2>1 DEF KillChild
  <2>3. PICK c \in Pending : childPid = pid[c]
    BY <1>1, <2>2 DEF IInv, LockHasOneHolder, ChildPidIsAttempts, InLoop
  <2>4. c \in Children /\ task[c] \in {"sleeping", "stable", "crashed", "failed"}
    BY <2>3 DEF Pending
  <2>5. proc[c] = "reaped"
    BY <1>1, <2>2, <2>3, <2>4 DEF IInv, TypeOK, ChildInv
  <2>6. task[c] = "crashed"
    BY <1>1, <2>4, <2>5 DEF IInv, ChildInv
  <2> QED
    BY <2>3, <2>4, <2>5, <2>6
<1>2. IInv /\ [Next]_vars =>
        [(pc = "select" /\ pc' = "draining" /\ others' # others) =>
            \E c \in Children : task[c] = "crashed" /\ pid[c] = childPid /\ proc[c] = "reaped"]_vars
  BY <1>1
<1> QED
  BY <1>2, Invariance, PTL DEF Safety, KillGoesAstrayOnlyOnceReaped
=============================================================================
