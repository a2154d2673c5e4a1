---------------------------- MODULE ControlPlane ----------------------------
(***************************************************************************)
(* The control plane of Server::listen (server.rs): the select! loop that  *)
(* starts a new process on a restart request, verifies that it survives a  *)
(* stability window, stops the accept loops, runs the pre-hook, and leaves *)
(* by a forced or a graceful exit; and what the operating system does      *)
(* around it: processes live, die and are reaped, signals arrive, process  *)
(* ids are reused.                                                         *)
(*                                                                         *)
(* The select! loop polls its four arms in random order, so a ready arm is *)
(* any ready arm.  Between two iterations ("top") nothing is polled.       *)
(***************************************************************************)
EXTENDS Integers, FiniteSets, Sequences

CONSTANTS Children,   \* the processes this one may spawn: bounds the restarts
          Pids,       \* process ids
          NoPid,      \* child_pid is None
                MaxQueue    \* bound on queued restart requests

ASSUME NoPidAssumption == NoPid \notin Pids

VARIABLES
    pc,           \* where the control plane is
    inProgress,   \* restart_in_progress
    childPid,     \* child_pid
    restartQ,     \* restart_rx: the force flags of the queued requests
    stopSent,     \* has stop_accept been broadcast
    force,        \* the value the loop broke with
    cause,        \* which arm broke the loop
    sigint,       \* the ctrl_c future of this iteration has a SIGINT to report
    sigterm,      \* the SIGTERM stream has one to report
    proc,         \* the processes spawned: "none", "alive", "zombie", "reaped"
    pid,          \* their process ids
    task,         \* their stability tasks, and what each has put in result_rx
    request,      \* the force flag of the request each was spawned for
    others        \* process ids held by unrelated processes

mainvars == <<pc, inProgress, childPid, stopSent, force, cause>>
sigvars == <<sigint, sigterm>>
childvars == <<proc, pid, task, request>>
vars == <<mainvars, restartQ, sigvars, childvars, others>>

(***************************************************************************)
(* A child's task: "sleeping" through the stability window; "stable",      *)
(* "crashed" or "failed" once try_wait has answered and its message is in  *)
(* result_rx; "handed" or "unlocked" once the message has been received.   *)
(***************************************************************************)
Pending == {c \in Children : task[c] \in {"sleeping", "stable", "crashed", "failed"}}
(* A process id is taken by a running process or one not yet reaped; the system *)
(* gives any other id, that of a reaped child included, to the next process.    *)
InUse(p) == p \in others \/ \E c \in Children : proc[c] \in {"alive", "zombie"} /\ pid[c] = p

Init ==
    /\ pc = "top"
    /\ inProgress = FALSE
    /\ childPid = NoPid
    /\ restartQ = <<>>
    /\ stopSent = FALSE
    /\ force = FALSE
    /\ cause = "none"
    /\ sigint = FALSE
    /\ sigterm = FALSE
    /\ proc = [c \in Children |-> "none"]
    /\ pid = [c \in Children |-> NoPid]
    /\ task = [c \in Children |-> "none"]
    /\ request = [c \in Children |-> FALSE]
    /\ others = {}

-----------------------------------------------------------------------------
(* RestartHandle::restart, from any handler at any time. *)
Restart(f) ==
    /\ pc # "exited"
    /\ Len(restartQ) < MaxQueue
    /\ restartQ' = Append(restartQ, f)
    /\ UNCHANGED <<mainvars, sigvars, childvars, others>>

(* select! polls its arms: the ctrl_c future registers its listener here. *)
Poll ==
    /\ pc = "top"
    /\ pc' = "select"
    /\ UNCHANGED <<inProgress, childPid, stopSent, force, cause, restartQ, sigvars, childvars, others>>

(* Mutant: the SIGTERM stream is created anew in each iteration, as ctrl_c's is. *)
Taken_DropsBoth(next) ==
    /\ pc = "select"
    /\ pc' = next
    /\ sigint' = FALSE
    /\ sigterm' = FALSE

(* An arm that is taken drops the others' futures, and a SIGINT with the ctrl_c one; *)
(* the SIGTERM stream lives outside the loop and keeps what it has to report.        *)
Taken(next) ==
    /\ pc = "select"
    /\ pc' = next
    /\ sigint' = FALSE
    /\ UNCHANGED sigterm

(* Mutant: restart_in_progress is not looked at. *)
MayRestart_Always == TRUE

(* One attempt at a time. *)
MayRestart == ~inProgress

(* restart arm: a duplicate is dropped, and so is a request whose spawn fails. *)
RestartDropped ==
    /\ restartQ # <<>>
    /\ Taken("top")
    /\ restartQ' = Tail(restartQ)
    /\ UNCHANGED <<inProgress, childPid, stopSent, force, cause, childvars, others>>

(* restart arm: the new process is spawned, its id recorded, its task started. *)
RestartSpawned(c, p) ==
    /\ restartQ # <<>>
    /\ MayRestart
    /\ proc[c] = "none"
    /\ ~InUse(p)
    /\ Taken("top")
    /\ restartQ' = Tail(restartQ)
    /\ inProgress' = TRUE
    /\ childPid' = p
    /\ proc' = [proc EXCEPT ![c] = "alive"]
    /\ pid' = [pid EXCEPT ![c] = p]
    /\ task' = [task EXCEPT ![c] = "sleeping"]
    /\ request' = [request EXCEPT ![c] = Head(restartQ)]
    /\ UNCHANGED <<stopSent, force, cause, others>>

(* Mutant: the answer of try_wait is passed on unclassified. *)
Verdict_Raw(c) == IF proc[c] = "alive" THEN {"alive", "failed"} ELSE {"zombie", "failed"}

(* try_wait: Ok(Some(status)), Ok(None) or Err(_). *)
Verdict(c) ==
    IF proc[c] = "alive" THEN {"stable", "failed"} ELSE {"crashed", "failed"}

(* The stability task: the window is over, try_wait reaps an exited child, and the *)
(* verdict is sent.                                                                *)
CheckStability(c) ==
    /\ pc # "exited"
    /\ task[c] = "sleeping"
    /\ \E v \in Verdict(c) :
          /\ task' = [task EXCEPT ![c] = v]
          /\ proc' = [proc EXCEPT ![c] = IF v = "crashed" THEN "reaped" ELSE @]
    /\ UNCHANGED <<mainvars, restartQ, sigvars, pid, request, others>>

(* Mutant: any message of the result channel is taken for success. *)
HandOver_AnyVerdict(c) ==
    /\ task[c] \in {"stable", "crashed", "failed"}
    /\ Taken("prehook")
    /\ task' = [task EXCEPT ![c] = "handed"]
    /\ stopSent' = TRUE
    /\ force' = request[c]
    /\ cause' = "restart"
    /\ UNCHANGED <<inProgress, childPid, restartQ, proc, pid, request, others>>

(* result arm, Ok: accept loops are stopped and the pre-hook runs. *)
HandOver(c) ==
    /\ task[c] = "stable"
    /\ Taken("prehook")
    /\ task' = [task EXCEPT ![c] = "handed"]
    /\ stopSent' = TRUE
    /\ force' = request[c]
    /\ cause' = "restart"
    /\ UNCHANGED <<inProgress, childPid, restartQ, proc, pid, request, others>>

(* Mutant: after a failure the attempt is taken to be still under way. *)
Unlock_StillLocked(c) ==
    /\ task[c] \in {"crashed", "failed"}
    /\ Taken("top")
    /\ task' = [task EXCEPT ![c] = "unlocked"]
    /\ UNCHANGED <<inProgress, childPid, stopSent, force, cause, restartQ, proc, pid, request, others>>

(* result arm, Err: unlocked for future attempts. *)
Unlock(c) ==
    /\ task[c] \in {"crashed", "failed"}
    /\ Taken("top")
    /\ task' = [task EXCEPT ![c] = "unlocked"]
    /\ childPid' = NoPid
    /\ inProgress' = FALSE
    /\ UNCHANGED <<stopSent, force, cause, restartQ, proc, pid, request, others>>

(* Mutant: shutdown leaves the child under verification alone. *)
KillChild_Forgotten == UNCHANGED <<proc, others>>

(* libc::kill(pid, SIGKILL) when a restart is in progress: it reaches whatever *)
(* process holds that id now, if any.                                          *)
KillChild ==
    IF inProgress /\ childPid # NoPid
    THEN /\ proc' = [c \in Children |->
                        IF proc[c] = "alive" /\ pid[c] = childPid THEN "zombie" ELSE proc[c]]
         /\ others' = others \ {childPid}
    ELSE UNCHANGED <<proc, others>>

(* ctrl_c and SIGTERM arms: kill the child, stop the accept loops, leave the loop. *)
Shutdown(signal) ==
    /\ Taken("draining")
    /\ KillChild
    /\ stopSent' = TRUE
    /\ force' = FALSE
    /\ cause' = signal
    /\ UNCHANGED <<inProgress, childPid, restartQ, pid, task, request>>

SigInt == sigint /\ Shutdown("int")
SigTerm == sigterm /\ Shutdown("term")

(* Mutant: the pre-hook has no timeout. *)
PreHookTimedOut_Never == FALSE

PreHookTimedOut == pc = "prehook"

AfterPreHook ==
    /\ pc' = "draining"
    /\ UNCHANGED <<inProgress, childPid, stopSent, force, cause, restartQ, sigvars, childvars, others>>

(* The pre-hook returns, or its timeout elapses. *)
PreHookReturns == pc = "prehook" /\ AfterPreHook
PreHookTimeout == PreHookTimedOut /\ AfterPreHook

SkipsDrain == force

Exit ==
    /\ pc' = "exited"
    /\ UNCHANGED <<inProgress, childPid, stopSent, force, cause, restartQ, sigvars, childvars, others>>

(* Drain & Exit: a forced exit is immediate, a graceful one waits for the drain *)
(* (modules ActiveSet, ThreadDrainBarrier and DrainExit).                       *)
ForceExit == pc = "draining" /\ SkipsDrain /\ Exit
GracefulExit == pc = "draining" /\ ~SkipsDrain /\ Exit

-----------------------------------------------------------------------------
(* The operating system: signals, the death of children, unrelated processes.  A *)
(* SIGINT that arrives between two iterations finds no listener and is lost.       *)
SendSigInt ==
    /\ pc = "select"
    /\ sigint' = TRUE
    /\ UNCHANGED <<mainvars, restartQ, sigterm, childvars, others>>

SendSigTerm ==
    /\ pc # "exited"
    /\ sigterm' = TRUE
    /\ UNCHANGED <<mainvars, restartQ, sigint, childvars, others>>

ChildExits(c) ==
    /\ proc[c] = "alive"
    /\ proc' = [proc EXCEPT ![c] = "zombie"]
    /\ UNCHANGED <<mainvars, restartQ, sigvars, pid, task, request, others>>

StrangerStarts(p) ==
    /\ ~InUse(p)
    /\ others' = others \cup {p}
    /\ UNCHANGED <<mainvars, restartQ, sigvars, childvars>>

StrangerExits(p) ==
    /\ p \in others
    /\ others' = others \ {p}
    /\ UNCHANGED <<mainvars, restartQ, sigvars, childvars>>

Main ==
    \/ Poll \/ RestartDropped \/ SigInt \/ SigTerm
    \/ PreHookReturns \/ PreHookTimeout \/ ForceExit \/ GracefulExit
    \/ \E c \in Children : HandOver(c) \/ Unlock(c)
    \/ \E c \in Children, p \in Pids : RestartSpawned(c, p)

Environment ==
    \/ \E f \in BOOLEAN : Restart(f)
    \/ SendSigInt \/ SendSigTerm
    \/ \E c \in Children : CheckStability(c) \/ ChildExits(c)
    \/ \E p \in Pids : StrangerStarts(p) \/ StrangerExits(p)

Next == Main \/ Environment \/ (pc = "exited" /\ UNCHANGED vars)

(***************************************************************************)
(* Fairness.  The loop's task is polled, a stability task's sleep ends,    *)
(* and select! polls its arms from a random one, so an arm that is ready   *)
(* at infinitely many polls is taken.  The pre-hook need not return: its   *)
(* timeout elapses.  A graceful exit depends on the drain, and nothing is  *)
(* assumed of it here.                                                     *)
(***************************************************************************)
Fairness ==
    /\ WF_vars(Poll) /\ WF_vars(RestartDropped) /\ SF_vars(SigInt) /\ SF_vars(SigTerm)
    /\ WF_vars(PreHookTimeout) /\ WF_vars(ForceExit)
    /\ \A c \in Children : WF_vars(CheckStability(c)) /\ SF_vars(HandOver(c)) /\ SF_vars(Unlock(c))

Safety == Init /\ [][Next]_vars
Spec == Safety /\ Fairness

-----------------------------------------------------------------------------
InLoop == pc \in {"top", "select"}
Left == pc \in {"prehook", "draining", "exited"}

(* Every variable has its type. *)
TypeOK ==
    /\ pc \in {"top", "select", "prehook", "draining", "exited"}
    /\ inProgress \in BOOLEAN /\ stopSent \in BOOLEAN /\ force \in BOOLEAN
    /\ childPid \in Pids \cup {NoPid}
    /\ cause \in {"none", "restart", "int", "term"}
    /\ restartQ \in Seq(BOOLEAN)
    /\ sigint \in BOOLEAN /\ sigterm \in BOOLEAN
    /\ proc \in [Children -> {"none", "alive", "zombie", "reaped"}]
    /\ pid \in [Children -> Pids \cup {NoPid}]
    /\ task \in [Children -> {"none", "sleeping", "stable", "crashed", "failed", "handed", "unlocked"}]
    /\ request \in [Children -> BOOLEAN]
    /\ others \subseteq Pids

(* The lock: in the loop restart_in_progress is set exactly while one attempt is   *)
(* between its spawn and the receipt of its verdict, and there is never another.   *)
LockHasOneHolder ==
    /\ \A c, d \in Pending : c = d
    /\ InLoop => (inProgress <=> Pending # {})

(* child_pid names the process of the attempt in progress, and nothing otherwise.  *)
ChildPidIsAttempts ==
    InLoop => /\ \A c \in Pending : childPid = pid[c]
              /\ Pending = {} => childPid = NoPid

(* restart_in_progress is a lock with one holder, the attempt under verification,  *)
(* and child_pid is the id of that attempt's process, the one the signal arms are  *)
(* to kill, for as long as the lock is held and no longer.                         *)
OneAttempt == LockHasOneHolder /\ ChildPidIsAttempts

(* After SIGINT or SIGTERM no process this one spawned is left running, except one *)
(* that try_wait could not check and that was unlocked before.                    *)
SignalLeavesNoChild ==
    cause \in {"int", "term"} => \A c \in Children : proc[c] = "alive" => task[c] = "unlocked"

(* Accept loops are stopped for a signal, or for one successor, which try_wait has *)
(* not seen dead; the loop is left only with the accept loops stopped.            *)
StopsForASuccessor ==
    /\ Left <=> stopSent
    /\ cause = "restart" => \E c \in Children :
            /\ task[c] = "handed" /\ proc[c] \in {"alive", "zombie"} /\ force = request[c]
            /\ \A d \in Children \ {c} : task[d] \in {"none", "unlocked"}

(* The exit does not wait for the drain only where the restart asked for it. *)
ExitAsAsked ==
    (pc = "draining" /\ pc' = "exited" /\ ~GracefulExit) =>
        (cause = "restart" /\ \E c \in Children : task[c] = "handed" /\ request[c])

(* In-flight requests are cut off only by the restart that asked for it: the exit  *)
(* that follows a signal always waits for the drain.                              *)
CutOffOnlyIfForced == [][ExitAsAsked]_vars

(* The loop is left for a signal, which drains, or for one verified successor, which cuts *)
(* off what is in flight only if its request said so.                                     *)
OnlyAForcedHandoverCutsOff == [][StopsForASuccessor' /\ ExitAsAsked]_vars

(* "Killing child PID": the recorded id may have passed to an unrelated process,   *)
(* and SIGKILL reach that one, only between try_wait's reaping of a crashed child  *)
(* and the receipt of its verdict.                                                 *)
KillGoesAstrayOnlyOnceReaped ==
    [][(pc = "select" /\ pc' = "draining" /\ others' # others) =>
            \E c \in Children : task[c] = "crashed" /\ pid[c] = childPid /\ proc[c] = "reaped"]_vars

(* A SIGTERM makes the process leave its loop, whatever restarts are requested or  *)
(* under way.                                                                     *)
SigTermObeyed == sigterm ~> Left

(* Every restart attempt ends: with a handover that reaches the drain although the *)
(* pre-hook may never return, or with the lock released.                          *)
AttemptEnds == (inProgress /\ InLoop) ~> (~inProgress \/ pc \in {"draining", "exited"})

(* "SIGINT received. Graceful shutdown.": the ctrl_c arm's promise.  The future is *)
(* created anew in each iteration, so the arm that is taken instead drops it.     *)
SigIntObeyed == sigint ~> Left
=============================================================================
