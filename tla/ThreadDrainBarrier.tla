------------------------- MODULE ThreadDrainBarrier -------------------------
(***************************************************************************)
(* ThreadDrainBarrier of server.rs: the listener threads still running,    *)
(* and the control plane's wait for the last of them.  The atomic counter  *)
(* and the Notify are two objects: fetch_sub and notify_waiters are two    *)
(* steps of a thread, load and notified() two steps of the control plane.  *)
(* A thread may panic while it starts (its runtime is not built, or its    *)
(* socket is refused, both unwrapped): it then never signals.              *)
(***************************************************************************)
EXTENDS Integers, FiniteSets

CONSTANT Threads     \* the listener threads, one per core

ASSUME ThreadsAssumption == IsFiniteSet(Threads)

VARIABLES
    remaining,   \* the atomic counter
    tpc,         \* "starting"; "running": block_on has not returned; "last": it saw 1
                 \* in fetch_sub and owes notify_waiters; "done"; "dead": it panicked
    mpc,         \* the control plane in wait_all_done
    heard        \* has its current Notified future been notified

vars == <<remaining, tpc, mpc, heard>>

ThreadStates == {"starting", "running", "last", "done", "dead"}
MainStates == {"idle", "check", "nonzero", "parked", "returned"}

(* ThreadDrainBarrier::new(thread_count). *)
Init ==
    /\ remaining = Cardinality(Threads)
    /\ tpc = [t \in Threads |-> "starting"]
    /\ mpc = "idle"
    /\ heard = FALSE

(* The runtime is built and the listener registered. *)
Start(t) ==
    /\ tpc[t] = "starting"
    /\ tpc' = [tpc EXCEPT ![t] = "running"]
    /\ UNCHANGED <<remaining, mpc, heard>>

(* One of the unwrap() fails, and the thread ends without thread_done. *)
Panic(t) ==
    /\ tpc[t] = "starting"
    /\ tpc' = [tpc EXCEPT ![t] = "dead"]
    /\ UNCHANGED <<remaining, mpc, heard>>

(* Mutant: the new value of the counter is compared with 1. *)
ThreadDone_NewValue(t) ==
    /\ tpc[t] = "running"
    /\ remaining' = remaining - 1
    /\ tpc' = [tpc EXCEPT ![t] = IF remaining' = 1 THEN "last" ELSE "done"]
    /\ UNCHANGED <<mpc, heard>>

(* Mutant: a load and a store instead of the atomic fetch_sub, one update lost. *)
ThreadDone_Racy(t) ==
    /\ tpc[t] = "running"
    /\ remaining' \in {remaining, remaining - 1}
    /\ tpc' = [tpc EXCEPT ![t] = IF remaining = 1 THEN "last" ELSE "done"]
    /\ UNCHANGED <<mpc, heard>>

(* Mutant: the counter is also decremented by a thread that has finished. *)
ThreadDone_Twice(t) ==
    /\ tpc[t] \in {"running", "done"}
    /\ remaining' = remaining - 1
    /\ tpc' = [tpc EXCEPT ![t] = IF remaining = 1 THEN "last" ELSE "done"]
    /\ UNCHANGED <<mpc, heard>>

(* thread_done: remaining.fetch_sub(1). *)
ThreadDone(t) ==
    /\ tpc[t] = "running"
    /\ remaining' = remaining - 1
    /\ tpc' = [tpc EXCEPT ![t] = IF remaining = 1 THEN "last" ELSE "done"]
    /\ UNCHANGED <<mpc, heard>>

(* thread_done: notify_waiters reaches the futures that exist, and leaves no permit. *)
NotifyWaiters(t) ==
    /\ tpc[t] = "last"
    /\ heard' = (heard \/ mpc = "parked")
    /\ tpc' = [tpc EXCEPT ![t] = "done"]
    /\ UNCHANGED <<remaining, mpc>>

-----------------------------------------------------------------------------
(* The control plane calls wait_all_done. *)
WaitAllDone ==
    /\ mpc = "idle"
    /\ mpc' = "check"
    /\ UNCHANGED <<remaining, tpc, heard>>

(* remaining.load() == 0. *)
LoadRemaining ==
    /\ mpc = "check"
    /\ mpc' = IF remaining = 0 THEN "returned" ELSE "nonzero"
    /\ UNCHANGED <<remaining, tpc, heard>>

(* notify.notified().await: the future comes into being only here, after the load. *)
CreateNotified ==
    /\ mpc = "nonzero"
    /\ mpc' = "parked"
    /\ heard' = FALSE
    /\ UNCHANGED <<remaining, tpc>>

(* Mutant: one await is enough, however it ended. *)
Wake_Unchecked ==
    /\ mpc = "parked"
    /\ mpc' = "returned"
    /\ UNCHANGED <<remaining, tpc, heard>>

(* The future completes; the loop reads the counter again. *)
Wake ==
    /\ mpc = "parked"
    /\ heard
    /\ mpc' = "check"
    /\ UNCHANGED <<remaining, tpc, heard>>

Next ==
    \/ \E t \in Threads : Start(t) \/ Panic(t) \/ ThreadDone(t) \/ NotifyWaiters(t)
    \/ WaitAllDone \/ LoadRemaining \/ CreateNotified \/ Wake
    \/ (mpc = "returned" /\ UNCHANGED vars)   \* the process exits

-----------------------------------------------------------------------------
(***************************************************************************)
(* Fairness.  The threads are taken to start or to panic, and to drain     *)
(* (what they wait for is the business of other modules), thread_done runs *)
(* to its end, and the control plane's task is polled when it can run.     *)
(***************************************************************************)
Fairness ==
    /\ \A t \in Threads : WF_vars(Start(t) \/ ThreadDone(t) \/ NotifyWaiters(t))
    /\ WF_vars(LoadRemaining \/ CreateNotified \/ Wake)

Safety == Init /\ [][Next]_vars
Spec == Safety /\ Fairness

-----------------------------------------------------------------------------
(* The threads that have not signalled: they still run, or died at their start. *)
Dead == {t \in Threads : tpc[t] = "dead"}
Owing == {t \in Threads : tpc[t] \in {"starting", "running", "dead"}}

(* Every variable has its type; the counter never goes below zero. *)
TypeOK ==
    /\ remaining \in Nat
    /\ tpc \in [Threads -> ThreadStates]
    /\ mpc \in MainStates
    /\ heard \in BOOLEAN

(* The control plane exits the process only when every listener thread's block_on *)
(* has returned: never, if one of them has panicked.                              *)
ReturnMeansAllDone == mpc = "returned" => Owing = {}

(* The counter is the number of threads that owe their signal, the dead included, *)
(* and the notification comes from one thread only, after all of them.            *)
LastThreadNotifies ==
    /\ remaining = Cardinality(Owing)
    /\ \A t \in Threads : tpc[t] = "last" => Owing = {}
    /\ \A s, t \in Threads : (tpc[s] = "last" /\ tpc[t] = "last") => s = t

(* Parked in time: a control plane that is already awaiting its future while some *)
(* thread still runs is released, unless a thread has died at its start.          *)
ParkedInTimeReturns == (mpc = "parked" /\ Owing # {}) ~> (mpc = "returned" \/ Dead # {})

(* "Signal the barrier so the control plane knows this thread is done": once the *)
(* control plane waits and every thread has signalled, it is let through.  The   *)
(* code loads the counter before it creates the future, so it is not.            *)
SignalledBarrierReleases == (mpc # "idle" /\ Owing = {}) ~> (mpc = "returned")

InWait == {m \in {"main"} : mpc \in {"check", "nonzero", "parked"}}
Released == {m \in {"main"} : mpc = "returned"}

(* The barrier as a drain gate: its members are the threads that have not signalled. *)
Gate == INSTANCE DrainGate
            WITH Ids <- Threads, Waiters <- {"main"},
                 live <- Owing, waiting <- InWait, returned <- Released

(* The wait returns only at an instant at which every listener thread has signalled: a *)
(* thread that died holds the process for ever.                                        *)
ImplementsGateSafety == Gate!GateSafety
=============================================================================
