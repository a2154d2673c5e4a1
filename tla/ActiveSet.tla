----------------------------- MODULE ActiveSet -----------------------------
(***************************************************************************)
(* active_set.rs: the set of requests in flight.  An atomic counter gates  *)
(* graceful shutdown, an optional map behind a mutex serves telemetry, and *)
(* a tokio Notify wakes the tasks parked in wait_for_zero.                 *)
(*                                                                         *)
(* Each access to the counter, to the map (one critical section of its     *)
(* mutex) and to the Notify is one step, so that requests on different     *)
(* threads interleave between them as they do in the program.  A guard is  *)
(* identified by its request id: server.rs draws a fresh UUID per request. *)
(***************************************************************************)
EXTENDS Integers, FiniteSets

CONSTANTS Ids,         \* request ids
          Waiters,     \* tasks that call wait_for_zero
          MaxClones    \* bound on the live clones of one guard

ASSUME IdsAssumption == IsFiniteSet(Ids)
ASSUME ClonesAssumption == MaxClones \in Nat \ {0}

VARIABLES
    telemetry,  \* was the set built with a map
    count,      \* Inner.count
    map,        \* Inner.map: an id's info, "absent" when it has no entry
    gpc,        \* where each guard is in its life
    strong,     \* strong count of the Arc<GuardDrop> of each guard
    wpc,        \* where each waiter is in wait_for_zero
    notified    \* has the waiter's current Notified future been notified

svars == <<count, map, gpc, strong>>
wvars == <<wpc, notified>>
vars == <<telemetry, svars, wvars>>

Infos == {"open", "ended"}

(***************************************************************************)
(* Guards.  "none": no guard; "counted": insert has bumped the counter;    *)
(* "held": the ActiveGuard exists; "dropping": the last clone is gone and  *)
(* GuardDrop::drop runs; "removed": its map entry is removed; "last": its  *)
(* fetch_sub saw 1 and notify_waiters is still to be called.               *)
(***************************************************************************)
GuardStates == {"none", "counted", "held", "dropping", "removed", "last"}
WaiterStates == {"idle", "loop", "enabled", "positive", "parked", "returned"}

Init ==
    /\ telemetry \in BOOLEAN
    /\ count = 0
    /\ map = [i \in Ids |-> "absent"]
    /\ gpc = [i \in Ids |-> "none"]
    /\ strong = [i \in Ids |-> 0]
    /\ wpc = [w \in Waiters |-> "idle"]
    /\ notified = [w \in Waiters |-> FALSE]

-----------------------------------------------------------------------------
(* Mutant: the counter is only kept when telemetry is on. *)
InsertCount_OnlyTelemetry(i) ==
    /\ gpc[i] = "none"
    /\ count' = IF telemetry THEN count + 1 ELSE count
    /\ gpc' = [gpc EXCEPT ![i] = "counted"]
    /\ UNCHANGED <<telemetry, map, strong, wvars>>

(* insert: count.fetch_add(1). *)
InsertCount(i) ==
    /\ gpc[i] = "none"
    /\ count' = count + 1
    /\ gpc' = [gpc EXCEPT ![i] = "counted"]
    /\ UNCHANGED <<telemetry, map, strong, wvars>>

(* insert: map.lock().insert(id, info) when there is a map; the guard is returned. *)
InsertMap(i) ==
    /\ gpc[i] = "counted"
    /\ map' = IF telemetry THEN [map EXCEPT ![i] = "open"] ELSE map
    /\ gpc' = [gpc EXCEPT ![i] = "held"]
    /\ strong' = [strong EXCEPT ![i] = 1]
    /\ UNCHANGED <<telemetry, count, wvars>>

(* ActiveGuard::update: writes the info only when the entry is there. *)
Update(i) ==
    /\ gpc[i] = "held"
    /\ map[i] # "absent"
    /\ \E info \in Infos : map' = [map EXCEPT ![i] = info]
    /\ UNCHANGED <<telemetry, count, gpc, strong, wvars>>

(* ActiveGuard::clone: only the Arc's strong count. *)
CloneGuard(i) ==
    /\ gpc[i] = "held"
    /\ strong[i] < MaxClones
    /\ strong' = [strong EXCEPT ![i] = @ + 1]
    /\ UNCHANGED <<telemetry, count, map, gpc, wvars>>

(* Mutant: no shared Arc, every clone's drop decrements. *)
DropClone_PerClone(i) ==
    /\ gpc[i] = "held"
    /\ strong' = [strong EXCEPT ![i] = @ - 1]
    /\ count' = count - 1
    /\ gpc' = [gpc EXCEPT ![i] = IF strong[i] = 1 THEN "none" ELSE @]
    /\ UNCHANGED <<telemetry, map, wvars>>

(* Dropping one ActiveGuard: only the last clone runs GuardDrop::drop. *)
DropClone(i) ==
    /\ gpc[i] = "held"
    /\ strong' = [strong EXCEPT ![i] = @ - 1]
    /\ gpc' = [gpc EXCEPT ![i] = IF strong[i] = 1 THEN "dropping" ELSE @]
    /\ UNCHANGED <<telemetry, count, map, wvars>>

(* Mutant: the entry is not removed before the counter is decremented. *)
DropMap_Skipped(i) ==
    /\ gpc[i] = "dropping"
    /\ gpc' = [gpc EXCEPT ![i] = "removed"]
    /\ UNCHANGED <<telemetry, count, map, strong, wvars>>

(* GuardDrop::drop: map.lock().remove(id). *)
DropMap(i) ==
    /\ gpc[i] = "dropping"
    /\ map' = [map EXCEPT ![i] = "absent"]
    /\ gpc' = [gpc EXCEPT ![i] = "removed"]
    /\ UNCHANGED <<telemetry, count, strong, wvars>>

(* Mutant: the new value, not the previous one, is compared with 1. *)
DropCount_NewValue(i) ==
    /\ gpc[i] = "removed"
    /\ count' = count - 1
    /\ gpc' = [gpc EXCEPT ![i] = IF count' = 1 THEN "last" ELSE "none"]
    /\ UNCHANGED <<telemetry, map, strong, wvars>>

(* GuardDrop::drop: prev = count.fetch_sub(1), and the test prev == 1. *)
DropCount(i) ==
    /\ gpc[i] = "removed"
    /\ count' = count - 1
    /\ gpc' = [gpc EXCEPT ![i] = IF count = 1 THEN "last" ELSE "none"]
    /\ UNCHANGED <<telemetry, map, strong, wvars>>

(* Mutant: without enable() the future is registered only by its first poll. *)
Listening_OncePolled(w) == wpc[w] = "parked"

(* A Notified future that is registered, polled or not yet polled, hears notify_waiters. *)
Listening(w) == wpc[w] \in {"enabled", "positive", "parked"}

(* GuardDrop::drop: empty_notify.notify_waiters(). *)
NotifyWaiters(i) ==
    /\ gpc[i] = "last"
    /\ notified' = [w \in Waiters |-> notified[w] \/ Listening(w)]
    /\ gpc' = [gpc EXCEPT ![i] = "none"]
    /\ UNCHANGED <<telemetry, count, map, strong, wpc>>

-----------------------------------------------------------------------------
(* wait_for_zero is called. *)
WaitCall(w) ==
    /\ wpc[w] = "idle"
    /\ wpc' = [wpc EXCEPT ![w] = "loop"]
    /\ UNCHANGED <<telemetry, svars, notified>>

(* notified() and enable(): a fresh, registered future, before the counter is read. *)
WaitEnable(w) ==
    /\ wpc[w] = "loop"
    /\ wpc' = [wpc EXCEPT ![w] = "enabled"]
    /\ notified' = [notified EXCEPT ![w] = FALSE]
    /\ UNCHANGED <<telemetry, svars>>

(* count.load(Acquire): return at zero, go on to the await otherwise. *)
WaitLoad(w) ==
    /\ wpc[w] = "enabled"
    /\ wpc' = [wpc EXCEPT ![w] = IF count = 0 THEN "returned" ELSE "positive"]
    /\ UNCHANGED <<telemetry, svars, notified>>

(* notified.await: the future is polled for the first time. *)
WaitPoll(w) ==
    /\ wpc[w] = "positive"
    /\ wpc' = [wpc EXCEPT ![w] = "parked"]
    /\ UNCHANGED <<telemetry, svars, notified>>

(* Mutant: the wakeup is trusted, the counter is not read again. *)
WaitWake_Trusted(w) ==
    /\ wpc[w] = "parked"
    /\ notified[w]
    /\ wpc' = [wpc EXCEPT ![w] = "returned"]
    /\ UNCHANGED <<telemetry, svars, notified>>

(* notified.await completes; the loop starts over. *)
WaitWake(w) ==
    /\ wpc[w] = "parked"
    /\ notified[w]
    /\ wpc' = [wpc EXCEPT ![w] = "loop"]
    /\ UNCHANGED <<telemetry, svars, notified>>

GuardStep(i) ==
    \/ InsertCount(i) \/ InsertMap(i) \/ Update(i) \/ CloneGuard(i)
    \/ DropClone(i) \/ DropMap(i) \/ DropCount(i) \/ NotifyWaiters(i)

WaiterStep(w) == WaitCall(w) \/ WaitEnable(w) \/ WaitLoad(w) \/ WaitPoll(w) \/ WaitWake(w)

Next ==
    \/ \E i \in Ids : GuardStep(i)
    \/ \E w \in Waiters : WaiterStep(w)

(***************************************************************************)
(* Fairness.  A task inside wait_for_zero that can run is polled again, and *)
(* insert and drop, once begun, run to their end: they are straight-line   *)
(* code.  Nothing obliges a request to end or a waiter to call.            *)
(***************************************************************************)
Fairness ==
    /\ \A w \in Waiters : WF_vars(WaitEnable(w) \/ WaitLoad(w) \/ WaitPoll(w) \/ WaitWake(w))
    /\ \A i \in Ids : WF_vars(InsertMap(i) \/ DropMap(i) \/ DropCount(i) \/ NotifyWaiters(i))

Safety == Init /\ [][Next]_vars
Spec == Safety /\ Fairness

-----------------------------------------------------------------------------
(* The guards whose fetch_add has been done and whose fetch_sub has not. *)
Counted == {i \in Ids : gpc[i] \in {"counted", "held", "dropping", "removed"}}

InCall == {w \in Waiters : wpc[w] \in {"loop", "enabled", "positive", "parked"}}
Returned == {w \in Waiters : wpc[w] = "returned"}

(* Every variable has its type; the counter is never negative. *)
TypeOK ==
    /\ telemetry \in BOOLEAN
    /\ count \in Nat
    /\ map \in [Ids -> Infos \cup {"absent"}]
    /\ gpc \in [Ids -> GuardStates]
    /\ strong \in [Ids -> 0..MaxClones]
    /\ wpc \in [Waiters -> WaiterStates]
    /\ notified \in [Waiters -> BOOLEAN]

(* The counter is exactly the number of guards between fetch_add and fetch_sub, *)
(* whatever the clones: no double decrement (the debug_assert of drop) and no   *)
(* guard that shutdown forgets to wait for.                                     *)
CountIsGuards == count = Cardinality(Counted)

(* "When we see 0, all prior map removals are visible": no entry survives in the *)
(* telemetry map of a set whose counter is zero.                                 *)
ZeroMeansCleanMap == count = 0 => \A i \in Ids : map[i] = "absent"

(* A held guard's telemetry entry is in the map: snapshot, value and update see *)
(* every request whose insert has returned, until its last clone is dropped.    *)
HeldIsRecorded ==
    \A i \in Ids : gpc[i] = "held" => (strong[i] > 0 /\ (telemetry <=> map[i] # "absent"))

(* The telemetry map follows the guards: a request is seen in it for as long as a clone *)
(* of its guard is held, and nothing is left of any when the counter is at zero.        *)
MapMirrorsGuards == ZeroMeansCleanMap /\ HeldIsRecorded

(* No lost wakeup: a waiter that awaits a future nobody has notified while the set *)
(* is empty still has a notify_waiters coming from the drop that emptied it.     *)
NoLostWakeup ==
    \A w \in Waiters :
        (wpc[w] \in {"positive", "parked"} /\ ~notified[w] /\ count = 0) => \E i \in Ids : gpc[i] = "last"

(* The gate this set implements: a request is live while it is counted. *)
Gate == INSTANCE DrainGate WITH live <- Counted, waiting <- InCall, returned <- Returned

(* wait_for_zero returns only at an instant at which no request is counted. *)
ImplementsGateSafety == Gate!GateSafety

(* The counter and the Notify implement the gate, liveness included: a waiter   *)
(* whose set stays empty does return, whatever drops raced with its registration. *)
ImplementsGate == Gate!GateSpec
=============================================================================
