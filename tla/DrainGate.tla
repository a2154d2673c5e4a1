----------------------------- MODULE DrainGate -----------------------------
(***************************************************************************)
(* What the two counters of graceful shutdown promise, with no atomics, no *)
(* lock and no notification: members enter and leave a set, and a waiter   *)
(* returns only at an instant at which the set is empty.  ActiveSet (the   *)
(* requests in flight) and ThreadDrainBarrier (the listener threads still  *)
(* running, a set that starts full) are both compared with it.             *)
(***************************************************************************)
CONSTANTS Ids,      \* what may be in the set: requests, or threads
          Waiters   \* the tasks that may wait for the set to be empty

VARIABLES live,     \* the members of the set
          waiting,  \* the waiters inside the wait
          returned  \* the waiters whose wait has returned

gvars == <<live, waiting, returned>>

GateInit ==
    /\ live \subseteq Ids
    /\ waiting = {}
    /\ returned = {}

Enter(i) ==
    /\ i \notin live
    /\ live' = live \cup {i}
    /\ UNCHANGED <<waiting, returned>>

Leave(i) ==
    /\ i \in live
    /\ live' = live \ {i}
    /\ UNCHANGED <<waiting, returned>>

Call(w) ==
    /\ w \notin waiting \cup returned
    /\ waiting' = waiting \cup {w}
    /\ UNCHANGED <<live, returned>>

Return(w) ==
    /\ w \in waiting
    /\ live = {}
    /\ waiting' = waiting \ {w}
    /\ returned' = returned \cup {w}
    /\ UNCHANGED live

GateNext ==
    \/ \E i \in Ids : Enter(i) \/ Leave(i)
    \/ \E w \in Waiters : Call(w) \/ Return(w)

(* A waiter that finds the set empty for good is let through. *)
GateFairness == \A w \in Waiters : WF_gvars(Return(w))

GateSafety == GateInit /\ [][GateNext]_gvars
GateSpec == GateSafety /\ GateFairness
=============================================================================
