------------------------------ MODULE RemoteSlots ------------------------------
(***************************************************************************)
(* The slots of remote operations (backend/remote_runtime.py): every SSH   *)
(* connection of the process is opened and closed inside a slot of one     *)
(* RemoteOperationLimiter, a BoundedSemaphore with a timeout and counters  *)
(* under a lock of their own.                                              *)
(*                                                                         *)
(* The semaphore and the counters are separate: a thread that has acquired *)
(* is not counted yet, and one that is not counted any more has not        *)
(* released yet.                                                           *)
(***************************************************************************)
EXTENDS Integers, FiniteSets

CONSTANTS
    Callers,    \* threads of the process that need a connection
    Limit       \* BMD_MAX_CONCURRENT_REMOTE_OPERATIONS

ASSUME LimitAssumption == Limit \in Nat \ {0} /\ IsFiniteSet(Callers)

VARIABLES
    step,       \* where each caller is in connected_remote_runner
    free,       \* value of the semaphore
    active,     \* _active
    max_active, \* _max_active_observed
    open,       \* callers whose runner may have an open connection
    left        \* callers with a connection still open that a close failed on

vars == <<step, free, active, max_active, open, left>>

Move(c, from, to) == step[c] = from /\ step' = [step EXCEPT ![c] = to]

Call(c) == Move(c, "idle", "waiting") /\ UNCHANGED <<free, active, max_active, open, left>>

Acquire(c) ==
    /\ Move(c, "waiting", "acquired")
    /\ free > 0
    /\ free' = free - 1
    /\ UNCHANGED <<active, max_active, open, left>>

\* (Faulty: acquire() without its timeout.)
NeverTimeOut(c) == FALSE

\* The timeout passed, and there is still no slot: RemoteOperationBusy.
TimeOut(c) ==
    /\ Move(c, "waiting", "idle")
    /\ free = 0
    /\ UNCHANGED <<free, active, max_active, open, left>>

CountIn(c) ==
    /\ Move(c, "acquired", "counted")
    /\ active' = active + 1
    /\ max_active' = IF active + 1 > max_active THEN active + 1 ELSE max_active
    /\ UNCHANGED <<free, open, left>>

\* The runner is created and connects, and may fail at any point from here on.
Connect(c) ==
    /\ Move(c, "counted", "connected")
    /\ open' = open \cup {c}
    /\ UNCHANGED <<free, active, max_active, left>>

\* (Faulty: a runner that failed is not closed.)
CloseIfDone(c) ==
    /\ Move(c, "connected", "closed")
    /\ \/ open' = open \ {c}
       \/ UNCHANGED open
    /\ UNCHANGED <<free, active, max_active, left>>

\* Whatever happened inside, the runner is closed.  When that fails nobody is told: the
\* connection is left as it is, without a slot.
Close(c) ==
    /\ Move(c, "connected", "closed")
    /\ open' = open \ {c}
    /\ left' \in {left, left \cup {c}}
    /\ UNCHANGED <<free, active, max_active>>

\* (Faulty: the slot of a runner that could not be created is kept.)
CountOutOrKeepSlot(c) ==
    /\ \/ Move(c, "closed", "uncounted")
       \/ Move(c, "counted", "idle")
    /\ active' = active - 1
    /\ UNCHANGED <<free, max_active, open, left>>

\* The slot is left, also by a caller whose runner could not be created.
CountOut(c) ==
    /\ Move(c, "closed", "uncounted") \/ Move(c, "counted", "uncounted")
    /\ active' = active - 1
    /\ UNCHANGED <<free, max_active, open, left>>

Release(c) ==
    /\ Move(c, "uncounted", "idle")
    /\ free' = free + 1
    /\ UNCHANGED <<active, max_active, open, left>>

-----------------------------------------------------------------------------
Init ==
    /\ step = [c \in Callers |-> "idle"]
    /\ free = Limit
    /\ active = 0
    /\ max_active = 0
    /\ open = {} /\ left = {}

\* The process restarts: limiter, threads and connections are new.
Restart ==
    /\ step' = [c \in Callers |-> "idle"]
    /\ free' = Limit
    /\ active' = 0
    /\ max_active' = 0
    /\ open' = {} /\ left' = {}

\* What a caller does once it has started to wait.
Proceed(c) ==
    \/ Acquire(c) \/ TimeOut(c) \/ CountIn(c) \/ Connect(c) \/ Close(c) \/ CountOut(c)
    \/ Release(c)

Next == Restart \/ \E c \in Callers : Call(c) \/ Proceed(c)

Spec == Init /\ [][Next]_vars

-----------------------------------------------------------------------------
(* Properties.                                                             *)

Steps   == {"idle", "waiting", "acquired", "counted", "connected", "closed", "uncounted"}
Holding == {c \in Callers : step[c] \notin {"idle", "waiting"}}
Counted == {c \in Callers : step[c] \in {"counted", "connected", "closed"}}

TypeOK ==
    /\ step \in [Callers -> Steps]
    /\ free \in 0..Limit
    /\ active \in Int /\ max_active \in Int
    /\ open \subseteq Callers /\ left \subseteq Callers

\* Every slot is free or held by a caller that will give it back, so that the
\* BoundedSemaphore is never released once too often and no slot is lost.
SlotsAreAccounted == free + Cardinality(Holding) = Limit

\* "At most N SSH-backed operations at a time": a connection is closed, or its close has
\* failed, before its slot is given back.
ConnectionsWithinLimit == Cardinality(open) <= Limit

\* What snapshot() says: the active callers exactly, and a maximum that is one.
CountersAreTrue ==
    /\ active = Cardinality(Counted)
    /\ active <= max_active /\ max_active <= Limit

\* The inductive invariant: open connections belong to callers between their
\* Connect and their Close.
SlotInv ==
    /\ TypeOK
    /\ SlotsAreAccounted
    /\ CountersAreTrue
    /\ open \subseteq {c \in Callers : step[c] = "connected"}

=============================================================================
