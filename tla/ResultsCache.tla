------------------------------ MODULE ResultsCache ------------------------------
(***************************************************************************)
(* Loading the results of a completed job (backend/results.py): a cache of *)
(* the last results, least recently used out first, with an index by job   *)
(* for callers that do not know the run directory; on a miss the outputs   *)
(* are parsed on POWER, by every caller that missed, on a connection in a  *)
(* slot of the limiter (RemoteSlots).  The result is stored after the slot *)
(* is given back.                                                          *)
(*                                                                         *)
(* A job has one run directory, in its record and in the submission the    *)
(* caller may have, so a key of the cache is its job.                      *)
(***************************************************************************)
EXTENDS RemoteSlots, Sequences, SequencesExt

CONSTANTS
    Jobs,
    MaxEntries,     \* RESULTS_CACHE_MAX_ENTRIES
    None

ASSUME CacheAssumption ==
    /\ MaxEntries \in Nat \ {0}
    /\ None \notin Jobs /\ None \notin {"none", "success", "error"}

VARIABLES
    completed,  \* external: the jobs whose outputs are all there to be parsed
    entries,    \* _RESULTS_CACHE: job -> the status of its result
    order,      \* and its order
    index,      \* _RESULTS_CACHE_JOB_INDEX
    call,       \* the call of each caller: its job, where it is, what it has
                \* ("remote" in connected_remote_runner, "keep" and "leave" on its way out)
    used        \* history: the jobs, in the order they were last stored or served

cache     == <<entries, order, index>>
slots     == vars
cacheVars == <<completed, cache, call, used>>

NoCall == [pc |-> "idle", job |-> None, result |-> None]

At(c, pc)     == call[c].pc = pc
Go(c, pc)     == call' = [call EXCEPT ![c].pc = pc]
Return(c, it) == call' = [call EXCEPT ![c].pc = "idle", ![c].result = it]

\* move_to_end
AtEnd(s, j) == Append(RemoveFirst(s, j), j)

-----------------------------------------------------------------------------
(* load_results_for_completed_job                                          *)

\* A job that was not monitored to have completed with success has no results.
Refuse(c) ==
    /\ At(c, "idle")
    /\ \E j \in Jobs :
          call' = [call EXCEPT ![c] = [pc |-> "idle", job |-> j, result |-> "none"]]
    /\ UNCHANGED <<completed, cache, used, slots>>

\* With a submission the key is known; else the index has it.
LoadCompleted(c) ==
    /\ At(c, "idle")
    /\ \E j \in Jobs, located \in BOOLEAN :
          call' = [call EXCEPT ![c] =
                      [pc |-> IF located THEN "lookup" ELSE "index", job |-> j, result |-> None]]
    /\ UNCHANGED <<completed, cache, used, slots>>

\* The index is read under the lock, and left.
LookUpIndex(c) ==
    /\ At(c, "index")
    /\ IF call[c].job \in index THEN Go(c, "lookup") /\ UNCHANGED slots
                               ELSE Go(c, "remote") /\ Call(c)
    /\ UNCHANGED <<completed, cache, used>>

\* cached_completed_result, before the connection or, with the run directory found
\* out, on it.
LookUp(c) ==
    LET j == call[c].job IN
    /\ At(c, "lookup") \/ At(c, "located")
    /\ \/ /\ entries[j] # None
          /\ order' = AtEnd(order, j)
          /\ used' = AtEnd(used, j)
          /\ call' = [call EXCEPT ![c].pc = IF At(c, "lookup") THEN "idle" ELSE "leave",
                                  ![c].result = entries[j]]
          /\ UNCHANGED slots
       \/ /\ entries[j] = None
          /\ UNCHANGED <<order, used>>
          /\ IF At(c, "lookup") THEN Go(c, "remote") /\ Call(c)
                                ELSE Go(c, "parse") /\ UNCHANGED slots
    /\ UNCHANGED <<completed, entries, index>>

\* connected_remote_runner, on the way in.
GetSlot(c) ==
    /\ At(c, "remote")
    /\ Acquire(c) \/ CountIn(c) \/ Connect(c)
    /\ UNCHANGED cacheVars

\* RemoteOperationBusy: the answer is an error, without a slot.
Busy(c) ==
    /\ At(c, "remote")
    /\ TimeOut(c)
    /\ Return(c, "error")
    /\ UNCHANGED <<completed, cache, used>>

\* Out of connected_remote_runner with an error, from any point of its body.
FailRemotely(c) == call' = [call EXCEPT ![c].pc = "leave", ![c].result = "error"]

\* The runner cannot be created; or it connects, or does not, and the run directory is
\* found out, or is not.
Locate(c) ==
    /\ At(c, "remote")
    /\ \/ step[c] = "counted" /\ FailRemotely(c)
       \/ step[c] = "connected" /\ (Go(c, "located") \/ FailRemotely(c))
    /\ UNCHANGED <<completed, cache, used, slots>>

\* The runner is closed and the slot left, and a result that was parsed is kept.
Leave(c) ==
    /\ At(c, "leave") \/ At(c, "keep")
    /\ \/ (Close(c) \/ CountOut(c)) /\ UNCHANGED call
       \/ Release(c) /\ Go(c, IF At(c, "keep") THEN "store" ELSE "idle")
    /\ UNCHANGED <<completed, cache, used>>

\* The outputs are there and parsed, or files are missing or the parser fails.  The
\* parser itself may answer with an error, which is a result as well.
Parse(c) ==
    /\ At(c, "parse")
    /\ \/ /\ call[c].job \in completed
          /\ call' = [call EXCEPT ![c].pc = "keep", ![c].result = "success"]
       \/ call' = [call EXCEPT ![c].pc = "keep", ![c].result = "error"]
       \/ FailRemotely(c)
    /\ UNCHANGED <<completed, cache, used, slots>>

\* The entries after j, with the oldest out.
Kept(j) == LET all == AtEnd(order, j) IN
           IF Len(all) > MaxEntries THEN Tail(all) ELSE all

\* (Faulty: an entry that is pushed out stays in the index.)
StoreOnly(c) ==
    LET j == call[c].job IN
    /\ At(c, "store")
    /\ Return(c, call[c].result)
    /\ IF call[c].result = "success"
       THEN /\ entries' = [entries EXCEPT ![j] = "success"]
            /\ order' = Kept(j)
            /\ index' = index \cup {j}
            /\ used' = AtEnd(used, j)
       ELSE UNCHANGED <<cache, used>>
    /\ UNCHANGED <<completed, slots>>

\* (Faulty: a failure is stored as well.)
StoreAll(c) ==
    LET j == call[c].job IN
    /\ At(c, "store")
    /\ Return(c, call[c].result)
    /\ order' = Kept(j)
    /\ entries' = [k \in Jobs |-> CASE k = j -> call[c].result
                                    [] k \in ToSet(Kept(j)) \ {j} -> entries[k]
                                    [] OTHER -> None]
    /\ index' = (index \cup {j}) \cap ToSet(Kept(j))
    /\ used' = AtEnd(used, j)
    /\ UNCHANGED <<completed, slots>>

\* store_completed_result: only a success is.
Store(c) ==
    LET j == call[c].job IN
    /\ At(c, "store")
    /\ Return(c, call[c].result)
    /\ IF call[c].result = "success"
       THEN /\ order' = Kept(j)
            /\ entries' = [k \in Jobs |-> CASE k = j -> "success"
                                            [] k \in ToSet(Kept(j)) \ {j} -> entries[k]
                                            [] OTHER -> None]
            /\ index' = (index \cup {j}) \cap ToSet(Kept(j))
            /\ used' = AtEnd(used, j)
       ELSE UNCHANGED <<cache, used>>
    /\ UNCHANGED <<completed, slots>>

-----------------------------------------------------------------------------
\* The outputs of a job become complete (the file system of POWER is shared).
Complete ==
    /\ \E j \in Jobs \ completed : completed' = completed \cup {j}
    /\ UNCHANGED <<cache, call, used, slots>>

\* Nothing of the cache lasts when the process restarts.
RestartCache ==
    /\ Restart
    /\ entries' = [j \in Jobs |-> None] /\ order' = << >> /\ index' = {} /\ used' = << >>
    /\ call' = [c \in Callers |-> NoCall]
    /\ UNCHANGED completed

InitCache ==
    /\ Init
    /\ completed = {}
    /\ entries = [j \in Jobs |-> None] /\ order = << >> /\ index = {} /\ used = << >>
    /\ call = [c \in Callers |-> NoCall]

Continue(c) ==
    \/ LookUpIndex(c) \/ LookUp(c) \/ GetSlot(c) \/ Busy(c) \/ Locate(c) \/ Parse(c)
    \/ Leave(c) \/ Store(c)

NextLoad ==
    \/ \E c \in Callers : Refuse(c) \/ LoadCompleted(c) \/ Continue(c)
    \/ Complete
    \/ RestartCache

\* Slots, connections and the remote parser are all waited for with a timeout.
SpecLoad ==
    /\ InitCache /\ [][NextLoad]_<<cacheVars, slots>>
    /\ \A c \in Callers : WF_<<cacheVars, slots>>(Continue(c))

-----------------------------------------------------------------------------
(* Properties.                                                             *)

\* The cache holds what was used last, by any caller, and its index leads to exactly
\* that, whoever stores and evicts between two looks at them.
CacheIsIndexed ==
    /\ order = SubSeq(used, IF Len(used) > MaxEntries THEN Len(used) - MaxEntries + 1 ELSE 1,
                      Len(used))
    /\ index = ToSet(order) /\ index = {j \in Jobs : entries[j] # None}

\* A failure is never served again: what the cache holds, and what a call answers with
\* success, are results of outputs that were complete.
FailuresAreNotKept ==
    /\ \A j \in index : entries[j] = "success"
    /\ \A j \in index : j \in completed
    /\ \A c \in Callers : call[c].result = "success" => call[c].job \in completed

\* Every call returns, whatever the others do to the cache meanwhile.
LoadsReturn == \A c \in Callers : call[c].pc # "idle" ~> call[c].pc = "idle"

=============================================================================
