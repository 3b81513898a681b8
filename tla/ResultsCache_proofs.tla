-------------------------- MODULE ResultsCache_proofs --------------------------
(***************************************************************************)
(* Proofs about RemoteSlots and ResultsCache, for any threads, jobs, slots *)
(* and size of the cache.  The invariants of the slots are those of the    *)
(* limiter, whose callers the loads are; what is kept is followed through  *)
(* calls and the cache.                                                    *)
(***************************************************************************)
EXTENDS ResultsCache, FiniteSetTheorems, TLAPS

-----------------------------------------------------------------------------
(* The limiter.                                                            *)

USE LimitAssumption

\* The callers of which f says one of a set of steps, by how many they change when
\* one caller moves.
LEMMA CountChanges ==
    ASSUME NEW f \in [Callers -> Steps], NEW g \in [Callers -> Steps], NEW set,
           NEW c \in Callers, \A d \in Callers \ {c} : g[d] = f[d]
    PROVE  LET before == {d \in Callers : f[d] \in set}
               after  == {d \in Callers : g[d] \in set}
           IN  /\ Cardinality(before) \in Nat /\ Cardinality(after) \in Nat
               /\ (f[c] \in set <=> g[c] \in set) => Cardinality(after) = Cardinality(before)
               /\ f[c] \notin set /\ g[c] \in set => Cardinality(after) = Cardinality(before) + 1
               /\ f[c] \in set /\ g[c] \notin set => Cardinality(after) = Cardinality(before) - 1
<1> DEFINE before == {d \in Callers : f[d] \in set}
           after  == {d \in Callers : g[d] \in set}
<1>1. /\ IsFiniteSet(before) /\ IsFiniteSet(after)
      /\ Cardinality(before) \in Nat /\ Cardinality(after) \in Nat
  <2>1. before \in SUBSET Callers /\ after \in SUBSET Callers
    OBVIOUS
  <2> HIDE DEF before, after
  <2> QED
    BY <2>1, FS_Subset, FS_CardinalityType
<1>2. CASE f[c] \in set <=> g[c] \in set
  <2>1. after = before
    BY <1>2
  <2> QED
    BY <1>1, <1>2, <2>1
<1>3. CASE f[c] \notin set /\ g[c] \in set
  <2>1. after = before \cup {c} /\ c \notin before
    BY <1>3
  <2> QED
    BY <1>1, <1>3, <2>1, FS_AddElement
<1>4. CASE f[c] \in set /\ g[c] \notin set
  <2>1. after = before \ {c} /\ c \in before
    BY <1>4
  <2> HIDE DEF before, after
  <2>2. Cardinality(after) = Cardinality(before) - 1
    BY <1>1, <2>1, FS_RemoveElement
  <2> QED
    BY <1>1, <1>4, <2>2 DEF before, after
<1> QED
  BY <1>2, <1>3, <1>4

HoldingSteps == Steps \ {"idle", "waiting"}
CountedSteps == {"counted", "connected", "closed"}

LEMMA InitSlotInv == Init => SlotInv
<1> SUFFICES ASSUME Init PROVE SlotInv
  OBVIOUS
<1>1. Holding = {} /\ Counted = {}
  BY DEF Init, Holding, Counted
<1>2. Cardinality({}) = 0
  BY FS_EmptySet
<1> QED
  BY <1>1, <1>2 DEF Init, SlotInv, TypeOK, Steps, SlotsAreAccounted, CountersAreTrue

\* What the move of one caller does, by how much it changes the two counts.
Moved(c, from, to, held, counted) ==
    /\ step' \in [Callers -> Steps]
    /\ {Cardinality(Holding), Cardinality(Holding)', Cardinality(Counted)} \subseteq Nat
    /\ Cardinality(Holding)' = Cardinality(Holding) + held
    /\ Cardinality(Counted)' = Cardinality(Counted) + counted
    /\ \A d \in Callers : step'[d] = IF d = c THEN to ELSE step[d]

LEMMA Moves ==
    ASSUME TypeOK, NEW c \in Callers
    PROVE  /\ Move(c, "idle", "waiting") => Moved(c, "idle", "waiting", 0, 0)
           /\ Move(c, "waiting", "acquired") => Moved(c, "waiting", "acquired", 1, 0)
           /\ Move(c, "waiting", "idle") => Moved(c, "waiting", "idle", 0, 0)
           /\ Move(c, "acquired", "counted") => Moved(c, "acquired", "counted", 0, 1)
           /\ Move(c, "counted", "connected") => Moved(c, "counted", "connected", 0, 0)
           /\ Move(c, "connected", "closed") => Moved(c, "connected", "closed", 0, 0)
           /\ Move(c, "closed", "uncounted") => Moved(c, "closed", "uncounted", 0, -1)
           /\ Move(c, "counted", "uncounted") => Moved(c, "counted", "uncounted", 0, -1)
           /\ Move(c, "uncounted", "idle") => Moved(c, "uncounted", "idle", -1, 0)
<1> SUFFICES ASSUME NEW from \in Steps, NEW to \in Steps, Move(c, from, to)
             PROVE  Moved(c, from, to,
                          (IF to \in HoldingSteps THEN 1 ELSE 0) - (IF from \in HoldingSteps THEN 1 ELSE 0),
                          (IF to \in CountedSteps THEN 1 ELSE 0) - (IF from \in CountedSteps THEN 1 ELSE 0))
  BY DEF Steps, HoldingSteps, CountedSteps
<1>1. /\ step \in [Callers -> Steps] /\ step' \in [Callers -> Steps]
      /\ step[c] = from /\ step'[c] = to /\ \A d \in Callers \ {c} : step'[d] = step[d]
  BY DEF TypeOK, Move
<1>2. /\ Holding = {d \in Callers : step[d] \in HoldingSteps}
      /\ Holding' = {d \in Callers : step'[d] \in HoldingSteps}
      /\ Counted = {d \in Callers : step[d] \in CountedSteps}
      /\ Counted' = {d \in Callers : step'[d] \in CountedSteps}
  BY <1>1 DEF Holding, HoldingSteps, Counted, CountedSteps
<1>3. /\ Cardinality(Holding) \in Nat /\ Cardinality(Holding)' \in Nat
      /\ Cardinality(Holding)' = Cardinality(Holding)
           + (IF to \in HoldingSteps THEN 1 ELSE 0) - (IF from \in HoldingSteps THEN 1 ELSE 0)
  BY <1>1, <1>2, CountChanges
<1>4. /\ Cardinality(Counted) \in Nat
      /\ Cardinality(Counted)' = Cardinality(Counted)
           + (IF to \in CountedSteps THEN 1 ELSE 0) - (IF from \in CountedSteps THEN 1 ELSE 0)
  BY <1>1, <1>2, CountChanges
<1> QED
  BY <1>1, <1>3, <1>4 DEF Moved

\* Whoever is counted in holds a slot, so there are never more than the limit.
LEMMA CountedHold ==
    ASSUME TypeOK, NEW c \in Callers, step[c] = "acquired"
    PROVE  Cardinality(Counted) < Cardinality(Holding)
<1>1. Counted \in SUBSET Holding /\ Counted # Holding /\ Holding \in SUBSET Callers
  BY DEF Counted, Holding
<1> QED
  BY <1>1, FS_Subset, FS_CardinalityType

LEMMA SlotInvIsInductive == SlotInv /\ [Next]_vars => SlotInv'
<1> SUFFICES ASSUME SlotInv, [Next]_vars PROVE SlotInv'
  OBVIOUS
<1> USE DEF SlotInv, SlotsAreAccounted, CountersAreTrue
<1>0. TypeOK
  OBVIOUS
<1>1. CASE UNCHANGED vars
  BY <1>1 DEF vars, TypeOK, Holding, Counted
<1>2. ASSUME NEW c \in Callers, Call(c) PROVE SlotInv'
  <2>1. Moved(c, "idle", "waiting", 0, 0)
    BY <1>0, <1>2, Moves DEF Call
  <2> QED
    BY <1>0, <1>2, <2>1 DEF Moved, Call, Move, TypeOK
<1>3. ASSUME NEW c \in Callers, Acquire(c) PROVE SlotInv'
  <2>1. Moved(c, "waiting", "acquired", 1, 0)
    BY <1>0, <1>3, Moves DEF Acquire
  <2> QED
    BY <1>0, <1>3, <2>1 DEF Moved, Acquire, Move, TypeOK
<1>4. ASSUME NEW c \in Callers, TimeOut(c) PROVE SlotInv'
  <2>1. Moved(c, "waiting", "idle", 0, 0)
    BY <1>0, <1>4, Moves DEF TimeOut
  <2> QED
    BY <1>0, <1>4, <2>1 DEF Moved, TimeOut, Move, TypeOK
<1>5. ASSUME NEW c \in Callers, CountIn(c) PROVE SlotInv'
  <2>1. Cardinality(Counted) < Cardinality(Holding)
    BY <1>0, <1>5, CountedHold DEF CountIn, Move
  <2>2. Moved(c, "acquired", "counted", 0, 1)
    BY <1>0, <1>5, Moves DEF CountIn
  <2> QED
    BY <1>0, <1>5, <2>1, <2>2 DEF Moved, CountIn, Move, TypeOK
<1>6. ASSUME NEW c \in Callers, Connect(c) PROVE SlotInv'
  <2>1. Moved(c, "counted", "connected", 0, 0)
    BY <1>0, <1>6, Moves DEF Connect
  <2> QED
    BY <1>0, <1>6, <2>1 DEF Moved, Connect, Move, TypeOK
<1>7. ASSUME NEW c \in Callers, Close(c) PROVE SlotInv'
  <2>1. Moved(c, "connected", "closed", 0, 0)
    BY <1>0, <1>7, Moves DEF Close
  <2> QED
    BY <1>0, <1>7, <2>1 DEF Moved, Close, Move, TypeOK
<1>8. ASSUME NEW c \in Callers, CountOut(c) PROVE SlotInv'
  <2>1. Moved(c, "closed", "uncounted", 0, -1) \/ Moved(c, "counted", "uncounted", 0, -1)
    BY <1>0, <1>8, Moves DEF CountOut
  <2> QED
    BY <1>0, <1>8, <2>1 DEF Moved, CountOut, Move, TypeOK
<1>9. ASSUME NEW c \in Callers, Release(c) PROVE SlotInv'
  <2>1. Moved(c, "uncounted", "idle", -1, 0)
    BY <1>0, <1>9, Moves DEF Release
  <2> QED
    BY <1>0, <1>9, <2>1 DEF Moved, Release, Move, TypeOK
<1>10. ASSUME Restart PROVE SlotInv'
  <2>1. Holding' = {} /\ Counted' = {} /\ Cardinality({}) = 0
    BY <1>10, FS_EmptySet DEF Restart, Holding, Counted
  <2> QED
    BY <1>10, <2>1 DEF Restart, TypeOK, Steps
<1> QED
  BY <1>1, <1>2, <1>3, <1>4, <1>5, <1>6, <1>7, <1>8, <1>9, <1>10 DEF Next, Proceed

\* No slot is lost or given back twice, for any limit and any number of threads.
THEOREM NoSlotIsLost == Spec => []SlotsAreAccounted
<1>1. SlotInv => SlotsAreAccounted
  BY DEF SlotInv
<1> QED
  BY <1>1, InitSlotInv, SlotInvIsInductive, PTL DEF Spec

\* No more connections are open than the limit, whatever fails inside a slot.
THEOREM ConnectionsStayWithinLimit == Spec => []ConnectionsWithinLimit
<1>1. SlotInv => ConnectionsWithinLimit
  <2> SUFFICES ASSUME SlotInv PROVE ConnectionsWithinLimit
    OBVIOUS
  <2>1. open \in SUBSET Holding /\ Holding \in SUBSET Callers
    BY DEF SlotInv, Holding
  <2>2. Cardinality(open) <= Cardinality(Holding) /\ Cardinality(Holding) \in Nat
        /\ Cardinality(open) \in Nat
    BY <2>1, FS_Subset, FS_CardinalityType
  <2> QED
    BY <2>2 DEF SlotInv, TypeOK, SlotsAreAccounted, ConnectionsWithinLimit
<1> QED
  BY <1>1, InitSlotInv, SlotInvIsInductive, PTL DEF Spec

\* snapshot() tells the number of active callers and its maximum exactly.
THEOREM SnapshotsAreTrue == Spec => []CountersAreTrue
<1>1. SlotInv => CountersAreTrue
  BY DEF SlotInv
<1> QED
  BY <1>1, InitSlotInv, SlotInvIsInductive, PTL DEF Spec

HIDE LimitAssumption

-----------------------------------------------------------------------------
(* The loads are callers of the limiter.                                   *)

LEMMA StepsOfSlots == NextLoad => [Next]_vars
<1> SUFFICES ASSUME NextLoad PROVE [Next]_vars
  OBVIOUS
<1>1. ASSUME NEW c \in Callers, Refuse(c) \/ LoadCompleted(c) PROVE UNCHANGED vars
  BY <1>1 DEF Refuse, LoadCompleted, slots
<1>2. ASSUME NEW c \in Callers, LookUpIndex(c) PROVE UNCHANGED vars \/ Call(c)
  BY <1>2 DEF LookUpIndex, slots
<1>3. ASSUME NEW c \in Callers, LookUp(c) PROVE UNCHANGED vars \/ Call(c)
  BY <1>3 DEF LookUp, slots
<1>4. ASSUME NEW c \in Callers, GetSlot(c) \/ Busy(c) PROVE Proceed(c)
  BY <1>4 DEF GetSlot, Busy, Proceed
<1>5. ASSUME NEW c \in Callers, Locate(c) \/ Parse(c) \/ Store(c) PROVE UNCHANGED vars
  BY <1>5 DEF Locate, Parse, Store, slots
<1>6. ASSUME NEW c \in Callers, Leave(c) PROVE Proceed(c)
  BY <1>6 DEF Leave, Proceed
<1>7. ASSUME Complete PROVE UNCHANGED vars
  BY <1>7 DEF Complete, slots
<1>8. ASSUME RestartCache PROVE Restart
  BY <1>8 DEF RestartCache
<1> QED
  BY <1>1, <1>2, <1>3, <1>4, <1>5, <1>6, <1>7, <1>8 DEF NextLoad, Continue, Next

\* Loading results takes and gives back slots as RemoteSlots says.
THEOREM LoadsUseSlots == SpecLoad => Spec
<1>1. InitCache => Init
  BY DEF InitCache
<1>2. [NextLoad]_<<cacheVars, slots>> => [Next]_vars
  BY StepsOfSlots DEF slots
<1> QED
  BY <1>1, <1>2, PTL DEF SpecLoad, Spec

\* No load loses a slot or gives it back twice, whatever fails on its connection.
THEOREM LoadsLoseNoSlot == SpecLoad => []SlotsAreAccounted
  BY LoadsUseSlots, NoSlotIsLost, PTL

\* Loads never have more connections open than the limit.
THEOREM LoadsStayWithinLimit == SpecLoad => []ConnectionsWithinLimit
  BY LoadsUseSlots, ConnectionsStayWithinLimit, PTL

-----------------------------------------------------------------------------
(* What the cache holds.                                                   *)

\* The inductive invariant: also an entry that the index does not lead to, and a
\* result that is still to be stored, is a success of outputs that were complete.
KeptInv ==
    /\ entries \in [Jobs -> {"success", None}]
    /\ call \in [Callers -> [pc : {"idle", "index", "lookup", "remote", "located", "parse",
                                   "keep", "leave", "store"},
                             job : Jobs \cup {None},
                             result : {"none", "success", "error", None}]]
    /\ index \subseteq {j \in Jobs : entries[j] = "success"}
    /\ \A j \in Jobs : entries[j] = "success" => j \in completed
    /\ \A c \in Callers :
          /\ call[c].result = "success" => call[c].job \in completed
          /\ call[c].pc # "idle" => call[c].job \in Jobs

LEMMA InitKeptInv == InitCache => KeptInv
  BY CacheAssumption DEF InitCache, KeptInv, NoCall

LEMMA KeptInvIsInductive == KeptInv /\ [NextLoad]_<<cacheVars, slots>> => KeptInv'
<1> SUFFICES ASSUME KeptInv, [NextLoad]_<<cacheVars, slots>> PROVE KeptInv'
  OBVIOUS
<1>1. CASE UNCHANGED <<cacheVars, slots>>
  BY <1>1 DEF cacheVars, cache, KeptInv
<1>2. ASSUME NEW c \in Callers, Refuse(c) PROVE KeptInv'
  BY <1>2 DEF KeptInv, Refuse, cache
<1>3. ASSUME NEW c \in Callers, LoadCompleted(c) PROVE KeptInv'
  BY <1>3, CacheAssumption DEF KeptInv, LoadCompleted, cache
<1>4. ASSUME NEW c \in Callers, LookUpIndex(c) PROVE KeptInv'
  BY <1>4 DEF KeptInv, LookUpIndex, Go, At, cache
<1>5. ASSUME NEW c \in Callers, LookUp(c) PROVE KeptInv'
  <2>1. call[c].job \in Jobs
    BY <1>5 DEF KeptInv, LookUp, At
  <2>2. CASE entries[call[c].job] # None
    BY <1>5, <2>1, <2>2 DEF KeptInv, LookUp, At
  <2>3. CASE entries[call[c].job] = None
    BY <1>5, <2>1, <2>3 DEF KeptInv, LookUp, Go, At
  <2> QED
    BY <2>2, <2>3
<1>6. ASSUME NEW c \in Callers, GetSlot(c) PROVE KeptInv'
  BY <1>6 DEF KeptInv, GetSlot, cacheVars, cache
<1>7. ASSUME NEW c \in Callers, Busy(c) PROVE KeptInv'
  BY <1>7 DEF KeptInv, Busy, Return, At, cache
<1>8. ASSUME NEW c \in Callers, Locate(c) PROVE KeptInv'
  BY <1>8 DEF KeptInv, Locate, Go, FailRemotely, At, cache
<1>9. ASSUME NEW c \in Callers, Parse(c) PROVE KeptInv'
  <2>1. call[c].job \in Jobs
    BY <1>9 DEF KeptInv, Parse, At
  <2> QED
    BY <1>9, <2>1 DEF KeptInv, Parse, FailRemotely, cache
<1>10. ASSUME NEW c \in Callers, Leave(c) PROVE KeptInv'
  <2>1. CASE UNCHANGED call
    BY <1>10, <2>1 DEF KeptInv, Leave, cache
  <2>2. CASE Go(c, IF At(c, "keep") THEN "store" ELSE "idle")
    BY <1>10, <2>2 DEF KeptInv, Leave, Go, At, cache
  <2> QED
    BY <1>10, <2>1, <2>2 DEF Leave
<1>11. ASSUME NEW c \in Callers, Store(c) PROVE KeptInv'
  <2>1. call[c].job \in Jobs
    BY <1>11 DEF KeptInv, Store, At
  <2>2. call' = [call EXCEPT ![c].pc = "idle", ![c].result = call[c].result]
    BY <1>11 DEF Store, Return, KeptInv
  <2>5. /\ completed' = completed
        /\ call' \in [Callers -> [pc : {"idle", "index", "lookup", "remote", "located", "parse",
                                        "keep", "leave", "store"},
                                  job : Jobs \cup {None},
                                  result : {"none", "success", "error", None}]]
        /\ \A d \in Callers :
              /\ call'[d].result = call[d].result /\ call'[d].job = call[d].job
              /\ call'[d].pc # "idle" => call[d].pc # "idle"
    BY <1>11, <2>2 DEF Store, KeptInv
  <2>3. CASE call[c].result = "success"
    <3>1. /\ entries' \in [Jobs -> {"success", None}]
          /\ \A j \in Jobs : entries'[j] = "success" =>
                j = call[c].job \/ entries[j] = "success"
      BY <1>11, <2>1, <2>3, CacheAssumption DEF KeptInv, Store
    <3>2. index' \subseteq {j \in Jobs : entries'[j] = "success"}
      BY <1>11, <2>1, <2>3 DEF KeptInv, Store
    <3> QED
      BY <2>1, <2>3, <2>5, <3>1, <3>2 DEF KeptInv
  <2>4. CASE call[c].result # "success"
    <3>1. UNCHANGED <<entries, index>>
      BY <1>11, <2>4 DEF Store, cache
    <3> QED
      BY <2>4, <2>5, <3>1 DEF KeptInv
  <2> QED
    BY <2>3, <2>4
<1>12. ASSUME Complete PROVE KeptInv'
  BY <1>12 DEF KeptInv, Complete, cache
<1>13. ASSUME RestartCache PROVE KeptInv'
  BY <1>13, CacheAssumption DEF KeptInv, RestartCache, NoCall
<1> QED
  BY <1>1, <1>2, <1>3, <1>4, <1>5, <1>6, <1>7, <1>8, <1>9, <1>10, <1>11, <1>12, <1>13
  DEF NextLoad, Continue

\* No failure is kept and served again: whatever is in the cache, and whatever a call
\* answers with success, is of outputs that were complete.
THEOREM NoFailureIsKept == SpecLoad => []FailuresAreNotKept
<1>1. KeptInv => FailuresAreNotKept
  BY DEF KeptInv, FailuresAreNotKept
<1> QED
  BY <1>1, InitKeptInv, KeptInvIsInductive, PTL DEF SpecLoad

-----------------------------------------------------------------------------
(* The order of the cache.                                                 *)

\* o is what u ends with, from place d on.
IsEndOf(o, u, d) ==
    /\ o \in Seq(Jobs) /\ u \in Seq(Jobs) /\ d \in 0..Len(u) /\ Len(o) = Len(u) - d
    /\ \A i \in 1..Len(o) : o[i] = u[d + i]

LEMMA EndIsSubSeq ==
  ASSUME NEW u \in Seq(Jobs), NEW d \in 0..Len(u), NEW o
  PROVE  o = SubSeq(u, d + 1, Len(u)) <=> IsEndOf(o, u, d)
<1>1. /\ SubSeq(u, d + 1, Len(u)) \in Seq(Jobs) /\ Len(SubSeq(u, d + 1, Len(u))) = Len(u) - d
      /\ \A i \in 1..(Len(u) - d) : SubSeq(u, d + 1, Len(u))[i] = u[d + i]
  OBVIOUS
<1>2. o = SubSeq(u, d + 1, Len(u)) => IsEndOf(o, u, d)
  BY <1>1 DEF IsEndOf
<1>3. ASSUME IsEndOf(o, u, d) PROVE o = SubSeq(u, d + 1, Len(u))
  BY <1>1, <1>3 DEF IsEndOf
<1> QED
  BY <1>2, <1>3

\* move_to_end of a job that is at place p.
LEMMA RemoveFirstIsRemoveAt ==
  ASSUME NEW s \in Seq(Jobs), IsInjective(s), NEW p \in 1..Len(s)
  PROVE  RemoveFirst(s, s[p]) = RemoveAt(s, p)
<1>1. {i \in 1..Len(s) : s[i] = s[p]} = {p}
  BY DEF IsInjective
<1>2. SelectInSeq(s, LAMBDA v : v = s[p]) = p
  BY <1>1 DEF SelectInSeq, Min
<1> QED
  BY <1>2 DEF RemoveFirst

LEMMA AtEndOfOld ==
  ASSUME NEW s \in Seq(Jobs), IsInjective(s), NEW p \in 1..Len(s)
  PROVE  LET r == AtEnd(s, s[p])
         IN  /\ r \in Seq(Jobs) /\ Len(r) = Len(s) /\ r[Len(s)] = s[p] /\ IsInjective(r)
             /\ \A i \in 1..(Len(s) - 1) : r[i] = s[IF i < p THEN i ELSE i + 1]
<1> DEFINE rest == SubSeq(s, 1, p - 1) \o SubSeq(s, p + 1, Len(s))
           r == AtEnd(s, s[p])
<1>1. r = Append(rest, s[p])
  BY RemoveFirstIsRemoveAt DEF AtEnd, RemoveAt
<1>2. /\ rest \in Seq(Jobs) /\ Len(rest) = Len(s) - 1
      /\ \A i \in 1..(Len(s) - 1) : rest[i] = s[IF i < p THEN i ELSE i + 1]
  <2> DEFINE a == SubSeq(s, 1, p - 1)
             b == SubSeq(s, p + 1, Len(s))
  <2>1. a \in Seq(Jobs) /\ Len(a) = p - 1 /\ \A i \in 1..(p - 1) : a[i] = s[i]
    OBVIOUS
  <2>2. b \in Seq(Jobs) /\ Len(b) = Len(s) - p /\ \A i \in 1..(Len(s) - p) : b[i] = s[p + i]
    OBVIOUS
  <2> HIDE DEF a, b
  <2>0. p \in Nat /\ Len(s) \in Nat /\ p <= Len(s) /\ 1 <= p
    OBVIOUS
  <2>3. a \o b \in Seq(Jobs) /\ Len(a \o b) = Len(s) - 1
    <3>1. a \in Seq(Jobs) /\ b \in Seq(Jobs) /\ Len(a) = p - 1 /\ Len(b) = Len(s) - p
      BY <2>1, <2>2
    <3>2. (p - 1) + (Len(s) - p) = Len(s) - 1
      BY <2>0
    <3>3. a \o b \in Seq(Jobs) /\ Len(a \o b) = Len(a) + Len(b)
      BY <3>1
    <3> QED
      BY <3>1, <3>2, <3>3
  <2>4. ASSUME NEW i \in 1..(Len(s) - 1) PROVE (a \o b)[i] = s[IF i < p THEN i ELSE i + 1]
    <3>1. CASE i < p
      BY <2>1, <2>2, <3>1
    <3>2. CASE i >= p
      <4>1. (a \o b)[i] = b[i - (p - 1)]
        BY <2>1, <2>2, <3>2
      <4>2. i - (p - 1) \in 1..(Len(s) - p) /\ p + (i - (p - 1)) = i + 1
        BY <3>2
      <4>3. b[i - (p - 1)] = s[p + (i - (p - 1))]
        BY <2>2, <4>2
      <4> QED
        BY <3>2, <4>1, <4>2, <4>3
    <3>3. i < p \/ i >= p
      BY <2>0
    <3> QED
      BY <3>1, <3>2, <3>3
  <2> QED
    BY <2>3, <2>4 DEF a, b
<1> HIDE DEF rest
<1>3. s[p] \in Jobs /\ Len(s) \in Nat /\ Len(s) >= 1
  OBVIOUS
<1>4. /\ r \in Seq(Jobs) /\ Len(r) = Len(s) /\ r[Len(s)] = s[p]
      /\ \A i \in 1..(Len(s) - 1) : r[i] = s[IF i < p THEN i ELSE i + 1]
  BY <1>1, <1>2, <1>3
<1> HIDE DEF r
<1>5. ASSUME NEW i \in DOMAIN r, NEW k \in DOMAIN r, r[i] = r[k] PROVE i = k
  <2> DEFINE old(x) == IF x = Len(s) THEN p ELSE IF x < p THEN x ELSE x + 1
  <2>1. \A x \in 1..Len(s) : r[x] = s[old(x)] /\ old(x) \in 1..Len(s)
    BY <1>3, <1>4
  <2>2. i \in 1..Len(s) /\ k \in 1..Len(s)
    BY <1>4
  <2>3. old(i) = old(k)
    BY <1>5, <2>1, <2>2 DEF IsInjective
  <2> QED
    BY <1>3, <2>2, <2>3
<1>6. IsInjective(r)
  BY <1>5 DEF IsInjective
<1> QED
  BY <1>4, <1>6 DEF r

LEMMA AtEndOfNew ==
  ASSUME NEW s \in Seq(Jobs), IsInjective(s), NEW j \in Jobs, j \notin ToSet(s)
  PROVE  AtEnd(s, j) = Append(s, j) /\ IsInjective(Append(s, j))
<1>1. ~\E i \in 1..Len(s) : s[i] = j
  BY DEF ToSet
<1>2. AtEnd(s, j) = Append(s, j)
  BY <1>1 DEF AtEnd, RemoveFirst
<1> QED
  BY <1>1, <1>2 DEF IsInjective

LEMMA TailOfAppend ==
  ASSUME NEW o \in Seq(Jobs), NEW j \in Jobs
  PROVE  /\ Append(o, j) \in Seq(Jobs) /\ Len(Append(o, j)) = Len(o) + 1
         /\ \A i \in 1..(Len(o) + 1) : Append(o, j)[i] = IF i = Len(o) + 1 THEN j ELSE o[i]
         /\ Tail(Append(o, j)) \in Seq(Jobs) /\ Len(Tail(Append(o, j))) = Len(o)
         /\ \A i \in 1..Len(o) : Tail(Append(o, j))[i] = IF i = Len(o) THEN j ELSE o[i + 1]
<1> DEFINE a == Append(o, j)
<1>1. /\ a \in Seq(Jobs) /\ Len(a) = Len(o) + 1 /\ Len(o) \in Nat
      /\ \A i \in 1..(Len(o) + 1) : a[i] = IF i = Len(o) + 1 THEN j ELSE o[i]
  OBVIOUS
<1> HIDE DEF a
<1>2. /\ Tail(a) \in Seq(Jobs) /\ Len(Tail(a)) = Len(o)
      /\ \A i \in 1..Len(o) : Tail(a)[i] = a[i + 1]
  BY <1>1
<1>3. \A i \in 1..Len(o) : i + 1 \in 1..(Len(o) + 1) /\ (i + 1 = Len(o) + 1 <=> i = Len(o))
  BY <1>1
<1> QED
  BY <1>1, <1>2, <1>3 DEF a

LEMMA EndFollows ==
  ASSUME NEW u, NEW o, NEW d, IsEndOf(o, u, d), IsInjective(u), NEW j \in Jobs
  PROVE  /\ IsInjective(o)
         /\ AtEnd(u, j) \in Seq(Jobs) /\ IsInjective(AtEnd(u, j))
         /\ j \in ToSet(o) => Len(AtEnd(u, j)) = Len(u) /\ IsEndOf(AtEnd(o, j), AtEnd(u, j), d)
         /\ j \notin ToSet(o) /\ j \in ToSet(u) =>
               d > 0 /\ Len(AtEnd(u, j)) = Len(u) /\ IsEndOf(Tail(AtEnd(o, j)), AtEnd(u, j), d)
         /\ j \notin ToSet(u) =>
               /\ Len(AtEnd(u, j)) = Len(u) + 1 /\ IsEndOf(AtEnd(o, j), AtEnd(u, j), d)
               /\ IsEndOf(Tail(AtEnd(o, j)), AtEnd(u, j), d + 1)
         /\ Len(AtEnd(o, j)) = IF j \in ToSet(o) THEN Len(o) ELSE Len(o) + 1
<1>1. /\ u \in Seq(Jobs) /\ o \in Seq(Jobs) /\ d \in 0..Len(u) /\ Len(o) = Len(u) - d
      /\ \A i \in 1..Len(o) : o[i] = u[d + i]
      /\ d \in Nat /\ Len(o) \in Nat /\ Len(u) \in Nat /\ DOMAIN o = 1..Len(o) /\ DOMAIN u = 1..Len(u)
  BY DEF IsEndOf
<1>0. d \in Nat /\ Len(o) \in Nat /\ Len(u) \in Nat /\ Len(o) = Len(u) - d /\ d <= Len(u)
  BY <1>1
<1>2. IsInjective(o)
  <2>1. \A i \in 1..Len(o) : d + i \in 1..Len(u)
    BY <1>1
  <2>2. ASSUME NEW i \in 1..Len(o), NEW k \in 1..Len(o), o[i] = o[k] PROVE i = k
    <3>1. d + i = d + k
      BY <1>1, <2>1, <2>2 DEF IsInjective
    <3> QED
      BY <1>1, <3>1
  <2> QED
    BY <1>1, <2>2 DEF IsInjective
<1>3. ASSUME NEW q \in 1..Len(o), o[q] = j
      PROVE  /\ Len(AtEnd(u, j)) = Len(u) /\ IsEndOf(AtEnd(o, j), AtEnd(u, j), d) /\ Len(AtEnd(o, j)) = Len(o)
             /\ AtEnd(u, j) \in Seq(Jobs) /\ IsInjective(AtEnd(u, j))
  <2>1. d + q \in 1..Len(u) /\ u[d + q] = j
    BY <1>1, <1>3
  <2> DEFINE au == AtEnd(u, j)
             ao == AtEnd(o, j)
  <2>2. /\ au \in Seq(Jobs) /\ Len(au) = Len(u) /\ au[Len(u)] = j /\ IsInjective(au)
        /\ \A i \in 1..(Len(u) - 1) : au[i] = u[IF i < d + q THEN i ELSE i + 1]
    BY <1>1, <2>1, AtEndOfOld
  <2>3. /\ ao \in Seq(Jobs) /\ Len(ao) = Len(o) /\ ao[Len(o)] = j
        /\ \A i \in 1..(Len(o) - 1) : ao[i] = o[IF i < q THEN i ELSE i + 1]
    BY <1>1, <1>2, <1>3, AtEndOfOld
  <2> HIDE DEF au, ao
  <2>4. ASSUME NEW i \in 1..Len(o) PROVE ao[i] = au[d + i]
    <3>1. CASE i = Len(o)
      BY <1>1, <2>2, <2>3, <3>1
    <3>2. CASE i # Len(o)
      <4>1. i \in 1..(Len(o) - 1) /\ d + i \in 1..(Len(u) - 1)
        BY <1>1, <3>2
      <4>2. ao[i] = o[IF i < q THEN i ELSE i + 1] /\ au[d + i] = u[IF d + i < d + q THEN d + i ELSE d + i + 1]
        BY <2>2, <2>3, <4>1
      <4>3. (IF i < q THEN i ELSE i + 1) \in 1..Len(o)
            /\ (IF d + i < d + q THEN d + i ELSE d + i + 1) = d + (IF i < q THEN i ELSE i + 1)
        BY <1>1, <4>1
      <4> QED
        BY <1>1, <4>2, <4>3
    <3> QED
      BY <3>1, <3>2
  <2>5. IsEndOf(ao, au, d)
    BY <1>1, <2>2, <2>3, <2>4 DEF IsEndOf
  <2> QED
    BY <2>2, <2>3, <2>5 DEF au, ao
<1>4. ASSUME j \notin ToSet(o), NEW q \in 1..Len(u), u[q] = j
      PROVE  /\ d > 0 /\ Len(AtEnd(u, j)) = Len(u) /\ IsEndOf(Tail(AtEnd(o, j)), AtEnd(u, j), d)
             /\ AtEnd(u, j) \in Seq(Jobs) /\ IsInjective(AtEnd(u, j))
  <2>1. q <= d
    <3>1. ASSUME q > d PROVE FALSE
      <4>1. q - d \in 1..Len(o) /\ o[q - d] = j
        BY <1>1, <1>4, <3>1
      <4> QED
        BY <1>1, <1>4, <4>1 DEF ToSet
    <3> QED
      BY <1>1, <3>1
  <2> DEFINE au == AtEnd(u, j)
             to == Tail(AtEnd(o, j))
  <2>2. /\ au \in Seq(Jobs) /\ Len(au) = Len(u) /\ au[Len(u)] = j /\ IsInjective(au)
        /\ \A i \in 1..(Len(u) - 1) : au[i] = u[IF i < q THEN i ELSE i + 1]
    BY <1>1, <1>4, AtEndOfOld
  <2>3. to = Tail(Append(o, j))
    BY <1>1, <1>2, <1>4, AtEndOfNew
  <2>4. /\ to \in Seq(Jobs) /\ Len(to) = Len(o)
        /\ \A i \in 1..Len(o) : to[i] = IF i = Len(o) THEN j ELSE o[i + 1]
    <3>1. o \in Seq(Jobs)
      BY <1>1
    <3>2. /\ Tail(Append(o, j)) \in Seq(Jobs) /\ Len(Tail(Append(o, j))) = Len(o)
          /\ \A i \in 1..Len(o) : Tail(Append(o, j))[i] = IF i = Len(o) THEN j ELSE o[i + 1]
      BY <3>1, TailOfAppend
    <3> HIDE DEF to
    <3> QED
      BY <2>3, <3>2
  <2> HIDE DEF au, to
  <2>5. ASSUME NEW i \in 1..Len(o) PROVE to[i] = au[d + i]
    <3>1. CASE i = Len(o)
      <4>1. d + i = Len(u)
        BY <1>1, <3>1
      <4> QED
        BY <2>2, <2>4, <3>1, <4>1
    <3>2. CASE i # Len(o)
      <4> DEFINE lu == Len(u)
                 lo == Len(o)
      <4>0. lu \in Nat /\ lo \in Nat /\ d \in Nat /\ lo = lu - d /\ i \in 1..lo /\ i # lo /\ q \in Nat /\ q <= d
        BY <1>1, <2>1, <3>2
      <4> HIDE DEF lu, lo
      <4>4. d + i \in 1..(lu - 1) /\ ~(d + i < q) /\ i + 1 \in 1..lo /\ d + (i + 1) = d + i + 1
        BY <4>0
      <4>1. d + i \in 1..(Len(u) - 1) /\ ~(d + i < q) /\ i + 1 \in 1..Len(o)
        BY <4>4 DEF lu, lo
      <4>2. to[i] = o[i + 1] /\ au[d + i] = u[d + i + 1]
        BY <2>2, <2>4, <3>2, <4>1
      <4>3. o[i + 1] = u[d + (i + 1)] /\ d + (i + 1) = d + i + 1
        <5>1. \A k \in 1..Len(o) : o[k] = u[d + k]
          BY <1>1, Zenon DEF IsEndOf
        <5> QED
          BY <4>1, <4>4, <5>1, Zenon
      <4> QED
        BY <4>2, <4>3
    <3> QED
      BY <3>1, <3>2
  <2>6. IsEndOf(to, au, d)
    BY <1>1, <2>2, <2>4, <2>5 DEF IsEndOf
  <2>7. d > 0
    BY <1>1, <2>1
  <2> QED
    BY <2>2, <2>6, <2>7 DEF au, to
<1>5. ASSUME j \notin ToSet(u)
      PROVE  /\ Len(AtEnd(u, j)) = Len(u) + 1 /\ IsEndOf(AtEnd(o, j), AtEnd(u, j), d) /\ j \notin ToSet(o)
             /\ IsEndOf(Tail(AtEnd(o, j)), AtEnd(u, j), d + 1)
             /\ AtEnd(u, j) \in Seq(Jobs) /\ IsInjective(AtEnd(u, j))
  <2>1. j \notin ToSet(o)
    <3>1. \A i \in 1..Len(o) : o[i] = u[d + i] /\ d + i \in 1..Len(u)
      BY <1>1
    <3> QED
      BY <1>1, <1>5, <3>1 DEF ToSet
  <2>2. AtEnd(u, j) = Append(u, j) /\ IsInjective(Append(u, j))
    BY <1>1, <1>5, AtEndOfNew
  <2>3. AtEnd(o, j) = Append(o, j)
    BY <1>1, <1>2, <2>1, AtEndOfNew
  <2>4. Append(u, j) \in Seq(Jobs) /\ Len(Append(u, j)) = Len(u) + 1
    BY <1>1
  <2> DEFINE ao == Append(o, j)
             au == Append(u, j)
             to == Tail(Append(o, j))
  <2>5. /\ ao \in Seq(Jobs) /\ Len(ao) = Len(o) + 1 /\ \A i \in 1..(Len(o) + 1) : ao[i] = IF i = Len(o) + 1 THEN j ELSE o[i]
        /\ au \in Seq(Jobs) /\ Len(au) = Len(u) + 1 /\ \A i \in 1..(Len(u) + 1) : au[i] = IF i = Len(u) + 1 THEN j ELSE u[i]
        /\ to \in Seq(Jobs) /\ Len(to) = Len(o) /\ \A i \in 1..Len(o) : to[i] = IF i = Len(o) THEN j ELSE o[i + 1]
    BY <1>1, TailOfAppend
  <2> HIDE DEF ao, au, to
  <2>6. Len(ao) = Len(o) + 1 /\ Len(au) = Len(u) + 1 /\ Len(to) = Len(o)
    BY <2>5
  <2>7. IsEndOf(ao, au, d)
    <3>1. ASSUME NEW i \in 1..Len(ao) PROVE ao[i] = au[d + i]
      <4>1. i \in 1..(Len(o) + 1) /\ d + i \in 1..(Len(u) + 1) /\ (i = Len(o) + 1 <=> d + i = Len(u) + 1)
            /\ (i # Len(o) + 1 => i \in 1..Len(o))
        BY <1>0, <2>6
      <4> QED
        BY <1>1, <2>5, <4>1
    <3>2. d \in 0..Len(au) /\ Len(ao) = Len(au) - d
      BY <1>0, <2>6
    <3> QED
      BY <2>5, <3>1, <3>2 DEF IsEndOf
  <2>8. IsEndOf(to, au, d + 1)
    <3>1. ASSUME NEW i \in 1..Len(to) PROVE to[i] = au[d + 1 + i]
      <4>1. /\ i \in 1..Len(o) /\ d + 1 + i \in 1..(Len(u) + 1) /\ (i = Len(o) <=> d + 1 + i = Len(u) + 1)
            /\ (i # Len(o) => i + 1 \in 1..Len(o)) /\ d + (i + 1) = d + 1 + i
        BY <1>0, <2>6
      <4> QED
        BY <1>1, <2>5, <4>1
    <3>2. d + 1 \in 0..Len(au) /\ Len(to) = Len(au) - (d + 1)
      BY <1>0, <2>6
    <3> QED
      BY <2>5, <3>1, <3>2 DEF IsEndOf
  <2> QED
    BY <2>1, <2>2, <2>3, <2>4, <2>7, <2>8 DEF ao, au, to
<1>6. j \in ToSet(o) => \E q \in 1..Len(o) : o[q] = j
  BY <1>1 DEF ToSet
<1>7. j \in ToSet(u) => \E q \in 1..Len(u) : u[q] = j
  BY <1>1 DEF ToSet
<1>8. j \notin ToSet(o) => Len(AtEnd(o, j)) = Len(o) + 1
  <2>1. o \in Seq(Jobs)
    BY <1>1
  <2>2. Len(Append(o, j)) = Len(o) + 1
    BY <2>1, TailOfAppend
  <2> QED
    BY <1>2, <2>1, <2>2, AtEndOfNew
<1> QED
  BY <1>2, <1>3, <1>4, <1>5, <1>6, <1>7, <1>8

LEMMA SetOfAtEnd ==
  ASSUME NEW s \in Seq(Jobs), IsInjective(s), NEW j \in Jobs
  PROVE  ToSet(AtEnd(s, j)) = ToSet(s) \cup {j}
<1>1. CASE j \in ToSet(s)
  <2>1. PICK p \in 1..Len(s) : s[p] = j
    BY <1>1 DEF ToSet
  <2> DEFINE r == AtEnd(s, j)
  <2>2. /\ r \in Seq(Jobs) /\ Len(r) = Len(s) /\ r[Len(s)] = j
        /\ \A i \in 1..(Len(s) - 1) : r[i] = s[IF i < p THEN i ELSE i + 1]
    BY <2>1, AtEndOfOld
  <2> HIDE DEF r
  <2>3. ASSUME NEW i \in 1..Len(s) PROVE s[i] \in ToSet(r)
    <3>1. CASE i = p
      BY <2>1, <2>2, <3>1 DEF ToSet
    <3>2. CASE i < p
      <4>1. i \in 1..(Len(s) - 1) /\ i \in DOMAIN r
        BY <2>2, <3>2
      <4>2. r[i] = s[i]
        BY <2>2, <3>2, <4>1
      <4> QED
        BY <4>1, <4>2 DEF ToSet
    <3>3. CASE i > p
      <4>1. i - 1 \in 1..(Len(s) - 1) /\ i - 1 \in DOMAIN r /\ ~(i - 1 < p) /\ i - 1 + 1 = i
        BY <2>2, <3>3
      <4>2. r[i - 1] = s[i]
        BY <2>2, <4>1
      <4> QED
        BY <4>1, <4>2 DEF ToSet
    <3> QED
      BY <3>1, <3>2, <3>3
  <2>4. ASSUME NEW i \in 1..Len(s) PROVE r[i] \in ToSet(s)
    <3>1. CASE i = Len(s)
      BY <1>1, <2>2, <3>1
    <3>2. CASE i # Len(s)
      <4>1. i \in 1..(Len(s) - 1) /\ (IF i < p THEN i ELSE i + 1) \in 1..Len(s)
        BY <3>2
      <4> QED
        BY <2>2, <4>1 DEF ToSet
    <3> QED
      BY <3>1, <3>2
  <2>5. DOMAIN r = 1..Len(s) /\ DOMAIN s = 1..Len(s)
    BY <2>2
  <2>6. ToSet(s) \subseteq ToSet(r)
    BY <2>3, <2>5 DEF ToSet
  <2>7. ToSet(r) \subseteq ToSet(s)
    BY <2>4, <2>5 DEF ToSet
  <2> QED
    BY <1>1, <2>6, <2>7 DEF r
<1>2. CASE j \notin ToSet(s)
  <2>1. AtEnd(s, j) = Append(s, j)
    BY <1>2, AtEndOfNew
  <2>2. /\ DOMAIN Append(s, j) = 1..(Len(s) + 1) /\ DOMAIN s = 1..Len(s) /\ Len(s) \in Nat
        /\ \A i \in 1..(Len(s) + 1) : Append(s, j)[i] = IF i = Len(s) + 1 THEN j ELSE s[i]
    BY TailOfAppend
  <2> QED
    BY <2>1, <2>2 DEF ToSet
<1> QED
  BY <1>1, <1>2

StartOf(n) == IF n > MaxEntries THEN n - MaxEntries ELSE 0

KeptOf(o, j) == IF Len(AtEnd(o, j)) > MaxEntries THEN Tail(AtEnd(o, j)) ELSE AtEnd(o, j)

\* The same as in CacheIsIndexed, place by place.
LEMMA OrderIsEnd ==
  ASSUME NEW o, NEW u \in Seq(Jobs)
  PROVE  o = SubSeq(u, IF Len(u) > MaxEntries THEN Len(u) - MaxEntries + 1 ELSE 1, Len(u)) <=> IsEndOf(o, u, StartOf(Len(u)))
<1>1. Len(u) \in Nat /\ MaxEntries \in Nat \ {0}
  BY CacheAssumption
<1>2. StartOf(Len(u)) \in 0..Len(u) /\ (IF Len(u) > MaxEntries THEN Len(u) - MaxEntries + 1 ELSE 1) = StartOf(Len(u)) + 1
  BY <1>1 DEF StartOf
<1> QED
  BY <1>2, EndIsSubSeq

LEMMA Starts ==
  ASSUME NEW n \in Nat
  PROVE  /\ n - StartOf(n) <= MaxEntries
         /\ StartOf(n) > 0 => n - StartOf(n) = MaxEntries
         /\ n >= MaxEntries => StartOf(n + 1) = StartOf(n) + 1 /\ n - StartOf(n) = MaxEntries
         /\ n < MaxEntries => StartOf(n + 1) = StartOf(n) /\ n - StartOf(n) < MaxEntries
<1>1. MaxEntries \in Nat
  BY CacheAssumption
<1> QED
  BY <1>1 DEF StartOf

\* A use of j leaves in the cache what was used last.
LEMMA UseKeepsEnd ==
  ASSUME NEW u, NEW o, IsEndOf(o, u, StartOf(Len(u))), IsInjective(u), NEW j \in Jobs
  PROVE  /\ IsEndOf(KeptOf(o, j), AtEnd(u, j), StartOf(Len(AtEnd(u, j))))
         /\ j \in ToSet(o) => KeptOf(o, j) = AtEnd(o, j)
         /\ IsInjective(AtEnd(u, j))
<1> DEFINE d == StartOf(Len(u))
           au == AtEnd(u, j)
           ao == AtEnd(o, j)
<1>1. Len(u) \in Nat /\ Len(o) \in Nat /\ Len(o) = Len(u) - d /\ MaxEntries \in Nat \ {0}
  BY CacheAssumption DEF IsEndOf
<1>2. /\ IsInjective(au)
      /\ j \in ToSet(o) => Len(au) = Len(u) /\ IsEndOf(ao, au, d)
      /\ j \notin ToSet(o) /\ j \in ToSet(u) => d > 0 /\ Len(au) = Len(u) /\ IsEndOf(Tail(ao), au, d)
      /\ j \notin ToSet(u) => Len(au) = Len(u) + 1 /\ IsEndOf(ao, au, d) /\ IsEndOf(Tail(ao), au, d + 1)
      /\ Len(ao) = IF j \in ToSet(o) THEN Len(o) ELSE Len(o) + 1
  BY EndFollows
<1>s. /\ Len(u) - d <= MaxEntries
      /\ d > 0 => Len(u) - d = MaxEntries
      /\ Len(u) >= MaxEntries => StartOf(Len(u) + 1) = d + 1 /\ Len(u) - d = MaxEntries
      /\ Len(u) < MaxEntries => StartOf(Len(u) + 1) = d /\ Len(u) - d < MaxEntries
  BY <1>1, Starts
<1> HIDE DEF au, ao
<1>3. CASE j \in ToSet(o)
  <2>1. ~(Len(ao) > MaxEntries)
    <3>1. Len(ao) = Len(o)
      BY <1>2, <1>3
    <3> HIDE DEF d
    <3> QED
      BY <1>1, <1>s, <3>1
  <2> QED
    BY <1>2, <1>3, <2>1 DEF KeptOf, au, ao
<1>4. CASE j \notin ToSet(o) /\ j \in ToSet(u)
  <2>1. Len(ao) > MaxEntries
    <3>1. Len(ao) = Len(o) + 1 /\ d > 0
      BY <1>2, <1>4
    <3> HIDE DEF d
    <3> QED
      BY <1>1, <1>s, <3>1
  <2> QED
    BY <1>2, <1>4, <2>1 DEF KeptOf, au, ao
<1>5. CASE j \notin ToSet(o) /\ j \notin ToSet(u)
  <2>a. Len(ao) = Len(o) + 1 /\ Len(au) = Len(u) + 1
    BY <1>2, <1>5
  <2>1. CASE Len(u) >= MaxEntries
    <3>1. StartOf(Len(au)) = d + 1 /\ Len(ao) > MaxEntries
      <4> HIDE DEF d
      <4> QED
        BY <1>1, <1>s, <2>a, <2>1
    <3> QED
      BY <1>2, <1>5, <3>1 DEF KeptOf, au, ao
  <2>2. CASE Len(u) < MaxEntries
    <3>1. StartOf(Len(au)) = d /\ ~(Len(ao) > MaxEntries)
      <4> HIDE DEF d
      <4> QED
        BY <1>1, <1>s, <2>a, <2>2
    <3> QED
      BY <1>2, <1>5, <3>1 DEF KeptOf, au, ao
  <2> QED
    BY <1>1, <2>1, <2>2
<1> QED
  BY <1>3, <1>4, <1>5

\* What is kept is j, and of the rest what was there.
LEMMA SetOfKept ==
  ASSUME NEW o \in Seq(Jobs), IsInjective(o), NEW j \in Jobs
  PROVE  j \in ToSet(KeptOf(o, j)) /\ ToSet(KeptOf(o, j)) \subseteq ToSet(o) \cup {j}
<1> DEFINE ao == AtEnd(o, j)
<1>1. ToSet(ao) = ToSet(o) \cup {j}
  BY SetOfAtEnd
<1>2. ao \in Seq(Jobs) /\ Len(ao) \in Nat /\ Len(ao) > 0 /\ ao[Len(ao)] = j
  <2>1. CASE j \in ToSet(o)
    <3>1. PICK p \in 1..Len(o) : o[p] = j
      BY <2>1 DEF ToSet
    <3> QED
      BY <3>1, AtEndOfOld
  <2>2. CASE j \notin ToSet(o)
    <3>1. ao = Append(o, j)
      BY <2>2, AtEndOfNew
    <3> QED
      BY <3>1
  <2> QED
    BY <2>1, <2>2
<1> HIDE DEF ao
<1>3. MaxEntries \in Nat \ {0}
  BY CacheAssumption
<1>4. CASE Len(ao) > MaxEntries
  <2>1. Len(ao) > 1
    BY <1>2, <1>3, <1>4
  <2>2. Tail(ao) \in Seq(Jobs) /\ Len(Tail(ao)) = Len(ao) - 1 /\ \A i \in 1..(Len(ao) - 1) : Tail(ao)[i] = ao[i + 1]
    BY <1>2, <2>1
  <2>3. DOMAIN Tail(ao) = 1..(Len(ao) - 1) /\ DOMAIN ao = 1..Len(ao)
    BY <1>2, <2>2
  <2>4. Len(ao) - 1 \in DOMAIN Tail(ao) /\ Tail(ao)[Len(ao) - 1] = j
    BY <1>2, <2>1, <2>2, <2>3
  <2>5. ToSet(Tail(ao)) \subseteq ToSet(ao)
    <3>1. \A i \in 1..(Len(ao) - 1) : i + 1 \in 1..Len(ao)
      BY <1>2
    <3> QED
      BY <2>2, <2>3, <3>1 DEF ToSet
  <2>6. j \in ToSet(Tail(ao))
    BY <2>4 DEF ToSet
  <2> QED
    BY <1>1, <1>4, <2>5, <2>6 DEF KeptOf, ao
<1>5. CASE ~(Len(ao) > MaxEntries)
  BY <1>1, <1>5 DEF KeptOf, ao
<1> QED
  BY <1>4, <1>5

\* What is used is in the order of its last use, and the cache holds the end of it.
OrderInv ==
    /\ KeptInv
    /\ used \in Seq(Jobs) /\ IsInjective(used)
    /\ CacheIsIndexed

LEMMA InitOrderInv == InitCache => OrderInv
<1> SUFFICES ASSUME InitCache PROVE OrderInv
  OBVIOUS
<1>1. order = << >> /\ used = << >> /\ index = {} /\ \A j \in Jobs : entries[j] = None
  BY DEF InitCache
<1>2. used \in Seq(Jobs) /\ IsInjective(used) /\ ToSet(order) = {}
  BY <1>1 DEF IsInjective, ToSet
<1>3. order = SubSeq(used, IF Len(used) > MaxEntries THEN Len(used) - MaxEntries + 1 ELSE 1, Len(used))
  BY <1>1, CacheAssumption
<1> QED
  BY <1>1, <1>2, <1>3, InitKeptInv DEF OrderInv, CacheIsIndexed

LEMMA OrderInvIsInductive == OrderInv /\ [NextLoad]_<<cacheVars, slots>> => OrderInv'
<1> SUFFICES ASSUME OrderInv, [NextLoad]_<<cacheVars, slots>> PROVE OrderInv'
  OBVIOUS
<1>1. KeptInv /\ KeptInv'
  BY KeptInvIsInductive DEF OrderInv
<1>2. /\ used \in Seq(Jobs) /\ IsInjective(used) /\ IsEndOf(order, used, StartOf(Len(used)))
      /\ index = ToSet(order) /\ index = {j \in Jobs : entries[j] # None}
  BY OrderIsEnd DEF OrderInv, CacheIsIndexed
<1>3. order \in Seq(Jobs) /\ IsInjective(order) /\ order \in Seq(Jobs)
  <2>1. CASE order = << >>
    BY <2>1 DEF IsInjective
  <2>2. CASE order # << >>
    <3>1. order \in Seq(Jobs)
      BY <1>2 DEF IsEndOf
    <3>2. order[1] \in Jobs
      BY <2>2, <3>1
    <3> QED
      BY <1>2, <3>1, <3>2, EndFollows
  <2> QED
    BY <2>1, <2>2
<1>4. ASSUME NEW j \in Jobs, used' = AtEnd(used, j), order' = KeptOf(order, j),
             index' = ToSet(order'), index' = {k \in Jobs : entries'[k] # None}
      PROVE  OrderInv'
  <2>1. IsEndOf(order', used', StartOf(Len(used'))) /\ IsInjective(used')
    BY <1>2, <1>4, UseKeepsEnd
  <2>2. used' \in Seq(Jobs)
    BY <2>1 DEF IsEndOf
  <2>3. order' = SubSeq(used', IF Len(used') > MaxEntries THEN Len(used') - MaxEntries + 1 ELSE 1, Len(used'))
    BY <2>1, <2>2, OrderIsEnd
  <2> QED
    BY <1>1, <1>4, <2>1, <2>2, <2>3 DEF OrderInv, CacheIsIndexed
<1>5. CASE UNCHANGED <<entries, order, index, used>>
  BY <1>1, <1>5 DEF OrderInv, CacheIsIndexed
<1>6. ASSUME NEW c \in Callers, LookUp(c) PROVE OrderInv'
  <2> DEFINE j == call[c].job
  <2>1. j \in Jobs
    BY <1>1, <1>6 DEF KeptInv, LookUp, At
  <2>2. CASE entries[j] # None /\ order' = AtEnd(order, j) /\ used' = AtEnd(used, j) /\ UNCHANGED <<entries, index>>
    <3>1. j \in ToSet(order)
      BY <1>2, <2>1, <2>2
    <3>2. order' = KeptOf(order, j)
      BY <1>2, <2>1, <2>2, <3>1, UseKeepsEnd
    <3>3. ToSet(order') = ToSet(order)
      <4> HIDE DEF j
      <4>1. ToSet(AtEnd(order, j)) = ToSet(order) \cup {j}
        BY <1>3, <2>1, SetOfAtEnd
      <4> QED
        BY <2>2, <3>1, <4>1
    <3> HIDE DEF j
    <3> QED
      BY <1>2, <1>4, <2>1, <2>2, <3>2, <3>3
  <2>3. CASE UNCHANGED <<entries, order, index, used>>
    BY <1>5, <2>3
  <2> QED
    BY <1>6, <2>2, <2>3 DEF LookUp
<1>7. ASSUME NEW c \in Callers, Store(c) PROVE OrderInv'
  <2> DEFINE j == call[c].job
  <2>1. j \in Jobs
    BY <1>1, <1>7 DEF KeptInv, Store, At
  <2>2. CASE call[c].result = "success"
    <3>1. /\ order' = KeptOf(order, j) /\ used' = AtEnd(used, j)
          /\ entries' = [k \in Jobs |-> CASE k = j -> "success"
                                          [] k \in ToSet(Kept(j)) \ {j} -> entries[k]
                                          [] OTHER -> None]
          /\ index' = (index \cup {j}) \cap ToSet(Kept(j)) /\ Kept(j) = KeptOf(order, j)
      BY <1>7, <2>2 DEF Store, Kept, KeptOf
    <3>2. j \in ToSet(order') /\ ToSet(order') \subseteq index \cup {j}
      BY <1>2, <1>3, <2>1, <3>1, SetOfKept
    <3>3. index' = ToSet(order')
      BY <3>1, <3>2
    <3>4. \A k \in Jobs : entries'[k] # None <=> k \in ToSet(order')
      <4> HIDE DEF j
      <4>1. \A k \in Jobs : entries'[k] = IF k = j THEN "success" ELSE IF k \in ToSet(order') THEN entries[k] ELSE None
        BY <3>1
      <4>2. \A k \in Jobs : k \in ToSet(order') /\ k # j => entries[k] # None
        BY <1>2, <3>2
      <4> QED
        BY <3>2, <4>1, <4>2, CacheAssumption
    <3>5. index' \subseteq Jobs
      BY <1>2, <2>1, <3>2, <3>3
    <3> HIDE DEF j
    <3> QED
      BY <1>4, <2>1, <3>1, <3>3, <3>4, <3>5
  <2>3. CASE call[c].result # "success"
    BY <1>5, <1>7, <2>3 DEF Store, cache
  <2> QED
    BY <2>2, <2>3
<1>8. CASE RestartCache
  <2>1. order' = << >> /\ used' = << >> /\ index' = {} /\ \A j \in Jobs : entries'[j] = None
    BY <1>8 DEF RestartCache
  <2>2. used' \in Seq(Jobs) /\ IsInjective(used') /\ ToSet(order') = {}
    BY <2>1 DEF IsInjective, ToSet
  <2>3. order' = SubSeq(used', IF Len(used') > MaxEntries THEN Len(used') - MaxEntries + 1 ELSE 1, Len(used'))
    BY <2>1, CacheAssumption
  <2> QED
    BY <1>1, <2>1, <2>2, <2>3 DEF OrderInv, CacheIsIndexed
<1>9. ASSUME NEW c \in Callers,
             Refuse(c) \/ LoadCompleted(c) \/ LookUpIndex(c) \/ GetSlot(c) \/ Busy(c) \/ Locate(c) \/ Parse(c) \/ Leave(c)
      PROVE  OrderInv'
  BY <1>5, <1>9 DEF Refuse, LoadCompleted, LookUpIndex, GetSlot, Busy, Locate, Parse, Leave, cacheVars, cache
<1>10. CASE Complete \/ UNCHANGED <<cacheVars, slots>>
  BY <1>5, <1>10 DEF Complete, cacheVars, cache
<1> QED
  BY <1>6, <1>7, <1>8, <1>9, <1>10 DEF NextLoad, Continue

\* The cache holds what was used last, and its index leads to exactly that, for any
\* number of callers and of entries.
THEOREM CacheStaysIndexed == SpecLoad => []CacheIsIndexed
<1>1. OrderInv => CacheIsIndexed
  BY DEF OrderInv
<1> QED
  BY <1>1, InitOrderInv, OrderInvIsInductive, PTL DEF SpecLoad

=============================================================================
