----------------------- MODULE MachineExecution_proofs -----------------------
(***************************************************************************)
(* Proofs about MachineExecution, for any number of calls, attempts and    *)
(* timestamps and any policy, with refusals and crashes: attempts never    *)
(* share a timestamp, the ledger claims no job and no end of a job that    *)
(* POWER does not have, and a submission stays one.                        *)
(*                                                                         *)
(* Every step of a call advances the ledger in one of three ways, none of  *)
(* which needs to know more than the call has seen (LedgerStep); what a    *)
(* call has seen stays true because jobs and their ends do (Monotone).     *)
(*                                                                         *)
(* The limit of new attempts holds as well, and of all attempts but those  *)
(* that are astray those of submissions and active jobs: the reservations  *)
(* follow what happens on POWER (LimitsInv), and each step keeps them or   *)
(* lets one go that nobody uses, makes one where both counts have room, or *)
(* registers an attempt (LimitStep).                                       *)
(***************************************************************************)
EXTENDS MachineExecution, FiniteSetTheorems, TLAPS

USE DEF Go, GoSeeing, At, Return, Store, remote

-----------------------------------------------------------------------------
(* What a step does to the ledger.                                         *)

\* A bound attempt's record x that its record may be replaced by.
Advances(a, x) ==
    /\ x \in Records
    /\ x.stamp = ledger[a].stamp
    /\ x.status = "submitted" => accepted[a] = 1 /\ x.reserved_at # None
    /\ x.terminal => finished[a]
    /\ ledger[a].status = "submitted" =>
            x.status = "submitted" /\ x.reserved_at = ledger[a].reserved_at

LedgerStep ==
    \/ UNCHANGED ledger
    \/ \E a \in Bound, x \in Records : Advances(a, x) /\ Store(a, x)
    \/ \E a \in Attempts \ Bound, x \in Records :
            /\ x.status # "submitted" /\ ~x.terminal
            /\ \A b \in Bound : ledger[b].stamp # x.stamp
            /\ Store(a, x)

\* Jobs and their ends are for ever, and so is a record.
Monotone ==
    /\ \A a \in Attempts : accepted[a] = 1 => accepted'[a] = 1
    /\ \A a \in Attempts : finished[a] => finished'[a]
    /\ Bound \subseteq Bound'

LEMMA BoundRecord ==
    ASSUME TypeOK, NEW a \in Bound
    PROVE  a \in Attempts /\ ledger[a] \in Records
BY DEF TypeOK, Bound

\* What a state read from POWER makes of a record, when it is true.
LEMMA RemoteStateAdvances ==
    ASSUME LedgerInv, NEW a \in Bound,
           NEW seen \in {"prepared", "committed", "recorded"},
           seen = "recorded" => accepted[a] = 1
    PROVE  LET x == WithRemoteState(ledger[a], seen) IN x \in Records /\ Advances(a, x)
<1>1. ledger[a] \in Records /\ clock \in Times
  BY BoundRecord DEF LedgerInv, TypeOK
<1>2. /\ ledger[a].status = "submitted" => ledger[a].reserved_at # None /\ accepted[a] = 1
      /\ ledger[a].terminal => finished[a]
  BY DEF LedgerInv, SubmittedWereReserved, RecordsAreReal
<1>3. CASE seen = "prepared"
  BY <1>1, <1>2, <1>3 DEF WithRemoteState, Records, States, Statuses, Advances
<1>4. CASE seen = "committed"
  BY <1>1, <1>2, <1>4 DEF WithRemoteState, Records, States, Statuses, Advances
<1>5. CASE seen = "recorded"
  BY <1>1, <1>2, <1>5, NoneAssumption DEF WithRemoteState, Records, States, Statuses, Advances
<1> QED
  BY <1>3, <1>4, <1>5

\* The ledger invariants survive every ledger step, and a submission stays one.
LEMMA LedgerStepIsSafe ==
    ASSUME LedgerInv, LedgerStep, Monotone
    PROVE  /\ ledger' \in [Attempts -> Records \cup {None}]
           /\ SubmittedWereReserved' /\ StampsAreUnique' /\ RecordsAreReal'
           /\ \A a \in Bound : ledger[a].status = "submitted" =>
                /\ ledger'[a].status = "submitted"
                /\ ledger'[a].reserved_at = ledger[a].reserved_at
<1> USE DEF LedgerInv, Bound, SubmittedWereReserved, StampsAreUnique, RecordsAreReal, Monotone
<1>0. /\ ledger \in [Attempts -> Records \cup {None}]
      /\ None \notin Records
  BY NoneAssumption DEF TypeOK
<1>1. CASE UNCHANGED ledger
  BY <1>0, <1>1
<1>2. ASSUME NEW a \in Bound, NEW x \in Records, Advances(a, x), Store(a, x)
      PROVE  /\ ledger' \in [Attempts -> Records \cup {None}]
             /\ SubmittedWereReserved' /\ StampsAreUnique' /\ RecordsAreReal'
             /\ \A b \in Bound : ledger[b].status = "submitted" =>
                  /\ ledger'[b].status = "submitted"
                  /\ ledger'[b].reserved_at = ledger[b].reserved_at
  <2>1. /\ \A b \in Attempts : ledger'[b] = IF b = a THEN x ELSE ledger[b]
        /\ a \in Attempts /\ ledger[a] # None /\ x # None
    BY <1>0, <1>2
  <2>2. ledger' \in [Attempts -> Records \cup {None}]
    BY <1>0, <1>2
  <2>3. SubmittedWereReserved'
    BY <2>1, <1>2 DEF Advances
  <2>4. StampsAreUnique'
    BY <2>1, <1>2 DEF Advances
  <2>5. RecordsAreReal'
    BY <2>1, <1>2 DEF Advances
  <2>6. QED
    BY <2>1, <2>2, <2>3, <2>4, <2>5, <1>2 DEF Advances
<1>3. ASSUME NEW a \in Attempts \ Bound, NEW x \in Records, x.status # "submitted", ~x.terminal,
             \A b \in Bound : ledger[b].stamp # x.stamp, Store(a, x)
      PROVE  /\ ledger' \in [Attempts -> Records \cup {None}]
             /\ SubmittedWereReserved' /\ StampsAreUnique' /\ RecordsAreReal'
             /\ \A b \in Bound : ledger[b].status = "submitted" =>
                  /\ ledger'[b].status = "submitted"
                  /\ ledger'[b].reserved_at = ledger[b].reserved_at
  <2>1. /\ \A b \in Attempts : ledger'[b] = IF b = a THEN x ELSE ledger[b]
        /\ ledger[a] = None /\ x # None
    BY <1>0, <1>3
  <2>2. ledger' \in [Attempts -> Records \cup {None}]
    BY <1>0, <1>3
  <2>3. SubmittedWereReserved' /\ RecordsAreReal'
    BY <2>1, <1>3
  <2>4. StampsAreUnique'
    BY <2>1, <1>3
  <2>5. QED
    BY <2>1, <2>2, <2>3, <2>4, <1>3
<1> QED
  BY <1>1, <1>2, <1>3 DEF LedgerStep

-----------------------------------------------------------------------------
(* What a step does to the calls.                                          *)

\* What a call relies on stays true.
LEMMA StaysInformed ==
    ASSUME Monotone, NEW c \in CallRecords, CallIsInformed(c)
    PROVE  CallIsInformed(c)'
BY DEF Monotone, CallIsInformed, CallRecords, Bound

\* One call goes on, and relies on what is true.
CallStep(r) ==
    /\ call' \in [Calls -> CallRecords]
    /\ \A q \in Calls \ {r} : call'[q] = call[q]
    /\ CallIsInformed(call[r])'

LEMMA CallStepIsSafe ==
    ASSUME LedgerInv, Monotone, NEW r \in Calls, CallStep(r)
    PROVE  CallsAreInformed'
<1>1. /\ call \in [Calls -> CallRecords]
      /\ \A q \in Calls : CallIsInformed(call[q])
  BY DEF LedgerInv, TypeOK, CallsAreInformed
<1>2. \A d \in CallRecords : CallIsInformed(d) => CallIsInformed(d)'
  BY StaysInformed
<1>3. ASSUME NEW q \in Calls \ {r} PROVE CallIsInformed(call[q])'
  BY <1>1, <1>2 DEF CallIsInformed, CallStep
<1> QED
  BY <1>3 DEF CallsAreInformed, CallStep

-----------------------------------------------------------------------------
(* The steps of a call.                                                    *)

\* The types of the variables that are neither ledger nor calls.
RestOK ==
    /\ response \in [Calls -> Answers]
    /\ torn \subseteq Attempts
    /\ phase \in [Attempts -> Remote!Phases]
    /\ accepted \in [Attempts -> {0, 1}]
    /\ astray \subseteq Attempts
    /\ inflight \in [Attempts -> BOOLEAN]
    /\ finished \in [Attempts -> BOOLEAN]
    /\ clock \in Times
    /\ RecordedWereAccepted

\* A step that changes nothing but calls and answers, and at most which attempts are torn
\* or astray.
RestStays ==
    /\ UNCHANGED <<phase, accepted, inflight, finished, clock>>
    /\ torn' \subseteq Attempts /\ astray' \subseteq Attempts

LEMMA LocalStep ==
    ASSUME LedgerInv, UNCHANGED ledger, response' \in [Calls -> Answers],
           RestStays \/ UNCHANGED <<remote, torn, finished, clock>>
    PROVE  LedgerStep /\ Monotone /\ RestOK'
BY DEF LedgerInv, TypeOK, LedgerStep, Monotone, RestOK, Bound, RecordedWereAccepted, RestStays

LEMMA CallTyped ==
    ASSUME LedgerInv, NEW r \in Calls
    PROVE  /\ call \in [Calls -> CallRecords] /\ call[r] \in CallRecords
           /\ CallIsInformed(call[r])
           /\ response \in [Calls -> Answers]
           /\ ledger \in [Attempts -> Records \cup {None}]
BY DEF LedgerInv, TypeOK, CallsAreInformed

\* The ways a call moves.
LEMMA Moves ==
    ASSUME LedgerInv, NEW r \in Calls, NEW c \in CallRecords,
           call' = [call EXCEPT ![r] = c]
    PROVE  /\ call' \in [Calls -> CallRecords]
           /\ \A q \in Calls \ {r} : call'[q] = call[q]
           /\ call'[r] = c
BY CallTyped

LEMMA Returns ==
    ASSUME LedgerInv, NEW r \in Calls, NEW x \in Answers, Return(r, x)
    PROVE  CallStep(r) /\ response' \in [Calls -> Answers]
<1>1. Idle \in CallRecords
  BY DEF Idle, CallRecords, Steps
<1>2. call' = [call EXCEPT ![r] = Idle] /\ response' = [response EXCEPT ![r] = x]
  OBVIOUS
<1>3. CallIsInformed(Idle)'
  BY DEF CallIsInformed, Idle
<1> QED
  BY <1>1, <1>2, <1>3, CallTyped DEF CallStep, CallIsInformed

LEMMA Goes ==
    ASSUME LedgerInv, NEW r \in Calls, NEW step \in Steps, Go(r, step)
    PROVE  /\ call' \in [Calls -> CallRecords]
           /\ \A q \in Calls \ {r} : call'[q] = call[q]
           /\ call'[r] = [call[r] EXCEPT !.pc = step]
<1>1. call[r] \in CallRecords /\ [call[r] EXCEPT !.pc = step] \in CallRecords
  <2>1. call[r] \in CallRecords
    BY CallTyped
  <2> QED
    BY <2>1 DEF CallRecords
<1> QED
  BY <1>1, CallTyped

LEMMA GoesSeeing ==
    ASSUME LedgerInv, NEW r \in Calls, NEW step \in Steps,
           NEW x \in Remote!Phases \cup {"finished", "unfinished", None},
           GoSeeing(r, step, x)
    PROVE  /\ call' \in [Calls -> CallRecords]
           /\ \A q \in Calls \ {r} : call'[q] = call[q]
           /\ call'[r] = [call[r] EXCEPT !.pc = step, !.seen = x]
<1>1. call[r] \in CallRecords /\ [call[r] EXCEPT !.pc = step, !.seen = x] \in CallRecords
  <2>1. call[r] \in CallRecords
    BY CallTyped
  <2> QED
    BY <2>1 DEF CallRecords
<1> QED
  BY <1>1, CallTyped

\* What each step of a call is shown to do.
StepOK(r) == CallStep(r) /\ LedgerStep /\ Monotone /\ RestOK'

\* A call that only answers.
LEMMA ReturnStep ==
    ASSUME LedgerInv, NEW r \in Calls, NEW x \in Answers, Return(r, x), UNCHANGED ledger,
           RestStays \/ UNCHANGED <<remote, torn, finished, clock>>
    PROVE  StepOK(r)
BY Returns, LocalStep DEF StepOK

LEMMA ArriveStep ==
    ASSUME LedgerInv, NEW r \in Calls, Arrive(r)
    PROVE  StepOK(r)
<1>1. PICK a \in Attempts, kind \in {"prepare", "submit", "get"} :
         call' = [call EXCEPT ![r] = [Idle EXCEPT !.att = a, !.kind = kind,
                     !.pc = IF kind = "get" THEN "look_up" ELSE "bind"]]
  BY PolicyAssumption DEF Arrive
<1> DEFINE c == [Idle EXCEPT !.att = a, !.kind = kind,
                     !.pc = IF kind = "get" THEN "look_up" ELSE "bind"]
<1>2. c \in CallRecords /\ c.att = a /\ c.todo = {} /\ c.pc \in {"look_up", "bind"}
  BY DEF Idle, CallRecords, Steps
<1> HIDE DEF c
<1>3. call' = [call EXCEPT ![r] = c]
  BY <1>1 DEF c
<1>4. CallIsInformed(c)'
  BY <1>2 DEF CallIsInformed
<1>5. CallStep(r)
  BY <1>2, <1>3, <1>4, Moves DEF CallStep, CallIsInformed
<1>6. response' \in [Calls -> Answers]
  BY CallTyped DEF Arrive, Answers
<1> QED
  BY <1>5, <1>6, LocalStep DEF Arrive, StepOK

LEMMA ReadBindingStep ==
    ASSUME LedgerInv, NEW r \in Calls, ReadBinding(r)
    PROVE  StepOK(r)
<1>0. /\ UNCHANGED <<ledger, remote, torn, finished, clock>> /\ call[r].pc = "bind"
      /\ call[r].att \in Attempts /\ \A item \in call[r].todo : item[1] \in Bound
  BY CallTyped DEF ReadBinding, CallIsInformed
<1>1. CASE Return(r, "conflict") \/ Return(r, "ledger_unavailable")
  BY <1>0, <1>1, ReturnStep DEF Answers
<1>2. CASE ledger[call[r].att] # None /\ Go(r, "read_remote") /\ UNCHANGED response
  <2>1. /\ call' \in [Calls -> CallRecords] /\ \A q \in Calls \ {r} : call'[q] = call[q]
        /\ call'[r] = [call[r] EXCEPT !.pc = "read_remote"]
    BY <1>2, Goes DEF Steps
  <2>2. CallIsInformed(call[r])'
    BY <2>1, <1>0, <1>2, CallTyped DEF CallIsInformed, CallRecords, Bound
  <2> QED
    BY <2>1, <2>2, <1>0, <1>2, CallTyped, LocalStep DEF StepOK, CallStep
<1>3. ASSUME NEW t \in Stamps, UNCHANGED response,
             call' = [call EXCEPT ![r].pc = "register", ![r].stamp = t]
      PROVE  StepOK(r)
  <2> DEFINE c == [call[r] EXCEPT !.pc = "register", !.stamp = t]
  <2>1. c \in CallRecords /\ c.pc = "register" /\ c.stamp = t /\ c.att = call[r].att
        /\ c.todo = call[r].todo
    <3>1. call[r] \in CallRecords
      BY CallTyped
    <3> QED
      BY <3>1 DEF CallRecords, Steps
  <2>2. /\ call' \in [Calls -> CallRecords] /\ \A q \in Calls \ {r} : call'[q] = call[q]
        /\ call'[r] = c
    BY <2>1, <1>3, CallTyped
  <2> HIDE DEF c
  <2>3. CallIsInformed(call[r])'
    BY <2>1, <2>2, <1>0 DEF CallIsInformed, Bound
  <2> QED
    BY <2>2, <2>3, <1>0, <1>3, CallTyped, LocalStep DEF StepOK, CallStep
<1> QED
  BY <1>1, <1>2, <1>3 DEF ReadBinding

\* A call that goes on without a change to anything else.
LEMMA GoStep ==
    ASSUME LedgerInv, NEW r \in Calls, NEW step \in Steps, Go(r, step),
           UNCHANGED <<response, ledger, remote, torn, finished, clock>>,
           CallIsInformed([call[r] EXCEPT !.pc = step])
    PROVE  StepOK(r)
<1>1. CallIsInformed(call[r])'
  <2>1. call'[r] = [call[r] EXCEPT !.pc = step]
    BY Goes
  <2> QED
    BY <2>1 DEF CallIsInformed, Bound
<1> QED
  BY <1>1, Goes, CallTyped, LocalStep DEF StepOK, CallStep

LEMMA GoSeeingStep ==
    ASSUME LedgerInv, NEW r \in Calls, NEW step \in Steps,
           NEW x \in Remote!Phases \cup {"finished", "unfinished", None},
           GoSeeing(r, step, x),
           UNCHANGED <<response, ledger, remote, torn, finished, clock>>,
           CallIsInformed([call[r] EXCEPT !.pc = step, !.seen = x])
    PROVE  StepOK(r)
<1>1. CallIsInformed(call[r])'
  <2>1. call'[r] = [call[r] EXCEPT !.pc = step, !.seen = x]
    BY GoesSeeing
  <2> QED
    BY <2>1 DEF CallIsInformed, Bound
<1> QED
  BY <1>1, GoesSeeing, CallTyped, LocalStep DEF StepOK, CallStep

\* The record a call stores.
LEMMA StoreStep ==
    ASSUME LedgerInv, NEW a \in Bound, NEW x \in Records, Advances(a, x), Store(a, x),
           RestStays \/ UNCHANGED <<remote, torn, finished, clock>>, response' \in [Calls -> Answers]
    PROVE  LedgerStep /\ Monotone /\ RestOK' /\ Bound' = Bound
<1>1. /\ ledger \in [Attempts -> Records \cup {None}] /\ a \in Attempts
      /\ x # None
  BY NoneAssumption DEF LedgerInv, TypeOK, Bound
<1>2. Bound' = Bound
  BY <1>1 DEF Bound
<1>3. LedgerStep
  BY DEF LedgerStep
<1>4. RestOK'
  BY DEF LedgerInv, TypeOK, RestOK, RecordedWereAccepted, RestStays
<1>5. Monotone
  BY <1>2 DEF Monotone, RestStays
<1> QED
  BY <1>2, <1>3, <1>4, <1>5

\* A call that stores a record and answers.
LEMMA StoreAndReturn ==
    ASSUME LedgerInv, NEW r \in Calls, NEW a \in Bound, NEW x \in Records, Advances(a, x),
           Store(a, x), NEW answer \in Answers, Return(r, answer),
           RestStays \/ UNCHANGED <<remote, torn, finished, clock>>
    PROVE  StepOK(r)
BY Returns, StoreStep DEF StepOK

LEMMA RegisterStep ==
    ASSUME LedgerInv, NEW r \in Calls, Register(r)
    PROVE  StepOK(r)
<1>0. /\ UNCHANGED <<remote, finished, clock>> /\ call[r].pc = "register"
      /\ call[r].att \in Attempts /\ \A item \in call[r].todo : item[1] \in Bound
      /\ call[r].stamp \in Stamps /\ call[r] \in CallRecords
      /\ torn \subseteq Attempts /\ astray \subseteq Attempts
  BY CallTyped DEF Register, CallIsInformed, LedgerInv, TypeOK
<1> DEFINE c(step) == [call[r] EXCEPT !.pc = step, !.stamp = None]
<1>1. \A step \in {"bind", "read_remote"} :
        c(step) \in CallRecords /\ c(step).pc = step /\ c(step).att = call[r].att
        /\ c(step).todo = call[r].todo
  BY <1>0 DEF CallRecords, Steps
<1>2. CASE call' = [call EXCEPT ![r].pc = "bind", ![r].stamp = None]
           /\ UNCHANGED <<response, ledger, torn>>
  <2>1. /\ call' \in [Calls -> CallRecords] /\ \A q \in Calls \ {r} : call'[q] = call[q]
        /\ call'[r] = c("bind")
    BY <1>1, <1>2, CallTyped
  <2> HIDE DEF c
  <2>2. CallIsInformed(call[r])'
    BY <2>1, <1>1, <1>0, <1>2 DEF CallIsInformed, Bound
  <2> QED
    BY <2>1, <2>2, <1>0, <1>2, CallTyped, LocalStep DEF StepOK, CallStep
<1>3. CASE /\ UNCHANGED ledger /\ torn' \subseteq Attempts
           /\ \E x \in Answers : Return(r, x)
  BY <1>0, <1>3, ReturnStep DEF RestStays
<1>4. CASE /\ ~TakenMeanwhile(r)
           /\ Store(call[r].att, NewRecord(call[r].stamp))
           /\ call' = [call EXCEPT ![r].pc = "read_remote", ![r].stamp = None]
           /\ UNCHANGED <<response, torn>>
  <2> DEFINE a == call[r].att
             x == NewRecord(call[r].stamp)
  <2>1. x \in Records /\ x.status # "submitted" /\ ~x.terminal /\ x.stamp = call[r].stamp
    BY <1>0 DEF NewRecord, Records, States, Statuses, LedgerInv, TypeOK
  <2>2. a \in Attempts \ Bound /\ \A b \in Bound : ledger[b].stamp # x.stamp
    BY <1>0, <1>4, <2>1 DEF TakenMeanwhile
  <2> HIDE DEF x
  <2>3. LedgerStep
    BY <2>1, <2>2, <1>4 DEF LedgerStep, x
  <2>4. Bound' = Bound \cup {a}
    BY <2>1, <2>2, <1>4, CallTyped, NoneAssumption DEF Bound, x
  <2>5. Monotone
    BY <2>4, <1>0 DEF Monotone
  <2>6. RestOK'
    BY <1>0, <1>4 DEF LedgerInv, TypeOK, RestOK, RecordedWereAccepted
  <2>7. /\ call' \in [Calls -> CallRecords] /\ \A q \in Calls \ {r} : call'[q] = call[q]
        /\ call'[r] = c("read_remote")
    BY <1>1, <1>4, CallTyped
  <2> HIDE DEF c, a
  <2>8. CallIsInformed(call[r])'
    BY <2>7, <1>1, <1>0, <2>4 DEF CallIsInformed, a
  <2> QED
    BY <2>3, <2>5, <2>6, <2>7, <2>8 DEF StepOK, CallStep
<1>5. /\ {"attempt_busy", "attempt_cap_exceeded", "ledger_unavailable", "crashed"} \subseteq Answers
      /\ torn' \in {torn, torn \cup {call[r].att}} => torn' \subseteq Attempts
  BY <1>0 DEF Answers
<1> QED
  BY <1>0, <1>2, <1>3, <1>4, <1>5 DEF Register

\* What a call at one of the steps after its binding relies on.
LEMMA BoundCall ==
    ASSUME LedgerInv, NEW r \in Calls,
           call[r].pc \notin {"idle", "bind", "register", "look_up"}
    PROVE  /\ call[r] \in CallRecords /\ CallIsInformed(call[r])
           /\ call[r].att \in Bound /\ call[r].att \in Attempts
           /\ \A item \in call[r].todo : item[1] \in Bound
           /\ ledger[call[r].att] \in Records
<1>1. call[r] \in CallRecords /\ CallIsInformed(call[r])
  BY CallTyped
<1>2. call[r].att \in Bound /\ \A item \in call[r].todo : item[1] \in Bound
  BY <1>1 DEF CallIsInformed
<1> QED
  BY <1>1, <1>2, BoundRecord DEF LedgerInv

\* Where a call goes that relies on nothing but its attempt.
Carefree == {"read_remote", "prepare_remote", "reread_remote", "reserve", "list_active",
             "refresh", "reserve_again", "submit", "sbatch", "confirm", "release"}

LEMMA GoCarefree ==
    ASSUME LedgerInv, NEW r \in Calls, NEW step \in Carefree, Go(r, step),
           call[r].pc \notin {"idle", "bind", "register", "look_up"},
           UNCHANGED <<response, ledger, remote, torn, finished, clock>>
    PROVE  StepOK(r)
<1>1. CallIsInformed([call[r] EXCEPT !.pc = step])
  BY BoundCall DEF CallIsInformed, CallRecords, Carefree
<1>2. step \in Steps
  BY DEF Carefree, Steps
<1> QED
  BY <1>1, <1>2, GoStep

\* What is read of an attempt: its state, or nothing.
LEMMA WhatIsRead ==
    ASSUME LedgerInv, NEW a \in Attempts, NEW seen \in Readings(a)
    PROVE  /\ seen \in Remote!Phases /\ (seen # "absent" => seen = phase[a])
           /\ seen = "recorded" => accepted[a] = 1
BY DEF Readings, Remote!Phases, LedgerInv, TypeOK, RecordedWereAccepted

LEMMA FollowStep ==
    ASSUME LedgerInv, NEW r \in Calls, NEW seen \in Readings(call[r].att), FollowState(r, seen),
           call[r].pc \in {"read_remote", "reread_remote"},
           UNCHANGED <<ledger, remote, torn, finished, clock>>
    PROVE  StepOK(r)
<1>0. /\ call[r] \in CallRecords /\ call[r].att \in Bound
      /\ \A item \in call[r].todo : item[1] \in Bound
      /\ call[r].att \in Attempts /\ seen \in Remote!Phases
      /\ seen = "recorded" => accepted[call[r].att] = 1
  BY BoundCall, WhatIsRead
<1>1. CASE Return(r, "conflict") \/ Return(r, "runtime_package_changed")
  BY <1>1, ReturnStep DEF Answers
<1>2. CASE seen = "prepared" /\ GoSeeing(r, "record_prepared", seen) /\ UNCHANGED response
  <2>1. CallIsInformed([call[r] EXCEPT !.pc = "record_prepared", !.seen = seen])
    BY <1>0, <1>2 DEF CallIsInformed, CallRecords
  <2> QED
    BY <2>1, <1>0, <1>2, GoSeeingStep DEF Steps
<1>3. CASE seen \in {"committed", "recorded"} /\ GoSeeing(r, "record", seen) /\ UNCHANGED response
  <2>1. CallIsInformed([call[r] EXCEPT !.pc = "record", !.seen = seen])
    BY <1>0, <1>3 DEF CallIsInformed, CallRecords
  <2> QED
    BY <2>1, <1>0, <1>3, GoSeeingStep DEF Steps
<1> QED
  BY <1>1, <1>2, <1>3 DEF FollowState

LEMMA ReadSteps ==
    ASSUME LedgerInv, NEW r \in Calls, ReadRemoteState(r) \/ RereadRemoteState(r)
    PROVE  StepOK(r)
<1>0. /\ UNCHANGED <<ledger, remote, torn, finished, clock>>
      /\ call[r].pc \in {"read_remote", "reread_remote"}
  BY DEF ReadRemoteState, RereadRemoteState
<1>1. CASE Return(r, "remote_unavailable") \/ Return(r, "prepare_failed")
  BY <1>0, <1>1, ReturnStep DEF Answers
<1>2. CASE Go(r, "prepare_remote") /\ UNCHANGED response
  BY <1>0, <1>2, GoCarefree DEF Carefree
<1>3. CASE \E seen \in Readings(call[r].att) : FollowState(r, seen)
  BY <1>0, <1>3, FollowStep
<1> QED
  BY <1>1, <1>2, <1>3 DEF ReadRemoteState, RereadRemoteState

\* The steps of an attempt on POWER: those of AttemptLifecycle, and those that lead
\* or go astray.
PowerOK ==
    /\ phase \in [Attempts -> Remote!Phases]
    /\ accepted \in [Attempts -> {0, 1}]
    /\ astray \subseteq Attempts
    /\ RecordedWereAccepted

GoesAstray(a) ==
    /\ a \in astray'
    /\ \/ /\ \E p \in {"prepared", "committed"} : phase' = [phase EXCEPT ![a] = p]
          /\ astray' = astray \cup {a} /\ UNCHANGED accepted
       \/ RecordAnyway(a)
       \/ accepted' = [accepted EXCEPT ![a] = 1] /\ UNCHANGED <<phase, astray>>

LEMMA RemoteStep ==
    ASSUME LedgerInv, NEW a \in Attempts,
           \/ Remote!Prepared(a) \/ Remote!Commit(a) \/ Remote!AcceptJob(a)
           \/ Remote!Refuse(a) \/ Remote!Record(a) \/ GoesAstray(a)
           \/ UNCHANGED <<phase, accepted, astray>>
    PROVE  PowerOK' /\ \A b \in Attempts : accepted[b] = 1 => accepted'[b] = 1
<1>1. PowerOK
  BY DEF LedgerInv, TypeOK, PowerOK
<1> USE <1>1 DEF PowerOK, Remote!Phases, RecordedWereAccepted, Remote!Move
<1>2. CASE Remote!Prepared(a)
  BY <1>2 DEF Remote!Prepared
<1>3. CASE Remote!Commit(a)
  BY <1>3 DEF Remote!Commit
<1>4. CASE Remote!AcceptJob(a)
  BY <1>4 DEF Remote!AcceptJob
<1>5. CASE Remote!Refuse(a)
  BY <1>5 DEF Remote!Refuse
<1>6. CASE Remote!Record(a)
  BY <1>6 DEF Remote!Record
<1>7. CASE UNCHANGED <<phase, accepted, astray>>
  BY <1>7
<1>8. CASE GoesAstray(a)
  BY <1>8 DEF GoesAstray, RecordAnyway
<1> QED
  BY <1>2, <1>3, <1>4, <1>5, <1>6, <1>7, <1>8

\* A call that moves the attempt on POWER.
LEMMA PowerStep ==
    ASSUME LedgerInv, NEW r \in Calls, NEW step \in Carefree,
           NEW c \in CallRecords, c.pc = step, c.att = call[r].att, c.todo = call[r].todo,
           call' = [call EXCEPT ![r] = c],
           call[r].pc \notin {"idle", "bind", "register", "look_up"},
           \/ Remote!Prepared(call[r].att) \/ Remote!Commit(call[r].att)
           \/ Remote!Refuse(call[r].att) \/ Remote!Record(call[r].att)
           \/ GoesAstray(call[r].att) \/ UNCHANGED <<phase, accepted, astray>>,
           inflight' \in [Attempts -> BOOLEAN],
           UNCHANGED <<response, ledger, torn, finished, clock>>
    PROVE  StepOK(r)
<1>0. /\ call[r].att \in Bound /\ call[r].att \in Attempts
      /\ \A item \in call[r].todo : item[1] \in Bound
  BY BoundCall
<1>1. /\ PowerOK'
      /\ \A b \in Attempts : accepted[b] = 1 => accepted'[b] = 1
  BY <1>0, RemoteStep
<1>2. Bound' = Bound
  BY DEF Bound
<1>3. Monotone /\ LedgerStep
  BY <1>1, <1>2 DEF Monotone, LedgerStep
<1>4. RestOK'
  BY <1>1 DEF LedgerInv, TypeOK, RestOK, PowerOK
<1>5. /\ call' \in [Calls -> CallRecords] /\ \A q \in Calls \ {r} : call'[q] = call[q]
      /\ call'[r] = c
  BY Moves
<1>6. CallIsInformed(call[r])'
  BY <1>0, <1>2, <1>5 DEF CallIsInformed, Carefree
<1> QED
  BY <1>3, <1>4, <1>5, <1>6 DEF StepOK, CallStep

LEMMA PrepareRemoteStep ==
    ASSUME LedgerInv, NEW r \in Calls, PrepareRemote(r)
    PROVE  StepOK(r)
<1> DEFINE c == [call[r] EXCEPT !.pc = "reread_remote"]
<1>1. /\ call[r].pc = "prepare_remote" /\ call[r] \in CallRecords
      /\ call \in [Calls -> CallRecords] /\ inflight' \in [Attempts -> BOOLEAN]
  BY CallTyped DEF PrepareRemote, LedgerInv, TypeOK
<1>2. c \in CallRecords /\ c.pc = "reread_remote" /\ c.att = call[r].att /\ c.todo = call[r].todo
  BY <1>1 DEF CallRecords, Steps
<1>3. call' = [call EXCEPT ![r] = c]
  BY <1>1 DEF PrepareRemote
<1> HIDE DEF c
<1>4. "reread_remote" \in Carefree
  BY DEF Carefree
<1> QED
  BY <1>1, <1>2, <1>3, <1>4, PowerStep DEF PrepareRemote, StartOver, GoesAstray

LEMMA SubmitSteps ==
    ASSUME LedgerInv, NEW r \in Calls,
           SubmitNotStarted(r) \/ IssueSbatch(r) \/ HearFromSbatch(r)
    PROVE  StepOK(r)
<1> DEFINE c(step, exit) == [call[r] EXCEPT !.pc = step, !.exit = exit]
<1>1. /\ call[r].pc \in {"submit", "sbatch"} /\ call[r] \in CallRecords
      /\ call \in [Calls -> CallRecords] /\ inflight \in [Attempts -> BOOLEAN]
  BY CallTyped DEF SubmitNotStarted, IssueSbatch, HearFromSbatch, LedgerInv, TypeOK
<1>2. ASSUME NEW step \in {"sbatch", "confirm"}, NEW exit \in BOOLEAN
      PROVE  /\ c(step, exit) \in CallRecords /\ c(step, exit).pc = step
             /\ c(step, exit).att = call[r].att /\ c(step, exit).todo = call[r].todo
  BY <1>1 DEF CallRecords, Steps
<1>3. ASSUME NEW step \in {"sbatch", "confirm"}, Go(r, step)
      PROVE  call' = [call EXCEPT ![r] = c(step, call[r].exit)] /\ call[r].exit \in BOOLEAN
  BY <1>1, <1>3 DEF CallRecords
<1> HIDE DEF c
<1>4. {"sbatch", "confirm"} \subseteq Carefree
  BY DEF Carefree
<1>5. CASE SubmitNotStarted(r)
  <2>1. PICK exit \in BOOLEAN : call' = [call EXCEPT ![r] = c("confirm", exit)]
    BY <1>1, <1>5, PolicyAssumption DEF SubmitNotStarted, c
  <2>2. /\ UNCHANGED <<response, ledger, torn, finished, clock>>
        /\ UNCHANGED <<phase, accepted, astray>> /\ inflight' \in [Attempts -> BOOLEAN]
    BY <1>1, <1>5 DEF SubmitNotStarted
  <2> QED
    BY <1>1, <1>2, <1>4, <2>1, <2>2, PowerStep
<1>6. CASE IssueSbatch(r)
  <2>1. call' = [call EXCEPT ![r] = c("sbatch", call[r].exit)] /\ call[r].exit \in BOOLEAN
    BY <1>3, <1>6 DEF IssueSbatch
  <2>2. /\ UNCHANGED <<response, ledger, torn, finished, clock>>
        /\ Remote!Commit(call[r].att) /\ inflight' \in [Attempts -> BOOLEAN]
    BY <1>1, <1>6 DEF IssueSbatch
  <2> QED
    BY <1>1, <1>2, <1>4, <2>1, <2>2, PowerStep
<1>7. CASE HearFromSbatch(r)
  <2>1. PICK exit \in BOOLEAN : call' = [call EXCEPT ![r] = c("confirm", exit)]
    <3>1. CASE Go(r, "confirm")
      BY <1>3, <3>1
    <3>2. CASE call' = [call EXCEPT ![r].pc = "confirm", ![r].exit = TRUE]
      BY <1>1, <3>2 DEF c
    <3> QED
      BY <3>1, <3>2, <1>7 DEF HearFromSbatch
  <2>2. /\ UNCHANGED <<response, ledger, torn, finished, clock>>
        /\ inflight' \in [Attempts -> BOOLEAN]
        /\ \/ Remote!Refuse(call[r].att) \/ Remote!Record(call[r].att)
           \/ GoesAstray(call[r].att) \/ UNCHANGED <<phase, accepted, astray>>
    BY <1>1, <1>7 DEF HearFromSbatch, GoesAstray, RecordAnyway
  <2> QED
    BY <1>1, <1>2, <1>4, <2>1, <2>2, PowerStep
<1> QED
  BY <1>5, <1>6, <1>7

\* A call that stores a record and goes on.
LEMMA StoreAndGo ==
    ASSUME LedgerInv, NEW r \in Calls, NEW a \in Bound, NEW x \in Records, Advances(a, x),
           Store(a, x), NEW c \in CallRecords, call' = [call EXCEPT ![r] = c],
           CallIsInformed(c), UNCHANGED <<response, remote, torn, finished, clock>>
    PROVE  StepOK(r)
<1>1. LedgerStep /\ Monotone /\ RestOK'
  BY StoreStep, CallTyped
<1>2. /\ call' \in [Calls -> CallRecords] /\ \A q \in Calls \ {r} : call'[q] = call[q]
      /\ call'[r] = c
  BY Moves
<1>3. CallIsInformed(c)'
  BY <1>1, StaysInformed
<1>4. CallIsInformed(call[r])'
  BY <1>2, <1>3 DEF CallIsInformed
<1> QED
  BY <1>1, <1>2, <1>4 DEF StepOK, CallStep

\* A call that only changes what it keeps.
LEMMA KeepStep ==
    ASSUME LedgerInv, NEW r \in Calls, NEW c \in CallRecords, call' = [call EXCEPT ![r] = c],
           CallIsInformed(c), UNCHANGED <<response, ledger, remote, torn, finished, clock>>
    PROVE  StepOK(r)
<1>1. LedgerStep /\ Monotone /\ RestOK'
  BY LocalStep, CallTyped
<1>2. /\ call' \in [Calls -> CallRecords] /\ \A q \in Calls \ {r} : call'[q] = call[q]
      /\ call'[r] = c
  BY Moves
<1>3. CallIsInformed(c)'
  BY <1>1, StaysInformed
<1>4. CallIsInformed(call[r])'
  BY <1>2, <1>3 DEF CallIsInformed
<1> QED
  BY <1>1, <1>2, <1>4 DEF StepOK, CallStep

LEMMA RecordSteps ==
    ASSUME LedgerInv, NEW r \in Calls, RecordPrepared(r) \/ RecordState(r)
    PROVE  StepOK(r)
<1> DEFINE a == call[r].att
           x == WithRemoteState(ledger[a], call[r].seen)
<1>0. /\ call[r].pc \in {"record_prepared", "record"} /\ call[r] \in CallRecords
      /\ call \in [Calls -> CallRecords]
      /\ a \in Bound /\ a \in Attempts /\ \A item \in call[r].todo : item[1] \in Bound
      /\ UNCHANGED <<remote, torn, finished, clock>> /\ Store(a, x)
  BY BoundCall, CallTyped DEF RecordPrepared, RecordState
<1>1. /\ call[r].seen \in {"prepared", "committed", "recorded"}
      /\ call[r].seen = "recorded" => accepted[a] = 1
  BY <1>0, CallTyped DEF CallIsInformed
<1>2. x \in Records /\ Advances(a, x)
  BY <1>0, <1>1, RemoteStateAdvances
<1> HIDE DEF x
<1>3. CASE \E answer \in Answers : Return(r, answer)
  BY <1>0, <1>2, <1>3, StoreAndReturn
<1>4. CASE GoSeeing(r, "reserve", None) /\ UNCHANGED response
  <2> DEFINE c == [call[r] EXCEPT !.pc = "reserve", !.seen = None]
  <2>1. c \in CallRecords /\ c.pc = "reserve" /\ c.att = a /\ c.todo = call[r].todo
        /\ call' = [call EXCEPT ![r] = c]
    BY <1>0, <1>4 DEF CallRecords, Steps
  <2> HIDE DEF c, a
  <2>2. CallIsInformed(c)
    BY <2>1, <1>0 DEF CallIsInformed, a
  <2> QED
    BY <2>1, <2>2, <1>0, <1>2, <1>4, StoreAndGo DEF a
<1>5. {"prepared", "submitted", "submission_uncertain"} \subseteq Answers
  BY DEF Answers, States
<1> QED
  BY <1>3, <1>4, <1>5 DEF RecordPrepared, RecordState

LEMMA ReserveStep ==
    ASSUME LedgerInv, NEW r \in Calls, Reserve(r)
    PROVE  StepOK(r)
<1>1. CASE Return(r, "ledger_unavailable")
  BY <1>1, ReturnStep DEF Reserve, Answers
<1>2. CASE (\E step \in {"submit", "list_active", "reserve_again"} : Go(r, step)) /\ UNCHANGED response
  BY <1>2, GoCarefree DEF Reserve, Carefree
<1> QED
  BY <1>1, <1>2 DEF Reserve

LEMMA ListActiveStep ==
    ASSUME LedgerInv, NEW r \in Calls, ListActive(r)
    PROVE  StepOK(r)
<1> DEFINE others == {b \in Attempts \ {call[r].att} : IsActive(b)}
           todo == {<<b, ledger[b].status>> : b \in others}
           c == [call[r] EXCEPT !.pc = "refresh", !.todo = todo]
<1>0. /\ call[r].pc = "list_active" /\ call[r] \in CallRecords
      /\ call \in [Calls -> CallRecords] /\ call[r].att \in Bound /\ call[r].att \in Attempts
      /\ UNCHANGED <<ledger, remote, torn, finished, clock>>
  BY BoundCall, CallTyped DEF ListActive
<1>a. CASE Return(r, "ledger_unavailable")
  BY <1>0, <1>a, ReturnStep DEF Answers
<1>b. SUFFICES ASSUME torn = {} PROVE StepOK(r)
  BY <1>a DEF ListActive
<1>c. UNCHANGED response
  BY <1>b DEF ListActive
<1>1. todo \subseteq Attempts \X Taken /\ \A item \in todo : item[1] \in Bound
  BY DEF IsActive
<1> HIDE DEF todo
<1>2. c \in CallRecords /\ c.pc = "refresh" /\ c.att = call[r].att /\ c.todo = todo
  BY <1>0, <1>1 DEF CallRecords, Steps
<1>3. call' = [call EXCEPT ![r] = c]
  BY <1>0, <1>b DEF ListActive, todo
<1> HIDE DEF c
<1>4. CallIsInformed(c)
  BY <1>0, <1>1, <1>2 DEF CallIsInformed
<1> QED
  BY <1>0, <1>2, <1>3, <1>4, <1>c, KeepStep

LEMMA RefreshRecordStep ==
    ASSUME LedgerInv, NEW r \in Calls, RefreshRecord(r)
    PROVE  StepOK(r)
<1>0. /\ call[r].pc = "refresh" /\ call[r] \in CallRecords
      /\ call \in [Calls -> CallRecords] /\ call[r].att \in Bound /\ call[r].att \in Attempts
      /\ \A item \in call[r].todo : item[1] \in Bound
      /\ UNCHANGED <<response, ledger, remote, torn, finished, clock>>
  BY BoundCall, CallTyped DEF RefreshRecord
<1>1. CASE Go(r, "reserve_again")
  BY <1>0, <1>1, GoCarefree DEF Carefree
<1>2. ASSUME NEW item \in call[r].todo, call' = [call EXCEPT ![r].todo = @ \ {item}]
      PROVE  StepOK(r)
  <2> DEFINE c == [call[r] EXCEPT !.todo = @ \ {item}]
  <2>1. c \in CallRecords /\ c.pc = "refresh" /\ c.att = call[r].att
        /\ c.todo = call[r].todo \ {item}
    BY <1>0 DEF CallRecords
  <2>2. call' = [call EXCEPT ![r] = c]
    BY <1>0, <1>2
  <2> HIDE DEF c
  <2>3. CallIsInformed(c)
    BY <1>0, <2>1 DEF CallIsInformed
  <2> QED
    BY <1>0, <2>1, <2>2, <2>3, KeepStep
<1>3. ASSUME NEW item \in call[r].todo, NEW step \in {"refresh_record", "scheduler"},
             NEW seen \in {"recorded", None},
             step = "refresh_record" => seen = "recorded" /\ phase[item[1]] = "recorded",
             call' = [call EXCEPT ![r].pc = step, ![r].todo = @ \ {item},
                                  ![r].other = item[1], ![r].seen = seen]
      PROVE  StepOK(r)
  <2> DEFINE c == [call[r] EXCEPT !.pc = step, !.todo = @ \ {item},
                                  !.other = item[1], !.seen = seen]
  <2>1. item[1] \in Attempts /\ item[1] \in Bound
    BY <1>0 DEF Bound
  <2>2. /\ c \in CallRecords /\ c.pc = step /\ c.att = call[r].att
        /\ c.todo = call[r].todo \ {item} /\ c.other = item[1] /\ c.seen = seen
    BY <1>0, <2>1 DEF CallRecords, Steps, Remote!Phases
  <2>3. call' = [call EXCEPT ![r] = c]
    BY <1>0, <1>3
  <2> HIDE DEF c
  <2>4. phase[item[1]] = "recorded" => accepted[item[1]] = 1
    BY <2>1 DEF LedgerInv, RecordedWereAccepted
  <2>5. CallIsInformed(c)
    BY <1>0, <1>3, <2>1, <2>2, <2>4 DEF CallIsInformed
  <2> QED
    BY <1>0, <2>2, <2>3, <2>5, KeepStep
<1> QED
  BY <1>1, <1>2, <1>3 DEF RefreshRecord

LEMMA StoreRefreshedStep ==
    ASSUME LedgerInv, NEW r \in Calls, StoreRefreshed(r)
    PROVE  StepOK(r)
<1> DEFINE b == call[r].other
           x == WithRemoteState(ledger[b], call[r].seen)
           c == [call[r] EXCEPT !.pc = "scheduler"]
<1>0. /\ call[r].pc = "refresh_record" /\ call[r] \in CallRecords
      /\ call \in [Calls -> CallRecords] /\ CallIsInformed(call[r])
      /\ UNCHANGED <<response, remote, torn, finished, clock>> /\ Store(b, x)
  BY BoundCall, CallTyped DEF StoreRefreshed
<1>1. b \in Bound /\ call[r].seen = "recorded" /\ accepted[b] = 1
  BY <1>0 DEF CallIsInformed
<1>2. x \in Records /\ Advances(b, x)
  BY <1>1, RemoteStateAdvances
<1>3. /\ c \in CallRecords /\ c.pc = "scheduler" /\ c.att = call[r].att
      /\ c.todo = call[r].todo /\ c.other = b
  BY <1>0 DEF CallRecords, Steps
<1>4. call' = [call EXCEPT ![r] = c]
  BY <1>0 DEF StoreRefreshed
<1> HIDE DEF c, x
<1>5. CallIsInformed(c)
  BY <1>0, <1>3 DEF CallIsInformed
<1> QED
  BY <1>0, <1>1, <1>2, <1>3, <1>4, <1>5, StoreAndGo

LEMMA ReserveAgainStep ==
    ASSUME LedgerInv, NEW r \in Calls, ReserveAgain(r)
    PROVE  StepOK(r)
<1> DEFINE a == call[r].att
           x == [ledger[a] EXCEPT !.status = "reserved", !.reserved_at = clock]
           c == [call[r] EXCEPT !.pc = "submit"]
<1>0. /\ call[r].pc = "reserve_again" /\ call[r] \in CallRecords
      /\ call \in [Calls -> CallRecords] /\ CallIsInformed(call[r])
      /\ a \in Bound /\ ledger[a] \in Records
      /\ UNCHANGED <<remote, torn, finished, clock>>
  BY BoundCall, CallTyped DEF ReserveAgain
<1>1. CASE Go(r, "submit") /\ UNCHANGED <<response, ledger>>
  BY <1>0, <1>1, GoCarefree DEF Carefree
<1>2. CASE /\ \/ Return(r, "submission_cap_exceeded") \/ Return(r, "active_job_cap_exceeded")
              \/ Return(r, "ledger_unavailable")
           /\ UNCHANGED ledger
  BY <1>0, <1>2, ReturnStep DEF Answers
<1>3. CASE /\ ledger[a].status \notin Taken /\ Store(a, x)
           /\ Go(r, "submit") /\ UNCHANGED response
  <2>1. x \in Records /\ x.status = "reserved" /\ x.stamp = ledger[a].stamp
        /\ x.terminal = ledger[a].terminal
    BY <1>0 DEF Records, Statuses, LedgerInv, TypeOK
  <2>2. ledger[a].terminal => finished[a]
    BY <1>0 DEF LedgerInv, RecordsAreReal
  <2>3. Advances(a, x)
    BY <2>1, <2>2, <1>3 DEF Advances, Taken, Pending
  <2>4. c \in CallRecords /\ c.pc = "submit" /\ c.att = a /\ c.todo = call[r].todo
    BY <1>0 DEF CallRecords, Steps
  <2>5. call' = [call EXCEPT ![r] = c]
    BY <1>0, <1>3
  <2> HIDE DEF c, x
  <2>6. CallIsInformed(c)
    BY <1>0, <2>4 DEF CallIsInformed
  <2> QED
    BY <1>0, <1>3, <2>1, <2>3, <2>4, <2>5, <2>6, StoreAndGo
<1> QED
  BY <1>1, <1>2, <1>3 DEF ReserveAgain

LEMMA MonitorJobStep ==
    ASSUME LedgerInv, NEW r \in Calls, MonitorJob(r)
    PROVE  StepOK(r)
<1>0. /\ call[r].pc = "scheduler" /\ call[r] \in CallRecords
      /\ CallIsInformed(call[r])
      /\ UNCHANGED <<response, ledger, remote, torn, finished, clock>>
  BY BoundCall DEF MonitorJob
<1>1. ASSUME NEW seen \in {"finished", "unfinished"}, seen = "finished" => finished[call[r].other],
             GoSeeing(r, "store_scheduler", seen)
      PROVE  StepOK(r)
  <2>1. CallIsInformed([call[r] EXCEPT !.pc = "store_scheduler", !.seen = seen])
    BY <1>0, <1>1 DEF CallIsInformed, CallRecords
  <2> QED
    BY <1>0, <1>1, <2>1, GoSeeingStep DEF Steps
<1> QED
  BY <1>1 DEF MonitorJob

LEMMA StoreSchedulerStep ==
    ASSUME LedgerInv, NEW r \in Calls, StoreScheduler(r)
    PROVE  StepOK(r)
<1> DEFINE b == call[r].other
           x == [ledger[b] EXCEPT !.terminal = call[r].seen = "finished"]
           c == [call[r] EXCEPT !.pc = "refresh", !.other = None, !.seen = None]
<1>0. /\ call[r].pc = "store_scheduler" /\ call[r] \in CallRecords
      /\ call \in [Calls -> CallRecords] /\ CallIsInformed(call[r])
      /\ UNCHANGED <<remote, torn, finished, clock>> /\ Store(b, x)
  BY BoundCall, CallTyped DEF StoreScheduler
<1>1. b \in Bound /\ (call[r].seen = "finished" => finished[b])
  BY <1>0 DEF CallIsInformed
<1>2. ledger[b] \in Records
  BY <1>1, BoundRecord DEF LedgerInv
<1>3. /\ x \in Records /\ x.stamp = ledger[b].stamp /\ x.status = ledger[b].status
      /\ x.reserved_at = ledger[b].reserved_at /\ x.terminal = (call[r].seen = "finished")
  BY <1>2 DEF Records
<1>4. Advances(b, x)
  <2>1. ledger[b].status = "submitted" => accepted[b] = 1 /\ ledger[b].reserved_at # None
    BY <1>1 DEF LedgerInv, RecordsAreReal, SubmittedWereReserved
  <2> QED
    BY <1>1, <1>3, <2>1 DEF Advances
<1> HIDE DEF x
<1>5. CASE Return(r, ledger[b].state)
  <2>1. ledger[b].state \in Answers
    BY <1>2 DEF Records, Answers
  <2> QED
    BY <1>0, <1>1, <1>3, <1>4, <1>5, <2>1, StoreAndReturn
<1>6. CASE call' = [call EXCEPT ![r].pc = "refresh", ![r].other = None, ![r].seen = None]
           /\ UNCHANGED response
  <2>1. c \in CallRecords /\ c.pc = "refresh" /\ c.att = call[r].att /\ c.todo = call[r].todo
    BY <1>0 DEF CallRecords, Steps
  <2>2. call' = [call EXCEPT ![r] = c]
    BY <1>0, <1>6
  <2> HIDE DEF c
  <2>3. CallIsInformed(c)
    BY <1>0, <2>1 DEF CallIsInformed
  <2> QED
    BY <1>0, <1>1, <1>3, <1>4, <1>6, <2>1, <2>2, <2>3, StoreAndGo
<1> QED
  BY <1>5, <1>6 DEF StoreScheduler

LEMMA ConfirmStep ==
    ASSUME LedgerInv, NEW r \in Calls, Confirm(r)
    PROVE  StepOK(r)
<1>0. /\ call[r].pc = "confirm" /\ call[r] \in CallRecords
      /\ CallIsInformed(call[r]) /\ call[r].att \in Attempts
      /\ UNCHANGED <<ledger, remote, torn, finished, clock>>
  BY BoundCall DEF Confirm
<1>1. CASE \/ Return(r, "submission_outcome_unconfirmed") \/ Return(r, "submission_not_started")
           \/ Return(r, "remote_state_invalid")
  BY <1>0, <1>1, ReturnStep DEF Answers
<1>2. CASE Go(r, "release") /\ UNCHANGED response
  BY <1>0, <1>2, GoCarefree DEF Carefree
<1>3. ASSUME NEW seen \in Readings(call[r].att), seen \in {"committed", "recorded"},
             GoSeeing(r, "record", seen), UNCHANGED response
      PROVE  StepOK(r)
  <2>1. seen = "recorded" => accepted[call[r].att] = 1
    BY <1>0, WhatIsRead
  <2>2. CallIsInformed([call[r] EXCEPT !.pc = "record", !.seen = seen])
    BY <1>0, <1>3, <2>1 DEF CallIsInformed, CallRecords
  <2> QED
    BY <1>0, <1>3, <2>2, GoSeeingStep DEF Steps, Remote!Phases
<1> QED
  BY <1>1, <1>2, <1>3 DEF Confirm

LEMMA ReleaseStep ==
    ASSUME LedgerInv, NEW r \in Calls, ReleaseReservation(r)
    PROVE  StepOK(r)
<1> DEFINE a == call[r].att
           x == [ledger[a] EXCEPT !.state = "prepared",
                    !.status = IF @ = "reserved" THEN "released" ELSE @]
<1>0. /\ a \in Bound /\ ledger[a] \in Records
      /\ RestStays /\ Store(a, x) /\ Return(r, "submit_failed")
  BY BoundCall DEF ReleaseReservation, RestStays, LedgerInv, TypeOK
<1>1. /\ x \in Records /\ x.stamp = ledger[a].stamp /\ x.terminal = ledger[a].terminal
      /\ x.reserved_at = ledger[a].reserved_at
      /\ x.status = IF ledger[a].status = "reserved" THEN "released" ELSE ledger[a].status
  BY <1>0 DEF Records, States, Statuses
<1>2. /\ ledger[a].status = "submitted" => accepted[a] = 1 /\ ledger[a].reserved_at # None
      /\ ledger[a].terminal => finished[a]
  BY <1>0 DEF LedgerInv, RecordsAreReal, SubmittedWereReserved
<1>3. Advances(a, x)
  BY <1>1, <1>2 DEF Advances
<1> HIDE DEF x
<1> QED
  BY <1>0, <1>1, <1>3, StoreAndReturn DEF Answers

LEMMA LookUpStep ==
    ASSUME LedgerInv, NEW r \in Calls, LookUp(r)
    PROVE  StepOK(r)
<1> DEFINE a == call[r].att
<1>0. /\ call[r].pc = "look_up" /\ call[r] \in CallRecords /\ CallIsInformed(call[r])
      /\ a \in Attempts /\ UNCHANGED <<ledger, remote, torn, finished, clock>>
  BY CallTyped DEF LookUp, CallIsInformed
<1>1. CASE \/ Return(r, "attempt_not_found") \/ Return(r, "conflict")
           \/ Return(r, "remote_unavailable") \/ Return(r, "ledger_unavailable")
  BY <1>0, <1>1, ReturnStep DEF Answers
<1>2. ASSUME NEW seen \in Readings(a), ledger[a] # None,
             GoSeeing(r, "record_lookup", seen), UNCHANGED response
      PROVE  StepOK(r)
  <2>1. seen \in Remote!Phases /\ (seen = "recorded" => accepted[a] = 1)
    BY <1>0, WhatIsRead
  <2>2. CallIsInformed([call[r] EXCEPT !.pc = "record_lookup", !.seen = seen])
    BY <1>0, <1>2, <2>1 DEF CallIsInformed, CallRecords, Bound
  <2> QED
    BY <1>0, <1>2, <2>1, <2>2, GoSeeingStep DEF Steps
<1> QED
  BY <1>1, <1>2 DEF LookUp

LEMMA RecordLookupStep ==
    ASSUME LedgerInv, NEW r \in Calls, RecordLookup(r)
    PROVE  StepOK(r)
<1> DEFINE a == call[r].att
           x == IF call[r].seen = "absent" THEN ledger[a]
                ELSE WithRemoteState(ledger[a], call[r].seen)
           c == [call[r] EXCEPT !.pc = "scheduler", !.other = a, !.seen = None]
<1>0. /\ call[r].pc = "record_lookup" /\ call[r] \in CallRecords /\ CallIsInformed(call[r])
      /\ call \in [Calls -> CallRecords] /\ ledger[a] \in Records
      /\ a \in Bound /\ a \in Attempts /\ \A item \in call[r].todo : item[1] \in Bound
      /\ UNCHANGED <<remote, torn, finished, clock>> /\ Store(a, x)
  BY BoundCall, CallTyped DEF RecordLookup
<1>1. /\ call[r].seen \in {"absent", "prepared", "committed", "recorded"}
      /\ call[r].seen = "recorded" => accepted[a] = 1
  BY <1>0 DEF CallIsInformed, Remote!Phases
<1>2. x \in Records /\ Advances(a, x)
  <2>1. CASE call[r].seen = "absent"
    BY <1>0, <2>1 DEF Advances, LedgerInv, RecordsAreReal, SubmittedWereReserved
  <2>2. CASE call[r].seen # "absent"
    BY <1>0, <1>1, <2>2, RemoteStateAdvances
  <2> QED
    BY <2>1, <2>2
<1>3. \/ /\ call' = [call EXCEPT ![r].pc = "scheduler", ![r].other = a, ![r].seen = None]
         /\ UNCHANGED response
      \/ Return(r, x.state)
  BY DEF RecordLookup
<1> HIDE DEF x
<1>4. CASE /\ call' = [call EXCEPT ![r].pc = "scheduler", ![r].other = a, ![r].seen = None]
           /\ UNCHANGED response
  <2>1. /\ c \in CallRecords /\ c.pc = "scheduler" /\ c.att = a /\ c.other = a
        /\ c.todo = call[r].todo
    BY <1>0 DEF CallRecords, Steps
  <2>2. call' = [call EXCEPT ![r] = c]
    BY <1>0, <1>4
  <2> HIDE DEF c
  <2>3. CallIsInformed(c)
    BY <1>0, <2>1 DEF CallIsInformed
  <2> QED
    BY <1>0, <1>2, <1>4, <2>1, <2>2, <2>3, StoreAndGo
<1>5. CASE Return(r, x.state)
  <2>1. x.state \in Answers
    BY <1>2 DEF Records, Answers
  <2> QED
    BY <1>0, <1>2, <1>5, <2>1, StoreAndReturn
<1> QED
  BY <1>3, <1>4, <1>5

LEMMA CrashStep ==
    ASSUME LedgerInv, NEW r \in Calls, Crash(r)
    PROVE  StepOK(r)
BY ReturnStep DEF Crash, Answers

-----------------------------------------------------------------------------
(* The environment, and the theorems.                                      *)

\* A step of what is around the calls.
Elsewhere(a) ==
    PrepareElsewhere(a) \/ SubmitElsewhere(a) \/ HearElsewhere(a) \/ Decide(a) \/ Finish(a)

LEMMA EnvironmentStep ==
    ASSUME LedgerInv, (\E a \in Attempts : Elsewhere(a)) \/ Tick \/ UNCHANGED vars
    PROVE  UNCHANGED <<call, ledger>> /\ Monotone /\ RestOK'
<1>0. UNCHANGED <<call, response, ledger, torn>> /\ Bound' = Bound
  BY DEF Elsewhere, PrepareElsewhere, SubmitElsewhere, HearElsewhere, Decide, Finish, Tick, vars,
         Bound
<1>a. /\ torn \subseteq Attempts /\ response \in [Calls -> Answers]
      /\ inflight \in [Attempts -> BOOLEAN] /\ finished \in [Attempts -> BOOLEAN]
      /\ clock \in Times
  BY DEF LedgerInv, TypeOK
<1>1. CASE UNCHANGED vars
  BY <1>0, <1>1 DEF vars, Monotone, RestOK, RecordedWereAccepted, LedgerInv, TypeOK
<1>2. CASE Tick
  BY <1>0, <1>2, PolicyAssumption
     DEF Tick, Monotone, RestOK, RecordedWereAccepted, LedgerInv, TypeOK, Times
<1>3. ASSUME NEW a \in Attempts, Finish(a)
      PROVE  Monotone /\ RestOK'
  BY <1>0, <1>3 DEF Finish, Monotone, RestOK, RecordedWereAccepted, LedgerInv, TypeOK
<1>4. ASSUME NEW a \in Attempts,
             PrepareElsewhere(a) \/ SubmitElsewhere(a) \/ HearElsewhere(a) \/ Decide(a)
      PROVE  Monotone /\ RestOK'
  <2>1. /\ inflight' \in [Attempts -> BOOLEAN] /\ UNCHANGED <<finished, clock>>
    BY <1>4, <1>a DEF PrepareElsewhere, SubmitElsewhere, HearElsewhere, Decide
  <2>2. \/ Remote!Prepared(a) \/ Remote!AcceptJob(a) \/ Remote!Refuse(a) \/ Remote!Record(a)
        \/ GoesAstray(a) \/ UNCHANGED <<phase, accepted, astray>>
    <3>1. CASE PrepareElsewhere(a)
      BY <3>1 DEF PrepareElsewhere, StartOver, GoesAstray
    <3>2. CASE SubmitElsewhere(a)
      BY <3>2 DEF SubmitElsewhere, GoesAstray
    <3>3. CASE HearElsewhere(a)
      BY <3>3 DEF HearElsewhere
    <3>4. CASE Decide(a)
      BY <3>4 DEF Decide, GoesAstray
    <3> QED
      BY <1>4, <3>1, <3>2, <3>3, <3>4
  <2>3. PowerOK' /\ \A b \in Attempts : accepted[b] = 1 => accepted'[b] = 1
    BY <2>2, RemoteStep
  <2> QED
    BY <1>0, <1>a, <2>1, <2>3 DEF Monotone, RestOK, PowerOK
<1> QED
  BY <1>0, <1>1, <1>2, <1>3, <1>4 DEF Elsewhere

LEMMA InitLedgerInv == Init => LedgerInv
<1> SUFFICES ASSUME Init PROVE LedgerInv
  OBVIOUS
<1>1. Idle \in CallRecords /\ Idle.pc = "idle" /\ Idle.todo = {}
  BY DEF Idle, CallRecords, Steps
<1>2. TypeOK
  BY <1>1, PolicyAssumption DEF Init, TypeOK, Answers, Remote!LifecycleInit,
                                Remote!Phases, Times
<1>3. Bound = {}
  BY DEF Init, Bound
<1>4. RecordedWereAccepted
  BY DEF Init, RecordedWereAccepted, Remote!LifecycleInit
<1>5. CallsAreInformed
  <2>1. CallIsInformed(Idle)
    BY <1>1 DEF CallIsInformed
  <2> QED
    BY <2>1 DEF CallsAreInformed, Init, CallIsInformed
<1> QED
  BY <1>2, <1>3, <1>4, <1>5 DEF LedgerInv, SubmittedWereReserved, StampsAreUnique, RecordsAreReal

LEMMA CallActs ==
    ASSUME LedgerInv, NEW r \in Calls,
           Arrive(r) \/ Put(r) \/ Get(r) \/ MonitorJob(r) \/ StoreScheduler(r) \/ Crash(r)
    PROVE  StepOK(r)
<1>1. CASE Put(r)
  BY <1>1, ReadBindingStep, RegisterStep, ReadSteps, PrepareRemoteStep, RecordSteps,
     ReserveStep, ListActiveStep, RefreshRecordStep, StoreRefreshedStep, ReserveAgainStep,
     SubmitSteps, ConfirmStep, ReleaseStep DEF Put
<1>2. CASE Arrive(r) \/ Get(r) \/ MonitorJob(r) \/ StoreScheduler(r) \/ Crash(r)
  BY <1>2, ArriveStep, LookUpStep, RecordLookupStep, MonitorJobStep, StoreSchedulerStep,
     CrashStep DEF Get
<1> QED
  BY <1>1, <1>2

\* Every step of the system is a ledger step and monotone, and keeps the rest.
LEMMA NextIsSafe ==
    ASSUME LedgerInv, [Next]_vars
    PROVE  LedgerStep /\ Monotone /\ RestOK' /\ CallsAreInformed' /\ call' \in [Calls -> CallRecords]
<1>1. ASSUME NEW r \in Calls, StepOK(r)
      PROVE  LedgerStep /\ Monotone /\ RestOK' /\ CallsAreInformed' /\ call' \in [Calls -> CallRecords]
  BY <1>1, CallStepIsSafe DEF StepOK, CallStep
<1>2. ASSUME UNCHANGED <<call, ledger>>, Monotone, RestOK'
      PROVE  LedgerStep /\ Monotone /\ RestOK' /\ CallsAreInformed' /\ call' \in [Calls -> CallRecords]
  <2>1. call' \in [Calls -> CallRecords] /\ LedgerStep
    BY <1>2 DEF LedgerInv, TypeOK, LedgerStep
  <2>2. \A d \in CallRecords : CallIsInformed(d) => CallIsInformed(d)'
    BY <1>2, StaysInformed
  <2>3. CallsAreInformed'
    BY <1>2, <2>1, <2>2 DEF LedgerInv, CallsAreInformed, CallIsInformed
  <2> QED
    BY <1>2, <2>1, <2>3
<1>3. CASE (\E a \in Attempts : Elsewhere(a)) \/ Tick \/ UNCHANGED vars
  BY <1>2, <1>3, EnvironmentStep
<1> QED
  BY <1>1, <1>3, CallActs DEF Next, Elsewhere

LEMMA LedgerInvIsInductive == LedgerInv /\ [Next]_vars => LedgerInv'
<1> SUFFICES ASSUME LedgerInv, [Next]_vars PROVE LedgerInv'
  OBVIOUS
<1>1. LedgerStep /\ Monotone /\ RestOK' /\ CallsAreInformed' /\ call' \in [Calls -> CallRecords]
  BY NextIsSafe
<1>2. /\ ledger' \in [Attempts -> Records \cup {None}]
      /\ SubmittedWereReserved' /\ StampsAreUnique' /\ RecordsAreReal'
  BY <1>1, LedgerStepIsSafe
<1> QED
  BY <1>1, <1>2 DEF LedgerInv, TypeOK, RestOK

\* The inductive invariant holds in every state: what a request has seen of POWER,
\* and what it is about to store, stays true while others run in between.
THEOREM LedgerIsSafe == Spec => []LedgerInv
BY InitLedgerInv, LedgerInvIsInductive, PTL DEF Spec

\* Type correctness of the service, its ledger and POWER.
THEOREM TypeCorrect == Spec => []TypeOK
<1>1. LedgerInv => TypeOK
  BY DEF LedgerInv
<1> QED
  BY <1>1, LedgerIsSafe, PTL

\* No two attempts share a run timestamp, whatever requests register them together:
\* _bind_attempt decides under the lock.
THEOREM AttemptsHaveOwnTimestamps == Spec => []StampsAreUnique
<1>1. LedgerInv => StampsAreUnique
  BY DEF LedgerInv
<1> QED
  BY <1>1, LedgerIsSafe, PTL

\* The ledger claims no job that SLURM did not accept and no end of a job that
\* runs: _record_remote_state and _refresh_scheduler store only what was seen.
THEOREM TheLedgerIsReal == Spec => []RecordsAreReal
<1>1. LedgerInv => RecordsAreReal
  BY DEF LedgerInv
<1> QED
  BY <1>1, LedgerIsSafe, PTL

\* A submission on record stays one and keeps the time of its reservation, whatever
\* older state a slow request stores over it.
THEOREM SubmissionsStay == Spec => SubmittedIsFinal
<1>1. LedgerInv /\ [Next]_vars =>
        [\A a \in Bound : ledger[a].status = "submitted" =>
            /\ ledger'[a].status = "submitted"
            /\ ledger'[a].reserved_at = ledger[a].reserved_at]_vars
  BY NextIsSafe, LedgerStepIsSafe
<1> QED
  BY <1>1, LedgerIsSafe, PTL DEF Spec, SubmittedIsFinal

-----------------------------------------------------------------------------
(* New attempts: at most MaxNew in any window.                             *)

\* A set that is no larger, and one that has one more.
LEMMA NoMore ==
    ASSUME NEW T, IsFiniteSet(T), NEW S \in SUBSET T, NEW n \in Nat, Cardinality(T) <= n
    PROVE  IsFiniteSet(S) /\ Cardinality(S) <= n
<1>1. IsFiniteSet(S) /\ Cardinality(S) <= Cardinality(T)
  BY FS_Subset
<1>2. Cardinality(S) \in Nat /\ Cardinality(T) \in Nat
  BY <1>1, FS_CardinalityType
<1> QED
  BY <1>1, <1>2

LEMMA OneMore ==
    ASSUME NEW T, IsFiniteSet(T), NEW x, NEW S, S \subseteq T \cup {x}, NEW n \in Nat,
           ~(Cardinality(T) >= n)
    PROVE  IsFiniteSet(S) /\ Cardinality(S) <= n
<1>1. IsFiniteSet(T \cup {x}) /\ Cardinality(T \cup {x}) = IF x \in T THEN Cardinality(T) ELSE Cardinality(T) + 1
  BY FS_AddElement
<1>2. Cardinality(T) \in Nat
  BY FS_CardinalityType
<1>3. Cardinality(T \cup {x}) <= n
  BY <1>1, <1>2
<1> QED
  BY <1>1, <1>3, NoMore

\* The attempts created in the window from t on.
CreatedIn(t) == {a \in Bound : ledger[a].created_at \in t..(t + Window)}

LEMMA NewAttemptsByWindow ==
    NewAttemptsWithinCap <=> \A t \in Times : Cardinality(CreatedIn(t)) <= MaxNew
BY DEF NewAttemptsWithinCap, WithinWindow, CreatedIn

\* The attempts that are bound, and when they were, stay the same ...
KeepsCreation ==
    /\ Bound' = Bound
    /\ \A a \in Bound : ledger'[a].created_at = ledger[a].created_at

\* ... or one is bound that the window has room for.
Registers ==
    \E a \in Attempts \ Bound, stamp \in Stamps :
        /\ Cardinality(CreatedWithin) < MaxNew
        /\ Store(a, NewRecord(stamp))
        /\ UNCHANGED <<clock, astray>>

LEMMA RecordStored ==
    ASSUME LedgerInv, NEW a \in Bound, NEW x \in Records, Store(a, x)
    PROVE  /\ Bound' = Bound /\ a \in Attempts
           /\ \A b \in Bound : ledger'[b] = IF b = a THEN x ELSE ledger[b]
<1>1. ledger \in [Attempts -> Records \cup {None}] /\ a \in Attempts /\ x # None
  BY NoneAssumption DEF LedgerInv, TypeOK, Bound
<1> QED
  BY <1>1 DEF Bound

\* The steps that store what was read from POWER, and what they store.
LEMMA StoredState ==
    ASSUME LedgerInv, NEW r \in Calls,
           RecordPrepared(r) \/ RecordState(r) \/ StoreRefreshed(r) \/ RecordLookup(r)
    PROVE  \E a \in Bound, seen \in Remote!Phases :
             /\ Store(a, IF seen = "absent" THEN ledger[a] ELSE WithRemoteState(ledger[a], seen))
             /\ seen = "recorded" => accepted[a] = 1
             /\ seen = "committed" => /\ call[r].pc \in {"record", "record_lookup"}
                                      /\ call[r].att = a /\ call[r].seen = seen
             /\ UNCHANGED <<remote, torn, finished, clock>>
<1>1. CallIsInformed(call[r]) /\ call[r] \in CallRecords
  BY CallTyped
<1>2. CASE RecordPrepared(r)
  <2>1. call[r].att \in Bound /\ call[r].seen = "prepared" /\ "prepared" \in Remote!Phases
    BY <1>1, <1>2 DEF RecordPrepared, CallIsInformed, Remote!Phases
  <2> QED
    BY <1>2, <2>1 DEF RecordPrepared
<1>3. CASE RecordState(r)
  <2>1. /\ call[r].att \in Bound /\ call[r].seen \in {"committed", "recorded"} /\ call[r].pc = "record"
        /\ call[r].seen \in Remote!Phases /\ (call[r].seen = "recorded" => accepted[call[r].att] = 1)
    BY <1>1, <1>3 DEF RecordState, CallIsInformed, Remote!Phases
  <2> QED
    BY <1>3, <2>1 DEF RecordState
<1>4. CASE StoreRefreshed(r)
  <2>1. call[r].other \in Bound /\ call[r].seen = "recorded" /\ accepted[call[r].other] = 1
        /\ "recorded" \in Remote!Phases
    BY <1>1, <1>4 DEF StoreRefreshed, CallIsInformed, Remote!Phases
  <2> QED
    BY <1>4, <2>1 DEF StoreRefreshed
<1>5. CASE RecordLookup(r)
  <2>1. /\ call[r].att \in Bound /\ call[r].seen \in Remote!Phases /\ call[r].pc = "record_lookup"
        /\ (call[r].seen = "recorded" => accepted[call[r].att] = 1)
    BY <1>1, <1>5 DEF RecordLookup, CallIsInformed
  <2> QED
    BY <1>5, <2>1 DEF RecordLookup
<1> QED
  BY <1>2, <1>3, <1>4, <1>5

LEMMA StateIsStored ==
    ASSUME LedgerInv, NEW a \in Bound, NEW seen \in Remote!Phases, seen = "recorded" => accepted[a] = 1
    PROVE  LET x == IF seen = "absent" THEN ledger[a] ELSE WithRemoteState(ledger[a], seen) IN
           /\ x \in Records /\ x.created_at = ledger[a].created_at
           /\ \/ x.reserved_at = ledger[a].reserved_at
              \/ seen = "recorded" /\ ledger[a].reserved_at = None /\ x.reserved_at = clock
           /\ seen \in {"absent", "prepared"} => x.status = ledger[a].status
           /\ seen = "committed" =>
                x.status = IF ledger[a].status \in {"reserved", "not_requested"} THEN "uncertain"
                           ELSE ledger[a].status
           /\ seen = "recorded" => x.status = "submitted"
<1>1. ledger[a] \in Records /\ clock \in Times
  BY BoundRecord DEF LedgerInv, TypeOK
<1>2. seen # "absent" => WithRemoteState(ledger[a], seen) \in Records
  BY RemoteStateAdvances DEF Remote!Phases
<1>3. CASE seen = "absent"
  BY <1>1, <1>3
<1>4. CASE seen = "prepared"
  BY <1>1, <1>2, <1>4 DEF WithRemoteState, Records
<1>5. CASE seen = "committed"
  BY <1>1, <1>2, <1>5 DEF WithRemoteState, Records, Taken, Pending
<1>6. CASE seen = "recorded"
  BY <1>1, <1>2, <1>6 DEF WithRemoteState, Records, Taken, Pending
<1> QED
  BY <1>3, <1>4, <1>5, <1>6 DEF Remote!Phases

\* The steps that leave the ledger alone.
Silent(r) ==
    \/ Arrive(r) \/ ReadBinding(r) \/ ReadRemoteState(r) \/ PrepareRemote(r) \/ RereadRemoteState(r)
    \/ Reserve(r) \/ ListActive(r) \/ RefreshRecord(r) \/ SubmitNotStarted(r) \/ IssueSbatch(r)
    \/ HearFromSbatch(r) \/ Confirm(r) \/ LookUp(r) \/ MonitorJob(r) \/ Crash(r)

LEMMA SilentSteps == ASSUME NEW r \in Calls, Silent(r) PROVE UNCHANGED <<ledger, finished, clock>>
BY DEF Silent, Arrive, ReadBinding, ReadRemoteState, PrepareRemote, RereadRemoteState, Reserve,
       ListActive, RefreshRecord, SubmitNotStarted, IssueSbatch, HearFromSbatch, Confirm, LookUp,
       MonitorJob, Crash

LEMMA StepsOfCalls ==
    ASSUME [Next]_vars
    PROVE  \/ \E r \in Calls : \/ Silent(r) \/ Register(r) \/ ReserveAgain(r) \/ StoreScheduler(r)
                               \/ ReleaseReservation(r)
                               \/ RecordPrepared(r) \/ RecordState(r) \/ StoreRefreshed(r) \/ RecordLookup(r)
           \/ \E a \in Attempts : Elsewhere(a)
           \/ Tick \/ UNCHANGED vars
BY DEF Next, Put, Get, Silent, Elsewhere

LEMMA SchedulerStored ==
    ASSUME LedgerInv, NEW r \in Calls, StoreScheduler(r)
    PROVE  \E a \in Bound, x \in Records :
             /\ Store(a, x) /\ x.created_at = ledger[a].created_at /\ x.status = ledger[a].status
             /\ x.reserved_at = ledger[a].reserved_at
             /\ UNCHANGED <<remote, torn, finished, clock>>
<1> DEFINE b == call[r].other
           x == [ledger[b] EXCEPT !.terminal = call[r].seen = "finished"]
<1>1. b \in Bound /\ UNCHANGED <<remote, torn, finished, clock>> /\ Store(b, x)
  BY CallTyped DEF StoreScheduler, CallIsInformed
<1>2. ledger[b] \in Records
  BY <1>1, BoundRecord DEF LedgerInv
<1>3. x \in Records /\ x.created_at = ledger[b].created_at /\ x.status = ledger[b].status
      /\ x.reserved_at = ledger[b].reserved_at
  BY <1>2 DEF Records
<1> QED
  BY <1>1, <1>3

LEMMA ReservationStored ==
    ASSUME LedgerInv, NEW r \in Calls, ReserveAgain(r)
    PROVE  /\ UNCHANGED <<remote, torn, finished, clock>> /\ call[r].att \in Bound
           /\ \/ UNCHANGED ledger
              \/ /\ ledger[call[r].att].status \notin Taken /\ ~WindowFull /\ ~ActiveFull
                 /\ LET x == [ledger[call[r].att] EXCEPT !.status = "reserved", !.reserved_at = clock] IN
                    /\ x \in Records /\ Store(call[r].att, x) /\ x.created_at = ledger[call[r].att].created_at
                    /\ x.status = "reserved" /\ x.reserved_at = clock
<1>1. call[r].att \in Bound /\ UNCHANGED <<remote, torn, finished, clock>> /\ ledger[call[r].att] \in Records /\ clock \in Times
  BY BoundCall DEF ReserveAgain, LedgerInv, TypeOK
<1> DEFINE x == [ledger[call[r].att] EXCEPT !.status = "reserved", !.reserved_at = clock]
<1>2. x \in Records /\ x.created_at = ledger[call[r].att].created_at /\ x.status = "reserved" /\ x.reserved_at = clock
  BY <1>1 DEF Records, Statuses
<1> QED
  BY <1>1, <1>2 DEF ReserveAgain

LEMMA ReleaseStored ==
    ASSUME LedgerInv, NEW r \in Calls, ReleaseReservation(r)
    PROVE  \E a \in Bound, x \in Records : Store(a, x) /\ x.created_at = ledger[a].created_at
<1> DEFINE a == call[r].att
           x == [ledger[a] EXCEPT !.state = "prepared",
                    !.status = IF @ = "reserved" THEN "released" ELSE @]
<1>0. a \in Bound /\ ledger[a] \in Records /\ Store(a, x)
  BY BoundCall DEF ReleaseReservation
<1>1. x \in Records /\ x.created_at = ledger[a].created_at
  BY <1>0 DEF Records, States, Statuses
<1> QED
  BY <1>0, <1>1

LEMMA CreationStep ==
    ASSUME LedgerInv, [Next]_vars
    PROVE  KeepsCreation \/ Registers
<1>1. ASSUME UNCHANGED ledger PROVE KeepsCreation
  BY <1>1 DEF KeepsCreation, Bound
<1>2. ASSUME NEW a \in Bound, NEW x \in Records, Store(a, x), x.created_at = ledger[a].created_at
      PROVE  KeepsCreation
  <2>1. Bound' = Bound /\ \A b \in Bound : ledger'[b] = IF b = a THEN x ELSE ledger[b]
    BY <1>2, RecordStored
  <2> QED
    BY <1>2, <2>1 DEF KeepsCreation
<1>3. ASSUME NEW r \in Calls, Silent(r) PROVE KeepsCreation
  BY <1>1, <1>3, SilentSteps
<1>4. ASSUME NEW r \in Calls, Register(r) PROVE KeepsCreation \/ Registers
  <2>1. CASE UNCHANGED ledger
    BY <1>1, <2>1
  <2>2. CASE ~TakenMeanwhile(r) /\ Cardinality(CreatedWithin) < MaxNew /\ Store(call[r].att, NewRecord(call[r].stamp))
    <3>1. call[r].stamp \in Stamps /\ call[r].att \in Attempts /\ call[r].att \notin Bound /\ clock' = clock
      BY <1>4, <2>2, CallTyped DEF Register, CallIsInformed, TakenMeanwhile
    <3>2. astray' = astray
      BY <1>4 DEF Register
    <3> QED
      BY <2>2, <3>1, <3>2 DEF Registers
  <2> QED
    BY <1>4, <2>1, <2>2 DEF Register
<1>5. ASSUME NEW r \in Calls, ReserveAgain(r) PROVE KeepsCreation
  BY <1>1, <1>2, <1>5, ReservationStored
<1>6. ASSUME NEW r \in Calls, StoreScheduler(r) PROVE KeepsCreation
  BY <1>2, <1>6, SchedulerStored
<1>7. ASSUME NEW r \in Calls, ReleaseReservation(r) PROVE KeepsCreation
  BY <1>2, <1>7, ReleaseStored
<1>8. ASSUME NEW r \in Calls, RecordPrepared(r) \/ RecordState(r) \/ StoreRefreshed(r) \/ RecordLookup(r)
      PROVE  KeepsCreation
  <2>1. PICK a \in Bound, seen \in Remote!Phases :
             /\ Store(a, IF seen = "absent" THEN ledger[a] ELSE WithRemoteState(ledger[a], seen))
             /\ seen = "recorded" => accepted[a] = 1
    BY <1>8, StoredState
  <2> DEFINE x == IF seen = "absent" THEN ledger[a] ELSE WithRemoteState(ledger[a], seen)
  <2>2. x \in Records /\ x.created_at = ledger[a].created_at
    BY <2>1, StateIsStored
  <2>3. Store(a, x)
    BY <2>1
  <2> HIDE DEF x, Store
  <2> QED
    BY <1>2, <2>2, <2>3
<1>9. CASE (\E a \in Attempts : Elsewhere(a)) \/ Tick \/ UNCHANGED vars
  BY <1>1, <1>9 DEF Elsewhere, PrepareElsewhere, SubmitElsewhere, HearElsewhere, Decide, Finish, Tick, vars
<1> QED
  BY <1>3, <1>4, <1>5, <1>6, <1>7, <1>8, <1>9, StepsOfCalls

\* The clock does not go back.
LEMMA TimePasses ==
    ASSUME LedgerInv, [Next]_vars
    PROVE  clock \in Nat /\ clock' \in Nat /\ clock <= clock'
<1>1. clock \in Nat
  BY DEF LedgerInv, TypeOK, Times
<1>2. clock' = clock \/ clock' = clock + 1
  BY StepsOfCalls, SilentSteps
     DEF Register, ReserveAgain, StoreScheduler, ReleaseReservation, RecordPrepared, RecordState,
         StoreRefreshed, RecordLookup, Elsewhere, PrepareElsewhere, SubmitElsewhere,
         HearElsewhere, Decide, Finish, Tick, vars
<1> QED
  BY <1>1, <1>2

\* No attempt was created in the future, and no window has too many.
CreationInv ==
    /\ IsFiniteSet(Bound)
    /\ \A a \in Bound : ledger[a].created_at <= clock
    /\ NewAttemptsWithinCap

LEMMA CreationInvIsInductive ==
    ASSUME LedgerInv, CreationInv, [Next]_vars
    PROVE  CreationInv'
<1>1. clock \in Nat /\ clock' \in Nat /\ clock <= clock'
  BY TimePasses
<1>2. \A a \in Bound : ledger[a] \in Records /\ ledger[a].created_at \in Nat /\ a \in Attempts
  BY BoundRecord DEF LedgerInv, Records, Times
<1>3. Window \in Nat /\ MaxNew \in Nat /\ Times \subseteq Nat
  BY PolicyAssumption DEF Times
<1>4. CASE KeepsCreation
  <2>1. \A t \in Times : CreatedIn(t)' = CreatedIn(t)
    BY <1>4 DEF KeepsCreation, CreatedIn
  <2>2. \A a \in Bound' : ledger'[a].created_at <= clock'
    <3>1. ASSUME NEW a \in Bound PROVE ledger'[a].created_at <= clock'
      <4>1. ledger'[a].created_at = ledger[a].created_at /\ ledger[a].created_at <= clock
        BY <1>4 DEF KeepsCreation, CreationInv
      <4> QED
        BY <1>1, <1>2, <4>1
    <3> QED
      BY <1>4, <3>1 DEF KeepsCreation
  <2>3. (\A t \in Times : Cardinality(CreatedIn(t)) <= MaxNew)'
    BY <2>1, NewAttemptsByWindow DEF CreationInv
  <2>4. NewAttemptsWithinCap'
    BY <2>3 DEF NewAttemptsWithinCap, WithinWindow, CreatedIn
  <2> QED
    BY <1>4, <2>2, <2>4 DEF CreationInv, KeepsCreation
<1>5. CASE Registers
  <2>1. PICK a \in Attempts \ Bound, stamp \in Stamps :
            /\ Cardinality(CreatedWithin) < MaxNew /\ Store(a, NewRecord(stamp)) /\ clock' = clock
    BY <1>5 DEF Registers
  <2> DEFINE x == NewRecord(stamp)
  <2>2. x # None /\ x.created_at = clock
    <3>1. x \in Records
      BY DEF NewRecord, Records, States, Statuses, LedgerInv, TypeOK
    <3> QED
      BY <3>1, NoneAssumption DEF NewRecord
  <2> HIDE DEF x
  <2>3. Bound' = Bound \cup {a} /\ \A b \in Bound' : ledger'[b] = IF b = a THEN x ELSE ledger[b]
    BY <2>1, <2>2 DEF Bound, LedgerInv, TypeOK, x
  <2>4. \A b \in Bound' : ledger'[b].created_at <= clock'
    BY <1>1, <2>1, <2>2, <2>3 DEF CreationInv
  <2>5. IsFiniteSet(Bound')
    BY <2>3, FS_AddElement DEF CreationInv
  <2>6. ASSUME NEW t \in Times PROVE Cardinality(CreatedIn(t)') <= MaxNew
    <3>1. CASE clock \in t..(t + Window)
      <4>1. IsFiniteSet(CreatedWithin)
        <5>1. CreatedWithin \subseteq Bound
          BY DEF CreatedWithin
        <5> QED
          BY <5>1, FS_Subset DEF CreationInv
      <4>2. CreatedIn(t)' \subseteq CreatedWithin \cup {a}
        <5>1. \A n \in Nat : n \in t..(t + Window) => n >= clock - Window
          BY <1>1, <1>3, <3>1
        <5>2. \A b \in Bound : ledger[b].created_at \in t..(t + Window) => b \in CreatedWithin
          BY <1>2, <5>1 DEF CreatedWithin
        <5>3. \A b \in CreatedIn(t)' : b \in Bound' /\ ledger'[b].created_at \in t..(t + Window)
          BY DEF CreatedIn
        <5> QED
          BY <2>3, <5>2, <5>3
      <4> QED
        <5>1. ~(Cardinality(CreatedWithin) >= MaxNew)
          BY <1>3, <2>1, <4>1, FS_CardinalityType
        <5> QED
          BY <1>3, <4>1, <4>2, <5>1, OneMore
    <3>2. CASE clock \notin t..(t + Window)
      <4>1. CreatedIn(t)' = CreatedIn(t)
        BY <2>1, <2>2, <2>3, <3>2 DEF CreatedIn
      <4> QED
        BY <4>1, NewAttemptsByWindow DEF CreationInv
    <3> QED
      BY <3>1, <3>2
  <2>7. NewAttemptsWithinCap'
    BY <2>6 DEF NewAttemptsWithinCap, WithinWindow, CreatedIn
  <2> QED
    BY <2>4, <2>5, <2>7 DEF CreationInv
<1> QED
  BY <1>4, <1>5, CreationStep

LEMMA InitCreationInv == Init => CreationInv
<1> SUFFICES ASSUME Init PROVE CreationInv
  OBVIOUS
<1>1. Bound = {} /\ MaxNew \in Nat
  BY PolicyAssumption DEF Init, Bound
<1>2. \A t \in Times : CreatedIn(t) = {}
  BY <1>1 DEF CreatedIn
<1> QED
  BY <1>1, <1>2, FS_EmptySet, NewAttemptsByWindow DEF CreationInv

\* In no window of the policy are more attempts registered than it allows, whatever calls
\* register together, fail or die, and whatever SLURM refuses.
THEOREM NewAttemptsAreLimited == Spec => []NewAttemptsWithinCap
<1>1. LedgerInv /\ CreationInv /\ [Next]_vars => CreationInv'
  BY CreationInvIsInductive
<1>2. CreationInv => NewAttemptsWithinCap
  BY DEF CreationInv
<1> QED
  BY <1>1, <1>2, InitCreationInv, LedgerIsSafe, PTL DEF Spec

-----------------------------------------------------------------------------
(* Submissions and active jobs, of the attempts that are not astray.       *)

\* The attempts that have a reservation, and those that ever had one.
Taking == {a \in Attempts : IsTaken(a)}
Asked  == {a \in Bound : ledger[a].status # "not_requested"}

\* Those of a reservation whose job has not ended, and those reserved in the window from
\* t on.
Live == {a \in Bound \ astray : IsTaken(a) /\ ~finished[a]}
ReservedIn(t) ==
    {a \in {b \in Bound \ astray : ledger[b].reserved_at # None /\ ledger[b].status # "released"} :
        ledger[a].reserved_at \in t..(t + Window)}

LEMMA ReservationsByWindow ==
    ReservationsWithinCap <=> \A t \in Times : Cardinality(ReservedIn(t)) <= MaxSubmissions
BY DEF ReservationsWithinCap, WithinWindow, ReservedIn

LEMMA TakenAreBound == \A a : a \in Taking <=> a \in Bound /\ ledger[a].status \in Taken
BY DEF Taking, IsTaken, Bound

\* A reservation may be let go that nobody submits by, and nobody has.
LetGo(a) ==
    /\ phase[a] = "prepared" /\ phase'[a] = "prepared"
    /\ \A q \in Calls : ~(call'[q].pc = "submit" /\ call'[q].att = a)

\* What a step does to the reservations: nothing more than to let one go ...
KeepsReservations ==
    /\ Bound' = Bound
    /\ \A a \in Bound :
         /\ ledger'[a].created_at = ledger[a].created_at
         /\ ledger'[a].reserved_at \in {ledger[a].reserved_at, clock}
    /\ \A a \in Bound \ astray' :
         /\ ledger'[a].reserved_at = ledger[a].reserved_at
         /\ ledger'[a].status = "not_requested" <=> ledger[a].status = "not_requested"
         /\ ledger[a].status = "released" => ledger'[a].status = "released"
         /\ ledger'[a].status \in Taken => ledger[a].status \in Taken
         /\ ledger[a].status \in Taken => ledger'[a].status \in Taken \/ LetGo(a)

\* ... or it makes one, where both counts have room.
Reserves ==
    \E a \in Bound :
        /\ ledger[a].status \notin Taken /\ ~WindowFull /\ ~ActiveFull
        /\ Bound' = Bound /\ \A b \in Bound \ {a} : ledger'[b] = ledger[b]
        /\ ledger'[a].status = "reserved" /\ ledger'[a].reserved_at = clock
        /\ ledger'[a].created_at = ledger[a].created_at
        /\ UNCHANGED <<finished, clock, astray>>

LEMMA CommittedAreTaken ==
    ASSUME LimitsInv, NEW a \in Attempts \ astray,
           phase[a] \in {"committed", "recorded"} \/ accepted[a] = 1 \/ inflight[a]
    PROVE  a \in Taking
BY DEF LimitsInv, CommittedIsReserved, Taking

\* What is astray stays astray.
LEMMA StraysStay == ASSUME [Next]_vars PROVE astray \subseteq astray'
<1>1. ASSUME NEW r \in Calls, Silent(r) PROVE astray \subseteq astray'
  <2>1. CASE PrepareRemote(r)
    BY <2>1 DEF PrepareRemote, StartOver, Remote!Prepared
  <2>2. CASE IssueSbatch(r)
    BY <2>2 DEF IssueSbatch, Remote!Commit
  <2>3. CASE HearFromSbatch(r)
    BY <2>3 DEF HearFromSbatch, RecordAnyway, Remote!Record, Remote!Refuse
  <2> QED
    BY <1>1, <2>1, <2>2, <2>3
       DEF Silent, Arrive, ReadBinding, ReadRemoteState, RereadRemoteState, Reserve, ListActive,
           RefreshRecord, SubmitNotStarted, Confirm, LookUp, MonitorJob, Crash
<1>2. ASSUME NEW r \in Calls,
             \/ Register(r) \/ ReserveAgain(r) \/ StoreScheduler(r) \/ ReleaseReservation(r)
             \/ RecordPrepared(r) \/ RecordState(r) \/ StoreRefreshed(r) \/ RecordLookup(r)
      PROVE  astray \subseteq astray'
  BY <1>2 DEF Register, ReserveAgain, StoreScheduler, ReleaseReservation, RecordPrepared,
              RecordState, StoreRefreshed, RecordLookup
<1>3. ASSUME NEW a \in Attempts, Elsewhere(a) PROVE astray \subseteq astray'
  BY <1>3 DEF Elsewhere, PrepareElsewhere, StartOver, SubmitElsewhere, HearElsewhere, Decide,
              Finish, Remote!Prepared, Remote!Record, Remote!Refuse, Remote!AcceptJob
<1>4. Tick \/ UNCHANGED vars => astray \subseteq astray'
  BY DEF Tick, vars
<1> QED
  BY <1>1, <1>2, <1>3, <1>4, StepsOfCalls

\* A record that is stored: of one that is not astray, without a change to its reservation.
LEMMA ReservationKept ==
    ASSUME LedgerInv, NEW a \in Bound, NEW x \in Records, Store(a, x),
           x.created_at = ledger[a].created_at,
           x.reserved_at \in {ledger[a].reserved_at, clock},
           a \notin astray' =>
             /\ x.reserved_at = ledger[a].reserved_at
             /\ x.status = "not_requested" <=> ledger[a].status = "not_requested"
             /\ ledger[a].status = "released" => x.status = "released"
             /\ x.status \in Taken => ledger[a].status \in Taken
             /\ ledger[a].status \in Taken => x.status \in Taken \/ LetGo(a)
    PROVE  KeepsReservations
<1>1. Bound' = Bound /\ \A b \in Bound : ledger'[b] = IF b = a THEN x ELSE ledger[b]
  BY RecordStored
<1> HIDE DEF Store
<1> QED
  BY <1>1 DEF KeepsReservations

\* A call gives its reservation back only where it strays, or is let go.
LEMMA ReleaseKeeps ==
    ASSUME LedgerInv, NEW r \in Calls, ReleaseReservation(r)
    PROVE  KeepsReservations
<1> DEFINE a == call[r].att
           x == [ledger[a] EXCEPT !.state = "prepared",
                    !.status = IF @ = "reserved" THEN "released" ELSE @]
<1>0. /\ a \in Bound /\ a \in Attempts /\ ledger[a] \in Records /\ Store(a, x)
      /\ call' = [call EXCEPT ![r] = Idle] /\ call \in [Calls -> CallRecords]
      /\ phase' = phase /\ phase \in [Attempts -> Remote!Phases]
      /\ (StillUsed(r) => a \in astray')
  BY BoundCall, CallTyped DEF ReleaseReservation, LedgerInv, TypeOK
<1>1. /\ x \in Records /\ x.created_at = ledger[a].created_at
      /\ x.reserved_at = ledger[a].reserved_at
      /\ x.status = IF ledger[a].status = "reserved" THEN "released" ELSE ledger[a].status
  BY <1>0 DEF Records, States, Statuses
<1>2. ledger[a].status = "reserved" /\ a \notin astray' => LetGo(a)
  <2> SUFFICES ASSUME ledger[a].status = "reserved", ~StillUsed(r) PROVE LetGo(a)
    BY <1>0
  <2>1. phase[a] = "prepared" /\ \A q \in Calls \ {r} : ~(call[q].pc = "submit" /\ call[q].att = a)
    BY DEF StillUsed
  <2>2. call'[r].pc = "idle" /\ \A q \in Calls \ {r} : call'[q] = call[q]
    BY <1>0 DEF Idle
  <2> QED
    BY <1>0, <2>1, <2>2 DEF LetGo
<1> HIDE DEF x, a
<1>3. "released" \notin Taken /\ "reserved" \in Taken
  BY DEF Taken, Pending
<1>4. PICK b \in Bound, y \in Records :
        /\ Store(b, y) /\ b = a
        /\ y.created_at = ledger[b].created_at /\ y.reserved_at = ledger[b].reserved_at
        /\ y.status = IF ledger[b].status = "reserved" THEN "released" ELSE ledger[b].status
  BY <1>0, <1>1
<1> HIDE DEF Store
<1> QED
  BY <1>2, <1>3, <1>4, ReservationKept

\* A state that is stored is that of an attempt that had a reservation.
LEMMA StoredKeeps ==
    ASSUME LedgerInv, LimitsInv, [Next]_vars, NEW r \in Calls,
           RecordPrepared(r) \/ RecordState(r) \/ StoreRefreshed(r) \/ RecordLookup(r)
    PROVE  KeepsReservations
<1>0. RecordsAreTimed /\ SubmittersAreReserved /\ astray \subseteq astray'
  BY StraysStay DEF LimitsInv
<1>1. PICK a \in Bound, seen \in Remote!Phases :
           /\ Store(a, IF seen = "absent" THEN ledger[a] ELSE WithRemoteState(ledger[a], seen))
           /\ seen = "recorded" => accepted[a] = 1
           /\ seen = "committed" => /\ call[r].pc \in {"record", "record_lookup"}
                                    /\ call[r].att = a /\ call[r].seen = seen
  BY StoredState
<1> DEFINE x == IF seen = "absent" THEN ledger[a] ELSE WithRemoteState(ledger[a], seen)
<1>2. /\ x \in Records /\ x.created_at = ledger[a].created_at
      /\ \/ x.reserved_at = ledger[a].reserved_at
         \/ seen = "recorded" /\ ledger[a].reserved_at = None /\ x.reserved_at = clock
      /\ seen \in {"absent", "prepared"} => x.status = ledger[a].status
      /\ seen = "committed" =>
           x.status = IF ledger[a].status \in {"reserved", "not_requested"} THEN "uncertain"
                      ELSE ledger[a].status
      /\ seen = "recorded" => x.status = "submitted"
  BY <1>1, StateIsStored
<1>3. Store(a, x)
  BY <1>1
<1> HIDE DEF x
<1>4. a \notin astray' =>
        /\ ledger[a].status # "not_requested" <=> ledger[a].reserved_at # None
        /\ seen = "recorded" => ledger[a].status \in Taken
        /\ seen = "committed" => ledger[a].status # "not_requested"
  <2>1. a \in Attempts
    BY DEF Bound
  <2>2. a \notin astray' /\ seen = "recorded" => a \in Taking
    BY <1>0, <1>1, <2>1, CommittedAreTaken
  <2> QED
    BY <1>0, <1>1, <2>2, TakenAreBound DEF RecordsAreTimed, SubmittersAreReserved
<1>5. Taken = {"reserved", "uncertain", "submitted"}
  BY DEF Taken, Pending
<1> HIDE DEF Store
<1>6. seen \in {"absent", "prepared", "committed", "recorded"}
  BY DEF Remote!Phases
<1> QED
  BY <1>2, <1>3, <1>4, <1>5, <1>6, ReservationKept

LEMMA LimitStep ==
    ASSUME LedgerInv, LimitsInv, [Next]_vars
    PROVE  KeepsReservations \/ Reserves \/ Registers
<1>1. ASSUME UNCHANGED ledger PROVE KeepsReservations
  BY <1>1 DEF KeepsReservations, Bound
<1>2. ASSUME NEW r \in Calls, Silent(r) PROVE KeepsReservations
  BY <1>1, <1>2, SilentSteps
<1>3. ASSUME NEW r \in Calls, Register(r) PROVE KeepsReservations \/ Registers
  <2>1. CASE UNCHANGED ledger
    BY <1>1, <2>1
  <2>2. CASE ~TakenMeanwhile(r) /\ Cardinality(CreatedWithin) < MaxNew /\ Store(call[r].att, NewRecord(call[r].stamp))
    <3>1. call[r].stamp \in Stamps /\ call[r].att \in Attempts /\ call[r].att \notin Bound /\ clock' = clock
      BY <1>3, <2>2, CallTyped DEF Register, CallIsInformed, TakenMeanwhile
    <3>2. astray' = astray
      BY <1>3 DEF Register
    <3> QED
      BY <2>2, <3>1, <3>2 DEF Registers
  <2> QED
    BY <1>3, <2>1, <2>2 DEF Register
<1>4. ASSUME NEW r \in Calls, ReserveAgain(r) PROVE KeepsReservations \/ Reserves
  <2>1. CASE UNCHANGED ledger
    BY <1>1, <2>1
  <2>2. CASE ledger' # ledger
    <3> DEFINE a == call[r].att
               x == [ledger[a] EXCEPT !.status = "reserved", !.reserved_at = clock]
    <3>1. /\ ledger[a].status \notin Taken /\ ~WindowFull /\ ~ActiveFull
          /\ x \in Records /\ Store(a, x) /\ x.created_at = ledger[a].created_at
          /\ x.status = "reserved" /\ x.reserved_at = clock
          /\ a \in Bound /\ UNCHANGED <<finished, clock, astray>>
      BY <1>4, <2>2, ReservationStored
    <3> HIDE DEF x
    <3>2. Bound' = Bound /\ \A b \in Bound : ledger'[b] = IF b = a THEN x ELSE ledger[b]
      BY <3>1, RecordStored
    <3> QED
      BY <3>1, <3>2 DEF Reserves
  <2> QED
    BY <2>1, <2>2
<1>5. ASSUME NEW r \in Calls, StoreScheduler(r) PROVE KeepsReservations
  <2>1. PICK a \in Bound, x \in Records :
             /\ Store(a, x) /\ x.created_at = ledger[a].created_at /\ x.status = ledger[a].status
             /\ x.reserved_at = ledger[a].reserved_at
    BY <1>5, SchedulerStored
  <2> HIDE DEF Store
  <2> QED
    BY <2>1, ReservationKept
<1>6. CASE (\E a \in Attempts : Elsewhere(a)) \/ Tick \/ UNCHANGED vars
  BY <1>1, <1>6 DEF Elsewhere, PrepareElsewhere, SubmitElsewhere, HearElsewhere, Decide, Finish, Tick, vars
<1> QED
  BY <1>2, <1>3, <1>4, <1>5, <1>6, ReleaseKeeps, StoredKeeps, StepsOfCalls

\* What was reserved stays so, of an attempt that does not go astray, or is let go.
Lasting ==
    \A a \in Attempts \ astray' :
        /\ a \in Asked => a \in Asked'
        /\ a \in Taking => a \in Taking' \/ LetGo(a)

LEMMA TakenNext ==
    /\ \A a : a \in Taking' <=> a \in Bound' /\ ledger'[a].status \in Taken
    /\ \A a : a \in Asked' <=> a \in Bound' /\ ledger'[a].status # "not_requested"
    /\ \A a : a \in Live' <=> a \in Bound' \ astray' /\ ledger'[a].status \in Taken /\ ~finished'[a]
    /\ \A a : a \in Live <=> a \in Bound \ astray /\ ledger[a].status \in Taken /\ ~finished[a]
BY DEF Taking, Asked, Live, IsTaken, Bound

\* The reservations stay timed and within the caps.
LEMMA ReservationsAreKept ==
    ASSUME LedgerInv, LimitsInv, [Next]_vars, Monotone, KeepsReservations
    PROVE  RecordsAreTimed' /\ LiveWithinCap' /\ ReservationsWithinCap' /\ Lasting
<1>0. /\ clock \in Nat /\ clock' \in Nat /\ clock <= clock' /\ astray \subseteq astray'
      /\ clock # None /\ MaxActive \in Nat /\ MaxSubmissions \in Nat
  BY TimePasses, StraysStay, PolicyAssumption, NoneAssumption DEF LedgerInv, TypeOK
<1>1. \A a \in Bound : ledger[a] \in Records /\ ledger[a].created_at \in Nat /\ a \in Attempts
                       /\ (ledger[a].reserved_at # None => ledger[a].reserved_at \in Nat)
  BY BoundRecord DEF LedgerInv, Records, Times
<1>2. RecordsAreTimed /\ IsFiniteSet(Bound) /\ LiveWithinCap /\ ReservationsWithinCap
  BY DEF LimitsInv, WindowsAreRespected
<1>3. RecordsAreTimed'
  <2>1. ASSUME NEW a \in Bound
        PROVE  /\ ledger'[a].created_at <= clock'
               /\ ledger'[a].reserved_at # None => ledger'[a].reserved_at <= clock'
    <3>1. /\ ledger'[a].created_at = ledger[a].created_at
          /\ ledger'[a].reserved_at \in {ledger[a].reserved_at, clock}
      BY DEF KeepsReservations
    <3>2. /\ ledger[a].created_at <= clock
          /\ ledger[a].reserved_at # None => ledger[a].reserved_at <= clock
      BY <1>2 DEF RecordsAreTimed
    <3> QED
      BY <1>0, <1>1, <3>1, <3>2
  <2>2. ASSUME NEW a \in Bound \ astray'
        PROVE  ledger'[a].status # "not_requested" <=> ledger'[a].reserved_at # None
    <3>1. /\ ledger'[a].reserved_at = ledger[a].reserved_at
          /\ ledger'[a].status = "not_requested" <=> ledger[a].status = "not_requested"
      BY DEF KeepsReservations
    <3>2. ledger[a].status # "not_requested" <=> ledger[a].reserved_at # None
      BY <1>0, <1>2 DEF RecordsAreTimed
    <3> QED
      BY <3>1, <3>2
  <2> QED
    BY <2>1, <2>2 DEF RecordsAreTimed, KeepsReservations
<1>4. Lasting
  <2>1. ASSUME NEW a \in Attempts \ astray', a \in Asked PROVE a \in Asked'
    BY <2>1, TakenNext DEF KeepsReservations, Asked
  <2>2. ASSUME NEW a \in Attempts \ astray', a \in Taking PROVE a \in Taking' \/ LetGo(a)
    BY <2>2, TakenNext, TakenAreBound DEF KeepsReservations
  <2> QED
    BY <2>1, <2>2 DEF Lasting
<1>5. LiveWithinCap'
  <2>1. Live' \subseteq Live /\ Live \subseteq Bound
    <3>1. \A a \in Bound : finished[a] => finished'[a]
      BY <1>1 DEF Monotone
    <3> QED
      BY <1>0, <3>1, TakenNext DEF KeepsReservations
  <2>2. IsFiniteSet(Live)
    BY <1>2, <2>1, FS_Subset
  <2>3. Cardinality(Live') <= MaxActive
    BY <1>0, <1>2, <2>1, <2>2, NoMore DEF LiveWithinCap, Live
  <2> QED
    BY <2>3 DEF LiveWithinCap, Live
<1>6. ReservationsWithinCap'
  <2>1. ASSUME NEW t \in Times PROVE Cardinality(ReservedIn(t)') <= MaxSubmissions
    <3>1. ReservedIn(t)' \subseteq ReservedIn(t)
      BY <1>0 DEF ReservedIn, KeepsReservations
    <3>2. ReservedIn(t) \subseteq Bound
      BY DEF ReservedIn
    <3>3. IsFiniteSet(ReservedIn(t)) /\ Cardinality(ReservedIn(t)) <= MaxSubmissions
      BY <1>2, <3>2, FS_Subset, ReservationsByWindow
    <3> QED
      BY <1>0, <3>1, <3>3, NoMore
  <2> QED
    BY <2>1 DEF ReservationsWithinCap, WithinWindow, ReservedIn
<1> QED
  BY <1>3, <1>4, <1>5, <1>6

\* An attempt that is registered has no reservation.
LEMMA RegistrationsAreNot ==
    ASSUME LedgerInv, LimitsInv, [Next]_vars, Monotone, Registers
    PROVE  RecordsAreTimed' /\ LiveWithinCap' /\ ReservationsWithinCap' /\ Lasting
<1>0. clock \in Nat /\ clock' \in Nat /\ clock <= clock' /\ MaxActive \in Nat
  BY TimePasses, PolicyAssumption
<1>1. PICK a \in Attempts \ Bound, stamp \in Stamps :
        Store(a, NewRecord(stamp)) /\ UNCHANGED <<clock, astray>>
  BY DEF Registers
<1>2. RecordsAreTimed /\ IsFiniteSet(Bound) /\ LiveWithinCap /\ ReservationsWithinCap
  BY DEF LimitsInv, WindowsAreRespected
<1> DEFINE x == NewRecord(stamp)
<1>3. x # None /\ x.created_at = clock /\ x.status = "not_requested" /\ x.reserved_at = None
  <2>1. x \in Records
    BY DEF NewRecord, Records, States, Statuses, LedgerInv, TypeOK
  <2> QED
    BY <2>1, NoneAssumption DEF NewRecord
<1> HIDE DEF x
<1>4. Bound' = Bound \cup {a} /\ \A b \in Bound' : ledger'[b] = IF b = a THEN x ELSE ledger[b]
  BY <1>1, <1>3 DEF Bound, LedgerInv, TypeOK, x
<1>5. "not_requested" \notin Taken
  BY DEF Taken, Pending
<1>6. RecordsAreTimed'
  BY <1>0, <1>1, <1>2, <1>3, <1>4 DEF RecordsAreTimed
<1>7. Lasting
  BY <1>1, <1>4, TakenNext, TakenAreBound DEF Lasting, Asked
<1>8. LiveWithinCap'
  <2>1. Live' \subseteq Live /\ Live \subseteq Bound
    <3>1. \A b \in Bound : finished[b] => finished'[b]
      BY DEF Monotone, Bound
    <3> QED
      BY <1>1, <1>3, <1>4, <1>5, <3>1, TakenNext
  <2>2. IsFiniteSet(Live)
    BY <1>2, <2>1, FS_Subset
  <2>3. Cardinality(Live') <= MaxActive
    BY <1>0, <1>2, <2>1, <2>2, NoMore DEF LiveWithinCap, Live
  <2> QED
    BY <2>3 DEF LiveWithinCap, Live
<1>9. ReservationsWithinCap'
  <2>1. \A t \in Times : ReservedIn(t)' = ReservedIn(t)
    BY <1>1, <1>3, <1>4 DEF ReservedIn
  <2>2. (\A t \in Times : Cardinality(ReservedIn(t)) <= MaxSubmissions)'
    BY <1>2, <2>1, ReservationsByWindow
  <2> QED
    BY <2>2 DEF ReservationsWithinCap, WithinWindow, ReservedIn
<1> QED
  BY <1>6, <1>7, <1>8, <1>9

\* A reservation is counted before it is made: what is live is active, and what is in a
\* window that reaches now counts toward it.
LEMMA ReservationsHaveRoom ==
    ASSUME LedgerInv, LimitsInv, Reserves
    PROVE  RecordsAreTimed' /\ LiveWithinCap' /\ ReservationsWithinCap' /\ Lasting
<1>0. clock \in Nat /\ Window \in Nat /\ MaxActive \in Nat /\ MaxSubmissions \in Nat /\ Times \subseteq Nat
      /\ clock \in Times /\ clock # None /\ clock <= clock
  <2>1. clock \in Times /\ Times \subseteq Nat
    BY DEF LedgerInv, TypeOK, Times
  <2> QED
    BY <2>1, PolicyAssumption, NoneAssumption
<1>1. PICK a \in Bound :
        /\ ledger[a].status \notin Taken /\ ~WindowFull /\ ~ActiveFull
        /\ Bound' = Bound /\ \A b \in Bound \ {a} : ledger'[b] = ledger[b]
        /\ ledger'[a].status = "reserved" /\ ledger'[a].reserved_at = clock
        /\ ledger'[a].created_at = ledger[a].created_at
        /\ UNCHANGED <<finished, clock, astray>>
  BY DEF Reserves
<1>2. RecordsAreTimed /\ IsFiniteSet(Bound) /\ ReservationsWithinCap /\ RecordsAreReal
  BY DEF LimitsInv, WindowsAreRespected, LedgerInv
<1>3. "reserved" \in Taken
  BY DEF Taken, Pending
<1>4. RecordsAreTimed'
  BY <1>0, <1>1, <1>2 DEF RecordsAreTimed
<1>5. Lasting
  BY <1>1, <1>3, TakenNext, TakenAreBound DEF Lasting, Asked
<1>6. LiveWithinCap'
  <2> DEFINE T == {b \in Attempts : IsActive(b)}
  <2>1. T \subseteq Bound /\ Live \subseteq T
    BY <1>2 DEF IsActive, Live, IsTaken, RecordsAreReal, Bound
  <2>2. IsFiniteSet(T)
    BY <1>2, <2>1, FS_Subset
  <2>3. Live' \subseteq Live \cup {a}
    BY <1>1, TakenNext
  <2>4. ~(Cardinality(T) >= MaxActive)
    BY <1>1 DEF ActiveFull
  <2> HIDE DEF T
  <2>5. Cardinality(Live') <= MaxActive
    BY <1>0, <2>1, <2>2, <2>3, <2>4, OneMore
  <2> QED
    BY <2>5 DEF LiveWithinCap, Live
<1>7. ASSUME NEW t \in Times PROVE Cardinality(ReservedIn(t)') <= MaxSubmissions
  <2>1. ReservedIn(t)' = {b \in Bound \ astray : /\ ledger'[b].reserved_at # None /\ ledger'[b].status # "released"
                                        /\ ledger'[b].reserved_at \in t..(t + Window)}
    BY <1>1 DEF ReservedIn
  <2>2. ReservedIn(t) = {b \in Bound \ astray : /\ ledger[b].reserved_at # None /\ ledger[b].status # "released"
                                       /\ ledger[b].reserved_at \in t..(t + Window)}
    BY DEF ReservedIn
  <2>3. CASE clock \in t..(t + Window)
    <3> DEFINE T == {b \in Attempts : CountsTowardWindow(b)}
    <3>1. T \subseteq Bound
      BY DEF CountsTowardWindow
    <3>2. IsFiniteSet(T)
      BY <1>2, <3>1, FS_Subset
    <3>3. \A n \in Nat : n \in t..(t + Window) => n >= clock - Window
      BY <1>0, <2>3
    <3>4. ReservedIn(t) \subseteq T
      <4>1. ASSUME NEW b \in ReservedIn(t) PROVE b \in T
        <5>1. /\ b \in Bound /\ ledger[b].reserved_at # None /\ ledger[b].status # "released"
              /\ ledger[b].reserved_at \in t..(t + Window)
          BY <2>2, <4>1
        <5>2. ledger[b].reserved_at \in Nat /\ b \in Attempts
          BY <1>0, <5>1, BoundRecord DEF LedgerInv, Records
        <5>3. ledger[b].reserved_at >= clock - Window
          BY <3>3, <5>1, <5>2
        <5> QED
          BY <5>1, <5>2, <5>3 DEF CountsTowardWindow
      <4> QED
        BY <4>1
    <3>5. ReservedIn(t)' \subseteq ReservedIn(t) \cup {a}
      BY <1>1, <2>1, <2>2
    <3>6. ~(Cardinality(T) >= MaxSubmissions)
      BY <1>1 DEF WindowFull
    <3> HIDE DEF T
    <3> QED
      BY <1>0, <3>2, <3>4, <3>5, <3>6, OneMore
  <2>4. CASE clock \notin t..(t + Window)
    <3>1. ReservedIn(t)' \subseteq ReservedIn(t) /\ ReservedIn(t) \subseteq Bound
      BY <1>1, <2>1, <2>2, <2>4
    <3>2. IsFiniteSet(ReservedIn(t)) /\ Cardinality(ReservedIn(t)) <= MaxSubmissions
      BY <1>2, <3>1, FS_Subset, ReservationsByWindow
    <3> QED
      BY <1>0, <3>1, <3>2, NoMore
  <2> QED
    BY <2>3, <2>4
<1>8. ReservationsWithinCap'
  BY <1>7 DEF ReservationsWithinCap, WithinWindow, ReservedIn
<1> QED
  BY <1>4, <1>5, <1>6, <1>8

\* What SubmittersAreReserved says of one call.
OwnReserved(c, gone, taking, asked) == c.att \notin gone =>
    /\ c.pc = "submit" => c.att \in taking
    /\ c.pc \in {"record", "record_lookup"} /\ c.seen = "committed" => c.att \in asked

LEMMA CallsOwnReserved ==
    SubmittersAreReserved <=> \A r \in Calls : OwnReserved(call[r], astray, Taking, Asked)
<1>1. \A a : (a \in Taking <=> IsTaken(a)) /\ (a \in Asked <=> a \in Bound /\ ledger[a].status # "not_requested")
  BY TakenAreBound DEF IsTaken, Asked
<1> QED
  BY <1>1 DEF SubmittersAreReserved, OwnReserved

\* A call that neither submits nor has seen a submission.
Quiet(c) ==
    /\ c.pc # "submit"
    /\ c.pc \in {"record", "record_lookup"} => c.seen # "committed"

\* The steps after which a call is quiet.
LEMMA QuietSteps ==
    ASSUME LedgerInv, NEW r \in Calls,
           \/ Arrive(r) \/ ReadBinding(r) \/ Register(r) \/ PrepareRemote(r) \/ RecordPrepared(r)
           \/ RecordState(r) \/ ListActive(r) \/ RefreshRecord(r) \/ StoreRefreshed(r)
           \/ IssueSbatch(r) \/ HearFromSbatch(r) \/ SubmitNotStarted(r)
           \/ MonitorJob(r) \/ StoreScheduler(r) \/ ReleaseReservation(r) \/ RecordLookup(r) \/ Crash(r)
    PROVE  Quiet(call'[r])
<1> USE DEF Quiet, CallRecords, Idle
<1>0. call[r] \in CallRecords /\ call \in [Calls -> CallRecords]
  BY CallTyped
<1>1. CASE Arrive(r)
  <2>1. PICK a \in Attempts, kind \in {"prepare", "submit", "get"} :
           call' = [call EXCEPT ![r] = [Idle EXCEPT !.att = a, !.kind = kind,
                       !.pc = IF kind = "get" THEN "look_up" ELSE "bind"]]
    BY <1>1, PolicyAssumption DEF Arrive
  <2>2. call'[r].pc \in {"look_up", "bind"}
    BY <1>0, <2>1
  <2> QED
    BY <2>2
<1>7. CASE Crash(r) \/ ReleaseReservation(r)
  BY <1>0, <1>7 DEF Crash, ReleaseReservation
<1>2. CASE ReadBinding(r) \/ Register(r)
  BY <1>0, <1>2 DEF ReadBinding, Register
<1>3. CASE PrepareRemote(r) \/ RecordPrepared(r) \/ RecordState(r)
  BY <1>0, <1>3 DEF PrepareRemote, RecordPrepared, RecordState
<1>4. CASE ListActive(r) \/ StoreRefreshed(r)
  BY <1>0, <1>4 DEF ListActive, StoreRefreshed
<1>5. CASE RefreshRecord(r)
  <2>1. CASE Go(r, "reserve_again")
    BY <1>0, <2>1
  <2>2. CASE ~Go(r, "reserve_again")
    <3>1. PICK item \in call[r].todo :
            \/ call' = [call EXCEPT ![r].todo = @ \ {item}]
            \/ \E step \in {"refresh_record", "scheduler"}, x \in {"recorded", None} :
                 call' = [call EXCEPT ![r].pc = step, ![r].todo = @ \ {item},
                                      ![r].other = item[1], ![r].seen = x]
      BY <1>5, <2>2 DEF RefreshRecord
    <3>2. call'[r].pc \in {"refresh", "refresh_record", "scheduler"}
      <4>1. CASE call' = [call EXCEPT ![r].todo = @ \ {item}]
        BY <1>0, <1>5, <4>1 DEF RefreshRecord
      <4>2. ASSUME NEW step \in {"refresh_record", "scheduler"}, NEW x,
                   call' = [call EXCEPT ![r].pc = step, ![r].todo = @ \ {item},
                                        ![r].other = item[1], ![r].seen = x]
            PROVE  call'[r].pc = step
        BY <1>0, <4>2
      <4> QED
        BY <3>1, <4>1, <4>2
    <3> QED
      BY <3>2
  <2> QED
    BY <2>1, <2>2
<1>6. CASE MonitorJob(r) \/ StoreScheduler(r) \/ RecordLookup(r)
  BY <1>0, <1>6 DEF MonitorJob, StoreScheduler, RecordLookup
<1>8. CASE IssueSbatch(r) \/ HearFromSbatch(r) \/ SubmitNotStarted(r)
  BY <1>0, <1>8 DEF IssueSbatch, HearFromSbatch, SubmitNotStarted
<1> QED
  BY <1>1, <1>2, <1>3, <1>4, <1>5, <1>6, <1>7, <1>8

\* The steps that read the state on POWER: a submission seen there has had its reservation.
LEMMA SightedSteps ==
    ASSUME LedgerInv, LimitsInv, NEW r \in Calls, Lasting, astray \subseteq astray', UNCHANGED phase,
           ReadRemoteState(r) \/ RereadRemoteState(r) \/ Confirm(r) \/ LookUp(r)
    PROVE  OwnReserved(call'[r], astray', Taking', Asked')
<1>0. call[r] \in CallRecords /\ call \in [Calls -> CallRecords] /\ call[r].att \in Attempts
  BY CallTyped DEF CallIsInformed, ReadRemoteState, RereadRemoteState, Confirm, LookUp
<1>1. phase[call[r].att] = "committed" /\ call[r].att \notin astray' => call[r].att \in Asked'
  <2> SUFFICES ASSUME phase[call[r].att] = "committed", call[r].att \notin astray'
               PROVE  call[r].att \in Asked'
    OBVIOUS
  <2>1. call[r].att \in Taking
    BY <1>0, CommittedAreTaken
  <2>2. call[r].att \in Asked
    BY <2>1, TakenAreBound DEF Asked, Taken, Pending
  <2> QED
    BY <1>0, <2>2 DEF Lasting
<1>2. \/ Quiet(call'[r])
      \/ /\ call'[r].pc \in {"record", "record_lookup"} /\ call'[r].att = call[r].att
         /\ call'[r].seen = "committed" => phase[call[r].att] = "committed"
  <2> USE DEF Quiet, CallRecords, Idle, Readings
  <2>1. CASE ReadRemoteState(r)
    BY <1>0, <2>1 DEF ReadRemoteState, FollowState
  <2>2. CASE RereadRemoteState(r)
    BY <1>0, <2>2 DEF RereadRemoteState, FollowState
  <2>3. CASE Confirm(r)
    BY <1>0, <2>3 DEF Confirm
  <2>4. CASE LookUp(r)
    BY <1>0, <2>4 DEF LookUp
  <2> QED
    BY <2>1, <2>2, <2>3, <2>4
<1> QED
  BY <1>1, <1>2 DEF OwnReserved, Quiet

\* The steps that reserve.
LEMMA ReservingSteps ==
    ASSUME LedgerInv, NEW r \in Calls, Reserve(r) \/ ReserveAgain(r)
    PROVE  OwnReserved(call'[r], astray', Taking', Asked')
<1>0. call[r] \in CallRecords /\ call \in [Calls -> CallRecords]
      /\ call[r].att \in Bound /\ call[r].att \in Attempts
  BY BoundCall, CallTyped DEF Reserve, ReserveAgain
<1>1. \A a : a \in Taking' <=> a \in Bound' /\ ledger'[a].status \in Taken
  BY TakenNext
<1> USE DEF OwnReserved, CallRecords, Idle
<1>2. CASE Reserve(r)
  <2>1. UNCHANGED ledger /\ Bound' = Bound
    BY <1>2 DEF Reserve, Bound
  <2> QED
    BY <1>0, <1>1, <1>2, <2>1 DEF Reserve
<1>3. CASE ReserveAgain(r)
  <2> DEFINE x == [ledger[call[r].att] EXCEPT !.status = "reserved", !.reserved_at = clock]
  <2>1. CASE ledger[call[r].att].status \in Taken
    <3>1. UNCHANGED ledger /\ Bound' = Bound
      BY <1>3, <2>1 DEF ReserveAgain, Bound
    <3> QED
      BY <1>0, <1>1, <1>3, <2>1, <3>1 DEF ReserveAgain
  <2>2. CASE call'[r] = Idle
    BY <1>0, <2>2
  <2>3. CASE Store(call[r].att, x) /\ Go(r, "submit")
    <3>2. ledger[call[r].att] \in Records /\ clock \in Times
      BY <1>0, BoundRecord DEF LedgerInv, TypeOK
    <3>3. x \in Records /\ x.status = "reserved" /\ Store(call[r].att, x)
      BY <2>3, <3>2 DEF Records, Statuses
    <3> HIDE DEF x
    <3>4. PICK a \in Bound, y \in Records : a = call[r].att /\ y.status = "reserved" /\ Store(a, y)
      BY <1>0, <3>3, Zenon
    <3>5. ledger'[a] = y /\ y # None /\ a \in Attempts
      BY <1>0, <3>4, CallTyped, NoneAssumption
    <3>6. a \in Bound'
      BY <3>5 DEF Bound
    <3>7. call[r].att \in Taking'
      BY <1>0, <1>1, <3>4, <3>5, <3>6 DEF Taken, Pending
    <3> QED
      BY <1>0, <2>3, <3>7
  <2> QED
    BY <1>0, <1>3, <2>1, <2>2, <2>3 DEF ReserveAgain
<1> QED
  BY <1>2, <1>3

\* Every call stays as it should: no reservation is let go that a call submits by.
LEMMA SubmittersStayReserved ==
    ASSUME LedgerInv, LimitsInv, [Next]_vars, Lasting
    PROVE  SubmittersAreReserved'
<1>0. astray \subseteq astray' /\ \A r \in Calls : call[r] \in CallRecords
  BY StraysStay, CallTyped
<1>1. \A r \in Calls : OwnReserved(call[r], astray, Taking, Asked)
  BY CallsOwnReserved DEF LimitsInv
<1>2. ASSUME NEW r \in Calls, call'[r] = call[r]
      PROVE  OwnReserved(call'[r], astray', Taking', Asked')
  <2>1. OwnReserved(call[r], astray, Taking, Asked)
    BY <1>1
  <2>2. Taking \subseteq Attempts /\ Asked \subseteq Attempts
    BY DEF Taking, Asked, Bound
  <2>3. call[r].pc = "submit" => ~LetGo(call[r].att)
    BY <1>2 DEF LetGo
  <2> QED
    BY <1>0, <1>2, <2>1, <2>2, <2>3 DEF OwnReserved, Lasting
<1>3. ASSUME NEW r \in Calls,
             Arrive(r) \/ Put(r) \/ Get(r) \/ MonitorJob(r) \/ StoreScheduler(r) \/ Crash(r)
      PROVE  OwnReserved(call'[r], astray', Taking', Asked')
  <2>1. Quiet(call'[r]) => OwnReserved(call'[r], astray', Taking', Asked')
    BY DEF Quiet, OwnReserved
  <2>2. CASE ReadRemoteState(r) \/ RereadRemoteState(r) \/ Confirm(r) \/ LookUp(r)
    <3>1. UNCHANGED phase
      BY <2>2 DEF ReadRemoteState, RereadRemoteState, Confirm, LookUp
    <3> QED
      BY <1>0, <2>2, <3>1, SightedSteps
  <2>3. CASE Reserve(r) \/ ReserveAgain(r)
    BY <2>3, ReservingSteps
  <2> QED
    BY <1>3, <2>1, <2>2, <2>3, QuietSteps DEF Put, Get
<1>4. \A r \in Calls : OwnReserved(call'[r], astray', Taking', Asked')
  <2>1. CASE UNCHANGED call
    BY <1>2, <2>1
  <2>2. ASSUME NEW r \in Calls,
               Arrive(r) \/ Put(r) \/ Get(r) \/ MonitorJob(r) \/ StoreScheduler(r) \/ Crash(r)
        PROVE  \A q \in Calls : OwnReserved(call'[q], astray', Taking', Asked')
    <3>1. \A q \in Calls \ {r} : call'[q] = call[q]
      BY <2>2, CallActs DEF StepOK, CallStep
    <3> QED
      BY <1>2, <1>3, <2>2, <3>1
  <2>3. UNCHANGED call \/ \E r \in Calls :
          Arrive(r) \/ Put(r) \/ Get(r) \/ MonitorJob(r) \/ StoreScheduler(r) \/ Crash(r)
    BY DEF Next, PrepareElsewhere, SubmitElsewhere, HearElsewhere, Decide, Finish, Tick, vars
  <2> QED
    BY <2>1, <2>2, <2>3
<1>5. \A a : (a \in Taking' <=> IsTaken(a)')
             /\ (a \in Asked' <=> a \in Bound' /\ ledger'[a].status # "not_requested")
  BY DEF Taking, Asked, IsTaken, Bound
<1> QED
  BY <1>4, <1>5 DEF SubmittersAreReserved, OwnReserved

\* What a step does on POWER to an attempt that does not go astray: it is prepared, its
\* sbatch is decided or its job recorded; it is committed, by a reservation; or it is
\* refused.
Busy(a)      == accepted[a] = 1 \/ inflight[a]
Committed(a) == phase[a] \in {"committed", "recorded"}

RemoteMove(a) ==
    \/ (Busy(a)' => Busy(a) \/ Committed(a)) /\ (Committed(a)' <=> Committed(a))
    \/ a \in Taking /\ Committed(a)'
    \/ ~Busy(a)' /\ ~Committed(a)'

LEMMA RemoteMovesOnly ==
    ASSUME LedgerInv, LimitsInv, [Next]_vars, NEW b \in Attempts \ astray'
    PROVE  RemoteMove(b)
<1> USE DEF RemoteMove, Busy, Committed
<1>0. /\ phase \in [Attempts -> Remote!Phases] /\ accepted \in [Attempts -> {0, 1}]
      /\ inflight \in [Attempts -> BOOLEAN] /\ b \notin astray
  BY StraysStay DEF LedgerInv, TypeOK
<1>1. CASE UNCHANGED <<phase, accepted, inflight>>
  BY <1>1
<1>2. ASSUME NEW a \in Attempts, Remote!Prepared(a) \/ StartOver(a), UNCHANGED inflight
      PROVE  RemoteMove(b)
  BY <1>0, <1>2 DEF Remote!Prepared, Remote!Move, StartOver
<1>3. ASSUME NEW a \in Attempts, Remote!Refuse(a), ~inflight[a], UNCHANGED inflight
      PROVE  RemoteMove(b)
  BY <1>0, <1>3 DEF Remote!Refuse, Remote!Move
<1>4. ASSUME NEW a \in Attempts, Remote!Record(a), UNCHANGED inflight
      PROVE  RemoteMove(b)
  BY <1>0, <1>4 DEF Remote!Record, Remote!Move
<1>5. ASSUME NEW a \in Attempts, a \in astray', \A c \in Attempts \ {a} : phase'[c] = phase[c],
             \A c \in Attempts \ {a} : accepted'[c] = accepted[c] /\ inflight'[c] = inflight[c]
      PROVE  RemoteMove(b)
  BY <1>5
<1>6. ASSUME NEW r \in Calls, PrepareRemote(r) PROVE RemoteMove(b)
  <2>1. call[r].att \in Attempts
    BY <1>6, BoundCall DEF PrepareRemote
  <2> QED
    BY <1>1, <1>2, <1>6, <2>1 DEF PrepareRemote
<1>7. ASSUME NEW r \in Calls, IssueSbatch(r) PROVE RemoteMove(b)
  <2>1. call[r].att \in Attempts /\ Remote!Commit(call[r].att)
        /\ inflight' = [inflight EXCEPT ![call[r].att] = TRUE]
    BY <1>7, BoundCall DEF IssueSbatch
  <2>2. call[r].att \notin astray => call[r].att \in Taking
    BY <1>7, CallsOwnReserved DEF LimitsInv, OwnReserved, IssueSbatch
  <2> QED
    BY <1>0, <2>1, <2>2 DEF Remote!Commit, Remote!Move
<1>8. ASSUME NEW r \in Calls, HearFromSbatch(r) PROVE RemoteMove(b)
  <2> DEFINE a == call[r].att
  <2>1. a \in Attempts /\ UNCHANGED inflight
    BY <1>8, BoundCall DEF HearFromSbatch
  <2>2. \/ Remote!Record(a) \/ (Remote!Refuse(a) /\ ~inflight[a])
        \/ UNCHANGED <<phase, accepted>>
        \/ /\ a \in astray' /\ UNCHANGED accepted
           /\ \E p \in {"prepared", "recorded"} : phase' = [phase EXCEPT ![a] = p]
    BY <1>8 DEF HearFromSbatch, RecordAnyway
  <2> HIDE DEF a
  <2>3. ASSUME a \in astray', UNCHANGED accepted, NEW p, phase' = [phase EXCEPT ![a] = p]
        PROVE  RemoteMove(b)
    <3>1. /\ \A c \in Attempts \ {a} : phase'[c] = phase[c]
          /\ \A c \in Attempts \ {a} : accepted'[c] = accepted[c] /\ inflight'[c] = inflight[c]
      BY <1>0, <2>1, <2>3
    <3> QED
      BY <1>5, <2>1, <2>3, <3>1
  <2> QED
    BY <1>1, <1>3, <1>4, <2>1, <2>2, <2>3
<1>9. ASSUME NEW a \in Attempts, Elsewhere(a) PROVE RemoteMove(b)
  <2>1. CASE PrepareElsewhere(a)
    BY <1>2, <2>1 DEF PrepareElsewhere
  <2>2. CASE SubmitElsewhere(a)
    <3>1. /\ a \in astray' /\ \A c \in Attempts \ {a} : phase'[c] = phase[c]
          /\ \A c \in Attempts \ {a} : accepted'[c] = accepted[c] /\ inflight'[c] = inflight[c]
      BY <1>0, <2>2 DEF SubmitElsewhere
    <3> QED
      BY <1>5, <3>1
  <2>3. CASE HearElsewhere(a)
    BY <1>3, <1>4, <2>3 DEF HearElsewhere
  <2>4. CASE Decide(a)
    BY <1>0, <2>4 DEF Decide, Remote!AcceptJob
  <2>5. CASE Finish(a)
    BY <1>1, <2>5 DEF Finish
  <2> QED
    BY <1>9, <2>1, <2>2, <2>3, <2>4, <2>5 DEF Elsewhere
<1>10. \/ UNCHANGED <<phase, accepted, inflight>>
       \/ \E r \in Calls : PrepareRemote(r) \/ IssueSbatch(r) \/ HearFromSbatch(r)
       \/ \E a \in Attempts : Elsewhere(a)
  <2>1. ASSUME NEW r \in Calls, Silent(r)
        PROVE  UNCHANGED remote \/ PrepareRemote(r) \/ IssueSbatch(r) \/ HearFromSbatch(r)
    BY <2>1 DEF Silent, Arrive, ReadBinding, ReadRemoteState, RereadRemoteState, Reserve, ListActive,
                RefreshRecord, SubmitNotStarted, Confirm, LookUp, MonitorJob, Crash
  <2>2. ASSUME NEW r \in Calls,
               \/ Register(r) \/ ReserveAgain(r) \/ StoreScheduler(r) \/ ReleaseReservation(r)
               \/ RecordPrepared(r) \/ RecordState(r) \/ StoreRefreshed(r) \/ RecordLookup(r)
        PROVE  UNCHANGED <<phase, accepted, inflight>>
    BY <2>2 DEF Register, ReserveAgain, StoreScheduler, ReleaseReservation, RecordPrepared, RecordState,
                StoreRefreshed, RecordLookup
  <2>3. Tick \/ UNCHANGED vars => UNCHANGED remote
    BY DEF Tick, vars
  <2> QED
    BY <2>1, <2>2, <2>3, StepsOfCalls
<1> QED
  BY <1>1, <1>6, <1>7, <1>8, <1>9, <1>10

\* A reservation is let go only where nothing is committed.
LEMMA JobsStayReserved ==
    ASSUME LedgerInv, LimitsInv, [Next]_vars, Lasting
    PROVE  CommittedIsReserved'
<1>1. ASSUME NEW b \in Attempts \ astray'
      PROVE  (Busy(b)' => Committed(b)') /\ (Committed(b)' => b \in Taking')
  <2>1. b \notin astray /\ b \in Attempts
    BY StraysStay
  <2>2. (Busy(b) => Committed(b)) /\ (Committed(b) => b \in Taking)
    BY <2>1, CommittedAreTaken DEF LimitsInv, CommittedIsReserved, Busy, Committed
  <2>3. RemoteMove(b)
    BY RemoteMovesOnly
  <2>4. b \in Taking => b \in Taking' \/ (~Committed(b) /\ ~Committed(b)')
    BY DEF Lasting, LetGo, Committed
  <2> QED
    BY <2>2, <2>3, <2>4 DEF RemoteMove
<1>2. \A a : a \in Taking' <=> IsTaken(a)'
  BY DEF Taking, IsTaken, Bound
<1> QED
  BY <1>1, <1>2 DEF CommittedIsReserved, Busy, Committed

LEMMA LimitsInvIsInductive ==
    ASSUME LedgerInv, LimitsInv, [Next]_vars
    PROVE  LimitsInv'
<1>1. Monotone
  BY NextIsSafe
<1>2. RecordsAreTimed' /\ LiveWithinCap' /\ ReservationsWithinCap' /\ Lasting
  BY <1>1, LimitStep, ReservationsAreKept, RegistrationsAreNot, ReservationsHaveRoom
<1>3. IsFiniteSet(Bound)' /\ NewAttemptsWithinCap'
  <2>1. CreationInv
    BY DEF LimitsInv, CreationInv, RecordsAreTimed, WindowsAreRespected
  <2> QED
    BY <2>1, CreationInvIsInductive DEF CreationInv
<1>4. SubmittersAreReserved'
  BY <1>2, SubmittersStayReserved
<1>5. CommittedIsReserved'
  BY <1>2, JobsStayReserved
<1> QED
  BY <1>2, <1>3, <1>4, <1>5 DEF LimitsInv, WindowsAreRespected

LEMMA InitLimitsInv == Init => LimitsInv
<1> SUFFICES ASSUME Init PROVE LimitsInv
  OBVIOUS
<1>1. Bound = {} /\ MaxActive \in Nat /\ MaxSubmissions \in Nat
  BY PolicyAssumption DEF Init, Bound
<1>2. CreationInv
  BY InitCreationInv
<1>3. Live = {} /\ \A t \in Times : ReservedIn(t) = {}
  BY <1>1 DEF Live, ReservedIn
<1>4. LiveWithinCap /\ ReservationsWithinCap
  BY <1>1, <1>3, FS_EmptySet, ReservationsByWindow DEF LiveWithinCap, Live
<1>5. CommittedIsReserved
  BY DEF Init, Remote!LifecycleInit, CommittedIsReserved
<1>6. SubmittersAreReserved
  BY DEF Init, Idle, SubmittersAreReserved
<1>7. RecordsAreTimed
  BY <1>1 DEF RecordsAreTimed
<1> QED
  BY <1>2, <1>4, <1>5, <1>6, <1>7 DEF LimitsInv, CreationInv, WindowsAreRespected

\* The ledger's reservations follow what happens on POWER, whatever calls interleave, fail
\* unanswered or die, and whatever SLURM refuses: the invariant behind the limits, of every
\* attempt but those whose state was misread or misjudged, that a browser submitted, or
\* whose reservation was given back while another call submitted by it.
THEOREM LimitsAreSafe == Spec => []LimitsInv
<1>1. LedgerInv /\ LimitsInv /\ [Next]_vars => LimitsInv'
  BY LimitsInvIsInductive
<1> QED
  BY <1>1, InitLimitsInv, LedgerIsSafe, PTL DEF Spec

\* Of no attempt that is not astray does a job run, or may an sbatch still become one, that
\* the ledger does not count.
THEOREM JobsAreOnTheLedger == Spec => []JobsAreCounted
<1>1. LimitsInv => JobsAreCounted
  BY DEF LimitsInv, CommittedIsReserved, JobsAreCounted, IsTaken
<1> QED
  BY <1>1, LimitsAreSafe, PTL

\* Never do more jobs run on POWER, of attempts that are not astray, than the policy allows
\* to be active.
THEOREM JobsAreLimited == Spec => []RunningWithinCap
<1>1. LimitsInv => RunningWithinCap
  <2> SUFFICES ASSUME LimitsInv PROVE RunningWithinCap
    OBVIOUS
  <2>1. (Running \ astray) \subseteq Live /\ Live \subseteq Bound
    BY CommittedAreTaken, TakenAreBound DEF Running, Live, IsTaken
  <2>2. IsFiniteSet(Live) /\ Cardinality(Live) <= MaxActive
    BY <2>1, FS_Subset DEF LimitsInv, LiveWithinCap, Live
  <2> QED
    BY <2>1, <2>2, NoMore, PolicyAssumption DEF RunningWithinCap
<1> QED
  BY <1>1, LimitsAreSafe, PTL

\* In no window are more attempts registered than the policy allows, or more submissions
\* reserved of attempts that are not astray.
THEOREM WindowsAreLimited == Spec => []WindowsAreRespected
<1>1. LimitsInv => WindowsAreRespected
  BY DEF LimitsInv
<1> QED
  BY <1>1, LimitsAreSafe, PTL

=============================================================================
