-------------------------- MODULE MachineApi_proofs --------------------------
(***************************************************************************)
(* Proofs about MachineApi, for any requests, tokens files, versions and   *)
(* number of upgrades, and whatever the planner makes of a request: what   *)
(* it submits is what was planned, and a retry is recognised.              *)
(*                                                                         *)
(* A record never changes what it is bound to, and what was prepared stays *)
(* prepared (Kept); so a call need only know that it fits when it becomes  *)
(* bound, and when it has read or written the state on POWER.              *)
(***************************************************************************)
EXTENDS MachineApi, MachineExecution_proofs

USE DEF Go, GoSeeing, At, Return, Store, remote

-----------------------------------------------------------------------------
(* The steps of the machine API are steps of MachineExecution.             *)

LEMMA CallsStep ==
    ASSUME NEW r \in Calls,
           \/ ArriveFrom(r) \/ BindAttempt(r) \/ RegisterAttempt(r) \/ ReadRemoteAttempt(r)
           \/ PrepareAttempt(r) \/ LookUpAttempt(r) \/ GoOn(r)
    PROVE  Next
<1>1. CASE ArriveFrom(r)
  BY <1>1 DEF ArriveFrom, Next
<1>2. CASE BindAttempt(r)
  BY <1>2 DEF BindAttempt, Next, Put
<1>3. CASE RegisterAttempt(r)
  BY <1>3 DEF RegisterAttempt, Next, Put
<1>4. CASE ReadRemoteAttempt(r)
  BY <1>4 DEF ReadRemoteAttempt, Next, Put
<1>5. CASE PrepareAttempt(r)
  BY <1>5 DEF PrepareAttempt, Next, Put
<1>6. CASE LookUpAttempt(r)
  BY <1>6 DEF LookUpAttempt, Next, Get
<1>7. CASE GoOn(r)
  BY <1>7 DEF GoOn, Next, Put, Get
<1> QED
  BY <1>1, <1>2, <1>3, <1>4, <1>5, <1>6, <1>7

LEMMA ApiStepIsStep == [ApiNext]_apiVars => [Next]_vars
<1> SUFFICES ASSUME [ApiNext]_apiVars PROVE [Next]_vars
  OBVIOUS
<1>1. CASE UNCHANGED apiVars
  BY <1>1 DEF apiVars
<1>2. ASSUME NEW a \in Attempts, PrepareInBrowser(a) \/ SubmitInBrowser(a) PROVE Next
  BY <1>2 DEF PrepareInBrowser, SubmitInBrowser, Next
<1>3. CASE GoOnElsewhere
  BY <1>3 DEF GoOnElsewhere, Next
<1>4. CASE Upgrade \/ Restart
  BY <1>4 DEF Upgrade, Restart
<1> QED
  BY <1>1, <1>2, <1>3, <1>4, CallsStep DEF ApiNext

\* The machine API is a part of the behaviour of MachineExecution, as it is defined: each
\* of its steps says which of the service's answers a request gets.
LEMMA ApiImplementsService == ApiSpec => Spec
<1>1. ApiInit => Init
  BY DEF ApiInit
<1> QED
  BY <1>1, ApiStepIsStep, PTL DEF ApiSpec, Spec

-----------------------------------------------------------------------------
(* What a step keeps.                                                      *)

\* Who has a request to submit admitted is one of those who may.
LEMMA SubmittersSubmit ==
    ASSUME NEW q \in AdmittedRequests, q.kind = "submit"
    PROVE  q.principal \in Submitters
<1>1. PICK f \in TokenFiles, p \in Requests : \E e \in Admitted(f, p) :
        q = [kind |-> p.kind, principal |-> e.principal, body |-> p.body, expected |-> p.expected]
  BY DEF AdmittedRequests
<1>2. PICK e \in Admitted(f, p) :
        q = [kind |-> p.kind, principal |-> e.principal, body |-> p.body, expected |-> p.expected]
  BY <1>1
<1>3. /\ e \in load_token_entries(f)
      /\ e.scopes \cap ScopeOf("submit") # {}
  BY <1>2 DEF Admitted, authenticate
<1>4. "submit" \in e.scopes
  BY <1>3 DEF ScopeOf
<1> QED
  BY <1>2, <1>3, <1>4 DEF Submitters

Domains ==
    /\ DOMAIN ask = Calls /\ DOMAIN plan = Calls
    /\ DOMAIN bound = Attempts /\ DOMAIN prepared = Attempts

\* What an attempt is bound to, and what was prepared for it, stays.
Kept ==
    /\ Bound \subseteq Bound'
    /\ \A a \in Bound : bound'[a] = bound[a]
    /\ \A a \in Attempts : prepared[a].ours => prepared'[a].ours

\* A call that does nothing still fits.
LEMMA OthersFit ==
    ASSUME ApiInv, Kept, NEW q \in Calls,
           call'[q] = call[q], ask'[q] = ask[q], plan'[q] = plan[q]
    PROVE  CallFits(q)'
<1>1. CallFits(q) /\ CallIsInformed(call[q])
  BY DEF ApiInv, LedgerInv, CallsAreInformed
<1>2. IsBound(call[q]) => call[q].att \in Bound /\ call[q].att \in Attempts
  BY <1>1 DEF CallIsInformed, CallFits, IsBound, Bound
<1>3. IsMatched(call[q]) => IsBound(call[q])
  BY DEF IsMatched
<1> QED
  BY <1>1, <1>2, <1>3 DEF CallFits, Kept

\* Attempts still fit after a step that neither binds, nor prepares, nor commits one.
LEMMA AttemptsStay ==
    ASSUME ApiInv, Bound' = Bound, UNCHANGED <<bound, prepared>>,
           \A a \in Attempts : prepared[a].ours /\ phase'[a] \in {"committed", "recorded"} =>
                phase[a] \in {"committed", "recorded"}
    PROVE  \A a \in Attempts : AttemptFits(a)'
BY DEF ApiInv, AttemptFits

-----------------------------------------------------------------------------
(* The steps of a request.                                                 *)

\* What a step must do to what a request relies on, and to the attempts.
StepFits(r) ==
    /\ Domains' /\ Kept
    /\ \A q \in Calls \ {r} : call'[q] = call[q] /\ ask'[q] = ask[q] /\ plan'[q] = plan[q]
    /\ CallFits(r)'
    /\ \A a \in Attempts : AttemptFits(a)'

LEMMA StepKeepsInv ==
    ASSUME ApiInv, NEW r \in Calls, StepFits(r), LedgerInv'
    PROVE  ApiInv'
BY OthersFit DEF ApiInv, StepFits, Domains

\* What is known of a request and its attempt before a step.
LEMMA CallKnown ==
    ASSUME ApiInv, NEW r \in Calls
    PROVE  /\ call \in [Calls -> CallRecords] /\ call[r] \in CallRecords
           /\ CallIsInformed(call[r]) /\ CallFits(r) /\ Domains
           /\ ledger \in [Attempts -> Records \cup {None}]
           /\ phase \in [Attempts -> Remote!Phases]
           /\ IsBound(call[r]) => call[r].att \in Bound
BY DEF ApiInv, LedgerInv, TypeOK, CallsAreInformed, Domains, CallIsInformed, CallFits, IsBound

\* A request that ended relies on nothing.
LEMMA EndedFits ==
    ASSUME NEW r \in Calls, call'[r] = Idle
    PROVE  CallFits(r)'
BY DEF CallFits, Idle, IsBound, IsMatched, IsReserved

\* Where a step that neither arrives nor binds takes a request.
GoesOn(r) ==
    /\ \A q \in Calls \ {r} : call'[q] = call[q]
    /\ \/ call'[r] = Idle
       \/ LET c == call[r]  d == call'[r] IN
          /\ c.pc # "idle" /\ d.pc # "idle" /\ d.att = c.att /\ d.kind = c.kind
          /\ d.pc # "register"
          /\ d.pc \notin {"scheduler", "store_scheduler"} =>
                (d.kind = "get" <=> d.pc \in {"look_up", "record_lookup"})
          /\ IsBound(d) => IsBound(c)
          /\ IsMatched(d) => prepared[c.att].ours
          /\ IsReserved(d) => d.kind = "submit"

\* Such a step keeps what the request relies on.
LEMMA GoesOnFits ==
    ASSUME ApiInv, Kept, NEW r \in Calls, GoesOn(r), Settle(r)
    PROVE  CallFits(r)'
<1>1. CASE call'[r] = Idle
  BY <1>1, EndedFits
<1>2. CASE call'[r] # Idle
  <2>1. ask' = ask /\ plan' = plan
    BY <1>2 DEF GoesOn, Settle
  <2>2. IsBound(call'[r]) =>
            /\ call[r].att \in Bound /\ call[r].att \in Attempts
            /\ call'[r].att = call[r].att
    BY <1>2, CallKnown DEF GoesOn, Bound
  <2>3. IsMatched(call'[r]) => IsBound(call'[r])
    BY DEF IsMatched
  <2> QED
    BY <1>2, <2>1, <2>2, <2>3, CallKnown DEF GoesOn, CallFits, Kept
<1> QED
  BY <1>1, <1>2

\* A step of the rest of a request that it does not end.
LEMMA ReturnGoesOn ==
    ASSUME ApiInv, NEW r \in Calls, NEW x, Return(r, x)
    PROVE  GoesOn(r)
BY CallKnown DEF GoesOn

\* In the refreshing loop only the step, and what is read of the other record, changes.
LEMMA RefreshGoesOn ==
    ASSUME ApiInv, NEW r \in Calls, RefreshRecord(r)
    PROVE  GoesOn(r)
<1>1. PICK step \in {"reserve_again", "refresh", "refresh_record", "scheduler"} :
        /\ \A q \in Calls \ {r} : call'[q] = call[q]
        /\ call'[r].pc = step /\ call'[r].att = call[r].att /\ call'[r].kind = call[r].kind
  <2>1. call \in [Calls -> CallRecords] /\ call[r].pc = "refresh"
    BY CallKnown DEF RefreshRecord
  <2>2. CASE Go(r, "reserve_again")
    BY <2>1, <2>2 DEF CallRecords
  <2>3. ASSUME NEW item, call' = [call EXCEPT ![r].todo = @ \ {item}]
        PROVE  /\ \A q \in Calls \ {r} : call'[q] = call[q]
               /\ call'[r].pc = "refresh" /\ call'[r].att = call[r].att
               /\ call'[r].kind = call[r].kind
    BY <2>1, <2>3 DEF CallRecords
  <2>4. ASSUME NEW item, NEW x, NEW step \in {"refresh_record", "scheduler"},
               call' = [call EXCEPT ![r].pc = step, ![r].todo = @ \ {item},
                                    ![r].other = item[1], ![r].seen = x]
        PROVE  /\ \A q \in Calls \ {r} : call'[q] = call[q]
               /\ call'[r].pc = step /\ call'[r].att = call[r].att
               /\ call'[r].kind = call[r].kind
    BY <2>1, <2>4 DEF CallRecords
  <2>5. ASSUME NEW item \in call[r].todo,
               \/ call' = [call EXCEPT ![r].todo = @ \ {item}]
               \/ call' = [call EXCEPT ![r].pc = "refresh_record", ![r].todo = @ \ {item},
                                       ![r].other = item[1], ![r].seen = "recorded"]
               \/ call' = [call EXCEPT ![r].pc = "scheduler", ![r].todo = @ \ {item},
                                       ![r].other = item[1], ![r].seen = None]
        PROVE  \E step \in {"reserve_again", "refresh", "refresh_record", "scheduler"} :
                  /\ \A q \in Calls \ {r} : call'[q] = call[q]
                  /\ call'[r].pc = step /\ call'[r].att = call[r].att
                  /\ call'[r].kind = call[r].kind
    BY <2>3, <2>4, <2>5
  <2>6. \/ Go(r, "reserve_again")
        \/ \E item \in call[r].todo :
             \/ call' = [call EXCEPT ![r].todo = @ \ {item}]
             \/ call' = [call EXCEPT ![r].pc = "refresh_record", ![r].todo = @ \ {item},
                                     ![r].other = item[1], ![r].seen = "recorded"]
             \/ call' = [call EXCEPT ![r].pc = "scheduler", ![r].todo = @ \ {item},
                                     ![r].other = item[1], ![r].seen = None]
    BY Zenon DEF RefreshRecord
  <2> QED
    BY <2>2, <2>5, <2>6
<1>2. call[r].pc = "refresh" /\ CallFits(r)
  BY CallKnown DEF RefreshRecord
<1>3. /\ call[r].kind = "submit" /\ IsBound(call[r]) /\ prepared[call[r].att].ours
  BY <1>2 DEF CallFits, IsBound, IsMatched, IsReserved
<1> QED
  BY <1>1, <1>2, <1>3 DEF GoesOn

LEMMA GoOnCalls ==
    ASSUME ApiInv, NEW r \in Calls, GoOn(r)
    PROVE  GoesOn(r)
<1> USE CallKnown DEF GoesOn, CallRecords, CallFits, IsBound, IsMatched, IsReserved
<1>1. CASE RecordPrepared(r)
  BY <1>1 DEF RecordPrepared
<1>2. CASE RecordState(r) \/ ReleaseReservation(r) \/ Crash(r)
  BY <1>2 DEF RecordState, ReleaseReservation, Crash
<1>3. CASE Reserve(r) \/ ListActive(r)
  BY <1>3 DEF Reserve, ListActive
<1>4. CASE RefreshRecord(r)
  BY <1>4, RefreshGoesOn
<1>5. CASE StoreRefreshed(r) \/ ReserveAgain(r)
  BY <1>5 DEF StoreRefreshed, ReserveAgain
<1>6. CASE SubmitNotStarted(r) \/ IssueSbatch(r)
  BY <1>6 DEF SubmitNotStarted, IssueSbatch
<1>7. CASE HearFromSbatch(r) \/ Confirm(r)
  BY <1>7 DEF HearFromSbatch, Confirm
<1>8. CASE RecordLookup(r)
  BY <1>8 DEF RecordLookup
<1>9. CASE MonitorJob(r) \/ StoreScheduler(r)
  BY <1>9 DEF MonitorJob, StoreScheduler
<1> QED
  BY <1>1, <1>2, <1>3, <1>4, <1>5, <1>6, <1>7, <1>8, <1>9 DEF GoOn

-----------------------------------------------------------------------------
(* What a step does to the attempts.                                       *)

\* The rest of a request binds no attempt,
LEMMA GoOnBinds ==
    ASSUME ApiInv, NEW r \in Calls, GoOn(r)
    PROVE  Bound' = Bound
<1>1. /\ ledger \in [Attempts -> Records \cup {None}]
      /\ CallIsInformed(call[r]) /\ None \notin Records
  BY CallKnown, NoneAssumption
<1>2. /\ LedgerInv' /\ Bound \subseteq Bound'
      /\ ledger' \in [Attempts -> Records \cup {None}]
  BY ApiStepIsStep, LedgerInvIsInductive, NextIsSafe, CallsStep
  DEF ApiInv, Monotone, LedgerInv, TypeOK
<1>3. ASSUME NEW b \in Bound, NEW x, Store(b, x) PROVE Bound' = Bound
  BY <1>1, <1>2, <1>3 DEF Bound
<1>4. CASE UNCHANGED ledger
  BY <1>4 DEF Bound
<1> USE <1>1 DEF CallIsInformed
<1>5. ASSUME call[r].pc \in {"record_prepared", "record", "release", "record_lookup", "reserve_again"}
      PROVE  call[r].att \in Bound
  BY <1>5
<1>6. ASSUME call[r].pc \in {"refresh_record", "store_scheduler"} PROVE call[r].other \in Bound
  BY <1>6
<1>7. CASE RecordPrepared(r)
  BY <1>3, <1>5, <1>7 DEF RecordPrepared
<1>8. CASE RecordState(r)
  BY <1>3, <1>5, <1>8 DEF RecordState
<1>11. CASE ReleaseReservation(r)
  BY <1>3, <1>5, <1>11 DEF ReleaseReservation
<1>12. CASE StoreRefreshed(r)
  BY <1>3, <1>6, <1>12 DEF StoreRefreshed
<1>13. CASE ReserveAgain(r)
  BY <1>3, <1>4, <1>5, <1>13 DEF ReserveAgain
<1>14. CASE StoreScheduler(r)
  BY <1>3, <1>6, <1>14 DEF StoreScheduler
<1>15. CASE RecordLookup(r)
  BY <1>3, <1>5, <1>15 DEF RecordLookup
<1>9. CASE Reserve(r) \/ ListActive(r) \/ RefreshRecord(r) \/ MonitorJob(r) \/ Crash(r) \/ Confirm(r)
  BY <1>4, <1>9 DEF Reserve, ListActive, RefreshRecord, MonitorJob, Crash, Confirm
<1>10. CASE SubmitNotStarted(r) \/ IssueSbatch(r) \/ HearFromSbatch(r)
  BY <1>4, <1>10 DEF SubmitNotStarted, IssueSbatch, HearFromSbatch
<1> QED
  BY <1>2, <1>7, <1>8, <1>9, <1>10, <1>11, <1>12, <1>13, <1>14, <1>15 DEF GoOn

\* and commits none but the one it has a reservation for.
LEMMA GoOnCommits ==
    ASSUME ApiInv, NEW r \in Calls, GoOn(r), NEW a \in Attempts,
           phase'[a] \in {"committed", "recorded"}
    PROVE  \/ phase[a] \in {"committed", "recorded"}
           \/ a = call[r].att /\ IsReserved(call[r])
<1>1. CASE UNCHANGED phase
  BY <1>1
<1>2. CASE IssueSbatch(r)
  <2>1. /\ phase[call[r].att] = "prepared"
        /\ phase' = [phase EXCEPT ![call[r].att] = "committed"] /\ call[r].pc = "submit"
    BY <1>2 DEF IssueSbatch, Remote!Commit, Remote!Move
  <2>2. IsReserved(call[r])
    BY <2>1, CallKnown DEF CallFits, IsReserved, IsMatched, IsBound
  <2> QED
    BY <2>1, <2>2, CallKnown
<1>3. CASE HearFromSbatch(r)
  <2>1. phase' = phase \/ \E x : phase' = [phase EXCEPT ![call[r].att] = x]
    BY <1>3 DEF HearFromSbatch, RecordAnyway, Remote!Record, Remote!Refuse, Remote!Move
  <2>2. IsReserved(call[r])
    BY <1>3, CallKnown DEF HearFromSbatch, CallFits, IsReserved, IsMatched, IsBound
  <2> QED
    BY <2>1, <2>2, CallKnown
<1> QED
  BY <1>1, <1>2, <1>3 DEF GoOn, RecordPrepared, RecordState, ReleaseReservation, StoreRefreshed,
     ReserveAgain, StoreScheduler, RecordLookup, Reserve, ListActive, RefreshRecord, MonitorJob,
     Crash, Confirm, SubmitNotStarted

-----------------------------------------------------------------------------
(* The inductive invariant.                                                *)

LEMMA GoOnFits ==
    ASSUME ApiInv, NEW r \in Calls, GoOn(r)
    PROVE  StepFits(r)
<1>1. GoesOn(r) /\ Settle(r) /\ UNCHANGED <<bound, prepared>>
  BY GoOnCalls DEF GoOn
<1>2. Bound' = Bound
  BY GoOnBinds
<1>3. Kept /\ Domains'
  BY <1>1, <1>2, CallKnown DEF Kept, Domains, Settle
<1>4. ASSUME NEW a \in Attempts PROVE AttemptFits(a)'
  <2>1. AttemptFits(a) /\ CallFits(r)
    BY DEF ApiInv
  <2>2. CASE phase'[a] \in {"committed", "recorded"} => phase[a] \in {"committed", "recorded"}
    BY <1>1, <1>2, <2>1, <2>2 DEF AttemptFits
  <2>3. CASE a = call[r].att /\ IsReserved(call[r])
    <3>1. /\ ask[r] \in AdmittedRequests /\ ask[r].kind = "submit"
          /\ ask[r].principal = bound[a].principal /\ prepared[a].ours
      BY <2>1, <2>3 DEF CallFits, IsReserved, IsMatched, IsBound
    <3> QED
      BY <1>1, <1>2, <2>1, <3>1, SubmittersSubmit DEF AttemptFits
  <2> QED
    BY <2>2, <2>3, GoOnCommits
<1>5. CallFits(r)'
  BY <1>1, <1>3, GoesOnFits
<1> QED
  BY <1>1, <1>3, <1>4, <1>5 DEF StepFits, GoesOn, Settle

LEMMA ReadRemoteCalls ==
    ASSUME ApiInv, NEW r \in Calls, ReadRemoteAttempt(r) \/ LookUpAttempt(r)
    PROVE  GoesOn(r)
<1> USE CallKnown DEF GoesOn, CallRecords, CallFits, IsBound, IsMatched, IsReserved
<1>1. CASE LookUpAttempt(r)
  BY <1>1 DEF LookUpAttempt, LookUp
<1>2. CASE ReadRemoteAttempt(r)
  <2>1. call[r].pc \in {"read_remote", "reread_remote"} /\ FollowAsRead(r)
    BY <1>2 DEF ReadRemoteAttempt, ReadRemoteState, RereadRemoteState
  <2>2. CASE \E x : Return(r, x)
    BY <2>2
  <2>3. CASE Go(r, "prepare_remote")
    BY <2>1, <2>3
  <2>4. ASSUME NEW step \in {"record_prepared", "record"}, NEW x, GoSeeing(r, step, x),
               x # "absent"
        PROVE  GoesOn(r)
    BY <2>1, <2>4 DEF FollowAsRead, StateMatches
  <2> QED
    BY <1>2, <2>2, <2>3, <2>4 DEF ReadRemoteAttempt, ReadRemoteState, RereadRemoteState, FollowState
<1> QED
  BY <1>1, <1>2

LEMMA ReadRemoteFits ==
    ASSUME ApiInv, NEW r \in Calls, ReadRemoteAttempt(r) \/ LookUpAttempt(r)
    PROVE  StepFits(r)
<1>1. /\ Settle(r) /\ UNCHANGED <<bound, prepared, ledger, phase>>
  BY DEF ReadRemoteAttempt, LookUpAttempt, ReadRemoteState, RereadRemoteState, LookUp
<1>2. GoesOn(r)
  BY ReadRemoteCalls
<1>3. Kept /\ Domains' /\ Bound' = Bound
  BY <1>1, CallKnown DEF Kept, Domains, Settle, Bound
<1>4. \A a \in Attempts : AttemptFits(a)'
  BY <1>1, <1>3, AttemptsStay
<1>5. CallFits(r)'
  BY <1>2, <1>1, <1>3, GoesOnFits
<1> QED
  BY <1>1, <1>2, <1>3, <1>4, <1>5 DEF StepFits, GoesOn, Settle

LEMMA ArriveFits ==
    ASSUME ApiInv, NEW r \in Calls, ArriveFrom(r)
    PROVE  StepFits(r)
<1>1. /\ UNCHANGED <<plan, bound, prepared, ledger, phase>>
      /\ \E a \in Attempts, kind \in {"prepare", "submit", "get"} :
            call' = [call EXCEPT ![r] = [Idle EXCEPT !.att = a, !.kind = kind,
                        !.pc = IF kind = "get" THEN "look_up" ELSE "bind"]]
  BY PolicyAssumption DEF ArriveFrom, Arrive
<1>2. PICK q \in AdmittedRequests : call'[r].kind = q.kind /\ ask' = [ask EXCEPT ![r] = q]
  BY DEF ArriveFrom
<1>3. /\ \A x \in Calls \ {r} : call'[x] = call[x]
      /\ call'[r].pc = IF call'[r].kind = "get" THEN "look_up" ELSE "bind"
  BY <1>1, CallKnown DEF Idle
<1>4. Kept /\ Domains' /\ Bound' = Bound
  BY <1>1, <1>2, CallKnown DEF Kept, Domains, Bound
<1>5. \A a \in Attempts : AttemptFits(a)'
  BY <1>1, <1>4, AttemptsStay
<1>6. ask'[r] = q /\ \A x \in Calls \ {r} : ask'[x] = ask[x]
  BY <1>2, CallKnown DEF Domains
<1>7. CallFits(r)'
  BY <1>2, <1>3, <1>6 DEF CallFits, IsBound, IsMatched, IsReserved
<1> QED
  BY <1>1, <1>3, <1>4, <1>5, <1>6, <1>7 DEF StepFits

LEMMA BindFits ==
    ASSUME ApiInv, NEW r \in Calls, BindAttempt(r)
    PROVE  StepFits(r)
<1>1. UNCHANGED <<bound, prepared, ledger, phase>> /\ call[r].pc = "bind"
  BY DEF BindAttempt, ReadBinding
<1>2. PICK p : /\ call'[r].pc # "idle" => Fits(r, p)
               /\ IF call'[r].pc = "idle" THEN Settle(r)
                  ELSE plan' = [plan EXCEPT ![r] = p] /\ UNCHANGED ask
  BY DEF BindAttempt
<1>3. /\ \A x \in Calls \ {r} : call'[x] = call[x]
      /\ \/ call'[r] = Idle
         \/ /\ call'[r].att = call[r].att /\ call'[r].kind = call[r].kind
            /\ \/ call'[r].pc = "read_remote" /\ call[r].att \in Bound
               \/ call'[r].pc = "register"
  BY CallKnown DEF BindAttempt, ReadBinding, CallRecords, Bound, CallIsInformed
<1>4. /\ Domains' /\ Bound' = Bound
      /\ \A x \in Calls \ {r} : ask'[x] = ask[x] /\ plan'[x] = plan[x]
  BY <1>1, <1>2, CallKnown DEF Domains, Bound, Settle
<1>5. Kept /\ \A a \in Attempts : AttemptFits(a)'
  BY <1>1, <1>4, AttemptsStay DEF Kept
<1>6. CallFits(r)'
  <2>1. CASE call'[r] = Idle
    BY <2>1, EndedFits
  <2>2. CASE call'[r] # Idle
    <3>1. Fits(r, p) /\ plan'[r] = p /\ ask' = ask
      BY <1>2, <1>3, <2>2, CallKnown DEF Domains
    <3>2. /\ ask[r] \in AdmittedRequests /\ ask[r].kind = call[r].kind /\ call[r].kind # "get"
      BY <1>1, CallKnown DEF CallFits
    <3>3. /\ WithinLimits(p) /\ compute_plan_digest(p) = ask[r].expected
          /\ call[r].att \in Bound =>
                /\ ask[r].principal = bound[call[r].att].principal
                /\ compute_plan_digest(p) = bound[call[r].att].digest
      BY <3>1 DEF Fits, SamePlan
    <3> QED
      BY <1>1, <1>3, <2>2, <3>1, <3>2, <3>3 DEF CallFits, IsBound, IsMatched, IsReserved
  <2> QED
    BY <2>1, <2>2
<1> QED
  BY <1>3, <1>4, <1>5, <1>6 DEF StepFits

LEMMA RegisterFits ==
    ASSUME ApiInv, NEW r \in Calls, RegisterAttempt(r)
    PROVE  StepFits(r)
<1> DEFINE a == call[r].att
<1>1. /\ call[r].pc = "register" /\ a \in Attempts /\ UNCHANGED <<prepared, phase>>
      /\ WithinLimits(plan[r]) /\ compute_plan_digest(plan[r]) = ask[r].expected
      /\ ask[r] \in AdmittedRequests /\ ask[r].kind = call[r].kind /\ call[r].kind # "get"
  BY CallKnown DEF RegisterAttempt, Register, CallIsInformed, CallFits
<1>2. CASE call'[r].pc # "read_remote"
  <2>1. /\ UNCHANGED ledger
        /\ \A x \in Calls \ {r} : call'[x] = call[x]
        /\ \/ call'[r] = Idle
           \/ call'[r].pc = "bind" /\ call'[r].att = a /\ call'[r].kind = call[r].kind /\ ask' = ask
    BY <1>1, <1>2, CallKnown DEF RegisterAttempt, Register, CallRecords
  <2>2. /\ UNCHANGED bound /\ Domains' /\ Bound' = Bound
        /\ \A x \in Calls \ {r} : ask'[x] = ask[x] /\ plan'[x] = plan[x]
    BY <1>1, <1>2, <2>1, CallKnown DEF RegisterAttempt, Domains, Bound
  <2>3. Kept /\ \A b \in Attempts : AttemptFits(b)'
    BY <1>1, <2>2, AttemptsStay DEF Kept
  <2>4. CallFits(r)'
    BY <1>1, <2>1, EndedFits DEF CallFits, IsBound, IsMatched, IsReserved
  <2> QED
    BY <2>1, <2>2, <2>3, <2>4 DEF StepFits
<1>3. CASE call'[r].pc = "read_remote"
  <2>1. /\ a \notin Bound /\ Store(a, NewRecord(call[r].stamp))
        /\ call' = [call EXCEPT ![r].pc = "read_remote", ![r].stamp = None]
    BY <1>1, <1>3, CallKnown DEF RegisterAttempt, Register, TakenMeanwhile, Idle, CallRecords
  <2>2. Bound' = Bound \cup {a}
    <3>1. NewRecord(call[r].stamp) \in Records /\ None \notin Records
      BY <1>1, CallKnown, NoneAssumption
      DEF NewRecord, Records, States, Statuses, CallIsInformed, ApiInv, LedgerInv, TypeOK
    <3> QED
      BY <1>1, <2>1, <3>1, CallKnown DEF Bound
  <2>3. /\ call'[r].pc = "read_remote" /\ call'[r].att = a /\ call'[r].kind = call[r].kind
        /\ \A x \in Calls \ {r} : call'[x] = call[x]
    BY <2>1, CallKnown DEF CallRecords
  <2>4. /\ ask' = ask /\ plan' = plan /\ Domains'
        /\ \A b \in Attempts : b # a => bound'[b] = bound[b]
        /\ bound'[a] = [principal |-> ask[r].principal, request |-> ask[r].body,
                        digest |-> compute_plan_digest(plan[r]),
                        print |-> AttemptFingerprint(plan[r])]
    BY <1>1, <1>3, CallKnown DEF RegisterAttempt, Domains
  <2>5. Kept
    BY <1>1, <2>1, <2>2, <2>4 DEF Kept, Bound
  <2>6. bound'[a].digest.cpus <= MaxCpus
    BY <1>1, <2>4 DEF WithinLimits, compute_plan_digest
  <2>7. ASSUME NEW b \in Attempts PROVE AttemptFits(b)'
    BY <1>1, <2>1, <2>2, <2>4, <2>6 DEF AttemptFits, ApiInv
  <2>8. CallFits(r)'
    BY <1>1, <2>3, <2>4 DEF CallFits, IsBound, IsMatched, IsReserved
  <2> QED
    BY <2>3, <2>4, <2>5, <2>7, <2>8 DEF StepFits
<1> QED
  BY <1>2, <1>3

LEMMA PrepareFits ==
    ASSUME ApiInv, NEW r \in Calls, PrepareAttempt(r)
    PROVE  StepFits(r)
<1> DEFINE a == call[r].att
<1>1. /\ call[r].pc = "prepare_remote" /\ UNCHANGED <<ask, plan, bound, ledger>>
      /\ call' = [call EXCEPT ![r].pc = "reread_remote"]
      /\ phase' = phase \/ phase' = [phase EXCEPT ![a] = "prepared"]
  BY DEF PrepareAttempt, PrepareRemote, StartOver, Remote!Prepared, Remote!Move
<1>2. /\ a \in Bound /\ a \in Attempts /\ compute_plan_digest(plan[r]) = bound[a].digest
  BY <1>1, CallKnown DEF CallFits, IsBound, CallIsInformed, Bound
<1>3. \/ UNCHANGED prepared
      \/ /\ \A b \in Attempts \ {a} : prepared'[b] = prepared[b]
         /\ prepared'[a].ours /\ prepared'[a].digest = compute_plan_digest(plan[r])
         /\ DOMAIN prepared' = Attempts /\ phase'[a] = "prepared"
  BY <1>2, CallKnown DEF PrepareAttempt, Domains
<1>4. \A b \in Attempts : phase'[b] \in {"committed", "recorded"} =>
          phase[b] \in {"committed", "recorded"}
  BY <1>1, <1>2, CallKnown
<1>5. Kept /\ Domains' /\ Bound' = Bound
  BY <1>1, <1>2, <1>3, CallKnown DEF Kept, Domains, Bound
<1>6. ASSUME NEW b \in Attempts PROVE AttemptFits(b)'
  BY <1>1, <1>2, <1>3, <1>4, <1>5 DEF AttemptFits, ApiInv
<1>7. /\ \A q \in Calls \ {r} : call'[q] = call[q]
      /\ call'[r].pc = "reread_remote" /\ call'[r].att = a /\ call'[r].kind = call[r].kind
  BY <1>1, CallKnown DEF CallRecords
<1>8. CallFits(r)'
  BY <1>1, <1>7, CallKnown DEF CallFits, IsBound, IsMatched, IsReserved
<1> QED
  BY <1>1, <1>5, <1>6, <1>7, <1>8 DEF StepFits

\* What happens elsewhere commits nothing that this service prepared.
LEMMA EnvironmentFits ==
    ASSUME ApiInv, LedgerInv',
           \/ UNCHANGED apiVars \/ GoOnElsewhere \/ Upgrade \/ Restart
           \/ \E a \in Attempts : PrepareInBrowser(a) \/ SubmitInBrowser(a)
    PROVE  ApiInv'
<1>1. UNCHANGED <<call, ledger, ask, plan, bound, prepared>>
  BY DEF apiVars, api, vars, GoOnElsewhere, Upgrade, Restart, PrepareInBrowser, PrepareElsewhere,
         SubmitInBrowser, SubmitElsewhere, HearElsewhere, Tick, Decide, Finish
<1>2. \A a \in Attempts : prepared[a].ours /\ phase'[a] \in {"committed", "recorded"} =>
          phase[a] \in {"committed", "recorded"}
  <2>1. CASE UNCHANGED phase
    BY <2>1
  <2>2. ASSUME NEW a \in Attempts, PrepareInBrowser(a) \/ SubmitInBrowser(a)
        PROVE  \A b \in Attempts : prepared[b].ours => phase'[b] = phase[b]
    <3>1. /\ ~prepared[a].ours
          /\ \E x : phase' = [phase EXCEPT ![a] = x]
      BY <2>2 DEF PrepareInBrowser, SubmitInBrowser, PrepareElsewhere, SubmitElsewhere, HearElsewhere,
                  StartOver, Remote!Prepared, Remote!Record, Remote!Refuse, Remote!Move
    <3>2. phase \in [Attempts -> Remote!Phases]
      BY DEF ApiInv, LedgerInv, TypeOK
    <3> QED
      BY <3>1, <3>2
  <2>3. UNCHANGED phase \/ \E a \in Attempts : PrepareInBrowser(a) \/ SubmitInBrowser(a)
    BY DEF apiVars, vars, GoOnElsewhere, Upgrade, Restart, Tick, Decide, Finish, Remote!AcceptJob
  <2> QED
    BY <2>1, <2>2, <2>3
<1>3. Kept /\ Bound' = Bound /\ Domains'
  BY <1>1 DEF Kept, Bound, Domains, ApiInv
<1>4. \A a \in Attempts : AttemptFits(a)'
  BY <1>1, <1>2, <1>3, AttemptsStay
<1>5. \A q \in Calls : CallFits(q)'
  BY <1>1, <1>3, OthersFit
<1> QED
  BY <1>3, <1>4, <1>5 DEF ApiInv, Domains

\* Before any request nothing is bound, prepared or submitted.
LEMMA InitApiInv == ApiInit => ApiInv
<1> SUFFICES ASSUME ApiInit PROVE ApiInv
  OBVIOUS
<1>1. LedgerInv /\ Init
  BY InitLedgerInv DEF ApiInit
<1>2. /\ \A r \in Calls : call[r] = Idle
      /\ Bound = {}
      /\ \A a \in Attempts : phase[a] = "absent" /\ prepared[a] = NotPrepared
  BY <1>1 DEF ApiInit, Init, Bound, Remote!LifecycleInit
<1>3. ASSUME NEW r \in Calls PROVE CallFits(r)
  BY <1>2 DEF CallFits, Idle, IsBound, IsMatched, IsReserved
<1>4. ASSUME NEW a \in Attempts PROVE AttemptFits(a)
  BY <1>2 DEF AttemptFits, NotPrepared
<1> QED
  BY <1>1, <1>3, <1>4 DEF ApiInv, ApiInit

LEMMA CallsFit ==
    ASSUME ApiInv, NEW r \in Calls,
           \/ ArriveFrom(r) \/ BindAttempt(r) \/ RegisterAttempt(r) \/ ReadRemoteAttempt(r)
           \/ PrepareAttempt(r) \/ LookUpAttempt(r) \/ GoOn(r)
    PROVE  StepFits(r)
BY ArriveFits, BindFits, RegisterFits, ReadRemoteFits, PrepareFits, GoOnFits

LEMMA ApiInvIsInductive == ApiInv /\ [ApiNext]_apiVars => ApiInv'
<1> SUFFICES ASSUME ApiInv, [ApiNext]_apiVars PROVE ApiInv'
  OBVIOUS
<1>1. LedgerInv'
  BY ApiStepIsStep, LedgerInvIsInductive DEF ApiInv
<1>2. ASSUME NEW r \in Calls,
             \/ ArriveFrom(r) \/ BindAttempt(r) \/ RegisterAttempt(r) \/ ReadRemoteAttempt(r)
             \/ PrepareAttempt(r) \/ LookUpAttempt(r) \/ GoOn(r)
      PROVE  ApiInv'
  BY <1>1, <1>2, CallsFit, StepKeepsInv
<1> QED
  BY <1>1, <1>2, EnvironmentFits DEF ApiNext

LEMMA ApiIsSafe == ApiSpec => []ApiInv
BY InitApiInv, ApiInvIsInductive, PTL DEF ApiSpec

\* What is submitted is the attempt of one who may submit, within the limits, prepared from
\* the plan in its record, and the plan its request expects: execute_attempt binds, reads
\* and prepares before it reserves, and nothing that happens in between changes any of it.
THEOREM SubmissionsAreAsPlanned == ApiSpec => []SubmittedAsPlanned
<1>1. ApiInv => SubmittedAsPlanned
  <2> SUFFICES ASSUME ApiInv PROVE SubmittedAsPlanned
    OBVIOUS
  <2>1. ASSUME NEW a \in Attempts, prepared[a].ours, phase[a] \in {"committed", "recorded"}
        PROVE  /\ a \in Bound /\ bound[a].principal \in Submitters
               /\ prepared[a].digest = bound[a].digest /\ prepared[a].digest.cpus <= MaxCpus
    BY <2>1 DEF ApiInv, AttemptFits
  <2>2. ASSUME NEW r \in Calls, call[r].pc \in {"submit", "sbatch"}
        PROVE  /\ ask[r].principal = bound[call[r].att].principal
               /\ ask[r].expected = prepared[call[r].att].digest
    <3>1. IsBound(call[r]) /\ IsMatched(call[r]) /\ call[r].att \in Attempts
      BY <2>2, CallKnown DEF CallFits, IsBound, IsMatched, CallIsInformed
    <3> QED
      BY <3>1, CallKnown DEF CallFits, ApiInv, AttemptFits
  <2> QED
    BY <2>1, <2>2 DEF SubmittedAsPlanned
<1> QED
  BY <1>1, ApiIsSafe, PTL

-----------------------------------------------------------------------------
(* A retry is recognised: the plan of a request depends on nothing but the *)
(* request, the timestamp, the policies and the packages, and what a       *)
(* record is bound to is such a plan.                                      *)

\* Two plans of one request at one time are the same plan, in the versions of the service
\* that the digest of the first tells of.
LEMMA SamePlanAgain ==
    ASSUME NEW body, NEW stamp, NEW policy, NEW disk, NEW policy2, NEW disk2,
           PlanOf(body, stamp, policy, disk).spec # Bad,
           compute_plan_digest(PlanOf(body, stamp, policy, disk)).policy = policy2,
           compute_plan_digest(PlanOf(body, stamp, policy, disk)).packages = disk2.packages
    PROVE  LET p == PlanOf(body, stamp, policy, disk)
               q == PlanOf(body, stamp, policy2, disk2)
           IN  /\ q.spec # Bad /\ q.body = body
               /\ compute_plan_digest(q) = compute_plan_digest(p)
               /\ AttemptFingerprint(q) = AttemptFingerprint(p)
<1> DEFINE spec(x) == create_submission_spec(body.structure, body.name,
                          workflow_spec_from_form(body.name, body.workflow), stamp, x)
<1>1. spec(disk.packages) # Bad
  BY DEF PlanOf
<1>2. spec(disk.packages).version = disk.packages
  BY <1>1 DEF create_submission_spec, Specification
<1>3. policy = policy2 /\ disk.packages = disk2.packages
  BY <1>2 DEF PlanOf, compute_plan_digest
<1>4. spec(disk.packages) = spec(disk2.packages)
  BY <1>3
<1> QED
  BY <1>1, <1>3, <1>4 DEF PlanOf, compute_plan_digest, AttemptFingerprint

\* A plan of a request at a time, in some version of the service.
IsPlan(p, body, stamp) ==
    p.spec # Bad /\ \E policy, disk : p = PlanOf(body, stamp, policy, disk)

IsBinding(b, stamp) ==
    \E p : IsPlan(p, b.request, stamp) /\ b.digest = compute_plan_digest(p)
                                      /\ b.print = AttemptFingerprint(p)

PlansAreReal ==
    /\ \A r \in Calls : call[r].pc = "register" =>
          IsPlan(plan[r], ask[r].body, call[r].stamp)
    /\ \A a \in Bound : IsBinding(bound[a], ledger[a].stamp)

\* A record keeps its timestamp.
LEMMA StampsStay ==
    ASSUME LedgerInv, [Next]_vars
    PROVE  \A a \in Bound : ledger'[a].stamp = ledger[a].stamp
<1>1. LedgerStep /\ ledger \in [Attempts -> Records \cup {None}]
  BY NextIsSafe DEF LedgerInv, TypeOK
<1> QED
  BY <1>1 DEF LedgerStep, Advances, Bound

LEMMA PlansStayReal == ApiInv /\ PlansAreReal /\ [ApiNext]_apiVars => PlansAreReal'
<1> SUFFICES ASSUME ApiInv, PlansAreReal, [ApiNext]_apiVars PROVE PlansAreReal'
  OBVIOUS
<1>1. ASSUME Kept, Bound' = Bound PROVE \A a \in Bound' : IsBinding(bound'[a], ledger'[a].stamp)
  BY <1>1, StampsStay, ApiStepIsStep DEF PlansAreReal, Kept, ApiInv
<1>2. ASSUME NEW r \in Calls, StepFits(r), Bound' = Bound, call'[r].pc # "register"
      PROVE  PlansAreReal'
  BY <1>1, <1>2 DEF PlansAreReal, StepFits
<1>3. ASSUME NEW r \in Calls, BindAttempt(r) PROVE PlansAreReal'
  <2>1. StepFits(r) /\ UNCHANGED ledger
    BY <1>3, BindFits DEF BindAttempt, ReadBinding
  <2> DEFINE p(stamp) == PlanOf(ask[r].body, BindingStamp(r, stamp), running.policy, installed)
  <2>2. PICK stamp \in Stamps :
          /\ call'[r].pc = "register" => call'[r].stamp = stamp
          /\ call'[r].pc # "idle" => Fits(r, p(stamp))
          /\ call'[r].pc # "idle" => plan' = [plan EXCEPT ![r] = p(stamp)] /\ UNCHANGED ask
    BY <1>3 DEF BindAttempt
  <2>3. CASE call'[r].pc = "register"
    <3>1. ledger[call[r].att] = None
      BY <1>3, <2>3, CallKnown DEF BindAttempt, ReadBinding, Idle, CallRecords
    <3>2. /\ p(stamp) = PlanOf(ask[r].body, stamp, running.policy, installed)
          /\ p(stamp).spec # Bad
      BY <2>2, <2>3, <3>1 DEF BindingStamp, Fits
    <3>3. plan'[r] = p(stamp) /\ ask' = ask /\ call'[r].stamp = stamp
      BY <2>2, <2>3, CallKnown DEF Domains
    <3>4. IsPlan(plan'[r], ask'[r].body, call'[r].stamp)
      BY <3>2, <3>3 DEF IsPlan
    <3>5. \A a \in Bound' : IsBinding(bound'[a], ledger'[a].stamp)
      BY <1>1, <2>1 DEF StepFits, Bound
    <3> QED
      BY <2>1, <3>4, <3>5 DEF PlansAreReal, StepFits
  <2>4. CASE call'[r].pc # "register"
    BY <1>2, <2>1, <2>4 DEF Bound
  <2> QED
    BY <2>3, <2>4
<1>4. ASSUME NEW r \in Calls, RegisterAttempt(r) PROVE PlansAreReal'
  <2> DEFINE a == call[r].att
  <2>1. StepFits(r) /\ call[r].pc = "register" /\ a \in Attempts
        /\ IsPlan(plan[r], ask[r].body, call[r].stamp)
    BY <1>4, RegisterFits, CallKnown DEF RegisterAttempt, Register, PlansAreReal, CallIsInformed
  <2>2. CASE call'[r].pc # "read_remote"
    <3>1. UNCHANGED ledger /\ call'[r].pc # "register"
      BY <1>4, <2>1, <2>2, CallKnown DEF RegisterAttempt, Register, Idle, CallRecords
    <3> QED
      BY <1>2, <2>1, <3>1 DEF Bound
  <2>3. CASE call'[r].pc = "read_remote"
    <3>1. /\ Store(a, NewRecord(call[r].stamp))
          /\ bound' = [bound EXCEPT ![a] =
                [principal |-> ask[r].principal, request |-> ask[r].body,
                 digest |-> compute_plan_digest(plan[r]), print |-> AttemptFingerprint(plan[r])]]
      BY <1>4, <2>1, <2>3, CallKnown DEF RegisterAttempt, Register, Idle, CallRecords
    <3>2. ledger'[a].stamp = call[r].stamp /\ \A b \in Attempts \ {a} : ledger'[b] = ledger[b]
      BY <2>1, <3>1, CallKnown DEF NewRecord
    <3>3. IsBinding(bound'[a], ledger'[a].stamp)
      BY <2>1, <3>1, <3>2, CallKnown DEF Domains, IsBinding
    <3>4. ASSUME NEW b \in Bound', b # a PROVE IsBinding(bound'[b], ledger'[b].stamp)
      BY <3>1, <3>2, <3>4, CallKnown DEF Bound, Domains, PlansAreReal
    <3> QED
      BY <2>1, <2>3, <3>3, <3>4 DEF PlansAreReal, StepFits
  <2> QED
    BY <2>2, <2>3
<1>5. ASSUME NEW r \in Calls,
             \/ ArriveFrom(r) \/ ReadRemoteAttempt(r) \/ PrepareAttempt(r) \/ LookUpAttempt(r)
             \/ GoOn(r)
      PROVE  PlansAreReal'
  <2>1. StepFits(r)
    BY <1>5, CallsFit
  <2>2. Bound' = Bound
    BY <1>5, GoOnBinds DEF ArriveFrom, Arrive, ReadRemoteAttempt, ReadRemoteState, RereadRemoteState,
       PrepareAttempt, PrepareRemote, LookUpAttempt, LookUp, Bound
  <2>3. CASE ArriveFrom(r)
    <3>1. call'[r].pc # "register"
      BY <2>3, CallKnown DEF ArriveFrom, Arrive, Idle
    <3> QED
      BY <1>2, <2>1, <2>2, <3>1
  <2>4. CASE PrepareAttempt(r)
    <3>1. call'[r].pc # "register"
      BY <2>4, CallKnown DEF PrepareAttempt, PrepareRemote, CallRecords
    <3> QED
      BY <1>2, <2>1, <2>2, <3>1
  <2>5. CASE ReadRemoteAttempt(r) \/ LookUpAttempt(r) \/ GoOn(r)
    <3>1. call'[r].pc # "register"
      BY <2>5, ReadRemoteCalls, GoOnCalls DEF GoesOn, Idle
    <3> QED
      BY <1>2, <2>1, <2>2, <3>1
  <2> QED
    BY <1>5, <2>3, <2>4, <2>5
<1>6. ASSUME \/ UNCHANGED apiVars \/ GoOnElsewhere \/ Upgrade \/ Restart
             \/ \E a \in Attempts : PrepareInBrowser(a) \/ SubmitInBrowser(a)
      PROVE  PlansAreReal'
  BY <1>6 DEF PlansAreReal, Bound, apiVars, api, vars, GoOnElsewhere, Upgrade, Restart,
     PrepareInBrowser, PrepareElsewhere, SubmitInBrowser, SubmitElsewhere, HearElsewhere, Tick, Decide, Finish
<1> QED
  BY <1>3, <1>4, <1>5, <1>6 DEF ApiNext

\* A retry of the request an attempt is bound to is refused as another calculation only
\* when an upgrade changed what decides the plan: _bind_attempt plans it with the timestamp
\* of the record, and so finds the plan of the record again.
THEOREM RetriesStand == ApiSpec => RetriesAreRecognised
<1>1. ApiInit => PlansAreReal
  BY InitApiInv DEF PlansAreReal, ApiInit, Init, Idle, Bound
<1>2. ASSUME ApiInv, PlansAreReal, [ApiNext]_apiVars, NEW r \in Calls,
             call[r].pc = "bind", call'[r].pc = "idle", response'[r] = "conflict", IsRetry(r)
      PROVE  ~PlanStands(bound[call[r].att])
  <2> DEFINE a == call[r].att
  <2>1. BindAttempt(r)
    <3>1. call' # call
      BY <1>2
    <3>2. ~(UNCHANGED apiVars \/ GoOnElsewhere \/ Upgrade \/ Restart
              \/ \E b \in Attempts : PrepareInBrowser(b) \/ SubmitInBrowser(b))
      BY <3>1 DEF apiVars, vars, GoOnElsewhere, Upgrade, Restart, PrepareInBrowser,
         PrepareElsewhere, SubmitInBrowser, SubmitElsewhere, HearElsewhere, Tick, Decide, Finish
    <3>3. PICK q \in Calls :
            \/ ArriveFrom(q) \/ BindAttempt(q) \/ RegisterAttempt(q) \/ ReadRemoteAttempt(q)
            \/ PrepareAttempt(q) \/ LookUpAttempt(q) \/ GoOn(q)
      BY <1>2, <3>2 DEF ApiNext
    <3>4. q = r
      BY <1>2, <3>3, CallsFit DEF StepFits
    <3>5. ~(ArriveFrom(r) \/ RegisterAttempt(r) \/ ReadRemoteAttempt(r) \/ PrepareAttempt(r)
              \/ LookUpAttempt(r))
      BY <1>2 DEF ArriveFrom, Arrive, RegisterAttempt, Register, ReadRemoteAttempt, ReadRemoteState,
         RereadRemoteState, PrepareAttempt, PrepareRemote, LookUpAttempt, LookUp
    <3>6. ~Crash(r)
      BY <1>2 DEF Crash, ApiInv, LedgerInv, TypeOK
    <3>7. ~GoOn(r)
      BY <1>2, <3>6 DEF GoOn, RecordPrepared, RecordState, Reserve, ListActive, RefreshRecord,
         StoreRefreshed, ReserveAgain, SubmitNotStarted, IssueSbatch, HearFromSbatch, Confirm,
         ReleaseReservation, RecordLookup, MonitorJob, StoreScheduler
    <3> QED
      BY <3>3, <3>4, <3>5, <3>7
  <2>2. /\ a \in Bound /\ a \in Attempts /\ ask[r].principal = bound[a].principal
        /\ ask[r].body = bound[a].request /\ ask[r].expected = bound[a].digest
    BY <1>2 DEF IsRetry, Bound
  <2>3. PICK q : /\ \E stamp \in Stamps :
                       q = PlanOf(ask[r].body, BindingStamp(r, stamp), running.policy, installed)
                 /\ ~Fits(r, q)
    BY <1>2, <2>1 DEF BindAttempt
  <2>4. PICK p : /\ IsPlan(p, bound[a].request, ledger[a].stamp)
                 /\ bound[a].digest = compute_plan_digest(p)
                 /\ bound[a].print = AttemptFingerprint(p)
    BY <1>2, <2>2 DEF PlansAreReal, IsBinding
  <2>5. PICK policy, disk : p = PlanOf(bound[a].request, ledger[a].stamp, policy, disk)
    BY <2>4 DEF IsPlan
  <2>6. q = PlanOf(bound[a].request, ledger[a].stamp, running.policy, installed)
    BY <2>2, <2>3 DEF BindingStamp, Bound
  <2>7. SUFFICES ASSUME PlanStands(bound[a]) PROVE Fits(r, q)
    BY <2>3
  <2>8. /\ p.spec # Bad /\ compute_plan_digest(p).policy = running.policy
        /\ compute_plan_digest(p).packages = installed.packages
    BY <2>4, <2>7 DEF IsPlan, PlanStands
  <2>9. /\ q.spec # Bad /\ q.body = bound[a].request
        /\ compute_plan_digest(q) = bound[a].digest /\ AttemptFingerprint(q) = bound[a].print
    <3>1. /\ PlanOf(bound[a].request, ledger[a].stamp, policy, disk).spec # Bad
          /\ compute_plan_digest(PlanOf(bound[a].request, ledger[a].stamp, policy, disk)).policy = running.policy
          /\ compute_plan_digest(PlanOf(bound[a].request, ledger[a].stamp, policy, disk)).packages = installed.packages
      BY <2>5, <2>8
    <3>2. /\ q.spec # Bad /\ q.body = bound[a].request
          /\ compute_plan_digest(q) = compute_plan_digest(p) /\ AttemptFingerprint(q) = AttemptFingerprint(p)
      BY <2>5, <2>6, <3>1, SamePlanAgain
    <3> QED BY <2>4, <3>2
  <2>10. WithinLimits(q)
    <3>1. compute_plan_digest(q).cpus <= MaxCpus
      BY <1>2, <2>2, <2>9 DEF ApiInv, AttemptFits
    <3> QED
      BY <3>1 DEF compute_plan_digest, WithinLimits
  <2> QED
    BY <2>2, <2>9, <2>10 DEF Fits, SamePlan
<1>3. ApiInv /\ PlansAreReal /\ [ApiNext]_apiVars =>
        [\A r \in Calls :
            call[r].pc = "bind" /\ call'[r].pc = "idle" /\ response'[r] = "conflict" /\ IsRetry(r) =>
              ~PlanStands(bound[call[r].att])]_apiVars
  BY <1>2
<1> QED
  BY <1>1, <1>3, PlansStayReal, ApiIsSafe, PTL DEF ApiSpec, RetriesAreRecognised

=============================================================================
