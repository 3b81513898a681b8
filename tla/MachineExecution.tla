--------------------------- MODULE MachineExecution ---------------------------
(***************************************************************************)
(* Machine execution (compute_api/execution.py, compute_api/ledger.py):    *)
(* PUT and GET of attempts by one principal, the ledger that binds and     *)
(* counts them, and the submission attempts on POWER they lead to.         *)
(*                                                                         *)
(* A call runs between remote commands and ledger transactions; other      *)
(* calls run between any two of them.  A section under `ledger.locked()`   *)
(* is one step, because the lock is exclusive and a record is replaced     *)
(* atomically.  The attempt on POWER is that of AttemptLifecycle, which    *)
(* the protocol of RemoteAttempt implements.                               *)
(*                                                                         *)
(* Every count of the code is taken over the records of one principal, so  *)
(* one principal is modelled.  Requests whose plan, fingerprint or owner   *)
(* does not fit are refused before they touch anything ("conflict"); which *)
(* those are is said by MachineApi.                                        *)
(*                                                                         *)
(* What the ledger says of an attempt can be beside the point in three     *)
(* ways, and from then on the attempt is `astray`: its state on POWER was  *)
(* misread or misjudged, a browser submitted it, or the reservation that   *)
(* several requests share was released by one of them while another was    *)
(* submitting.  The limits are kept by all other attempts.                 *)
(***************************************************************************)
EXTENDS Integers, FiniteSets

CONSTANTS
    Calls,          \* concurrent requests to the service
    Attempts,       \* attempt UUIDs
    Kinds,          \* of the requests that arrive: a PUT without submit, with it, or a GET
    Strays,         \* those whose state on POWER may be misread, or that a browser uses
    Stamps,         \* run timestamps, to the second
    MaxActive,      \* ExecutionPolicy.max_active_jobs
    MaxSubmissions, \* ExecutionPolicy.max_submissions_per_window
    MaxNew,         \* ExecutionPolicy.max_new_attempts_per_window
    Window,         \* ExecutionPolicy.window
    MaxClock,       \* bound: the last value of the clock
    None            \* no record, no time, nothing read

ASSUME PolicyAssumption ==
    /\ MaxActive \in Nat /\ MaxSubmissions \in Nat /\ MaxNew \in Nat
    /\ Window \in Nat /\ MaxClock \in Nat
    /\ Strays \subseteq Attempts /\ Kinds \subseteq {"prepare", "submit", "get"}

VARIABLES
    call,       \* what each request is doing
    response,   \* how it last answered
    ledger,     \* attempt -> its record in the ledger
    torn,       \* the attempts whose file in the ledger was created and not written
    phase,      \* attempt -> its state on POWER
    accepted,   \* attempt -> 1 once SLURM has accepted a job for it, 0 before
    inflight,   \* attempt -> is an sbatch undecided?
    astray,     \* the attempts that the ledger may be wrong about
    finished,   \* attempt -> has SLURM shown a job of it in a state that the code
                \* takes for its end (JobMonitoring)?
    clock       \* the time, in units the window is a multiple of

remote == <<phase, accepted, inflight, astray>>
vars   == <<call, response, ledger, phase, accepted, inflight, astray, torn, finished, clock>>

Remote == INSTANCE AttemptLifecycle WITH misled <- astray

-----------------------------------------------------------------------------
(* Ledger records.                                                         *)

Times    == 0..MaxClock
States   == {"registered", "prepared", "submitted", "submission_uncertain"}
Statuses == {"not_requested", "reserved", "submitted", "uncertain", "released"}
Pending  == {"reserved", "uncertain"}
Taken    == Pending \cup {"submitted"}

Records == [state : States, status : Statuses, reserved_at : Times \cup {None},
            job : BOOLEAN, terminal : BOOLEAN, stamp : Stamps, created_at : Times]

ASSUME NoneAssumption == None \notin Records /\ None \notin Times

NewRecord(stamp) ==
    [state |-> "registered", status |-> "not_requested", reserved_at |-> None, job |-> FALSE,
     terminal |-> FALSE, stamp |-> stamp, created_at |-> clock]

Bound == {a \in Attempts : ledger[a] # None}

\* (Faulty: the API forgets an attempt whose outcome is uncertain.)
IsActiveIfCertain(a) ==
    a \in Bound /\ ledger[a].status \in {"reserved", "submitted"} /\ ~ledger[a].terminal

\* _is_active: reserved, submitted or uncertain, and not known to be finished.
IsActive(a) == a \in Bound /\ ledger[a].status \in Taken /\ ~ledger[a].terminal

\* (Faulty: a submission counts until its job has ended.)
CountsWhileActive(a) ==
    /\ IsActive(a)
    /\ ledger[a].reserved_at # None /\ ledger[a].reserved_at >= clock - Window

\* _counts_toward_window
CountsTowardWindow(a) ==
    /\ a \in Bound /\ ledger[a].status # "released"
    /\ ledger[a].reserved_at # None /\ ledger[a].reserved_at >= clock - Window

ActiveFull == Cardinality({a \in Attempts : IsActive(a)}) >= MaxActive
WindowFull == Cardinality({a \in Attempts : CountsTowardWindow(a)}) >= MaxSubmissions

\* (Faulty: a SUBMITTING state makes every record uncertain, submitted ones too.)
WithLoweredState(record, seen) ==
    CASE seen = "prepared"  -> [record EXCEPT !.state = "prepared"]
      [] seen = "committed" -> [record EXCEPT
            !.state = "submission_uncertain", !.status = "uncertain"]
      [] seen = "recorded"  -> [record EXCEPT
            !.state = "submitted", !.status = "submitted", !.job = TRUE,
            !.reserved_at = IF @ = None THEN clock ELSE @]

\* (Faulty: a PREPARED state takes a reservation back.)
WithUnreservedState(record, seen) ==
    CASE seen = "prepared"  -> [record EXCEPT !.state = "prepared",
            !.status = IF @ = "reserved" THEN "not_requested" ELSE @]
      [] seen = "committed" -> [record EXCEPT
            !.state = "submission_uncertain",
            !.status = IF @ \in {"reserved", "not_requested"} THEN "uncertain" ELSE @]
      [] seen = "recorded"  -> [record EXCEPT
            !.state = "submitted", !.status = "submitted", !.job = TRUE,
            !.reserved_at = IF @ = None THEN clock ELSE @]

\* _record_remote_state: what a state read from POWER makes of a record.
WithRemoteState(record, seen) ==
    CASE seen = "prepared"  -> [record EXCEPT !.state = "prepared"]
      [] seen = "committed" -> [record EXCEPT
            !.state = "submission_uncertain",
            !.status = IF @ \in {"reserved", "not_requested"} THEN "uncertain" ELSE @]
      [] seen = "recorded"  -> [record EXCEPT
            !.state = "submitted", !.status = "submitted", !.job = TRUE,
            !.reserved_at = IF @ = None THEN clock ELSE @]

\* One ledger transaction.
Store(a, record) == ledger' = [ledger EXCEPT ![a] = record]

-----------------------------------------------------------------------------
(* Calls: what a request keeps in its local variables.                     *)

Idle == [pc |-> "idle", att |-> None, kind |-> None, stamp |-> None, seen |-> None,
         exit |-> FALSE, other |-> None, todo |-> {}]

Go(r, step)        == call' = [call EXCEPT ![r].pc = step]
GoSeeing(r, step, x) == call' = [call EXCEPT ![r].pc = step, ![r].seen = x]
Return(r, answer)  ==
    /\ call' = [call EXCEPT ![r] = Idle]
    /\ response' = [response EXCEPT ![r] = answer]

At(r, step) == call[r].pc = step

\* A request arrives.
Arrive(r) ==
    /\ At(r, "idle")
    /\ \E a \in Attempts, kind \in Kinds :
          call' = [call EXCEPT ![r] = [Idle EXCEPT !.att = a, !.kind = kind,
                      !.pc = IF kind = "get" THEN "look_up" ELSE "bind"]]
    /\ response' = [response EXCEPT ![r] = "none"]
    /\ UNCHANGED <<ledger, remote, torn, finished, clock>>

-----------------------------------------------------------------------------
(* _bind_attempt.                                                          *)

\* A file of the ledger that cannot be read: one that was left empty or, to who reads
\* without the lock, one that another request is about to write.
Unreadable(a) ==
    /\ a \notin Bound
    /\ a \in torn \/ \E q \in Calls : At(q, "register") /\ call[q].att = a

\* Read the record without the lock, and plan with its timestamp or a new one.
ReadBinding(r) ==
    /\ At(r, "bind")
    /\ \/ call[r].att \notin torn /\ Return(r, "conflict")
       \/ Unreadable(call[r].att) /\ Return(r, "ledger_unavailable")
       \/ ledger[call[r].att] # None /\ Go(r, "read_remote") /\ UNCHANGED response
       \/ /\ ledger[call[r].att] = None /\ call[r].att \notin torn
          /\ \E t \in Stamps : call' = [call EXCEPT ![r].pc = "register", ![r].stamp = t]
          /\ UNCHANGED response
    /\ UNCHANGED <<ledger, remote, torn, finished, clock>>

\* (Faulty: only the attempt ID has to be new.)
TakenById(r) == call[r].att \in Bound

\* Another request registered the attempt, or another attempt has its timestamp.
TakenMeanwhile(r) ==
    call[r].att \in Bound \/ \E b \in Bound : ledger[b].stamp = call[r].stamp

CreatedWithin == {b \in Bound : ledger[b].created_at >= clock - Window}

\* Create the record under the lock; retry, a few times, when another request
\* was faster or another attempt has the timestamp.  All records are read, and one
\* that is torn fails the request.  The file is created first and written then: a
\* failure removes it, if it can, and a crash leaves it empty.
Register(r) ==
    LET a == call[r].att
        readable == a \in Bound \/ torn = {}
    IN
    /\ At(r, "register")
    /\ \/ /\ readable /\ TakenMeanwhile(r)
          /\ \/ call' = [call EXCEPT ![r].pc = "bind", ![r].stamp = None] /\ UNCHANGED response
             \/ Return(r, "attempt_busy")
          /\ UNCHANGED <<ledger, torn>>
       \/ /\ ~readable
          /\ Return(r, "ledger_unavailable")
          /\ UNCHANGED <<ledger, torn>>
       \/ /\ readable /\ ~TakenMeanwhile(r) /\ Cardinality(CreatedWithin) >= MaxNew
          /\ Return(r, "attempt_cap_exceeded")
          /\ UNCHANGED <<ledger, torn>>
       \/ /\ readable /\ ~TakenMeanwhile(r) /\ Cardinality(CreatedWithin) < MaxNew
          /\ Store(a, NewRecord(call[r].stamp))
          /\ call' = [call EXCEPT ![r].pc = "read_remote", ![r].stamp = None]
          /\ UNCHANGED <<response, torn>>
       \/ /\ readable /\ ~TakenMeanwhile(r) /\ Cardinality(CreatedWithin) < MaxNew
          /\ torn' \in {torn, torn \cup {a}}
          /\ \E answer \in {"ledger_unavailable", "crashed"} : Return(r, answer)
          /\ UNCHANGED ledger
    /\ UNCHANGED <<remote, finished, clock>>

-----------------------------------------------------------------------------
(* execute_attempt: read the remote state, and prepare where there is none. *)

\* What follows a state that was read: one of another calculation and a prepared
\* package of another runtime are refused, every other state is recorded.
FollowState(r, seen) ==
    \/ Return(r, "conflict")
    \/ seen = "prepared" /\ Return(r, "runtime_package_changed")
    \/ seen = "prepared" /\ GoSeeing(r, "record_prepared", seen) /\ UNCHANGED response
    \/ seen \in {"committed", "recorded"} /\ GoSeeing(r, "record", seen) /\ UNCHANGED response

\* A state file is taken to be absent where there is none, and where the exit status of
\* `test -f` is lost.
Readings(a) == IF a \in Strays THEN {phase[a], "absent"} ELSE {phase[a]}

ReadRemoteState(r) ==
    /\ At(r, "read_remote")
    /\ \/ Return(r, "remote_unavailable")
       \/ \E seen \in Readings(call[r].att) :
            \/ seen = "absent" /\ Go(r, "prepare_remote") /\ UNCHANGED response
            \/ FollowState(r, seen)
    /\ UNCHANGED <<ledger, remote, torn, finished, clock>>

\* Prepare, misreading more than once what is there, starts an attempt over that was
\* submitted.
StartOver(a) ==
    /\ a \in Strays /\ phase[a] \in {"committed", "recorded"}
    /\ phase' = [phase EXCEPT ![a] = "prepared"]
    /\ astray' = astray \cup {a}
    /\ UNCHANGED accepted

\* prepare_remote_submission, which may fail, also after it took effect; the
\* state is read again whatever it returns.
PrepareRemote(r) ==
    LET a == call[r].att IN
    /\ At(r, "prepare_remote")
    /\ Remote!Prepared(a) \/ StartOver(a) \/ UNCHANGED <<phase, accepted, astray>>
    /\ Go(r, "reread_remote")
    /\ UNCHANGED <<response, ledger, inflight, torn, finished, clock>>

RereadRemoteState(r) ==
    /\ At(r, "reread_remote")
    /\ \/ Return(r, "remote_unavailable")
       \/ \E seen \in Readings(call[r].att) :
            \/ seen = "absent" /\ Return(r, "prepare_failed")
            \/ FollowState(r, seen)
    /\ UNCHANGED <<ledger, remote, torn, finished, clock>>

\* _record_remote_state after a PREPARED state: the end of a PUT without submit.
RecordPrepared(r) ==
    LET a == call[r].att IN
    /\ At(r, "record_prepared")
    /\ Store(a, WithRemoteState(ledger[a], call[r].seen))
    /\ IF call[r].kind = "submit"
       THEN GoSeeing(r, "reserve", None) /\ UNCHANGED response
       ELSE Return(r, "prepared")
    /\ UNCHANGED <<remote, torn, finished, clock>>

\* _record_remote_state after any other: the end of a PUT.
RecordState(r) ==
    LET a == call[r].att IN
    /\ At(r, "record")
    /\ Store(a, WithRemoteState(ledger[a], call[r].seen))
    /\ Return(r, IF call[r].seen = "recorded" THEN "submitted" ELSE "submission_uncertain")
    /\ UNCHANGED <<remote, torn, finished, clock>>

-----------------------------------------------------------------------------
(* _reserve_submission.                                                    *)

\* Under the lock: a reservation that is there is used; a full count of active
\* jobs is checked against POWER first.
Reserve(r) ==
    LET a == call[r].att IN
    /\ At(r, "reserve")
    /\ \/ ledger[a].status \in Taken /\ Go(r, "submit") /\ UNCHANGED response
       \/ /\ ledger[a].status \notin Taken /\ torn # {}
          /\ Return(r, "ledger_unavailable")
       \/ /\ ledger[a].status \notin Taken /\ torn = {}
          /\ Go(r, IF ActiveFull /\ ~WindowFull THEN "list_active" ELSE "reserve_again")
          /\ UNCHANGED response
    /\ UNCHANGED <<ledger, remote, torn, finished, clock>>

\* _refresh_active_records works through the other active records as they are
\* now, without the lock: one that is pending here is recorded when POWER says it
\* is submitted, and a submitted one is monitored.
ListActive(r) ==
    LET others == {b \in Attempts \ {call[r].att} : IsActive(b)} IN
    /\ At(r, "list_active")
    /\ IF torn # {} THEN Return(r, "ledger_unavailable")
       ELSE /\ call' = [call EXCEPT ![r].pc = "refresh",
                            ![r].todo = {<<b, ledger[b].status>> : b \in others}]
            /\ UNCHANGED response
    /\ UNCHANGED <<ledger, remote, torn, finished, clock>>

RefreshRecord(r) ==
    LET go(step, item, x) ==
            call' = [call EXCEPT ![r].pc = step, ![r].todo = @ \ {item},
                                 ![r].other = item[1], ![r].seen = x]
    IN
    /\ At(r, "refresh")
    /\ \/ call[r].todo = {} /\ Go(r, "reserve_again")
       \/ \E item \in call[r].todo :
            \/ call' = [call EXCEPT ![r].todo = @ \ {item}]
            \/ /\ item[2] \in Pending /\ phase[item[1]] = "recorded"
               /\ go("refresh_record", item, "recorded")
            \/ item[2] = "submitted" /\ go("scheduler", item, None)
    /\ UNCHANGED <<response, ledger, remote, torn, finished, clock>>

StoreRefreshed(r) ==
    LET b == call[r].other IN
    /\ At(r, "refresh_record")
    /\ Store(b, WithRemoteState(ledger[b], call[r].seen))
    /\ Go(r, "scheduler")
    /\ UNCHANGED <<response, remote, torn, finished, clock>>

\* Under the lock again: decide by the counts as they are now.
ReserveAgain(r) ==
    LET a == call[r].att IN
    /\ At(r, "reserve_again")
    /\ \/ /\ ledger[a].status \in Taken
          /\ Go(r, "submit") /\ UNCHANGED <<response, ledger>>
       \/ /\ ledger[a].status \notin Taken /\ torn # {}
          /\ Return(r, "ledger_unavailable") /\ UNCHANGED ledger
       \/ /\ ledger[a].status \notin Taken /\ torn = {} /\ WindowFull
          /\ Return(r, "submission_cap_exceeded") /\ UNCHANGED ledger
       \/ /\ ledger[a].status \notin Taken /\ torn = {} /\ ~WindowFull /\ ActiveFull
          /\ Return(r, "active_job_cap_exceeded") /\ UNCHANGED ledger
       \/ /\ ledger[a].status \notin Taken /\ torn = {} /\ ~WindowFull /\ ~ActiveFull
          /\ Store(a, [ledger[a] EXCEPT !.status = "reserved", !.reserved_at = clock])
          /\ Go(r, "submit") /\ UNCHANGED response
    /\ UNCHANGED <<remote, torn, finished, clock>>

-----------------------------------------------------------------------------
(* _refresh_scheduler: monitor the job (JobMonitoring), then store what was  *)
(* seen.  A job in a state SLURM no longer tells is not known to be          *)
(* finished; a call that failed stores what the record it was given said,    *)
(* which is one of the two.                                                  *)

\* (Faulty: a job that could not be monitored counts as finished.)
MonitorJobOrGiveUp(r) ==
    /\ At(r, "scheduler")
    /\ \E seen \in {"finished", "unfinished"} : GoSeeing(r, "store_scheduler", seen)
    /\ UNCHANGED <<response, ledger, remote, torn, finished, clock>>

MonitorJob(r) ==
    /\ At(r, "scheduler")
    /\ \/ finished[call[r].other] /\ GoSeeing(r, "store_scheduler", "finished")
       \/ GoSeeing(r, "store_scheduler", "unfinished")
    /\ UNCHANGED <<response, ledger, remote, torn, finished, clock>>

StoreScheduler(r) ==
    LET b == call[r].other IN
    /\ At(r, "store_scheduler")
    /\ Store(b, [ledger[b] EXCEPT !.terminal = call[r].seen = "finished"])
    /\ IF call[r].kind = "get" THEN Return(r, ledger[b].state)
       ELSE /\ call' = [call EXCEPT ![r].pc = "refresh", ![r].other = None, ![r].seen = None]
            /\ UNCHANGED response
    /\ UNCHANGED <<remote, torn, finished, clock>>

-----------------------------------------------------------------------------
(* submit_remote_workflow, as far as AttemptLifecycle tells its steps apart; *)
(* `exit` is whether its result has an exit code.                            *)

\* It does not get as far as sbatch: no slot, no connection, the claim is held,
\* or the state is not PREPARED any more.  An exit code may be that of another
\* command, while the attempt stays PREPARED.
SubmitNotStarted(r) ==
    /\ At(r, "submit")
    /\ \E exit \in BOOLEAN : call' = [call EXCEPT ![r].pc = "confirm", ![r].exit = exit]
    /\ UNCHANGED <<response, ledger, remote, torn, finished, clock>>

\* The state is marked SUBMITTING and sbatch is issued.
IssueSbatch(r) ==
    LET a == call[r].att IN
    /\ At(r, "submit")
    /\ Remote!Commit(a)
    /\ inflight' = [inflight EXCEPT ![a] = TRUE]
    /\ Go(r, "sbatch")
    /\ UNCHANGED <<response, ledger, torn, finished, clock>>

\* A state that was put back meanwhile is written over.
RecordAnyway(a) ==
    /\ a \in astray /\ accepted[a] = 1
    /\ phase' = [phase EXCEPT ![a] = "recorded"]
    /\ UNCHANGED <<accepted, astray>>

\* sbatch answered, and the answer was written to the state file; or one of the
\* two failed, and the attempt stays SUBMITTING.  An exit status that is lost is taken
\* for a refusal, whatever SLURM decides.
HearFromSbatch(r) ==
    LET a == call[r].att IN
    /\ At(r, "sbatch")
    /\ \/ /\ ~inflight[a]
          /\ Remote!Record(a) \/ RecordAnyway(a)
          /\ Go(r, "confirm")
       \/ /\ ~inflight[a]
          /\ Remote!Refuse(a)
          /\ call' = [call EXCEPT ![r].pc = "confirm", ![r].exit = TRUE]
       \/ /\ a \in Strays
          /\ phase' = [phase EXCEPT ![a] = "prepared"]
          /\ astray' = astray \cup {a}
          /\ call' = [call EXCEPT ![r].pc = "confirm", ![r].exit = TRUE]
          /\ UNCHANGED accepted
       \/ /\ Go(r, "confirm")
          /\ UNCHANGED <<phase, accepted, astray>>
    /\ UNCHANGED <<response, ledger, inflight, torn, finished, clock>>

\* The remote state is read back.
Confirm(r) ==
    /\ At(r, "confirm")
    /\ \/ Return(r, "submission_outcome_unconfirmed")
       \/ \E seen \in Readings(call[r].att) :
            \/ seen = "absent" /\ Return(r, "remote_state_invalid")
            \/ seen = "prepared" /\ call[r].exit /\ Go(r, "release") /\ UNCHANGED response
            \/ seen = "prepared" /\ ~call[r].exit /\ Return(r, "submission_not_started")
            \/ seen \in {"committed", "recorded"} /\ GoSeeing(r, "record", seen) /\ UNCHANGED response
    /\ UNCHANGED <<ledger, remote, torn, finished, clock>>

\* Another request submits, or has submitted, by the reservation that is released.
StillUsed(r) ==
    LET a == call[r].att IN
    /\ ledger[a].status = "reserved"
    /\ phase[a] # "prepared" \/ \E q \in Calls \ {r} : At(q, "submit") /\ call[q].att = a

\* _release_reservation
ReleaseReservation(r) ==
    LET a == call[r].att IN
    /\ At(r, "release")
    /\ astray' = IF StillUsed(r) THEN astray \cup {a} ELSE astray
    /\ Store(a, [ledger[a] EXCEPT !.state = "prepared",
                    !.status = IF @ = "reserved" THEN "released" ELSE @])
    /\ Return(r, "submit_failed")
    /\ UNCHANGED <<phase, accepted, inflight, torn, finished, clock>>

-----------------------------------------------------------------------------
(* lookup_attempt.                                                         *)

LookUp(r) ==
    LET a == call[r].att IN
    /\ At(r, "look_up")
    /\ \/ ledger[a] = None /\ a \notin torn /\ Return(r, "attempt_not_found")
       \/ Unreadable(a) /\ Return(r, "ledger_unavailable")
       \/ ledger[a] # None /\ \E answer \in {"conflict", "remote_unavailable"} : Return(r, answer)
       \/ /\ ledger[a] # None
          /\ \E seen \in Readings(a) : GoSeeing(r, "record_lookup", seen)
          /\ UNCHANGED response
    /\ UNCHANGED <<ledger, remote, torn, finished, clock>>

RecordLookup(r) ==
    LET a == call[r].att
        record == IF call[r].seen = "absent" THEN ledger[a]
                  ELSE WithRemoteState(ledger[a], call[r].seen)
    IN
    /\ At(r, "record_lookup")
    /\ Store(a, record)
    /\ IF record.job
       THEN /\ call' = [call EXCEPT ![r].pc = "scheduler", ![r].other = a, ![r].seen = None]
            /\ UNCHANGED response
       ELSE Return(r, record.state)
    /\ UNCHANGED <<remote, torn, finished, clock>>

-----------------------------------------------------------------------------
(* The environment.                                                        *)

\* A browser prepares an attempt of the same ID.
PrepareElsewhere(a) ==
    /\ a \in Strays
    /\ Remote!Prepared(a) \/ StartOver(a)
    /\ UNCHANGED <<call, response, ledger, inflight, torn, finished, clock>>

\* It submits the attempt, without the ledger, and hears from sbatch.
SubmitElsewhere(a) ==
    /\ a \in Strays /\ phase[a] = "prepared"
    /\ phase' = [phase EXCEPT ![a] = "committed"]
    /\ inflight' = [inflight EXCEPT ![a] = TRUE]
    /\ astray' = astray \cup {a}
    /\ UNCHANGED <<call, response, ledger, accepted, torn, finished, clock>>

HearElsewhere(a) ==
    /\ a \in Strays \cap astray /\ ~inflight[a]
    /\ Remote!Record(a) \/ Remote!Refuse(a)
    /\ UNCHANGED <<call, response, ledger, inflight, torn, finished, clock>>

\* SLURM decides an sbatch, whoever still waits for it; of an attempt that is astray it
\* may be the second one, or its state may have been put back.
Decide(a) ==
    /\ inflight[a]
    /\ inflight' = [inflight EXCEPT ![a] = FALSE]
    /\ \/ Remote!AcceptJob(a)
       \/ a \in astray /\ accepted' = [accepted EXCEPT ![a] = 1] /\ UNCHANGED <<phase, astray>>
       \/ UNCHANGED <<phase, accepted, astray>>
    /\ UNCHANGED <<call, response, ledger, torn, finished, clock>>

Finish(a) ==
    /\ accepted[a] = 1 /\ ~finished[a]
    /\ finished' = [finished EXCEPT ![a] = TRUE]
    /\ UNCHANGED <<call, response, ledger, remote, torn, clock>>

Tick ==
    /\ clock < MaxClock
    /\ clock' = clock + 1
    /\ UNCHANGED <<call, response, ledger, remote, torn, finished>>

\* The service dies in the middle of a call.
Crash(r) ==
    /\ ~At(r, "idle")
    /\ Return(r, "crashed")
    /\ UNCHANGED <<ledger, remote, torn, finished, clock>>

-----------------------------------------------------------------------------
Init ==
    /\ call = [r \in Calls |-> Idle]
    /\ response = [r \in Calls |-> "none"]
    /\ ledger = [a \in Attempts |-> None]
    /\ Remote!LifecycleInit
    /\ inflight = [a \in Attempts |-> FALSE]
    /\ torn = {}
    /\ finished = [a \in Attempts |-> FALSE]
    /\ clock = 0

Put(r) ==
    \/ ReadBinding(r) \/ Register(r)
    \/ ReadRemoteState(r) \/ PrepareRemote(r) \/ RereadRemoteState(r)
    \/ RecordPrepared(r) \/ RecordState(r)
    \/ Reserve(r) \/ ListActive(r) \/ RefreshRecord(r) \/ StoreRefreshed(r) \/ ReserveAgain(r)
    \/ SubmitNotStarted(r) \/ IssueSbatch(r) \/ HearFromSbatch(r)
    \/ Confirm(r) \/ ReleaseReservation(r)

Get(r) == LookUp(r) \/ RecordLookup(r)

Next ==
    \/ \E r \in Calls : Arrive(r) \/ Put(r) \/ Get(r) \/ MonitorJob(r) \/ StoreScheduler(r)
                        \/ Crash(r)
    \/ \E a \in Attempts : PrepareElsewhere(a) \/ SubmitElsewhere(a) \/ HearElsewhere(a)
                           \/ Decide(a) \/ Finish(a)
    \/ Tick

Spec == Init /\ [][Next]_vars

-----------------------------------------------------------------------------
(* Properties.                                                             *)

Steps == {"idle", "bind", "register", "read_remote", "prepare_remote", "reread_remote",
          "record_prepared", "record", "reserve", "list_active", "refresh", "refresh_record",
          "reserve_again", "scheduler", "store_scheduler", "submit", "sbatch", "confirm", "release", "look_up",
          "record_lookup"}

Answers == States \cup {"none", "crashed", "conflict", "ledger_unavailable", "remote_state_invalid", "attempt_busy", "attempt_cap_exceeded",
            "attempt_not_found", "runtime_package_changed", "remote_unavailable",
            "prepare_failed", "submission_cap_exceeded", "active_job_cap_exceeded",
            "submission_outcome_unconfirmed", "submission_not_started", "submit_failed"}

CallRecords == [pc : Steps, att : Attempts \cup {None}, kind : {"prepare", "submit", "get", None},
                stamp : Stamps \cup {None},
                seen : Remote!Phases \cup {"finished", "unfinished", None},
                exit : BOOLEAN, other : Attempts \cup {None}, todo : SUBSET (Attempts \X Taken)]

\* Every variable stays within the values the code can give it.
TypeOK ==
    /\ call \in [Calls -> CallRecords]
    /\ response \in [Calls -> Answers]
    /\ ledger \in [Attempts -> Records \cup {None}]
    /\ torn \subseteq Attempts
    /\ phase \in [Attempts -> Remote!Phases]
    /\ accepted \in [Attempts -> {0, 1}]
    /\ astray \subseteq Attempts
    /\ inflight \in [Attempts -> BOOLEAN]
    /\ finished \in [Attempts -> BOOLEAN]
    /\ clock \in Times

\* "The run timestamp ... unique among ledger attempts, so attempts never share a
\* run directory" (docs/machine_api.md): what RemoteAttempt assumes as OwnDirs.
StampsAreUnique ==
    \A a, b \in Bound : a # b => ledger[a].stamp # ledger[b].stamp

\* How many of a set of attempts have their time within any one window.
WithinWindow(set, time(_), limit) ==
    \A t \in Times : Cardinality({a \in set : time(a) \in t..(t + Window)}) <= limit

\* At most 20 new attempts in any rolling 24 hours.
NewAttemptsWithinCap ==
    LET created(a) == ledger[a].created_at IN WithinWindow(Bound, created, MaxNew)

\* What the ledger says of POWER is true, also of an attempt that is astray: a submitted
\* attempt has a job, and where a job is known to be finished, SLURM has shown its end,
\* however late either was stored.
RecordsAreReal ==
    \A a \in Bound :
        /\ ledger[a].status = "submitted" => accepted[a] = 1
        /\ ledger[a].terminal => finished[a]

\* A record of a submission stays one: no reading of an older remote state, and no
\* release, takes it out of the counts again.
SubmittedIsFinal ==
    [][\A a \in Bound : ledger[a].status = "submitted" =>
            /\ ledger'[a].status = "submitted"
            /\ ledger'[a].reserved_at = ledger[a].reserved_at]_vars

\* A job that SLURM accepted, and even an sbatch it may still accept, is counted.
JobsAreCounted ==
    \A a \in Attempts \ astray : accepted[a] = 1 \/ inflight[a] =>
        a \in Bound /\ ledger[a].status \in Taken

Running == {a \in Attempts : accepted[a] = 1 /\ ~finished[a]}

\* At most 2 active jobs, by what runs on POWER.
RunningWithinCap == Cardinality(Running \ astray) <= MaxActive

\* The same of all attempts: it does not hold (MachineExecutionRefused.cfg).
AllRunningWithinCap == Cardinality(Running) <= MaxActive

\* At most 5 submissions in any rolling 24 hours, by when they were reserved.
ReservationsWithinCap ==
    LET counted == {a \in Bound \ astray : ledger[a].reserved_at # None /\ ledger[a].status # "released"}
        reserved(a) == ledger[a].reserved_at
    IN WithinWindow(counted, reserved, MaxSubmissions)

\* Both limits, whatever entered or left the windows meanwhile.
WindowsAreRespected == NewAttemptsWithinCap /\ ReservationsWithinCap

\* Claimed by docs/machine_api.md: when sbatch ran and refused the job, the
\* reservation is released.
RefusedIsReleased ==
    [][\A r \in Calls : response'[r] = "submit_failed" /\ response[r] # "submit_failed" =>
            ledger'[call[r].att].status \notin Pending]_vars

-----------------------------------------------------------------------------
(* The inductive invariant behind RecordsAreReal and SubmittedIsFinal.     *)

\* What a call relies on at each of its steps: its attempt is bound, and what it
\* has seen and will store was true when it saw it, and stays true.
CallIsInformed(c) ==
    /\ c.pc # "idle" => c.att \in Attempts
    /\ c.pc = "register" => c.stamp \in Stamps
    /\ c.pc \notin {"idle", "bind", "register", "look_up"} => c.att \in Bound
    /\ c.pc = "record_prepared" => c.seen = "prepared"
    /\ c.pc = "record" => c.seen \in {"committed", "recorded"}
    /\ c.pc = "record_lookup" => c.seen \in Remote!Phases
    /\ c.pc \in {"record", "record_lookup"} /\ c.seen = "recorded" => accepted[c.att] = 1
    /\ c.pc \in {"refresh_record", "scheduler", "store_scheduler"} => c.other \in Bound
    /\ c.pc = "refresh_record" => c.seen = "recorded" /\ accepted[c.other] = 1
    /\ c.pc = "store_scheduler" /\ c.seen = "finished" => finished[c.other]
    /\ \A item \in c.todo : item[1] \in Bound

CallsAreInformed == \A r \in Calls : CallIsInformed(call[r])

\* A submission was reserved at some time, and a job on record was accepted.
SubmittedWereReserved ==
    \A a \in Bound : ledger[a].status = "submitted" => ledger[a].reserved_at # None
RecordedWereAccepted ==
    \A a \in Attempts : phase[a] = "recorded" => accepted[a] = 1

LedgerInv ==
    /\ TypeOK
    /\ CallsAreInformed
    /\ SubmittedWereReserved
    /\ RecordedWereAccepted
    /\ StampsAreUnique
    /\ RecordsAreReal

-----------------------------------------------------------------------------
(* The inductive invariant behind the limits.                              *)

IsTaken(a) == a \in Bound /\ ledger[a].status \in Taken

\* An attempt that has a job, or an sbatch that may become one, is committed on POWER;
\* and one that is committed has a reservation.
CommittedIsReserved ==
    \A a \in Attempts \ astray :
        /\ accepted[a] = 1 \/ inflight[a] => phase[a] \in {"committed", "recorded"}
        /\ phase[a] \in {"committed", "recorded"} => IsTaken(a)

\* A call that submits has a reservation; one that saw a submission saw one of an attempt
\* that has, or, where sbatch refused it since, had.
SubmittersAreReserved ==
    \A r \in Calls : LET c == call[r] IN c.att \notin astray =>
        /\ c.pc = "submit" => IsTaken(c.att)
        /\ c.pc \in {"record", "record_lookup"} /\ c.seen = "committed" =>
              c.att \in Bound /\ ledger[c.att].status # "not_requested"

\* A reservation has its time, also after it is released, and no time is ahead.
RecordsAreTimed ==
    \A a \in Bound :
        /\ ledger[a].created_at <= clock
        /\ ledger[a].reserved_at # None => ledger[a].reserved_at <= clock
        /\ a \notin astray =>
              (ledger[a].status # "not_requested" <=> ledger[a].reserved_at # None)

\* Reservations of jobs that have not ended are within the cap, also where the ledger
\* takes an ended job for an active one.
LiveWithinCap == Cardinality({a \in Bound \ astray : IsTaken(a) /\ ~finished[a]}) <= MaxActive

LimitsInv ==
    /\ CommittedIsReserved
    /\ SubmittersAreReserved
    /\ RecordsAreTimed
    /\ IsFiniteSet(Bound)
    /\ LiveWithinCap
    /\ WindowsAreRespected

=============================================================================
