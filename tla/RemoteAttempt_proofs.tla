------------------------- MODULE RemoteAttempt_proofs -------------------------
(***************************************************************************)
(* Proofs about RemoteAttempt, for any number of requests and attempts.    *)
(*                                                                         *)
(* Exit statuses may be misread, those of `test -f` and that of sbatch.    *)
(* What that takes away is taken away from the one attempt it happened to: *)
(* the histories misreads and guessed of the attempt stand in the          *)
(* properties, and no theorem assumes that nothing is misread.             *)
(***************************************************************************)
EXTENDS RemoteAttempt, TLAPS

\* The vocabulary of the actions.
USE DEF Goto, Return, ReleaseWith, Outcome, Accept, remote, local, faults, PrepareRefusal


\* Completing a state file changes neither the state it names nor its author.
LEMMA CompletedFile ==
    ASSUME NEW f \in [Attempts -> StateFiles], NEW a \in Attempts
    PROVE  LET g == [f EXCEPT ![a].whole = TRUE] IN
           /\ g \in [Attempts -> StateFiles]
           /\ \A b \in Attempts : g[b].st = f[b].st /\ g[b].by = f[b].by
<1>1. [f[a] EXCEPT !.whole = TRUE] \in StateFiles
      /\ [f[a] EXCEPT !.whole = TRUE].st = f[a].st
      /\ [f[a] EXCEPT !.whole = TRUE].by = f[a].by
  <2>1. f[a] \in [st : States, by : Specs \cup {NoSpec}, whole : BOOLEAN]
    BY DEF StateFiles
  <2>2. QED
    BY <2>1 DEF StateFiles
<1>2. QED
  BY <1>1

\* Replacing one part of a run directory.
LEMMA ReplacedPart ==
    ASSUME NEW f \in [Dirs -> Files], NEW d \in Dirs, NEW part,
           NEW x \in Specs \cup {NoSpec, TornFile}
    PROVE  [f EXCEPT ![d][part] = x] \in [Dirs -> Files]
<1>1. [f[d] EXCEPT ![part] = x] \in Files
  BY DEF Files
<1>2. QED
  BY <1>1

-----------------------------------------------------------------------------
(* Types: the values of the variables, and who wrote what.                 *)

Typed == TypeOK /\ CallsAreWellFormed /\ StatesAreAttributed

\* What a call that has begun does, and what happens to it.
CallStep(r) == Step(r) \/ LoseConnection(r) \/ Crash(r) \/ DecideSbatch(r)

\* A step of a call keeps every variable within its values.
LEMMA StepTypeOK ==
    ASSUME Typed, NEW r \in Requests, pc[r] # "idle", CallStep(r)
    PROVE  TypeOK'
<1> DEFINE a == spec[r].att
<1>0. /\ TypeOK /\ spec[r] \in Specs /\ a \in Attempts /\ RunDir[a] \in Dirs
      /\ state[a].st # "absent" => state[a].by \in Specs
  BY ConstantsAssumption DEF Typed, CallsAreWellFormed, StatesAreAttributed, Specs
<1> HIDE DEF a
<1> USE <1>0, ConstantsAssumption DEF a, TypeOK, Steps, PrepareSteps, SubmitSteps, UploadSteps, WriteSteps,
            Results, States, Reads, Seen, Misread, Claims, ClaimIsLost
<1>1. CASE RequireRunDirectoryOwned(r)
  BY <1>1 DEF RequireRunDirectoryOwned
<1>2. CASE RequirePreparable(r)
  BY <1>2 DEF RequirePreparable
<1>3. CASE ClaimForPreparation(r)
  BY <1>3 DEF ClaimForPreparation
<1>4. CASE Upload(r)
  BY <1>4 DEF Upload, Files, Parts, PartOf, AfterUpload
<1>5. CASE UploadFails(r)
  <2>1. files' \in [Dirs -> Files]
    <3>1. \/ files' = files
          \/ files' = [files EXCEPT ![RunDir[a]][PartOf(pc[r])] = TornFile]
          \/ files' = [files EXCEPT ![RunDir[a]][PartOf(pc[r])] = spec[r]]
      BY <1>5, Zenon DEF UploadFails
    <3>2. files \in [Dirs -> Files] /\ RunDir[a] \in Dirs
      OBVIOUS
    <3>3. CASE files' = files
      BY <3>2, <3>3
    <3>4. CASE files' = [files EXCEPT ![RunDir[a]][PartOf(pc[r])] = TornFile]
      BY <3>2, <3>4, ReplacedPart, Zenon
    <3>5. CASE files' = [files EXCEPT ![RunDir[a]][PartOf(pc[r])] = spec[r]]
      BY <3>2, <3>5, ReplacedPart, Zenon
    <3>6. QED
      BY <3>1, <3>3, <3>4, <3>5
  <2>2. QED
    BY <1>5, <2>1 DEF UploadFails
<1>6. CASE RecheckState(r)
  BY <1>6 DEF RecheckState
<1>7. CASE ReadAttempt(r)
  BY <1>7 DEF ReadAttempt, Found, Specs
<1>8. CASE ClaimForSubmission(r)
  BY <1>8 DEF ClaimForSubmission
<1>9. CASE RereadUnderLock(r)
  BY <1>9 DEF RereadUnderLock
<1>10. CASE IssueSbatch(r)
  BY <1>10 DEF IssueSbatch
<1>11. CASE HearFromSbatch(r)
  <2>1. misreads' \in [Attempts -> 0..MaxMisreads] /\ guessed' \in [Attempts -> BOOLEAN]
    <3>1. CASE UNCHANGED faults
      BY <3>1
    <3>2. CASE Misread(a) /\ guessed' = [guessed EXCEPT ![a] = TRUE]
      BY <3>2
    <3> QED
      BY <1>11, <3>1, <3>2 DEF HearFromSbatch
  <2>2. QED
    BY <1>11, <2>1 DEF HearFromSbatch
<1>12. CASE LoseSbatch(r)
  BY <1>12 DEF LoseSbatch
<1>13. CASE WaitForResolution(r)
  BY <1>13 DEF WaitForResolution
<1>14. CASE WriteJobRecord(r)
  BY <1>14 DEF WriteJobRecord
<1>15. CASE OpenState(r)
  BY <1>15 DEF OpenState, StateFiles, WrittenBy
<1>16. CASE CompleteState(r)
  <2>1. state' \in [Attempts -> StateFiles]
    BY <1>16, CompletedFile, Zenon DEF CompleteState
  <2>2. QED
    BY <1>16, <2>1 DEF CompleteState
<1>17. CASE FailState(r)
  <2>1. state' \in [Attempts -> StateFiles]
    <3>1. state' = state \/ state' = [state EXCEPT ![a].whole = TRUE]
      BY <1>17, Zenon DEF FailState
    <3>2. QED
      <4>1. state \in [Attempts -> StateFiles]
        OBVIOUS
      <4>2. CASE state' = state
        BY <4>1, <4>2
      <4>3. CASE state' = [state EXCEPT ![a].whole = TRUE]
        BY <4>1, <4>3, CompletedFile, Zenon
      <4>4. QED
        BY <3>1, <4>2, <4>3
  <2>2. QED
    BY <1>17, <2>1 DEF FailState
<1>18. CASE Release(r)
  BY <1>18 DEF Release
<1>19. CASE LoseConnection(r)
  BY <1>19 DEF LoseConnection
<1>20. CASE Crash(r)
  BY <1>20 DEF Crash
<1>21. CASE DecideSbatch(r)
  BY <1>21 DEF DecideSbatch
<1>22. QED
  BY <1>1, <1>2, <1>3, <1>4, <1>5, <1>6, <1>7, <1>8, <1>9, <1>10, <1>11, <1>12, <1>13, <1>14,
     <1>15, <1>16, <1>17, <1>18, <1>19, <1>20, <1>21 DEF CallStep, Step, PrepareStep, SubmitStep, WriteStep


\* A step of a call keeps calls and state files attributed to specifications.
LEMMA StepAttributed ==
    ASSUME Typed, NEW r \in Requests, pc[r] # "idle", CallStep(r)
    PROVE  CallsAreWellFormed' /\ StatesAreAttributed'
<1> DEFINE a == spec[r].att
<1>0. /\ TypeOK /\ CallsAreWellFormed /\ StatesAreAttributed
      /\ spec[r] \in Specs /\ a \in Attempts
  BY DEF Typed, CallsAreWellFormed, Specs
<1> HIDE DEF a
<1> USE <1>0 DEF a, TypeOK, CallsAreWellFormed, StatesAreAttributed, UploadSteps, WriteSteps, Reads
<1>1. CASE RequireRunDirectoryOwned(r)
  BY <1>1 DEF RequireRunDirectoryOwned
<1>2. CASE RequirePreparable(r)
  BY <1>2 DEF RequirePreparable
<1>3. CASE ClaimForPreparation(r)
  BY <1>3 DEF ClaimForPreparation
<1>4. CASE Upload(r)
  BY <1>4 DEF Upload, AfterUpload
<1>5. CASE UploadFails(r)
  BY <1>5 DEF UploadFails
<1>6. CASE RecheckState(r)
  BY <1>6 DEF RecheckState
<1>7. CASE ReadAttempt(r)
  BY <1>7 DEF ReadAttempt, Found, Specs, States
<1>8. CASE ClaimForSubmission(r)
  BY <1>8 DEF ClaimForSubmission
<1>9. CASE RereadUnderLock(r)
  BY <1>9 DEF RereadUnderLock
<1>10. CASE IssueSbatch(r)
  BY <1>10 DEF IssueSbatch
<1>11. CASE HearFromSbatch(r)
  BY <1>11 DEF HearFromSbatch
<1>12. CASE LoseSbatch(r)
  BY <1>12 DEF LoseSbatch
<1>13. CASE WaitForResolution(r)
  BY <1>13 DEF WaitForResolution
<1>14. CASE WriteJobRecord(r)
  BY <1>14 DEF WriteJobRecord
<1>15. CASE OpenState(r)
  BY <1>15 DEF OpenState, StateFiles, WrittenBy
<1>16. CASE CompleteState(r)
  BY <1>16 DEF CompleteState, StateFiles
<1>17. CASE FailState(r)
  <2>1. StatesAreAttributed'
    <3>1. state' = state \/ state' = [state EXCEPT ![a].whole = TRUE]
      BY <1>17, Zenon DEF FailState
    <3>2. QED
      <4>1. state \in [Attempts -> StateFiles]
        OBVIOUS
      <4>2. CASE state' = state
        BY <4>1, <4>2
      <4>3. CASE state' = [state EXCEPT ![a].whole = TRUE]
        <5>1. \A b \in Attempts : state'[b].st = state[b].st /\ state'[b].by = state[b].by
          BY <4>1, <4>3, CompletedFile, Zenon
        <5>2. QED
          BY <5>1
      <4>4. QED
        BY <3>1, <4>2, <4>3
  <2>2. CallsAreWellFormed'
    BY <1>17 DEF FailState
  <2>3. QED
    BY <2>1, <2>2
<1>18. CASE Release(r)
  BY <1>18 DEF Release
<1>19. CASE LoseConnection(r)
  BY <1>19 DEF LoseConnection
<1>20. CASE Crash(r)
  BY <1>20 DEF Crash
<1>21. CASE DecideSbatch(r)
  BY <1>21 DEF DecideSbatch
<1>22. QED
  BY <1>1, <1>2, <1>3, <1>4, <1>5, <1>6, <1>7, <1>8, <1>9, <1>10, <1>11, <1>12, <1>13, <1>14,
     <1>15, <1>16, <1>17, <1>18, <1>19, <1>20, <1>21 DEF CallStep, Step, PrepareStep, SubmitStep, WriteStep

\* A call that takes a step has begun.
LEMMA StepsHaveBegun ==
    ASSUME NEW r \in Requests, CallStep(r)
    PROVE  pc[r] # "idle"
BY DEF CallStep, Step, PrepareStep, SubmitStep, WriteStep, RequireRunDirectoryOwned,
       RequirePreparable, ClaimForPreparation, Upload, UploadFails, RecheckState, ReadAttempt,
       ClaimForSubmission, RereadUnderLock, IssueSbatch, HearFromSbatch, LoseSbatch,
       WaitForResolution, WriteJobRecord, OpenState, CompleteState, FailState, Release,
       LoseConnection, Crash, DecideSbatch, UploadSteps, WriteSteps

\* What a step can be.
LEMMA NextCases ==
    ASSUME [Next]_vars
    PROVE  \/ \E r \in Requests : pc[r] # "idle" /\ CallStep(r)
           \/ \E r \in Requests, s \in Specs :
                 Begin(r, s, "owner_check") \/ Begin(r, s, "submit_read")
           \/ \E a \in Attempts : DecideOrphan(a)
           \/ UNCHANGED vars
BY StepsHaveBegun DEF Next, CallStep, BeginPrepare, BeginSubmit

LEMMA TypedInit == ASSUME Init PROVE Typed
BY ConstantsAssumption DEF Init, Typed, TypeOK, CallsAreWellFormed, StatesAreAttributed, Steps,
   Results, StateFiles, States, Files

LEMMA TypedNext == ASSUME Typed, [Next]_vars PROVE Typed'
<1>1. CASE \E r \in Requests : pc[r] # "idle" /\ CallStep(r)
  BY <1>1, StepTypeOK, StepAttributed DEF Typed
<1>2. CASE \E r \in Requests, s \in Specs :
             Begin(r, s, "owner_check") \/ Begin(r, s, "submit_read")
  BY <1>2 DEF Begin, Typed, TypeOK, CallsAreWellFormed, StatesAreAttributed, Steps,
     PrepareSteps, SubmitSteps, Results, WriteSteps
<1>3. CASE \E a \in Attempts : DecideOrphan(a)
  BY <1>3 DEF DecideOrphan, Typed, TypeOK, CallsAreWellFormed, StatesAreAttributed
<1>4. CASE UNCHANGED vars
  BY <1>4 DEF vars, Typed, TypeOK, CallsAreWellFormed, StatesAreAttributed
<1>5. QED
  BY <1>1, <1>2, <1>3, <1>4, NextCases

\* Every variable keeps to its type, whatever fails or dies.
THEOREM TypeCorrect == Spec => []TypeOK
<1>1. Typed => TypeOK
  BY DEF Typed
<1>2. QED
  BY <1>1, TypedInit, TypedNext, PTL DEF Spec

-----------------------------------------------------------------------------
(* Answers and records.                                                    *)

\* A state file that is completed or given up still names the same state.
LEMMA CompletionKeepsStates ==
    ASSUME TypeOK, NEW r \in Requests, spec[r].att \in Attempts, CompleteState(r) \/ FailState(r)
    PROVE  /\ state' \in [Attempts -> StateFiles]
           /\ \A b \in Attempts : state'[b].st = state[b].st /\ state'[b].by = state[b].by
<1>1. state \in [Attempts -> StateFiles]
  BY DEF TypeOK
<1>2. state' = state \/ state' = [state EXCEPT ![spec[r].att].whole = TRUE]
  BY Zenon DEF CompleteState, FailState
<1>3. CASE state' = state
  BY <1>1, <1>3
<1>4. CASE state' = [state EXCEPT ![spec[r].att].whole = TRUE]
  BY <1>1, <1>4, CompletedFile, Zenon
<1>5. QED
  BY <1>2, <1>3, <1>4
Known == JobsAreReal /\ JobsAreKnown

LEMMA KnownStep ==
    ASSUME Typed, Known, NEW r \in Requests, pc[r] # "idle", CallStep(r)
    PROVE  Known'
<1> DEFINE a == spec[r].att
<1>0. /\ TypeOK /\ CallsAreWellFormed /\ Known
      /\ spec[r] \in Specs /\ a \in Attempts
      /\ \A q \in Requests : spec[q] \in Specs => spec[q].att \in Attempts
  BY DEF Typed, CallsAreWellFormed, Specs
<1>states. StatesAreAttributed
  BY DEF Typed
<1> HIDE DEF a
<1> USE <1>0 DEF a, TypeOK, CallsAreWellFormed, Known, JobsAreReal, JobsAreKnown
<1>1. CASE RequireRunDirectoryOwned(r)
  BY <1>1 DEF RequireRunDirectoryOwned
<1>2. CASE RequirePreparable(r)
  BY <1>2 DEF RequirePreparable
<1>3. CASE ClaimForPreparation(r)
  BY <1>3 DEF ClaimForPreparation
<1>4. CASE Upload(r)
  BY <1>4 DEF Upload, AfterUpload, UploadSteps
<1>5. CASE UploadFails(r)
  BY <1>5 DEF UploadFails, UploadSteps
<1>6. CASE RecheckState(r)
  BY <1>6 DEF RecheckState
<1>7. CASE ReadAttempt(r)
  <2>1. \A q \in Requests : spec[q] \in Specs => spec'[q].att = spec[q].att
    BY <1>7 DEF ReadAttempt, Specs
  <2>2. /\ pc[r] = "submit_read" /\ UNCHANGED <<answer, state, records, jobs>>
        /\ \A q \in Requests : q # r => pc'[q] = pc[q] /\ result'[q] = result[q]
        /\ pc'[r] \in {"idle", "wait", "submit_claim"}
        /\ result'[r] = "job" => result[r] = "job" \/ state[a].st = "SUBMITTED"
    BY <1>7 DEF ReadAttempt, Reads, Found, States
  <2> QED
    BY <2>1, <2>2
<1>8. CASE ClaimForSubmission(r)
  BY <1>8 DEF ClaimForSubmission
<1>9. CASE RereadUnderLock(r)
  <2>1. /\ UNCHANGED <<answer, state, records, jobs, spec>>
        /\ \A q \in Requests : q # r => pc'[q] = pc[q] /\ result'[q] = result[q]
        /\ pc'[r] \in {"idle", "release", "mark"}
        /\ result'[r] = "job" => result[r] = "job" \/ state[a].st = "SUBMITTED"
    BY <1>9 DEF RereadUnderLock, Reads, Found, States
  <2> QED
    BY <2>1
<1>10. CASE IssueSbatch(r)
  BY <1>10 DEF IssueSbatch
<1>11. CASE HearFromSbatch(r)
  BY <1>11 DEF HearFromSbatch
<1>12. CASE LoseSbatch(r)
  BY <1>12 DEF LoseSbatch
<1>13. CASE WaitForResolution(r)
  BY <1>13 DEF WaitForResolution, Found, States
<1>14. CASE WriteJobRecord(r)
  BY <1>14 DEF WriteJobRecord
<1>15. CASE OpenState(r)
  BY <1>15 DEF OpenState, StateFiles, WrittenBy, WriteSteps
<1>16. CASE CompleteState(r)
  <2>1. \A b \in Attempts : state'[b].st = state[b].st
    BY <1>16, CompletionKeepsStates
  <2> QED
    BY <1>16, <2>1 DEF CompleteState, WriteSteps
<1>17. CASE FailState(r)
  <2>1. \A b \in Attempts : state'[b].st = state[b].st
    BY <1>17, CompletionKeepsStates
  <2> QED
    BY <1>17, <2>1 DEF FailState, WriteSteps
<1>18. CASE Release(r)
  BY <1>18 DEF Release
<1>19. CASE LoseConnection(r)
  BY <1>19 DEF LoseConnection
<1>20. CASE Crash(r)
  BY <1>20 DEF Crash
<1>21. CASE DecideSbatch(r)
  <2>1. \A b \in Attempts : jobs'[b] \in Nat /\ (jobs[b] > 0 => jobs'[b] > 0)
    BY <1>21 DEF DecideSbatch
  <2>2. UNCHANGED <<pc, spec, result, state, records>> /\ pc[r] = "await"
    BY <1>21 DEF DecideSbatch
  <2>3. JobsAreReal'
    BY <2>1, <2>2
  <2>4. JobsAreKnown'
    <3>1. answer'[r] = "accepted" => jobs'[a] > 0
      BY <1>21 DEF DecideSbatch
    <3>2. \A q \in Requests : q # r => answer'[q] = answer[q]
      BY <1>21 DEF DecideSbatch
    <3>3. \A q \in Requests : answer[q] = "accepted" => pc[q] = "await" /\ spec[q].att \in Attempts
      BY <1>0
    <3> QED
      BY <2>1, <2>2, <3>1, <3>2, <3>3
  <2> QED
    BY <2>3, <2>4
<1>22. QED
  BY <1>1, <1>2, <1>3, <1>4, <1>5, <1>6, <1>7, <1>8, <1>9, <1>10, <1>11, <1>12, <1>13,
     <1>14, <1>15, <1>16, <1>17, <1>18, <1>19, <1>20, <1>21
     DEF CallStep, Step, PrepareStep, SubmitStep, WriteStep

LEMMA KnownNext == ASSUME Typed, Known, [Next]_vars PROVE Known'
<1> USE DEF Known, JobsAreReal, JobsAreKnown
<1>1. CASE \E r \in Requests : pc[r] # "idle" /\ CallStep(r)
  BY <1>1, KnownStep
<1>2. CASE \E r \in Requests, s \in Specs :
             Begin(r, s, "owner_check") \/ Begin(r, s, "submit_read")
  BY <1>2 DEF Begin, Typed, TypeOK, CallsAreWellFormed
<1>3. CASE \E b \in Attempts : DecideOrphan(b)
  <2>1. UNCHANGED local /\ UNCHANGED <<state, records>>
    BY <1>3 DEF DecideOrphan
  <2>2. \A b \in Attempts : jobs[b] > 0 => jobs'[b] > 0
    BY <1>3 DEF DecideOrphan, Typed, TypeOK
  <2>3. \A q \in Requests : spec[q] \in Specs => spec[q].att \in Attempts
    BY DEF Specs
  <2>4. \A q \in Requests : /\ answer[q] = "accepted" => spec[q] \in Specs
                            /\ result[q] = "job" => spec[q] \in Specs
    BY DEF Typed, CallsAreWellFormed
  <2> QED
    BY <2>1, <2>2, <2>3, <2>4
<1>4. CASE UNCHANGED vars
  BY <1>4 DEF vars
<1>5. QED
  BY <1>1, <1>2, <1>3, <1>4, NextCases

\* Nothing ever stands for a job that SLURM did not take: not an answer, not a state
\* SUBMITTED and not a job record, however often an exit status is misread.
THEOREM JobsAreNeverMadeUp == Spec => []JobsAreReal
<1>1. Init => Typed /\ Known
  BY TypedInit DEF Init, Known, JobsAreReal, JobsAreKnown
<1>2. Typed /\ Known /\ [Next]_vars => (Typed /\ Known)'
  BY TypedNext, KnownNext
<1>3. Known => JobsAreReal
  BY DEF Known
<1>4. QED
  BY <1>1, <1>2, <1>3, PTL DEF Spec

-----------------------------------------------------------------------------
(* Safety.                                                                 *)

\* The conjuncts of ProtocolInv besides the types.
Safe ==
    /\ ClaimIsExclusive
    /\ PrepareIsBeforeCommit
    /\ SubmitsAreInformed
    /\ OrphansAreAlone
    /\ OneJobUnlessMisread
    /\ JobsAreMarked
    /\ Known

\* A reader sees what is there, or has misread it once more.
LEMMA ReadsAreTrue ==
    ASSUME TypeOK, NEW r \in Requests, spec[r].att \in Attempts, NEW seen, Reads(r, seen)
    PROVE  \/ seen = Found(r) /\ misreads' = misreads
           \/ seen = "absent" /\ misreads'[spec[r].att] = misreads[spec[r].att] + 1
BY DEF Reads, Misread, TypeOK

\* What was misread stays misread, and a call is misled about its own attempt only.
LEMMA FaultsGrow ==
    ASSUME Typed, NEW r \in Requests, pc[r] # "idle", CallStep(r)
    PROVE  /\ \A b \in Attempts : misreads'[b] \in Nat /\ misreads'[b] >= misreads[b]
           /\ \A b \in Attempts : Trusted(b)' => Trusted(b)
           /\ \A b \in Attempts : b # spec[r].att => Trusted(b)' = Trusted(b)
<1>1. TypeOK /\ spec[r].att \in Attempts /\ MaxMisreads \in Nat
  BY ConstantsAssumption DEF Typed, CallsAreWellFormed, Specs
<1>2. /\ misreads \in [Attempts -> Nat] /\ guessed \in [Attempts -> BOOLEAN]
      /\ misreads' \in {misreads, [misreads EXCEPT ![spec[r].att] = @ + 1]}
      /\ guessed' \in {guessed, [guessed EXCEPT ![spec[r].att] = TRUE]}
  <2>1. misreads \in [Attempts -> Nat] /\ guessed \in [Attempts -> BOOLEAN]
    BY <1>1 DEF TypeOK
  <2>2. CASE \/ RequireRunDirectoryOwned(r) \/ RequirePreparable(r) \/ RecheckState(r)
             \/ ReadAttempt(r) \/ RereadUnderLock(r) \/ HearFromSbatch(r)
    BY <2>1, <2>2, Zenon DEF RequireRunDirectoryOwned, RequirePreparable, RecheckState, ReadAttempt,
       RereadUnderLock, HearFromSbatch, Reads, Misread
  <2>3. CASE UNCHANGED faults
    BY <2>1, <2>3
  <2> QED
    BY <2>2, <2>3, Zenon
       DEF CallStep, Step, PrepareStep, SubmitStep, WriteStep, ClaimForPreparation, Upload,
           UploadFails, ClaimForSubmission, IssueSbatch, LoseSbatch, WaitForResolution,
           WriteJobRecord, OpenState, CompleteState, FailState, Release, LoseConnection, Crash,
           DecideSbatch
<1>3. QED
  BY <1>1, <1>2 DEF Trusted

LEMMA MisreadsGrow ==
    ASSUME Typed, [Next]_vars
    PROVE  /\ \A b \in Attempts : misreads[b] \in Nat /\ misreads'[b] \in Nat
           /\ \A b \in Attempts : misreads'[b] = 0 => misreads[b] = 0
           /\ \A b \in Attempts : Trusted(b)' => Trusted(b)
<1>1. \A b \in Attempts : misreads[b] \in Nat
  BY ConstantsAssumption DEF Typed, TypeOK
<1>2. CASE \E r \in Requests : pc[r] # "idle" /\ CallStep(r)
  <2>1. PICK r \in Requests : pc[r] # "idle" /\ CallStep(r)
    BY <1>2
  <2> QED
    BY <1>1, <2>1, FaultsGrow
<1>3. CASE UNCHANGED faults
  BY <1>1, <1>3 DEF Trusted
<1> QED
  BY <1>2, <1>3, NextCases DEF Begin, DecideOrphan, vars

\* A state that was read is the state of the file.
LEMMA FoundIsState ==
    ASSUME NEW r \in Requests, Found(r) \in States
    PROVE  Found(r) = state[spec[r].att].st
BY DEF Found, States

\* What a step of a call leaves alone: the other calls, and the other attempts; a call
\* that does not hold the claim changes no state file and no job at all.
LEMMA StepsStayHome ==
    ASSUME Typed, NEW r \in Requests, pc[r] # "idle", CallStep(r)
    PROVE  /\ \A q \in Requests : q # r =>
                 <<pc[q], opened[q], answer[q], result[q], spec[q]>>' =
                     <<pc[q], opened[q], answer[q], result[q], spec[q]>>
           /\ \A b \in Attempts : b # spec[r].att =>
                 /\ (state[b].st)' = state[b].st
                 /\ (jobs[b])' = jobs[b]
                 /\ (orphan[b])' = orphan[b]
           /\ pc[r] \notin UnderLock => UNCHANGED <<state, jobs, orphan>>
           /\ spec'[r].att = spec[r].att
<1>1. TypeOK /\ spec[r] \in Specs /\ spec[r].att \in Attempts
  BY DEF Typed, CallsAreWellFormed, Specs
<1> USE <1>1 DEF TypeOK
<1>2. CASE CompleteState(r) \/ FailState(r)
  <2>1. \A b \in Attempts : state'[b].st = state[b].st
    BY <1>2, CompletionKeepsStates
  <2> QED
    BY <1>2, <2>1 DEF CompleteState, FailState, UnderLock, WriteSteps
<1>3. CASE ReadAttempt(r)
  BY <1>3 DEF ReadAttempt, Specs
<1>4. CASE OpenState(r) \/ LoseSbatch(r) \/ HearFromSbatch(r) \/ DecideSbatch(r) \/ IssueSbatch(r)
  BY <1>4 DEF OpenState, LoseSbatch, HearFromSbatch, DecideSbatch, IssueSbatch, UnderLock, WriteSteps
<1>5. CASE Crash(r)
  <2>1. answer[r] # "none" => pc[r] \in UnderLock
    BY DEF Typed, CallsAreWellFormed, UnderLock
  <2>2. pc[r] \notin UnderLock => orphan' = orphan
    BY <1>5, <2>1 DEF Crash
  <2> QED
    BY <1>5, <2>2 DEF Crash
<1>6. CASE RequireRunDirectoryOwned(r)
  BY <1>6 DEF RequireRunDirectoryOwned
<1>7. CASE UploadFails(r)
  BY <1>7 DEF UploadFails
<1>8. CASE LoseConnection(r)
  BY <1>8 DEF LoseConnection
<1>9. QED
  BY <1>2, <1>3, <1>4, <1>5, <1>6, <1>7, <1>8
     DEF CallStep, Step, PrepareStep, SubmitStep, WriteStep, RequirePreparable,
         ClaimForPreparation, Upload, RecheckState, ClaimForSubmission, RereadUnderLock,
         WaitForResolution, WriteJobRecord, Release

\* The parts of it that speak of one call, and of one attempt.
Informed(q) ==
    /\ SubmitKnows(q, spec[q].att)
    /\ pc[q] # "idle" /\ Trusted(spec[q].att) => SubmitKnowsJobs(q, spec[q].att)

Before(q) ==
    /\ pc[q] \in UploadSteps \cup {"state_recheck"} =>
          state[spec[q].att].st \in {"absent", "PREPARED"} \/ misreads[spec[q].att] >= 1
    /\ pc[q] = "write_prepared" =>
          state[spec[q].att].st \in {"absent", "PREPARED"} \/ ~Trusted(spec[q].att)

Sound(b) ==
    /\ Trusted(b) /\ orphan[b] => jobs[b] = 0
    /\ Trusted(b) => jobs[b] <= 1
    /\ Trusted(b) /\ MayHoldJob(b) => state[b].st \in {"SUBMITTING", "SUBMITTED"}

LEMMA SafeByCallAndAttempt ==
    Safe <=> /\ ClaimIsExclusive /\ Known
             /\ \A q \in Requests : Informed(q) /\ Before(q)
             /\ \A b \in Attempts : Sound(b)
BY DEF Safe, PrepareIsBeforeCommit, SubmitsAreInformed, OrphansAreAlone, OneJobUnlessMisread,
       JobsAreMarked, MayHoldJob, Informed, Before, Sound

LEMMA SafeByCallAndAttemptNext ==
    Safe' <=> /\ ClaimIsExclusive' /\ Known'
              /\ \A q \in Requests : Informed(q)' /\ Before(q)'
              /\ \A b \in Attempts : Sound(b)'
BY DEF Safe, PrepareIsBeforeCommit, SubmitsAreInformed, OrphansAreAlone, OneJobUnlessMisread,
       JobsAreMarked, MayHoldJob, Informed, Before, Sound

\* What a call knows, no step that touches only another call's attempt takes away,
\* and on its own attempt the claim keeps the others out.
LEMMA OthersStayInformed ==
    ASSUME Typed, Safe, NEW r \in Requests, NEW q \in Requests, q # r,
           pc[r] # "idle", CallStep(r), pc[r] \in UnderLock
    PROVE  Informed(q)' /\ Before(q)'
<1>1. /\ <<pc[q], opened[q], answer[q], result[q], spec[q]>>' =
             <<pc[q], opened[q], answer[q], result[q], spec[q]>>
      /\ \A b \in Attempts : b # spec[r].att =>
             /\ (state[b].st)' = state[b].st
             /\ (jobs[b])' = jobs[b]
             /\ (orphan[b])' = orphan[b]
  BY StepsStayHome
<1>2. Informed(q) /\ Before(q)
  BY SafeByCallAndAttempt
<1>3. CASE pc[q] = "idle"
  BY <1>1, <1>3 DEF Informed, SubmitKnows, Before, UploadSteps
<1>4. CASE pc[q] # "idle" /\ spec[q].att = spec[r].att
  <2>1. pc[q] \notin UnderLock
    BY <1>4 DEF Safe, ClaimIsExclusive, Holds, Typed, CallsAreWellFormed, Specs
  <2>2. QED
    BY <1>1, <1>2, <2>1 DEF Informed, Before, SubmitKnows, SubmitKnowsJobs, UnderLock, UploadSteps
<1>5. CASE pc[q] # "idle" /\ spec[q].att # spec[r].att
  <2>1. spec[q].att \in Attempts /\ spec'[q].att = spec[q].att
    BY <1>1, <1>5 DEF Typed, CallsAreWellFormed, Specs
  <2>2. /\ misreads'[spec[q].att] \in Nat /\ misreads'[spec[q].att] >= misreads[spec[q].att]
        /\ misreads[spec[q].att] \in Nat
        /\ Trusted(spec[q].att)' => Trusted(spec[q].att)
    BY <1>1, <2>1, FaultsGrow, ConstantsAssumption DEF Typed, TypeOK
  <2>3. Informed(q)'
    BY <1>1, <1>2, <1>5, <2>1, <2>2 DEF Informed, SubmitKnows, SubmitKnowsJobs, MayHoldJob
  <2>4. Before(q)'
    BY <1>1, <1>2, <1>5, <2>1, <2>2 DEF Before, UploadSteps
  <2> QED
    BY <2>3, <2>4
<1> QED
  BY <1>3, <1>4, <1>5

\* The claim: who holds it has made the directory, and only who holds it removes it.
LEMMA ClaimStep ==
    ASSUME Typed, ClaimIsExclusive, NEW r \in Requests, pc[r] # "idle", CallStep(r)
    PROVE  ClaimIsExclusive'
<1> DEFINE a == spec[r].att
<1>0. /\ TypeOK /\ spec[r] \in Specs /\ a \in Attempts
      /\ \A q \in Requests : q # r => pc'[q] = pc[q] /\ spec'[q] = spec[q]
      /\ spec'[r].att = a
  BY StepsStayHome DEF Typed, CallsAreWellFormed, Specs
<1>1. \/ pc[r] \in UnderLock /\ lock' = lock
      \/ pc[r] \notin UnderLock /\ pc'[r] \notin UnderLock /\ \A b \in Attempts : lock[b] => lock'[b]
      \/ pc[r] \notin UnderLock /\ ~lock[a] /\ lock' = [lock EXCEPT ![a] = TRUE]
      \/ pc[r] = "release" /\ pc'[r] \notin UnderLock /\ lock' = [lock EXCEPT ![a] = FALSE]
  <2> USE <1>0 DEF TypeOK, UnderLock, UploadSteps, WriteSteps, Claims, ClaimIsLost
  <2>1. CASE PrepareStep(r)
    BY <2>1 DEF PrepareStep, RequireRunDirectoryOwned, RequirePreparable, ClaimForPreparation,
       Upload, UploadFails, RecheckState
  <2>2. CASE SubmitStep(r)
    BY <2>2 DEF SubmitStep, ReadAttempt, ClaimForSubmission, RereadUnderLock, IssueSbatch,
       HearFromSbatch, LoseSbatch, WaitForResolution, WriteJobRecord
  <2>3. CASE WriteStep(r)
    BY <2>3 DEF WriteStep, OpenState, CompleteState, FailState, Release
  <2>4. CASE LoseConnection(r) \/ Crash(r) \/ DecideSbatch(r)
    BY <2>4 DEF LoseConnection, Crash, DecideSbatch
  <2> QED
    BY <2>1, <2>2, <2>3, <2>4 DEF CallStep, Step
<1> HIDE DEF a
<1>2. \A q \in Requests : q # r => \A b \in Attempts : Holds(q, b)' <=> Holds(q, b)
  BY <1>0 DEF Holds
<1>3. \A b \in Attempts : (Holds(r, b)' <=> pc'[r] \in UnderLock /\ a = b)
                          /\ (Holds(r, b) <=> pc[r] \in UnderLock /\ a = b)
  BY <1>0 DEF Holds, a
<1>4. ASSUME NEW b \in Attempts, NEW p \in Requests, Holds(p, b)'
      PROVE  lock'[b] /\ \A q \in Requests : Holds(q, b)' => q = p
  <2>1. \A q \in Requests : Holds(q, b) => lock[b] /\ \A o \in Requests : Holds(o, b) => o = q
    BY DEF ClaimIsExclusive
  <2>2. CASE pc[r] \in UnderLock /\ lock' = lock
    BY <1>2, <1>3, <1>4, <2>1, <2>2
  <2>3. CASE pc[r] \notin UnderLock /\ pc'[r] \notin UnderLock /\ \A c \in Attempts : lock[c] => lock'[c]
    BY <1>2, <1>3, <1>4, <2>1, <2>3
  <2>4. CASE pc[r] \notin UnderLock /\ ~lock[a] /\ lock' = [lock EXCEPT ![a] = TRUE]
    BY <1>0, <1>2, <1>3, <1>4, <2>1, <2>4 DEF TypeOK
  <2>5. CASE pc[r] = "release" /\ pc'[r] \notin UnderLock /\ lock' = [lock EXCEPT ![a] = FALSE]
    <3>1. pc[r] \in UnderLock
      BY <2>5 DEF UnderLock
    <3>2. p # r /\ Holds(p, b) /\ b # a
      BY <1>2, <1>3, <1>4, <2>1, <2>5, <3>1
    <3>3. lock[b] /\ lock'[b] = lock[b]
      BY <1>0, <2>1, <2>5, <3>2 DEF TypeOK
    <3> QED
      BY <1>2, <1>3, <1>4, <2>1, <2>5, <3>2, <3>3
  <2> QED
    BY <1>1, <2>2, <2>3, <2>4, <2>5
<1>5. QED
  BY <1>4 DEF ClaimIsExclusive

\* A step of a call on what it knows, and on its own attempt.
LEMMA OwnStep ==
    ASSUME Typed, Safe, NEW r \in Requests, pc[r] # "idle", CallStep(r)
    PROVE  /\ Informed(r)' /\ Before(r)'
           /\ \A a \in Attempts : a = spec[r].att => Sound(a)'
<1>a. spec[r] \in Specs /\ spec[r].att \in Attempts
  BY DEF Typed, CallsAreWellFormed, Specs
<1>b. PICK a \in Attempts : a = spec[r].att
  BY <1>a
<1>0. /\ TypeOK /\ CallsAreWellFormed /\ spec[r] \in Specs /\ a \in Attempts
      /\ Informed(r) /\ Before(r) /\ Sound(a)
      /\ state[a].st = "SUBMITTED" => jobs[a] > 0
      /\ result[r] = "job" => jobs[a] > 0
      /\ answer[r] = "accepted" => jobs[a] > 0
      /\ jobs[a] \in Nat
  BY <1>a, <1>b DEF Typed, CallsAreWellFormed, Specs, Safe, SubmitsAreInformed, Informed,
     PrepareIsBeforeCommit, Before, Sound, OrphansAreAlone, OneJobUnlessMisread, JobsAreMarked,
     MayHoldJob, Known, JobsAreReal, JobsAreKnown, TypeOK
<1>grow. /\ misreads'[a] \in Nat /\ misreads[a] \in Nat /\ misreads'[a] >= misreads[a]
         /\ Trusted(a)' => Trusted(a)
  BY <1>0, ConstantsAssumption, FaultsGrow DEF TypeOK
<1>att. spec'[r].att = a
  BY <1>b, StepsStayHome
<1>sees. \A seen : Reads(r, seen) => \/ seen = Found(r) /\ misreads' = misreads
                                     \/ seen = "absent" /\ misreads'[a] = misreads[a] + 1
  BY <1>0, <1>b, ReadsAreTrue
<1>found. Found(r) \in States => Found(r) = state[a].st
  BY <1>b, FoundIsState
<1>goal. SUFFICES /\ SubmitKnows(r, a)' /\ (pc'[r] # "idle" /\ Trusted(a)' => SubmitKnowsJobs(r, a)')
                  /\ pc'[r] \in UploadSteps \cup {"state_recheck"} =>
                        state'[a].st \in {"absent", "PREPARED"} \/ misreads'[a] >= 1
                  /\ pc'[r] = "write_prepared" => state'[a].st \in {"absent", "PREPARED"} \/ ~Trusted(a)'
                  /\ Sound(a)'
  BY <1>att, <1>b DEF Informed, Before
<1> USE <1>0, <1>b, <1>grow, <1>sees, <1>found
        DEF TypeOK, CallsAreWellFormed, Informed, Before, Sound, SubmitKnows, SubmitKnowsJobs,
            MayHoldJob, UploadSteps, WriteSteps
<1>1. CASE RequireRunDirectoryOwned(r)
  <2>1. /\ pc'[r] \in {"prepare_check", "prepare_recheck", "idle", "release"}
        /\ UNCHANGED <<spec, opened, answer, state, jobs, orphan>>
    BY <1>1 DEF RequireRunDirectoryOwned
  <2>2. QED
    BY <2>1
<1>2. CASE RequirePreparable(r)
  BY <1>2 DEF RequirePreparable, States
<1>3. CASE ClaimForPreparation(r)
  BY <1>3 DEF ClaimForPreparation
<1>4. CASE Upload(r)
  BY <1>4 DEF Upload, AfterUpload
<1>5. CASE UploadFails(r)
  <2>1. pc'[r] = "release" /\ UNCHANGED <<spec, opened, answer, state, jobs, orphan>>
    BY <1>5 DEF UploadFails
  <2>2. QED
    BY <2>1
<1>6. CASE RecheckState(r)
  <2>1. PICK seen \in Seen : /\ Reads(r, seen)
                             /\ pc'[r] = "write_prepared" => seen \in {"absent", "PREPARED"}
                             /\ pc'[r] \in {"write_prepared", "release"} /\ pc[r] = "state_recheck"
                             /\ UNCHANGED <<opened, answer, state, jobs, orphan>>
    BY <1>6 DEF RecheckState
  <2>2. seen = "absent" /\ misreads'[a] = misreads[a] + 1 =>
            state[a].st \in {"absent", "PREPARED"} \/ ~Trusted(a)'
    BY <2>1 DEF Trusted
  <2>3. QED
    BY <2>1, <2>2 DEF States
<1>7. CASE ReadAttempt(r)
  <2>1. /\ pc'[r] \in {"idle", "wait", "submit_claim"}
        /\ UNCHANGED <<opened, answer, state, jobs, orphan>>
    BY <1>7 DEF ReadAttempt
  <2>2. QED
    BY <2>1
<1>8. CASE ClaimForSubmission(r)
  BY <1>8 DEF ClaimForSubmission
<1>9. CASE RereadUnderLock(r)
  BY <1>9 DEF RereadUnderLock, States
<1>10. CASE IssueSbatch(r)
  BY <1>10 DEF IssueSbatch
<1>11. CASE HearFromSbatch(r)
  <2>1. CASE answer[r] = "accepted" /\ pc'[r] = "record" /\ result'[r] = "job"
    BY <1>11, <2>1 DEF HearFromSbatch
  <2>2. CASE answer[r] = "refused" /\ pc'[r] = "revert"
    BY <1>11, <2>2 DEF HearFromSbatch
  <2>3. CASE guessed'[a] /\ pc'[r] = "revert"
    <3>1. ~Trusted(a)'
      BY <2>3 DEF Trusted
    <3>2. QED
      BY <1>11, <2>3, <3>1 DEF HearFromSbatch
  <2>4. QED
    BY <1>11, <2>1, <2>2, <2>3 DEF HearFromSbatch
<1>12. CASE LoseSbatch(r)
  BY <1>12 DEF LoseSbatch
<1>13. CASE WaitForResolution(r)
  BY <1>13 DEF WaitForResolution
<1>14. CASE WriteJobRecord(r)
  BY <1>14 DEF WriteJobRecord
<1>15. CASE OpenState(r)
  BY <1>15 DEF OpenState, StateFiles, WrittenBy
<1>16. CASE CompleteState(r)
  <2>1. state'[a].st = state[a].st
    BY <1>16, CompletionKeepsStates
  <2>2. QED
    BY <1>16, <2>1 DEF CompleteState
<1>17. CASE FailState(r)
  <2>1. state'[a].st = state[a].st
    BY <1>17, CompletionKeepsStates
  <2>2. QED
    BY <1>17, <2>1 DEF FailState
<1>18. CASE Release(r)
  BY <1>18 DEF Release
<1>19. CASE LoseConnection(r)
  <2>1. pc'[r] \in {"idle", "release"} /\ UNCHANGED <<spec, opened, answer, state, jobs, orphan>>
    BY <1>19 DEF LoseConnection
  <2>2. QED
    BY <2>1
<1>20. CASE Crash(r)
  BY <1>20 DEF Crash
<1>21. CASE DecideSbatch(r)
  BY <1>21 DEF DecideSbatch
<1>22. QED
  BY <1>1, <1>2, <1>3, <1>4, <1>5, <1>6, <1>7, <1>8, <1>9, <1>10, <1>11, <1>12, <1>13,
     <1>14, <1>15, <1>16, <1>17, <1>18, <1>19, <1>20, <1>21
     DEF CallStep, Step, PrepareStep, SubmitStep, WriteStep

\* A step of a call keeps the safety properties.
LEMMA StepSafe ==
    ASSUME Typed, Safe, NEW r \in Requests, pc[r] # "idle", CallStep(r)
    PROVE  Safe'
<1>1. ClaimIsExclusive' /\ Known'
  BY ClaimStep, KnownStep DEF Safe
<1>2. /\ Informed(r)' /\ Before(r)' /\ spec[r].att \in Attempts
      /\ \A a \in Attempts : a = spec[r].att => Sound(a)'
  BY OwnStep DEF Typed, CallsAreWellFormed, Specs
<1>3. ASSUME NEW q \in Requests, q # r
      PROVE  Informed(q)' /\ Before(q)'
  <2>1. CASE pc[r] \in UnderLock
    BY <1>3, <2>1, OthersStayInformed
  <2>2. CASE pc[r] \notin UnderLock
    <3>1. /\ UNCHANGED <<state, jobs, orphan>>
          /\ <<pc[q], opened[q], answer[q], result[q], spec[q]>>' =
                 <<pc[q], opened[q], answer[q], result[q], spec[q]>>
      BY <1>3, <2>2, StepsStayHome
    <3>2. Informed(q) /\ Before(q) /\ (pc[q] # "idle" => spec[q].att \in Attempts)
      BY DEF Safe, SubmitsAreInformed, PrepareIsBeforeCommit, Informed, Before, Typed,
         CallsAreWellFormed, Specs
    <3>3. pc[q] # "idle" => /\ misreads'[spec[q].att] >= misreads[spec[q].att]
                            /\ misreads'[spec[q].att] \in Nat /\ misreads[spec[q].att] \in Nat
                            /\ Trusted(spec[q].att)' => Trusted(spec[q].att)
      BY <3>1, <3>2, FaultsGrow, ConstantsAssumption DEF Typed, TypeOK
    <3>4. Informed(q)'
      BY <3>1, <3>2, <3>3 DEF Informed, SubmitKnows, SubmitKnowsJobs, MayHoldJob
    <3>5. Before(q)'
      BY <3>1, <3>2, <3>3 DEF Before, UploadSteps
    <3> QED
      BY <3>4, <3>5
  <2> QED
    BY <2>1, <2>2
<1>4. ASSUME NEW b \in Attempts, b # spec[r].att
      PROVE  Sound(b)'
  BY <1>4, StepsStayHome, FaultsGrow, SafeByCallAndAttempt DEF Sound, MayHoldJob
<1>5. \A b \in Attempts : Sound(b)'
  BY <1>2, <1>4
<1>6. QED
  BY <1>1, <1>2, <1>3, <1>5, SafeByCallAndAttemptNext

LEMMA SafeInit == ASSUME Init PROVE Safe
BY ConstantsAssumption
   DEF Init, Safe, ClaimIsExclusive, Holds, PrepareIsBeforeCommit, SubmitsAreInformed,
       SubmitKnows, OrphansAreAlone, OneJobUnlessMisread, JobsAreMarked, Known, JobsAreReal,
       JobsAreKnown, MayHoldJob, UnderLock, UploadSteps

LEMMA SafeNext ==
    ASSUME Typed, Safe, [Next]_vars
    PROVE  Safe'
<1>0. ClaimIsExclusive /\ Known /\ (\A q \in Requests : Informed(q) /\ Before(q))
      /\ \A b \in Attempts : Sound(b)
  BY SafeByCallAndAttempt
<1>known. Known'
  BY <1>0, KnownNext
<1>1. CASE \E r \in Requests : pc[r] # "idle" /\ CallStep(r)
  BY <1>1, StepSafe
<1>2. CASE \E r \in Requests, s \in Specs :
             Begin(r, s, "owner_check") \/ Begin(r, s, "submit_read")
  <2>1. PICK r \in Requests, s \in Specs, step \in {"owner_check", "submit_read"} :
            Begin(r, s, step)
    BY <1>2
  <2>2. /\ \A q \in Requests : q # r =>
              /\ pc'[q] = pc[q] /\ spec'[q] = spec[q] /\ result'[q] = result[q]
        /\ pc'[r] = step /\ result'[r] = "none"
        /\ UNCHANGED <<opened, answer, state, lock, records, jobs, orphan, misreads, guessed>>
    BY <2>1 DEF Begin, Typed, TypeOK
  <2>3. ClaimIsExclusive'
    BY <1>0, <2>2 DEF ClaimIsExclusive, Holds, UnderLock, UploadSteps
  <2>4. ASSUME NEW q \in Requests PROVE Informed(q)' /\ Before(q)'
    <3>1. CASE q = r
      BY <2>2, <3>1 DEF Informed, Before, SubmitKnows, SubmitKnowsJobs, UploadSteps
    <3>2. CASE q # r
      BY <1>0, <2>2, <3>2 DEF Informed, Before, SubmitKnows, SubmitKnowsJobs, MayHoldJob, Trusted,
         UploadSteps
    <3> QED
      BY <3>1, <3>2
  <2>5. ASSUME NEW b \in Attempts PROVE Sound(b)'
    BY <1>0, <2>2 DEF Sound, MayHoldJob, Trusted
  <2>6. QED
    BY <1>known, <2>3, <2>4, <2>5, SafeByCallAndAttemptNext
<1>3. CASE \E b \in Attempts : DecideOrphan(b)
  <2>1. PICK b \in Attempts : DecideOrphan(b)
    BY <1>3
  <2>2. /\ orphan[b] /\ ~orphan'[b] /\ jobs[b] \in Nat /\ jobs'[b] \in {jobs[b], jobs[b] + 1}
        /\ \A c \in Attempts : c # b => jobs'[c] = jobs[c] /\ orphan'[c] = orphan[c]
    BY <2>1 DEF DecideOrphan, Typed, TypeOK
  <2>3. UNCHANGED <<pc, spec, opened, answer, result, state, lock, records, misreads, guessed>>
    BY <2>1 DEF DecideOrphan
  <2>4. ClaimIsExclusive'
    BY <1>0, <2>3 DEF ClaimIsExclusive, Holds
  <2>5. ASSUME NEW q \in Requests PROVE Informed(q)' /\ Before(q)'
    <3>1. pc[q] # "idle" => spec[q].att \in Attempts
      BY DEF Typed, CallsAreWellFormed, Specs
    <3>2. Before(q)' /\ SubmitKnows(q, spec[q].att)'
      BY <1>0, <2>3 DEF Before, Informed, SubmitKnows, Trusted
    <3>3. ASSUME pc[q] # "idle", Trusted(spec[q].att) PROVE SubmitKnowsJobs(q, spec[q].att)'
      <4>1. SubmitKnowsJobs(q, spec[q].att)
        BY <1>0, <3>3 DEF Informed
      <4>2. CASE spec[q].att = b
        BY <2>2, <2>3, <4>1, <4>2 DEF SubmitKnowsJobs, MayHoldJob
      <4>3. CASE spec[q].att # b
        BY <2>2, <2>3, <3>1, <3>3, <4>1, <4>3 DEF SubmitKnowsJobs, MayHoldJob
      <4> QED
        BY <4>2, <4>3
    <3>4. Trusted(spec[q].att)' <=> Trusted(spec[q].att)
      BY <2>3 DEF Trusted
    <3> QED
      BY <2>3, <3>2, <3>3, <3>4 DEF Informed
  <2>6. ASSUME NEW c \in Attempts PROVE Sound(c)'
    <3>1. CASE c = b
      BY <1>0, <2>2, <2>3, <3>1 DEF Sound, MayHoldJob, Trusted
    <3>2. CASE c # b
      BY <1>0, <2>2, <2>3, <3>2 DEF Sound, MayHoldJob, Trusted
    <3> QED
      BY <3>1, <3>2
  <2>7. QED
    BY <1>known, <2>4, <2>5, <2>6, SafeByCallAndAttemptNext
<1>4. CASE UNCHANGED vars
  <2>1. UNCHANGED <<pc, spec, opened, answer, result, state, lock, records, jobs, orphan, misreads, guessed>>
    BY <1>4 DEF vars
  <2>2. ClaimIsExclusive' /\ (\A q \in Requests : Informed(q)' /\ Before(q)') /\ \A b \in Attempts : Sound(b)'
    BY <1>0, <2>1 DEF ClaimIsExclusive, Holds, Informed, Before, SubmitKnows, SubmitKnowsJobs, Sound,
       MayHoldJob, Trusted
  <2> QED
    BY <1>known, <2>2, SafeByCallAndAttemptNext
<1>5. QED
  BY <1>1, <1>2, <1>3, <1>4, NextCases

\* The whole of ProtocolInv holds ...
THEOREM ProtocolIsSafe == Spec => []ProtocolInv
<1>1. ProtocolInv <=> Typed /\ Safe
  BY DEF ProtocolInv, Typed, Safe, Known
<1>2. Init => ProtocolInv
  BY <1>1, TypedInit, SafeInit
<1>3. ProtocolInv /\ [Next]_vars => ProtocolInv'
  <2>1. (Typed /\ Safe)' => ProtocolInv'
    BY DEF ProtocolInv, Typed, Safe, Known
  <2>2. QED
    BY <1>1, <2>1, TypedNext, SafeNext
<1>4. QED
  BY <1>2, <1>3, PTL DEF Spec

\* ... and with it: an attempt whose exit statuses can be trusted never gets a second job.
THEOREM OneJobPerAttempt == Spec => []OneJobUnlessMisread
<1>1. ProtocolInv => OneJobUnlessMisread
  BY DEF ProtocolInv
<1>2. QED
  BY <1>1, ProtocolIsSafe, PTL

\* No two calls work on one attempt.
THEOREM ClaimsAreExclusive == Spec => []ClaimIsExclusive
<1>1. ProtocolInv => ClaimIsExclusive
  BY DEF ProtocolInv
<1>2. QED
  BY <1>1, ProtocolIsSafe, PTL

\* What may have become a job never looks unsubmitted again.
THEOREM JobsStayMarked == Spec => []JobsAreMarked
<1>1. ProtocolInv => JobsAreMarked
  BY DEF ProtocolInv
<1>2. QED
  BY <1>1, ProtocolIsSafe, PTL

-----------------------------------------------------------------------------
(* The frozen package.                                                     *)

\* Only the steps of a Prepare that holds the claim write to a run directory, and
\* only to that of its own attempt.
LEMMA FilesChangeInPrepare ==
    ASSUME Typed, PrepareIsBeforeCommit, [Next]_vars, files' # files
    PROVE  \E b \in Attempts :
              /\ state[b].st \in {"absent", "PREPARED"} \/ misreads[b] >= 1
              /\ \A d \in Dirs : d # RunDir[b] => files'[d] = files[d]
<1>1. PICK r \in Requests : Upload(r) \/ UploadFails(r)
  BY NextCases, ZenonT(30)
     DEF CallStep, Step, PrepareStep, SubmitStep, WriteStep, RequireRunDirectoryOwned,
         RequirePreparable, ClaimForPreparation, RecheckState, ReadAttempt, ClaimForSubmission,
         RereadUnderLock, IssueSbatch, HearFromSbatch, LoseSbatch, WaitForResolution,
         WriteJobRecord, OpenState, CompleteState, FailState, Release, LoseConnection, Crash,
         DecideSbatch, DecideOrphan, Begin, vars
<1>2. pc[r] \in UploadSteps
  BY <1>1 DEF Upload, UploadFails
<1>3. spec[r].att \in Attempts
  BY <1>2 DEF Typed, CallsAreWellFormed, Specs, UploadSteps
<1>4. state[spec[r].att].st \in {"absent", "PREPARED"} \/ misreads[spec[r].att] >= 1
  BY <1>2 DEF PrepareIsBeforeCommit
<1>5. \A d \in Dirs : d # RunDir[spec[r].att] => files'[d] = files[d]
  BY <1>1 DEF Upload, UploadFails, Typed, TypeOK
<1>6. QED
  BY <1>3, <1>4, <1>5

\* Attempts with run directories of their own: nobody replaces a file of an
\* execution package that was committed to a job.
THEOREM PackageStaysFrozen ==
    ASSUME OwnDirs
    PROVE  Spec => PackageIsFrozen
<1> DEFINE Frozen == \A a \in Attempts :
                        misreads[a] = 0 /\ state[a].st \in {"SUBMITTING", "SUBMITTED"} =>
                            files'[RunDir[a]] = files[RunDir[a]]
<1>1. ProtocolInv /\ [Next]_vars => [Frozen]_vars
  <2>1. ProtocolInv => Typed /\ PrepareIsBeforeCommit
    BY DEF ProtocolInv, Typed
  <2>2. SUFFICES ASSUME ProtocolInv, [Next]_vars, files' # files,
                        NEW a \in Attempts, misreads[a] = 0,
                        state[a].st \in {"SUBMITTING", "SUBMITTED"}
                 PROVE  files'[RunDir[a]] = files[RunDir[a]]
    OBVIOUS
  <2>3. PICK b \in Attempts : /\ state[b].st \in {"absent", "PREPARED"} \/ misreads[b] >= 1
                              /\ \A d \in Dirs : d # RunDir[b] => files'[d] = files[d]
    BY <2>1, <2>2, FilesChangeInPrepare
  <2>4. RunDir[a] # RunDir[b] /\ RunDir[a] \in Dirs
    BY <2>2, <2>3, ConstantsAssumption DEF OwnDirs
  <2>5. QED
    BY <2>3, <2>4
<1>2. QED
  BY <1>1, ProtocolIsSafe, PTL DEF Spec, PackageIsFrozen

-----------------------------------------------------------------------------
(* The package a state file is about.                                      *)

OwnUploads(r, a) ==
    /\ pc[r] \in Preparing /\ misreads[a] = 0 =>
          \A part \in UploadedBefore(pc[r]) : files[RunDir[a]][part] = spec[r]
    /\ pc[r] \in Preparing \cup Committing /\ misreads[a] = 0 =>
          state[a].st = "absent" \/ state[a].by.print = spec[r].print

Present(a) ==
    misreads[a] = 0 /\ state[a].st # "absent" =>
        \A part \in Parts :
            \/ files[RunDir[a]][part] = TornFile /\ part # "submission_json"
            \/ /\ files[RunDir[a]][part] # NoSpec /\ files[RunDir[a]][part].att = a
               /\ files[RunDir[a]][part].print = state[a].by.print

LEMMA PackageByCallAndAttempt ==
    PackageInv <=> /\ \A r \in Requests : OwnUploads(r, spec[r].att)
                   /\ \A a \in Attempts : Present(a)
BY DEF PackageInv, UploadsAreOwn, PreparedFilesArePresent, OwnUploads, Present

\* The steps that leave the uploads and what the state files are about alone.
LEMMA FilesAndStatesStay ==
    ASSUME Typed, [Next]_vars, ~\E r \in Requests : OpenState(r) \/ Upload(r) \/ UploadFails(r)
    PROVE  /\ files' = files
           /\ \A b \in Attempts : state'[b].st = state[b].st /\ state'[b].by = state[b].by
<1>1. ASSUME NEW r \in Requests, CompleteState(r) \/ FailState(r)
      PROVE  /\ files' = files
             /\ \A b \in Attempts : state'[b].st = state[b].st /\ state'[b].by = state[b].by
  <2>1. spec[r].att \in Attempts /\ files' = files
    BY <1>1 DEF Typed, CallsAreWellFormed, Specs, CompleteState, FailState, WriteSteps
  <2>2. QED
    BY <1>1, <2>1, CompletionKeepsStates DEF Typed
<1>2. ASSUME NEW r \in Requests, CallStep(r),
             ~(OpenState(r) \/ Upload(r) \/ UploadFails(r) \/ CompleteState(r) \/ FailState(r))
      PROVE  UNCHANGED <<files, state>>
  BY <1>2 DEF CallStep, Step, PrepareStep, SubmitStep, WriteStep, RequireRunDirectoryOwned,
         RequirePreparable, ClaimForPreparation, RecheckState, ReadAttempt, ClaimForSubmission,
         RereadUnderLock, IssueSbatch, HearFromSbatch, LoseSbatch, WaitForResolution,
         WriteJobRecord, Release, LoseConnection, Crash, DecideSbatch
<1>3. QED
  BY <1>1, <1>2, NextCases DEF Begin, DecideOrphan, vars

\* A step of a call is of that call only.
LEMMA StepsAreOfOneCall ==
    ASSUME Typed, NEW r \in Requests, CallStep(r)
    PROVE  \A q \in Requests : q # r => pc'[q] = pc[q] /\ spec'[q] = spec[q]
BY DEF Typed, TypeOK, CallStep, Step, PrepareStep, SubmitStep, WriteStep, RequireRunDirectoryOwned,
       RequirePreparable, ClaimForPreparation, Upload, UploadFails, RecheckState, ReadAttempt,
       ClaimForSubmission, RereadUnderLock, IssueSbatch, HearFromSbatch, LoseSbatch,
       WaitForResolution, WriteJobRecord, OpenState, CompleteState, FailState, Release,
       LoseConnection, Crash, DecideSbatch

\* Where a call comes to upload or to commit, it has found a state file about its own
\* calculation, or was there before.
LEMMA OwnCalculation ==
    ASSUME Typed, NEW r \in Requests, pc[r] # "idle", CallStep(r),
           ~(OpenState(r) \/ Upload(r) \/ UploadFails(r)),
           misreads'[spec[r].att] = 0, pc'[r] \in Preparing \cup Committing
    PROVE  /\ spec' = spec
           /\ pc'[r] \in Preparing => \/ UploadedBefore(pc'[r]) = {}
                                     \/ (pc[r] = "state_recheck" /\ pc'[r] = "write_prepared")
           /\ \/ pc[r] \in Preparing \cup Committing
              \/ state[spec[r].att].st = "absent"
              \/ state[spec[r].att].by.print = spec[r].print
<1>1. /\ TypeOK
      /\ \A seen : Reads(r, seen) => seen = Found(r)
  <2>1. TypeOK /\ spec[r].att \in Attempts /\ misreads[spec[r].att] \in Nat
    BY ConstantsAssumption DEF Typed, TypeOK, CallsAreWellFormed, Specs
  <2> QED
    BY <2>1, ReadsAreTrue
<1> USE <1>1 DEF Preparing, Committing, UploadSteps, WriteSteps
<1>2. CASE RequirePreparable(r)
  <2>1. PICK seen \in Seen : /\ seen = Found(r)
                             /\ pc'[r] = "upload_json" => seen \in {"absent", "PREPARED"}
                             /\ pc'[r] \in {"prepare_claim", "upload_json", "idle", "release"}
                             /\ pc'[r] = "upload_json" => pc[r] = "prepare_recheck"
    BY <1>2, Zenon DEF RequirePreparable, TypeOK
  <2>2. pc'[r] = "upload_json" /\ UploadedBefore("upload_json") = {} /\ spec' = spec
    BY <1>2, <2>1 DEF UploadedBefore, RequirePreparable
  <2>3. Found(r) \in {"absent", "PREPARED"}
    BY <2>1, <2>2
  <2>4. state[spec[r].att].st = "absent" \/ state[spec[r].att].by.print = spec[r].print
    BY <2>3 DEF Found
  <2> QED
    BY <2>2, <2>4
<1>3. CASE RecheckState(r)
  BY <1>3 DEF RecheckState, TypeOK
<1>4. CASE RereadUnderLock(r)
  BY <1>4 DEF RereadUnderLock, TypeOK, Found, Seen, States
<1>5. CASE IssueSbatch(r) \/ HearFromSbatch(r) \/ LoseSbatch(r) \/ CompleteState(r)
  BY <1>5 DEF IssueSbatch, HearFromSbatch, LoseSbatch, CompleteState, TypeOK
<1>6. ~(RequireRunDirectoryOwned(r) \/ ClaimForPreparation(r) \/ ReadAttempt(r) \/ ClaimForSubmission(r)
        \/ WaitForResolution(r) \/ WriteJobRecord(r) \/ FailState(r) \/ Release(r) \/ LoseConnection(r)
        \/ Crash(r))
  BY DEF RequireRunDirectoryOwned, ClaimForPreparation, ReadAttempt, ClaimForSubmission,
         WaitForResolution, WriteJobRecord, FailState, Release, LoseConnection, Crash, TypeOK
<1>7. CASE DecideSbatch(r)
  BY <1>7 DEF DecideSbatch
<1>8. QED
  BY <1>2, <1>3, <1>4, <1>5, <1>6, <1>7 DEF CallStep, Step, PrepareStep, SubmitStep, WriteStep

\* Under the lock a call may change its own attempt: the others have another one, and
\* another run directory.
LEMMA OthersKeepTheirPackage ==
    ASSUME Typed, ClaimIsExclusive, OwnDirs,
           NEW r \in Requests, NEW q \in Requests, q # r,
           pc[r] \in UnderLock, spec[r].att \in Attempts, OwnUploads(q, spec[q].att),
           pc'[q] = pc[q] /\ spec'[q] = spec[q], UNCHANGED misreads,
           \A b \in Attempts : b # spec[r].att =>
               state'[b] = state[b] /\ files'[RunDir[b]] = files[RunDir[b]]
    PROVE  OwnUploads(q, spec[q].att)'
<1>1. CASE pc[q] \notin Preparing \cup Committing
  BY <1>1 DEF OwnUploads
<1>2. CASE pc[q] \in Preparing \cup Committing
  <2>1. pc[q] \in UnderLock /\ pc[q] # "idle"
    BY <1>2 DEF Preparing, Committing, UnderLock, UploadSteps
  <2>2. spec[q].att \in Attempts /\ spec[q].att # spec[r].att
    BY <2>1 DEF Typed, CallsAreWellFormed, Specs, ClaimIsExclusive, Holds
  <2>3. state'[spec[q].att] = state[spec[q].att] /\ files'[RunDir[spec[q].att]] = files[RunDir[spec[q].att]]
    BY <2>2
  <2>4. QED
    BY <2>3 DEF OwnUploads
<1>3. QED
  BY <1>1, <1>2

\* One part of the package is written, by a call that was misled about its attempt ...
LEMMA UploadWhereMisread ==
    ASSUME Typed, ClaimIsExclusive, OwnDirs, PackageInv,
           NEW r \in Requests, Upload(r) \/ UploadFails(r), misreads[spec[r].att] # 0
    PROVE  PackageInv'
<1>1. /\ pc[r] \in UnderLock /\ pc[r] # "idle"
      /\ TypeOK /\ UNCHANGED <<spec, state, misreads>>
  BY DEF Upload, UploadFails, UnderLock, Typed, UploadSteps
<1>2. spec[r].att \in Attempts
  BY <1>1 DEF Typed, CallsAreWellFormed, Specs
<1>3. \A b \in Attempts : b # spec[r].att => files'[RunDir[b]] = files[RunDir[b]]
  <2>1. \A b \in Attempts : b # spec[r].att => RunDir[b] # RunDir[spec[r].att] /\ RunDir[b] \in Dirs
    BY <1>2, ConstantsAssumption DEF OwnDirs
  <2> QED
    BY <1>1, <1>2, <2>1 DEF Upload, UploadFails, TypeOK
<1>4. ASSUME NEW b \in Attempts PROVE Present(b)'
  BY <1>1, <1>3, PackageByCallAndAttempt DEF Present
<1>5. ASSUME NEW q \in Requests PROVE OwnUploads(q, spec[q].att)'
  <2>1. CASE q = r
    BY <1>1, <2>1 DEF OwnUploads
  <2>2. CASE q # r
    <3>1. OwnUploads(q, spec[q].att) /\ pc'[q] = pc[q] /\ spec'[q] = spec[q]
      BY <2>2, PackageByCallAndAttempt, StepsAreOfOneCall DEF CallStep, Step, PrepareStep
    <3> QED
      BY <1>1, <1>2, <1>3, <2>2, <3>1, OthersKeepTheirPackage
  <2> QED
    BY <2>1, <2>2
<1> QED
  BY <1>4, <1>5 DEF PackageInv, UploadsAreOwn, PreparedFilesArePresent, OwnUploads, Present

\* ... or by one that was not.
LEMMA UploadKeepsPackage ==
    ASSUME Typed, ClaimIsExclusive, OwnDirs, PackageInv,
           NEW r \in Requests, Upload(r) \/ UploadFails(r), misreads[spec[r].att] = 0
    PROVE  PackageInv'
<1>1. /\ pc[r] \in UploadSteps /\ pc[r] \in UnderLock /\ pc[r] \in Preparing /\ pc[r] # "idle"
      /\ TypeOK /\ UNCHANGED <<spec, state, misreads>>
  BY DEF Upload, UploadFails, UnderLock, Typed, Preparing, UploadSteps
<1>a. spec[r] \in Specs /\ spec[r].att \in Attempts
  BY <1>1 DEF Typed, CallsAreWellFormed, Specs
<1>b. PICK a \in Attempts : a = spec[r].att
  BY <1>a
<1> DEFINE d == RunDir[a]
<1>2. spec[r] \in Specs /\ d \in Dirs /\ spec[r].att = a
  BY <1>a, <1>b, ConstantsAssumption
<1>3. OwnUploads(r, a) /\ (\A b \in Attempts : Present(b)) /\ misreads[a] = 0
  BY <1>b, PackageByCallAndAttempt
<1>4. spec[r] # NoSpec /\ spec[r] # TornFile
  BY <1>2, NoSpecAssumption
<1>5. \A b \in Attempts : b # a => RunDir[b] # d /\ RunDir[b] \in Dirs
  BY <1>2, ConstantsAssumption DEF OwnDirs
<1>6. files \in [Dirs -> [Parts -> Specs \cup {NoSpec, TornFile}]]
  BY <1>1 DEF TypeOK, Files
<1>7. PartOf(pc[r]) \in Parts
  BY <1>1 DEF UploadSteps, PartOf, Parts
<1>8. /\ \A p \in Parts : \/ files'[d][p] = files[d][p]
                          \/ files'[d][p] = spec[r]
                          \/ files'[d][p] = TornFile /\ p # "submission_json" /\ pc'[r] = "release"
      /\ \A b \in Attempts : b # a => files'[RunDir[b]] = files[RunDir[b]]
      /\ pc'[r] # "release" => /\ pc'[r] = AfterUpload(pc[r])
                               /\ \A p \in Parts : files'[d][p] = IF p = PartOf(pc[r]) THEN spec[r] ELSE files[d][p]
  <2>1. CASE Upload(r)
    <3>1. (IF pc[r] = "preflight" THEN files[d]["runtime"] ELSE spec[r]) = spec[r]
      BY <1>1, <1>3 DEF OwnUploads, UploadedBefore
    <3>2. files' = [files EXCEPT ![d][PartOf(pc[r])] = spec[r]] /\ pc'[r] = AfterUpload(pc[r])
      <4>1. files' = [files EXCEPT ![d][PartOf(pc[r])] = IF pc[r] = "preflight" THEN files[d]["runtime"] ELSE spec[r]]
        BY <1>b, <2>1, Zenon DEF Upload
      <4>2. pc'[r] = AfterUpload(pc[r])
        BY <1>1, <2>1 DEF Upload, TypeOK
      <4> QED
        BY <3>1, <4>1, <4>2
    <3> HIDE DEF d
    <3>3. \A p \in Parts : files'[d][p] = IF p = PartOf(pc[r]) THEN spec[r] ELSE files[d][p]
      BY <1>2, <1>6, <1>7, <3>2
    <3>4. \A b \in Attempts : b # a => files'[RunDir[b]] = files[RunDir[b]]
      BY <1>2, <1>5, <1>6, <3>2
    <3> QED
      BY <3>2, <3>3, <3>4
  <2>2. CASE UploadFails(r)
    <3>1. /\ pc'[r] = "release"
          /\ \/ files' = files
             \/ pc[r] \in {"upload_runtime", "upload_script"} /\ files' = [files EXCEPT ![d][PartOf(pc[r])] = TornFile]
             \/ files' = [files EXCEPT ![d][PartOf(pc[r])] = spec[r]]
      <4>1. pc'[r] = "release"
        BY <1>1, <2>2 DEF UploadFails, TypeOK
      <4>2. \/ files' = files
            \/ pc[r] \in {"upload_runtime", "upload_script"} /\ files' = [files EXCEPT ![d][PartOf(pc[r])] = TornFile]
            \/ files' = [files EXCEPT ![d][PartOf(pc[r])] = spec[r]]
        BY <1>b, <2>2, Zenon DEF UploadFails
      <4> QED
        BY <4>1, <4>2
    <3>2. pc[r] \in {"upload_runtime", "upload_script"} => PartOf(pc[r]) # "submission_json"
      BY DEF PartOf
    <3> HIDE DEF d
    <3>3. CASE files' = files
      BY <3>1, <3>3
    <3>4. CASE pc[r] \in {"upload_runtime", "upload_script"} /\ files' = [files EXCEPT ![d][PartOf(pc[r])] = TornFile]
      BY <1>2, <1>5, <1>6, <1>7, <3>1, <3>2, <3>4
    <3>5. CASE files' = [files EXCEPT ![d][PartOf(pc[r])] = spec[r]]
      BY <1>2, <1>5, <1>6, <1>7, <3>1, <3>5
    <3> QED
      BY <3>1, <3>3, <3>4, <3>5
  <2> QED
    BY <2>1, <2>2
<1>9. Present(a)'
  <2>1. state[a].st # "absent" => state[a].by.print = spec[r].print
    BY <1>1, <1>3 DEF OwnUploads
  <2> QED
    BY <1>1, <1>2, <1>3, <1>4, <1>8, <2>1 DEF Present
<1>10. \A b \in Attempts : Present(b)'
  <2>1. ASSUME NEW b \in Attempts, b # a PROVE Present(b)'
    <3>1. Present(b) /\ state'[b] = state[b] /\ files'[RunDir[b]] = files[RunDir[b]]
      BY <1>1, <1>3, <1>8, <2>1
    <3> QED
      BY <1>1, <3>1 DEF Present
  <2> QED
    BY <1>9, <2>1
<1>11. OwnUploads(r, a)'
  <2>1. CASE pc'[r] = "release"
    BY <2>1 DEF OwnUploads, Preparing, Committing, UploadSteps
  <2>2. CASE pc'[r] # "release"
    <3>1. UploadedBefore(pc'[r]) \subseteq UploadedBefore(pc[r]) \cup {PartOf(pc[r])}
      BY <1>1, <1>8, <2>2 DEF UploadSteps, AfterUpload, UploadedBefore, PartOf, Parts
    <3>2. UploadedBefore(pc[r]) \subseteq Parts
      BY DEF UploadedBefore, Parts
    <3>3. \A p \in UploadedBefore(pc[r]) \cup {PartOf(pc[r])} : files'[d][p] = spec[r]
      BY <1>1, <1>3, <1>7, <1>8, <2>2, <3>2 DEF OwnUploads
    <3> QED
      BY <1>1, <1>3, <3>1, <3>3 DEF OwnUploads
  <2> QED
    BY <2>1, <2>2
<1>12. \A q \in Requests : OwnUploads(q, spec[q].att)'
  <2>1. ASSUME NEW q \in Requests, q # r PROVE OwnUploads(q, spec[q].att)'
    <3>1. OwnUploads(q, spec[q].att)
      BY PackageByCallAndAttempt
    <3>2. pc'[q] = pc[q] /\ spec'[q] = spec[q]
      BY <2>1, StepsAreOfOneCall DEF CallStep, Step, PrepareStep
    <3> QED
      BY <1>1, <1>2, <1>8, <2>1, <3>1, <3>2, OthersKeepTheirPackage
  <2>2. spec'[r].att = a
    BY <1>1, <1>2
  <2> QED
    BY <1>11, <2>1, <2>2
<1> QED
  BY <1>10, <1>12, PackageByCallAndAttempt DEF PackageInv, UploadsAreOwn, PreparedFilesArePresent, OwnUploads, Present

\* A state file is opened to be written.
LEMMA WriteKeepsPackage ==
    ASSUME Typed, ClaimIsExclusive, SubmitsAreInformed, OwnDirs, PackageInv,
           NEW r \in Requests, OpenState(r)
    PROVE  PackageInv'
<1>1. /\ pc[r] \in WriteSteps /\ pc[r] \in UnderLock /\ pc[r] \in Preparing \cup Committing /\ pc[r] # "idle"
      /\ TypeOK /\ UNCHANGED <<pc, spec, files, misreads>>
  BY DEF OpenState, WriteSteps, UnderLock, Typed, Preparing, Committing
<1>a. spec[r] \in Specs /\ spec[r].att \in Attempts
  BY <1>1 DEF Typed, CallsAreWellFormed, Specs
<1>b. PICK a \in Attempts : a = spec[r].att
  BY <1>a
<1>2. spec[r] \in Specs /\ spec[r].att = a
  BY <1>a, <1>b
<1>3. OwnUploads(r, a) /\ Present(a) /\ SubmitKnows(r, a)
  BY <1>2, PackageByCallAndAttempt DEF SubmitsAreInformed
<1>4. state'[a].by = spec[r] /\ \A b \in Attempts : b # a => state'[b] = state[b]
  BY <1>2, <1>1 DEF OpenState, TypeOK
<1>5. Present(a)'
  <2>0. CASE misreads[a] # 0
    BY <1>1, <2>0 DEF Present
  <2>1. CASE misreads[a] = 0 /\ pc[r] = "write_prepared"
    <3>1. \A p \in Parts : files[RunDir[a]][p] = spec[r]
      BY <1>3, <2>1 DEF OwnUploads, Preparing, UploadedBefore
    <3>2. spec[r] # NoSpec
      BY <1>2, NoSpecAssumption
    <3> QED
      BY <1>1, <1>2, <1>4, <3>1, <3>2 DEF Present
  <2>2. CASE misreads[a] = 0 /\ pc[r] # "write_prepared"
    <3>1. state[a].st # "absent"
      BY <1>1, <1>3, <2>2 DEF SubmitKnows, WriteSteps
    <3>2. state[a].by.print = spec[r].print
      BY <1>1, <1>3, <2>2, <3>1 DEF OwnUploads
    <3> QED
      BY <1>1, <1>3, <1>4, <2>2, <3>1, <3>2 DEF Present
  <2> QED
    BY <2>0, <2>1, <2>2
<1>6. \A b \in Attempts : Present(b)'
  <2>1. ASSUME NEW b \in Attempts, b # a PROVE Present(b)'
    <3>1. Present(b) /\ state'[b] = state[b] /\ files' = files
      BY <1>1, <1>4, <2>1, PackageByCallAndAttempt
    <3> QED
      BY <1>1, <3>1 DEF Present
  <2> QED
    BY <1>5, <2>1
<1>7. OwnUploads(r, a)'
  BY <1>1, <1>3, <1>4 DEF OwnUploads
<1>8. \A q \in Requests : OwnUploads(q, spec[q].att)'
  <2>1. ASSUME NEW q \in Requests, q # r PROVE OwnUploads(q, spec[q].att)'
    <3>1. OwnUploads(q, spec[q].att) /\ pc'[q] = pc[q] /\ spec'[q] = spec[q] /\ files' = files
      BY <1>1, PackageByCallAndAttempt
    <3> QED
      BY <1>1, <1>2, <1>4, <2>1, <3>1, OthersKeepTheirPackage
  <2>2. spec'[r].att = a
    BY <1>1, <1>2
  <2> QED
    BY <1>7, <2>1, <2>2
<1> QED
  BY <1>6, <1>8 DEF PackageInv, UploadsAreOwn, PreparedFilesArePresent, OwnUploads, Present

LEMMA PackageNext ==
    ASSUME ProtocolInv, PackageInv, [Next]_vars, OwnDirs
    PROVE  PackageInv'
<1>1. Typed /\ ClaimIsExclusive /\ SubmitsAreInformed
  BY DEF ProtocolInv, Typed
<1>2. CASE \E r \in Requests : Upload(r) \/ UploadFails(r)
  BY <1>1, <1>2, UploadKeepsPackage, UploadWhereMisread
<1>3. CASE \E r \in Requests : OpenState(r)
  BY <1>1, <1>3, WriteKeepsPackage
<1>4. CASE ~\E r \in Requests : OpenState(r) \/ Upload(r) \/ UploadFails(r)
  <2>1. files' = files /\ \A b \in Attempts : state'[b].st = state[b].st /\ state'[b].by = state[b].by
    BY <1>1, <1>4, FilesAndStatesStay
  <2>2. \A q \in Requests : pc[q] # "idle" => spec[q].att \in Attempts
    BY <1>1 DEF Typed, CallsAreWellFormed, Specs
  <2>m. \A b \in Attempts : misreads'[b] = 0 => misreads[b] = 0
    BY <1>1, MisreadsGrow
  <2>3. PreparedFilesArePresent'
    BY <2>1, <2>m DEF PackageInv, PreparedFilesArePresent
  <2>4. ASSUME NEW q \in Requests, pc'[q] = pc[q], spec'[q] = spec[q] PROVE OwnUploads(q, spec[q].att)'
    <3>1. CASE pc[q] \notin Preparing \cup Committing
      BY <2>4, <3>1 DEF OwnUploads
    <3>2. CASE pc[q] \in Preparing \cup Committing
      <4>1. pc[q] # "idle"
        BY <3>2 DEF Preparing, Committing, UploadSteps
      <4>2. OwnUploads(q, spec[q].att)
        BY PackageByCallAndAttempt
      <4> QED
        BY <2>1, <2>2, <2>4, <2>m, <4>1, <4>2 DEF OwnUploads
    <3> QED
      BY <3>1, <3>2
  <2>5. ASSUME NEW r \in Requests, pc[r] # "idle", CallStep(r) PROVE OwnUploads(r, spec[r].att)'
    <3>0. CASE misreads'[spec[r].att] # 0
      BY <1>1, <2>5, <3>0, StepsStayHome DEF OwnUploads
    <3>1. CASE pc'[r] \notin Preparing \cup Committing
      BY <3>1 DEF OwnUploads
    <3>2. CASE misreads'[spec[r].att] = 0 /\ pc'[r] \in Preparing \cup Committing
      <4>1. /\ spec' = spec
            /\ pc'[r] \in Preparing => \/ UploadedBefore(pc'[r]) = {}
                                      \/ (pc[r] = "state_recheck" /\ pc'[r] = "write_prepared")
            /\ \/ pc[r] \in Preparing \cup Committing
               \/ state[spec[r].att].st = "absent"
               \/ state[spec[r].att].by.print = spec[r].print
        BY <1>1, <1>4, <2>5, <3>2, OwnCalculation
      <4>2. OwnUploads(r, spec[r].att) /\ spec[r].att \in Attempts /\ misreads[spec[r].att] = 0
        BY <2>2, <2>5, <2>m, <3>2, PackageByCallAndAttempt
      <4>3. pc'[r] \in Preparing => \A part \in UploadedBefore(pc'[r]) : files[RunDir[spec[r].att]][part] = spec[r]
        BY <4>1, <4>2 DEF OwnUploads, Preparing, UploadedBefore
      <4> QED
        BY <2>1, <4>1, <4>2, <4>3 DEF OwnUploads
    <3> QED
      BY <3>0, <3>1, <3>2
  <2>6. CASE \E r \in Requests : pc[r] # "idle" /\ CallStep(r)
    <3>1. PICK r \in Requests : pc[r] # "idle" /\ CallStep(r)
      BY <2>6
    <3>2. \A q \in Requests : q # r => pc'[q] = pc[q] /\ spec'[q] = spec[q]
      BY <1>1, <3>1, StepsAreOfOneCall
    <3>3. \A q \in Requests : OwnUploads(q, spec[q].att)'
      BY <2>4, <2>5, <3>1, <3>2
    <3> QED
      BY <2>3, <3>3 DEF PackageInv, UploadsAreOwn, OwnUploads
  <2>7. CASE \E r \in Requests, s \in Specs : Begin(r, s, "owner_check") \/ Begin(r, s, "submit_read")
    <3>1. PICK r \in Requests : /\ pc'[r] \in {"owner_check", "submit_read"}
                                /\ \A q \in Requests : q # r => pc'[q] = pc[q] /\ spec'[q] = spec[q]
      BY <1>1, <2>7 DEF Begin, Typed, TypeOK
    <3>2. OwnUploads(r, spec[r].att)'
      BY <3>1 DEF OwnUploads, Preparing, Committing, UploadSteps
    <3>3. \A q \in Requests : OwnUploads(q, spec[q].att)'
      BY <2>4, <3>1, <3>2
    <3> QED
      BY <2>3, <3>3 DEF PackageInv, UploadsAreOwn, OwnUploads
  <2>8. CASE UNCHANGED vars \/ \E b \in Attempts : DecideOrphan(b)
    <3>1. UNCHANGED <<pc, spec>>
      BY <2>8 DEF vars, DecideOrphan
    <3>2. \A q \in Requests : OwnUploads(q, spec[q].att)'
      BY <2>4, <3>1
    <3> QED
      BY <2>3, <3>2 DEF PackageInv, UploadsAreOwn, OwnUploads
  <2> QED
    BY <2>6, <2>7, <2>8, NextCases
<1> QED
  BY <1>2, <1>3, <1>4

\* Attempts with run directories of their own: whatever a state file says of an attempt, the
\* package it was written about is in the run directory, of that attempt and of that
\* calculation.
THEOREM PackagesArePresent ==
    ASSUME OwnDirs
    PROVE  Spec => []PreparedFilesArePresent
<1>1. Init => PackageInv
  BY DEF Init, PackageInv, UploadsAreOwn, PreparedFilesArePresent, Preparing, Committing, UploadSteps
<1>2. ProtocolInv /\ PackageInv /\ [Next]_vars => PackageInv'
  BY PackageNext
<1>3. PackageInv => PreparedFilesArePresent
  BY DEF PackageInv
<1>4. QED
  BY <1>1, <1>2, <1>3, ProtocolIsSafe, PTL DEF Spec

-----------------------------------------------------------------------------
(* Refinement of AttemptLifecycle.                                         *)

\* The phase of an attempt changes only when a call opens its state file, and its
\* jobs only when SLURM decides.
LEMMA WhatTheLifecycleSees ==
    ASSUME Typed, [Next]_vars
    PROVE  \/ \E r \in Requests : OpenState(r) \/ DecideSbatch(r)
           \/ \E a \in Attempts : DecideOrphan(a)
           \/ /\ jobs' = jobs /\ \A a \in Attempts : state'[a].st = state[a].st
              /\ \/ UNCHANGED faults
                 \/ \E a \in Attempts : \A b \in Attempts :
                       b # a => Trusted(b)' = Trusted(b)
<1>1. ASSUME NEW r \in Requests, CompleteState(r) \/ FailState(r)
      PROVE  jobs' = jobs /\ \A a \in Attempts : state'[a].st = state[a].st
  <2>1. spec[r].att \in Attempts
    BY <1>1 DEF Typed, CallsAreWellFormed, Specs, CompleteState, FailState, WriteSteps
  <2>2. jobs' = jobs
    BY <1>1 DEF CompleteState, FailState
  <2>3. QED
    BY <1>1, <2>1, <2>2, CompletionKeepsStates DEF Typed
<1>2. ASSUME NEW r \in Requests, CallStep(r),
             ~(OpenState(r) \/ DecideSbatch(r) \/ CompleteState(r) \/ FailState(r))
      PROVE  UNCHANGED <<jobs, state>>
  BY <1>2 DEF CallStep, Step, PrepareStep, SubmitStep, WriteStep, RequireRunDirectoryOwned,
         RequirePreparable, ClaimForPreparation, RecheckState, ReadAttempt, ClaimForSubmission,
         RereadUnderLock, IssueSbatch, HearFromSbatch, LoseSbatch, WaitForResolution,
         WriteJobRecord, Release, LoseConnection, Crash, Upload, UploadFails
<1>3. ASSUME NEW r \in Requests, pc[r] # "idle", CallStep(r)
      PROVE  \E a \in Attempts : \A b \in Attempts : b # a => Trusted(b)' = Trusted(b)
  BY <1>3, FaultsGrow DEF Typed, CallsAreWellFormed, Specs
<1>4. QED
  BY <1>1, <1>2, <1>3, NextCases DEF Begin, vars

\* What a call may write, seen from the state file it replaces.
LEMMA WritesFollowTheLifecycle ==
    ASSUME ProtocolInv, NEW r \in Requests, OpenState(r)
    PROVE  \E a \in Attempts :
              /\ \A b \in Attempts : b # a => state'[b].st = state[b].st
              /\ \/ state'[a].st = state[a].st
                 \/ state[a].st = "absent" /\ state'[a].st = "PREPARED"
                 \/ state[a].st = "PREPARED" /\ state'[a].st = "SUBMITTING"
                 \/ state[a].st = "SUBMITTING" /\ state'[a].st = "PREPARED" /\ jobs[a] = 0
                 \/ state[a].st = "SUBMITTING" /\ state'[a].st = "SUBMITTED" /\ jobs[a] = 1
                 \/ ~Trusted(a)
<1> DEFINE a == spec[r].att
<1>1. /\ a \in Attempts /\ TypeOK
      /\ SubmitKnows(r, a) /\ (Trusted(a) => SubmitKnowsJobs(r, a))
      /\ pc[r] = "write_prepared" => state[a].st \in {"absent", "PREPARED"} \/ ~Trusted(a)
  BY DEF ProtocolInv, CallsAreWellFormed, Specs, OpenState, WriteSteps, SubmitsAreInformed,
     PrepareIsBeforeCommit
<1>2. /\ jobs[a] \in Nat /\ (Trusted(a) => jobs[a] <= 1)
      /\ result[r] = "job" => jobs[a] > 0
  BY <1>1 DEF ProtocolInv, TypeOK, OneJobUnlessMisread, JobsAreReal
<1>3. state' = [state EXCEPT ![a] =
                   [st |-> WrittenBy(pc[r]), by |-> spec[r], whole |-> FALSE]]
  BY DEF OpenState
<1>4. /\ \A b \in Attempts : b # a => state'[b].st = state[b].st
      /\ state'[a].st = WrittenBy(pc[r])
  BY <1>1, <1>3 DEF TypeOK
<1>5. pc[r] \in WriteSteps
  BY DEF OpenState
<1> HIDE DEF a
<1>6. \/ state'[a].st = state[a].st
      \/ state[a].st = "absent" /\ state'[a].st = "PREPARED"
      \/ state[a].st = "PREPARED" /\ state'[a].st = "SUBMITTING"
      \/ state[a].st = "SUBMITTING" /\ state'[a].st = "PREPARED" /\ jobs[a] = 0
      \/ state[a].st = "SUBMITTING" /\ state'[a].st = "SUBMITTED" /\ jobs[a] = 1
      \/ ~Trusted(a)
  <2>1. CASE pc[r] \in {"write_prepared", "mark"}
    BY <2>1, <1>1, <1>4 DEF SubmitKnows, WrittenBy, TypeOK, StateFiles
  <2>2. CASE pc[r] = "revert"
    BY <2>2, <1>1, <1>2, <1>4 DEF SubmitKnows, SubmitKnowsJobs, MayHoldJob, WrittenBy
  <2>3. CASE pc[r] = "keep"
    BY <2>3, <1>1, <1>4 DEF SubmitKnows, WrittenBy
  <2>4. CASE pc[r] = "record"
    BY <2>4, <1>1, <1>2, <1>4 DEF SubmitKnows, WrittenBy
  <2>5. QED
    BY <1>5, <2>1, <2>2, <2>3, <2>4 DEF WriteSteps
<1>7. QED
  BY <1>1, <1>4, <1>6

\* SLURM takes a job only for a committed attempt that has none.
LEMMA JobsFollowTheLifecycle ==
    ASSUME ProtocolInv, NEW a \in Attempts, UNCHANGED state,
           \/ \E r \in Requests : DecideSbatch(r) /\ spec[r].att = a
           \/ DecideOrphan(a)
    PROVE  \/ UNCHANGED jobs
           \/ /\ state[a].st = "SUBMITTING" /\ jobs[a] = 0
              /\ jobs' = [jobs EXCEPT ![a] = 1]
           \/ /\ ~Trusted(a) /\ jobs' = [jobs EXCEPT ![a] = @ + 1]
<1>1. Trusted(a) => state[a].st = "SUBMITTING" /\ jobs[a] = 0
  BY DEF ProtocolInv, TypeOK, DecideSbatch, DecideOrphan, SubmitsAreInformed, SubmitKnows,
     SubmitKnowsJobs, OrphansAreAlone, JobsAreMarked, JobsAreReal, MayHoldJob
<1>2. jobs' = jobs \/ jobs' = [jobs EXCEPT ![a] = @ + 1]
  BY DEF DecideSbatch, DecideOrphan
<1>3. jobs[a] \in Nat
  BY DEF ProtocolInv, TypeOK
<1>4. QED
  BY <1>1, <1>2, <1>3

\* The protocol implements the lifecycle of an attempt.
THEOREM ProtocolImplementsLifecycle == Spec => ImplementsLifecycle
<1> DEFINE phase  == [a \in Attempts |-> PhaseOf[state[a].st]]
           misled == {a \in Attempts : ~Trusted(a)}
<1>1. Init => Lifecycle!LifecycleInit
  BY DEF Init, Lifecycle!LifecycleInit, PhaseOf, Trusted
<1>2. ASSUME ProtocolInv, [Next]_vars
      PROVE  [Lifecycle!LifecycleNext]_<<phase, jobs, misled>>
  <2> USE DEF Lifecycle!LifecycleNext, Lifecycle!Prepared, Lifecycle!Commit, Lifecycle!Refuse,
              Lifecycle!Record, Lifecycle!AcceptJob, Lifecycle!Move, Lifecycle!LoseTrack
  <2>t. Typed /\ Typed'
    BY <1>2, TypedNext DEF ProtocolInv, Typed
  <2>p. \A a \in Attempts : phase[a] = PhaseOf[state[a].st] /\ phase'[a] = PhaseOf[state'[a].st]
    OBVIOUS
  <2>s. ASSUME NEW a \in Attempts, ~Trusted(a), misled' = misled,
               \A b \in Attempts : b # a => state'[b].st = state[b].st /\ jobs'[b] = jobs[b]
        PROVE  Lifecycle!LifecycleNext
    <3>1. phase' \in [Attempts -> Lifecycle!Phases] /\ jobs' \in [Attempts -> Nat]
      <4>1. \A b \in Attempts : state'[b].st \in States
        BY <2>t DEF Typed, TypeOK, StateFiles
      <4> QED
        BY <2>t, <4>1 DEF Typed, TypeOK, States, PhaseOf, Lifecycle!Phases
    <3>2. \A b \in Attempts \ {a} : phase'[b] = phase[b] /\ jobs'[b] = jobs[b]
      BY <2>s, <2>p
    <3>3. a \in misled
      BY <2>s
    <3>4. Lifecycle!Stray(a)
      BY <2>s, <3>1, <3>2, <3>3 DEF Lifecycle!Stray
    <3> QED
      BY <3>4
  <2>1. CASE \E r \in Requests : OpenState(r)
    <3>1. PICK r \in Requests : OpenState(r)
      BY <2>1
    <3>2. jobs' = jobs /\ misled' = misled
      BY <3>1 DEF OpenState, Trusted
    <3>3. PICK a \in Attempts :
              /\ \A b \in Attempts : b # a => state'[b].st = state[b].st
              /\ \/ state'[a].st = state[a].st
                 \/ state[a].st = "absent" /\ state'[a].st = "PREPARED"
                 \/ state[a].st = "PREPARED" /\ state'[a].st = "SUBMITTING"
                 \/ state[a].st = "SUBMITTING" /\ state'[a].st = "PREPARED" /\ jobs[a] = 0
                 \/ state[a].st = "SUBMITTING" /\ state'[a].st = "SUBMITTED" /\ jobs[a] = 1
                 \/ ~Trusted(a)
      BY <1>2, <3>1, WritesFollowTheLifecycle
    <3>4. phase' = [phase EXCEPT ![a] = PhaseOf[state'[a].st]]
      BY <3>3
    <3> USE DEF PhaseOf
    <3>5. CASE state'[a].st = state[a].st
      BY <3>2, <3>4, <3>5
    <3>6. CASE state[a].st = "absent" /\ state'[a].st = "PREPARED"
      <4>1. Lifecycle!Prepared(a)
        BY <3>2, <3>4, <3>6
      <4>2. QED
        BY <4>1
    <3>7. CASE state[a].st = "PREPARED" /\ state'[a].st = "SUBMITTING"
      <4>1. Lifecycle!Commit(a)
        BY <3>2, <3>4, <3>7
      <4>2. QED
        BY <4>1
    <3>8. CASE state[a].st = "SUBMITTING" /\ state'[a].st = "PREPARED" /\ jobs[a] = 0
      <4>1. Lifecycle!Refuse(a)
        BY <3>2, <3>4, <3>8
      <4>2. QED
        BY <4>1
    <3>9. CASE state[a].st = "SUBMITTING" /\ state'[a].st = "SUBMITTED" /\ jobs[a] = 1
      <4>1. Lifecycle!Record(a)
        BY <3>2, <3>4, <3>9
      <4>2. QED
        BY <4>1
    <3>10. CASE ~Trusted(a)
      BY <2>s, <3>2, <3>3, <3>10
    <3>11. QED
      BY <3>3, <3>5, <3>6, <3>7, <3>8, <3>9, <3>10
  <2>2. ASSUME NEW a \in Attempts,
               \/ \E r \in Requests : DecideSbatch(r) /\ spec[r].att = a
               \/ DecideOrphan(a)
        PROVE  Lifecycle!LifecycleNext \/ UNCHANGED <<phase, jobs, misled>>
    <3>1. UNCHANGED state /\ misled' = misled
      BY <2>2 DEF DecideSbatch, DecideOrphan, Trusted
    <3>2. phase' = phase
      BY <3>1
    <3>3. CASE UNCHANGED jobs
      BY <3>1, <3>2, <3>3
    <3>4. CASE /\ state[a].st = "SUBMITTING" /\ jobs[a] = 0
               /\ jobs' = [jobs EXCEPT ![a] = 1]
      <4>1. Lifecycle!AcceptJob(a)
        BY <3>1, <3>2, <3>4 DEF PhaseOf
      <4>2. QED
        BY <4>1
    <3>5. CASE ~Trusted(a) /\ jobs' = [jobs EXCEPT ![a] = @ + 1]
      <4>1. \A b \in Attempts : b # a => state'[b].st = state[b].st /\ jobs'[b] = jobs[b]
        BY <2>t, <3>1, <3>5 DEF Typed, TypeOK
      <4> QED
        BY <2>s, <3>1, <3>5, <4>1
    <3>6. QED
      BY <1>2, <2>2, <3>1, <3>3, <3>4, <3>5, JobsFollowTheLifecycle
  <2>3. CASE \E r \in Requests : DecideSbatch(r)
    <3>1. PICK r \in Requests : DecideSbatch(r)
      BY <2>3
    <3>2. spec[r].att \in Attempts
      BY <2>t, <3>1 DEF DecideSbatch, Typed, CallsAreWellFormed, Specs
    <3> QED
      BY <2>2, <3>1, <3>2
  <2>4. CASE \E a \in Attempts : DecideOrphan(a)
    BY <2>2, <2>4
  <2>5. CASE /\ jobs' = jobs /\ \A a \in Attempts : state'[a].st = state[a].st
             /\ UNCHANGED faults
    <3>1. misled' = misled
      BY <2>5 DEF Trusted
    <3> QED
      BY <2>5, <3>1
  <2>6. CASE /\ jobs' = jobs /\ \A a \in Attempts : state'[a].st = state[a].st
             /\ \E a \in Attempts : \A b \in Attempts : b # a => Trusted(b)' = Trusted(b)
    <3>1. PICK a \in Attempts : \A b \in Attempts : b # a => Trusted(b)' = Trusted(b)
      BY <2>6
    <3>2. phase' = phase
      BY <2>6
    <3>3. \A b \in Attempts : Trusted(b)' => Trusted(b)
      BY <1>2, <2>t, MisreadsGrow
    <3>4. misled' = misled \/ misled' = misled \cup {a}
      <4>1. CASE Trusted(a)' \/ ~Trusted(a)
        BY <3>1, <3>3, <4>1
      <4>2. CASE ~Trusted(a)' /\ Trusted(a)
        BY <3>1, <4>2
      <4> QED
        BY <4>1, <4>2
    <3> QED
      BY <2>6, <3>2, <3>4
  <2>7. QED
    BY <1>2, <2>t, <2>1, <2>3, <2>4, <2>5, <2>6, WhatTheLifecycleSees
<1>3. QED
  BY <1>1, <1>2, ProtocolIsSafe, PTL DEF Spec, ImplementsLifecycle, Lifecycle!LifecycleSpec

=============================================================================
