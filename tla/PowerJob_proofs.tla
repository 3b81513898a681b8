----------------------------- MODULE PowerJob_proofs -----------------------------
(***************************************************************************)
(* Proofs about PowerJob and the StageRunner in it: for any stages and any *)
(* flows that they ask for, any files, and any changes of them.  First the *)
(* runner, whose invariant holds in every run, and then the job around it. *)
(***************************************************************************)
EXTENDS PowerJob, TLAPS

-----------------------------------------------------------------------------
(* The calls of _run.                                                      *)

Frames == [flow : Seq(Jobs), at : Nat \ {0}, bad : BOOLEAN]

IsFrame(frame, flow, at, isBad) ==
    frame \in Frames /\ frame.flow = flow /\ frame.at = at /\ (frame.bad <=> isBad)

\* The innermost call goes on.
MovesOn(at, isBad) ==
    /\ stack' \in Seq(Frames) /\ Len(stack') = Len(stack)
    /\ \A k \in DOMAIN stack : k < Len(stack) => stack'[k] = stack[k]
    /\ IsFrame(stack'[Len(stack)], Call.flow, at, isBad)

\* It calls _run.
Calls(flow) ==
    /\ stack' \in Seq(Frames) /\ Len(stack') = Len(stack) + 1
    /\ \A k \in DOMAIN stack : stack'[k] = stack[k]
    /\ IsFrame(stack'[Len(stack) + 1], flow, 1, FALSE)

\* It returns to the call around it.
Returns ==
    /\ stack' \in Seq(Frames) /\ Len(stack) > 1 /\ Len(stack') = Len(stack) - 1
    /\ \A k \in DOMAIN stack' : k < Len(stack') => stack'[k] = stack[k]
    /\ LET caller == stack[Len(stack')]
       IN  IsFrame(stack'[Len(stack')], caller.flow, caller.at + 1, caller.bad \/ Call.bad)

LEMMA CallIsFrame ==
  ASSUME stack \in Seq(Frames), stack # << >>
  PROVE  /\ Len(stack) \in Nat \ {0} /\ DOMAIN stack = 1..Len(stack)
         /\ Call \in Frames /\ Call = stack[Len(stack)]
         /\ \A k \in DOMAIN stack : stack[k] \in Frames
         /\ DOMAIN Call.flow = 1..Len(Call.flow) /\ Len(Call.flow) \in Nat
         /\ Call.at \in Nat \ {0} /\ Call.bad \in BOOLEAN
<1>1. /\ Len(stack) \in Nat \ {0} /\ DOMAIN stack = 1..Len(stack)
      /\ \A k \in DOMAIN stack : stack[k] \in Frames
  OBVIOUS
<1>2. Call = stack[Len(stack)]
  BY DEF Call, Last
<1>3. Call \in Frames
  BY <1>1, <1>2
<1>4. Call.flow \in Seq(Jobs) /\ Call.at \in Nat \ {0} /\ Call.bad \in BOOLEAN
  BY <1>3 DEF Frames
<1> QED
  BY <1>1, <1>2, <1>3, <1>4

LEMMA FrameTypes ==
  ASSUME NEW calls \in Seq(Frames), NEW k \in DOMAIN calls
  PROVE  /\ calls[k].at \in Nat \ {0} /\ calls[k].flow \in Seq(Jobs) /\ calls[k].bad \in BOOLEAN
         /\ \A i \in DOMAIN calls[k].flow : i \in Nat \ {0}
<1>1. calls[k] \in Frames
  OBVIOUS
<1>2. calls[k].at \in Nat \ {0} /\ calls[k].flow \in Seq(Jobs) /\ calls[k].bad \in BOOLEAN
  BY <1>1 DEF Frames
<1> QED
  BY <1>2

LEMMA FrameAfter ==
  ASSUME NEW frame \in Frames, NEW isBad \in BOOLEAN
  PROVE  IsFrame(AndThen(frame, isBad), frame.flow, frame.at + 1, frame.bad \/ isBad)
<1>1. ASSUME NEW at \in Nat \ {0}, NEW b \in BOOLEAN PROVE [frame EXCEPT !.at = at, !.bad = b] \in Frames
  BY DEF Frames
<1>2. AndThen(frame, isBad) = [frame EXCEPT !.at = frame.at + 1, !.bad = frame.bad \/ isBad]
  BY Zenon DEF AndThen
<1>3. (frame.bad \/ isBad) \in BOOLEAN /\ frame.at + 1 \in Nat \ {0}
  BY DEF Frames
<1>4. AndThen(frame, isBad) \in Frames
  BY <1>1, <1>2, <1>3
<1>5. AndThen(frame, isBad).flow = frame.flow /\ AndThen(frame, isBad).at = frame.at + 1
  BY DEF AndThen, Frames
<1>6. AndThen(frame, isBad).bad <=> frame.bad \/ isBad
  BY DEF AndThen, Frames
<1> QED
  BY <1>4, <1>5, <1>6 DEF IsFrame

LEMMA ExceptLast ==
  ASSUME stack \in Seq(Frames), stack # << >>, NEW frame \in Frames, NEW at, NEW isBad,
         IsFrame(frame, Call.flow, at, isBad), stack' = [stack EXCEPT ![Len(stack)] = frame]
  PROVE  MovesOn(at, isBad)
  BY CallIsFrame DEF MovesOn

LEMMA ContinueMovesOn ==
  ASSUME stack \in Seq(Frames), stack # << >>, NEW isBad \in BOOLEAN, Continue(isBad)
  PROVE  MovesOn(Call.at + 1, Call.bad \/ isBad)
<1>1. IsFrame(AndThen(Call, isBad), Call.flow, Call.at + 1, Call.bad \/ isBad)
  BY CallIsFrame, FrameAfter
<1>2. stack' = [stack EXCEPT ![Len(stack)] = AndThen(Call, isBad)]
  BY CallIsFrame DEF Continue
<1> QED
  BY <1>1, <1>2, ExceptLast DEF IsFrame

LEMMA StopMovesOn ==
  ASSUME stack \in Seq(Frames), stack # << >>,
         stack' = [stack EXCEPT ![Len(stack)] = [AndThen(@, TRUE) EXCEPT !.at = Len(Call.flow) + 1]]
  PROVE  MovesOn(Len(Call.flow) + 1, TRUE)
<1> DEFINE frame == [AndThen(Call, TRUE) EXCEPT !.at = Len(Call.flow) + 1]
<1>1. IsFrame(AndThen(Call, TRUE), Call.flow, Call.at + 1, TRUE)
  BY CallIsFrame, FrameAfter
<1>2. IsFrame(frame, Call.flow, Len(Call.flow) + 1, TRUE)
  <2>1. ASSUME NEW x \in Frames, NEW at \in Nat \ {0}
        PROVE  /\ [x EXCEPT !.at = at] \in Frames /\ [x EXCEPT !.at = at].flow = x.flow
               /\ [x EXCEPT !.at = at].at = at /\ [x EXCEPT !.at = at].bad = x.bad
    BY DEF Frames
  <2>2. Len(Call.flow) + 1 \in Nat \ {0}
    BY CallIsFrame
  <2> QED
    BY <1>1, <2>1, <2>2, ZenonT(30) DEF IsFrame
<1>3. stack' = [stack EXCEPT ![Len(stack)] = frame]
  BY CallIsFrame
<1> QED
  BY <1>2, <1>3, ExceptLast DEF IsFrame

LEMMA AppendCalls ==
  ASSUME stack \in Seq(Frames), NEW flow \in Seq(Jobs), stack' = Append(stack, Frame(flow))
  PROVE  Calls(flow)
<1>1. IsFrame(Frame(flow), flow, 1, FALSE)
  BY DEF Frame, Frames, IsFrame
<1> QED
  BY <1>1 DEF Calls, IsFrame

LEMMA FinishReturns ==
  ASSUME stack \in Seq(Frames), stack # << >>, Len(stack) # 1,
         stack' = [Front(stack) EXCEPT ![Len(stack) - 1] = AndThen(@, Call.bad)]
  PROVE  Returns
<1> DEFINE n == Len(stack) - 1
           frame == AndThen(stack[n], Call.bad)
<1>1. n \in Nat \ {0} /\ Front(stack) \in Seq(Frames) /\ Len(Front(stack)) = n
      /\ \A k \in 1..n : Front(stack)[k] = stack[k]
  BY CallIsFrame DEF Front
<1>2. stack[n] \in Frames
  BY <1>1
<1>3. IsFrame(frame, stack[n].flow, stack[n].at + 1, stack[n].bad \/ Call.bad)
  BY <1>2, CallIsFrame, FrameAfter
<1>4. stack' = [Front(stack) EXCEPT ![n] = frame]
  <2>1. Front(stack)[n] = stack[n]
    BY <1>1
  <2>2. stack' = [Front(stack) EXCEPT ![n] = AndThen(Front(stack)[n], Call.bad)]
    BY Zenon
  <2> QED
    BY <2>1, <2>2, Zenon
<1> HIDE DEF frame
<1>5. frame \in Frames
  BY <1>3 DEF IsFrame
<1>6. stack' \in Seq(Frames) /\ Len(stack') = n /\ stack'[n] = frame
      /\ \A k \in 1..n : k < n => stack'[k] = stack[k]
  BY <1>1, <1>4, <1>5
<1>7. Len(stack) > 1 /\ Len(stack') = Len(stack) - 1 /\ DOMAIN stack' = 1..n
  BY <1>1, <1>6
<1>8. \A k \in DOMAIN stack' : k < Len(stack') => stack'[k] = stack[k]
  <2>1. ASSUME NEW k \in 1..n, k < n PROVE stack'[k] = stack[k]
    BY <1>1, <1>6, <2>1, Zenon
  <2> QED
    BY <1>6, <1>7, <2>1, Zenon
<1>9. IsFrame(stack'[Len(stack')], stack[Len(stack')].flow, stack[Len(stack')].at + 1,
              stack[Len(stack')].bad \/ Call.bad)
  BY <1>3, <1>6, Zenon
<1> QED
  BY <1>6, <1>7, <1>8, <1>9, Zenon DEF Returns

-----------------------------------------------------------------------------
(* The types of the runner.                                                *)

LEMMA FlowOfCall ==
  ASSUME RunnerTypeOK, CallsAreNested, NEW k \in DOMAIN stack
  PROVE  /\ stack[k] \in Frames /\ IsFlow(stack[k].flow)
         /\ stack[k].flow = Stages \/ \E j \in Jobs : j \in Ran /\ stack[k].flow = Diversion[j]
<1>1. stack[k] \in Frames
  <2>1. stack \in Seq(Frames)
    BY DEF RunnerTypeOK, Frames
  <2> QED
    BY <2>1
<1>2. stack[k].flow = Stages \/ \E j \in Jobs : j \in Ran /\ stack[k].flow = Diversion[j]
  <2>1. Ran \subseteq Jobs
    <3>1. ran \in Seq(Jobs)
      BY DEF RunnerTypeOK
    <3> QED
      BY <3>1 DEF Ran, ToSet
  <2>2. IF k = 1 THEN stack[k].flow = Stages ELSE \E j \in Ran : stack[k].flow = Diversion[j]
    BY DEF CallsAreNested
  <2> QED
    BY <2>1, <2>2
<1> QED
  BY <1>1, <1>2, FlowAssumption

LEMMA JobInTurn ==
  ASSUME RunnerTypeOK, CallsAreNested, stack # << >>, Call.at <= Len(Call.flow)
  PROVE  /\ Call.at \in DOMAIN Call.flow
         /\ Job = Call.flow[Call.at] /\ Job \in Jobs /\ Diversion[Job] \in Seq(Jobs)
         /\ \A p \in Parents[Job] : \E h \in DOMAIN Call.flow : h < Call.at /\ Call.flow[h] = p
<1>1. stack \in Seq(Frames)
  BY DEF RunnerTypeOK, Frames
<1>2. Len(stack) \in DOMAIN stack /\ Call = stack[Len(stack)]
  BY <1>1, CallIsFrame
<1>3. IsFlow(Call.flow)
  BY <1>2, FlowOfCall
<1>4. Call.at \in DOMAIN Call.flow
  BY <1>1, CallIsFrame
<1>5. Job = Call.flow[Call.at] /\ Job \in Jobs
  BY <1>3, <1>4, CallIsFrame DEF Job, IsFlow
<1>6. Diversion[Job] \in Seq(Jobs)
  BY <1>5, FlowAssumption DEF IsFlow
<1>7. ASSUME NEW p \in Parents[Job] PROVE \E h \in DOMAIN Call.flow : h < Call.at /\ Call.flow[h] = p
  <2>1. PICK h \in 1..(Call.at - 1) : Call.flow[h] = p
    BY <1>3, <1>4, <1>5 DEF IsFlow
  <2>2. h \in DOMAIN Call.flow /\ h < Call.at
    BY <1>1, <1>4, CallIsFrame
  <2> QED
    BY <2>1, <2>2
<1> QED
  BY <1>3, <1>4, <1>5, <1>6, <1>7

\* What an action does to the calls.
LEMMA StackSteps ==
  ASSUME RunnerTypeOK, CallsAreNested
  PROVE  /\ SkipAll => MovesOn(Len(Call.flow) + 1, TRUE)
         /\ SkipStopped \/ SkipErrored \/ JobFails => MovesOn(Call.at + 1, TRUE)
         /\ JobResponds =>
               \/ stop' /\ MovesOn(Len(Call.flow) + 1, TRUE)
               \/ stop' = stop /\ MovesOn(Call.at + 1, Call.bad)
               \/ stop' = stop /\ Calls(Diversion[Job])
         /\ Finish => \/ Len(stack) = 1 /\ stack' = << >> /\ pc' = IF Call.bad THEN "failed" ELSE "done"
                      \/ Returns /\ pc' = pc
<1>1. stack \in Seq(Frames)
  BY DEF RunnerTypeOK, Frames
<1>2. pc = "run" => stack # << >> /\ Call.at <= Len(Call.flow)
  BY DEF RunnerTypeOK
<1>3. ASSUME stack # << >>, Continue(TRUE) PROVE MovesOn(Call.at + 1, TRUE)
  <2>1. MovesOn(Call.at + 1, Call.bad \/ TRUE)
    BY <1>1, <1>3, ContinueMovesOn
  <2> QED
    BY <2>1 DEF MovesOn, IsFrame
<1>4. ASSUME stack # << >>, Continue(FALSE) PROVE MovesOn(Call.at + 1, Call.bad)
  <2>1. MovesOn(Call.at + 1, Call.bad \/ FALSE)
    BY <1>1, <1>4, ContinueMovesOn
  <2> QED
    BY <2>1 DEF MovesOn, IsFrame
<1>5. SkipAll => MovesOn(Len(Call.flow) + 1, TRUE)
  BY <1>1, <1>2, StopMovesOn DEF SkipAll
<1>6. SkipStopped \/ SkipErrored \/ JobFails => MovesOn(Call.at + 1, TRUE)
  BY <1>2, <1>3 DEF SkipStopped, SkipErrored, JobFails, Runs
<1>7. ASSUME JobResponds
      PROVE  \/ stop' /\ MovesOn(Len(Call.flow) + 1, TRUE)
             \/ stop' = stop /\ MovesOn(Call.at + 1, Call.bad)
             \/ stop' = stop /\ Calls(Diversion[Job])
  <2>1. stack # << >> /\ Diversion[Job] \in Seq(Jobs)
    BY <1>2, <1>7, JobInTurn DEF JobResponds, Runs
  <2> QED
    BY <1>1, <1>4, <1>7, <2>1, StopMovesOn, AppendCalls DEF JobResponds
<1>8. ASSUME Finish
      PROVE  \/ Len(stack) = 1 /\ stack' = << >> /\ pc' = IF Call.bad THEN "failed" ELSE "done"
             \/ Returns /\ pc' = pc
  BY <1>1, <1>8, FinishReturns DEF Finish
<1> QED
  BY <1>5, <1>6, <1>7, <1>8

LEMMA TypesStay ==
  ASSUME RunnerTypeOK, CallsAreNested, RunnerNext
  PROVE  RunnerTypeOK'
<1>1. stack \in Seq(Frames)
  BY DEF RunnerTypeOK, Frames
<1>2. stack' \in Seq(Frames)
  <2>1. EnterDirectory => stack' = stack
    BY DEF EnterDirectory
  <2>2. <<>> \in Seq(Frames)
    OBVIOUS
  <2> QED
    BY <1>1, <2>1, <2>2, StackSteps DEF RunnerNext, MovesOn, Calls, Returns
<1>3. pc = "run" => Job \in Jobs
  BY JobInTurn DEF RunnerTypeOK
<1>4. pc' \in {"next", "run", "failed", "done"} /\ (pc' = "run" => pc = "next" /\ EnterDirectory)
  BY DEF RunnerTypeOK, RunnerNext, EnterDirectory, SkipAll, SkipStopped, SkipErrored, JobFails, JobResponds, Finish
<1>5. pc' = "run" => stack' # << >> /\ (Call.at <= Len(Call.flow))'
  BY <1>4 DEF EnterDirectory, Call
<1>6. ran' \in Seq(Jobs) /\ answered' \subseteq Jobs /\ stopped' \subseteq Jobs /\ errored' \subseteq Jobs /\ stop' \in BOOLEAN
  <2>1. ran' \in Seq(Jobs)
    <3>1. CASE ran' = ran
      BY <3>1 DEF RunnerTypeOK
    <3>2. CASE Runs
      BY <1>3, <3>2 DEF RunnerTypeOK, Runs
    <3> QED
      BY <3>1, <3>2 DEF RunnerNext, EnterDirectory, SkipAll, SkipStopped, SkipErrored, JobFails, JobResponds, Finish
  <2>2. answered' \subseteq Jobs /\ stopped' \subseteq Jobs /\ errored' \subseteq Jobs
    BY <1>3 DEF RunnerTypeOK, RunnerNext, EnterDirectory, SkipAll, SkipStopped, SkipErrored, JobFails, JobResponds, Runs, Finish
  <2>3. stop' \in BOOLEAN
    BY DEF RunnerTypeOK, RunnerNext, EnterDirectory, SkipAll, SkipStopped, SkipErrored, JobFails, JobResponds, Runs, Finish
  <2> QED
    BY <2>1, <2>2, <2>3
<1> QED
  BY <1>2, <1>4, <1>5, <1>6 DEF RunnerTypeOK, Frames

-----------------------------------------------------------------------------
(* Turns: what an action does to the calls and to the jobs that are decided. *)

Turn == pc = "run" /\ Decided' = Decided \cup {Job} /\ Ran \subseteq Ran' /\ answered \subseteq answered'

\* The action leaves the jobs as they are, or is the turn of a job.
LEMMA Turns ==
  ASSUME RunnerTypeOK, CallsAreNested
  PROVE  /\ EnterDirectory \/ SkipAll \/ Finish => Decided' = Decided /\ Ran' = Ran /\ answered' = answered
         /\ SkipStopped \/ SkipErrored => Turn /\ Ran' = Ran /\ answered' = answered
         /\ JobFails => Turn /\ Ran' = Ran \cup {Job} /\ answered' = answered /\ Job \in errored'
         /\ JobResponds => Turn /\ Ran' = Ran \cup {Job} /\ answered' = answered \cup {Job}
<1>1. ASSUME Runs PROVE Ran' = Ran \cup {Job}
  <2>1. Job \in Jobs /\ ran \in Seq(Jobs)
    BY <1>1, JobInTurn DEF RunnerTypeOK, Runs
  <2>2. ran' = Append(ran, Job)
    BY <1>1 DEF Runs
  <2>3. Len(ran') = Len(ran) + 1 /\ ran'[Len(ran) + 1] = Job /\ \A i \in 1..Len(ran) : ran'[i] = ran[i]
    BY <2>1, <2>2
  <2>4. DOMAIN ran = 1..Len(ran) /\ DOMAIN ran' = 1..(Len(ran) + 1) /\ Len(ran) \in Nat
    BY <2>1, <2>2
  <2> QED
    BY <2>3, <2>4 DEF Ran, ToSet
<1>2. EnterDirectory \/ SkipAll \/ Finish => Decided' = Decided /\ Ran' = Ran /\ answered' = answered
  BY DEF EnterDirectory, SkipAll, Finish, Decided, Ran
<1>3. SkipStopped \/ SkipErrored => Turn /\ Ran' = Ran /\ answered' = answered
  BY DEF SkipStopped, SkipErrored, Turn, Decided, Ran
<1>4. JobFails => Turn /\ Ran' = Ran \cup {Job} /\ answered' = answered /\ Job \in errored'
  BY <1>1 DEF JobFails, Runs, Turn, Decided
<1>5. JobResponds => Turn /\ Ran' = Ran \cup {Job} /\ answered' = answered \cup {Job}
  BY <1>1 DEF JobResponds, Runs, Turn, Decided
<1> QED
  BY <1>2, <1>3, <1>4, <1>5

LEMMA Undecided ==
  ASSUME RunnerTypeOK, CallsAreNested, TurnsComeOnce, pc = "run" \/ EnterDirectory
  PROVE  /\ Job \in Jobs /\ Job \notin Decided /\ Job \notin Ran
         /\ \A i \in DOMAIN Call.flow : i # Call.at => Call.flow[i] # Job
         /\ \A k \in DOMAIN stack : k # Len(stack) => Job \notin ToSet(stack[k].flow)
         /\ Job \in ToSet(Call.flow)
<1>1. stack \in Seq(Frames) /\ stack # << >> /\ Call.at <= Len(Call.flow)
  BY DEF RunnerTypeOK, Frames, EnterDirectory
<1>2. /\ Len(stack) \in DOMAIN stack /\ Call = stack[Len(stack)]
      /\ Call.at \in DOMAIN Call.flow /\ Job = Call.flow[Call.at] /\ Job \in Jobs
  BY <1>1, CallIsFrame, JobInTurn
<1>3. Job \notin Decided /\ Job \notin Ran
  BY <1>2 DEF TurnsComeOnce, IsPending, Decided
<1>4. \A i \in DOMAIN Call.flow : i # Call.at => Call.flow[i] # Job
  BY <1>2, FlowOfCall DEF IsFlow, IsInjective
<1>5. Job \in ToSet(Call.flow)
  BY <1>2 DEF ToSet
<1>6. \A k \in DOMAIN stack : k # Len(stack) => Job \notin ToSet(stack[k].flow)
  BY <1>2, <1>5 DEF CallsAreNested
<1> QED
  BY <1>2, <1>3, <1>4, <1>5, <1>6

\* The flow that a job asks for is new.
LEMMA NewFlow ==
  ASSUME RunnerTypeOK, CallsAreNested, TurnsComeOnce, pc = "run"
  PROVE  /\ ToSet(Diversion[Job]) \cap (Decided \cup {Job}) = {}
         /\ \A k \in DOMAIN stack : ToSet(stack[k].flow) \cap ToSet(Diversion[Job]) = {}
<1>1. Job \in Jobs /\ Job \notin Ran /\ Job \in ToSet(Call.flow)
  BY Undecided
<1>2. ToSet(Diversion[Job]) \cap ToSet(Stages) = {}
  BY <1>1, FlowAssumption
<1>3. \A p \in Ran : ToSet(Diversion[p]) \cap ToSet(Diversion[Job]) = {}
  <2>1. Ran \subseteq Jobs
    BY DEF RunnerTypeOK, Ran, ToSet
  <2> QED
    BY <1>1, <2>1, FlowAssumption
<1>4. \A k \in DOMAIN stack : ToSet(stack[k].flow) \cap ToSet(Diversion[Job]) = {}
  BY <1>2, <1>3, FlowOfCall
<1>5. Len(stack) \in DOMAIN stack /\ Call = stack[Len(stack)]
  BY CallIsFrame DEF RunnerTypeOK, Frames
<1>6. Decided \cap ToSet(Diversion[Job]) = {}
  BY <1>2, <1>3 DEF TurnsComeOnce
<1> QED
  BY <1>1, <1>4, <1>5, <1>6

\* The innermost call goes on, to a later job of its flow.
Advances ==
    /\ stack # << >> /\ Len(stack') = Len(stack)
    /\ \A k \in DOMAIN stack : k < Len(stack) => stack'[k] = stack[k]
    /\ stack'[Len(stack)].flow = Call.flow
    /\ stack'[Len(stack)].at \in Nat /\ Call.at < stack'[Len(stack)].at

LEMMA AdvancesWhenMoved ==
  ASSUME stack \in Seq(Frames), stack # << >>, NEW at, NEW isBad, MovesOn(at, isBad), Call.at < at
  PROVE  Advances /\ stack'[Len(stack)].at = at
<1>1. stack'[Len(stack)] \in Frames /\ stack'[Len(stack)].at = at
  BY DEF MovesOn, IsFrame
<1>2. stack'[Len(stack)].at \in Nat
  BY <1>1 DEF Frames
<1> QED
  BY <1>1, <1>2 DEF MovesOn, IsFrame, Advances

\* An action goes on with the calls as they are, or with later jobs of the innermost
\* one, makes one for a new flow, or returns from one.
LEMMA Shapes ==
  ASSUME RunnerTypeOK, CallsAreNested, RunnerNext
  PROVE  \/ EnterDirectory /\ stack' = stack /\ Decided' = Decided /\ Ran' = Ran /\ answered' = answered
         \/ /\ pc = "run" /\ (Turn \/ (SkipAll /\ Decided' = Decided /\ Ran' = Ran /\ answered' = answered))
            /\ Advances /\ (~stop' => ~stop /\ Turn /\ stack'[Len(stack)].at = Call.at + 1)
         \/ pc = "run" /\ JobResponds /\ Turn /\ Job \in answered' /\ Job \in Ran' /\ stop' = stop /\ Calls(Diversion[Job])
         \/ Finish /\ Decided' = Decided /\ Ran' = Ran /\ answered' = answered /\ (stack' = << >> \/ Returns)
<1>1. pc = "run" => /\ stack \in Seq(Frames) /\ stack # << >>
                    /\ Call.at < Call.at + 1 /\ Call.at < Len(Call.flow) + 1
  BY CallIsFrame DEF RunnerTypeOK, Frames
<1>2. CASE EnterDirectory
  BY <1>2, Turns DEF EnterDirectory
<1>3. CASE SkipAll
  <2>1. pc = "run" /\ MovesOn(Len(Call.flow) + 1, TRUE) /\ stop' = stop /\ stop
    BY <1>3, StackSteps DEF SkipAll
  <2>2. Advances
    BY <1>1, <2>1, AdvancesWhenMoved
  <2> QED
    BY <1>3, <2>1, <2>2, Turns
<1>4. CASE SkipStopped \/ SkipErrored \/ JobFails
  <2>1. pc = "run" /\ MovesOn(Call.at + 1, TRUE) /\ stop' = stop /\ ~stop /\ Turn
    BY <1>4, StackSteps, Turns DEF SkipStopped, SkipErrored, JobFails, Runs
  <2>2. Advances /\ stack'[Len(stack)].at = Call.at + 1
    BY <1>1, <2>1, AdvancesWhenMoved
  <2> QED
    BY <2>1, <2>2
<1>5. CASE JobResponds
  <2>1. pc = "run" /\ ~stop /\ Turn /\ Job \in answered' /\ Job \in Ran'
    BY <1>5, Turns DEF JobResponds, Runs
  <2>2. CASE stop' /\ MovesOn(Len(Call.flow) + 1, TRUE)
    <3>1. Advances
      BY <1>1, <2>1, <2>2, AdvancesWhenMoved
    <3> QED
      BY <2>1, <2>2, <3>1
  <2>3. CASE stop' = stop /\ MovesOn(Call.at + 1, Call.bad)
    <3>1. Advances /\ stack'[Len(stack)].at = Call.at + 1
      BY <1>1, <2>1, <2>3, AdvancesWhenMoved
    <3> QED
      BY <2>1, <2>3, <3>1
  <2> QED
    BY <1>5, <2>1, <2>2, <2>3, StackSteps
<1>6. CASE Finish
  BY <1>6, StackSteps, Turns
<1> QED
  BY <1>2, <1>3, <1>4, <1>5, <1>6 DEF RunnerNext

\* Calls that stay, or return, are nested as they were.
LEMMA StillNested ==
  ASSUME stack \in Seq(Frames), stack' \in Seq(Frames), CallsAreNested, Len(stack') <= Len(stack),
         Ran \subseteq Ran', answered \subseteq answered',
         \A k \in DOMAIN stack' : stack'[k].flow = stack[k].flow /\ (k < Len(stack') => stack'[k].at = stack[k].at)
  PROVE  CallsAreNested'
<1>1. DOMAIN stack' \subseteq DOMAIN stack /\ \A k \in DOMAIN stack' : k < Len(stack') => k < Len(stack)
  OBVIOUS
<1>2. ASSUME NEW k \in DOMAIN stack'
      PROVE  /\ IF k = 1 THEN stack'[k].flow = Stages ELSE \E j \in Ran' : stack'[k].flow = Diversion[j]
             /\ k < Len(stack') =>
                   stack'[k].at \in DOMAIN stack'[k].flow /\ stack'[k].flow[stack'[k].at] \in answered'
  <2>1. k \in DOMAIN stack /\ stack'[k].flow = stack[k].flow
    BY <1>1
  <2>2. IF k = 1 THEN stack[k].flow = Stages ELSE \E j \in Ran : stack[k].flow = Diversion[j]
    BY <2>1 DEF CallsAreNested
  <2>3. k < Len(stack') => stack[k].at \in DOMAIN stack[k].flow /\ stack[k].flow[stack[k].at] \in answered
    BY <1>1, <2>1 DEF CallsAreNested
  <2> QED
    BY <2>1, <2>2, <2>3
<1>3. ASSUME NEW k \in DOMAIN stack', NEW l \in DOMAIN stack', k # l
      PROVE  ToSet(stack'[k].flow) \cap ToSet(stack'[l].flow) = {}
  <2>1. ToSet(stack[k].flow) \cap ToSet(stack[l].flow) = {}
    BY <1>1, <1>3 DEF CallsAreNested
  <2> QED
    BY <2>1
<1> QED
  BY <1>2, <1>3 DEF CallsAreNested

LEMMA NestedStays ==
  ASSUME RunnerTypeOK, CallsAreNested, TurnsComeOnce, RunnerNext
  PROVE  CallsAreNested'
<1> DEFINE n == Len(stack)
<1>1. stack \in Seq(Frames) /\ (stack # << >> => n \in DOMAIN stack /\ Call = stack[n])
  BY CallIsFrame DEF RunnerTypeOK, Frames
<1>2. Ran \subseteq Ran' /\ answered \subseteq answered'
  BY Shapes DEF Turn
<1>9. stack' \in Seq(Frames)
  BY TypesStay DEF RunnerTypeOK, Frames
<1>3. CASE stack' = stack
  BY <1>1, <1>2, <1>3, <1>9, StillNested
<1>4. CASE Advances
  <2>1. /\ Len(stack') <= Len(stack)
        /\ \A k \in DOMAIN stack' : stack'[k].flow = stack[k].flow /\ (k < Len(stack') => stack'[k].at = stack[k].at)
    BY <1>1, <1>4, <1>9 DEF Advances
  <2> QED
    BY <1>1, <1>2, <1>9, <2>1, StillNested
<1>5. CASE pc = "run" /\ Job \in answered' /\ Job \in Ran' /\ Calls(Diversion[Job])
  <2>1. /\ DOMAIN stack' = 1..(n + 1) /\ DOMAIN stack = 1..n /\ Len(stack') = n + 1 /\ n \in Nat \ {0}
        /\ \A k \in 1..n : stack'[k] = stack[k]
        /\ stack'[n + 1].flow = Diversion[Job]
    BY <1>1, <1>5 DEF Calls, IsFrame, RunnerTypeOK
  <2>2. stack[n].at \in DOMAIN stack[n].flow /\ stack[n].flow[stack[n].at] = Job
    BY <1>1, <1>5, JobInTurn DEF RunnerTypeOK
  <2>3. \A k \in 1..n : ToSet(stack[k].flow) \cap ToSet(Diversion[Job]) = {}
    BY <1>5, <2>1, NewFlow
  <2>4. ASSUME NEW k \in 1..(n + 1)
        PROVE  /\ IF k = 1 THEN stack'[k].flow = Stages ELSE \E j \in Ran' : stack'[k].flow = Diversion[j]
               /\ k < n + 1 => stack'[k].at \in DOMAIN stack'[k].flow /\ stack'[k].flow[stack'[k].at] \in answered'
    <3>1. CASE k = n + 1
      BY <1>5, <2>1, <3>1
    <3>2. CASE k < n
      BY <1>2, <2>1, <3>2 DEF CallsAreNested
    <3>3. CASE k = n
      <4>1. stack'[k] = stack[k] /\ k \in DOMAIN stack
        BY <2>1, <3>3
      <4>2. IF k = 1 THEN stack[k].flow = Stages ELSE \E j \in Ran : stack[k].flow = Diversion[j]
        BY <4>1 DEF CallsAreNested
      <4> QED
        BY <1>2, <1>5, <2>2, <3>3, <4>1, <4>2
    <3>4. k = n + 1 \/ k < n \/ k = n
      <4>1. n \in Nat
        BY <2>1
      <4> HIDE DEF n
      <4> QED
        BY <4>1
    <3> QED
      BY <3>1, <3>2, <3>3, <3>4
  <2>5. ASSUME NEW k \in 1..(n + 1), NEW l \in 1..(n + 1), k # l
        PROVE  ToSet(stack'[k].flow) \cap ToSet(stack'[l].flow) = {}
    <3>1. CASE k \in 1..n /\ l \in 1..n
      BY <2>1, <2>5, <3>1 DEF CallsAreNested
    <3>2. CASE k = n + 1 /\ l \in 1..n
      BY <2>1, <2>3, <3>2
    <3>3. CASE k \in 1..n /\ l = n + 1
      BY <2>1, <2>3, <3>3
    <3> QED
      BY <2>1, <2>5, <3>1, <3>2, <3>3
  <2> QED
    BY <2>1, <2>4, <2>5 DEF CallsAreNested
<1>6. CASE Returns
  <2>1. /\ Len(stack') <= Len(stack)
        /\ \A k \in DOMAIN stack' : stack'[k].flow = stack[k].flow /\ (k < Len(stack') => stack'[k].at = stack[k].at)
    BY <1>1, <1>6 DEF Returns, IsFrame
  <2> QED
    BY <1>1, <1>2, <1>9, <2>1, StillNested
<1>7. CASE stack' = << >>
  BY <1>7 DEF CallsAreNested
<1> QED
  BY <1>3, <1>4, <1>5, <1>6, <1>7, Shapes

LEMMA TurnsStay ==
  ASSUME RunnerTypeOK, CallsAreNested, TurnsComeOnce, RunnerNext
  PROVE  TurnsComeOnce'
<1> DEFINE n == Len(stack)
<1>1. stack \in Seq(Frames) /\ stack' \in Seq(Frames) /\ n \in Nat
      /\ (stack # << >> => n \in DOMAIN stack /\ Call = stack[n])
      /\ (pc = "run" => stack # << >> /\ Job = Call.flow[Call.at] /\ Call.at \in DOMAIN Call.flow)
  BY CallIsFrame, TypesStay, JobInTurn, SMTT(20) DEF RunnerTypeOK, Frames
<1>2. Ran \subseteq Ran' /\ answered \subseteq answered' /\ Decided \subseteq Decided'
  BY Shapes DEF Turn
<1>3. \A k \in DOMAIN stack : \A i \in DOMAIN stack[k].flow : i \in Nat /\ stack[k].at \in Nat
  BY <1>1, FrameTypes
<1>4. ASSUME NEW k \in DOMAIN stack', NEW i \in DOMAIN stack'[k].flow, IsPending(k, i)'
      PROVE  stack'[k].flow[i] \notin Decided'
  <2>1. IF k = Len(stack') THEN i >= stack'[k].at ELSE i > stack'[k].at
    <3>1. i \in Nat /\ stack'[k].at \in Nat
      BY <1>1, FrameTypes
    <3> QED
      BY <1>4, <3>1 DEF IsPending
  <2>2. CASE stack' = stack /\ Decided' = Decided
    BY <1>4, <2>2 DEF IsPending, TurnsComeOnce
  <2>3. CASE Advances /\ pc = "run" /\ Decided' \subseteq Decided \cup {Job}
    <3>1. Len(stack') = n /\ k \in DOMAIN stack /\ stack'[k].flow = stack[k].flow /\ (k # n => stack'[k] = stack[k])
      BY <1>1, <2>3 DEF Advances
    <3>2. i > stack[k].at
      BY <1>1, <1>3, <2>1, <2>3, <3>1 DEF Advances
    <3>3. stack[k].flow[i] \notin Decided
      BY <3>1, <3>2 DEF TurnsComeOnce, IsPending
    <3>4. stack[k].flow[i] # Job
      <4>1. CASE k = n
        <5>1. i # Call.at /\ i \in DOMAIN Call.flow
          BY <1>1, <1>3, <2>3, <3>1, <3>2, <4>1
        <5> QED
          BY <1>1, <2>3, <4>1, <5>1, Undecided
      <4>2. CASE k # n
        <5>1. stack[k].flow[i] \in ToSet(stack[k].flow)
          BY <3>1 DEF ToSet
        <5> QED
          BY <2>3, <3>1, <4>2, <5>1, Undecided
      <4> QED
        BY <4>1, <4>2
    <3> QED
      BY <2>3, <3>1, <3>3, <3>4
  <2>4. CASE pc = "run" /\ Turn /\ Calls(Diversion[Job])
    <3>1. Len(stack') = n + 1 /\ \A l \in DOMAIN stack : stack'[l] = stack[l]
      BY <2>4 DEF Calls
    <3>2. CASE k = n + 1
      <4>1. stack'[k].flow = Diversion[Job]
        BY <2>4, <3>2 DEF Calls, IsFrame
      <4>2. stack'[k].flow[i] \in ToSet(Diversion[Job])
        BY <4>1 DEF ToSet
      <4> QED
        BY <2>4, <4>2, NewFlow DEF Turn
    <3>3. CASE k # n + 1
      <4>1. k \in DOMAIN stack /\ stack'[k] = stack[k]
        BY <1>1, <3>1, <3>3
      <4>2. i > stack[k].at
        BY <2>1, <3>1, <3>3, <4>1
      <4>3. stack[k].flow[i] \notin Decided
        BY <4>1, <4>2 DEF TurnsComeOnce, IsPending
      <4>4. stack[k].flow[i] # Job
        <5>1. CASE k = n
          <6>1. i # Call.at /\ i \in DOMAIN Call.flow
            BY <1>1, <1>3, <2>4, <4>1, <4>2, <5>1
          <6> QED
            BY <1>1, <2>4, <5>1, <6>1, Undecided
        <5>2. CASE k # n
          <6>1. stack[k].flow[i] \in ToSet(stack[k].flow)
            BY <4>1 DEF ToSet
          <6> QED
            BY <2>4, <4>1, <5>2, <6>1, Undecided
        <5> QED
          BY <5>1, <5>2
      <4> QED
        BY <2>4, <4>1, <4>3, <4>4 DEF Turn
    <3> QED
      BY <3>2, <3>3
  <2>5. CASE Returns /\ Decided' = Decided
    <3>1. k \in DOMAIN stack /\ stack'[k].flow = stack[k].flow /\ i > stack[k].at
      <4>1. Len(stack') = n - 1 /\ k <= n - 1
        BY <1>1, <2>5 DEF Returns
      <4>2. k \in DOMAIN stack /\ stack'[k].flow = stack[k].flow
        BY <1>1, <2>5, <4>1 DEF Returns, IsFrame
      <4>3. IF k = n - 1 THEN stack'[k].at = stack[k].at + 1 ELSE stack'[k].at = stack[k].at
        BY <1>1, <2>5, <4>1 DEF Returns, IsFrame
      <4> QED
        BY <1>3, <2>1, <4>1, <4>2, <4>3
    <3> QED
      BY <2>5, <3>1 DEF TurnsComeOnce, IsPending
  <2>6. stack' # << >>
    BY <1>4
  <2> QED
    BY <2>2, <2>3, <2>4, <2>5, <2>6, Shapes DEF Turn
<1>5. ASSUME NEW j \in Decided' PROVE j \in ToSet(Stages) \/ \E p \in Ran' : j \in ToSet(Diversion[p])
  <2>1. CASE j \in Decided
    BY <1>2, <2>1 DEF TurnsComeOnce
  <2>2. CASE pc = "run" /\ j = Job
    <3>1. j \in ToSet(Call.flow)
      BY <2>2, Undecided
    <3> QED
      BY <1>1, <1>2, <2>2, <3>1, FlowOfCall
  <2> QED
    BY <2>1, <2>2, Shapes DEF Turn
<1>6. ASSUME ~stop', NEW k \in DOMAIN stack', NEW i \in DOMAIN stack'[k].flow, i < stack'[k].at
      PROVE  stack'[k].flow[i] \in Decided'
  <2>1. ~stop
    BY <1>6 DEF RunnerNext, EnterDirectory, SkipAll, SkipStopped, SkipErrored, JobFails, JobResponds, Runs, Finish
  <2>2. \A l \in DOMAIN stack : \A h \in DOMAIN stack[l].flow : h < stack[l].at => stack[l].flow[h] \in Decided'
    BY <1>2, <2>1 DEF TurnsComeOnce
  <2>3. CASE stack' = stack
    BY <1>6, <2>2, <2>3
  <2>4. CASE Advances /\ pc = "run" /\ Turn /\ stack'[n].at = Call.at + 1
    <3>1. Len(stack') = n /\ k \in DOMAIN stack /\ stack'[k].flow = stack[k].flow /\ (k # n => stack'[k] = stack[k])
      BY <1>1, <2>4 DEF Advances
    <3>2. i < stack[k].at \/ (k = n /\ i = Call.at)
      BY <1>1, <1>3, <1>6, <2>4, <3>1
    <3> QED
      BY <1>1, <2>2, <2>4, <3>1, <3>2 DEF Turn
  <2>5. CASE Calls(Diversion[Job])
    <3>1. CASE k = n + 1
      <4>1. stack'[k].at = 1 /\ i \in Nat \ {0}
        BY <1>1, <2>5, <3>1 DEF Calls, IsFrame, Frames
      <4> QED
        BY <1>6, <4>1
    <3>2. CASE k # n + 1
      <4>1. k \in DOMAIN stack /\ stack'[k] = stack[k]
        BY <1>1, <2>5, <3>2 DEF Calls
      <4> QED
        BY <1>6, <2>2, <4>1
    <3> QED
      BY <3>1, <3>2
  <2>6. CASE Returns
    <3>1. Len(stack') = n - 1 /\ k <= n - 1
      BY <1>1, <2>6 DEF Returns
    <3>2. k \in DOMAIN stack /\ stack'[k].flow = stack[k].flow
      BY <1>1, <2>6, <3>1 DEF Returns, IsFrame
    <3>3. IF k = n - 1 THEN stack'[k].at = stack[k].at + 1 ELSE stack'[k].at = stack[k].at
      BY <1>1, <2>6, <3>1 DEF Returns, IsFrame
    <3>4. i < stack[k].at \/ (k < n /\ i = stack[k].at)
      BY <1>1, <1>3, <1>6, <3>1, <3>2, <3>3
    <3>5. k < n => stack[k].flow[stack[k].at] \in answered
      BY <3>2 DEF CallsAreNested
    <3> QED
      BY <1>2, <2>2, <3>2, <3>4, <3>5 DEF Decided
  <2>7. stack' # << >>
    BY <1>6
  <2> QED
    BY <1>6, <2>3, <2>4, <2>5, <2>6, <2>7, Shapes
<1>7. answered' \subseteq Ran' /\ Ran' \subseteq answered' \cup errored'
  <2>1. answered \subseteq Ran /\ Ran \subseteq answered \cup errored
    BY DEF TurnsComeOnce
  <2>2. errored \subseteq errored'
    BY DEF RunnerNext, EnterDirectory, SkipAll, SkipStopped, SkipErrored, JobFails, JobResponds, Finish
  <2> QED
    BY <2>1, <2>2, Turns DEF RunnerNext
<1> QED
  BY <1>4, <1>5, <1>6, <1>7 DEF TurnsComeOnce

-----------------------------------------------------------------------------
(* What the turns come to.                                                 *)

\* The parents of a job that runs have answered, and were not stopped.
LEMMA ParentsAnswered ==
  ASSUME RunnerTypeOK, CallsAreNested, TurnsComeOnce, Runs
  PROVE  Job \in Tolerant \/ Parents[Job] \subseteq answered \ (stopped \cup {Job})
<1>1. /\ pc = "run" /\ ~stop /\ stack # << >> /\ Call.at <= Len(Call.flow)
      /\ Parents[Job] \cap stopped = {} /\ (Parents[Job] \cap errored = {} \/ Job \in Tolerant)
  BY DEF Runs, RunnerTypeOK
<1>2. Len(stack) \in DOMAIN stack /\ Call = stack[Len(stack)]
  BY <1>1, CallIsFrame DEF RunnerTypeOK, Frames
<1>3. Parents[Job] \subseteq Decided
  BY <1>1, <1>2, JobInTurn DEF TurnsComeOnce
<1>4. Job \notin Decided
  BY <1>1, Undecided
<1> QED
  BY <1>1, <1>3, <1>4 DEF Decided

LEMMA DependentsStay ==
  ASSUME RunnerTypeOK, CallsAreNested, TurnsComeOnce, NoDependentStageRuns, RunnerNext
  PROVE  NoDependentStageRuns'
<1>1. \A j \in Ran : j \in Tolerant \/ Parents[j] \subseteq answered \ stopped
  BY DEF NoDependentStageRuns, Ran
<1>2. CASE UNCHANGED <<stopped>> /\ Ran' = Ran /\ answered' = answered
  BY <1>1, <1>2 DEF NoDependentStageRuns, Ran
<1>3. CASE pc = "run" /\ stopped' \subseteq stopped \cup {Job} /\ answered \subseteq answered' /\ Ran' \subseteq Ran \cup {j \in {Job} : Runs}
  <2>1. Job \notin answered
    BY <1>3, Undecided DEF Decided
  <2>2. ASSUME NEW j \in Ran' PROVE j \in Tolerant \/ Parents[j] \subseteq answered' \ stopped'
    <3>1. CASE j \in Ran
      BY <1>1, <1>3, <2>1, <3>1
    <3>2. CASE j = Job /\ Runs
      BY <1>3, <3>2, ParentsAnswered
    <3> QED
      BY <1>3, <3>1, <3>2
  <2> QED
    BY <2>2 DEF NoDependentStageRuns, Ran
<1>4. EnterDirectory \/ SkipAll \/ Finish \/ SkipErrored => UNCHANGED <<stopped>> /\ Ran' = Ran /\ answered' = answered
  BY DEF EnterDirectory, SkipAll, Finish, SkipErrored, Ran
<1>5. SkipStopped => pc = "run" /\ stopped' \subseteq stopped \cup {Job} /\ answered \subseteq answered' /\ Ran' = Ran
  BY DEF SkipStopped, Ran
<1>6. JobFails \/ JobResponds => Runs /\ pc = "run" /\ stopped' \subseteq stopped \cup {Job} /\ answered \subseteq answered' /\ Ran' = Ran \cup {Job}
  BY Turns DEF JobFails, JobResponds, Runs
<1> QED
  BY <1>2, <1>3, <1>4, <1>5, <1>6 DEF RunnerNext

LEMMA GoodCallsAnswered ==
  ASSUME RunnerTypeOK, CallsAreNested, BadIsRemembered, RunnerNext,
         NEW k \in DOMAIN stack', NEW i \in DOMAIN stack'[k].flow, ~stack'[k].bad, i < stack'[k].at
  PROVE  stack'[k].flow[i] \in answered'
<1> DEFINE n == Len(stack)
<1>1. /\ stack \in Seq(Frames) /\ stack' \in Seq(Frames) /\ n \in Nat /\ stack' # << >>
      /\ (pc = "run" => n \in DOMAIN stack /\ Call = stack[n] /\ Job = Call.flow[Call.at])
  BY CallIsFrame, TypesStay, SMTT(20) DEF RunnerTypeOK, Frames, Job
<1>2. answered \subseteq answered'
  BY Shapes DEF Turn
<1>3. \A l \in DOMAIN stack : \A h \in DOMAIN stack[l].flow :
         ~stack[l].bad /\ h < stack[l].at => stack[l].flow[h] \in answered'
  BY <1>2 DEF BadIsRemembered
<1>4. CASE stack' = stack
  BY <1>3, <1>4
<1>5. ASSUME NEW at, MovesOn(at, TRUE), pc = "run" PROVE stack'[k].flow[i] \in answered'
  <2>1. k \in DOMAIN stack /\ k # n /\ stack'[k] = stack[k]
    BY <1>1, <1>5 DEF MovesOn, IsFrame
  <2> QED
    BY <1>3, <2>1
<1>6. CASE JobResponds /\ MovesOn(Call.at + 1, Call.bad)
  <2>1. pc = "run" /\ Job \in answered'
    BY <1>6 DEF JobResponds, Runs
  <2>2. CASE k # n
    <3>1. k \in DOMAIN stack /\ stack'[k] = stack[k]
      BY <1>1, <1>6, <2>2 DEF MovesOn
    <3> QED
      BY <1>3, <3>1
  <2>3. CASE k = n
    <3>1. stack'[k].flow = Call.flow /\ stack'[k].at = Call.at + 1 /\ (stack'[k].bad <=> Call.bad)
      BY <1>6, <2>3 DEF MovesOn, IsFrame
    <3>2. i < Call.at \/ i = Call.at
      BY <1>1, <2>1, <2>3, <3>1, FrameTypes
    <3> QED
      BY <1>1, <1>3, <2>1, <3>1, <3>2
  <2> QED
    BY <2>2, <2>3
<1>7. CASE Calls(Diversion[Job])
  <2>1. CASE k = n + 1
    <3>1. stack'[k].at = 1
      BY <1>7, <2>1 DEF Calls, IsFrame
    <3> QED
      BY <1>1, <3>1, FrameTypes
  <2>2. CASE k # n + 1
    <3>1. k \in DOMAIN stack /\ stack'[k] = stack[k]
      BY <1>1, <1>7, <2>2 DEF Calls
    <3> QED
      BY <1>3, <3>1
  <2> QED
    BY <2>1, <2>2
<1>8. CASE Returns
  <2>1. Len(stack') = n - 1 /\ k <= n - 1 /\ k \in DOMAIN stack
    BY <1>1, <1>8 DEF Returns
  <2>2. CASE k # n - 1
    <3>1. stack'[k] = stack[k]
      BY <1>1, <1>8, <2>1, <2>2 DEF Returns
    <3> QED
      BY <1>3, <2>1, <3>1
  <2>3. CASE k = n - 1
    <3>1. stack'[k].flow = stack[k].flow /\ stack'[k].at = stack[k].at + 1 /\ ~stack[k].bad
      BY <1>8, <2>1, <2>3 DEF Returns, IsFrame
    <3>2. i < stack[k].at \/ i = stack[k].at
      BY <1>1, <2>1, <3>1, FrameTypes
    <3>3. stack[k].flow[stack[k].at] \in answered
      BY <1>1, <2>1, <2>3 DEF CallsAreNested
    <3> QED
      BY <1>2, <1>3, <2>1, <3>1, <3>2, <3>3
  <2> QED
    BY <2>2, <2>3
<1>9. CASE EnterDirectory
  BY <1>4, <1>9 DEF EnterDirectory
<1>10. CASE SkipAll \/ SkipStopped \/ SkipErrored \/ JobFails
  <2>1. pc = "run"
    BY <1>10 DEF SkipAll, SkipStopped, SkipErrored, JobFails, Runs
  <2> QED
    BY <1>5, <1>10, <2>1, StackSteps
<1>11. CASE JobResponds
  <2>1. pc = "run"
    BY <1>11 DEF JobResponds, Runs
  <2> QED
    BY <1>5, <1>6, <1>7, <1>11, <2>1, StackSteps
<1>12. CASE Finish
  BY <1>1, <1>8, <1>12, StackSteps
<1> QED
  BY <1>9, <1>10, <1>11, <1>12 DEF RunnerNext

SomeCallIsBad == \E k \in DOMAIN stack : stack[k].bad

LEMMA BadStays ==
  ASSUME RunnerTypeOK, CallsAreNested, TurnsComeOnce, BadIsRemembered, RunnerNext
  PROVE  BadIsRemembered'
<1> DEFINE n == Len(stack)
<1>1. /\ stack \in Seq(Frames) /\ stack' \in Seq(Frames) /\ n \in Nat
      /\ (stack # << >> => n \in DOMAIN stack /\ Call = stack[n] /\ Call.at \in Nat /\ Call.bad \in BOOLEAN)
      /\ (pc = "run" => stack # << >>)
  BY CallIsFrame, TypesStay, SMTT(20) DEF RunnerTypeOK, Frames
<1>2. stop \/ ~(Ran \subseteq answered) => pc = "failed" \/ SomeCallIsBad
  BY DEF BadIsRemembered, SomeCallIsBad
<1>3. ASSUME NEW at, MovesOn(at, TRUE), pc = "run" PROVE SomeCallIsBad' /\ stack' # << >>
  <2>1. n \in DOMAIN stack' /\ stack'[n].bad
    BY <1>1, <1>3 DEF MovesOn, IsFrame
  <2> QED
    BY <2>1 DEF SomeCallIsBad
<1>4. CASE EnterDirectory
  <2>1. stack' = stack /\ stop' = stop /\ Ran' = Ran /\ answered' = answered /\ pc = "next" /\ pc' \in {"run", "failed"} /\ stack # << >>
    BY <1>4 DEF EnterDirectory, Ran
  <2>2. stop' \/ ~(Ran' \subseteq answered') => SomeCallIsBad'
    BY <1>2, <2>1 DEF SomeCallIsBad
  <2> QED
    BY <2>1, <2>2, GoodCallsAnswered DEF BadIsRemembered, SomeCallIsBad, DoneMeansAllRan
<1>5. CASE SkipAll \/ SkipStopped \/ SkipErrored \/ JobFails
  <2>1. pc = "run" /\ pc' = "next"
    BY <1>5 DEF SkipAll, SkipStopped, SkipErrored, JobFails, Runs
  <2>2. SomeCallIsBad' /\ stack' # << >>
    BY <1>3, <1>5, <2>1, StackSteps
  <2> QED
    BY <2>1, <2>2, GoodCallsAnswered DEF BadIsRemembered, SomeCallIsBad, DoneMeansAllRan
<1>6. CASE JobResponds
  <2>1. pc = "run" /\ pc' = "next" /\ Ran' = Ran \cup {Job} /\ answered' = answered \cup {Job}
    BY <1>6, Turns DEF JobResponds, Runs
  <2>2. stack' # << >> /\ (stop' \/ ~(Ran' \subseteq answered') => SomeCallIsBad')
    <3>1. CASE stop' /\ MovesOn(Len(Call.flow) + 1, TRUE)
      BY <1>3, <2>1, <3>1
    <3>2. CASE stop' = stop /\ MovesOn(Call.at + 1, Call.bad)
      <4>1. ASSUME NEW k \in DOMAIN stack, stack[k].bad PROVE SomeCallIsBad'
        <5>1. k \in DOMAIN stack' /\ stack'[k].bad
          BY <1>1, <2>1, <3>2, <4>1 DEF MovesOn, IsFrame
        <5> QED
          BY <5>1 DEF SomeCallIsBad
      <4>2. stack' # << >>
        BY <1>1, <2>1, <3>2 DEF MovesOn
      <4> QED
        BY <1>2, <2>1, <3>2, <4>1, <4>2 DEF SomeCallIsBad
    <3>3. CASE stop' = stop /\ Calls(Diversion[Job])
      <4>1. ASSUME NEW k \in DOMAIN stack, stack[k].bad PROVE SomeCallIsBad'
        <5>1. k \in DOMAIN stack' /\ stack'[k].bad
          BY <1>1, <2>1, <3>3, <4>1 DEF Calls
        <5> QED
          BY <5>1 DEF SomeCallIsBad
      <4>2. stack' # << >>
        BY <1>1, <2>1, <3>3 DEF Calls
      <4> QED
        BY <1>2, <2>1, <3>3, <4>1, <4>2 DEF SomeCallIsBad
    <3> QED
      BY <1>6, <3>1, <3>2, <3>3, StackSteps
  <2> QED
    BY <2>1, <2>2, GoodCallsAnswered DEF BadIsRemembered, SomeCallIsBad, DoneMeansAllRan
<1>7. CASE Finish
  <2>1. /\ pc = "next" /\ stack # << >> /\ Call.at > Len(Call.flow)
        /\ stop' = stop /\ Ran' = Ran /\ answered' = answered
    BY <1>7 DEF Finish, Ran
  <2>2. CASE n = 1 /\ stack' = << >> /\ pc' = IF Call.bad THEN "failed" ELSE "done"
    <3>1. SomeCallIsBad => Call.bad
      BY <1>1, <2>1, <2>2 DEF SomeCallIsBad
    <3>2. stop' \/ ~(Ran' \subseteq answered') => pc' = "failed"
      BY <1>2, <2>1, <2>2, <3>1
    <3>3. ASSUME ~Call.bad PROVE ToSet(Stages) \subseteq answered
      <4>1. Call.flow = Stages
        BY <1>1, <2>1, <2>2 DEF CallsAreNested
      <4>2. \A i \in DOMAIN Call.flow : i < Call.at
        BY <1>1, <2>1, CallIsFrame
      <4>3. \A i \in DOMAIN Stages : Stages[i] \in answered
        BY <1>1, <2>1, <3>3, <4>1, <4>2 DEF BadIsRemembered
      <4> QED
        BY <4>3 DEF ToSet
    <3>4. DoneMeansAllRan'
      BY <1>1, <2>1, <2>2, <3>2, <3>3 DEF DoneMeansAllRan, Ran
    <3>5. pc' \in {"failed", "done"}
      BY <2>2
    <3> QED
      BY <2>2, <3>2, <3>4, <3>5 DEF BadIsRemembered
  <2>3. CASE Returns /\ pc' = pc
    <3>1. stack' # << >>
      BY <1>1, <2>3 DEF Returns
    <3>2. ASSUME NEW k \in DOMAIN stack, stack[k].bad PROVE SomeCallIsBad'
      <4>1. Len(stack') = n - 1 /\ n > 1 /\ Len(stack') \in DOMAIN stack'
        BY <1>1, <2>3 DEF Returns
      <4>2. CASE k < n - 1
        <5>1. k \in DOMAIN stack' /\ stack'[k] = stack[k]
          BY <1>1, <2>3, <4>1, <4>2 DEF Returns
        <5> QED
          BY <3>2, <5>1 DEF SomeCallIsBad
      <4>3. CASE k = n - 1 \/ k = n
        <5>1. stack'[Len(stack')].bad
          BY <1>1, <2>1, <2>3, <3>2, <4>1, <4>3 DEF Returns, IsFrame
        <5> QED
          BY <4>1, <5>1 DEF SomeCallIsBad
      <4> QED
        BY <1>1, <4>1, <4>2, <4>3
    <3>3. stop' \/ ~(Ran' \subseteq answered') => SomeCallIsBad'
      BY <1>2, <2>1, <3>2 DEF SomeCallIsBad
    <3> QED
      BY <2>1, <2>3, <3>1, <3>3, GoodCallsAnswered DEF BadIsRemembered, SomeCallIsBad, DoneMeansAllRan
  <2> QED
    BY <1>7, <2>2, <2>3, StackSteps
<1> QED
  BY <1>4, <1>5, <1>6, <1>7 DEF RunnerNext

-----------------------------------------------------------------------------
(* The runner, from one start to the next.                                 *)

\* A run that begins knows nothing of the one before.
Begins ==
    /\ stack = <<Frame(Stages)>> /\ pc = "next"
    /\ stopped = {} /\ errored = {} /\ stop = FALSE /\ ran = << >> /\ answered = {}

LEMMA RunnerBegins == Begins => RunnerInv
<1> SUFFICES ASSUME Begins PROVE RunnerInv
  OBVIOUS
<1>1. IsFlow(Stages) /\ Stages \in Seq(Jobs)
  BY FlowAssumption DEF IsFlow
<1>2. Frame(Stages) \in Frames /\ Frame(Stages).flow = Stages /\ Frame(Stages).at = 1 /\ ~Frame(Stages).bad
  BY <1>1 DEF Frame, Frames
<1>3. /\ stack \in Seq(Frames) /\ DOMAIN stack = {1} /\ Len(stack) = 1
      /\ stack[1].flow = Stages /\ stack[1].at = 1 /\ ~stack[1].bad
  BY <1>2 DEF Begins
<1>4. Ran = {} /\ Decided = {} /\ ran = << >> /\ answered = {} /\ stop = FALSE /\ pc = "next" /\ ToSet(ran) = {}
  BY DEF Begins, Ran, Decided, ToSet
<1>5. RunnerTypeOK
  <2>2. stopped \subseteq Jobs /\ errored \subseteq Jobs
    BY DEF Begins
  <2>3. ran \in Seq(Jobs) /\ answered \subseteq Jobs /\ stop \in BOOLEAN
    <3>1. << >> \in Seq(Jobs)
      OBVIOUS
    <3>2. stop \in BOOLEAN
      BY <1>4, Zenon
    <3> QED
      BY <1>4, <3>1, <3>2, Zenon
  <2>4. pc \in {"next", "run", "failed", "done"} /\ pc # "run"
    BY <1>4
  <2>5. stack \in Seq([flow : Seq(Jobs), at : Nat \ {0}, bad : BOOLEAN])
    BY <1>3 DEF Frames
  <2> QED
    BY <2>2, <2>3, <2>4, <2>5 DEF RunnerTypeOK
<1>6. CallsAreNested
  BY <1>3 DEF CallsAreNested
<1>7. \A i \in DOMAIN Stages : ~(i < 1)
  BY <1>1
<1>8. TurnsComeOnce
  BY <1>3, <1>4, <1>7 DEF TurnsComeOnce
<1>9. NoDependentStageRuns
  BY <1>4 DEF NoDependentStageRuns
<1>10. BadIsRemembered
  <2>1. \A k \in DOMAIN stack : \A i \in DOMAIN stack[k].flow : ~(i < stack[k].at)
    BY <1>3, <1>7
  <2>2. ~stop /\ Ran \subseteq answered /\ stack # << >> /\ pc # "done"
    BY <1>3, <1>4
  <2> QED
    BY <2>1, <2>2 DEF BadIsRemembered, DoneMeansAllRan
<1> QED
  BY <1>5, <1>6, <1>8, <1>9, <1>10 DEF RunnerInv

LEMMA RunnerGoesOn ==
  ASSUME RunnerInv, RunnerNext
  PROVE  RunnerInv'
  BY TypesStay, NestedStays, TurnsStay, DependentsStay, BadStays DEF RunnerInv

LEMMA RestartBegins ==
  ASSUME RunnerInv, RunnerRestart
  PROVE  Begins'
BY DEF RunnerRestart, Begins

LEMMA RunnerUnchanged ==
  ASSUME RunnerInv, UNCHANGED runner
  PROVE  RunnerInv'
<1> USE DEF runner
<1>1. RunnerTypeOK' <=> RunnerTypeOK
  BY DEF RunnerTypeOK, Call
<1>2. CallsAreNested' <=> CallsAreNested
  BY DEF CallsAreNested, Ran
<1>3. TurnsComeOnce' <=> TurnsComeOnce
  BY DEF TurnsComeOnce, IsPending, Decided, Ran
<1>4. NoDependentStageRuns' <=> NoDependentStageRuns
  BY DEF NoDependentStageRuns
<1>5. BadIsRemembered' <=> BadIsRemembered
  BY DEF BadIsRemembered, DoneMeansAllRan, Ran
<1> QED
  BY <1>1, <1>2, <1>3, <1>4, <1>5 DEF RunnerInv

\* What a step of the job is for the runner in it.
LEMMA StepsOfRunner == [Next]_vars => RunnerNext \/ RunnerRestart \/ UNCHANGED runner
<1>1. LateImport => RunnerNext
  BY DEF LateImport, RunnerNext
<1>2. RunStages => RunnerNext
  BY DEF RunStages
<1>3. Start => RunnerRestart
  BY DEF Start
<1>4. Verify \/ ImportExecution \/ EnforceEnvironment \/ BuildFlow \/ Kill => UNCHANGED runner
  BY DEF Verify, ImportExecution, EnforceEnvironment, BuildFlow, Kill, Import, Exit
<1>5. Specify \/ UploadPackage \/ UploadLauncher \/ Preflight \/ MarkPrepared \/ PrepareFails \/ ReadState \/ Submit => UNCHANGED runner
  BY DEF Specify, UploadPackage, UploadLauncher, Preflight, MarkPrepared, PrepareFails, ReadState, Submit
<1>6. AddFile \/ ChangeEnvironment \/ (\E f \in Upgraded : Upgrade(f)) \/ (\E f \in Modules : EditFile(f)) => UNCHANGED runner
  BY DEF AddFile, ChangeEnvironment, Upgrade, EditFile
<1>7. UNCHANGED vars => UNCHANGED runner
  BY DEF vars
<1> QED
  BY <1>1, <1>2, <1>3, <1>4, <1>5, <1>6, <1>7 DEF Next, JobStep

\* In every run, and for whatever flows the stages ask for, the calls of _run are nested,
\* no job has two turns, and what went wrong is remembered.
THEOREM RunnerIsSafe == Spec => []RunnerInv
<1>1. Init => Begins
  BY DEF Init, RunnerInit, Begins
<1>2. RunnerInv /\ [Next]_vars => RunnerInv'
  <2>1. RunnerInv /\ RunnerNext => RunnerInv'
    BY RunnerGoesOn
  <2>2. RunnerInv /\ UNCHANGED runner => RunnerInv'
    BY RunnerUnchanged
  <2>3. RunnerInv /\ RunnerRestart => Begins'
    BY RestartBegins
  <2>4. Begins' => RunnerInv'
    BY RunnerBegins, PTL
  <2> QED
    BY <2>1, <2>2, <2>3, <2>4, StepsOfRunner
<1> QED
  BY <1>1, <1>2, RunnerBegins, PTL DEF Spec

\* A stage runs only after all it depends on has answered in this run.
THEOREM DependentsWait == Spec => []NoDependentStageRuns
<1>1. RunnerInv => NoDependentStageRuns
  BY DEF RunnerInv
<1> QED
  BY <1>1, RunnerIsSafe, PTL

\* A run that reports success ran all its stages, and all the flows they asked for.
THEOREM DoneIsTrue == Spec => []DoneMeansAllRan
<1>1. RunnerInv => DoneMeansAllRan
  BY DEF RunnerInv, BadIsRemembered
<1> QED
  BY <1>1, RunnerIsSafe, PTL

-----------------------------------------------------------------------------
(* The service and the job.                                                *)

\* The service goes on with an attempt, the files or packages of POWER change, or the
\* job does a step: each leaves to the others what is theirs.
ServiceStep ==
    \/ \E f \in Upgraded : Upgrade(f)
    \/ Specify \/ UploadPackage \/ UploadLauncher \/ Preflight \/ MarkPrepared \/ PrepareFails
    \/ ReadState \/ Submit

PowerStep == (\E f \in Modules : EditFile(f)) \/ AddFile \/ ChangeEnvironment

LEMMA WhoDoesWhat ==
  /\ Next => ServiceStep \/ PowerStep \/ Start \/ Kill \/ JobStep
  /\ ServiceStep => UNCHANGED <<ran, step, run, record, loaded, environment>>
  /\ PowerStep => UNCHANGED <<ran, prepare, read, state, job, torn, launcher, step, run, record, loaded>>
  /\ Start \/ Kill \/ JobStep => UNCHANGED <<prepare, read, state, job, torn, launcher, environment>>
<1>1. Next => ServiceStep \/ PowerStep \/ Start \/ Kill \/ JobStep
  BY DEF Next, ServiceStep, PowerStep
<1>2. ServiceStep => UNCHANGED <<ran, step, run, record, loaded, environment>>
  BY DEF ServiceStep, Upgrade, Specify, UploadPackage, UploadLauncher, Preflight, MarkPrepared, PrepareFails,
         ReadState, Submit, runner, guard, power
<1>3. PowerStep => UNCHANGED <<ran, prepare, read, state, job, torn, launcher, step, run, record, loaded>>
  BY DEF PowerStep, EditFile, AddFile, ChangeEnvironment, runner, service, disk, guard
<1>4. Start \/ Kill \/ JobStep => UNCHANGED <<prepare, read, state, job, torn, launcher, environment>>
  BY DEF Start, Kill, JobStep, Verify, ImportExecution, EnforceEnvironment, BuildFlow, LateImport, RunStages,
         Outside, service, disk, power
<1> QED
  BY <1>1, <1>2, <1>3, <1>4

\* What the service does with the Prepare that is under way and the state of the attempt.
LEMMA ServiceMoves ==
  ASSUME JobTypeOK, ServiceStep
  PROVE  /\ JobTypeOK'
         /\ \/ UNCHANGED <<prepare, state, read, torn, launcher, job>>
            \/ Specify /\ prepare'.step = "specified" /\ UNCHANGED <<state, read, torn, launcher, job>>
            \/ /\ prepare.step = "specified" /\ prepare'.step = "package"
               /\ prepare'.manifest = prepare'.provenance /\ UNCHANGED <<state, read, torn, launcher, job>>
            \/ /\ prepare.step = "package" /\ prepare'.step = "launcher" /\ launcher' = prepare.manifest
               /\ prepare'.manifest = prepare.manifest /\ prepare'.provenance = prepare.provenance
               /\ UNCHANGED <<state, read, torn, job>>
            \/ /\ prepare.step = "launcher" /\ prepare'.step = "checked"
               /\ prepare'.manifest = prepare.manifest /\ prepare'.provenance = prepare.provenance
               /\ UNCHANGED <<state, read, torn, launcher, job>>
            \/ /\ prepare.step = "checked" /\ prepare' = NoRequest /\ torn' = (read # Absent)
               /\ state'.phase = "prepared" /\ state'.provenance = prepare.provenance
               /\ UNCHANGED <<read, launcher, job>>
            \/ /\ prepare.step # "none" /\ prepare' = NoRequest
               /\ (torn' <=> torn \/ (prepare.step # "specified" /\ state.phase = "prepared"))
               /\ UNCHANGED <<read, state, launcher, job>>
            \/ ReadState /\ UNCHANGED <<prepare, state, torn, launcher, job>>
            \/ Submit /\ prepare' = NoRequest /\ state'.phase = "submitted" /\ UNCHANGED <<torn, launcher>>
<1>1. NoRequest = [step |-> NoRequest.step, provenance |-> NoRequest.provenance, manifest |-> NoRequest.manifest] /\ NoRequest.step = "none"
  BY DEF NoRequest
<1>2. environment' = environment /\ step' = step /\ run' = run
  BY WhoDoesWhat
<1>3. ASSUME prepare' = prepare, state' = state PROVE JobTypeOK'
  BY <1>2, <1>3 DEF JobTypeOK
<1>4. CASE \E f \in Upgraded : Upgrade(f)
  BY <1>3, <1>4 DEF Upgrade, disk
<1>5. CASE Specify
  BY <1>2, <1>5 DEF Specify, NoRequest, JobTypeOK, disk
<1>6. CASE UploadPackage
  <2>1. UNCHANGED <<state, read, torn, launcher, job>>
    BY <1>6 DEF UploadPackage, Abandon
  <2>2. CASE prepare' = NoRequest
    <3>1. prepare.step = "specified"
      BY <1>6 DEF UploadPackage
    <3>2. JobTypeOK'
      BY <1>1, <1>2, <2>1, <2>2 DEF JobTypeOK
    <3>3. torn' <=> torn \/ (prepare.step # "specified" /\ state.phase = "prepared")
      BY <2>1, <3>1
    <3> QED
      BY <2>1, <2>2, <3>1, <3>2, <3>3
  <2>3. CASE prepare' # NoRequest
    <3> DEFINE m == runtime_package_manifest_for_sources(checkout)
    <3>1. prepare.step = "specified" /\ prepare.provenance = m /\ prepare' = [prepare EXCEPT !.step = "package", !.manifest = m]
      BY <1>6, <2>3 DEF UploadPackage, Abandon, MayUpload
    <3> HIDE DEF m
    <3>2. prepare' = [step |-> "package", provenance |-> prepare.provenance, manifest |-> m]
      BY <3>1 DEF JobTypeOK
    <3>3. prepare' = [step |-> prepare'.step, provenance |-> prepare'.provenance, manifest |-> prepare'.manifest]
          /\ prepare'.step = "package" /\ prepare'.provenance = m /\ prepare'.manifest = m
      BY <3>1, <3>2
    <3>4. JobTypeOK'
      BY <1>2, <2>1, <3>3 DEF JobTypeOK
    <3> QED
      BY <2>1, <3>1, <3>3, <3>4
  <2> QED
    BY <2>2, <2>3
<1>7. CASE UploadLauncher \/ Preflight
  <2>1. PICK next \in {"launcher", "checked"} : prepare' = [prepare EXCEPT !.step = next]
    BY <1>7 DEF UploadLauncher, Preflight
  <2>2. prepare' = [step |-> next, provenance |-> prepare.provenance, manifest |-> prepare.manifest]
    BY <2>1 DEF JobTypeOK
  <2>3. prepare' = [step |-> prepare'.step, provenance |-> prepare'.provenance, manifest |-> prepare'.manifest]
        /\ prepare'.step = next /\ prepare'.provenance = prepare.provenance /\ prepare'.manifest = prepare.manifest
    BY <2>2
  <2>4. state' = state
    BY <1>7 DEF UploadLauncher, Preflight
  <2>5. JobTypeOK'
    BY <1>2, <2>3, <2>4 DEF JobTypeOK
  <2>6. UploadLauncher => prepare.step = "package" /\ prepare'.step = "launcher" /\ launcher' = prepare.manifest /\ UNCHANGED <<state, read, torn, job>>
    BY <2>2 DEF UploadLauncher, JobTypeOK
  <2>7. Preflight => prepare.step = "launcher" /\ prepare'.step = "checked" /\ UNCHANGED <<state, read, torn, launcher, job>>
    BY <2>2 DEF Preflight, JobTypeOK, disk
  <2> QED
    BY <1>7, <2>3, <2>5, <2>6, <2>7
<1>8. CASE MarkPrepared
  <2>1. /\ prepare.step = "checked" /\ prepare' = NoRequest /\ torn' = (read # Absent)
        /\ state' = [phase |-> "prepared", provenance |-> prepare.provenance] /\ UNCHANGED <<read, launcher, job>>
    BY <1>8 DEF MarkPrepared, disk
  <2>2. state'.phase = "prepared" /\ state'.provenance = prepare.provenance
        /\ state' = [phase |-> state'.phase, provenance |-> state'.provenance]
    BY <2>1
  <2>3. JobTypeOK'
    BY <1>1, <1>2, <2>1, <2>2 DEF JobTypeOK
  <2> QED
    BY <2>1, <2>2, <2>3
<1>9. CASE PrepareFails
  <2>1. /\ prepare.step # "none" /\ prepare' = NoRequest /\ UNCHANGED <<read, state, launcher, job>>
        /\ torn' = (torn \/ (prepare.step # "specified" /\ state.phase = "prepared"))
    BY <1>9 DEF PrepareFails, Abandon, disk
  <2>2. JobTypeOK'
    BY <1>1, <1>2, <2>1 DEF JobTypeOK
  <2> QED
    BY <2>1, <2>2
<1>10. CASE ReadState
  <2>1. UNCHANGED <<prepare, state, torn, launcher, job>>
    BY <1>10 DEF ReadState, disk
  <2> QED
    BY <1>3, <1>10, <2>1
<1>11. CASE Submit
  <2>1. prepare' = NoRequest /\ state' = [state EXCEPT !.phase = "submitted"] /\ UNCHANGED <<torn, launcher>>
    BY <1>11 DEF Submit, disk
  <2>2. state' = [phase |-> "submitted", provenance |-> state.provenance]
    BY <2>1 DEF JobTypeOK
  <2>3. state' = [phase |-> state'.phase, provenance |-> state'.provenance] /\ state'.phase = "submitted"
    BY <2>2
  <2>4. JobTypeOK'
    BY <1>1, <1>2, <2>1, <2>3 DEF JobTypeOK
  <2> QED
    BY <1>11, <2>1, <2>3, <2>4
<1> QED
  BY <1>4, <1>5, <1>6, <1>7, <1>8, <1>9, <1>10, <1>11 DEF ServiceStep

LEMMA ServiceKeeps ==
  ASSUME JobInv, ServiceStep
  PROVE  JobInv'
<1>1. UNCHANGED <<ran, step, run, record, loaded>>
  BY WhoDoesWhat
<1>2. JobTypeOK
  BY DEF JobInv
<1>3. ChecksComeFirst' /\ NothingRunsUnchecked'
  BY <1>1 DEF JobInv, ChecksComeFirst, NothingRunsUnchecked
<1>4. NoRequest.step = "none" /\ DOMAIN NoFiles = {}
  BY DEF NoRequest, NoFiles
<1>5. state.phase = "submitted" => prepare.step = "none" /\ UNCHANGED <<prepare, state, read, torn, launcher, job>>
  <2>1. state.phase = "submitted" => prepare.step = "none"
    BY <1>4 DEF JobInv, SubmittedIsFinal
  <2>2. state.phase = "submitted" => ~Specify /\ ~ReadState /\ ~Submit
    BY DEF Specify, ReadState, Submit
  <2> QED
    BY <1>2, <2>1, <2>2, ServiceMoves
<1>6. state.phase # "submitted" => step = "off" /\ loaded = NoFiles /\ ran = << >>
  BY DEF JobInv, SubmittedIsFinal
<1>7. SubmittedIsFinal'
  <2>1. state.phase # "submitted" /\ state'.phase = "submitted" => prepare' = NoRequest
    BY <1>2, ServiceMoves
  <2> QED
    BY <1>1, <1>5, <1>6, <2>1 DEF JobInv, SubmittedIsFinal
<1>8. OnlyUploadedCodeRuns'
  BY <1>1, <1>4, <1>5, <1>6 DEF JobInv, OnlyUploadedCodeRuns
<1>9. ProvenanceIsFollowed' /\ ProvenanceIsWhatRuns'
  <2>1. ProvenanceIsFollowed /\ ProvenanceIsWhatRuns
    BY DEF JobInv
  <2>2. CASE state.phase = "submitted"
    BY <1>5, <2>1, <2>2 DEF ProvenanceIsFollowed, ProvenanceIsWhatRuns
  <2>3. CASE state.phase # "submitted" /\ UNCHANGED <<prepare, state, read, torn, launcher, job>>
    BY <2>1, <2>3 DEF ProvenanceIsFollowed, ProvenanceIsWhatRuns
  <2>4. CASE state.phase # "submitted" /\ Specify /\ prepare'.step = "specified" /\ UNCHANGED <<state, read, torn, launcher, job>>
    <3>1. prepare.step = "none"
      BY <1>4, <2>4 DEF Specify
    <3> QED
      BY <2>1, <2>4, <3>1 DEF ProvenanceIsFollowed, ProvenanceIsWhatRuns
  <2>5. CASE /\ state.phase # "submitted" /\ prepare.step = "specified" /\ prepare'.step = "package"
             /\ prepare'.manifest = prepare'.provenance /\ UNCHANGED <<state, read, torn, launcher, job>>
    BY <2>1, <2>5 DEF ProvenanceIsFollowed, ProvenanceIsWhatRuns
  <2>6. CASE /\ state.phase # "submitted" /\ prepare.step = "package" /\ prepare'.step = "launcher" /\ launcher' = prepare.manifest
             /\ prepare'.manifest = prepare.manifest /\ prepare'.provenance = prepare.provenance
             /\ UNCHANGED <<state, read, torn, job>>
    BY <2>1, <2>6 DEF ProvenanceIsFollowed, ProvenanceIsWhatRuns
  <2>7. CASE /\ state.phase # "submitted" /\ prepare.step = "launcher" /\ prepare'.step = "checked"
             /\ prepare'.manifest = prepare.manifest /\ prepare'.provenance = prepare.provenance
             /\ UNCHANGED <<state, read, torn, launcher, job>>
    BY <2>1, <2>7 DEF ProvenanceIsFollowed, ProvenanceIsWhatRuns
  <2>8. CASE /\ prepare.step = "checked" /\ prepare' = NoRequest /\ torn' = (read # Absent)
             /\ state'.phase = "prepared" /\ state'.provenance = prepare.provenance /\ UNCHANGED <<read, launcher, job>>
    <3>1. launcher = prepare.provenance
      BY <2>1, <2>8 DEF ProvenanceIsFollowed
    <3>2. ~torn' => read' = Absent
      BY <2>8
    <3> QED
      BY <1>4, <2>8, <3>1, <3>2 DEF ProvenanceIsFollowed, ProvenanceIsWhatRuns
  <2>9. CASE /\ state.phase # "submitted" /\ prepare.step # "none" /\ prepare' = NoRequest
             /\ (torn' <=> torn \/ (prepare.step # "specified" /\ state.phase = "prepared"))
             /\ UNCHANGED <<read, state, launcher, job>>
    BY <1>4, <2>1, <2>9 DEF ProvenanceIsFollowed, ProvenanceIsWhatRuns
  <2>10. CASE ReadState /\ UNCHANGED <<prepare, state, torn, launcher, job>>
    <3>1. read' = state.provenance
      BY <2>10 DEF ReadState
    <3> QED
      BY <2>1, <2>10, <3>1 DEF ProvenanceIsFollowed, ProvenanceIsWhatRuns
  <2>11. CASE Submit /\ prepare' = NoRequest /\ state'.phase = "submitted" /\ UNCHANGED <<torn, launcher>>
    <3>1. /\ read # Absent /\ state.phase = "prepared" /\ prepare.step \in {"none", "specified"}
          /\ job' = read /\ read' = Absent
      BY <2>11 DEF Submit, Recorded
    <3> QED
      BY <1>4, <2>1, <2>11, <3>1 DEF ProvenanceIsFollowed, ProvenanceIsWhatRuns
  <2> QED
    BY <1>2, <2>2, <2>3, <2>4, <2>5, <2>6, <2>7, <2>8, <2>9, <2>10, <2>11, ServiceMoves
<1>10. JobTypeOK'
  BY <1>2, ServiceMoves
<1> QED
  BY <1>3, <1>7, <1>8, <1>9, <1>10 DEF JobInv

LEMMA PowerKeeps ==
  ASSUME JobInv, PowerStep
  PROVE  JobInv'
<1>1. UNCHANGED <<ran, prepare, read, state, job, torn, launcher, step, run, record, loaded>>
  BY WhoDoesWhat
<1>3. environment' \in Stacks
  BY DEF PowerStep, EditFile, AddFile, ChangeEnvironment, JobInv, JobTypeOK
<1>4. JobTypeOK'
  BY <1>1, <1>3 DEF JobInv, JobTypeOK
<1> QED
  BY <1>1, <1>4 DEF JobInv, SubmittedIsFinal, OnlyUploadedCodeRuns, ChecksComeFirst, NothingRunsUnchecked,
                    ProvenanceIsFollowed, ProvenanceIsWhatRuns

\* A record that says passed is of the environment of the preparation.
LEMMA PassedIsPrepared ==
  ASSUME JobTypeOK, EnforceEnvironment
  PROVE  /\ record'.run = run /\ record' # Absent
         /\ record'.status = "passed" => record'.packages = PreparedStack.packages /\ ~record'.updates
<1> DEFINE problems == runtime_parity_problems(prepared_runtime_parity(PreparedStack), environment.packages)
                       \cup atomate2_settings_problems(environment)
<1>1. record' = [run |-> run, status |-> IF problems = {} THEN "passed" ELSE "failed",
                 packages |-> environment.packages, updates |-> environment.updates]
  BY DEF EnforceEnvironment, runtime_environment_record
<1>2. environment.packages \in [Packages -> {1, 2, Absent}] /\ environment.updates \in BOOLEAN
  BY DEF JobTypeOK, Stacks
<1>3. ASSUME problems = {} PROVE environment.packages = PreparedStack.packages /\ ~environment.updates
  <2>1. runtime_parity_problems(prepared_runtime_parity(PreparedStack), environment.packages) = {}
    BY <1>3
  <2>2. \A p \in Packages : environment.packages[p] = PreparedStack.packages[p]
    BY <2>1 DEF runtime_parity_problems, prepared_runtime_parity
  <2>3. PreparedStack.packages = [p \in Packages |-> 1]
    BY DEF PreparedStack, Stack
  <2>4. ~environment.updates
    BY <1>3 DEF atomate2_settings_problems
  <2> QED
    BY <1>2, <2>2, <2>3, <2>4
<1> HIDE DEF problems
<1>4. record' \in [run : Nat, status : {"passed", "failed"}, packages : [Packages -> {1, 2, Absent}], updates : BOOLEAN]
  BY <1>1, <1>2 DEF JobTypeOK
<1>5. record' # Absent
  BY <1>4, JobAssumption
<1> QED
  BY <1>1, <1>3, <1>5

\* A module that is loaded has the bytes of the launcher's manifest, then and later.
LEMMA ExecutesUploaded ==
  ASSUME OnlyUploadedCodeRuns, NEW f, Loads(package, launcher, f), Executes(f), launcher' = launcher
  PROVE  OnlyUploadedCodeRuns' /\ DOMAIN loaded \cup {f} = DOMAIN loaded'
<1>1. DOMAIN loaded' = DOMAIN loaded \cup {f}
      /\ \A g \in DOMAIN loaded' : loaded'[g] = IF g \in DOMAIN loaded THEN loaded[g] ELSE package[f].bytes
  BY DEF Executes
<1>2. f \in DOMAIN launcher /\ Sha(package[f].bytes) = launcher[f]
  BY DEF Loads, Finds
<1>3. ASSUME NEW g \in DOMAIN loaded' PROVE g \in DOMAIN launcher' /\ Sha(loaded'[g]) = launcher'[g]
  <2>1. CASE g \in DOMAIN loaded
    BY <1>1, <2>1 DEF OnlyUploadedCodeRuns
  <2>2. CASE g \notin DOMAIN loaded
    BY <1>1, <1>2, <2>2
  <2> QED
    BY <2>1, <2>2
<1> QED
  BY <1>1, <1>3 DEF OnlyUploadedCodeRuns

\* What the steps of the job leave alone, and what they all keep.
LEMMA JobKeeps ==
  ASSUME JobInv, Start \/ Kill \/ JobStep
  PROVE  JobInv'
<1>1. UNCHANGED <<prepare, read, state, job, torn, launcher, environment>>
  BY WhoDoesWhat
<1>2. ProvenanceIsFollowed' /\ ProvenanceIsWhatRuns'
  BY <1>1 DEF JobInv, ProvenanceIsFollowed, ProvenanceIsWhatRuns
<1>3. ASSUME step' \in {"off", "verify", "import", "parity", "build", "stages", "ended"}, run' \in Nat PROVE JobTypeOK'
  BY <1>1, <1>3 DEF JobInv, JobTypeOK
<1>4. state.phase = "submitted" => SubmittedIsFinal'
  BY <1>1 DEF JobInv, SubmittedIsFinal
<1>5. step # "off" => state.phase = "submitted"
  BY DEF JobInv, SubmittedIsFinal
<1>6. JobTypeOK /\ OnlyUploadedCodeRuns /\ ChecksComeFirst /\ NothingRunsUnchecked
  BY DEF JobInv
<1>7. ASSUME ~Start, run' = run, step # "off", step' \in {"off", "verify", "import", "parity", "build", "stages", "ended"},
             OnlyUploadedCodeRuns', ChecksComeFirst', NothingRunsUnchecked'
      PROVE  JobInv'
  BY <1>2, <1>3, <1>4, <1>5, <1>6, <1>7 DEF JobInv, JobTypeOK
<1>8. ASSUME UNCHANGED <<ran, run, record, loaded>>, step' \in {"off", "ended"}
      PROVE  OnlyUploadedCodeRuns' /\ ChecksComeFirst' /\ NothingRunsUnchecked'
  BY <1>1, <1>6, <1>8 DEF OnlyUploadedCodeRuns, ChecksComeFirst, NothingRunsUnchecked
<1>9. CASE Start
  <2>1. state.phase = "submitted" /\ step' = "verify" /\ loaded' = NoFiles /\ ran' = << >> /\ run' \in Nat
    BY <1>6, <1>9 DEF Start, RunnerRestart, JobTypeOK
  <2>2. OnlyUploadedCodeRuns' /\ ChecksComeFirst' /\ NothingRunsUnchecked'
    BY <2>1 DEF OnlyUploadedCodeRuns, ChecksComeFirst, NothingRunsUnchecked, NoFiles
  <2> QED
    BY <1>2, <1>3, <1>4, <2>1, <2>2 DEF JobInv
<1>10. CASE Kill
  <2>1. step # "off" /\ step' = "off" /\ UNCHANGED <<ran, run, record, loaded>> /\ ~Start
    BY <1>10 DEF Kill, runner, Start
  <2> QED
    BY <1>7, <1>8, <2>1
<1>11. ASSUME Exit, step # "off" PROVE JobInv'
  <2>1. step' = "ended" /\ UNCHANGED <<ran, run, record, loaded>> /\ ~Start
    BY <1>11 DEF Exit, runner, Start
  <2> QED
    BY <1>7, <1>8, <1>11, <2>1
<1>12. CASE Verify
  <2>1. CASE step' = "import" /\ UNCHANGED <<runner, run, record, loaded>>
    <3>1. UNCHANGED <<ran, run, record, loaded>> /\ step = "verify" /\ ~Start
      BY <1>12, <2>1 DEF Verify, runner, Start
    <3>2. OnlyUploadedCodeRuns' /\ ChecksComeFirst' /\ NothingRunsUnchecked'
      BY <1>1, <1>6, <2>1, <3>1 DEF OnlyUploadedCodeRuns, ChecksComeFirst, NothingRunsUnchecked
    <3> QED
      BY <1>7, <2>1, <3>1, <3>2
  <2> QED
    BY <1>11, <1>12, <2>1 DEF Verify
<1>13. ASSUME NEW f, NEW next, Loads(package, launcher, f), Executes(f), step' = next, UNCHANGED <<runner, run, record>>,
              \/ f = "execution" /\ step = "import" /\ next = "parity"
              \/ f = "workflows" /\ step = "build" /\ next = "stages"
       PROVE  JobInv'
  <2>1. OnlyUploadedCodeRuns' /\ DOMAIN loaded' = DOMAIN loaded \cup {f}
    BY <1>1, <1>6, <1>13, ExecutesUploaded
  <2>2. UNCHANGED <<ran, run, record>> /\ step # "off" /\ ~Start
    BY <1>13 DEF runner, Start
  <2>3. ChecksComeFirst' /\ NothingRunsUnchecked'
    BY <1>6, <1>13, <2>1, <2>2 DEF ChecksComeFirst, NothingRunsUnchecked
  <2> QED
    BY <1>7, <1>13, <2>1, <2>2, <2>3
<1>14. CASE ImportExecution \/ BuildFlow
  BY <1>11, <1>13, <1>14 DEF ImportExecution, BuildFlow, Import
<1>15. CASE EnforceEnvironment
  <2>1. /\ step = "parity" /\ UNCHANGED <<ran, run, loaded>> /\ step' = IF record'.status = "passed" THEN "build" ELSE "ended"
        /\ ~Start
    BY <1>15 DEF EnforceEnvironment, runner, Start
  <2>2. OnlyUploadedCodeRuns'
    BY <1>1, <1>6, <2>1 DEF OnlyUploadedCodeRuns
  <2>3. ran = << >> /\ "execution" \in DOMAIN loaded
    BY <1>6, <2>1 DEF ChecksComeFirst
  <2>4. ChecksComeFirst'
    BY <1>6, <1>15, <2>1, <2>3, PassedIsPrepared DEF ChecksComeFirst, PreparedStack, Stack
  <2>5. NothingRunsUnchecked'
    BY <2>1, <2>3 DEF NothingRunsUnchecked
  <2> QED
    BY <1>7, <2>1, <2>2, <2>4, <2>5
<1>16. ASSUME step = "stages", step' \in {"stages", "ended"}, UNCHANGED <<run, record>>, DOMAIN loaded \subseteq DOMAIN loaded'
       PROVE  ChecksComeFirst' /\ NothingRunsUnchecked'
  BY <1>6, <1>16 DEF ChecksComeFirst, NothingRunsUnchecked, PreparedStack, Stack
<1>17. CASE LateImport
  <2>1. step = "stages" /\ UNCHANGED <<step, run, record>> /\ ~Start
    BY <1>17 DEF LateImport, Start
  <2>2. OnlyUploadedCodeRuns' /\ DOMAIN loaded \subseteq DOMAIN loaded'
    <3>1. CASE loaded' = loaded
      BY <1>1, <1>6, <3>1 DEF OnlyUploadedCodeRuns
    <3>2. ASSUME NEW f, Loads(package, launcher, f), Executes(f) PROVE OnlyUploadedCodeRuns' /\ DOMAIN loaded \subseteq DOMAIN loaded'
      BY <1>1, <1>6, <3>2, ExecutesUploaded
    <3> QED
      BY <1>17, <3>1, <3>2 DEF LateImport
  <2> QED
    BY <1>7, <1>16, <2>1, <2>2
<1>18. CASE RunStages
  <2>1. step = "stages" /\ step' \in {"stages", "ended"} /\ UNCHANGED <<run, record, loaded>> /\ ~Start
    BY <1>18 DEF RunStages, Start
  <2>2. OnlyUploadedCodeRuns'
    BY <1>1, <1>6, <2>1 DEF OnlyUploadedCodeRuns
  <2> QED
    BY <1>7, <1>16, <2>1, <2>2
<1> QED
  BY <1>9, <1>10, <1>12, <1>14, <1>15, <1>17, <1>18 DEF JobStep

LEMMA JobInvIsInductive == JobInv /\ [Next]_vars => JobInv'
<1>1. JobInv /\ UNCHANGED vars => JobInv'
  <2> SUFFICES ASSUME JobInv, UNCHANGED vars PROVE JobInv'
    OBVIOUS
  <2>1. UNCHANGED <<ran, prepare, read, state, job, torn, launcher, environment, step, run, record, loaded>>
    BY DEF vars, runner, service, disk, power, guard
  <2> QED
    BY <2>1 DEF JobInv, JobTypeOK, SubmittedIsFinal, OnlyUploadedCodeRuns, ChecksComeFirst, NothingRunsUnchecked,
                ProvenanceIsFollowed, ProvenanceIsWhatRuns
<1> QED
  BY <1>1, WhoDoesWhat, ServiceKeeps, PowerKeeps, JobKeeps

LEMMA InitJobInv == Init => JobInv
<1> SUFFICES ASSUME Init PROVE JobInv
  OBVIOUS
<1>1. /\ prepare = [step |-> "none", provenance |-> Absent, manifest |-> Absent]
      /\ state = [phase |-> "absent", provenance |-> Absent]
      /\ environment = [packages |-> [p \in Packages |-> 1], updates |-> FALSE]
      /\ step = "off" /\ run = 0 /\ ran = << >> /\ loaded = NoFiles /\ read = Absent
  BY DEF Init, RunnerInit, NoRequest, PreparedStack, Stack
<1>2. JobTypeOK
  <2>1. environment \in Stacks
    BY <1>1 DEF Stacks
  <2> QED
    BY <1>1, <2>1 DEF JobTypeOK
<1> QED
  BY <1>1, <1>2 DEF JobInv, SubmittedIsFinal, OnlyUploadedCodeRuns, ChecksComeFirst, NothingRunsUnchecked,
                    ProvenanceIsFollowed, ProvenanceIsWhatRuns, NoFiles

\* What is uploaded before the job stays as it was, every stage follows the checks of its
\* own run, and the record follows the files of the job that was submitted.
THEOREM JobIsSafe == Spec => []JobInv
  BY InitJobInv, JobInvIsInductive, PTL DEF Spec

\* Whatever becomes of the files on POWER, and whenever, a module that is executed has
\* the bytes that Prepare uploaded.
THEOREM UploadedCodeRuns == Spec => []OnlyUploadedCodeRuns
<1>1. JobInv => OnlyUploadedCodeRuns
  BY DEF JobInv
<1> QED
  BY <1>1, JobIsSafe, PTL

\* No stage runs in a run whose own environment did not pass.
THEOREM StagesRunChecked == Spec => []NothingRunsUnchecked
<1>1. JobInv => NothingRunsUnchecked
  BY DEF JobInv
<1> QED
  BY <1>1, JobIsSafe, PTL

\* The record of a job describes the code it runs, for any upgrades of the service and
\* any number of Prepares.
THEOREM RecordsAreOfWhatRuns == Spec => []ProvenanceIsWhatRuns
<1>1. JobInv => ProvenanceIsWhatRuns
  BY DEF JobInv
<1> QED
  BY <1>1, JobIsSafe, PTL

=============================================================================
