----------------------- MODULE DecodePipeline_proofs -----------------------
(***************************************************************************)
(* What the decode pipeline promises the screen, for any number of textures *)
(* and any limits: the types of its state, and that the decoder never       *)
(* writes into the texture on display.                                      *)
(***************************************************************************)
EXTENDS DecodePipeline, WellFoundedInduction, TLAPS

\* The choice of a texture, `find` over the indices, and the limits.
LEMMA LeastNat ==
  ASSUME NEW S \in SUBSET Nat, S # {}
  PROVE  Min(S) \in S /\ \A y \in S : Min(S) <= y
<1> DEFINE Below == {pair \in Nat \X Nat : pair[1] < pair[2]}
<1>1. IsWellFoundedOn(Below, Nat)
  BY NatLessThanWellFounded, Zenon DEF OpToRel
<1>2. PICK x \in S : \A y \in S : <<y, x>> \notin Below
  <2> HIDE DEF Below
  <2> QED BY <1>1, WFMin
<1>3. \A y \in S : x <= y
  <2> TAKE y \in S
  <2>1. y \in Nat /\ x \in Nat /\ <<y, x>> \notin Below
    BY <1>2
  <2>2. ~ (y < x)
    <3>1. SUFFICES ASSUME y < x PROVE <<y, x>> \in Below
      BY <2>1, Zenon
    <3>2. <<y, x>> \in Nat \X Nat
      BY <2>1
    <3> QED BY <3>1, <3>2
  <2> QED BY <2>1, <2>2
<1> QED BY <1>3 DEF Min

LEMMA GreatestNat ==
  ASSUME NEW c \in Nat, NEW S \in SUBSET (0 .. c), S # {}
  PROVE  Max(S) \in S /\ \A y \in S : y <= Max(S)
<1> DEFINE D == {c - x : x \in S}
<1>1. D \in SUBSET Nat /\ D # {}
  <2>1. \A x \in S : x \in 0 .. c /\ c - x \in Nat
    OBVIOUS
  <2> QED BY <2>1
<1>2. PICK d \in D : \A y \in D : d <= y
  BY <1>1, LeastNat
<1>3. PICK x \in S : d = c - x
  BY <1>2
<1>4. \A y \in S : x >= y
  BY <1>2, <1>3
<1> QED BY <1>4 DEF Max

-----------------------------------------------------------------------------
(* The inductive invariant.                                                 *)

\* The decoder works on a texture that exists and is not on display: the mutex
\* keeps the renderer from changing what is.
WritesOffScreen ==
    ~Unlocked => worker.into \in Textures /\ worker.into # output.displayed

\* Only the decode thread takes units: what it saw in the queue is still there.
SeenUnitWaits == At("units") => queue # <<>>

IInv == TypeOK /\ WritesOffScreen /\ SeenUnitWaits

LEMMA LimitBound ==
    \A limit \in AdmitLimits : limit \in Nat /\ Max(AdmitLimits) \in Nat /\ limit <= Max(AdmitLimits)
<1>1. /\ AdmitLimits \in SUBSET (0 .. Capacity) /\ AdmitLimits # {} /\ Capacity \in Nat
  BY PipelineAssumption
<1>2. Max(AdmitLimits) \in AdmitLimits /\ \A y \in AdmitLimits : y <= Max(AdmitLimits)
  BY <1>1, GreatestNat
<1>3. \A limit \in AdmitLimits : limit \in Nat
  <2> TAKE limit \in AdmitLimits
  <2>1. limit \in 0 .. Capacity
    BY <1>1
  <2> QED BY <2>1
<1> QED BY <1>2, <1>3

LEMMA ChosenTexture ==
  ASSUME NEW S \in SUBSET Textures, S # {}
  PROVE  Min(S) \in S
<1>1. S \in SUBSET Nat
  BY PipelineAssumption DEF Textures
<1> QED BY <1>1, LeastNat

LEMMA InitIInv == Init => IInv
<1> SUFFICES ASSUME Init PROVE IInv
  OBVIOUS
<1>1. Max(AdmitLimits) \in Nat
  BY LimitBound, PipelineAssumption
<1>2. TypeOK
  BY <1>1 DEF Init, TypeOK, Places, OutputType, WorkerType, PumpType, SurfaceType, SpentType
<1> QED BY <1>2 DEF Init, IInv, WritesOffScreen, SeenUnitWaits, Unlocked, At

LEMMA PumpKeepsIInv == IInv /\ PumpNext => IInv'
<1> SUFFICES ASSUME IInv, PumpNext PROVE IInv'
  OBVIOUS
<1> USE DEF IInv, WritesOffScreen, SeenUnitWaits, Unlocked, At, workerVars
<1>1. CASE Submit
  <2>1. PICK limit \in AdmitLimits :
          queue' = IF Admitted(limit) THEN Append(queue, generation) ELSE queue
    BY <1>1 DEF Submit
  <2>2. queue' \in Seq(Nat) /\ Len(queue') <= Max(AdmitLimits)
    BY <2>1, LimitBound DEF TypeOK, Admitted
  <2>3. queue # <<>> => queue' # <<>>
    <3>1. generation \in Nat /\ queue \in Seq(Nat)
      BY DEF TypeOK
    <3> QED BY <2>1, <3>1
  <2>4. UNCHANGED <<commands, generation, output, worker, result, pump, mailbox, surface, picture>>
    BY <1>1 DEF Submit
  <2>5. spent' \in SpentType
    <3>1. spent \in SpentType /\ spent' = [spent EXCEPT !.units = @ + 1]
      BY <1>1 DEF Submit, TypeOK
    <3> QED BY <3>1 DEF SpentType
  <2>6. TypeOK'
    BY <2>2, <2>4, <2>5 DEF TypeOK
  <2> QED BY <2>3, <2>4, <2>6
<1>2. CASE BeginResync
  <2>a. spent' \in SpentType
    <3>1. spent \in SpentType /\ spent' = [spent EXCEPT !.resyncs = @ + 1]
      BY <1>2 DEF BeginResync, TypeOK
    <3> QED BY <3>1 DEF SpentType
  <2>1. TypeOK'
    BY <1>2, <2>a DEF BeginResync, TypeOK
  <2> QED BY <1>2, <2>1 DEF BeginResync, TypeOK
<1>3. CASE DrainResult
  <2>1. TypeOK'
    BY <1>3 DEF DrainResult, PumpType, TypeOK
  <2> QED BY <1>3, <2>1 DEF DrainResult, PumpType, TypeOK
<1>4. CASE ResetDecoder
  <2>1. commands' \in Seq({"Reset", "Stop"})
    BY <1>4 DEF ResetDecoder, TypeOK
  <2>2. generation' \in Nat
    BY <1>4 DEF ResetDecoder, TypeOK
  <2>3. pump' \in PumpType
    BY <1>4 DEF ResetDecoder, PumpType, TypeOK
  <2>4. TypeOK'
    BY <1>4, <2>1, <2>2, <2>3 DEF ResetDecoder, TypeOK
  <2> QED BY <1>4, <2>4 DEF ResetDecoder
<1>5. CASE HandOver
  <2>1. TypeOK'
    BY <1>5 DEF HandOver, PumpType, TypeOK
  <2> QED BY <1>5, <2>1 DEF HandOver, PumpType, TypeOK
<1>6. CASE PumpStops
  <2>1. commands' \in Seq({"Reset", "Stop"})
    BY <1>6 DEF PumpStops, TypeOK
  <2>2. TypeOK'
    BY <1>6, <2>1 DEF PumpStops, PumpType, TypeOK
  <2> QED BY <1>6, <2>2 DEF PumpStops
<1> QED BY <1>1, <1>2, <1>3, <1>4, <1>5, <1>6 DEF PumpNext

LEMMA WorkerKeepsIInv == IInv /\ WorkerNext => IInv'
<1> SUFFICES ASSUME IInv, WorkerNext PROVE IInv'
  OBVIOUS
<1> USE DEF IInv, WritesOffScreen, SeenUnitWaits, Unlocked, At, Places
<1>1. CASE TakeCommand
  <2>1. Head(commands) \in {"Reset", "Stop"} /\ commands' \in Seq({"Reset", "Stop"})
    BY <1>1 DEF TakeCommand, TypeOK
  <2>2. worker' \in WorkerType /\ worker'.at \in {"select", "stopped"}
    BY <1>1, <2>1 DEF TakeCommand, WorkerType, TypeOK
  <2>3. TypeOK'
    BY <1>1, <2>1, <2>2 DEF TakeCommand, TypeOK
  <2> QED BY <2>2, <2>3
<1>2. CASE NoCommand
  <2>1. TypeOK'
    BY <1>2 DEF NoCommand, WorkerType, TypeOK
  <2> QED BY <1>2, <2>1 DEF NoCommand, WorkerType, TypeOK
<1>3. CASE TakeUnit
  <2>1. queue' \in Seq(Nat) /\ Len(queue') <= Max(AdmitLimits)
    BY <1>3, LimitBound, PipelineAssumption DEF TakeUnit, WorkerType, TypeOK
  <2>2. spent' \in SpentType
    BY <1>3 DEF TakeUnit, Failed, SpentType, TypeOK
  <2>3. worker' \in WorkerType /\ worker'.at \in {"select", "lock", "report"}
    BY <1>3 DEF TakeUnit, WorkerType, TypeOK
  <2>4. TypeOK'
    BY <1>3, <2>1, <2>2, <2>3 DEF TakeUnit, TypeOK
  <2> QED BY <2>3, <2>4
<1>4. CASE LockTarget
  <2>1. Free(output) # {} => Min(Free(output)) \in Free(output)
    BY ChosenTexture DEF Free
  <2> QED BY <1>4, <2>1 DEF LockTarget, WorkerType, OutputType, TypeOK, Free
<1>5. CASE WaitEnds
  <2>1. Reusable(output) # {} => Min(Reusable(output)) \in Reusable(output)
    BY ChosenTexture DEF Reusable
  <2> QED BY <1>5, <2>1 DEF WaitEnds, WorkerType, OutputType, TypeOK, Reusable
<1>6. CASE Decode
  <2>1. PICK outcome \in {"picture", "buffered", "error"} : DecodeTo(outcome)
    BY <1>6 DEF Decode
  <2>2. worker' \in WorkerType /\ worker'.into = worker.into /\ worker'.at # "units"
    BY <2>1 DEF DecodeTo, WorkerType, TypeOK
  <2>3. picture' \in [Textures -> [stamp : Nat, whole : BOOLEAN]]
    BY <2>1 DEF DecodeTo, TypeOK, Unpublished, Torn
  <2>a. spent' \in SpentType
    BY <2>1 DEF DecodeTo, Failed, SpentType, TypeOK
  <2>4. TypeOK'
    BY <2>1, <2>2, <2>3, <2>a DEF DecodeTo, TypeOK
  <2> QED BY <2>1, <2>2, <2>4 DEF DecodeTo
<1>7. CASE Abandon
  <2>1. TypeOK'
    BY <1>7 DEF Abandon, WorkerType, TypeOK
  <2> QED BY <1>7, <2>1 DEF Abandon, WorkerType, TypeOK
<1>8. CASE Publish
  <2> DEFINE frame == [texture |-> worker.into, stamp |-> output.stamp + 1]
  <2>1. frame \in Frame
    BY <1>8 DEF Publish, OutputType, TypeOK, Frame
  <2>2. output' \in OutputType
    <3>1. output' = [output EXCEPT !.stamp = output.stamp + 1, !.pending = frame]
      BY <1>8 DEF Publish
    <3>2. output \in OutputType /\ output.stamp + 1 \in Nat
      BY DEF TypeOK, OutputType
    <3> HIDE DEF frame
    <3>3. [output EXCEPT !.stamp = output.stamp + 1] \in OutputType
      BY <3>2 DEF OutputType
    <3>4. output' = [[output EXCEPT !.stamp = output.stamp + 1] EXCEPT !.pending = frame]
      BY <3>1, <3>2 DEF OutputType
    <3> QED BY <2>1, <3>3, <3>4 DEF OutputType
  <2>3. worker' \in WorkerType /\ worker'.at = "report"
    <3>1. worker' = [worker EXCEPT !.at = "report", !.report = frame]
      BY <1>8 DEF Publish
    <3> HIDE DEF frame
    <3> QED BY <2>1, <3>1 DEF WorkerType, TypeOK
  <2>4. picture' \in [Textures -> [stamp : Nat, whole : BOOLEAN]]
    <3>1. picture' = [picture EXCEPT ![worker.into].stamp = frame.stamp]
      BY <1>8 DEF Publish
    <3>2. frame.stamp \in Nat
      BY DEF OutputType, TypeOK
    <3> HIDE DEF frame
    <3>3. \A i \in Textures : [picture[i] EXCEPT !.stamp = frame.stamp] \in [stamp : Nat, whole : BOOLEAN]
      BY <3>2 DEF TypeOK
    <3> QED BY <3>1, <3>3 DEF TypeOK
  <2>5. TypeOK'
    BY <1>8, <2>2, <2>3, <2>4 DEF Publish, TypeOK
  <2> QED BY <2>3, <2>5
<1>9. CASE DecodeFails
  <2>1. TypeOK'
    BY <1>9 DEF DecodeFails, WorkerType, TypeOK
  <2> QED BY <1>9, <2>1 DEF DecodeFails, WorkerType, TypeOK
<1>10. CASE Buffered
  <2>1. TypeOK'
    BY <1>10 DEF Buffered, WorkerType, TypeOK
  <2> QED BY <1>10, <2>1 DEF Buffered, WorkerType, TypeOK
<1>11. CASE PublishResult
  <2>1. TypeOK'
    BY <1>11 DEF PublishResult, WorkerType, TypeOK
  <2> QED BY <1>11, <2>1 DEF PublishResult, WorkerType, TypeOK
<1> QED BY <1>1, <1>2, <1>3, <1>4, <1>5, <1>6, <1>7, <1>8, <1>9, <1>10, <1>11 DEF WorkerNext

LEMMA RenderKeepsIInv == IInv /\ RenderNext => IInv'
<1> SUFFICES ASSUME IInv, RenderNext PROVE IInv'
  OBVIOUS
<1> USE DEF IInv, WritesOffScreen, SeenUnitWaits, Unlocked, At, workerVars
<1>1. CASE Attach
  <2>1. TypeOK'
    BY <1>1 DEF Attach, SurfaceType, OutputType, TypeOK
  <2> QED BY <1>1, <2>1 DEF Attach, SurfaceType, OutputType, TypeOK
<1>2. CASE TakeFrame
  <2>1. TypeOK'
    BY <1>2 DEF TakeFrame, SurfaceType, TypeOK
  <2> QED BY <1>2, <2>1 DEF TakeFrame, SurfaceType, TypeOK
<1>3. CASE SyncVideoFrame
  <2>1. TypeOK'
    BY <1>3 DEF SyncVideoFrame, SurfaceType, OutputType, MarkDisplayed, TypeOK, Frame
  <2> QED BY <1>3, <2>1 DEF SyncVideoFrame, SurfaceType, OutputType, MarkDisplayed, TypeOK, Frame
<1>4. CASE Close
  <2>1. TypeOK'
    BY <1>4 DEF Close, SurfaceType, TypeOK
  <2> QED BY <1>4, <2>1 DEF Close, SurfaceType, TypeOK
<1>5. CASE Detach
  <2>1. TypeOK'
    BY <1>5 DEF Detach, SurfaceType, OutputType, TypeOK
  <2> QED BY <1>5, <2>1 DEF Detach, SurfaceType, OutputType, TypeOK
<1> QED BY <1>1, <1>2, <1>3, <1>4, <1>5 DEF RenderNext

LEMMA SpecIInv == Spec => []IInv
<1>1. IInv /\ UNCHANGED vars => IInv'
  BY DEF IInv, TypeOK, WritesOffScreen, SeenUnitWaits, Unlocked, At, vars, workerVars
<1>2. IInv /\ [Next]_vars => IInv'
  BY <1>1, PumpKeepsIInv, WorkerKeepsIInv, RenderKeepsIInv DEF Next
<1> QED BY InitIInv, <1>2, PTL DEF Spec

-----------------------------------------------------------------------------
\* Every step of the three threads keeps the types, and the decode queue is
\* never longer than the largest limit of the scheduler.
THEOREM TypeCorrect == Spec => []TypeOK
<1>1. IInv => TypeOK
  BY DEF IInv
<1> QED BY SpecIInv, <1>1, PTL

\* The decode thread never writes into the texture on display: lock_decode_target
\* skips it, and the mutex is held until the picture is published.
THEOREM DisplayedIsUntouched == Spec => NoTearing
<1> DEFINE Kept == output.displayed # None /\ output'.displayed = output.displayed
                       => picture'[output.displayed] = picture[output.displayed]
<1>1. IInv /\ [Next]_vars => [Kept]_vars
  <2> SUFFICES ASSUME IInv, Next PROVE Kept
    OBVIOUS
  <2>1. CASE Decode
    BY <2>1 DEF Decode, DecodeTo, At, IInv, TypeOK, WorkerType, WritesOffScreen, Unlocked
  <2>2. CASE Publish
    BY <2>2 DEF Publish, At, IInv, TypeOK, WorkerType, WritesOffScreen, Unlocked
  <2>3. CASE ~Decode /\ ~Publish
    <3>1. picture' = picture
      BY <2>3 DEF Next, PumpNext, WorkerNext, RenderNext, Submit, BeginResync, DrainResult,
        ResetDecoder, HandOver, PumpStops, TakeCommand, NoCommand, TakeUnit, LockTarget,
        WaitEnds, Abandon, DecodeFails, Buffered, PublishResult, Attach, TakeFrame,
        SyncVideoFrame, Close, Detach
    <3> QED BY <3>1
  <2> QED BY <2>1, <2>2, <2>3
<1> QED BY SpecIInv, <1>1, PTL DEF NoTearing, Spec

-----------------------------------------------------------------------------
(* Why pending_texture is never held for a frame that nobody has.           *)

\* The places of a published frame, from the screen back to the decoder.
Slots == <<surface.frame, mailbox, pump.frame, result, worker.report>>

Places5 == 1 .. 5

\* Until the decoder fails, and while the stream is shown.
Undisturbed == surface.open /\ spent.errors = 0

\* No error is on its way, and the decode thread has a frame to report.
NoFailureYet ==
    /\ worker.at # "error"
    /\ At("report") => worker.report # None
    /\ \A i \in Places5 : Slots[i] # Err

\* A frame nearer the screen is not newer than one nearer the decoder.
OldestFirst(s) ==
    \A i, j \in Places5 : i < j /\ s[i] # None /\ s[j] # None => s[i].stamp <= s[j].stamp

\* No frame is newer than the last one published, and only that one is pending.
NewestIsPending(s, o) ==
    /\ o.pending # None => o.pending.stamp = o.stamp
    /\ \A i \in Places5 : s[i] # None =>
          /\ s[i].stamp <= o.stamp
          /\ o.pending # None /\ s[i].stamp = o.stamp => s[i] = o.pending

PendingIsSomewhere(s, o) == o.pending # None => \E i \in Places5 : s[i] = o.pending

InLine(s, o) == OldestFirst(s) /\ NewestIsPending(s, o) /\ PendingIsSomewhere(s, o)

\* What is pending is newer than what is shown.
PendingIsNew ==
    /\ surface.shown <= output.stamp
    /\ output.pending # None => surface.shown < output.stamp

FramesInLine == Undisturbed => NoFailureYet /\ InLine(Slots, output) /\ PendingIsNew

\* A thread passes its frame on, over whatever the next slot holds: what is
\* lost there is older.
LEMMA PassingOn ==
  ASSUME NEW s \in [Places5 -> Frame \cup {None}], NEW o \in OutputType, InLine(s, o),
         NEW i \in 1 .. 4, s[i + 1] # None,
         NEW t \in [Places5 -> Frame \cup {None}], t[i] = s[i + 1], t[i + 1] = None,
         \A k \in Places5 : k # i /\ k # i + 1 => t[k] = s[k]
  PROVE  InLine(t, o)
<1> USE DEF Places5
<1>1. i \in Places5 /\ i + 1 \in Places5
  OBVIOUS
<1>2. \A k \in Places5 : s[k] # None => s[k].stamp \in Nat
  BY DEF Frame
<1>3. OldestFirst(t)
  <2> SUFFICES ASSUME NEW k \in Places5, NEW l \in Places5, k < l, t[k] # None, t[l] # None
               PROVE  t[k].stamp <= t[l].stamp
    BY DEF OldestFirst
  <2>1. k # i + 1 /\ l # i + 1
    OBVIOUS
  <2>2. CASE k = i
    BY <1>1, <2>1, <2>2 DEF InLine, OldestFirst
  <2>3. CASE l = i
    <3>1. k < i + 1 /\ t[k] = s[k]
      BY <2>1, <2>3
    <3> QED BY <1>1, <2>3, <3>1 DEF InLine, OldestFirst
  <2>4. CASE k # i /\ l # i
    BY <2>1, <2>4 DEF InLine, OldestFirst
  <2> QED BY <2>2, <2>3, <2>4
<1>4. NewestIsPending(t, o)
  BY <1>1 DEF InLine, NewestIsPending
<1>5. PendingIsSomewhere(t, o)
  <2> SUFFICES ASSUME o.pending # None PROVE \E k \in Places5 : t[k] = o.pending
    BY DEF PendingIsSomewhere
  <2>1. PICK k \in Places5 : s[k] = o.pending
    BY DEF InLine, PendingIsSomewhere
  <2>2. CASE k = i
    <3>1. s[k].stamp <= s[i + 1].stamp
      BY <1>1, <2>1, <2>2 DEF InLine, OldestFirst
    <3>2. s[k].stamp <= o.stamp /\ s[i + 1].stamp <= o.stamp
      BY <1>1, <2>1 DEF InLine, NewestIsPending
    <3> QED BY <1>1, <1>2, <2>1, <2>2, <3>1, <3>2 DEF InLine, NewestIsPending
  <2> QED BY <1>1, <2>1, <2>2
<1> QED BY <1>3, <1>4, <1>5 DEF InLine

SlotsHoldFrames == Slots \in [Places5 -> Frame \cup {None}]

LEMMA SlotsOfFrames ==
    /\ TypeOK /\ NoFailureYet => SlotsHoldFrames
    /\ TypeOK' /\ NoFailureYet' => SlotsHoldFrames'
<1> USE DEF TypeOK, NoFailureYet, SlotsHoldFrames, Slots, Places5, SurfaceType, PumpType, WorkerType
<1>1. TypeOK /\ NoFailureYet => SlotsHoldFrames
  OBVIOUS
<1>2. TypeOK' /\ NoFailureYet' => SlotsHoldFrames'
  OBVIOUS
<1> QED BY <1>1, <1>2

LEMMA InitInLine == Init => FramesInLine
<1> SUFFICES ASSUME Init PROVE FramesInLine
  OBVIOUS
<1>1. \A i \in Places5 : Slots[i] = None
  BY DEF Init, Slots, Places5
<1>2. None # Err
  BY NoneAssumption
<1> QED BY <1>1, <1>2 DEF Init, FramesInLine, NoFailureYet, At, InLine, OldestFirst,
           NewestIsPending, PendingIsSomewhere, PendingIsNew

\* What is not about frames leaves them in line.
LEMMA InLineUntouched ==
  ASSUME FramesInLine, UNCHANGED <<Slots, output>>, surface'.shown = surface.shown,
         Undisturbed' => Undisturbed,
         worker'.at # "report" \/ worker.at = "report",
         Undisturbed' => worker'.at # "error"
  PROVE  FramesInLine'
<1> USE DEF FramesInLine, NoFailureYet, At, InLine, OldestFirst, NewestIsPending,
        PendingIsSomewhere, PendingIsNew
<1>1. worker'.report = worker.report
  BY DEF Slots
<1> SUFFICES ASSUME Undisturbed' PROVE NoFailureYet' /\ InLine(Slots, output)' /\ PendingIsNew'
  OBVIOUS
<1> QED BY <1>1

\* A thread passes a frame on and touches nothing else of the frames.
LEMMA Passed ==
  ASSUME TypeOK, TypeOK', FramesInLine, Undisturbed, NoFailureYet',
         output' = output, surface'.shown = surface.shown,
         NEW i \in 1 .. 4, Slots[i + 1] # None, Slots'[i] = Slots[i + 1], Slots'[i + 1] = None,
         \A k \in Places5 : k # i /\ k # i + 1 => Slots'[k] = Slots[k]
  PROVE  FramesInLine'
<1>1. Slots \in [Places5 -> Frame \cup {None}] /\ Slots' \in [Places5 -> Frame \cup {None}]
  BY SlotsOfFrames DEF FramesInLine, SlotsHoldFrames
<1>2. InLine(Slots, output) /\ output \in OutputType
  BY DEF FramesInLine, TypeOK
<1> HIDE DEF Slots
<1>3. InLine(Slots', output)
  BY <1>1, <1>2, PassingOn
<1>4. InLine(Slots, output)'
  BY <1>3
<1>5. PendingIsNew'
  BY DEF FramesInLine, PendingIsNew
<1> QED BY <1>4, <1>5 DEF FramesInLine

LEMMA PumpKeepsLine == IInv /\ FramesInLine /\ PumpNext => FramesInLine'
<1> SUFFICES ASSUME IInv, FramesInLine, PumpNext, Undisturbed' PROVE FramesInLine'
  BY DEF FramesInLine
<1>0. TypeOK /\ TypeOK'
  BY PumpKeepsIInv DEF IInv
<1>1. CASE Submit
  <2>1. Undisturbed
    BY <1>0, <1>1 DEF Submit, Undisturbed, TypeOK, SpentType
  <2>2. UNCHANGED <<Slots, output, surface, worker>>
    BY <1>1 DEF Submit, Slots, workerVars
  <2> QED BY <2>1, <2>2, InLineUntouched DEF FramesInLine, NoFailureYet
<1>2. CASE BeginResync
  <2>1. Undisturbed
    BY <1>0, <1>2 DEF BeginResync, Undisturbed, TypeOK, SpentType
  <2>2. UNCHANGED <<Slots, output, surface, worker>>
    BY <1>2 DEF BeginResync, Slots, workerVars
  <2> QED BY <2>1, <2>2, InLineUntouched DEF FramesInLine, NoFailureYet
<1>3. CASE DrainResult
  <2>1. Undisturbed /\ UNCHANGED <<output, surface, worker, mailbox>>
    BY <1>3 DEF DrainResult, Undisturbed
  <2>2. result # Err
    BY <2>1 DEF FramesInLine, NoFailureYet, Slots, Places5
  <2>3. result' = None /\ pump'.frame = result
    BY <1>0, <1>3, <2>2 DEF DrainResult, TypeOK, PumpType
  <2>4. NoFailureYet'
    BY <2>1, <2>3, NoneAssumption DEF FramesInLine, NoFailureYet, Slots, Places5, At
  <2>5. /\ Slots[4] # None /\ Slots'[3] = Slots[4] /\ Slots'[4] = None
        /\ \A k \in Places5 : k # 3 /\ k # 4 => Slots'[k] = Slots[k]
    BY <1>3, <2>1, <2>3 DEF DrainResult, Slots, Places5
  <2> QED BY <1>0, <2>1, <2>4, <2>5, Passed
<1>4. CASE ResetDecoder
  <2>1. Undisturbed
    BY <1>4 DEF ResetDecoder, Undisturbed
  <2>2. UNCHANGED <<Slots, output, surface, worker>>
    BY <1>0, <1>4 DEF ResetDecoder, Slots, workerVars, TypeOK, PumpType
  <2> QED BY <2>1, <2>2, InLineUntouched DEF FramesInLine, NoFailureYet
<1>5. CASE HandOver
  <2>1. Undisturbed /\ UNCHANGED <<output, surface, worker, result>>
    BY <1>5 DEF HandOver, Undisturbed, workerVars
  <2>2. mailbox' = pump.frame /\ pump'.frame = None /\ pump.frame # None
    BY <1>0, <1>5 DEF HandOver, TypeOK, PumpType
  <2>3. NoFailureYet'
    BY <2>1, <2>2, NoneAssumption DEF FramesInLine, NoFailureYet, Slots, Places5, At
  <2>4. /\ Slots[3] # None /\ Slots'[2] = Slots[3] /\ Slots'[3] = None
        /\ \A k \in Places5 : k # 2 /\ k # 3 => Slots'[k] = Slots[k]
    BY <2>1, <2>2 DEF Slots, Places5
  <2> QED BY <1>0, <2>1, <2>3, <2>4, Passed
<1>6. CASE PumpStops
  <2>1. Undisturbed
    BY <1>6 DEF PumpStops, Undisturbed
  <2>2. UNCHANGED <<Slots, output, surface, worker>>
    BY <1>0, <1>6 DEF PumpStops, Slots, workerVars, TypeOK, PumpType
  <2> QED BY <2>1, <2>2, InLineUntouched DEF FramesInLine, NoFailureYet
<1> QED BY <1>1, <1>2, <1>3, <1>4, <1>5, <1>6 DEF PumpNext

LEMMA WorkerKeepsLine == IInv /\ FramesInLine /\ WorkerNext => FramesInLine'
<1> SUFFICES ASSUME IInv, FramesInLine, WorkerNext, Undisturbed' PROVE FramesInLine'
  BY DEF FramesInLine
<1>0. TypeOK /\ TypeOK'
  BY WorkerKeepsIInv DEF IInv
<1>a. ASSUME NEW place, worker' = [worker EXCEPT !.at = place], place \notin {"report", "error"},
             UNCHANGED <<output, result, pump, mailbox, surface, spent>>
      PROVE  FramesInLine'
  <2>1. Undisturbed /\ UNCHANGED <<Slots, output, surface>>
    BY <1>a, <1>0 DEF Undisturbed, Slots, TypeOK, WorkerType
  <2>2. worker'.at = place
    BY <1>a, <1>0 DEF TypeOK, WorkerType
  <2> QED BY <1>a, <2>1, <2>2, InLineUntouched
<1>1. CASE TakeCommand
  <2>1. UNCHANGED <<output, result, pump, mailbox, surface, spent>>
    BY <1>1 DEF TakeCommand
  <2>2. worker' = [worker EXCEPT !.decoder = FALSE] \/ worker' = [worker EXCEPT !.at = "stopped"]
    BY <1>0, <1>1 DEF TakeCommand, TypeOK
  <2>3. Undisturbed /\ UNCHANGED <<Slots, output, surface>> /\ worker'.at \in {worker.at, "stopped"}
    BY <1>0, <2>1, <2>2 DEF Undisturbed, Slots, TypeOK, WorkerType
  <2> QED BY <2>3, InLineUntouched DEF FramesInLine, NoFailureYet
<1>2. CASE NoCommand
  <2>1. worker' = [worker EXCEPT !.at = "units"] /\ UNCHANGED <<output, result, pump, mailbox, surface, spent>>
    BY <1>2 DEF NoCommand
  <2> QED BY <2>1, <1>a
<1>3. CASE TakeUnit
  <2>1. UNCHANGED <<output, result, pump, mailbox, surface>>
    BY <1>3 DEF TakeUnit
  <2>2. UNCHANGED spent /\ worker'.at \in {"select", "lock"} /\ worker'.report = worker.report
    <3>1. ~Failed
      <4>1. SUFFICES ASSUME Failed PROVE spent'.errors # 0
        BY DEF Undisturbed
      <4>2. spent \in SpentType /\ spent' = [spent EXCEPT !.errors = @ + 1]
        BY <1>0, <4>1 DEF Failed, TypeOK
      <4> QED BY <4>2 DEF SpentType
    <3>2. /\ UNCHANGED spent
          /\ \/ worker' = [worker EXCEPT !.at = "select"]
             \/ worker' = [worker EXCEPT !.at = "lock", !.generation = generation, !.decoder = TRUE]
      BY <1>3, <3>1 DEF TakeUnit
    <3> QED BY <1>0, <3>2 DEF TypeOK, WorkerType
  <2>3. Undisturbed /\ UNCHANGED <<Slots, output, surface>>
    BY <2>1, <2>2 DEF Undisturbed, Slots
  <2> QED BY <2>2, <2>3, InLineUntouched
<1>4. CASE LockTarget
  <2>1. UNCHANGED <<output, result, pump, mailbox, surface, spent>>
    BY <1>4 DEF LockTarget
  <2>2. worker'.at \in {"select", "decode", "wait"} /\ worker'.report = worker.report
    BY <1>0, <1>4 DEF LockTarget, TypeOK, WorkerType
  <2>3. Undisturbed /\ UNCHANGED <<Slots, output, surface>>
    BY <2>1, <2>2 DEF Undisturbed, Slots
  <2> QED BY <2>2, <2>3, InLineUntouched
<1>5. CASE WaitEnds
  <2>1. UNCHANGED <<output, result, pump, mailbox, surface, spent>>
    BY <1>5 DEF WaitEnds
  <2>2. worker'.at \in {"select", "decode"} /\ worker'.report = worker.report
    BY <1>0, <1>5 DEF WaitEnds, TypeOK, WorkerType
  <2>3. Undisturbed /\ UNCHANGED <<Slots, output, surface>>
    BY <2>1, <2>2 DEF Undisturbed, Slots
  <2> QED BY <2>2, <2>3, InLineUntouched
<1>6. CASE Decode
  <2>1. PICK outcome \in {"picture", "buffered", "error"} : DecodeTo(outcome)
    BY <1>6 DEF Decode
  <2>2. outcome # "error" /\ UNCHANGED spent
    BY <1>0, <2>1 DEF DecodeTo, Failed, Undisturbed, TypeOK, SpentType
  <2> QED BY <2>1, <2>2, <1>a DEF DecodeTo
<1>7. CASE Abandon
  BY <1>7, <1>a DEF Abandon
<1>8. CASE Publish
  <2> DEFINE frame == [texture |-> worker.into, stamp |-> output.stamp + 1]
  <2>1. Undisturbed /\ UNCHANGED <<surface, mailbox, pump, result, spent>>
    BY <1>8 DEF Publish, Undisturbed
  <2>2. frame \in Frame /\ frame.stamp = output.stamp + 1 /\ output.stamp \in Nat
    BY <1>0, <1>8 DEF Publish, IInv, WritesOffScreen, Unlocked, At, TypeOK, OutputType, Frame
  <2>3. worker' = [worker EXCEPT !.at = "report", !.report = frame]
    BY <1>8 DEF Publish
  <2>4. output' = [output EXCEPT !.stamp = output.stamp + 1, !.pending = frame]
    BY <1>8 DEF Publish
  <2>5. /\ \A k \in 1 .. 4 : Slots'[k] = Slots[k]
        /\ \A k \in Places5 : Slots[k] # None => Slots[k].stamp \in Nat /\ Slots[k].stamp <= output.stamp
    <3>1. SlotsHoldFrames
      BY <1>0, <2>1, SlotsOfFrames DEF FramesInLine
    <3> QED BY <2>1, <3>1 DEF FramesInLine, InLine, NewestIsPending, Slots, SlotsHoldFrames, Frame, Places5
  <2> HIDE DEF frame
  <2>6. worker'.at = "report" /\ worker'.report = frame /\ Slots'[5] = frame
    BY <1>0, <2>3 DEF TypeOK, WorkerType, Slots
  <2>7. output'.pending = frame /\ output'.stamp = output.stamp + 1
    BY <1>0, <2>4 DEF TypeOK, OutputType
  <2>8. frame # None /\ frame # Err
    BY <2>2, NoneAssumption
  <2>9. NoFailureYet'
    <3>1. \A k \in 1 .. 4 : Slots[k] # Err
      BY <2>1 DEF FramesInLine, NoFailureYet, Places5
    <3> HIDE DEF Slots
    <3> QED BY <2>5, <2>6, <2>8, <3>1 DEF NoFailureYet, Places5
  <2>10. InLine(Slots', output')
    <3> HIDE DEF Slots
    <3>1. OldestFirst(Slots')
      BY <2>1, <2>2, <2>5, <2>6 DEF FramesInLine, InLine, OldestFirst, Places5
    <3>2. NewestIsPending(Slots', output')
      BY <2>2, <2>5, <2>6, <2>7 DEF NewestIsPending, Places5
    <3>3. PendingIsSomewhere(Slots', output')
      BY <2>6, <2>7 DEF PendingIsSomewhere, Places5
    <3> QED BY <3>1, <3>2, <3>3 DEF InLine
  <2>11. PendingIsNew'
    BY <1>0, <2>1, <2>2, <2>7 DEF FramesInLine, PendingIsNew, TypeOK, SurfaceType
  <2> QED BY <2>9, <2>10, <2>11 DEF FramesInLine
<1>9. CASE DecodeFails
  BY <1>9 DEF DecodeFails, At, Undisturbed, FramesInLine, NoFailureYet
<1>10. CASE Buffered
  BY <1>10, <1>a DEF Buffered
<1>11. CASE PublishResult
  <2>1. Undisturbed /\ UNCHANGED <<output, surface, pump, mailbox>>
    BY <1>11 DEF PublishResult, Undisturbed
  <2>2. result' = worker.report /\ worker'.report = None /\ worker'.at = "select" /\ worker.report # None
    BY <1>0, <1>11, <2>1 DEF PublishResult, TypeOK, WorkerType, FramesInLine, NoFailureYet
  <2>3. NoFailureYet'
    BY <2>1, <2>2, NoneAssumption DEF FramesInLine, NoFailureYet, Slots, Places5, At
  <2>4. /\ Slots[5] # None /\ Slots'[4] = Slots[5] /\ Slots'[5] = None
        /\ \A k \in Places5 : k # 4 /\ k # 5 => Slots'[k] = Slots[k]
    BY <2>1, <2>2 DEF Slots, Places5
  <2> QED BY <1>0, <2>1, <2>3, <2>4, Passed
<1> QED BY <1>1, <1>2, <1>3, <1>4, <1>5, <1>6, <1>7, <1>8, <1>9, <1>10, <1>11 DEF WorkerNext

LEMMA RenderKeepsLine == IInv /\ FramesInLine /\ RenderNext => FramesInLine'
<1> SUFFICES ASSUME IInv, FramesInLine, RenderNext, Undisturbed' PROVE FramesInLine'
  BY DEF FramesInLine
<1>0. TypeOK /\ TypeOK'
  BY RenderKeepsIInv DEF IInv
<1>1. CASE Attach
  <2>1. Undisturbed /\ UNCHANGED <<Slots, worker>>
    BY <1>0, <1>1 DEF Attach, Undisturbed, Slots, workerVars, TypeOK, SurfaceType
  <2>2. surface'.shown = 0 /\ output'.pending = None /\ output'.stamp = output.stamp
    BY <1>0, <1>1 DEF Attach, TypeOK, SurfaceType, OutputType
  <2>3. NoFailureYet'
    BY <2>1 DEF FramesInLine, NoFailureYet, Slots, At
  <2>4. InLine(Slots, output)'
    BY <2>1, <2>2 DEF FramesInLine, InLine, OldestFirst, NewestIsPending, PendingIsSomewhere
  <2>5. PendingIsNew'
    BY <1>0, <2>2 DEF PendingIsNew, TypeOK, OutputType
  <2> QED BY <2>3, <2>4, <2>5 DEF FramesInLine
<1>2. CASE TakeFrame
  <2>1. Undisturbed /\ UNCHANGED <<output, worker, pump, result>>
    BY <1>0, <1>2 DEF TakeFrame, Undisturbed, workerVars, TypeOK, SurfaceType
  <2>2. surface'.frame = mailbox /\ surface'.shown = surface.shown /\ mailbox' = None /\ mailbox # None
    BY <1>0, <1>2 DEF TakeFrame, TypeOK, SurfaceType
  <2>3. NoFailureYet'
    BY <2>1, <2>2, NoneAssumption DEF FramesInLine, NoFailureYet, Slots, Places5, At
  <2>4. /\ Slots[2] # None /\ Slots'[1] = Slots[2] /\ Slots'[2] = None
        /\ \A k \in Places5 : k # 1 /\ k # 2 => Slots'[k] = Slots[k]
    BY <2>1, <2>2 DEF Slots, Places5
  <2> QED BY <1>0, <2>1, <2>2, <2>3, <2>4, Passed
<1>3. CASE SyncVideoFrame
  <2>1. Undisturbed /\ UNCHANGED <<Slots, worker>>
    BY <1>0, <1>3 DEF SyncVideoFrame, Undisturbed, Slots, workerVars, TypeOK, SurfaceType
  <2>2. /\ surface.frame # None /\ surface'.shown = surface.frame.stamp
        /\ output'.stamp = output.stamp
        /\ output'.pending = IF output.pending = surface.frame THEN None ELSE output.pending
    BY <1>0, <1>3 DEF SyncVideoFrame, MarkDisplayed, TypeOK, SurfaceType, OutputType
  <2>3. NoFailureYet'
    BY <2>1 DEF FramesInLine, NoFailureYet, Slots, At
  <2>4. InLine(Slots, output)'
    BY <2>1, <2>2 DEF FramesInLine, InLine, OldestFirst, NewestIsPending, PendingIsSomewhere
  <2>5. surface.frame.stamp <= output.stamp
        /\ (output.pending # None /\ surface.frame.stamp = output.stamp => surface.frame = output.pending)
    BY <2>1, <2>2 DEF FramesInLine, InLine, NewestIsPending, Slots, Places5
  <2>6. PendingIsNew'
    BY <1>0, <2>1, <2>2, <2>5 DEF PendingIsNew, TypeOK, OutputType, SurfaceType, Frame
  <2> QED BY <2>3, <2>4, <2>6 DEF FramesInLine
<1>4. CASE Close
  BY <1>0, <1>4 DEF Close, Undisturbed, TypeOK, SurfaceType
<1>5. CASE Detach
  BY <1>0, <1>5 DEF Detach, Undisturbed, TypeOK, SurfaceType
<1> QED BY <1>1, <1>2, <1>3, <1>4, <1>5 DEF RenderNext

\* As long as the decoder never failed, the frame whose texture the output keeps
\* is in one of the slots between the decode thread and the screen: a slot that
\* keeps only the newest never loses it, because it is the newest.
THEOREM PendingIsNeverLost == Spec => []PendingIsOnItsWay
<1>1. Init => FramesInLine
  BY InitInLine
<1>2. IInv /\ IInv' /\ FramesInLine /\ [Next]_vars => FramesInLine'
  <2>1. IInv /\ FramesInLine /\ UNCHANGED vars => FramesInLine'
    <3> SUFFICES ASSUME FramesInLine, UNCHANGED vars PROVE FramesInLine'
      OBVIOUS
    <3>1. UNCHANGED <<Slots, output, surface, worker, spent>>
      BY DEF vars, Slots, workerVars
    <3> QED BY <3>1 DEF FramesInLine, NoFailureYet, At, InLine, OldestFirst, NewestIsPending,
               PendingIsSomewhere, PendingIsNew, Undisturbed
  <2> QED BY <2>1, PumpKeepsLine, WorkerKeepsLine, RenderKeepsLine DEF Next
<1>3. IInv /\ FramesInLine => PendingIsOnItsWay
  <2> SUFFICES ASSUME IInv, FramesInLine, Undisturbed, output.pending # None
               PROVE  output.pending \in OnItsWay
    BY DEF PendingIsOnItsWay, Undisturbed
  <2>1. PICK k \in Places5 : Slots[k] = output.pending
    BY DEF FramesInLine, InLine, PendingIsSomewhere
  <2>2. output.pending.stamp = output.stamp /\ surface.shown < output.stamp
    BY DEF FramesInLine, InLine, NewestIsPending, PendingIsNew
  <2>3. output.stamp \in Nat /\ surface.shown \in Nat
    BY DEF IInv, TypeOK, OutputType, SurfaceType
  <2> QED BY <2>1, <2>2, <2>3 DEF OnItsWay, Slots, Places5
<1> QED BY <1>1, <1>2, <1>3, SpecIInv, PTL DEF Spec
=============================================================================
