------------------------- MODULE StreamResourceProofs -------------------------
(***************************************************************************)
(* Proofs about StreamResource, for any number of runs and any nesting of  *)
(* calls.                                                                  *)
(***************************************************************************)
EXTENDS StreamResource, SequenceTheorems, TLAPS

-----------------------------------------------------------------------------
(* The steps, by what they do to the runs and the stack *)

\* What reload() and the flushes do besides replaceRun().
Trigger ==
  /\ UNCHANGED <<options, disposed, ticks, starts>> /\ calls' \in {calls, calls + 1}
  /\ \/ ~disposed /\ UNCHANGED <<dirty, flushing, behind>>
     \/ dirty /\ dirty' = FALSE /\ UNCHANGED <<flushing, behind>>
     \/ dirty /\ dirty' = FALSE /\ flushing' = FALSE /\ behind' = {}

\* What cancel() and dispose() do besides cancelActiveResourceRun().
Canceller ==
  /\ UNCHANGED <<options, tasks, calls>>
  /\ UNCHANGED <<disposed, dirty>> \/ (disposed' = TRUE /\ dirty' = FALSE)

CancelHeard ==
  /\ activeRun \in started
  /\ CloseRun(activeRun) /\ Push("cancel", activeRun, "closing")
  /\ UNCHANGED <<lastRun, started, waiting, signals, history>>

CancelUnheard ==
  /\ activeRun # None /\ activeRun \notin started
  /\ CloseRun(activeRun) /\ PublishCancelled /\ overtaken' = FALSE
  /\ UNCHANGED <<lastRun, started, waiting, stack>>

DisposeIdle ==
  /\ activeRun = None /\ disposed' = TRUE /\ dirty' = FALSE
  /\ UNCHANGED <<options, runs, signals, stack, history, tasks, calls>>

FlushNothing ==
  /\ ~dirty /\ dirty' = FALSE /\ flushing' = FALSE /\ behind' = {}
  /\ UNCHANGED <<options, runs, signals, stack, history, disposed, ticks, starts, calls>>

Step ==
  \/ \E r \in 1 .. lastRun : Write(r, value \cup {r}) \/ Write(r, {r})
  \/ \E r \in 1 .. lastRun : Done(r, value) \/ Done(r, {r})
  \/ \E r \in 1 .. lastRun : Fail(r)
  \/ \E r \in 1 .. lastRun : OnCleanup(r)
  \/ SourceChange
  \/ SupersedeActiveRun /\ Trigger
  \/ ReplaceUnheard /\ Trigger
  \/ CancelHeard /\ Canceller
  \/ CancelUnheard /\ Canceller
  \/ DisposeIdle
  \/ FlushNothing
  \/ \E r \in 1 .. lastRun : Tick(r)
  \/ \E r \in 1 .. lastRun : Start(r)
  \/ RunAfterClosing
  \/ QueueStart
  \/ Drain
  \/ Report
  \/ CancelPublish
  \/ Escape
  \/ UNCHANGED vars

LEMMA NextStep == [Next]_vars => Step
<1> SUFFICES ASSUME [Next]_vars PROVE Step
  OBVIOUS
<1>1. ASSUME Producer PROVE Step
  BY <1>1, Zenon DEF Producer, Step, Emit, Set
<1>2. ASSUME Reload PROVE Step
  <2>1. calls' \in {calls, calls + 1}
    BY <1>2 DEF Reload
  <2> QED
    BY <1>2, <2>1, Zenon DEF Reload, ReplaceRun, Trigger, tasks, Step
<1>3. ASSUME FlushSync PROVE Step
  BY <1>3, Zenon DEF FlushSync, ReplaceRun, Trigger, tasks, Step
<1>4. ASSUME MicrotaskFlush PROVE Step
  <2>1. CASE dirty
    BY <1>4, <2>1, Zenon DEF MicrotaskFlush, ReplaceRun, Trigger, Step
  <2>2. CASE ~dirty
    BY <1>4, <2>2, Zenon DEF MicrotaskFlush, FlushNothing, Step
  <2> QED
    BY <2>1, <2>2
<1>5. ASSUME Cancel PROVE Step
  BY <1>5, Zenon DEF Cancel, CancelActiveRun, CancelHeard, CancelUnheard, Canceller, Step
<1>6. ASSUME Dispose PROVE Step
  <2>1. CASE activeRun = None
    BY <1>6, <2>1, Zenon DEF Dispose, DisposeIdle, Step
  <2>2. CASE activeRun # None
    BY <1>6, <2>2, Zenon DEF Dispose, CancelActiveRun, CancelHeard, CancelUnheard, Canceller, Step
  <2> QED
    BY <2>1, <2>2
<1>7. ASSUME SourceChange \/ Progress \/ UNCHANGED vars PROVE Step
  BY <1>7, Zenon DEF Progress, Step
<1>8. ASSUME \E r \in 1 .. lastRun : Tick(r) \/ Start(r) PROVE Step
  BY <1>8, Zenon DEF Step
<1> QED
  BY <1>1, <1>2, <1>3, <1>4, <1>5, <1>6, <1>7, <1>8, Zenon DEF Next, Users, Microtasks

-----------------------------------------------------------------------------
(* The stack *)

\* Calls inside calls only begin runs: what closes a run whose producer has been
\* called is at the bottom.
ShapeInv == \A i \in 2 .. Len(stack) : stack[i].fn = "replace" /\ stack[i].at = "batch"

\* The run that is active while calls are in progress has not been started.
RunsInv ==
  /\ activeRun \notin closed
  /\ started \subseteq closed \cup {activeRun}
  /\ ~Idle => activeRun \notin started
  /\ \A i \in 1 .. Len(stack) :
       stack[i].at = "closing" \/ stack[i].fn \in {"done", "fail"} => stack[i].run \in closed

\* The ways a step can change the stack.
Based(f)   == Idle /\ Len(stack') = 1 /\ stack'[1] = f
Over(f)    == /\ Len(stack') = Len(stack) + 1 /\ stack'[Len(stack) + 1] = f
              /\ \A i \in 1 .. Len(stack) : stack'[i] = stack[i]
Less       == /\ Len(stack) >= 1 /\ Len(stack') = Len(stack) - 1
              /\ \A i \in 1 .. Len(stack) - 1 : stack'[i] = stack[i]
Rebased(f) == Len(stack) = 1 /\ Len(stack') = 1 /\ stack'[1] = f
Emptied    == Len(stack) = 1 /\ Len(stack') = 0

\* What Front and Last do, index by index.
LEMMA FrontFacts ==
  ASSUME NEW S, NEW s \in Seq(S), s # <<>>
  PROVE  /\ Len(s) \in Nat \ {0} /\ Last(s) = s[Len(s)] /\ Last(s) \in S
         /\ Front(s) \in Seq(S) /\ Len(Front(s)) = Len(s) - 1
         /\ \A i \in 1..(Len(s) - 1) : Front(s)[i] = s[i]
<1>1. Len(s) \in Nat \ {0} /\ Last(s) = s[Len(s)] /\ Last(s) \in S
  BY DEF Last
<1>2. Front(s) = SubSeq(s, 1, Len(s) - 1)
  BY DEF Front
<1>3. /\ SubSeq(s, 1, Len(s) - 1) \in Seq(S)
      /\ Len(SubSeq(s, 1, Len(s) - 1)) = IF 1 <= Len(s) - 1 THEN (Len(s) - 1) - 1 + 1 ELSE 0
  <2>1. 1 \in Int /\ Len(s) - 1 \in Int /\ \A i \in 1..(Len(s) - 1) : s[i] \in S
    BY <1>1
  <2> QED
    BY <2>1, SubSeqProperties
<1>4. Len(SubSeq(s, 1, Len(s) - 1)) = Len(s) - 1
  <2>1. \A n \in Nat : n # 0 => (IF 1 <= n - 1 THEN (n - 1) - 1 + 1 ELSE 0) = n - 1
    OBVIOUS
  <2> QED
    BY <1>1, <1>3, <2>1
<1>5. \A i \in 1..(Len(s) - 1) : SubSeq(s, 1, Len(s) - 1)[i] = s[i]
  BY <1>1
<1> QED
  BY <1>1, <1>2, <1>3, <1>4, <1>5, Zenon

LEMMA TopFacts ==
  ASSUME TypeOK, stack # <<>>
  PROVE  /\ stack \in Seq(Frames) /\ Len(stack) \in Nat \ {0} /\ Len(stack) \in 1 .. Len(stack)
         /\ Top = stack[Len(stack)] /\ Top \in Frames
         /\ Top.run \in Runs /\ Top.run <= lastRun /\ Top.run \in 1 .. lastRun
         /\ Top.fn \in {"replace", "cancel", "done", "fail"}
<1>1. stack \in Seq(Frames) /\ Len(stack) \in Nat \ {0} /\ DOMAIN stack = 1..Len(stack)
  BY DEF TypeOK
<1>2. Top = stack[Len(stack)] /\ Len(stack) \in 1..Len(stack)
  BY <1>1 DEF Top, Last
<1>3. Top \in Frames /\ Top.run <= lastRun /\ lastRun \in Runs
  BY <1>1, <1>2 DEF TypeOK
<1> QED
  BY <1>1, <1>2, <1>3 DEF Frames, Runs

LEMMA PushFacts ==
  ASSUME TypeOK, NEW f \in {"replace", "cancel", "done", "fail"}, NEW r \in Runs,
         NEW a \in {"batch", "closing"}, Push(f, r, a)
  PROVE  stack' \in Seq(Frames) /\ Over(Frame(f, r, a))
<1>1. Frame(f, r, a) \in Frames
  BY DEF Frame, Frames
<1> QED
  BY <1>1 DEF TypeOK, Push, Over

LEMMA PopFacts ==
  ASSUME TypeOK, stack # <<>>, Pop
  PROVE  stack' \in Seq(Frames) /\ Less
<1>1. stack \in Seq(Frames)
  BY DEF TypeOK
<1>2. /\ Len(stack) \in Nat \ {0} /\ stack' \in Seq(Frames) /\ Len(stack') = Len(stack) - 1
      /\ \A i \in 1..(Len(stack) - 1) : stack'[i] = stack[i]
  BY <1>1, FrontFacts DEF Pop
<1>3. Len(stack) >= 1
  BY <1>2
<1> QED
  BY <1>2, <1>3 DEF Less

LEMMA GoToFacts ==
  ASSUME TypeOK, stack # <<>>, NEW r \in Runs, NEW a \in {"batch", "closing"}, GoTo(r, a)
  PROVE  /\ stack' \in Seq(Frames) /\ Len(stack') = Len(stack)
         /\ \A i \in 1..(Len(stack) - 1) : stack'[i] = stack[i]
         /\ stack'[Len(stack)] = Frame(Top.fn, r, a)
<1>1. stack \in Seq(Frames)
  BY DEF TypeOK
<1>2. /\ Len(stack) \in Nat \ {0}
      /\ Front(stack) \in Seq(Frames) /\ Len(Front(stack)) = Len(stack) - 1
      /\ \A i \in 1..(Len(stack) - 1) : Front(stack)[i] = stack[i]
  BY <1>1, FrontFacts
<1> DEFINE f == Frame(Top.fn, r, a)
<1>3. f \in Frames
  BY TopFacts DEF Frames, Frame
<1>4. stack' = Append(Front(stack), f)
  BY DEF GoTo
<1> HIDE DEF f
<1>5. /\ stack' \in Seq(Frames) /\ Len(stack') = (Len(stack) - 1) + 1
      /\ stack'[(Len(stack) - 1) + 1] = f
      /\ \A i \in 1..(Len(stack) - 1) : stack'[i] = Front(stack)[i]
  BY <1>2, <1>3, <1>4
<1> QED
  BY <1>1, <1>2, <1>3, <1>5 DEF f

-----------------------------------------------------------------------------
(* Types *)

TypeFlags ==
  /\ onCancel \in Policies /\ onError \in Policies
  /\ disposed \in BOOLEAN /\ dirty \in BOOLEAN /\ flushing \in BOOLEAN /\ overtaken \in BOOLEAN

TypeData ==
  /\ lastRun \in Runs /\ activeRun \in {None, lastRun}
  /\ closed \in SUBSET (1 .. lastRun)
  /\ started \in SUBSET (1 .. lastRun) /\ waiting \in SUBSET started
  /\ value \in SUBSET (1 .. lastRun) /\ stableValue \in SUBSET (1 .. lastRun)
  /\ status \in Statuses /\ error \in 0 .. lastRun
  /\ ticks \in SUBSET (1 .. lastRun) /\ starts \in SUBSET (1 .. lastRun)
  /\ behind \in SUBSET (1 .. lastRun)
  /\ spoiled \in SUBSET (1 .. lastRun) /\ doomed \in SUBSET (1 .. lastRun)

TypeStack == stack \in Seq(Frames) /\ \A i \in 1 .. Len(stack) : stack[i].run <= lastRun

LEMMA TypeParts == TypeOK <=> TypeFlags /\ TypeData /\ TypeStack /\ calls \in Nat
<1>1. stack \in Seq(Frames) => DOMAIN stack = 1 .. Len(stack)
  OBVIOUS
<1>2. TypeOK => TypeStack
  BY <1>1 DEF TypeOK, TypeStack
<1>3. TypeStack => stack \in Seq(Frames) /\ \A i \in DOMAIN stack : stack[i].run <= lastRun
  BY <1>1 DEF TypeStack
<1> QED
  BY <1>2, <1>3, Zenon DEF TypeOK, TypeFlags, TypeData

LEMMA FlagsStep == TypeFlags /\ [Next]_vars => TypeFlags'
<1> SUFFICES ASSUME TypeFlags, [Next]_vars PROVE TypeFlags'
  OBVIOUS
<1>0. Step
  BY NextStep
<1> USE DEF options, runs, signals, tasks, history
<1>1. onCancel' = onCancel /\ onError' = onError
  <2>1. ASSUME \E r \in 1 .. lastRun : \/ Write(r, value \cup {r}) \/ Write(r, {r}) \/ Done(r, value)
                                       \/ Done(r, {r}) \/ Fail(r) \/ OnCleanup(r) \/ Tick(r) \/ Start(r)
        PROVE  UNCHANGED <<onCancel, onError>>
    BY <2>1, Zenon DEF Write, Done, Fail, OnCleanup, Tick, Start
  <2>2. ASSUME SourceChange \/ Trigger \/ Canceller \/ DisposeIdle \/ FlushNothing
        PROVE  UNCHANGED <<onCancel, onError>>
    BY <2>2, Zenon DEF SourceChange, Trigger, Canceller, DisposeIdle, FlushNothing
  <2>3. ASSUME RunAfterClosing \/ QueueStart \/ Drain \/ Report \/ CancelPublish \/ Escape \/ UNCHANGED vars
        PROVE  UNCHANGED <<onCancel, onError>>
    BY <2>3, Zenon DEF RunAfterClosing, QueueStart, Drain, Report, CancelPublish, Escape, vars
  <2> QED
    BY <1>0, <2>1, <2>2, <2>3, Zenon DEF Step
<1>2. /\ disposed' = disposed \/ disposed' = TRUE
      /\ dirty' = dirty \/ dirty' = TRUE \/ dirty' = FALSE
      /\ flushing' = flushing \/ flushing' = TRUE \/ flushing' = FALSE
      /\ overtaken' = overtaken \/ overtaken' = FALSE \/ overtaken' = (activeRun # None)
  <2> DEFINE P == /\ disposed' = disposed \/ disposed' = TRUE
                  /\ dirty' = dirty \/ dirty' = TRUE \/ dirty' = FALSE
                  /\ flushing' = flushing \/ flushing' = TRUE \/ flushing' = FALSE
                  /\ overtaken' = overtaken \/ overtaken' = FALSE \/ overtaken' = (activeRun # None)
  <2>1. ASSUME \E r \in 1 .. lastRun : \/ Write(r, value \cup {r}) \/ Write(r, {r}) \/ Done(r, value)
                                       \/ Done(r, {r}) \/ Fail(r) \/ OnCleanup(r) \/ Tick(r) \/ Start(r)
        PROVE  P
    BY <2>1, Zenon DEF Write, Done, Fail, OnCleanup, Tick, Start
  <2>2. ASSUME SourceChange \/ DisposeIdle \/ FlushNothing PROVE P
    BY <2>2, Zenon DEF SourceChange, DisposeIdle, FlushNothing
  <2>3. ASSUME RunAfterClosing \/ QueueStart \/ Drain \/ Report \/ CancelPublish \/ Escape \/ UNCHANGED vars
        PROVE  P
    BY <2>3, Zenon DEF RunAfterClosing, QueueStart, Drain, Report, CancelPublish, Escape, vars, BeginRun
  <2>4. ASSUME Trigger, SupersedeActiveRun \/ ReplaceUnheard PROVE P
    BY <2>4, Zenon DEF Trigger, SupersedeActiveRun, ReplaceUnheard, BeginRun
  <2>5. ASSUME Canceller, CancelHeard \/ CancelUnheard PROVE P
    BY <2>5, Zenon DEF Canceller, CancelHeard, CancelUnheard
  <2> QED
    BY <1>0, <2>1, <2>2, <2>3, <2>4, <2>5, Zenon DEF Step
<1> QED
  BY <1>1, <1>2, Zenon DEF TypeFlags

LEMMA InitType == Init => TypeOK
<1> SUFFICES ASSUME Init PROVE TypeOK
  OBVIOUS
<1>1. TypeFlags
  BY Zenon DEF Init, TypeFlags
<1>2. TypeData
  BY DEF Init, TypeData, Runs, None, Statuses
<1>3. TypeStack /\ calls \in Nat
  BY DEF Init, TypeStack
<1> QED
  BY <1>1, <1>2, <1>3, TypeParts

LEMMA NextType == TypeOK /\ [Next]_vars => TypeOK'
<1> SUFFICES ASSUME TypeOK, [Next]_vars PROVE TypeOK'
  OBVIOUS
<1>0. Step
  BY NextStep
<1> USE DEF options, runs, signals, tasks, history
<1>D. TypeFlags /\ TypeData /\ TypeStack /\ calls \in Nat
  BY TypeParts
<1>F. TypeFlags'
  BY <1>D, FlagsStep
<1>I. Interrupted(onCancel) \in SUBSET (1 .. lastRun) /\ Interrupted(onError) \in SUBSET (1 .. lastRun)
  BY <1>D DEF TypeFlags, TypeData, Policies, Interrupted
\* The stack, whatever becomes of it.
<1>a. ASSUME stack' \in Seq(Frames), NEW f \in Frames, f.run <= lastRun', Over(f),
             lastRun' \in {lastRun, lastRun + 1}
      PROVE  TypeStack'
  <2>1. Len(stack) \in Nat /\ lastRun \in Nat /\ \A i \in 1 .. Len(stack) : stack[i].run \in Nat
    <3>1. \A i \in 1 .. Len(stack) : stack[i] \in Frames
      BY <1>D DEF TypeStack
    <3>2. \A g \in Frames : g.run \in Nat
      BY DEF Frames, Runs
    <3> QED
      BY <1>D, <3>1, <3>2 DEF TypeStack, TypeData, Runs
  <2>2. \A i \in 1 .. Len(stack) + 1 : i \in 1 .. Len(stack) \/ i = Len(stack) + 1
    BY <2>1
  <2>3. \A i \in 1 .. Len(stack) : stack[i].run <= lastRun'
    BY <1>D, <1>a, <2>1 DEF TypeStack
  <2> QED
    BY <1>a, <2>2, <2>3 DEF TypeStack, Over
<1>b. ASSUME stack' \in Seq(Frames), Less, lastRun' = lastRun PROVE TypeStack'
  <2>1. \A i \in 1 .. Len(stack) - 1 : i \in 1 .. Len(stack)
    BY <1>D DEF TypeStack
  <2> QED
    BY <1>b, <1>D, <2>1 DEF Less, TypeStack
<1>c. ASSUME stack # <<>>, NEW r \in Runs, NEW a \in {"batch", "closing"}, GoTo(r, a), r <= lastRun',
             lastRun' \in {lastRun, lastRun + 1}
      PROVE  TypeStack'
  <2>1. /\ stack' \in Seq(Frames) /\ Len(stack') = Len(stack)
        /\ \A i \in 1..(Len(stack) - 1) : stack'[i] = stack[i]
        /\ stack'[Len(stack)] = Frame(Top.fn, r, a)
    BY <1>c, GoToFacts
  <2>2. Len(stack) \in Nat /\ lastRun \in Nat /\ \A i \in 1 .. Len(stack) : stack[i].run \in Nat
    <3>1. \A i \in 1 .. Len(stack) : stack[i] \in Frames
      BY <1>D DEF TypeStack
    <3>2. \A g \in Frames : g.run \in Nat
      BY DEF Frames, Runs
    <3> QED
      BY <1>D, <3>1, <3>2 DEF TypeStack, TypeData, Runs
  <2>3. \A i \in 1 .. Len(stack) : i \in 1 .. Len(stack) - 1 \/ i = Len(stack)
    BY <2>2
  <2>4. \A i \in 1 .. Len(stack) : stack[i].run <= lastRun'
    BY <1>D, <1>c, <2>2 DEF TypeStack
  <2>5. \A i \in 1 .. Len(stack) - 1 : i \in 1 .. Len(stack)
    BY <2>2
  <2>6. stack'[Len(stack)].run = r
    BY <2>1 DEF Frame
  <2> QED
    BY <1>c, <2>1, <2>3, <2>4, <2>5, <2>6 DEF TypeStack
<1>d. ASSUME stack' = stack, lastRun' = lastRun PROVE TypeStack'
  BY <1>D, <1>d DEF TypeStack
\* A frame on top, for a run there is.
<1>e. ASSUME NEW f \in {"replace", "cancel", "done", "fail"}, NEW r \in Runs,
             NEW a \in {"batch", "closing"}, Push(f, r, a), r <= lastRun',
             lastRun' \in {lastRun, lastRun + 1}
      PROVE  TypeStack'
  <2>1. stack' \in Seq(Frames) /\ Over(Frame(f, r, a))
    BY <1>e, PushFacts
  <2>2. Frame(f, r, a) \in Frames /\ Frame(f, r, a).run = r
    BY DEF Frame, Frames
  <2> QED
    BY <1>a, <1>e, <2>1, <2>2
<1>f. ASSUME NEW r \in 1 .. lastRun PROVE r \in Runs /\ r <= lastRun
  BY <1>D DEF TypeData, Runs
<1>g. lastRun + 1 \in Runs /\ 1 .. lastRun \subseteq 1 .. lastRun + 1 /\ 0 .. lastRun \subseteq 0 .. lastRun + 1
      /\ lastRun \in Nat /\ lastRun + 1 <= lastRun + 1 /\ 0 \in 0 .. lastRun
  BY <1>D DEF TypeData, Runs
<1>h. ASSUME activeRun \in started PROVE activeRun \in 1 .. lastRun
  BY <1>D, <1>h DEF TypeData
<1> DEFINE Goal == TypeData' /\ TypeStack' /\ calls' \in Nat
<1>1. ASSUME NEW r \in 1 .. lastRun, NEW v \in SUBSET (1 .. lastRun), Write(r, v) PROVE Goal
  BY <1>D, <1>1, <1>d DEF Write, TypeData, Statuses
<1>2. ASSUME NEW r \in 1 .. lastRun, NEW v \in SUBSET (1 .. lastRun), Done(r, v) PROVE Goal
  <2>1. TypeStack'
    BY <1>2, <1>e, <1>f DEF Done
  <2>2. TypeData' /\ calls' \in Nat
    BY <1>D, <1>2, <1>g DEF Done, CloseRun, IsActiveRun, TypeData, Statuses, None
  <2> QED
    BY <2>1, <2>2
<1>3. ASSUME NEW r \in 1 .. lastRun, Fail(r) PROVE Goal
  <2>1. TypeStack'
    BY <1>3, <1>e, <1>f DEF Fail
  <2>2. TypeData' /\ calls' \in Nat
    BY <1>D, <1>3, <1>g, <1>I DEF Fail, CloseRun, IsActiveRun, TypeData, Statuses, None
  <2> QED
    BY <2>1, <2>2
<1>4. ASSUME NEW r \in 1 .. lastRun, OnCleanup(r) PROVE Goal
  BY <1>D, <1>4, <1>d DEF OnCleanup, TypeData
<1>5. ASSUME SourceChange PROVE Goal
  BY <1>D, <1>5, <1>d DEF SourceChange, TypeData
<1>6. ASSUME SupersedeActiveRun, Trigger PROVE Goal
  <2>1. TypeStack'
    BY <1>6, <1>e, <1>f, <1>h DEF SupersedeActiveRun
  <2>2. behind' \in {behind, {}} /\ calls' \in Nat
    BY <1>D, <1>6 DEF Trigger
  <2>3. TypeData'
    BY <1>D, <1>6, <1>h, <2>2 DEF SupersedeActiveRun, Trigger, CloseRun, IsActiveRun, TypeData, None
  <2> QED
    BY <2>1, <2>2, <2>3
<1>7. ASSUME ReplaceUnheard, Trigger PROVE Goal
  <2>1. TypeStack'
    BY <1>7, <1>e, <1>g DEF ReplaceUnheard, BeginRun
  <2>2. behind' \in {behind, {}} /\ calls' \in Nat /\ ticks' = ticks /\ starts' = starts
    BY <1>D, <1>7 DEF Trigger
  <2>3. /\ activeRun' = lastRun + 1 /\ lastRun' = lastRun + 1 /\ value' = {} /\ error' = None
        /\ status' = "pending" /\ stableValue' = stableValue /\ started' = started
        /\ spoiled' = spoiled /\ doomed' = doomed /\ waiting' = waiting
        /\ closed' = closed \cup ({activeRun} \ {None})
    BY <1>7 DEF ReplaceUnheard, BeginRun, ResetForNewRun
  <2>4. closed' \in SUBSET (1 .. lastRun')
    BY <1>D, <1>g, <2>3 DEF TypeData, None, Runs
  <2>5. TypeData'
    BY <1>D, <1>g, <2>2, <2>3, <2>4 DEF TypeData, None, Statuses
  <2> QED
    BY <2>1, <2>2, <2>5
<1>8. ASSUME CancelHeard, Canceller PROVE Goal
  <2>1. TypeStack'
    BY <1>8, <1>e, <1>f, <1>h DEF CancelHeard
  <2>2. TypeData' /\ calls' \in Nat
    BY <1>D, <1>8, <1>h DEF CancelHeard, Canceller, CloseRun, IsActiveRun, TypeData, None
  <2> QED
    BY <2>1, <2>2
<1>9. ASSUME CancelUnheard, Canceller PROVE Goal
  <2>1. activeRun \in 1 .. lastRun
    BY <1>D, <1>9 DEF CancelUnheard, TypeData, Runs
  <2> QED
    BY <1>D, <1>9, <1>d, <1>I, <2>1
    DEF CancelUnheard, Canceller, PublishCancelled, CloseRun, IsActiveRun, TypeData, None, Statuses
<1>10. ASSUME DisposeIdle \/ FlushNothing \/ UNCHANGED vars PROVE Goal
  <2>1. /\ UNCHANGED <<runs, signals, stack, calls, ticks, starts, spoiled, doomed>>
        /\ behind' \in {behind, {}}
    BY <1>10 DEF DisposeIdle, FlushNothing, vars
  <2> QED
    BY <1>D, <1>d, <2>1 DEF TypeData
<1>11. ASSUME NEW r \in 1 .. lastRun, Tick(r) PROVE Goal
  BY <1>D, <1>11, <1>d DEF Tick, TypeData
<1>12. ASSUME NEW r \in 1 .. lastRun, Start(r) PROVE Goal
  BY <1>D, <1>12, <1>d DEF Start, TypeData
<1>13. ASSUME RunAfterClosing PROVE Goal
  <2>1. TypeStack'
    BY <1>13, <1>c, <1>g DEF RunAfterClosing, BeginRun, In
  <2>2. TypeData' /\ calls' \in Nat
    BY <1>D, <1>13, <1>g
    DEF RunAfterClosing, BeginRun, ResetForNewRun, DrainCleanups, TypeData, None, Statuses
  <2> QED
    BY <2>1, <2>2
<1>14. ASSUME QueueStart PROVE Goal
  <2>1. TypeStack'
    BY <1>14, <1>b, PopFacts DEF QueueStart, In
  <2>2. Top.run \in 1 .. lastRun
    BY <1>14, TopFacts DEF QueueStart, In
  <2>3. TypeData' /\ calls' \in Nat
    BY <1>D, <1>14, <2>2 DEF QueueStart, TypeData
  <2> QED
    BY <2>1, <2>3
<1>15. ASSUME Drain PROVE Goal
  <2>1. TypeStack'
    BY <1>15, <1>c, <1>g, TopFacts DEF Drain, In
  <2> QED
    BY <1>D, <1>15, <2>1 DEF Drain, TypeData
<1>16. ASSUME Report PROVE Goal
  <2>1. TypeStack'
    BY <1>16, <1>b, PopFacts DEF Report, In
  <2> QED
    BY <1>D, <1>16, <2>1 DEF Report, DrainCleanups, TypeData
<1>17. ASSUME CancelPublish PROVE Goal
  <2>1. TypeStack'
    BY <1>17, <1>b, PopFacts DEF CancelPublish, In
  <2> QED
    BY <1>D, <1>17, <1>I, <2>1 DEF CancelPublish, PublishCancelled, DrainCleanups, TypeData, Statuses
<1>18. ASSUME Escape PROVE Goal
  <2>1. TypeStack' /\ Top.run \in 1 .. lastRun
    BY <1>18, <1>b, PopFacts, TopFacts DEF Escape
  <2> QED
    BY <1>D, <1>18, <2>1 DEF Escape, TypeData
<1>s. \A r \in 1 .. lastRun : {r} \in SUBSET (1 .. lastRun) /\ value \cup {r} \in SUBSET (1 .. lastRun)
  BY <1>D DEF TypeData
<1>v. value \in SUBSET (1 .. lastRun)
  BY <1>D DEF TypeData
<1>19. Goal
  BY <1>0, <1>1, <1>2, <1>3, <1>4, <1>5, <1>6, <1>7, <1>8, <1>9, <1>10, <1>11, <1>12, <1>13, <1>14,
     <1>15, <1>16, <1>17, <1>18, <1>s, <1>v, Zenon DEF Step
<1>20. stack' \in Seq(Frames) /\ \A i \in DOMAIN stack' : stack'[i].run <= lastRun'
  BY <1>19 DEF TypeStack
<1> QED
  BY <1>F, <1>19, <1>20, Zenon DEF TypeOK, TypeFlags, TypeData

\* StreamResource keeps its types.
THEOREM StreamTypeCorrect == Spec => []TypeOK
<1> QED
  BY InitType, NextType, PTL DEF Spec

-----------------------------------------------------------------------------
(* What each step does to the stack *)

ShapedInv == TypeOK /\ ShapeInv /\ RunsInv

\* A step that closes a run whose producer has been called is taken between calls.
LEMMA StartedMeansIdle ==
  ASSUME ShapedInv
  PROVE  /\ activeRun \in started => Idle
         /\ \A r \in started : IsActiveRun(r) => Idle
BY DEF ShapedInv, RunsInv, IsActiveRun

LEMMA StackStep ==
  ASSUME ShapedInv
  PROVE  /\ \A r \in 1 .. lastRun : Done(r, value) \/ Done(r, {r}) => Based(Frame("done", r, "batch"))
         /\ \A r \in 1 .. lastRun : Fail(r) => Based(Frame("fail", r, "batch"))
         /\ SupersedeActiveRun => Based(Frame("replace", activeRun, "closing"))
         /\ CancelHeard => Based(Frame("cancel", activeRun, "closing"))
         /\ ReplaceUnheard => Over(Frame("replace", lastRun + 1, "batch"))
         /\ RunAfterClosing =>
              /\ Top = stack[1] /\ stack[1].fn = "replace" /\ stack[1].at = "closing"
              /\ Rebased(Frame("replace", lastRun + 1, "batch"))
         /\ Drain => /\ Top = stack[1] /\ stack[1].fn \in {"done", "fail"}
                     /\ Rebased(Frame(stack[1].fn, stack[1].run, "closing"))
         /\ Report => Top = stack[1] /\ stack[1].fn \in {"done", "fail"} /\ Emptied
         /\ CancelPublish => Top = stack[1] /\ stack[1].fn = "cancel" /\ Emptied
         /\ QueueStart => Less /\ Top = stack[Len(stack)] /\ Top.fn = "replace" /\ Top.at = "batch"
         /\ Escape => Less /\ Top = stack[Len(stack)] /\ Top.at = "batch"
<1>0. TypeOK /\ ShapeInv /\ RunsInv /\ lastRun \in Nat /\ lastRun + 1 \in Runs
  BY DEF ShapedInv, TypeOK, Runs
<1>1. ASSUME NEW f \in {"replace", "cancel", "done", "fail"}, NEW r \in Runs,
             NEW a \in {"batch", "closing"}, Push(f, r, a), Idle
      PROVE  Based(Frame(f, r, a))
  <2>1. Over(Frame(f, r, a)) /\ Len(stack) = 0
    BY <1>0, <1>1, PushFacts DEF Idle
  <2>2. Len(stack) + 1 = 1
    BY <2>1
  <2> QED
    BY <1>1, <2>1, <2>2 DEF Over, Based
<1>2. activeRun \in started => activeRun \in Runs
  BY <1>0 DEF TypeOK, Runs
<1>3. \A r \in 1 .. lastRun : r \in Runs
  BY DEF Runs
\* What is not the beginning of a run is alone on the stack.
<1>4. ASSUME stack # <<>>, Top.fn # "replace" \/ Top.at # "batch"
      PROVE  Len(stack) = 1 /\ Top = stack[1]
  <2>1. Top = stack[Len(stack)] /\ Len(stack) \in Nat \ {0}
    BY <1>0, <1>4, TopFacts
  <2>2. Len(stack) \notin 2 .. Len(stack)
    BY <1>0, <1>4, <2>1 DEF ShapeInv
  <2>3. Len(stack) = 1
    <3>1. \A n \in Nat \ {0} : n \notin 2 .. n => n = 1
      OBVIOUS
    <3> QED
      BY <2>1, <2>2, <3>1
  <2> QED
    BY <2>1, <2>3
<1>5. ASSUME stack # <<>>, NEW r \in Runs, NEW a \in {"batch", "closing"}, GoTo(r, a), Len(stack) = 1
      PROVE  Rebased(Frame(Top.fn, r, a))
  BY <1>0, <1>5, GoToFacts DEF Rebased
<1>6. ASSUME stack # <<>>, Pop, Len(stack) = 1 PROVE Emptied
  <2>1. Less
    BY <1>0, <1>6, PopFacts
  <2>2. Len(stack) - 1 = 0
    BY <1>6
  <2> QED
    BY <1>6, <2>1, <2>2 DEF Less, Emptied
<1>7. \A r \in 1 .. lastRun : Done(r, value) \/ Done(r, {r}) => Based(Frame("done", r, "batch"))
  BY <1>1, <1>3, StartedMeansIdle DEF Done, CloseRun
<1>8. \A r \in 1 .. lastRun : Fail(r) => Based(Frame("fail", r, "batch"))
  BY <1>1, <1>3, StartedMeansIdle DEF Fail, CloseRun
<1>9. /\ SupersedeActiveRun => Based(Frame("replace", activeRun, "closing"))
      /\ CancelHeard => Based(Frame("cancel", activeRun, "closing"))
  BY <1>1, <1>2, StartedMeansIdle DEF SupersedeActiveRun, CancelHeard
<1>10. ReplaceUnheard => Over(Frame("replace", lastRun + 1, "batch"))
  BY <1>0, PushFacts DEF ReplaceUnheard
<1>11. ASSUME RunAfterClosing
       PROVE  /\ Top = stack[1] /\ stack[1].fn = "replace" /\ stack[1].at = "closing"
              /\ Rebased(Frame("replace", lastRun + 1, "batch"))
  BY <1>0, <1>4, <1>5, <1>11 DEF RunAfterClosing, In
<1>12. ASSUME Drain
       PROVE  /\ Top = stack[1] /\ stack[1].fn \in {"done", "fail"}
              /\ Rebased(Frame(stack[1].fn, stack[1].run, "closing"))
  <2>1. stack # <<>> /\ Top.fn \in {"done", "fail"} /\ GoTo(Top.run, "closing")
    BY <1>12 DEF Drain, In
  <2>2. Len(stack) = 1 /\ Top = stack[1] /\ Top.run \in Runs
    BY <1>0, <1>4, <2>1, TopFacts
  <2> QED
    BY <1>5, <2>1, <2>2
<1>13. ASSUME Report PROVE Top = stack[1] /\ stack[1].fn \in {"done", "fail"} /\ Emptied
  BY <1>4, <1>6, <1>13 DEF Report, In
<1>14. ASSUME CancelPublish PROVE Top = stack[1] /\ stack[1].fn = "cancel" /\ Emptied
  BY <1>4, <1>6, <1>14 DEF CancelPublish, In
<1>15. ASSUME QueueStart \/ Escape
       PROVE  /\ Less /\ Top = stack[Len(stack)] /\ Top.at = "batch"
              /\ QueueStart => Top.fn = "replace"
  BY <1>0, <1>15, PopFacts, TopFacts DEF QueueStart, Escape, In
<1> QED
  BY <1>7, <1>8, <1>9, <1>10, <1>11, <1>12, <1>13, <1>14, <1>15, Zenon

\* The steps that touch neither the runs nor the stack.
Quiet == UNCHANGED <<activeRun, lastRun, closed, started, stack>>

LEMMA QuietSteps ==
  /\ \A r \in 1 .. lastRun : Write(r, value \cup {r}) \/ Write(r, {r}) \/ OnCleanup(r) \/ Tick(r) => Quiet
  /\ SourceChange \/ DisposeIdle \/ FlushNothing \/ UNCHANGED vars => Quiet
BY Zenon DEF Write, OnCleanup, Tick, SourceChange, DisposeIdle, FlushNothing, vars, runs, Quiet

LEMMA NextShaped == ShapedInv /\ [Next]_vars => ShapedInv'
<1> SUFFICES ASSUME ShapedInv, [Next]_vars PROVE ShapeInv' /\ RunsInv'
  BY NextType DEF ShapedInv
<1> DEFINE Goal == ShapeInv' /\ RunsInv'
<1>0. Step
  BY NextStep
<1>T. /\ TypeOK /\ ShapeInv /\ RunsInv /\ stack \in Seq(Frames) /\ Len(stack) \in Nat
      /\ stack' \in Seq(Frames) /\ Len(stack') \in Nat /\ None \notin closed'
      /\ lastRun \in Runs /\ activeRun \in {None, lastRun} /\ started \subseteq 1 .. lastRun
      /\ closed \subseteq 1 .. lastRun
      /\ lastRun + 1 \notin started /\ lastRun + 1 \notin closed /\ None \notin started
  <2>1. TypeOK /\ TypeOK'
    BY NextType DEF ShapedInv
  <2>2. /\ stack \in Seq(Frames) /\ stack' \in Seq(Frames) /\ lastRun \in Runs
        /\ activeRun \in {None, lastRun} /\ started \subseteq 1 .. lastRun /\ closed \subseteq 1 .. lastRun
    BY <2>1 DEF TypeOK
  <2>3. lastRun + 1 \notin 1 .. lastRun /\ None \notin 1 .. lastRun
    BY <2>2 DEF Runs, None
  <2>4. closed' \subseteq 1 .. lastRun'
    BY <2>1 DEF TypeOK
  <2>5. None \notin closed'
    BY <2>4 DEF None
  <2>6. Len(stack) \in Nat /\ Len(stack') \in Nat
    BY <2>2
  <2>7. lastRun + 1 \notin started /\ lastRun + 1 \notin closed /\ None \notin started
    BY <2>2, <2>3
  <2> QED
    BY <2>1, <2>2, <2>5, <2>6, <2>7 DEF ShapedInv
<1>I. /\ Idle <=> Len(stack) = 0
      /\ Idle' <=> Len(stack') = 0
  BY <1>T DEF Idle
<1>S. \A i \in 1 .. Len(stack) :
        stack[i].at = "closing" \/ stack[i].fn \in {"done", "fail"} => stack[i].run \in closed
  BY <1>T DEF RunsInv
\* A run is closed at the bottom of the stack.
<1>a. ASSUME NEW f \in {"replace", "cancel", "done", "fail"}, NEW r \in closed', NEW a \in {"batch", "closing"},
             Based(Frame(f, r, a)), activeRun' = None, started' = started,
             started \subseteq closed' PROVE Goal
  <2>1. Len(stack') = 1 /\ stack'[1].run = r
    BY <1>a DEF Based, Frame
  <2>2. None \notin closed'
    BY <1>T
  <2>3. ShapeInv'
    BY <2>1 DEF ShapeInv
  <2>4. \A i \in 1 .. Len(stack') : i = 1
    BY <2>1
  <2> QED
    BY <1>T, <1>a, <2>1, <2>2, <2>3, <2>4 DEF RunsInv
\* A run begins.
<1>b. ASSUME activeRun' = lastRun + 1, started' = started, started \subseteq closed',
             closed' \subseteq closed \cup {activeRun},  closed \subseteq closed',
             \/ Over(Frame("replace", lastRun + 1, "batch"))
             \/ Rebased(Frame("replace", lastRun + 1, "batch"))
      PROVE  Goal
  <2>1. activeRun' \notin closed' /\ activeRun' \notin started'
    <3>1. lastRun + 1 # activeRun
      BY <1>T DEF Runs, None
    <3> QED
      BY <1>T, <1>b, <3>1
  <2>f. /\ Frame("replace", lastRun + 1, "batch").fn = "replace"
        /\ Frame("replace", lastRun + 1, "batch").at = "batch"
    BY DEF Frame
  <2>2. CASE Over(Frame("replace", lastRun + 1, "batch"))
    <3>1. \A i \in 1 .. Len(stack') : i \in 1 .. Len(stack) \/ i = Len(stack) + 1
      BY <1>T, <2>2 DEF Over
    <3>2. \A i \in 2 .. Len(stack') : i \in 2 .. Len(stack) \/ i = Len(stack) + 1
      BY <1>T, <2>2 DEF Over
    <3>3. ShapeInv'
      BY <1>T, <2>2, <2>f, <3>2 DEF Over, ShapeInv
    <3>4. \A i \in 1 .. Len(stack') :
            stack'[i].at = "closing" \/ stack'[i].fn \in {"done", "fail"} => stack'[i].run \in closed'
      BY <1>S, <1>b, <2>2, <2>f, <3>1 DEF Over
    <3> QED
      BY <1>b, <2>1, <3>3, <3>4 DEF RunsInv
  <2>3. CASE Rebased(Frame("replace", lastRun + 1, "batch"))
    <3>1. \A i \in 1 .. Len(stack') : i = 1
      BY <2>3 DEF Rebased
    <3>2. \A i \in 2 .. Len(stack') : FALSE
      BY <2>3 DEF Rebased
    <3> QED
      BY <1>b, <2>1, <2>3, <2>f, <3>1, <3>2 DEF Rebased, ShapeInv, RunsInv
  <2> QED
    BY <1>b, <2>2, <2>3
\* A call ends.
<1>c. ASSUME Less \/ Emptied, UNCHANGED <<activeRun, closed, started>> PROVE Goal
  <2>1. /\ Len(stack') = Len(stack) - 1 /\ Len(stack) >= 1
        /\ \A i \in 1 .. Len(stack') : stack'[i] = stack[i]
    <3>1. CASE Less
      BY <3>1 DEF Less
    <3>2. CASE Emptied
      <4>1. Len(stack) = 1 /\ Len(stack') = 0 /\ 1 - 1 = 0 /\ 1 >= 1
        BY <3>2 DEF Emptied
      <4>2. \A i \in 1 .. 0 : FALSE
        OBVIOUS
      <4> QED
        BY <4>1, <4>2
    <3> QED
      BY <1>c, <3>1, <3>2
  <2>2. \A i \in 1 .. Len(stack') : i \in 1 .. Len(stack)
    BY <1>T, <2>1
  <2>3. \A i \in 2 .. Len(stack') : i \in 2 .. Len(stack) /\ i \in 1 .. Len(stack')
    BY <1>T, <2>1
  <2>4. ShapeInv'
    BY <1>T, <2>1, <2>3 DEF ShapeInv
  <2>5. ~Idle
    BY <1>I, <2>1
  <2>6. \A i \in 1 .. Len(stack') :
          stack'[i].at = "closing" \/ stack'[i].fn \in {"done", "fail"} => stack'[i].run \in closed'
    BY <1>S, <1>c, <2>1, <2>2
  <2> QED
    BY <1>T, <1>c, <2>4, <2>5, <2>6 DEF RunsInv
<1>1. ASSUME Quiet PROVE Goal
  BY <1>1, <1>T DEF Quiet, ShapeInv, RunsInv, Idle
<1> USE DEF runs
<1>2. ASSUME NEW r \in 1 .. lastRun, Done(r, value) \/ Done(r, {r}) \/ Fail(r) PROVE Goal
  <2>1. Based(Frame("done", r, "batch")) \/ Based(Frame("fail", r, "batch"))
    BY <1>2, StackStep
  <2>2. activeRun' = None /\ closed' = closed \cup {r} /\ started' = started /\ r = activeRun
    BY <1>2 DEF Done, Fail, CloseRun, IsActiveRun
  <2> QED
    BY <1>T, <1>a, <2>1, <2>2 DEF RunsInv
<1>3. ASSUME SupersedeActiveRun \/ CancelHeard PROVE Goal
  <2>1. Based(Frame("replace", activeRun, "closing")) \/ Based(Frame("cancel", activeRun, "closing"))
    BY <1>3, StackStep
  <2>2. activeRun' = None /\ closed' = closed \cup {activeRun} /\ started' = started
    BY <1>3 DEF SupersedeActiveRun, CancelHeard, CloseRun
  <2> QED
    BY <1>T, <1>a, <2>1, <2>2 DEF RunsInv
<1>4. ASSUME ReplaceUnheard PROVE Goal
  <2>1. /\ activeRun' = lastRun + 1 /\ started' = started /\ activeRun \notin started
        /\ closed' = closed \cup ({activeRun} \ {None})
    BY <1>4 DEF ReplaceUnheard, BeginRun
  <2>2. Over(Frame("replace", lastRun + 1, "batch"))
    BY <1>4, StackStep
  <2>3. started \subseteq closed
    BY <1>T, <2>1 DEF RunsInv
  <2> QED
    BY <1>b, <2>1, <2>2, <2>3
<1>5. ASSUME CancelUnheard PROVE Goal
  <2>1. activeRun' = None /\ closed' = closed \cup {activeRun} /\ UNCHANGED <<started, stack>>
    BY <1>5 DEF CancelUnheard, CloseRun
  <2>2. None \notin closed'
    BY <1>T
  <2>3. Len(stack') = Len(stack) /\ \A i \in 1 .. Len(stack) : stack'[i] = stack[i]
    BY <2>1
  <2> QED
    BY <1>T, <1>S, <2>1, <2>2, <2>3 DEF RunsInv, ShapeInv
<1>6. ASSUME NEW r \in 1 .. lastRun, Start(r) PROVE Goal
  <2>1. Idle /\ UNCHANGED <<activeRun, closed, stack>> /\ (started' = started \/ started' = started \cup {activeRun})
    BY <1>6 DEF Start, IsActiveRun
  <2> QED
    BY <1>T, <2>1 DEF RunsInv, ShapeInv, Idle
<1>7. ASSUME RunAfterClosing PROVE Goal
  <2>1. /\ activeRun' = lastRun + 1 /\ started' = started /\ closed' = closed
    BY <1>7 DEF RunAfterClosing, BeginRun
  <2>2. Rebased(Frame("replace", lastRun + 1, "batch"))
    BY <1>7, StackStep
  <2>3. started \subseteq closed
    BY <1>T, <1>I, <2>2 DEF RunsInv, Rebased
  <2> QED
    BY <1>b, <2>1, <2>2, <2>3
<1>8. ASSUME Drain PROVE Goal
  <2>1. UNCHANGED <<activeRun, closed, started>>
    BY <1>8 DEF Drain
  <2>2. /\ Len(stack) = 1 /\ Len(stack') = 1 /\ stack'[1].run = stack[1].run
        /\ stack[1].fn \in {"done", "fail"}
    BY <1>8, StackStep DEF Rebased, Frame
  <2>3. stack[1].run \in closed
    BY <1>S, <2>2
  <2>4. \A i \in 1 .. Len(stack') : i = 1
    BY <2>2
  <2>5. \A i \in 2 .. Len(stack') : FALSE
    BY <2>2
  <2>6. ~Idle
    BY <1>I, <2>2
  <2> QED
    BY <1>T, <2>1, <2>2, <2>3, <2>4, <2>5, <2>6 DEF ShapeInv, RunsInv
<1>9. ASSUME QueueStart \/ Escape \/ Report \/ CancelPublish PROVE Goal
  <2>1. UNCHANGED <<activeRun, closed, started>>
    BY <1>9 DEF QueueStart, Escape, Report, CancelPublish
  <2> QED
    BY <1>9, <1>c, <2>1, StackStep
<1> QED
  BY <1>0, <1>1, <1>2, <1>3, <1>4, <1>5, <1>6, <1>7, <1>8, <1>9, QuietSteps, Zenon DEF Step

LEMMA InitShaped == Init => ShapedInv
<1> SUFFICES ASSUME Init PROVE ShapedInv
  OBVIOUS
<1>1. TypeOK
  BY InitType
<1>2. stack = <<>> /\ Len(stack) = 0 /\ activeRun = 1 /\ started = {} /\ closed = {}
  BY DEF Init
<1>3. (\A i \in 2 .. 0 : FALSE) /\ (\A i \in 1 .. 0 : FALSE)
  OBVIOUS
<1> QED
  BY <1>1, <1>2, <1>3 DEF ShapedInv, ShapeInv, RunsInv, Idle

LEMMA ShapedAlways == Spec => []ShapedInv
BY InitShaped, NextShaped, PTL DEF Spec

\* One producer can write, that of the newest run.
THEOREM StreamOneProducer == Spec => []OneProducer
<1>1. ShapedInv => OneProducer
  <2> SUFFICES ASSUME ShapedInv, NEW r \in started, r \notin closed
               PROVE  r = activeRun /\ r = lastRun
    BY DEF OneProducer
  <2>1. r = activeRun
    BY Zenon DEF ShapedInv, RunsInv
  <2>2. activeRun \in {0, lastRun} /\ started \in SUBSET (1 .. lastRun)
    BY Zenon DEF ShapedInv, TypeOK, None
  <2>3. r # 0
    BY <2>2
  <2> QED
    BY <2>1, <2>2, <2>3
<1> QED
  BY <1>1, ShapedAlways, PTL

-----------------------------------------------------------------------------
(* Disposal *)

\* What the effect would do is gone with it.
LEMMA DisposedIsClean == Spec => [](disposed => ~dirty)
<1> DEFINE Inv == disposed => ~dirty
<1>1. Init => Inv
  BY DEF Init
<1>2. Inv /\ [Next]_vars => Inv'
  <2> SUFFICES ASSUME Inv, [Next]_vars PROVE Inv'
    OBVIOUS
  <2> USE DEF options, runs, signals, tasks, history
  <2>0. Step
    BY NextStep
  <2>1. ASSUME \E r \in 1 .. lastRun : \/ Write(r, value \cup {r}) \/ Write(r, {r}) \/ Done(r, value)
                                       \/ Done(r, {r}) \/ Fail(r) \/ OnCleanup(r) \/ Tick(r) \/ Start(r)
        PROVE  Inv'
    BY <2>1, Zenon DEF Write, Done, Fail, OnCleanup, Tick, Start
  <2>2. ASSUME SourceChange \/ Trigger \/ Canceller \/ DisposeIdle \/ FlushNothing PROVE Inv'
    BY <2>2, Zenon DEF SourceChange, Trigger, Canceller, DisposeIdle, FlushNothing
  <2>3. ASSUME RunAfterClosing \/ QueueStart \/ Drain \/ Report \/ CancelPublish \/ Escape \/ UNCHANGED vars
        PROVE  Inv'
    BY <2>3, Zenon DEF RunAfterClosing, QueueStart, Drain, Report, CancelPublish, Escape, vars
  <2> QED
    BY <2>0, <2>1, <2>2, <2>3, Zenon DEF Step
<1> QED
  BY <1>1, <1>2, PTL DEF Spec

\* After dispose() runs begin only in a replaceRun() that was going on.
THEOREM StreamDisposeStops == Spec => DisposeStops
<1>1. TypeOK /\ (disposed => ~dirty) /\ [Next]_vars
        => [disposed /\ lastRun' # lastRun => In("replace", "closing")]_vars
  <2> SUFFICES ASSUME disposed => ~dirty, [Next]_vars, disposed, lastRun' # lastRun
               PROVE  In("replace", "closing")
    OBVIOUS
  <2> USE DEF options, runs, signals, tasks, history
  <2>0. Step
    BY NextStep
  <2>1. ASSUME \E r \in 1 .. lastRun : \/ Write(r, value \cup {r}) \/ Write(r, {r}) \/ Done(r, value)
                                       \/ Done(r, {r}) \/ Fail(r) \/ OnCleanup(r) \/ Tick(r) \/ Start(r)
        PROVE  FALSE
    BY <2>1, Zenon DEF Write, Done, Fail, OnCleanup, Tick, Start
  <2>2. ASSUME SourceChange \/ Trigger \/ CancelHeard \/ CancelUnheard \/ DisposeIdle \/ FlushNothing
        PROVE  FALSE
    BY <2>2, Zenon DEF SourceChange, Trigger, CancelHeard, CancelUnheard, DisposeIdle, FlushNothing
  <2>3. ASSUME QueueStart \/ Drain \/ Report \/ CancelPublish \/ Escape \/ UNCHANGED vars
        PROVE  FALSE
    BY <2>3, Zenon DEF QueueStart, Drain, Report, CancelPublish, Escape, vars
  <2>4. RunAfterClosing => In("replace", "closing")
    BY Zenon DEF RunAfterClosing
  <2> QED
    BY <2>0, <2>1, <2>2, <2>3, <2>4, Zenon DEF Step
<1> QED
  BY <1>1, DisposedIsClean, StreamTypeCorrect, PTL DEF Spec, DisposeStops

-----------------------------------------------------------------------------
(* Cleanups *)

\* A run with cleanups is active, or a call is on its way to them.
CleanupInv ==
  \A r \in waiting :
    \/ r = activeRun \/ r \in spoiled
    \/ /\ Len(stack) >= 1 /\ stack[1].run = r
       /\ stack[1].at = "closing" \/ stack[1].fn \in {"done", "fail"}

\* The bottom of the stack, while calls begin and end above it.
LEMMA BottomKept ==
  ASSUME ShapedInv, [Next]_vars
  PROVE  /\ \A f : Over(f) /\ Len(stack) >= 1 => Len(stack') >= 1 /\ stack'[1] = stack[1]
         /\ Less /\ Len(stack) # 1 => Len(stack') >= 1 /\ stack'[1] = stack[1]
         /\ Less /\ Len(stack) = 1 => Len(stack') = 0
         /\ Len(stack) \in Nat /\ Len(stack') \in Nat
<1>1. Len(stack) \in Nat /\ Len(stack') \in Nat
  <2>1. TypeOK /\ TypeOK'
    BY NextType DEF ShapedInv
  <2>2. stack \in Seq(Frames) /\ stack' \in Seq(Frames)
    BY <2>1 DEF TypeOK
  <2> QED
    BY <2>2
<1>2. Len(stack) >= 1 => 1 \in 1 .. Len(stack)
  BY <1>1
<1>3. Len(stack) >= 1 /\ Len(stack) # 1 => 1 \in 1 .. Len(stack) - 1
  BY <1>1
<1>4. ASSUME NEW f, Over(f), Len(stack) >= 1 PROVE Len(stack') >= 1 /\ stack'[1] = stack[1]
  BY <1>1, <1>2, <1>4 DEF Over
<1>5. ASSUME Less, Len(stack) # 1 PROVE Len(stack') >= 1 /\ stack'[1] = stack[1]
  BY <1>1, <1>3, <1>5 DEF Less
<1>6. ASSUME Less, Len(stack) = 1 PROVE Len(stack') = 0
  BY <1>1, <1>6 DEF Less
<1> QED
  BY <1>1, <1>4, <1>5, <1>6, Zenon

LEMMA NextCleanup == ShapedInv /\ CleanupInv /\ [Next]_vars => CleanupInv'
<1> SUFFICES ASSUME ShapedInv, CleanupInv, [Next]_vars PROVE CleanupInv'
  OBVIOUS
<1> USE DEF options, runs, signals, tasks, history
<1>0. Step
  BY NextStep
<1>T. /\ TypeOK /\ RunsInv /\ waiting \subseteq started /\ None \notin started
      /\ Len(stack) \in Nat /\ Len(stack') \in Nat
  <2>1. TypeOK /\ RunsInv /\ waiting \subseteq started /\ started \subseteq 1 .. lastRun
    BY DEF ShapedInv, TypeOK
  <2> QED
    BY <2>1, BottomKept DEF None
<1>B. Idle <=> Len(stack) = 0
  <2>1. stack \in Seq(Frames)
    BY <1>T DEF TypeOK
  <2> QED
    BY <2>1 DEF Idle
<1>1. ASSUME UNCHANGED <<waiting, activeRun, spoiled, stack>> PROVE CleanupInv'
  BY <1>1 DEF CleanupInv
<1>2. ASSUME \E r \in 1 .. lastRun : Write(r, value \cup {r}) \/ Write(r, {r}) \/ Tick(r) \/ Start(r)
      PROVE  CleanupInv'
  BY <1>1, <1>2 DEF Write, Tick, Start
<1>3. ASSUME SourceChange \/ DisposeIdle \/ FlushNothing \/ UNCHANGED vars PROVE CleanupInv'
  BY <1>1, <1>3 DEF SourceChange, DisposeIdle, FlushNothing, vars
<1>4. ASSUME NEW r \in 1 .. lastRun, OnCleanup(r) PROVE CleanupInv'
  <2>1. /\ waiting' \subseteq waiting \cup {activeRun}
        /\ UNCHANGED <<activeRun, spoiled, stack>>
    BY <1>T, <1>4 DEF OnCleanup, RunsInv
  <2> QED
    BY <2>1 DEF CleanupInv
\* The active run is closed, with its cleanups before it.
<1>5. ASSUME NEW r \in 1 .. lastRun, Done(r, value) \/ Done(r, {r}) \/ Fail(r) PROVE CleanupInv'
  <2>1. Based(Frame("done", r, "batch")) \/ Based(Frame("fail", r, "batch"))
    BY <1>5, StackStep DEF ShapedInv
  <2>2. Len(stack) = 0 /\ Len(stack') >= 1 /\ stack'[1].run = r /\ stack'[1].fn \in {"done", "fail"}
    BY <1>B, <2>1 DEF Based, Frame
  <2>3. r = activeRun /\ UNCHANGED <<waiting, spoiled>>
    BY <1>5 DEF Done, Fail, CloseRun, IsActiveRun
  <2> QED
    BY <2>2, <2>3 DEF CleanupInv
<1>6. ASSUME SupersedeActiveRun \/ CancelHeard PROVE CleanupInv'
  <2>1. Based(Frame("replace", activeRun, "closing")) \/ Based(Frame("cancel", activeRun, "closing"))
    BY <1>6, StackStep
  <2>2. Len(stack) = 0 /\ Len(stack') >= 1 /\ stack'[1].run = activeRun /\ stack'[1].at = "closing"
    BY <1>B, <2>1 DEF Based, Frame
  <2>3. UNCHANGED <<waiting, spoiled>>
    BY <1>6 DEF SupersedeActiveRun, CancelHeard
  <2> QED
    BY <2>2, <2>3 DEF CleanupInv
\* An unheard run has none.
<1>7. ASSUME ReplaceUnheard PROVE CleanupInv'
  <2>1. activeRun \notin waiting /\ UNCHANGED <<waiting, spoiled>>
    BY <1>T, <1>7 DEF ReplaceUnheard, BeginRun
  <2>2. Len(stack) >= 1 => Len(stack') >= 1 /\ stack'[1] = stack[1]
    BY <1>7, StackStep, BottomKept
  <2> QED
    BY <2>1, <2>2 DEF CleanupInv
<1>8. ASSUME CancelUnheard PROVE CleanupInv'
  <2>1. activeRun \notin waiting /\ UNCHANGED <<waiting, spoiled, stack>>
    BY <1>T, <1>8 DEF CancelUnheard, PublishCancelled
  <2> QED
    BY <2>1 DEF CleanupInv
\* The call at the bottom comes to the cleanups.
<1>9. ASSUME RunAfterClosing \/ Report \/ CancelPublish PROVE CleanupInv'
  <2>1. /\ waiting' = waiting \ {Top.run} /\ UNCHANGED <<spoiled, started>>
    BY <1>9 DEF RunAfterClosing, BeginRun, Report, CancelPublish, PublishCancelled, DrainCleanups
  <2>2. Top = stack[1] /\ Len(stack) = 1
    BY <1>9, StackStep DEF Rebased, Emptied
  <2>3. activeRun \notin waiting
    BY <1>T, <1>B, <2>2 DEF RunsInv
  <2> QED
    BY <2>1, <2>2, <2>3 DEF CleanupInv
<1>10. ASSUME Drain PROVE CleanupInv'
  <2>1. /\ Len(stack) = 1 /\ Len(stack') >= 1 /\ stack'[1].run = stack[1].run
        /\ stack'[1].at = "closing"
    <3>1. Rebased(Frame(stack[1].fn, stack[1].run, "closing"))
      BY <1>10, StackStep
    <3>2. \A f, r, a : Frame(f, r, a).run = r /\ Frame(f, r, a).at = a
      BY DEF Frame
    <3> QED
      BY <3>1, <3>2 DEF Rebased
  <2>2. UNCHANGED <<activeRun, waiting, spoiled>>
    BY <1>10 DEF Drain
  <2> QED
    BY <2>1, <2>2 DEF CleanupInv
<1>11. ASSUME QueueStart \/ Escape PROVE CleanupInv'
  <2>1. /\ UNCHANGED <<activeRun, waiting>> /\ spoiled \subseteq spoiled'
        /\ Escape => Top.run \in spoiled'
    BY <1>11 DEF QueueStart, Escape
  <2>2. /\ Less /\ Top = stack[Len(stack)] /\ Top.at = "batch"
        /\ QueueStart => Top.fn = "replace"
    BY <1>11, StackStep
  <2>3. CASE Len(stack) = 1
    BY <1>11, <2>1, <2>2, <2>3 DEF CleanupInv
  <2>4. CASE Len(stack) # 1
    <3>1. Len(stack') >= 1 /\ stack'[1] = stack[1]
      BY <2>2, <2>4, BottomKept
    <3> QED
      BY <2>1, <3>1 DEF CleanupInv
  <2> QED
    BY <2>3, <2>4
<1> QED
  BY <1>0, <1>2, <1>3, <1>4, <1>5, <1>6, <1>7, <1>8, <1>9, <1>10, <1>11, Zenon DEF Step

\* Cleanups are run, but for an effect that throws in the batch of done() or fail().
THEOREM StreamCleanupsRun == Spec => []CleanupsRun
<1>1. Init => CleanupInv
  BY DEF Init, CleanupInv
<1>2. ShapedInv /\ CleanupInv => CleanupsRun
  <2> SUFFICES ASSUME CleanupInv, Idle PROVE \A r \in waiting : r = activeRun \/ r \in spoiled
    BY DEF CleanupsRun
  <2>1. ~(Len(stack) >= 1)
    BY DEF Idle
  <2> QED
    BY <2>1 DEF CleanupInv
<1> QED
  BY <1>1, <1>2, NextCleanup, ShapedAlways, PTL DEF Spec

-----------------------------------------------------------------------------
(* The status *)

\* Inside calls, a status that tells of a run in progress when none is active will
\* be replaced by the call at the bottom of the stack.
StatusInv ==
  /\ status = "success" => value = stableValue
  /\ \A i \in 1 .. Len(stack) :
       stack[i].fn = "done" /\ stack[i].run = lastRun => status = "success"
  /\ (status = "error") = (error # None)
  /\ status = "error" => value = Interrupted(onError)
  /\ status = "cancelled" /\ ~overtaken => value = Interrupted(onCancel) /\ activeRun = None
  /\ activeRun # None => status \in {"pending", "streaming"} \/ (status = "cancelled" /\ overtaken)
  /\ Len(stack) >= 1 /\ stack[1].fn = "cancel" => status # "error"
  /\ status \in {"pending", "streaming"} /\ activeRun = None =>
       Len(stack) >= 1 /\ stack[1].fn \in {"replace", "cancel"} /\ stack[1].at = "closing"

LEMMA InterruptedFacts ==
  ASSUME TypeFlags, TypeFlags', UNCHANGED <<onCancel, onError>>
  PROVE  /\ UNCHANGED <<value, stableValue>> =>
              Interrupted(onCancel)' = Interrupted(onCancel) /\ Interrupted(onError)' = Interrupted(onError)
         /\ stableValue' = stableValue /\ value' = Interrupted(onCancel) => value' = Interrupted(onCancel)'
         /\ stableValue' = stableValue /\ value' = Interrupted(onError) => value' = Interrupted(onError)'
BY DEF TypeFlags, Policies, Interrupted

LEMMA NextStatus == ShapedInv /\ StatusInv /\ [Next]_vars => StatusInv'
<1> SUFFICES ASSUME ShapedInv, StatusInv, [Next]_vars PROVE StatusInv'
  OBVIOUS
<1> USE DEF options, runs, signals, tasks, history
<1>0. Step
  BY NextStep
<1>F. TypeFlags /\ TypeFlags' /\ overtaken \in BOOLEAN
  BY TypeParts, FlagsStep, Zenon DEF ShapedInv, TypeFlags
<1>T. /\ TypeOK /\ RunsInv /\ None \notin started /\ lastRun \in Nat /\ lastRun # 0
      /\ activeRun \in {None, lastRun}
      /\ Len(stack) \in Nat /\ Len(stack') \in Nat
      /\ \A i \in 1 .. Len(stack) : stack[i].run <= lastRun /\ stack[i].run \in Nat
  <2>1. TypeOK /\ RunsInv /\ started \subseteq 1 .. lastRun /\ lastRun \in Runs /\ activeRun \in {None, lastRun}
    BY DEF ShapedInv, TypeOK
  <2>2. stack \in Seq(Frames) /\ \A i \in 1 .. Len(stack) : stack[i].run <= lastRun
    BY <2>1, TypeParts DEF TypeStack
  <2>3. \A i \in 1 .. Len(stack) : stack[i] \in Frames
    BY <2>2
  <2>4. \A f \in Frames : f.run \in Nat
    BY DEF Frames, Runs
  <2> QED
    BY <2>1, <2>2, <2>3, <2>4, BottomKept DEF None, Runs
<1>B. Idle <=> Len(stack) = 0
  <2>1. stack \in Seq(Frames)
    BY <1>T DEF TypeOK
  <2> QED
    BY <2>1 DEF Idle
<1>S. \A i \in 1 .. Len(stack) :
        stack[i].at = "closing" \/ stack[i].fn \in {"done", "fail"} => stack[i].run \in closed
  BY <1>T DEF RunsInv
<1>O. \A f, r, a : Frame(f, r, a).fn = f /\ Frame(f, r, a).run = r /\ Frame(f, r, a).at = a
  BY DEF Frame
<1>N. "success" \notin {"pending", "streaming", "cancelled"} /\ "error" \notin {"pending", "streaming", "cancelled"}
  OBVIOUS
<1>1. ASSUME UNCHANGED <<onCancel, onError, activeRun, lastRun, signals, stack, overtaken>>
      PROVE  StatusInv'
  <2>1. Interrupted(onCancel)' = Interrupted(onCancel) /\ Interrupted(onError)' = Interrupted(onError)
    BY <1>1, <1>F, InterruptedFacts
  <2> QED
    BY <1>1, <2>1, Zenon DEF StatusInv
<1>2. ASSUME \E r \in 1 .. lastRun : OnCleanup(r) \/ Tick(r) \/ Start(r) PROVE StatusInv'
  BY <1>1, <1>2, Zenon DEF OnCleanup, Tick, Start
<1>3. ASSUME SourceChange \/ DisposeIdle \/ FlushNothing \/ UNCHANGED vars PROVE StatusInv'
  BY <1>1, <1>3, Zenon DEF SourceChange, DisposeIdle, FlushNothing, vars
\* A chunk of the active run, between calls.
<1>4. ASSUME NEW r \in 1 .. lastRun, NEW v, Write(r, v) PROVE StatusInv'
  <2>1. /\ activeRun = r /\ r \in started /\ UNCHANGED <<activeRun, error, stack>>
        /\ status' = IF status = "pending" THEN "streaming" ELSE status
    BY <1>4 DEF Write, IsActiveRun
  <2>2. activeRun # None /\ Len(stack) = 0 /\ Len(stack') = 0
    BY <1>T, <1>B, <2>1 DEF RunsInv
  <2>3. overtaken' = overtaken
    BY <1>4, Zenon DEF Write
  <2>4. status \in {"pending", "streaming"} \/ (status = "cancelled" /\ overtaken)
    BY <2>2, Zenon DEF StatusInv
  <2>5. status' \in {"pending", "streaming"} \/ (status' = "cancelled" /\ overtaken')
    BY <2>1, <2>3, <2>4
  <2>6. (status' = "error") = (error' # None)
    BY <1>N, <2>1, <2>4, <2>5 DEF StatusInv
  <2>7. \A i \in 1 .. Len(stack') : FALSE
    BY <2>2
  <2>8. ~(Len(stack') >= 1) /\ activeRun' # None
    BY <2>1, <2>2
  <2>9. status' # "success" /\ status' # "error" /\ ~(status' = "cancelled" /\ ~overtaken')
    BY <2>5
  <2> QED
    BY <2>5, <2>6, <2>7, <2>8, <2>9, Zenon DEF StatusInv
<1>5. ASSUME NEW r \in 1 .. lastRun, Done(r, value) \/ Done(r, {r}) PROVE StatusInv'
  <2>1. Based(Frame("done", r, "batch"))
    BY <1>5, StackStep
  <2>2. Len(stack') = 1 /\ stack'[1].fn = "done"
    BY <1>O, <2>1 DEF Based
  <2>3. /\ value' = stableValue' /\ status' = "success" /\ error' = error /\ activeRun' = None
        /\ activeRun = r
    BY <1>5 DEF Done, CloseRun, IsActiveRun
  <2>4. activeRun # None
    BY <2>3 DEF None
  <2>5. error' = None
    BY <2>3, <2>4 DEF StatusInv
  <2> QED
    BY <2>2, <2>3, <2>5 DEF StatusInv
<1>6. ASSUME NEW r \in 1 .. lastRun, Fail(r) PROVE StatusInv'
  <2>1. Based(Frame("fail", r, "batch"))
    BY <1>6, StackStep
  <2>2. Len(stack') = 1 /\ stack'[1].fn = "fail"
    BY <1>O, <2>1 DEF Based
  <2>3. /\ value' = Interrupted(onError) /\ stableValue' = stableValue /\ status' = "error" /\ error' = r
        /\ activeRun' = None /\ UNCHANGED <<onCancel, onError>>
    BY <1>6 DEF Fail, CloseRun
  <2>4. value' = Interrupted(onError)' /\ error' # None
    BY <1>F, <2>3, InterruptedFacts DEF None
  <2>5. \A i \in 1 .. Len(stack') : stack'[i].fn # "done"
    BY <2>2
  <2> QED
    BY <2>2, <2>3, <2>4, <2>5 DEF StatusInv
\* The status stays until the call at the bottom replaces it.
<1>7. ASSUME (SupersedeActiveRun /\ Trigger) \/ (CancelHeard /\ Canceller) PROVE StatusInv'
  <2>1. Based(Frame("replace", activeRun, "closing")) \/ Based(Frame("cancel", activeRun, "closing"))
    BY <1>7, StackStep
  <2>2. Len(stack') = 1 /\ stack'[1].fn \in {"replace", "cancel"} /\ stack'[1].at = "closing"
    BY <1>O, <2>1 DEF Based
  <2>3. /\ UNCHANGED <<value, stableValue, status, error, onCancel, onError>>
        /\ activeRun' = None /\ activeRun \in started
    BY <1>7 DEF SupersedeActiveRun, CancelHeard, CloseRun, Trigger, Canceller
  <2>4. overtaken' = overtaken
    BY <1>7, Zenon DEF SupersedeActiveRun, CancelHeard
  <2>5. activeRun # None
    BY <1>T, <2>3
  <2>6. status \in {"pending", "streaming"} \/ (status = "cancelled" /\ overtaken)
    BY <2>5, Zenon DEF StatusInv
  <2>7. status' \in {"pending", "streaming"} \/ (status' = "cancelled" /\ overtaken')
    BY <2>3, <2>4, <2>6, Zenon
  <2>8. (status' = "error") = (error' # None)
    BY <2>3 DEF StatusInv
  <2>9. \A i \in 1 .. Len(stack') : stack'[i].fn # "done"
    BY <2>2
  <2>10. status' # "success" /\ status' # "error" /\ ~(status' = "cancelled" /\ ~overtaken')
    BY <2>7
  <2>11. Len(stack') >= 1
    BY <2>2
  <2> QED
    BY <2>2, <2>3, <2>8, <2>9, <2>10, <2>11, Zenon DEF StatusInv
\* A run begins.
<1>8. ASSUME ReplaceUnheard \/ RunAfterClosing PROVE StatusInv'
  <2>1. /\ activeRun' = lastRun + 1 /\ lastRun' = lastRun + 1 /\ error' = None /\ status' = "pending"
    BY <1>8 DEF ReplaceUnheard, RunAfterClosing, BeginRun, ResetForNewRun
  <2>2. activeRun' # None
    BY <1>T, <2>1 DEF None
  <2>3. \A i \in 1 .. Len(stack') : ~(stack'[i].fn = "done" /\ stack'[i].run = lastRun')
    <3>1. CASE Over(Frame("replace", lastRun + 1, "batch"))
      <4>1. \A i \in 1 .. Len(stack') : i \in 1 .. Len(stack) \/ i = Len(stack) + 1
        BY <1>T, <3>1 DEF Over
      <4>2. \A i \in 1 .. Len(stack) : stack[i].run # lastRun + 1
        BY <1>T
      <4> QED
        BY <1>O, <2>1, <3>1, <4>1, <4>2 DEF Over
    <3>2. CASE Rebased(Frame("replace", lastRun + 1, "batch"))
      BY <1>O, <3>2 DEF Rebased
    <3> QED
      BY <1>8, <3>1, <3>2, StackStep
  <2> QED
    BY <2>1, <2>2, <2>3 DEF StatusInv
\* A run that nobody has heard of is cancelled.
<1>9. ASSUME CancelUnheard, Canceller PROVE StatusInv'
  <2>1. /\ activeRun # None /\ activeRun' = None /\ UNCHANGED <<lastRun, stack, stableValue, error, onCancel, onError>>
        /\ value' = Interrupted(onCancel) /\ status' = "cancelled"
    BY <1>9 DEF CancelUnheard, Canceller, CloseRun, PublishCancelled
  <2>2. value' = Interrupted(onCancel)'
    BY <1>F, <2>1, InterruptedFacts
  <2>3. error' = None
    BY <2>1 DEF StatusInv
  <2>4. \A i \in 1 .. Len(stack) : ~(stack[i].fn = "done" /\ stack[i].run = lastRun)
    BY <1>T, <1>S, <2>1 DEF RunsInv
  <2> QED
    BY <2>1, <2>2, <2>3, <2>4 DEF StatusInv
\* A call is at its end, or half way.
<1>10. ASSUME Drain PROVE StatusInv'
  <2>1. Rebased(Frame(stack[1].fn, stack[1].run, "closing")) /\ stack[1].fn \in {"done", "fail"}
    BY <1>10, StackStep
  <2>2. /\ Len(stack) = 1 /\ Len(stack') = 1 /\ stack'[1].fn = stack[1].fn /\ stack'[1].run = stack[1].run
        /\ 1 \in 1 .. 1 /\ \A i \in 1 .. 1 : i = 1
    BY <1>O, <2>1 DEF Rebased
  <2>3. UNCHANGED <<onCancel, onError, activeRun, lastRun, value, stableValue, status, error>>
    BY <1>10 DEF Drain
  <2>4. Interrupted(onCancel)' = Interrupted(onCancel) /\ Interrupted(onError)' = Interrupted(onError)
    BY <1>F, <2>3, InterruptedFacts
  <2>5. overtaken' = overtaken
    BY <1>10, Zenon DEF Drain
  <2>6. ~(status \in {"pending", "streaming"} /\ activeRun = None)
    BY <2>1, <2>2 DEF StatusInv
  <2>7. \A i \in 1 .. Len(stack') : stack'[i].fn = "done" /\ stack'[i].run = lastRun' => status' = "success"
    BY <2>2, <2>3 DEF StatusInv
  <2>8. stack'[1].fn # "cancel"
    BY <2>1, <2>2
  <2> QED
    BY <2>3, <2>4, <2>5, <2>6, <2>7, <2>8, Zenon DEF StatusInv
<1>11. ASSUME CancelPublish PROVE StatusInv'
  <2>1. Emptied /\ stack[1].fn = "cancel"
    BY <1>11, StackStep
  <2>2. Len(stack) >= 1 /\ Len(stack') = 0
    BY <2>1 DEF Emptied
  <2>3. /\ UNCHANGED <<activeRun, lastRun, stableValue, error, onCancel, onError>>
        /\ value' = Interrupted(onCancel) /\ status' = "cancelled"
    BY <1>11 DEF CancelPublish, PublishCancelled
  <2>4. overtaken' = (activeRun # None)
    BY <1>11, Zenon DEF CancelPublish
  <2>5. value' = Interrupted(onCancel)'
    BY <1>F, <2>3, InterruptedFacts
  <2>6. error' = None
    BY <2>1, <2>2, <2>3 DEF StatusInv
  <2>7. (\A i \in 1 .. Len(stack') : FALSE) /\ ~(Len(stack') >= 1)
    BY <2>2
  <2>8. ~overtaken' => activeRun' = None
    BY <2>3, <2>4, Zenon
  <2>9. activeRun' # None => overtaken'
    BY <2>3, <2>4, Zenon
  <2> QED
    BY <2>3, <2>5, <2>6, <2>7, <2>8, <2>9 DEF StatusInv
<1>12. ASSUME QueueStart \/ Escape \/ Report PROVE StatusInv'
  <2>1. UNCHANGED <<onCancel, onError, activeRun, lastRun, value, stableValue, status, error>>
    BY <1>12 DEF QueueStart, Escape, Report
  <2>2. overtaken' = overtaken
    BY <1>12, Zenon DEF QueueStart, Escape, Report
  <2>3. Interrupted(onCancel)' = Interrupted(onCancel) /\ Interrupted(onError)' = Interrupted(onError)
    BY <1>F, <2>1, InterruptedFacts
  <2>4. /\ Len(stack') = Len(stack) - 1 /\ Len(stack) >= 1
        /\ \A i \in 1 .. Len(stack') : stack'[i] = stack[i] /\ i \in 1 .. Len(stack)
    <3>1. CASE Less
      BY <1>T, <3>1 DEF Less
    <3>2. CASE Emptied
      <4>1. Len(stack) = 1 /\ Len(stack') = 0 /\ 1 - 1 = 0 /\ 1 >= 1
        BY <3>2 DEF Emptied
      <4>2. \A i \in 1 .. 0 : FALSE
        OBVIOUS
      <4> QED
        BY <4>1, <4>2
    <3> QED
      BY <1>12, <3>1, <3>2, StackStep
  <2>5. \A i \in 1 .. Len(stack') : stack'[i].fn = "done" /\ stack'[i].run = lastRun' => status' = "success"
    BY <2>1, <2>4 DEF StatusInv
  <2>6. Len(stack') >= 1 => stack'[1] = stack[1]
    BY <1>T, <2>4
  <2>7. Len(stack') >= 1 /\ stack'[1].fn = "cancel" => status' # "error"
    BY <2>1, <2>4, <2>6 DEF StatusInv
  <2>8. status \in {"pending", "streaming"} /\ activeRun = None => Len(stack') >= 1
    <3>1. ASSUME stack[1].fn \in {"replace", "cancel"}, stack[1].at = "closing" PROVE Len(stack) # 1
      <4>1. CASE Report
        BY <3>1, <4>1, StackStep
      <4>2. CASE QueueStart \/ Escape
        BY <3>1, <4>2, StackStep
      <4> QED
        BY <1>12, <4>1, <4>2
    <3>2. Len(stack) >= 1 /\ Len(stack) # 1 => Len(stack') >= 1
      BY <1>T, <2>4
    <3> QED
      BY <3>1, <3>2 DEF StatusInv
  <2>9. status' \in {"pending", "streaming"} /\ activeRun' = None =>
          Len(stack') >= 1 /\ stack'[1].fn \in {"replace", "cancel"} /\ stack'[1].at = "closing"
    BY <2>1, <2>6, <2>8 DEF StatusInv
  <2> QED
    BY <2>1, <2>2, <2>3, <2>5, <2>7, <2>9, Zenon DEF StatusInv
<1>13. ASSUME NEW r \in 1 .. lastRun, Write(r, value \cup {r}) \/ Write(r, {r}) PROVE StatusInv'
  <2>1. ASSUME Write(r, value \cup {r}) PROVE StatusInv'
    BY <1>4, <2>1
  <2>2. ASSUME Write(r, {r}) PROVE StatusInv'
    BY <1>4, <2>2
  <2> QED
    BY <1>13, <2>1, <2>2
<1>14. ASSUME \E r \in 1 .. lastRun : \/ Write(r, value \cup {r}) \/ Write(r, {r}) \/ Done(r, value)
                                       \/ Done(r, {r}) \/ Fail(r)
       PROVE  StatusInv'
  BY <1>5, <1>6, <1>13, <1>14, Zenon
<1>15. ASSUME \/ SupersedeActiveRun /\ Trigger
              \/ ReplaceUnheard /\ Trigger
              \/ CancelHeard /\ Canceller
              \/ CancelUnheard /\ Canceller
       PROVE  StatusInv'
  BY <1>7, <1>8, <1>9, <1>15, Zenon
<1> QED
  BY <1>0, <1>2, <1>3, <1>8, <1>10, <1>11, <1>12, <1>14, <1>15, Zenon DEF Step

\* The status belongs to the value, the error and the run.
THEOREM StreamStatusTellsTruth == Spec => []StatusTellsTruth
<1>1. Init => StatusInv
  <2> SUFFICES ASSUME Init PROVE StatusInv
    OBVIOUS
  <2>1. /\ status = "pending" /\ activeRun # None /\ error = None /\ Len(stack) = 0
    BY DEF Init, None
  <2>2. (\A i \in 1 .. Len(stack) : FALSE) /\ ~(Len(stack) >= 1)
    BY <2>1
  <2> QED
    BY <2>1, <2>2 DEF StatusInv
<1>2. TypeOK /\ StatusInv => StatusTellsTruth
  <2> SUFFICES ASSUME TypeOK, StatusInv PROVE StatusTellsTruth
    OBVIOUS
  <2>1. DOMAIN stack = 1 .. Len(stack) /\ (Idle => ~(Len(stack) >= 1))
    BY DEF TypeOK, Idle
  <2>2. activeRun # None /\ ~overtaken => status \in {"pending", "streaming"}
    BY Zenon DEF StatusInv
  <2>3. Idle /\ status \in {"pending", "streaming"} => activeRun # None
    BY <2>1 DEF StatusInv
  <2> QED
    BY <2>1, <2>2, <2>3, Zenon DEF StatusInv, StatusTellsTruth
<1> QED
  BY <1>1, <1>2, NextStatus, ShapedAlways, StreamTypeCorrect, PTL DEF Spec

-----------------------------------------------------------------------------
(* What is committed *)

\* The value of the active run is made of its own chunks.
OwnInv == activeRun # None /\ ~overtaken => value \subseteq {activeRun}

LEMMA NextOwn == TypeOK /\ OwnInv /\ [Next]_vars => OwnInv'
<1> SUFFICES ASSUME TypeOK, OwnInv, [Next]_vars PROVE OwnInv'
  OBVIOUS
<1> USE DEF options, runs, signals, tasks, history
<1>0. Step
  BY NextStep
<1>1. ASSUME UNCHANGED <<activeRun, value, overtaken>> PROVE OwnInv'
  BY <1>1, Zenon DEF OwnInv
<1>2. ASSUME \E r \in 1 .. lastRun : OnCleanup(r) \/ Tick(r) \/ Start(r) PROVE OwnInv'
  BY <1>1, <1>2, Zenon DEF OnCleanup, Tick, Start
<1>3. ASSUME SourceChange \/ DisposeIdle \/ FlushNothing \/ Drain \/ QueueStart \/ Escape \/ Report
             \/ UNCHANGED vars
      PROVE  OwnInv'
  BY <1>1, <1>3, Zenon DEF SourceChange, DisposeIdle, FlushNothing, Drain, QueueStart, Escape, Report, vars
<1>4. ASSUME NEW r \in 1 .. lastRun, Write(r, value \cup {r}) \/ Write(r, {r}) PROVE OwnInv'
  <2>1. activeRun = r /\ activeRun' = activeRun /\ value' \in {value \cup {r}, {r}}
    BY <1>4 DEF Write, IsActiveRun
  <2>2. overtaken' = overtaken
    BY <1>4, Zenon DEF Write
  <2>3. value \subseteq {activeRun} => value' \subseteq {activeRun'}
    BY <2>1
  <2>4. activeRun' # None => activeRun # None
    BY <2>1
  <2> QED
    BY <2>2, <2>3, <2>4, Zenon DEF OwnInv
<1>5. ASSUME \/ \E r \in 1 .. lastRun : Done(r, value) \/ Done(r, {r}) \/ Fail(r)
             \/ SupersedeActiveRun \/ CancelHeard \/ CancelUnheard
      PROVE  OwnInv'
  <2>1. activeRun' = None
    BY <1>5, Zenon DEF Done, Fail, SupersedeActiveRun, CancelHeard, CancelUnheard, CloseRun
  <2> QED
    BY <2>1 DEF OwnInv
<1>6. ASSUME ReplaceUnheard \/ RunAfterClosing PROVE OwnInv'
  <2>1. value' = {}
    BY <1>6 DEF ReplaceUnheard, RunAfterClosing, BeginRun, ResetForNewRun
  <2> QED
    BY <2>1 DEF OwnInv
<1>7. ASSUME CancelPublish PROVE OwnInv'
  BY <1>7, Zenon DEF CancelPublish, OwnInv
<1> QED
  BY <1>0, <1>2, <1>3, <1>4, <1>5, <1>6, <1>7, Zenon DEF Step

\* Only the active run commits a stable value, and only of its own chunks.
THEOREM StreamCommitsOwn == Spec => CommitsOwn
<1>1. Init => OwnInv
  BY DEF Init, OwnInv
<1>2. TypeOK /\ OwnInv /\ [Next]_vars
        => [stableValue' # stableValue /\ ~overtaken => stableValue' \subseteq {activeRun}]_vars
  <2> SUFFICES ASSUME TypeOK, OwnInv, [Next]_vars, stableValue' # stableValue, ~overtaken
               PROVE  stableValue' \subseteq {activeRun}
    OBVIOUS
  <2> USE DEF options, runs, signals, tasks, history
  <2>0. Step
    BY NextStep
  <2>1. ASSUME \E r \in 1 .. lastRun : Write(r, value \cup {r}) \/ Write(r, {r}) \/ Fail(r)
                                       \/ OnCleanup(r) \/ Tick(r) \/ Start(r)
        PROVE  FALSE
    BY <2>1, Zenon DEF Write, Fail, OnCleanup, Tick, Start
  <2>2. ASSUME SourceChange \/ SupersedeActiveRun \/ ReplaceUnheard \/ CancelHeard \/ CancelUnheard
               \/ DisposeIdle \/ FlushNothing
        PROVE  FALSE
    BY <2>2, Zenon DEF SourceChange, SupersedeActiveRun, ReplaceUnheard, CancelHeard, CancelUnheard,
       DisposeIdle, FlushNothing, BeginRun, ResetForNewRun, PublishCancelled
  <2>3. ASSUME RunAfterClosing \/ QueueStart \/ Drain \/ Report \/ CancelPublish \/ Escape \/ UNCHANGED vars
        PROVE  FALSE
    BY <2>3, Zenon DEF RunAfterClosing, QueueStart, Drain, Report, CancelPublish, Escape, vars,
       BeginRun, ResetForNewRun, PublishCancelled
  <2>4. ASSUME NEW r \in 1 .. lastRun, Done(r, value) \/ Done(r, {r}) PROVE stableValue' \subseteq {activeRun}
    <3>1. activeRun = r /\ activeRun # None /\ stableValue' \in {value, {r}}
      BY <2>4 DEF Done, CloseRun, IsActiveRun, None
    <3>2. value \subseteq {activeRun}
      BY <3>1, Zenon DEF OwnInv
    <3> QED
      BY <3>1, <3>2
  <2> QED
    BY <2>0, <2>1, <2>2, <2>3, <2>4, Zenon DEF Step
<1> QED
  BY <1>1, <1>2, NextOwn, StreamTypeCorrect, PTL DEF Spec, CommitsOwn

-----------------------------------------------------------------------------
(* Microtasks *)

\* The frames are of different runs, the upper of the newer.
OrderInv == \A i, j \in 1 .. Len(stack) : i < j => stack[i].run < stack[j].run

\* A run's producer is called by its second microtask, which its first queues,
\* which its run() queues.
TaskInv ==
  /\ dirty => flushing
  /\ ticks \cap starts = {} /\ (ticks \cup starts) \cap started = {}
  /\ \A i \in 1 .. Len(stack) :
       stack[i].fn = "replace" /\ stack[i].at = "batch" =>
         stack[i].run \notin ticks \cup starts \cup started

\* A doomed run that is active waits behind the flush that will replace it.
DoomInv == \A r \in doomed : r \notin started /\ (r = activeRun => dirty /\ r \in behind)

LEMMA NextOrder == ShapedInv /\ OrderInv /\ [Next]_vars => OrderInv'
<1> SUFFICES ASSUME ShapedInv, OrderInv, [Next]_vars PROVE OrderInv'
  OBVIOUS
<1> USE DEF options, runs, signals, tasks, history
<1>0. Step
  BY NextStep
<1>T. /\ lastRun \in Nat /\ Len(stack) \in Nat /\ Len(stack') \in Nat
      /\ \A i \in 1 .. Len(stack) : stack[i].run <= lastRun /\ stack[i].run \in Nat
  <2>1. TypeOK /\ lastRun \in Runs
    BY DEF ShapedInv, TypeOK
  <2>2. stack \in Seq(Frames) /\ \A i \in 1 .. Len(stack) : stack[i].run <= lastRun
    BY <2>1, TypeParts DEF TypeStack
  <2>3. \A i \in 1 .. Len(stack) : stack[i] \in Frames
    BY <2>2
  <2>4. \A f \in Frames : f.run \in Nat
    BY DEF Frames, Runs
  <2> QED
    BY <2>1, <2>2, <2>3, <2>4, BottomKept DEF Runs
<1>O. \A f, r, a : Frame(f, r, a).run = r
  BY DEF Frame
\* One call at most.
<1>1. ASSUME Len(stack') <= 1 PROVE OrderInv'
  <2>1. \A i, j \in 1 .. Len(stack') : ~(i < j)
    BY <1>1, <1>T
  <2> QED
    BY <2>1 DEF OrderInv
<1>2. ASSUME stack' = stack PROVE OrderInv'
  BY <1>2 DEF OrderInv
<1>3. ASSUME Less PROVE OrderInv'
  <2>1. \A i \in 1 .. Len(stack') : stack'[i] = stack[i] /\ i \in 1 .. Len(stack)
    BY <1>T, <1>3 DEF Less
  <2> QED
    BY <2>1 DEF OrderInv
<1>4. ASSUME Over(Frame("replace", lastRun + 1, "batch")) PROVE OrderInv'
  <2>1. \A i \in 1 .. Len(stack') : (i \in 1 .. Len(stack) /\ stack'[i] = stack[i]) \/ i = Len(stack) + 1
    BY <1>T, <1>4 DEF Over
  <2>2. stack'[Len(stack) + 1].run = lastRun + 1
    BY <1>O, <1>4 DEF Over
  <2>3. \A i \in 1 .. Len(stack) : stack[i].run < lastRun + 1 /\ i < Len(stack) + 1
    BY <1>T
  <2>4. \A i, j \in 1 .. Len(stack') : i < j => i \in 1 .. Len(stack) /\ stack'[i] = stack[i]
    BY <1>T, <2>1, <1>4 DEF Over
  <2> QED
    BY <2>1, <2>2, <2>3, <2>4 DEF OrderInv
<1>5. ASSUME \E r \in 1 .. lastRun : Done(r, value) \/ Done(r, {r}) \/ Fail(r) PROVE OrderInv'
  <2>1. \E f : Based(f)
    BY <1>5, StackStep
  <2>2. Len(stack') = 1
    BY <2>1 DEF Based
  <2> QED
    BY <1>1, <2>2
<1>6. ASSUME SupersedeActiveRun \/ CancelHeard PROVE OrderInv'
  <2>1. \E f : Based(f)
    BY <1>6, StackStep
  <2>2. Len(stack') = 1
    BY <2>1 DEF Based
  <2> QED
    BY <1>1, <2>2
<1>7. ASSUME ReplaceUnheard PROVE OrderInv'
  BY <1>4, <1>7, StackStep
<1>8. ASSUME RunAfterClosing \/ Drain \/ Report \/ CancelPublish PROVE OrderInv'
  <2>1. (\E f : Rebased(f)) \/ Emptied
    BY <1>8, StackStep
  <2>2. Len(stack') <= 1
    BY <2>1 DEF Rebased, Emptied
  <2> QED
    BY <1>1, <2>2
<1>9. ASSUME QueueStart \/ Escape PROVE OrderInv'
  BY <1>3, <1>9, StackStep
<1>10. ASSUME CancelUnheard \/ (\E r \in 1 .. lastRun : Start(r)) PROVE OrderInv'
  BY <1>2, <1>10, Zenon DEF CancelUnheard, Start
<1>11. ASSUME Quiet PROVE OrderInv'
  BY <1>2, <1>11 DEF Quiet
<1> QED
  BY <1>0, <1>5, <1>6, <1>7, <1>8, <1>9, <1>10, <1>11, QuietSteps, Zenon DEF Step

LEMMA NextTask == ShapedInv /\ OrderInv /\ TaskInv /\ [Next]_vars => TaskInv'
<1> SUFFICES ASSUME ShapedInv, OrderInv, TaskInv, [Next]_vars PROVE TaskInv'
  OBVIOUS
<1> USE DEF options, runs, signals, tasks, history
<1>0. Step
  BY NextStep
<1>T. /\ lastRun \in Nat /\ Len(stack) \in Nat /\ Len(stack') \in Nat
      /\ lastRun + 1 \notin ticks \cup starts \cup started
  <2>1. /\ TypeOK /\ lastRun \in Runs /\ ticks \subseteq 1 .. lastRun
        /\ starts \subseteq 1 .. lastRun /\ started \subseteq 1 .. lastRun
    BY DEF ShapedInv, TypeOK
  <2>2. lastRun \in Nat /\ lastRun + 1 \notin 1 .. lastRun
    BY <2>1 DEF Runs
  <2> QED
    BY <2>1, <2>2, BottomKept
<1>B. Idle => Len(stack) = 0
  BY DEF Idle
<1>O. \A f, r, a : Frame(f, r, a).fn = f /\ Frame(f, r, a).run = r /\ Frame(f, r, a).at = a
  BY DEF Frame
<1> DEFINE Disjoint == ticks \cap starts = {} /\ (ticks \cup starts) \cap started = {}
           Unqueued == \A i \in 1 .. Len(stack) :
                         stack[i].fn = "replace" /\ stack[i].at = "batch" =>
                           stack[i].run \notin ticks \cup starts \cup started
<1>D. Disjoint /\ Unqueued
  BY DEF TaskInv
\* The flag and the microtask.
<1>1. (dirty => flushing)'
  <2>1. ASSUME \E r \in 1 .. lastRun : \/ Write(r, value \cup {r}) \/ Write(r, {r}) \/ Done(r, value)
                                       \/ Done(r, {r}) \/ Fail(r) \/ OnCleanup(r) \/ Tick(r) \/ Start(r)
        PROVE  (dirty => flushing)'
    <3>1. dirty' = dirty /\ flushing' = flushing
      BY <2>1, Zenon DEF Write, Done, Fail, OnCleanup, Tick, Start
    <3> QED
      BY <3>1, Zenon DEF TaskInv
  <2>2. ASSUME SourceChange \/ Trigger \/ Canceller \/ DisposeIdle \/ FlushNothing
        PROVE  (dirty => flushing)'
    BY <2>2, Zenon DEF SourceChange, Trigger, Canceller, DisposeIdle, FlushNothing, TaskInv
  <2>3. ASSUME RunAfterClosing \/ QueueStart \/ Drain \/ Report \/ CancelPublish \/ Escape \/ UNCHANGED vars
        PROVE  (dirty => flushing)'
    BY <2>3, Zenon DEF RunAfterClosing, QueueStart, Drain, Report, CancelPublish, Escape, vars, TaskInv
  <2> QED
    BY <1>0, <2>1, <2>2, <2>3, Zenon DEF Step
\* The microtasks and the frames.
<1> DEFINE Goal == Disjoint' /\ Unqueued'
<1>2. ASSUME UNCHANGED <<ticks, starts, started, stack>> PROVE Goal
  BY <1>2, <1>D
<1>3. ASSUME UNCHANGED <<ticks, starts, started>>, Len(stack') = 1, stack'[1].fn # "replace" \/ stack'[1].at # "batch"
      PROVE  Goal
  BY <1>3, <1>D
<1>4. ASSUME UNCHANGED <<ticks, starts, started>>, Less \/ Emptied PROVE Goal
  <2>1. \A i \in 1 .. Len(stack') : stack'[i] = stack[i] /\ i \in 1 .. Len(stack)
    BY <1>4, <1>T DEF Less, Emptied
  <2> QED
    BY <1>4, <1>D, <2>1
<1>5. ASSUME \E r \in 1 .. lastRun : Write(r, value \cup {r}) \/ Write(r, {r}) \/ OnCleanup(r) PROVE Goal
  BY <1>2, <1>5, Zenon DEF Write, OnCleanup
<1>6. ASSUME SourceChange \/ DisposeIdle \/ FlushNothing \/ (CancelUnheard /\ Canceller) \/ UNCHANGED vars PROVE Goal
  BY <1>2, <1>6, Zenon DEF SourceChange, DisposeIdle, FlushNothing, CancelUnheard, Canceller, vars
<1>7. ASSUME NEW r \in 1 .. lastRun, Done(r, value) \/ Done(r, {r}) \/ Fail(r) PROVE Goal
  <2>1. Based(Frame("done", r, "batch")) \/ Based(Frame("fail", r, "batch"))
    BY <1>7, StackStep
  <2>2. UNCHANGED <<ticks, starts, started>>
    BY <1>7 DEF Done, Fail
  <2>3. Len(stack') = 1 /\ stack'[1].fn # "replace"
    BY <1>O, <2>1 DEF Based
  <2> QED
    BY <1>3, <2>2, <2>3
<1>8. ASSUME (SupersedeActiveRun /\ Trigger) \/ (CancelHeard /\ Canceller) PROVE Goal
  <2>1. Based(Frame("replace", activeRun, "closing")) \/ Based(Frame("cancel", activeRun, "closing"))
    BY <1>8, StackStep
  <2>2. UNCHANGED <<ticks, starts, started>>
    BY <1>8 DEF SupersedeActiveRun, Trigger, CancelHeard, Canceller
  <2>3. Len(stack') = 1 /\ stack'[1].at # "batch"
    BY <1>O, <2>1 DEF Based
  <2> QED
    BY <1>3, <2>2, <2>3
<1>9. ASSUME ReplaceUnheard, Trigger PROVE Goal
  <2>1. Over(Frame("replace", lastRun + 1, "batch"))
    BY <1>9, StackStep
  <2>2. UNCHANGED <<ticks, starts, started>>
    BY <1>9 DEF ReplaceUnheard, BeginRun, Trigger
  <2>3. \A i \in 1 .. Len(stack') : \/ i \in 1 .. Len(stack) /\ stack'[i] = stack[i]
                                    \/ stack'[i].run = lastRun + 1
    BY <1>O, <1>T, <2>1 DEF Over
  <2> QED
    BY <1>D, <1>T, <2>2, <2>3
<1>10. ASSUME RunAfterClosing PROVE Goal
  <2>1. Rebased(Frame("replace", lastRun + 1, "batch"))
    BY <1>10, StackStep
  <2>2. UNCHANGED <<ticks, starts, started>>
    BY <1>10 DEF RunAfterClosing, BeginRun
  <2>3. \A i \in 1 .. Len(stack') : stack'[i].run = lastRun + 1
    BY <1>O, <2>1 DEF Rebased
  <2> QED
    BY <1>D, <1>T, <2>2, <2>3
<1>11. ASSUME Drain PROVE Goal
  <2>1. Rebased(Frame(stack[1].fn, stack[1].run, "closing"))
    BY <1>11, StackStep
  <2>2. UNCHANGED <<ticks, starts, started>>
    BY <1>11 DEF Drain
  <2>3. Len(stack') = 1 /\ stack'[1].at # "batch"
    BY <1>O, <2>1 DEF Rebased
  <2> QED
    BY <1>3, <2>2, <2>3
<1>12. ASSUME Report \/ CancelPublish \/ Escape PROVE Goal
  <2>1. UNCHANGED <<ticks, starts, started>>
    BY <1>12 DEF Report, CancelPublish, Escape
  <2> QED
    BY <1>4, <1>12, <2>1, StackStep
<1>13. ASSUME QueueStart PROVE Goal
  <2>1. Less /\ Top = stack[Len(stack)] /\ Top.fn = "replace" /\ Top.at = "batch"
    BY <1>13, StackStep
  <2>2. Len(stack) \in 1 .. Len(stack) /\ Len(stack') = Len(stack) - 1
    BY <1>T, <2>1 DEF Less
  <2>3. ticks' = ticks \cup {Top.run} /\ starts' = starts /\ started' = started
    BY <1>13 DEF QueueStart
  <2>4. Top.run \notin starts \cup started
    BY <1>D, <2>1, <2>2
  <2>5. \A i \in 1 .. Len(stack') : stack'[i] = stack[i] /\ i \in 1 .. Len(stack) /\ i < Len(stack)
    BY <1>T, <2>1, <2>2 DEF Less
  <2>6. \A i \in 1 .. Len(stack') : stack[i].run < Top.run
    BY <2>1, <2>2, <2>5 DEF OrderInv
  <2>7. \A i \in 1 .. Len(stack') : stack[i].run # Top.run
    <3>1. \A n \in 1 .. lastRun : ~(n < n)
      BY <1>T
    <3>2. Top.run \in 1 .. lastRun
      BY <1>13, TopFacts DEF QueueStart, In, ShapedInv
    <3> QED
      BY <2>6, <3>1, <3>2
  <2> QED
    BY <1>D, <2>3, <2>4, <2>5, <2>7
<1>14. ASSUME NEW r \in 1 .. lastRun, Tick(r) \/ Start(r) PROVE Goal
  <2>1. Idle /\ stack' = stack
    BY <1>14 DEF Tick, Start
  <2>2. Unqueued'
    BY <1>B, <2>1
  <2>3. CASE Tick(r)
    BY <1>D, <2>2, <2>3 DEF Tick
  <2>4. CASE Start(r)
    BY <1>D, <2>2, <2>4 DEF Start
  <2> QED
    BY <1>14, <2>3, <2>4
<1> HIDE DEF Goal
<1>15. Goal
  BY <1>0, <1>5, <1>6, <1>7, <1>8, <1>9, <1>10, <1>11, <1>12, <1>13, <1>14, Zenon DEF Step
<1> QED
  BY <1>1, <1>15, Zenon DEF Goal, TaskInv

LEMMA NextDoom == ShapedInv /\ TaskInv /\ DoomInv /\ [Next]_vars => DoomInv'
<1> SUFFICES ASSUME ShapedInv, TaskInv, DoomInv, [Next]_vars PROVE DoomInv'
  OBVIOUS
<1> USE DEF options, runs, signals, tasks, history
<1>0. Step
  BY NextStep
<1>T. lastRun + 1 \notin doomed /\ None \notin doomed
  <2>1. lastRun \in Runs /\ doomed \subseteq 1 .. lastRun
    BY DEF ShapedInv, TypeOK
  <2> QED
    BY <2>1 DEF Runs, None
\* The run that is active makes way.
<1>1. ASSUME activeRun' = None \/ activeRun' = lastRun + 1, started' = started, doomed' = doomed
      PROVE  DoomInv'
  BY <1>1, <1>T DEF DoomInv
<1>2. ASSUME UNCHANGED <<activeRun, started, doomed, dirty, behind>> PROVE DoomInv'
  BY <1>2, Zenon DEF DoomInv
<1>3. ASSUME \E r \in 1 .. lastRun : Write(r, value \cup {r}) \/ Write(r, {r}) \/ OnCleanup(r) PROVE DoomInv'
  BY <1>2, <1>3, Zenon DEF Write, OnCleanup
<1>4. ASSUME Drain \/ Report \/ CancelPublish \/ Escape \/ UNCHANGED vars PROVE DoomInv'
  BY <1>2, <1>4, Zenon DEF Drain, Report, CancelPublish, PublishCancelled, Escape, vars
<1>5. ASSUME \/ \E r \in 1 .. lastRun : Done(r, value) \/ Done(r, {r}) \/ Fail(r)
             \/ SupersedeActiveRun \/ ReplaceUnheard \/ CancelHeard \/ CancelUnheard \/ RunAfterClosing
      PROVE  DoomInv'
  <2>1. activeRun' = None \/ activeRun' = lastRun + 1
    BY <1>5, Zenon DEF Done, Fail, SupersedeActiveRun, ReplaceUnheard, CancelHeard, CancelUnheard,
       RunAfterClosing, BeginRun, CloseRun
  <2>2. started' = started /\ doomed' = doomed
    BY <1>5, Zenon DEF Done, Fail, SupersedeActiveRun, ReplaceUnheard, CancelHeard, CancelUnheard,
       RunAfterClosing, BeginRun, PublishCancelled
  <2> QED
    BY <1>1, <2>1, <2>2
<1>6. ASSUME SourceChange PROVE DoomInv'
  BY <1>6, Zenon DEF SourceChange, DoomInv
<1>7. ASSUME DisposeIdle PROVE DoomInv'
  BY <1>1, <1>7 DEF DisposeIdle
<1>8. ASSUME FlushNothing PROVE DoomInv'
  <2>1. ~dirty /\ UNCHANGED <<activeRun, started, doomed>>
    BY <1>8, Zenon DEF FlushNothing
  <2> QED
    BY <2>1, Zenon DEF DoomInv
<1>9. ASSUME QueueStart PROVE DoomInv'
  <2>1. UNCHANGED <<activeRun, started, doomed>> /\ behind \subseteq behind'
    BY <1>9 DEF QueueStart
  <2>2. dirty' = dirty
    BY <1>9, Zenon DEF QueueStart
  <2>3. \A r \in behind : r \in behind'
    BY <2>1
  <2> QED
    BY <2>1, <2>2, <2>3, Zenon DEF DoomInv
\* It is when its first microtask finds the source changed that a run is doomed.
<1>10. ASSUME NEW r \in 1 .. lastRun, Tick(r) PROVE DoomInv'
  <2>1. UNCHANGED <<activeRun, started>> /\ r \in ticks
    BY <1>10 DEF Tick
  <2>2. r \notin started
    BY <2>1 DEF TaskInv
  <2>3. /\ dirty' = dirty
        /\ doomed' = (IF dirty THEN doomed \cup {r} ELSE doomed)
        /\ behind' = (IF flushing THEN behind \cup {r} ELSE behind)
    BY <1>10, Zenon DEF Tick
  <2>4. \A x \in behind : x \in behind'
    BY <2>3
  <2>5. CASE dirty
    <3>1. flushing
      BY <2>5, Zenon DEF TaskInv
    <3>2. doomed' = doomed \cup {r} /\ r \in behind'
      BY <2>3, <2>5, <3>1
    <3>3. \A x \in doomed' : x \in doomed \/ x = r
      BY <3>2
    <3> QED
      BY <2>1, <2>2, <2>3, <2>4, <2>5, <3>2, <3>3, Zenon DEF DoomInv
  <2>6. CASE ~dirty
    <3>1. doomed' = doomed
      BY <2>3, <2>6
    <3> QED
      BY <2>1, <2>3, <2>4, <3>1, Zenon DEF DoomInv
  <2> QED
    BY <2>5, <2>6
<1>11. ASSUME NEW r \in 1 .. lastRun, Start(r) PROVE DoomInv'
  <2>1. /\ UNCHANGED <<activeRun, doomed, behind>> /\ r \notin behind
        /\ started' = started \/ (started' = started \cup {r} /\ r = activeRun)
    BY <1>11 DEF Start, IsActiveRun
  <2>2. dirty' = dirty
    BY <1>11, Zenon DEF Start
  <2>3. \A x \in started' : x \in started \/ (x = r /\ r = activeRun)
    BY <2>1
  <2>4. \A x \in doomed' : x \notin started'
    BY <2>1, <2>3, Zenon DEF DoomInv
  <2> QED
    BY <2>1, <2>2, <2>4, Zenon DEF DoomInv
<1> QED
  BY <1>0, <1>3, <1>4, <1>5, <1>6, <1>7, <1>8, <1>9, <1>10, <1>11, Zenon DEF Step

\* The producer of a run is not called when the source had changed at its first
\* microtask.
THEOREM StreamNoOutdatedStart == Spec => []NoOutdatedStart
<1> DEFINE Inv == OrderInv /\ TaskInv /\ DoomInv
<1>1. Init => Inv
  <2> SUFFICES ASSUME Init PROVE Inv
    OBVIOUS
  <2>1. Len(stack) = 0 /\ starts = {} /\ started = {} /\ doomed = {} /\ ~dirty
    BY DEF Init
  <2>2. \A i \in 1 .. Len(stack) : FALSE
    BY <2>1
  <2> QED
    BY <2>1, <2>2 DEF OrderInv, TaskInv, DoomInv
<1>2. Inv => NoOutdatedStart
  BY DEF DoomInv, NoOutdatedStart
<1>3. ShapedInv /\ Inv /\ [Next]_vars => Inv'
  BY NextOrder, NextTask, NextDoom
<1> QED
  BY <1>1, <1>2, <1>3, ShapedAlways, PTL DEF Spec
=============================================================================
