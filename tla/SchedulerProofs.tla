--------------------------- MODULE SchedulerProofs ---------------------------
(***************************************************************************)
(* Proofs about Scheduler, for any jobs, signals, values and transactions  *)
(* and any bounds: types, the counters that decide when a flush runs, and  *)
(* what becomes of the jobs and of the values: no job is lost, none waits  *)
(* for a flush that never comes, and a rollback restores.                  *)
(***************************************************************************)
EXTENDS Scheduler, FiniteSetTheorems, SequenceTheorems, TLAPS

\* What Append, Front and Last do, index by index.
LEMMA AppendFacts ==
  ASSUME NEW S, NEW s \in Seq(S), NEW f \in S
  PROVE  /\ Append(s, f) \in Seq(S) /\ Len(Append(s, f)) = Len(s) + 1
         /\ DOMAIN Append(s, f) = 1..(Len(s) + 1)
         /\ \A i \in 1..Len(s) : Append(s, f)[i] = s[i]
         /\ Append(s, f)[Len(s) + 1] = f
OBVIOUS

LEMMA FrontFacts ==
  ASSUME NEW S, NEW s \in Seq(S), s # <<>>
  PROVE  /\ Len(s) \in Nat \ {0} /\ Last(s) = s[Len(s)] /\ Last(s) \in S
         /\ Front(s) \in Seq(S) /\ Len(Front(s)) = Len(s) - 1
         /\ DOMAIN Front(s) = 1..(Len(s) - 1)
         /\ \A i \in 1..(Len(s) - 1) : Front(s)[i] = s[i]
<1>1. Len(s) \in Nat \ {0} /\ Last(s) = s[Len(s)] /\ Last(s) \in S
  BY DEF Last
<1>2. Front(s) = SubSeq(s, 1, Len(s) - 1)
  BY DEF Front
<1>3. /\ SubSeq(s, 1, Len(s) - 1) \in Seq(S)
      /\ Len(SubSeq(s, 1, Len(s) - 1)) = IF 1 <= Len(s) - 1 THEN (Len(s) - 1) - 1 + 1 ELSE 0
  <2>1. 1 \in Int /\ Len(s) - 1 \in Int /\ \A i \in 1..(Len(s) - 1) : s[i] \in S
    BY <1>1
  <2> QED
    BY <2>1, SubSeqProperties
<1>4. Len(SubSeq(s, 1, Len(s) - 1)) = Len(s) - 1
  <2>1. \A n \in Nat : n # 0 => (IF 1 <= n - 1 THEN (n - 1) - 1 + 1 ELSE 0) = n - 1
    OBVIOUS
  <2> QED
    BY <1>1, <1>3, <2>1
<1>5. \A i \in 1..(Len(s) - 1) : SubSeq(s, 1, Len(s) - 1)[i] = s[i]
  BY <1>1
<1>6. \A q \in Seq(S) : DOMAIN q = 1..Len(q)
  OBVIOUS
<1> QED
  BY <1>1, <1>2, <1>3, <1>4, <1>5, <1>6, Zenon

-----------------------------------------------------------------------------
(* The call stack *)

LEMMA CallType ==
  ASSUME NEW k \in {"batch", "atomic", "job"}, NEW t \in Transactions \cup {None}
  PROVE  Call(k, t) \in Frames /\ Call(k, t).kind = k /\ Call(k, t).tx = t
BY DEF Call, Frames

LEMMA FlushCallType ==
  ASSUME NEW a \in {"return", "rethrow", "commit", "sync"}
  PROVE  /\ FlushCall(a) \in Frames /\ FlushCall(a).kind = "flush" /\ FlushCall(a).after = a
         /\ FlushCall(a).todo = {}
BY BoundsAssumption DEF FlushCall, Frames

LEMMA FlushFrame ==
  ASSUME NEW f \in Frames, f.kind = "flush"
  PROVE  /\ f.after \in {"return", "rethrow", "commit", "sync"}
         /\ f.phase \in {"compute", "effects"} /\ f.todo \in SUBSET EffectJobs
         /\ f.loops \in 0..MaxLoops
         /\ f \in [kind : {"flush"}, after : {"return", "rethrow", "commit", "sync"},
                   phase : {"compute", "effects"}, todo : SUBSET EffectJobs, loops : 0..MaxLoops]
BY DEF Frames

\* What a flush makes of its frame.
LEMMA FlushMoves ==
  ASSUME NEW f \in Frames, f.kind = "flush", NEW p \in {"compute", "effects"},
         NEW T \in SUBSET EffectJobs, NEW n \in 0..MaxLoops
  PROVE  LET g == [f EXCEPT !.phase = p, !.todo = T, !.loops = n]
         IN  g \in Frames /\ g.kind = "flush" /\ g.after = f.after /\ g.todo = T
BY FlushFrame DEF Frames

LEMMA StackFacts ==
  ASSUME TypeOK, stack # <<>>
  PROVE  /\ Len(stack) \in Nat \ {0} /\ Top = stack[Len(stack)] /\ Top \in Frames
         /\ Front(stack) \in Seq(Frames) /\ Len(Front(stack)) = Len(stack) - 1
         /\ \A i \in 1..(Len(stack) - 1) : Front(stack)[i] = stack[i]
<1>1. stack \in Seq(Frames)
  BY DEF TypeOK
<1> QED
  BY <1>1, FrontFacts DEF Top

-----------------------------------------------------------------------------
(* The inductive invariant behind types and depths *)

\* A transaction that is on the stack is running, and is there once.
OpenOn(st, x) ==
  \A i \in 1..Len(st) : st[i].kind = "atomic" =>
    /\ st[i].tx \in Transactions /\ x[st[i].tx] = "running"
    /\ \A j \in 1..Len(st) : st[j].kind = "atomic" /\ st[j].tx = st[i].tx => i = j

FramesOpen == OpenOn(stack, tx)

Balance ==
  /\ IsFiniteSet(Open)
  /\ ~botched => /\ atomicDepth = Cardinality(Open)
                 /\ Len(logs) = atomicDepth /\ Len(owners) = atomicDepth
                 /\ batchDepth = Cardinality(OpenBatches) + atomicDepth

Inv == TypeOK /\ FramesOpen /\ Balance

\* While a transaction is open it has a log, and so has the one around it.
LEMMA HasLog ==
  ASSUME TypeOK, Balance, ~botched, NEW t \in Open
  PROVE  /\ logs # <<>> /\ owners # <<>> /\ atomicDepth \in Nat \ {0}
         /\ Len(logs) = atomicDepth /\ Len(owners) = atomicDepth
<1>1. Cardinality(Open) \in Nat
  BY FS_CardinalityType DEF Balance
<1>2. Cardinality(Open) # 0
  BY FS_EmptySet DEF Balance
<1> QED
  BY <1>1, <1>2 DEF Balance, TypeOK

LEMMA AtomicTop ==
  ASSUME TypeOK, FramesOpen, TopIs("atomic")
  PROVE  Top.tx \in Transactions /\ tx[Top.tx] = "running" /\ Top.tx \in Open
BY StackFacts DEF FramesOpen, OpenOn, TopIs, Open

-----------------------------------------------------------------------------
(* Types *)

LEMMA InitTypeOK == Init => TypeOK
<1> SUFFICES ASSUME Init PROVE TypeOK
  OBVIOUS
<1>1. computeQ \in Seq(ComputedJobs) /\ IsInjective(computeQ)
  BY DEF Init, IsInjective
<1>2. /\ val \in [Signals -> Values] /\ begun \in [Transactions -> [Signals -> Values \cup {None}]]
      /\ foreign \in [Transactions -> SUBSET Signals]
      /\ tx \in [Transactions -> {"closed", "running", "waiting"}]
  BY DEF Init, NoLog
<1>3. /\ logs \in Seq([Signals -> Values \cup {None}]) /\ stack \in Seq(Frames)
      /\ owners \in Seq(Transactions)
  BY DEF Init
<1>4. /\ effectQ \in SUBSET EffectJobs /\ owed \in SUBSET EffectJobs /\ lost \in SUBSET EffectJobs
      /\ ticks \in Nat /\ batchDepth \in Int /\ atomicDepth \in Int
  BY DEF Init
<1>5. scheduled \in BOOLEAN /\ raised \in BOOLEAN /\ botched \in BOOLEAN /\ crossed \in BOOLEAN
  BY Zenon DEF Init
<1> QED
  BY <1>1, <1>2, <1>3, <1>4, <1>5 DEF TypeOK

\* A step that moves one computed job at most.
LEMMA QueueTypes ==
  ASSUME TypeOK
  PROVE  /\ \A c \in ComputedJobs \ Range(computeQ) :
              Append(computeQ, c) \in Seq(ComputedJobs) /\ IsInjective(Append(computeQ, c))
         /\ computeQ # <<>> => Tail(computeQ) \in Seq(ComputedJobs) /\ IsInjective(Tail(computeQ))
         /\ <<>> \in Seq(ComputedJobs) /\ IsInjective(<<>>)
<1>1. computeQ \in Seq(ComputedJobs) /\ IsInjective(computeQ) /\ DOMAIN computeQ = 1..Len(computeQ)
  BY DEF TypeOK
<1>2. ASSUME NEW c \in ComputedJobs \ Range(computeQ)
      PROVE  Append(computeQ, c) \in Seq(ComputedJobs) /\ IsInjective(Append(computeQ, c))
  <2>1. \A i \in 1..Len(computeQ) : computeQ[i] # c
    BY <1>1, <1>2 DEF Range
  <2> QED
    BY <1>1, <1>2, <2>1, AppendFacts DEF IsInjective
<1>3. ASSUME computeQ # <<>>
      PROVE  Tail(computeQ) \in Seq(ComputedJobs) /\ IsInjective(Tail(computeQ))
  BY <1>1, <1>3 DEF IsInjective
<1>4. <<>> \in Seq(ComputedJobs) /\ IsInjective(<<>>)
  BY DEF IsInjective
<1> QED
  BY <1>2, <1>3, <1>4

\* What a transaction does to the logs when it ends.
LEMMA LogTypes ==
  ASSUME TypeOK, logs # <<>>
  PROVE  /\ Front(logs) \in Seq([Signals -> Values \cup {None}])
         /\ Last(logs) \in [Signals -> Values \cup {None}]
         /\ [s \in Signals |-> IF Last(logs)[s] = None THEN val[s] ELSE Last(logs)[s]]
              \in [Signals -> Values]
         /\ Len(logs) > 1 =>
              /\ Merged \in [Signals -> Values \cup {None}]
              /\ Front(Front(logs)) \in Seq([Signals -> Values \cup {None}])
              /\ Append(Front(Front(logs)), Merged) \in Seq([Signals -> Values \cup {None}])
<1>1. logs \in Seq([Signals -> Values \cup {None}]) /\ val \in [Signals -> Values]
  BY DEF TypeOK
<1>2. /\ Front(logs) \in Seq([Signals -> Values \cup {None}]) /\ Len(Front(logs)) = Len(logs) - 1
      /\ Last(logs) \in [Signals -> Values \cup {None}]
  BY <1>1, FrontFacts
<1>3. ASSUME Len(logs) > 1
      PROVE  /\ Merged \in [Signals -> Values \cup {None}]
             /\ Front(Front(logs)) \in Seq([Signals -> Values \cup {None}])
  <2>1. Front(logs) # <<>>
    BY <1>1, <1>2, <1>3
  <2>2. /\ Front(Front(logs)) \in Seq([Signals -> Values \cup {None}])
        /\ Last(Front(logs)) \in [Signals -> Values \cup {None}]
    BY <1>2, <2>1, FrontFacts
  <2> QED
    BY <1>2, <2>2 DEF Merged
<1> QED
  BY <1>1, <1>2, <1>3, AppendFacts

LEMMA CommitType ==
  ASSUME TypeOK, Balance, NEW t \in Open, NEW base \in Seq(Frames),
         NEW a \in {"return", "rethrow", "commit", "sync"}, Commit(t, base, a)
  PROVE  TypeOK'
<1>1. ~botched /\ t \in Transactions
  BY DEF Commit, Close, Open
<1>2. logs # <<>> /\ owners # <<>> /\ Len(logs) = atomicDepth /\ atomicDepth \in Nat \ {0}
  BY <1>1, HasLog
<1>3. logs' \in Seq([Signals -> Values \cup {None}])
  BY <1>2, LogTypes DEF Commit
<1>4. stack' \in Seq(Frames) /\ scheduled' \in BOOLEAN
  <2>1. FlushCall(a) \in Frames
    BY FlushCallType
  <2>2. Append(base, FlushCall(a)) \in Seq(Frames)
    BY <2>1, AppendFacts
  <2> QED
    BY <2>2, Zenon DEF Commit, OutermostFlush, TypeOK
<1>5. owners' \in Seq(Transactions) /\ crossed' \in BOOLEAN
  BY <1>2, FrontFacts DEF Commit, Close, TypeOK
<1>6. /\ tx' \in [Transactions -> {"closed", "running", "waiting"}]
      /\ begun' \in [Transactions -> [Signals -> Values \cup {None}]]
      /\ foreign' \in [Transactions -> SUBSET Signals]
  BY <1>1 DEF Commit, Close, TypeOK, NoLog
<1>7. /\ val' = val /\ computeQ' = computeQ /\ effectQ' = effectQ /\ ticks' = ticks
      /\ raised' = raised /\ owed' = owed /\ lost' = lost /\ botched' = botched
      /\ batchDepth' \in Int /\ atomicDepth' \in Int
  BY DEF Commit, TypeOK
<1> QED
  BY <1>3, <1>4, <1>5, <1>6, <1>7 DEF TypeOK

LEMMA UndoType ==
  ASSUME TypeOK, logs # <<>>, Undo
  PROVE  /\ val' \in [Signals -> Values] /\ logs' \in Seq([Signals -> Values \cup {None}])
         /\ computeQ' \in Seq(ComputedJobs) /\ IsInjective(computeQ')
         /\ effectQ' \in SUBSET EffectJobs /\ scheduled' \in BOOLEAN /\ batchDepth' \in Int
<1>1. val' \in [Signals -> Values] /\ logs' \in Seq([Signals -> Values \cup {None}])
  BY LogTypes, Zenon DEF Undo
<1>2. computeQ' \in Seq(ComputedJobs) /\ IsInjective(computeQ')
  BY QueueTypes, Zenon DEF Undo
<1>3. effectQ' \in SUBSET EffectJobs /\ scheduled' \in BOOLEAN
  BY Zenon DEF Undo
<1>4. batchDepth' \in Int
  BY DEF Undo, TypeOK
<1> QED
  BY <1>1, <1>2, <1>3, <1>4

LEMMA RollbackType ==
  ASSUME TypeOK, Balance, NEW t \in Open, Close(t), Rollback, stack' \in Seq(Frames),
         raised' \in BOOLEAN, botched' \in BOOLEAN
  PROVE  TypeOK'
<1>1. ~botched /\ t \in Transactions
  BY DEF Close, Open
<1>2. logs # <<>> /\ owners # <<>>
  BY <1>1, HasLog
<1>3. /\ val' \in [Signals -> Values] /\ logs' \in Seq([Signals -> Values \cup {None}])
      /\ computeQ' \in Seq(ComputedJobs) /\ IsInjective(computeQ')
      /\ effectQ' \in SUBSET EffectJobs /\ scheduled' \in BOOLEAN /\ batchDepth' \in Int
  BY <1>2, UndoType DEF Rollback
<1>4. owners' \in Seq(Transactions) /\ crossed' \in BOOLEAN
  BY <1>2, FrontFacts DEF Close, TypeOK
<1>5. /\ tx' \in [Transactions -> {"closed", "running", "waiting"}]
      /\ begun' \in [Transactions -> [Signals -> Values \cup {None}]]
      /\ foreign' \in [Transactions -> SUBSET Signals]
  BY <1>1 DEF Close, TypeOK, NoLog
<1>6. /\ lost' \in SUBSET EffectJobs /\ owed' = owed /\ ticks' = ticks /\ atomicDepth' \in Int
  BY DEF Rollback, TypeOK
<1> QED
  BY <1>3, <1>4, <1>5, <1>6 DEF TypeOK

LEMMA ScheduleTypes ==
  ASSUME TypeOK
  PROVE  /\ Wake => scheduled' \in BOOLEAN /\ ticks' \in Nat
         /\ \A E \in SUBSET EffectJobs : ScheduleEffects(E) =>
              /\ effectQ' \in SUBSET EffectJobs /\ owed' \in SUBSET EffectJobs
              /\ lost' \in SUBSET EffectJobs /\ computeQ' = computeQ
              /\ scheduled' \in BOOLEAN /\ ticks' \in Nat
<1>1. ASSUME Wake PROVE scheduled' \in BOOLEAN /\ ticks' \in Nat
  <2>1. scheduled' \in BOOLEAN
    BY <1>1, Zenon DEF Wake, TypeOK
  <2>2. ticks' = ticks + 1 \/ ticks' = ticks
    BY <1>1 DEF Wake
  <2> QED
    BY <2>1, <2>2 DEF TypeOK
<1>2. ASSUME NEW E \in SUBSET EffectJobs, ScheduleEffects(E)
      PROVE  /\ effectQ' \in SUBSET EffectJobs /\ owed' \in SUBSET EffectJobs
             /\ lost' \in SUBSET EffectJobs /\ computeQ' = computeQ
             /\ scheduled' \in BOOLEAN /\ ticks' \in Nat
  <2>1. /\ effectQ' \in SUBSET EffectJobs /\ owed' \in SUBSET EffectJobs
        /\ lost' \in SUBSET EffectJobs /\ computeQ' = computeQ
    BY <1>2 DEF ScheduleEffects, TypeOK
  <2>2. CASE E # {}
    BY <1>1, <1>2, <2>1, <2>2 DEF ScheduleEffects
  <2>3. CASE E = {}
    BY <1>2, <2>1, <2>3 DEF ScheduleEffects, TypeOK
  <2> QED
    BY <2>2, <2>3
<1> QED
  BY <1>1, <1>2

LEMMA NextTypeOK == Inv /\ [Next]_vars => TypeOK'
<1> SUFFICES ASSUME Inv, [Next]_vars PROVE TypeOK'
  OBVIOUS
<1> USE DEF queueVars, txVars
<1>0. TypeOK /\ FramesOpen /\ Balance /\ stack \in Seq(Frames)
  BY DEF Inv, TypeOK
\* A step that changes the stack and Boolean variables only.
<1>a. ASSUME stack' \in Seq(Frames), raised' \in BOOLEAN, scheduled' \in BOOLEAN,
             UNCHANGED <<val, computeQ, effectQ, ticks, txVars, owed, lost, botched>>,
             batchDepth' \in Int
      PROVE  TypeOK'
  BY <1>0, <1>a DEF TypeOK
<1>b. /\ \A f \in Frames : Append(stack, f) \in Seq(Frames)
      /\ stack # <<>> => /\ Front(stack) \in Seq(Frames)
                         /\ \A f \in Frames : Append(Front(stack), f) \in Seq(Frames)
  BY <1>0, StackFacts, AppendFacts
<1>1. ASSUME NEW e \in EffectJobs, ScheduleEffect(e) PROVE TypeOK'
  <2>1. {e} \in SUBSET EffectJobs /\ ScheduleEffects({e})
    BY <1>1 DEF ScheduleEffect
  <2>2. /\ effectQ' \in SUBSET EffectJobs /\ owed' \in SUBSET EffectJobs
        /\ lost' \in SUBSET EffectJobs /\ computeQ' = computeQ
        /\ scheduled' \in BOOLEAN /\ ticks' \in Nat
    BY <1>0, <2>1, ScheduleTypes
  <2>3. UNCHANGED <<val, batchDepth, txVars, stack, raised, botched>>
    BY <1>1 DEF ScheduleEffect
  <2> QED
    BY <1>0, <2>2, <2>3 DEF TypeOK
<1>2. ASSUME NEW c \in ComputedJobs, ScheduleComputed(c) PROVE TypeOK'
  <2>1. computeQ' \in Seq(ComputedJobs) /\ IsInjective(computeQ')
    <3>1. CASE c \in Range(computeQ)
      BY <1>0, <1>2, <3>1 DEF ScheduleComputed, TypeOK
    <3>2. CASE c \notin Range(computeQ)
      BY <1>0, <1>2, <3>2, QueueTypes DEF ScheduleComputed
    <3> QED
      BY <3>1, <3>2
  <2>2. scheduled' \in BOOLEAN /\ ticks' \in Nat
    BY <1>0, <1>2, ScheduleTypes DEF ScheduleComputed
  <2>3. UNCHANGED <<val, effectQ, batchDepth, txVars, stack, raised, owed, lost, botched>>
    BY <1>2 DEF ScheduleComputed
  <2> QED
    BY <1>0, <2>1, <2>2, <2>3 DEF TypeOK
<1>3. ASSUME NEW s \in Signals, NEW v \in Values, SetSignal(s, v) PROVE TypeOK'
  <2>1. Notifies[s] \in SUBSET EffectJobs /\ ScheduleEffects(Notifies[s])
    BY <1>3, ProgramAssumption DEF SetSignal
  <2>2. /\ effectQ' \in SUBSET EffectJobs /\ owed' \in SUBSET EffectJobs
        /\ lost' \in SUBSET EffectJobs /\ computeQ' = computeQ
        /\ scheduled' \in BOOLEAN /\ ticks' \in Nat
    BY <1>0, <2>1, ScheduleTypes
  <2>3. /\ UNCHANGED <<batchDepth, atomicDepth, tx, begun, owners, crossed, stack, raised, botched>>
        /\ val' = [val EXCEPT ![s] = v] /\ logs' = Record(s)
        /\ foreign' = [t \in Transactions |->
             IF tx[t] = "waiting" THEN foreign[t] \cup {s} ELSE foreign[t]]
    BY <1>3 DEF SetSignal
  <2>4. logs' \in Seq([Signals -> Values \cup {None}])
    <3>1. /\ logs \in Seq([Signals -> Values \cup {None}]) /\ val[s] \in Values
          /\ DOMAIN logs = 1..Len(logs)
      BY <1>0 DEF TypeOK
    <3>2. ASSUME logs # <<>>
          PROVE [logs EXCEPT ![Len(logs)][s] = val[s]] \in Seq([Signals -> Values \cup {None}])
      <4>1. Len(logs) \in 1..Len(logs)
        BY <3>1, <3>2
      <4>2. [logs[Len(logs)] EXCEPT ![s] = val[s]] \in [Signals -> Values \cup {None}]
        BY <3>1, <4>1
      <4> QED
        BY <3>1, <4>1, <4>2
    <3> QED
      BY <2>3, <3>1, <3>2, Zenon DEF Record
  <2>5. val' \in [Signals -> Values] /\ foreign' \in [Transactions -> SUBSET Signals]
    BY <1>0, <2>3 DEF TypeOK
  <2> QED
    BY <1>0, <2>2, <2>3, <2>4, <2>5 DEF TypeOK
<1>4. ASSUME BatchBegin PROVE TypeOK'
  <2>1. stack' \in Seq(Frames)
    BY <1>4, <1>b, CallType DEF BatchBegin, Push
  <2> QED
    BY <1>0, <1>4, <1>a, <2>1 DEF BatchBegin, TypeOK
<1>5. ASSUME BatchEnd PROVE TypeOK'
  <2>1. stack' \in Seq(Frames) /\ scheduled' \in BOOLEAN
    <3>1. FlushCall(IF raised THEN "rethrow" ELSE "return") \in Frames
      BY FlushCallType
    <3> QED
      BY <1>0, <1>5, <1>b, <3>1, Zenon DEF BatchEnd, OutermostFlush, TopIs, TypeOK
  <2>2. raised' \in BOOLEAN
    BY <1>5, Zenon DEF BatchEnd
  <2> QED
    BY <1>0, <1>5, <1>a, <2>1, <2>2 DEF BatchEnd, TypeOK
<1>6. ASSUME FlushSync \/ MicrotaskFlush PROVE TypeOK'
  <2>1. stack' \in Seq(Frames)
    BY <1>6, <1>b, FlushCallType DEF FlushSync, MicrotaskFlush, Push
  <2>2. ticks' \in Nat
    BY <1>0, <1>6 DEF FlushSync, MicrotaskFlush, TypeOK
  <2>3. scheduled' \in BOOLEAN
    BY <1>6, Zenon DEF FlushSync, MicrotaskFlush
  <2>4. UNCHANGED <<val, computeQ, effectQ, batchDepth, txVars, raised, owed, lost, botched>>
    BY <1>6 DEF FlushSync, MicrotaskFlush
  <2> QED
    BY <1>0, <2>1, <2>2, <2>3, <2>4 DEF TypeOK
<1>7. ASSUME NEW t \in Transactions, AtomicBegin(t) PROVE TypeOK'
  <2>1. stack' \in Seq(Frames)
    BY <1>7, <1>b, CallType DEF AtomicBegin, Push
  <2>2. /\ logs' \in Seq([Signals -> Values \cup {None}]) /\ owners' \in Seq(Transactions)
    <3>1. NoLog \in [Signals -> Values \cup {None}]
      BY DEF NoLog
    <3> QED
      BY <1>0, <1>7, <3>1, AppendFacts DEF AtomicBegin, TypeOK
  <2>3. /\ tx' \in [Transactions -> {"closed", "running", "waiting"}]
        /\ begun' \in [Transactions -> [Signals -> Values \cup {None}]]
    BY <1>0, <1>7 DEF AtomicBegin, TypeOK
  <2>4. batchDepth' \in Int /\ atomicDepth' \in Int
    BY <1>0, <1>7 DEF AtomicBegin, TypeOK
  <2>5. /\ UNCHANGED <<val, computeQ, effectQ, scheduled, ticks, raised, owed, lost, botched>>
        /\ UNCHANGED <<foreign, crossed>>
    BY <1>7 DEF AtomicBegin
  <2> QED
    BY <1>0, <2>1, <2>2, <2>3, <2>4, <2>5 DEF TypeOK
<1>8. ASSUME AtomicReturn PROVE TypeOK'
  <2>1. Commit(Top.tx, Front(stack), "commit") /\ Top.tx \in Open /\ Front(stack) \in Seq(Frames)
    BY <1>0, <1>8, <1>b, AtomicTop DEF AtomicReturn, TopIs
  <2> QED
    BY <1>0, <2>1, CommitType
<1>9. ASSUME AtomicReturnPromise PROVE TypeOK'
  <2>1. stack' \in Seq(Frames) /\ tx' \in [Transactions -> {"closed", "running", "waiting"}]
    BY <1>0, <1>9, <1>b DEF AtomicReturnPromise, Pop, TopIs, TypeOK
  <2>2. UNCHANGED <<val, queueVars, batchDepth, atomicDepth, logs, begun, foreign, owners, crossed,
                    raised, owed, lost, botched>>
    BY <1>9 DEF AtomicReturnPromise
  <2> QED
    BY <1>0, <2>1, <2>2 DEF TypeOK
<1>10. ASSUME AtomicThrow PROVE TypeOK'
  <2>1. Close(Top.tx) /\ Rollback /\ Top.tx \in Open /\ stack' \in Seq(Frames)
    BY <1>0, <1>10, <1>b, AtomicTop DEF AtomicThrow, Pop, TopIs
  <2>2. raised' \in BOOLEAN /\ botched' \in BOOLEAN
    BY <1>0, <1>10, Zenon DEF AtomicThrow, TypeOK
  <2> QED
    BY <1>0, <2>1, <2>2, RollbackType
<1>11. ASSUME NEW t \in Transactions, AtomicResolved(t) PROVE TypeOK'
  <2>1. t \in Open /\ Commit(t, stack, "return")
    BY <1>11 DEF AtomicResolved, Open
  <2> QED
    BY <1>0, <2>1, CommitType
<1>12. ASSUME NEW t \in Transactions, AtomicRejected(t) PROVE TypeOK'
  <2>1. t \in Open /\ Close(t) /\ Rollback
    BY <1>12 DEF AtomicRejected, Open
  <2>2. raised' \in BOOLEAN /\ botched' \in BOOLEAN
    BY <1>0, <1>12, Zenon DEF AtomicRejected, TypeOK
  <2>3. stack' \in Seq(Frames)
    BY <1>0, <1>12 DEF AtomicRejected
  <2> QED
    BY <1>0, <2>1, <2>2, <2>3, RollbackType
<1>13. ASSUME JobReturn \/ UnwindJob PROVE TypeOK'
  BY <1>0, <1>13, <1>a, <1>b DEF JobReturn, UnwindJob, Pop, TopIs, TypeOK
<1>14. ASSUME Throw \/ Catch \/ FlushGiveUp \/ UNCHANGED vars PROVE TypeOK'
  <2>1. raised' \in BOOLEAN
    BY <1>0, <1>14, Zenon DEF Throw, Catch, FlushGiveUp, vars, TypeOK
  <2>2. UNCHANGED <<val, queueVars, batchDepth, txVars, stack, owed, lost, botched>>
    BY <1>14 DEF Throw, Catch, FlushGiveUp, vars
  <2> QED
    BY <1>0, <2>1, <2>2 DEF TypeOK
<1>c. ASSUME TopIs("flush")
      PROVE  stack # <<>> /\ Top \in Frames /\ Top.kind = "flush" /\ Top.todo \in SUBSET EffectJobs
  BY <1>0, <1>c, StackFacts, FlushFrame DEF TopIs
<1>15. ASSUME FlushRound PROVE TypeOK'
  <2>1. stack' \in Seq(Frames)
    <3>1. TopIs("flush") /\ Top.loops < MaxLoops
      BY <1>15 DEF FlushRound, RoundOver, Flushing
    <3>2. Top.loops + 1 \in 0..MaxLoops
      BY <1>c, <3>1, FlushFrame, BoundsAssumption
    <3>3. [Top EXCEPT !.phase = "compute", !.loops = @ + 1] \in Frames
      BY <1>c, <3>1, <3>2, FlushFrame DEF Frames
    <3> QED
      BY <1>15, <1>b, <1>c, <3>1, <3>3 DEF FlushRound, ReplaceTop
  <2> QED
    BY <1>0, <1>15, <1>a, <2>1 DEF FlushRound, TypeOK
<1>16. ASSUME FlushRunComputed PROVE TypeOK'
  <2>1. stack' \in Seq(Frames)
    BY <1>16, <1>b, CallType DEF FlushRunComputed, Push
  <2>2. computeQ' \in Seq(ComputedJobs) /\ IsInjective(computeQ')
    BY <1>0, <1>16, QueueTypes DEF FlushRunComputed
  <2>3. UNCHANGED <<val, effectQ, scheduled, ticks, batchDepth, txVars, raised, owed, lost, botched>>
    BY <1>16 DEF FlushRunComputed
  <2> QED
    BY <1>0, <2>1, <2>2, <2>3 DEF TypeOK
<1>17. ASSUME FlushTakeEffects PROVE TypeOK'
  <2>1. stack' \in Seq(Frames)
    <3>1. TopIs("flush")
      BY <1>17 DEF FlushTakeEffects, Flushing
    <3>2. [Top EXCEPT !.phase = "effects", !.todo = effectQ] \in Frames
      BY <1>0, <1>c, <3>1, FlushFrame DEF Frames, TypeOK
    <3> QED
      BY <1>17, <1>b, <1>c, <3>1, <3>2 DEF FlushTakeEffects, ReplaceTop
  <2>2. /\ UNCHANGED <<val, computeQ, scheduled, ticks, batchDepth, txVars, raised, owed, lost, botched>>
        /\ effectQ' = {}
    BY <1>17 DEF FlushTakeEffects
  <2> QED
    BY <1>0, <2>1, <2>2 DEF TypeOK
<1>18. ASSUME NEW e \in EffectJobs, FlushRunEffect(e) PROVE TypeOK'
  <2>1. stack' \in Seq(Frames)
    <3>1. TopIs("flush")
      BY <1>18 DEF FlushRunEffect, Flushing
    <3>2. [Top EXCEPT !.todo = @ \ {e}] \in Frames
      BY <1>c, <3>1, FlushFrame DEF Frames
    <3>3. Append(Front(stack), [Top EXCEPT !.todo = @ \ {e}]) \in Seq(Frames)
      BY <1>b, <1>c, <3>1, <3>2
    <3> QED
      BY <1>18, <3>3, CallType, AppendFacts DEF FlushRunEffect
  <2>2. UNCHANGED <<val, queueVars, batchDepth, txVars, raised, botched>>
    BY <1>18 DEF FlushRunEffect
  <2>3. owed' \in SUBSET EffectJobs /\ lost' \in SUBSET EffectJobs
    BY <1>0, <1>18 DEF FlushRunEffect, TypeOK
  <2> QED
    BY <1>0, <2>1, <2>2, <2>3 DEF TypeOK
<1>19. ASSUME FlushDone PROVE TypeOK'
  <2>1. stack' \in Seq(Frames)
    BY <1>19, <1>b DEF FlushDone, RoundOver, Flushing, TopIs, Pop
  <2>2. raised' \in BOOLEAN
    BY <1>19, Zenon DEF FlushDone
  <2> QED
    BY <1>0, <1>19, <1>a, <2>1, <2>2 DEF FlushDone, TypeOK
<1>20. ASSUME UnwindFlush PROVE TypeOK'
  <2>1. stack' \in Seq(Frames) /\ lost' \in SUBSET EffectJobs
    <3>1. TopIs("flush")
      BY <1>20 DEF UnwindFlush
    <3>2. LeftBehind \in SUBSET EffectJobs
      BY <1>0, <1>c, <3>1 DEF LeftBehind, TypeOK
    <3> QED
      BY <1>0, <1>20, <1>b, <1>c, <3>1, <3>2 DEF UnwindFlush, Pop, TypeOK
  <2>2. UNCHANGED <<val, queueVars, batchDepth, txVars, raised, owed, botched>>
    BY <1>20 DEF UnwindFlush
  <2> QED
    BY <1>0, <2>1, <2>2 DEF TypeOK
<1>21. ASSUME UnwindCommit PROVE TypeOK'
  <2>1. stack' \in Seq(Frames) /\ lost' \in SUBSET EffectJobs
    <3>1. TopIs("flush")
      BY <1>21 DEF UnwindCommit
    <3>2. LeftBehind \in SUBSET EffectJobs
      BY <1>0, <1>c, <3>1 DEF LeftBehind, TypeOK
    <3> QED
      BY <1>0, <1>21, <1>b, <1>c, <3>1, <3>2 DEF UnwindCommit, Pop, TypeOK
  <2>2. /\ UNCHANGED <<ticks, tx, begun, foreign, owners, crossed, raised, owed>>
        /\ atomicDepth' = atomicDepth - 1
    BY <1>21 DEF UnwindCommit
  <2>3. botched' \in BOOLEAN
    BY <1>21, Zenon DEF UnwindCommit
  <2>4. CASE logs = <<>>
    <3>1. UNCHANGED <<val, logs, computeQ, effectQ, scheduled, batchDepth>>
      BY <1>21, <2>4 DEF UnwindCommit
    <3> QED
      BY <1>0, <2>1, <2>2, <2>3, <3>1 DEF TypeOK
  <2>5. CASE logs # <<>>
    <3>1. Undo
      BY <1>21, <2>5 DEF UnwindCommit
    <3>2. /\ val' \in [Signals -> Values] /\ logs' \in Seq([Signals -> Values \cup {None}])
          /\ computeQ' \in Seq(ComputedJobs) /\ IsInjective(computeQ')
          /\ effectQ' \in SUBSET EffectJobs /\ scheduled' \in BOOLEAN /\ batchDepth' \in Int
      BY <1>0, <2>5, <3>1, UndoType
    <3> QED
      BY <1>0, <2>1, <2>2, <2>3, <3>2 DEF TypeOK
  <2> QED
    BY <2>4, <2>5
<1> QED
  BY <1>1, <1>2, <1>3, <1>4, <1>5, <1>6, <1>7, <1>8, <1>9, <1>10, <1>11, <1>12, <1>13, <1>14,
     <1>15, <1>16, <1>17, <1>18, <1>19, <1>20, <1>21 DEF Next, UserStep, RuntimeStep

-----------------------------------------------------------------------------
(* Steps that leave batches and transactions alone *)

\* Flushes and jobs come and go on top of the stack.
QuietStack ==
  \/ stack' = stack
  \/ \E f \in Frames :
       /\ f.kind = "job" \/ (f.kind = "flush" /\ (f.after = "sync" \/ stack = <<>>))
       /\ stack' = Append(stack, f)
  \/ /\ stack # <<>> /\ Top.kind \in {"flush", "job"}
     /\ stack' = Front(stack)
  \/ /\ stack # <<>> /\ Top.kind = "flush"
     /\ \E f \in Frames :
          /\ f.kind = "flush" /\ f.after = Top.after
          /\ \/ stack' = Append(Front(stack), f)
             \/ \E g \in Frames : g.kind = "job" /\ stack' = Append(Append(Front(stack), f), g)

Quiet ==
  /\ QuietStack
  /\ UNCHANGED <<tx, batchDepth, atomicDepth, owners, botched>>
  /\ Len(logs') = Len(logs)

QuietActions ==
  \/ \E e \in EffectJobs : ScheduleEffect(e) \/ FlushRunEffect(e)
  \/ \E c \in ComputedJobs : ScheduleComputed(c)
  \/ \E s \in Signals, v \in Values : SetSignal(s, v)
  \/ FlushSync \/ MicrotaskFlush \/ FlushRound \/ FlushGiveUp \/ FlushRunComputed
  \/ FlushTakeEffects \/ FlushDone \/ UnwindFlush
  \/ JobReturn \/ UnwindJob \/ Throw \/ Catch \/ UNCHANGED vars

LEMMA QuietSteps == ASSUME TypeOK, QuietActions PROVE Quiet
<1> USE DEF queueVars, txVars
<1>1. ASSUME \/ \E e \in EffectJobs : ScheduleEffect(e)
             \/ \E c \in ComputedJobs : ScheduleComputed(c)
             \/ FlushGiveUp \/ Throw \/ Catch \/ UNCHANGED vars
      PROVE  Quiet
  BY <1>1 DEF ScheduleEffect, ScheduleComputed, FlushGiveUp, Throw, Catch, vars, Quiet, QuietStack
<1>2. ASSUME NEW s \in Signals, NEW v \in Values, SetSignal(s, v) PROVE Quiet
  <2>1. Len(Record(s)) = Len(logs)
    <3>1. logs \in Seq([Signals -> Values \cup {None}])
      BY DEF TypeOK
    <3> QED
      BY <3>1 DEF Record
  <2> QED
    BY <1>2, <2>1 DEF SetSignal, Quiet, QuietStack
<1>3. ASSUME JobReturn \/ UnwindJob \/ FlushDone \/ UnwindFlush PROVE Quiet
  BY <1>3 DEF JobReturn, UnwindJob, FlushDone, UnwindFlush, RoundOver, Flushing, TopIs, Pop,
              Quiet, QuietStack
<1>4. ASSUME FlushSync PROVE Quiet
  <2>1. /\ FlushCall("sync") \in Frames /\ FlushCall("sync").kind = "flush"
        /\ FlushCall("sync").after = "sync"
    BY FlushCallType
  <2>2. stack' = Append(stack, FlushCall("sync"))
    BY <1>4 DEF FlushSync, Push
  <2>3. QuietStack
    BY <2>1, <2>2 DEF QuietStack
  <2> QED
    BY <1>4, <2>3 DEF FlushSync, Quiet
<1>5. ASSUME MicrotaskFlush PROVE Quiet
  <2>1. FlushCall("return") \in Frames /\ FlushCall("return").kind = "flush"
    BY FlushCallType
  <2>2. stack' = Append(stack, FlushCall("return")) /\ stack = <<>>
    BY <1>5 DEF MicrotaskFlush, Push, Idle
  <2>3. QuietStack
    BY <2>1, <2>2 DEF QuietStack
  <2> QED
    BY <1>5, <2>3 DEF MicrotaskFlush, Quiet
<1>6. Call("job", None) \in Frames /\ Call("job", None).kind = "job"
  BY CallType
<1>7. ASSUME FlushRunComputed PROVE Quiet
  <2>1. stack' = Append(stack, Call("job", None))
    BY <1>7 DEF FlushRunComputed, Push
  <2>2. QuietStack
    BY <1>6, <2>1 DEF QuietStack
  <2> QED
    BY <1>7, <2>2 DEF FlushRunComputed, Quiet
<1>8. ASSUME TopIs("flush")
      PROVE  /\ stack # <<>> /\ Top \in Frames /\ Top.kind = "flush"
             /\ Top.todo \in SUBSET EffectJobs /\ Top.loops \in 0..MaxLoops
  BY <1>8, StackFacts, FlushFrame DEF TopIs
<1>9. ASSUME FlushRound PROVE Quiet
  <2> DEFINE f == [Top EXCEPT !.phase = "compute", !.loops = @ + 1]
  <2>1. TopIs("flush") /\ Top.loops < MaxLoops /\ stack' = Append(Front(stack), f)
    BY <1>9 DEF FlushRound, RoundOver, Flushing, ReplaceTop
  <2>2. Top.loops + 1 \in 0..MaxLoops
    BY <1>8, <2>1, BoundsAssumption
  <2>3. f \in Frames /\ f.kind = "flush" /\ f.after = Top.after
    BY <1>8, <2>1, <2>2, FlushFrame DEF Frames
  <2> HIDE DEF f
  <2>4. QuietStack
    BY <1>8, <2>1, <2>3 DEF QuietStack
  <2> QED
    BY <1>9, <2>4 DEF FlushRound, Quiet
<1>10. ASSUME FlushTakeEffects PROVE Quiet
  <2> DEFINE f == [Top EXCEPT !.phase = "effects", !.todo = effectQ]
  <2>1. TopIs("flush") /\ stack' = Append(Front(stack), f) /\ effectQ \in SUBSET EffectJobs
    BY <1>10 DEF FlushTakeEffects, Flushing, ReplaceTop, TypeOK
  <2>2. f \in Frames /\ f.kind = "flush" /\ f.after = Top.after
    BY <1>8, <2>1, FlushFrame DEF Frames
  <2> HIDE DEF f
  <2>3. QuietStack
    BY <1>8, <2>1, <2>2 DEF QuietStack
  <2> QED
    BY <1>10, <2>3 DEF FlushTakeEffects, Quiet
<1>11. ASSUME NEW e \in EffectJobs, FlushRunEffect(e) PROVE Quiet
  <2> DEFINE f == [Top EXCEPT !.todo = @ \ {e}]
  <2>1. TopIs("flush") /\ stack' = Append(Append(Front(stack), f), Call("job", None))
    BY <1>11 DEF FlushRunEffect, Flushing
  <2>2. f \in Frames /\ f.kind = "flush" /\ f.after = Top.after
    BY <1>8, <2>1, FlushFrame DEF Frames
  <2> HIDE DEF f
  <2>3. QuietStack
    BY <1>6, <1>8, <2>1, <2>2 DEF QuietStack
  <2> QED
    BY <1>11, <2>3 DEF FlushRunEffect, Quiet
<1> QED
  BY <1>1, <1>2, <1>3, <1>4, <1>5, <1>7, <1>9, <1>10, <1>11 DEF QuietActions

-----------------------------------------------------------------------------
(* Open batches *)

Batches(st) == {i \in 1..Len(st) : st[i].kind = "batch"}

LEMMA BatchesFinite ==
  ASSUME NEW st \in Seq(Frames)
  PROVE  IsFiniteSet(Batches(st)) /\ Cardinality(Batches(st)) \in Nat
<1>1. Len(st) \in Nat
  OBVIOUS
<1>2. IsFiniteSet(1..Len(st))
  BY <1>1, FS_Interval
<1>3. IsFiniteSet(Batches(st))
  BY <1>2, FS_Subset DEF Batches
<1> QED
  BY <1>3, FS_CardinalityType

LEMMA BatchesAppend ==
  ASSUME NEW st \in Seq(Frames), NEW f \in Frames
  PROVE  Cardinality(Batches(Append(st, f))) =
           IF f.kind = "batch" THEN Cardinality(Batches(st)) + 1 ELSE Cardinality(Batches(st))
<1>1. CASE f.kind = "batch"
  <2>1. Batches(Append(st, f)) = Batches(st) \cup {Len(st) + 1}
    BY <1>1, AppendFacts DEF Batches
  <2>2. Len(st) + 1 \notin Batches(st)
    BY DEF Batches
  <2> QED
    BY <1>1, <2>1, <2>2, BatchesFinite, FS_AddElement
<1>2. CASE f.kind # "batch"
  <2>1. Batches(Append(st, f)) = Batches(st)
    BY <1>2, AppendFacts DEF Batches
  <2> QED
    BY <1>2, <2>1
<1> QED
  BY <1>1, <1>2

LEMMA BatchesFront ==
  ASSUME NEW st \in Seq(Frames), st # <<>>
  PROVE  Cardinality(Batches(Front(st))) =
           IF st[Len(st)].kind = "batch" THEN Cardinality(Batches(st)) - 1 ELSE Cardinality(Batches(st))
<1>0. /\ Len(st) \in Nat \ {0} /\ Len(Front(st)) = Len(st) - 1
      /\ \A i \in 1..(Len(st) - 1) : Front(st)[i] = st[i]
  BY FrontFacts
<1>1. CASE st[Len(st)].kind = "batch"
  <2>1. Batches(Front(st)) = Batches(st) \ {Len(st)} /\ Len(st) \in Batches(st)
    BY <1>0, <1>1 DEF Batches
  <2> QED
    BY <1>1, <2>1, BatchesFinite, FS_RemoveElement
<1>2. CASE st[Len(st)].kind # "batch"
  <2>1. Batches(Front(st)) = Batches(st)
    BY <1>0, <1>2 DEF Batches
  <2> QED
    BY <1>2, <2>1
<1> QED
  BY <1>1, <1>2

LEMMA BatchesOpen ==
  /\ TypeOK => OpenBatches = Batches(stack)
  /\ TypeOK' => OpenBatches' = Batches(stack')
BY DEF TypeOK, OpenBatches, Batches

LEMMA QuietBatches ==
  ASSUME TypeOK, QuietStack
  PROVE  Cardinality(Batches(stack')) = Cardinality(Batches(stack))
<1>1. stack \in Seq(Frames)
  BY DEF TypeOK
<1>2. ASSUME NEW f \in Frames, f.kind # "batch", stack' = Append(stack, f)
      PROVE  Cardinality(Batches(stack')) = Cardinality(Batches(stack))
  BY <1>1, <1>2, BatchesAppend
<1>3. ASSUME stack # <<>>, Top.kind # "batch"
      PROVE  Cardinality(Batches(Front(stack))) = Cardinality(Batches(stack))
  BY <1>1, <1>3, BatchesFront, StackFacts
<1>4. ASSUME stack # <<>>, Top.kind # "batch", NEW f \in Frames, f.kind # "batch"
      PROVE  /\ Append(Front(stack), f) \in Seq(Frames)
             /\ Cardinality(Batches(Append(Front(stack), f))) = Cardinality(Batches(stack))
  BY <1>3, <1>4, BatchesAppend, StackFacts, AppendFacts
<1>5. ASSUME stack # <<>>, Top.kind # "batch", NEW f \in Frames, f.kind # "batch",
             NEW g \in Frames, g.kind # "batch"
      PROVE  Cardinality(Batches(Append(Append(Front(stack), f), g))) = Cardinality(Batches(stack))
  <2> DEFINE h == Append(Front(stack), f)
  <2>1. h \in Seq(Frames) /\ Cardinality(Batches(h)) = Cardinality(Batches(stack))
    BY <1>4, <1>5
  <2> HIDE DEF h
  <2>2. Cardinality(Batches(Append(h, g))) = Cardinality(Batches(h))
    BY <1>5, <2>1, BatchesAppend
  <2> QED
    BY <2>1, <2>2 DEF h
<1>6. CASE stack' = stack
  BY <1>6
<1>7. ASSUME NEW f \in Frames,
             f.kind = "job" \/ (f.kind = "flush" /\ (f.after = "sync" \/ stack = <<>>)),
             stack' = Append(stack, f)
      PROVE  Cardinality(Batches(stack')) = Cardinality(Batches(stack))
  BY <1>2, <1>7
<1>8. CASE stack # <<>> /\ Top.kind \in {"flush", "job"} /\ stack' = Front(stack)
  BY <1>3, <1>8
<1>9. ASSUME stack # <<>>, Top.kind = "flush", NEW f \in Frames, f.kind = "flush",
             \/ stack' = Append(Front(stack), f)
             \/ \E g \in Frames : g.kind = "job" /\ stack' = Append(Append(Front(stack), f), g)
      PROVE  Cardinality(Batches(stack')) = Cardinality(Batches(stack))
  <2>1. Top.kind # "batch" /\ f.kind # "batch"
    BY <1>9
  <2>2. CASE stack' = Append(Front(stack), f)
    BY <1>4, <1>9, <2>1, <2>2
  <2>3. ASSUME NEW g \in Frames, g.kind = "job", stack' = Append(Append(Front(stack), f), g)
        PROVE  Cardinality(Batches(stack')) = Cardinality(Batches(stack))
    <3>1. g.kind # "batch"
      BY <2>3
    <3>2. Cardinality(Batches(Append(Append(Front(stack), f), g))) = Cardinality(Batches(stack))
      BY <1>5, <1>9, <2>1, <3>1, Zenon
    <3> QED
      BY <2>3, <3>2, Zenon
  <2> QED
    BY <1>9, <2>2, <2>3
<1> QED
  BY <1>6, <1>7, <1>8, <1>9 DEF QuietStack

-----------------------------------------------------------------------------
(* Transactions on the stack *)

LEMMA OpenAppend ==
  ASSUME NEW st \in Seq(Frames), NEW x, OpenOn(st, x), NEW f \in Frames, f.kind # "atomic"
  PROVE  OpenOn(Append(st, f), x)
<1>1. \A i \in 1..(Len(st) + 1) : Append(st, f)[i].kind = "atomic" =>
        i \in 1..Len(st) /\ Append(st, f)[i] = st[i]
  BY AppendFacts
<1> QED
  BY <1>1, AppendFacts DEF OpenOn

LEMMA OpenFront ==
  ASSUME NEW st \in Seq(Frames), st # <<>>, NEW x, OpenOn(st, x)
  PROVE  OpenOn(Front(st), x)
<1>1. /\ Len(st) \in Nat \ {0} /\ Len(Front(st)) = Len(st) - 1
      /\ \A i \in 1..(Len(st) - 1) : Front(st)[i] = st[i] /\ i \in 1..Len(st)
  BY FrontFacts
<1> QED
  BY <1>1 DEF OpenOn

LEMMA OpenBegin ==
  ASSUME NEW st \in Seq(Frames), NEW x, OpenOn(st, x), DOMAIN x = Transactions,
         x = [y \in Transactions |-> x[y]],
         NEW t \in Transactions, x[t] # "running"
  PROVE  OpenOn(Append(st, Call("atomic", t)), [x EXCEPT ![t] = "running"])
<1> DEFINE f == Call("atomic", t)
           ap == Append(st, f)
           y == [x EXCEPT ![t] = "running"]
<1>1. f \in Frames /\ f.kind = "atomic" /\ f.tx = t
  BY CallType
<1> HIDE DEF f
<1>2. Len(st) \in Nat /\ Len(ap) = Len(st) + 1 /\ ap[Len(st) + 1] = f
      /\ \A i \in 1..Len(st) : ap[i] = st[i]
  BY <1>1, AppendFacts
<1>3. y[t] = "running" /\ \A u \in Transactions : u # t => y[u] = x[u]
  OBVIOUS
<1> HIDE DEF ap, y
<1>4. \A i \in 1..Len(st) : ap[i].kind = "atomic" =>
        /\ ap[i].tx \in Transactions /\ ap[i].tx # t /\ y[ap[i].tx] = "running"
        /\ \A j \in 1..Len(st) : ap[j].kind = "atomic" /\ ap[j].tx = ap[i].tx => i = j
  BY <1>2, <1>3 DEF OpenOn
<1>5. \A i \in 1..(Len(st) + 1) : i \in 1..Len(st) \/ i = Len(st) + 1
  BY <1>2
<1>6. OpenOn(ap, y)
  BY <1>1, <1>2, <1>3, <1>4, <1>5 DEF OpenOn
<1> QED
  BY <1>6 DEF ap, y, f

LEMMA OpenEnd ==
  ASSUME NEW st \in Seq(Frames), NEW x, OpenOn(st, x), DOMAIN x = Transactions,
         NEW t \in Transactions, NEW v,
         \A i \in 1..Len(st) : ~(st[i].kind = "atomic" /\ st[i].tx = t)
  PROVE  OpenOn(st, [x EXCEPT ![t] = v])
BY DEF OpenOn

\* Below its own frame a transaction has no other.
LEMMA OnceOnStack ==
  ASSUME TypeOK, FramesOpen, TopIs("atomic")
  PROVE  \A i \in 1..Len(Front(stack)) :
           ~(Front(stack)[i].kind = "atomic" /\ Front(stack)[i].tx = Top.tx)
BY StackFacts DEF FramesOpen, OpenOn, TopIs

LEMMA QuietFrames == ASSUME TypeOK, FramesOpen, QuietStack, tx' = tx PROVE FramesOpen'
<1>0. stack \in Seq(Frames) /\ OpenOn(stack, tx)
  BY DEF TypeOK, FramesOpen
<1>1. ASSUME NEW f \in Frames, f.kind \in {"job", "flush"} PROVE OpenOn(Append(stack, f), tx)
  BY <1>0, <1>1, OpenAppend
<1>2. ASSUME stack # <<>> PROVE OpenOn(Front(stack), tx) /\ Front(stack) \in Seq(Frames)
  BY <1>0, <1>2, OpenFront, FrontFacts
<1>3. ASSUME stack # <<>>, NEW f \in Frames, f.kind = "flush"
      PROVE  OpenOn(Append(Front(stack), f), tx) /\ Append(Front(stack), f) \in Seq(Frames)
  BY <1>2, <1>3, OpenAppend, AppendFacts
<1>4. ASSUME stack # <<>>, NEW f \in Frames, f.kind = "flush", NEW g \in Frames, g.kind = "job"
      PROVE  OpenOn(Append(Append(Front(stack), f), g), tx)
  <2> DEFINE h == Append(Front(stack), f)
  <2>1. OpenOn(h, tx) /\ h \in Seq(Frames) /\ g.kind # "atomic"
    BY <1>3, <1>4
  <2> HIDE DEF h
  <2>2. OpenOn(Append(h, g), tx)
    BY <2>1, OpenAppend
  <2> QED
    BY <2>2 DEF h
<1>5. OpenOn(stack', tx)
  BY <1>0, <1>1, <1>2, <1>3, <1>4, Zenon DEF QuietStack
<1> QED
  BY <1>5 DEF FramesOpen

LEMMA NextFramesOpen == Inv /\ [Next]_vars => FramesOpen'
<1> SUFFICES ASSUME Inv, [Next]_vars PROVE FramesOpen'
  OBVIOUS
<1>0. /\ TypeOK /\ FramesOpen /\ stack \in Seq(Frames) /\ OpenOn(stack, tx)
      /\ DOMAIN tx = Transactions /\ tx = [y \in Transactions |-> tx[y]]
  BY DEF Inv, TypeOK, FramesOpen
<1>1. ASSUME QuietActions PROVE FramesOpen'
  BY <1>0, <1>1, QuietSteps, QuietFrames DEF Quiet
<1>2. ASSUME BatchBegin PROVE FramesOpen'
  <2>1. stack' = Append(stack, Call("batch", None)) /\ tx' = tx
    BY <1>2 DEF BatchBegin, Push, txVars
  <2>2. Call("batch", None) \in Frames /\ Call("batch", None).kind # "atomic"
    BY CallType
  <2>3. OpenOn(Append(stack, Call("batch", None)), tx)
    BY <1>0, <2>2, OpenAppend
  <2> QED
    BY <2>1, <2>3 DEF FramesOpen
\* The frame of a flush takes the place of the call that ends, or nothing does.
<1>a. ASSUME NEW base \in Seq(Frames), NEW a \in {"return", "rethrow", "commit", "sync"},
             OutermostFlush(base, a), NEW x, OpenOn(base, x)
      PROVE  OpenOn(stack', x)
  <2>1. FlushCall(a) \in Frames /\ FlushCall(a).kind # "atomic"
    BY FlushCallType
  <2>2. OpenOn(Append(base, FlushCall(a)), x)
    BY <1>a, <2>1, OpenAppend
  <2> QED
    BY <1>a, <2>2, Zenon DEF OutermostFlush
<1>b. ASSUME stack # <<>> PROVE Front(stack) \in Seq(Frames) /\ OpenOn(Front(stack), tx)
  BY <1>0, <1>b, OpenFront, FrontFacts
<1>3. ASSUME BatchEnd PROVE FramesOpen'
  <2>1. /\ stack # <<>> /\ tx' = tx
        /\ OutermostFlush(Front(stack), IF raised THEN "rethrow" ELSE "return")
    BY <1>3 DEF BatchEnd, TopIs, txVars
  <2>2. OpenOn(stack', tx)
    <3>1. (IF raised THEN "rethrow" ELSE "return") \in {"return", "rethrow", "commit", "sync"}
      OBVIOUS
    <3> QED
      BY <1>a, <1>b, <2>1, <3>1
  <2> QED
    BY <2>1, <2>2 DEF FramesOpen
<1>4. ASSUME NEW t \in Transactions, AtomicBegin(t) PROVE FramesOpen'
  <2>1. /\ tx[t] # "running" /\ tx' = [tx EXCEPT ![t] = "running"]
        /\ stack' = Append(stack, Call("atomic", t))
    BY <1>4 DEF AtomicBegin, Push
  <2>2. OpenOn(Append(stack, Call("atomic", t)), [tx EXCEPT ![t] = "running"])
    BY <1>0, <2>1, OpenBegin
  <2> QED
    BY <2>1, <2>2 DEF FramesOpen
\* A transaction leaves the top of the stack.
<1>c. ASSUME TopIs("atomic"), NEW v
      PROVE  /\ stack # <<>> /\ Front(stack) \in Seq(Frames)
             /\ OpenOn(Front(stack), [tx EXCEPT ![Top.tx] = v])
  <2>1. stack # <<>> /\ Front(stack) \in Seq(Frames) /\ OpenOn(Front(stack), tx)
    BY <1>b, <1>c DEF TopIs
  <2>2. Top.tx \in Transactions
    BY <1>0, <1>c, AtomicTop
  <2> QED
    BY <1>0, <1>c, <2>1, <2>2, OnceOnStack, OpenEnd
<1>5. ASSUME AtomicReturn PROVE FramesOpen'
  <2>1. /\ TopIs("atomic") /\ OutermostFlush(Front(stack), "commit")
        /\ tx' = [tx EXCEPT ![Top.tx] = "closed"]
    BY <1>5 DEF AtomicReturn, Commit, Close
  <2> QED
    BY <1>a, <1>c, <2>1 DEF FramesOpen
<1>6. ASSUME AtomicReturnPromise \/ AtomicThrow PROVE FramesOpen'
  <2>1. PICK v \in {"waiting", "closed"} :
          TopIs("atomic") /\ stack' = Front(stack) /\ tx' = [tx EXCEPT ![Top.tx] = v]
    BY <1>6 DEF AtomicReturnPromise, AtomicThrow, Close, Pop
  <2> QED
    BY <1>c, <2>1 DEF FramesOpen
\* A transaction that waits for its promise ends while the stack is empty.
<1>d. ASSUME stack = <<>>, NEW x PROVE OpenOn(stack, x)
  BY <1>d DEF OpenOn
<1>7. ASSUME NEW t \in Transactions, AtomicResolved(t) PROVE FramesOpen'
  <2>1. stack = <<>> /\ OutermostFlush(stack, "return")
    BY <1>7 DEF AtomicResolved, Commit, Idle
  <2>2. OpenOn(stack', tx')
    BY <1>0, <1>a, <1>d, <2>1
  <2> QED
    BY <2>2 DEF FramesOpen
<1>8. ASSUME NEW t \in Transactions, AtomicRejected(t) PROVE FramesOpen'
  <2>1. stack = <<>> /\ stack' = stack
    BY <1>8 DEF AtomicRejected, Idle
  <2> QED
    BY <1>d, <2>1 DEF FramesOpen
<1>9. ASSUME UnwindCommit PROVE FramesOpen'
  <2>1. stack # <<>> /\ stack' = Front(stack) /\ tx' = tx
    BY <1>9 DEF UnwindCommit, TopIs, Pop
  <2> QED
    BY <1>b, <2>1 DEF FramesOpen
<1> QED
  BY <1>1, <1>2, <1>3, <1>4, <1>5, <1>6, <1>7, <1>8, <1>9
     DEF Next, UserStep, RuntimeStep, QuietActions

-----------------------------------------------------------------------------
(* The depths *)

LEMMA NextBalance == Inv /\ [Next]_vars /\ TypeOK' => Balance'
<1> SUFFICES ASSUME Inv, [Next]_vars, TypeOK' PROVE Balance'
  OBVIOUS
<1> DEFINE B  == Cardinality(Batches(stack))
           BB == Cardinality(Batches(stack'))
<1>0. /\ TypeOK /\ Balance /\ stack \in Seq(Frames) /\ stack' \in Seq(Frames)
      /\ IsFiniteSet(Open) /\ Cardinality(Open) \in Nat /\ B \in Nat
      /\ OpenBatches = Batches(stack) /\ OpenBatches' = Batches(stack')
      /\ tx \in [Transactions -> {"closed", "running", "waiting"}]
      /\ batchDepth \in Int /\ atomicDepth \in Int
  BY BatchesOpen, BatchesFinite, FS_CardinalityType DEF Inv, TypeOK, Balance
<1>00. ~botched => /\ atomicDepth = Cardinality(Open) /\ Len(logs) = atomicDepth
                   /\ Len(owners) = atomicDepth /\ batchDepth = B + atomicDepth
  BY <1>0 DEF Balance
\* It is enough to count what begins and what ends.
<1>a. ASSUME IsFiniteSet(Open'),
             ~botched' => /\ atomicDepth' = Cardinality(Open') /\ Len(logs') = atomicDepth'
                          /\ Len(owners') = atomicDepth' /\ batchDepth' = BB + atomicDepth'
      PROVE  Balance'
  BY <1>0, <1>a DEF Balance
<1>b. ASSUME NEW f \in Frames
      PROVE  /\ Cardinality(Batches(Append(stack, f))) = IF f.kind = "batch" THEN B + 1 ELSE B
             /\ stack # <<>> =>
                  /\ Front(stack) \in Seq(Frames)
                  /\ Cardinality(Batches(Front(stack))) = IF Top.kind = "batch" THEN B - 1 ELSE B
                  /\ f.kind # "batch" =>
                       Cardinality(Batches(Append(Front(stack), f))) =
                         Cardinality(Batches(Front(stack)))
  <2>1. Cardinality(Batches(Append(stack, f))) = IF f.kind = "batch" THEN B + 1 ELSE B
    BY <1>0, BatchesAppend
  <2>2. ASSUME stack # <<>>
        PROVE  /\ Front(stack) \in Seq(Frames)
               /\ Cardinality(Batches(Front(stack))) = IF Top.kind = "batch" THEN B - 1 ELSE B
    BY <1>0, <2>2, BatchesFront, StackFacts
  <2>3. ASSUME stack # <<>>, f.kind # "batch"
        PROVE  Cardinality(Batches(Append(Front(stack), f))) = Cardinality(Batches(Front(stack)))
    BY <2>2, <2>3, BatchesAppend
  <2> QED
    BY <2>1, <2>2, <2>3
\* The flush that may follow counts nothing.
<1>c. ASSUME NEW base \in Seq(Frames), NEW a \in {"return", "rethrow", "commit", "sync"},
             OutermostFlush(base, a)
      PROVE  BB = Cardinality(Batches(base))
  <2>1. FlushCall(a) \in Frames /\ FlushCall(a).kind # "batch"
    BY FlushCallType
  <2>2. Cardinality(Batches(Append(base, FlushCall(a)))) = Cardinality(Batches(base))
    BY <2>1, BatchesAppend
  <2> QED
    BY <1>c, <2>2, Zenon DEF OutermostFlush
<1>1. ASSUME QuietActions PROVE Balance'
  <2>1. Quiet /\ BB = B
    BY <1>0, <1>1, QuietSteps, QuietBatches DEF Quiet
  <2>2. Open' = Open
    BY <2>1 DEF Quiet, Open
  <2> QED
    BY <1>0, <1>00, <1>a, <2>1, <2>2 DEF Quiet
<1>2. ASSUME BatchBegin PROVE Balance'
  <2>1. BB = B + 1
    <3>1. stack' = Append(stack, Call("batch", None))
      BY <1>2 DEF BatchBegin, Push
    <3>2. Call("batch", None) \in Frames /\ Call("batch", None).kind = "batch"
      BY CallType
    <3> QED
      BY <1>b, <3>1, <3>2
  <2>2. UNCHANGED <<tx, atomicDepth, logs, owners, botched>> /\ batchDepth' = batchDepth + 1
    BY <1>2 DEF BatchBegin, txVars
  <2>3. Open' = Open
    BY <2>2 DEF Open
  <2> QED
    BY <1>0, <1>00, <1>a, <2>1, <2>2, <2>3 DEF TypeOK
<1>3. ASSUME BatchEnd PROVE Balance'
  <2>1. BB = B - 1
    <3>1. /\ stack # <<>> /\ Top.kind = "batch"
          /\ OutermostFlush(Front(stack), IF raised THEN "rethrow" ELSE "return")
      BY <1>3 DEF BatchEnd, TopIs
    <3>2. (IF raised THEN "rethrow" ELSE "return") \in {"return", "rethrow", "commit", "sync"}
      OBVIOUS
    <3>3. /\ Front(stack) \in Seq(Frames)
          /\ Cardinality(Batches(Front(stack))) = IF Top.kind = "batch" THEN B - 1 ELSE B
      BY <1>b, <3>1, StackFacts, <1>0
    <3>4. BB = Cardinality(Batches(Front(stack)))
      BY <1>c, <3>1, <3>2, <3>3
    <3> QED
      BY <3>1, <3>3, <3>4
  <2>2. UNCHANGED <<tx, atomicDepth, logs, owners, botched>> /\ batchDepth' = batchDepth - 1
    BY <1>3 DEF BatchEnd, txVars
  <2>3. Open' = Open
    BY <2>2 DEF Open
  <2> QED
    <3>1. ASSUME ~botched'
          PROVE  /\ atomicDepth' = Cardinality(Open') /\ Len(logs') = atomicDepth'
                 /\ Len(owners') = atomicDepth' /\ batchDepth' = BB + atomicDepth'
      BY <1>0, <1>00, <2>1, <2>2, <2>3, <3>1
    <3> QED
      BY <1>0, <1>a, <2>3, <3>1
<1>4. ASSUME NEW t \in Transactions, AtomicBegin(t) PROVE Balance'
  <2>1. BB = B
    <3>1. stack' = Append(stack, Call("atomic", t))
      BY <1>4 DEF AtomicBegin, Push
    <3>2. Call("atomic", t) \in Frames /\ Call("atomic", t).kind # "batch"
      BY CallType
    <3> QED
      BY <1>b, <3>1, <3>2
  <2>2. /\ t \notin Open /\ tx' = [tx EXCEPT ![t] = "running"]
        /\ batchDepth' = batchDepth + 1 /\ atomicDepth' = atomicDepth + 1
        /\ logs' = Append(logs, NoLog) /\ owners' = Append(owners, t) /\ botched' = botched
    BY <1>4 DEF AtomicBegin, Open
  <2>3. Open' = Open \cup {t}
    BY <1>0, <2>2 DEF Open
  <2>4. IsFiniteSet(Open') /\ Cardinality(Open') = Cardinality(Open) + 1
    BY <1>0, <2>2, <2>3, FS_AddElement
  <2>5. Len(logs') = Len(logs) + 1 /\ Len(owners') = Len(owners) + 1
    <3>1. NoLog \in [Signals -> Values \cup {None}]
      BY DEF NoLog
    <3> QED
      BY <1>0, <2>2, <3>1, AppendFacts DEF TypeOK
  <2> QED
    BY <1>0, <1>00, <1>a, <2>1, <2>2, <2>4, <2>5 DEF TypeOK
\* One transaction less.
<1>d. ASSUME NEW t \in Open, Close(t)
      PROVE  /\ IsFiniteSet(Open') /\ Cardinality(Open') = Cardinality(Open) - 1
             /\ Len(owners') = Len(owners) - 1 /\ ~botched
             /\ logs # <<>> /\ Len(logs) = atomicDepth /\ atomicDepth \in Nat \ {0}
             /\ Len(Front(logs)) = Len(logs) - 1
  <2>1. ~botched /\ t \in Transactions
    BY <1>d DEF Close, Open
  <2>2. /\ logs # <<>> /\ owners # <<>> /\ atomicDepth \in Nat \ {0}
        /\ Len(logs) = atomicDepth
    BY <1>0, <2>1, HasLog
  <2>3. Open' = Open \ {t}
    BY <1>0, <1>d, <2>1 DEF Close, Open
  <2>4. Len(owners') = Len(owners) - 1 /\ Len(Front(logs)) = Len(logs) - 1
    BY <1>0, <1>d, <2>2, FrontFacts DEF Close, TypeOK
  <2> QED
    BY <1>0, <2>1, <2>2, <2>3, <2>4, FS_RemoveElement
<1>e. ASSUME NEW t \in Open, NEW base \in Seq(Frames), Cardinality(Batches(base)) = B,
             NEW a \in {"return", "rethrow", "commit", "sync"}, Commit(t, base, a)
      PROVE  Balance'
  <2>1. /\ Close(t) /\ OutermostFlush(base, a) /\ atomicDepth' = atomicDepth - 1
        /\ batchDepth' = batchDepth - 1 /\ botched' = botched
        /\ logs' = IF atomicDepth > 1 THEN Append(Front(Front(logs)), Merged) ELSE Front(logs)
    BY <1>e DEF Commit
  <2>2. BB = B
    BY <1>c, <1>e, <2>1
  <2>3. Len(logs') = Len(logs) - 1
    <3>1. logs # <<>> /\ Len(logs) = atomicDepth /\ atomicDepth \in Nat \ {0}
          /\ Len(Front(logs)) = Len(logs) - 1
      BY <1>d, <2>1
    <3>2. ASSUME atomicDepth > 1 PROVE Len(Append(Front(Front(logs)), Merged)) = Len(logs) - 1
      <4>1. /\ Front(logs) \in Seq([Signals -> Values \cup {None}]) /\ Front(logs) # <<>>
            /\ Merged \in [Signals -> Values \cup {None}]
            /\ Front(Front(logs)) \in Seq([Signals -> Values \cup {None}])
        BY <1>0, <3>1, <3>2, LogTypes
      <4>2. Len(Front(Front(logs))) = Len(logs) - 2
        <5>1. Len(Front(Front(logs))) = Len(Front(logs)) - 1
          BY <4>1, FrontFacts
        <5> QED
          BY <3>1, <5>1
      <4> QED
        BY <3>1, <4>1, <4>2, AppendFacts
    <3> QED
      BY <2>1, <3>1, <3>2
  <2> QED
    <3>1. /\ IsFiniteSet(Open') /\ Cardinality(Open') = Cardinality(Open) - 1
          /\ Len(owners') = Len(owners) - 1 /\ ~botched
      BY <1>d, <2>1
    <3>2. /\ atomicDepth' = Cardinality(Open') /\ Len(logs') = atomicDepth'
          /\ Len(owners') = atomicDepth' /\ batchDepth' = BB + atomicDepth'
      <4>1. atomicDepth' = atomicDepth - 1 /\ batchDepth' = batchDepth - 1
        BY <2>1
      <4>2. /\ atomicDepth = Cardinality(Open) /\ Len(logs) = atomicDepth
            /\ Len(owners) = atomicDepth /\ batchDepth = B + atomicDepth
        BY <1>00, <3>1
      <4> QED
        BY <1>0, <2>2, <2>3, <3>1, <4>1, <4>2
    <3> QED
      BY <1>a, <3>1, <3>2
<1>f. ASSUME NEW t \in Open, Close(t), Rollback, BB = B, botched' = botched PROVE Balance'
  <2>1. /\ atomicDepth' = atomicDepth - 1 /\ batchDepth' = batchDepth - 1
        /\ logs' = Front(logs)
    BY <1>f DEF Rollback, Undo
  <2> QED
    <3>1. /\ IsFiniteSet(Open') /\ Cardinality(Open') = Cardinality(Open) - 1
          /\ Len(owners') = Len(owners) - 1 /\ ~botched /\ Len(Front(logs)) = Len(logs) - 1
      BY <1>d, <1>f
    <3>2. /\ atomicDepth' = Cardinality(Open') /\ Len(logs') = atomicDepth'
          /\ Len(owners') = atomicDepth' /\ batchDepth' = BB + atomicDepth'
      BY <1>0, <1>00, <1>f, <2>1, <3>1
    <3> QED
      BY <1>a, <3>1, <3>2
<1>g. ASSUME stack # <<>>, Top.kind # "batch"
      PROVE  Front(stack) \in Seq(Frames) /\ Cardinality(Batches(Front(stack))) = B
  BY <1>0, <1>b, <1>g, StackFacts
<1>5. ASSUME AtomicReturn PROVE Balance'
  <2>1. /\ Commit(Top.tx, Front(stack), "commit") /\ Top.tx \in Open
        /\ stack # <<>> /\ Top.kind # "batch"
    BY <1>5, AtomicTop DEF AtomicReturn, TopIs, Inv
  <2> QED
    BY <1>e, <1>g, <2>1
<1>6. ASSUME AtomicReturnPromise PROVE Balance'
  <2>1. /\ stack # <<>> /\ Top.kind # "batch" /\ stack' = Front(stack)
        /\ tx' = [tx EXCEPT ![Top.tx] = "waiting"] /\ TopIs("atomic")
        /\ UNCHANGED <<batchDepth, atomicDepth, logs, owners, botched>>
    BY <1>6 DEF AtomicReturnPromise, TopIs, Pop
  <2>2. Open' = Open
    <3>1. Top.tx \in Transactions /\ Top.tx \in Open
      BY <2>1, AtomicTop DEF Inv
    <3> QED
      BY <1>0, <2>1, <3>1 DEF Open
  <2> QED
    BY <1>0, <1>00, <1>a, <1>g, <2>1, <2>2
<1>7. ASSUME AtomicThrow PROVE Balance'
  <2>1. /\ Close(Top.tx) /\ Rollback /\ Top.tx \in Open /\ botched' = botched
        /\ stack # <<>> /\ Top.kind # "batch" /\ stack' = Front(stack)
    BY <1>7, AtomicTop DEF AtomicThrow, TopIs, Inv, Pop
  <2> QED
    BY <1>f, <1>g, <2>1
<1>8. ASSUME NEW t \in Transactions, AtomicResolved(t) PROVE Balance'
  <2>1. t \in Open /\ Commit(t, stack, "return")
    BY <1>8 DEF AtomicResolved, Open
  <2> QED
    BY <1>0, <1>e, <2>1
<1>9. ASSUME NEW t \in Transactions, AtomicRejected(t) PROVE Balance'
  <2>1. t \in Open /\ Close(t) /\ Rollback /\ stack' = stack /\ botched' = botched
    BY <1>9 DEF AtomicRejected, Open
  <2> QED
    BY <1>f, <2>1
<1>10. ASSUME UnwindCommit PROVE Balance'
  <2>1. tx' = tx /\ botched'
    BY <1>10 DEF UnwindCommit
  <2>2. Open' = Open
    BY <2>1 DEF Open
  <2> QED
    BY <1>0, <1>a, <2>1, <2>2
<1> QED
  BY <1>1, <1>2, <1>3, <1>4, <1>5, <1>6, <1>7, <1>8, <1>9, <1>10
     DEF Next, UserStep, RuntimeStep, QuietActions

LEMMA InitInv == Init => Inv
<1> SUFFICES ASSUME Init PROVE Inv
  OBVIOUS
<1>1. stack = <<>> /\ logs = <<>> /\ owners = <<>> /\ batchDepth = 0 /\ atomicDepth = 0
  BY DEF Init
<1>2. Open = {} /\ OpenBatches = {}
  BY <1>1 DEF Init, Open, OpenBatches
<1>3. FramesOpen
  BY <1>1 DEF FramesOpen, OpenOn
<1>4. Balance
  BY <1>1, <1>2, FS_EmptySet DEF Balance
<1> QED
  BY <1>3, <1>4, InitTypeOK DEF Inv

LEMMA NextInv == Inv /\ [Next]_vars => Inv'
BY NextTypeOK, NextFramesOpen, NextBalance DEF Inv

\* Everything keeps its type, whatever the jobs, values and transactions are.
THEOREM SchedulerTypeCorrect == Spec => []TypeOK
<1>1. Inv => TypeOK
  BY DEF Inv
<1> QED
  BY <1>1, InitInv, NextInv, PTL DEF Spec

\* batchDepth and atomicDepth count what is open, and every open transaction
\* has one log (scheduler.ts: batch, atomic), until the flush of a commit throws.
THEOREM SchedulerDepthsAgree == Spec => []DepthsAgree
<1>1. Inv => DepthsAgree
  BY DEF Inv, Balance, DepthsAgree
<1> QED
  BY <1>1, InitInv, NextInv, PTL DEF Spec

-----------------------------------------------------------------------------
(* No flush inside a batch or a transaction *)

Nested(st) ==
  \A i \in 1..Len(st) : st[i].kind = "flush" /\ st[i].after # "sync"
    => \A j \in 1..(i - 1) : st[j].kind \notin {"batch", "atomic"}

LEMMA NestedAppend ==
  ASSUME NEW st \in Seq(Frames), Nested(st), NEW f \in Frames,
         f.kind = "flush" /\ f.after # "sync" =>
           \A j \in 1..Len(st) : st[j].kind \notin {"batch", "atomic"}
  PROVE  Nested(Append(st, f))
<1> DEFINE ap == Append(st, f)
<1>1. /\ Len(st) \in Nat /\ Len(ap) = Len(st) + 1 /\ ap[Len(st) + 1] = f
      /\ \A i \in 1..Len(st) : ap[i] = st[i]
  BY AppendFacts
<1> HIDE DEF ap
<1>2. ASSUME NEW i \in 1..(Len(st) + 1), ap[i].kind = "flush", ap[i].after # "sync",
             NEW j \in 1..(i - 1)
      PROVE  ap[j].kind \notin {"batch", "atomic"}
  <2>1. j \in 1..Len(st) /\ ap[j] = st[j]
    BY <1>1
  <2>2. CASE i = Len(st) + 1
    BY <1>1, <1>2, <2>1, <2>2
  <2>3. CASE i # Len(st) + 1
    <3>1. i \in 1..Len(st) /\ ap[i] = st[i]
      BY <1>1, <2>3
    <3> QED
      BY <1>2, <2>1, <3>1 DEF Nested
  <2> QED
    BY <2>2, <2>3
<1>3. Nested(ap)
  BY <1>1, <1>2 DEF Nested
<1> QED
  BY <1>3 DEF ap

LEMMA NestedFront ==
  ASSUME NEW st \in Seq(Frames), st # <<>>, Nested(st)
  PROVE  Nested(Front(st))
<1>1. /\ Len(st) \in Nat \ {0} /\ Len(Front(st)) = Len(st) - 1
      /\ \A i \in 1..(Len(st) - 1) : Front(st)[i] = st[i]
  BY FrontFacts
<1>2. ASSUME NEW i \in 1..(Len(st) - 1), Front(st)[i].kind = "flush",
             Front(st)[i].after # "sync", NEW j \in 1..(i - 1)
      PROVE  Front(st)[j].kind \notin {"batch", "atomic"}
  <2>1. i \in 1..Len(st) /\ j \in 1..(Len(st) - 1) /\ Front(st)[i] = st[i] /\ Front(st)[j] = st[j]
    BY <1>1
  <2> QED
    BY <1>2, <2>1 DEF Nested
<1> QED
  BY <1>1, <1>2 DEF Nested

\* A flush that is replaced by the same flush is under the same calls.
LEMMA NestedReplace ==
  ASSUME NEW st \in Seq(Frames), st # <<>>, Nested(st), NEW f \in Frames,
         f.kind = "flush", st[Len(st)].kind = "flush", f.after = st[Len(st)].after
  PROVE  Nested(Append(Front(st), f)) /\ Append(Front(st), f) \in Seq(Frames)
<1>1. /\ Len(st) \in Nat \ {0} /\ Len(Front(st)) = Len(st) - 1 /\ Front(st) \in Seq(Frames)
      /\ \A i \in 1..(Len(st) - 1) : Front(st)[i] = st[i]
  BY FrontFacts
<1>2. Nested(Front(st))
  BY NestedFront
<1>3. f.after # "sync" => \A j \in 1..Len(Front(st)) : Front(st)[j].kind \notin {"batch", "atomic"}
  <2>1. Len(st) \in 1..Len(st)
    BY <1>1
  <2> QED
    BY <1>1, <2>1 DEF Nested
<1> QED
  BY <1>1, <1>2, <1>3, NestedAppend, AppendFacts

LEMMA QuietNested == ASSUME TypeOK, Nested(stack), QuietStack PROVE Nested(stack')
<1>0. /\ stack \in Seq(Frames)
      /\ stack # <<>> => Top = stack[Len(stack)] /\ Top \in Frames
  BY StackFacts DEF TypeOK
<1>1. CASE stack' = stack
  BY <1>1
<1>2. ASSUME NEW f \in Frames,
             f.kind = "job" \/ (f.kind = "flush" /\ (f.after = "sync" \/ stack = <<>>)),
             stack' = Append(stack, f)
      PROVE  Nested(stack')
  <2>1. f.kind = "flush" /\ f.after # "sync" =>
          \A j \in 1..Len(stack) : stack[j].kind \notin {"batch", "atomic"}
    BY <1>2
  <2> QED
    BY <1>0, <1>2, <2>1, NestedAppend
<1>3. CASE stack # <<>> /\ stack' = Front(stack)
  BY <1>0, <1>3, NestedFront
<1>4. ASSUME stack # <<>>, Top.kind = "flush", NEW f \in Frames, f.kind = "flush",
             f.after = Top.after
      PROVE  Nested(Append(Front(stack), f)) /\ Append(Front(stack), f) \in Seq(Frames)
  BY <1>0, <1>4, NestedReplace
<1>5. ASSUME stack # <<>>, Top.kind = "flush", NEW f \in Frames, f.kind = "flush",
             f.after = Top.after, NEW g \in Frames, g.kind = "job"
      PROVE  Nested(Append(Append(Front(stack), f), g))
  <2> DEFINE h == Append(Front(stack), f)
  <2>1. Nested(h) /\ h \in Seq(Frames) /\ g.kind # "flush"
    BY <1>4, <1>5
  <2> HIDE DEF h
  <2>2. Nested(Append(h, g))
    BY <2>1, NestedAppend
  <2> QED
    BY <2>2 DEF h
<1> QED
  BY <1>1, <1>2, <1>3, <1>4, <1>5, Zenon DEF QuietStack

\* When the outermost call ends, nothing of the stack below it is open.
LEMMA OutermostAlone ==
  ASSUME Inv, ~botched, batchDepth = 1, stack # <<>>, Top.kind \in {"batch", "atomic"}
  PROVE  \A j \in 1..Len(Front(stack)) : Front(stack)[j].kind \notin {"batch", "atomic"}
<1>0. /\ TypeOK /\ FramesOpen /\ stack \in Seq(Frames) /\ Front(stack) \in Seq(Frames)
      /\ Len(stack) \in Nat \ {0} /\ Len(Front(stack)) = Len(stack) - 1 /\ Top = stack[Len(stack)]
      /\ \A i \in 1..(Len(stack) - 1) : Front(stack)[i] = stack[i] /\ i \in 1..Len(stack)
  BY StackFacts DEF Inv, TypeOK
<1>1. /\ Cardinality(Batches(stack)) + Cardinality(Open) = 1 /\ IsFiniteSet(Open)
      /\ Cardinality(Batches(stack)) \in Nat /\ Cardinality(Open) \in Nat
      /\ IsFiniteSet(Batches(Front(stack)))
  BY <1>0, BatchesOpen, BatchesFinite, FS_CardinalityType DEF Inv, Balance
<1>2. Cardinality(Batches(Front(stack))) = 0
      /\ (\A j \in 1..Len(Front(stack)) : Front(stack)[j].kind # "atomic")
  <2>1. CASE Top.kind = "batch"
    <3>1. Cardinality(Batches(Front(stack))) = Cardinality(Batches(stack)) - 1
      BY <1>0, <2>1, BatchesFront
    <3>2. Cardinality(Batches(Front(stack))) \in Nat
      BY <1>0, BatchesFinite
    <3>3. Cardinality(Open) = 0 /\ Cardinality(Batches(Front(stack))) = 0
      BY <1>1, <3>1, <3>2
    <3>4. Open = {}
      BY <1>1, <3>3, FS_EmptySet
    <3>5. \A j \in 1..Len(Front(stack)) : Front(stack)[j].kind # "atomic"
      BY <1>0, <3>4 DEF FramesOpen, OpenOn, Open
    <3> QED
      BY <3>3, <3>5
  <2>2. CASE Top.kind = "atomic"
    <3>1. Top.tx \in Open
      BY <1>0, <2>2, AtomicTop DEF TopIs
    <3>2. Cardinality(Open) = 1 /\ Cardinality(Batches(stack)) = 0
      <4>1. Cardinality(Open) # 0
        BY <1>1, <3>1, FS_EmptySet
      <4> QED
        BY <1>1, <4>1
    <3>3. Cardinality(Batches(Front(stack))) = 0
      BY <1>0, <2>2, <3>2, BatchesFront
    <3>4. Open \ {Top.tx} = {}
      <4>1. IsFiniteSet(Open \ {Top.tx}) /\ Cardinality(Open \ {Top.tx}) = 0
        BY <1>1, <3>1, <3>2, FS_RemoveElement
      <4> QED
        BY <4>1, FS_EmptySet
    <3>5. ASSUME NEW j \in 1..Len(Front(stack)), Front(stack)[j].kind = "atomic" PROVE FALSE
      <4>1. Front(stack)[j].tx \in Open
        BY <1>0, <3>5 DEF FramesOpen, OpenOn, Open
      <4>2. Front(stack)[j].tx = Top.tx
        BY <3>4, <4>1
      <4> QED
        BY <1>0, <2>2, <3>5, <4>2, OnceOnStack DEF TopIs
    <3> QED
      BY <3>3, <3>5
  <2> QED
    BY <2>1, <2>2
<1>3. Batches(Front(stack)) = {}
  BY <1>1, <1>2, FS_EmptySet
<1> QED
  BY <1>2, <1>3 DEF Batches

LEMMA NextNested == Inv /\ Inv' /\ (~botched => Nested(stack)) /\ [Next]_vars
                      => (~botched' => Nested(stack'))
<1> SUFFICES ASSUME Inv, Inv', ~botched => Nested(stack), [Next]_vars, ~botched'
             PROVE  Nested(stack')
  OBVIOUS
<1>0. TypeOK /\ FramesOpen /\ stack \in Seq(Frames)
  BY DEF Inv, TypeOK
<1>1. ASSUME QuietActions PROVE Nested(stack')
  BY <1>0, <1>1, QuietSteps, QuietNested DEF Quiet
<1>2. ASSUME ~botched, NEW f \in Frames, f.kind # "flush", stack' = Append(stack, f)
      PROVE  Nested(stack')
  BY <1>0, <1>2, NestedAppend
<1>3. ASSUME BatchBegin PROVE Nested(stack')
  BY <1>2, <1>3, CallType DEF BatchBegin, Push
<1>4. ASSUME NEW t \in Transactions, AtomicBegin(t) PROVE Nested(stack')
  BY <1>2, <1>4, CallType DEF AtomicBegin, Push
<1>5. ASSUME ~botched, stack # <<>>
      PROVE  Front(stack) \in Seq(Frames) /\ Nested(Front(stack))
  BY <1>0, <1>5, NestedFront, FrontFacts
<1>6. ASSUME ~botched, NEW a \in {"return", "rethrow", "commit", "sync"},
             stack # <<>>, Top.kind \in {"batch", "atomic"}, OutermostFlush(Front(stack), a)
      PROVE  Nested(stack')
  <2>1. CASE batchDepth = 1
    <3>1. FlushCall(a) \in Frames /\ stack' = Append(Front(stack), FlushCall(a))
      BY <1>6, <2>1, FlushCallType DEF OutermostFlush
    <3>2. \A j \in 1..Len(Front(stack)) : Front(stack)[j].kind \notin {"batch", "atomic"}
      BY <1>6, <2>1, OutermostAlone
    <3> QED
      BY <1>5, <1>6, <3>1, <3>2, NestedAppend
  <2>2. CASE batchDepth # 1
    BY <1>5, <1>6, <2>2 DEF OutermostFlush
  <2> QED
    BY <2>1, <2>2
<1>7. ASSUME BatchEnd PROVE Nested(stack')
  <2>1. /\ ~botched /\ stack # <<>> /\ Top.kind \in {"batch", "atomic"}
        /\ OutermostFlush(Front(stack), IF raised THEN "rethrow" ELSE "return")
    BY <1>7 DEF BatchEnd, TopIs
  <2>2. (IF raised THEN "rethrow" ELSE "return") \in {"return", "rethrow", "commit", "sync"}
    OBVIOUS
  <2> QED
    BY <1>6, <2>1, <2>2
<1>8. ASSUME AtomicReturn PROVE Nested(stack')
  BY <1>6, <1>8 DEF AtomicReturn, Commit, Close, TopIs
<1>9. ASSUME AtomicReturnPromise \/ AtomicThrow PROVE Nested(stack')
  BY <1>5, <1>9 DEF AtomicReturnPromise, AtomicThrow, Pop, TopIs
<1>10. ASSUME NEW t \in Transactions, AtomicResolved(t) PROVE Nested(stack')
  <2>1. stack = <<>> /\ OutermostFlush(stack, "return")
    BY <1>10 DEF AtomicResolved, Commit, Idle
  <2>2. /\ FlushCall("return") \in Frames /\ Nested(stack)
        /\ \A j \in 1..Len(stack) : stack[j].kind \notin {"batch", "atomic"}
    BY <2>1, FlushCallType DEF Nested
  <2>3. Nested(Append(stack, FlushCall("return")))
    BY <1>0, <2>1, <2>2, NestedAppend
  <2> QED
    BY <2>1, <2>2, <2>3, Zenon DEF OutermostFlush
<1>11. ASSUME NEW t \in Transactions, AtomicRejected(t) PROVE Nested(stack')
  BY <1>11 DEF AtomicRejected, Idle, Nested
<1>12. ~UnwindCommit
  BY DEF UnwindCommit
<1> QED
  BY <1>1, <1>3, <1>4, <1>7, <1>8, <1>9, <1>10, <1>11, <1>12
     DEF Next, UserStep, RuntimeStep, QuietActions

\* scheduler.ts: batch, atomic, flushSync.  A flush that nobody asked for by
\* name has no open batch and no open transaction below it.
THEOREM SchedulerNoFlushInsideCalls == Spec => []NoFlushInsideCalls
<1> DEFINE I == Inv /\ (~botched => Nested(stack))
<1>1. Init => I
  BY InitInv DEF Init, Nested
<1>2. I /\ [Next]_vars => I'
  BY NextInv, NextNested
<1>3. I => NoFlushInsideCalls
  <2>1. TypeOK => DOMAIN stack = 1..Len(stack)
    BY DEF TypeOK
  <2> QED
    BY <2>1 DEF Inv, Nested, NoFlushInsideCalls
<1> QED
  BY <1>1, <1>2, <1>3, PTL DEF Spec

-----------------------------------------------------------------------------
(* No job is lost *)

\* A flush that is busy with computed jobs has taken no effects yet.
PhaseOn(st) ==
  \A i \in 1..Len(st) : st[i].kind = "flush" /\ st[i].phase = "compute" => st[i].todo = {}

TakenIn(st, e) == \E i \in 1..Len(st) : st[i].kind = "flush" /\ e \in st[i].todo

LostInv ==
  /\ PhaseOn(stack)
  /\ \A e \in owed : e \in effectQ \/ TakenIn(stack, e) \/ e \in lost

LEMMA LostAppend ==
  ASSUME NEW st \in Seq(Frames), PhaseOn(st), NEW f \in Frames,
         f.kind = "flush" /\ f.phase = "compute" => f.todo = {}
  PROVE  /\ PhaseOn(Append(st, f))
         /\ \A e : TakenIn(st, e) \/ (f.kind = "flush" /\ e \in f.todo) => TakenIn(Append(st, f), e)
<1> DEFINE ap == Append(st, f)
<1>1. /\ Len(st) \in Nat /\ Len(ap) = Len(st) + 1 /\ ap[Len(st) + 1] = f
      /\ \A i \in 1..Len(st) : ap[i] = st[i]
  BY AppendFacts
<1> HIDE DEF ap
<1>2. /\ \A i \in 1..(Len(st) + 1) : i \in 1..Len(st) \/ i = Len(st) + 1
      /\ \A i \in 1..Len(st) : i \in 1..(Len(st) + 1)
      /\ Len(st) + 1 \in 1..(Len(st) + 1)
  BY <1>1
<1>3. PhaseOn(ap)
  BY <1>1, <1>2 DEF PhaseOn
<1>4. ASSUME NEW e, TakenIn(st, e) \/ (f.kind = "flush" /\ e \in f.todo) PROVE TakenIn(ap, e)
  <2>1. CASE TakenIn(st, e)
    BY <1>1, <1>2, <2>1 DEF TakenIn
  <2>2. CASE f.kind = "flush" /\ e \in f.todo
    BY <1>1, <1>2, <2>2 DEF TakenIn
  <2> QED
    BY <1>4, <2>1, <2>2
<1> QED
  BY <1>3, <1>4 DEF ap

LEMMA LostFront ==
  ASSUME NEW st \in Seq(Frames), st # <<>>, PhaseOn(st)
  PROVE  /\ PhaseOn(Front(st)) /\ Front(st) \in Seq(Frames)
         /\ \A e : TakenIn(st, e) =>
              TakenIn(Front(st), e) \/ (st[Len(st)].kind = "flush" /\ e \in st[Len(st)].todo)
<1>1. /\ Len(st) \in Nat \ {0} /\ Len(Front(st)) = Len(st) - 1 /\ Front(st) \in Seq(Frames)
      /\ \A i \in 1..(Len(st) - 1) : Front(st)[i] = st[i]
  BY FrontFacts
<1>2. /\ \A i \in 1..Len(st) : i \in 1..(Len(st) - 1) \/ i = Len(st)
      /\ \A i \in 1..(Len(st) - 1) : i \in 1..Len(st)
  BY <1>1
<1>3. PhaseOn(Front(st))
  BY <1>1, <1>2 DEF PhaseOn
<1>4. ASSUME NEW e, TakenIn(st, e)
      PROVE  TakenIn(Front(st), e) \/ (st[Len(st)].kind = "flush" /\ e \in st[Len(st)].todo)
  <2>1. PICK i \in 1..Len(st) : st[i].kind = "flush" /\ e \in st[i].todo
    BY <1>4 DEF TakenIn
  <2>2. CASE i \in 1..(Len(st) - 1)
    BY <1>1, <2>1, <2>2 DEF TakenIn
  <2>3. CASE i = Len(st)
    BY <2>1, <2>3
  <2> QED
    BY <1>2, <2>2, <2>3
<1> QED
  BY <1>1, <1>3, <1>4

LEMMA NextLost == TypeOK /\ LostInv /\ [Next]_vars => LostInv'
<1> SUFFICES ASSUME TypeOK, LostInv, [Next]_vars PROVE LostInv'
  OBVIOUS
<1> USE DEF queueVars, txVars
<1>0. /\ stack \in Seq(Frames) /\ PhaseOn(stack)
      /\ \A e \in owed : e \in effectQ \/ TakenIn(stack, e) \/ e \in lost
  BY DEF TypeOK, LostInv
\* The stack grows by a call that has taken nothing.
<1>a. ASSUME NEW f \in Frames, f.kind = "flush" => f.todo = {}, stack' = Append(stack, f),
             UNCHANGED <<effectQ, owed, lost>>
      PROVE  LostInv'
  BY <1>0, <1>a, LostAppend DEF LostInv
\* A call that is not a flush ends; its effects may go to lost.
<1>b. ASSUME stack # <<>>, Top.kind # "flush"
      PROVE  /\ PhaseOn(Front(stack)) /\ Front(stack) \in Seq(Frames)
             /\ \A e : TakenIn(stack, e) => TakenIn(Front(stack), e)
  BY <1>0, <1>b, LostFront, StackFacts
<1>c. ASSUME NEW base \in Seq(Frames), PhaseOn(base),
             \A e : TakenIn(stack, e) => TakenIn(base, e),
             NEW a \in {"return", "rethrow", "commit", "sync"}, OutermostFlush(base, a),
             UNCHANGED <<effectQ, owed, lost>>
      PROVE  LostInv'
  <2>1. /\ FlushCall(a) \in Frames
        /\ FlushCall(a).kind = "flush" /\ FlushCall(a).phase = "compute" => FlushCall(a).todo = {}
    BY FlushCallType
  <2>2. /\ PhaseOn(Append(base, FlushCall(a)))
        /\ \A e : TakenIn(base, e) => TakenIn(Append(base, FlushCall(a)), e)
    BY <1>c, <2>1, LostAppend
  <2>3. PhaseOn(stack') /\ \A e : TakenIn(base, e) => TakenIn(stack', e)
    BY <1>c, <2>2, Zenon DEF OutermostFlush
  <2> QED
    BY <1>0, <1>c, <2>3 DEF LostInv
<1>1. ASSUME \/ \E e \in EffectJobs : ScheduleEffect(e)
             \/ \E s \in Signals, v \in Values : SetSignal(s, v)
      PROVE  LostInv'
  <2>1. stack' = stack /\ \E E : ScheduleEffects(E)
    BY <1>1 DEF ScheduleEffect, SetSignal
  <2> QED
    BY <1>0, <2>1 DEF LostInv, ScheduleEffects
<1>2. ASSUME \/ \E c \in ComputedJobs : ScheduleComputed(c)
             \/ Throw \/ Catch \/ FlushGiveUp \/ UNCHANGED vars
      PROVE  LostInv'
  <2>1. UNCHANGED <<stack, effectQ, owed, lost>>
    BY <1>2 DEF ScheduleComputed, Throw, Catch, FlushGiveUp, vars
  <2> QED
    BY <1>0, <2>1 DEF LostInv
<1>3. ASSUME \/ BatchBegin \/ FlushRunComputed \/ FlushSync \/ MicrotaskFlush
             \/ \E t \in Transactions : AtomicBegin(t)
      PROVE  LostInv'
  <2>1. PICK f \in Frames : (f.kind = "flush" => f.todo = {}) /\ stack' = Append(stack, f)
    BY <1>3, CallType, FlushCallType
       DEF BatchBegin, FlushRunComputed, FlushSync, MicrotaskFlush, AtomicBegin, Push
  <2>2. UNCHANGED <<effectQ, owed, lost>>
    BY <1>3 DEF BatchBegin, FlushRunComputed, FlushSync, MicrotaskFlush, AtomicBegin
  <2> QED
    BY <1>a, <2>1, <2>2
<1>4. ASSUME BatchEnd PROVE LostInv'
  <2>1. /\ stack # <<>> /\ Top.kind # "flush" /\ UNCHANGED <<effectQ, owed, lost>>
        /\ OutermostFlush(Front(stack), IF raised THEN "rethrow" ELSE "return")
    BY <1>4 DEF BatchEnd, TopIs
  <2>2. (IF raised THEN "rethrow" ELSE "return") \in {"return", "rethrow", "commit", "sync"}
    OBVIOUS
  <2> QED
    BY <1>b, <1>c, <2>1, <2>2
<1>5. ASSUME AtomicReturn PROVE LostInv'
  <2>1. /\ stack # <<>> /\ Top.kind # "flush" /\ UNCHANGED <<effectQ, owed, lost>>
        /\ OutermostFlush(Front(stack), "commit")
    BY <1>5 DEF AtomicReturn, Commit, TopIs
  <2> QED
    BY <1>b, <1>c, <2>1
<1>6. ASSUME NEW t \in Transactions, AtomicResolved(t) PROVE LostInv'
  <2>1. UNCHANGED <<effectQ, owed, lost>> /\ OutermostFlush(stack, "return")
    BY <1>6 DEF AtomicResolved, Commit
  <2> QED
    BY <1>0, <1>c, <2>1
<1>7. ASSUME AtomicReturnPromise \/ JobReturn \/ UnwindJob PROVE LostInv'
  <2>1. /\ stack # <<>> /\ Top.kind # "flush" /\ UNCHANGED <<effectQ, owed, lost>>
        /\ stack' = Front(stack)
    BY <1>7 DEF AtomicReturnPromise, JobReturn, UnwindJob, TopIs, Pop
  <2> QED
    BY <1>0, <1>b, <2>1 DEF LostInv
\* A rollback throws away what waits.
<1>8. ASSUME AtomicThrow PROVE LostInv'
  <2>1. /\ stack # <<>> /\ Top.kind # "flush" /\ stack' = Front(stack)
        /\ owed' = owed /\ lost' = lost \cup effectQ
    BY <1>8 DEF AtomicThrow, Rollback, TopIs, Pop
  <2> QED
    BY <1>0, <1>b, <2>1 DEF LostInv
<1>9. ASSUME NEW t \in Transactions, AtomicRejected(t) PROVE LostInv'
  <2>1. stack' = stack /\ owed' = owed /\ lost' = lost \cup effectQ
    BY <1>9 DEF AtomicRejected, Rollback
  <2> QED
    BY <1>0, <2>1 DEF LostInv
\* The flush on top of the stack, without it and with what takes its place.
<1>d. ASSUME TopIs("flush")
      PROVE  /\ stack # <<>> /\ Top \in Frames /\ Top.kind = "flush"
             /\ Top.todo \in SUBSET EffectJobs /\ Top.loops \in 0..MaxLoops
             /\ Top.phase = "compute" => Top.todo = {}
             /\ PhaseOn(Front(stack)) /\ Front(stack) \in Seq(Frames)
             /\ \A e : TakenIn(stack, e) => TakenIn(Front(stack), e) \/ e \in Top.todo
  <2>1. /\ stack # <<>> /\ Top \in Frames /\ Top.kind = "flush" /\ Top = stack[Len(stack)]
        /\ Len(stack) \in 1..Len(stack)
    BY <1>d, StackFacts DEF TopIs
  <2>2. Top.phase = "compute" => Top.todo = {}
    BY <1>0, <2>1 DEF PhaseOn
  <2>3. /\ PhaseOn(Front(stack)) /\ Front(stack) \in Seq(Frames)
        /\ \A e : TakenIn(stack, e) => TakenIn(Front(stack), e) \/ e \in Top.todo
    BY <1>0, <2>1, LostFront
  <2> QED
    BY <2>1, <2>2, <2>3, FlushFrame
<1>10. ASSUME FlushRound PROVE LostInv'
  <2> DEFINE f == [Top EXCEPT !.phase = "compute", !.loops = @ + 1]
  <2>1. /\ TopIs("flush") /\ Top.loops < MaxLoops /\ Top.todo = {}
        /\ stack' = Append(Front(stack), f) /\ UNCHANGED <<effectQ, owed, lost>>
    BY <1>10 DEF FlushRound, RoundOver, Flushing, ReplaceTop
  <2>2. Top.loops + 1 \in 0..MaxLoops
    BY <1>d, <2>1, BoundsAssumption
  <2>3. f \in Frames /\ f.todo = {}
    BY <1>d, <2>1, <2>2, FlushFrame DEF Frames
  <2> HIDE DEF f
  <2>4. PhaseOn(stack') /\ \A e : TakenIn(Front(stack), e) => TakenIn(stack', e)
    BY <1>d, <2>1, <2>3, LostAppend
  <2> QED
    BY <1>0, <1>d, <2>1, <2>4 DEF LostInv
<1>11. ASSUME FlushTakeEffects PROVE LostInv'
  <2> DEFINE f == [Top EXCEPT !.phase = "effects", !.todo = effectQ]
  <2>1. /\ TopIs("flush") /\ Top.phase = "compute"
        /\ stack' = Append(Front(stack), f) /\ UNCHANGED <<owed, lost>>
    BY <1>11 DEF FlushTakeEffects, Flushing, ReplaceTop
  <2>2. f \in Frames /\ f.kind = "flush" /\ f.phase = "effects" /\ f.todo = effectQ
    BY <1>d, <2>1, FlushFrame DEF Frames, TypeOK
  <2> HIDE DEF f
  <2>3. /\ PhaseOn(stack')
        /\ \A e : TakenIn(Front(stack), e) \/ e \in effectQ => TakenIn(stack', e)
    BY <1>d, <2>1, <2>2, LostAppend
  <2> QED
    BY <1>0, <1>d, <2>1, <2>3 DEF LostInv
<1>12. ASSUME NEW e \in EffectJobs, FlushRunEffect(e) PROVE LostInv'
  <2> DEFINE f == [Top EXCEPT !.todo = @ \ {e}]
             g == Call("job", None)
  <2>1. /\ TopIs("flush") /\ Top.phase = "effects"
        /\ stack' = Append(Append(Front(stack), f), g)
        /\ effectQ' = effectQ /\ owed' = owed \ {e} /\ lost' = lost \ ({e} \ effectQ)
    BY <1>12 DEF FlushRunEffect, Flushing
  <2>2. /\ f \in Frames /\ f.kind = "flush" /\ f.phase = "effects" /\ f.todo = Top.todo \ {e}
        /\ g \in Frames /\ g.kind = "job"
    BY <1>d, <2>1, FlushFrame, CallType DEF Frames
  <2> HIDE DEF f, g
  <2> DEFINE h == Append(Front(stack), f)
  <2>3. /\ PhaseOn(h) /\ h \in Seq(Frames)
        /\ \A d : TakenIn(Front(stack), d) \/ d \in Top.todo \ {e} => TakenIn(h, d)
    BY <1>d, <2>1, <2>2, LostAppend, AppendFacts
  <2> HIDE DEF h
  <2>4. PhaseOn(Append(h, g)) /\ \A d : TakenIn(h, d) => TakenIn(Append(h, g), d)
    BY <2>2, <2>3, LostAppend
  <2>5. PhaseOn(stack') /\ \A d : TakenIn(h, d) => TakenIn(stack', d)
    BY <2>1, <2>4 DEF h
  <2> QED
    BY <1>0, <1>d, <2>1, <2>3, <2>5 DEF LostInv
<1>13. ASSUME FlushDone PROVE LostInv'
  <2>1. /\ TopIs("flush") /\ Top.todo = {} /\ stack' = Front(stack)
        /\ UNCHANGED <<effectQ, owed, lost>>
    BY <1>13 DEF FlushDone, RoundOver, Flushing, Pop
  <2> QED
    BY <1>0, <1>d, <2>1 DEF LostInv
<1>14. ASSUME UnwindFlush PROVE LostInv'
  <2>1. /\ TopIs("flush") /\ stack' = Front(stack) /\ lost' = lost \cup LeftBehind
        /\ UNCHANGED <<effectQ, owed>> /\ Top.todo \subseteq LeftBehind
    BY <1>14 DEF UnwindFlush, LeftBehind, Pop
  <2> QED
    BY <1>0, <1>d, <2>1 DEF LostInv
<1>15. ASSUME UnwindCommit PROVE LostInv'
  <2>1. TopIs("flush") /\ stack' = Front(stack) /\ owed' = owed
    BY <1>15 DEF UnwindCommit, Pop
  <2>2. CASE logs = <<>>
    BY <1>0, <1>15, <1>d, <2>1, <2>2 DEF LostInv, UnwindCommit, LeftBehind
  <2>3. CASE logs # <<>>
    <3>1. lost' = lost \cup Top.todo \cup effectQ
      BY <1>15, <2>3 DEF UnwindCommit
    <3> QED
      BY <1>0, <1>d, <2>1, <3>1 DEF LostInv
  <2> QED
    BY <2>2, <2>3
<1> QED
  BY <1>1, <1>2, <1>3, <1>4, <1>5, <1>6, <1>7, <1>8, <1>9, <1>10, <1>11, <1>12, <1>13, <1>14,
     <1>15 DEF Next, UserStep, RuntimeStep

\* scheduleJob and flushJobsTwoPhase: a scheduled effect job waits, or has
\* been taken by a flush, until it runs, unless a rollback or an exception
\* has thrown it away.
THEOREM SchedulerNoLostJob == Spec => []NoLostJob
<1>1. Init => LostInv
  BY DEF Init, LostInv, PhaseOn
<1>2. TypeOK /\ LostInv => NoLostJob
  <2> SUFFICES ASSUME TypeOK, LostInv PROVE NoLostJob
    OBVIOUS
  <2>1. DOMAIN stack = 1..Len(stack)
    BY DEF TypeOK
  <2>2. \A e : TakenIn(stack, e) => e \in Taken
    BY <2>1 DEF TakenIn, Taken
  <2> QED
    BY <2>2 DEF LostInv, NoLostJob
<1> QED
  BY <1>1, <1>2, NextLost, SchedulerTypeCorrect, PTL DEF Spec

-----------------------------------------------------------------------------
(* No job is stranded *)

\* A flush in its first round, which has just begun, is the innermost call.
NewFlush(f) == f.kind = "flush" /\ f.loops = 0
NewOnTop(st, r) ==
  \A i \in 1..Len(st) : NewFlush(st[i]) =>
    i = Len(st) /\ st[i].phase = "effects" /\ st[i].todo = {} /\ ~r
NoneNew(st) == \A i \in 1..Len(st) : ~NewFlush(st[i])

\* A flush that is going to take the effects that wait.
ToTake(f) == f.kind = "flush" /\ (f.phase = "compute" \/ f.loops = 0)
Coming(st) == \E i \in 1..Len(st) : ToTake(st[i])

WaitInv ==
  /\ scheduled => ticks > 0
  /\ NewOnTop(stack, raised)
  /\ ~botched /\ effectQ \ lost # {} => ticks > 0 \/ batchDepth > 0 \/ Coming(stack)

LEMMA NoneNewOnTop == ASSUME NEW st, NEW r, NoneNew(st) PROVE NewOnTop(st, r)
BY DEF NoneNew, NewOnTop

LEMMA WaitAppend ==
  ASSUME NEW st \in Seq(Frames), NoneNew(st), NEW f \in Frames
  PROVE  /\ ~NewFlush(f) => NoneNew(Append(st, f))
         /\ \A r : (NewFlush(f) => f.phase = "effects" /\ f.todo = {} /\ ~r)
                     => NewOnTop(Append(st, f), r)
         /\ Coming(st) \/ ToTake(f) => Coming(Append(st, f))
<1> DEFINE ap == Append(st, f)
<1>1. /\ Len(st) \in Nat /\ Len(ap) = Len(st) + 1 /\ ap[Len(st) + 1] = f
      /\ \A i \in 1..Len(st) : ap[i] = st[i]
  BY AppendFacts
<1> HIDE DEF ap
<1>2. /\ \A i \in 1..(Len(st) + 1) : i \in 1..Len(st) \/ i = Len(st) + 1
      /\ \A i \in 1..Len(st) : i \in 1..(Len(st) + 1)
      /\ Len(st) + 1 \in 1..(Len(st) + 1)
  BY <1>1
<1>3. ~NewFlush(f) => NoneNew(ap)
  BY <1>1, <1>2 DEF NoneNew
<1>4. \A r : (NewFlush(f) => f.phase = "effects" /\ f.todo = {} /\ ~r) => NewOnTop(ap, r)
  BY <1>1, <1>2 DEF NoneNew, NewOnTop
<1>5. Coming(st) \/ ToTake(f) => Coming(ap)
  BY <1>1, <1>2 DEF Coming
<1> QED
  BY <1>3, <1>4, <1>5 DEF ap

LEMMA WaitFront ==
  ASSUME NEW st \in Seq(Frames), st # <<>>, NEW r, NewOnTop(st, r)
  PROVE  /\ NoneNew(Front(st)) /\ Front(st) \in Seq(Frames)
         /\ Coming(st) => Coming(Front(st)) \/ ToTake(st[Len(st)])
         /\ ~NewFlush(st[Len(st)]) => NoneNew(st)
<1>1. /\ Len(st) \in Nat \ {0} /\ Len(Front(st)) = Len(st) - 1 /\ Front(st) \in Seq(Frames)
      /\ \A i \in 1..(Len(st) - 1) : Front(st)[i] = st[i]
  BY FrontFacts
<1>2. /\ \A i \in 1..Len(st) : i \in 1..(Len(st) - 1) \/ i = Len(st)
      /\ \A i \in 1..(Len(st) - 1) : i \in 1..Len(st) /\ i # Len(st)
  BY <1>1
<1>3. NoneNew(Front(st))
  BY <1>1, <1>2 DEF NewOnTop, NoneNew
<1>4. Coming(st) => Coming(Front(st)) \/ ToTake(st[Len(st)])
  BY <1>1, <1>2 DEF Coming
<1>5. ~NewFlush(st[Len(st)]) => NoneNew(st)
  BY <1>2 DEF NewOnTop, NoneNew
<1> QED
  BY <1>1, <1>3, <1>4, <1>5

LEMMA NextWait == Inv /\ WaitInv /\ [Next]_vars => WaitInv'
<1> SUFFICES ASSUME Inv, WaitInv, [Next]_vars PROVE WaitInv'
  OBVIOUS
<1> USE DEF queueVars, txVars
<1> DEFINE Waiting == effectQ \ lost # {}
           Assured == ticks > 0 \/ batchDepth > 0 \/ Coming(stack)
<1>0. /\ stack \in Seq(Frames) /\ ticks \in Nat /\ batchDepth \in Int
      /\ scheduled \in BOOLEAN /\ raised \in BOOLEAN
      /\ scheduled => ticks > 0
      /\ NewOnTop(stack, raised)
      /\ ~botched /\ Waiting => Assured
      /\ ~botched => batchDepth >= 0
  <2>1. stack \in Seq(Frames) /\ ticks \in Nat /\ batchDepth \in Int
    BY DEF Inv, TypeOK
  <2>2. scheduled \in BOOLEAN /\ raised \in BOOLEAN
    BY DEF Inv, TypeOK
  <2>3. ~botched => batchDepth >= 0
    <3>1. IsFiniteSet(OpenBatches) /\ IsFiniteSet(Open)
      BY <2>1, BatchesFinite, BatchesOpen DEF Inv, Balance
    <3>2. Cardinality(OpenBatches) \in Nat /\ Cardinality(Open) \in Nat
      BY <3>1, FS_CardinalityType
    <3> QED
      BY <3>2 DEF Inv, Balance
  <2> QED
    BY <2>1, <2>2, <2>3, Zenon DEF WaitInv
\* What is there on top of the stack, when user code or a call returns.
<1>a. ASSUME ~TopIs("flush")
      PROVE  NoneNew(stack)
  <2>1. CASE stack = <<>>
    BY <1>0, <2>1 DEF NoneNew
  <2>2. CASE stack # <<>>
    <3>1. ~NewFlush(stack[Len(stack)])
      BY <1>a, <2>2, StackFacts DEF TopIs, NewFlush, Inv
    <3> QED
      BY <1>0, <2>2, <3>1, WaitFront
  <2> QED
    BY <2>1, <2>2
<1>b. ASSUME stack # <<>>, ~TopIs("flush")
      PROVE  /\ NoneNew(Front(stack)) /\ Front(stack) \in Seq(Frames)
             /\ Coming(stack) => Coming(Front(stack))
  <2>1. ~ToTake(stack[Len(stack)])
    BY <1>b, StackFacts DEF TopIs, ToTake, Inv
  <2> QED
    BY <1>0, <1>b, <2>1, WaitFront
<1>c. ASSUME TopIs("flush")
      PROVE  /\ stack # <<>> /\ Top \in Frames /\ Top.kind = "flush"
             /\ Top.phase \in {"compute", "effects"}
             /\ Top.todo \in SUBSET EffectJobs /\ Top.loops \in 0..MaxLoops
             /\ NoneNew(Front(stack)) /\ Front(stack) \in Seq(Frames)
             /\ Coming(stack) => Coming(Front(stack)) \/ ToTake(Top)
             /\ Top.loops = 0 => Top.phase = "effects" /\ Top.todo = {} /\ ~raised
             /\ Top.loops # 0 => NoneNew(stack)
  <2>1. /\ stack # <<>> /\ Top \in Frames /\ Top.kind = "flush" /\ Top = stack[Len(stack)]
        /\ Len(stack) \in 1..Len(stack)
    BY <1>c, StackFacts DEF TopIs, Inv
  <2>2. Top.loops = 0 => Top.phase = "effects" /\ Top.todo = {} /\ ~raised
    BY <1>0, <2>1 DEF NewOnTop, NewFlush
  <2>3. /\ NoneNew(Front(stack)) /\ Front(stack) \in Seq(Frames)
        /\ Coming(stack) => Coming(Front(stack)) \/ ToTake(Top)
        /\ Top.loops # 0 => NoneNew(stack)
    BY <1>0, <2>1, WaitFront DEF NewFlush
  <2> QED
    BY <2>1, <2>2, <2>3, FlushFrame
\* A new flush takes what waits.
<1>d. ASSUME NEW base \in Seq(Frames), NoneNew(base),
             NEW a \in {"return", "rethrow", "commit", "sync"},
             stack' = Append(base, FlushCall(a)), scheduled' = FALSE, ~raised'
      PROVE  WaitInv'
  <2> DEFINE f == FlushCall(a)
  <2>1. f \in Frames /\ f.phase = "effects" /\ f.todo = {} /\ ToTake(f)
    BY FlushCallType DEF FlushCall, ToTake
  <2> HIDE DEF f
  <2>2. NewOnTop(stack', raised') /\ Coming(stack')
    BY <1>d, <2>1, WaitAppend DEF f
  <2> QED
    BY <1>d, <2>2 DEF WaitInv
\* Nothing waits any more.
<1>e. ASSUME NoneNew(stack'), scheduled' => ticks' > 0, effectQ' \ lost' = {} \/ botched'
      PROVE  WaitInv'
  BY <1>e, NoneNewOnTop DEF WaitInv
\* Nothing waits that did not wait before, and what there was stays.
<1>f. ASSUME NoneNew(stack'), scheduled' => ticks' > 0, ~botched' => ~botched,
             effectQ' \ lost' # {} => Waiting,
             ~botched /\ Assured => ticks' > 0 \/ batchDepth' > 0 \/ Coming(stack')
      PROVE  WaitInv'
  BY <1>0, <1>f, NoneNewOnTop DEF WaitInv
<1>g. ASSUME Wake
      PROVE  /\ scheduled' => ticks' > 0
             /\ ticks > 0 => ticks' > 0
             /\ batchDepth = 0 => ticks' > 0
  <2>1. CASE ~scheduled /\ batchDepth = 0
    <3>1. ticks' = ticks + 1
      BY <1>g, <2>1 DEF Wake
    <3> QED
      BY <1>0, <3>1
  <2>2. CASE ~(~scheduled /\ batchDepth = 0)
    <3>1. scheduled' = scheduled /\ ticks' = ticks
      BY <1>g, <2>2, Zenon DEF Wake
    <3> QED
      BY <1>0, <2>2, <3>1
  <2> QED
    BY <2>1, <2>2
<1>h. ASSUME NEW E, ScheduleEffects(E), ~TopIs("flush"),
             UNCHANGED <<batchDepth, stack, raised, botched>>
      PROVE  WaitInv'
  <2>1. CASE E = {}
    <3>1. UNCHANGED <<scheduled, ticks, effectQ, lost>>
      BY <1>h, <2>1 DEF ScheduleEffects
    <3> QED
      BY <1>a, <1>f, <1>h, <1>0, <3>1
  <2>2. CASE E # {}
    <3>1. Wake
      BY <1>h, <2>2 DEF ScheduleEffects
    <3>2. ~botched => ticks' > 0 \/ batchDepth' > 0
      BY <1>0, <1>g, <1>h, <3>1
    <3> QED
      BY <1>a, <1>g, <1>h, <3>1, <3>2, NoneNewOnTop DEF WaitInv
  <2> QED
    BY <2>1, <2>2
<1>1. ASSUME \/ \E e \in EffectJobs : ScheduleEffect(e)
             \/ \E s \in Signals, v \in Values : SetSignal(s, v)
      PROVE  WaitInv'
  BY <1>1, <1>h DEF ScheduleEffect, SetSignal, UserCode
<1>2. ASSUME NEW c \in ComputedJobs, ScheduleComputed(c) PROVE WaitInv'
  <2>1. ~TopIs("flush") /\ Wake /\ UNCHANGED <<effectQ, lost, batchDepth, stack, botched>>
    BY <1>2 DEF ScheduleComputed, UserCode
  <2> QED
    BY <1>0, <1>a, <1>f, <1>g, <2>1
<1>3. ASSUME BatchBegin \/ \E t \in Transactions : AtomicBegin(t) PROVE WaitInv'
  <2>1. /\ ~TopIs("flush") /\ batchDepth' = batchDepth + 1
        /\ UNCHANGED <<scheduled, ticks, effectQ, lost, botched>>
    BY <1>3 DEF BatchBegin, AtomicBegin, UserCode
  <2>2. PICK f \in Frames : ~NewFlush(f) /\ stack' = Append(stack, f)
    BY <1>3, CallType DEF BatchBegin, AtomicBegin, Push, NewFlush
  <2>3. NoneNew(stack') /\ (Coming(stack) => Coming(stack'))
    BY <1>0, <1>a, <2>1, <2>2, WaitAppend
  <2>4. batchDepth > 0 => batchDepth' > 0
    BY <1>0, <2>1
  <2> QED
    BY <1>0, <1>f, <2>1, <2>3, <2>4
<1>4. ASSUME BatchEnd PROVE WaitInv'
  <2> DEFINE a == IF raised THEN "rethrow" ELSE "return"
  <2>1. /\ stack # <<>> /\ ~TopIs("flush") /\ batchDepth' = batchDepth - 1
        /\ OutermostFlush(Front(stack), a) /\ raised' = (raised /\ batchDepth # 1)
        /\ UNCHANGED <<ticks, effectQ, lost, botched>>
    BY <1>4 DEF BatchEnd, TopIs
  <2>2. a \in {"return", "rethrow", "commit", "sync"}
    OBVIOUS
  <2> HIDE DEF a
  <2>3. CASE batchDepth = 1
    <3>1. stack' = Append(Front(stack), FlushCall(a)) /\ scheduled' = FALSE
      BY <2>1, <2>3 DEF OutermostFlush
    <3>2. ~raised'
      BY <2>1, <2>3
    <3> QED
      BY <1>b, <1>d, <2>1, <2>2, <3>1, <3>2
  <2>4. CASE batchDepth # 1
    <3>1. stack' = Front(stack) /\ scheduled' = scheduled
      BY <2>1, <2>4 DEF OutermostFlush
    <3>2. batchDepth > 0 => batchDepth' > 0
      BY <1>0, <2>1, <2>4
    <3> QED
      BY <1>0, <1>b, <1>f, <2>1, <3>1, <3>2
  <2> QED
    BY <2>3, <2>4
\* The end of a commit, like that of a batch.
<1>i. ASSUME NEW t, NEW base \in Seq(Frames), NoneNew(base), Coming(stack) => Coming(base),
             NEW a \in {"return", "rethrow", "commit", "sync"}, Commit(t, base, a), ~raised
      PROVE  WaitInv'
  <2>1. /\ batchDepth' = batchDepth - 1 /\ OutermostFlush(base, a)
        /\ UNCHANGED <<ticks, effectQ, lost, botched, raised>>
    BY <1>i DEF Commit
  <2>2. CASE batchDepth = 1
    BY <1>d, <1>i, <2>1, <2>2 DEF OutermostFlush
  <2>3. CASE batchDepth # 1
    <3>1. stack' = base /\ scheduled' = scheduled
      BY <2>1, <2>3 DEF OutermostFlush
    <3>2. batchDepth > 0 => batchDepth' > 0
      BY <1>0, <2>1, <2>3
    <3> QED
      BY <1>0, <1>f, <1>i, <2>1, <3>1, <3>2
  <2> QED
    BY <2>2, <2>3
<1>5. ASSUME AtomicReturn PROVE WaitInv'
  <2>1. stack # <<>> /\ ~TopIs("flush") /\ ~raised /\ Commit(Top.tx, Front(stack), "commit")
    BY <1>5 DEF AtomicReturn, TopIs
  <2> QED
    BY <1>b, <1>i, <2>1
<1>6. ASSUME NEW t \in Transactions, AtomicResolved(t) PROVE WaitInv'
  <2>1. ~TopIs("flush") /\ ~raised /\ Commit(t, stack, "return")
    BY <1>6 DEF AtomicResolved, Idle, TopIs
  <2> QED
    BY <1>0, <1>a, <1>i, <2>1
<1>7. ASSUME AtomicReturnPromise \/ JobReturn \/ UnwindJob PROVE WaitInv'
  <2>1. /\ stack # <<>> /\ ~TopIs("flush") /\ stack' = Front(stack)
        /\ UNCHANGED <<scheduled, ticks, effectQ, lost, batchDepth, botched>>
    BY <1>7 DEF AtomicReturnPromise, JobReturn, UnwindJob, TopIs, Pop
  <2> QED
    BY <1>0, <1>b, <1>f, <2>1
<1>8. ASSUME AtomicThrow \/ \E t \in Transactions : AtomicRejected(t) PROVE WaitInv'
  <2>1. effectQ' = {} /\ scheduled' = FALSE
    BY <1>8 DEF AtomicThrow, AtomicRejected, Rollback, Undo
  <2>2. NoneNew(stack')
    <3>1. CASE AtomicThrow
      BY <1>b, <3>1 DEF AtomicThrow, TopIs, Pop
    <3>2. CASE \E t \in Transactions : AtomicRejected(t)
      BY <1>a, <3>2 DEF AtomicRejected, Idle, TopIs
    <3> QED
      BY <1>8, <3>1, <3>2
  <2> QED
    BY <1>e, <2>1, <2>2
<1>9. ASSUME MicrotaskFlush PROVE WaitInv'
  <2>1. /\ ~TopIs("flush") /\ stack' = Append(stack, FlushCall("return"))
        /\ scheduled' = FALSE /\ ~raised'
    BY <1>9 DEF MicrotaskFlush, Idle, TopIs, Push
  <2> QED
    BY <1>0, <1>a, <1>d, <2>1
<1>10. ASSUME FlushSync PROVE WaitInv'
  <2>1. /\ ~TopIs("flush") /\ stack' = Append(stack, FlushCall("sync"))
        /\ scheduled' = FALSE /\ ~raised'
    BY <1>10 DEF FlushSync, UserCode, Push
  <2> QED
    BY <1>0, <1>a, <1>d, <2>1
<1>11. ASSUME FlushRound PROVE WaitInv'
  <2> DEFINE f == [Top EXCEPT !.phase = "compute", !.loops = @ + 1]
  <2>1. /\ TopIs("flush") /\ Top.loops < MaxLoops /\ stack' = Append(Front(stack), f)
        /\ UNCHANGED <<scheduled, ticks>>
    BY <1>11 DEF FlushRound, RoundOver, Flushing, ReplaceTop
  <2>2. Top.loops + 1 \in 0..MaxLoops /\ Top.loops + 1 # 0
    BY <1>c, <2>1, BoundsAssumption
  <2>3. f \in Frames /\ ~NewFlush(f) /\ ToTake(f)
    BY <1>c, <2>1, <2>2, FlushFrame DEF Frames, NewFlush, ToTake
  <2> HIDE DEF f
  <2>4. NoneNew(stack') /\ Coming(stack')
    BY <1>c, <2>1, <2>3, WaitAppend
  <2> QED
    BY <1>0, <2>1, <2>4, NoneNewOnTop DEF WaitInv
<1>12. ASSUME FlushGiveUp PROVE WaitInv'
  <2>1. /\ TopIs("flush") /\ Top.loops >= MaxLoops
        /\ UNCHANGED <<scheduled, ticks, effectQ, lost, batchDepth, stack, botched>>
    BY <1>12 DEF FlushGiveUp, RoundOver, Flushing
  <2>2. Top.loops # 0
    BY <2>1, BoundsAssumption
  <2> QED
    BY <1>0, <1>c, <1>f, <2>1, <2>2
<1>13. ASSUME FlushRunComputed PROVE WaitInv'
  <2>1. /\ TopIs("flush") /\ Top.phase = "compute" /\ stack' = Append(stack, Call("job", None))
        /\ UNCHANGED <<scheduled, ticks, effectQ, lost, batchDepth, botched>>
    BY <1>13 DEF FlushRunComputed, Flushing, Push
  <2>2. Call("job", None) \in Frames /\ ~NewFlush(Call("job", None))
    BY CallType DEF NewFlush
  <2>3. NoneNew(stack)
    BY <1>c, <2>1
  <2>4. NoneNew(stack') /\ (Coming(stack) => Coming(stack'))
    BY <1>0, <2>1, <2>2, <2>3, WaitAppend
  <2> QED
    BY <1>0, <1>f, <2>1, <2>4
<1>14. ASSUME FlushTakeEffects PROVE WaitInv'
  <2> DEFINE f == [Top EXCEPT !.phase = "effects", !.todo = effectQ]
  <2>1. /\ TopIs("flush") /\ Top.phase = "compute" /\ stack' = Append(Front(stack), f)
        /\ effectQ' = {} /\ UNCHANGED <<scheduled, ticks>>
    BY <1>14 DEF FlushTakeEffects, Flushing, ReplaceTop
  <2>2. Top.loops # 0 /\ effectQ \in SUBSET EffectJobs
    BY <1>c, <2>1 DEF Inv, TypeOK
  <2>3. f \in Frames /\ ~NewFlush(f)
    BY <1>c, <2>1, <2>2, FlushFrame DEF Frames, NewFlush
  <2> HIDE DEF f
  <2>4. NoneNew(stack')
    BY <1>c, <2>1, <2>3, WaitAppend
  <2> QED
    BY <1>0, <1>e, <2>1, <2>4
<1>15. ASSUME NEW e \in EffectJobs, FlushRunEffect(e) PROVE WaitInv'
  <2> DEFINE f == [Top EXCEPT !.todo = @ \ {e}]
             g == Call("job", None)
             h == Append(Front(stack), f)
  <2>1. /\ TopIs("flush") /\ Top.phase = "effects" /\ e \in Top.todo
        /\ stack' = Append(h, g)
        /\ effectQ' = effectQ /\ lost' = lost \ ({e} \ effectQ)
        /\ UNCHANGED <<scheduled, ticks, batchDepth, botched>>
    BY <1>15 DEF FlushRunEffect, Flushing
  <2>2. Top.loops # 0
    BY <1>c, <2>1
  <2>3. f \in Frames /\ ~NewFlush(f) /\ g \in Frames /\ ~NewFlush(g)
    BY <1>c, <2>1, <2>2, FlushFrame, CallType DEF Frames, NewFlush
  <2>4. ~ToTake(Top)
    BY <2>1, <2>2 DEF ToTake
  <2> HIDE DEF f, g
  <2>5. h \in Seq(Frames) /\ NoneNew(h) /\ (Coming(stack) => Coming(h))
    BY <1>c, <2>1, <2>3, <2>4, WaitAppend, AppendFacts
  <2> HIDE DEF h
  <2>6. NoneNew(stack') /\ (Coming(stack) => Coming(stack'))
    BY <2>1, <2>3, <2>5, WaitAppend
  <2> QED
    BY <1>0, <1>f, <2>1, <2>6
<1>16. ASSUME FlushDone PROVE WaitInv'
  <2>1. /\ TopIs("flush") /\ stack' = Front(stack) /\ effectQ' = {}
        /\ UNCHANGED <<scheduled, ticks>>
    BY <1>16 DEF FlushDone, RoundOver, Flushing, Pop
  <2> QED
    BY <1>0, <1>c, <1>e, <2>1
<1>17. ASSUME UnwindFlush PROVE WaitInv'
  <2>1. /\ raised /\ TopIs("flush") /\ stack' = Front(stack) /\ lost' = lost \cup LeftBehind
        /\ UNCHANGED <<scheduled, ticks, effectQ, batchDepth, botched>>
    BY <1>17 DEF UnwindFlush, Pop
  <2>2. CASE Top.phase = "compute"
    <3>1. effectQ' \ lost' = {}
      BY <2>1, <2>2 DEF LeftBehind
    <3> QED
      BY <1>0, <1>c, <1>e, <2>1, <3>1
  <2>3. CASE Top.phase # "compute"
    <3>1. ~ToTake(Top)
      BY <1>c, <2>1, <2>3 DEF ToTake
    <3> QED
      BY <1>0, <1>c, <1>f, <2>1, <3>1
  <2> QED
    BY <2>2, <2>3
<1>18. ASSUME UnwindCommit PROVE WaitInv'
  <2>1. TopIs("flush") /\ stack' = Front(stack) /\ botched' = TRUE /\ ticks' = ticks
    BY <1>18 DEF UnwindCommit, Pop
  <2>2. scheduled' => scheduled
    BY <1>18, Zenon DEF UnwindCommit, Undo
  <2> QED
    BY <1>0, <1>c, <1>e, <2>1, <2>2
<1>19. ASSUME Throw \/ Catch PROVE WaitInv'
  <2>1. ~TopIs("flush") /\ UNCHANGED <<scheduled, ticks, effectQ, lost, batchDepth, stack, botched>>
    BY <1>19 DEF Throw, Catch, UserCode
  <2> QED
    BY <1>0, <1>a, <1>f, <2>1
<1>20. CASE UNCHANGED vars
  BY <1>20 DEF vars, WaitInv
<1> QED
  BY <1>1, <1>2, <1>3, <1>4, <1>5, <1>6, <1>7, <1>8, <1>9, <1>10, <1>11, <1>12, <1>13, <1>14,
     <1>15, <1>16, <1>17, <1>18, <1>19, <1>20 DEF Next, UserStep, RuntimeStep

\* scheduleJob(), batch() and the transactions: when the program is idle and
\* nothing is open, a microtask is still to come for every effect that waits.
THEOREM SchedulerNoStrandedJobs == Spec => []NoStrandedJobs
<1>1. Init => WaitInv
  BY DEF Init, WaitInv, NewOnTop
<1>2. Inv /\ WaitInv => NoStrandedJobs
  <2> SUFFICES ASSUME Inv, WaitInv, Idle, ~botched, Open = {}, effectQ \ lost # {}
               PROVE  ticks > 0
    BY DEF NoStrandedJobs
  <2>1. stack = <<>> /\ OpenBatches = {}
    BY DEF Idle, OpenBatches
  <2>2. batchDepth = 0
    BY <2>1, FS_EmptySet DEF Inv, Balance
  <2> QED
    BY <2>1, <2>2 DEF WaitInv, Coming
<1> QED
  BY <1>1, <1>2, InitInv, NextInv, NextWait, PTL DEF Spec

-----------------------------------------------------------------------------
(* A rollback restores.  The logs are read as a chain: going back from the *)
(* present values, the newest log gives the values at the beginning of the *)
(* newest transaction, the one below it those of the one before, and so on.*)

\* The open transactions that have logs are distinct.
OwnersOpen ==
  /\ \A i \in 1..Len(owners) : owners[i] \in Open
  /\ \A i, j \in 1..Len(owners) : owners[i] = owners[j] => i = j

\* The values when the transaction of the next log began; now, for the newest.
After(i) == IF i = Len(logs) THEN val ELSE begun[owners[i + 1]]

\* A log gives back the values there were when its transaction began.
Chained ==
  \A i \in 1..Len(logs) : \A s \in Signals :
    begun[owners[i]][s] = IF logs[i][s] = None THEN After(i)[s] ELSE logs[i][s]

LogsInv == ~botched /\ ~crossed => OwnersOpen /\ Chained

\* What the step of an ordinary state may rely on.
LEMMA LogFacts ==
  ASSUME Inv, ~botched
  PROVE  /\ Len(logs) \in Nat /\ Len(owners) = Len(logs) /\ atomicDepth = Len(logs)
         /\ logs \in Seq([Signals -> Values \cup {None}]) /\ owners \in Seq(Transactions)
         /\ val \in [Signals -> Values]
         /\ begun \in [Transactions -> [Signals -> Values \cup {None}]]
BY DEF Inv, TypeOK, Balance

LEMMA KeepLogs ==
  ASSUME LogsInv, UNCHANGED <<val, logs, owners, begun, crossed>>, Open' = Open,
         ~botched' => ~botched
  PROVE  LogsInv'
BY DEF LogsInv, OwnersOpen, Chained, After

\* set() with recordAtomicWrite().
LEMMA SetKeepsLogs ==
  ASSUME Inv, LogsInv, NEW s \in Signals, NEW v \in Values, SetSignal(s, v)
  PROVE  LogsInv'
<1> SUFFICES ASSUME ~botched', ~crossed' PROVE OwnersOpen' /\ Chained'
  BY DEF LogsInv
<1>1. /\ logs' = Record(s) /\ val' = [val EXCEPT ![s] = v]
      /\ UNCHANGED <<tx, begun, owners, crossed, botched>>
  BY DEF SetSignal
<1>2. ~botched /\ OwnersOpen /\ Chained
  BY <1>1 DEF LogsInv
<1> DEFINE n == Len(logs)
<1>3. /\ n \in Nat /\ Len(owners) = n /\ atomicDepth = n
      /\ logs \in Seq([Signals -> Values \cup {None}])
      /\ val \in [Signals -> Values] /\ val[s] # None
  BY <1>2, LogFacts, KindsAssumption
<1>4. OwnersOpen'
  BY <1>1, <1>2 DEF OwnersOpen, Open
<1>5. /\ Len(logs') = n
      /\ \A i \in 1..n : \A r \in Signals :
           logs'[i][r] = IF i = n /\ r = s /\ logs[n][s] = None THEN val[s] ELSE logs[i][r]
  <2>1. CASE n > 0 /\ logs[n][s] = None
    <3>1. logs' = [logs EXCEPT ![n][s] = val[s]]
      BY <1>1, <1>3, <2>1 DEF Record, Last
    <3> QED
      BY <1>3, <2>1, <3>1
  <2>2. CASE ~(n > 0 /\ logs[n][s] = None)
    <3>1. logs' = logs
      BY <1>1, <1>3, <2>2 DEF Record, Last
    <3> QED
      BY <1>3, <2>2, <3>1
  <2> QED
    BY <2>1, <2>2
<1>6. ASSUME NEW i \in 1..n, NEW r \in Signals
      PROVE  begun'[owners'[i]][r] = IF logs'[i][r] = None THEN After(i)'[r] ELSE logs'[i][r]
  <2>1. begun[owners[i]][r] = IF logs[i][r] = None THEN After(i)[r] ELSE logs[i][r]
    BY <1>2, <1>6 DEF Chained
  <2>2. CASE i # n
    <3>1. After(i)' = After(i)
      BY <1>1, <1>5, <2>2 DEF After
    <3> QED
      BY <1>1, <1>5, <2>1, <2>2, <3>1
  <2>3. CASE i = n
    <3>1. After(i) = val /\ After(i)' = val'
      BY <1>5, <2>3 DEF After
    <3>2. CASE r = s
      BY <1>1, <1>3, <1>5, <2>1, <2>3, <3>1, <3>2
    <3>3. CASE r # s
      BY <1>1, <1>3, <1>5, <2>1, <2>3, <3>1, <3>3
    <3> QED
      BY <3>2, <3>3
  <2> QED
    BY <2>2, <2>3
<1>7. Chained'
  BY <1>5, <1>6 DEF Chained
<1> QED
  BY <1>4, <1>7

\* The beginning of atomic().
LEMMA BeginKeepsLogs ==
  ASSUME Inv, LogsInv, NEW t \in Transactions, AtomicBegin(t)
  PROVE  LogsInv'
<1> SUFFICES ASSUME ~botched', ~crossed' PROVE OwnersOpen' /\ Chained'
  BY DEF LogsInv
<1>1. /\ logs' = Append(logs, NoLog) /\ owners' = Append(owners, t)
      /\ begun' = [begun EXCEPT ![t] = val] /\ tx[t] = "closed"
      /\ tx' = [tx EXCEPT ![t] = "running"] /\ UNCHANGED <<val, crossed, botched>>
  BY DEF AtomicBegin
<1>2. ~botched /\ OwnersOpen /\ Chained
  BY <1>1 DEF LogsInv
<1> DEFINE n == Len(logs)
<1>3. /\ n \in Nat /\ Len(owners) = n
      /\ logs \in Seq([Signals -> Values \cup {None}]) /\ owners \in Seq(Transactions)
      /\ begun \in [Transactions -> [Signals -> Values \cup {None}]]
      /\ tx \in [Transactions -> {"closed", "running", "waiting"}]
  BY <1>2, LogFacts DEF Inv, TypeOK
<1>4. NoLog \in [Signals -> Values \cup {None}] /\ \A r \in Signals : NoLog[r] = None
  BY DEF NoLog
<1>5. /\ Len(logs') = n + 1 /\ logs'[n + 1] = NoLog /\ \A i \in 1..n : logs'[i] = logs[i]
      /\ Len(owners') = n + 1 /\ owners'[n + 1] = t /\ \A i \in 1..n : owners'[i] = owners[i]
  BY <1>1, <1>3, <1>4, AppendFacts
<1>6. \A i \in 1..n : owners[i] \in Transactions /\ owners[i] # t
  BY <1>1, <1>2, <1>3 DEF OwnersOpen, Open
<1>7. begun'[t] = val /\ \A i \in 1..n : begun'[owners[i]] = begun[owners[i]]
  BY <1>1, <1>3, <1>6
<1>8. OwnersOpen'
  <2>1. t \in Open' /\ \A i \in 1..n : owners[i] \in Open'
    BY <1>1, <1>2, <1>3, <1>6 DEF OwnersOpen, Open
  <2>2. \A i \in 1..(n + 1) : i \in 1..n \/ i = n + 1
    BY <1>3
  <2>3. \A i \in 1..Len(owners') : owners'[i] \in Open'
    BY <1>5, <2>1, <2>2
  <2>4. \A i, j \in 1..Len(owners') : owners'[i] = owners'[j] => i = j
    BY <1>2, <1>3, <1>5, <1>6, <2>2 DEF OwnersOpen
  <2> QED
    BY <2>3, <2>4 DEF OwnersOpen
<1>9. ASSUME NEW i \in 1..(n + 1), NEW r \in Signals
      PROVE  begun'[owners'[i]][r] = IF logs'[i][r] = None THEN After(i)'[r] ELSE logs'[i][r]
  <2>1. CASE i = n + 1
    <3>1. After(i)' = val
      BY <1>1, <1>5, <2>1 DEF After
    <3> QED
      BY <1>4, <1>5, <1>7, <2>1, <3>1
  <2>2. CASE i \in 1..n
    <3>1. After(i)' = After(i)
      <4>1. CASE i = n
        <5>1. After(i)' = begun'[owners'[n + 1]] /\ After(i) = val
          BY <1>3, <1>5, <4>1 DEF After
        <5> QED
          BY <1>5, <1>7, <5>1
      <4>2. CASE i # n
        <5>1. i + 1 \in 1..n /\ i # n + 1
          BY <1>3, <2>2, <4>2
        <5>2. After(i)' = begun'[owners'[i + 1]] /\ After(i) = begun[owners[i + 1]]
          BY <1>5, <4>2, <5>1 DEF After
        <5> QED
          BY <1>5, <1>7, <5>1, <5>2
      <4> QED
        BY <4>1, <4>2
    <3>2. begun[owners[i]][r] = IF logs[i][r] = None THEN After(i)[r] ELSE logs[i][r]
      BY <1>2, <2>2 DEF Chained
    <3>3. logs'[i] = logs[i] /\ begun'[owners'[i]] = begun[owners[i]]
      BY <1>5, <1>7, <2>2
    <3> QED
      BY <3>1, <3>2, <3>3
  <2> QED
    BY <1>3, <1>9, <2>1, <2>2
<1>10. Chained'
  BY <1>5, <1>9 DEF Chained
<1> QED
  BY <1>8, <1>10

\* A transaction that ends with the newest log, as long as none has crossed.
LEMMA CloseFacts ==
  ASSUME Inv, LogsInv, NEW t \in Open, Close(t), ~crossed'
  PROVE  /\ OwnersOpen /\ Chained /\ OwnersOpen'
         /\ Len(logs) \in Nat \ {0} /\ Len(owners) = Len(logs) /\ t = owners[Len(logs)]
         /\ logs # <<>> /\ Len(owners') = Len(logs) - 1
         /\ \A i \in 1..(Len(logs) - 1) : /\ owners'[i] = owners[i]
                                          /\ begun'[owners[i]] = begun[owners[i]]
<1> DEFINE n == Len(logs)
<1>1. /\ ~botched /\ ~crossed /\ t = Last(owners) /\ owners' = Front(owners)
      /\ tx' = [tx EXCEPT ![t] = "closed"] /\ begun' = [begun EXCEPT ![t] = NoLog]
  BY DEF Close
<1>2. OwnersOpen /\ Chained
  BY <1>1 DEF LogsInv
<1>3. /\ n \in Nat \ {0} /\ Len(owners) = n /\ logs # <<>> /\ owners # <<>>
      /\ owners \in Seq(Transactions)
      /\ begun \in [Transactions -> [Signals -> Values \cup {None}]]
      /\ tx \in [Transactions -> {"closed", "running", "waiting"}]
  BY <1>1, LogFacts, HasLog DEF Inv, TypeOK
<1>4. /\ t = owners[n] /\ Len(owners') = n - 1 /\ \A i \in 1..(n - 1) : owners'[i] = owners[i]
  BY <1>1, <1>3, FrontFacts
<1>5. \A i \in 1..(n - 1) : i \in 1..n /\ owners[i] \in Transactions /\ owners[i] # t
  BY <1>2, <1>3, <1>4 DEF OwnersOpen
<1>6. \A i \in 1..(n - 1) : begun'[owners[i]] = begun[owners[i]] /\ tx'[owners[i]] = tx[owners[i]]
  BY <1>1, <1>3, <1>5
<1>7. OwnersOpen'
  <2>1. \A i \in 1..(n - 1) : owners'[i] \in Open'
    BY <1>2, <1>3, <1>4, <1>5, <1>6 DEF OwnersOpen, Open
  <2>2. \A i, j \in 1..(n - 1) : owners'[i] = owners'[j] => i = j
    BY <1>2, <1>3, <1>4, <1>5 DEF OwnersOpen
  <2> QED
    BY <1>4, <2>1, <2>2 DEF OwnersOpen
<1> QED
  BY <1>2, <1>3, <1>4, <1>6, <1>7

\* exitCommit() with mergeChildIntoParent().
LEMMA CommitKeepsLogs ==
  ASSUME Inv, LogsInv, NEW t \in Open, NEW base, NEW a, Commit(t, base, a)
  PROVE  LogsInv'
<1> SUFFICES ASSUME ~botched', ~crossed' PROVE OwnersOpen' /\ Chained'
  BY DEF LogsInv
<1> DEFINE n == Len(logs)
<1>1. Close(t) /\ UNCHANGED <<val, botched>> /\ ~botched
  BY DEF Commit, Close
<1>2. /\ OwnersOpen /\ Chained /\ OwnersOpen' /\ n \in Nat \ {0} /\ logs # <<>>
      /\ \A i \in 1..(n - 1) : owners'[i] = owners[i] /\ begun'[owners[i]] = begun[owners[i]]
  BY <1>1, CloseFacts
<1>3. atomicDepth = n /\ logs \in Seq([Signals -> Values \cup {None}]) /\ TypeOK
  BY <1>1, LogFacts DEF Inv
<1>4. CASE n = 1
  <2>1. Len(logs') = 0
    BY <1>2, <1>3, <1>4, FrontFacts DEF Commit
  <2> QED
    BY <1>2, <2>1 DEF Chained
<1>5. CASE n > 1
  <2>1. logs' = Append(Front(Front(logs)), Merged)
    BY <1>3, <1>5 DEF Commit
  <2>2. /\ Front(logs) \in Seq([Signals -> Values \cup {None}]) /\ Len(Front(logs)) = n - 1
        /\ Last(logs) = logs[n] /\ \A i \in 1..(n - 1) : Front(logs)[i] = logs[i]
    BY <1>2, <1>3, FrontFacts
  <2>3. Front(logs) # <<>>
    BY <1>2, <1>5, <2>2
  <2>4. /\ Front(Front(logs)) \in Seq([Signals -> Values \cup {None}])
        /\ Len(Front(Front(logs))) = (n - 1) - 1 /\ Last(Front(logs)) = Front(logs)[n - 1]
        /\ \A i \in 1..((n - 1) - 1) : Front(Front(logs))[i] = Front(logs)[i]
    BY <2>2, <2>3, FrontFacts
  <2>5. Merged \in [Signals -> Values \cup {None}]
    BY <1>2, <1>3, <1>5, LogTypes
  <2>6. /\ Len(logs') = n - 1 /\ logs'[n - 1] = Merged
        /\ \A i \in 1..(n - 2) : logs'[i] = logs[i]
    <3>1. /\ Len(logs') = ((n - 1) - 1) + 1 /\ logs'[((n - 1) - 1) + 1] = Merged
          /\ \A i \in 1..((n - 1) - 1) : logs'[i] = Front(Front(logs))[i]
      BY <2>1, <2>4, <2>5, AppendFacts
    <3>2. ((n - 1) - 1) + 1 = n - 1 /\ (n - 1) - 1 = n - 2 /\ \A i \in 1..(n - 2) : i \in 1..(n - 1)
      BY <1>2
    <3> QED
      BY <2>2, <2>4, <3>1, <3>2
  <2>7. \A r \in Signals :
          Merged[r] = IF logs[n - 1][r] = None THEN logs[n][r] ELSE logs[n - 1][r]
    <3>1. Last(Front(logs)) = logs[n - 1]
      BY <1>2, <1>5, <2>2, <2>4
    <3> QED
      BY <2>2, <3>1 DEF Merged
  <2>8. n \in 1..n /\ n - 1 \in 1..n /\ n - 1 \in 1..(n - 1) /\ (n - 1) + 1 = n /\ n - 1 # n
    BY <1>2, <1>5
  <2>9. ASSUME NEW r \in Signals
        PROVE  begun[owners[n - 1]][r] = IF Merged[r] = None THEN val[r] ELSE Merged[r]
    <3>1. After(n) = val
      BY Zenon DEF After
    <3>2. After(n - 1) = begun[owners[n]]
      BY <2>8, Zenon DEF After
    <3>3. \A i \in 1..n :
            begun[owners[i]][r] = IF logs[i][r] = None THEN After(i)[r] ELSE logs[i][r]
      BY <1>2, <2>9, Zenon DEF Chained
    <3>4. begun[owners[n]][r] = IF logs[n][r] = None THEN val[r] ELSE logs[n][r]
      BY <2>8, <3>1, <3>3, Zenon
    <3>5. begun[owners[n - 1]][r] =
            IF logs[n - 1][r] = None THEN begun[owners[n]][r] ELSE logs[n - 1][r]
      BY <2>8, <3>2, <3>3, Zenon
    <3>6. Merged[r] = IF logs[n - 1][r] = None THEN logs[n][r] ELSE logs[n - 1][r]
      BY <2>7, <2>9, Zenon
    <3>7. CASE logs[n - 1][r] = None
      BY <3>4, <3>5, <3>6, <3>7, Zenon
    <3>8. CASE logs[n - 1][r] # None
      BY <3>5, <3>6, <3>8, Zenon
    <3> QED
      BY <3>7, <3>8, Zenon
  <2>10. ASSUME NEW i \in 1..(n - 1), NEW r \in Signals
         PROVE  begun'[owners'[i]][r] = IF logs'[i][r] = None THEN After(i)'[r] ELSE logs'[i][r]
    <3>1. CASE i = n - 1
      <4>1. After(i)' = val
        BY <1>1, <2>6, <3>1 DEF After
      <4>2. begun'[owners'[i]] = begun[owners[n - 1]] /\ logs'[i] = Merged
        BY <1>2, <2>6, <3>1
      <4> QED
        BY <2>9, <4>1, <4>2
    <3>2. CASE i # n - 1
      <4>1. i \in 1..(n - 2) /\ i + 1 \in 1..(n - 1) /\ i # n /\ i \in 1..n
        BY <1>2, <3>2
      <4>2. After(i)' = begun'[owners'[i + 1]] /\ After(i) = begun[owners[i + 1]]
        BY <2>6, <3>2, <4>1 DEF After
      <4>3. After(i)' = After(i)
        BY <1>2, <4>1, <4>2
      <4>4. begun[owners[i]][r] = IF logs[i][r] = None THEN After(i)[r] ELSE logs[i][r]
        BY <1>2, <4>1 DEF Chained
      <4>5. logs'[i] = logs[i] /\ begun'[owners'[i]] = begun[owners[i]]
        BY <1>2, <2>6, <4>1
      <4> QED
        BY <4>3, <4>4, <4>5
    <3> QED
      BY <3>1, <3>2
  <2>11. Chained'
    BY <2>6, <2>10 DEF Chained
  <2> QED
    BY <1>2, <2>11
<1>6. n = 1 \/ n > 1
  <2>1. n \in Nat \ {0}
    BY <1>2
  <2> HIDE DEF n
  <2> QED
    BY <2>1
<1> QED
  BY <1>4, <1>5, <1>6

\* exitRollback(): the newest log, followed once, leads to the values there
\* were when its transaction began.
LEMMA RollbackIsExact ==
  ASSUME Inv, LogsInv, NEW t \in Open, Close(t), Rollback, ~crossed'
  PROVE  val' = begun[t]
<1>1. /\ Chained /\ t = owners[Len(logs)] /\ Len(logs) \in Nat \ {0} /\ logs # <<>>
  BY CloseFacts
<1>2. ~botched /\ t \in Transactions
  BY DEF Close, Open
<1>3. /\ logs \in Seq([Signals -> Values \cup {None}]) /\ val \in [Signals -> Values]
      /\ begun[t] \in [Signals -> Values \cup {None}]
  BY <1>2, LogFacts
<1>4. Last(logs) = logs[Len(logs)]
  BY <1>1, <1>3, FrontFacts
<1>5. After(Len(logs)) = val /\ Len(logs) \in 1..Len(logs)
  BY <1>1 DEF After
<1>6. \A r \in Signals :
        begun[t][r] = IF Last(logs)[r] = None THEN val[r] ELSE Last(logs)[r]
  BY <1>1, <1>4, <1>5 DEF Chained
<1>7. val' = [r \in Signals |-> IF Last(logs)[r] = None THEN val[r] ELSE Last(logs)[r]]
  BY DEF Rollback, Undo
<1> QED
  BY <1>3, <1>6, <1>7

LEMMA RollbackKeepsLogs ==
  ASSUME Inv, LogsInv, NEW t \in Open, Close(t), Rollback, botched' = botched
  PROVE  LogsInv'
<1> SUFFICES ASSUME ~crossed' PROVE OwnersOpen' /\ Chained'
  BY DEF LogsInv
<1> DEFINE n == Len(logs)
<1>1. /\ OwnersOpen /\ Chained /\ OwnersOpen' /\ n \in Nat \ {0} /\ logs # <<>>
      /\ t = owners[n]
      /\ \A i \in 1..(n - 1) : owners'[i] = owners[i] /\ begun'[owners[i]] = begun[owners[i]]
  BY CloseFacts
<1>2. val' = begun[owners[n]]
  BY <1>1, RollbackIsExact
<1>3. logs \in Seq([Signals -> Values \cup {None}])
  BY DEF Inv, TypeOK
<1>4. Len(logs') = n - 1 /\ \A i \in 1..(n - 1) : logs'[i] = logs[i]
  BY <1>1, <1>3, FrontFacts DEF Rollback, Undo
<1>5. ASSUME NEW i \in 1..(n - 1), NEW r \in Signals
      PROVE  begun'[owners'[i]][r] = IF logs'[i][r] = None THEN After(i)'[r] ELSE logs'[i][r]
  <2>1. i \in 1..n /\ i # n /\ (i = n - 1 => i + 1 = n) /\ (i # n - 1 => i + 1 \in 1..(n - 1))
    <3>1. n \in Nat \ {0} /\ i \in 1..(n - 1)
      BY <1>1, <1>5
    <3> HIDE DEF n
    <3> QED
      BY <3>1
  <2>2. After(i) = begun[owners[i + 1]]
    BY <2>1 DEF After
  <2>3. After(i)' = IF i = n - 1 THEN val' ELSE begun'[owners'[i + 1]]
    BY <1>4 DEF After
  <2>4. After(i)' = After(i)
    BY <1>1, <1>2, <2>1, <2>2, <2>3
  <2>5. begun[owners[i]][r] = IF logs[i][r] = None THEN After(i)[r] ELSE logs[i][r]
    BY <1>1, <2>1 DEF Chained
  <2>6. logs'[i] = logs[i] /\ begun'[owners'[i]] = begun[owners[i]]
    BY <1>1, <1>4
  <2> QED
    BY <2>4, <2>5, <2>6
<1>6. Chained'
  BY <1>4, <1>5 DEF Chained
<1> QED
  BY <1>1, <1>6

LEMMA NextLogsInv == Inv /\ LogsInv /\ [Next]_vars => LogsInv'
<1> SUFFICES ASSUME Inv, LogsInv, [Next]_vars PROVE LogsInv'
  OBVIOUS
<1> USE DEF queueVars, txVars
<1>1. ASSUME NEW s \in Signals, NEW v \in Values, SetSignal(s, v) PROVE LogsInv'
  BY <1>1, SetKeepsLogs
<1>2. ASSUME NEW t \in Transactions, AtomicBegin(t) PROVE LogsInv'
  BY <1>2, BeginKeepsLogs
<1>3. CASE AtomicReturn
  BY <1>3, AtomicTop, CommitKeepsLogs DEF AtomicReturn, Inv
<1>4. ASSUME NEW t \in Transactions, AtomicResolved(t) PROVE LogsInv'
  BY <1>4, CommitKeepsLogs DEF AtomicResolved, Open
<1>5. CASE AtomicThrow
  BY <1>5, AtomicTop, RollbackKeepsLogs DEF AtomicThrow, Inv
<1>6. ASSUME NEW t \in Transactions, AtomicRejected(t) PROVE LogsInv'
  BY <1>6, RollbackKeepsLogs DEF AtomicRejected, Open
<1>7. CASE AtomicReturnPromise
  <2>1. Top.tx \in Transactions /\ tx[Top.tx] = "running" /\ tx' = [tx EXCEPT ![Top.tx] = "waiting"]
    BY <1>7, AtomicTop DEF AtomicReturnPromise, Inv
  <2>2. Open' = Open
    BY <2>1 DEF Open, Inv, TypeOK
  <2> QED
    BY <1>7, <2>2, KeepLogs DEF AtomicReturnPromise
<1>8. CASE UnwindCommit
  BY <1>8 DEF UnwindCommit, LogsInv
<1>9. ASSUME UNCHANGED <<val, txVars, botched>> PROVE LogsInv'
  BY <1>9, KeepLogs DEF Open
<1>10. ASSUME \/ \E e \in EffectJobs : ScheduleEffect(e) \/ FlushRunEffect(e)
              \/ \E c \in ComputedJobs : ScheduleComputed(c)
              \/ BatchBegin \/ BatchEnd \/ FlushSync \/ MicrotaskFlush \/ FlushRound
              \/ FlushGiveUp \/ FlushRunComputed \/ FlushTakeEffects \/ FlushDone
              \/ UnwindFlush \/ JobReturn \/ UnwindJob \/ Throw \/ Catch \/ UNCHANGED vars
       PROVE  LogsInv'
  BY <1>9, <1>10 DEF ScheduleEffect, FlushRunEffect, ScheduleComputed, BatchBegin, BatchEnd,
     FlushSync, MicrotaskFlush, FlushRound, FlushGiveUp, FlushRunComputed, FlushTakeEffects,
     FlushDone, UnwindFlush, JobReturn, UnwindJob, Throw, Catch, vars
<1> QED
  BY <1>1, <1>2, <1>3, <1>4, <1>5, <1>6, <1>7, <1>8, <1>10 DEF Next, UserStep, RuntimeStep

\* atomic(): while every transaction has ended with its own log, a rollback
\* restores the values there were when its transaction began, whatever was
\* written and committed inside it, before and after it waited.
THEOREM SchedulerRollbackRestores == Spec => RollbackRestores
<1> DEFINE Restored == \A t \in Transactions :
             RolledBack(t) /\ ~botched /\ ~crossed' => val' = begun[t]
<1>1. Init => LogsInv
  BY DEF Init, LogsInv, OwnersOpen, Chained
<1>2. Inv /\ LogsInv /\ [Next]_vars => [Restored]_vars
  <2> SUFFICES ASSUME Inv, LogsInv, Next,
                      NEW t \in Transactions, RolledBack(t), ~crossed'
               PROVE  val' = begun[t]
    BY DEF RolledBack
  <2>1. t \in Open /\ tx'[t] = "closed" /\ (AtomicThrow \/ AtomicRejected(t))
    BY DEF RolledBack
  <2>2. CASE AtomicThrow
    <3>1. Close(Top.tx) /\ Rollback /\ Top.tx \in Open
      BY <2>2, AtomicTop DEF AtomicThrow, Inv
    <3>2. t = Top.tx
      BY <2>1, <3>1 DEF Close, Open, Inv, TypeOK
    <3> QED
      BY <3>1, <3>2, RollbackIsExact
  <2>3. CASE AtomicRejected(t)
    BY <2>1, <2>3, RollbackIsExact DEF AtomicRejected
  <2> QED
    BY <2>1, <2>2, <2>3
<1> QED
  BY <1>1, <1>2, InitInv, NextInv, NextLogsInv, PTL DEF Spec, RollbackRestores
=============================================================================
