------------------------- MODULE ReactiveGraphProofs -------------------------
(***************************************************************************)
(* Proofs, for any sets of signals, computeds, effects and values and any  *)
(* bounds, about ReactiveGraph: its types, the symmetry of its graph and   *)
(* the shape of its call stack; and what rests on them: what a computed    *)
(* hands out was made from present values, as far as no dispose() has cut  *)
(* it off from them (ComputedFresh, and FreshThroughout along chains), and *)
(* no effect misses an update (NoLostUpdate); batches and flushes nest as  *)
(* they should, no queued effect is left behind, a cleanup goes to the     *)
(* effect that is running, and a disposed effect is inert.                 *)
(***************************************************************************)
EXTENDS ReactiveGraph, FiniteSetTheorems, SequenceTheorems, TLAPS

\* What Append, Front and Last do, index by index.
LEMMA AppendFacts ==
  ASSUME NEW S, NEW s \in Seq(S), NEW f \in S
  PROVE  /\ Append(s, f) \in Seq(S) /\ Len(Append(s, f)) = Len(s) + 1
         /\ DOMAIN Append(s, f) = 1..(Len(s) + 1)
         /\ \A i \in 1..Len(s) : Append(s, f)[i] = s[i]
         /\ Append(s, f)[Len(s) + 1] = f
OBVIOUS

LEMMA FrontFacts ==
  ASSUME NEW S, NEW s \in Seq(S), s # <<>>
  PROVE  /\ Len(s) \in Nat \ {0} /\ Last(s) = s[Len(s)] /\ Last(s) \in S
         /\ Front(s) \in Seq(S) /\ Len(Front(s)) = Len(s) - 1
         /\ DOMAIN Front(s) = 1..(Len(s) - 1)
         /\ \A i \in 1..(Len(s) - 1) : Front(s)[i] = s[i]
<1>1. Len(s) \in Nat \ {0} /\ Last(s) = s[Len(s)] /\ Last(s) \in S
  BY DEF Last
<1>2. Front(s) = SubSeq(s, 1, Len(s) - 1)
  BY DEF Front
<1>3. Front(s) \in Seq(S) /\ Len(Front(s)) = Len(s) - 1
  <2>1. 1 \in Int /\ Len(s) - 1 \in Int /\ \A i \in 1..(Len(s) - 1) : s[i] \in S
    BY <1>1
  <2>2. /\ SubSeq(s, 1, Len(s) - 1) \in Seq(S)
        /\ Len(SubSeq(s, 1, Len(s) - 1)) =
             IF 1 <= Len(s) - 1 THEN (Len(s) - 1) - 1 + 1 ELSE 0
    BY <2>1, SubSeqProperties
  <2>3. (IF 1 <= Len(s) - 1 THEN (Len(s) - 1) - 1 + 1 ELSE 0) = Len(s) - 1
    <3>1. \A n \in Nat : n # 0 => (IF 1 <= n - 1 THEN (n - 1) - 1 + 1 ELSE 0) = n - 1
      OBVIOUS
    <3> QED
      BY <1>1, <3>1
  <2>4. Len(Front(s)) = Len(s) - 1
    BY <1>2, <2>2, <2>3, Zenon
  <2>5. Front(s) \in Seq(S)
    BY <1>2, <2>2, Zenon
  <2> QED
    BY <2>4, <2>5
<1>4. \A i \in 1..(Len(s) - 1) : Front(s)[i] = s[i]
  BY <1>1, <1>2
<1> QED
  BY <1>1, <1>3, <1>4

-----------------------------------------------------------------------------
(* Types *)

\* The frames the actions push have their type.
LEMMA CallType ==
  ASSUME TypeOK, NEW k \in FrameKinds, NEW n \in Observers \cup {None}
  PROVE  Call(k, n) \in Frames
BY DEF TypeOK, Call, Frames, Errors, Observers

LEMMA FlushCallType == ASSUME NEW r \in Errors PROVE FlushCall(r) \in Frames
BY DEF FlushCall, Frames, FrameKinds

\* The top of a stack that is not empty is a frame, and so is what the flush
\* makes of it.
LEMMA TopType ==
  ASSUME TypeOK, stack # <<>>
  PROVE  /\ Top \in Frames /\ Top.kind \in FrameKinds /\ Top.node \in Observers \cup {None}
         /\ Top.prev \in Observers \cup {None} /\ Top.todo \in SUBSET Effects
         /\ Top.loops \in Nat /\ Top.rethrow \in Errors
         /\ Front(stack) \in Seq(Frames)
<1>1. Top \in Frames /\ Front(stack) \in Seq(Frames)
  BY FrontFacts DEF TypeOK, Top
<1> QED
  BY <1>1 DEF Frames

LEMMA InitTypeOK == Init => TypeOK
<1> SUFFICES ASSUME Init PROVE TypeOK
  OBVIOUS
<1>1. val \in [Sources -> Values \cup {None}]
  BY DEF Init
<1>2. deps \in [Observers -> SUBSET Sources] /\ subs \in [Sources -> SUBSET Observers]
  BY DEF Init
<1>3. /\ stale \in [Computeds -> BOOLEAN] /\ hasValue \in [Computeds -> BOOLEAN]
      /\ computing \in [Computeds -> BOOLEAN]
  BY DEF Init
<1>4. status \in [Effects -> {"absent", "live", "disposed"}] /\ cleanups \in [Effects -> Nat]
  BY DEF Init
<1>5. /\ seen \in [Observers -> [Sources -> Values \cup {None}]]
      /\ cut \in [Observers -> SUBSET Computeds]
  BY DEF Init, NoReads
<1>6. stack \in Seq(Frames) /\ raised \in Errors
  BY DEF Init, Errors
<1>7. ticks \in Nat /\ batchDepth \in Int
  BY DEF Init
<1>8. /\ currentObserver \in Observers \cup {None} /\ activeEffect \in Effects \cup {None}
      /\ effectQ \in SUBSET Effects /\ dropped \in SUBSET Effects /\ scheduled \in BOOLEAN
  BY DEF Init
<1> QED
  BY <1>1, <1>2, <1>3, <1>4, <1>5, <1>6, <1>7, <1>8 DEF TypeOK

\* The types of what link() and unlink() make of the graph.
LEMMA LinkTypes ==
  ASSUME TypeOK, NEW d \in Sources
  PROVE  /\ LinkDeps(currentObserver, d) \in [Observers -> SUBSET Sources]
         /\ LinkSubs(currentObserver, d) \in [Sources -> SUBSET Observers]
<1>1. CASE currentObserver = None
  BY <1>1 DEF TypeOK, LinkDeps, LinkSubs
<1>2. CASE currentObserver # None
  <2>1. /\ LinkDeps(currentObserver, d) = [deps EXCEPT ![currentObserver] = @ \cup {d}]
        /\ LinkSubs(currentObserver, d) = [subs EXCEPT ![d] = @ \cup {currentObserver}]
    BY <1>2 DEF LinkDeps, LinkSubs
  <2>2. currentObserver \in Observers
    BY <1>2 DEF TypeOK
  <2> QED
    BY <2>1, <2>2 DEF TypeOK
<1> QED
  BY <1>1, <1>2

LEMMA UnlinkTypes ==
  ASSUME NEW o \in Observers, NEW D \in [Observers -> SUBSET Sources],
         NEW S \in [Sources -> SUBSET Observers]
  PROVE  /\ UnlinkDeps(o, D) \in [Observers -> SUBSET Sources]
         /\ UnlinkSubs(o, D, S) \in [Sources -> SUBSET Observers]
BY DEF UnlinkDeps, UnlinkSubs

LEMMA ForgetType ==
  ASSUME TypeOK, NEW o \in Observers
  PROVE  /\ [seen EXCEPT ![o] = NoReads] \in [Observers -> [Sources -> Values \cup {None}]]
         /\ [cut EXCEPT ![o] = {}] \in [Observers -> SUBSET Computeds]
BY DEF TypeOK, NoReads

LEMMA RememberType ==
  ASSUME TypeOK, NEW o \in Observers \cup {None}, NEW d \in Sources,
         NEW v \in Values \cup {None}, Remember(o, d, v)
  PROVE  /\ seen' \in [Observers -> [Sources -> Values \cup {None}]]
         /\ cut' \in [Observers -> SUBSET Computeds]
<1>1. CASE o = None
  BY <1>1 DEF TypeOK, Remember
<1>2. CASE o # None
  BY <1>2 DEF TypeOK, Remember
<1> QED
  BY <1>1, <1>2

LEMMA EnqueueType ==
  ASSUME TypeOK, NEW E \in SUBSET Effects, Enqueue(E)
  PROVE  effectQ' \in SUBSET Effects /\ scheduled' \in BOOLEAN /\ ticks' \in Nat
<1>1. effectQ' \in SUBSET Effects
  BY DEF TypeOK, Enqueue
<1>2. CASE E # {} /\ ~scheduled /\ batchDepth = 0
  <2>1. scheduled' = TRUE /\ ticks' = ticks + 1
    BY <1>2 DEF Enqueue
  <2> QED
    BY <1>1, <2>1 DEF TypeOK
<1>3. CASE ~(E # {} /\ ~scheduled /\ batchDepth = 0)
  <2>1. UNCHANGED <<scheduled, ticks>>
    BY <1>3 DEF Enqueue
  <2> QED
    BY <1>1, <2>1 DEF TypeOK
<1> QED
  BY <1>2, <1>3

\* Starting a run of an effect on top of a well-typed stack.
LEMMA StartRunType ==
  ASSUME TypeOK, NEW e \in Effects, NEW base \in Seq(Frames), StartRun(e, base)
  PROVE  /\ cleanups' \in [Effects -> Nat]
         /\ deps' \in [Observers -> SUBSET Sources] /\ subs' \in [Sources -> SUBSET Observers]
         /\ seen' \in [Observers -> [Sources -> Values \cup {None}]]
         /\ cut' \in [Observers -> SUBSET Computeds]
         /\ activeEffect' \in Effects /\ currentObserver' \in Observers
         /\ stack' \in Seq(Frames) /\ dropped' \in SUBSET Effects
<1>1. e \in Observers
  BY DEF Observers
<1>2. deps \in [Observers -> SUBSET Sources] /\ subs \in [Sources -> SUBSET Observers]
  BY DEF TypeOK
<1>3. Call("effect", e) \in Frames
  BY <1>1, CallType DEF FrameKinds
<1>4. stack' \in Seq(Frames)
  BY <1>3, AppendFacts DEF StartRun
<1>5. /\ deps' \in [Observers -> SUBSET Sources] /\ subs' \in [Sources -> SUBSET Observers]
      /\ seen' \in [Observers -> [Sources -> Values \cup {None}]]
      /\ cut' \in [Observers -> SUBSET Computeds]
  BY <1>1, <1>2, UnlinkTypes, ForgetType DEF StartRun, Forget
<1>6. cleanups' \in [Effects -> Nat]
  BY DEF StartRun, TypeOK
<1> QED
  BY <1>1, <1>4, <1>5, <1>6 DEF StartRun, TypeOK

\* Every step keeps the types.
LEMMA NextTypeOK == TypeOK /\ [Next]_vars => TypeOK'
<1> SUFFICES ASSUME TypeOK, [Next]_vars PROVE TypeOK'
  OBVIOUS
<1> USE DEF nodeVars, queueVars
<1>1. ASSUME NEW d \in Sources, ReadFresh(d) PROVE TypeOK'
  <2>1. val[d] \in Values \cup {None} /\ currentObserver \in Observers \cup {None}
    BY DEF TypeOK
  <2>2. /\ seen' \in [Observers -> [Sources -> Values \cup {None}]]
        /\ cut' \in [Observers -> SUBSET Computeds]
    BY <1>1, <2>1, RememberType DEF ReadFresh
  <2>3. deps' \in [Observers -> SUBSET Sources] /\ subs' \in [Sources -> SUBSET Observers]
    BY <1>1, LinkTypes DEF ReadFresh, Track
  <2> QED
    BY <1>1, <2>2, <2>3 DEF ReadFresh, TypeOK
<1>2. ASSUME NEW c \in Computeds, Recompute(c) PROVE TypeOK'
  <2>1. c \in Observers /\ c \in Sources
    BY DEF Observers, Sources
  <2>2. /\ LinkDeps(currentObserver, c) \in [Observers -> SUBSET Sources]
        /\ LinkSubs(currentObserver, c) \in [Sources -> SUBSET Observers]
    BY <2>1, LinkTypes
  <2>3. deps' \in [Observers -> SUBSET Sources] /\ subs' \in [Sources -> SUBSET Observers]
    BY <1>2, <2>1, <2>2, UnlinkTypes DEF Recompute
  <2>6. /\ seen' \in [Observers -> [Sources -> Values \cup {None}]]
        /\ cut' \in [Observers -> SUBSET Computeds]
    BY <1>2, <2>1, ForgetType DEF Recompute, Forget
  <2>7. stack' \in Seq(Frames)
    <3>1. Call("computed", c) \in Frames
      BY <2>1, CallType DEF FrameKinds
    <3> QED
      BY <1>2, <3>1, AppendFacts DEF Recompute, Push, TypeOK
  <2> QED
    BY <1>2, <2>1, <2>3, <2>6, <2>7 DEF Recompute, TypeOK
<1>3. ASSUME NEW c \in Computeds, ReadCycle(c) PROVE TypeOK'
  <2>1. c \in Sources
    BY DEF Sources
  <2>2. deps' \in [Observers -> SUBSET Sources] /\ subs' \in [Sources -> SUBSET Observers]
    BY <1>3, <2>1, LinkTypes DEF ReadCycle, Track
  <2> QED
    BY <1>3, <2>2 DEF ReadCycle, TypeOK, Errors
<1>4. ASSUME NEW v \in Values, ComputedReturn(v) PROVE TypeOK'
  <2>1. stack # <<>>
    BY <1>4 DEF ComputedReturn, TopIs
  <2>2. /\ Top.prev \in Observers \cup {None} /\ Top.node \in Observers \cup {None}
        /\ Front(stack) \in Seq(Frames)
    BY <2>1, TopType
  <2>3. /\ seen' \in [Observers -> [Sources -> Values \cup {None}]]
        /\ cut' \in [Observers -> SUBSET Computeds]
    <3>1. Remember(Top.prev, Top.node, v)
      BY <1>4 DEF ComputedReturn
    <3>2. CASE Top.prev = None
      BY <3>1, <3>2 DEF Remember, TypeOK
    <3>3. CASE Top.prev # None
      BY <2>2, <3>1, <3>3 DEF Remember, TypeOK
    <3> QED
      BY <3>2, <3>3
  <2>4. val' \in [Sources -> Values \cup {None}]
    BY <1>4 DEF ComputedReturn, TypeOK
  <2>5. /\ stale' \in [Computeds -> BOOLEAN] /\ hasValue' \in [Computeds -> BOOLEAN]
        /\ computing' \in [Computeds -> BOOLEAN]
    BY <1>4 DEF ComputedReturn, TypeOK
  <2> QED
    BY <1>4, <2>2, <2>3, <2>4, <2>5 DEF ComputedReturn, Pop, TypeOK
<1>5. ASSUME NEW c \in Computeds, DisposeComputed(c) PROVE TypeOK'
  <2>1. /\ c \in Observers
        /\ deps \in [Observers -> SUBSET Sources] /\ subs \in [Sources -> SUBSET Observers]
    BY DEF Observers, TypeOK
  <2>2. subs' \in [Sources -> SUBSET Observers]
    BY <1>5, <2>1, UnlinkTypes DEF DisposeComputed
  <2>3. deps' \in [Observers -> SUBSET Sources]
    BY <1>5 DEF DisposeComputed, TypeOK
  <2>4. /\ seen' \in [Observers -> [Sources -> Values \cup {None}]]
        /\ cut' \in [Observers -> SUBSET Computeds]
    BY <1>5 DEF DisposeComputed, TypeOK, NoReads
  <2> QED
    BY <1>5, <2>2, <2>3, <2>4 DEF DisposeComputed, TypeOK
<1>6. ASSUME NEW s \in Signals, NEW v \in Values, SetSignal(s, v) PROVE TypeOK'
  <2>1. effectQ' \in SUBSET Effects /\ scheduled' \in BOOLEAN /\ ticks' \in Nat
    <3>1. Notified(s) \in SUBSET Effects
      BY DEF Notified
    <3> QED
      BY <1>6, <3>1, EnqueueType DEF SetSignal
  <2>2. stale' \in [Computeds -> BOOLEAN]
    BY <1>6 DEF SetSignal, TypeOK
  <2>3. val' \in [Sources -> Values \cup {None}]
    BY <1>6 DEF SetSignal, TypeOK
  <2> QED
    BY <1>6, <2>1, <2>2, <2>3 DEF SetSignal, TypeOK
<1>7. ASSUME NEW e \in Effects, CreateEffect(e) PROVE TypeOK'
  <2>1. StartRun(e, stack) /\ stack \in Seq(Frames)
    BY <1>7 DEF CreateEffect, TypeOK
  <2>2. /\ cleanups' \in [Effects -> Nat]
        /\ deps' \in [Observers -> SUBSET Sources] /\ subs' \in [Sources -> SUBSET Observers]
        /\ seen' \in [Observers -> [Sources -> Values \cup {None}]]
        /\ cut' \in [Observers -> SUBSET Computeds]
        /\ activeEffect' \in Effects /\ currentObserver' \in Observers
        /\ stack' \in Seq(Frames) /\ dropped' \in SUBSET Effects
    BY <2>1, StartRunType
  <2> QED
    BY <1>7, <2>2 DEF CreateEffect, TypeOK
<1>8. CASE OnCleanup
  BY <1>8 DEF OnCleanup, TypeOK
<1>9. CASE EffectReturn
  <2>1. stack # <<>>
    BY <1>9 DEF EffectReturn, TopIs
  <2>2. Top.prev \in Observers \cup {None} /\ Front(stack) \in Seq(Frames)
    BY <2>1, TopType
  <2>3. cleanups' \in [Effects -> Nat]
    <3>1. PICK extra \in {0, 1} : cleanups' = [cleanups EXCEPT ![Top.node] = @ + extra]
      BY <1>9 DEF EffectReturn
    <3>2. cleanups \in [Effects -> Nat]
      BY DEF TypeOK
    <3>3. \A n \in Nat : n + extra \in Nat
      BY <3>1
    <3> QED
      BY <3>1, <3>2, <3>3
  <2> QED
    BY <1>9, <2>2, <2>3 DEF EffectReturn, LeaveEffect, Pop, TypeOK
<1>10. ASSUME NEW e \in Effects, DisposeEffect(e) PROVE TypeOK'
  <2>1. /\ e \in Observers
        /\ deps \in [Observers -> SUBSET Sources] /\ subs \in [Sources -> SUBSET Observers]
    BY DEF Observers, TypeOK
  <2>2. /\ deps' \in [Observers -> SUBSET Sources] /\ subs' \in [Sources -> SUBSET Observers]
        /\ seen' \in [Observers -> [Sources -> Values \cup {None}]]
        /\ cut' \in [Observers -> SUBSET Computeds]
    BY <1>10, <2>1, UnlinkTypes, ForgetType DEF DisposeEffect, Forget
  <2> QED
    BY <1>10, <2>2 DEF DisposeEffect, TypeOK
<1>11. CASE BatchBegin
  <2>1. Call("batch", None) \in Frames
    BY CallType DEF FrameKinds
  <2>2. stack' \in Seq(Frames)
    BY <1>11, <2>1, AppendFacts DEF BatchBegin, Push, TypeOK
  <2> QED
    BY <1>11, <2>2 DEF BatchBegin, TypeOK
<1>12. ASSUME NEW r \in Errors, stack # <<>>, LeaveBatch(r) PROVE TypeOK'
  <2>1. Front(stack) \in Seq(Frames) /\ FlushCall(r) \in Frames
    BY <1>12, TopType, FlushCallType
  <2>2. stack' \in Seq(Frames) /\ raised' \in Errors /\ scheduled' \in BOOLEAN
    <3>1. CASE batchDepth = 1
      <4>1. stack' = Append(Front(stack), FlushCall(r)) /\ scheduled' = FALSE /\ raised' = "none"
        BY <1>12, <3>1 DEF LeaveBatch, ReplaceTop
      <4>2. stack' \in Seq(Frames)
        BY <2>1, <4>1, AppendFacts
      <4> QED
        BY <4>1, <4>2 DEF Errors
    <3>2. CASE batchDepth # 1
      BY <1>12, <2>1, <3>2 DEF LeaveBatch, Pop, TypeOK
    <3> QED
      BY <3>1, <3>2
  <2> QED
    BY <1>12, <2>2 DEF LeaveBatch, TypeOK
<1>13. CASE BatchEnd
  BY <1>12, <1>13 DEF BatchEnd, TopIs, Errors
<1>14. CASE UnwindBatch
  BY <1>12, <1>14 DEF UnwindBatch, TopIs, TypeOK
<1>15. CASE MicrotaskFlush
  <2>1. FlushCall("none") \in Frames
    BY FlushCallType DEF Errors
  <2>2. stack' \in Seq(Frames)
    BY <1>15, <2>1, AppendFacts DEF MicrotaskFlush, Push, TypeOK
  <2>3. ticks' \in Nat
    BY <1>15 DEF MicrotaskFlush, TypeOK
  <2> QED
    BY <1>15, <2>2, <2>3 DEF MicrotaskFlush, TypeOK
<1>16. CASE FlushTakeBatch
  <2>1. stack # <<>>
    BY <1>16 DEF FlushTakeBatch, Flushing, TopIs
  <2>2. [Top EXCEPT !.todo = effectQ, !.loops = @ + 1] \in Frames
    <3>1. Top \in Frames /\ Top.loops + 1 \in Nat /\ effectQ \in SUBSET Effects
      BY <2>1, TopType DEF TypeOK
    <3> QED
      BY <3>1 DEF Frames
  <2>3. stack' \in Seq(Frames)
    BY <1>16, <2>1, <2>2, TopType, AppendFacts DEF FlushTakeBatch, ReplaceTop
  <2> QED
    BY <1>16, <2>3 DEF FlushTakeBatch, TypeOK
<1>17. CASE FlushGiveUp
  BY <1>17 DEF FlushGiveUp, TypeOK, Errors
<1>18. ASSUME NEW e \in Effects, stack # <<>>
       PROVE  [Top EXCEPT !.todo = @ \ {e}] \in Frames
  BY <1>18, TopType DEF Frames
<1>19. ASSUME NEW e \in Effects, FlushSkip(e) PROVE TypeOK'
  <2>1. stack # <<>>
    BY <1>19 DEF FlushSkip, Flushing, TopIs
  <2>2. stack' \in Seq(Frames)
    BY <1>18, <1>19, <2>1, TopType, AppendFacts DEF FlushSkip, ReplaceTop
  <2> QED
    BY <1>19, <2>2 DEF FlushSkip, TypeOK
<1>20. ASSUME NEW e \in Effects, FlushRun(e) PROVE TypeOK'
  <2>1. stack # <<>>
    BY <1>20 DEF FlushRun, Flushing, TopIs
  <2> DEFINE base == Append(Front(stack), [Top EXCEPT !.todo = @ \ {e}])
  <2>2. base \in Seq(Frames)
    BY <1>18, <2>1, TopType, AppendFacts
  <2>3. StartRun(e, base)
    BY <1>20 DEF FlushRun
  <2> HIDE DEF base
  <2>4. /\ cleanups' \in [Effects -> Nat]
        /\ deps' \in [Observers -> SUBSET Sources] /\ subs' \in [Sources -> SUBSET Observers]
        /\ seen' \in [Observers -> [Sources -> Values \cup {None}]]
        /\ cut' \in [Observers -> SUBSET Computeds]
        /\ activeEffect' \in Effects /\ currentObserver' \in Observers
        /\ stack' \in Seq(Frames) /\ dropped' \in SUBSET Effects
    BY <2>2, <2>3, StartRunType
  <2> QED
    BY <1>20, <2>4 DEF FlushRun, TypeOK
<1>21. CASE FlushDone
  <2>1. stack # <<>>
    BY <1>21 DEF FlushDone, Flushing, TopIs
  <2> QED
    BY <1>21, <2>1, TopType DEF FlushDone, Pop, TypeOK
<1>22. CASE Throw \/ Catch
  BY <1>22 DEF Throw, Catch, TypeOK, Errors
<1>23. CASE UnwindComputed
  <2>1. stack # <<>>
    BY <1>23 DEF UnwindComputed, TopIs
  <2> QED
    BY <1>23, <2>1, TopType DEF UnwindComputed, Pop, TypeOK
<1>24. CASE UnwindEffect
  <2>1. stack # <<>>
    BY <1>24 DEF UnwindEffect, TopIs
  <2> QED
    BY <1>24, <2>1, TopType DEF UnwindEffect, LeaveEffect, Pop, TypeOK
<1>25. CASE UnwindFlush
  <2>1. stack # <<>>
    BY <1>25 DEF UnwindFlush, TopIs
  <2> QED
    BY <1>25, <2>1, TopType DEF UnwindFlush, Pop, TypeOK
<1>26. CASE UNCHANGED vars
  BY <1>26 DEF vars, TypeOK
<1> QED
  BY <1>1, <1>2, <1>3, <1>4, <1>5, <1>6, <1>7, <1>8, <1>9, <1>10, <1>11, <1>13, <1>14,
     <1>15, <1>16, <1>17, <1>19, <1>20, <1>21, <1>22, <1>23, <1>24, <1>25, <1>26 DEF Next

\* Every variable of the runtime has its type in every reachable state.
THEOREM GraphTypeCorrect == Spec => []TypeOK
BY InitTypeOK, NextTypeOK, PTL DEF Spec

-----------------------------------------------------------------------------
(* The two directions of the graph *)

Mirror(D, S) == \A o \in Observers, s \in Sources : s \in D[o] <=> o \in S[s]

\* link() keeps the two directions together.
LEMMA LinkSymmetric ==
  ASSUME TypeOK, LinksSymmetric, NEW d \in Sources
  PROVE  Mirror(LinkDeps(currentObserver, d), LinkSubs(currentObserver, d))
<1>1. CASE currentObserver = None
  BY <1>1 DEF LinkDeps, LinkSubs, LinksSymmetric, Mirror
<1>2. CASE currentObserver # None
  <2>1. /\ LinkDeps(currentObserver, d) = [deps EXCEPT ![currentObserver] = @ \cup {d}]
        /\ LinkSubs(currentObserver, d) = [subs EXCEPT ![d] = @ \cup {currentObserver}]
    BY <1>2 DEF LinkDeps, LinkSubs
  <2>2. /\ currentObserver \in Observers
        /\ deps \in [Observers -> SUBSET Sources] /\ subs \in [Sources -> SUBSET Observers]
    BY <1>2 DEF TypeOK
  <2> QED
    BY <2>1, <2>2 DEF LinksSymmetric, Mirror
<1> QED
  BY <1>1, <1>2

\* Dropping the dependencies of an observer does too.
LEMMA UnlinkSymmetric ==
  ASSUME NEW o \in Observers, NEW D \in [Observers -> SUBSET Sources],
         NEW S \in [Sources -> SUBSET Observers], Mirror(D, S)
  PROVE  Mirror(UnlinkDeps(o, D), UnlinkSubs(o, D, S))
BY DEF Mirror, UnlinkDeps, UnlinkSubs

\* Every step keeps the two directions together.
LEMMA NextLinksSymmetric == TypeOK /\ LinksSymmetric /\ [Next]_vars => LinksSymmetric'
<1> SUFFICES ASSUME TypeOK, LinksSymmetric, [Next]_vars PROVE LinksSymmetric'
  OBVIOUS
<1> USE DEF nodeVars
<1>0. /\ deps \in [Observers -> SUBSET Sources] /\ subs \in [Sources -> SUBSET Observers]
      /\ Mirror(deps, subs)
      /\ Mirror(deps', subs') => LinksSymmetric'
  BY DEF TypeOK, LinksSymmetric, Mirror
<1>1. ASSUME NEW d \in Sources, ReadFresh(d) PROVE LinksSymmetric'
  BY <1>0, <1>1, LinkSymmetric DEF ReadFresh, Track
<1>2. ASSUME NEW c \in Computeds, ReadCycle(c) PROVE LinksSymmetric'
  BY <1>0, <1>2, LinkSymmetric DEF ReadCycle, Track, Sources
<1>3. ASSUME NEW c \in Computeds, Recompute(c) PROVE LinksSymmetric'
  <2>1. c \in Observers /\ c \in Sources
    BY DEF Observers, Sources
  <2>2. /\ LinkDeps(currentObserver, c) \in [Observers -> SUBSET Sources]
        /\ LinkSubs(currentObserver, c) \in [Sources -> SUBSET Observers]
        /\ Mirror(LinkDeps(currentObserver, c), LinkSubs(currentObserver, c))
    BY <2>1, LinkTypes, LinkSymmetric
  <2> QED
    BY <1>0, <1>3, <2>1, <2>2, UnlinkSymmetric DEF Recompute
<1>4. ASSUME NEW c \in Computeds, DisposeComputed(c) PROVE LinksSymmetric'
  <2>1. /\ deps \in [Observers -> SUBSET Sources] /\ subs \in [Sources -> SUBSET Observers]
        /\ c \in Observers /\ c \in Sources
    BY DEF TypeOK, Observers, Sources
  <2>2. /\ deps' = [o \in Observers |-> IF o = c THEN {} ELSE
                                  IF o \in subs[c] THEN deps[o] \ {c} ELSE deps[o]]
        /\ subs' = [[s \in Sources |-> IF s \in deps[c] THEN subs[s] \ {c} ELSE subs[s]]
                      EXCEPT ![c] = {}]
    BY <1>4 DEF DisposeComputed, UnlinkSubs
  <2> QED
    BY <2>1, <2>2 DEF LinksSymmetric
<1>5. ASSUME NEW e \in Effects, NEW base, StartRun(e, base) PROVE LinksSymmetric'
  BY <1>0, <1>5, UnlinkSymmetric DEF StartRun, Observers
<1>6. ASSUME NEW e \in Effects, CreateEffect(e) PROVE LinksSymmetric'
  BY <1>5, <1>6 DEF CreateEffect
<1>7. ASSUME NEW e \in Effects, FlushRun(e) PROVE LinksSymmetric'
  BY <1>5, <1>7 DEF FlushRun
<1>8. ASSUME NEW e \in Effects, DisposeEffect(e) PROVE LinksSymmetric'
  BY <1>0, <1>8, UnlinkSymmetric DEF DisposeEffect, Observers
<1>9. CASE UNCHANGED <<deps, subs>>
  BY <1>9 DEF LinksSymmetric
<1>10. ASSUME NEW v \in Values, ComputedReturn(v) PROVE UNCHANGED <<deps, subs>>
  BY <1>10 DEF ComputedReturn
<1>11. ASSUME NEW s \in Signals, NEW v \in Values, SetSignal(s, v)
       PROVE  UNCHANGED <<deps, subs>>
  BY <1>11 DEF SetSignal
<1>12. ASSUME NEW e \in Effects, FlushSkip(e) PROVE UNCHANGED <<deps, subs>>
  BY <1>12 DEF FlushSkip
<1>13. (OnCleanup \/ EffectReturn \/ BatchBegin \/ BatchEnd \/ MicrotaskFlush)
         => UNCHANGED <<deps, subs>>
  BY DEF OnCleanup, EffectReturn, BatchBegin, BatchEnd, LeaveBatch, MicrotaskFlush
<1>14. (FlushTakeBatch \/ FlushGiveUp \/ FlushDone \/ Throw \/ Catch)
         => UNCHANGED <<deps, subs>>
  BY DEF FlushTakeBatch, FlushGiveUp, FlushDone, Throw, Catch
<1>15. (UnwindComputed \/ UnwindEffect \/ UnwindBatch \/ UnwindFlush \/ UNCHANGED vars)
         => UNCHANGED <<deps, subs>>
  BY DEF UnwindComputed, UnwindEffect, UnwindBatch, LeaveBatch, UnwindFlush, vars
<1> QED
  BY <1>1, <1>2, <1>3, <1>4, <1>6, <1>7, <1>8, <1>9, <1>10, <1>11, <1>12, <1>13, <1>14,
     <1>15 DEF Next

\* The graph is symmetric in every reachable state.
THEOREM GraphLinksSymmetric == Spec => []LinksSymmetric
<1>1. Init => LinksSymmetric
  BY DEF Init, LinksSymmetric
<1>2. TypeOK /\ LinksSymmetric /\ [Next]_vars => (TypeOK /\ LinksSymmetric)'
  BY NextTypeOK, NextLinksSymmetric
<1> QED
  BY <1>1, <1>2, InitTypeOK, PTL DEF Spec

-----------------------------------------------------------------------------
(* The shape of the call stack *)

\* What holds of frame i of a stack: where the observer it will restore is.
FrameOK(st, i) ==
  /\ st[i].kind = "computed" => st[i].node \in Computeds
  /\ st[i].kind = "effect" => st[i].node \in Effects
  /\ st[i].kind # "flush" => st[i].todo = {}
  /\ st[i].prev \in Computeds =>
       /\ st[i].kind = "computed" /\ i > 1
       /\ st[i - 1].kind = "computed" /\ st[i - 1].node = st[i].prev
  /\ st[i].prev \in Effects =>
       \E j \in 1..(i - 1) : st[j].kind = "effect" /\ st[j].node = st[i].prev

\* Computeds are evaluated on top of everything else, each at most once at a
\* time, and the current observer is that of the innermost call.
Shape(st, obs) ==
  /\ \A i \in 1..Len(st) : FrameOK(st, i)
  /\ \A i, j \in 1..Len(st) :
       (i < j /\ st[i].kind = "computed") => st[j].kind = "computed"
  /\ \A i, j \in 1..Len(st) :
       (st[i].kind = "computed" /\ st[j].kind = "computed" /\ st[i].node = st[j].node)
          => i = j
  /\ obs \in Computeds => /\ Len(st) > 0 /\ st[Len(st)].kind = "computed"
                          /\ st[Len(st)].node = obs
  /\ obs \in Effects => \E i \in 1..Len(st) : st[i].kind = "effect" /\ st[i].node = obs

\* A frame is judged by what is below it.
LEMMA FrameKept ==
  ASSUME NEW st, NEW fr, NEW m \in Nat, \A k \in 1..m : fr[k] = st[k],
         NEW i \in 1..m, FrameOK(st, i)
  PROVE  FrameOK(fr, i)
<1>1. fr[i] = st[i] /\ (i > 1 => fr[i - 1] = st[i - 1])
  OBVIOUS
<1>2. \A j \in 1..(i - 1) : fr[j] = st[j]
  OBVIOUS
<1>3. ASSUME st[i].prev \in Effects
      PROVE  \E j \in 1..(i - 1) : fr[j].kind = "effect" /\ fr[j].node = st[i].prev
  <2>1. PICK j \in 1..(i - 1) : st[j].kind = "effect" /\ st[j].node = st[i].prev
    BY <1>3 DEF FrameOK
  <2> QED
    BY <1>2, <2>1
<1> QED
  BY <1>1, <1>3 DEF FrameOK

\* Taking the top frame away: a call of user code gives its observer back.
LEMMA ShapePop ==
  ASSUME NEW st \in Seq(Frames), st # <<>>, NEW obs, Shape(st, obs), NEW obs2,
         st[Len(st)].kind \in {"computed", "effect"} => obs2 = st[Len(st)].prev,
         st[Len(st)].kind \notin {"computed", "effect"} => obs2 = obs
  PROVE  Shape(Front(st), obs2)
<1> DEFINE n == Len(st)
           fr == Front(st)
<1>1. /\ n \in Nat \ {0} /\ Len(fr) = n - 1
      /\ \A i \in 1..(n - 1) : fr[i] = st[i]
  BY FrontFacts
<1> HIDE DEF fr
<1>2. \A i \in 1..(n - 1) : FrameOK(fr, i)
  <2>1. n - 1 \in Nat /\ \A i \in 1..(n - 1) : FrameOK(st, i)
    BY <1>1 DEF Shape
  <2> QED
    BY <1>1, <2>1, FrameKept
<1>3. obs2 \in Computeds => n - 1 > 0 /\ fr[n - 1].kind = "computed" /\ fr[n - 1].node = obs2
  <2>1. FrameOK(st, n)
    BY <1>1 DEF Shape
  <2> QED
    BY <1>1, <2>1 DEF Shape, FrameOK
<1>4. obs2 \in Effects => \E i \in 1..(n - 1) : fr[i].kind = "effect" /\ fr[i].node = obs2
  <2>1. FrameOK(st, n)
    BY <1>1 DEF Shape
  <2>2. CASE st[n].kind \in {"computed", "effect"}
    BY <1>1, <2>1, <2>2 DEF FrameOK
  <2>3. CASE st[n].kind \notin {"computed", "effect"}
    BY <1>1, <2>3 DEF Shape
  <2> QED
    BY <2>2, <2>3
<1> QED
  BY <1>1, <1>2, <1>3, <1>4 DEF Shape, fr

\* Calling the function of a computed that is not being evaluated.
LEMMA ShapePushComputed ==
  ASSUME NEW st \in Seq(Frames), NEW obs \in Observers \cup {None}, Shape(st, obs),
         NEW f \in Frames, f.kind = "computed", f.node \in Computeds, f.todo = {},
         f.prev = obs,
         \A i \in 1..Len(st) : st[i].kind = "computed" => st[i].node # f.node
  PROVE  Shape(Append(st, f), f.node)
<1> DEFINE n == Len(st)
           ap == Append(st, f)
<1>1. n \in Nat /\ Len(ap) = n + 1 /\ ap[n + 1] = f /\ \A i \in 1..n : ap[i] = st[i]
  BY AppendFacts
<1> HIDE DEF ap
<1>2. \A i \in 1..n : FrameOK(ap, i)
  <2>1. \A i \in 1..n : FrameOK(st, i)
    BY DEF Shape
  <2> QED
    BY <1>1, <2>1, FrameKept
<1>3. FrameOK(ap, n + 1)
  BY <1>1 DEF Shape, FrameOK
<1>4. f.node \notin Effects
  BY KindsAssumption
<1> QED
  BY <1>1, <1>2, <1>3, <1>4 DEF Shape, ap

\* Calling anything else, where no computed is being evaluated.
LEMMA ShapePushOther ==
  ASSUME NEW st \in Seq(Frames), NEW obs \in Observers \cup {None}, Shape(st, obs),
         Len(st) > 0 => st[Len(st)].kind # "computed",
         NEW f \in Frames, f.kind # "computed", f.prev \in {obs, None},
         f.kind = "effect" => f.node \in Effects,
         f.kind # "flush" => f.todo = {},
         NEW obs2, obs2 = IF f.kind = "effect" THEN f.node ELSE obs
  PROVE  Shape(Append(st, f), obs2)
<1> DEFINE n == Len(st)
           ap == Append(st, f)
<1>1. n \in Nat /\ Len(ap) = n + 1 /\ ap[n + 1] = f /\ \A i \in 1..n : ap[i] = st[i]
  BY AppendFacts
<1>2. obs \notin Computeds /\ \A i \in 1..n : st[i].kind # "computed"
  BY <1>1 DEF Shape
<1> HIDE DEF ap
<1>3. \A i \in 1..n : FrameOK(ap, i)
  <2>1. \A i \in 1..n : FrameOK(st, i)
    BY DEF Shape
  <2> QED
    BY <1>1, <2>1, FrameKept
<1>4. None \notin Computeds /\ None \notin Effects /\ Effects \cap Computeds = {}
  BY KindsAssumption
<1>5. FrameOK(ap, n + 1)
  BY <1>1, <1>2, <1>4 DEF Shape, FrameOK
<1>6. obs2 \notin Computeds
  BY <1>2, <1>4
<1>7. obs2 \in Effects => \E i \in 1..(n + 1) : ap[i].kind = "effect" /\ ap[i].node = obs2
  BY <1>1, <1>2 DEF Shape
<1> QED
  BY <1>1, <1>2, <1>3, <1>5, <1>6, <1>7 DEF Shape, ap

\* A flush moving on in its batch.
LEMMA ShapeFlushMoves ==
  ASSUME NEW st \in Seq(Frames), st # <<>>, NEW obs \in Observers \cup {None}, Shape(st, obs),
         st[Len(st)].kind = "flush", NEW f \in Frames, f.kind = "flush", f.prev = st[Len(st)].prev
  PROVE  Shape(Append(Front(st), f), obs)
<1> DEFINE n == Len(st)
           ap == Append(Front(st), f)
<1>1. /\ n \in Nat \ {0} /\ Front(st) \in Seq(Frames) /\ Len(Front(st)) = n - 1
      /\ \A i \in 1..(n - 1) : Front(st)[i] = st[i]
  BY FrontFacts
<1>2. Len(ap) = n /\ ap[n] = f /\ \A i \in 1..(n - 1) : ap[i] = st[i]
  BY <1>1, AppendFacts
<1> HIDE DEF ap
<1>3. \A i \in 1..n : FrameOK(ap, i)
  <2>1. \A i \in 1..n : FrameOK(st, i)
    BY DEF Shape
  <2>2. \A i \in 1..(n - 1) : FrameOK(ap, i)
    <3> DEFINE m == n - 1
    <3>1. m \in Nat /\ \A i \in 1..m : ap[i] = st[i] /\ FrameOK(st, i)
      BY <1>1, <1>2, <2>1
    <3> HIDE DEF m
    <3>2. \A i \in 1..m : FrameOK(ap, i)
      BY <3>1, FrameKept, Zenon
    <3> QED
      BY <3>2 DEF m
  <2>3. f.prev \notin Computeds
    BY <1>1, <2>1 DEF FrameOK
  <2>4. f.prev \in Effects =>
          \E j \in 1..(n - 1) : ap[j].kind = "effect" /\ ap[j].node = f.prev
    <3>1. SUFFICES ASSUME st[n].prev \in Effects
                   PROVE  \E j \in 1..(n - 1) : ap[j].kind = "effect" /\ ap[j].node = st[n].prev
      OBVIOUS
    <3>2. PICK j \in 1..(n - 1) : st[j].kind = "effect" /\ st[j].node = st[n].prev
      BY <1>1, <2>1, <3>1 DEF FrameOK
    <3> QED
      BY <1>2, <3>2
  <2>5. FrameOK(ap, n)
    <3>1. ap[n] = f
      BY <1>2
    <3> HIDE DEF n
    <3> QED
      BY <2>3, <2>4, <3>1 DEF FrameOK
  <2> QED
    BY <1>1, <2>2, <2>5
<1>4. \A i \in 1..n : ap[i].kind = st[i].kind /\ (st[i].kind # "flush" => ap[i] = st[i])
  BY <1>1, <1>2
<1> QED
  BY <1>1, <1>2, <1>3, <1>4 DEF Shape, ap

\* A computed being evaluated is flagged so, and stale; so is one without value.
FlagsOK ==
  /\ \A c \in Computeds : ~hasValue[c] => stale[c]
  /\ \A i \in 1..Len(stack) :
       stack[i].kind = "computed" => computing[stack[i].node] /\ stale[stack[i].node]

StackInv == Shape(stack, currentObserver) /\ FlagsOK

\* If the innermost call is not a computed's, no computed is being evaluated.
LEMMA NoneEvaluated ==
  ASSUME TypeOK, StackInv, stack = <<>> \/ Top.kind # "computed"
  PROVE  /\ \A i \in 1..Len(stack) : stack[i].kind # "computed"
         /\ currentObserver \notin Computeds
<1>1. stack \in Seq(Frames)
  BY DEF TypeOK
<1>2. CASE stack = <<>>
  BY <1>2 DEF StackInv, Shape
<1>3. CASE stack # <<>> /\ Top.kind # "computed"
  <2>1. Len(stack) \in Nat \ {0} /\ Top = stack[Len(stack)]
    BY <1>1, <1>3, FrontFacts DEF Top
  <2> QED
    BY <1>3, <2>1 DEF StackInv, Shape
<1> QED
  BY <1>2, <1>3

\* Stacks and flags of steps that leave the stack alone.
LEMMA StackUnchanged ==
  ASSUME TypeOK, StackInv, UNCHANGED <<stack, currentObserver>>,
         \A c \in Computeds : ~hasValue'[c] => stale'[c],
         \A c \in Computeds : computing[c] /\ stale[c] => computing'[c] /\ stale'[c]
  PROVE  StackInv'
<1>1. stack \in Seq(Frames)
  BY DEF TypeOK
<1> QED
  BY <1>1 DEF StackInv, FlagsOK, Shape, FrameOK

\* Stacks and flags of steps that leave the flags alone.
LEMMA FlagsUnchanged ==
  ASSUME TypeOK, StackInv, UNCHANGED <<stale, hasValue, computing>>,
         Shape(stack', currentObserver'), stack' \in Seq(Frames),
         \A j \in 1..Len(stack') : stack'[j].kind = "computed" =>
           \E i \in 1..Len(stack) : stack[i].kind = "computed" /\ stack[i].node = stack'[j].node
  PROVE  StackInv'
BY DEF StackInv, FlagsOK

LEMMA NextStackInv == TypeOK /\ TypeOK' /\ StackInv /\ [Next]_vars => StackInv'
<1> SUFFICES ASSUME TypeOK, TypeOK', StackInv, [Next]_vars PROVE StackInv'
  OBVIOUS
<1> USE DEF nodeVars, queueVars
<1>0. /\ stack \in Seq(Frames) /\ stack' \in Seq(Frames) /\ Shape(stack, currentObserver)
      /\ currentObserver \in Observers \cup {None}
      /\ stack # <<>> => /\ Len(stack) \in Nat \ {0} /\ Top = stack[Len(stack)]
                         /\ Front(stack) \in Seq(Frames) /\ Len(Front(stack)) = Len(stack) - 1
                         /\ \A i \in 1..(Len(stack) - 1) : Front(stack)[i] = stack[i]
  <2>1. /\ stack \in Seq(Frames) /\ stack' \in Seq(Frames)
        /\ currentObserver \in Observers \cup {None} /\ Shape(stack, currentObserver)
    BY DEF TypeOK, StackInv
  <2> QED
    BY <2>1, FrontFacts DEF Top
\* Pushing a frame that is not a computed's, with the flags unchanged.
<1>a. ASSUME NEW f \in Frames, f.kind # "computed", f.prev \in {currentObserver, None},
             f.kind = "effect" => f.node \in Effects, f.kind # "flush" => f.todo = {},
             currentObserver' = IF f.kind = "effect" THEN f.node ELSE currentObserver,
             stack = <<>> \/ Top.kind # "computed",
             Push(f), UNCHANGED <<stale, hasValue, computing>>
      PROVE  StackInv'
  <2>1. Len(stack) > 0 => stack[Len(stack)].kind # "computed"
    BY <1>a, <1>0
  <2>2. Shape(stack', currentObserver')
    BY <1>a, <1>0, <2>1, ShapePushOther DEF Push
  <2>3. \A j \in 1..Len(stack') : stack'[j].kind # "computed"
    <3>1. \A i \in 1..Len(stack) : stack[i].kind # "computed"
      BY <1>a, NoneEvaluated
    <3> QED
      BY <1>a, <1>0, <3>1, AppendFacts DEF Push
  <2> QED
    BY <1>a, <1>0, <2>2, <2>3, FlagsUnchanged
\* Popping a frame, with the flags unchanged.
<1>b. ASSUME stack # <<>>, Pop, UNCHANGED <<stale, hasValue, computing>>,
             Top.kind \in {"computed", "effect"} => currentObserver' = Top.prev,
             Top.kind \notin {"computed", "effect"} => currentObserver' = currentObserver
      PROVE  StackInv'
  <2>1. Shape(stack', currentObserver')
    BY <1>b, <1>0, ShapePop DEF Pop
  <2> QED
    BY <1>b, <1>0, <2>1, FlagsUnchanged DEF Pop
\* Replacing a flush by a flush.
<1>c. ASSUME stack # <<>>, Top.kind = "flush", NEW f \in Frames, f.kind = "flush",
             f.prev = Top.prev, ReplaceTop(f), UNCHANGED currentObserver,
             UNCHANGED <<stale, hasValue, computing>>
      PROVE  StackInv'
  <2>1. Shape(stack', currentObserver')
    BY <1>c, <1>0, ShapeFlushMoves DEF ReplaceTop
  <2>2. \A j \in 1..Len(stack') : stack'[j].kind # "computed"
    <3>1. \A i \in 1..Len(stack) : stack[i].kind # "computed"
      BY <1>c, NoneEvaluated
    <3> QED
      BY <1>c, <1>0, <3>1, AppendFacts DEF ReplaceTop
  <2> QED
    BY <1>c, <1>0, <2>1, <2>2, FlagsUnchanged
<1>1. ASSUME NEW d \in Sources, ReadFresh(d) PROVE StackInv'
  BY <1>1, StackUnchanged DEF ReadFresh, StackInv, FlagsOK
<1>2. ASSUME NEW c \in Computeds, ReadCycle(c) PROVE StackInv'
  BY <1>2, StackUnchanged DEF ReadCycle, StackInv, FlagsOK
<1>3. ASSUME NEW c \in Computeds, Recompute(c) PROVE StackInv'
  <2> DEFINE f == Call("computed", c)
  <2>1. /\ f \in Frames /\ f.kind = "computed" /\ f.node = c /\ f.todo = {}
        /\ f.prev = currentObserver
    <3>1. f \in Frames
      BY CallType DEF FrameKinds, Observers
    <3> QED
      BY <3>1 DEF Call
  <2> HIDE DEF f
  <2>2. /\ stack' = Append(stack, f) /\ currentObserver' = c /\ ~computing[c] /\ stale[c]
        /\ computing' = [computing EXCEPT ![c] = TRUE] /\ UNCHANGED <<stale, hasValue>>
    BY <1>3 DEF Recompute, Push, f, Fresh, StackInv, FlagsOK
  <2>3. \A i \in 1..Len(stack) : stack[i].kind = "computed" => stack[i].node # c
    BY <2>2 DEF StackInv, FlagsOK
  <2>4. Shape(stack', currentObserver')
    BY <1>0, <2>1, <2>2, <2>3, ShapePushComputed
  <2>5. /\ Len(stack') = Len(stack) + 1 /\ stack'[Len(stack) + 1] = f
        /\ \A i \in 1..Len(stack) : stack'[i] = stack[i]
    BY <1>0, <2>1, <2>2, AppendFacts
  <2>6. computing \in [Computeds -> BOOLEAN]
    BY DEF TypeOK
  <2>7. FlagsOK'
    BY <1>0, <2>1, <2>2, <2>5, <2>6 DEF StackInv, FlagsOK, Shape, FrameOK
  <2> QED
    BY <2>4, <2>7 DEF StackInv
<1>4. ASSUME NEW v \in Values, ComputedReturn(v) PROVE StackInv'
  <2>1. stack # <<>> /\ Top.kind = "computed" /\ stack' = Front(stack)
        /\ currentObserver' = Top.prev
    BY <1>4 DEF ComputedReturn, TopIs, Pop
  <2>2. Shape(stack', currentObserver')
    BY <1>0, <2>1, ShapePop
  <2>3. \A i \in 1..Len(stack') : stack'[i].kind = "computed" => stack'[i].node # Top.node
    BY <1>0, <2>1 DEF Shape
  <2>4. /\ stale' = [stale EXCEPT ![Top.node] = FALSE]
        /\ hasValue' = [hasValue EXCEPT ![Top.node] = TRUE]
        /\ computing' = [computing EXCEPT ![Top.node] = FALSE]
    BY <1>4 DEF ComputedReturn
  <2>5. /\ stale \in [Computeds -> BOOLEAN] /\ hasValue \in [Computeds -> BOOLEAN]
        /\ computing \in [Computeds -> BOOLEAN]
    BY DEF TypeOK
  <2>6. \A i \in 1..Len(stack') : stack'[i] = stack[i] /\ i \in 1..Len(stack)
    BY <1>0, <2>1
  <2>7. FlagsOK'
    BY <1>0, <2>3, <2>4, <2>5, <2>6 DEF StackInv, FlagsOK, Shape, FrameOK
  <2> QED
    BY <2>2, <2>7 DEF StackInv
<1>5. ASSUME NEW c \in Computeds, DisposeComputed(c) PROVE StackInv'
  <2>1. stale \in [Computeds -> BOOLEAN] /\ hasValue \in [Computeds -> BOOLEAN]
    BY DEF TypeOK
  <2> QED
    BY <1>5, <2>1, StackUnchanged DEF DisposeComputed, StackInv, FlagsOK
<1>6. ASSUME NEW s \in Signals, NEW v \in Values, SetSignal(s, v) PROVE StackInv'
  <2>1. stale \in [Computeds -> BOOLEAN] /\ hasValue \in [Computeds -> BOOLEAN]
    BY DEF TypeOK
  <2> QED
    BY <1>6, <2>1, StackUnchanged DEF SetSignal, StackInv, FlagsOK
<1>d. ASSUME NEW e \in Effects
      PROVE  LET f == Call("effect", e)
             IN /\ f \in Frames /\ f.kind = "effect" /\ f.node = e /\ f.todo = {}
                /\ f.prev = currentObserver
  BY CallType DEF FrameKinds, Observers, Call
<1>7. ASSUME NEW e \in Effects, CreateEffect(e) PROVE StackInv'
  <2>1. /\ Push(Call("effect", e)) /\ currentObserver' = e
        /\ UNCHANGED <<stale, hasValue, computing>>
        /\ stack = <<>> \/ Top.kind # "computed"
    BY <1>7 DEF CreateEffect, StartRun, Push, Imperative, Idle, TopIs
  <2> QED
    BY <1>a, <1>d, <2>1
<1>8. CASE OnCleanup
  BY <1>8, StackUnchanged DEF OnCleanup, StackInv, FlagsOK
<1>9. CASE EffectReturn
  BY <1>9, <1>b DEF EffectReturn, LeaveEffect, TopIs
<1>10. ASSUME NEW e \in Effects, DisposeEffect(e) PROVE StackInv'
  BY <1>10, StackUnchanged DEF DisposeEffect, StackInv, FlagsOK
<1>11. CASE BatchBegin
  <2>1. LET f == Call("batch", None)
        IN f \in Frames /\ f.kind = "batch" /\ f.todo = {} /\ f.prev = currentObserver
    BY CallType DEF FrameKinds, Call
  <2>2. /\ Push(Call("batch", None)) /\ UNCHANGED <<currentObserver, stale, hasValue, computing>>
        /\ stack = <<>> \/ Top.kind # "computed"
    BY <1>11 DEF BatchBegin, Imperative, Idle, TopIs
  <2> QED
    BY <1>a, <2>1, <2>2
<1>12. ASSUME NEW r \in Errors, stack # <<>>, Top.kind = "batch", LeaveBatch(r)
       PROVE  StackInv'
  <2>1. UNCHANGED <<currentObserver, stale, hasValue, computing>>
    BY <1>12 DEF LeaveBatch
  <2>2. CASE batchDepth # 1
    BY <1>12, <1>b, <2>1, <2>2 DEF LeaveBatch
  <2>3. CASE batchDepth = 1
    <3> DEFINE f == FlushCall(r)
    <3>1. f \in Frames /\ f.kind = "flush" /\ f.prev = None
      BY FlushCallType DEF FlushCall
    <3>2. stack' = Append(Front(stack), f)
      BY <1>12, <2>3 DEF LeaveBatch, ReplaceTop
    <3> HIDE DEF f
    <3>3. \A i \in 1..Len(stack) : stack[i].kind # "computed"
      BY <1>12, NoneEvaluated
    <3>4. Shape(Front(stack), currentObserver)
      BY <1>0, <1>12, ShapePop
    <3>5. Len(Front(stack)) > 0 => Front(stack)[Len(Front(stack))].kind # "computed"
      BY <1>0, <1>12, <3>3
    <3>6. Shape(stack', currentObserver')
      BY <1>0, <1>12, <2>1, <3>1, <3>2, <3>4, <3>5, ShapePushOther
    <3>7. \A j \in 1..Len(stack') : stack'[j].kind # "computed"
      BY <1>0, <1>12, <3>1, <3>2, <3>3, AppendFacts
    <3> QED
      BY <1>0, <2>1, <3>6, <3>7, FlagsUnchanged
  <2> QED
    BY <2>2, <2>3
<1>13. CASE BatchEnd
  BY <1>12, <1>13 DEF BatchEnd, TopIs, Errors
<1>14. CASE UnwindBatch
  BY <1>12, <1>14 DEF UnwindBatch, TopIs, TypeOK
<1>15. CASE MicrotaskFlush
  <2>1. LET f == FlushCall("none") IN f \in Frames /\ f.kind = "flush" /\ f.prev = None
    BY FlushCallType DEF FlushCall, Errors
  <2> QED
    BY <1>15, <1>a, <2>1 DEF MicrotaskFlush, Idle
<1>e. Flushing => stack # <<>> /\ Top.kind = "flush" /\ Top \in Frames
  BY TopType DEF Flushing, TopIs
<1>16. CASE FlushTakeBatch
  <2> DEFINE f == [Top EXCEPT !.todo = effectQ, !.loops = @ + 1]
  <2>1. Flushing /\ ReplaceTop(f) /\ UNCHANGED <<currentObserver, stale, hasValue, computing>>
    BY <1>16 DEF FlushTakeBatch
  <2>2. f \in Frames /\ f.kind = "flush" /\ f.prev = Top.prev
    <3>1. Top.loops + 1 \in Nat /\ effectQ \in SUBSET Effects
      BY <1>e, <2>1, TopType DEF TypeOK
    <3> QED
      BY <1>e, <2>1, <3>1 DEF Frames
  <2> QED
    BY <1>c, <1>e, <2>1, <2>2
<1>17. CASE FlushGiveUp
  BY <1>17, StackUnchanged DEF FlushGiveUp, StackInv, FlagsOK
<1>f. ASSUME NEW e \in Effects, Flushing
      PROVE  LET f == [Top EXCEPT !.todo = @ \ {e}]
             IN f \in Frames /\ f.kind = "flush" /\ f.prev = Top.prev
  BY <1>e, <1>f DEF Frames
<1>18. ASSUME NEW e \in Effects, FlushSkip(e) PROVE StackInv'
  <2>1. /\ Flushing /\ ReplaceTop([Top EXCEPT !.todo = @ \ {e}])
        /\ UNCHANGED <<currentObserver, stale, hasValue, computing>>
    BY <1>18 DEF FlushSkip
  <2> QED
    BY <1>c, <1>e, <1>f, <2>1
<1>19. ASSUME NEW e \in Effects, FlushRun(e) PROVE StackInv'
  <2> DEFINE f == [Top EXCEPT !.todo = @ \ {e}]
             base == Append(Front(stack), f)
             g == Call("effect", e)
  <2>1. /\ Flushing /\ stack' = Append(base, g) /\ currentObserver' = e
        /\ UNCHANGED <<stale, hasValue, computing>>
    BY <1>19 DEF FlushRun, StartRun
  <2>2. f \in Frames /\ f.kind = "flush" /\ f.prev = Top.prev
    BY <1>f, <2>1
  <2>3. g \in Frames /\ g.kind = "effect" /\ g.node = e /\ g.todo = {} /\ g.prev = currentObserver
    BY <1>d
  <2> HIDE DEF f, g
  <2>4. base \in Seq(Frames) /\ Shape(base, currentObserver)
    BY <1>0, <1>e, <2>1, <2>2, ShapeFlushMoves, AppendFacts
  <2>5. Len(base) = Len(stack) /\ base[Len(base)] = f
        /\ \A i \in 1..(Len(stack) - 1) : base[i] = stack[i]
    BY <1>0, <1>e, <2>1, <2>2, AppendFacts
  <2> HIDE DEF base
  <2>6. Shape(stack', currentObserver')
    BY <1>0, <2>1, <2>2, <2>3, <2>4, <2>5, ShapePushOther
  <2>7. \A j \in 1..Len(stack') : stack'[j].kind # "computed"
    <3>1. \A i \in 1..Len(stack) : stack[i].kind # "computed"
      BY <1>e, <2>1, NoneEvaluated
    <3>2. \A i \in 1..Len(base) : base[i].kind # "computed"
      <4>1. Len(stack) \in Nat \ {0}
        BY <1>0, <1>e, <2>1
      <4>2. base[Len(base)].kind # "computed"
        BY <2>2, <2>5
      <4> QED
        BY <2>5, <3>1, <4>1, <4>2
    <3> QED
      BY <2>1, <2>3, <2>4, <3>2, AppendFacts
  <2> QED
    BY <1>0, <2>1, <2>6, <2>7, FlagsUnchanged
<1>20. CASE FlushDone
  BY <1>20, <1>b, <1>e DEF FlushDone
<1>21. CASE Throw \/ Catch
  BY <1>21, StackUnchanged DEF Throw, Catch, StackInv, FlagsOK
<1>22. CASE UnwindComputed
  BY <1>22, <1>b DEF UnwindComputed, TopIs
<1>23. CASE UnwindEffect
  BY <1>23, <1>b DEF UnwindEffect, LeaveEffect, TopIs
<1>24. CASE UnwindFlush
  BY <1>24, <1>b DEF UnwindFlush, TopIs
<1>25. CASE UNCHANGED vars
  BY <1>25, StackUnchanged DEF vars, StackInv, FlagsOK
<1> QED
  BY <1>1, <1>2, <1>3, <1>4, <1>5, <1>6, <1>7, <1>8, <1>9, <1>10, <1>11, <1>13, <1>14,
     <1>15, <1>16, <1>17, <1>18, <1>19, <1>20, <1>21, <1>22, <1>23, <1>24, <1>25 DEF Next

LEMMA InitStackInv == Init => StackInv
<1> SUFFICES ASSUME Init PROVE StackInv
  OBVIOUS
<1>1. Len(stack) = 0
  BY DEF Init
<1>2. None \notin Computeds /\ None \notin Effects
  BY KindsAssumption
<1> QED
  BY <1>1, <1>2 DEF Init, StackInv, Shape, FlagsOK

-----------------------------------------------------------------------------
(* Values *)

NoneOnStack == \A i \in 1..Len(stack) : stack[i].kind # "computed"

\* The steps below never leave a computed's function on the stack.
QuietStep ==
  \/ \E c \in Computeds : DisposeComputed(c)
  \/ \E s \in Signals, v \in Values : SetSignal(s, v)
  \/ \E e \in Effects : CreateEffect(e) \/ DisposeEffect(e) \/ FlushSkip(e) \/ FlushRun(e)
  \/ OnCleanup \/ EffectReturn \/ BatchBegin \/ BatchEnd \/ MicrotaskFlush
  \/ FlushTakeBatch \/ FlushGiveUp \/ FlushDone \/ Catch
  \/ UnwindEffect \/ UnwindBatch \/ UnwindFlush

LEMMA QuietStepOnStack ==
  ASSUME TypeOK, TypeOK', StackInv, StackInv', QuietStep
  PROVE  NoneOnStack /\ NoneOnStack'
<1> USE DEF nodeVars, queueVars
<1>1. stack = <<>> \/ Top.kind # "computed"
  BY DEF QuietStep, DisposeComputed, SetSignal, CreateEffect, DisposeEffect, FlushSkip, FlushRun,
         OnCleanup, EffectReturn, BatchBegin, BatchEnd, MicrotaskFlush, FlushTakeBatch,
         FlushGiveUp, FlushDone, Catch, UnwindEffect, UnwindBatch, UnwindFlush, Imperative,
         Flushing, Idle, TopIs
<1>2. NoneOnStack
  BY <1>1, NoneEvaluated DEF NoneOnStack
<1>3. stack \in Seq(Frames) /\ stack' \in Seq(Frames)
  BY DEF TypeOK
<1>a. ASSUME NEW f \in Frames, f.kind # "computed", Push(f) PROVE NoneOnStack'
  BY <1>2, <1>3, <1>a, AppendFacts DEF NoneOnStack, Push
<1>b. ASSUME stack # <<>>, Pop PROVE NoneOnStack'
  <2>1. /\ Len(stack) \in Nat \ {0} /\ Len(Front(stack)) = Len(stack) - 1
        /\ \A i \in 1..(Len(stack) - 1) : Front(stack)[i] = stack[i]
    BY <1>3, <1>b, FrontFacts
  <2>2. /\ Len(stack') = Len(stack) - 1
        /\ \A i \in 1..(Len(stack) - 1) : stack'[i] = stack[i]
    BY <1>b, <2>1, Zenon DEF Pop
  <2> QED
    BY <1>2, <2>1, <2>2 DEF NoneOnStack
<1>c. ASSUME stack # <<>>, NEW f \in Frames, f.kind # "computed", ReplaceTop(f)
      PROVE  NoneOnStack'
  <2>1. /\ Len(stack) \in Nat \ {0} /\ Front(stack) \in Seq(Frames)
        /\ Len(Front(stack)) = Len(stack) - 1
        /\ \A i \in 1..(Len(stack) - 1) : Front(stack)[i] = stack[i]
    BY <1>3, <1>c, FrontFacts
  <2>2. /\ Len(stack') = Len(stack) /\ stack'[Len(stack)] = f
        /\ \A i \in 1..(Len(stack) - 1) : stack'[i] = stack[i]
    BY <1>c, <2>1, AppendFacts DEF ReplaceTop
  <2> QED
    BY <1>2, <1>c, <2>1, <2>2 DEF NoneOnStack
<1>d. UNCHANGED stack => NoneOnStack'
  BY <1>2 DEF NoneOnStack
<1>4. ASSUME NEW e \in Effects, CreateEffect(e) PROVE NoneOnStack'
  <2>1. Call("effect", e) \in Frames /\ Call("effect", e).kind # "computed"
    BY CallType DEF FrameKinds, Observers, Call
  <2> QED
    BY <1>4, <1>a, <2>1 DEF CreateEffect, StartRun, Push
<1>5. ASSUME NEW e \in Effects, Flushing
      PROVE  LET f == [Top EXCEPT !.todo = @ \ {e}] IN f \in Frames /\ f.kind # "computed"
  BY <1>5, TopType DEF Flushing, TopIs, Frames
<1>6. ASSUME NEW e \in Effects, FlushSkip(e) PROVE NoneOnStack'
  BY <1>6, <1>c, <1>5 DEF FlushSkip, Flushing, TopIs
<1>7. ASSUME NEW e \in Effects, FlushRun(e) PROVE NoneOnStack'
  <2> DEFINE f == [Top EXCEPT !.todo = @ \ {e}]
             base == Append(Front(stack), f)
             g == Call("effect", e)
  <2>1. Flushing /\ stack # <<>> /\ stack' = Append(base, g)
    BY <1>7 DEF FlushRun, StartRun, Flushing, TopIs
  <2>2. f \in Frames /\ f.kind # "computed" /\ g \in Frames /\ g.kind # "computed"
    BY <1>5, <2>1, CallType DEF FrameKinds, Observers, Call
  <2> HIDE DEF f, g
  <2>3. /\ Len(stack) \in Nat \ {0} /\ Front(stack) \in Seq(Frames)
        /\ Len(Front(stack)) = Len(stack) - 1
        /\ \A i \in 1..(Len(stack) - 1) : Front(stack)[i] = stack[i]
    BY <1>3, <2>1, FrontFacts
  <2>4. /\ base \in Seq(Frames) /\ Len(base) = Len(stack) /\ base[Len(stack)] = f
        /\ \A i \in 1..(Len(stack) - 1) : base[i] = stack[i]
    BY <2>2, <2>3, AppendFacts
  <2> HIDE DEF base
  <2>5. /\ Len(stack') = Len(stack) + 1 /\ stack'[Len(stack) + 1] = g
        /\ \A i \in 1..Len(stack) : stack'[i] = base[i]
    BY <2>1, <2>2, <2>4, AppendFacts
  <2> QED
    BY <1>2, <2>2, <2>3, <2>4, <2>5 DEF NoneOnStack
<1>8. ASSUME BatchBegin PROVE NoneOnStack'
  <2>1. Call("batch", None) \in Frames /\ Call("batch", None).kind # "computed"
    BY CallType DEF FrameKinds, Call
  <2> QED
    BY <1>8, <1>a, <2>1 DEF BatchBegin
<1>9. ASSUME NEW r \in Errors, stack # <<>>, LeaveBatch(r) PROVE NoneOnStack'
  <2>1. FlushCall(r) \in Frames /\ FlushCall(r).kind # "computed"
    BY FlushCallType DEF FlushCall
  <2> QED
    BY <1>9, <1>b, <1>c, <2>1 DEF LeaveBatch
<1>10. ASSUME BatchEnd PROVE NoneOnStack'
  BY <1>9, <1>10 DEF BatchEnd, TopIs, Errors
<1>11. ASSUME UnwindBatch PROVE NoneOnStack'
  BY <1>9, <1>11 DEF UnwindBatch, TopIs, TypeOK
<1>12. ASSUME MicrotaskFlush PROVE NoneOnStack'
  <2>1. FlushCall("none") \in Frames /\ FlushCall("none").kind # "computed"
    BY FlushCallType DEF FlushCall, Errors
  <2> QED
    BY <1>12, <1>a, <2>1 DEF MicrotaskFlush
<1>13. ASSUME FlushTakeBatch PROVE NoneOnStack'
  <2>1. LET f == [Top EXCEPT !.todo = effectQ, !.loops = @ + 1]
        IN f \in Frames /\ f.kind # "computed"
    <3>1. Top \in Frames /\ Top.kind # "computed" /\ Top.loops + 1 \in Nat
      BY <1>13, TopType DEF FlushTakeBatch, Flushing, TopIs
    <3>2. effectQ \in SUBSET Effects
      BY DEF TypeOK
    <3> QED
      BY <3>1, <3>2 DEF Frames
  <2> QED
    BY <1>13, <1>c, <2>1 DEF FlushTakeBatch, Flushing, TopIs
<1>14. ASSUME EffectReturn \/ UnwindEffect \/ UnwindFlush \/ FlushDone PROVE NoneOnStack'
  BY <1>14, <1>b DEF EffectReturn, UnwindEffect, LeaveEffect, UnwindFlush, FlushDone, Flushing, TopIs
<1>15. ASSUME OnCleanup \/ FlushGiveUp \/ Catch PROVE NoneOnStack'
  BY <1>15, <1>d DEF OnCleanup, FlushGiveUp, Catch
<1>16. ASSUME NEW c \in Computeds, DisposeComputed(c) PROVE NoneOnStack'
  BY <1>16, <1>d DEF DisposeComputed
<1>17. ASSUME NEW s \in Signals, NEW v \in Values, SetSignal(s, v) PROVE NoneOnStack'
  BY <1>17, <1>d DEF SetSignal
<1>18. ASSUME NEW e \in Effects, DisposeEffect(e) PROVE NoneOnStack'
  BY <1>18, <1>d DEF DisposeEffect
<1> QED
  BY <1>2, <1>4, <1>6, <1>7, <1>8, <1>10, <1>11, <1>12, <1>13, <1>14, <1>15, <1>16, <1>17,
     <1>18 DEF QuietStep

Evaluated(c) == \E i \in 1..Len(stack) : stack[i].kind = "computed" /\ stack[i].node = c

\* The function of o is reading d, which is being evaluated for it.
ReadBy(o, d) ==
  \E j \in 1..Len(stack) :
    stack[j].kind = "computed" /\ stack[j].node = d /\ stack[j].prev = o

\* What a computed has read so far is current, or being evaluated for it; once
\* an exception is in flight no computed on the stack will return.
EvaluationFresh ==
  raised = "none" =>
    \A c \in Computeds : Evaluated(c) => \A d \in deps[c] : Current(c, d) \/ ReadBy(c, d)

\* The dependency d of o is current, or is a computed that threw or is being
\* evaluated, and then for o and nobody else.
Settled(o, d) ==
  \/ Current(o, d)
  \/ /\ d \in Computeds /\ computing[d]
     /\ raised = "none" => \A j \in 1..Len(stack) :
          (stack[j].kind = "computed" /\ stack[j].node = d) => stack[j].prev = o

Owed(e) == e \in effectQ \/ e \in dropped \/ \E i \in 1..Len(stack) : e \in stack[i].todo

EffectsSettled ==
  \A e \in Effects : status[e] = "live" => Owed(e) \/ \A d \in deps[e] : Settled(e, d)

\* A computed that is good is linked to current values only.
LinksFresh == \A c \in Computeds : ~stale[c] => \A d \in deps[c] : Current(c, d)

FreshInv == LinksFresh /\ EvaluationFresh /\ EffectsSettled

\* Steps that leave the graph, the values and the flags alone.
LEMMA FreshUnchanged ==
  ASSUME FreshInv, UNCHANGED <<val, deps, stale, computing, seen, status>>,
         \A e \in Effects : status[e] = "live" /\ Owed(e) => Owed(e)',
         \/ NoneOnStack'
         \/ raised' # "none"
         \/ UNCHANGED <<stack, raised>>
  PROVE  FreshInv'
<1>1. LinksFresh'
  BY DEF FreshInv, LinksFresh, Current
<1>2. EvaluationFresh'
  BY DEF FreshInv, EvaluationFresh, Evaluated, NoneOnStack, ReadBy, Current
<1>3. ASSUME NEW e, NEW d, Settled(e, d) PROVE Settled(e, d)'
  BY <1>3 DEF Settled, NoneOnStack, Current
<1> QED
  BY <1>1, <1>2, <1>3 DEF FreshInv, EffectsSettled

\* Starting a run of e, which drops all that e has read.
LEMMA FreshAtStart ==
  ASSUME TypeOK, FreshInv, NEW e \in Effects, NEW base, StartRun(e, base),
         UNCHANGED <<val, stale, computing>>,
         \A a \in Effects : a # e => status'[a] = status[a] /\ (Owed(a) => Owed(a)'),
         NoneOnStack'
  PROVE  FreshInv'
<1>1. /\ deps \in [Observers -> SUBSET Sources] /\ deps' = [deps EXCEPT ![e] = {}]
      /\ seen \in [Observers -> [Sources -> Values \cup {None}]]
      /\ seen' = [seen EXCEPT ![e] = NoReads]
  BY DEF TypeOK, StartRun, Forget, UnlinkDeps
<1>2. e \notin Computeds
  BY KindsAssumption
<1>3. LinksFresh'
  BY <1>1, <1>2 DEF FreshInv, LinksFresh, Current, Observers
<1>4. EvaluationFresh'
  BY DEF EvaluationFresh, Evaluated, NoneOnStack
<1>5. EffectsSettled'
  <2> SUFFICES ASSUME NEW a \in Effects, status'[a] = "live", ~Owed(a)', NEW d \in deps'[a]
               PROVE  Settled(a, d)'
    BY DEF EffectsSettled
  <2>1. a # e /\ d \in deps[a] /\ status[a] = "live" /\ ~Owed(a)
    BY <1>1 DEF Observers
  <2>2. Settled(a, d)
    BY <2>1 DEF FreshInv, EffectsSettled
  <2> QED
    BY <1>1, <2>1, <2>2 DEF Settled, Current, NoneOnStack, Observers
<1> QED
  BY <1>3, <1>4, <1>5 DEF FreshInv

\* get() of what needs no evaluation.
LEMMA FreshAfterRead ==
  ASSUME TypeOK, FreshInv, NEW d \in Sources, ReadFresh(d)
  PROVE  FreshInv'
<1>1. /\ UNCHANGED <<val, stale, computing, status, stack, raised, effectQ, dropped>>
      /\ d \in Computeds => ~stale[d]
  BY DEF ReadFresh, Fresh, queueVars
<1>2. CASE currentObserver = None
  <2>1. UNCHANGED <<deps, seen>>
    BY <1>2 DEF ReadFresh, Track, LinkDeps, Remember
  <2> QED
    BY <1>1, <2>1, FreshUnchanged DEF Owed
<1>3. CASE currentObserver # None
  <2> DEFINE o == currentObserver
  <2>1. /\ o \in Observers /\ deps \in [Observers -> SUBSET Sources]
        /\ seen \in [Observers -> [Sources -> Values \cup {None}]]
    BY <1>3 DEF TypeOK
  <2>2. deps' = [deps EXCEPT ![o] = @ \cup {d}] /\ seen' = [seen EXCEPT ![o][d] = val[d]]
    BY <1>3 DEF ReadFresh, Track, LinkDeps, Remember
  <2>3. ASSUME NEW a \in Observers, NEW x \in deps'[a]
        PROVE  Current(a, x)' \/ (x \in deps[a] /\ (Current(a, x) => Current(a, x)'))
    <3>1. CASE a = o /\ x = d
      BY <1>1, <2>1, <2>2, <3>1 DEF Current
    <3>2. CASE ~(a = o /\ x = d)
      <4>1. x \in deps[a] /\ x \in Sources
        BY <2>1, <2>2, <2>3, <3>2
      <4>2. seen'[a][x] = seen[a][x]
        BY <2>1, <2>2, <3>2, <4>1
      <4> QED
        BY <1>1, <4>1, <4>2 DEF Current
    <3> QED
      BY <3>1, <3>2
  <2>4. LinksFresh'
    BY <1>1, <2>3 DEF FreshInv, LinksFresh, Observers
  <2>5. EvaluationFresh'
    BY <1>1, <2>3 DEF FreshInv, EvaluationFresh, Evaluated, ReadBy, Observers
  <2>6. EffectsSettled'
    <3> SUFFICES ASSUME NEW a \in Effects, status'[a] = "live", ~Owed(a)', NEW x \in deps'[a]
                 PROVE  Settled(a, x)'
      BY DEF EffectsSettled
    <3>1. status[a] = "live" /\ ~Owed(a)
      BY <1>1 DEF Owed
    <3>2. Current(a, x)' \/ (x \in deps[a] /\ (Current(a, x) => Current(a, x)'))
      BY <2>3 DEF Observers
    <3>3. x \in deps[a] => Settled(a, x)
      BY <3>1 DEF FreshInv, EffectsSettled
    <3> QED
      BY <1>1, <3>2, <3>3 DEF Settled
  <2> QED
    BY <2>4, <2>5, <2>6 DEF FreshInv
<1> QED
  BY <1>2, <1>3

\* The current observer, if it is a computed, is being evaluated.
LEMMA ObserverEvaluated ==
  ASSUME StackInv, currentObserver \in Computeds
  PROVE  Evaluated(currentObserver) /\ stale[currentObserver] /\ computing[currentObserver]
BY DEF StackInv, Shape, FlagsOK, Evaluated

\* get() of a stale computed, up to the call of its function.
LEMMA FreshAtRecompute ==
  ASSUME TypeOK, StackInv, FreshInv, NEW c \in Computeds, Recompute(c)
  PROVE  FreshInv'
<1> DEFINE o == currentObserver
<1>1. /\ raised = "none" /\ ~computing[c] /\ stale[c]
      /\ UNCHANGED <<val, stale, status, raised, effectQ, dropped>>
      /\ computing' = [computing EXCEPT ![c] = TRUE]
      /\ computing \in [Computeds -> BOOLEAN]
  BY DEF Recompute, UserCode, Fresh, queueVars, StackInv, FlagsOK, TypeOK
<1>2. /\ c \in Observers /\ o \in Observers \cup {None} /\ o # c
      /\ deps \in [Observers -> SUBSET Sources]
      /\ seen \in [Observers -> [Sources -> Values \cup {None}]]
      /\ None \notin Observers
  BY <1>1, ObserverEvaluated, KindsAssumption DEF Observers, TypeOK
<1>3. seen' = [seen EXCEPT ![c] = NoReads]
  BY DEF Recompute, Forget
<1>4. deps' = UnlinkDeps(c, LinkDeps(o, c))
  BY DEF Recompute
<1>5. /\ deps'[c] = {}
      /\ \A a \in Observers : a \notin {c, o} => deps'[a] = deps[a]
      /\ o # None => deps'[o] = deps[o] \cup {c}
  BY <1>2, <1>4 DEF UnlinkDeps, LinkDeps
<1> DEFINE f == Call("computed", c)
           n == Len(stack)
<1>6. f.kind = "computed" /\ f.node = c /\ f.prev = o /\ f.todo = {} /\ f \in Frames
  <2>1. f \in Frames
    BY <1>2, CallType DEF FrameKinds
  <2> QED
    BY <2>1 DEF Call
<1> HIDE DEF f
<1>7. /\ n \in Nat /\ Len(stack') = n + 1 /\ stack'[n + 1] = f
      /\ \A i \in 1..n : stack'[i] = stack[i]
  <2>1. stack \in Seq(Frames) /\ stack' = Append(stack, f)
    BY DEF TypeOK, Recompute, Push, f
  <2> QED
    BY <1>6, <2>1, AppendFacts
<1>8. ~Evaluated(c)
  BY <1>1 DEF StackInv, FlagsOK, Evaluated
<1>9. ASSUME NEW a \in Observers, a # c, NEW x \in deps[a], Current(a, x) PROVE Current(a, x)'
  BY <1>1, <1>2, <1>3, <1>9 DEF Current
<1>10. LinksFresh'
  <2> SUFFICES ASSUME NEW a \in Computeds, ~stale'[a], NEW x \in deps'[a] PROVE Current(a, x)'
    BY DEF LinksFresh
  <2>1. a # c /\ a # o
    BY <1>1, ObserverEvaluated
  <2> QED
    BY <1>1, <1>5, <1>9, <2>1 DEF FreshInv, LinksFresh, Observers
<1>11. EvaluationFresh'
  <2> SUFFICES ASSUME NEW a \in Computeds, Evaluated(a)', NEW x \in deps'[a]
               PROVE  Current(a, x)' \/ ReadBy(a, x)'
    BY DEF EvaluationFresh
  <2>1. a # c
    BY <1>5
  <2>2. Evaluated(a)
    BY <1>6, <1>7, <2>1 DEF Evaluated
  <2>3. CASE x \in deps[a]
    <3>1. Current(a, x) \/ ReadBy(a, x)
      BY <1>1, <2>2, <2>3 DEF FreshInv, EvaluationFresh
    <3>2. ReadBy(a, x) => ReadBy(a, x)'
      BY <1>7 DEF ReadBy
    <3> QED
      BY <1>9, <2>1, <2>3, <3>1, <3>2 DEF Observers
  <2>4. CASE x \notin deps[a]
    <3>1. a = o /\ x = c
      BY <1>2, <1>5, <2>1, <2>4 DEF Observers
    <3> QED
      BY <1>6, <1>7, <3>1 DEF ReadBy
  <2> QED
    BY <2>3, <2>4
<1>12. EffectsSettled'
  <2> SUFFICES ASSUME NEW e \in Effects, status'[e] = "live", ~Owed(e)', NEW x \in deps'[e]
               PROVE  Settled(e, x)'
    BY DEF EffectsSettled
  <2>1. status[e] = "live" /\ ~Owed(e)
    BY <1>1, <1>6, <1>7 DEF Owed
  <2>2. e \in Observers /\ e # c
    BY KindsAssumption DEF Observers
  <2>3. CASE x \in deps[e]
    <3>1. Settled(e, x)
      BY <2>1, <2>3 DEF FreshInv, EffectsSettled
    <3>2. x # c
      BY <1>1, <3>1 DEF Settled, Current
    <3> QED
      BY <1>1, <1>6, <1>7, <1>9, <2>2, <2>3, <3>1, <3>2 DEF Settled
  <2>4. CASE x \notin deps[e]
    <3>1. e = o /\ x = c
      BY <1>2, <1>5, <2>2, <2>4
    <3>2. \A j \in 1..n : ~(stack[j].kind = "computed" /\ stack[j].node = c)
      BY <1>8 DEF Evaluated
    <3> QED
      BY <1>1, <1>6, <1>7, <3>1, <3>2 DEF Settled
  <2> QED
    BY <2>3, <2>4
<1> QED
  BY <1>10, <1>11, <1>12 DEF FreshInv

\* get() of a computed that is being evaluated, or that threw.
LEMMA FreshAfterCycle ==
  ASSUME TypeOK, StackInv, FreshInv, NEW c \in Computeds, ReadCycle(c)
  PROVE  FreshInv'
<1> DEFINE o == currentObserver
<1>1. /\ raised' # "none" /\ computing[c]
      /\ UNCHANGED <<val, stale, computing, seen, status, effectQ, dropped, stack>>
      /\ deps' = LinkDeps(o, c)
  BY DEF ReadCycle, Track, queueVars
<1>2. deps \in [Observers -> SUBSET Sources] /\ o \in Observers \cup {None}
  BY DEF TypeOK
<1>3. \A a \in Observers : deps'[a] = deps[a] \/ (a = o /\ deps'[a] = deps[a] \cup {c})
  BY <1>1, <1>2 DEF LinkDeps
<1>4. LinksFresh'
  BY <1>1, <1>3, ObserverEvaluated DEF FreshInv, LinksFresh, Current, Observers
<1>5. EvaluationFresh'
  BY <1>1 DEF EvaluationFresh
<1>6. EffectsSettled'
  BY <1>1, <1>3 DEF FreshInv, EffectsSettled, Settled, Owed, Current, Observers
<1> QED
  BY <1>4, <1>5, <1>6 DEF FreshInv

\* The function of a computed returns: its own value is current, and so is what
\* the observer it returns to has just read.
LEMMA FreshAfterReturn ==
  ASSUME TypeOK, StackInv, FreshInv, NEW v \in Values, ComputedReturn(v)
  PROVE  FreshInv'
<1> SUFFICES ASSUME NEW c, c = Top.node, NEW p, p = Top.prev PROVE FreshInv'
  OBVIOUS
<1> DEFINE n == Len(stack)
<1>1. /\ stack \in Seq(Frames) /\ stack # <<>> /\ n \in Nat \ {0} /\ Top = stack[n]
      /\ stack[n].kind = "computed" /\ stack[n].node = c /\ stack[n].prev = p
      /\ Len(stack') = n - 1 /\ \A i \in 1..(n - 1) : stack'[i] = stack[i]
  <2>1. stack \in Seq(Frames) /\ stack # <<>> /\ Top.kind = "computed" /\ stack' = Front(stack)
    BY DEF TypeOK, ComputedReturn, TopIs, Pop
  <2> QED
    BY <2>1, FrontFacts DEF Top
<1>2. /\ raised = "none" /\ UNCHANGED <<deps, status, effectQ, dropped, raised>>
      /\ val' = [val EXCEPT ![c] = v] /\ stale' = [stale EXCEPT ![c] = FALSE]
      /\ computing' = [computing EXCEPT ![c] = FALSE]
      /\ seen' = IF p = None THEN seen ELSE [seen EXCEPT ![p][c] = v]
  BY DEF ComputedReturn, queueVars, Remember
<1>3. /\ c \in Computeds /\ stale[c] /\ p \in Observers \cup {None}
      /\ c \in Sources /\ c \in Observers /\ None \notin Observers
      /\ FrameOK(stack, n) /\ stack[n].todo = {}
  BY <1>1, TopType, KindsAssumption DEF StackInv, Shape, FrameOK, FlagsOK, Sources, Observers
<1>4. /\ val \in [Sources -> Values \cup {None}] /\ stale \in [Computeds -> BOOLEAN]
      /\ computing \in [Computeds -> BOOLEAN] /\ deps \in [Observers -> SUBSET Sources]
      /\ seen \in [Observers -> [Sources -> Values \cup {None}]]
  BY DEF TypeOK
<1>5. \A i \in 1..n : (stack[i].kind = "computed" /\ stack[i].node = c) => i = n
  BY <1>1, <1>3 DEF StackInv, Shape
<1>6. ASSUME NEW a \in Observers, NEW x \in deps[a], Current(a, x)
      PROVE  x # c /\ Current(a, x)'
  <2>1. x # c /\ x \in Sources
    BY <1>3, <1>4, <1>6 DEF Current
  <2>2. seen'[a][x] = seen[a][x]
    BY <1>2, <1>3, <1>4, <1>6, <2>1
  <2> QED
    BY <1>2, <1>4, <1>6, <2>1, <2>2 DEF Current
<1>7. p # None => Current(p, c)'
  BY <1>2, <1>3, <1>4 DEF Current
<1>8. \A x : ~ReadBy(c, x)
  <2> SUFFICES ASSUME NEW j \in 1..n, stack[j].kind = "computed", stack[j].prev = c
               PROVE  FALSE
    BY DEF ReadBy
  <2>1. j > 1 /\ stack[j - 1].kind = "computed" /\ stack[j - 1].node = c
    BY <1>3 DEF StackInv, Shape, FrameOK
  <2>2. j - 1 \in 1..n
    BY <1>1, <2>1
  <2> QED
    BY <1>1, <1>5, <2>1, <2>2
<1>9. LinksFresh'
  <2> SUFFICES ASSUME NEW a \in Computeds, ~stale'[a], NEW x \in deps'[a] PROVE Current(a, x)'
    BY DEF LinksFresh
  <2>1. CASE a = c
    <3>1. Evaluated(c)
      BY <1>1 DEF Evaluated
    <3>2. Current(c, x)
      BY <1>2, <1>3, <1>8, <2>1, <3>1 DEF FreshInv, EvaluationFresh
    <3> QED
      BY <1>2, <1>3, <1>6, <2>1, <3>2
  <2>2. CASE a # c
    <3>1. Current(a, x) /\ x \in deps[a]
      BY <1>2, <1>4, <2>2 DEF FreshInv, LinksFresh
    <3> QED
      BY <1>6, <3>1 DEF Observers
  <2> QED
    BY <2>1, <2>2
<1>10. EvaluationFresh'
  <2> SUFFICES ASSUME NEW a \in Computeds, Evaluated(a)', NEW x \in deps'[a]
               PROVE  Current(a, x)' \/ ReadBy(a, x)'
    BY DEF EvaluationFresh
  <2>1. Evaluated(a) /\ x \in deps[a] /\ a \in Observers
    BY <1>1, <1>2 DEF Evaluated, Observers
  <2>2. Current(a, x) \/ ReadBy(a, x)
    BY <1>2, <2>1 DEF FreshInv, EvaluationFresh
  <2>3. CASE Current(a, x)
    BY <1>6, <2>1, <2>3
  <2>4. CASE ReadBy(a, x)
    <3>1. PICK j \in 1..n : /\ stack[j].kind = "computed" /\ stack[j].node = x
                            /\ stack[j].prev = a
      BY <2>4 DEF ReadBy
    <3>2. CASE j = n
      BY <1>1, <1>3, <1>7, <2>1, <3>1, <3>2
    <3>3. CASE j # n
      BY <1>1, <3>1, <3>3 DEF ReadBy
    <3> QED
      BY <3>2, <3>3
  <2> QED
    BY <2>2, <2>3, <2>4
<1>11. EffectsSettled'
  <2> SUFFICES ASSUME NEW e \in Effects, status'[e] = "live", ~Owed(e)', NEW x \in deps'[e]
               PROVE  Settled(e, x)'
    BY DEF EffectsSettled
  <2>1. status[e] = "live" /\ ~Owed(e)
    <3>1. \A i \in 1..n : e \in stack[i].todo => i # n /\ i \in 1..(n - 1)
      BY <1>1, <1>3
    <3> QED
      BY <1>1, <1>2, <3>1 DEF Owed
  <2>2. e \in Observers /\ x \in deps[e]
    BY <1>2 DEF Observers
  <2>3. Settled(e, x)
    BY <2>1, <2>2 DEF FreshInv, EffectsSettled
  <2>4. CASE Current(e, x)
    BY <1>6, <2>2, <2>4 DEF Settled
  <2>5. CASE ~Current(e, x) /\ x = c
    <3>1. p = e
      BY <1>1, <1>2, <2>3, <2>5 DEF Settled
    <3> QED
      BY <1>3, <1>7, <2>2, <2>5, <3>1 DEF Settled
  <2>6. CASE ~Current(e, x) /\ x # c
    BY <1>1, <1>2, <1>4, <2>3, <2>6 DEF Settled
  <2> QED
    BY <2>4, <2>5, <2>6
<1> QED
  BY <1>9, <1>10, <1>11 DEF FreshInv

\* What markStale reaches is closed under its recursion.
LEMMA MarkedClosed ==
  ASSUME NEW s, NEW c \in Computeds, ~stale[c]
  PROVE  /\ c \in subs[s] => c \in Marked(s)
         /\ \A b \in Marked(s) : c \in subs[b] => c \in Marked(s)
BY DEF Marked, MarkClosed

\* set(): whoever depends on the signal, however indirectly, is marked or owed.
LEMMA FreshAfterSet ==
  ASSUME TypeOK, StackInv, LinksSymmetric, FreshInv, NoneOnStack,
         NEW s \in Signals, NEW v \in Values, SetSignal(s, v)
  PROVE  FreshInv'
<1>1. /\ UNCHANGED <<deps, seen, computing, status, stack, raised, dropped>>
      /\ val' = [val EXCEPT ![s] = v]
      /\ stale' = [c \in Computeds |-> stale[c] \/ c \in Marked(s)]
      /\ effectQ' = effectQ \cup Notified(s)
  BY DEF SetSignal, Enqueue
<1>2. /\ val \in [Sources -> Values \cup {None}] /\ stale \in [Computeds -> BOOLEAN]
      /\ deps \in [Observers -> SUBSET Sources] /\ s \in Sources /\ s \notin Computeds
  BY KindsAssumption DEF TypeOK, Sources
<1>3. ASSUME NEW a \in Observers, NEW x \in deps[a], Current(a, x), x # s,
             ~(x \in Computeds /\ x \in Marked(s))
      PROVE  Current(a, x)'
  BY <1>1, <1>2, <1>3 DEF Current
<1>4. LinksFresh'
  <2> SUFFICES ASSUME NEW a \in Computeds, ~stale'[a], NEW x \in deps'[a] PROVE Current(a, x)'
    BY DEF LinksFresh
  <2>1. /\ ~stale[a] /\ a \notin Marked(s) /\ a \in Observers /\ x \in deps[a] /\ x \in Sources
        /\ a \in subs[x]
    BY <1>1, <1>2 DEF Observers, LinksSymmetric
  <2>2. x # s /\ x \notin Marked(s)
    BY <2>1, MarkedClosed
  <2> QED
    BY <1>3, <2>1, <2>2 DEF FreshInv, LinksFresh
<1>5. EvaluationFresh'
  BY <1>1 DEF EvaluationFresh, Evaluated, NoneOnStack
<1>6. EffectsSettled'
  <2> SUFFICES ASSUME NEW e \in Effects, status'[e] = "live", ~Owed(e)', NEW x \in deps'[e]
               PROVE  Settled(e, x)'
    BY DEF EffectsSettled
  <2>1. /\ status[e] = "live" /\ ~Owed(e) /\ e \notin Notified(s) /\ e \in Observers
        /\ x \in deps[e] /\ x \in Sources /\ e \in subs[x]
    BY <1>1, <1>2 DEF Owed, Observers, LinksSymmetric
  <2>2. x # s /\ x \notin Marked(s)
    BY <2>1 DEF Notified
  <2>3. Settled(e, x)
    BY <2>1 DEF FreshInv, EffectsSettled
  <2> QED
    BY <1>1, <1>3, <2>1, <2>2, <2>3 DEF Settled
<1> QED
  BY <1>4, <1>5, <1>6 DEF FreshInv

\* dispose() of a computed: nobody depends on it any more.
LEMMA FreshAfterDispose ==
  ASSUME TypeOK, StackInv, LinksSymmetric, FreshInv, NoneOnStack,
         NEW c \in Computeds, DisposeComputed(c)
  PROVE  FreshInv'
<1>1. /\ UNCHANGED <<val, computing, status, stack, raised, effectQ, dropped>>
      /\ deps' = [o \in Observers |-> IF o = c THEN {} ELSE
                                  IF o \in subs[c] THEN deps[o] \ {c} ELSE deps[o]]
      /\ seen' = [seen EXCEPT ![c] = NoReads]
      /\ stale' = [stale EXCEPT ![c] = TRUE]
  BY DEF DisposeComputed, queueVars
<1>2. /\ deps \in [Observers -> SUBSET Sources] /\ stale \in [Computeds -> BOOLEAN]
      /\ seen \in [Observers -> [Sources -> Values \cup {None}]]
      /\ c \in Sources
  BY DEF TypeOK, Sources
<1>3. ASSUME NEW a \in Observers, NEW x \in deps'[a]
      PROVE  a # c /\ x # c /\ x \in deps[a]
  BY <1>1, <1>2, <1>3 DEF LinksSymmetric
<1>4. ASSUME NEW a \in Observers, NEW x \in deps'[a], Current(a, x) PROVE Current(a, x)'
  <2>1. a # c /\ x # c /\ x \in Sources
    BY <1>2, <1>3
  <2>2. seen'[a][x] = seen[a][x]
    BY <1>1, <1>2, <2>1
  <2> QED
    BY <1>1, <1>2, <1>4, <2>1, <2>2 DEF Current
<1>5. LinksFresh'
  BY <1>1, <1>2, <1>3, <1>4 DEF FreshInv, LinksFresh, Observers
<1>6. EvaluationFresh'
  BY <1>1 DEF EvaluationFresh, Evaluated, NoneOnStack
<1>7. EffectsSettled'
  <2> SUFFICES ASSUME NEW e \in Effects, status'[e] = "live", ~Owed(e)', NEW x \in deps'[e]
               PROVE  Settled(e, x)'
    BY DEF EffectsSettled
  <2>1. status[e] = "live" /\ ~Owed(e) /\ e \in Observers
    BY <1>1 DEF Owed, Observers
  <2>2. Settled(e, x)
    BY <1>3, <2>1 DEF FreshInv, EffectsSettled
  <2> QED
    BY <1>1, <1>4, <2>1, <2>2 DEF Settled
<1> QED
  BY <1>5, <1>6, <1>7 DEF FreshInv

\* dispose() of an effect: it is live no more, and depends on nothing.
LEMMA FreshAfterDisposeEffect ==
  ASSUME TypeOK, FreshInv, NoneOnStack, NEW e \in Effects, DisposeEffect(e)
  PROVE  FreshInv'
<1>1. /\ UNCHANGED <<val, stale, computing, stack, raised, effectQ>>
      /\ deps' = [deps EXCEPT ![e] = {}] /\ seen' = [seen EXCEPT ![e] = NoReads]
      /\ status' = [status EXCEPT ![e] = "disposed"] /\ dropped' = dropped \ {e}
  BY DEF DisposeEffect, Forget, UnlinkDeps, queueVars
<1>2. /\ deps \in [Observers -> SUBSET Sources] /\ e \notin Computeds
      /\ seen \in [Observers -> [Sources -> Values \cup {None}]]
      /\ status \in [Effects -> {"absent", "live", "disposed"}]
  BY KindsAssumption DEF TypeOK
<1>3. LinksFresh'
  BY <1>1, <1>2 DEF FreshInv, LinksFresh, Current, Observers
<1>4. EvaluationFresh'
  BY <1>1 DEF EvaluationFresh, Evaluated, NoneOnStack
<1>5. EffectsSettled'
  <2> SUFFICES ASSUME NEW a \in Effects, status'[a] = "live", ~Owed(a)', NEW d \in deps'[a]
               PROVE  Settled(a, d)'
    BY DEF EffectsSettled
  <2>1. a # e /\ status[a] = "live" /\ ~Owed(a)
    BY <1>1, <1>2 DEF Owed
  <2>2. d \in deps[a] /\ seen'[a] = seen[a]
    BY <1>1, <1>2, <2>1 DEF Observers
  <2>3. Settled(a, d)
    BY <2>1, <2>2 DEF FreshInv, EffectsSettled
  <2> QED
    BY <1>1, <2>2, <2>3 DEF Settled, Current
<1> QED
  BY <1>3, <1>4, <1>5 DEF FreshInv

\* What the stack operations do to the effects that are owed a run.
LEMMA OwedPush ==
  ASSUME TypeOK, NEW f \in Frames, Push(f), UNCHANGED effectQ,
         NEW e, Owed(e), e \in dropped => e \in dropped'
  PROVE  Owed(e)'
<1>1. stack \in Seq(Frames)
  BY DEF TypeOK
<1>2. Len(stack') = Len(stack) + 1 /\ \A i \in 1..Len(stack) : stack'[i] = stack[i]
  BY <1>1, AppendFacts DEF Push
<1>3. Len(stack) \in Nat
  BY <1>1
<1> QED
  BY <1>2, <1>3 DEF Owed

LEMMA OwedPop ==
  ASSUME TypeOK, stack # <<>>, Pop, UNCHANGED effectQ,
         NEW e, Owed(e), e \in Top.todo \cup dropped => e \in dropped'
  PROVE  Owed(e)'
<1>1. /\ Len(stack) \in Nat \ {0} /\ Top = stack[Len(stack)] /\ Len(stack') = Len(stack) - 1
      /\ \A i \in 1..(Len(stack) - 1) : stack'[i] = stack[i]
  <2>1. stack \in Seq(Frames)
    BY DEF TypeOK
  <2> QED
    BY <2>1, FrontFacts DEF Pop, Top
<1>2. ASSUME NEW i \in 1..Len(stack), e \in stack[i].todo PROVE Owed(e)'
  <2>1. CASE i = Len(stack)
    BY <1>1, <1>2, <2>1 DEF Owed
  <2>2. CASE i # Len(stack)
    BY <1>1, <1>2, <2>2 DEF Owed
  <2> QED
    BY <2>1, <2>2
<1> QED
  BY <1>2 DEF Owed

LEMMA OwedReplace ==
  ASSUME TypeOK, stack # <<>>, NEW f \in Frames, ReplaceTop(f),
         NEW e, Owed(e), e \in effectQ => e \in effectQ' \cup f.todo,
         e \in Top.todo => e \in f.todo, e \in dropped => e \in dropped'
  PROVE  Owed(e)'
<1>1. /\ Len(stack) \in Nat \ {0} /\ Top = stack[Len(stack)] /\ Len(stack') = Len(stack)
      /\ stack'[Len(stack)] = f
      /\ \A i \in 1..(Len(stack) - 1) : stack'[i] = stack[i]
  <2>1. stack \in Seq(Frames)
    BY DEF TypeOK
  <2>2. /\ Len(stack) \in Nat \ {0} /\ Top = stack[Len(stack)]
        /\ Front(stack) \in Seq(Frames) /\ Len(Front(stack)) = Len(stack) - 1
        /\ \A i \in 1..(Len(stack) - 1) : Front(stack)[i] = stack[i]
    BY <2>1, FrontFacts DEF Top
  <2>3. /\ Len(stack') = Len(Front(stack)) + 1 /\ stack'[Len(Front(stack)) + 1] = f
        /\ \A i \in 1..Len(Front(stack)) : stack'[i] = Front(stack)[i]
    BY <2>2, AppendFacts DEF ReplaceTop
  <2> QED
    BY <2>2, <2>3
<1>2. ASSUME NEW i \in 1..Len(stack), e \in stack[i].todo PROVE Owed(e)'
  <2>1. CASE i = Len(stack)
    BY <1>1, <1>2, <2>1 DEF Owed
  <2>2. CASE i # Len(stack)
    BY <1>1, <1>2, <2>2 DEF Owed
  <2> QED
    BY <2>1, <2>2
<1>3. e \in f.todo => Owed(e)'
  BY <1>1 DEF Owed
<1> QED
  BY <1>2, <1>3 DEF Owed

LEMMA NextFreshInv ==
  /\ TypeOK /\ TypeOK' /\ StackInv /\ StackInv' /\ LinksSymmetric /\ FreshInv /\ [Next]_vars
  => FreshInv'
<1> SUFFICES ASSUME TypeOK, TypeOK', StackInv, StackInv', LinksSymmetric, FreshInv, [Next]_vars
             PROVE  FreshInv'
  OBVIOUS
<1> USE DEF nodeVars, queueVars
<1>0. /\ stack \in Seq(Frames)
      /\ stack # <<>> => /\ Len(stack) \in Nat \ {0} /\ Top = stack[Len(stack)] /\ Top \in Frames
                         /\ Front(stack) \in Seq(Frames) /\ Len(Front(stack)) = Len(stack) - 1
                         /\ \A i \in 1..(Len(stack) - 1) : Front(stack)[i] = stack[i]
                         /\ Top.kind # "flush" => Top.todo = {}
  <2>1. stack \in Seq(Frames)
    BY DEF TypeOK
  <2>2. stack # <<>> => /\ Len(stack) \in Nat \ {0} /\ Top = stack[Len(stack)] /\ Top \in Frames
                        /\ Front(stack) \in Seq(Frames) /\ Len(Front(stack)) = Len(stack) - 1
                        /\ \A i \in 1..(Len(stack) - 1) : Front(stack)[i] = stack[i]
    BY <2>1, FrontFacts DEF Top
  <2>3. stack # <<>> => FrameOK(stack, Len(stack))
    BY <2>2 DEF StackInv, Shape
  <2> QED
    BY <2>1, <2>2, <2>3 DEF FrameOK
<1>q. QuietStep => NoneOnStack /\ NoneOnStack'
  BY QuietStepOnStack
\* Steps that only move the stack and the queues.
<1>a. ASSUME UNCHANGED <<val, deps, stale, computing, seen, status>>, QuietStep,
             \A e \in Effects : status[e] = "live" /\ Owed(e) => Owed(e)'
      PROVE  FreshInv'
  BY <1>a, <1>q, FreshUnchanged
<1>1. ASSUME NEW d \in Sources, ReadFresh(d) PROVE FreshInv'
  BY <1>1, FreshAfterRead
<1>2. ASSUME NEW c \in Computeds, Recompute(c) PROVE FreshInv'
  BY <1>2, FreshAtRecompute
<1>3. ASSUME NEW c \in Computeds, ReadCycle(c) PROVE FreshInv'
  BY <1>3, FreshAfterCycle
<1>4. ASSUME NEW v \in Values, ComputedReturn(v) PROVE FreshInv'
  BY <1>4, FreshAfterReturn
<1>5. ASSUME NEW c \in Computeds, DisposeComputed(c) PROVE FreshInv'
  BY <1>5, <1>q, FreshAfterDispose DEF QuietStep
<1>6. ASSUME NEW s \in Signals, NEW v \in Values, SetSignal(s, v) PROVE FreshInv'
  BY <1>6, <1>q, FreshAfterSet DEF QuietStep
<1>7. ASSUME NEW e \in Effects, CreateEffect(e) PROVE FreshInv'
  <2> DEFINE f == Call("effect", e)
  <2>1. f \in Frames
    BY CallType DEF FrameKinds, Observers
  <2>2. Push(f) /\ UNCHANGED effectQ /\ dropped' = dropped \ {e} /\ StartRun(e, stack)
        /\ UNCHANGED <<val, stale, computing>>
    BY <1>7 DEF CreateEffect, StartRun, Push
  <2> HIDE DEF f
  <2>3. ASSUME NEW a \in Effects, a # e
        PROVE  status'[a] = status[a] /\ (Owed(a) => Owed(a)')
    <3>1. status'[a] = status[a]
      BY <1>7, <2>3 DEF CreateEffect, TypeOK
    <3>2. Owed(a) => Owed(a)'
      BY <2>1, <2>2, <2>3, OwedPush
    <3> QED
      BY <3>1, <3>2
  <2>4. NoneOnStack'
    BY <1>7, <1>q DEF QuietStep
  <2> QED
    BY <2>2, <2>3, <2>4, FreshAtStart
<1>8. CASE OnCleanup
  BY <1>8, <1>a DEF OnCleanup, QuietStep, Owed
<1>9. CASE EffectReturn
  <2>1. stack # <<>> /\ Pop /\ Top.todo = {} /\ UNCHANGED <<effectQ, dropped>>
    BY <1>0, <1>9 DEF EffectReturn, LeaveEffect, TopIs
  <2>2. \A e \in Effects : Owed(e) => Owed(e)'
    BY <2>1, OwedPop
  <2> QED
    BY <1>9, <1>a, <2>2 DEF EffectReturn, QuietStep
<1>10. ASSUME NEW e \in Effects, DisposeEffect(e) PROVE FreshInv'
  BY <1>10, <1>q, FreshAfterDisposeEffect DEF QuietStep
<1>11. CASE BatchBegin
  <2>1. Call("batch", None) \in Frames
    BY CallType DEF FrameKinds
  <2>2. \A e \in Effects : Owed(e) => Owed(e)'
    BY <1>11, <2>1, OwedPush DEF BatchBegin
  <2> QED
    BY <1>11, <1>a, <2>2 DEF BatchBegin, QuietStep
<1>12. ASSUME NEW r \in Errors, TopIs({"batch"}), LeaveBatch(r), NEW e \in Effects, Owed(e)
       PROVE  Owed(e)'
  <2>1. stack # <<>> /\ Top.todo = {} /\ UNCHANGED <<effectQ, dropped>>
    BY <1>0, <1>12 DEF TopIs, LeaveBatch
  <2>2. FlushCall(r) \in Frames
    BY FlushCallType
  <2>3. CASE batchDepth = 1
    BY <1>12, <2>1, <2>2, <2>3, OwedReplace DEF LeaveBatch
  <2>4. CASE batchDepth # 1
    BY <1>12, <2>1, <2>4, OwedPop DEF LeaveBatch
  <2> QED
    BY <2>3, <2>4
<1>13. CASE BatchEnd
  <2>1. \A e \in Effects : Owed(e) => Owed(e)'
    BY <1>12, <1>13 DEF BatchEnd, Errors
  <2> QED
    BY <1>13, <1>a, <2>1 DEF BatchEnd, LeaveBatch, QuietStep
<1>14. CASE UnwindBatch
  <2>1. \A e \in Effects : Owed(e) => Owed(e)'
    BY <1>12, <1>14 DEF UnwindBatch, TypeOK
  <2> QED
    BY <1>14, <1>a, <2>1 DEF UnwindBatch, LeaveBatch, QuietStep
<1>15. CASE MicrotaskFlush
  <2>1. FlushCall("none") \in Frames
    BY FlushCallType DEF Errors
  <2>2. \A e \in Effects : Owed(e) => Owed(e)'
    BY <1>15, <2>1, OwedPush DEF MicrotaskFlush
  <2> QED
    BY <1>15, <1>a, <2>2 DEF MicrotaskFlush, QuietStep
<1>16. CASE FlushTakeBatch
  <2> DEFINE f == [Top EXCEPT !.todo = effectQ, !.loops = @ + 1]
  <2>1. stack # <<>> /\ Top.todo = {} /\ ReplaceTop(f) /\ UNCHANGED dropped
    BY <1>16 DEF FlushTakeBatch, Flushing, TopIs
  <2>2. f \in Frames /\ f.todo = effectQ
    <3>1. Top \in Frames /\ Top.loops + 1 \in Nat /\ effectQ \in SUBSET Effects
      BY <2>1, TopType DEF TypeOK
    <3> QED
      BY <3>1 DEF Frames
  <2> HIDE DEF f
  <2>3. \A e \in Effects : Owed(e) => Owed(e)'
    BY <2>1, <2>2, OwedReplace
  <2> QED
    BY <1>16, <1>a, <2>3 DEF FlushTakeBatch, QuietStep
<1>17. CASE FlushGiveUp
  BY <1>17, <1>a DEF FlushGiveUp, QuietStep, Owed
\* The flush frame without e.
<1>b. ASSUME NEW e \in Effects, Flushing
      PROVE  LET f == [Top EXCEPT !.todo = @ \ {e}] IN f \in Frames /\ f.todo = Top.todo \ {e}
  BY <1>b, TopType DEF Flushing, TopIs, Frames
<1>18. ASSUME NEW e \in Effects, FlushSkip(e) PROVE FreshInv'
  <2> DEFINE f == [Top EXCEPT !.todo = @ \ {e}]
  <2>1. /\ Flushing /\ stack # <<>> /\ ReplaceTop(f) /\ UNCHANGED <<effectQ, dropped>>
        /\ status[e] = "disposed"
    BY <1>18 DEF FlushSkip, Flushing, TopIs
  <2>2. f \in Frames /\ f.todo = Top.todo \ {e}
    BY <1>b, <2>1
  <2> HIDE DEF f
  <2>3. \A a \in Effects : status[a] = "live" /\ Owed(a) => Owed(a)'
    BY <2>1, <2>2, OwedReplace
  <2> QED
    BY <1>18, <1>a, <2>3 DEF FlushSkip, QuietStep
<1>19. ASSUME NEW e \in Effects, FlushRun(e) PROVE FreshInv'
  <2> DEFINE f == [Top EXCEPT !.todo = @ \ {e}]
             base == Append(Front(stack), f)
             g == Call("effect", e)
  <2>1. /\ Flushing /\ stack # <<>> /\ stack' = Append(base, g) /\ StartRun(e, base)
        /\ UNCHANGED <<val, stale, computing, status, effectQ>> /\ dropped' = dropped \ {e}
    BY <1>19 DEF FlushRun, StartRun, Flushing, TopIs
  <2>2. f \in Frames /\ f.todo = Top.todo \ {e} /\ g \in Frames
    BY <1>b, <2>1, CallType DEF FrameKinds, Observers
  <2>3. NoneOnStack'
    BY <1>19, <1>q DEF QuietStep
  <2> HIDE DEF f, g
  <2>4. /\ base \in Seq(Frames) /\ Len(base) = Len(stack) /\ base[Len(stack)] = f
        /\ \A i \in 1..(Len(stack) - 1) : base[i] = stack[i]
    BY <1>0, <2>1, <2>2, AppendFacts
  <2> HIDE DEF base
  <2>5. Len(stack') = Len(stack) + 1 /\ \A i \in 1..Len(stack) : stack'[i] = base[i]
    BY <2>1, <2>2, <2>4, AppendFacts
  <2>6. ASSUME NEW a \in Effects, a # e, Owed(a) PROVE Owed(a)'
    <3>1. CASE \E i \in 1..Len(stack) : a \in stack[i].todo
      <4>1. PICK i \in 1..Len(stack) : a \in stack[i].todo
        BY <3>1
      <4>2. a \in stack'[i].todo
        <5>1. CASE i = Len(stack)
          <6>1. Top = stack[Len(stack)]
            BY <1>0, <2>1
          <6>2. stack'[i] = f
            BY <2>4, <2>5, <5>1, Zenon
          <6>3. a \in Top.todo \ {e}
            BY <2>6, <4>1, <5>1, <6>1, Zenon
          <6> QED
            BY <2>2, <6>2, <6>3, Zenon
        <5>2. CASE i # Len(stack)
          BY <1>0, <2>1, <2>4, <2>5, <4>1, <5>2
        <5> QED
          BY <5>1, <5>2
      <4>3. i \in 1..Len(stack')
        BY <1>0, <2>1, <2>5
      <4> QED
        BY <4>2, <4>3 DEF Owed
    <3>2. CASE a \in effectQ \/ a \in dropped
      BY <2>1, <2>6, <3>2 DEF Owed
    <3> QED
      BY <2>6, <3>1, <3>2 DEF Owed
  <2> QED
    BY <2>1, <2>3, <2>6, FreshAtStart
<1>20. CASE FlushDone
  <2>1. stack # <<>> /\ Pop /\ Top.todo = {} /\ UNCHANGED <<effectQ, dropped>>
    BY <1>20 DEF FlushDone, Flushing, TopIs
  <2>2. \A e \in Effects : Owed(e) => Owed(e)'
    BY <2>1, OwedPop
  <2> QED
    BY <1>20, <1>a, <2>2 DEF FlushDone, QuietStep
<1>21. CASE Throw
  BY <1>21, FreshUnchanged DEF Throw, Owed
<1>22. CASE Catch
  BY <1>22, <1>a DEF Catch, QuietStep, Owed
<1>23. CASE UnwindComputed
  <2>1. stack # <<>> /\ Pop /\ Top.todo = {} /\ UNCHANGED <<effectQ, dropped>>
    BY <1>0, <1>23 DEF UnwindComputed, TopIs
  <2>2. \A e \in Effects : Owed(e) => Owed(e)'
    BY <2>1, OwedPop
  <2> QED
    BY <1>23, <2>2, FreshUnchanged DEF UnwindComputed
<1>24. CASE UnwindEffect
  <2>1. stack # <<>> /\ Pop /\ Top.todo = {} /\ UNCHANGED <<effectQ, dropped>>
    BY <1>0, <1>24 DEF UnwindEffect, LeaveEffect, TopIs
  <2>2. \A e \in Effects : Owed(e) => Owed(e)'
    BY <2>1, OwedPop
  <2> QED
    BY <1>24, <1>a, <2>2 DEF UnwindEffect, QuietStep
<1>25. CASE UnwindFlush
  <2>1. /\ stack # <<>> /\ Pop /\ UNCHANGED effectQ
        /\ dropped' = dropped \cup {e \in Top.todo : status[e] = "live"}
    BY <1>25 DEF UnwindFlush, TopIs
  <2>2. \A e \in Effects : status[e] = "live" /\ Owed(e) => Owed(e)'
    BY <2>1, OwedPop
  <2> QED
    BY <1>25, <1>a, <2>2 DEF UnwindFlush, QuietStep
<1>26. CASE UNCHANGED vars
  BY <1>26, FreshUnchanged DEF vars, Owed
<1> QED
  BY <1>1, <1>2, <1>3, <1>4, <1>5, <1>6, <1>7, <1>8, <1>9, <1>10, <1>11, <1>13, <1>14, <1>15,
     <1>16, <1>17, <1>18, <1>19, <1>20, <1>21, <1>22, <1>23, <1>24, <1>25, <1>26 DEF Next

-----------------------------------------------------------------------------
(* What the observers have read *)

\* What an observer has read is a dependency of it, or a dispose() has unlinked it.
ReadsLinked ==
  \A o \in Observers, d \in Sources : seen[o][d] # None => d \in deps[o] \cup cut[o]

\* A computed is linked to the observer that it is being evaluated for.
EvaluationLinked ==
  \A i \in 1..Len(stack) :
    (stack[i].kind = "computed" /\ stack[i].prev # None) => stack[i].node \in deps[stack[i].prev]

LinkedInv == ReadsLinked /\ EvaluationLinked

\* A read that ends: d has been linked to o.
LEMMA ReadsLinkedRemember ==
  ASSUME TypeOK, ReadsLinked, NEW o \in Observers \cup {None}, NEW d \in Sources, NEW v,
         Remember(o, d, v), \A a \in Observers : deps[a] \subseteq deps'[a],
         o # None => d \in deps'[o]
  PROVE  ReadsLinked'
<1> SUFFICES ASSUME NEW a \in Observers, NEW x \in Sources, seen'[a][x] # None
             PROVE  x \in deps'[a] \cup cut'[a]
  BY DEF ReadsLinked
<1>1. /\ seen \in [Observers -> [Sources -> Values \cup {None}]]
      /\ cut \in [Observers -> SUBSET Computeds] /\ None \notin Observers
  BY KindsAssumption DEF TypeOK, Observers
<1>2. CASE a = o /\ x = d
  BY <1>1, <1>2
<1>3. CASE ~(a = o /\ x = d)
  <2>1. seen'[a][x] = seen[a][x] /\ cut[a] \subseteq cut'[a] \cup (IF a = o THEN {d} ELSE {})
    BY <1>1, <1>3 DEF Remember
  <2>2. x \in deps[a] \cup cut[a]
    BY <2>1 DEF ReadsLinked
  <2> QED
    BY <1>3, <2>1, <2>2
<1> QED
  BY <1>2, <1>3

\* The graph after an observer forgets what it has read.
LEMMA ReadsLinkedForget ==
  ASSUME TypeOK, ReadsLinked, NEW o \in Observers, Forget(o),
         \A a \in Observers : a # o => deps[a] \subseteq deps'[a]
  PROVE  ReadsLinked'
<1>1. /\ seen \in [Observers -> [Sources -> Values \cup {None}]]
      /\ cut \in [Observers -> SUBSET Computeds]
  BY DEF TypeOK
<1>2. /\ \A d \in Sources : seen'[o][d] = None
      /\ \A a \in Observers : a # o => seen'[a] = seen[a] /\ cut'[a] = cut[a]
  BY <1>1 DEF Forget, NoReads
<1> QED
  BY <1>2 DEF ReadsLinked

\* Calling the function of a computed: its reader has been linked to it.
LEMMA LinkedAtRecompute ==
  ASSUME TypeOK, StackInv, LinkedInv, NEW c \in Computeds, Recompute(c)
  PROVE  LinkedInv'
<1> DEFINE o == currentObserver
           f == Call("computed", c)
           n == Len(stack)
<1>1. ~computing[c] /\ deps' = UnlinkDeps(c, LinkDeps(o, c)) /\ Forget(c) /\ Push(f)
  BY DEF Recompute
<1>2. /\ c \in Observers /\ o \in Observers \cup {None} /\ o # c
      /\ deps \in [Observers -> SUBSET Sources] /\ None \notin Observers
  BY <1>1, ObserverEvaluated, KindsAssumption DEF Observers, TypeOK
<1>3. /\ \A a \in Observers : a # c => deps[a] \subseteq deps'[a]
      /\ o # None => c \in deps'[o]
  BY <1>1, <1>2 DEF UnlinkDeps, LinkDeps
<1>4. ReadsLinked'
  BY <1>1, <1>2, <1>3, ReadsLinkedForget DEF LinkedInv
<1>5. f.kind = "computed" /\ f.node = c /\ f.prev = o /\ f \in Frames
  <2>1. f \in Frames
    BY <1>2, CallType DEF FrameKinds
  <2> QED
    BY <2>1 DEF Call
<1> HIDE DEF f
<1>6. /\ n \in Nat /\ Len(stack') = n + 1 /\ stack'[n + 1] = f
      /\ \A i \in 1..n : stack'[i] = stack[i]
  <2>1. stack \in Seq(Frames) /\ stack' = Append(stack, f)
    BY <1>1 DEF TypeOK, Push
  <2> QED
    BY <1>5, <2>1, AppendFacts
<1>7. EvaluationLinked'
  <2> SUFFICES ASSUME NEW i \in 1..(n + 1), stack'[i].kind = "computed", stack'[i].prev # None
               PROVE  stack'[i].node \in deps'[stack'[i].prev]
    BY <1>6 DEF EvaluationLinked
  <2>1. CASE i = n + 1
    BY <1>2, <1>3, <1>5, <1>6, <2>1
  <2>2. CASE i # n + 1
    <3> DEFINE p == stack[i].prev
    <3>1. i \in 1..n /\ stack'[i] = stack[i]
      BY <1>6, <2>2
    <3>2. stack[i].node \in deps[p] /\ p # None
      BY <3>1 DEF LinkedInv, EvaluationLinked
    <3>3. p \in Observers
      <4>1. stack[i] \in Frames
        BY <3>1 DEF TypeOK
      <4> QED
        BY <3>2, <4>1 DEF Frames
    <3>4. p # c
      <4>1. ASSUME p = c PROVE Evaluated(c)
        <5>1. FrameOK(stack, i) /\ stack[i].kind = "computed"
          BY <3>1 DEF StackInv, Shape
        <5>2. i > 1 /\ stack[i - 1].kind = "computed" /\ stack[i - 1].node = c
          BY <4>1, <5>1 DEF FrameOK
        <5> QED
          BY <1>6, <3>1, <5>2 DEF Evaluated
      <4> QED
        BY <1>1, <4>1 DEF StackInv, FlagsOK, Evaluated
    <3> QED
      BY <1>3, <3>1, <3>2, <3>3, <3>4
  <2> QED
    BY <2>1, <2>2
<1> QED
  BY <1>4, <1>7 DEF LinkedInv

\* The function of a computed returns to what is linked to it.
LEMMA LinkedAfterReturn ==
  ASSUME TypeOK, StackInv, LinkedInv, NEW v \in Values, ComputedReturn(v)
  PROVE  LinkedInv'
<1> DEFINE n == Len(stack)
<1>1. /\ stack # <<>> /\ n \in Nat \ {0} /\ Top = stack[n] /\ stack[n].kind = "computed"
      /\ Len(stack') = n - 1 /\ \A i \in 1..(n - 1) : stack'[i] = stack[i]
  <2>1. stack \in Seq(Frames) /\ stack # <<>> /\ Top.kind = "computed" /\ stack' = Front(stack)
    BY DEF TypeOK, ComputedReturn, TopIs, Pop
  <2> QED
    BY <2>1, FrontFacts DEF Top
<1>2. UNCHANGED deps /\ Remember(Top.prev, Top.node, v)
  BY DEF ComputedReturn
<1>3. Top.prev \in Observers \cup {None} /\ Top.node \in Sources
  <2>1. FrameOK(stack, n)
    BY <1>1 DEF StackInv, Shape
  <2> QED
    BY <1>1, <2>1, TopType DEF FrameOK, Sources
<1>4. Top.prev # None => Top.node \in deps'[Top.prev]
  BY <1>1, <1>2 DEF LinkedInv, EvaluationLinked
<1>5. ReadsLinked'
  <2> SUFFICES ASSUME NEW o, o = Top.prev, NEW d, d = Top.node PROVE ReadsLinked'
    OBVIOUS
  <2> QED
    BY <1>2, <1>3, <1>4, ReadsLinkedRemember DEF LinkedInv
<1>6. EvaluationLinked'
  BY <1>1, <1>2 DEF LinkedInv, EvaluationLinked
<1> QED
  BY <1>5, <1>6 DEF LinkedInv

LEMMA NextLinked ==
  ASSUME TypeOK, TypeOK', StackInv, StackInv', LinksSymmetric, LinkedInv, [Next]_vars
  PROVE  LinkedInv'
<1> USE DEF nodeVars
<1>a. QuietStep /\ ReadsLinked' => LinkedInv'
  BY QuietStepOnStack DEF NoneOnStack, EvaluationLinked, LinkedInv
<1>b. UNCHANGED <<deps, seen, cut>> => ReadsLinked'
  BY DEF LinkedInv, ReadsLinked
<1>c. UNCHANGED stack /\ (\A a \in Observers : deps[a] \subseteq deps'[a]) => EvaluationLinked'
  <2>1. stack \in Seq(Frames)
    BY DEF TypeOK
  <2>2. \A i \in 1..Len(stack) : stack[i].prev \in Observers \cup {None}
    <3>1. \A f \in Frames : f.prev \in Observers \cup {None}
      BY DEF Frames
    <3>2. \A i \in 1..Len(stack) : stack[i] \in Frames
      BY <2>1
    <3> QED
      BY <3>1, <3>2
  <2> QED
    BY <2>2 DEF LinkedInv, EvaluationLinked
<1>d. ASSUME NEW d \in Sources, Track(currentObserver, d)
      PROVE  /\ \A a \in Observers : deps[a] \subseteq deps'[a]
             /\ currentObserver # None => d \in deps'[currentObserver]
  BY <1>d DEF Track, LinkDeps, TypeOK
<1>1. ASSUME NEW d \in Sources, ReadFresh(d) PROVE LinkedInv'
  <2>1. /\ Track(currentObserver, d) /\ Remember(currentObserver, d, val[d]) /\ UNCHANGED stack
        /\ currentObserver \in Observers \cup {None}
    BY <1>1 DEF ReadFresh, TypeOK
  <2>2. ReadsLinked'
    BY <1>d, <2>1, ReadsLinkedRemember DEF LinkedInv
  <2> QED
    BY <1>c, <1>d, <2>1, <2>2 DEF LinkedInv
<1>2. ASSUME NEW c \in Computeds, Recompute(c) PROVE LinkedInv'
  BY <1>2, LinkedAtRecompute
<1>3. ASSUME NEW c \in Computeds, ReadCycle(c) PROVE LinkedInv'
  <2>1. Track(currentObserver, c) /\ UNCHANGED <<seen, cut, stack>> /\ c \in Sources
    BY <1>3 DEF ReadCycle, Sources
  <2>2. \A a \in Observers : deps[a] \subseteq deps'[a]
    BY <1>d, <2>1
  <2>3. ReadsLinked'
    BY <2>1, <2>2 DEF LinkedInv, ReadsLinked
  <2> QED
    BY <1>c, <2>1, <2>2, <2>3 DEF LinkedInv
<1>4. ASSUME NEW v \in Values, ComputedReturn(v) PROVE LinkedInv'
  BY <1>4, LinkedAfterReturn
<1>5. ASSUME NEW c \in Computeds, DisposeComputed(c) PROVE LinkedInv'
  <2>1. /\ seen' = [seen EXCEPT ![c] = NoReads]
        /\ deps' = [o \in Observers |-> IF o = c THEN {} ELSE
                                    IF o \in subs[c] THEN deps[o] \ {c} ELSE deps[o]]
        /\ cut' = [o \in Observers |-> IF o = c THEN {} ELSE
                                   IF o \in subs[c] THEN cut[o] \cup {c} ELSE cut[o]]
        /\ seen \in [Observers -> [Sources -> Values \cup {None}]]
    BY <1>5 DEF DisposeComputed, TypeOK
  <2>2. ReadsLinked'
    <3> SUFFICES ASSUME NEW a \in Observers, NEW x \in Sources, seen'[a][x] # None
                 PROVE  x \in deps'[a] \cup cut'[a]
      BY DEF ReadsLinked
    <3>1. a # c /\ seen[a][x] # None
      BY <2>1 DEF NoReads
    <3>2. x \in deps[a] \cup cut[a]
      BY <3>1 DEF LinkedInv, ReadsLinked
    <3>3. x = c /\ x \in deps[a] => a \in subs[c]
      BY DEF LinksSymmetric
    <3> QED
      BY <2>1, <3>1, <3>2, <3>3
  <2> QED
    BY <1>5, <1>a, <2>2 DEF QuietStep
<1>6. ASSUME NEW e \in Effects, deps' = UnlinkDeps(e, deps), Forget(e) PROVE ReadsLinked'
  <2>1. e \in Observers /\ \A a \in Observers : a # e => deps[a] \subseteq deps'[a]
    BY <1>6 DEF UnlinkDeps, TypeOK, Observers
  <2> QED
    BY <1>6, <2>1, ReadsLinkedForget DEF LinkedInv
<1>7. ASSUME NEW e \in Effects, CreateEffect(e) \/ FlushRun(e) \/ DisposeEffect(e) PROVE LinkedInv'
  <2>1. deps' = UnlinkDeps(e, deps) /\ Forget(e)
    BY <1>7 DEF CreateEffect, FlushRun, StartRun, DisposeEffect
  <2> QED
    BY <1>6, <1>7, <1>a, <2>1 DEF QuietStep
<1>8. ASSUME \/ \E s \in Signals, v \in Values : SetSignal(s, v)
             \/ \E e \in Effects : FlushSkip(e)
             \/ OnCleanup \/ EffectReturn \/ BatchBegin \/ BatchEnd \/ MicrotaskFlush
             \/ FlushTakeBatch \/ FlushGiveUp \/ FlushDone \/ Catch
             \/ UnwindEffect \/ UnwindBatch \/ UnwindFlush
      PROVE  LinkedInv'
  <2>1. QuietStep
    BY <1>8 DEF QuietStep
  <2>2. UNCHANGED <<deps, seen, cut>>
    BY <1>8 DEF SetSignal, FlushSkip, OnCleanup, EffectReturn, BatchBegin, BatchEnd,
                MicrotaskFlush, FlushTakeBatch, FlushGiveUp, FlushDone, Catch, UnwindEffect,
                UnwindBatch, UnwindFlush, LeaveBatch
  <2> QED
    BY <1>a, <1>b, <2>1, <2>2
<1>9. CASE UnwindComputed
  <2>1. stack # <<>> /\ Pop /\ UNCHANGED <<deps, seen, cut>> /\ stack \in Seq(Frames)
    BY <1>9 DEF UnwindComputed, TopIs, TypeOK
  <2>2. /\ Len(stack) \in Nat \ {0} /\ Len(stack') = Len(stack) - 1
        /\ \A i \in 1..(Len(stack) - 1) : stack'[i] = stack[i]
    BY <2>1, FrontFacts DEF Pop
  <2>3. EvaluationLinked'
    BY <2>1, <2>2 DEF LinkedInv, EvaluationLinked
  <2> QED
    BY <1>b, <2>1, <2>3 DEF LinkedInv
<1>10. CASE Throw \/ UNCHANGED vars
  <2>1. UNCHANGED <<deps, seen, cut, stack>>
    BY <1>10 DEF Throw, vars
  <2> QED
    BY <1>b, <1>c, <2>1 DEF LinkedInv
<1> QED
  BY <1>1, <1>2, <1>3, <1>4, <1>5, <1>7, <1>8, <1>9, <1>10 DEF Next

\* The inductive invariant of the freshness properties.
IInv == TypeOK /\ LinksSymmetric /\ StackInv /\ FreshInv /\ LinkedInv

LEMMA InitIInv == Init => IInv
<1> SUFFICES ASSUME Init PROVE IInv
  OBVIOUS
<1>1. Len(stack) = 0
  BY DEF Init
<1>2. StackInv
  BY InitStackInv
<1>3. FreshInv
  BY <1>1 DEF Init, FreshInv, LinksFresh, EvaluationFresh, EffectsSettled, Evaluated
<1>4. LinksSymmetric
  BY DEF Init, LinksSymmetric
<1>5. LinkedInv
  BY <1>1 DEF Init, LinkedInv, ReadsLinked, EvaluationLinked, NoReads
<1> QED
  BY <1>2, <1>3, <1>4, <1>5, InitTypeOK DEF IInv

LEMMA NextIInv == IInv /\ [Next]_vars => IInv'
BY NextTypeOK, NextLinksSymmetric, NextStackInv, NextFreshInv, NextLinked DEF IInv

LEMMA IInvFresh == IInv => ComputedFresh /\ NoLostUpdate
<1> SUFFICES ASSUME IInv PROVE ComputedFresh /\ NoLostUpdate
  OBVIOUS
<1>1. ComputedFresh
  <2> SUFFICES ASSUME NEW c \in Computeds, ~stale[c], NEW d \in Reads(c) \ cut[c]
               PROVE  Current(c, d)
    BY DEF ComputedFresh
  <2>1. c \in Observers /\ d \in Sources /\ seen[c][d] # None
    BY DEF Observers, Reads
  <2>2. d \in deps[c]
    BY <2>1 DEF IInv, LinkedInv, ReadsLinked
  <2> QED
    BY <2>2 DEF IInv, FreshInv, LinksFresh
<1>2. NoLostUpdate
  <2> SUFFICES ASSUME NEW e \in Effects, status[e] = "live", ~Pending(e), e \notin dropped,
                      NEW d \in deps[e]
               PROVE  Current(e, d) \/ (d \in Computeds /\ computing[d])
    BY DEF NoLostUpdate
  <2>1. stack \in Seq(Frames)
    BY DEF IInv, TypeOK
  <2>2. DOMAIN stack = 1..Len(stack)
    BY <2>1
  <2>3. ~Owed(e)
    BY <2>2 DEF Owed, Pending
  <2> QED
    BY <2>3 DEF IInv, FreshInv, EffectsSettled, Settled
<1> QED
  BY <1>1, <1>2

\* No glitch: what a computed hands out without recomputing was made from the
\* present values of all it read, but for the computeds among it that have been
\* disposed of since; for any graph, program and interleaving.
THEOREM GraphComputedFresh == Spec => []ComputedFresh
<1>1. IInv => ComputedFresh
  BY IInvFresh
<1> QED
  BY <1>1, InitIInv, NextIInv, PTL DEF Spec

\* The sources whose values reached c: what it read, what the computeds among
\* it read, and so on.
ClosedUnderReads(M) == \A b \in M \cap Computeds : Reads(b) \subseteq M
Through(c) == {d \in Sources : \A M \in SUBSET Sources : c \in M /\ ClosedUnderReads(M) => d \in M}

\* A computed that is good, and that no dispose() has cut off from anything its
\* value was made of, hands out a value that every source on the way agrees with.
FreshThroughout ==
  \A c \in Computeds :
    (~stale[c] /\ \A b \in Through(c) \cap Computeds : cut[b] = {}) =>
      \A b \in Through(c) \cap Computeds : \A d \in Reads(b) : Current(b, d)

LEMMA FreshOnTheWay == ComputedFresh => FreshThroughout
<1> SUFFICES ASSUME ComputedFresh, NEW c \in Computeds, ~stale[c],
                    \A b \in Through(c) \cap Computeds : cut[b] = {}
             PROVE  \A b \in Through(c) \cap Computeds : \A d \in Reads(b) : Current(b, d)
  BY DEF FreshThroughout
<1> DEFINE G == {d \in Through(c) : d \in Computeds => ~stale[d]}
<1>1. c \in Sources /\ Through(c) \subseteq Sources /\ c \in Through(c)
  BY DEF Sources, Through
<1>2. ClosedUnderReads(Through(c))
  BY DEF ClosedUnderReads, Through, Reads
<1>3. ASSUME NEW b \in G \cap Computeds, NEW d \in Reads(b) PROVE Current(b, d) /\ d \in G
  <2>1. d \in Through(c) /\ cut[b] = {}
    BY <1>2, <1>3 DEF ClosedUnderReads
  <2>2. Current(b, d)
    BY <1>3, <2>1 DEF ComputedFresh
  <2> QED
    BY <2>1, <2>2 DEF Current
<1>4. Through(c) \subseteq G
  <2>1. c \in G /\ ClosedUnderReads(G) /\ G \in SUBSET Sources
    BY <1>1, <1>3 DEF ClosedUnderReads
  <2> HIDE DEF G
  <2> QED
    BY <2>1 DEF Through
<1> QED
  BY <1>3, <1>4

\* The same along every chain of reads, through any number of computeds.
THEOREM GraphFreshThroughout == Spec => []FreshThroughout
BY GraphComputedFresh, FreshOnTheWay, PTL

\* No lost update: a live effect that depends on something that has changed
\* since it read it is waiting for a flush (exceptions apart).
THEOREM GraphNoLostUpdate == Spec => []NoLostUpdate
<1>1. IInv => NoLostUpdate
  BY IInvFresh
<1> QED
  BY <1>1, InitIInv, NextIInv, PTL DEF Spec

-----------------------------------------------------------------------------
(* Effects, batches and flushes *)

(* What a step may do to the stack, the batch depth and the active effect *)

Stays == UNCHANGED <<stack, activeEffect, batchDepth>>

Calls(f) == /\ Push(f) /\ f.kind \in {"computed", "batch", "effect"}
            /\ batchDepth' = (IF f.kind = "batch" THEN batchDepth + 1 ELSE batchDepth)
            /\ activeEffect' = (IF f.kind = "effect" THEN f.node ELSE activeEffect)

StartsFlush(f) == stack = <<>> /\ f.kind = "flush" /\ Push(f)
                  /\ UNCHANGED <<activeEffect, batchDepth>>

FlushMoves(f) == /\ stack # <<>> /\ Top.kind = "flush" /\ f.kind = "flush" /\ ReplaceTop(f)
                 /\ UNCHANGED <<activeEffect, batchDepth>>

FlushCalls(f, g) == /\ stack # <<>> /\ Top.kind = "flush" /\ f.kind = "flush"
                    /\ g.kind = "effect" /\ stack' = Append(Append(Front(stack), f), g)
                    /\ activeEffect' = g.node /\ UNCHANGED batchDepth

Returns == /\ stack # <<>> /\ Pop
           /\ batchDepth' = (IF Top.kind = "batch" THEN batchDepth - 1 ELSE batchDepth)
           /\ activeEffect' = (IF Top.kind = "effect" THEN None ELSE activeEffect)

BatchFlushes(f) == /\ stack # <<>> /\ Top.kind = "batch" /\ f.kind = "flush" /\ ReplaceTop(f)
                   /\ batchDepth = 1 /\ batchDepth' = batchDepth - 1
                   /\ UNCHANGED activeEffect

LEMMA NextStack ==
  ASSUME TypeOK, [Next]_vars
  PROVE  \/ Stays \/ Returns
         \/ \E f \in Frames : \/ Calls(f) \/ StartsFlush(f) \/ FlushMoves(f) \/ BatchFlushes(f)
                              \/ \E g \in Frames : FlushCalls(f, g)
<1> DEFINE Goal == \/ Stays \/ Returns
                   \/ \E f \in Frames :
                        \/ Calls(f) \/ StartsFlush(f) \/ FlushMoves(f) \/ BatchFlushes(f)
                        \/ \E g \in Frames : FlushCalls(f, g)
<1> SUFFICES Goal
  OBVIOUS
<1>1. ASSUME \/ \E d \in Sources : ReadFresh(d)
             \/ \E c \in Computeds : ReadCycle(c) \/ DisposeComputed(c)
             \/ \E s \in Signals, v \in Values : SetSignal(s, v)
             \/ \E e \in Effects : DisposeEffect(e)
             \/ OnCleanup \/ FlushGiveUp \/ Throw \/ Catch \/ UNCHANGED vars
      PROVE  Stays
  BY <1>1 DEF Stays, ReadFresh, ReadCycle, DisposeComputed, SetSignal, DisposeEffect, OnCleanup,
              FlushGiveUp, Throw, Catch, vars
<1>2. ASSUME NEW c \in Computeds, Recompute(c) PROVE Goal
  <2>1. Call("computed", c) \in Frames /\ Call("computed", c).kind = "computed"
    BY CallType DEF FrameKinds, Observers, Call
  <2>2. Calls(Call("computed", c))
    BY <1>2, <2>1 DEF Calls, Recompute
  <2> QED
    BY <2>1, <2>2
<1>3. ASSUME NEW e \in Effects
      PROVE  /\ Call("effect", e) \in Frames /\ Call("effect", e).kind = "effect"
             /\ Call("effect", e).node = e
  BY CallType DEF FrameKinds, Observers, Call
<1>4. ASSUME NEW e \in Effects, CreateEffect(e) PROVE Goal
  <2>1. Calls(Call("effect", e))
    BY <1>3, <1>4 DEF Calls, CreateEffect, StartRun, Push
  <2> QED
    BY <1>3, <2>1
<1>5. ASSUME BatchBegin PROVE Goal
  <2>1. Call("batch", None) \in Frames /\ Call("batch", None).kind = "batch"
    BY CallType DEF FrameKinds, Call
  <2>2. Calls(Call("batch", None))
    BY <1>5, <2>1 DEF Calls, BatchBegin
  <2> QED
    BY <2>1, <2>2
<1>6. ASSUME NEW r \in Errors
      PROVE  FlushCall(r) \in Frames /\ FlushCall(r).kind = "flush"
  BY FlushCallType DEF FlushCall
<1>7. ASSUME NEW r \in Errors, TopIs({"batch"}), LeaveBatch(r) PROVE Goal
  <2>1. CASE batchDepth = 1
    <3>1. BatchFlushes(FlushCall(r))
      BY <1>6, <1>7, <2>1 DEF BatchFlushes, LeaveBatch, TopIs
    <3> QED
      BY <1>6, <3>1
  <2>2. CASE batchDepth # 1
    BY <1>7, <2>2 DEF Returns, LeaveBatch, TopIs
  <2> QED
    BY <2>1, <2>2
<1>8. ASSUME BatchEnd \/ UnwindBatch PROVE Goal
  BY <1>7, <1>8 DEF BatchEnd, UnwindBatch, TypeOK, Errors
<1>9. ASSUME MicrotaskFlush PROVE Goal
  <2>1. FlushCall("none") \in Frames /\ FlushCall("none").kind = "flush"
    BY <1>6 DEF Errors
  <2>2. StartsFlush(FlushCall("none"))
    BY <1>9, <2>1 DEF StartsFlush, MicrotaskFlush, Idle
  <2> QED
    BY <2>1, <2>2
<1>10. Flushing => stack # <<>> /\ Top.kind = "flush" /\ Top \in Frames
  BY TopType DEF Flushing, TopIs
<1>11. ASSUME FlushTakeBatch PROVE Goal
  <2> DEFINE f == [Top EXCEPT !.todo = effectQ, !.loops = @ + 1]
  <2>1. Flushing /\ ReplaceTop(f) /\ UNCHANGED <<activeEffect, batchDepth>>
    BY <1>11 DEF FlushTakeBatch
  <2>2. f \in Frames /\ f.kind = "flush"
    <3>1. Top.loops + 1 \in Nat /\ effectQ \in SUBSET Effects
      BY <1>10, <2>1, TopType DEF TypeOK
    <3> QED
      BY <1>10, <2>1, <3>1 DEF Frames
  <2> HIDE DEF f
  <2>3. FlushMoves(f)
    BY <1>10, <2>1, <2>2 DEF FlushMoves
  <2> QED
    BY <2>2, <2>3
<1>12. ASSUME NEW e \in Effects, Flushing
       PROVE  LET f == [Top EXCEPT !.todo = @ \ {e}] IN f \in Frames /\ f.kind = "flush"
  BY <1>10, <1>12 DEF Frames
<1>13. ASSUME NEW e \in Effects, FlushSkip(e) PROVE Goal
  <2> DEFINE f == [Top EXCEPT !.todo = @ \ {e}]
  <2>1. Flushing /\ ReplaceTop(f) /\ UNCHANGED <<activeEffect, batchDepth>>
    BY <1>13 DEF FlushSkip
  <2>2. f \in Frames /\ f.kind = "flush"
    BY <1>12, <2>1
  <2> HIDE DEF f
  <2>3. FlushMoves(f)
    BY <1>10, <2>1, <2>2 DEF FlushMoves
  <2> QED
    BY <2>2, <2>3
<1>14. ASSUME NEW e \in Effects, FlushRun(e) PROVE Goal
  <2> DEFINE f == [Top EXCEPT !.todo = @ \ {e}]
  <2>1. /\ Flushing /\ stack' = Append(Append(Front(stack), f), Call("effect", e))
        /\ activeEffect' = e /\ UNCHANGED batchDepth
    BY <1>14 DEF FlushRun, StartRun
  <2>2. f \in Frames /\ f.kind = "flush"
    BY <1>12, <2>1
  <2> HIDE DEF f
  <2>3. FlushCalls(f, Call("effect", e))
    BY <1>3, <1>10, <2>1, <2>2 DEF FlushCalls
  <2> QED
    BY <1>3, <2>2, <2>3
<1>15. ASSUME \/ \E v \in Values : ComputedReturn(v)
              \/ EffectReturn \/ FlushDone \/ UnwindComputed \/ UnwindEffect \/ UnwindFlush
       PROVE  Returns
  BY <1>15 DEF Returns, ComputedReturn, EffectReturn, FlushDone, UnwindComputed, UnwindEffect,
               UnwindFlush, LeaveEffect, Flushing, TopIs
<1> QED
  BY <1>1, <1>2, <1>4, <1>5, <1>8, <1>9, <1>11, <1>13, <1>14, <1>15 DEF Next

\* The stack that is not empty, without its top and with another one.
LEMMA StackFacts ==
  ASSUME TypeOK, stack # <<>>
  PROVE  /\ Len(stack) \in Nat \ {0} /\ Top = stack[Len(stack)]
         /\ Front(stack) \in Seq(Frames) /\ Len(Front(stack)) = Len(stack) - 1
         /\ \A i \in 1..(Len(stack) - 1) : Front(stack)[i] = stack[i]
<1>1. stack \in Seq(Frames)
  BY DEF TypeOK
<1> QED
  BY <1>1, FrontFacts DEF Top

-----------------------------------------------------------------------------
(* Cleanups *)

\* a is what the innermost effect on the stack st is, or None.
Innermost(st, a) ==
  a # None => \E i \in 1..Len(st) : /\ st[i].kind = "effect" /\ st[i].node = a
                                    /\ \A j \in (i + 1)..Len(st) : st[j].kind # "effect"

LEMMA InnermostAppend ==
  ASSUME NEW st \in Seq(Frames), NEW a, Innermost(st, a), NEW f \in Frames
  PROVE  Innermost(Append(st, f), IF f.kind = "effect" THEN f.node ELSE a)
<1> DEFINE n == Len(st)
           ap == Append(st, f)
<1>1. n \in Nat /\ Len(ap) = n + 1 /\ ap[n + 1] = f /\ \A i \in 1..n : ap[i] = st[i]
  BY AppendFacts
<1> HIDE DEF ap
<1>2. CASE f.kind = "effect"
  <2>1. \A j \in (n + 1 + 1)..(n + 1) : FALSE
    BY <1>1
  <2> QED
    BY <1>1, <1>2, <2>1 DEF Innermost, ap
<1>3. CASE f.kind # "effect" /\ a # None
  <2>1. PICK i \in 1..n : /\ st[i].kind = "effect" /\ st[i].node = a
                          /\ \A j \in (i + 1)..n : st[j].kind # "effect"
    BY <1>3 DEF Innermost
  <2>2. i \in 1..(n + 1) /\ ap[i].kind = "effect" /\ ap[i].node = a
    BY <1>1, <2>1
  <2>3. ASSUME NEW j \in (i + 1)..(n + 1) PROVE ap[j].kind # "effect"
    <3>1. CASE j = n + 1
      BY <1>1, <1>3, <3>1
    <3>2. CASE j # n + 1
      BY <1>1, <2>1, <2>3, <3>2
    <3> QED
      BY <3>1, <3>2
  <2> QED
    BY <1>1, <1>3, <2>2, <2>3 DEF Innermost, ap
<1>4. CASE f.kind # "effect" /\ a = None
  BY <1>4 DEF Innermost
<1> QED
  BY <1>2, <1>3, <1>4

LEMMA InnermostFront ==
  ASSUME NEW st \in Seq(Frames), st # <<>>, NEW a, Innermost(st, a)
  PROVE  Innermost(Front(st), IF st[Len(st)].kind = "effect" THEN None ELSE a)
<1> DEFINE n == Len(st)
<1>1. n \in Nat \ {0} /\ Len(Front(st)) = n - 1 /\ \A i \in 1..(n - 1) : Front(st)[i] = st[i]
  BY FrontFacts
<1>2. CASE st[n].kind = "effect" \/ a = None
  BY <1>2 DEF Innermost
<1>3. CASE st[n].kind # "effect" /\ a # None
  <2>1. PICK i \in 1..n : /\ st[i].kind = "effect" /\ st[i].node = a
                          /\ \A j \in (i + 1)..n : st[j].kind # "effect"
    BY <1>3 DEF Innermost
  <2>2. i \in 1..(n - 1)
    BY <1>1, <1>3, <2>1
  <2>3. \A j \in (i + 1)..(n - 1) : j \in (i + 1)..n /\ j \in 1..(n - 1)
    BY <1>1, <2>2
  <2> QED
    BY <1>1, <1>3, <2>1, <2>2, <2>3 DEF Innermost
<1> QED
  BY <1>2, <1>3

LEMMA NextInnermost ==
  ASSUME TypeOK, Innermost(stack, activeEffect), [Next]_vars
  PROVE  Innermost(stack, activeEffect)'
<1>1. stack \in Seq(Frames)
  BY DEF TypeOK
<1>2. CASE Stays
  BY <1>2 DEF Stays, Innermost
<1>3. CASE Returns
  <2>1. Innermost(Front(stack), IF stack[Len(stack)].kind = "effect" THEN None ELSE activeEffect)
    BY <1>1, <1>3, InnermostFront DEF Returns
  <2> QED
    BY <1>3, <2>1, StackFacts DEF Returns, Pop
<1>4. ASSUME NEW f \in Frames, Calls(f) \/ StartsFlush(f) PROVE Innermost(stack, activeEffect)'
  <2>1. Innermost(Append(stack, f), IF f.kind = "effect" THEN f.node ELSE activeEffect)
    BY <1>1, InnermostAppend
  <2> QED
    BY <1>4, <2>1 DEF Calls, StartsFlush, Push
\* Replacing a flush or a batch by a flush changes no effect of the stack.
<1>5. ASSUME NEW f \in Frames, f.kind = "flush", stack # <<>>, Top.kind # "effect"
      PROVE  /\ Innermost(Append(Front(stack), f), activeEffect)
             /\ Append(Front(stack), f) \in Seq(Frames)
  <2>1. Innermost(Front(stack), activeEffect)
    <3>1. Innermost(Front(stack),
                    IF stack[Len(stack)].kind = "effect" THEN None ELSE activeEffect)
      BY <1>1, <1>5, InnermostFront
    <3> QED
      BY <1>5, <3>1, StackFacts
  <2>2. Front(stack) \in Seq(Frames)
    BY <1>5, StackFacts
  <2>3. Innermost(Append(Front(stack), f), IF f.kind = "effect" THEN f.node ELSE activeEffect)
    BY <2>1, <2>2, InnermostAppend
  <2> QED
    BY <1>5, <2>2, <2>3, AppendFacts
<1>6. ASSUME NEW f \in Frames, FlushMoves(f) \/ BatchFlushes(f)
      PROVE  Innermost(stack, activeEffect)'
  BY <1>5, <1>6 DEF FlushMoves, BatchFlushes, ReplaceTop
<1>7. ASSUME NEW f \in Frames, NEW g \in Frames, FlushCalls(f, g)
      PROVE  Innermost(stack, activeEffect)'
  <2>1. /\ Innermost(Append(Front(stack), f), activeEffect)
        /\ Append(Front(stack), f) \in Seq(Frames)
    BY <1>5, <1>7 DEF FlushCalls
  <2>2. Innermost(Append(Append(Front(stack), f), g),
                  IF g.kind = "effect" THEN g.node ELSE activeEffect)
    BY <2>1, InnermostAppend
  <2> QED
    BY <1>7, <2>2 DEF FlushCalls
<1> QED
  BY <1>2, <1>3, <1>4, <1>6, <1>7, NextStack

LEMMA InitInnermost == Init => Innermost(stack, activeEffect)
BY DEF Init, Innermost

LEMMA InnermostIsRunning ==
  ASSUME TypeOK, Innermost(stack, activeEffect)
  PROVE  CleanupGoesToRunningEffect
<1>1. stack \in Seq(Frames)
  BY DEF TypeOK
<1>2. DOMAIN stack = 1..Len(stack)
  BY <1>1
<1> QED
  BY <1>2 DEF Innermost, CleanupGoesToRunningEffect

\* onCleanup() can only register with the effect whose function is running.
THEOREM GraphCleanupGoesToRunningEffect == Spec => []CleanupGoesToRunningEffect
<1> DEFINE Inv == TypeOK /\ Innermost(stack, activeEffect)
<1>1. Init => Inv
  BY InitTypeOK, InitInnermost
<1>2. Inv /\ [Next]_vars => Inv'
  BY NextTypeOK, NextInnermost
<1>3. Inv => CleanupGoesToRunningEffect
  BY InnermostIsRunning
<1> QED
  BY <1>1, <1>2, <1>3, PTL DEF Spec

-----------------------------------------------------------------------------
(* Disposal *)

LEMMA NextDisposed ==
  ASSUME TypeOK, StackInv, Innermost(stack, activeEffect), Next,
         NEW e \in Effects, status[e] = "disposed", ~OnStack("effect", e)
  PROVE  ~OnStack("effect", e)' /\ deps'[e] \subseteq deps[e] /\ cleanups'[e] = cleanups[e]
<1> USE DEF nodeVars, queueVars
<1>1. /\ stack \in Seq(Frames) /\ DOMAIN stack = 1..Len(stack) /\ e \in Observers
      /\ deps \in [Observers -> SUBSET Sources] /\ cleanups \in [Effects -> Nat]
      /\ e \notin Computeds /\ e # None
  <2>1. stack \in Seq(Frames)
    BY DEF TypeOK
  <2> QED
    BY <2>1, KindsAssumption DEF TypeOK, Observers
<1>2. currentObserver # e /\ activeEffect # e
  BY <1>1 DEF StackInv, Shape, Innermost, OnStack
\* No step but the start of a run of e puts e on the stack.
<1>a. ASSUME NEW st \in Seq(Frames), \A i \in 1..Len(st) : ~(st[i].kind = "effect" /\ st[i].node = e),
             NEW f \in Frames, ~(f.kind = "effect" /\ f.node = e)
      PROVE  \A i \in 1..Len(Append(st, f)) :
               ~(Append(st, f)[i].kind = "effect" /\ Append(st, f)[i].node = e)
  BY <1>a, AppendFacts
<1>b. ASSUME stack # <<>>
      PROVE  \A i \in 1..Len(Front(stack)) :
               ~(Front(stack)[i].kind = "effect" /\ Front(stack)[i].node = e)
  BY <1>1, <1>b, StackFacts DEF OnStack
<1>c. \A i \in 1..Len(stack) : ~(stack[i].kind = "effect" /\ stack[i].node = e)
  BY <1>1 DEF OnStack
<1>d. ASSUME stack' \in Seq(Frames),
             \A i \in 1..Len(stack') : ~(stack'[i].kind = "effect" /\ stack'[i].node = e)
      PROVE  ~OnStack("effect", e)'
  BY <1>d DEF OnStack
<1>3. /\ activeEffect' # e => ~OnStack("effect", e)'
      /\ deps'[e] \subseteq deps[e] /\ cleanups'[e] = cleanups[e] /\ activeEffect' # e
  <2>1. activeEffect' # e => ~OnStack("effect", e)'
    <3> SUFFICES ASSUME activeEffect' # e PROVE ~OnStack("effect", e)'
      OBVIOUS
    <3>1. CASE Stays
      BY <3>1 DEF Stays, OnStack
    <3>2. CASE Returns
      BY <1>b, <1>d, <3>2, StackFacts DEF Returns, Pop
    <3>3. ASSUME NEW f \in Frames, Calls(f) \/ StartsFlush(f) PROVE ~OnStack("effect", e)'
      <4>1. stack' = Append(stack, f) /\ ~(f.kind = "effect" /\ f.node = e)
        BY <3>3 DEF Calls, StartsFlush, Push
      <4> QED
        BY <1>1, <1>a, <1>c, <1>d, <4>1, AppendFacts
    <3>4. ASSUME NEW f \in Frames, FlushMoves(f) \/ BatchFlushes(f) PROVE ~OnStack("effect", e)'
      <4>1. stack # <<>> /\ stack' = Append(Front(stack), f) /\ f.kind = "flush"
        BY <3>4 DEF FlushMoves, BatchFlushes, ReplaceTop
      <4> QED
        BY <1>a, <1>b, <1>d, <4>1, StackFacts, AppendFacts
    <3>5. ASSUME NEW f \in Frames, NEW g \in Frames, FlushCalls(f, g)
          PROVE  ~OnStack("effect", e)'
      <4>1. /\ stack # <<>> /\ stack' = Append(Append(Front(stack), f), g) /\ f.kind = "flush"
            /\ ~(g.kind = "effect" /\ g.node = e)
        BY <3>5 DEF FlushCalls
      <4>2. /\ Append(Front(stack), f) \in Seq(Frames)
            /\ \A i \in 1..Len(Append(Front(stack), f)) :
                 ~(Append(Front(stack), f)[i].kind = "effect" /\ Append(Front(stack), f)[i].node = e)
        BY <1>a, <1>b, <4>1, StackFacts, AppendFacts
      <4> QED
        BY <1>a, <1>d, <4>1, <4>2, AppendFacts
    <3> QED
      BY <3>1, <3>2, <3>3, <3>4, <3>5, NextStack
  <2>2. ASSUME NEW a \in Effects, a # e, NEW base, StartRun(a, base)
        PROVE  deps'[e] \subseteq deps[e] /\ cleanups'[e] = cleanups[e] /\ activeEffect' # e
    BY <1>1, <2>2 DEF StartRun, UnlinkDeps
  <2>3. ASSUME NEW d \in Sources
        PROVE  /\ LinkDeps(currentObserver, d) \in [Observers -> SUBSET Sources]
               /\ LinkDeps(currentObserver, d)[e] = deps[e]
    <3>1. LinkDeps(currentObserver, d)[e] = deps[e]
      BY <1>1, <1>2 DEF LinkDeps, TypeOK
    <3> QED
      BY <3>1, LinkTypes
  <2>4. ASSUME NEW d \in Sources, ReadFresh(d)
        PROVE  deps'[e] \subseteq deps[e] /\ UNCHANGED <<cleanups, activeEffect>>
    BY <2>3, <2>4 DEF ReadFresh, Track
  <2>5. ASSUME NEW c \in Computeds, ReadCycle(c)
        PROVE  deps'[e] \subseteq deps[e] /\ UNCHANGED <<cleanups, activeEffect>>
    BY <2>3, <2>5 DEF ReadCycle, Track, Sources
  <2>6. ASSUME NEW c \in Computeds, Recompute(c)
        PROVE  deps'[e] \subseteq deps[e] /\ UNCHANGED <<cleanups, activeEffect>>
    <3>1. deps' = UnlinkDeps(c, LinkDeps(currentObserver, c)) /\ UNCHANGED <<cleanups, activeEffect>>
      BY <2>6 DEF Recompute
    <3> QED
      BY <1>1, <2>3, <3>1 DEF UnlinkDeps, Sources
  <2>7. ASSUME NEW c \in Computeds, DisposeComputed(c)
        PROVE  deps'[e] \subseteq deps[e] /\ UNCHANGED <<cleanups, activeEffect>>
    BY <1>1, <2>7 DEF DisposeComputed
  <2>8. ASSUME NEW a \in Effects, DisposeEffect(a)
        PROVE  deps'[e] \subseteq deps[e] /\ cleanups'[e] = cleanups[e] /\ UNCHANGED activeEffect
    <3>1. a # e
      BY <2>8 DEF DisposeEffect
    <3> QED
      BY <1>1, <2>8, <3>1 DEF DisposeEffect, UnlinkDeps
  <2>9. ASSUME OnCleanup
        PROVE  UNCHANGED <<deps, activeEffect>> /\ cleanups'[e] = cleanups[e]
    BY <1>1, <1>2, <2>9 DEF OnCleanup
  <2>10. ASSUME EffectReturn
         PROVE  UNCHANGED deps /\ cleanups'[e] = cleanups[e] /\ activeEffect' = None
    <3>1. stack # <<>> /\ Top.kind = "effect"
      BY <2>10 DEF EffectReturn, TopIs
    <3>2. Top.node # e
      BY <1>c, <3>1, StackFacts
    <3> QED
      BY <1>1, <2>10, <3>2 DEF EffectReturn, LeaveEffect
  <2>11. ASSUME NEW a \in Effects, CreateEffect(a) \/ FlushRun(a)
         PROVE  deps'[e] \subseteq deps[e] /\ cleanups'[e] = cleanups[e] /\ activeEffect' # e
    <3>1. a # e
      BY <2>11 DEF CreateEffect, FlushRun
    <3> QED
      BY <2>2, <2>11, <3>1 DEF CreateEffect, FlushRun
  <2>12. ASSUME \/ \E v \in Values : ComputedReturn(v)
                \/ \E s \in Signals, v \in Values : SetSignal(s, v)
                \/ \E a \in Effects : FlushSkip(a)
                \/ BatchBegin \/ BatchEnd \/ MicrotaskFlush \/ FlushTakeBatch \/ FlushGiveUp
                \/ FlushDone \/ Throw \/ Catch \/ UnwindComputed \/ UnwindBatch \/ UnwindFlush
         PROVE  UNCHANGED <<deps, cleanups, activeEffect>>
    BY <2>12 DEF ComputedReturn, SetSignal, FlushSkip, BatchBegin, BatchEnd, MicrotaskFlush,
                 FlushTakeBatch, FlushGiveUp, FlushDone, Throw, Catch, UnwindComputed,
                 UnwindBatch, UnwindFlush, LeaveBatch
  <2>13. ASSUME UnwindEffect
         PROVE  UNCHANGED <<deps, cleanups>> /\ activeEffect' = None
    BY <2>13 DEF UnwindEffect, LeaveEffect
  <2>14. deps'[e] \subseteq deps[e] /\ cleanups'[e] = cleanups[e] /\ activeEffect' # e
    BY <1>1, <1>2, <2>4, <2>5, <2>6, <2>7, <2>8, <2>9, <2>10, <2>11, <2>12, <2>13 DEF Next
  <2> QED
    BY <2>1, <2>14
<1> QED
  BY <1>3

\* A disposed effect whose function is not on the stack stays as it is.
THEOREM GraphDisposedIsInert == Spec => DisposedIsInert
<1> DEFINE Inv == TypeOK /\ StackInv /\ Innermost(stack, activeEffect)
<1>1. Init => Inv
  BY InitTypeOK, InitStackInv, InitInnermost
<1>2. Inv /\ [Next]_vars => Inv'
  BY NextTypeOK, NextStackInv, NextInnermost
<1>3. Inv /\ [Next]_vars =>
        [\A e \in Effects :
           status[e] = "disposed" /\ ~OnStack("effect", e) =>
             /\ ~OnStack("effect", e)'
             /\ deps'[e] \subseteq deps[e]
             /\ cleanups'[e] = cleanups[e]]_vars
  BY NextDisposed
<1> QED
  BY <1>1, <1>2, <1>3, PTL DEF Spec, DisposedIsInert

-----------------------------------------------------------------------------
(* Batches and flushes *)

BatchFrames(st) == {i \in 1..Len(st) : st[i].kind = "batch"}

\* d batches are open on the stack st, and no flush is inside one of them.
Nesting(st, d) ==
  /\ IsFiniteSet(BatchFrames(st)) /\ d = Cardinality(BatchFrames(st))
  /\ \A i, j \in 1..Len(st) : (i < j /\ st[i].kind = "batch") => st[j].kind # "flush"

LEMMA NestingEmpty == Nesting(<<>>, 0)
<1>1. BatchFrames(<<>>) = {}
  BY DEF BatchFrames
<1> QED
  BY <1>1, FS_EmptySet DEF Nesting

LEMMA NestingAppend ==
  ASSUME NEW st \in Seq(Frames), NEW d, Nesting(st, d), NEW f \in Frames,
         f.kind = "flush" => d = 0
  PROVE  Nesting(Append(st, f), IF f.kind = "batch" THEN d + 1 ELSE d)
<1> DEFINE n == Len(st)
           ap == Append(st, f)
<1>1. n \in Nat /\ Len(ap) = n + 1 /\ ap[n + 1] = f /\ \A i \in 1..n : ap[i] = st[i]
  BY AppendFacts
<1> HIDE DEF ap
<1>2. BatchFrames(ap) = IF f.kind = "batch" THEN BatchFrames(st) \cup {n + 1}
                        ELSE BatchFrames(st)
  BY <1>1 DEF BatchFrames
<1>3. n + 1 \notin BatchFrames(st)
  BY <1>1 DEF BatchFrames
<1>4. /\ IsFiniteSet(BatchFrames(ap))
      /\ Cardinality(BatchFrames(ap)) = IF f.kind = "batch" THEN d + 1 ELSE d
  BY <1>2, <1>3, FS_AddElement DEF Nesting
<1>5. f.kind = "flush" => \A i \in 1..n : st[i].kind # "batch"
  <2>1. f.kind = "flush" => BatchFrames(st) = {}
    BY FS_EmptySet DEF Nesting
  <2> QED
    BY <2>1 DEF BatchFrames
<1>6. \A i, j \in 1..(n + 1) : (i < j /\ ap[i].kind = "batch") => ap[j].kind # "flush"
  <2> SUFFICES ASSUME NEW i \in 1..(n + 1), NEW j \in 1..(n + 1), i < j, ap[i].kind = "batch"
               PROVE  ap[j].kind # "flush"
    OBVIOUS
  <2>1. i \in 1..n /\ st[i].kind = "batch"
    BY <1>1
  <2>2. CASE j = n + 1
    BY <1>1, <1>5, <2>1, <2>2
  <2>3. CASE j # n + 1
    BY <1>1, <2>1, <2>3 DEF Nesting
  <2> QED
    BY <2>2, <2>3
<1> QED
  BY <1>1, <1>4, <1>6 DEF Nesting, ap

LEMMA NestingFront ==
  ASSUME NEW st \in Seq(Frames), st # <<>>, NEW d, Nesting(st, d)
  PROVE  Nesting(Front(st), IF st[Len(st)].kind = "batch" THEN d - 1 ELSE d)
<1> DEFINE n == Len(st)
           fr == Front(st)
<1>1. n \in Nat \ {0} /\ Len(fr) = n - 1 /\ \A i \in 1..(n - 1) : fr[i] = st[i]
  BY FrontFacts
<1> HIDE DEF fr
<1>2. BatchFrames(fr) = BatchFrames(st) \ {n}
  BY <1>1 DEF BatchFrames
<1>3. n \in BatchFrames(st) <=> st[n].kind = "batch"
  BY <1>1 DEF BatchFrames
<1>4. /\ IsFiniteSet(BatchFrames(fr))
      /\ Cardinality(BatchFrames(fr)) = IF st[n].kind = "batch" THEN d - 1 ELSE d
  BY <1>2, <1>3, FS_RemoveElement DEF Nesting
<1>5. \A i, j \in 1..(n - 1) : (i < j /\ fr[i].kind = "batch") => fr[j].kind # "flush"
  BY <1>1 DEF Nesting
<1> QED
  BY <1>1, <1>4, <1>5 DEF Nesting, fr

\* Where a flush is on top, and where a batch is, of the open batches.
LEMMA NestingTop ==
  ASSUME NEW st \in Seq(Frames), st # <<>>, NEW d, Nesting(st, d)
  PROVE  /\ d \in Nat
         /\ st[Len(st)].kind = "flush" => d = 0
         /\ st[Len(st)].kind = "batch" => d # 0
<1> DEFINE n == Len(st)
<1>1. n \in 1..n
  OBVIOUS
<1>2. d \in Nat /\ (d = 0 <=> BatchFrames(st) = {})
  BY FS_EmptySet, FS_CardinalityType DEF Nesting
<1>3. st[n].kind = "flush" => BatchFrames(st) = {}
  BY <1>1 DEF BatchFrames, Nesting
<1>4. st[n].kind = "batch" => BatchFrames(st) # {}
  BY <1>1 DEF BatchFrames
<1> QED
  BY <1>2, <1>3, <1>4

LEMMA NextNesting ==
  ASSUME TypeOK, Nesting(stack, batchDepth), [Next]_vars
  PROVE  Nesting(stack, batchDepth)'
<1>1. stack \in Seq(Frames)
  BY DEF TypeOK
<1>2. CASE Stays
  BY <1>2 DEF Stays, Nesting, BatchFrames
<1>a. stack # <<>> => Nesting(Front(stack), IF Top.kind = "batch" THEN batchDepth - 1
                                            ELSE batchDepth)
  <2>1. stack # <<>> => Nesting(Front(stack), IF stack[Len(stack)].kind = "batch"
                                              THEN batchDepth - 1 ELSE batchDepth)
    BY <1>1, NestingFront
  <2> QED
    BY <2>1, StackFacts
<1>3. CASE Returns
  BY <1>3, <1>a DEF Returns, Pop
<1>b. stack # <<>> /\ Top.kind = "flush" => batchDepth = 0
  BY <1>1, NestingTop, StackFacts
<1>4. ASSUME NEW f \in Frames, Calls(f) PROVE Nesting(stack, batchDepth)'
  <2>1. Nesting(Append(stack, f), IF f.kind = "batch" THEN batchDepth + 1 ELSE batchDepth)
    BY <1>1, <1>4, NestingAppend DEF Calls
  <2> QED
    BY <1>4, <2>1 DEF Calls, Push
<1>5. ASSUME NEW f \in Frames, StartsFlush(f) PROVE Nesting(stack, batchDepth)'
  <2>1. batchDepth = 0
    <3>1. BatchFrames(stack) = {}
      BY <1>5 DEF StartsFlush, BatchFrames
    <3> QED
      BY <3>1, FS_EmptySet DEF Nesting
  <2>2. Nesting(Append(stack, f), IF f.kind = "batch" THEN batchDepth + 1 ELSE batchDepth)
    BY <1>1, <2>1, NestingAppend
  <2> QED
    BY <1>5, <2>2 DEF StartsFlush, Push
\* A flush takes the place of the top where no batch is open below it.
<1>c. ASSUME NEW f \in Frames, f.kind = "flush", stack # <<>>, NEW d,
             Nesting(Front(stack), d), d = 0
      PROVE  Nesting(Append(Front(stack), f), d) /\ Append(Front(stack), f) \in Seq(Frames)
  <2>1. Front(stack) \in Seq(Frames)
    BY <1>c, StackFacts
  <2>2. Nesting(Append(Front(stack), f), IF f.kind = "batch" THEN d + 1 ELSE d)
    BY <1>c, <2>1, NestingAppend
  <2> QED
    BY <1>c, <2>1, <2>2, AppendFacts
<1>6. ASSUME NEW f \in Frames, FlushMoves(f) PROVE Nesting(stack, batchDepth)'
  BY <1>6, <1>a, <1>b, <1>c DEF FlushMoves, ReplaceTop
<1>7. ASSUME NEW f \in Frames, BatchFlushes(f) PROVE Nesting(stack, batchDepth)'
  <2>1. batchDepth' = 0 /\ Nesting(Front(stack), batchDepth')
    BY <1>7, <1>a DEF BatchFlushes
  <2>2. Nesting(Append(Front(stack), f), batchDepth')
    BY <1>7, <2>1, <1>c DEF BatchFlushes
  <2> QED
    BY <1>7, <2>2 DEF BatchFlushes, ReplaceTop
<1>8. ASSUME NEW f \in Frames, NEW g \in Frames, FlushCalls(f, g)
      PROVE  Nesting(stack, batchDepth)'
  <2>1. Nesting(Front(stack), batchDepth) /\ batchDepth = 0
    BY <1>8, <1>a, <1>b DEF FlushCalls
  <2>2. Nesting(Append(Front(stack), f), batchDepth) /\ Append(Front(stack), f) \in Seq(Frames)
    BY <1>8, <1>c, <2>1 DEF FlushCalls
  <2>3. Nesting(Append(Append(Front(stack), f), g),
                IF g.kind = "batch" THEN batchDepth + 1 ELSE batchDepth)
    BY <1>8, <2>2, NestingAppend DEF FlushCalls
  <2> QED
    BY <1>8, <2>3 DEF FlushCalls
<1> QED
  BY <1>2, <1>3, <1>4, <1>5, <1>6, <1>7, <1>8, NextStack

LEMMA InitNesting == Init => Nesting(stack, batchDepth)
BY NestingEmpty DEF Init

\* No flush runs effects while a batch is open.
THEOREM GraphNoFlushInsideBatch == Spec => []NoFlushInsideBatch
<1> DEFINE Inv == TypeOK /\ Nesting(stack, batchDepth)
<1>1. Init => Inv
  BY InitTypeOK, InitNesting
<1>2. Inv /\ [Next]_vars => Inv'
  BY NextTypeOK, NextNesting
<1>3. Inv => NoFlushInsideBatch
  <2> SUFFICES ASSUME Inv PROVE NoFlushInsideBatch
    OBVIOUS
  <2>1. stack \in Seq(Frames)
    BY DEF TypeOK
  <2>2. DOMAIN stack = 1..Len(stack)
    BY <2>1
  <2> QED
    BY <2>2 DEF Nesting, NoFlushInsideBatch
<1> QED
  BY <1>1, <1>2, <1>3, PTL DEF Spec

\* A flush that has just been entered.
AboutToFlush == stack # <<>> /\ Top.kind = "flush" /\ Top.loops = 0 /\ Top.todo = {}
                /\ raised = "none"

\* Whenever effects wait, a flush is expected, a batch is open or a flush is
\* about to take them; and one that is expected is in the microtask queue.
QueueInv ==
  /\ scheduled => ticks > 0
  /\ effectQ # {} => scheduled \/ batchDepth > 0 \/ AboutToFlush

LEMMA NextQueueInv ==
  ASSUME TypeOK, Nesting(stack, batchDepth), QueueInv, [Next]_vars
  PROVE  QueueInv'
<1> USE DEF nodeVars, queueVars
<1>1. /\ stack \in Seq(Frames) /\ ticks \in Nat /\ batchDepth \in Nat
      /\ stack # <<>> /\ Top.kind = "batch" => batchDepth # 0
  <2>1. stack \in Seq(Frames) /\ ticks \in Nat /\ IsFiniteSet(BatchFrames(stack))
    BY DEF TypeOK, Nesting
  <2>2. batchDepth \in Nat
    BY <2>1, FS_CardinalityType DEF Nesting
  <2> QED
    BY <2>1, <2>2, NestingTop, StackFacts
<1>2. ~AboutToFlush =>
        (effectQ # {} => scheduled \/ batchDepth > 0) /\ (scheduled => ticks > 0)
  BY DEF QueueInv
\* Steps of user code, and of calls it made, that neither schedule nor flush.
<1>a. ASSUME ~AboutToFlush, UNCHANGED <<effectQ, scheduled, ticks>>,
             batchDepth > 0 => batchDepth' > 0
      PROVE  QueueInv'
  BY <1>2, <1>a DEF QueueInv
<1>b. raised # "none" \/ UserCode \/ stack = <<>> \/ Top.kind # "flush" => ~AboutToFlush
  BY DEF AboutToFlush, UserCode, Idle, TopIs
<1>3. ASSUME \/ \E d \in Sources : ReadFresh(d)
             \/ \E c \in Computeds : Recompute(c) \/ ReadCycle(c) \/ DisposeComputed(c)
             \/ \E v \in Values : ComputedReturn(v)
             \/ \E e \in Effects : CreateEffect(e) \/ DisposeEffect(e)
             \/ OnCleanup \/ EffectReturn \/ Throw \/ Catch
             \/ UnwindComputed \/ UnwindEffect \/ UnwindFlush
      PROVE  QueueInv'
  BY <1>a, <1>b, <1>3 DEF ReadFresh, Recompute, ReadCycle, DisposeComputed, ComputedReturn,
       CreateEffect, StartRun, DisposeEffect, OnCleanup, EffectReturn, Throw, Catch, UnwindComputed,
       UnwindEffect, UnwindFlush, UserCode, Imperative, Idle, TopIs
<1>4. ASSUME NEW s \in Signals, NEW v \in Values, SetSignal(s, v) PROVE QueueInv'
  <2>1. Enqueue(Notified(s)) /\ UNCHANGED batchDepth /\ ~AboutToFlush
    BY <1>4 DEF SetSignal, Imperative, Idle, TopIs, AboutToFlush
  <2>2. CASE Notified(s) # {} /\ ~scheduled /\ batchDepth = 0
    <3>1. scheduled' = TRUE /\ ticks' = ticks + 1
      BY <2>1, <2>2 DEF Enqueue
    <3> QED
      BY <1>1, <3>1 DEF QueueInv
  <2>3. CASE ~(Notified(s) # {} /\ ~scheduled /\ batchDepth = 0)
    <3>1. UNCHANGED <<scheduled, ticks>> /\ effectQ' = effectQ \cup Notified(s)
      BY <2>1, <2>3 DEF Enqueue
    <3>2. effectQ' # {} => scheduled \/ batchDepth > 0
      BY <1>1, <1>2, <2>1, <2>3, <3>1
    <3> QED
      BY <1>2, <2>1, <3>1, <3>2 DEF QueueInv
  <2> QED
    BY <2>2, <2>3
<1>5. CASE BatchBegin
  <2>1. ~AboutToFlush /\ UNCHANGED <<effectQ, scheduled, ticks>> /\ batchDepth' = batchDepth + 1
    BY <1>5 DEF BatchBegin, Imperative, Idle, TopIs, AboutToFlush
  <2> QED
    BY <1>1, <1>a, <2>1
\* A flush frame that has just been put on the stack.
<1>c. ASSUME NEW st \in Seq(Frames), NEW r \in Errors, stack' = Append(st, FlushCall(r)),
             raised' = "none"
      PROVE  AboutToFlush'
  <2>1. /\ FlushCall(r) \in Frames /\ FlushCall(r).kind = "flush" /\ FlushCall(r).loops = 0
        /\ FlushCall(r).todo = {}
    BY FlushCallType DEF FlushCall
  <2>2. /\ stack' \in Seq(Frames) /\ stack' # <<>> /\ Len(stack') = Len(st) + 1
        /\ stack'[Len(st) + 1] = FlushCall(r)
    BY <1>c, <2>1, AppendFacts
  <2>3. Top' = FlushCall(r)
    BY <2>2 DEF Top, Last
  <2> QED
    BY <1>c, <2>1, <2>2, <2>3 DEF AboutToFlush
<1>6. ASSUME NEW r \in Errors, TopIs({"batch"}), LeaveBatch(r) PROVE QueueInv'
  <2>1. stack # <<>> /\ Top.kind = "batch" /\ ~AboutToFlush
    BY <1>6 DEF TopIs, AboutToFlush
  <2>2. CASE batchDepth = 1
    <3>1. scheduled' = FALSE /\ AboutToFlush'
      BY <1>6, <1>c, <2>1, <2>2, StackFacts DEF LeaveBatch, ReplaceTop
    <3> QED
      BY <3>1 DEF QueueInv
  <2>3. CASE batchDepth # 1
    <3>1. UNCHANGED <<effectQ, scheduled, ticks>> /\ batchDepth' = batchDepth - 1
      BY <1>6, <2>3 DEF LeaveBatch
    <3>2. batchDepth' > 0
      BY <1>1, <2>1, <2>3, <3>1
    <3> QED
      BY <1>a, <2>1, <3>1, <3>2
  <2> QED
    BY <2>2, <2>3
<1>7. CASE BatchEnd \/ UnwindBatch
  BY <1>6, <1>7 DEF BatchEnd, UnwindBatch, TypeOK, Errors
<1>8. CASE MicrotaskFlush
  <2>1. "none" \in Errors
    BY DEF Errors
  <2>2. scheduled' = FALSE /\ stack' = Append(stack, FlushCall("none")) /\ raised' = "none"
    BY <1>8 DEF MicrotaskFlush, Push
  <2>3. AboutToFlush'
    BY <1>1, <1>c, <2>1, <2>2
  <2> QED
    BY <2>2, <2>3 DEF QueueInv
<1>9. CASE FlushTakeBatch
  BY <1>9 DEF FlushTakeBatch, QueueInv
\* The guard of the flush can only trip in a later round.
<1>10. CASE FlushGiveUp
  <2>1. ~AboutToFlush
    <3>1. Top.loops # 0 \/ stack = <<>>
      <4>1. stack # <<>> => Top.loops \in Nat /\ Top.loops >= MaxLoops
        BY <1>10, TopType DEF FlushGiveUp
      <4> QED
        BY <4>1, BoundsAssumption
    <3> QED
      BY <3>1 DEF AboutToFlush
  <2> QED
    BY <1>10, <1>a, <2>1 DEF FlushGiveUp
<1>11. ASSUME NEW e \in Effects, FlushSkip(e) \/ FlushRun(e) PROVE QueueInv'
  <2>1. ~AboutToFlush
    BY <1>11 DEF FlushSkip, FlushRun, AboutToFlush
  <2> QED
    BY <1>11, <1>a, <2>1 DEF FlushSkip, FlushRun, StartRun
<1>12. CASE FlushDone
  BY <1>12 DEF FlushDone, QueueInv
<1>13. CASE UNCHANGED vars
  BY <1>13 DEF vars, QueueInv, AboutToFlush, Top
<1> QED
  BY <1>3, <1>4, <1>5, <1>7, <1>8, <1>9, <1>10, <1>11, <1>12, <1>13 DEF Next

\* Once the stack has unwound, effects that wait have a flush on its way.
THEOREM GraphNoStrandedQueue == Spec => []NoStrandedQueue
<1> DEFINE Inv == TypeOK /\ Nesting(stack, batchDepth) /\ QueueInv
<1>1. Init => Inv
  BY InitTypeOK, InitNesting DEF Init, QueueInv
<1>2. Inv /\ [Next]_vars => Inv'
  BY NextTypeOK, NextNesting, NextQueueInv
<1>3. Inv => NoStrandedQueue
  <2> SUFFICES ASSUME Inv, stack = <<>>, effectQ # {} PROVE ticks > 0
    BY DEF NoStrandedQueue, Idle
  <2>1. BatchFrames(stack) = {}
    BY DEF BatchFrames
  <2>2. batchDepth = 0
    BY <2>1, FS_EmptySet DEF Nesting
  <2> QED
    BY <2>2 DEF QueueInv, AboutToFlush
<1> QED
  BY <1>1, <1>2, <1>3, PTL DEF Spec
=============================================================================
