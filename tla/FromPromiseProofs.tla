-------------------------- MODULE FromPromiseProofs --------------------------
(***************************************************************************)
(* Proofs about FromPromise, for any number of runs and any nesting of     *)
(* calls.                                                                  *)
(***************************************************************************)
EXTENDS FromPromise, SequenceTheorems, TLAPS

-----------------------------------------------------------------------------
(* The call stack *)

\* What Front and Last do, index by index.
LEMMA FrontFacts ==
  ASSUME NEW S, NEW s \in Seq(S), s # <<>>
  PROVE  /\ Len(s) \in Nat \ {0} /\ Last(s) = s[Len(s)] /\ Last(s) \in S
         /\ Front(s) \in Seq(S) /\ Len(Front(s)) = Len(s) - 1
         /\ DOMAIN Front(s) = 1..(Len(s) - 1)
         /\ \A i \in 1..(Len(s) - 1) : Front(s)[i] = s[i]
<1>1. Len(s) \in Nat \ {0} /\ Last(s) = s[Len(s)] /\ Last(s) \in S
  BY DEF Last
<1>2. Front(s) = SubSeq(s, 1, Len(s) - 1)
  BY DEF Front
<1>3. /\ SubSeq(s, 1, Len(s) - 1) \in Seq(S)
      /\ Len(SubSeq(s, 1, Len(s) - 1)) = IF 1 <= Len(s) - 1 THEN (Len(s) - 1) - 1 + 1 ELSE 0
  <2>1. 1 \in Int /\ Len(s) - 1 \in Int /\ \A i \in 1..(Len(s) - 1) : s[i] \in S
    BY <1>1
  <2> QED
    BY <2>1, SubSeqProperties
<1>4. Len(SubSeq(s, 1, Len(s) - 1)) = Len(s) - 1
  <2>1. \A n \in Nat : n # 0 => (IF 1 <= n - 1 THEN (n - 1) - 1 + 1 ELSE 0) = n - 1
    OBVIOUS
  <2> QED
    BY <1>1, <1>3, <2>1
<1>5. \A i \in 1..(Len(s) - 1) : SubSeq(s, 1, Len(s) - 1)[i] = s[i]
  BY <1>1
<1>6. \A q \in Seq(S) : DOMAIN q = 1..Len(q)
  OBVIOUS
<1> QED
  BY <1>1, <1>2, <1>3, <1>4, <1>5, <1>6, Zenon

\* How a step can change the stack.
Pushed(f)  == /\ Len(stack') = Len(stack) + 1 /\ stack'[Len(stack) + 1] = f
              /\ \A i \in 1..Len(stack) : stack'[i] = stack[i]
Popped     == /\ Len(stack') = Len(stack) - 1
              /\ \A i \in 1..(Len(stack) - 1) : stack'[i] = stack[i]
Moved(a)   == /\ Len(stack') = Len(stack)
              /\ \A i \in 1..(Len(stack) - 1) : stack'[i] = stack[i]
              /\ stack'[Len(stack)] = Frame(Top.fn, Top.run, a)

LEMMA PushFacts ==
  ASSUME TypeOK, NEW f \in Frames, stack' = Append(stack, f)
  PROVE  stack' \in Seq(Frames) /\ Pushed(f)
BY DEF TypeOK, Pushed

LEMMA PopFacts ==
  ASSUME TypeOK, stack # <<>>, Pop
  PROVE  stack' \in Seq(Frames) /\ Popped
<1>1. stack \in Seq(Frames)
  BY DEF TypeOK
<1> QED
  BY <1>1, FrontFacts DEF Popped, Pop

LEMMA TopFacts ==
  ASSUME TypeOK, stack # <<>>
  PROVE  /\ Len(stack) \in Nat \ {0} /\ Len(stack) \in 1..Len(stack) /\ Top = stack[Len(stack)]
         /\ Top \in Frames /\ Top.run \in Runs /\ Top.run <= currentToken
         /\ Top = Frame(Top.fn, Top.run, Top.at)
<1>1. stack \in Seq(Frames) /\ Len(stack) \in Nat \ {0} /\ DOMAIN stack = 1..Len(stack)
  BY DEF TypeOK
<1>2. Top = stack[Len(stack)] /\ Len(stack) \in 1..Len(stack)
  BY <1>1 DEF Top, Last
<1>3. Top \in Frames /\ Top.run <= currentToken
  BY <1>1, <1>2 DEF TypeOK
<1> QED
  BY <1>1, <1>2, <1>3 DEF Frames, Frame

LEMMA GoToFacts ==
  ASSUME TypeOK, stack # <<>>, NEW a \in {"abort", "batch", "producer", "failure"}, GoTo(a)
  PROVE  stack' \in Seq(Frames) /\ Moved(a)
<1>1. stack \in Seq(Frames)
  BY DEF TypeOK
<1>3. /\ Len(stack) \in Nat \ {0}
      /\ Front(stack) \in Seq(Frames) /\ Len(Front(stack)) = Len(stack) - 1
      /\ \A i \in 1..(Len(stack) - 1) : Front(stack)[i] = stack[i]
  BY <1>1, FrontFacts
<1> DEFINE f == [Top EXCEPT !.at = a]
<1>4. f \in Frames /\ f = Frame(Top.fn, Top.run, a)
  BY TopFacts DEF Frames, Frame
<1>5. stack' = Append(Front(stack), f)
  BY DEF GoTo
<1> HIDE DEF f
<1>6. /\ stack' \in Seq(Frames) /\ Len(stack') = (Len(stack) - 1) + 1
      /\ stack'[(Len(stack) - 1) + 1] = f
      /\ \A i \in 1..(Len(stack) - 1) : stack'[i] = Front(stack)[i]
  BY <1>3, <1>4, <1>5
<1> QED
  BY <1>1, <1>3, <1>4, <1>6 DEF Moved

LEMMA FrameType ==
  ASSUME NEW fn \in {"run", "cancel", "handler"}, NEW t \in Runs,
         NEW a \in {"abort", "batch", "producer", "failure"}
  PROVE  /\ Frame(fn, t, a) \in Frames /\ Frame(fn, t, a).fn = fn
         /\ Frame(fn, t, a).run = t /\ Frame(fn, t, a).at = a
BY DEF Frame, Frames

-----------------------------------------------------------------------------
(* Types *)

LEMMA InitType == Init => TypeOK
<1> SUFFICES ASSUME Init PROVE TypeOK
  OBVIOUS
<1>1. MaxRuns \in Nat /\ 0 \in 0..MaxRuns /\ 0 \in 0..0
  BY BoundsAssumption
<1>2. /\ currentToken = 0 /\ currentController = 0 /\ aborted = {} /\ status = "idle" /\ value = 0
      /\ error = 0 /\ stack = <<>> /\ published = 0 /\ cancelled = {} /\ spoiled = {}
      /\ promise = [t \in Runs |-> "none"]
  BY DEF Init, None
<1>3. keepPrev \in BOOLEAN /\ crossed \in BOOLEAN /\ overtaken \in BOOLEAN
  BY Zenon DEF Init
<1>4. promise \in [Runs -> Promises] /\ status \in Statuses /\ \A t \in Runs : promise[t] = "none"
  BY <1>2 DEF Promises, Statuses
<1>5. stack \in Seq(Frames) /\ \A i \in DOMAIN stack : stack[i].run <= currentToken
  BY <1>2
<1> QED
  BY <1>1, <1>2, <1>3, <1>4, <1>5 DEF TypeOK

LEMMA NextType == TypeOK /\ [Next]_vars => TypeOK'
<1> SUFFICES ASSUME TypeOK, [Next]_vars PROVE TypeOK'
  OBVIOUS
<1> USE DEF settings, signals, history, None
<1>B. keepPrev \in BOOLEAN /\ crossed \in BOOLEAN /\ overtaken \in BOOLEAN
  BY Zenon DEF TypeOK
<1>T. stack \in Seq(Frames) /\ DOMAIN stack = 1..Len(stack) /\ Len(stack) \in Nat
  BY DEF TypeOK
<1>S. \A i \in 1..Len(stack) : stack[i].run <= currentToken /\ stack[i].run \in Runs
  <2>1. \A i \in 1..Len(stack) : stack[i] \in Frames
    BY <1>T
  <2>2. \A f \in Frames : f.run \in Runs
    BY DEF Frames
  <2> QED
    BY <1>T, <2>1, <2>2 DEF TypeOK
<1>M. MaxRuns \in Nat /\ currentToken \in Nat /\ currentToken \in 0..MaxRuns
  BY BoundsAssumption DEF TypeOK
<1>P. promise \in [Runs -> Promises] /\ \A t \in Runs : promise[t] # "none" => t <= currentToken
  BY DEF TypeOK
<1>0. /\ keepPrev \in BOOLEAN /\ currentToken \in 0..MaxRuns /\ currentController \in 0..currentToken
      /\ aborted \in SUBSET (1..currentToken) /\ status \in Statuses
      /\ value \in 0..currentToken /\ error \in 0..currentToken /\ published \in 0..currentToken
      /\ promise \in [Runs -> Promises]
      /\ \A t \in Runs : promise[t] # "none" => t <= currentToken
      /\ stack \in Seq(Frames) /\ DOMAIN stack = 1..Len(stack) /\ Len(stack) \in Nat
      /\ \A i \in 1..Len(stack) : stack[i].run <= currentToken /\ stack[i].run \in Runs
      /\ cancelled \in SUBSET (1..currentToken) /\ crossed \in BOOLEAN /\ overtaken \in BOOLEAN
      /\ spoiled \in SUBSET (1..currentToken) /\ MaxRuns \in Nat /\ currentToken \in Nat
  BY <1>B, <1>T, <1>S, <1>M, <1>P DEF TypeOK
<1> DEFINE StackType == /\ stack' \in Seq(Frames)
                        /\ \A i \in DOMAIN stack' : stack'[i].run <= currentToken'
\* The stack, whatever becomes of it.
<1>a. ASSUME NEW f \in Frames, f.run <= currentToken', stack' = Append(stack, f),
             currentToken' \in Nat, currentToken' >= currentToken
      PROVE  StackType
  <2>1. stack' \in Seq(Frames) /\ Pushed(f)
    BY <1>a, PushFacts
  <2>2. DOMAIN stack' = 1..(Len(stack) + 1)
    BY <2>1 DEF Pushed
  <2>3. \A i \in 1..(Len(stack) + 1) : i \in 1..Len(stack) \/ i = Len(stack) + 1
    BY <1>0
  <2>4. \A i \in 1..Len(stack) : stack[i].run <= currentToken'
    BY <1>0, <1>a DEF Runs
  <2> QED
    BY <1>a, <2>1, <2>2, <2>3, <2>4 DEF Pushed
<1>b. ASSUME stack # <<>>, Pop, currentToken' = currentToken PROVE StackType
  <2>1. stack' \in Seq(Frames) /\ Popped
    BY <1>b, PopFacts
  <2>2. DOMAIN stack' = 1..(Len(stack) - 1) /\ \A i \in 1..(Len(stack) - 1) : i \in 1..Len(stack)
    BY <1>0, <2>1 DEF Popped
  <2> QED
    BY <1>0, <1>b, <2>1, <2>2 DEF Popped
<1>c. ASSUME stack # <<>>, NEW a \in {"abort", "batch", "producer", "failure"}, GoTo(a),
             currentToken' = currentToken
      PROVE  StackType
  <2>1. stack' \in Seq(Frames) /\ Moved(a) /\ Top.run <= currentToken
    BY <1>c, GoToFacts, TopFacts
  <2>2. DOMAIN stack' = 1..Len(stack) /\ stack'[Len(stack)].run = Top.run
    <3>1. stack'[Len(stack)] = Frame(Top.fn, Top.run, a) /\ Len(stack') = Len(stack)
      BY <2>1, Zenon DEF Moved
    <3>2. Frame(Top.fn, Top.run, a).run = Top.run
      BY DEF Frame
    <3>3. DOMAIN stack' = 1..Len(stack')
      BY <2>1
    <3> QED
      BY <3>1, <3>2, <3>3, Zenon
  <2>3. \A i \in 1..Len(stack) : i \in 1..(Len(stack) - 1) \/ i = Len(stack)
    <3>1. \A n \in Nat : \A i \in 1..n : i \in 1..(n - 1) \/ i = n
      OBVIOUS
    <3> QED
      BY <1>T, <3>1
  <2> QED
    BY <1>0, <1>c, <2>1, <2>2, <2>3 DEF Moved
<1>d. ASSUME stack' = stack, currentToken' = currentToken PROVE StackType
  BY <1>0, <1>d
<1> HIDE DEF StackType
\* Everything else, when the token stays.
<1>e. ASSUME StackType, currentToken' = currentToken, keepPrev' = keepPrev,
             currentController' \in {currentController, None} \cup {t \in Runs : t <= currentToken},
             aborted' \in SUBSET (1..currentToken), status' \in Statuses,
             value' \in 0..currentToken, error' \in 0..currentToken, published' \in 0..currentToken,
             promise' \in [Runs -> Promises],
             \A t \in Runs : promise'[t] # "none" => t <= currentToken,
             cancelled' \in SUBSET (1..currentToken), crossed' \in BOOLEAN, overtaken' \in BOOLEAN,
             spoiled' \in SUBSET (1..currentToken)
      PROVE  TypeOK'
  <2>1. currentController' \in 0..currentToken'
    BY <1>0, <1>e DEF Runs
  <2> QED
    BY <1>0, <1>e, <2>1 DEF TypeOK, StackType
<1>f. ASSUME stack # <<>>
      PROVE  Top.run \in Runs /\ Top.run <= currentToken /\ Top.run \in 1..currentToken
  BY <1>0, <1>f, TopFacts DEF Runs
\* The token goes up: what is bounded by it stays bounded.
<1>i. ASSUME currentToken' = currentToken + 1
      PROVE  /\ \A n \in 0..currentToken : n \in 0..currentToken'
             /\ \A n \in 1..currentToken : n \in 1..currentToken'
             /\ \A n \in Runs : n <= currentToken => n <= currentToken'
  BY <1>M, <1>i DEF Runs
<1>1. ASSUME RunBegin \/ RunAbort PROVE TypeOK'
  <2>1. /\ currentToken' = currentToken + 1 /\ currentToken + 1 \in Runs
        /\ currentToken + 1 \in Nat /\ currentToken' \in 0..MaxRuns
        /\ currentToken + 1 \in 0..currentToken'
    BY <1>M, <1>1 DEF RunBegin, RunAbort, Runs
  <2>2. \E a \in {"abort", "batch"} : stack' = Append(stack, Frame("run", currentToken + 1, a))
    BY <1>1 DEF RunBegin, RunAbort
  <2>3. StackType
    BY <1>0, <1>a, <2>1, <2>2, FrameType
  <2>4. /\ currentController' = currentToken + 1 \/ currentController' = currentController
        /\ value' \in {value, 0} /\ error' \in {error, 0}
        /\ status' \in {status, "pending"}
        /\ \/ aborted' = aborted
           \/ ToAbort /\ aborted' = aborted \cup {currentController}
        /\ published' = published /\ cancelled' = cancelled /\ spoiled' = spoiled /\ promise' = promise
    <3>1. CASE RunBegin
      <4>1. value' \in {value, 0} /\ error' = 0 /\ status' = "pending"
        BY <1>B, <3>1 DEF RunBegin, SetPending
      <4>2. /\ published' = published /\ cancelled' = cancelled /\ spoiled' = spoiled
            /\ promise' = promise /\ aborted' = aborted /\ currentController' = currentToken + 1
        BY <3>1 DEF RunBegin
      <4> QED
        BY <4>1, <4>2
    <3>2. CASE RunAbort
      BY <3>2 DEF RunAbort
    <3> QED
      BY <1>1, <3>1, <3>2
  <2>5. /\ currentController' \in 0..currentToken' /\ status' \in Statuses
        /\ value' \in 0..currentToken' /\ error' \in 0..currentToken' /\ published' \in 0..currentToken'
    <3>1. 0 \in 0..currentToken
      BY <1>M
    <3> QED
      BY <1>0, <1>i, <2>1, <2>4, <3>1 DEF Statuses
  <2>6. ToAbort => currentController \in 1..currentToken
    BY <1>0 DEF ToAbort
  <2>7. /\ aborted' \in SUBSET (1..currentToken') /\ cancelled' \in SUBSET (1..currentToken')
        /\ spoiled' \in SUBSET (1..currentToken')
    BY <1>0, <1>i, <2>1, <2>4, <2>6
  <2>8. promise' \in [Runs -> Promises] /\ \A t \in Runs : promise'[t] # "none" => t <= currentToken'
    BY <1>P, <1>i, <2>1, <2>4
  <2>9. crossed' \in BOOLEAN /\ overtaken' \in BOOLEAN /\ keepPrev' \in BOOLEAN
    BY <1>B, <1>1, Zenon DEF RunBegin, RunAbort
  <2> QED
    BY <2>1, <2>3, <2>5, <2>7, <2>8, <2>9 DEF TypeOK, StackType
<1>2. ASSUME RunInstall PROVE TypeOK'
  <2>1. StackType
    BY <1>2, <1>c DEF RunInstall, In
  <2>2. crossed' \in BOOLEAN
    BY <1>0, <1>2, Zenon DEF RunInstall
  <2>3. /\ status' \in Statuses /\ value' \in 0..currentToken /\ error' \in 0..currentToken
        /\ currentController' \in {t \in Runs : t <= currentToken}
    BY <1>0, <1>2, <1>f DEF RunInstall, In, SetPending, Statuses
  <2> QED
    BY <1>0, <1>2, <1>e, <2>1, <2>2, <2>3 DEF RunInstall
<1>3. ASSUME RunProduce PROVE TypeOK'
  BY <1>0, <1>3, <1>c, <1>e DEF RunProduce, In
<1>4. ASSUME ProducerReturn PROVE TypeOK'
  <2>1. StackType
    BY <1>4, <1>b DEF ProducerReturn, In
  <2>2. promise' \in [Runs -> Promises] /\ \A t \in Runs : promise'[t] # "none" => t <= currentToken
    BY <1>0, <1>4, <1>f DEF ProducerReturn, In, Promises
  <2> QED
    BY <1>0, <1>4, <1>e, <2>1, <2>2 DEF ProducerReturn
<1>5. ASSUME ProducerThrow PROVE TypeOK'
  <2>1. CASE Top.run = currentToken
    <3>1. StackType
      BY <1>5, <1>c, <2>1 DEF ProducerThrow, In
    <3> QED
      <4>1. /\ error' = currentToken /\ published' = currentToken /\ status' = "error" /\ value' = value
            /\ cancelled' = cancelled /\ crossed' = crossed /\ overtaken' = overtaken
            /\ spoiled' = spoiled
        BY <1>5, <2>1 DEF ProducerThrow, SetError
      <4>2. currentToken \in 0..currentToken /\ "error" \in Statuses
        BY <1>M DEF Statuses
      <4> QED
        BY <1>0, <1>5, <1>e, <3>1, <4>1, <4>2 DEF ProducerThrow
  <2>2. CASE Top.run # currentToken
    <3>1. StackType
      BY <1>5, <1>b, <2>2 DEF ProducerThrow, In
    <3> QED
      BY <1>0, <1>5, <1>e, <2>2, <3>1 DEF ProducerThrow
  <2> QED
    BY <2>1, <2>2
<1>6. ASSUME RunFailed \/ HandlerReturn \/ CancelReturn PROVE TypeOK'
  <2>1. StackType
    BY <1>6, <1>b DEF RunFailed, HandlerReturn, CancelReturn, In
  <2> QED
    BY <1>0, <1>6, <1>e, <2>1 DEF RunFailed, HandlerReturn, CancelReturn, Release
<1>7. ASSUME NEW t \in Runs, NEW o \in {"fulfilled", "rejected", "abortError"}, Settle(t, o)
      PROVE  TypeOK'
  <2>1. promise' \in [Runs -> Promises] /\ \A u \in Runs : promise'[u] # "none" => u <= currentToken
    BY <1>0, <1>7 DEF Settle, Promises
  <2> QED
    BY <1>0, <1>7, <1>d, <1>e, <2>1 DEF Settle
\* The handlers: t has been run.
<1>g. ASSUME NEW t \in Runs, promise[t] # "none", promise' = [promise EXCEPT ![t] = "handled"]
      PROVE  /\ promise' \in [Runs -> Promises] /\ t \in 1..currentToken /\ t <= currentToken
             /\ \A u \in Runs : promise'[u] # "none" => u <= currentToken
  BY <1>0, <1>g DEF Promises, Runs
<1>h. ASSUME NEW t \in Runs, t <= currentToken, stack' = Append(stack, Frame("handler", t, "batch")),
             currentToken' = currentToken
      PROVE  StackType
  BY <1>0, <1>a, <1>h, FrameType
<1>8. ASSUME NEW t \in Runs, Fulfilled(t) PROVE TypeOK'
  <2>1. /\ promise' \in [Runs -> Promises] /\ t \in 1..currentToken /\ t <= currentToken
        /\ \A u \in Runs : promise'[u] # "none" => u <= currentToken
    BY <1>8, <1>g DEF Fulfilled
  <2>2. CASE Current(t)
    <3>1. /\ status' \in Statuses /\ value' \in {value, t} /\ error' \in {error, t} /\ published' = t
          /\ cancelled' = cancelled /\ crossed' = crossed /\ overtaken' = overtaken
          /\ spoiled' = spoiled
      BY <1>8, <2>2 DEF Fulfilled, SetSuccess, Statuses
    <3>2. t \in 0..currentToken
      BY <1>M, <2>1
    <3>3. StackType
      BY <1>8, <1>h, <2>1, <2>2 DEF Fulfilled
    <3> QED
      BY <1>0, <1>8, <1>e, <2>1, <2>2, <3>1, <3>2, <3>3 DEF Fulfilled
  <2>3. CASE ~Current(t)
    BY <1>0, <1>8, <1>d, <1>e, <2>1, <2>3 DEF Fulfilled
  <2> QED
    BY <2>2, <2>3
<1>9. ASSUME NEW t \in Runs, Rejected(t) PROVE TypeOK'
  <2>1. /\ promise' \in [Runs -> Promises] /\ t \in 1..currentToken /\ t <= currentToken
        /\ \A u \in Runs : promise'[u] # "none" => u <= currentToken
    BY <1>9, <1>g DEF Rejected
  <2>2. CASE Current(t)
    <3>1. /\ status' \in Statuses /\ value' \in {value, t} /\ error' \in {error, t} /\ published' = t
          /\ cancelled' = cancelled /\ crossed' = crossed /\ overtaken' = overtaken
          /\ spoiled' = spoiled
      BY <1>9, <2>2 DEF Rejected, SetError, Statuses
    <3>2. t \in 0..currentToken
      BY <1>M, <2>1
    <3>3. StackType
      BY <1>9, <1>h, <2>1, <2>2 DEF Rejected
    <3> QED
      BY <1>0, <1>9, <1>e, <2>1, <2>2, <3>1, <3>2, <3>3 DEF Rejected
  <2>3. CASE ~Current(t)
    BY <1>0, <1>9, <1>d, <1>e, <2>1, <2>3 DEF Rejected, Release
  <2> QED
    BY <2>2, <2>3
<1>10. ASSUME NEW t \in Runs, RejectedAbort(t) PROVE TypeOK'
  <2>1. /\ promise' \in [Runs -> Promises] /\ t \in 1..currentToken /\ t <= currentToken
        /\ \A u \in Runs : promise'[u] # "none" => u <= currentToken
    BY <1>10, <1>g DEF RejectedAbort
  <2> QED
    BY <1>0, <1>10, <1>d, <1>e, <2>1 DEF RejectedAbort, Release
<1>11. ASSUME Cancel PROVE TypeOK'
  <2>1. currentController \in Runs /\ currentController \in 1..currentToken /\ currentToken \in 1..currentToken
    BY <1>0, <1>11 DEF Cancel, ToAbort, Runs
  <2>2. StackType
    BY <1>0, <1>11, <1>a, <2>1, FrameType DEF Cancel
  <2> QED
    BY <1>0, <1>11, <1>e, <2>1, <2>2 DEF Cancel
<1>12. ASSUME CancelPublish PROVE TypeOK'
  <2>1. StackType
    BY <1>12, <1>c DEF CancelPublish, In
  <2>2. overtaken' \in BOOLEAN
    BY <1>0, <1>12, Zenon DEF CancelPublish
  <2> QED
    BY <1>0, <1>12, <1>e, <2>1, <2>2 DEF CancelPublish, Statuses
<1>13. ASSUME Escape PROVE TypeOK'
  <2>1. StackType
    BY <1>13, <1>b DEF Escape
  <2> QED
    BY <1>0, <1>13, <1>e, <1>f, <2>1 DEF Escape
<1>14. CASE UNCHANGED vars
  BY <1>14 DEF vars, TypeOK
<1> QED
  BY <1>1, <1>2, <1>3, <1>4, <1>5, <1>6, <1>7, <1>8, <1>9, <1>10, <1>11, <1>12, <1>13, <1>14
     DEF Next, UserCalls, Handlers, Settles, Progress

\* Everything keeps its type, for any bounds.
THEOREM PromiseTypeCorrect == Spec => []TypeOK
BY InitType, NextType, PTL DEF Spec

-----------------------------------------------------------------------------
(* Calls in progress *)

\* What holds of a call in progress: a run has returned no promise yet, nor
\* committed an outcome while its producer has not thrown; before it installs its
\* controller nothing can have aborted it.
FrameOK(f) ==
  /\ f.fn = "run" =>
       /\ promise[f.run] = "none"
       /\ f.at # "failure" => published # f.run
       /\ f.at = "abort" => f.run # currentController /\ f.run \notin aborted
  /\ f.fn = "handler" => promise[f.run] = "handled"
  /\ f.fn = "cancel" => f.run \in aborted

RunsOnce ==
  \A i, j \in 1..Len(stack) :
    stack[i].fn = "run" /\ stack[j].fn = "run" /\ stack[i].run = stack[j].run => i = j

CallsInv == (\A i \in 1..Len(stack) : FrameOK(stack[i])) /\ RunsOnce

PublishedInv == published # None => promise[published] \in {"none", "handled"}

LEMMA StackType ==
  ASSUME TypeOK
  PROVE  /\ Len(stack) \in Nat /\ currentToken \in Nat /\ currentToken <= MaxRuns /\ MaxRuns \in Nat
         /\ currentController \in 0..currentToken /\ published \in 0..currentToken
         /\ promise \in [Runs -> Promises]
         /\ aborted \in SUBSET (1..currentToken)
         /\ \A i \in 1..Len(stack) : stack[i] \in Frames /\ stack[i].run \in Runs
                                     /\ stack[i].run <= currentToken
<1>1. stack \in Seq(Frames) /\ DOMAIN stack = 1..Len(stack) /\ Len(stack) \in Nat
  BY DEF TypeOK
<1>2. \A i \in 1..Len(stack) : stack[i] \in Frames
  BY <1>1
<1>3. \A f \in Frames : f.run \in Runs
  BY DEF Frames
<1>4. currentToken \in Nat /\ currentToken <= MaxRuns /\ MaxRuns \in Nat
  BY BoundsAssumption DEF TypeOK
<1> QED
  BY <1>1, <1>2, <1>3, <1>4 DEF TypeOK

\* What the calls are after a step, by what the step does to the stack.
LEMMA CallsPush ==
  ASSUME TypeOK, CallsInv, NEW f \in Frames, stack' = Append(stack, f), FrameOK(f)',
         \A g \in Frames : g.run <= currentToken /\ FrameOK(g) => FrameOK(g)',
         f.fn = "run" => f.run > currentToken
  PROVE  CallsInv'
<1>1. Pushed(f)
  BY PushFacts
<1>2. ASSUME NEW i \in 1..Len(stack') PROVE i \in 1..Len(stack) \/ i = Len(stack) + 1
  BY <1>1, StackType DEF Pushed
<1>3. ASSUME NEW i \in 1..Len(stack') PROVE FrameOK(stack[i])'
  <2>1. CASE i = Len(stack) + 1
    <3>1. stack'[i] = f
      BY <1>1, <2>1 DEF Pushed
    <3> QED
      BY <3>1 DEF FrameOK
  <2>2. CASE i \in 1..Len(stack)
    <3> DEFINE g == stack[i]
    <3>1. g \in Frames /\ g.run <= currentToken /\ FrameOK(g)
      BY <2>2, StackType DEF CallsInv
    <3>2. stack'[i] = g
      BY <1>1, <2>2 DEF Pushed
    <3>3. \E h \in Frames : h = stack'[i] /\ FrameOK(h)'
      BY <3>1, <3>2
    <3> QED
      BY <3>3 DEF FrameOK
  <2> QED
    BY <1>2, <2>1, <2>2
<1>4. RunsOnce'
  <2>1. \A i \in 1..Len(stack) : stack[i].run <= currentToken /\ stack[i].run \in Nat
    BY StackType DEF Runs
  <2>2. \A i \in 1..Len(stack) : stack'[i] = stack[i]
    BY <1>1 DEF Pushed
  <2>3. stack'[Len(stack) + 1] = f /\ f.run \in Nat
    BY <1>1 DEF Pushed, Frames, Runs
  <2>4. f.fn = "run" => \A i \in 1..Len(stack) : stack[i].run # f.run
    BY <2>1, <2>3, StackType
  <2> QED
    BY <1>2, <2>2, <2>3, <2>4 DEF RunsOnce, CallsInv
<1> QED
  BY <1>3, <1>4 DEF CallsInv

LEMMA CallsPop ==
  ASSUME TypeOK, CallsInv, stack # <<>>, Pop,
         \A g \in Frames : /\ FrameOK(g)
                           /\ ~(Top.fn = "run" /\ g.fn = "run" /\ g.run = Top.run)
                           => FrameOK(g)'
  PROVE  CallsInv'
<1>1. Popped
  BY PopFacts
<1>2. Len(stack) \in 1..Len(stack) /\ Len(stack) \in Nat \ {0} /\ Top = stack[Len(stack)]
  BY TopFacts
<1>3. ASSUME NEW i \in 1..Len(stack')
      PROVE  i \in 1..Len(stack) /\ i # Len(stack) /\ stack'[i] = stack[i]
  BY <1>1, <1>2 DEF Popped
<1>4. ASSUME NEW i \in 1..Len(stack') PROVE FrameOK(stack[i])'
  <2> DEFINE g == stack[i]
  <2>1. g \in Frames /\ FrameOK(g) /\ g = stack'[i]
    BY <1>3, <1>4, StackType DEF CallsInv
  <2>2. ~(Top.fn = "run" /\ g.fn = "run" /\ g.run = Top.run)
    BY <1>2, <1>3, <1>4 DEF CallsInv, RunsOnce
  <2>3. \E h \in Frames : h = stack'[i] /\ FrameOK(h)'
    BY <2>1, <2>2
  <2> QED
    BY <2>3 DEF FrameOK
<1>5. RunsOnce'
  BY <1>3 DEF CallsInv, RunsOnce
<1> QED
  BY <1>4, <1>5 DEF CallsInv

LEMMA CallsGoTo ==
  ASSUME TypeOK, CallsInv, stack # <<>>, NEW a \in {"abort", "batch", "producer", "failure"}, GoTo(a),
         NEW f \in Frames, f = Frame(Top.fn, Top.run, a), FrameOK(f)',
         \A g \in Frames : /\ FrameOK(g)
                           /\ ~(Top.fn = "run" /\ g.fn = "run" /\ g.run = Top.run)
                           => FrameOK(g)'
  PROVE  CallsInv'
<1>1. Moved(a)
  BY GoToFacts
<1>2. Len(stack) \in 1..Len(stack) /\ Len(stack) \in Nat \ {0} /\ Top = stack[Len(stack)]
  BY TopFacts
<1>3. ASSUME NEW i \in 1..Len(stack')
      PROVE  /\ i \in 1..Len(stack)
             /\ (i # Len(stack) /\ stack'[i] = stack[i]) \/ (i = Len(stack) /\ stack'[i] = f)
  BY <1>1, <1>2 DEF Moved
<1>4. ASSUME NEW i \in 1..Len(stack') PROVE FrameOK(stack[i])'
  <2>1. CASE i = Len(stack)
    <3>1. stack'[i] = f
      BY <1>3, <1>4, <2>1
    <3> QED
      BY <3>1 DEF FrameOK
  <2>2. CASE i # Len(stack)
    <3> DEFINE g == stack[i]
    <3>1. g \in Frames /\ FrameOK(g) /\ g = stack'[i]
      BY <1>3, <1>4, <2>2, StackType DEF CallsInv
    <3>2. ~(Top.fn = "run" /\ g.fn = "run" /\ g.run = Top.run)
      BY <1>2, <1>3, <1>4, <2>2 DEF CallsInv, RunsOnce
    <3>3. \E h \in Frames : h = stack'[i] /\ FrameOK(h)'
      BY <3>1, <3>2
    <3> QED
      BY <3>3 DEF FrameOK
  <2> QED
    BY <2>1, <2>2
<1>5. RunsOnce'
  <2>1. f.fn = Top.fn /\ f.run = Top.run
    BY DEF Frame
  <2>2. \A i \in 1..Len(stack') : /\ i \in 1..Len(stack)
                                  /\ stack'[i].fn = stack[i].fn /\ stack'[i].run = stack[i].run
    BY <1>2, <1>3, <2>1
  <2> QED
    BY <2>2 DEF CallsInv, RunsOnce
<1> QED
  BY <1>4, <1>5 DEF CallsInv

LEMMA CallsKept ==
  ASSUME TypeOK, CallsInv, stack' = stack, \A g \in Frames : FrameOK(g) => FrameOK(g)'
  PROVE  CallsInv'
<1>1. ASSUME NEW i \in 1..Len(stack) PROVE FrameOK(stack[i])'
  <2>1. \E h \in Frames : h = stack'[i] /\ FrameOK(h)'
    BY <1>1, StackType DEF CallsInv
  <2> QED
    BY <2>1 DEF FrameOK
<1>2. RunsOnce'
  BY DEF CallsInv, RunsOnce
<1> QED
  BY <1>1, <1>2 DEF CallsInv

\* The call on top of the stack.
LEMMA TopCall ==
  ASSUME TypeOK, CallsInv, stack # <<>>
  PROVE  /\ Top \in Frames /\ FrameOK(Top) /\ Top.run \in Runs /\ Top.run # None
         /\ Top = Frame(Top.fn, Top.run, Top.at)
BY TopFacts, StackType DEF CallsInv, Runs, None

LEMMA CallsInit == Init => CallsInv /\ PublishedInv
<1> SUFFICES ASSUME Init PROVE CallsInv /\ PublishedInv
  OBVIOUS
<1>1. stack = <<>> /\ Len(stack) = 0 /\ published = None
  BY DEF Init
<1> QED
  BY <1>1 DEF CallsInv, RunsOnce, PublishedInv

LEMMA CallsNext == TypeOK /\ CallsInv /\ PublishedInv /\ [Next]_vars => CallsInv' /\ PublishedInv'
<1> SUFFICES ASSUME TypeOK, CallsInv, PublishedInv, [Next]_vars PROVE CallsInv' /\ PublishedInv'
  OBVIOUS
<1> USE DEF settings, signals, history
<1>0. /\ promise \in [Runs -> Promises] /\ currentToken \in Nat /\ currentToken <= MaxRuns
      /\ MaxRuns \in Nat /\ currentController \in 0..currentToken /\ published \in 0..currentToken
      /\ aborted \in SUBSET (1..currentToken)
      /\ \A t \in Runs : promise[t] # "none" => t <= currentToken
  BY StackType DEF TypeOK
<1>f. \A f \in Frames : f.run \in Runs /\ f.run \in Nat /\ f.run # 0
  BY DEF Frames, Runs
<1>1. ASSUME RunBegin PROVE CallsInv' /\ PublishedInv'
  <2> DEFINE f == Frame("run", currentToken + 1, "batch")
  <2>1. currentToken + 1 \in Runs
    BY <1>0, <1>1 DEF RunBegin, Runs
  <2>2. f \in Frames /\ f.fn = "run" /\ f.run = currentToken + 1 /\ f.at = "batch"
    BY <2>1, FrameType
  <2> HIDE DEF f
  <2>3. stack' = Append(stack, f) /\ currentController' = currentToken + 1 /\ currentToken' = currentToken + 1
        /\ UNCHANGED <<aborted, promise, published>>
    BY <1>1 DEF RunBegin, f
  <2>4. \E h \in Frames : h = f /\ FrameOK(h)'
    BY <1>0, <2>1, <2>2, <2>3 DEF FrameOK
  <2>5. \A g \in Frames : g.run <= currentToken /\ FrameOK(g) => FrameOK(g)'
    BY <1>0, <1>f, <2>3 DEF FrameOK
  <2>6. f.run > currentToken
    BY <1>0, <2>2
  <2>7. CallsInv'
    BY <2>2, <2>3, <2>4, <2>5, <2>6, CallsPush
  <2> QED
    BY <2>3, <2>7 DEF PublishedInv
<1>2. ASSUME RunAbort PROVE CallsInv' /\ PublishedInv'
  <2> DEFINE f == Frame("run", currentToken + 1, "abort")
  <2>1. currentToken + 1 \in Runs
    BY <1>0, <1>2 DEF RunAbort, Runs
  <2>2. f \in Frames /\ f.fn = "run" /\ f.run = currentToken + 1 /\ f.at = "abort"
    BY <2>1, FrameType
  <2> HIDE DEF f
  <2>3. /\ stack' = Append(stack, f) /\ currentController' = currentController
        /\ aborted' = aborted \cup {currentController} /\ promise' = promise /\ published' = published
        /\ currentController # None
    BY <1>2 DEF RunAbort, ToAbort, f
  <2>4. \E h \in Frames : h = f /\ FrameOK(h)'
    <3>1. f.run # currentController' /\ f.run \notin aborted' /\ published' # f.run
      BY <1>0, <2>2, <2>3
    <3>2. promise'[f.run] = "none"
      BY <1>0, <2>1, <2>2, <2>3
    <3> QED
      BY <2>2, <3>1, <3>2 DEF FrameOK
  <2>5. \A g \in Frames : g.run <= currentToken /\ FrameOK(g) => FrameOK(g)'
    BY <1>f, <2>3 DEF FrameOK
  <2>6. f.run > currentToken
    BY <1>0, <2>2
  <2>7. CallsInv'
    BY <2>2, <2>3, <2>4, <2>5, <2>6, CallsPush
  <2> QED
    BY <2>3, <2>7 DEF PublishedInv
<1>3. ASSUME RunInstall PROVE CallsInv' /\ PublishedInv'
  <2> DEFINE f == Frame("run", Top.run, "batch")
  <2>1. stack # <<>> /\ Top.fn = "run" /\ Top.at = "abort" /\ GoTo("batch")
    BY <1>3 DEF RunInstall, In
  <2>2. f \in Frames /\ f.fn = "run" /\ f.run = Top.run /\ f.at = "batch" /\ f = Frame(Top.fn, Top.run, "batch")
    BY <2>1, TopCall, FrameType
  <2> HIDE DEF f
  <2>3. /\ currentController' = Top.run /\ aborted' = aborted /\ promise' = promise
        /\ published' = published
    BY <1>3 DEF RunInstall
  <2>4. \E h \in Frames : h = f /\ FrameOK(h)'
    BY <2>1, <2>2, <2>3, TopCall DEF FrameOK
  <2>5. \A g \in Frames : FrameOK(g) /\ ~(Top.fn = "run" /\ g.fn = "run" /\ g.run = Top.run) => FrameOK(g)'
    BY <2>1, <2>3 DEF FrameOK
  <2>6. CallsInv'
    BY <2>1, <2>2, <2>4, <2>5, CallsGoTo
  <2> QED
    BY <2>3, <2>6 DEF PublishedInv
<1>4. ASSUME RunProduce PROVE CallsInv' /\ PublishedInv'
  <2> DEFINE f == Frame("run", Top.run, "producer")
  <2>1. stack # <<>> /\ Top.fn = "run" /\ Top.at = "batch" /\ GoTo("producer")
    BY <1>4 DEF RunProduce, In
  <2>2. /\ f \in Frames /\ f.fn = "run" /\ f.run = Top.run /\ f.at = "producer"
        /\ f = Frame(Top.fn, Top.run, "producer")
    BY <2>1, TopCall, FrameType
  <2> HIDE DEF f
  <2>3. /\ currentController' = currentController /\ aborted' = aborted /\ promise' = promise
        /\ published' = published
    BY <1>4 DEF RunProduce
  <2>4. \E h \in Frames : h = f /\ FrameOK(h)'
    BY <2>1, <2>2, <2>3, TopCall DEF FrameOK
  <2>5. \A g \in Frames : FrameOK(g) => FrameOK(g)'
    BY <2>3 DEF FrameOK
  <2>6. CallsInv'
    BY <2>1, <2>2, <2>4, <2>5, CallsGoTo
  <2> QED
    BY <2>3, <2>6 DEF PublishedInv
<1>5. ASSUME ProducerReturn PROVE CallsInv' /\ PublishedInv'
  <2>1. stack # <<>> /\ Top.fn = "run" /\ Top.at = "producer" /\ Pop
    BY <1>5 DEF ProducerReturn, In
  <2>2. /\ currentController' = currentController /\ aborted' = aborted /\ published' = published
        /\ promise' = [promise EXCEPT ![Top.run] = "pending"]
    BY <1>5 DEF ProducerReturn
  <2>3. promise[Top.run] = "none" /\ published # Top.run /\ Top.run \in Runs
    BY <2>1, TopCall DEF FrameOK
  <2>4. \A t \in Runs : t # Top.run => promise'[t] = promise[t]
    BY <1>0, <2>2
  <2>5. \A g \in Frames : FrameOK(g) /\ ~(Top.fn = "run" /\ g.fn = "run" /\ g.run = Top.run) => FrameOK(g)'
    BY <1>f, <2>1, <2>2, <2>3, <2>4 DEF FrameOK
  <2>6. CallsInv'
    BY <2>1, <2>5, CallsPop
  <2>7. published # None => published \in Runs
    BY <1>0 DEF Runs, None
  <2> QED
    BY <2>2, <2>3, <2>4, <2>6, <2>7 DEF PublishedInv
<1>6. ASSUME ProducerThrow PROVE CallsInv' /\ PublishedInv'
  <2>1. stack # <<>> /\ Top.fn = "run" /\ Top.at = "producer"
    BY <1>6 DEF ProducerThrow, In
  <2>2. currentController' = currentController /\ aborted' = aborted /\ promise' = promise
    BY <1>6 DEF ProducerThrow
  <2>3. promise[Top.run] = "none" /\ published # Top.run /\ Top.run \in Runs
    BY <2>1, TopCall DEF FrameOK
  <2>4. CASE Top.run = currentToken
    <3> DEFINE f == Frame("run", Top.run, "failure")
    <3>1. published' = Top.run /\ GoTo("failure")
      BY <1>6, <2>4 DEF ProducerThrow, SetError
    <3>2. /\ f \in Frames /\ f.fn = "run" /\ f.run = Top.run /\ f.at = "failure"
          /\ f = Frame(Top.fn, Top.run, "failure")
      BY <2>1, TopCall, FrameType
    <3> HIDE DEF f
    <3>3. \E h \in Frames : h = f /\ FrameOK(h)'
      BY <2>2, <2>3, <3>2 DEF FrameOK
    <3>4. \A g \in Frames : FrameOK(g) /\ ~(Top.fn = "run" /\ g.fn = "run" /\ g.run = Top.run) => FrameOK(g)'
      BY <2>1, <2>2, <3>1 DEF FrameOK
    <3>5. CallsInv'
      BY <2>1, <3>1, <3>2, <3>3, <3>4, CallsGoTo
    <3> QED
      BY <2>2, <2>3, <3>1, <3>5 DEF PublishedInv
  <2>5. CASE Top.run # currentToken
    <3>1. Pop /\ published' = published
      BY <1>6, <2>5 DEF ProducerThrow
    <3>2. \A g \in Frames : FrameOK(g) => FrameOK(g)'
      BY <2>2, <3>1 DEF FrameOK
    <3>3. CallsInv'
      BY <2>1, <3>1, <3>2, CallsPop
    <3> QED
      BY <2>2, <3>1, <3>3 DEF PublishedInv
  <2> QED
    BY <2>4, <2>5
<1>7. ASSUME RunFailed \/ HandlerReturn \/ CancelReturn \/ Escape PROVE CallsInv' /\ PublishedInv'
  <2>1. stack # <<>> /\ Pop
    BY <1>7 DEF RunFailed, HandlerReturn, CancelReturn, Escape, In
  <2>2. /\ currentController' \in {currentController, None}
        /\ aborted' = aborted /\ promise' = promise /\ published' = published
    BY <1>7 DEF RunFailed, HandlerReturn, CancelReturn, Escape, Release
  <2>3. \A g \in Frames : FrameOK(g) => FrameOK(g)'
    BY <1>f, <2>2 DEF FrameOK, None
  <2>4. CallsInv'
    BY <2>1, <2>3, CallsPop
  <2> QED
    BY <2>2, <2>4 DEF PublishedInv
<1>8. ASSUME NEW t \in Runs, NEW o \in {"fulfilled", "rejected", "abortError"}, Settle(t, o)
      PROVE  CallsInv' /\ PublishedInv'
  <2>1. /\ currentController' = currentController /\ aborted' = aborted /\ published' = published
        /\ promise[t] = "pending" /\ stack' = stack /\ \A u \in Runs : u # t => promise'[u] = promise[u]
    BY <1>0, <1>8 DEF Settle
  <2>2. \A g \in Frames : FrameOK(g) => FrameOK(g)'
    BY <1>f, <2>1 DEF FrameOK
  <2>3. CallsInv'
    BY <2>1, <2>2, CallsKept
  <2>4. published # None => published \in Runs
    BY <1>0 DEF Runs, None
  <2> QED
    BY <2>1, <2>3, <2>4 DEF PublishedInv
\* The handlers: a result that waited in the microtask queue.
<1>9. ASSUME NEW t \in Runs, Fulfilled(t) \/ Rejected(t) \/ RejectedAbort(t)
      PROVE  CallsInv' /\ PublishedInv'
  <2> DEFINE f == Frame("handler", t, "batch")
  <2>1. /\ promise[t] \notin {"none", "handled"} /\ aborted' = aborted
        /\ promise' = [promise EXCEPT ![t] = "handled"]
        /\ currentController' \in {currentController, None}
    BY <1>9 DEF Fulfilled, Rejected, RejectedAbort, Release
  <2>2. promise'[t] = "handled" /\ \A u \in Runs : u # t => promise'[u] = promise[u]
    BY <1>0, <2>1
  <2>3. /\ f \in Frames /\ f.fn = "handler" /\ f.run = t
    BY FrameType
  <2> HIDE DEF f
  <2>4. \/ stack' = stack /\ published' = published
        \/ stack' = Append(stack, f) /\ published' = t
    BY <1>9 DEF Fulfilled, Rejected, RejectedAbort, SetSuccess, SetError, f
  <2>5. \A g \in Frames : FrameOK(g) => FrameOK(g)'
    BY <1>f, <2>1, <2>2, <2>4 DEF FrameOK, None
  <2>6. \E h \in Frames : h = f /\ FrameOK(h)'
    BY <2>2, <2>3 DEF FrameOK
  <2>7. CallsInv'
    BY <2>3, <2>4, <2>5, <2>6, CallsPush, CallsKept
  <2>8. published # None => published \in Runs
    BY <1>0 DEF Runs, None
  <2> QED
    BY <2>1, <2>2, <2>4, <2>7, <2>8 DEF PublishedInv
<1>10. ASSUME Cancel PROVE CallsInv' /\ PublishedInv'
  <2> DEFINE f == Frame("cancel", currentController, "abort")
  <2>1. currentController \in Runs
    BY <1>0, <1>10 DEF Cancel, ToAbort, Runs, None
  <2>2. f \in Frames /\ f.fn = "cancel" /\ f.run = currentController
    BY <2>1, FrameType
  <2> HIDE DEF f
  <2>3. /\ stack' = Append(stack, f) /\ currentController' = currentController
        /\ aborted' = aborted \cup {currentController} /\ promise' = promise /\ published' = published
    BY <1>10 DEF Cancel, f
  <2>4. \E h \in Frames : h = f /\ FrameOK(h)'
    BY <2>2, <2>3 DEF FrameOK
  <2>5. \A g \in Frames : FrameOK(g) => FrameOK(g)'
    BY <2>3 DEF FrameOK
  <2>6. CallsInv'
    BY <2>2, <2>3, <2>4, <2>5, CallsPush
  <2> QED
    BY <2>3, <2>6 DEF PublishedInv
<1>11. ASSUME CancelPublish PROVE CallsInv' /\ PublishedInv'
  <2> DEFINE f == Frame("cancel", Top.run, "batch")
  <2>1. stack # <<>> /\ Top.fn = "cancel" /\ GoTo("batch")
    BY <1>11 DEF CancelPublish, In
  <2>2. f \in Frames /\ f.fn = "cancel" /\ f.run = Top.run /\ f = Frame(Top.fn, Top.run, "batch")
    BY <2>1, TopCall, FrameType
  <2> HIDE DEF f
  <2>3. /\ currentController' = currentController /\ aborted' = aborted /\ promise' = promise
        /\ published' = published
    BY <1>11 DEF CancelPublish
  <2>4. \E h \in Frames : h = f /\ FrameOK(h)'
    BY <2>1, <2>2, <2>3, TopCall DEF FrameOK
  <2>5. \A g \in Frames : FrameOK(g) => FrameOK(g)'
    BY <2>3 DEF FrameOK
  <2>6. CallsInv'
    BY <2>1, <2>2, <2>4, <2>5, CallsGoTo
  <2> QED
    BY <2>3, <2>6 DEF PublishedInv
<1>12. CASE UNCHANGED vars
  BY <1>12 DEF vars, CallsInv, RunsOnce, FrameOK, PublishedInv
<1> QED
  BY <1>1, <1>2, <1>3, <1>4, <1>5, <1>6, <1>7, <1>8, <1>9, <1>10, <1>11, <1>12
     DEF Next, UserCalls, Handlers, Settles, Progress

-----------------------------------------------------------------------------
(* Which calls are in progress *)

\* Run t is at one of the places in A; cancel() is calling listeners.
IsRun(f, t, A) == f.fn = "run" /\ f.run = t /\ f.at \in A
IsCancel(f)    == f.fn = "cancel" /\ f.at = "abort"
RunOn(s, t, A) == \E i \in 1..Len(s) : IsRun(s[i], t, A)
CancelOn(s)    == \E i \in 1..Len(s) : IsCancel(s[i])

LEMMA OnPush ==
  ASSUME NEW s \in Seq(Frames), NEW f \in Frames
  PROVE  /\ \A t, A : RunOn(Append(s, f), t, A) <=> RunOn(s, t, A) \/ IsRun(f, t, A)
         /\ CancelOn(Append(s, f)) <=> CancelOn(s) \/ IsCancel(f)
<1>1. /\ Len(s) \in Nat /\ Len(Append(s, f)) = Len(s) + 1 /\ Append(s, f)[Len(s) + 1] = f
      /\ \A i \in 1..Len(s) : Append(s, f)[i] = s[i]
  OBVIOUS
<1>2. /\ \A i \in 1..(Len(s) + 1) : i \in 1..Len(s) \/ i = Len(s) + 1
      /\ \A i \in 1..Len(s) : i \in 1..(Len(s) + 1)
      /\ Len(s) + 1 \in 1..(Len(s) + 1)
  BY <1>1
<1> QED
  BY <1>1, <1>2 DEF RunOn, CancelOn

LEMMA OnFront ==
  ASSUME NEW s \in Seq(Frames), s # <<>>
  PROVE  /\ \A t, A : RunOn(s, t, A) <=> RunOn(Front(s), t, A) \/ IsRun(Last(s), t, A)
         /\ CancelOn(s) <=> CancelOn(Front(s)) \/ IsCancel(Last(s))
<1>1. /\ Len(s) \in Nat \ {0} /\ Last(s) = s[Len(s)] /\ Len(Front(s)) = Len(s) - 1
      /\ \A i \in 1..(Len(s) - 1) : Front(s)[i] = s[i]
  BY FrontFacts
<1>2. /\ \A i \in 1..Len(s) : i \in 1..(Len(s) - 1) \/ i = Len(s)
      /\ \A i \in 1..(Len(s) - 1) : i \in 1..Len(s)
      /\ Len(s) \in 1..Len(s)
  BY <1>1
<1> QED
  BY <1>1, <1>2 DEF RunOn, CancelOn

\* The three ways in which a step changes the stack.
LEMMA PushOn ==
  ASSUME TypeOK, NEW f \in Frames, stack' = Append(stack, f)
  PROVE  /\ \A t, A : RunOn(stack', t, A) <=> RunOn(stack, t, A) \/ IsRun(f, t, A)
         /\ CancelOn(stack') <=> CancelOn(stack) \/ IsCancel(f)
<1>1. stack \in Seq(Frames)
  BY DEF TypeOK
<1> QED
  BY <1>1, OnPush

LEMMA PopOn ==
  ASSUME TypeOK, stack # <<>>, Pop
  PROVE  /\ \A t, A : RunOn(stack, t, A) <=> RunOn(stack', t, A) \/ IsRun(Top, t, A)
         /\ CancelOn(stack) <=> CancelOn(stack') \/ IsCancel(Top)
<1>1. stack \in Seq(Frames)
  BY DEF TypeOK
<1> QED
  BY <1>1, OnFront DEF Pop, Top

LEMMA GoToOn ==
  ASSUME TypeOK, stack # <<>>, NEW a \in {"abort", "batch", "producer", "failure"}, GoTo(a)
  PROVE  /\ \A t, A : RunOn(stack, t, A) <=> RunOn(Front(stack), t, A) \/ IsRun(Top, t, A)
         /\ CancelOn(stack) <=> CancelOn(Front(stack)) \/ IsCancel(Top)
         /\ \A t, A : RunOn(stack', t, A) <=> \/ RunOn(Front(stack), t, A)
                                              \/ IsRun(Frame(Top.fn, Top.run, a), t, A)
         /\ CancelOn(stack') <=> CancelOn(Front(stack)) \/ IsCancel(Frame(Top.fn, Top.run, a))
<1>1. stack \in Seq(Frames)
  BY DEF TypeOK
<1> DEFINE f == [Top EXCEPT !.at = a]
<1>2. f \in Frames /\ f = Frame(Top.fn, Top.run, a)
  BY TopFacts DEF Frames, Frame
<1>3. stack' = Append(Front(stack), f)
  BY DEF GoTo
<1>4. Front(stack) \in Seq(Frames)
  BY <1>1, FrontFacts
<1> HIDE DEF f
<1> QED
  BY <1>1, <1>2, <1>3, <1>4, OnPush, OnFront DEF Top

\* A run is in progress once.
LEMMA RunOnce ==
  ASSUME TypeOK, CallsInv, stack # <<>>, Top.fn = "run"
  PROVE  \A A : ~RunOn(Front(stack), Top.run, A)
<1>1. stack \in Seq(Frames)
  BY DEF TypeOK
<1>2. /\ Len(stack) \in Nat \ {0} /\ Top = stack[Len(stack)] /\ Len(Front(stack)) = Len(stack) - 1
      /\ \A i \in 1..(Len(stack) - 1) : Front(stack)[i] = stack[i]
  BY <1>1, FrontFacts DEF Top
<1>3. \A i \in 1..(Len(stack) - 1) : i \in 1..Len(stack) /\ i # Len(stack)
  BY <1>2
<1>4. Len(stack) \in 1..Len(stack)
  BY <1>2
<1> QED
  BY <1>2, <1>3, <1>4 DEF RunOn, IsRun, CallsInv, RunsOnce

LEMMA TopField ==
  ASSUME NEW fn, NEW t, NEW a
  PROVE  Frame(fn, t, a).fn = fn /\ Frame(fn, t, a).run = t /\ Frame(fn, t, a).at = a
BY DEF Frame

\* The steps but RunAbort and RunInstall, and the steps but CancelPublish.
Returns     == ProducerReturn \/ RunFailed \/ HandlerReturn \/ CancelReturn \/ Escape
AfterAbort  == Returns \/ RunBegin \/ RunProduce \/ ProducerThrow \/ Cancel \/ CancelPublish
               \/ Handlers \/ Settles \/ UNCHANGED vars
NoPublish   == Returns \/ RunBegin \/ RunAbort \/ RunInstall \/ RunProduce \/ ProducerThrow \/ Cancel
               \/ Handlers \/ Settles \/ UNCHANGED vars

\* Only run() puts a call at the listeners of a run it supersedes, or takes it on.
LEMMA AbortFramesKept ==
  ASSUME TypeOK, AfterAbort
  PROVE  \A t : RunOn(stack', t, {"abort"}) <=> RunOn(stack, t, {"abort"})
<1> USE DEF IsRun, None
<1>p. ASSUME NEW f \in Frames, stack' = Append(stack, f), ~(f.fn = "run" /\ f.at = "abort")
      PROVE  \A t : RunOn(stack', t, {"abort"}) <=> RunOn(stack, t, {"abort"})
  BY <1>p, PushOn
<1>o. ASSUME stack # <<>>, Pop, ~(Top.fn = "run" /\ Top.at = "abort")
      PROVE  \A t : RunOn(stack', t, {"abort"}) <=> RunOn(stack, t, {"abort"})
  BY <1>o, PopOn
<1>g. ASSUME stack # <<>>, NEW a \in {"batch", "producer", "failure"}, GoTo(a),
             ~(Top.fn = "run" /\ Top.at = "abort")
      PROVE  \A t : RunOn(stack', t, {"abort"}) <=> RunOn(stack, t, {"abort"})
  BY <1>g, GoToOn, TopField
<1>1. CASE RunBegin
  <2>1. currentToken + 1 \in Runs
    BY <1>1, StackType DEF RunBegin, Runs
  <2> QED
    BY <1>1, <1>p, <2>1, FrameType DEF RunBegin
<1>2. CASE RunProduce
  BY <1>2, <1>g DEF RunProduce, In
<1>3. CASE ProducerReturn \/ RunFailed \/ HandlerReturn \/ CancelReturn
  BY <1>3, <1>o DEF ProducerReturn, RunFailed, HandlerReturn, CancelReturn, In
<1>4. CASE ProducerThrow
  <2>1. stack # <<>> /\ Top.fn = "run" /\ Top.at = "producer" /\ (Pop \/ GoTo("failure"))
    BY <1>4 DEF ProducerThrow, In
  <2> QED
    BY <1>o, <1>g, <2>1
<1>5. CASE \E t \in Runs, o \in {"fulfilled", "rejected", "abortError"} : Settle(t, o)
  BY <1>5 DEF Settle
<1>6. CASE \E t \in Runs : Fulfilled(t) \/ Rejected(t) \/ RejectedAbort(t)
  <2>1. PICK t \in Runs : Fulfilled(t) \/ Rejected(t) \/ RejectedAbort(t)
    BY <1>6
  <2>2. stack' = stack \/ stack' = Append(stack, Frame("handler", t, "batch"))
    BY <2>1 DEF Fulfilled, Rejected, RejectedAbort
  <2> QED
    BY <1>p, <2>2, FrameType
<1>7. CASE Cancel
  <2>1. currentController \in Runs
    BY <1>7, StackType DEF Cancel, ToAbort, Runs
  <2> QED
    BY <1>7, <1>p, <2>1, FrameType DEF Cancel
<1>8. CASE CancelPublish
  BY <1>8, <1>g DEF CancelPublish, In
<1>9. CASE Escape
  BY <1>9, <1>o DEF Escape
<1>10. CASE UNCHANGED vars
  BY <1>10 DEF vars
<1> QED
  BY <1>1, <1>2, <1>3, <1>4, <1>5, <1>6, <1>7, <1>8, <1>9, <1>10
     DEF AfterAbort, Returns, Handlers, Settles

\* A cancel() that is calling listeners goes on to publish.
LEMMA CancelFramesKept ==
  ASSUME TypeOK, NoPublish, CancelOn(stack)
  PROVE  CancelOn(stack')
<1> USE DEF IsCancel, None
<1>p. ASSUME NEW f \in Frames, stack' = Append(stack, f) PROVE CancelOn(stack')
  BY <1>p, PushOn
<1>o. ASSUME stack # <<>>, Pop, ~IsCancel(Top) PROVE CancelOn(stack')
  BY <1>o, PopOn
<1>g. ASSUME stack # <<>>, NEW a \in {"batch", "producer", "failure"}, GoTo(a), ~IsCancel(Top)
      PROVE  CancelOn(stack')
  BY <1>g, GoToOn
<1>1. CASE RunBegin \/ RunAbort
  <2>1. currentToken + 1 \in Runs
    BY <1>1, StackType DEF RunBegin, RunAbort, Runs
  <2> QED
    BY <1>1, <1>p, <2>1, FrameType DEF RunBegin, RunAbort
<1>2. CASE RunInstall \/ RunProduce
  BY <1>2, <1>g DEF RunInstall, RunProduce, In
<1>3. CASE ProducerReturn \/ RunFailed \/ HandlerReturn \/ CancelReturn
  BY <1>3, <1>o DEF ProducerReturn, RunFailed, HandlerReturn, CancelReturn, In
<1>4. CASE ProducerThrow
  <2>1. stack # <<>> /\ Top.fn = "run" /\ (Pop \/ GoTo("failure"))
    BY <1>4 DEF ProducerThrow, In
  <2> QED
    BY <1>o, <1>g, <2>1
<1>5. CASE \E t \in Runs, o \in {"fulfilled", "rejected", "abortError"} : Settle(t, o)
  BY <1>5 DEF Settle
<1>6. CASE \E t \in Runs : Fulfilled(t) \/ Rejected(t) \/ RejectedAbort(t)
  <2>1. PICK t \in Runs : Fulfilled(t) \/ Rejected(t) \/ RejectedAbort(t)
    BY <1>6
  <2>2. stack' = stack \/ stack' = Append(stack, Frame("handler", t, "batch"))
    BY <2>1 DEF Fulfilled, Rejected, RejectedAbort
  <2> QED
    BY <1>p, <2>2, FrameType
<1>7. CASE Cancel
  <2>1. currentController \in Runs
    BY <1>7, StackType DEF Cancel, ToAbort, Runs
  <2> QED
    BY <1>7, <1>p, <2>1, FrameType DEF Cancel
<1>8. CASE Escape
  BY <1>8, <1>o DEF Escape
<1>9. CASE UNCHANGED vars
  BY <1>9 DEF vars
<1> QED
  BY <1>1, <1>2, <1>3, <1>4, <1>5, <1>6, <1>7, <1>8, <1>9
     DEF NoPublish, Returns, Handlers, Settles

-----------------------------------------------------------------------------
(* One outcome, of the latest run *)

\* An error that is shown is that of the newest run, or the newest run has not
\* come so far as to clear it.
OutcomeInv ==
  /\ status = "success" => value = published /\ error = None
  /\ status = "error" => error = published
  /\ status = "pending" => error = None
  /\ error # None => /\ error = published
                     /\ error = currentToken \/ RunOn(stack, currentToken, {"abort"})

LEMMA IdleFacts == ASSUME stack = <<>> PROVE (\A t, A : ~RunOn(stack, t, A)) /\ ~CancelOn(stack)
<1>1. Len(stack) = 0
  OBVIOUS
<1> QED
  BY <1>1 DEF RunOn, CancelOn

LEMMA OutcomeInit == Init => OutcomeInv
BY DEF Init, OutcomeInv

LEMMA OutcomeNext ==
  TypeOK /\ CallsInv /\ PublishedInv /\ OutcomeInv /\ [Next]_vars => OutcomeInv'
<1> SUFFICES ASSUME TypeOK, CallsInv, PublishedInv, OutcomeInv, [Next]_vars PROVE OutcomeInv'
  OBVIOUS
<1> USE DEF settings, signals, history
\* The signals stay as they are, or show "cancelled".
<1>k. ASSUME AfterAbort, currentToken' = currentToken, value' = value, error' = error,
             published' = published, status' \in {status, "cancelled"}
      PROVE  OutcomeInv'
  <2>1. RunOn(stack', currentToken, {"abort"}) <=> RunOn(stack, currentToken, {"abort"})
    BY <1>k, AbortFramesKept
  <2> QED
    BY <1>k, <2>1 DEF OutcomeInv
\* SetPending.
<1>s. ASSUME SetPending, published' = published PROVE OutcomeInv'
  BY <1>s DEF OutcomeInv, SetPending
<1>1. ASSUME RunBegin PROVE OutcomeInv'
  BY <1>1, <1>s DEF RunBegin
<1>2. ASSUME RunAbort PROVE OutcomeInv'
  <2>1. currentToken + 1 \in Runs
    BY <1>2, StackType DEF RunAbort, Runs
  <2>2. Frame("run", currentToken + 1, "abort") \in Frames
    BY <2>1, FrameType
  <2>3. stack' = Append(stack, Frame("run", currentToken + 1, "abort"))
    BY <1>2 DEF RunAbort
  <2>4. RunOn(stack', currentToken + 1, {"abort"})
    BY <2>2, <2>3, PushOn, TopField DEF IsRun
  <2> QED
    BY <1>2, <2>4 DEF RunAbort, OutcomeInv
<1>3. ASSUME RunInstall PROVE OutcomeInv'
  BY <1>3, <1>s DEF RunInstall
<1>4. ASSUME RunProduce \/ Returns PROVE OutcomeInv'
  BY <1>4, <1>k DEF AfterAbort, Returns, RunProduce, ProducerReturn, RunFailed, HandlerReturn, CancelReturn, Escape
<1>5. ASSUME ProducerThrow PROVE OutcomeInv'
  <2>1. CASE Top.run = currentToken
    BY <1>5, <2>1 DEF ProducerThrow, SetError, OutcomeInv
  <2>2. CASE Top.run # currentToken
    BY <1>5, <1>k, <2>2 DEF ProducerThrow, AfterAbort
  <2> QED
    BY <2>1, <2>2
<1>6. ASSUME Settles PROVE OutcomeInv'
  BY <1>6, <1>k DEF Settles, Settle, AfterAbort
<1>7. ASSUME NEW t \in Runs, Fulfilled(t) PROVE OutcomeInv'
  <2>1. CASE Current(t)
    <3>1. published # t
      <4>1. t # None
        BY DEF Runs, None
      <4> QED
        BY <1>7, <4>1 DEF Fulfilled, PublishedInv
    <3>2. error = None
      BY <1>7, <2>1, <3>1, IdleFacts DEF OutcomeInv, Fulfilled, Current, Idle
    <3> QED
      BY <1>7, <2>1, <3>2 DEF Fulfilled, SetSuccess, OutcomeInv
  <2>2. CASE ~Current(t)
    BY <1>7, <1>k, <2>2 DEF Fulfilled, AfterAbort, Handlers
  <2> QED
    BY <2>1, <2>2
<1>8. ASSUME NEW t \in Runs, Rejected(t) PROVE OutcomeInv'
  <2>1. CASE Current(t)
    BY <1>8, <2>1 DEF Rejected, SetError, OutcomeInv, Current
  <2>2. CASE ~Current(t)
    BY <1>8, <1>k, <2>2 DEF Rejected, AfterAbort, Handlers
  <2> QED
    BY <2>1, <2>2
<1>9. ASSUME NEW t \in Runs, RejectedAbort(t) PROVE OutcomeInv'
  BY <1>9, <1>k DEF RejectedAbort, AfterAbort, Handlers
<1>10. ASSUME Cancel \/ CancelPublish PROVE OutcomeInv'
  BY <1>10, <1>k DEF Cancel, CancelPublish, AfterAbort
<1>11. ASSUME UNCHANGED vars PROVE OutcomeInv'
  BY <1>11, <1>k DEF vars, AfterAbort
<1> QED
  BY <1>1, <1>2, <1>3, <1>4, <1>5, <1>6, <1>7, <1>8, <1>9, <1>10, <1>11
     DEF Next, UserCalls, Handlers, Progress, Returns

\* The signals tell of one outcome, however runs, cancellations and callbacks nest.
THEOREM PromiseOneOutcome == Spec => []OneOutcome
<1>1. Init => TypeOK /\ CallsInv /\ PublishedInv /\ OutcomeInv
  BY InitType, CallsInit, OutcomeInit
<1>2. TypeOK /\ CallsInv /\ PublishedInv /\ OutcomeInv /\ [Next]_vars
        => (TypeOK /\ CallsInv /\ PublishedInv /\ OutcomeInv)'
  BY NextType, CallsNext, OutcomeNext
<1>3. PublishedInv /\ OutcomeInv => OneOutcome
  BY DEF PublishedInv, OutcomeInv, OneOutcome
<1> QED
  BY <1>1, <1>2, <1>3, PTL DEF Spec

\* What is committed comes from the newest run, and never from one no newer than
\* the last that has committed.
THEOREM PromiseLatestWins == Spec => LatestWins
<1> DEFINE Inv == TypeOK /\ CallsInv /\ PublishedInv
<1> DEFINE Wins == \A t \in Runs : Commits(t) => t = currentToken /\ t > published
<1>1. Inv /\ [Next]_vars => [Wins]_vars
  <2> SUFFICES ASSUME TypeOK, CallsInv, PublishedInv, Next, NEW t \in Runs, Commits(t)
               PROVE  t = currentToken /\ t > published
    BY DEF vars
  <2> USE DEF settings, signals, history
  <2>1. t = currentToken /\ t # published => t > published
    BY StackType DEF Runs
  <2>2. t # None
    BY DEF Runs, None
  <2>3. ASSUME value' \in {value, None}, error' \in {error, None} PROVE FALSE
    BY <2>2, <2>3 DEF Commits
  <2>4. ASSUME NEW u \in Runs, value' \in {value, u}, error' \in {error, u} PROVE t = u
    BY <2>4 DEF Commits
  <2>5. CASE RunBegin \/ RunInstall
    <3>1. SetPending
      BY <2>5 DEF RunBegin, RunInstall
    <3>2. keepPrev \in BOOLEAN
      BY Zenon DEF TypeOK
    <3> QED
      BY <2>3, <3>1, <3>2 DEF SetPending
  <2>6. CASE RunAbort \/ RunProduce \/ Returns \/ Settles \/ Cancel \/ CancelPublish
    BY <2>3, <2>6 DEF RunAbort, RunProduce, Returns, Settles, Settle, Cancel, CancelPublish,
         ProducerReturn, RunFailed, HandlerReturn, CancelReturn, Escape
  <2>7. CASE ProducerThrow
    <3>1. stack # <<>> /\ Top.fn = "run" /\ Top.at = "producer"
      BY <2>7 DEF ProducerThrow, In
    <3>2. Top.run \in Runs /\ published # Top.run
      BY <3>1, TopCall DEF FrameOK
    <3>3. CASE Top.run = currentToken
      <4>1. value' = value /\ error' = Top.run
        BY <2>7, <3>3 DEF ProducerThrow, SetError
      <4> QED
        BY <2>1, <2>4, <3>2, <3>3, <4>1
    <3>4. CASE Top.run # currentToken
      BY <2>3, <2>7, <3>4 DEF ProducerThrow
    <3> QED
      BY <3>3, <3>4
  <2>8. CASE Handlers
    <3>1. PICK u \in Runs : Fulfilled(u) \/ Rejected(u) \/ RejectedAbort(u)
      BY <2>8 DEF Handlers
    <3>2. promise[u] \notin {"none", "handled"} /\ u # None
      BY <3>1 DEF Fulfilled, Rejected, RejectedAbort, Runs, None
    <3>3. u # published
      BY <3>2 DEF PublishedInv
    <3>4. CASE Current(u) /\ ~RejectedAbort(u)
      <4>1. value' \in {value, u} /\ error' \in {error, u}
        BY <3>1, <3>4 DEF Fulfilled, Rejected, SetSuccess, SetError
      <4> QED
        BY <2>1, <2>4, <3>3, <3>4, <4>1 DEF Current
    <3>5. CASE ~Current(u) \/ RejectedAbort(u)
      BY <2>3, <3>1, <3>5 DEF Fulfilled, Rejected, RejectedAbort
    <3> QED
      BY <3>4, <3>5
  <2> QED
    BY <2>5, <2>6, <2>7, <2>8 DEF Next, UserCalls, Progress, Returns
<1>2. Inv /\ [Next]_vars => Inv'
  BY NextType, CallsNext
<1>3. Init => Inv
  BY InitType, CallsInit
<1> HIDE DEF Inv
<1>4. Init /\ [][Next]_vars => [][Wins]_vars
  BY <1>1, <1>2, <1>3, PTL
<1> QED
  BY <1>4 DEF Spec, LatestWins

-----------------------------------------------------------------------------
(* Controllers and cancellation *)

\* Until controllers have crossed, the one that can be aborted is that of the
\* newest run, so what is cancelled is aborted.
ControllerInv ==
  ~crossed => (ToAbort => currentController = currentToken) /\ cancelled \subseteq aborted

LEMMA ControllerInit == Init => ControllerInv
BY DEF Init, ControllerInv, ToAbort

LEMMA ControllerNext == TypeOK /\ ControllerInv /\ [Next]_vars => ControllerInv'
<1> SUFFICES ASSUME TypeOK, ControllerInv, [Next]_vars PROVE ControllerInv'
  OBVIOUS
<1> USE DEF settings, signals, history
\* The controller stays or is released.
<1>k. ASSUME currentToken' = currentToken, currentController' \in {currentController, None},
             aborted' = aborted, cancelled' = cancelled, crossed' = crossed
      PROVE  ControllerInv'
  BY <1>k DEF ControllerInv, ToAbort
<1>1. ASSUME RunBegin PROVE ControllerInv'
  BY <1>1 DEF RunBegin, ControllerInv
<1>2. ASSUME RunAbort PROVE ControllerInv'
  BY <1>2 DEF RunAbort, ControllerInv, ToAbort
<1>3. ASSUME RunInstall PROVE ControllerInv'
  <2>1. /\ crossed' <=> (crossed \/ Top.run # currentToken)
        /\ currentController' = Top.run /\ currentToken' = currentToken /\ aborted' = aborted
        /\ cancelled' = cancelled
    BY <1>3 DEF RunInstall
  <2> QED
    BY <2>1 DEF ControllerInv
<1>4. ASSUME RunProduce \/ Returns \/ ProducerThrow \/ Settles PROVE ControllerInv'
  <2>1. /\ currentToken' = currentToken /\ currentController' \in {currentController, None}
        /\ aborted' = aborted
    BY <1>4 DEF RunProduce, Returns, ProducerThrow, Settles, Settle, ProducerReturn, RunFailed,
         HandlerReturn, CancelReturn, Escape, Release
  <2>2. cancelled' = cancelled /\ crossed' = crossed
    BY <1>4 DEF RunProduce, Returns, ProducerThrow, Settles, Settle, ProducerReturn, RunFailed,
         HandlerReturn, CancelReturn, Escape, SetError
  <2> QED
    BY <1>k, <2>1, <2>2
<1>5. ASSUME NEW t \in Runs, Fulfilled(t) \/ Rejected(t) \/ RejectedAbort(t) PROVE ControllerInv'
  <2>1. /\ currentToken' = currentToken /\ currentController' \in {currentController, None}
        /\ aborted' = aborted
    BY <1>5 DEF Fulfilled, Rejected, RejectedAbort, Release
  <2>2. cancelled' = cancelled /\ crossed' = crossed
    BY <1>5 DEF Fulfilled, Rejected, RejectedAbort, SetSuccess, SetError
  <2> QED
    BY <1>k, <2>1, <2>2
<1>6. ASSUME Cancel PROVE ControllerInv'
  BY <1>6 DEF Cancel, ControllerInv, ToAbort
<1>7. ASSUME CancelPublish PROVE ControllerInv'
  BY <1>7, <1>k DEF CancelPublish
<1>8. CASE UNCHANGED vars
  BY <1>8, <1>k DEF vars
<1> QED
  BY <1>1, <1>2, <1>3, <1>4, <1>5, <1>6, <1>7, <1>8
     DEF Next, UserCalls, Handlers, Progress, Returns

\* After cancel(), the handlers of the run's promise commit nothing.
THEOREM PromiseCancelledCommitsNothing == Spec => CancelledCommitsNothing
<1> DEFINE Inv == TypeOK /\ ControllerInv
<1> DEFINE Quiet == \A t \in cancelled : Commits(t) => ProducerThrow \/ crossed
<1>1. Inv /\ [Next]_vars => [Quiet]_vars
  <2> SUFFICES ASSUME TypeOK, ControllerInv, Next, NEW t \in cancelled, Commits(t), ~ProducerThrow, ~crossed
               PROVE  FALSE
    BY DEF vars
  <2> USE DEF settings, signals, history
  <2>1. t # None /\ t \in aborted
    BY DEF ControllerInv, TypeOK, None
  <2>2. ASSUME value' \in {value, None}, error' \in {error, None} PROVE FALSE
    BY <2>1, <2>2 DEF Commits
  <2>3. CASE RunBegin \/ RunInstall
    <3>1. SetPending
      BY <2>3 DEF RunBegin, RunInstall
    <3>2. keepPrev \in BOOLEAN
      BY Zenon DEF TypeOK
    <3> QED
      BY <2>2, <3>1, <3>2 DEF SetPending
  <2>4. CASE RunAbort \/ RunProduce \/ Returns \/ Settles \/ Cancel \/ CancelPublish
    BY <2>2, <2>4 DEF RunAbort, RunProduce, Returns, Settles, Settle, Cancel, CancelPublish,
         ProducerReturn, RunFailed, HandlerReturn, CancelReturn, Escape
  <2>5. CASE Handlers
    <3>1. PICK u \in Runs : Fulfilled(u) \/ Rejected(u) \/ RejectedAbort(u)
      BY <2>5 DEF Handlers
    <3>2. CASE Current(u) /\ ~RejectedAbort(u)
      <4>1. value' \in {value, u} /\ error' \in {error, u}
        BY <3>1, <3>2 DEF Fulfilled, Rejected, SetSuccess, SetError
      <4>2. u # t
        BY <2>1, <3>2 DEF Current
      <4> QED
        BY <4>1, <4>2 DEF Commits
    <3>3. CASE ~Current(u) \/ RejectedAbort(u)
      BY <2>2, <3>1, <3>3 DEF Fulfilled, Rejected, RejectedAbort
    <3> QED
      BY <3>2, <3>3
  <2> QED
    BY <2>3, <2>4, <2>5 DEF Next, UserCalls, Progress, Returns
<1>2. Inv /\ [Next]_vars => Inv'
  BY NextType, ControllerNext
<1>3. Init => Inv
  BY InitType, ControllerInit
<1> HIDE DEF Inv
<1>4. Init /\ [][Next]_vars => [][Quiet]_vars
  BY <1>1, <1>2, <1>3, PTL
<1> QED
  BY <1>4 DEF Spec, CancelledCommitsNothing

-----------------------------------------------------------------------------
(* Reaching the run that is waited for *)

Begun == {"batch", "producer"}

\* The steps in which no run begins or installs its controller.
AfterBegin == Returns \/ RunProduce \/ ProducerThrow \/ Cancel \/ CancelPublish
              \/ Handlers \/ Settles \/ UNCHANGED vars

LEMMA BegunFrames ==
  ASSUME TypeOK, AfterBegin, NEW t
  PROVE  /\ RunOn(stack', t, Begun) => RunOn(stack, t, Begun)
         /\ RunOn(stack, t, Begun) /\ ~RunOn(stack', t, Begun) =>
              IsRun(Top, t, Begun) /\ (ProducerReturn \/ ProducerThrow \/ Escape)
<1> USE DEF IsRun, Begun, None
<1>p. ASSUME NEW f \in Frames, stack' = Append(stack, f), f.fn # "run"
      PROVE  RunOn(stack', t, Begun) <=> RunOn(stack, t, Begun)
  BY <1>p, PushOn
<1>o. ASSUME stack # <<>>, Pop
      PROVE  RunOn(stack, t, Begun) <=> RunOn(stack', t, Begun) \/ IsRun(Top, t, Begun)
  BY <1>o, PopOn
<1>1. CASE RunProduce
  <2>1. stack # <<>> /\ Top.at = "batch" /\ GoTo("producer")
    BY <1>1 DEF RunProduce, In
  <2> QED
    BY <2>1, GoToOn, TopField
<1>2. CASE ProducerReturn \/ Escape
  BY <1>2, <1>o DEF ProducerReturn, Escape, In
<1>3. CASE RunFailed \/ HandlerReturn \/ CancelReturn
  BY <1>3, <1>o DEF RunFailed, HandlerReturn, CancelReturn, In
<1>4. CASE ProducerThrow
  <2>1. stack # <<>> /\ (Pop \/ GoTo("failure"))
    BY <1>4 DEF ProducerThrow, In
  <2>2. CASE Pop
    BY <1>4, <1>o, <2>1, <2>2
  <2>3. CASE GoTo("failure")
    BY <1>4, <2>1, <2>3, GoToOn, TopField
  <2> QED
    BY <2>1, <2>2, <2>3
<1>5. CASE Settles
  BY <1>5 DEF Settles, Settle
<1>6. CASE Handlers
  <2>1. PICK u \in Runs : Fulfilled(u) \/ Rejected(u) \/ RejectedAbort(u)
    BY <1>6 DEF Handlers
  <2>2. stack' = stack \/ stack' = Append(stack, Frame("handler", u, "batch"))
    BY <2>1 DEF Fulfilled, Rejected, RejectedAbort
  <2> QED
    BY <1>p, <2>2, FrameType
<1>7. CASE Cancel
  <2>1. currentController \in Runs
    BY <1>7, StackType DEF Cancel, ToAbort, Runs
  <2> QED
    BY <1>7, <1>p, <2>1, FrameType DEF Cancel
<1>8. CASE CancelPublish
  <2>1. stack # <<>> /\ Top.fn = "cancel" /\ GoTo("batch")
    BY <1>8 DEF CancelPublish, In
  <2> QED
    BY <2>1, GoToOn, TopField
<1>9. CASE UNCHANGED vars
  BY <1>9 DEF vars
<1> QED
  BY <1>1, <1>2, <1>3, <1>4, <1>5, <1>6, <1>7, <1>8, <1>9 DEF AfterBegin, Returns

\* From its controller's installation to its answer, the newest run can be aborted.
ReachInv ==
  /\ ~crossed /\ currentToken \notin aborted
  /\ Waiting(currentToken) \/ RunOn(stack, currentToken, Begun)
  => currentController = currentToken

\* A run that is in progress has returned nothing.
LEMMA OnStack ==
  ASSUME TypeOK, CallsInv, NEW t, NEW A, RunOn(stack, t, A)
  PROVE  t \in Runs /\ t <= currentToken /\ promise[t] = "none"
BY StackType DEF RunOn, IsRun, CallsInv, FrameOK

LEMMA ReachInit == Init => ReachInv
BY IdleFacts DEF Init, ReachInv, Waiting, Runs

LEMMA ReachNext == TypeOK /\ CallsInv /\ ReachInv /\ [Next]_vars => ReachInv'
<1> SUFFICES ASSUME TypeOK, CallsInv, ReachInv, [Next]_vars PROVE ReachInv'
  OBVIOUS
<1> USE DEF settings, signals, history
\* Controllers stay; nothing new is waited for.
<1>k. ASSUME AfterBegin, currentToken' = currentToken, currentController' = currentController,
             aborted \subseteq aborted', crossed' = crossed,
             Waiting(currentToken)' => Waiting(currentToken)
      PROVE  ReachInv'
  <2>1. RunOn(stack', currentToken, Begun) => RunOn(stack, currentToken, Begun)
    BY <1>k, BegunFrames
  <2> QED
    BY <1>k, <2>1 DEF ReachInv
<1>1. ASSUME RunBegin PROVE ReachInv'
  BY <1>1 DEF RunBegin, ReachInv
<1>2. ASSUME RunAbort PROVE ReachInv'
  <2> DEFINE n == currentToken + 1
  <2>1. n \in Runs /\ ~(n <= currentToken) /\ promise[n] = "none"
    BY <1>2, StackType DEF RunAbort, Runs, TypeOK
  <2>2. /\ Frame("run", n, "abort") \in Frames /\ currentToken' = n /\ promise' = promise
        /\ stack' = Append(stack, Frame("run", n, "abort"))
    BY <1>2, <2>1, FrameType DEF RunAbort
  <2> HIDE DEF n
  <2>3. ~RunOn(stack', n, Begun)
    BY <2>1, <2>2, PushOn, OnStack, TopField DEF IsRun, Begun
  <2>4. ~Waiting(currentToken)'
    BY <2>1, <2>2 DEF Waiting, Unsettled
  <2> QED
    BY <2>2, <2>3, <2>4 DEF ReachInv
<1>3. ASSUME RunInstall PROVE ReachInv'
  <2>1. /\ crossed' <=> (crossed \/ Top.run # currentToken)
        /\ currentController' = Top.run /\ currentToken' = currentToken
    BY <1>3 DEF RunInstall
  <2> QED
    BY <2>1 DEF ReachInv
<1>4. ASSUME RunProduce \/ Escape \/ Cancel \/ CancelPublish PROVE ReachInv'
  <2>1. /\ AfterBegin /\ currentToken' = currentToken /\ currentController' = currentController
        /\ aborted \subseteq aborted' /\ crossed' = crossed /\ promise' = promise
    BY <1>4 DEF RunProduce, Escape, Cancel, CancelPublish, AfterBegin, Returns
  <2> QED
    BY <1>k, <2>1 DEF Waiting
<1>5. ASSUME ProducerThrow PROVE ReachInv'
  <2>1. /\ AfterBegin /\ currentToken' = currentToken /\ currentController' = currentController
        /\ aborted' = aborted /\ promise' = promise
    BY <1>5 DEF ProducerThrow, AfterBegin
  <2>2. crossed' = crossed
    BY <1>5 DEF ProducerThrow, SetError
  <2> QED
    BY <1>k, <2>1, <2>2 DEF Waiting
<1>6. ASSUME Settles PROVE ReachInv'
  <2>1. PICK t \in Runs, o \in {"fulfilled", "rejected", "abortError"} : Settle(t, o)
    BY <1>6 DEF Settles
  <2>2. Waiting(currentToken)' => Waiting(currentToken)
    BY <2>1, StackType DEF Settle, Waiting, Unsettled
  <2> QED
    BY <1>6, <1>k, <2>1, <2>2 DEF Settle, AfterBegin
<1>7. ASSUME ProducerReturn PROVE ReachInv'
  <2>1. /\ stack # <<>> /\ Top.fn = "run" /\ Top.at = "producer" /\ Pop
        /\ promise' = [promise EXCEPT ![Top.run] = "pending"]
        /\ UNCHANGED <<currentToken, currentController, aborted, crossed>>
    BY <1>7 DEF ProducerReturn, In
  <2>2. CASE Top.run = currentToken
    <3>1. RunOn(stack, currentToken, Begun)
      BY <2>1, <2>2, PopOn DEF IsRun, Begun
    <3> QED
      BY <2>1, <3>1 DEF ReachInv
  <2>3. CASE Top.run # currentToken
    <3>1. Waiting(currentToken)' => Waiting(currentToken)
      BY <2>1, <2>3, StackType DEF Waiting
    <3> QED
      BY <1>7, <1>k, <2>1, <3>1 DEF AfterBegin, Returns
  <2> QED
    BY <2>2, <2>3
\* A controller is released once its run has its outcome, or is aborted.
<1>8. ASSUME RunFailed \/ HandlerReturn \/ CancelReturn PROVE ReachInv'
  <2>1. /\ stack # <<>> /\ Pop /\ Release(Top.run)
        /\ UNCHANGED <<currentToken, aborted, crossed, promise>>
    BY <1>8 DEF RunFailed, HandlerReturn, CancelReturn, In
  <2>2. CASE Top.run # currentToken
    <3>1. RunOn(stack', currentToken, Begun) => RunOn(stack, currentToken, Begun)
      BY <2>1, PopOn
    <3> QED
      BY <2>1, <2>2, <3>1 DEF ReachInv, Release, Waiting
  <2>3. CASE Top.run = currentToken /\ RunFailed
    <3>1. Top.fn = "run"
      BY <2>3 DEF RunFailed, In
    <3>2. ~RunOn(stack', currentToken, Begun)
      BY <2>1, <2>3, <3>1, RunOnce DEF Pop
    <3>3. promise[currentToken] = "none"
      BY <2>1, <2>3, <3>1, TopCall DEF FrameOK
    <3> QED
      BY <2>1, <3>2, <3>3 DEF ReachInv, Waiting, Unsettled
  <2>4. CASE Top.run = currentToken /\ HandlerReturn
    <3>1. promise[currentToken] = "handled"
      BY <2>1, <2>4, TopCall DEF FrameOK, HandlerReturn, In
    <3>2. ~RunOn(stack', currentToken, Begun)
      BY <2>1, <3>1, OnStack, PopOn
    <3> QED
      BY <2>1, <3>1, <3>2 DEF ReachInv, Waiting, Unsettled
  <2>5. CASE Top.run = currentToken /\ CancelReturn
    <3>1. currentToken \in aborted
      BY <2>1, <2>5, TopCall DEF FrameOK, CancelReturn, In
    <3> QED
      BY <2>1, <3>1 DEF ReachInv
  <2> QED
    BY <1>8, <2>2, <2>3, <2>4, <2>5
<1>9. ASSUME NEW t \in Runs, Fulfilled(t) \/ Rejected(t) \/ RejectedAbort(t) PROVE ReachInv'
  <2>1. /\ AfterBegin /\ currentToken' = currentToken /\ aborted' = aborted
        /\ promise' = [promise EXCEPT ![t] = "handled"]
        /\ currentController' = currentController \/ t = currentToken
        /\ stack = <<>>
    BY <1>9 DEF Fulfilled, Rejected, RejectedAbort, AfterBegin, Handlers, Idle
  <2>2. crossed' = crossed
    BY <1>9 DEF Fulfilled, Rejected, RejectedAbort, SetSuccess, SetError
  <2>3. ~RunOn(stack', currentToken, Begun)
    BY <2>1, BegunFrames, IdleFacts
  <2>4. CASE t = currentToken
    <3>1. ~Waiting(currentToken)'
      BY <2>1, <2>4, StackType DEF Waiting, Unsettled
    <3> QED
      BY <2>1, <2>3, <3>1 DEF ReachInv
  <2>5. CASE t # currentToken
    <3>1. Waiting(currentToken)' => Waiting(currentToken)
      BY <2>1, <2>5, StackType DEF Waiting
    <3> QED
      BY <1>k, <2>1, <2>2, <2>5, <3>1
  <2> QED
    BY <2>4, <2>5
<1>10. CASE UNCHANGED vars
  <2>1. Waiting(currentToken)' => Waiting(currentToken)
    BY <1>10 DEF vars, Waiting
  <2> QED
    BY <1>10, <1>k, <2>1 DEF vars, AfterBegin
<1> QED
  BY <1>1, <1>2, <1>3, <1>4, <1>5, <1>6, <1>7, <1>8, <1>9, <1>10
     DEF Next, UserCalls, Handlers, Progress

\* cancel() can reach the run whose answer is awaited, between calls and inside them.
THEOREM PromiseCancelReaches == Spec => []CancelReaches
<1>1. Init => TypeOK /\ CallsInv /\ PublishedInv /\ ReachInv
  BY InitType, CallsInit, ReachInit
<1>2. TypeOK /\ CallsInv /\ PublishedInv /\ ReachInv /\ [Next]_vars
        => (TypeOK /\ CallsInv /\ PublishedInv /\ ReachInv)'
  BY NextType, CallsNext, ReachNext
<1>3. ReachInv => CancelReaches
  BY DEF ReachInv, CancelReaches, Waiting
<1> QED
  BY <1>1, <1>2, <1>3, PTL DEF Spec

-----------------------------------------------------------------------------
(* "pending" and "cancelled" *)

\* While "pending" is shown, the newest run has an answer to come or is being
\* carried out, or else a cancel() is about to publish; and only such a cancel()
\* can have aborted that run.
LiveInv ==
  status = "pending" /\ ~crossed =>
    /\ currentToken \notin spoiled =>
         \/ Waiting(currentToken) \/ CancelOn(stack)
         \/ RunOn(stack, currentToken, {"abort"}) \/ RunOn(stack, currentToken, Begun)
    /\ currentToken \in aborted => CancelOn(stack)

LEMMA LiveInit == Init => LiveInv
BY DEF Init, LiveInv

LEMMA LiveNext == TypeOK /\ CallsInv /\ LiveInv /\ [Next]_vars => LiveInv'
<1> SUFFICES ASSUME TypeOK, CallsInv, LiveInv, [Next]_vars, status' = "pending", ~crossed'
             PROVE  /\ currentToken' \notin spoiled' =>
                         \/ Waiting(currentToken)' \/ CancelOn(stack')
                         \/ RunOn(stack', currentToken', {"abort"})
                         \/ RunOn(stack', currentToken', Begun)
                    /\ currentToken' \in aborted' => CancelOn(stack')
  BY DEF LiveInv
<1> USE DEF settings, signals, history
<1> DEFINE Goal == /\ currentToken' \notin spoiled' =>
                         \/ Waiting(currentToken)' \/ CancelOn(stack')
                         \/ RunOn(stack', currentToken', {"abort"})
                         \/ RunOn(stack', currentToken', Begun)
                   /\ currentToken' \in aborted' => CancelOn(stack')
\* The newest run stays where it is.
<1>k. ASSUME AfterBegin, NoPublish, status = "pending", ~crossed,
             currentToken' = currentToken, aborted' = aborted, spoiled \subseteq spoiled',
             Waiting(currentToken) => Waiting(currentToken)' \/ currentToken \in spoiled',
             RunOn(stack, currentToken, Begun) =>
               RunOn(stack', currentToken, Begun) \/ Waiting(currentToken)'
               \/ currentToken \in aborted \/ currentToken \in spoiled'
      PROVE  Goal
  <2>1. RunOn(stack', currentToken, {"abort"}) <=> RunOn(stack, currentToken, {"abort"})
    BY <1>k, AbortFramesKept DEF AfterBegin, AfterAbort
  <2>2. CancelOn(stack) => CancelOn(stack')
    BY <1>k, CancelFramesKept
  <2> QED
    BY <1>k, <2>1, <2>2 DEF LiveInv
<1>1. ASSUME RunBegin PROVE Goal
  <2> DEFINE f == Frame("run", currentToken + 1, "batch")
  <2>1. currentToken + 1 \in Runs /\ currentToken + 1 \notin aborted
    BY <1>1, StackType DEF RunBegin, Runs
  <2>2. f \in Frames /\ stack' = Append(stack, f) /\ currentToken' = currentToken + 1 /\ aborted' = aborted
    BY <1>1, <2>1, FrameType DEF RunBegin
  <2>3. IsRun(f, currentToken + 1, Begun)
    BY TopField DEF IsRun, Begun
  <2> HIDE DEF f
  <2> QED
    BY <2>1, <2>2, <2>3, PushOn
<1>2. ASSUME RunAbort PROVE Goal
  <2> DEFINE f == Frame("run", currentToken + 1, "abort")
  <2>1. currentToken + 1 \in Runs /\ currentToken + 1 \notin aborted /\ currentToken + 1 # currentController
    BY <1>2, StackType DEF RunAbort, Runs
  <2>2. /\ f \in Frames /\ stack' = Append(stack, f) /\ currentToken' = currentToken + 1
        /\ aborted' = aborted \cup {currentController}
    BY <1>2, <2>1, FrameType DEF RunAbort
  <2>3. IsRun(f, currentToken + 1, {"abort"})
    BY TopField DEF IsRun
  <2> HIDE DEF f
  <2> QED
    BY <2>1, <2>2, <2>3, PushOn
<1>3. ASSUME RunInstall PROVE Goal
  <2>1. /\ stack # <<>> /\ Top.fn = "run" /\ Top.at = "abort" /\ GoTo("batch")
        /\ currentToken' = currentToken /\ aborted' = aborted
        /\ crossed' <=> (crossed \/ Top.run # currentToken)
    BY <1>3 DEF RunInstall, In
  <2>2. Top.run = currentToken
    BY <2>1
  <2>3. currentToken \notin aborted
    BY <2>1, <2>2, TopCall DEF FrameOK
  <2>4. RunOn(stack', currentToken, Begun)
    BY <2>1, <2>2, GoToOn, TopField DEF IsRun, Begun
  <2> QED
    BY <2>1, <2>3, <2>4
<1>4. ASSUME RunProduce PROVE Goal
  <2>1. /\ AfterBegin /\ NoPublish /\ currentToken' = currentToken /\ aborted' = aborted
        /\ spoiled' = spoiled /\ status' = status /\ crossed' = crossed /\ promise' = promise
    BY <1>4 DEF AfterBegin, NoPublish, RunProduce
  <2>2. stack # <<>> /\ Top.at = "batch" /\ GoTo("producer")
    BY <1>4 DEF RunProduce, In
  <2>3. RunOn(stack, currentToken, Begun) => RunOn(stack', currentToken, Begun)
    BY <2>2, GoToOn, TopField DEF IsRun, Begun
  <2> QED
    BY <1>k, <2>1, <2>3 DEF Waiting
<1>5. ASSUME RunFailed \/ HandlerReturn \/ CancelReturn PROVE Goal
  <2>1. /\ AfterBegin /\ NoPublish /\ currentToken' = currentToken /\ aborted' = aborted
        /\ spoiled' = spoiled /\ status' = status /\ crossed' = crossed /\ promise' = promise
    BY <1>5 DEF AfterBegin, NoPublish, Returns, RunFailed, HandlerReturn, CancelReturn
  <2>2. stack # <<>> /\ ~IsRun(Top, currentToken, Begun)
    BY <1>5 DEF RunFailed, HandlerReturn, CancelReturn, In, IsRun, Begun
  <2>3. RunOn(stack, currentToken, Begun) => RunOn(stack', currentToken, Begun)
    BY <2>1, <2>2, BegunFrames
  <2> QED
    BY <1>k, <2>1, <2>3 DEF Waiting
<1>6. ASSUME ProducerReturn PROVE Goal
  <2>1. /\ AfterBegin /\ NoPublish /\ currentToken' = currentToken /\ aborted' = aborted
        /\ spoiled' = spoiled /\ status' = status /\ crossed' = crossed
        /\ promise' = [promise EXCEPT ![Top.run] = "pending"]
    BY <1>6 DEF AfterBegin, NoPublish, Returns, ProducerReturn
  <2>2. stack # <<>> /\ Top.fn = "run"
    BY <1>6 DEF ProducerReturn, In
  <2>3. Top.run \in Runs
    BY <2>2, TopCall
  <2>4. CASE Top.run = currentToken
    <3>1. currentToken \notin aborted => Waiting(currentToken)'
      BY <2>1, <2>3, <2>4, StackType DEF Waiting, Unsettled
    <3> QED
      BY <1>k, <2>1, <3>1 DEF Waiting
  <2>5. CASE Top.run # currentToken
    <3>1. RunOn(stack, currentToken, Begun) => RunOn(stack', currentToken, Begun)
      BY <2>1, <2>5, BegunFrames DEF IsRun
    <3>2. Waiting(currentToken) => Waiting(currentToken)'
      BY <2>1, <2>3, <2>5, StackType DEF Waiting
    <3> QED
      BY <1>k, <2>1, <3>1, <3>2
  <2> QED
    BY <2>4, <2>5
<1>7. ASSUME ProducerThrow PROVE Goal
  <2>1. Top.run # currentToken
    BY <1>7 DEF ProducerThrow, SetError
  <2>2. /\ AfterBegin /\ NoPublish /\ currentToken' = currentToken /\ aborted' = aborted
        /\ spoiled' = spoiled /\ status' = status /\ crossed' = crossed /\ promise' = promise
    BY <1>7, <2>1 DEF AfterBegin, NoPublish, ProducerThrow
  <2>3. RunOn(stack, currentToken, Begun) => RunOn(stack', currentToken, Begun)
    BY <2>1, <2>2, BegunFrames DEF IsRun
  <2> QED
    BY <1>k, <2>2, <2>3 DEF Waiting
<1>8. ASSUME Escape PROVE Goal
  <2>1. /\ AfterBegin /\ NoPublish /\ currentToken' = currentToken /\ aborted' = aborted
        /\ spoiled \subseteq spoiled' /\ status' = status /\ crossed' = crossed /\ promise' = promise
    BY <1>8 DEF AfterBegin, NoPublish, Returns, Escape
  <2>2. stack # <<>> /\ Pop
    BY <1>8 DEF Escape
  <2>3. RunOn(stack, currentToken, Begun) /\ ~RunOn(stack', currentToken, Begun)
          => IsRun(Top, currentToken, Begun)
    BY <2>2, PopOn
  <2>4. IsRun(Top, currentToken, Begun) => currentToken \in spoiled'
    BY <1>8 DEF Escape, IsRun, Begun
  <2> QED
    BY <1>k, <2>1, <2>3, <2>4 DEF Waiting
<1>9. ASSUME Settles PROVE Goal
  <2>1. PICK t \in Runs, o \in {"fulfilled", "rejected", "abortError"} : Settle(t, o)
    BY <1>9 DEF Settles
  <2>2. Waiting(currentToken) => Waiting(currentToken)'
    BY <2>1, StackType DEF Settle, Waiting, Unsettled
  <2> QED
    BY <1>9, <1>k, <2>1, <2>2 DEF Settle, AfterBegin, NoPublish
<1>10. ASSUME NEW t \in Runs, Fulfilled(t) \/ Rejected(t) \/ RejectedAbort(t) PROVE Goal
  <2>1. /\ AfterBegin /\ NoPublish /\ currentToken' = currentToken /\ aborted' = aborted
        /\ promise' = [promise EXCEPT ![t] = "handled"] /\ stack = <<>>
    BY <1>10 DEF Fulfilled, Rejected, RejectedAbort, AfterBegin, NoPublish, Handlers, Idle
  <2>2. crossed' = crossed /\ spoiled \subseteq spoiled'
    BY <1>10 DEF Fulfilled, Rejected, RejectedAbort, SetSuccess, SetError
  <2>3. ~Current(t) \/ RejectedAbort(t)
    BY <1>10 DEF Fulfilled, Rejected, SetSuccess, SetError
  <2>4. status = "pending"
    BY <1>10, <2>3 DEF Fulfilled, Rejected, RejectedAbort
  <2>5. t = currentToken => currentToken \in aborted \/ currentToken \in spoiled'
    BY <1>10, <2>3 DEF Current, RejectedAbort, Fulfilled, Rejected
  <2>6. Waiting(currentToken) => Waiting(currentToken)' \/ currentToken \in spoiled'
    BY <2>1, <2>5, StackType DEF Waiting
  <2> QED
    BY <1>k, <2>1, <2>2, <2>4, <2>6, IdleFacts
<1>11. ASSUME Cancel PROVE Goal
  <2> DEFINE f == Frame("cancel", currentController, "abort")
  <2>1. currentController \in Runs
    BY <1>11, StackType DEF Cancel, ToAbort, Runs, None
  <2>2. f \in Frames /\ stack' = Append(stack, f) /\ IsCancel(f)
    BY <1>11, <2>1, FrameType, TopField DEF Cancel, IsCancel
  <2> HIDE DEF f
  <2> QED
    BY <2>2, PushOn
<1>12. ASSUME CancelPublish PROVE Goal
  BY <1>12 DEF CancelPublish
<1>13. ASSUME UNCHANGED vars PROVE Goal
  <2>1. Waiting(currentToken) => Waiting(currentToken)'
    BY <1>13 DEF vars, Waiting
  <2> QED
    BY <1>13, <1>k, <2>1 DEF vars, AfterBegin, NoPublish
<1> HIDE DEF Goal
<1>14. Goal
  BY <1>1, <1>2, <1>3, <1>4, <1>5, <1>6, <1>7, <1>8, <1>9, <1>10, <1>11, <1>12, <1>13
     DEF Next, UserCalls, Handlers, Progress
<1> QED
  BY <1>14 DEF Goal

\* Once "cancelled" is shown, the newest run has been cancelled, or a newer one is
\* about to show "pending".
QuietInv ==
  status = "cancelled" /\ ~overtaken /\ ~crossed =>
    currentToken \in cancelled \/ RunOn(stack, currentToken, {"abort"})

LEMMA QuietInit == Init => QuietInv
BY DEF Init, QuietInv

LEMMA QuietNext == TypeOK /\ QuietInv /\ [Next]_vars => QuietInv'
<1> SUFFICES ASSUME TypeOK, QuietInv, [Next]_vars PROVE QuietInv'
  OBVIOUS
<1> USE DEF settings, signals, history
<1>k. ASSUME AfterAbort, currentToken' = currentToken, status' = status, cancelled \subseteq cancelled',
             overtaken' = overtaken, crossed' = crossed
      PROVE  QuietInv'
  <2>1. RunOn(stack', currentToken, {"abort"}) <=> RunOn(stack, currentToken, {"abort"})
    BY <1>k, AbortFramesKept
  <2> QED
    BY <1>k, <2>1 DEF QuietInv
<1>1. ASSUME RunBegin \/ RunInstall PROVE QuietInv'
  BY <1>1 DEF RunBegin, RunInstall, SetPending, QuietInv
<1>2. ASSUME RunAbort PROVE QuietInv'
  <2> DEFINE f == Frame("run", currentToken + 1, "abort")
  <2>1. currentToken + 1 \in Runs
    BY <1>2, StackType DEF RunAbort, Runs
  <2>2. f \in Frames /\ stack' = Append(stack, f) /\ currentToken' = currentToken + 1
    BY <1>2, <2>1, FrameType DEF RunAbort
  <2>3. IsRun(f, currentToken + 1, {"abort"})
    BY TopField DEF IsRun
  <2> HIDE DEF f
  <2> QED
    BY <2>2, <2>3, PushOn DEF QuietInv
<1>3. ASSUME RunProduce \/ Returns \/ Settles \/ Cancel PROVE QuietInv'
  BY <1>3, <1>k DEF RunProduce, Returns, Settles, Settle, Cancel, ProducerReturn, RunFailed,
     HandlerReturn, CancelReturn, Escape, AfterAbort
<1>4. ASSUME ProducerThrow PROVE QuietInv'
  <2>1. CASE Top.run = currentToken
    BY <1>4, <2>1 DEF ProducerThrow, SetError, QuietInv
  <2>2. CASE Top.run # currentToken
    BY <1>4, <1>k, <2>2 DEF ProducerThrow, AfterAbort
  <2> QED
    BY <2>1, <2>2
<1>5. ASSUME NEW t \in Runs, Fulfilled(t) \/ Rejected(t) \/ RejectedAbort(t) PROVE QuietInv'
  <2>1. CASE Current(t) /\ ~RejectedAbort(t)
    BY <1>5, <2>1 DEF Fulfilled, Rejected, SetSuccess, SetError, QuietInv
  <2>2. CASE ~Current(t) \/ RejectedAbort(t)
    BY <1>5, <1>k, <2>2 DEF Fulfilled, Rejected, RejectedAbort, AfterAbort, Handlers
  <2> QED
    BY <2>1, <2>2
<1>6. ASSUME CancelPublish PROVE QuietInv'
  <2>1. (overtaken' <=> (overtaken \/ currentToken \notin cancelled)) /\ currentToken' = currentToken
        /\ cancelled' = cancelled
    BY <1>6 DEF CancelPublish
  <2> QED
    BY <2>1 DEF QuietInv
<1>7. CASE UNCHANGED vars
  BY <1>7, <1>k DEF vars, AfterAbort
<1> QED
  BY <1>1, <1>2, <1>3, <1>4, <1>5, <1>6, <1>7 DEF Next, UserCalls, Handlers, Progress, Returns

\* Between calls, "pending" is shown for a run whose answer will be looked at.
THEOREM PromisePendingIsLive == Spec => []PendingIsLive
<1>1. Init => TypeOK /\ CallsInv /\ PublishedInv /\ LiveInv
  BY InitType, CallsInit, LiveInit
<1>2. TypeOK /\ CallsInv /\ PublishedInv /\ LiveInv /\ [Next]_vars
        => (TypeOK /\ CallsInv /\ PublishedInv /\ LiveInv)'
  BY NextType, CallsNext, LiveNext
<1>3. LiveInv => PendingIsLive
  BY IdleFacts DEF LiveInv, PendingIsLive, Idle
<1> QED
  BY <1>1, <1>2, <1>3, PTL DEF Spec

\* Between calls, "cancelled" is not shown while the newest run is going on.
THEOREM PromiseCancelledIsQuiet == Spec => []CancelledIsQuiet
<1>1. Init => TypeOK /\ ControllerInv /\ QuietInv
  BY InitType, ControllerInit, QuietInit
<1>2. TypeOK /\ ControllerInv /\ QuietInv /\ [Next]_vars => (TypeOK /\ ControllerInv /\ QuietInv)'
  BY NextType, ControllerNext, QuietNext
<1>3. ControllerInv /\ QuietInv => CancelledIsQuiet
  BY IdleFacts DEF ControllerInv, QuietInv, CancelledIsQuiet, Idle, Waiting
<1> QED
  BY <1>1, <1>2, <1>3, PTL DEF Spec

=============================================================================
