-------------------------- MODULE ApplicationProofs --------------------------
(***************************************************************************)
(* Proofs, for every value of the constants, about resources and the       *)
(* example applications, each by itself: a theorem is of the specification *)
(* of one part, and its section gives the invariant it rests on.           *)
(*                                                                         *)
(* The arguments have one thing in common.  What a part shows is right, or *)
(* the step that puts it right is already due: a flush is scheduled, a     *)
(* request is pending, an event is on the wire, a snapshot is held.        *)
(***************************************************************************)
EXTENDS JobRuntime, Applications, Induction, FiniteSetTheorems, SequenceTheorems, TLAPS

-----------------------------------------------------------------------------
(* JobRuntime: the state, and who has been told of it *)

\* The argument: once start() has reached the source's effect, the active run has the
\* present attempt; and whatever changes the state tells the listeners, who are all
\* the clients with an open stream.

ValueType  == [attempt : Nat, chunks : Nat]
SignalType == [status : {"pending", "streaming", "success", "error", "cancelled"},
               value : ValueType, stable : ValueType]
RunStatuses == {"idle", "pending", "running", "success", "error", "cancelled"}
StreamPhases == {"off", "open", "ending", "draining", "closed", "aborted"}
StateType  == [status : RunStatuses, value : ValueType, stable : ValueType, of : Nat]
TaskType   == ({"tick", "start"} \X (Nat \ {0})) \cup {<<"flush", None>>}

JobTypeInv ==
  /\ registered \in BOOLEAN /\ dirty \in BOOLEAN
  /\ attempt \in Nat \ {0}
  /\ source \in Seq(Nat) /\ activeRun \in {None} \cup (1 .. Len(source))
  /\ analyses \subseteq Nat \ {0}
  /\ signals \in SignalType
  /\ tasks \in Seq(TaskType)
  /\ listeners \subseteq Clients
  /\ phase \in [Clients -> StreamPhases] /\ half \in [Clients -> BOOLEAN]
  /\ got \in [Clients -> StateType] /\ writes \in [Clients -> Seq(StateType)]

\* The active run is one of the present attempt, unless start() is yet to be flushed.
ActiveRunInv ==
  /\ ~dirty /\ activeRun # None => source[activeRun] = attempt
  /\ ~registered => ~dirty /\ activeRun = None

AllEarned ==
  /\ Earned(State)
  /\ \A c \in Clients : Earned(got[c]) /\ \A i \in 1 .. Len(writes[c]) : Earned(writes[c][i])

\* The last state in a client's chain, or the last it was sent.
Told(c) == IF writes[c] = <<>> THEN got[c] ELSE writes[c][Len(writes[c])]

AllTold ==
  \A c \in Clients : phase[c] = "open" => /\ Told(c) = State
                                          /\ registered => c \in listeners

\* A done event still to be written follows the state at the head of the chain.
DoneFollows == \A c \in Clients : half[c] => writes[c] # <<>>

JobInv == JobTypeInv /\ ActiveRunInv /\ AllEarned /\ AllTold /\ DoneFollows

-----------------------------------------------------------------------------
(* A change of the state *)

\* The state is made of new, in attempt n, and the listeners are told.
Tells(new, n) ==
  /\ signals' = new /\ attempt' = n /\ Notify(new, n)
  /\ UNCHANGED <<phase, half, got>>

LEMMA AppendTold ==
  ASSUME NEW S, NEW s \in Seq(S), NEW x \in S
  PROVE  /\ Append(s, x) \in Seq(S) /\ Append(s, x) # <<>>
         /\ Len(Append(s, x)) = Len(s) + 1 /\ Append(s, x)[Len(s) + 1] = x
         /\ \A i \in 1 .. Len(s) : Append(s, x)[i] = s[i]
OBVIOUS

LEMMA TailTold ==
  ASSUME NEW S, NEW s \in Seq(S), s # <<>>
  PROVE  /\ Tail(s) \in Seq(S) /\ Len(Tail(s)) = Len(s) - 1 /\ Head(s) = s[1]
         /\ Len(s) \in Nat \ {0} /\ Head(s) \in S
         /\ \A i \in 1 .. Len(s) - 1 : Tail(s)[i] = s[i + 1]
         /\ Tail(s) = <<>> => Len(s) = 1
<1>1. Len(s) \in Nat \ {0}
  BY EmptySeq
<1>2. /\ Head(s) \in S /\ Tail(s) \in Seq(S) /\ Len(Tail(s)) = Len(s) - 1
      /\ \A i \in 1 .. Len(Tail(s)) : Tail(s)[i] = s[i + 1]
  BY HeadTailProperties
<1>3. Head(s) = s[1]
  OBVIOUS
<1>4. ASSUME Tail(s) = <<>>
      PROVE  Len(s) = 1
  <2>1. Len(s) - 1 = 0
    BY <1>2, <1>4, EmptySeq
  <2> QED
    BY <1>1, <2>1
<1> QED
  BY <1>1, <1>2, <1>3, <1>4

LEMMA ViewType ==
  ASSUME NEW new \in SignalType, NEW n \in Nat
  PROVE  View(new, n) \in StateType
BY DEF View, SignalType, StateType, JobStatus, RunStatuses

LEMMA TellsKeeps ==
  ASSUME JobInv, registered, NEW new \in SignalType, NEW n \in Nat, Tells(new, n),
         Earned(View(new, n))
  PROVE  /\ writes' \in [Clients -> Seq(StateType)] /\ AllEarned' /\ DoneFollows'
         /\ State' = View(new, n)
         /\ \A c \in Clients : phase'[c] = "open" => Told(c)' = State' /\ c \in listeners
<1> DEFINE view == View(new, n)
<1>1. view \in StateType
  BY ViewType
<1>2. State' = view
  BY DEF Tells, State, View
<1>3. ASSUME NEW c \in Clients
      PROVE  /\ writes'[c] \in Seq(StateType)
             /\ \A i \in 1 .. Len(writes'[c]) : Earned(writes'[c][i])
             /\ c \in listeners => writes'[c] # <<>> /\ writes'[c][Len(writes'[c])] = view
             /\ writes[c] # <<>> => writes'[c] # <<>>
  <2>1. writes[c] \in Seq(StateType) /\ \A i \in 1 .. Len(writes[c]) : Earned(writes[c][i])
    BY DEF JobInv, JobTypeInv, AllEarned
  <2>2. CASE c \in listeners
    <3>1. writes'[c] = Append(writes[c], view)
      BY <2>2 DEF Tells, Notify
    <3>2. /\ Append(writes[c], view) \in Seq(StateType) /\ Append(writes[c], view) # <<>>
          /\ Len(Append(writes[c], view)) = Len(writes[c]) + 1
          /\ Append(writes[c], view)[Len(writes[c]) + 1] = view
          /\ \A i \in 1 .. Len(writes[c]) : Append(writes[c], view)[i] = writes[c][i]
      BY <2>1, <1>1, AppendTold
    <3>3. Len(writes[c]) \in Nat
      BY <2>1
    <3>4. \A i \in 1 .. Len(writes[c]) + 1 : i \in 1 .. Len(writes[c]) \/ i = Len(writes[c]) + 1
      BY <3>3
    <3>5. \A i \in 1 .. Len(writes[c]) + 1 : Earned(Append(writes[c], view)[i])
      BY <3>2, <3>4, <2>1
    <3> QED
      BY <3>1, <3>2, <3>5
  <2>3. CASE c \notin listeners
    <3>1. writes'[c] = writes[c]
      BY <2>3 DEF Tells, Notify
    <3> QED
      BY <3>1, <2>1, <2>3
  <2> QED
    BY <2>2, <2>3
<1>4. writes' = [c \in Clients |-> writes'[c]]
  BY DEF Tells, Notify
<1>5. writes' \in [Clients -> Seq(StateType)]
  BY <1>3, <1>4
<1>6. AllEarned'
  <2>1. \A c \in Clients : Earned(got'[c])
    BY DEF JobInv, AllEarned, Tells
  <2> QED
    BY <1>2, <1>3, <2>1 DEF AllEarned
<1>7. \A c \in Clients : phase'[c] = "open" => Told(c)' = State' /\ c \in listeners
  BY <1>2, <1>3 DEF JobInv, AllTold, Told, Tells
<1>8. DoneFollows'
  BY <1>3 DEF JobInv, DoneFollows, Tells
<1> QED
  BY <1>2, <1>5, <1>6, <1>7, <1>8

-----------------------------------------------------------------------------
(* Runs *)

LEMMA FreshType ==
  ASSUME NEW stable \in ValueType, NEW n
  PROVE  Fresh(stable) \in SignalType /\ Earned(View(Fresh(stable), n))
BY DEF Fresh, SignalType, ValueType, Initial, Earned, View, JobStatus

\* A run of attempt n is begun, and n is the present attempt.
LEMMA BeginKeeps ==
  ASSUME JobInv, registered, NEW n \in Nat \ {0}, NEW stable \in ValueType, attempt' = n,
         source' = Append(source, n), activeRun' = Len(source) + 1, dirty' = FALSE,
         signals' = Fresh(stable), Notify(Fresh(stable), n),
         NEW rest \in Seq(TaskType), tasks' = Append(rest, <<"tick", Len(source) + 1>>),
         UNCHANGED <<registered, listeners, phase, half, got>>, analyses' \subseteq Nat \ {0}
  PROVE  JobInv'
<1>1. Fresh(stable) \in SignalType /\ Earned(View(Fresh(stable), n))
  BY FreshType
<1>2. /\ writes' \in [Clients -> Seq(StateType)] /\ AllEarned' /\ DoneFollows'
      /\ \A c \in Clients : phase'[c] = "open" => Told(c)' = State' /\ c \in listeners
  BY <1>1, TellsKeeps DEF Tells
<1>3. /\ source' \in Seq(Nat) /\ Len(source') = Len(source) + 1 /\ source'[Len(source) + 1] = n
  BY AppendTold DEF JobInv, JobTypeInv
<1>4. Len(source) \in Nat
  BY DEF JobInv, JobTypeInv
<1>5. tasks' \in Seq(TaskType)
  <2>1. <<"tick", Len(source) + 1>> \in TaskType
    BY <1>4 DEF TaskType
  <2> QED
    BY <2>1, AppendTold
<1>6. JobTypeInv'
  <2>1. activeRun' \in {None} \cup (1 .. Len(source'))
    BY <1>3, <1>4
  <2>2. source' \in Seq(Nat) /\ signals' \in SignalType /\ attempt' \in Nat \ {0}
    BY <1>1, <1>3
  <2> QED
    BY <1>2, <1>5, <2>1, <2>2 DEF JobInv, JobTypeInv
<1>7. ActiveRunInv'
  BY <1>3 DEF ActiveRunInv
<1> QED
  BY <1>2, <1>6, <1>7 DEF JobInv, AllTold

\* The active run ends, or goes on streaming.
LEMMA JobPublishKeeps ==
  ASSUME JobInv, registered, activeRun # None, NEW new \in SignalType, NEW ended,
         NEW rest \in Seq(TaskType), Publish(new, ended, rest), Earned(View(new, attempt)),
         UNCHANGED <<registered, attempt, listeners, clients>>, analyses' \subseteq Nat \ {0}
  PROVE  JobInv'
<1>1. UNCHANGED <<phase, half, got>>
  BY DEF clients
<1>2. attempt \in Nat \ {0}
  BY DEF JobInv, JobTypeInv
<1>3. CASE dirty
  <2>1. new.stable \in ValueType
    BY DEF SignalType
  <2> QED
    BY <1>1, <1>2, <1>3, <2>1, BeginKeeps DEF Publish
<1>4. CASE ~dirty
  <2>1. /\ activeRun' \in {None, activeRun} /\ signals' = new /\ Notify(new, attempt)
        /\ tasks' = rest /\ UNCHANGED <<source, dirty>>
    BY <1>4 DEF Publish
  <2>2. /\ writes' \in [Clients -> Seq(StateType)] /\ AllEarned' /\ DoneFollows'
        /\ \A c \in Clients : phase'[c] = "open" => Told(c)' = State' /\ c \in listeners
    BY <1>1, <1>2, <2>1, TellsKeeps DEF Tells
  <2>3. JobTypeInv'
    BY <1>1, <2>1, <2>2 DEF JobInv, JobTypeInv
  <2>4. ActiveRunInv'
    BY <2>1, <1>4 DEF JobInv, ActiveRunInv
  <2> QED
    BY <2>2, <2>3, <2>4 DEF JobInv, AllTold
<1> QED
  BY <1>3, <1>4

\* Nothing the clients are told of changes.
LEMMA JobQuietKeeps ==
  ASSUME JobInv, UNCHANGED <<registered, attempt, dirty, resource, listeners, clients, writes>>,
         tasks' \in Seq(TaskType), analyses' \subseteq Nat \ {0}
  PROVE  JobInv'
<1> USE DEF JobInv, resource, clients
<1>1. JobTypeInv'
  BY DEF JobTypeInv
<1>2. ActiveRunInv'
  BY DEF ActiveRunInv
<1>3. AllEarned'
  BY DEF AllEarned, State
<1>4. AllTold' /\ DoneFollows'
  BY DEF AllTold, DoneFollows, Told, State
<1> QED
  BY <1>1, <1>2, <1>3, <1>4

LEMMA TaskFacts ==
  ASSUME JobInv, tasks # <<>>
  PROVE  /\ Rest \in Seq(TaskType) /\ Head(tasks) \in TaskType
BY TailTold DEF JobInv, JobTypeInv, Rest

-----------------------------------------------------------------------------
(* The actions of the job *)

LEMMA MicrotaskKeeps ==
  ASSUME JobInv, Microtask
  PROVE  JobInv'
<1>1. tasks # <<>> /\ Rest \in Seq(TaskType) /\ Head(tasks) \in TaskType
  BY TaskFacts DEF Microtask, Tick, Start, Flush
<1>2. analyses \subseteq Nat \ {0} /\ attempt \in Nat \ {0} /\ signals \in SignalType
  BY DEF JobInv, JobTypeInv
<1>3. CASE Tick
  <2>1. <<"start", Head(tasks)[2]>> \in TaskType
    BY <1>1, <1>3 DEF Tick, TaskType
  <2>2. tasks' \in Seq(TaskType)
    BY <1>1, <1>3, <2>1, AppendTold DEF Tick
  <2> QED
    BY <1>2, <1>3, <2>2, JobQuietKeeps DEF Tick
<1>4. CASE Start
  <2> DEFINE r == Head(tasks)[2]
  <2>1. r \in Nat \ {0}
    BY <1>1, <1>4 DEF Start, TaskType
  <2>2. CASE r = activeRun /\ source[r] = 0
    <3> DEFINE new == [status |-> "success", value |-> Initial, stable |-> Initial]
    <3>1. activeRun # None /\ registered
      BY <2>1, <2>2 DEF JobInv, JobTypeInv, ActiveRunInv, None
    <3>2. dirty
      BY <1>2, <2>2, <3>1 DEF JobInv, ActiveRunInv
    <3>3. Publish(new, {}, Rest) /\ UNCHANGED <<registered, attempt, listeners, clients, analyses>>
      BY <1>4, <2>2 DEF Start
    <3>4. new.stable \in ValueType
      BY <1>2 DEF SignalType, ValueType, Initial
    <3> QED
      BY <1>1, <1>2, <3>1, <3>2, <3>3, <3>4, BeginKeeps DEF Publish, clients
  <2>3. CASE ~(r = activeRun /\ source[r] = 0)
    <3>1. /\ analyses' = IF r = activeRun THEN analyses \cup {r} ELSE analyses
          /\ tasks' = Rest
          /\ UNCHANGED <<registered, attempt, dirty, resource, listeners, clients, writes>>
      BY <1>4, <2>3 DEF Start
    <3>2. analyses' \subseteq Nat \ {0}
      BY <1>2, <2>1, <3>1
    <3> QED
      BY <1>1, <3>1, <3>2, JobQuietKeeps
  <2> QED
    BY <2>2, <2>3
<1>5. CASE Flush
  <2>1. CASE dirty
    <3>1. registered
      BY <2>1 DEF JobInv, ActiveRunInv, JobTypeInv
    <3>2. signals.stable \in ValueType
      BY <1>2 DEF SignalType
    <3> QED
      BY <1>1, <1>2, <1>5, <2>1, <3>1, <3>2, BeginKeeps DEF Flush, BeginRun, clients
  <2>2. CASE ~dirty
    BY <1>1, <1>2, <1>5, <2>2, JobQuietKeeps DEF Flush
  <2> QED
    BY <2>1, <2>2
<1> QED
  BY <1>3, <1>4, <1>5 DEF Microtask

LEMMA AnalysisKeeps ==
  ASSUME JobInv, NEW r \in Runs, Abandon(r) \/ Emit(r) \/ Done(r) \/ Fail(r)
  PROVE  JobInv'
<1>1. /\ r \in analyses /\ analyses \subseteq Nat \ {0} /\ tasks \in Seq(TaskType)
      /\ signals \in SignalType /\ attempt \in Nat \ {0} /\ source \in Seq(Nat)
  BY DEF JobInv, JobTypeInv, Abandon, Emit, Reduced, Done, Fail
<1>2. CASE Abandon(r)
  BY <1>1, <1>2, JobQuietKeeps DEF Abandon
<1>3. ASSUME r = activeRun
      PROVE  activeRun # None /\ registered /\ source[r] \in Nat /\ (~dirty => source[r] = attempt)
  BY <1>1, <1>3 DEF JobInv, JobTypeInv, ActiveRunInv, None
<1>4. CASE Emit(r) /\ ~dirty
  <2> DEFINE new == [status |-> "streaming", stable |-> signals.stable,
                     value |-> [attempt |-> source[r], chunks |-> signals.value.chunks + 1]]
  <2>1. source[r] = attempt /\ activeRun # None /\ registered
    BY <1>3, <1>4 DEF Emit, Reduced
  <2>2. new \in SignalType
    BY <1>1, <1>3, <1>4, <2>1 DEF SignalType, ValueType
  <2>3. Earned(View(new, attempt))
    BY <1>1, <2>1 DEF Earned, View, JobStatus, SignalType
  <2>4. Publish(new, {}, tasks) /\ UNCHANGED <<registered, attempt, analyses, listeners, clients>>
    BY <1>4 DEF Emit, Reduced
  <2> QED
    BY <1>1, <2>1, <2>2, <2>3, <2>4, JobPublishKeeps
<1>5. CASE Done(r) /\ ~dirty
  <2> DEFINE new == [status |-> "success", value |-> Final(source[r]), stable |-> Final(source[r])]
  <2>1. source[r] = attempt /\ activeRun # None /\ registered
    BY <1>3, <1>5 DEF Done
  <2>2. new \in SignalType
    BY <1>1, <2>1, BoundsAssumption DEF SignalType, ValueType, Final
  <2>3. Earned(View(new, attempt))
    BY <2>1 DEF Earned, View, JobStatus
  <2>4. /\ Publish(new, {}, tasks) /\ UNCHANGED <<registered, attempt, listeners, clients>>
        /\ analyses' \subseteq Nat \ {0}
    BY <1>1, <1>5 DEF Done
  <2> QED
    BY <1>1, <2>1, <2>2, <2>3, <2>4, JobPublishKeeps
<1>6. CASE Fail(r)
  <2> DEFINE new == [signals EXCEPT !.status = "error"]
  <2>1. activeRun # None /\ registered
    BY <1>3, <1>6 DEF Fail
  <2>2. new \in SignalType
    BY <1>1 DEF SignalType
  <2>3. Earned(View(new, attempt))
    BY <1>1 DEF Earned, View, JobStatus, SignalType
  <2>4. /\ Publish(new, {}, tasks) /\ UNCHANGED <<registered, attempt, listeners, clients>>
        /\ analyses' \subseteq Nat \ {0}
    BY <1>1, <1>6 DEF Fail
  <2> QED
    BY <1>1, <2>1, <2>2, <2>3, <2>4, JobPublishKeeps
<1>7. CASE (Emit(r) \/ Done(r)) /\ dirty
  <2>1. activeRun # None /\ registered /\ source[r] \in Nat
    BY <1>3, <1>7 DEF Emit, Reduced, Done
  <2>2. PICK new : Publish(new, {}, tasks) /\ new.stable \in ValueType
    <3>1. CASE Emit(r)
      <4> DEFINE new == [status |-> "streaming", stable |-> signals.stable,
                     value |-> [attempt |-> source[r], chunks |-> signals.value.chunks + 1]]
      <4>1. new.stable \in ValueType
        BY <1>1 DEF SignalType
      <4> QED
        BY <3>1, <4>1 DEF Emit, Reduced
    <3>2. CASE Done(r)
      <4> DEFINE new == [status |-> "success", value |-> Final(source[r]), stable |-> Final(source[r])]
      <4>1. new.stable \in ValueType
        BY <2>1, BoundsAssumption DEF ValueType, Final
      <4> QED
        BY <3>2, <4>1 DEF Done
    <3> QED
      BY <1>7, <3>1, <3>2
  <2>3. /\ UNCHANGED <<registered, attempt, listeners, clients>> /\ analyses' \subseteq Nat \ {0}
    BY <1>1, <1>7 DEF Emit, Reduced, Done
  <2> QED
    BY <1>1, <1>7, <2>1, <2>2, <2>3, BeginKeeps DEF Publish, clients
<1> QED
  BY <1>2, <1>4, <1>5, <1>6, <1>7

LEMMA RequestKeeps ==
  ASSUME JobInv, PostCancel \/ PostRetry \/ Delete
  PROVE  JobInv'
<1>1. /\ tasks \in Seq(TaskType) /\ signals \in SignalType /\ attempt \in Nat \ {0}
      /\ analyses \subseteq Nat \ {0} /\ registered
  BY DEF JobInv, JobTypeInv, PostCancel, PostRetry, Retry, Delete, Dispose
<1> DEFINE new == [signals EXCEPT !.status = "cancelled"]
<1>2. new \in SignalType /\ Earned(View(new, attempt)) /\ new.stable \in ValueType
  BY <1>1 DEF SignalType, Earned, View, JobStatus
<1>3. CASE PostCancel
  <2>1. Publish(new, {activeRun}, tasks)
    BY <1>3 DEF PostCancel, CancelRun
  <2>2. UNCHANGED <<registered, attempt, listeners, clients, analyses>>
    BY <1>3 DEF PostCancel
  <2>3. CASE dirty
    BY <1>1, <1>2, <2>1, <2>2, <2>3, BeginKeeps DEF Publish, clients
  <2>4. CASE ~dirty
    <3>1. /\ signals' = new /\ Notify(new, attempt) /\ activeRun' = None /\ tasks' = tasks
          /\ UNCHANGED <<source, dirty>>
      BY <2>1, <2>4 DEF Publish
    <3>2. Tells(new, attempt)
      BY <2>2, <3>1 DEF Tells, clients
    <3>3. /\ writes' \in [Clients -> Seq(StateType)] /\ AllEarned' /\ DoneFollows'
          /\ \A c \in Clients : phase'[c] = "open" => Told(c)' = State' /\ c \in listeners
      BY <1>1, <1>2, <3>2, TellsKeeps
    <3>4. JobTypeInv' /\ ActiveRunInv'
      BY <1>1, <1>2, <2>2, <2>4, <3>1, <3>3 DEF JobInv, JobTypeInv, ActiveRunInv, clients
    <3> QED
      BY <2>2, <3>3, <3>4 DEF JobInv, AllTold
  <2> QED
    BY <2>3, <2>4
<1>4. CASE PostRetry
  <2>1. attempt + 1 \in Nat \ {0} /\ signals.stable \in ValueType
    BY <1>1 DEF SignalType
  <2> QED
    BY <1>1, <1>4, <2>1, BeginKeeps DEF PostRetry, Retry, BeginRun, clients
<1>5. CASE Delete /\ activeRun # None
  <2>1. Tells(new, attempt)
    BY <1>5 DEF Delete, Dispose, Tells, clients
  <2>2. /\ writes' \in [Clients -> Seq(StateType)] /\ AllEarned' /\ DoneFollows'
        /\ \A c \in Clients : phase'[c] = "open" => Told(c)' = State'
    BY <1>1, <1>2, <2>1, TellsKeeps
  <2>3. /\ registered' = FALSE /\ dirty' = FALSE /\ activeRun' = None /\ listeners' = {}
        /\ signals' = new /\ UNCHANGED <<attempt, analyses, clients, source, tasks>>
    BY <1>5 DEF Delete, Dispose
  <2>4. JobTypeInv' /\ ActiveRunInv'
    BY <1>1, <1>2, <2>2, <2>3 DEF JobInv, JobTypeInv, ActiveRunInv, clients
  <2> QED
    BY <2>2, <2>3, <2>4 DEF JobInv, AllTold
<1>6. CASE Delete /\ activeRun = None
  <2>1. /\ registered' = FALSE /\ dirty' = FALSE /\ listeners' = {}
        /\ UNCHANGED <<attempt, analyses, clients, resource, tasks, writes>>
    BY <1>6 DEF Delete, Dispose
  <2> USE DEF JobInv, resource, clients
  <2>2. JobTypeInv' /\ ActiveRunInv'
    BY <1>6, <2>1 DEF JobTypeInv, ActiveRunInv
  <2>3. AllEarned'
    BY <2>1 DEF AllEarned, State
  <2>4. AllTold' /\ DoneFollows'
    BY <2>1 DEF AllTold, DoneFollows, Told, State
  <2> QED
    BY <2>2, <2>3, <2>4
<1> QED
  BY <1>3, <1>4, <1>5, <1>6

-----------------------------------------------------------------------------
(* The actions of a client *)

\* A step of one client, as seen by its stream.
LEMMA ClientKeeps ==
  ASSUME JobInv, NEW c \in Clients, UNCHANGED Unwritten,
         NEW p \in StreamPhases, NEW h \in BOOLEAN, NEW g \in StateType, NEW w \in Seq(StateType),
         phase' = [phase EXCEPT ![c] = p], half' = [half EXCEPT ![c] = h],
         got' = [got EXCEPT ![c] = g], writes' = [writes EXCEPT ![c] = w],
         listeners' \in {listeners, listeners \cup {c}, listeners \ {c}},
         Earned(g), \A i \in 1 .. Len(w) : Earned(w[i]), h => w # <<>>,
         p = "open" => /\ (IF w = <<>> THEN g ELSE w[Len(w)]) = State
                       /\ registered => c \in listeners'
  PROVE  JobInv'
<1> USE DEF JobInv, Unwritten, resource
<1>1. JobTypeInv'
  BY DEF JobTypeInv
<1>2. ActiveRunInv'
  BY DEF ActiveRunInv
<1>3. State' = State
  BY DEF State
<1>4. ASSUME NEW d \in Clients
      PROVE  /\ Earned(got'[d]) /\ \A i \in 1 .. Len(writes'[d]) : Earned(writes'[d][i])
             /\ phase'[d] = "open" => Told(d)' = State /\ (registered => d \in listeners')
             /\ half'[d] => writes'[d] # <<>>
  <2>1. /\ DOMAIN phase = Clients /\ DOMAIN got = Clients
        /\ DOMAIN writes = Clients /\ DOMAIN half = Clients
    BY DEF JobTypeInv
  <2>2. CASE d = c
    <3>1. phase'[d] = p /\ got'[d] = g /\ writes'[d] = w /\ half'[d] = h
      BY <2>1, <2>2
    <3> QED
      BY <2>2, <3>1 DEF Told
  <2>3. CASE d # c
    <3>1. /\ phase'[d] = phase[d] /\ got'[d] = got[d]
          /\ writes'[d] = writes[d] /\ half'[d] = half[d]
      BY <2>1, <2>3
    <3>2. d \in listeners => d \in listeners'
      BY <2>3
    <3> QED
      BY <3>1, <3>2 DEF AllEarned, AllTold, DoneFollows, Told
  <2> QED
    BY <2>2, <2>3
<1>5. AllEarned'
  BY <1>3, <1>4 DEF AllEarned
<1>6. AllTold' /\ DoneFollows'
  BY <1>3, <1>4 DEF AllTold, DoneFollows
<1> QED
  BY <1>1, <1>2, <1>5, <1>6

LEMMA ClientFacts ==
  ASSUME JobInv, NEW c \in Clients
  PROVE  /\ phase[c] \in StreamPhases /\ half[c] \in BOOLEAN /\ got[c] \in StateType
         /\ writes[c] \in Seq(StateType)
         /\ phase = [phase EXCEPT ![c] = phase[c]] /\ half = [half EXCEPT ![c] = half[c]]
         /\ got = [got EXCEPT ![c] = got[c]] /\ writes = [writes EXCEPT ![c] = writes[c]]
         /\ Earned(got[c]) /\ \A i \in 1 .. Len(writes[c]) : Earned(writes[c][i])
         /\ State \in StateType /\ Earned(State)
         /\ phase[c] = "open" => Told(c) = State /\ (registered => c \in listeners)
         /\ half[c] => writes[c] # <<>>
<1>1. State \in StateType
  BY ViewType DEF JobInv, JobTypeInv, State
<1> QED
  BY <1>1 DEF JobInv, JobTypeInv, AllEarned, AllTold, DoneFollows

LEMMA StreamKeeps ==
  ASSUME JobInv, NEW c \in Clients,
         Open(c) \/ Abort(c) \/ WriteState(c) \/ WriteDone(c) \/ Unsubscribe(c) \/ Return(c)
  PROVE  JobInv'
<1> DEFINE chain == writes[c]
<1>1. /\ phase[c] \in StreamPhases /\ half[c] \in BOOLEAN /\ got[c] \in StateType
      /\ chain \in Seq(StateType)
      /\ phase = [phase EXCEPT ![c] = phase[c]] /\ half = [half EXCEPT ![c] = half[c]]
      /\ got = [got EXCEPT ![c] = got[c]] /\ writes = [writes EXCEPT ![c] = chain]
      /\ Earned(got[c]) /\ \A i \in 1 .. Len(chain) : Earned(chain[i])
      /\ State \in StateType /\ Earned(State)
      /\ phase[c] = "open" => Told(c) = State /\ (registered => c \in listeners)
      /\ half[c] => chain # <<>>
  BY ClientFacts
<1>2. chain # <<>> => /\ Tail(chain) \in Seq(StateType) /\ Head(chain) \in StateType
                      /\ Earned(Head(chain))
                      /\ \A i \in 1 .. Len(Tail(chain)) : Earned(Tail(chain)[i])
  <2> SUFFICES ASSUME chain # <<>>
               PROVE  /\ Tail(chain) \in Seq(StateType) /\ Head(chain) \in StateType
                      /\ Earned(Head(chain))
                      /\ \A i \in 1 .. Len(Tail(chain)) : Earned(Tail(chain)[i])
    OBVIOUS
  <2>1. /\ Tail(chain) \in Seq(StateType) /\ Len(Tail(chain)) = Len(chain) - 1
        /\ Head(chain) = chain[1] /\ Len(chain) \in Nat \ {0} /\ Head(chain) \in StateType
        /\ \A i \in 1 .. Len(chain) - 1 : Tail(chain)[i] = chain[i + 1]
    BY <1>1, TailTold
  <2>2. \A i \in 1 .. Len(chain) - 1 : i + 1 \in 1 .. Len(chain)
    BY <2>1
  <2> QED
    BY <1>1, <2>1, <2>2
<1>3. chain # <<>> => (IF Tail(chain) = <<>> THEN Head(chain) ELSE Tail(chain)[Len(Tail(chain))])
                        = chain[Len(chain)]
  <2> SUFFICES ASSUME chain # <<>>
               PROVE  (IF Tail(chain) = <<>> THEN Head(chain) ELSE Tail(chain)[Len(Tail(chain))])
                        = chain[Len(chain)]
    OBVIOUS
  <2>1. /\ Tail(chain) \in Seq(StateType) /\ Len(Tail(chain)) = Len(chain) - 1
        /\ Head(chain) = chain[1] /\ Len(chain) \in Nat \ {0}
        /\ \A i \in 1 .. Len(chain) - 1 : Tail(chain)[i] = chain[i + 1]
        /\ Tail(chain) = <<>> => Len(chain) = 1
    BY <1>1, TailTold
  <2>2. Tail(chain) # <<>> => Len(Tail(chain)) \in 1 .. Len(chain) - 1
    BY <2>1, EmptySeq
  <2> QED
    BY <2>1, <2>2
<1>4. CASE Open(c)
  <2>1. <<State>> \in Seq(StateType) /\ Len(<<State>>) = 1 /\ <<State>> # <<>> /\ <<State>>[1] = State
    BY <1>1
  <2>2. UNCHANGED Unwritten
    BY <1>4 DEF Open, Subscribe, Unwritten
  <2>3. "open" \in StreamPhases
    BY DEF StreamPhases
  <2>4. /\ phase' = [phase EXCEPT ![c] = "open"] /\ half' = [half EXCEPT ![c] = half[c]]
        /\ got' = [got EXCEPT ![c] = got[c]] /\ writes' = [writes EXCEPT ![c] = <<State>>]
        /\ listeners' = listeners \cup {c}
    BY <1>1, <1>4 DEF Open, Subscribe
  <2>5. \A i \in 1 .. Len(<<State>>) : Earned(<<State>>[i])
    BY <1>1, <2>1
  <2> HIDE DEF chain
  <2> QED
    BY <1>1, <2>1, <2>2, <2>3, <2>4, <2>5, ClientKeeps
<1>5. CASE Abort(c)
  <2>1. <<>> \in Seq(StateType) /\ Len(<<>>) = 0 /\ "aborted" \in StreamPhases
    BY EmptySeq DEF StreamPhases
  <2>2. /\ phase' = [phase EXCEPT ![c] = "aborted"] /\ half' = [half EXCEPT ![c] = FALSE]
        /\ got' = [got EXCEPT ![c] = got[c]] /\ writes' = [writes EXCEPT ![c] = <<>>]
        /\ listeners' = listeners \ {c} /\ UNCHANGED Unwritten
    BY <1>1, <1>5 DEF Abort
  <2>3. \A i \in 1 .. Len(<<>>) : Earned(<<>>[i])
    BY <2>1
  <2> QED
    BY <1>1, <2>1, <2>2, <2>3, ClientKeeps
<1>6. CASE WriteState(c) /\ IsTerminal(Head(chain))
  <2>1. /\ chain # <<>> /\ got' = [got EXCEPT ![c] = Head(chain)]
        /\ half' = [half EXCEPT ![c] = TRUE] /\ UNCHANGED <<Unwritten, listeners, phase, writes>>
    BY <1>6 DEF WriteState
  <2>2. /\ phase' = [phase EXCEPT ![c] = phase[c]] /\ writes' = [writes EXCEPT ![c] = chain]
        /\ UNCHANGED Unwritten /\ listeners' = listeners
    BY <1>1, <2>1
  <2>3. phase[c] = "open" => (IF chain = <<>> THEN Head(chain) ELSE chain[Len(chain)]) = State
    BY <1>1, <2>1 DEF Told
  <2>4. Head(chain) \in StateType /\ Earned(Head(chain)) /\ TRUE \in BOOLEAN
    BY <1>2, <2>1
  <2> QED
    BY <1>1, <2>1, <2>2, <2>3, <2>4, ClientKeeps
<1>7. CASE WriteState(c) /\ ~IsTerminal(Head(chain))
  <2>1. /\ chain # <<>> /\ got' = [got EXCEPT ![c] = Head(chain)]
        /\ writes' = [writes EXCEPT ![c] = Tail(chain)]
        /\ UNCHANGED <<Unwritten, listeners, phase, half>> /\ ~half[c]
    BY <1>7 DEF WriteState
  <2>2. /\ phase' = [phase EXCEPT ![c] = phase[c]] /\ half' = [half EXCEPT ![c] = half[c]]
        /\ UNCHANGED Unwritten /\ listeners' = listeners
    BY <1>1, <2>1
  <2>3. phase[c] = "open"
          => (IF Tail(chain) = <<>> THEN Head(chain) ELSE Tail(chain)[Len(Tail(chain))]) = State
    BY <1>1, <1>3, <2>1 DEF Told
  <2>4. /\ Tail(chain) \in Seq(StateType) /\ Head(chain) \in StateType
        /\ Earned(Head(chain))
        /\ \A i \in 1 .. Len(Tail(chain)) : Earned(Tail(chain)[i])
    BY <1>2, <2>1
  <2>5. half[c] => Tail(chain) # <<>>
    BY <2>1
  <2> HIDE DEF chain
  <2> QED
    BY <1>1, <2>1, <2>2, <2>3, <2>4, <2>5, ClientKeeps
<1>8. CASE WriteDone(c)
  <2> DEFINE p == IF phase[c] = "open" THEN "ending" ELSE phase[c]
  <2>1. /\ half' = [half EXCEPT ![c] = FALSE] /\ writes' = [writes EXCEPT ![c] = Tail(chain)]
        /\ phase' = [phase EXCEPT ![c] = p] /\ UNCHANGED <<Unwritten, listeners, got>>
    BY <1>8 DEF WriteDone
  <2>2. p \in StreamPhases /\ p # "open"
    BY <1>1 DEF StreamPhases
  <2>3. chain # <<>>
    BY <1>1, <1>8 DEF WriteDone
  <2> QED
    BY <1>1, <1>2, <2>1, <2>2, <2>3, ClientKeeps
<1>9. CASE Unsubscribe(c)
  <2>1. "draining" \in StreamPhases
    BY DEF StreamPhases
  <2> QED
    BY <1>1, <1>9, <2>1, ClientKeeps DEF Unsubscribe
<1>10. CASE Return(c)
  <2>1. "closed" \in StreamPhases
    BY DEF StreamPhases
  <2> QED
    BY <1>1, <1>10, <2>1, ClientKeeps DEF Return
<1> QED
  BY <1>4, <1>5, <1>6, <1>7, <1>8, <1>9, <1>10

-----------------------------------------------------------------------------
LEMMA JobInvInit == Init => JobInv
<1> SUFFICES ASSUME Init
             PROVE  JobInv
  OBVIOUS
<1>1. Initial \in ValueType /\ Nobody \in StateType /\ Earned(Nobody)
  BY DEF ValueType, Initial, Nobody, StateType, RunStatuses, Earned
<1>2. <<"tick", 1>> \in TaskType /\ <<"flush", None>> \in TaskType
  BY DEF TaskType
<1>3. tasks \in Seq(TaskType)
  BY <1>2 DEF Init, Created
<1>4. <<0>> \in Seq(Nat) /\ Len(<<0>>) = 1
  OBVIOUS
<1>5. <<>> \in Seq(StateType) /\ Len(<<>>) = 0
  BY EmptySeq
<1>6. JobTypeInv
  BY <1>1, <1>3, <1>4, <1>5 DEF Init, Created, JobTypeInv, SignalType, StreamPhases
<1>7. ActiveRunInv /\ AllTold /\ DoneFollows
  BY DEF Init, Created, ActiveRunInv, AllTold, DoneFollows
<1>8. AllEarned
  BY <1>1, <1>5 DEF Init, Created, AllEarned, State, View, Earned, JobStatus
<1> QED
  BY <1>6, <1>7, <1>8 DEF JobInv

LEMMA JobInvNext == JobInv /\ [Next]_vars => JobInv'
<1> SUFFICES ASSUME JobInv, [Next]_vars
             PROVE  JobInv'
  OBVIOUS
<1>1. CASE Tick \/ Start \/ Flush
  BY <1>1, MicrotaskKeeps DEF Microtask
<1>2. CASE \E r \in Runs : Abandon(r) \/ Emit(r) \/ Done(r) \/ Fail(r)
  BY <1>2, AnalysisKeeps
<1>3. CASE PostCancel \/ PostRetry \/ Delete
  BY <1>3, RequestKeeps
<1>4. CASE \E c \in Clients : Open(c) \/ Abort(c) \/ WriteState(c) \/ WriteDone(c)
                              \/ Unsubscribe(c) \/ Return(c)
  BY <1>4, StreamKeeps
<1>5. CASE UNCHANGED vars
  BY <1>5, JobQuietKeeps DEF vars, JobInv, JobTypeInv
<1> QED
  BY <1>1, <1>2, <1>3, <1>4, <1>5 DEF Next

\* In every reachable state: no state that the job has, or a client is sent or is
\* about to be, claims a success that was not reached or shows an earlier attempt's
\* chunks (createJobRuntime.ts:73-98, createStreamResource.ts:112-118).
THEOREM StatesAreEarnedAlways == Spec => []StatesAreEarned
<1>1. JobInv => StatesAreEarned
  <2> SUFFICES ASSUME JobInv
               PROVE  StatesAreEarned
    OBVIOUS
  <2>1. \A c \in Clients : DOMAIN writes[c] = 1 .. Len(writes[c])
    BY DEF JobInv, JobTypeInv
  <2> QED
    BY <2>1 DEF JobInv, AllEarned, StatesAreEarned
<1> QED
  BY <1>1, JobInvInit, JobInvNext, PTL DEF Spec

\* In every reachable state: a client whose stream is open, and has been written all
\* there is, was last sent the state of the job (routes/jobs.ts:80-110).
THEOREM LastEventIsCurrentAlways == Spec => []LastEventIsCurrent
<1>1. JobInv => LastEventIsCurrent
  BY DEF JobInv, AllTold, Told, LastEventIsCurrent
<1> QED
  BY <1>1, JobInvInit, JobInvNext, PTL DEF Spec

-----------------------------------------------------------------------------
(* CommerceGraph: a checkout is for what is shown *)

\* A cart has a quantity of each item, within the limit.
Carts == [Items -> 0 .. MaxQuantity]
ShopRequests == [account : Accounts, region : Regions, cart : Carts]

ShopTypeOK ==
  /\ account \in Accounts /\ region \in Regions /\ cart \in Carts
  /\ cartOwner \in Accounts /\ scheduled \in BOOLEAN
  /\ pricing \in [input : ShopRequests, pending : BOOLEAN, value : ShopRequests \cup {Nothing}]
  /\ inventory \in [input : ShopRequests, pending : BOOLEAN, value : ShopRequests \cup {Nothing}]

\* Selecting an account empties the cart.
CartIsOwners == cart # Shop!EmptyCart => cartOwner = account

\* What is not pending was answered for what it was asked, and the flush asks anew.
AskedForThisCart(quote) ==
  /\ ~scheduled => quote.input = Shop!Request
  /\ ~quote.pending => quote.value = quote.input

ShopInv == ShopTypeOK /\ CartIsOwners /\ AskedForThisCart(pricing) /\ AskedForThisCart(inventory)

LEMMA ShopEmptyCart == Shop!EmptyCart \in Carts
  BY CommerceAssumption DEF Shop!EmptyCart, Carts

LEMMA ShopInitInv == Shop!Init => ShopInv
  <1> SUFFICES ASSUME Shop!Init PROVE ShopInv
    OBVIOUS
  <1> USE ShopEmptyCart, CommerceAssumption DEF Shop!Init
  <1>1. Shop!Request \in ShopRequests
    BY DEF Shop!Request, ShopRequests
  <1>2. ShopTypeOK
    BY <1>1 DEF ShopTypeOK, Shop!Created
  <1>3. CartIsOwners /\ AskedForThisCart(pricing) /\ AskedForThisCart(inventory)
    BY DEF CartIsOwners, AskedForThisCart, Shop!Created
  <1> QED
    BY <1>2, <1>3 DEF ShopInv

\* An action of the graph that schedules the flush leaves the resources to it.
LEMMA ShopAction ==
  ASSUME ShopInv, Shop!Action,
         account' \in Accounts, region' \in Regions, cart' \in Carts, cartOwner' \in Accounts,
         scheduled' \in BOOLEAN,
         scheduled' \/ (scheduled' = scheduled /\ account' = account /\ region' = region /\ cart' = cart),
         CartIsOwners'
  PROVE  ShopInv'
  BY DEF ShopInv, ShopTypeOK, Shop!Action, AskedForThisCart, Shop!Request

\* Every action keeps it.
LEMMA ShopStepInv == ShopInv /\ [Shop!Next]_(Shop!vars) => ShopInv'
  <1> SUFFICES ASSUME ShopInv, [Shop!Next]_(Shop!vars) PROVE ShopInv'
    OBVIOUS
  <1>0. account \in Accounts /\ region \in Regions /\ cart \in Carts /\ cartOwner \in Accounts
        /\ scheduled \in BOOLEAN /\ CartIsOwners
    BY DEF ShopInv, ShopTypeOK
  <1>c. \A i \in Items, q \in Int : [cart EXCEPT ![i] = Shop!Capped(q)] \in Carts
    BY <1>0, CommerceAssumption DEF Carts, Shop!Capped
  <1>1. ASSUME NEW a \in Accounts, Shop!SelectAccount(a) PROVE ShopInv'
    BY <1>0, <1>1, ShopEmptyCart, ShopAction
       DEF Shop!SelectAccount, Shop!SetCart, CartIsOwners, Shop!EmptyCart
  <1>2. ASSUME NEW r \in Regions, Shop!SelectRegion(r) PROVE ShopInv'
    BY <1>0, <1>2, ShopAction DEF Shop!SelectRegion, CartIsOwners, Shop!EmptyCart
  <1>3. ASSUME NEW i \in Items, Shop!AddItem(i) PROVE ShopInv'
    <2>1. cart[i] + 1 \in Int
      BY <1>0, CommerceAssumption DEF Carts
    <2> QED
      BY <1>0, <1>c, <1>3, <2>1, ShopAction DEF Shop!AddItem, Shop!SetCart, CartIsOwners, Shop!EmptyCart
  <1>4. ASSUME NEW i \in Items, Shop!RemoveItem(i) PROVE ShopInv'
    <2>0. cart' = [cart EXCEPT ![i] = 0]
      BY <1>4 DEF Shop!RemoveItem, Shop!SetCart
    <2>1. cart' \in Carts /\ (cart = Shop!EmptyCart => cart' = Shop!EmptyCart)
      <3>1. 0 \in 0 .. MaxQuantity
        BY CommerceAssumption
      <3>2. cart' \in Carts
        BY <1>0, <2>0, <3>1 DEF Carts
      <3>3. cart = Shop!EmptyCart => cart' = Shop!EmptyCart
        BY <2>0 DEF Shop!EmptyCart
      <3> QED
        BY <3>2, <3>3
    <2>2. CartIsOwners'
      BY <1>0, <1>4, <2>1 DEF Shop!RemoveItem, CartIsOwners, Shop!EmptyCart
    <2> QED
      BY <1>0, <1>4, <2>1, <2>2, ShopAction DEF Shop!RemoveItem, Shop!SetCart
  <1>5. ASSUME NEW i \in Items, NEW q \in -1 .. (MaxQuantity + 1), Shop!ChangeQuantity(i, q) PROVE ShopInv'
    <2>1. cart = Shop!EmptyCart => cart' = Shop!EmptyCart
      BY <1>5 DEF Shop!ChangeQuantity, Shop!SetCart, Shop!EmptyCart
    <2>2. q \in Int /\ [cart EXCEPT ![i] = Shop!Capped(q)] \in Carts
      BY <1>c, CommerceAssumption
    <2>3. cart' \in Carts
      BY <1>0, <1>5, <2>2, CommerceAssumption DEF Shop!ChangeQuantity, Shop!SetCart, Carts
    <2>4. CartIsOwners'
      BY <1>0, <1>5, <2>1 DEF Shop!ChangeQuantity, CartIsOwners, Shop!EmptyCart
    <2> QED
      BY <1>0, <1>5, <2>3, <2>4, ShopAction DEF Shop!ChangeQuantity, Shop!SetCart
  <1>6. CASE Shop!ClearCart
    BY <1>0, <1>6, ShopEmptyCart, ShopAction DEF Shop!ClearCart, Shop!SetCart, CartIsOwners, Shop!EmptyCart
  <1>7. CASE Shop!Flush
    <2>1. Shop!Request \in ShopRequests
      BY <1>0 DEF Shop!Request, ShopRequests
    <2>2. ShopTypeOK'
      BY <1>7, <2>1 DEF ShopInv, ShopTypeOK, Shop!Flush, Shop!RunAgain, Shop!Keep
    <2> QED
      BY <1>0, <1>7, <2>2
         DEF ShopInv, Shop!Flush, Shop!RunAgain, Shop!Keep, CartIsOwners, AskedForThisCart, Shop!Request, Shop!EmptyCart
  <1>8. CASE Shop!PricingAnswers
    BY <1>8 DEF ShopInv, ShopTypeOK, Shop!PricingAnswers, Shop!Answered, CartIsOwners, AskedForThisCart,
                Shop!Request, Shop!EmptyCart
  <1>9. CASE Shop!InventoryAnswers
    BY <1>9 DEF ShopInv, ShopTypeOK, Shop!InventoryAnswers, Shop!Answered, CartIsOwners, AskedForThisCart,
                Shop!Request, Shop!EmptyCart
  <1>10. CASE UNCHANGED Shop!vars
    BY <1>10 DEF ShopInv, ShopTypeOK, Shop!vars, CartIsOwners, AskedForThisCart, Shop!Request, Shop!EmptyCart
  <1> QED
    BY <1>1, <1>2, <1>3, <1>4, <1>5, <1>6, <1>7, <1>8, <1>9, <1>10 DEF Shop!Next, Shop!Actions

LEMMA ShopInvCheckout == ShopInv => CheckoutIsForThisCart
  BY DEF ShopInv, CartIsOwners, CheckoutIsForThisCart, Shop!CheckoutIsForThisCart, Shop!CanCheckout,
         Shop!BlockedReason, Shop!Quoted, Shop!Matches, Shop!Request, Shop!AllAvailable

\* The variables keep their types, whoever shops and whatever the services answer.
THEOREM ShopTypeCorrect == Shop!Spec => []ShopTypeOK
  BY ShopInitInv, ShopStepInv, PTL DEF Shop!Spec, ShopInv

\* In every reachable state the checkout is allowed only when both quotes are for the
\* account, region and cart on the screen: a change leaves the quotes stale until the
\* flush, but schedules it, and the flush marks as pending what was asked otherwise
\* (commerceGraph.ts, pricing, inventory and canCheckout).
THEOREM ShopCheckoutIsForThisCart == Shop!Spec => []CheckoutIsForThisCart
  <1>1. Shop!Spec => []ShopInv
    BY ShopInitInv, ShopStepInv, PTL DEF Shop!Spec
  <1> QED
    BY <1>1, ShopInvCheckout, PTL

-----------------------------------------------------------------------------
(* DevopsGraph: a promotion is on verdicts of its own *)

Intents == {"idle", "deploy", "cancelled"}
Rollouts == [commit : Commits, intent : Intents, canDeploy : BOOLEAN]
Verdicts == [commit : Commits, state : {"idle", "cancelled", "blocked", "success", "failed"}]

OpsTypeOK ==
  /\ selected \in Commits /\ approved \in BOOLEAN /\ intent \in Intents
  /\ ci \in [input : Commits, pending : BOOLEAN, value : Commits \cup {Nothing}]
  /\ artifact \in [input : Commits, pending : BOOLEAN, value : Commits \cup {Nothing}]
  /\ deployment \in [input : Rollouts, pending : BOOLEAN, value : Verdicts \cup {Nothing}]
  /\ release \in [commit : Commits, emitted : Nat]
  /\ queued \in SUBSET {"ci", "artifact", "deployment", "health"}

\* What waits for no flush was begun for the commit that is selected.
BegunForSelected ==
  /\ "ci" \notin queued => ci.input = selected
  /\ "artifact" \notin queued => artifact.input = selected
  /\ "health" \notin queued => release.commit = selected
  /\ "deployment" \notin queued => deployment.input.commit = selected /\ deployment.input.intent = intent

\* What is not pending was answered for what it was begun with; a rollout that
\* was cancelled waits for the flush.
AnsweredAsBegun ==
  /\ ~ci.pending => ci.value = ci.input
  /\ ~artifact.pending => artifact.value = artifact.input
  /\ "deployment" \notin queued /\ ~deployment.pending
       => deployment.value = [commit |-> deployment.input.commit, state |-> Ops!Outcome(deployment.input)]

\* Selecting another commit withdraws the approval.
ApprovedIsSelected == approved => approvedCommit = selected

OpsInv == OpsTypeOK /\ BegunForSelected /\ AnsweredAsBegun /\ ApprovedIsSelected

LEMMA OpsOutcome ==
  ASSUME NEW r \in Rollouts
  PROVE  Ops!Outcome(r) \in {"idle", "cancelled", "blocked", "success", "failed"}
  BY DevopsAssumption DEF Rollouts, Intents, Ops!Outcome

LEMMA OpsInitInv == Ops!Init => OpsInv
  <1> SUFFICES ASSUME Ops!Init PROVE OpsInv
    OBVIOUS
  <1>1. OpsTypeOK
    BY DevopsAssumption DEF Ops!Init, OpsTypeOK, Ops!Created, Rollouts, Intents
  <1>2. BegunForSelected /\ AnsweredAsBegun /\ ApprovedIsSelected
    BY DEF Ops!Init, BegunForSelected, AnsweredAsBegun, ApprovedIsSelected, Ops!Created
  <1> QED
    BY <1>1, <1>2 DEF OpsInv

LEMMA OpsStepInv == OpsInv /\ [Ops!Next]_(Ops!vars) => OpsInv'
  <1> SUFFICES ASSUME OpsInv, [Ops!Next]_(Ops!vars) PROVE OpsInv'
    OBVIOUS
  <1> USE DEF OpsInv
  <1>1. ASSUME NEW c \in Commits, Ops!SelectCommit(c) PROVE OpsInv'
    <2>1. OpsTypeOK'
      BY <1>1 DEF OpsTypeOK, Ops!SelectCommit, Ops!Action, Ops!Schedules, Ops!resources, Intents
    <2>2. BegunForSelected' /\ AnsweredAsBegun' /\ ApprovedIsSelected'
      BY <1>1 DEF OpsTypeOK, BegunForSelected, AnsweredAsBegun, ApprovedIsSelected,
                  Ops!SelectCommit, Ops!Action, Ops!Schedules, Ops!resources
    <2> QED
      BY <2>1, <2>2
  <1>2. CASE Ops!StartDeployment
    <2>1. OpsTypeOK'
      BY <1>2 DEF OpsTypeOK, Ops!StartDeployment, Ops!Action, Ops!Schedules, Ops!resources, Intents
    <2>2. BegunForSelected' /\ AnsweredAsBegun' /\ ApprovedIsSelected'
      BY <1>2 DEF OpsTypeOK, BegunForSelected, AnsweredAsBegun, ApprovedIsSelected,
                  Ops!StartDeployment, Ops!Action, Ops!Schedules, Ops!resources
    <2> QED
      BY <2>1, <2>2
  <1>3. CASE Ops!ApprovePromotion
    BY <1>3 DEF OpsTypeOK, BegunForSelected, AnsweredAsBegun, ApprovedIsSelected,
                Ops!ApprovePromotion, Ops!Action, Ops!resources
  \* A rollout that ends at once is not cancelled, so the intent is new or the flush is due.
  <1>4. CASE Ops!CancelDeployment
    <2>1. OpsTypeOK'
      BY <1>4 DEF OpsTypeOK, Ops!CancelDeployment, Ops!Cancelled, Ops!Schedules, Intents
    <2>2. deployment'.input = deployment.input /\ deployment'.value = deployment.value
      BY <1>4 DEF OpsTypeOK, Ops!CancelDeployment, Ops!Cancelled
    <2>3. "deployment" \notin queued' => "deployment" \notin queued /\ intent = "cancelled"
      BY <1>4 DEF Ops!CancelDeployment, Ops!Schedules
    <2>4. BegunForSelected' /\ ApprovedIsSelected'
      BY <1>4, <2>2, <2>3 DEF BegunForSelected, ApprovedIsSelected, Ops!CancelDeployment, Ops!Schedules
    <2>5. "deployment" \notin queued' => ~deployment.pending
      BY <1>4, <2>3 DEF BegunForSelected, Ops!CancelDeployment, Ops!Action, Ops!Microtask, Ops!AtOnce
    <2>6. AnsweredAsBegun'
      BY <1>4, <2>2, <2>3, <2>5 DEF AnsweredAsBegun, Ops!CancelDeployment, Ops!Outcome
    <2> QED
      BY <2>1, <2>4, <2>6
  <1>5. CASE Ops!Flush
    <2>1. Ops!DeploymentRequest \in Rollouts
      BY DEF OpsTypeOK, Rollouts, Ops!DeploymentRequest, Ops!CanDeploy
    <2>2. OpsTypeOK'
      BY <1>5, <2>1 DEF OpsTypeOK, Ops!Flush, Ops!RunAgain, Ops!Keep
    <2>3. BegunForSelected'
      BY <1>5 DEF OpsTypeOK, BegunForSelected, Ops!Flush, Ops!RunAgain, Ops!Keep, Ops!DeploymentRequest
    <2>4. AnsweredAsBegun' /\ ApprovedIsSelected'
      BY <1>5 DEF OpsTypeOK, AnsweredAsBegun, ApprovedIsSelected, Ops!Flush, Ops!RunAgain, Ops!Keep
    <2> QED
      BY <2>2, <2>3, <2>4
  <1>6. CASE Ops!CiAnswers
    BY <1>6 DEF OpsTypeOK, BegunForSelected, AnsweredAsBegun, ApprovedIsSelected,
                Ops!CiAnswers, Ops!TaskOver, Ops!Answered
  <1>7. CASE Ops!ArtifactAnswers
    BY <1>7 DEF OpsTypeOK, BegunForSelected, AnsweredAsBegun, ApprovedIsSelected,
                Ops!ArtifactAnswers, Ops!TaskOver, Ops!Answered
  <1>8. CASE Ops!DeploymentAnswers
    <2> DEFINE verdict == [commit |-> deployment.input.commit, state |-> Ops!Outcome(deployment.input)]
    <2>1. deployment.input \in Rollouts /\ verdict \in Verdicts
      BY OpsOutcome DEF OpsTypeOK, Rollouts, Verdicts
    <2>2. deployment' = [deployment EXCEPT !.pending = FALSE, !.value = verdict]
      BY <1>8 DEF Ops!DeploymentAnswers, Ops!Answered
    <2> HIDE DEF verdict
    <2>3. /\ deployment' \in [input : Rollouts, pending : BOOLEAN, value : Verdicts \cup {Nothing}]
          /\ deployment'.input = deployment.input /\ deployment'.value = verdict
      BY <2>1, <2>2 DEF OpsTypeOK
    <2> QED
      BY <1>8, <2>3 DEF OpsTypeOK, BegunForSelected, AnsweredAsBegun, ApprovedIsSelected,
                        Ops!DeploymentAnswers, verdict
  <1>9. CASE Ops!HealthEmits
    BY <1>9 DEF OpsTypeOK, BegunForSelected, AnsweredAsBegun, ApprovedIsSelected, Ops!HealthEmits
  <1>10. CASE UNCHANGED Ops!vars
    BY <1>10 DEF OpsTypeOK, BegunForSelected, AnsweredAsBegun, ApprovedIsSelected, Ops!vars, Ops!resources
  <1> QED
    BY <1>1, <1>2, <1>3, <1>4, <1>5, <1>6, <1>7, <1>8, <1>9, <1>10 DEF Ops!Next, Ops!Actions

LEMMA OpsInvPromotes == OpsInv => PromotesOnOwnVerdicts
  BY DEF OpsInv, BegunForSelected, AnsweredAsBegun, ApprovedIsSelected, PromotesOnOwnVerdicts,
         Ops!PromotesOnOwnVerdicts, Ops!CanPromote, Ops!TaskOver

\* The variables keep their types, in whatever order the services answer.
THEOREM OpsTypeCorrect == Ops!Spec => []OpsTypeOK
  BY OpsInitInv, OpsStepInv, PTL DEF Ops!Spec, OpsInv

\* In every reachable state in which nothing is pending, a commit is offered for
\* promotion only on its own verdicts and its own approval, in whatever order commits
\* were selected and services answered (devopsGraph.ts, canPromote).
THEOREM OpsPromotesOnOwnVerdicts == Ops!Spec => []PromotesOnOwnVerdicts
  <1>1. Ops!Spec => []OpsInv
    BY OpsInitInv, OpsStepInv, PTL DEF Ops!Spec
  <1> QED
    BY <1>1, OpsInvPromotes, PTL

-----------------------------------------------------------------------------
(* ReactiveProxy: what is held *)

\* No request is with an upstream.
NothingAsked == \A r \in Requests : requests[r] = Proxy!NoServer

\* Requests come once the proxy listens, and are waited for when it closes.
ProxyHolds ==
  /\ stage \in {"starting", "listen", "running", "closing", "closed", "failed"}
  /\ stage # "running" => ~listening
  /\ stage \notin {"listen", "running"} => ~interval
  /\ stage \in {"closed", "failed"} => open = {}
  /\ stage \notin {"running", "closing"} => NothingAsked
  /\ DOMAIN requests = Requests

LEMMA ProxyInitHolds == Proxy!Init => ProxyHolds
  BY DEF Proxy!Init, ProxyHolds, NothingAsked

LEMMA ProxyStepHolds == ProxyHolds /\ [Proxy!Next]_(Proxy!vars) => ProxyHolds'
  <1> SUFFICES ASSUME ProxyHolds, [Proxy!Next]_(Proxy!vars) PROVE ProxyHolds'
    OBVIOUS
  <1> USE DEF ProxyHolds, NothingAsked
  <1>1. CASE Proxy!StartUpstream
    BY <1>1 DEF Proxy!StartUpstream
  <1>2. CASE Proxy!StartUpstreamFails
    BY <1>2 DEF Proxy!StartUpstreamFails
  <1>3. CASE Proxy!StartHealthChecks
    BY <1>3 DEF Proxy!StartHealthChecks
  <1>4. CASE Proxy!Listen
    BY <1>4 DEF Proxy!Listen
  <1>5. CASE Proxy!ListenFails
    BY <1>5 DEF Proxy!ListenFails
  <1>6. CASE Proxy!Tick
    BY <1>6 DEF Proxy!Tick, Proxy!server
  <1>7. ASSUME NEW s \in Proxy!Servers, NEW i \in DOMAIN probes[s], Proxy!UpstreamAnswersProbe(s, i)
        PROVE  ProxyHolds'
    BY <1>7 DEF Proxy!UpstreamAnswersProbe, Proxy!server
  <1>8. ASSUME NEW s \in Proxy!Servers, NEW i \in DOMAIN probes[s],
               Proxy!ProbeAnswered(s, i) \/ Proxy!ProbeFails(s, i)
        PROVE  ProxyHolds'
    BY <1>8 DEF Proxy!ProbeAnswered, Proxy!ProbeFails, Proxy!server
  <1>9. ASSUME NEW r \in Requests, NEW path \in Paths, Proxy!Forward(r, path)
        PROVE  ProxyHolds'
    <2>1. listening /\ stage = "running"
      BY <1>9 DEF Proxy!Forward
    <2>2. UNCHANGED Proxy!server /\ DOMAIN requests' = DOMAIN requests
      BY <1>9 DEF Proxy!Forward
    <2> QED
      BY <2>1, <2>2 DEF Proxy!server
  <1>10. ASSUME NEW r \in Requests, Proxy!RequestEnds(r) PROVE ProxyHolds'
    BY <1>10 DEF Proxy!RequestEnds, Proxy!server
  <1>11. CASE Proxy!Changes
    BY <1>11 DEF Proxy!Changes, Proxy!ToggleHealth, Proxy!SetServerHealth, Proxy!ReplaceRoutes,
                 Proxy!ReplaceUpstreams, Proxy!SetTrafficPolicy, Proxy!ResetRoundRobinCursor, Proxy!server
  <1>12. CASE Proxy!Close
    BY <1>12 DEF Proxy!Close
  <1>13. CASE Proxy!Closed
    BY <1>13 DEF Proxy!Closed
  <1>14. CASE UNCHANGED Proxy!vars
    BY <1>14 DEF Proxy!vars, Proxy!server
  <1> QED
    BY <1>1, <1>2, <1>3, <1>4, <1>5, <1>6, <1>7, <1>8, <1>9, <1>10, <1>11, <1>12, <1>13, <1>14
       DEF Proxy!Next, Proxy!Start, Proxy!UpstreamAnswers, Proxy!ProbeEnds, Proxy!RequestsEnd

\* In every reachable state a proxy that is closed, or whose start failed, holds no
\* upstream server, no interval and no request: close() stops taking connections before
\* it waits for those there are (server.ts, start-demo-upstreams.ts).
THEOREM ProxyNothingIsHeld == Proxy!Spec => []NothingIsHeld
  <1>1. ProxyHolds => NothingIsHeld
    BY DEF ProxyHolds, NothingAsked, NothingIsHeld, Proxy!NothingIsHeld
  <1> QED
    BY <1>1, ProxyInitHolds, ProxyStepHolds, PTL DEF Proxy!Spec

-----------------------------------------------------------------------------
(* ReactiveProxy: the loop over the routes *)

\* A table of routes, none of which is the lack of one.
RouteRecords == [prefix : Seq(STRING), pool : STRING]
IsRouteTable(rs) == rs \in Seq(RouteRecords) /\ \A i \in DOMAIN rs : rs[i] # Proxy!NoRoute

Matches(rs, path, i) == Proxy!MatchesPrefix(path, rs[i].prefix)
Normal(rs, i) == Proxy!NormalizePrefix(rs[i].prefix)
Length(rs, i) == Len(Normal(rs, i))

\* A set of positions has a last one.
LEMMA LastPosition ==
  ASSUME NEW n \in Nat, NEW S \in SUBSET (0 .. n), S # {}
  PROVE  Proxy!Max(S) \in S
  <1> DEFINE P == {k \in Nat : k <= n => \A T \in SUBSET (0 .. k) : T # {} => \E x \in T : \A y \in T : x >= y}
  <1>1. 0 \in P
    <2> SUFFICES ASSUME NEW T \in SUBSET (0 .. 0), T # {}
                 PROVE  \E x \in T : \A y \in T : x >= y
      OBVIOUS
    <2>1. PICK x \in T : TRUE
      OBVIOUS
    <2>2. \A y \in T : x >= y
      OBVIOUS
    <2> QED
      BY <2>2
  <1>2. ASSUME NEW k \in Nat, k \in P PROVE k + 1 \in P
    <2> SUFFICES ASSUME k + 1 <= n, NEW T \in SUBSET (0 .. (k + 1)), T # {}
                 PROVE  \E x \in T : \A y \in T : x >= y
      OBVIOUS
    <2>1. CASE k + 1 \in T
      BY <2>1
    <2>2. CASE k + 1 \notin T
      <3>1. T \in SUBSET (0 .. k)
        BY <2>2
      <3> QED
        BY <1>2, <3>1
    <2> QED
      BY <2>1, <2>2
  <1>3. n \in P
    <2> HIDE DEF P
    <2> QED
      BY <1>1, <1>2, InductiveSet
  <1>4. \E x \in S : \A y \in S : x >= y
    BY <1>3
  <1> QED
    BY <1>4 DEF Proxy!Max

\* The tokens of paths and prefixes: the provers take a literal for no element of STRING.
Tokens == STRING \cup {"/"}

LEMMA TokenSequences ==
  /\ \A s \in Seq(STRING) : s \in Seq(Tokens)
  /\ <<"/">> \in Seq(Tokens) /\ Len(<<"/">>) = 1 /\ <<"/">>[1] = "/"
  BY DEF Tokens

\* A sequence begins another when they agree for as long as it lasts.
LEMMA BeginsWhere ==
  ASSUME NEW s \in Seq(Tokens), NEW t \in Seq(Tokens)
  PROVE  Proxy!IsPrefix(s, t) <=> Len(s) <= Len(t) /\ \A i \in 1 .. Len(s) : s[i] = t[i]
  <1>1. ASSUME Len(s) <= Len(t), \A i \in 1 .. Len(s) : s[i] = t[i]
        PROVE  SubSeq(s, 1, Len(s)) = SubSeq(t, 1, Len(s))
    BY <1>1
  <1>2. ASSUME Len(s) <= Len(t), SubSeq(s, 1, Len(s)) = SubSeq(t, 1, Len(s)), NEW i \in 1 .. Len(s)
        PROVE  s[i] = t[i]
    <2>1. SubSeq(s, 1, Len(s))[i] = s[i] /\ SubSeq(t, 1, Len(s))[i] = t[i]
      BY <1>2
    <2> QED
      BY <1>2, <2>1
  <1> QED
    BY <1>1, <1>2 DEF Proxy!IsPrefix

\* What normalizePath and normalizePrefix return.
LEMMA NormalType ==
  ASSUME NEW s \in Seq(STRING)
  PROVE  Proxy!NormalizePath(s) \in Seq(Tokens) /\ Proxy!NormalizePrefix(s) \in Seq(Tokens)
  <1>1. Proxy!NormalizePath(s) \in Seq(Tokens)
    <2>1. <<"/">> \o s \in Seq(Tokens)
      BY TokenSequences, ConcatProperties
    <2> QED
      BY <2>1 DEF Proxy!NormalizePath
  <1> DEFINE names == {0} \cup {i \in DOMAIN s : s[i] # "/"}
  <1>2. Proxy!Max(names) \in 0 .. Len(s)
    <2>1. names \in SUBSET (0 .. Len(s)) /\ names # {} /\ Len(s) \in Nat
      OBVIOUS
    <2> HIDE DEF names
    <2>2. Proxy!Max(names) \in names
      BY <2>1, LastPosition
    <2> QED
      BY <2>1, <2>2
  <1>3. SubSeq(s, 1, Proxy!Max(names)) \in Seq(Tokens)
    <2> HIDE DEF names
    <2>1. \A i \in 1 .. Proxy!Max(names) : s[i] \in Tokens
      BY <1>2 DEF Tokens
    <2> QED
      BY <1>2, <2>1, SubSeqProperties
  <1> QED
    BY <1>1, <1>3 DEF Proxy!NormalizePrefix

\* A prefix that matches a path begins it, once both are normalised.
LEMMA MatchBegins ==
  ASSUME NEW path \in Seq(STRING), NEW prefix \in Seq(STRING), Proxy!MatchesPrefix(path, prefix)
  PROVE  Proxy!IsPrefix(Proxy!NormalizePrefix(prefix), Proxy!NormalizePath(path))
  <1> DEFINE p == Proxy!NormalizePath(path)
             q == Proxy!NormalizePrefix(prefix)
  <1>1. p \in Seq(Tokens) /\ q \in Seq(Tokens)
    BY NormalType
  <1>2. Len(p) >= 1 /\ p[1] = "/"
    <2>1. CASE Proxy!Rooted(path)
      BY <2>1 DEF Proxy!NormalizePath, Proxy!Rooted
    <2>2. CASE ~Proxy!Rooted(path)
      BY <2>2, TokenSequences, ConcatProperties DEF Proxy!NormalizePath
    <2> QED
      BY <2>1, <2>2
  <1>3. q = <<"/">> \/ p = q \/ Proxy!IsPrefix(q \o <<"/">>, p)
    BY DEF Proxy!MatchesPrefix
  <1> SUFFICES Proxy!IsPrefix(q, p)
    OBVIOUS
  <1> HIDE DEF p, q
  <1>4. CASE q = <<"/">>
    <2>1. Len(q) = 1 /\ q[1] = "/"
      BY <1>4, TokenSequences
    <2> QED
      BY <1>1, <1>2, <2>1, BeginsWhere
  <1>5. CASE p = q
    BY <1>1, <1>5, BeginsWhere
  <1>6. CASE Proxy!IsPrefix(q \o <<"/">>, p)
    <2> DEFINE r == q \o <<"/">>
    <2>1. r \in Seq(Tokens) /\ Len(r) = Len(q) + 1 /\ \A i \in 1 .. Len(q) : r[i] = q[i]
      BY <1>1, TokenSequences, ConcatProperties
    <2> HIDE DEF r
    <2>2. Len(r) <= Len(p) /\ \A i \in 1 .. Len(r) : r[i] = p[i]
      BY <1>1, <1>6, <2>1, BeginsWhere DEF r
    <2>3. Len(q) <= Len(p) /\ \A i \in 1 .. Len(q) : q[i] = p[i]
      BY <1>1, <2>1, <2>2
    <2> QED
      BY <1>1, <2>3, BeginsWhere
  <1> QED
    BY <1>3, <1>4, <1>5, <1>6

\* Of two beginnings of one sequence the shorter begins the longer.
LEMMA Beginnings ==
  ASSUME NEW s \in Seq(Tokens), NEW t \in Seq(Tokens), NEW u \in Seq(Tokens),
         Proxy!IsPrefix(s, u), Proxy!IsPrefix(t, u), Len(s) <= Len(t)
  PROVE  Proxy!IsPrefix(s, t)
  <1>1. /\ Len(s) <= Len(u) /\ \A i \in 1 .. Len(s) : s[i] = u[i]
        /\ Len(t) <= Len(u) /\ \A i \in 1 .. Len(t) : t[i] = u[i]
    BY BeginsWhere
  <1>2. \A i \in 1 .. Len(s) : s[i] = t[i]
    BY <1>1
  <1> QED
    BY <1>2, BeginsWhere

\* Of the first k routes, i is one that matches with the longest prefix, and the first.
LongestOf(rs, path, k, i) ==
  /\ i \in 1 .. k /\ Matches(rs, path, i)
  /\ \A j \in 1 .. k : Matches(rs, path, j) =>
       Length(rs, j) < Length(rs, i) \/ (Length(rs, j) = Length(rs, i) /\ j >= i)

\* The route that the loop has after k of them.
LongestOrNone(rs, path, k, route) ==
  IF \E i \in 1 .. k : Matches(rs, path, i)
  THEN \E i \in 1 .. k : LongestOf(rs, path, k, i) /\ route = rs[i]
  ELSE route = Proxy!NoRoute

\* One more route: it takes the place of the best so far only when it is longer.
LEMMA OneMoreRoute ==
  ASSUME NEW rs, IsRouteTable(rs), NEW path, NEW k \in Nat, k + 1 \in 1 .. Len(rs), NEW best,
         LongestOrNone(rs, path, k, best)
  PROVE  LongestOrNone(rs, path, k + 1,
           IF Matches(rs, path, k + 1) /\ Proxy!Better(rs[k + 1], best) THEN rs[k + 1] ELSE best)
  <1>1. \A i \in 1 .. Len(rs) : Length(rs, i) \in Nat /\ rs[i] # Proxy!NoRoute
    BY NormalType DEF IsRouteTable, RouteRecords, Length, Normal
  <1>2. \A i \in 1 .. (k + 1) : (i \in 1 .. k \/ i = k + 1) /\ i \in 1 .. Len(rs)
    OBVIOUS
  <1>3. Proxy!Better(rs[k + 1], best) <=>
          (best = Proxy!NoRoute \/ Length(rs, k + 1) > Len(Proxy!NormalizePrefix(best.prefix)))
    BY DEF Proxy!Better, Length, Normal
  <1>4. CASE \E i \in 1 .. k : Matches(rs, path, i)
    <2>1. PICK i \in 1 .. k : LongestOf(rs, path, k, i) /\ best = rs[i]
      BY <1>4 DEF LongestOrNone
    <2>2. Proxy!Better(rs[k + 1], best) <=> Length(rs, k + 1) > Length(rs, i)
      BY <1>1, <1>2, <1>3, <2>1 DEF Length, Normal
    <2>3. CASE Matches(rs, path, k + 1) /\ Length(rs, k + 1) > Length(rs, i)
      <3>1. LongestOf(rs, path, k + 1, k + 1)
        BY <1>1, <1>2, <2>1, <2>3 DEF LongestOf
      <3> QED
        BY <2>2, <2>3, <3>1 DEF LongestOrNone
    <2>4. CASE ~(Matches(rs, path, k + 1) /\ Length(rs, k + 1) > Length(rs, i))
      <3>1. LongestOf(rs, path, k + 1, i)
        BY <1>1, <1>2, <2>1, <2>4 DEF LongestOf
      <3> QED
        BY <2>1, <2>2, <2>4, <3>1 DEF LongestOrNone, LongestOf
    <2> QED
      BY <2>3, <2>4
  <1>5. CASE ~\E i \in 1 .. k : Matches(rs, path, i)
    <2>1. best = Proxy!NoRoute /\ Proxy!Better(rs[k + 1], best)
      BY <1>3, <1>5 DEF LongestOrNone
    <2>2. CASE Matches(rs, path, k + 1)
      <3>1. LongestOf(rs, path, k + 1, k + 1)
        BY <1>1, <1>2, <1>5, <2>2 DEF LongestOf
      <3> QED
        BY <2>1, <2>2, <3>1 DEF LongestOrNone
    <2>3. CASE ~Matches(rs, path, k + 1)
      BY <1>2, <1>5, <2>1, <2>3 DEF LongestOrNone
    <2> QED
      BY <2>2, <2>3
  <1> QED
    BY <1>4, <1>5

\* What the loop over the table returns.
LEMMA MatchRouteIsLongest ==
  ASSUME NEW rs, IsRouteTable(rs), NEW path
  PROVE  LongestOrNone(rs, path, Len(rs), Proxy!MatchRoute(rs, path))
  <1> DEFINE n == Len(rs)
             V == RouteRecords \cup {Proxy!NoRoute}
             Loop(i, v) == IF Matches(rs, path, i) /\ Proxy!Better(rs[i], v) THEN rs[i] ELSE v
             Step(g, i) == IF i = 0 THEN Proxy!NoRoute ELSE Loop(i, g[i - 1])
             best == CHOOSE g : g = [i \in 0 .. n |-> Step(g, i)]
             F == [x \in (1 .. n) \X V |-> Loop(x[1], x[2])]
  <1>1. n \in Nat /\ \A i \in 1 .. n : rs[i] \in RouteRecords
    BY DEF IsRouteTable
  <1>2. \A i \in 1 .. n, v \in V : Loop(i, v) \in V
    BY <1>1
  <1>3. PICK g : Recursion(g, n, V, Proxy!NoRoute, F)
    <2>1. StepFunction(F, n, V)
      BY <1>2 DEF StepFunction
    <2>2. Proxy!NoRoute \in V
      OBVIOUS
    <2> HIDE DEF F, V, n
    <2> QED
      BY <1>1, <2>1, <2>2, RecursionExists
  <1>4. \A i \in 1 .. n : g[i] = Loop(i, g[i - 1])
    <2> SUFFICES ASSUME NEW i \in 1 .. n PROVE g[i] = Loop(i, g[i - 1])
      OBVIOUS
    <2>1. g \in [0 .. n -> V] /\ g[i] = F[<<i, g[i - 1]>>]
      BY <1>3 DEF Recursion
    <2>2. g[i - 1] \in V
      <3>1. i - 1 \in 0 .. n
        BY <1>1
      <3> HIDE DEF V, F, n
      <3> QED
        BY <2>1, <3>1
    <2> HIDE DEF V, n, Loop
    <2> QED
      BY <2>1, <2>2
  <1>5. g = [i \in 0 .. n |-> Step(g, i)]
    <2>1. g \in [0 .. n -> V] /\ g[0] = Proxy!NoRoute
      BY <1>3 DEF Recursion
    <2> HIDE DEF V, Loop, F
    <2> QED
      BY <1>1, <1>4, <2>1
  <1>6. best = [i \in 0 .. n |-> Step(best, i)]
    <2> HIDE DEF Step, n
    <2> QED
      BY <1>5
  <1>7. Proxy!MatchRoute(rs, path) = best[n]
    BY DEF Proxy!MatchRoute, Matches
  <1> HIDE DEF best, F, V, Loop
  <1>8. best[0] = Proxy!NoRoute /\ \A i \in 1 .. n : best[i] = Loop(i, best[i - 1])
    BY <1>1, <1>6
  <1> DEFINE S == {k \in Nat : k <= n => LongestOrNone(rs, path, k, best[k])}
  <1>9. 0 \in S
    BY <1>8 DEF LongestOrNone
  <1>10. ASSUME NEW k \in Nat, k \in S PROVE k + 1 \in S
    <2> SUFFICES ASSUME k + 1 <= n PROVE LongestOrNone(rs, path, k + 1, best[k + 1])
      OBVIOUS
    <2>1. LongestOrNone(rs, path, k, best[k]) /\ k + 1 \in 1 .. n
      BY <1>1, <1>10
    <2>2. best[k + 1] = Loop(k + 1, best[k])
      BY <1>8, <2>1
    <2> QED
      BY <2>1, <2>2, OneMoreRoute DEF Loop
  <1>11. n \in S
    <2> HIDE DEF S, n
    <2> QED
      BY <1>1, <1>9, <1>10, InductiveSet
  <1> QED
    BY <1>1, <1>7, <1>11

\* A table that is replaced is replaced by a table.
RoutesOK == IsRouteTable(routes)

\* In every reachable state, for every table of any length and every path: the route
\* that the loop finds has a normalised prefix which continues those of all others
\* that match, and is the first with it; and there is none only when none matches
\* (routes.ts:22-42).
THEOREM ProxyRouteIsLongest == Proxy!Spec => []RouteIsLongest
  <1>1. Proxy!Init => RoutesOK
    BY ProxyAssumption DEF Proxy!Init, RoutesOK, IsRouteTable, RouteRecords
  <1>2. RoutesOK /\ [Proxy!Next]_(Proxy!vars) => RoutesOK'
    <2>1. ASSUME [Proxy!Next]_(Proxy!vars) PROVE routes' = routes \/ routes' \in RouteTables
      BY <2>1 DEF Proxy!Next, Proxy!vars, Proxy!signals, Proxy!Start, Proxy!StartUpstream,
        Proxy!StartUpstreamFails, Proxy!StartHealthChecks, Proxy!Listen, Proxy!ListenFails, Proxy!Tick,
        Proxy!UpstreamAnswers, Proxy!UpstreamAnswersProbe, Proxy!ProbeEnds, Proxy!ProbeAnswered,
        Proxy!ProbeFails, Proxy!Forward, Proxy!RequestsEnd, Proxy!RequestEnds, Proxy!Changes,
        Proxy!ToggleHealth, Proxy!SetServerHealth, Proxy!ReplaceRoutes, Proxy!ReplaceUpstreams,
        Proxy!SetTrafficPolicy, Proxy!ResetRoundRobinCursor, Proxy!Close, Proxy!Closed
    <2> QED
      BY <2>1, ProxyAssumption DEF RoutesOK, IsRouteTable, RouteRecords
  <1>3. RoutesOK => RouteIsLongest
    <2> SUFFICES ASSUME IsRouteTable(routes), NEW path \in Paths
                 PROVE  LET matching == {i \in DOMAIN routes : Proxy!MatchesPrefix(path, routes[i].prefix)}
                            norm(i) == Proxy!NormalizePrefix(routes[i].prefix)
                            best == Proxy!MatchRoute(routes, path)
                        IN IF matching = {} THEN best = Proxy!NoRoute
                           ELSE \E i \in matching :
                                  /\ best = routes[i]
                                  /\ \A j \in matching :
                                       Proxy!IsPrefix(norm(j), norm(i)) /\ (norm(j) = norm(i) => j >= i)
      BY DEF RoutesOK, RouteIsLongest, Proxy!RouteIsLongest
    <2> DEFINE n == Len(routes)
               route == Proxy!MatchRoute(routes, path)
               normPath == Proxy!NormalizePath(path)
    <2>1. LongestOrNone(routes, path, n, route)
      BY MatchRouteIsLongest
    <2>2. /\ DOMAIN routes = 1 .. n /\ n \in Nat
          /\ \A i \in 1 .. n : routes[i].prefix \in Seq(STRING)
      <3>1. routes \in Seq(RouteRecords)
        BY DEF IsRouteTable
      <3>2. DOMAIN routes = 1 .. n /\ n \in Nat /\ \A i \in 1 .. n : routes[i] \in RouteRecords
        BY <3>1
      <3> QED
        BY <3>2 DEF RouteRecords
    <2>3. /\ normPath \in Seq(Tokens)
          /\ \A i \in 1 .. n : Normal(routes, i) \in Seq(Tokens)
          /\ \A i \in 1 .. n : Matches(routes, path, i) => Proxy!IsPrefix(Normal(routes, i), normPath)
      BY <2>2, NormalType, MatchBegins, ProxyAssumption DEF Normal, Matches
    <2> HIDE DEF n, route, normPath
    <2>4. CASE \E i \in 1 .. n : Matches(routes, path, i)
      <3>1. PICK w \in 1 .. n : LongestOf(routes, path, n, w) /\ route = routes[w]
        BY <2>1, <2>4 DEF LongestOrNone
      <3>2. ASSUME NEW j \in 1 .. n, Matches(routes, path, j)
            PROVE  /\ Proxy!IsPrefix(Normal(routes, j), Normal(routes, w))
                   /\ Normal(routes, j) = Normal(routes, w) => j >= w
        <4>1. Length(routes, j) < Length(routes, w) \/ (Length(routes, j) = Length(routes, w) /\ j >= w)
          BY <3>1, <3>2 DEF LongestOf
        <4>2. Length(routes, j) \in Nat /\ Length(routes, w) \in Nat
          BY <2>3 DEF Length
        <4>3. Len(Normal(routes, j)) <= Len(Normal(routes, w))
          BY <4>1, <4>2 DEF Length
        <4>4. Matches(routes, path, w)
          BY <3>1 DEF LongestOf
        <4>5. Proxy!IsPrefix(Normal(routes, j), Normal(routes, w))
          BY <2>3, <3>2, <4>3, <4>4, Beginnings
        <4>6. Normal(routes, j) = Normal(routes, w) => Length(routes, j) = Length(routes, w)
          BY DEF Length
        <4> QED
          BY <4>1, <4>2, <4>5, <4>6
      <3>3. Matches(routes, path, w)
        BY <3>1 DEF LongestOf
      <3> QED
        BY <2>2, <3>1, <3>2, <3>3 DEF route, Matches, Normal
    <2>5. CASE ~\E i \in 1 .. n : Matches(routes, path, i)
      BY <2>1, <2>2, <2>5 DEF LongestOrNone, route, Matches
    <2> QED
      BY <2>4, <2>5
  <1> QED
    BY <1>1, <1>2, <1>3, PTL DEF Proxy!Spec

-----------------------------------------------------------------------------
(* ReactiveProxy: the rotation *)

\* One further, modulo n.
LEMMA NextModulo ==
  ASSUME NEW n \in Nat, n > 0, NEW x \in Nat
  PROVE  /\ x % n \in 0 .. (n - 1)
         /\ (x + 1) % n = IF x % n = n - 1 THEN 0 ELSE (x % n) + 1
  <1>1. /\ x % n \in 0 .. (n - 1) /\ x \div n \in Int /\ x = n * (x \div n) + (x % n)
    OBVIOUS
  <1>2. /\ (x + 1) % n \in 0 .. (n - 1) /\ (x + 1) \div n \in Int /\ x + 1 = n * ((x + 1) \div n) + ((x + 1) % n)
    OBVIOUS
  <1> DEFINE q == x \div n
             r == x % n
             p == (x + 1) \div n
             s == (x + 1) % n
             d == p - q
  <1>3. d \in Int /\ n * d = r + 1 - s /\ n * d \in Int
    <2>1. p \in Int /\ q \in Int /\ n * p = x + 1 - s /\ n * q = x - r
      BY <1>1, <1>2
    <2>2. n * (p - q) = n * p - n * q
      BY <2>1
    <2> QED
      BY <1>1, <1>2, <2>1, <2>2
  <1> HIDE DEF q, r, p, s, d
  <1>4. r \in 0 .. (n - 1) /\ s \in 0 .. (n - 1)
    BY <1>1, <1>2 DEF r, s
  <1>5. d = 0 \/ d = 1
    <2>1. d >= 2 => n * d >= n * 2
      BY <1>3
    <2>2. d <= -1 => n * d <= n * (-1)
      BY <1>3
    <2> QED
      BY <1>3, <1>4, <2>1, <2>2
  <1>6. n * d = IF d = 0 THEN 0 ELSE n
    BY <1>5
  <1> QED
    BY <1>1, <1>3, <1>4, <1>5, <1>6 DEF r, s

\* What is less than n is its own remainder.
LEMMA ModuloOfLess ==
  ASSUME NEW n \in Nat, n > 0, NEW x \in 0 .. (n - 1)
  PROVE  x % n = x
  <1> DEFINE q == x \div n
             r == x % n
  <1>1. q \in Int /\ r \in 0 .. (n - 1) /\ x = n * q + r
    OBVIOUS
  <1> HIDE DEF q, r
  <1>2. q = 0
    <2>1. q >= 1 => n * q >= n * 1
      BY <1>1
    <2>2. q <= -1 => n * q <= n * (-1)
      BY <1>1
    <2> QED
      BY <1>1, <2>1, <2>2
  <1> QED
    BY <1>1, <1>2 DEF r

\* No element occurs twice.
NoneTwice(seq) == \A i, j \in 1 .. Len(seq) : seq[i] = seq[j] => i = j

\* How many picks ago the cursor was at the i-th of n candidates, c being where it is.
Ago(n, c, i) == IF i <= c THEN c - i ELSE c + n - i

\* The candidates picked in this rotation are the last m before the cursor.
Rotation(cand, at, counts) ==
  Len(cand) > 0 =>
    \E m \in 0 .. (Len(cand) - 1) : \A i \in 1 .. Len(cand) :
      counts[cand[i]] = IF Ago(Len(cand), at % Len(cand), i) < m THEN 1 ELSE 0

\* A rotation begins wherever the cursor is.
LEMMA NewRotation ==
  ASSUME NEW cand \in Seq(Proxy!Servers), NEW at \in Nat
  PROVE  Rotation(cand, at, Proxy!NoPicks)
  <1> SUFFICES ASSUME Len(cand) > 0
               PROVE  \A i \in 1 .. Len(cand) :
                        Proxy!NoPicks[cand[i]] = IF Ago(Len(cand), at % Len(cand), i) < 0 THEN 1 ELSE 0
    BY DEF Rotation
  <1> SUFFICES ASSUME NEW i \in 1 .. Len(cand)
               PROVE  Proxy!NoPicks[cand[i]] = 0 /\ ~(Ago(Len(cand), at % Len(cand), i) < 0)
    OBVIOUS
  <1>1. at % Len(cand) \in 0 .. (Len(cand) - 1)
    BY NextModulo
  <1>2. cand[i] \in Proxy!Servers
    OBVIOUS
  <1> QED
    BY <1>1, <1>2 DEF Proxy!NoPicks, Ago

\* A pick goes on with it: it completes the rotation when all others were picked.
LEMMA RotationGoesOn ==
  ASSUME NEW cand \in Seq(Proxy!Servers), NoneTwice(cand), Len(cand) > 0, NEW at \in Nat,
         NEW counts \in [Proxy!Servers -> Nat], Rotation(cand, at, counts)
  PROVE  /\ Proxy!NextCursor(at, cand) \in Nat
         /\ Proxy!Counted(counts, Proxy!RoundRobin(at, cand), Proxy!ToSet(cand)) \in [Proxy!Servers -> Nat]
         /\ Rotation(cand, Proxy!NextCursor(at, cand),
                     Proxy!Counted(counts, Proxy!RoundRobin(at, cand), Proxy!ToSet(cand)))
  <1> DEFINE n == Len(cand)
             c == at % n
             new == Proxy!NextCursor(at, cand)
             s == Proxy!RoundRobin(at, cand)
             S == Proxy!ToSet(cand)
             counted == Proxy!Counted(counts, s, S)
             raised == [counts EXCEPT ![s] = @ + 1]
  <1>1. n \in Nat /\ n > 0 /\ \A i \in 1 .. n : cand[i] \in Proxy!Servers
    OBVIOUS
  <1>2. /\ c \in 0 .. (n - 1) /\ new = (IF c = n - 1 THEN 0 ELSE c + 1) /\ new \in 0 .. (n - 1) /\ new % n = new
    <2>1. c \in 0 .. (n - 1) /\ new = (IF c = n - 1 THEN 0 ELSE c + 1)
      BY <1>1, NextModulo DEF Proxy!NextCursor
    <2> HIDE DEF c, new, n
    <2>2. new \in 0 .. (n - 1)
      BY <1>1, <2>1
    <2> QED
      BY <1>1, <2>1, <2>2, ModuloOfLess
  <1>3. s = cand[c + 1] /\ c + 1 \in 1 .. n /\ s \in Proxy!Servers
    BY <1>1, <1>2 DEF Proxy!RoundRobin
  <1>4. S = {cand[i] : i \in 1 .. n}
    BY DEF Proxy!ToSet
  <1>5. PICK m \in 0 .. (n - 1) : \A i \in 1 .. n : counts[cand[i]] = IF Ago(n, c, i) < m THEN 1 ELSE 0
    BY <1>1 DEF Rotation
  <1>6. raised \in [Proxy!Servers -> Nat] /\ \A i \in 1 .. n : raised[cand[i]] = IF i = c + 1 THEN 1 ELSE counts[cand[i]]
    <2>1. Ago(n, c, c + 1) = n - 1
      BY <1>1, <1>2 DEF Ago
    <2>2. counts[s] = 0
      BY <1>1, <1>3, <1>5, <2>1
    <2>3. \A t \in Proxy!Servers : raised[t] = IF t = s THEN counts[t] + 1 ELSE counts[t]
      BY <1>3
    <2>4. \A i \in 1 .. n : cand[i] = s <=> i = c + 1
      BY <1>3 DEF NoneTwice
    <2> HIDE DEF n, c, s, raised
    <2>5. \A i \in 1 .. n : raised[cand[i]] = IF i = c + 1 THEN 1 ELSE counts[cand[i]]
      BY <1>1, <2>2, <2>3, <2>4
    <2>6. raised \in [Proxy!Servers -> Nat]
      BY <1>3 DEF raised
    <2> QED
      BY <2>5, <2>6
  <1>7. counted = IF \A t \in S : raised[t] > 0 THEN [t \in Proxy!Servers |-> IF t \in S THEN raised[t] - 1 ELSE raised[t]]
                  ELSE raised
    BY DEF Proxy!Counted
  <1> HIDE DEF n, c, new, s, S, counted, raised
  \* The one that is picked is the newest; of the others the last pick is one longer ago.
  <1>8. /\ Ago(n, new, c + 1) = 0
        /\ \A i \in 1 .. n : i # c + 1 => Ago(n, new, i) = Ago(n, c, i) + 1
        /\ \A i \in 1 .. n : Ago(n, c, i) \in 0 .. (n - 1)
    BY <1>1, <1>2 DEF Ago
  <1>9. \A i \in 1 .. n : raised[cand[i]] = IF Ago(n, new, i) < m + 1 THEN 1 ELSE 0
    BY <1>5, <1>6, <1>8
  <1>10. CASE m + 1 = n
    <2>1. \A i \in 1 .. n : Ago(n, new, i) < m + 1
      BY <1>1, <1>2, <1>10 DEF Ago
    <2>2. \A t \in S : raised[t] = 1
      BY <1>4, <1>9, <2>1
    <2>3. counted = [t \in Proxy!Servers |-> IF t \in S THEN raised[t] - 1 ELSE raised[t]]
      BY <1>7, <2>2
    <2>4. counted \in [Proxy!Servers -> Nat]
      <3>1. \A t \in Proxy!Servers : t \in S => raised[t] - 1 = 0
        BY <2>2
      <3> QED
        BY <1>6, <2>3, <3>1
    <2>5. \A i \in 1 .. n : counted[cand[i]] = 0
      <3>1. \A i \in 1 .. n : cand[i] \in S /\ cand[i] \in Proxy!Servers
        BY <1>1, <1>4
      <3>2. \A t \in Proxy!Servers : t \in S => counted[t] = 0
        BY <2>2, <2>3
      <3> QED
        BY <3>1, <3>2
    <2>6. \A i \in 1 .. n : ~(Ago(n, new, i) < 0)
      BY <1>1, <1>2 DEF Ago
    <2>7. Rotation(cand, new, counted)
      <3>1. 0 \in 0 .. (n - 1)
        BY <1>1
      <3>2. \A i \in 1 .. n : counted[cand[i]] = IF Ago(n, new % n, i) < 0 THEN 1 ELSE 0
        BY <1>2, <2>5, <2>6
      <3> QED
        BY <3>1, <3>2 DEF Rotation, n
    <2> QED
      BY <1>2, <2>4, <2>7 DEF new, counted, s, S
  <1>11. CASE m + 1 # n
    <2>1. \E i \in 1 .. n : ~(Ago(n, new, i) < m + 1)
      <3>1. Ago(n, new, new + 1) = n - 1 /\ new + 1 \in 1 .. n
        BY <1>1, <1>2 DEF Ago
      <3> QED
        BY <1>1, <1>11, <3>1
    <2>2. counted = raised
      BY <1>4, <1>7, <1>9, <2>1
    <2>3. m + 1 \in 0 .. (n - 1)
      BY <1>1, <1>11
    <2>4. Rotation(cand, new, counted)
      BY <1>2, <1>9, <2>2, <2>3 DEF Rotation, n
    <2> QED
      BY <1>2, <1>6, <2>2, <2>4 DEF new, counted, s, S
  <1> QED
    BY <1>10, <1>11

\* What is available of upstreams that are listed once is a list of them, each once.
LEMMA AvailableIsOnce ==
  ASSUME NEW V, NEW servers \in Seq(V), NoneTwice(servers), NEW map
  PROVE  Proxy!Available(servers, map) \in Seq(V) /\ NoneTwice(Proxy!Available(servers, map))
  <1> DEFINE n == Len(servers)
             Loop(i, v) == IF Proxy!IsAvailableHealth(map[servers[i]]) THEN Append(v, servers[i]) ELSE v
             Step(g, i) == IF i = 0 THEN <<>> ELSE Loop(i, g[i - 1])
             kept == CHOOSE g : g = [i \in 0 .. n |-> Step(g, i)]
             F == [x \in (1 .. n) \X Seq(V) |-> Loop(x[1], x[2])]
  <1>1. n \in Nat /\ \A i \in 1 .. n : servers[i] \in V
    OBVIOUS
  <1>2. \A i \in 1 .. n, v \in Seq(V) : Loop(i, v) \in Seq(V)
    BY <1>1, AppendProperties
  <1>3. PICK g : Recursion(g, n, Seq(V), <<>>, F)
    <2>1. StepFunction(F, n, Seq(V))
      BY <1>2 DEF StepFunction
    <2>2. <<>> \in Seq(V)
      OBVIOUS
    <2> HIDE DEF F, n
    <2> QED
      BY <1>1, <2>1, <2>2, RecursionExists
  <1>4. \A i \in 1 .. n : g[i] = Loop(i, g[i - 1])
    <2> SUFFICES ASSUME NEW i \in 1 .. n PROVE g[i] = Loop(i, g[i - 1])
      OBVIOUS
    <2>1. g \in [0 .. n -> Seq(V)] /\ g[i] = F[<<i, g[i - 1]>>]
      BY <1>3 DEF Recursion
    <2>2. g[i - 1] \in Seq(V)
      <3>1. i - 1 \in 0 .. n
        BY <1>1
      <3> HIDE DEF F, n
      <3> QED
        BY <2>1, <3>1
    <2> HIDE DEF n, Loop
    <2> QED
      BY <2>1, <2>2
  <1>5. g = [i \in 0 .. n |-> Step(g, i)]
    <2>1. g \in [0 .. n -> Seq(V)] /\ g[0] = <<>>
      BY <1>3 DEF Recursion
    <2> HIDE DEF Loop, F
    <2> QED
      BY <1>1, <1>4, <2>1
  <1>6. kept = [i \in 0 .. n |-> Step(kept, i)]
    <2> HIDE DEF Step, n
    <2> QED
      BY <1>5
  <1>7. Proxy!Available(servers, map) = kept[n]
    BY DEF Proxy!Available
  <1> HIDE DEF kept, F, Loop
  <1>8. kept[0] = <<>> /\ \A i \in 1 .. n : kept[i] = Loop(i, kept[i - 1])
    BY <1>1, <1>6
  <1> DEFINE OfTheFirst(k, v) == /\ v \in Seq(V) /\ NoneTwice(v)
                                 /\ \A j \in 1 .. Len(v) : \E i \in 1 .. k : v[j] = servers[i]
             S == {k \in Nat : k <= n => OfTheFirst(k, kept[k])}
  <1>9. 0 \in S
    <2>1. OfTheFirst(0, <<>>)
      BY DEF NoneTwice
    <2> HIDE DEF OfTheFirst
    <2> QED
      BY <1>8, <2>1
  <1>10. ASSUME NEW k \in Nat, k \in S PROVE k + 1 \in S
    <2> SUFFICES ASSUME k + 1 <= n PROVE OfTheFirst(k + 1, kept[k + 1])
      OBVIOUS
    <2> DEFINE v == kept[k]
    <2>1. OfTheFirst(k, v) /\ k + 1 \in 1 .. n
      BY <1>1, <1>10
    <2>2. kept[k + 1] = Loop(k + 1, v)
      BY <1>8, <2>1
    <2> HIDE DEF v
    <2>3. \A j \in 1 .. Len(v) : v[j] # servers[k + 1]
      <3> SUFFICES ASSUME NEW j \in 1 .. Len(v), v[j] = servers[k + 1] PROVE FALSE
        OBVIOUS
      <3>1. PICK i \in 1 .. k : v[j] = servers[i]
        BY <2>1
      <3>2. i \in 1 .. n /\ i # k + 1 /\ servers[i] = servers[k + 1]
        BY <1>1, <2>1, <3>1
      <3> HIDE DEF OfTheFirst
      <3> QED
        BY <2>1, <3>2 DEF NoneTwice
    <2>4. CASE Loop(k + 1, v) = v
      <3>1. \A i \in 1 .. k : i \in 1 .. (k + 1)
        OBVIOUS
      <3> QED
        BY <2>1, <2>2, <2>4, <3>1
    <2>5. CASE Loop(k + 1, v) = Append(v, servers[k + 1])
      <3> DEFINE w == Append(v, servers[k + 1])
      <3>1. /\ w \in Seq(V) /\ Len(w) = Len(v) + 1 /\ w[Len(v) + 1] = servers[k + 1] /\ Len(v) \in Nat
            /\ \A j \in 1 .. Len(v) : w[j] = v[j]
        BY <1>1, <2>1, AppendProperties
      <3> HIDE DEF w
      <3>2. NoneTwice(w)
        BY <2>1, <2>3, <3>1 DEF NoneTwice
      <3>3. ASSUME NEW j \in 1 .. Len(w) PROVE \E i \in 1 .. (k + 1) : w[j] = servers[i]
        <4>1. CASE j = Len(v) + 1
          BY <3>1, <4>1
        <4>2. CASE j \in 1 .. Len(v)
          <5>1. PICK i \in 1 .. k : v[j] = servers[i]
            BY <2>1, <4>2
          <5> QED
            BY <3>1, <4>2, <5>1
        <4> QED
          BY <3>1, <4>1, <4>2
      <3> QED
        BY <2>2, <2>5, <3>1, <3>2, <3>3 DEF w
    <2> QED
      BY <2>4, <2>5 DEF Loop
  <1>11. n \in S
    <2> HIDE DEF S, n
    <2> QED
      BY <1>1, <1>9, <1>10, InductiveSet
  <1> QED
    BY <1>1, <1>7, <1>11

-----------------------------------------------------------------------------

\* Every pool lists its upstreams once, and those of them that are available are its candidates.
PoolsOK == upstreams \in [Proxy!Pools -> Seq(Proxy!Servers)] /\ \A p \in Proxy!Pools : NoneTwice(upstreams[p])
Candidates(p) == Proxy!Available(upstreams[p], health)

\* Since the candidates of a pool changed, its picks are complete rotations and a
\* part of one that ends at the cursor.
RotationInv ==
  /\ PoolsOK
  /\ cursor \in [Proxy!Pools -> Nat] /\ picks \in [Proxy!Pools -> [Proxy!Servers -> Nat]]
  /\ \A p \in Proxy!Pools : Rotation(Candidates(p), cursor[p], picks[p])

LEMMA CandidatesOnce ==
  ASSUME PoolsOK, NEW p \in Proxy!Pools
  PROVE  Candidates(p) \in Seq(Proxy!Servers) /\ NoneTwice(Candidates(p))
  BY AvailableIsOnce DEF PoolsOK, Candidates

LEMMA PoolTablesOK ==
  ASSUME NEW table \in PoolTables \cup {Upstreams}
  PROVE  table \in [Proxy!Pools -> Seq(Proxy!Servers)] /\ \A p \in Proxy!Pools : NoneTwice(table[p])
  <1>1. /\ table \in [Proxy!Pools -> Seq(Proxy!Servers)]
        /\ \A p \in Proxy!Pools : \A i, j \in DOMAIN table[p] : table[p][i] = table[p][j] => i = j
    BY ProxyAssumption
  <1> SUFFICES ASSUME NEW p \in Proxy!Pools PROVE NoneTwice(table[p])
    BY <1>1
  <1>2. table[p] \in Seq(Proxy!Servers)
    BY <1>1
  <1>3. DOMAIN table[p] = 1 .. Len(table[p])
    BY <1>2
  <1> QED
    BY <1>1, <1>3 DEF NoneTwice

LEMMA RotationInit == Proxy!Init => RotationInv
  <1> SUFFICES ASSUME Proxy!Init PROVE RotationInv
    OBVIOUS
  <1>1. /\ upstreams = Upstreams /\ cursor = [p \in Proxy!Pools |-> 0]
        /\ picks = [p \in Proxy!Pools |-> Proxy!NoPicks]
    BY DEF Proxy!Init
  <1>2. PoolsOK
    BY <1>1, PoolTablesOK DEF PoolsOK
  <1>3. Proxy!NoPicks \in [Proxy!Servers -> Nat]
    BY DEF Proxy!NoPicks
  <1>4. \A p \in Proxy!Pools : Rotation(Candidates(p), cursor[p], picks[p])
    BY <1>1, <1>2, CandidatesOnce, NewRotation
  <1> QED
    BY <1>1, <1>2, <1>3, <1>4 DEF RotationInv

\* What changes the health or the upstreams begins the rotations anew that it changes.
LEMMA RotationsStep ==
  ASSUME RotationInv, PoolsOK', cursor' = cursor,
         picks' = [p \in Proxy!Pools |-> IF Candidates(p)' = Candidates(p) THEN picks[p] ELSE Proxy!NoPicks]
  PROVE  RotationInv'
  <1>1. Proxy!NoPicks \in [Proxy!Servers -> Nat]
    BY DEF Proxy!NoPicks
  <1>2. ASSUME NEW p \in Proxy!Pools PROVE Rotation(Candidates(p)', cursor'[p], picks'[p])
    <2>1. Candidates(p)' \in Seq(Proxy!Servers)
      BY AvailableIsOnce DEF PoolsOK, Candidates
    <2>2. cursor'[p] \in Nat /\ Rotation(Candidates(p), cursor[p], picks[p])
      BY DEF RotationInv
    <2>3. picks'[p] = IF Candidates(p)' = Candidates(p) THEN picks[p] ELSE Proxy!NoPicks
      OBVIOUS
    <2> QED
      BY <2>1, <2>2, <2>3, NewRotation
  <1>3. picks' \in [Proxy!Pools -> [Proxy!Servers -> Nat]]
    BY <1>1 DEF RotationInv
  <1>4. (\A p \in Proxy!Pools : Rotation(Candidates(p), cursor[p], picks[p]))'
    BY <1>2 DEF Rotation, Candidates
  <1> QED
    BY <1>3, <1>4 DEF RotationInv

LEMMA ForwardStep ==
  ASSUME RotationInv, NEW r \in Requests, NEW path \in Paths, Proxy!Forward(r, path)
  PROVE  RotationInv'
  <1> DEFINE context == Proxy!DecisionContext(routes, upstreams, health, path)
             p == context.pool
             decision == Proxy!Decide(context, strategy, cursor[p])
  <1>1. /\ context.candidates # <<>> /\ UNCHANGED <<upstreams, health>>
        /\ cursor' = [cursor EXCEPT ![p] = decision.cursor]
        /\ picks' = IF strategy # "round-robin" THEN picks
                    ELSE [picks EXCEPT ![p] = Proxy!Counted(@, decision.upstream, Proxy!ToSet(context.candidates))]
    BY DEF Proxy!Forward
  <1>2. context.candidates = IF p \in DOMAIN upstreams THEN Proxy!Available(upstreams[p], health) ELSE <<>>
    BY DEF Proxy!DecisionContext
  <1>3. PoolsOK /\ PoolsOK'
    BY <1>1 DEF RotationInv, PoolsOK
  <1>4. p \in Proxy!Pools /\ context.candidates = Candidates(p)
    BY <1>1, <1>2, <1>3 DEF PoolsOK, Candidates
  <1>5. \A q \in Proxy!Pools : Candidates(q)' = Candidates(q)
    BY <1>1 DEF Candidates
  <1> DEFINE cand == Candidates(p)
  <1>6. cand \in Seq(Proxy!Servers) /\ NoneTwice(cand) /\ Len(cand) > 0
    BY <1>1, <1>3, <1>4, CandidatesOnce
  <1>7. cursor[p] \in Nat /\ picks[p] \in [Proxy!Servers -> Nat] /\ Rotation(cand, cursor[p], picks[p])
    BY <1>4 DEF RotationInv
  <1>8. CASE strategy = "round-robin"
    <2> DEFINE next == Proxy!NextCursor(cursor[p], cand)
               counts == Proxy!Counted(picks[p], Proxy!RoundRobin(cursor[p], cand), Proxy!ToSet(cand))
    <2>1. decision.cursor = next /\ decision.upstream = Proxy!RoundRobin(cursor[p], cand)
      BY <1>4, <1>8 DEF Proxy!Decide, Proxy!SelectUpstream
    <2>2. next \in Nat /\ counts \in [Proxy!Servers -> Nat] /\ Rotation(cand, next, counts)
      <3> HIDE DEF cand, context, p
      <3> QED
        BY <1>6, <1>7, RotationGoesOn
    <2>3. cursor' = [cursor EXCEPT ![p] = next] /\ picks' = [picks EXCEPT ![p] = counts]
      BY <1>1, <1>4, <1>8, <2>1 DEF RotationInv
    <2> HIDE DEF next, counts, cand, context, p, decision
    <2>4. /\ cursor' \in [Proxy!Pools -> Nat] /\ picks' \in [Proxy!Pools -> [Proxy!Servers -> Nat]]
          /\ \A q \in Proxy!Pools : /\ cursor'[q] = IF q = p THEN next ELSE cursor[q]
                                   /\ picks'[q] = IF q = p THEN counts ELSE picks[q]
      BY <1>4, <2>2, <2>3 DEF RotationInv
    <2>5. (\A q \in Proxy!Pools : Rotation(Candidates(q), cursor[q], picks[q]))'
      <3> SUFFICES ASSUME NEW q \in Proxy!Pools PROVE Rotation(Candidates(q)', cursor'[q], picks'[q])
        BY DEF Rotation
      <3> QED
        BY <1>5, <2>2, <2>4 DEF RotationInv, cand
    <2> QED
      BY <1>3, <2>4, <2>5 DEF RotationInv
  <1>9. CASE strategy # "round-robin"
    <2>1. decision.cursor = cursor[p]
      BY <1>9 DEF Proxy!Decide
    <2> HIDE DEF p, decision, context, cand
    <2>2. cursor' = cursor /\ picks' = picks
      BY <1>1, <1>4, <1>9, <2>1 DEF RotationInv
    <2>3. (\A q \in Proxy!Pools : Rotation(Candidates(q), cursor[q], picks[q]))'
      <3> SUFFICES ASSUME NEW q \in Proxy!Pools PROVE Rotation(Candidates(q)', cursor'[q], picks'[q])
        BY DEF Rotation
      <3> QED
        BY <1>5, <2>2 DEF RotationInv
    <2> QED
      BY <1>3, <2>2, <2>3 DEF RotationInv
  <1> QED
    BY <1>8, <1>9

LEMMA RotationStep ==
  ASSUME RotationInv, [Proxy!Next]_(Proxy!vars)
  PROVE  RotationInv'
  <1>1. ASSUME UNCHANGED <<upstreams, cursor, health, picks>> PROVE RotationInv'
    <2>1. PoolsOK'
      BY <1>1 DEF RotationInv, PoolsOK
    <2>2. (\A p \in Proxy!Pools : Rotation(Candidates(p), cursor[p], picks[p]))'
      <3> SUFFICES ASSUME NEW p \in Proxy!Pools PROVE Rotation(Candidates(p)', cursor'[p], picks'[p])
        BY DEF Rotation
      <3> QED
        BY <1>1 DEF RotationInv, Candidates
    <2> QED
      BY <1>1, <2>1, <2>2 DEF RotationInv
  <1>2. ASSUME NEW s, NEW h, Proxy!SetHealth(s, h), UNCHANGED <<upstreams, cursor>> PROVE RotationInv'
    <2>1. PoolsOK'
      BY <1>2 DEF RotationInv, PoolsOK
    <2>2. picks' = [p \in Proxy!Pools |-> IF Candidates(p)' = Candidates(p) THEN picks[p] ELSE Proxy!NoPicks]
      BY <1>2 DEF Proxy!SetHealth, Proxy!Rotations, Candidates
    <2> QED
      BY <1>2, <2>1, <2>2, RotationsStep
  <1>3. CASE Proxy!Start \/ Proxy!Tick \/ Proxy!UpstreamAnswers \/ Proxy!RequestsEnd \/ Proxy!Close \/ Proxy!Closed
             \/ UNCHANGED Proxy!vars
    BY <1>1, <1>3 DEF Proxy!vars, Proxy!signals, Proxy!Start, Proxy!StartUpstream, Proxy!StartUpstreamFails,
      Proxy!StartHealthChecks, Proxy!Listen, Proxy!ListenFails, Proxy!Tick, Proxy!UpstreamAnswers,
      Proxy!UpstreamAnswersProbe, Proxy!RequestsEnd, Proxy!RequestEnds, Proxy!Close, Proxy!Closed
  <1>4. ASSUME NEW s \in Proxy!Servers, NEW i \in DOMAIN probes[s], Proxy!ProbeAnswered(s, i) PROVE RotationInv'
    BY <1>2, <1>4 DEF Proxy!ProbeAnswered
  <1>5. ASSUME NEW s \in Proxy!Servers, NEW i \in DOMAIN probes[s], Proxy!ProbeFails(s, i) PROVE RotationInv'
    BY <1>2, <1>5 DEF Proxy!ProbeFails
  <1>6. CASE Proxy!Changes
    <2>1. ASSUME NEW s \in Proxy!Servers, Proxy!ToggleHealth(s) PROVE RotationInv'
      BY <1>1, <2>1 DEF Proxy!ToggleHealth, Proxy!signals
    <2>2. ASSUME NEW s \in Proxy!Servers, NEW h, Proxy!SetServerHealth(s, h) PROVE RotationInv'
      BY <1>2, <2>2 DEF Proxy!SetServerHealth
    <2>3. ASSUME NEW table, Proxy!ReplaceRoutes(table) PROVE RotationInv'
      BY <1>1, <2>3 DEF Proxy!ReplaceRoutes
    <2>4. ASSUME NEW table \in PoolTables, Proxy!ReplaceUpstreams(table) PROVE RotationInv'
      <3>1. upstreams' = table /\ UNCHANGED <<cursor, health>> /\ Proxy!Rotations(table, health)
        BY <2>4 DEF Proxy!ReplaceUpstreams
      <3>2. PoolsOK'
        BY <3>1, PoolTablesOK DEF PoolsOK
      <3>3. picks' = [p \in Proxy!Pools |-> IF Candidates(p)' = Candidates(p) THEN picks[p] ELSE Proxy!NoPicks]
        BY <3>1 DEF Proxy!Rotations, Candidates
      <3> QED
        BY <3>1, <3>2, <3>3, RotationsStep
    <2>5. ASSUME NEW next, Proxy!SetTrafficPolicy(next) PROVE RotationInv'
      BY <1>1, <2>5 DEF Proxy!SetTrafficPolicy
    <2>6. CASE Proxy!ResetRoundRobinCursor
      <3>1. /\ cursor' = [p \in Proxy!Pools |-> 0] /\ picks' = [p \in Proxy!Pools |-> Proxy!NoPicks]
            /\ UNCHANGED <<upstreams, health>>
        BY <2>6 DEF Proxy!ResetRoundRobinCursor
      <3>2. PoolsOK /\ PoolsOK'
        BY <3>1 DEF RotationInv, PoolsOK
      <3>3. Proxy!NoPicks \in [Proxy!Servers -> Nat]
        BY DEF Proxy!NoPicks
      <3>4. (\A p \in Proxy!Pools : Rotation(Candidates(p), cursor[p], picks[p]))'
        <4> SUFFICES ASSUME NEW p \in Proxy!Pools PROVE Rotation(Candidates(p)', cursor'[p], picks'[p])
          BY DEF Rotation
        <4>1. Candidates(p)' \in Seq(Proxy!Servers)
          BY <3>1, <3>2, CandidatesOnce DEF Candidates
        <4> QED
          BY <3>1, <4>1, NewRotation
      <3> QED
        BY <3>1, <3>2, <3>3, <3>4 DEF RotationInv
    <2> QED
      BY <1>6, <2>1, <2>2, <2>3, <2>4, <2>5, <2>6 DEF Proxy!Changes
  <1> QED
    BY <1>3, <1>4, <1>5, <1>6, ForwardStep DEF Proxy!Next, Proxy!ProbeEnds

\* In every reachable state, for any number of upstreams: as long as the candidates of
\* a pool stay the same, none of them is picked a second time more than another.
\* The cursor counts on over all picks, so a rotation begins where the last one ended
\* (policy.ts:14-31).
THEOREM ProxyRotationIsFair == Proxy!Spec => []RotationIsFair
  <1>1. Proxy!Init => RotationInv
    BY RotationInit
  <1>2. RotationInv /\ [Proxy!Next]_(Proxy!vars) => RotationInv'
    BY RotationStep
  <1>3. RotationInv => RotationIsFair
    <2> SUFFICES ASSUME RotationInv, NEW p \in Proxy!Pools,
                        NEW s \in Proxy!ToSet(Candidates(p)), NEW t \in Proxy!ToSet(Candidates(p))
                 PROVE  picks[p][s] - picks[p][t] <= 1
      BY DEF RotationIsFair, Proxy!RotationIsFair, Candidates
    <2> DEFINE cand == Candidates(p)
    <2>1. cand \in Seq(Proxy!Servers)
      BY CandidatesOnce DEF RotationInv
    <2>2. PICK i \in 1 .. Len(cand), j \in 1 .. Len(cand) : s = cand[i] /\ t = cand[j]
      BY <2>1 DEF Proxy!ToSet
    <2>3. Rotation(cand, cursor[p], picks[p]) /\ Len(cand) > 0
      BY <2>1, <2>2 DEF RotationInv
    <2> HIDE DEF cand
    <2>4. \A k \in 1 .. Len(cand) : picks[p][cand[k]] \in {0, 1}
      BY <2>3 DEF Rotation
    <2>5. picks[p][s] \in {0, 1} /\ picks[p][t] \in {0, 1}
      BY <2>2, <2>4
    <2> QED
      BY <2>5
  <1> QED
    BY <1>1, <1>2, <1>3, PTL DEF Proxy!Spec

-----------------------------------------------------------------------------
(* Resources: a result is fresh *)

\* The server, the writes and the query have their types; an announced version is one it has.
ServerOK ==
  /\ server \in [Keys -> Nat] /\ announced \in [Keys -> Nat]
  /\ \A k \in Keys : announced[k] <= server[k]

WriterOK ==
  /\ runs \in 0 .. MaxRuns /\ wToken \in 0 .. runs
  /\ wInput \in [Queries!Writes -> Keys \cup {NoKey}]
  /\ write \in [Queries!Writes -> {"none", "sent", "written", "done"}]
  /\ \A w \in Queries!Writes : IF w <= wToken THEN wInput[w] \in Keys ELSE write[w] = "none"
  /\ wToken > 0 => latestInput \in Keys
  /\ handler \in 0 .. wToken

ReaderOK ==
  /\ key \in Keys /\ observed \in Keys /\ stale \in BOOLEAN /\ effects \in Seq(Keys) /\ derailed \in BOOLEAN
  /\ token \in Queries!Fetches
  /\ input \in [Queries!Fetches -> Keys \cup {NoKey}]
  /\ \A t \in Queries!Fetches : IF t <= token THEN input[t] \in Keys ELSE query[t] = "none"
  /\ query \in [Queries!Fetches -> {"none", "sent", "read", "done"}]
  /\ answered \in [Queries!Fetches -> Nat]

\* The writes that may still invalidate, and with them the runs of the query to come.
Unanswered == {w \in Queries!Writes : write[w] \in {"sent", "written"}}
AsNumber(b) == IF b THEN 1 ELSE 0

\* Every run of the query is due to the creation, or to a call that is counted: so the
\* bound on calls is one on runs.
RunsAreCalled ==
  token + Len(effects) + AsNumber(stale) + AsNumber(handler # 0) + Cardinality(Unanswered) <= 1 + runs

\* The run of the effect inside cancel(), and the run of the query after it, are
\* for the key that is asked for, or the effect is scheduled.
Follows ==
  /\ ~stale => observed = key
  /\ ~derailed => Len(effects) <= 1
  /\ ~derailed /\ ~stale /\ effects # <<>> => effects[1] = key
  /\ ~derailed /\ ~stale /\ effects = <<>> => input[token] = key

\* What it has read, and what it shows, is no older than what was announced.
NoOlder ==
  ~derailed /\ ~stale /\ effects = <<>> =>
    /\ query[token] = "read" => answered[token] >= announced[key]
    /\ queryStatus = "success" => value.key = key /\ value.version >= announced[key]

QueriesInv == ServerOK /\ WriterOK /\ ReaderOK /\ RunsAreCalled /\ Follows /\ NoOlder

LEMMA QueriesInitInv == Queries!Init => QueriesInv
  <1> SUFFICES ASSUME Queries!Init PROVE QueriesInv
    OBVIOUS
  <1> USE ResourcesAssumption DEF Queries!Init, Queries!Writes, Queries!Fetches
  <1>1. ServerOK
    BY DEF ServerOK
  <1>2. WriterOK
    BY DEF WriterOK
  <1>3. ReaderOK
    <2>1. token \in Queries!Fetches /\ effects \in Seq(Keys)
      OBVIOUS
    <2>2. /\ input \in [Queries!Fetches -> Keys \cup {NoKey}]
          /\ query \in [Queries!Fetches -> {"none", "sent", "read", "done"}]
          /\ answered \in [Queries!Fetches -> Nat]
      OBVIOUS
    <2>3. \A t \in Queries!Fetches : IF t <= token THEN input[t] \in Keys ELSE query[t] = "none"
      OBVIOUS
    <2> QED
      BY <2>1, <2>2, <2>3 DEF ReaderOK
  <1>4. RunsAreCalled
    <2>1. Unanswered = {}
      BY DEF Unanswered
    <2> QED
      BY <2>1, FS_EmptySet DEF RunsAreCalled, AsNumber
  <1>5. Follows /\ NoOlder
    BY DEF Follows, NoOlder
  <1> QED
    BY <1>1, <1>2, <1>3, <1>4, <1>5 DEF QueriesInv

LEMMA UnansweredFinite == IsFiniteSet(Unanswered) /\ Cardinality(Unanswered) \in Nat
  <1>1. IsFiniteSet(Queries!Writes)
    BY ResourcesAssumption, FS_Interval DEF Queries!Writes
  <1>2. IsFiniteSet(Unanswered)
    BY <1>1, FS_Subset DEF Unanswered
  <1> QED
    BY <1>2, FS_CardinalityType

LEMMA UnansweredShrinks ==
  ASSUME NEW w \in Unanswered, Unanswered' = Unanswered \ {w}
  PROVE  Cardinality(Unanswered') = Cardinality(Unanswered) - 1
  BY UnansweredFinite, FS_RemoveElement

LEMMA UnansweredGrows ==
  ASSUME NEW w, Unanswered' = Unanswered \cup {w}
  PROVE  Cardinality(Unanswered') \in Nat /\ Cardinality(Unanswered') <= Cardinality(Unanswered) + 1
  BY UnansweredFinite, FS_AddElement

\* The innermost run of the effect.
LEMMA EffectsFront ==
  ASSUME ReaderOK, effects # <<>>
  PROVE  /\ Len(effects) \in Nat /\ Len(effects) > 0 /\ Queries!Last(effects) \in Keys
         /\ Queries!Front(effects) \in Seq(Keys) /\ Len(Queries!Front(effects)) = Len(effects) - 1
  <1>1. effects \in Seq(Keys) /\ Len(effects) \in Nat /\ Len(effects) > 0
    <2>1. effects \in Seq(Keys)
      BY DEF ReaderOK
    <2> QED
      BY <2>1, LenProperties, EmptySeq
  <1>2. \A i \in 1 .. Len(effects) : effects[i] \in Keys
    BY <1>1
  <1>3. \A i \in 1 .. (Len(effects) - 1) : effects[i] \in Keys
    BY <1>1, <1>2
  <1>4. 1 \in Int /\ Len(effects) - 1 \in Int
    BY <1>1
  <1>5. /\ SubSeq(effects, 1, Len(effects) - 1) \in Seq(Keys)
        /\ Len(SubSeq(effects, 1, Len(effects) - 1)) =
             IF 1 <= Len(effects) - 1 THEN (Len(effects) - 1) - 1 + 1 ELSE 0
    BY ONLY <1>3, <1>4, SubSeqProperties
  <1>6. Queries!Last(effects) \in Keys
    BY <1>1, <1>2 DEF Queries!Last
  <1>7. Queries!Front(effects) = SubSeq(effects, 1, Len(effects) - 1)
    BY DEF Queries!Front
  <1> DEFINE front == SubSeq(effects, 1, Len(effects) - 1)
             n == Len(effects)
  <1>8. n \in Nat /\ n > 0 /\ Len(front) = IF 1 <= n - 1 THEN (n - 1) - 1 + 1 ELSE 0
    BY <1>1, <1>5
  <1> HIDE DEF front, n
  <1>9. Len(front) = n - 1
    BY <1>8
  <1> QED
    BY <1>1, <1>5, <1>6, <1>7, <1>9 DEF front, n

\* A run of the query for one of the keys, where there was room for it.
LEMMA QueryRunOK ==
  ASSUME QueriesInv, NEW k \in Keys, token < 1 + MaxRuns, Queries!QueryRun(k)
  PROVE  /\ token' = token + 1 /\ token' \in Queries!Fetches
         /\ input' \in [Queries!Fetches -> Keys \cup {NoKey}]
         /\ \A t \in Queries!Fetches : IF t <= token' THEN input'[t] \in Keys ELSE query'[t] = "none"
         /\ query' \in [Queries!Fetches -> {"none", "sent", "read", "done"}]
         /\ answered' \in [Queries!Fetches -> Nat]
         /\ input'[token'] = k /\ query'[token'] = "sent" /\ queryStatus' = "pending"
  BY ResourcesAssumption DEF QueriesInv, ReaderOK, Queries!QueryRun, Queries!Fetches

LEMMA QueriesStepInv == QueriesInv /\ [Queries!Next]_(Queries!vars) => QueriesInv'
  <1> SUFFICES ASSUME QueriesInv, [Queries!Next]_(Queries!vars) PROVE QueriesInv'
    OBVIOUS
  <1> USE DEF QueriesInv, Queries!manual, Queries!effect, Queries!query, Queries!ghosts
  <1>t. runs \in 0 .. MaxRuns /\ MaxRuns \in Nat /\ token \in Nat /\ Len(effects) \in Nat /\ stale \in BOOLEAN
        /\ IsFiniteSet(Unanswered) /\ Cardinality(Unanswered) \in Nat
    BY UnansweredFinite, ResourcesAssumption DEF WriterOK, ReaderOK, Queries!Fetches
  <1>1. ASSUME NEW w \in Queries!Writes, Queries!ServerWrites(w) PROVE QueriesInv'
    <2>1. wInput[w] \in Keys
      BY <1>1 DEF WriterOK, Queries!ServerWrites
    <2>2. ServerOK'
      BY <1>1, <2>1 DEF ServerOK, Queries!ServerWrites
    <2>3. WriterOK'
      BY <1>1 DEF WriterOK, Queries!ServerWrites
    <2>4. Unanswered' = Unanswered
      BY <1>1 DEF WriterOK, Unanswered, Queries!ServerWrites
    <2>5. ReaderOK' /\ RunsAreCalled' /\ Follows' /\ NoOlder'
      BY <1>1, <2>4 DEF ReaderOK, RunsAreCalled, Follows, NoOlder, Queries!ServerWrites
    <2> QED
      BY <2>2, <2>3, <2>5
  <1>2. ASSUME NEW t \in Queries!Fetches, Queries!ServerReads(t) PROVE QueriesInv'
    <2>1. input[t] \in Keys /\ server[input[t]] \in Nat
      BY <1>2 DEF ServerOK, ReaderOK, Queries!ServerReads
    <2>2. ReaderOK'
      BY <1>2, <2>1 DEF ReaderOK, Queries!ServerReads
    <2>3. NoOlder'
      BY <1>2, <2>1 DEF ServerOK, ReaderOK, Follows, NoOlder, Queries!ServerReads
    <2>4. ServerOK' /\ WriterOK' /\ RunsAreCalled' /\ Follows'
      BY <1>2 DEF ServerOK, WriterOK, RunsAreCalled, Follows, Unanswered, Queries!ServerReads
    <2> QED
      BY <2>2, <2>3, <2>4
  <1>3. ASSUME NEW k \in Keys, Queries!WriteRun(k) PROVE QueriesInv'
    <2>1. WriterOK'
      BY <1>3, <1>t DEF WriterOK, Queries!WriteRun, Queries!Writes
    <2>2. Unanswered' = Unanswered \cup {wToken + 1}
      BY <1>3, <1>t DEF WriterOK, Unanswered, Queries!WriteRun, Queries!Writes
    <2>3. RunsAreCalled'
      <3>1. Cardinality(Unanswered)' \in Nat /\ Cardinality(Unanswered)' <= Cardinality(Unanswered) + 1
        BY <2>2, UnansweredGrows
      <3> QED
        BY <1>3, <1>t, <3>1 DEF RunsAreCalled, AsNumber, Queries!WriteRun
    <2>4. ServerOK' /\ ReaderOK' /\ Follows' /\ NoOlder'
      BY <1>3 DEF ServerOK, ReaderOK, Follows, NoOlder, Queries!WriteRun
    <2> QED
      BY <2>1, <2>3, <2>4
  <1>4. CASE Queries!WriteCancel
    BY <1>4 DEF ServerOK, WriterOK, ReaderOK, RunsAreCalled, Unanswered, Follows, NoOlder, Queries!WriteCancel
  <1>5. ASSUME NEW w \in Queries!Writes, Queries!WriteSucceeds(w) \/ Queries!WriteFails(w) PROVE QueriesInv'
    <2>1. w \in Unanswered /\ write' = [write EXCEPT ![w] = "done"] /\ handler = 0
      BY <1>5 DEF Unanswered, Queries!WriteSucceeds, Queries!WriteFails
    <2>2. w <= wToken /\ handler' \in {0, w}
      BY <1>5, <2>1 DEF WriterOK, Unanswered, Queries!WriteSucceeds, Queries!WriteFails, Queries!Writes
    <2>3. Unanswered' = Unanswered \ {w}
      BY <2>1 DEF WriterOK, Unanswered
    <2>4. RunsAreCalled'
      <3>1. Cardinality(Unanswered)' = Cardinality(Unanswered) - 1
        BY <2>1, <2>3, UnansweredShrinks
      <3>2. UNCHANGED <<token, effects, stale, runs>>
        BY <1>5 DEF Queries!WriteSucceeds, Queries!WriteFails
      <3> QED
        BY <1>t, <2>1, <3>1, <3>2 DEF RunsAreCalled, AsNumber
    <2>5. WriterOK'
      BY <1>5, <1>t, <2>1, <2>2 DEF WriterOK, Queries!WriteSucceeds, Queries!WriteFails, Queries!Writes
    <2>6. ServerOK' /\ ReaderOK' /\ Follows' /\ NoOlder'
      BY <1>5 DEF ServerOK, ReaderOK, Follows, NoOlder, Queries!WriteSucceeds, Queries!WriteFails
    <2> QED
      BY <2>4, <2>5, <2>6
  \* Either the key that is read is announced, and the effect scheduled, or another.
  <1>6. CASE Queries!WriteAnnounced
    <2>1. latestInput \in Keys
      BY <1>6, <1>t DEF WriterOK, Queries!WriteAnnounced
    <2>2. ServerOK'
      BY <1>6, <2>1 DEF ServerOK, Queries!WriteAnnounced
    <2>3. WriterOK'
      BY <1>6, <1>t DEF WriterOK, Queries!WriteAnnounced
    <2>4. RunsAreCalled'
      BY <1>6, <1>t DEF RunsAreCalled, AsNumber, Unanswered, Queries!WriteAnnounced, Queries!Invalidate
    <2>5. ReaderOK' /\ Follows'
      BY <1>6 DEF ReaderOK, Follows, Queries!WriteAnnounced, Queries!Invalidate
    <2>6. NoOlder'
      BY <1>6, <2>1 DEF ServerOK, ReaderOK, Follows, NoOlder, Queries!WriteAnnounced, Queries!Invalidate
    <2> QED
      BY <2>2, <2>3, <2>4, <2>5, <2>6
  <1>7. CASE Queries!WriteCallbackThrows
    <2>1. RunsAreCalled'
      BY <1>7, <1>t DEF RunsAreCalled, AsNumber, Unanswered, Queries!WriteCallbackThrows
    <2>2. WriterOK'
      BY <1>7, <1>t DEF WriterOK, Queries!WriteCallbackThrows
    <2>3. ServerOK' /\ ReaderOK' /\ Follows' /\ NoOlder'
      BY <1>7 DEF ServerOK, ReaderOK, Follows, NoOlder, Queries!WriteCallbackThrows
    <2> QED
      BY <2>1, <2>2, <2>3
  <1>8. ASSUME NEW k \in Keys, Queries!SetSource(k) PROVE QueriesInv'
    <2>1. RunsAreCalled'
      BY <1>8, <1>t DEF RunsAreCalled, AsNumber, Unanswered, Queries!SetSource
    <2>2. WriterOK'
      BY <1>8, <1>t DEF WriterOK, Queries!SetSource
    <2>3. ServerOK' /\ ReaderOK' /\ Follows' /\ NoOlder'
      BY <1>8 DEF ServerOK, ReaderOK, Follows, NoOlder, Queries!SetSource
    <2> QED
      BY <2>1, <2>2, <2>3
  <1>9. CASE Queries!EffectCancels
    <2>1. effects' \in Seq(Keys) /\ Len(effects') = Len(effects) + 1
          /\ (effects = <<>> => effects' # <<>> /\ effects'[1] = key)
      BY <1>9 DEF ReaderOK, Queries!EffectCancels
    <2>2. ReaderOK'
      BY <1>9, <2>1 DEF ReaderOK, Queries!EffectCancels
    <2>3. RunsAreCalled'
      BY <1>9, <1>t, <2>1 DEF RunsAreCalled, AsNumber, Unanswered, Queries!EffectCancels
    <2>4. Follows'
      <3>1. observed' = key /\ key' = key /\ (~derailed' => effects = <<>>)
        BY <1>9 DEF Queries!EffectCancels
      <3>2. ~derailed' => Len(effects') = 1 /\ effects' # <<>> /\ effects'[1] = key
        BY <2>1, <3>1
      <3>3. CASE derailed'
        BY <3>1, <3>3 DEF Follows
      <3>4. CASE ~derailed'
        <4>1. Len(effects') = 1 /\ effects' # <<>> /\ effects'[1] = key'
          BY <3>1, <3>2, <3>4
        <4> QED
          BY <3>1, <4>1 DEF Follows
      <3> QED
        BY <3>3, <3>4
    <2>5. effects' # <<>>
      BY <1>t, <2>1
    <2>6. ServerOK' /\ WriterOK' /\ NoOlder'
      BY <1>9, <2>5 DEF ServerOK, WriterOK, NoOlder, Queries!EffectCancels
    <2> QED
      BY <2>2, <2>3, <2>4, <2>6
  <1>10. CASE Queries!EffectRuns
    <2>1. key \in Keys /\ Queries!QueryRun(key)
      BY <1>10 DEF ReaderOK, Queries!EffectRuns
    <2>2. token < 1 + MaxRuns
      BY <1>10, <1>t DEF RunsAreCalled, AsNumber, Queries!EffectRuns
    <2>3. /\ token' = token + 1 /\ token' \in Queries!Fetches
          /\ input' \in [Queries!Fetches -> Keys \cup {NoKey}]
          /\ \A t \in Queries!Fetches : IF t <= token' THEN input'[t] \in Keys ELSE query'[t] = "none"
          /\ query' \in [Queries!Fetches -> {"none", "sent", "read", "done"}]
          /\ answered' \in [Queries!Fetches -> Nat]
          /\ input'[token'] = key /\ query'[token'] = "sent" /\ queryStatus' = "pending"
      BY <2>1, <2>2, QueryRunOK
    <2>4. ReaderOK'
      BY <1>10, <2>3 DEF ReaderOK, Queries!EffectRuns
    <2>5. RunsAreCalled'
      BY <1>10, <1>t, <2>3 DEF RunsAreCalled, AsNumber, Unanswered, Queries!EffectRuns
    <2>6. Follows' /\ NoOlder'
      BY <1>10, <2>3 DEF Follows, NoOlder, Queries!EffectRuns
    <2>7. ServerOK' /\ WriterOK'
      BY <1>10 DEF ServerOK, WriterOK, Queries!EffectRuns
    <2> QED
      BY <2>4, <2>5, <2>6, <2>7
  <1>11. CASE Queries!EffectGoesOn
    <2> DEFINE k == Queries!Last(effects)
    <2>1. /\ k \in Keys /\ k = effects[Len(effects)] /\ Len(effects) > 0
          /\ effects' \in Seq(Keys) /\ Len(effects') = Len(effects) - 1
      BY <1>11, EffectsFront DEF Queries!EffectGoesOn, Queries!Last
    <2>2. Queries!QueryRun(k)
      BY <1>11 DEF Queries!EffectGoesOn
    <2>3. token < 1 + MaxRuns
      BY <1>t, <2>1 DEF RunsAreCalled, AsNumber
    <2> HIDE DEF k
    <2>4. /\ token' = token + 1 /\ token' \in Queries!Fetches
          /\ input' \in [Queries!Fetches -> Keys \cup {NoKey}]
          /\ \A t \in Queries!Fetches : IF t <= token' THEN input'[t] \in Keys ELSE query'[t] = "none"
          /\ query' \in [Queries!Fetches -> {"none", "sent", "read", "done"}]
          /\ answered' \in [Queries!Fetches -> Nat]
          /\ input'[token'] = k /\ query'[token'] = "sent" /\ queryStatus' = "pending"
      BY <2>1, <2>2, <2>3, QueryRunOK
    <2>5. ReaderOK'
      BY <1>11, <2>1, <2>4 DEF ReaderOK, Queries!EffectGoesOn
    <2>6. RunsAreCalled'
      BY <1>11, <1>t, <2>1, <2>4 DEF RunsAreCalled, AsNumber, Unanswered, Queries!EffectGoesOn
    <2>7. ~derailed => Len(effects) = 1 /\ effects # <<>> /\ k = effects[1] /\ effects' = <<>>
      BY <1>t, <2>1 DEF Follows
    <2>8. Follows' /\ NoOlder'
      BY <1>11, <1>t, <2>1, <2>4, <2>7 DEF Follows, NoOlder, Queries!EffectGoesOn
    <2>9. ServerOK' /\ WriterOK'
      BY <1>11 DEF ServerOK, WriterOK, Queries!EffectGoesOn
    <2> QED
      BY <2>5, <2>6, <2>8, <2>9
  <1>12. CASE Queries!EffectThrows
    <2>1. /\ Len(effects) > 0
          /\ effects' \in Seq(Keys) /\ Len(effects') = Len(effects) - 1
      BY <1>12, EffectsFront DEF Queries!EffectThrows
    <2>2. ReaderOK' /\ RunsAreCalled'
      BY <1>12, <1>t, <2>1 DEF ReaderOK, RunsAreCalled, AsNumber, Unanswered, Queries!EffectThrows
    <2>3. ServerOK' /\ WriterOK' /\ Follows' /\ NoOlder'
      BY <1>12 DEF ServerOK, WriterOK, Follows, NoOlder, Queries!EffectThrows
    <2> QED
      BY <2>2, <2>3
  <1>13. CASE Queries!QueryReload
    <2> DEFINE k == input[token]
    <2>1. k \in Keys /\ Queries!QueryRun(k)
      BY <1>13 DEF ReaderOK, Queries!QueryReload
    <2>2. token < 1 + MaxRuns
      BY <1>13, <1>t DEF RunsAreCalled, AsNumber, Queries!QueryReload
    <2>3. /\ token' = token + 1 /\ token' \in Queries!Fetches
          /\ input' \in [Queries!Fetches -> Keys \cup {NoKey}]
          /\ \A t \in Queries!Fetches : IF t <= token' THEN input'[t] \in Keys ELSE query'[t] = "none"
          /\ query' \in [Queries!Fetches -> {"none", "sent", "read", "done"}]
          /\ answered' \in [Queries!Fetches -> Nat]
          /\ input'[token'] = k /\ query'[token'] = "sent" /\ queryStatus' = "pending"
      BY <2>1, <2>2, QueryRunOK
    <2>4. ReaderOK'
      BY <1>13, <2>3 DEF ReaderOK, Queries!QueryReload
    <2>5. RunsAreCalled'
      BY <1>13, <1>t, <2>3 DEF RunsAreCalled, AsNumber, Unanswered, Queries!QueryReload
    <2>6. Follows' /\ NoOlder'
      BY <1>13, <2>3 DEF Follows, NoOlder, Queries!QueryReload
    <2>7. ServerOK' /\ WriterOK'
      BY <1>13, <1>t DEF ServerOK, WriterOK, Queries!QueryReload
    <2> QED
      BY <2>4, <2>5, <2>6, <2>7
  <1>14. CASE Queries!QueryCancel
    BY <1>14 DEF ServerOK, WriterOK, ReaderOK, RunsAreCalled, Unanswered, Follows, NoOlder, Queries!QueryCancel
  <1>15. ASSUME NEW t \in Queries!Fetches, Queries!QuerySettles(t) PROVE QueriesInv'
    <2>1. ReaderOK'
      BY <1>15 DEF ReaderOK, Queries!QuerySettles
    <2>2. NoOlder'
      BY <1>15 DEF ReaderOK, Follows, NoOlder, Queries!QuerySettles, Queries!Accepted
    <2>3. ServerOK' /\ WriterOK' /\ RunsAreCalled' /\ Follows'
      BY <1>15 DEF ServerOK, WriterOK, RunsAreCalled, Unanswered, Follows, Queries!QuerySettles
    <2> QED
      BY <2>1, <2>2, <2>3
  <1>16. CASE UNCHANGED Queries!vars
    BY <1>16 DEF ServerOK, WriterOK, ReaderOK, RunsAreCalled, Unanswered, Follows, NoOlder, Queries!vars
  <1> QED
    BY <1>1, <1>2, <1>3, <1>4, <1>5, <1>6, <1>7, <1>8, <1>9, <1>10, <1>11, <1>12, <1>13, <1>14, <1>15, <1>16
       DEF Queries!Next, Queries!Environment, Queries!Scheduled, Queries!CallbackReturns, Queries!CancelReturns,
           Queries!Handlers, Queries!Users

\* In every reachable state a query that shows a success shows it for its present key,
\* and no older than the last write that invalidated it, unless its effect was run inside
\* its own cancel(), or that cancel() threw (createResource.ts:82-93, revision.ts).
THEOREM QueriesFreshResult == Queries!Spec => []FreshResult
  <1>1. QueriesInv => FreshResult
    BY DEF QueriesInv, NoOlder, FreshResult, Queries!FreshResult
  <1> QED
    BY <1>1, QueriesInitInv, QueriesStepInv, PTL DEF Queries!Spec

-----------------------------------------------------------------------------
(* MemoryRuntime: the actions of a plan *)

\* A memory gives each fact its status; a plan is actions on facts.
Facts == Memory!Facts
FactStatuses == {"absent", "active", "superseded", "merged"}
Memories == [Facts -> FactStatuses]
PlanActions == [type : {"merge", "supersede", "insert", "skip"}, target : Facts]

\* What one action makes of a memory: nothing that is there goes away, and
\* what appears is the candidate of the action.
LEMMA ApplyActionEffect ==
  ASSUME NEW m \in Memories, NEW t \in Turns, NEW i \in 1 .. PlanSize, NEW action \in PlanActions
  PROVE  LET n == Memory!ApplyAction(m, t, i, action) IN
         /\ n \in Memories
         /\ \A f \in Facts : m[f] # "absent" => n[f] # "absent"
         /\ \A f \in Facts : m[f] = "absent" /\ f # <<t, i>> /\ f # action.target => n[f] = "absent"
         /\ action.type # "skip" => n[<<t, i>>] # "absent"
  <1>1. <<t, i>> \in Facts /\ action.target \in Facts
    BY DEF Facts, Memory!Facts, Memory!Candidates, PlanActions
  <1>2. action.type \in {"merge", "supersede", "insert", "skip"}
    BY DEF PlanActions
  <1>3. CASE action.type = "insert"
    BY <1>1, <1>3 DEF Memories, FactStatuses, Memory!ApplyAction
  <1>4. CASE action.type = "merge"
    BY <1>1, <1>4 DEF Memories, FactStatuses, Memory!ApplyAction
  <1>5. CASE action.type = "supersede"
    <2> DEFINE n == [m EXCEPT ![action.target] = "superseded", ![<<t, i>>] = "active"]
    <2>1. Memory!ApplyAction(m, t, i, action) = n
      BY <1>5 DEF Memory!ApplyAction
    <2>2. n \in Memories /\ \A f \in Facts : n[f] = IF f = <<t, i>> THEN "active"
                                                    ELSE IF f = action.target THEN "superseded" ELSE m[f]
      BY <1>1 DEF Memories, FactStatuses
    <2> HIDE DEF n
    <2> QED
      BY <1>1, <2>1, <2>2
  <1>6. CASE action.type = "skip"
    BY <1>1, <1>6 DEF Memories, Memory!ApplyAction
  <1> QED
    BY <1>2, <1>3, <1>4, <1>5, <1>6

\* The same of the first k actions of a plan.
LEMMA AppliedEffect ==
  ASSUME NEW m \in Memories, NEW t \in Turns, NEW plan \in [1 .. PlanSize -> PlanActions], NEW k \in 0 .. PlanSize
  PROVE  LET n == Memory!Applied(m, t, plan, k) IN
         /\ n \in Memories
         /\ \A f \in Facts : m[f] # "absent" => n[f] # "absent"
         /\ \A f \in Facts : m[f] = "absent" /\ (\A i \in 1 .. k : f # <<t, i>> /\ f # plan[i].target)
                               => n[f] = "absent"
         /\ \A i \in 1 .. k : plan[i].type # "skip" => n[<<t, i>>] # "absent"
  <1>0. PlanSize \in Nat /\ k \in Nat /\ k <= PlanSize
    BY MemoryAssumption
  <1> DEFINE Step(g, i) == IF i = 0 THEN m ELSE Memory!ApplyAction(g[i - 1], t, i, plan[i])
             after == CHOOSE g : g = [i \in 0 .. k |-> Step(g, i)]
             F == [x \in (1 .. k) \X Memories |-> Memory!ApplyAction(x[2], t, x[1], plan[x[1]])]
  <1>1. F \in [(1 .. k) \X Memories -> Memories]
    <2>1. ASSUME NEW x \in (1 .. k) \X Memories
          PROVE  Memory!ApplyAction(x[2], t, x[1], plan[x[1]]) \in Memories
      <3>1. x[1] \in 1 .. PlanSize /\ x[2] \in Memories /\ plan[x[1]] \in PlanActions
        BY <1>0
      <3> QED
        BY <3>1, ApplyActionEffect
    <2> QED
      BY <2>1
  <1>2. PICK g : g \in [0 .. k -> Memories] /\ g[0] = m /\ \A i \in 1 .. k : g[i] = F[<<i, g[i - 1]>>]
    <2>1. StepFunction(F, k, Memories)
      BY <1>1 DEF StepFunction
    <2> HIDE DEF F
    <2>2. \E g : Recursion(g, k, Memories, m, F)
      BY <1>0, <2>1, RecursionExists
    <2> QED
      BY <2>2 DEF Recursion
  <1>3. \A i \in 1 .. k : g[i - 1] \in Memories /\ g[i] = Memory!ApplyAction(g[i - 1], t, i, plan[i])
    <2> SUFFICES ASSUME NEW i \in 1 .. k
                 PROVE  g[i - 1] \in Memories /\ g[i] = Memory!ApplyAction(g[i - 1], t, i, plan[i])
      OBVIOUS
    <2>1. i - 1 \in 0 .. k
      BY <1>0
    <2>2. g[i - 1] \in Memories
      BY <1>2, <2>1
    <2>3. F[<<i, g[i - 1]>>] = Memory!ApplyAction(g[i - 1], t, i, plan[i])
      BY <2>2
    <2> QED
      BY <1>2, <2>2, <2>3
  <1>4. g = [i \in 0 .. k |-> Step(g, i)]
    BY <1>0, <1>2, <1>3
  <1>5. after = [i \in 0 .. k |-> Step(after, i)]
    <2> HIDE DEF Step
    <2> QED
      BY <1>4
  <1>6. Memory!Applied(m, t, plan, k) = after[k]
    BY DEF Memory!Applied
  <1> HIDE DEF after, F
  <1>7. after[0] = m /\ \A i \in 1 .. k : after[i] = Memory!ApplyAction(after[i - 1], t, i, plan[i])
    BY <1>0, <1>5
  <1> DEFINE Effect(j) ==
        /\ after[j] \in Memories
        /\ \A f \in Facts : m[f] # "absent" => after[j][f] # "absent"
        /\ \A f \in Facts : m[f] = "absent" /\ (\A i \in 1 .. j : f # <<t, i>> /\ f # plan[i].target)
                              => after[j][f] = "absent"
        /\ \A i \in 1 .. j : plan[i].type # "skip" => after[j][<<t, i>>] # "absent"
      S == {j \in Nat : j <= k => Effect(j)}
  <1>8. 0 \in S
    BY <1>7
  <1>9. ASSUME NEW j \in Nat, j \in S PROVE j + 1 \in S
    <2> SUFFICES ASSUME j + 1 <= k PROVE Effect(j + 1)
      OBVIOUS
    <2>1. Effect(j)
      BY <1>0, <1>9
    <2>2. j + 1 \in 1 .. k /\ j + 1 \in 1 .. PlanSize /\ plan[j + 1] \in PlanActions
      BY <1>0
    <2>3. after[j + 1] = Memory!ApplyAction(after[j], t, j + 1, plan[j + 1])
      BY <1>7, <2>2
    <2>4. /\ after[j + 1] \in Memories
          /\ \A f \in Facts : after[j][f] # "absent" => after[j + 1][f] # "absent"
          /\ \A f \in Facts : after[j][f] = "absent" /\ f # <<t, j + 1>> /\ f # plan[j + 1].target
                                => after[j + 1][f] = "absent"
          /\ plan[j + 1].type # "skip" => after[j + 1][<<t, j + 1>>] # "absent"
      BY <2>1, <2>2, <2>3, ApplyActionEffect
    <2>5. \A i \in 1 .. (j + 1) : i = j + 1 \/ i \in 1 .. j
      OBVIOUS
    <2>6. \A i \in 1 .. j : <<t, i>> \in Facts /\ i \in 1 .. (j + 1)
      BY <1>0, <2>2 DEF Facts, Memory!Facts, Memory!Candidates
    <2>7. \A f \in Facts : m[f] = "absent" /\ (\A i \in 1 .. (j + 1) : f # <<t, i>> /\ f # plan[i].target)
                              => after[j + 1][f] = "absent"
      <3> SUFFICES ASSUME NEW f \in Facts, m[f] = "absent",
                          \A i \in 1 .. (j + 1) : f # <<t, i>> /\ f # plan[i].target
                   PROVE  after[j + 1][f] = "absent"
        OBVIOUS
      <3>1. after[j][f] = "absent"
        BY <2>1, <2>6
      <3>2. j + 1 \in 1 .. (j + 1)
        OBVIOUS
      <3> QED
        BY <2>4, <3>1, <3>2
    <2>8. \A i \in 1 .. (j + 1) : plan[i].type # "skip" => after[j + 1][<<t, i>>] # "absent"
      BY <2>1, <2>4, <2>5, <2>6
    <2>9. \A f \in Facts : m[f] # "absent" => after[j + 1][f] # "absent"
      BY <2>1, <2>4
    <2> QED
      BY <2>4, <2>7, <2>8, <2>9
  <1>10. k \in S
    <2> HIDE DEF S
    <2> QED
      BY <1>0, <1>8, <1>9, InductiveSet
  <1> QED
    BY <1>0, <1>6, <1>10

-----------------------------------------------------------------------------
(* MemoryRuntime: a turn is retained as a whole, or not at all *)

TurnStates == {"none", "extracting", "inspecting", "consolidating", "rejected", "applied", "failing",
               "restored", "committed", "rolled_back"}

MemoryTypeOK ==
  /\ memory \in Memories /\ turn \in [Turns -> TurnStates]
  /\ before \in [Turns -> Memories] /\ applied \in [Turns -> SUBSET Facts]

\* A turn that has written nothing yet, and one whose snapshot may still be restored.
BeforeWriting(t) == turn[t] \in {"none", "extracting", "inspecting", "consolidating", "rejected"}
HoldsSnapshot(t) == turn[t] \in {"consolidating", "failing"}
Undone(t) == turn[t] \in {"restored", "rolled_back"}
Overlapped(t, u) == {t, u} \in overlaps

\* A memory has none of the turn's facts, or all that it applied.
HasNone(m, t) == \A i \in 1 .. PlanSize : m[<<t, i>>] = "absent"
HasAll(m, t) == \A f \in applied[t] : m[f] # "absent"

\* A snapshot may have been restored that was taken while t was writing, or before.
Spoiled(t) == \E u \in Turns : Overlapped(t, u) /\ Undone(u)

\* Of two turns that write, the later has seen the other.
WritersOverlap ==
  \A t, u \in Turns : t # u /\ turn[t] \in Memory!Writing /\ turn[u] \in Memory!Writing => Overlapped(t, u)

\* What a turn has not written is nowhere, not in a snapshot that may be restored either.
UnwrittenIsAbsent ==
  \A t \in Turns : BeforeWriting(t) =>
    HasNone(memory, t) /\ \A u \in Turns : HoldsSnapshot(u) => HasNone(before[u], t)

\* A turn that fails restores a memory without its facts.
FailingWillRestore == \A t \in Turns : turn[t] = "failing" => HasNone(before[t], t)

\* What was undone is gone, and no snapshot of another brings it back.
UndoneIsAbsent ==
  \A t \in Turns : Undone(t) /\ ~Spoiled(t) =>
    HasNone(memory, t) /\ \A u \in Turns : HoldsSnapshot(u) /\ ~Overlapped(t, u) => HasNone(before[u], t)

\* What was applied is there, and no snapshot of another takes it away.
AppliedIsThere ==
  \A t \in Turns : turn[t] \in {"applied", "committed"} /\ ~Spoiled(t) =>
    HasAll(memory, t) /\ \A u \in Turns : HoldsSnapshot(u) /\ ~Overlapped(t, u) => HasAll(before[u], t)

RetainInv ==
  MemoryTypeOK /\ WritersOverlap /\ UnwrittenIsAbsent /\ FailingWillRestore /\ UndoneIsAbsent /\ AppliedIsThere

LEMMA RetainInitInv == Memory!Init => RetainInv
  <1> SUFFICES ASSUME Memory!Init PROVE RetainInv
    OBVIOUS
  <1>1. MemoryTypeOK
    BY DEF Memory!Init, Memory!NoSnapshot, MemoryTypeOK, Memories, Facts, FactStatuses, TurnStates
  <1>2. \A t \in Turns : turn[t] = "none"
    BY DEF Memory!Init
  <1>3. \A t \in Turns, i \in 1 .. PlanSize : <<t, i>> \in Memory!Facts /\ <<t, i>> # Memory!Seed
    <2>1. ASSUME NEW t \in Turns, NEW i \in 1 .. PlanSize PROVE <<t, i>> # Memory!Seed
      BY MemoryAssumption DEF Memory!Seed
    <2> QED
      BY <2>1 DEF Memory!Facts, Memory!Candidates
  <1>4. \A t \in Turns : HasNone(memory, t)
    BY <1>3 DEF Memory!Init, HasNone
  <1> QED
    BY <1>1, <1>2, <1>4 DEF RetainInv, WritersOverlap, UnwrittenIsAbsent, FailingWillRestore, UndoneIsAbsent,
      AppliedIsThere, Undone, HoldsSnapshot, Memory!Writing

\* A turn goes on without writing: it ends, or takes no snapshot.
LEMMA RetainQuietStep ==
  ASSUME RetainInv, NEW t \in Turns, NEW s \in TurnStates, turn' = [turn EXCEPT ![t] = s],
         UNCHANGED <<memory, applied, overlaps>>,
         before' \in [Turns -> Memories], \A u \in Turns : HoldsSnapshot(u)' => before'[u] = before[u],
         \/ turn[t] \in {"none", "extracting"} /\ s \in {"extracting", "inspecting", "rejected"}
         \/ turn[t] = "consolidating" /\ s = "rejected"
         \/ turn[t] = "applied" /\ s = "committed"
         \/ turn[t] = "restored" /\ s = "rolled_back"
  PROVE  RetainInv'
  <1> USE DEF RetainInv
  <1>1. \A u \in Turns : turn'[u] = IF u = t THEN s ELSE turn[u]
    BY DEF MemoryTypeOK
  <1>2. MemoryTypeOK'
    BY DEF MemoryTypeOK
  <1>3. \A u \in Turns : /\ turn'[u] \in Memory!Writing => turn[u] \in Memory!Writing
                         /\ HoldsSnapshot(u)' => HoldsSnapshot(u) /\ before'[u] = before[u]
                         /\ BeforeWriting(u)' => BeforeWriting(u)
                         /\ Undone(u)' <=> Undone(u)
                         /\ turn'[u] \in {"applied", "committed"} => turn[u] \in {"applied", "committed"}
                         /\ turn'[u] = "failing" => turn[u] = "failing"
                         /\ Spoiled(u)' <=> Spoiled(u)
    BY <1>1 DEF Memory!Writing, HoldsSnapshot, BeforeWriting, Undone, Spoiled, Overlapped
  <1>4. WritersOverlap'
    BY <1>3 DEF WritersOverlap, Overlapped
  <1>5. UnwrittenIsAbsent' /\ FailingWillRestore'
    BY <1>3 DEF UnwrittenIsAbsent, FailingWillRestore, HasNone, HoldsSnapshot
  <1>6. UndoneIsAbsent'
    BY <1>3 DEF UndoneIsAbsent, HasNone, Overlapped
  <1>7. AppliedIsThere'
    BY <1>3 DEF AppliedIsThere, HasAll, Overlapped
  <1> QED
    BY <1>2, <1>4, <1>5, <1>6, <1>7

LEMMA InspectedStep ==
  ASSUME RetainInv, NEW t \in Turns, Memory!Inspected(t)
  PROVE  RetainInv'
  <1> USE DEF RetainInv
  <1>1. /\ turn[t] = "inspecting" /\ UNCHANGED <<memory, applied>>
        /\ \A u \in Turns : turn'[u] = IF u = t THEN "consolidating" ELSE turn[u]
        /\ \A u \in Turns : before'[u] = IF u = t THEN memory ELSE before[u]
        /\ overlaps' = overlaps \cup {{t, u} : u \in {u \in Turns : turn[u] \in Memory!Writing}}
    BY DEF Memory!Inspected, Memory!At, MemoryTypeOK
  <1>2. MemoryTypeOK'
    BY DEF Memory!Inspected, Memory!At, MemoryTypeOK, TurnStates
  <1>3. /\ \A u, v \in Turns : Overlapped(u, v) => Overlapped(u, v)'
        /\ \A u \in Turns : turn[u] \in Memory!Writing => Overlapped(t, u)' /\ Overlapped(u, t)'
    <2>1. \A u \in Turns : {u, t} = {t, u}
      OBVIOUS
    <2> QED
      BY <1>1, <2>1 DEF Overlapped
  <1>4. \A u \in Turns : /\ Undone(u)' <=> Undone(u)
                         /\ BeforeWriting(u)' <=> BeforeWriting(u)
                         /\ u # t => (HoldsSnapshot(u)' <=> HoldsSnapshot(u))
                         /\ ~Spoiled(u)' => ~Spoiled(u)
    BY <1>1, <1>3 DEF Undone, BeforeWriting, HoldsSnapshot, Spoiled
  <1>5. WritersOverlap'
    BY <1>1, <1>3 DEF WritersOverlap, Memory!Writing
  <1>6. UnwrittenIsAbsent'
    <2> SUFFICES ASSUME NEW u \in Turns, BeforeWriting(u)'
                 PROVE  HasNone(memory, u)' /\ \A v \in Turns : HoldsSnapshot(v)' => HasNone(before[v], u)'
      BY DEF UnwrittenIsAbsent
    <2>1. HasNone(memory, u) /\ \A v \in Turns : HoldsSnapshot(v) => HasNone(before[v], u)
      BY <1>4 DEF UnwrittenIsAbsent
    <2> QED
      BY <1>1, <1>4, <2>1 DEF HasNone
  <1>7. FailingWillRestore'
    BY <1>1 DEF FailingWillRestore, HasNone
  <1>8. UndoneIsAbsent'
    <2> SUFFICES ASSUME NEW u \in Turns, Undone(u)', ~Spoiled(u)'
                 PROVE  HasNone(memory, u)'
                        /\ \A v \in Turns : HoldsSnapshot(v)' /\ ~Overlapped(u, v)' => HasNone(before[v], u)'
      BY DEF UndoneIsAbsent
    <2>1. HasNone(memory, u) /\ \A v \in Turns : HoldsSnapshot(v) /\ ~Overlapped(u, v) => HasNone(before[v], u)
      BY <1>4 DEF UndoneIsAbsent
    <2> QED
      BY <1>1, <1>3, <1>4, <2>1 DEF HasNone
  <1>9. AppliedIsThere'
    <2> SUFFICES ASSUME NEW u \in Turns, turn'[u] \in {"applied", "committed"}, ~Spoiled(u)'
                 PROVE  HasAll(memory, u)'
                        /\ \A v \in Turns : HoldsSnapshot(v)' /\ ~Overlapped(u, v)' => HasAll(before[v], u)'
      BY DEF AppliedIsThere
    <2>1. HasAll(memory, u) /\ \A v \in Turns : HoldsSnapshot(v) /\ ~Overlapped(u, v) => HasAll(before[v], u)
      BY <1>1, <1>4 DEF AppliedIsThere
    <2> QED
      BY <1>1, <1>3, <1>4, <2>1 DEF HasAll
  <1> QED
    BY <1>2, <1>5, <1>6, <1>7, <1>8, <1>9

LEMMA ApplyPlanStep ==
  ASSUME RetainInv, NEW t \in Turns, Memory!ApplyPlan(t)
  PROVE  RetainInv'
  <1> USE DEF RetainInv
  <1>1. PICK plan \in [1 .. PlanSize -> Memory!Actions(t)], k \in 0 .. PlanSize :
          /\ Memory!Applies(plan, k)
          /\ memory' = Memory!Applied(memory, t, plan, k)
          /\ applied' = IF k < PlanSize THEN applied
                        ELSE [applied EXCEPT ![t] = {<<t, i>> : i \in {i \in 1 .. k : plan[i].type # "skip"}}]
          /\ Memory!At(t, IF k = PlanSize THEN "applied" ELSE "failing")
    BY DEF Memory!ApplyPlan
  <1>2. turn[t] = "consolidating" /\ UNCHANGED <<before, overlaps>>
    BY DEF Memory!ApplyPlan
  <1>3. \A u \in Turns : turn'[u] = IF u # t THEN turn[u] ELSE IF k = PlanSize THEN "applied" ELSE "failing"
    BY <1>1 DEF Memory!At, MemoryTypeOK
  <1>4. plan \in [1 .. PlanSize -> PlanActions]
    <2>1. Memory!Actions(t) \subseteq PlanActions
      BY DEF Memory!Actions, PlanActions, Facts, Memory!Facts
    <2> QED
      BY <2>1
  <1>5. /\ memory' \in Memories
        /\ \A f \in Facts : memory[f] # "absent" => memory'[f] # "absent"
        /\ \A f \in Facts : memory[f] = "absent" /\ (\A i \in 1 .. k : f # <<t, i>> /\ f # plan[i].target)
                              => memory'[f] = "absent"
        /\ \A i \in 1 .. k : plan[i].type # "skip" => memory'[<<t, i>>] # "absent"
    <2> DEFINE n == Memory!Applied(memory, t, plan, k)
    <2>1. memory \in Memories /\ k \in 0 .. PlanSize
      BY <1>1 DEF MemoryTypeOK
    <2>2. /\ n \in Memories
          /\ \A f \in Facts : memory[f] # "absent" => n[f] # "absent"
          /\ \A f \in Facts : memory[f] = "absent" /\ (\A i \in 1 .. k : f # <<t, i>> /\ f # plan[i].target)
                                => n[f] = "absent"
          /\ \A i \in 1 .. k : plan[i].type # "skip" => n[<<t, i>>] # "absent"
      <3> HIDE DEF RetainInv
      <3> QED
        BY <1>4, <2>1, AppliedEffect
    <2>3. memory' = n
      BY <1>1
    <2> HIDE DEF n
    <2> QED
      BY <2>2, <2>3
  <1>6. \A u \in Turns, i \in 1 .. PlanSize : <<u, i>> \in Facts
    BY DEF Facts, Memory!Facts, Memory!Candidates
  \* Whatever a plan aims at is there, so of the other turns nothing appears.
  <1>7. \A u \in Turns : u # t /\ HasNone(memory, u) => HasNone(memory', u)
    BY <1>1, <1>5, <1>6 DEF HasNone, Memory!Applies
  <1>8. MemoryTypeOK'
    <2>1. applied' \in [Turns -> SUBSET Facts]
      <3>1. {<<t, i>> : i \in {i \in 1 .. k : plan[i].type # "skip"}} \in SUBSET Facts
        BY <1>6, MemoryAssumption
      <3> QED
        BY <1>1, <3>1 DEF MemoryTypeOK
    <2>2. turn' \in [Turns -> TurnStates]
      BY <1>1 DEF Memory!At, MemoryTypeOK, TurnStates
    <2> QED
      BY <1>2, <1>5, <2>1, <2>2 DEF MemoryTypeOK
  <1>9. /\ \A u, v \in Turns : Overlapped(u, v)' <=> Overlapped(u, v)
        /\ \A u \in Turns : /\ Undone(u)' <=> Undone(u)
                            /\ BeforeWriting(u)' => BeforeWriting(u) /\ u # t
                            /\ HoldsSnapshot(u)' => HoldsSnapshot(u)
                            /\ Spoiled(u)' <=> Spoiled(u)
                            /\ turn'[u] \in Memory!Writing => turn[u] \in Memory!Writing
    BY <1>2, <1>3 DEF Undone, BeforeWriting, HoldsSnapshot, Overlapped, Spoiled, Memory!Writing
  <1>10. WritersOverlap'
    BY <1>9 DEF WritersOverlap
  <1>11. UnwrittenIsAbsent'
    <2> SUFFICES ASSUME NEW u \in Turns, BeforeWriting(u)'
                 PROVE  HasNone(memory', u) /\ \A v \in Turns : HoldsSnapshot(v)' => HasNone(before'[v], u)
      BY DEF UnwrittenIsAbsent, HasNone
    <2> QED
      BY <1>2, <1>7, <1>9 DEF UnwrittenIsAbsent
  <1>12. FailingWillRestore'
    <2> SUFFICES ASSUME NEW u \in Turns, turn'[u] = "failing" PROVE HasNone(before'[u], u)
      BY DEF FailingWillRestore, HasNone
    <2>1. CASE u = t
      BY <1>2, <2>1 DEF UnwrittenIsAbsent, BeforeWriting, HoldsSnapshot
    <2>2. CASE u # t
      BY <1>2, <1>3, <2>2 DEF FailingWillRestore
    <2> QED
      BY <2>1, <2>2
  <1>13. UndoneIsAbsent'
    <2> SUFFICES ASSUME NEW u \in Turns, Undone(u)', ~Spoiled(u)'
                 PROVE  HasNone(memory', u)
                        /\ \A v \in Turns : HoldsSnapshot(v)' /\ ~Overlapped(u, v)' => HasNone(before'[v], u)
      BY DEF UndoneIsAbsent, HasNone
    <2>1. u # t
      BY <1>2, <1>9 DEF Undone
    <2> QED
      BY <1>2, <1>7, <1>9, <2>1 DEF UndoneIsAbsent
  <1>14. AppliedIsThere'
    <2> SUFFICES ASSUME NEW u \in Turns, turn'[u] \in {"applied", "committed"}, ~Spoiled(u)'
                 PROVE  HasAll(memory, u)'
                        /\ \A v \in Turns : HoldsSnapshot(v)' /\ ~Overlapped(u, v)' => HasAll(before[v], u)'
      BY DEF AppliedIsThere
    \* Who holds a snapshot beside t has overlapped with it.
    <2>1. CASE u = t
      <3>1. k = PlanSize /\ applied'[t] = {<<t, i>> : i \in {i \in 1 .. k : plan[i].type # "skip"}}
        BY <1>1, <1>3, <2>1, MemoryAssumption DEF MemoryTypeOK
      <3>2. HasAll(memory, u)'
        BY <1>5, <2>1, <3>1 DEF HasAll
      <3>3. \A v \in Turns : HoldsSnapshot(v)' => Overlapped(u, v)'
        BY <1>2, <1>3, <1>9, <2>1 DEF WritersOverlap, HoldsSnapshot, Memory!Writing
      <3> QED
        BY <3>2, <3>3
    <2>2. CASE u # t
      <3>1. applied'[u] = applied[u] /\ applied[u] \in SUBSET Facts
        BY <1>1, <2>2 DEF MemoryTypeOK
      <3>2. HasAll(memory, u) /\ \A v \in Turns : HoldsSnapshot(v) /\ ~Overlapped(u, v) => HasAll(before[v], u)
        BY <1>3, <1>9, <2>2 DEF AppliedIsThere
      <3>3. HasAll(memory, u)'
        BY <1>5, <3>1, <3>2 DEF HasAll
      <3> QED
        BY <1>2, <1>9, <3>1, <3>2, <3>3 DEF HasAll
    <2> QED
      BY <2>1, <2>2
  <1> QED
    BY <1>8, <1>10, <1>11, <1>12, <1>13, <1>14

LEMMA RestoreStep ==
  ASSUME RetainInv, NEW t \in Turns, Memory!Restore(t)
  PROVE  RetainInv'
  <1> USE DEF RetainInv
  <1>1. /\ turn[t] = "failing" /\ memory' = before[t] /\ UNCHANGED <<before, applied, overlaps>>
        /\ \A u \in Turns : turn'[u] = IF u = t THEN "restored" ELSE turn[u]
    BY DEF Memory!Restore, Memory!At, MemoryTypeOK
  <1>2. MemoryTypeOK'
    BY <1>1 DEF Memory!Restore, Memory!At, MemoryTypeOK, TurnStates
  <1>3. /\ \A u, v \in Turns : (Overlapped(u, v)' <=> Overlapped(u, v)) /\ (Overlapped(u, v) => Overlapped(v, u))
        /\ \A u \in Turns : /\ Undone(u)' <=> (Undone(u) \/ u = t)
                            /\ BeforeWriting(u)' <=> BeforeWriting(u)
                            /\ HoldsSnapshot(u)' <=> (HoldsSnapshot(u) /\ u # t)
                            /\ turn'[u] \in Memory!Writing <=> turn[u] \in Memory!Writing
                            /\ ~Spoiled(u)' => ~Spoiled(u) /\ ~Overlapped(u, t)
    <2>1. \A u, v \in Turns : {u, v} = {v, u}
      OBVIOUS
    <2>2. /\ \A u, v \in Turns : (Overlapped(u, v)' <=> Overlapped(u, v)) /\ (Overlapped(u, v) => Overlapped(v, u))
          /\ \A u \in Turns : Undone(u)' <=> (Undone(u) \/ u = t)
      BY <1>1, <2>1 DEF Overlapped, Undone
    <2>3. \A u \in Turns : ~Spoiled(u)' => ~Spoiled(u) /\ ~Overlapped(u, t)
      BY <2>2 DEF Spoiled
    <2> QED
      BY <1>1, <2>2, <2>3 DEF BeforeWriting, HoldsSnapshot, Memory!Writing
  <1>4. WritersOverlap'
    BY <1>3 DEF WritersOverlap
  <1>5. UnwrittenIsAbsent'
    <2> SUFFICES ASSUME NEW u \in Turns, BeforeWriting(u)
                 PROVE  HasNone(before[t], u) /\ \A v \in Turns : HoldsSnapshot(v) => HasNone(before[v], u)
      BY <1>1, <1>3 DEF UnwrittenIsAbsent, HasNone
    <2> QED
      BY <1>1 DEF UnwrittenIsAbsent, HoldsSnapshot
  <1>6. FailingWillRestore'
    BY <1>1 DEF FailingWillRestore, HasNone
  <1>7. UndoneIsAbsent'
    <2> SUFFICES ASSUME NEW u \in Turns, Undone(u)', ~Spoiled(u)'
                 PROVE  HasNone(before[t], u)
                        /\ \A v \in Turns : HoldsSnapshot(v) /\ ~Overlapped(u, v) => HasNone(before[v], u)
      BY <1>1, <1>3 DEF UndoneIsAbsent, HasNone
    <2>1. CASE u = t
      <3>1. \A v \in Turns : v # t /\ HoldsSnapshot(v) => Overlapped(u, v)
        BY <1>1, <2>1 DEF WritersOverlap, HoldsSnapshot, Memory!Writing
      <3> QED
        BY <1>1, <2>1, <3>1 DEF FailingWillRestore
    <2>2. CASE u # t
      BY <1>1, <1>3, <2>2 DEF UndoneIsAbsent, HoldsSnapshot
    <2> QED
      BY <2>1, <2>2
  <1>8. AppliedIsThere'
    <2> SUFFICES ASSUME NEW u \in Turns, turn[u] \in {"applied", "committed"}, ~Spoiled(u)'
                 PROVE  HasAll(before[t], u)
                        /\ \A v \in Turns : HoldsSnapshot(v) /\ ~Overlapped(u, v) => HasAll(before[v], u)
      BY <1>1, <1>3 DEF AppliedIsThere, HasAll
    <2> QED
      BY <1>1, <1>3 DEF AppliedIsThere, HoldsSnapshot
  <1> QED
    BY <1>2, <1>4, <1>5, <1>6, <1>7, <1>8

\* Whoever reads the memory changes nothing of it.
LEMMA RetainReadStep ==
  ASSUME RetainInv, UNCHANGED <<memory, turn, before, applied, overlaps>>
  PROVE  RetainInv'
  <1>1. MemoryTypeOK'
    BY DEF RetainInv, MemoryTypeOK
  <1>2. \A t \in Turns : /\ BeforeWriting(t)' <=> BeforeWriting(t)
                         /\ HoldsSnapshot(t)' <=> HoldsSnapshot(t)
                         /\ Undone(t)' <=> Undone(t)
                         /\ \A u \in Turns : Overlapped(t, u)' <=> Overlapped(t, u)
    BY DEF BeforeWriting, HoldsSnapshot, Undone, Overlapped
  <1>3. \A t \in Turns : Spoiled(t)' <=> Spoiled(t)
    BY <1>2 DEF Spoiled
  <1>4. WritersOverlap'
    BY <1>2 DEF RetainInv, WritersOverlap
  <1>5. UnwrittenIsAbsent' /\ FailingWillRestore'
    BY <1>2 DEF RetainInv, UnwrittenIsAbsent, FailingWillRestore, HasNone
  <1>6. UndoneIsAbsent'
    BY <1>2, <1>3 DEF RetainInv, UndoneIsAbsent, HasNone
  <1>7. AppliedIsThere'
    BY <1>2, <1>3 DEF RetainInv, AppliedIsThere, HasAll
  <1> QED
    BY <1>1, <1>4, <1>5, <1>6, <1>7 DEF RetainInv

LEMMA RetainTurnStep ==
  ASSUME RetainInv, NEW t \in Turns, Memory!RetainTurn(t) \/ Memory!RetainGoesOn(t)
  PROVE  RetainInv'
  <1>1. CASE Memory!RetainTurn(t)
    <2>1. /\ turn[t] = "none" /\ turn' = [turn EXCEPT ![t] = "extracting"]
          /\ UNCHANGED <<memory, applied, overlaps, before>>
      BY <1>1 DEF Memory!RetainTurn, Memory!At, Memory!driver
    <2> QED
      BY <2>1, RetainQuietStep DEF TurnStates, RetainInv, MemoryTypeOK
  <1>2. CASE Memory!Extracted(t)
    <2>1. /\ turn[t] = "extracting" /\ turn' = [turn EXCEPT ![t] = "inspecting"]
          /\ UNCHANGED <<memory, applied, overlaps, before>>
      BY <1>2 DEF Memory!Extracted, Memory!At, Memory!driver
    <2> QED
      BY <2>1, RetainQuietStep DEF TurnStates, RetainInv, MemoryTypeOK
  <1>3. ASSUME NEW s \in TurnStates, turn' = [turn EXCEPT ![t] = s], before' = [before EXCEPT ![t] = Memory!NoSnapshot],
               UNCHANGED <<memory, applied, overlaps>>,
               \/ turn[t] \in {"extracting", "consolidating"} /\ s = "rejected"
               \/ turn[t] = "applied" /\ s = "committed"
               \/ turn[t] = "restored" /\ s = "rolled_back"
        PROVE  RetainInv'
    <2>1. Memory!NoSnapshot \in Memories
      BY DEF Memory!NoSnapshot, Memories, Facts, FactStatuses
    <2>2. before' \in [Turns -> Memories]
      BY <1>3, <2>1 DEF RetainInv, MemoryTypeOK
    <2>3. \A u \in Turns : HoldsSnapshot(u)' => before'[u] = before[u]
      BY <1>3 DEF RetainInv, MemoryTypeOK, HoldsSnapshot
    <2> QED
      BY <1>3, <2>2, <2>3, RetainQuietStep
  <1>4. CASE Memory!RetainRejected(t)
    BY <1>3, <1>4 DEF Memory!RetainRejected, Memory!At, TurnStates
  <1>5. CASE Memory!Retained(t)
    <2>1. CASE turn[t] = "applied"
      BY <1>3, <1>5, <2>1 DEF Memory!Retained, Memory!At, TurnStates
    <2>2. CASE turn[t] = "restored"
      BY <1>3, <1>5, <2>2 DEF Memory!Retained, Memory!At, TurnStates
    <2> QED
      BY <1>5, <2>1, <2>2 DEF Memory!Retained
  <1> QED
    BY <1>1, <1>2, <1>4, <1>5, InspectedStep, ApplyPlanStep, RestoreStep DEF Memory!RetainGoesOn

LEMMA RetainStep ==
  ASSUME RetainInv, [Memory!Next]_(Memory!vars)
  PROVE  RetainInv'
  <1>1. CASE \E t \in Turns : Memory!RetainTurn(t) \/ Memory!RetainGoesOn(t)
    BY <1>1, RetainTurnStep
  <1>2. CASE Memory!Recalls \/ Memory!Streams \/ (\E m \in Messages : Memory!SetMessage(m))
             \/ Memory!CancelRecall \/ Memory!CancelStream
    <2>1. UNCHANGED <<memory, turn, before, applied, overlaps>>
      BY <1>2 DEF Memory!Recalls, Memory!Streams, Memory!SetMessage, Memory!CancelRecall, Memory!CancelStream,
        Memory!RecallRuns, Memory!RecallReads, Memory!RecallSettles, Memory!StreamRuns, Memory!StreamEnds,
        Memory!driver
    <2> QED
      BY <2>1, RetainReadStep
  <1>3. CASE UNCHANGED Memory!vars
    BY <1>3, RetainReadStep DEF Memory!vars, Memory!driver
  <1> QED
    BY <1>1, <1>2, <1>3 DEF Memory!Next, Memory!Users

\* Without an overlap with a turn that was undone, nothing is spoiled.
LEMMA RetainInvMeansAtomic == RetainInv => AtomicRetain
  <1> SUFFICES ASSUME RetainInv, NEW t \in Turns,
                      \A u \in Turns : {t, u} \in overlaps => turn[u] \in {"applied", "committed", "rejected"}
               PROVE  /\ turn[t] = "committed" => \A f \in applied[t] : memory[f] # "absent"
                      /\ turn[t] \in {"rolled_back", "rejected"} => \A i \in 1 .. PlanSize : memory[<<t, i>>] = "absent"
    BY DEF AtomicRetain, Memory!AtomicRetain
  <1>1. ~Spoiled(t)
    BY DEF Spoiled, Overlapped, Undone
  <1> QED
    BY <1>1 DEF RetainInv, UnwrittenIsAbsent, UndoneIsAbsent, AppliedIsThere, HasNone, HasAll, BeforeWriting, Undone

\* In every reachable state, however many turns are retained at a time and whichever
\* of them fail: of a turn that overlaps with none but such as were applied, committed or
\* rejected, the memory holds all it wrote once it is committed, and nothing once it is
\* rolled back or rejected (retainTransaction.ts, localMemoryDriver.ts:201-230).
THEOREM MemoryAtomicRetain == Memory!Spec => []AtomicRetain
  <1>1. Memory!Init => RetainInv
    BY RetainInitInv
  <1>2. RetainInv /\ [Memory!Next]_(Memory!vars) => RetainInv'
    BY RetainStep
  <1>3. RetainInv => AtomicRetain
    BY RetainInvMeansAtomic
  <1> QED
    BY <1>1, <1>2, <1>3, PTL DEF Memory!Spec

-----------------------------------------------------------------------------
(* MemoryRuntime: what the answer is made from *)

\* What is shown was asked for the present message, was found in the memory as it is at
\* rest, and was streamed from the present prompt.
AskedIsMessage == ~recallDue => asked = message
PendingIsRecalling == recall \in {"none", "sent", "read"} /\ (recall = "none" <=> status # "pending")
FoundIsActive ==
  Memory!AtRest => (recall = "read" => found = Memory!Active) /\ (status = "success" => recalled = Memory!Active)
PromptIsInput == ~redo => prompt = Memory!StreamInput
TextIsOfPrompt == streamStatus = "success" => text = prompt
SwitchesOK == recallDue \in BOOLEAN /\ redo \in BOOLEAN /\ turn \in [Turns -> TurnStates]

ReadersInv ==
  SwitchesOK /\ AskedIsMessage /\ PendingIsRecalling /\ FoundIsActive /\ PromptIsInput /\ TextIsOfPrompt

LEMMA ReadersInit == Memory!Init => ReadersInv
  BY DEF Memory!Init, ReadersInv, SwitchesOK, AskedIsMessage, PendingIsRecalling, FoundIsActive, PromptIsInput,
    TextIsOfPrompt, TurnStates

\* A turn that goes on leaves the memory as it was, is not at rest, or tells its readers.
LEMMA ReadersTurnStep ==
  ASSUME ReadersInv, NEW t \in Turns, Memory!RetainTurn(t) \/ Memory!RetainGoesOn(t)
  PROVE  ReadersInv'
  <1> USE DEF ReadersInv
  <1>1. /\ UNCHANGED <<message, recall, asked, found, status, recalled, redo, run, prompt, streamStatus, text>>
        /\ recallDue' \in {recallDue, TRUE}
    BY DEF Memory!RetainTurn, Memory!RetainGoesOn, Memory!Extracted, Memory!Inspected, Memory!RetainRejected,
      Memory!ApplyPlan, Memory!Restore, Memory!Retained, Memory!recaller, Memory!streamer
  <1>2. PICK s \in TurnStates : turn' = [turn EXCEPT ![t] = s]
    BY DEF Memory!RetainTurn, Memory!RetainGoesOn, Memory!Extracted, Memory!Inspected, Memory!RetainRejected,
      Memory!ApplyPlan, Memory!Restore, Memory!Retained, Memory!At, TurnStates
  <1>3. SwitchesOK'
    BY <1>1, <1>2 DEF SwitchesOK
  <1>4. Memory!AtRest' => Memory!AtRest /\ memory' = memory
    <2> SUFFICES ASSUME Memory!AtRest' PROVE Memory!AtRest /\ memory' = memory
      OBVIOUS
    <2>1. ~recallDue' /\ \A u \in Turns : turn'[u] \notin {"applied", "failing", "restored"}
      BY DEF Memory!AtRest
    <2>2. ~Memory!ApplyPlan(t) /\ ~Memory!Restore(t) /\ ~Memory!Retained(t)
      <3>1. turn'[t] = s
        BY <1>2 DEF SwitchesOK
      <3> QED
        BY <2>1, <3>1 DEF Memory!ApplyPlan, Memory!Restore, Memory!Retained, Memory!At, SwitchesOK
    <2>3. turn[t] \notin {"applied", "failing", "restored"} /\ memory' = memory
      BY <2>2 DEF Memory!RetainTurn, Memory!RetainGoesOn, Memory!Extracted, Memory!Inspected,
        Memory!RetainRejected, Memory!driver
    <2>4. \A u \in Turns : turn[u] \notin {"applied", "failing", "restored"}
      BY <1>2, <2>1, <2>3 DEF SwitchesOK
    <2> QED
      BY <1>1, <2>1, <2>3, <2>4 DEF Memory!AtRest, SwitchesOK
  <1>5. FoundIsActive'
    BY <1>1, <1>4 DEF FoundIsActive, Memory!Active
  <1> QED
    BY <1>1, <1>3, <1>5 DEF AskedIsMessage, PendingIsRecalling, PromptIsInput, TextIsOfPrompt, Memory!StreamInput,
      SwitchesOK

LEMMA ReadersStep ==
  ASSUME ReadersInv, [Memory!Next]_(Memory!vars)
  PROVE  ReadersInv'
  <1> USE DEF ReadersInv, SwitchesOK, AskedIsMessage, PendingIsRecalling, FoundIsActive, PromptIsInput, TextIsOfPrompt
  <1>1. CASE \E t \in Turns : Memory!RetainTurn(t) \/ Memory!RetainGoesOn(t)
    BY <1>1, ReadersTurnStep
  <1>2. CASE \E m \in Messages : Memory!SetMessage(m)
    BY <1>2 DEF Memory!SetMessage, Memory!driver, Memory!recaller, Memory!streamer, Memory!AtRest, Memory!Active,
      Memory!StreamInput
  <1>3. CASE Memory!RecallRuns
    BY <1>3 DEF Memory!RecallRuns, Memory!driver, Memory!streamer
  <1>4. CASE Memory!RecallReads
    BY <1>4 DEF Memory!RecallReads, Memory!driver, Memory!streamer, Memory!AtRest, Memory!Active, Memory!StreamInput
  <1>5. CASE Memory!RecallSettles
    BY <1>5 DEF Memory!RecallSettles, Memory!driver, Memory!streamer, Memory!AtRest, Memory!Active
  <1>6. CASE Memory!CancelRecall
    BY <1>6 DEF Memory!CancelRecall, Memory!driver, Memory!streamer, Memory!AtRest, Memory!Active
  <1>7. CASE Memory!StreamRuns
    BY <1>7 DEF Memory!StreamRuns, Memory!driver, Memory!recaller, Memory!AtRest, Memory!Active, Memory!StreamInput
  <1>8. CASE Memory!StreamEnds
    BY <1>8 DEF Memory!StreamEnds, Memory!driver, Memory!recaller, Memory!AtRest, Memory!Active, Memory!StreamInput
  <1>9. CASE Memory!CancelStream
    BY <1>9 DEF Memory!CancelStream, Memory!driver, Memory!recaller, Memory!AtRest, Memory!Active, Memory!StreamInput
  <1>10. CASE UNCHANGED Memory!vars
    BY <1>10 DEF Memory!vars, Memory!driver, Memory!recaller, Memory!streamer, Memory!AtRest, Memory!Active,
      Memory!StreamInput
  <1> QED
    BY <1>1, <1>2, <1>3, <1>4, <1>5, <1>6, <1>7, <1>8, <1>9, <1>10
      DEF Memory!Next, Memory!Users, Memory!Recalls, Memory!Streams

\* In every reachable state at rest: the recalled memories are what the memory has for
\* the current message, and an answer that was streamed is made from them
\* (createMemoryGraph.ts, createMemoryRuntime.ts:137-159).
THEOREM MemoryContextIsCurrent == Memory!Spec => []ContextIsCurrent
  <1>1. Memory!Init => ReadersInv
    BY ReadersInit
  <1>2. ReadersInv /\ [Memory!Next]_(Memory!vars) => ReadersInv'
    BY ReadersStep
  <1>3. ReadersInv => ContextIsCurrent
    BY DEF ReadersInv, ContextIsCurrent, Memory!ContextIsCurrent, AskedIsMessage, FoundIsActive, PromptIsInput,
      TextIsOfPrompt, Memory!AtRest, Memory!StreamInput
  <1> QED
    BY <1>1, <1>2, <1>3, PTL DEF Memory!Spec

-----------------------------------------------------------------------------
(* JobMonitor: the list converges *)

\* The jobs of the store, the events of the connection and the requests.
StoreStatuses == {"queued", "running", "retrying", "succeeded", "failed", "cancelled"}
JobIds == Monitor!Jobs
WireEvents == JobIds \X StoreStatuses
CallRecords == [op : Monitor!Ops, job : JobIds, at : {"none", "sent", "handled"}]

MonitorTypeOK ==
  /\ store \in [JobIds -> StoreStatuses] /\ answer \in [JobIds -> StoreStatuses]
  /\ wire \in Seq(WireEvents)
  /\ list \in [JobIds -> StoreStatuses \cup {"absent"}]
  /\ fetch \in {"none", "sent", "read"}
  /\ calls \in 0 .. MonitorCalls
  /\ call \in [Monitor!Calls -> CallRecords]
  /\ waiting \in [Monitor!Ops -> 0 .. calls]
  /\ outdated \in SUBSET JobIds /\ since \in SUBSET JobIds

\* A connection that is closed carries nothing.
WireIsOpen == sub # "open" => wire = <<>>

\* The last event of a job under way is what the store has by now.
LastEventIsTrue ==
  \A i \in 1 .. Len(wire) :
    (\A k \in (i + 1) .. Len(wire) : wire[k][1] # wire[i][1]) => wire[i][2] = store[wire[i][1]]

\* A call that is waited for is of the operation it is waited for as.
WaitingIsCalled == \A op \in Monitor!Ops : waiting[op] # 0 => call[waiting[op]].op = op

\* What a fetch has read still holds of the jobs that did not change since.
AnswerIsTrue == fetch = "read" => \A j \in JobIds \ since : answer[j] = store[j]

\* The job shown as being retried before the server has said so.
Retried(j) == waiting["retry"] # 0 /\ call[waiting["retry"]].job = j

\* Without a fetch, what the list shows is true, or will be put right.
TrueOrMended(j) == j \in Monitor!OnWire \/ list[j] \in {"absent", store[j]} \/ Retried(j)
ListIsTrue == fetch = "none" => \A j \in JobIds \ outdated : TrueOrMended(j)

MonitorInv ==
  MonitorTypeOK /\ WireIsOpen /\ LastEventIsTrue /\ WaitingIsCalled /\ AnswerIsTrue /\ ListIsTrue

LEMMA MonitorInitInv == Monitor!Init => MonitorInv
  <1> SUFFICES ASSUME Monitor!Init PROVE MonitorInv
    OBVIOUS
  <1>1. MonitorJobs \in [JobIds -> StoreStatuses] /\ \A c \in Monitor!Calls : 1 \in JobIds
    BY MonitorAssumption DEF StoreStatuses, JobIds, Monitor!Jobs, Monitor!Calls
  <1>2. MonitorTypeOK
    BY <1>1, MonitorAssumption DEF JobIds, Monitor!Init, MonitorTypeOK, CallRecords, Monitor!NoRequest, Monitor!Ops, Monitor!NoCall
  <1> QED
    BY <1>2 DEF Monitor!Init, MonitorInv, WireIsOpen, LastEventIsTrue, WaitingIsCalled, AnswerIsTrue, ListIsTrue,
      Monitor!NoCall

\* What the server emits of a job reaches the wire, or is outdated.
LEMMA ChangeStep ==
  ASSUME MonitorInv, NEW j \in JobIds, NEW s \in StoreStatuses, Monitor!Change(j, s),
         UNCHANGED <<list, sub, fetch, answer, calls, waiting>>,
         call' \in [Monitor!Calls -> CallRecords],
         \A c \in Monitor!Calls : call'[c].op = call[c].op /\ call'[c].job = call[c].job
  PROVE  MonitorInv'
  <1> USE DEF MonitorInv
  <1>1. store' = [store EXCEPT ![j] = s] /\ store' \in [JobIds -> StoreStatuses] /\ \A i \in JobIds : store'[i] = IF i = j THEN s ELSE store[i]
    BY DEF Monitor!Change, MonitorTypeOK
  <1>2. \/ sub = "open" /\ wire' = Append(wire, <<j, s>>) /\ outdated' = outdated
        \/ sub # "open" /\ wire' = wire /\ outdated' = outdated \cup {j}
    BY DEF Monitor!Change, Monitor!Subscribed, Monitor!Send
  <1>3. since' = IF fetch = "read" THEN since \cup {j} ELSE since
    BY DEF Monitor!Change
  <1>4. wire \in Seq(WireEvents) /\ <<j, s>> \in WireEvents
    BY DEF MonitorTypeOK, WireEvents
  <1>11. sub = "open" => /\ wire' \in Seq(WireEvents) /\ Len(wire') = Len(wire) + 1
                         /\ wire'[Len(wire) + 1] = <<j, s>>
                         /\ \A i \in 1 .. Len(wire) : wire'[i] = wire[i]
    BY <1>2, <1>4, AppendProperties
  <1>5. MonitorTypeOK'
    BY <1>1, <1>2, <1>3, <1>4, <1>11 DEF MonitorTypeOK
  <1>6. WireIsOpen'
    BY <1>2 DEF WireIsOpen
  <1>7. LastEventIsTrue'
    <2>1. CASE sub = "open"
      <3>1. /\ Len(wire') = Len(wire) + 1 /\ wire'[Len(wire) + 1] = <<j, s>>
            /\ \A i \in 1 .. Len(wire) : wire'[i] = wire[i] /\ wire[i] \in WireEvents
            /\ Len(wire) \in Nat
        BY <1>4, <1>11, <2>1
      <3> SUFFICES ASSUME NEW i \in 1 .. Len(wire'), \A k \in (i + 1) .. Len(wire') : wire'[k][1] # wire'[i][1]
                   PROVE  wire'[i][2] = store'[wire'[i][1]]
        BY DEF LastEventIsTrue
      <3>2. CASE i = Len(wire) + 1
        BY <1>1, <3>1, <3>2
      <3>3. CASE i \in 1 .. Len(wire)
        <4>1. wire[i][1] # j
          BY <3>1, <3>3
        <4>2. \A k \in (i + 1) .. Len(wire) : wire[k][1] # wire[i][1]
          BY <3>1, <3>3
        <4>3. wire[i][2] = store[wire[i][1]]
          BY <3>3, <4>2 DEF LastEventIsTrue
        <4> QED
          BY <1>1, <3>1, <3>3, <4>1, <4>3 DEF WireEvents
      <3> QED
        BY <3>1, <3>2, <3>3
    <2>2. CASE sub # "open"
      BY <1>2, <2>2 DEF WireIsOpen, LastEventIsTrue
    <2> QED
      BY <2>1, <2>2
  <1>8. WaitingIsCalled' /\ \A i \in JobIds : Retried(i)' <=> Retried(i)
    <2>1. \A op \in Monitor!Ops : waiting[op] # 0 => waiting[op] \in Monitor!Calls
      BY MonitorAssumption DEF MonitorTypeOK, Monitor!Calls
    <2>2. "retry" \in Monitor!Ops
      BY DEF Monitor!Ops
    <2> QED
      BY <2>1, <2>2 DEF WaitingIsCalled, Retried
  <1>9. AnswerIsTrue'
    BY <1>1, <1>3 DEF AnswerIsTrue
  <1>10. ListIsTrue'
    <2> SUFFICES ASSUME fetch = "none", NEW i \in JobIds, i \notin outdated' PROVE TrueOrMended(i)'
      BY DEF ListIsTrue
    <2>1. i # j => TrueOrMended(i)
      BY <1>2 DEF ListIsTrue
    <2>2. Monitor!OnWire \subseteq Monitor!OnWire'
      <3> SUFFICES ASSUME NEW e \in Monitor!OnWire PROVE e \in Monitor!OnWire'
        OBVIOUS
      <3>1. PICK k \in 1 .. Len(wire) : e = wire[k][1]
        BY DEF Monitor!OnWire, MonitorTypeOK
      <3>2. k \in DOMAIN wire' /\ wire'[k] = wire[k]
        BY <1>2, <1>4, <1>11, <3>1
      <3> QED
        BY <3>1, <3>2 DEF Monitor!OnWire
    <2>3. i = j => i \in Monitor!OnWire'
      <3>1. i = j => wire' = Append(wire, <<j, s>>)
        BY <1>2
      <3>2. i = j => Len(wire) + 1 \in DOMAIN wire' /\ wire'[Len(wire) + 1] = <<j, s>>
        BY <1>2, <1>4, <1>11, <3>1
      <3> QED
        BY <3>2 DEF Monitor!OnWire
    <2> QED
      BY <1>1, <1>8, <2>1, <2>2, <2>3 DEF TrueOrMended
  <1> QED
    BY <1>5, <1>6, <1>7, <1>8, <1>9, <1>10

LEMMA ServerStep ==
  ASSUME MonitorInv, Monitor!Tick \/ Monitor!CallsHandled
  PROVE  MonitorInv'
  <1>1. CASE Monitor!Tick
    <2>1. UNCHANGED <<list, sub, fetch, answer, calls, call, waiting>>
      BY <1>1 DEF Monitor!Tick, Monitor!stream, Monitor!requests
    <2>2. call' \in [Monitor!Calls -> CallRecords]
      BY <2>1 DEF MonitorInv, MonitorTypeOK
    <2>3. PICK j \in JobIds, s \in {"succeeded", "running"} : Monitor!Change(j, s)
      BY <1>1 DEF Monitor!Tick, Monitor!First, JobIds
    <2> QED
      BY <2>1, <2>2, <2>3, ChangeStep DEF StoreStatuses
  <1>2. ASSUME NEW c \in Monitor!Calls, Monitor!ServerHandles(c) PROVE MonitorInv'
    <2>1. /\ UNCHANGED <<list, sub, fetch, answer, calls, waiting>>
          /\ call' = [call EXCEPT ![c].at = "handled"]
      BY <1>2 DEF Monitor!ServerHandles, Monitor!stream
    <2>2. /\ call' \in [Monitor!Calls -> CallRecords]
          /\ \A d \in Monitor!Calls : call'[d].op = call[d].op /\ call'[d].job = call[d].job
      <3>1. call \in [Monitor!Calls -> CallRecords]
        BY DEF MonitorInv, MonitorTypeOK
      <3> QED
        BY <2>1, <3>1 DEF CallRecords
    <2>3. call[c].job \in JobIds
      BY DEF MonitorInv, MonitorTypeOK, CallRecords
    <2>4. \E s \in StoreStatuses : Monitor!Change(call[c].job, s)
      BY <1>2 DEF Monitor!ServerHandles, StoreStatuses
    <2> QED
      BY <2>1, <2>2, <2>3, <2>4, ChangeStep
  <1> QED
    BY <1>1, <1>2 DEF Monitor!CallsHandled

LEMMA DeliverStep ==
  ASSUME MonitorInv, Monitor!Deliver
  PROVE  MonitorInv'
  <1> USE DEF MonitorInv
  <1> DEFINE j == Head(wire)[1]
             s == Head(wire)[2]
  <1>1. /\ wire # <<>> /\ wire \in Seq(WireEvents) /\ wire' = Tail(wire)
        /\ list' = [list EXCEPT ![j] = IF @ = "absent" THEN @ ELSE s] /\ outdated' = outdated \ {j}
        /\ UNCHANGED <<store, sub, fetch, answer, calls, call, waiting, since>>
    BY DEF Monitor!Deliver, Monitor!Show, Monitor!server, Monitor!stream, Monitor!requests, MonitorTypeOK
  <1>2. /\ wire' \in Seq(WireEvents) /\ Head(wire) = wire[1] /\ Head(wire) \in WireEvents
        /\ Len(wire) \in Nat \ {0} /\ Len(wire') = Len(wire) - 1
        /\ \A i \in 1 .. Len(wire') : wire'[i] = wire[i + 1]
    BY <1>1, HeadTailProperties
  <1>3. j \in JobIds /\ s \in StoreStatuses /\ Head(wire) = <<j, s>>
    BY <1>2 DEF WireEvents
  <1> HIDE DEF j, s
  <1>4. MonitorTypeOK'
    BY <1>1, <1>2, <1>3 DEF MonitorTypeOK
  <1>5. LastEventIsTrue'
    <2> SUFFICES ASSUME NEW i \in 1 .. Len(wire'), \A k \in (i + 1) .. Len(wire') : wire'[k][1] # wire'[i][1]
                 PROVE  wire'[i][2] = store[wire'[i][1]]
      BY <1>1 DEF LastEventIsTrue
    <2>1. i + 1 \in 1 .. Len(wire) /\ wire'[i] = wire[i + 1]
      BY <1>2
    <2>2. ASSUME NEW k \in ((i + 1) + 1) .. Len(wire) PROVE wire[k][1] # wire[i + 1][1]
      <3>1. k - 1 \in (i + 1) .. Len(wire') /\ (k - 1) + 1 = k /\ k - 1 \in 1 .. Len(wire')
        BY <1>2
      <3> QED
        BY <1>2, <2>1, <3>1
    <2> QED
      BY <2>1, <2>2 DEF LastEventIsTrue
  <1>6. \A i \in JobIds : i \in Monitor!OnWire /\ i # j => i \in Monitor!OnWire'
    <2> SUFFICES ASSUME NEW k \in 1 .. Len(wire), wire[k][1] # j PROVE wire[k][1] \in Monitor!OnWire'
      BY <1>1 DEF Monitor!OnWire
    <2>1. k # 1
      BY <1>2, <1>3
    <2>2. k - 1 \in 1 .. Len(wire') /\ wire'[k - 1] = wire[(k - 1) + 1] /\ (k - 1) + 1 = k
      BY <1>2, <2>1
    <2>3. k - 1 \in DOMAIN wire'
      BY <1>2, <2>2
    <2> QED
      BY <2>2, <2>3 DEF Monitor!OnWire
  <1>7. j \notin Monitor!OnWire' => s = store[j]
    <2> SUFFICES ASSUME j \notin Monitor!OnWire' PROVE s = store[j]
      OBVIOUS
    <2>1. ASSUME NEW k \in 2 .. Len(wire) PROVE wire[k][1] # wire[1][1]
      <3>1. k - 1 \in 1 .. Len(wire') /\ wire'[k - 1] = wire[(k - 1) + 1] /\ (k - 1) + 1 = k
        BY <1>2
      <3>2. k - 1 \in DOMAIN wire'
        BY <1>2, <3>1
      <3> QED
        BY <1>2, <1>3, <3>1, <3>2 DEF Monitor!OnWire
    <2>2. 1 \in 1 .. Len(wire) /\ 1 + 1 = 2
      BY <1>2
    <2> QED
      BY <1>2, <1>3, <2>1, <2>2 DEF LastEventIsTrue
  <1>8. ListIsTrue'
    <2> SUFFICES ASSUME fetch = "none", NEW i \in JobIds, i \notin outdated' PROVE TrueOrMended(i)'
      BY <1>1 DEF ListIsTrue
    <2>1. CASE i = j
      BY <1>1, <1>3, <1>7, <2>1 DEF TrueOrMended, MonitorTypeOK
    <2>2. CASE i # j
      <3>1. TrueOrMended(i) /\ list'[i] = list[i]
        BY <1>1, <2>2 DEF ListIsTrue, MonitorTypeOK
      <3>2. Retried(i)' <=> Retried(i)
        BY <1>1 DEF Retried
      <3> QED
        BY <1>1, <1>6, <2>2, <3>1, <3>2 DEF TrueOrMended
    <2> QED
      BY <2>1, <2>2
  <1>9. WireIsOpen'
    BY <1>1, <1>2 DEF WireIsOpen
  <1> QED
    BY <1>1, <1>4, <1>5, <1>8, <1>9 DEF WaitingIsCalled, AnswerIsTrue

LEMMA FetchStep ==
  ASSUME MonitorInv, Monitor!FetchEnds
  PROVE  MonitorInv'
  <1> USE DEF MonitorInv
  <1>1. UNCHANGED <<store, wire, sub, calls, call, waiting>>
    BY DEF Monitor!FetchEnds, Monitor!FetchRead, Monitor!FetchAnswered, Monitor!FetchFails,
      Monitor!server, Monitor!stream, Monitor!requests
  <1>2. MonitorJobs \in [JobIds -> StoreStatuses]
    BY MonitorAssumption DEF JobIds, Monitor!Jobs, StoreStatuses
  <1>3. MonitorTypeOK'
    BY <1>1, <1>2 DEF MonitorTypeOK, Monitor!FetchEnds, Monitor!FetchRead, Monitor!FetchAnswered,
      Monitor!FetchFails, JobIds
  <1>4. WireIsOpen' /\ LastEventIsTrue' /\ WaitingIsCalled'
    BY <1>1 DEF WireIsOpen, LastEventIsTrue, WaitingIsCalled
  <1>5. AnswerIsTrue' /\ ListIsTrue'
    <2>1. CASE Monitor!FetchRead
      BY <2>1 DEF Monitor!FetchRead, AnswerIsTrue, ListIsTrue, Monitor!server
    <2>2. CASE Monitor!FetchAnswered
      <3>1. /\ fetch = "read" /\ fetch' = "none" /\ list' = answer /\ outdated' = since \ Monitor!OnWire
        BY <2>2 DEF Monitor!FetchAnswered
      <3>2. \A j \in JobIds \ outdated' : TrueOrMended(j)'
        BY <1>1, <3>1 DEF AnswerIsTrue, TrueOrMended, Monitor!OnWire
      <3> QED
        BY <3>1, <3>2 DEF AnswerIsTrue, ListIsTrue
    <2>3. CASE Monitor!FetchFails
      BY <2>3 DEF Monitor!FetchFails, AnswerIsTrue, ListIsTrue, JobIds
    <2> QED
      BY <2>1, <2>2, <2>3 DEF Monitor!FetchEnds
  <1> QED
    BY <1>3, <1>4, <1>5

\* retryJob and cancelJob send a call that no other waits for.
LEMMA RequestStep ==
  ASSUME MonitorInv, NEW j \in JobIds, Monitor!RetryJob(j) \/ Monitor!CancelJob(j)
  PROVE  MonitorInv'
  <1> USE DEF MonitorInv
  <1>1. PICK op \in Monitor!Ops : (op = "retry" /\ Monitor!RetryJob(j)) \/ (op = "cancel" /\ Monitor!CancelJob(j))
    BY DEF Monitor!RetryJob, Monitor!CancelJob, Monitor!Ops
  <1>2. /\ calls < MonitorCalls /\ calls' = calls + 1
        /\ call' = [call EXCEPT ![calls + 1] = [op |-> op, job |-> j, at |-> "sent"]]
        /\ waiting' = [waiting EXCEPT ![op] = calls + 1]
        /\ UNCHANGED <<store, wire, sub, fetch, answer, since>>
    BY <1>1 DEF Monitor!Request, Monitor!RetryJob, Monitor!CancelJob, Monitor!NewCall, Monitor!server, Monitor!stream
  <1>3. calls \in Nat /\ calls + 1 \in Monitor!Calls /\ MonitorCalls \in Nat
    BY <1>2, MonitorAssumption DEF MonitorTypeOK, Monitor!Calls
  <1>4. /\ call' \in [Monitor!Calls -> CallRecords]
        /\ \A c \in Monitor!Calls : call'[c] = IF c = calls + 1 THEN [op |-> op, job |-> j, at |-> "sent"] ELSE call[c]
    BY <1>2, <1>3 DEF MonitorTypeOK, CallRecords
  <1>5. /\ waiting' \in [Monitor!Ops -> 0 .. calls']
        /\ \A p \in Monitor!Ops : waiting'[p] = IF p = op THEN calls + 1 ELSE waiting[p]
    BY <1>2, <1>3 DEF MonitorTypeOK
  <1>6. /\ outdated \subseteq outdated' /\ outdated' \in SUBSET JobIds
        /\ op = "retry" /\ waiting["retry"] # 0 => call[waiting["retry"]].job \in outdated'
    <2>1. CASE op = "retry"
      <3>1. outdated' = outdated \cup {call[c].job : c \in {waiting["retry"]} \ {0}}
        BY <1>1, <2>1 DEF Monitor!RetryJob, Monitor!NoCall
      <3>2. waiting["retry"] # 0 => call[waiting["retry"]].job \in JobIds
        BY <1>3 DEF MonitorTypeOK, CallRecords, Monitor!Calls, Monitor!Ops
      <3> QED
        BY <3>1, <3>2 DEF MonitorTypeOK
    <2>2. CASE op # "retry"
      BY <1>1, <2>2 DEF Monitor!CancelJob, MonitorTypeOK
    <2> QED
      BY <2>1, <2>2
  <1>7. list' = IF op = "retry" THEN [list EXCEPT ![j] = IF @ = "absent" THEN @ ELSE "retrying"] ELSE list
    BY <1>1 DEF Monitor!RetryJob, Monitor!CancelJob, Monitor!Show
  <1>8. MonitorTypeOK'
    <2>1. list' \in [JobIds -> StoreStatuses \cup {"absent"}]
      BY <1>7 DEF MonitorTypeOK, StoreStatuses
    <2>2. calls' \in 0 .. MonitorCalls
      BY <1>2, <1>3
    <2> QED
      BY <1>2, <1>4, <1>5, <1>6, <2>1, <2>2 DEF MonitorTypeOK
  <1>9. WaitingIsCalled'
    BY <1>3, <1>4, <1>5 DEF WaitingIsCalled, MonitorTypeOK, Monitor!Calls
  <1>10. ListIsTrue'
    <2> SUFFICES ASSUME fetch = "none", NEW i \in JobIds, i \notin outdated' PROVE TrueOrMended(i)'
      BY <1>2 DEF ListIsTrue
    <2>1. TrueOrMended(i) /\ Monitor!OnWire' = Monitor!OnWire
      BY <1>2, <1>6 DEF ListIsTrue, Monitor!OnWire
    <2>2. CASE op = "retry"
      <3>1. i = j => Retried(i)'
        BY <1>3, <1>4, <1>5, <2>2 DEF Retried
      <3>2. ~Retried(i)
        BY <1>6, <2>2 DEF Retried
      <3>3. i # j => list'[i] = list[i]
        BY <1>7 DEF MonitorTypeOK
      <3> QED
        BY <1>2, <2>1, <3>1, <3>2, <3>3 DEF TrueOrMended
    <2>3. CASE op # "retry"
      <3>1. Retried(i) => Retried(i)'
        BY <1>3, <1>4, <1>5, <2>3 DEF Retried, MonitorTypeOK, Monitor!Ops, Monitor!Calls
      <3> QED
        BY <1>2, <1>7, <2>1, <2>3, <3>1 DEF TrueOrMended
    <2> QED
      BY <2>2, <2>3
  <1> QED
    BY <1>2, <1>8, <1>9, <1>10 DEF WireIsOpen, LastEventIsTrue, AnswerIsTrue

\* The answer to a call, or its failure, leaves the other call that is waited for.
LEMMA AnsweredFrame ==
  ASSUME MonitorInv, NEW op \in Monitor!Ops, waiting[op] # 0, Monitor!Answered(op)
  PROVE  /\ UNCHANGED <<store, wire, sub, calls>>
         /\ call' \in [Monitor!Calls -> CallRecords] /\ waiting' \in [Monitor!Ops -> 0 .. calls]
         /\ waiting'[op] = 0
         /\ \A p \in Monitor!Ops \ {op} : waiting'[p] = waiting[p]
                                           /\ (waiting[p] # 0 => call'[waiting[p]] = call[waiting[p]])
         /\ WireIsOpen' /\ LastEventIsTrue' /\ WaitingIsCalled'
  <1> USE DEF MonitorInv
  <1>1. /\ waiting' = [waiting EXCEPT ![op] = 0]
        /\ call' = [call EXCEPT ![waiting[op]] = [op |-> "retry", job |-> 1, at |-> "none"]]
        /\ UNCHANGED <<store, wire, sub, calls>>
    BY DEF Monitor!Answered, Monitor!NoCall, Monitor!NoRequest, Monitor!server, Monitor!stream
  <1>2. \A p \in Monitor!Ops : waiting[p] # 0 => waiting[p] \in Monitor!Calls
    BY MonitorAssumption DEF MonitorTypeOK, Monitor!Calls
  <1>3. 1 \in JobIds
    BY MonitorAssumption DEF JobIds, Monitor!Jobs
  <1>4. call' \in [Monitor!Calls -> CallRecords]
    BY <1>1, <1>3 DEF MonitorTypeOK, CallRecords, Monitor!Ops
  <1>5. waiting' \in [Monitor!Ops -> 0 .. calls] /\ \A p \in Monitor!Ops : waiting'[p] = IF p = op THEN 0 ELSE waiting[p]
    BY <1>1, MonitorAssumption DEF MonitorTypeOK
  <1>6. \A p \in Monitor!Ops \ {op} : waiting[p] # 0 => call'[waiting[p]] = call[waiting[p]]
    BY <1>1, <1>2 DEF WaitingIsCalled, MonitorTypeOK
  <1>7. WaitingIsCalled'
    BY <1>5, <1>6 DEF WaitingIsCalled
  <1> QED
    BY <1>1, <1>4, <1>5, <1>6, <1>7 DEF WireIsOpen, LastEventIsTrue

LEMMA RefetchFrame ==
  ASSUME MonitorInv, Monitor!Refetch
  PROVE  /\ fetch' = "sent" /\ answer' \in [JobIds -> StoreStatuses] /\ since' \in SUBSET JobIds
         /\ AnswerIsTrue' /\ ListIsTrue'
  BY MonitorAssumption DEF Monitor!Refetch, JobIds, Monitor!Jobs, StoreStatuses, AnswerIsTrue, ListIsTrue

LEMMA CallEndsStep ==
  ASSUME MonitorInv, Monitor!RetryEnds \/ Monitor!CancelEnds
  PROVE  MonitorInv'
  <1> USE DEF MonitorInv
  <1>0. "retry" \in Monitor!Ops /\ "cancel" \in Monitor!Ops
    BY DEF Monitor!Ops
  <1>1. CASE Monitor!RetryConfirmed
    <2>1. waiting["retry"] # 0 /\ Monitor!Answered("retry") /\ Monitor!Refetch /\ UNCHANGED <<list, outdated>>
      BY <1>1 DEF Monitor!RetryConfirmed, Monitor!NoCall
    <2>2. MonitorTypeOK'
      BY <1>0, <2>1, AnsweredFrame, RefetchFrame DEF MonitorTypeOK
    <2> QED
      BY <1>0, <2>1, <2>2, AnsweredFrame, RefetchFrame
  <1>2. CASE Monitor!RetryFails
    <2> DEFINE j == call[waiting["retry"]].job
    <2>1. /\ waiting["retry"] # 0 /\ Monitor!Answered("retry") /\ UNCHANGED <<fetch, answer, since>>
          /\ list' = [list EXCEPT ![j] = IF @ = "absent" THEN @ ELSE "failed"]
          /\ outdated' = IF store[j] # "failed" THEN outdated \cup {j} ELSE outdated
      BY <1>2 DEF Monitor!RetryFails, Monitor!NoCall, Monitor!Show
    <2>2. j \in JobIds
      BY <1>0, <2>1, MonitorAssumption DEF MonitorTypeOK, CallRecords, Monitor!Calls
    <2>3. \A i \in JobIds : i # j => ~Retried(i)
      BY DEF Retried
    <2> HIDE DEF j
    <2>4. UNCHANGED <<store, wire>>
      BY <1>0, <2>1, AnsweredFrame
    <2>5. MonitorTypeOK'
      <3>1. list' \in [JobIds -> StoreStatuses \cup {"absent"}] /\ outdated' \in SUBSET JobIds
        BY <2>1, <2>2 DEF MonitorTypeOK, StoreStatuses
      <3> QED
        BY <1>0, <2>1, <3>1, AnsweredFrame DEF MonitorTypeOK
    <2>6. ListIsTrue'
      <3> SUFFICES ASSUME fetch = "none", NEW i \in JobIds, i \notin outdated' PROVE TrueOrMended(i)'
        BY <2>1 DEF ListIsTrue
      <3>1. CASE i = j
        BY <2>1, <2>2, <2>4, <3>1 DEF TrueOrMended, MonitorTypeOK
      <3>2. CASE i # j
        <4>1. TrueOrMended(i) /\ list'[i] = list[i]
          BY <2>1, <3>2 DEF ListIsTrue, MonitorTypeOK
        <4> QED
          BY <2>3, <2>4, <3>2, <4>1 DEF TrueOrMended, Monitor!OnWire
      <3> QED
        BY <3>1, <3>2
    <2> QED
      BY <1>0, <2>1, <2>4, <2>5, <2>6, AnsweredFrame DEF AnswerIsTrue
  <1>3. CASE Monitor!CancelConfirmed
    <2> DEFINE j == call[waiting["cancel"]].job
    <2>1. /\ waiting["cancel"] # 0 /\ Monitor!Answered("cancel") /\ Monitor!Refetch /\ outdated' = outdated
          /\ list' = [list EXCEPT ![j] = IF @ = "absent" THEN @ ELSE "cancelled"]
      BY <1>3 DEF Monitor!CancelConfirmed, Monitor!NoCall, Monitor!Show
    <2>2. j \in JobIds
      BY <1>0, <2>1, MonitorAssumption DEF MonitorTypeOK, CallRecords, Monitor!Calls
    <2> HIDE DEF j
    <2>3. list' \in [JobIds -> StoreStatuses \cup {"absent"}]
      BY <2>1, <2>2 DEF MonitorTypeOK, StoreStatuses
    <2>4. MonitorTypeOK'
      BY <1>0, <2>1, <2>3, AnsweredFrame, RefetchFrame DEF MonitorTypeOK
    <2> QED
      BY <1>0, <2>1, <2>4, AnsweredFrame, RefetchFrame
  <1>4. CASE Monitor!CancelFails
    <2>1. /\ waiting["cancel"] # 0 /\ Monitor!Answered("cancel")
          /\ UNCHANGED <<list, outdated, fetch, answer, since>>
      BY <1>4 DEF Monitor!CancelFails, Monitor!NoCall
    <2>2. MonitorTypeOK'
      BY <1>0, <2>1, AnsweredFrame DEF MonitorTypeOK
    <2>3. \A j \in JobIds : Retried(j)' <=> Retried(j)
      BY <1>0, <2>1, AnsweredFrame DEF Retried
    <2>4. ListIsTrue' /\ AnswerIsTrue'
      BY <1>0, <2>1, <2>3, AnsweredFrame DEF ListIsTrue, AnswerIsTrue, TrueOrMended, Monitor!OnWire
    <2> QED
      BY <1>0, <2>1, <2>2, <2>4, AnsweredFrame
  <1> QED
    BY <1>1, <1>2, <1>3, <1>4 DEF Monitor!RetryEnds, Monitor!CancelEnds

\* Whatever was on the wire when the connection went is outdated.
LEMMA LoseStep ==
  ASSUME MonitorInv, Monitor!Lose, UNCHANGED <<store, fetch, answer, calls, call, waiting>>,
         list' = list \/ list' = [j \in JobIds |-> "absent"]
  PROVE  MonitorInv'
  <1> USE DEF MonitorInv
  <1>1. wire' = <<>> /\ outdated' = outdated \cup Monitor!OnWire
        /\ since' = IF fetch = "read" THEN since \cup Monitor!OnWire ELSE since
    BY DEF Monitor!Lose
  <1>2. Monitor!OnWire \in SUBSET JobIds
    <2>1. ASSUME NEW i \in DOMAIN wire PROVE wire[i][1] \in JobIds
      <3>1. wire[i] \in WireEvents
        BY DEF MonitorTypeOK
      <3> QED
        BY <3>1 DEF WireEvents
    <2> QED
      BY <2>1 DEF Monitor!OnWire
  <1>3. wire' \in Seq(WireEvents) /\ Len(wire') = 0
    BY <1>1
  <1>4. list' \in [JobIds -> StoreStatuses \cup {"absent"}]
    BY DEF MonitorTypeOK
  <1>5. MonitorTypeOK'
    BY <1>1, <1>2, <1>3, <1>4 DEF MonitorTypeOK
  <1>6. WireIsOpen' /\ LastEventIsTrue'
    BY <1>1, <1>3 DEF WireIsOpen, LastEventIsTrue
  <1>7. WaitingIsCalled' /\ AnswerIsTrue'
    BY <1>1 DEF WaitingIsCalled, AnswerIsTrue
  <1>8. ListIsTrue'
    BY <1>1 DEF ListIsTrue, TrueOrMended, Retried
  <1> QED
    BY <1>5, <1>6, <1>7, <1>8

LEMMA MonitorStepInv ==
  ASSUME MonitorInv, [Monitor!Next]_(Monitor!vars)
  PROVE  MonitorInv'
  <1>1. CASE Monitor!Stop \/ Monitor!Reset \/ Monitor!StreamEffect \/ Monitor!Interrupt
    <2>1. /\ Monitor!Lose /\ UNCHANGED <<store, fetch, answer, calls, call, waiting>>
          /\ list' = list \/ list' = [j \in JobIds |-> "absent"]
      BY <1>1 DEF Monitor!Stop, Monitor!Reset, Monitor!StreamEffect, Monitor!Interrupt, Monitor!server,
        Monitor!requests, JobIds
    <2> QED
      BY <2>1, LoseStep
  <1>2. CASE Monitor!Start \/ Monitor!Open \/ UNCHANGED Monitor!vars
    <2>1. UNCHANGED <<store, fetch, answer, calls, call, waiting, list, wire, outdated, since>>
          /\ (sub' = sub \/ sub' = "open")
      BY <1>2 DEF Monitor!Start, Monitor!Open, Monitor!vars, Monitor!server, Monitor!stream, Monitor!requests
    <2>2. MonitorTypeOK' /\ WireIsOpen' /\ LastEventIsTrue' /\ WaitingIsCalled' /\ AnswerIsTrue'
      BY <2>1 DEF MonitorInv, MonitorTypeOK, WireIsOpen, LastEventIsTrue, WaitingIsCalled, AnswerIsTrue
    <2>3. ListIsTrue'
      BY <2>1 DEF MonitorInv, ListIsTrue, TrueOrMended, Retried, Monitor!OnWire
    <2> QED
      BY <2>2, <2>3 DEF MonitorInv
  <1>3. CASE \E j \in Monitor!Jobs : Monitor!RetryJob(j) \/ Monitor!CancelJob(j)
    BY <1>3, RequestStep DEF JobIds
  <1>4. CASE Monitor!Reload
    <2>1. Monitor!Refetch /\ UNCHANGED <<store, calls, call, waiting, list, wire, outdated, sub>>
      BY <1>4 DEF Monitor!Reload, Monitor!server, Monitor!stream, Monitor!requests
    <2>2. MonitorTypeOK' /\ WireIsOpen' /\ LastEventIsTrue' /\ WaitingIsCalled'
      BY <2>1, RefetchFrame DEF MonitorInv, MonitorTypeOK, WireIsOpen, LastEventIsTrue, WaitingIsCalled
    <2> QED
      BY <2>1, <2>2, RefetchFrame DEF MonitorInv
  <1> QED
    BY <1>1, <1>2, <1>3, <1>4, ServerStep, DeliverStep, FetchStep, CallEndsStep DEF Monitor!Next, Monitor!Users

\* In every reachable state in which nothing is under way, no fetch, event or retry: the
\* list shows each job as the store has it, except those that outdated names: what the
\* four writers of the list leave wrong, one of them is still to put right
\* (createJobKernel.ts:83-192, 333-383).
THEOREM MonitorConverges == Monitor!Spec => []Converged
  <1>1. Monitor!Init => MonitorInv
    BY MonitorInitInv
  <1>2. MonitorInv /\ [Monitor!Next]_(Monitor!vars) => MonitorInv'
    BY MonitorStepInv
  <1>3. MonitorInv => Converged
    <2> SUFFICES ASSUME MonitorInv, Monitor!Quiescent, NEW j \in Monitor!Jobs \ outdated
                 PROVE  list[j] \in {"absent", store[j]}
      BY DEF Converged, Monitor!Converged
    <2>1. wire = <<>> /\ fetch = "none" /\ waiting["retry"] = 0
      BY DEF Monitor!Quiescent, Monitor!Ops, Monitor!NoCall
    <2>2. Monitor!OnWire = {}
      BY <2>1 DEF Monitor!OnWire
    <2> QED
      BY <2>1, <2>2 DEF MonitorInv, ListIsTrue, TrueOrMended, Retried, JobIds
  <1> QED
    BY <1>1, <1>2, <1>3, PTL DEF Monitor!Spec

-----------------------------------------------------------------------------
(* The chats: what a step may show *)

\* ChatPolicy speaks of the messages on the screen alone: it finds the answer under
\* way and its length in the last of them.  Here a step of it is said of two screens,
\* with the exchange, the messages before the answer and the numbers of chunks named,
\* which is how the invariants of the chats know them; and this is what it means.

Chat == INSTANCE ChatMessages

ChunkType == [exchange : Nat, chunk : Nat]
MessageType == [role : {"user", "assistant"}, exchange : Nat, text : Seq(ChunkType),
                status : {"done", "streaming", "aborted", "error"}]

\* The messages before answer k, and what may take the place of an answer that is under way.
Before(m, k) == k \in Chat!Exchanges /\ m \in Seq(MessageType) /\ Len(m) = 2 * k - 1
Answering(m, k, n) == Append(m, Chat!Assistant(k, Chat!Partial(k, n), "streaming"))
Outcomes(k, n) ==
  (IF Chat!Sent(k) = Chunks THEN {Chat!Assistant(k, Chat!Partial(k, Chunks), "done")} ELSE {})
    \cup {Chat!Assistant(k, Chat!Kept(Chat!Partial(k, i)), s) :
             i \in n .. Chat!Sent(k), s \in {"aborted", "error"}}

\* No answer is under way.
Settled(v) ==
  /\ v \in Seq(MessageType)
  /\ \E j \in Nat : Len(v) = 2 * j
  /\ v # <<>> => v[Len(v)].status # "streaming"

\* The three steps of the policy, from a screen to another.
Submits(v, w) ==
  /\ Settled(v)
  /\ \E k \in Chat!Exchanges :
       Len(v) = 2 * (k - 1) /\ w = v \o <<Chat!User(k), Chat!Assistant(k, <<>>, "streaming")>>
Streams(v, w) ==
  \E k \in Chat!Exchanges, m \in Seq(MessageType) : \E n \in 0 .. Chat!Sent(k) : \E i \in 0 .. n :
    Before(m, k) /\ i < n /\ v = Answering(m, k, i) /\ w = Answering(m, k, n)
Ends(v, w) ==
  \E k \in Chat!Exchanges, m \in Seq(MessageType) : \E n \in 0 .. Chat!Sent(k) : \E x \in Outcomes(k, n) :
    Before(m, k) /\ v = Answering(m, k, n) /\ w = Append(m, x)

\* The route sends some number of chunks.
LEMMA SentType == ASSUME NEW k PROVE Chat!Sent(k) \in Nat
  BY ChatAssumption DEF Chat!Sent

\* A text of n chunks is one.
LEMMA PartialType ==
  ASSUME NEW k \in Nat, NEW n \in Nat
  PROVE  /\ Chat!Partial(k, n) \in Seq(ChunkType) /\ Len(Chat!Partial(k, n)) = n
         /\ \A i \in 1 .. n : Chat!Partial(k, n)[i] = [exchange |-> k, chunk |-> i]
  BY DEF Chat!Partial, ChunkType

\* The next chunk makes it one of n + 1.
LEMMA PartialGrows ==
  ASSUME NEW k \in Nat, NEW n \in Nat
  PROVE  Append(Chat!Partial(k, n), [exchange |-> k, chunk |-> n + 1]) = Chat!Partial(k, n + 1)
  <1> DEFINE s == Append(Chat!Partial(k, n), [exchange |-> k, chunk |-> n + 1])
             t == Chat!Partial(k, n + 1)
  <1>1. t \in Seq(ChunkType) /\ Len(t) = n + 1 /\ \A i \in 1 .. n + 1 : t[i] = [exchange |-> k, chunk |-> i]
    <2> HIDE DEF t
    <2> QED
      BY PartialType, n + 1 \in Nat DEF t
  <1>2. [exchange |-> k, chunk |-> n + 1] \in ChunkType
    BY DEF ChunkType
  <1>3. s \in Seq(ChunkType) /\ Len(s) = n + 1 /\ \A i \in 1 .. n + 1 : s[i] = [exchange |-> k, chunk |-> i]
    BY PartialType, <1>2, AppendProperties
  <1> HIDE DEF s, t
  <1> QED
    BY <1>1, <1>3, SeqEqual DEF s, t

\* What is kept of it is a text as well.
LEMMA KeptType ==
  ASSUME NEW k \in Nat, NEW n \in Nat
  PROVE  Chat!Kept(Chat!Partial(k, n)) \in Seq(ChunkType)
  <1>1. Chat!Notice \in Seq(ChunkType)
    BY DEF Chat!Notice, ChunkType
  <1> QED
    BY <1>1, PartialType DEF Chat!Kept

\* An outcome is an answer that is under way no more.
LEMMA OutcomeType ==
  ASSUME NEW k \in Chat!Exchanges, NEW n \in Nat, NEW x \in Outcomes(k, n)
  PROVE  x \in MessageType /\ x.status # "streaming" /\ x.role = "assistant" /\ x.exchange = k
  <1>0. k \in Nat
    BY ChatAssumption DEF Chat!Exchanges
  <1>1. CASE x = Chat!Assistant(k, Chat!Partial(k, Chunks), "done")
    <2>1. Chat!Partial(k, Chunks) \in Seq(ChunkType)
      BY <1>0, ChatAssumption, PartialType
    <2> QED
      BY <1>0, <1>1, <2>1 DEF Chat!Assistant, MessageType
  <1>2. ASSUME NEW i \in n .. Chat!Sent(k), NEW s \in {"aborted", "error"},
               x = Chat!Assistant(k, Chat!Kept(Chat!Partial(k, i)), s)
        PROVE  x \in MessageType /\ x.status # "streaming" /\ x.role = "assistant" /\ x.exchange = k
    <2>1. Chat!Kept(Chat!Partial(k, i)) \in Seq(ChunkType)
      BY <1>0, SentType, KeptType
    <2> QED
      BY <1>0, <1>2, <2>1 DEF Chat!Assistant, MessageType
  <1> QED
    BY <1>1, <1>2 DEF Outcomes

\* An answer that has just begun is one with no chunks.
LEMMA StreamingType ==
  ASSUME NEW k \in Chat!Exchanges, NEW n \in Nat
  PROVE  /\ k \in Nat
         /\ Chat!Assistant(k, Chat!Partial(k, n), "streaming") \in MessageType
         /\ Chat!Assistant(k, <<>>, "streaming") = Chat!Assistant(k, Chat!Partial(k, 0), "streaming")
         /\ Chat!User(k) \in MessageType
  <1>0. k \in Nat
    BY ChatAssumption DEF Chat!Exchanges
  <1>1. Chat!Partial(k, 0) = <<>>
    BY <1>0, PartialType, EmptySeq, SeqEqual
  <1>2. Chat!Partial(k, n) \in Seq(ChunkType) /\ <<>> \in Seq(ChunkType)
    BY <1>0, PartialType
  <1> QED
    BY <1>0, <1>1, <1>2 DEF Chat!Assistant, Chat!User, MessageType

\* The last message gives way to another.
LEMMA Replaced ==
  ASSUME NEW k \in Nat \ {0}, NEW m \in Seq(MessageType), Len(m) = 2 * k - 1, NEW x \in MessageType
  PROVE  LET v == Append(m, x) IN
         /\ v \in Seq(MessageType) /\ v # <<>> /\ Len(v) = 2 * k /\ Len(v) \div 2 = k
         /\ v[Len(v)] = x /\ SubSeq(v, 1, Len(v) - 1) = m
  <1> DEFINE v == Append(m, x)
  <1>1. /\ v \in Seq(MessageType) /\ v # <<>> /\ Len(v) = Len(m) + 1
        /\ \A i \in 1 .. Len(m) : v[i] = m[i]
        /\ v[Len(m) + 1] = x
    BY AppendProperties
  <1> HIDE DEF v
  <1>2. Len(v) = 2 * k /\ Len(v) \div 2 = k /\ v[Len(v)] = x
    BY <1>1
  <1>3. SubSeq(v, 1, Len(v) - 1) = m
    <2> DEFINE u == SubSeq(v, 1, Len(v) - 1)
    <2>1. \A i \in 1 .. Len(v) - 1 : v[i] \in MessageType
      BY <1>1, <1>2, LenProperties, ElementOfSeq
    <2>2. u \in Seq(MessageType) /\ Len(u) = Len(m) /\ \A i \in 1 .. Len(m) : u[i] = m[i]
      BY <1>1, <1>2, <2>1, SubSeqProperties
    <2> HIDE DEF u
    <2> QED
      BY <2>2, SeqEqual DEF u
  <1> QED
    BY <1>1, <1>2, <1>3 DEF v

\* Two messages are appended.
LEMMA TwoAppended ==
  ASSUME NEW m \in Seq(MessageType), NEW x \in MessageType, NEW y \in MessageType
  PROVE  Append(Append(m, x), y) = m \o <<x, y>>
  <1> DEFINE s == Append(Append(m, x), y)
             u == <<x, y>>
             t == m \o u
  <1>1. /\ s \in Seq(MessageType) /\ Len(s) = Len(m) + 2
        /\ \A i \in 1 .. Len(m) : s[i] = m[i]
        /\ s[Len(m) + 1] = x /\ s[Len(m) + 2] = y
    <2>1. /\ Append(m, x) \in Seq(MessageType) /\ Len(Append(m, x)) = Len(m) + 1
          /\ \A i \in 1 .. Len(m) : Append(m, x)[i] = m[i]
          /\ Append(m, x)[Len(m) + 1] = x
      BY AppendProperties
    <2> DEFINE q == Append(m, x)
    <2>2. q \in Seq(MessageType)
      BY <2>1
    <2> HIDE DEF q
    <2>3. /\ Append(q, y) \in Seq(MessageType) /\ Len(Append(q, y)) = Len(q) + 1
          /\ \A i \in 1 .. Len(q) : Append(q, y)[i] = q[i]
          /\ Append(q, y)[Len(q) + 1] = y
      BY <2>2, AppendProperties
    <2>4. Len(q) = Len(m) + 1 /\ Len(m) \in Nat /\ q[Len(m) + 1] = x /\ \A i \in 1 .. Len(m) : q[i] = m[i]
      BY <2>1, LenProperties DEF q
    <2>5. Len(Append(q, y)) = Len(m) + 2 /\ Append(q, y)[Len(m) + 2] = y
      BY <2>3, <2>4
    <2>6. Append(q, y)[Len(m) + 1] = x /\ \A i \in 1 .. Len(m) : Append(q, y)[i] = m[i]
      BY <2>3, <2>4
    <2>7. s = Append(q, y)
      BY DEF q
    <2> HIDE DEF s
    <2> QED
      BY <2>3, <2>5, <2>6, <2>7
  <1>2. u \in Seq(MessageType) /\ Len(u) = 2 /\ u[1] = x /\ u[2] = y
    OBVIOUS
  <1>3. /\ t \in Seq(MessageType) /\ Len(t) = Len(m) + 2
        /\ \A i \in 1 .. Len(m) + 2 : t[i] = IF i <= Len(m) THEN m[i] ELSE u[i - Len(m)]
    <2> HIDE DEF u
    <2>1. /\ m \o u \in Seq(MessageType) /\ Len(m \o u) = Len(m) + Len(u)
          /\ \A i \in 1 .. Len(m) + Len(u) : (m \o u)[i] = IF i <= Len(m) THEN m[i] ELSE u[i - Len(m)]
      BY <1>2, ConcatProperties
    <2> QED
      BY <1>2, <2>1
  <1> HIDE DEF s, t, u
  <1>4. ASSUME NEW i \in 1 .. Len(s) PROVE s[i] = t[i]
    <2>1. CASE i <= Len(m)
      BY <1>1, <1>3, <2>1, LenProperties
    <2>2. CASE i = Len(m) + 1
      BY <1>1, <1>2, <1>3, <2>2, LenProperties
    <2>3. CASE i = Len(m) + 2
      BY <1>1, <1>2, <1>3, <2>3, LenProperties
    <2> QED
      BY <1>1, <2>1, <2>2, <2>3, LenProperties
  <1>5. s = t
    BY <1>1, <1>3, <1>4, SeqEqual
  <1> QED
    BY <1>5 DEF s, t, u

\* The actions of ChatPolicy, from a screen to another.
Active(v) == v # <<>> /\ v[Len(v)].status = "streaming"
Answers(v, w, words, mark) ==
  w = Append(SubSeq(v, 1, Len(v) - 1), Chat!Assistant(Len(v) \div 2, words, mark))
SubmitStep(v, w) ==
  /\ ~Active(v) /\ Len(v) \div 2 < MaxPrompts
  /\ w = v \o <<Chat!User(Len(v) \div 2 + 1), Chat!Assistant(Len(v) \div 2 + 1, <<>>, "streaming")>>
StreamStep(v, w) ==
  /\ Active(v)
  /\ \E n \in Len(v[Len(v)].text) + 1 .. Chat!Sent(Len(v) \div 2) :
       Answers(v, w, Chat!Partial(Len(v) \div 2, n), "streaming")
EndStep(v, w) ==
  /\ Active(v)
  /\ \/ Chat!Sent(Len(v) \div 2) = Chunks /\ Answers(v, w, Chat!Partial(Len(v) \div 2, Chunks), "done")
     \/ \E n \in Len(v[Len(v)].text) .. Chat!Sent(Len(v) \div 2), s \in {"aborted", "error"} :
          Answers(v, w, Chat!Kept(Chat!Partial(Len(v) \div 2, n)), s)
PolicyStep(v, w) == SubmitStep(v, w) \/ StreamStep(v, w) \/ EndStep(v, w)

\* Each of the three steps is one of these.
LEMMA ScreenSteps ==
  ASSUME NEW v, NEW w, Submits(v, w) \/ Streams(v, w) \/ Ends(v, w)
  PROVE  PolicyStep(v, w)
  <1>1. CASE Submits(v, w)
    <2>1. PICK k \in Chat!Exchanges :
            /\ Len(v) = 2 * (k - 1)
            /\ w = v \o <<Chat!User(k), Chat!Assistant(k, <<>>, "streaming")>>
      BY <1>1 DEF Submits
    <2>2. k \in Nat /\ k - 1 < MaxPrompts
      BY ChatAssumption DEF Chat!Exchanges
    <2>3. Len(v) \div 2 = k - 1
      BY <2>1, <2>2
    <2>4. ~ Active(v)
      BY <1>1 DEF Submits, Settled, Active
    <2>5. SubmitStep(v, w)
      <3>1. Len(v) \div 2 + 1 = k /\ Len(v) \div 2 < MaxPrompts
        BY <2>2, <2>3
      <3>2. w = v \o <<Chat!User(k), Chat!Assistant(k, <<>>, "streaming")>>
        BY <2>1
      <3> QED
        BY <2>4, <3>1, <3>2 DEF SubmitStep
    <2> QED
      BY <2>5 DEF PolicyStep
  <1>2. ASSUME NEW k \in Chat!Exchanges, NEW m \in Seq(MessageType), NEW i \in Nat, Before(m, k),
               v = Answering(m, k, i)
        PROVE  /\ Active(v) /\ Len(v) \div 2 = k /\ Len(v[Len(v)].text) = i
               /\ \A words, mark : w = Append(m, Chat!Assistant(k, words, mark))
                                     => Answers(v, w, words, mark)
    <2> DEFINE x == Chat!Assistant(k, Chat!Partial(k, i), "streaming")
    <2>1. k \in Nat \ {0} /\ x \in MessageType /\ x.status = "streaming" /\ x.text = Chat!Partial(k, i)
      <3>1. k \in Nat \ {0}
        BY ChatAssumption DEF Chat!Exchanges
      <3>2. x \in MessageType
        BY StreamingType
      <3>3. x.status = "streaming" /\ x.text = Chat!Partial(k, i)
        BY DEF Chat!Assistant
      <3> QED
        BY <3>1, <3>2, <3>3
    <2>2. /\ v # <<>> /\ Len(v) \div 2 = k
          /\ v[Len(v)] = x /\ SubSeq(v, 1, Len(v) - 1) = m
      <3> HIDE DEF x
      <3> QED
        BY <1>2, <2>1, Replaced DEF Before, Answering, x
    <2>3. Active(v) /\ Len(v) \div 2 = k
      BY <2>1, <2>2 DEF Active
    <2>4. Len(v[Len(v)].text) = i
      <3>1. Len(x.text) = i
        BY <2>1, PartialType
      <3> QED
        BY <2>2, <3>1
    <2>5. ASSUME NEW words, NEW mark, w = Append(m, Chat!Assistant(k, words, mark))
          PROVE  Answers(v, w, words, mark)
      BY <2>2, <2>3, <2>5 DEF Answers
    <2> QED
      BY <2>3, <2>4, <2>5
  <1>3. CASE Streams(v, w)
    <2>1. PICK k \in Chat!Exchanges, m \in Seq(MessageType) : \E n \in 0 .. Chat!Sent(k) : \E i \in 0 .. n :
            Before(m, k) /\ i < n /\ v = Answering(m, k, i) /\ w = Answering(m, k, n)
      BY <1>3 DEF Streams
    <2>2. PICK n \in 0 .. Chat!Sent(k) : \E i \in 0 .. n :
            Before(m, k) /\ i < n /\ v = Answering(m, k, i) /\ w = Answering(m, k, n)
      BY <2>1
    <2>3. PICK i \in 0 .. n :
            Before(m, k) /\ i < n /\ v = Answering(m, k, i) /\ w = Answering(m, k, n)
      BY <2>2
    <2>4. /\ Active(v) /\ Len(v) \div 2 = k /\ Len(v[Len(v)].text) = i
          /\ Answers(v, w, Chat!Partial(k, n), "streaming")
      BY <1>2, <2>3 DEF Answering
    <2>5. n \in i + 1 .. Chat!Sent(k)
      BY <2>3, SentType
    <2>6. StreamStep(v, w)
      BY <2>4, <2>5 DEF StreamStep
    <2> QED
      BY <2>6 DEF PolicyStep
  <1>4. CASE Ends(v, w)
    <2>1. PICK k \in Chat!Exchanges, m \in Seq(MessageType) :
            \E n \in 0 .. Chat!Sent(k) : \E x \in Outcomes(k, n) :
              Before(m, k) /\ v = Answering(m, k, n) /\ w = Append(m, x)
      BY <1>4 DEF Ends
    <2>2. PICK n \in 0 .. Chat!Sent(k) : \E x \in Outcomes(k, n) :
            Before(m, k) /\ v = Answering(m, k, n) /\ w = Append(m, x)
      BY <2>1
    <2>3. PICK x \in Outcomes(k, n) :
            Before(m, k) /\ v = Answering(m, k, n) /\ w = Append(m, x)
      BY <2>2
    <2>4. Active(v) /\ Len(v) \div 2 = k /\ Len(v[Len(v)].text) = n
      BY <1>2, <2>3
    <2>5. CASE Chat!Sent(k) = Chunks /\ x = Chat!Assistant(k, Chat!Partial(k, Chunks), "done")
      <3>1. Answers(v, w, Chat!Partial(k, Chunks), "done")
        BY <1>2, <2>3, <2>5
      <3>2. EndStep(v, w)
        BY <2>4, <2>5, <3>1 DEF EndStep
      <3> QED
        BY <3>2 DEF PolicyStep
    <2>6. ASSUME NEW i \in n .. Chat!Sent(k), NEW s \in {"aborted", "error"},
                 x = Chat!Assistant(k, Chat!Kept(Chat!Partial(k, i)), s)
          PROVE  PolicyStep(v, w)
      <3>1. Answers(v, w, Chat!Kept(Chat!Partial(k, i)), s)
        BY <1>2, <2>3, <2>6
      <3>2. EndStep(v, w)
        BY <2>4, <3>1 DEF EndStep
      <3> QED
        BY <3>2 DEF PolicyStep
    <2> QED
      BY <2>3, <2>5, <2>6 DEF Outcomes
  <1> QED
    BY <1>1, <1>3, <1>4

\* What the policy of the kernel chat says of messages is what ChatMessages does.
LEMMA KernelWords ==
  ASSUME NEW k, NEW n, NEW words, NEW mark
  PROVE  /\ Kernel!Policy!Sent(k) = Chat!Sent(k) /\ Kernel!Policy!Partial(k, n) = Chat!Partial(k, n)
         /\ Kernel!Policy!User(k) = Chat!User(k)
         /\ Kernel!Policy!Assistant(k, words, mark) = Chat!Assistant(k, words, mark)
         /\ Kernel!Policy!Kept(words) = Chat!Kept(words)
  BY DEF Kernel!Policy!Sent, Kernel!Policy!Partial, Kernel!Policy!User, Kernel!Policy!Assistant,
         Kernel!Policy!Kept, Kernel!Policy!Notice,
         Chat!Sent, Chat!Partial, Chat!User, Chat!Assistant, Chat!Kept, Chat!Notice

\* It is an action of the policy of the chat with the kernel.
LEMMA KernelAllows ==
  ASSUME PolicyStep(chatView, chatView')
  PROVE  Kernel!Policy!Next
  <1>1. /\ Kernel!Policy!Active <=> Active(chatView)
        /\ Kernel!Policy!Exchange = Len(chatView) \div 2 /\ Kernel!Policy!Shown = Len(chatView[Len(chatView)].text)
    BY DEF Active, Kernel!Policy!Active, Kernel!Policy!Exchange, Kernel!Policy!Shown, Kernel!Policy!Last
  <1>2. ASSUME NEW words, NEW mark, Answers(chatView, chatView', words, mark)
        PROVE  Kernel!Policy!Answers(words, mark)
    BY <1>1, <1>2, KernelWords DEF Answers, Kernel!Policy!Answers, Kernel!Policy!Front
  <1>3. SubmitStep(chatView, chatView') => Kernel!Policy!Submit
    BY <1>1, KernelWords DEF SubmitStep, Kernel!Policy!Submit
  <1>4. StreamStep(chatView, chatView') => Kernel!Policy!Stream
    BY <1>1, <1>2, KernelWords DEF StreamStep, Kernel!Policy!Stream
  <1>5. ASSUME EndStep(chatView, chatView') PROVE Kernel!Policy!End
    <2> DEFINE k == Len(chatView) \div 2
               n == Len(chatView[Len(chatView)].text)
    <2>1. CASE Chat!Sent(k) = Chunks /\ Answers(chatView, chatView', Chat!Partial(k, Chunks), "done")
      BY <1>1, <1>2, <1>5, <2>1, KernelWords DEF EndStep, Kernel!Policy!End
    <2>2. ASSUME NEW i \in n .. Chat!Sent(k), NEW s \in {"aborted", "error"},
                 Answers(chatView, chatView', Chat!Kept(Chat!Partial(k, i)), s)
          PROVE  Kernel!Policy!End
      <3>1. Kernel!Policy!Answers(Kernel!Policy!Kept(Kernel!Policy!Partial(k, i)), s)
        BY <1>2, <2>2, KernelWords
      <3> QED
        BY <1>1, <1>5, <3>1, KernelWords DEF EndStep, Kernel!Policy!End
    <2> QED
      BY <1>5, <2>1, <2>2 DEF EndStep
  <1> QED
    BY <1>3, <1>4, <1>5 DEF PolicyStep, Kernel!Policy!Next

\* The same of the plain chat.
LEMMA PlainWords ==
  ASSUME NEW k, NEW n, NEW words, NEW mark
  PROVE  /\ Plain!Policy!Sent(k) = Chat!Sent(k) /\ Plain!Policy!Partial(k, n) = Chat!Partial(k, n)
         /\ Plain!Policy!User(k) = Chat!User(k)
         /\ Plain!Policy!Assistant(k, words, mark) = Chat!Assistant(k, words, mark)
         /\ Plain!Policy!Kept(words) = Chat!Kept(words)
  BY DEF Plain!Policy!Sent, Plain!Policy!Partial, Plain!Policy!User, Plain!Policy!Assistant,
         Plain!Policy!Kept, Plain!Policy!Notice,
         Chat!Sent, Chat!Partial, Chat!User, Chat!Assistant, Chat!Kept, Chat!Notice

\* It is an action of the policy of that chat.
LEMMA PlainAllows ==
  ASSUME PolicyStep(plainView, plainView')
  PROVE  Plain!Policy!Next
  <1>1. /\ Plain!Policy!Active <=> Active(plainView)
        /\ Plain!Policy!Exchange = Len(plainView) \div 2 /\ Plain!Policy!Shown = Len(plainView[Len(plainView)].text)
    BY DEF Active, Plain!Policy!Active, Plain!Policy!Exchange, Plain!Policy!Shown, Plain!Policy!Last
  <1>2. ASSUME NEW words, NEW mark, Answers(plainView, plainView', words, mark)
        PROVE  Plain!Policy!Answers(words, mark)
    BY <1>1, <1>2, PlainWords DEF Answers, Plain!Policy!Answers, Plain!Policy!Front
  <1>3. SubmitStep(plainView, plainView') => Plain!Policy!Submit
    BY <1>1, PlainWords DEF SubmitStep, Plain!Policy!Submit
  <1>4. StreamStep(plainView, plainView') => Plain!Policy!Stream
    BY <1>1, <1>2, PlainWords DEF StreamStep, Plain!Policy!Stream
  <1>5. ASSUME EndStep(plainView, plainView') PROVE Plain!Policy!End
    <2> DEFINE k == Len(plainView) \div 2
               n == Len(plainView[Len(plainView)].text)
    <2>1. CASE Chat!Sent(k) = Chunks /\ Answers(plainView, plainView', Chat!Partial(k, Chunks), "done")
      BY <1>1, <1>2, <1>5, <2>1, PlainWords DEF EndStep, Plain!Policy!End
    <2>2. ASSUME NEW i \in n .. Chat!Sent(k), NEW s \in {"aborted", "error"},
                 Answers(plainView, plainView', Chat!Kept(Chat!Partial(k, i)), s)
          PROVE  Plain!Policy!End
      <3>1. Plain!Policy!Answers(Plain!Policy!Kept(Plain!Policy!Partial(k, i)), s)
        BY <1>2, <2>2, PlainWords
      <3> QED
        BY <1>1, <1>5, <3>1, PlainWords DEF EndStep, Plain!Policy!End
    <2> QED
      BY <1>5, <2>1, <2>2 DEF EndStep
  <1> QED
    BY <1>3, <1>4, <1>5 DEF PolicyStep, Plain!Policy!Next

-----------------------------------------------------------------------------
(* ChatGraph: the panel shows what the graph has, or is about to *)

\* The argument: a click and an arrival come when the task before is over, and then the
\* screen shows what the graph has; so whatever one of them makes of it, until it is
\* rendered, is one step of the policy away.  A run whose answer is over, or was
\* cancelled, is never the one the graph shows, though it still reads.

ScreenStep(v, w) == Submits(v, w) \/ Streams(v, w) \/ Ends(v, w)

\* What a rendering would show once the flush is over.
KernelTarget ==
  IF activeAssistant = 0 THEN chatMessages
  ELSE Append(chatMessages, Chat!Assistant(activeAssistant, IF chatEffect THEN <<>> ELSE chatText, "streaming"))

\* The answer under way is that of the run, and its text what was read of the response.
KernelAnswers(k) ==
  /\ Kernel!Live /\ chatRun = k
  /\ chatRead[k] \in 0 .. Chat!Sent(k) /\ chatText = Chat!Partial(k, chatRead[k])

KernelInv ==
  /\ chatEffect \in BOOLEAN /\ request = activeAssistant
  /\ chatRead \in [Chat!Exchanges -> Int]
  /\ activeAssistant = 0 => Settled(chatMessages)
  /\ activeAssistant # 0 =>
       Before(chatMessages, activeAssistant) /\ (~chatEffect => KernelAnswers(activeAssistant))
  /\ chatView = KernelTarget \/ ScreenStep(chatView, KernelTarget)

\* What ChatGraph says of messages is what ChatMessages does.
LEMMA KernelSays ==
  ASSUME NEW k, NEW n, NEW words, NEW mark
  PROVE  /\ Kernel!Sent(k) = Chat!Sent(k) /\ Kernel!Partial(k, n) = Chat!Partial(k, n)
         /\ Kernel!User(k) = Chat!User(k)
         /\ Kernel!Assistant(k, words, mark) = Chat!Assistant(k, words, mark)
         /\ Kernel!Kept(words) = Chat!Kept(words) /\ Kernel!Exchanges = Chat!Exchanges
  BY DEF Kernel!Sent, Kernel!Partial, Kernel!User, Kernel!Assistant, Kernel!Kept, Kernel!Notice,
         Kernel!Exchanges, Chat!Sent, Chat!Partial, Chat!User, Chat!Assistant, Chat!Kept, Chat!Notice,
         Chat!Exchanges

\* An answer that has come to its end leaves the messages settled.
LEMMA OutcomeSettles ==
  ASSUME NEW k, NEW m, Before(m, k), NEW n \in 0 .. Chat!Sent(k), NEW x \in Outcomes(k, n)
  PROVE  Settled(Append(m, x)) /\ Ends(Answering(m, k, n), Append(m, x))
  <1>1. k \in Chat!Exchanges /\ k \in Nat \ {0} /\ m \in Seq(MessageType) /\ Len(m) = 2 * k - 1
    BY ChatAssumption DEF Before, Chat!Exchanges
  <1>2. x \in MessageType /\ x.status # "streaming"
    BY <1>1, SentType, OutcomeType
  <1> DEFINE v == Append(m, x)
  <1>3. v \in Seq(MessageType) /\ Len(v) = 2 * k /\ v[Len(v)] = x
    <2> HIDE DEF v
    <2> QED
      BY <1>1, <1>2, Replaced DEF v
  <1>4. Settled(v)
    <2> HIDE DEF v
    <2> QED
      BY <1>1, <1>2, <1>3 DEF Settled
  <1>5. Ends(Answering(m, k, n), Append(m, x))
    BY <1>1 DEF Ends
  <1> QED
    BY <1>4, <1>5

\* Nothing is shown at first.
LEMMA KernelInitInv == Kernel!Init => KernelInv
  <1> SUFFICES ASSUME Kernel!Init PROVE KernelInv
    OBVIOUS
  <1>1. Settled(<<>>)
    <2>1. <<>> \in Seq(MessageType) /\ Len(<<>>) = 2 * 0
      OBVIOUS
    <2> QED
      BY <2>1 DEF Settled
  <1>2. chatRead \in [Chat!Exchanges -> Int]
    BY KernelSays DEF Kernel!Init, Kernel!NotRead
  <1> QED
    BY <1>1, <1>2 DEF Kernel!Init, KernelInv, KernelTarget

\* What is rendered is the target, and when the task is over it has been.
LEMMA KernelShows ==
  ASSUME KernelInv, ~chatEffect
  PROVE  Kernel!VisibleMessages = KernelTarget
  <1>1. CASE activeAssistant = 0
    BY <1>1 DEF Kernel!VisibleMessages, KernelTarget
  <1>2. CASE activeAssistant # 0
    <2>1. Kernel!ToAssistantStatus = "streaming"
      BY <1>2 DEF KernelInv, KernelAnswers, Kernel!Live, Kernel!ToAssistantStatus
    <2> QED
      BY <1>2, <2>1, KernelSays DEF Kernel!VisibleMessages, KernelTarget
  <1> QED
    BY <1>1, <1>2

\* When a task is over, the screen shows the messages and the answer under way.
LEMMA KernelTaskOver ==
  ASSUME KernelInv, Kernel!TaskOver
  PROVE  /\ ~chatEffect /\ chatView = KernelTarget
         /\ activeAssistant # 0 =>
              /\ Before(chatMessages, activeAssistant) /\ KernelAnswers(activeAssistant)
              /\ chatView = Answering(chatMessages, activeAssistant, chatRead[activeAssistant])
  <1>1. ~chatEffect /\ chatView = KernelTarget
    BY KernelShows DEF Kernel!TaskOver
  <1>2. ASSUME activeAssistant # 0
        PROVE  /\ Before(chatMessages, activeAssistant) /\ KernelAnswers(activeAssistant)
               /\ chatView = Answering(chatMessages, activeAssistant, chatRead[activeAssistant])
    BY <1>1, <1>2 DEF KernelInv, KernelAnswers, KernelTarget, Answering
  <1> QED
    BY <1>1, <1>2

\* An answer is committed: done, cancelled or broken off.
LEMMA KernelCommits ==
  ASSUME KernelInv, Kernel!TaskOver, activeAssistant # 0,
         NEW x \in Outcomes(activeAssistant, chatRead[activeAssistant]),
         chatMessages' = Append(chatMessages, x), activeAssistant' = 0, request' = 0,
         chatEffect' \in BOOLEAN, chatRead' \in [Chat!Exchanges -> Int], chatView' = chatView
  PROVE  KernelInv'
  <1>1. /\ Before(chatMessages, activeAssistant)
        /\ chatRead[activeAssistant] \in 0 .. Chat!Sent(activeAssistant)
        /\ chatView = Answering(chatMessages, activeAssistant, chatRead[activeAssistant])
    BY KernelTaskOver DEF KernelAnswers
  <1>2. Settled(chatMessages') /\ Ends(chatView, chatMessages')
    BY <1>1, OutcomeSettles
  <1>3. KernelTarget' = chatMessages'
    BY DEF KernelTarget
  <1>4. Settled(chatMessages)' /\ ScreenStep(chatView, KernelTarget)'
    BY <1>2, <1>3 DEF ScreenStep
  <1> QED
    BY <1>4 DEF KernelInv

\* Nothing that is shown changes.
LEMMA KernelQuiet ==
  ASSUME KernelInv, UNCHANGED <<chatMessages, activeAssistant, request, chatEffect, chatView>>,
         chatRead' \in [Chat!Exchanges -> Int],
         activeAssistant # 0 =>
           UNCHANGED <<chatStatus, chatText, chatRun>> /\ chatRead'[activeAssistant] = chatRead[activeAssistant]
  PROVE  KernelInv'
  <1>1. activeAssistant # 0 /\ ~chatEffect => KernelAnswers(activeAssistant)'
    BY DEF KernelInv, KernelAnswers, Kernel!Live
  <1>2. KernelTarget' = KernelTarget
    BY DEF KernelTarget
  <1>3. Settled(chatMessages)' <=> Settled(chatMessages)
    OBVIOUS
  <1>4. Before(chatMessages, activeAssistant)' <=> Before(chatMessages, activeAssistant)
    OBVIOUS
  <1>5. ScreenStep(chatView, KernelTarget)' <=> ScreenStep(chatView, KernelTarget)
    BY <1>2
  <1> QED
    BY <1>1, <1>2, <1>3, <1>4, <1>5 DEF KernelInv

\* A submission is a step of the policy that has yet to be rendered.
LEMMA KernelSubmitStep ==
  ASSUME KernelInv, Kernel!Submit
  PROVE  KernelInv'
  <1>1. ~chatEffect /\ chatView = chatMessages /\ Settled(chatMessages) /\ activeAssistant = 0
    BY KernelTaskOver DEF Kernel!Submit, KernelInv, KernelTarget
  <1>2. PICK j \in Nat : Len(chatMessages) = 2 * j
    BY <1>1 DEF Settled
  <1> DEFINE k == j + 1
  <1>3. Len(chatMessages) \div 2 + 1 = k
    BY <1>2
  <1>4. /\ k \in Chat!Exchanges /\ k # 0
        /\ chatMessages' = Append(chatMessages, Chat!User(k))
        /\ activeAssistant' = k /\ request' = k /\ chatEffect' = TRUE
        /\ UNCHANGED <<chatRead, chatView>>
    <2> HIDE DEF k
    <2>1. k \in Kernel!Exchanges
      BY <1>3 DEF Kernel!Submit
    <2> QED
      BY <1>3, <2>1, KernelSays, ChatAssumption DEF Kernel!Submit, Chat!Exchanges
  <1>5. chatMessages \in Seq(MessageType) /\ Len(chatMessages) = 2 * (k - 1)
    BY <1>1, <1>2 DEF Settled
  <1> HIDE DEF k
  <1>6. /\ Chat!User(k) \in MessageType /\ k \in Nat \ {0}
        /\ Chat!Assistant(k, <<>>, "streaming") \in MessageType
    BY <1>4, StreamingType
  <1>7. Before(chatMessages, activeAssistant)'
    BY <1>4, <1>5, <1>6, AppendProperties DEF Before
  <1>8. KernelTarget' = Append(Append(chatMessages, Chat!User(k)), Chat!Assistant(k, <<>>, "streaming"))
    BY <1>4 DEF KernelTarget
  <1>9. KernelTarget' = chatMessages \o <<Chat!User(k), Chat!Assistant(k, <<>>, "streaming")>>
    BY <1>5, <1>6, <1>8, TwoAppended
  <1>10. Submits(chatView, KernelTarget')
    BY <1>1, <1>4, <1>5, <1>9 DEF Submits
  <1>11. ScreenStep(chatView, KernelTarget)'
    BY <1>4, <1>10 DEF ScreenStep
  <1> QED
    BY <1>4, <1>7, <1>11 DEF KernelInv

\* The flush and the run without a request change nothing that is shown; the rendering takes the step.
LEMMA KernelMicrotaskStep ==
  ASSUME KernelInv, Kernel!Microtask
  PROVE  KernelInv' /\ (chatView' = chatView \/ ScreenStep(chatView, chatView'))
  <1>1. CASE Kernel!Flush
    <2>1. CASE activeAssistant = 0
      <3>1. /\ UNCHANGED <<chatMessages, activeAssistant, request, chatView>>
            /\ chatRead' = chatRead /\ chatEffect' = FALSE
        BY <1>1, <2>1 DEF Kernel!Flush, Kernel!signals, KernelInv
      <3>2. KernelTarget' = KernelTarget
        BY <2>1, <3>1 DEF KernelTarget
      <3>3. Settled(chatMessages)' /\ (chatView = KernelTarget \/ ScreenStep(chatView, KernelTarget))'
        BY <2>1, <3>1, <3>2 DEF KernelInv
      <3> QED
        BY <2>1, <3>1, <3>3 DEF KernelInv
    <2>2. CASE activeAssistant # 0
      <3>1. /\ UNCHANGED <<chatMessages, activeAssistant, request, chatView>>
            /\ chatEffect /\ chatEffect' = FALSE /\ chatRun' = activeAssistant
            /\ chatStatus' = "pending" /\ chatText' = <<>>
            /\ chatRead' = [chatRead EXCEPT ![activeAssistant] = 0]
        BY <1>1, <2>2 DEF Kernel!Flush, Kernel!signals, KernelInv
      <3>2. activeAssistant \in Chat!Exchanges /\ activeAssistant \in Nat
        BY <2>2, ChatAssumption DEF KernelInv, Before, Chat!Exchanges
      <3>3. chatRead' \in [Chat!Exchanges -> Int] /\ chatRead'[activeAssistant] = 0
        BY <3>1, <3>2 DEF KernelInv
      <3>4. KernelTarget' = KernelTarget
        BY <3>1 DEF KernelTarget
      <3>5. chatText' = Chat!Partial(activeAssistant, 0)
        BY <3>1, <3>2, PartialType, EmptySeq, SeqEqual
      <3>6. KernelAnswers(activeAssistant)'
        BY <3>1, <3>3, <3>5, SentType DEF KernelAnswers, Kernel!Live
      <3>7. /\ Before(chatMessages, activeAssistant)'
            /\ (chatView = KernelTarget \/ ScreenStep(chatView, KernelTarget))'
        BY <2>2, <3>1, <3>4 DEF KernelInv
      <3> QED
        BY <2>2, <3>1, <3>3, <3>6, <3>7 DEF KernelInv
    <2>3. chatView' = chatView
      BY <1>1 DEF Kernel!Flush
    <2> QED
      BY <2>1, <2>2, <2>3
  <1>2. CASE Kernel!EmptyRunEnds
    <2>1. activeAssistant = 0
      BY <1>2, ChatAssumption DEF Kernel!EmptyRunEnds, Kernel!EmptyRun, KernelInv, KernelAnswers, Before,
         Chat!Exchanges
    <2>2. UNCHANGED <<chatMessages, activeAssistant, request, chatEffect, chatView, chatRead>>
      BY <1>2, <2>1 DEF Kernel!EmptyRunEnds, Kernel!CommitAssistant, Kernel!signals
    <2>3. chatRead' \in [Chat!Exchanges -> Int]
      BY <2>2 DEF KernelInv
    <2> QED
      BY <2>1, <2>2, <2>3, KernelQuiet
  <1>3. CASE Kernel!Render
    <2>1. /\ ~chatEffect /\ chatView' = KernelTarget
          /\ UNCHANGED <<chatMessages, activeAssistant, request, chatEffect, chatRun, chatStatus, chatText,
                         chatRead>>
      BY <1>3, KernelShows DEF Kernel!Render, Kernel!signals, Kernel!stream
    <2>2. KernelTarget' = KernelTarget
      BY <2>1 DEF KernelTarget
    <2>3. KernelAnswers(activeAssistant)' <=> KernelAnswers(activeAssistant)
      BY <2>1 DEF KernelAnswers, Kernel!Live
    <2>4. KernelInv'
      BY <2>1, <2>2, <2>3 DEF KernelInv
    <2> QED
      BY <2>1, <2>4 DEF KernelInv
  <1> QED
    BY <1>1, <1>2, <1>3 DEF Kernel!Microtask

\* Cancelling commits what was read so far.
LEMMA KernelCancelStep ==
  ASSUME KernelInv, Kernel!Cancel
  PROVE  KernelInv'
  <1>1. activeAssistant # 0 /\ Kernel!TaskOver
    BY DEF Kernel!Cancel
  <1>2. KernelAnswers(activeAssistant) /\ ~chatEffect
    BY <1>1, KernelTaskOver
  <1> DEFINE x == Chat!Assistant(activeAssistant, Chat!Kept(chatText), "aborted")
  <1>3. /\ chatMessages' = Append(chatMessages, x) /\ activeAssistant' = 0 /\ request' = 0
        /\ chatEffect' \in BOOLEAN /\ UNCHANGED <<chatRead, chatView>>
    BY <1>1, KernelSays DEF Kernel!Cancel, Kernel!CommitAssistant, KernelInv
  <1>4. x \in Outcomes(activeAssistant, chatRead[activeAssistant])
    BY <1>2, SentType DEF KernelAnswers, Outcomes
  <1>5. chatRead' \in [Chat!Exchanges -> Int]
    BY <1>3 DEF KernelInv
  <1> HIDE DEF x
  <1> QED
    BY <1>1, <1>3, <1>4, <1>5, KernelCommits

\* A chunk, the end or a failure of the answer is such a step; of another response, nothing.
LEMMA KernelRespondsStep ==
  ASSUME KernelInv, NEW k \in Chat!Exchanges, Kernel!Responds(k)
  PROVE  KernelInv' /\ chatView' = chatView
  <1>1. Kernel!TaskOver /\ chatView' = chatView /\ k \in Nat \ {0} /\ chatRead \in [Chat!Exchanges -> Int]
    BY ChatAssumption DEF Kernel!Responds, Kernel!ReadChunk, Kernel!ReadEnds, Kernel!ReadFails, Kernel!Reading,
       Chat!Exchanges, KernelInv
  <1>2. /\ ~chatEffect
        /\ activeAssistant # 0 =>
             Before(chatMessages, activeAssistant) /\ KernelAnswers(activeAssistant)
    BY <1>1, KernelTaskOver
  <1>3. chatRead' \in [Chat!Exchanges -> Int] /\ \A e \in Chat!Exchanges \ {k} : chatRead'[e] = chatRead[e]
    BY <1>1 DEF Kernel!Responds, Kernel!ReadChunk, Kernel!ReadEnds, Kernel!ReadFails, Kernel!NotRead
  <1>4. CASE activeAssistant # k
    <2>1. UNCHANGED <<chatMessages, activeAssistant, request, chatEffect>>
      BY <1>2, <1>4
         DEF Kernel!Responds, Kernel!ReadChunk, Kernel!ReadEnds, Kernel!ReadFails, Kernel!Current,
             Kernel!CommitAssistant, Kernel!signals, KernelAnswers
    <2>2. ASSUME activeAssistant # 0
          PROVE  /\ UNCHANGED <<chatStatus, chatText, chatRun>>
                 /\ chatRead'[activeAssistant] = chatRead[activeAssistant]
      <3>1. ~ Kernel!Current(k) /\ activeAssistant \in Chat!Exchanges \ {k}
        BY <1>2, <1>4, <2>2 DEF Kernel!Current, KernelAnswers, Before
      <3> QED
        BY <1>3, <3>1 DEF Kernel!Responds, Kernel!ReadChunk, Kernel!ReadEnds, Kernel!ReadFails
    <2> QED
      BY <1>1, <1>3, <2>1, <2>2, KernelQuiet
  <1>5. CASE activeAssistant = k
    <2>1. /\ Before(chatMessages, k) /\ KernelAnswers(k) /\ Kernel!Current(k)
          /\ chatView = Answering(chatMessages, k, chatRead[k])
      BY <1>1, <1>5, KernelTaskOver DEF Kernel!Current, KernelAnswers
    <2>2. CASE Kernel!ReadChunk(k)
      <3> DEFINE n == chatRead[k] + 1
      <3>1. /\ chatRead[k] < Chat!Sent(k) /\ chatStatus' = "streaming"
            /\ chatRead' = [chatRead EXCEPT ![k] = n]
            /\ chatText' = Append(chatText, Kernel!Last(Kernel!Partial(k, n)))
            /\ UNCHANGED <<chatMessages, activeAssistant, request, chatEffect, chatRun, chatView>>
        BY <2>1, <2>2, KernelSays DEF Kernel!ReadChunk, Kernel!signals
      <3>2. n \in 1 .. Chat!Sent(k) /\ chatRead[k] \in Nat /\ n \in Nat
        BY <2>1, <3>1, SentType DEF KernelAnswers
      <3>3. Kernel!Last(Kernel!Partial(k, n)) = [exchange |-> k, chunk |-> n]
        <4>1. Len(Chat!Partial(k, n)) = n /\ Chat!Partial(k, n)[n] = [exchange |-> k, chunk |-> n]
          <5> HIDE DEF n
          <5> QED
            BY <1>1, <3>2, PartialType
        <4> QED
          BY <4>1, KernelSays DEF Kernel!Last
      <3>4. chatText' = Chat!Partial(k, n)
        BY <1>1, <2>1, <3>1, <3>2, <3>3, PartialGrows DEF KernelAnswers
      <3>5. chatRead'[k] = n
        BY <1>1, <3>1
      <3>6. KernelAnswers(activeAssistant)'
        <4> HIDE DEF n
        <4> QED
          BY <1>5, <2>1, <3>1, <3>2, <3>4, <3>5 DEF KernelAnswers, Kernel!Live
      <3>7. KernelTarget' = Answering(chatMessages, k, n)
        BY <1>1, <1>2, <1>5, <3>1, <3>4 DEF KernelTarget, Answering
      <3>8. Streams(chatView, KernelTarget')
        BY <2>1, <3>2, <3>7 DEF Streams, Before
      <3>9. (Before(chatMessages, activeAssistant) /\ ScreenStep(chatView, KernelTarget))'
        BY <1>5, <2>1, <3>1, <3>8 DEF ScreenStep
      <3> QED
        BY <1>1, <1>3, <1>5, <3>1, <3>6, <3>9 DEF KernelInv
    <2>3. ASSUME Kernel!ReadEnds(k) \/ Kernel!ReadFails(k)
          PROVE  KernelInv'
      <3>1. PICK x \in Outcomes(k, chatRead[k]) :
              /\ chatMessages' = Append(chatMessages, x) /\ activeAssistant' = 0 /\ request' = 0
              /\ chatEffect' \in BOOLEAN
        <4>1. CASE Kernel!ReadEnds(k)
          <5>1. Chat!Assistant(k, Chat!Partial(k, Chunks), "done") \in Outcomes(k, chatRead[k])
            BY <4>1 DEF Outcomes, Kernel!ReadEnds, Chat!Sent
          <5> QED
            BY <1>1, <1>5, <2>1, <4>1, <5>1, KernelSays DEF Kernel!ReadEnds, Kernel!CommitAssistant, KernelInv
        <4>2. CASE Kernel!ReadFails(k)
          <5>1. Chat!Assistant(k, Chat!Kept(chatText), "error") \in Outcomes(k, chatRead[k])
            BY <2>1, SentType DEF Outcomes, KernelAnswers
          <5> QED
            BY <1>1, <1>5, <2>1, <4>2, <5>1, KernelSays DEF Kernel!ReadFails, Kernel!CommitAssistant, KernelInv
        <4> QED
          BY <2>3, <4>1, <4>2
      <3> QED
        BY <1>1, <1>3, <1>5, <3>1, KernelCommits
    <2> QED
      BY <1>1, <2>2, <2>3 DEF Kernel!Responds
  <1> QED
    BY <1>1, <1>4, <1>5

\* Every step keeps the invariant, and shows a step of the policy or nothing new.
LEMMA KernelStepInv ==
  ASSUME KernelInv, [Kernel!Next]_(Kernel!vars)
  PROVE  KernelInv' /\ (chatView' = chatView \/ ScreenStep(chatView, chatView'))
  <1>1. CASE Kernel!Microtask
    BY <1>1, KernelMicrotaskStep
  <1>2. CASE Kernel!Submit
    BY <1>2, KernelSubmitStep DEF Kernel!Submit
  <1>3. CASE Kernel!Cancel
    BY <1>3, KernelCancelStep DEF Kernel!Cancel
  <1>4. ASSUME NEW k \in Kernel!Exchanges, Kernel!Responds(k)
        PROVE  KernelInv' /\ chatView' = chatView
    BY <1>4, KernelRespondsStep, KernelSays
  <1>5. CASE UNCHANGED Kernel!vars
    <2>1. UNCHANGED <<chatMessages, activeAssistant, request, chatEffect, chatRun, chatStatus, chatText,
                      chatRead, chatView>>
      BY <1>5 DEF Kernel!vars, Kernel!signals, Kernel!stream
    <2>2. chatRead' \in [Chat!Exchanges -> Int]
      BY <2>1 DEF KernelInv
    <2> QED
      BY <2>1, <2>2, KernelQuiet
  <1> QED
    BY <1>1, <1>2, <1>3, <1>4, <1>5 DEF Kernel!Next

\* What the kernel chat shows changes only as the policy allows.
THEOREM KernelKeepsSteps == Kernel!Spec => Kernel!Policy!AllowedSteps
  <1>1. Kernel!Init => KernelInv /\ Kernel!Policy!Init
    BY KernelInitInv DEF Kernel!Init, Kernel!Policy!Init
  <1>2. KernelInv /\ [Kernel!Next]_(Kernel!vars) => KernelInv' /\ [Kernel!Policy!Next]_chatView
    <2> SUFFICES ASSUME KernelInv, [Kernel!Next]_(Kernel!vars)
                 PROVE  KernelInv' /\ [Kernel!Policy!Next]_chatView
      OBVIOUS
    <2>1. CASE chatView' = chatView
      BY <2>1, KernelStepInv
    <2>2. CASE ScreenStep(chatView, chatView')
      BY <2>2, KernelStepInv, ScreenSteps, KernelAllows DEF ScreenStep
    <2> QED
      BY <2>1, <2>2, KernelStepInv
  <1> QED
    BY <1>1, <1>2, PTL DEF Kernel!Spec, Kernel!Policy!AllowedSteps

-----------------------------------------------------------------------------
(* PlainChat: what is rendered is an earlier state of the same answer *)

\* The argument: at most one response is read, and its answer is the last message.  What
\* is rendered are the same messages with fewer chunks of it, or they themselves.  A
\* submission is seen only by a handler that was rendered when no answer was under
\* way, and none can have begun since; so the messages it replaces are those there are.

\* The answer of an exchange is the message at its place.
Placed(shown) ==
  \A i \in DOMAIN shown, k \in Chat!Exchanges : Plain!IsAnswer(shown[i], k) => i = 2 * k

\* Answer k is read, n chunks of it so far, and i of them are rendered.
PlainReads(k, m, i, n) ==
  /\ Before(m, k)
  /\ plainRead = [e \in Chat!Exchanges |-> IF e = k THEN n ELSE -1]
  /\ plainMessages = Answering(m, k, n) /\ plainView = Answering(m, k, i)

PlainRests ==
  /\ ~isStreaming /\ \A k \in Chat!Exchanges : plainRead[k] = -1
  /\ Settled(plainMessages) /\ (plainView = plainMessages \/ Ends(plainView, plainMessages))
PlainStreams ==
  /\ isStreaming /\ viewStreaming
  /\ \E k \in Chat!Exchanges, m \in Seq(MessageType) : \E n \in 0 .. Chat!Sent(k) : \E i \in 0 .. n :
       PlainReads(k, m, i, n)

PlainInv ==
  /\ isStreaming \in BOOLEAN /\ viewStreaming \in BOOLEAN
  /\ plainRead \in [Chat!Exchanges -> Int] /\ Placed(plainMessages)
  /\ ~viewStreaming => plainView = plainMessages
  /\ PlainRests \/ PlainStreams

\* What PlainChat says of messages is what ChatMessages does.
LEMMA PlainSays ==
  ASSUME NEW k, NEW n, NEW words, NEW mark
  PROVE  /\ Plain!Sent(k) = Chat!Sent(k) /\ Plain!Partial(k, n) = Chat!Partial(k, n)
         /\ Plain!User(k) = Chat!User(k)
         /\ Plain!Assistant(k, words, mark) = Chat!Assistant(k, words, mark)
         /\ Plain!Kept(words) = Chat!Kept(words) /\ Plain!Exchanges = Chat!Exchanges
  BY DEF Plain!Sent, Plain!Partial, Plain!User, Plain!Assistant, Plain!Kept, Plain!Notice,
         Plain!Exchanges, Chat!Sent, Chat!Partial, Chat!User, Chat!Assistant, Chat!Kept, Chat!Notice,
         Chat!Exchanges

\* Nothing is shown and nothing read at first.
LEMMA PlainInitInv == Plain!Init => PlainInv
  <1> SUFFICES ASSUME Plain!Init PROVE PlainInv
    OBVIOUS
  <1>1. Settled(<<>>)
    <2>1. <<>> \in Seq(MessageType) /\ Len(<<>>) = 2 * 0
      OBVIOUS
    <2> QED
      BY <2>1 DEF Settled
  <1>2. plainRead \in [Chat!Exchanges -> Int] /\ \A k \in Chat!Exchanges : plainRead[k] = -1
    BY PlainSays DEF Plain!Init, Plain!NotRead
  <1>3. Placed(<<>>)
    BY DEF Placed
  <1> QED
    BY <1>1, <1>2, <1>3 DEF Plain!Init, PlainInv, PlainRests

\* The answer that is read is the last message, and no other is updated.
LEMMA PlainAnswer ==
  ASSUME NEW k, NEW m, Before(m, k), NEW n \in Nat,
         plainMessages = Answering(m, k, n), Placed(plainMessages)
  PROVE  /\ Plain!Content(k) = Chat!Partial(k, n)
         /\ \A words \in Seq(ChunkType), mark \in {"done", "streaming", "aborted", "error"} :
              Plain!Update(k, words, mark) => /\ plainMessages' = Append(m, Chat!Assistant(k, words, mark))
                                              /\ Placed(plainMessages')
  <1> DEFINE x == Chat!Assistant(k, Chat!Partial(k, n), "streaming")
  <1>1. k \in Chat!Exchanges /\ k \in Nat \ {0} /\ m \in Seq(MessageType) /\ Len(m) = 2 * k - 1
    BY ChatAssumption DEF Before, Chat!Exchanges
  <1>2. x \in MessageType /\ x.role = "assistant" /\ x.exchange = k /\ x.text = Chat!Partial(k, n)
    BY <1>1, StreamingType DEF Chat!Assistant
  <1> HIDE DEF x
  <1>3. /\ plainMessages \in Seq(MessageType) /\ Len(plainMessages) = 2 * k /\ plainMessages[2 * k] = x
        /\ \A i \in 1 .. 2 * k - 1 : plainMessages[i] = m[i]
        /\ DOMAIN plainMessages = 1 .. 2 * k
    <2>1. plainMessages = Append(m, x)
      BY DEF Answering, x
    <2>2. /\ Append(m, x) \in Seq(MessageType) /\ Len(Append(m, x)) = 2 * k
          /\ \A i \in 1 .. 2 * k - 1 : Append(m, x)[i] = m[i]
          /\ Append(m, x)[2 * k] = x
      <3>1. /\ Append(m, x) \in Seq(MessageType) /\ Len(Append(m, x)) = Len(m) + 1
            /\ \A i \in 1 .. Len(m) : Append(m, x)[i] = m[i]
            /\ Append(m, x)[Len(m) + 1] = x
        BY <1>1, <1>2, AppendProperties
      <3> QED
        BY <1>1, <3>1
    <2> QED
      BY <2>1, <2>2, LenProperties
  <1>4. \A i \in 1 .. 2 * k : Plain!IsAnswer(plainMessages[i], k) <=> i = 2 * k
    BY <1>1, <1>2, <1>3 DEF Placed, Plain!IsAnswer
  <1>5. Plain!Content(k) = Chat!Partial(k, n)
    <2> DEFINE c == CHOOSE y \in Plain!ToSet(plainMessages) : Plain!IsAnswer(y, k)
    <2>1. x \in Plain!ToSet(plainMessages) /\ Plain!IsAnswer(x, k)
      BY <1>1, <1>3, <1>4 DEF Plain!ToSet
    <2>2. c \in Plain!ToSet(plainMessages) /\ Plain!IsAnswer(c, k)
      BY <2>1
    <2>3. c = x
      <3> HIDE DEF c
      <3> QED
        BY <1>3, <1>4, <2>2 DEF Plain!ToSet
    <2>4. Plain!Content(k) = c.text
      BY DEF Plain!Content
    <2> HIDE DEF c
    <2> QED
      BY <1>2, <2>3, <2>4
  <1>6. ASSUME NEW words \in Seq(ChunkType), NEW mark \in {"done", "streaming", "aborted", "error"},
               Plain!Update(k, words, mark)
        PROVE  /\ plainMessages' = Append(m, Chat!Assistant(k, words, mark))
               /\ Placed(plainMessages')
    <2> DEFINE y == Chat!Assistant(k, words, mark)
               t == Append(m, y)
    <2>1. y \in MessageType /\ Plain!IsAnswer(y, k) /\ \A e : Plain!IsAnswer(y, e) => e = k
      BY <1>1 DEF Chat!Assistant, MessageType, Plain!IsAnswer
    <2>2. [x EXCEPT !.text = words, !.status = mark] = y
      <3> DEFINE z == Chat!Assistant(k, words, "streaming")
      <3>1. [x EXCEPT !.text = words] = z
        BY DEF x, Chat!Assistant
      <3>2. [z EXCEPT !.status = mark] = y
        BY DEF Chat!Assistant
      <3>3. [x EXCEPT !.text = words, !.status = mark] = [[x EXCEPT !.text = words] EXCEPT !.status = mark]
        OBVIOUS
      <3> QED
        BY <3>1, <3>2, <3>3
    <2> HIDE DEF y
    <2>3. /\ t \in Seq(MessageType) /\ Len(t) = 2 * k /\ t[2 * k] = y
          /\ \A i \in 1 .. 2 * k - 1 : t[i] = m[i]
      <3>1. /\ t \in Seq(MessageType) /\ Len(t) = Len(m) + 1 /\ t[Len(m) + 1] = y
            /\ \A i \in 1 .. Len(m) : t[i] = m[i]
        BY <1>1, <2>1, AppendProperties
      <3> HIDE DEF t
      <3> QED
        BY <1>1, <3>1
    <2> HIDE DEF t
    <2>4. plainMessages' = [i \in 1 .. 2 * k |-> t[i]]
      <3>1. ASSUME NEW i \in 1 .. 2 * k
            PROVE  t[i] = IF Plain!IsAnswer(plainMessages[i], k)
                          THEN [plainMessages[i] EXCEPT !.text = words, !.status = mark]
                          ELSE plainMessages[i]
        <4>1. CASE i = 2 * k
          BY <1>3, <1>4, <2>2, <2>3, <4>1
        <4>2. CASE i # 2 * k
          <5>1. i \in 1 .. 2 * k - 1 /\ ~ Plain!IsAnswer(plainMessages[i], k)
            BY <1>1, <1>4, <4>2
          <5> QED
            BY <1>3, <2>3, <5>1
        <4> QED
          BY <4>1, <4>2
      <3> QED
        BY <1>3, <1>6, <3>1 DEF Plain!Update
    <2>5. plainMessages' = t
      BY <2>3, <2>4, LenProperties
    <2>6. ASSUME NEW i \in DOMAIN t, NEW e \in Chat!Exchanges, Plain!IsAnswer(t[i], e)
          PROVE  i = 2 * e
      <3>1. i \in 1 .. 2 * k
        BY <2>3, LenProperties
      <3>2. CASE i = 2 * k
        BY <2>1, <2>3, <2>6, <3>2
      <3>3. CASE i # 2 * k
        BY <1>1, <1>3, <2>3, <2>6, <3>1, <3>3 DEF Placed
      <3> QED
        BY <3>2, <3>3
    <2>7. Placed(t)
      BY <2>6 DEF Placed
    <2> QED
      BY <2>5, <2>7 DEF t, y
  <1> QED
    BY <1>5, <1>6

\* A submission is rendered with the step that makes it.
LEMMA PlainSubmitStep ==
  ASSUME PlainInv, Plain!HandleSubmit
  PROVE  PlainInv' /\ ScreenStep(plainView, plainView')
  <1>1. /\ ~viewStreaming /\ plainView = plainMessages /\ Settled(plainMessages)
        /\ \A k \in Chat!Exchanges : plainRead[k] = -1
    BY DEF Plain!HandleSubmit, PlainInv, PlainRests, PlainStreams
  <1>2. PICK j \in Nat : Len(plainMessages) = 2 * j
    BY <1>1 DEF Settled
  <1> DEFINE k == j + 1
  <1>0. PICK m : m = Append(plainMessages, Chat!User(k))
    OBVIOUS
  <1>3. Len(plainMessages) \div 2 + 1 = k
    BY <1>2
  <1>4. /\ k \in Chat!Exchanges
        /\ plainMessages' = plainMessages \o <<Chat!User(k), Chat!Assistant(k, <<>>, "streaming")>>
        /\ isStreaming' = TRUE /\ viewStreaming' = TRUE /\ plainView' = plainMessages'
        /\ plainRead' = [plainRead EXCEPT ![k] = 0]
    <2> HIDE DEF k
    <2>1. k \in Plain!Exchanges
      BY <1>1, <1>3 DEF Plain!HandleSubmit
    <2> QED
      BY <1>1, <1>3, <2>1, PlainSays DEF Plain!HandleSubmit
  <1>5. plainMessages \in Seq(MessageType) /\ Len(plainMessages) = 2 * (k - 1)
    BY <1>1, <1>2 DEF Settled
  <1> HIDE DEF k
  <1>6. /\ Chat!User(k) \in MessageType /\ k \in Nat \ {0}
        /\ Chat!Assistant(k, <<>>, "streaming") \in MessageType
        /\ Chat!Assistant(k, <<>>, "streaming") = Chat!Assistant(k, Chat!Partial(k, 0), "streaming")
    <2>1. k \in Nat \ {0}
      BY <1>4, ChatAssumption DEF Chat!Exchanges
    <2> QED
      BY <1>4, <2>1, StreamingType
  <1>7. Before(m, k) /\ m[2 * k - 1] = Chat!User(k) /\ \A i \in DOMAIN plainMessages : m[i] = plainMessages[i]
    <2>1. /\ m \in Seq(MessageType) /\ Len(m) = Len(plainMessages) + 1
          /\ \A i \in 1 .. Len(plainMessages) : m[i] = plainMessages[i]
          /\ m[Len(plainMessages) + 1] = Chat!User(k)
      BY <1>0, <1>5, <1>6, AppendProperties
    <2> QED
      BY <1>4, <1>5, <1>6, <2>1, LenProperties DEF Before
  <1>8. plainMessages' = Answering(m, k, 0)
    BY <1>0, <1>4, <1>5, <1>6, TwoAppended DEF Answering
  <1>9. plainRead' = [e \in Chat!Exchanges |-> IF e = k THEN 0 ELSE -1] /\ plainRead' \in [Chat!Exchanges -> Int]
    <2>1. plainRead \in [Chat!Exchanges -> Int]
      BY DEF PlainInv
    <2>2. plainRead' \in [Chat!Exchanges -> Int]
      BY <1>4, <2>1
    <2>3. \A e \in Chat!Exchanges : plainRead'[e] = IF e = k THEN 0 ELSE -1
      BY <1>1, <1>4, <2>1
    <2> QED
      BY <2>2, <2>3
  <1>10. PlainStreams'
    <2>1. PlainReads(k, m, 0, 0)'
      BY <1>4, <1>7, <1>8, <1>9 DEF PlainReads
    <2>2. 0 \in 0 .. Chat!Sent(k) /\ 0 \in 0 .. 0 /\ m \in Seq(MessageType)
      BY <1>7, SentType DEF Before
    <2> QED
      BY <1>4, <2>1, <2>2 DEF PlainStreams
  <1>11. Placed(plainMessages)'
    <2> DEFINE y == Chat!Assistant(k, <<>>, "streaming")
               t == Append(m, y)
    <2>1. plainMessages' = t
      BY <1>6, <1>8 DEF Answering
    <2>2. m \in Seq(MessageType) /\ Len(m) = 2 * k - 1
      BY <1>7 DEF Before
    <2>3. Plain!IsAnswer(y, k) /\ \A e : Plain!IsAnswer(y, e) => e = k
      BY DEF Chat!Assistant, Plain!IsAnswer
    <2>4. \A e : ~ Plain!IsAnswer(Chat!User(k), e)
      BY DEF Chat!User, Plain!IsAnswer
    <2> HIDE DEF y
    <2>5. /\ Len(t) = 2 * k /\ t[2 * k] = y /\ t \in Seq(MessageType)
          /\ \A i \in 1 .. 2 * k - 1 : t[i] = m[i]
      <3>1. y \in MessageType
        BY <1>6 DEF y
      <3>2. /\ t \in Seq(MessageType) /\ Len(t) = Len(m) + 1 /\ t[Len(m) + 1] = y
            /\ \A i \in 1 .. Len(m) : t[i] = m[i]
        BY <2>2, <3>1, AppendProperties
      <3> HIDE DEF t
      <3> QED
        BY <1>6, <2>2, <3>2
    <2> HIDE DEF t
    <2>6. ASSUME NEW i \in DOMAIN t, NEW e \in Chat!Exchanges, Plain!IsAnswer(t[i], e)
          PROVE  i = 2 * e
      <3>1. i \in 1 .. 2 * k
        BY <2>5, LenProperties
      <3>2. CASE i = 2 * k
        BY <2>3, <2>5, <2>6, <3>2
      <3>3. CASE i = 2 * k - 1
        <4>1. DOMAIN plainMessages = 1 .. 2 * (k - 1) /\ t[i] = m[2 * k - 1]
          BY <1>5, <1>6, <2>5, <3>3, LenProperties
        <4>2. m[2 * k - 1] = Chat!User(k)
          BY <1>7
        <4> QED
          BY <2>4, <2>6, <4>1, <4>2
      <3>4. CASE i \in 1 .. 2 * (k - 1)
        <4>1. i \in DOMAIN plainMessages
          BY <1>5, <3>4, LenProperties
        <4>2. t[i] = plainMessages[i]
          BY <1>6, <1>7, <2>5, <3>4, <4>1
        <4> QED
          BY <2>6, <4>1, <4>2 DEF PlainInv, Placed
      <3> QED
        BY <1>6, <3>1, <3>2, <3>3, <3>4
    <2> QED
      BY <2>1, <2>6 DEF Placed
  <1>12. Submits(plainView, plainView')
    BY <1>1, <1>4, <1>5 DEF Submits
  <1> QED
    BY <1>4, <1>9, <1>10, <1>11, <1>12 DEF PlainInv, ScreenStep

\* Rendering takes the screen from fewer chunks to more, or to the end of the answer.
LEMMA PlainRenderStep ==
  ASSUME PlainInv, Plain!Render
  PROVE  PlainInv' /\ (plainView' = plainView \/ ScreenStep(plainView, plainView'))
  <1>1. /\ plainView' = plainMessages /\ viewStreaming' = isStreaming
        /\ UNCHANGED <<plainMessages, isStreaming, plainRead>>
    BY DEF Plain!Render
  <1>2. CASE PlainRests
    <2>1. PlainRests'
      BY <1>1, <1>2 DEF PlainRests
    <2> QED
      BY <1>1, <1>2, <2>1 DEF PlainInv, PlainRests, ScreenStep
  <1>3. CASE PlainStreams
    <2>1. PICK k \in Chat!Exchanges, m \in Seq(MessageType) : \E n \in 0 .. Chat!Sent(k) : \E i \in 0 .. n :
            PlainReads(k, m, i, n)
      BY <1>3 DEF PlainStreams
    <2>2. PICK n \in 0 .. Chat!Sent(k) : \E i \in 0 .. n : PlainReads(k, m, i, n)
      BY <2>1
    <2>3. PICK i \in 0 .. n : PlainReads(k, m, i, n)
      BY <2>2
    <2>4. PlainReads(k, m, n, n)' /\ n \in 0 .. n
      BY <1>1, <2>3, SentType DEF PlainReads
    <2>5. isStreaming' /\ viewStreaming'
      BY <1>1, <1>3 DEF PlainStreams
    <2>6. PlainStreams'
      BY <2>4, <2>5 DEF PlainStreams
    <2>7. CASE i = n
      BY <1>1, <2>3, <2>5, <2>6, <2>7 DEF PlainInv, PlainReads
    <2>8. CASE i # n
      <3>1. i < n
        BY <2>8, SentType
      <3>2. Streams(plainView, plainView')
        BY <1>1, <2>3, <3>1 DEF Streams, PlainReads
      <3> QED
        BY <1>1, <2>5, <2>6, <3>2 DEF PlainInv, ScreenStep
    <2> QED
      BY <2>7, <2>8
  <1> QED
    BY <1>2, <1>3 DEF PlainInv

\* Only the one response that is read changes the messages, and only its answer.
LEMMA PlainRespondsStep ==
  ASSUME PlainInv, NEW e \in Chat!Exchanges, Plain!Responds(e)
  PROVE  PlainInv' /\ plainView' = plainView
  <1>1. plainRead[e] # -1 /\ plainView' = plainView /\ viewStreaming' = viewStreaming
    BY ChatAssumption DEF Plain!Responds, Plain!ReadChunk, Plain!ReadEnds, Plain!ReadFails, Plain!Finally,
       Plain!NotRead
  <1>2. PlainStreams
    BY <1>1 DEF PlainInv, PlainRests
  <1>3. PICK k \in Chat!Exchanges, m \in Seq(MessageType) : \E n \in 0 .. Chat!Sent(k) : \E i \in 0 .. n :
          PlainReads(k, m, i, n)
    BY <1>2 DEF PlainStreams
  <1>4. PICK n \in 0 .. Chat!Sent(k) : \E i \in 0 .. n : PlainReads(k, m, i, n)
    BY <1>3
  <1>5. PICK i \in 0 .. n : PlainReads(k, m, i, n)
    BY <1>4
  <1>6. e = k /\ plainRead[e] = n /\ n \in Nat /\ k \in Nat
    BY <1>1, <1>5, SentType, ChatAssumption DEF PlainReads, Chat!Exchanges
  <1>7. /\ Plain!Content(k) = Chat!Partial(k, n)
        /\ \A words \in Seq(ChunkType), mark \in {"done", "streaming", "aborted", "error"} :
             Plain!Update(k, words, mark) => /\ plainMessages' = Append(m, Chat!Assistant(k, words, mark))
                                             /\ Placed(plainMessages')
    BY <1>5, <1>6, PlainAnswer DEF PlainReads, PlainInv
  <1>8. CASE Plain!ReadChunk(e)
    <2>1. n < Chat!Sent(k) /\ plainRead' = [plainRead EXCEPT ![k] = n + 1] /\ isStreaming' = isStreaming
      BY <1>6, <1>8, PlainSays DEF Plain!ReadChunk
    <2>2. Plain!Update(k, Chat!Partial(k, n + 1), "streaming")
      BY <1>6, <1>8, PlainSays DEF Plain!ReadChunk
    <2>3. Chat!Partial(k, n + 1) \in Seq(ChunkType)
      BY <1>6, PartialType
    <2>4. plainMessages' = Answering(m, k, n + 1) /\ Placed(plainMessages')
      BY <1>7, <2>2, <2>3 DEF Answering
    <2>5. /\ plainRead' = [d \in Chat!Exchanges |-> IF d = k THEN n + 1 ELSE -1]
          /\ plainRead' \in [Chat!Exchanges -> Int]
      <3>1. \A d \in Chat!Exchanges : plainRead[d] = IF d = k THEN n ELSE -1
        BY <1>5 DEF PlainReads
      <3>2. plainRead \in [Chat!Exchanges -> Int]
        BY DEF PlainInv
      <3>3. plainRead' \in [Chat!Exchanges -> Int]
        BY <1>6, <2>1, <3>2
      <3>4. \A d \in Chat!Exchanges : plainRead'[d] = IF d = k THEN n + 1 ELSE -1
        BY <2>1, <3>1, <3>2
      <3> QED
        BY <3>3, <3>4
    <2>6. PlainReads(k, m, i, n + 1)'
      BY <1>1, <1>5, <2>4, <2>5 DEF PlainReads
    <2>7. n + 1 \in 0 .. Chat!Sent(k) /\ i \in 0 .. n + 1
      BY <1>6, <2>1, SentType
    <2>8. PlainStreams'
      BY <1>1, <1>2, <2>1, <2>6, <2>7 DEF PlainStreams
    <2> QED
      BY <1>1, <1>2, <2>4, <2>5, <2>8 DEF PlainInv, PlainStreams
  <1>9. ASSUME Plain!ReadEnds(e) \/ Plain!ReadFails(e) PROVE PlainInv'
    <2>1. plainRead' = [plainRead EXCEPT ![k] = -1] /\ isStreaming' = FALSE
      BY <1>6, <1>9 DEF Plain!ReadEnds, Plain!ReadFails, Plain!Finally, Plain!NotRead
    <2>2. PICK x \in Outcomes(k, i) : plainMessages' = Append(m, x) /\ Placed(plainMessages')
      <3>1. CASE Plain!ReadEnds(e)
        <4>1. Plain!Update(k, Chat!Partial(k, Chunks), "done") /\ k \notin Interrupted
          BY <1>6, <3>1, PlainSays DEF Plain!ReadEnds
        <4>2. Chat!Partial(k, Chunks) \in Seq(ChunkType)
          BY <1>6, ChatAssumption, PartialType
        <4>3. Chat!Assistant(k, Chat!Partial(k, Chunks), "done") \in Outcomes(k, i)
          BY <4>1 DEF Outcomes, Chat!Sent
        <4> QED
          BY <1>7, <4>1, <4>2, <4>3
      <3>2. CASE Plain!ReadFails(e)
        <4>1. PICK mark \in {"aborted", "error"} : Plain!Update(k, Chat!Kept(Chat!Partial(k, n)), mark)
          BY <1>6, <1>7, <3>2, PlainSays DEF Plain!ReadFails
        <4>2. Chat!Kept(Chat!Partial(k, n)) \in Seq(ChunkType)
          BY <1>6, KeptType
        <4>3. Chat!Assistant(k, Chat!Kept(Chat!Partial(k, n)), mark) \in Outcomes(k, i)
          BY <1>6, SentType DEF Outcomes
        <4> QED
          BY <1>7, <4>1, <4>2, <4>3
      <3> QED
        BY <1>9, <3>1, <3>2
    <2>3. i \in 0 .. Chat!Sent(k)
      BY <1>6, SentType
    <2>4. Settled(Append(m, x)) /\ Ends(Answering(m, k, i), Append(m, x))
      BY <1>5, <2>2, <2>3, OutcomeSettles DEF PlainReads
    <2>5. (Settled(plainMessages) /\ Ends(plainView, plainMessages))'
      BY <1>1, <1>5, <2>2, <2>4 DEF PlainReads
    <2>6. plainRead' \in [Chat!Exchanges -> Int] /\ \A d \in Chat!Exchanges : plainRead'[d] = -1
      BY <1>5, <1>6, <2>1 DEF PlainReads
    <2>7. PlainRests'
      BY <2>1, <2>5, <2>6 DEF PlainRests
    <2> QED
      BY <1>1, <1>2, <2>1, <2>2, <2>6, <2>7 DEF PlainInv, PlainStreams
  <1> QED
    BY <1>1, <1>8, <1>9 DEF Plain!Responds

\* Every step keeps the invariant, and shows a step of the policy or nothing new.
LEMMA PlainStepInv ==
  ASSUME PlainInv, [Plain!Next]_(Plain!vars)
  PROVE  PlainInv' /\ (plainView' = plainView \/ ScreenStep(plainView, plainView'))
  <1>1. CASE Plain!HandleSubmit
    BY <1>1, PlainSubmitStep
  <1>2. CASE Plain!Render
    BY <1>2, PlainRenderStep
  <1>3. ASSUME NEW k \in Plain!Exchanges, Plain!Responds(k)
        PROVE  PlainInv' /\ plainView' = plainView
    BY <1>3, PlainRespondsStep, PlainSays
  <1>4. CASE Plain!StopStreaming \/ UNCHANGED Plain!vars
    <2>1. UNCHANGED <<plainMessages, isStreaming, plainRead, plainView, viewStreaming>>
      BY <1>4 DEF Plain!StopStreaming, Plain!vars
    <2> QED
      BY <2>1 DEF PlainInv, PlainRests, PlainStreams, PlainReads
  <1> QED
    BY <1>1, <1>2, <1>3, <1>4 DEF Plain!Next

\* What the plain chat shows changes only as the policy allows.
THEOREM PlainKeepsSteps == Plain!Spec => Plain!Policy!AllowedSteps
  <1>1. Plain!Init => PlainInv /\ Plain!Policy!Init
    BY PlainInitInv DEF Plain!Init, Plain!Policy!Init
  <1>2. PlainInv /\ [Plain!Next]_(Plain!vars) => PlainInv' /\ [Plain!Policy!Next]_plainView
    <2> SUFFICES ASSUME PlainInv, [Plain!Next]_(Plain!vars)
                 PROVE  PlainInv' /\ [Plain!Policy!Next]_plainView
      OBVIOUS
    <2>1. CASE plainView' = plainView
      BY <2>1, PlainStepInv
    <2>2. CASE ScreenStep(plainView, plainView')
      BY <2>2, PlainStepInv, ScreenSteps, PlainAllows DEF ScreenStep
    <2> QED
      BY <2>1, <2>2, PlainStepInv
  <1> QED
    BY <1>1, <1>2, PTL DEF Plain!Spec, Plain!Policy!AllowedSteps
=============================================================================
