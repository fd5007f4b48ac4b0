-------------------------- MODULE AppCallback_proofs --------------------------
(***************************************************************************)
(* Proofs about AppCallback, for any set of containers and any number of   *)
(* requests handled at once: an application started once is never stopped  *)
(* by a callback before its last container has ended, even though the      *)
(* handlers lose updates of the counter.  The reason is that a lost update *)
(* only leaves the counter too high.                                       *)
(***************************************************************************)
EXTENDS MCAppCallback, FiniteSetTheorems, TLAPS

USE ContainerAssumption, BoundAssumption

OneExecution == \E s \in Start : Start = {s}

\* The containers whose callback has not been taken off the counter.
Unanswered == {c \in Container : callback[c] \in {"none", "sent", "lost", "read"}}

\* A wrapper calls back when it has ended, and not before.
EndedCalls == \A c \in Container : callback[c] = "none" <=> instance[c] # "ended"

\* The counter, and what any handler has read of it, is at least the number of
\* callbacks still to be taken off.
CounterCovers ==
  /\ counter # Absent => counter >= Count(Unanswered)
  /\ \A c \in Container : callback[c] = "read" => seen[c] >= Count(Unanswered)
  /\ \A c \in Container : callback[c] = "last" => Unanswered = {}

IInv == TypeOK /\ EndedCalls /\ CounterCovers

-----------------------------------------------------------------------------
LEMMA CountSubset ==
  ASSUME NEW S \in SUBSET Container
  PROVE  IsFiniteSet(S) /\ Count(S) \in Nat /\ Count(S) <= Count(Container)
BY FS_Subset, FS_CardinalityType DEF Count

LEMMA CountPositive ==
  ASSUME NEW s \in Start
  PROVE  Count(ContainersOf(s)) \in 1..Count(Container)
<1>1. ContainersOf(s) \in SUBSET Container
  BY DEF ContainersOf
<1>2. Count(ContainersOf(s)) # 0
  BY <1>1, CountSubset, FS_EmptySet DEF Count
<1> QED
  BY <1>1, <1>2, CountSubset, FS_CardinalityType DEF Count

-----------------------------------------------------------------------------
\* Every step keeps the variables in their ranges.
LEMMA TypeStep == TypeOK /\ [Next]_vars => TypeOK'
<1> SUFFICES ASSUME TypeOK, [Next]_vars PROVE TypeOK'
  OBVIOUS
<1> USE DEF TypeOK, Absent
<1>0. Count(Container) \in Nat
  BY CountSubset
<1>1. CASE UNCHANGED vars
  BY <1>1 DEF vars, redis, hosts, tasks, bounds
<1>2. ASSUME NEW s \in Start, StartStep(s) PROVE TypeOK'
  <2> USE DEF redis, hosts, tasks, bounds, Goto
  <2>1. CASE CreateCounter(s)
    BY <2>1, <1>0, CountPositive DEF CreateCounter
  <2>2. CASE SetRunning(s)   BY <2>2 DEF SetRunning
  <2>3. CASE Deploy(s)       BY <2>3 DEF Deploy, ContainersOf
  <2>4. CASE DeployFails(s)  BY <2>4 DEF DeployFails, ContainersOf
  <2>5. CASE Started(s)
    BY <2>5 DEF Started
  <2>6. CASE RollbackEnd(s)  BY <2>6 DEF RollbackEnd
  <2> QED
    BY <1>2, <2>1, <2>2, <2>3, <2>4, <2>5, <2>6 DEF StartStep
<1>3. ASSUME NEW c \in Container, StopContainer(c)
      PROVE  /\ stop' \in [Container -> {"none", "done", "failed"}] /\ errors' \in Nat
             /\ instance' \in [Container -> {"none", "running", "error", "ended"}]
             /\ callback' \in [Container -> {"none", "sent", "lost", "read", "last", "done"}]
  BY <1>3 DEF StopContainer
<1>4. ASSUME NEW c \in Container, ContainerStep(c) PROVE TypeOK'
  <2> USE DEF redis, hosts, tasks, bounds, Answer
  <2>1. CASE StartInside(c)       BY <2>1 DEF StartInside
  <2>2. CASE StartInsideFails(c)  BY <2>2 DEF StartInsideFails
  <2>3. CASE Exit(c)              BY <2>3 DEF Exit
  <2>4. CASE RollbackStop(c)      BY <2>4, <1>3 DEF RollbackStop
  <2>5. CASE ReadCounter(c)       BY <2>5 DEF ReadCounter
  <2>6. CASE Decrement(c)
    <3>1. counter' \in 0..Count(Container)
      BY <2>6, <1>0 DEF Decrement
    <3> QED
      BY <2>6, <3>1 DEF Decrement
  <2>7. CASE RemoveCounter(c)     BY <2>7, <1>0 DEF RemoveCounter
  <2>8. CASE StopApp(c)
    BY <2>8 DEF StopApp, QueueRemoval, Trigger
  <2> QED
    BY <1>4, <2>1, <2>2, <2>3, <2>4, <2>5, <2>6, <2>7, <2>8 DEF ContainerStep
<1>5. ASSUME NEW k \in Trigger, RemovalStep(k) PROVE TypeOK'
  <2> USE DEF redis, hosts, tasks, bounds
  <2>1. CASE Unsubscribe(k)
    BY <2>1 DEF Unsubscribe
  <2>2. ASSUME NEW c \in Container, RemovalStop(k, c) PROVE TypeOK'
    BY <2>2, <1>3 DEF RemovalStop
  <2> QED
    BY <1>5, <2>1, <2>2 DEF RemovalStep
<1>6. ASSUME NEW k \in Switch, UserStop(k) PROVE TypeOK'
  BY <1>6 DEF UserStop, QueueRemoval, Trigger, redis, hosts, bounds
<1> QED
  BY <1>1, <1>2, <1>4, <1>5, <1>6 DEF Next

-----------------------------------------------------------------------------
\* Only the end of a running wrapper sends or loses a callback.
LEMMA StopEffect ==
  ASSUME TypeOK, NEW c \in Container, StopContainer(c)
  PROVE  \A d \in Container :
           \/ instance'[d] = instance[d] /\ callback'[d] = callback[d]
           \/ /\ instance[d] = "running" /\ instance'[d] = "ended"
              /\ callback'[d] \in {"sent", "lost"}
BY DEF TypeOK, StopContainer

LEMMA EndedCallsStep == TypeOK /\ EndedCalls /\ [Next]_vars => EndedCalls'
<1> SUFFICES ASSUME TypeOK, EndedCalls, [Next]_vars PROVE EndedCalls'
  OBVIOUS
<1> USE DEF EndedCalls
<1>1. CASE UNCHANGED hosts
  BY <1>1 DEF hosts
<1>2. ASSUME NEW c \in Container, StopContainer(c) PROVE EndedCalls'
  BY <1>2, StopEffect
<1>3. ASSUME NEW c \in Container, ContainerStep(c) PROVE EndedCalls'
  <2>1. CASE StartInside(c)       BY <2>1 DEF StartInside, TypeOK
  <2>2. CASE StartInsideFails(c)  BY <2>2 DEF StartInsideFails, TypeOK
  <2>3. CASE Exit(c)              BY <2>3 DEF Exit, TypeOK
  <2>4. CASE RollbackStop(c)      BY <2>4, <1>2 DEF RollbackStop
  <2>5. CASE ReadCounter(c)       BY <2>5 DEF ReadCounter, Answer, TypeOK
  <2>6. CASE Decrement(c)         BY <2>6 DEF Decrement, Answer, TypeOK
  <2>7. CASE RemoveCounter(c)     BY <2>7 DEF RemoveCounter, Answer, TypeOK
  <2>8. CASE StopApp(c)           BY <2>8 DEF StopApp, Answer, TypeOK
  <2> QED
    BY <1>3, <2>1, <2>2, <2>3, <2>4, <2>5, <2>6, <2>7, <2>8 DEF ContainerStep
<1>4. ASSUME NEW k \in Trigger, NEW c \in Container, RemovalStop(k, c) PROVE EndedCalls'
  BY <1>4, <1>2 DEF RemovalStop
<1> QED
  BY <1>1, <1>3, <1>4 DEF Next, vars, StartStep, CreateCounter, SetRunning, Deploy,
    DeployFails, Started, RollbackEnd, RemovalStep, Unsubscribe, UserStop

-----------------------------------------------------------------------------
\* Nothing but the handlers and the start task touches the counter, and a
\* callback that is sent or lost was not answered before either.
LEMMA CoversStay ==
  ASSUME TypeOK, CounterCovers, UNCHANGED redis,
         \A d \in Container :
           callback'[d] # callback[d] => callback[d] = "none" /\ callback'[d] \in {"sent", "lost"}
  PROVE  CounterCovers'
<1>1. Unanswered' = Unanswered
  BY DEF Unanswered
<1> QED
  BY <1>1 DEF CounterCovers, redis, Absent

\* A handler that answers takes its own callback off.
LEMMA AnswerEffect ==
  ASSUME TypeOK, NEW c \in Container, callback[c] \in {"sent", "read"},
         NEW r \in {"last", "done"}, Answer(c, r)
  PROVE  /\ Unanswered' = Unanswered \ {c}
         /\ c \in Unanswered
         /\ Count(Unanswered) \in Nat
         /\ Count(Unanswered') = Count(Unanswered) - 1
<1>1. Unanswered' = Unanswered \ {c} /\ c \in Unanswered
  BY DEF Unanswered, Answer, TypeOK
<1>2. IsFiniteSet(Unanswered)
  BY CountSubset DEF Unanswered
<1> QED
  BY <1>1, <1>2, FS_RemoveElement, FS_CardinalityType DEF Count

LEMMA CounterCoversStep ==
  ASSUME OneExecution, TypeOK, EndedCalls, CounterCovers, [Next]_vars
  PROVE  CounterCovers'
<1>0. Unanswered \in SUBSET Container /\ Unanswered' \in SUBSET Container
  BY DEF Unanswered
<1>1. CASE UNCHANGED redis /\ callback' = callback
  <2>1. Unanswered' = Unanswered
    BY <1>1 DEF Unanswered
  <2> QED
    BY <1>1, <2>1 DEF CounterCovers, redis
<1>2. ASSUME NEW s \in Start, CreateCounter(s) PROVE CounterCovers'
  <2>1. ContainersOf(s) = Container
    BY DEF OneExecution, ContainersOf
  <2>2. Unanswered' = Unanswered
    BY <1>2 DEF CreateCounter, hosts, Unanswered
  <2>3. counter' >= Count(Unanswered')
    BY <1>0, <1>2, <2>1, CountSubset DEF CreateCounter
  <2> QED
    BY <1>2, <2>2, <2>3 DEF CreateCounter, CounterCovers, hosts
<1>3. ASSUME NEW c \in Container, StopContainer(c), UNCHANGED redis PROVE CounterCovers'
  <2>1. \A d \in Container :
       callback'[d] # callback[d] => callback[d] = "none" /\ callback'[d] \in {"sent", "lost"}
    BY <1>3, StopEffect DEF EndedCalls
  <2> QED
    BY <1>3, <2>1, CoversStay
<1>4. ASSUME NEW c \in Container, ContainerStep(c) PROVE CounterCovers'
  <2>1. CASE StartInside(c) \/ StartInsideFails(c)
    BY <2>1, <1>1 DEF StartInside, StartInsideFails
  <2>2. CASE Exit(c)
    <3>1. \A d \in Container :
         callback'[d] # callback[d] => callback[d] = "none" /\ callback'[d] \in {"sent", "lost"}
      BY <2>2 DEF Exit, EndedCalls, TypeOK
    <3>2. UNCHANGED redis
      BY <2>2 DEF Exit
    <3> QED
      BY <3>1, <3>2, CoversStay
  <2>3. CASE RollbackStop(c)
    BY <2>3, <1>3 DEF RollbackStop
  <2>4. CASE ReadCounter(c)
    <3>1. CASE counter = Absent
      <4>1. Answer(c, "done") /\ counter' = counter
        BY <2>4, <3>1 DEF ReadCounter
      <4>2. Count(Unanswered') = Count(Unanswered) - 1 /\ Count(Unanswered) \in Nat
            /\ Unanswered' = Unanswered \ {c}
        BY <2>4, <4>1, AnswerEffect DEF ReadCounter
      <4>3. ASSUME NEW d \in Container, callback'[d] = "read"
            PROVE  seen'[d] >= Count(Unanswered')
        <5>1. d # c /\ callback[d] = "read" /\ seen'[d] = seen[d]
          BY <2>4, <4>1, <4>3 DEF ReadCounter, Answer, TypeOK
        <5> QED
          BY <4>2, <5>1 DEF CounterCovers, TypeOK
      <4>4. ASSUME NEW d \in Container, callback'[d] = "last"
            PROVE  Unanswered' = {}
        <5>1. callback[d] = "last"
          BY <4>1, <4>4 DEF Answer, TypeOK
        <5> QED
          BY <4>2, <5>1 DEF CounterCovers
      <4> QED
        BY <3>1, <4>1, <4>3, <4>4 DEF CounterCovers
    <3>2. CASE counter # Absent
      <4>1. Answer(c, "read") /\ counter' = counter /\ seen' = [seen EXCEPT ![c] = counter]
        BY <2>4, <3>2 DEF ReadCounter
      <4>2. Unanswered' = Unanswered
        BY <2>4, <4>1 DEF ReadCounter, Unanswered, Answer, TypeOK
      <4> QED
        BY <3>2, <4>1, <4>2 DEF CounterCovers, Answer, TypeOK
    <3> QED
      BY <3>1, <3>2
  <2>5. CASE Decrement(c)
    <3>1. /\ Answer(c, "done") /\ callback[c] = "read" /\ counter' = seen[c] - 1
          /\ seen' = seen /\ seen[c] >= Count(Unanswered) /\ seen[c] \in Nat
      BY <2>5 DEF Decrement, CounterCovers, TypeOK
    <3>2. Count(Unanswered') = Count(Unanswered) - 1 /\ Count(Unanswered) \in Nat
          /\ Unanswered' = Unanswered \ {c}
      BY <3>1, AnswerEffect
    <3>3. \A d \in Container : d # c => callback'[d] = callback[d]
      BY <3>1 DEF Answer, TypeOK
    <3>4. callback'[c] = "done"
      BY <3>1 DEF Answer, TypeOK
    <3>5. counter' >= Count(Unanswered')
      BY <3>1, <3>2
    <3>6. \A d \in Container : callback'[d] = "read" => seen'[d] >= Count(Unanswered')
      BY <3>1, <3>2, <3>3, <3>4 DEF CounterCovers, TypeOK
    <3> QED
      BY <3>2, <3>3, <3>4, <3>5, <3>6 DEF CounterCovers
  <2>6. CASE RemoveCounter(c)
    <3>1. /\ Answer(c, "last") /\ callback[c] = "read" /\ counter' = Absent
          /\ seen[c] <= 1 /\ seen[c] >= Count(Unanswered) /\ seen[c] \in Nat
      BY <2>6 DEF RemoveCounter, CounterCovers, TypeOK
    <3>2. Count(Unanswered') = Count(Unanswered) - 1 /\ Count(Unanswered) \in Nat
          /\ Unanswered' = Unanswered \ {c}
      BY <3>1, AnswerEffect
    <3>3. Unanswered' = {}
      <4>1. IsFiniteSet(Unanswered') /\ Count(Unanswered') \in Nat
        BY <1>0, CountSubset
      <4>2. Cardinality(Unanswered') = 0
        BY <3>1, <3>2, <4>1 DEF Count
      <4> QED
        BY <4>1, <4>2, FS_EmptySet
    <3>4. \A d \in Container : callback'[d] # "read"
      BY <3>3 DEF Unanswered
    <3> QED
      BY <3>1, <3>3, <3>4 DEF CounterCovers
  <2>7. CASE StopApp(c)
    <3>1. Unanswered' = Unanswered
      BY <2>7 DEF StopApp, Answer, Unanswered, TypeOK
    <3> QED
      BY <2>7, <3>1 DEF StopApp, Answer, CounterCovers, redis, TypeOK
  <2> QED
    BY <1>4, <2>1, <2>2, <2>3, <2>4, <2>5, <2>6, <2>7 DEF ContainerStep
<1>5. ASSUME NEW k \in Trigger, NEW c \in Container, RemovalStop(k, c)
      PROVE  CounterCovers'
  BY <1>5, <1>3 DEF RemovalStop
<1> QED
  BY <1>1, <1>2, <1>4, <1>5 DEF Next, vars, hosts, StartStep, SetRunning, Deploy,
    DeployFails, Started, RollbackEnd, RemovalStep, Unsubscribe, UserStop

-----------------------------------------------------------------------------
LEMMA InitType == Init => TypeOK
<1>1. Count(Container) \in Nat
  BY CountSubset
<1> QED
  BY <1>1 DEF Init, TypeOK, Absent

\* The variables keep their ranges, however many start tasks share the counter.
THEOREM TypeCorrect == Spec => []TypeOK
BY InitType, TypeStep, PTL DEF Spec

LEMMA Inductive == OneExecution => (Spec => []IInv)
<1> SUFFICES ASSUME OneExecution PROVE Spec => []IInv
  OBVIOUS
<1>1. Init => IInv
  BY InitType DEF Init, IInv, EndedCalls, CounterCovers
<1>2. IInv /\ [Next]_vars => IInv'
  BY TypeStep, EndedCallsStep, CounterCoversStep DEF IInv
<1> QED
  BY <1>1, <1>2, PTL DEF Spec

\* "Only stop app if this is the last container": true of an application that is
\* started once, whatever the threads of the server do.
THEOREM OnlyTheLastStops == OneExecution => (Spec => []OnlyLastStops)
<1> SUFFICES ASSUME OneExecution PROVE Spec => []OnlyLastStops
  OBVIOUS
<1>1. IInv => OnlyLastStops
  <2> SUFFICES ASSUME IInv, NEW c \in Container, callback[c] = "last", NEW d \in Container
               PROVE  instance[d] = "ended"
    BY DEF OnlyLastStops
  <2>1. d \notin Unanswered
    BY DEF IInv, CounterCovers
  <2> QED
    BY <2>1 DEF IInv, Unanswered, EndedCalls
<1> QED
  BY <1>1, Inductive, PTL

-----------------------------------------------------------------------------
(* The callbacks implement AppCompletion. *)

unfinished == {c \in Container : instance[c] # "ended"}
completed  == \E c \in Container : callback[c] = "last" \/ removal[c] # "none"

\* A step that only ends the application inside container c is Finish(c).
LEMMA EndIsFinish ==
  ASSUME TypeOK, NEW c \in Container, instance[c] # "ended",
         instance' = [instance EXCEPT ![c] = "ended"], completed' = completed
  PROVE  Completion!Finish(c)
<1>1. c \in unfinished /\ unfinished' = unfinished \ {c}
  BY DEF unfinished, TypeOK
<1> QED
  BY <1>1 DEF Completion!Finish, unfinished, completed

LEMMA StepRefines ==
  ASSUME IInv, [Next]_vars
  PROVE  [Completion!Next]_(Completion!vars)
<1> USE DEF IInv
<1>a. ASSUME unfinished' = unfinished, completed' = completed
      PROVE  [Completion!Next]_(Completion!vars)
  BY <1>a DEF Completion!vars, unfinished, completed
<1>b. ASSUME NEW c \in Container, StopContainer(c),
             \A k \in Container : removal'[k] # "none" <=> removal[k] # "none"
      PROVE  [Completion!Next]_(Completion!vars)
  <2>1. completed' = completed
    <3>1. \A d \in Container : callback'[d] = "last" <=> callback[d] = "last"
      BY <1>b, StopEffect DEF EndedCalls
    <3> QED
      BY <1>b, <3>1 DEF completed
  <2>2. CASE instance' = instance
    <3>1. unfinished' = unfinished
      BY <2>2 DEF unfinished
    <3> QED
      BY <1>a, <2>1, <3>1
  <2>3. CASE instance' # instance
    BY <1>b, <2>1, <2>3, EndIsFinish DEF StopContainer, Completion!Next
  <2> QED
    BY <2>2, <2>3
<1>1. CASE UNCHANGED <<instance, callback, removal>>
  BY <1>1, <1>a DEF unfinished, completed
<1>2. ASSUME NEW c \in Container, ContainerStep(c)
      PROVE  [Completion!Next]_(Completion!vars)
  <2> USE DEF TypeOK
  <2>1. CASE StartInside(c) \/ StartInsideFails(c)
    <3>1. unfinished' = unfinished
      BY <2>1 DEF StartInside, StartInsideFails, unfinished
    <3>2. completed' = completed
      BY <2>1 DEF StartInside, StartInsideFails, completed, tasks
    <3> QED
      BY <1>a, <3>1, <3>2
  <2>2. CASE Exit(c)
    <3>1. completed' = completed
      <4>1. \A d \in Container : callback'[d] = "last" <=> callback[d] = "last"
        BY <2>2 DEF Exit, EndedCalls
      <4> QED
        BY <2>2, <4>1 DEF Exit, completed, tasks
    <3> QED
      BY <2>2, <3>1, EndIsFinish DEF Exit, Completion!Next
  <2>3. CASE RollbackStop(c)
    BY <2>3, <1>b DEF RollbackStop, tasks
  <2>4. CASE ReadCounter(c) \/ Decrement(c)
    <3>1. UNCHANGED <<instance, removal>>
      BY <2>4 DEF ReadCounter, Decrement, tasks
    <3>2. \A d \in Container : callback'[d] = "last" <=> callback[d] = "last"
      BY <2>4 DEF ReadCounter, Decrement, Answer
    <3> QED
      BY <1>a, <3>1, <3>2 DEF unfinished, completed
  <2>5. CASE RemoveCounter(c)
    <3>1. UNCHANGED <<instance, removal>> /\ callback'[c] = "last" /\ callback[c] = "read"
      BY <2>5 DEF RemoveCounter, Answer, tasks
    <3>2. Unanswered = {c}
      <4>1. c \in Unanswered /\ IsFiniteSet(Unanswered)
        BY <3>1, CountSubset DEF Unanswered
      <4>2. Count(Unanswered) <= 1
        <5>1. seen[c] >= Count(Unanswered) /\ seen[c] <= 1
          BY <2>5, <3>1 DEF RemoveCounter, CounterCovers
        <5>2. seen[c] \in Nat
          OBVIOUS
        <5>3. Count(Unanswered) \in Nat
          BY <4>1, FS_CardinalityType DEF Count
        <5> QED
          BY <5>1, <5>2, <5>3
      <4>3. Cardinality(Unanswered \ {c}) = Cardinality(Unanswered) - 1
        BY <4>1, FS_RemoveElement
      <4>4. Cardinality(Unanswered \ {c}) = 0
        <5>1. Cardinality(Unanswered \ {c}) \in Nat /\ Cardinality(Unanswered) \in Nat
          BY <4>1, FS_CardinalityType, FS_RemoveElement
        <5> QED
          BY <4>2, <4>3, <5>1 DEF Count
      <4> QED
        <5>1. IsFiniteSet(Unanswered \ {c})
          BY <4>1, FS_RemoveElement
        <5>2. Unanswered \ {c} = {}
          BY <4>4, <5>1, FS_EmptySet
        <5> QED
          BY <4>1, <5>2
    <3>3. unfinished = {} /\ unfinished' = unfinished /\ completed' = TRUE
      BY <3>1, <3>2 DEF Unanswered, EndedCalls, unfinished, completed
    <3>4. CASE completed
      BY <1>a, <3>3, <3>4 DEF completed
    <3>5. CASE ~completed
      BY <3>3, <3>5 DEF Completion!Next, Completion!Complete, unfinished, completed
    <3> QED
      BY <3>4, <3>5
  <2>6. CASE StopApp(c)
    <3>1. instance' = instance /\ completed /\ completed'
      BY <2>6 DEF StopApp, QueueRemoval, completed, Trigger
    <3> QED
      BY <1>a, <3>1 DEF unfinished, completed
  <2> QED
    BY <1>2, <2>1, <2>2, <2>3, <2>4, <2>5, <2>6 DEF ContainerStep
<1>3. ASSUME NEW k \in Trigger, RemovalStep(k)
      PROVE  [Completion!Next]_(Completion!vars)
  <2>1. CASE Unsubscribe(k)
    <3>1. UNCHANGED <<instance, callback>>
      BY <2>1 DEF Unsubscribe, hosts
    <3>2. \A d \in Container : removal'[d] # "none" <=> removal[d] # "none"
      BY <2>1 DEF Unsubscribe, TypeOK, Trigger
    <3> QED
      BY <1>a, <3>1, <3>2 DEF unfinished, completed
  <2>2. ASSUME NEW c \in Container, RemovalStop(k, c)
        PROVE  [Completion!Next]_(Completion!vars)
    BY <2>2, <1>b DEF RemovalStop
  <2> QED
    BY <1>3, <2>1, <2>2 DEF RemovalStep
<1>4. ASSUME NEW k \in Switch, UserStop(k)
      PROVE  [Completion!Next]_(Completion!vars)
  <2>1. \A d \in Container : removal'[d] = removal[d]
    BY <1>4 DEF UserStop, QueueRemoval, TypeOK, Trigger
  <2> QED
    BY <1>4, <1>a, <2>1 DEF UserStop, hosts, unfinished, completed
<1> QED
  BY <1>1, <1>2, <1>3, <1>4 DEF Next, vars, hosts, tasks, StartStep, CreateCounter,
    SetRunning, Deploy, DeployFails, Started, RollbackEnd

\* The callbacks of an application started once complete it at most once, and
\* only when nothing of it runs any more.
THEOREM CallbacksComplete == OneExecution => (Spec => Completes)
<1> SUFFICES ASSUME OneExecution PROVE Spec => Completes
  OBVIOUS
<1>1. Init => Completion!Init
  BY DEF Init, Completion!Init, Trigger
<1>2. IInv /\ [Next]_vars => [Completion!Next]_(Completion!vars)
  BY StepRefines
<1> QED
  BY <1>1, <1>2, Inductive, PTL DEF Spec, Completes, Completion!Spec

-----------------------------------------------------------------------------
(* One request at a time *)

\* A callback leaves the queue of the server only when it handles none.
Alone == \A c \in Container : (callback[c] = "sent" /\ callback'[c] # "sent") => InHandler = {}

LEMMA SentStays ==
  ASSUME TypeOK, EndedCalls, NEW c \in Container, StopContainer(c)
  PROVE  Alone
BY StopEffect DEF Alone, EndedCalls

LEMMA SameCount ==
  ASSUME NEW S
  PROVE  Serial!Count(S) = Count(S)
BY Zenon DEF Serial!Count, Count, Serial!Cardinality, Cardinality

\* The steps of the server that handles one request at a time are steps of any
\* server, and those that read the counter find nobody else reading it.
LEMMA SerialSteps ==
  ASSUME TypeOK, EndedCalls, Serial!Next
  PROVE  Next /\ Alone
<1> USE DEF Serial!redis, Serial!hosts, Serial!tasks, Serial!bounds, Serial!Goto, Serial!Answer,
            Serial!Absent, Serial!Count, Serial!ContainersOf, Serial!StopContainer,
            Serial!QueueRemoval, Serial!InHandler,
            redis, hosts, tasks, bounds, Goto, Answer, Absent, Count, ContainersOf,
            StopContainer, QueueRemoval, InHandler
<1>1. ASSUME NEW s \in Start, Serial!StartStep(s) PROVE StartStep(s) /\ Alone
  <2>1. CASE Serial!CreateCounter(s)
    <3>1. Serial!ContainersOf(s) = ContainersOf(s)
      OBVIOUS
    <3> HIDE DEF Serial!Count, Serial!ContainersOf, Count, ContainersOf
    <3>2. Serial!Count(ContainersOf(s)) = Count(ContainersOf(s))
      BY SameCount
    <3> QED
      BY <2>1, <3>1, <3>2 DEF Serial!CreateCounter, CreateCounter, StartStep, Alone
  <2>2. CASE Serial!SetRunning(s)
    BY <2>2 DEF Serial!SetRunning, SetRunning, StartStep, Alone
  <2>3. CASE Serial!Deploy(s)
    BY <2>3 DEF Serial!Deploy, Deploy, StartStep, Alone
  <2>4. CASE Serial!DeployFails(s)
    BY <2>4 DEF Serial!DeployFails, DeployFails, StartStep, Alone
  <2>5. CASE Serial!Started(s)
    BY <2>5 DEF Serial!Started, Started, StartStep, Alone
  <2>6. CASE Serial!RollbackEnd(s)
    BY <2>6 DEF Serial!RollbackEnd, RollbackEnd, StartStep, Alone
  <2> QED
    BY <1>1, <2>1, <2>2, <2>3, <2>4, <2>5, <2>6 DEF Serial!StartStep
<1>2. ASSUME NEW c \in Container, Serial!ContainerStep(c) PROVE ContainerStep(c) /\ Alone
  <2>1. CASE Serial!StartInside(c)
    BY <2>1 DEF Serial!StartInside, StartInside, ContainerStep, Alone
  <2>2. CASE Serial!StartInsideFails(c)
    BY <2>2 DEF Serial!StartInsideFails, StartInsideFails, ContainerStep, Alone
  <2>3. CASE Serial!Exit(c)
    <3>1. ~(lost < 0)
      BY DEF TypeOK
    <3>2. /\ instance[c] = "running"
          /\ instance' = [instance EXCEPT ![c] = "ended"]
          /\ callback' = [callback EXCEPT ![c] = "sent"] /\ UNCHANGED lost
          /\ UNCHANGED <<redis, state, subscribed, step, stop, tasks, errors>>
      BY <2>3, <3>1 DEF Serial!Exit
    <3>3. Exit(c)
      BY <3>2 DEF Exit
    <3>4. Alone
      BY <3>2 DEF Alone, EndedCalls, TypeOK
    <3> QED
      BY <3>3, <3>4 DEF ContainerStep
  <2>4. CASE Serial!RollbackStop(c)
    <3>1. RollbackStop(c)
      BY <2>4 DEF Serial!RollbackStop, RollbackStop
    <3>2. StopContainer(c)
      BY <3>1 DEF RollbackStop
    <3> QED
      BY <3>1, <3>2, SentStays DEF ContainerStep
  <2>5. CASE Serial!ReadCounter(c)
    <3>1. InHandler = {}
      <4>1. InHandler \in SUBSET Container
        OBVIOUS
      <4>2. IsFiniteSet(InHandler) /\ Cardinality(InHandler) \in Nat
        BY <4>1, CountSubset
      <4>3. Serial!InHandler = InHandler
        OBVIOUS
      <4>4. Cardinality(InHandler) < 1
        <5> HIDE DEF InHandler, Serial!InHandler, Count, Serial!Count
        <5>1. Serial!Count(InHandler) < 1
          BY <2>5, <4>3 DEF Serial!ReadCounter
        <5>2. Count(InHandler) < 1
          BY <5>1, SameCount
        <5> QED
          BY <5>2 DEF Count
      <4> QED
        <5> HIDE DEF InHandler
        <5>1. Cardinality(InHandler) = 0
          BY <4>2, <4>4
        <5> QED
          BY <4>2, <5>1, FS_EmptySet
    <3>2. ReadCounter(c)
      <4>1. Count(InHandler) < Handlers
        <5>1. Cardinality({}) = 0
          BY FS_EmptySet
        <5> HIDE DEF InHandler
        <5> QED
          BY <3>1, <5>1, BoundAssumption
      <4> HIDE DEF InHandler, Serial!InHandler, Count, Serial!Count
      <4> QED
        BY <2>5, <4>1 DEF Serial!ReadCounter, ReadCounter
    <3> QED
      BY <3>1, <3>2 DEF ContainerStep, Alone
  <2>6. CASE Serial!Decrement(c)
    BY <2>6 DEF Serial!Decrement, Decrement, ContainerStep, Alone, TypeOK
  <2>7. CASE Serial!RemoveCounter(c)
    BY <2>7 DEF Serial!RemoveCounter, RemoveCounter, ContainerStep, Alone, TypeOK
  <2>8. CASE Serial!StopApp(c)
    BY <2>8 DEF Serial!StopApp, StopApp, ContainerStep, Alone, TypeOK
  <2> QED
    BY <1>2, <2>1, <2>2, <2>3, <2>4, <2>5, <2>6, <2>7, <2>8 DEF Serial!ContainerStep
<1>3. ASSUME NEW k \in Trigger, Serial!RemovalStep(k) PROVE RemovalStep(k) /\ Alone
  <2>1. CASE Serial!Unsubscribe(k)
    BY <2>1 DEF Serial!Unsubscribe, Unsubscribe, RemovalStep, Alone
  <2>2. ASSUME NEW c \in Container, Serial!RemovalStop(k, c) PROVE RemovalStep(k) /\ Alone
    <3>1. RemovalStop(k, c)
      BY <2>2 DEF Serial!RemovalStop, RemovalStop
    <3>2. StopContainer(c)
      BY <3>1 DEF RemovalStop
    <3> QED
      BY <3>1, <3>2, SentStays DEF RemovalStep
  <2> QED
    BY <1>3, <2>1, <2>2 DEF Serial!RemovalStep
<1>4. ASSUME NEW k \in Switch, Serial!UserStop(k) PROVE UserStop(k) /\ Alone
  BY <1>4 DEF Serial!UserStop, UserStop, Alone
<1>5. Serial!Trigger = Trigger
  BY DEF Serial!Trigger, Trigger
<1> HIDE DEF Serial!redis, Serial!hosts, Serial!tasks, Serial!bounds, Serial!Goto, Serial!Answer,
            Serial!Absent, Serial!Count, Serial!ContainersOf, Serial!StopContainer,
            Serial!QueueRemoval, Serial!InHandler,
            redis, hosts, tasks, bounds, Goto, Answer, Absent, Count, ContainersOf,
            StopContainer, QueueRemoval, InHandler
<1> QED
  BY <1>1, <1>2, <1>3, <1>4, <1>5 DEF Serial!Next, Next

Queued == \A s \in Start : step[s] = "queued"

\* Somebody has found that the last container has called back.
Noticed == \E c \in Container : callback[c] = "last" \/ removal[c] # "none"

\* Until then the counter is the number of containers that are awaited, and so is
\* what the only handler has read.
CounterExact ==
  /\ \A c, d \in InHandler : c = d
  /\ Queued => \A c \in Container : instance[c] = "none"
  /\ ~Queued => \/ Noticed
                \/ /\ Unanswered # {} /\ counter = Count(Unanswered)
                   /\ \A c \in Container : callback[c] = "read" => seen[c] = counter

\* A step that changes neither the counter nor what is awaited.
LEMMA ExactStay ==
  ASSUME TypeOK, EndedCalls, CounterExact, ~Queued, ~Queued', UNCHANGED redis,
         \A c \in Container :
           callback'[c] # callback[c] => callback[c] = "none" /\ callback'[c] \in {"sent", "lost"},
         \A c \in Container : removal[c] # "none" => removal'[c] # "none"
  PROVE  CounterExact'
<1>1. Unanswered' = Unanswered /\ InHandler' = InHandler
  BY DEF Unanswered, InHandler
<1>2. Noticed => Noticed'
  BY DEF Noticed
<1>3. \A c \in Container : callback'[c] = "read" => callback[c] = "read"
  OBVIOUS
<1> QED
  BY <1>1, <1>2, <1>3 DEF CounterExact, redis

LEMMA ExactStep ==
  ASSUME OneExecution, TypeOK, EndedCalls, CounterExact, Next, Alone
  PROVE  CounterExact'
<1>0. PICK s \in Start : Start = {s}
  BY DEF OneExecution
<1>1. Queued <=> step[s] = "queued"
  BY <1>0 DEF Queued
<1>2. Queued' <=> step'[s] = "queued"
  BY <1>0 DEF Queued
<1>3. \A c \in Container : owner[c] = s
  BY <1>0
<1>4. ContainersOf(s) = Container /\ Container # {}
  BY <1>3 DEF ContainersOf
<1>5. CASE CreateCounter(s)
  <2>1. \A c \in Container : callback'[c] = "none"
    BY <1>1, <1>5 DEF CreateCounter, CounterExact, EndedCalls, hosts
  <2>2. Unanswered' = Container /\ InHandler' = {}
    BY <2>1 DEF Unanswered, InHandler
  <2>3. ~Queued' /\ counter' = Count(Container)
    BY <1>2, <1>4, <1>5 DEF CreateCounter, Goto, TypeOK
  <2> QED
    BY <2>1, <2>2, <2>3, <1>4 DEF CounterExact
<1>6. ASSUME ~CreateCounter(s) PROVE step'[s] = "queued" <=> step[s] = "queued"
  BY <1>0, <1>6 DEF Next, StartStep, ContainerStep, RemovalStep, SetRunning, Deploy, DeployFails,
     Started, RollbackEnd, StartInside, StartInsideFails, Exit, RollbackStop, ReadCounter,
     Decrement, RemoveCounter, StopApp, Unsubscribe, RemovalStop, UserStop, Goto, TypeOK
\* Before the counter nothing happens in the containers.
<1>7. CASE Queued /\ ~CreateCounter(s)
  <2>1. \A c \in Container : instance[c] = "none" /\ callback[c] = "none"
    BY <1>7 DEF CounterExact, EndedCalls
  <2>2. step[owner[s]] = step[owner[s]] /\ \A c \in Container : step[owner[c]] = "queued"
    BY <1>1, <1>3, <1>7
  <2>3. ASSUME NEW c \in Container, StopContainer(c) PROVE UNCHANGED <<instance, callback>>
    BY <2>1, <2>3 DEF StopContainer
  <2>4. ASSUME NEW c \in Container, ContainerStep(c) PROVE FALSE
    BY <2>1, <2>2, <2>4 DEF ContainerStep, StartInside, StartInsideFails, Exit, RollbackStop,
       ReadCounter, Decrement, RemoveCounter, StopApp
  <2>5. ASSUME NEW k \in Trigger, RemovalStep(k) PROVE UNCHANGED <<instance, callback>>
    BY <2>3, <2>5 DEF RemovalStep, Unsubscribe, RemovalStop, hosts
  <2>6. ASSUME NEW k \in Switch, UserStop(k) PROVE UNCHANGED <<instance, callback>>
    BY <2>6 DEF UserStop, hosts
  <2>7. ASSUME StartStep(s) PROVE FALSE
    BY <1>1, <1>7, <2>7 DEF StartStep, CreateCounter, SetRunning, Deploy, DeployFails, Started, RollbackEnd
  <2>8. UNCHANGED <<instance, callback>>
    BY <1>0, <2>4, <2>5, <2>6, <2>7 DEF Next
  <2> QED
    BY <1>1, <1>2, <1>6, <1>7, <2>1, <2>8 DEF CounterExact, InHandler
<1>8. CASE ~Queued
  <2>1. ~Queued' /\ ~CreateCounter(s)
    BY <1>1, <1>2, <1>6, <1>8 DEF CreateCounter
  <2>2. ASSUME UNCHANGED <<redis, callback>>,
               \A c \in Container : removal[c] # "none" => removal'[c] # "none"
        PROVE  CounterExact'
    BY <1>8, <2>1, <2>2, ExactStay
  <2>3. ASSUME NEW c \in Container, StopContainer(c), UNCHANGED <<redis, removal>>
        PROVE  CounterExact'
    <3>1. \A d \in Container :
         callback'[d] # callback[d] => callback[d] = "none" /\ callback'[d] \in {"sent", "lost"}
      BY <2>3, StopEffect DEF EndedCalls
    <3> QED
      BY <1>8, <2>1, <2>3, <3>1, ExactStay
  <2>4. ASSUME StartStep(s) PROVE CounterExact'
    BY <2>1, <2>2, <2>4 DEF StartStep, SetRunning, Deploy, DeployFails, Started, RollbackEnd,
       hosts, tasks
  <2>5. ASSUME NEW k \in Trigger, RemovalStep(k) PROVE CounterExact'
    <3>1. CASE Unsubscribe(k)
      <4>1. \A c \in Container : removal[c] # "none" => removal'[c] # "none"
        BY <3>1 DEF Unsubscribe, TypeOK, Trigger
      <4> QED
        BY <2>2, <3>1, <4>1 DEF Unsubscribe, hosts
    <3>2. ASSUME NEW c \in Container, RemovalStop(k, c) PROVE CounterExact'
      BY <2>3, <3>2 DEF RemovalStop
    <3> QED
      BY <2>5, <3>1, <3>2 DEF RemovalStep
  <2>6. ASSUME NEW k \in Switch, UserStop(k) PROVE CounterExact'
    <3>1. \A c \in Container : removal[c] # "none" => removal'[c] # "none"
      BY <2>6 DEF UserStop, QueueRemoval, TypeOK, Trigger
    <3> QED
      BY <2>2, <2>6, <3>1 DEF UserStop, hosts
  <2>7. ASSUME NEW c \in Container, ContainerStep(c) PROVE CounterExact'
    <3>1. CASE StartInside(c) \/ StartInsideFails(c)
      BY <2>2, <3>1 DEF StartInside, StartInsideFails, tasks
    <3>2. CASE Exit(c)
      <4>1. \A d \in Container :
           callback'[d] # callback[d] => callback[d] = "none" /\ callback'[d] \in {"sent", "lost"}
        BY <3>2 DEF Exit, EndedCalls, TypeOK
      <4> QED
        BY <1>8, <2>1, <3>2, <4>1, ExactStay DEF Exit, tasks
    <3>3. CASE RollbackStop(c)
      BY <2>3, <3>3 DEF RollbackStop, tasks
    <3>4. CASE ReadCounter(c)
      <4>1. /\ callback[c] = "sent" /\ callback'[c] \in {"done", "read"}
            /\ \A d \in Container : d # c => callback'[d] = callback[d]
            /\ counter' = counter /\ removal' = removal
            /\ seen' = [seen EXCEPT ![c] = counter]
            /\ callback'[c] = IF counter = Absent THEN "done" ELSE "read"
        BY <3>4 DEF ReadCounter, Answer, TypeOK, tasks
      <4>2. InHandler = {}
        BY <4>1 DEF Alone
      <4>3. InHandler' \subseteq {c}
        BY <4>1, <4>2 DEF InHandler
      <4>4. CASE Noticed
        BY <2>1, <4>1, <4>3, <4>4 DEF CounterExact, Noticed
      <4>5. CASE ~Noticed
        <5>1. Unanswered # {} /\ counter = Count(Unanswered)
          BY <1>8, <4>5 DEF CounterExact
        <5>2. counter # Absent
          <6>1. IsFiniteSet(Unanswered)
            BY CountSubset DEF Unanswered
          <6> QED
            BY <5>1, <6>1, FS_EmptySet DEF Absent, Count
        <5>3. Unanswered' = Unanswered
          BY <4>1, <5>2 DEF Unanswered
        <5>4. \A d \in Container : callback'[d] = "read" => seen'[d] = counter'
          BY <4>1, <4>2 DEF InHandler, TypeOK
        <5> QED
          BY <2>1, <4>1, <4>3, <5>1, <5>3, <5>4 DEF CounterExact
      <4> QED
        BY <4>4, <4>5
    <3>5. CASE Decrement(c) \/ RemoveCounter(c)
      <4>1. /\ callback[c] = "read" /\ c \in InHandler /\ removal' = removal /\ seen' = seen
            /\ \A d \in Container : d # c => callback'[d] = callback[d]
            /\ callback'[c] \in {"last", "done"}
        BY <3>5 DEF Decrement, RemoveCounter, Answer, TypeOK, tasks, InHandler
      <4>2. InHandler' \subseteq {c} /\ \A d \in Container : callback'[d] # "read"
        BY <4>1 DEF CounterExact, InHandler
      <4>3. CASE RemoveCounter(c)
        <5>1. Noticed'
          BY <4>3 DEF RemoveCounter, Answer, Noticed, TypeOK
        <5> QED
          BY <2>1, <4>2, <5>1 DEF CounterExact
      <4>4. CASE Decrement(c) /\ Noticed
        <5>1. Noticed'
          BY <4>1, <4>4 DEF Noticed
        <5> QED
          BY <2>1, <4>2, <5>1 DEF CounterExact
      <4>5. CASE Decrement(c) /\ ~Noticed
        <5>1. counter = Count(Unanswered) /\ seen[c] = counter /\ seen[c] > 1
          BY <1>8, <4>1, <4>5 DEF CounterExact, Decrement
        <5>2. counter' = seen[c] - 1 /\ Answer(c, "done")
          BY <4>5 DEF Decrement
        <5>3. /\ Unanswered' = Unanswered \ {c} /\ Count(Unanswered) \in Nat
              /\ Count(Unanswered') = Count(Unanswered) - 1
          BY <4>1, <5>2, AnswerEffect
        <5>4. counter' = Count(Unanswered')
          BY <5>1, <5>2, <5>3
        <5>5. Unanswered' # {}
          <6>1. Count(Unanswered') # 0
            BY <5>1, <5>3
          <6> QED
            BY <6>1, FS_EmptySet DEF Count
        <5> QED
          BY <2>1, <4>2, <5>4, <5>5 DEF CounterExact
      <4> QED
        BY <3>5, <4>3, <4>4, <4>5
    <3>6. CASE StopApp(c)
      <4>1. /\ callback[c] = "last" /\ callback'[c] = "done" /\ removal'[c] # "none"
            /\ \A d \in Container : d # c => callback'[d] = callback[d]
        BY <3>6 DEF StopApp, QueueRemoval, Answer, TypeOK, Trigger
      <4>2. Noticed' /\ InHandler' \subseteq InHandler
        BY <4>1 DEF Noticed, InHandler
      <4> QED
        BY <2>1, <4>2 DEF CounterExact
    <3> QED
      BY <2>7, <3>1, <3>2, <3>3, <3>4, <3>5, <3>6 DEF ContainerStep
  <2> QED
    BY <1>0, <2>4, <2>5, <2>6, <2>7 DEF Next
<1> QED
  BY <1>1, <1>5, <1>7, <1>8 DEF CreateCounter

EitherInv == IInv /\ (serial => CounterExact)

LEMMA EitherInductive == OneExecution => (EitherSpec => []EitherInv)
<1> SUFFICES ASSUME OneExecution PROVE EitherSpec => []EitherInv
  OBVIOUS
<1>1. EitherInit => EitherInv
  <2>1. Init => CounterExact
    <3> SUFFICES ASSUME Init PROVE CounterExact
      OBVIOUS
    <3>1. InHandler = {} /\ Queued /\ \A c \in Container : instance[c] = "none"
      BY DEF Init, InHandler, Queued
    <3> QED
      BY <3>1 DEF CounterExact
  <2> QED
    BY <2>1, InitType DEF EitherInit, EitherInv, IInv, Init, EndedCalls, CounterCovers
<1>2. EitherInv /\ [EitherNext]_<<vars, serial>> => EitherInv'
  <2> SUFFICES ASSUME EitherInv, [EitherNext]_<<vars, serial>> PROVE EitherInv'
    OBVIOUS
  <2>1. IInv /\ (serial => CounterExact)
    BY DEF EitherInv
  <2>2. \/ UNCHANGED <<vars, serial>>
        \/ ~serial /\ Next /\ serial' = serial
        \/ serial /\ serial' = serial /\ Next /\ Alone
    BY <2>1, SerialSteps DEF EitherNext, InOrder, IInv
  <2>3. [Next]_vars
    BY <2>2
  <2>4. IInv'
    BY <2>1, <2>3, TypeStep, EndedCallsStep, CounterCoversStep DEF IInv
  <2>5. serial' => CounterExact'
    <3>1. CASE UNCHANGED <<vars, serial>>
      BY <2>1, <3>1 DEF vars, redis, hosts, tasks, CounterExact, InHandler, Queued, Noticed, Unanswered
    <3>2. CASE serial /\ serial' = serial /\ Next /\ Alone
      BY <2>1, <3>2, ExactStep DEF IInv
    <3> QED
      BY <2>2, <3>1, <3>2
  <2> QED
    BY <2>4, <2>5 DEF EitherInv
<1> QED
  BY <1>1, <1>2, PTL DEF EitherSpec

\* api_stop_app: if requests were handled one at a time, the last container to call
\* back would always stop an application that was started once, for any number of
\* containers: the read and the write of the counter are all that is wrong.
THEOREM StoppedInOrder == OneExecution => (EitherSpec => []LastContainerStopsInOrder)
<1> SUFFICES ASSUME OneExecution PROVE EitherSpec => []LastContainerStopsInOrder
  OBVIOUS
<1>1. EitherInv => LastContainerStopsInOrder
  <2> SUFFICES ASSUME EitherInv, serial, \A c \in Container : callback[c] = "done"
               PROVE  \E c \in Container : removal[c] # "none"
    BY DEF LastContainerStopsInOrder, LastContainerStops
  <2>1. Unanswered = {}
    BY DEF Unanswered
  <2>2. Container # {}
    BY DEF OneExecution, ContainersOf
  <2>3. ~Queued
    BY <2>2 DEF EitherInv, CounterExact, IInv, EndedCalls
  <2> QED
    BY <2>1, <2>3 DEF EitherInv, CounterExact, Noticed
<1> QED
  BY <1>1, EitherInductive, PTL
=============================================================================
