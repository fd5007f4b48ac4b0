------------------------ MODULE ScalingServices_proofs ------------------------
(***************************************************************************)
(* Proofs about ScalingServices, for any number of tasks, services and     *)
(* script failures: what a service found switched off, and what a service  *)
(* found running inside a bracket, can come from.                          *)
(***************************************************************************)
EXTENDS ScalingServices, TLAPS

USE TaskAssumption, ServiceAssumption, FailureAssumption

(***************************************************************************)
(* Which scripts a task can have started, given where it is.               *)
(***************************************************************************)
Unstarted(t, ph) == \A s \in Service : process[t][ph][s] = "none"

\* The first n scripts of the list have ended well; those after the first n have
\* not been started.
Collected(t, ph, n) == \A i \in DOMAIN List(t) : i <= n => process[t][ph][List(t)[i]] = "ok"
Later(t, ph, n)     == \A i \in DOMAIN List(t) : i > n => process[t][ph][List(t)[i]] = "none"

Bookkeeping(t) ==
  /\ pc[t] = "idle" => Unstarted(t, "disable")
  /\ pc[t] \in {"idle", "disable", "inside"} => Unstarted(t, "enable")
  /\ pc[t] \in {"idle", "disable", "inside", "enable", "after"} => Unstarted(t, "rollback")
  /\ pc[t] \in Phase => Collected(t, pc[t], collected[t])
  /\ t \in ExtendLv /\ pc[t] \in Phase => Later(t, pc[t], collected[t] + 1)
  /\ pc[t] = "inside" => \A s \in Mine(t) : process[t]["disable"][s] = "ok"
  /\ \A ph \in Phase, s \in Service : process[t][ph][s] # "none" => s \in Mine(t)
  /\ \A s \in Service : process[t]["disable"][s] = "running" =>
       pc[t] = "disable" \/ ScriptError(t)

\* A service that t has put off, and that runs before t puts it on again, was put
\* on by somebody else.
Foreign(t, s) ==
  pc[t] \in {"disable", "inside"} /\ process[t]["disable"][s] = "ok" /\ active[s] =>
    \E u \in Task \ {t}, ph \in {"enable", "rollback"} : process[u][ph][s] = "ok"

IInv ==
  /\ TypeOK
  /\ \A t \in Task : Bookkeeping(t)
  /\ \A t \in Task, s \in Service : Foreign(t, s)
  /\ OffIsOwed

-----------------------------------------------------------------------------
\* Both lists name services, none of them twice.
LEMMA Lists ==
  ASSUME NEW t \in Task
  PROVE  /\ List(t) \in Seq(Service) /\ Len(List(t)) \in Nat \ {0}
         /\ DOMAIN List(t) = 1..Len(List(t))
         /\ \A i, j \in DOMAIN List(t) : List(t)[i] = List(t)[j] => i = j
         /\ \A i \in DOMAIN List(t) : List(t)[i] \in Service /\ List(t)[i] \in Mine(t)
         /\ Mine(t) \subseteq Service
<1>1. List(t) \in {LocalList, PlaybookList}
  BY DEF List
<1> QED
  BY <1>1 DEF Mine

\* Every step keeps the variables in their ranges.
LEMMA TypeStep == TypeOK /\ [Next]_vars => TypeOK'
<1> SUFFICES ASSUME TypeOK, [Next]_vars PROVE TypeOK'
  OBVIOUS
<1> USE DEF TypeOK, Phase, Location
<1>a. \A t \in Task : Len(List(t)) \in Nat
  BY Lists
<1>1. CASE UNCHANGED vars
  BY <1>1 DEF vars
<1>2. ASSUME NEW t \in Task, NEW ph \in Phase, NEW s \in Service, ScriptStep(t, ph, s)
      PROVE  TypeOK'
  <2>1. CASE ScriptSucceeds(t, ph, s)
    <3>1. active' \in [Service -> BOOLEAN]
      BY <2>1, Zenon DEF ScriptSucceeds
    <3>2. process' \in [Task -> [Phase -> [Service -> {"none", "running", "ok", "error"}]]]
      BY <2>1 DEF ScriptSucceeds
    <3> QED
      BY <2>1, <3>1, <3>2 DEF ScriptSucceeds
  <2>2. CASE ScriptFails(t, ph, s)
    BY <2>2 DEF ScriptFails
  <2> QED
    BY <1>2, <2>1, <2>2 DEF ScriptStep
<1>3. ASSUME NEW t \in Task, TaskStep(t)
      PROVE  TypeOK'
  <2>1. CASE Enter(t)          BY <1>a, <2>1 DEF Enter, Launch, Launched
  <2>2. CASE Collect(t)        BY <2>2 DEF Collect, Collecting
  <2>3. CASE CollectError(t)
    <3>1. CASE Launch(t, "rollback")
      BY <1>a, <2>3, <3>1 DEF CollectError, Launch, Launched
    <3>2. CASE pc' = [pc EXCEPT ![t] = "failed"] /\ UNCHANGED <<process, collected>>
      BY <2>3, <3>2 DEF CollectError
    <3> QED
      BY <2>3, <3>1, <3>2 DEF CollectError
  <2>4. CASE EnterBody(t)      BY <2>4 DEF EnterBody
  <2>5. CASE BodyReturns(t)    BY <1>a, <2>5 DEF BodyReturns, Launch, Launched
  <2>6. CASE BodyRaises(t)     BY <1>a, <2>6 DEF BodyRaises, Launch, Launched
  <2>7. CASE ExtendLvRaises(t) BY <2>7 DEF ExtendLvRaises
  <2>8. CASE LeaveBody(t)      BY <2>8 DEF LeaveBody
  <2>9. CASE LeaveRaising(t)
    <3>1. CASE Launch(t, "rollback")
      BY <1>a, <2>9, <3>1 DEF LeaveRaising, Launch, Launched
    <3>2. CASE pc' = [pc EXCEPT ![t] = "failed"] /\ UNCHANGED <<process, collected>>
      BY <2>9, <3>2 DEF LeaveRaising
    <3> QED
      BY <2>9, <3>1, <3>2 DEF LeaveRaising
  <2>10. CASE AfterReturns(t)  BY <2>10 DEF AfterReturns
  <2>11. CASE AfterRaises(t)   BY <1>a, <2>11 DEF AfterRaises, Launch, Launched
  <2>12. CASE RolledBack(t)    BY <2>12 DEF RolledBack
  <2>13. CASE BeforeRaises(t)  BY <1>a, <2>13 DEF BeforeRaises, Launch, Launched
  <2> QED
    BY <1>3, <2>1, <2>2, <2>3, <2>4, <2>5, <2>6, <2>7, <2>8, <2>9, <2>10, <2>11, <2>12, <2>13
    DEF TaskStep
<1> QED
  BY <1>1, <1>2, <1>3 DEF Next

-----------------------------------------------------------------------------
(* What the building blocks of the steps do to one task. *)

\* Starting the scripts of a phase concerns that phase of that task.
LEMMA LaunchEffect ==
  ASSUME TypeOK, NEW t \in Task, NEW ph \in Phase, Launch(t, ph)
  PROVE  /\ pc'[t] = ph
         /\ collected'[t] = 0
         /\ process'[t] = [process[t] EXCEPT ![ph] = Launched(t)]
         /\ process[t] \in [Phase -> [Service -> {"none", "running", "ok", "error"}]]
         /\ \A u \in Task \ {t} :
              pc'[u] = pc[u] /\ process'[u] = process[u] /\ collected'[u] = collected[u]
BY DEF TypeOK, Launch

\* So does moving on without starting anything.
LEMMA MoveEffect ==
  ASSUME TypeOK, NEW t \in Task, NEW l \in Location, pc' = [pc EXCEPT ![t] = l]
  PROVE  pc'[t] = l /\ \A u \in Task \ {t} : pc'[u] = pc[u]
BY DEF TypeOK

\* Collecting starts at most one script, which had not been started.
LEMMA CollectEffect ==
  ASSUME TypeOK, NEW t \in Task, Bookkeeping(t), Collect(t)
  PROVE  /\ pc' = pc /\ active' = active
         /\ pc[t] \in Phase
         /\ collected[t] \in Nat /\ collected[t] + 1 \in DOMAIN List(t)
         /\ collected'[t] = collected[t] + 1
         /\ process[t][pc[t]][List(t)[collected[t] + 1]] = "ok"
         /\ \A ph \in Phase, s \in Service :
              \/ process'[t][ph][s] = process[t][ph][s]
              \/ /\ process[t][ph][s] = "none" /\ process'[t][ph][s] = "running"
                 /\ IsNext(t, s) /\ ph = pc[t] /\ s \in Mine(t)
         /\ \A u \in Task \ {t} : process'[u] = process[u] /\ collected'[u] = collected[u]
<1>1. pc[t] \in Phase /\ collected[t] \in Nat /\ collected[t] < Len(List(t))
  BY DEF Collect, Collecting, TypeOK
<1>a. collected[t] + 1 \in DOMAIN List(t)
  BY <1>1, Lists
<1>2. process' = [process EXCEPT ![t][pc[t]] =
        [s \in Service |-> IF IsNext(t, s) THEN "running" ELSE @[s]]]
  BY DEF Collect
<1>3. \A ph \in Phase, s \in Service : process'[t][ph][s] =
        IF ph = pc[t] /\ IsNext(t, s) THEN "running" ELSE process[t][ph][s]
  BY <1>1, <1>2 DEF TypeOK
<1>4. ASSUME NEW s \in Service, IsNext(t, s)
      PROVE  process[t][pc[t]][s] = "none" /\ s \in Mine(t)
  <2>1. Later(t, pc[t], collected[t] + 1) /\ collected[t] + 2 > collected[t] + 1
    BY <1>1, <1>4 DEF Bookkeeping, IsNext
  <2> QED
    BY <1>1, <1>4, <2>1, Lists DEF Later, IsNext
<1>5. \A ph \in Phase, s \in Service :
        \/ process'[t][ph][s] = process[t][ph][s]
        \/ /\ process[t][ph][s] = "none" /\ process'[t][ph][s] = "running"
           /\ IsNext(t, s) /\ ph = pc[t] /\ s \in Mine(t)
  BY <1>3, <1>4
<1>6. \A u \in Task \ {t} : process'[u] = process[u] /\ collected'[u] = collected[u]
  BY <1>2 DEF Collect, TypeOK
<1>7. collected'[t] = collected[t] + 1 /\ process[t][pc[t]][List(t)[collected[t] + 1]] = "ok"
  BY DEF Collect, Awaited, TypeOK
<1> QED
  BY <1>1, <1>a, <1>5, <1>6, <1>7 DEF Collect

\* A phase whose scripts have all been collected has no script left.
LEMMA CollectedAll ==
  ASSUME TypeOK, NEW t \in Task, Bookkeeping(t), NEW ph \in Phase, AllCollected(t, ph)
  PROVE  \A s \in Mine(t) : process[t][ph][s] = "ok"
<1>1. Collected(t, ph, Len(List(t))) /\ \A i \in DOMAIN List(t) : i <= Len(List(t))
  BY Lists DEF AllCollected, Bookkeeping
<1> QED
  BY <1>1 DEF Collected, Mine

\* The script waited for is on the list of the task.
LEMMA AwaitedService ==
  ASSUME TypeOK, NEW t \in Task, Collecting(t)
  PROVE  pc[t] \in Phase /\ Awaited(t) \in Service
<1>1. pc[t] \in Phase /\ collected[t] + 1 \in DOMAIN List(t)
  BY Lists DEF Collecting, TypeOK
<1> QED
  BY <1>1, Lists DEF Awaited

LEMMA Untouched ==
  ASSUME NEW u \in Task, Bookkeeping(u), pc'[u] = pc[u],
         process'[u] = process[u], collected'[u] = collected[u]
  PROVE  Bookkeeping(u)'
BY DEF Bookkeeping, Unstarted, ScriptError, Collected, Later

-----------------------------------------------------------------------------
\* Scripts are started by the phase a task is in, each phase once.
LEMMA BookkeepingStep ==
  ASSUME TypeOK, \A t \in Task : Bookkeeping(t), [Next]_vars, NEW u \in Task
  PROVE  Bookkeeping(u)'
<1>1. CASE UNCHANGED vars
  BY <1>1, Untouched DEF vars
<1>2. ASSUME NEW t \in Task, NEW ph \in Phase, NEW s \in Service, ScriptStep(t, ph, s)
      PROVE  Bookkeeping(u)'
  <2>1. PICK r \in {"ok", "error"} : process' = [process EXCEPT ![t][ph][s] = r]
    BY <1>2 DEF ScriptStep, ScriptSucceeds, ScriptFails
  <2>2. UNCHANGED <<pc, collected>> /\ process[t][ph][s] = "running"
    BY <1>2 DEF ScriptStep, ScriptSucceeds, ScriptFails
  <2>3. CASE u # t
    BY <2>1, <2>2, <2>3, Untouched DEF TypeOK
  <2>4. CASE u = t
    <3>1. process[t] \in [Phase -> [Service -> {"none", "running", "ok", "error"}]]
      BY DEF TypeOK
    <3>2. process'[t] = [process[t] EXCEPT ![ph][s] = r]
      BY <2>1 DEF TypeOK
    <3> QED
      BY <2>2, <2>4, <3>1, <3>2, Lists
      DEF Bookkeeping, Unstarted, ScriptError, Phase, Collected, Later
  <2> QED
    BY <2>3, <2>4
<1>3. ASSUME NEW t \in Task, TaskStep(t)
      PROVE  Bookkeeping(u)'
  <2> USE DEF Phase, Location
  <2>0. CASE u # t
    <3>1. pc'[u] = pc[u] /\ process'[u] = process[u] /\ collected'[u] = collected[u]
      BY <1>3, <2>0 DEF TaskStep, Enter, BeforeRaises, Collect, CollectError, Collecting,
        EnterBody, BodyReturns,
        BodyRaises, ExtendLvRaises, LeaveBody, LeaveRaising, AfterReturns, AfterRaises,
        RolledBack, Launch, TypeOK
    <3> QED
      BY <3>1, Untouched
  <2> SUFFICES ASSUME u = t PROVE Bookkeeping(t)'
    BY <2>0
  <2>a. /\ Bookkeeping(t)
        /\ process[t] \in [Phase -> [Service -> {"none", "running", "ok", "error"}]]
        /\ collected[t] \in Nat
    BY DEF TypeOK
  <2>b. ASSUME NEW ph \in Phase, Launch(t, ph), pc[t] # ph,
               ph = "disable"  => pc[t] = "idle",
               ph = "enable"   => pc[t] = "inside",
               ph = "rollback" => pc[t] \in {"idle", "disable", "enable", "after"},
               pc[t] = "disable" => ScriptError(t)
        PROVE  Bookkeeping(t)'
    <3>1. Unstarted(t, ph)
      BY <2>a, <2>b DEF Bookkeeping
    <3>2. /\ pc'[t] = ph /\ collected'[t] = 0
          /\ process'[t] = [process[t] EXCEPT ![ph] = Launched(t)]
      BY <2>b, LaunchEffect
    <3>3. ScriptError(t) => ScriptError(t)'
      BY <2>a, <3>1, <3>2 DEF ScriptError, Unstarted
    <3>6. process'[t][ph] = Launched(t) /\ \A p \in Phase \ {ph} : process'[t][p] = process[t][p]
      BY <2>a, <3>2
    <3>4. Collected(t, ph, 0)'
      BY Lists DEF Collected
    <3>5. t \in ExtendLv => Later(t, ph, 0 + 1)'
      <4> SUFFICES ASSUME t \in ExtendLv, NEW i \in DOMAIN List(t), i > 0 + 1
                   PROVE  Launched(t)[List(t)[i]] = "none"
        BY <3>6 DEF Later
      <4>1. List(t)[i] # List(t)[1] /\ List(t)[i] \in Service
        BY Lists
      <4> QED
        BY <4>1 DEF Launched
    <3>7. \A p \in Phase, s \in Service : process'[t][p][s] # "none" => s \in Mine(t)
      <4>1. \A s \in Service : Launched(t)[s] # "none" => s \in Mine(t)
        BY DEF Launched
      <4>2. \A p \in Phase, s \in Service : process[t][p][s] # "none" => s \in Mine(t)
        BY <2>a DEF Bookkeeping
      <4> QED
        BY <3>6, <4>1, <4>2
    <3>8. ph # "disable" => \A s \in Service : process'[t]["disable"][s] = process[t]["disable"][s]
      BY <3>6
    <3>9. /\ pc'[t] \in Phase => Collected(t, pc[t], collected[t])'
          /\ t \in ExtendLv /\ pc'[t] \in Phase => Later(t, pc[t], collected[t] + 1)'
      BY <3>2, <3>4, <3>5 DEF Collected, Later
    <3> QED
      BY <2>a, <2>b, <3>1, <3>2, <3>3, <3>6, <3>7, <3>8, <3>9 DEF Bookkeeping, Unstarted
  <2>c. ASSUME NEW l \in Location \ Phase, pc' = [pc EXCEPT ![t] = l],
               UNCHANGED <<process, collected>>,
               l # "idle", l = "inside" => AllCollected(t, "disable"),
               l = "after" => pc[t] = "enable",
               pc[t] = "disable" => ScriptError(t) \/ AllCollected(t, "disable")
        PROVE  Bookkeeping(t)'
    <3>1. pc'[t] = l
      BY <2>c, MoveEffect
    <3>2. pc[t] = "disable" /\ AllCollected(t, "disable") =>
            \A s \in Mine(t) : process[t]["disable"][s] = "ok"
      BY CollectedAll
    <3>3. l = "inside" => pc[t] = "disable"
      BY <2>c DEF AllCollected
    <3> QED
      BY <2>a, <2>c, <3>1, <3>2, <3>3 DEF Bookkeeping, Unstarted, ScriptError
  <2>1. CASE Enter(t)
    BY <2>1, <2>b DEF Enter
  <2>2. CASE Collect(t)
    <3>1. /\ pc'[t] = pc[t] /\ collected'[t] = collected[t] + 1 /\ pc[t] \in Phase
          /\ collected[t] + 1 \in DOMAIN List(t)
          /\ process[t][pc[t]][List(t)[collected[t] + 1]] = "ok"
          /\ \A ph \in Phase, s \in Service :
               \/ process'[t][ph][s] = process[t][ph][s]
               \/ /\ process[t][ph][s] = "none" /\ process'[t][ph][s] = "running"
                  /\ IsNext(t, s) /\ ph = pc[t] /\ s \in Mine(t)
      BY <2>2, CollectEffect
    <3>2. ScriptError(t) => ScriptError(t)'
      BY <3>1 DEF ScriptError
    <3>3. ASSUME NEW i \in DOMAIN List(t), i <= collected[t] + 1
          PROVE  process'[t][pc[t]][List(t)[i]] = "ok"
      <4>1. process[t][pc[t]][List(t)[i]] = "ok"
        <5>1. CASE i <= collected[t]
          BY <2>a, <3>1, <5>1 DEF Bookkeeping, Collected
        <5>2. CASE i = collected[t] + 1
          BY <3>1, <5>2
        <5> QED
          BY <2>a, <3>3, <5>1, <5>2, Lists
      <4> QED
        BY <3>1, <4>1, Lists
    <3>4. ASSUME t \in ExtendLv, NEW i \in DOMAIN List(t), i > collected[t] + 1 + 1
          PROVE  process'[t][pc[t]][List(t)[i]] = "none"
      <4>1. i > collected[t] + 1 /\ i # collected[t] + 2
        BY <2>a, <3>4, Lists
      <4>2. process[t][pc[t]][List(t)[i]] = "none"
        BY <2>a, <3>1, <3>4, <4>1 DEF Bookkeeping, Later
      <4>3. ~IsNext(t, List(t)[i])
        BY <4>1, Lists DEF IsNext
      <4> QED
        BY <3>1, <4>2, <4>3, Lists
    <3>5. \A ph \in Phase : ph # pc[t] => \A s \in Service : process'[t][ph][s] = process[t][ph][s]
      BY <3>1
    <3>6. \A ph \in Phase, s \in Service : process'[t][ph][s] # "none" => s \in Mine(t)
      BY <2>a, <3>1 DEF Bookkeeping
    <3>7. /\ Collected(t, pc[t], collected[t])'
          /\ t \in ExtendLv => Later(t, pc[t], collected[t] + 1)'
      BY <3>1, <3>3, <3>4 DEF Collected, Later
    <3>8. \A s \in Service : process'[t]["disable"][s] = "running" =>
            pc[t] = "disable" \/ process[t]["disable"][s] = "running"
      BY <3>1
    <3> QED
      BY <2>a, <3>1, <3>2, <3>5, <3>6, <3>7, <3>8 DEF Bookkeeping, Unstarted
  <2>3. CASE CollectError(t)
    <3>1. ScriptError(t)
      BY <2>3, AwaitedService DEF CollectError, ScriptError
    <3>2. pc[t] \in Phase
      BY <2>3 DEF CollectError, Collecting
    <3>3. CASE pc[t] # "rollback" /\ Launch(t, "rollback")
      BY <2>a, <2>b, <3>1, <3>2, <3>3 DEF Bookkeeping
    <3>4. CASE pc' = [pc EXCEPT ![t] = "failed"] /\ UNCHANGED <<process, collected>>
      BY <2>c, <3>1, <3>4
    <3> QED
      BY <2>3, <3>3, <3>4 DEF CollectError
  <2>4. CASE EnterBody(t)
    BY <2>4, <2>c DEF EnterBody
  <2>5. CASE BodyReturns(t) \/ BodyRaises(t)
    BY <2>5, <2>b DEF BodyReturns, BodyRaises
  <2>6. CASE ExtendLvRaises(t)
    BY <2>6, <2>c DEF ExtendLvRaises
  <2>7. CASE LeaveBody(t)
    <3>1. CASE t \in StartApp
      BY <2>7, <2>c, <3>1 DEF LeaveBody, AllCollected
    <3>2. CASE t \notin StartApp
      BY <2>7, <2>c, <3>2 DEF LeaveBody, AllCollected
    <3> QED
      BY <3>1, <3>2
  <2>8. CASE LeaveRaising(t)
    <3>1. CASE Launch(t, "rollback")
      BY <2>8, <2>b, <3>1 DEF LeaveRaising, AllCollected
    <3>2. CASE pc' = [pc EXCEPT ![t] = "failed"] /\ UNCHANGED <<process, collected>>
      BY <2>8, <2>c, <3>2 DEF LeaveRaising, AllCollected
    <3> QED
      BY <2>8, <3>1, <3>2 DEF LeaveRaising
  <2>9. CASE AfterReturns(t)
    BY <2>9, <2>c DEF AfterReturns
  <2>10. CASE AfterRaises(t)
    BY <2>10, <2>b DEF AfterRaises
  <2>12. CASE BeforeRaises(t)
    BY <2>12, <2>b DEF BeforeRaises
  <2>11. CASE RolledBack(t)
    BY <2>11, <2>c DEF RolledBack, AllCollected
  <2> QED
    BY <1>3, <2>1, <2>2, <2>3, <2>4, <2>5, <2>6, <2>7, <2>8, <2>9, <2>10, <2>11, <2>12
    DEF TaskStep
<1> QED
  BY <1>1, <1>2, <1>3 DEF Next

-----------------------------------------------------------------------------
\* A script that has ended is never forgotten: a phase is launched only once.
LEMMA ScriptsStay ==
  ASSUME TypeOK, NEW w \in Task, Bookkeeping(w), [Next]_vars,
         NEW ph \in Phase, NEW s \in Service, process[w][ph][s] \in {"ok", "error"}
  PROVE  process'[w][ph][s] = process[w][ph][s]
<1>1. CASE UNCHANGED vars
  BY <1>1 DEF vars
<1>2. ASSUME NEW t \in Task, NEW p \in Phase, NEW z \in Service, ScriptStep(t, p, z)
      PROVE  process'[w][ph][s] = process[w][ph][s]
  <2>1. PICK r \in {"ok", "error"} : process' = [process EXCEPT ![t][p][z] = r]
    BY <1>2 DEF ScriptStep, ScriptSucceeds, ScriptFails
  <2>2. process[t][p][z] = "running"
    BY <1>2 DEF ScriptStep, ScriptSucceeds, ScriptFails
  <2> QED
    BY <2>1, <2>2 DEF TypeOK
<1>3. ASSUME NEW t \in Task, TaskStep(t)
      PROVE  process'[w][ph][s] = process[w][ph][s]
  <2>1. \/ UNCHANGED process
        \/ Collect(t)
        \/ \E p \in Phase : /\ Launch(t, p)
                            /\ p = "disable"  => pc[t] = "idle"
                            /\ p = "enable"   => pc[t] = "inside"
                            /\ p = "rollback" => pc[t] \in {"idle", "disable", "enable", "after"}
    BY <1>3 DEF TaskStep, Enter, BeforeRaises, CollectError, Collecting, EnterBody, BodyReturns,
      BodyRaises, ExtendLvRaises, LeaveBody, LeaveRaising, AfterReturns, AfterRaises,
      RolledBack, AllCollected, Phase
  <2>2. CASE UNCHANGED process
    BY <2>2
  <2>4. CASE Collect(t)
    <3>1. CASE w = t
      BY <2>4, <3>1, CollectEffect
    <3>2. CASE w # t
      BY <2>4, <3>2 DEF Collect, TypeOK
    <3> QED
      BY <3>1, <3>2
  <2>3. ASSUME NEW p \in Phase, Launch(t, p), p = "disable"  => pc[t] = "idle",
               p = "enable" => pc[t] = "inside",
               p = "rollback" => pc[t] \in {"idle", "disable", "enable", "after"}
        PROVE  process'[w][ph][s] = process[w][ph][s]
    <3>1. CASE w # t
      <4>1. process'[w] = process[w]
        BY <2>3, <3>1, LaunchEffect, ZenonT(30)
      <4> QED
        BY <4>1
    <3>2. CASE w = t
      <4>1. Unstarted(w, p)
        BY <2>3, <3>2 DEF Bookkeeping, Phase
      <4> QED
        <5>1. ph # p
          BY <4>1 DEF Unstarted
        <5>2. process'[w] = [process[w] EXCEPT ![p] = Launched(w)]
          BY <2>3, <3>2, LaunchEffect
        <5> QED
          BY <5>1, <5>2 DEF TypeOK
    <3> QED
      BY <3>1, <3>2
  <2> QED
    BY <2>1, <2>2, <2>3, <2>4
<1> QED
  BY <1>1, <1>2, <1>3 DEF Next

-----------------------------------------------------------------------------
\* The steps that can switch a service on are scripts of other tasks.
LEMMA ForeignStep ==
  ASSUME TypeOK, \A t \in Task : Bookkeeping(t), [Next]_vars,
         NEW u \in Task, NEW z \in Service, Foreign(u, z)
  PROVE  Foreign(u, z)'
<1> SUFFICES ASSUME pc'[u] \in {"disable", "inside"},
                    process'[u]["disable"][z] = "ok", active'[z]
             PROVE  \E w \in Task \ {u}, ph \in {"enable", "rollback"} :
                       process'[w][ph][z] = "ok"
  BY DEF Foreign
<1>0. ASSUME pc[u] \in {"disable", "inside"}, process[u]["disable"][z] = "ok", active[z]
      PROVE  \E w \in Task \ {u}, ph \in {"enable", "rollback"} : process'[w][ph][z] = "ok"
  <2>1. PICK w \in Task \ {u}, ph \in {"enable", "rollback"} : process[w][ph][z] = "ok"
    BY <1>0 DEF Foreign
  <2> QED
    BY <2>1, ScriptsStay DEF Phase
<1>1. CASE UNCHANGED vars
  BY <1>0, <1>1 DEF vars
<1>2. ASSUME NEW t \in Task, NEW ph \in Phase, NEW s \in Service, ScriptSucceeds(t, ph, s)
      PROVE  \E w \in Task \ {u}, p \in {"enable", "rollback"} : process'[w][p][z] = "ok"
  <2>1. /\ pc'[u] = pc[u] /\ process[t][ph][s] = "running"
        /\ process' = [process EXCEPT ![t][ph][s] = "ok"]
        /\ active' = [active EXCEPT ![s] = (ph # "disable")]
    BY <1>2 DEF ScriptSucceeds
  <2>2. CASE s # z
    <3>1. active[z] /\ process[u]["disable"][z] = "ok"
      BY <2>1, <2>2 DEF TypeOK
    <3> QED
      BY <1>0, <2>1, <3>1
  <2>3. CASE s = z
    <3>1. ph \in {"enable", "rollback"}
      <4>1. active'[z] = (ph # "disable")
        BY <2>1, <2>3, Zenon DEF TypeOK
      <4> QED
        BY <4>1 DEF Phase
    <3>2. t # u
      BY <2>1, <3>1 DEF Bookkeeping, Unstarted
    <3>3. process'[t][ph][z] = "ok"
      BY <2>1, <2>3 DEF TypeOK
    <3> QED
      BY <3>1, <3>2, <3>3
  <2> QED
    BY <2>2, <2>3
<1>3. ASSUME NEW t \in Task, NEW ph \in Phase, NEW s \in Service, ScriptFails(t, ph, s)
      PROVE  \E w \in Task \ {u}, p \in {"enable", "rollback"} : process'[w][p][z] = "ok"
  <2>1. /\ pc'[u] = pc[u] /\ active'[z] = active[z]
        /\ process' = [process EXCEPT ![t][ph][s] = "error"]
    BY <1>3 DEF ScriptFails
  <2>2. process[u]["disable"][z] = "ok"
    BY <2>1 DEF TypeOK
  <2> QED
    BY <1>0, <2>1, <2>2
<1>4. ASSUME NEW t \in Task, TaskStep(t)
      PROVE  \E w \in Task \ {u}, p \in {"enable", "rollback"} : process'[w][p][z] = "ok"
  <2>1. active' = active
    BY <1>4 DEF TaskStep, Enter, BeforeRaises, Collect, CollectError, Collecting, EnterBody,
      BodyReturns,
      BodyRaises, ExtendLvRaises, LeaveBody, LeaveRaising, AfterReturns, AfterRaises,
      RolledBack
  <2>0. ASSUME NEW ph \in Phase, Launch(t, ph)
        PROVE  u # t
    <3> SUFFICES ASSUME u = t PROVE FALSE
      OBVIOUS
    <3>1. /\ pc'[u] = ph
          /\ process'[u] = [process[u] EXCEPT ![ph] = Launched(u)]
      BY <2>0, LaunchEffect
    <3>2. CASE ph = "disable"
      <4>1. process'[u]["disable"] = Launched(u)
        BY <3>1, <3>2 DEF TypeOK
      <4>2. process'[u]["disable"][z] \in {"none", "running"}
        BY <4>1 DEF Launched
      <4> QED
        BY <4>2
    <3>3. CASE ph # "disable"
      BY <3>1, <3>3 DEF Phase
    <3> QED
      BY <3>2, <3>3
  <2>2. CASE UNCHANGED process
    <3>1. pc[u] \in {"disable", "inside"}
      <4>1. CASE u # t
        BY <1>4, <4>1 DEF TaskStep, Enter, BeforeRaises, Collect, CollectError, Collecting,
          EnterBody, BodyReturns,
          BodyRaises, ExtendLvRaises, LeaveBody, LeaveRaising, AfterReturns,
          AfterRaises, RolledBack, Launch, TypeOK
      <4>2. CASE u = t /\ Enter(t)
        BY <4>2, <2>0 DEF Enter, Phase
      <4>3. CASE u = t /\ ~Enter(t)
        BY <1>4, <4>3 DEF TaskStep, BeforeRaises, Collect, CollectError, Collecting,
          EnterBody, BodyReturns,
          BodyRaises, ExtendLvRaises, LeaveBody, LeaveRaising, AfterReturns,
          AfterRaises, RolledBack, AllCollected, Launch, TypeOK
      <4> QED
        BY <4>1, <4>2, <4>3
    <3> QED
      BY <1>0, <2>1, <2>2, <3>1
  <2>3. CASE \E ph \in Phase : Launch(t, ph)
    <3>1. CASE u = t
      BY <2>0, <2>3, <3>1
    <3>2. CASE u # t
      <4>1. pc'[u] = pc[u] /\ process'[u] = process[u]
        <5>1. PICK ph \in Phase : Launch(t, ph)
          BY <2>3
        <5> QED
          BY <3>2, <5>1 DEF Launch, TypeOK
      <4> QED
        BY <1>0, <2>1, <4>1
    <3> QED
      BY <3>1, <3>2
  <2>4. CASE Collect(t)
    <3>1. pc'[u] = pc[u] /\ process[u]["disable"][z] = "ok"
      <4>1. CASE u = t
        BY <2>4, <4>1, CollectEffect DEF Phase
      <4>2. CASE u # t
        BY <2>4, <4>2 DEF Collect, TypeOK
      <4> QED
        BY <4>1, <4>2
    <3> QED
      BY <1>0, <2>1, <3>1
  <2> QED
    BY <1>4, <2>2, <2>3, <2>4 DEF TaskStep, Enter, BeforeRaises, CollectError, Collecting,
      EnterBody,
      BodyReturns, BodyRaises, ExtendLvRaises, LeaveBody, LeaveRaising, AfterReturns,
      AfterRaises, RolledBack, Phase
<1> QED
  BY <1>1, <1>2, <1>3, <1>4 DEF Next, ScriptStep

-----------------------------------------------------------------------------
\* Giving up is for good.
LEMMA AbandonedStays ==
  ASSUME TypeOK, NEW w \in Task, Bookkeeping(w), [Next]_vars, Abandoned(w)
  PROVE  Abandoned(w)'
<1>1. CASE ScriptError(w)
  <2>1. PICK ph \in Phase, s \in Service : process[w][ph][s] = "error"
    BY <1>1 DEF ScriptError
  <2>2. process'[w][ph][s] = "error"
    BY <2>1, ScriptsStay
  <2> QED
    BY <2>2 DEF Abandoned, ScriptError
<1>2. CASE w \in ExtendLv /\ pc[w] = "failed"
  <2>1. pc'[w] = "failed"
    <3>1. CASE UNCHANGED vars
      BY <1>2, <3>1 DEF vars
    <3>2. CASE \E t \in Task, ph \in Phase, s \in Service : ScriptStep(t, ph, s)
      BY <1>2, <3>2 DEF ScriptStep, ScriptSucceeds, ScriptFails
    <3>3. CASE \E t \in Task : TaskStep(t)
      <4>1. PICK t \in Task : TaskStep(t)
        BY <3>3
      <4>2. t # w
        BY <1>2, <4>1 DEF TaskStep, Enter, BeforeRaises, Collect, CollectError, Collecting,
          EnterBody,
          BodyReturns, BodyRaises, ExtendLvRaises, LeaveBody, LeaveRaising, AfterReturns,
          AfterRaises, RolledBack, AllCollected, Phase
      <4> QED
        BY <1>2, <4>1, <4>2 DEF TaskStep, Enter, BeforeRaises, Collect, CollectError,
          Collecting, EnterBody,
          BodyReturns, BodyRaises, ExtendLvRaises, LeaveBody, LeaveRaising, AfterReturns,
          AfterRaises, RolledBack, AllCollected, Launch, TypeOK, Phase
    <3> QED
      BY <3>1, <3>2, <3>3 DEF Next
  <2> QED
    BY <1>2, <2>1 DEF Abandoned
<1> QED
  BY <1>1, <1>2 DEF Abandoned

-----------------------------------------------------------------------------
\* The debt of a task that is still going to put service z on again survives
\* every step that is not its own script putting z on.
LEMMA DebtStays ==
  ASSUME TypeOK, NEW w \in Task, Bookkeeping(w), NEW z \in Service,
         process[w]["disable"][z] = "ok", StillEnables(w, z),
         NEW t \in Task, TaskStep(t)
  PROVE  StillEnables(w, z)' \/ Abandoned(w)'
<1> USE DEF Phase, Location
<1>a. [Next]_vars
  BY DEF Next
<1>1. CASE w # t
  <2>1. pc'[w] = pc[w] /\ process'[w] = process[w]
    BY <1>1 DEF TaskStep, Enter, BeforeRaises, Collect, CollectError, Collecting, EnterBody,
      BodyReturns,
      BodyRaises, ExtendLvRaises, LeaveBody, LeaveRaising, AfterReturns, AfterRaises,
      RolledBack, Launch, TypeOK
  <2> QED
    BY <2>1 DEF StillEnables
<1>2. CASE w = t
  <2>1. pc[t] \in {"disable", "inside", "enable"}
    BY <1>2 DEF StillEnables
  <2>2. CASE Collect(t)
    BY <1>2, <2>2, CollectEffect DEF StillEnables
  <2>3. CASE CollectError(t)
    <3>1. Abandoned(t)
      BY <2>3, AwaitedService DEF CollectError, Abandoned, ScriptError
    <3> QED
      BY <1>2, <1>a, <3>1, AbandonedStays
  <2>4. CASE EnterBody(t)
    BY <1>2, <2>4, MoveEffect DEF EnterBody, StillEnables
  <2>5. CASE BodyReturns(t) \/ BodyRaises(t)
    <3>1. Launch(t, "enable")
      BY <2>5 DEF BodyReturns, BodyRaises
    <3>2. /\ pc'[t] = "enable"
          /\ process'[t] = [process[t] EXCEPT !["enable"] = Launched(t)]
          /\ process[t] \in [Phase -> [Service -> {"none", "running", "ok", "error"}]]
      BY <3>1, LaunchEffect
    <3> QED
      BY <1>2, <3>2 DEF StillEnables, Launched
  <2>6. CASE ExtendLvRaises(t)
    BY <1>2, <2>6, MoveEffect DEF ExtendLvRaises, Abandoned
  <2>7. CASE AllCollected(t, "enable")
    <3>1. z \in Mine(t)
      BY <1>2 DEF Bookkeeping
    <3>2. process[t]["enable"][z] = "ok"
      BY <1>2, <2>7, <3>1, CollectedAll
    <3> QED
      BY <1>2, <2>7, <3>2 DEF StillEnables, AllCollected
  <2> QED
    BY <2>1, <2>2, <2>3, <2>4, <2>5, <2>6, <2>7 DEF TaskStep, Enter, BeforeRaises, LeaveBody,
      LeaveRaising, AfterReturns, AfterRaises, RolledBack, AllCollected
<1> QED
  BY <1>1, <1>2

-----------------------------------------------------------------------------
\* Only a script switches a service off, and the task that started it owes it.
LEMMA OffIsOwedStep ==
  ASSUME TypeOK, \A t \in Task : Bookkeeping(t), [Next]_vars, OffIsOwed
  PROVE  OffIsOwed'
<1> DEFINE Owes(w, z) == process[w]["disable"][z] = "ok"
                            /\ (StillEnables(w, z) \/ Abandoned(w))
<1> SUFFICES ASSUME NEW z \in Service, ~active'[z]
             PROVE  \E w \in Task : Owes(w, z)'
  BY DEF OffIsOwed
<1>0. ASSUME ~active[z]
      PROVE  \E w \in Task : Owes(w, z)
  BY <1>0 DEF OffIsOwed
<1>a. ASSUME NEW w \in Task, Owes(w, z),
             StillEnables(w, z) => StillEnables(w, z)' \/ Abandoned(w)'
      PROVE  Owes(w, z)'
  <2>1. process'[w]["disable"][z] = "ok"
    BY <1>a, ScriptsStay DEF Phase
  <2>2. Abandoned(w) => Abandoned(w)'
    BY AbandonedStays
  <2> QED
    BY <1>a, <2>1, <2>2
<1>1. CASE UNCHANGED vars
  <2>1. ~active[z]
    BY <1>1 DEF vars
  <2>2. PICK w \in Task : Owes(w, z)
    BY <1>0, <2>1
  <2>3. StillEnables(w, z) => StillEnables(w, z)'
    BY <1>1 DEF vars, StillEnables
  <2> QED
    BY <1>a, <2>2, <2>3
<1>2. ASSUME NEW t \in Task, NEW ph \in Phase, NEW s \in Service, ScriptSucceeds(t, ph, s)
      PROVE  \E w \in Task : Owes(w, z)'
  <2>1. /\ pc' = pc /\ process[t][ph][s] = "running"
        /\ process' = [process EXCEPT ![t][ph][s] = "ok"]
        /\ active' = [active EXCEPT ![s] = (ph # "disable")]
    BY <1>2 DEF ScriptSucceeds
  <2>2. CASE s # z
    <3>1. ~active[z]
      BY <2>1, <2>2, Zenon DEF TypeOK
    <3>2. PICK w \in Task : Owes(w, z)
      BY <1>0, <3>1
    <3>3. \A p \in Phase : process'[w][p][z] = process[w][p][z]
      BY <2>1, <2>2 DEF TypeOK
    <3>4. StillEnables(w, z) => StillEnables(w, z)'
      BY <2>1, <3>3 DEF StillEnables, Phase
    <3> QED
      BY <1>a, <3>2, <3>4
  <2>3. CASE s = z
    <3>1. ph = "disable"
      <4>1. active'[z] = (ph # "disable")
        BY <2>1, <2>3, Zenon DEF TypeOK
      <4> QED
        BY <4>1
    <3>2. process'[t]["disable"][z] = "ok"
      BY <2>1, <2>3, <3>1 DEF TypeOK
    <3>3. CASE pc[t] = "disable"
      BY <2>1, <3>2, <3>3 DEF StillEnables
    <3>4. CASE ScriptError(t)
      <4>1. Abandoned(t)'
        BY <3>4, AbandonedStays DEF Abandoned
      <4> QED
        BY <3>2, <4>1
    <3> QED
      BY <2>1, <2>3, <3>1, <3>3, <3>4 DEF Bookkeeping
  <2> QED
    BY <2>2, <2>3
<1>3. ASSUME NEW t \in Task, NEW ph \in Phase, NEW s \in Service, ScriptFails(t, ph, s)
      PROVE  \E w \in Task : Owes(w, z)'
  <2>1. /\ pc' = pc /\ active' = active
        /\ process' = [process EXCEPT ![t][ph][s] = "error"]
    BY <1>3 DEF ScriptFails
  <2>2. PICK w \in Task : Owes(w, z)
    BY <1>0, <2>1
  <2>3. CASE w = t
    <3>1. process'[t][ph][s] = "error"
      BY <2>1 DEF TypeOK
    <3>2. Abandoned(t)'
      BY <3>1 DEF Abandoned, ScriptError
    <3> QED
      BY <1>a, <2>2, <2>3, <3>2
  <2>4. CASE w # t
    <3>1. process'[w] = process[w]
      BY <2>1, <2>4 DEF TypeOK
    <3>2. StillEnables(w, z) => StillEnables(w, z)'
      BY <2>1, <3>1 DEF StillEnables
    <3> QED
      BY <1>a, <2>2, <3>2
  <2> QED
    BY <2>3, <2>4
<1>4. ASSUME NEW t \in Task, TaskStep(t)
      PROVE  \E w \in Task : Owes(w, z)'
  <2>1. active' = active
    BY <1>4 DEF TaskStep, Enter, BeforeRaises, Collect, CollectError, Collecting, EnterBody,
      BodyReturns,
      BodyRaises, ExtendLvRaises, LeaveBody, LeaveRaising, AfterReturns, AfterRaises,
      RolledBack
  <2>2. PICK w \in Task : Owes(w, z)
    BY <1>0, <2>1
  <2>3. StillEnables(w, z) => StillEnables(w, z)' \/ Abandoned(w)'
    BY <1>4, <2>2, DebtStays
  <2> QED
    BY <1>a, <2>2, <2>3
<1> QED
  BY <1>1, <1>2, <1>3, <1>4 DEF Next, ScriptStep

-----------------------------------------------------------------------------
LEMMA InitIInv == Init => IInv
<1> SUFFICES ASSUME Init PROVE IInv
  OBVIOUS
<1>1. TypeOK
  BY Lists DEF Init, TypeOK, Phase, Location
<1>2. ASSUME NEW t \in Task PROVE Bookkeeping(t)
  BY DEF Init, Bookkeeping, Unstarted, Phase
<1>3. \A t \in Task, s \in Service : Foreign(t, s)
  BY DEF Init, Foreign
<1>4. OffIsOwed
  BY DEF Init, OffIsOwed
<1> QED
  BY <1>1, <1>2, <1>3, <1>4 DEF IInv

LEMMA NextIInv == IInv /\ [Next]_vars => IInv'
BY TypeStep, BookkeepingStep, ForeignStep, OffIsOwedStep DEF IInv

LEMMA Inductive == Spec => []IInv
BY InitIInv, NextIInv, PTL DEF Spec

\* The variables keep their ranges, whatever the tasks, scripts and failures.
THEOREM TypeCorrect == Spec => []TypeOK
<1>1. IInv => TypeOK
  BY DEF IInv
<1> QED
  BY <1>1, Inductive, PTL

\* A service that is off has a task that will put it on again, or one that gave
\* up: what the finally clause of scaling_services_disabled guarantees.
THEOREM OffServicesAreOwed == Spec => []OffIsOwed
<1>1. IInv => OffIsOwed
  BY DEF IInv
<1> QED
  BY <1>1, Inductive, PTL

\* A service running inside a bracket was put on by another task: the bracket of
\* a task is broken only by a task that overlaps with it.
THEOREM BracketsBreakOnlyByOverlap == Spec => []OnInsideIsForeign
<1>1. IInv => OnInsideIsForeign
  BY Lists DEF IInv, OnInsideIsForeign, Foreign, Bookkeeping
<1> QED
  BY <1>1, Inductive, PTL
=============================================================================
