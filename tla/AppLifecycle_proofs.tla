-------------------------- MODULE AppLifecycle_proofs --------------------------
(***************************************************************************)
(* Proofs about AppLifecycle, for any number of applications, starts and   *)
(* switches, wherever starts fail.                                         *)
(***************************************************************************)
EXTENDS AppLifecycle, FiniteSetTheorems, SequenceTheorems, TLAPS

Facts == INSTANCE InventoryFile_proofs WITH Host <- {0}, hostNumber <- [h \in {0} |-> 0]

-----------------------------------------------------------------------------
(* Lists of names *)

Increasing(names) == Facts!Increasing(names)

\* The names of the inventory are those of the lemmas about the inventory.
LEMMA SameNames ==
  /\ Facts!Name = File!Name /\ Facts!HostAssumption
  /\ \A n, i : Facts!ContainerList(n, i) = File!ContainerList(n, i)
  /\ \A l : Facts!FirstIndex(l) = File!FirstIndex(l)
  /\ \A l : Facts!ToSet(l) = ToSet(l)
  /\ \A l, c : Facts!RemoveFirst(l, c) = RemoveFirst(l, c)
<1>1. Facts!Name = File!Name
  BY DEF Facts!Name, File!Name, Facts!NoNumber, File!NoNumber
<1>2. Facts!HostAssumption
  BY DEF Facts!HostAssumption
<1>3. \A n, i : Facts!ContainerList(n, i) = File!ContainerList(n, i)
  BY DEF Facts!ContainerList, File!ContainerList, Facts!Cont, File!Cont
<1>4. \A l : Facts!FirstIndex(l) = File!FirstIndex(l)
  BY DEF Facts!FirstIndex, File!FirstIndex, Facts!Last, File!Last
<1>5. \A l : Facts!ToSet(l) = ToSet(l)
  BY DEF Facts!ToSet, ToSet
<1>6. \A l, c : Facts!RemoveFirst(l, c) = RemoveFirst(l, c)
  BY Zenon DEF Facts!RemoveFirst, RemoveFirst, Facts!SelectInSeq, SelectInSeq,
               Facts!RemoveAt, RemoveAt, Facts!Min, Min
<1> QED
  BY <1>1, <1>2, <1>3, <1>4, <1>5, <1>6

\* The names that a start is given follow those of the list.
LEMMA NamesAreNew ==
  ASSUME NEW l \in Seq(File!Name), Increasing(l), NEW n \in Nat
  PROVE  LET new == File!ContainerList(n, File!FirstIndex(l))
         IN  /\ new \in Seq(File!Name) /\ Len(new) = n
             /\ IsInjective(new)
             /\ ToSet(l) \cap ToSet(new) = {}
             /\ l \o new \in Seq(File!Name)
             /\ ToSet(l \o new) = ToSet(l) \cup ToSet(new)
             /\ Increasing(l \o new)
<1> DEFINE first == File!FirstIndex(l)
           new   == File!ContainerList(n, first)
<1>1. first \in Nat /\ \A i \in DOMAIN l : l[i].num < first
  BY SameNames, Facts!FirstIndexIs, Facts!FirstIndexIsOver DEF Increasing
<1>2. /\ new \in Seq(File!Name) /\ Len(new) = n
      /\ \A i \in 1..n : new[i] = Facts!Cont(first + i - 1)
  <2> HIDE DEF first
  <2>1. /\ Facts!ContainerList(n, first) \in Seq(Facts!Name)
        /\ Len(Facts!ContainerList(n, first)) = n
        /\ \A i \in 1..n : Facts!ContainerList(n, first)[i] = Facts!Cont(first + i - 1)
    BY <1>1, SameNames, Facts!ContainerListIs
  <2> QED
    BY <2>1, SameNames
<1>3. IsInjective(new)
  <2> HIDE DEF first, new
  <2>1. DOMAIN new = 1..n
    BY <1>2
  <2>2. \A i \in 1..n : new[i].num = first + i - 1
    BY <1>2 DEF Facts!Cont
  <2> QED
    BY <2>1, <2>2, <1>1 DEF IsInjective
<1>4. Increasing(l \o new) /\ ToSet(l) \cap ToSet(new) = {}
  <2> HIDE DEF first
  <2>1. /\ Facts!Increasing(l \o Facts!ContainerList(n, first))
        /\ ToSet(l) \cap ToSet(Facts!ContainerList(n, first)) = {}
    BY <1>1, SameNames, Facts!ListGrows DEF Increasing
  <2> QED
    BY <2>1, SameNames DEF Increasing
<1>5. l \o new \in Seq(File!Name) /\ ToSet(l \o new) = ToSet(l) \cup ToSet(new)
  <2> HIDE DEF new
  <2> QED
    BY <1>2, SameNames, Facts!ToSetConcat
<1> QED
  BY <1>2, <1>3, <1>4, <1>5

\* A name that leaves the list leaves it for good.
LEMMA NameLeaves ==
  ASSUME NEW l \in Seq(File!Name), Increasing(l), NEW c
  PROVE  /\ RemoveFirst(l, c) \in Seq(File!Name)
         /\ Increasing(RemoveFirst(l, c))
         /\ ToSet(RemoveFirst(l, c)) = ToSet(l) \ {c}
BY SameNames, Facts!ListShrinks DEF Increasing

\* A loop over a list without repetitions treats its head, and has the others left.
LEMMA LoopAdvances ==
  ASSUME NEW q \in Seq(File!Name), IsInjective(q), q # <<>>
  PROVE  /\ Tail(q) \in Seq(File!Name) /\ IsInjective(Tail(q))
         /\ Head(q) \in ToSet(q) /\ Head(q) \in File!Name
         /\ ToSet(Tail(q)) = ToSet(q) \ {Head(q)}
<1>1. /\ Len(q) \in Nat \ {0} /\ Tail(q) \in Seq(File!Name) /\ Len(Tail(q)) = Len(q) - 1
      /\ \A i \in 1..(Len(q) - 1) : Tail(q)[i] = q[i + 1]
      /\ Head(q) = q[1] /\ DOMAIN q = 1..Len(q) /\ DOMAIN Tail(q) = 1..(Len(q) - 1)
      /\ Head(q) \in File!Name
  OBVIOUS
<1>2. \A i, j \in 1..Len(q) : q[i] = q[j] => i = j
  BY <1>1 DEF IsInjective
<1>3. IsInjective(Tail(q))
  BY <1>1, <1>2 DEF IsInjective
<1>4. \A i \in 2..Len(q) : q[i] # q[1] /\ q[i] = Tail(q)[i - 1] /\ i - 1 \in 1..(Len(q) - 1)
  BY <1>1, <1>2
<1>5. \A i \in 1..Len(q) : i = 1 \/ i \in 2..Len(q)
  BY <1>1
<1>6. \A i \in 1..(Len(q) - 1) : i + 1 \in 2..Len(q) /\ i + 1 \in 1..Len(q)
  BY <1>1
<1>7. ToSet(Tail(q)) \subseteq ToSet(q) \ {Head(q)}
  BY <1>1, <1>4, <1>6 DEF ToSet
<1>8. ToSet(q) \ {Head(q)} \subseteq ToSet(Tail(q))
  <2>1. ASSUME NEW i \in 1..Len(q), q[i] # q[1] PROVE q[i] \in ToSet(Tail(q))
    <3>1. i \in 2..Len(q)
      BY <1>5, <2>1
    <3>2. i - 1 \in DOMAIN Tail(q) /\ Tail(q)[i - 1] = q[i]
      BY <3>1, <1>1, <1>4
    <3> QED
      BY <3>2, Zenon DEF ToSet
  <2> QED
    BY <2>1, <1>1 DEF ToSet
<1>9. Head(q) \in ToSet(q)
  BY <1>1 DEF ToSet
<1> QED
  BY <1>1, <1>3, <1>7, <1>8, <1>9

LEMMA NothingLeft == ToSet(<<>>) = {} /\ IsInjective(<<>>) /\ <<>> \in Seq(File!Name)
BY DEF ToSet, IsInjective

LEMMA SomethingLeft ==
  ASSUME NEW q \in Seq(File!Name)
  PROVE  /\ ToSet(q) \subseteq File!Name
         /\ Len(q) # 0 => ToSet(q) # {}
         /\ Len(q) = 1 => ToSet(q) = {q[1]}
<1>1. DOMAIN q = 1..Len(q) /\ \A i \in 1..Len(q) : q[i] \in File!Name
  OBVIOUS
<1>2. ToSet(q) \subseteq File!Name
  BY <1>1 DEF ToSet
<1>3. ASSUME Len(q) # 0 PROVE ToSet(q) # {}
  BY <1>1, <1>3, 1 \in 1..Len(q) DEF ToSet
<1>4. ASSUME Len(q) = 1 PROVE ToSet(q) = {q[1]}
  BY <1>1, <1>4 DEF ToSet
<1> QED
  BY <1>2, <1>3, <1>4

\* A set as a list has each element once.
LEMMA SetAsList ==
  ASSUME NEW S \in SUBSET File!Name, IsFiniteSet(S)
  PROVE  /\ SetToSeq(S) \in Seq(File!Name) /\ IsInjective(SetToSeq(S))
         /\ ToSet(SetToSeq(S)) \subseteq S
<1> DEFINE n == Cardinality(S)
<1>1. n \in Nat /\ \E f \in [1..n -> S] : IsInjective(f)
  <2>1. n \in Nat /\ ExistsBijection(1..n, S)
    BY FS_CardinalityType
  <2>2. PICK f \in Bijection(1..n, S) : TRUE
    BY <2>1 DEF ExistsBijection
  <2>3. f \in [1..n -> S] /\ IsInjective(f)
    BY <2>2 DEF Bijection, Injection, IsInjective
  <2> QED
    BY <2>1, <2>3
<1>2. SetToSeq(S) \in [1..n -> S] /\ IsInjective(SetToSeq(S))
  BY <1>1 DEF SetToSeq
<1> QED
  BY <1>1, <1>2 DEF ToSet
-----------------------------------------------------------------------------
(* The invariant *)

\* The names that task t may start, or has still to stop: nobody else stops them.
Owns(t) ==
  IF step[t] \in {"starting", "adding", "subscribing", "launching", "waiting", "ended", "removing"}
  THEN ToSet(mine[t])
  ELSE IF step[t] \in {"undeploying", "rollback", "stopping"} THEN ToSet(todo[t]) ELSE {}

\* Those of them that it is about to start or to free ...
Placed(t) == IF step[t] \in {"starting", "undeploying"} THEN Owns(t) ELSE {}

\* ... that it has subscribed to its application ...
Has(t) ==
  IF step[t] \in {"launching", "waiting"} THEN ToSet(mine[t])
  ELSE IF step[t] = "subscribing" THEN ToSet(mine[t]) \ ToSet(todo[t]) ELSE {}

\* ... and that it has not, or not any more.
HasNot(t) ==
  IF step[t] = "starting" THEN ToSet(mine[t])
  ELSE IF step[t] \in {"undeploying", "stopping"} THEN ToSet(todo[t])
  ELSE IF step[t] = "removing" THEN ToSet(mine[t]) \ ToSet(todo[t]) ELSE {}

\* The names that the rollback of t has still to unsubscribe: it may have given them back.
Forgets(t) ==
  IF step[t] = "rollback" THEN ToSet(mine[t])
  ELSE IF step[t] = "forgetting" THEN ToSet(todo[t]) ELSE {}

ToForget(a, c) == \E s \in Start : app[s] = a /\ c \in Forgets(s)

\* A loop of task t treats each container once.
LoopOf(t) ==
  /\ IsInjective(mine[t]) /\ IsInjective(todo[t])
  /\ ToSet(todo[t]) \subseteq ToSet(mine[t])
  /\ step[t] = "ended" => todo[t] = mine[t]
  /\ t \in Start =>
       /\ step[t] \in {"queued", "checked", "naming"} => mine[t] = <<>>
       /\ step[t] \notin {"queued", "checked", "naming", "failed"} => Len(mine[t]) = need[t]
  /\ t \in Switch => step[t] \in {"queued", "ended", "removing", "stopping", "done"}

Loops == \A t \in Task : LoopOf(t)

\* The list has the names in the order of their numbers, and each of them once.
Ordered == Increasing(list)

\* Nobody has a name that another has, unless it is loose.
Apart == \A t, u \in Task : t # u => Owns(t) \cap Owns(u) \subseteq loose

\* Every name is on the list while somebody owns it, its instance runs or it is
\* subscribed, unless a rollback is about to unsubscribe it.
Listed ==
  /\ \A t \in Task : Owns(t) \subseteq ToSet(list) \cup loose
  /\ instances \subseteq ToSet(list) \cup loose
  /\ \A a \in App : \A c \in sub[a] \ loose : c \in ToSet(list) \/ ToForget(a, c)

\* A name on the list has its instance, or somebody who is about to start or to free it.
NoneMissing ==
  \A c \in ToSet(list) \ loose : c \in instances \/ \E t \in Task : c \in Placed(t)

\* An instance that nobody owns is one that a failed start has left for the switch.
Left(u, c) == step[u] = "failed" /\ c \in ToSet(mine[u]) /\ c \in sub[app[u]]

NoneStray ==
  \A c \in instances \ loose : (\E t \in Task : c \in Owns(t)) \/ \E u \in Start : Left(u, c)

\* Who is subscribed, where: a name is subscribed to one application, that of its owner.
Subscribed ==
  /\ \A s \in Start : Has(s) \subseteq sub[app[s]] \cup loose
  /\ \A t \in Task : \A c \in (HasNot(t) \cap sub[app[t]]) \ loose : ToForget(app[t], c)
  /\ \A t \in Task, a \in App : \A c \in (Owns(t) \cap sub[a]) \ loose :
       a = app[t] \/ ToForget(a, c)
  /\ \A a, b \in App : a # b => \A c \in (sub[a] \cap sub[b]) \ loose :
       ToForget(a, c) \/ ToForget(b, c)

\* An application is running on behalf of a start, or of what a failed one has left.
OnItsWay(s) ==
  step[s] \in {"naming", "starting", "adding", "subscribing", "launching", "waiting",
               "undeploying", "rollback", "forgetting", "ended"}

Keeps(u) ==
  /\ step[u] = "failed" /\ mine[u] # <<>>
  /\ \A c \in ToSet(mine[u]) \ loose :
       /\ c \in sub[app[u]]
       /\ \A t \in Task : step[t] \in {"removing", "stopping"} => c \notin Owns(t)

Running ==
  \A a \in App : state[a] = "running" =>
    \E s \in Start : app[s] = a /\ (OnItsWay(s) \/ Keeps(s))

Finite == \A a \in App : IsFiniteSet(sub[a])

IInv ==
  /\ TypeOK /\ Finite /\ Loops /\ Ordered
  /\ Apart /\ Listed /\ NoneMissing /\ NoneStray /\ Subscribed /\ Running

-----------------------------------------------------------------------------
(* What a step changes *)

TaskStep(t) ==
  \/ t \in Start /\ StartStep(t)
  \/ Removal(t)
  \/ t \in Switch /\ UserStop(t)

\* The containers and the progress of the other tasks stay as they are, and so do the
\* other applications.
OthersStay(t) ==
  /\ \A u \in Task \ {t} : /\ step'[u] = step[u] /\ mine'[u] = mine[u] /\ todo'[u] = todo[u]
                           /\ Owns(u)' = Owns(u) /\ Placed(u)' = Placed(u)
                           /\ Has(u)' = Has(u) /\ HasNot(u)' = HasNot(u)
                           /\ Forgets(u)' = Forgets(u)
  /\ \A a \in App \ {app[t]} : sub'[a] = sub[a] /\ state'[a] = state[a]

\* Every action of the module leaves the others alone, and the types right.
LEMMA StepStays ==
  ASSUME TypeOK, Finite, Loops, Ordered, NEW t \in Task, TaskStep(t)
  PROVE  TypeOK' /\ Finite' /\ OthersStay(t)
<1> USE TaskAssumption, BoundAssumption
<1> DEFINE Rest ==
      /\ \A u \in Task \ {t} : step'[u] = step[u] /\ mine'[u] = mine[u] /\ todo'[u] = todo[u]
      /\ \A a \in App \ {app[t]} : sub'[a] = sub[a] /\ state'[a] = state[a]
             Kept == TypeOK' /\ Finite' /\ Rest
<1>1. /\ IsInjective(todo[t]) /\ mine[t] \in Seq(File!Name) /\ todo[t] \in Seq(File!Name)
      /\ app[t] \in App /\ t \in Start => need[t] \in Nat
  BY DEF TypeOK, Loops, LoopOf, Task
<1>2. ToSet(mine[t]) \subseteq File!Name
  BY <1>1, SomethingLeft
<1>3. todo[t] # <<>> => Tail(todo[t]) \in Seq(File!Name) /\ Head(todo[t]) \in File!Name
  BY <1>1, LoopAdvances
<1>4. \A c : RemoveFirst(list, c) \in Seq(File!Name)
  BY NameLeaves DEF TypeOK, Ordered
<1>5. \A c : IsFiniteSet(sub[app[t]] \ {c}) /\ IsFiniteSet(sub[app[t]] \cup {c})
  BY <1>1, FS_AddElement, FS_RemoveElement DEF Finite
<1>6. ASSUME NEW c \in File!Name, StopContainer(c)
       PROVE  /\ list' \in Seq(File!Name) /\ instances' \subseteq File!Name
              /\ loose' \subseteq File!Name /\ errors' \in 0..MaxErrors
  BY <1>4, <1>6 DEF StopContainer, Fails, TypeOK
<1>7. ASSUME CheckSpace(t) PROVE Kept
  BY <1>1, <1>7
  DEF TypeOK, Finite, CheckSpace, Goto, database
<1>8. ASSUME SetRunning(t) PROVE Kept
  BY <1>1, <1>8
  DEF TypeOK, Finite, SetRunning, SetState, Goto, database
<1>9. ASSUME t \in Start, NameContainers(t) PROVE Kept
  <2> DEFINE new == File!ContainerList(need[t], File!FirstIndex(list))
  <2>1. new \in Seq(File!Name) /\ list \o new \in Seq(File!Name)
    BY <1>1, <1>9, NamesAreNew DEF TypeOK, Ordered
  <2>2. mine' = [mine EXCEPT ![t] = new] /\ mine'[t] = new
    BY <1>9 DEF NameContainers, TypeOK
  <2> HIDE DEF new
  <2> QED
    BY <1>9, <2>1, <2>2 DEF TypeOK, Finite, NameContainers, Goto, database
<1>10. ASSUME StartInstances(t) PROVE Kept
  BY <1>1, <1>2, <1>10
  DEF TypeOK, Finite, StartInstances, BeginLoop, Goto, database
<1>11. ASSUME StartInstancesFails(t) PROVE Kept
  BY <1>1, <1>2, <1>11
  DEF TypeOK, Finite, StartInstancesFails, BeginLoop, Fails, Goto, database
<1>12. ASSUME AddContainer(t) PROVE Kept
  BY <1>1, <1>3, <1>12, ZenonT(30)
  DEF TypeOK, Finite, AddContainer, BeginLoop, Advance, Goto, database
<1>13. ASSUME Subscribe(t) PROVE Kept
  <2>1. CASE todo[t] # <<>>
    <3>1. step[t] = "subscribing" /\ Head(todo[t]) \in known
           /\ sub' = [sub EXCEPT ![app[t]] = @ \cup {Head(todo[t])}] /\ Advance(t)
           /\ UNCHANGED <<list, instances, known, state, loose, errors>>
      BY <1>13, <2>1 DEF Subscribe
    <3> QED
      BY <1>1, <1>3, <1>5, <2>1, <3>1 DEF TypeOK, Finite, Advance
  <2>2. CASE todo[t] = <<>>
    BY <1>1, <1>13, <2>2
    DEF TypeOK, Finite, Subscribe, Advance, Goto, database
  <2> QED
    BY <2>1, <2>2
<1>14. ASSUME RegistrationFails(t) PROVE Kept
  BY <1>1, <1>14
  DEF TypeOK, Finite, RegistrationFails, BeginLoop, Fails, Goto, database
<1>15. ASSUME Undeploy(t) PROVE Kept
  <2>1. todo[t] # <<>> /\ StopContainer(Head(todo[t])) /\ Advance(t) /\ UNCHANGED database
    BY <1>15 DEF Undeploy
  <2> QED
    BY <1>1, <1>3, <1>6, <2>1 DEF TypeOK, Finite, Advance, database
<1>16. ASSUME UndeployRaises(t) PROVE Kept
  <2>1. ToSet(todo[t]) \subseteq File!Name
    BY <1>1, SomethingLeft
  <2>2. list' \in Seq(File!Name)
    BY <1>4, <1>16 DEF UndeployRaises
  <2>3. instances' \subseteq File!Name /\ loose' \subseteq File!Name
    BY <1>16, <2>1 DEF UndeployRaises, TypeOK
  <2>4. /\ state' = [state EXCEPT ![app[t]] = "stopped"] /\ step' = [step EXCEPT ![t] = "failed"]
        /\ errors < MaxErrors /\ errors' = errors + 1 /\ UNCHANGED <<known, sub, mine, todo>>
    BY <1>16 DEF UndeployRaises, Fails, SetState, Goto
  <2> QED
    BY <1>1, <2>2, <2>3, <2>4 DEF TypeOK, Finite
<1>17. ASSUME Undeployed(t) PROVE Kept
  BY <1>1, <1>17
  DEF TypeOK, Finite, Undeployed, SetState, Goto, database
<1>18. ASSUME LaunchApp(t) PROVE Kept
  BY <1>1, <1>18
  DEF TypeOK, Finite, LaunchApp, Goto, database
<1>19. ASSUME LaunchFails(t) PROVE Kept
  BY <1>1, <1>19
  DEF TypeOK, Finite, LaunchFails, BeginLoop, Fails, Goto, database
<1>20. ASSUME AppEnds(t) PROVE Kept
  BY <1>1, <1>20
  DEF TypeOK, Finite, AppEnds, BeginLoop, Goto, database
<1>21. ASSUME AppFails(t) PROVE Kept
  BY <1>1, <1>21
  DEF TypeOK, Finite, AppFails, Fails, Goto, database
<1>22. ASSUME RollbackStop(t) PROVE Kept
  <2>1. CASE todo[t] # <<>>
    <3>1. StopContainer(Head(todo[t])) /\ Advance(t) /\ UNCHANGED database
      BY <1>22, <2>1 DEF RollbackStop
    <3> QED
      BY <1>1, <1>3, <1>6, <2>1, <3>1 DEF TypeOK, Finite, Advance, database
  <2>2. CASE todo[t] = <<>>
    BY <1>1, <1>22, <2>2
    DEF TypeOK, Finite, RollbackStop, BeginLoop, Goto, database
  <2> QED
    BY <2>1, <2>2
<1>23. ASSUME RollbackForget(t) PROVE Kept
  BY <1>1, <1>3, <1>5, <1>23
  DEF TypeOK, Finite, RollbackForget, Forget, Advance, Goto, database
<1>24. ASSUME RolledBack(t) PROVE Kept
  BY <1>1, <1>24
  DEF TypeOK, Finite, RolledBack, SetState, Goto, database
<1>25. ASSUME SetStopped(t) PROVE Kept
  BY <1>1, <1>25
  DEF TypeOK, Finite, SetStopped, SetState, Goto, database
<1>26. ASSUME RemoveFromDb(t) PROVE Kept
  <2>1. CASE todo[t] # <<>>
    <3>1. Forget(t, Head(todo[t])) /\ Advance(t) /\ UNCHANGED <<list, instances, loose, errors>>
      BY <1>26, <2>1 DEF RemoveFromDb
    <3> QED
      BY <1>1, <1>3, <1>5, <2>1, <3>1 DEF TypeOK, Finite, Advance, Forget
  <2>2. CASE todo[t] = <<>>
    BY <1>1, <1>26, <2>2
    DEF TypeOK, Finite, RemoveFromDb, Forget, BeginLoop, Advance, Goto, database
  <2> QED
    BY <2>1, <2>2
<1>27. ASSUME StopEach(t) PROVE Kept
  <2>1. CASE todo[t] # <<>>
    <3>1. StopContainer(Head(todo[t])) /\ Advance(t) /\ UNCHANGED database
      BY <1>27, <2>1 DEF StopEach
    <3> QED
      BY <1>1, <1>3, <1>6, <2>1, <3>1 DEF TypeOK, Finite, Advance, database
  <2>2. CASE todo[t] = <<>>
    BY <1>1, <1>27, <2>2
    DEF TypeOK, Finite, StopEach, Goto, database
  <2> QED
    BY <2>1, <2>2
<1>28. ASSUME UserStop(t) PROVE Kept
  <2> DEFINE q == SetToSeq(Containers(app[t]))
  <2>1. Containers(app[t]) \subseteq File!Name /\ IsFiniteSet(Containers(app[t]))
    BY <1>1, FS_Subset DEF TypeOK, Finite, Containers
  <2>2. q \in Seq(File!Name)
    BY <2>1, SetAsList
  <2>3. mine' = [mine EXCEPT ![t] = q] /\ mine'[t] = q
    BY <1>28 DEF UserStop, TypeOK
  <2> HIDE DEF q
  <2> QED
    BY <1>28, <2>1, <2>2, <2>3 DEF TypeOK, Finite, UserStop, Goto, database
<1>29. TypeOK' /\ Finite' /\ Rest
  BY <1>7, <1>8, <1>9, <1>10, <1>11, <1>12, <1>13, <1>14, <1>15,
     <1>17, <1>18, <1>19, <1>20, <1>21, <1>22, <1>23, <1>24,
     <1>25, <1>26, <1>27, <1>28, <1>16
  DEF TaskStep, StartStep, Deployment, Rollback, Removal
<1>30. OthersStay(t)
  BY <1>29 DEF OthersStay, Owns, Placed, Has, HasNot, Forgets
<1> QED
  BY <1>29, <1>30

\* Where functions may be updated.
LEMMA Domains ==
  ASSUME TypeOK, NEW t \in Task
  PROVE  /\ DOMAIN step = Task /\ DOMAIN mine = Task /\ DOMAIN todo = Task
         /\ DOMAIN sub = App /\ DOMAIN state = App
         /\ app[t] \in App
         /\ t \in Switch <=> t \notin Start
         /\ mine[t] \in Seq(File!Name) /\ todo[t] \in Seq(File!Name)
BY TaskAssumption DEF TypeOK, Task

\* The loops go on treating each container once.
LEMMA StepLoops ==
  ASSUME TypeOK, Finite, Loops, Ordered, NEW t \in Task, TaskStep(t)
  PROVE  Loops'
<1>1. /\ DOMAIN step = Task /\ DOMAIN mine = Task /\ DOMAIN todo = Task
      /\ t \in Switch <=> t \notin Start
      /\ mine[t] \in Seq(File!Name) /\ todo[t] \in Seq(File!Name)
  BY Domains
<1>2. LoopOf(t)
  BY DEF Loops
<1>3. todo[t] # <<>> => /\ Tail(todo[t]) \in Seq(File!Name) /\ IsInjective(Tail(todo[t]))
                        /\ ToSet(Tail(todo[t])) \subseteq ToSet(todo[t])
  BY <1>1, <1>2, LoopAdvances DEF LoopOf
<1>4. ToSet(<<>>) = {} /\ IsInjective(<<>>)
  BY NothingLeft
<1>5. ASSUME t \in Start, CheckSpace(t) PROVE LoopOf(t)'
  BY <1>1, <1>2, <1>5 DEF LoopOf, CheckSpace, Goto
<1>6. ASSUME t \in Start, SetRunning(t) PROVE LoopOf(t)'
  BY <1>1, <1>2, <1>6 DEF LoopOf, SetRunning, Goto
<1>7. ASSUME t \in Start, NameContainers(t) PROVE LoopOf(t)'
  <2> DEFINE new == File!ContainerList(need[t], File!FirstIndex(list))
  <2>1. IsInjective(new) /\ Len(new) = need[t]
    BY <1>7, TaskAssumption, NamesAreNew DEF TypeOK, Ordered
  <2>2. mine'[t] = new /\ step'[t] = "starting" /\ todo'[t] = todo[t]
    BY <1>7, <1>1 DEF NameContainers, Goto
  <2> HIDE DEF new
  <2>3. ToSet(todo[t]) = {}
    BY <1>7, <1>2, <1>4 DEF LoopOf, NameContainers
  <2> QED
    BY <1>7, <1>1, <1>2, <2>1, <2>2, <2>3 DEF LoopOf
<1>8. ASSUME t \in Start, StartInstances(t) PROVE LoopOf(t)'
  BY <1>1, <1>2, <1>8 DEF LoopOf, StartInstances, Goto, BeginLoop
<1>9. ASSUME t \in Start, StartInstancesFails(t) PROVE LoopOf(t)'
  BY <1>1, <1>2, <1>9 DEF LoopOf, StartInstancesFails, Goto, BeginLoop
<1>10. ASSUME t \in Start, AddContainer(t) PROVE LoopOf(t)'
  BY <1>1, <1>2, <1>3, <1>10 DEF LoopOf, AddContainer, Goto, BeginLoop, Advance
<1>11. ASSUME t \in Start, Subscribe(t) PROVE LoopOf(t)'
  BY <1>1, <1>2, <1>3, <1>11 DEF LoopOf, Subscribe, Goto, Advance
<1>12. ASSUME t \in Start, RegistrationFails(t) PROVE LoopOf(t)'
  BY <1>1, <1>2, <1>12 DEF LoopOf, RegistrationFails, Goto, BeginLoop
<1>13. ASSUME t \in Start, Undeploy(t) PROVE LoopOf(t)'
  BY <1>1, <1>2, <1>3, <1>13 DEF LoopOf, Undeploy, Goto, Advance
<1>14. ASSUME t \in Start, UndeployRaises(t) PROVE LoopOf(t)'
  BY <1>1, <1>2, <1>14 DEF LoopOf, UndeployRaises, Goto
<1>15. ASSUME t \in Start, Undeployed(t) PROVE LoopOf(t)'
  BY <1>1, <1>2, <1>15 DEF LoopOf, Undeployed, Goto
<1>16. ASSUME t \in Start, LaunchApp(t) PROVE LoopOf(t)'
  BY <1>1, <1>2, <1>16 DEF LoopOf, LaunchApp, Goto
<1>17. ASSUME t \in Start, LaunchFails(t) PROVE LoopOf(t)'
  BY <1>1, <1>2, <1>17 DEF LoopOf, LaunchFails, Goto, BeginLoop
<1>18. ASSUME t \in Start, AppEnds(t) PROVE LoopOf(t)'
  BY <1>1, <1>2, <1>18 DEF LoopOf, AppEnds, Goto, BeginLoop
<1>19. ASSUME t \in Start, AppFails(t) PROVE LoopOf(t)'
  BY <1>1, <1>2, <1>19 DEF LoopOf, AppFails, Goto
<1>20. ASSUME t \in Start, RollbackStop(t) PROVE LoopOf(t)'
  BY <1>1, <1>2, <1>3, <1>20 DEF LoopOf, RollbackStop, Goto, BeginLoop, Advance
<1>21. ASSUME t \in Start, RollbackForget(t) PROVE LoopOf(t)'
  BY <1>1, <1>2, <1>3, <1>21 DEF LoopOf, RollbackForget, Goto, Advance
<1>22. ASSUME t \in Start, RolledBack(t) PROVE LoopOf(t)'
  BY <1>1, <1>2, <1>22 DEF LoopOf, RolledBack, Goto
<1>23. ASSUME SetStopped(t) PROVE LoopOf(t)'
  BY <1>1, <1>2, <1>23 DEF LoopOf, SetStopped, Goto
<1>24. ASSUME RemoveFromDb(t) PROVE LoopOf(t)'
  BY <1>1, <1>2, <1>3, <1>24 DEF LoopOf, RemoveFromDb, Goto, Advance, BeginLoop
<1>25. ASSUME StopEach(t) PROVE LoopOf(t)'
  BY <1>1, <1>2, <1>3, <1>25 DEF LoopOf, StopEach, Goto, Advance
<1>26. ASSUME t \in Switch, UserStop(t) PROVE LoopOf(t)'
  <2> DEFINE q == SetToSeq(Containers(app[t]))
  <2>1. Containers(app[t]) \subseteq File!Name /\ IsFiniteSet(Containers(app[t]))
    BY <1>1, Domains, FS_Subset DEF TypeOK, Finite, Containers
  <2>2. IsInjective(q)
    BY <2>1, SetAsList
  <2>3. mine'[t] = q /\ todo'[t] = q /\ step'[t] = "ended"
    BY <1>26, <1>1 DEF UserStop, Goto
  <2> HIDE DEF q
  <2> QED
    BY <1>26, <1>1, <2>2, <2>3 DEF LoopOf
<1>27. LoopOf(t)'
  BY <1>5, <1>6, <1>7, <1>8, <1>9, <1>10, <1>11, <1>12, <1>13,
     <1>15, <1>16, <1>17, <1>18, <1>19, <1>20, <1>21, <1>22,
     <1>23, <1>24, <1>25, <1>26, <1>14
  DEF TaskStep, StartStep, Deployment, Rollback, Removal
<1>28. ASSUME NEW u \in Task \ {t} PROVE LoopOf(u)'
  BY StepStays, SMTT(30) DEF OthersStay, Loops, LoopOf
<1> QED
  BY <1>27, <1>28 DEF Loops

\* Names are added at the end of the list, with larger numbers, or leave it.
LEMMA StepOrders ==
  ASSUME TypeOK, Loops, Ordered, NEW t \in Task, TaskStep(t)
  PROVE  Ordered'
<1>1. CASE UNCHANGED list
  BY <1>1 DEF Ordered, Increasing, Facts!Increasing
<1>2. ASSUME NEW c, StopContainer(c) PROVE Ordered'
  BY <1>2, NameLeaves DEF StopContainer, Ordered, TypeOK
<1>3. ASSUME UndeployRaises(t) PROVE Ordered'
  BY <1>3, NameLeaves DEF UndeployRaises, Ordered, TypeOK
<1>4. ASSUME t \in Start, NameContainers(t) PROVE Ordered'
  BY <1>4, TaskAssumption, NamesAreNew DEF NameContainers, Ordered, TypeOK
<1>5. \/ UNCHANGED list \/ (\E c : StopContainer(c)) \/ (t \in Start /\ NameContainers(t))
      \/ UndeployRaises(t)
  <2>1. Deployment(t) => \/ UNCHANGED list \/ NameContainers(t) \/ UndeployRaises(t)
                        \/ \E c : StopContainer(c)
    BY DEF Deployment, CheckSpace, SetRunning, StartInstances, StartInstancesFails, AddContainer,
       Subscribe, RegistrationFails, Undeploy, Undeployed, LaunchApp, LaunchFails
  <2>2. Rollback(t) => UNCHANGED list \/ \E c : StopContainer(c)
    BY DEF Rollback, RollbackStop, RollbackForget, RolledBack
  <2>3. AppEnds(t) \/ AppFails(t) \/ UserStop(t) => UNCHANGED list
    BY DEF AppEnds, AppFails, UserStop
  <2>4. Removal(t) => UNCHANGED list \/ \E c : StopContainer(c)
    BY DEF Removal, SetStopped, RemoveFromDb, StopEach
  <2> QED
    BY <2>1, <2>2, <2>3, <2>4 DEF TaskStep, StartStep
<1> QED
  BY <1>1, <1>2, <1>4, <1>5, <1>3

\* A task that is over does not move; the switch only removes.
LEMMA StepFrom ==
  ASSUME TypeOK, NEW t \in Task, TaskStep(t)
  PROVE  /\ step[t] \notin {"done", "failed"}
         /\ t \in Switch => SetStopped(t) \/ RemoveFromDb(t) \/ StopEach(t) \/ UserStop(t)
<1>1. t \in Switch <=> t \notin Start
  BY Domains
<1>2. t \in Start => \/ Deployment(t) \/ Rollback(t) \/ AppEnds(t) \/ AppFails(t)
                     \/ SetStopped(t) \/ RemoveFromDb(t) \/ StopEach(t)
  BY <1>1 DEF TaskStep, StartStep, Removal
<1>3. t \in Switch => SetStopped(t) \/ RemoveFromDb(t) \/ StopEach(t) \/ UserStop(t)
  BY <1>1 DEF TaskStep, Removal
<1>4. Deployment(t) \/ Rollback(t) \/ AppEnds(t) \/ AppFails(t) =>
        step[t] \notin {"done", "failed"}
  BY DEF Deployment, Rollback, AppEnds, AppFails, CheckSpace, SetRunning, NameContainers,
         StartInstances, StartInstancesFails, AddContainer, Subscribe, RegistrationFails,
         Undeploy, UndeployRaises, Undeployed, LaunchApp, LaunchFails, RollbackStop,
         RollbackForget, RolledBack
<1>5. SetStopped(t) \/ RemoveFromDb(t) \/ StopEach(t) \/ UserStop(t) =>
        step[t] \in {"queued", "ended", "removing", "stopping"}
  BY DEF SetStopped, RemoveFromDb, StopEach, UserStop
<1> QED
  BY <1>1, <1>2, <1>3, <1>4, <1>5

-----------------------------------------------------------------------------
(* Names change hands in eight ways *)

\* Task t goes on, or raises, with the names it owns, ...
Passes(t) ==
  /\ UNCHANGED <<list, instances, sub>> /\ loose \subseteq loose'
  /\ Owns(t)' = Owns(t) /\ Placed(t) \subseteq Placed(t)'
  /\ Has(t)' \subseteq Has(t) /\ Forgets(t) \subseteq Forgets(t)'
  /\ HasNot(t)' \cap sub[app[t]] \subseteq HasNot(t) \cup loose'

\* ... stops one of its containers, ...
Frees(t, c) ==
  /\ c \in Owns(t) /\ c \in Forgets(t) \cup HasNot(t)
  /\ ToSet(list)' = ToSet(list) \ {c}
  /\ instances' \subseteq instances /\ instances \ {c} \subseteq instances'
  /\ loose \subseteq loose' /\ {c} \cap instances' \subseteq loose'
  /\ Owns(t)' \subseteq Owns(t) \ {c} /\ Owns(t) \ {c} \subseteq Owns(t)' \cup loose'
  /\ Placed(t) \ {c} \subseteq Placed(t)' \cup loose'
  /\ Has(t)' = {} /\ HasNot(t)' \subseteq HasNot(t) /\ Forgets(t) \subseteq Forgets(t)'
  /\ UNCHANGED sub

\* ... is given names that are not on the list, ...
IsGiven(t) ==
  /\ Owns(t) = {} /\ Owns(t)' \cap ToSet(list) = {} /\ Placed(t)' = Owns(t)'
  /\ ToSet(list)' = ToSet(list) \cup Owns(t)'
  /\ Has(t)' = {} /\ HasNot(t)' = Owns(t)' /\ Forgets(t) = {}
  /\ UNCHANGED <<instances, sub, loose>>

\* ... starts some or all of its containers, ...
Launches(t) ==
  /\ Owns(t)' = Owns(t) /\ UNCHANGED <<list, sub, loose>>
  /\ instances \subseteq instances' /\ instances' \subseteq instances \cup Owns(t)
  /\ Owns(t) \subseteq instances' \/ Placed(t)' = Owns(t)
  /\ Has(t)' = {} /\ HasNot(t)' \subseteq HasNot(t) /\ Forgets(t) = {}

\* ... subscribes one of them, ...
Subscribes(t, c) ==
  /\ c \in Owns(t) /\ sub' = [sub EXCEPT ![app[t]] = @ \cup {c}]
  /\ UNCHANGED <<list, instances, loose>>
  /\ Owns(t)' = Owns(t) /\ Placed(t) = {}
  /\ Has(t)' = Has(t) \cup {c} /\ HasNot(t) = {} /\ HasNot(t)' = {} /\ Forgets(t) = {}

\* ... unsubscribes one that it owns, or has given back in its rollback, ...
Unsubscribes(t, c) ==
  /\ sub' = [sub EXCEPT ![app[t]] = @ \ {c}]
  /\ UNCHANGED <<list, instances>> /\ loose \subseteq loose'
  /\ Owns(t)' = Owns(t) /\ Placed(t) = {} /\ Has(t) = {} /\ Has(t)' = {}
  /\ HasNot(t)' \subseteq HasNot(t) \cup {c} /\ Forgets(t) \ {c} \subseteq Forgets(t)'
  /\ c \in Owns(t) \/ (GivenAgain(t, c) => c \in loose')

\* ... leaves its containers to the switch, ...
Leaves(t) ==
  /\ t \in Start /\ step'[t] = "failed" /\ mine'[t] = mine[t]
  /\ Owns(t) = Has(t) /\ Has(t) = ToSet(mine[t]) /\ Placed(t) = {} /\ Forgets(t) = {}
  /\ Owns(t)' = {} /\ Has(t)' = {} /\ HasNot(t)' = {}
  /\ UNCHANGED <<list, instances, sub, loose>>

\* ... or is a switch and takes what its application has.
Takes(t) ==
  /\ Owns(t) = {} /\ Placed(t) = {} /\ Forgets(t) = {} /\ Has(t)' = {} /\ HasNot(t)' = {}
  /\ Owns(t)' \subseteq sub[app[t]] /\ loose \subseteq loose'
  /\ \A u \in Task \ {t} : Owns(t)' \cap (Owns(u) \cup Forgets(u)) \subseteq loose'
  /\ UNCHANGED <<list, instances, sub>>

Effect(t) ==
  \/ Passes(t) \/ (\E c \in File!Name : Frees(t, c)) \/ IsGiven(t) \/ Launches(t)
  \/ (\E c \in File!Name : Subscribes(t, c)) \/ (\E c \in File!Name : Unsubscribes(t, c))
  \/ Leaves(t) \/ Takes(t)

\* Every step does one of these.
LEMMA StepEffect ==
  ASSUME TypeOK, Finite, Loops, Ordered, NEW t \in Task, TaskStep(t)
  PROVE  Effect(t)
<1>1. /\ DOMAIN step = Task /\ DOMAIN mine = Task /\ DOMAIN todo = Task
      /\ t \in Switch <=> t \notin Start
      /\ mine[t] \in Seq(File!Name) /\ todo[t] \in Seq(File!Name)
  BY Domains
<1>2. LoopOf(t)
  BY DEF Loops
<1>3. todo[t] # <<>> => /\ Head(todo[t]) \in ToSet(todo[t]) /\ Head(todo[t]) \in File!Name
                        /\ ToSet(Tail(todo[t])) = ToSet(todo[t]) \ {Head(todo[t])}
  BY <1>1, <1>2, LoopAdvances DEF LoopOf
<1>4. ToSet(<<>>) = {}
  BY NothingLeft
<1>5. CheckSpace(t) => Passes(t)
  BY <1>1, <1>2, <1>4
  DEF Passes, Owns, Placed, Has, HasNot, Forgets, LoopOf, CheckSpace, Goto, database
<1>6. SetRunning(t) => Passes(t)
  BY <1>1, <1>2, <1>4
  DEF Passes, Owns, Placed, Has, HasNot, Forgets, LoopOf, SetRunning, Goto
<1>7. AddContainer(t) => Passes(t)
  BY <1>1, <1>2, <1>4
  DEF Passes, Owns, Placed, Has, HasNot, Forgets, LoopOf, AddContainer, Goto, BeginLoop, Advance
<1>8. Subscribe(t) /\ todo[t] = <<>> => Passes(t)
  BY <1>1, <1>2, <1>4
  DEF Passes, Owns, Placed, Has, HasNot, Forgets, LoopOf, Subscribe, Goto
<1>9. RegistrationFails(t) => Passes(t)
  BY <1>1, <1>2, <1>4
  DEF Passes, Owns, Placed, Has, HasNot, Forgets, LoopOf, RegistrationFails, Goto, BeginLoop,
      database
<1>10. Undeployed(t) => Passes(t)
  BY <1>1, <1>2, <1>4 DEF Passes, Owns, Placed, Has, HasNot, Forgets, LoopOf, Undeployed, Goto
<1>11. LaunchApp(t) => Passes(t)
  BY <1>1, <1>2, <1>4
  DEF Passes, Owns, Placed, Has, HasNot, Forgets, LoopOf, LaunchApp, Goto, database
<1>12. LaunchFails(t) => Passes(t)
  BY <1>1, <1>2, <1>4
  DEF Passes, Owns, Placed, Has, HasNot, Forgets, LoopOf, LaunchFails, Goto, BeginLoop, database
<1>13. AppEnds(t) => Passes(t)
  BY <1>1, <1>2, <1>4
  DEF Passes, Owns, Placed, Has, HasNot, Forgets, LoopOf, AppEnds, Goto, BeginLoop, database
<1>14. RollbackStop(t) /\ todo[t] = <<>> => Passes(t)
  BY <1>1, <1>4
  DEF Passes, Owns, Placed, Has, HasNot, Forgets, RollbackStop, Goto, BeginLoop, database
<1>15. RolledBack(t) => Passes(t)
  BY <1>1, <1>2, <1>4 DEF Passes, Owns, Placed, Has, HasNot, Forgets, LoopOf, RolledBack, Goto
<1>16. SetStopped(t) => Passes(t)
  BY <1>1, <1>2, <1>4 DEF Passes, Owns, Placed, Has, HasNot, Forgets, LoopOf, SetStopped, Goto
<1>17. RemoveFromDb(t) /\ todo[t] = <<>> => Passes(t)
  BY <1>1, <1>2, <1>4
  DEF Passes, Owns, Placed, Has, HasNot, Forgets, LoopOf, RemoveFromDb, Goto, BeginLoop, database
<1>18. StopEach(t) /\ todo[t] = <<>> => Passes(t)
  BY <1>1, <1>4
  DEF Passes, Owns, Placed, Has, HasNot, Forgets, StopEach, Goto, database
<1>19. ASSUME NEW c \in File!Name, StopContainer(c)
       PROVE  /\ ToSet(list)' = ToSet(list) \ {c}
              /\ instances' \subseteq instances /\ instances \ {c} \subseteq instances'
              /\ loose \subseteq loose' /\ {c} \cap instances' \subseteq loose'
  <2>1. ToSet(list') = ToSet(list) \ {c}
    BY <1>19, NameLeaves DEF StopContainer, TypeOK, Ordered
  <2> QED
    BY <1>19, <2>1 DEF StopContainer
<1>20. ASSUME todo[t] # <<>>, StopContainer(Head(todo[t])), Advance(t), UNCHANGED database,
              step[t] \in {"undeploying", "rollback", "stopping"}
       PROVE  Frees(t, Head(todo[t]))
  <2>1. step'[t] = step[t] /\ todo'[t] = Tail(todo[t]) /\ mine'[t] = mine[t] /\ UNCHANGED sub
    BY <1>1, <1>20 DEF Advance, database
  <2>2. ToSet(todo[t]) \subseteq ToSet(mine[t])
    BY <1>2 DEF LoopOf
  <2>3. Head(todo[t]) \in Owns(t) /\ Head(todo[t]) \in Forgets(t) \cup HasNot(t)
    BY <1>3, <1>20, <2>2 DEF Owns, HasNot, Forgets
  <2>4. /\ Owns(t)' \subseteq Owns(t) \ {Head(todo[t])}
        /\ Owns(t) \ {Head(todo[t])} \subseteq Owns(t)'
        /\ Placed(t) \ {Head(todo[t])} \subseteq Placed(t)'
    BY <1>3, <1>20, <2>1 DEF Owns, Placed
  <2>5. Has(t)' = {} /\ HasNot(t)' \subseteq HasNot(t) /\ Forgets(t) \subseteq Forgets(t)'
    BY <1>3, <1>20, <2>1 DEF Has, HasNot, Forgets
  <2>6. Head(todo[t]) \in File!Name
    BY <1>3, <1>20
  <2> QED
    BY <1>19, <1>20, <2>1, <2>3, <2>4, <2>5, <2>6 DEF Frees
<1>21. Undeploy(t) => Frees(t, Head(todo[t])) /\ todo[t] # <<>>
  BY <1>20 DEF Undeploy
<1>22. RollbackStop(t) /\ todo[t] # <<>> => Frees(t, Head(todo[t]))
  BY <1>20 DEF RollbackStop
<1>23. StopEach(t) /\ todo[t] # <<>> => Frees(t, Head(todo[t]))
  BY <1>20 DEF StopEach
<1>24. ASSUME UndeployRaises(t) PROVE Frees(t, Head(todo[t])) /\ todo[t] # <<>>
  <2> DEFINE c == Head(todo[t])
  <2>1. /\ step[t] = "undeploying" /\ todo[t] # <<>> /\ step'[t] = "failed" /\ UNCHANGED sub
        /\ list' = RemoveFirst(list, c)
    BY <1>1, <1>24 DEF UndeployRaises, Goto
  <2>2. PICK stopped \in SUBSET {c} :
          instances' = instances \ stopped /\ loose' = loose \cup (ToSet(todo[t]) \ stopped)
    BY <1>24 DEF UndeployRaises
  <2>3. ToSet(list)' = ToSet(list) \ {c}
    BY <2>1, NameLeaves DEF TypeOK, Ordered
  <2>4. c \in ToSet(todo[t])
    BY <1>3, <2>1
  <2> HIDE DEF c
  <2>5. Owns(t) = ToSet(todo[t]) /\ HasNot(t) = ToSet(todo[t]) /\ Placed(t) = ToSet(todo[t])
        /\ Forgets(t) = {} /\ Owns(t)' = {} /\ HasNot(t)' = {} /\ Has(t)' = {}
    BY <2>1 DEF Owns, Placed, Has, HasNot, Forgets
  <2>6. /\ instances' \subseteq instances /\ instances \ {c} \subseteq instances'
        /\ loose \subseteq loose' /\ {c} \cap instances' \subseteq loose'
        /\ ToSet(todo[t]) \ {c} \subseteq loose'
    BY <2>2, <2>4
  <2>7. Frees(t, c)
    BY <2>1, <2>3, <2>4, <2>5, <2>6 DEF Frees
  <2> QED
    BY <2>1, <2>7 DEF c
<1>25. ASSUME t \in Start, NameContainers(t) PROVE IsGiven(t)
  <2> DEFINE new == File!ContainerList(need[t], File!FirstIndex(list))
  <2>1. /\ ToSet(list) \cap ToSet(new) = {} /\ Increasing(list \o new)
        /\ ToSet(list \o new) = ToSet(list) \cup ToSet(new)
    BY <1>25, TaskAssumption, NamesAreNew DEF TypeOK, Ordered
  <2>2. /\ mine'[t] = new /\ step'[t] = "starting" /\ list' = list \o new
        /\ step[t] = "naming" /\ UNCHANGED <<instances, sub, loose>>
    BY <1>25, <1>1 DEF NameContainers, Goto, database
  <2> HIDE DEF new
  <2>3. /\ Owns(t) = {} /\ Owns(t)' = ToSet(new) /\ Placed(t)' = ToSet(new)
        /\ Has(t)' = {} /\ HasNot(t)' = ToSet(new) /\ Forgets(t) = {}
    BY <2>2 DEF Owns, Placed, Has, HasNot, Forgets
  <2> QED
    BY <2>1, <2>2, <2>3 DEF IsGiven, Increasing
<1>26. StartInstances(t) => Launches(t)
  BY <1>1 DEF Launches, Owns, Has, HasNot, Forgets, StartInstances, BeginLoop, Goto, database
<1>27. StartInstancesFails(t) => Launches(t)
  BY <1>1
  DEF Launches, Owns, Placed, Has, HasNot, Forgets, StartInstancesFails, BeginLoop, Goto, database
<1>28. ASSUME Subscribe(t), todo[t] # <<>> PROVE Subscribes(t, Head(todo[t]))
  <2>1. /\ step[t] = "subscribing" /\ sub' = [sub EXCEPT ![app[t]] = @ \cup {Head(todo[t])}]
        /\ step'[t] = "subscribing" /\ mine'[t] = mine[t] /\ todo'[t] = Tail(todo[t])
        /\ UNCHANGED <<list, instances, loose>>
    BY <1>1, <1>28 DEF Subscribe, Advance
  <2>2. ToSet(todo[t]) \subseteq ToSet(mine[t])
    BY <1>2 DEF LoopOf
  <2>3. Head(todo[t]) \in Owns(t) /\ Owns(t)' = Owns(t) /\ Placed(t) = {}
    BY <1>3, <1>28, <2>1, <2>2 DEF Owns, Placed
  <2>4. Has(t)' = Has(t) \cup {Head(todo[t])}
    BY <1>3, <1>28, <2>1, <2>2 DEF Has
  <2>5. HasNot(t) = {} /\ HasNot(t)' = {} /\ Forgets(t) = {}
    BY <2>1 DEF HasNot, Forgets
  <2> QED
    BY <2>1, <2>3, <2>4, <2>5 DEF Subscribes
<1>29. ASSUME RemoveFromDb(t), todo[t] # <<>> PROVE Unsubscribes(t, Head(todo[t]))
  <2>1. /\ step[t] = "removing" /\ sub' = [sub EXCEPT ![app[t]] = @ \ {Head(todo[t])}]
        /\ step'[t] = "removing" /\ mine'[t] = mine[t] /\ todo'[t] = Tail(todo[t])
        /\ UNCHANGED <<list, instances, loose>>
    BY <1>1, <1>29 DEF RemoveFromDb, Forget, Advance
  <2>2. ToSet(todo[t]) \subseteq ToSet(mine[t])
    BY <1>2 DEF LoopOf
  <2>3. Head(todo[t]) \in Owns(t) /\ Owns(t)' = Owns(t) /\ Placed(t) = {}
    BY <1>3, <1>29, <2>1, <2>2 DEF Owns, Placed
  <2>4. HasNot(t)' \subseteq HasNot(t) \cup {Head(todo[t])}
    BY <1>3, <1>29, <2>1 DEF HasNot
  <2>5. Has(t) = {} /\ Has(t)' = {} /\ Forgets(t) = {}
    BY <2>1 DEF Has, Forgets
  <2> QED
    BY <2>1, <2>3, <2>4, <2>5 DEF Unsubscribes
<1>30. ASSUME RollbackForget(t) PROVE Unsubscribes(t, Head(todo[t])) /\ todo[t] # <<>>
  <2>1. /\ step[t] = "forgetting" /\ sub' = [sub EXCEPT ![app[t]] = @ \ {Head(todo[t])}]
        /\ step'[t] = "forgetting" /\ mine'[t] = mine[t] /\ todo'[t] = Tail(todo[t])
        /\ UNCHANGED <<list, instances>> /\ todo[t] # <<>>
    BY <1>1, <1>30 DEF RollbackForget, Forget, Advance
  <2>2. loose \subseteq loose' /\ (GivenAgain(t, Head(todo[t])) => Head(todo[t]) \in loose')
    BY <1>30 DEF RollbackForget
  <2>3. Owns(t) = {} /\ Owns(t)' = {} /\ Placed(t) = {} /\ Has(t) = {} /\ Has(t)' = {}
        /\ HasNot(t)' = {}
    BY <2>1 DEF Owns, Placed, Has, HasNot
  <2>4. Forgets(t) \ {Head(todo[t])} \subseteq Forgets(t)'
    BY <1>3, <2>1 DEF Forgets
  <2> QED
    BY <2>1, <2>2, <2>3, <2>4 DEF Unsubscribes
<1>31. ASSUME t \in Start, AppFails(t) PROVE Leaves(t)
  BY <1>1, <1>31 DEF Leaves, Owns, Placed, Has, HasNot, Forgets, AppFails, Goto, database
<1>32. ASSUME t \in Switch, UserStop(t) PROVE Takes(t)
  <2>1. ToSet(mine'[t]) \subseteq Containers(app[t])
    <3>1. Containers(app[t]) \subseteq File!Name /\ IsFiniteSet(Containers(app[t]))
      BY Domains, FS_Subset DEF TypeOK, Finite, Containers
    <3>2. ToSet(SetToSeq(Containers(app[t]))) \subseteq Containers(app[t])
      BY <3>1, SetAsList
    <3>3. mine'[t] = SetToSeq(Containers(app[t]))
      BY <1>1, <1>32 DEF UserStop
    <3> QED
      BY <3>2, <3>3
  <2>2. /\ Owns(t) = {} /\ Placed(t) = {} /\ Forgets(t) = {} /\ Has(t)' = {} /\ HasNot(t)' = {}
        /\ Owns(t)' = ToSet(mine'[t])
    BY <1>1, <1>32 DEF UserStop, Owns, Placed, Has, HasNot, Forgets, Goto
  <2>3. ASSUME NEW u \in Task \ {t} PROVE Owns(t)' \cap (Owns(u) \cup Forgets(u)) \subseteq loose'
    <3>1. Owns(u) \cup Forgets(u) \subseteq ToSet(mine[u])
      BY DEF Owns, Forgets, Loops, LoopOf
    <3>2. AtRest(u) => Owns(u) \cup Forgets(u) = {}
      BY DEF AtRest, Owns, Forgets
    <3>3. \A c \in Containers(app[t]) : ~AtRest(u) /\ c \in ToSet(mine[u]) => c \in loose'
      BY <1>32 DEF UserStop
    <3> QED
      BY <2>1, <2>2, <3>1, <3>2, <3>3
  <2> QED
    BY <1>32, <2>1, <2>2, <2>3 DEF Takes, UserStop, Containers, database
<1>33. Deployment(t) /\ t \in Start => Effect(t)
  BY <1>3, <1>5, <1>6, <1>7, <1>8, <1>9, <1>10, <1>11, <1>12, <1>21, <1>24, <1>25, <1>26, <1>27,
     <1>28, Zenon DEF Deployment, Effect
<1>34. Rollback(t) \/ AppEnds(t) \/ (AppFails(t) /\ t \in Start) => Effect(t)
  BY <1>3, <1>13, <1>14, <1>15, <1>22, <1>30, <1>31, Zenon DEF Rollback, Effect
<1>35. Removal(t) \/ (t \in Switch /\ UserStop(t)) => Effect(t)
  BY <1>3, <1>16, <1>17, <1>18, <1>23, <1>29, <1>32, Zenon DEF Removal, Effect
<1> QED
  BY <1>33, <1>34, <1>35 DEF TaskStep, StartStep

-----------------------------------------------------------------------------
(* The invariant is kept *)

LEMMA Within ==
  ASSUME Loops, NEW t \in Task
  PROVE  /\ Placed(t) \subseteq Owns(t) /\ Has(t) \subseteq Owns(t) /\ HasNot(t) \subseteq Owns(t)
         /\ Owns(t) \subseteq ToSet(mine[t])
BY DEF Loops, LoopOf, Placed, Owns, Has, HasNot

\* Nothing that was loose is put right again.
LEMMA LooseStays ==
  ASSUME NEW t \in Task, Effect(t)
  PROVE  loose \subseteq loose'
BY DEF Effect, Passes, Frees, IsGiven, Launches, Subscribes, Unsubscribes, Leaves, Takes

\* A rollback carries on until its containers are unsubscribed.
LEMMA ForgetStays ==
  ASSUME TypeOK, NEW t \in Task, OthersStay(t), Effect(t), NEW a \in App, NEW c \in sub'[a],
         ToForget(a, c)
  PROVE  ToForget(a, c)'
<1>1. PICK s \in Start : app[s] = a /\ c \in Forgets(s)
  BY DEF ToForget
<1>2. CASE s # t
  BY <1>1, <1>2 DEF OthersStay, ToForget, Task
<1>3. CASE s = t
  <2>1. CASE \E d \in File!Name : Unsubscribes(t, d)
    <3>1. PICK d \in File!Name : Unsubscribes(t, d)
      BY <2>1
    <3>2. c # d
      BY <1>1, <1>3, <3>1, Domains DEF Unsubscribes
    <3>3. c \in Forgets(t)'
      BY <1>1, <1>3, <3>1, <3>2 DEF Unsubscribes
    <3> QED
      BY <1>1, <1>3, <3>3 DEF ToForget
  <2>2. Forgets(t) \subseteq Forgets(t)' \/ \E d \in File!Name : Unsubscribes(t, d)
    BY DEF Effect, Passes, Frees, IsGiven, Launches, Subscribes, Leaves, Takes
  <2> QED
    BY <1>1, <1>3, <2>1, <2>2 DEF ToForget
<1> QED
  BY <1>2, <1>3

LEMMA StepApart ==
  ASSUME IInv, NEW t \in Task, OthersStay(t), Effect(t)
  PROVE  Apart'
<1>1. loose \subseteq loose'
  BY LooseStays
<1>2. ASSUME NEW u \in Task, u # t PROVE Owns(t)' \cap Owns(u)' \subseteq loose'
  <2>1. /\ Owns(u)' = Owns(u) /\ Owns(u) \subseteq ToSet(list) \cup loose
        /\ Owns(t) \cap Owns(u) \subseteq loose
    BY <1>2 DEF OthersStay, IInv, Listed, Apart
  <2>2. CASE Owns(t)' \subseteq Owns(t)
    BY <1>1, <2>1, <2>2
  <2>3. CASE IsGiven(t)
    BY <1>1, <2>1, <2>3 DEF IsGiven
  <2>4. CASE Takes(t)
    BY <1>2, <2>1, <2>4 DEF Takes
  <2> QED
    BY <2>2, <2>3, <2>4 DEF Effect, Passes, Frees, Launches, Subscribes, Unsubscribes, Leaves
<1>3. ASSUME NEW u \in Task, NEW v \in Task, u # v, u # t, v # t
      PROVE  Owns(u)' \cap Owns(v)' \subseteq loose'
  BY <1>1, <1>3 DEF OthersStay, IInv, Apart
<1> QED
  BY <1>2, <1>3 DEF Apart

LEMMA StepListed ==
  ASSUME IInv, NEW t \in Task, OthersStay(t), Effect(t)
  PROVE  Listed'
<1>1. loose \subseteq loose'
  BY LooseStays
<1>2. /\ \A u \in Task : u # t => Owns(u)' = Owns(u)
      /\ \A u \in Task : Owns(u) \subseteq ToSet(list) \cup loose
      /\ instances \subseteq ToSet(list) \cup loose
      /\ \A u \in Task : u # t => Owns(u) \cap Owns(t) \subseteq loose
  BY DEF OthersStay, IInv, Listed, Apart
<1>3. \A a \in App : \A c \in sub'[a] : ToForget(a, c) => ToForget(a, c)'
  BY ForgetStays DEF IInv
<1>4. ASSUME NEW a \in App, NEW c \in sub[a] \ loose PROVE c \in ToSet(list) \/ ToForget(a, c)
  BY <1>4 DEF IInv, Listed
<1>5. app[t] \in App /\ DOMAIN sub = App
  BY Domains DEF IInv
<1>6. CASE Passes(t)
  BY <1>1, <1>2, <1>3, <1>4, <1>6 DEF Passes, Listed
<1>7. ASSUME NEW d \in File!Name, Frees(t, d) PROVE Listed'
  <2>1. \A u \in Task : Owns(u)' \subseteq ToSet(list)' \cup loose'
    BY <1>1, <1>2, <1>7 DEF Frees
  <2>2. instances' \subseteq ToSet(list)' \cup loose'
    BY <1>1, <1>2, <1>7 DEF Frees
  <2>3. ASSUME NEW a \in App, NEW c \in sub'[a], c \notin loose'
        PROVE  c \in ToSet(list)' \/ ToForget(a, c)'
    <3>1. c \in sub[a] \ loose
      BY <1>1, <1>7, <2>3 DEF Frees
    <3>2. CASE c # d
      BY <1>3, <1>4, <1>7, <2>3, <3>1, <3>2 DEF Frees
    <3>3. CASE c = d
      <4>1. c \in Owns(t) /\ c \in Forgets(t) \cup HasNot(t)
        BY <1>7, <3>3 DEF Frees
      <4>2. a # app[t] => ToForget(a, c)
        BY <3>1, <4>1 DEF IInv, Subscribed
      <4>3. c \in HasNot(t) /\ a = app[t] => ToForget(a, c)
        BY <3>1 DEF IInv, Subscribed
      <4>4. c \in Forgets(t) /\ a = app[t] => ToForget(a, c)
        BY DEF Forgets, ToForget, IInv, Loops, LoopOf, Task
      <4> QED
        BY <1>3, <2>3, <4>1, <4>2, <4>3, <4>4
    <3> QED
      BY <3>2, <3>3
  <2> QED
    BY <2>1, <2>2, <2>3 DEF Listed
<1>8. CASE IsGiven(t)
  <2>1. \A u \in Task : Owns(u)' \subseteq ToSet(list)' \cup loose'
    BY <1>1, <1>2, <1>8 DEF IsGiven
  <2>2. instances' \subseteq ToSet(list)' \cup loose'
    BY <1>1, <1>2, <1>8 DEF IsGiven
  <2>3. \A a \in App : \A c \in sub'[a] \ loose' : c \in ToSet(list)' \/ ToForget(a, c)'
    BY <1>3, <1>4, <1>8 DEF IsGiven
  <2> QED
    BY <2>1, <2>2, <2>3 DEF Listed
<1>9. CASE Launches(t)
  BY <1>1, <1>2, <1>3, <1>4, <1>9 DEF Launches, Listed
<1>10. ASSUME NEW d \in File!Name, Subscribes(t, d) PROVE Listed'
  <2>1. ASSUME NEW a \in App, NEW c \in sub'[a] \ loose'
        PROVE  c \in ToSet(list)' \/ ToForget(a, c)'
    <3>1. c \in sub[a] \/ c = d
      BY <1>5, <1>10, <2>1 DEF Subscribes
    <3>2. c = d => c \in ToSet(list)'
      BY <1>2, <1>10, <2>1 DEF Subscribes
    <3>3. c \notin loose
      BY <1>1, <2>1
    <3> QED
      BY <1>3, <1>4, <1>10, <2>1, <3>1, <3>2, <3>3 DEF Subscribes
  <2> QED
    BY <1>1, <1>2, <1>10, <2>1 DEF Subscribes, Listed
<1>11. ASSUME NEW d \in File!Name, Unsubscribes(t, d) PROVE Listed'
  <2>1. \A a \in App : sub'[a] \subseteq sub[a]
    BY <1>5, <1>11 DEF Unsubscribes
  <2>2. \A a \in App : \A c \in sub'[a] \ loose' : c \in ToSet(list)' \/ ToForget(a, c)'
    BY <1>1, <1>3, <1>4, <1>11, <2>1 DEF Unsubscribes
  <2> QED
    BY <1>1, <1>2, <1>11, <2>2 DEF Unsubscribes, Listed
<1>12. CASE Leaves(t)
  BY <1>1, <1>2, <1>3, <1>4, <1>12 DEF Leaves, Listed
<1>13. CASE Takes(t)
  <2>1. ASSUME NEW c \in Owns(t)', c \notin loose' PROVE c \in ToSet(list)
    <3>1. ~ToForget(app[t], c)
      <4>1. ASSUME NEW s \in Start, c \in Forgets(s) PROVE FALSE
        <5>1. s # t
          BY <1>13, <4>1 DEF Takes
        <5> QED
          BY <1>13, <2>1, <4>1, <5>1 DEF Takes, Task
      <4> QED
        BY <4>1 DEF ToForget
    <3> QED
      BY <1>1, <1>4, <1>5, <1>13, <2>1, <3>1 DEF Takes
  <2> QED
    BY <1>1, <1>2, <1>3, <1>4, <1>13, <2>1 DEF Takes, Listed
<1> QED
  BY <1>6, <1>7, <1>8, <1>9, <1>10, <1>11, <1>12, <1>13 DEF Effect

LEMMA StepNoneMissing ==
  ASSUME IInv, NEW t \in Task, OthersStay(t), Effect(t)
  PROVE  NoneMissing'
<1>1. loose \subseteq loose'
  BY LooseStays
<1>2. /\ \A u \in Task : u # t => Placed(u)' = Placed(u)
      /\ \A c \in ToSet(list) \ loose : c \in instances \/ \E u \in Task : c \in Placed(u)
  BY DEF OthersStay, IInv, NoneMissing
<1>3. Placed(t) \subseteq Owns(t)
  BY Within DEF IInv
<1>4. CASE Passes(t)
  BY <1>1, <1>2, <1>4 DEF Passes, NoneMissing
<1>5. ASSUME NEW c \in File!Name, Frees(t, c) PROVE NoneMissing'
  BY <1>1, <1>2, <1>5 DEF Frees, NoneMissing
<1>6. CASE IsGiven(t)
  BY <1>1, <1>2, <1>3, <1>6 DEF IsGiven, NoneMissing
<1>7. CASE Launches(t)
  BY <1>1, <1>2, <1>3, <1>7 DEF Launches, NoneMissing
<1>8. CASE UNCHANGED <<list, instances>> /\ Placed(t) = {}
  BY <1>1, <1>2, <1>8 DEF NoneMissing
<1> QED
  BY <1>4, <1>5, <1>6, <1>7, <1>8 DEF Effect, Subscribes, Unsubscribes, Leaves, Takes

LEMMA StepNoneStray ==
  ASSUME IInv, NEW t \in Task, TaskStep(t), OthersStay(t), Effect(t)
  PROVE  NoneStray'
<1>1. loose \subseteq loose' /\ step[t] # "failed"
  BY LooseStays, StepFrom DEF IInv
<1>2. ASSUME NEW u \in Start, NEW c \in instances \ loose', Left(u, c)
      PROVE  Left(u, c)' \/ c \in Owns(t)'
  <2>1. /\ u # t /\ u \in Task /\ app[u] \in App /\ app[t] \in App
        /\ step'[u] = "failed" /\ mine'[u] = mine[u]
        /\ c \in sub[app[u]] /\ c \in ToSet(mine[u]) /\ DOMAIN sub = App
    BY <1>1, <1>2, Domains DEF Left, OthersStay, IInv, Task
  <2>2. CASE c \in sub'[app[u]]
    BY <2>1, <2>2 DEF Left
  <2>3. CASE c \notin sub'[app[u]]
    <3>1. PICK d \in File!Name : Unsubscribes(t, d)
      BY <2>1, <2>3 DEF Effect, Passes, Frees, IsGiven, Launches, Subscribes, Leaves, Takes
    <3>2. d = c /\ app[t] = app[u]
      BY <2>1, <2>3, <3>1 DEF Unsubscribes
    <3>3. c \in ToSet(list)
      BY <1>1, <1>2 DEF IInv, Listed
    <3>4. GivenAgain(t, c)
      BY <1>2, <2>1, <3>2, <3>3 DEF GivenAgain
    <3> QED
      BY <1>2, <3>1, <3>2, <3>4 DEF Unsubscribes
  <2> QED
    BY <2>2, <2>3
<1>3. ASSUME NEW c \in instances \ loose', c \notin Owns(t)
      PROVE  (\E u \in Task : c \in Owns(u)') \/ \E u \in Start : Left(u, c)'
  <2>1. CASE \E u \in Task : c \in Owns(u)
    BY <1>3, <2>1 DEF OthersStay
  <2>2. CASE \E u \in Start : Left(u, c)
    BY <1>2, <1>3, <2>2
  <2> QED
    BY <1>1, <1>3, <2>1, <2>2 DEF IInv, NoneStray
<1>4. ASSUME NEW c \in instances' \ loose', c \in Owns(t), c \notin Owns(t)'
      PROVE  \E u \in Start : Left(u, c)'
  <2>1. Leaves(t)
    BY <1>4 DEF Effect, Passes, Frees, IsGiven, Launches, Subscribes, Unsubscribes, Takes
  <2>2. c \in sub[app[t]]
    BY <1>1, <1>4, <2>1 DEF Leaves, IInv, Subscribed
  <2> QED
    BY <1>4, <2>1, <2>2 DEF Leaves, Left
<1>5. instances' \subseteq instances \cup Owns(t)
  BY DEF Effect, Passes, Frees, IsGiven, Launches, Subscribes, Unsubscribes, Leaves, Takes
<1> QED
  BY <1>3, <1>4, <1>5 DEF NoneStray

LEMMA StepSubscribed ==
  ASSUME IInv, NEW t \in Task, OthersStay(t), Effect(t)
  PROVE  Subscribed'
<1>1. loose \subseteq loose'
  BY LooseStays
<1>2. /\ app[t] \in App /\ DOMAIN sub = App
      /\ \A u \in Task : app[u] \in App /\ HasNot(u) \subseteq Owns(u) /\ Has(u) \subseteq Owns(u)
                         /\ Owns(u) \subseteq ToSet(mine[u])
      /\ Start \subseteq Task
  BY Domains, Within DEF IInv, Task
<1>3. \A u \in Task : u # t => /\ Owns(u)' = Owns(u) /\ Has(u)' = Has(u) /\ HasNot(u)' = HasNot(u)
                               /\ Owns(u) \cap Owns(t) \subseteq loose
  BY DEF OthersStay, IInv, Apart
<1>4. \A a \in App : \A c \in sub'[a] : ToForget(a, c) => ToForget(a, c)'
  BY ForgetStays DEF IInv
<1>5. ASSUME NEW a \in App, NEW c \in sub'[a], c \notin sub[a]
      PROVE  a = app[t] /\ Subscribes(t, c) /\ c \in Owns(t)
  <2>1. PICK d \in File!Name : Subscribes(t, d)
    BY <1>2, <1>5 DEF Effect, Passes, Frees, IsGiven, Launches, Unsubscribes, Leaves, Takes
  <2>2. d = c /\ a = app[t]
    BY <1>2, <1>5, <2>1 DEF Subscribes
  <2> QED
    BY <2>1, <2>2 DEF Subscribes
<1>6. ASSUME NEW s \in Start, NEW c \in Has(s)', c \notin loose' PROVE c \in sub'[app[s]]
  <2>1. CASE c \in sub[app[s]]
    <3> SUFFICES ASSUME c \notin sub'[app[s]] PROVE FALSE
      OBVIOUS
    <3>1. PICK d \in File!Name : Unsubscribes(t, d)
      BY <1>2, <2>1 DEF Effect, Passes, Frees, IsGiven, Launches, Subscribes, Leaves, Takes
    <3>2. d = c /\ app[t] = app[s]
      BY <1>2, <2>1, <3>1 DEF Unsubscribes
    <3>3. s # t
      BY <1>6, <3>1 DEF Unsubscribes
    <3>4. c \in Owns(s) /\ c \in ToSet(mine[s])
      BY <1>2, <1>3, <1>6, <3>3
    <3>5. c \notin Owns(t)
      BY <1>1, <1>2, <1>3, <1>6, <3>3, <3>4
    <3>6. c \in ToSet(list)
      BY <1>1, <1>2, <1>6, <3>4 DEF IInv, Listed
    <3>7. GivenAgain(t, c)
      BY <3>2, <3>3, <3>4, <3>6 DEF GivenAgain
    <3> QED
      BY <1>6, <3>1, <3>2, <3>5, <3>7 DEF Unsubscribes
  <2>2. CASE c \notin sub[app[s]]
    <3>1. c \notin Has(s)
      BY <1>1, <1>6, <2>2 DEF IInv, Subscribed
    <3>2. s = t
      BY <1>2, <1>3, <1>6, <3>1
    <3>3. PICK d \in File!Name : Subscribes(t, d)
      BY <1>6, <3>1, <3>2
      DEF Effect, Passes, Frees, IsGiven, Launches, Unsubscribes, Leaves, Takes
    <3>4. c = d
      BY <1>6, <3>1, <3>2, <3>3 DEF Subscribes
    <3> QED
      BY <1>2, <3>2, <3>3, <3>4 DEF Subscribes
  <2> QED
    BY <2>1, <2>2
<1>7. ASSUME NEW u \in Task, NEW c \in HasNot(u)' \cap sub'[app[u]], c \notin loose'
      PROVE  ToForget(app[u], c)'
  <2>1. CASE c \notin sub[app[u]]
    <3>1. app[u] = app[t] /\ Subscribes(t, c) /\ c \in Owns(t)
      BY <1>2, <1>5, <1>7, <2>1
    <3>2. u # t
      BY <1>7, <3>1 DEF Subscribes
    <3> QED
      BY <1>1, <1>2, <1>3, <1>7, <3>1, <3>2
  <2>2. CASE c \in sub[app[u]] /\ c \in HasNot(u)
    <3>1. ToForget(app[u], c)
      BY <1>1, <1>7, <2>2 DEF IInv, Subscribed
    <3> QED
      BY <1>2, <1>4, <1>7, <3>1
  <2>3. CASE c \in sub[app[u]] /\ c \notin HasNot(u)
    <3>1. u = t
      BY <1>3, <1>7, <2>3
    <3>2. ~Unsubscribes(t, c)
      BY <1>2, <1>7, <3>1 DEF Unsubscribes
    <3>3. IsGiven(t)
      BY <1>7, <2>3, <3>1, <3>2
      DEF Effect, Passes, Frees, Launches, Subscribes, Unsubscribes, Leaves, Takes
    <3>4. c \notin ToSet(list)
      BY <1>7, <3>1, <3>3 DEF IsGiven
    <3>5. ToForget(app[u], c)
      BY <1>1, <1>2, <1>7, <2>3, <3>4 DEF IInv, Listed
    <3> QED
      BY <1>2, <1>4, <1>7, <3>5
  <2> QED
    BY <2>1, <2>2, <2>3
<1>8. ASSUME NEW u \in Task, NEW a \in App, NEW c \in Owns(u)' \cap sub'[a], c \notin loose',
             a # app[u]
      PROVE  ToForget(a, c)'
  <2>1. CASE c \notin sub[a]
    <3>1. a = app[t] /\ c \in Owns(t)
      BY <1>5, <1>8, <2>1
    <3>2. u # t
      BY <1>8, <3>1
    <3> QED
      BY <1>1, <1>3, <1>8, <3>1, <3>2
  <2>2. CASE c \in sub[a] /\ c \in Owns(u)
    <3>1. ToForget(a, c)
      BY <1>1, <1>8, <2>2 DEF IInv, Subscribed
    <3> QED
      BY <1>4, <1>8, <3>1
  <2>3. CASE c \in sub[a] /\ c \notin Owns(u)
    <3>1. u = t
      BY <1>3, <1>8, <2>3
    <3>2. CASE IsGiven(t)
      <4>1. c \notin ToSet(list)
        BY <1>8, <3>1, <3>2 DEF IsGiven
      <4>2. ToForget(a, c)
        BY <1>1, <1>8, <2>3, <4>1 DEF IInv, Listed
      <4> QED
        BY <1>4, <1>8, <4>2
    <3>3. CASE Takes(t)
      <4>1. c \in sub[app[t]]
        BY <1>8, <3>1, <3>3 DEF Takes
      <4>2. ~ToForget(app[t], c)
        <5>1. ASSUME NEW s \in Start, c \in Forgets(s) PROVE FALSE
          <6>1. s # t
            BY <3>3, <5>1 DEF Takes
          <6> QED
            BY <1>2, <1>8, <3>1, <3>3, <5>1, <6>1 DEF Takes
        <5> QED
          BY <5>1 DEF ToForget
      <4>3. ToForget(a, c)
        BY <1>1, <1>2, <1>8, <2>3, <3>1, <4>1, <4>2 DEF IInv, Subscribed
      <4> QED
        BY <1>4, <1>8, <4>3
    <3> QED
      BY <1>8, <2>3, <3>1, <3>2, <3>3
      DEF Effect, Passes, Frees, Launches, Subscribes, Unsubscribes, Leaves
  <2> QED
    BY <2>1, <2>2, <2>3
<1>9. ASSUME NEW a \in App, NEW b \in App, a # b, NEW c \in sub'[a] \cap sub'[b], c \notin loose',
             c \in sub[a]
      PROVE  ToForget(a, c)' \/ ToForget(b, c)'
  <2>1. CASE c \in sub[b]
    <3>1. ToForget(a, c) \/ ToForget(b, c)
      BY <1>1, <1>9, <2>1 DEF IInv, Subscribed
    <3> QED
      BY <1>4, <1>9, <3>1
  <2>2. CASE c \notin sub[b]
    <3>1. b = app[t] /\ c \in Owns(t)
      BY <1>5, <1>9, <2>2
    <3>2. ToForget(a, c)
      BY <1>1, <1>9, <3>1 DEF IInv, Subscribed
    <3> QED
      BY <1>4, <1>9, <3>2
  <2> QED
    BY <2>1, <2>2
<1>10. ASSUME NEW a \in App, NEW b \in App, a # b, NEW c \in sub'[a] \cap sub'[b], c \notin loose'
       PROVE  ToForget(a, c)' \/ ToForget(b, c)'
  <2>1. c \in sub[a] \/ c \in sub[b]
    BY <1>5, <1>10
  <2> QED
    BY <1>9, <1>10, <2>1
<1> QED
  BY <1>6, <1>7, <1>8, <1>10 DEF Subscribed

\* A start that goes on keeps its application running; one that comes to an end has it
\* stopped, or leaves its containers.
LEMMA StartRuns ==
  ASSUME TypeOK, NEW t \in Start, TaskStep(t), state'[app[t]] = "running"
  PROVE  \/ OnItsWay(t)'
         \/ state' = state /\ ~OnItsWay(t)
         \/ state' = state /\ AppFails(t)
<1>1. DOMAIN step = Task /\ DOMAIN state = App /\ t \in Task /\ t \notin Switch /\ app[t] \in App
  BY Domains DEF Task
<1>2. ~UndeployRaises(t) /\ ~Undeployed(t) /\ ~RolledBack(t) /\ ~SetStopped(t)
  BY <1>1 DEF UndeployRaises, Undeployed, RolledBack, SetStopped, SetState
<1>3. SetRunning(t) \/ NameContainers(t) \/ StartInstances(t) \/ StartInstancesFails(t)
        => OnItsWay(t)'
  BY <1>1 DEF SetRunning, NameContainers, StartInstances, StartInstancesFails, BeginLoop, Goto,
     OnItsWay
<1>4. AddContainer(t) \/ Subscribe(t) \/ RegistrationFails(t) \/ Undeploy(t) => OnItsWay(t)'
  BY <1>1 DEF AddContainer, Subscribe, RegistrationFails, Undeploy, BeginLoop, Goto, Advance,
     OnItsWay
<1>5. LaunchApp(t) \/ LaunchFails(t) \/ AppEnds(t) => OnItsWay(t)'
  BY <1>1 DEF LaunchApp, LaunchFails, AppEnds, BeginLoop, Goto, OnItsWay
<1>6. RollbackStop(t) \/ RollbackForget(t) => OnItsWay(t)'
  BY <1>1 DEF RollbackStop, RollbackForget, BeginLoop, Goto, Advance, OnItsWay
<1>7. CheckSpace(t) \/ AppFails(t) => state' = state /\ (~OnItsWay(t) \/ AppFails(t))
  BY DEF CheckSpace, AppFails, OnItsWay, database
<1>8. RemoveFromDb(t) \/ StopEach(t) => state' = state /\ ~OnItsWay(t)
  BY DEF RemoveFromDb, StopEach, Forget, OnItsWay, database
<1> QED
  BY <1>1, <1>2, <1>3, <1>4, <1>5, <1>6, <1>7, <1>8
  DEF TaskStep, StartStep, Deployment, Rollback, Removal

\* A removal begins when the application is stopped.
LEMMA RemovalBegins ==
  ASSUME TypeOK, Loops, Ordered, NEW t \in Task, TaskStep(t),
         step'[t] \in {"removing", "stopping"}
  PROVE  \/ step[t] \in {"removing", "stopping"} /\ Owns(t)' \subseteq Owns(t)
         \/ Owns(t)' = Owns(t) /\ step[t] = "ended" /\ state'[app[t]] = "stopped"
<1>1. /\ DOMAIN step = Task /\ DOMAIN mine = Task /\ DOMAIN todo = Task /\ DOMAIN state = App
      /\ app[t] \in App
  BY Domains
<1>2. LoopOf(t) /\ mine[t] \in Seq(File!Name) /\ todo[t] \in Seq(File!Name)
  BY Domains DEF Loops
<1>3. todo[t] # <<>> => ToSet(Tail(todo[t])) \subseteq ToSet(todo[t])
  BY <1>2, LoopAdvances DEF LoopOf
<1>4. ~UserStop(t) /\ ~AppEnds(t) /\ ~AppFails(t)
  BY <1>1 DEF UserStop, AppEnds, AppFails, BeginLoop, Goto
<1>5. ~Rollback(t)
  BY <1>1 DEF Rollback, RollbackStop, RollbackForget, RolledBack, BeginLoop, Goto, Advance
<1>6. ~CheckSpace(t) /\ ~SetRunning(t) /\ ~NameContainers(t) /\ ~StartInstances(t)
  BY <1>1 DEF CheckSpace, SetRunning, NameContainers, StartInstances, BeginLoop, Goto
<1>7. ~StartInstancesFails(t) /\ ~AddContainer(t) /\ ~Subscribe(t) /\ ~RegistrationFails(t)
  BY <1>1 DEF StartInstancesFails, AddContainer, Subscribe, RegistrationFails, BeginLoop, Goto,
     Advance
<1>8. ~Undeploy(t) /\ ~UndeployRaises(t) /\ ~Undeployed(t) /\ ~LaunchApp(t) /\ ~LaunchFails(t)
  BY <1>1 DEF Undeploy, UndeployRaises, Undeployed, LaunchApp, LaunchFails, BeginLoop, Goto,
     Advance
<1>9. ASSUME SetStopped(t)
      PROVE  Owns(t)' = Owns(t) /\ step[t] = "ended" /\ state'[app[t]] = "stopped"
  BY <1>1, <1>9 DEF SetStopped, SetState, Goto, Owns
<1>10. ASSUME RemoveFromDb(t)
       PROVE  step[t] \in {"removing", "stopping"} /\ Owns(t)' \subseteq Owns(t)
  BY <1>1, <1>2, <1>10 DEF RemoveFromDb, BeginLoop, Advance, Goto, Owns
<1>11. ASSUME StopEach(t)
       PROVE  step[t] \in {"removing", "stopping"} /\ Owns(t)' \subseteq Owns(t)
  BY <1>1, <1>3, <1>11, NothingLeft DEF StopEach, Advance, Goto, Owns
<1> QED
  BY <1>4, <1>5, <1>6, <1>7, <1>8, <1>9, <1>10, <1>11
  DEF TaskStep, StartStep, Deployment, Removal

\* What a failed start has left stays, unless it is rolled back or the application stopped.
LEMMA StaysKept ==
  ASSUME IInv, NEW t \in Task, TaskStep(t), OthersStay(t), Effect(t),
         NEW u \in Start, Keeps(u), state'[app[u]] = "running", state[app[u]] = "running"
  PROVE  Keeps(u)' \/ \E s \in Start : app[s] = app[u] /\ OnItsWay(s)'
<1>1. loose \subseteq loose' /\ step[t] # "failed"
  BY LooseStays, StepFrom DEF IInv
<1>2. /\ u # t /\ u \in Task /\ app[u] \in App /\ app[t] \in App /\ DOMAIN sub = App
      /\ step'[u] = "failed" /\ mine'[u] = mine[u] /\ mine[u] # <<>>
      /\ DOMAIN step = Task
  BY <1>1, Domains DEF Keeps, OthersStay, IInv, Task
<1>3. ASSUME NEW c \in ToSet(mine[u]) \ loose', NEW v \in Task, c \in Owns(v)',
             step'[v] \in {"removing", "stopping"}
      PROVE  \E s \in Start : app[s] = app[u] /\ OnItsWay(s)'
  <2>1. c \in sub[app[u]] /\ (step[v] \in {"removing", "stopping"} => c \notin Owns(v))
    BY <1>1, <1>3 DEF Keeps
  <2>2. v = t
    BY <1>3, <2>1 DEF OthersStay
  <2>3. c \in Owns(t) /\ step[t] = "ended" /\ state'[app[t]] = "stopped"
    BY <1>3, <2>1, <2>2, RemovalBegins DEF IInv
  <2>4. ToForget(app[u], c)
    BY <1>1, <1>2, <1>3, <2>1, <2>3 DEF IInv, Subscribed
  <2>5. PICK s \in Start : app[s] = app[u] /\ c \in Forgets(s)
    BY <2>4 DEF ToForget
  <2>6. step[s] \in {"rollback", "forgetting"}
    BY <2>5 DEF Forgets
  <2>7. step'[s] = step[s]
    BY <2>3, <2>6 DEF OthersStay, Task
  <2> QED
    BY <2>5, <2>6, <2>7 DEF OnItsWay
<1>4. ASSUME NEW c \in ToSet(mine[u]) \ loose', c \notin sub'[app[u]]
      PROVE  \E s \in Start : app[s] = app[u] /\ OnItsWay(s)'
  <2>1. c \in sub[app[u]] /\ (step[t] \in {"removing", "stopping"} => c \notin Owns(t))
    BY <1>1, <1>4 DEF Keeps
  <2>2. app[t] = app[u] /\ ~UNCHANGED sub
    BY <1>2, <1>4, <2>1 DEF OthersStay
  <2>3. ~RemoveFromDb(t)
    <3>1. ASSUME RemoveFromDb(t), todo[t] # <<>> PROVE FALSE
      <4>1. step[t] = "removing" /\ sub' = [sub EXCEPT ![app[t]] = @ \ {Head(todo[t])}]
        BY <3>1 DEF RemoveFromDb, Forget
      <4>2. c = Head(todo[t])
        BY <1>2, <1>4, <2>1, <2>2, <4>1
      <4>3. ToSet(todo[t]) \subseteq ToSet(mine[t]) /\ Head(todo[t]) \in ToSet(todo[t])
        BY <3>1, Domains, LoopAdvances DEF IInv, Loops, LoopOf
      <4> QED
        BY <2>1, <4>1, <4>2, <4>3 DEF Owns
    <3> QED
      BY <2>2, <3>1 DEF RemoveFromDb, database
  <2>4. ~SetStopped(t) /\ ~StopEach(t) /\ ~UserStop(t)
    BY <2>2 DEF SetStopped, StopEach, UserStop, database
  <2>5. t \in Start /\ StartStep(t)
    BY <2>3, <2>4 DEF TaskStep, Removal
  <2>6. OnItsWay(t)'
    <3>1. ~CheckSpace(t) /\ ~AppFails(t)
      BY <2>2 DEF CheckSpace, AppFails, database
    <3>2. CASE ~OnItsWay(t)
      <4>1. CheckSpace(t) \/ SetRunning(t)
        BY <2>5, <3>2
        DEF OnItsWay, StartStep, Deployment, Rollback, NameContainers, StartInstances,
            StartInstancesFails, AddContainer, Subscribe, RegistrationFails, Undeploy,
            UndeployRaises, Undeployed, LaunchApp, LaunchFails, RollbackStop, RollbackForget,
            RolledBack, AppEnds, AppFails
      <4> QED
        BY <2>2, <3>1, <4>1 DEF SetRunning
    <3> QED
      BY <2>2, <2>5, <3>1, <3>2, StartRuns DEF IInv
  <2> QED
    BY <2>2, <2>5, <2>6
<1> QED
  BY <1>2, <1>3, <1>4 DEF Keeps

LEMMA StepRunning ==
  ASSUME IInv, NEW t \in Task, TaskStep(t), OthersStay(t), Effect(t)
  PROVE  Running'
<1> SUFFICES ASSUME NEW a \in App, state'[a] = "running"
             PROVE  \E s \in Start : app[s] = a /\ (OnItsWay(s)' \/ Keeps(s)')
  BY DEF Running
<1>1. loose \subseteq loose' /\ t \in Start => app[t] \in App
  BY LooseStays, Domains DEF IInv
<1>2. \A u \in Start : u # t => (OnItsWay(u) <=> OnItsWay(u)')
  BY DEF OthersStay, OnItsWay, Task
<1>3. CASE state[a] = "running"
  <2>1. PICK s \in Start : app[s] = a /\ (OnItsWay(s) \/ Keeps(s))
    BY <1>3 DEF IInv, Running
  <2>2. CASE Keeps(s)
    BY <1>3, <2>1, <2>2, StaysKept
  <2>3. CASE OnItsWay(s) /\ s # t
    BY <1>2, <2>1, <2>3
  <2>4. CASE OnItsWay(s) /\ s = t
    <3>1. OnItsWay(t)' \/ AppFails(t)
      BY <2>1, <2>4, StartRuns DEF IInv
    <3>2. CASE AppFails(t)
      <4>1. /\ step'[t] = "failed" /\ mine'[t] = mine[t] /\ step[t] = "waiting"
            /\ UNCHANGED <<sub, loose, mine>>
        BY <3>2, Domains DEF AppFails, Goto, database, IInv
      <4>2. Len(mine[t]) = need[t] /\ need[t] \in Nat \ {0}
        BY <2>4, <4>1, TaskAssumption DEF IInv, Loops, LoopOf, Task
      <4>3. mine[t] # <<>>
        BY <4>2
      <4>4. Owns(t) = ToSet(mine[t]) /\ Has(t) = ToSet(mine[t])
        BY <4>1 DEF Owns, Has
      <4>5. ASSUME NEW c \in ToSet(mine[t]) \ loose, NEW v \in Task,
                   step'[v] \in {"removing", "stopping"}, c \in Owns(v)'
            PROVE  FALSE
        <5>1. v # t /\ Owns(v)' = Owns(v)
          BY <4>1, <4>5 DEF OthersStay
        <5> QED
          BY <4>4, <4>5, <5>1 DEF IInv, Apart
      <4>6. ToSet(mine[t]) \ loose \subseteq sub[app[t]]
        BY <2>4, <4>4 DEF IInv, Subscribed
      <4>7. Keeps(t)'
        BY <4>1, <4>3, <4>5, <4>6 DEF Keeps
      <4> QED
        BY <2>1, <2>4, <4>7
    <3> QED
      BY <2>1, <2>4, <3>1, <3>2
  <2> QED
    BY <2>1, <2>2, <2>3, <2>4
<1>4. CASE state[a] # "running"
  <2>1. a = app[t] /\ state' # state
    BY <1>4 DEF OthersStay
  <2>2. t \in Start
    <3>1. ASSUME t \in Switch PROVE state'[app[t]] = "stopped" \/ state' = state
      BY <3>1, StepFrom, Domains
      DEF SetStopped, RemoveFromDb, StopEach, UserStop, SetState, Forget, database, IInv
    <3> QED
      BY <2>1, <3>1 DEF Task
  <2>3. OnItsWay(t)'
    BY <2>1, <2>2, StartRuns DEF IInv
  <2> QED
    BY <2>1, <2>2, <2>3
<1> QED
  BY <1>3, <1>4

\* A start that waits for its application ends, well or not.
LEMMA WaitingEnds ==
  ASSUME TypeOK, NEW t \in Start, TaskStep(t), step[t] = "waiting"
  PROVE  step'[t] # "waiting"
<1>1. DOMAIN step = Task /\ t \in Task /\ t \notin Switch
  BY Domains DEF Task
<1>2. ~Deployment(t)
  BY DEF Deployment, CheckSpace, SetRunning, NameContainers, StartInstances,
     StartInstancesFails, AddContainer, Subscribe, RegistrationFails, Undeploy, UndeployRaises,
     Undeployed, LaunchApp, LaunchFails
<1>3. ~Rollback(t) /\ ~Removal(t)
  BY DEF Rollback, RollbackStop, RollbackForget, RolledBack, Removal, SetStopped, RemoveFromDb,
     StopEach
<1> QED
  BY <1>1, <1>2, <1>3 DEF TaskStep, StartStep, AppEnds, AppFails, BeginLoop, Goto

-----------------------------------------------------------------------------
(* The theorems *)

LEMMA Begins == Init => IInv
<1> SUFFICES ASSUME Init PROVE IInv
  OBVIOUS
<1> USE TaskAssumption, BoundAssumption DEF Init
<1>1. TypeOK
  BY NothingLeft DEF TypeOK
<1>2. Finite
  BY FS_EmptySet DEF Finite
<1>3. Loops
  BY NothingLeft DEF Loops, LoopOf, Task
<1>4. Running
  BY DEF Running
<1>5. Apart /\ NoneMissing /\ NoneStray
  BY NothingLeft DEF Apart, Owns, NoneMissing, NoneStray
<1>6. Ordered /\ Listed
  BY NothingLeft DEF Ordered, Listed, Owns, Increasing, Facts!Increasing
<1>7. Subscribed
  BY NothingLeft DEF Subscribed, Has, Owns, Task
<1> QED
  BY <1>1, <1>2, <1>3, <1>4, <1>5, <1>6, <1>7 DEF IInv

LEMMA StepOf == Next => \E t \in Task : TaskStep(t)
BY DEF Next, TaskStep, Task

LEMMA Goes ==
  ASSUME IInv, [Next]_vars
  PROVE  IInv'
<1>1. CASE Next
  <2>1. PICK t \in Task : TaskStep(t)
    BY <1>1, StepOf
  <2>2. TypeOK' /\ Finite' /\ Loops' /\ Ordered' /\ OthersStay(t) /\ Effect(t)
    BY <2>1, StepStays, StepLoops, StepOrders, StepEffect DEF IInv
  <2>3. Apart' /\ Listed' /\ NoneMissing' /\ NoneStray' /\ Subscribed' /\ Running'
    BY <2>1, <2>2, StepApart, StepListed, StepNoneMissing, StepNoneStray, StepSubscribed,
       StepRunning
  <2> QED
    BY <2>2, <2>3 DEF IInv
<1>2. CASE UNCHANGED vars
  <2>1. \A t \in Task : /\ Owns(t)' = Owns(t) /\ Placed(t)' = Placed(t) /\ Has(t)' = Has(t)
                        /\ HasNot(t)' = HasNot(t) /\ LoopOf(t)' = LoopOf(t)
    BY <1>2 DEF vars, progress, database, Owns, Placed, Has, HasNot, LoopOf
  <2>2. /\ \A s \in Start : OnItsWay(s)' = OnItsWay(s) /\ Keeps(s)' = Keeps(s)
        /\ \A a, c : ToForget(a, c)' = ToForget(a, c)
        /\ \A s, c : Left(s, c)' = Left(s, c)
    BY <1>2 DEF vars, progress, database, OnItsWay, Keeps, ToForget, Forgets, Left, Owns
  <2>3. TypeOK' /\ Finite' /\ Ordered'
    BY <1>2 DEF vars, progress, database, IInv, TypeOK, Finite, Ordered
  <2>4. Loops' /\ Apart' /\ Listed'
    BY <1>2, <2>1, <2>2 DEF vars, progress, database, IInv, Loops, Apart, Listed
  <2>5. NoneMissing' /\ NoneStray' /\ Running'
    BY <1>2, <2>1, <2>2 DEF vars, progress, database, IInv, NoneMissing, NoneStray, Running
  <2>6. Subscribed'
    BY <1>2, <2>1, <2>2 DEF vars, progress, database, IInv, Subscribed, Task
  <2> QED
    BY <2>3, <2>4, <2>5, <2>6 DEF IInv
<1> QED
  BY <1>1, <1>2

LEMMA Always == Spec => []IInv
BY Begins, Goes, PTL DEF Spec

\* The places a container is in have their types, however often and by how many switches
\* an application is started and stopped (start_app_task and what ends it).
THEOREM TypeCorrect == Spec => []TypeOK
<1>1. IInv => TypeOK
  BY DEF IInv
<1> QED
  BY <1>1, Always, PTL

\* With no task under way, hosts, inventory and State Database agree on every name that is
\* not loose, however many starts and switches an application has and wherever the starts
\* failed (start_app_task, rollback_start_flow, remove_containers_from_app).
THEOREM PlacesAgreeWhenQuiet == Spec => []PlacesAgree
<1>1. IInv => PlacesAgree
  <2> SUFFICES ASSUME IInv, Quiet
               PROVE  /\ \A c \in (instances \cup ToSet(list)) \ loose :
                           c \in instances /\ c \in ToSet(list) /\ \E a \in App : c \in sub[a]
                      /\ \A a \in App : state[a] = "running" =>
                           \/ sub[a] # {}
                           \/ \E s \in Start : app[s] = a /\ step[s] = "failed" /\ mine[s] # <<>>
                                                 /\ ToSet(mine[s]) \subseteq loose
    BY DEF PlacesAgree
  <2>1. \A t \in Task : Owns(t) = {} /\ Placed(t) = {}
    BY DEF Quiet, AtRest, Owns, Placed
  <2>2. \A c \in (instances \cup ToSet(list)) \ loose : c \in instances /\ c \in ToSet(list)
    BY <2>1 DEF IInv, Listed, NoneMissing
  <2>3. \A c \in instances \ loose : \E a \in App : c \in sub[a]
    BY <2>1, TaskAssumption DEF IInv, NoneStray, Left, Task
  <2>4. ASSUME NEW a \in App, state[a] = "running"
        PROVE  \/ sub[a] # {}
               \/ \E s \in Start : app[s] = a /\ step[s] = "failed" /\ mine[s] # <<>>
                                     /\ ToSet(mine[s]) \subseteq loose
    <3>1. PICK s \in Start : app[s] = a /\ (OnItsWay(s) \/ Keeps(s))
      BY <2>4 DEF IInv, Running
    <3>2. Keeps(s)
      BY <3>1 DEF Quiet, AtRest, OnItsWay, Task
    <3>3. step[s] = "failed" /\ mine[s] # <<>> /\ \A c \in ToSet(mine[s]) \ loose : c \in sub[a]
      BY <3>1, <3>2 DEF Keeps
    <3> QED
      BY <3>1, <3>3
  <2> QED
    BY <2>2, <2>3, <2>4
<1> QED
  BY <1>1, Always, PTL

\* While a task waits for its application, no rollback, removal or switch of another stops a
\* container of it whose name is not loose (wait_for_app_on_containers).
THEOREM WaitingUndisturbed == Spec => Undisturbed
<1> DEFINE Safe == \A s \in Start : (step[s] = "waiting" /\ step'[s] = "waiting") =>
                     (ToSet(mine[s]) \cap instances) \ loose \subseteq instances'
<1>1. IInv /\ [Next]_vars => [Safe]_vars
  <2> SUFFICES ASSUME IInv, Next, NEW s \in Start, step[s] = "waiting", step'[s] = "waiting"
               PROVE  (ToSet(mine[s]) \cap instances) \ loose \subseteq instances'
    OBVIOUS
  <2>1. PICK t \in Task : TaskStep(t)
    BY StepOf
  <2>2. s # t
    BY <2>1, WaitingEnds DEF IInv
  <2>3. Effect(t) /\ Owns(s) = ToSet(mine[s]) /\ Owns(s) \cap Owns(t) \subseteq loose
    BY <2>1, <2>2, StepEffect DEF IInv, Owns, Apart, Task
  <2>4. instances \ Owns(t) \subseteq instances'
    BY <2>3
    DEF Effect, Passes, Frees, IsGiven, Launches, Subscribes, Unsubscribes, Leaves, Takes
  <2> QED
    BY <2>3, <2>4
<1> QED
  BY <1>1, Always, PTL DEF Spec, Undisturbed
=============================================================================
