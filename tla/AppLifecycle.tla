----------------------------- MODULE AppLifecycle -----------------------------
(***************************************************************************)
(* The life of the containers of an application, without the callback:     *)
(* start_app_task, its rollback and remove_containers_from_app             *)
(* (ui/background_tasks.py).  A container is known in three places, which  *)
(* the tasks of all the applications change one request after another:     *)
(* the inventory file, which gives it its name, the host that runs its     *)
(* instance, and the State Database, which knows it and subscribes it to   *)
(* its application.                                                        *)
(*                                                                         *)
(* The operations on the inventory are atomic (Inventory!Atomic).  One     *)
(* host stands for all: names, instances and space are apart on each.      *)
(***************************************************************************)
EXTENDS Naturals, Sequences, SequencesExt, FiniteSets

CONSTANTS
  App,        \* applications of the State Database
  Start,      \* executions of start_app_task
  Switch,     \* uses of the switch "Stop app"
  app,        \* app[t]: the application of task t
  need,       \* need[s]: the number of containers that s starts
  Capacity,   \* containers the host has resources for
  MaxErrors   \* bound on the failures

Task == Start \cup Switch

ASSUME TaskAssumption ==
  /\ Start \cap Switch = {}
  /\ app \in [Task -> App]
  /\ need \in [Start -> Nat \ {0}]
ASSUME BoundAssumption == MaxErrors \in Nat /\ Capacity \in Nat

File == INSTANCE InventoryFile WITH Host <- {0}, hostNumber <- [h \in {0} |-> 0]

VARIABLES
  list,       \* containers of the host in the inventory file
  instances,  \* the instances that the host runs
  known,      \* containers of the State Database
  sub,        \* sub[a]: containers subscribed to application a
  state,      \* state[a]: state of the application
  step,       \* step[t]: where task t is
  mine,       \* mine[t]: the containers that t deploys or removes
  todo,       \* todo[t]: those that the loop t is in has still to treat
  loose,      \* names that the code has passed over (history, see below)
  errors      \* failures so far, for the bound

database == <<known, sub, state>>
progress == <<step, mine, todo>>
vars     == <<list, instances, database, progress, loose, errors>>

(***************************************************************************)
(* A name is loose once                                                    *)
(*   - its instance did not stop, which stop_container ignores;            *)
(*   - the loop that cleans up after a failed deployment did not come to   *)
(*     it, or that deployment had subscribed it already;                   *)
(*   - a rollback unsubscribed it when another start of the application    *)
(*     had been given it again;                                            *)
(*   - the switch took it from a task that was under way.                  *)
(* The code has no such record: the properties use it to say of all the    *)
(* other names, and of names alone, that nothing is left behind.           *)
(***************************************************************************)

TypeOK ==
  /\ list \in Seq(File!Name)
  /\ instances \subseteq File!Name /\ known \subseteq File!Name
  /\ sub \in [App -> SUBSET File!Name]
  /\ state \in [App -> {"stopped", "running"}]
  /\ step \in [Task -> {"queued", "checked", "naming", "starting", "adding",
                        "subscribing", "launching", "waiting", "undeploying",
                        "rollback", "forgetting", "ended", "removing", "stopping",
                        "done", "failed"}]
  /\ mine \in [Task -> Seq(File!Name)] /\ todo \in [Task -> Seq(File!Name)]
  /\ loose \subseteq File!Name /\ errors \in 0..MaxErrors

Init ==
  /\ list = <<>> /\ instances = {} /\ known = {}
  /\ sub = [a \in App |-> {}]
  /\ state = [a \in App |-> "stopped"]
  /\ step = [t \in Task |-> "queued"]
  /\ mine = [t \in Task |-> <<>>]
  /\ todo = [t \in Task |-> <<>>]
  /\ loose = {} /\ errors = 0

-----------------------------------------------------------------------------
Goto(t, l) == step' = [step EXCEPT ![t] = l]

\* for container in mine[t]: ...
BeginLoop(t, l) ==
  /\ Goto(t, l)
  /\ todo' = [todo EXCEPT ![t] = mine[t]]
  /\ UNCHANGED mine

\* The next container of the loop; the last one leads to l.
Advance(t) == todo' = [todo EXCEPT ![t] = Tail(@)] /\ UNCHANGED <<step, mine>>

SetState(t, value) == state' = [state EXCEPT ![app[t]] = value]

AtRest(t) == step[t] \in {"queued", "done", "failed"}

Fails == errors < MaxErrors /\ errors' = errors + 1

\* stop_container.  The instance goes before the name is free again, so that the
\* two halves may count as one.  If it does not stop, that is ignored.
StopContainer(c) ==
  /\ list' = RemoveFirst(list, c)
  /\ \/ instances' = instances \ {c} /\ UNCHANGED <<loose, errors>>
     \/ c \in instances /\ Fails /\ loose' = loose \cup {c} /\ UNCHANGED instances

\* remove_container_from_app_db: from the application and, whatever the answer,
\* from the State Database.
Forget(t, c) ==
  /\ sub' = [sub EXCEPT ![app[t]] = @ \ {c}]
  /\ known' = known \ {c}
  /\ UNCHANGED state

\* The containers of s run.
InPlace(s) == ToSet(mine[s]) \subseteq instances

-----------------------------------------------------------------------------
(* start_app_task *)

\* check_space_for_app, over what the State Database says now.
CheckSpace(s) ==
  /\ step[s] = "queued"
  /\ Goto(s, IF Cardinality(known) + need[s] <= Capacity THEN "checked" ELSE "failed")
  /\ UNCHANGED <<list, instances, database, mine, todo, loose, errors>>

SetRunning(s) ==
  /\ step[s] = "checked"
  /\ SetState(s, "running")
  /\ Goto(s, "naming")
  /\ UNCHANGED <<list, instances, known, sub, mine, todo, loose, errors>>

\* Fault: the index starts before 0.
NameFromNone(s) ==
  /\ step[s] = "naming"
  /\ mine' = [mine EXCEPT ![s] = File!ContainerList(need[s], File!FirstIndexFromNone(list))]
  /\ list' = list \o mine'[s]
  /\ Goto(s, "starting")
  /\ UNCHANGED <<instances, database, todo, loose, errors>>

\* Fault: the number of containers stands for the number of the last one.
NameByCount(s) ==
  /\ step[s] = "naming"
  /\ mine' = [mine EXCEPT ![s] = File!ContainerList(need[s], File!FirstIndexByCount(list))]
  /\ list' = list \o mine'[s]
  /\ Goto(s, "starting")
  /\ UNCHANGED <<instances, database, todo, loose, errors>>

NameContainers(s) ==
  /\ step[s] = "naming"
  /\ mine' = [mine EXCEPT ![s] = File!ContainerList(need[s], File!FirstIndex(list))]
  /\ list' = list \o mine'[s]
  /\ Goto(s, "starting")
  /\ UNCHANGED <<instances, database, todo, loose, errors>>

\* start_containers_playbook.yml
StartInstances(s) ==
  /\ step[s] = "starting"
  /\ instances' = instances \cup ToSet(mine[s])
  /\ BeginLoop(s, "adding")
  /\ UNCHANGED <<list, database, loose, errors>>

StartInstancesFails(s) ==
  /\ step[s] = "starting" /\ Fails
  /\ \E some \in SUBSET ToSet(mine[s]) : instances' = instances \cup some
  /\ BeginLoop(s, "undeploying")
  /\ UNCHANGED <<list, database, loose>>

\* add_containers.py; a container that "already exists" is left as it is.
AddContainer(s) ==
  /\ step[s] = "adding"
  /\ \/ /\ todo[s] # <<>>
        /\ known' = known \cup {Head(todo[s])}
        /\ Advance(s)
     \/ todo[s] = <<>> /\ BeginLoop(s, "subscribing") /\ UNCHANGED known
  /\ UNCHANGED <<list, instances, sub, state, loose, errors>>

Subscribe(s) ==
  /\ step[s] = "subscribing"
  /\ \/ /\ todo[s] # <<>> /\ Head(todo[s]) \in known
        /\ sub' = [sub EXCEPT ![app[s]] = @ \cup {Head(todo[s])}]
        /\ Advance(s)
     \/ todo[s] = <<>> /\ Goto(s, "launching") /\ UNCHANGED <<sub, mine, todo>>
  /\ UNCHANGED <<list, instances, known, state, loose, errors>>

RegistrationFails(s) ==
  /\ step[s] \in {"adding", "subscribing"} /\ todo[s] # <<>>
  /\ \/ Fails
     \/ step[s] = "subscribing" /\ Head(todo[s]) \notin known /\ UNCHANGED errors
  /\ BeginLoop(s, "undeploying")
  /\ loose' = loose \cup (sub[app[s]] \cap ToSet(mine[s]))
  /\ UNCHANGED <<list, instances, database>>

\* Fault: only a container whose instance runs is stopped.
UndeployRunning(s) ==
  /\ step[s] = "undeploying" /\ todo[s] # <<>> /\ Head(todo[s]) \in instances
  /\ StopContainer(Head(todo[s]))
  /\ Advance(s)
  /\ UNCHANGED database

\* deploy_app_containers: except; rollback_start_flow then has no containers.
Undeploy(s) ==
  /\ step[s] = "undeploying" /\ todo[s] # <<>>
  /\ StopContainer(Head(todo[s]))
  /\ Advance(s)
  /\ UNCHANGED database

\* stop_container raises at its end, when the directory of the container cannot be
\* removed: the loop is over.
UndeployRaises(s) ==
  /\ step[s] = "undeploying" /\ todo[s] # <<>> /\ Fails
  /\ list' = RemoveFirst(list, Head(todo[s]))
  /\ \E stopped \in SUBSET {Head(todo[s])} :
       /\ instances' = instances \ stopped
       /\ loose' = loose \cup (ToSet(todo[s]) \ stopped)
  /\ SetState(s, "stopped")
  /\ Goto(s, "failed")
  /\ UNCHANGED <<known, sub, mine, todo>>

Undeployed(s) ==
  /\ step[s] = "undeploying" /\ todo[s] = <<>>
  /\ SetState(s, "stopped")
  /\ Goto(s, "failed")
  /\ UNCHANGED <<list, instances, known, sub, mine, todo, loose, errors>>

\* setup_containers_network_task, start_app_on_containers
LaunchApp(s) ==
  /\ step[s] = "launching" /\ InPlace(s)
  /\ Goto(s, "waiting")
  /\ UNCHANGED <<list, instances, database, mine, todo, loose, errors>>

LaunchFails(s) ==
  /\ step[s] = "launching"
  /\ IF InPlace(s) THEN Fails ELSE UNCHANGED errors
  /\ BeginLoop(s, "rollback")
  /\ UNCHANGED <<list, instances, database, loose>>

\* wait_for_app_on_containers: the script of every container ends well, ...
AppEnds(s) ==
  /\ step[s] = "waiting"
  /\ BeginLoop(s, "ended")
  /\ UNCHANGED <<list, instances, database, loose, errors>>

\* ... or one fails and start_app_task raises: its containers stay.
AppFails(s) ==
  /\ step[s] = "waiting"
  /\ IF InPlace(s) THEN Fails ELSE UNCHANGED errors
  /\ Goto(s, "failed")
  /\ UNCHANGED <<list, instances, database, mine, todo, loose>>

-----------------------------------------------------------------------------
(* rollback_start_flow: instances and names first, the State Database last *)

RollbackStop(s) ==
  /\ step[s] = "rollback"
  /\ \/ todo[s] # <<>> /\ StopContainer(Head(todo[s])) /\ Advance(s)
     \/ /\ todo[s] = <<>> /\ BeginLoop(s, "forgetting")
        /\ UNCHANGED <<list, instances, loose, errors>>
  /\ UNCHANGED database

\* Another start of the application has been given name c again.
GivenAgain(s, c) ==
  c \in ToSet(list) /\ \E u \in Start \ {s} : app[u] = app[s] /\ c \in ToSet(mine[u])

RollbackForget(s) ==
  /\ step[s] = "forgetting" /\ todo[s] # <<>>
  /\ Forget(s, Head(todo[s]))
  /\ loose' = IF GivenAgain(s, Head(todo[s])) THEN loose \cup {Head(todo[s])} ELSE loose
  /\ Advance(s)
  /\ UNCHANGED <<list, instances, errors>>

\* Fault: the state of the application is left alone.
RolledBackRunning(s) ==
  /\ step[s] = "forgetting" /\ todo[s] = <<>>
  /\ Goto(s, "failed")
  /\ UNCHANGED <<list, instances, database, mine, todo, loose, errors>>

RolledBack(s) ==
  /\ step[s] = "forgetting" /\ todo[s] = <<>>
  /\ SetState(s, "stopped")
  /\ Goto(s, "failed")
  /\ UNCHANGED <<list, instances, known, sub, mine, todo, loose, errors>>

-----------------------------------------------------------------------------
(* remove_containers_from_app, at the end of start_app_task or for the switch *)

\* getContainersFromApp
Containers(a) == sub[a] \cap known

\* processStopApp
UserStop(k) ==
  /\ step[k] = "queued" /\ Containers(app[k]) # {}
  /\ mine' = [mine EXCEPT ![k] = SetToSeq(Containers(app[k]))]
  /\ todo' = [todo EXCEPT ![k] = mine'[k]]
  /\ loose' = loose \cup {c \in Containers(app[k]) :
                            \E t \in Task \ {k} : ~AtRest(t) /\ c \in ToSet(mine[t])}
  /\ Goto(k, "ended")
  /\ UNCHANGED <<list, instances, database, errors>>

SetStopped(t) ==
  /\ step[t] = "ended"
  /\ SetState(t, "stopped")
  /\ Goto(t, "removing")
  /\ UNCHANGED <<list, instances, known, sub, mine, todo, loose, errors>>

\* Fault: the task ends with the State Database.
RemoveFromDbOnly(t) ==
  /\ step[t] = "removing"
  /\ \/ todo[t] # <<>> /\ Forget(t, Head(todo[t])) /\ Advance(t)
     \/ todo[t] = <<>> /\ Goto(t, "done") /\ UNCHANGED <<database, mine, todo>>
  /\ UNCHANGED <<list, instances, loose, errors>>

RemoveFromDb(t) ==
  /\ step[t] = "removing"
  /\ \/ todo[t] # <<>> /\ Forget(t, Head(todo[t])) /\ Advance(t)
     \/ todo[t] = <<>> /\ BeginLoop(t, "stopping") /\ UNCHANGED database
  /\ UNCHANGED <<list, instances, loose, errors>>

\* Fault: the name is given back first, and the instance not stopped.
UnlistOnly(t) ==
  /\ step[t] = "stopping"
  /\ \/ todo[t] # <<>> /\ list' = RemoveFirst(list, Head(todo[t])) /\ Advance(t)
     \/ todo[t] = <<>> /\ Goto(t, "done") /\ UNCHANGED <<list, mine, todo>>
  /\ UNCHANGED <<instances, database, loose, errors>>

StopEach(t) ==
  /\ step[t] = "stopping"
  /\ \/ todo[t] # <<>> /\ StopContainer(Head(todo[t])) /\ Advance(t)
     \/ /\ todo[t] = <<>> /\ Goto(t, "done")
        /\ UNCHANGED <<list, instances, mine, todo, loose, errors>>
  /\ UNCHANGED database

-----------------------------------------------------------------------------
Deployment(s) ==
  \/ CheckSpace(s) \/ SetRunning(s) \/ NameContainers(s)
  \/ StartInstances(s) \/ StartInstancesFails(s)
  \/ AddContainer(s) \/ Subscribe(s) \/ RegistrationFails(s)
  \/ Undeploy(s) \/ UndeployRaises(s) \/ Undeployed(s) \/ LaunchApp(s) \/ LaunchFails(s)

Rollback(s) == RollbackStop(s) \/ RollbackForget(s) \/ RolledBack(s)

Removal(t) == SetStopped(t) \/ RemoveFromDb(t) \/ StopEach(t)

StartStep(s) == Deployment(s) \/ Rollback(s) \/ AppEnds(s) \/ AppFails(s)

Next ==
  \/ \E s \in Start : StartStep(s)
  \/ \E t \in Task : Removal(t)
  \/ \E k \in Switch : UserStop(k)

\* Celery carries on with a task, and the application is a batch job that ends.
Fairness ==
  /\ \A s \in Start : WF_vars(StartStep(s))
  /\ \A t \in Task : WF_vars(Removal(t))

Spec     == Init /\ [][Next]_vars
FairSpec == Spec /\ Fairness
-----------------------------------------------------------------------------
(* Properties *)

Quiet == \A t \in Task : AtRest(t)

\* With no task under way, hosts, inventory and State Database agree wherever
\* deployments, launches and applications failed.  Every name that is not loose is on
\* the list of the inventory if its instance runs and only then, and it is subscribed
\* to an application.  An application that is said to be running has something to
\* stop, unless all the containers of its start are loose.
PlacesAgree ==
  Quiet =>
    /\ \A c \in (instances \cup ToSet(list)) \ loose :
         c \in instances /\ c \in ToSet(list) /\ \E a \in App : c \in sub[a]
    /\ \A a \in App : state[a] = "running" =>
         \/ sub[a] # {}
         \/ \E s \in Start : app[s] = a /\ step[s] = "failed" /\ mine[s] # <<>>
                               /\ ToSet(mine[s]) \subseteq loose

\* While a task waits for its application, nobody stops a container of it whose name
\* is not loose, be it the rollback, the removal or the switch of another start or
\* application whose names were given back and given again.
Undisturbed ==
  [][\A s \in Start :
       step[s] = "waiting" /\ step'[s] = "waiting" =>
         (ToSet(mine[s]) \cap instances) \ loose \subseteq instances']_vars

\* Every start ends, with its application ended or its work undone.
EveryStartEnds == \A s \in Start : <>(step[s] \in {"done", "failed"})

\* "Containers: here you can see and manage all the deployed containers": with no
\* task under way, the switch of an application removes every instance that runs, but
\* for loose names.
InstancesManaged == Quiet => \A c \in instances \ loose : \E a \in App : c \in Containers(a)
=============================================================================
