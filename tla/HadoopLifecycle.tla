--------------------------- MODULE HadoopLifecycle ---------------------------
(***************************************************************************)
(* Hadoop applications (ui/background_tasks.py): start_hadoop_app_task with *)
(* the wait for the application it depends on, the transfers from and to    *)
(* the global HDFS, the removal of its containers in tasks of their own,    *)
(* and the removal of applications and containers from their pages          *)
(* (remove_app_task, remove_containers_task), which may come at any time.   *)
(*                                                                         *)
(* Each application has its own containers (AppLifecycle shares the names   *)
(* and the space of a host).  The callback of an application is off: with   *)
(* it on, every start of a Hadoop application raises before it does         *)
(* anything.                                                                *)
(***************************************************************************)
EXTENDS Naturals, FiniteSets

CONSTANTS
  App, NoApp,
  Container,
  owner,       \* owner[c]: the application that c is deployed for
  master,      \* master[a]: the container with the ResourceManager
  dependency,  \* dependency[a]: the application a waits for, or NoApp
  transfers,   \* applications with input and output in the global HDFS
  owned,       \* applications that belong to a user
  Scenarios,   \* what people do: the applications they start and remove, the
               \* containers they remove
  MaxMishaps    \* bound on failing playbooks and requests

VARIABLES
  scenario,
  state,       \* state[a] in the State Database, "none" without a document
  counters,    \* applications with a counter in redis
  listed,      \* containers in the inventory
  instances,   \* containers that run
  known,       \* containers of the State Database
  subscribed,  \* containers that their application lists there
  step,        \* step[a]: where start_hadoop_app_task is
  removal,     \* removal[a]: where remove_app_task is
  eviction,    \* eviction[c]: where remove_containers_task for c is
  todo,        \* todo[x][a]: containers the loop of task x of a has left
  doomed,      \* doomed[a]: the containers that remove_app_task was given
  hadError,    \* starts that have collected an error
  stop,        \* stop[x][c]: the task that stops c, queued by x
  unstopped,   \* containers whose failing stop was ignored
  mishaps

hosts    == <<listed, instances>>
database == <<state, known, subscribed>>
tasks    == <<step, removal, eviction, todo, doomed, hadError>>
vars     == <<scenario, database, counters, hosts, tasks, stop, unstopped, mishaps>>

Origin == {"start", "removal", "eviction"}
Stages == {"none", "queued", "stopping", "unlisting", "done", "failed"}
ContainersOf(a) == {c \in Container : owner[c] = a}

TypeOK ==
  /\ scenario \in Scenarios
  /\ state \in [App -> {"none", "stopped", "running", "hdfs_downloading", "hdfs_uploading"}]
  /\ counters \subseteq App
  /\ listed \subseteq Container /\ instances \subseteq Container
  /\ known \subseteq Container /\ subscribed \subseteq Container
  /\ step \in [App -> {"idle", "depending", "ready", "deploying", "deployed", "downloading",
                       "launching", "computed", "uploading", "stopping", "forgetting",
                       "queueing", "finishing", "done", "failed"}]
  /\ removal \in [App -> {"idle", "forgetting", "queueing", "leaving", "deleting",
                          "done", "failed"}]
  /\ eviction \in [Container -> {"idle", "asked", "done", "failed"}]
  /\ todo \in [{"start", "removal"} -> [App -> SUBSET Container]]
  /\ doomed \in [App -> SUBSET Container]
  /\ hadError \subseteq App
  /\ stop \in [Origin -> [Container -> Stages]]
  /\ unstopped \subseteq Container
  /\ mishaps \in 0..MaxMishaps

Init ==
  /\ scenario \in Scenarios
  /\ state = [a \in App |-> "stopped"]
  /\ counters = {}
  /\ listed = {} /\ instances = {} /\ known = {} /\ subscribed = {}
  /\ step = [a \in App |-> "idle"]
  /\ removal = [a \in App |-> "idle"]
  /\ eviction = [c \in Container |-> "idle"]
  /\ todo = [x \in {"start", "removal"} |-> [a \in App |-> {}]]
  /\ doomed = [a \in App |-> {}]
  /\ hadError = {}
  /\ stop = [x \in Origin |-> [c \in Container |-> "none"]]
  /\ unstopped = {}
  /\ mishaps = 0

-----------------------------------------------------------------------------
Fault == mishaps < MaxMishaps /\ mishaps' = mishaps + 1

\* A playbook or a request of the start: it leads to l, or raises.  Nothing is rolled
\* back: the state, the containers and the counter stay as they are.
Reach(a, l, possible) ==
  \/ possible /\ step' = [step EXCEPT ![a] = l] /\ UNCHANGED mishaps
  \/ /\ IF possible THEN Fault ELSE UNCHANGED mishaps
     /\ step' = [step EXCEPT ![a] = "failed"]

\* change_app_state_in_db raises when the application is not there.
Change(a, value, l) ==
  IF state[a] = "none"
  THEN step' = [step EXCEPT ![a] = "failed"] /\ UNCHANGED state
  ELSE step' = [step EXCEPT ![a] = l] /\ state' = [state EXCEPT ![a] = value]

-----------------------------------------------------------------------------
(* start_hadoop_app_task *)

\* processStartApp, for an application on the page.
Queue(a) ==
  /\ step[a] = "idle" /\ a \in scenario.starts /\ state[a] # "none"
  /\ step' = [step EXCEPT ![a] = "depending"]
  /\ UNCHANGED <<database, counters, hosts, removal, eviction, todo, doomed, hadError, stop,
                 unstopped, mishaps>>

\* wait_for_app_dependency: one look at the state of the other application.  One
\* that is gone raises.  Then check_space_for_app.
Dependency(a) ==
  /\ step[a] = "depending"
  /\ LET d == dependency[a] IN
       \/ d = NoApp /\ Reach(a, "ready", TRUE)
       \/ d # NoApp /\ state[d] = "none" /\ Reach(a, "ready", FALSE)
       \/ d # NoApp /\ state[d] = "stopped" /\ Reach(a, "ready", TRUE)
  /\ UNCHANGED <<database, counters, hosts, removal, eviction, todo, doomed, hadError, stop, unstopped>>

SetRunning(a) ==
  /\ step[a] = "ready"
  /\ counters' = counters \cup {a}
  /\ Change(a, "running", "deploying")
  /\ UNCHANGED <<known, subscribed, hosts, removal, eviction, todo, doomed, hadError, stop,
                 unstopped, mishaps>>

\* The loop that stops the containers of a deployment that failed, and then sets the
\* state back.  An instance that does not stop is ignored.  A stop that raises, for c,
\* ends the loop: the containers after it stay listed, some of them run, and so may c,
\* and the state stays.
CleanUp(a) ==
  LET faults == IF state[a] = "none" THEN 0 ELSE 1
  IN  \/ /\ mishaps' = mishaps + faults
         /\ Change(a, "stopped", "failed")
         /\ UNCHANGED <<hosts, unstopped>>
      \/ /\ mishaps' = mishaps + faults + 1
         /\ \E c \in ContainersOf(a) : /\ instances' = instances \cup {c}
                                     /\ unstopped' = unstopped \cup {c}
         /\ Change(a, "stopped", "failed")
         /\ UNCHANGED listed
      \/ /\ mishaps' = mishaps + faults + 1
         /\ \E c \in ContainersOf(a) : \E rest \in SUBSET ContainersOf(a) :
              \E running \in SUBSET (rest \cup {c}) : /\ listed' = listed \cup rest
                                                   /\ instances' = instances \cup running
         /\ step' = [step EXCEPT ![a] = "failed"]
         /\ UNCHANGED <<state, unstopped>>

\* deploy_app_containers.  The containers registered before it fails stay in the State
\* Database.
Deploy(a) ==
  /\ step[a] = "deploying"
  /\ \/ /\ state[a] # "none"
        /\ listed' = listed \cup ContainersOf(a)
        /\ instances' = instances \cup ContainersOf(a)
        /\ known' = known \cup ContainersOf(a)
        /\ subscribed' = subscribed \cup ContainersOf(a)
        /\ step' = [step EXCEPT ![a] = "deployed"]
        /\ UNCHANGED <<state, unstopped, mishaps>>
     \/ /\ \E added \in SUBSET ContainersOf(a) :
             /\ known' = known \cup added
             /\ subscribed' = IF state[a] = "none" THEN subscribed ELSE subscribed \cup added
        /\ CleanUp(a) /\ mishaps' <= MaxMishaps
  /\ UNCHANGED <<counters, removal, eviction, todo, doomed, hadError, stop>>

\* setup_containers_hadoop_network_task, before the script starts.
BeginDownload(a) ==
  /\ step[a] = "deployed" /\ a \in transfers
  /\ Change(a, "hdfs_downloading", "downloading")
  /\ UNCHANGED <<known, subscribed, counters, hosts, removal, eviction, todo, doomed, hadError,
                 stop, unstopped, mishaps>>

SetupNetwork(a) ==
  /\ step[a] = "deployed" /\ a \notin transfers
  /\ Reach(a, "launching", ContainersOf(a) \subseteq instances)
  /\ UNCHANGED <<database, counters, hosts, removal, eviction, todo, doomed, hadError, stop, unstopped>>

EndDownload(a) ==
  /\ step[a] = "downloading"
  /\ \/ /\ ContainersOf(a) \subseteq instances
        /\ Change(a, "running", "launching")
        /\ UNCHANGED mishaps
     \/ /\ IF ContainersOf(a) \subseteq instances THEN Fault ELSE UNCHANGED mishaps
        /\ step' = [step EXCEPT ![a] = "failed"]
        /\ UNCHANGED state
  /\ UNCHANGED <<known, subscribed, counters, hosts, removal, eviction, todo, doomed, hadError,
                 stop, unstopped>>

\* start_app_on_container_task and wait_for_app_on_container_task, on the master.
RunScript(a) ==
  /\ step[a] = "launching"
  /\ Reach(a, "computed", master[a] \in instances)
  /\ UNCHANGED <<database, counters, hosts, removal, eviction, todo, doomed, hadError, stop, unstopped>>

BeginUpload(a) ==
  /\ step[a] = "computed"
  /\ IF a \in transfers
     THEN Change(a, "hdfs_uploading", "uploading")
     ELSE step' = [step EXCEPT ![a] = "stopping"] /\ UNCHANGED state
  /\ UNCHANGED <<known, subscribed, counters, hosts, removal, eviction, todo, doomed, hadError,
                 stop, unstopped, mishaps>>

EndUpload(a) ==
  /\ step[a] = "uploading"
  /\ Reach(a, "stopping", master[a] \in instances)
  /\ UNCHANGED <<database, counters, hosts, removal, eviction, todo, doomed, hadError, stop, unstopped>>

StopCluster(a) ==
  /\ step[a] = "stopping"
  /\ Reach(a, "forgetting", master[a] \in instances)
  /\ todo' = [todo EXCEPT !["start"][a] = ContainersOf(a)]
  /\ UNCHANGED <<database, counters, hosts, removal, eviction, doomed, hadError, stop, unstopped>>

\* remove_container_from_app_db: out of the application, then out of the State
\* Database; each half may fail, and what is missing counts as an error.
Forget(c, erred) ==
  \/ /\ subscribed' = subscribed \ {c} /\ known' = known \ {c}
     /\ erred = (c \notin subscribed \/ c \notin known)
     /\ UNCHANGED mishaps
  \/ /\ Fault /\ erred
     /\ \E halves \in SUBSET {"app", "container"} \ {{"app", "container"}} :
          /\ subscribed' = IF "app" \in halves THEN subscribed \ {c} ELSE subscribed
          /\ known' = IF "container" \in halves THEN known \ {c} ELSE known

ForgetNext(a) ==
  /\ step[a] = "forgetting"
  /\ \E c \in todo["start"][a], erred \in BOOLEAN :
       /\ Forget(c, erred)
       /\ hadError' = IF erred THEN hadError \cup {a} ELSE hadError
       /\ todo' = [todo EXCEPT !["start"][a] = @ \ {c}]
  /\ UNCHANGED <<state, counters, hosts, step, removal, eviction, doomed, stop, unstopped>>

\* time.sleep of what is left of the period of the Scaler: removals that took
\* longer than the period make it negative, and it raises.
Sleep(a) ==
  /\ step[a] = "forgetting" /\ todo["start"][a] = {}
  /\ Reach(a, "queueing", TRUE)
  /\ UNCHANGED <<database, counters, hosts, removal, eviction, todo, doomed, hadError, stop, unstopped>>

Queued(x, cs) == stop' = [stop EXCEPT ![x] = [c \in Container |->
                            IF c \in cs THEN "queued" ELSE @[c]]]

\* Fault: the container with the ResourceManager is left out.
QueueWorkerStops(a) ==
  /\ step[a] = "queueing"
  /\ Queued("start", ContainersOf(a) \ {master[a]})
  /\ step' = [step EXCEPT ![a] = "finishing"]
  /\ UNCHANGED <<database, counters, hosts, removal, eviction, todo, doomed, hadError, unstopped, mishaps>>

QueueStops(a) ==
  /\ step[a] = "queueing"
  /\ Queued("start", ContainersOf(a))
  /\ step' = [step EXCEPT ![a] = "finishing"]
  /\ UNCHANGED <<database, counters, hosts, removal, eviction, todo, doomed, hadError, unstopped, mishaps>>

\* The errors of the removals are raised last.
Finish(a) ==
  /\ step[a] = "finishing"
  /\ Change(a, "stopped", IF a \in hadError THEN "failed" ELSE "done")
  /\ UNCHANGED <<known, subscribed, counters, hosts, removal, eviction, todo, doomed, hadError,
                 stop, unstopped, mishaps>>

-----------------------------------------------------------------------------
(* stop_app_on_container_task and stop_container *)

\* stop_app_on_container raises when it fails, and then the container stays; a
\* container evicted from its page is stopped without it.
StopApp(x, c) ==
  /\ stop[x][c] = "queued"
  /\ \/ /\ x = "eviction" \/ c \in instances
        /\ stop' = [stop EXCEPT ![x][c] = "stopping"]
        /\ UNCHANGED mishaps
     \/ /\ x # "eviction"
        /\ IF c \in instances THEN Fault ELSE UNCHANGED mishaps
        /\ stop' = [stop EXCEPT ![x][c] = "failed"]
  /\ UNCHANGED <<database, counters, hosts, tasks, unstopped>>

\* The failure of the command that stops the instance is ignored.  That of the next,
\* which removes its directory, would only show the task as failed in the end.
StopInstance(x, c) ==
  /\ stop[x][c] = "stopping"
  /\ \/ instances' = instances \ {c} /\ UNCHANGED <<unstopped, mishaps>>
     \/ Fault /\ unstopped' = unstopped \cup {c} /\ UNCHANGED instances
  /\ stop' = [stop EXCEPT ![x][c] = "unlisting"]
  /\ UNCHANGED <<database, counters, listed, tasks>>

Unlist(x, c) ==
  /\ stop[x][c] = "unlisting"
  /\ listed' = listed \ {c}
  /\ stop' = [stop EXCEPT ![x][c] = "done"]
  /\ UNCHANGED <<database, counters, instances, tasks, unstopped, mishaps>>

-----------------------------------------------------------------------------
(* remove_app_task and remove_containers_task *)

\* processRemoveApps: the containers that the page knows are the ones to go.
AskRemoval(a) ==
  /\ removal[a] = "idle" /\ a \in scenario.removals /\ state[a] # "none"
  /\ removal' = [removal EXCEPT ![a] = "forgetting"]
  /\ doomed' = [doomed EXCEPT ![a] = ContainersOf(a) \cap known \cap subscribed]
  /\ todo' = [todo EXCEPT !["removal"][a] = doomed'[a]]
  /\ UNCHANGED <<database, counters, hosts, step, eviction, hadError, stop, unstopped, mishaps>>

\* The errors are collected and never looked at.
RemoveNext(a) ==
  /\ removal[a] = "forgetting"
  /\ \E c \in todo["removal"][a], erred \in BOOLEAN :
       /\ Forget(c, erred)
       /\ todo' = [todo EXCEPT !["removal"][a] = @ \ {c}]
  /\ UNCHANGED <<state, counters, hosts, step, removal, eviction, doomed, hadError, stop, unstopped>>

QueueRemovalStops(a) ==
  /\ removal[a] = "forgetting" /\ todo["removal"][a] = {}
  /\ Queued("removal", doomed[a])
  /\ removal' = [removal EXCEPT ![a] = "leaving"]
  /\ UNCHANGED <<database, counters, hosts, step, eviction, todo, doomed, hadError,
                 unstopped, mishaps>>

\* Out of the applications of its user: an error raises, and the application stays.
LeaveUser(a) ==
  /\ removal[a] = "leaving"
  /\ \/ removal' = [removal EXCEPT ![a] = "deleting"] /\ UNCHANGED mishaps
     \/ a \in owned /\ Fault /\ removal' = [removal EXCEPT ![a] = "failed"]
  /\ UNCHANGED <<database, counters, hosts, step, eviction, todo, doomed, hadError, stop, unstopped>>

\* The error of the last request is not looked at.
DeleteApp(a) ==
  /\ removal[a] = "deleting"
  /\ \/ state' = [state EXCEPT ![a] = "none"] /\ UNCHANGED mishaps
     \/ Fault /\ UNCHANGED state
  /\ removal' = [removal EXCEPT ![a] = "done"]
  /\ UNCHANGED <<known, subscribed, counters, hosts, step, eviction, todo, doomed, hadError,
                 stop, unstopped>>

\* processRemoveContainers, for a container on the page.
AskEviction(c) ==
  /\ eviction[c] = "idle" /\ c \in scenario.evictions /\ c \in known
  /\ eviction' = [eviction EXCEPT ![c] = "asked"]
  /\ UNCHANGED <<database, counters, hosts, step, removal, todo, doomed, hadError, stop,
                 unstopped, mishaps>>

\* remove_container_from_db leaves the application its list; the error is raised
\* when the stop is queued.
Evict(c) ==
  /\ eviction[c] = "asked"
  /\ \/ /\ known' = known \ {c}
        /\ eviction' = [eviction EXCEPT ![c] = IF c \in known THEN "done" ELSE "failed"]
        /\ UNCHANGED mishaps
     \/ /\ Fault /\ eviction' = [eviction EXCEPT ![c] = "failed"] /\ UNCHANGED known
  /\ Queued("eviction", {c})
  /\ UNCHANGED <<state, subscribed, counters, hosts, step, removal, todo, doomed, hadError, unstopped>>

-----------------------------------------------------------------------------
StartStep(a) ==
  \/ Dependency(a) \/ SetRunning(a) \/ Deploy(a) \/ BeginDownload(a) \/ SetupNetwork(a)
  \/ EndDownload(a) \/ RunScript(a) \/ BeginUpload(a) \/ EndUpload(a) \/ StopCluster(a)
  \/ ForgetNext(a) \/ Sleep(a) \/ QueueStops(a) \/ Finish(a)

RemovalStep(a) == RemoveNext(a) \/ QueueRemovalStops(a) \/ LeaveUser(a) \/ DeleteApp(a)

StopStep(x, c) == StopApp(x, c) \/ StopInstance(x, c) \/ Unlist(x, c)

Next ==
  /\ \/ \E a \in App : Queue(a) \/ StartStep(a) \/ AskRemoval(a) \/ RemovalStep(a)
     \/ \E c \in Container : AskEviction(c) \/ Evict(c) \/ \E x \in Origin : StopStep(x, c)
  /\ UNCHANGED scenario

Spec == Init /\ [][Next]_vars
-----------------------------------------------------------------------------
(* Properties *)

Quiet ==
  /\ \A a \in App : step[a] \in {"idle", "depending", "done", "failed"}
                  /\ removal[a] \in {"idle", "done", "failed"}
  /\ \A c \in Container : eviction[c] # "asked"
                        /\ \A x \in Origin : stop[x][c] \in {"none", "done", "failed"}

\* A task that has to do with the container was shown as failed.
Reported(c) ==
  \/ step[owner[c]] = "failed" \/ removal[owner[c]] = "failed" \/ eviction[c] = "failed"
  \/ \E x \in Origin : stop[x][c] = "failed"

\* With nothing under way, an instance that no page knows any more has a failed task
\* that tells of it: the State Database forgets a container before the task that
\* stops it begins.
OrphansReported == \A c \in instances \ known : Reported(c) \/ c \in unstopped

\* An application that ended well leaves nothing anywhere, though removals of it or
\* of its containers came in between.
CleanEnd ==
  \A c \in Container : step[owner[c]] = "done" =>
    c \notin instances \cup listed \cup subscribed \cup known \/ Reported(c) \/ c \in unstopped

\* A start that is left waiting for another application waits for one whose start
\* failed, which leaves it in its state for good (wait_for_app_dependency).
WaitersProceed ==
  \A a \in App :
    step[a] = "depending" /\ dependency[a] # NoApp /\ state[dependency[a]] \notin {"none", "stopped"}
      => step[dependency[a]] = "failed"

\* With nothing under way all is accounted for, but for the containers whose failing
\* stop is ignored (start_hadoop_app_task, remove_app_task, stop_container).
Accounted == Quiet => OrphansReported /\ CleanEnd /\ WaitersProceed
=============================================================================
