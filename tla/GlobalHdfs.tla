------------------------------ MODULE GlobalHdfs ------------------------------
(***************************************************************************)
(* The global HDFS: the buttons that start and stop it with the browser     *)
(* that the web server keeps for its page (ui/views/hdfs), the tasks        *)
(* start_global_hdfs_task, stop_hdfs_task and remove_app_task, and the      *)
(* monitor of its replication (ui/background_tasks.py).  Nothing keeps a    *)
(* stop from being asked for while a start is under way, or a start while   *)
(* the containers of the last one are still being stopped.                  *)
(*                                                                         *)
(* The nodes have fixed names, so that those of two starts are the same.    *)
(* The loops over the nodes are one step each.                              *)
(***************************************************************************)
EXTENDS Naturals, FiniteSets

CONSTANTS
  Node, namenode,   \* the containers, and the one with the NameNode
  Begin, End,       \* uses of the button that starts, and that stops
  MaxSlips          \* bound on failing playbooks and requests

VARIABLES
  hdfsApp,     \* whether the State Database has the application
  appNodes,    \* containers the application has there
  dbNodes,     \* containers the State Database has
  fileNodes,   \* containers in the inventory
  liveNodes,   \* containers that run
  frontend,    \* whether the frontend container runs
  begin,       \* begin[b]: where start_global_hdfs_task is
  end,         \* end[e]: where stop_hdfs_task or remove_app_task is
  batch,       \* batch[e]: the containers it was given
  halt,        \* halt[e][n]: the task it has queued to stop n
  monitor,     \* monitor[b]: the monitor that b has queued
  driver, closing,  \* the browser of the page: whether it is open, and closing
  ignored,     \* whether an error was not looked at
  slips

places   == <<hdfsApp, appNodes, dbNodes, fileNodes, liveNodes, frontend>>
progress == <<begin, end, batch, halt, monitor>>
browser  == <<driver, closing>>
vars     == <<places, progress, browser, ignored, slips>>

TypeOK ==
  /\ hdfsApp \in BOOLEAN /\ frontend \in BOOLEAN
  /\ appNodes \subseteq Node /\ dbNodes \subseteq Node
  /\ fileNodes \subseteq Node /\ liveNodes \subseteq Node
  /\ begin \in [Begin -> {"idle", "adding", "listing", "starting", "network", "fronting",
                          "done", "failed"}]
  /\ end \in [End -> {"idle", "cluster", "forgetting", "sleeping", "deleting", "cleaning",
                      "unfronting", "queueing", "removing", "done", "failed"}]
  /\ batch \in [End -> SUBSET Node]
  /\ halt \in [End -> [Node -> {"none", "withApp", "alone", "unlisting", "done", "failed"}]]
  /\ monitor \in [Begin -> {"none", "waiting", "looping", "over", "crashed"}]
  /\ driver \in BOOLEAN /\ closing \in BOOLEAN /\ ignored \in BOOLEAN
  /\ slips \in 0..MaxSlips

Init ==
  /\ hdfsApp = FALSE /\ frontend = FALSE
  /\ appNodes = {} /\ dbNodes = {} /\ fileNodes = {} /\ liveNodes = {}
  /\ begin = [b \in Begin |-> "idle"]
  /\ end = [e \in End |-> "idle"]
  /\ batch = [e \in End |-> {}]
  /\ halt = [e \in End |-> [n \in Node |-> "none"]]
  /\ monitor = [b \in Begin |-> "none"]
  /\ driver = FALSE /\ closing = FALSE /\ ignored = FALSE
  /\ slips = 0

Slip == slips < MaxSlips /\ slips' = slips + 1

\* A playbook of b that goes on to l, or raises; without what it needs it raises.
Proceed(b, l, possible) ==
  \/ possible /\ begin' = [begin EXCEPT ![b] = l] /\ UNCHANGED slips
  \/ /\ IF possible THEN Slip ELSE UNCHANGED slips
     /\ begin' = [begin EXCEPT ![b] = "failed"]

-----------------------------------------------------------------------------
(* The page *)

\* start_global_hdfs, from a page without the application.
PressOn(b) ==
  /\ begin[b] = "idle" /\ ~hdfsApp
  /\ begin' = [begin EXCEPT ![b] = "adding"]
  /\ driver' = TRUE
  /\ closing' = (closing /\ driver)
  /\ UNCHANGED <<places, end, batch, halt, monitor, ignored, slips>>

\* stop_global_hdfs: without a namenode, the application is only removed.
PressOff(e) ==
  /\ end[e] = "idle" /\ hdfsApp
  /\ batch' = [batch EXCEPT ![e] = appNodes \cap dbNodes]
  /\ end' = [end EXCEPT ![e] = IF namenode \in batch'[e] THEN "cluster" ELSE "removing"]
  /\ driver' = FALSE
  /\ closing' = (closing \/ driver)
  /\ UNCHANGED <<places, begin, halt, monitor, ignored, slips>>

Ready == hdfsApp /\ namenode \in appNodes \cap dbNodes /\ ~closing

\* The page of a cluster that is ready opens the browser again.
Show ==
  /\ Ready /\ ~driver
  /\ driver' = TRUE
  /\ UNCHANGED <<places, progress, closing, ignored, slips>>

DriverDies ==
  /\ driver /\ Slip
  /\ driver' = FALSE
  /\ UNCHANGED <<places, progress, closing, ignored>>

-----------------------------------------------------------------------------
(* start_global_hdfs_task: nothing is rolled back *)

\* add_app_task: one that exists is an error; its image may fail to build.
AddApp(b) ==
  /\ begin[b] = "adding"
  /\ Proceed(b, "listing", ~hdfsApp)
  /\ hdfsApp' = TRUE
  /\ UNCHANGED <<appNodes, dbNodes, fileNodes, liveNodes, frontend, end, batch, halt,
                 monitor, browser, ignored>>

\* add_containers_to_inventory
ListNodes(b) ==
  /\ begin[b] = "listing"
  /\ fileNodes' = fileNodes \cup Node
  /\ begin' = [begin EXCEPT ![b] = "starting"]
  /\ UNCHANGED <<hdfsApp, appNodes, dbNodes, liveNodes, frontend, end, batch, halt, monitor,
                 browser, ignored, slips>>

\* start_containers_with_app: the instances, the State Database, the application.
StartNodes(b) ==
  /\ begin[b] = "starting"
  /\ Proceed(b, "network", hdfsApp)
  /\ \E live \in SUBSET Node :
       /\ begin'[b] = "network" => live = Node
       /\ liveNodes' = liveNodes \cup live
       /\ \E added \in {{}, live} :
            /\ begin'[b] = "network" => added = Node
            /\ dbNodes' = dbNodes \cup added
            /\ appNodes' = IF hdfsApp THEN appNodes \cup added ELSE appNodes
  /\ UNCHANGED <<hdfsApp, fileNodes, frontend, end, batch, halt, monitor, browser, ignored>>

SetupNetwork(b) ==
  /\ begin[b] = "network"
  /\ Proceed(b, "fronting", Node \subseteq liveNodes)
  /\ UNCHANGED <<places, end, batch, halt, monitor, browser, ignored>>

\* start_hdfs_frontend, and the monitor is queued.
StartFrontend(b) ==
  /\ begin[b] = "fronting"
  /\ Proceed(b, "done", TRUE)
  /\ IF begin'[b] = "done"
     THEN frontend' = TRUE /\ monitor' = [monitor EXCEPT ![b] = "waiting"]
     ELSE UNCHANGED <<frontend, monitor>>
  /\ UNCHANGED <<hdfsApp, appNodes, dbNodes, fileNodes, liveNodes, end, batch, halt,
                 browser, ignored>>

\* Fault: the loop goes on with the application that it read first.
LookOnce(b) ==
  /\ monitor[b] \in {"waiting", "looping"}
  /\ monitor' = [monitor EXCEPT ![b] =
       IF @ = "looping" \/ (hdfsApp /\ namenode \in appNodes) THEN "looping"
       ELSE IF hdfsApp THEN "over" ELSE "crashed"]
  /\ UNCHANGED <<places, begin, end, batch, halt, browser, ignored, slips>>

\* monitor_global_hdfs_replication: one look at the State Database.  Without the
\* application the list of hosts is not set, and the task raises.
Look(b) ==
  /\ monitor[b] \in {"waiting", "looping"}
  /\ monitor' = [monitor EXCEPT ![b] =
       IF ~hdfsApp THEN "crashed" ELSE IF namenode \in appNodes THEN "looping" ELSE "over"]
  /\ UNCHANGED <<places, begin, end, batch, halt, browser, ignored, slips>>

-----------------------------------------------------------------------------
(* stop_hdfs_task *)

\* A step of e that may raise.
Continue(e, from, to) ==
  /\ end[e] = from
  /\ \/ end' = [end EXCEPT ![e] = to] /\ UNCHANGED slips
     \/ Slip /\ end' = [end EXCEPT ![e] = "failed"]

StopCluster(e) ==
  /\ Continue(e, "cluster", "forgetting")
  /\ UNCHANGED <<places, begin, batch, halt, monitor, browser, ignored>>

\* remove_container_from_app_db for each: what remains after an error is not told.
ForgetNodes(e) ==
  /\ end[e] = "forgetting"
  /\ \E kept \in SUBSET batch[e] :
       /\ IF kept = {} THEN UNCHANGED slips ELSE Slip
       /\ appNodes' = appNodes \ (batch[e] \ kept)
       /\ dbNodes' = dbNodes \ (batch[e] \ kept)
       /\ ignored' = (ignored \/ kept # {})
  /\ end' = [end EXCEPT ![e] = "sleeping"]
  /\ UNCHANGED <<hdfsApp, fileNodes, liveNodes, frontend, begin, batch, halt, monitor, browser>>

\* What is left of the period of the Scaler may be negative, which raises.
Sleep(e) ==
  /\ Continue(e, "sleeping", "deleting")
  /\ UNCHANGED <<places, begin, batch, halt, monitor, browser, ignored>>

DeleteOrIgnore ==
  \/ hdfsApp' = FALSE /\ appNodes' = {} /\ UNCHANGED <<ignored, slips>>
  \/ hdfsApp /\ Slip /\ ignored' = TRUE /\ UNCHANGED <<hdfsApp, appNodes>>

DeleteApp(e) ==
  /\ end[e] = "deleting"
  /\ DeleteOrIgnore
  /\ end' = [end EXCEPT ![e] = "cleaning"]
  /\ UNCHANGED <<dbNodes, fileNodes, liveNodes, frontend, begin, batch, halt, monitor, browser>>

\* clean_hdfs for each: one that raises leaves all the containers running.
CleanNodes(e) ==
  /\ Continue(e, "cleaning", "unfronting")
  /\ UNCHANGED <<places, begin, batch, halt, monitor, browser, ignored>>

StopFrontend(e) ==
  /\ Continue(e, "unfronting", "queueing")
  /\ frontend' = (frontend /\ end'[e] = "failed")
  /\ UNCHANGED <<hdfsApp, appNodes, dbNodes, fileNodes, liveNodes, begin, batch, halt,
                 monitor, browser, ignored>>

Halt(e, how) == halt' = [halt EXCEPT ![e] = [n \in Node |->
                           IF n \in batch[e] THEN how ELSE @[n]]]

\* Fault: only the datanodes are stopped.
QueueDatanodeStops(e) ==
  /\ end[e] = "queueing"
  /\ halt' = [halt EXCEPT ![e] = [n \in Node |->
                IF n \in batch[e] \ {namenode} THEN "alone" ELSE @[n]]]
  /\ end' = [end EXCEPT ![e] = "done"]
  /\ UNCHANGED <<places, begin, batch, monitor, browser, ignored, slips>>

QueueStops(e) ==
  /\ end[e] = "queueing"
  /\ Halt(e, "alone")
  /\ end' = [end EXCEPT ![e] = "done"]
  /\ UNCHANGED <<places, begin, batch, monitor, browser, ignored, slips>>

\* remove_app_task of an application without a namenode
RemoveApp(e) ==
  /\ end[e] = "removing"
  /\ dbNodes' = dbNodes \ batch[e]
  /\ DeleteOrIgnore
  /\ Halt(e, "withApp")
  /\ end' = [end EXCEPT ![e] = "done"]
  /\ UNCHANGED <<fileNodes, liveNodes, frontend, begin, batch, monitor, browser>>

\* stop_app_on_container_task, whose failure leaves the container, or stop_container,
\* whose failing stop is ignored.
StopNode(e, n) ==
  /\ \/ /\ halt[e][n] = "withApp"
        /\ IF n \in liveNodes THEN Slip ELSE UNCHANGED slips
        /\ halt' = [halt EXCEPT ![e][n] = "failed"]
        /\ UNCHANGED <<liveNodes, ignored>>
     \/ /\ halt[e][n] = "alone" \/ (halt[e][n] = "withApp" /\ n \in liveNodes)
        /\ \/ liveNodes' = liveNodes \ {n} /\ UNCHANGED <<ignored, slips>>
           \/ Slip /\ ignored' = TRUE /\ UNCHANGED liveNodes
        /\ halt' = [halt EXCEPT ![e][n] = "unlisting"]
  /\ UNCHANGED <<hdfsApp, appNodes, dbNodes, fileNodes, frontend, begin, end, batch, monitor, browser>>

UnlistNode(e, n) ==
  /\ halt[e][n] = "unlisting"
  /\ fileNodes' = fileNodes \ {n}
  /\ halt' = [halt EXCEPT ![e][n] = "done"]
  /\ UNCHANGED <<hdfsApp, appNodes, dbNodes, liveNodes, frontend, begin, end, batch, monitor,
                 browser, ignored, slips>>

-----------------------------------------------------------------------------
BeginStep(b) ==
  AddApp(b) \/ ListNodes(b) \/ StartNodes(b) \/ SetupNetwork(b) \/ StartFrontend(b)

EndStep(e) ==
  \/ StopCluster(e) \/ ForgetNodes(e) \/ Sleep(e) \/ DeleteApp(e) \/ CleanNodes(e)
  \/ StopFrontend(e) \/ QueueStops(e) \/ RemoveApp(e)
  \/ \E n \in Node : StopNode(e, n) \/ UnlistNode(e, n)

Next ==
  \/ \E b \in Begin : PressOn(b) \/ BeginStep(b) \/ Look(b)
  \/ \E e \in End : PressOff(e) \/ EndStep(e)
  \/ Show \/ DriverDies

Spec == Init /\ [][Next]_vars
-----------------------------------------------------------------------------
(* Properties *)

Quiet ==
  /\ \A b \in Begin : begin[b] \in {"idle", "done", "failed"}
  /\ \A e \in End : /\ end[e] \in {"idle", "done", "failed"}
                    /\ \A n \in Node : halt[e][n] \in {"none", "done", "failed"}

Failed ==
  \/ \E b \in Begin : begin[b] = "failed"
  \/ \E e \in End : end[e] = "failed" \/ \E n \in Node : halt[e][n] = "failed"

\* With nothing under way, what is left of the cluster on hosts and in the inventory
\* is on the Containers page, unless a task was shown as failed or an error was
\* ignored: whichever steps of starts and stops overlap, and although a stop works
\* on the containers there were when it was asked for.
NothingOutOfReach ==
  Quiet /\ ~Failed /\ ~ignored => fileNodes \cup liveNodes \subseteq dbNodes

\* Once the application is gone for good, every monitor ends.
MonitorsEnd ==
  \A b \in Begin : <>[](~hdfsApp) => <>[](monitor[b] \notin {"waiting", "looping"})
=============================================================================
