---------------------------- MODULE MCOperations ----------------------------
(***************************************************************************)
(* Instances for TLC of three components that run beside each other and     *)
(* share no state: the registry of pending tasks, the global HDFS and the   *)
(* extension of volumes.  Every behaviour is one of one of them, the others *)
(* staying where they begin.                                                *)
(***************************************************************************)
EXTENDS PendingTasks

CONSTANTS
  r1, r2, nn, d1, b1, b2, e1,
  Node, Begin, End, MaxSlips, Host, MaxRounds, MaxBreaks

ASSUME BoundsAssumption == MaxSlips \in Nat /\ MaxRounds \in Nat /\ MaxBreaks \in Nat

VARIABLES
  part,
  hdfsApp, appNodes, dbNodes, fileNodes, liveNodes, frontend, begin, end, batch, halt,
  monitor, driver, closing, ignored, slips,
  asking, disking, hostList, measured, polls, calls, volume, heldBack, breaks

-----------------------------------------------------------------------------
(* Values *)

TwoRequests == {r1, r2}
Operations ==
  {ProcessAddApp, ProcessAddHost, ProcessAddUser, ProcessStartApp, ProcessStopApp,
   ProcessRemoveApps, ProcessRemoveContainersFromApp, ProcessAddDisksToHosts,
   ProcessAddContainers, ProcessRemoveContainers, ProcessRemoveHosts,
   ProcessSubscribeAppsToUser, ProcessDesubscribeAppsFromUser, ProcessRemoveUsers,
   AddDirHDFS, AddFileHDFS, GetFileHDFS, RemoveFileHDFS, StartGlobalHdfs, StopGlobalHdfs,
   EnableMonitor, ApiStopApp}

\* An application that is started and stopped; every operation by itself.
StartAndStop == [r \in TwoRequests |-> IF r = r1 THEN ProcessStartApp ELSE ProcessStopApp]
ByThemselves == {[r \in TwoRequests |-> IF r = r1 THEN o ELSE ProcessRemoveHosts] :
                   o \in Operations}
Requested == {StartAndStop} \cup ByThemselves

TwoNodes == {nn, d1}
TwoBegin == {b1, b2}
OneEnd   == {e1}

-----------------------------------------------------------------------------
(* The components *)

Hdfs   == INSTANCE GlobalHdfs WITH namenode <- nn
Disks  == INSTANCE DiskExtension

hdfs   == <<hdfsApp, appNodes, dbNodes, fileNodes, liveNodes, frontend, begin, end, batch,
            halt, monitor, driver, closing, ignored, slips>>
disks  == <<asking, disking, hostList, measured, polls, calls, volume, heldBack, breaks>>
all    == <<part, vars, hdfs, disks>>

MCInit ==
  /\ part \in {"registry", "hdfs", "disks"}
  /\ IF part = "registry" THEN Init   ELSE Init /\ op = StartAndStop
  /\ Hdfs!Init
  /\ Disks!Init /\ (part # "disks" => asking = [hosts |-> Host, idle |-> {}, toVolume |-> TRUE,
                                                timeout |-> 0])

Registry(A) == part = "registry" /\ A /\ UNCHANGED <<part, hdfs, disks>>
InHdfs(A)   == part = "hdfs" /\ A /\ UNCHANGED <<part, vars, disks>>
OnDisks(A)  == part = "disks" /\ A /\ UNCHANGED <<part, vars, hdfs>>

MCNext == Registry(Next) \/ InHdfs(Hdfs!Next) \/ OnDisks(Disks!Next)

\* What threads and workers do, each of it finitely often.
Work ==
  \/ Registry((\E r \in Request : RequestStep(r)) \/ \E t \in Task : TaskStep(t))
  \/ InHdfs((\E b \in Begin : Hdfs!BeginStep(b)) \/ \E e \in End : Hdfs!EndStep(e))

\* It is carried on with; somebody keeps loading pages, and a monitor wakes up again
\* and again.  Nobody has to ask for anything.
MCFairness ==
  /\ WF_all(Work)
  /\ \A p \in Page : WF_all(Registry(PageStep(p)))
  /\ \A b \in Begin : WF_all(InHdfs(Hdfs!Look(b)))

MCSpec == MCInit /\ [][MCNext]_all /\ MCFairness
-----------------------------------------------------------------------------
(* Properties: those of the components *)

\* The types of the registry, the global HDFS and the extension of volumes.
TypesOK == TypeOK /\ Hdfs!TypeOK /\ Disks!TypeOK

\* What is left of the global HDFS is on the Containers page (start_global_hdfs_task,
\* stop_hdfs_task).
NothingOutOfReach == Hdfs!NothingOutOfReach

\* The monitors end after the global HDFS (monitor_global_hdfs_replication).
MonitorsEnd == Hdfs!MonitorsEnd

\* A volume is extended once (add_disks_to_hosts_task).
ExtendedOnce == Disks!ExtendedOnce
=============================================================================
