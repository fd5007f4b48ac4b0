------------------------------ MODULE Inventory ------------------------------
(***************************************************************************)
(* The tasks of ui/background_tasks.py that change the inventory file, and *)
(* the instances that they start and stop on the hosts under the names the *)
(* file gives them.  Each one takes the redis lock, reads the whole file,  *)
(* edits its copy, writes the whole file and releases the lock.  The       *)
(* script that records the measured bandwidth of a disk                    *)
(* (scripts/hosts/update_host_disks_bw_inv.py) does the same without the   *)
(* lock.                                                                   *)
(***************************************************************************)
EXTENDS InventoryFile, FiniteSets

CONSTANTS
  Client,           \* executions of tasks and scripts at the same time
  Initial,          \* the inventory at the beginning
  Counts,           \* how many containers a task may ask for
  Uses,             \* of what else may be in use, the combinations there are
  MaxOps,           \* MaxOps[u]: bound on the operations asked for, with u in use
  MaxStopFailures   \* bound on the instances that cannot be stopped

ASSUME InitialAssumption ==
  /\ IsContents(Initial)
  /\ \A h \in DOMAIN Initial : Initial[h] = [containers |-> <<>>, measured |-> FALSE]
ASSUME BoundAssumption ==
  /\ Counts \subseteq Nat \ {0} /\ MaxOps \in [Uses -> Nat] /\ MaxStopFailures \in Nat
  /\ Uses \subseteq SUBSET {"hdfs", "measures", "failures"}

VARIABLES
  used,      \* the global HDFS, the script that measures disks, stops that fail
  file,      \* the contents of the inventory file
  holder,    \* the clients that hold the lock: one or none
  pc,        \* pc[p]: where client p is
  op,        \* op[p]: the operation of client p on the inventory
  copy,      \* copy[p]: AnsibleYamlInventory.data
  mine,      \* mine[p]: names given to containers that p is going to start
  instances, \* instances[h]: names of the instances that host h runs
  missing,   \* missing[h]: names h was to start an instance under, and did not
  status,    \* status[h]: what the platform has done with host h
  ops, stopFailures   \* events so far, for the bounds

hosts == <<instances, missing>>
vars  == <<used, file, holder, pc, op, copy, mine, hosts, status, ops, stopFailures>>

\* Names that are an instance's, or were to be.
Taken(h) == instances[h] \cup missing[h]

TypeOK ==
  /\ used \in Uses
  /\ IsContents(file)
  /\ holder \subseteq Client
  /\ pc \in [Client -> {"idle", "stopping", "waiting", "holding", "edited", "writing",
                        "releasing", "starting"}]
  /\ op \in [Client -> Operation \cup {NoOp}]
  /\ DOMAIN copy = Client /\ \A p \in Client : IsContents(copy[p])
  /\ mine \in [Client -> SUBSET Name]
  /\ instances \in [Host -> SUBSET Name] /\ missing \in [Host -> SUBSET Name]
  /\ status \in [Host -> {"new", "adding", "known", "gone"}]
  /\ ops \in Nat /\ stopFailures \in Nat

Init ==
  /\ used \in Uses
  /\ file = Initial /\ holder = {}
  /\ pc = [p \in Client |-> "idle"]
  /\ op = [p \in Client |-> NoOp]
  /\ copy = [p \in Client |-> Nothing]
  /\ mine = [p \in Client |-> {}]
  /\ instances = [h \in Host |-> {}] /\ missing = [h \in Host |-> {}]
  /\ status = [h \in Host |-> IF h \in DOMAIN Initial THEN "known" ELSE "new"]
  /\ ops = 0 /\ stopFailures = 0

Goto(p, l) == pc' = [pc EXCEPT ![p] = l]

-----------------------------------------------------------------------------
(* The tasks *)

Ask(p, o, l) ==
  /\ pc[p] = "idle" /\ ops < MaxOps[used]
  /\ ops' = ops + 1
  /\ op' = [op EXCEPT ![p] = o]
  /\ Goto(p, l)
  /\ UNCHANGED <<used, file, holder, copy, mine, hosts, stopFailures>>

\* deploy_app_containers and start_containers_task_v2
DeployContainers(p, h) == \E n \in Counts :
  /\ status[h] = "known"
  /\ Ask(p, [kind |-> "add_containers", host |-> h, n |-> n], "waiting")
  /\ UNCHANGED status

\* start_global_hdfs_task, which starts one datanode on a host; the web interface
\* offers it while there is no global HDFS.
StartHdfs(p, h) ==
  /\ "hdfs" \in used /\ status[h] = "known" /\ Hdfs(h) \notin Taken(h)
  /\ \A q \in Client : op[q] # [kind |-> "add_hdfs", host |-> h]
  /\ Ask(p, [kind |-> "add_hdfs", host |-> h], "waiting")
  /\ UNCHANGED status

\* add_host_task, for a host that the platform has never had
AddHost(p, h) == \E n \in Counts :
  /\ status[h] = "new"
  /\ status' = [status EXCEPT ![h] = "adding"]
  /\ Ask(p, [kind |-> "add_host", host |-> h, n |-> n], "waiting")

\* remove_host_task, once the State Database has dropped the host
RemoveHost(p, h) ==
  /\ status[h] = "known"
  /\ status' = [status EXCEPT ![h] = "gone"]
  /\ Ask(p, [kind |-> "remove_host", host |-> h], "waiting")

\* update_host_disks_bw_inv.py, run by the playbook that measures the disks
Measure(p, h) ==
  /\ "measures" \in used /\ status[h] = "known"
  /\ Ask(p, [kind |-> "measure", host |-> h], "holding")
  /\ UNCHANGED status

\* stop_container, also for the containers of a start that failed, which
\* deploy_app_containers asks for at once.  Only one task at a time removes a container: the names that
\* two tasks for the same container would release twice are a hazard apart.
RemoveContainer(p, h) == \E c \in Taken(h) :
  /\ \A q \in Client :
       op[q] # [kind |-> "remove_container", host |-> h, name |-> c]
  /\ Ask(p, [kind |-> "remove_container", host |-> h, name |-> c], "stopping")
  /\ UNCHANGED status

\* Its first half; a failure is remembered, and raised at the end.
StopInstance(p) ==
  /\ pc[p] = "stopping"
  /\ \/ /\ instances' = [instances EXCEPT ![op[p].host] = @ \ {op[p].name}]
        /\ missing' = [missing EXCEPT ![op[p].host] = @ \ {op[p].name}]
        /\ UNCHANGED stopFailures
     \/ /\ "failures" \in used /\ stopFailures < MaxStopFailures
        /\ stopFailures' = stopFailures + 1
        /\ UNCHANGED hosts
  /\ Goto(p, "waiting")
  /\ UNCHANGED <<used, file, holder, op, copy, mine, status, ops>>

\* The playbooks that start the containers under the names they were given, and
\* configure a new host.  They may fail, having started some of the containers: all
\* the names stay in the file.  A new host may have come into use before that, or be
\* given up.
StartInstances(p) == \E started \in SUBSET mine[p], new \in {"known", "gone"} :
  /\ pc[p] = "starting"
  /\ instances' = [instances EXCEPT ![op[p].host] = @ \cup started]
  /\ missing' = [missing EXCEPT ![op[p].host] = @ \cup (mine[p] \ started)]
  /\ status' = [status EXCEPT ![op[p].host] = IF @ = "adding" THEN new ELSE @]
  /\ mine' = [mine EXCEPT ![p] = {}]
  /\ op' = [op EXCEPT ![p] = NoOp]
  /\ Goto(p, "idle")
  /\ UNCHANGED <<used, file, holder, copy, ops, stopFailures>>

-----------------------------------------------------------------------------
(* with redis_server.lock(lock_key): one operation of update_inventory_file *)

\* Fault: the lock lets two clients in.
AcquireShared(p) ==
  /\ pc[p] = "waiting" /\ Cardinality(holder) < 2
  /\ holder' = holder \cup {p}
  /\ Goto(p, "holding")
  /\ UNCHANGED <<used, file, op, copy, mine, hosts, status, ops, stopFailures>>

Acquire(p) ==
  /\ pc[p] = "waiting" /\ holder = {}
  /\ holder' = {p}
  /\ Goto(p, "holding")
  /\ UNCHANGED <<used, file, op, copy, mine, hosts, status, ops, stopFailures>>

\* AnsibleYamlInventory(), and the edition of its data.
Load(p) ==
  /\ pc[p] = "holding" /\ ~Raises(op[p], file)
  /\ copy' = [copy EXCEPT ![p] = Edit(op[p], file)]
  /\ mine' = [mine EXCEPT ![p] = ToSet(NewNames(op[p], file))]
  /\ Goto(p, "edited")
  /\ UNCHANGED <<used, file, holder, op, hosts, status, ops, stopFailures>>

LoadRaises(p) ==
  /\ pc[p] = "holding" /\ Raises(op[p], file)
  /\ op' = [op EXCEPT ![p] = NoOp]
  /\ Goto(p, "releasing")
  /\ UNCHANGED <<used, file, holder, copy, mine, hosts, status, ops, stopFailures>>

\* open(..., 'w') empties the file ...
Truncate(p) ==
  /\ pc[p] = "edited"
  /\ file' = Nothing
  /\ Goto(p, "writing")
  /\ UNCHANGED <<used, holder, op, copy, mine, hosts, status, ops, stopFailures>>

\* ... and yaml.dump writes all of it.
Write(p) ==
  /\ pc[p] = "writing"
  /\ file' = copy[p]
  /\ copy' = [copy EXCEPT ![p] = Nothing]
  /\ Goto(p, "releasing")
  /\ UNCHANGED <<used, holder, op, mine, hosts, status, ops, stopFailures>>

\* Fault: the lock is not released when the operation raises.
ReleaseWhenDone(p) ==
  /\ pc[p] = "releasing"
  /\ holder' = IF op[p] = NoOp THEN holder ELSE holder \ {p}
  /\ Goto(p, IF mine[p] = {} THEN "idle" ELSE "starting")
  /\ op' = [op EXCEPT ![p] = IF mine[p] = {} THEN NoOp ELSE @]
  /\ UNCHANGED <<used, file, copy, mine, hosts, status, ops, stopFailures>>

Release(p) ==
  /\ pc[p] = "releasing"
  /\ holder' = holder \ {p}
  /\ Goto(p, IF mine[p] = {} THEN "idle" ELSE "starting")
  /\ op' = [op EXCEPT ![p] = IF mine[p] = {} THEN NoOp ELSE @]
  /\ UNCHANGED <<used, file, copy, mine, hosts, status, ops, stopFailures>>

-----------------------------------------------------------------------------
LockedStep(p) ==
  \/ Load(p) \/ LoadRaises(p) \/ Truncate(p) \/ Write(p) \/ Release(p)

Next == \E p \in Client :
  \/ \E h \in Host : \/ DeployContainers(p, h) \/ StartHdfs(p, h) \/ AddHost(p, h)
                     \/ RemoveHost(p, h) \/ Measure(p, h) \/ RemoveContainer(p, h)
  \/ StopInstance(p) \/ StartInstances(p)
  \/ Acquire(p) \/ LockedStep(p)

\* A task goes on; redis gives the lock, which has no timeout, to some client
\* that keeps asking for it.
Fairness == \A p \in Client :
  WF_vars(StopInstance(p) \/ StartInstances(p) \/ LockedStep(p)) /\ SF_vars(Acquire(p))

Spec     == Init /\ [][Next]_vars
FairSpec == Spec /\ Fairness
-----------------------------------------------------------------------------
(* Properties *)

\* While the global HDFS is not in use, every operation takes the lock and stops do
\* not fail (nothing is "used"), no two containers of a host get the same name, and
\* none gets the name of an instance that the host still runs or of one that a
\* failed start has left in the file (add_containers_to_hosts).
NamesAreFresh ==
  used = {} => \A p \in Client : pc[p] = "starting" =>
    /\ mine[p] \cap Taken(op[p].host) = {}
    /\ \A q \in Client \ {p} :
         pc[q] = "starting" /\ op[q].host = op[p].host => mine[p] \cap mine[q] = {}

\* The containers that the platform numbers get ever larger numbers along the list
\* of their host, so that no name is given twice.  (add_containers_to_hosts: "if
\* last container is named 'host0-cont2', newer ones should be named
\* 'host0-cont3', 'host0-cont4', and so on".)
NumbersGrow ==
  \A h \in DOMAIN file :
    LET list == file[h].containers
    IN  \A i, j \in DOMAIN list :
          i < j /\ list[i].kind = "cont" /\ list[j].kind = "cont" => list[i].num < list[j].num

\* They do while the global HDFS is not in use, even with the script that writes an
\* old copy of the file, and with stops that fail.
NumbersGrowWithoutHdfs == "hdfs" \notin used => NumbersGrow

\* Under the same conditions, with every task ended, the file lists the containers
\* that run and no other, but for those that a start which failed did not start and
\* nobody has removed since; none of these has the name of an instance
\* (stop_container, deploy_app_containers).
QuietMeansExact ==
  used = {} /\ (\A p \in Client : pc[p] = "idle")
    => \A h \in DOMAIN file : /\ ToSet(file[h].containers) = Taken(h)
                              /\ instances[h] \cap missing[h] = {}

\* A task that waits for the lock gets through, although operations raise while
\* they hold it, and a script goes round it (with redis_server.lock).
EverybodyEnds == \A p \in Client : pc[p] = "waiting" ~> pc[p] = "idle"

\* The lock makes the operations atomic (AnsibleYamlInventory.save): an edition
\* counts from the moment the file is emptied to be written again.
Pending(p) == IF pc[p] \in {"stopping", "waiting", "holding", "edited"} THEN op[p] ELSE NoOp

Store == INSTANCE InventoryStore
  WITH data  <- IF \E p \in Client : pc[p] = "writing"
                THEN copy[CHOOSE p \in Client : pc[p] = "writing"] ELSE file,
       doing <- [p \in Client |-> Pending(p)]
Atomic == Store!Init /\ [][used = {} => Store!Next]_(Store!vars)
=============================================================================
