---------------------------- MODULE InventoryFile ----------------------------
(***************************************************************************)
(* What one operation of ui/update_inventory_file.py does to the contents  *)
(* of the Ansible inventory (serverlessyarn_utils/manage_inventory.py).    *)
(*                                                                         *)
(* The contents are a function from the hosts of the file to their         *)
(* containers, in file order, and to whether their disks have a measured   *)
(* bandwidth.  A container is named after its host: "<host>-cont<i>" when  *)
(* the platform numbers it, "<prefix>-<host>" when HDFS does.  What the    *)
(* code reads of a name is the number at its end.                          *)
(***************************************************************************)
EXTENDS Integers, Sequences, SequencesExt

CONSTANTS
  Host,         \* hosts of the platform
  hostNumber    \* hostNumber[h]: the number at the end of the name of h

NoNumber == -1

ASSUME HostAssumption == hostNumber \in [Host -> Nat \cup {NoNumber}]

Name == [kind : {"cont"}, num : Nat] \cup [kind : {"hdfs"}, num : Nat \cup {NoNumber}]

Cont(i) == [kind |-> "cont", num |-> i]
Hdfs(h) == [kind |-> "hdfs", num |-> hostNumber[h]]

Entry == [containers : Seq(Name), measured : BOOLEAN]
IsContents(data) == DOMAIN data \subseteq Host /\ data \in [DOMAIN data -> Entry]

\* An inventory with no host; also what _load makes of a file being written.
Nothing == [h \in {} |-> <<>>]

\* create_container_list
ContainerList(n, first) == [i \in 1..n |-> Cont(first + i - 1)]

\* Fault: the number of containers stands for the number of the last one.
FirstIndexByCount(list) == Len(list)

\* Fault: the index starts before 0.
FirstIndexFromNone(list) == IF list = <<>> THEN NoNumber ELSE Last(list).num + 1

\* The index add_containers_to_hosts goes on from: the number in the name of the
\* last container plus 1, or 0 when there is no container, or no number.
FirstIndex(list) == IF list = <<>> THEN 0 ELSE Last(list).num + 1

Operation ==
       [kind : {"add_containers"}, host : Host, n : Nat]
  \cup [kind : {"add_hdfs", "remove_host", "measure"}, host : Host]
  \cup [kind : {"add_host"}, host : Host, n : Nat]
  \cup [kind : {"remove_container"}, host : Host, name : Name]

NoOp == [kind |-> "none"]

\* The names the operation gives to containers that it adds.
NewNames(op, data) ==
  CASE op.kind = "add_containers" ->
         ContainerList(op.n, FirstIndex(data[op.host].containers))
    [] op.kind = "add_hdfs" -> <<Hdfs(op.host)>>
    [] op.kind = "add_host" -> ContainerList(op.n, 0)
    [] OTHER -> <<>>

\* On a host that the file does not have, an operation raises; but add_host makes
\* the entry, and remove_host pops what is not there and saves what it has.
Raises(op, data) ==
  op.kind \notin {"add_host", "remove_host"} /\ op.host \notin DOMAIN data

Edit(op, data) ==
  CASE op.kind \in {"add_containers", "add_hdfs"} ->
         [data EXCEPT ![op.host].containers = @ \o NewNames(op, data)]
    [] op.kind = "add_host" ->
         [h \in DOMAIN data \cup {op.host} |->
            IF h = op.host
            THEN [containers |-> NewNames(op, data), measured |-> FALSE]
            ELSE data[h]]
    [] op.kind = "remove_container" ->
         [data EXCEPT ![op.host].containers = RemoveFirst(@, op.name)]
    [] op.kind = "measure" -> [data EXCEPT ![op.host].measured = TRUE]
       \* _remove_host looks the host up beside "hosts" and "vars", in vain.
    [] op.kind = "remove_host" -> data
=============================================================================
