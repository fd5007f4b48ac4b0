--------------------------- MODULE Inventory_proofs ---------------------------
(***************************************************************************)
(* Proofs about Inventory, for any hosts, clients, operations and failures. *)
(***************************************************************************)
EXTENDS Inventory, InventoryFile_proofs

-----------------------------------------------------------------------------
(* The invariant *)

Section == {"holding", "edited", "writing", "releasing"}

\* The inventory as the operations that took effect have left it.
Current == IF \E p \in Client : pc[p] = "writing"
           THEN copy[CHOOSE p \in Client : pc[p] = "writing"] ELSE file

\* The lock lets one client in, and every client inside has it; only the script that
\* measures disks is inside without it.
LockHeld ==
  /\ \A p \in holder : pc[p] \in Section
  /\ \A p, q \in holder : p = q
  /\ "measures" \notin used => \A p \in Client : pc[p] \in Section => p \in holder

\* What clients are about to do.
OpsInOrder ==
  \A p \in Client :
    /\ pc[p] = "idle" <=> op[p] = NoOp /\ pc[p] # "releasing"
    /\ pc[p] \in {"idle", "stopping", "waiting", "holding"} => mine[p] = {}
    /\ pc[p] = "stopping" => op[p].kind = "remove_container"
    /\ pc[p] = "starting" => mine[p] # {}
    /\ mine[p] # {} => op[p] \in Operation
    /\ op[p].kind = "add_host" => op[p].n > 0
    /\ op[p].kind = "measure" => "measures" \in used
    /\ op[p].kind = "add_hdfs" => "hdfs" \in used

\* The copy that is going to be written is an edition of the file as it is.
CopiesMade ==
  used = {} => \A p \in Client : pc[p] = "edited" =>
    /\ ~Raises(op[p], file)
    /\ copy[p] = Edit(op[p], file) /\ mine[p] = ToSet(NewNames(op[p], file))

NumbersInOrder ==
  "hdfs" \notin used => Grows(file) /\ \A p \in Client : Grows(copy[p])

\* A host is in the inventory once the operation that adds it has taken effect.
HostsInOrder ==
  used = {} =>
    /\ \A h \in Host : status[h] \in {"known", "gone"} => h \in DOMAIN Current
    /\ \A h \in Host : status[h] = "new" => h \notin DOMAIN Current
    /\ \A h \in Host : Taken(h) # {} => status[h] \in {"known", "gone"}
    /\ \A p \in Client : op[p] # NoOp =>
         IF op[p].kind = "add_host"
         THEN /\ status[op[p].host] = "adding"
              /\ op[p].host \in DOMAIN Current <=> pc[p] \in {"writing", "releasing", "starting"}
              /\ \A q \in Client \ {p} : op[q].kind = "add_host" => op[q].host # op[p].host
         ELSE status[op[p].host] \in {"known", "gone"}

\* The names of host h that client p has in hand: those it is going to start, and the one
\* that it has stopped and not taken off the list yet.
Held(p, h) ==
  IF op[p] = NoOp \/ op[p].host # h THEN {}
  ELSE IF pc[p] \in {"writing", "releasing", "starting"} THEN mine[p]
  ELSE IF pc[p] \in {"waiting", "holding", "edited"} /\ op[p].kind = "remove_container"
  THEN {op[p].name} ELSE {}

\* Every name on the list of host h runs, or was to run, or is in one pair of hands.
Shared(h) ==
  /\ Taken(h) \subseteq Listing(Current, h)
  /\ \A p \in Client : Held(p, h) \subseteq Listing(Current, h)
  /\ \A c \in Listing(Current, h) : c \in Taken(h) \/ \E p \in Client : c \in Held(p, h)
  /\ instances[h] \cap missing[h] = {}
  /\ \A p \in Client : /\ Held(p, h) \cap Taken(h) = {}
                       /\ \A q \in Client \ {p} : Held(p, h) \cap Held(q, h) = {}

NamesInOrder ==
  used = {} =>
    /\ \A h \in Host : Shared(h)
    /\ \A p \in Client : pc[p] = "stopping" => op[p].name \in Taken(op[p].host)
    /\ \A p \in Client : op[p].kind = "remove_container" =>
         \A q \in Client \ {p} : op[q] # op[p]

IInv == TypeOK /\ LockHeld /\ OpsInOrder /\ CopiesMade /\ NumbersInOrder /\ HostsInOrder
          /\ NamesInOrder

-----------------------------------------------------------------------------
(* What is asked for *)

\* Everything that begins an operation is an Ask.
LEMMA Asked ==
  ASSUME BoundAssumption, TypeOK, NEW p \in Client, NEW h \in Host,
         DeployContainers(p, h) \/ StartHdfs(p, h) \/ AddHost(p, h) \/ RemoveHost(p, h)
           \/ Measure(p, h) \/ RemoveContainer(p, h)
  PROVE  \E o \in Operation, l \in {"stopping", "waiting", "holding"} :
           /\ Ask(p, o, l) /\ o.host = h
           /\ l = "stopping" <=> o.kind = "remove_container"
           /\ l = "holding" <=> o.kind = "measure"
           /\ o.kind = "measure" => "measures" \in used
           /\ o.kind = "add_hdfs" => "hdfs" \in used
           /\ o.kind = "remove_container" =>
                o.name \in Taken(h) /\ UNCHANGED status /\ \A q \in Client : op[q] # o
           /\ o.kind = "add_host" => /\ o.n > 0 /\ status[h] = "new"
                                     /\ status' = [status EXCEPT ![h] = "adding"]
           /\ o.kind \notin {"add_host", "remove_container"} =>
                status[h] = "known" /\ status' \in {status, [status EXCEPT ![h] = "gone"]}
<1>1. ASSUME DeployContainers(p, h)
      PROVE  \E n \in Counts : /\ status[h] = "known" /\ UNCHANGED status
                              /\ Ask(p, [kind |-> "add_containers", host |-> h, n |-> n], "waiting")
  BY <1>1 DEF DeployContainers
<1>2. \A n \in Counts : [kind |-> "add_containers", host |-> h, n |-> n] \in Operation
                      /\ [kind |-> "add_host", host |-> h, n |-> n] \in Operation /\ n > 0
  <2>1. \A n \in Counts : n \in Nat /\ n > 0
    BY DEF BoundAssumption
  <2>2. \A n \in Nat : [kind |-> "add_containers", host |-> h, n |-> n] \in Operation
    BY DEF Operation
  <2>3. \A n \in Nat : [kind |-> "add_host", host |-> h, n |-> n] \in Operation
    BY DEF Operation
  <2> QED
    BY <2>1, <2>2, <2>3
<1>3. CASE DeployContainers(p, h)
  BY <1>1, <1>2, <1>3
<1>4. CASE StartHdfs(p, h)
  <2>1. [kind |-> "add_hdfs", host |-> h] \in Operation
    BY DEF Operation
  <2> QED
    BY <2>1, <1>4 DEF StartHdfs
<1>5. CASE AddHost(p, h)
  <2>1. PICK n \in Counts : /\ status[h] = "new" /\ status' = [status EXCEPT ![h] = "adding"]
                          /\ Ask(p, [kind |-> "add_host", host |-> h, n |-> n], "waiting")
    BY <1>5 DEF AddHost
  <2> DEFINE o == [kind |-> "add_host", host |-> h, n |-> n]
  <2>2. o \in Operation /\ o.kind = "add_host" /\ o.host = h /\ o.n > 0
    BY <1>2
  <2>3. Ask(p, o, "waiting")
    BY <2>1
  <2> HIDE DEF o
  <2> QED
    BY <2>1, <2>2, <2>3
<1>6. CASE RemoveHost(p, h)
  <2>1. [kind |-> "remove_host", host |-> h] \in Operation
    BY DEF Operation
  <2> QED
    BY <2>1, <1>6 DEF RemoveHost
<1>7. CASE Measure(p, h)
  <2>1. [kind |-> "measure", host |-> h] \in Operation
    BY DEF Operation
  <2> QED
    BY <2>1, <1>7 DEF Measure
<1>8. CASE RemoveContainer(p, h)
  <2>1. \A c \in Taken(h) : [kind |-> "remove_container", host |-> h, name |-> c] \in Operation
    BY DEF Operation, TypeOK, Taken
  <2> QED
    BY <2>1, <1>8 DEF RemoveContainer
<1> QED
  BY <1>3, <1>4, <1>5, <1>6, <1>7, <1>8

-----------------------------------------------------------------------------
(* Types, and what clients are about to do *)

LEMMA InitInOrder == Init => TypeOK /\ LockHeld /\ OpsInOrder
<1> SUFFICES ASSUME Init PROVE TypeOK /\ LockHeld /\ OpsInOrder
  OBVIOUS
<1>1. IsContents(Nothing)
  BY DEF IsContents, Nothing
<1>2. TypeOK
  BY <1>1, InitialAssumption DEF Init, TypeOK
<1>3. LockHeld /\ OpsInOrder
  BY DEF Init, LockHeld, OpsInOrder, NoOp, Section
<1> QED
  BY <1>2, <1>3

\* A step of a task or of the lock keeps the types.
LEMMA StepTypes ==
  ASSUME HostAssumption, BoundAssumption, TypeOK, OpsInOrder, [Next]_vars
  PROVE  TypeOK' /\ OpsInOrder'
<1> USE DEF TypeOK, hosts
<1>n. IsContents(Nothing)
  BY DEF IsContents, Nothing
<1>1. ASSUME NEW p \in Client, NEW h \in Host,
             DeployContainers(p, h) \/ StartHdfs(p, h) \/ AddHost(p, h) \/ RemoveHost(p, h)
               \/ Measure(p, h) \/ RemoveContainer(p, h)
      PROVE  TypeOK' /\ OpsInOrder'
  <2>1. PICK o \in Operation, l \in {"stopping", "waiting", "holding"} :
          /\ Ask(p, o, l)
          /\ l = "stopping" <=> o.kind = "remove_container"
          /\ o.kind = "measure" => "measures" \in used
          /\ o.kind = "add_hdfs" => "hdfs" \in used
          /\ o.kind = "add_host" => o.n > 0
          /\ status' \in {status, [status EXCEPT ![h] = "adding"], [status EXCEPT ![h] = "gone"]}
    BY <1>1, Asked, OperationHas DEF Kind
  <2>2. o # NoOp
    BY OperationHas
  <2>3. TypeOK'
    BY <2>1 DEF Ask, Goto
  <2>4. OpsInOrder'
    BY <2>1, <2>2 DEF Ask, Goto, OpsInOrder
  <2> QED
    BY <2>3, <2>4
<1>2. ASSUME NEW p \in Client, StopInstance(p) PROVE TypeOK' /\ OpsInOrder'
  <2>1. op[p] \in Operation /\ op[p].host \in Host
    BY <1>2, OperationHas DEF OpsInOrder, StopInstance
  <2> QED
    BY <1>2, <2>1 DEF StopInstance, Goto, OpsInOrder
<1>3. ASSUME NEW p \in Client, StartInstances(p) PROVE TypeOK' /\ OpsInOrder'
  <2>1. op[p] \in Operation /\ op[p].host \in Host
    BY <1>3, OperationHas DEF OpsInOrder, StartInstances
  <2>2. TypeOK'
    BY <1>3, <2>1 DEF StartInstances, Goto
  <2>3. OpsInOrder'
    BY <1>3 DEF StartInstances, Goto, OpsInOrder, NoOp
  <2> QED
    BY <2>2, <2>3
<1>4. ASSUME NEW p \in Client, Acquire(p) PROVE TypeOK' /\ OpsInOrder'
  BY <1>4 DEF Acquire, Goto, OpsInOrder
<1>5. ASSUME NEW p \in Client, Load(p) PROVE TypeOK' /\ OpsInOrder'
  <2>1. op[p] \in Operation
    BY <1>5 DEF OpsInOrder, Load
  <2>2. IsContents(Edit(op[p], file)) /\ NewNames(op[p], file) \in Seq(Name)
    BY <1>5, <2>1, EditIsContents, NewNamesAre DEF Load
  <2>3. ToSet(NewNames(op[p], file)) \in SUBSET Name
    BY <2>2 DEF ToSet
  <2>4. TypeOK'
    BY <1>5, <2>2, <2>3 DEF Load, Goto
  <2>5. OpsInOrder'
    BY <1>5, <2>1, OperationHas DEF Load, Goto, OpsInOrder
  <2> QED
    BY <2>4, <2>5
<1>6. ASSUME NEW p \in Client, LoadRaises(p) PROVE TypeOK' /\ OpsInOrder'
  BY <1>6 DEF LoadRaises, Goto, OpsInOrder, NoOp
<1>7. ASSUME NEW p \in Client, Truncate(p) PROVE TypeOK' /\ OpsInOrder'
  BY <1>7, <1>n DEF Truncate, Goto, OpsInOrder
<1>8. ASSUME NEW p \in Client, Write(p) PROVE TypeOK' /\ OpsInOrder'
  <2>1. TypeOK'
    BY <1>8, <1>n DEF Write, Goto
  <2>2. OpsInOrder'
    BY <1>8 DEF Write, Goto, OpsInOrder
  <2> QED
    BY <2>1, <2>2
<1>9. ASSUME NEW p \in Client, Release(p) PROVE TypeOK' /\ OpsInOrder'
  <2>1. TypeOK'
    BY <1>9 DEF Release, Goto
  <2>2. OpsInOrder'
    BY <1>9, OperationHas DEF Release, Goto, OpsInOrder, NoOp
  <2> QED
    BY <2>1, <2>2
<1>10. CASE UNCHANGED vars
  BY <1>10 DEF vars, OpsInOrder
<1> QED
  BY <1>1, <1>2, <1>3, <1>4, <1>5, <1>6, <1>7, <1>8, <1>9, <1>10 DEF Next, LockedStep

\* No other client gets in, and everybody who is inside holds the lock.
LEMMA StepLock ==
  ASSUME BoundAssumption, TypeOK, LockHeld, [Next]_vars
  PROVE  LockHeld'
<1> USE DEF TypeOK, LockHeld, Section, Goto
<1>1. ASSUME NEW p \in Client, NEW h \in Host,
             DeployContainers(p, h) \/ StartHdfs(p, h) \/ AddHost(p, h) \/ RemoveHost(p, h)
               \/ Measure(p, h) \/ RemoveContainer(p, h)
      PROVE  LockHeld'
  <2>1. PICK o \in Operation, l \in {"stopping", "waiting", "holding"} :
          Ask(p, o, l) /\ (l = "holding" => "measures" \in used)
    BY <1>1, Asked
  <2> QED
    BY <2>1 DEF Ask
<1>2. ASSUME NEW p \in Client, StopInstance(p) \/ StartInstances(p) PROVE LockHeld'
  BY <1>2 DEF StopInstance, StartInstances
<1>3. ASSUME NEW p \in Client, Acquire(p) PROVE LockHeld'
  BY <1>3 DEF Acquire
<1>4. ASSUME NEW p \in Client, Load(p) \/ LoadRaises(p) \/ Truncate(p) \/ Write(p)
      PROVE  LockHeld'
  BY <1>4 DEF Load, LoadRaises, Truncate, Write
<1>5. ASSUME NEW p \in Client, Release(p) PROVE LockHeld'
  BY <1>5 DEF Release
<1>6. CASE UNCHANGED vars
  BY <1>6 DEF vars
<1> QED
  BY <1>1, <1>2, <1>3, <1>4, <1>5, <1>6 DEF Next, LockedStep

-----------------------------------------------------------------------------
(* Numbers and copies *)

\* Every list that a client may write is in order, an old copy too.
LEMMA StepNumbers ==
  ASSUME HostAssumption, BoundAssumption, TypeOK, OpsInOrder, NumbersInOrder, [Next]_vars
  PROVE  NumbersInOrder'
<1> USE DEF NumbersInOrder, TypeOK
<1>n. Grows(Nothing)
  BY DEF Grows, Nothing
<1>1. ASSUME NEW p \in Client, Load(p) PROVE NumbersInOrder'
  <2>1. op[p] \in Operation /\ ("hdfs" \notin used => op[p].kind # "add_hdfs")
    BY <1>1 DEF Load, OpsInOrder
  <2>2. "hdfs" \notin used => Grows(Edit(op[p], file))
    BY <1>1, <2>1, EditGrows DEF Load
  <2> QED
    BY <1>1, <2>2 DEF Load
<1>2. ASSUME NEW p \in Client, Truncate(p) PROVE NumbersInOrder'
  BY <1>2, <1>n DEF Truncate
<1>3. ASSUME NEW p \in Client, Write(p) PROVE NumbersInOrder'
  BY <1>3, <1>n DEF Write
<1>4. CASE UNCHANGED <<used, file, copy>>
  BY <1>4
<1> QED
  BY <1>1, <1>2, <1>3, <1>4
  DEF Next, LockedStep, vars, DeployContainers, StartHdfs, AddHost, RemoveHost, Measure,
      RemoveContainer, Ask, StopInstance, StartInstances, Acquire, LoadRaises, Release

\* Nobody writes the file while a client has its copy of it.
LEMMA StepCopies ==
  ASSUME HostAssumption, BoundAssumption, TypeOK, OpsInOrder, LockHeld, CopiesMade, [Next]_vars
  PROVE  CopiesMade'
<1> USE DEF CopiesMade, TypeOK, Goto
<1>1. ASSUME NEW p \in Client, NEW h \in Host,
             DeployContainers(p, h) \/ StartHdfs(p, h) \/ AddHost(p, h) \/ RemoveHost(p, h)
               \/ Measure(p, h) \/ RemoveContainer(p, h)
      PROVE  CopiesMade'
  <2>1. PICK o \in Operation, l \in {"stopping", "waiting", "holding"} : Ask(p, o, l)
    BY <1>1, Asked
  <2> QED
    BY <2>1 DEF Ask
<1>2. ASSUME NEW p \in Client,
             StopInstance(p) \/ StartInstances(p) \/ Acquire(p) \/ LoadRaises(p) \/ Release(p)
      PROVE  CopiesMade'
  BY <1>2 DEF StopInstance, StartInstances, Acquire, LoadRaises, Release
<1>3. ASSUME NEW p \in Client, Load(p) PROVE CopiesMade'
  BY <1>3 DEF Load
<1>4. ASSUME NEW p \in Client, Truncate(p) \/ Write(p) PROVE CopiesMade'
  <2>1. ASSUME used = {}, NEW q \in Client, pc[q] = "edited" PROVE q = p
    <3>1. pc[p] \in Section /\ pc[q] \in Section
      BY <1>4, <2>1 DEF Truncate, Write, Section
    <3> QED
      BY <2>1, <3>1 DEF LockHeld
  <2> QED
    BY <1>4, <2>1 DEF Truncate, Write
<1>5. CASE UNCHANGED vars
  BY <1>5 DEF vars
<1> QED
  BY <1>1, <1>2, <1>3, <1>4, <1>5 DEF Next, LockedStep

-----------------------------------------------------------------------------
(* The inventory as the operations have left it *)

\* At most one client is inside; the inventory is the copy that it writes.
OneInside ==
  /\ \A p \in Client : pc[p] = "writing" => Current = copy[p]
  /\ (\A p \in Client : pc[p] # "writing") => Current = file
  /\ \A p, q \in Client : pc[p] \in Section /\ pc[q] \in Section => p = q

LEMMA LockLetsOneIn == LockHeld /\ used = {} => OneInside
<1> SUFFICES ASSUME LockHeld, used = {} PROVE OneInside
  OBVIOUS
<1>1. \A p, q \in Client : pc[p] \in Section /\ pc[q] \in Section => p = q
  BY DEF LockHeld
<1>2. \A p, q \in Client : pc[p] = "writing" /\ pc[q] = "writing" => p = q
  BY <1>1 DEF Section
<1>3. ASSUME NEW p \in Client, pc[p] = "writing" PROVE Current = copy[p]
  <2>1. (CHOOSE q \in Client : pc[q] = "writing") = p
    BY <1>2, <1>3
  <2> QED
    BY <1>3, <2>1 DEF Current
<1>4. (\A p \in Client : pc[p] # "writing") => Current = file
  BY DEF Current
<1> QED
  BY <1>1, <1>3, <1>4 DEF OneInside

\* Only a client that empties the file has its operation take effect.
LEMMA StepCurrent ==
  ASSUME HostAssumption, BoundAssumption, TypeOK, OpsInOrder, LockHeld, CopiesMade,
         used = {}, [Next]_vars
  PROVE  /\ \A p \in Client : Truncate(p) =>
              /\ ~Raises(op[p], Current) /\ op[p] \in Operation /\ IsContents(Current)
              /\ Current' = Edit(op[p], Current)
              /\ mine[p] = ToSet(NewNames(op[p], Current))
         /\ (\A p \in Client : ~(pc[p] = "edited" /\ pc'[p] = "writing")) => Current' = Current
<1> USE DEF TypeOK, Goto, hosts
<1>1. OneInside /\ LockHeld' /\ used' = {}
  <2>1. used' = {}
    BY DEF Next, LockedStep, vars, DeployContainers, StartHdfs, AddHost, RemoveHost, Measure,
           RemoveContainer, Ask, StopInstance, StartInstances, Acquire, Load, LoadRaises,
           Truncate, Write, Release
  <2> QED
    BY <2>1, StepLock, LockLetsOneIn
<1>2. OneInside'
  <2>1. (LockHeld /\ used = {} => OneInside)'
    BY LockLetsOneIn, PTL
  <2> QED
    BY <1>1, <2>1
<1> USE DEF OneInside
<1>3. ASSUME NEW p \in Client, Truncate(p)
      PROVE  /\ ~Raises(op[p], Current) /\ op[p] \in Operation /\ IsContents(Current)
             /\ Current' = Edit(op[p], Current)
             /\ mine[p] = ToSet(NewNames(op[p], Current))
  <2>1. pc[p] = "edited" /\ pc'[p] = "writing" /\ copy' = copy
    BY <1>3 DEF Truncate
  <2>2. Current = file
    BY <1>1, <2>1 DEF Section
  <2>3. Current' = copy[p]
    BY <1>2, <2>1
  <2> QED
    BY <2>1, <2>2, <2>3 DEF CopiesMade, OpsInOrder
<1>4. ASSUME NEW p \in Client, Write(p) PROVE Current' = Current
  <2>1. Current = copy[p]
    BY <1>1, <1>4 DEF Write
  <2>2. \A q \in Client : pc'[q] # "writing"
    BY <1>1, <1>4 DEF Write, Section
  <2> QED
    BY <1>2, <1>4, <2>1, <2>2 DEF Write
<1>5. ASSUME UNCHANGED file,
             \A q \in Client : pc'[q] = "writing" <=> pc[q] = "writing",
             \A q \in Client : pc[q] = "writing" => copy'[q] = copy[q]
      PROVE  Current' = Current
  BY <1>1, <1>2, <1>5
<1>6. ASSUME NEW p \in Client, NEW h \in Host,
             DeployContainers(p, h) \/ StartHdfs(p, h) \/ AddHost(p, h) \/ RemoveHost(p, h)
               \/ Measure(p, h) \/ RemoveContainer(p, h)
      PROVE  Current' = Current
  <2>1. PICK o \in Operation, l \in {"stopping", "waiting", "holding"} : Ask(p, o, l)
    BY <1>6, Asked
  <2> QED
    BY <1>5, <2>1 DEF Ask
<1>7. ASSUME NEW p \in Client,
             StopInstance(p) \/ StartInstances(p) \/ Acquire(p) \/ Load(p) \/ LoadRaises(p)
               \/ Release(p)
      PROVE  Current' = Current
  BY <1>5, <1>7 DEF StopInstance, StartInstances, Acquire, Load, LoadRaises, Release
<1>8. CASE UNCHANGED vars
  BY <1>3, <1>5, <1>8 DEF vars
<1>9. \A p \in Client : Truncate(p) => pc[p] = "edited" /\ pc'[p] = "writing"
  BY DEF Truncate
<1> QED
  BY <1>3, <1>4, <1>6, <1>7, <1>8, <1>9 DEF Next, LockedStep

-----------------------------------------------------------------------------
(* Hosts *)

\* A host has a list from the moment the operation that adds it takes effect, and runs
\* instances after.
LEMMA StepHosts ==
  ASSUME HostAssumption, BoundAssumption, TypeOK, OpsInOrder, LockHeld, CopiesMade, HostsInOrder,
         [Next]_vars
  PROVE  HostsInOrder'
<1> USE DEF TypeOK, Goto, Taken, hosts
<1> SUFFICES ASSUME used' = {} PROVE HostsInOrder'
  BY DEF HostsInOrder
<1>u. used = {}
  BY DEF Next, LockedStep, vars, DeployContainers, StartHdfs, AddHost, RemoveHost, Measure,
         RemoveContainer, Ask, StopInstance, StartInstances, Acquire, Load, LoadRaises,
         Truncate, Write, Release
<1>o. \A p \in Client : op[p] # NoOp => op[p] \in Operation /\ op[p].host \in Host
  BY OperationHas
<1>h. /\ \A h \in Host : status[h] \in {"known", "gone"} => h \in DOMAIN Current
      /\ \A h \in Host : status[h] = "new" => h \notin DOMAIN Current
      /\ \A h \in Host : Taken(h) # {} => status[h] \in {"known", "gone"}
      /\ \A p \in Client : op[p] # NoOp /\ op[p].kind = "add_host" =>
           /\ status[op[p].host] = "adding"
           /\ op[p].host \in DOMAIN Current <=> pc[p] \in {"writing", "releasing", "starting"}
           /\ \A q \in Client \ {p} : op[q].kind = "add_host" => op[q].host # op[p].host
      /\ \A p \in Client : op[p] # NoOp /\ op[p].kind # "add_host" =>
           status[op[p].host] \in {"known", "gone"}
  BY <1>u DEF HostsInOrder
<1>c. /\ \A p \in Client : Truncate(p) =>
           /\ ~Raises(op[p], Current) /\ op[p] \in Operation /\ IsContents(Current)
           /\ Current' = Edit(op[p], Current)
      /\ (\A p \in Client : ~(pc[p] = "edited" /\ pc'[p] = "writing")) => Current' = Current
  BY <1>u, StepCurrent
<1>1. ASSUME NEW p \in Client, NEW h \in Host,
             DeployContainers(p, h) \/ StartHdfs(p, h) \/ AddHost(p, h) \/ RemoveHost(p, h)
               \/ Measure(p, h) \/ RemoveContainer(p, h)
      PROVE  HostsInOrder'
  <2>1. PICK o \in Operation, l \in {"stopping", "waiting", "holding"} :
          /\ Ask(p, o, l) /\ o.host = h
          /\ l = "stopping" <=> o.kind = "remove_container"
          /\ l = "holding" <=> o.kind = "measure"
          /\ o.kind = "remove_container" => o.name \in Taken(h) /\ UNCHANGED status
          /\ o.kind = "add_host" => /\ status[h] = "new"
                                    /\ status' = [status EXCEPT ![h] = "adding"]
          /\ o.kind \notin {"add_host", "remove_container"} =>
               status[h] = "known" /\ status' \in {status, [status EXCEPT ![h] = "gone"]}
    BY <1>1, Asked
  <2>2. Current' = Current
    BY <1>c, <2>1 DEF Ask
  <2>3. o # NoOp /\ pc[p] = "idle" /\ op[p] = NoOp
    BY <2>1, OperationHas DEF Ask, OpsInOrder
  <2>4. /\ status' \in [Host -> {"new", "adding", "known", "gone"}]
        /\ \A k \in Host \ {h} : status'[k] = status[k]
        /\ o.kind = "add_host" => status[h] = "new" /\ status'[h] = "adding"
        /\ o.kind # "add_host" => /\ status[h] \in {"known", "gone"}
                                  /\ status'[h] \in {"known", "gone"}
    BY <2>1, <1>h
  <2>5. /\ op'[p] = o /\ pc'[p] = l /\ UNCHANGED <<instances, missing>>
        /\ \A q \in Client \ {p} : op'[q] = op[q] /\ pc'[q] = pc[q]
    BY <2>1 DEF Ask
  <2>6. ASSUME NEW q \in Client, op'[q] # NoOp
        PROVE  IF op'[q].kind = "add_host"
               THEN /\ status'[op'[q].host] = "adding"
                    /\ op'[q].host \in DOMAIN Current <=> pc'[q] \in {"writing", "releasing", "starting"}
                    /\ \A r \in Client \ {q} : op'[r].kind = "add_host" => op'[r].host # op'[q].host
               ELSE status'[op'[q].host] \in {"known", "gone"}
    <3>1. CASE q = p
      BY <3>1, <2>1, <2>3, <2>4, <2>5, <1>h, <1>o DEF NoOp
    <3>2. CASE q # p
      BY <3>2, <2>1, <2>3, <2>4, <2>5, <2>6, <1>h, <1>o DEF NoOp
    <3> QED
      BY <3>1, <3>2
  <2> QED
    BY <2>2, <2>4, <2>5, <2>6, <1>h DEF HostsInOrder
<1>2. ASSUME NEW p \in Client, StopInstance(p) PROVE HostsInOrder'
  <2>1. Current' = Current
    BY <1>c, <1>2 DEF StopInstance
  <2>2. op[p].kind = "remove_container"
    BY <1>2 DEF StopInstance, OpsInOrder
  <2>3. \A h \in Host : instances'[h] \cup missing'[h] \subseteq instances[h] \cup missing[h]
    BY <1>2 DEF StopInstance
  <2> QED
    BY <1>2, <1>h, <2>1, <2>2, <2>3 DEF StopInstance, HostsInOrder
<1>3. ASSUME NEW p \in Client, StartInstances(p) PROVE HostsInOrder'
  <2>1. Current' = Current
    BY <1>c, <1>3 DEF StartInstances
  <2>2. op[p] # NoOp /\ op[p].host \in Host /\ pc[p] = "starting"
    BY <1>3, <1>o DEF StartInstances, OpsInOrder
  <2> DEFINE h == op[p].host
  <2>3. h \in DOMAIN Current /\ status'[h] \in {"known", "gone"} /\ status[h] # "new"
    BY <1>3, <1>h, <2>2 DEF StartInstances
  <2>4. /\ \A k \in Host \ {h} : /\ status'[k] = status[k] /\ instances'[k] = instances[k]
                                /\ missing'[k] = missing[k]
        /\ op'[p] = NoOp
        /\ \A q \in Client \ {p} : op'[q] = op[q] /\ pc'[q] = pc[q]
    BY <1>3, <2>2 DEF StartInstances
  <2>5. \A q \in Client \ {p} : op[q] # NoOp /\ op[q].kind = "add_host" => op[q].host # h
    BY <1>h, <2>2
  <2> HIDE DEF h
  <2>6. ASSUME NEW q \in Client, op'[q] # NoOp
        PROVE  IF op'[q].kind = "add_host"
               THEN /\ status'[op'[q].host] = "adding"
                    /\ op'[q].host \in DOMAIN Current <=> pc'[q] \in {"writing", "releasing", "starting"}
                    /\ \A r \in Client \ {q} : op'[r].kind = "add_host" => op'[r].host # op'[q].host
               ELSE status'[op'[q].host] \in {"known", "gone"}
    BY <1>h, <1>o, <2>3, <2>4, <2>5, <2>6 DEF NoOp
  <2> QED
    BY <1>h, <2>1, <2>3, <2>4, <2>6 DEF HostsInOrder
<1>4. ASSUME NEW p \in Client, Acquire(p) \/ Load(p) \/ LoadRaises(p) \/ Write(p) \/ Release(p)
      PROVE  HostsInOrder'
  <2>1. Current' = Current
    BY <1>c, <1>4 DEF Acquire, Load, LoadRaises, Write, Release
  <2>2. /\ UNCHANGED <<status, instances, missing>>
        /\ op'[p] \in {op[p], NoOp}
        /\ op'[p] # NoOp => (pc'[p] \in {"writing", "releasing", "starting"}
                               <=> pc[p] \in {"writing", "releasing", "starting"})
        /\ \A q \in Client \ {p} : op'[q] = op[q] /\ pc'[q] = pc[q]
    BY <1>4 DEF Acquire, Load, LoadRaises, Write, Release
  <2> QED
    BY <1>h, <2>1, <2>2 DEF HostsInOrder, NoOp
<1>5. ASSUME NEW p \in Client, Truncate(p) PROVE HostsInOrder'
  <2> DEFINE h == op[p].host
  <2>1. /\ ~Raises(op[p], Current) /\ op[p] \in Operation /\ h \in Host
        /\ Current' = Edit(op[p], Current) /\ IsContents(Current)
    BY <1>c, <1>5, <1>o, OperationHas
  <2>4. op[p].kind = "add_host" \/ h \in DOMAIN Current
    BY <1>h, <2>1, OperationHas
  <2>2. DOMAIN Current' = DOMAIN Current \cup {h}
    <3>1. CASE op[p].kind = "remove_host"
      <4>1. Edit(op[p], Current) = Current
        BY <3>1 DEF Edit
      <4>2. h \in DOMAIN Current /\ Current' = Current
        BY <2>1, <2>4, <3>1, <4>1
      <4> QED
        BY <4>2, Zenon
    <3>2. CASE op[p].kind # "remove_host"
      BY <2>1, <3>2, EditIsContents
    <3> QED
      BY <3>1, <3>2
  <2>3. /\ UNCHANGED <<status, instances, missing, op>>
        /\ pc[p] = "edited" /\ pc'[p] = "writing"
        /\ \A q \in Client \ {p} : pc'[q] = pc[q]
    BY <1>5 DEF Truncate
  <2>5. op[p] # NoOp /\ status[h] # "new"
    BY <1>h, <2>1, <2>4, OperationHas
  <2>6. \A q \in Client \ {p} : op[q] # NoOp /\ op[q].kind = "add_host" =>
          op[q].host # h \/ h \in DOMAIN Current
    BY <1>h, <2>4, <2>5
  <2> HIDE DEF h
  <2>7. ASSUME NEW q \in Client, op'[q] # NoOp
        PROVE  IF op'[q].kind = "add_host"
               THEN /\ status'[op'[q].host] = "adding"
                    /\ op'[q].host \in DOMAIN Current' <=> pc'[q] \in {"writing", "releasing", "starting"}
                    /\ \A r \in Client \ {q} : op'[r].kind = "add_host" => op'[r].host # op'[q].host
               ELSE status'[op'[q].host] \in {"known", "gone"}
    <3>1. CASE q = p
      BY <3>1, <1>h, <2>2, <2>3, <2>5 DEF h
    <3>2. CASE q # p
      BY <3>2, <1>h, <2>2, <2>3, <2>6, <2>7
    <3> QED
      BY <3>1, <3>2
  <2> QED
    BY <1>h, <2>2, <2>3, <2>5, <2>7 DEF HostsInOrder
<1>6. CASE UNCHANGED vars
  <2>1. Current' = Current
    BY <1>c, <1>6 DEF vars
  <2> QED
    BY <1>h, <1>6, <2>1 DEF vars, HostsInOrder
<1> QED
  BY <1>1, <1>2, <1>3, <1>4, <1>5, <1>6 DEF Next, LockedStep

-----------------------------------------------------------------------------
(* Names *)

LEMMA SameRemoval ==
  ASSUME NEW o \in Operation, NEW r \in Operation, o.kind = "remove_container",
         r.kind = "remove_container", o.host = r.host, o.name = r.name
  PROVE  o = r
BY DEF Operation

\* The names of a host change hands one at a time.
LEMMA StepNames ==
  ASSUME HostAssumption, BoundAssumption, IInv, [Next]_vars
  PROVE  NamesInOrder'
<1> USE DEF TypeOK, Goto, IInv, Taken, hosts
<1> SUFFICES ASSUME used' = {} PROVE NamesInOrder'
  BY DEF NamesInOrder
<1>u. used = {} /\ OneInside
  <2>1. used = {}
    BY DEF Next, LockedStep, vars, DeployContainers, StartHdfs, AddHost, RemoveHost, Measure,
           RemoveContainer, Ask, StopInstance, StartInstances, Acquire, Load, LoadRaises,
           Truncate, Write, Release
  <2> QED
    BY <2>1, LockLetsOneIn, SMTT(30)
<1>o. \A p \in Client : op[p] # NoOp => op[p] \in Operation /\ op[p].host \in Host
  BY OperationHas
<1>n. /\ \A h \in Host : Shared(h)
      /\ \A p \in Client : pc[p] = "stopping" => op[p].name \in Taken(op[p].host)
      /\ \A p \in Client : op[p].kind = "remove_container" =>
           \A q \in Client \ {p} : op[q] # op[p]
  BY <1>u DEF NamesInOrder
<1>c. /\ \A p \in Client : Truncate(p) =>
           /\ ~Raises(op[p], Current) /\ op[p] \in Operation /\ IsContents(Current)
           /\ Current' = Edit(op[p], Current)
           /\ mine[p] = ToSet(NewNames(op[p], Current))
      /\ (\A p \in Client : ~(pc[p] = "edited" /\ pc'[p] = "writing")) => Current' = Current
  BY <1>u, StepCurrent
\* Nothing changes hands.
<1>k. ASSUME NEW h \in Host, Listing(Current, h)' = Listing(Current, h),
             instances'[h] = instances[h], missing'[h] = missing[h],
             \A p \in Client : Held(p, h)' = Held(p, h)
      PROVE  Shared(h)'
  BY <1>k, <1>n DEF Shared
<1>l. Current' = Current => \A h \in Host : Listing(Current, h)' = Listing(Current, h)
  BY DEF Listing
<1>1. ASSUME NEW p \in Client, NEW h \in Host,
             DeployContainers(p, h) \/ StartHdfs(p, h) \/ AddHost(p, h) \/ RemoveHost(p, h)
               \/ Measure(p, h) \/ RemoveContainer(p, h)
      PROVE  NamesInOrder'
  <2>1. PICK o \in Operation, l \in {"stopping", "waiting", "holding"} :
          /\ Ask(p, o, l) /\ o.host = h
          /\ l = "stopping" <=> o.kind = "remove_container"
          /\ o.kind = "measure" => "measures" \in used
          /\ l = "holding" <=> o.kind = "measure"
          /\ o.kind = "remove_container" => o.name \in Taken(h) /\ \A q \in Client : op[q] # o
    BY <1>1, Asked
  <2>2. Current' = Current /\ UNCHANGED <<instances, missing>> /\ l # "holding"
    BY <1>c, <1>u, <2>1 DEF Ask
  <2>3. /\ op'[p] = o /\ pc'[p] = l /\ op[p] = NoOp /\ UNCHANGED mine
        /\ \A q \in Client \ {p} : op'[q] = op[q] /\ pc'[q] = pc[q]
    BY <2>1 DEF Ask, OpsInOrder
  <2>4. \A k \in Host, q \in Client : Held(q, k)' = Held(q, k)
    BY <2>1, <2>2, <2>3, ZenonT(30) DEF Held
  <2>5. \A q \in Client : pc'[q] = "stopping" => op'[q].name \in instances'[op'[q].host] \cup missing'[op'[q].host]
    BY <1>n, <2>1, <2>2, <2>3
  <2>6. \A q \in Client : op'[q].kind = "remove_container" =>
          \A r \in Client \ {q} : op'[r] # op'[q]
    BY <1>n, <2>1, <2>3
  <2> QED
    BY <1>k, <1>l, <2>2, <2>4, <2>5, <2>6 DEF NamesInOrder
<1>2. ASSUME NEW p \in Client, StopInstance(p) PROVE NamesInOrder'
  <2>k. PICK k \in Host, c \in Name : k = op[p].host /\ c = op[p].name
    BY <1>2, OperationHas DEF StopInstance, OpsInOrder
  <2>1. /\ pc[p] = "stopping" /\ op[p] \in Operation /\ op[p].kind = "remove_container"
        /\ op[p] # NoOp /\ c \in Taken(k)
    BY <1>2, <1>n, <2>k, OperationHas DEF StopInstance, OpsInOrder
  <2>2. /\ Current' = Current /\ pc'[p] = "waiting" /\ UNCHANGED <<op, mine>>
        /\ \A q \in Client \ {p} : pc'[q] = pc[q]
        /\ instances'[k] = instances[k] \ {c} /\ missing'[k] = missing[k] \ {c}
        /\ \A h \in Host \ {k} : instances'[h] = instances[h] /\ missing'[h] = missing[h]
    BY <1>c, <1>u, <1>2, <2>k, <2>1 DEF StopInstance
  <2>3. /\ \A h \in Host, q \in Client \ {p} : Held(q, h)' = Held(q, h)
        /\ \A h \in Host : Held(p, h) = {}
        /\ \A h \in Host \ {k} : Held(p, h)' = {}
        /\ Held(p, k)' = {c}
    BY <2>k, <2>1, <2>2 DEF Held
  <2>4. ASSUME NEW q \in Client, pc'[q] = "stopping" PROVE op'[q].name \in instances'[op'[q].host] \cup missing'[op'[q].host]
    <3>1. q # p /\ pc[q] = "stopping" /\ op[q] \in Operation /\ op[q].kind = "remove_container"
      BY <2>2, <2>4 DEF OpsInOrder
    <3>2. op[q] # op[p] /\ op[q].host \in Host /\ op[q].name \in Taken(op[q].host)
      BY <1>n, <2>1, <3>1, OperationHas
    <3>3. op[q].host # k \/ op[q].name # c
      BY <2>k, <2>1, <3>1, <3>2, SameRemoval
    <3> QED
      BY <2>2, <3>2, <3>3
  <2>5. Shared(k)'
    <3>1. Listing(Current, k)' = Listing(Current, k) /\ Shared(k) /\ k \in Host
      BY <1>l, <1>n, <2>1, <2>2
    <3> QED
      BY <2>1, <2>2, <2>3, <3>1 DEF Shared
  <2>6. \A h \in Host \ {k} : Shared(h)'
    BY <1>k, <1>l, <2>2, <2>3, ZenonT(30)
  <2>7. \A q \in Client : op'[q].kind = "remove_container" =>
          \A r \in Client \ {q} : op'[r] # op'[q]
    BY <1>n, <2>2
  <2> QED
    BY <2>4, <2>5, <2>6, <2>7 DEF NamesInOrder
<1>3. ASSUME NEW p \in Client, StartInstances(p) PROVE NamesInOrder'
  <2>k. PICK k \in Host : k = op[p].host
    BY <1>3, OperationHas DEF StartInstances, OpsInOrder
  <2>1. pc[p] = "starting" /\ op[p] \in Operation /\ op[p] # NoOp
    BY <1>3, OperationHas DEF StartInstances, OpsInOrder
  <2>s. PICK started \in SUBSET mine[p] :
          /\ instances' = [instances EXCEPT ![k] = @ \cup started]
          /\ missing' = [missing EXCEPT ![k] = @ \cup (mine[p] \ started)]
          /\ mine' = [mine EXCEPT ![p] = {}] /\ op' = [op EXCEPT ![p] = NoOp]
          /\ pc' = [pc EXCEPT ![p] = "idle"]
          /\ UNCHANGED <<used, file, holder, copy>>
    BY <1>3, <2>k DEF StartInstances
  <2>2. /\ Current' = Current /\ op'[p] = NoOp
        /\ \A q \in Client \ {p} : op'[q] = op[q] /\ pc'[q] = pc[q] /\ mine'[q] = mine[q]
        /\ pc'[p] = "idle"
        /\ instances'[k] = instances[k] \cup started
        /\ missing'[k] = missing[k] \cup (mine[p] \ started)
        /\ \A h \in Host \ {k} : instances'[h] = instances[h] /\ missing'[h] = missing[h]
    BY <1>c, <1>u, <2>s, <2>k, <2>1
  <2>3. /\ \A h \in Host, q \in Client \ {p} : Held(q, h)' = Held(q, h)
        /\ \A h \in Host : Held(p, h)' = {}
        /\ \A h \in Host \ {k} : Held(p, h) = {}
        /\ Held(p, k) = mine[p]
    <3>1. \A h \in Host, q \in Client \ {p} : Held(q, h)' = Held(q, h)
      BY <2>2, ZenonT(30) DEF Held
    <3>2. \A h \in Host : Held(p, h)' = {}
      BY <2>2 DEF Held
    <3>3. \A h \in Host \ {k} : Held(p, h) = {}
      BY <2>k DEF Held
    <3>4. Held(p, k) = mine[p]
      BY <2>k, <2>1 DEF Held
    <3> QED
      BY <3>1, <3>2, <3>3, <3>4
  <2>4. ASSUME NEW q \in Client, pc'[q] = "stopping" PROVE op'[q].name \in instances'[op'[q].host] \cup missing'[op'[q].host]
    <3>1. q # p /\ pc[q] = "stopping" /\ op[q] \in Operation
      BY <2>2, <2>4 DEF OpsInOrder
    <3>2. op[q].host \in Host /\ op[q].name \in Taken(op[q].host)
      BY <1>n, <3>1, OperationHas
    <3> QED
      BY <2>2, <3>1, <3>2
  <2>5. \A q \in Client : op'[q].kind = "remove_container" =>
          \A r \in Client \ {q} : op'[r] # op'[q]
    BY <1>n, <2>2 DEF NoOp
  <2>6. Shared(k)'
    <3>1. Listing(Current, k)' = Listing(Current, k) /\ Shared(k) /\ k \in Host
      BY <1>l, <1>n, <2>1, <2>2
    <3> QED
      BY <2>1, <2>2, <2>3, <3>1 DEF Shared
  <2>7. ASSUME NEW h \in Host \ {k} PROVE Shared(h)'
    <3>1. /\ \A q \in Client : Held(q, h)' = Held(q, h)
          /\ Listing(Current, h)' = Listing(Current, h)
          /\ instances'[h] = instances[h] /\ missing'[h] = missing[h]
      BY <1>l, <2>2, <2>3
    <3> QED
      BY <1>k, <3>1
  <2> QED
    BY <2>4, <2>5, <2>6, <2>7 DEF NamesInOrder
\* The host of an operation other than add_host is in the file.
<1>4. ASSUME NEW p \in Client, LoadRaises(p) PROVE FALSE
  <2>1. pc[p] = "holding" /\ op[p] \in Operation /\ op[p] # NoOp /\ Raises(op[p], file)
    BY <1>4, OperationHas DEF LoadRaises, OpsInOrder
  <2>2. Current = file
    BY <1>u, <2>1 DEF OneInside, Section
  <2>3. op[p].host \in DOMAIN Current
    BY <1>u, <1>o, <2>1 DEF HostsInOrder, Raises
  <2> QED
    BY <2>1, <2>2, <2>3 DEF Raises
<1>5. ASSUME NEW p \in Client, Acquire(p) \/ Load(p) \/ Write(p) \/ Release(p)
      PROVE  NamesInOrder'
  <2>1. /\ Current' = Current /\ UNCHANGED <<instances, missing>>
        /\ op'[p] \in {op[p], NoOp} /\ pc'[p] # "stopping"
        /\ \A q \in Client \ {p} : op'[q] = op[q] /\ pc'[q] = pc[q] /\ mine'[q] = mine[q]
    BY <1>c, <1>5 DEF Acquire, Load, Write, Release
  <2>2. ASSUME NEW h \in Host, NEW q \in Client PROVE Held(q, h)' = Held(q, h)
    <3>1. CASE q # p
      BY <2>1, <3>1 DEF Held
    <3>2. CASE q = p /\ (Acquire(p) \/ Load(p))
      BY <3>2, ZenonT(30) DEF Acquire, Load, Held
    <3>3. CASE q = p /\ Write(p)
      BY <3>3 DEF Write, Held
    <3>4. CASE q = p /\ Release(p)
      BY <3>4 DEF Release, Held
    <3> QED
      BY <1>5, <3>1, <3>2, <3>3, <3>4
  <2>3. \A q \in Client : pc'[q] = "stopping" => op'[q].name \in instances'[op'[q].host] \cup missing'[op'[q].host]
    BY <1>n, <2>1
  <2>4. \A q \in Client : op'[q].kind = "remove_container" =>
          \A r \in Client \ {q} : op'[r] # op'[q]
    BY <1>n, <2>1 DEF NoOp
  <2> QED
    BY <1>k, <1>l, <2>1, <2>2, <2>3, <2>4 DEF NamesInOrder
<1>6. ASSUME NEW p \in Client, Truncate(p) PROVE NamesInOrder'
  <2>k. PICK k \in Host : k = op[p].host
    BY <1>c, <1>6, OperationHas
  <2>1. /\ ~Raises(op[p], Current) /\ op[p] \in Operation /\ IsContents(Current)
        /\ op[p] # NoOp /\ pc[p] = "edited" /\ pc'[p] = "writing"
        /\ Current' = Edit(op[p], Current) /\ mine[p] = ToSet(NewNames(op[p], Current))
        /\ UNCHANGED <<op, mine, instances, missing>>
        /\ \A q \in Client \ {p} : pc'[q] = pc[q]
    BY <1>c, <1>6, OperationHas DEF Truncate
  <2>2. Current = file
    BY <1>u, <2>1 DEF OneInside, Section
  <2>3. op[p].kind # "add_hdfs" /\ Grows(Current)
    BY <1>u, <2>2 DEF OpsInOrder, NumbersInOrder
  <2>4. op[p].kind = "add_host" => k \notin DOMAIN Current
    BY <1>u, <2>k, <2>1 DEF HostsInOrder
  <2>5. /\ \A h \in Host \ {k} : Listing(Edit(op[p], Current), h) = Listing(Current, h)
        /\ op[p].kind # "remove_container" =>
              Listing(Edit(op[p], Current), k) = Listing(Current, k) \cup mine[p]
        /\ op[p].kind = "remove_container" =>
              Listing(Edit(op[p], Current), k) = Listing(Current, k) \ {op[p].name}
        /\ Listing(Current, k) \cap mine[p] = {}
        /\ op[p].kind \notin {"add_containers", "add_host"} => mine[p] = {}
    <3>1. op[p].kind = "add_host" => op[p].host \notin DOMAIN Current
      BY <2>k, <2>4
    <3>2. /\ \A h \in Host \ {op[p].host} : Listing(Edit(op[p], Current), h) = Listing(Current, h)
          /\ op[p].kind # "remove_container" =>
                Listing(Edit(op[p], Current), op[p].host)
                  = Listing(Current, op[p].host) \cup ToSet(NewNames(op[p], Current))
          /\ op[p].kind = "remove_container" =>
                Listing(Edit(op[p], Current), op[p].host)
                  = Listing(Current, op[p].host) \ {op[p].name}
          /\ Listing(Current, op[p].host) \cap ToSet(NewNames(op[p], Current)) = {}
          /\ op[p].kind \notin {"add_containers", "add_host"} =>
                ToSet(NewNames(op[p], Current)) = {}
      <4>1. op[p] \in Operation /\ IsContents(Current) /\ ~Raises(op[p], Current)
        BY <2>1
      <4>2. CASE op[p].kind # "remove_host"
        BY <2>3, <3>1, <4>1, <4>2, EditLists, ZenonT(30)
      <4>3. CASE op[p].kind = "remove_host"
        <5>1. Edit(op[p], Current) = Current /\ ToSet(NewNames(op[p], Current)) = {}
          BY <4>3 DEF Edit, NewNames, ToSet
        <5> QED
          BY <4>3, <5>1
      <4> QED
        BY <4>2, <4>3
    <3> QED
      BY <2>k, <2>1, <3>2
  <2>6. \A h \in Host : Listing(Current, h)' = Listing(Edit(op[p], Current), h)
    BY <2>1 DEF Listing
  <2>7. /\ \A h \in Host, q \in Client \ {p} : Held(q, h)' = Held(q, h)
        /\ \A h \in Host \ {k} : Held(p, h)' = {} /\ Held(p, h) = {}
        /\ Held(p, k)' = mine[p]
        /\ op[p].kind = "remove_container" => Held(p, k) = {op[p].name}
        /\ op[p].kind # "remove_container" => Held(p, k) = {}
    BY <2>k, <2>1 DEF Held
  <2>8. \A q \in Client : pc'[q] = "stopping" => op'[q].name \in instances'[op'[q].host] \cup missing'[op'[q].host]
    BY <1>n, <2>1
  <2>9. \A q \in Client : op'[q].kind = "remove_container" =>
          \A r \in Client \ {q} : op'[r] # op'[q]
    BY <1>n, <2>1
  <2>10. Shared(k) /\ instances'[k] = instances[k] /\ missing'[k] = missing[k] /\ k \in Host
    BY <1>n, <2>1
  <2>11. Shared(k)'
    <3>1. CASE op[p].kind # "remove_container"
      <4>1. Listing(Current, k)' = Listing(Current, k) \cup mine[p] /\ Held(p, k) = {}
        BY <2>5, <2>6, <2>7, <2>10, <3>1
      <4> QED
        BY <2>5, <2>7, <2>10, <4>1 DEF Shared
    <3>2. CASE op[p].kind = "remove_container"
      <4>c. PICK c : c = op[p].name
        OBVIOUS
      <4>1. /\ Held(p, k) = {c} /\ Held(p, k)' = {}
            /\ Listing(Current, k)' = Listing(Current, k) \ {c}
        BY <2>5, <2>6, <2>7, <2>10, <3>2, <4>c
      <4> QED
        BY <2>7, <2>10, <4>1 DEF Shared
    <3> QED
      BY <3>1, <3>2
  <2>12. \A h \in Host \ {k} : Shared(h)'
    <3> SUFFICES ASSUME NEW h \in Host \ {k} PROVE Shared(h)'
      OBVIOUS
    <3>1. /\ \A q \in Client : Held(q, h)' = Held(q, h)
          /\ Listing(Current, h)' = Listing(Current, h)
          /\ instances'[h] = instances[h] /\ missing'[h] = missing[h]
      BY <2>1, <2>5, <2>6, <2>7
    <3> QED
      BY <1>k, <3>1
  <2> QED
    BY <2>8, <2>9, <2>11, <2>12 DEF NamesInOrder
<1>7. CASE UNCHANGED vars
  <2>1. Current' = Current
    BY <1>c, <1>7 DEF vars
  <2>2. \A h \in Host, q \in Client : Held(q, h)' = Held(q, h)
    BY <1>7 DEF vars, Held
  <2> QED
    BY <1>k, <1>l, <1>n, <1>7, <2>1, <2>2 DEF vars, NamesInOrder
<1> QED
  BY <1>1, <1>2, <1>3, <1>4, <1>5, <1>6, <1>7 DEF Next, LockedStep

-----------------------------------------------------------------------------
(* The invariant *)

LEMMA InitIInv == Init => IInv
<1> SUFFICES ASSUME Init PROVE IInv
  OBVIOUS
<1> USE DEF Init
<1>1. TypeOK /\ LockHeld /\ OpsInOrder
  BY InitInOrder
<1>2. CopiesMade
  BY DEF CopiesMade
<1>3. NumbersInOrder
  BY InitialAssumption DEF NumbersInOrder, Grows, Increasing, Nothing
<1>4. Current = Initial /\ DOMAIN Initial \subseteq Host
  BY InitialAssumption DEF Current, IsContents
<1>5. HostsInOrder
  BY <1>4 DEF HostsInOrder, Taken
<1>6. NamesInOrder
  <2>1. \A h \in Host : Listing(Current, h) = {}
    BY <1>4, InitialAssumption DEF Listing, ToSet
  <2>2. \A h \in Host, p \in Client : Held(p, h) = {}
    BY DEF Held
  <2>3. \A h \in Host : Shared(h)
    BY <2>1, <2>2 DEF Shared, Taken
  <2> QED
    BY <2>3 DEF NamesInOrder, NoOp
<1> QED
  BY <1>1, <1>2, <1>3, <1>5, <1>6 DEF IInv

LEMMA StepIInv == IInv /\ [Next]_vars => IInv'
<1> SUFFICES ASSUME IInv, [Next]_vars PROVE IInv'
  OBVIOUS
<1> USE HostAssumption, BoundAssumption DEF IInv
<1>1. TypeOK' /\ OpsInOrder'
  BY StepTypes
<1>2. LockHeld'
  BY StepLock
<1>3. NumbersInOrder'
  BY StepNumbers
<1>4. CopiesMade'
  BY StepCopies
<1>5. HostsInOrder'
  BY StepHosts
<1>6. NamesInOrder'
  BY StepNames
<1> QED
  BY <1>1, <1>2, <1>3, <1>4, <1>5, <1>6

LEMMA Always == Spec => []IInv
BY InitIInv, StepIInv, PTL DEF Spec

-----------------------------------------------------------------------------
\* The types of the inventory and of the tasks on it.
THEOREM TypeCorrect == Spec => []TypeOK
<1>1. IInv => TypeOK
  BY DEF IInv
<1> QED
  BY <1>1, Always, PTL

\* While the global HDFS is not in use, the numbers of a host's containers grow along
\* its list, even when the script that measures disks writes a copy that has become
\* old, and stops fail (add_containers_to_hosts, update_host_disks_bw_inv.py).
THEOREM NumbersAlwaysGrow == Spec => []NumbersGrowWithoutHdfs
<1>1. IInv => NumbersGrowWithoutHdfs
  BY DEF IInv, NumbersInOrder, Grows, Increasing, NumbersGrowWithoutHdfs, NumbersGrow
<1> QED
  BY <1>1, Always, PTL

\* While the global HDFS is not in use, every operation takes the lock and stops do not
\* fail, no two containers of a host are started under the same name, nor one under the
\* name of an instance that runs or of one that a failed start has left in the file
\* (add_containers_to_hosts, stop_container).
THEOREM FreshNames == Spec => []NamesAreFresh
<1>1. IInv => NamesAreFresh
  <2> SUFFICES ASSUME IInv, used = {}, NEW p \in Client, pc[p] = "starting"
               PROVE  /\ mine[p] \cap Taken(op[p].host) = {}
                      /\ \A q \in Client \ {p} :
                           pc[q] = "starting" /\ op[q].host = op[p].host
                             => mine[p] \cap mine[q] = {}
    BY DEF NamesAreFresh
  <2>1. \A q \in Client : pc[q] = "starting" =>
          op[q].host \in Host /\ Held(q, op[q].host) = mine[q]
    BY OperationHas DEF IInv, OpsInOrder, Held
  <2>2. Shared(op[p].host)
    BY <2>1 DEF IInv, NamesInOrder
  <2> QED
    BY <2>1, <2>2 DEF Shared
<1> QED
  BY <1>1, Always, PTL

\* Under the same conditions, once every task has ended, the inventory lists the instances
\* that run, those that a failed start did not start and nobody has removed since, and no
\* other (stop_container, deploy_app_containers, start_containers_task_v2).
THEOREM ExactWhenQuiet == Spec => []QuietMeansExact
<1>1. IInv => QuietMeansExact
  <2> SUFFICES ASSUME IInv, used = {}, \A p \in Client : pc[p] = "idle", NEW h \in DOMAIN file
               PROVE  /\ ToSet(file[h].containers) = Taken(h)
                      /\ instances[h] \cap missing[h] = {}
    BY DEF QuietMeansExact
  <2>1. h \in Host /\ Shared(h)
    BY DEF IInv, TypeOK, IsContents, NamesInOrder
  <2>2. Listing(Current, h) = ToSet(file[h].containers)
    BY DEF Current, Listing
  <2>3. \A p \in Client : Held(p, h) = {}
    BY DEF Held
  <2> QED
    BY <2>1, <2>2, <2>3 DEF Shared
<1> QED
  BY <1>1, Always, PTL

\* The store has the operations of the file.
LEMMA SameOperations ==
  /\ Store!NoOp = NoOp /\ Store!Operation = Operation
  /\ \A o, data : Store!Raises(o, data) <=> Raises(o, data)
  /\ \A o, data : Store!Edit(o, data) = Edit(o, data)
<1>1. Store!NoOp = NoOp /\ Store!Operation = Operation
  BY DEF Store!NoOp, NoOp, Store!Operation, Operation, Store!Name, Name, Store!NoNumber, NoNumber
<1>2. ASSUME NEW o, NEW data PROVE Store!Raises(o, data) <=> Raises(o, data)
  BY DEF Store!Raises, Raises
<1>3. ASSUME NEW list, NEW c PROVE Store!RemoveFirst(list, c) = RemoveFirst(list, c)
  BY DEF Store!RemoveFirst, RemoveFirst, Store!RemoveAt, RemoveAt, Store!SelectInSeq,
         SelectInSeq, Store!Min, Min
<1>4. ASSUME NEW list PROVE Store!FirstIndex(list) = FirstIndex(list)
  BY DEF Store!FirstIndex, FirstIndex, Store!Last, Last
<1>5. ASSUME NEW o, NEW data PROVE Store!NewNames(o, data) = NewNames(o, data)
  BY <1>4 DEF Store!NewNames, NewNames, Store!ContainerList, ContainerList, Store!Cont, Cont,
              Store!Hdfs, Hdfs
<1>6. ASSUME NEW o, NEW data PROVE Store!Edit(o, data) = Edit(o, data)
  BY <1>3, <1>5 DEF Store!Edit, Edit
<1> QED
  BY <1>1, <1>2, <1>6

\* A step of a task is an operation asked for, one that takes effect or is refused, or
\* nothing that the others can see.
LEMMA StepAtomic ==
  ASSUME IInv, [Next]_vars, used = {}
  PROVE  [Store!Next]_(Store!vars)
<1> DEFINE doing == [p \in Client |-> Pending(p)]
<1> USE HostAssumption, BoundAssumption DEF IInv, TypeOK, Goto
<1>u. OneInside
  BY LockLetsOneIn
<1>c. /\ \A p \in Client : Truncate(p) =>
           /\ ~Raises(op[p], Current) /\ op[p] \in Operation /\ Current' = Edit(op[p], Current)
      /\ (\A p \in Client : ~(pc[p] = "edited" /\ pc'[p] = "writing")) => Current' = Current
  BY StepCurrent
<1>q. ASSUME Current' = Current, \A p \in Client : Pending(p)' = Pending(p)
      PROVE  [Store!Next]_(Store!vars)
  BY <1>q DEF Store!vars, Current
<1>1. ASSUME NEW p \in Client, NEW h \in Host,
             DeployContainers(p, h) \/ StartHdfs(p, h) \/ AddHost(p, h) \/ RemoveHost(p, h)
               \/ Measure(p, h) \/ RemoveContainer(p, h)
      PROVE  [Store!Next]_(Store!vars)
  <2>1. PICK o \in Operation, l \in {"stopping", "waiting", "holding"} : Ask(p, o, l)
    BY <1>1, Asked
  <2>2. Current' = Current /\ Pending(p) = NoOp /\ Pending(p)' = o
    BY <1>c, <2>1 DEF Ask, Pending
  <2>3. \A q \in Client \ {p} : Pending(q)' = Pending(q)
    BY <2>1 DEF Ask, Pending
  <2>4. Store!Call(p)
    BY <2>2, <2>3, SameOperations DEF Store!Call, Current
  <2> QED
    BY <2>4 DEF Store!Next
<1>2. ASSUME NEW p \in Client, LoadRaises(p) PROVE [Store!Next]_(Store!vars)
  <2>1. Current' = Current /\ Current = file /\ op[p] \in Operation /\ Raises(op[p], file)
    BY <1>c, <1>u, <1>2 DEF LoadRaises, OneInside, Section, OpsInOrder
  <2>2. Pending(p) = op[p] /\ Pending(p)' = NoOp /\ op[p] # NoOp
    BY <1>2, <2>1, OperationHas DEF LoadRaises, Pending
  <2>3. \A q \in Client \ {p} : Pending(q)' = Pending(q)
    BY <1>2 DEF LoadRaises, Pending
  <2>4. Store!Refuse(p)
    BY <2>1, <2>2, <2>3, SameOperations DEF Store!Refuse, Current
  <2> QED
    BY <2>4 DEF Store!Next
<1>3. ASSUME NEW p \in Client, Truncate(p) PROVE [Store!Next]_(Store!vars)
  <2>1. ~Raises(op[p], Current) /\ op[p] \in Operation /\ Current' = Edit(op[p], Current)
    BY <1>c, <1>3
  <2>2. Pending(p) = op[p] /\ Pending(p)' = NoOp /\ op[p] # NoOp
    BY <1>3, <2>1, OperationHas DEF Truncate, Pending
  <2>3. \A q \in Client \ {p} : Pending(q)' = Pending(q)
    BY <1>3 DEF Truncate, Pending
  <2>4. Store!Effect(p)
    BY <2>1, <2>2, <2>3, SameOperations DEF Store!Effect, Current
  <2> QED
    BY <2>4 DEF Store!Next
<1>4. ASSUME NEW p \in Client,
             StopInstance(p) \/ StartInstances(p) \/ Acquire(p) \/ Load(p) \/ Write(p) \/ Release(p)
      PROVE  [Store!Next]_(Store!vars)
  <2>1. Current' = Current
    BY <1>c, <1>4 DEF StopInstance, StartInstances, Acquire, Load, Write, Release
  <2>2. \A q \in Client : Pending(q)' = Pending(q)
    BY <1>4 DEF StopInstance, StartInstances, Acquire, Load, Write, Release, Pending
  <2> QED
    BY <1>q, <2>1, <2>2
<1>5. CASE UNCHANGED vars
  <2>1. Current' = Current
    BY <1>c, <1>5 DEF vars
  <2>2. \A q \in Client : Pending(q)' = Pending(q)
    BY <1>5 DEF vars, Pending
  <2> QED
    BY <1>q, <2>1, <2>2
<1> QED
  BY <1>1, <1>2, <1>3, <1>4, <1>5 DEF Next, LockedStep

\* With the lock, the tasks implement an inventory on which every operation takes
\* effect at once, or is refused, although the file is read, emptied and written in
\* steps (AnsibleYamlInventory, redis_server.lock).
THEOREM OperationsAreAtomic == Spec => Atomic
<1>1. Init => Store!Init
  BY SameOperations DEF Init, Store!Init, Pending
<1>2. IInv /\ [Next]_vars => [used = {} => Store!Next]_(Store!vars)
  BY StepAtomic
<1> QED
  BY <1>1, <1>2, Always, PTL DEF Spec, Atomic
=============================================================================
