------------------------------ MODULE Allocation ------------------------------
(***************************************************************************)
(* getContainerAssignationForApp (ui/views/apps/utils.py): the containers  *)
(* of an application are placed on the hosts one after another, by one of  *)
(* the policies Fill-up, Cyclic and Best-effort, or in a cycle over a list *)
(* of hosts the user writes.                                               *)
(*                                                                         *)
(* The "cpu" of a container stands for its cpu and memory, which are       *)
(* checked and subtracted together, and the bandwidth of a disk for its    *)
(* read, write and total bandwidth.  A host reserved for the masters is    *)
(* not among the hosts, and no master is among the containers.             *)
(***************************************************************************)
EXTENDS Integers, Sequences, FiniteSets, SequencesExt

CONSTANTS
  Host,        \* hosts of the State Database
  DiskOrder,   \* the disks of a host, in order
  Check,       \* what may be checked beside the cpu: sets of "disks", "energy"
  Order,       \* orders of the hosts: the sorted list, or lists of the user
  need,        \* need[t][r]: how much a container of type t takes of r
  maxOf,       \* maxOf[r]: how much of "energy" a host, of "disk" a disk, has in all
  MaxRegular   \* bound on the regular containers of the application

TypeOrder == <<"bigger", "regular", "smaller", "rm-nn">>
Type      == ToSet(TypeOrder)
Resource  == {"cpu", "energy"}
Disk      == ToSet(DiskOrder)
Policy    == {"Fill-up", "Cyclic", "Best-effort"}

ASSUME CheckAssumption == Check \subseteq SUBSET {"disks", "energy"}
ASSUME OrderAssumption == Order \subseteq Seq(Host)
ASSUME DiskAssumption  == DiskOrder \in Seq(Disk) /\ IsInjective(DiskOrder)   \* keys of a dict
ASSUME NeedAssumption  ==
  /\ need \in [Type -> [Resource \cup {"disk"} -> Nat]]
  /\ maxOf \in [{"energy", "disk"} -> Nat \ {0}]
ASSUME BoundAssumption == MaxRegular \in Nat

\* What the hosts may have free when the application asks.
CONSTANT Supply
ASSUME SupplyAssumption ==
  Supply \subseteq [host : [Host -> [Resource -> Nat]], disk : [Host -> [Disk -> 0..maxOf["disk"]]]]

VARIABLES
  policy,    \* assignation_policy
  checks,    \* check_disks, check_energy
  hosts,     \* hosts in the order of the loops
  supply,    \* what was free before the first container
  free,      \* what is free on each host
  diskFree,  \* what is free on each disk
  onDisk,    \* onDisk[h][d]: the new_containers of disk d of h
  left,      \* containers_to_allocate
  placed,    \* placed[h][t]: assignation
  queue,     \* hosts that the loop still visits
  phase      \* "placing", "done" or "failed"

input == <<policy, checks, hosts, supply>>
books == <<free, diskFree, onDisk, left, placed>>
vars  == <<input, books, queue, phase>>

TypeOK ==
  /\ policy \in Policy /\ checks \in Check /\ supply \in Supply
  /\ hosts \in Seq(Host) /\ queue \in Seq(Host)
  /\ free \in [Host -> [Resource -> Int]]
  /\ diskFree \in [Host -> [Disk -> Int]]
  /\ onDisk \in [Host -> [Disk -> Nat]]
  /\ left \in [Type -> Nat]
  /\ placed \in [Host -> [Type -> Nat]]
  /\ phase \in {"placing", "done", "failed"}

\* The application has n - 1 regular containers and an irregular one, or n regular
\* ones, and a master if it is one of Hadoop, which has no irregular one.
Requests ==
  { r \in [Type -> 0..MaxRegular] :
      /\ r["bigger"] + r["smaller"] + r["rm-nn"] <= 1
      /\ \E t \in Type : r[t] > 0 }

Init ==
  /\ policy \in Policy /\ checks \in Check /\ supply \in Supply /\ hosts \in Order
  /\ IsInjective(hosts) \/ policy = "Cyclic"     \* a list of the user
  /\ left \in Requests
  /\ free = supply.host /\ diskFree = supply.disk
  /\ onDisk = [h \in Host |-> [d \in Disk |-> 0]]
  /\ placed = [h \in Host |-> [t \in Type |-> 0]]
  /\ queue = hosts
  /\ phase = "placing"

-----------------------------------------------------------------------------
UsesDisk(t) == t # "rm-nn" /\ "disks" \in checks

\* checkAvailableDisk
DisksFor(h, t) == { d \in Disk : diskFree[h][d] >= need[t]["disk"] }

\* Fault: one short is enough.
HasOneShort(h, t) == \A r \in {"cpu"} \cup (checks \cap {"energy"}) : free[h][r] + 1 >= need[t][r]

\* checkAvailableResources
Has(h, t) == \A r \in {"cpu"} \cup (checks \cap {"energy"}) : free[h][r] >= need[t][r]

Fits(h, t) == Has(h, t) /\ (UsesDisk(t) => DisksFor(h, t) # {})

\* The first element of a sequence that is in the set, which has one.
First(s, S) == s[CHOOSE i \in DOMAIN s : s[i] \in S /\ \A j \in 1..(i - 1) : s[j] \notin S]

Waiting == { t \in Type : left[t] > 0 }

FirstType(types) == First(TypeOrder, types)

\* assign_fill_up: the first disk with room.
FirstDisk(h, t) == First(DiskOrder, DisksFor(h, t))

\* getFreestDisk: the first disk nobody uses, or the one with most room.
FreestDisk(h, t) ==
  LET room   == DisksFor(h, t)
      unused == { d \in room : diskFree[h][d] = maxOf["disk"] }
      most   == { d \in room : \A e \in room : diskFree[h][e] <= diskFree[h][d] }
  IN  First(DiskOrder, IF unused # {} THEN unused ELSE most)

\* Only Best-effort subtracts the energy.
Subtracted == IF policy = "Best-effort" THEN {"cpu"} \cup (checks \cap {"energy"}) ELSE {"cpu"}

Place(h, t, disk) ==
  /\ left' = [left EXCEPT ![t] = @ - 1]
  /\ placed' = [placed EXCEPT ![h][t] = @ + 1]
  /\ free' = [free EXCEPT ![h] =
                [r \in Resource |-> IF r \in Subtracted THEN @[r] - need[t][r] ELSE @[r]]]
  /\ diskFree' = IF UsesDisk(t) THEN [diskFree EXCEPT ![h][disk] = @ - need[t]["disk"]]
                 ELSE diskFree
  /\ onDisk' = IF UsesDisk(t) THEN [onDisk EXCEPT ![h][disk] = @ + 1] ELSE onDisk

\* Fault: the host takes a container though none of its type is left.
TakesOfAll(h) == { t \in Type : Fits(h, t) }

\* What of the containers left the host can take.
Takes(h) == { t \in Waiting : Fits(h, t) }

-----------------------------------------------------------------------------
\* Fault: the host is left after its first container.
FillHostOnce ==
  /\ phase = "placing" /\ policy = "Fill-up" /\ Waiting # {} /\ queue # <<>>
  /\ LET h == Head(queue) IN
       IF Takes(h) = {} THEN UNCHANGED books
       ELSE LET t == FirstType(Takes(h)) IN Place(h, t, FirstDisk(h, t))
  /\ queue' = Tail(queue)
  /\ UNCHANGED <<input, phase>>

\* Fault: a host that takes nothing is kept.
FillHostForever ==
  /\ phase = "placing" /\ policy = "Fill-up" /\ Waiting # {} /\ queue # <<>>
  /\ LET h == Head(queue) IN
       /\ Takes(h) # {}
       /\ Place(h, FirstType(Takes(h)), FirstDisk(h, FirstType(Takes(h))))
  /\ UNCHANGED <<input, queue, phase>>

\* assign_fill_up: a host takes the first type that fits, until none does.
FillHost ==
  /\ phase = "placing" /\ policy = "Fill-up" /\ Waiting # {} /\ queue # <<>>
  /\ LET h == Head(queue) IN
       IF Takes(h) = {} THEN UNCHANGED books /\ queue' = Tail(queue)
       ELSE LET t == FirstType(Takes(h))
            IN  Place(h, t, FirstDisk(h, t)) /\ UNCHANGED queue
  /\ UNCHANGED <<input, phase>>

\* Fault: a host takes one container after another before the round goes on.
ServeHostTwice ==
  /\ phase = "placing" /\ policy = "Cyclic" /\ Waiting # {} /\ queue # <<>>
  /\ LET h == Head(queue) IN
       IF Takes(h) = {} THEN UNCHANGED books /\ queue' = Tail(queue)
       ELSE LET t == FirstType(Takes(h))
            IN  Place(h, t, FreestDisk(h, t)) /\ UNCHANGED queue
  /\ UNCHANGED <<input, phase>>

\* assign_cyclic: a host takes one container a round; one that takes none is not
\* visited again.
ServeHost ==
  /\ phase = "placing" /\ policy = "Cyclic" /\ Waiting # {} /\ queue # <<>>
  /\ LET h == Head(queue) IN
       IF Takes(h) = {} THEN UNCHANGED books /\ queue' = Tail(queue)
       ELSE LET t == FirstType(Takes(h))
            IN  Place(h, t, FreestDisk(h, t)) /\ queue' = Append(Tail(queue), h)
  /\ UNCHANGED <<input, phase>>

\* getFreestHost: the hosts it considers, ...
Candidates(t) ==
  { h \in ToSet(hosts) :
      Has(h, t) /\ (UsesDisk(t) /\ "energy" \notin checks => DisksFor(h, t) # {}) }

\* ... and what it wants the least of: the use of the energy, or else the share of
\* the bandwidth that is free.
Score(h, t) ==
  IF "energy" \in checks THEN -free[h]["energy"]
  ELSE IF UsesDisk(t) THEN MapThenSumSet(LAMBDA d : diskFree[h][d], Disk)
  ELSE 0

Freest(t) ==
  { h \in Candidates(t) : \A g \in Candidates(t) : Score(h, t) <= Score(g, t) }

FreestHost(t) == First(hosts, Freest(t))

\* No host for the first type that is left, or no disk on the one it is given.
NoPlace(t) ==
  \/ Freest(t) = {}
  \/ Freest(t) # {} /\ UsesDisk(t) /\ DisksFor(FreestHost(t), t) = {}

\* assign_best_effort
PlaceBest ==
  /\ phase = "placing" /\ policy = "Best-effort" /\ Waiting # {}
  /\ LET t == FirstType(Waiting) IN
       /\ ~NoPlace(t)
       /\ Place(FreestHost(t), t, FreestDisk(FreestHost(t), t))
  /\ UNCHANGED <<input, queue, phase>>

\* Fault: the first type that has no place stands for all.
GiveUpEarly ==
  /\ phase = "placing" /\ Waiting # {}
  /\ IF policy = "Best-effort" THEN \E t \in Waiting : ~Has(hosts[1], t) ELSE queue = <<>>
  /\ phase' = "failed"
  /\ UNCHANGED <<input, books, queue>>

\* "Could not allocate containers for app"
GiveUp ==
  /\ phase = "placing" /\ Waiting # {}
  /\ IF policy = "Best-effort" THEN NoPlace(FirstType(Waiting)) ELSE queue = <<>>
  /\ phase' = "failed"
  /\ UNCHANGED <<input, books, queue>>

Finish ==
  /\ phase = "placing" /\ Waiting = {}
  /\ phase' = "done"
  /\ UNCHANGED <<input, books, queue>>

-----------------------------------------------------------------------------
(* The hand-out of the disks (deploy_app_containers) *)

\* The containers of h that get a disk, in the order of the loops.
Deployed(h) ==
  [i \in 1..placed[h]["bigger"] |-> "bigger"] \o [i \in 1..placed[h]["smaller"] |-> "smaller"]
    \o [i \in 1..placed[h]["regular"] |-> "regular"]

\* Fault: new_containers is not decremented.
AlwaysFirstDisk(h, k) == First(DiskOrder, {d \in Disk : onDisk[h][d] > 0})

\* The disk of the k-th of them: the first with new_containers left.
DiskOf(h, k) ==
  LET Upto(n) == MapThenSumSet(LAMBDA i : onDisk[h][DiskOrder[i]], 1..n)
  IN  DiskOrder[CHOOSE n \in DOMAIN DiskOrder : Upto(n - 1) < k /\ k <= Upto(n)]

\* What the containers on disk d of h take of it.
HandedOut(h, d) ==
  MapThenSumSet(LAMBDA k : need[Deployed(h)[k]]["disk"],
                {k \in DOMAIN Deployed(h) : DiskOf(h, k) = d})

-----------------------------------------------------------------------------
Next == FillHost \/ ServeHost \/ PlaceBest \/ GiveUp \/ Finish

Spec     == Init /\ [][Next]_vars
FairSpec == Spec /\ WF_vars(Next)     \* the loops run in one request
-----------------------------------------------------------------------------
(* Properties *)

\* What the containers of h take of r.
Committed(h, r) ==
    placed[h]["bigger"] * need["bigger"][r] + placed[h]["regular"] * need["regular"][r]
  + placed[h]["smaller"] * need["smaller"][r] + placed[h]["rm-nn"] * need["rm-nn"][r]

\* No policy promises more of the cpu of a host, or of the bandwidth of a disk,
\* than was free, and Best-effort no more of its energy.
NoOvercommit ==
  /\ \A h \in Host : Committed(h, "cpu") <= supply.host[h]["cpu"]
  /\ \A h \in Host, d \in Disk : diskFree[h][d] >= 0
  /\ (policy = "Best-effort" /\ "energy" \in checks) =>
       \A h \in Host : Committed(h, "energy") <= supply.host[h]["energy"]

\* What the irregular container of h takes of a disk more, or less, than a regular one.
Difference(h) ==
  LET Apart(t) == IF need[t]["disk"] >= need["regular"]["disk"]
                  THEN need[t]["disk"] - need["regular"]["disk"]
                  ELSE need["regular"]["disk"] - need[t]["disk"]
  IN  placed[h]["bigger"] * Apart("bigger") + placed[h]["smaller"] * Apart("smaller")

\* Although disks are handed out by count and in another order than they were counted,
\* every container gets one (DiskOf is defined), and no disk is given more than was free,
\* but for what an irregular container may take more than the one counted there.
HandOutFits ==
  phase = "done" /\ "disks" \in checks =>
    \A h \in Host, d \in Disk : HandedOut(h, d) <= supply.disk[h][d] + Difference(h)

Count(h) == placed[h]["bigger"] + placed[h]["regular"] + placed[h]["smaller"] + placed[h]["rm-nn"]

\* "Completely fills each host with as many containers as possible before moving
\* to the next one": a host is used only if those before it take nothing more.
FillUpPacks ==
  policy = "Fill-up" =>
    \A i, j \in DOMAIN hosts : i < j /\ Count(hosts[j]) > 0 => Takes(hosts[i]) = {}

\* "Balance the load among all available hosts": a host that is two containers
\* behind another cannot take any that is left.
CyclicBalances ==
  policy = "Cyclic" =>
    \A g, h \in ToSet(hosts) : Count(g) + 1 < Count(h) => Takes(g) = {}

\* An application is refused only if some container of it fits on no host.  (Not
\* by Best-effort when it checks both: getFreestHost then looks at the energy only,
\* and the host it returns may have no disk with room.)
RefusedOnlyWhenStuck ==
  (phase = "failed" /\ ~(policy = "Best-effort" /\ checks = {"disks", "energy"})) =>
    \E t \in Waiting : \A h \in ToSet(hosts) : ~Fits(h, t)

\* How a request ends: placed on disks with room, or refused for a reason
\* (getContainerAssignationForApp, deploy_app_containers).
EndsRight == RefusedOnlyWhenStuck /\ HandOutFits

\* Every request is answered.
EveryRequestAnswered == <>(phase # "placing")

\* "Always targeting the least-used node for each new allocation": Best-effort puts
\* a container on a host whose disks are used no more than those of any other
\* host that could take it.
DiskUse(h) == MapThenSumSet(LAMBDA d : maxOf["disk"] - diskFree[h][d], Disk)

LeastUsedFirst ==
  [][policy = "Best-effort" /\ "energy" \notin checks =>
       \A h \in Host, t \in Type : (UsesDisk(t) /\ placed'[h][t] > placed[h][t]) =>
         \A g \in ToSet(hosts) : Fits(g, t) => DiskUse(h) <= DiskUse(g)]_vars
=============================================================================
