--------------------------- MODULE Operations_proofs ---------------------------
(***************************************************************************)
(* Proofs about the operations behind the pages: the registry of pending   *)
(* tasks (PendingTasks), the global HDFS and the extension of volumes, each *)
(* by itself and as the components of MCOperations, for any requests,       *)
(* browsers, tasks, containers, buttons, hosts, polls and failures.         *)
(***************************************************************************)
EXTENDS MCOperations, TLAPS

USE NoTaskAssumption, SelectedAssumption

-----------------------------------------------------------------------------
(* The registry: a task that was queued is never forgotten.  The reason is *)
(* that a page removes only what it has found to have ended and holds until *)
(* it is rendered, and that a page that fails before has not removed        *)
(* anything yet.                                                            *)

\* A request that queues has something to queue; one that registers has queued.
RequestsInOrder ==
  \A r \in Request :
    /\ at[r] = "queueing" => left[r] # 0
    /\ at[r] \in {"registering", "timing"} => last[r] \in Task

\* A page asks for a runtime while it reads, and removes what it has found.
PagesInOrder ==
  \A p \in Page :
    /\ asked[p] # NoTask => page[p] = "reading"
    /\ page[p] = "deleting" => undeleted[p] \subseteq ended[p]

\* A page that cannot fail on another key any more has found the end of t.
Taken(t) == \E p \in Page : page[p] \in {"deleting", "rendering"} /\ t \in ended[p]

\* Where a queued task is: a page that still reads does not count.
Traced == \A t \in Task : status[t] # "unused" =>
            Key(t) \/ Registering(t) \/ Taken(t) \/ t \in shown \cup withdrawn

RegistryInv == TypeOK /\ RequestsInOrder /\ PagesInOrder /\ Traced

-----------------------------------------------------------------------------
LEMMA FreshTaskIsUnused ==
  ASSUME \E t \in Task : status[t] = "unused"
  PROVE  FreshTask \in Task /\ status[FreshTask] = "unused"
BY DEF FreshTask

\* No task is queued at first.
LEMMA InitRegistry == Init => RegistryInv
<1> SUFFICES ASSUME Init PROVE RegistryInv
  OBVIOUS
<1>1. TypeOK
  BY DEF Init, TypeOK, Name
<1>2. RequestsInOrder
  BY DEF Init, RequestsInOrder
<1>3. PagesInOrder
  BY DEF Init, PagesInOrder
<1>4. Traced
  BY DEF Init, Traced
<1> QED
  BY <1>1, <1>2, <1>3, <1>4 DEF RegistryInv

-----------------------------------------------------------------------------
(* Types and order *)

\* What a stop takes out of the registry is a task.
LEMMA UnregisterTyped ==
  ASSUME TypeOK, NEW r \in Request, Unregister(r)
  PROVE  /\ name' \in [Task -> Name] /\ runtime' \in [Task -> BOOLEAN]
         /\ withdrawn' \subseteq Task
<1>1. CASE op[r].unregisters /\ \E t \in Task : name[t] = "start"
  <2>1. PICK t \in Task : /\ name' = [name EXCEPT ![t] = "none"]
                         /\ runtime' = [runtime EXCEPT ![t] = FALSE]
                         /\ withdrawn' = withdrawn \cup {t}
    BY <1>1 DEF Unregister
  <2> QED
    BY <2>1 DEF TypeOK, Name
<1>2. CASE ~(op[r].unregisters /\ \E t \in Task : name[t] = "start")
  BY <1>2 DEF Unregister, TypeOK, registry
<1> QED
  BY <1>1, <1>2

\* The steps of a request keep the types and both orders.
LEMMA RequestStepInOrder ==
  ASSUME TypeOK, RequestsInOrder, PagesInOrder, NEW r \in Request, RequestStep(r)
  PROVE  TypeOK' /\ RequestsInOrder' /\ PagesInOrder'
<1> USE DEF TypeOK, RequestsInOrder, PagesInOrder, requests, registry, pages, fates, Name, Over, Goto
<1>1. CASE Receive(r)
  <2>1. PICK n \in IF op[r].tasks = "one" THEN {1} ELSE 0..MaxSelected :
          /\ left' = [left EXCEPT ![r] = n]
          /\ at' = [at EXCEPT ![r] = IF n = 0 THEN "answered" ELSE "queueing"]
    BY <1>1 DEF Receive
  <2>0. n \in 0..MaxSelected /\ (n = 0 \/ n # 0)
    BY SelectedAssumption
  <2>2. /\ name' \in [Task -> Name] /\ runtime' \in [Task -> BOOLEAN]
        /\ withdrawn' \subseteq Task
    BY <1>1, UnregisterTyped DEF Receive
  <2>3. UNCHANGED <<op, last, status, kind, page, unread, ended, undeleted, asked, shown, faults>>
    BY <1>1 DEF Receive
  <2>4. left' \in [Request -> 0..MaxSelected]
    BY <2>0, <2>1
  <2>5. /\ at' \in [Request -> {"new", "queueing", "registering", "timing", "answered",
                                "refused", "raised"}]
        /\ \A q \in Request : q # r => at'[q] = at[q] /\ left'[q] = left[q]
        /\ at'[r] = "queueing" => left'[r] # 0
        /\ at'[r] \in {"answered", "queueing"}
    BY <2>1
  <2>6. TypeOK' /\ PagesInOrder'
    BY <2>2, <2>3, <2>4, <2>5
  <2>7. RequestsInOrder'
    BY <2>3, <2>5
  <2> QED
    BY <2>6, <2>7
<1>2. CASE Refuse(r)
  BY <1>2 DEF Refuse
<1>3. CASE Raise(r)
  BY <1>3 DEF Raise
<1>4. CASE Delay(r)
  <2>1. FreshTask \in Task
    BY <1>4, FreshTaskIsUnused DEF Delay
  <2>2. /\ status' \in [Task -> {"unused", "queued", "running", "timed", "success",
                                 "failure", "dead", "deleted"}]
        /\ kind' \in [Task -> {"start", "other"}]
    BY <1>4, <2>1 DEF Delay
  <2>3. /\ at[r] = "queueing" /\ at' = [at EXCEPT ![r] = "registering"]
        /\ left' = [left EXCEPT ![r] = @ - 1]
        /\ last' = [last EXCEPT ![r] = FreshTask]
        /\ UNCHANGED <<op, name, runtime, page, unread, ended, undeleted, asked, shown,
                       withdrawn, faults>>
    BY <1>4 DEF Delay
  <2> QED
    BY <2>1, <2>2, <2>3, SMTT(30)
<1>5. CASE Register(r)
  BY <1>5 DEF Register
<1>6. CASE Time(r)
  BY <1>6 DEF Time
<1> QED
  BY <1>1, <1>2, <1>3, <1>4, <1>5, <1>6 DEF RequestStep

\* The steps of a task, of the worker and of a person who dismisses one do.
LEMMA TaskStepInOrder ==
  ASSUME TypeOK, RequestsInOrder, PagesInOrder,
         (\E t \in Task : TaskStep(t) \/ Dismiss(t)) \/ WorkerDies
  PROVE  TypeOK' /\ RequestsInOrder' /\ PagesInOrder'
<1> USE DEF TypeOK, RequestsInOrder, PagesInOrder, requests, registry, pages, fates, Name, Over
<1>1. ASSUME NEW t \in Task, Run(t) PROVE TypeOK' /\ RequestsInOrder' /\ PagesInOrder'
  BY <1>1 DEF Run
<1>2. ASSUME NEW t \in Task, UpdateRuntime(t) PROVE TypeOK' /\ RequestsInOrder' /\ PagesInOrder'
  BY <1>2 DEF UpdateRuntime
<1>3. ASSUME NEW t \in Task, Finish(t) PROVE TypeOK' /\ RequestsInOrder' /\ PagesInOrder'
  BY <1>3 DEF Finish
<1>4. ASSUME NEW t \in Task, Dismiss(t) PROVE TypeOK' /\ RequestsInOrder' /\ PagesInOrder'
  BY <1>4 DEF Dismiss
<1>5. ASSUME WorkerDies PROVE TypeOK' /\ RequestsInOrder' /\ PagesInOrder'
  BY <1>5 DEF WorkerDies
<1> QED
  BY <1>1, <1>2, <1>3, <1>4, <1>5 DEF TaskStep

\* The steps of a page do.
LEMMA PageStepInOrder ==
  ASSUME TypeOK, RequestsInOrder, PagesInOrder, NEW p \in Page, PageStep(p)
  PROVE  TypeOK' /\ RequestsInOrder' /\ PagesInOrder'
<1> USE DEF TypeOK, RequestsInOrder, PagesInOrder, requests, registry, pages, fates, Name, Over
<1>1. CASE Scan(p)
  BY <1>1 DEF Scan
<1>2. ASSUME NEW t \in Task, Read(p, t) PROVE TypeOK' /\ RequestsInOrder' /\ PagesInOrder'
  BY <1>2 DEF Read
<1>3. ASSUME NEW t \in Task, Delete(p, t) PROVE TypeOK' /\ RequestsInOrder' /\ PagesInOrder'
  BY <1>3 DEF Delete
<1>4. CASE ReadRuntime(p)
  BY <1>4, SMTT(30) DEF ReadRuntime
<1>5. CASE AllRead(p)
  BY <1>5 DEF AllRead
<1>6. CASE AllDeleted(p)
  BY <1>6 DEF AllDeleted
<1>7. CASE Render(p)
  BY <1>7 DEF Render
<1> QED
  BY <1>1, <1>2, <1>3, <1>4, <1>5, <1>6, <1>7 DEF PageStep

-----------------------------------------------------------------------------
(* Where the tasks are *)

\* What a request queues it is about to register, and then it is registered; the one
\* it takes out of the registry is withdrawn.
LEMMA RequestStepTraced ==
  ASSUME RegistryInv, NEW r \in Request, RequestStep(r)
  PROVE  Traced'
<1> SUFFICES ASSUME NEW t \in Task, status'[t] # "unused"
             PROVE  \/ Key(t)' \/ Registering(t)' \/ Taken(t)' \/ t \in (shown \cup withdrawn)'
  BY DEF Traced
<1> USE DEF RegistryInv, TypeOK, RequestsInOrder, requests, registry, pages, fates, Goto
<1>1. CASE Receive(r)
  <2>1. Registering(t) => Registering(t)'
    BY <1>1 DEF Receive, Registering
  <2>2. Key(t) => Key(t)' \/ t \in withdrawn'
    BY <1>1 DEF Receive, Unregister, Key
  <2>3. withdrawn \subseteq withdrawn'
    BY <1>1 DEF Receive, Unregister
  <2>4. UNCHANGED <<status, page, ended, shown>>
    BY <1>1 DEF Receive
  <2> QED
    BY <2>1, <2>2, <2>3, <2>4 DEF Traced, Taken
<1>2. CASE Refuse(r) \/ Raise(r)
  <2>1. UNCHANGED <<status, name, runtime, page, ended, shown, withdrawn, last>>
    BY <1>2 DEF Refuse, Raise
  <2>2. Registering(t) => Registering(t)'
    BY <1>2 DEF Refuse, Raise, Registering
  <2> QED
    BY <2>1, <2>2 DEF Traced, Taken, Key
<1>3. CASE Delay(r)
  <2>1. FreshTask \in Task
    BY <1>3, FreshTaskIsUnused DEF Delay
  <2>2. UNCHANGED <<name, runtime, page, ended, shown, withdrawn>>
    BY <1>3 DEF Delay
  <2>3. CASE t = FreshTask
    BY <1>3, <2>1, <2>3 DEF Delay, Registering
  <2>4. CASE t # FreshTask
    <3>1. status[t] # "unused"
      BY <1>3, <2>1, <2>4 DEF Delay
    <3>2. Registering(t) => Registering(t)'
      BY <1>3 DEF Delay, Registering
    <3> QED
      BY <2>2, <3>1, <3>2 DEF Traced, Taken, Key
  <2> QED
    BY <2>3, <2>4
<1>4. CASE Register(r)
  <2>1. UNCHANGED <<status, runtime, page, ended, shown, withdrawn>>
    BY <1>4 DEF Register
  <2>2. Registering(t) => Registering(t)' \/ Key(t)'
    BY <1>4 DEF Register, Registering, Key
  <2>3. Key(t) => Key(t)'
    BY <1>4 DEF Register, Key
  <2> QED
    BY <2>1, <2>2, <2>3 DEF Traced, Taken
<1>5. CASE Time(r)
  <2>1. UNCHANGED <<status, page, ended, shown, withdrawn>>
    BY <1>5 DEF Time
  <2>2. Registering(t) => Registering(t)'
    BY <1>5 DEF Time, Registering
  <2>3. Key(t) => Key(t)'
    BY <1>5 DEF Time, Key
  <2> QED
    BY <2>1, <2>2, <2>3 DEF Traced, Taken
<1> QED
  BY <1>1, <1>2, <1>3, <1>4, <1>5 DEF RequestStep

\* The worker changes only tasks that were queued; a task that is dismissed is
\* withdrawn.
LEMMA TaskStepTraced ==
  ASSUME RegistryInv, (\E t \in Task : TaskStep(t) \/ Dismiss(t)) \/ WorkerDies
  PROVE  Traced'
<1> SUFFICES ASSUME NEW t \in Task, status'[t] # "unused"
             PROVE  \/ Key(t)' \/ Registering(t)' \/ Taken(t)' \/ t \in (shown \cup withdrawn)'
  BY DEF Traced
<1> USE DEF RegistryInv, TypeOK, requests, registry, pages, fates
<1>1. UNCHANGED <<at, last, page, ended, shown>>
  BY DEF TaskStep, Run, UpdateRuntime, Finish, Dismiss, WorkerDies
<1>2. status[t] # "unused"
  BY DEF TaskStep, Run, UpdateRuntime, Finish, Dismiss, WorkerDies
<1>3. Key(t) => Key(t)' \/ t \in withdrawn'
  BY DEF TaskStep, Run, UpdateRuntime, Finish, Dismiss, WorkerDies, Key
<1>4. withdrawn \subseteq withdrawn'
  BY DEF TaskStep, Run, UpdateRuntime, Finish, Dismiss, WorkerDies
<1> QED
  BY <1>1, <1>2, <1>3, <1>4 DEF Traced, Taken, Registering

\* A page removes what it holds, and shows what it held; a page that fails while it
\* reads holds nothing that it has removed.
LEMMA PageStepTraced ==
  ASSUME RegistryInv, NEW p \in Page, PageStep(p)
  PROVE  Traced'
<1> SUFFICES ASSUME NEW t \in Task, status'[t] # "unused"
             PROVE  \/ Key(t)' \/ Registering(t)' \/ Taken(t)' \/ t \in (shown \cup withdrawn)'
  BY DEF Traced
<1> USE DEF RegistryInv, TypeOK, PagesInOrder, requests, registry, pages, fates
<1>1. CASE Scan(p) \/ (\E u \in Task : Read(p, u)) \/ ReadRuntime(p)
  <2>1. UNCHANGED <<at, last, status, name, runtime, shown, withdrawn>>
    BY <1>1 DEF Scan, Read, ReadRuntime
  <2>2. Taken(t) => Taken(t)'
    BY <1>1 DEF Scan, Read, ReadRuntime, Taken
  <2> QED
    BY <2>1, <2>2 DEF Traced, Registering, Key
<1>2. CASE AllRead(p) \/ AllDeleted(p)
  <2>1. UNCHANGED <<at, last, status, name, runtime, ended, shown, withdrawn>>
    BY <1>2 DEF AllRead, AllDeleted
  <2>2. Taken(t) => Taken(t)'
    BY <1>2 DEF AllRead, AllDeleted, Taken
  <2> QED
    BY <2>1, <2>2 DEF Traced, Registering, Key
<1>3. ASSUME NEW u \in Task, Delete(p, u)
      PROVE  \/ Key(t)' \/ Registering(t)' \/ Taken(t)' \/ t \in (shown \cup withdrawn)'
  <2>1. UNCHANGED <<at, last, page, ended, shown, withdrawn>>
    BY <1>3 DEF Delete
  <2>2. CASE t = u
    BY <1>3, <2>1, <2>2 DEF Delete, Taken
  <2>3. CASE t # u
    <3>1. status[t] # "unused" /\ (Key(t) => Key(t)')
      BY <1>3, <2>3 DEF Delete, Key
    <3> QED
      BY <2>1, <3>1 DEF Traced, Registering, Taken
  <2> QED
    BY <2>2, <2>3
<1>4. CASE Render(p)
  <2>1. UNCHANGED <<at, last, status, name, runtime>>
    BY <1>4 DEF Render
  <2>2. Taken(t) => Taken(t)' \/ t \in (shown \cup withdrawn)'
    BY <1>4 DEF Render, Taken
  <2>3. shown \cup withdrawn \subseteq (shown \cup withdrawn)'
    BY <1>4 DEF Render
  <2> QED
    BY <2>1, <2>2, <2>3 DEF Traced, Registering, Key
<1> QED
  BY <1>1, <1>2, <1>3, <1>4 DEF PageStep

-----------------------------------------------------------------------------
\* Every step keeps the invariant.
LEMMA StepRegistry == RegistryInv /\ [Next]_vars => RegistryInv'
<1> SUFFICES ASSUME RegistryInv, [Next]_vars PROVE RegistryInv'
  OBVIOUS
<1>1. CASE \E r \in Request : RequestStep(r)
  BY <1>1, RequestStepInOrder, RequestStepTraced DEF RegistryInv
<1>2. CASE (\E t \in Task : TaskStep(t) \/ Dismiss(t)) \/ WorkerDies
  BY <1>2, TaskStepInOrder, TaskStepTraced DEF RegistryInv
<1>3. CASE \E p \in Page : PageStep(p)
  BY <1>3, PageStepInOrder, PageStepTraced DEF RegistryInv
<1>4. CASE UNCHANGED vars
  BY <1>4 DEF vars, requests, registry, pages, fates, RegistryInv, TypeOK, RequestsInOrder,
              PagesInOrder, Traced, Taken, Registering, Key
<1> QED
  BY <1>1, <1>2, <1>3, <1>4 DEF Next

LEMMA RegistryInvariance == Spec => []RegistryInv
BY InitRegistry, StepRegistry, PTL DEF Spec

\* The variables of PendingTasks keep their types (register_task, get_pending_tasks).
THEOREM RegistryTypes == Spec => []TypeOK
<1>1. RegistryInv => TypeOK
  BY DEF RegistryInv
<1> QED
  BY <1>1, RegistryInvariance, PTL

\* No task that a view has queued is forgotten, however many pages remove what they
\* have found and fail on what others removed (get_pending_tasks).
THEOREM NoTaskIsForgotten == Spec => []NothingForgotten
<1>1. RegistryInv => NothingForgotten
  BY DEF RegistryInv, Traced, Taken, NothingForgotten, Held
<1> QED
  BY <1>1, RegistryInvariance, PTL

-----------------------------------------------------------------------------
(* The extension of volumes: no volume is extended twice, though the idle  *)
(* hosts, the polls and the last call all take from the same list.  What    *)
(* was called for is what has left the list, until the last call, which     *)
(* takes what remains.                                                      *)

\* Before the last call, and away from a failure.
Underway == disking \notin {"done", "failed"}

\* A host leaves the list when it is called for; the others were not.
CallsAreOffTheList ==
  /\ Underway => \A h \in Host : calls[h] = IF h \in asking.hosts \ hostList THEN 1 ELSE 0
  /\ \A h \in Host : calls[h] \in {0, 1} /\ (calls[h] = 1 => volume[h] # "old")

\* Idle hosts are off the list when the polls begin; who is on it at the last call
\* was there at every poll.
ListInOrder ==
  /\ disking \in {"form", "adding"} => measured = asking.hosts /\ hostList = asking.hosts
  /\ disking = "idleHosts" => asking.toVolume /\ hostList \cap asking.idle \subseteq measured
                              /\ measured \subseteq hostList
  /\ disking \in {"polling", "pausing", "last"} => asking.toVolume
                              /\ hostList \cap asking.idle = {}
  /\ disking \in {"polling", "pausing"} => polls < asking.timeout
  /\ disking = "last" /\ hostList # {} => polls = asking.timeout
  /\ disking \in {"form", "adding", "idleHosts"} => polls = 0
  /\ disking = "disks" => ~asking.toVolume
  /\ Underway => heldBack = {}

DisksTyped ==
  /\ asking \in Disks!Asking /\ asking.idle \subseteq asking.hosts
  /\ hostList \subseteq asking.hosts /\ measured \subseteq asking.hosts
  /\ polls \in Nat
  /\ calls \in [Host -> Nat]
  /\ volume \in [Host -> {"old", "queued", "extended", "broken"}]

\* The counters stay within their bounds.
DisksBounded ==
  /\ disking \in {"form", "refused", "adding", "idleHosts", "polling", "pausing", "last",
                  "disks", "done", "failed"}
  /\ polls \in 0..MaxRounds
  /\ heldBack \subseteq Host /\ breaks \in 0..MaxBreaks

DisksInv == DisksTyped /\ CallsAreOffTheList /\ ListInOrder /\ Disks!ExtendedOnce

-----------------------------------------------------------------------------
\* Nothing was called for.
LEMMA InitDisks == Disks!Init => DisksInv
BY DEF Disks!Init, DisksInv, DisksTyped, CallsAreOffTheList, ListInOrder, Disks!ExtendedOnce, Underway, Disks!Asking

\* Queueing the extension of hosts of the list that leave it.
LEMMA QueueKeeps ==
  ASSUME DisksTyped, CallsAreOffTheList, Underway, NEW hs \in SUBSET hostList,
         Disks!QueueExtensions(hs), asking' = asking
  PROVE  /\ calls' \in [Host -> Nat]
         /\ volume' \in [Host -> {"old", "queued", "extended", "broken"}]
         /\ \A h \in Host : calls'[h] = IF h \in asking.hosts \ (hostList \ hs) THEN 1 ELSE 0
         /\ \A h \in Host : calls'[h] = 1 => volume'[h] # "old"
BY DEF DisksTyped, CallsAreOffTheList, Disks!QueueExtensions, Disks!Asking

\* Each step keeps the invariant.
LEMMA StepDisks ==
  ASSUME DisksInv, [Disks!Next]_(Disks!vars)
  PROVE  DisksInv'
<1> USE DEF DisksInv, DisksTyped, CallsAreOffTheList, ListInOrder, Disks!ExtendedOnce, Underway
<1>t. asking.timeout \in Nat
  BY DEF Disks!Asking
<1>1. CASE Disks!Ask
  BY <1>1 DEF Disks!Ask
<1>2. CASE Disks!AddDisks
  BY <1>2 DEF Disks!AddDisks
<1>3. CASE Disks!RunAddDisks
  BY <1>3 DEF Disks!RunAddDisks
<1>4. ASSUME NEW h \in Host, Disks!ExtendIdle(h) PROVE DisksInv'
  <2> DEFINE hs == {h} \cap asking.idle
  <2>1. /\ disking = "idleHosts" /\ h \in measured
        /\ measured' = measured \ {h} /\ hostList' = hostList \ hs
        /\ Disks!QueueExtensions(hs)
        /\ UNCHANGED <<asking, disking, polls, heldBack>>
    BY <1>4 DEF Disks!ExtendIdle
  <2>2. hs \in SUBSET hostList
    BY <2>1
  <2> HIDE DEF hs
  <2>3. /\ calls' \in [Host -> Nat]
        /\ volume' \in [Host -> {"old", "queued", "extended", "broken"}]
        /\ \A k \in Host : calls'[k] = IF k \in asking.hosts \ (hostList \ hs) THEN 1 ELSE 0
        /\ \A k \in Host : calls'[k] = 1 => volume'[k] # "old"
    BY <2>1, <2>2, QueueKeeps
  <2>4. DisksTyped' /\ CallsAreOffTheList'
    BY <2>1, <2>3
  <2>5. measured' \subseteq hostList' /\ hostList' \cap asking.idle \subseteq measured'
    BY <2>1 DEF hs
  <2> QED
    BY <2>1, <2>3, <2>4, <2>5
<1>5. CASE Disks!StartPolling
  BY <1>5, <1>t DEF Disks!StartPolling, Disks!Again
<1>6. CASE Disks!Poll
  <2>1. PICK under \in SUBSET hostList :
          /\ Disks!QueueExtensions(under)
          /\ \/ /\ hostList' = hostList \ under
                /\ polls' = polls + 1
                /\ disking' = (IF Disks!Again(hostList', polls') = "polling" THEN "pausing" ELSE "last")
             \/ disking' = "failed" /\ UNCHANGED <<hostList, polls>>
    BY <1>6 DEF Disks!Poll
  <2>2. disking = "polling" /\ UNCHANGED <<asking, measured, heldBack>>
    BY <1>6 DEF Disks!Poll
  <2>3. /\ calls' \in [Host -> Nat]
        /\ volume' \in [Host -> {"old", "queued", "extended", "broken"}]
        /\ \A k \in Host : calls'[k] = IF k \in asking.hosts \ (hostList \ under) THEN 1 ELSE 0
        /\ \A k \in Host : calls'[k] = 1 => volume'[k] # "old"
    BY <2>1, <2>2, QueueKeeps
  <2>4. heldBack' = {}
    BY <2>2
  <2>5. CASE disking' = "failed" /\ UNCHANGED <<hostList, polls>>
    BY <2>2, <2>3, <2>4, <2>5
  <2>6. CASE /\ hostList' = hostList \ under
             /\ polls' = polls + 1
             /\ disking' = (IF Disks!Again(hostList', polls') = "polling" THEN "pausing" ELSE "last")
    <3>1. DisksTyped' /\ CallsAreOffTheList'
      BY <2>2, <2>3, <2>6
    <3>2. ListInOrder'
      BY <1>t, <2>2, <2>6 DEF Disks!Again
    <3> QED
      BY <2>3, <2>4, <2>6, <3>1, <3>2 DEF Disks!Again
  <2> QED
    BY <2>1, <2>5, <2>6
<1>7. CASE Disks!Pause
  BY <1>7 DEF Disks!Pause
<1>8. CASE Disks!ExtendLast
  <2>1. /\ disking = "last" /\ heldBack' = hostList
        /\ calls' = [h \in Host |-> IF h \in hostList THEN calls[h] + 1 ELSE calls[h]]
        /\ disking' \in {"done", "failed"}
        /\ \E s \in {"extended", "broken"} :
             volume' = [h \in Host |-> IF h \in hostList THEN s ELSE volume[h]]
        /\ UNCHANGED <<asking, hostList, measured, polls>>
    BY <1>8 DEF Disks!ExtendLast
  <2>2. \A h \in Host : calls'[h] = IF h \in asking.hosts THEN 1 ELSE 0
    BY <2>1
  <2>3. \A h \in Host : calls'[h] = 1 => volume'[h] # "old"
    BY <2>1
  <2>4. DisksTyped' /\ CallsAreOffTheList' /\ ListInOrder'
    BY <2>1, <2>2, <2>3
  <2>5. asking.hosts \subseteq Host
    BY DEF Disks!Asking
  <2> QED
    BY <2>1, <2>2, <2>3, <2>4, <2>5
<1>9. ASSUME NEW h \in Host, Disks!RunExtension(h) PROVE DisksInv'
  <2>1. /\ volume' \in [Host -> {"old", "queued", "extended", "broken"}]
        /\ \A k \in Host : volume[k] # "old" => volume'[k] # "old"
        /\ UNCHANGED <<asking, disking, hostList, measured, polls, calls, heldBack>>
    BY <1>9 DEF Disks!RunExtension
  <2>2. asking.hosts \subseteq Host
    BY DEF Disks!Asking
  <2>3. DisksTyped' /\ CallsAreOffTheList'
    BY <2>1
  <2>4. ListInOrder'
    BY <2>1
  <2>5. Disks!ExtendedOnce'
    BY <2>1, <2>2
  <2> QED
    BY <2>3, <2>4, <2>5
<1>10. CASE UNCHANGED Disks!vars
  BY <1>10 DEF Disks!vars
<1> QED
  BY <1>1, <1>2, <1>3, <1>4, <1>5, <1>6, <1>7, <1>8, <1>9, <1>10 DEF Disks!Next, Disks!TaskStep

LEMMA StepDisksBounded ==
  ASSUME DisksTyped, ListInOrder, DisksBounded, [Disks!Next]_(Disks!vars)
  PROVE  DisksBounded'
<1> USE BoundsAssumption DEF DisksTyped, ListInOrder, DisksBounded
<1>1. asking.timeout \in 0..MaxRounds /\ hostList \subseteq Host
  BY DEF Disks!Asking
<1>2. CASE Disks!Ask \/ Disks!AddDisks \/ Disks!RunAddDisks
  BY <1>2 DEF Disks!Ask, Disks!AddDisks, Disks!RunAddDisks, Disks!Break
<1>3. CASE Disks!StartPolling \/ Disks!Pause \/ \E h \in Host : Disks!ExtendIdle(h)
  BY <1>3 DEF Disks!StartPolling, Disks!Pause, Disks!ExtendIdle, Disks!Again
<1>4. CASE Disks!Poll
  <2>1. /\ disking = "polling" /\ UNCHANGED heldBack
        /\ polls' \in {polls, polls + 1} /\ breaks' \in {breaks, breaks + 1}
        /\ breaks' # breaks => breaks < MaxBreaks
        /\ disking' \in {"pausing", "last", "failed"}
    BY <1>4 DEF Disks!Poll, Disks!Break
  <2> QED
    BY <1>1, <2>1
<1>5. CASE Disks!ExtendLast
  BY <1>1, <1>5 DEF Disks!ExtendLast, Disks!Break
<1>6. CASE \E h \in Host : Disks!RunExtension(h)
  BY <1>6 DEF Disks!RunExtension, Disks!Break
<1>7. CASE UNCHANGED Disks!vars
  BY <1>7 DEF Disks!vars
<1> QED
  BY <1>2, <1>3, <1>4, <1>5, <1>6, <1>7 DEF Disks!Next, Disks!TaskStep

-----------------------------------------------------------------------------
(* The global HDFS: what the Containers page does not show any more is in   *)
(* the hands of a stop that has still to reach it, and what it does not     *)
(* show yet of a start that has still to say so.                            *)

\* Stop e has taken n out of the State Database, and its stop is not queued yet.
Doomed(e, n) ==
  /\ n \in batch[e]
  /\ end[e] \in {"sleeping", "deleting", "cleaning", "unfronting", "queueing"}

FileTold ==
  \A n \in fileNodes : \/ n \in dbNodes
                       \/ \E b \in Begin : begin[b] = "starting"
                       \/ \E e \in End : Doomed(e, n) \/ halt[e][n] \in {"withApp", "alone", "unlisting"}

LiveTold ==
  \A n \in liveNodes : \/ n \in dbNodes
                       \/ \E e \in End : Doomed(e, n) \/ halt[e][n] \in {"withApp", "alone"}

\* The containers are stopped when all the rest is done.
HaltsLast == \A e \in End, n \in Node : halt[e][n] # "none" => end[e] = "done"

HdfsInv ==
  /\ Hdfs!TypeOK /\ HaltsLast
  /\ ~Hdfs!Failed /\ ~ignored => FileTold /\ LiveTold

LEMMA InitHdfs == Hdfs!Init => HdfsInv
<1> SUFFICES ASSUME Hdfs!Init PROVE HdfsInv
  OBVIOUS
<1>1. Hdfs!TypeOK
  <2>1. slips \in 0..MaxSlips
    BY BoundsAssumption DEF Hdfs!Init
  <2>2. halt \in [End -> [Node -> {"none", "withApp", "alone", "unlisting", "done", "failed"}]]
    BY DEF Hdfs!Init
  <2> QED
    BY <2>1, <2>2 DEF Hdfs!Init, Hdfs!TypeOK
<1>2. HaltsLast
  BY DEF Hdfs!Init, HaltsLast
<1>3. FileTold /\ LiveTold
  BY DEF Hdfs!Init, FileTold, LiveTold
<1> QED
  BY <1>1, <1>2, <1>3 DEF HdfsInv

\* The types of the cluster, one group of actions after the other.
LEMMA SlipTyped == ASSUME slips \in 0..MaxSlips, Hdfs!Slip \/ UNCHANGED slips
                   PROVE  slips' \in 0..MaxSlips
BY BoundsAssumption DEF Hdfs!Slip

LEMMA HaltTyped ==
  ASSUME Hdfs!TypeOK, NEW e \in End, NEW n \in Node,
         NEW l \in {"unlisting", "done", "failed"}, halt' = [halt EXCEPT ![e][n] = l]
  PROVE  halt' \in [End -> [Node -> {"none", "withApp", "alone", "unlisting", "done", "failed"}]]
BY DEF Hdfs!TypeOK

LEMMA StepHdfsTypes ==
  ASSUME Hdfs!TypeOK, [Hdfs!Next]_(Hdfs!vars)
  PROVE  Hdfs!TypeOK'
<1> USE DEF Hdfs!TypeOK, Hdfs!places, Hdfs!progress, Hdfs!browser
<1>1. ASSUME NEW b \in Begin, Hdfs!BeginStep(b) PROVE Hdfs!TypeOK'
  <2> USE SlipTyped DEF Hdfs!Proceed
  <2>1. CASE Hdfs!AddApp(b)
    BY <2>1 DEF Hdfs!AddApp
  <2>2. CASE Hdfs!ListNodes(b)
    BY <2>2 DEF Hdfs!ListNodes
  <2>3. CASE Hdfs!StartNodes(b)
    BY <2>3 DEF Hdfs!StartNodes
  <2>4. CASE Hdfs!SetupNetwork(b)
    BY <2>4 DEF Hdfs!SetupNetwork
  <2>5. CASE Hdfs!StartFrontend(b)
    BY <2>5 DEF Hdfs!StartFrontend
  <2> QED
    BY <1>1, <2>1, <2>2, <2>3, <2>4, <2>5 DEF Hdfs!BeginStep
<1>2. ASSUME NEW b \in Begin, Hdfs!PressOn(b) PROVE Hdfs!TypeOK'
  BY <1>2 DEF Hdfs!PressOn
<1>3. ASSUME NEW b \in Begin, Hdfs!Look(b) PROVE Hdfs!TypeOK'
  BY <1>3 DEF Hdfs!Look
<1>4. ASSUME NEW e \in End, Hdfs!PressOff(e) PROVE Hdfs!TypeOK'
  BY <1>4 DEF Hdfs!PressOff
<1>5. ASSUME NEW e \in End, NEW from,
             NEW to \in {"forgetting", "deleting", "unfronting", "queueing"},
             Hdfs!Continue(e, from, to), frontend' \in BOOLEAN,
             UNCHANGED <<hdfsApp, appNodes, dbNodes, fileNodes, liveNodes, begin, batch, halt,
                         monitor, driver, closing, ignored>>
      PROVE  Hdfs!TypeOK'
  BY <1>5, SlipTyped, SMTT(30) DEF Hdfs!Continue
<1>6. ASSUME NEW e \in End,
             Hdfs!StopCluster(e) \/ Hdfs!Sleep(e) \/ Hdfs!CleanNodes(e) \/ Hdfs!StopFrontend(e)
      PROVE  Hdfs!TypeOK'
  <2>1. CASE Hdfs!StopCluster(e)
    BY <1>5, <2>1 DEF Hdfs!StopCluster
  <2>2. CASE Hdfs!Sleep(e)
    BY <1>5, <2>2 DEF Hdfs!Sleep
  <2>3. CASE Hdfs!CleanNodes(e)
    BY <1>5, <2>3 DEF Hdfs!CleanNodes
  <2>4. CASE Hdfs!StopFrontend(e)
    BY <1>5, <2>4 DEF Hdfs!StopFrontend
  <2> QED
    BY <1>6, <2>1, <2>2, <2>3, <2>4
<1>7. ASSUME NEW e \in End, Hdfs!ForgetNodes(e) PROVE Hdfs!TypeOK'
  BY <1>7, SlipTyped DEF Hdfs!ForgetNodes
<1>8. ASSUME NEW e \in End, Hdfs!DeleteApp(e) PROVE Hdfs!TypeOK'
  BY <1>8, SlipTyped DEF Hdfs!DeleteApp, Hdfs!DeleteOrIgnore
<1>9. ASSUME NEW e \in End, Hdfs!QueueStops(e) PROVE Hdfs!TypeOK'
  BY <1>9 DEF Hdfs!QueueStops, Hdfs!Halt
<1>10. ASSUME NEW e \in End, Hdfs!RemoveApp(e) PROVE Hdfs!TypeOK'
  BY <1>10, SlipTyped DEF Hdfs!RemoveApp, Hdfs!Halt, Hdfs!DeleteOrIgnore
<1>11. ASSUME NEW e \in End, NEW n \in Node, Hdfs!StopNode(e, n) \/ Hdfs!UnlistNode(e, n)
      PROVE  Hdfs!TypeOK'
  <2>1. /\ \E l \in {"unlisting", "done", "failed"} : halt' = [halt EXCEPT ![e][n] = l]
        /\ liveNodes' \subseteq Node /\ fileNodes' \subseteq Node /\ ignored' \in BOOLEAN
        /\ Hdfs!Slip \/ UNCHANGED slips
        /\ UNCHANGED <<hdfsApp, appNodes, dbNodes, frontend, begin, end, batch, monitor,
                       driver, closing>>
    BY <1>11 DEF Hdfs!StopNode, Hdfs!UnlistNode
  <2>2. halt' \in [End -> [Node -> {"none", "withApp", "alone", "unlisting", "done", "failed"}]]
    BY <2>1, HaltTyped
  <2> QED
    BY <2>1, <2>2, SlipTyped
<1>12. CASE Hdfs!Show
  BY <1>12 DEF Hdfs!Show
<1>13. CASE Hdfs!DriverDies
  BY <1>13, SlipTyped DEF Hdfs!DriverDies
<1>14. CASE UNCHANGED Hdfs!vars
  BY <1>14 DEF Hdfs!vars
<1> QED
  BY <1>1, <1>2, <1>3, <1>4, <1>6, <1>7, <1>8, <1>9, <1>10, <1>11, <1>12, <1>13, <1>14
  DEF Hdfs!Next, Hdfs!EndStep

LEMMA StepHaltsLast ==
  ASSUME Hdfs!TypeOK, HaltsLast, [Hdfs!Next]_(Hdfs!vars)
  PROVE  HaltsLast' /\ (Hdfs!Failed => Hdfs!Failed')
<1> USE DEF HaltsLast, Hdfs!Failed, Hdfs!progress
<1>1. ASSUME NEW b \in Begin,
             \/ UNCHANGED begin
             \/ \E l : begin[b] # "failed" /\ begin' = [begin EXCEPT ![b] = l],
             UNCHANGED <<end, halt>>
      PROVE  HaltsLast' /\ (Hdfs!Failed => Hdfs!Failed')
  BY <1>1 DEF Hdfs!TypeOK
<1>2. ASSUME NEW e \in End, end[e] \notin {"done", "failed"},
             \E l : end' = [end EXCEPT ![e] = l], UNCHANGED <<begin, halt>>
      PROVE  HaltsLast' /\ (Hdfs!Failed => Hdfs!Failed')
  BY <1>2 DEF Hdfs!TypeOK
<1>3. ASSUME NEW e \in End, end[e] \notin {"done", "failed"}, NEW how, Hdfs!Halt(e, how),
             end' = [end EXCEPT ![e] = "done"], UNCHANGED begin
      PROVE  HaltsLast' /\ (Hdfs!Failed => Hdfs!Failed')
  BY <1>3 DEF Hdfs!TypeOK, Hdfs!Halt
<1>4. ASSUME NEW e \in End, NEW n \in Node, halt[e][n] \notin {"none", "failed"},
             \E l : halt' = [halt EXCEPT ![e][n] = l], UNCHANGED <<begin, end>>
      PROVE  HaltsLast' /\ (Hdfs!Failed => Hdfs!Failed')
  <2>1. UNCHANGED <<begin, end>> /\ end[e] = "done"
    BY <1>4
  <2>2. \A f \in End, m \in Node : f # e \/ m # n => halt'[f][m] = halt[f][m]
    BY <1>4 DEF Hdfs!TypeOK
  <2> QED
    BY <1>4, <2>1, <2>2
<1>5. ASSUME NEW b \in Begin, Hdfs!PressOn(b) \/ Hdfs!BeginStep(b) \/ Hdfs!Look(b)
      PROVE  HaltsLast' /\ (Hdfs!Failed => Hdfs!Failed')
  <2>1. UNCHANGED <<end, halt>>
    BY <1>5 DEF Hdfs!BeginStep, Hdfs!PressOn, Hdfs!AddApp, Hdfs!ListNodes, Hdfs!StartNodes,
       Hdfs!SetupNetwork, Hdfs!StartFrontend, Hdfs!Look
  <2>2. \/ UNCHANGED begin
        \/ \E l : begin[b] # "failed" /\ begin' = [begin EXCEPT ![b] = l]
    BY <1>5 DEF Hdfs!BeginStep, Hdfs!PressOn, Hdfs!AddApp, Hdfs!ListNodes, Hdfs!StartNodes,
       Hdfs!SetupNetwork, Hdfs!StartFrontend, Hdfs!Look, Hdfs!Proceed
  <2> QED
    BY <1>1, <2>1, <2>2
<1>6. ASSUME NEW e \in End,
             Hdfs!PressOff(e) \/ Hdfs!StopCluster(e) \/ Hdfs!ForgetNodes(e) \/ Hdfs!Sleep(e)
               \/ Hdfs!DeleteApp(e) \/ Hdfs!CleanNodes(e) \/ Hdfs!StopFrontend(e)
      PROVE  HaltsLast' /\ (Hdfs!Failed => Hdfs!Failed')
  <2>1. /\ end[e] \notin {"done", "failed"} /\ UNCHANGED <<begin, halt>>
        /\ \E l : end' = [end EXCEPT ![e] = l]
    BY <1>6 DEF Hdfs!PressOff, Hdfs!StopCluster, Hdfs!ForgetNodes, Hdfs!Sleep, Hdfs!DeleteApp,
       Hdfs!CleanNodes, Hdfs!StopFrontend, Hdfs!Continue
  <2> QED
    BY <1>2, <2>1
<1>7. ASSUME NEW e \in End, Hdfs!QueueStops(e) \/ Hdfs!RemoveApp(e)
      PROVE  HaltsLast' /\ (Hdfs!Failed => Hdfs!Failed')
  BY <1>3, <1>7 DEF Hdfs!QueueStops, Hdfs!RemoveApp
<1>8. ASSUME NEW e \in End, NEW n \in Node, Hdfs!StopNode(e, n) \/ Hdfs!UnlistNode(e, n)
      PROVE  HaltsLast' /\ (Hdfs!Failed => Hdfs!Failed')
  <2>1. /\ halt[e][n] \notin {"none", "failed"} /\ UNCHANGED <<begin, end>>
        /\ \E l : halt' = [halt EXCEPT ![e][n] = l]
    BY <1>8 DEF Hdfs!StopNode, Hdfs!UnlistNode
  <2> QED
    BY <1>4, <2>1
<1>9. CASE Hdfs!Show \/ Hdfs!DriverDies
  BY <1>9 DEF Hdfs!Show, Hdfs!DriverDies
<1>10. CASE UNCHANGED Hdfs!vars
  BY <1>10 DEF Hdfs!vars
<1> QED
  BY <1>5, <1>6, <1>7, <1>8, <1>9, <1>10 DEF Hdfs!Next, Hdfs!EndStep

\* A start tells the State Database of all it has put on hosts and in the inventory, a
\* stop keeps what it has taken out until it is stopped, unless one of them fails.
LEMMA StepTold ==
  ASSUME Hdfs!TypeOK, HaltsLast, FileTold, LiveTold, [Hdfs!Next]_(Hdfs!vars),
         ~Hdfs!Failed', ~ignored'
  PROVE  FileTold' /\ LiveTold'
<1> USE DEF FileTold, LiveTold, Doomed, Hdfs!TypeOK, Hdfs!places, Hdfs!progress
<1> DEFINE Goal == FileTold' /\ LiveTold'
\* What a step of a start or of the page leaves alone.
<1>1. ASSUME UNCHANGED <<fileNodes, liveNodes, dbNodes, end, batch, halt>>,
             \A b \in Begin : begin[b] = "starting" => begin'[b] = "starting"
      PROVE  Goal
  BY <1>1
<1>2. ASSUME NEW b \in Begin, Hdfs!PressOn(b) PROVE Goal
  BY <1>1, <1>2 DEF Hdfs!PressOn
<1>3. ASSUME NEW b \in Begin, Hdfs!AddApp(b) PROVE Goal
  BY <1>1, <1>3 DEF Hdfs!AddApp, Hdfs!Proceed
<1>4. ASSUME NEW b \in Begin, Hdfs!ListNodes(b) PROVE Goal
  <2>1. begin'[b] = "starting"
    BY <1>4 DEF Hdfs!ListNodes
  <2> QED
    BY <1>4, <2>1 DEF Hdfs!ListNodes
<1>5. ASSUME NEW b \in Begin, Hdfs!StartNodes(b) PROVE Goal
  <2>1. begin'[b] = "network"
    BY <1>5 DEF Hdfs!StartNodes, Hdfs!Proceed, Hdfs!Failed
  <2>2. Node \subseteq dbNodes' /\ fileNodes' = fileNodes /\ liveNodes' \subseteq Node
    BY <1>5, <2>1 DEF Hdfs!StartNodes
  <2> QED
    BY <2>2
<1>6. ASSUME NEW b \in Begin, Hdfs!SetupNetwork(b) PROVE Goal
  BY <1>1, <1>6 DEF Hdfs!SetupNetwork, Hdfs!Proceed
<1>7. ASSUME NEW b \in Begin, Hdfs!StartFrontend(b) PROVE Goal
  BY <1>1, <1>7 DEF Hdfs!StartFrontend, Hdfs!Proceed
<1>8. ASSUME NEW b \in Begin, Hdfs!Look(b) PROVE Goal
  BY <1>1, <1>8 DEF Hdfs!Look
\* Steps of a stop that leave the containers alone.
<1>9. ASSUME UNCHANGED <<fileNodes, liveNodes, dbNodes, begin, halt>>, NEW e \in End,
             \A f \in End \ {e} : end'[f] = end[f] /\ batch'[f] = batch[f],
             \A n \in Node : Doomed(e, n) => Doomed(e, n)'
      PROVE  Goal
  <2>1. \A f \in End, n \in Node : Doomed(f, n) => Doomed(f, n)'
    BY <1>9
  <2> HIDE DEF Doomed
  <2>2. FileTold'
    BY <1>9, <2>1
  <2>3. LiveTold'
    BY <1>9, <2>1
  <2> QED
    BY <2>2, <2>3
<1>10. ASSUME NEW e \in End, Hdfs!PressOff(e) PROVE Goal
  <2>1. /\ UNCHANGED <<fileNodes, liveNodes, dbNodes, begin, halt>>
        /\ \A f \in End \ {e} : end'[f] = end[f] /\ batch'[f] = batch[f]
        /\ end[e] = "idle"
    BY <1>10 DEF Hdfs!PressOff
  <2> QED
    BY <1>9, <2>1
<1>11. ASSUME NEW e \in End, NEW from \in {"cluster", "sleeping", "cleaning", "unfronting"},
              NEW to \in {"forgetting", "deleting", "unfronting", "queueing"},
              from = "cluster" \/ to # "forgetting", Hdfs!Continue(e, from, to),
              UNCHANGED <<fileNodes, liveNodes, dbNodes, begin, batch, halt>>
       PROVE  Goal
  <2>1. end' = [end EXCEPT ![e] = to] /\ end[e] = from
    BY <1>11 DEF Hdfs!Continue, Hdfs!Failed
  <2> QED
    BY <1>9, <1>11, <2>1, SMTT(30)
<1>12. ASSUME NEW e \in End,
              Hdfs!StopCluster(e) \/ Hdfs!Sleep(e) \/ Hdfs!CleanNodes(e) \/ Hdfs!StopFrontend(e)
       PROVE  Goal
  <2>1. CASE Hdfs!StopCluster(e)
    BY <1>11, <2>1 DEF Hdfs!StopCluster
  <2>2. CASE Hdfs!Sleep(e)
    BY <1>11, <2>2 DEF Hdfs!Sleep
  <2>3. CASE Hdfs!CleanNodes(e)
    BY <1>11, <2>3 DEF Hdfs!CleanNodes
  <2>4. CASE Hdfs!StopFrontend(e)
    BY <1>11, <2>4 DEF Hdfs!StopFrontend
  <2> QED
    BY <1>12, <2>1, <2>2, <2>3, <2>4
<1>13. ASSUME NEW e \in End, Hdfs!ForgetNodes(e) PROVE Goal
  <2>1. /\ end[e] = "forgetting" /\ end' = [end EXCEPT ![e] = "sleeping"]
        /\ dbNodes \ dbNodes' \subseteq batch[e]
        /\ UNCHANGED <<fileNodes, liveNodes, begin, batch, halt>>
    BY <1>13 DEF Hdfs!ForgetNodes
  <2>2. \A n \in Node : n \in batch[e] => Doomed(e, n)'
    BY <2>1
  <2>3. \A f \in End, n \in Node : Doomed(f, n) => Doomed(f, n)'
    BY <2>1
  <2> HIDE DEF Doomed
  <2> QED
    BY <2>1, <2>2, <2>3
<1>14. ASSUME NEW e \in End, Hdfs!DeleteApp(e) PROVE Goal
  BY <1>9, <1>14 DEF Hdfs!DeleteApp
\* Steps that hand the containers over to the tasks that stop them.
<1>15. ASSUME NEW e \in End, NEW how \in {"withApp", "alone"}, Hdfs!Halt(e, how),
              end[e] \in {"queueing", "removing"}, end' = [end EXCEPT ![e] = "done"],
              dbNodes \ dbNodes' \subseteq batch[e],
              UNCHANGED <<fileNodes, liveNodes, begin, batch>>
       PROVE  Goal
  <2>1. \A n \in Node : halt'[e][n] = IF n \in batch[e] THEN how ELSE halt[e][n]
    BY <1>15 DEF Hdfs!Halt
  <2>2. \A f \in End \ {e} : halt'[f] = halt[f] /\ end'[f] = end[f]
    BY <1>15 DEF Hdfs!Halt
  <2>3. \A n \in Node : halt[e][n] = "none"
    BY <1>15 DEF HaltsLast
  <2>4. \A f \in End, n \in Node :
          Doomed(f, n) => Doomed(f, n)' \/ halt'[f][n] \in {"withApp", "alone"}
    BY <1>15, <2>1, <2>2
  <2>5. \A f \in End, n \in Node : halt[f][n] # "none" => halt'[f][n] = halt[f][n]
    BY <2>2, <2>3
  <2> HIDE DEF Doomed
  <2>6. \A n \in Node : n \in dbNodes \ dbNodes' => halt'[e][n] \in {"withApp", "alone"}
    BY <1>15, <2>1
  <2>7. FileTold'
    <3> SUFFICES ASSUME NEW n \in Node, n \in fileNodes
                 PROVE  \/ n \in dbNodes'
                        \/ \E b \in Begin : begin'[b] = "starting"
                        \/ \E f \in End :
                             Doomed(f, n)' \/ halt'[f][n] \in {"withApp", "alone", "unlisting"}
      BY <1>15
    <3>1. CASE n \in dbNodes
      BY <2>6, <3>1
    <3>2. CASE \E b \in Begin : begin[b] = "starting"
      BY <1>15, <3>2
    <3>3. CASE \E f \in End : Doomed(f, n) \/ halt[f][n] \in {"withApp", "alone", "unlisting"}
      BY <2>4, <2>5, <3>3
    <3> QED
      BY <3>1, <3>2, <3>3
  <2>8. LiveTold'
    <3> SUFFICES ASSUME NEW n \in Node, n \in liveNodes
                 PROVE  n \in dbNodes' \/ \E f \in End : Doomed(f, n)' \/ halt'[f][n] \in {"withApp", "alone"}
      BY <1>15
    <3>1. CASE n \in dbNodes
      BY <2>6, <3>1
    <3>2. CASE \E f \in End : Doomed(f, n) \/ halt[f][n] \in {"withApp", "alone"}
      BY <2>4, <2>5, <3>2
    <3> QED
      BY <3>1, <3>2
  <2> QED
    BY <2>7, <2>8
<1>16. ASSUME NEW e \in End, Hdfs!QueueStops(e) PROVE Goal
  BY <1>15, <1>16 DEF Hdfs!QueueStops
<1>17. ASSUME NEW e \in End, Hdfs!RemoveApp(e) PROVE Goal
  BY <1>15, <1>17 DEF Hdfs!RemoveApp
<1>18. ASSUME NEW e \in End, NEW n \in Node, Hdfs!StopNode(e, n) PROVE Goal
  <2>1. UNCHANGED <<dbNodes, fileNodes, begin, end, batch>>
    BY <1>18 DEF Hdfs!StopNode
  <2>2. halt' # [halt EXCEPT ![e][n] = "failed"]
    <3>1. halt'[e][n] # "failed"
      BY DEF Hdfs!Failed
    <3> QED
      BY <3>1
  <2>3. /\ halt' = [halt EXCEPT ![e][n] = "unlisting"] /\ halt[e][n] \in {"alone", "withApp"}
        /\ liveNodes' = liveNodes \ {n}
    BY <1>18, <2>2 DEF Hdfs!StopNode
  <2>4. halt'[e][n] = "unlisting"
    BY <2>3
  <2>5. \A f \in End, m \in Node : f # e \/ m # n => halt'[f][m] = halt[f][m]
    BY <2>3
  <2>6. \A f \in End, m \in Node : Doomed(f, m) => Doomed(f, m)'
    BY <2>1
  <2> HIDE DEF Doomed
  <2> QED
    BY <2>1, <2>3, <2>4, <2>5, <2>6
<1>19. ASSUME NEW e \in End, NEW n \in Node, Hdfs!UnlistNode(e, n) PROVE Goal
  <2>1. /\ UNCHANGED <<dbNodes, liveNodes, begin, end, batch>> /\ fileNodes' = fileNodes \ {n}
        /\ halt[e][n] = "unlisting" /\ halt' = [halt EXCEPT ![e][n] = "done"]
    BY <1>19 DEF Hdfs!UnlistNode
  <2>2. \A f \in End, m \in Node : f # e \/ m # n => halt'[f][m] = halt[f][m]
    BY <2>1
  <2>3. \A f \in End, m \in Node : Doomed(f, m) => Doomed(f, m)'
    BY <2>1
  <2> HIDE DEF Doomed
  <2>4. FileTold'
    BY <2>1, <2>2, <2>3
  <2>5. LiveTold'
    <3>1. halt'[e][n] = "done"
      BY <2>1
    <3>2. \A f \in End, m \in Node :
            halt[f][m] \in {"withApp", "alone"} => halt'[f][m] = halt[f][m]
      BY <2>1, <2>2
    <3> QED
      BY <2>1, <2>3, <3>2
  <2> QED
    BY <2>4, <2>5
<1>20. ASSUME Hdfs!Show \/ Hdfs!DriverDies PROVE Goal
  BY <1>1, <1>20 DEF Hdfs!Show, Hdfs!DriverDies
<1>21. ASSUME UNCHANGED Hdfs!vars PROVE Goal
  BY <1>1, <1>21 DEF Hdfs!vars
<1> HIDE DEF Goal, FileTold, LiveTold, Doomed, Hdfs!TypeOK
<1>22. ASSUME NEW b \in Begin, Hdfs!PressOn(b) \/ Hdfs!BeginStep(b) \/ Hdfs!Look(b) PROVE Goal
  BY <1>2, <1>3, <1>4, <1>5, <1>6, <1>7, <1>8, <1>22 DEF Hdfs!BeginStep
<1>23. ASSUME NEW e \in End, Hdfs!PressOff(e) \/ Hdfs!EndStep(e) PROVE Goal
  BY <1>10, <1>12, <1>13, <1>14, <1>16, <1>17, <1>18, <1>19, <1>23 DEF Hdfs!EndStep
<1>24. Goal
  BY <1>20, <1>21, <1>22, <1>23 DEF Hdfs!Next
<1> QED
  BY <1>24 DEF Goal

\* Each step keeps the invariant.
LEMMA StepHdfs ==
  ASSUME HdfsInv, [Hdfs!Next]_(Hdfs!vars)
  PROVE  HdfsInv'
<1> USE DEF HdfsInv
<1>1. Hdfs!TypeOK'
  BY StepHdfsTypes
<1>2. HaltsLast' /\ (Hdfs!Failed => Hdfs!Failed')
  BY StepHaltsLast
<1>3. ignored => ignored'
  <2> USE DEF Hdfs!places, Hdfs!progress, Hdfs!browser
  <2>1. ASSUME NEW b \in Begin, Hdfs!PressOn(b) \/ Hdfs!BeginStep(b) \/ Hdfs!Look(b)
        PROVE  UNCHANGED ignored
    BY <2>1 DEF Hdfs!PressOn, Hdfs!BeginStep, Hdfs!AddApp, Hdfs!ListNodes, Hdfs!StartNodes,
       Hdfs!SetupNetwork, Hdfs!StartFrontend, Hdfs!Look
  <2>2. ASSUME NEW e \in End,
               Hdfs!PressOff(e) \/ Hdfs!StopCluster(e) \/ Hdfs!ForgetNodes(e) \/ Hdfs!Sleep(e)
                 \/ Hdfs!DeleteApp(e) \/ Hdfs!CleanNodes(e) \/ Hdfs!StopFrontend(e)
        PROVE  ignored => ignored'
    BY <2>2 DEF Hdfs!PressOff, Hdfs!StopCluster, Hdfs!ForgetNodes, Hdfs!Sleep, Hdfs!DeleteApp,
       Hdfs!DeleteOrIgnore, Hdfs!CleanNodes, Hdfs!StopFrontend
  <2>3. ASSUME NEW e \in End, Hdfs!QueueStops(e) \/ Hdfs!RemoveApp(e)
        PROVE  ignored => ignored'
    BY <2>3 DEF Hdfs!QueueStops, Hdfs!RemoveApp, Hdfs!DeleteOrIgnore
  <2>4. ASSUME NEW e \in End, NEW n \in Node, Hdfs!StopNode(e, n) \/ Hdfs!UnlistNode(e, n)
        PROVE  ignored => ignored'
    BY <2>4 DEF Hdfs!StopNode, Hdfs!UnlistNode
  <2>5. CASE Hdfs!Show \/ Hdfs!DriverDies
    BY <2>5 DEF Hdfs!Show, Hdfs!DriverDies
  <2>6. CASE UNCHANGED Hdfs!vars
    BY <2>6 DEF Hdfs!vars
  <2> QED
    BY <2>1, <2>2, <2>3, <2>4, <2>5, <2>6 DEF Hdfs!Next, Hdfs!EndStep
<1>4. ~Hdfs!Failed' /\ ~ignored' => FileTold' /\ LiveTold'
  BY <1>2, <1>3, StepTold
<1> QED
  BY <1>1, <1>2, <1>4

\* With nothing under way, nothing is in anybody's hands any more.
LEMMA QuietIsTold == HdfsInv => Hdfs!NothingOutOfReach
BY SMTT(30) DEF HdfsInv, Hdfs!NothingOutOfReach, Hdfs!Quiet, FileTold, LiveTold, Doomed, Hdfs!TypeOK

-----------------------------------------------------------------------------
(* The operations together *)

OperationsInv == RegistryInv /\ DisksInv /\ DisksBounded /\ HdfsInv

\* A step of the operations is one of a component, and none of the others.
LEMMA OneComponent ==
  ASSUME [MCNext]_all
  PROVE  [Next]_vars /\ [Hdfs!Next]_(Hdfs!vars) /\ [Disks!Next]_(Disks!vars)
<1>1. UNCHANGED hdfs => UNCHANGED Hdfs!vars
  BY DEF hdfs, Hdfs!vars, Hdfs!places, Hdfs!progress, Hdfs!browser
<1>2. UNCHANGED disks => UNCHANGED Disks!vars
  BY DEF disks, Disks!vars
<1> QED
  BY <1>1, <1>2 DEF MCNext, Registry, InHdfs, OnDisks, all

LEMMA OperationsInvariance == MCSpec => []OperationsInv
<1>1. MCInit => OperationsInv
  <2> SUFFICES ASSUME MCInit PROVE OperationsInv
    OBVIOUS
  <2>1. Init /\ Hdfs!Init /\ Disks!Init
    BY DEF MCInit
  <2>2. DisksBounded
    BY <2>1, BoundsAssumption DEF Disks!Init, DisksBounded
  <2> QED
    BY <2>1, <2>2, InitRegistry, InitHdfs, InitDisks DEF OperationsInv
<1>2. OperationsInv /\ [MCNext]_all => OperationsInv'
  <2> SUFFICES ASSUME OperationsInv, [MCNext]_all PROVE OperationsInv'
    OBVIOUS
  <2>1. [Next]_vars /\ [Hdfs!Next]_(Hdfs!vars) /\ [Disks!Next]_(Disks!vars)
    BY OneComponent
  <2>2. RegistryInv'
    BY <2>1, StepRegistry DEF OperationsInv
  <2>3. DisksInv'
    BY <2>1, StepDisks DEF OperationsInv
  <2>4. DisksBounded'
    BY <2>1, StepDisksBounded DEF OperationsInv, DisksInv
  <2>5. HdfsInv'
    BY <2>1, StepHdfs DEF OperationsInv
  <2> QED
    BY <2>2, <2>3, <2>4, <2>5 DEF OperationsInv
<1> QED
  BY <1>1, <1>2, PTL DEF MCSpec

\* The registry, the global HDFS and the extension of volumes stay in their types
\* (PENDING_TASKS and the views; start_global_hdfs_task, stop_hdfs_task;
\* add_disks_to_hosts_task).
THEOREM OperationsTyped == MCSpec => []TypesOK
<1>1. OperationsInv => TypesOK
  BY DEF OperationsInv, TypesOK, RegistryInv, HdfsInv, DisksInv, DisksTyped, DisksBounded,
     Disks!TypeOK
<1> QED
  BY <1>1, OperationsInvariance, PTL

\* Once the tasks of the global HDFS have ended and none has failed, its containers
\* are on the Containers page, whichever starts and stops overlapped
\* (start_global_hdfs_task, stop_hdfs_task, remove_app_task).
THEOREM HdfsInReach == MCSpec => []NothingOutOfReach
<1>1. OperationsInv => NothingOutOfReach
  BY QuietIsTold DEF OperationsInv, NothingOutOfReach
<1> QED
  BY <1>1, OperationsInvariance, PTL

\* No host has its volume extended twice (add_disks_to_hosts_task and the calls of
\* extend_lv that it queues).
THEOREM NeverExtendedTwice == MCSpec => []ExtendedOnce
<1>1. OperationsInv => ExtendedOnce
  BY DEF OperationsInv, DisksInv, ExtendedOnce
<1> QED
  BY <1>1, OperationsInvariance, PTL

=============================================================================
