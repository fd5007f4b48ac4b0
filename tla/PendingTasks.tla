---------------------------- MODULE PendingTasks ----------------------------
(***************************************************************************)
(* How the web interface keeps track of the Celery tasks it has queued     *)
(* (ui/background_tasks.py, ui/views).  A request queues tasks, one after  *)
(* another, and registers each under a name in redis when delay() has      *)
(* returned.  Every page that is loaded scans the registry, shows the      *)
(* tasks that have ended, and removes them and their results.  Threads of  *)
(* the web server, the worker and several browsers overlap at every        *)
(* command.                                                                *)
(*                                                                         *)
(* What a request does is its operation: a record of how the function of   *)
(* ui/views behind it treats the registry.  Operations with the same       *)
(* record behave alike here, and are the same value.                       *)
(***************************************************************************)
EXTENDS Naturals, FiniteSets

CONSTANTS
  Request,      \* POST requests
  Page,         \* browsers that load pages
  Task,         \* task identifiers
  NoTask,       \* none of them
  Workloads,    \* what the requests ask for: operations, one for each
  MaxSelected,  \* bound on the structures selected in one request
  MaxFaults     \* bound on dismissals, deaths of the worker and pages that fail

ASSUME NoTaskAssumption == NoTask \notin Task
ASSUME SelectedAssumption == MaxSelected \in Nat \ {0}

-----------------------------------------------------------------------------
(* Operations: one task or one per selected structure; whether the request   *)
(* may be refused with a message before any task; whether it may raise, and  *)
(* so be answered with an error page, before a task; whether the tasks are   *)
(* artificial; whether the start task is taken out of the registry first.    *)

Plain == [tasks |-> "one", refuses |-> FALSE, raises |-> FALSE,
          artificial |-> FALSE, unregisters |-> FALSE, starts |-> FALSE]

\* A form whose numbers cannot be read raises; so does a missing app_dir.
ProcessAddApp  == [Plain EXCEPT !.raises = TRUE]
ProcessAddHost == [Plain EXCEPT !.raises = TRUE]
ProcessAddUser == [Plain EXCEPT !.raises = TRUE]
\* Refused without a start script or, for Hadoop, without the global HDFS.
ProcessStartApp == [Plain EXCEPT !.refuses = TRUE, !.raises = TRUE, !.starts = TRUE]
\* An application that is gone raises before the registry is touched.
ProcessStopApp == [Plain EXCEPT !.raises = TRUE, !.unregisters = TRUE]
\* One task for each application; one that is gone raises between two tasks.
ProcessRemoveApps == [Plain EXCEPT !.tasks = "each", !.raises = TRUE]
ProcessRemoveContainersFromApp == [Plain EXCEPT !.raises = TRUE]
ProcessAddDisksToHosts == [Plain EXCEPT !.refuses = TRUE, !.raises = TRUE]
ProcessAddContainers   == [Plain EXCEPT !.refuses = TRUE, !.raises = TRUE]
ProcessRemoveContainers == [Plain EXCEPT !.raises = TRUE]
\* The containers of the host are passed as the wrong arguments: whatever host
\* is selected, the request raises before it queues anything.
ProcessRemoveHosts == [Plain EXCEPT !.tasks = "none", !.raises = TRUE]
ProcessSubscribeAppsToUser     == Plain
ProcessDesubscribeAppsFromUser == Plain
ProcessRemoveUsers             == Plain
AddDirHDFS     == [Plain EXCEPT !.refuses = TRUE]
AddFileHDFS    == [Plain EXCEPT !.refuses = TRUE]
GetFileHDFS    == [Plain EXCEPT !.refuses = TRUE]
RemoveFileHDFS == [Plain EXCEPT !.refuses = TRUE]
StartGlobalHdfs == [Plain EXCEPT !.raises = TRUE, !.starts = TRUE]
\* Without a namenode the application is removed all the same.
StopGlobalHdfs == [Plain EXCEPT !.raises = TRUE]
\* The error that the global HDFS is down is not returned: the task is queued.
EnableMonitor  == [Plain EXCEPT !.raises = TRUE]
\* The callback of a wrapper; a negative exit code raises first.
ApiStopApp == [Plain EXCEPT !.raises = TRUE, !.artificial = TRUE]

-----------------------------------------------------------------------------
Name == {"none", "start", "other"}   \* task_name of a registered task

VARIABLES
  op,       \* op[r]: operation of request r
  at,       \* at[r]: where request r is
  left,     \* left[r]: tasks it has still to queue
  last,     \* last[r]: the task it queued last
  status,   \* status[t]: state and result of task t, in the worker and in redis
  kind,     \* kind[t]: "start" or "other"
  name,     \* name[t]: field task_name of pending_tasks:t
  runtime,  \* runtime[t]: whether pending_tasks:t has a field runtime
  page,     \* page[p]: where page p is
  unread,   \* unread[p]: keys p has scanned and not yet read
  ended,    \* ended[p]: tasks p has found to have ended
  undeleted, \* undeleted[p]: those of them that it has still to remove
  asked,    \* asked[p]: the task whose runtime p is about to read
  shown,    \* tasks whose end a page has shown
  withdrawn, \* tasks a person or a stop took out, or a page that failed
  faults    \* faults so far, for the bound

requests == <<op, at, left, last>>
registry == <<name, runtime>>
pages    == <<page, unread, ended, undeleted, asked>>
fates    == <<shown, withdrawn>>
vars     == <<requests, status, kind, registry, pages, fates, faults>>

Over == {"success", "failure"}
Key(t) == name[t] # "none" \/ runtime[t]   \* pending_tasks:t exists

TypeOK ==
  /\ op \in Workloads
  /\ at \in [Request -> {"new", "queueing", "registering", "timing", "answered",
                         "refused", "raised"}]
  /\ left \in [Request -> 0..MaxSelected]
  /\ last \in [Request -> Task \cup {NoTask}]
  /\ status \in [Task -> {"unused", "queued", "running", "timed", "success",
                          "failure", "dead", "deleted"}]
  /\ kind \in [Task -> {"start", "other"}]
  /\ name \in [Task -> Name] /\ runtime \in [Task -> BOOLEAN]
  /\ page \in [Page -> {"idle", "reading", "deleting", "rendering"}]
  /\ unread \in [Page -> SUBSET Task] /\ ended \in [Page -> SUBSET Task]
  /\ undeleted \in [Page -> SUBSET Task]
  /\ asked \in [Page -> Task \cup {NoTask}]
  /\ shown \subseteq Task /\ withdrawn \subseteq Task
  /\ faults \in Nat

Init ==
  /\ op \in Workloads
  /\ at = [r \in Request |-> "new"]
  /\ left = [r \in Request |-> 0]
  /\ last = [r \in Request |-> NoTask]
  /\ status = [t \in Task |-> "unused"]
  /\ kind = [t \in Task |-> "other"]
  /\ name = [t \in Task |-> "none"]
  /\ runtime = [t \in Task |-> FALSE]
  /\ page = [p \in Page |-> "idle"]
  /\ unread = [p \in Page |-> {}] /\ ended = [p \in Page |-> {}]
  /\ undeleted = [p \in Page |-> {}]
  /\ asked = [p \in Page |-> NoTask]
  /\ shown = {} /\ withdrawn = {}
  /\ faults = 0

-----------------------------------------------------------------------------
(* Requests *)

Goto(r, l) == at' = [at EXCEPT ![r] = l]

\* remove_task_by_name("<app>_app_task"): the first key of that name, if any.
Unregister(r) ==
  IF op[r].unregisters /\ \E t \in Task : name[t] = "start"
  THEN \E t \in Task :
         /\ name[t] = "start"
         /\ name' = [name EXCEPT ![t] = "none"]
         /\ runtime' = [runtime EXCEPT ![t] = FALSE]
         /\ withdrawn' = withdrawn \cup {t}
  ELSE UNCHANGED <<registry, withdrawn>>

\* The form is read and found correct.
Receive(r) ==
  /\ at[r] = "new" /\ op[r].tasks # "none"
  /\ \E n \in IF op[r].tasks = "one" THEN {1} ELSE 0..MaxSelected :
       /\ left' = [left EXCEPT ![r] = n]
       /\ Goto(r, IF n = 0 THEN "answered" ELSE "queueing")
  /\ Unregister(r)
  /\ UNCHANGED <<op, last, status, kind, pages, shown, faults>>

Refuse(r) ==
  /\ at[r] = "new" /\ op[r].refuses
  /\ Goto(r, "refused")
  /\ UNCHANGED <<op, left, last, status, kind, registry, pages, fates, faults>>

\* Before a task, or between two of them.
Raise(r) ==
  /\ op[r].raises
  /\ at[r] = "new" \/ (at[r] = "queueing" /\ op[r].tasks = "each")
  /\ Goto(r, "raised")
  /\ left' = [left EXCEPT ![r] = 0]
  /\ UNCHANGED <<op, last, status, kind, registry, pages, fates, faults>>

\* An identifier that was never used: which one makes no difference.
FreshTask == CHOOSE t \in Task : status[t] = "unused"

\* delay(), or store_result of an artificial task.
Delay(r) ==
  /\ at[r] = "queueing"
  /\ \E t \in Task : status[t] = "unused"
  /\ \E s \in IF op[r].artificial THEN Over ELSE {"queued"} :
       status' = [status EXCEPT ![FreshTask] = s]
  /\ kind' = [kind EXCEPT ![FreshTask] = IF op[r].starts THEN "start" ELSE "other"]
  /\ last' = [last EXCEPT ![r] = FreshTask]
  /\ left' = [left EXCEPT ![r] = @ - 1]
  /\ Goto(r, "registering")
  /\ UNCHANGED <<op, registry, pages, fates, faults>>

\* register_task; an artificial task gets its runtime next.
Register(r) ==
  /\ at[r] = "registering"
  /\ name' = [name EXCEPT ![last[r]] = kind[last[r]]]
  /\ Goto(r, IF op[r].artificial THEN "timing"
             ELSE IF left[r] > 0 THEN "queueing" ELSE "answered")
  /\ UNCHANGED <<op, left, last, status, kind, runtime, pages, fates, faults>>

\* update_task_runtime
Time(r) ==
  /\ at[r] = "timing"
  /\ runtime' = [runtime EXCEPT ![last[r]] = TRUE]
  /\ Goto(r, "answered")
  /\ UNCHANGED <<op, left, last, status, kind, name, pages, fates, faults>>

\* remove_pending_task: a person closes the message of a task that was pending when the
\* page was loaded, whatever has become of it since.
Dismiss(t) ==
  /\ faults < MaxFaults /\ faults' = faults + 1
  /\ name[t] # "none"
  /\ name' = [name EXCEPT ![t] = "none"]
  /\ runtime' = [runtime EXCEPT ![t] = FALSE]
  /\ withdrawn' = withdrawn \cup {t}
  /\ UNCHANGED <<requests, status, kind, pages, shown>>

-----------------------------------------------------------------------------
(* The worker *)

Run(t) ==
  /\ status[t] = "queued"
  /\ status' = [status EXCEPT ![t] = "running"]
  /\ UNCHANGED <<requests, kind, registry, pages, fates, faults>>

\* A start task that waits for its application writes the runtime when it has
\* ended, with the removal of its containers still to do.
UpdateRuntime(t) ==
  /\ status[t] = "running" /\ kind[t] = "start"
  /\ runtime' = [runtime EXCEPT ![t] = TRUE]
  /\ status' = [status EXCEPT ![t] = "timed"]
  /\ UNCHANGED <<requests, kind, name, pages, fates, faults>>

Finish(t) ==
  /\ status[t] \in {"running", "timed"}
  /\ \E s \in Over : status' = [status EXCEPT ![t] = s]
  /\ UNCHANGED <<requests, kind, registry, pages, fates, faults>>

\* The tasks under way were acknowledged: nobody runs them again.
WorkerDies ==
  /\ faults < MaxFaults /\ faults' = faults + 1
  /\ \E t \in Task : status[t] \in {"running", "timed"}
  /\ status' = [t \in Task |-> IF status[t] \in {"running", "timed"} THEN "dead" ELSE status[t]]
  /\ UNCHANGED <<requests, kind, registry, pages, fates>>

-----------------------------------------------------------------------------
(* get_pending_tasks, for each page *)

Scan(p) ==
  /\ page[p] = "idle"
  /\ unread' = [unread EXCEPT ![p] = {t \in Task : Key(t)}]
  /\ page' = [page EXCEPT ![p] = "reading"]
  /\ UNCHANGED <<requests, status, kind, registry, ended, undeleted, asked, fates, faults>>

\* Fault: a failure is neither pending nor found.
ReadSuccesses(p, t) ==
  /\ page[p] = "reading" /\ t \in unread[p] /\ asked[p] = NoTask
  /\ unread' = [unread EXCEPT ![p] = @ \ {t}]
  /\ LET timed == status[t] = "success" /\ runtime[t] IN
       /\ asked' = [asked EXCEPT ![p] = IF timed THEN t ELSE NoTask]
       /\ ended' = [ended EXCEPT ![p] =
                      IF status[t] = "success" /\ ~timed THEN @ \cup {t} ELSE @]
  /\ UNCHANGED <<requests, status, kind, registry, page, undeleted, fates, faults>>

\* task_name and status of one key.  A task that ended well and has a runtime is
\* read once more.
Read(p, t) ==
  /\ page[p] = "reading" /\ t \in unread[p] /\ asked[p] = NoTask
  /\ unread' = [unread EXCEPT ![p] = @ \ {t}]
  /\ LET timed == status[t] = "success" /\ runtime[t] IN
       /\ asked' = [asked EXCEPT ![p] = IF timed THEN t ELSE NoTask]
       /\ ended' = [ended EXCEPT ![p] =
                      IF status[t] \in Over /\ ~timed THEN @ \cup {t} ELSE @]
  /\ UNCHANGED <<requests, status, kind, registry, page, undeleted, fates, faults>>

\* hget(key, "runtime").decode(): the key may be gone by now, and the page fails.
ReadRuntime(p) ==
  /\ asked[p] # NoTask
  /\ asked' = [asked EXCEPT ![p] = NoTask]
  /\ IF runtime[asked[p]]
     THEN ended' = [ended EXCEPT ![p] = @ \cup {asked[p]}] /\ UNCHANGED <<page, unread>>
     ELSE /\ page' = [page EXCEPT ![p] = "idle"]
          /\ unread' = [unread EXCEPT ![p] = {}]
          /\ ended' = [ended EXCEPT ![p] = {}]
  /\ UNCHANGED <<requests, status, kind, registry, undeleted, fates, faults>>

\* Fault: every key that was scanned is removed, ended or not.
AllReadRemovesAll(p) ==
  /\ page[p] = "reading" /\ unread[p] = {} /\ asked[p] = NoTask
  /\ undeleted' = [undeleted EXCEPT ![p] = {t \in Task : Key(t)}]
  /\ page' = [page EXCEPT ![p] = "deleting"]
  /\ UNCHANGED <<requests, status, kind, registry, unread, ended, asked, fates, faults>>

AllRead(p) ==
  /\ page[p] = "reading" /\ unread[p] = {} /\ asked[p] = NoTask
  /\ undeleted' = [undeleted EXCEPT ![p] = ended[p]]
  /\ page' = [page EXCEPT ![p] = "deleting"]
  /\ UNCHANGED <<requests, status, kind, registry, unread, ended, asked, fates, faults>>

\* The key and the result of a task that has ended.
Delete(p, t) ==
  /\ page[p] = "deleting" /\ t \in undeleted[p]
  /\ name' = [name EXCEPT ![t] = "none"]
  /\ runtime' = [runtime EXCEPT ![t] = FALSE]
  /\ status' = [status EXCEPT ![t] = "deleted"]
  /\ undeleted' = [undeleted EXCEPT ![p] = @ \ {t}]
  /\ UNCHANGED <<requests, kind, page, unread, ended, asked, fates, faults>>

AllDeleted(p) ==
  /\ page[p] = "deleting" /\ undeleted[p] = {}
  /\ page' = [page EXCEPT ![p] = "rendering"]
  /\ UNCHANGED <<requests, status, kind, registry, unread, ended, undeleted, asked, fates, faults>>

\* The page is shown, or the State Database does not answer and it fails: the
\* registry has been read before.
Render(p) ==
  /\ page[p] = "rendering"
  /\ \/ shown' = shown \cup ended[p] /\ UNCHANGED <<withdrawn, faults>>
     \/ /\ faults < MaxFaults /\ faults' = faults + 1
        /\ withdrawn' = withdrawn \cup ended[p] /\ UNCHANGED shown
  /\ page' = [page EXCEPT ![p] = "idle"]
  /\ ended' = [ended EXCEPT ![p] = {}]
  /\ UNCHANGED <<requests, status, kind, registry, unread, undeleted, asked>>

-----------------------------------------------------------------------------
RequestStep(r) ==
  Receive(r) \/ Refuse(r) \/ Raise(r) \/ Delay(r) \/ Register(r) \/ Time(r)

TaskStep(t) == Run(t) \/ UpdateRuntime(t) \/ Finish(t)

PageStep(p) ==
  \/ Scan(p) \/ \E t \in Task : Read(p, t) \/ Delete(p, t)
  \/ ReadRuntime(p) \/ AllRead(p) \/ AllDeleted(p) \/ Render(p)

Next ==
  \/ \E r \in Request : RequestStep(r)
  \/ \E t \in Task : TaskStep(t) \/ Dismiss(t)
  \/ \E p \in Page : PageStep(p)
  \/ WorkerDies

\* Threads and the worker carry on; somebody keeps loading pages.
Fairness ==
  /\ \A r \in Request : WF_vars(RequestStep(r))
  /\ \A t \in Task : WF_vars(TaskStep(t))
  /\ \A p \in Page : WF_vars(PageStep(p))

Spec     == Init /\ [][Next]_vars
FairSpec == Spec /\ Fairness
-----------------------------------------------------------------------------
(* Properties *)

\* The request that queued t has not registered it yet.
Registering(t) == \E r \in Request : at[r] = "registering" /\ last[r] = t

\* A page has found the end of t and not yet been rendered.
Held(t) == \E p \in Page : t \in ended[p]

\* No task is forgotten: a task that was queued is in the registry, or about to
\* be, or its end is on a page; or a person, a stop or a failing page took it out.
NothingForgotten ==
  \A t \in Task : status[t] # "unused" =>
    \/ Key(t) \/ Registering(t) \/ Held(t)
    \/ t \in shown \cup withdrawn

\* The page shows the end of every task that ends while it is registered, though
\* several pages remove what they find and read what others remove, unless it is
\* dismissed or on a page that fails.
EveryEndShown ==
  \A t \in Task : (name[t] # "none" /\ status[t] \in Over) ~> t \in shown \cup withdrawn
=============================================================================
