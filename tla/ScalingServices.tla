--------------------------- MODULE ScalingServices ---------------------------
(***************************************************************************)
(* The switch that Celery tasks use to silence the scaling services        *)
(* (Scaler, Guardian, Rebalancer, EnergyController) while they change the  *)
(* State Database: manage_scaling_services and the context manager         *)
(* scaling_services_disabled of ui/background_tasks.py, the hand-written   *)
(* bracket of extend_lv in ui/run_playbooks.py, and the last step of       *)
(* rollback_start_flow.                                                    *)
(*                                                                         *)
(* manage_scaling_services starts one activate.sh or deactivate.sh process *)
(* per service, all in parallel, and then collects them in list order; it  *)
(* raises at the first one that ended with an error, and the processes it  *)
(* has not collected yet go on running.  A service is therefore written by *)
(* every process of every task, in any order.  extend_lv goes through the  *)
(* playbook manage_scaling_services.yml, which has a list of its own (with *)
(* power budgeting the Guardian is not on it) and runs the scripts of that *)
(* list one after another ("&&") up to the first error.                    *)
(***************************************************************************)
EXTENDS Naturals, Sequences, FiniteSets

CONSTANTS
  Task,          \* executions of the tasks that silence the services
  StartApp,      \* those that are a start_app_task: a failure is rolled back
  ExtendLv,      \* those that are a throttled extend_lv: no try/finally
  Service,       \* the scaling services
  LocalList,     \* those manage_scaling_services goes through, in order
  PlaybookList,  \* those of manage_scaling_services.yml
  MaxFailures    \* bound on the processes that end with an error

ASSUME TaskAssumption ==
  /\ StartApp \subseteq Task
  /\ ExtendLv \subseteq Task
  /\ StartApp \cap ExtendLv = {}
ASSUME ServiceAssumption ==
  \A list \in {LocalList, PlaybookList} :
    /\ list \in Seq(Service) /\ list # <<>>
    /\ \A i, j \in DOMAIN list : list[i] = list[j] => i = j
ASSUME FailureAssumption == MaxFailures \in Nat

VARIABLES
  active,     \* active[s]: the orchestrator runs service s
  pc,         \* pc[t]: where task t is
  process,    \* process[t][ph][s]: the script that t started for s in phase ph
  collected,  \* collected[t]: processes of the current phase t has waited for
  raised,     \* raised[t]: an exception is travelling through t
  failures    \* processes that ended with an error so far

vars == <<active, pc, process, collected, raised, failures>>

\* The services a bracket is about, in the order of its list.
List(t) == IF t \in ExtendLv THEN PlaybookList ELSE LocalList
Mine(t) == {List(t)[i] : i \in DOMAIN List(t)}

Phase    == {"disable", "enable", "rollback"}
Location == Phase \cup {"idle", "inside", "after", "done", "failed"}

TypeOK ==
  /\ active \in [Service -> BOOLEAN]
  /\ pc \in [Task -> Location]
  /\ process \in [Task -> [Phase -> [Service -> {"none", "running", "ok", "error"}]]]
  /\ collected \in [Task -> Nat] /\ \A t \in Task : collected[t] <= Len(List(t))
  /\ raised \in [Task -> BOOLEAN]
  /\ failures \in Nat

Init ==
  /\ active = [s \in Service |-> TRUE]
  /\ pc = [t \in Task |-> "idle"]
  /\ process = [t \in Task |-> [ph \in Phase |-> [s \in Service |-> "none"]]]
  /\ collected = [t \in Task |-> 0]
  /\ raised = [t \in Task |-> FALSE]
  /\ failures = 0

-----------------------------------------------------------------------------
(* manage_scaling_services *)

\* Popen of one script per service of the list; the playbook starts with the first.
Launched(t) ==
  [s \in Service |->
     IF s \in Mine(t) /\ (t \in ExtendLv => s = List(t)[1]) THEN "running" ELSE "none"]

Launch(t, ph) ==
  /\ pc' = [pc EXCEPT ![t] = ph]
  /\ process' = [process EXCEPT ![t][ph] = Launched(t)]
  /\ collected' = [collected EXCEPT ![t] = 0]

\* A script reaches the orchestrator and ends well.
ScriptSucceeds(t, ph, s) ==
  /\ process[t][ph][s] = "running"
  /\ process' = [process EXCEPT ![t][ph][s] = "ok"]
  /\ active' = [active EXCEPT ![s] = (ph # "disable")]
  /\ UNCHANGED <<pc, collected, raised, failures>>

\* A script ends with an error and leaves its service as it was.
ScriptFails(t, ph, s) ==
  /\ failures < MaxFailures
  /\ process[t][ph][s] = "running"
  /\ process' = [process EXCEPT ![t][ph][s] = "error"]
  /\ failures' = failures + 1
  /\ UNCHANGED <<active, pc, collected, raised>>

\* Fault: the loop waits for one process too many.
CollectOneTooMany(t) ==
  /\ pc[t] \in Phase
  /\ collected[t] <= Len(List(t))
  /\ collected' = [collected EXCEPT ![t] = @ + 1]
  /\ UNCHANGED <<active, pc, process, raised, failures>>

Collecting(t) == pc[t] \in Phase /\ collected[t] < Len(List(t))
Awaited(t)    == List(t)[collected[t] + 1]

\* The script the playbook starts once it has collected the one it waited for.
IsNext(t, s) ==
  /\ t \in ExtendLv
  /\ collected[t] + 2 \in DOMAIN List(t) /\ s = List(t)[collected[t] + 2]

\* p.communicate(), one process after another; the playbook only now starts the
\* next script.
Collect(t) ==
  /\ Collecting(t) /\ process[t][pc[t]][Awaited(t)] = "ok"
  /\ collected' = [collected EXCEPT ![t] = @ + 1]
  /\ process' = [process EXCEPT ![t][pc[t]] =
       [s \in Service |-> IF IsNext(t, s) THEN "running" ELSE @[s]]]
  /\ UNCHANGED <<active, pc, raised, failures>>

\* The process waited for returned an error: raise, abandoning the others.
\* rollback_start_flow swallows the exception; around start_app_task's body the
\* exception leads to rollback_start_flow, elsewhere it ends the task.
CollectError(t) ==
  /\ Collecting(t) /\ process[t][pc[t]][Awaited(t)] = "error"
  /\ raised' = [raised EXCEPT ![t] = TRUE]
  /\ \/ /\ t \in StartApp /\ pc[t] # "rollback"
        /\ Launch(t, "rollback")
     \/ /\ t \notin StartApp \/ pc[t] = "rollback"
        /\ pc' = [pc EXCEPT ![t] = "failed"]
        /\ UNCHANGED <<process, collected>>
  /\ UNCHANGED <<active, failures>>

AllCollected(t, ph) == pc[t] = ph /\ collected[t] = Len(List(t))

-----------------------------------------------------------------------------
(* with scaling_services_disabled(): ... *)

Enter(t) ==
  /\ pc[t] = "idle"
  /\ Launch(t, "disable")
  /\ UNCHANGED <<active, raised, failures>>

\* start_app_task raises before it reaches the bracket.
BeforeRaises(t) ==
  /\ pc[t] = "idle" /\ t \in StartApp
  /\ Launch(t, "rollback")
  /\ raised' = [raised EXCEPT ![t] = TRUE]
  /\ UNCHANGED <<active, failures>>

\* Fault: the scripts are started and not waited for.
EnterBodyAtOnce(t) ==
  /\ pc[t] = "disable"
  /\ pc' = [pc EXCEPT ![t] = "inside"]
  /\ UNCHANGED <<active, process, collected, raised, failures>>

EnterBody(t) ==
  /\ AllCollected(t, "disable")
  /\ pc' = [pc EXCEPT ![t] = "inside"]
  /\ UNCHANGED <<active, process, collected, raised, failures>>

\* The body ends; both the finally clause and extend_lv enable the services.
BodyReturns(t) ==
  /\ pc[t] = "inside"
  /\ Launch(t, "enable")
  /\ UNCHANGED <<active, raised, failures>>

\* Fault: no try/finally around the yield.
BodyRaisesThrough(t) ==
  /\ pc[t] = "inside" /\ t \notin ExtendLv
  /\ pc' = [pc EXCEPT ![t] = "failed"]
  /\ raised' = [raised EXCEPT ![t] = TRUE]
  /\ UNCHANGED <<active, process, collected, failures>>

\* The body raises: the finally clause enables the services all the same.
BodyRaises(t) ==
  /\ pc[t] = "inside" /\ t \notin ExtendLv
  /\ Launch(t, "enable")
  /\ raised' = [raised EXCEPT ![t] = TRUE]
  /\ UNCHANGED <<active, failures>>

\* A playbook of extend_lv fails: the second half of its bracket is skipped.
ExtendLvRaises(t) ==
  /\ pc[t] = "inside" /\ t \in ExtendLv
  /\ pc' = [pc EXCEPT ![t] = "failed"]
  /\ raised' = [raised EXCEPT ![t] = TRUE]
  /\ UNCHANGED <<active, process, collected, failures>>

LeaveBody(t) ==
  /\ AllCollected(t, "enable") /\ ~raised[t]
  /\ pc' = [pc EXCEPT ![t] = IF t \in StartApp THEN "after" ELSE "done"]
  /\ UNCHANGED <<active, process, collected, raised, failures>>

\* The exception of the body goes on once the services are enabled.
LeaveRaising(t) ==
  /\ AllCollected(t, "enable") /\ raised[t]
  /\ \/ t \in StartApp /\ Launch(t, "rollback")
     \/ /\ t \notin StartApp
        /\ pc' = [pc EXCEPT ![t] = "failed"]
        /\ UNCHANGED <<process, collected>>
  /\ UNCHANGED <<active, raised, failures>>

\* The rest of start_app_task: network set up and application started, or not.
AfterReturns(t) ==
  /\ pc[t] = "after"
  /\ pc' = [pc EXCEPT ![t] = "done"]
  /\ UNCHANGED <<active, process, collected, raised, failures>>

AfterRaises(t) ==
  /\ pc[t] = "after"
  /\ Launch(t, "rollback")
  /\ raised' = [raised EXCEPT ![t] = TRUE]
  /\ UNCHANGED <<active, failures>>

RolledBack(t) ==
  /\ AllCollected(t, "rollback")
  /\ pc' = [pc EXCEPT ![t] = "failed"]
  /\ UNCHANGED <<active, process, collected, raised, failures>>

-----------------------------------------------------------------------------
TaskStep(t) ==
  \/ Enter(t) \/ BeforeRaises(t) \/ EnterBody(t) \/ Collect(t) \/ CollectError(t)
  \/ BodyReturns(t) \/ BodyRaises(t) \/ ExtendLvRaises(t)
  \/ LeaveBody(t) \/ LeaveRaising(t)
  \/ AfterReturns(t) \/ AfterRaises(t) \/ RolledBack(t)

ScriptStep(t, ph, s) == ScriptSucceeds(t, ph, s) \/ ScriptFails(t, ph, s)

Next ==
  \/ \E t \in Task : TaskStep(t)
  \/ \E t \in Task, ph \in Phase, s \in Service : ScriptStep(t, ph, s)

\* Celery runs a task it has accepted, and a script ends by itself (its request
\* to the orchestrator has an answer or an error).
Fairness ==
  /\ \A t \in Task : WF_vars(TaskStep(t))
  /\ \A t \in Task, ph \in Phase, s \in Service : WF_vars(ScriptStep(t, ph, s))

Spec     == Init /\ [][Next]_vars
FairSpec == Spec /\ Fairness
-----------------------------------------------------------------------------
(* Properties *)

ScriptError(t)  == \E ph \in Phase, s \in Service : process[t][ph][s] = "error"
Abandoned(t)    == ScriptError(t) \/ (t \in ExtendLv /\ pc[t] = "failed")
StillEnables(t, s) ==
  \/ pc[t] \in {"disable", "inside"}
  \/ pc[t] = "enable" /\ process[t]["enable"][s] \in {"none", "running"}

\* A service that is off was put off by a task that is still going to put it on
\* again, or by one that gave up: one of its own scripts ended with an error, or
\* it is an extend_lv whose playbook failed.  (The finally clause of
\* scaling_services_disabled, and what it does not cover.)
OffIsOwed ==
  \A s \in Service : ~active[s] =>
    \E t \in Task : /\ process[t]["disable"][s] = "ok"
                    /\ StillEnables(t, s) \/ Abandoned(t)

\* A service of a bracket's own list that is found running inside the bracket was
\* switched on by another task: a task alone has the services of its list off for
\* the whole of its body.  (The lists differ: with power budgeting extend_lv never
\* touches the Guardian, which scaling_services_disabled switches off.)
OnInsideIsForeign ==
  \A t \in Task : \A s \in Mine(t) : pc[t] = "inside" /\ active[s] =>
    \E u \in Task \ {t}, ph \in {"enable", "rollback"} : process[u][ph][s] = "ok"

\* "Re-enable disabled services": with every task ended and every script
\* collected or finished, all the services run.
QuietMeansActive ==
  (/\ \A t \in Task : pc[t] \in {"idle", "done", "failed"}
   /\ \A t \in Task, ph \in Phase, s \in Service : process[t][ph][s] # "running")
  => \A s \in Service : active[s]

\* However the brackets of several tasks overlap, and whichever bodies raise,
\* the services end up running, unless a task gives up halfway.
EventuallyRestored ==
  (\A t \in Task : []~Abandoned(t)) => <>[](\A s \in Service : active[s])
=============================================================================
