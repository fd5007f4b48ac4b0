----------------------------- MODULE MCPrograms -----------------------------
(***************************************************************************)
(* Instances for TLC of eight components that share no state: Hadoop         *)
(* applications, the pages with forms, the samplers of disks and processes,  *)
(* the handlers of the power meters, the jobs that copy between two HDFS,    *)
(* the rules of the Guardian and the arithmetic of sizes.  Every behaviour   *)
(* is one of one of them, the others staying where they begin.               *)
(***************************************************************************)
EXTENDS GuardianRules, Integers, Sequences, FiniteSets, TLC

CONSTANTS
  appA, appB, mA, wA, mB,
  App, NoApp, Container,
  Owner, Master, DependsOn,   \* of a container and of an application, as in HadoopLifecycle
  WithTransfers, WithUser, Scenarios, MaxMishaps,
  Person, MaxEdited, MaxTroubles, Old, Absent, Empty, FitToUsage, Proportional,
  Pid, Instance, Nobody, MaxIo, MaxListErrors,
  MaxWork, MinSent, MaxFailures,
  Job, File, Hidden, Sources, MaxSplits, MaxAttempts, MaxCrashes,
  Target, All, Formula, Window, MinSamples, HistorySize, MaxTick, MaxFlight, MaxMissing, MaxLate

ASSUME HadoopAssumption ==
  /\ Owner \in [Container -> App] /\ Master \in [App -> Container]
  /\ DependsOn \in [App -> App \cup {NoApp}] /\ NoApp \notin App
  /\ MaxMishaps \in Nat
ASSUME PowerAssumption ==
  /\ Window \in Nat \ {0} /\ HistorySize \in Nat /\ MaxTick \in Nat
  /\ MaxMissing \in Nat /\ MaxLate \in Nat
\* A person enters values, and the input of a field that has none is empty.
ASSUME PagesAssumption == MaxTroubles \in Nat /\
  Absent \notin Person \cup {Old, Empty, FitToUsage, Proportional}
ASSUME AtopAssumption == MaxIo \in Nat /\ MaxListErrors \in Nat /\ Nobody \notin Instance
ASSUME FeederAssumption == IsFiniteSet(Pid) /\ MaxWork \in Nat /\ MaxFailures \in Nat
ASSUME CopyAssumption ==
  /\ MaxSplits \in Nat \ {0} /\ MaxAttempts \in Nat \ {0} /\ MaxCrashes \in Nat
  /\ Sources \subseteq [File -> 0..MaxSplits]

VARIABLES
  part,
  scenario, state, counters, listed, instances, known, subscribed, step, removal, eviction,
  todo, doomed, hadError, stop, unstopped, mishaps,
  kind, db, stage, seen, entered, unsent, errors, alone, troubles,
  version, scope, begun, io, sampler, names, unsampled, halfRead, current, previous, whose,
  reported, firstSeen, broken, listErrors,
  formula, tick, counted, sent, flight, ticks, received, last, before, samples, learnedFrom,
  coreEvents, wait, sensorSet, missing, late,
  thread, leaders, started, work, delay, first, prevProcs, prevThreads, stored, dropped, base,
  unreadable, failures,
  source, job, latest, writing, copied, tries, chunks, plan, renamed, deleted, files, found,
  clean, crashes,
  question, answer

-----------------------------------------------------------------------------
(* Values *)

\* appB, which has one container, waits for appA.
OwnerOfThree == [c \in {mA, wA, mB} |-> IF c = mB THEN appB ELSE appA]
MasterOfTwo  == [a \in {appA, appB} |-> IF a = appA THEN mA ELSE mB]
SecondWaits  == [a \in {appA, appB} |-> IF a = appB THEN appA ELSE NoApp]
ThreeScenarios ==
  {[starts |-> {appA, appB}, removals |-> {},     evictions |-> {wA}],
   [starts |-> {appA},       removals |-> {appA}, evictions |-> {}],
   [starts |-> {appB},       removals |-> {appA}, evictions |-> {}]}

\* Pids and instances are told apart by nothing.
Alike == Permutations(Pid) \cup Permutations(Instance)

Event == {{"a"}, {"a", "b"}}
UpToThree == 0..3

\* A source that loses splits and files, and one that has others, and whose hidden file
\* has data.
Big     == [a |-> 2, b |-> 1, _SUCCESS |-> 1]
Small   == [a |-> 1, b |-> 0, _SUCCESS |-> 0]
Another == [a |-> 0, b |-> 2, _SUCCESS |-> 2]
ThreeSources == {Big, Small, Another}

\* Applications that divide evenly and not, with more and with fewer units than
\* containers; containers for every branch of set_hadoop_resources; fewer, as many
\* and more files than mappers.
Sizes == [about : {"containers"}, n : 1..4, hadoop : BOOLEAN, benevolence : {-1, 1, 3},
          app : [cpu : [max : {100, 130, 200, 210, 370, 440, 530}, min : {50, 100}],
                 mem : [max : {2, 4, 5, 512, 1025}, min : {0, 1, 3, 255}]]]
Clusters == [about : {"hadoop"}, cpuMax : {50, 100, 200, 400, 900}, cpuMin : {50, 200},
             mem : {256, 1024, 2048, 3000, 4096, 8192}, workers : 1..3, virtual : BOOLEAN]
Transfers == [about : {"mappers"}, files : 0..8, blocks : 0..25, maxMappers : {1, 3, 5},
              mode : {"distcp-default", "mapred-default", "nearest-multiple", "best-effort"}]
Question == {q \in Sizes : q.app.cpu.min <= q.app.cpu.max /\ q.app.mem.min <= q.app.mem.max}
              \cup Clusters \cup Transfers

-----------------------------------------------------------------------------
(* The components *)

Hadoop   == INSTANCE HadoopLifecycle WITH owner <- Owner, master <- Master,
              dependency <- DependsOn, transfers <- WithTransfers, owned <- WithUser
Pages    == INSTANCE FormUpdates
Atop     == INSTANCE DiskAtop
Power    == INSTANCE PowerWindow
Feeder   == INSTANCE LiteFeeder WITH Process <- Instance
Copy     == INSTANCE BlockCopy
Size     == INSTANCE Sizing

hadoop   == <<scenario, state, counters, listed, instances, known, subscribed, step, removal,
              eviction, todo, doomed, hadError, stop, unstopped, mishaps>>
pages    == <<kind, db, stage, seen, entered, unsent, errors, alone, troubles>>
atop     == <<version, scope, begun, io, sampler, names, unsampled, halfRead, current, previous,
              whose, reported, firstSeen, broken, listErrors>>
power    == <<formula, tick, counted, sent, flight, ticks, received, last, before,
              samples, learnedFrom, coreEvents, wait, sensorSet, missing, late>>
feeder   == <<thread, leaders, started, work, delay, first, prevProcs, prevThreads, stored,
              dropped, base, unreadable, failures>>
copy     == <<source, job, latest, writing, copied, tries, chunks, plan, renamed, deleted, files,
              found, clean, crashes>>
size     == <<question, answer>>
all      == <<part, vars, hadoop, pages, atop, power, feeder, copy, size>>

MCInit ==
  /\ part \in {"hadoop", "pages", "atop", "power", "feeder", "copy", "guardian", "size"}
  /\ Hadoop!Init   /\ (part # "hadoop" => scenario.removals = {})
  \* One structure and one policy stand for those that have less, and more.
  /\ Pages!Init    /\ CASE part # "pages"     -> kind = "host"
                        [] kind = "container" -> db["weight"] = Pages!NoValue
                        [] kind = "rule"      -> db["amount"] = Pages!NoValue /\ db["rescale_policy"] # Pages!NoValue
                        [] OTHER              -> TRUE
  /\ Atop!Init     /\ (part # "atop" => version = "v1")
  \* Only SelfWatts asks for other events, and fewer, than those it begins with.
  /\ Power!Init    /\ sensorSet = {"a", "b"}
  /\ part # "power" => formula = "rapl"
  /\ Feeder!Init
  /\ IF part = "copy" THEN Copy!Init
     ELSE Copy!Init /\ source = [j \in Job |-> Big]
  /\ Init          /\ (part # "guardian" => resource = "cpu" /\ bounds = [min |-> 0, max |-> 1])
  /\ answer = Size!Pending
  /\ IF part = "size" THEN question \in Question ELSE question = [about |-> "nothing"]

MCNext ==
  \/ /\ part = "hadoop" /\ Hadoop!Next
     /\ UNCHANGED <<part, pages, atop, power, feeder, copy, vars, size>>
  \/ /\ part = "pages" /\ Pages!Next
     /\ UNCHANGED <<part, hadoop, atop, power, feeder, copy, vars, size>>
  \/ /\ part = "atop" /\ Atop!Next
     /\ UNCHANGED <<part, hadoop, pages, power, feeder, copy, vars, size>>
  \/ /\ part = "power" /\ Power!Next
     /\ UNCHANGED <<part, hadoop, pages, atop, feeder, copy, vars, size>>
  \/ /\ part = "feeder" /\ Feeder!Next
     /\ UNCHANGED <<part, hadoop, pages, atop, power, copy, vars, size>>
  \/ /\ part = "copy" /\ Copy!Next
     /\ UNCHANGED <<part, hadoop, pages, atop, power, feeder, vars, size>>
  \/ /\ part = "guardian" /\ Next
     /\ UNCHANGED <<part, hadoop, pages, atop, power, feeder, copy, size>>
  \/ /\ part = "size" /\ Size!Next
     /\ UNCHANGED <<part, hadoop, pages, atop, power, feeder, copy, vars>>

MCSpec == MCInit /\ [][MCNext]_all
-----------------------------------------------------------------------------
(* Properties: those of the component that runs; the others are where they *)
(* begin.                                                                  *)

\* The types of the eight (those of sizes are in their properties).
TypesOK ==
  /\ part = "hadoop" => Hadoop!TypeOK
  /\ part = "pages"  => Pages!TypeOK
  /\ part = "atop"   => Atop!TypeOK
  /\ part = "power"  => Power!TypeOK
  /\ part = "feeder" => Feeder!TypeOK
  /\ part = "copy"   => Copy!TypeOK
  /\ part = "guardian" => TypeOK

\* What a Hadoop application leaves behind was reported (start_hadoop_app_task,
\* remove_app_task, wait_for_app_dependency).
Accounted == part = "hadoop" => Hadoop!Accounted

\* "Requests were successful!" says that a form is saved, but for what is lost by name
\* (redirect_with_errors, processServiceConfigPost).
SuccessMeansDone == part = "pages" => Pages!SuccessMeansDone

\* DiskAtop.py reports what was done, and not more.
TrafficCounted == part = "atop" => Atop!TrafficCounted

\* lite_feeder.c counts what processes have done once, whoever had their numbers.
UsageCounted == part = "feeder" => Feeder!UsageCounted

\* A copy that reports success is one of the visible files (HDFSBlockParallelCopy).
CopyExact == part = "copy" => Copy!CopyExact

\* Power goes to the tick and the target whose events were counted (handler.py,
\* hwpc_report.py, hwpc_report_rapl.py).
PowerOfItsTick == part = "power" => Power!PowerOfItsTick

\* Containers add up to their application, Hadoop fits in them, and transfers are cut
\* best (getContainerResourcesForApp, set_hadoop_resources, get_mappers).
AnswersRight == part = "size" => Size!AnswersRight
=============================================================================
