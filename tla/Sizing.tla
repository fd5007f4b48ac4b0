-------------------------------- MODULE Sizing --------------------------------
(***************************************************************************)
(* The arithmetic of the platform, as questions with an answer: the size of  *)
(* the containers of an application (getContainerResourcesForApp), the       *)
(* configuration of Hadoop in a container (set_hadoop_resources), and the    *)
(* blocks of a chunk of a transfer (get_mappers).                           *)
(*                                                                         *)
(* Quotients are exact: an amount of a container is kept times unit(q).  An  *)
(* application that is started has no containers, and so no current amounts.*)
(***************************************************************************)
EXTENDS Integers, FiniteSets, FiniteSetsExt, SequencesExt

CONSTANTS
  Question   \* what is asked: records with the fields "about" and the arguments

-----------------------------------------------------------------------------
(* getContainerResourcesForApp; memory stands for every resource but the cpu *)

Resource == {"cpu", "mem"}
Bound    == {"max", "min"}

unit(q) == q.n * q.app.cpu.max
TimesUnit(q, x) == x * unit(q)

\* x / d to the nearest integer, to the even one of two (round).
Rounded(x, d) ==
  IF 2 * (x % d) < d \/ (2 * (x % d) = d /\ (x \div d) % 2 = 0) THEN x \div d ELSE x \div d + 1

\* cpu_max of a regular container and what is over a multiple of 100, times n.
EqualShare(q) == q.app.cpu.max
Modulo(q)     == EqualShare(q) % (100 * q.n)

\* The kind of the one container that makes up for the rounding of the others.
IrregularType(q) ==
  IF Modulo(q) = 0 \/ q.hadoop THEN "none"
  ELSE IF Modulo(q) < 50 * q.n
       THEN IF EqualShare(q) > 100 * q.n THEN "bigger" ELSE "none"
       ELSE IF EqualShare(q) - (100 * q.n - Modulo(q)) * (q.n - 1) >= 10 * q.n
            THEN "smaller" ELSE "none"

\* Fault: the irregular container makes up for itself too.
SharesForAll(q) ==
  CASE IrregularType(q) = "bigger"  -> [regular   |-> EqualShare(q) - Modulo(q),
                                        irregular |-> EqualShare(q) + Modulo(q) * q.n]
    [] IrregularType(q) = "smaller" -> [regular   |-> EqualShare(q) + 100 * q.n - Modulo(q),
                                        irregular |-> EqualShare(q) - (100 * q.n - Modulo(q)) * q.n]
    [] OTHER -> [regular |-> EqualShare(q)]

\* cpu_max of the kinds of containers, times n.
Shares(q) ==
  CASE IrregularType(q) = "bigger"  -> [regular   |-> EqualShare(q) - Modulo(q),
                                        irregular |-> EqualShare(q) + Modulo(q) * (q.n - 1)]
    [] IrregularType(q) = "smaller" -> [regular   |-> EqualShare(q) + 100 * q.n - Modulo(q),
                                        irregular |-> EqualShare(q) - (100 * q.n - Modulo(q)) * (q.n - 1)]
    [] OTHER -> [regular |-> EqualShare(q)]

\* Another amount with an irregular container: in the ratio of the cpu, and rounded
\* if what is left is at least one.
Scaled(q, amount) ==
  LET regular   == Shares(q).regular * amount
      irregular == Shares(q).irregular * amount
      over      == regular % unit(q)
      smaller   == irregular - (unit(q) - over) * (q.n - 1)
  IN  IF 2 * over < unit(q)
      THEN IF regular >= unit(q)
           THEN [regular   |-> regular - over,
                 irregular |-> TimesUnit(q, Rounded(irregular + over * (q.n - 1), unit(q)))]
           ELSE [regular |-> regular, irregular |-> irregular]
      ELSE IF smaller >= unit(q)
           THEN [regular   |-> TimesUnit(q, Rounded(regular, unit(q))),
                 irregular |-> TimesUnit(q, Rounded(smaller, unit(q)))]
           ELSE [regular |-> regular, irregular |-> irregular]

\* The amounts before the last rounding of the cpu.
Amounts(q, r, b) ==
  LET cpuMax == [t \in DOMAIN Shares(q) |-> Shares(q)[t] * q.app.cpu.max]
  IN  IF r = "cpu" /\ b = "max" THEN cpuMax
      ELSE IF IrregularType(q) = "none"
           THEN [regular |-> TimesUnit(q, q.app[r][b] \div q.n)]
           ELSE Scaled(q, q.app[r][b])

\* The automatic boundary of a resource: with nothing at most, a division by zero.
Boundary(q, r, t) ==
  LET max == Amounts(q, r, "max")[t]
      min == Amounts(q, r, "min")[t]
      halves == 2 ^ (q.benevolence + 1)
  IN  Rounded((max - min) * 100, halves * max)

\* The ratio of an amount to the cpu divides by the amount.
Raises(q) ==
  \/ IrregularType(q) # "none" /\ \E r \in Resource, b \in Bound : q.app[r][b] = 0
  \/ q.benevolence # -1 /\ \E r \in Resource : \E t \in DOMAIN Shares(q) : Amounts(q, r, "max")[t] = 0

ContainerResources(q) ==
  IF Raises(q) THEN [raised |-> TRUE]
  ELSE [raised |-> FALSE,
        amounts |-> [r \in Resource |-> [b \in Bound |->
           IF r = "cpu" /\ b = "max"
           THEN [t \in DOMAIN Shares(q) |-> TimesUnit(q, Rounded(Shares(q)[t], q.n))]
           ELSE Amounts(q, r, b)]],
        boundaries |-> [r \in (IF q.benevolence = -1 THEN {} ELSE Resource) |->
                          [t \in DOMAIN Shares(q) |-> Boundary(q, r, t)]]]

-----------------------------------------------------------------------------
(* set_hadoop_resources *)

\* int(x / d), towards zero.
Truncated(x, d) == IF x < 0 THEN -((-x) \div d) ELSE x \div d

AtLeastOne(x) == IF x < 1 THEN 1 ELSE x

\* With hyperthreading, which only a physical cluster has, half of the cores.
HadoopCores(q) ==
  IF q.virtual THEN AtLeastOne(q.cpuMax \div 100)
               ELSE AtLeastOne(q.cpuMax \div 100) \div 2

\* A reduce has what a map has; the heap of the master is never the least.
HadoopValues(q) ==
  LET heap      == IF q.virtual THEN 128 ELSE 1024
      appMaster == heap + 384
      available == (q.mem * 95) \div 100
      nodeManager == available - 2 * heap
      task      == Truncated(nodeManager - appMaster, HadoopCores(q))
      low       == available * q.workers < 2 * task + appMaster
      map       == IF low THEN Truncated(2 * nodeManager, 7) ELSE task
  IN  [vcores |-> HadoopCores(q), min_vcores |-> AtLeastOne(q.cpuMin \div 100),
       heaps |-> 2 * heap,
       nodemanager_memory |-> nodeManager,
       scheduler_maximum_memory |-> nodeManager,
       scheduler_minimum_memory |-> IF low THEN Truncated(2 * nodeManager, 7) ELSE 256,
       map_memory |-> map, map_memory_java_opts |-> Truncated(9 * map, 10),
       mapreduce_am_memory |-> IF low THEN Truncated(3 * nodeManager, 7) ELSE appMaster]

\* Without a core left after halving them for hyperthreading, a division by zero; a
\* value that is not positive raises too.
HadoopResources(q) ==
  IF HadoopCores(q) = 0 THEN [raised |-> TRUE]
  ELSE IF \E f \in DOMAIN HadoopValues(q) : HadoopValues(q)[f] <= 0 THEN [raised |-> TRUE]
  ELSE [raised |-> FALSE, values |-> HadoopValues(q)]

-----------------------------------------------------------------------------
(* get_mappers *)

CeilDiv(x, d) == (x + d - 1) \div d

\* The mappers of the most even distribution of the blocks over the files.
EstimatedMappers(q, slicing) ==
  IF slicing = 1 THEN q.blocks
  ELSE (q.files - (q.blocks % q.files)) * CeilDiv(q.blocks \div q.files, slicing)
         + (q.blocks % q.files) * CeilDiv(CeilDiv(q.blocks, q.files), slicing)

Slicings(q) == [i \in 1..CeilDiv(q.blocks, q.files) - 1 |-> i + 1]

\* With fewer files than mappers: the slicing whose mappers are as few as possible and
\* not fewer than max_mappers.
Nearest(q) ==
  LET Try(best, s) ==
        LET diff == EstimatedMappers(q, s) - q.maxMappers IN
        IF best.stop THEN best
        ELSE [slicing |-> IF diff = 0 \/ (diff > 0 /\ diff < best.diff) THEN s ELSE best.slicing,
              diff    |-> IF diff = 0 \/ (diff > 0 /\ diff < best.diff) THEN diff ELSE best.diff,
              stop    |-> diff <= 0]
  IN  FoldLeft(Try, [slicing |-> 1, diff |-> q.blocks - q.maxMappers, stop |-> FALSE],
               Slicings(q)).slicing

\* With more: the one that leaves as few mappers idle as possible in the last round.
InMultiples(q) ==
  LET remaining(s) == EstimatedMappers(q, s) % q.maxMappers
      Try(best, s) ==
        IF best.stop THEN best
        ELSE [slicing |-> IF remaining(s) = 0 \/ remaining(s) > best.remaining THEN s ELSE best.slicing,
              remaining |-> IF remaining(s) > best.remaining THEN remaining(s) ELSE best.remaining,
              stop |-> remaining(s) = 0]
  IN  FoldLeft(Try, [slicing |-> 1, remaining |-> remaining(1), stop |-> remaining(1) = 0],
               Slicings(q)).slicing

NoSlicing == 0

Mappers(q) ==
  IF \/ q.files <= 0 \/ q.blocks <= 0
     \/ q.mode = "distcp-default"
     \/ q.mode = "best-effort" /\ q.files >= q.maxMappers
     \/ q.mode = "nearest-multiple" /\ q.files = q.maxMappers
  THEN NoSlicing
  ELSE IF q.mode = "mapred-default" \/ q.blocks <= q.maxMappers THEN 1
  ELSE IF q.mode = "nearest-multiple" /\ q.files > q.maxMappers THEN InMultiples(q)
  ELSE Nearest(q)

-----------------------------------------------------------------------------
VARIABLES question, answer

vars == <<question, answer>>
Pending == [pending |-> TRUE]

Init == question \in Question /\ answer = Pending

Answer ==
  /\ answer = Pending
  /\ answer' = CASE question.about = "containers" -> ContainerResources(question)
                 [] question.about = "hadoop"     -> HadoopResources(question)
                 [] question.about = "mappers"    -> [slicing |-> Mappers(question)]
  /\ UNCHANGED question

Next == Answer
Spec == Init /\ [][Next]_vars
-----------------------------------------------------------------------------
(* Properties *)

Answered(about) == answer # Pending /\ question.about = about

\* What all the containers get of a resource, times the unit.
Total(q, amount) ==
  IF "irregular" \in DOMAIN amount
  THEN (q.n - 1) * amount.regular + amount.irregular ELSE q.n * amount.regular

\* The containers of an application have what it has: with an irregular container
\* exactly its cpu, and otherwise never half a share per container too much; of every
\* other amount not more, and less than one per container less.  A regular container
\* has no more at least than at most, and its boundary is a percentage.  The irregular
\* one, which is left with the rest, may get a min over its max.
SharesAddUp ==
  Answered("containers") /\ ~answer.raised =>
    LET q == question
        OfApp(r, b) == TimesUnit(q, q.app[r][b])
        Given(r, b) == Total(q, answer.amounts[r][b])
    IN  /\ "irregular" \in DOMAIN Shares(q) => Given("cpu", "max") = OfApp("cpu", "max")
        /\ 2 * Given("cpu", "max") <= 2 * OfApp("cpu", "max") + TimesUnit(q, q.n)
        /\ \A r \in Resource, b \in Bound : <<r, b>> # <<"cpu", "max">> =>
             /\ Given(r, b) <= OfApp(r, b)
             /\ Given(r, b) > OfApp(r, b) - TimesUnit(q, q.n)
        /\ \A r \in Resource :
             /\ answer.amounts[r]["min"].regular <= answer.amounts[r]["max"].regular
             /\ q.benevolence # -1 => answer.boundaries[r].regular \in 0..100

\* A configuration of Hadoop that is accepted fits in its container, and a task and
\* the master of the application fit under the maximum of the scheduler.
HadoopFits ==
  Answered("hadoop") /\ ~answer.raised =>
    LET v == answer.values IN
      /\ v.nodemanager_memory + v.heaps <= question.mem
      /\ v.map_memory <= v.scheduler_maximum_memory
      /\ v.mapreduce_am_memory <= v.scheduler_maximum_memory
      /\ v.scheduler_minimum_memory <= v.scheduler_maximum_memory

\* The early end of the search loses no better slicing.
SlicingBest ==
  Answered("mappers") /\ answer.slicing \notin {NoSlicing} /\ question.blocks > question.maxMappers
      /\ question.mode # "mapred-default" =>
    LET q == question
        tried == 1..CeilDiv(q.blocks, q.files) \cup {1}
        mappers == EstimatedMappers(q, answer.slicing)
    IN  /\ answer.slicing \in tried
        /\ IF q.files > q.maxMappers
           THEN LET left(s) == EstimatedMappers(q, s) % q.maxMappers IN
                  \A s \in tried : left(answer.slicing) # 0 =>
                                     left(s) # 0 /\ left(s) <= left(answer.slicing)
           ELSE /\ mappers >= q.maxMappers
                /\ \A s \in tried : EstimatedMappers(q, s) >= q.maxMappers =>
                                      EstimatedMappers(q, s) >= mappers

\* The three of them.
AnswersRight == SharesAddUp /\ HadoopFits /\ SlicingBest
=============================================================================
