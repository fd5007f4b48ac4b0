----------------------------- MODULE PowerWindow -----------------------------
(***************************************************************************)
(* The handlers of the power meters (handler.py of SelfWatts, hwpc_report.py *)
(* and hwpc_report_rapl.py of SmartWatts).  A sensor sends, at every tick, a *)
(* report of the whole host and one of each running target, which may be    *)
(* lost or arrive late.  The handler keeps the ticks in the order of their  *)
(* first report, and processes the oldest when it has more than Window.     *)
(*                                                                         *)
(* A model of power is learned from the events the reports count.  When the *)
(* SelfWatts handler finds some of them irrelevant it asks for others and   *)
(* forgets the model.  One layer of frequency stands for all.               *)
(***************************************************************************)
EXTENDS Naturals, Sequences, FiniteSets

CONSTANTS
  Target, All,    \* running targets; the whole host
  Event,          \* sets of events that the sensor may count
  Formula,        \* handlers in question, of "selfwatts", "smartwatts", "rapl"
  Window,         \* ticks that are held back: 2 or 5
  MinSamples,     \* min_samples_required to learn a model
  HistorySize,    \* history_window_size
  MaxTick, MaxFlight, MaxMissing, MaxLate  \* bounds on ticks, on reports under way
                                           \* when one begins, lost and late ones

VARIABLES
  formula,
  tick,        \* ticks that the sensor has measured
  counted,     \* counted[t]: events that tick t counts; the last is what the sensor does
  sent,        \* sent[t]: targets whose reports of t were sent and not lost, as long
               \* as no tick is processed after t
  flight,      \* reports under way, [tick, target]
  ticks,       \* the keys of self.ticks in their order
  received,    \* received[t]: targets whose reports of t wait in self.ticks
  last,        \* the tick processed last, with its targets and the outcome
  before,      \* ticks processed before it
  samples,     \* size of the history of the model
  learnedFrom, \* events of the model; {} as long as it is not fitted
  coreEvents,  \* state.core_events
  wait,        \* wait_counter
  sensorSet,   \* the events that the sensor counts now
  missing, late

vars == <<formula, tick, counted, sent, flight, ticks, received, last, before, samples,
          learnedFrom, coreEvents, wait, sensorSet, missing, late>>

Report == [tick : 1..MaxTick, target : Target \cup {All}]
Outcomes == {"no global", "no targets", "rapl", "all"}
None == {}
Nothing == [tick |-> 0, targets |-> {}, outcome |-> "none", learnedFrom |-> None]

TypeOK ==
  /\ formula \in Formula
  /\ tick \in 0..MaxTick
  /\ counted \in [1..MaxTick -> Event]
  /\ sent \in [1..MaxTick -> SUBSET (Target \cup {All})]
  /\ flight \subseteq Report
  /\ ticks \in Seq(1..MaxTick) /\ Len(ticks) <= Window
  /\ received \in [1..MaxTick -> SUBSET (Target \cup {All})]
  /\ last \in {Nothing} \cup [tick : 1..MaxTick, targets : SUBSET (Target \cup {All}),
                             outcome : Outcomes, learnedFrom : Event \cup {None}]
  /\ before \subseteq 1..MaxTick
  /\ samples \in 0..HistorySize
  /\ learnedFrom \in Event \cup {None} /\ coreEvents \in Event \cup {None}
  /\ wait \in 0..HistorySize \div 2
  /\ sensorSet \in Event
  /\ missing \in 0..MaxMissing /\ late \in 0..MaxLate

Init ==
  /\ formula \in Formula
  /\ tick = 0 /\ sensorSet \in Event
  /\ counted = [t \in 1..MaxTick |-> sensorSet]
  /\ sent = [t \in 1..MaxTick |-> {}]
  /\ flight = {} /\ ticks = <<>> /\ last = Nothing /\ before = {}
  /\ received = [t \in 1..MaxTick |-> {}]
  /\ samples = 0 /\ learnedFrom = None /\ coreEvents = None
  /\ wait = HistorySize \div 2
  /\ missing = 0 /\ late = 0

\* The sensor measures another tick: some of the targets run.
Sense ==
  /\ tick < MaxTick /\ Cardinality(flight) <= MaxFlight
  /\ tick' = tick + 1
  /\ counted' = [t \in 1..MaxTick |-> IF t > tick THEN sensorSet ELSE counted[t]]
  /\ \E running \in SUBSET Target :
       /\ sent' = [sent EXCEPT ![tick + 1] = running \cup {All}]
       /\ flight' = flight \cup [tick : {tick + 1}, target : running \cup {All}]
  /\ UNCHANGED <<formula, ticks, received, last, before, samples, learnedFrom, coreEvents,
                 wait, sensorSet, missing, late>>

Lose(r) ==
  /\ r \in flight /\ missing < MaxMissing
  /\ flight' = flight \ {r}
  /\ sent' = [sent EXCEPT ![r.tick] = @ \ {r.target}]
  /\ missing' = missing + 1
  /\ UNCHANGED <<formula, tick, counted, ticks, received, last, before, samples,
                 learnedFrom, coreEvents, wait, sensorSet, late>>

-----------------------------------------------------------------------------
(* _process_oldest_tick *)

Record(t, targets, outcome, from) ==
  /\ last' = [tick |-> t, targets |-> targets, outcome |-> outcome, learnedFrom |-> from]
  /\ before' = (before \cup {last.tick}) \ {0}
  /\ sent' = [u \in 1..MaxTick |-> IF u \in before' THEN {} ELSE sent[u]]

SameModel == UNCHANGED <<samples, learnedFrom, coreEvents, wait, sensorSet>>

\* Without the report of the host, or without targets, the tick is dropped.
Drop(t, targets) ==
  \/ All \notin targets /\ Record(t, targets, "no global", None) /\ SameModel
  \/ targets = {All} /\ Record(t, targets, "no targets", None) /\ SameModel

\* hwpc_report_rapl.py: the power of the socket is the power of every target.
ProcessRapl(t, targets) ==
  /\ formula = "rapl" /\ {All} \subseteq targets /\ targets # {All}
  /\ Record(t, targets, "all", None)
  /\ SameModel

\* Fault: the history has no end.
MoreAndMore(n) == n + 1

\* A sample more in a history of history_window_size.
More(n) == IF n < HistorySize THEN n + 1 ELSE n

\* Fault: a new set of events does not flush the models.
FlushedNever(t) == [samples |-> samples, learnedFrom |-> learnedFrom]

\* What a tick with other events than the last leaves of the model: SelfWatts flushes
\* it, and the events of SmartWatts never change.
Flushed(t) ==
  IF formula = "selfwatts" /\ counted[t] # coreEvents
  THEN [samples |-> 0, learnedFrom |-> None]
  ELSE [samples |-> samples, learnedFrom |-> learnedFrom]

\* NotFittedError: the sample is stored, and the model learned if there are enough.
Learn(t, targets) ==
  /\ formula # "rapl" /\ {All} \subseteq targets /\ targets # {All}
  /\ Flushed(t).learnedFrom = None
  /\ samples' = More(Flushed(t).samples)
  /\ learnedFrom' = IF samples' >= MinSamples THEN counted[t] ELSE None
  /\ coreEvents' = counted[t]
  /\ Record(t, targets, "rapl", None)
  /\ UNCHANGED <<wait, sensorSet>>

\* The frequency of the package cannot be computed (SmartWatts).
NoFrequency(t, targets) ==
  /\ formula = "smartwatts" /\ {All} \subseteq targets /\ targets # {All}
  /\ Record(t, targets, "rapl", None)
  /\ SameModel

\* Every target gets its power.  With an error over the threshold and a full history,
\* the master of SelfWatts counts down, and then asks for fewer events or waits again.
Estimate(t, targets) ==
  /\ formula # "rapl" /\ {All} \subseteq targets /\ targets # {All}
  /\ Flushed(t).learnedFrom # None
  /\ Record(t, targets, "all", Flushed(t).learnedFrom)
  /\ coreEvents' = counted[t]
  /\ \/ /\ samples' = More(Flushed(t).samples) /\ learnedFrom' = Flushed(t).learnedFrom
        /\ UNCHANGED <<wait, sensorSet>>
     \/ /\ formula = "selfwatts" /\ More(Flushed(t).samples) = HistorySize /\ wait > 0
        /\ wait' = wait - 1
        /\ samples' = HistorySize /\ learnedFrom' = Flushed(t).learnedFrom
        /\ UNCHANGED sensorSet
     \/ /\ formula = "selfwatts" /\ More(Flushed(t).samples) = HistorySize /\ wait = 0
        /\ \/ /\ wait' = HistorySize \div 2 /\ UNCHANGED sensorSet
              /\ samples' = HistorySize /\ learnedFrom' = Flushed(t).learnedFrom
           \/ /\ \E e \in Event \ {counted[t]} : sensorSet' = e
              /\ samples' = 0 /\ learnedFrom' = None
              /\ UNCHANGED wait

Process(t, targets) ==
  Drop(t, targets) \/ ProcessRapl(t, targets) \/ Learn(t, targets)
    \/ NoFrequency(t, targets) \/ Estimate(t, targets)

-----------------------------------------------------------------------------
(* handle *)

\* A tick of which something has arrived.
Seen(t) == received[t] # {} \/ t \in before \cup {last.tick}

\* Whether r comes after a report Window ticks later, or opens its tick after a later
\* one: the keys are in the order in which they were opened.
IsLate(r) ==
  \/ \E t \in r.tick + Window..MaxTick : Seen(t)
  \/ ~Seen(r.tick) /\ \E t \in r.tick + 1..MaxTick : Seen(t)

\* self.ticks.setdefault(timestamp, {}).update({target: report}): a tick that was
\* processed already is opened again, at the end.
Keys(r) == IF \E i \in DOMAIN ticks : ticks[i] = r.tick THEN ticks ELSE Append(ticks, r.tick)

\* A report arrives; the oldest of more than Window ticks is processed.
Receive(r) ==
  /\ r \in flight
  /\ flight' = flight \ {r}
  /\ IF IsLate(r) THEN late < MaxLate /\ late' = late + 1 ELSE UNCHANGED late
  /\ LET keys == Keys(r)
         all  == [received EXCEPT ![r.tick] = @ \cup {r.target}]
     IN  IF Len(keys) > Window
         THEN /\ ticks' = Tail(keys)
              /\ received' = [all EXCEPT ![Head(keys)] = {}]
              /\ Process(Head(keys), all[Head(keys)])
         ELSE /\ ticks' = keys /\ received' = all
              /\ UNCHANGED <<last, before, sent>> /\ SameModel
  /\ UNCHANGED <<formula, tick, counted, missing>>

Next == Sense \/ \E r \in flight : Lose(r) \/ Receive(r)

Spec == Init /\ [][Next]_vars
-----------------------------------------------------------------------------
(* Properties *)

\* As long as ticks are opened in order and no report comes late by Window ticks, a
\* tick is processed at most once, in the order of time, with all of its reports that
\* are not lost.
TicksWhole ==
  late = 0 /\ (\A r \in flight : ~IsLate(r)) /\ last # Nothing =>
    /\ \A t \in before : t < last.tick
    /\ last.targets = sent[last.tick]

\* A target never gets a power from a model of other events than its report counts,
\* although reports of the old events are under way when new ones are asked for.
ModelsMatch == last.learnedFrom # None => last.learnedFrom = counted[last.tick]

\* Power goes to the tick and the target whose events were counted (handle,
\* _process_oldest_tick).
PowerOfItsTick == TicksWhole /\ ModelsMatch
=============================================================================
