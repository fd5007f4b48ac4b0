---------------------------- MODULE GuardianRules ----------------------------
(***************************************************************************)
(* The rules that rules.py puts into the State Database, at work on one      *)
(* resource of one structure.  At every turn the Guardian compares the usage *)
(* with the limits, which may give an event, and asks for a rescale when the *)
(* events it holds match a rule; a request takes its events_to_remove events *)
(* of its own direction.  The Guardian and the Scaler are submodules of      *)
(* which only this use is known: the limits, the new allocation and the age  *)
(* at which an event is dropped are free.                                   *)
(***************************************************************************)
EXTENDS Naturals

CONSTANTS
  Level,      \* amounts of the resource: 0..n
  MaxEvents   \* bound on the events of one direction that are held

ASSUME LevelAssumption == Level \subseteq Nat /\ \A a, b \in Level : a..b \subseteq Level
ASSUME EventsAssumption == MaxEvents \in Nat

(* The rules of each resource: whether no usage at all is underuse; the      *)
(* events the two rescales ask for, the other direction's at most, and how   *)
(* many they remove.                                                        *)
\* Fault: the processor tolerates as many underuse events as the memory.
CpuRulesLikeMem == [idleCounts |-> FALSE,
                    up   |-> [own |-> 2, other |-> 6, remove |-> 2],
                    down |-> [own |-> 6, other |-> 0, remove |-> 6]]

CpuRules == [idleCounts |-> FALSE,
             up   |-> [own |-> 2, other |-> 2, remove |-> 2],
             down |-> [own |-> 6, other |-> 0, remove |-> 6]]

MemRules == [idleCounts |-> FALSE,
             up   |-> [own |-> 2, other |-> 6, remove |-> 2],
             down |-> [own |-> 6, other |-> 0, remove |-> 6]]

DiskReadRules == [idleCounts |-> TRUE,
                  up   |-> [own |-> 1, other |-> 6, remove |-> 1],
                  down |-> [own |-> 6, other |-> 0, remove |-> 6]]

DiskWriteRules == [idleCounts |-> TRUE,
                   up   |-> [own |-> 1, other |-> 6, remove |-> 1],
                   down |-> [own |-> 6, other |-> 0, remove |-> 6]]

EnergyRules == [idleCounts |-> FALSE,
                up   |-> [own |-> 1, other |-> 2, remove |-> 1],
                down |-> [own |-> 6, other |-> 0, remove |-> 6]]

Rules == [cpu |-> CpuRules, mem |-> MemRules, disk_read |-> DiskReadRules,
          disk_write |-> DiskWriteRules, energy |-> EnergyRules]

\* With power_budgeting the rules of the energy are the only ones; those of the disks
\* need disk_capabilities and disk_scaling.
Loaded(powerBudgeting, diskScaling) ==
  IF powerBudgeting THEN {"energy"}
  ELSE {"cpu", "mem"} \cup IF diskScaling THEN {"disk_read", "disk_write"} ELSE {}

Direction == {"up", "down"}
Other(d) == IF d = "up" THEN "down" ELSE "up"

-----------------------------------------------------------------------------
VARIABLES
  resource,   \* the resource in question
  bounds,     \* its min and max
  allocated,  \* its current amount
  events,     \* events[d]: events that the Guardian holds
  underuse,   \* underuse events since the last rescale up, as far as they matter
  reversal    \* underuse events between the last rescale up and the down after it

vars == <<resource, bounds, allocated, events, underuse, reversal>>

Enough == 6      \* as many underuse events as a rescale down takes
Never == Enough + 1

TypeOK ==
  /\ resource \in DOMAIN Rules
  /\ bounds.min \in Level /\ bounds.max \in Level
  /\ allocated \in Level
  /\ events \in [Direction -> 0..MaxEvents]
  /\ underuse \in 0..Never /\ reversal \in 0..Never

Init ==
  /\ \E powerBudgeting, diskScaling \in BOOLEAN : resource \in Loaded(powerBudgeting, diskScaling)
  /\ bounds \in {b \in [min : Level, max : Level] : b.min < b.max}
  /\ allocated = bounds.max
  /\ events = [d \in Direction |-> 0]
  /\ underuse = Never /\ reversal = Never

\* <resource>_exceeded_upper and <resource>_dropped_lower
Exceeded(usage, limits) ==
  usage > limits.upper /\ limits.upper < bounds.max /\ allocated < bounds.max

Dropped(usage, limits) ==
  /\ usage < limits.lower /\ limits.lower > bounds.min
  /\ usage > 0 \/ Rules[resource].idleCounts

\* <resource>RescaleUp and <resource>RescaleDown
Matches(d) ==
  /\ events[d] >= Rules[resource][d].own
  /\ events[Other(d)] <= Rules[resource][d].other

\* The Guardian looks at the usage and has an event.
Observe(d) ==
  /\ events[d] < MaxEvents
  /\ \E usage, lower, upper \in Level :
       /\ lower < upper /\ upper <= allocated
       /\ IF d = "up" THEN Exceeded(usage, [lower |-> lower, upper |-> upper])
                      ELSE Dropped(usage, [lower |-> lower, upper |-> upper])
  /\ events' = [events EXCEPT ![d] = @ + 1]
  /\ underuse' = IF d = "down" /\ underuse < Enough THEN underuse + 1 ELSE underuse
  /\ UNCHANGED <<resource, bounds, allocated, reversal>>

\* An event is too old.
Expire(d) ==
  /\ events[d] > 0
  /\ events' = [events EXCEPT ![d] = @ - 1]
  /\ UNCHANGED <<resource, bounds, allocated, underuse, reversal>>

\* A rule matches: the request is made, and the Scaler sets another amount.
Rescale(d) ==
  /\ Matches(d)
  /\ events' = [events EXCEPT ![d] = @ - Rules[resource][d].remove]
  /\ allocated' \in {v \in bounds.min..bounds.max : IF d = "up" THEN v >= allocated
                                                               ELSE v <= allocated}
  /\ underuse' = IF d = "up" THEN 0 ELSE Never
  /\ reversal' = IF d = "down" THEN underuse ELSE reversal
  /\ UNCHANGED <<resource, bounds>>

Next == \E d \in Direction : Observe(d) \/ Expire(d) \/ Rescale(d)

Spec == Init /\ [][Next]_vars
-----------------------------------------------------------------------------
(* Properties *)

\* "Avoid hysteresis": an allocation of processors or energy that was raised is only
\* lowered after four new underuse events, however the events of both directions mix
\* and expire (CpuRescaleUp, CpuRescaleDown, EnergyRescaleUp, EnergyRescaleDown).
\* The memory and the disks tolerate six underuse events when they rescale up, and
\* one more, or none, takes it back.
NoHysteresis == resource \in {"cpu", "energy"} => reversal >= 4
=============================================================================
