--------------------------- MODULE Programs_proofs ---------------------------
(***************************************************************************)
(* Proofs about the programs of MCPrograms, for every value of their       *)
(* constants: the rules of the Guardian, the handlers of the power meters, *)
(* the jobs that copy between two HDFS, the pages with forms, the Hadoop   *)
(* applications and the samplers of disks and processes.  Each has an      *)
(* inductive invariant of its own, which its steps keep and those of the   *)
(* others do not touch.  The arithmetic of the sizes is proved for every   *)
(* question, not only for those that MCPrograms asks.                      *)
(***************************************************************************)
EXTENDS MCPrograms, FiniteSetTheorems, SequenceTheorems, WellFoundedInduction, TLAPS

(* The rules of the Guardian.  A rescale up of the processors or the energy  *)
(* tolerates two events of the other direction, so what the Guardian holds   *)
(* later are those two and the new ones, less the ones that have expired.    *)

\* What is held of the underuse: what a rescale up tolerates, and what came since.
FewHeld ==
  resource \in {"cpu", "energy"} /\ underuse < Enough => events["down"] <= 2 + underuse

GuardianInv == TypeOK /\ FewHeld /\ NoHysteresis

\* A rescale removes events that it has asked for.
LEMMA RemovesWhatItNeeds ==
  ASSUME NEW r \in DOMAIN Rules, NEW d \in Direction
  PROVE  /\ Rules[r][d].own \in Nat /\ Rules[r][d].remove \in Nat
         /\ Rules[r][d].remove <= Rules[r][d].own
BY DEF Rules, CpuRules, MemRules, DiskReadRules, DiskWriteRules, EnergyRules, Direction

\* The thresholds that keep the processors and the energy from reversing.
LEMMA Thresholds ==
  ASSUME NEW r \in {"cpu", "energy"}
  PROVE  Rules[r].up.other = 2 /\ Rules[r].down.own = 6
BY DEF Rules, CpuRules, EnergyRules

\* At first nothing was raised, and a first reduction reverses nothing.
LEMMA GuardianInit == Init => GuardianInv
<1> SUFFICES ASSUME Init PROVE GuardianInv
  OBVIOUS
<1> USE LevelAssumption, EventsAssumption
<1>1. resource \in DOMAIN Rules
  BY DEF Init, Loaded, Rules
<1>2. TypeOK
  BY <1>1 DEF Init, TypeOK, Never, Enough
<1>3. FewHeld /\ NoHysteresis
  BY DEF Init, FewHeld, NoHysteresis, Never, Enough
<1> QED
  BY <1>2, <1>3 DEF GuardianInv

\* An underuse event that is held is counted since the last rescale up.
LEMMA GuardianObserve ==
  ASSUME GuardianInv, NEW d \in Direction, Observe(d)
  PROVE  GuardianInv'
<1> USE LevelAssumption, EventsAssumption DEF GuardianInv, Observe
<1>1. /\ UNCHANGED <<resource, bounds, allocated, reversal>>
      /\ events' = [events EXCEPT ![d] = @ + 1] /\ events[d] < MaxEvents
      /\ underuse' = IF d = "down" /\ underuse < Enough THEN underuse + 1 ELSE underuse
  OBVIOUS
<1>2. TypeOK'
  BY <1>1 DEF TypeOK, Direction, Never, Enough
<1>3. FewHeld'
  BY <1>1 DEF FewHeld, TypeOK, Direction, Never, Enough
<1>4. NoHysteresis'
  BY <1>1 DEF NoHysteresis
<1> QED
  BY <1>2, <1>3, <1>4

\* One that expires only makes them fewer.
LEMMA GuardianExpire ==
  ASSUME GuardianInv, NEW d \in Direction, Expire(d)
  PROVE  GuardianInv'
<1> USE LevelAssumption, EventsAssumption DEF GuardianInv, Expire
<1>1. TypeOK'
  BY DEF TypeOK, Direction
<1>2. FewHeld' /\ NoHysteresis'
  BY DEF FewHeld, NoHysteresis, TypeOK, Direction, Never
<1> QED
  BY <1>1, <1>2

\* A rescale up starts from two at most; one down needs six.
LEMMA GuardianRescale ==
  ASSUME GuardianInv, NEW d \in Direction, Rescale(d)
  PROVE  GuardianInv'
<1> USE LevelAssumption, EventsAssumption DEF GuardianInv
<1>1. /\ events' = [events EXCEPT ![d] = @ - Rules[resource][d].remove]
      /\ underuse' = (IF d = "up" THEN 0 ELSE Never)
      /\ reversal' = (IF d = "down" THEN underuse ELSE reversal)
      /\ UNCHANGED <<resource, bounds>>
      /\ events[d] >= Rules[resource][d].own
      /\ events[Other(d)] <= Rules[resource][d].other
  BY DEF Rescale, Matches
<1>2. allocated' \in Level
  BY DEF Rescale, TypeOK
<1>3. events' \in [Direction -> 0..MaxEvents]
  BY <1>1, RemovesWhatItNeeds DEF TypeOK
<1>4. TypeOK'
  BY <1>1, <1>2, <1>3 DEF TypeOK, Never, Enough
<1>5. FewHeld'
  <2> SUFFICES ASSUME resource \in {"cpu", "energy"}, d = "up"
               PROVE  events'["down"] <= 2
    BY <1>1 DEF FewHeld, Never, Enough, Direction
  <2> QED
    BY <1>1, Thresholds DEF Other, TypeOK, Direction
<1>6. NoHysteresis'
  <2> SUFFICES ASSUME resource \in {"cpu", "energy"}, d = "down"
               PROVE  underuse >= 4
    BY <1>1 DEF NoHysteresis, Direction
  <2>1. events["down"] >= 6
    BY <1>1, Thresholds
  <2> QED
    BY <2>1 DEF FewHeld, TypeOK, Direction, Never, Enough
<1> QED
  BY <1>4, <1>5, <1>6

\* Every step keeps the invariant.
LEMMA GuardianStep == GuardianInv /\ [Next]_vars => GuardianInv'
<1> SUFFICES ASSUME GuardianInv, [Next]_vars PROVE GuardianInv'
  OBVIOUS
<1>1. CASE Next
  BY <1>1, GuardianObserve, GuardianExpire, GuardianRescale DEF Next
<1>2. CASE UNCHANGED vars
  BY <1>2 DEF vars, GuardianInv, TypeOK, FewHeld, NoHysteresis
<1> QED
  BY <1>1, <1>2

LEMMA GuardianInvariance == Spec => []GuardianInv
BY GuardianInit, GuardianStep, PTL DEF Spec

-----------------------------------------------------------------------------
(* The handlers of the power meters *)

Waiting(t) == \E i \in 1..Len(ticks) : ticks[i] = t
OnItsWay(t) == {g \in Target \cup {All} : [tick |-> t, target |-> g] \in flight}

\* Nothing comes from a tick that the sensor has not measured, and none waits twice.
NothingAhead ==
  /\ \A i, k \in 1..Len(ticks) : ticks[i] = ticks[k] => i = k
  /\ \A r \in flight : r.tick <= tick
  /\ \A i \in 1..Len(ticks) : ticks[i] <= tick
  /\ last.tick <= tick
  /\ \A t \in 1..MaxTick : received[t] # {} <=> Waiting(t)

\* A model is of the events that were counted when it was learned.
OfItsEvents ==
  /\ formula = "selfwatts" /\ learnedFrom # {} => learnedFrom = coreEvents
  /\ formula # "selfwatts" =>
       learnedFrom \in {{}, sensorSet} /\ \A t \in 1..MaxTick : counted[t] = sensorSet

\* As long as no report came late, the ticks are in the order of time, Window of them
\* wait behind the one processed last, and reports of a tick are on their way, waiting,
\* or were processed with it.
InTime ==
  /\ \A i, k \in 1..Len(ticks) : i <= k => ticks[k] >= ticks[i] + (k - i)
  /\ \A t \in before : t < last.tick
  /\ last.tick # 0 =>
       /\ Len(ticks) = Window
       /\ \A i \in 1..Len(ticks) : ticks[i] >= last.tick + i
       /\ sent[last.tick] = last.targets \cup OnItsWay(last.tick)
       /\ last.targets \cap OnItsWay(last.tick) = {}
  /\ \A t \in (1..MaxTick) \ (before \cup {last.tick}) :
       sent[t] = received[t] \cup OnItsWay(t) /\ received[t] \cap OnItsWay(t) = {}

PowerInv ==
  /\ Power!TypeOK
  /\ NothingAhead
  /\ OfItsEvents
  /\ Power!ModelsMatch
  /\ late = 0 => InTime

LEMMA PowerInit == Power!Init => PowerInv
<1> SUFFICES ASSUME Power!Init PROVE PowerInv
  OBVIOUS
<1> USE PowerAssumption
<1>1. Power!TypeOK
  BY DEF Power!Init, Power!TypeOK, Power!Nothing, Power!None, Power!Report
<1>2. NothingAhead /\ OfItsEvents /\ Power!ModelsMatch
  BY DEF Power!Init, Power!Nothing, Power!None, NothingAhead, OfItsEvents, Power!ModelsMatch, Waiting
<1>3. InTime
  BY DEF Power!Init, Power!Nothing, Power!None, InTime, OnItsWay
<1> QED
  BY <1>1, <1>2, <1>3 DEF PowerInv

LEMMA PowerStay == PowerInv /\ UNCHANGED power => PowerInv'
<1> SUFFICES ASSUME PowerInv, UNCHANGED power PROVE PowerInv'
  OBVIOUS
<1> USE DEF power
<1>1. Power!TypeOK'
  BY DEF PowerInv, Power!TypeOK, Power!Report, Power!Nothing, Power!None, Power!Outcomes
<1>2. NothingAhead'
  BY DEF PowerInv, NothingAhead, Waiting
<1>3. OfItsEvents' /\ Power!ModelsMatch'
  BY DEF PowerInv, OfItsEvents, Power!ModelsMatch, Power!None
<1>4. ASSUME late = 0 PROVE InTime'
  <2>1. \A t \in 1..MaxTick \cup {last.tick} : OnItsWay(t)' = OnItsWay(t)
    BY DEF OnItsWay
  <2> QED
    BY <1>4, <2>1, ZenonT(30) DEF PowerInv, InTime
<1> QED
  BY <1>1, <1>2, <1>3, <1>4 DEF PowerInv

LEMMA PowerSense ==
  ASSUME PowerInv, Power!Sense
  PROVE  PowerInv'
<1> USE PowerAssumption
<1>1. PICK running \in SUBSET Target :
        /\ sent' = [sent EXCEPT ![tick + 1] = running \cup {All}]
        /\ flight' = flight \cup [tick : {tick + 1}, target : running \cup {All}]
  BY DEF Power!Sense
<1>2. /\ tick \in 0..MaxTick /\ tick < MaxTick /\ tick' = tick + 1 /\ tick + 1 \in 1..MaxTick
      /\ counted' = [t \in 1..MaxTick |-> IF t > tick THEN sensorSet ELSE counted[t]]
      /\ UNCHANGED <<formula, ticks, received, last, before, samples, learnedFrom, coreEvents,
                     wait, sensorSet, missing, late>>
  BY DEF Power!Sense, PowerInv, Power!TypeOK
<1>3. Power!TypeOK'
  <2>1. flight' \subseteq Power!Report
    BY <1>1, <1>2 DEF PowerInv, Power!TypeOK, Power!Report
  <2>2. /\ tick' \in 0..MaxTick
        /\ counted' \in [1..MaxTick -> Event]
        /\ sent' \in [1..MaxTick -> SUBSET (Target \cup {All})]
    BY <1>1, <1>2 DEF PowerInv, Power!TypeOK
  <2> QED
    BY <1>2, <2>1, <2>2 DEF PowerInv, Power!TypeOK, Power!Nothing, Power!None, Power!Outcomes
<1>4. last.tick \in 0..tick
  BY DEF PowerInv, Power!TypeOK, NothingAhead, Power!Nothing
<1>5. \A t \in 1..tick : counted'[t] = counted[t]
  BY <1>2
<1>6. NothingAhead'
  <2>1. \A r \in flight' : r.tick <= tick'
    BY <1>1, <1>2 DEF PowerInv, Power!TypeOK, NothingAhead, Power!Report
  <2>2. \A i \in 1..Len(ticks) : ticks[i] \in 1..MaxTick
    BY DEF PowerInv, Power!TypeOK
  <2>3. (\A i \in 1..Len(ticks) : ticks[i] <= tick) /\ tick \in Nat /\ tick' = tick + 1
    BY <1>2 DEF PowerInv, NothingAhead
  <2>4. \A i \in 1..Len(ticks') : ticks'[i] <= tick'
    BY <1>2, <2>2, <2>3
  <2>5. last'.tick <= tick'
    BY <1>2, <1>4
  <2>6. \A t \in 1..MaxTick : received'[t] # {} <=> Waiting(t)'
    BY <1>2 DEF PowerInv, NothingAhead, Waiting
  <2> QED
    BY <1>2, <2>1, <2>4, <2>5, <2>6 DEF PowerInv, NothingAhead
<1>7. OfItsEvents'
  BY <1>2 DEF PowerInv, OfItsEvents, Power!TypeOK
<1>8. Power!ModelsMatch'
  <2>1. last.tick = 0 => last.learnedFrom = {}
    BY DEF PowerInv, Power!TypeOK, Power!Nothing, Power!None
  <2> QED
    BY <1>2, <1>4, <1>5, <2>1 DEF PowerInv, Power!ModelsMatch, Power!None
<1>9. ASSUME late = 0 PROVE InTime'
  <2>1. OnItsWay(tick + 1) = {} /\ received[tick + 1] = {}
    <3>1. OnItsWay(tick + 1) = {}
      BY <1>2 DEF OnItsWay, PowerInv, NothingAhead
    <3>2. \A i \in 1..Len(ticks) : ticks[i] <= tick /\ ticks[i] \in 1..MaxTick
      BY DEF PowerInv, NothingAhead, Power!TypeOK
    <3>3. ~Waiting(tick + 1)
      BY <1>2, <3>2 DEF Waiting
    <3> QED
      BY <1>2, <3>1, <3>3 DEF PowerInv, NothingAhead
  <2>2. ASSUME NEW t \in 1..MaxTick PROVE OnItsWay(t)' = IF t = tick + 1 THEN running \cup {All} ELSE OnItsWay(t)
    BY <1>1, <1>2, <2>1 DEF OnItsWay
  <2>3. sent'[tick + 1] = running \cup {All} /\ \A t \in 1..tick : sent'[t] = sent[t]
    BY <1>1, <1>2 DEF PowerInv, Power!TypeOK
  <2>4. \A t \in 1..MaxTick : t # tick + 1 => sent'[t] = sent[t]
    BY <1>1, <1>2 DEF PowerInv, Power!TypeOK
  <2>5. last.tick # tick + 1
    BY <1>2, <1>4
  <2>6. InTime
    BY <1>9 DEF PowerInv
  <2>7. ASSUME last.tick # 0
        PROVE  sent'[last.tick] = sent[last.tick] /\ OnItsWay(last.tick)' = OnItsWay(last.tick)
    <3>1. last.tick \in 1..MaxTick
      BY <1>2, <1>4, <2>7
    <3>2. last' = last
      BY <1>2
    <3> QED
      BY <2>2, <2>4, <2>5, <3>1, <3>2 DEF OnItsWay
  <2>8. \A t \in (1..MaxTick) \ (before \cup {last.tick}) :
          sent'[t] = received[t] \cup OnItsWay(t)' /\ received[t] \cap OnItsWay(t)' = {}
    <3> SUFFICES ASSUME NEW t \in (1..MaxTick) \ (before \cup {last.tick})
                 PROVE  sent'[t] = received[t] \cup OnItsWay(t)' /\ received[t] \cap OnItsWay(t)' = {}
      OBVIOUS
    <3>1. CASE t = tick + 1
      BY <2>1, <2>2, <2>3, <3>1
    <3>2. CASE t # tick + 1
      BY <2>2, <2>4, <2>6, <3>2 DEF InTime
    <3> QED
      BY <3>1, <3>2
  <2> QED
    BY <1>2, <2>6, <2>7, <2>8 DEF InTime
<1> QED
  BY <1>2, <1>3, <1>6, <1>7, <1>8, <1>9 DEF PowerInv

LEMMA PowerLose ==
  ASSUME PowerInv, NEW r \in flight, Power!Lose(r)
  PROVE  PowerInv'
<1> USE PowerAssumption
<1>1. /\ flight' = flight \ {r} /\ missing < MaxMissing /\ missing' = missing + 1
      /\ sent' = [sent EXCEPT ![r.tick] = @ \ {r.target}]
      /\ UNCHANGED <<formula, tick, counted, ticks, received, last, before, samples,
                     learnedFrom, coreEvents, wait, sensorSet, late>>
  BY DEF Power!Lose
<1>2. r.tick \in 1..MaxTick /\ r.target \in Target \cup {All} /\ r = [tick |-> r.tick, target |-> r.target]
  BY DEF PowerInv, Power!TypeOK, Power!Report
<1>3. Power!TypeOK'
  <2>1. /\ sent' \in [1..MaxTick -> SUBSET (Target \cup {All})]
        /\ flight' \subseteq Power!Report /\ missing' \in 0..MaxMissing
    BY <1>1, <1>2, SMTT(30) DEF PowerInv, Power!TypeOK
  <2> QED
    BY <1>1, <2>1 DEF PowerInv, Power!TypeOK, Power!Report, Power!Nothing, Power!None, Power!Outcomes
<1>4. NothingAhead' /\ OfItsEvents' /\ Power!ModelsMatch'
  BY <1>1, SMTT(30) DEF PowerInv, NothingAhead, OfItsEvents, Power!ModelsMatch, Waiting, Power!None
<1>5. ASSUME late = 0 PROVE InTime'
  <2>1. \A t \in 1..MaxTick : OnItsWay(t)' = IF t = r.tick THEN OnItsWay(t) \ {r.target} ELSE OnItsWay(t)
    BY <1>1, <1>2 DEF OnItsWay
  <2>2. \A t \in 1..MaxTick : sent'[t] = IF t = r.tick THEN sent[t] \ {r.target} ELSE sent[t]
    BY <1>1, <1>2 DEF PowerInv, Power!TypeOK
  <2>3. r.target \in OnItsWay(r.tick)
    BY <1>2 DEF OnItsWay
  <2>4. last.tick \in 0..MaxTick
    BY DEF PowerInv, Power!TypeOK, Power!Nothing
  <2>5. /\ \A i, k \in 1..Len(ticks) : i <= k => ticks[k] >= ticks[i] + (k - i)
        /\ \A t \in before : t < last.tick
    BY <1>5 DEF PowerInv, InTime
  <2>6. last.tick # 0 =>
          /\ sent'[last.tick] = last.targets \cup OnItsWay(last.tick)'
          /\ last.targets \cap OnItsWay(last.tick)' = {}
    <3> SUFFICES ASSUME last.tick # 0
                 PROVE  /\ sent'[last.tick] = last.targets \cup OnItsWay(last.tick)'
                        /\ last.targets \cap OnItsWay(last.tick)' = {}
      OBVIOUS
    <3>1. /\ sent[last.tick] = last.targets \cup OnItsWay(last.tick)
          /\ last.targets \cap OnItsWay(last.tick) = {}
      BY <1>5 DEF PowerInv, InTime
    <3>2. OnItsWay(last.tick)' = IF last.tick = r.tick THEN OnItsWay(last.tick) \ {r.target} ELSE OnItsWay(last.tick)
      BY <2>1, <2>4, <1>1, SMTT(30)
    <3>3. last.tick \in 1..MaxTick
      BY <2>4
    <3>4. sent'[last.tick] = IF last.tick = r.tick THEN sent[last.tick] \ {r.target} ELSE sent[last.tick]
      BY <2>2, <3>3
    <3>5. last.tick = r.tick => r.target \in OnItsWay(last.tick)
      BY <2>3
    <3>6. CASE last.tick = r.tick
      BY <3>1, <3>2, <3>4, <3>5, <3>6
    <3>7. CASE last.tick # r.tick
      BY <3>1, <3>2, <3>4, <3>7
    <3> QED
      BY <3>6, <3>7
  <2>7. ASSUME NEW t \in (1..MaxTick) \ (before \cup {last.tick})
        PROVE  sent'[t] = received[t] \cup OnItsWay(t)' /\ received[t] \cap OnItsWay(t)' = {}
    <3>1. sent[t] = received[t] \cup OnItsWay(t) /\ received[t] \cap OnItsWay(t) = {}
      BY <1>5 DEF PowerInv, InTime
    <3>2. CASE t = r.tick
      <4>1. sent'[t] = sent[t] \ {r.target} /\ OnItsWay(t)' = OnItsWay(t) \ {r.target} /\ r.target \in OnItsWay(t)
        BY <2>1, <2>2, <2>3, <3>2
      <4> QED
        BY <3>1, <4>1
    <3>3. CASE t # r.tick
      <4>1. sent'[t] = sent[t] /\ OnItsWay(t)' = OnItsWay(t)
        BY <2>1, <2>2, <3>3
      <4> QED
        BY <3>1, <4>1
    <3> QED
      BY <3>2, <3>3
  <2>8. last.tick # 0 => Len(ticks) = Window /\ \A i \in 1..Len(ticks) : ticks[i] >= last.tick + i
    BY <1>5 DEF PowerInv, InTime
  <2> QED
    BY <1>1, <2>5, <2>6, <2>7, <2>8 DEF InTime
<1> QED
  BY <1>1, <1>3, <1>4, <1>5 DEF PowerInv

\* What processing a tick does: its events are those of the model it was given.
LEMMA PowerProcess ==
  ASSUME PowerInv, UNCHANGED <<formula, counted>>,
         NEW t \in 1..MaxTick, NEW targets \in SUBSET (Target \cup {All}), Power!Process(t, targets)
  PROVE  /\ last'.tick = t /\ last'.targets = targets
         /\ last' \in [tick : 1..MaxTick, targets : SUBSET (Target \cup {All}),
                       outcome : Power!Outcomes, learnedFrom : Event \cup {{}}]
         /\ before' = (before \cup {last.tick}) \ {0}
         /\ sent' = [u \in 1..MaxTick |-> IF u \in before' THEN {} ELSE sent[u]]
         /\ samples' \in 0..HistorySize
         /\ learnedFrom' \in Event \cup {{}} /\ coreEvents' \in Event \cup {{}}
         /\ wait' \in 0..HistorySize \div 2 /\ sensorSet' \in Event
         /\ last'.learnedFrom # {} => last'.learnedFrom = counted[t]
         /\ OfItsEvents'
<1> USE PowerAssumption
<1> DEFINE Model == /\ samples' \in 0..HistorySize
                    /\ learnedFrom' \in Event \cup {{}} /\ coreEvents' \in Event \cup {{}}
                    /\ wait' \in 0..HistorySize \div 2 /\ sensorSet' \in Event
                    /\ OfItsEvents'
<1>1. /\ samples \in 0..HistorySize /\ counted[t] \in Event /\ counted \in [1..MaxTick -> Event]
      /\ learnedFrom \in Event \cup {{}} /\ coreEvents \in Event \cup {{}}
      /\ wait \in 0..HistorySize \div 2 /\ sensorSet \in Event
  BY DEF PowerInv, Power!TypeOK, Power!None
<1>2. HistorySize \div 2 \in Nat
  OBVIOUS
<1>3. /\ Power!Flushed(t).samples \in 0..HistorySize
      /\ Power!Flushed(t).learnedFrom \in Event \cup {{}}
      /\ Power!Flushed(t).learnedFrom # {} => /\ Power!Flushed(t).learnedFrom = counted[t]
                                              /\ Power!Flushed(t).learnedFrom = learnedFrom
      /\ formula # "selfwatts" => Power!Flushed(t).learnedFrom = learnedFrom
  BY <1>1 DEF Power!Flushed, Power!None, PowerInv, OfItsEvents
<1>4. Power!More(Power!Flushed(t).samples) \in 0..HistorySize
  <2> HIDE DEF Power!Flushed
  <2> QED
    BY <1>3 DEF Power!More
<1>5. ASSUME NEW outcome \in Power!Outcomes, NEW from \in Event \cup {{}},
             Power!Record(t, targets, outcome, from), from # {} => from = counted[t]
      PROVE  /\ last'.tick = t /\ last'.targets = targets
             /\ last' \in [tick : 1..MaxTick, targets : SUBSET (Target \cup {All}),
                           outcome : Power!Outcomes, learnedFrom : Event \cup {{}}]
             /\ before' = (before \cup {last.tick}) \ {0}
             /\ sent' = [u \in 1..MaxTick |-> IF u \in before' THEN {} ELSE sent[u]]
             /\ last'.learnedFrom # {} => last'.learnedFrom = counted[t]
  BY <1>5 DEF Power!Record
<1>6. ASSUME Power!SameModel PROVE Model
  BY <1>1, <1>6 DEF Power!SameModel, PowerInv, OfItsEvents
<1>7. CASE \/ Power!Drop(t, targets) \/ Power!ProcessRapl(t, targets)
           \/ Power!NoFrequency(t, targets)
  <2>1. PICK outcome \in Power!Outcomes : Power!Record(t, targets, outcome, {})
    BY <1>7 DEF Power!Drop, Power!ProcessRapl, Power!NoFrequency, Power!Outcomes, Power!None
  <2>2. Model
    BY <1>6, <1>7 DEF Power!Drop, Power!ProcessRapl, Power!NoFrequency
  <2> QED
    BY <1>5, <2>1, <2>2
<1>8. CASE Power!Learn(t, targets)
  <2>1. Power!Record(t, targets, "rapl", {})
    BY <1>8 DEF Power!Learn, Power!None
  <2>2. /\ samples' \in 0..HistorySize /\ learnedFrom' \in {counted[t], {}}
        /\ coreEvents' = counted[t] /\ UNCHANGED <<wait, sensorSet>>
    BY <1>4, <1>8 DEF Power!Learn, Power!None
  <2>3. Model
    BY <1>1, <2>2 DEF PowerInv, OfItsEvents
  <2> QED
    BY <1>5, <2>1, <2>3 DEF Power!Outcomes
<1>9. CASE Power!Estimate(t, targets)
  <2>1. Power!Record(t, targets, "all", Power!Flushed(t).learnedFrom)
        /\ Power!Flushed(t).learnedFrom # {} /\ coreEvents' = counted[t]
    BY <1>9 DEF Power!Estimate, Power!None
  <2>2. PICK from \in Event \cup {{}} : from = Power!Flushed(t).learnedFrom
    BY <1>3
  <2>3. from = counted[t] /\ from = learnedFrom
    BY <1>3, <2>1, <2>2
  <2>4. /\ samples' \in 0..HistorySize
        /\ wait' \in 0..HistorySize \div 2
        /\ sensorSet' \in Event /\ (formula # "selfwatts" => sensorSet' = sensorSet)
        /\ learnedFrom' \in {from, {}}
    <3> HIDE DEF Power!Flushed
    <3> QED
      BY <1>1, <1>2, <1>4, <1>9, <2>2 DEF Power!Estimate, Power!None
  <2>5. Model
    BY <1>1, <2>1, <2>3, <2>4 DEF PowerInv, OfItsEvents
  <2>6. Power!Record(t, targets, "all", from)
    BY <2>1, <2>2
  <2> QED
    BY <1>5, <2>3, <2>5, <2>6 DEF Power!Outcomes
<1> QED
  BY <1>7, <1>8, <1>9 DEF Power!Process

\* The ticks with the one of a report that arrives.
LEMMA PowerKeys ==
  ASSUME PowerInv, NEW r \in flight, NEW keys, keys = Power!Keys(r)
  PROVE  /\ keys \in Seq(1..MaxTick) /\ Len(keys) \in 1..Window + 1
         /\ \A i \in 1..Len(keys) : keys[i] \in 1..MaxTick /\ keys[i] <= tick
         /\ \A i, k \in 1..Len(keys) : keys[i] = keys[k] => i = k
         /\ \A t \in 1..MaxTick : (\E i \in 1..Len(keys) : keys[i] = t) <=> Waiting(t) \/ t = r.tick
         /\ \/ Waiting(r.tick) /\ keys = ticks
            \/ /\ ~Waiting(r.tick)
               /\ Len(keys) = Len(ticks) + 1 /\ keys[Len(keys)] = r.tick
               /\ \A i \in 1..Len(ticks) : keys[i] = ticks[i]
<1> USE PowerAssumption
<1>1. r.tick \in 1..MaxTick /\ r.tick <= tick
  BY DEF PowerInv, NothingAhead, Power!TypeOK, Power!Report
<1>2. /\ ticks \in Seq(1..MaxTick) /\ Len(ticks) \in 0..Window
      /\ \A i \in 1..Len(ticks) : ticks[i] \in 1..MaxTick /\ ticks[i] <= tick
      /\ \A i, k \in 1..Len(ticks) : ticks[i] = ticks[k] => i = k
      /\ DOMAIN ticks = 1..Len(ticks)
  <2>1. ticks \in Seq(1..MaxTick) /\ Len(ticks) \in 0..Window /\ DOMAIN ticks = 1..Len(ticks)
    BY DEF PowerInv, Power!TypeOK
  <2>2. /\ \A i \in 1..Len(ticks) : ticks[i] <= tick
        /\ \A i, k \in 1..Len(ticks) : ticks[i] = ticks[k] => i = k
    BY DEF PowerInv, NothingAhead
  <2>3. \A i \in 1..Len(ticks) : ticks[i] \in 1..MaxTick
    BY <2>1, ElementOfSeq, Zenon
  <2> QED
    BY <2>1, <2>2, <2>3
<1>3. CASE Waiting(r.tick)
  <2>1. keys = ticks
    BY <1>2, <1>3 DEF Power!Keys, Waiting
  <2>2. Len(ticks) >= 1
    BY <1>2, <1>3 DEF Waiting
  <2>3. \A t \in 1..MaxTick : (\E i \in 1..Len(keys) : keys[i] = t) <=> Waiting(t) \/ t = r.tick
    <3>1. \A t : (\E i \in 1..Len(keys) : keys[i] = t) <=> Waiting(t)
      BY <2>1 DEF Waiting
    <3> QED
      BY <1>3, <3>1
  <2>4. Len(ticks) \in 1..Window + 1
    BY <1>2, <2>2
  <2> QED
    BY <1>2, <1>3, <2>1, <2>3, <2>4, ZenonT(30)
<1>4. CASE ~Waiting(r.tick)
  <2>1. keys = Append(ticks, r.tick)
    BY <1>2, <1>4 DEF Power!Keys, Waiting
  <2>2. /\ Len(keys) = Len(ticks) + 1 /\ keys[Len(keys)] = r.tick
        /\ \A i \in 1..Len(ticks) : keys[i] = ticks[i]
        /\ keys \in Seq(1..MaxTick)
    BY <1>1, <1>2, <2>1
  <2>3. \A i \in 1..Len(keys) : i \in 1..Len(ticks) \/ i = Len(keys)
    BY <1>2, <2>2
  <2>4. \A i \in 1..Len(ticks) : ticks[i] # r.tick
    BY <1>4 DEF Waiting
  <2>5. Len(keys) \in 1..Len(keys) /\ \A i \in 1..Len(ticks) : i \in 1..Len(keys) /\ i # Len(keys)
    BY <1>2, <2>2
  <2>6. \A i \in 1..Len(keys) : keys[i] \in 1..MaxTick /\ keys[i] <= tick
    BY <1>1, <1>2, <2>2, <2>3
  <2>7. \A i, k \in 1..Len(keys) : keys[i] = keys[k] => i = k
    <3> SUFFICES ASSUME NEW i \in 1..Len(keys), NEW k \in 1..Len(keys), keys[i] = keys[k]
                 PROVE  i = k
      OBVIOUS
    <3>1. CASE i \in 1..Len(ticks) /\ k \in 1..Len(ticks)
      BY <1>2, <2>2, <3>1
    <3>2. CASE i = Len(keys) \/ k = Len(keys)
      <4>1. \A l \in 1..Len(keys) : keys[l] = r.tick => l = Len(keys)
        BY <2>2, <2>3, <2>4
      <4> QED
        BY <2>2, <3>2, <4>1
    <3> QED
      BY <2>3, <3>1, <3>2
  <2>8. \A t \in 1..MaxTick : (\E i \in 1..Len(keys) : keys[i] = t) <=> Waiting(t) \/ t = r.tick
    BY <2>2, <2>3, <2>5 DEF Waiting
  <2> QED
    BY <1>2, <1>4, <2>2, <2>6, <2>7, <2>8
<1> QED
  BY <1>3, <1>4

\* A report that is not late opens a tick behind all the others.
LEMMA PowerOpens ==
  ASSUME PowerInv, late = 0, NEW r \in flight, ~Power!IsLate(r), ~Waiting(r.tick)
  PROVE  /\ r.tick \notin before \cup {last.tick}
         /\ \A i \in 1..Len(ticks) : ticks[i] < r.tick
         /\ last.tick < r.tick
<1> USE PowerAssumption
<1>1. r.tick \in 1..MaxTick /\ last.tick \in 0..MaxTick /\ before \subseteq 1..MaxTick
  BY DEF PowerInv, Power!TypeOK, Power!Report, Power!Nothing
<1>2. \A i \in 1..Len(ticks) : ticks[i] \in 1..MaxTick /\ Power!Seen(ticks[i])
  BY SMTT(30) DEF PowerInv, NothingAhead, Power!TypeOK, Power!Seen, Waiting
<1>3. ASSUME r.tick \in before \cup {last.tick} PROVE FALSE
  <2>1. last.tick # 0 /\ r.tick <= last.tick
    BY <1>1, <1>3 DEF PowerInv, InTime
  <2>2. Len(ticks) = Window /\ ticks[Window] >= last.tick + Window
    BY <2>1 DEF PowerInv, InTime
  <2>3. ticks[Window] \in 1..MaxTick /\ Power!Seen(ticks[Window])
    BY <1>2, <2>2
  <2>4. ticks[Window] \in r.tick + Window..MaxTick
    BY <1>1, <2>1, <2>2, <2>3
  <2> QED
    BY <2>3, <2>4 DEF Power!IsLate
<1>4. received[r.tick] = {}
  BY <1>1 DEF PowerInv, NothingAhead
<1>5. ~Power!Seen(r.tick)
  BY <1>3, <1>4 DEF Power!Seen
<1>6. \A t \in r.tick + 1..MaxTick : ~Power!Seen(t)
  BY <1>5 DEF Power!IsLate
<1>7. ASSUME NEW i \in 1..Len(ticks) PROVE ticks[i] < r.tick
  <2>1. ticks[i] # r.tick
    BY <1>7 DEF Waiting
  <2>2. ticks[i] \notin r.tick + 1..MaxTick
    BY <1>2, <1>6, <1>7
  <2> QED
    BY <1>1, <1>2, <2>1, <2>2
<1>8. last.tick < r.tick
  <2>1. last.tick \notin r.tick + 1..MaxTick
    BY <1>6 DEF Power!Seen
  <2> QED
    BY <1>1, <1>3, <2>1
<1> QED
  BY <1>3, <1>7, <1>8

LEMMA PowerReceive ==
  ASSUME PowerInv, NEW r \in flight, Power!Receive(r)
  PROVE  PowerInv'
<1> USE PowerAssumption
<1> DEFINE whole == [received EXCEPT ![r.tick] = @ \cup {r.target}]
<1>0. PICK keys : keys = Power!Keys(r)
  OBVIOUS
<1>1. /\ keys \in Seq(1..MaxTick) /\ Len(keys) \in 1..Window + 1
      /\ \A i \in 1..Len(keys) : keys[i] \in 1..MaxTick /\ keys[i] <= tick
      /\ \A i, k \in 1..Len(keys) : keys[i] = keys[k] => i = k
      /\ \A t \in 1..MaxTick : (\E i \in 1..Len(keys) : keys[i] = t) <=> Waiting(t) \/ t = r.tick
      /\ \/ Waiting(r.tick) /\ keys = ticks
         \/ /\ ~Waiting(r.tick)
            /\ Len(keys) = Len(ticks) + 1 /\ keys[Len(keys)] = r.tick
            /\ \A i \in 1..Len(ticks) : keys[i] = ticks[i]
  BY <1>0, PowerKeys, SMTT(30)
<1>2. /\ flight' = flight \ {r} /\ UNCHANGED <<formula, tick, counted, missing>>
      /\ IF Power!IsLate(r) THEN late < MaxLate /\ late' = late + 1 ELSE UNCHANGED late
  BY DEF Power!Receive
<1>3. \/ /\ Len(keys) <= Window /\ ticks' = keys /\ received' = whole
         /\ UNCHANGED <<last, before, sent>> /\ Power!SameModel
      \/ /\ Len(keys) = Window + 1 /\ ticks' = Tail(keys)
         /\ received' = [whole EXCEPT ![Head(keys)] = {}]
         /\ Power!Process(Head(keys), whole[Head(keys)])
  BY <1>0, <1>1, SMTT(30) DEF Power!Receive
<1>4. /\ r.tick \in 1..MaxTick /\ r.target \in Target \cup {All}
      /\ r = [tick |-> r.tick, target |-> r.target]
      /\ tick \in 0..MaxTick /\ late \in 0..MaxLate
      /\ received \in [1..MaxTick -> SUBSET (Target \cup {All})]
      /\ last.tick \in 0..MaxTick /\ before \subseteq 1..MaxTick
      /\ Len(ticks) \in Nat
  BY DEF PowerInv, Power!TypeOK, Power!Report, Power!Nothing
<1>5. /\ whole \in [1..MaxTick -> SUBSET (Target \cup {All})]
      /\ \A t \in 1..MaxTick : whole[t] = IF t = r.tick THEN received[t] \cup {r.target} ELSE received[t]
  BY <1>4
<1> HIDE DEF whole
<1>6. flight' \subseteq Power!Report /\ late' \in 0..MaxLate /\ \A q \in flight' : q.tick <= tick'
  BY <1>2, <1>4 DEF PowerInv, NothingAhead, Power!TypeOK, Power!Report
<1>7. \A t \in 1..MaxTick : whole[t] # {} <=> \E i \in 1..Len(keys) : keys[i] = t
  <2>1. \A t \in 1..MaxTick : received[t] # {} <=> Waiting(t)
    BY DEF PowerInv, NothingAhead
  <2>2. \A t \in 1..MaxTick : whole[t] # {} <=> Waiting(t) \/ t = r.tick
    BY <1>5, <2>1
  <2> QED
    BY <1>1, <2>2
<1>8. \A t \in 1..MaxTick : OnItsWay(t)' = IF t = r.tick THEN OnItsWay(t) \ {r.target} ELSE OnItsWay(t)
  BY <1>2, <1>4 DEF OnItsWay
<1>9. r.target \in OnItsWay(r.tick)
  BY <1>4 DEF OnItsWay
\* With no report late yet, the ticks are in order.
<1>10. ASSUME late' = 0
       PROVE  /\ InTime
              /\ ~Waiting(r.tick) => /\ r.tick \notin before \cup {last.tick}
                                     /\ \A i \in 1..Len(ticks) : ticks[i] < r.tick
              /\ \A i, k \in 1..Len(keys) : i <= k => keys[k] >= keys[i] + (k - i)
  <2>1. late = 0 /\ ~Power!IsLate(r)
    BY <1>2, <1>4, <1>10
  <2>2. ~Waiting(r.tick) => /\ r.tick \notin before \cup {last.tick}
                            /\ \A i \in 1..Len(ticks) : ticks[i] < r.tick
    BY <2>1, PowerOpens
  <2>3. InTime
    BY <2>1 DEF PowerInv
  <2>4. CASE Waiting(r.tick)
    BY <1>1, <2>3, <2>4 DEF InTime
  <2>5. CASE ~Waiting(r.tick)
    <3> SUFFICES ASSUME NEW i \in 1..Len(keys), NEW k \in 1..Len(keys), i <= k
                 PROVE  keys[k] >= keys[i] + (k - i)
      BY <2>2, <2>3
    <3>1. \A m \in 1..Len(ticks) : keys[m] = ticks[m] /\ ticks[m] < r.tick
      BY <1>1, <2>2, <2>5
    <3>2. Len(keys) = Len(ticks) + 1 /\ keys[Len(keys)] = r.tick
      BY <1>1, <2>5
    <3>3. \A m, n \in 1..Len(ticks) : m <= n => ticks[n] >= ticks[m] + (n - m)
      BY <2>3 DEF InTime
    <3>4. keys[i] \in Nat /\ keys[k] \in Nat
      BY <1>1
    <3>5. CASE k # Len(keys)
      <4>1. i \in 1..Len(ticks) /\ k \in 1..Len(ticks)
        BY <1>4, <3>2, <3>5, SMTT(30)
      <4>2. ticks[k] >= ticks[i] + (k - i)
        BY <3>3, <4>1
      <4> QED
        BY <3>1, <4>1, <4>2
    <3>6. CASE k = Len(keys) /\ i # k
      <4>1. i \in 1..Len(ticks) /\ Len(ticks) \in 1..Len(ticks)
        BY <1>4, <3>2, <3>6, SMTT(30)
      <4>2. ticks[Len(ticks)] >= ticks[i] + (Len(ticks) - i) /\ ticks[Len(ticks)] < r.tick
        BY <3>1, <3>3, <4>1
      <4>3. keys[i] = ticks[i] /\ keys[k] = r.tick /\ k = Len(ticks) + 1
        BY <3>1, <3>2, <3>6, <4>1
      <4>4. ticks[Len(ticks)] \in 1..MaxTick
        BY <4>1 DEF PowerInv, Power!TypeOK
      <4> QED
        <5>1. r.tick >= ticks[i] + ((Len(ticks) + 1) - i)
          <6>1. ticks[i] \in Nat /\ ticks[Len(ticks)] \in Nat /\ r.tick \in Nat
            BY <1>4, <3>4, <4>3, <4>4, SMTT(30)
          <6>2. i \in Nat /\ Len(ticks) \in Nat
            BY <1>4
          <6> HIDE DEF whole
          <6> QED
            BY <4>2, <6>1, <6>2
        <5> QED
          BY <4>3, <5>1
    <3>7. CASE i = k
      BY <3>4, <3>7
    <3> QED
      BY <3>5, <3>6, <3>7
  <2> QED
    BY <2>2, <2>3, <2>4, <2>5
<1>11. CASE /\ Len(keys) <= Window /\ ticks' = keys /\ received' = whole
            /\ UNCHANGED <<last, before, sent>> /\ Power!SameModel
  <2>1. Power!TypeOK'
    BY <1>1, <1>2, <1>5, <1>6, <1>11 DEF PowerInv, Power!TypeOK, Power!SameModel, Power!Report,
       Power!Nothing, Power!None, Power!Outcomes
  <2>2. NothingAhead'
    <3>1. \A t \in 1..MaxTick : received'[t] # {} <=> Waiting(t)'
      BY <1>7, <1>11 DEF Waiting
    <3>2. last'.tick <= tick'
      BY <1>2, <1>11 DEF PowerInv, NothingAhead
    <3>3. \A i \in 1..Len(ticks') : ticks'[i] <= tick'
      BY <1>1, <1>2, <1>11
    <3>4. \A i, k \in 1..Len(ticks') : ticks'[i] = ticks'[k] => i = k
      BY <1>1, <1>11
    <3> QED
      BY <1>6, <3>1, <3>2, <3>3, <3>4 DEF NothingAhead
  <2>3. OfItsEvents' /\ Power!ModelsMatch'
    BY <1>2, <1>11 DEF PowerInv, OfItsEvents, Power!ModelsMatch, Power!SameModel, Power!None
  <2>4. ASSUME late' = 0 PROVE InTime'
    <3>1. InTime /\ \A i, k \in 1..Len(keys) : i <= k => keys[k] >= keys[i] + (k - i)
      BY <1>10, <2>4
    <3>2. \A t \in before : t < last.tick
      BY <3>1 DEF InTime
    <3>3. ASSUME NEW t \in (1..MaxTick) \ (before \cup {last.tick})
          PROVE  sent[t] = whole[t] \cup OnItsWay(t)' /\ whole[t] \cap OnItsWay(t)' = {}
      <4>1. sent[t] = received[t] \cup OnItsWay(t) /\ received[t] \cap OnItsWay(t) = {}
        BY <3>1 DEF InTime
      <4>2. CASE t = r.tick
        <5>1. whole[t] = received[t] \cup {r.target} /\ OnItsWay(t)' = OnItsWay(t) \ {r.target}
          BY <1>5, <1>8, <4>2
        <5> QED
          BY <1>9, <4>1, <4>2, <5>1
      <4>3. CASE t # r.tick
        BY <1>5, <1>8, <4>1, <4>3
      <4> QED
        BY <4>2, <4>3
    <3>4. ASSUME last.tick # 0
          PROVE  /\ Len(keys) = Window
                 /\ \A i \in 1..Len(keys) : keys[i] >= last.tick + i
                 /\ sent[last.tick] = last.targets \cup OnItsWay(last.tick)'
                 /\ last.targets \cap OnItsWay(last.tick)' = {}
      <4>1. /\ Len(ticks) = Window
            /\ \A i \in 1..Len(ticks) : ticks[i] >= last.tick + i
            /\ sent[last.tick] = last.targets \cup OnItsWay(last.tick)
            /\ last.targets \cap OnItsWay(last.tick) = {}
        BY <3>1, <3>4 DEF InTime
      <4>2. Waiting(r.tick) /\ keys = ticks
        BY <1>1, <1>11, <4>1
      <4>3. last.tick # r.tick
        <5>1. PICK i \in 1..Len(ticks) : ticks[i] = r.tick
          BY <4>2 DEF Waiting
        <5>2. r.tick >= last.tick + i /\ i >= 1
          BY <4>1, <5>1
        <5> QED
          BY <1>4, <5>2
      <4>4. OnItsWay(last.tick)' = OnItsWay(last.tick)
        BY <1>4, <1>8, <1>11, <3>4, <4>3
      <4> QED
        BY <4>1, <4>2, <4>4
    <3> QED
      BY <1>11, <3>1, <3>2, <3>3, <3>4 DEF InTime
  <2> QED
    BY <2>1, <2>2, <2>3, <2>4 DEF PowerInv
<1>12. CASE /\ Len(keys) = Window + 1 /\ ticks' = Tail(keys)
            /\ received' = [whole EXCEPT ![Head(keys)] = {}]
            /\ Power!Process(Head(keys), whole[Head(keys)])
  <2>0. PICK h \in 1..MaxTick : h = keys[1] /\ h = Head(keys)
    BY <1>1
  <2>1. /\ last'.tick = h /\ last'.targets = whole[h]
        /\ last' \in [tick : 1..MaxTick, targets : SUBSET (Target \cup {All}),
                      outcome : Power!Outcomes, learnedFrom : Event \cup {{}}]
        /\ before' = (before \cup {last.tick}) \ {0}
        /\ sent' = [u \in 1..MaxTick |-> IF u \in before' THEN {} ELSE sent[u]]
        /\ samples' \in 0..HistorySize
        /\ learnedFrom' \in Event \cup {{}} /\ coreEvents' \in Event \cup {{}}
        /\ wait' \in 0..HistorySize \div 2 /\ sensorSet' \in Event
        /\ last'.learnedFrom # {} => last'.learnedFrom = counted[h]
        /\ OfItsEvents'
    <3>1. whole[h] \in SUBSET (Target \cup {All})
      BY <1>5
    <3>2. Power!Process(h, whole[h]) /\ UNCHANGED <<formula, counted>>
      BY <1>2, <1>12, <2>0
    <3> QED
      BY <3>1, <3>2, PowerProcess
  <2>2. /\ ticks' \in Seq(1..MaxTick) /\ Len(ticks') = Window
        /\ \A i \in 1..Window : i + 1 \in 1..Len(keys) /\ ticks'[i] = keys[i + 1]
    BY <1>1, <1>12
  <2>3. \A t \in 1..MaxTick : received'[t] = IF t = h THEN {} ELSE whole[t]
    BY <1>5, <1>12, <2>0
  <2>4. /\ before' \subseteq 1..MaxTick
        /\ sent' \in [1..MaxTick -> SUBSET (Target \cup {All})]
        /\ received' \in [1..MaxTick -> SUBSET (Target \cup {All})]
    <3>1. sent \in [1..MaxTick -> SUBSET (Target \cup {All})]
      BY DEF PowerInv, Power!TypeOK
    <3> QED
      <4>1. \A u \in 1..MaxTick : (IF u \in before' THEN {} ELSE sent[u]) \in SUBSET (Target \cup {All})
        BY <3>1
      <4>2. sent' \in [1..MaxTick -> SUBSET (Target \cup {All})]
        BY <2>1, <4>1
      <4>3. before' \subseteq 1..MaxTick
        <5>1. before' \subseteq before \cup {last.tick} /\ 0 \notin before'
          BY <2>1
        <5> QED
          BY <1>4, <5>1
      <4>4. received' \in [1..MaxTick -> SUBSET (Target \cup {All})]
        BY <1>5, <1>12
      <4> QED
        BY <4>2, <4>3, <4>4
  <2>5. Power!TypeOK'
    <3>1. /\ formula \in Formula /\ tick \in 0..MaxTick /\ counted \in [1..MaxTick -> Event]
          /\ missing \in 0..MaxMissing
      BY DEF PowerInv, Power!TypeOK
    <3>2. last' \in {Power!Nothing} \cup [tick : 1..MaxTick, targets : SUBSET (Target \cup {All}),
                                          outcome : Power!Outcomes, learnedFrom : Event \cup {{}}]
      BY <2>1
    <3>3. Len(ticks') <= Window
      BY <2>2
    <3> QED
      BY <1>2, <1>6, <2>1, <2>2, <2>4, <3>1, <3>2, <3>3 DEF Power!TypeOK, Power!Report, Power!Nothing,
         Power!None, Power!Outcomes
  <2>6. NothingAhead'
    <3>1. ASSUME NEW t \in 1..MaxTick PROVE received'[t] # {} <=> Waiting(t)'
      <4>1. CASE t = h
        <5>1. ASSUME NEW i \in 1..Window PROVE ticks'[i] # h
          <6>1. 1 \in 1..Len(keys) /\ i + 1 \in 1..Len(keys) /\ i + 1 # 1
            BY <1>1, <2>2
          <6>2. keys[i + 1] # keys[1]
            BY <1>1, <6>1
          <6> QED
            BY <2>0, <2>2, <6>2
        <5> QED
          BY <2>2, <2>3, <4>1, <5>1 DEF Waiting
      <4>2. CASE t # h
        <5>1. Waiting(t)' <=> \E i \in 1..Len(keys) : keys[i] = t
          <6>1. ASSUME NEW i \in 1..Len(keys), keys[i] = t PROVE Waiting(t)'
            <7>1. i # 1 /\ i - 1 \in 1..Window
              BY <1>12, <2>0, <4>2, <6>1
            <7>2. ticks'[i - 1] = keys[(i - 1) + 1] /\ (i - 1) + 1 = i
              BY <2>2, <7>1
            <7> QED
              BY <2>2, <6>1, <7>1, <7>2 DEF Waiting
          <6>2. ASSUME Waiting(t)' PROVE \E i \in 1..Len(keys) : keys[i] = t
            BY <2>2, <6>2 DEF Waiting
          <6> QED
            BY <6>1, <6>2
        <5> QED
          BY <1>7, <2>3, <4>2, <5>1
      <4> QED
        BY <4>1, <4>2
    <3>2. last'.tick <= tick'
      BY <1>1, <1>2, <2>0, <2>1
    <3>3. \A i \in 1..Len(ticks') : ticks'[i] <= tick'
      BY <1>1, <1>2, <2>2
    <3>4. \A i, k \in 1..Len(ticks') : ticks'[i] = ticks'[k] => i = k
      <4> SUFFICES ASSUME NEW i \in 1..Window, NEW k \in 1..Window, keys[i + 1] = keys[k + 1]
                   PROVE  i = k
        BY <2>2
      <4>1. i + 1 \in 1..Len(keys) /\ k + 1 \in 1..Len(keys)
        BY <2>2
      <4>2. i + 1 = k + 1
        BY <1>1, <4>1
      <4> QED
        BY <4>2
    <3> QED
      BY <1>6, <3>1, <3>2, <3>3, <3>4 DEF NothingAhead
  <2>7. Power!ModelsMatch'
    BY <1>2, <2>1 DEF Power!ModelsMatch, Power!None
  <2>8. ASSUME late' = 0 PROVE InTime'
    <3>1. /\ InTime
          /\ ~Waiting(r.tick) => r.tick \notin before \cup {last.tick}
          /\ \A i, k \in 1..Len(keys) : i <= k => keys[k] >= keys[i] + (k - i)
      BY <1>10, <2>8
    <3>2. /\ ~Waiting(r.tick) /\ Len(ticks) = Window /\ r.tick = keys[Len(keys)]
          /\ h = ticks[1] /\ h # r.tick
      <4>1. Len(ticks) <= Window
        BY DEF PowerInv, Power!TypeOK
      <4>2. ~Waiting(r.tick) /\ Len(keys) = Len(ticks) + 1 /\ keys[Len(keys)] = r.tick
            /\ \A i \in 1..Len(ticks) : keys[i] = ticks[i]
        BY <1>1, <1>12, <4>1
      <4>3. Len(ticks) = Window /\ 1 \in 1..Len(ticks) /\ 1 \in 1..Len(keys) /\ Len(keys) \in 1..Len(keys)
            /\ 1 # Len(keys)
        <5>1. Len(ticks) = Window /\ Window \in Nat \ {0} /\ Len(keys) = Window + 1
          BY <1>4, <1>12, <4>2
        <5> QED
          BY <5>1
      <4> QED
        BY <1>1, <2>0, <4>2, <4>3
    <3>3. last.tick < h /\ h \notin before
      <4>1. last.tick # 0 => h >= last.tick + 1
        BY <3>1, <3>2 DEF InTime
      <4>2. \A t \in before : t < last.tick
        BY <3>1 DEF InTime
      <4> QED
        BY <1>4, <4>1, <4>2, SMTT(30)
    <3>4. \A t \in before' : t < h
      <4>1. \A t \in before : t < last.tick /\ t \in 1..MaxTick
        BY <1>4, <3>1 DEF InTime
      <4>2. \A t \in before' : t \in before \/ t = last.tick
        BY <2>1
      <4> QED
        BY <1>4, <3>3, <4>1, <4>2
    <3>5. \A i, k \in 1..Window : i <= k => ticks'[k] >= ticks'[i] + (k - i)
      <4> SUFFICES ASSUME NEW i \in 1..Window, NEW k \in 1..Window, i <= k
                   PROVE  ticks'[k] >= ticks'[i] + (k - i)
        OBVIOUS
      <4>0. i + 1 \in 1..Len(keys) /\ k + 1 \in 1..Len(keys) /\ i + 1 <= k + 1
        <5>1. \A l \in 1..Window : l + 1 \in 1..Len(keys)
          BY <2>2
        <5>2. i \in Int /\ k \in Int
          OBVIOUS
        <5> QED
          BY <5>1, <5>2
      <4>1. keys[k + 1] >= keys[i + 1] + ((k + 1) - (i + 1))
        BY <3>1, <4>0
      <4>2. \A l \in 1..Len(keys) : keys[l] \in Nat
        BY <1>1
      <4>3. ticks'[k] = keys[k + 1] /\ ticks'[i] = keys[i + 1]
        BY <2>2
      <4>4. (k + 1) - (i + 1) = k - i
        OBVIOUS
      <4> QED
        BY <4>0, <4>1, <4>2, <4>3, <4>4
    <3>6. \A i \in 1..Window : ticks'[i] >= h + i
      <4> SUFFICES ASSUME NEW i \in 1..Window PROVE ticks'[i] >= h + i
        OBVIOUS
      <4>1. 1 \in 1..Len(keys) /\ i + 1 \in 1..Len(keys) /\ 1 <= i + 1
        BY <1>1, <2>2
      <4>2. keys[i + 1] >= keys[1] + ((i + 1) - 1)
        BY <3>1, <4>1
      <4>3. keys[i + 1] \in Nat
        BY <1>1, <4>1
      <4> QED
        BY <2>0, <2>2, <4>2, <4>3
    <3>7. ASSUME NEW t \in (1..MaxTick) \ (before \cup {last.tick})
          PROVE  /\ sent'[t] = whole[t] \cup OnItsWay(t)' /\ whole[t] \cap OnItsWay(t)' = {}
      <4>1. sent[t] = received[t] \cup OnItsWay(t) /\ received[t] \cap OnItsWay(t) = {}
        BY <3>1 DEF InTime
      <4>2. sent'[t] = sent[t]
        BY <2>1
      <4>3. CASE t = r.tick
        <5>1. whole[t] = received[t] \cup {r.target} /\ OnItsWay(t)' = OnItsWay(t) \ {r.target}
          BY <1>5, <1>8, <4>3
        <5> QED
          BY <1>9, <4>1, <4>2, <4>3, <5>1
      <4>4. CASE t # r.tick
        BY <1>5, <1>8, <4>1, <4>2, <4>4
      <4> QED
        BY <4>3, <4>4
    <3>8. /\ sent'[last'.tick] = last'.targets \cup OnItsWay(last.tick)'
          /\ last'.targets \cap OnItsWay(last.tick)' = {}
      <4>1. h \in (1..MaxTick) \ (before \cup {last.tick})
        BY <1>4, <3>3
      <4>2. sent'[h] = whole[h] \cup OnItsWay(h)' /\ whole[h] \cap OnItsWay(h)' = {}
        BY <3>7, <4>1
      <4>3. OnItsWay(last.tick)' = OnItsWay(h)'
        BY <2>1 DEF OnItsWay
      <4> QED
        BY <2>1, <4>2, <4>3
    <3>9. ASSUME NEW t \in (1..MaxTick) \ (before' \cup {last'.tick})
          PROVE  /\ sent'[t] = received'[t] \cup OnItsWay(t)' /\ received'[t] \cap OnItsWay(t)' = {}
      <4>1. t \in (1..MaxTick) \ (before \cup {last.tick}) /\ t # h
        BY <2>1
      <4> QED
        BY <2>3, <3>7, <4>1
    <3> QED
      <4>1. last'.tick = h /\ Len(ticks') = Window
        BY <2>1, <2>2
      <4> QED
        BY <3>4, <3>5, <3>6, <3>8, <3>9, <4>1 DEF InTime
  <2> QED
    BY <2>1, <2>5, <2>6, <2>7, <2>8 DEF PowerInv
<1> QED
  BY <1>3, <1>11, <1>12

LEMMA PowerStep == PowerInv /\ Power!Next => PowerInv'
BY PowerSense, PowerLose, PowerReceive DEF Power!Next

LEMMA PowerEnds == PowerInv => Power!PowerOfItsTick
<1> SUFFICES ASSUME PowerInv, late = 0, \A r \in flight : ~Power!IsLate(r), last # Power!Nothing
             PROVE  /\ \A t \in before : t < last.tick
                    /\ last.targets = sent[last.tick]
  BY DEF PowerInv, Power!PowerOfItsTick, Power!TicksWhole
<1> USE PowerAssumption
<1>1. last.tick \in 1..MaxTick /\ InTime
  BY DEF PowerInv, Power!TypeOK
<1>2. /\ Len(ticks) = Window /\ ticks[Window] >= last.tick + Window
      /\ sent[last.tick] = last.targets \cup OnItsWay(last.tick)
  BY <1>1 DEF InTime
<1>3. ticks[Window] \in 1..MaxTick /\ Power!Seen(ticks[Window])
  BY <1>2, SMTT(30) DEF PowerInv, NothingAhead, Power!TypeOK, Power!Seen, Waiting
<1>4. OnItsWay(last.tick) = {}
  <2> SUFFICES ASSUME NEW r \in flight, r.tick = last.tick PROVE FALSE
    BY DEF OnItsWay
  <2>1. ticks[Window] \in r.tick + Window..MaxTick
    BY <1>1, <1>2, <1>3
  <2> QED
    BY <1>3, <2>1 DEF Power!IsLate
<1> QED
  BY <1>1, <1>2, <1>4 DEF InTime

-----------------------------------------------------------------------------
(* The copy between two HDFS *)

LEMMA LeastNumber ==
  ASSUME NEW S \in SUBSET Nat, S # {}
  PROVE  \E n \in S : \A m \in S : n <= m
<1>1. PICK n \in S : \A m \in S : ~(<<m, n>> \in OpToRel(<, Nat))
  BY NatLessThanWellFounded, WFMin
<1>2. \A m \in S : ~(m < n)
  BY <1>1 DEF OpToRel
<1> QED
  BY <1>2

Active == {"mapping", "committing", "aborting", "undoing"}

\* One job at a time; the committer deletes or renames one file at a time.
OneCopies ==
  /\ \A i \in Job : job[i] \in Active => latest = {i}
  /\ \A i \in clean : job[i] # "waiting"
  /\ \A i \in Job : job[i] = "mapping" =>
       /\ writing \subseteq Copy!Splits(i) \ copied /\ copied \subseteq Copy!Splits(i)
       /\ writing \subseteq Copy!Existing
       /\ \A k \in Copy!Split : tries[k] < MaxAttempts
  /\ (\A i \in Job : job[i] # "mapping") => writing = {}
  /\ (\A i \in Job : job[i] # "committing") => plan = {} /\ renamed = {} /\ deleted = {}
  /\ plan \subseteq Copy!Existing
  /\ \A f \in deleted : Copy!PartsOf(f) # {}
  /\ \A f, g \in renamed \cup deleted : f = g
  /\ renamed = {} \/ deleted = {}

\* The pieces of a file that job i copies chunk by chunk.
Asked(i, f) == f \notin Hidden /\ source[i][f] > 0
PieceAt(i, n) == [job |-> {i}, whole |-> TRUE, offset |-> n]
AllParts(i, f) == {f} \X (0..(source[i][f] - 1))

\* A file that the committer of i has not touched, has deleted, has begun, has done.
Untouched(i, f) ==
  files[f] = found[f] /\ Copy!PartsOf(f) = AllParts(i, f) /\ f \notin renamed \cup deleted
Missing(i, f) ==
  files[f] = <<>> /\ Copy!PartsOf(f) = AllParts(i, f) /\ f \in deleted
Begun(i, f) ==
  /\ files[f] = <<PieceAt(i, 0)>> /\ source[i][f] > 1
  /\ Copy!PartsOf(f) = AllParts(i, f) \ {<<f, 0>>} /\ f \in renamed
Made(i, f) ==
  files[f] = Copy!Wanted(i, f) /\ Copy!PartsOf(f) = {} /\ f \notin renamed \cup deleted
LeftAlone(f) ==
  files[f] = found[f] /\ Copy!PartsOf(f) = {} /\ f \notin renamed \cup deleted

\* The chunks of a job that began without any are its own; those of maps that have ended
\* are whole.
OwnChunks(i) ==
  /\ \A k \in Copy!Existing : k \in Copy!Splits(i) /\ chunks[k].job = {i}
  /\ \A k \in copied : chunks[k] = [job |-> {i}, whole |-> TRUE]
  /\ files = found

Committing(i) ==
  /\ Copy!Existing = plan
  /\ \A k \in plan : chunks[k] = [job |-> {i}, whole |-> TRUE]
  /\ \A f \in File :
       IF Asked(i, f) THEN Untouched(i, f) \/ Missing(i, f) \/ Begun(i, f) \/ Made(i, f)
       ELSE LeftAlone(f)

Prefixes(i) ==
  \A f \in File : files[f] = found[f]
                    \/ \E n \in 0..Len(Copy!Wanted(i, f)) :
                         files[f] = SubSeq(Copy!Wanted(i, f), 1, n)

CleanCopy(i) ==
  /\ job[i] = "mapping" => OwnChunks(i)
  /\ job[i] = "committing" => Committing(i)
  /\ job[i] \in {"aborting", "failed"} => files = found
  /\ job[i] = "succeeded" =>
       Copy!Existing = {} /\ \A f \in File : files[f] = Copy!Wanted(i, f)
  /\ job[i] # "committing" => Prefixes(i)

CopyInv ==
  /\ Copy!TypeOK
  /\ files \in [File -> Seq(Copy!Piece)] /\ found \in [File -> Seq(Copy!Piece)]
  /\ OneCopies
  /\ \A i \in latest \cap clean : CleanCopy(i)

LEMMA CopyTypes ==
  ASSUME CopyInv, NEW j \in Job
  PROVE  /\ source[j] \in [File -> 0..MaxSplits]
         /\ Copy!Splits(j) \subseteq Copy!Split
         /\ \A k \in Copy!Split : k \in Copy!Existing <=> chunks[k] \in Copy!Chunk
         /\ Copy!Existing \subseteq Copy!Split
         /\ \A f \in File : files[f] \in Seq(Copy!Piece)
<1> USE CopyAssumption
<1>1. source[j] \in [File -> 0..MaxSplits]
  BY DEF CopyInv, Copy!TypeOK
<1>2. Copy!NoChunk \notin Copy!Chunk
  BY DEF Copy!NoChunk, Copy!Chunk
<1>3. \A k \in Copy!Split : k \in Copy!Existing <=> chunks[k] \in Copy!Chunk
  BY <1>2 DEF CopyInv, Copy!TypeOK, Copy!Existing
<1> QED
  BY <1>1, <1>3 DEF Copy!Splits, Copy!Existing, CopyInv

\* What is wanted of a file that is copied chunk by chunk.
LEMMA CopyWanted ==
  ASSUME CopyInv, NEW j \in Job, NEW f \in File, Asked(j, f)
  PROVE  /\ source[j][f] \in 1..MaxSplits
         /\ Copy!Wanted(j, f) = [i \in 1..source[j][f] |-> PieceAt(j, i - 1)]
         /\ Copy!Wanted(j, f) \in Seq(Copy!Piece) /\ Len(Copy!Wanted(j, f)) = source[j][f]
         /\ \A i \in 1..source[j][f] : Copy!Wanted(j, f)[i] = PieceAt(j, i - 1)
         /\ \A i \in 0..(MaxSplits - 1) : PieceAt(j, i) \in Copy!Piece
<1> USE CopyAssumption
<1>1. source[j][f] \in 1..MaxSplits
  BY CopyTypes DEF Asked
<1>2. Copy!Wanted(j, f) = [i \in 1..source[j][f] |-> PieceAt(j, i - 1)]
  BY <1>1 DEF Asked, Copy!Wanted, PieceAt
<1>3. \A i \in 0..(MaxSplits - 1) : PieceAt(j, i) \in Copy!Piece
  BY DEF PieceAt, Copy!Piece
<1>4. \A i \in 1..source[j][f] : PieceAt(j, i - 1) \in Copy!Piece
  <2>1. \A i \in 1..source[j][f] : i - 1 \in 0..(MaxSplits - 1)
    BY <1>1
  <2> QED
    BY <1>3, <2>1
<1> HIDE DEF PieceAt
<1> QED
  BY <1>1, <1>2, <1>3, <1>4

\* A file in the hands of the committer is as it was or a beginning of the new one.
LEMMA CopyPrefixes ==
  ASSUME CopyInv, NEW j \in Job, Committing(j)
  PROVE  Prefixes(j)
<1> SUFFICES ASSUME NEW f \in File, files[f] # found[f]
             PROVE  \E n \in 0..Len(Copy!Wanted(j, f)) :
                      files[f] = SubSeq(Copy!Wanted(j, f), 1, n)
  BY DEF Prefixes
<1>1. Asked(j, f) /\ (Missing(j, f) \/ Begun(j, f) \/ Made(j, f))
  BY DEF Committing, LeftAlone, Untouched
<1>2. PICK w \in Seq(Copy!Piece) :
        /\ w = Copy!Wanted(j, f) /\ Len(w) \in Nat \ {0} /\ w[1] = PieceAt(j, 0)
  BY <1>1, CopyWanted
<1>3. CASE Missing(j, f)
  <2>1. SubSeq(w, 1, 0) = <<>>
    BY <1>2
  <2> QED
    BY <1>2, <1>3, <2>1 DEF Missing
<1>4. CASE Begun(j, f)
  <2>1. SubSeq(w, 1, 1) = <<w[1]>>
    <3>1. PICK s : s = SubSeq(w, 1, 1)
      OBVIOUS
    <3>2. s \in Seq(Copy!Piece) /\ Len(s) = 1 /\ s[1] = w[1]
      BY <1>2, <3>1
    <3>3. w[1] \in Copy!Piece
      BY <1>2
    <3> DEFINE t == <<w[1]>>
    <3>5. t \in Seq(Copy!Piece) /\ Len(t) = 1 /\ t[1] = w[1]
      BY <3>3
    <3> HIDE DEF t
    <3>6. \A i \in 1..Len(s) : s[i] = t[i]
      BY <3>2, <3>5
    <3>7. s = t
      BY <3>2, <3>5, <3>6, SeqEqual, SMTT(30)
    <3> QED
      BY <3>1, <3>7, Zenon DEF t
  <2> QED
    BY <1>2, <1>4, <2>1 DEF Begun
<1>5. CASE Made(j, f)
  <2>1. SubSeq(w, 1, Len(w)) = w /\ Len(w) \in 0..Len(w)
    BY <1>2
  <2> QED
    BY <1>2, <1>5, <2>1 DEF Made
<1> QED
  BY <1>1, <1>3, <1>4, <1>5

LEMMA CopyEnds == CopyInv => Copy!CopyExact
<1> SUFFICES ASSUME CopyInv, NEW j \in latest \cap clean
             PROVE  /\ job[j] = "succeeded" => Copy!Existing = {} /\ \A f \in File : files[f] = Copy!Wanted(j, f)
                    /\ job[j] \in {"aborting", "failed"} => files = found
                    /\ Prefixes(j)
  BY DEF Prefixes, Copy!CopyExact
<1>1. j \in Job /\ CleanCopy(j)
  BY DEF CopyInv, Copy!TypeOK
<1>2. Prefixes(j)
  BY <1>1, CopyPrefixes DEF CleanCopy
<1> QED
  BY <1>1, <1>2 DEF CleanCopy

LEMMA CopyInit == Copy!Init => CopyInv
<1> SUFFICES ASSUME Copy!Init PROVE CopyInv
  OBVIOUS
<1> USE CopyAssumption
<1>1. Copy!TypeOK
  BY DEF Copy!Init, Copy!TypeOK, Copy!Split, Copy!NoChunk, Copy!Chunk
<1>2. files \in [File -> Seq(Copy!Piece)] /\ found \in [File -> Seq(Copy!Piece)]
  BY DEF Copy!Init
<1>3. OneCopies
  BY DEF Copy!Init, OneCopies, Active
<1>4. latest \cap clean = {}
  BY DEF Copy!Init
<1> QED
  BY <1>1, <1>2, <1>3, <1>4 DEF CopyInv

\* What the invariant speaks of, but for job, stays.
LEMMA CopyStay == CopyInv /\ UNCHANGED copy => CopyInv'
<1> SUFFICES ASSUME CopyInv, UNCHANGED copy PROVE CopyInv'
  OBVIOUS
<1> USE DEF copy, CopyInv
<1>1. Copy!TypeOK' /\ (files \in [File -> Seq(Copy!Piece)])' /\ (found \in [File -> Seq(Copy!Piece)])'
  BY DEF Copy!TypeOK
<1>2. OneCopies'
  BY DEF OneCopies, Copy!Splits, Copy!Existing, Copy!PartsOf
<1>3. ASSUME NEW i \in latest \cap clean PROVE CleanCopy(i)'
  <2>1. CleanCopy(i)
    BY <1>3
  <2>2. /\ Copy!Existing' = Copy!Existing /\ Copy!Splits(i)' = Copy!Splits(i)
        /\ \A f \in File : /\ Copy!Wanted(i, f)' = Copy!Wanted(i, f)
                           /\ Copy!PartsOf(f)' = Copy!PartsOf(f)
                           /\ AllParts(i, f)' = AllParts(i, f)
                           /\ Asked(i, f)' = Asked(i, f)
    BY DEF Copy!Existing, Copy!Splits, Copy!Wanted, Copy!PartsOf, AllParts, Asked
  <2>3. OwnChunks(i) => OwnChunks(i)'
    BY <2>2 DEF OwnChunks
  <2>4. Committing(i) => Committing(i)'
    BY <2>2, ZenonT(30) DEF Committing, Untouched, Missing, Begun, Made, LeftAlone
  <2>5. Prefixes(i) => Prefixes(i)'
    BY <2>2 DEF Prefixes
  <2> QED
    BY <2>1, <2>2, <2>3, <2>4, <2>5 DEF CleanCopy
<1> QED
  BY <1>1, <1>2, <1>3

\* What a step of the job that runs has to keep.
LEMMA CopyByOne ==
  ASSUME CopyInv, NEW j \in Job, job[j] \in Active, UNCHANGED <<latest, clean, found>>,
         Copy!TypeOK', files' \in [File -> Seq(Copy!Piece)], OneCopies',
         j \in clean /\ CleanCopy(j) => CleanCopy(j)'
  PROVE  CopyInv'
<1>1. latest = {j}
  BY DEF CopyInv, OneCopies
<1>2. ASSUME NEW i \in latest' \cap clean' PROVE CleanCopy(i)'
  BY <1>1, <1>2 DEF CopyInv
<1>3. found' \in [File -> Seq(Copy!Piece)]
  BY DEF CopyInv
<1> QED
  BY <1>2, <1>3 DEF CopyInv

LEMMA CopySubmit ==
  ASSUME CopyInv, NEW j \in Job, Copy!Submit(j)
  PROVE  CopyInv'
<1> USE CopyAssumption
<1>1. /\ job[j] = "waiting" /\ \A i \in Job : job[i] \in {"waiting"} \cup Copy!Over
      /\ job' = [job EXCEPT ![j] = "mapping"] /\ latest' = {j}
      /\ writing' = {} /\ copied' = {} /\ tries' = [k \in Copy!Split |-> 0]
      /\ found' = files
      /\ clean' = IF Copy!Existing = {} THEN clean \cup {j} ELSE clean
      /\ UNCHANGED <<source, chunks, plan, renamed, deleted, files, crashes>>
  BY DEF Copy!Submit, Copy!commit
<1>2. \A i \in Job : job'[i] = IF i = j THEN "mapping" ELSE job[i]
  BY <1>1 DEF CopyInv, Copy!TypeOK
<1>3. \A i \in Job : job[i] \notin Active
  BY <1>1 DEF Active, Copy!Over
<1>4. Copy!TypeOK'
  BY <1>1 DEF CopyInv, Copy!TypeOK
<1>5. OneCopies'
  <2>1. plan = {} /\ renamed = {} /\ deleted = {}
    BY <1>3 DEF CopyInv, OneCopies, Active
  <2>2. clean \subseteq Job
    BY DEF CopyInv, Copy!TypeOK
  <2>3. \A i \in clean' : job'[i] # "waiting"
    BY <1>1, <1>2, <2>2 DEF CopyInv, OneCopies
  <2>4. \A i \in Job : job'[i] \in Active => i = j
    BY <1>2, <1>3
  <2>5. \A k \in Copy!Split : tries'[k] < MaxAttempts
    BY <1>1
  <2> QED
    BY <1>1, <1>2, <2>1, <2>3, <2>4, <2>5 DEF OneCopies, Active
<1>6. ASSUME j \in clean' PROVE CleanCopy(j)'
  <2>1. j \notin clean
    BY <1>1 DEF CopyInv, OneCopies
  <2>2. Copy!Existing' = {}
    BY <1>1, <1>6, <2>1 DEF Copy!Existing
  <2>3. OwnChunks(j)'
    BY <1>1, <2>2 DEF OwnChunks
  <2> QED
    BY <1>1, <1>2, <2>3 DEF CleanCopy, Prefixes
<1>7. files' \in [File -> Seq(Copy!Piece)] /\ found' \in [File -> Seq(Copy!Piece)]
  BY <1>1 DEF CopyInv
<1> QED
  BY <1>1, <1>4, <1>5, <1>6, <1>7 DEF CopyInv

\* An attempt that fails leaves its chunk, open or whole.
LEMMA CopyAttempt ==
  ASSUME CopyInv, NEW j \in Job, job[j] = "mapping",
         NEW k \in Copy!Splits(j) \ copied, Copy!AttemptFails(j, k),
         chunks' = chunks \/ (k \in writing /\ chunks' = [chunks EXCEPT ![k].whole = TRUE]),
         crashes' \in 0..MaxCrashes,
         UNCHANGED <<source, latest, copied, plan, renamed, deleted, files, found, clean>>
  PROVE  CopyInv'
<1> USE CopyAssumption
<1>1. /\ k \in Copy!Split /\ tries[k] \in 0..MaxAttempts /\ tries[k] < MaxAttempts
      /\ latest = {j} /\ \A i \in Job : i # j => job[i] \notin Active
      /\ writing \subseteq Copy!Existing
  BY CopyTypes, ZenonT(30) DEF CopyInv, Copy!TypeOK, OneCopies, Active
<1>2. /\ tries' = [tries EXCEPT ![k] = @ + 1]
      /\ \/ tries'[k] = MaxAttempts /\ job' = [job EXCEPT ![j] = "aborting"] /\ writing' = {}
         \/ tries'[k] # MaxAttempts /\ job' = job /\ writing' = writing \ {k}
  BY DEF Copy!AttemptFails
<1>3. tries' \in [Copy!Split -> 0..MaxAttempts]
  BY <1>1, <1>2 DEF CopyInv, Copy!TypeOK
<1>4. /\ chunks' \in [Copy!Split -> Copy!Chunk \cup {Copy!NoChunk}]
      /\ \A l \in Copy!Split : /\ chunks'[l].job = chunks[l].job
                               /\ chunks[l] \in Copy!Chunk => chunks'[l] \in Copy!Chunk
                               /\ chunks[l] = Copy!NoChunk => chunks'[l] = Copy!NoChunk
                               /\ l # k => chunks'[l] = chunks[l]
  <2>1. chunks \in [Copy!Split -> Copy!Chunk \cup {Copy!NoChunk}]
    BY DEF CopyInv, Copy!TypeOK
  <2>2. CASE chunks' = chunks
    BY <2>1, <2>2
  <2>3. CASE k \in writing /\ chunks' = [chunks EXCEPT ![k].whole = TRUE]
    <3>1. chunks[k] \in Copy!Chunk
      BY <1>1, <2>3, CopyTypes
    <3>2. chunks' = [chunks EXCEPT ![k] = [chunks[k] EXCEPT !.whole = TRUE]]
      BY <2>3
    <3>3. /\ [chunks[k] EXCEPT !.whole = TRUE] \in Copy!Chunk
          /\ [chunks[k] EXCEPT !.whole = TRUE].job = chunks[k].job
      BY <3>1 DEF Copy!Chunk
    <3>4. chunks[k] # Copy!NoChunk
      BY <3>1 DEF Copy!Chunk, Copy!NoChunk
    <3>5. \A l \in Copy!Split : chunks'[l] = IF l = k THEN [chunks[k] EXCEPT !.whole = TRUE] ELSE chunks[l]
      BY <2>1, <3>2
    <3> QED
      BY <1>1, <2>1, <3>1, <3>2, <3>3, <3>4, <3>5
  <2> QED
    BY <2>2, <2>3
<1>5. Copy!Existing' = Copy!Existing
  <2>1. \A l \in Copy!Split : chunks'[l] = Copy!NoChunk <=> chunks[l] = Copy!NoChunk
    <3>1. Copy!NoChunk \notin Copy!Chunk
      BY DEF Copy!Chunk, Copy!NoChunk
    <3>2. chunks \in [Copy!Split -> Copy!Chunk \cup {Copy!NoChunk}]
      BY DEF CopyInv, Copy!TypeOK
    <3> QED
      BY <1>4, <3>1, <3>2
  <2> QED
    BY <2>1 DEF Copy!Existing
<1>6. Copy!TypeOK' /\ files' \in [File -> Seq(Copy!Piece)]
  BY <1>2, <1>3, <1>4 DEF CopyInv, Copy!TypeOK
<1>7. \A i \in Job : i # j => job'[i] = job[i]
  BY <1>2 DEF CopyInv, Copy!TypeOK
<1>8. job'[j] = IF tries'[k] = MaxAttempts THEN "aborting" ELSE "mapping"
  BY <1>2 DEF CopyInv, Copy!TypeOK
<1>9. OneCopies'
  <2>1. \A i \in Job : job[i] # "committing"
    BY <1>1 DEF Active
  <2>2. plan = {} /\ renamed = {} /\ deleted = {}
    BY <2>1 DEF CopyInv, OneCopies
  <2>3. \A i \in clean' : job'[i] # "waiting"
    <3>1. clean \subseteq Job
      BY DEF CopyInv, Copy!TypeOK
    <3> QED
      BY <1>7, <1>8, <3>1 DEF CopyInv, OneCopies
  <2>4. \A i \in Job : job'[i] \in Active => latest' = {i}
    BY <1>1, <1>7
  <2>5. job'[j] = "mapping" => \A l \in Copy!Split : tries'[l] < MaxAttempts
    <3> SUFFICES ASSUME job'[j] = "mapping", NEW l \in Copy!Split PROVE tries'[l] < MaxAttempts
      OBVIOUS
    <3>1. tries'[k] # MaxAttempts
      BY <1>8
    <3>2. \A m \in Copy!Split : tries[m] < MaxAttempts
      BY DEF CopyInv, OneCopies
    <3>3. l # k => tries'[l] = tries[l]
      BY <1>2 DEF CopyInv, Copy!TypeOK
    <3> QED
      BY <1>1, <1>3, <3>1, <3>2, <3>3
  <2>6. /\ writing \subseteq Copy!Splits(j) \ copied /\ copied \subseteq Copy!Splits(j)
        /\ Copy!Splits(j)' = Copy!Splits(j)
    BY DEF CopyInv, OneCopies, Copy!Splits
  <2>7. (\A i \in Job : job'[i] # "mapping") => writing' = {}
    BY <1>2, <1>8
  <2>8. ASSUME NEW i \in Job, job'[i] = "mapping"
        PROVE  /\ writing' \subseteq Copy!Splits(i)' \ copied' /\ copied' \subseteq Copy!Splits(i)'
               /\ writing' \subseteq Copy!Existing'
               /\ \A l \in Copy!Split : tries'[l] < MaxAttempts
    <3>1. i = j
      BY <1>1, <1>7, <2>8 DEF Active
    <3> QED
      BY <1>1, <1>2, <1>5, <2>5, <2>6, <2>8, <3>1
  <2> QED
    BY <2>2, <2>3, <2>4, <2>7, <2>8 DEF OneCopies
<1>10. ASSUME j \in clean, CleanCopy(j) PROVE CleanCopy(j)'
  <2>1. OwnChunks(j) /\ files = found
    BY <1>10 DEF CleanCopy, OwnChunks
  <2>2. OwnChunks(j)'
    <3>1. Copy!Splits(j)' = Copy!Splits(j)
      BY DEF Copy!Splits
    <3>2. \A l \in Copy!Existing : l \in Copy!Split /\ chunks'[l].job = chunks[l].job
      BY <1>4, CopyTypes
    <3>3. \A l \in copied : l \in Copy!Split /\ chunks'[l] = chunks[l]
      BY <1>4, CopyTypes DEF CopyInv, Copy!TypeOK
    <3> QED
      BY <1>5, <2>1, <3>1, <3>2, <3>3 DEF OwnChunks
  <2>3. Prefixes(j)'
    BY <2>1 DEF Prefixes
  <2> QED
    BY <1>8, <2>1, <2>2, <2>3 DEF CleanCopy
<1> QED
  BY <1>6, <1>9, <1>10, CopyByOne DEF Active

\* What holds of the job that runs: it is the latest, and the others do not run.
LEMMA CopyAlone ==
  ASSUME CopyInv, NEW j \in Job, job[j] \in Active
  PROVE  /\ latest = {j} /\ \A i \in Job : i # j => job[i] \notin Active
         /\ clean \subseteq Job /\ \A i \in clean : job[i] # "waiting"
         /\ job[j] # "committing" => plan = {} /\ renamed = {} /\ deleted = {}
         /\ job[j] # "mapping" => writing = {}
<1>1. latest = {j} /\ \A i \in Job : i # j => job[i] \notin Active
  BY DEF CopyInv, OneCopies
<1>2. clean \subseteq Job /\ \A i \in clean : job[i] # "waiting"
  BY DEF CopyInv, Copy!TypeOK, OneCopies
<1>3. ASSUME job[j] # "committing" PROVE plan = {} /\ renamed = {} /\ deleted = {}
  <2>1. \A i \in Job : job[i] # "committing"
    BY <1>1, <1>3 DEF Active
  <2> QED
    BY <2>1 DEF CopyInv, OneCopies
<1>4. ASSUME job[j] # "mapping" PROVE writing = {}
  <2>1. \A i \in Job : job[i] # "mapping"
    BY <1>1, <1>4 DEF Active
  <2> QED
    BY <2>1 DEF CopyInv, OneCopies
<1> QED
  BY <1>1, <1>2, <1>3, <1>4

\* The steps of a job that go on with its maps.
LEMMA CopyMapping ==
  ASSUME CopyInv, NEW j \in Job, job[j] = "mapping",
         UNCHANGED <<source, job, latest, tries, plan, renamed, deleted, files, found, clean, crashes>>,
         writing' \subseteq Copy!Splits(j) \ copied', copied' \subseteq Copy!Splits(j),
         writing' \subseteq Copy!Existing',
         chunks' \in [Copy!Split -> Copy!Chunk \cup {Copy!NoChunk}],
         OwnChunks(j) => OwnChunks(j)'
  PROVE  CopyInv'
<1>1. /\ latest = {j} /\ \A i \in Job : i # j => job[i] \notin Active
      /\ plan = {} /\ renamed = {} /\ deleted = {}
  BY CopyAlone DEF Active
<1>2. Copy!Splits(j)' = Copy!Splits(j) /\ Copy!Splits(j) \subseteq Copy!Split
  BY CopyTypes DEF Copy!Splits
<1>3. Copy!TypeOK' /\ files' \in [File -> Seq(Copy!Piece)]
  <2>1. writing' \subseteq Copy!Split /\ copied' \subseteq Copy!Split
    BY <1>2
  <2> QED
    BY <2>1 DEF CopyInv, Copy!TypeOK
<1>4. OneCopies'
  <2>1. \A i \in Job : job[i] = "mapping" => i = j
    BY <1>1 DEF Active
  <2> QED
    BY <1>1, <1>2, <2>1 DEF CopyInv, OneCopies
<1>5. ASSUME j \in clean, CleanCopy(j) PROVE CleanCopy(j)'
  <2>1. OwnChunks(j)'
    BY <1>5 DEF CleanCopy
  <2> QED
    BY <2>1 DEF CleanCopy, Prefixes, OwnChunks
<1> QED
  BY <1>3, <1>4, <1>5, CopyByOne DEF Active

LEMMA CopyCreateChunk ==
  ASSUME CopyInv, NEW j \in Job, NEW k \in Copy!Split, Copy!CreateChunk(j, k)
  PROVE  CopyInv'
<1> USE CopyAssumption
<1>1. /\ job[j] = "mapping" /\ k \in Copy!Splits(j) \ (writing \cup copied)
      /\ UNCHANGED <<source, latest, copied, plan, renamed, deleted, files, found, clean, crashes>>
  BY DEF Copy!CreateChunk, Copy!commit, Copy!history
<1>2. CASE k \in Copy!Existing
  <2>1. Copy!AttemptFails(j, k) /\ chunks' = chunks
    BY <1>2 DEF Copy!CreateChunk
  <2>2. crashes' \in 0..MaxCrashes
    BY <1>1 DEF CopyInv, Copy!TypeOK
  <2> QED
    BY <1>1, <2>1, <2>2, CopyAttempt
<1>3. CASE k \notin Copy!Existing
  <2>1. /\ chunks' = [chunks EXCEPT ![k] = [job |-> {j}, whole |-> FALSE]]
        /\ writing' = writing \cup {k} /\ UNCHANGED <<job, tries>>
    BY <1>3 DEF Copy!CreateChunk
  <2>2. /\ writing \subseteq Copy!Splits(j) \ copied /\ copied \subseteq Copy!Splits(j)
        /\ writing \subseteq Copy!Existing
    BY <1>1 DEF CopyInv, OneCopies
  <2>3. [job |-> {j}, whole |-> FALSE] \in Copy!Chunk /\ [job |-> {j}, whole |-> FALSE] # Copy!NoChunk
    BY DEF Copy!Chunk, Copy!NoChunk
  <2>4. /\ chunks' \in [Copy!Split -> Copy!Chunk \cup {Copy!NoChunk}]
        /\ \A l \in Copy!Split : chunks'[l] = IF l = k THEN [job |-> {j}, whole |-> FALSE] ELSE chunks[l]
    BY <2>1, <2>3 DEF CopyInv, Copy!TypeOK
  <2>5. Copy!Existing' = Copy!Existing \cup {k}
    BY <2>3, <2>4 DEF Copy!Existing
  <2>6. ASSUME OwnChunks(j) PROVE OwnChunks(j)'
    <3>1. Copy!Splits(j)' = Copy!Splits(j)
      BY <1>1 DEF Copy!Splits
    <3>2. \A l \in Copy!Existing' : l \in Copy!Splits(j) /\ chunks'[l].job = {j}
      BY <1>1, <2>4, <2>5, <2>6, CopyTypes DEF OwnChunks
    <3>3. \A l \in copied : l \in Copy!Split /\ l # k
      BY <1>1 DEF CopyInv, Copy!TypeOK
    <3> QED
      BY <1>1, <2>4, <2>6, <3>1, <3>2, <3>3 DEF OwnChunks
  <2> QED
    BY <1>1, <2>1, <2>2, <2>4, <2>5, <2>6, CopyMapping
<1> QED
  BY <1>2, <1>3

LEMMA CopyCloseChunk ==
  ASSUME CopyInv, NEW j \in Job, NEW k \in Copy!Split, Copy!CloseChunk(j, k)
  PROVE  CopyInv'
<1> USE CopyAssumption
<1>1. /\ job[j] = "mapping" /\ k \in writing
      /\ chunks' = [chunks EXCEPT ![k].whole = TRUE]
      /\ writing' = writing \ {k} /\ copied' = copied \cup {k}
      /\ UNCHANGED <<source, job, latest, tries, plan, renamed, deleted, files, found, clean, crashes>>
  BY DEF Copy!CloseChunk, Copy!commit, Copy!history
<1>2. /\ writing \subseteq Copy!Splits(j) \ copied /\ copied \subseteq Copy!Splits(j)
      /\ writing \subseteq Copy!Existing
  BY <1>1 DEF CopyInv, OneCopies
<1>3. chunks[k] \in Copy!Chunk
  BY <1>1, <1>2, CopyTypes
<1>4. PICK c : c = [chunks[k] EXCEPT !.whole = TRUE]
  OBVIOUS
<1>5. c \in Copy!Chunk /\ c.job = chunks[k].job /\ c # Copy!NoChunk /\ c = [job |-> chunks[k].job, whole |-> TRUE]
  BY <1>3, <1>4 DEF Copy!Chunk, Copy!NoChunk
<1>6. /\ chunks' \in [Copy!Split -> Copy!Chunk \cup {Copy!NoChunk}]
      /\ \A l \in Copy!Split : chunks'[l] = IF l = k THEN c ELSE chunks[l]
  <2>1. chunks' = [chunks EXCEPT ![k] = c]
    BY <1>1, <1>4
  <2> QED
    BY <1>5, <2>1 DEF CopyInv, Copy!TypeOK
<1>7. Copy!Existing' = Copy!Existing
  BY <1>1, <1>2, <1>5, <1>6 DEF Copy!Existing
<1>8. ASSUME OwnChunks(j) PROVE OwnChunks(j)'
  <2>1. Copy!Splits(j)' = Copy!Splits(j)
    BY <1>1 DEF Copy!Splits
  <2>2. chunks[k].job = {j}
    BY <1>1, <1>2, <1>8 DEF OwnChunks
  <2>3. \A l \in Copy!Existing' : l \in Copy!Splits(j) /\ chunks'[l].job = {j}
    BY <1>5, <1>6, <1>7, <1>8, <2>2, CopyTypes DEF OwnChunks
  <2>4. \A l \in copied' : chunks'[l] = [job |-> {j}, whole |-> TRUE]
    <3>1. copied \subseteq Copy!Split
      BY DEF CopyInv, Copy!TypeOK
    <3> QED
      BY <1>1, <1>5, <1>6, <1>8, <2>2, <3>1 DEF OwnChunks
  <2> QED
    BY <1>1, <1>8, <2>1, <2>3, <2>4 DEF OwnChunks
<1> QED
  BY <1>1, <1>2, <1>6, <1>7, <1>8, CopyMapping

LEMMA CopyAttemptDies ==
  ASSUME CopyInv, NEW j \in Job, NEW k \in Copy!Split, Copy!AttemptDies(j, k)
  PROVE  CopyInv'
<1>1. crashes' \in 0..MaxCrashes
  BY CopyAssumption DEF Copy!AttemptDies, Copy!Crash, CopyInv, Copy!TypeOK
<1> QED
  BY <1>1, CopyAttempt DEF Copy!AttemptDies, Copy!commit, Copy!history

\* The steps that end a job without touching its files.
LEMMA CopyStops ==
  ASSUME CopyInv, NEW j \in Job, job[j] \in Active, NEW l,
         job' = [job EXCEPT ![j] = l],
         l \in {"undoing", "killed", "failed", "torn"},
         l = "failed" => job[j] = "aborting",
         writing' = {}, plan' = {}, renamed' = {}, deleted' = {},
         chunks' \in [Copy!Split -> Copy!Chunk \cup {Copy!NoChunk}], crashes' \in 0..MaxCrashes,
         UNCHANGED <<source, latest, copied, tries, files, found, clean>>
  PROVE  CopyInv'
<1>1. /\ latest = {j} /\ \A i \in Job : i # j => job[i] \notin Active
      /\ clean \subseteq Job /\ \A i \in clean : job[i] # "waiting"
  BY CopyAlone
<1>2. \A i \in Job : job'[i] = IF i = j THEN l ELSE job[i]
  BY DEF CopyInv, Copy!TypeOK
<1>3. Copy!TypeOK' /\ files' \in [File -> Seq(Copy!Piece)]
  BY DEF CopyInv, Copy!TypeOK
<1>4. OneCopies'
  <2>1. \A i \in Job : job'[i] # "mapping"
    BY <1>1, <1>2 DEF Active
  <2>2. \A i \in Job : job'[i] \in Active => latest' = {i}
    BY <1>1, <1>2
  <2>3. \A i \in clean' : job'[i] # "waiting"
    BY <1>1, <1>2
  <2> QED
    BY <2>1, <2>2, <2>3 DEF OneCopies
<1>5. ASSUME j \in clean, CleanCopy(j) PROVE CleanCopy(j)'
  <2>1. Prefixes(j)
    BY <1>5, CopyPrefixes DEF CleanCopy
  <2>2. Prefixes(j)'
    BY <2>1 DEF Prefixes, Copy!Wanted
  <2> QED
    BY <1>2, <1>5, <2>2 DEF CleanCopy
<1> QED
  BY <1>3, <1>4, <1>5, CopyByOne

LEMMA CopyKill ==
  ASSUME CopyInv, NEW j \in Job, Copy!Kill(j)
  PROVE  CopyInv'
<1>1. crashes' \in 0..MaxCrashes
  BY CopyAssumption DEF Copy!Kill, Copy!Crash, CopyInv, Copy!TypeOK
<1>2. chunks' \in [Copy!Split -> Copy!Chunk \cup {Copy!NoChunk}]
  BY DEF Copy!Kill, CopyInv, Copy!TypeOK
<1> QED
  BY <1>1, <1>2, CopyStops DEF Copy!Kill, Copy!history, Active

LEMMA CopyCommitFails ==
  ASSUME CopyInv, NEW j \in Job, Copy!CommitFails(j)
  PROVE  CopyInv'
<1>1. crashes' \in 0..MaxCrashes
  BY CopyAssumption DEF Copy!CommitFails, Copy!Crash, CopyInv, Copy!TypeOK
<1>2. chunks' \in [Copy!Split -> Copy!Chunk \cup {Copy!NoChunk}]
  BY DEF Copy!CommitFails, CopyInv, Copy!TypeOK
<1>3. job[j] = "committing" /\ writing = {}
  BY CopyAlone DEF Copy!CommitFails, Active
<1> QED
  BY <1>1, <1>2, <1>3, CopyStops DEF Copy!CommitFails, Copy!history, Copy!copying, Active

LEMMA CopyAbortJob ==
  ASSUME CopyInv, NEW j \in Job, Copy!AbortJob(j)
  PROVE  CopyInv'
<1>1. crashes' \in 0..MaxCrashes
  BY CopyAssumption DEF Copy!AbortJob, Copy!Crash, CopyInv, Copy!TypeOK
<1>2. chunks' \in [Copy!Split -> Copy!Chunk \cup {Copy!NoChunk}]
  BY DEF Copy!AbortJob, CopyInv, Copy!TypeOK
<1>3. job[j] \in {"aborting", "undoing"} /\ writing = {} /\ plan = {} /\ renamed = {} /\ deleted = {}
  BY CopyAlone DEF Copy!AbortJob, Active
<1>4. PICK l : /\ l = IF job[j] = "aborting" THEN "failed" ELSE "torn"
               /\ job' = [job EXCEPT ![j] = l]
  BY DEF Copy!AbortJob
<1> QED
  BY <1>1, <1>2, <1>3, <1>4, CopyStops DEF Copy!AbortJob, Copy!history, Copy!copying, Copy!commit, Active

LEMMA CopyCount ==
  ASSUME NEW S
  PROVE  Copy!Cardinality(S) = Cardinality(S)
BY Zenon DEF Copy!Cardinality, Cardinality

\* Of the pairs of one name with numbers, each has its own place in their order.
LEMMA Ranks ==
  ASSUME NEW n, NEW S \in SUBSET ({n} \X Nat), IsFiniteSet(S), NEW i \in 1..Cardinality(S)
  PROVE  /\ \E k \in S : Cardinality({l \in S : l[2] < k[2]}) = i - 1
         /\ \A k, m \in S : Cardinality({l \in S : l[2] < k[2]}) = Cardinality({l \in S : l[2] < m[2]})
                              => k = m
<1> DEFINE Lower(k) == {l \in S : l[2] < k[2]}
           Rank == [k \in S |-> Cardinality(Lower(k)) + 1]
<1>1. \A k \in S : k[2] \in Nat /\ k = <<n, k[2]>>
  OBVIOUS
<1>2. Cardinality(S) \in Nat
  BY FS_CardinalityType
<1>3. ASSUME NEW k \in S
      PROVE  /\ IsFiniteSet(Lower(k)) /\ Cardinality(Lower(k)) \in Nat
             /\ Rank[k] \in 1..Cardinality(S)
  <2>1. IsFiniteSet(S \ {k}) /\ Cardinality(S \ {k}) = Cardinality(S) - 1
    BY FS_RemoveElement
  <2>2. Lower(k) \in SUBSET (S \ {k})
    BY <1>1
  <2> HIDE DEF Lower
  <2>3. IsFiniteSet(Lower(k)) /\ Cardinality(Lower(k)) <= Cardinality(S \ {k})
    BY <2>1, <2>2, FS_Subset
  <2>4. Cardinality(Lower(k)) \in Nat
    BY <2>3, FS_CardinalityType
  <2> QED
    BY <1>2, <2>1, <2>3, <2>4
<1>4. ASSUME NEW k \in S, NEW m \in S, k[2] < m[2] PROVE Rank[k] < Rank[m]
  <2>1. IsFiniteSet(Lower(k) \cup {k}) /\ Cardinality(Lower(k) \cup {k}) = Cardinality(Lower(k)) + 1
    <3>1. k \notin Lower(k)
      BY <1>1
    <3> HIDE DEF Lower
    <3> QED
      BY <1>3, <3>1, FS_AddElement
  <2>2. Lower(k) \cup {k} \in SUBSET Lower(m)
    BY <1>1, <1>4
  <2> HIDE DEF Lower
  <2>3. Cardinality(Lower(k) \cup {k}) <= Cardinality(Lower(m))
    BY <1>3, <2>2, FS_Subset
  <2> QED
    BY <1>3, <2>1, <2>3
<1>5. \A k, m \in S : Rank[k] = Rank[m] => k = m
  <2> SUFFICES ASSUME NEW k \in S, NEW m \in S, Rank[k] = Rank[m], k # m PROVE FALSE
    OBVIOUS
  <2>1. k[2] < m[2] \/ m[2] < k[2]
    BY <1>1
  <2>2. Rank[k] < Rank[m] \/ Rank[m] < Rank[k]
    BY <1>4, <2>1
  <2> HIDE DEF Rank, Lower
  <2>3. Rank[k] \in Int /\ Rank[m] \in Int
    BY <1>2, <1>3
  <2> QED
    BY <2>2, <2>3
<1>6. Rank \in Injection(S, 1..Cardinality(S))
  <2>2. Rank = [k \in S |-> Rank[k]]
    OBVIOUS
  <2> HIDE DEF Rank, Lower
  <2>1. \A k \in S : Rank[k] \in 1..Cardinality(S)
    BY <1>3, Zenon
  <2>3. Rank \in [S -> 1..Cardinality(S)]
    BY <2>1, <2>2
  <2> QED
    BY <1>5, <2>3 DEF Injection, IsInjective
<1>7. Rank \in Surjection(S, 1..Cardinality(S))
  <2>1. IsFiniteSet(1..Cardinality(S)) /\ Cardinality(1..Cardinality(S)) = Cardinality(S)
    BY <1>2, FS_Interval
  <2> HIDE DEF Rank
  <2> QED
    BY <1>6, <2>1, FS_Injection
<1>8. PICK k \in S : Rank[k] = i
  <2> HIDE DEF Rank
  <2> QED
    BY <1>7 DEF Surjection
<1>9. \A m \in S : Rank[m] = Cardinality(Lower(m)) + 1 /\ Cardinality(Lower(m)) \in Nat
  BY <1>3
<1>10. Cardinality(Lower(k)) = i - 1
  <2> HIDE DEF Rank, Lower
  <2> QED
    BY <1>8, <1>9
<1>11. \A m, o \in S : Cardinality(Lower(m)) = Cardinality(Lower(o)) => m = o
  <2> HIDE DEF Rank, Lower
  <2> QED
    BY <1>5, <1>9
<1> QED
  BY <1>10, <1>11

LEMMA CopyParts ==
  ASSUME CopyInv, NEW f \in File
  PROVE  /\ Copy!PartsOf(f) \in SUBSET ({f} \X (0..(MaxSplits - 1)))
         /\ IsFiniteSet(Copy!PartsOf(f)) /\ Copy!PartsOf(f) \in SUBSET ({f} \X Nat)
         /\ \A k \in Copy!PartsOf(f) : k \in plan /\ k \in Copy!Split
                                       /\ chunks[k] \in Copy!Chunk /\ Copy!PieceOf(k) \in Copy!Piece
<1> USE CopyAssumption
<1>1. Copy!PartsOf(f) \in SUBSET ({f} \X (0..(MaxSplits - 1)))
  BY DEF CopyInv, Copy!TypeOK, Copy!PartsOf, Copy!Split
<1>2. IsFiniteSet({f} \X (0..(MaxSplits - 1)))
  <2>1. IsFiniteSet({f})
    BY FS_Singleton
  <2>2. IsFiniteSet(0..(MaxSplits - 1))
    <3>1. 0 \in Int /\ MaxSplits - 1 \in Int
      OBVIOUS
    <3> QED
      BY <3>1, FS_Interval
  <2> QED
    BY <2>1, <2>2, FS_Product
<1>3. IsFiniteSet(Copy!PartsOf(f))
  BY <1>1, <1>2, FS_Subset
<1>4. ASSUME NEW k \in Copy!PartsOf(f)
      PROVE  k \in plan /\ k \in Copy!Split /\ chunks[k] \in Copy!Chunk /\ Copy!PieceOf(k) \in Copy!Piece
  <2>1. k \in plan /\ k \in Copy!Existing
    BY DEF Copy!PartsOf, CopyInv, OneCopies
  <2>2. k \in Copy!Split /\ k[2] \in 0..(MaxSplits - 1)
    BY <1>1, <2>1 DEF Copy!Existing
  <2>3. chunks[k] \in Copy!Chunk
    <3>1. Copy!NoChunk \notin Copy!Chunk
      BY DEF Copy!NoChunk, Copy!Chunk
    <3> QED
      BY <2>1, <2>2, <3>1 DEF Copy!Existing, CopyInv, Copy!TypeOK
  <2> QED
    BY <2>1, <2>2, <2>3 DEF Copy!PieceOf, Copy!Piece, Copy!Chunk
<1> QED
  BY <1>1, <1>3, <1>4

LEMMA CopyCommitJob ==
  ASSUME CopyInv, NEW j \in Job, Copy!CommitJob(j)
  PROVE  CopyInv'
<1> USE CopyAssumption
<1>1. /\ job[j] = "mapping" /\ copied = Copy!Splits(j)
      /\ job' = [job EXCEPT ![j] = "committing"] /\ plan' = Copy!Existing
      /\ UNCHANGED <<source, latest, writing, copied, tries, chunks, renamed, deleted, files, found,
                     clean, crashes>>
  BY DEF Copy!CommitJob, Copy!copying, Copy!history
<1>2. /\ latest = {j} /\ \A i \in Job : i # j => job[i] \notin Active
      /\ clean \subseteq Job /\ \A i \in clean : job[i] # "waiting"
      /\ plan = {} /\ renamed = {} /\ deleted = {}
  BY <1>1, CopyAlone DEF Active
<1>3. writing = {}
  BY <1>1 DEF CopyInv, OneCopies
<1>4. \A i \in Job : job'[i] = IF i = j THEN "committing" ELSE job[i]
  BY <1>1 DEF CopyInv, Copy!TypeOK
<1>5. Copy!Existing' = Copy!Existing /\ Copy!Existing \subseteq Copy!Split
  BY <1>1 DEF Copy!Existing
<1>6. Copy!TypeOK' /\ files' \in [File -> Seq(Copy!Piece)]
  BY <1>1, <1>5 DEF CopyInv, Copy!TypeOK
<1>7. OneCopies'
  <2>1. \A i \in Job : job'[i] # "mapping"
    BY <1>2, <1>4 DEF Active
  <2>2. \A i \in Job : job'[i] \in Active => latest' = {i}
    BY <1>1, <1>2, <1>4
  <2>3. \A i \in clean' : job'[i] # "waiting"
    BY <1>1, <1>2, <1>4
  <2> QED
    BY <1>1, <1>2, <1>3, <1>4, <1>5, <2>1, <2>2, <2>3 DEF OneCopies
<1>8. ASSUME j \in clean, CleanCopy(j) PROVE CleanCopy(j)'
  <2>1. OwnChunks(j)
    BY <1>1, <1>8 DEF CleanCopy
  <2>2. Copy!Existing = Copy!Splits(j) /\ \A k \in Copy!Existing : chunks[k] = [job |-> {j}, whole |-> TRUE]
    <3>1. \A k \in Copy!Splits(j) : k \in Copy!Existing
      <4>1. [job |-> {j}, whole |-> TRUE] # Copy!NoChunk
        BY DEF Copy!NoChunk
      <4> QED
        BY <1>1, <2>1, <4>1, CopyTypes DEF OwnChunks, Copy!Existing
    <3> QED
      BY <1>1, <2>1, <3>1 DEF OwnChunks
  <2>3. ASSUME NEW f \in File
        PROVE  IF Asked(j, f) THEN Untouched(j, f)' ELSE LeftAlone(f)'
    <3>1. files'[f] = found'[f] /\ f \notin renamed' \cup deleted'
      BY <1>1, <1>2, <2>1 DEF OwnChunks
    <3>2. Copy!PartsOf(f)' = {k \in Copy!Splits(j) : k[1] = f}
      BY <1>1, <2>2 DEF Copy!PartsOf
    <3>3. source[j][f] \in 0..MaxSplits
      BY CopyTypes
    <3>4. CASE Asked(j, f)
      <4>1. {k \in Copy!Splits(j) : k[1] = f} = AllParts(j, f)
        BY <3>3, <3>4 DEF Copy!Splits, Copy!Split, AllParts, Asked
      <4>2. AllParts(j, f)' = AllParts(j, f)
        BY <1>1 DEF AllParts
      <4> QED
        BY <3>1, <3>2, <3>4, <4>1, <4>2 DEF Untouched
    <3>5. CASE ~Asked(j, f)
      <4>1. {k \in Copy!Splits(j) : k[1] = f} = {}
        BY <3>3, <3>5 DEF Copy!Splits, Copy!Split, Asked
      <4> QED
        BY <3>1, <3>2, <3>5, <4>1 DEF LeftAlone
    <3> QED
      BY <3>4, <3>5
  <2>4. Committing(j)'
    <3>1. \A f \in File : Asked(j, f)' = Asked(j, f)
      BY <1>1 DEF Asked
    <3> QED
      BY <1>1, <1>5, <2>2, <2>3, <3>1 DEF Committing
  <2>5. Prefixes(j)'
    BY <1>1, <2>1 DEF Prefixes, OwnChunks
  <2> QED
    BY <1>4, <2>4, <2>5 DEF CleanCopy
<1> QED
  BY <1>1, <1>6, <1>7, <1>8, CopyByOne DEF Active

\* The steps of a committer that goes on.
LEMMA CopyCommits ==
  ASSUME CopyInv, NEW j \in Job, job[j] = "committing",
         UNCHANGED <<source, job, latest, writing, copied, tries, found, clean, crashes>>,
         chunks' \in [Copy!Split -> Copy!Chunk \cup {Copy!NoChunk}],
         files' \in [File -> Seq(Copy!Piece)],
         plan' \subseteq Copy!Existing', renamed' \subseteq File, deleted' \subseteq File,
         \A f \in deleted' : Copy!PartsOf(f)' # {},
         \A f, g \in renamed' \cup deleted' : f = g, renamed' = {} \/ deleted' = {},
         j \in clean /\ Committing(j) => Committing(j)'
  PROVE  CopyInv'
<1>1. /\ latest = {j} /\ \A i \in Job : i # j => job[i] \notin Active
      /\ writing = {} /\ clean \subseteq Job /\ \A i \in clean : job[i] # "waiting"
  BY CopyAlone DEF Active
<1>2. Copy!TypeOK'
  <2>1. plan' \subseteq Copy!Split
    BY DEF Copy!Existing
  <2>2. \A f \in File : \A i \in DOMAIN files'[f] : files'[f][i] \in Copy!Piece
    OBVIOUS
  <2> QED
    BY <2>1, <2>2 DEF CopyInv, Copy!TypeOK
<1>3. OneCopies'
  <2>1. \A i \in Job : job[i] # "mapping"
    BY <1>1 DEF Active
  <2> QED
    BY <1>1, <2>1 DEF CopyInv, OneCopies
<1>4. ASSUME j \in clean, CleanCopy(j) PROVE CleanCopy(j)'
  <2>1. Committing(j)'
    BY <1>4 DEF CleanCopy
  <2> QED
    BY <2>1 DEF CleanCopy
<1> QED
  BY <1>2, <1>3, <1>4, CopyByOne DEF Active

\* A step of the committer about file f leaves the others as they are.
LEMMA CopyOthers ==
  ASSUME CopyInv, NEW j \in Job, Committing(j), NEW f \in File,
         UNCHANGED <<source, found>>,
         files' \in [File -> Seq(Copy!Piece)],
         \A g \in File : g # f => /\ files'[g] = files[g]
                                  /\ g \in renamed' <=> g \in renamed
                                  /\ g \in deleted' <=> g \in deleted
                                  /\ Copy!PartsOf(g)' = Copy!PartsOf(g),
         Copy!Existing' = plan', plan' \subseteq plan,
         \A k \in plan' : chunks'[k] = chunks[k],
         IF Asked(j, f) THEN Untouched(j, f)' \/ Missing(j, f)' \/ Begun(j, f)' \/ Made(j, f)'
         ELSE LeftAlone(f)'
  PROVE  Committing(j)'
<1>1. \A k \in plan' : chunks'[k] = [job |-> {j}, whole |-> TRUE]
  BY DEF Committing
<1>2. ASSUME NEW g \in File
      PROVE  IF Asked(j, g)' THEN Untouched(j, g)' \/ Missing(j, g)' \/ Begun(j, g)' \/ Made(j, g)'
             ELSE LeftAlone(g)'
  <2>1. Asked(j, g)' = Asked(j, g) /\ AllParts(j, g)' = AllParts(j, g)
        /\ Copy!Wanted(j, g)' = Copy!Wanted(j, g)
    BY DEF Asked, AllParts, Copy!Wanted
  <2>2. CASE g = f
    BY <2>1, <2>2
  <2>3. CASE g # f
    <3>1. /\ Untouched(j, g) => Untouched(j, g)'
          /\ Missing(j, g) => Missing(j, g)'
          /\ Begun(j, g) => Begun(j, g)'
          /\ Made(j, g) => Made(j, g)'
          /\ LeftAlone(g) => LeftAlone(g)'
      BY <2>1, <2>3 DEF Untouched, Missing, Begun, Made, LeftAlone
    <3> QED
      BY <2>1, <3>1 DEF Committing
  <2> QED
    BY <2>2, <2>3
<1> QED
  BY <1>1, <1>2 DEF Committing

\* A file whose parts the committer has still all to put there is one it was asked for.
LEMMA CopyIsAsked ==
  ASSUME CopyInv, NEW j \in Job, Committing(j), NEW f \in File, Copy!PartsOf(f) # {}
  PROVE  Asked(j, f) /\ (Untouched(j, f) \/ Missing(j, f) \/ Begun(j, f))
BY DEF Committing, LeftAlone, Made

LEMMA CopyDeleteFinal ==
  ASSUME CopyInv, NEW j \in Job, NEW f \in File, Copy!DeleteFinal(j, f)
  PROVE  CopyInv'
<1>1. /\ job[j] = "committing" /\ renamed = {} /\ deleted = {} /\ Copy!PartsOf(f) # {}
      /\ files' = [files EXCEPT ![f] = <<>>] /\ deleted' = {f}
      /\ UNCHANGED <<source, job, latest, writing, copied, tries, chunks, plan, renamed, found,
                     clean, crashes>>
  BY DEF Copy!DeleteFinal, Copy!copying, Copy!history
<1>2. /\ files' \in [File -> Seq(Copy!Piece)]
      /\ \A g \in File : files'[g] = IF g = f THEN <<>> ELSE files[g]
  BY <1>1 DEF CopyInv
<1>3. /\ \A g \in File : Copy!PartsOf(g)' = Copy!PartsOf(g)
      /\ Copy!Existing' = Copy!Existing /\ plan \subseteq Copy!Existing
      /\ chunks \in [Copy!Split -> Copy!Chunk \cup {Copy!NoChunk}]
  BY <1>1 DEF Copy!PartsOf, Copy!Existing, CopyInv, Copy!TypeOK, OneCopies
<1>4. ASSUME Committing(j) PROVE Committing(j)'
  <2>1. Asked(j, f) /\ Untouched(j, f)
    BY <1>1, <1>4, CopyIsAsked DEF Missing, Begun
  <2>2. Missing(j, f)'
    BY <1>1, <1>2, <1>3, <2>1 DEF Missing, Untouched, AllParts
  <2>3. Copy!Existing' = plan' /\ \A k \in plan' : chunks'[k] = chunks[k]
    BY <1>1, <1>3, <1>4 DEF Committing
  <2> QED
    BY <1>1, <1>2, <1>3, <1>4, <2>1, <2>2, <2>3, CopyOthers
<1>5. \A g \in deleted' : Copy!PartsOf(g)' # {}
  BY <1>1, <1>3
<1> QED
  BY <1>1, <1>2, <1>3, <1>4, <1>5, CopyCommits

\* The chunk with the lowest offset.
LEMMA CopyFirst ==
  ASSUME CopyInv, NEW f \in File, Copy!PartsOf(f) # {}
  PROVE  \E k \in Copy!PartsOf(f) : \A l \in Copy!PartsOf(f) : k[2] <= l[2]
<1>1. PICK S : S = {k[2] : k \in Copy!PartsOf(f)}
  OBVIOUS
<1>2. S \in SUBSET Nat /\ S # {}
  <2>1. Copy!PartsOf(f) \in SUBSET ({f} \X Nat)
    BY CopyParts
  <2> HIDE DEF Copy!PartsOf
  <2> QED
    BY <1>1, <2>1
<1>3. PICK n \in S : \A m \in S : n <= m
  BY <1>2, LeastNumber
<1> QED
  BY <1>1, <1>3

LEMMA CopyRenameFirst ==
  ASSUME CopyInv, NEW j \in Job, NEW f \in File, Copy!RenameFirst(j, f)
  PROVE  CopyInv'
<1>1. PICK head : head = CHOOSE k \in Copy!PartsOf(f) : \A l \in Copy!PartsOf(f) : k[2] <= l[2]
  OBVIOUS
<1>2. /\ job[j] = "committing" /\ f \in deleted /\ deleted' = {}
      /\ files' = [files EXCEPT ![f] = <<Copy!PieceOf(head)>>]
      /\ chunks' = [chunks EXCEPT ![head] = Copy!NoChunk]
      /\ plan' = plan \ {head}
      /\ renamed' = IF Copy!PartsOf(f) = {head} THEN {} ELSE {f}
      /\ UNCHANGED <<source, job, latest, writing, copied, tries, found, clean, crashes>>
  BY <1>1 DEF Copy!RenameFirst, Copy!copying, Copy!history
<1>3. /\ Copy!PartsOf(f) # {} /\ renamed = {} /\ plan \subseteq Copy!Existing
      /\ \A g \in File : g # f => g \notin deleted
      /\ chunks \in [Copy!Split -> Copy!Chunk \cup {Copy!NoChunk}]
  BY <1>2 DEF CopyInv, OneCopies, Copy!TypeOK
<1>4. head \in Copy!PartsOf(f) /\ \A l \in Copy!PartsOf(f) : head[2] <= l[2]
  BY <1>1, <1>3, CopyFirst
<1>5. /\ head \in plan /\ head \in Copy!Split /\ head[1] = f /\ head = <<f, head[2]>>
      /\ head[2] \in Nat /\ Copy!PieceOf(head) \in Copy!Piece
  BY <1>4, CopyParts
<1>6. /\ files' \in [File -> Seq(Copy!Piece)]
      /\ \A g \in File : files'[g] = IF g = f THEN <<Copy!PieceOf(head)>> ELSE files[g]
  <2>1. PICK p \in Copy!Piece : p = Copy!PieceOf(head)
    BY <1>5
  <2> QED
    BY <1>2, <2>1 DEF CopyInv
<1>7. /\ chunks' \in [Copy!Split -> Copy!Chunk \cup {Copy!NoChunk}]
      /\ \A k \in Copy!Split : chunks'[k] = IF k = head THEN Copy!NoChunk ELSE chunks[k]
      /\ Copy!Existing' = Copy!Existing \ {head}
  BY <1>2, <1>3, <1>5 DEF Copy!Existing
<1>8. /\ Copy!PartsOf(f)' = Copy!PartsOf(f) \ {head}
      /\ \A g \in File : g # f => Copy!PartsOf(g)' = Copy!PartsOf(g)
  BY <1>2, <1>5 DEF Copy!PartsOf
<1>9. ASSUME Committing(j) PROVE Committing(j)'
  <2>1. Asked(j, f) /\ Missing(j, f)
    BY <1>2, <1>3, <1>9, CopyIsAsked DEF Untouched, Begun
  <2>2. Copy!PartsOf(f) = AllParts(j, f) /\ source[j][f] \in 1..MaxSplits
    BY <2>1, CopyWanted DEF Missing
  <2>3. head = <<f, 0>>
    <3>1. <<f, 0>> \in Copy!PartsOf(f)
      BY <2>2, CopyAssumption DEF AllParts
    <3>2. head[2] <= 0
      BY <1>4, <3>1
    <3> QED
      BY <1>5, <3>2
  <2>4. Copy!PieceOf(head) = PieceAt(j, 0)
    <3>1. chunks[head] = [job |-> {j}, whole |-> TRUE]
      BY <1>5, <1>9 DEF Committing
    <3>2. head[2] = 0
      BY <2>3
    <3> QED
      BY <3>1, <3>2 DEF Copy!PieceOf, PieceAt
  <2>5. ASSUME source[j][f] = 1 PROVE Made(j, f)'
    <3>1. Copy!PartsOf(f) = {head}
      BY <2>2, <2>3, <2>5 DEF AllParts
    <3>2. <<PieceAt(j, 0)>> = Copy!Wanted(j, f)
      <4>1. PICK s : s = <<PieceAt(j, 0)>>
        OBVIOUS
      <4>2. s \in Seq(Copy!Piece) /\ Len(s) = 1 /\ s[1] = PieceAt(j, 0)
        BY <1>5, <2>4, <4>1
      <4>3. PICK w \in Seq(Copy!Piece) :
              w = Copy!Wanted(j, f) /\ Len(w) = 1 /\ w[1] = PieceAt(j, 1 - 1)
        <5>1. /\ Copy!Wanted(j, f) \in Seq(Copy!Piece) /\ Len(Copy!Wanted(j, f)) = 1
              /\ \A i \in 1..1 : Copy!Wanted(j, f)[i] = PieceAt(j, i - 1)
          BY <2>1, <2>5, CopyWanted, ZenonT(30)
        <5> QED
          BY <5>1
      <4>4. s = w
        <5>1. PieceAt(j, 1 - 1) = PieceAt(j, 0)
          OBVIOUS
        <5>2. \A i \in 1..Len(s) : s[i] = w[i]
          BY <4>2, <4>3, <5>1
        <5> QED
          BY <4>2, <4>3, <5>2, SeqEqual
      <4> QED
        BY <4>1, <4>3, <4>4
    <3>3. Copy!Wanted(j, f)' = Copy!Wanted(j, f)
      BY <1>2 DEF Copy!Wanted
    <3> QED
      BY <1>2, <1>6, <1>8, <2>4, <3>1, <3>2, <3>3 DEF Made
  <2>6. ASSUME source[j][f] # 1 PROVE Begun(j, f)'
    <3>1. <<f, 1>> \in Copy!PartsOf(f)
      BY <2>2, <2>6, CopyAssumption DEF AllParts
    <3>2. renamed' = {f}
      BY <1>2, <2>3, <3>1
    <3>3. source'[j][f] > 1 /\ AllParts(j, f)' = AllParts(j, f)
      BY <1>2, <2>2, <2>6, CopyAssumption DEF AllParts
    <3> QED
      BY <1>2, <1>6, <1>8, <2>2, <2>3, <2>4, <3>2, <3>3 DEF Begun, PieceAt
  <2>7. Begun(j, f)' \/ Made(j, f)'
    BY <2>5, <2>6
  <2>8. Copy!Existing' = plan' /\ \A k \in plan' : chunks'[k] = chunks[k]
    BY <1>2, <1>3, <1>7, <1>9 DEF Committing, Copy!Existing
  <2>9. \A g \in File : g # f => /\ files'[g] = files[g]
                                 /\ g \in renamed' <=> g \in renamed
                                 /\ g \in deleted' <=> g \in deleted
                                 /\ Copy!PartsOf(g)' = Copy!PartsOf(g)
    <3>1. \A g \in File : g # f => g \notin renamed' /\ g \notin deleted'
                                  /\ g \notin renamed /\ g \notin deleted
      BY <1>2, <1>3
    <3> QED
      BY <1>6, <1>8, <3>1
  <2>10. plan' \subseteq plan /\ UNCHANGED <<source, found>>
    BY <1>2
  <2>11. IF Asked(j, f) THEN Untouched(j, f)' \/ Missing(j, f)' \/ Begun(j, f)' \/ Made(j, f)'
         ELSE LeftAlone(f)'
    BY <2>1, <2>7
  <2> QED
    BY <1>6, <1>9, <2>8, <2>9, <2>10, <2>11, CopyOthers
<1>10. plan' \subseteq Copy!Existing' /\ renamed' \subseteq File /\ deleted' \subseteq File
  BY <1>2, <1>3, <1>7
<1> QED
  BY <1>2, <1>6, <1>7, <1>9, <1>10, CopyCommits

LEMMA CopyRow ==
  ASSUME NEW f, NEW m \in Nat
  PROVE  IsFiniteSet({f} \X (1..m)) /\ Cardinality({f} \X (1..m)) = m
<1>1. IsFiniteSet({f}) /\ Cardinality({f}) = 1
  BY FS_Singleton
<1>2. IsFiniteSet(1..m) /\ Cardinality(1..m) = m
  BY FS_Interval
<1>3. IsFiniteSet({f} \X (1..m)) /\ Cardinality({f} \X (1..m)) = Cardinality({f}) * Cardinality(1..m)
  BY <1>1, <1>2, FS_Product
<1> QED
  BY <1>1, <1>2, <1>3

\* The part that Concat takes in its i-th place.
CopyNth(f, i) ==
  CHOOSE k \in Copy!PartsOf(f) : Copy!Cardinality({l \in Copy!PartsOf(f) : l[2] < k[2]}) = i - 1

LEMMA CopyInOrder ==
  ASSUME CopyInv, NEW f \in File
  PROVE  /\ Cardinality(Copy!PartsOf(f)) \in Nat
         /\ \A i \in 1..Cardinality(Copy!PartsOf(f)) :
              /\ CopyNth(f, i) \in Copy!PartsOf(f)
              /\ \A k \in Copy!PartsOf(f) :
                   Cardinality({l \in Copy!PartsOf(f) : l[2] < k[2]}) = i - 1 => k = CopyNth(f, i)
<1>1. PICK S : S = Copy!PartsOf(f)
  OBVIOUS
<1>2. IsFiniteSet(S) /\ S \in SUBSET ({f} \X Nat)
  BY <1>1, CopyParts
<1>3. Cardinality(S) \in Nat
  BY <1>2, FS_CardinalityType
<1>4. ASSUME NEW i \in 1..Cardinality(S)
      PROVE  /\ CopyNth(f, i) \in S
             /\ \A k \in S : Cardinality({l \in S : l[2] < k[2]}) = i - 1 => k = CopyNth(f, i)
  <2>1. /\ \E k \in S : Cardinality({l \in S : l[2] < k[2]}) = i - 1
        /\ \A k, m \in S : Cardinality({l \in S : l[2] < k[2]}) = Cardinality({l \in S : l[2] < m[2]})
                             => k = m
    BY <1>2, Ranks
  <2>2. \A k \in S : Copy!Cardinality({l \in S : l[2] < k[2]}) = Cardinality({l \in S : l[2] < k[2]})
    BY CopyCount
  <2>3. PICK c : c = CHOOSE k \in S : Copy!Cardinality({l \in S : l[2] < k[2]}) = i - 1
    OBVIOUS
  <2>4. c \in S /\ Copy!Cardinality({l \in S : l[2] < c[2]}) = i - 1
    BY <2>1, <2>2, <2>3, ZenonT(30)
  <2>5. c = CopyNth(f, i)
    BY <1>1, <2>3 DEF CopyNth
  <2>6. Cardinality({l \in S : l[2] < c[2]}) = i - 1
    BY <2>2, <2>4
  <2> QED
    BY <2>1, <2>4, <2>5, <2>6
<1> QED
  BY <1>1, <1>3, <1>4

LEMMA CopyConcat ==
  ASSUME CopyInv, NEW j \in Job, NEW f \in File, Copy!Concat(j, f)
  PROVE  CopyInv'
<1>1. PICK n, tail : /\ n = Cardinality(Copy!PartsOf(f))
                     /\ tail = [i \in 1..n |-> Copy!PieceOf(CopyNth(f, i))]
  OBVIOUS
<1>2. /\ job[j] = "committing" /\ f \in renamed /\ renamed' = {}
      /\ files' = [files EXCEPT ![f] = files[f] \o tail]
      /\ chunks' = [k \in Copy!Split |-> IF k \in Copy!PartsOf(f) THEN Copy!NoChunk ELSE chunks[k]]
      /\ plan' = plan \ Copy!PartsOf(f)
      /\ UNCHANGED <<source, job, latest, writing, copied, tries, deleted, found, clean, crashes>>
  <2>1. PICK S : S = Copy!PartsOf(f)
    OBVIOUS
  <2>2. [i \in 1..Copy!Cardinality(S) |->
           Copy!PieceOf(CHOOSE k \in S : Copy!Cardinality({l \in S : l[2] < k[2]}) = i - 1)] = tail
    <3>1. Copy!Cardinality(S) = n
      BY <1>1, <2>1, CopyCount
    <3> QED
      BY <1>1, <2>1, <3>1 DEF CopyNth
  <2>3. files' = [files EXCEPT ![f] = files[f] \o
           [i \in 1..Copy!Cardinality(S) |->
             Copy!PieceOf(CHOOSE k \in S : Copy!Cardinality({l \in S : l[2] < k[2]}) = i - 1)]]
    BY <2>1 DEF Copy!Concat
  <2> QED
    BY <2>2, <2>3 DEF Copy!Concat, Copy!copying, Copy!history
<1>3. /\ deleted = {} /\ plan \subseteq Copy!Existing /\ \A g \in File : g # f => g \notin renamed
      /\ chunks \in [Copy!Split -> Copy!Chunk \cup {Copy!NoChunk}]
  BY <1>2 DEF CopyInv, OneCopies, Copy!TypeOK
<1>4. /\ n \in Nat
      /\ \A i \in 1..n : /\ CopyNth(f, i) \in Copy!PartsOf(f)
                         /\ \A k \in Copy!PartsOf(f) :
                              Cardinality({l \in Copy!PartsOf(f) : l[2] < k[2]}) = i - 1 => k = CopyNth(f, i)
  BY <1>1, CopyInOrder
<1>5. tail \in Seq(Copy!Piece) /\ Len(tail) = n
  <2>1. \A i \in 1..n : Copy!PieceOf(CopyNth(f, i)) \in Copy!Piece
    BY <1>4, CopyParts
  <2> QED
    BY <1>1, <1>4, <2>1
<1>6. /\ files' \in [File -> Seq(Copy!Piece)]
      /\ files[f] \in Seq(Copy!Piece)
      /\ \A g \in File : files'[g] = IF g = f THEN files[f] \o tail ELSE files[g]
  BY <1>2, <1>5 DEF CopyInv
<1>7. /\ chunks' \in [Copy!Split -> Copy!Chunk \cup {Copy!NoChunk}]
      /\ Copy!Existing' = Copy!Existing \ Copy!PartsOf(f)
      /\ \A k \in plan' : chunks'[k] = chunks[k]
  <2>1. PICK S : S = Copy!PartsOf(f)
    OBVIOUS
  <2> QED
    BY <1>2, <1>3, <2>1 DEF Copy!Existing
<1>8. /\ Copy!PartsOf(f)' = {}
      /\ \A g \in File : g # f => Copy!PartsOf(g)' = Copy!PartsOf(g)
  BY <1>2 DEF Copy!PartsOf
<1>9. ASSUME Committing(j) PROVE Committing(j)'
  <2>1. Asked(j, f) /\ Begun(j, f)
    BY <1>2, <1>3, <1>9 DEF Committing, LeftAlone, Untouched, Missing, Made
  <2>2. PICK m : m = source[j][f] - 1
    OBVIOUS
  <2>3. m \in Nat \ {0} /\ source[j][f] = m + 1 /\ m + 1 \in 1..MaxSplits
    BY <2>1, <2>2, CopyWanted, CopyAssumption DEF Begun
  <2>4. Copy!PartsOf(f) = {f} \X (1..m)
    BY <2>1, <2>3 DEF Begun, AllParts
  <2>5. n = m
    BY <1>1, <2>3, <2>4, CopyRow
  <2>6. ASSUME NEW i \in 1..m PROVE tail[i] = PieceAt(j, i)
    <3>1. <<f, i>> \in Copy!PartsOf(f)
      BY <2>4
    <3>2. {l \in Copy!PartsOf(f) : l[2] < i} = {f} \X (1..(i - 1))
      BY <2>3, <2>4
    <3>3. Cardinality({l \in Copy!PartsOf(f) : l[2] < <<f, i>>[2]}) = i - 1
      <4>1. i - 1 \in Nat
        OBVIOUS
      <4>2. Cardinality({f} \X (1..(i - 1))) = i - 1
        BY <4>1, CopyRow
      <4> QED
        BY <3>2, <4>2
    <3>4. CopyNth(f, i) = <<f, i>>
      BY <1>4, <2>5, <3>1, <3>3
    <3>5. chunks[<<f, i>>] = [job |-> {j}, whole |-> TRUE]
      BY <1>9, <3>1 DEF Committing, Copy!PartsOf
    <3>6. tail[i] = Copy!PieceOf(<<f, i>>)
      BY <1>1, <2>5, <3>4
    <3> QED
      BY <3>5, <3>6 DEF Copy!PieceOf, PieceAt
  <2>7. files[f] \o tail = Copy!Wanted(j, f)
    <3>1. /\ Copy!Wanted(j, f) \in Seq(Copy!Piece) /\ Len(Copy!Wanted(j, f)) = m + 1
          /\ \A i \in 1..(m + 1) : Copy!Wanted(j, f)[i] = PieceAt(j, i - 1)
      BY <2>1, <2>3, CopyWanted
    <3>2. Len(files[f]) = 1 /\ files[f][1] = PieceAt(j, 0)
      BY <2>1 DEF Begun
    <3>3. PICK s, b \in Seq(Copy!Piece) : s = files[f] \o tail /\ b = files[f]
      BY <1>5, <1>6
    <3>4. Len(s) = m + 1 /\ \A i \in 1..(m + 1) : s[i] = IF i <= 1 THEN b[i] ELSE tail[i - 1]
      <4>1. /\ Len(b \o tail) = Len(b) + Len(tail)
            /\ \A i \in 1..(Len(b) + Len(tail)) :
                 (b \o tail)[i] = IF i <= Len(b) THEN b[i] ELSE tail[i - Len(b)]
        BY <1>5, <3>3, ConcatProperties, ZenonT(30)
      <4>2. Len(b) = 1 /\ Len(tail) = m /\ Len(b) + Len(tail) = m + 1 /\ s = b \o tail
        <5>1. Len(b) = 1 /\ s = b \o tail
          BY <3>2, <3>3
        <5>2. Len(tail) = m /\ 1 + m = m + 1
          BY <1>5, <2>3, <2>5
        <5> QED
          BY <5>1, <5>2
      <4> QED
        BY <4>1, <4>2
    <3>5. ASSUME NEW i \in 1..(m + 1) PROVE s[i] = PieceAt(j, i - 1)
      <4>1. i = 1 => s[i] = PieceAt(j, 0) /\ i - 1 = 0
        BY <3>2, <3>3, <3>4
      <4>2. i # 1 => i - 1 \in 1..m
        BY <2>3
      <4>3. i # 1 => s[i] = tail[i - 1]
        BY <2>3, <3>4
      <4>4. i # 1 => tail[i - 1] = PieceAt(j, i - 1)
        BY <2>6, <4>2
      <4> QED
        BY <4>1, <4>3, <4>4
    <3>6. s = Copy!Wanted(j, f)
      BY <3>1, <3>3, <3>4, <3>5, SeqEqual, SMTT(30)
    <3> QED
      BY <3>3, <3>6
  <2>8. Made(j, f)'
    <3>1. Copy!Wanted(j, f)' = Copy!Wanted(j, f)
      BY <1>2 DEF Copy!Wanted
    <3> QED
      BY <1>2, <1>3, <1>6, <1>8, <2>7, <3>1 DEF Made
  <2>9. \A g \in File : g # f => files'[g] = files[g] /\ (g \in renamed' <=> g \in renamed)
                                /\ (g \in deleted' <=> g \in deleted)
                                /\ Copy!PartsOf(g)' = Copy!PartsOf(g)
    <3>1. \A g \in File : g # f => g \notin renamed' /\ g \notin renamed
      BY <1>2, <1>3
    <3>2. deleted' = deleted
      BY <1>2
    <3> QED
      BY <1>6, <1>8, <3>1, <3>2
  <2>10. plan' \subseteq plan /\ UNCHANGED <<source, found>> /\ Copy!Existing' = plan'
    BY <1>2, <1>7, <1>9 DEF Committing
  <2>11. IF Asked(j, f) THEN Untouched(j, f)' \/ Missing(j, f)' \/ Begun(j, f)' \/ Made(j, f)'
         ELSE LeftAlone(f)'
    BY <2>1, <2>8
  <2> QED
    BY <1>6, <1>7, <1>9, <2>9, <2>10, <2>11, CopyOthers
<1>10. plan' \subseteq Copy!Existing' /\ renamed' \subseteq File /\ deleted' \subseteq File
  BY <1>2, <1>3, <1>7
<1> QED
  BY <1>2, <1>3, <1>6, <1>7, <1>9, <1>10, CopyCommits

LEMMA CopyCreateEmpty ==
  ASSUME CopyInv, NEW j \in Job, Copy!CreateEmpty(j)
  PROVE  CopyInv'
<1> USE CopyAssumption
<1>1. /\ job[j] = "committing" /\ plan = {} /\ renamed = {}
      /\ files' = [f \in File |-> IF f \in Hidden /\ source[j][f] = 1 /\ files[f] = <<>>
                                 THEN <<PieceAt(j, 0)>> ELSE files[f]]
      /\ job' = [job EXCEPT ![j] = "succeeded"]
      /\ UNCHANGED <<source, latest, writing, copied, tries, chunks, plan, renamed, deleted, found,
                     clean, crashes>>
  BY DEF Copy!CreateEmpty, Copy!copying, Copy!commit, Copy!history, PieceAt
<1>2. /\ latest = {j} /\ \A i \in Job : i # j => job[i] \notin Active
      /\ writing = {} /\ clean \subseteq Job /\ \A i \in clean : job[i] # "waiting"
  BY <1>1, CopyAlone DEF Active
<1>3. \A i \in Job : job'[i] = IF i = j THEN "succeeded" ELSE job[i]
  BY <1>1 DEF CopyInv, Copy!TypeOK
<1>4. deleted = {}
  BY <1>1 DEF CopyInv, OneCopies, Copy!TypeOK, Copy!PartsOf
<1>5. PICK p \in Copy!Piece : p = PieceAt(j, 0)
  <2>1. 0 \in 0..(MaxSplits - 1)
    OBVIOUS
  <2>2. PieceAt(j, 0) \in Copy!Piece
    BY <2>1 DEF PieceAt, Copy!Piece
  <2> QED
    BY <2>2
<1>6. /\ files' \in [File -> Seq(Copy!Piece)]
      /\ \A f \in File : files'[f] = IF f \in Hidden /\ source[j][f] = 1 /\ files[f] = <<>>
                                    THEN <<p>> ELSE files[f]
  BY <1>1, <1>5 DEF CopyInv
<1>7. Copy!TypeOK'
  BY <1>1, <1>6 DEF CopyInv, Copy!TypeOK
<1>8. OneCopies'
  <2>1. \A i \in Job : job'[i] # "mapping" /\ (job'[i] \in Active => latest' = {i})
    BY <1>2, <1>3 DEF Active
  <2>2. \A i \in clean' : job'[i] # "waiting"
    BY <1>1, <1>2, <1>3
  <2>3. writing' = {} /\ plan' = {} /\ renamed' = {} /\ deleted' = {}
    BY <1>1, <1>2, <1>4
  <2> QED
    BY <2>1, <2>2, <2>3 DEF OneCopies
<1>9. ASSUME j \in clean, CleanCopy(j) PROVE CleanCopy(j)'
  <2>1. Committing(j)
    BY <1>1, <1>9 DEF CleanCopy
  <2>2. Copy!Existing' = {}
    BY <1>1, <2>1 DEF Committing, Copy!Existing
  <2>3. ASSUME NEW f \in File PROVE files'[f] = Copy!Wanted(j, f)
    <3>1. Copy!PartsOf(f) = {}
      BY <1>1 DEF Copy!PartsOf
    <3>2. CASE Asked(j, f)
      <4>1. source[j][f] \in 1..MaxSplits
        BY <3>2, CopyWanted
      <4>2. <<f, 0>> \in AllParts(j, f) /\ (source[j][f] > 1 => <<f, 1>> \in AllParts(j, f))
        BY <4>1 DEF AllParts
      <4>3. Made(j, f)
        BY <2>1, <3>1, <3>2, <4>2 DEF Committing, Untouched, Missing, Begun
      <4> QED
        BY <1>6, <3>2, <4>3 DEF Asked, Made
    <3>3. CASE ~Asked(j, f)
      <4>1. files[f] = found[f]
        BY <2>1, <3>3 DEF Committing, LeftAlone
      <4>2. source[j] \in Sources /\ source[j][f] \in 0..MaxSplits
        BY CopyTypes DEF CopyInv, Copy!TypeOK
      <4>3. CASE source[j][f] = 0 \/ found[f] # <<>> \/ source[j][f] > 1
        BY <1>6, <3>3, <4>1, <4>2, <4>3 DEF Asked, Copy!Wanted
      <4>4. CASE source[j][f] = 1 /\ found[f] = <<>>
        <5>1. f \in Hidden /\ source[j][f] = 1
          BY <3>3, <4>2, <4>4 DEF Asked
        <5>2. Copy!Wanted(j, f) = [i \in 1..1 |-> PieceAt(j, i - 1)]
          BY <4>4, <5>1 DEF Copy!Wanted, PieceAt
        <5>3. Copy!Wanted(j, f) = <<PieceAt(j, 0)>>
          BY <5>2
        <5> QED
          BY <1>5, <1>6, <4>1, <4>4, <5>1, <5>3
      <4> QED
        BY <4>2, <4>3, <4>4
    <3> QED
      BY <3>2, <3>3
  <2>4. \A f \in File : Copy!Wanted(j, f)' = Copy!Wanted(j, f)
    BY <1>1 DEF Copy!Wanted
  <2>5. Prefixes(j)'
    <3> SUFFICES ASSUME NEW f \in File
                 PROVE  \E n \in 0..Len(Copy!Wanted(j, f)') :
                          files'[f] = SubSeq(Copy!Wanted(j, f)', 1, n)
      BY DEF Prefixes
    <3>1. PICK w \in Seq(Copy!Piece) : w = files'[f]
      BY <1>6
    <3>2. SubSeq(w, 1, Len(w)) = w /\ Len(w) \in 0..Len(w)
      BY <3>1
    <3> QED
      BY <2>3, <2>4, <3>1, <3>2
  <2> QED
    BY <1>3, <2>2, <2>3, <2>4, <2>5 DEF CleanCopy
<1> QED
  BY <1>1, <1>6, <1>7, <1>8, <1>9, CopyByOne DEF Active

LEMMA CopyStep == CopyInv /\ Copy!Next => CopyInv'
<1> SUFFICES ASSUME CopyInv, Copy!Next PROVE CopyInv'
  OBVIOUS
<1>1. PICK j \in Job :
        \/ Copy!Submit(j) \/ Copy!Kill(j) \/ Copy!CommitJob(j) \/ Copy!CreateEmpty(j)
        \/ Copy!CommitFails(j) \/ Copy!AbortJob(j)
        \/ \E k \in Copy!Split : \/ Copy!CreateChunk(j, k) \/ Copy!CloseChunk(j, k)
                                \/ Copy!AttemptDies(j, k)
        \/ \E f \in File : Copy!DeleteFinal(j, f) \/ Copy!RenameFirst(j, f) \/ Copy!Concat(j, f)
  BY DEF Copy!Next
<1>2. CASE \E k \in Copy!Split : \/ Copy!CreateChunk(j, k) \/ Copy!CloseChunk(j, k)
                                \/ Copy!AttemptDies(j, k)
  BY <1>2, CopyCreateChunk, CopyCloseChunk, CopyAttemptDies
<1>3. CASE \E f \in File : Copy!DeleteFinal(j, f) \/ Copy!RenameFirst(j, f) \/ Copy!Concat(j, f)
  BY <1>3, CopyDeleteFinal, CopyRenameFirst, CopyConcat
<1> QED
  BY <1>1, <1>2, <1>3, CopySubmit, CopyKill, CopyCommitJob, CopyCreateEmpty, CopyCommitFails,
     CopyAbortJob

-----------------------------------------------------------------------------
(* The pages with forms *)

\* The fields of the form that p has not sent yet.
Left(p) == {unsent[p][i] : i \in 1..Len(unsent[p])}

\* What a field that was sent has to hold, should no error be shown.
Settled(p, f) ==
  ~errors[p] => db[f] = Pages!Saved(p, f) \/ (f \in entered[p] /\ Pages!Forgotten(f))

\* What a person whom nobody has crossed sees and does.
Undisputed(p) ==
  /\ stage[p] = "editing" => db = seen[p]
  /\ stage[p] = "sending" =>
       \A f \in Pages!Columns(kind) :
         IF f \in Pages!FieldsOf(kind) \ Left(p) THEN Settled(p, f) ELSE db[f] = seen[p][f]
  /\ stage[p] = "success" =>
       /\ ~errors[p]
       /\ \A f \in Pages!Columns(kind) :
            IF f \in Pages!FieldsOf(kind) THEN Settled(p, f) ELSE db[f] = seen[p][f]

PagesInv ==
  /\ Pages!TypeOK /\ DOMAIN unsent = Person
  /\ \A p \in Person : alone[p] => Undisputed(p)

FieldName == {"guard", "max", "min", "weight", "boundary", "boundary_type", "amount",
              "rescale_policy", "up_events_required", "down_events_required",
              "polling_frequency", "debug", "resources_persisted", "window_timelapse",
              "generated_metrics", "models_to_train", "control_policy", "power_model"}
OnceEach(F) == F \in Seq(FieldName) /\ \A i, j \in 1..Len(F) : F[i] = F[j] => i = j

\* No form has a field twice.
LEMMA Forms ==
  ASSUME NEW k \in Pages!Kind
  PROVE  OnceEach(Pages!Form[k]) /\ Pages!FieldsOf(k) = {Pages!Form[k][i] : i \in 1..Len(Pages!Form[k])}
<1>1. OnceEach(Pages!ContainerForm) /\ OnceEach(Pages!HostForm) /\ OnceEach(Pages!UserForm)
  BY DEF OnceEach, FieldName, Pages!ContainerForm, Pages!HostForm, Pages!UserForm
<1>2. OnceEach(Pages!LimitsForm) /\ OnceEach(Pages!RuleForm) /\ OnceEach(Pages!ServiceForm)
  BY DEF OnceEach, FieldName, Pages!LimitsForm, Pages!RuleForm, Pages!ServiceForm
<1>3. OnceEach(Pages!TrainerForm) /\ OnceEach(Pages!ControllerForm)
  BY DEF OnceEach, FieldName, Pages!TrainerForm, Pages!ControllerForm
<1>4. OnceEach(Pages!Form[k])
  <2>1. Pages!Form[k] \in {Pages!ContainerForm, Pages!HostForm, Pages!UserForm, Pages!LimitsForm,
                          Pages!RuleForm, Pages!ServiceForm, Pages!TrainerForm, Pages!ControllerForm}
    BY DEF Pages!Kind, Pages!Form
  <2> QED
    BY <1>1, <1>2, <1>3, <2>1
<1>5. PICK F \in Seq(FieldName) : F = Pages!Form[k]
  BY <1>4 DEF OnceEach
<1>6. Pages!FieldsOf(k) = {F[i] : i \in 1..Len(F)}
  BY <1>5 DEF Pages!FieldsOf
<1> QED
  BY <1>4, <1>5, <1>6

\* What is still to be sent is the rest of the form, each field once.
LEMMA LeftStep ==
  ASSUME Pages!TypeOK, NEW p \in Person, unsent[p] # <<>>
  PROVE  /\ Head(unsent[p]) \in Pages!FieldsOf(kind) /\ Head(unsent[p]) \in Left(p)
         /\ {Tail(unsent[p])[i] : i \in 1..Len(Tail(unsent[p]))} = Left(p) \ {Head(unsent[p])}
         /\ \E i \in 1..Len(Pages!Form[kind]) + 1 :
              Tail(unsent[p]) = SubSeq(Pages!Form[kind], i, Len(Pages!Form[kind]))
<1>1. PICK F \in Seq(FieldName) : F = Pages!Form[kind]
  BY Forms DEF Pages!TypeOK, OnceEach
<1>2. /\ \A i, j \in 1..Len(F) : F[i] = F[j] => i = j
      /\ Pages!FieldsOf(kind) = {F[i] : i \in 1..Len(F)}
  BY <1>1, Forms DEF Pages!TypeOK, OnceEach
<1>3. PICK i \in 1..Len(F) + 1 : unsent[p] = SubSeq(F, i, Len(F))
  BY <1>1 DEF Pages!TypeOK
<1>4. PICK u : u = unsent[p]
  OBVIOUS
<1>5. /\ u \in Seq(FieldName) /\ Len(u) = Len(F) - i + 1
      /\ \A m \in 1..Len(u) : u[m] = F[m + i - 1]
  <2>1. \A m \in i..Len(F) : F[m] \in FieldName
    OBVIOUS
  <2> QED
    BY <1>3, <1>4, <2>1, SubSeqProperties
<1>6. i \in 1..Len(F)
  BY <1>4, <1>5
<1>7. Head(u) = F[i] /\ Tail(u) = SubSeq(F, i + 1, Len(F))
  BY <1>3, <1>4, <1>6, HeadTailOfSubSeq
<1>8. PICK t : t = Tail(u)
  OBVIOUS
<1>9. /\ t \in Seq(FieldName) /\ Len(t) = Len(F) - i
      /\ \A m \in 1..Len(t) : t[m] = F[m + i]
  <2>1. \A m \in (i + 1)..Len(F) : F[m] \in FieldName
    OBVIOUS
  <2>2. PICK n \in Int : n = i + 1
    OBVIOUS
  <2>3. /\ t \in Seq(FieldName) /\ Len(t) = IF n <= Len(F) THEN Len(F) - n + 1 ELSE 0
        /\ \A m \in 1..Len(F) - n + 1 : t[m] = F[n + m - 1]
    <3>1. t = SubSeq(F, n, Len(F)) /\ Len(F) \in Int /\ \A m \in n..Len(F) : F[m] \in FieldName
      BY <1>7, <1>8, <2>1, <2>2
    <3> QED
      BY <3>1, SubSeqProperties
  <2>4. Len(t) = Len(F) - i
    BY <1>6, <2>2, <2>3
  <2>5. \A m \in 1..Len(t) : m \in 1..Len(F) - n + 1 /\ n + m - 1 = m + i
    BY <1>6, <2>2, <2>4
  <2> QED
    BY <2>3, <2>4, <2>5
<1>10. {u[m] : m \in 1..Len(u)} = {F[m] : m \in i..Len(F)}
  <2>1. ASSUME NEW m \in i..Len(F) PROVE \E l \in 1..Len(u) : u[l] = F[m]
    <3>1. m - i + 1 \in 1..Len(u) /\ m - i + 1 + i - 1 = m
      BY <1>5, <1>6
    <3> QED
      BY <1>5, <3>1
  <2>2. ASSUME NEW m \in 1..Len(u) PROVE \E l \in i..Len(F) : F[l] = u[m]
    <3>1. m + i - 1 \in i..Len(F)
      BY <1>5, <1>6
    <3> QED
      BY <1>5, <3>1
  <2>3. \A m \in 1..Len(u) : u[m] \in {F[l] : l \in i..Len(F)}
    BY <2>2
  <2>4. \A m \in i..Len(F) : F[m] \in {u[l] : l \in 1..Len(u)}
    BY <2>1
  <2> QED
    BY <2>3, <2>4, Zenon
<1>11. {t[m] : m \in 1..Len(t)} = {F[m] : m \in (i + 1)..Len(F)}
  <2>1. ASSUME NEW m \in (i + 1)..Len(F) PROVE \E l \in 1..Len(t) : t[l] = F[m]
    <3>1. m - i \in 1..Len(t) /\ m - i + i = m
      BY <1>6, <1>9
    <3> QED
      BY <1>9, <3>1
  <2>2. ASSUME NEW m \in 1..Len(t) PROVE \E l \in (i + 1)..Len(F) : F[l] = t[m]
    <3>1. m + i \in (i + 1)..Len(F)
      BY <1>6, <1>9
    <3> QED
      BY <1>9, <3>1
  <2>3. \A m \in 1..Len(t) : t[m] \in {F[l] : l \in (i + 1)..Len(F)}
    BY <2>2
  <2>4. \A m \in (i + 1)..Len(F) : F[m] \in {t[l] : l \in 1..Len(t)}
    BY <2>1
  <2> QED
    BY <2>3, <2>4, Zenon
<1>12. {F[m] : m \in (i + 1)..Len(F)} = {F[m] : m \in i..Len(F)} \ {F[i]}
  BY <1>2, <1>6
<1>13. Left(p) = {u[m] : m \in 1..Len(u)} /\ F[i] \in {F[m] : m \in i..Len(F)}
  BY <1>4, <1>6 DEF Left
<1>14. {t[m] : m \in 1..Len(t)} = Left(p) \ {F[i]} /\ F[i] \in Left(p)
  BY <1>10, <1>11, <1>12, <1>13
<1>15. i + 1 \in 1..Len(F) + 1 /\ t = SubSeq(F, i + 1, Len(F)) /\ F[i] \in Pages!FieldsOf(kind)
  BY <1>2, <1>6, <1>7, <1>8
<1> QED
  BY <1>1, <1>4, <1>7, <1>8, <1>14, <1>15

LEMMA FormEnds ==
  ASSUME NEW k \in Pages!Kind
  PROVE  \E i \in 1..Len(Pages!Form[k]) + 1 : <<>> = SubSeq(Pages!Form[k], i, Len(Pages!Form[k]))
<1>1. PICK F \in Seq(FieldName) : F = Pages!Form[k]
  BY Forms DEF OnceEach
<1>2. PICK n \in 1..Len(F) + 1 : n = Len(F) + 1
  OBVIOUS
<1>3. SubSeq(F, n, Len(F)) = <<>>
  BY <1>2, SubSeqEmpty
<1> QED
  BY <1>1, <1>3

\* The texts there are.
Text == Person \cup {Old, Absent, Empty, FitToUsage, Proportional}

\* A plain value is one of any field, and so is what a field may have of any text.
LEMMA PagesValues ==
  ASSUME NEW t \in Text, NEW f
  PROVE  Pages!Plain(t) \in Pages!Value(f) /\ Pages!Full(f, t) \in Pages!Value(f)
<1>1. ASSUME NEW S
      PROVE  /\ FALSE \in (IF f \in S THEN BOOLEAN ELSE {FALSE})
             /\ (f \in S) \in (IF f \in S THEN BOOLEAN ELSE {FALSE})
  <2>1. CASE f \in S
    <3>1. (IF f \in S THEN BOOLEAN ELSE {FALSE}) = BOOLEAN
      BY <2>1, Zenon
    <3>2. FALSE \in BOOLEAN /\ (f \in S) \in BOOLEAN
      OBVIOUS
    <3> QED
      BY <3>1, <3>2, Zenon
  <2>2. CASE f \notin S
    <3>1. (IF f \in S THEN BOOLEAN ELSE {FALSE}) = {FALSE}
      BY <2>2, Zenon
    <3>2. FALSE \in {FALSE}
      OBVIOUS
    <3>3. (f \in S) = FALSE
      BY <2>2
    <3> QED
      BY <3>1, <3>2, <3>3, Zenon
  <2> QED
    BY <2>1, <2>2
<1>2. /\ FALSE \in (IF f \in Pages!Cased THEN BOOLEAN ELSE {FALSE})
      /\ FALSE \in (IF f \in Pages!Multiple THEN BOOLEAN ELSE {FALSE})
      /\ (f \in Pages!Cased) \in (IF f \in Pages!Cased THEN BOOLEAN ELSE {FALSE})
      /\ (f \in Pages!Multiple) \in (IF f \in Pages!Multiple THEN BOOLEAN ELSE {FALSE})
  BY <1>1, Zenon
<1> QED
  BY <1>2 DEF Pages!Plain, Pages!Full, Pages!Value, Text

\* What a page shows in a field, and what was wanted of it, is a value of the field.
LEMMA PagesWants ==
  ASSUME PagesInv, NEW p \in Person, NEW f \in Pages!Columns(kind)
  PROVE  /\ seen[p][f] \in Pages!Value(f) /\ Pages!Wanted(p, f) \in Pages!Value(f)
         /\ f \in entered[p] => f \notin Pages!NoInput
<1>1. seen[p][f] \in Pages!Value(f) /\ (f \in entered[p] => f \notin Pages!NoInput)
  BY DEF PagesInv, Pages!TypeOK
<1>2. Pages!Full(f, p) \in Pages!Value(f)
  BY PagesValues DEF Text
<1> QED
  BY <1>1, <1>2 DEF Pages!Wanted

\* A value without capitals and of one choice is what lower() leaves of it.
LEMMA PagesLowers ==
  ASSUME NEW f, NEW v \in Pages!Value(f)
  PROVE  /\ Pages!Lowered(v) = Pages!Plain(v.text) /\ Pages!Lowered(v) \in Pages!Value(f)
         /\ f \notin Pages!Cased \cup Pages!Multiple => Pages!Lowered(v) = v
<1>1. /\ v = [text |-> v.text, capitals |-> v.capitals, several |-> v.several]
      /\ v.text \in Text
      /\ f \notin Pages!Cased => v.capitals = FALSE
      /\ f \notin Pages!Multiple => v.several = FALSE
  BY DEF Pages!Value, Text
<1>2. Pages!Lowered(v) = Pages!Plain(v.text)
  BY DEF Pages!Lowered
<1>3. Pages!Plain(v.text) \in Pages!Value(f)
  BY <1>1, PagesValues
<1> QED
  BY <1>1, <1>2, <1>3 DEF Pages!Plain

\* What is sent of a field, and stored, is what is left of what was wanted.
LEMMA PagesConverts ==
  ASSUME PagesInv, NEW p \in Person, NEW f \in Pages!FieldsOf(kind), NEW v,
         v = Pages!ValueSent(p, f)
  PROVE  /\ v = Pages!NoValue => Pages!Saved(p, f) = seen[p][f]
         /\ v # Pages!NoValue /\ ~Pages!Missing(f, v) => Pages!Stored(f, v) = Pages!Saved(p, f)
         /\ Pages!Stored(f, v) \in Pages!Value(f)
<1> USE PagesAssumption
<1>1. PICK w, s : w = Pages!Wanted(p, f) /\ s = seen[p][f]
  OBVIOUS
<1>2. /\ f \in Pages!Columns(kind) /\ w \in Pages!Value(f) /\ s \in Pages!Value(f)
      /\ f \in entered[p] => f \notin Pages!NoInput /\ w = Pages!Full(f, p)
      /\ f \notin entered[p] => w = s
  BY <1>1, PagesWants DEF Pages!Columns, Pages!Wanted
<1>3. Pages!NoValue \in Pages!Value(f) /\ Pages!EmptyList \in Pages!Value(f)
      /\ Pages!Plain(Proportional) \in Pages!Value(f)
  BY PagesValues DEF Text, Pages!NoValue, Pages!EmptyList
<1>4. v = w \/ (f \notin entered[p] /\ v = Pages!Shown(f, s))
  BY <1>1, <1>2 DEF Pages!ValueSent
<1>5. v \in Pages!Value(f)
  BY <1>2, <1>3, <1>4 DEF Pages!Shown
<1>6. Pages!Stored(f, v) \in Pages!Value(f)
  BY <1>5, PagesLowers DEF Pages!Stored
<1>7. Pages!NoValue # Pages!EmptyList /\ Pages!Full(f, p) # Pages!NoValue
      /\ Pages!NoValue # Pages!Plain(Proportional)
  BY DEF Pages!NoValue, Pages!EmptyList, Pages!Plain, Pages!Full
<1>8. kind = "rule" => f \notin Pages!Cased \cup Pages!Multiple
  BY DEF Pages!FieldsOf, Pages!Form, Pages!RuleForm, Pages!Cased, Pages!Multiple
<1>9. CASE f \in Pages!NoInput
  <2>1. v = Pages!EmptyList /\ Pages!Stored(f, v) = v /\ Pages!Saved(p, f) = Pages!EmptyList
    BY <1>2, <1>4, <1>9 DEF Pages!Shown, Pages!NoInput, Pages!multiple_choice_fields, Pages!Stored,
                            Pages!Saved, Pages!ValueSent
  <2> QED
    BY <1>6, <1>7, <2>1
<1>10. CASE f \notin Pages!NoInput /\ f \in Pages!Cased
  <2>1. Pages!Saved(p, f) = Pages!Lowered(w) /\ f # "rescale_policy" /\ f \notin Pages!multiple_choice_fields
    BY <1>1, <1>10 DEF Pages!Saved, Pages!Cased, Pages!multiple_choice_fields
  <2>2. Pages!Stored(f, v) = Pages!Lowered(v)
    BY <1>8, <1>10, <2>1 DEF Pages!Stored
  <2>3. v = w \/ v = Pages!EmptyList
    BY <1>2, <1>4, <2>1, <1>10 DEF Pages!Shown
  <2>4. v = Pages!NoValue => Pages!Saved(p, f) = s
    <3>1. ASSUME v = Pages!NoValue PROVE f \notin entered[p] /\ s = Pages!NoValue
      BY <1>2, <1>7, <2>3, <3>1
    <3>2. Pages!Lowered(Pages!NoValue) = Pages!NoValue
      BY DEF Pages!Lowered, Pages!NoValue, Pages!Plain
    <3> QED
      BY <1>2, <2>1, <3>1, <3>2
  <2>5. ~Pages!Missing(f, v) => v = w
    BY <2>1, <2>3 DEF Pages!Missing
  <2> QED
    BY <1>1, <1>6, <2>1, <2>2, <2>4, <2>5
<1>11. CASE f \notin Pages!NoInput /\ f \notin Pages!Cased
  <2>1. Pages!Stored(f, v) = v
    <3>1. CASE f \in Pages!multiple_choice_fields
      BY <3>1 DEF Pages!Stored
    <3>2. CASE f \notin Pages!multiple_choice_fields
      <4>1. f \notin Pages!Cased \cup Pages!Multiple
        BY <1>11, <3>2 DEF Pages!Multiple, Pages!Cased, Pages!NoInput, Pages!multiple_choice_fields
      <4> QED
        BY <1>5, <4>1, PagesLowers DEF Pages!Stored
    <3> QED
      BY <3>1, <3>2
  <2>2. CASE f = "rescale_policy" /\ f \notin entered[p] /\ s.text = FitToUsage
    <3>1. v = Pages!Plain(Proportional) /\ Pages!Saved(p, f) = v
      BY <1>1, <1>2, <1>11, <2>2 DEF Pages!ValueSent, Pages!Shown, Pages!Saved,
                                     Pages!multiple_choice_fields
    <3> QED
      BY <1>6, <1>7, <2>1, <3>1
  <2>3. CASE ~(f = "rescale_policy" /\ f \notin entered[p] /\ s.text = FitToUsage)
    <3>1. CASE f \in Pages!multiple_choice_fields /\ w = Pages!NoValue
      <4>1. f \notin entered[p] /\ s = Pages!NoValue /\ f \in Pages!Multiple /\ f # "rescale_policy"
        BY <1>2, <1>7, <3>1 DEF Pages!Multiple, Pages!multiple_choice_fields
      <4>2. v = Pages!EmptyList /\ Pages!Saved(p, f) = Pages!EmptyList
        BY <1>1, <1>4, <1>7, <1>11, <3>1, <4>1 DEF Pages!Shown, Pages!Saved, Pages!ValueSent
      <4> QED
        BY <1>6, <1>7, <2>1, <4>2
    <3>2. CASE ~(f \in Pages!multiple_choice_fields /\ w = Pages!NoValue)
      <4>1. Pages!Saved(p, f) = w
        BY <1>1, <1>11, <2>3, <3>2 DEF Pages!Saved
      <4>2. f \in Pages!Multiple => f \in Pages!multiple_choice_fields
        BY <1>11 DEF Pages!Multiple, Pages!multiple_choice_fields, Pages!Cased
      <4>3. v = w
        BY <1>2, <1>4, <1>11, <2>3, <3>2, <4>2 DEF Pages!Shown
      <4> QED
        BY <1>1, <1>2, <1>6, <1>7, <2>1, <4>1, <4>3
    <3> QED
      BY <3>1, <3>2
  <2> QED
    BY <2>2, <2>3
<1> QED
  BY <1>9, <1>10, <1>11

LEMMA PagesInit == Pages!Init => PagesInv
<1> SUFFICES ASSUME Pages!Init PROVE PagesInv
  OBVIOUS
<1> USE PagesAssumption
<1>1. Pages!TypeOK
  <2>1. kind \in Pages!Kind
    BY DEF Pages!Init
  <2>2. \A p \in Person : \E i \in 1..Len(Pages!Form[kind]) + 1 :
          unsent[p] = SubSeq(Pages!Form[kind], i, Len(Pages!Form[kind]))
    BY <2>1, FormEnds DEF Pages!Init
  <2>3. DOMAIN db = Pages!Columns(kind) /\ \A f \in Pages!Columns(kind) : db[f] \in Pages!Value(f)
    <3>1. PICK absent \in Pages!MayLack[kind], policy \in {Old, FitToUsage} :
            db = [f \in Pages!Columns(kind) |-> IF f \in absent THEN Pages!NoValue
                                              ELSE IF f = "rescale_policy" THEN Pages!Plain(policy)
                                              ELSE Pages!Full(f, Old)]
      BY DEF Pages!Init
    <3>2. \A f : /\ Pages!NoValue \in Pages!Value(f) /\ Pages!Plain(policy) \in Pages!Value(f)
                 /\ Pages!Full(f, Old) \in Pages!Value(f)
      BY PagesValues DEF Pages!NoValue, Text
    <3> QED
      BY <3>1, <3>2
  <2>4. DOMAIN seen = Person /\ \A p \in Person : seen[p] = db
    BY DEF Pages!Init
  <2>5. entered \in [Person -> SUBSET (Pages!FieldsOf(kind) \ Pages!NoInput)]
    BY DEF Pages!Init
  <2>6. stage \in [Person -> {"away", "editing", "sending"} \cup Pages!Answers]
    BY DEF Pages!Init
  <2>7. errors \in [Person -> BOOLEAN] /\ alone \in [Person -> BOOLEAN] /\ troubles \in 0..MaxTroubles
    BY DEF Pages!Init
  <2>8. \A p \in Person : /\ DOMAIN seen[p] = Pages!Columns(kind)
                          /\ \A f \in Pages!Columns(kind) : seen[p][f] \in Pages!Value(f)
    BY <2>3, <2>4, Zenon
  <2> QED
    BY <2>1, <2>2, <2>3, <2>4, <2>5, <2>6, <2>7, <2>8, Zenon DEF Pages!TypeOK
<1>2. \A p \in Person : Undisputed(p)
  BY DEF Pages!Init, Undisputed
<1>3. DOMAIN unsent = Person
  BY DEF Pages!Init
<1> QED
  BY <1>1, <1>2, <1>3 DEF PagesInv

LEMMA PagesStay == PagesInv /\ UNCHANGED pages => PagesInv'
<1> SUFFICES ASSUME PagesInv, UNCHANGED pages PROVE PagesInv'
  OBVIOUS
<1>1. /\ kind' = kind /\ db' = db /\ stage' = stage /\ seen' = seen /\ entered' = entered
      /\ unsent' = unsent /\ errors' = errors /\ alone' = alone /\ troubles' = troubles
  BY DEF pages
<1>2. Pages!TypeOK'
  BY <1>1 DEF PagesInv, Pages!TypeOK
<1>3. \A p \in Person : alone[p] => Undisputed(p)'
  BY <1>1 DEF PagesInv, Undisputed, Settled, Left, Pages!Saved, Pages!Wanted
<1> QED
  BY <1>1, <1>2, <1>3 DEF PagesInv

LEMMA PagesEnds == PagesInv => Pages!SuccessMeansDone
<1> SUFFICES ASSUME PagesInv, NEW p \in Person, stage[p] = "success", alone[p], NEW f \in DOMAIN db
             PROVE  db[f] = Pages!Saved(p, f) \/ (f \in entered[p] /\ Pages!Forgotten(f))
  BY DEF Pages!SuccessMeansDone
<1>1. f \in Pages!Columns(kind)
  BY DEF PagesInv, Pages!TypeOK
<1>2. CASE f \in Pages!FieldsOf(kind)
  BY <1>1, <1>2 DEF PagesInv, Undisputed, Settled
<1>3. CASE f \notin Pages!FieldsOf(kind)
  <2>1. db[f] = seen[p][f] /\ f \notin entered[p]
    BY <1>1, <1>3 DEF PagesInv, Undisputed, Pages!TypeOK
  <2>2. f \in {"guarded", "active", "ACTIVE"}
    BY <1>1, <1>3 DEF Pages!Columns, Pages!SwitchOf
  <2> QED
    BY <2>1, <2>2 DEF Pages!Saved, Pages!Wanted, Pages!NoInput, Pages!Cased,
                      Pages!multiple_choice_fields
<1> QED
  BY <1>2, <1>3

\* A step of p that writes at most one field, f; the others lose nothing that they
\* have alone.
LEMMA PagesOthers ==
  ASSUME PagesInv, NEW p \in Person, NEW q \in Person, q # p,
         UNCHANGED kind, stage'[q] = stage[q], seen'[q] = seen[q], entered'[q] = entered[q],
         unsent'[q] = unsent[q], errors'[q] = errors[q], alone'[q],
         (db' = db /\ alone'[q] = alone[q]) \/ alone'[q] = (alone[q] /\ stage[q] = "away")
  PROVE  Undisputed(q)'
<1>1. CASE db' = db /\ alone'[q] = alone[q]
  BY <1>1 DEF PagesInv, Undisputed, Settled, Left, Pages!Saved, Pages!Wanted
<1>2. CASE stage[q] = "away"
  BY <1>2 DEF Undisputed
<1> QED
  BY <1>1, <1>2

LEMMA PagesLoad ==
  ASSUME PagesInv, NEW p \in Person, Pages!Load(p)
  PROVE  PagesInv'
<1>1. /\ stage[p] = "away" /\ stage' = [stage EXCEPT ![p] = "editing"]
      /\ seen' = [seen EXCEPT ![p] = db]
      /\ alone' = [alone EXCEPT ![p] = \A q \in Person \ {p} : stage[q] # "sending"]
      /\ UNCHANGED <<kind, db, entered, unsent, errors, troubles>>
  BY DEF Pages!Load
<1>2. Pages!TypeOK'
  BY <1>1 DEF PagesInv, Pages!TypeOK
<1>3. Undisputed(p)'
  BY <1>1 DEF PagesInv, Pages!TypeOK, Undisputed
<1>4. ASSUME NEW q \in Person, q # p, alone'[q] PROVE Undisputed(q)'
  <2>1. /\ stage'[q] = stage[q] /\ seen'[q] = seen[q] /\ alone'[q] = alone[q]
        /\ entered'[q] = entered[q] /\ unsent'[q] = unsent[q] /\ errors'[q] = errors[q]
    BY <1>1, <1>4 DEF PagesInv, Pages!TypeOK
  <2> QED
    BY <1>1, <1>4, <2>1, PagesOthers
<1> QED
  BY <1>1, <1>2, <1>3, <1>4 DEF PagesInv

LEMMA PagesSubmit ==
  ASSUME PagesInv, NEW p \in Person, Pages!Submit(p)
  PROVE  PagesInv'
<1>1. PICK fs \in SUBSET (Pages!FieldsOf(kind) \ Pages!NoInput) : entered' = [entered EXCEPT ![p] = fs]
  BY DEF Pages!Submit
<1>2. /\ stage[p] = "editing" /\ stage' = [stage EXCEPT ![p] = "sending"]
      /\ unsent' = [unsent EXCEPT ![p] = Pages!Form[kind]]
      /\ UNCHANGED <<kind, db, seen, errors, alone, troubles>>
  BY DEF Pages!Submit
<1>3. PICK F \in Seq(FieldName) : F = Pages!Form[kind]
  BY Forms DEF PagesInv, Pages!TypeOK, OnceEach
<1>4. Pages!TypeOK'
  <2>1. \A q \in Person : unsent'[q] = IF q = p THEN F ELSE unsent[q]
    BY <1>2, <1>3 DEF PagesInv, Pages!TypeOK
  <2>2. F = SubSeq(F, 1, Len(F)) /\ 1 \in 1..Len(F) + 1
    BY SubSeqFull
  <2>3. \A q \in Person : \E i \in 1..Len(F) + 1 : unsent'[q] = SubSeq(F, i, Len(F))
    BY <1>3, <2>1, <2>2, ZenonT(30) DEF PagesInv, Pages!TypeOK
  <2> QED
    BY <1>1, <1>2, <1>3, <2>3 DEF PagesInv, Pages!TypeOK
<1>5. ASSUME alone[p] PROVE Undisputed(p)'
  <2>1. db = seen[p]
    BY <1>2, <1>5 DEF PagesInv, Undisputed
  <2>2. unsent'[p] = F
    BY <1>2, <1>3 DEF PagesInv, Pages!TypeOK
  <2>3. Left(p)' = Pages!FieldsOf(kind)
    BY <1>3, <2>2, Forms DEF Left, PagesInv, Pages!TypeOK
  <2>4. stage'[p] = "sending" /\ db' = db /\ seen' = seen /\ kind' = kind
    BY <1>2 DEF PagesInv, Pages!TypeOK
  <2> QED
    BY <2>1, <2>3, <2>4 DEF Undisputed
<1>6. ASSUME NEW q \in Person, q # p, alone'[q] PROVE Undisputed(q)'
  <2>1. /\ stage'[q] = stage[q] /\ seen'[q] = seen[q] /\ alone'[q] = alone[q]
        /\ entered'[q] = entered[q] /\ unsent'[q] = unsent[q] /\ errors'[q] = errors[q]
    BY <1>1, <1>2, <1>6 DEF PagesInv, Pages!TypeOK
  <2> QED
    BY <1>2, <1>6, <2>1, PagesOthers
<1> QED
  BY <1>2, <1>4, <1>5, <1>6 DEF PagesInv

LEMMA PagesAnswer ==
  ASSUME PagesInv, NEW p \in Person, Pages!Answer(p)
  PROVE  PagesInv'
<1>1. /\ stage[p] = "sending" /\ unsent[p] = <<>>
      /\ stage' = [stage EXCEPT ![p] = IF errors[p] THEN "errors" ELSE "success"]
      /\ UNCHANGED <<kind, db, seen, entered, unsent, errors, alone, troubles>>
  BY DEF Pages!Answer
<1>2. Pages!TypeOK'
  BY <1>1 DEF PagesInv, Pages!TypeOK, Pages!Answers
<1>3. ASSUME alone[p] PROVE Undisputed(p)'
  <2>1. Left(p) = {}
    BY <1>1 DEF Left
  <2>2. stage'[p] = (IF errors[p] THEN "errors" ELSE "success") /\ errors' = errors
    BY <1>1 DEF PagesInv, Pages!TypeOK
  <2>3. \A f \in Pages!Columns(kind) :
          IF f \in Pages!FieldsOf(kind) THEN Settled(p, f) ELSE db[f] = seen[p][f]
    BY <1>1, <1>3, <2>1 DEF PagesInv, Undisputed
  <2>4. \A f \in Pages!Columns(kind) : Settled(p, f)' <=> Settled(p, f)
    BY <1>1 DEF Settled, Pages!Saved, Pages!Wanted
  <2> QED
    <3>1. \A f \in Pages!Columns(kind) :
            IF f \in Pages!FieldsOf(kind) THEN Settled(p, f)' ELSE db[f] = seen[p][f]
      BY <2>3, <2>4
    <3> QED
      BY <1>1, <2>2, <3>1 DEF Undisputed, Pages!FieldsOf
<1>4. ASSUME NEW q \in Person, q # p, alone'[q] PROVE Undisputed(q)'
  <2>1. stage'[q] = stage[q]
    BY <1>1, <1>4 DEF PagesInv, Pages!TypeOK
  <2> QED
    BY <1>1, <1>4, <2>1, PagesOthers
<1> QED
  BY <1>1, <1>2, <1>3, <1>4 DEF PagesInv

\* A field that p sends, whatever becomes of it.
LEMMA PagesSends ==
  ASSUME PagesInv, NEW p \in Person, stage[p] = "sending", unsent[p] # <<>>,
         UNCHANGED <<kind, seen, entered>>, stage'[p] = "sending",
         unsent' = [unsent EXCEPT ![p] = Tail(unsent[p])],
         NEW h, h = Head(unsent[p]),
         \A f \in Pages!Columns(kind) : f # h => db'[f] = db[f],
         alone'[p] => alone[p], errors[p] => errors'[p],
         db[h] = seen[p][h] => Settled(p, h)'
  PROVE  alone'[p] => Undisputed(p)'
<1> SUFFICES ASSUME alone'[p] PROVE Undisputed(p)'
  OBVIOUS
<1>1. h = Head(unsent[p])
  OBVIOUS
<1>2. h \in Pages!FieldsOf(kind) /\ h \in Left(p) /\ h \in Pages!Columns(kind)
  BY <1>1, LeftStep DEF PagesInv, Pages!Columns
<1>3. Left(p)' = Left(p) \ {h}
  <2>1. PICK t : t = Tail(unsent[p])
    OBVIOUS
  <2>2. {t[i] : i \in 1..Len(t)} = Left(p) \ {h}
    BY <1>1, <2>1, LeftStep DEF PagesInv
  <2>3. unsent'[p] = t
    BY <2>1 DEF PagesInv
  <2> QED
    BY <2>2, <2>3 DEF Left
<1>4. \A f \in Pages!Columns(kind) :
        IF f \in Pages!FieldsOf(kind) \ Left(p) THEN Settled(p, f) ELSE db[f] = seen[p][f]
  BY DEF PagesInv, Undisputed
<1>5. ASSUME NEW f \in Pages!Columns(kind)
      PROVE  IF f \in Pages!FieldsOf(kind) \ (Left(p) \ {h}) THEN Settled(p, f)' ELSE db'[f] = seen[p][f]
  <2>1. CASE f = h
    <3>1. db[h] = seen[p][h]
      BY <1>2, <1>4
    <3>2. Settled(p, h)'
      BY <1>1, <3>1
    <3>3. Settled(p, f)'
      BY <2>1, <3>2
    <3> QED
      BY <1>2, <2>1, <3>3
  <2>2. CASE f # h
    <3>1. db'[f] = db[f]
      BY <1>1, <2>2
    <3>2. Settled(p, f) => Settled(p, f)'
      BY <3>1 DEF Settled, Pages!Saved, Pages!Wanted
    <3> QED
      BY <1>4, <2>2, <3>1, <3>2
  <2> QED
    BY <2>1, <2>2
<1>6. Pages!FieldsOf(kind)' = Pages!FieldsOf(kind) /\ Pages!Columns(kind)' = Pages!Columns(kind)
  BY DEF Pages!FieldsOf, Pages!Columns
<1> QED
  BY <1>3, <1>5, <1>6 DEF Undisputed

LEMMA PagesPut ==
  ASSUME PagesInv, NEW p \in Person, Pages!Put(p)
  PROVE  PagesInv'
<1> USE PagesAssumption
<1>1. PICK h, v, w : /\ h = Head(unsent[p]) /\ v = Pages!ValueSent(p, h)
                     /\ w = Pages!Stored(h, v)
  OBVIOUS
<1>2. /\ stage[p] = "sending" /\ unsent[p] # <<>> /\ UNCHANGED <<kind, seen, entered>>
      /\ \/ /\ v = Pages!NoValue
            /\ unsent' = [unsent EXCEPT ![p] = Tail(unsent[p])]
            /\ UNCHANGED <<db, stage, errors, alone, troubles>>
         \/ /\ stage' = [stage EXCEPT ![p] = "raised"]
            /\ unsent' = [unsent EXCEPT ![p] = <<>>]
            /\ UNCHANGED <<db, errors, alone, troubles>>
         \/ /\ v # Pages!NoValue /\ ~Pages!Missing(h, v)
            /\ db' = [db EXCEPT ![h] = w]
            /\ alone' = [q \in Person |-> alone[q] /\ (q = p \/ stage[q] = "away")]
            /\ unsent' = [unsent EXCEPT ![p] = Tail(unsent[p])]
            /\ UNCHANGED <<stage, errors, troubles>>
         \/ /\ unsent' = [unsent EXCEPT ![p] = Tail(unsent[p])]
            /\ errors' = [errors EXCEPT ![p] = errors[p] \/ ~Pages!Forgotten(h)]
            /\ troubles < MaxTroubles /\ troubles' = troubles + 1
            /\ UNCHANGED <<db, stage, alone>>
         \/ /\ stage' = [stage EXCEPT ![p] = "raised"]
            /\ unsent' = [unsent EXCEPT ![p] = <<>>]
            /\ troubles < MaxTroubles /\ troubles' = troubles + 1
            /\ UNCHANGED <<db, errors, alone>>
  BY <1>1 DEF Pages!Put, Pages!Write, Pages!Trouble, Pages!Address
<1>3. /\ h \in Pages!FieldsOf(kind) /\ h \in Pages!Columns(kind)
      /\ w \in Pages!Value(h) /\ (v = Pages!NoValue => Pages!Saved(p, h) = seen[p][h])
      /\ (v # Pages!NoValue /\ ~Pages!Missing(h, v) => w = Pages!Saved(p, h))
  <2>1. h \in Pages!FieldsOf(kind) /\ h \in Pages!Columns(kind)
    BY <1>1, <1>2, LeftStep DEF PagesInv, Pages!Columns
  <2> QED
    BY <1>1, <2>1, PagesConverts
<1>5. Pages!TypeOK' /\ DOMAIN unsent' = Person
  <2>1. PICK u : /\ unsent' = [unsent EXCEPT ![p] = u]
                 /\ \E i \in 1..Len(Pages!Form[kind]) + 1 :
                      u = SubSeq(Pages!Form[kind], i, Len(Pages!Form[kind]))
    <3>1. \E i \in 1..Len(Pages!Form[kind]) + 1 :
              Tail(unsent[p]) = SubSeq(Pages!Form[kind], i, Len(Pages!Form[kind]))
      BY <1>2, LeftStep DEF PagesInv
    <3>2. \E i \in 1..Len(Pages!Form[kind]) + 1 :
              <<>> = SubSeq(Pages!Form[kind], i, Len(Pages!Form[kind]))
      BY FormEnds DEF PagesInv, Pages!TypeOK
    <3> QED
      BY <1>2, <3>1, <3>2
  <2>2. DOMAIN unsent' = Person /\ \A q \in Person : unsent'[q] = IF q = p THEN u ELSE unsent[q]
    BY <2>1 DEF PagesInv
  <2>3. \A q \in Person : \E i \in 1..Len(Pages!Form[kind]) + 1 :
              unsent'[q] = SubSeq(Pages!Form[kind], i, Len(Pages!Form[kind]))
    BY <2>1, <2>2 DEF PagesInv, Pages!TypeOK
  <2>4. DOMAIN db' = Pages!Columns(kind) /\ \A f \in Pages!Columns(kind) : db'[f] \in Pages!Value(f)
    BY <1>2, <1>3 DEF PagesInv, Pages!TypeOK
  <2>5. stage' \in [Person -> {"away", "editing", "sending"} \cup Pages!Answers]
    BY <1>2, ZenonT(30) DEF PagesInv, Pages!TypeOK, Pages!Answers
  <2>6. alone' \in [Person -> BOOLEAN]
    BY <1>2, ZenonT(30) DEF PagesInv, Pages!TypeOK
  <2>7. errors' \in [Person -> BOOLEAN]
    BY <1>2 DEF PagesInv, Pages!TypeOK
  <2>8. troubles' \in 0..MaxTroubles
    BY <1>2 DEF PagesInv, Pages!TypeOK
  <2> QED
    BY <1>2, <2>2, <2>3, <2>4, <2>5, <2>6, <2>7, <2>8 DEF PagesInv, Pages!TypeOK
<1>6. ASSUME alone'[p] PROVE Undisputed(p)'
  <2>1. CASE stage' = stage
    <3>1. stage'[p] = "sending" /\ unsent' = [unsent EXCEPT ![p] = Tail(unsent[p])]
      BY <1>2, <2>1 DEF PagesInv, Pages!TypeOK
    <3>2. \A f \in Pages!Columns(kind) : f # h => db'[f] = db[f]
      BY <1>2 DEF PagesInv, Pages!TypeOK
    <3>3. alone[p] /\ (errors[p] => errors'[p])
      BY <1>2, <1>6, <3>1 DEF PagesInv, Pages!TypeOK
    <3>4. ASSUME db[h] = seen[p][h], ~errors'[p]
          PROVE  db'[h] = Pages!Saved(p, h) \/ (h \in entered[p] /\ Pages!Forgotten(h))
      <4>1. CASE v = Pages!NoValue /\ db' = db
        BY <1>3, <3>4, <4>1
      <4>2. CASE db' = [db EXCEPT ![h] = w] /\ v # Pages!NoValue /\ ~Pages!Missing(h, v)
        BY <1>3, <4>2 DEF PagesInv, Pages!TypeOK
      <4>3. CASE db' = db /\ errors' = [errors EXCEPT ![p] = errors[p] \/ ~Pages!Forgotten(h)]
        <5>1. Pages!Forgotten(h)
          BY <3>4, <4>3 DEF PagesInv, Pages!TypeOK
        <5> QED
          BY <3>4, <4>3, <5>1 DEF Pages!Forgotten, Pages!Saved, Pages!Wanted, Pages!NoInput,
                                  Pages!Cased, Pages!multiple_choice_fields
      <4> QED
        BY <1>2, <2>1, <3>1, <4>1, <4>2, <4>3 DEF PagesInv, Pages!TypeOK
    <3>5. db[h] = seen[p][h] => Settled(p, h)'
      BY <1>2, <3>4 DEF Settled, Pages!Forgotten, Pages!Saved, Pages!Wanted
    <3> QED
      BY <1>1, <1>2, <3>1, <3>2, <3>3, <3>5, PagesSends
  <2>2. CASE stage' = [stage EXCEPT ![p] = "raised"]
    BY <2>2 DEF Undisputed, PagesInv, Pages!TypeOK
  <2> QED
    BY <1>2, <2>1, <2>2
<1>7. ASSUME NEW q \in Person, q # p, alone'[q] PROVE Undisputed(q)'
  <2>1. /\ stage'[q] = stage[q] /\ unsent'[q] = unsent[q] /\ errors'[q] = errors[q]
        /\ \/ db' = db /\ alone'[q] = alone[q]
           \/ alone'[q] = (alone[q] /\ stage[q] = "away")
    BY <1>2, <1>7 DEF PagesInv, Pages!TypeOK
  <2> QED
    BY <1>2, <1>7, <2>1, PagesOthers
<1> QED
  BY <1>5, <1>6, <1>7 DEF PagesInv

LEMMA PagesSwitch ==
  ASSUME PagesInv, NEW p \in Person, Pages!Switch(p)
  PROVE  PagesInv'
<1> USE PagesAssumption
<1>1. PICK l \in {"silent", "raised"} : stage' = [stage EXCEPT ![p] = l]
  BY DEF Pages!Switch
<1>2. /\ kind \in DOMAIN Pages!SwitchOf /\ UNCHANGED <<kind, seen, entered, unsent, errors>>
      /\ \/ /\ db' = [db EXCEPT ![Pages!SwitchOf[kind]] = Pages!Plain(p)] /\ UNCHANGED troubles
            /\ alone' = [q \in Person |-> alone[q] /\ (q = p \/ stage[q] = "away")]
         \/ troubles < MaxTroubles /\ troubles' = troubles + 1 /\ UNCHANGED <<db, alone>>
  BY DEF Pages!Switch, Pages!Write, Pages!Trouble
<1>3. Pages!TypeOK'
  <2>1. DOMAIN db' = Pages!Columns(kind) /\ \A f \in Pages!Columns(kind) : db'[f] \in Pages!Value(f)
    <3>1. Pages!Plain(p) \in Pages!Value(Pages!SwitchOf[kind])
      BY PagesValues DEF Text
    <3> QED
      BY <1>2, <3>1 DEF PagesInv, Pages!TypeOK
  <2>2. stage' \in [Person -> {"away", "editing", "sending"} \cup Pages!Answers]
    BY <1>1 DEF PagesInv, Pages!TypeOK, Pages!Answers
  <2>3. alone' \in [Person -> BOOLEAN]
    BY <1>2, Zenon DEF PagesInv, Pages!TypeOK
  <2>4. troubles' \in 0..MaxTroubles
    BY <1>2 DEF PagesInv, Pages!TypeOK
  <2> QED
    BY <1>2, <2>1, <2>2, <2>3, <2>4 DEF PagesInv, Pages!TypeOK
<1>4. Undisputed(p)'
  BY <1>1 DEF Undisputed, PagesInv, Pages!TypeOK
<1>5. ASSUME NEW q \in Person, q # p, alone'[q] PROVE Undisputed(q)'
  <2>1. /\ stage'[q] = stage[q]
        /\ \/ db' = db /\ alone'[q] = alone[q]
           \/ alone'[q] = (alone[q] /\ stage[q] = "away")
    BY <1>1, <1>2, <1>5 DEF PagesInv, Pages!TypeOK
  <2> QED
    BY <1>2, <1>5, <2>1, PagesOthers
<1> QED
  BY <1>2, <1>3, <1>4, <1>5 DEF PagesInv

LEMMA PagesStep == PagesInv /\ Pages!Next => PagesInv'
BY PagesLoad, PagesSubmit, PagesPut, PagesAnswer, PagesSwitch DEF Pages!Next

-----------------------------------------------------------------------------
(* Hadoop applications *)

\* Whoever has made the State Database forget the container has still to stop it, has
\* asked for its stop, or was shown as failed.
OnTheWay(c) ==
  \/ step[Owner[c]] \in {"queueing", "failed"}
  \/ step[Owner[c]] = "forgetting" /\ c \notin todo["start"][Owner[c]]
  \/ removal[Owner[c]] = "forgetting" /\ c \in doomed[Owner[c]] \ todo["removal"][Owner[c]]
  \/ \E x \in Hadoop!Origin : stop[x][c] \in {"queued", "stopping", "failed"}
  \/ c \in unstopped

\* What a start that ends without an error has undone of a container so far.
Forgets(c) ==
  /\ Owner[c] \notin hadError
  /\ \/ step[Owner[c]] \in {"queueing", "finishing", "done"}
     \/ step[Owner[c]] = "forgetting" /\ c \notin todo["start"][Owner[c]]

Undone(c) ==
  /\ Forgets(c) => c \notin known \cup subscribed
  /\ step[Owner[c]] \in {"finishing", "done"} => stop["start"][c] # "none"
  /\ stop["start"][c] # "none" => step[Owner[c]] \in {"finishing", "done", "failed"}
  /\ stop["start"][c] \in {"unlisting", "done"} => c \notin instances \/ c \in unstopped
  /\ stop["start"][c] = "done" => c \notin listed

\* An application that is said to be doing something is being started, or its start failed.
Busy(a) ==
  /\ state[a] \notin {"none", "stopped"} => step[a] \notin {"idle", "depending", "ready", "done"}
  /\ step[a] = "done" => a \notin hadError

\* A task has to do with containers of its application.
Own(a) ==
  /\ todo["start"][a] \subseteq Hadoop!ContainersOf(a)
  /\ todo["removal"][a] \subseteq doomed[a] /\ doomed[a] \subseteq Hadoop!ContainersOf(a)

HadoopInv ==
  /\ Hadoop!TypeOK
  /\ \A c \in Container : c \in instances \ known => OnTheWay(c)
  /\ \A c \in Container : Undone(c)
  /\ \A a \in App : Busy(a) /\ Own(a)

LEMMA HadoopInit == Hadoop!Init => HadoopInv
<1> SUFFICES ASSUME Hadoop!Init PROVE HadoopInv
  OBVIOUS
<1> USE HadoopAssumption
<1>1. Hadoop!TypeOK
  BY DEF Hadoop!Init, Hadoop!TypeOK, Hadoop!Stages
<1>2. \A c \in Container : Undone(c) /\ c \notin instances
  BY DEF Hadoop!Init, Undone, Forgets, Hadoop!Origin
<1>3. \A a \in App : Busy(a) /\ Own(a)
  BY DEF Hadoop!Init, Busy, Own
<1> QED
  BY <1>1, <1>2, <1>3 DEF HadoopInv

LEMMA HadoopStay == HadoopInv /\ UNCHANGED hadoop => HadoopInv'
<1> SUFFICES ASSUME HadoopInv, UNCHANGED hadoop PROVE HadoopInv'
  OBVIOUS
<1>1. /\ scenario' = scenario /\ state' = state /\ counters' = counters /\ listed' = listed
      /\ instances' = instances /\ known' = known /\ subscribed' = subscribed /\ step' = step
      /\ removal' = removal /\ eviction' = eviction /\ todo' = todo /\ doomed' = doomed
      /\ hadError' = hadError /\ stop' = stop /\ unstopped' = unstopped /\ mishaps' = mishaps
  BY DEF hadoop
<1>2. Hadoop!TypeOK'
  BY <1>1 DEF HadoopInv, Hadoop!TypeOK
<1>3. \A c \in Container : c \in instances' \ known' => OnTheWay(c)'
  BY <1>1 DEF HadoopInv, OnTheWay
<1>4. \A c \in Container : Undone(c)'
  BY <1>1 DEF HadoopInv, Undone, Forgets
<1>5. \A a \in App : Busy(a)' /\ Own(a)'
  BY <1>1 DEF HadoopInv, Busy, Own, Hadoop!ContainersOf
<1> QED
  BY <1>2, <1>3, <1>4, <1>5 DEF HadoopInv

LEMMA HadoopEnds == HadoopInv => Hadoop!Accounted
<1> SUFFICES ASSUME HadoopInv, Hadoop!Quiet
             PROVE  Hadoop!OrphansReported /\ Hadoop!CleanEnd /\ Hadoop!WaitersProceed
  BY DEF Hadoop!Accounted
<1> USE HadoopAssumption
<1>1. Hadoop!OrphansReported
  <2> SUFFICES ASSUME NEW c \in instances \ known PROVE Hadoop!Reported(c) \/ c \in unstopped
    BY DEF Hadoop!OrphansReported
  <2>1. c \in Container /\ OnTheWay(c) /\ Owner[c] \in App
    BY DEF HadoopInv, Hadoop!TypeOK
  <2>2. /\ step[Owner[c]] \in {"idle", "depending", "done", "failed"}
        /\ removal[Owner[c]] \in {"idle", "done", "failed"}
        /\ \A x \in Hadoop!Origin : stop[x][c] \in {"none", "done", "failed"}
    BY <2>1 DEF Hadoop!Quiet
  <2> QED
    BY <2>1, <2>2 DEF OnTheWay, Hadoop!Reported
<1>2. Hadoop!CleanEnd
  <2> SUFFICES ASSUME NEW c \in Container, step[Owner[c]] = "done"
               PROVE  \/ c \notin instances \cup listed \cup subscribed \cup known
                      \/ Hadoop!Reported(c) \/ c \in unstopped
    BY DEF Hadoop!CleanEnd
  <2>1. Undone(c) /\ Busy(Owner[c]) /\ Owner[c] \in App
    BY DEF HadoopInv
  <2>2. stop["start"][c] \in {"done", "failed"} /\ "start" \in Hadoop!Origin
    BY <2>1 DEF Undone, Hadoop!Quiet, Hadoop!Origin
  <2> QED
    BY <2>1, <2>2 DEF Undone, Forgets, Busy, Hadoop!Reported
<1>3. Hadoop!WaitersProceed
  <2> SUFFICES ASSUME NEW a \in App, DependsOn[a] # NoApp,
                      state[DependsOn[a]] \notin {"none", "stopped"}
               PROVE  step[DependsOn[a]] = "failed"
    BY DEF Hadoop!WaitersProceed
  <2>1. DependsOn[a] \in App
    OBVIOUS
  <2> QED
    BY <2>1 DEF HadoopInv, Busy, Hadoop!Quiet
<1> QED
  BY <1>1, <1>2, <1>3

\* A start walks on from where it has not yet stopped its cluster.
Early == {"idle", "depending", "ready", "deploying", "deployed", "downloading", "launching",
          "computed", "uploading"}

LEMMA HadoopWalks ==
  ASSUME HadoopInv, NEW a \in App, NEW l, NEW v,
         step[a] \in Early, l \in Early \cup {"stopping", "failed"},
         step' = [step EXCEPT ![a] = l],
         state' = state \/ state' = [state EXCEPT ![a] = v],
         v \in {"stopped", "running", "hdfs_downloading", "hdfs_uploading"},
         state' # state /\ v # "stopped" => l \notin {"idle", "depending", "ready"},
         state' = state /\ l \in {"idle", "depending", "ready"} => step[a] \in {"idle", "depending", "ready"},
         counters' \subseteq App, mishaps' \in 0..MaxMishaps,
         UNCHANGED <<scenario, known, subscribed, listed, instances, removal, eviction, todo, doomed,
                     hadError, stop, unstopped>>
  PROVE  HadoopInv'
<1> USE HadoopAssumption
<1>1. /\ \A b \in App : step'[b] = IF b = a THEN l ELSE step[b]
      /\ step' \in [App -> Early \cup {"stopping", "forgetting", "queueing", "finishing", "done", "failed"}]
  BY DEF HadoopInv, Hadoop!TypeOK, Early
<1>2. /\ \A b \in App : b # a => state'[b] = state[b]
      /\ state' = state \/ state'[a] = v
      /\ state' \in [App -> {"none", "stopped", "running", "hdfs_downloading", "hdfs_uploading"}]
  <2>1. CASE state' = state
    BY <2>1 DEF HadoopInv, Hadoop!TypeOK
  <2>2. CASE state' = [state EXCEPT ![a] = v]
    BY <2>2 DEF HadoopInv, Hadoop!TypeOK
  <2> QED
    BY <2>1, <2>2
<1>3. Hadoop!TypeOK'
  BY <1>1, <1>2 DEF HadoopInv, Hadoop!TypeOK, Early
<1>4. ASSUME NEW c \in Container, c \in instances' \ known' PROVE OnTheWay(c)'
  <2>1. OnTheWay(c) /\ Owner[c] \in App
    BY <1>4 DEF HadoopInv
  <2> QED
    BY <1>1, <2>1 DEF OnTheWay, Early
<1>5. ASSUME NEW c \in Container PROVE Undone(c)'
  <2>1. Undone(c) /\ Owner[c] \in App
    BY DEF HadoopInv
  <2> QED
    BY <1>1, <2>1 DEF Undone, Forgets, Early
<1>6. ASSUME NEW b \in App PROVE Busy(b)'
  <2>1. Busy(b) /\ Busy(a)
    BY DEF HadoopInv
  <2>2. CASE b # a
    BY <1>1, <1>2, <2>1, <2>2 DEF Busy
  <2>3. CASE b = a
    BY <1>1, <1>2, <2>1, <2>3 DEF Busy, Early
  <2> QED
    BY <2>2, <2>3
<1>7. \A b \in App : Own(b)'
  BY DEF HadoopInv, Own, Hadoop!ContainersOf
<1> QED
  BY <1>3, <1>4, <1>5, <1>6, <1>7 DEF HadoopInv

\* The steps of a start up to the end of its upload, but for the deployment.
LEMMA HadoopBegins ==
  ASSUME HadoopInv, NEW a \in App, UNCHANGED scenario,
         \/ Hadoop!Queue(a) \/ Hadoop!Dependency(a) \/ Hadoop!SetupNetwork(a)
         \/ Hadoop!RunScript(a) \/ Hadoop!EndUpload(a)
  PROVE  HadoopInv'
<1> USE HadoopAssumption
<1>1. /\ UNCHANGED <<state, counters, known, subscribed, listed, instances, removal, eviction, todo,
                     doomed, hadError, stop, unstopped>>
      /\ mishaps' \in 0..MaxMishaps
  BY DEF Hadoop!Queue, Hadoop!Dependency, Hadoop!SetupNetwork, Hadoop!RunScript, Hadoop!EndUpload,
         Hadoop!Reach, Hadoop!Fault, Hadoop!database, Hadoop!hosts, HadoopInv, Hadoop!TypeOK
<1>2. PICK l \in {"depending", "ready", "launching", "computed", "stopping", "failed"} :
        /\ step[a] \in Early /\ step' = [step EXCEPT ![a] = l]
        /\ l \in {"idle", "depending", "ready"} => step[a] \in {"idle", "depending", "ready"}
  BY DEF Hadoop!Queue, Hadoop!Dependency, Hadoop!SetupNetwork, Hadoop!RunScript, Hadoop!EndUpload,
         Hadoop!Reach, Early
<1>3. counters' \subseteq App /\ l \in Early \cup {"stopping", "failed"}
  BY <1>1, <1>2 DEF HadoopInv, Hadoop!TypeOK, Early
<1> QED
  BY <1>1, <1>2, <1>3, HadoopWalks

LEMMA HadoopChanges ==
  ASSUME HadoopInv, NEW a \in App, UNCHANGED scenario,
         \/ Hadoop!SetRunning(a) \/ Hadoop!BeginDownload(a) \/ Hadoop!EndDownload(a)
         \/ Hadoop!BeginUpload(a)
  PROVE  HadoopInv'
<1> USE HadoopAssumption
<1>1. /\ UNCHANGED <<known, subscribed, listed, instances, removal, eviction, todo,
                     doomed, hadError, stop, unstopped>>
      /\ mishaps' \in 0..MaxMishaps /\ counters' \subseteq App
  BY DEF Hadoop!SetRunning, Hadoop!BeginDownload, Hadoop!EndDownload, Hadoop!BeginUpload,
         Hadoop!Fault, Hadoop!database, Hadoop!hosts, HadoopInv, Hadoop!TypeOK
<1>2. PICK l \in {"deploying", "downloading", "launching", "uploading", "stopping", "failed"},
           v \in {"running", "hdfs_downloading", "hdfs_uploading"} :
        /\ step[a] \in Early /\ step' = [step EXCEPT ![a] = l]
        /\ state' = state \/ state' = [state EXCEPT ![a] = v]
  BY DEF Hadoop!SetRunning, Hadoop!BeginDownload, Hadoop!EndDownload, Hadoop!BeginUpload,
         Hadoop!Change, Early
<1>3. l \in Early \cup {"stopping", "failed"} /\ l \notin {"idle", "depending", "ready"}
  BY <1>2 DEF Early
<1> QED
  BY <1>1, <1>2, <1>3, HadoopWalks

LEMMA HadoopDeploy ==
  ASSUME HadoopInv, NEW a \in App, UNCHANGED scenario, Hadoop!Deploy(a)
  PROVE  HadoopInv'
<1> USE HadoopAssumption
<1>1. PICK cs : cs = Hadoop!ContainersOf(a)
  OBVIOUS
<1>2. cs \subseteq Container /\ \A c \in Container : c \in cs <=> Owner[c] = a
  BY <1>1 DEF Hadoop!ContainersOf
<1>3. /\ step[a] = "deploying" /\ mishaps' \in 0..MaxMishaps
      /\ UNCHANGED <<counters, removal, eviction, todo, doomed, hadError, stop>>
  <2>1. step[a] = "deploying" /\ UNCHANGED <<counters, removal, eviction, todo, doomed, hadError, stop>>
    BY DEF Hadoop!Deploy
  <2>2. mishaps \in 0..MaxMishaps
    BY DEF HadoopInv, Hadoop!TypeOK
  <2>3. ASSUME Hadoop!CleanUp(a), mishaps' <= MaxMishaps PROVE mishaps' \in 0..MaxMishaps
    <3>1. PICK n \in {0, 1} : mishaps' = mishaps + n \/ mishaps' = mishaps + n + 1
      BY <2>3 DEF Hadoop!CleanUp
    <3> QED
      BY <2>2, <2>3, <3>1
  <2>4. mishaps' = mishaps => mishaps' \in 0..MaxMishaps
    BY <2>2
  <2> QED
    BY <2>1, <2>3, <2>4 DEF Hadoop!Deploy
<1>4. PICK more, put \in SUBSET cs, rows \in SUBSET cs, ignored \in SUBSET cs,
           added \in SUBSET cs, l \in {"deployed", "failed"} :
        /\ known' = known \cup added /\ (l = "failed" \/ put \subseteq added)
        /\ instances' = instances \cup put /\ listed' = listed \cup rows
        /\ unstopped' = unstopped \cup ignored
        /\ subscribed' = subscribed \cup more /\ more \subseteq cs
        /\ step' = [step EXCEPT ![a] = l]
        /\ state' = state \/ state' = [state EXCEPT ![a] = "stopped"]
  <2>1. CASE /\ listed' = listed \cup cs /\ instances' = instances \cup cs
             /\ known' = known \cup cs /\ subscribed' = subscribed \cup cs
             /\ step' = [step EXCEPT ![a] = "deployed"] /\ UNCHANGED <<state, unstopped>>
    <3>1. unstopped' = unstopped \cup {} /\ {} \in SUBSET cs
      BY <2>1
    <3> QED
      BY <2>1, <3>1
  <2>2. CASE /\ \E added \in SUBSET cs :
                  /\ known' = known \cup added
                  /\ subscribed' = IF state[a] = "none" THEN subscribed ELSE subscribed \cup added
             /\ Hadoop!CleanUp(a)
    <3>1. PICK added \in SUBSET cs :
            /\ known' = known \cup added
            /\ subscribed' = IF state[a] = "none" THEN subscribed ELSE subscribed \cup added
      BY <2>2
    <3>2. PICK more \in SUBSET cs : subscribed' = subscribed \cup more
      <4>1. subscribed' = subscribed \cup {} \/ subscribed' = subscribed \cup added
        BY <3>1
      <4>2. {} \in SUBSET cs
        OBVIOUS
      <4> QED
        BY <4>1, <4>2
    <3>3. \E put \in SUBSET cs, rows \in SUBSET cs, ignored \in SUBSET cs :
            /\ instances' = instances \cup put /\ listed' = listed \cup rows
            /\ unstopped' = unstopped \cup ignored
      <4>1. CASE UNCHANGED <<listed, instances, unstopped>>
        <5>1. /\ instances' = instances \cup {} /\ listed' = listed \cup {}
              /\ unstopped' = unstopped \cup {} /\ {} \in SUBSET cs
          BY <4>1
        <5> QED
          BY <5>1
      <4>2. CASE \E c \in cs : /\ instances' = instances \cup {c} /\ UNCHANGED listed
                              /\ unstopped' = unstopped \cup {c}
        <5>1. PICK c \in cs : /\ instances' = instances \cup {c} /\ listed' = listed
                             /\ unstopped' = unstopped \cup {c}
          BY <4>2
        <5>2. listed' = listed \cup {} /\ {} \in SUBSET cs /\ {c} \in SUBSET cs
          BY <5>1
        <5> QED
          BY <5>1, <5>2
      <4>3. CASE \E c \in cs : \E rest \in SUBSET cs : \E running \in SUBSET (rest \cup {c}) :
                   /\ listed' = listed \cup rest /\ instances' = instances \cup running
                   /\ UNCHANGED unstopped
        <5>1. PICK c \in cs, rest \in SUBSET cs : \E running \in SUBSET (rest \cup {c}) :
                /\ listed' = listed \cup rest /\ instances' = instances \cup running
                /\ unstopped' = unstopped
          BY <4>3
        <5>2. PICK r \in SUBSET cs : instances' = instances \cup r
          BY <5>1
        <5>3. listed' = listed \cup rest /\ unstopped' = unstopped \cup {} /\ {} \in SUBSET cs
          BY <5>1
        <5> QED
          BY <5>2, <5>3
      <4> QED
        BY <1>1, <2>2, <4>1, <4>2, <4>3 DEF Hadoop!CleanUp, Hadoop!hosts
    <3>4. /\ step' = [step EXCEPT ![a] = "failed"]
          /\ state' = state \/ state' = [state EXCEPT ![a] = "stopped"]
      BY <2>2 DEF Hadoop!Change, Hadoop!CleanUp
    <3> QED
      BY <3>1, <3>2, <3>3, <3>4
  <2> QED
    BY <1>1, <2>1, <2>2 DEF Hadoop!Deploy
<1>5. /\ \A b \in App : step'[b] = IF b = a THEN l ELSE step[b]
      /\ \A b \in App : b # a => state'[b] = state[b]
      /\ state' \in [App -> {"none", "stopped", "running", "hdfs_downloading", "hdfs_uploading"}]
  <2>1. CASE state' = state
    BY <1>4, <2>1 DEF HadoopInv, Hadoop!TypeOK
  <2>2. CASE state' = [state EXCEPT ![a] = "stopped"]
    BY <1>4, <2>2 DEF HadoopInv, Hadoop!TypeOK
  <2> QED
    BY <1>4, <2>1, <2>2
<1>6. Hadoop!TypeOK'
  BY <1>2, <1>3, <1>4, <1>5 DEF HadoopInv, Hadoop!TypeOK
<1>7. ASSUME NEW c \in Container, c \in instances' \ known' PROVE OnTheWay(c)'
  <2>1. CASE c \in instances \ known
    <3>1. OnTheWay(c) /\ Owner[c] \in App /\ (c \in unstopped => c \in unstopped')
      BY <1>4, <2>1 DEF HadoopInv
    <3> QED
      BY <1>3, <1>5, <3>1 DEF OnTheWay
  <2>2. CASE c \in put /\ l = "failed"
    <3>1. Owner[c] = a /\ step'[a] = "failed"
      BY <1>2, <1>5, <2>2
    <3> QED
      BY <3>1 DEF OnTheWay
  <2> QED
    BY <1>4, <1>7, <2>1, <2>2
<1>8. ASSUME NEW c \in Container PROVE Undone(c)'
  <2>1. Undone(c) /\ Owner[c] \in App
    BY DEF HadoopInv
  <2>2. CASE Owner[c] = a
    BY <1>3, <1>4, <1>5, <2>1, <2>2 DEF Undone, Forgets
  <2>3. CASE Owner[c] # a
    <3>1. /\ c \in known' <=> c \in known
          /\ c \in subscribed' <=> c \in subscribed
          /\ c \in instances' <=> c \in instances
          /\ c \in listed' <=> c \in listed
          /\ c \in unstopped' <=> c \in unstopped
      BY <1>2, <1>4, <2>3
    <3> QED
      BY <1>3, <1>5, <2>1, <2>3, <3>1 DEF Undone, Forgets
  <2> QED
    BY <2>2, <2>3
<1>9. ASSUME NEW b \in App PROVE Busy(b)' /\ Own(b)'
  <2>1. Busy(b) /\ Own(b)
    BY DEF HadoopInv
  <2>2. Own(b)'
    BY <1>3, <2>1 DEF Own, Hadoop!ContainersOf
  <2>3. Busy(b)'
    BY <1>3, <1>4, <1>5, <2>1 DEF Busy
  <2> QED
    BY <2>2, <2>3
<1> QED
  BY <1>6, <1>7, <1>8, <1>9 DEF HadoopInv

\* The loop of one task of an application has other containers left.
LEMMA HadoopTodo ==
  ASSUME todo \in [{"start", "removal"} -> [App -> SUBSET Container]],
         NEW x \in {"start", "removal"}, NEW a \in App, NEW cs \in SUBSET Container,
         todo' = [todo EXCEPT ![x][a] = cs]
  PROVE  /\ todo' \in [{"start", "removal"} -> [App -> SUBSET Container]]
         /\ \A b \in App :
              /\ todo'["start"][b] = IF x = "start" /\ b = a THEN cs ELSE todo["start"][b]
              /\ todo'["removal"][b] = IF x = "removal" /\ b = a THEN cs ELSE todo["removal"][b]
<1>1. PICK t \in [App -> SUBSET Container] : t = [todo[x] EXCEPT ![a] = cs]
  OBVIOUS
<1>2. todo' = [todo EXCEPT ![x] = t]
  BY <1>1
<1>3. t[a] = cs /\ \A b \in App : b # a => t[b] = todo[x][b]
  BY <1>1
<1>4. todo' \in [{"start", "removal"} -> [App -> SUBSET Container]]
  BY <1>2
<1>5. todo'[x] = t /\ \A y \in {"start", "removal"} : y # x => todo'[y] = todo[y]
  BY <1>2
<1> QED
  BY <1>3, <1>4, <1>5

LEMMA HadoopStopCluster ==
  ASSUME HadoopInv, NEW a \in App, UNCHANGED scenario, Hadoop!StopCluster(a)
  PROVE  HadoopInv'
<1> USE HadoopAssumption
<1>1. /\ step[a] = "stopping" /\ mishaps' \in 0..MaxMishaps
      /\ todo' = [todo EXCEPT !["start"][a] = Hadoop!ContainersOf(a)]
      /\ UNCHANGED <<state, counters, known, subscribed, listed, instances, removal, eviction, doomed,
                     hadError, stop, unstopped>>
  BY DEF Hadoop!StopCluster, Hadoop!Reach, Hadoop!Fault, Hadoop!database, Hadoop!hosts, HadoopInv,
         Hadoop!TypeOK
<1>2. PICK l \in {"forgetting", "failed"} : step' = [step EXCEPT ![a] = l]
  BY DEF Hadoop!StopCluster, Hadoop!Reach
<1>3. \A b \in App : step'[b] = IF b = a THEN l ELSE step[b]
  BY <1>2 DEF HadoopInv, Hadoop!TypeOK
<1>4. /\ \A b \in App : /\ todo'["start"][b] = IF b = a THEN Hadoop!ContainersOf(a) ELSE todo["start"][b]
                        /\ todo'["removal"][b] = todo["removal"][b]
      /\ todo' \in [{"start", "removal"} -> [App -> SUBSET Container]]
  <2>1. Hadoop!ContainersOf(a) \subseteq Container
    BY DEF Hadoop!ContainersOf
  <2>2. PICK cs \in SUBSET Container : cs = Hadoop!ContainersOf(a)
    BY <2>1
  <2>3. todo \in [{"start", "removal"} -> [App -> SUBSET Container]]
    BY DEF HadoopInv, Hadoop!TypeOK
  <2>4. todo' = [todo EXCEPT !["start"][a] = cs]
    BY <1>1, <2>2
  <2> HIDE DEF Hadoop!ContainersOf
  <2>5. /\ todo' \in [{"start", "removal"} -> [App -> SUBSET Container]]
        /\ \A b \in App :
             /\ todo'["start"][b] = IF "start" = "start" /\ b = a THEN cs ELSE todo["start"][b]
             /\ todo'["removal"][b] = IF "start" = "removal" /\ b = a THEN cs
                                                               ELSE todo["removal"][b]
    BY <2>3, <2>4, HadoopTodo
  <2> QED
    BY <2>2, <2>5
<1>5. Hadoop!TypeOK'
  BY <1>1, <1>2, <1>4 DEF HadoopInv, Hadoop!TypeOK
<1>6. ASSUME NEW c \in Container, c \in instances' \ known' PROVE OnTheWay(c)'
  <2>1. OnTheWay(c) /\ Owner[c] \in App
    BY <1>1, <1>6 DEF HadoopInv
  <2> QED
    BY <1>1, <1>3, <1>4, <2>1 DEF OnTheWay
<1>7. ASSUME NEW c \in Container PROVE Undone(c)'
  <2>1. Undone(c) /\ Owner[c] \in App
    BY DEF HadoopInv
  <2>2. Owner[c] = a => c \in todo'["start"][Owner[c]]
    BY <1>4 DEF Hadoop!ContainersOf
  <2> QED
    BY <1>1, <1>3, <1>4, <2>1, <2>2 DEF Undone, Forgets
<1>8. ASSUME NEW b \in App PROVE Busy(b)' /\ Own(b)'
  <2>1. Busy(b) /\ Own(b)
    BY DEF HadoopInv
  <2>2. Own(b)'
    BY <1>1, <1>4, <2>1 DEF Own, Hadoop!ContainersOf
  <2>3. Busy(b)'
    BY <1>1, <1>3, <2>1 DEF Busy
  <2> QED
    BY <2>2, <2>3
<1> QED
  BY <1>5, <1>6, <1>7, <1>8 DEF HadoopInv

\* What remove_container_from_app_db leaves of container c.
LEMMA HadoopForget ==
  ASSUME HadoopInv, NEW c \in Container, NEW erred \in BOOLEAN, Hadoop!Forget(c, erred)
  PROVE  /\ known' \subseteq known /\ subscribed' \subseteq subscribed
         /\ \A d \in known \ known' : d = c
         /\ ~erred => c \notin known' \cup subscribed'
         /\ mishaps' \in 0..MaxMishaps
BY HadoopAssumption DEF Hadoop!Forget, Hadoop!Fault, HadoopInv, Hadoop!TypeOK

LEMMA HadoopForgetNext ==
  ASSUME HadoopInv, NEW a \in App, UNCHANGED scenario, Hadoop!ForgetNext(a)
  PROVE  HadoopInv'
<1> USE HadoopAssumption
<1>1. PICK c \in todo["start"][a], erred \in BOOLEAN :
        /\ Hadoop!Forget(c, erred)
        /\ hadError' = IF erred THEN hadError \cup {a} ELSE hadError
        /\ todo' = [todo EXCEPT !["start"][a] = @ \ {c}]
  BY DEF Hadoop!ForgetNext
<1>2. /\ step[a] = "forgetting"
      /\ UNCHANGED <<state, counters, listed, instances, step, removal, eviction, doomed, stop, unstopped>>
  BY DEF Hadoop!ForgetNext, Hadoop!hosts
<1>3. c \in Container /\ Owner[c] = a
  BY <1>1 DEF HadoopInv, Own, Hadoop!ContainersOf
<1>4. /\ known' \subseteq known /\ subscribed' \subseteq subscribed
      /\ \A d \in known \ known' : d = c
      /\ ~erred => c \notin known' \cup subscribed'
      /\ mishaps' \in 0..MaxMishaps
  BY <1>1, <1>3, HadoopForget
<1>5. /\ \A b \in App : /\ todo'["start"][b] = IF b = a THEN todo["start"][a] \ {c} ELSE todo["start"][b]
                        /\ todo'["removal"][b] = todo["removal"][b]
      /\ todo' \in [{"start", "removal"} -> [App -> SUBSET Container]]
  <2>1. todo \in [{"start", "removal"} -> [App -> SUBSET Container]]
    BY DEF HadoopInv, Hadoop!TypeOK
  <2>2. PICK cs \in SUBSET Container : cs = todo["start"][a] \ {c}
    BY <2>1
  <2>3. todo' = [todo EXCEPT !["start"][a] = cs]
    BY <1>1, <2>2
  <2>4. /\ todo' \in [{"start", "removal"} -> [App -> SUBSET Container]]
        /\ \A b \in App :
             /\ todo'["start"][b] = IF "start" = "start" /\ b = a THEN cs ELSE todo["start"][b]
             /\ todo'["removal"][b] = IF "start" = "removal" /\ b = a THEN cs
                                                               ELSE todo["removal"][b]
    BY <2>1, <2>3, HadoopTodo
  <2> QED
    BY <2>2, <2>4
<1>6. hadError \subseteq hadError' /\ hadError' \subseteq App /\ \A b \in hadError' \ hadError : b = a
  BY <1>1 DEF HadoopInv, Hadoop!TypeOK
<1>7. Hadoop!TypeOK'
  BY <1>2, <1>4, <1>5, <1>6 DEF HadoopInv, Hadoop!TypeOK
<1>8. ASSUME NEW d \in Container, d \in instances' \ known' PROVE OnTheWay(d)'
  <2>1. CASE d = c
    BY <1>2, <1>3, <1>5, <2>1 DEF OnTheWay
  <2>2. CASE d # c
    <3>1. OnTheWay(d) /\ Owner[d] \in App
      BY <1>2, <1>4, <1>8, <2>2 DEF HadoopInv
    <3>2. /\ todo'["start"][Owner[d]] \subseteq todo["start"][Owner[d]]
          /\ todo'["removal"][Owner[d]] = todo["removal"][Owner[d]]
      BY <1>5, <3>1
    <3> QED
      BY <1>2, <3>1, <3>2 DEF OnTheWay
  <2> QED
    BY <2>1, <2>2
<1>9. ASSUME NEW d \in Container PROVE Undone(d)'
  <2>1. Undone(d) /\ Owner[d] \in App
    BY DEF HadoopInv
  <2>2. Forgets(d)' => d \notin known' \cup subscribed'
    <3>1. CASE d = c
      BY <1>1, <1>3, <1>4, <3>1 DEF Forgets
    <3>2. CASE d # c
      <4>1. d \in todo'["start"][Owner[d]] <=> d \in todo["start"][Owner[d]]
        BY <1>5, <2>1, <3>2
      <4>2. Forgets(d)' => Forgets(d)
        BY <1>2, <1>6, <4>1 DEF Forgets
      <4> QED
        BY <1>4, <2>1, <4>2 DEF Undone
    <3> QED
      BY <3>1, <3>2
  <2> QED
    BY <1>2, <2>1, <2>2 DEF Undone
<1>10. ASSUME NEW b \in App PROVE Busy(b)' /\ Own(b)'
  <2>1. Busy(b) /\ Own(b)
    BY DEF HadoopInv
  <2>2. Own(b)'
    <3>1. /\ todo'["start"][b] \subseteq todo["start"][b]
          /\ todo'["removal"][b] = todo["removal"][b]
      BY <1>5
    <3> QED
      BY <1>2, <2>1, <3>1 DEF Own, Hadoop!ContainersOf
  <2>3. Busy(b)'
    BY <1>2, <1>6, <2>1 DEF Busy
  <2> QED
    BY <2>2, <2>3
<1> QED
  BY <1>7, <1>8, <1>9, <1>10 DEF HadoopInv

LEMMA HadoopSleep ==
  ASSUME HadoopInv, NEW a \in App, UNCHANGED scenario, Hadoop!Sleep(a)
  PROVE  HadoopInv'
<1> USE HadoopAssumption
<1>1. /\ step[a] = "forgetting" /\ todo["start"][a] = {} /\ mishaps' \in 0..MaxMishaps
      /\ UNCHANGED <<state, counters, known, subscribed, listed, instances, removal, eviction, todo,
                     doomed, hadError, stop, unstopped>>
  BY DEF Hadoop!Sleep, Hadoop!Reach, Hadoop!Fault, Hadoop!database, Hadoop!hosts, HadoopInv,
         Hadoop!TypeOK
<1>2. PICK l \in {"queueing", "failed"} : step' = [step EXCEPT ![a] = l]
  BY DEF Hadoop!Sleep, Hadoop!Reach
<1>3. \A b \in App : step'[b] = IF b = a THEN l ELSE step[b]
  BY <1>2 DEF HadoopInv, Hadoop!TypeOK
<1>4. Hadoop!TypeOK'
  BY <1>1, <1>2 DEF HadoopInv, Hadoop!TypeOK
<1>5. ASSUME NEW c \in Container, c \in instances' \ known' PROVE OnTheWay(c)'
  <2>1. OnTheWay(c) /\ Owner[c] \in App
    BY <1>1, <1>5 DEF HadoopInv
  <2> QED
    BY <1>1, <1>3, <2>1 DEF OnTheWay
<1>6. ASSUME NEW c \in Container PROVE Undone(c)'
  <2>1. Undone(c) /\ Owner[c] \in App
    BY DEF HadoopInv
  <2>2. Forgets(c)' => Forgets(c)
    BY <1>1, <1>3, <2>1 DEF Forgets
  <2> QED
    BY <1>1, <1>3, <2>1, <2>2 DEF Undone
<1>7. ASSUME NEW b \in App PROVE Busy(b)' /\ Own(b)'
  <2>1. Busy(b) /\ Own(b)
    BY DEF HadoopInv
  <2>2. Own(b)'
    BY <1>1, <2>1 DEF Own, Hadoop!ContainersOf
  <2>3. Busy(b)'
    BY <1>1, <1>3, <2>1 DEF Busy
  <2> QED
    BY <2>2, <2>3
<1> QED
  BY <1>4, <1>5, <1>6, <1>7 DEF HadoopInv

\* A task of stops is queued, and one of them goes on.
LEMMA HadoopQueued ==
  ASSUME stop \in [Hadoop!Origin -> [Container -> Hadoop!Stages]],
         NEW x \in Hadoop!Origin, NEW cs, Hadoop!Queued(x, cs)
  PROVE  /\ stop' \in [Hadoop!Origin -> [Container -> Hadoop!Stages]]
         /\ \A y \in Hadoop!Origin, c \in Container :
              stop'[y][c] = IF y = x /\ c \in cs THEN "queued" ELSE stop[y][c]
<1>1. PICK t : t = [c \in Container |-> IF c \in cs THEN "queued" ELSE stop[x][c]]
  OBVIOUS
<1>2. t \in [Container -> Hadoop!Stages]
  BY <1>1 DEF Hadoop!Stages
<1>3. \A c \in Container : t[c] = IF c \in cs THEN "queued" ELSE stop[x][c]
  BY <1>1
<1>4. stop' = [stop EXCEPT ![x] = t]
  BY <1>1 DEF Hadoop!Queued
<1>5. stop' \in [Hadoop!Origin -> [Container -> Hadoop!Stages]]
  BY <1>2, <1>4
<1>6. stop'[x] = t /\ \A y \in Hadoop!Origin : y # x => stop'[y] = stop[y]
  BY <1>4
<1>7. ASSUME NEW y \in Hadoop!Origin, NEW c \in Container
      PROVE  stop'[y][c] = IF y = x /\ c \in cs THEN "queued" ELSE stop[y][c]
  BY <1>3, <1>6
<1> QED
  BY <1>5, <1>7

LEMMA HadoopStops ==
  ASSUME stop \in [Hadoop!Origin -> [Container -> Hadoop!Stages]],
         NEW x \in Hadoop!Origin, NEW c \in Container, NEW v \in Hadoop!Stages,
         stop' = [stop EXCEPT ![x][c] = v]
  PROVE  /\ stop' \in [Hadoop!Origin -> [Container -> Hadoop!Stages]]
         /\ \A y \in Hadoop!Origin, d \in Container :
              stop'[y][d] = IF y = x /\ d = c THEN v ELSE stop[y][d]
<1>1. PICK t \in [Container -> Hadoop!Stages] : t = [stop[x] EXCEPT ![c] = v]
  OBVIOUS
<1>2. t[c] = v /\ \A d \in Container : d # c => t[d] = stop[x][d]
  BY <1>1
<1>3. stop' = [stop EXCEPT ![x] = t]
  BY <1>1
<1>4. stop' \in [Hadoop!Origin -> [Container -> Hadoop!Stages]]
  BY <1>3
<1>5. stop'[x] = t /\ \A y \in Hadoop!Origin : y # x => stop'[y] = stop[y]
  BY <1>3
<1>6. ASSUME NEW y \in Hadoop!Origin, NEW d \in Container
      PROVE  stop'[y][d] = IF y = x /\ d = c THEN v ELSE stop[y][d]
  BY <1>2, <1>5
<1> QED
  BY <1>4, <1>6

LEMMA HadoopQueueStops ==
  ASSUME HadoopInv, NEW a \in App, UNCHANGED scenario, Hadoop!QueueStops(a)
  PROVE  HadoopInv'
<1> USE HadoopAssumption
<1>1. /\ step[a] = "queueing" /\ step' = [step EXCEPT ![a] = "finishing"]
      /\ Hadoop!Queued("start", Hadoop!ContainersOf(a))
      /\ UNCHANGED <<state, counters, known, subscribed, listed, instances, removal, eviction, todo,
                     doomed, hadError, unstopped, mishaps>>
  BY DEF Hadoop!QueueStops, Hadoop!database, Hadoop!hosts
<1>2. \A b \in App : step'[b] = IF b = a THEN "finishing" ELSE step[b]
  BY <1>1 DEF HadoopInv, Hadoop!TypeOK
<1>3. \A c \in Container : c \in Hadoop!ContainersOf(a) <=> Owner[c] = a
  BY DEF Hadoop!ContainersOf
<1>4. "start" \in Hadoop!Origin
  BY DEF Hadoop!Origin
<1>5. /\ stop' \in [Hadoop!Origin -> [Container -> Hadoop!Stages]]
      /\ \A y \in Hadoop!Origin, c \in Container :
           stop'[y][c] = IF y = "start" /\ c \in Hadoop!ContainersOf(a) THEN "queued" ELSE stop[y][c]
  <2>1. stop \in [Hadoop!Origin -> [Container -> Hadoop!Stages]]
    BY DEF HadoopInv, Hadoop!TypeOK
  <2> QED
    BY <1>1, <1>4, <2>1, HadoopQueued
<1>6. Hadoop!TypeOK'
  BY <1>1, <1>5 DEF HadoopInv, Hadoop!TypeOK
<1>7. ASSUME NEW c \in Container, c \in instances' \ known' PROVE OnTheWay(c)'
  <2>1. OnTheWay(c) /\ Owner[c] \in App
    BY <1>1, <1>7 DEF HadoopInv
  <2>2. CASE Owner[c] = a
    <3>1. stop'["start"][c] = "queued"
      BY <1>3, <1>4, <1>5, <2>2
    <3> QED
      BY <1>4, <3>1 DEF OnTheWay
  <2>3. CASE Owner[c] # a
    <3>1. \A y \in Hadoop!Origin : stop'[y][c] = stop[y][c]
      BY <1>3, <1>5, <2>3
    <3> QED
      BY <1>1, <1>2, <2>1, <2>3, <3>1 DEF OnTheWay
  <2> QED
    BY <2>2, <2>3
<1>8. ASSUME NEW c \in Container PROVE Undone(c)'
  <2>1. Undone(c) /\ Owner[c] \in App
    BY DEF HadoopInv
  <2>2. stop'["start"][c] = IF Owner[c] = a THEN "queued" ELSE stop["start"][c]
    BY <1>3, <1>4, <1>5
  <2>3. CASE Owner[c] = a
    BY <1>1, <1>2, <2>1, <2>2, <2>3 DEF Undone, Forgets
  <2>4. CASE Owner[c] # a
    BY <1>1, <1>2, <2>1, <2>2, <2>4 DEF Undone, Forgets
  <2> QED
    BY <2>3, <2>4
<1>9. ASSUME NEW b \in App PROVE Busy(b)' /\ Own(b)'
  <2>1. Busy(b) /\ Own(b)
    BY DEF HadoopInv
  <2>2. Own(b)'
    BY <1>1, <2>1 DEF Own, Hadoop!ContainersOf
  <2>3. Busy(b)'
    BY <1>1, <1>2, <2>1 DEF Busy
  <2> QED
    BY <2>2, <2>3
<1> QED
  BY <1>6, <1>7, <1>8, <1>9 DEF HadoopInv

LEMMA HadoopFinish ==
  ASSUME HadoopInv, NEW a \in App, UNCHANGED scenario, Hadoop!Finish(a)
  PROVE  HadoopInv'
<1> USE HadoopAssumption
<1>1. /\ step[a] = "finishing"
      /\ UNCHANGED <<counters, known, subscribed, listed, instances, removal, eviction, todo, doomed,
                     hadError, stop, unstopped, mishaps>>
  BY DEF Hadoop!Finish, Hadoop!hosts
<1>2. PICK l \in {"done", "failed"} :
        /\ step' = [step EXCEPT ![a] = l]
        /\ l = "done" => a \notin hadError
        /\ \/ state' = state /\ state[a] = "none"
           \/ state' = [state EXCEPT ![a] = "stopped"]
  BY DEF Hadoop!Finish, Hadoop!Change
<1>3. /\ \A b \in App : step'[b] = IF b = a THEN l ELSE step[b]
      /\ step' \in [App -> {"idle", "depending", "ready", "deploying", "deployed", "downloading",
                            "launching", "computed", "uploading", "stopping", "forgetting",
                            "queueing", "finishing", "done", "failed"}]
  BY <1>2 DEF HadoopInv, Hadoop!TypeOK
<1>4. /\ \A b \in App : b # a => state'[b] = state[b]
      /\ state'[a] \in {"none", "stopped"}
      /\ state' \in [App -> {"none", "stopped", "running", "hdfs_downloading", "hdfs_uploading"}]
  <2>1. CASE state' = state /\ state[a] = "none"
    BY <2>1 DEF HadoopInv, Hadoop!TypeOK
  <2>2. CASE state' = [state EXCEPT ![a] = "stopped"]
    BY <2>2 DEF HadoopInv, Hadoop!TypeOK
  <2> QED
    BY <1>2, <2>1, <2>2
<1>5. Hadoop!TypeOK'
  BY <1>1, <1>3, <1>4 DEF HadoopInv, Hadoop!TypeOK
<1>6. ASSUME NEW c \in Container, c \in instances' \ known' PROVE OnTheWay(c)'
  <2>1. OnTheWay(c) /\ Owner[c] \in App
    BY <1>1, <1>6 DEF HadoopInv
  <2> QED
    BY <1>1, <1>3, <2>1 DEF OnTheWay
<1>7. ASSUME NEW c \in Container PROVE Undone(c)'
  <2>1. Undone(c) /\ Owner[c] \in App
    BY DEF HadoopInv
  <2>2. CASE Owner[c] = a
    BY <1>1, <1>3, <2>1, <2>2 DEF Undone, Forgets
  <2>3. CASE Owner[c] # a
    BY <1>1, <1>3, <2>1, <2>3 DEF Undone, Forgets
  <2> QED
    BY <2>2, <2>3
<1>8. ASSUME NEW b \in App PROVE Busy(b)' /\ Own(b)'
  <2>1. Busy(b) /\ Own(b)
    BY DEF HadoopInv
  <2>2. Own(b)'
    BY <1>1, <2>1 DEF Own, Hadoop!ContainersOf
  <2>3. CASE b = a
    BY <1>1, <1>2, <1>3, <1>4, <2>2, <2>3 DEF Busy
  <2>4. CASE b # a
    BY <1>1, <1>3, <1>4, <2>1, <2>2, <2>4 DEF Busy
  <2> QED
    BY <2>2, <2>3, <2>4
<1> QED
  BY <1>5, <1>6, <1>7, <1>8 DEF HadoopInv

\* The stop of a container, whoever queued it.
LEMMA HadoopStopStep ==
  ASSUME HadoopInv, NEW c \in Container, NEW x \in Hadoop!Origin, UNCHANGED scenario,
         Hadoop!StopStep(x, c)
  PROVE  HadoopInv'
<1> USE HadoopAssumption
<1>1. UNCHANGED <<state, counters, known, subscribed, step, removal, eviction, todo, doomed, hadError>>
  BY DEF Hadoop!StopStep, Hadoop!StopApp, Hadoop!StopInstance, Hadoop!Unlist, Hadoop!database,
         Hadoop!hosts, Hadoop!tasks
<1>2. /\ mishaps' \in 0..MaxMishaps /\ listed' \subseteq listed /\ instances' \subseteq instances
      /\ unstopped \subseteq unstopped' /\ unstopped' \subseteq Container
  BY DEF Hadoop!StopStep, Hadoop!StopApp, Hadoop!StopInstance, Hadoop!Unlist, Hadoop!Fault,
         Hadoop!hosts, HadoopInv, Hadoop!TypeOK
<1>3. PICK v \in {"stopping", "failed", "unlisting", "done"} :
        /\ stop' = [stop EXCEPT ![x][c] = v]
        /\ v \in {"stopping", "failed"} => stop[x][c] = "queued"
        /\ v = "unlisting" => stop[x][c] = "stopping" /\ (c \notin instances' \/ c \in unstopped')
        /\ v = "done" => stop[x][c] = "unlisting" /\ c \notin listed'
  <2>1. CASE Hadoop!StopApp(x, c)
    BY <2>1 DEF Hadoop!StopApp
  <2>2. CASE Hadoop!StopInstance(x, c)
    BY <2>2 DEF Hadoop!StopInstance
  <2>3. CASE Hadoop!Unlist(x, c)
    BY <2>3 DEF Hadoop!Unlist
  <2> QED
    BY <2>1, <2>2, <2>3 DEF Hadoop!StopStep
<1>4. /\ stop' \in [Hadoop!Origin -> [Container -> Hadoop!Stages]]
      /\ \A y \in Hadoop!Origin, d \in Container :
           stop'[y][d] = IF y = x /\ d = c THEN v ELSE stop[y][d]
  <2>1. stop \in [Hadoop!Origin -> [Container -> Hadoop!Stages]] /\ v \in Hadoop!Stages
    BY DEF HadoopInv, Hadoop!TypeOK, Hadoop!Stages
  <2> QED
    BY <1>3, <2>1, HadoopStops
<1>5. Hadoop!TypeOK'
  BY <1>1, <1>2, <1>4 DEF HadoopInv, Hadoop!TypeOK
<1>6. ASSUME NEW d \in Container, d \in instances' \ known' PROVE OnTheWay(d)'
  <2>1. OnTheWay(d) /\ Owner[d] \in App
    BY <1>1, <1>2, <1>6 DEF HadoopInv
  <2>2. CASE \E y \in Hadoop!Origin : stop[y][d] \in {"queued", "stopping", "failed"}
    <3>1. PICK y \in Hadoop!Origin : stop[y][d] \in {"queued", "stopping", "failed"}
      BY <2>2
    <3>2. CASE y = x /\ d = c
      <4>1. stop'[y][d] = v
        BY <1>4, <3>2
      <4>2. v \in {"stopping", "failed"} \/ d \in unstopped'
        BY <1>3, <1>6, <3>1, <3>2
      <4> QED
        BY <4>1, <4>2 DEF OnTheWay
    <3>3. CASE ~(y = x /\ d = c)
      <4>1. stop'[y][d] = stop[y][d]
        BY <1>4, <3>3
      <4> QED
        BY <3>1, <4>1 DEF OnTheWay
    <3> QED
      BY <3>2, <3>3
  <2>3. CASE ~\E y \in Hadoop!Origin : stop[y][d] \in {"queued", "stopping", "failed"}
    BY <1>1, <1>2, <2>1, <2>3 DEF OnTheWay
  <2> QED
    BY <2>2, <2>3
<1>7. ASSUME NEW d \in Container PROVE Undone(d)'
  <2>1. Undone(d) /\ Owner[d] \in App /\ "start" \in Hadoop!Origin
    BY DEF HadoopInv, Hadoop!Origin
  <2>2. stop'["start"][d] = IF "start" = x /\ d = c THEN v ELSE stop["start"][d]
    BY <1>4, <2>1
  <2>3. Forgets(d)' <=> Forgets(d)
    BY <1>1 DEF Forgets
  <2> QED
    BY <1>1, <1>2, <1>3, <2>1, <2>2, <2>3 DEF Undone
<1>8. ASSUME NEW b \in App PROVE Busy(b)' /\ Own(b)'
  BY <1>1 DEF HadoopInv, Busy, Own, Hadoop!ContainersOf
<1> QED
  BY <1>5, <1>6, <1>7, <1>8 DEF HadoopInv

LEMMA HadoopAskRemoval ==
  ASSUME HadoopInv, NEW a \in App, UNCHANGED scenario, Hadoop!AskRemoval(a)
  PROVE  HadoopInv'
<1> USE HadoopAssumption
<1>1. PICK cs : cs = Hadoop!ContainersOf(a) \cap known \cap subscribed
  OBVIOUS
<1>2. cs \in SUBSET Container /\ cs \subseteq Hadoop!ContainersOf(a)
  BY <1>1 DEF Hadoop!ContainersOf
<1>3. /\ removal[a] = "idle" /\ removal' = [removal EXCEPT ![a] = "forgetting"]
      /\ doomed' = [doomed EXCEPT ![a] = cs]
      /\ todo' = [todo EXCEPT !["removal"][a] = doomed'[a]]
      /\ UNCHANGED <<state, counters, known, subscribed, listed, instances, step, eviction,
                     hadError, stop, unstopped, mishaps>>
  BY <1>1 DEF Hadoop!AskRemoval, Hadoop!database, Hadoop!hosts
<1>4. /\ \A b \in App : /\ removal'[b] = IF b = a THEN "forgetting" ELSE removal[b]
                        /\ doomed'[b] = IF b = a THEN cs ELSE doomed[b]
      /\ doomed' \in [App -> SUBSET Container]
      /\ removal' \in [App -> {"idle", "forgetting", "queueing", "leaving", "deleting", "done", "failed"}]
  BY <1>2, <1>3 DEF HadoopInv, Hadoop!TypeOK
<1>5. /\ \A b \in App : /\ todo'["start"][b] = todo["start"][b]
                        /\ todo'["removal"][b] = IF b = a THEN cs ELSE todo["removal"][b]
      /\ todo' \in [{"start", "removal"} -> [App -> SUBSET Container]]
  <2>1. todo \in [{"start", "removal"} -> [App -> SUBSET Container]]
    BY DEF HadoopInv, Hadoop!TypeOK
  <2>2. todo' = [todo EXCEPT !["removal"][a] = cs]
    BY <1>3, <1>4
  <2>3. /\ todo' \in [{"start", "removal"} -> [App -> SUBSET Container]]
        /\ \A b \in App :
             /\ todo'["start"][b] = IF "removal" = "start" /\ b = a THEN cs ELSE todo["start"][b]
             /\ todo'["removal"][b] = IF "removal" = "removal" /\ b = a THEN cs
                                                                 ELSE todo["removal"][b]
    BY <1>2, <2>1, <2>2, HadoopTodo
  <2> QED
    BY <2>3
<1>6. Hadoop!TypeOK'
  BY <1>3, <1>4, <1>5 DEF HadoopInv, Hadoop!TypeOK
<1>7. ASSUME NEW c \in Container, c \in instances' \ known' PROVE OnTheWay(c)'
  <2>1. OnTheWay(c) /\ Owner[c] \in App
    BY <1>3, <1>7 DEF HadoopInv
  <2>2. CASE Owner[c] = a
    BY <1>3, <1>5, <2>1, <2>2 DEF OnTheWay
  <2>3. CASE Owner[c] # a
    <3>1. /\ todo'["start"][Owner[c]] = todo["start"][Owner[c]]
          /\ todo'["removal"][Owner[c]] = todo["removal"][Owner[c]]
          /\ doomed'[Owner[c]] = doomed[Owner[c]] /\ removal'[Owner[c]] = removal[Owner[c]]
      BY <1>4, <1>5, <2>1, <2>3
    <3> QED
      BY <1>3, <2>1, <3>1 DEF OnTheWay
  <2> QED
    BY <2>2, <2>3
<1>8. ASSUME NEW c \in Container PROVE Undone(c)'
  <2>1. Undone(c) /\ Owner[c] \in App
    BY DEF HadoopInv
  <2>2. todo'["start"][Owner[c]] = todo["start"][Owner[c]]
    BY <1>5, <2>1
  <2> QED
    BY <1>3, <2>1, <2>2 DEF Undone, Forgets
<1>9. ASSUME NEW b \in App PROVE Busy(b)' /\ Own(b)'
  <2>1. Busy(b) /\ Own(b)
    BY DEF HadoopInv
  <2>2. Busy(b)'
    BY <1>3, <2>1 DEF Busy
  <2>3. CASE b = a
    BY <1>2, <1>4, <1>5, <2>1, <2>2, <2>3 DEF Own, Hadoop!ContainersOf
  <2>4. CASE b # a
    BY <1>4, <1>5, <2>1, <2>2, <2>4 DEF Own, Hadoop!ContainersOf
  <2> QED
    BY <2>3, <2>4
<1> QED
  BY <1>6, <1>7, <1>8, <1>9 DEF HadoopInv

LEMMA HadoopRemoveNext ==
  ASSUME HadoopInv, NEW a \in App, UNCHANGED scenario, Hadoop!RemoveNext(a)
  PROVE  HadoopInv'
<1> USE HadoopAssumption
<1>1. PICK c \in todo["removal"][a], erred \in BOOLEAN :
        /\ Hadoop!Forget(c, erred)
        /\ todo' = [todo EXCEPT !["removal"][a] = @ \ {c}]
  BY DEF Hadoop!RemoveNext
<1>2. /\ removal[a] = "forgetting"
      /\ UNCHANGED <<state, counters, listed, instances, step, removal, eviction, doomed, hadError,
                     stop, unstopped>>
  BY DEF Hadoop!RemoveNext, Hadoop!hosts
<1>3. c \in Container /\ Owner[c] = a /\ c \in doomed[a]
  BY <1>1 DEF HadoopInv, Own, Hadoop!ContainersOf
<1>4. /\ known' \subseteq known /\ subscribed' \subseteq subscribed
      /\ \A d \in known \ known' : d = c
      /\ mishaps' \in 0..MaxMishaps
  BY <1>1, <1>3, HadoopForget
<1>5. /\ \A b \in App : /\ todo'["start"][b] = todo["start"][b]
                        /\ todo'["removal"][b] = IF b = a THEN todo["removal"][a] \ {c}
                                                          ELSE todo["removal"][b]
      /\ todo' \in [{"start", "removal"} -> [App -> SUBSET Container]]
  <2>1. todo \in [{"start", "removal"} -> [App -> SUBSET Container]]
    BY DEF HadoopInv, Hadoop!TypeOK
  <2>2. PICK cs \in SUBSET Container : cs = todo["removal"][a] \ {c}
    BY <2>1
  <2>3. todo' = [todo EXCEPT !["removal"][a] = cs]
    BY <1>1, <2>2
  <2>4. /\ todo' \in [{"start", "removal"} -> [App -> SUBSET Container]]
        /\ \A b \in App :
             /\ todo'["start"][b] = IF "removal" = "start" /\ b = a THEN cs ELSE todo["start"][b]
             /\ todo'["removal"][b] = IF "removal" = "removal" /\ b = a THEN cs
                                                                 ELSE todo["removal"][b]
    BY <2>1, <2>3, HadoopTodo
  <2> QED
    BY <2>2, <2>4
<1>6. Hadoop!TypeOK'
  BY <1>2, <1>4, <1>5 DEF HadoopInv, Hadoop!TypeOK
<1>7. ASSUME NEW d \in Container, d \in instances' \ known' PROVE OnTheWay(d)'
  <2>1. CASE d = c
    BY <1>2, <1>3, <1>5, <2>1 DEF OnTheWay
  <2>2. CASE d # c
    <3>1. OnTheWay(d) /\ Owner[d] \in App
      BY <1>2, <1>4, <1>7, <2>2 DEF HadoopInv
    <3>2. /\ todo'["start"][Owner[d]] = todo["start"][Owner[d]]
          /\ todo'["removal"][Owner[d]] \subseteq todo["removal"][Owner[d]]
      BY <1>5, <3>1
    <3> QED
      BY <1>2, <3>1, <3>2 DEF OnTheWay
  <2> QED
    BY <2>1, <2>2
<1>8. ASSUME NEW d \in Container PROVE Undone(d)'
  <2>1. Undone(d) /\ Owner[d] \in App
    BY DEF HadoopInv
  <2>2. todo'["start"][Owner[d]] = todo["start"][Owner[d]]
    BY <1>5, <2>1
  <2> QED
    BY <1>2, <1>4, <2>1, <2>2 DEF Undone, Forgets
<1>9. ASSUME NEW b \in App PROVE Busy(b)' /\ Own(b)'
  <2>1. Busy(b) /\ Own(b)
    BY DEF HadoopInv
  <2>2. /\ todo'["start"][b] = todo["start"][b]
        /\ todo'["removal"][b] \subseteq todo["removal"][b]
    BY <1>5
  <2>3. Own(b)'
    BY <1>2, <2>1, <2>2 DEF Own, Hadoop!ContainersOf
  <2>4. Busy(b)'
    BY <1>2, <2>1 DEF Busy
  <2> QED
    BY <2>3, <2>4
<1> QED
  BY <1>6, <1>7, <1>8, <1>9 DEF HadoopInv

LEMMA HadoopQueueRemovalStops ==
  ASSUME HadoopInv, NEW a \in App, UNCHANGED scenario, Hadoop!QueueRemovalStops(a)
  PROVE  HadoopInv'
<1> USE HadoopAssumption
<1>1. /\ removal' = [removal EXCEPT ![a] = "leaving"]
      /\ Hadoop!Queued("removal", doomed[a])
      /\ UNCHANGED <<state, counters, known, subscribed, listed, instances, step, eviction, todo,
                     doomed, hadError, unstopped, mishaps>>
  BY DEF Hadoop!QueueRemovalStops, Hadoop!database, Hadoop!hosts
<1>2. \A b \in App : removal'[b] = IF b = a THEN "leaving" ELSE removal[b]
  BY <1>1 DEF HadoopInv, Hadoop!TypeOK
<1>3. {"start", "removal"} \subseteq Hadoop!Origin
  BY DEF Hadoop!Origin
<1>4. /\ stop' \in [Hadoop!Origin -> [Container -> Hadoop!Stages]]
      /\ \A y \in Hadoop!Origin, c \in Container :
           stop'[y][c] = IF y = "removal" /\ c \in doomed[a] THEN "queued" ELSE stop[y][c]
  <2>1. stop \in [Hadoop!Origin -> [Container -> Hadoop!Stages]] /\ "removal" \in Hadoop!Origin
    BY <1>3 DEF HadoopInv, Hadoop!TypeOK
  <2> QED
    BY <1>1, <2>1, HadoopQueued
<1>5. Hadoop!TypeOK'
  BY <1>1, <1>4 DEF HadoopInv, Hadoop!TypeOK
<1>6. ASSUME NEW c \in Container, c \in instances' \ known' PROVE OnTheWay(c)'
  <2>1. OnTheWay(c) /\ Owner[c] \in App
    BY <1>1, <1>6 DEF HadoopInv
  <2>2. CASE c \in doomed[a]
    <3>1. stop'["removal"][c] = "queued"
      BY <1>3, <1>4, <2>2
    <3> QED
      BY <1>3, <3>1 DEF OnTheWay
  <2>3. CASE c \notin doomed[a]
    <3>1. \A y \in Hadoop!Origin : stop'[y][c] = stop[y][c]
      BY <1>4, <2>3
    <3>2. c \in doomed[Owner[c]] => removal'[Owner[c]] = removal[Owner[c]]
      BY <1>2, <2>1, <2>3
    <3> QED
      BY <1>1, <2>1, <3>1, <3>2 DEF OnTheWay
  <2> QED
    BY <2>2, <2>3
<1>7. ASSUME NEW c \in Container PROVE Undone(c)'
  <2>1. Undone(c) /\ stop'["start"][c] = stop["start"][c]
    BY <1>3, <1>4 DEF HadoopInv
  <2> QED
    BY <1>1, <2>1 DEF Undone, Forgets
<1>8. ASSUME NEW b \in App PROVE Busy(b)' /\ Own(b)'
  BY <1>1 DEF HadoopInv, Busy, Own, Hadoop!ContainersOf
<1> QED
  BY <1>5, <1>6, <1>7, <1>8 DEF HadoopInv

LEMMA HadoopLeaves ==
  ASSUME HadoopInv, NEW a \in App, UNCHANGED scenario, Hadoop!LeaveUser(a) \/ Hadoop!DeleteApp(a)
  PROVE  HadoopInv'
<1> USE HadoopAssumption
<1>1. /\ removal[a] \in {"leaving", "deleting"} /\ mishaps' \in 0..MaxMishaps
      /\ UNCHANGED <<counters, known, subscribed, listed, instances, step, eviction, todo, doomed,
                     hadError, stop, unstopped>>
  BY DEF Hadoop!LeaveUser, Hadoop!DeleteApp, Hadoop!Fault, Hadoop!database, Hadoop!hosts, HadoopInv,
         Hadoop!TypeOK
<1>2. PICK l \in {"deleting", "done", "failed"} : removal' = [removal EXCEPT ![a] = l]
  BY DEF Hadoop!LeaveUser, Hadoop!DeleteApp
<1>3. state' = state \/ state' = [state EXCEPT ![a] = "none"]
  BY DEF Hadoop!LeaveUser, Hadoop!DeleteApp, Hadoop!database
<1>4. \A b \in App : removal'[b] = IF b = a THEN l ELSE removal[b]
  BY <1>2 DEF HadoopInv, Hadoop!TypeOK
<1>5. /\ \A b \in App : state'[b] = state[b] \/ state'[b] = "none"
      /\ state' \in [App -> {"none", "stopped", "running", "hdfs_downloading", "hdfs_uploading"}]
  <2>1. CASE state' = state
    BY <2>1 DEF HadoopInv, Hadoop!TypeOK
  <2>2. CASE state' = [state EXCEPT ![a] = "none"]
    BY <2>2 DEF HadoopInv, Hadoop!TypeOK
  <2> QED
    BY <1>3, <2>1, <2>2
<1>6. Hadoop!TypeOK'
  BY <1>1, <1>2, <1>5 DEF HadoopInv, Hadoop!TypeOK
<1>7. ASSUME NEW c \in Container, c \in instances' \ known' PROVE OnTheWay(c)'
  <2>1. OnTheWay(c) /\ Owner[c] \in App
    BY <1>1, <1>7 DEF HadoopInv
  <2> QED
    BY <1>1, <1>4, <2>1 DEF OnTheWay
<1>8. ASSUME NEW c \in Container PROVE Undone(c)'
  BY <1>1 DEF HadoopInv, Undone, Forgets
<1>9. ASSUME NEW b \in App PROVE Busy(b)' /\ Own(b)'
  <2>1. Busy(b) /\ Own(b)
    BY DEF HadoopInv
  <2>2. Own(b)'
    BY <1>1, <2>1 DEF Own, Hadoop!ContainersOf
  <2>3. Busy(b)'
    BY <1>1, <1>5, <2>1 DEF Busy
  <2> QED
    BY <2>2, <2>3
<1> QED
  BY <1>6, <1>7, <1>8, <1>9 DEF HadoopInv

LEMMA HadoopEvicts ==
  ASSUME HadoopInv, NEW c \in Container, UNCHANGED scenario, Hadoop!AskEviction(c) \/ Hadoop!Evict(c)
  PROVE  HadoopInv'
<1> USE HadoopAssumption
<1>1. /\ mishaps' \in 0..MaxMishaps
      /\ UNCHANGED <<state, counters, subscribed, listed, instances, step, removal, todo, doomed,
                     hadError, unstopped>>
  BY DEF Hadoop!AskEviction, Hadoop!Evict, Hadoop!Fault, Hadoop!database, Hadoop!hosts, HadoopInv,
         Hadoop!TypeOK
<1>2. eviction' \in [Container -> {"idle", "asked", "done", "failed"}]
  <2>1. CASE Hadoop!AskEviction(c)
    BY <2>1 DEF Hadoop!AskEviction, HadoopInv, Hadoop!TypeOK
  <2>2. CASE Hadoop!Evict(c)
    <3>1. PICK l \in {"done", "failed"} : eviction' = [eviction EXCEPT ![c] = l]
      BY <2>2 DEF Hadoop!Evict
    <3> QED
      BY <3>1 DEF HadoopInv, Hadoop!TypeOK
  <2> QED
    BY <2>1, <2>2
<1>3. {"start", "eviction"} \subseteq Hadoop!Origin
  BY DEF Hadoop!Origin
<1>4. /\ known' \subseteq known
      /\ \A d \in known \ known' : d = c
      /\ \/ stop' = stop /\ known' = known
         \/ Hadoop!Queued("eviction", {c})
  BY DEF Hadoop!AskEviction, Hadoop!Evict, Hadoop!database
<1>5. /\ stop' \in [Hadoop!Origin -> [Container -> Hadoop!Stages]]
      /\ \A y \in Hadoop!Origin, d \in Container :
           stop'[y][d] = stop[y][d] \/ (y = "eviction" /\ stop'[y][d] = "queued")
      /\ known' # known => stop'["eviction"][c] = "queued"
  <2>1. stop \in [Hadoop!Origin -> [Container -> Hadoop!Stages]] /\ "eviction" \in Hadoop!Origin
    BY <1>3 DEF HadoopInv, Hadoop!TypeOK
  <2>2. CASE stop' = stop /\ known' = known
    BY <2>1, <2>2
  <2>3. CASE Hadoop!Queued("eviction", {c})
    <3>1. /\ stop' \in [Hadoop!Origin -> [Container -> Hadoop!Stages]]
          /\ \A y \in Hadoop!Origin, d \in Container :
               stop'[y][d] = IF y = "eviction" /\ d \in {c} THEN "queued" ELSE stop[y][d]
      BY <2>1, <2>3, HadoopQueued
    <3> QED
      BY <2>1, <3>1
  <2> QED
    BY <1>4, <2>2, <2>3
<1>6. Hadoop!TypeOK'
  BY <1>1, <1>2, <1>4, <1>5 DEF HadoopInv, Hadoop!TypeOK
<1>7. ASSUME NEW d \in Container, d \in instances' \ known' PROVE OnTheWay(d)'
  <2>1. CASE d \in known
    <3>1. stop'["eviction"][d] = "queued"
      BY <1>4, <1>5, <1>7, <2>1
    <3> QED
      BY <1>3, <3>1 DEF OnTheWay
  <2>2. CASE d \notin known
    <3>1. OnTheWay(d)
      BY <1>1, <1>7, <2>2 DEF HadoopInv
    <3>2. \A y \in Hadoop!Origin : stop'[y][d] = stop[y][d] \/ stop'[y][d] = "queued"
      BY <1>5
    <3> QED
      BY <1>1, <3>1, <3>2 DEF OnTheWay
  <2> QED
    BY <2>1, <2>2
<1>8. ASSUME NEW d \in Container PROVE Undone(d)'
  <2>1. Undone(d) /\ stop'["start"][d] = stop["start"][d]
    BY <1>3, <1>5 DEF HadoopInv
  <2> QED
    BY <1>1, <1>4, <2>1 DEF Undone, Forgets
<1>9. ASSUME NEW b \in App PROVE Busy(b)' /\ Own(b)'
  BY <1>1 DEF HadoopInv, Busy, Own, Hadoop!ContainersOf
<1> QED
  BY <1>6, <1>7, <1>8, <1>9 DEF HadoopInv

LEMMA HadoopStep == HadoopInv /\ Hadoop!Next => HadoopInv'
<1> SUFFICES ASSUME HadoopInv, Hadoop!Next PROVE HadoopInv'
  OBVIOUS
<1>1. UNCHANGED scenario
  BY DEF Hadoop!Next
<1>2. ASSUME NEW a \in App,
             Hadoop!Queue(a) \/ Hadoop!StartStep(a) \/ Hadoop!AskRemoval(a) \/ Hadoop!RemovalStep(a)
      PROVE  HadoopInv'
  <2>1. \/ Hadoop!Queue(a) \/ Hadoop!Dependency(a) \/ Hadoop!SetupNetwork(a)
        \/ Hadoop!RunScript(a) \/ Hadoop!EndUpload(a)
        \/ Hadoop!SetRunning(a) \/ Hadoop!BeginDownload(a) \/ Hadoop!EndDownload(a)
        \/ Hadoop!BeginUpload(a)
        \/ Hadoop!Deploy(a) \/ Hadoop!StopCluster(a) \/ Hadoop!ForgetNext(a) \/ Hadoop!Sleep(a)
        \/ Hadoop!QueueStops(a) \/ Hadoop!Finish(a) \/ Hadoop!AskRemoval(a)
        \/ Hadoop!RemoveNext(a) \/ Hadoop!QueueRemovalStops(a)
        \/ Hadoop!LeaveUser(a) \/ Hadoop!DeleteApp(a)
    BY <1>2 DEF Hadoop!StartStep, Hadoop!RemovalStep
  <2> QED
    BY <1>1, <2>1, HadoopBegins, HadoopChanges, HadoopDeploy, HadoopStopCluster, HadoopForgetNext,
       HadoopSleep, HadoopQueueStops, HadoopFinish, HadoopAskRemoval, HadoopRemoveNext,
       HadoopQueueRemovalStops, HadoopLeaves
<1>3. ASSUME NEW c \in Container,
             Hadoop!AskEviction(c) \/ Hadoop!Evict(c) \/ \E x \in Hadoop!Origin : Hadoop!StopStep(x, c)
      PROVE  HadoopInv'
  BY <1>1, <1>3, HadoopEvicts, HadoopStopStep
<1> QED
  BY <1>2, <1>3 DEF Hadoop!Next

-----------------------------------------------------------------------------
(* DiskAtop *)

\* A pid has had at most one instance at a time, and an instance one pid: that of its
\* scope, that of the last list, and that of the last sample agree.
Seats ==
  /\ \A p \in Pid : {scope[p], names[p], whose[p]} \subseteq begun \cup {Nobody}
  /\ \A p, q \in Pid : p # q =>
       /\ scope[p] # Nobody => scope[p] \notin {scope[q], names[q], whose[q]}
       /\ names[p] # Nobody => names[p] \notin {names[q], whose[q]}
       /\ whose[p] # Nobody => whose[p] # whose[q]
  /\ \A p \in Pid : names[p] # Nobody /\ scope[p] # Nobody => scope[p] = names[p]
  /\ sampler = "asleep" => \A p \in Pid : names[p] = Nobody /\ current[p] = Atop!NotRead
  /\ unsampled \subseteq {p \in Pid : names[p] # Nobody}

Ended(i) == i \in begun /\ \A p \in Pid : scope[p] # i

\* An instance has not been sampled.
Unseen(i) == firstSeen[i] = Atop!NotRead

\* The sample before: of an instance that has been reported up to it.
Before(p) ==
  LET i == whose[p] IN
  /\ previous[p] = Atop!NotRead <=> i = Nobody
  /\ i # Nobody =>
       /\ ~Unseen(i)
       /\ previous[p].bytes <= io[i] /\ reported[i].bytes <= previous[p].bytes
       /\ previous[p].ios <= io[i]
       /\ IF previous[p].ios = 0 THEN Ended(i) /\ i \in broken /\ \A q \in Pid : names[q] # i
          ELSE reported[i].ios <= previous[p].ios
       /\ scope[p] \notin {i, Nobody} => Unseen(scope[p])
       /\ names[p] \notin {i, Nobody} => Unseen(names[p])
       /\ i \notin broken => /\ firstSeen[i].ios <= previous[p].ios
                             /\ reported[i].bytes = previous[p].bytes - firstSeen[i].bytes
                             /\ reported[i].ios = previous[p].ios - firstSeen[i].ios

\* The sample that is being taken: it has no less than the one before.
Now(p) ==
  LET i == names[p] IN
  current[p] # Atop!NotRead =>
    /\ i # Nobody
    /\ current[p].bytes <= io[i] /\ reported[i].bytes <= current[p].bytes
    /\ whose[p] = i => previous[p].bytes <= current[p].bytes
    /\ current[p].ios <= io[i]
    /\ IF current[p].ios = 0 THEN Ended(i)
       ELSE reported[i].ios <= current[p].ios /\ (whose[p] = i => previous[p].ios <= current[p].ios)

\* The bytes of an instance whose operations are to be read.
Half ==
  halfRead # <<>> =>
    LET p == halfRead[1]
        i == names[p]
    IN  /\ sampler = "reading" /\ version = "v1" /\ p \in unsampled
        /\ halfRead[2] <= io[i] /\ reported[i].bytes <= halfRead[2]
        /\ whose[p] = i => previous[p].bytes <= halfRead[2]

Ledger(i) ==
  /\ reported[i].bytes <= io[i] /\ reported[i].ios <= io[i]
  /\ i \notin begun => Unseen(i)
  /\ Unseen(i) => reported[i] = Atop!Zero
  /\ ~Unseen(i) /\ i \notin broken => \E p \in Pid : whose[p] = i

AtopInv ==
  /\ Atop!TypeOK
  /\ Seats
  /\ Half
  /\ \A p \in Pid : Before(p) /\ Now(p)
  /\ \A i \in Instance : Ledger(i)

\* The numbers of a sample that there is.
LEMMA AtopNumbers ==
  /\ \A s \in Atop!Counters : s # Atop!NotRead /\ s.bytes \in 0..MaxIo /\ s.ios \in 0..MaxIo
  /\ \A s \in Atop!Counters \cup {Atop!NotRead} : s # Atop!NotRead => s \in Atop!Counters
  /\ Atop!NotRead.ios # 0
  /\ Atop!Zero \in Atop!Counters /\ Atop!Zero.bytes = 0 /\ Atop!Zero.ios = 0
BY AtopAssumption DEF Atop!Counters, Atop!NotRead, Atop!Zero

LEMMA AtopInit == Atop!Init => AtopInv
<1> SUFFICES ASSUME Atop!Init PROVE AtopInv
  OBVIOUS
<1> USE AtopAssumption
<1>1. Atop!TypeOK
  BY AtopNumbers DEF Atop!Init, Atop!TypeOK
<1>2. Seats /\ Half
  BY DEF Atop!Init, Seats, Half
<1>3. ASSUME NEW p \in Pid PROVE Before(p) /\ Now(p)
  BY DEF Atop!Init, Before, Now
<1>4. ASSUME NEW i \in Instance PROVE Ledger(i)
  BY AtopNumbers DEF Atop!Init, Ledger, Unseen
<1> QED
  BY <1>1, <1>2, <1>3, <1>4 DEF AtopInv

LEMMA AtopStay == AtopInv /\ UNCHANGED atop => AtopInv'
<1> SUFFICES ASSUME AtopInv, UNCHANGED atop PROVE AtopInv'
  OBVIOUS
<1>1. /\ version' = version /\ scope' = scope /\ begun' = begun /\ io' = io /\ sampler' = sampler
      /\ names' = names /\ unsampled' = unsampled /\ halfRead' = halfRead /\ current' = current
      /\ previous' = previous /\ whose' = whose /\ reported' = reported
      /\ firstSeen' = firstSeen /\ broken' = broken /\ listErrors' = listErrors
  BY DEF atop
<1>2. Atop!TypeOK'
  BY <1>1 DEF AtopInv, Atop!TypeOK, Atop!Counters, Atop!NotRead
<1>3. Seats' /\ Half'
  BY <1>1 DEF AtopInv, Seats, Half, Atop!NotRead
<1>4. \A p \in Pid : Before(p)' /\ Now(p)'
  BY <1>1 DEF AtopInv, Before, Now, Unseen, Ended, Atop!NotRead
<1>5. \A i \in Instance : Ledger(i)'
  BY <1>1 DEF AtopInv, Ledger, Unseen, Atop!NotRead, Atop!Zero
<1> QED
  BY <1>2, <1>3, <1>4, <1>5 DEF AtopInv

LEMMA AtopEnds == AtopInv => Atop!TrafficCounted
<1> SUFFICES ASSUME AtopInv PROVE Atop!TrafficCounted
  OBVIOUS
<1> USE AtopAssumption
<1>1. \A i \in Instance : reported[i].bytes <= io[i] /\ reported[i].ios <= io[i]
  BY DEF AtopInv, Ledger
<1>2. ASSUME NEW p \in Pid, NEW i, i = whose[p], i # Nobody, i \notin broken
      PROVE  /\ reported[i].bytes = previous[p].bytes - firstSeen[i].bytes
             /\ reported[i].ios = Atop!Positive(previous[p].ios, firstSeen[i].ios)
  <2>1. Before(p) /\ i \in Instance /\ Atop!TypeOK
    BY <1>2 DEF AtopInv, Atop!TypeOK
  <2>2. previous[p] \in Atop!Counters /\ firstSeen[i] \in Atop!Counters
    BY <1>2, <2>1, AtopNumbers DEF Before, Unseen, Atop!TypeOK
  <2>3. previous[p].ios \in Nat /\ firstSeen[i].ios \in Nat
    BY <2>2, AtopNumbers
  <2>4. /\ firstSeen[i].ios <= previous[p].ios
        /\ reported[i].bytes = previous[p].bytes - firstSeen[i].bytes
        /\ reported[i].ios = previous[p].ios - firstSeen[i].ios
    BY <1>2, <2>1 DEF Before
  <2> QED
    BY <2>3, <2>4 DEF Atop!Positive
<1> QED
  BY <1>1, <1>2 DEF Atop!TrafficCounted

\* The instances go on: one stops or does an operation.
LEMMA AtopGoesOn ==
  ASSUME AtopInv, NEW p \in Pid, Atop!Stop(p) \/ Atop!Operate(p)
  PROVE  AtopInv'
<1> USE AtopAssumption
<1>1. /\ version' = version /\ begun' = begun /\ sampler' = sampler
      /\ names' = names /\ unsampled' = unsampled /\ halfRead' = halfRead /\ current' = current
      /\ previous' = previous /\ whose' = whose /\ reported' = reported
      /\ firstSeen' = firstSeen /\ broken' = broken /\ listErrors' = listErrors
  BY DEF Atop!Stop, Atop!Operate
<1>2. /\ scope' \in [Pid -> Instance \cup {Nobody}]
      /\ \A q \in Pid : scope'[q] \in {scope[q], Nobody}
  BY DEF Atop!Stop, Atop!Operate, AtopInv, Atop!TypeOK
<1>3. /\ io' \in [Instance -> 0..MaxIo]
      /\ \A i \in Instance : io[i] <= io'[i]
  <2>1. io \in [Instance -> 0..MaxIo] /\ scope[p] \in Instance \cup {Nobody}
    BY DEF AtopInv, Atop!TypeOK
  <2>2. CASE Atop!Stop(p)
    BY <2>1, <2>2 DEF Atop!Stop
  <2>3. CASE Atop!Operate(p)
    <3>1. PICK i \in Instance : i = scope[p]
      BY <2>1, <2>3 DEF Atop!Operate
    <3>2. io' = [io EXCEPT ![i] = io[i] + 1] /\ io[i] < MaxIo
      BY <2>3, <3>1 DEF Atop!Operate
    <3>3. io[i] \in 0..MaxIo /\ io[i] + 1 \in 0..MaxIo
      BY <2>1, <3>2
    <3> QED
      BY <2>1, <3>2, <3>3
  <2> QED
    BY <2>2, <2>3
<1>4. Atop!TypeOK'
  BY <1>1, <1>2, <1>3 DEF AtopInv, Atop!TypeOK, Atop!Counters, Atop!NotRead
<1>5. Seats'
  BY <1>1, <1>2 DEF AtopInv, Seats, Atop!NotRead
<1>6. \A i \in Instance : Ended(i) => Ended(i)'
  BY <1>1, <1>2 DEF Ended
<1>7. io \in [Instance -> 0..MaxIo] /\ reported \in [Instance -> Atop!Counters]
  BY DEF AtopInv, Atop!TypeOK
<1>8. \A q \in Pid : names[q] \in Instance \cup {Nobody} /\ whose[q] \in Instance \cup {Nobody}
  BY DEF AtopInv, Atop!TypeOK
<1>9. Half'
  <2> SUFFICES ASSUME halfRead # <<>> PROVE Half'
    BY <1>1 DEF Half
  <2>1. PICK q \in Pid, x \in 0..MaxIo : halfRead = <<q, x>>
    BY DEF AtopInv, Atop!TypeOK
  <2>2. q \in unsampled /\ names[q] \in Instance
    BY <1>8, <2>1 DEF AtopInv, Half, Seats
  <2>3. x <= io'[names[q]]
    <3>1. x <= io[names[q]]
      BY <2>1 DEF AtopInv, Half
    <3> QED
      BY <1>3, <1>7, <2>2, <3>1
  <2> QED
    BY <1>1, <2>1, <2>3 DEF AtopInv, Half
<1>10. ASSUME NEW q \in Pid PROVE Before(q)'
  <2>1. CASE whose[q] = Nobody
    BY <1>1, <2>1 DEF AtopInv, Before, Atop!NotRead
  <2>2. CASE whose[q] # Nobody
    <3>1. PICK i \in Instance : i = whose[q]
      BY <1>8, <2>2
    <3>2. Before(q) /\ previous[q] \in Atop!Counters
      BY <2>2, AtopNumbers DEF AtopInv, Before, Atop!TypeOK
    <3>3. previous[q].bytes <= io'[i] /\ previous[q].ios <= io'[i]
      <4>1. previous[q].bytes \in Nat /\ previous[q].ios \in Nat
        BY <3>2, AtopNumbers
      <4>2. previous[q].bytes <= io[i] /\ previous[q].ios <= io[i]
        BY <2>2, <3>1, <3>2 DEF Before
      <4> QED
        BY <1>3, <1>7, <4>1, <4>2
    <3>4. Ended(i) => Ended(i)'
      BY <1>6
    <3>5. scope'[q] = scope[q] \/ scope'[q] = Nobody
      BY <1>2
    <3> HIDE DEF Ended
    <3> QED
      BY <1>1, <2>2, <3>1, <3>2, <3>3, <3>4, <3>5 DEF Before, Unseen, Atop!NotRead
  <2> QED
    BY <2>1, <2>2
<1>11. ASSUME NEW q \in Pid PROVE Now(q)'
  <2> SUFFICES ASSUME current[q] # Atop!NotRead PROVE Now(q)'
    BY <1>1 DEF Now, Atop!NotRead
  <2>1. PICK i \in Instance : i = names[q]
    BY <1>8 DEF AtopInv, Now
  <2>2. Now(q) /\ current[q] \in Atop!Counters
    BY AtopNumbers DEF AtopInv, Atop!TypeOK
  <2>3. current[q].bytes <= io'[i] /\ current[q].ios <= io'[i]
    <3>1. current[q].bytes \in Nat /\ current[q].ios \in Nat
      BY <2>2, AtopNumbers
    <3>2. current[q].bytes <= io[i] /\ current[q].ios <= io[i]
      BY <2>1, <2>2 DEF Now
    <3> QED
      BY <1>3, <1>7, <3>1, <3>2
  <2>4. Ended(i) => Ended(i)'
    BY <1>6
  <2> HIDE DEF Ended
  <2> QED
    BY <1>1, <2>1, <2>2, <2>3, <2>4 DEF Now, Atop!NotRead
<1>12. ASSUME NEW i \in Instance PROVE Ledger(i)'
  <2>1. Ledger(i) /\ reported[i].bytes \in Nat /\ reported[i].ios \in Nat
    BY <1>7, AtopNumbers DEF AtopInv
  <2>2. reported[i].bytes <= io'[i] /\ reported[i].ios <= io'[i]
    BY <1>3, <1>7, <2>1 DEF Ledger
  <2> QED
    BY <1>1, <2>1, <2>2 DEF Ledger, Unseen, Atop!NotRead, Atop!Zero
<1> QED
  BY <1>4, <1>5, <1>9, <1>10, <1>11, <1>12 DEF AtopInv

LEMMA AtopBegins ==
  ASSUME AtopInv, NEW p \in Pid, NEW i \in Instance, Atop!Begin(i, p)
  PROVE  AtopInv'
<1> USE AtopAssumption
<1>1. /\ version' = version /\ io' = io /\ sampler' = sampler /\ sampler = "asleep"
      /\ names' = names /\ unsampled' = unsampled /\ halfRead' = halfRead /\ current' = current
      /\ previous' = previous /\ whose' = whose /\ reported' = reported
      /\ firstSeen' = firstSeen /\ broken' = broken /\ listErrors' = listErrors
  BY DEF Atop!Begin
<1>2. /\ i \notin begun /\ begun' = begun \cup {i}
      /\ scope' \in [Pid -> Instance \cup {Nobody}]
      /\ scope'[p] = i /\ \A q \in Pid : q # p => scope'[q] = scope[q]
  BY DEF Atop!Begin, AtopInv, Atop!TypeOK
<1>3. \A q \in Pid : scope[q] # i /\ names[q] # i /\ whose[q] # i
  BY <1>2 DEF AtopInv, Seats
<1>4. \A q \in Pid : names[q] = Nobody /\ current[q] = Atop!NotRead
  BY <1>1 DEF AtopInv, Seats
<1>5. Unseen(i)
  BY <1>2 DEF AtopInv, Ledger
<1>6. Atop!TypeOK'
  BY <1>1, <1>2 DEF AtopInv, Atop!TypeOK, Atop!Counters, Atop!NotRead
<1>7. Seats'
  <2>1. \A q \in Pid : {scope'[q], names'[q], whose'[q]} \subseteq begun' \cup {Nobody}
    BY <1>1, <1>2 DEF AtopInv, Seats
  <2>2. \A q, r \in Pid : q # r =>
          /\ scope'[q] # Nobody => scope'[q] \notin {scope'[r], names'[r], whose'[r]}
          /\ names'[q] # Nobody => names'[q] \notin {names'[r], whose'[r]}
          /\ whose'[q] # Nobody => whose'[q] # whose'[r]
    BY <1>1, <1>2, <1>3, <1>4 DEF AtopInv, Seats
  <2>3. \A q \in Pid : names'[q] # Nobody /\ scope'[q] # Nobody => scope'[q] = names'[q]
    BY <1>1, <1>4
  <2> QED
    BY <1>1, <2>1, <2>2, <2>3 DEF AtopInv, Seats, Atop!NotRead
<1>8. Half'
  BY <1>1 DEF AtopInv, Half
<1>9. ASSUME NEW q \in Pid PROVE Before(q)' /\ Now(q)'
  <2>1. Now(q)'
    BY <1>1, <1>4 DEF Now, Atop!NotRead
  <2>2. ASSUME NEW j, Ended(j), j # i PROVE Ended(j)'
    BY <1>2, <2>2 DEF Ended
  <2>3. scope'[q] \in {i, scope[q]} /\ Unseen(i)'
    BY <1>1, <1>2, <1>5 DEF Unseen, Atop!NotRead
  <2>4. Before(q)'
    <3>1. Ended(whose[q]) => Ended(whose[q])'
      BY <1>1, <1>2, <1>3 DEF Ended
    <3>2. Before(q) /\ whose'[q] = whose[q] /\ previous'[q] = previous[q]
      BY <1>1 DEF AtopInv
    <3> HIDE DEF Ended
    <3> QED
      BY <1>1, <1>3, <2>3, <3>1, <3>2 DEF Before, Unseen, Atop!NotRead
  <2> QED
    BY <2>1, <2>4
<1>10. ASSUME NEW j \in Instance PROVE Ledger(j)'
  BY <1>1, <1>2 DEF AtopInv, Ledger, Unseen, Atop!NotRead, Atop!Zero
<1> QED
  BY <1>6, <1>7, <1>8, <1>9, <1>10 DEF AtopInv

\* The list of the instances and their pids.
LEMMA AtopLists ==
  ASSUME AtopInv, Atop!ListInstances
  PROVE  AtopInv'
<1> USE AtopAssumption
<1>1. /\ version' = version /\ scope' = scope /\ begun' = begun /\ io' = io
      /\ sampler = "asleep" /\ sampler' = "discovering"
      /\ unsampled' = unsampled /\ halfRead' = halfRead
      /\ previous' = previous /\ whose' = whose /\ reported' = reported
      /\ firstSeen' = firstSeen /\ broken' = broken
  BY DEF Atop!ListInstances
<1>2. /\ names' \in [Pid -> Instance \cup {Nobody}]
      /\ \A q \in Pid : names'[q] \in {scope[q], Nobody}
      /\ listErrors' \in 0..MaxListErrors
  BY DEF Atop!ListInstances, AtopInv, Atop!TypeOK
<1>3. /\ current' = [p \in Pid |-> Atop!NotRead]
      /\ \A q \in Pid : current'[q] = Atop!NotRead
  BY DEF Atop!ListInstances
<1>4. unsampled = {} /\ halfRead = <<>>
  BY <1>1 DEF AtopInv, Seats, Half
<1>5. Atop!TypeOK'
  BY <1>1, <1>2, <1>3 DEF AtopInv, Atop!TypeOK, Atop!Counters, Atop!NotRead
<1>6. Seats'
  BY <1>1, <1>2, <1>4 DEF AtopInv, Seats
<1>7. Half'
  BY <1>1, <1>4 DEF Half
<1>8. ASSUME NEW q \in Pid PROVE Before(q)' /\ Now(q)'
  <2>1. Now(q)'
    BY <1>3 DEF Now, Atop!NotRead
  <2>2. Ended(whose[q]) => Ended(whose[q])' /\ \A r \in Pid : names'[r] # whose[q]
    <3>1. Ended(whose[q]) => whose[q] # Nobody
      BY DEF Ended, AtopInv, Atop!TypeOK
    <3> QED
      BY <1>1, <1>2, <3>1 DEF Ended
  <2>3. Before(q) /\ names'[q] \in {scope[q], Nobody}
    BY <1>2 DEF AtopInv
  <2> HIDE DEF Ended
  <2>4. Before(q)'
    BY <1>1, <2>2, <2>3 DEF Before, Unseen, Atop!NotRead
  <2> QED
    BY <2>1, <2>4
<1>9. ASSUME NEW j \in Instance PROVE Ledger(j)'
  BY <1>1 DEF AtopInv, Ledger, Unseen, Atop!NotRead, Atop!Zero
<1> QED
  BY <1>5, <1>6, <1>7, <1>8, <1>9 DEF AtopInv

\* A scope is found, or opened: the samples stay as they are.
LEMMA AtopOpens ==
  ASSUME AtopInv, UNCHANGED <<version, scope, begun, io, names, current, previous, whose, reported,
                              firstSeen, broken, listErrors>>,
         sampler # "asleep", sampler' = "reading", halfRead' # <<>> => version = "v1",
         unsampled' \in SUBSET {p \in Pid : names[p] # Nobody},
         \/ halfRead' = <<>>
         \/ \E p \in unsampled' : names[p] = scope[p] /\ halfRead' = <<p, io[scope[p]]>>
  PROVE  AtopInv'
<1> USE AtopAssumption
<1>1. ASSUME NEW p \in unsampled', names[p] = scope[p], halfRead' = <<p, io[scope[p]]>>
      PROVE  Half' /\ halfRead' \in Pid \X (0..MaxIo)
  <2>1. PICK i \in Instance : i = names[p]
    BY <1>1 DEF AtopInv, Atop!TypeOK
  <2>2. io[i] \in 0..MaxIo /\ reported[i].bytes <= io[i]
    BY <2>1 DEF AtopInv, Atop!TypeOK, Ledger
  <2>3. whose[p] = i => previous[p].bytes <= io[i]
    BY <2>1 DEF AtopInv, Before
  <2> QED
    BY <1>1, <2>1, <2>2, <2>3 DEF Half
<1>2. Half' /\ halfRead' \in {<<>>} \cup (Pid \X (0..MaxIo))
  BY <1>1 DEF Half
<1>3. Atop!TypeOK'
  BY <1>2 DEF AtopInv, Atop!TypeOK, Atop!Counters, Atop!NotRead
<1>4. Seats'
  BY DEF AtopInv, Seats
<1>5. \A p \in Pid : Before(p)' /\ Now(p)'
  BY DEF AtopInv, Before, Now, Unseen, Ended, Atop!NotRead
<1>6. \A i \in Instance : Ledger(i)'
  BY DEF AtopInv, Ledger, Unseen, Atop!NotRead, Atop!Zero
<1> QED
  BY <1>2, <1>3, <1>4, <1>5, <1>6 DEF AtopInv

LEMMA AtopDiscovers ==
  ASSUME AtopInv, Atop!Discover \/ \E p \in Pid : Atop!ReadBytes(p)
  PROVE  AtopInv'
<1> USE AtopAssumption
<1>1. CASE Atop!Discover
  <2>1. halfRead' = <<>>
    BY <1>1 DEF Atop!Discover, AtopInv, Half
  <2>2. /\ UNCHANGED <<version, scope, begun, io, names, current, previous, whose, reported,
                       firstSeen, broken, listErrors>>
        /\ sampler # "asleep" /\ sampler' = "reading"
        /\ unsampled' \in SUBSET {p \in Pid : names[p] # Nobody}
    BY <1>1 DEF Atop!Discover
  <2> QED
    BY <2>1, <2>2, AtopOpens
<1>2. ASSUME NEW p \in Pid, Atop!ReadBytes(p)
      PROVE  AtopInv'
  <2>1. /\ UNCHANGED <<version, scope, begun, io, names, current, previous, whose, reported,
                       firstSeen, broken, listErrors>>
        /\ sampler # "asleep" /\ sampler' = "reading" /\ version = "v1" /\ p \in unsampled
        /\ \/ unsampled' = unsampled \ {p} /\ halfRead' = <<>>
           \/ scope[p] # Nobody /\ halfRead' = <<p, io[scope[p]]>> /\ unsampled' = unsampled
    BY <1>2 DEF Atop!ReadBytes
  <2>2. unsampled' \in SUBSET {q \in Pid : names[q] # Nobody}
    BY <2>1 DEF AtopInv, Seats
  <2>3. scope[p] # Nobody => names[p] = scope[p]
    BY <2>1 DEF AtopInv, Seats
  <2> QED
    BY <2>1, <2>2, <2>3, AtopOpens
<1> QED
  BY <1>1, <1>2

\* The counters of a scope are read.
LEMMA AtopReads ==
  ASSUME AtopInv, NEW p \in unsampled, NEW s \in Atop!Counters \cup {Atop!NotRead},
         UNCHANGED <<version, scope, begun, io, names, previous, whose, reported, firstSeen, broken,
                     listErrors>>,
         sampler = "reading", sampler' \in {"reading", "dead"},
         unsampled' = unsampled \ {p}, halfRead' = <<>>,
         current' = [current EXCEPT ![p] = s],
         current'[p] = current[p] \/
           LET i == names[p] IN
             /\ s.bytes <= io[i] /\ reported[i].bytes <= s.bytes
             /\ whose[p] = i => previous[p].bytes <= s.bytes
             /\ IF s.ios = 0 THEN Ended(i) ELSE s.ios = io[i]
  PROVE  AtopInv'
<1> USE AtopAssumption
<1>1. /\ current' \in [Pid -> Atop!Counters \cup {Atop!NotRead}]
      /\ p \in Pid /\ \A q \in Pid : q # p => current'[q] = current[q]
  BY DEF AtopInv, Atop!TypeOK
<1>2. Atop!TypeOK'
  BY <1>1 DEF AtopInv, Atop!TypeOK, Atop!Counters, Atop!NotRead
<1>3. Seats' /\ Half'
  BY DEF AtopInv, Seats, Half
<1>4. \A q \in Pid : Before(q)'
  BY DEF AtopInv, Before, Unseen, Ended, Atop!NotRead
<1>5. \A i \in Instance : Ledger(i)'
  BY DEF AtopInv, Ledger, Unseen, Atop!NotRead, Atop!Zero
<1>6. ASSUME NEW q \in Pid PROVE Now(q)'
  <2>1. \A i : Ended(i) => Ended(i)'
    BY DEF Ended
  <2>2. Now(q)
    BY DEF AtopInv
  <2>3. CASE current'[q] = current[q]
    BY <2>1, <2>2, <2>3 DEF Now, Atop!NotRead, Ended
  <2>4. CASE current'[q] # current[q]
    <3>1. q = p /\ current'[p] = s /\ current'[p] # current[p]
      BY <1>1, <2>4 DEF AtopInv, Atop!TypeOK
    <3>2. PICK i \in Instance : i = names[p]
      BY <1>1 DEF AtopInv, Seats, Atop!TypeOK
    <3>3. /\ s.bytes <= io[i] /\ reported[i].bytes <= s.bytes
          /\ whose[p] = i => previous[p].bytes <= s.bytes
          /\ IF s.ios = 0 THEN Ended(i) ELSE s.ios = io[i]
      BY <3>1, <3>2
    <3>4. io[i] \in Nat /\ reported[i].ios <= io[i]
      BY DEF AtopInv, Atop!TypeOK, Ledger
    <3>5. whose[p] = i => previous[p].ios <= io[i]
      BY <1>1, <3>2 DEF AtopInv, Before, Seats
    <3>6. s.ios <= io[i]
      BY <3>3, <3>4
    <3> HIDE DEF Ended
    <3> QED
      BY <2>1, <3>1, <3>2, <3>3, <3>4, <3>5, <3>6 DEF Now
  <2> QED
    BY <2>3, <2>4
<1> QED
  BY <1>2, <1>3, <1>4, <1>5, <1>6 DEF AtopInv

LEMMA AtopReadsOne ==
  ASSUME AtopInv, Atop!ReadOperations \/ \E p \in Pid : Atop!ReadStat(p)
  PROVE  AtopInv'
<1> USE AtopAssumption
<1>1. ASSUME NEW p \in Pid, Atop!ReadStat(p)
      PROVE  AtopInv'
  <2>1. /\ UNCHANGED <<version, scope, begun, io, names, previous, whose, reported, firstSeen, broken,
                       listErrors>>
        /\ sampler = "reading" /\ sampler' = sampler /\ p \in unsampled
        /\ unsampled' = unsampled \ {p} /\ halfRead' = halfRead /\ version = "v2"
    BY <1>1 DEF Atop!ReadStat
  <2>2. PICK s \in Atop!Counters \cup {Atop!NotRead} :
          /\ current' = [current EXCEPT ![p] = s]
          /\ \/ s = current[p]
             \/ Atop!Lines(p) /\ s = [bytes |-> io[scope[p]], ios |-> io[scope[p]]]
    <3>1. CASE Atop!Lines(p)
      <4>1. io[scope[p]] \in 0..MaxIo
        BY <3>1 DEF Atop!Lines, AtopInv, Atop!TypeOK
      <4>2. [bytes |-> io[scope[p]], ios |-> io[scope[p]]] \in Atop!Counters
        BY <4>1 DEF Atop!Counters
      <4> QED
        BY <1>1, <3>1, <4>2 DEF Atop!ReadStat
    <3>2. CASE ~Atop!Lines(p)
      <4>1. current' = current
        BY <1>1, <3>2 DEF Atop!ReadStat
      <4>2. current = [current EXCEPT ![p] = current[p]]
            /\ current[p] \in Atop!Counters \cup {Atop!NotRead}
        BY DEF AtopInv, Atop!TypeOK
      <4> QED
        BY <4>1, <4>2
    <3> QED
      BY <3>1, <3>2
  <2>3. CASE s = current[p]
    <3>1. current'[p] = current[p]
      BY <2>2, <2>3 DEF AtopInv, Atop!TypeOK
    <3>2. halfRead' = <<>>
      BY <2>1 DEF AtopInv, Half
    <3> QED
      BY <2>1, <2>2, <3>1, <3>2, AtopReads
  <2>4. CASE Atop!Lines(p) /\ s = [bytes |-> io[scope[p]], ios |-> io[scope[p]]]
    <3>1. PICK i \in Instance : i = names[p] /\ i = scope[p]
      BY <2>1, <2>4 DEF AtopInv, Seats, Atop!Lines, Atop!TypeOK
    <3>2. s.bytes = io[i] /\ s.ios = io[i] /\ s.ios # 0
      BY <2>4, <3>1 DEF Atop!Lines, AtopInv, Atop!TypeOK
    <3>3. reported[i].bytes <= io[i] /\ io[i] \in Nat
      BY DEF AtopInv, Atop!TypeOK, Ledger
    <3>4. whose[p] = i => previous[p].bytes <= io[i]
      BY <3>1 DEF AtopInv, Before
    <3>5. halfRead' = <<>>
      BY <2>1 DEF AtopInv, Half
    <3>6. LET j == names[p] IN
            /\ s.bytes <= io[j] /\ reported[j].bytes <= s.bytes
            /\ whose[p] = j => previous[p].bytes <= s.bytes
            /\ IF s.ios = 0 THEN Ended(j) ELSE s.ios = io[j]
      BY <3>1, <3>2, <3>3, <3>4
    <3> QED
      BY <2>1, <2>2, <3>5, <3>6, AtopReads
  <2> QED
    BY <2>2, <2>3, <2>4
<1>2. ASSUME Atop!ReadOperations
      PROVE  AtopInv'
  <2>1. PICK p \in Pid, x \in 0..MaxIo : halfRead = <<p, x>>
    BY <1>2 DEF Atop!ReadOperations, AtopInv, Atop!TypeOK
  <2>2. /\ UNCHANGED <<version, scope, begun, io, names, previous, whose, reported, firstSeen, broken,
                       listErrors>>
        /\ sampler' \in {"reading", "dead"}
        /\ unsampled' = unsampled \ {p} /\ halfRead' = <<>>
        /\ current' = [current EXCEPT ![p] = IF x = 0 THEN current[p] ELSE
              [bytes |-> x, ios |-> IF scope[p] = Nobody THEN 0 ELSE io[scope[p]]]]
    BY <1>2, <2>1 DEF Atop!ReadOperations
  <2>3. /\ sampler = "reading" /\ p \in unsampled
        /\ x <= io[names[p]] /\ reported[names[p]].bytes <= x
        /\ whose[p] = names[p] => previous[p].bytes <= x
    BY <2>1 DEF AtopInv, Half
  <2>4. PICK i \in Instance : i = names[p]
    BY <2>3 DEF AtopInv, Seats, Atop!TypeOK
  <2>5. current \in [Pid -> Atop!Counters \cup {Atop!NotRead}]
    BY DEF AtopInv, Atop!TypeOK
  <2>6. CASE x = 0
    <3>1. current' = [current EXCEPT ![p] = current[p]]
      BY <2>2, <2>6
    <3>2. current'[p] = current[p]
      BY <2>5, <3>1
    <3>3. PICK s \in Atop!Counters \cup {Atop!NotRead} : s = current[p]
      BY <2>5
    <3> QED
      BY <2>2, <2>3, <3>1, <3>2, <3>3, AtopReads
  <2>7. CASE x # 0
    <3>1. PICK y : y = IF scope[p] = Nobody THEN 0 ELSE io[scope[p]]
      OBVIOUS
    <3>2. PICK s : s = [bytes |-> x, ios |-> y]
      OBVIOUS
    <3>3. current' = [current EXCEPT ![p] = s]
      BY <2>2, <2>7, <3>1, <3>2
    <3>4. io[i] \in 0..MaxIo /\ x <= io[i]
      BY <2>3, <2>4 DEF AtopInv, Atop!TypeOK
    <3>5. CASE scope[p] = Nobody
      <4>1. y = 0
        BY <3>1, <3>5
      <4>2. Ended(i)
        BY <2>4, <3>5 DEF AtopInv, Seats, Ended, Atop!TypeOK
      <4>3. s \in Atop!Counters /\ s.bytes = x /\ s.ios = 0
        BY <3>2, <4>1 DEF Atop!Counters
      <4>4. LET j == names[p] IN
              /\ s.bytes <= io[j] /\ reported[j].bytes <= s.bytes
              /\ whose[p] = j => previous[p].bytes <= s.bytes
              /\ IF s.ios = 0 THEN Ended(j) ELSE s.ios = io[j]
        BY <2>3, <2>4, <4>2, <4>3
      <4> QED
        BY <2>2, <2>3, <3>3, <4>3, <4>4, AtopReads
    <3>6. CASE scope[p] # Nobody
      <4>1. scope[p] = i
        BY <2>4, <3>6 DEF AtopInv, Seats
      <4>2. y = io[i] /\ y # 0
        BY <2>7, <3>1, <3>4, <3>6, <4>1
      <4>3. s \in Atop!Counters /\ s.bytes = x /\ s.ios = io[i] /\ s.ios # 0
        BY <3>2, <3>4, <4>2 DEF Atop!Counters
      <4>4. LET j == names[p] IN
              /\ s.bytes <= io[j] /\ reported[j].bytes <= s.bytes
              /\ whose[p] = j => previous[p].bytes <= s.bytes
              /\ IF s.ios = 0 THEN Ended(j) ELSE s.ios = io[j]
        BY <2>3, <2>4, <4>3
      <4> QED
        BY <2>2, <2>3, <3>3, <4>3, <4>4, AtopReads
    <3> QED
      BY <3>5, <3>6
  <2> QED
    BY <2>6, <2>7
<1> QED
  BY <1>1, <1>2

\* What compute_deltas does with an instance of the sample, and with another.
LEMMA AtopGains ==
  ASSUME AtopInv, Atop!Compute, NEW p \in Pid, NEW i \in Instance, i = names[p],
         current[p] # Atop!NotRead
  PROVE  /\ reported'[i].bytes = reported[i].bytes +
              (IF previous[p] = Atop!NotRead THEN 0
               ELSE Atop!Positive(current[p].bytes, previous[p].bytes))
         /\ reported'[i].ios = reported[i].ios +
              (IF previous[p] = Atop!NotRead THEN 0
               ELSE Atop!Positive(current[p].ios, previous[p].ios))
         /\ firstSeen'[i] = IF Unseen(i) THEN current[p] ELSE firstSeen[i]
         /\ broken \subseteq broken'
         /\ previous[p] # Atop!NotRead /\ whose[p] # i => i \in broken'
         /\ current[p].ios = 0 => i \in broken'
<1> DEFINE Both == {q \in Pid : current[q] # Atop!NotRead /\ previous[q] # Atop!NotRead}
           Gain(j, f) == IF \E q \in Both : names[q] = j
                         THEN Atop!Delta(CHOOSE q \in Both : names[q] = j)[f] ELSE 0
           Met == {names[q] : q \in {r \in Pid : current[r] # Atop!NotRead}}
<1>1. i # Nobody /\ \A q \in Pid : names[q] = i => q = p
  BY AtopAssumption DEF AtopInv, Seats
<1>2. /\ reported' = [j \in Instance |-> [bytes |-> reported[j].bytes + Gain(j, "bytes"),
                                          ios   |-> reported[j].ios + Gain(j, "ios")]]
      /\ firstSeen' = [j \in Instance |->
           IF firstSeen[j] = Atop!NotRead /\ j \in Met
           THEN current[CHOOSE q \in Pid : names[q] = j /\ current[q] # Atop!NotRead]
           ELSE firstSeen[j]]
      /\ broken' = broken \cup {j \in Instance : firstSeen[j] # Atop!NotRead /\ j \notin Met}
                          \cup {names[q] : q \in {r \in Both : whose[r] # names[r]}}
                          \cup {names[q] : q \in {r \in Pid : current[r].ios = 0}}
  BY DEF Atop!Compute
<1>3. i \in Met
  OBVIOUS
<1>4. firstSeen'[i] = IF Unseen(i) THEN current[p] ELSE firstSeen[i]
  <2>1. (CHOOSE q \in Pid : names[q] = i /\ current[q] # Atop!NotRead) = p
    BY <1>1
  <2> QED
    BY <1>2, <1>3, <2>1 DEF Unseen
<1>5. /\ broken \subseteq broken'
      /\ previous[p] # Atop!NotRead /\ whose[p] # i => i \in broken'
      /\ current[p].ios = 0 => i \in broken'
  BY <1>2
<1>6. reported'[i] = [bytes |-> reported[i].bytes + Gain(i, "bytes"),
                      ios   |-> reported[i].ios + Gain(i, "ios")]
  BY <1>2
<1>7. CASE previous[p] = Atop!NotRead
  <2>1. ~\E q \in Both : names[q] = i
    BY <1>1, <1>7
  <2>2. Gain(i, "bytes") = 0 /\ Gain(i, "ios") = 0
    BY <2>1
  <2> HIDE DEF Gain
  <2>3. reported'[i].bytes = reported[i].bytes + 0 /\ reported'[i].ios = reported[i].ios + 0
    BY <1>6, <2>2
  <2> QED
    BY <1>4, <1>5, <1>7, <2>3
<1>8. CASE previous[p] # Atop!NotRead
  <2>1. p \in Both /\ (CHOOSE q \in Both : names[q] = i) = p
    BY <1>1, <1>8
  <2>2. /\ Gain(i, "bytes") = Atop!Positive(current[p].bytes, previous[p].bytes)
        /\ Gain(i, "ios") = Atop!Positive(current[p].ios, previous[p].ios)
    <3>1. Gain(i, "bytes") = Atop!Delta(p)["bytes"] /\ Gain(i, "ios") = Atop!Delta(p)["ios"]
      BY <2>1
    <3> HIDE DEF Gain
    <3> QED
      BY <3>1 DEF Atop!Delta
  <2> HIDE DEF Gain
  <2> QED
    BY <1>4, <1>5, <1>6, <1>8, <2>2
<1> QED
  BY <1>7, <1>8

LEMMA AtopOmits ==
  ASSUME AtopInv, Atop!Compute, NEW i \in Instance,
         \A p \in Pid : names[p] # i \/ current[p] = Atop!NotRead
  PROVE  /\ reported'[i] = reported[i] /\ firstSeen'[i] = firstSeen[i]
         /\ broken \subseteq broken'
         /\ ~Unseen(i) => i \in broken'
<1> DEFINE Both == {q \in Pid : current[q] # Atop!NotRead /\ previous[q] # Atop!NotRead}
           Gain(j, f) == IF \E q \in Both : names[q] = j
                         THEN Atop!Delta(CHOOSE q \in Both : names[q] = j)[f] ELSE 0
           Met == {names[q] : q \in {r \in Pid : current[r] # Atop!NotRead}}
<1>1. i \notin Met /\ ~\E q \in Both : names[q] = i
  OBVIOUS
<1>2. Gain(i, "bytes") = 0 /\ Gain(i, "ios") = 0
  BY <1>1
<1>3. /\ reported' = [j \in Instance |-> [bytes |-> reported[j].bytes + Gain(j, "bytes"),
                                          ios   |-> reported[j].ios + Gain(j, "ios")]]
      /\ firstSeen' = [j \in Instance |->
           IF firstSeen[j] = Atop!NotRead /\ j \in Met
           THEN current[CHOOSE q \in Pid : names[q] = j /\ current[q] # Atop!NotRead]
           ELSE firstSeen[j]]
      /\ broken' = broken \cup {j \in Instance : firstSeen[j] # Atop!NotRead /\ j \notin Met}
                          \cup {names[q] : q \in {r \in Both : whose[r] # names[r]}}
                          \cup {names[q] : q \in {r \in Pid : current[r].ios = 0}}
  BY DEF Atop!Compute
<1>4. firstSeen'[i] = firstSeen[i] /\ broken \subseteq broken' /\ (~Unseen(i) => i \in broken')
  BY <1>1, <1>3 DEF Unseen
<1>5. reported'[i] = reported[i]
  <2> HIDE DEF Gain, Met, Both
  <2>1. reported'[i] = [bytes |-> reported[i].bytes + 0, ios |-> reported[i].ios + 0]
    BY <1>2, <1>3
  <2>2. reported[i] \in [bytes : Nat, ios : Nat]
    BY AtopAssumption DEF AtopInv, Atop!TypeOK, Atop!Counters
  <2> QED
    BY <2>1, <2>2
<1> QED
  BY <1>4, <1>5

\* The new sample becomes the one to compare with.
LEMMA AtopTold ==
  ASSUME AtopInv, Atop!Compute, NEW p \in Pid, NEW i \in Instance, i = names[p],
         current[p] # Atop!NotRead
  PROVE  /\ reported'[i] \in Atop!Counters
         /\ reported'[i].bytes <= current[p].bytes /\ reported'[i].ios <= io[i]
         /\ current[p].ios # 0 => reported'[i].ios <= current[p].ios
         /\ ~Unseen(i)' /\ firstSeen'[i] \in Atop!Counters
         /\ i \notin broken' => /\ firstSeen'[i].ios <= current[p].ios
                                /\ reported'[i].bytes = current[p].bytes - firstSeen'[i].bytes
                                /\ reported'[i].ios = current[p].ios - firstSeen'[i].ios
<1> USE AtopAssumption
<1>1. PICK now \in Atop!Counters : now = current[p]
  BY AtopNumbers DEF AtopInv, Atop!TypeOK
<1>2. PICK old \in Atop!Counters : old = reported[i]
  BY DEF AtopInv, Atop!TypeOK
<1>3. /\ now.bytes \in Nat /\ now.ios \in Nat /\ old.bytes \in Nat /\ old.ios \in Nat
      /\ io[i] \in 0..MaxIo
  BY <1>1, <1>2, AtopNumbers DEF AtopInv, Atop!TypeOK
<1>4. /\ now.bytes <= io[i] /\ old.bytes <= now.bytes /\ now.ios <= io[i]
      /\ now.ios # 0 => old.ios <= now.ios
      /\ whose[p] = i => previous[p].bytes <= now.bytes
      /\ whose[p] = i /\ now.ios # 0 => previous[p].ios <= now.ios
  BY <1>1, <1>2, SMTT(30) DEF AtopInv, Now
<1>5. old.bytes <= io[i] /\ old.ios <= io[i]
  BY <1>2, SMTT(30) DEF AtopInv, Ledger
<1>6. DOMAIN reported' = Instance /\ DOMAIN reported'[i] = {"bytes", "ios"}
      /\ reported'[i] = [bytes |-> reported'[i].bytes, ios |-> reported'[i].ios]
  BY DEF Atop!Compute
<1>7. firstSeen'[i] = IF Unseen(i) THEN now ELSE firstSeen[i]
  BY <1>1, AtopGains
<1>8. ~Unseen(i)' /\ firstSeen'[i] \in Atop!Counters
  <2>1. firstSeen'[i] \in Atop!Counters
    BY <1>7, AtopNumbers DEF AtopInv, Atop!TypeOK, Unseen
  <2> QED
    BY <2>1, AtopNumbers DEF Unseen, Atop!NotRead
<1>9. /\ broken \subseteq broken'
      /\ previous[p] # Atop!NotRead /\ whose[p] # i => i \in broken'
      /\ now.ios = 0 => i \in broken'
  BY <1>1, AtopGains
<1>10. CASE previous[p] = Atop!NotRead
  <2>1. reported'[i].bytes = old.bytes + 0 /\ reported'[i].ios = old.ios + 0
    BY <1>1, <1>2, <1>10, AtopGains
  <2>2. reported'[i].bytes = old.bytes /\ reported'[i].ios = old.ios
    BY <1>3, <2>1
  <2>3. reported'[i] \in Atop!Counters
    BY <1>2, <1>6, <2>2, AtopNumbers DEF Atop!Counters
  <2>4. ~Unseen(i) => i \in broken
    <3>1. whose[p] = Nobody
      BY <1>10 DEF AtopInv, Before
    <3>2. \A q \in Pid : whose[q] # i
      BY <3>1 DEF AtopInv, Seats
    <3> QED
      BY <3>2 DEF AtopInv, Ledger
  <2>5. Unseen(i) => old.bytes = 0 /\ old.ios = 0
    BY <1>2, AtopNumbers DEF AtopInv, Ledger
  <2>6. i \notin broken' => /\ firstSeen'[i] = now /\ old.bytes = 0 /\ old.ios = 0
    BY <1>7, <1>9, <2>4, <2>5
  <2> QED
    BY <1>1, <1>3, <1>4, <1>5, <1>8, <2>2, <2>3, <2>6
<1>11. CASE previous[p] # Atop!NotRead
  <2>1. PICK then \in Atop!Counters : then = previous[p]
    BY <1>11, AtopNumbers DEF AtopInv, Atop!TypeOK
  <2>2. then.bytes \in Nat /\ then.ios \in Nat
    BY <2>1, AtopNumbers
  <2>3. /\ reported'[i].bytes = old.bytes + Atop!Positive(now.bytes, then.bytes)
        /\ reported'[i].ios = old.ios + Atop!Positive(now.ios, then.ios)
    BY <1>1, <1>2, <1>11, <2>1, AtopGains
  <2>4. CASE whose[p] = i
    <3>1. /\ ~Unseen(i) /\ old.bytes <= then.bytes /\ then.ios # 0 /\ old.ios <= then.ios
          /\ i \notin broken => /\ firstSeen[i].ios <= then.ios
                                /\ old.bytes = then.bytes - firstSeen[i].bytes
                                /\ old.ios = then.ios - firstSeen[i].ios
      BY <1>2, <2>1, <2>4 DEF AtopInv, Before
    <3>2. reported'[i].bytes = old.bytes + (now.bytes - then.bytes)
      BY <1>3, <1>4, <2>1, <2>2, <2>3, <2>4 DEF Atop!Positive
    <3>3. now.ios = 0 => reported'[i].ios = old.ios
      BY <1>3, <2>2, <2>3 DEF Atop!Positive
    <3>4. now.ios # 0 => reported'[i].ios = old.ios + (now.ios - then.ios)
      BY <1>3, <1>4, <2>1, <2>2, <2>3, <2>4 DEF Atop!Positive
    <3>5. firstSeen'[i] = firstSeen[i] /\ firstSeen[i].bytes \in Nat /\ firstSeen[i].ios \in Nat
      BY <1>7, <1>8, <3>1, AtopNumbers
    <3>6. /\ reported'[i].bytes \in 0..MaxIo /\ reported'[i].ios \in 0..MaxIo
          /\ reported'[i].bytes <= now.bytes /\ reported'[i].ios <= io[i]
          /\ now.ios # 0 => reported'[i].ios <= now.ios
      <4>1. reported'[i].bytes \in 0..MaxIo /\ reported'[i].bytes <= now.bytes
        BY <1>3, <1>4, <2>1, <2>2, <2>4, <3>1, <3>2
      <4>2. CASE now.ios = 0
        BY <1>3, <1>5, <3>3, <4>1, <4>2
      <4>3. CASE now.ios # 0
        <5>1. then.ios <= now.ios
          BY <1>4, <2>1, <2>4, <4>3
        <5> QED
          BY <1>3, <1>4, <2>2, <3>1, <3>4, <4>1, <4>3, <5>1
      <4> QED
        BY <4>2, <4>3
    <3>7. reported'[i] \in Atop!Counters
      BY <1>6, <3>6 DEF Atop!Counters
    <3>8. i \notin broken' => now.ios # 0 /\ i \notin broken
      BY <1>9
    <3>9. i \notin broken' => /\ firstSeen[i].ios <= now.ios
                              /\ reported'[i].bytes = now.bytes - firstSeen[i].bytes
                              /\ reported'[i].ios = now.ios - firstSeen[i].ios
      BY <1>3, <1>4, <2>1, <2>2, <2>4, <3>1, <3>2, <3>4, <3>5, <3>8
    <3> QED
      BY <1>1, <1>8, <3>5, <3>6, <3>7, <3>9
  <2>5. CASE whose[p] # i
    <3>1. whose[p] # Nobody
      BY <1>11 DEF AtopInv, Before
    <3>2. i \notin {whose[p], Nobody}
      BY <2>5
    <3>3. Unseen(i)
      BY <3>1, <3>2 DEF AtopInv, Before
    <3>4. old.bytes = 0 /\ old.ios = 0
      BY <1>2, <3>3, AtopNumbers DEF AtopInv, Ledger
    <3>5. i \in broken'
      BY <1>9, <1>11, <2>5
    <3>6. /\ reported'[i].bytes \in Nat /\ reported'[i].bytes <= now.bytes
          /\ reported'[i].ios \in Nat /\ reported'[i].ios <= now.ios
      BY <1>3, <2>2, <2>3, <3>4 DEF Atop!Positive
    <3>7. reported'[i].bytes \in 0..MaxIo /\ reported'[i].ios \in 0..MaxIo /\ reported'[i].ios <= io[i]
      BY <1>3, <1>4, <3>6
    <3>8. reported'[i] \in Atop!Counters
      BY <1>6, <3>7 DEF Atop!Counters
    <3> QED
      BY <1>1, <1>8, <3>5, <3>6, <3>7, <3>8
  <2> QED
    BY <2>4, <2>5
<1> QED
  BY <1>10, <1>11

LEMMA AtopComputes ==
  ASSUME AtopInv, Atop!Compute
  PROVE  AtopInv'
<1> USE AtopAssumption
<1>1. /\ version' = version /\ scope' = scope /\ begun' = begun /\ io' = io /\ unsampled' = unsampled
      /\ halfRead' = halfRead /\ listErrors' = listErrors
      /\ previous' = current /\ sampler' = "asleep" /\ unsampled = {}
      /\ whose' = [p \in Pid |-> IF current[p] = Atop!NotRead THEN Nobody ELSE names[p]]
      /\ names' = [p \in Pid |-> Nobody] /\ current' = [p \in Pid |-> Atop!NotRead]
  BY DEF Atop!Compute, Atop!NextSnapshot
<1>2. halfRead = <<>>
  BY <1>1 DEF AtopInv, Half
<1>3. \A p \in Pid : /\ whose'[p] = IF current[p] = Atop!NotRead THEN Nobody ELSE names[p]
                     /\ names'[p] = Nobody /\ current'[p] = Atop!NotRead
  BY <1>1
<1>4. \A p \in Pid : names[p] \in Instance \cup {Nobody} /\ (current[p] # Atop!NotRead => names[p] # Nobody)
  BY DEF AtopInv, Atop!TypeOK, Now
<1>5. broken \subseteq broken' /\ broken' \subseteq Instance
  <2>1. \A p \in Pid : current[p].ios = 0 => current[p] # Atop!NotRead
    BY AtopNumbers
  <2>2. broken \subseteq Instance
    BY DEF AtopInv, Atop!TypeOK
  <2> QED
    BY <1>4, <2>1, <2>2 DEF Atop!Compute
<1>6. /\ DOMAIN reported' = Instance /\ reported' = [i \in Instance |-> reported'[i]]
      /\ DOMAIN firstSeen' = Instance /\ firstSeen' = [i \in Instance |-> firstSeen'[i]]
  BY DEF Atop!Compute
<1>7. ASSUME NEW i \in Instance
      PROVE  /\ reported'[i] \in Atop!Counters
             /\ firstSeen'[i] \in Atop!Counters \cup {Atop!NotRead}
             /\ Ledger(i)'
  <2>1. Ledger(i) /\ reported[i] \in Atop!Counters /\ io[i] \in 0..MaxIo
        /\ firstSeen[i] \in Atop!Counters \cup {Atop!NotRead}
    BY DEF AtopInv, Atop!TypeOK
  <2>2. CASE \E p \in Pid : names[p] = i /\ current[p] # Atop!NotRead
    <3>1. PICK p \in Pid : names[p] = i /\ current[p] # Atop!NotRead
      BY <2>2
    <3>2. /\ reported'[i] \in Atop!Counters
          /\ reported'[i].bytes <= current[p].bytes /\ reported'[i].ios <= io[i]
          /\ ~Unseen(i)' /\ firstSeen'[i] \in Atop!Counters
      BY <3>1, AtopTold
    <3>3. current[p].bytes <= io[i] /\ current[p] \in Atop!Counters
      BY <3>1, AtopNumbers DEF AtopInv, Now, Atop!TypeOK
    <3>4. reported'[i].bytes <= io[i]
      <4>1. reported'[i].bytes \in Nat /\ current[p].bytes \in Nat /\ io[i] \in Nat
        BY <2>1, <3>2, <3>3, AtopNumbers
      <4> QED
        BY <3>2, <3>3, <4>1
    <3>5. whose'[p] = i /\ i \in begun
      BY <1>3, <3>1 DEF AtopInv, Seats
    <3> QED
      BY <1>1, <3>2, <3>4, <3>5 DEF Ledger
  <2>3. CASE ~\E p \in Pid : names[p] = i /\ current[p] # Atop!NotRead
    <3>1. /\ reported'[i] = reported[i] /\ firstSeen'[i] = firstSeen[i]
          /\ ~Unseen(i) => i \in broken'
      BY <2>3, AtopOmits
    <3>2. Unseen(i)' <=> Unseen(i)
      BY <3>1 DEF Unseen, Atop!NotRead
    <3> HIDE DEF Unseen
    <3> QED
      BY <1>1, <2>1, <3>1, <3>2 DEF Ledger, Atop!Zero
  <2> QED
    BY <2>2, <2>3
<1>8. Atop!TypeOK'
  <2>1. /\ reported' \in [Instance -> Atop!Counters]
        /\ firstSeen' \in [Instance -> Atop!Counters \cup {Atop!NotRead}]
    BY <1>6, <1>7
  <2>2. whose' \in [Pid -> Instance \cup {Nobody}]
    BY <1>1, <1>4
  <2> QED
    BY <1>1, <1>5, <2>1, <2>2 DEF AtopInv, Atop!TypeOK, Atop!Counters, Atop!NotRead
<1>9. Seats'
  <2>1. \A p \in Pid : {scope'[p], names'[p], whose'[p]} \subseteq begun' \cup {Nobody}
    BY <1>1, <1>3 DEF AtopInv, Seats
  <2>2. ASSUME NEW p \in Pid, NEW q \in Pid, p # q
        PROVE  /\ scope'[p] # Nobody => scope'[p] \notin {scope'[q], names'[q], whose'[q]}
               /\ names'[p] # Nobody => names'[p] \notin {names'[q], whose'[q]}
               /\ whose'[p] # Nobody => whose'[p] # whose'[q]
    <3>1. /\ scope[p] # Nobody => scope[p] \notin {scope[q], names[q]}
          /\ names[p] # Nobody => names[p] # names[q]
      BY <2>2 DEF AtopInv, Seats
    <3>2. whose'[p] \in {names[p], Nobody} /\ whose'[q] \in {names[q], Nobody}
      BY <1>3
    <3> QED
      BY <1>1, <1>3, <3>1, <3>2
  <2>3. unsampled' \subseteq {p \in Pid : names'[p] # Nobody}
    BY <1>1
  <2> QED
    BY <1>3, <2>1, <2>2, <2>3 DEF Seats, Atop!NotRead
<1>10. Half'
  BY <1>1, <1>2 DEF Half
<1>11. ASSUME NEW p \in Pid PROVE Before(p)' /\ Now(p)'
  <2>1. Now(p)'
    BY <1>3 DEF Now, Atop!NotRead
  <2>2. CASE current[p] = Atop!NotRead
    BY <1>1, <1>3, <2>1, <2>2 DEF Before, Atop!NotRead
  <2>3. CASE current[p] # Atop!NotRead
    <3>1. PICK i \in Instance : i = names[p] /\ i # Nobody
      BY <1>4, <2>3
    <3>2. whose'[p] = i /\ previous'[p] = current[p]
      BY <1>1, <1>3, <2>3, <3>1
    <3>3. current[p].ios = 0 => i \in broken'
      BY <2>3, <3>1, AtopGains
    <3>4. /\ reported'[i].bytes <= current[p].bytes
          /\ current[p].ios # 0 => reported'[i].ios <= current[p].ios
          /\ ~Unseen(i)'
          /\ i \notin broken' => /\ firstSeen'[i].ios <= current[p].ios
                                 /\ reported'[i].bytes = current[p].bytes - firstSeen'[i].bytes
                                 /\ reported'[i].ios = current[p].ios - firstSeen'[i].ios
      BY <2>3, <3>1, AtopTold
    <3>5. /\ current[p].bytes <= io[i] /\ current[p].ios <= io[i]
          /\ current[p].ios = 0 => Ended(i)
      BY <2>3, <3>1 DEF AtopInv, Now
    <3>6. Ended(i) => Ended(i)'
      BY <1>1 DEF Ended
    <3>7. scope'[p] \in {i, Nobody}
      BY <1>1, <3>1 DEF AtopInv, Seats
    <3>8. \A q \in Pid : names'[q] = Nobody
      BY <1>3
    <3>9. previous'[p] # Atop!NotRead' /\ io' = io
      BY <1>1, <2>3, <3>2 DEF Atop!NotRead
    <3> HIDE DEF Ended, Unseen
    <3>10. Before(p)'
      BY <3>1, <3>2, <3>3, <3>4, <3>5, <3>6, <3>7, <3>8, <3>9 DEF Before
    <3> QED
      BY <2>1, <3>10
  <2> QED
    BY <2>2, <2>3
<1> QED
  BY <1>7, <1>8, <1>9, <1>10, <1>11 DEF AtopInv

LEMMA AtopStep == AtopInv /\ Atop!Next => AtopInv'
BY AtopBegins, AtopGoesOn, AtopReadsOne, AtopDiscovers, AtopLists, AtopComputes DEF Atop!Next

-----------------------------------------------------------------------------
(* Sums of functions over finite sets, which lite_feeder needs *)

\* h[s] is the sum of g over s.
IsSum(h, g, S) ==
  /\ h \in [SUBSET S -> Nat] /\ h[{}] = 0
  /\ \A s \in SUBSET S : \A x \in s : h[s] = g[x] + h[s \ {x}]

\* The order in which SumFunction takes the elements.
Pick(s) == CHOOSE x \in s : TRUE
Folded(h, g, D) ==
  h = [s \in D |-> IF s = {} THEN 0 ELSE g[Pick(s)] + h[s \ {Pick(s)}]]

LEMMA SmallestSet ==
  ASSUME NEW S, IsFiniteSet(S), NEW B \in SUBSET (SUBSET S), B # {}
  PROVE  \E s \in B : \A t \in B : Cardinality(s) <= Cardinality(t)
<1>1. \A s \in SUBSET S : Cardinality(s) \in Nat
  BY FS_Subset, FS_CardinalityType
<1>2. PICK N \in SUBSET Nat : N = {Cardinality(s) : s \in B}
  BY <1>1
<1>3. PICK n \in N : \A m \in N : n <= m
  <2>1. N # {}
    BY <1>2
  <2> QED
    BY <2>1, LeastNumber
<1>4. PICK s \in B : Cardinality(s) = n
  BY <1>2, <1>3
<1>5. \A t \in B : Cardinality(t) \in N
  BY <1>2
<1> QED
  BY <1>3, <1>4, <1>5

LEMMA SmallerSet ==
  ASSUME NEW S, IsFiniteSet(S), NEW s \in SUBSET S, NEW x \in s
  PROVE  s \ {x} \in SUBSET S /\ Cardinality(s \ {x}) < Cardinality(s)
<1>1. IsFiniteSet(s)
  BY FS_Subset
<1>2. Cardinality(s) \in Nat /\ Cardinality(s \ {x}) = Cardinality(s) - 1
  BY <1>1, FS_CardinalityType, FS_RemoveElement
<1> QED
  BY <1>2

LEMMA FoldExists ==
  ASSUME NEW S, IsFiniteSet(S), NEW g
  PROVE  \E h : Folded(h, g, SUBSET S)
<1> DEFINE UpToSize(n) == {s \in SUBSET S : Cardinality(s) <= n}
           Bad == {n \in Nat : ~\E h : Folded(h, g, UpToSize(n))}
<1>1. \A s \in SUBSET S : Cardinality(s) \in Nat /\ (Cardinality(s) = 0 <=> s = {})
  BY FS_Subset, FS_CardinalityType, FS_EmptySet
<1>2. Bad = {}
  <2> SUFFICES ASSUME Bad # {} PROVE FALSE
    OBVIOUS
  <2>1. PICK n \in Bad : \A m \in Bad : n <= m
    BY LeastNumber
  <2>2. CASE n = 0
    <3>1. UpToSize(n) = {{}}
      BY <1>1, <2>2
    <3>2. PICK h : h = [s \in UpToSize(n) |-> 0]
      OBVIOUS
    <3>3. Folded(h, g, UpToSize(n))
      BY <3>1, <3>2 DEF Folded
    <3> QED
      BY <2>1, <3>3
  <2>3. CASE n # 0
    <3>1. n - 1 \in Nat /\ n - 1 \notin Bad /\ n \in Nat
      <4>1. n \in Nat
        BY <2>1
      <4> HIDE DEF Bad
      <4>2. n - 1 \in Nat /\ ~(n <= n - 1)
        BY <2>3, <4>1
      <4> QED
        BY <2>1, <4>1, <4>2
    <3>2. \E k : Folded(k, g, UpToSize(n - 1))
      <4> HIDE DEF UpToSize
      <4> QED
        BY <3>1
    <3>3. PICK k : Folded(k, g, UpToSize(n - 1))
      BY <3>2
    <3>4. PICK h : h = [s \in UpToSize(n) |-> IF s = {} THEN 0 ELSE g[Pick(s)] + k[s \ {Pick(s)}]]
      OBVIOUS
    <3>5. ASSUME NEW s \in UpToSize(n), s # {}
          PROVE  s \ {Pick(s)} \in UpToSize(n - 1) /\ s \ {Pick(s)} \in UpToSize(n)
      <4>1. Pick(s) \in s
        BY <3>5 DEF Pick
      <4>2. PICK x \in s : x = Pick(s)
        BY <4>1
      <4>3. s \ {x} \in SUBSET S /\ Cardinality(s \ {x}) < Cardinality(s)
        BY SmallerSet
      <4>4. Cardinality(s) \in Nat /\ Cardinality(s \ {x}) \in Nat /\ Cardinality(s) <= n
        BY <1>1, <4>3
      <4> QED
        BY <3>1, <4>2, <4>3, <4>4
    <3>6. ASSUME NEW s \in UpToSize(n - 1), s \in UpToSize(n)
          PROVE  k[s] = h[s]
      <4>1. k[s] = IF s = {} THEN 0 ELSE g[Pick(s)] + k[s \ {Pick(s)}]
        BY <3>3 DEF Folded
      <4> QED
        BY <3>4, <3>6, <4>1
    <3>7. \A s \in UpToSize(n) : s # {} => k[s \ {Pick(s)}] = h[s \ {Pick(s)}]
      BY <3>5, <3>6
    <3>8. Folded(h, g, UpToSize(n))
      <4>1. \A s \in UpToSize(n) : (IF s = {} THEN 0 ELSE g[Pick(s)] + k[s \ {Pick(s)}])
                                  = (IF s = {} THEN 0 ELSE g[Pick(s)] + h[s \ {Pick(s)}])
        BY <3>7
      <4> HIDE DEF UpToSize, Pick
      <4> QED
        BY <3>4, <4>1 DEF Folded
    <3> QED
      BY <2>1, <3>8
  <2> QED
    BY <2>2, <2>3
<1>3. Cardinality(S) \in Nat /\ UpToSize(Cardinality(S)) = SUBSET S
  BY FS_Subset, FS_CardinalityType
<1> QED
  BY <1>2, <1>3

\* SumFunction is a sum, and the order does not matter.
LEMMA Sums ==
  ASSUME NEW S, IsFiniteSet(S), NEW g \in [S -> Nat]
  PROVE  \E h : IsSum(h, g, S) /\ Feeder!SumFunction(g) = h[S]
<1> DEFINE F(h) == h = [s \in SUBSET S |->
              IF s = {} THEN 0 ELSE g[CHOOSE x \in s : TRUE] + h[s \ {CHOOSE x \in s : TRUE}]]
<1>1. PICK h : Folded(h, g, SUBSET S) /\ Feeder!SumFunction(g) = h[S]
  <2>1. \E h : F(h)
    <3>1. PICK h : Folded(h, g, SUBSET S)
      BY FoldExists
    <3> QED
      BY <3>1 DEF Folded, Pick
  <2>2. DOMAIN g = S
    OBVIOUS
  <2>3. Feeder!SumFunction(g) = (CHOOSE h : F(h))[S]
    BY <2>2 DEF Feeder!SumFunction, Feeder!SumFunctionOnSet, Feeder!FoldFunctionOnSet,
       Feeder!MapThenFoldSet
  <2>4. F(CHOOSE h : F(h))
    <3> HIDE DEF F
    <3> QED
      BY <2>1
  <2>5. Folded(CHOOSE h : F(h), g, SUBSET S)
    BY <2>4 DEF Folded, Pick
  <2> QED
    BY <2>3, <2>5
<1> HIDE DEF F
<1>2. /\ h[{}] = 0
      /\ \A s \in SUBSET S : s # {} => h[s] = g[Pick(s)] + h[s \ {Pick(s)}]
  <2>1. \A s \in SUBSET S : h[s] = IF s = {} THEN 0 ELSE g[Pick(s)] + h[s \ {Pick(s)}]
    BY <1>1 DEF Folded
  <2> QED
    BY <2>1
<1>3. \A s \in SUBSET S : s # {} => Pick(s) \in s
  BY DEF Pick
<1>4. \A s \in SUBSET S : Cardinality(s) \in Nat
  BY FS_Subset, FS_CardinalityType
<1>5. \A s \in SUBSET S : h[s] \in Nat
  <2> DEFINE B == {s \in SUBSET S : h[s] \notin Nat}
  <2> SUFFICES ASSUME B # {} PROVE FALSE
    OBVIOUS
  <2>1. PICK s \in B : \A t \in B : Cardinality(s) <= Cardinality(t)
    BY SmallestSet
  <2>2. s \in SUBSET S /\ h[s] \notin Nat
    BY <2>1
  <2> HIDE DEF B
  <2>3. s # {} /\ Pick(s) \in s
    <3>1. h[{}] \in Nat
      BY <1>2
    <3>2. s # {}
      BY <2>2, <3>1, Zenon
    <3> QED
      BY <1>3, <2>2, <3>2
  <2>4. PICK x \in s : x = Pick(s)
    BY <2>3
  <2>5. s \ {x} \in SUBSET S /\ Cardinality(s \ {x}) < Cardinality(s)
    BY <2>2, SmallerSet
  <2>6. s \ {x} \notin B
    BY <1>4, <2>1, <2>2, <2>5
  <2>7. h[s \ {x}] \in Nat
    BY <2>5, <2>6 DEF B
  <2>8. g[x] \in Nat /\ h[s] = g[x] + h[s \ {x}]
    BY <1>2, <2>2, <2>3, <2>4
  <2> QED
    BY <2>2, <2>7, <2>8
<1>6. \A s \in SUBSET S : \A x \in s : h[s] = g[x] + h[s \ {x}]
  <2> DEFINE B == {s \in SUBSET S : \E x \in s : h[s] # g[x] + h[s \ {x}]}
  <2> SUFFICES ASSUME B # {} PROVE FALSE
    OBVIOUS
  <2>1. PICK s \in B : \A t \in B : Cardinality(s) <= Cardinality(t)
    BY SmallestSet
  <2>2. PICK x \in s : h[s] # g[x] + h[s \ {x}]
    BY <2>1
  <2>3. s \in SUBSET S
    BY <2>1
  <2>4. PICK y \in s : y = Pick(s) /\ h[s] = g[y] + h[s \ {y}]
    BY <1>2, <1>3, <2>2, <2>3
  <2>5. x # y
    BY <2>2, <2>4
  <2>6. /\ s \ {x} \in SUBSET S /\ Cardinality(s \ {x}) < Cardinality(s)
        /\ s \ {y} \in SUBSET S /\ Cardinality(s \ {y}) < Cardinality(s)
    BY <2>3, SmallerSet
  <2>7. s \ {x} \notin B /\ s \ {y} \notin B
    <3> HIDE DEF B
    <3> QED
      BY <1>4, <2>1, <2>3, <2>6
  <2>8. h[s \ {x}] = g[y] + h[(s \ {x}) \ {y}] /\ h[s \ {y}] = g[x] + h[(s \ {y}) \ {x}]
    BY <2>5, <2>6, <2>7
  <2>9. (s \ {x}) \ {y} = (s \ {y}) \ {x}
    OBVIOUS
  <2>10. PICK z \in SUBSET S : z = (s \ {x}) \ {y}
    BY <2>6
  <2>11. h[z] \in Nat /\ g[x] \in Nat /\ g[y] \in Nat
    BY <1>5, <2>3
  <2>12. h[s] = g[y] + (g[x] + h[z]) /\ h[s] # g[x] + (g[y] + h[z])
    BY <2>2, <2>4, <2>8, <2>9, <2>10
  <2> QED
    BY <2>11, <2>12
<1>7. h \in [SUBSET S -> Nat]
  BY <1>1, <1>5 DEF Folded
<1> QED
  BY <1>1, <1>2, <1>6, <1>7 DEF IsSum

\* The sums over fewer elements, and of smaller numbers, are not greater.
LEMMA SumGrows ==
  ASSUME NEW S, IsFiniteSet(S), NEW g \in [S -> Nat], NEW h, IsSum(h, g, S)
  PROVE  \A v \in SUBSET S : \A u \in SUBSET v : h[u] <= h[v]
<1> DEFINE B == {v \in SUBSET S : \E u \in SUBSET v : ~(h[u] <= h[v])}
<1> SUFFICES ASSUME B # {} PROVE FALSE
  OBVIOUS
<1>1. PICK v \in B : \A t \in B : Cardinality(v) <= Cardinality(t)
  BY SmallestSet
<1>2. PICK u \in SUBSET v : ~(h[u] <= h[v])
  BY <1>1
<1>3. h[u] \in Nat /\ h[v] \in Nat
  BY <1>1, <1>2 DEF IsSum
<1>4. PICK x \in v : x \notin u
  BY <1>2, <1>3
<1>5. v \ {x} \in SUBSET S /\ Cardinality(v \ {x}) < Cardinality(v)
  BY SmallerSet
<1>6. \A s \in SUBSET S : Cardinality(s) \in Nat
  BY FS_Subset, FS_CardinalityType
<1>7. v \ {x} \notin B
  <2>1. v \in SUBSET S
    BY <1>1
  <2> HIDE DEF B
  <2> QED
    BY <1>1, <1>5, <1>6, <2>1
<1>8. h[u] <= h[v \ {x}]
  BY <1>4, <1>5, <1>7
<1>9. h[v] = g[x] + h[v \ {x}] /\ g[x] \in Nat /\ h[v \ {x}] \in Nat
  BY <1>1, <1>5 DEF IsSum
<1> QED
  BY <1>2, <1>3, <1>8, <1>9

LEMMA SumLeq ==
  ASSUME NEW S, IsFiniteSet(S), NEW g \in [S -> Nat], NEW h, IsSum(h, g, S),
         NEW T, IsFiniteSet(T), NEW f \in [T -> Nat], NEW k, IsSum(k, f, T)
  PROVE  \A u \in SUBSET (S \cap T) : (\A t \in u : f[t] <= g[t]) => k[u] <= h[u]
<1> DEFINE B == {u \in SUBSET (S \cap T) : (\A t \in u : f[t] <= g[t]) /\ ~(k[u] <= h[u])}
<1> SUFFICES ASSUME B # {} PROVE FALSE
  OBVIOUS
<1>1. PICK u \in B : \A t \in B : Cardinality(u) <= Cardinality(t)
  <2>1. B \in SUBSET (SUBSET S)
    OBVIOUS
  <2> QED
    BY <2>1, SmallestSet
<1>2. u \in SUBSET S /\ u \in SUBSET T /\ k[u] \in Nat /\ h[u] \in Nat /\ k[{}] = 0 /\ h[{}] = 0
  BY <1>1 DEF IsSum
<1>3. PICK x \in u : TRUE
  <2>1. k[{}] <= h[{}]
    BY <1>2
  <2>2. ~(k[u] <= h[u])
    BY <1>1
  <2>3. u # {}
    BY <2>1, <2>2, Zenon
  <2> QED
    BY <2>3
<1>4. u \ {x} \in SUBSET S /\ Cardinality(u \ {x}) < Cardinality(u)
  BY <1>2, SmallerSet
<1>5. Cardinality(u) \in Nat /\ Cardinality(u \ {x}) \in Nat
  BY <1>2, <1>4, FS_Subset, FS_CardinalityType
<1>6. u \ {x} \notin B
  BY <1>1, <1>4, <1>5
<1>7. k[u \ {x}] <= h[u \ {x}] /\ f[x] <= g[x]
  BY <1>1, <1>6
<1>8. h[u] = g[x] + h[u \ {x}] /\ k[u] = f[x] + k[u \ {x}]
  BY <1>2 DEF IsSum
<1>9. g[x] \in Nat /\ f[x] \in Nat /\ h[u \ {x}] \in Nat /\ k[u \ {x}] \in Nat
  BY <1>2 DEF IsSum
<1> QED
  BY <1>1, <1>2, <1>7, <1>8, <1>9

\* One element is new, or its number is greater by up to n.
LEMMA SumBound ==
  ASSUME NEW S, IsFiniteSet(S), NEW g \in [S -> Nat],
         NEW T, IsFiniteSet(T), NEW f \in [T -> Nat], NEW x, NEW n \in Nat,
         \A t \in T \ {x} : t \in S /\ f[t] <= g[t],
         x \in T => f[x] <= (IF x \in S THEN g[x] ELSE 0) + n
  PROVE  Feeder!SumFunction(f) <= Feeder!SumFunction(g) + n
<1>1. PICK h : IsSum(h, g, S) /\ Feeder!SumFunction(g) = h[S]
  BY Sums
<1>2. PICK k : IsSum(k, f, T) /\ Feeder!SumFunction(f) = k[T]
  BY Sums
<1>3. PICK u \in SUBSET (S \cap T) : u = T \ {x}
  OBVIOUS
<1>4. k[u] <= h[u]
  BY <1>1, <1>2, <1>3, SumLeq
<1>5. h[S] \in Nat /\ h[u] \in Nat /\ k[T] \in Nat /\ k[u] \in Nat /\ h[S \ {x}] \in Nat
  BY <1>1, <1>2, <1>3 DEF IsSum
<1>6. h[u] <= h[S] /\ h[u] <= h[S \ {x}]
  <2>1. u \in SUBSET S /\ u \in SUBSET (S \ {x}) /\ S \ {x} \in SUBSET S
    BY <1>3
  <2> QED
    BY <1>1, <2>1, SumGrows
<1>7. CASE x \notin T
  <2>1. u = T
    BY <1>3, <1>7
  <2> QED
    BY <1>1, <1>2, <1>4, <1>5, <1>6, <2>1
<1>8. CASE x \in T
  <2>1. k[T] = f[x] + k[u] /\ f[x] \in Nat
    BY <1>2, <1>3, <1>8 DEF IsSum
  <2>2. CASE x \in S
    <3>1. h[S] = g[x] + h[S \ {x}] /\ g[x] \in Nat
      BY <1>1, <2>2 DEF IsSum
    <3> QED
      BY <1>1, <1>2, <1>4, <1>5, <1>6, <1>8, <2>1, <2>2, <3>1
  <2>3. CASE x \notin S
    BY <1>1, <1>2, <1>4, <1>5, <1>6, <1>8, <2>1, <2>3
  <2> QED
    BY <2>2, <2>3
<1> QED
  BY <1>7, <1>8

LEMMA SumNothing ==
  ASSUME NEW S, IsFiniteSet(S), NEW g \in [S -> Nat], \A x \in S : g[x] = 0
  PROVE  Feeder!SumFunction(g) = 0
<1>1. PICK h : IsSum(h, g, S) /\ Feeder!SumFunction(g) = h[S]
  BY Sums
<1> DEFINE B == {s \in SUBSET S : h[s] # 0}
<1>2. CASE B = {}
  BY <1>1, <1>2
<1>3. CASE B # {}
  <2>1. PICK s \in B : \A t \in B : Cardinality(s) <= Cardinality(t)
    BY <1>3, SmallestSet
  <2>2. PICK x \in s : TRUE
    BY <1>1, <2>1 DEF IsSum
  <2>3. s \ {x} \in SUBSET S /\ Cardinality(s \ {x}) < Cardinality(s)
    BY SmallerSet
  <2>4. Cardinality(s) \in Nat /\ Cardinality(s \ {x}) \in Nat
    BY <2>3, FS_Subset, FS_CardinalityType
  <2>5. h[s \ {x}] = 0
    BY <2>1, <2>3, <2>4
  <2>6. h[s] = g[x] + h[s \ {x}]
    BY <1>1 DEF IsSum
  <2> QED
    BY <2>1, <2>5, <2>6
<1> QED
  BY <1>2, <1>3

LEMMA SumOfOne ==
  ASSUME NEW x, NEW g \in [{x} -> Nat]
  PROVE  Feeder!SumFunction(g) = g[x]
<1>1. IsFiniteSet({x})
  BY FS_Singleton
<1>2. PICK h : IsSum(h, g, {x}) /\ Feeder!SumFunction(g) = h[{x}]
  BY <1>1, Sums
<1>3. h[{x}] = g[x] + h[{x} \ {x}] /\ {x} \ {x} = {} /\ h[{}] = 0
  BY <1>2 DEF IsSum
<1> QED
  BY <1>2, <1>3

-----------------------------------------------------------------------------
(* lite_feeder *)

\* A process that runs has one thread that is its leader, with the pid it had before.
Led ==
  /\ \A t \in Pid : thread[t] # Nobody =>
       thread[t] \in started /\ \E p \in leaders : thread[p] = thread[t]
  /\ \A p \in leaders : thread[p] # Nobody
  /\ \A p, q \in leaders : thread[p] = thread[q] => p = q

\* Nothing was read of a process.
Unread(i) == base[i] = 0 /\ i \notin unreadable /\ \A m \in Feeder!Metrics : Feeder!Counted(i, m) = 0

\* Of a process that was in the last sample all was counted up to there.
UpTo(p) ==
  LET q == prevProcs[p]
      i == q.start
  IN  q # Feeder!NotThere =>
        /\ q.total <= work[i] /\ base[i] <= q.total
        /\ Feeder!Counted(i, "cpu") = q.total - base[i]
        /\ i \notin unreadable => q.io /\ Feeder!Counted(i, "disk") = q.total - base[i]

\* A process that runs was in the last sample with its pid, or in none; what its threads
\* would add to its waiting it has done.
Runs(p) ==
  LET i == thread[p] IN
  /\ Unread(i) \/ Feeder!Known(p, i)
  /\ Feeder!Counted(i, "wait") + Feeder!Waited(p) <= work[i]

\* A process is counted for what it has done.
Done(i) ==
  /\ Feeder!Counted(i, "cpu") <= work[i] /\ Feeder!Counted(i, "wait") <= work[i]
  /\ i \notin unreadable => Feeder!Counted(i, "disk") <= work[i]
  /\ i \notin started => Unread(i)

FeederInv ==
  /\ Feeder!TypeOK /\ Led
  /\ \A t \in Pid : thread[t] # Nobody => delay[t] <= work[thread[t]]
  /\ \A p \in Pid : UpTo(p)
  /\ \A p \in leaders : Runs(p)
  /\ \A i \in Instance : Done(i)
  /\ first => /\ \A p \in Pid : prevProcs[p] = Feeder!NotThere
              /\ \A i \in Instance : Unread(i)

LEMMA FeederInit == Feeder!Init => FeederInv
<1> SUFFICES ASSUME Feeder!Init PROVE FeederInv
  OBVIOUS
<1> USE AtopAssumption, FeederAssumption
<1>1. \A i \in Instance, m \in Feeder!Metrics : stored[i][m] = 0 /\ dropped[i][m] = 0
  BY DEF Feeder!Init, Feeder!Nothing
<1>2. stored \in [Instance -> [Feeder!Metrics -> Nat]] /\ dropped = stored
  BY DEF Feeder!Init, Feeder!Nothing
<1>3. Feeder!TypeOK
  BY <1>2 DEF Feeder!Init, Feeder!TypeOK, Feeder!NoThread
<1>4. \A i \in Instance : Unread(i)
  BY <1>1 DEF Feeder!Init, Unread, Feeder!Counted
<1>5. \A i \in Instance : Done(i)
  <2>1. \A i \in Instance : /\ Feeder!Counted(i, "cpu") = 0 /\ Feeder!Counted(i, "wait") = 0
                            /\ Feeder!Counted(i, "disk") = 0 /\ work[i] = 0
    BY <1>4 DEF Unread, Feeder!Metrics, Feeder!Init
  <2> QED
    BY <1>4, <2>1 DEF Done
<1>6. \A p \in Pid : UpTo(p) /\ prevProcs[p] = Feeder!NotThere
  BY DEF Feeder!Init, UpTo
<1>7. Led /\ leaders = {} /\ \A t \in Pid : thread[t] = Nobody
  BY DEF Feeder!Init, Led
<1> QED
  BY <1>3, <1>4, <1>5, <1>6, <1>7 DEF FeederInv

LEMMA FeederEnds == FeederInv => Feeder!UsageCounted
<1> SUFFICES ASSUME FeederInv PROVE Feeder!UsageCounted
  OBVIOUS
<1>1. ASSUME NEW i \in Instance
      PROVE  /\ Feeder!Counted(i, "cpu") <= work[i] /\ Feeder!Counted(i, "wait") <= work[i]
             /\ i \notin unreadable => Feeder!Counted(i, "disk") <= work[i]
  BY DEF FeederInv, Done
<1>2. ASSUME NEW p \in Pid
      PROVE  LET q == prevProcs[p] IN
               q # Feeder!NotThere =>
                 /\ Feeder!Counted(q.start, "cpu") = q.total - base[q.start]
                 /\ q.start \notin unreadable => Feeder!Counted(q.start, "disk") = q.total - base[q.start]
  BY DEF FeederInv, UpTo
<1> QED
  BY <1>1, <1>2 DEF Feeder!UsageCounted

\* The numbers that the processes have, and those that were read.
LEMMA FeederNumbers ==
  ASSUME FeederInv
  PROVE  /\ \A i \in Instance, m \in Feeder!Metrics :
              stored[i][m] \in Nat /\ dropped[i][m] \in Nat /\ Feeder!Counted(i, m) \in Nat
         /\ \A i \in Instance : work[i] \in 0..MaxWork /\ base[i] \in 0..MaxWork
         /\ \A t \in Pid : delay[t] \in 0..MaxWork /\ prevThreads[t] \in 0..MaxWork + 1
         /\ \A p \in Pid : prevProcs[p] # Feeder!NotThere =>
              /\ prevProcs[p].start \in Instance /\ prevProcs[p].total \in 0..MaxWork
              /\ prevProcs[p].io \in BOOLEAN
         /\ \A p \in leaders : p \in Pid /\ thread[p] \in Instance
BY FeederAssumption DEF FeederInv, Feeder!TypeOK, Feeder!Counted, Feeder!NoThread, Feeder!Sampled, Led

LEMMA FeederMinus ==
  ASSUME NEW a \in 0..MaxWork, NEW b \in 0..MaxWork
  PROVE  /\ Feeder!Minus(a, b) \in Nat
         /\ b <= a => Feeder!Minus(a, b) = a - b
<1> USE FeederAssumption
<1>1. PICK w \in Nat : w = Feeder!Wrap /\ w > MaxWork
  BY DEF Feeder!Wrap
<1>2. Feeder!Minus(a, b) = (a + w - b) % w /\ a + w - b \in Nat
  BY <1>1 DEF Feeder!Minus
<1>3. (a + w - b) % w \in Nat
  BY <1>1, <1>2
<1>4. ASSUME b <= a PROVE (a + w - b) % w = a - b
  <2>1. PICK d \in 0..MaxWork : d = a - b
    BY <1>4
  <2>2. a + w - b = d + w /\ d < w
    BY <1>1, <2>1
  <2>3. (d + w) % w = d
    BY <1>1, <2>2
  <2> QED
    BY <2>1, <2>2, <2>3
<1> QED
  BY <1>2, <1>3, <1>4

LEMMA FeederDelay ==
  ASSUME FeederInv, NEW t \in Pid, NEW same \* of a process
  PROVE  Feeder!DelayGain(t, same) \in Nat
BY FeederNumbers, FeederAssumption DEF Feeder!DelayGain, Feeder!NoThread

\* The threads of a process, and what each would add to its waiting.
ThreadsOf(p) == {u \in Pid : thread[u] = thread[p]}
Gains(p) == [t \in ThreadsOf(p) |-> Feeder!DelayGain(t, Feeder!Known(p, thread[p]))]

LEMMA FeederWaits ==
  ASSUME FeederInv, NEW p \in leaders
  PROVE  /\ IsFiniteSet(ThreadsOf(p)) /\ Gains(p) \in [ThreadsOf(p) -> Nat]
         /\ Feeder!Waited(p) = Feeder!SumFunction(Gains(p)) /\ Feeder!Waited(p) \in Nat
<1>1. IsFiniteSet(ThreadsOf(p))
  <2>1. ThreadsOf(p) \in SUBSET Pid
    BY DEF ThreadsOf
  <2> QED
    BY <2>1, FS_Subset, FeederAssumption
<1>2. Gains(p) \in [ThreadsOf(p) -> Nat]
  BY FeederDelay DEF Gains, ThreadsOf
<1>3. Feeder!Waited(p) = Feeder!SumFunction(Gains(p))
  BY DEF Feeder!Waited, Gains, ThreadsOf
<1>4. PICK h : IsSum(h, Gains(p), ThreadsOf(p)) /\ Feeder!SumFunction(Gains(p)) = h[ThreadsOf(p)]
  BY <1>1, <1>2, Sums
<1> QED
  BY <1>1, <1>2, <1>3, <1>4 DEF IsSum

\* A step of a process or thread.
LEMMA FeederRest ==
  ASSUME FeederInv, Feeder!TypeOK', Led', UNCHANGED <<Feeder!buffers, Feeder!ledger>>,
         \A i \in Instance : work[i] <= work'[i],
         started \subseteq started',
         \A t \in Pid : thread'[t] # Nobody => delay'[t] <= work'[thread'[t]],
         \A p \in leaders' : Runs(p)'
  PROVE  FeederInv'
<1> USE DEF Feeder!buffers, Feeder!ledger
<1>1. \A i, m : Feeder!Counted(i, m)' = Feeder!Counted(i, m)
  BY DEF Feeder!Counted
<1>2. \A i \in Instance : work[i] \in Nat /\ work'[i] \in Nat
  BY FeederNumbers, FeederAssumption DEF Feeder!TypeOK
<1>3. \A i : Unread(i) => Unread(i)'
  BY <1>1 DEF Unread
<1>4. ASSUME NEW i \in Instance PROVE Done(i)'
  <2>1. Done(i) /\ Feeder!Counted(i, "cpu") \in Nat /\ Feeder!Counted(i, "wait") \in Nat
                /\ Feeder!Counted(i, "disk") \in Nat
    BY FeederNumbers DEF FeederInv, Feeder!Metrics
  <2> QED
    BY <1>1, <1>2, <1>3, <2>1 DEF Done
<1>5. ASSUME NEW p \in Pid PROVE UpTo(p)'
  <2>1. UpTo(p) /\ (prevProcs[p] # Feeder!NotThere =>
                      prevProcs[p].start \in Instance /\ prevProcs[p].total \in 0..MaxWork)
    BY FeederNumbers DEF FeederInv
  <2>2. CASE prevProcs[p] = Feeder!NotThere
    BY <2>2 DEF UpTo, Feeder!NotThere
  <2>3. CASE prevProcs[p] # Feeder!NotThere
    <3>1. prevProcs[p].total <= work'[prevProcs[p].start]
      BY <1>2, <2>1, <2>3, FeederAssumption DEF UpTo
    <3> QED
      BY <1>1, <2>1, <2>3, <3>1 DEF UpTo
  <2> QED
    BY <2>2, <2>3
<1>6. first' => /\ \A p \in Pid : prevProcs'[p] = Feeder!NotThere
                /\ \A i \in Instance : Unread(i)'
  BY <1>3 DEF FeederInv
<1> QED
  BY <1>4, <1>5, <1>6 DEF FeederInv, Feeder!NotThere

\* One thread x of a process is new or adds up to n to its delay, as the process to its work.
LEMMA FeederKeeps ==
  ASSUME FeederInv, Feeder!TypeOK', UNCHANGED <<Feeder!buffers, Feeder!ledger>>,
         NEW p \in leaders, thread'[p] = thread[p], NEW x \in Pid, NEW n \in {0, 1},
         \A t \in Pid \ {x} : thread'[t] = thread[p] => thread[t] = thread[p] /\ delay'[t] = delay[t],
         thread'[x] = thread[p] =>
           \/ delay'[x] = 0
           \/ thread[x] = thread[p] /\ delay[x] <= delay'[x] /\ delay'[x] <= delay[x] + n,
         work[thread[p]] + n <= work'[thread[p]]
  PROVE  Runs(p)'
<1> USE DEF Feeder!buffers, Feeder!ledger
<1>1. PICK i \in Instance : i = thread[p]
  BY FeederNumbers
<1>2. PICK same \in BOOLEAN : same = Feeder!Known(p, i)
  BY DEF Feeder!Known
<1>3. Feeder!Known(p, thread[p])' = same
  BY <1>1, <1>2 DEF Feeder!Known, Feeder!NotThere
<1>4. PICK T : T = {u \in Pid : thread'[u] = thread'[p]}
  OBVIOUS
<1>5. PICK f : f = [t \in T |-> IF same /\ prevThreads[t] # Feeder!NoThread /\ prevThreads[t] <= delay'[t]
                                THEN delay'[t] - prevThreads[t] ELSE delay'[t]]
  OBVIOUS
<1>6. Feeder!Waited(p)' = Feeder!SumFunction(f)
  BY <1>3, <1>4, <1>5 DEF Feeder!Waited, Feeder!DelayGain, Feeder!NoThread
<1>7. \A t \in Pid : delay'[t] \in 0..MaxWork /\ delay[t] \in 0..MaxWork /\ prevThreads[t] \in Nat
  BY FeederNumbers, FeederAssumption DEF Feeder!TypeOK
<1>8. f \in [T -> Nat] /\ IsFiniteSet(T)
  <2>1. T \in SUBSET Pid
    BY <1>4
  <2>2. IsFiniteSet(T)
    BY <2>1, FS_Subset, FeederAssumption
  <2>3. \A t \in T : f[t] \in Nat
    BY <1>5, <1>7, <2>1, FeederAssumption
  <2> QED
    BY <1>5, <2>2, <2>3
<1>9. PICK S, g : S = ThreadsOf(p) /\ g = Gains(p)
  OBVIOUS
<1>10. IsFiniteSet(S) /\ g \in [S -> Nat] /\ Feeder!Waited(p) = Feeder!SumFunction(g)
       /\ Feeder!Waited(p) \in Nat
  BY <1>9, FeederWaits
<1>11. \A t \in S : g[t] = IF same /\ prevThreads[t] # Feeder!NoThread /\ prevThreads[t] <= delay[t]
                           THEN delay[t] - prevThreads[t] ELSE delay[t]
  BY <1>1, <1>2, <1>9 DEF Gains, ThreadsOf, Feeder!DelayGain
<1>12. ASSUME NEW t \in T \ {x} PROVE t \in S /\ f[t] <= g[t]
  <2>1. t \in Pid /\ thread[t] = thread[p] /\ delay'[t] = delay[t]
    BY <1>4
  <2>2. t \in S
    BY <1>9, <2>1 DEF ThreadsOf
  <2>3. f[t] = g[t] /\ f[t] \in Nat
    BY <1>5, <1>8, <1>11, <2>1, <2>2
  <2> QED
    BY <2>2, <2>3
<1>13. ASSUME x \in T PROVE f[x] <= (IF x \in S THEN g[x] ELSE 0) + n
  <2>1. thread'[x] = thread[p]
    BY <1>4, <1>13
  <2>2. CASE delay'[x] = 0
    <3>1. f[x] = 0
      BY <1>5, <1>7, <1>13, <2>2
    <3>2. x \in S => g[x] \in Nat
      BY <1>10
    <3> QED
      BY <3>1, <3>2
  <2>3. CASE thread[x] = thread[p] /\ delay[x] <= delay'[x] /\ delay'[x] <= delay[x] + n
    <3>1. x \in S
      BY <1>9, <2>3 DEF ThreadsOf
    <3>2. delay[x] \in Nat /\ delay'[x] \in Nat /\ prevThreads[x] \in Nat
      BY <1>7, FeederAssumption
    <3>3. f[x] <= g[x] + n
      <4>1. f[x] = IF same /\ prevThreads[x] # Feeder!NoThread /\ prevThreads[x] <= delay'[x]
                   THEN delay'[x] - prevThreads[x] ELSE delay'[x]
        BY <1>5, <1>13
      <4>2. g[x] = IF same /\ prevThreads[x] # Feeder!NoThread /\ prevThreads[x] <= delay[x]
                   THEN delay[x] - prevThreads[x] ELSE delay[x]
        BY <1>11, <3>1
      <4> QED
        BY <2>3, <3>2, <4>1, <4>2
    <3> QED
      BY <3>1, <3>3
  <2> QED
    BY <2>1, <2>2, <2>3
<1>14. Feeder!SumFunction(f) <= Feeder!SumFunction(g) + n
  <2>1. n \in Nat
    OBVIOUS
  <2> QED
    BY <1>8, <1>10, <1>12, <1>13, <2>1, SumBound
<1>15. Feeder!SumFunction(f) \in Nat
  <2>1. PICK k : IsSum(k, f, T) /\ Feeder!SumFunction(f) = k[T]
    BY <1>8, Sums
  <2> QED
    BY <2>1 DEF IsSum
<1>16. Unread(i) \/ same
  BY <1>1, <1>2 DEF FeederInv, Runs
<1>17. Unread(thread[p])' \/ Feeder!Known(p, thread[p])'
  <2>1. Unread(i) => Unread(thread[p])'
    BY <1>1 DEF Unread, Feeder!Counted
  <2> QED
    BY <1>3, <1>16, <2>1
<1>18. Feeder!Counted(thread[p], "wait")' + Feeder!Waited(p)' <= work'[thread'[p]]
  <2>1. PICK c \in Nat : c = Feeder!Counted(i, "wait") /\ c = Feeder!Counted(thread[p], "wait")'
    BY <1>1, FeederNumbers DEF Feeder!Counted, Feeder!Metrics
  <2>2. c + Feeder!Waited(p) <= work[i]
    BY <1>1, <2>1 DEF FeederInv, Runs
  <2>3. work[i] \in Nat /\ work'[i] \in Nat /\ work[i] + n <= work'[i]
    BY <1>1, FeederAssumption DEF FeederInv, Feeder!TypeOK
  <2> QED
    BY <1>1, <1>6, <1>10, <1>14, <1>15, <2>1, <2>2, <2>3
<1> QED
  BY <1>17, <1>18 DEF Runs

LEMMA FeederStart ==
  ASSUME FeederInv, NEW i \in Instance, NEW p \in Pid, Feeder!Start(i, p)
  PROVE  FeederInv'
<1> USE AtopAssumption, FeederAssumption
<1>1. /\ i \notin started /\ thread[p] = Nobody
      /\ started' = started \cup {i}
      /\ thread' = [thread EXCEPT ![p] = i] /\ leaders' = leaders \cup {p}
      /\ delay' = [delay EXCEPT ![p] = 0]
      /\ work' = work /\ UNCHANGED <<Feeder!buffers, Feeder!ledger>>
  BY DEF Feeder!Start
<1>2. Feeder!TypeOK'
  BY <1>1 DEF FeederInv, Feeder!TypeOK, Feeder!buffers, Feeder!ledger
<1>3. /\ \A t \in Pid : thread'[t] = (IF t = p THEN i ELSE thread[t])
                     /\ delay'[t] = (IF t = p THEN 0 ELSE delay[t])
      /\ p \notin leaders /\ \A t \in Pid : thread[t] # i
  BY <1>1 DEF FeederInv, Feeder!TypeOK, Led
<1>4. Led'
  BY <1>1, <1>3 DEF FeederInv, Feeder!TypeOK, Led
<1>5. \A j \in Instance : work[j] \in Nat /\ work'[j] = work[j]
  BY <1>1, FeederNumbers
<1>6. \A t \in Pid : thread'[t] # Nobody => delay'[t] <= work'[thread'[t]]
  BY <1>1, <1>3, <1>5 DEF FeederInv
<1>7. ASSUME NEW q \in leaders PROVE Runs(q)'
  <2>1. q \in Pid /\ q # p /\ thread'[q] = thread[q] /\ thread[q] \in Instance
    BY <1>3, FeederNumbers
  <2>2. \A t \in Pid \ {p} : thread'[t] = thread[q] => thread[t] = thread[q] /\ delay'[t] = delay[t]
    BY <1>3
  <2>3. delay'[p] = 0 /\ work[thread[q]] + 0 <= work'[thread[q]]
    BY <1>3, <1>5, <2>1
  <2> QED
    BY <1>1, <1>2, <2>1, <2>2, <2>3, FeederKeeps
<1>8. Runs(p)'
  <2>1. Unread(i) /\ thread'[p] = i
    BY <1>1, <1>3 DEF FeederInv, Done
  <2>2. Unread(thread[p])' /\ Feeder!Counted(thread[p], "wait")' = 0
    BY <1>1, <2>1 DEF Unread, Feeder!Counted, Feeder!ledger, Feeder!Metrics
  <2>3. PICK T : T = {u \in Pid : thread'[u] = thread'[p]}
    OBVIOUS
  <2>4. PICK f : f = [t \in T |-> Feeder!DelayGain(t, Feeder!Known(p, thread[p]))']
    OBVIOUS
  <2>5. Feeder!Waited(p)' = Feeder!SumFunction(f)
    BY <2>3, <2>4 DEF Feeder!Waited
  <2>6. T = {p}
    BY <1>3, <2>1, <2>3
  <2>7. f \in [{p} -> Nat] /\ f[p] = 0
    <3>1. f[p] = Feeder!DelayGain(p, Feeder!Known(p, thread[p]))' /\ delay'[p] = 0
      BY <1>3, <2>4, <2>6
    <3>2. prevThreads'[p] \in Nat
      BY <1>2 DEF Feeder!TypeOK, Feeder!NoThread
    <3>3. Feeder!DelayGain(p, Feeder!Known(p, thread[p]))' = 0
      BY <3>1, <3>2 DEF Feeder!DelayGain
    <3> QED
      BY <2>4, <2>6, <3>1, <3>3
  <2>8. Feeder!Waited(p)' = 0
    BY <2>5, <2>7, SumOfOne
  <2>9. 0 <= work'[thread'[p]]
    BY <1>5, <2>1
  <2> QED
    BY <2>2, <2>8, <2>9 DEF Runs
<1> QED
  BY <1>1, <1>2, <1>4, <1>5, <1>6, <1>7, <1>8, FeederRest

LEMMA FeederNewThread ==
  ASSUME FeederInv, NEW p \in Pid, NEW t \in Pid, Feeder!NewThread(p, t)
  PROVE  FeederInv'
<1> USE AtopAssumption, FeederAssumption
<1>1. /\ p \in leaders /\ thread[t] = Nobody
      /\ thread' = [thread EXCEPT ![t] = thread[p]]
      /\ delay' = [delay EXCEPT ![t] = 0]
      /\ leaders' = leaders /\ started' = started /\ work' = work
      /\ UNCHANGED <<Feeder!buffers, Feeder!ledger>>
  BY DEF Feeder!NewThread
<1>2. Feeder!TypeOK' /\ thread[p] \in Instance
  BY <1>1, FeederNumbers DEF FeederInv, Feeder!TypeOK, Feeder!buffers, Feeder!ledger
<1>3. /\ \A u \in Pid : thread'[u] = (IF u = t THEN thread[p] ELSE thread[u])
                     /\ delay'[u] = (IF u = t THEN 0 ELSE delay[u])
      /\ t \notin leaders
  BY <1>1 DEF FeederInv, Feeder!TypeOK, Led
<1>4. Led'
  BY <1>1, <1>2, <1>3 DEF FeederInv, Feeder!TypeOK, Led
<1>5. \A j \in Instance : work[j] \in Nat /\ work'[j] = work[j]
  BY <1>1, FeederNumbers
<1>6. \A u \in Pid : thread'[u] # Nobody => delay'[u] <= work'[thread'[u]]
  BY <1>1, <1>2, <1>3, <1>5 DEF FeederInv
<1>7. ASSUME NEW q \in leaders PROVE Runs(q)'
  <2>1. q \in Pid /\ q # t /\ thread'[q] = thread[q] /\ thread[q] \in Instance
    BY <1>3, FeederNumbers
  <2>2. \A u \in Pid \ {t} : thread'[u] = thread[q] => thread[u] = thread[q] /\ delay'[u] = delay[u]
    BY <1>3
  <2>3. delay'[t] = 0 /\ work[thread[q]] + 0 <= work'[thread[q]]
    BY <1>3, <1>5, <2>1
  <2> QED
    BY <1>1, <1>2, <2>1, <2>2, <2>3, FeederKeeps
<1> QED
  BY <1>1, <1>2, <1>4, <1>5, <1>6, <1>7, FeederRest

LEMMA FeederExit ==
  ASSUME FeederInv, NEW t \in Pid, Feeder!Exit(t)
  PROVE  FeederInv'
<1> USE AtopAssumption, FeederAssumption
<1>1. /\ thread[t] # Nobody
      /\ thread' = [u \in Pid |-> IF u = t \/ (t \in leaders /\ thread[u] = thread[t])
                                  THEN Nobody ELSE thread[u]]
      /\ leaders' = leaders \ {t}
      /\ delay' = delay /\ started' = started /\ work' = work
      /\ UNCHANGED <<Feeder!buffers, Feeder!ledger>>
  BY DEF Feeder!Exit
<1>2. Feeder!TypeOK'
  <2>1. \A u \in Pid : thread'[u] \in Instance \cup {Nobody}
    BY <1>1 DEF FeederInv, Feeder!TypeOK
  <2>2. thread' \in [Pid -> Instance \cup {Nobody}]
    BY <1>1, <2>1
  <2> QED
    BY <1>1, <2>2 DEF FeederInv, Feeder!TypeOK, Feeder!buffers, Feeder!ledger
<1>3. \A u \in Pid : thread'[u] # Nobody =>
        thread'[u] = thread[u] /\ u # t /\ ~(t \in leaders /\ thread[u] = thread[t])
  BY <1>1
<1>4. \A q \in leaders \ {t} : thread'[q] = thread[q] /\ thread[q] # Nobody /\ q \in Pid
  BY <1>1 DEF FeederInv, Feeder!TypeOK, Led
<1>5. Led'
  <2>1. ASSUME NEW u \in Pid, thread'[u] # Nobody
        PROVE  thread'[u] \in started' /\ \E q \in leaders' : thread'[q] = thread'[u]
    <3>1. PICK q \in leaders : thread[q] = thread[u] /\ thread[u] \in started
      BY <1>3, <2>1 DEF FeederInv, Led
    <3>2. q # t
      BY <1>3, <2>1, <3>1
    <3> QED
      BY <1>1, <1>3, <1>4, <2>1, <3>1, <3>2
  <2>2. \A q, r \in leaders' : thread'[q] = thread'[r] => q = r
    BY <1>1, <1>4 DEF FeederInv, Led
  <2>3. \A q \in leaders' : thread'[q] # Nobody
    BY <1>1, <1>4
  <2> QED
    BY <2>1, <2>2, <2>3 DEF Led
<1>6. \A j \in Instance : work[j] \in Nat /\ work'[j] = work[j]
  BY <1>1, FeederNumbers
<1>7. \A u \in Pid : thread'[u] # Nobody => delay'[u] <= work'[thread'[u]]
  BY <1>1, <1>3 DEF FeederInv
<1>8. ASSUME NEW q \in leaders' PROVE Runs(q)'
  <2>1. q \in leaders /\ q # t /\ thread'[q] = thread[q] /\ thread[q] # Nobody /\ thread[q] \in Instance
    BY <1>1, <1>4, FeederNumbers
  <2>2. \A u \in Pid : thread'[u] = thread[q] => u # t /\ thread[u] = thread[q] /\ delay'[u] = delay[u]
    BY <1>1, <1>3, <2>1
  <2>3. work[thread[q]] + 0 <= work'[thread[q]]
    BY <1>6, <2>1
  <2> QED
    BY <1>1, <1>2, <2>1, <2>2, <2>3, FeederKeeps
<1> QED
  BY <1>1, <1>2, <1>5, <1>6, <1>7, <1>8, FeederRest

LEMMA FeederWork ==
  ASSUME FeederInv, NEW t \in Pid, Feeder!Work(t)
  PROVE  FeederInv'
<1> USE AtopAssumption, FeederAssumption
<1>1. /\ thread[t] # Nobody /\ work[thread[t]] < MaxWork
      /\ work' = [work EXCEPT ![thread[t]] = @ + 1]
      /\ delay' = [delay EXCEPT ![t] = @ + 1]
      /\ thread' = thread /\ leaders' = leaders /\ started' = started
      /\ UNCHANGED <<Feeder!buffers, Feeder!ledger>>
  BY DEF Feeder!Work
<1>2. PICK i \in Instance : i = thread[t]
  BY <1>1 DEF FeederInv, Feeder!TypeOK
<1>3. /\ \A j \in Instance : work[j] \in 0..MaxWork
                          /\ work'[j] = (IF j = i THEN work[j] + 1 ELSE work[j])
      /\ \A u \in Pid : delay[u] \in 0..MaxWork
                     /\ delay'[u] = (IF u = t THEN delay[u] + 1 ELSE delay[u])
      /\ work[i] < MaxWork /\ delay[t] <= work[i]
  BY <1>1, <1>2 DEF FeederInv, Feeder!TypeOK
<1>4. work' \in [Instance -> 0..MaxWork] /\ delay' \in [Pid -> 0..MaxWork]
  <2>1. \A j \in Instance : work'[j] \in 0..MaxWork
    BY <1>3
  <2>2. \A u \in Pid : delay'[u] \in 0..MaxWork
    BY <1>3
  <2> QED
    BY <1>1, <2>1, <2>2 DEF FeederInv, Feeder!TypeOK
<1>5. Feeder!TypeOK' /\ Led'
  BY <1>1, <1>4 DEF FeederInv, Feeder!TypeOK, Led, Feeder!buffers, Feeder!ledger
<1>6. \A j \in Instance : work[j] <= work'[j]
  BY <1>3
<1>7. \A u \in Pid : thread'[u] # Nobody => delay'[u] <= work'[thread'[u]]
  <2>1. \A u \in Pid : thread[u] # Nobody => thread[u] \in Instance /\ delay[u] <= work[thread[u]]
    BY DEF FeederInv, Feeder!TypeOK
  <2> QED
    BY <1>1, <1>2, <1>3, <2>1
<1>8. ASSUME NEW q \in leaders PROVE Runs(q)'
  <2>1. q \in Pid /\ thread'[q] = thread[q] /\ thread[q] \in Instance
    BY <1>1, FeederNumbers
  <2>2. PICK n \in {0, 1} : n = IF thread[q] = i THEN 1 ELSE 0
    OBVIOUS
  <2>3. \A u \in Pid \ {t} : thread'[u] = thread[q] => thread[u] = thread[q] /\ delay'[u] = delay[u]
    BY <1>1, <1>3
  <2>4. thread'[t] = thread[q] =>
          thread[t] = thread[q] /\ delay[t] <= delay'[t] /\ delay'[t] <= delay[t] + n
    BY <1>1, <1>2, <1>3, <2>2
  <2>5. work[thread[q]] + n <= work'[thread[q]]
    BY <1>3, <2>1, <2>2
  <2> QED
    BY <1>1, <1>5, <2>1, <2>3, <2>4, <2>5, FeederKeeps
<1> QED
  BY <1>1, <1>5, <1>6, <1>7, <1>8, FeederRest

\* What a process that runs has gained completes what was counted of it.
LEMMA FeederGain ==
  ASSUME FeederInv, NEW p \in leaders, NEW read \in BOOLEAN
  PROVE  LET gain == Feeder!GainOf(p, read)
             i    == thread[p]
         IN  /\ \A m \in Feeder!Metrics : gain[m] \in Nat
             /\ Feeder!Counted(i, "cpu") + gain["cpu"] = work[i] - base[i]
             /\ Feeder!Counted(i, "wait") + gain["wait"] <= work[i]
             /\ i \notin unreadable /\ read
                => Feeder!Counted(i, "disk") + gain["disk"] = work[i] - base[i]
<1> USE AtopAssumption, FeederAssumption
<1> DEFINE gain == Feeder!GainOf(p, read)
<1>1. PICK i \in Instance : i = thread[p] /\ p \in Pid
  BY FeederNumbers
<1>2. PICK q : q = IF Feeder!Known(p, i) THEN prevProcs[p] ELSE Feeder!NotThere
  OBVIOUS
<1>3. /\ gain["cpu"] = Feeder!Minus(work[i], q.total) /\ gain["wait"] = Feeder!Waited(p)
      /\ gain["disk"] = IF read THEN Feeder!Minus(work[i], IF q.io THEN q.total ELSE 0) ELSE 0
  BY <1>1, <1>2 DEF Feeder!GainOf, Feeder!ReadProc
<1>4. /\ Feeder!Counted(i, "cpu") \in Nat /\ Feeder!Counted(i, "wait") \in Nat
      /\ Feeder!Counted(i, "disk") \in Nat /\ work[i] \in 0..MaxWork /\ base[i] \in 0..MaxWork
  BY <1>1, FeederNumbers DEF Feeder!Metrics
<1>5. Unread(i) \/ Feeder!Known(p, i)
  BY <1>1 DEF FeederInv, Runs
<1>6. CASE Feeder!Known(p, i)
  <2>1. q = prevProcs[p] /\ q # Feeder!NotThere /\ q.start = i /\ q.total \in 0..MaxWork
        /\ q.io \in BOOLEAN
    BY <1>1, <1>2, <1>6, FeederNumbers DEF Feeder!Known
  <2>2. /\ q.total <= work[i] /\ base[i] <= q.total
        /\ Feeder!Counted(i, "cpu") = q.total - base[i]
        /\ i \notin unreadable => q.io /\ Feeder!Counted(i, "disk") = q.total - base[i]
    BY <1>1, <2>1 DEF FeederInv, UpTo
  <2>3. Feeder!Minus(work[i], q.total) = work[i] - q.total
    BY <1>4, <2>1, <2>2, FeederMinus
  <2>4. Feeder!Minus(work[i], IF q.io THEN q.total ELSE 0) \in Nat
    <3>1. PICK b \in 0..MaxWork : b = IF q.io THEN q.total ELSE 0
      BY <2>1
    <3> QED
      BY <1>4, <3>1, FeederMinus
  <2>5. gain["cpu"] = work[i] - q.total /\ gain["cpu"] \in Nat /\ gain["disk"] \in Nat
    BY <1>3, <1>4, <2>1, <2>2, <2>3, <2>4
  <2>6. Feeder!Counted(i, "cpu") + gain["cpu"] = work[i] - base[i]
    BY <1>4, <2>1, <2>2, <2>5
  <2>7. i \notin unreadable /\ read => Feeder!Counted(i, "disk") + gain["disk"] = work[i] - base[i]
    BY <1>3, <1>4, <2>1, <2>2, <2>3
  <2>8. gain["wait"] \in Nat /\ Feeder!Counted(i, "wait") + gain["wait"] <= work[i]
    BY <1>1, <1>3, FeederWaits DEF FeederInv, Runs
  <2> HIDE DEF gain
  <2>9. \A m \in Feeder!Metrics : gain[m] \in Nat
    BY <2>5, <2>8 DEF Feeder!Metrics
  <2> QED
    BY <1>1, <2>6, <2>7, <2>8, <2>9 DEF gain
<1>7. CASE ~Feeder!Known(p, i)
  <2>1. q.total = 0 /\ q.io = FALSE
    BY <1>2, <1>7 DEF Feeder!NotThere
  <2>2. base[i] = 0 /\ i \notin unreadable /\ Feeder!Counted(i, "cpu") = 0 /\ Feeder!Counted(i, "disk") = 0
    BY <1>5, <1>7 DEF Unread, Feeder!Metrics
  <2>3. 0 \in 0..MaxWork
    OBVIOUS
  <2>4. Feeder!Minus(work[i], 0) = work[i]
    BY <1>4, <2>3, FeederMinus
  <2>5. gain["cpu"] = work[i] /\ (gain["disk"] = IF read THEN work[i] ELSE 0)
    BY <1>3, <2>1, <2>4
  <2>6. gain["wait"] \in Nat /\ Feeder!Counted(i, "wait") + gain["wait"] <= work[i]
    BY <1>1, <1>3, FeederWaits DEF FeederInv, Runs
  <2> HIDE DEF gain
  <2>7. \A m \in Feeder!Metrics : gain[m] \in Nat
    BY <1>4, <2>5, <2>6 DEF Feeder!Metrics
  <2> QED
    BY <1>1, <1>4, <2>2, <2>5, <2>6, <2>7 DEF gain
<1> QED
  BY <1>6, <1>7

\* The gains of the leaders in P that are of process i, and the leaders whose gain is stored.
GainedBy(i, m, P, failing) ==
  Feeder!SumFunction([p \in {q \in P : thread[q] = i} |-> Feeder!GainOf(p, p \notin failing)[m]])
Accepted(m, failing, refused) ==
  {p \in leaders \ refused : Feeder!IsSent(Feeder!GainOf(p, p \notin failing), m)}

LEMMA FeederAdds ==
  ASSUME FeederInv, NEW P \in SUBSET leaders, NEW failing, NEW i \in Instance, NEW m \in Feeder!Metrics
  PROVE  /\ \A p \in P : thread[p] = i => GainedBy(i, m, P, failing) = Feeder!GainOf(p, p \notin failing)[m]
         /\ (\A p \in P : thread[p] # i) => GainedBy(i, m, P, failing) = 0
<1>1. PICK T : T = {q \in P : thread[q] = i}
  OBVIOUS
<1>2. PICK g : g = [p \in T |-> Feeder!GainOf(p, p \notin failing)[m]]
  OBVIOUS
<1>3. GainedBy(i, m, P, failing) = Feeder!SumFunction(g)
  BY <1>1, <1>2 DEF GainedBy
<1>4. ASSUME NEW p \in P, thread[p] = i
      PROVE  GainedBy(i, m, P, failing) = Feeder!GainOf(p, p \notin failing)[m]
  <2>1. T = {p}
    BY <1>1, <1>4 DEF FeederInv, Led
  <2>2. g[p] = Feeder!GainOf(p, p \notin failing)[m]
    BY <1>2, <2>1
  <2>3. Feeder!GainOf(p, p \notin failing)[m] \in Nat
    <3>1. PICK read \in BOOLEAN : read = (p \notin failing)
      OBVIOUS
    <3>2. Feeder!GainOf(p, read)[m] \in Nat
      BY FeederGain
    <3> QED
      BY <3>1, <3>2
  <2>4. g \in [{p} -> Nat]
    BY <1>2, <2>1, <2>2, <2>3
  <2> QED
    BY <1>3, <2>2, <2>4, SumOfOne
<1>5. ASSUME \A p \in P : thread[p] # i PROVE GainedBy(i, m, P, failing) = 0
  <2>1. T = {}
    BY <1>1, <1>5
  <2>2. IsFiniteSet(T)
    BY <2>1, FS_EmptySet
  <2>3. g \in [T -> Nat] /\ \A p \in T : g[p] = 0
    BY <1>2, <2>1
  <2> QED
    BY <1>3, <2>2, <2>3, SumNothing
<1> QED
  BY <1>4, <1>5

\* After a sample no thread would add to the waiting of its process.
LEMMA FeederSampled ==
  ASSUME FeederInv, NEW p \in leaders, thread' = thread, delay' = delay,
         prevThreads' = [t \in Pid |-> IF thread[t] = Nobody THEN Feeder!NoThread ELSE delay[t]],
         Feeder!Known(p, thread[p])'
  PROVE  Feeder!Waited(p)' = 0
<1> USE AtopAssumption, FeederAssumption
<1>1. PICK T : T = {u \in Pid : thread'[u] = thread'[p]}
  OBVIOUS
<1>2. PICK f : f = [t \in T |-> Feeder!DelayGain(t, Feeder!Known(p, thread[p]))']
  OBVIOUS
<1>3. Feeder!Waited(p)' = Feeder!SumFunction(f)
  BY <1>1, <1>2 DEF Feeder!Waited
<1>4. \A t \in T : t \in Pid /\ thread[t] # Nobody
  BY <1>1, FeederNumbers
<1>5. ASSUME NEW t \in T PROVE f[t] = 0
  <2>1. prevThreads'[t] = delay[t] /\ delay'[t] = delay[t] /\ delay[t] \in 0..MaxWork
    BY <1>4, FeederNumbers
  <2>2. f[t] = Feeder!DelayGain(t, Feeder!Known(p, thread[p]))'
    BY <1>2
  <2>3. Feeder!DelayGain(t, Feeder!Known(p, thread[p]))' = 0
    BY <2>1 DEF Feeder!DelayGain, Feeder!NoThread
  <2> QED
    BY <2>2, <2>3
<1>6. IsFiniteSet(T)
  <2>1. T \in SUBSET Pid
    BY <1>1
  <2> QED
    BY <2>1, FS_Subset
<1>7. f \in [T -> Nat]
  <2>1. \A t \in T : f[t] \in Nat
    BY <1>5
  <2> QED
    BY <1>2, <2>1
<1> QED
  BY <1>3, <1>5, <1>6, <1>7, SumNothing

LEMMA FeederSample ==
  ASSUME FeederInv, Feeder!SampleProcs
  PROVE  FeederInv'
<1> USE AtopAssumption, FeederAssumption
<1>1. PICK failing \in SUBSET leaders, refused \in SUBSET leaders :
        /\ failures' \in 0..MaxFailures
        /\ unreadable' = unreadable \cup {thread[p] : p \in failing}
        /\ prevProcs' = [p \in Pid |-> IF p \in leaders THEN Feeder!ReadProc(p, p \notin failing)
                                       ELSE Feeder!NotThere]
        /\ first => /\ base' = [i \in Instance |-> IF \E p \in leaders : thread[p] = i
                                                   THEN work[i] ELSE 0]
                    /\ stored' = stored /\ dropped' = dropped
        /\ ~first => /\ stored' = [i \in Instance |-> [m \in Feeder!Metrics |->
                            stored[i][m] + GainedBy(i, m, Accepted(m, failing, refused), failing)]]
                     /\ dropped' = [i \in Instance |-> [m \in Feeder!Metrics |->
                            dropped[i][m]
                              + GainedBy(i, m, leaders \ Accepted(m, failing, refused), failing)]]
                     /\ base' = base
  <2>1. PICK failing \in SUBSET leaders, refused \in SUBSET leaders :
        /\ Feeder!Fail(failing, refused)
        /\ prevProcs' = [p \in Pid |-> IF p \in leaders THEN Feeder!ReadProc(p, p \notin failing)
                                       ELSE Feeder!NotThere]
        /\ IF first
           THEN /\ base' = [i \in Instance |-> IF \E p \in leaders : thread[p] = i
                                               THEN work[i] ELSE 0]
                /\ refused = {} /\ UNCHANGED <<stored, dropped>>
           ELSE /\ stored' = [i \in Instance |-> [m \in Feeder!Metrics |->
                       stored[i][m] + GainedBy(i, m, Accepted(m, failing, refused), failing)]]
                /\ dropped' = [i \in Instance |-> [m \in Feeder!Metrics |->
                       dropped[i][m]
                         + GainedBy(i, m, leaders \ Accepted(m, failing, refused), failing)]]
                /\ base' = base
    BY DEF Feeder!SampleProcs, GainedBy, Accepted
  <2>2. failures \in 0..MaxFailures
    BY DEF FeederInv, Feeder!TypeOK
  <2>3. failures' \in 0..MaxFailures /\ unreadable' = unreadable \cup {thread[p] : p \in failing}
    <3>1. failures + 1 <= MaxFailures \/ ~(failures < MaxFailures)
      BY <2>2
    <3> QED
      BY <2>1, <2>2, <3>1 DEF Feeder!Fail
  <2> QED
    BY <2>1, <2>3
<1>2. /\ prevThreads' = [t \in Pid |-> IF thread[t] = Nobody THEN Feeder!NoThread ELSE delay[t]]
      /\ first' = FALSE
      /\ thread' = thread /\ leaders' = leaders /\ started' = started
      /\ work' = work /\ delay' = delay
  BY DEF Feeder!SampleProcs, Feeder!kernel
<1>3. ASSUME NEW p \in leaders
      PROVE  /\ p \in Pid /\ thread[p] \in Instance /\ thread[p] \in started
             /\ prevProcs'[p] # Feeder!NotThere /\ prevProcs'[p].start = thread[p]
             /\ prevProcs'[p].total = work[thread[p]] /\ prevProcs'[p].io = (p \notin failing)
             /\ work[thread[p]] \in 0..MaxWork
  <2>1. p \in Pid /\ thread[p] \in Instance
    BY FeederNumbers
  <2>2. prevProcs'[p] = [start |-> thread[p], total |-> work[thread[p]], io |-> p \notin failing]
    BY <1>1, <2>1 DEF Feeder!ReadProc
  <2>3. prevProcs'[p].start # Feeder!NotThere.start
    BY <2>1, <2>2 DEF Feeder!NotThere
  <2>4. thread[p] \in started
    BY <2>1 DEF FeederInv, Led
  <2>5. prevProcs'[p] # Feeder!NotThere
    BY <2>3
  <2> QED
    BY <2>1, <2>2, <2>4, <2>5, FeederNumbers
<1>4. \A p \in leaders : Feeder!Known(p, thread[p])'
  BY <1>2, <1>3 DEF Feeder!Known, Feeder!NotThere
<1>5. \A p \in leaders : Feeder!Waited(p)' = 0
  BY <1>2, <1>4, FeederSampled
<1>6. ASSUME NEW i \in Instance, NEW m \in Feeder!Metrics
      PROVE  /\ stored'[i][m] \in Nat /\ dropped'[i][m] \in Nat
             /\ (first \/ \A p \in leaders : thread[p] # i) =>
                  Feeder!Counted(i, m)' = Feeder!Counted(i, m)
             /\ ~first => \A p \in leaders : thread[p] = i =>
                  Feeder!Counted(i, m)' = Feeder!Counted(i, m) + Feeder!GainOf(p, p \notin failing)[m]
  <2>1. stored[i][m] \in Nat /\ dropped[i][m] \in Nat
    BY FeederNumbers
  <2>2. CASE first
    BY <1>1, <2>1, <2>2 DEF Feeder!Counted
  <2>3. CASE ~first
    <3>1. PICK P \in SUBSET leaders : P = Accepted(m, failing, refused)
      BY DEF Accepted
    <3>2. PICK a, d : a = GainedBy(i, m, P, failing) /\ d = GainedBy(i, m, leaders \ P, failing)
      OBVIOUS
    <3>3. stored'[i][m] = stored[i][m] + a /\ dropped'[i][m] = dropped[i][m] + d
      BY <1>1, <2>3, <3>1, <3>2
    <3>4. PICK R \in SUBSET leaders : R = leaders \ P
      OBVIOUS
    <3>5. /\ \A p \in P : thread[p] = i => a = Feeder!GainOf(p, p \notin failing)[m]
          /\ (\A p \in P : thread[p] # i) => a = 0
      BY <3>2, FeederAdds
    <3>6. /\ \A p \in R : thread[p] = i => d = Feeder!GainOf(p, p \notin failing)[m]
          /\ (\A p \in R : thread[p] # i) => d = 0
      <4>1. d = GainedBy(i, m, R, failing)
        BY <3>2, <3>4
      <4> QED
        BY <4>1, FeederAdds
    <3>7. CASE \A p \in leaders : thread[p] # i
      <4>1. a = 0 /\ d = 0
        BY <3>4, <3>5, <3>6, <3>7
      <4> QED
        BY <2>1, <2>3, <3>3, <3>7, <4>1 DEF Feeder!Counted
    <3>8. CASE \E p \in leaders : thread[p] = i
      <4>1. PICK p \in leaders : thread[p] = i /\ \A q \in leaders : thread[q] = i => q = p
        BY <3>8 DEF FeederInv, Led
      <4>2. PICK g \in Nat : g = Feeder!GainOf(p, p \notin failing)[m]
        <5>1. PICK read \in BOOLEAN : read = (p \notin failing)
          OBVIOUS
        <5>2. Feeder!GainOf(p, read)[m] \in Nat
          BY FeederGain
        <5> QED
          BY <5>1, <5>2
      <4>3. (a = g /\ d = 0) \/ (a = 0 /\ d = g)
        BY <3>4, <3>5, <3>6, <4>1, <4>2
      <4>4. stored'[i][m] \in Nat /\ dropped'[i][m] \in Nat
            /\ stored'[i][m] + dropped'[i][m] = stored[i][m] + dropped[i][m] + g
        BY <2>1, <3>3, <4>3
      <4>5. Feeder!Counted(i, m)' = Feeder!Counted(i, m) + g
        BY <4>4 DEF Feeder!Counted
      <4>6. \A q \in leaders : thread[q] = i =>
              Feeder!Counted(i, m)' = Feeder!Counted(i, m) + Feeder!GainOf(q, q \notin failing)[m]
        BY <4>1, <4>2, <4>5
      <4> QED
        BY <2>3, <4>1, <4>4, <4>6
    <3> QED
      BY <3>7, <3>8
  <2> QED
    BY <2>2, <2>3
<1>7. ASSUME NEW i \in Instance
      PROVE  /\ work'[i] = work[i] /\ work[i] \in 0..MaxWork /\ base'[i] \in 0..MaxWork
             /\ (\A p \in leaders : thread[p] # i) =>
                  base'[i] = base[i] /\ (i \in unreadable' <=> i \in unreadable)
  <2>1. work[i] \in 0..MaxWork /\ base[i] \in 0..MaxWork
    BY FeederNumbers
  <2>2. first => base[i] = 0
    BY DEF FeederInv, Unread
  <2>3. (\A p \in leaders : thread[p] # i) => (i \in unreadable' <=> i \in unreadable)
    BY <1>1
  <2> QED
    BY <1>1, <1>2, <2>1, <2>2, <2>3
<1>8. \A i \in Instance : (\A p \in leaders : thread[p] # i) =>
        \A m \in Feeder!Metrics : Feeder!Counted(i, m)' = Feeder!Counted(i, m)
  BY <1>6
\* A process that runs is counted up to this sample.
<1>9. ASSUME NEW p \in leaders, NEW i \in Instance, i = thread[p]
      PROVE  /\ base'[i] <= work[i]
             /\ Feeder!Counted(i, "cpu")' = work[i] - base'[i]
             /\ Feeder!Counted(i, "wait")' <= work[i]
             /\ i \notin unreadable' =>
                  p \notin failing /\ Feeder!Counted(i, "disk")' = work[i] - base'[i]
  <2>1. i = thread[p]
    BY <1>9
  <2>2. i \notin unreadable' => i \notin unreadable /\ p \notin failing
    BY <1>1, <2>1
  <2>3. work[i] \in 0..MaxWork /\ base[i] \in 0..MaxWork
    BY FeederNumbers
  <2>4. CASE first
    <3>1. Unread(i) /\ base'[i] = work[i]
      BY <1>1, <2>1, <2>4 DEF FeederInv
    <3>2. \A m \in Feeder!Metrics : Feeder!Counted(i, m)' = 0
      BY <1>6, <2>4, <3>1 DEF Unread
    <3>3. /\ Feeder!Counted(i, "cpu")' = 0 /\ Feeder!Counted(i, "wait")' = 0
          /\ Feeder!Counted(i, "disk")' = 0
      BY <3>2 DEF Feeder!Metrics
    <3> QED
      BY <2>1, <2>2, <2>3, <3>1, <3>3
  <2>5. CASE ~first
    <3>1. PICK read \in BOOLEAN : read = (p \notin failing)
      OBVIOUS
    <3>2. PICK gain : gain = Feeder!GainOf(p, read)
      OBVIOUS
    <3>3. /\ \A m \in Feeder!Metrics : gain[m] \in Nat
          /\ Feeder!Counted(i, "cpu") + gain["cpu"] = work[i] - base[i]
          /\ Feeder!Counted(i, "wait") + gain["wait"] <= work[i]
          /\ i \notin unreadable /\ read
             => Feeder!Counted(i, "disk") + gain["disk"] = work[i] - base[i]
      BY <2>1, <3>2, FeederGain
    <3>4. \A m \in Feeder!Metrics : Feeder!Counted(i, m)' = Feeder!Counted(i, m) + gain[m]
      BY <1>6, <2>1, <2>5, <3>1, <3>2
    <3>5. /\ Feeder!Counted(i, "cpu")' = Feeder!Counted(i, "cpu") + gain["cpu"]
          /\ Feeder!Counted(i, "wait")' = Feeder!Counted(i, "wait") + gain["wait"]
          /\ Feeder!Counted(i, "disk")' = Feeder!Counted(i, "disk") + gain["disk"]
      BY <3>4 DEF Feeder!Metrics
    <3>6. Feeder!Counted(i, "cpu") \in Nat /\ gain["cpu"] \in Nat
      BY <3>3, FeederNumbers DEF Feeder!Metrics
    <3>7. base[i] <= work[i] /\ base'[i] = base[i]
      BY <1>1, <2>3, <2>5, <3>3, <3>6
    <3> QED
      BY <2>1, <2>2, <3>1, <3>3, <3>5, <3>7
  <2> QED
    BY <2>4, <2>5
<1>10. Feeder!TypeOK'
  <2>1. prevProcs' \in [Pid -> Feeder!Sampled \cup {Feeder!NotThere}]
    <3>1. \A p \in leaders : Feeder!ReadProc(p, p \notin failing) \in Feeder!Sampled
      BY <1>3 DEF Feeder!ReadProc, Feeder!Sampled
    <3> QED
      BY <1>1, <3>1
  <2>2. prevThreads' \in [Pid -> 0..Feeder!NoThread]
    <3>1. \A t \in Pid : (IF thread[t] = Nobody THEN Feeder!NoThread ELSE delay[t]) \in 0..Feeder!NoThread
      BY FeederNumbers DEF Feeder!NoThread
    <3> QED
      BY <1>2, <3>1
  <2>3. stored' \in [Instance -> [Feeder!Metrics -> Nat]] /\ dropped' \in [Instance -> [Feeder!Metrics -> Nat]]
    <3>1. CASE first
      BY <1>1, <3>1 DEF FeederInv, Feeder!TypeOK
    <3>2. CASE ~first
      <4>1. \A i \in Instance, m \in Feeder!Metrics :
              /\ stored[i][m] + GainedBy(i, m, Accepted(m, failing, refused), failing) \in Nat
              /\ dropped[i][m] + GainedBy(i, m, leaders \ Accepted(m, failing, refused), failing) \in Nat
        BY <1>1, <1>6, <3>2
      <4>2. \A i \in Instance :
              /\ [m \in Feeder!Metrics |->
                    stored[i][m] + GainedBy(i, m, Accepted(m, failing, refused), failing)]
                 \in [Feeder!Metrics -> Nat]
              /\ [m \in Feeder!Metrics |->
                    dropped[i][m] + GainedBy(i, m, leaders \ Accepted(m, failing, refused), failing)]
                 \in [Feeder!Metrics -> Nat]
        BY <4>1
      <4>3. stored' \in [Instance -> [Feeder!Metrics -> Nat]]
        BY <1>1, <3>2, <4>2
      <4>4. dropped' \in [Instance -> [Feeder!Metrics -> Nat]]
        BY <1>1, <3>2, <4>2
      <4> QED
        BY <4>3, <4>4
    <3> QED
      BY <3>1, <3>2
  <2>4. base' \in [Instance -> 0..MaxWork]
    <3>1. \A i \in Instance : base'[i] \in 0..MaxWork
      BY <1>7
    <3>2. CASE first
      <4>1. \A i \in Instance : (IF \E p \in leaders : thread[p] = i THEN work[i] ELSE 0) \in 0..MaxWork
        BY <1>7
      <4> QED
        BY <1>1, <3>2, <4>1
    <3>3. CASE ~first
      BY <1>1, <3>3 DEF FeederInv, Feeder!TypeOK
    <3> QED
      BY <3>2, <3>3
  <2>5. unreadable' \subseteq Instance
    <3>1. \A p \in failing : thread[p] \in Instance
      BY <1>3
    <3> QED
      BY <1>1, <3>1 DEF FeederInv, Feeder!TypeOK
  <2> QED
    BY <1>1, <1>2, <2>1, <2>2, <2>3, <2>4, <2>5 DEF FeederInv, Feeder!TypeOK
<1>11. Led'
  BY <1>2 DEF FeederInv, Led
<1>12. ASSUME NEW p \in Pid PROVE UpTo(p)'
  <2>1. CASE p \in leaders
    <3>1. PICK q : q = prevProcs'[p]
      OBVIOUS
    <3>2. q.start = thread[p] /\ q.total = work[thread[p]] /\ q.io = (p \notin failing)
          /\ thread[p] \in Instance
      BY <1>3, <2>1, <3>1
    <3>3. work'[thread[p]] = work[thread[p]] /\ work[thread[p]] \in Nat
      BY <1>7, <3>2
    <3>4. PICK i \in Instance : i = thread[p]
      BY <3>2
    <3>5. /\ base'[i] <= work[i]
          /\ Feeder!Counted(i, "cpu")' = work[i] - base'[i]
          /\ i \notin unreadable' =>
               p \notin failing /\ Feeder!Counted(i, "disk")' = work[i] - base'[i]
      BY <1>9, <2>1, <3>4
    <3>6. q.total = work[i] /\ q.start = i /\ q.total <= work'[i]
      BY <3>2, <3>3, <3>4
    <3>7. q.io = (p \notin failing)
      BY <3>2
    <3>8. /\ q.start = i /\ q.total <= work'[i] /\ base'[i] <= q.total
          /\ Feeder!Counted(i, "cpu")' = q.total - base'[i]
          /\ i \notin unreadable' =>
               q.io /\ Feeder!Counted(i, "disk")' = q.total - base'[i]
      BY <3>5, <3>6, <3>7, Zenon
    <3> QED
      BY <3>1, <3>8 DEF UpTo, Feeder!Counted
  <2>2. CASE p \notin leaders
    <3>1. prevProcs'[p] = Feeder!NotThere
      BY <1>1, <2>2
    <3> QED
      BY <3>1 DEF UpTo, Feeder!NotThere
  <2> QED
    BY <2>1, <2>2
<1>13. ASSUME NEW p \in leaders' PROVE Runs(p)'
  <2>1. p \in leaders /\ thread'[p] = thread[p] /\ thread[p] \in Instance
    BY <1>2, <1>3
  <2>2. PICK i \in Instance : i = thread[p]
    BY <2>1
  <2>3. Feeder!Counted(i, "wait")' \in Nat
    <3>1. stored'[i]["wait"] \in Nat /\ dropped'[i]["wait"] \in Nat
      BY <1>6 DEF Feeder!Metrics
    <3> QED
      BY <3>1 DEF Feeder!Counted
  <2>4. Feeder!Counted(i, "wait")' + Feeder!Waited(p)' <= work'[i]
    BY <1>5, <1>7, <1>9, <2>1, <2>2, <2>3
  <2>5. Feeder!Counted(thread[p], "wait")' + Feeder!Waited(p)' <= work'[thread'[p]]
    BY <2>1, <2>2, <2>4 DEF Feeder!Counted
  <2> QED
    BY <1>4, <2>1, <2>5 DEF Runs
<1>14. ASSUME NEW i \in Instance PROVE Done(i)'
  <2>1. CASE \A p \in leaders : thread[p] # i
    <3>1. \A m \in Feeder!Metrics : Feeder!Counted(i, m)' = Feeder!Counted(i, m)
      BY <1>8, <2>1
    <3>2. /\ Feeder!Counted(i, "cpu")' = Feeder!Counted(i, "cpu")
          /\ Feeder!Counted(i, "wait")' = Feeder!Counted(i, "wait")
          /\ Feeder!Counted(i, "disk")' = Feeder!Counted(i, "disk")
      BY <3>1 DEF Feeder!Metrics
    <3>3. base'[i] = base[i] /\ (i \in unreadable' <=> i \in unreadable) /\ work'[i] = work[i]
      BY <1>7, <2>1
    <3>4. Unread(i) => Unread(i)'
      BY <3>1, <3>3 DEF Unread, Feeder!Metrics
    <3>5. Done(i)
      BY DEF FeederInv
    <3> QED
      BY <1>2, <3>2, <3>3, <3>4, <3>5 DEF Done
  <2>2. CASE \E p \in leaders : thread[p] = i
    <3>1. PICK p \in leaders : thread[p] = i
      BY <2>2
    <3>2. work[i] \in Nat /\ work'[i] = work[i] /\ base'[i] \in Nat /\ i \in started'
      BY <1>2, <1>3, <1>7, <3>1
    <3>3. /\ Feeder!Counted(i, "cpu")' <= work'[i] /\ Feeder!Counted(i, "wait")' <= work'[i]
          /\ i \notin unreadable' => Feeder!Counted(i, "disk")' <= work'[i]
      BY <1>9, <3>1, <3>2
    <3> QED
      BY <3>2, <3>3 DEF Done
  <2> QED
    BY <2>1, <2>2
<1>15. \A t \in Pid : thread'[t] # Nobody => delay'[t] <= work'[thread'[t]]
  BY <1>2 DEF FeederInv
<1> QED
  BY <1>2, <1>10, <1>11, <1>12, <1>13, <1>14, <1>15 DEF FeederInv

LEMMA FeederStep == FeederInv /\ Feeder!Next => FeederInv'
BY FeederStart, FeederNewThread, FeederExit, FeederWork, FeederSample DEF Feeder!Next

LEMMA FeederStay == FeederInv /\ UNCHANGED feeder => FeederInv'
<1> SUFFICES ASSUME FeederInv, UNCHANGED feeder PROVE FeederInv'
  OBVIOUS
<1>1. thread' = thread /\ leaders' = leaders /\ started' = started /\ work' = work /\ delay' = delay
      /\ UNCHANGED <<Feeder!buffers, Feeder!ledger>>
  BY DEF feeder, Feeder!buffers, Feeder!ledger
<1>2. Feeder!TypeOK' /\ Led'
  BY DEF feeder, FeederInv, Feeder!TypeOK, Led
<1>3. \A i \in Instance : work[i] \in Nat /\ work'[i] = work[i]
  BY <1>1, FeederNumbers, FeederAssumption
<1>4. ASSUME NEW p \in leaders' PROVE Runs(p)'
  <2>1. p \in leaders /\ p \in Pid /\ thread[p] \in Instance
    BY <1>1, FeederNumbers
  <2>2. \A t \in Pid : thread'[t] = thread[t] /\ delay'[t] = delay[t] /\ delay[t] \in Nat
    BY <1>1, FeederNumbers, FeederAssumption
  <2>3. PICK n \in {0, 1} : n = 0
    OBVIOUS
  <2>4. /\ \A t \in Pid \ {p} : thread'[t] = thread[p] => thread[t] = thread[p] /\ delay'[t] = delay[t]
        /\ thread[p] = thread[p] /\ delay[p] <= delay'[p] /\ delay'[p] <= delay[p] + n
        /\ work[thread[p]] + n <= work'[thread[p]]
    BY <1>3, <2>1, <2>2, <2>3
  <2> QED
    BY <1>1, <1>2, <2>1, <2>2, <2>4, FeederKeeps
<1>5. \A t \in Pid : thread'[t] # Nobody => delay'[t] <= work'[thread'[t]]
  BY <1>1 DEF FeederInv
<1> QED
  BY <1>1, <1>2, <1>3, <1>4, <1>5, FeederRest

-----------------------------------------------------------------------------
(* The sizes *)

LEMMA Quotients ==
  ASSUME NEW x \in Int, NEW d \in Nat \ {0}
  PROVE  /\ Size!Truncated(x, d) \in Int
         /\ Size!Truncated(x, d) > 0 => x > 0 /\ Size!Truncated(x, d) <= x
<1>1. CASE x < 0
  <2>1. PICK k \in Nat : k = (-x) \div d
    BY <1>1
  <2>2. Size!Truncated(x, d) = -k
    BY <1>1, <2>1 DEF Size!Truncated
  <2> QED
    BY <2>1, <2>2
<1>2. CASE x >= 0
  <2>1. PICK k \in Nat : k = x \div d
    BY <1>2
  <2>2. PICK m \in Nat : x = d * k + m
    BY <1>2, <2>1
  <2>3. d * k >= k
    BY <2>1
  <2>4. Size!Truncated(x, d) = k
    BY <1>2, <2>1 DEF Size!Truncated
  <2> QED
    BY <2>1, <2>2, <2>3, <2>4
<1> QED
  BY <1>1, <1>2

\* A configuration of Hadoop that set_hadoop_resources accepts fits in its container, and a
\* task and the master of the application fit under the maximum of the scheduler, whatever
\* the container has.
THEOREM HadoopAlwaysFits ==
  ASSUME NEW q, q.cpuMax \in Nat, q.cpuMin \in Nat, q.mem \in Nat, q.workers \in Nat,
         q.virtual \in BOOLEAN,
         ~Size!HadoopResources(q).raised
  PROVE  LET v == Size!HadoopResources(q).values IN
           /\ v.nodemanager_memory + v.heaps <= q.mem
           /\ v.map_memory <= v.scheduler_maximum_memory
           /\ v.mapreduce_am_memory <= v.scheduler_maximum_memory
           /\ v.scheduler_minimum_memory <= v.scheduler_maximum_memory
<1> DEFINE
      heap == IF q.virtual THEN 128 ELSE 1024
      cores == Size!HadoopCores(q)
      appMaster == heap + 384
      available == (q.mem * 95) \div 100
      nodeManager == available - 2 * heap
      task == Size!Truncated(nodeManager - appMaster, cores)
      low == available * q.workers < 2 * task + appMaster
      two == Size!Truncated(2 * nodeManager, 7)
      three == Size!Truncated(3 * nodeManager, 7)
      map == IF low THEN two ELSE task
      values == [vcores |-> cores, min_vcores |-> Size!AtLeastOne(q.cpuMin \div 100),
                 heaps |-> 2 * heap, nodemanager_memory |-> nodeManager,
                 scheduler_maximum_memory |-> nodeManager,
                 scheduler_minimum_memory |-> IF low THEN two ELSE 256,
                 map_memory |-> map, map_memory_java_opts |-> Size!Truncated(9 * map, 10),
                 mapreduce_am_memory |-> IF low THEN three ELSE appMaster]
<1>1. /\ cores # 0 /\ Size!HadoopResources(q).values = values
      /\ \A f \in DOMAIN values : ~(values[f] <= 0)
  <2>1. /\ Size!HadoopCores(q) # 0 /\ Size!HadoopResources(q).values = Size!HadoopValues(q)
        /\ \A f \in DOMAIN Size!HadoopValues(q) : ~(Size!HadoopValues(q)[f] <= 0)
    BY DEF Size!HadoopResources
  <2>2. Size!HadoopValues(q) = values
    BY Zenon DEF Size!HadoopValues
  <2> HIDE DEF values
  <2> QED
    BY <2>1, <2>2
<1>2. heap \in {128, 1024} /\ appMaster = heap + 384
  OBVIOUS
<1>3. cores \in Nat
  <2>1. PICK n \in Nat : n = Size!AtLeastOne(q.cpuMax \div 100)
    <3>1. q.cpuMax \div 100 \in Nat
      OBVIOUS
    <3> QED
      BY <3>1, SMTT(30) DEF Size!AtLeastOne
  <2>2. n \div 2 \in Nat
    BY <2>1
  <2> QED
    BY <2>1, <2>2 DEF Size!HadoopCores
<1>4. available \in Nat /\ available <= q.mem /\ nodeManager = available - 2 * heap
  OBVIOUS
<1>5. task = Size!Truncated(nodeManager - appMaster, cores)
  OBVIOUS
<1>6. two = Size!Truncated(2 * nodeManager, 7) /\ three = Size!Truncated(3 * nodeManager, 7)
  OBVIOUS
<1>7. /\ DOMAIN values = {"vcores", "min_vcores", "heaps", "nodemanager_memory",
           "scheduler_maximum_memory", "scheduler_minimum_memory", "map_memory",
           "map_memory_java_opts", "mapreduce_am_memory"}
      /\ values.heaps = 2 * heap /\ values.nodemanager_memory = nodeManager
      /\ values.scheduler_maximum_memory = nodeManager
      /\ \/ values.scheduler_minimum_memory = two /\ values.map_memory = two
            /\ values.mapreduce_am_memory = three
         \/ values.scheduler_minimum_memory = 256 /\ values.map_memory = task
            /\ values.mapreduce_am_memory = appMaster
  <2> HIDE DEF heap, cores, appMaster, available, nodeManager, task, low, two, three
  <2> QED
    OBVIOUS
<1> HIDE DEF heap, cores, appMaster, available, nodeManager, task, low, two, three, values
<1>8. nodeManager \in Int /\ ~(values.map_memory <= 0) /\ ~(values.mapreduce_am_memory <= 0)
      /\ ~(values.nodemanager_memory <= 0)
  BY <1>2, <1>4, <1>7, <1>1
<1>9. task \in Int /\ (task > 0 => nodeManager - appMaster > 0 /\ task <= nodeManager - appMaster)
  <2>1. cores \in Nat \ {0} /\ nodeManager - appMaster \in Int
    BY <1>2, <1>3, <1>1, <1>8
  <2> QED
    BY <1>5, <2>1, Quotients
<1>10. two \in Int /\ three \in Int /\ (nodeManager > 0 => two <= nodeManager /\ three <= nodeManager)
  BY <1>6, <1>8 DEF Size!Truncated
<1>11. values.map_memory <= nodeManager /\ values.mapreduce_am_memory <= nodeManager
       /\ values.scheduler_minimum_memory <= nodeManager
  BY <1>2, <1>7, <1>8, <1>9, <1>10
<1>12. values.nodemanager_memory + values.heaps <= q.mem
  BY <1>2, <1>4, <1>7
<1>13. values.scheduler_maximum_memory = nodeManager
  BY <1>7
<1> DEFINE v == Size!HadoopResources(q).values
<1>14. v = values
  BY <1>1
<1> HIDE DEF v
<1>15. /\ v.nodemanager_memory + v.heaps <= q.mem
       /\ v.map_memory <= v.scheduler_maximum_memory
       /\ v.mapreduce_am_memory <= v.scheduler_maximum_memory
       /\ v.scheduler_minimum_memory <= v.scheduler_maximum_memory
  BY <1>11, <1>12, <1>13, <1>14
<1> QED
  BY <1>15, ZenonT(60) DEF v

LEMMA Divided ==
  ASSUME NEW x \in Int, NEW d \in Nat \ {0}
  PROVE  \E k \in Int, m \in 0..(d - 1) : k = x \div d /\ m = x % d /\ x = d * k + m
OBVIOUS

\* What divides is not rounded.
LEMMA RoundedExactly ==
  ASSUME NEW a \in Int, NEW d \in Nat \ {0}
  PROVE  Size!Rounded(a * d, d) = a
<1>1. PICK x \in Int : x = a * d
  OBVIOUS
<1>2. PICK k \in Int, m \in 0..(d - 1) : k = x \div d /\ m = x % d /\ x = d * k + m
  BY Divided
<1>3. d * (a - k) = m
  <2>1. d * (a - k) = a * d - d * k
    OBVIOUS
  <2> QED
    BY <1>1, <1>2, <2>1
<1>4. PICK c \in Int : c = a - k
  OBVIOUS
<1>5. ~(c >= 1)
  <2>1. c >= 1 => d * c >= d
    OBVIOUS
  <2> QED
    BY <1>2, <1>3, <1>4, <2>1
<1>6. ~(c <= -1)
  <2>1. c <= -1 => d * c <= -d
    OBVIOUS
  <2> QED
    BY <1>2, <1>3, <1>4, <2>1
<1>7. a = k /\ m = 0
  <2>1. c = 0
    BY <1>5, <1>6
  <2>2. a = k
    BY <1>4, <2>1
  <2>3. d * 0 = 0 /\ m = d * 0
    BY <1>3, <1>4, <2>1
  <2> QED
    BY <2>2, <2>3
<1> QED
  BY <1>1, <1>2, <1>7, SMTT(30) DEF Size!Rounded

\* A quotient k with a remainder m is rounded to rd.
IsRounding(x, d, k, m, rd) ==
  /\ k \in Int /\ m \in 0..(d - 1) /\ rd \in Int /\ rd \in {k, k + 1}
  /\ k = x \div d /\ m = x % d /\ x = d * k + m /\ Size!Rounded(x, d) = rd
  /\ 2 * m < d => rd = k
  /\ 2 * m > d => rd = k + 1
  /\ 2 * m = d => (rd = k <=> k % 2 = 0)

LEMMA RoundedNear ==
  ASSUME NEW x \in Int, NEW d \in Nat \ {0}
  PROVE  \E k, m, rd : IsRounding(x, d, k, m, rd)
<1>1. PICK k \in Int, m \in 0..(d - 1) : k = x \div d /\ m = x % d /\ x = d * k + m
  BY Divided
<1>2. Size!Rounded(x, d) = IF 2 * m < d \/ (2 * m = d /\ k % 2 = 0) THEN k ELSE k + 1
  BY <1>1 DEF Size!Rounded
<1>3. PICK rd \in Int : rd \in {k, k + 1} /\ Size!Rounded(x, d) = rd
  BY <1>2
<1>4. /\ 2 * m < d => rd = k
      /\ 2 * m > d => rd = k + 1
      /\ 2 * m = d => (rd = k <=> k % 2 = 0)
  BY <1>2, <1>3
<1> QED
  BY <1>1, <1>3, <1>4 DEF IsRounding

LEMMA DividedNat ==
  ASSUME NEW x \in Nat, NEW d \in Nat \ {0}
  PROVE  \E k \in Int, m \in 0..(d - 1) :
           k \in Nat /\ k = x \div d /\ m = x % d /\ x = d * k + m
<1>1. PICK k \in Int, m \in 0..(d - 1) : k = x \div d /\ m = x % d /\ x = d * k + m
  BY Divided
<1>2. k < 0 => d * k <= -d
  OBVIOUS
<1>3. d * k > -d
  BY <1>1
<1>4. k \in Nat
  BY <1>2, <1>3
<1> QED
  BY <1>1, <1>4, Zenon

\* With an irregular container the cpu of each is whole, and a regular one has more than
\* half of its part.
LEMMA WholeShares ==
  ASSUME NEW q, q.n \in Nat \ {0}, q.app.cpu.max \in Nat, Size!IrregularType(q) # "none"
  PROVE  \E a, b \in Nat \ {0} :
           /\ Size!Shares(q) = [regular |-> a * q.n, irregular |-> b * q.n]
           /\ (q.n - 1) * a + b = q.app.cpu.max
           /\ q.app.cpu.max < 2 * a * q.n
<1>1. PICK n \in Nat \ {0} : n = q.n
  OBVIOUS
<1>2. PICK cpu \in Nat : cpu = q.app.cpu.max
  OBVIOUS
<1>3. PICK d \in Nat \ {0} : d = 100 * n
  BY <1>1
<1>4. PICK k \in Int, over \in 0..(d - 1) : k = cpu \div d /\ over = cpu % d /\ cpu = d * k + over
  BY Divided
<1>5. over = cpu % (100 * n) /\ cpu = (100 * n) * k + over
  BY <1>3, <1>4
<1>6. Size!EqualShare(q) = cpu /\ Size!Modulo(q) = over
  BY <1>1, <1>2, <1>5 DEF Size!EqualShare, Size!Modulo
<1>7. \/ Size!IrregularType(q) = "bigger" /\ over < 50 * n /\ cpu > 100 * n
      \/ Size!IrregularType(q) = "smaller" /\ cpu - (100 * n - over) * (n - 1) >= 10 * n
  BY <1>1, <1>6 DEF Size!IrregularType
<1>8. k >= 0 /\ n * k >= 0
  <2>1. ~(k < 0)
    <3>1. k < 0 => d * k <= -d
      OBVIOUS
    <3> QED
      BY <1>4, <3>1
  <2> QED
    BY <2>1
<1>9. CASE Size!IrregularType(q) = "bigger"
  <2>1. Size!Shares(q) = [regular |-> cpu - over, irregular |-> cpu + over * (n - 1)]
    BY <1>1, <1>6, <1>9 DEF Size!Shares
  <2>2. cpu - over = (100 * k) * n
    BY <1>5
  <2>3. cpu + over * (n - 1) = (100 * k + over) * n
    BY <1>5
  <2>4. (n - 1) * (100 * k) + (100 * k + over) = cpu
    BY <1>5
  <2>5. k # 0 /\ over < 50 * n
    BY <1>3, <1>5, <1>7, <1>9
  <2>6. n * k >= n
    BY <1>8, <2>5
  <2>7. cpu < 2 * (100 * k) * n
    BY <1>5, <2>5, <2>6
  <2>8. PICK a, b \in Nat \ {0} : a = 100 * k /\ b = 100 * k + over
    BY <1>8, <2>5
  <2>9. Size!Shares(q) = [regular |-> a * n, irregular |-> b * n]
    BY <2>1, <2>2, <2>3, <2>8
  <2>10. (n - 1) * a + b = cpu /\ cpu < 2 * a * n
    BY <2>4, <2>7, <2>8
  <2> QED
    BY <1>1, <1>2, <2>9, <2>10
<1>10. CASE Size!IrregularType(q) = "smaller"
  <2>1. Size!Shares(q) = [regular |-> cpu + 100 * n - over,
                          irregular |-> cpu - (100 * n - over) * (n - 1)]
    BY <1>1, <1>6, <1>10 DEF Size!Shares
  <2>2. cpu + 100 * n - over = (100 * (k + 1)) * n
    BY <1>5
  <2>3. cpu - (100 * n - over) * (n - 1) = (100 * k + over - 100 * (n - 1)) * n
    BY <1>5
  <2>4. (n - 1) * (100 * (k + 1)) + (100 * k + over - 100 * (n - 1)) = cpu
    BY <1>5
  <2>5. PICK b \in Int : b = 100 * k + over - 100 * (n - 1)
    OBVIOUS
  <2>6. b * n >= 10 * n
    BY <1>7, <1>10, <2>3, <2>5
  <2>7. b > 0
    <3>1. b <= 0 => b * n <= 0
      OBVIOUS
    <3> QED
      BY <2>6, <3>1
  <2>8. cpu < 2 * (100 * (k + 1)) * n
    <3>1. cpu < (100 * n) * k + 100 * n
      BY <1>3, <1>5
    <3>2. 2 * (100 * (k + 1)) * n = 200 * (n * k) + 200 * n
      OBVIOUS
    <3> QED
      BY <1>8, <3>1, <3>2
  <2>9. PICK a \in Nat \ {0} : a = 100 * (k + 1)
    BY <1>8
  <2>10. Size!Shares(q) = [regular |-> a * n, irregular |-> b * n]
    BY <2>1, <2>2, <2>3, <2>5, <2>9
  <2>11. (n - 1) * a + b = cpu /\ cpu < 2 * a * n
    BY <2>4, <2>5, <2>8, <2>9
  <2> QED
    BY <1>1, <1>2, <2>7, <2>10, <2>11
<1> QED
  BY <1>7, <1>9, <1>10

\* The shares of n containers of a cpu of c are a and for the irregular one b; u is the unit.
Cut(n, a, b, c, u) ==
  /\ n \in Nat \ {0} /\ a \in Nat \ {0} /\ b \in Nat \ {0} /\ c \in Nat \ {0} /\ u \in Nat \ {0}
  /\ u = n * c /\ (n - 1) * a + b = c /\ c < 2 * a * n

\* An amount x beside the irregular container, in units u: k whole ones and a rest for each
\* of the regular containers, of which there are n - 1, and what becomes of the rest.
Split(r, s, n, a, u, x, k, over) ==
  /\ x \in Nat /\ k \in Nat /\ over \in 0..(u - 1) /\ r \in Int /\ s \in Int
  /\ (a * n) * x = u * k + over
  /\ \/ 2 * over < u /\ k >= 1 /\ r = u * k /\ (n - 1) * r + s = x * u
     \/ 2 * over < u /\ k = 0 /\ r = over /\ (n - 1) * r + s = x * u
     \/ /\ 2 * over >= u /\ x > (n - 1) * (k + 1)
        /\ \/ r = u * (k + 1) /\ (n - 1) * r + s = x * u /\ (2 * over = u => k % 2 # 0)
           \/ 2 * over = u /\ k % 2 = 0 /\ r = u * k /\ (n - 1) * r + s = x * u - (n - 1) * u
     \/ 2 * over >= u /\ x <= (n - 1) * (k + 1) /\ r = u * k + over /\ (n - 1) * r + s = x * u

LEMMA Splits ==
  ASSUME NEW q, NEW n, NEW a, NEW b, NEW c, NEW u, NEW x \in Nat,
         Cut(n, a, b, c, u), q.n = n, q.app.cpu.max = c,
         Size!Shares(q) = [regular |-> a * n, irregular |-> b * n]
  PROVE  \E k, over, r, s :
           /\ Size!Scaled(q, x) = [regular |-> r, irregular |-> s]
           /\ Split(r, s, n, a, u, x, k, over)
<1> n \in Nat \ {0} /\ a \in Nat \ {0} /\ b \in Nat \ {0} /\ c \in Nat \ {0} /\ u \in Nat \ {0}
  BY DEF Cut
<1> u = n * c /\ (n - 1) * a + b = c
  BY DEF Cut
<1>1. PICK y \in Int : y = (a * n) * x
  OBVIOUS
<1>2. PICK z \in Int : z = (b * n) * x
  OBVIOUS
<1>3. (n - 1) * y + z = x * u
  <2>1. (n - 1) * y + z = (((n - 1) * a + b) * n) * x
    BY <1>1, <1>2
  <2> QED
    BY <2>1
<1>4. y >= 0
  <2>1. a * n >= 0
    OBVIOUS
  <2> QED
    BY <1>1, <2>1
<1>5. PICK k, over, rd : IsRounding(y, u, k, over, rd)
  <2>1. y \in Int
    OBVIOUS
  <2> QED
    BY <2>1, RoundedNear
<1> k \in Int /\ over \in 0..(u - 1) /\ rd \in Int
  BY <1>5 DEF IsRounding
<1> USE DEF IsRounding
<1>6. k \in Nat
  <2>1. k < 0 => u * k <= -u
    OBVIOUS
  <2> QED
    BY <1>4, <1>5, <2>1
<1>7. PICK small \in Int : small = z - (u - over) * (n - 1)
  OBVIOUS
<1>8. Size!unit(q) = u
  BY DEF Size!unit
<1>9. Size!Scaled(q, x) =
        IF 2 * over < u
        THEN IF y >= u
             THEN [regular |-> y - over, irregular |-> Size!Rounded(z + over * (n - 1), u) * u]
             ELSE [regular |-> y, irregular |-> z]
        ELSE IF small >= u
             THEN [regular |-> rd * u, irregular |-> Size!Rounded(small, u) * u]
             ELSE [regular |-> y, irregular |-> z]
  BY <1>1, <1>2, <1>5, <1>7, <1>8, SMTT(30) DEF Size!Scaled, Size!TimesUnit
<1>10. small = (x - (n - 1) * (k + 1)) * u
  <2>1. small = z - (n - 1) * u + (n - 1) * over
    BY <1>7
  <2>2. (n - 1) * y = (n - 1) * (u * k) + (n - 1) * over
    BY <1>5
  <2>3. (n - 1) * (u * k) + (n - 1) * u = ((n - 1) * (k + 1)) * u
    OBVIOUS
  <2> QED
    BY <1>3, <2>1, <2>2, <2>3
<1>11. z + over * (n - 1) = (x - (n - 1) * k) * u
  <2>1. (n - 1) * y = (n - 1) * (u * k) + (n - 1) * over
    BY <1>5
  <2>2. (n - 1) * (u * k) = ((n - 1) * k) * u
    OBVIOUS
  <2> QED
    BY <1>3, <2>1, <2>2
<1>12. y >= u <=> k >= 1
  <2>1. k >= 1 => u * k >= u
    OBVIOUS
  <2>2. k = 0 => u * k = 0
    OBVIOUS
  <2> QED
    BY <1>5, <1>6, <2>1, <2>2
<1>13. PICK e \in Int : e = x - (n - 1) * (k + 1)
  OBVIOUS
<1>14. small >= u <=> x > (n - 1) * (k + 1)
  <2>1. e >= 1 => e * u >= u
    OBVIOUS
  <2>2. e <= 0 => e * u <= 0
    OBVIOUS
  <2> QED
    BY <1>10, <1>13, <2>1, <2>2
<1>15. CASE 2 * over < u /\ k >= 1
  <2>1. PICK f \in Int : f = x - (n - 1) * k
    OBVIOUS
  <2>2. Size!Rounded(f * u, u) = f
    BY RoundedExactly
  <2>3. Size!Scaled(q, x) = [regular |-> u * k, irregular |-> f * u]
    <3>1. Size!Scaled(q, x)
            = [regular |-> y - over, irregular |-> Size!Rounded(z + over * (n - 1), u) * u]
      BY <1>9, <1>12, <1>15
    <3>2. y - over = u * k
      BY <1>5
    <3>3. Size!Rounded(z + over * (n - 1), u) = f
      BY <1>11, <2>1, <2>2
    <3> QED
      BY <3>1, <3>2, <3>3, Zenon
  <2>4. (n - 1) * (u * k) + f * u = x * u
    BY <2>1
  <2>5. PICK r, s \in Int : r = u * k /\ s = f * u
    OBVIOUS
  <2>6. Split(r, s, n, a, u, x, k, over)
    BY <1>1, <1>5, <1>15, <2>4, <2>5 DEF Split
  <2> QED
    BY <1>6, <2>3, <2>5, <2>6
<1>16. CASE 2 * over < u /\ k = 0
  <2>1. Size!Scaled(q, x) = [regular |-> y, irregular |-> z]
    BY <1>9, <1>12, <1>16
  <2>2. y = over
    BY <1>5, <1>16
  <2>3. Split(y, z, n, a, u, x, k, over)
    BY <1>1, <1>3, <1>5, <1>16, <2>2 DEF Split
  <2> QED
    BY <1>6, <2>1, <2>3
<1>17. CASE 2 * over >= u /\ x > (n - 1) * (k + 1)
  <2>1. Size!Rounded(e * u, u) = e
    BY RoundedExactly
  <2>2. Size!Scaled(q, x) = [regular |-> rd * u, irregular |-> e * u]
    BY <1>9, <1>10, <1>13, <1>14, <1>17, <2>1
  <2>3. PICK r, s \in Int : r = rd * u /\ s = e * u
    OBVIOUS
  <2>4. /\ (n - 1) * (u * (k + 1)) + e * u = x * u
        /\ (n - 1) * (u * k) + e * u = x * u - (n - 1) * u
    BY <1>13
  <2>5. CASE rd = k + 1
    <3>1. r = u * (k + 1)
      BY <2>3, <2>5
    <3>2. 2 * over = u => k % 2 # 0
      <4>1. rd # k
        BY <2>5
      <4> QED
        BY <1>5, <4>1
    <3>3. Split(r, s, n, a, u, x, k, over)
      <4>1. (a * n) * x = u * k + over
        BY <1>1, <1>5
      <4>2. (n - 1) * r + s = x * u
        BY <2>3, <2>4, <3>1
      <4> QED
        BY <1>6, <1>17, <3>1, <3>2, <4>1, <4>2, ZenonT(30) DEF Split
    <3> QED
      BY <1>6, <2>2, <2>3, <3>3
  <2>6. CASE rd = k
    <3>1. r = u * k /\ 2 * over = u /\ k % 2 = 0
      <4>1. r = u * k
        BY <2>3, <2>6
      <4>2. 2 * over > u => rd = k + 1
        BY <1>5
      <4>3. k # k + 1
        OBVIOUS
      <4>4. ~(2 * over > u)
        BY <2>6, <4>2, <4>3
      <4>5. 2 * over >= u
        BY <1>17
      <4>6. 2 * over = u
        BY <4>4, <4>5
      <4> QED
        BY <1>5, <2>6, <4>1, <4>6
    <3>2. Split(r, s, n, a, u, x, k, over)
      <4>1. (a * n) * x = u * k + over
        BY <1>1, <1>5
      <4>2. (n - 1) * r + s = x * u - (n - 1) * u
        BY <2>3, <2>4, <3>1
      <4> QED
        BY <1>6, <1>17, <3>1, <4>1, <4>2, ZenonT(30) DEF Split
    <3> QED
      BY <1>6, <2>2, <2>3, <3>2
  <2> QED
    BY <1>5, <2>5, <2>6
<1>18. CASE 2 * over >= u /\ x <= (n - 1) * (k + 1)
  <2>1. Size!Scaled(q, x) = [regular |-> y, irregular |-> z]
    BY <1>9, <1>14, <1>18
  <2>2. Split(y, z, n, a, u, x, k, over)
    BY <1>1, <1>3, <1>5, <1>18 DEF Split
  <2> QED
    BY <1>6, <2>1, <2>2
<1>19. k >= 1 \/ k = 0
  BY <1>6
<1>20. 2 * over < u \/ 2 * over >= u
  BY <1>5
<1>21. x > (n - 1) * (k + 1) \/ x <= (n - 1) * (k + 1)
  BY <1>6
<1> QED
  BY <1>15, <1>16, <1>17, <1>18, <1>19, <1>20, <1>21, Zenon

\* All of them together get what there is, or less than one each too little.
LEMMA SplitTotal ==
  ASSUME NEW n, NEW a, NEW b, NEW c, NEW u, NEW x, NEW k, NEW over, NEW r, NEW s,
         Cut(n, a, b, c, u), Split(r, s, n, a, u, x, k, over)
  PROVE  /\ u * k <= r /\ r <= u * (k + 1) /\ r >= 0
         /\ (n - 1) * r + s <= x * u /\ (n - 1) * r + s > x * u - n * u
<1> n \in Nat \ {0} /\ a \in Nat \ {0} /\ u \in Nat \ {0}
  BY DEF Cut
<1> x \in Nat /\ k \in Nat /\ over \in 0..(u - 1) /\ r \in Int /\ s \in Int
  BY DEF Split
<1>1. n * u = (n - 1) * u + u /\ (n - 1) * u >= 0
  OBVIOUS
<1>2. u * (k + 1) = u * k + u /\ u * k >= 0
  OBVIOUS
<1>3. k = 0 => u * k = 0
  OBVIOUS
<1>4. u * k <= r /\ r <= u * (k + 1) /\ r >= 0
  BY <1>2, <1>3 DEF Split
<1>5. (n - 1) * r + s = x * u \/ (n - 1) * r + s = x * u - (n - 1) * u
  BY DEF Split
<1>6. PICK t \in Int : t = (n - 1) * r + s
  OBVIOUS
<1>7. PICK v \in Int : v = x * u
  OBVIOUS
<1>8. PICK w \in Int : w = (n - 1) * u /\ w >= 0 /\ n * u = w + u
  BY <1>1
<1>9. t = v \/ t = v - w
  BY <1>5, <1>6, <1>7, <1>8
<1>10. t <= v /\ t > v - (w + u)
  BY <1>8, <1>9
<1> QED
  BY <1>4, <1>6, <1>7, <1>8, <1>10

\* Of a larger amount a regular container gets no less, as long as it has more than half of
\* its part of the cpu.
LEMMA SplitGrows ==
  ASSUME NEW n, NEW a, NEW b, NEW c, NEW u, NEW x, NEW k, NEW over, NEW r, NEW s,
         NEW x2, NEW k2, NEW over2, NEW r2, NEW s2,
         Cut(n, a, b, c, u), Split(r, s, n, a, u, x, k, over),
         Split(r2, s2, n, a, u, x2, k2, over2), x <= x2
  PROVE  r <= r2
<1> n \in Nat \ {0} /\ a \in Nat \ {0} /\ c \in Nat \ {0} /\ u \in Nat \ {0}
  BY DEF Cut
<1> x \in Nat /\ k \in Nat /\ over \in 0..(u - 1) /\ r \in Int /\ s \in Int
  BY DEF Split
<1> x2 \in Nat /\ k2 \in Nat /\ over2 \in 0..(u - 1) /\ r2 \in Int /\ s2 \in Int
  BY DEF Split
<1> u = n * c /\ c < 2 * a * n
  BY DEF Cut
<1>1. PICK y \in Nat : y = (a * n) * x /\ y = u * k + over
  <2>1. (a * n) * x \in Nat
    OBVIOUS
  <2> QED
    BY <2>1 DEF Split
<1>2. PICK y2 \in Nat : y2 = (a * n) * x2 /\ y2 = u * k2 + over2
  <2>1. (a * n) * x2 \in Nat
    OBVIOUS
  <2> QED
    BY <2>1 DEF Split
<1>3. PICK p \in Nat \ {0} : p = a * n
  OBVIOUS
<1>4. y <= y2 /\ (y = y2 => x = x2)
  <2>1. PICK e \in Nat : x2 = x + e
    <3>1. x2 - x \in Nat /\ x2 = x + (x2 - x)
      OBVIOUS
    <3> QED
      BY <3>1
  <2>2. y2 = y + p * e
    BY <1>1, <1>2, <1>3, <2>1
  <2>3. p * e >= e
    OBVIOUS
  <2> QED
    BY <2>1, <2>2, <2>3
<1>5. u * k <= r /\ r <= u * (k + 1) /\ u * k2 <= r2 /\ r2 <= u * (k2 + 1)
  BY SplitTotal
<1>6. ~(k2 < k)
  <2>1. k2 < k => u * (k2 + 1) <= u * k
    OBVIOUS
  <2>2. u * (k2 + 1) = u * k2 + u
    OBVIOUS
  <2> QED
    BY <1>1, <1>2, <1>4, <2>1, <2>2
<1>7. CASE k < k2
  <2>1. u * (k + 1) <= u * k2
    BY <1>7
  <2> QED
    BY <1>5, <2>1
<1>8. CASE k = k2
  <2>1. over <= over2 /\ (over = over2 => y = y2)
    BY <1>1, <1>2, <1>4, <1>8
  <2>2. PICK w \in Nat : w = u * k
    OBVIOUS
  <2>3. u * (k + 1) = w + u /\ (k = 0 => w = 0)
    BY <2>2
  <2>4. PICK z \in Int : z = (n - 1) * (k + 1)
    OBVIOUS
  \* A half of the first unit is not rounded down.
  <2>5. ~(2 * over2 = u /\ k = 0 /\ x2 > z)
    <3> SUFFICES ASSUME 2 * over2 = u, k = 0, x2 > z PROVE FALSE
      OBVIOUS
    <3>1. x2 >= n
      BY <2>4
    <3>2. y2 = over2
      BY <1>2, <1>8, <2>2, <2>3
    <3>3. 2 * (p * x2) = n * c
      BY <1>2, <1>3, <3>2
    <3>4. p * x2 >= p * n
      BY <3>1
    <3>5. 2 * (p * n) > n * c
      <4>1. 2 * p > c
        BY <1>3
      <4>2. (2 * p) * n > c * n
        BY <4>1
      <4> QED
        BY <4>2
    <3> QED
      BY <3>3, <3>4, <3>5
  <2>6. \/ 2 * over < u /\ k >= 1 /\ r = w
        \/ 2 * over < u /\ k = 0 /\ r = over
        \/ 2 * over >= u /\ x > z /\ ((r = w + u /\ (2 * over = u => k % 2 # 0)) \/ (2 * over = u /\ k % 2 = 0 /\ r = w))
        \/ 2 * over >= u /\ x <= z /\ r = w + over
    BY <2>2, <2>3, <2>4 DEF Split
  <2>7. \/ 2 * over2 < u /\ k >= 1 /\ r2 = w
        \/ 2 * over2 < u /\ k = 0 /\ r2 = over2
        \/ 2 * over2 >= u /\ x2 > z /\ ((r2 = w + u /\ (2 * over2 = u => k % 2 # 0)) \/ (2 * over2 = u /\ k % 2 = 0 /\ r2 = w))
        \/ 2 * over2 >= u /\ x2 <= z /\ r2 = w + over2
    BY <1>8, <2>2, <2>3, <2>4 DEF Split
  <2>8. over = over2 => x = x2
    BY <1>4, <2>1
  <2>9. PICK even \in BOOLEAN : even <=> k % 2 = 0
    OBVIOUS
  <2>10. \/ 2 * over < u /\ k >= 1 /\ r = w
         \/ 2 * over < u /\ k = 0 /\ r = over
         \/ 2 * over >= u /\ x > z /\ r = w + u /\ (2 * over = u => ~even)
         \/ 2 * over >= u /\ x > z /\ 2 * over = u /\ even /\ r = w
         \/ 2 * over >= u /\ x <= z /\ r = w + over
    BY <2>6, <2>9
  <2>11. \/ 2 * over2 < u /\ k >= 1 /\ r2 = w
         \/ 2 * over2 < u /\ k = 0 /\ r2 = over2
         \/ 2 * over2 >= u /\ x2 > z /\ r2 = w + u /\ (2 * over2 = u => ~even)
         \/ 2 * over2 >= u /\ x2 > z /\ 2 * over2 = u /\ even /\ r2 = w
         \/ 2 * over2 >= u /\ x2 <= z /\ r2 = w + over2
    BY <2>7, <2>9
  <2>12. CASE 2 * over2 = u /\ even /\ r2 = w
    BY <2>1, <2>3, <2>5, <2>8, <2>10, <2>11, <2>12
  <2>13. CASE ~(2 * over2 = u /\ even /\ r2 = w)
    BY <2>1, <2>3, <2>8, <2>10, <2>11, <2>13
  <2> QED
    BY <2>12, <2>13
<1> QED
  BY <1>6, <1>7, <1>8

LEMMA BoundaryPercents ==
  ASSUME NEW max \in Nat \ {0}, NEW min \in Nat, min <= max, NEW halves \in Nat \ {0}
  PROVE  Size!Rounded((max - min) * 100, halves * max) \in 0..100
<1>1. PICK d \in Nat \ {0} : d = halves * max /\ d >= max
  <2>1. halves * max >= max
    OBVIOUS
  <2> QED
    BY <2>1
<1>2. PICK x \in Int : x = (max - min) * 100 /\ x >= 0
  OBVIOUS
<1>3. x <= 100 * d
  BY <1>1, <1>2
<1>4. PICK k, m, rd : IsRounding(x, d, k, m, rd)
  <2>1. x \in Int
    OBVIOUS
  <2> QED
    BY <2>1, RoundedNear
<1> k \in Int /\ m \in 0..(d - 1) /\ rd \in Int
  BY <1>4 DEF IsRounding
<1> USE DEF IsRounding
<1>5. k >= 0
  <2>1. k < 0 => d * k <= -d
    OBVIOUS
  <2> QED
    BY <1>2, <1>4, <2>1
<1>6. k <= 100
  <2>1. k >= 101 => d * k >= d * 101
    OBVIOUS
  <2> QED
    BY <1>3, <1>4, <2>1
<1>7. k = 100 => rd = k
  <2>1. k = 100 => m = 0
    BY <1>3, <1>4
  <2> QED
    BY <1>4, <2>1
<1>8. rd \in 0..100
  BY <1>4, <1>5, <1>6, <1>7
<1> QED
  BY <1>1, <1>2, <1>4, <1>8, Zenon

\* An application with containers to start: it has some cpu, and no more at least than at most.
IsApplication(q) ==
  /\ q.n \in Nat \ {0} /\ q.benevolence \in {-1, 1, 2, 3}
  /\ \A r \in Size!Resource :
       q.app[r]["min"] \in Nat /\ q.app[r]["max"] \in Nat /\ q.app[r]["min"] <= q.app[r]["max"]
  /\ q.app["cpu"]["max"] # 0

\* The cpu of the containers, as it is rounded in the end.
CpuGiven(q) ==
  [t \in DOMAIN Size!Shares(q) |-> Size!TimesUnit(q, Size!Rounded(Size!Shares(q)[t], q.n))]

\* What the amounts of the containers are to those of the application.
RightAmounts(q) ==
  /\ \A r \in Size!Resource, b \in Size!Bound : <<r, b>> # <<"cpu", "max">> =>
       /\ Size!Total(q, Size!Amounts(q, r, b)) <= Size!TimesUnit(q, q.app[r][b])
       /\ Size!Total(q, Size!Amounts(q, r, b))
            > Size!TimesUnit(q, q.app[r][b]) - Size!TimesUnit(q, q.n)
  /\ \A r \in Size!Resource :
       /\ Size!Amounts(q, r, "min").regular \in Nat /\ Size!Amounts(q, r, "max").regular \in Nat
       /\ Size!Amounts(q, r, "min").regular <= Size!Amounts(q, r, "max").regular
  /\ "regular" \in DOMAIN Size!Shares(q)
  /\ "irregular" \in DOMAIN Size!Shares(q) =>
       Size!Total(q, CpuGiven(q)) = Size!TimesUnit(q, q.app["cpu"]["max"])
  /\ 2 * Size!Total(q, CpuGiven(q))
       <= 2 * Size!TimesUnit(q, q.app["cpu"]["max"]) + Size!TimesUnit(q, q.n)
  /\ Size!Amounts(q, "cpu", "min").regular <= CpuGiven(q).regular

\* Without an irregular container.
LEMMA EvenAmounts ==
  ASSUME NEW q, IsApplication(q), Size!IrregularType(q) = "none"
  PROVE  RightAmounts(q)
<1>1. PICK n \in Nat \ {0} : n = q.n
  BY DEF IsApplication
<1>2. PICK c \in Nat \ {0} : c = q.app["cpu"]["max"]
  BY DEF IsApplication, Size!Resource
<1>3. PICK u \in Nat \ {0} : u = n * c /\ Size!unit(q) = u
  BY <1>1, <1>2 DEF Size!unit
<1>4. Size!Shares(q) = [regular |-> c]
  BY <1>2 DEF Size!Shares, Size!EqualShare
<1>5. PICK rd \in Int : Size!Rounded(c, n) = rd /\ c \div n <= rd /\ 2 * (n * rd) <= 2 * c + n
  <2>1. PICK k, m, rd : IsRounding(c, n, k, m, rd)
    <3>1. c \in Int
      OBVIOUS
    <3> QED
      BY <3>1, RoundedNear
  <2> k \in Int /\ m \in 0..(n - 1) /\ rd \in Int
    BY <2>1 DEF IsRounding
  <2> USE DEF IsRounding
  <2>2. n * (k + 1) = n * k + n
    OBVIOUS
  <2>3. CASE rd = k
    BY <2>1, <2>3
  <2>4. CASE rd = k + 1
    <3>1. ~(2 * m < n)
      <4>1. rd # k
        BY <2>4
      <4> QED
        BY <2>1, <4>1
    <3> QED
      BY <2>1, <2>2, <2>4, <3>1
  <2> QED
    BY <2>1, <2>3, <2>4
<1>6. CpuGiven(q) = [regular |-> rd * u]
  <2>1. Size!TimesUnit(q, rd) = rd * u
    BY <1>3, Zenon DEF Size!TimesUnit
  <2>2. Size!Shares(q)["regular"] = c /\ DOMAIN Size!Shares(q) = {"regular"}
    BY <1>4
  <2>3. CpuGiven(q) = [t \in {"regular"} |-> rd * u]
    BY <1>1, <1>5, <2>1, <2>2 DEF CpuGiven
  <2> QED
    BY <2>3
<1>7. ASSUME NEW r \in Size!Resource, NEW b \in Size!Bound, <<r, b>> # <<"cpu", "max">>
      PROVE  \E k \in Nat : /\ k = q.app[r][b] \div n /\ Size!Amounts(q, r, b) = [regular |-> k * u]
                            /\ n * k <= q.app[r][b] /\ n * k > q.app[r][b] - n
  <2>1. PICK x \in Nat : x = q.app[r][b]
    BY DEF IsApplication, Size!Bound
  <2>2. PICK k \in Int, m \in 0..(n - 1) :
          k \in Nat /\ k = x \div n /\ m = x % n /\ x = n * k + m
    BY DividedNat
  <2>3. Size!Amounts(q, r, b) = [regular |-> k * u]
    BY <1>1, <1>3, <1>7, <2>1, <2>2, Zenon DEF Size!Amounts, Size!TimesUnit
  <2>4. n * k <= x /\ n * k > x - n
    BY <2>2
  <2> QED
    BY <2>1, <2>2, <2>3, <2>4, ZenonT(30)
<1>8. Size!Amounts(q, "cpu", "max") = [regular |-> c * c]
  BY <1>2, <1>4 DEF Size!Amounts
<1>9. ASSUME NEW r \in Size!Resource, NEW b \in Size!Bound, <<r, b>> # <<"cpu", "max">>
      PROVE  /\ Size!Total(q, Size!Amounts(q, r, b)) <= Size!TimesUnit(q, q.app[r][b])
             /\ Size!Total(q, Size!Amounts(q, r, b))
                  > Size!TimesUnit(q, q.app[r][b]) - Size!TimesUnit(q, q.n)
  <2>1. PICK k \in Nat : /\ Size!Amounts(q, r, b) = [regular |-> k * u]
                         /\ n * k <= q.app[r][b] /\ n * k > q.app[r][b] - n
    BY <1>7, <1>9
  <2>2. PICK x \in Nat : x = q.app[r][b]
    BY DEF IsApplication, Size!Bound
  <2>3. Size!Total(q, Size!Amounts(q, r, b)) = n * (k * u)
    BY <1>1, <2>1 DEF Size!Total
  <2>4. PICK e \in Int : e = x - n * k /\ e >= 0 /\ e < n
    BY <2>1, <2>2
  <2>5. n * (k * u) = (x - e) * u /\ (x - e) * u = x * u - e * u
    BY <2>4
  <2>6. e * u >= 0 /\ e * u < n * u
    BY <2>4
  <2>7. n * (k * u) <= x * u /\ n * (k * u) > x * u - n * u
    BY <2>5, <2>6
  <2> QED
    BY <1>1, <1>3, <2>2, <2>3, <2>7, Zenon DEF Size!TimesUnit
<1>10. ASSUME NEW r \in Size!Resource
       PROVE  /\ Size!Amounts(q, r, "min").regular \in Nat
              /\ Size!Amounts(q, r, "max").regular \in Nat
              /\ Size!Amounts(q, r, "min").regular <= Size!Amounts(q, r, "max").regular
  <2>1. "min" \in Size!Bound /\ "max" \in Size!Bound
    BY DEF Size!Bound
  <2>2. PICK j \in Nat : /\ j = q.app[r]["min"] \div n
                         /\ Size!Amounts(q, r, "min") = [regular |-> j * u]
                         /\ n * j <= q.app[r]["min"]
    BY <1>7, <2>1
  <2>3. PICK x, y \in Nat : x = q.app[r]["min"] /\ y = q.app[r]["max"] /\ x <= y
    BY DEF IsApplication
  <2>4. Size!Amounts(q, r, "min").regular = j * u /\ j * u \in Nat /\ n * j <= x
    BY <2>2, <2>3
  <2>5. CASE r = "cpu"
    <3>1. c * c \in Nat /\ y = c
      BY <1>2, <2>3, <2>5
    <3>2. j * u = (n * j) * c
      BY <1>3
    <3>3. PICK e \in Nat : e = n * j
      OBVIOUS
    <3>4. e <= c
      BY <2>3, <2>4, <3>1, <3>3
    <3>5. e * c <= c * c
      BY <3>4
    <3> QED
      BY <1>8, <2>4, <2>5, <3>1, <3>2, <3>3, <3>5
  <2>6. CASE r # "cpu"
    <3>1. PICK k \in Nat : /\ Size!Amounts(q, r, "max") = [regular |-> k * u]
                           /\ n * k > q.app[r]["max"] - n
      BY <1>7, <2>1, <2>6
    <3>2. j <= k
      <4>1. n * j < n * k + n
        BY <2>3, <2>4, <3>1
      <4>2. j >= k + 1 => n * j >= n * (k + 1)
        OBVIOUS
      <4>3. n * (k + 1) = n * k + n
        OBVIOUS
      <4> QED
        BY <4>1, <4>2, <4>3
    <3>3. j * u <= k * u /\ k * u \in Nat
      BY <3>2
    <3> QED
      BY <2>4, <3>1, <3>3
  <2> QED
    BY <2>5, <2>6
<1>11. "irregular" \notin DOMAIN Size!Shares(q) /\ "regular" \in DOMAIN Size!Shares(q)
  BY <1>4
<1>12. Size!Total(q, CpuGiven(q)) = n * (rd * u)
  BY <1>1, <1>6 DEF Size!Total
<1>13. 2 * (n * (rd * u)) <= 2 * (c * u) + n * u
  <2>1. PICK e \in Int : e = n * rd
    OBVIOUS
  <2>2. PICK f \in Int : f = 2 * c + n - 2 * e /\ f >= 0
    BY <1>5, <2>1
  <2>3. f * u >= 0
    BY <2>2
  <2>4. 2 * (n * (rd * u)) = (2 * c + n - f) * u
    <3>1. n * (rd * u) = e * u
      BY <2>1
    <3>2. (2 * c + n - f) = 2 * e
      BY <2>2
    <3> QED
      BY <3>1, <3>2
  <2>5. (2 * c + n - f) * u = 2 * (c * u) + n * u - f * u
    OBVIOUS
  <2> QED
    BY <2>3, <2>4, <2>5
<1>14. Size!Amounts(q, "cpu", "min").regular <= CpuGiven(q).regular
  <2>1. PICK j \in Nat : /\ Size!Amounts(q, "cpu", "min") = [regular |-> j * u]
                         /\ n * j <= q.app["cpu"]["min"]
    BY <1>7 DEF Size!Bound, Size!Resource
  <2>2. n * j <= c
    BY <1>2, <2>1 DEF IsApplication, Size!Resource
  <2>3. PICK k \in Int, m \in 0..(n - 1) : k = c \div n /\ m = c % n /\ c = n * k + m
    BY Divided
  <2>4. j <= k
    <3>1. j >= k + 1 => n * j >= n * (k + 1)
      OBVIOUS
    <3>2. n * (k + 1) = n * k + n
      OBVIOUS
    <3> QED
      BY <2>2, <2>3, <3>1, <3>2
  <2>5. j <= rd
    BY <1>5, <2>3, <2>4
  <2>6. j * u <= rd * u
    BY <2>5
  <2> QED
    BY <1>6, <2>1, <2>6
<1>15. /\ Size!TimesUnit(q, q.app["cpu"]["max"]) = c * u
       /\ Size!TimesUnit(q, q.n) = n * u
  BY <1>1, <1>2, <1>3, Zenon DEF Size!TimesUnit
<1> QED
  BY <1>9, <1>10, <1>11, <1>12, <1>13, <1>14, <1>15, Zenon DEF RightAmounts

\* With one.
LEMMA IrregularAmounts ==
  ASSUME NEW q, IsApplication(q), Size!IrregularType(q) # "none"
  PROVE  RightAmounts(q)
<1>1. PICK n \in Nat \ {0} : n = q.n
  BY DEF IsApplication
<1>2. PICK c \in Nat \ {0} : c = q.app["cpu"]["max"]
  BY DEF IsApplication, Size!Resource
<1>3. PICK u \in Nat \ {0} : u = n * c /\ Size!unit(q) = u
  BY <1>1, <1>2 DEF Size!unit
<1>4. PICK a, b \in Nat \ {0} : /\ Size!Shares(q) = [regular |-> a * n, irregular |-> b * n]
                                /\ (n - 1) * a + b = c /\ c < 2 * a * n
  <2>1. q.n \in Nat \ {0} /\ q.app.cpu.max \in Nat
    BY <1>1, <1>2
  <2>2. q.n = n /\ q.app.cpu.max = c
    BY <1>1, <1>2
  <2>3. \E a, b \in Nat \ {0} : /\ Size!Shares(q) = [regular |-> a * q.n, irregular |-> b * q.n]
                                /\ (q.n - 1) * a + b = q.app.cpu.max /\ q.app.cpu.max < 2 * a * q.n
    BY <2>1, WholeShares
  <2> QED
    BY <2>2, <2>3
<1> Cut(n, a, b, c, u)
  BY <1>3, <1>4 DEF Cut
<1>5. /\ Size!Total(q, CpuGiven(q)) = c * u /\ CpuGiven(q).regular = a * u
      /\ "irregular" \in DOMAIN Size!Shares(q) /\ "regular" \in DOMAIN Size!Shares(q)
  <2>1. Size!Rounded(a * n, n) = a /\ Size!Rounded(b * n, n) = b
    BY RoundedExactly
  <2>2. CpuGiven(q) = [regular |-> a * u, irregular |-> b * u]
    BY <1>1, <1>3, <1>4, <2>1 DEF CpuGiven, Size!TimesUnit
  <2>3. (n - 1) * (a * u) + b * u = c * u
    <3>1. (n - 1) * (a * u) + b * u = ((n - 1) * a + b) * u
      OBVIOUS
    <3> QED
      BY <1>4, <3>1
  <2>4. Size!Total(q, CpuGiven(q)) = (n - 1) * (a * u) + b * u
    BY <1>1, <2>2 DEF Size!Total
  <2> QED
    BY <1>4, <2>2, <2>3, <2>4
<1>6. /\ Size!Amounts(q, "cpu", "max").regular = a * u /\ a * u \in Nat
  <2>1. Size!Amounts(q, "cpu", "max") = [t \in DOMAIN Size!Shares(q) |-> Size!Shares(q)[t] * c]
    BY <1>2 DEF Size!Amounts
  <2>2. Size!Amounts(q, "cpu", "max").regular = (a * n) * c
    BY <1>4, <2>1
  <2>3. (a * n) * c = a * u
    BY <1>3
  <2> QED
    BY <2>2, <2>3
<1>7. ASSUME NEW r \in Size!Resource, NEW l \in Size!Bound, <<r, l>> # <<"cpu", "max">>
      PROVE  \E k, over, y, z :
               /\ Size!Amounts(q, r, l) = [regular |-> y, irregular |-> z]
               /\ Split(y, z, n, a, u, q.app[r][l], k, over)
  <2>1. PICK x \in Nat : x = q.app[r][l]
    BY DEF IsApplication, Size!Bound
  <2>2. Size!Amounts(q, r, l) = Size!Scaled(q, x)
    BY <1>7, <2>1 DEF Size!Amounts
  <2>3. q.n = n /\ q.app.cpu.max = c
    BY <1>1, <1>2
  <2>4. \E k, over, y, z :
               /\ Size!Scaled(q, x) = [regular |-> y, irregular |-> z]
               /\ Split(y, z, n, a, u, x, k, over)
    BY <1>4, <2>3, Splits
  <2> QED
    BY <2>1, <2>2, <2>4
<1>8. ASSUME NEW r \in Size!Resource, NEW l \in Size!Bound, <<r, l>> # <<"cpu", "max">>
      PROVE  /\ Size!Total(q, Size!Amounts(q, r, l)) <= Size!TimesUnit(q, q.app[r][l])
             /\ Size!Total(q, Size!Amounts(q, r, l))
                  > Size!TimesUnit(q, q.app[r][l]) - Size!TimesUnit(q, q.n)
  <2>1. PICK k, over, y, z :
               /\ Size!Amounts(q, r, l) = [regular |-> y, irregular |-> z]
               /\ Split(y, z, n, a, u, q.app[r][l], k, over)
    BY <1>7, <1>8
  <2>2. PICK x \in Nat : x = q.app[r][l]
    BY DEF IsApplication, Size!Bound
  <2>3. (n - 1) * y + z <= x * u /\ (n - 1) * y + z > x * u - n * u
    BY <2>1, <2>2, SplitTotal
  <2> y \in Int /\ z \in Int
    BY <2>1 DEF Split
  <2>4. Size!Total(q, Size!Amounts(q, r, l)) = (n - 1) * y + z
    BY <1>1, <2>1 DEF Size!Total
  <2> QED
    BY <1>1, <1>3, <2>2, <2>3, <2>4, Zenon DEF Size!TimesUnit
<1>9. Size!Amounts(q, "cpu", "min").regular <= a * u
  <2>1. PICK k, over, y, z :
               /\ Size!Amounts(q, "cpu", "min") = [regular |-> y, irregular |-> z]
               /\ Split(y, z, n, a, u, q.app["cpu"]["min"], k, over)
    BY <1>7 DEF Size!Bound, Size!Resource
  <2>2. PICK x \in Nat : x = q.app["cpu"]["min"] /\ x <= c
    BY <1>2 DEF IsApplication, Size!Resource
  <2> k \in Nat /\ over \in 0..(u - 1) /\ y \in Int /\ z \in Int
    BY <2>1 DEF Split
  <2>3. (a * n) * x = u * k + over /\ (over = 0 => y = u * k \/ y = 0)
    BY <2>1, <2>2 DEF Split
  <2>4. u * k <= y /\ y <= u * (k + 1)
    BY <2>1, <2>2, SplitTotal
  <2>5. (a * n) * x <= a * u
    <3>1. PICK e \in Nat : c = x + e
      <4>1. c - x \in Nat /\ c = x + (c - x)
        BY <2>2
      <4> QED
        BY <4>1
    <3>2. a * u = (a * n) * x + (a * n) * e
      BY <1>3, <3>1
    <3>3. (a * n) * e >= 0
      <4>1. a * n \in Nat
        OBVIOUS
      <4> QED
        BY <4>1
    <3> QED
      BY <3>2, <3>3
  <2>6. CASE k < a
    <3>1. u * (k + 1) <= a * u
      BY <2>6
    <3> QED
      BY <2>1, <2>4, <3>1
  <2>7. CASE k >= a
    <3>1. u * k >= a * u
      BY <2>7
    <3>2. over = 0 /\ u * k = a * u
      BY <2>3, <2>5, <3>1
    <3> QED
      BY <1>6, <2>1, <2>3, <3>2
  <2> QED
    BY <2>6, <2>7
<1>10. ASSUME NEW r \in Size!Resource
       PROVE  /\ Size!Amounts(q, r, "min").regular \in Nat
              /\ Size!Amounts(q, r, "max").regular \in Nat
              /\ Size!Amounts(q, r, "min").regular <= Size!Amounts(q, r, "max").regular
  <2>1. "min" \in Size!Bound /\ "max" \in Size!Bound
    BY DEF Size!Bound
  <2>2. PICK x, x2 \in Nat : x = q.app[r]["min"] /\ x2 = q.app[r]["max"] /\ x <= x2
    BY DEF IsApplication
  <2>3. PICK k, over, y, z :
               /\ Size!Amounts(q, r, "min") = [regular |-> y, irregular |-> z]
               /\ Split(y, z, n, a, u, x, k, over)
    BY <1>7, <2>1, <2>2
  <2>4. y >= 0 /\ y \in Int
    BY <2>3, SplitTotal DEF Split
  <2>5. CASE r = "cpu"
    BY <1>6, <1>9, <2>3, <2>4, <2>5
  <2>6. CASE r # "cpu"
    <3>1. PICK k2, over2, y2, z2 :
               /\ Size!Amounts(q, r, "max") = [regular |-> y2, irregular |-> z2]
               /\ Split(y2, z2, n, a, u, x2, k2, over2)
      BY <1>7, <2>1, <2>2, <2>6
    <3>2. y2 >= 0 /\ y2 \in Int
      BY <3>1, SplitTotal DEF Split
    <3>3. y <= y2
      BY <2>2, <2>3, <3>1, SplitGrows
    <3> QED
      BY <2>3, <2>4, <3>1, <3>2, <3>3
  <2> QED
    BY <2>5, <2>6
<1>11. /\ Size!TimesUnit(q, q.app["cpu"]["max"]) = c * u
       /\ Size!TimesUnit(q, q.n) = n * u
  BY <1>1, <1>2, <1>3, Zenon DEF Size!TimesUnit
<1>12. 2 * (c * u) <= 2 * (c * u) + n * u
  BY <1>1
<1> QED
  BY <1>5, <1>8, <1>9, <1>10, <1>11, <1>12, Zenon DEF RightAmounts

\* The containers of any application have what it has, and no regular one has more at least
\* than at most (getContainerResourcesForApp).
THEOREM SharesAlwaysAddUp ==
  ASSUME NEW q, IsApplication(q), ~Size!ContainerResources(q).raised
  PROVE  LET OfApp(r, b) == Size!TimesUnit(q, q.app[r][b])
             made        == Size!ContainerResources(q)
             Given(r, b) == Size!Total(q, made.amounts[r][b])
         IN  /\ "irregular" \in DOMAIN Size!Shares(q) => Given("cpu", "max") = OfApp("cpu", "max")
             /\ 2 * Given("cpu", "max") <= 2 * OfApp("cpu", "max") + Size!TimesUnit(q, q.n)
             /\ \A r \in Size!Resource, b \in Size!Bound : <<r, b>> # <<"cpu", "max">> =>
                  /\ Given(r, b) <= OfApp(r, b)
                  /\ Given(r, b) > OfApp(r, b) - Size!TimesUnit(q, q.n)
             /\ \A r \in Size!Resource :
                  /\ made.amounts[r]["min"].regular <= made.amounts[r]["max"].regular
                  /\ q.benevolence # -1 => made.boundaries[r].regular \in 0..100
<1>1. RightAmounts(q)
  BY EvenAmounts, IrregularAmounts
<1> DEFINE made == Size!ContainerResources(q)
           amounts == [r \in Size!Resource |-> [b \in Size!Bound |->
              IF r = "cpu" /\ b = "max" THEN CpuGiven(q) ELSE Size!Amounts(q, r, b)]]
           boundaries == [r \in (IF q.benevolence = -1 THEN {} ELSE Size!Resource) |->
                            [t \in DOMAIN Size!Shares(q) |-> Size!Boundary(q, r, t)]]
<1>2. ~Size!Raises(q) /\ made = [raised |-> FALSE, amounts |-> amounts, boundaries |-> boundaries]
  BY Zenon DEF Size!ContainerResources, CpuGiven
<1>3. made.amounts = amounts /\ made.boundaries = boundaries
  <2> HIDE DEF made, amounts, boundaries
  <2> QED
    BY <1>2
<1>4. \A r \in Size!Resource, b \in Size!Bound :
        amounts[r][b] = IF r = "cpu" /\ b = "max" THEN CpuGiven(q) ELSE Size!Amounts(q, r, b)
  OBVIOUS
<1>5. q.benevolence # -1 => \A r \in Size!Resource :
        boundaries[r] = [t \in DOMAIN Size!Shares(q) |-> Size!Boundary(q, r, t)]
  OBVIOUS
<1> HIDE DEF made, amounts, boundaries
<1>6. "cpu" \in Size!Resource /\ "min" \in Size!Bound /\ "max" \in Size!Bound
  BY DEF Size!Resource, Size!Bound
<1>7. made.amounts["cpu"]["max"] = CpuGiven(q)
  BY <1>3, <1>4, <1>6
<1>8. \A r \in Size!Resource, b \in Size!Bound : <<r, b>> # <<"cpu", "max">> =>
        made.amounts[r][b] = Size!Amounts(q, r, b)
  BY <1>3, <1>4
<1>9. ASSUME NEW r \in Size!Resource
      PROVE  made.amounts[r]["min"].regular <= made.amounts[r]["max"].regular
  <2>1. made.amounts[r]["min"] = Size!Amounts(q, r, "min")
    BY <1>6, <1>8
  <2>2. CASE r = "cpu"
    BY <1>1, <1>7, <2>1, <2>2 DEF RightAmounts
  <2>3. CASE r # "cpu"
    <3>1. made.amounts[r]["max"] = Size!Amounts(q, r, "max")
      BY <1>6, <1>8, <2>3
    <3> QED
      BY <1>1, <2>1, <3>1 DEF RightAmounts
  <2> QED
    BY <2>2, <2>3
<1>10. ASSUME NEW r \in Size!Resource, q.benevolence # -1
       PROVE  made.boundaries[r].regular \in 0..100
  <2>1. made.boundaries[r].regular = Size!Boundary(q, r, "regular")
    BY <1>1, <1>3, <1>5, <1>10 DEF RightAmounts
  <2>2. PICK min, max \in Nat : /\ min = Size!Amounts(q, r, "min").regular
                                /\ max = Size!Amounts(q, r, "max").regular /\ min <= max
    BY <1>1 DEF RightAmounts
  <2>3. max # 0
    <3>1. "regular" \in DOMAIN Size!Shares(q)
      BY <1>1 DEF RightAmounts
    <3> QED
      BY <1>2, <1>10, <2>2, <3>1 DEF Size!Raises
  <2>4. q.benevolence \in {1, 2, 3}
    BY <1>10 DEF IsApplication
  <2>5. PICK halves \in Nat \ {0} : halves = 2 ^ (q.benevolence + 1)
    <3>1. CASE q.benevolence = 1
      BY <3>1
    <3>2. CASE q.benevolence = 2
      BY <3>2
    <3>3. CASE q.benevolence = 3
      BY <3>3
    <3> QED
      BY <2>4, <3>1, <3>2, <3>3
  <2>6. Size!Boundary(q, r, "regular") = Size!Rounded((max - min) * 100, halves * max)
    BY <2>2, <2>5, Zenon DEF Size!Boundary
  <2>7. max \in Nat \ {0} /\ min <= max
    BY <2>2, <2>3
  <2>8. Size!Rounded((max - min) * 100, halves * max) \in 0..100
    BY <2>7, BoundaryPercents, Zenon
  <2> QED
    BY <2>1, <2>6, <2>8, Zenon
<1>11. \A r \in Size!Resource, b \in Size!Bound : <<r, b>> # <<"cpu", "max">> =>
         /\ Size!Total(q, made.amounts[r][b]) <= Size!TimesUnit(q, q.app[r][b])
         /\ Size!Total(q, made.amounts[r][b])
              > Size!TimesUnit(q, q.app[r][b]) - Size!TimesUnit(q, q.n)
  <2> SUFFICES ASSUME NEW r \in Size!Resource, NEW b \in Size!Bound, <<r, b>> # <<"cpu", "max">>
               PROVE  /\ Size!Total(q, made.amounts[r][b]) <= Size!TimesUnit(q, q.app[r][b])
                      /\ Size!Total(q, made.amounts[r][b])
                           > Size!TimesUnit(q, q.app[r][b]) - Size!TimesUnit(q, q.n)
    BY Zenon
  <2>1. made.amounts[r][b] = Size!Amounts(q, r, b)
    BY <1>8
  <2> QED
    BY <1>1, <2>1, Zenon DEF RightAmounts
<1>12. /\ "irregular" \in DOMAIN Size!Shares(q) =>
            Size!Total(q, made.amounts["cpu"]["max"]) = Size!TimesUnit(q, q.app["cpu"]["max"])
       /\ 2 * Size!Total(q, made.amounts["cpu"]["max"])
            <= 2 * Size!TimesUnit(q, q.app["cpu"]["max"]) + Size!TimesUnit(q, q.n)
  BY <1>1, <1>7, Zenon DEF RightAmounts
<1> QED
  BY <1>9, <1>10, <1>11, <1>12, Zenon DEF made

\* The elements of a set in the order in which a fold from the left leaves them.
Top(s) == CHOOSE x \in s : \A y \in s : x >= y

LEMMA Tops ==
  ASSUME NEW n \in Nat
  PROVE  /\ \A s \in SUBSET (1..n) : s # {} => Top(s) \in s
         /\ \A i \in 1..n : Top(1..i) = i /\ (1..i) \ {i} = 1..(i - 1)
<1>1. ASSUME NEW s \in SUBSET (1..n), s # {} PROVE Top(s) \in s
  <2> DEFINE above == {m \in Nat : \A y \in s : y <= m}
  <2>1. n \in above
    BY <1>1
  <2>2. PICK m \in above : \A k \in above : m <= k
    BY <2>1, LeastNumber
  <2>3. m \in s
    <3> SUFFICES ASSUME m \notin s PROVE FALSE
      OBVIOUS
    <3>1. \A y \in s : y <= m - 1
      <4> SUFFICES ASSUME NEW y \in s PROVE y <= m - 1
        OBVIOUS
      <4>1. y <= m /\ y # m /\ y \in Nat /\ m \in Nat
        BY <2>2
      <4> QED
        BY <4>1
    <3>2. PICK y \in s : y >= 1 /\ y \in Nat
      <4>1. PICK y : y \in s
        BY <1>1, Zenon
      <4> QED
        BY <4>1
    <3>3. m - 1 \in Nat
      BY <2>2, <3>1, <3>2
    <3>4. m - 1 \in above
      BY <3>1, <3>3
    <3> QED
      BY <2>2, <3>4
  <2>4. \E x \in s : \A y \in s : x >= y
    BY <2>2, <2>3
  <2> QED
    BY <2>4 DEF Top
<1>2. ASSUME NEW i \in 1..n PROVE Top(1..i) = i /\ (1..i) \ {i} = 1..(i - 1)
  <2>1. i \in 1..i /\ \A y \in 1..i : i >= y
    OBVIOUS
  <2>2. \A x \in 1..i : (\A y \in 1..i : x >= y) => x = i
    OBVIOUS
  <2>3. (1..i) \ {i} = 1..(i - 1)
    OBVIOUS
  <2> QED
    BY <2>1, <2>2, <2>3 DEF Top
<1> QED
  BY <1>1, <1>2

IsFold(h, n, origin, move) ==
  h = [s \in SUBSET (1..n) |-> IF s = {} THEN origin ELSE move[<<h[s \ {Top(s)}], Top(s)>>]]

\* A fold of steps that stay in a set is a function, and stays in it.
LEMMA StepsFold ==
  ASSUME NEW n \in Nat, NEW B, NEW origin \in B, NEW move \in [B \X (1..n) -> B]
  PROVE  \E h : h \in [SUBSET (1..n) -> B] /\ IsFold(h, n, origin, move)
<1> DEFINE S == 1..n
           UpToSize(m) == {s \in SUBSET S : Cardinality(s) <= m}
           Value(h, s) == IF s = {} THEN origin ELSE move[<<h[s \ {Top(s)}], Top(s)>>]
           Folds(h, m) == h \in [UpToSize(m) -> B] /\ \A s \in UpToSize(m) : h[s] = Value(h, s)
           Bad == {m \in Nat : ~\E h : Folds(h, m)}
<1>1. IsFiniteSet(S)
  BY FS_Interval
<1>2. \A s \in SUBSET S : Cardinality(s) \in Nat /\ (Cardinality(s) = 0 <=> s = {})
  BY <1>1, FS_Subset, FS_CardinalityType, FS_EmptySet
<1>3. \A s \in SUBSET S : s # {} => Top(s) \in s /\ Top(s) \in S
  BY Tops
<1>4. ASSUME NEW s \in SUBSET S, s # {}
      PROVE  s \ {Top(s)} \in SUBSET S /\ Cardinality(s \ {Top(s)}) < Cardinality(s)
  <2>1. PICK x \in s : x = Top(s)
    BY <1>3, <1>4
  <2>2. IsFiniteSet(s)
    BY <1>1, FS_Subset
  <2>3. Cardinality(s) \in Nat /\ Cardinality(s \ {x}) = Cardinality(s) - 1
    BY <2>2, FS_CardinalityType, FS_RemoveElement
  <2>4. PICK c \in Nat : c = Cardinality(s)
    BY <2>3
  <2>5. Cardinality(s \ {x}) = c - 1 /\ c - 1 < c
    BY <2>3, <2>4
  <2> QED
    BY <2>1, <2>4, <2>5, Zenon
<1>5. Bad = {}
  <2> SUFFICES ASSUME Bad # {} PROVE FALSE
    OBVIOUS
  <2>1. PICK m \in Bad : \A k \in Bad : m <= k
    BY LeastNumber
  <2>2. CASE m = 0
    <3>1. UpToSize(m) = {{}}
      BY <1>2, <2>2
    <3>2. PICK h : h = [s \in {{}} |-> origin]
      OBVIOUS
    <3>3. h \in [{{}} -> B] /\ h[{}] = origin
      BY <3>2
    <3>4. Folds(h, m)
      BY <3>1, <3>3
    <3> QED
      BY <2>1, <3>4
  <2>3. CASE m # 0
    <3>1. m - 1 \in Nat /\ m - 1 \notin Bad /\ m \in Nat
      <4>1. m \in Nat
        BY <2>1
      <4> HIDE DEF Bad
      <4>2. m - 1 \in Nat /\ ~(m <= m - 1)
        BY <2>3, <4>1
      <4> QED
        BY <2>1, <4>1, <4>2
    <3>2. \E k : Folds(k, m - 1)
      <4> HIDE DEF Folds
      <4> QED
        BY <3>1
    <3>3. PICK k : Folds(k, m - 1)
      BY <3>2
    <3>4. PICK h : h = [s \in UpToSize(m) |-> Value(k, s)]
      OBVIOUS
    <3>5. ASSUME NEW s \in UpToSize(m), s # {}
          PROVE  /\ s \ {Top(s)} \in UpToSize(m - 1) /\ s \ {Top(s)} \in UpToSize(m)
                 /\ Top(s) \in 1..n
      <4>1. s \ {Top(s)} \in SUBSET S /\ Cardinality(s \ {Top(s)}) < Cardinality(s)
        BY <1>4, <3>5
      <4>2. Cardinality(s) \in Nat /\ Cardinality(s \ {Top(s)}) \in Nat /\ Cardinality(s) <= m
        BY <1>2, <4>1
      <4>3. Cardinality(s \ {Top(s)}) <= m - 1 /\ Cardinality(s \ {Top(s)}) <= m
        BY <3>1, <4>1, <4>2
      <4> QED
        BY <1>3, <3>5, <4>1, <4>3
    <3>6. ASSUME NEW s \in UpToSize(m - 1), s \in UpToSize(m)
          PROVE  k[s] = h[s]
      BY <3>3, <3>4, <3>6
    <3>7. ASSUME NEW s \in UpToSize(m)
          PROVE  Value(k, s) = Value(h, s) /\ Value(k, s) \in B
      <4>1. CASE s = {}
        BY <4>1
      <4>2. CASE s # {}
        <5>1. k[s \ {Top(s)}] = h[s \ {Top(s)}]
          BY <3>5, <3>6, <4>2
        <5>2. k[s \ {Top(s)}] \in B
          BY <3>3, <3>5, <4>2
        <5>3. move[<<k[s \ {Top(s)}], Top(s)>>] \in B
          BY <3>5, <4>2, <5>2
        <5> QED
          BY <4>2, <5>1, <5>3
      <4> QED
        BY <4>1, <4>2
    <3>8. Folds(h, m)
      <4> HIDE DEF UpToSize, Value
      <4> QED
        BY <3>4, <3>7
    <3> QED
      BY <2>1, <3>8
  <2> QED
    BY <2>2, <2>3
<1>6. Cardinality(S) = n
  <2>1. Cardinality(1..n) = IF 1 > n THEN 0 ELSE n - 1 + 1
    BY FS_Interval
  <2> QED
    BY <2>1
<1>7. UpToSize(n) = SUBSET S
  <2>1. ASSUME NEW s \in SUBSET S PROVE Cardinality(s) <= n
    <3>1. Cardinality(s) <= Cardinality(S)
      BY <1>1, FS_Subset
    <3> QED
      BY <1>6, <3>1
  <2> QED
    BY <2>1
<1>8. PICK h : Folds(h, n)
  <2> HIDE DEF Folds
  <2> QED
    BY <1>5
<1>9. h \in [SUBSET (1..n) -> B] /\ \A s \in SUBSET (1..n) : h[s] = Value(h, s)
  BY <1>7, <1>8
<1>10. h = [s \in SUBSET (1..n) |-> Value(h, s)]
  <2> HIDE DEF Value
  <2> QED
    BY <1>9
<1> QED
  BY <1>9, <1>10 DEF IsFold

LEMMA CeilDivides ==
  ASSUME NEW x \in Nat, NEW d \in Nat \ {0}
  PROVE  \E c \in Nat : c = Size!CeilDiv(x, d) /\ x <= d * c /\ d * c < x + d
<1>1. PICK y \in Int : y = x + d - 1
  OBVIOUS
<1>2. PICK k \in Int, m \in 0..(d - 1) : k = y \div d /\ m = y % d /\ y = d * k + m
  BY Divided
<1>3. k \in Nat
  <2>1. k < 0 => d * k <= -d
    OBVIOUS
  <2>2. d * k > -d
    BY <1>1, <1>2
  <2> QED
    BY <2>1, <2>2
<1>4. x <= d * k /\ d * k < x + d
  BY <1>1, <1>2
<1> QED
  BY <1>1, <1>2, <1>3, <1>4 DEF Size!CeilDiv

\* Larger slices are not more.
LEMMA CeilShrinks ==
  ASSUME NEW x \in Nat, NEW d \in Nat \ {0}, NEW e \in Nat \ {0}, d <= e
  PROVE  Size!CeilDiv(x, e) <= Size!CeilDiv(x, d)
<1>1. PICK c \in Nat : c = Size!CeilDiv(x, d) /\ x <= d * c
  BY CeilDivides
<1>2. PICK f \in Nat : f = Size!CeilDiv(x, e) /\ e * f < x + e
  BY CeilDivides
<1>3. d * c <= e * c
  OBVIOUS
<1>4. f >= c + 1 => e * f >= e * (c + 1)
  OBVIOUS
<1>5. e * (c + 1) = e * c + e
  OBVIOUS
<1>6. f <= c
  BY <1>1, <1>2, <1>3, <1>4, <1>5
<1> QED
  BY <1>1, <1>2, <1>6

\* What is asked of get_mappers, where there is something to choose.
IsTransfer(q) ==
  /\ q.files \in Nat \ {0} /\ q.blocks \in Nat \ {0} /\ q.maxMappers \in Nat \ {0}
  /\ q.mode \in {"distcp-default", "mapred-default", "nearest-multiple", "best-effort"}

Largest(q) == Size!CeilDiv(q.blocks, q.files)

LEMMA LargestIsOne ==
  ASSUME NEW q, IsTransfer(q)
  PROVE  Largest(q) \in Nat \ {0}
<1>1. PICK b \in Nat \ {0} : b = q.blocks
  BY DEF IsTransfer
<1>2. PICK f \in Nat \ {0} : f = q.files
  BY DEF IsTransfer
<1>3. PICK c \in Nat : c = Size!CeilDiv(b, f) /\ b <= f * c
  BY CeilDivides
<1>4. c # 0
  <2>1. c = 0 => f * c = 0
    OBVIOUS
  <2> QED
    BY <1>1, <1>3, <2>1
<1> QED
  BY <1>1, <1>2, <1>3, <1>4 DEF Largest

\* Larger slices need no more mappers.
LEMMA MappersShrink ==
  ASSUME NEW q, IsTransfer(q)
  PROVE  /\ \A s \in Nat \ {0} : Size!EstimatedMappers(q, s) \in Nat
         /\ Size!EstimatedMappers(q, 1) = q.blocks
         /\ \A s, t \in Nat \ {0} : s <= t =>
              Size!EstimatedMappers(q, t) <= Size!EstimatedMappers(q, s)
<1>1. PICK b \in Nat \ {0} : b = q.blocks
  BY DEF IsTransfer
<1>2. PICK f \in Nat \ {0} : f = q.files
  BY DEF IsTransfer
<1>3. PICK k \in Int, m \in 0..(f - 1) : k = b \div f /\ m = b % f /\ b = f * k + m
  BY Divided
<1>4. k \in Nat
  <2>1. k < 0 => f * k <= -f
    OBVIOUS
  <2>2. f * k > -f
    BY <1>3
  <2> QED
    BY <2>1, <2>2
<1>5. PICK c \in Nat : c = Size!CeilDiv(b, f) /\ b <= f * c /\ f * c < b + f
  BY CeilDivides
<1>6. (m = 0 => c = k) /\ (m # 0 => c = k + 1)
  <2>1. c <= k - 1 => f * c <= f * (k - 1)
    BY <1>4
  <2>2. f * (k - 1) = f * k - f /\ f * (k + 1) = f * k + f /\ f * (k + 2) = f * k + 2 * f
    OBVIOUS
  <2>3. c >= k + 1 => f * c >= f * (k + 1)
    BY <1>4
  <2>4. c >= k + 2 => f * c >= f * (k + 2)
    BY <1>4
  <2>5. c = k => f * c = f * k
    OBVIOUS
  <2>6. m = 0 => ~(c <= k - 1) /\ ~(c >= k + 1)
    BY <1>3, <1>5, <2>1, <2>2, <2>3
  <2>7. m # 0 => ~(c <= k - 1) /\ ~(c >= k + 2) /\ c # k
    BY <1>3, <1>5, <2>1, <2>2, <2>4, <2>5
  <2> QED
    BY <1>4, <2>6, <2>7
<1>7. (f - m) * k + m * c = b
  <2>1. CASE m = 0
    BY <1>3, <1>6, <2>1
  <2>2. CASE m # 0
    <3>1. (f - m) * k + m * (k + 1) = f * k + m
      OBVIOUS
    <3> QED
      BY <1>3, <1>6, <2>2, <3>1
  <2> QED
    BY <2>1, <2>2
<1> DEFINE Cut1(s) == Size!CeilDiv(k, s)
           Cut2(s) == Size!CeilDiv(c, s)
<1>8. \A s \in Nat \ {0} : Cut1(s) \in Nat /\ Cut2(s) \in Nat
  BY <1>4, CeilDivides
<1>9. \A s, t \in Nat \ {0} : s <= t => Cut1(t) <= Cut1(s) /\ Cut2(t) <= Cut2(s)
  BY <1>4, CeilShrinks
<1>10. Cut1(1) = k /\ Cut2(1) = c
  BY <1>4 DEF Size!CeilDiv
<1>11. \A s \in Nat \ {0} : s # 1 =>
         Size!EstimatedMappers(q, s) = (f - m) * Cut1(s) + m * Cut2(s)
  BY <1>1, <1>2, <1>3, <1>5, Zenon DEF Size!EstimatedMappers
<1> HIDE DEF Cut1, Cut2
<1>12. Size!EstimatedMappers(q, 1) = b
  BY <1>1 DEF Size!EstimatedMappers
<1>13. \A s \in Nat \ {0} : Size!EstimatedMappers(q, s) = (f - m) * Cut1(s) + m * Cut2(s)
  <2> SUFFICES ASSUME NEW s \in Nat \ {0}
               PROVE  Size!EstimatedMappers(q, s) = (f - m) * Cut1(s) + m * Cut2(s)
    OBVIOUS
  <2>1. CASE s = 1
    BY <1>7, <1>10, <1>12, <2>1, Zenon
  <2>2. CASE s # 1
    BY <1>11, <2>2
  <2> QED
    BY <2>1, <2>2
<1>14. ASSUME NEW s \in Nat \ {0} PROVE Size!EstimatedMappers(q, s) \in Nat
  <2>1. PICK i, j \in Nat : i = Cut1(s) /\ j = Cut2(s)
    BY <1>8
  <2>2. (f - m) * i \in Nat /\ m * j \in Nat
    OBVIOUS
  <2> QED
    BY <1>13, <2>1, <2>2
<1>15. ASSUME NEW s \in Nat \ {0}, NEW t \in Nat \ {0}, s <= t
       PROVE  Size!EstimatedMappers(q, t) <= Size!EstimatedMappers(q, s)
  <2>1. PICK i, j, i2, j2 \in Nat : /\ i = Cut1(s) /\ j = Cut2(s) /\ i2 = Cut1(t) /\ j2 = Cut2(t)
                                    /\ i2 <= i /\ j2 <= j
    BY <1>8, <1>9, <1>15
  <2>2. PICK g \in Nat : g = f - m
    BY <1>3
  <2>3. g * i2 <= g * i /\ m * j2 <= m * j
    BY <2>1
  <2>4. g * i2 + m * j2 <= g * i + m * j
    BY <2>3
  <2> QED
    BY <1>13, <2>1, <2>2, <2>4
<1> QED
  BY <1>1, <1>12, <1>14, <1>15

(* The search of get_mappers, one slicing after the other *)

\* With fewer files than mappers.
NearestStart(q) == [slicing |-> 1, diff |-> q.blocks - q.maxMappers, stop |-> FALSE]
NearestTry(q, best, s) ==
  LET diff == Size!EstimatedMappers(q, s) - q.maxMappers IN
  IF best.stop THEN best
  ELSE [slicing |-> IF diff = 0 \/ (diff > 0 /\ diff < best.diff) THEN s ELSE best.slicing,
        diff    |-> IF diff = 0 \/ (diff > 0 /\ diff < best.diff) THEN diff ELSE best.diff,
        stop    |-> diff <= 0]

LEMMA NearestFolds ==
  ASSUME NEW q, IsTransfer(q)
  PROVE  \E h : /\ Size!Nearest(q) = h[1..(Largest(q) - 1)].slicing
                /\ h[1..0] = NearestStart(q)
                /\ \A i \in 1..(Largest(q) - 1) : h[1..i] = NearestTry(q, h[1..(i - 1)], i + 1)
<1>1. PICK n \in Nat : n = Largest(q) - 1
  BY LargestIsOne
<1> DEFINE B == [slicing : Nat \ {0}, diff : Int, stop : BOOLEAN]
           F(h) == h = [s \in SUBSET (1..n) |->
                          IF s = {} THEN NearestStart(q)
                          ELSE NearestTry(q, h[s \ {Top(s)}], Size!Slicings(q)[Top(s)])]
<1>2. DOMAIN Size!Slicings(q) = 1..n /\ \A i \in 1..n : Size!Slicings(q)[i] = i + 1
  BY <1>1 DEF Size!Slicings, Largest
<1>3. Size!Nearest(q) = (CHOOSE h : F(h))[1..n].slicing
  BY <1>2, Zenon DEF Size!Nearest, Size!FoldLeft, Size!MapThenFoldSet, Size!Max, Top,
     NearestStart, NearestTry
<1>4. NearestStart(q) \in B
  <2>1. Size!EstimatedMappers(q, 1) \in Nat /\ q.maxMappers \in Nat \ {0} /\ q.blocks \in Nat
    BY MappersShrink DEF IsTransfer
  <2> QED
    BY <2>1 DEF NearestStart
<1>5. ASSUME NEW old \in B, NEW s \in Nat \ {0} PROVE NearestTry(q, old, s) \in B
  <2>1. Size!EstimatedMappers(q, s) \in Nat /\ q.maxMappers \in Nat \ {0}
    BY MappersShrink DEF IsTransfer
  <2>2. Size!EstimatedMappers(q, s) - q.maxMappers \in Int
        /\ Size!EstimatedMappers(q, s) % q.maxMappers \in Nat
    BY <2>1
  <2> QED
    BY <2>2 DEF NearestTry
<1>6. PICK move : move = [p \in B \X (1..n) |-> NearestTry(q, p[1], p[2] + 1)]
  OBVIOUS
<1>7. move \in [B \X (1..n) -> B]
  <2> SUFFICES ASSUME NEW old \in B, NEW i \in 1..n
               PROVE  NearestTry(q, old, i + 1) \in B
    BY <1>6
  <2> QED
    BY <1>5
<1>8. PICK h : h \in [SUBSET (1..n) -> B] /\ IsFold(h, n, NearestStart(q), move)
  <2> HIDE DEF B
  <2> QED
    BY <1>4, <1>7, StepsFold
<1>9. F(h)
  <2>1. ASSUME NEW s \in SUBSET (1..n), s # {}
        PROVE  move[<<h[s \ {Top(s)}], Top(s)>>]
                 = NearestTry(q, h[s \ {Top(s)}], Size!Slicings(q)[Top(s)])
    <3>1. PICK x \in 1..n : x = Top(s)
      BY <2>1, Tops
    <3>2. h[s \ {x}] \in B
      <4>1. s \ {x} \in SUBSET (1..n)
        OBVIOUS
      <4> QED
        BY <1>8, <4>1
    <3>3. PICK old \in B : old = h[s \ {x}]
      BY <3>2
    <3>4. move[<<old, x>>] = NearestTry(q, old, x + 1)
      BY <1>6
    <3>5. move[<<old, x>>] = NearestTry(q, old, Size!Slicings(q)[x])
      BY <1>2, <3>4
    <3> QED
      BY <3>1, <3>3, <3>5, Zenon
  <2>2. \A s \in SUBSET (1..n) :
          (IF s = {} THEN NearestStart(q) ELSE move[<<h[s \ {Top(s)}], Top(s)>>])
            = (IF s = {} THEN NearestStart(q)
               ELSE NearestTry(q, h[s \ {Top(s)}], Size!Slicings(q)[Top(s)]))
    BY <2>1, Zenon
  <2>3. [s \in SUBSET (1..n) |->
           IF s = {} THEN NearestStart(q) ELSE move[<<h[s \ {Top(s)}], Top(s)>>]]
        = [s \in SUBSET (1..n) |->
             IF s = {} THEN NearestStart(q)
             ELSE NearestTry(q, h[s \ {Top(s)}], Size!Slicings(q)[Top(s)])]
    BY <2>2, Zenon
  <2> QED
    BY <1>8, <2>3, Zenon DEF IsFold
<1>10. PICK g : g = CHOOSE k : F(k)
  OBVIOUS
<1>11. F(g)
  <2> HIDE DEF F
  <2> QED
    BY <1>9, <1>10, Zenon
<1>12. g[1..0] = NearestStart(q)
  <2>1. 1..0 = {} /\ {} \in SUBSET (1..n)
    OBVIOUS
  <2>2. g[{}] = NearestStart(q)
    BY <1>11, <2>1, Zenon
  <2> QED
    BY <2>1, <2>2, Zenon
<1>13. ASSUME NEW i \in 1..n PROVE g[1..i] = NearestTry(q, g[1..(i - 1)], i + 1)
  <2>1. 1..i \in SUBSET (1..n) /\ Top(1..i) = i /\ (1..i) \ {i} = 1..(i - 1)
    BY Tops
  <2>2. 1..i # {}
    <3>1. i \in 1..i
      OBVIOUS
    <3> QED
      BY <3>1, Zenon
  <2>3. g[1..i] = NearestTry(q, g[(1..i) \ {Top(1..i)}], Size!Slicings(q)[Top(1..i)])
    BY <1>11, <2>1, <2>2, Zenon
  <2>4. Size!Slicings(q)[i] = i + 1
    BY <1>2
  <2> QED
    BY <2>1, <2>3, <2>4, Zenon
<1>14. Size!Nearest(q) = g[1..n].slicing
  BY <1>3, <1>10, Zenon
<1> QED
  BY <1>1, <1>12, <1>13, <1>14, Zenon

\* With more.
LastRound(q, s) == Size!EstimatedMappers(q, s) % q.maxMappers
MultiplesStart(q) == [slicing |-> 1, remaining |-> LastRound(q, 1), stop |-> LastRound(q, 1) = 0]
MultiplesTry(q, best, s) ==
  IF best.stop THEN best
  ELSE [slicing   |-> IF LastRound(q, s) = 0 \/ LastRound(q, s) > best.remaining THEN s ELSE best.slicing,
        remaining |-> IF LastRound(q, s) > best.remaining THEN LastRound(q, s) ELSE best.remaining,
        stop      |-> LastRound(q, s) = 0]

LEMMA MultiplesFolds ==
  ASSUME NEW q, IsTransfer(q)
  PROVE  \E h : /\ Size!InMultiples(q) = h[1..(Largest(q) - 1)].slicing
                /\ h[1..0] = MultiplesStart(q)
                /\ \A i \in 1..(Largest(q) - 1) : h[1..i] = MultiplesTry(q, h[1..(i - 1)], i + 1)
<1>1. PICK n \in Nat : n = Largest(q) - 1
  BY LargestIsOne
<1> DEFINE B == [slicing : Nat \ {0}, remaining : Nat, stop : BOOLEAN]
           F(h) == h = [s \in SUBSET (1..n) |->
                          IF s = {} THEN MultiplesStart(q)
                          ELSE MultiplesTry(q, h[s \ {Top(s)}], Size!Slicings(q)[Top(s)])]
<1>2. DOMAIN Size!Slicings(q) = 1..n /\ \A i \in 1..n : Size!Slicings(q)[i] = i + 1
  BY <1>1 DEF Size!Slicings, Largest
<1>3. Size!InMultiples(q) = (CHOOSE h : F(h))[1..n].slicing
  BY <1>2, Zenon DEF Size!InMultiples, Size!FoldLeft, Size!MapThenFoldSet, Size!Max, Top,
     MultiplesStart, MultiplesTry, LastRound
<1>4. MultiplesStart(q) \in B
  <2>1. Size!EstimatedMappers(q, 1) \in Nat /\ q.maxMappers \in Nat \ {0} /\ q.blocks \in Nat
    BY MappersShrink DEF IsTransfer
  <2> QED
    BY <2>1 DEF MultiplesStart, LastRound
<1>5. ASSUME NEW old \in B, NEW s \in Nat \ {0} PROVE MultiplesTry(q, old, s) \in B
  <2>1. Size!EstimatedMappers(q, s) \in Nat /\ q.maxMappers \in Nat \ {0}
    BY MappersShrink DEF IsTransfer
  <2>2. Size!EstimatedMappers(q, s) - q.maxMappers \in Int
        /\ Size!EstimatedMappers(q, s) % q.maxMappers \in Nat
    BY <2>1
  <2> QED
    BY <2>2 DEF MultiplesTry, LastRound
<1>6. PICK move : move = [p \in B \X (1..n) |-> MultiplesTry(q, p[1], p[2] + 1)]
  OBVIOUS
<1>7. move \in [B \X (1..n) -> B]
  <2> SUFFICES ASSUME NEW old \in B, NEW i \in 1..n
               PROVE  MultiplesTry(q, old, i + 1) \in B
    BY <1>6
  <2> QED
    BY <1>5
<1>8. PICK h : h \in [SUBSET (1..n) -> B] /\ IsFold(h, n, MultiplesStart(q), move)
  <2> HIDE DEF B
  <2> QED
    BY <1>4, <1>7, StepsFold
<1>9. F(h)
  <2>1. ASSUME NEW s \in SUBSET (1..n), s # {}
        PROVE  move[<<h[s \ {Top(s)}], Top(s)>>]
                 = MultiplesTry(q, h[s \ {Top(s)}], Size!Slicings(q)[Top(s)])
    <3>1. PICK x \in 1..n : x = Top(s)
      BY <2>1, Tops
    <3>2. h[s \ {x}] \in B
      <4>1. s \ {x} \in SUBSET (1..n)
        OBVIOUS
      <4> QED
        BY <1>8, <4>1
    <3>3. PICK old \in B : old = h[s \ {x}]
      BY <3>2
    <3>4. move[<<old, x>>] = MultiplesTry(q, old, x + 1)
      BY <1>6
    <3>5. move[<<old, x>>] = MultiplesTry(q, old, Size!Slicings(q)[x])
      BY <1>2, <3>4
    <3> QED
      BY <3>1, <3>3, <3>5, Zenon
  <2>2. \A s \in SUBSET (1..n) :
          (IF s = {} THEN MultiplesStart(q) ELSE move[<<h[s \ {Top(s)}], Top(s)>>])
            = (IF s = {} THEN MultiplesStart(q)
               ELSE MultiplesTry(q, h[s \ {Top(s)}], Size!Slicings(q)[Top(s)]))
    BY <2>1, Zenon
  <2>3. [s \in SUBSET (1..n) |->
           IF s = {} THEN MultiplesStart(q) ELSE move[<<h[s \ {Top(s)}], Top(s)>>]]
        = [s \in SUBSET (1..n) |->
             IF s = {} THEN MultiplesStart(q)
             ELSE MultiplesTry(q, h[s \ {Top(s)}], Size!Slicings(q)[Top(s)])]
    BY <2>2, Zenon
  <2> QED
    BY <1>8, <2>3, Zenon DEF IsFold
<1>10. PICK g : g = CHOOSE k : F(k)
  OBVIOUS
<1>11. F(g)
  <2> HIDE DEF F
  <2> QED
    BY <1>9, <1>10, Zenon
<1>12. g[1..0] = MultiplesStart(q)
  <2>1. 1..0 = {} /\ {} \in SUBSET (1..n)
    OBVIOUS
  <2>2. g[{}] = MultiplesStart(q)
    BY <1>11, <2>1, Zenon
  <2> QED
    BY <2>1, <2>2, Zenon
<1>13. ASSUME NEW i \in 1..n PROVE g[1..i] = MultiplesTry(q, g[1..(i - 1)], i + 1)
  <2>1. 1..i \in SUBSET (1..n) /\ Top(1..i) = i /\ (1..i) \ {i} = 1..(i - 1)
    BY Tops
  <2>2. 1..i # {}
    <3>1. i \in 1..i
      OBVIOUS
    <3> QED
      BY <3>1, Zenon
  <2>3. g[1..i] = MultiplesTry(q, g[(1..i) \ {Top(1..i)}], Size!Slicings(q)[Top(1..i)])
    BY <1>11, <2>1, <2>2, Zenon
  <2>4. Size!Slicings(q)[i] = i + 1
    BY <1>2
  <2> QED
    BY <2>1, <2>3, <2>4, Zenon
<1>14. Size!InMultiples(q) = g[1..n].slicing
  BY <1>3, <1>10, Zenon
<1> QED
  BY <1>1, <1>12, <1>13, <1>14, Zenon

\* What holds after the slicings up to i + 1: the best so far needs enough mappers, and as
\* few as any of them; once the search has ended, of all of them.
NearestGood(q, i, best) ==
  /\ best.slicing \in 1..(i + 1) /\ best.stop \in BOOLEAN
  /\ best.diff = Size!EstimatedMappers(q, best.slicing) - q.maxMappers /\ best.diff >= 0
  /\ \A t \in 1..Largest(q) :
       (best.stop \/ t <= i + 1) /\ Size!EstimatedMappers(q, t) >= q.maxMappers =>
         Size!EstimatedMappers(q, t) >= Size!EstimatedMappers(q, best.slicing)

LEMMA NearestKeeps ==
  ASSUME NEW q, IsTransfer(q), NEW i \in 1..(Largest(q) - 1), NEW best, NearestGood(q, i - 1, best)
  PROVE  NearestGood(q, i, NearestTry(q, best, i + 1))
<1>1. PICK n \in Nat : n = Largest(q)
  BY LargestIsOne
<1>2. PICK s \in Nat \ {0} : s = i + 1 /\ s <= n
  BY <1>1
<1>3. PICK e \in Nat : e = Size!EstimatedMappers(q, s)
  BY MappersShrink
<1>4. PICK m \in Nat : m = q.maxMappers
  BY DEF IsTransfer
<1>5. PICK old \in 1..i : old = best.slicing
  BY <1>1 DEF NearestGood
<1>6. PICK d \in Nat : d = best.diff /\ d = Size!EstimatedMappers(q, old) - m
                       /\ Size!EstimatedMappers(q, old) \in Nat
  <2>1. Size!EstimatedMappers(q, old) \in Nat
    BY <1>1, MappersShrink
  <2> QED
    BY <1>4, <1>5, <2>1 DEF NearestGood
<1>7. PICK diff \in Int : diff = e - m
  OBVIOUS
<1>8. NearestTry(q, best, i + 1) =
        IF best.stop THEN best
        ELSE [slicing |-> IF diff = 0 \/ (diff > 0 /\ diff < d) THEN s ELSE old,
              diff    |-> IF diff = 0 \/ (diff > 0 /\ diff < d) THEN diff ELSE d,
              stop    |-> diff <= 0]
  BY <1>2, <1>3, <1>4, <1>5, <1>6, <1>7, Zenon DEF NearestTry
<1>9. PICK E : E = [t \in Nat \ {0} |-> Size!EstimatedMappers(q, t)]
  OBVIOUS
<1>10. E \in [Nat \ {0} -> Nat] /\ E[s] = e /\ E[old] = m + d
  BY <1>1, <1>3, <1>6, <1>9, MappersShrink
<1>11. \A t \in 1..n : s <= t => E[t] <= e
  BY <1>3, <1>9, MappersShrink
<1>12. \A t \in 1..n : (best.stop \/ t <= i) /\ E[t] >= m => E[t] >= E[old]
  <2> SUFFICES ASSUME NEW t \in 1..n, best.stop \/ t <= i, E[t] >= m PROVE E[t] >= E[old]
    OBVIOUS
  <2>1. t \in Nat \ {0} /\ old \in Nat \ {0} /\ i - 1 + 1 = i
    BY <1>1
  <2>2. E[t] = Size!EstimatedMappers(q, t) /\ E[old] = Size!EstimatedMappers(q, old)
    BY <1>9, <2>1
  <2> QED
    BY <1>1, <1>4, <1>5, <2>1, <2>2 DEF NearestGood
<1>13. ASSUME NEW sl \in 1..(i + 1), NEW df \in Int, NEW st \in BOOLEAN, df = E[sl] - m, df >= 0,
              \A t \in 1..n : (st \/ t <= i + 1) /\ E[t] >= m => E[t] >= E[sl]
       PROVE  NearestGood(q, i, [slicing |-> sl, diff |-> df, stop |-> st])
  <2>1. \A t \in 1..n : E[t] = Size!EstimatedMappers(q, t)
    BY <1>9
  <2>2. sl \in 1..n
    BY <1>2
  <2> QED
    BY <1>1, <1>4, <1>13, <2>1, <2>2 DEF NearestGood
<1>14. CASE best.stop
  <2>1. NearestTry(q, best, i + 1) = best
    BY <1>8, <1>14
  <2>2. NearestGood(q, i, best)
    <3>1. 1..(i - 1 + 1) \subseteq 1..(i + 1)
      BY <1>1
    <3> QED
      BY <1>14, <3>1, Zenon DEF NearestGood
  <2> QED
    BY <2>1, <2>2
<1>15. CASE ~best.stop /\ (diff = 0 \/ (diff > 0 /\ diff < d))
  <2>1. PICK st \in BOOLEAN :
          /\ st <=> diff <= 0
          /\ NearestTry(q, best, i + 1) = [slicing |-> s, diff |-> diff, stop |-> st]
    <3>1. CASE diff <= 0
      <4>1. NearestTry(q, best, i + 1) = [slicing |-> s, diff |-> diff, stop |-> TRUE]
        BY <1>8, <1>15, <3>1
      <4> QED
        BY <3>1, <4>1
    <3>2. CASE ~(diff <= 0)
      <4>1. NearestTry(q, best, i + 1) = [slicing |-> s, diff |-> diff, stop |-> FALSE]
        <5>1. NearestTry(q, best, i + 1) = [slicing |-> s, diff |-> diff, stop |-> diff <= 0]
          BY <1>8, <1>15
        <5>2. (diff <= 0) = FALSE
          BY <3>2, SMTT(30)
        <5> QED
          BY <5>1, <5>2, Zenon
      <4> QED
        BY <3>2, <4>1
    <3> QED
      BY <3>1, <3>2
  <2>2. \A t \in 1..n : ((diff <= 0) \/ t <= i + 1) /\ E[t] >= m => E[t] >= E[s]
    BY <1>2, <1>7, <1>10, <1>12, <1>15
  <2>3. s \in 1..(i + 1) /\ diff = E[s] - m /\ diff >= 0
    BY <1>2, <1>7, <1>10, <1>15
  <2>4. \A t \in 1..n : (st \/ t <= i + 1) /\ E[t] >= m => E[t] >= E[s]
    BY <2>1, <2>2
  <2>5. NearestGood(q, i, [slicing |-> s, diff |-> diff, stop |-> st])
    BY <1>13, <2>3, <2>4
  <2> QED
    BY <2>1, <2>5
<1>16. CASE ~best.stop /\ ~(diff = 0 \/ (diff > 0 /\ diff < d))
  <2>1. PICK st \in BOOLEAN :
          /\ st <=> diff <= 0
          /\ NearestTry(q, best, i + 1) = [slicing |-> old, diff |-> d, stop |-> st]
    <3>1. CASE diff <= 0
      <4>1. NearestTry(q, best, i + 1) = [slicing |-> old, diff |-> d, stop |-> TRUE]
        BY <1>8, <1>16, <3>1
      <4> QED
        BY <3>1, <4>1
    <3>2. CASE ~(diff <= 0)
      <4>1. NearestTry(q, best, i + 1) = [slicing |-> old, diff |-> d, stop |-> FALSE]
        <5>1. NearestTry(q, best, i + 1) = [slicing |-> old, diff |-> d, stop |-> diff <= 0]
          BY <1>8, <1>16
        <5>2. (diff <= 0) = FALSE
          BY <3>2, SMTT(30)
        <5> QED
          BY <5>1, <5>2, Zenon
      <4> QED
        BY <3>2, <4>1
    <3> QED
      BY <3>1, <3>2
  <2>2. \A t \in 1..n : ((diff <= 0) \/ t <= i + 1) /\ E[t] >= m => E[t] >= E[old]
    <3> SUFFICES ASSUME NEW t \in 1..n, (diff <= 0) \/ t <= i + 1, E[t] >= m PROVE E[t] >= E[old]
      OBVIOUS
    <3>1. CASE t <= i
      BY <1>12, <3>1
    <3>2. CASE t >= s
      <4>1. E[t] <= e /\ E[t] \in Nat
        BY <1>10, <1>11, <3>2
      <4> QED
        BY <1>2, <1>7, <1>10, <1>16, <3>2, <4>1
    <3> QED
      BY <1>2, <3>1, <3>2
  <2>3. old \in 1..(i + 1) /\ d = E[old] - m /\ d >= 0
    BY <1>10
  <2>4. \A t \in 1..n : (st \/ t <= i + 1) /\ E[t] >= m => E[t] >= E[old]
    BY <2>1, <2>2
  <2>5. NearestGood(q, i, [slicing |-> old, diff |-> d, stop |-> st])
    BY <1>13, <2>3, <2>4
  <2> QED
    BY <2>1, <2>5
<1> QED
  BY <1>14, <1>15, <1>16

LEMMA NearestBest ==
  ASSUME NEW q, IsTransfer(q), q.blocks > q.maxMappers
  PROVE  /\ Size!Nearest(q) \in 1..Largest(q)
         /\ Size!EstimatedMappers(q, Size!Nearest(q)) >= q.maxMappers
         /\ \A t \in 1..Largest(q) : Size!EstimatedMappers(q, t) >= q.maxMappers =>
              Size!EstimatedMappers(q, t) >= Size!EstimatedMappers(q, Size!Nearest(q))
<1>1. PICK n \in Nat : n = Largest(q) - 1 /\ Largest(q) = n + 1
  BY LargestIsOne
<1>2. PICK h : /\ Size!Nearest(q) = h[1..n].slicing
               /\ h[1..0] = NearestStart(q)
               /\ \A i \in 1..n : h[1..i] = NearestTry(q, h[1..(i - 1)], i + 1)
  BY <1>1, NearestFolds, ZenonT(30)
<1>3. NearestGood(q, 0, h[1..0])
  <2>1. q.blocks \in Nat /\ q.maxMappers \in Nat /\ Size!EstimatedMappers(q, 1) = q.blocks
    BY MappersShrink DEF IsTransfer
  <2>2. PICK d \in Nat : d = q.blocks - q.maxMappers
    BY <2>1
  <2>3. h[1..0] = [slicing |-> 1, diff |-> d, stop |-> FALSE]
    BY <1>2, <2>2 DEF NearestStart
  <2>4. \A t \in 1..(n + 1) : t <= 0 + 1 => t = 1
    OBVIOUS
  <2> QED
    BY <1>1, <2>1, <2>2, <2>3, <2>4 DEF NearestGood
<1> DEFINE Bad == {i \in 0..n : ~NearestGood(q, i, h[1..i])}
<1>4. Bad = {}
  <2> SUFFICES ASSUME Bad # {} PROVE FALSE
    OBVIOUS
  <2>1. PICK i \in Bad : \A j \in Bad : i <= j
    <3>1. Bad \in SUBSET Nat
      OBVIOUS
    <3> HIDE DEF Bad
    <3> QED
      BY <3>1, LeastNumber
  <2>2. i \in 1..n /\ ~NearestGood(q, i, h[1..i])
    BY <1>3, <2>1
  <2>3. i - 1 \in 0..n /\ ~(i <= i - 1)
    BY <2>2
  <2>4. i - 1 \notin Bad
    <3> HIDE DEF Bad
    <3> QED
      BY <2>1, <2>3
  <2>5. NearestGood(q, i - 1, h[1..(i - 1)])
    BY <2>3, <2>4
  <2>6. NearestGood(q, i, NearestTry(q, h[1..(i - 1)], i + 1))
    BY <1>1, <2>2, <2>5, NearestKeeps
  <2> QED
    BY <1>2, <2>2, <2>6
<1>5. NearestGood(q, n, h[1..n])
  BY <1>4
<1>6. PICK s \in 1..(n + 1) : s = Size!Nearest(q) /\ s = h[1..n].slicing
  BY <1>2, <1>5 DEF NearestGood
<1>7. Size!EstimatedMappers(q, s) \in Nat /\ q.maxMappers \in Nat
      /\ Size!EstimatedMappers(q, s) - q.maxMappers >= 0
  BY <1>5, <1>6, MappersShrink DEF NearestGood, IsTransfer
<1>8. \A t \in 1..Largest(q) : Size!EstimatedMappers(q, t) >= q.maxMappers =>
        Size!EstimatedMappers(q, t) >= Size!EstimatedMappers(q, s)
  <2>1. \A t \in 1..(n + 1) : t <= n + 1
    OBVIOUS
  <2> QED
    BY <1>1, <1>5, <1>6, <2>1 DEF NearestGood
<1> QED
  BY <1>1, <1>6, <1>7, <1>8

\* The same with more files than mappers: the best so far leaves as many of them at work in
\* the last round as any, and the search ends at one that leaves none idle.
MultiplesGood(q, i, best) ==
  /\ best.slicing \in 1..(i + 1) /\ best.stop \in BOOLEAN /\ best.remaining \in Nat
  /\ best.stop => LastRound(q, best.slicing) = 0
  /\ ~best.stop => /\ best.remaining = LastRound(q, best.slicing)
                   /\ \A t \in 1..(i + 1) : LastRound(q, t) # 0 /\ LastRound(q, t) <= best.remaining

LEMMA MultiplesMade ==
  ASSUME NEW q, NEW i, NEW s \in 1..(i + 1), NEW r \in Nat, NEW ended \in BOOLEAN,
         ended => LastRound(q, s) = 0,
         ~ended => r = LastRound(q, s) /\ \A t \in 1..(i + 1) : LastRound(q, t) # 0 /\ LastRound(q, t) <= r
  PROVE  MultiplesGood(q, i, [slicing |-> s, remaining |-> r, stop |-> ended])
<1>1. PICK best : best = [slicing |-> s, remaining |-> r, stop |-> ended]
  OBVIOUS
<1>2. best.slicing = s /\ best.remaining = r /\ best.stop = ended
  BY <1>1
<1>3. MultiplesGood(q, i, best)
  BY <1>2, Zenon DEF MultiplesGood
<1> QED
  BY <1>1, <1>3, Zenon

LEMMA MultiplesKeeps ==
  ASSUME NEW q, IsTransfer(q), NEW i \in 1..(Largest(q) - 1), NEW best,
         MultiplesGood(q, i - 1, best)
  PROVE  MultiplesGood(q, i, MultiplesTry(q, best, i + 1))
<1>1. i \in Nat \ {0}
  BY LargestIsOne
<1>2. PICK s \in Nat \ {0} : s = i + 1
  BY <1>1
<1>3. PICK l \in Nat : l = LastRound(q, s)
  <2>1. Size!EstimatedMappers(q, s) \in Nat /\ q.maxMappers \in Nat \ {0}
    BY MappersShrink DEF IsTransfer
  <2> QED
    BY <2>1 DEF LastRound
<1>4. PICK old \in 1..i, r \in Nat : old = best.slicing /\ r = best.remaining
  BY <1>1 DEF MultiplesGood
<1>5. /\ best.stop => LastRound(q, old) = 0
      /\ ~best.stop => r = LastRound(q, old) /\ \A t \in 1..i : LastRound(q, t) # 0 /\ LastRound(q, t) <= r
  <2>1. i - 1 + 1 = i
    BY <1>1
  <2> QED
    BY <1>4, <2>1, Zenon DEF MultiplesGood
<1>6. MultiplesTry(q, best, i + 1) =
        IF best.stop THEN best
        ELSE [slicing   |-> IF l = 0 \/ l > r THEN s ELSE old,
              remaining |-> IF l > r THEN l ELSE r, stop |-> l = 0]
  BY <1>2, <1>3, <1>4, Zenon DEF MultiplesTry
<1>7. CASE best.stop
  <2>1. MultiplesTry(q, best, i + 1) = best
    BY <1>6, <1>7
  <2>2. old \in 1..(i + 1) /\ best.stop \in BOOLEAN
    BY <1>1 DEF MultiplesGood
  <2> QED
    BY <1>4, <1>5, <1>7, <2>1, <2>2, Zenon DEF MultiplesGood
<1>8. ASSUME ~best.stop, l = 0
      PROVE  MultiplesGood(q, i, MultiplesTry(q, best, i + 1))
  <2>1. MultiplesTry(q, best, i + 1)
          = [slicing |-> s, remaining |-> IF l > r THEN l ELSE r, stop |-> TRUE]
    BY <1>6, <1>8
  <2>2. s \in 1..(i + 1) /\ (IF l > r THEN l ELSE r) \in Nat
    BY <1>2
  <2> QED
    BY <1>3, <1>8, <2>1, <2>2, MultiplesMade
<1>9. ASSUME ~best.stop, l # 0
      PROVE  MultiplesGood(q, i, MultiplesTry(q, best, i + 1))
  <2>1. \A t \in 1..(i + 1) : t \in 1..i \/ t = s
    BY <1>1, <1>2
  <2>2. CASE l > r
    <3>1. MultiplesTry(q, best, i + 1) = [slicing |-> s, remaining |-> l, stop |-> FALSE]
      BY <1>6, <1>9, <2>2
    <3>2. \A t \in 1..i : LastRound(q, t) # 0 /\ LastRound(q, t) <= l
      <4> SUFFICES ASSUME NEW t \in 1..i PROVE LastRound(q, t) # 0 /\ LastRound(q, t) <= l
        OBVIOUS
      <4>1. LastRound(q, t) # 0 /\ LastRound(q, t) <= r
        BY <1>5, <1>9
      <4>2. LastRound(q, t) \in Nat
        <5>1. Size!EstimatedMappers(q, t) \in Nat /\ q.maxMappers \in Nat \ {0}
          BY MappersShrink DEF IsTransfer
        <5> QED
          BY <5>1 DEF LastRound
      <4> QED
        BY <2>2, <4>1, <4>2
    <3>3. s \in 1..(i + 1)
      BY <1>2
    <3>4. \A t \in 1..(i + 1) : LastRound(q, t) # 0 /\ LastRound(q, t) <= l
      BY <1>3, <1>9, <2>1, <3>2
    <3>5. MultiplesGood(q, i, [slicing |-> s, remaining |-> l, stop |-> FALSE])
      BY <1>3, <3>3, <3>4, MultiplesMade
    <3> QED
      BY <3>1, <3>5
  <2>3. CASE ~(l > r)
    <3>1. MultiplesTry(q, best, i + 1) = [slicing |-> old, remaining |-> r, stop |-> FALSE]
      BY <1>6, <1>9, <2>3
    <3>2. old \in 1..(i + 1) /\ l <= r
      BY <1>1, <2>3
    <3> QED
      BY <1>3, <1>5, <1>9, <2>1, <3>1, <3>2, MultiplesMade
  <2> QED
    BY <2>2, <2>3
<1> QED
  BY <1>7, <1>8, <1>9

LEMMA MultiplesBest ==
  ASSUME NEW q, IsTransfer(q)
  PROVE  /\ Size!InMultiples(q) \in 1..Largest(q)
         /\ LastRound(q, Size!InMultiples(q)) # 0 => \A t \in 1..Largest(q) :
              LastRound(q, t) # 0 /\ LastRound(q, t) <= LastRound(q, Size!InMultiples(q))
<1>1. PICK n \in Nat : n = Largest(q) - 1 /\ Largest(q) = n + 1
  BY LargestIsOne
<1>2. PICK h : /\ Size!InMultiples(q) = h[1..n].slicing
               /\ h[1..0] = MultiplesStart(q)
               /\ \A i \in 1..n : h[1..i] = MultiplesTry(q, h[1..(i - 1)], i + 1)
  BY <1>1, MultiplesFolds, ZenonT(30)
<1>3. MultiplesGood(q, 0, h[1..0])
  <2>1. Size!EstimatedMappers(q, 1) \in Nat /\ q.maxMappers \in Nat \ {0}
    BY MappersShrink DEF IsTransfer
  <2>2. PICK l \in Nat : l = LastRound(q, 1)
    BY <2>1 DEF LastRound
  <2>3. h[1..0] = [slicing |-> 1, remaining |-> l, stop |-> l = 0]
    BY <1>2, <2>2 DEF MultiplesStart
  <2>4. \A t \in 1..(0 + 1) : t = 1
    OBVIOUS
  <2> QED
    <3>1. 1 \in 1..(0 + 1)
      OBVIOUS
    <3>2. CASE l = 0
      <4>1. h[1..0] = [slicing |-> 1, remaining |-> l, stop |-> TRUE]
        BY <2>3, <3>2
      <4>2. MultiplesGood(q, 0, [slicing |-> 1, remaining |-> l, stop |-> TRUE])
        BY <2>2, <3>1, <3>2, MultiplesMade
      <4> QED
        BY <4>1, <4>2
    <3>3. CASE l # 0
      <4>1. h[1..0] = [slicing |-> 1, remaining |-> l, stop |-> FALSE]
        BY <2>3, <3>3
      <4>2. \A t \in 1..(0 + 1) : LastRound(q, t) # 0 /\ LastRound(q, t) <= l
        BY <2>2, <2>4, <3>3
      <4>3. MultiplesGood(q, 0, [slicing |-> 1, remaining |-> l, stop |-> FALSE])
        BY <2>2, <3>1, <4>2, MultiplesMade
      <4> QED
        BY <4>1, <4>3
    <3> QED
      BY <3>2, <3>3
<1> DEFINE Bad == {i \in 0..n : ~MultiplesGood(q, i, h[1..i])}
<1>4. Bad = {}
  <2> SUFFICES ASSUME Bad # {} PROVE FALSE
    OBVIOUS
  <2>1. PICK i \in Bad : \A j \in Bad : i <= j
    <3>1. Bad \in SUBSET Nat
      OBVIOUS
    <3> HIDE DEF Bad
    <3> QED
      BY <3>1, LeastNumber
  <2>2. i \in 1..n /\ ~MultiplesGood(q, i, h[1..i])
    BY <1>3, <2>1
  <2>3. i - 1 \in 0..n /\ ~(i <= i - 1)
    BY <2>2
  <2>4. i - 1 \notin Bad
    <3> HIDE DEF Bad
    <3> QED
      BY <2>1, <2>3
  <2>5. MultiplesGood(q, i - 1, h[1..(i - 1)])
    BY <2>3, <2>4
  <2>6. MultiplesGood(q, i, MultiplesTry(q, h[1..(i - 1)], i + 1))
    BY <1>1, <2>2, <2>5, MultiplesKeeps
  <2> QED
    BY <1>2, <2>2, <2>6
<1>5. MultiplesGood(q, n, h[1..n])
  BY <1>4
<1>6. PICK s \in 1..(n + 1) : s = Size!InMultiples(q) /\ s = h[1..n].slicing
  BY <1>2, <1>5 DEF MultiplesGood
<1>7. LastRound(q, s) # 0 => \A t \in 1..(n + 1) : LastRound(q, t) # 0 /\ LastRound(q, t) <= LastRound(q, s)
  BY <1>5, <1>6, Zenon DEF MultiplesGood
<1> QED
  BY <1>1, <1>6, <1>7

\* Of the slicings that get_mappers may choose none is better than the one it chooses: with
\* fewer files than mappers none needs fewer that are enough, and with more none leaves fewer
\* idle in the last round.
THEOREM SlicingAlwaysBest ==
  ASSUME NEW q, q.files \in Nat, q.blocks \in Nat, q.maxMappers \in Nat \ {0},
         q.mode \in {"distcp-default", "mapred-default", "nearest-multiple", "best-effort"},
         Size!Mappers(q) # Size!NoSlicing, q.blocks > q.maxMappers, q.mode # "mapred-default"
  PROVE  LET tried == 1..Size!CeilDiv(q.blocks, q.files) \cup {1}
             slicing == Size!Mappers(q)
             mappers == Size!EstimatedMappers(q, slicing)
         IN  /\ slicing \in tried
             /\ IF q.files > q.maxMappers
                THEN LET left(s) == Size!EstimatedMappers(q, s) % q.maxMappers IN
                       \A s \in tried : left(slicing) # 0 =>
                                          left(s) # 0 /\ left(s) <= left(slicing)
                ELSE /\ mappers >= q.maxMappers
                     /\ \A s \in tried : Size!EstimatedMappers(q, s) >= q.maxMappers =>
                                           Size!EstimatedMappers(q, s) >= mappers
<1>1. q.files > 0 /\ q.blocks > 0
  BY DEF Size!Mappers
<1>2. IsTransfer(q)
  BY <1>1 DEF IsTransfer
<1>3. q.mode \in {"nearest-multiple", "best-effort"} /\ (q.files > q.maxMappers => q.mode = "nearest-multiple")
  BY DEF Size!Mappers
<1>4. Size!Mappers(q) = IF q.files > q.maxMappers THEN Size!InMultiples(q) ELSE Size!Nearest(q)
  <2>1. ~(q.blocks <= q.maxMappers)
    BY <1>2 DEF IsTransfer
  <2>2. CASE q.files > q.maxMappers
    BY <1>3, <2>1, <2>2, Zenon DEF Size!Mappers
  <2>3. CASE ~(q.files > q.maxMappers)
    BY <1>3, <2>1, <2>3, Zenon DEF Size!Mappers
  <2> QED
    BY <2>2, <2>3
<1>5. 1..Size!CeilDiv(q.blocks, q.files) \cup {1} = 1..Largest(q)
  <2>1. PICK n \in Nat \ {0} : n = Size!CeilDiv(q.blocks, q.files) /\ n = Largest(q)
    BY <1>2, LargestIsOne DEF Largest
  <2>2. 1..n \cup {1} = 1..n
    OBVIOUS
  <2> QED
    BY <2>1, <2>2, Zenon
<1>6. PICK s : s = Size!Mappers(q)
  OBVIOUS
<1>7. CASE q.files > q.maxMappers
  <2>1. s = Size!InMultiples(q)
    BY <1>4, <1>6, <1>7
  <2>2. /\ s \in 1..Largest(q)
        /\ LastRound(q, s) # 0 => \A t \in 1..Largest(q) : LastRound(q, t) # 0 /\ LastRound(q, t) <= LastRound(q, s)
    BY <1>2, <2>1, MultiplesBest, Zenon
  <2> QED
    BY <1>5, <1>6, <1>7, <2>2, Zenon DEF LastRound
<1>8. CASE ~(q.files > q.maxMappers)
  <2>1. s = Size!Nearest(q)
    BY <1>4, <1>6, <1>8
  <2>2. /\ s \in 1..Largest(q)
        /\ Size!EstimatedMappers(q, s) >= q.maxMappers
        /\ \A t \in 1..Largest(q) : Size!EstimatedMappers(q, t) >= q.maxMappers =>
             Size!EstimatedMappers(q, t) >= Size!EstimatedMappers(q, s)
    BY <1>2, <2>1, NearestBest, Zenon
  <2> QED
    BY <1>5, <1>6, <1>8, <2>2, Zenon
<1> QED
  BY <1>7, <1>8

\* A question is one of those, and its answer is what the code computes.
SizeInv ==
  part = "size" =>
    /\ question \in Question
    /\ \/ answer = Size!Pending
       \/ question.about = "containers" /\ answer = Size!ContainerResources(question)
       \/ question.about = "hadoop" /\ answer = Size!HadoopResources(question)
       \/ question.about = "mappers" /\ answer = [slicing |-> Size!Mappers(question)]

LEMMA QuestionsAsked ==
  ASSUME NEW q \in Question
  PROVE  /\ q.about \in {"containers", "hadoop", "mappers"}
         /\ q.about = "containers" => IsApplication(q)
         /\ q.about = "hadoop" => /\ q.cpuMax \in Nat /\ q.cpuMin \in Nat /\ q.mem \in Nat
                                  /\ q.workers \in Nat /\ q.virtual \in BOOLEAN
         /\ q.about = "mappers" =>
              /\ q.files \in Nat /\ q.blocks \in Nat /\ q.maxMappers \in Nat \ {0}
              /\ q.mode \in {"distcp-default", "mapred-default", "nearest-multiple", "best-effort"}
<1>1. CASE q \in Sizes /\ q.app.cpu.min <= q.app.cpu.max /\ q.app.mem.min <= q.app.mem.max
  <2>1. q.about = "containers" /\ q.n \in Nat \ {0} /\ q.benevolence \in {-1, 1, 2, 3}
    BY <1>1 DEF Sizes
  <2>2. /\ q.app.cpu.max \in Nat /\ q.app.cpu.min \in Nat /\ q.app.cpu.max # 0
        /\ q.app.mem.max \in Nat /\ q.app.mem.min \in Nat
    BY <1>1 DEF Sizes
  <2>3. IsApplication(q)
    BY <1>1, <2>1, <2>2 DEF IsApplication, Size!Resource
  <2> QED
    BY <2>1, <2>3
<1>2. CASE q \in Clusters
  BY <1>2 DEF Clusters
<1>3. CASE q \in Transfers
  BY <1>3 DEF Transfers
<1> QED
  BY <1>1, <1>2, <1>3 DEF Question

LEMMA SizeEnds == SizeInv => AnswersRight
<1> SUFFICES ASSUME SizeInv, part = "size" PROVE Size!AnswersRight
  BY DEF AnswersRight
<1>1. PICK q \in Question : q = question
  BY DEF SizeInv
<1>2. \/ answer = Size!Pending
      \/ q.about = "containers" /\ answer = Size!ContainerResources(q)
      \/ q.about = "hadoop" /\ answer = Size!HadoopResources(q)
      \/ q.about = "mappers" /\ answer = [slicing |-> Size!Mappers(q)]
  BY <1>1, Zenon DEF SizeInv
<1>3. Size!SharesAddUp
  <2> SUFFICES ASSUME Size!Answered("containers"), ~answer.raised PROVE Size!SharesAddUp
    BY Zenon DEF Size!SharesAddUp
  <2>1. q.about = "containers" /\ answer = Size!ContainerResources(q)
    BY <1>1, <1>2 DEF Size!Answered
  <2>2. IsApplication(q) /\ ~Size!ContainerResources(q).raised
    BY <2>1, QuestionsAsked
  <2> QED
    BY <1>1, <2>1, <2>2, SharesAlwaysAddUp, Zenon DEF Size!SharesAddUp
<1>4. Size!HadoopFits
  <2> SUFFICES ASSUME Size!Answered("hadoop"), ~answer.raised PROVE Size!HadoopFits
    BY Zenon DEF Size!HadoopFits
  <2>1. q.about = "hadoop" /\ answer = Size!HadoopResources(q)
    BY <1>1, <1>2 DEF Size!Answered
  <2>2. /\ q.cpuMax \in Nat /\ q.cpuMin \in Nat /\ q.mem \in Nat
        /\ q.workers \in Nat /\ q.virtual \in BOOLEAN /\ ~Size!HadoopResources(q).raised
    BY <2>1, QuestionsAsked
  <2> QED
    BY <1>1, <2>1, <2>2, HadoopAlwaysFits, Zenon DEF Size!HadoopFits
<1>5. Size!SlicingBest
  <2> SUFFICES ASSUME Size!Answered("mappers"), answer.slicing \notin {Size!NoSlicing},
                      question.blocks > question.maxMappers, question.mode # "mapred-default"
               PROVE  Size!SlicingBest
    BY Zenon DEF Size!SlicingBest
  <2>1. q.about = "mappers" /\ answer = [slicing |-> Size!Mappers(q)]
    BY <1>1, <1>2 DEF Size!Answered
  <2>2. answer.slicing = Size!Mappers(q) /\ Size!Mappers(q) # Size!NoSlicing
    BY <2>1
  <2>3. /\ q.files \in Nat /\ q.blocks \in Nat /\ q.maxMappers \in Nat \ {0}
        /\ q.mode \in {"distcp-default", "mapred-default", "nearest-multiple", "best-effort"}
        /\ q.blocks > q.maxMappers /\ q.mode # "mapred-default"
    BY <1>1, <2>1, QuestionsAsked
  <2> QED
    BY <1>1, <2>2, <2>3, SlicingAlwaysBest, Zenon DEF Size!SlicingBest
<1> QED
  BY <1>3, <1>4, <1>5 DEF Size!AnswersRight

LEMMA SizeInit == MCInit => SizeInv
BY DEF MCInit, SizeInv

LEMMA SizeStep == SizeInv /\ [MCNext]_all => SizeInv'
<1> SUFFICES ASSUME SizeInv, [MCNext]_all PROVE SizeInv'
  OBVIOUS
<1>1. (part = "size" /\ Size!Next /\ part' = part) \/ UNCHANGED <<part, question, answer>>
  BY DEF MCNext, all, size
<1>2. CASE UNCHANGED <<part, question, answer>>
  BY <1>2 DEF SizeInv, Size!Pending
<1>3. CASE part = "size" /\ Size!Next /\ part' = part
  <2>1. question' = question /\ question \in Question
    BY <1>3 DEF SizeInv, Size!Next, Size!Answer
  <2>2. question.about \in {"containers", "hadoop", "mappers"}
    BY <2>1, QuestionsAsked
  <2>3. \/ question.about = "containers" /\ answer' = Size!ContainerResources(question)
        \/ question.about = "hadoop" /\ answer' = Size!HadoopResources(question)
        \/ question.about = "mappers" /\ answer' = [slicing |-> Size!Mappers(question)]
    BY <1>3, <2>2 DEF Size!Next, Size!Answer
  <2> QED
    BY <2>1, <2>3 DEF SizeInv
<1> QED
  BY <1>1, <1>2, <1>3

-----------------------------------------------------------------------------
(* The programs together: a step of one leaves the others where they are. *)

LEMMA OneAtATime ==
  [MCNext]_all => /\ [Next]_vars
                  /\ Power!Next \/ UNCHANGED power
                  /\ Copy!Next \/ UNCHANGED copy
                  /\ Pages!Next \/ UNCHANGED pages
                  /\ Hadoop!Next \/ UNCHANGED hadoop
                  /\ Atop!Next \/ UNCHANGED atop
                  /\ Feeder!Next \/ UNCHANGED feeder
BY DEF MCNext, all

\* The variables of GuardianRules keep their types: no rule removes more events than
\* it has matched (events_to_remove).
THEOREM TypeCorrect == Spec => []TypeOK
<1>1. GuardianInv => TypeOK
  BY DEF GuardianInv
<1> QED
  BY <1>1, GuardianInvariance, PTL

\* Four new underuse events lie between a rescale up of the processors or the energy
\* and the rescale down after it (CpuRescaleUp, EnergyRescaleUp and their opposites).
THEOREM NoHysteresisEver == Spec => []NoHysteresis
<1>1. GuardianInv => NoHysteresis
  BY DEF GuardianInv
<1> QED
  BY <1>1, GuardianInvariance, PTL

\* Power goes to the tick and the target whose events were counted: a report is
\* attributed to the events of its own tick, and as long as no report has come after
\* its tick was closed, the tick that is processed has the reports of all its targets
\* (HwPCReportHandler and its subclasses).
THEOREM PowerRight == MCSpec => []PowerOfItsTick
<1>1. MCInit => PowerInv
  BY PowerInit DEF MCInit
<1>2. PowerInv /\ [MCNext]_all => PowerInv'
  BY OneAtATime, PowerStep, PowerStay
<1>3. PowerInv => PowerOfItsTick
  BY PowerEnds DEF PowerOfItsTick
<1> QED
  BY <1>1, <1>2, <1>3, PTL DEF MCSpec

\* A copy that ran alone, began without chunks of another job and reports success has
\* copied every visible file whole, in order and from its own chunks, whatever attempts
\* died and whatever jobs went before.  Of hidden files it has made the empty ones that
\* were not there; those with data it has passed over, and they are as they were at the
\* destination.  A copy that does not succeed has made no file of old and new parts
\* (HDFSBlockParallelCopy, ConcatCommitter).
THEOREM CopiesExact == MCSpec => []CopyExact
<1>1. MCInit => CopyInv
  BY CopyInit DEF MCInit
<1>2. CopyInv /\ [MCNext]_all => CopyInv'
  BY OneAtATime, CopyStep, CopyStay
<1>3. CopyInv => CopyExact
  BY CopyEnds DEF CopyExact
<1> QED
  BY <1>1, <1>2, <1>3, PTL DEF MCSpec

\* A page that says that the requests were successful has saved its form, for a person
\* whom nobody has crossed: every field holds what was entered, or what the page showed,
\* but for what Saved names (capitals and all choices but one of the models of services,
\* lists of metrics without an input, a policy that the form does not offer) and for a
\* boundary whose error was forgotten (redirect_with_errors, processServiceConfigPost and
\* the handlers of the other forms).
THEOREM SuccessIsRight == MCSpec => []SuccessMeansDone
<1>1. MCInit => PagesInv
  BY PagesInit DEF MCInit
<1>2. PagesInv /\ [MCNext]_all => PagesInv'
  BY OneAtATime, PagesStep, PagesStay
<1>3. PagesInv => SuccessMeansDone
  BY PagesEnds DEF SuccessMeansDone
<1> QED
  BY <1>1, <1>2, <1>3, PTL DEF MCSpec

\* Once all tasks have ended, a container that runs and is in no page has a task that
\* failed, or was not stopped by a command whose failure is ignored; an application that
\* ended well left nothing behind; and one that still waits does so for one whose start
\* failed (start_hadoop_app_task, remove_app_task, remove_containers_task,
\* wait_for_app_dependency).
THEOREM AllAccounted == MCSpec => []Accounted
<1>1. MCInit => HadoopInv
  BY HadoopInit DEF MCInit
<1>2. HadoopInv /\ [MCNext]_all => HadoopInv'
  BY OneAtATime, HadoopStep, HadoopStay
<1>3. HadoopInv => Accounted
  BY HadoopEnds DEF Accounted
<1> QED
  BY <1>1, <1>2, <1>3, PTL DEF MCSpec

\* Never more is reported of an instance than it has done, though its pid was that of
\* another, samples fail and the two files are read one after the other; and one that was
\* in every sample since its first has been reported from there on (DiskAtop.py,
\* compute_deltas).
THEOREM TrafficIsRight == MCSpec => []TrafficCounted
<1>1. MCInit => AtopInv
  BY AtopInit DEF MCInit
<1>2. AtopInv /\ [MCNext]_all => AtopInv'
  BY OneAtATime, AtopStep, AtopStay
<1>3. AtopInv => TrafficCounted
  BY AtopEnds DEF TrafficCounted
<1> QED
  BY <1>1, <1>2, <1>3, PTL DEF MCSpec

\* Of no process more is counted than it has done, whichever process or thread had its
\* numbers before and whichever of its threads are gone; one that is still there has been
\* counted from the reference, or from its start, to the last sample (sample_procs and
\* read_run_delay of lite_feeder.c).
THEOREM UsageIsRight == MCSpec => []UsageCounted
<1>1. MCInit => FeederInv
  BY FeederInit DEF MCInit
<1>2. FeederInv /\ [MCNext]_all => FeederInv'
  BY OneAtATime, FeederStep, FeederStay
<1>3. FeederInv => UsageCounted
  BY FeederEnds DEF UsageCounted
<1> QED
  BY <1>1, <1>2, <1>3, PTL DEF MCSpec

\* The containers of an application add up to it, what is accepted for Hadoop fits in its
\* container, and the search for a slicing ends at the best one: of the questions that are
\* asked here, and the three theorems above say so of any (getContainerResourcesForApp,
\* set_hadoop_resources, get_mappers).
THEOREM AnswersAlwaysRight == MCSpec => []AnswersRight
<1> QED
  BY SizeInit, SizeStep, SizeEnds, PTL DEF MCSpec

\* The variables of the seven programs keep their types, and their bounds: among them the
\* copies of a power report, the batches of events and the counters of the samplers.
THEOREM AllTyped == MCSpec => []TypesOK
<1> DEFINE AllInv == /\ GuardianInv /\ PowerInv /\ CopyInv /\ PagesInv
                     /\ HadoopInv /\ AtopInv /\ FeederInv
<1>1. MCInit => AllInv
  BY GuardianInit, PowerInit, CopyInit, PagesInit, HadoopInit, AtopInit, FeederInit DEF MCInit
<1>2. AllInv /\ [MCNext]_all => AllInv'
  BY OneAtATime, GuardianStep, PowerStep, PowerStay, CopyStep, CopyStay, PagesStep, PagesStay,
     HadoopStep, HadoopStay, AtopStep, AtopStay, FeederStep, FeederStay
<1>3. AllInv => TypesOK
  BY DEF GuardianInv, PowerInv, CopyInv, PagesInv, HadoopInv, AtopInv, FeederInv, TypesOK
<1> QED
  BY <1>1, <1>2, <1>3, PTL DEF MCSpec
=============================================================================
