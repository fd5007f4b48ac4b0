------------------------------- MODULE DiskAtop -------------------------------
(***************************************************************************)
(* DiskAtop.py: every interval, list the Apptainer instances, find their    *)
(* cgroups, read the counters of their disk, and report what each instance  *)
(* has done since the sample before.  Instances come and go meanwhile, and  *)
(* a pid is given again.                                                    *)
(*                                                                         *)
(* An instance does operations of one byte on one device: its counters of   *)
(* bytes and of operations agree, but version 1 of cgroups has them in two  *)
(* files.  A pid that is free is not given again in the milliseconds of a   *)
(* sample.  Rates are taken times the interval they are computed over.      *)
(***************************************************************************)
EXTENDS Naturals, FiniteSets

CONSTANTS
  Pid, Instance, Nobody,
  MaxIo,          \* bound on the operations of an instance
  MaxListErrors   \* bound on the times the instances cannot be listed

VARIABLES
  version,     \* cgroups_version
  scope,       \* scope[p]: the instance whose cgroup apptainer-<p>.scope is
  begun,       \* instances that have begun
  io,          \* io[i]: operations of i so far
  sampler,     \* where the loop is
  names,       \* names[p]: pid_to_instance
  unsampled,   \* scopes found and not yet read
  halfRead,    \* the scope of which the file of bytes is read, and what it said
  current, previous,  \* snapshots, of the pids in them
  whose,       \* whose[p]: the instance in previous[p]
  reported,    \* reported[i]: bytes and operations reported of i
  firstSeen,   \* firstSeen[i]: its counters in the first sample that has it
  broken,      \* instances that missed a sample, follow another with their pid, or were
               \* read in half
  listErrors

vars == <<version, scope, begun, io, sampler, names, unsampled, halfRead, current, previous,
          whose, reported, firstSeen, broken, listErrors>>

Counters == [bytes : 0..MaxIo, ios : 0..MaxIo]
Zero == [bytes |-> 0, ios |-> 0]
NotRead == [bytes |-> MaxIo + 1, ios |-> MaxIo + 1]   \* in no sample

TypeOK ==
  /\ version \in {"v1", "v2"}
  /\ scope \in [Pid -> Instance \cup {Nobody}]
  /\ begun \subseteq Instance /\ io \in [Instance -> 0..MaxIo]
  /\ sampler \in {"asleep", "discovering", "reading", "dead"}
  /\ names \in [Pid -> Instance \cup {Nobody}]
  /\ unsampled \subseteq Pid
  /\ halfRead \in {<<>>} \cup (Pid \X (0..MaxIo))
  /\ current \in [Pid -> Counters \cup {NotRead}]
  /\ previous \in [Pid -> Counters \cup {NotRead}]
  /\ whose \in [Pid -> Instance \cup {Nobody}]
  /\ reported \in [Instance -> Counters]
  /\ firstSeen \in [Instance -> Counters \cup {NotRead}]
  /\ broken \subseteq Instance
  /\ listErrors \in 0..MaxListErrors

\* The initial snapshot is taken before anything runs.
Init ==
  /\ version \in {"v1", "v2"}
  /\ scope = [p \in Pid |-> Nobody]
  /\ begun = {} /\ io = [i \in Instance |-> 0]
  /\ sampler = "asleep"
  /\ names = [p \in Pid |-> Nobody]
  /\ unsampled = {} /\ halfRead = <<>>
  /\ current = [p \in Pid |-> NotRead] /\ previous = [p \in Pid |-> NotRead]
  /\ whose = [p \in Pid |-> Nobody]
  /\ reported = [i \in Instance |-> Zero]
  /\ firstSeen = [i \in Instance |-> NotRead]
  /\ broken = {} /\ listErrors = 0

-----------------------------------------------------------------------------
(* The instances *)

Begin(i, p) ==
  /\ i \notin begun /\ scope[p] = Nobody /\ sampler = "asleep"
  /\ begun' = begun \cup {i}
  /\ scope' = [scope EXCEPT ![p] = i]
  /\ UNCHANGED <<version, io, sampler, names, unsampled, halfRead, current, previous, whose,
                 reported, firstSeen, broken, listErrors>>

Stop(p) ==
  /\ scope[p] # Nobody
  /\ scope' = [scope EXCEPT ![p] = Nobody]
  /\ UNCHANGED <<version, begun, io, sampler, names, unsampled, halfRead, current, previous,
                 whose, reported, firstSeen, broken, listErrors>>

Operate(p) ==
  /\ scope[p] # Nobody /\ io[scope[p]] < MaxIo
  /\ io' = [io EXCEPT ![scope[p]] = @ + 1]
  /\ UNCHANGED <<version, scope, begun, sampler, names, unsampled, halfRead, current, previous,
                 whose, reported, firstSeen, broken, listErrors>>

-----------------------------------------------------------------------------
(* The sampler *)

\* get_pid_to_instance: an error gives no instances.
ListInstances ==
  /\ sampler = "asleep"
  /\ \/ names' = scope /\ UNCHANGED listErrors
     \/ /\ listErrors < MaxListErrors /\ listErrors' = listErrors + 1
        /\ names' = [p \in Pid |-> Nobody]
  /\ sampler' = "discovering"
  /\ current' = [p \in Pid |-> NotRead]
  /\ UNCHANGED <<version, scope, begun, io, unsampled, halfRead, previous, whose, reported,
                 firstSeen, broken>>

\* discover_containers: the scopes there are whose pid is known.
Discover ==
  /\ sampler = "discovering"
  /\ unsampled' = {p \in Pid : scope[p] # Nobody /\ names[p] # Nobody}
  /\ sampler' = "reading"
  /\ UNCHANGED <<version, scope, begun, io, names, halfRead, current, previous, whose,
                 reported, firstSeen, broken, listErrors>>

\* What the files of scope p say now: no line before the first operation.
Lines(p) == scope[p] # Nobody /\ io[scope[p]] > 0

\* read_v2_io_stats: one file; a scope without lines, or gone, is not in the snapshot.
ReadStat(p) ==
  /\ sampler = "reading" /\ version = "v2" /\ p \in unsampled
  /\ unsampled' = unsampled \ {p}
  /\ current' = IF Lines(p)
                THEN [current EXCEPT ![p] = [bytes |-> io[scope[p]], ios |-> io[scope[p]]]]
                ELSE current
  /\ UNCHANGED <<version, scope, begun, io, sampler, names, halfRead, previous, whose, reported,
                 firstSeen, broken, listErrors>>

\* read_v1_io_stats: the file of bytes ...
ReadBytes(p) ==
  /\ sampler = "reading" /\ version = "v1" /\ p \in unsampled /\ halfRead = <<>>
  /\ IF scope[p] = Nobody
     THEN unsampled' = unsampled \ {p} /\ UNCHANGED halfRead
     ELSE halfRead' = <<p, io[scope[p]]>> /\ UNCHANGED unsampled
  /\ UNCHANGED <<version, scope, begun, io, sampler, names, current, previous, whose, reported,
                 firstSeen, broken, listErrors>>

\* ... and the one of operations.  A scope that is gone leaves the operations out; a
\* device that has its first line only now is a KeyError, which nothing catches.
ReadOperations ==
  /\ halfRead # <<>>
  /\ LET p == halfRead[1]
         bytes == halfRead[2]
     IN  /\ unsampled' = unsampled \ {p}
         /\ current' = [current EXCEPT ![p] =
              IF bytes = 0 THEN @
              ELSE [bytes |-> bytes, ios |-> IF scope[p] = Nobody THEN 0 ELSE io[scope[p]]]]
         /\ sampler' = IF bytes = 0 /\ Lines(p) THEN "dead" ELSE "reading"
  /\ halfRead' = <<>>
  /\ UNCHANGED <<version, scope, begun, io, names, previous, whose, reported, firstSeen, broken,
                 listErrors>>

Positive(a, b) == IF a > b THEN a - b ELSE 0   \* max(a - b, 0)

Delta(p) == [bytes |-> Positive(current[p].bytes, previous[p].bytes),
             ios   |-> Positive(current[p].ios, previous[p].ios)]

\* Fault: the first sample of a pid stays the one to compare with.
FirstSnapshot == [p \in Pid |-> IF previous[p] = NotRead THEN current[p] ELSE previous[p]]

\* prev_snapshot = curr_snapshot
NextSnapshot == current

\* compute_deltas, for the scopes of both snapshots.
Compute ==
  /\ sampler = "reading" /\ unsampled = {}
  /\ LET both == {p \in Pid : current[p] # NotRead /\ previous[p] # NotRead}
         Gain(i, f) == IF \E p \in both : names[p] = i
                       THEN Delta(CHOOSE p \in both : names[p] = i)[f] ELSE 0
         sampled == {names[p] : p \in {q \in Pid : current[q] # NotRead}}
     IN  /\ reported' = [i \in Instance |-> [bytes |-> reported[i].bytes + Gain(i, "bytes"),
                                             ios   |-> reported[i].ios + Gain(i, "ios")]]
         /\ firstSeen' = [i \in Instance |->
              IF firstSeen[i] = NotRead /\ i \in sampled
              THEN current[CHOOSE p \in Pid : names[p] = i /\ current[p] # NotRead]
              ELSE firstSeen[i]]
         /\ broken' = broken \cup {i \in Instance : firstSeen[i] # NotRead /\ i \notin sampled}
                             \cup {names[p] : p \in {q \in both : whose[q] # names[q]}}
                             \cup {names[p] : p \in {q \in Pid : current[q].ios = 0}}
  /\ previous' = NextSnapshot
  /\ whose' = [p \in Pid |-> IF current[p] = NotRead THEN Nobody ELSE names[p]]
  /\ sampler' = "asleep"
  /\ names' = [p \in Pid |-> Nobody]
  /\ current' = [p \in Pid |-> NotRead]
  /\ UNCHANGED <<version, scope, begun, io, unsampled, halfRead, listErrors>>

Next ==
  \/ \E p \in Pid : \/ \E i \in Instance : Begin(i, p)
                    \/ Stop(p) \/ Operate(p) \/ ReadStat(p) \/ ReadBytes(p)
  \/ ListInstances \/ Discover \/ ReadOperations \/ Compute

Spec == Init /\ [][Next]_vars
-----------------------------------------------------------------------------
(* Properties *)

\* Never more is reported of an instance than it has done, though its pid was that of
\* another, samples fail and the two files are read one after the other.  One that is
\* in every sample since its first one has been reported from there to the last.
TrafficCounted ==
  /\ \A i \in Instance : reported[i].bytes <= io[i] /\ reported[i].ios <= io[i]
  /\ \A p \in Pid : LET i == whose[p] IN
       i # Nobody /\ i \notin broken =>
         /\ reported[i].bytes = previous[p].bytes - firstSeen[i].bytes
         /\ reported[i].ios = Positive(previous[p].ios, firstSeen[i].ios)
=============================================================================
