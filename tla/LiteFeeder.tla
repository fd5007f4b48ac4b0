------------------------------ MODULE LiteFeeder ------------------------------
(***************************************************************************)
(* lite_feeder.c: every interval, read the counters of every process of a   *)
(* container in /proc, and send what each has gained since the sample       *)
(* before: processor, waiting (which the kernel counts for each thread) and *)
(* disk.  Processes and threads begin and end meanwhile, and their numbers  *)
(* are given again.                                                        *)
(*                                                                         *)
(* A thread works in units: each adds one to the processor and disk         *)
(* counters of its process and to its own delay.  A sample reads /proc in    *)
(* one step.  Rates are taken times the interval.  A request that is        *)
(* repeated stores the same points, so that its first attempt may have been *)
(* stored or not.                                                          *)
(***************************************************************************)
EXTENDS Naturals, FiniteSets, Functions

CONSTANTS
  Pid,            \* numbers of processes and threads
  Process, Nobody,
  MaxWork,        \* bound on the work of a process
  MinSent,        \* the least gain that is sent: 0.05
  MaxFailures     \* bound on the samples in which an io file cannot be read or a
                  \* batch is not stored

VARIABLES
  thread,      \* thread[t]: the process of thread t, or Nobody
  leaders,     \* threads that are the first of their process, whose pid they give
  started,     \* processes that have started
  work,        \* work[i]: the counters of process i
  delay,       \* delay[t]: that of thread t
  first,       \* whether the next sample is the first
  prevProcs,   \* prev_procs: what the last sample has read of each pid
  prevThreads, \* prev_threads: the delay it has read of each tid
  stored,      \* stored[i]: points stored for process i, added up
  dropped,     \* dropped[i]: gains that were too small to send or not stored
  base,        \* base[i]: its counters in the first sample, which is only a reference
  unreadable,  \* processes whose io file could once not be read
  failures

kernel  == <<thread, leaders, started, work, delay>>
buffers == <<first, prevProcs, prevThreads>>
ledger  == <<stored, dropped, base, unreadable, failures>>
vars    == <<kernel, buffers, ledger>>

Wrap == 4 * (MaxWork + 1)   \* 2^64: what a difference below zero becomes
Metrics == {"cpu", "wait", "disk"}
Nothing == [m \in Metrics |-> 0]

NotThere == [start |-> Nobody, total |-> 0, io |-> FALSE]
Sampled == [start : Process, total : 0..MaxWork, io : BOOLEAN]
NoThread == MaxWork + 1     \* no delay

TypeOK ==
  /\ thread \in [Pid -> Process \cup {Nobody}]
  /\ leaders \subseteq Pid /\ started \subseteq Process
  /\ work \in [Process -> 0..MaxWork] /\ delay \in [Pid -> 0..MaxWork]
  /\ first \in BOOLEAN
  /\ prevProcs \in [Pid -> Sampled \cup {NotThere}]
  /\ prevThreads \in [Pid -> 0..NoThread]
  /\ stored \in [Process -> [Metrics -> Nat]] /\ dropped \in [Process -> [Metrics -> Nat]]
  /\ base \in [Process -> 0..MaxWork]
  /\ unreadable \subseteq Process
  /\ failures \in 0..MaxFailures

Init ==
  /\ thread = [t \in Pid |-> Nobody] /\ leaders = {} /\ started = {}
  /\ work = [i \in Process |-> 0] /\ delay = [t \in Pid |-> 0]
  /\ first = TRUE
  /\ prevProcs = [p \in Pid |-> NotThere]
  /\ prevThreads = [t \in Pid |-> NoThread]
  /\ stored = [i \in Process |-> Nothing] /\ dropped = stored
  /\ base = [i \in Process |-> 0]
  /\ unreadable = {}
  /\ failures = 0

-----------------------------------------------------------------------------
(* Processes and threads *)

Start(i, p) ==
  /\ i \notin started /\ thread[p] = Nobody
  /\ started' = started \cup {i}
  /\ thread' = [thread EXCEPT ![p] = i] /\ leaders' = leaders \cup {p}
  /\ delay' = [delay EXCEPT ![p] = 0]
  /\ UNCHANGED <<work, buffers, ledger>>

NewThread(p, t) ==
  /\ p \in leaders /\ thread[t] = Nobody
  /\ thread' = [thread EXCEPT ![t] = thread[p]]
  /\ delay' = [delay EXCEPT ![t] = 0]
  /\ UNCHANGED <<leaders, started, work, buffers, ledger>>

\* The end of a leader is that of its process.
Exit(t) ==
  /\ thread[t] # Nobody
  /\ thread' = [u \in Pid |-> IF u = t \/ (t \in leaders /\ thread[u] = thread[t])
                              THEN Nobody ELSE thread[u]]
  /\ leaders' = leaders \ {t}
  /\ UNCHANGED <<started, work, delay, buffers, ledger>>

Work(t) ==
  /\ thread[t] # Nobody /\ work[thread[t]] < MaxWork
  /\ work' = [work EXCEPT ![thread[t]] = @ + 1]
  /\ delay' = [delay EXCEPT ![t] = @ + 1]
  /\ UNCHANGED <<thread, leaders, started, buffers, ledger>>

-----------------------------------------------------------------------------
(* sample_procs *)

Minus(a, b) == (a + Wrap - b) % Wrap   \* of u64

\* Fault: a number that is there again is taken for the same process.
SamePid(p, start) == prevProcs[p] # NotThere

\* find_prev, and whether it found the same process.
Known(p, start) == prevProcs[p] # NotThere /\ prevProcs[p].start = start

\* read_run_delay: of one thread.  One that is new, or has less than the one that had
\* its number, counts since its start.
DelayGain(t, known) ==
  IF known /\ prevThreads[t] # NoThread /\ prevThreads[t] <= delay[t]
  THEN delay[t] - prevThreads[t] ELSE delay[t]

\* read_run_delay, of a process.
Waited(p) ==
  SumFunction([t \in {u \in Pid : thread[u] = thread[p]} |-> DelayGain(t, Known(p, thread[p]))])

\* read_proc, with an io file that can be read or not.
ReadProc(p, io) == [start |-> thread[p], total |-> work[thread[p]], io |-> io]

\* What a process has gained, or done since its start.
GainOf(p, io) ==
  LET q == IF Known(p, thread[p]) THEN prevProcs[p] ELSE NotThere
      c == ReadProc(p, io)
  IN  [cpu  |-> Minus(c.total, q.total),
       wait |-> Waited(p),
       disk |-> IF io THEN Minus(c.total, IF q.io THEN q.total ELSE 0) ELSE 0]

\* Processor and waiting are sent together, or waiting alone.
IsSent(gain, m) == gain[m] >= MinSent \/ (m = "wait" /\ gain.cpu >= MinSent)

\* The processes whose io file cannot be read, and those whose points are in a batch
\* that is not stored, after the one repetition.
Fail(failing, refused) ==
  /\ IF failing \cup refused = {} THEN UNCHANGED failures
     ELSE failures < MaxFailures /\ failures' = failures + 1
  /\ unreadable' = unreadable \cup {thread[p] : p \in failing}

\* The points of a sample; it becomes the previous one.  The first is a reference.
SampleProcs ==
  /\ \E failing \in SUBSET leaders, refused \in SUBSET leaders :
       LET Sum(i, m, P) == SumFunction([p \in {q \in P : thread[q] = i} |->
                                          GainOf(p, p \notin failing)[m]])
           Accepted(m) == {p \in leaders \ refused : IsSent(GainOf(p, p \notin failing), m)}
       IN  /\ Fail(failing, refused)
           /\ prevProcs' = [p \in Pid |-> IF p \in leaders THEN ReadProc(p, p \notin failing)
                                          ELSE NotThere]
           /\ IF first
              THEN base' = [i \in Process |-> IF \E p \in leaders : thread[p] = i THEN work[i] ELSE 0]
                   /\ refused = {} /\ UNCHANGED <<stored, dropped>>
              ELSE /\ stored' = [i \in Process |-> [m \in Metrics |->
                                 stored[i][m] + Sum(i, m, Accepted(m))]]
                   /\ dropped' = [i \in Process |-> [m \in Metrics |->
                                    dropped[i][m] + Sum(i, m, leaders \ Accepted(m))]]
                   /\ UNCHANGED base
  /\ prevThreads' = [t \in Pid |-> IF thread[t] = Nobody THEN NoThread ELSE delay[t]]
  /\ first' = FALSE
  /\ UNCHANGED kernel

Next ==
  \/ \E p \in Pid : \/ \E i \in Process : Start(i, p)
                    \/ \E t \in Pid : NewThread(p, t)
                    \/ Exit(p) \/ Work(p)
  \/ SampleProcs

Spec == Init /\ [][Next]_vars
-----------------------------------------------------------------------------
(* Properties *)

Counted(i, m) == stored[i][m] + dropped[i][m]

\* Of no process more is counted than it has done, whichever process or thread had its
\* numbers before and whichever of its threads are gone; one that is still there has
\* been counted from the reference, or from its start, to the last sample.  For the
\* disk that takes an io file that can always be read: after one that could not, what
\* was counted before is counted again.
UsageCounted ==
  /\ \A i \in Process :
       /\ Counted(i, "cpu") <= work[i] /\ Counted(i, "wait") <= work[i]
       /\ i \notin unreadable => Counted(i, "disk") <= work[i]
  /\ \A p \in Pid : LET q == prevProcs[p] IN
       q # NotThere =>
         /\ Counted(q.start, "cpu") = q.total - base[q.start]
         /\ q.start \notin unreadable => Counted(q.start, "disk") = q.total - base[q.start]
=============================================================================
