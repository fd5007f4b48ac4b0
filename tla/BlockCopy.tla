------------------------------- MODULE BlockCopy -------------------------------
(***************************************************************************)
(* HDFSBlockParallelCopy.java: MapReduce jobs that copy a directory to      *)
(* another HDFS.  A map copies one split of a file to a chunk under a name  *)
(* of its own; at the end the committer makes the files out of whatever     *)
(* chunks are under the destination.  An attempt of a map may die, and is   *)
(* repeated by YARN; a job that fails is aborted, and one that is killed    *)
(* leaves everything where it is.                                          *)
(*                                                                         *)
(* The jobs have the same destination and run one after another: of two at  *)
(* the same time, each would commit and delete the chunks of the other.     *)
(***************************************************************************)
EXTENDS Naturals, FiniteSets, Sequences

CONSTANTS
  Job, File,
  Hidden,       \* files whose name begins with "_" or ".", which are no input of a map
  Sources,      \* what a job finds to copy: for each file its splits, 0 if there is none;
                \* a hidden file is empty with 1, and has data with more
  MaxSplits,    \* bound on the splits of a file
  MaxAttempts,  \* mapreduce.map.maxattempts
  MaxCrashes    \* bound on attempts that die, calls of a committer that fail and kills

VARIABLES
  source,      \* source[j]: one of Sources
  job,         \* job[j]: where it is
  latest,      \* the job that has begun last, or the set of none
  writing, copied,  \* splits whose chunk is open, and those whose map has ended
  tries,       \* tries[k]: attempts for split k that have failed
  chunks,      \* chunks[k]: the chunk of file k[1] at offset k[2]
  plan,        \* chunksByFile: chunks the committer has still to put in their files
  renamed,     \* the file whose first chunk it has renamed, in a set
  deleted,     \* the file it has deleted before, in a set
  files,       \* files[f]: the chunks it is made of, none if it does not exist
  found,       \* files when the latest job began
  clean,       \* jobs that began without any chunk there
  crashes

copying == <<writing, copied, tries>>
commit  == <<plan, renamed, deleted>>
history == <<found, clean>>
vars    == <<source, job, latest, copying, chunks, commit, files, history, crashes>>

Split == File \X (0..(MaxSplits - 1))
NoChunk == [job |-> {}, whole |-> FALSE]
Chunk == [job : {{j} : j \in Job}, whole : BOOLEAN]
Piece == [job : {{j} : j \in Job}, whole : BOOLEAN, offset : 0..(MaxSplits - 1)]

TypeOK ==
  /\ source \in [Job -> Sources]
  /\ job \in [Job -> {"waiting", "mapping", "committing", "aborting", "undoing",
                      "succeeded", "failed", "torn", "killed"}]
  /\ latest \in {{}} \cup {{j} : j \in Job}
  /\ writing \subseteq Split /\ copied \subseteq Split
  /\ tries \in [Split -> 0..MaxAttempts]
  /\ chunks \in [Split -> Chunk \cup {NoChunk}]
  /\ plan \subseteq Split
  /\ renamed \subseteq File /\ deleted \subseteq File
  /\ \A f \in File : \A i \in DOMAIN files[f] : files[f][i] \in Piece
  /\ clean \subseteq Job /\ crashes \in 0..MaxCrashes

Init ==
  /\ source \in [Job -> Sources]
  /\ job = [j \in Job |-> "waiting"] /\ latest = {}
  /\ writing = {} /\ copied = {} /\ tries = [k \in Split |-> 0]
  /\ chunks = [k \in Split |-> NoChunk]
  /\ plan = {} /\ renamed = {} /\ deleted = {}
  /\ files = [f \in File |-> <<>>]
  /\ found = files /\ clean = {}
  /\ crashes = 0

\* The splits FileInputFormat makes: an empty file has one, a hidden file none.
Splits(j) == {k \in Split : k[1] \notin Hidden /\ k[2] < source[j][k[1]]}

Existing == {k \in Split : chunks[k] # NoChunk}

Crash == crashes < MaxCrashes /\ crashes' = crashes + 1

Over == {"succeeded", "failed", "torn", "killed"}

-----------------------------------------------------------------------------
(* The job and its maps *)

Submit(j) ==
  /\ job[j] = "waiting" /\ \A i \in Job : job[i] \in {"waiting"} \cup Over
  /\ job' = [job EXCEPT ![j] = "mapping"]
  /\ latest' = {j}
  /\ writing' = {} /\ copied' = {} /\ tries' = [k \in Split |-> 0]
  /\ found' = files
  /\ clean' = IF Existing = {} THEN clean \cup {j} ELSE clean
  /\ UNCHANGED <<source, chunks, commit, files, crashes>>

\* An attempt ends badly; after the last of a split the job is aborted, and with it
\* the other maps.
AttemptFails(j, k) ==
  /\ tries' = [tries EXCEPT ![k] = @ + 1]
  /\ IF tries'[k] = MaxAttempts
     THEN job' = [job EXCEPT ![j] = "aborting"] /\ writing' = {}
     ELSE writing' = writing \ {k} /\ UNCHANGED job

\* Fault: a chunk that is there counts as copied, like files in other tools.
SkipExisting(j, k) ==
  /\ job[j] = "mapping" /\ k \in Splits(j) \ (writing \cup copied)
  /\ IF k \in Existing
     THEN copied' = copied \cup {k} /\ UNCHANGED <<writing, chunks>>
     ELSE /\ chunks' = [chunks EXCEPT ![k] = [job |-> {j}, whole |-> FALSE]]
          /\ writing' = writing \cup {k}
          /\ UNCHANGED copied
  /\ UNCHANGED <<source, job, latest, tries, commit, files, history, crashes>>

\* create(chunkPath, overwrite = false): raises on a chunk that is there.
CreateChunk(j, k) ==
  /\ job[j] = "mapping" /\ k \in Splits(j) \ (writing \cup copied)
  /\ IF k \in Existing
     THEN AttemptFails(j, k) /\ UNCHANGED chunks
     ELSE /\ chunks' = [chunks EXCEPT ![k] = [job |-> {j}, whole |-> FALSE]]
          /\ writing' = writing \cup {k}
          /\ UNCHANGED <<job, tries>>
  /\ UNCHANGED <<source, latest, copied, commit, files, history, crashes>>

CloseChunk(j, k) ==
  /\ job[j] = "mapping" /\ k \in writing
  /\ chunks' = [chunks EXCEPT ![k].whole = TRUE]
  /\ writing' = writing \ {k} /\ copied' = copied \cup {k}
  /\ UNCHANGED <<source, job, latest, tries, commit, files, history, crashes>>

\* ... before it has created its chunk, while it writes, or just after.
AttemptDies(j, k) ==
  /\ job[j] = "mapping" /\ k \in Splits(j) \ copied /\ Crash
  /\ AttemptFails(j, k)
  /\ \/ UNCHANGED chunks
     \/ k \in writing /\ chunks' = [chunks EXCEPT ![k].whole = TRUE]
  /\ UNCHANGED <<source, latest, copied, commit, files, history>>

\* Whoever kills the job, no committer runs any more.
Kill(j) ==
  /\ job[j] \in {"mapping", "committing", "aborting", "undoing"} /\ Crash
  /\ job' = [job EXCEPT ![j] = "killed"]
  /\ writing' = {} /\ plan' = {} /\ renamed' = {} /\ deleted' = {}
  /\ UNCHANGED <<source, latest, copied, tries, chunks, files, history>>

-----------------------------------------------------------------------------
(* ConcatCommitter *)

\* commitJob: every chunk under the destination, of this job or not.
CommitJob(j) ==
  /\ job[j] = "mapping" /\ copied = Splits(j)
  /\ job' = [job EXCEPT ![j] = "committing"]
  /\ plan' = Existing
  /\ UNCHANGED <<source, latest, copying, chunks, renamed, deleted, files, history, crashes>>

PartsOf(f) == {k \in plan : k[1] = f}
PieceOf(k) == [job |-> chunks[k].job, whole |-> chunks[k].whole, offset |-> k[2]]

DeleteFinal(j, f) ==
  /\ job[j] = "committing" /\ renamed = {} /\ deleted = {} /\ PartsOf(f) # {}
  /\ files' = [files EXCEPT ![f] = <<>>]
  /\ deleted' = {f}
  /\ UNCHANGED <<source, job, latest, copying, chunks, plan, renamed, history, crashes>>

\* The chunk with the lowest offset becomes the file ...
RenameFirst(j, f) ==
  /\ job[j] = "committing" /\ f \in deleted
  /\ LET first == CHOOSE k \in PartsOf(f) : \A l \in PartsOf(f) : k[2] <= l[2]
     IN  /\ files' = [files EXCEPT ![f] = <<PieceOf(first)>>]
         /\ chunks' = [chunks EXCEPT ![first] = NoChunk]
         /\ plan' = plan \ {first}
         /\ renamed' = IF PartsOf(f) = {first} THEN {} ELSE {f}
  /\ deleted' = {}
  /\ UNCHANGED <<source, job, latest, copying, history, crashes>>

\* ... and the others are joined to it, in their order, all at once.
Concat(j, f) ==
  /\ job[j] = "committing" /\ f \in renamed
  /\ LET Nth(i) == CHOOSE k \in PartsOf(f) : Cardinality({l \in PartsOf(f) : l[2] < k[2]}) = i - 1
     IN  files' = [files EXCEPT ![f] = @ \o [i \in 1..Cardinality(PartsOf(f)) |-> PieceOf(Nth(i))]]
  /\ chunks' = [k \in Split |-> IF k \in PartsOf(f) THEN NoChunk ELSE chunks[k]]
  /\ plan' = plan \ PartsOf(f)
  /\ renamed' = {}
  /\ UNCHANGED <<source, job, latest, copying, deleted, history, crashes>>

\* Empty files without a chunk, which are the hidden ones.  A hidden file with data has
\* no chunk either, and is not made.
CreateEmpty(j) ==
  /\ job[j] = "committing" /\ plan = {} /\ renamed = {}
  /\ files' = [f \in File |-> IF f \in Hidden /\ source[j][f] = 1 /\ files[f] = <<>>
                              THEN <<[job |-> {j}, whole |-> TRUE, offset |-> 0]>>
                              ELSE files[f]]
  /\ job' = [job EXCEPT ![j] = "succeeded"]
  /\ UNCHANGED <<source, latest, copying, chunks, commit, history, crashes>>

CommitFails(j) ==
  /\ job[j] = "committing" /\ Crash
  /\ job' = [job EXCEPT ![j] = "undoing"]
  /\ plan' = {} /\ renamed' = {} /\ deleted' = {}
  /\ UNCHANGED <<source, latest, copying, chunks, files, history>>

\* abortJob deletes the chunks; a call that fails leaves some.
AbortJob(j) ==
  /\ job[j] \in {"aborting", "undoing"}
  /\ \/ chunks' = [k \in Split |-> NoChunk] /\ UNCHANGED crashes
     \/ /\ Crash
        /\ \E kept \in (SUBSET Existing) \ {{}} :
             chunks' = [k \in Split |-> IF k \in kept THEN chunks[k] ELSE NoChunk]
  /\ job' = [job EXCEPT ![j] = IF job[j] = "aborting" THEN "failed" ELSE "torn"]
  /\ UNCHANGED <<source, latest, copying, commit, files, history>>

Next ==
  \E j \in Job :
    \/ Submit(j) \/ Kill(j) \/ CommitJob(j) \/ CreateEmpty(j) \/ CommitFails(j) \/ AbortJob(j)
    \/ \E k \in Split : CreateChunk(j, k) \/ CloseChunk(j, k) \/ AttemptDies(j, k)
    \/ \E f \in File : DeleteFinal(j, f) \/ RenameFirst(j, f) \/ Concat(j, f)

Spec == Init /\ [][Next]_vars
-----------------------------------------------------------------------------
(* Properties *)

\* What job j makes of the destination: its visible files chunk by chunk; an empty
\* hidden one where there was none; the others, hidden ones with data among them, as
\* they were.
Wanted(j, f) ==
  IF source[j][f] = 0 \/ (f \in Hidden /\ (found[f] # <<>> \/ source[j][f] > 1)) THEN found[f]
  ELSE [i \in 1..source[j][f] |-> [job |-> {j}, whole |-> TRUE, offset |-> i - 1]]

\* A job that ran alone, began without chunks of another and reports success has copied
\* every visible file, of its own chunks only, whole and in order, though attempts died,
\* and has left no chunk; of hidden files it has made the empty ones that were not there,
\* and passed over those with data without a word.  One whose commit fails has made no
\* file of old and new parts: it is as it was, the first part of the new one, or missing.
CopyExact ==
  \A j \in latest \cap clean :
    /\ job[j] = "succeeded" => Existing = {} /\ \A f \in File : files[f] = Wanted(j, f)
    /\ job[j] \in {"aborting", "failed"} => files = found
    /\ \A f \in File : files[f] = found[f]
                         \/ \E n \in 0..Len(Wanted(j, f)) : files[f] = SubSeq(Wanted(j, f), 1, n)
=============================================================================
