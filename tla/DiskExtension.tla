---------------------------- MODULE DiskExtension ----------------------------
(***************************************************************************)
(* New disks for hosts (processAddDisksToHosts, add_disks_to_hosts_task).   *)
(* The logical volume of a host is measured while it is extended, so a host *)
(* without load is extended at once, one with load when its bandwidth falls *)
(* under the threshold, and those that stay over it until the timeout in    *)
(* one call at the end that holds their containers back.  All but that one  *)
(* are tasks of their own, which run while the loop goes on polling.        *)
(***************************************************************************)
EXTENDS Naturals, FiniteSets

CONSTANTS
  Host,
  MaxRounds,   \* bound on timeout_events, the number of polls
  MaxBreaks    \* bound on failing requests and playbooks

VARIABLES
  asking,      \* the request: hosts, idle ones among them, volume or not, timeout
  disking,     \* where add_disks_to_hosts_task is
  hostList,    \* host_list: hosts still to be extended
  measured,    \* hosts the first loop has still to look at
  polls,       \* current_events
  calls,       \* calls[h]: extensions that were queued or made for h
  volume,      \* volume[h]: its state
  heldBack,    \* hosts in the last call
  breaks

vars == <<asking, disking, hostList, measured, polls, calls, volume, heldBack, breaks>>

Asking == [hosts : (SUBSET Host) \ {{}}, idle : SUBSET Host, toVolume : BOOLEAN,
           timeout : 0..MaxRounds]

TypeOK ==
  /\ asking \in Asking /\ asking.idle \subseteq asking.hosts
  /\ disking \in {"form", "refused", "adding", "idleHosts", "polling", "pausing", "last",
                  "disks", "done", "failed"}
  /\ hostList \subseteq asking.hosts /\ measured \subseteq asking.hosts
  /\ polls \in 0..MaxRounds
  /\ calls \in [Host -> Nat]
  /\ volume \in [Host -> {"old", "queued", "extended", "broken"}]
  /\ heldBack \subseteq Host /\ breaks \in 0..MaxBreaks

\* Without a volume to extend, every host counts as idle and is not looked at.
Init ==
  /\ asking \in {q \in Asking : q.idle \subseteq q.hosts /\ (~q.toVolume => q.idle = q.hosts)}
  /\ disking = "form"
  /\ hostList = asking.hosts /\ measured = asking.hosts
  /\ polls = 0
  /\ calls = [h \in Host |-> 0]
  /\ volume = [h \in Host |-> "old"]
  /\ heldBack = {} /\ breaks = 0

Break == breaks < MaxBreaks /\ breaks' = breaks + 1

\* processAddDisksToHosts: refused without the extra disk a volume needs.
Ask ==
  /\ disking = "form"
  /\ \/ disking' = "adding"
     \/ asking.toVolume /\ disking' = "refused"
  /\ UNCHANGED <<asking, hostList, measured, polls, calls, volume, heldBack, breaks>>

\* add_disks_to_hosts, in the inventory
AddDisks ==
  /\ disking = "adding"
  /\ \/ disking' = (IF asking.toVolume THEN "idleHosts" ELSE "disks") /\ UNCHANGED breaks
     \/ Break /\ disking' = "failed"
  /\ UNCHANGED <<asking, hostList, measured, polls, calls, volume, heldBack>>

\* The playbook that adds the disks one by one
RunAddDisks ==
  /\ disking = "disks"
  /\ \/ disking' = "done" /\ UNCHANGED breaks
     \/ Break /\ disking' = "failed"
  /\ UNCHANGED <<asking, hostList, measured, polls, calls, volume, heldBack>>

\* extend_lv.delay for each of hs
QueueExtensions(hs) ==
  /\ calls' = [h \in Host |-> IF h \in hs THEN calls[h] + 1 ELSE calls[h]]
  /\ volume' = [h \in Host |-> IF h \in hs THEN "queued" ELSE volume[h]]

\* The loop over measure_host_list
ExtendIdle(h) ==
  /\ disking = "idleHosts" /\ h \in measured
  /\ measured' = measured \ {h}
  /\ hostList' = hostList \ ({h} \cap asking.idle)
  /\ QueueExtensions({h} \cap asking.idle)
  /\ UNCHANGED <<asking, disking, polls, heldBack, breaks>>

\* Fault: one poll more than asked for.
AgainOneMore(l, n) == IF n <= asking.timeout /\ l # {} THEN "polling" ELSE "last"

\* The loop goes on: while current_events < timeout_events and len(host_list) > 0.
Again(l, n) == IF n < asking.timeout /\ l # {} THEN "polling" ELSE "last"

StartPolling ==
  /\ disking = "idleHosts" /\ measured = {}
  /\ disking' = Again(hostList, polls)
  /\ UNCHANGED <<asking, hostList, measured, polls, calls, volume, heldBack, breaks>>

\* Fault: the hosts that are extended stay in the list.
PollAgainAll ==
  /\ disking = "polling"
  /\ \E under \in SUBSET hostList :
       /\ QueueExtensions(under)
       /\ polls' = polls + 1
       /\ disking' = (IF Again(hostList, polls') = "polling" THEN "pausing" ELSE "last")
  /\ UNCHANGED <<asking, hostList, measured, heldBack, breaks>>

\* One round: the hosts under the threshold now are extended.  A request that fails,
\* or a host without a volume in the State Database, raises with some of them queued.
Poll ==
  /\ disking = "polling"
  /\ \E under \in SUBSET hostList :
       /\ QueueExtensions(under)
       /\ \/ /\ hostList' = hostList \ under
             /\ polls' = polls + 1
             /\ disking' = (IF Again(hostList', polls') = "polling" THEN "pausing" ELSE "last")
             /\ UNCHANGED breaks
          \/ Break /\ disking' = "failed" /\ UNCHANGED <<hostList, polls>>
  /\ UNCHANGED <<asking, measured, heldBack>>

\* time.sleep(polling_frequency)
Pause ==
  /\ disking = "pausing"
  /\ disking' = "polling"
  /\ UNCHANGED <<asking, hostList, measured, polls, calls, volume, heldBack, breaks>>

\* extend_lv(throttle_containers_bw=True) in the task itself
ExtendLast ==
  /\ disking = "last"
  /\ heldBack' = hostList
  /\ calls' = [h \in Host |-> IF h \in hostList THEN calls[h] + 1 ELSE calls[h]]
  /\ \/ /\ disking' = "done"
        /\ volume' = [h \in Host |-> IF h \in hostList THEN "extended" ELSE volume[h]]
        /\ UNCHANGED breaks
     \/ /\ hostList # {} /\ Break /\ disking' = "failed"
        /\ volume' = [h \in Host |-> IF h \in hostList THEN "broken" ELSE volume[h]]
  /\ UNCHANGED <<asking, hostList, measured, polls>>

\* A queued extend_lv
RunExtension(h) ==
  /\ volume[h] = "queued"
  /\ \/ volume' = [volume EXCEPT ![h] = "extended"] /\ UNCHANGED breaks
     \/ Break /\ volume' = [volume EXCEPT ![h] = "broken"]
  /\ UNCHANGED <<asking, disking, hostList, measured, polls, calls, heldBack>>

TaskStep ==
  \/ AddDisks \/ RunAddDisks \/ StartPolling \/ Poll \/ Pause \/ ExtendLast
  \/ \E h \in Host : ExtendIdle(h)

Next == Ask \/ TaskStep \/ \E h \in Host : RunExtension(h)

Spec == Init /\ [][Next]_vars
-----------------------------------------------------------------------------
(* Properties *)

\* A volume is never extended twice with the same disks.  A task that ended well has
\* extended each host that was asked for, and held back only those that had load and
\* stayed over the threshold for every poll.
ExtendedOnce ==
  /\ \A h \in Host : calls[h] <= 1
  /\ disking = "done" /\ asking.toVolume =>
       \A h \in asking.hosts : calls[h] = 1 /\ volume[h] # "old"
  /\ heldBack # {} => polls = asking.timeout /\ heldBack \cap asking.idle = {}
=============================================================================
