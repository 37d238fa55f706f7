---------------------------- MODULE PacketLedger ----------------------------
(***************************************************************************)
(* What the engine promises about packets, and nothing about how: a packet *)
(* a workload publishes is forwarded a bounded number of times and then    *)
(* ends, once and for all, as delivered or as dropped.                     *)
(***************************************************************************)
EXTENDS Naturals

CONSTANTS
  Packets,   \* the packets the workloads publish
  Budget     \* the number of nodes a packet may be forwarded through

VARIABLES
  status,    \* what has become of each packet
  left       \* how many more times each packet may be forwarded

vars == <<status, left>>

Init ==
  /\ status = [p \in Packets |-> "unpublished"]
  /\ left = [p \in Packets |-> Budget]

Publish(p) ==
  /\ status[p] = "unpublished"
  /\ status' = [status EXCEPT ![p] = "in_flight"]
  /\ UNCHANGED left

\* The packet is accepted by one more intermediate node.
Forward(p) ==
  /\ status[p] = "in_flight"
  /\ left[p] > 0
  /\ left' = [left EXCEPT ![p] = @ - 1]
  /\ UNCHANGED status

\* The last permitted acceptance and the drop it leads to are one step.
Conclude(p) ==
  /\ status[p] = "in_flight"
  /\ \E s \in {"delivered", "dropped"} : status' = [status EXCEPT ![p] = s]
  /\ \/ UNCHANGED left
     \/ /\ left[p] > 0
        /\ left' = [left EXCEPT ![p] = @ - 1]
        /\ status'[p] = "dropped"

Next == \E p \in Packets : Publish(p) \/ Forward(p) \/ Conclude(p)

SafeSpec == Init /\ [][Next]_vars

Spec ==
  /\ SafeSpec
  /\ \A p \in Packets : WF_vars(Forward(p) \/ Conclude(p))
=============================================================================
