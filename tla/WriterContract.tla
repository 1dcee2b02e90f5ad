--------------------------- MODULE WriterContract ---------------------------
(***************************************************************************)
(* What the producer-side socket layer promises for each atom handed to    *)
(* write_buffer_to_statsd (libstatssocket): the call either returns at    *)
(* once with the atom rejected (a full producer queue), or the atom is     *)
(* pending and is eventually resolved exactly once, as delivered to the    *)
(* daemon's socket or as a drop noted in the loss tracker.  Atoms are      *)
(* numbered in the order they are handed to the layer.                     *)
(***************************************************************************)
EXTENDS Naturals

CONSTANT Atoms       \* 1 .. n

VARIABLE status      \* [Atoms -> {"unused", "pending", "delivered", "dropped"}]

Statuses == {"unused", "pending", "delivered", "dropped"}

Init == status = [a \in Atoms |-> "unused"]

\* The next atom in order is handed to the layer.
CanIssue(a) == status[a] = "unused" /\ (a = 1 \/ status[a - 1] # "unused")

Issue(a) == CanIssue(a) /\ status' = [status EXCEPT ![a] = "pending"]

\* The call returns false at once and the drop is noted.
Reject(a) == CanIssue(a) /\ status' = [status EXCEPT ![a] = "dropped"]

Deliver(a) == status[a] = "pending" /\ status' = [status EXCEPT ![a] = "delivered"]

Drop(a) == status[a] = "pending" /\ status' = [status EXCEPT ![a] = "dropped"]

Resolve(a) == Deliver(a) \/ Drop(a)

Next == \E a \in Atoms : Issue(a) \/ Reject(a) \/ Resolve(a)

\* Every pending atom is eventually resolved.
Spec == Init /\ [][Next]_status /\ \A a \in Atoms : WF_status(Resolve(a))

TypeOK == status \in [Atoms -> Statuses]
=============================================================================
