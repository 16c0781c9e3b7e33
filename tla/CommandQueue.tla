---------------------------- MODULE CommandQueue ----------------------------
(***************************************************************************)
(* What the fill engine promises about commands: they are numbered as they *)
(* are accepted, wait in order, and leave from the head, once, as they     *)
(* were accepted.  A soft reset drops all of them.                         *)
(***************************************************************************)
EXTENDS Naturals, Sequences

CONSTANTS
  Ops, Shapes,  \* what a command asks for
  Capacity      \* commands that can be under way

VARIABLES
  queue,      \* the commands under way, the running one first
  issued,     \* commands accepted so far
  completed   \* commands completed since the last reset
qvars == <<queue, issued, completed>>

Init == queue = <<>> /\ issued = 0 /\ completed = 0

Numbered(n, op, shape) == [id |-> n, op |-> op, shape |-> shape]

(* At most one command leaves and at most one joins in a step.             *)
Step ==
  \E rest \in {queue} \cup (IF queue = <<>> THEN {} ELSE {Tail(queue)}),
     op \in Ops, shape \in Shapes, joins \in BOOLEAN :
    /\ queue' = IF joins THEN Append(rest, Numbered(issued + 1, op, shape)) ELSE rest
    /\ issued' = IF joins THEN issued + 1 ELSE issued
    /\ Len(queue') <= Capacity
    /\ completed' \in IF rest = queue THEN {completed} ELSE {completed, completed + 1}

Reset == queue' = <<>> /\ completed' = 0 /\ UNCHANGED issued

Spec == Init /\ [][Step \/ Reset]_qvars
=============================================================================
