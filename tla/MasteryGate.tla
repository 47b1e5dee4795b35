---------------------------- MODULE MasteryGate ----------------------------
(***************************************************************************)
(* What a live session promises, without its turns: a stack of at most two *)
(* lessons, each with its goal confirmed or not, and a gate that opens on  *)
(* the top one.  A goal is confirmed only through the open gate; a lesson  *)
(* under another one waits until the upper one has passed its gate.        *)
(***************************************************************************)
EXTENDS Naturals, Sequences

CONSTANTS KC,               \* knowledge components
          Masterable,       \* those whose gate can open
          Prerequisites     \* KC -> the lessons it may drop to

VARIABLES stack,   \* the lessons, the one being worked last
          gate     \* whether its gate is open

vars == <<stack, gate>>

Lesson(kc) == [goal |-> kc, confirmed |-> FALSE]

Top == stack[Len(stack)]

Init ==
  /\ \E kc \in KC : stack = <<Lesson(kc)>>
  /\ gate = FALSE

\* The gate opens once per mastery: never on a confirmed goal.
Open ==
  /\ ~gate
  /\ Top.goal \in Masterable
  /\ ~Top.confirmed
  /\ gate' = TRUE
  /\ UNCHANGED stack

\* Failed: the lesson goes on.
Close ==
  /\ gate
  /\ gate' = FALSE
  /\ UNCHANGED stack

\* Passed in a lesson of its own right.
Confirm ==
  /\ gate
  /\ Len(stack) = 1
  /\ stack' = <<[goal |-> stack[1].goal, confirmed |-> TRUE]>>
  /\ gate' = FALSE

\* One level down, and no further.
Drop ==
  /\ ~gate
  /\ Len(stack) = 1
  /\ \E kc \in Prerequisites[Top.goal] : stack' = <<stack[1], Lesson(kc)>>
  /\ UNCHANGED gate

\* Passed one level down: the lesson below is on top again, as it was left.
Return ==
  /\ gate
  /\ Len(stack) = 2
  /\ stack' = <<stack[1]>>
  /\ gate' = FALSE

Next == Open \/ Close \/ Confirm \/ Drop \/ Return

Spec == Init /\ [][Next]_vars
=============================================================================
