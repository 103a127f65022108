----------------------------- MODULE MCLrwQueue -----------------------------
(* LrwQueue with the constants of its TLC runs.                            *)
EXTENDS LrwQueue

CONSTANTS button, wut, m1, m2, m3

(* The simple-gesture STA build: the button and the wake-up timer handler  *)
(* have one priority, and never preempt each other.                        *)
FlatPrio == [p \in Isr |-> 3]
=============================================================================
