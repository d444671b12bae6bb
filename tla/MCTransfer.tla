------------------------------ MODULE MCTransfer ------------------------------
(* Two files, one after the other: the second one meets what the first one *)
(* left behind (a prompt, frames, a full buffer).                          *)
EXTENDS Transfer, TLC

CONSTANTS t1, t2

Symmetry == Permutations(Transfer)
===============================================================================
