----------------------------- MODULE MCCapWindow -----------------------------
(***************************************************************************)
(* An instance of CapWindow for TLC: a tight cap, a wider one with longer  *)
(* intervals, one that is not enforced and one that admits nothing.        *)
(***************************************************************************)
EXTENDS CapWindow

SomeSettings ==
  {[capacity |-> 1, interval |-> 2], [capacity |-> 2, interval |-> 3],
   [capacity |-> 1, interval |-> 0], [capacity |-> -1, interval |-> 1]}
=============================================================================
