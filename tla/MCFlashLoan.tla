----------------------------- MODULE MCFlashLoan -----------------------------
(***************************************************************************)
(* An instance of FlashLoan for TLC: flash loans of one or two tokens from *)
(* two reserves, look-alikes from another program, and other instructions. *)
(***************************************************************************)
EXTENDS FlashLoan

CONSTANTS r1, r2

Lists == {r1, r2}
SameReserve == [a \in Lists |-> a]

Ix(program, op, accounts, amount, borrowIndex) ==
  [program |-> program, op |-> op, accounts |-> accounts, amount |-> amount,
   borrowIndex |-> borrowIndex]

Borrows == {Ix("klend", "borrow", a, n, 0) : a \in Lists, n \in 1..2}
Repays == {Ix("klend", "repay", a, n, i) : a \in Lists, n \in 1..2, i \in 1..MaxLength}
Imitations == {Ix("other", "borrow", r1, 1, 0), Ix("other", "repay", r1, 1, 1)}
Others == {Ix("klend", "none", r1, 0, 0)}

AllInstructions == Borrows \cup Repays \cup Imitations \cup Others
=============================================================================
