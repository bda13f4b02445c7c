--------------------------- MODULE FlashLoanPromise ---------------------------
(***************************************************************************)
(* What flash loans promise the reserves: a transaction has at most one    *)
(* loan at a time, the loan is repaid as a whole to the reserve it came    *)
(* from, and a transaction only commits when it is repaid.  FlashLoan      *)
(* implements this specification.                                          *)
(***************************************************************************)
EXTENDS Integers

CONSTANT Reserves

VARIABLES
  running,  \* a transaction is being executed
  owed      \* what it owes to each reserve

vars == <<running, owed>>

NothingOwed == [r \in Reserves |-> 0]

Init == running = FALSE /\ owed = NothingOwed

Begin == ~running /\ running' = TRUE /\ UNCHANGED owed

Lend ==
  /\ running
  /\ owed = NothingOwed
  /\ \E r \in Reserves :
       owed'[r] \in Nat /\ owed' = [NothingOwed EXCEPT ![r] = owed'[r]]
  /\ UNCHANGED running

Repay == running /\ owed' = NothingOwed /\ UNCHANGED running

Commit ==
  /\ running
  /\ owed = NothingOwed
  /\ running' = FALSE
  /\ UNCHANGED owed

Abort == running /\ running' = FALSE /\ owed' = NothingOwed

Next == Begin \/ Lend \/ Repay \/ Commit \/ Abort

Spec == Init /\ [][Next]_vars
===============================================================================
