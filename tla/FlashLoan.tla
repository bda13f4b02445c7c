------------------------------ MODULE FlashLoan ------------------------------
(***************************************************************************)
(* Transactions with flash loans.  flash_borrow_reserve_liquidity hands    *)
(* out tokens because a later instruction of the same transaction repays   *)
(* them: it reads the instructions that follow it, and the repayment reads *)
(* the borrow it names (lending_market/flash_ixs.rs, ix_utils.rs).         *)
(*                                                                         *)
(* A transaction is a sequence of instructions that run one by one; if one *)
(* fails all are undone.  What the two instructions do to a reserve is in  *)
(* module Reserve; here they only count the tokens that are owed to it.    *)
(*                                                                         *)
(* An instruction is a record [program, op, accounts, amount,              *)
(* borrowIndex].  program is the program at the top level; op is the flash *)
(* loan handler it runs, if any.  With program "other" and op "borrow" or  *)
(* "repay", another program calls klend's handler, and its data looks like *)
(* the handler's.  accounts stands for the list of accounts passed.        *)
(***************************************************************************)
EXTENDS Integers, Sequences

CONSTANTS
  Reserves,
  AccountLists,   \* lists of accounts an instruction may be given
  ReserveOf,      \* the reserve of such a list, accounts[3]
  Instructions,   \* the instructions transactions are made of
  MaxLength       \* bound: instructions of a transaction

ASSUME FlashLoanAssumption ==
  /\ ReserveOf \in [AccountLists -> Reserves]
  /\ Instructions \subseteq
       [program : {"klend", "other"}, op : {"borrow", "repay", "none"},
        accounts : AccountLists, amount : Nat, borrowIndex : Nat]
  /\ MaxLength \in Nat

VARIABLES
  tx,      \* the transaction being executed, <<>> for none
  next,    \* the index of the instruction to run next
  owed,    \* tokens of each reserve lent and not repaid
  before   \* owed before the transaction, to which an error returns

vars == <<tx, next, owed, before>>

Transactions == UNION {[1..n -> Instructions] : n \in 1..MaxLength}

TypeOK ==
  /\ tx \in Seq(Instructions)
  /\ next \in 1..Len(tx) + 1
  /\ owed \in [Reserves -> Int]
  /\ before \in [Reserves -> Int]

NothingOwed == [r \in Reserves |-> 0]

Init ==
  /\ tx = <<>>
  /\ next = 1
  /\ owed = NothingOwed
  /\ before = NothingOwed

Running == tx # <<>>

\* What the checks read of instruction i of transaction t.
IsFlash(t, i, op) == t[i].program = "klend" /\ t[i].op = op

\* The flash loan instructions of one kind that follow instruction i.
Later(t, i, op) == {j \in i + 1..Len(t) : IsFlash(t, j, op)}

\* flash_borrow_check_matching_repay
MatchingRepay(t, borrow, repay) ==
  /\ t[repay].amount = t[borrow].amount
  /\ t[repay].borrowIndex = borrow
  /\ t[repay].accounts = t[borrow].accounts

\* Mutant: one borrow may be followed by several repayments.
BorrowChecks_AnyRepays(t, i) ==
  /\ Later(t, i, "borrow") = {}
  /\ Later(t, i, "repay") # {}
  /\ \A j \in Later(t, i, "repay") : MatchingRepay(t, i, j)

\* flash_borrow_checks, for a borrow at index i: of the flash loan instructions
\* that follow, none is a borrow and one is a repayment, and it matches.
BorrowChecks(t, i) ==
  /\ Later(t, i, "borrow") = {}
  /\ Later(t, i, "repay") # {}
  /\ \A j, k \in Later(t, i, "repay") : j = k
  /\ \A j \in Later(t, i, "repay") : MatchingRepay(t, i, j)

\* Mutant: the program of the borrow instruction is not checked.
RepayChecks_AnyProgram(t, i) ==
  LET borrow == t[i].borrowIndex IN
  /\ borrow \in 1..i
  /\ t[borrow].op = "borrow"
  /\ ReserveOf[t[borrow].accounts] = ReserveOf[t[i].accounts]
  /\ t[borrow].amount = t[i].amount

\* flash_repay_checks, for a repayment at index i.
RepayChecks(t, i) ==
  LET borrow == t[i].borrowIndex IN
  /\ borrow \in 1..i
  /\ IsFlash(t, borrow, "borrow")
  /\ ReserveOf[t[borrow].accounts] = ReserveOf[t[i].accounts]
  /\ t[borrow].amount = t[i].amount

Begin ==
  /\ ~Running
  /\ tx' \in Transactions
  /\ next' = 1
  /\ before' = owed
  /\ UNCHANGED owed

\* Mutant: another program may call the handler (no is_flash_forbidden_cpi_call).
CalledDirectly_OrByCpi(op) ==
  /\ next <= Len(tx)
  /\ tx[next].op = op

\* The handler runs as the top-level instruction, not called by another program.
CalledDirectly(op) ==
  /\ next <= Len(tx)
  /\ IsFlash(tx, next, op)

FlashBorrow ==
  /\ CalledDirectly("borrow")
  /\ BorrowChecks(tx, next)
  /\ owed' = [owed EXCEPT ![ReserveOf[tx[next].accounts]] = @ + tx[next].amount]
  /\ next' = next + 1
  /\ UNCHANGED <<tx, before>>

FlashRepay ==
  /\ CalledDirectly("repay")
  /\ RepayChecks(tx, next)
  /\ owed' = [owed EXCEPT ![ReserveOf[tx[next].accounts]] = @ - tx[next].amount]
  /\ next' = next + 1
  /\ UNCHANGED <<tx, before>>

\* Any other instruction; one whose data only looks like a flash loan is one.
OtherInstruction ==
  /\ next <= Len(tx)
  /\ ~IsFlash(tx, next, "borrow")
  /\ ~IsFlash(tx, next, "repay")
  /\ next' = next + 1
  /\ UNCHANGED <<tx, owed, before>>

Commit ==
  /\ Running
  /\ next = Len(tx) + 1
  /\ tx' = <<>>
  /\ next' = 1
  /\ UNCHANGED <<owed, before>>

\* An instruction fails, for one of the checks above or for any other reason.
Abort ==
  /\ next <= Len(tx)
  /\ tx' = <<>>
  /\ next' = 1
  /\ owed' = before
  /\ UNCHANGED before

Next ==
  \/ Begin
  \/ FlashBorrow
  \/ FlashRepay
  \/ OtherInstruction
  \/ Commit
  \/ Abort

Spec == Init /\ [][Next]_vars

-------------------------------------------------------------------------------
(* Properties. *)

\* Between transactions no reserve is owed anything, and none was given more than
\* it lent: no order, number or imitation of flash loan instructions gets a
\* transaction through the two independent checks with a loan open, or with a
\* repayment of a loan that was not taken.
LoansAreSettled == ~Running => owed = NothingOwed

\* Within a transaction, a reserve is never paid back more than it lent: the
\* repayment would otherwise be taken off the debts of its borrowers.
NeverOverpaid == \A r \in Reserves : owed[r] >= 0

\* FlashLoan implements FlashLoanPromise: one loan at a time, repaid as a whole,
\* to the reserve it came from.  Module Reserve takes this for granted.
Promise == INSTANCE FlashLoanPromise WITH running <- Running
KeepsPromise == Promise!Spec
===============================================================================
