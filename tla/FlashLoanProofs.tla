--------------------------- MODULE FlashLoanProofs ---------------------------
(***************************************************************************)
(* Proofs that transactions of any length, of any instructions, on any     *)
(* number of reserves, settle their flash loans.                           *)
(*                                                                         *)
(* A borrow that has run is open while a repayment is still to run.  The   *)
(* checks of the borrow leave room for one repayment and for no second     *)
(* borrow, so at most one borrow is open and the next repayment is its.    *)
(***************************************************************************)
EXTENDS FlashLoan, SequenceTheorems, TLAPS

\* The borrow at b has run and a repayment has not.
Open(b) ==
  /\ b \in 1..next - 1
  /\ IsFlash(tx, b, "borrow")
  /\ \E j \in next..Len(tx) : IsFlash(tx, j, "repay")

\* What a borrow instruction lends.
LoanOf(ix) == [NothingOwed EXCEPT ![ReserveOf[ix.accounts]] = ix.amount]

\* Every borrow that has run passed its checks.
Checked ==
  \A b \in 1..next - 1 : IsFlash(tx, b, "borrow") => BorrowChecks(tx, b)

\* The open borrow is what is owed.
OwedIsOpen ==
  /\ \A b \in 1..next - 1 : Open(b) => owed = LoanOf(tx[b])
  /\ (\A b \in 1..next - 1 : ~Open(b)) => owed = NothingOwed

\* The inductive invariant: of what is owed, only the open borrow counts.
IInv ==
  /\ TypeOK
  /\ before = NothingOwed
  /\ Checked
  /\ OwedIsOpen

-------------------------------------------------------------------------------
(* Facts about one state. *)

\* Two borrows never both pass their checks (flash_borrow_checks refuses a
\* later borrow).
LEMMA OneBorrow ==
  ASSUME TypeOK, Checked,
         NEW b \in 1..next - 1, IsFlash(tx, b, "borrow"),
         NEW c \in 1..Len(tx), IsFlash(tx, c, "borrow")
  PROVE  c <= b
<1>1. Later(tx, b, "borrow") = {}
  BY DEF Checked, BorrowChecks
<1>2. b \in Int /\ Len(tx) \in Nat /\ next \in Int
  BY DEF TypeOK
<1>3. ASSUME b < c PROVE FALSE
  <2>1. c \in Later(tx, b, "borrow")
    BY <1>2, <1>3 DEF Later
  <2> QED
    BY <1>1, <2>1
<1> QED
  BY <1>2, <1>3

\* Once nothing of the transaction is left to run, nothing is owed.
LEMMA NothingLeft ==
  ASSUME TypeOK, OwedIsOpen, next = Len(tx) + 1
  PROVE  owed = NothingOwed
<1>1. \A b : ~Open(b)
  BY DEF TypeOK, Open
<1> QED
  BY <1>1 DEF OwedIsOpen

\* A borrow that passes its checks finds nothing owed.
LEMMA BorrowFindsNothingOwed ==
  ASSUME IInv, CalledDirectly("borrow")
  PROVE  owed = NothingOwed
<1>1. next \in 1..Len(tx)
  BY DEF IInv, TypeOK, CalledDirectly
<1>2. ASSUME NEW b \in 1..next - 1, Open(b) PROVE FALSE
  <2>1. next <= b
    BY <1>1, <1>2, OneBorrow DEF IInv, Open, CalledDirectly
  <2> QED
    BY <1>1, <2>1
<1> QED
  BY <1>2 DEF IInv, OwedIsOpen

\* A repayment that passes its checks names a borrow that has run, no other
\* repayment follows, and it pays back what that borrow lent.
LEMMA RepaymentNamesOpenBorrow ==
  ASSUME IInv, CalledDirectly("repay"), RepayChecks(tx, next)
  PROVE  LET b == tx[next].borrowIndex IN
         /\ b \in 1..next - 1
         /\ IsFlash(tx, b, "borrow")
         /\ Open(b)
         /\ \A j \in next + 1..Len(tx) : ~IsFlash(tx, j, "repay")
         /\ LoanOf(tx[b]) = LoanOf(tx[next])
<1> DEFINE b == tx[next].borrowIndex
<1>1. next \in 1..Len(tx) /\ Len(tx) \in Nat
  BY DEF IInv, TypeOK, CalledDirectly
<1>2. b \in 1..next /\ IsFlash(tx, b, "borrow") /\ b # next
  BY DEF RepayChecks, CalledDirectly, IsFlash
<1>3. b \in 1..next - 1
  BY <1>1, <1>2
<1>4. Open(b)
  BY <1>1, <1>2, <1>3 DEF Open, CalledDirectly
<1>5. BorrowChecks(tx, b)
  BY <1>2, <1>3 DEF IInv, Checked
<1>6. next \in Later(tx, b, "repay")
  BY <1>1, <1>3 DEF Later, CalledDirectly
<1>7. ASSUME NEW j \in next + 1..Len(tx), IsFlash(tx, j, "repay") PROVE FALSE
  <2>1. j \in Later(tx, b, "repay")
    BY <1>1, <1>3, <1>7 DEF Later
  <2>2. j = next
    BY <1>5, <1>6, <2>1 DEF BorrowChecks
  <2> QED
    BY <1>1, <2>2
<1>8. LoanOf(tx[b]) = LoanOf(tx[next])
  BY DEF RepayChecks, LoanOf
<1> QED
  BY <1>2, <1>3, <1>4, <1>7, <1>8
-------------------------------------------------------------------------------
(* The actions. *)

LEMMA TransactionTypes ==
  /\ \A t \in Transactions : t \in Seq(Instructions) /\ t # <<>>
  /\ \A t \in Seq(Instructions) : \A i \in 1..Len(t) :
       /\ t[i] \in Instructions
       /\ ReserveOf[t[i].accounts] \in Reserves
       /\ t[i].amount \in Nat
<1>1. ASSUME NEW t \in Transactions PROVE t \in Seq(Instructions) /\ t # <<>>
  <2>1. PICK n \in 1..MaxLength : t \in [1..n -> Instructions]
    BY DEF Transactions
  <2>2. n \in Nat /\ n # 0
    BY FlashLoanAssumption
  <2>3. t \in Seq(Instructions) /\ Len(t) = n
    BY <2>1, <2>2, IsASeq
  <2> QED
    BY <2>2, <2>3
<1>2. ASSUME NEW t \in Seq(Instructions), NEW i \in 1..Len(t)
      PROVE  t[i] \in Instructions
  BY <1>2
<1>3. \A ix \in Instructions : ReserveOf[ix.accounts] \in Reserves /\ ix.amount \in Nat
  BY FlashLoanAssumption
<1> QED
  BY <1>1, <1>2, <1>3

\* What a step within a transaction needs for its types.
LEMMA StepTypes ==
  ASSUME TypeOK, next <= Len(tx), tx' = tx, next' = next + 1,
         owed' \in [Reserves -> Int], before' = before
  PROVE  TypeOK'
<1>1. next' \in 1..Len(tx') + 1
  BY DEF TypeOK
<1> QED
  BY <1>1 DEF TypeOK

\* Checked, after a step that runs an instruction; a borrow has passed its checks.
LEMMA StepChecked ==
  ASSUME TypeOK, Checked, next <= Len(tx), tx' = tx, next' = next + 1,
         IsFlash(tx, next, "borrow") => BorrowChecks(tx, next)
  PROVE  Checked'
<1> SUFFICES ASSUME NEW b \in 1..next, IsFlash(tx, b, "borrow")
             PROVE  BorrowChecks(tx, b)
  BY DEF TypeOK, Checked, IsFlash, BorrowChecks, Later, MatchingRepay
<1>1. CASE b = next
  BY <1>1
<1>2. CASE b # next
  BY <1>2 DEF TypeOK, Checked
<1> QED
  BY <1>1, <1>2

\* Between transactions nothing has run and nothing is open.
LEMMA IdleOwedIsOpen ==
  ASSUME next' = 1, owed' = NothingOwed
  PROVE  Checked' /\ OwedIsOpen'
<1>1. 1..next' - 1 = {}
  OBVIOUS
<1> QED
  BY <1>1 DEF Checked, OwedIsOpen

LEMMA BeginStep ==
  ASSUME IInv, Begin
  PROVE  IInv' /\ owed = NothingOwed
<1>1. Len(tx) = 0 /\ next = Len(tx) + 1
  BY DEF IInv, TypeOK, Begin, Running
<1>2. owed = NothingOwed
  BY <1>1, NothingLeft DEF IInv
<1>3. TypeOK'
  <2>1. tx' \in Seq(Instructions)
    BY TransactionTypes DEF Begin
  <2>2. next' \in 1..Len(tx') + 1
    BY <2>1 DEF Begin
  <2> QED
    BY <2>1, <2>2 DEF IInv, TypeOK, Begin
<1> QED
  BY <1>2, <1>3, IdleOwedIsOpen DEF IInv, Begin

LEMMA FlashBorrowStep ==
  ASSUME IInv, FlashBorrow
  PROVE  /\ IInv'
         /\ owed = NothingOwed
         /\ ReserveOf[tx[next].accounts] \in Reserves
         /\ tx[next].amount \in Nat
         /\ owed' = LoanOf(tx[next])
<1>1. next \in 1..Len(tx) /\ tx' = tx /\ next' = next + 1 /\ before' = before
  BY DEF IInv, TypeOK, FlashBorrow, CalledDirectly
<1>2. ReserveOf[tx[next].accounts] \in Reserves /\ tx[next].amount \in Nat
  BY <1>1, TransactionTypes DEF IInv, TypeOK
<1>3. owed = NothingOwed
  BY BorrowFindsNothingOwed DEF FlashBorrow
<1>4. owed' = LoanOf(tx[next])
  <2> DEFINE r == ReserveOf[tx[next].accounts]
             n == tx[next].amount
  <2>1. NothingOwed[r] = 0 /\ 0 + n = n
    BY <1>2 DEF NothingOwed
  <2>2. owed' = [NothingOwed EXCEPT ![r] = NothingOwed[r] + n]
    BY <1>3 DEF FlashBorrow
  <2> HIDE DEF r, n
  <2>3. owed' = [NothingOwed EXCEPT ![r] = n]
    BY <2>1, <2>2
  <2> QED
    BY <2>3 DEF LoanOf, r, n
<1>5. TypeOK'
  <2>1. owed' \in [Reserves -> Int]
    BY <1>2, <1>4 DEF LoanOf, NothingOwed
  <2> QED
    BY <1>1, <2>1, StepTypes DEF IInv
<1>6. Checked'
  BY <1>1, StepChecked DEF IInv, FlashBorrow
<1>7. OwedIsOpen'
  <2>1. PICK j \in Later(tx, next, "repay") : TRUE
    BY DEF FlashBorrow, BorrowChecks
  <2>2. j \in next'..Len(tx') /\ IsFlash(tx', j, "repay")
    BY <1>1, <2>1 DEF Later
  <2>3. ASSUME NEW b \in 1..next' - 1 PROVE Open(b)' <=> b = next
    <3>1. b \in 1..next
      BY <1>1
    <3>2. CASE b = next
      <4>1. IsFlash(tx', b, "borrow")
        BY <1>1, <3>2 DEF FlashBorrow, CalledDirectly
      <4> QED
        BY <2>2, <3>2, <4>1 DEF Open, IsFlash
    <3>3. CASE b # next
      <4>1. b \in 1..next - 1
        BY <3>1, <3>3, <1>1
      <4>2. IsFlash(tx, b, "borrow") => next <= b
        BY <1>1, <4>1, OneBorrow DEF IInv, FlashBorrow, CalledDirectly
      <4>3. ~IsFlash(tx, b, "borrow")
        BY <1>1, <4>1, <4>2
      <4> QED
        BY <1>1, <3>3, <4>3 DEF Open, IsFlash
    <3> QED
      BY <3>2, <3>3
  <2>4. next \in 1..next' - 1
    BY <1>1
  <2>5. \A b \in 1..next' - 1 : Open(b)' => owed' = LoanOf(tx[b])'
    BY <1>1, <1>4, <2>3 DEF LoanOf, NothingOwed
  <2> QED
    BY <2>3, <2>4, <2>5 DEF OwedIsOpen
<1> QED
  BY <1>1, <1>2, <1>3, <1>4, <1>5, <1>6, <1>7 DEF IInv

LEMMA FlashRepayStep ==
  ASSUME IInv, FlashRepay
  PROVE  IInv' /\ owed' = NothingOwed
<1> DEFINE b == tx[next].borrowIndex
<1>1. next \in 1..Len(tx) /\ tx' = tx /\ next' = next + 1 /\ before' = before
  BY DEF IInv, TypeOK, FlashRepay, CalledDirectly
<1>2. ReserveOf[tx[next].accounts] \in Reserves /\ tx[next].amount \in Nat
  BY <1>1, TransactionTypes DEF IInv, TypeOK
<1>3. /\ b \in 1..next - 1 /\ Open(b)
      /\ \A j \in next + 1..Len(tx) : ~IsFlash(tx, j, "repay")
      /\ LoanOf(tx[b]) = LoanOf(tx[next])
  BY RepaymentNamesOpenBorrow DEF FlashRepay
<1>4. owed = LoanOf(tx[next])
  BY <1>3 DEF IInv, OwedIsOpen
<1>5. owed' = NothingOwed
  BY <1>2, <1>4 DEF FlashRepay, LoanOf, NothingOwed
<1>6. TypeOK'
  <2>1. owed' \in [Reserves -> Int]
    BY <1>5 DEF NothingOwed
  <2> QED
    BY <1>1, <2>1, StepTypes DEF IInv
<1>7. Checked'
  <2>1. ~IsFlash(tx, next, "borrow")
    BY DEF FlashRepay, CalledDirectly, IsFlash
  <2> QED
    BY <1>1, <2>1, StepChecked DEF IInv
<1>8. OwedIsOpen'
  <2>1. \A c : ~Open(c)'
    BY <1>1, <1>3 DEF Open, IsFlash
  <2> QED
    BY <1>5, <2>1 DEF OwedIsOpen, NothingOwed
<1> QED
  BY <1>1, <1>5, <1>6, <1>7, <1>8 DEF IInv, NothingOwed

LEMMA OtherInstructionStep ==
  ASSUME IInv, OtherInstruction
  PROVE  IInv'
<1>1. next \in 1..Len(tx) /\ tx' = tx /\ next' = next + 1 /\ before' = before /\ owed' = owed
  BY DEF IInv, TypeOK, OtherInstruction
<1>2. TypeOK' /\ Checked'
  BY <1>1, StepTypes, StepChecked DEF IInv, TypeOK, OtherInstruction
<1>3. \A c : Open(c)' <=> Open(c)
  BY <1>1 DEF IInv, TypeOK, Open, IsFlash, OtherInstruction
<1>4. \A c : Open(c) => c \in 1..next - 1
  BY DEF Open
<1>5. OwedIsOpen'
  <2>1. \A c \in (1..next - 1)' : Open(c)' => owed' = LoanOf(tx[c])'
    BY <1>1, <1>3, <1>4 DEF IInv, OwedIsOpen, LoanOf, NothingOwed
  <2>2. 1..next - 1 \subseteq (1..next - 1)'
    BY <1>1
  <2>3. (\A c \in (1..next - 1)' : ~Open(c)') => owed' = NothingOwed'
    BY <1>1, <1>3, <2>2 DEF IInv, OwedIsOpen, NothingOwed
  <2> QED
    BY <2>1, <2>3 DEF OwedIsOpen
<1> QED
  BY <1>1, <1>2, <1>5 DEF IInv, NothingOwed

LEMMA CommitStep ==
  ASSUME IInv, Commit
  PROVE  IInv' /\ owed = NothingOwed
<1>1. owed = NothingOwed
  BY NothingLeft DEF IInv, Commit
<1>2. TypeOK'
  BY DEF IInv, TypeOK, Commit
<1> QED
  BY <1>1, <1>2, IdleOwedIsOpen DEF IInv, Commit, NothingOwed

LEMMA AbortStep ==
  ASSUME IInv, Abort
  PROVE  IInv' /\ owed' = NothingOwed
<1>1. owed' = NothingOwed
  BY DEF IInv, Abort
<1>2. TypeOK'
  BY DEF IInv, TypeOK, Abort
<1> QED
  BY <1>1, <1>2, IdleOwedIsOpen DEF IInv, Abort, NothingOwed

-------------------------------------------------------------------------------
(* The theorems. *)

LEMMA InitEstablishes == Init => IInv
<1> SUFFICES ASSUME Init PROVE IInv
  OBVIOUS
<1>1. TypeOK
  BY DEF Init, TypeOK, NothingOwed
<1>2. 1..next - 1 = {}
  BY DEF Init
<1> QED
  BY <1>1, <1>2 DEF Init, IInv, Checked, OwedIsOpen

LEMMA NextStep == IInv /\ [Next]_vars => IInv'
<1> SUFFICES ASSUME IInv, [Next]_vars PROVE IInv'
  OBVIOUS
<1>1. CASE Begin
  BY <1>1, BeginStep
<1>2. CASE FlashBorrow
  BY <1>2, FlashBorrowStep
<1>3. CASE FlashRepay
  BY <1>3, FlashRepayStep
<1>4. CASE OtherInstruction
  BY <1>4, OtherInstructionStep
<1>5. CASE Commit
  BY <1>5, CommitStep
<1>6. CASE Abort
  BY <1>6, AbortStep
<1>7. CASE UNCHANGED vars
  BY <1>7 DEF vars, IInv, TypeOK, Checked, OwedIsOpen, Open, LoanOf, NothingOwed,
              IsFlash, BorrowChecks, Later, MatchingRepay
<1> QED
  BY <1>1, <1>2, <1>3, <1>4, <1>5, <1>6, <1>7 DEF Next

\* In every reachable state the invariant above holds.
THEOREM Invariance == Spec => []IInv
<1> QED
  BY InitEstablishes, NextStep, PTL DEF Spec

\* Between transactions every loan is settled, whatever instructions the
\* transactions were made of (flash_borrow_checks, flash_repay_checks).
THEOREM Settlement == Spec => []LoansAreSettled
<1>1. IInv => LoansAreSettled
  <2> SUFFICES ASSUME IInv, tx = <<>> PROVE owed = NothingOwed
    BY DEF LoansAreSettled, Running
  <2>1. next = Len(tx) + 1
    BY DEF IInv, TypeOK
  <2> QED
    BY <2>1, NothingLeft DEF IInv
<1> QED
  BY <1>1, Invariance, PTL

\* A reserve is never paid back more than it lent.
THEOREM NoOverpayment == Spec => []NeverOverpaid
<1>1. IInv => NeverOverpaid
  <2> SUFFICES ASSUME IInv, NEW r \in Reserves PROVE owed[r] >= 0
    BY DEF NeverOverpaid
  <2>1. CASE \E b \in 1..next - 1 : Open(b)
    <3>1. PICK b \in 1..next - 1 : Open(b)
      BY <2>1
    <3>2. b \in 1..Len(tx)
      BY DEF IInv, TypeOK
    <3>3. tx[b].amount \in Nat
      BY <3>2, TransactionTypes DEF IInv, TypeOK
    <3>4. owed = LoanOf(tx[b])
      BY <3>1 DEF IInv, OwedIsOpen
    <3> QED
      BY <3>3, <3>4 DEF LoanOf, NothingOwed
  <2>2. CASE \A b \in 1..next - 1 : ~Open(b)
    BY <2>2 DEF IInv, OwedIsOpen, NothingOwed
  <2> QED
    BY <2>1, <2>2
<1> QED
  BY <1>1, Invariance, PTL

\* FlashLoan implements FlashLoanPromise.
THEOREM Refinement == Spec => KeepsPromise
<1>1. Init => Promise!Init
  BY DEF Init, Promise!Init, Promise!NothingOwed, NothingOwed, Running
<1>2. IInv /\ [Next]_vars => [Promise!Next]_Promise!vars
  <2> SUFFICES ASSUME IInv, [Next]_vars PROVE [Promise!Next]_Promise!vars
    OBVIOUS
  <2> USE DEF Promise!NothingOwed, NothingOwed, Promise!vars, Promise!Next
  <2>1. CASE Begin
    <3>1. ~Running /\ Running' /\ owed' = owed
      BY <2>1, TransactionTypes DEF Begin, Running
    <3> QED
      BY <3>1 DEF Promise!Begin
  <2>2. CASE FlashBorrow
    <3> DEFINE r == ReserveOf[tx[next].accounts]
    <3>1. owed = NothingOwed /\ r \in Reserves /\ tx[next].amount \in Nat
      BY <2>2, FlashBorrowStep
    <3>2. owed' = [NothingOwed EXCEPT ![r] = tx[next].amount]
      BY <2>2, FlashBorrowStep DEF LoanOf
    <3>3. owed'[r] = tx[next].amount
      BY <3>1, <3>2
    <3>4. Running /\ Running'
      BY <2>2 DEF FlashBorrow, CalledDirectly, IInv, TypeOK, Running
    <3> QED
      BY <3>1, <3>2, <3>3, <3>4 DEF Promise!Lend
  <2>3. CASE FlashRepay
    <3>1. Running /\ Running'
      BY <2>3 DEF FlashRepay, CalledDirectly, IInv, TypeOK, Running
    <3> QED
      BY <2>3, <3>1, FlashRepayStep DEF Promise!Repay
  <2>4. CASE OtherInstruction
    BY <2>4 DEF OtherInstruction, Running
  <2>5. CASE Commit
    BY <2>5, CommitStep DEF Commit, Running, Promise!Commit
  <2>6. CASE Abort
    <3>1. Running /\ ~Running'
      BY <2>6 DEF Abort, IInv, TypeOK, Running
    <3> QED
      BY <2>6, <3>1, AbortStep DEF Promise!Abort, Running
  <2>7. CASE UNCHANGED vars
    BY <2>7 DEF vars, Running
  <2> QED
    BY <2>1, <2>2, <2>3, <2>4, <2>5, <2>6, <2>7 DEF Next
<1> QED
  BY <1>1, <1>2, Invariance, PTL DEF Spec, KeepsPromise, Promise!Spec
=============================================================================
