------------------------------ MODULE MCReserve ------------------------------
(***************************************************************************)
(* Instances of Reserve for TLC.  The cfg files choose among the constants *)
(* below to aim a run at a group of handlers.                              *)
(***************************************************************************)
EXTENDS Reserve

CONSTANTS o1, o2, ref

Config(status, depositLimit, borrowLimit, utilizationLimit, borrowFee, flashLoanFee, takeRate) ==
  [status |-> status, depositLimit |-> depositLimit, borrowLimit |-> borrowLimit,
   utilizationLimit |-> utilizationLimit, borrowFee |-> borrowFee,
   flashLoanFee |-> flashLoanFee, protocolTakeRate |-> takeRate]

\* One = 2 throughout: rates are multiples of one half.
NoCap == [capacity |-> 0, interval |-> 0]
TightCap == [capacity |-> 2, interval |-> 1]

NoCaps == {NoCap}
SomeCaps == {NoCap, TightCap}

PlainConfigs == {Config("Active", 8, 8, 0, 0, 0, 1)}
OpenAndClosed == {Config("Active", 8, 8, 0, 0, 0, 1),
                  Config("Obsolete", 2, 1, 1, 0, FlashLoansDisabled, 0)}
LowLimitConfigs == {Config("Active", 8, 2, 0, 1, 1, 1)}
FeeConfigs == {Config("Active", 8, 8, 0, 1, 1, 1)}

Unreferred == [o \in Obligations |-> NoReferrer]
Referred == [o \in Obligations |-> ref]

NoInterest == {[compounded |-> 2, fixed |-> 2]}
SomeInterest == {[compounded |-> 3, fixed |-> 2]}
AnyInterest == {[compounded |-> 3, fixed |-> 2], [compounded |-> 4, fixed |-> 3]}

AllChecked == {PriceFlags}

-------------------------------------------------------------------------------
(* Groups of handlers: the runs on fees and on the market owner's settings     *)
(* leave out the handlers that do not bear on their question, which lets them  *)
(* take larger constants.                                                      *)

FeesNext ==
  \/ RefreshReserve
  \/ \E o \in Obligations :
       \/ RefreshObligation(o)
       \/ BorrowMaxObligationLiquidity(o)
       \/ \E amount \in Amounts :
            \/ BorrowObligationLiquidity(o, amount)
            \/ RepayObligationLiquidity(o, amount)
  \/ FeeNext
  \/ FlashLoanNext
  \/ UpdateReferralFee
  \/ Tick

FeesSpec == Init /\ [][FeesNext]_vars

SettingsNext ==
  \/ RefreshReserve
  \/ SupplierNext
  \/ \E o \in Obligations :
       \/ RefreshObligation(o)
       \/ \E amount \in Amounts :
            \/ BorrowObligationLiquidity(o, amount)
            \/ RepayObligationLiquidity(o, amount)
  \/ FlashLoanNext
  \/ AdminNext
  \/ Tick

SettingsSpec == Init /\ [][SettingsNext]_vars
=============================================================================
