---------------------------- MODULE WithdrawalCaps ----------------------------
(***************************************************************************)
(* The withdrawal caps of a reserve                                        *)
(* (lending_market/withdrawal_cap_operations.rs): a counter of the net     *)
(* outflow of the current interval that refuses outflows above a capacity. *)
(* A reserve keeps one for deposits (redemptions add, deposits remove) and *)
(* one for debt (borrows add, repayments remove).                          *)
(*                                                                         *)
(* A cap is a record [capacity, interval, current, start]; an interval of  *)
(* length 0 means that the cap is not enforced.  Each operation of the     *)
(* code either fails or returns the updated record; the two are split here *)
(* into a predicate and a function.                                        *)
(***************************************************************************)
EXTENDS Integers

CONSTANT MaxI64         \* i64::MAX; the counter lives in -MaxI64-1 .. MaxI64

ASSUME MaxI64Assumption == MaxI64 \in Nat

Caps == [capacity : -MaxI64 - 1 .. MaxI64, interval : Nat,
         current : -MaxI64 - 1 .. MaxI64, start : Nat]

CapEnforced(cap) == cap.interval # 0

\* check_last_interval_elapsed
IntervalElapsed(cap, now) == cap.interval <= now - cap.start

\* Mutant: a new interval starts with a new counter, at the old time.
Rolled_SameStart(cap, now) ==
  IF CapEnforced(cap) /\ IntervalElapsed(cap, now) THEN [cap EXCEPT !.current = 0] ELSE cap

\* The counter as the operation sees it: reset_current_interval_and_counter has
\* run when the cap is enforced and the interval is over.
Rolled(cap, now) ==
  IF CapEnforced(cap) /\ IntervalElapsed(cap, now)
  THEN [cap EXCEPT !.current = 0, !.start = now]
  ELSE cap

Saturated(x) ==
  IF x > MaxI64 THEN MaxI64 ELSE IF x < -MaxI64 - 1 THEN -MaxI64 - 1 ELSE x

\* add_to_withdrawal_accum succeeds: the amount is an i64 and, when the cap is
\* enforced, time has not gone backwards and the new total is within capacity.
CanAddToAccum(cap, amount, now) ==
  /\ amount <= MaxI64
  /\ CapEnforced(cap) =>
       /\ cap.start <= now
       /\ cap.capacity >= 0
       /\ Rolled(cap, now).current + amount <= cap.capacity

AddToAccum(cap, amount, now) ==
  LET c == Rolled(cap, now) IN [c EXCEPT !.current = Saturated(c.current + amount)]

\* sub_from_withdrawal_accum succeeds: no capacity check, but the checked
\* subtraction of an enforced cap must not underflow.
CanSubFromAccum(cap, amount, now) ==
  /\ amount <= MaxI64
  /\ CapEnforced(cap) =>
       /\ cap.start <= now
       /\ Rolled(cap, now).current - amount >= -MaxI64 - 1

\* Mutant: inflows do not take the counter below 0.
SubFromAccum_NotBelowZero(cap, amount, now) ==
  LET c == Rolled(cap, now)
  IN  [c EXCEPT !.current = IF c.current < amount THEN 0 ELSE c.current - amount]

SubFromAccum(cap, amount, now) ==
  LET c == Rolled(cap, now) IN [c EXCEPT !.current = Saturated(c.current - amount)]

\* A [capacity, interval] setting written over the whole cap, and one that keeps
\* the counter (UpdateDepositWithdrawalCap, UpdateDebtWithdrawalCap).
NewCap(setting, start) ==
  [capacity |-> setting.capacity, interval |-> setting.interval,
   current |-> 0, start |-> start]
ReconfiguredCap(cap, setting) ==
  [cap EXCEPT !.capacity = setting.capacity, !.interval = setting.interval]
===============================================================================
