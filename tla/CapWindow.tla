------------------------------ MODULE CapWindow ------------------------------
(***************************************************************************)
(* One withdrawal cap over time, under arbitrary flows and settings, with  *)
(* the history of the flows.  A cap counts in fixed intervals that start   *)
(* with an operation; this module says what that means for the outflow in  *)
(* any window of time.                                                     *)
(***************************************************************************)
EXTENDS WithdrawalCaps, Functions

CONSTANTS
  Amounts,        \* amounts of flows
  Settings,       \* the [capacity, interval] pairs an admin may set
  MaxTime,        \* bound: the last second of the model
  MaxOperations   \* bound: the number of flows and settings

ASSUME CapWindowAssumption ==
  /\ MaxI64 >= 1
  /\ Amounts \subseteq Nat
  /\ Settings \subseteq [capacity : -MaxI64 - 1 .. MaxI64, interval : Nat]
  /\ MaxTime \in Nat \ {0}
  /\ MaxOperations \in Nat

VARIABLES
  cap,         \* the cap
  now,         \* unix_timestamp
  out, in,     \* history: what flowed out and in, in each second
  settled,     \* history: the time from which intervals are of this setting
  operations   \* bound: how many there were

vars == <<cap, now, out, in, settled, operations>>

Times == 0..MaxTime

Init ==
  /\ \E setting \in Settings : cap = NewCap(setting, 0)
  /\ now = 1
  /\ out = [t \in Times |-> 0]
  /\ in = [t \in Times |-> 0]
  /\ settled = 1
  /\ operations = 0

Operation ==
  /\ operations < MaxOperations
  /\ operations' = operations + 1
  /\ UNCHANGED now

\* A redemption (of the deposit cap) or a borrow (of the debt cap).
Outflow(amount) ==
  /\ Operation
  /\ CanAddToAccum(cap, amount, now)
  /\ cap' = AddToAccum(cap, amount, now)
  /\ out' = [out EXCEPT ![now] = @ + amount]
  /\ UNCHANGED <<in, settled>>

\* A deposit or a repayment.
Inflow(amount) ==
  /\ Operation
  /\ CanSubFromAccum(cap, amount, now)
  /\ cap' = SubFromAccum(cap, amount, now)
  /\ in' = [in EXCEPT ![now] = @ + amount]
  /\ UNCHANGED <<out, settled>>

Reconfigure(setting) ==
  /\ Operation
  /\ setting.capacity >= 0
  /\ cap' = ReconfiguredCap(cap, setting)
  /\ settled' = IF cap.start > now THEN cap.start ELSE now
  /\ UNCHANGED <<out, in>>

\* UpdateEntireReserveConfig writes the whole cap, the start of the interval and
\* the counter included; the start may even be in the future.
Overwrite(setting, start, current) ==
  /\ Operation
  /\ cap' = [NewCap(setting, start) EXCEPT !.current = current]
  /\ settled' = IF start > now THEN start ELSE now
  /\ UNCHANGED <<out, in>>

Tick ==
  /\ now < MaxTime
  /\ now' = now + 1
  /\ UNCHANGED <<cap, out, in, settled, operations>>

Next ==
  \/ \E amount \in Amounts : Outflow(amount) \/ Inflow(amount)
  \/ \E setting \in Settings :
       \/ Reconfigure(setting)
       \/ \E start \in {0, now + 1}, current \in {-1, 1} : Overwrite(setting, start, current)
  \/ Tick

Spec == Init /\ [][Next]_vars

-------------------------------------------------------------------------------
(* Properties. *)

\* The sum of flows from one second to another.
Flow(flows, from, to) ==
  SumFunctionOnSet(flows, {t \in Times : from <= t /\ t <= to})

\* Within an interval that began under the current setting, the counter is the
\* net outflow since the interval began: deposits and repayments make room.
CounterIsNetOutflow ==
  cap.start > settled =>
    cap.current = Flow(out, cap.start, now) - Flow(in, cap.start, now)

\* What the caps are worth: in any window as long as an interval, at most twice
\* the capacity flows out, plus what flowed in since up to an interval before.
\* (A window may cover the end of one interval and the beginning of the next.)
WindowBounded ==
  LET length == cap.interval
      capacity == IF cap.capacity > 0 THEN cap.capacity ELSE 0
  IN  CapEnforced(cap) =>
        \A t \in settled + length..now :
          Flow(out, t, t + length - 1)
            <= 2 * capacity + Flow(in, t - length + 1, t + length - 1)
===============================================================================
