------------------------------- MODULE SharePool -------------------------------
(***************************************************************************)
(* What a reserve promises its suppliers: it is a pool of assets that      *)
(* belong to its shares, the cTokens.  Whoever joins pays no less than     *)
(* their shares are worth, whoever leaves takes no more than that, and     *)
(* neither loses more than one token to the rounding.  Only a loss takes   *)
(* assets away, and a loss of all of them closes the pool.  Reserve        *)
(* implements this specification.                                          *)
(***************************************************************************)
EXTENDS Integers

CONSTANTS
  Unit,     \* the worth of one token
  Tokens,   \* the numbers of tokens that may be paid
  Initial   \* tokens, and shares that nobody holds, to begin with

VARIABLES
  assets,   \* the worth of all shares
  shares,   \* how many there are
  held,     \* those that suppliers hold
  open      \* shares may be bought and returned

vars == <<assets, shares, held, open>>

Init ==
  /\ assets = Initial * Unit
  /\ shares = Initial
  /\ held = 0
  /\ open = TRUE

\* Interest, fees for the suppliers, and what rounding leaves to them.
Gain == assets' >= assets /\ UNCHANGED <<shares, held, open>>

\* Interest may be added just before, so that all shares are worth `worth' when
\* the new ones are bought.
Join ==
  /\ open
  /\ \E tokens \in Tokens :
       LET paid   == tokens * Unit
           worth  == assets' - paid
           bought == shares' - shares
       IN  /\ worth >= assets
           /\ bought >= 0
           /\ bought * worth <= paid * shares
           /\ paid * shares < bought * worth + Unit * shares
           /\ held' = held + bought
  /\ UNCHANGED open

Leave ==
  /\ open
  /\ \E tokens \in Tokens :
       LET paid     == tokens * Unit
           worth    == assets' + paid
           returned == shares - shares'
       IN  /\ worth >= assets
           /\ returned \in 0..held
           /\ paid * shares <= returned * worth
           /\ returned * worth < paid * shares + Unit * shares
           /\ held' = held - returned
  /\ UNCHANGED open

Lose ==
  /\ open
  /\ assets' <= assets
  /\ open' = (assets' > 0)
  /\ UNCHANGED <<shares, held>>

Next == Gain \/ Join \/ Leave \/ Lose

Spec == Init /\ [][Next]_vars
===============================================================================
