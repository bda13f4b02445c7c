-------------------------- MODULE MCElevationGroups --------------------------
(***************************************************************************)
(* Instances of ElevationGroups for TLC: a debt reserve, and two reserves  *)
(* that are collateral in one group of two; one of them only in groups.    *)
(***************************************************************************)
EXTENDS ElevationGroups, TLC

CONSTANTS o1, o2, debt, coll, only, g1, g2

Symmetry == Permutations(Obligations)
Debts == g1 :> debt @@ g2 :> coll
Members == [g \in Groups |-> {debt, coll, only}]
Collateral == g1 :> 2 @@ g2 :> 1
Outside == debt :> 3 @@ coll :> 2 @@ only :> 0
Against == [r \in Reserves |-> g1 :> 3 @@ g2 :> 2]
==============================================================================
