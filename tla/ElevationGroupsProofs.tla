------------------------ MODULE ElevationGroupsProofs ------------------------
(***************************************************************************)
(* What the debt trackers of elevation groups guarantee for any number of  *)
(* obligations, reserves and groups, any settings of the groups, any       *)
(* amounts and any interest.                                               *)
(***************************************************************************)
EXTENDS ElevationGroups, SumProofs

-------------------------------------------------------------------------------
(* Rounding up. *)

\* The three forms in which trackers meet debts: what is paid back, what is
\* borrowed, and nothing at all.
LEMMA CeilType ==
  ASSUME NEW a \in Nat
  PROVE  ToCeil(a) \in Nat
  BY OneAssumption, Z3 DEF ToCeil

LEMMA CeilZero == ToCeil(0) = 0
  BY OneAssumption, Z3 DEF ToCeil

LEMMA CeilMonotone ==
  ASSUME NEW a \in Nat, NEW b \in Nat, a <= b
  PROVE  ToCeil(a) <= ToCeil(b)
  BY OneAssumption, Z3 DEF ToCeil

LEMMA CeilOfDifference ==
  ASSUME NEW d \in Nat, NEW s \in Nat, s <= d
  PROVE  ToCeil(d) - ToCeil(s) - ToCeil(d - s) \in -1..0
  BY OneAssumption, Z3 DEF ToCeil

LEMMA CeilOfSum ==
  ASSUME NEW d \in Nat, NEW b \in Nat
  PROVE  ToCeil(d) + ToCeil(b) - ToCeil(d + b) \in 0..1
  BY OneAssumption, Z3 DEF ToCeil

-------------------------------------------------------------------------------
(* The views that instructions compute with. *)

States == [o : ObligationRecords, rs : [Reserves -> ReserveRecords]]

LEMMA SaturatingSubType ==
  ASSUME NEW a \in Nat, NEW b \in Nat
  PROVE  SaturatingSub(a, b) \in Nat
  BY DEF SaturatingSub

LEMMA ReserveTypes ==
  ASSUME NEW rs \in [Reserves -> ReserveRecords], NEW members, NEW g \in Groups,
         NEW amounts \in [Reserves -> Nat], NEW amount \in Nat
  PROVE  /\ AgainstLess(rs, members, g, amounts) \in [Reserves -> ReserveRecords]
         /\ AgainstMore(rs, members, g, amount) \in [Reserves -> ReserveRecords]
  BY SaturatingSubType DEF AgainstLess, AgainstMore, ReserveRecords

LEMMA OutsideTypes ==
  ASSUME NEW rs \in [Reserves -> ReserveRecords], NEW members,
         NEW amounts \in [Reserves -> Nat], NEW others \in [Reserves -> Nat]
  PROVE  OutsideReplaced(rs, members, amounts, others) \in [Reserves -> ReserveRecords]
  BY SaturatingSubType DEF OutsideReplaced, ReserveRecords

LEMMA ConstantTypes ==
  /\ One \in Nat \ {0}
  /\ Zeros \in [Reserves -> Nat]
  /\ \A g \in Groups : DebtReserve[g] \in Reserves
  /\ NoGroup \notin Groups
  BY OneAssumption, ElevationGroupsAssumption DEF Zeros

LEMMA CeilsType ==
  ASSUME NEW debts \in [Reserves -> Nat]
  PROVE  /\ Ceils(debts) \in [Reserves -> Nat]
         /\ \A r \in Reserves : Ceils(debts)[r] = ToCeil(debts[r])
  BY CeilType DEF Ceils

LEMMA BorrowedType ==
  ASSUME NEW o \in ObligationRecords
  PROVE  /\ BorrowedIfSingle(o) \in Nat
         /\ \A g \in Groups : BorrowedInGroup(o, g) \in Nat
<1>1. ASSUME NEW r \in Reserves PROVE ToCeil(o.debts[r]) \in Nat
  BY CeilType DEF ObligationRecords
<1>2. Borrows(o) # {} => (CHOOSE r \in Borrows(o) : TRUE) \in Reserves
  BY DEF Borrows
<1> QED BY <1>1, <1>2, ConstantTypes DEF BorrowedIfSingle, BorrowedInGroup

-------------------------------------------------------------------------------
(* What each operator does to the obligation, field by field. *)

LEMMA BorrowsRefreshedFacts ==
  ASSUME NEW s \in States, NEW g \in Groups \cup {NoGroup}
  PROVE  LET t == BorrowsRefreshed(s, g) IN
         /\ t \in States
         /\ t.o = [s.o EXCEPT !.onDebt =
                     IF g = NoGroup THEN Set(@, Borrows(s.o), Ceils(s.o.debts)) ELSE @]
<1> DEFINE ceils == Ceils(s.o.debts)
           onDebt == Set(s.o.onDebt, Borrows(s.o), ceils)
<1>1. /\ s.o \in ObligationRecords /\ s.rs \in [Reserves -> ReserveRecords]
      /\ s.o.debts \in [Reserves -> Nat] /\ s.o.onDebt \in [Reserves -> Nat]
  BY DEF States, ObligationRecords
<1>2. ceils \in [Reserves -> Nat] BY <1>1, CeilsType
<1>3. onDebt \in [Reserves -> Nat] BY <1>1, <1>2 DEF Set
<1>4. OutsideReplaced(s.rs, Borrows(s.o), s.o.onDebt, ceils) \in [Reserves -> ReserveRecords]
  BY <1>1, <1>2, OutsideTypes
<1> HIDE DEF ceils
<1>5. CASE g = NoGroup
  <2>1. [s.o EXCEPT !.onDebt = onDebt] \in ObligationRecords
    BY <1>1, <1>3 DEF ObligationRecords
  <2> QED BY <1>4, <1>5, <2>1 DEF BorrowsRefreshed, States, ceils
<1>6. CASE g # NoGroup
  BY <1>1, <1>6 DEF BorrowsRefreshed, ObligationRecords
<1> QED BY <1>5, <1>6

LEMMA DepositsRefreshedFacts ==
  ASSUME NEW s \in States, NEW g \in Groups \cup {NoGroup}
  PROVE  LET t == DepositsRefreshed(s, g) IN
         /\ t \in States
         /\ t.o = [s.o EXCEPT
                     !.disabled = g = NoGroup /\ Deposits(s.o) \cap GroupOnly # {},
                     !.onShares = IF g = NoGroup THEN @
                                  ELSE Set(@, Deposits(s.o),
                                           [r \in Reserves |-> BorrowedInGroup(s.o, g)])]
<1> DEFINE disabled == g = NoGroup /\ Deposits(s.o) \cap GroupOnly # {}
           borrowed == BorrowedInGroup(s.o, g)
           onShares == Set(s.o.onShares, Deposits(s.o), [r \in Reserves |-> borrowed])
           less == AgainstLess(s.rs, Deposits(s.o), g, s.o.onShares)
<1>1. /\ s.o \in ObligationRecords /\ s.rs \in [Reserves -> ReserveRecords]
      /\ s.o.debts \in [Reserves -> Nat] /\ s.o.onShares \in [Reserves -> Nat]
  BY DEF States, ObligationRecords
<1>0. disabled \in BOOLEAN OBVIOUS
<1>2. CASE g = NoGroup
  <2>1. [s.o EXCEPT !.disabled = disabled] \in ObligationRecords
    BY <1>1, <1>0 DEF ObligationRecords
  <2>2. DepositsRefreshed(s, g) = [s EXCEPT !.o.disabled = disabled]
    BY <1>2 DEF DepositsRefreshed
  <2>3. [s EXCEPT !.o.disabled = disabled].o = [s.o EXCEPT !.disabled = disabled]
    BY DEF States
  <2>4. [s EXCEPT !.o.disabled = disabled] \in States
    BY <1>1, <2>1 DEF States
  <2>5. [s.o EXCEPT !.disabled = disabled] =
          [s.o EXCEPT !.disabled = disabled, !.onShares = IF g = NoGroup THEN @ ELSE onShares]
    BY <1>1, <1>2 DEF ObligationRecords
  <2> QED BY <2>2, <2>3, <2>4, <2>5
<1>3. CASE g # NoGroup
  <2>1. g \in Groups BY <1>3
  <2>2. borrowed \in Nat BY <1>1, <2>1, BorrowedType
  <2>3. less \in [Reserves -> ReserveRecords]
    BY <1>1, <2>1, <2>2, ReserveTypes
  <2>4. AgainstMore(less, Deposits(s.o), g, borrowed) \in [Reserves -> ReserveRecords]
    BY <1>1, <2>1, <2>2, <2>3, ReserveTypes
  <2>5. onShares \in [Reserves -> Nat] BY <1>1, <2>2 DEF Set
  <2>6. [s.o EXCEPT !.disabled = disabled, !.onShares = onShares] \in ObligationRecords
    BY <1>1, <1>0, <2>5 DEF ObligationRecords
  <2> QED BY <1>3, <2>4, <2>6 DEF DepositsRefreshed, States
<1> QED BY <1>2, <1>3

-------------------------------------------------------------------------------
(* The invariant. *)

\* borrowing_disabled is what the positions say.
DisabledRight(o) == o.disabled = (~InGroup(o) /\ Deposits(o) \cap GroupOnly # {})

\* What holds of an obligation between instructions, whatever was done to it, and
\* what a refresh adds.
Good(o) ==
  /\ Tracked(o, 1)
  /\ RefreshAllowed(o)
  /\ CollateralCounted(o, o.group)

Exact(o) == Tracked(o, 0) /\ DisabledRight(o)

IInv ==
  /\ TypeOK
  /\ \A id \in Obligations :
       /\ Good(obligations[id])
       /\ IsFresh(obligations[id]) => Exact(obligations[id])

\* A tracker that is exact is off by at most one.
LEMMA ExactIsTracked ==
  ASSUME NEW o, Tracked(o, 0)
  PROVE  Tracked(o, 1)
<1>1. -0..0 \subseteq -1..1 OBVIOUS
<1> QED BY <1>1 DEF Tracked

\* What is demanded of positions still holds when some of them are gone.
LEMMA FewerPositions ==
  ASSUME NEW o \in ObligationRecords, NEW p \in ObligationRecords,
         p.group = o.group, Deposits(p) \subseteq Deposits(o), Borrows(p) \subseteq Borrows(o)
  PROVE  /\ RefreshAllowed(o) => RefreshAllowed(p)
         /\ CollateralCounted(o, o.group) => CollateralCounted(p, p.group)
<1>1. RefreshAllowed(o) => RefreshAllowed(p)
  BY DEF RefreshAllowed, BorrowsFit, DepositsFit
<1>2. IsFiniteSet(Deposits(o)) /\ IsFiniteSet(Reserves)
  <2>1. Deposits(o) \in SUBSET Reserves BY DEF Deposits
  <2> QED BY <2>1, FS_Subset, ElevationGroupsAssumption
<1>3. Cardinality(Deposits(p)) <= Cardinality(Deposits(o))
  BY <1>2, FS_Subset
<1>4. Cardinality(Deposits(p)) \in Nat /\ Cardinality(Deposits(o)) \in Nat
  <2>1. IsFiniteSet(Deposits(p)) BY <1>2, FS_Subset
  <2> QED BY <1>2, <2>1, FS_CardinalityType
<1>5. \A g \in Groups : MaxCollateral[g] \in Nat
  BY ElevationGroupsAssumption
<1>6. CollateralCounted(o, o.group) => CollateralCounted(p, p.group)
  BY <1>3, <1>4, <1>5 DEF CollateralCounted, ObligationRecords
<1> QED BY <1>1, <1>6

-------------------------------------------------------------------------------
(* What each operator does to the trackers. *)

\* A refresh for a group, that of the obligation or one it requests, when no other
\* positions are counted than those that it recomputes.
LEMMA RetrackedFacts ==
  ASSUME NEW s \in States, NEW g \in Groups \cup {NoGroup},
         g = NoGroup => /\ \A r \in Reserves : s.o.onShares[r] = 0
                        /\ \A r \in Reserves \ Borrows(s.o) : s.o.onDebt[r] = 0,
         g # NoGroup => /\ \A r \in Reserves : s.o.onDebt[r] = 0
                        /\ \A r \in Reserves \ Deposits(s.o) : s.o.onShares[r] = 0
  PROVE  LET d == DepositsRefreshed(BorrowsRefreshed(s, g), g)
             o == [d.o EXCEPT !.group = g]
         IN  /\ d \in States
             /\ d.o.group = s.o.group /\ d.o.updated = s.o.updated
             /\ d.o.deposits = s.o.deposits /\ d.o.debts = s.o.debts
             /\ Exact(o)
<1> DEFINE b == BorrowsRefreshed(s, g)
           d == DepositsRefreshed(b, g)
           o == [d.o EXCEPT !.group = g]
<1>0. /\ s.o \in ObligationRecords /\ s.o.debts \in [Reserves -> Nat]
      /\ s.o.onDebt \in [Reserves -> Nat] /\ s.o.onShares \in [Reserves -> Nat]
  BY DEF States, ObligationRecords
<1>1. /\ b \in States
      /\ b.o = [s.o EXCEPT !.onDebt =
                  IF g = NoGroup THEN Set(@, Borrows(s.o), Ceils(s.o.debts)) ELSE @]
  BY BorrowsRefreshedFacts
<1>2. /\ d \in States
      /\ d.o = [b.o EXCEPT
                  !.disabled = g = NoGroup /\ Deposits(b.o) \cap GroupOnly # {},
                  !.onShares = IF g = NoGroup THEN @
                               ELSE Set(@, Deposits(b.o),
                                        [r \in Reserves |-> BorrowedInGroup(b.o, g)])]
  BY <1>1, DepositsRefreshedFacts
<1> HIDE DEF b, d, o
<1>3. /\ b.o.debts = s.o.debts /\ b.o.onShares = s.o.onShares
      /\ b.o.deposits = s.o.deposits /\ b.o.group = s.o.group /\ b.o.updated = s.o.updated
      /\ b.o.onDebt = IF g = NoGroup THEN Set(s.o.onDebt, Borrows(s.o), Ceils(s.o.debts))
                      ELSE s.o.onDebt
  BY <1>0, <1>1 DEF ObligationRecords
<1>4. /\ d.o.debts = s.o.debts /\ d.o.deposits = s.o.deposits
      /\ d.o.group = s.o.group /\ d.o.updated = s.o.updated
      /\ d.o.onDebt = b.o.onDebt
      /\ d.o.disabled = (g = NoGroup /\ Deposits(b.o) \cap GroupOnly # {})
      /\ d.o.onShares = IF g = NoGroup THEN s.o.onShares
                        ELSE Set(s.o.onShares, Deposits(b.o),
                                 [r \in Reserves |-> BorrowedInGroup(b.o, g)])
  BY <1>1, <1>2, <1>3 DEF ObligationRecords, States
<1>5. /\ o.debts = s.o.debts /\ o.deposits = s.o.deposits /\ o.group = g
      /\ o.onDebt = d.o.onDebt /\ o.onShares = d.o.onShares /\ o.disabled = d.o.disabled
  BY <1>2, <1>4 DEF ObligationRecords, States, o
<1>6. /\ Deposits(o) = Deposits(s.o) /\ Deposits(b.o) = Deposits(s.o)
      /\ Borrows(o) = Borrows(s.o)
  BY <1>3, <1>5 DEF Deposits, Borrows
<1>7. DisabledRight(o) BY <1>4, <1>5, <1>6 DEF DisabledRight, InGroup
<1>8. Tracked(o, 0)
  <2>1. CASE g = NoGroup
    <3>1. \A r \in Borrows(o) : o.onDebt[r] - ToCeil(o.debts[r]) \in -0..0
      <4> SUFFICES ASSUME NEW r \in Borrows(s.o)
                   PROVE  o.onDebt[r] - ToCeil(s.o.debts[r]) \in -0..0
        BY <1>5, <1>6
      <4>1. r \in Reserves /\ s.o.debts[r] \in Nat BY <1>0 DEF Borrows
      <4>2. o.onDebt[r] = ToCeil(s.o.debts[r])
        BY <1>0, <1>3, <1>4, <1>5, <2>1, <4>1, CeilsType DEF Set
      <4>3. ToCeil(s.o.debts[r]) \in Nat BY <4>1, CeilType
      <4> QED BY <4>2, <4>3
    <3>2. \A r \in Reserves \ Borrows(o) : o.onDebt[r] = 0
      BY <1>3, <1>4, <1>5, <1>6, <2>1 DEF Set
    <3>3. \A r \in Reserves : o.onShares[r] = 0
      BY <1>4, <1>5, <2>1
    <3>4. ~InGroup(o) BY <1>5, <2>1 DEF InGroup
    <3> QED BY <3>1, <3>2, <3>3, <3>4 DEF Tracked
  <2>2. CASE g # NoGroup
    <3>1. DebtReserve[g] \in Reserves BY <2>2, ConstantTypes
    <3>2. ToCeil(s.o.debts[DebtReserve[g]]) \in Nat BY <1>0, <3>1, CeilType
    <3>3. \A r \in Deposits(o) :
            o.onShares[r] - ToCeil(o.debts[DebtReserve[o.group]]) \in -0..0
      <4> SUFFICES ASSUME NEW r \in Deposits(s.o)
                   PROVE  o.onShares[r] - ToCeil(s.o.debts[DebtReserve[g]]) \in -0..0
        BY <1>5, <1>6
      <4>1. r \in Reserves BY DEF Deposits
      <4>2. o.onShares[r] = ToCeil(s.o.debts[DebtReserve[g]])
        BY <1>3, <1>4, <1>5, <1>6, <2>2, <4>1 DEF Set, BorrowedInGroup
      <4> QED BY <3>2, <4>2
    <3>4. \A r \in Reserves \ Deposits(o) : o.onShares[r] = 0
      BY <1>4, <1>5, <1>6, <2>2 DEF Set
    <3>5. \A r \in Reserves : o.onDebt[r] = 0
      BY <1>3, <1>4, <1>5, <2>2
    <3>6. InGroup(o) BY <1>5, <2>2 DEF InGroup
    <3> QED BY <3>3, <3>4, <3>5, <3>6 DEF Tracked
  <2> QED BY <2>1, <2>2
<1> QED BY <1>2, <1>4, <1>7, <1>8 DEF Exact, b, d, o

LEMMA RefreshedFacts ==
  ASSUME NEW s \in States, NEW debts \in [Reserves -> Nat],
         \A r \in Reserves : debts[r] > 0 <=> s.o.debts[r] > 0,
         Tracked(s.o, 1)
  PROVE  LET t == Refreshed(s, debts) IN
         /\ t \in States
         /\ t.o.group = s.o.group /\ t.o.updated = "fresh"
         /\ t.o.deposits = s.o.deposits /\ t.o.debts = debts
         /\ Exact(t.o)
<1> DEFINE g == s.o.group
           a == [s EXCEPT !.o.debts = debts]
           d == DepositsRefreshed(BorrowsRefreshed(a, g), g)
           t == [d EXCEPT !.o.updated = "fresh"]
<1>1. /\ a \in States /\ g \in Groups \cup {NoGroup}
      /\ a.o.debts = debts /\ a.o.onDebt = s.o.onDebt /\ a.o.onShares = s.o.onShares
      /\ a.o.deposits = s.o.deposits /\ a.o.group = g
  BY DEF States, ObligationRecords
<1>2. Deposits(a.o) = Deposits(s.o) /\ Borrows(a.o) = Borrows(s.o)
  BY <1>1 DEF Deposits, Borrows
<1> HIDE DEF a, d, t
<1>3. /\ d \in States /\ d.o.group = g
      /\ d.o.deposits = s.o.deposits /\ d.o.debts = debts
      /\ Exact([d.o EXCEPT !.group = g])
  BY <1>1, <1>2, RetrackedFacts DEF Tracked, InGroup, d, g
<1>4. [d.o EXCEPT !.group = g] = d.o
  BY <1>3 DEF States, ObligationRecords
<1>5. /\ t \in States /\ t.o.updated = "fresh" /\ t.o.group = g
      /\ t.o.deposits = d.o.deposits /\ t.o.debts = d.o.debts /\ t.o.disabled = d.o.disabled
      /\ t.o.onShares = d.o.onShares /\ t.o.onDebt = d.o.onDebt
  BY <1>3 DEF States, ObligationRecords, t
<1>6. Exact(t.o)
  BY <1>3, <1>4, <1>5 DEF Exact, Tracked, DisabledRight, InGroup, Deposits, Borrows
<1>7. t = Refreshed(s, debts) BY DEF Refreshed, a, d, t, g
<1> QED BY <1>3, <1>5, <1>6, <1>7 DEF g

\* A withdrawal keeps the trackers as close to the debts as they were, and resets
\* that of a position it empties.
LEMMA WithdrawnFacts ==
  ASSUME NEW s \in States, NEW r \in Reserves, NEW amount \in Nat,
         amount <= s.o.deposits[r], NEW off \in Nat, Tracked(s.o, off)
  PROVE  LET t == Withdrawn(s, r, amount) IN
         /\ t \in States
         /\ t.o.group = s.o.group /\ t.o.updated = s.o.updated
         /\ t.o.disabled = s.o.disabled /\ t.o.debts = s.o.debts
         /\ Deposits(t.o) \subseteq Deposits(s.o)
         /\ Tracked(t.o, off)
<1> DEFINE deposits == [s.o.deposits EXCEPT ![r] = s.o.deposits[r] - amount]
           onShares == [s.o.onShares EXCEPT ![r] = 0]
           less == [s EXCEPT !.o.deposits[r] = @ - amount]
           reset == [less EXCEPT !.o.onShares[r] = 0]
           t == Withdrawn(s, r, amount)
           empty == ~(amount < s.o.deposits[r])
<1>0. /\ s.o \in ObligationRecords /\ s.rs \in [Reserves -> ReserveRecords]
      /\ s.o.deposits \in [Reserves -> Nat] /\ s.o.onShares \in [Reserves -> Nat]
  BY DEF States, ObligationRecords
<1>1. /\ less \in States /\ less.rs = s.rs
      /\ less.o = [s.o EXCEPT !.deposits = deposits]
  BY <1>0 DEF States, ObligationRecords
<1>2. /\ reset \in States /\ reset.rs = s.rs
      /\ reset.o = [less.o EXCEPT !.onShares = onShares]
  BY <1>1 DEF States, ObligationRecords
<1> HIDE DEF less, reset
<1>3. ASSUME InGroup(s.o)
      PROVE  LET v == [reset EXCEPT !.rs[r].against[s.o.group] =
                                      SaturatingSub(@, s.o.onShares[r])]
             IN  v \in States /\ v.o = reset.o
  <2>1. /\ s.o.group \in Groups /\ reset.rs[r] \in ReserveRecords
        /\ SaturatingSub(reset.rs[r].against[s.o.group], s.o.onShares[r]) \in Nat
    BY <1>0, <1>2, <1>3, SaturatingSubType DEF InGroup, ObligationRecords, ReserveRecords
  <2> QED BY <1>0, <1>2, <2>1 DEF States, ReserveRecords
<1>4. t \in States /\ t.o = IF empty THEN reset.o ELSE less.o
  BY <1>0, <1>1, <1>2, <1>3 DEF Withdrawn, States, less, reset
<1> HIDE DEF t
<1>5. /\ t.o.group = s.o.group /\ t.o.updated = s.o.updated
      /\ t.o.disabled = s.o.disabled /\ t.o.debts = s.o.debts /\ t.o.onDebt = s.o.onDebt
      /\ t.o.deposits = deposits
      /\ t.o.onShares = IF empty THEN onShares ELSE s.o.onShares
  BY <1>0, <1>1, <1>2, <1>4 DEF ObligationRecords
<1>6. Deposits(t.o) = IF empty THEN Deposits(s.o) \ {r} ELSE Deposits(s.o)
  BY <1>0, <1>5 DEF Deposits
<1>7. Borrows(t.o) = Borrows(s.o) BY <1>5 DEF Borrows
<1>8. Tracked(t.o, off)
  BY <1>0, <1>5, <1>6, <1>7 DEF Tracked, InGroup
<1> QED BY <1>4, <1>5, <1>6, <1>8 DEF t

\* What is paid of a debt that was tracked exactly leaves its trackers off by at
\* most one, and by nothing when all is paid.
LEMMA SettledFacts ==
  ASSUME NEW s \in States, NEW r \in Borrows(s.o), NEW settled \in Nat,
         settled <= s.o.debts[r], Tracked(s.o, 0), BorrowsFit(s.o, s.o.group)
  PROVE  LET t == Settled(s, r, settled) IN
         /\ t \in States
         /\ t.o.group = s.o.group /\ t.o.updated = s.o.updated
         /\ t.o.disabled = s.o.disabled /\ t.o.deposits = s.o.deposits
         /\ Borrows(t.o) \subseteq Borrows(s.o)
         /\ \A b \in Reserves : t.o.debts[b] <= s.o.debts[b]
         /\ Tracked(t.o, 1)
<1> DEFINE paid == ToCeil(settled)
           u == TrackersOnRepay(s, r, paid)
           t == DebtReduced(u, r, settled)
           g == s.o.group
<1>0. /\ s.o \in ObligationRecords /\ s.rs \in [Reserves -> ReserveRecords]
      /\ s.o.debts \in [Reserves -> Nat] /\ r \in Reserves
      /\ s.o.onDebt \in [Reserves -> Nat] /\ s.o.onShares \in [Reserves -> Nat]
      /\ g \in Groups \cup {NoGroup} /\ paid \in Nat
  BY CeilType DEF States, ObligationRecords, Borrows
<1>1. /\ ToCeil(s.o.debts[r]) \in Nat /\ paid <= ToCeil(s.o.debts[r])
      /\ s.o.debts[r] - settled \in Nat
      /\ ToCeil(s.o.debts[r] - settled) \in Nat
      /\ ToCeil(s.o.debts[r]) - paid - ToCeil(s.o.debts[r] - settled) \in -1..0
  BY <1>0, CeilType, CeilMonotone, CeilOfDifference
<1>2. CASE g = NoGroup
  <2> DEFINE onDebt == [s.o.onDebt EXCEPT ![r] = SaturatingSub(s.o.onDebt[r], paid)]
             outside == SaturatingSub(s.rs[r].outside, paid)
  <2>0. /\ u = [o |-> [s.o EXCEPT !.onDebt[r] = SaturatingSub(@, paid)],
                rs |-> [s.rs EXCEPT ![r].outside = SaturatingSub(@, paid)]]
        /\ outside \in Nat /\ onDebt \in [Reserves -> Nat]
    BY <1>0, <1>2, SaturatingSubType DEF TrackersOnRepay, InGroup, ReserveRecords
  <2>1. /\ u.o = [s.o EXCEPT !.onDebt = onDebt]
        /\ u \in States
    <3>1. [s.rs EXCEPT ![r].outside = SaturatingSub(@, paid)] \in [Reserves -> ReserveRecords]
      BY <1>0, <2>0 DEF ReserveRecords
    <3>2. [s.o EXCEPT !.onDebt[r] = SaturatingSub(@, paid)] = [s.o EXCEPT !.onDebt = onDebt]
      BY <1>0 DEF ObligationRecords
    <3>3. [s.o EXCEPT !.onDebt = onDebt] \in ObligationRecords
      BY <1>0, <2>0 DEF ObligationRecords
    <3> HIDE DEF u, onDebt
    <3> QED BY <2>0, <3>1, <3>2, <3>3 DEF States
  <2> HIDE DEF u, paid
  <2>2. /\ u.o.group = g /\ u.o.updated = s.o.updated /\ u.o.disabled = s.o.disabled
        /\ u.o.deposits = s.o.deposits /\ u.o.debts = s.o.debts /\ u.o.onShares = s.o.onShares
        /\ u.o.onDebt = [s.o.onDebt EXCEPT ![r] = SaturatingSub(s.o.onDebt[r], paid)]
    BY <1>0, <2>1 DEF ObligationRecords
  <2>3. t \in States
    BY <1>0, <1>1, <2>1, <2>2 DEF DebtReduced, States, ObligationRecords
  <2>4. /\ t.o.group = g /\ t.o.updated = s.o.updated /\ t.o.disabled = s.o.disabled
        /\ t.o.deposits = s.o.deposits /\ t.o.onShares = s.o.onShares
        /\ t.o.debts = [s.o.debts EXCEPT ![r] = @ - settled]
        /\ t.o.onDebt = [u.o.onDebt EXCEPT ![r] = IF settled = s.o.debts[r] THEN 0 ELSE @]
    BY <1>0, <2>1, <2>2 DEF DebtReduced, States, ObligationRecords
  <2> HIDE DEF t
  <2>5. Borrows(t.o) = IF settled = s.o.debts[r] THEN Borrows(s.o) \ {r} ELSE Borrows(s.o)
    BY <1>0, <1>1, <2>4 DEF Borrows
  <2>6. s.o.onDebt[r] = ToCeil(s.o.debts[r])
    BY <1>0, <1>1, <1>2 DEF Tracked, InGroup
  <2>7. settled # s.o.debts[r] => t.o.onDebt[r] = ToCeil(s.o.debts[r]) - paid
    BY <1>0, <1>1, <2>2, <2>4, <2>6 DEF SaturatingSub, paid
  <2>8. ASSUME NEW b \in Borrows(t.o)
        PROVE  t.o.onDebt[b] - ToCeil(t.o.debts[b]) \in -1..1
    <3>1. CASE b = r
      BY <1>0, <1>1, <2>4, <2>5, <2>7, <3>1 DEF paid
    <3>2. CASE b # r
      <4>1. /\ t.o.onDebt[b] = s.o.onDebt[b] /\ t.o.debts[b] = s.o.debts[b]
            /\ b \in Borrows(s.o) /\ b \in Reserves
        BY <1>0, <2>2, <2>4, <2>5, <3>2 DEF Borrows
      <4>2. s.o.onDebt[b] - ToCeil(s.o.debts[b]) \in -0..0
        BY <1>2, <4>1 DEF Tracked, InGroup
      <4> QED BY <4>1, <4>2
    <3> QED BY <3>1, <3>2
  <2>9. \A b \in Reserves \ Borrows(t.o) : t.o.onDebt[b] = 0
    BY <1>0, <1>2, <2>2, <2>4, <2>5 DEF Tracked, InGroup
  <2>10. \A d \in Reserves : t.o.onShares[d] = 0
    BY <1>2, <2>4 DEF Tracked, InGroup
  <2>11. Tracked(t.o, 1) BY <1>2, <2>4, <2>8, <2>9, <2>10 DEF Tracked, InGroup
  <2>12. \A b \in Reserves : t.o.debts[b] <= s.o.debts[b] BY <1>0, <2>4
  <2> QED BY <2>3, <2>4, <2>5, <2>11, <2>12 DEF Settled, t, u, paid
<1>3. CASE g # NoGroup
  <2>0. r = DebtReserve[g] /\ g \in Groups BY <1>0, <1>3 DEF BorrowsFit
  <2>1. /\ u.o = [s.o EXCEPT !.onShares =
                    [d \in Reserves |-> IF d \in Deposits(s.o)
                                        THEN SaturatingSub(s.o.onShares[d], paid)
                                        ELSE s.o.onShares[d]]]
        /\ u \in States
    <3>1. AgainstLess(s.rs, Deposits(s.o), g, [d \in Reserves |-> paid])
            \in [Reserves -> ReserveRecords]
      BY <1>0, <2>0, ReserveTypes
    <3>2. [d \in Reserves |-> IF d \in Deposits(s.o) THEN SaturatingSub(s.o.onShares[d], paid)
                              ELSE s.o.onShares[d]] \in [Reserves -> Nat]
      BY <1>0, SaturatingSubType
    <3> QED BY <1>0, <1>3, <3>1, <3>2 DEF TrackersOnRepay, InGroup, States, ObligationRecords
  <2> HIDE DEF u, paid
  <2>2. /\ u.o.group = g /\ u.o.updated = s.o.updated /\ u.o.disabled = s.o.disabled
        /\ u.o.deposits = s.o.deposits /\ u.o.debts = s.o.debts /\ u.o.onDebt = s.o.onDebt
        /\ \A d \in Reserves :
             u.o.onShares[d] = IF d \in Deposits(s.o) THEN SaturatingSub(s.o.onShares[d], paid)
                               ELSE s.o.onShares[d]
    BY <1>0, <2>1 DEF ObligationRecords
  <2>3. t \in States
    BY <1>0, <1>1, <2>1, <2>2 DEF DebtReduced, States, ObligationRecords
  <2>4. /\ t.o.group = g /\ t.o.updated = s.o.updated /\ t.o.disabled = s.o.disabled
        /\ t.o.deposits = s.o.deposits /\ t.o.onShares = u.o.onShares
        /\ t.o.debts = [s.o.debts EXCEPT ![r] = @ - settled]
        /\ t.o.onDebt = [s.o.onDebt EXCEPT ![r] = IF settled = s.o.debts[r] THEN 0 ELSE @]
    BY <1>0, <2>1, <2>2 DEF DebtReduced, States, ObligationRecords
  <2> HIDE DEF t
  <2>5. Borrows(t.o) = IF settled = s.o.debts[r] THEN Borrows(s.o) \ {r} ELSE Borrows(s.o)
    BY <1>0, <1>1, <2>4 DEF Borrows
  <2>6. Deposits(t.o) = Deposits(s.o) BY <2>4 DEF Deposits
  <2>7. ASSUME NEW d \in Deposits(s.o)
        PROVE  t.o.onShares[d] - ToCeil(t.o.debts[r]) \in -1..1
    <3>1. d \in Reserves BY DEF Deposits
    <3>2. s.o.onShares[d] - ToCeil(s.o.debts[r]) \in -0..0
      BY <1>3, <2>0 DEF Tracked, InGroup
    <3>3. s.o.onShares[d] = ToCeil(s.o.debts[r]) BY <1>0, <1>1, <3>1, <3>2
    <3>4. t.o.onShares[d] = ToCeil(s.o.debts[r]) - paid
      BY <1>0, <1>1, <2>2, <2>4, <3>1, <3>3 DEF SaturatingSub, paid
    <3>5. t.o.debts[r] = s.o.debts[r] - settled BY <1>0, <2>4
    <3> QED BY <1>1, <3>4, <3>5 DEF paid
  <2>8. \A d \in Reserves \ Deposits(s.o) : t.o.onShares[d] = 0
    BY <1>3, <2>2, <2>4 DEF Tracked, InGroup
  <2>9. \A b \in Reserves : t.o.onDebt[b] = 0
    BY <1>0, <1>3, <2>4 DEF Tracked, InGroup
  <2>10. Tracked(t.o, 1)
    BY <1>3, <2>0, <2>4, <2>6, <2>7, <2>8, <2>9 DEF Tracked, InGroup
  <2>11. \A b \in Reserves : t.o.debts[b] <= s.o.debts[b] BY <1>0, <2>4
  <2> QED BY <2>3, <2>4, <2>5, <2>10, <2>11 DEF Settled, t, u, paid
<1> QED BY <1>2, <1>3

\* What is borrowed on top of a debt that was tracked exactly leaves its trackers
\* ahead by at most one.
LEMMA BorrowedFacts ==
  ASSUME NEW s \in States, NEW r \in Reserves, NEW amount \in Nat \ {0},
         Tracked(s.o, 0), InGroup(s.o) => r = DebtReserve[s.o.group]
  PROVE  LET t == TrackersOnBorrow([s EXCEPT !.o.debts[r] = @ + amount], r, ToCeil(amount))
         IN  /\ t \in States
             /\ t.o.group = s.o.group /\ t.o.updated = s.o.updated
             /\ t.o.disabled = s.o.disabled /\ t.o.deposits = s.o.deposits
             /\ Borrows(t.o) = Borrows(s.o) \cup {r}
             /\ Tracked(t.o, 1)
<1> DEFINE lent == ToCeil(amount)
           debts == [s.o.debts EXCEPT ![r] = s.o.debts[r] + amount]
           a == [s EXCEPT !.o.debts[r] = @ + amount]
           t == TrackersOnBorrow(a, r, lent)
           g == s.o.group
<1>0. /\ s.o \in ObligationRecords /\ s.rs \in [Reserves -> ReserveRecords]
      /\ s.o.debts \in [Reserves -> Nat]
      /\ s.o.onDebt \in [Reserves -> Nat] /\ s.o.onShares \in [Reserves -> Nat]
      /\ g \in Groups \cup {NoGroup} /\ lent \in Nat
  BY CeilType DEF States, ObligationRecords
<1>1. /\ ToCeil(s.o.debts[r]) \in Nat /\ ToCeil(s.o.debts[r] + amount) \in Nat
      /\ ToCeil(s.o.debts[r]) + lent - ToCeil(s.o.debts[r] + amount) \in 0..1
  BY <1>0, CeilType, CeilOfSum
<1>2. debts \in [Reserves -> Nat] BY <1>0
<1>3. a.rs = s.rs /\ a.o = [s.o EXCEPT !.debts = debts]
  BY <1>0 DEF States, ObligationRecords
<1>4. a \in States BY <1>0, <1>2, <1>3 DEF States, ObligationRecords
<1> HIDE DEF a, lent
<1>5. /\ a.o.group = g /\ a.o.updated = s.o.updated /\ a.o.disabled = s.o.disabled
      /\ a.o.deposits = s.o.deposits /\ a.o.debts = debts
      /\ a.o.onShares = s.o.onShares /\ a.o.onDebt = s.o.onDebt
      /\ Deposits(a.o) = Deposits(s.o)
  BY <1>0, <1>3 DEF ObligationRecords, Deposits
<1>6. \A p \in ObligationRecords : p.debts = debts => Borrows(p) = Borrows(s.o) \cup {r}
  BY <1>0 DEF Borrows
<1>7. CASE g = NoGroup
  <2> DEFINE onDebt == [s.o.onDebt EXCEPT ![r] = s.o.onDebt[r] + lent]
  <2>1. onDebt \in [Reserves -> Nat] BY <1>0
  <2>2. t = [o |-> [a.o EXCEPT !.onDebt[r] = @ + lent],
             rs |-> [a.rs EXCEPT ![r].outside = @ + lent]]
    BY <1>5, <1>7 DEF TrackersOnBorrow, InGroup
  <2>3. [a.o EXCEPT !.onDebt[r] = @ + lent] = [a.o EXCEPT !.onDebt = onDebt]
    BY <1>4, <1>5 DEF States, ObligationRecords
  <2>4. [a.rs EXCEPT ![r].outside = @ + lent] \in [Reserves -> ReserveRecords]
    <3>1. a.rs[r].outside + lent \in Nat BY <1>0, <1>3 DEF ReserveRecords
    <3> QED BY <1>0, <1>3, <3>1 DEF ReserveRecords
  <2> HIDE DEF t, onDebt
  <2>5. t \in States /\ t.o = [a.o EXCEPT !.onDebt = onDebt]
    BY <1>4, <2>1, <2>2, <2>3, <2>4 DEF States, ObligationRecords
  <2>6. /\ t.o.group = g /\ t.o.updated = s.o.updated /\ t.o.disabled = s.o.disabled
        /\ t.o.deposits = s.o.deposits /\ t.o.debts = debts
        /\ t.o.onShares = s.o.onShares /\ t.o.onDebt = onDebt
        /\ Borrows(t.o) = Borrows(s.o) \cup {r}
    BY <1>4, <1>5, <1>6, <2>5 DEF States, ObligationRecords
  <2>7. s.o.onDebt[r] = ToCeil(s.o.debts[r])
    <3>1. CASE r \in Borrows(s.o)
      <4>1. s.o.onDebt[r] - ToCeil(s.o.debts[r]) \in -0..0
        BY <1>7, <3>1 DEF Tracked, InGroup
      <4>2. s.o.onDebt[r] \in Nat BY <1>0
      <4> QED BY <1>1, <4>1, <4>2
    <3>2. CASE r \notin Borrows(s.o)
      <4>1. s.o.debts[r] = 0 BY <1>0, <3>2 DEF Borrows
      <4>2. s.o.onDebt[r] = 0 BY <1>7, <3>2 DEF Tracked, InGroup
      <4> QED BY <4>1, <4>2, CeilZero
    <3> QED BY <3>1, <3>2
  <2>8. ASSUME NEW b \in Borrows(t.o)
        PROVE  t.o.onDebt[b] - ToCeil(t.o.debts[b]) \in -1..1
    <3>1. CASE b = r
      BY <1>0, <1>1, <2>6, <2>7, <3>1 DEF onDebt
    <3>2. CASE b # r
      <4>1. /\ b \in Borrows(s.o) /\ b \in Reserves
            /\ t.o.onDebt[b] = s.o.onDebt[b] /\ t.o.debts[b] = s.o.debts[b]
        BY <1>0, <2>6, <3>2 DEF onDebt, Borrows
      <4>2. s.o.onDebt[b] - ToCeil(s.o.debts[b]) \in -0..0
        BY <1>7, <4>1 DEF Tracked, InGroup
      <4> QED BY <4>1, <4>2
    <3> QED BY <3>1, <3>2
  <2>9. /\ \A b \in Reserves \ Borrows(t.o) : t.o.onDebt[b] = 0
        /\ \A d \in Reserves : t.o.onShares[d] = 0
    BY <1>0, <1>7, <2>6 DEF Tracked, InGroup, onDebt
  <2>10. Tracked(t.o, 1) BY <1>7, <2>6, <2>8, <2>9 DEF Tracked, InGroup
  <2> QED BY <2>5, <2>6, <2>10 DEF t, a, lent
<1>8. CASE g # NoGroup
  <2> DEFINE onShares == [d \in Reserves |-> IF d \in Deposits(s.o) THEN s.o.onShares[d] + lent
                                             ELSE s.o.onShares[d]]
  <2>0. r = DebtReserve[g] /\ g \in Groups BY <1>0, <1>8 DEF InGroup
  <2>1. onShares \in [Reserves -> Nat] BY <1>0
  <2>2. t = [o |-> [a.o EXCEPT !.onShares = onShares],
             rs |-> AgainstMore(a.rs, Deposits(s.o), g, lent)]
    BY <1>5, <1>8 DEF TrackersOnBorrow, InGroup
  <2>3. AgainstMore(a.rs, Deposits(s.o), g, lent) \in [Reserves -> ReserveRecords]
    BY <1>0, <1>3, <2>0, ReserveTypes
  <2> HIDE DEF t, onShares
  <2>4. t \in States /\ t.o = [a.o EXCEPT !.onShares = onShares]
    BY <1>4, <2>1, <2>2, <2>3 DEF States, ObligationRecords
  <2>5. /\ t.o.group = g /\ t.o.updated = s.o.updated /\ t.o.disabled = s.o.disabled
        /\ t.o.deposits = s.o.deposits /\ t.o.debts = debts
        /\ t.o.onShares = onShares /\ t.o.onDebt = s.o.onDebt
        /\ Borrows(t.o) = Borrows(s.o) \cup {r} /\ Deposits(t.o) = Deposits(s.o)
    BY <1>4, <1>5, <1>6, <2>4 DEF States, ObligationRecords, Deposits
  <2>6. ASSUME NEW d \in Deposits(s.o)
        PROVE  t.o.onShares[d] - ToCeil(t.o.debts[r]) \in -1..1
    <3>1. d \in Reserves BY DEF Deposits
    <3>2. s.o.onShares[d] - ToCeil(s.o.debts[r]) \in -0..0
      BY <1>8, <2>0 DEF Tracked, InGroup
    <3>3. s.o.onShares[d] = ToCeil(s.o.debts[r]) BY <1>0, <1>1, <3>1, <3>2
    <3>4. t.o.onShares[d] = ToCeil(s.o.debts[r]) + lent
      BY <1>0, <2>5, <3>1, <3>3 DEF onShares
    <3>5. t.o.debts[r] = s.o.debts[r] + amount BY <1>0, <2>5
    <3> QED BY <1>0, <1>1, <3>4, <3>5
  <2>7. /\ \A d \in Reserves \ Deposits(s.o) : t.o.onShares[d] = 0
        /\ \A b \in Reserves : t.o.onDebt[b] = 0
    BY <1>0, <1>8, <2>5 DEF Tracked, InGroup, onShares
  <2>8. Tracked(t.o, 1) BY <1>8, <2>0, <2>5, <2>6, <2>7 DEF Tracked, InGroup
  <2> QED BY <2>4, <2>5, <2>8 DEF t, a, lent
<1> QED BY <1>7, <1>8

\* A new deposit of an obligation in a group takes on the debt of the group.
LEMMA DepositedFacts ==
  ASSUME NEW s \in States, NEW r \in Reserves, NEW amount \in Nat \ {0},
         Tracked(s.o, 0), BorrowsFit(s.o, s.o.group)
  PROVE  LET t == Deposited(s, r, amount) IN
         /\ t \in States
         /\ t.o.group = s.o.group /\ t.o.updated = "stale"
         /\ t.o.disabled = s.o.disabled /\ t.o.debts = s.o.debts
         /\ Deposits(t.o) = Deposits(s.o) \cup {r}
         /\ Tracked(t.o, 0)
<1> DEFINE g == s.o.group
           borrowed == BorrowedIfSingle(s.o)
           new == InGroup(s.o) /\ r \notin Deposits(s.o)
           deposits == [s.o.deposits EXCEPT ![r] = s.o.deposits[r] + amount]
           onShares == [s.o.onShares EXCEPT ![r] = borrowed]
           more == [s EXCEPT !.o.deposits[r] = @ + amount, !.o.updated = "stale"]
           t == Deposited(s, r, amount)
<1>0. /\ s.o \in ObligationRecords /\ s.rs \in [Reserves -> ReserveRecords]
      /\ s.o.deposits \in [Reserves -> Nat] /\ s.o.onShares \in [Reserves -> Nat]
      /\ s.o.debts \in [Reserves -> Nat]
      /\ g \in Groups \cup {NoGroup} /\ borrowed \in Nat
  BY BorrowedType DEF States, ObligationRecords
<1> HIDE DEF borrowed
<1>1. deposits \in [Reserves -> Nat] /\ onShares \in [Reserves -> Nat] BY <1>0
<1>2. more.rs = s.rs /\ more.o = [s.o EXCEPT !.deposits = deposits, !.updated = "stale"]
  BY <1>0 DEF States, ObligationRecords
<1>3. more \in States BY <1>0, <1>1, <1>2 DEF States, ObligationRecords
<1> HIDE DEF more
<1>4. ASSUME new
      PROVE  LET v == [more EXCEPT !.o.onShares[r] = borrowed, !.rs[r].against[g] = @ + borrowed]
             IN  v \in States /\ v.o = [more.o EXCEPT !.onShares = onShares]
  <2>1. g \in Groups /\ more.rs[r] \in ReserveRecords
    BY <1>0, <1>2, <1>4 DEF InGroup
  <2>2. [more.rs EXCEPT ![r].against[g] = @ + borrowed] \in [Reserves -> ReserveRecords]
    <3>1. more.rs[r].against[g] + borrowed \in Nat BY <1>0, <2>1 DEF ReserveRecords
    <3> QED BY <1>0, <1>2, <2>1, <3>1 DEF ReserveRecords
  <2>3. more.o.onShares = s.o.onShares BY <1>0, <1>2 DEF ObligationRecords
  <2>4. [more.o EXCEPT !.onShares[r] = borrowed] = [more.o EXCEPT !.onShares = onShares]
    BY <1>3, <2>3 DEF States, ObligationRecords
  <2>5. [more.o EXCEPT !.onShares = onShares] \in ObligationRecords
    BY <1>1, <1>3 DEF States, ObligationRecords
  <2> DEFINE v == [more EXCEPT !.o.onShares[r] = borrowed, !.rs[r].against[g] = @ + borrowed]
  <2>6. v.o = [more.o EXCEPT !.onShares[r] = borrowed]
    BY <1>3 DEF States
  <2>7. v.rs = [more.rs EXCEPT ![r].against[g] = @ + borrowed]
    BY <1>3 DEF States
  <2>8. v \in States
    <3> DEFINE p == [more.o EXCEPT !.onShares[r] = borrowed]
               q == [more.rs EXCEPT ![r].against[g] = @ + borrowed]
    <3>1. v = [more EXCEPT !.o = p, !.rs = q] OBVIOUS
    <3>2. p \in ObligationRecords /\ q \in [Reserves -> ReserveRecords]
      BY <2>2, <2>4, <2>5
    <3> HIDE DEF p, q, v
    <3> QED BY <1>3, <3>1, <3>2 DEF States
  <2> HIDE DEF onShares, v
  <2> QED BY <2>4, <2>6, <2>8 DEF v
<1>5. t \in States /\ t.o = IF new THEN [more.o EXCEPT !.onShares = onShares] ELSE more.o
  BY <1>3, <1>4 DEF Deposited, more, borrowed
<1> HIDE DEF t, onShares
<1>6. /\ t.o.group = g /\ t.o.updated = "stale" /\ t.o.disabled = s.o.disabled
      /\ t.o.debts = s.o.debts /\ t.o.onDebt = s.o.onDebt /\ t.o.deposits = deposits
      /\ t.o.onShares = IF new THEN onShares ELSE s.o.onShares
  BY <1>0, <1>2, <1>3, <1>5 DEF States, ObligationRecords
<1>7. Deposits(t.o) = Deposits(s.o) \cup {r} BY <1>0, <1>6 DEF Deposits
<1>8. Borrows(t.o) = Borrows(s.o) BY <1>6 DEF Borrows
<1>9. ASSUME InGroup(s.o) PROVE borrowed = ToCeil(s.o.debts[DebtReserve[g]])
  <2>1. \A b \in Borrows(s.o) : b = DebtReserve[g] BY <1>9 DEF BorrowsFit, InGroup
  <2>2. CASE Borrows(s.o) = {}
    <3>1. DebtReserve[g] \in Reserves BY <1>0, <1>9, ConstantTypes DEF InGroup
    <3>2. s.o.debts[DebtReserve[g]] = 0 BY <1>0, <2>2, <3>1 DEF Borrows
    <3> QED BY <2>2, <3>2, CeilZero DEF BorrowedIfSingle, borrowed
  <2>3. CASE Borrows(s.o) # {}
    BY <2>1, <2>3 DEF BorrowedIfSingle, borrowed
  <2> QED BY <2>2, <2>3
<1>10. Tracked(t.o, 0)
  <2>1. CASE ~InGroup(s.o)
    BY <1>6, <1>8, <2>1 DEF Tracked, InGroup
  <2>2. CASE InGroup(s.o)
    <3>1. InGroup(t.o) BY <1>6, <2>2 DEF InGroup
    <3>2. ToCeil(s.o.debts[DebtReserve[g]]) \in Nat
      BY <1>0, <2>2, CeilType, ConstantTypes DEF InGroup
    <3>3. ASSUME NEW d \in Deposits(t.o)
          PROVE  t.o.onShares[d] - ToCeil(t.o.debts[DebtReserve[g]]) \in -0..0
      <4>1. CASE new /\ d = r
        BY <1>0, <1>6, <1>9, <2>2, <3>2, <4>1 DEF onShares
      <4>2. CASE ~(new /\ d = r)
        <5>1. d \in Deposits(s.o) /\ d \in Reserves BY <1>7, <2>2, <4>2 DEF Deposits
        <5>2. t.o.onShares[d] = s.o.onShares[d] BY <1>0, <1>6, <4>2, <5>1 DEF onShares
        <5> QED BY <1>6, <2>2, <5>1, <5>2 DEF Tracked
      <4> QED BY <4>1, <4>2
    <3>4. \A d \in Reserves \ Deposits(t.o) : t.o.onShares[d] = 0
      BY <1>0, <1>6, <1>7, <2>2 DEF Tracked, onShares
    <3>5. \A b \in Reserves : t.o.onDebt[b] = 0 BY <1>6, <2>2 DEF Tracked
    <3> QED BY <1>6, <3>1, <3>3, <3>4, <3>5 DEF Tracked
  <2> QED BY <2>1, <2>2
<1> QED BY <1>5, <1>6, <1>7, <1>10 DEF t

\* After a reset the obligation counts nothing.
LEMMA ResetFacts ==
  ASSUME NEW s \in States, Tracked(s.o, 0)
  PROVE  LET t == TrackersReset(s) IN
         /\ t \in States
         /\ t.o.group = s.o.group /\ t.o.updated = s.o.updated
         /\ t.o.deposits = s.o.deposits /\ t.o.debts = s.o.debts
         /\ \A r \in Reserves : t.o.onShares[r] = 0 /\ t.o.onDebt[r] = 0
<1> DEFINE onShares == Set(s.o.onShares, Deposits(s.o), Zeros)
           onDebt == Set(s.o.onDebt, Borrows(s.o), Zeros)
           t == TrackersReset(s)
<1>0. /\ s.o \in ObligationRecords /\ s.rs \in [Reserves -> ReserveRecords]
      /\ s.o.onDebt \in [Reserves -> Nat] /\ s.o.onShares \in [Reserves -> Nat]
      /\ s.o.group \in Groups \cup {NoGroup}
  BY DEF States, ObligationRecords
<1>1. onShares \in [Reserves -> Nat] /\ onDebt \in [Reserves -> Nat]
  BY <1>0, ConstantTypes DEF Set
<1>2. CASE InGroup(s.o)
  <2>1. \A r \in Reserves : onShares[r] = 0 /\ s.o.onDebt[r] = 0
    BY <1>2 DEF Set, Zeros, Tracked
  <2>2. AgainstLess(s.rs, Deposits(s.o), s.o.group, s.o.onShares) \in [Reserves -> ReserveRecords]
    BY <1>0, <1>2, ReserveTypes DEF InGroup
  <2> HIDE DEF onShares
  <2>3. t.o = [s.o EXCEPT !.onShares = onShares]
    BY <1>2 DEF TrackersReset, onShares
  <2>4. t \in States
    BY <1>0, <1>1, <1>2, <2>2 DEF TrackersReset, States, ObligationRecords, onShares
  <2> HIDE DEF t
  <2> QED BY <1>0, <2>1, <2>3, <2>4 DEF ObligationRecords, t
<1>3. CASE ~InGroup(s.o)
  <2>1. \A r \in Reserves : onDebt[r] = 0 /\ s.o.onShares[r] = 0
    BY <1>3 DEF Set, Zeros, Tracked
  <2>2. OutsideReplaced(s.rs, Borrows(s.o), s.o.onDebt, Zeros) \in [Reserves -> ReserveRecords]
    BY <1>0, OutsideTypes, ConstantTypes
  <2> HIDE DEF onDebt
  <2>3. t.o = [s.o EXCEPT !.onDebt = onDebt]
    BY <1>3 DEF TrackersReset, onDebt
  <2>4. t \in States
    BY <1>0, <1>1, <1>3, <2>2 DEF TrackersReset, States, ObligationRecords, onDebt
  <2> HIDE DEF t
  <2> QED BY <1>0, <2>1, <2>3, <2>4 DEF ObligationRecords, t
<1> QED BY <1>2, <1>3

-------------------------------------------------------------------------------
(* Every handler keeps the invariant. *)

\* A change of an obligation that takes on no debt that collateral for groups only
\* would back.
NoUnbacked(o, p) ==
  LET borrows == p.updated = "stale" /\ \E r \in Reserves : p.debts[r] > o.debts[r]
      leaves == InGroup(o) /\ Borrows(p) # {}
  IN  ~InGroup(p) /\ (borrows \/ leaves) => Deposits(p) \cap GroupOnly = {}

Kept == IInv' /\ \A id \in Obligations : NoUnbacked(obligations[id], obligations'[id])

\* Debts that do not grow, or an obligation that stays where it is and is not stale.
LEMMA Unburdened ==
  ASSUME NEW o \in ObligationRecords, NEW p \in ObligationRecords, p.group = o.group,
         p.updated # "stale" \/ \A r \in Reserves : p.debts[r] <= o.debts[r]
  PROVE  NoUnbacked(o, p)
<1>1. \A r \in Reserves : p.debts[r] \in Nat /\ o.debts[r] \in Nat
  BY DEF ObligationRecords
<1> QED BY <1>1 DEF NoUnbacked, InGroup

LEMMA ViewFacts ==
  ASSUME IInv, NEW id \in Obligations
  PROVE  /\ View(id) \in States
         /\ View(id).o = obligations[id]
         /\ Good(View(id).o)
         /\ IsFresh(View(id).o) => Exact(View(id).o)
  BY DEF IInv, TypeOK, View, States

\* It is enough to look at the obligation that the handler changes.
LEMMA Committed ==
  ASSUME IInv, NEW id \in Obligations, NEW t \in States, Commit(id, t),
         Good(t.o), IsFresh(t.o) => Exact(t.o), NoUnbacked(View(id).o, t.o)
  PROVE  Kept
<1>1. /\ obligations \in [Obligations -> ObligationRecords]
      /\ t.o \in ObligationRecords /\ t.rs \in [Reserves -> ReserveRecords]
  BY DEF IInv, TypeOK, States
<1>2. TypeOK'
  BY <1>1 DEF Commit, TypeOK
<1>3. \A i \in Obligations : obligations'[i] = IF i = id THEN t.o ELSE obligations[i]
  BY <1>1 DEF Commit
<1>4. \A i \in Obligations : obligations[i] \in ObligationRecords BY <1>1
<1>5. \A i \in Obligations : NoUnbacked(obligations[i], obligations'[i])
  <2> SUFFICES ASSUME NEW i \in Obligations PROVE NoUnbacked(obligations[i], obligations'[i])
    OBVIOUS
  <2>1. CASE i = id BY <1>3, <2>1, ViewFacts
  <2>2. CASE i # id
    <3>1. \A r \in Reserves : obligations[i].debts[r] <= obligations[i].debts[r]
      BY <1>4 DEF ObligationRecords
    <3> QED BY <1>3, <1>4, <2>2, <3>1, Unburdened
  <2> QED BY <2>1, <2>2
<1>6. IInv'
  <2> SUFFICES ASSUME NEW i \in Obligations
               PROVE  /\ Good(obligations'[i])
                      /\ IsFresh(obligations'[i]) => Exact(obligations'[i])
    BY <1>2 DEF IInv
  <2>1. CASE i = id BY <1>3, <2>1
  <2>2. CASE i # id BY <1>3, <2>2 DEF IInv
  <2> QED BY <2>1, <2>2
<1> QED BY <1>5, <1>6 DEF Kept

\* Nearly every handler ends by marking the obligation stale.
LEMMA MarkedStaleFacts ==
  ASSUME NEW t \in States
  PROVE  LET m == MarkedStale(t) IN
         /\ m \in States /\ ~IsFresh(m.o) /\ m.o.updated = "stale"
         /\ m.o.group = t.o.group /\ m.o.deposits = t.o.deposits /\ m.o.debts = t.o.debts
         /\ Deposits(m.o) = Deposits(t.o) /\ Borrows(m.o) = Borrows(t.o)
         /\ Good(t.o) => Good(m.o)
<1>1. /\ MarkedStale(t) \in States
      /\ MarkedStale(t).o = [t.o EXCEPT !.updated = "stale"]
  BY DEF MarkedStale, States, ObligationRecords
<1>2. LET m == MarkedStale(t) IN
      /\ m.o.updated = "stale" /\ m.o.group = t.o.group
      /\ m.o.deposits = t.o.deposits /\ m.o.debts = t.o.debts
      /\ m.o.onShares = t.o.onShares /\ m.o.onDebt = t.o.onDebt
  BY <1>1 DEF States, ObligationRecords
<1> QED
  BY <1>1, <1>2 DEF Good, Tracked, RefreshAllowed, BorrowsFit, DepositsFit, CollateralCounted,
                    InGroup, Deposits, Borrows, IsFresh

LEMMA StaleCommitted ==
  ASSUME IInv, NEW id \in Obligations, NEW t \in States, Commit(id, MarkedStale(t)),
         Good(t.o), t.o.group = View(id).o.group,
         \A r \in Reserves : t.o.debts[r] <= View(id).o.debts[r]
  PROVE  Kept
<1>1. NoUnbacked(View(id).o, MarkedStale(t).o)
  BY ViewFacts, MarkedStaleFacts, Unburdened DEF States
<1> QED BY <1>1, MarkedStaleFacts, Committed

LEMMA NewObligationFacts ==
  /\ NewObligation \in ObligationRecords
  /\ Good(NewObligation) /\ ~IsFresh(NewObligation)
  /\ Deposits(NewObligation) = {}
<1>1. NewObligation \in ObligationRecords
  BY ConstantTypes DEF NewObligation, ObligationRecords
<1>2. Deposits(NewObligation) = {} /\ Borrows(NewObligation) = {} /\ ~InGroup(NewObligation)
  BY DEF NewObligation, Deposits, Borrows, InGroup, Zeros
<1>3. Tracked(NewObligation, 1)
  BY <1>2 DEF Tracked, NewObligation, Zeros
<1> QED
  BY <1>1, <1>2, <1>3 DEF Good, RefreshAllowed, BorrowsFit, DepositsFit, CollateralCounted,
                          IsFresh, InGroup, NewObligation

LEMMA ClosedCommitted ==
  ASSUME IInv, NEW id \in Obligations, NEW t \in States,
         Commit(id, [t EXCEPT !.o = NewObligation])
  PROVE  Kept
<1>1. /\ [t EXCEPT !.o = NewObligation] \in States
      /\ [t EXCEPT !.o = NewObligation].o = NewObligation
  BY NewObligationFacts DEF States
<1>2. NoUnbacked(View(id).o, NewObligation)
  BY NewObligationFacts DEF NoUnbacked
<1> QED BY <1>1, <1>2, NewObligationFacts, Committed

\* Interest adds to debts and starts none.
LEMMA AccruedFacts ==
  ASSUME NEW o \in ObligationRecords, NEW debts \in Accrued(o)
  PROVE  /\ debts \in [Reserves -> Nat]
         /\ \A r \in Reserves : debts[r] > 0 <=> o.debts[r] > 0
<1>1. o.debts \in [Reserves -> Nat] BY DEF ObligationRecords
<1>2. CASE o.updated # "earlier" BY <1>1, <1>2 DEF Accrued
<1>3. CASE o.updated = "earlier"
  <2>1. PICK interest \in [Borrows(o) -> Interests] :
          debts = [r \in Reserves |-> IF r \in Borrows(o) THEN o.debts[r] + interest[r] ELSE 0]
    BY <1>3 DEF Accrued
  <2>2. \A r \in Borrows(o) : interest[r] \in Nat BY ElevationGroupsAssumption
  <2> QED BY <1>1, <2>1, <2>2 DEF Borrows
<1> QED BY <1>2, <1>3

LEMMA RefreshObligationStep ==
  ASSUME IInv, NEW id \in Obligations, RefreshObligation(id)
  PROVE  Kept
<1> DEFINE s == View(id)
<1>1. PICK debts \in Accrued(s.o) : Commit(id, Refreshed(s, debts))
  BY DEF RefreshObligation
<1>2. s \in States /\ s.o.debts \in [Reserves -> Nat] /\ Good(s.o)
  BY ViewFacts DEF States, ObligationRecords
<1>3. /\ debts \in [Reserves -> Nat]
      /\ \A r \in Reserves : debts[r] > 0 <=> s.o.debts[r] > 0
  BY <1>2, AccruedFacts DEF States
<1> DEFINE t == Refreshed(s, debts)
<1>4. /\ t \in States /\ t.o.group = s.o.group /\ t.o.updated = "fresh"
      /\ t.o.deposits = s.o.deposits /\ t.o.debts = debts /\ Exact(t.o)
  BY <1>2, <1>3, RefreshedFacts DEF Good
<1> HIDE DEF s, t
<1>5. Deposits(t.o) = Deposits(s.o) /\ Borrows(t.o) = Borrows(s.o)
  BY <1>3, <1>4 DEF Deposits, Borrows
<1>6. Good(t.o)
  BY <1>2, <1>4, <1>5, FewerPositions, ExactIsTracked DEF Good, Exact, States
<1>7. NoUnbacked(s.o, t.o)
  BY <1>2, <1>4, Unburdened DEF States
<1> QED BY <1>1, <1>4, <1>6, <1>7, Committed DEF s, t

\* A new deposit fits the group: DepositAllowed checks it and RoomForCollateral
\* counts it.
LEMMA DepositFits ==
  ASSUME NEW s \in States, NEW r \in Reserves, NEW amount \in Nat \ {0},
         IsFresh(s.o), Exact(s.o), Good(s.o), DepositAllowed(s.o, r)
  PROVE  LET t == Deposited(s, r, amount) IN
         /\ t \in States
         /\ t.o.group = s.o.group /\ t.o.updated = "stale" /\ t.o.debts = s.o.debts
         /\ Tracked(t.o, 0) /\ RefreshAllowed(t.o)
         /\ RoomForCollateral(s.o, r) => Good(t.o)
<1> DEFINE t == Deposited(s, r, amount)
           g == s.o.group
<1>1. /\ t \in States /\ t.o.group = g /\ t.o.updated = "stale" /\ t.o.debts = s.o.debts
      /\ Deposits(t.o) = Deposits(s.o) \cup {r} /\ Tracked(t.o, 0)
  BY DepositedFacts DEF Exact, Good, RefreshAllowed
<1> HIDE DEF t
<1>2. Borrows(t.o) = Borrows(s.o) BY <1>1 DEF Borrows
<1>3. RefreshAllowed(t.o)
  BY <1>1, <1>2 DEF DepositAllowed, InGroup, Good, RefreshAllowed, BorrowsFit, DepositsFit
<1>4. ASSUME RoomForCollateral(s.o, r) PROVE CollateralCounted(t.o, t.o.group)
  <2>1. Deposits(s.o) \in SUBSET Reserves BY DEF Deposits
  <2>2. IsFiniteSet(Deposits(s.o)) BY <2>1, FS_Subset, ElevationGroupsAssumption
  <2>3. CASE r \in Deposits(s.o)
    <3>1. Deposits(t.o) = Deposits(s.o) BY <1>1, <2>3
    <3> QED BY <1>1, <3>1 DEF Good, CollateralCounted
  <2>4. CASE r \notin Deposits(s.o)
    <3>1. Cardinality(Deposits(t.o)) = Cardinality(Deposits(s.o)) + 1
      BY <1>1, <2>2, <2>4, FS_AddElement
    <3> QED BY <1>1, <1>4, <2>4, <3>1 DEF RoomForCollateral, CollateralCounted, InGroup
  <2> QED BY <2>3, <2>4
<1> QED BY <1>1, <1>3, <1>4, ExactIsTracked DEF Good, t

LEMMA DepositCollateralStep ==
  ASSUME IInv, NEW id \in Obligations, NEW r \in Reserves, NEW amount \in Nat \ {0},
         DepositCollateral(id, r, amount)
  PROVE  Kept
<1> DEFINE s == View(id)
           t == Deposited(s, r, amount)
<1>1. /\ DepositAllowed(s.o, r) /\ RoomForCollateral(s.o, r) /\ Commit(id, t)
  BY DEF DepositCollateral
<1>2. s \in States /\ IsFresh(s.o) /\ Exact(s.o) /\ Good(s.o)
  BY <1>1, ViewFacts DEF DepositAllowed
<1>3. /\ t \in States /\ t.o.group = s.o.group /\ t.o.updated = "stale"
      /\ t.o.debts = s.o.debts /\ Good(t.o)
  BY <1>1, <1>2, DepositFits
<1> HIDE DEF s, t
<1>4. \A r2 \in Reserves : t.o.debts[r2] <= s.o.debts[r2]
  BY <1>2, <1>3 DEF States, ObligationRecords
<1>5. NoUnbacked(s.o, t.o) BY <1>2, <1>3, <1>4, Unburdened DEF States
<1>6. ~IsFresh(t.o) BY <1>3 DEF IsFresh
<1> QED BY <1>1, <1>3, <1>5, <1>6, Committed DEF s

\* A withdrawal leaves what holds of an obligation.
LEMMA WithdrawnKeeps ==
  ASSUME NEW s \in States, NEW w \in Reserves, NEW amount \in Nat, amount <= s.o.deposits[w],
         Tracked(s.o, 1)
  PROVE  LET t == Withdrawn(s, w, amount) IN
         /\ t \in States /\ t.o.group = s.o.group /\ t.o.debts = s.o.debts
         /\ Tracked(t.o, 1)
         /\ RefreshAllowed(s.o) => RefreshAllowed(t.o)
         /\ Good(s.o) => Good(t.o)
<1> DEFINE t == Withdrawn(s, w, amount)
<1>1. /\ t \in States /\ t.o.group = s.o.group /\ t.o.debts = s.o.debts
      /\ Deposits(t.o) \subseteq Deposits(s.o) /\ Tracked(t.o, 1)
  BY WithdrawnFacts
<1> HIDE DEF t
<1>2. Borrows(t.o) = Borrows(s.o) BY <1>1 DEF Borrows
<1>3. /\ RefreshAllowed(s.o) => RefreshAllowed(t.o)
      /\ CollateralCounted(s.o, s.o.group) => CollateralCounted(t.o, t.o.group)
  BY <1>1, <1>2, FewerPositions DEF States
<1> QED BY <1>1, <1>3 DEF Good, t

LEMMA WithdrawCollateralStep ==
  ASSUME IInv, NEW id \in Obligations, NEW r \in Reserves, NEW amount \in Nat \ {0},
         WithdrawCollateral(id, r, amount)
  PROVE  Kept
<1> DEFINE s == View(id)
           t == Withdrawn(s, r, amount)
<1>1. s \in States /\ Good(s.o) BY ViewFacts
<1>2. /\ amount <= s.o.deposits[r]
      /\ \/ Commit(id, [t EXCEPT !.o = NewObligation])
         \/ Commit(id, MarkedStale(t))
  BY DEF WithdrawCollateral
<1>3. /\ t \in States /\ Good(t.o) /\ t.o.group = s.o.group /\ t.o.debts = s.o.debts
  BY <1>1, <1>2, WithdrawnKeeps DEF Good
<1> HIDE DEF s, t
<1>4. \A b \in Reserves : t.o.debts[b] <= s.o.debts[b]
  BY <1>1, <1>3 DEF States, ObligationRecords
<1>5. CASE Commit(id, [t EXCEPT !.o = NewObligation]) BY <1>3, <1>5, ClosedCommitted
<1>6. CASE Commit(id, MarkedStale(t)) BY <1>3, <1>4, <1>6, StaleCommitted DEF s
<1> QED BY <1>2, <1>5, <1>6

LEMMA DepositAndWithdrawStep ==
  ASSUME IInv, NEW id \in Obligations, NEW r \in Reserves, NEW amount \in Nat \ {0},
         NEW w \in Reserves, NEW withdrawn \in Nat \ {0},
         DepositAndWithdraw(id, r, amount, w, withdrawn)
  PROVE  Kept
<1> DEFINE s == View(id)
           deposited == Deposited(s, r, amount)
           refreshed == Refreshed(deposited, deposited.o.debts)
           after == Withdrawn(refreshed, w, withdrawn)
           t == Refreshed(after, after.o.debts)
<1>1. /\ DepositAllowed(s.o, r) /\ withdrawn <= refreshed.o.deposits[w]
      /\ \/ Commit(id, [after EXCEPT !.o = NewObligation])
         \/ /\ RefreshAllowed(after.o) /\ CollateralCounted(after.o, after.o.group)
            /\ Commit(id, MarkedStale(t))
  BY DEF DepositAndWithdraw
<1>2. s \in States /\ IsFresh(s.o) /\ Exact(s.o) /\ Good(s.o)
  BY <1>1, ViewFacts DEF DepositAllowed
<1>3. /\ deposited \in States /\ deposited.o.group = s.o.group
      /\ deposited.o.debts = s.o.debts /\ Tracked(deposited.o, 1)
  BY <1>1, <1>2, DepositFits, ExactIsTracked
<1> HIDE DEF deposited
<1>4. deposited.o.debts \in [Reserves -> Nat] BY <1>3 DEF States, ObligationRecords
<1>5. /\ refreshed \in States /\ refreshed.o.group = s.o.group
      /\ refreshed.o.debts = s.o.debts /\ Tracked(refreshed.o, 1)
  BY <1>3, <1>4, RefreshedFacts, ExactIsTracked DEF Exact
<1> HIDE DEF refreshed
<1>6. /\ after \in States /\ after.o.group = s.o.group
      /\ after.o.debts = s.o.debts /\ Tracked(after.o, 1)
  BY <1>1, <1>5, WithdrawnKeeps
<1> HIDE DEF after
<1>7. after.o.debts \in [Reserves -> Nat] BY <1>6 DEF States, ObligationRecords
<1>8. /\ t \in States /\ t.o.group = s.o.group /\ t.o.debts = s.o.debts
      /\ t.o.deposits = after.o.deposits /\ Tracked(t.o, 1)
  BY <1>6, <1>7, RefreshedFacts, ExactIsTracked DEF Exact
<1> HIDE DEF t, s
<1>9. CASE Commit(id, [after EXCEPT !.o = NewObligation]) BY <1>6, <1>9, ClosedCommitted
<1>10. CASE /\ RefreshAllowed(after.o) /\ CollateralCounted(after.o, after.o.group)
            /\ Commit(id, MarkedStale(t))
  <2>1. Deposits(t.o) = Deposits(after.o) /\ Borrows(t.o) = Borrows(after.o)
    BY <1>6, <1>8 DEF Deposits, Borrows
  <2>2. Good(t.o) BY <1>6, <1>8, <1>10, <2>1, FewerPositions DEF Good, States
  <2>3. \A b \in Reserves : t.o.debts[b] <= s.o.debts[b]
    BY <1>2, <1>8 DEF States, ObligationRecords
  <2> QED BY <1>8, <1>10, <2>2, <2>3, StaleCommitted DEF s
<1> QED BY <1>1, <1>9, <1>10

LEMMA BorrowLiquidityStep ==
  ASSUME IInv, NEW id \in Obligations, NEW r \in Reserves, NEW amount \in Nat \ {0},
         BorrowLiquidity(id, r, amount)
  PROVE  Kept
<1> DEFINE s == View(id)
           t == TrackersOnBorrow([s EXCEPT !.o.debts[r] = @ + amount], r, ToCeil(amount))
           m == MarkedStale(t)
<1>1. /\ IsFresh(s.o) /\ Commit(id, m)
      /\ InGroup(s.o) => r \in MembersOf[s.o.group]
      /\ ~InGroup(s.o) => ~s.o.disabled
      /\ LimitsAllowBorrow(s, r, ToCeil(amount))
  BY DEF BorrowLiquidity
<1>2. s \in States /\ Exact(s.o) /\ Good(s.o) BY <1>1, ViewFacts
<1>3. InGroup(s.o) => r = DebtReserve[s.o.group]
  BY <1>1 DEF LimitsAllowBorrow
<1>4. /\ t \in States /\ t.o.group = s.o.group /\ t.o.updated = s.o.updated
      /\ t.o.deposits = s.o.deposits
      /\ Borrows(t.o) = Borrows(s.o) \cup {r} /\ Tracked(t.o, 1)
  BY <1>2, <1>3, BorrowedFacts DEF Exact
<1> HIDE DEF t
<1>5. Deposits(t.o) = Deposits(s.o) BY <1>4 DEF Deposits
<1>6. Good(t.o)
  BY <1>1, <1>2, <1>3, <1>4, <1>5
     DEF Good, RefreshAllowed, BorrowsFit, DepositsFit, CollateralCounted, InGroup
<1>7. /\ m \in States /\ ~IsFresh(m.o) /\ Good(m.o) /\ m.o.group = s.o.group
      /\ Deposits(m.o) = Deposits(s.o)
  BY <1>4, <1>5, <1>6, MarkedStaleFacts
<1> HIDE DEF m
<1>8. NoUnbacked(s.o, m.o)
  BY <1>1, <1>2, <1>7 DEF NoUnbacked, InGroup, Exact, DisabledRight
<1> QED BY <1>1, <1>7, <1>8, Committed DEF s

\* Repayments, liquidations and socializations settle a part of a debt.
LEMMA SettledKeeps ==
  ASSUME NEW s \in States, NEW r \in Reserves, NEW settled \in Nat, settled <= s.o.debts[r],
         r \in Borrows(s.o), Exact(s.o), Good(s.o)
  PROVE  LET t == Settled(s, r, settled) IN
         /\ t \in States /\ t.o.group = s.o.group /\ t.o.deposits = s.o.deposits
         /\ \A b \in Reserves : t.o.debts[b] <= s.o.debts[b]
         /\ Good(t.o)
<1> DEFINE t == Settled(s, r, settled)
<1>1. /\ t \in States /\ t.o.group = s.o.group /\ t.o.deposits = s.o.deposits
      /\ Borrows(t.o) \subseteq Borrows(s.o)
      /\ \A b \in Reserves : t.o.debts[b] <= s.o.debts[b]
      /\ Tracked(t.o, 1)
  BY SettledFacts DEF Exact, Good, RefreshAllowed
<1> HIDE DEF t
<1>2. Deposits(t.o) = Deposits(s.o) BY <1>1 DEF Deposits
<1> QED BY <1>1, <1>2, FewerPositions DEF Good, States, t

LEMMA RepaidStep ==
  ASSUME IInv, NEW id \in Obligations, NEW r \in Reserves, NEW amount \in Nat \ {0},
         RepayLiquidity(id, r, amount) \/ SocializeLoss(id, r, amount)
  PROVE  Kept
<1> DEFINE s == View(id)
           settled == Smaller(FromNum(amount), s.o.debts[r])
           t == Settled(s, r, settled)
<1>1. IsFresh(s.o) /\ r \in Borrows(s.o) /\ Commit(id, MarkedStale(t))
  BY DEF RepayLiquidity, SocializeLoss
<1>2. s \in States /\ Exact(s.o) /\ Good(s.o) BY <1>1, ViewFacts
<1>3. settled \in Nat /\ settled <= s.o.debts[r]
  <2>1. s.o.debts[r] \in Nat BY <1>2 DEF States, ObligationRecords
  <2>2. FromNum(amount) \in Nat BY ConstantTypes DEF FromNum
  <2> QED BY <2>1, <2>2 DEF Smaller
<1>4. /\ t \in States /\ t.o.group = s.o.group
      /\ \A b \in Reserves : t.o.debts[b] <= s.o.debts[b]
      /\ Good(t.o)
  BY <1>1, <1>2, <1>3, SettledKeeps
<1> HIDE DEF s, t
<1> QED BY <1>1, <1>4, StaleCommitted DEF s

LEMMA LiquidateStep ==
  ASSUME IInv, NEW id \in Obligations, NEW r \in Reserves, NEW settled \in Nat \ {0},
         NEW w \in Reserves, NEW withdrawn \in Nat \ {0},
         Liquidate(id, r, settled, w, withdrawn)
  PROVE  Kept
<1> DEFINE s == View(id)
           u == Settled(s, r, settled)
           t == Withdrawn(u, w, withdrawn)
<1>1. /\ IsFresh(s.o) /\ settled <= s.o.debts[r] /\ withdrawn <= s.o.deposits[w]
      /\ Commit(id, MarkedStale(t))
  BY DEF Liquidate
<1>2. s \in States /\ Exact(s.o) /\ Good(s.o) BY <1>1, ViewFacts
<1>3. r \in Borrows(s.o) BY <1>1, <1>2 DEF Borrows, States, ObligationRecords
<1>4. /\ u \in States /\ u.o.group = s.o.group /\ u.o.deposits = s.o.deposits
      /\ \A b \in Reserves : u.o.debts[b] <= s.o.debts[b]
      /\ Good(u.o)
  BY <1>1, <1>2, <1>3, SettledKeeps
<1> HIDE DEF u
<1>5. t \in States /\ t.o.group = s.o.group /\ t.o.debts = u.o.debts /\ Good(t.o)
  BY <1>1, <1>4, WithdrawnKeeps DEF Good
<1> HIDE DEF s, t
<1> QED BY <1>1, <1>4, <1>5, StaleCommitted DEF s

\* A request recomputes all trackers for the new group, and fails when collateral
\* for groups only would back what is borrowed outside of groups.
LEMMA RequestElevationGroupStep ==
  ASSUME IInv, NEW id \in Obligations, NEW g \in Groups \cup {NoGroup},
         RequestElevationGroup(id, g)
  PROVE  Kept
<1> DEFINE s == View(id)
           a == TrackersReset(s)
           d == DepositsRefreshed(BorrowsRefreshed(a, g), g)
           t == [d EXCEPT !.o.group = g]
           m == MarkedStale(t)
<1>1. /\ IsFresh(s.o) /\ BorrowsFit(s.o, g) /\ DepositsFit(s.o, g)
      /\ CollateralCounted(s.o, g) /\ WithinLimits(t) /\ Commit(id, m)
  BY DEF RequestElevationGroup
<1>2. s \in States /\ Exact(s.o) /\ Good(s.o) BY <1>1, ViewFacts
<1>3. /\ a \in States /\ a.o.deposits = s.o.deposits /\ a.o.debts = s.o.debts
      /\ \A r \in Reserves : a.o.onShares[r] = 0 /\ a.o.onDebt[r] = 0
  BY <1>2, ResetFacts DEF Exact
<1> HIDE DEF a
<1>4. /\ d \in States /\ d.o.deposits = s.o.deposits /\ d.o.debts = s.o.debts
      /\ Exact([d.o EXCEPT !.group = g])
  BY <1>3, RetrackedFacts
<1> HIDE DEF d
<1>5. t \in States /\ t.o = [d.o EXCEPT !.group = g]
  BY <1>4 DEF States, ObligationRecords
<1>6. t.o.group = g /\ t.o.deposits = s.o.deposits /\ t.o.debts = s.o.debts /\ Exact(t.o)
  BY <1>4, <1>5 DEF States, ObligationRecords
<1> HIDE DEF t
<1>7. Deposits(t.o) = Deposits(s.o) /\ Borrows(t.o) = Borrows(s.o)
  BY <1>6 DEF Deposits, Borrows
<1>8. Good(t.o)
  BY <1>1, <1>6, <1>7, ExactIsTracked
     DEF Good, Exact, RefreshAllowed, BorrowsFit, DepositsFit, CollateralCounted
<1>9. /\ m \in States /\ ~IsFresh(m.o) /\ Good(m.o) /\ m.o.group = g
      /\ m.o.debts = s.o.debts
      /\ Deposits(m.o) = Deposits(t.o) /\ Borrows(m.o) = Borrows(t.o)
  BY <1>5, <1>6, <1>8, MarkedStaleFacts
<1> HIDE DEF m
<1>10. NoUnbacked(s.o, m.o)
  <2>1. \A r \in Reserves : ~(m.o.debts[r] > s.o.debts[r])
    BY <1>2, <1>9 DEF States, ObligationRecords
  <2>2. ~InGroup(t.o) /\ Borrows(t.o) # {} => ~t.o.disabled
    BY <1>1 DEF WithinLimits
  <2>3. ~InGroup(t.o) => t.o.disabled = (Deposits(t.o) \cap GroupOnly # {})
    BY <1>6 DEF Exact, DisabledRight
  <2>4. InGroup(m.o) = InGroup(t.o) BY <1>6, <1>9 DEF InGroup
  <2> QED BY <1>9, <2>1, <2>2, <2>3, <2>4 DEF NoUnbacked
<1> QED BY <1>1, <1>9, <1>10, Committed DEF s

LEMMA NextSlotStep ==
  ASSUME IInv, NextSlot
  PROVE  Kept
<1> DEFINE p(id) == [obligations[id] EXCEPT !.updated = "earlier"]
<1>1. /\ obligations \in [Obligations -> ObligationRecords]
      /\ \A id \in Obligations : obligations'[id] = p(id)
      /\ obligations' = [id \in Obligations |-> p(id)]
  BY DEF IInv, TypeOK, NextSlot
<1>2. ASSUME NEW id \in Obligations
      PROVE  /\ p(id) \in ObligationRecords /\ ~IsFresh(p(id)) /\ Good(p(id))
             /\ NoUnbacked(obligations[id], p(id))
  <2> DEFINE o == obligations[id]
             q == p(id)
  <2>1. o \in ObligationRecords /\ Good(o) BY <1>1 DEF IInv
  <2>2. /\ q \in ObligationRecords /\ q.updated = "earlier" /\ q.group = o.group
        /\ q.deposits = o.deposits /\ q.debts = o.debts
        /\ q.onShares = o.onShares /\ q.onDebt = o.onDebt
    BY <2>1 DEF ObligationRecords
  <2> HIDE DEF o, q
  <2>3. Good(q)
    BY <2>1, <2>2 DEF Good, Tracked, RefreshAllowed, BorrowsFit, DepositsFit, CollateralCounted,
                      InGroup, Deposits, Borrows
  <2>4. NoUnbacked(o, q) BY <2>1, <2>2, Unburdened
  <2> QED BY <2>2, <2>3, <2>4 DEF IsFresh, o, q
<1>3. TypeOK'
  <2>1. obligations' \in [Obligations -> ObligationRecords] BY <1>1, <1>2
  <2> QED BY <2>1 DEF IInv, TypeOK, NextSlot
<1> QED BY <1>1, <1>2, <1>3 DEF Kept, IInv

-------------------------------------------------------------------------------
(* The theorems. *)

LEMMA InitKeeps == Init => IInv
<1> SUFFICES ASSUME Init PROVE IInv
  OBVIOUS
<1>1. TypeOK
  BY NewObligationFacts DEF Init, TypeOK, ReserveRecords
<1> QED
  BY <1>1, NewObligationFacts DEF Init, IInv

LEMMA NextKeeps == IInv /\ [Next]_vars => Kept
<1> SUFFICES ASSUME IInv, [Next]_vars PROVE Kept
  OBVIOUS
<1>1. CASE NextSlot BY <1>1, NextSlotStep
<1>2. CASE UNCHANGED vars
  <2>1. IInv' BY <1>2 DEF vars, IInv, TypeOK
  <2>2. ASSUME NEW id \in Obligations PROVE NoUnbacked(obligations[id], obligations'[id])
    <3>1. obligations[id] \in ObligationRecords BY DEF IInv, TypeOK
    <3>2. \A r \in Reserves : obligations[id].debts[r] <= obligations[id].debts[r]
      BY <3>1 DEF ObligationRecords
    <3> QED BY <1>2, <3>1, <3>2, Unburdened DEF vars
  <2> QED BY <2>1, <2>2 DEF Kept
<1>3. ASSUME NEW id \in Obligations,
             \/ RefreshObligation(id)
             \/ \E g \in Groups \cup {NoGroup} : RequestElevationGroup(id, g)
      PROVE  Kept
  BY <1>3, RefreshObligationStep, RequestElevationGroupStep
<1>4. ASSUME NEW id \in Obligations, NEW r \in Reserves, NEW amount \in Shares,
             \/ DepositCollateral(id, r, amount)
             \/ WithdrawCollateral(id, r, amount)
             \/ \E w \in Reserves, withdrawn \in Shares :
                  DepositAndWithdraw(id, r, amount, w, withdrawn)
      PROVE  Kept
  <2>1. Shares \subseteq Nat \ {0} BY ElevationGroupsAssumption
  <2> QED BY <1>4, <2>1, DepositCollateralStep, WithdrawCollateralStep, DepositAndWithdrawStep
<1>5. ASSUME NEW id \in Obligations, NEW r \in Reserves, NEW amount \in Tokens,
             RepayLiquidity(id, r, amount) \/ SocializeLoss(id, r, amount)
      PROVE  Kept
  <2>1. Tokens \subseteq Nat \ {0} BY ElevationGroupsAssumption
  <2> QED BY <1>5, <2>1, RepaidStep
<1>6. ASSUME NEW id \in Obligations, NEW r \in Reserves, NEW amount \in Sums,
             \/ BorrowLiquidity(id, r, amount)
             \/ \E w \in Reserves, withdrawn \in Shares : Liquidate(id, r, amount, w, withdrawn)
      PROVE  Kept
  <2>1. Sums \subseteq Nat \ {0} /\ Shares \subseteq Nat \ {0} BY ElevationGroupsAssumption
  <2> QED BY <1>6, <2>1, BorrowLiquidityStep, LiquidateStep
<1> QED BY <1>1, <1>2, <1>3, <1>4, <1>5, <1>6 DEF Next

\* The inductive invariant: off by at most one, exact when fresh, and refreshable.
THEOREM Invariance == Spec => []IInv
<1>1. IInv /\ [Next]_vars => IInv'
  BY NextKeeps DEF Kept
<1> QED BY <1>1, InitKeeps, PTL DEF Spec

\* Accounts stay within their types: in particular no repayment exceeds a debt and no
\* withdrawal a deposit.
THEOREM TypeCorrectness == Spec => []TypeOK
<1>1. IInv => TypeOK BY DEF IInv
<1> QED BY <1>1, Invariance, PTL

\* The trackers of an obligation refreshed in the slot and untouched since are its
\* debts rounded up (refresh_obligation_borrows, refresh_obligation_deposits).
THEOREM TrackersExact == Spec => []FreshTrackersExact
<1>1. IInv => FreshTrackersExact BY DEF IInv, FreshTrackersExact, Exact
<1> QED BY <1>1, Invariance, PTL

\* Whatever is borrowed, repaid, liquidated or withdrawn, in whatever fractions, the
\* trackers are off by at most one token
\* (update_elevation_group_debt_trackers_on_borrow, _on_repay and _on_full_withdraw).
THEOREM TrackersBounded == Spec => []TrackersOffByOne
<1>1. IInv => TrackersOffByOne BY DEF IInv, TrackersOffByOne, Good
<1> QED BY <1>1, Invariance, PTL

\* No handler brings an obligation into a state in which refresh_obligation fails.
THEOREM AlwaysRefreshable == Spec => []Refreshable
<1>1. IInv => Refreshable BY DEF IInv, Refreshable, Good
<1> QED BY <1>1, Invariance, PTL

\* borrow_obligation_liquidity and request_elevation_group leave no debt outside of
\* groups on collateral that is for groups only.
THEOREM GroupOnlyCollateral == Spec => GroupOnlyBacksNoNewDebt
<1> DEFINE Step ==
      \A id \in Obligations :
        LET o == obligations[id]
            p == obligations'[id]
            borrows == p.updated = "stale" /\ \E r \in Reserves : p.debts[r] > o.debts[r]
            leaves == InGroup(o) /\ Borrows(p) # {}
        IN  ~InGroup(p) /\ (borrows \/ leaves) => Deposits(p) \cap GroupOnly = {}
<1>1. IInv /\ [Next]_vars => [Step]_vars
  BY NextKeeps DEF Kept, NoUnbacked
<1> QED BY <1>1, Invariance, PTL DEF Spec, GroupOnlyBacksNoNewDebt

-------------------------------------------------------------------------------
(* What the reserves count is what the others count, and what an obligation    *)
(* does.                                                                       *)

\* What the other obligations count, at every reserve.
Others == [outside : [Reserves -> Nat], against : [Reserves -> [Groups -> Nat]]]

\* The reserves of s count the others and the obligation, its deposits in group g.
AddsIn(s, g, others) ==
  \A r \in Reserves :
    /\ s.rs[r].outside = others.outside[r] + s.o.onDebt[r]
    /\ \A h \in Groups :
         s.rs[r].against[h] = others.against[r][h] + (IF h = g THEN s.o.onShares[r] ELSE 0)

Adds(s, others) == AddsIn(s, s.o.group, others)

LEMMA NothingSaturates ==
  ASSUME NEW a \in Nat, NEW b \in Nat, b <= a
  PROVE  SaturatingSub(a, b) = a - b
  BY DEF SaturatingSub

\* The changes of the reserves, tracker by tracker.
LEMMA LessChanged ==
  ASSUME NEW rs \in [Reserves -> ReserveRecords], NEW members, NEW g \in Groups,
         NEW amounts \in [Reserves -> Nat], NEW r \in Reserves
  PROVE  /\ AgainstLess(rs, members, g, amounts)[r].outside = rs[r].outside
         /\ \A h \in Groups :
              AgainstLess(rs, members, g, amounts)[r].against[h] =
                IF r \in members /\ h = g THEN SaturatingSub(rs[r].against[h], amounts[r])
                ELSE rs[r].against[h]
<1>1. rs[r] \in ReserveRecords OBVIOUS
<1> QED BY <1>1 DEF AgainstLess, ReserveRecords

LEMMA MoreChanged ==
  ASSUME NEW rs \in [Reserves -> ReserveRecords], NEW members, NEW g \in Groups,
         NEW amount \in Nat, NEW r \in Reserves
  PROVE  /\ AgainstMore(rs, members, g, amount)[r].outside = rs[r].outside
         /\ \A h \in Groups :
              AgainstMore(rs, members, g, amount)[r].against[h] =
                IF r \in members /\ h = g THEN rs[r].against[h] + amount
                ELSE rs[r].against[h]
<1>1. rs[r] \in ReserveRecords OBVIOUS
<1> QED BY <1>1 DEF AgainstMore, ReserveRecords

LEMMA OutsideChanged ==
  ASSUME NEW rs \in [Reserves -> ReserveRecords], NEW members, NEW old, NEW new,
         NEW r \in Reserves
  PROVE  /\ OutsideReplaced(rs, members, old, new)[r].against = rs[r].against
         /\ OutsideReplaced(rs, members, old, new)[r].outside =
              IF r \in members THEN SaturatingSub(rs[r].outside, old[r]) + new[r]
              ELSE rs[r].outside
<1>1. rs[r] \in ReserveRecords OBVIOUS
<1> QED BY <1>1 DEF OutsideReplaced, ReserveRecords

\* Only the trackers matter.
LEMMA SameTrackers ==
  ASSUME NEW s, NEW t, NEW g, NEW others,
         t.rs = s.rs, t.o.onDebt = s.o.onDebt, t.o.onShares = s.o.onShares,
         AddsIn(s, g, others)
  PROVE  AddsIn(t, g, others)
  BY DEF AddsIn

\* An obligation that counts nothing counts nothing in any group.
LEMMA NothingCounted ==
  ASSUME NEW s \in States, NEW g, NEW h, NEW others \in Others, AddsIn(s, g, others),
         \A r \in Reserves : s.o.onShares[r] = 0
  PROVE  AddsIn(s, h, others)
  BY DEF AddsIn

LEMMA BorrowsRefreshedAdds ==
  ASSUME NEW s \in States, NEW g \in Groups \cup {NoGroup}, NEW others \in Others,
         AddsIn(s, g, others)
  PROVE  AddsIn(BorrowsRefreshed(s, g), g, others)
<1>1. CASE g # NoGroup BY <1>1 DEF BorrowsRefreshed
<1>2. CASE g = NoGroup
  <2> DEFINE ceils == Ceils(s.o.debts)
             borrows == Borrows(s.o)
             t == BorrowsRefreshed(s, g)
  <2>1. /\ s.o \in ObligationRecords /\ s.rs \in [Reserves -> ReserveRecords]
        /\ s.o.onDebt \in [Reserves -> Nat] /\ ceils \in [Reserves -> Nat]
    BY CeilsType DEF States, ObligationRecords
  <2>2. /\ t.rs = OutsideReplaced(s.rs, borrows, s.o.onDebt, ceils)
        /\ t.o.onDebt = Set(s.o.onDebt, borrows, ceils)
        /\ t.o.onShares = s.o.onShares
    BY <1>2, <2>1 DEF BorrowsRefreshed, ObligationRecords
  <2> HIDE DEF t, ceils, borrows
  <2>3. ASSUME NEW r \in Reserves
        PROVE  /\ t.rs[r].outside = others.outside[r] + t.o.onDebt[r]
               /\ t.rs[r].against = s.rs[r].against
    <3>1. s.rs[r].outside = others.outside[r] + s.o.onDebt[r] BY DEF AddsIn
    <3>2. others.outside[r] \in Nat /\ s.o.onDebt[r] \in Nat /\ ceils[r] \in Nat
      BY <2>1 DEF Others
    <3>3. /\ t.rs[r].against = s.rs[r].against
          /\ t.rs[r].outside = IF r \in borrows
                               THEN SaturatingSub(s.rs[r].outside, s.o.onDebt[r]) + ceils[r]
                               ELSE s.rs[r].outside
      BY <2>1, <2>2, OutsideChanged
    <3>4. SaturatingSub(s.rs[r].outside, s.o.onDebt[r]) = others.outside[r]
      BY <3>1, <3>2, NothingSaturates
    <3>5. t.o.onDebt[r] = IF r \in borrows THEN ceils[r] ELSE s.o.onDebt[r] BY <2>2 DEF Set
    <3> QED BY <3>1, <3>2, <3>3, <3>4, <3>5
  <2> QED BY <2>2, <2>3 DEF AddsIn, t
<1> QED BY <1>1, <1>2

LEMMA DepositsRefreshedAdds ==
  ASSUME NEW s \in States, NEW g \in Groups \cup {NoGroup}, NEW others \in Others,
         AddsIn(s, g, others)
  PROVE  AddsIn(DepositsRefreshed(s, g), g, others)
<1>0. /\ s.o \in ObligationRecords /\ s.rs \in [Reserves -> ReserveRecords]
      /\ s.o.onShares \in [Reserves -> Nat]
  BY DEF States, ObligationRecords
<1>1. CASE g = NoGroup
  <2> DEFINE disabled == g = NoGroup /\ Deposits(s.o) \cap GroupOnly # {}
             t == [s EXCEPT !.o.disabled = disabled]
  <2>1. DepositsRefreshed(s, g) = t BY <1>1 DEF DepositsRefreshed
  <2>2. t.rs = s.rs /\ t.o.onDebt = s.o.onDebt /\ t.o.onShares = s.o.onShares
    BY <1>0 DEF States, ObligationRecords
  <2> HIDE DEF t
  <2> QED BY <2>1, <2>2, SameTrackers
<1>2. CASE g # NoGroup
  <2> DEFINE borrowed == BorrowedInGroup(s.o, g)
             deposits == Deposits(s.o)
             less == AgainstLess(s.rs, deposits, g, s.o.onShares)
             t == DepositsRefreshed(s, g)
  <2>1. g \in Groups /\ borrowed \in Nat BY <1>0, <1>2, BorrowedType
  <2>2. /\ t.rs = AgainstMore(less, deposits, g, borrowed)
        /\ t.o.onDebt = s.o.onDebt
        /\ t.o.onShares = Set(s.o.onShares, deposits, [r \in Reserves |-> borrowed])
    BY <1>0, <1>2 DEF DepositsRefreshed, ObligationRecords
  <2>3. less \in [Reserves -> ReserveRecords] BY <1>0, <2>1, ReserveTypes
  <2> HIDE DEF t, borrowed, deposits
  <2>4. ASSUME NEW r \in Reserves
        PROVE  /\ t.rs[r].outside = s.rs[r].outside
               /\ \A h \in Groups :
                    t.rs[r].against[h] = others.against[r][h] + (IF h = g THEN t.o.onShares[r] ELSE 0)
    <3>1. /\ less[r].outside = s.rs[r].outside
          /\ \A h \in Groups :
               less[r].against[h] = IF r \in deposits /\ h = g
                                    THEN SaturatingSub(s.rs[r].against[h], s.o.onShares[r])
                                    ELSE s.rs[r].against[h]
      BY <1>0, <2>1, LessChanged
    <3> HIDE DEF less
    <3>3. /\ t.rs[r].outside = less[r].outside
          /\ \A h \in Groups :
               t.rs[r].against[h] = IF r \in deposits /\ h = g THEN less[r].against[h] + borrowed
                                    ELSE less[r].against[h]
      BY <1>0, <2>1, <2>2, <2>3, MoreChanged
    <3>4. t.o.onShares[r] = IF r \in deposits THEN borrowed ELSE s.o.onShares[r]
      BY <2>2 DEF Set
    <3>5. ASSUME NEW h \in Groups
          PROVE  t.rs[r].against[h] = others.against[r][h] + (IF h = g THEN t.o.onShares[r] ELSE 0)
      <4>1. /\ others.against[r][h] \in Nat /\ s.o.onShares[r] \in Nat
            /\ s.rs[r].against[h] = others.against[r][h] + (IF h = g THEN s.o.onShares[r] ELSE 0)
        BY <1>0 DEF AddsIn, Others
      <4>2. h = g => SaturatingSub(s.rs[r].against[h], s.o.onShares[r]) = others.against[r][h]
        BY <4>1, NothingSaturates
      <4> QED BY <2>1, <3>1, <3>3, <3>4, <4>1, <4>2
    <3> QED BY <3>1, <3>3, <3>5
  <2> QED BY <2>2, <2>4 DEF AddsIn, t
<1> QED BY <1>1, <1>2

\* A refresh replaces what an obligation counts, at the reserves and at itself.
LEMMA RefreshedAdds ==
  ASSUME NEW s \in States, NEW debts \in [Reserves -> Nat], NEW others \in Others,
         Adds(s, others)
  PROVE  LET t == Refreshed(s, debts)
         IN  t.o.group = s.o.group /\ Adds(t, others)
<1> DEFINE g == s.o.group
           a == [s EXCEPT !.o.debts = debts]
           b == BorrowsRefreshed(a, g)
           d == DepositsRefreshed(b, g)
           t == [d EXCEPT !.o.updated = "fresh"]
<1>1. /\ a \in States /\ g \in Groups \cup {NoGroup} /\ a.o.group = g
      /\ a.rs = s.rs /\ a.o.onDebt = s.o.onDebt /\ a.o.onShares = s.o.onShares
  BY DEF States, ObligationRecords
<1> HIDE DEF a, g
<1>2. AddsIn(a, g, others) BY <1>1, SameTrackers DEF Adds, g
<1>3. b \in States /\ b.o.group = g
  <2>1. /\ b \in States
        /\ b.o = [a.o EXCEPT !.onDebt =
                    IF g = NoGroup THEN Set(@, Borrows(a.o), Ceils(a.o.debts)) ELSE @]
    BY <1>1, BorrowsRefreshedFacts
  <2> QED BY <1>1, <2>1 DEF States, ObligationRecords
<1>4. AddsIn(b, g, others) BY <1>1, <1>2, BorrowsRefreshedAdds
<1> HIDE DEF b
<1>5. d \in States /\ d.o.group = g
  <2>1. /\ d \in States
        /\ d.o = [b.o EXCEPT
                    !.disabled = g = NoGroup /\ Deposits(b.o) \cap GroupOnly # {},
                    !.onShares = IF g = NoGroup THEN @
                                 ELSE Set(@, Deposits(b.o),
                                          [r \in Reserves |-> BorrowedInGroup(b.o, g)])]
    BY <1>1, <1>3, DepositsRefreshedFacts
  <2> QED BY <1>3, <2>1 DEF States, ObligationRecords
<1>6. AddsIn(d, g, others) BY <1>1, <1>3, <1>4, DepositsRefreshedAdds
<1> HIDE DEF d
<1>7. /\ t.rs = d.rs /\ t.o.onDebt = d.o.onDebt /\ t.o.onShares = d.o.onShares
      /\ t.o.group = g
  BY <1>5 DEF States, ObligationRecords
<1>8. t = Refreshed(s, debts) BY DEF Refreshed, a, b, d, g
<1> HIDE DEF t
<1>9. AddsIn(t, g, others) BY <1>6, <1>7, SameTrackers
<1> QED BY <1>7, <1>8, <1>9 DEF Adds, g

LEMMA WithdrawnAdds ==
  ASSUME NEW s \in States, NEW w \in Reserves, NEW amount \in Nat, NEW others \in Others,
         Adds(s, others)
  PROVE  LET t == Withdrawn(s, w, amount)
         IN  t.o.group = s.o.group /\ Adds(t, others)
<1> DEFINE g == s.o.group
           less == [s EXCEPT !.o.deposits[w] = @ - amount]
           reset == [less EXCEPT !.o.onShares[w] = 0]
           freed == [reset EXCEPT !.rs[w].against[g] = SaturatingSub(@, s.o.onShares[w])]
           t == Withdrawn(s, w, amount)
<1>0. /\ s.o \in ObligationRecords /\ s.rs \in [Reserves -> ReserveRecords]
      /\ s.o.onShares \in [Reserves -> Nat] /\ g \in Groups \cup {NoGroup}
      /\ \A r \in Reserves : s.rs[r].against \in [Groups -> Nat]
  BY DEF States, ObligationRecords, ReserveRecords
<1>1. /\ less.rs = s.rs /\ less.o.onDebt = s.o.onDebt /\ less.o.onShares = s.o.onShares
      /\ less.o.group = g
  BY <1>0 DEF States, ObligationRecords
<1>2. /\ reset.rs = s.rs /\ reset.o.onDebt = s.o.onDebt /\ reset.o.group = g
      /\ reset.o.onShares = [s.o.onShares EXCEPT ![w] = 0]
  BY <1>0 DEF States, ObligationRecords
<1>3. /\ freed.rs = [s.rs EXCEPT ![w].against[g] = SaturatingSub(@, s.o.onShares[w])]
      /\ freed.o = reset.o
  BY <1>0, <1>2 DEF States
<1>4. t = IF amount < s.o.deposits[w] THEN less ELSE IF InGroup(s.o) THEN freed ELSE reset
  BY DEF Withdrawn
<1> HIDE DEF t, less, reset, freed, g
<1>5. CASE t = less
  <2>1. AddsIn(s, g, others) BY DEF Adds, g
  <2>2. AddsIn(less, g, others) BY <1>1, <2>1, SameTrackers
  <2> QED BY <1>1, <1>5, <2>2 DEF Adds, g, t
<1>6. CASE t = reset /\ ~InGroup(s.o)
  <2>1. \A h \in Groups : h # g BY <1>6, ConstantTypes DEF InGroup, g
  <2>2. AddsIn(reset, g, others) BY <1>2, <2>1 DEF AddsIn, Adds, g
  <2> QED BY <1>2, <1>6, <2>2 DEF Adds, g, t
<1>7. CASE t = freed /\ InGroup(s.o)
  <2>1. g \in Groups BY <1>0, <1>7 DEF InGroup, g
  <2>2. ASSUME NEW r \in Reserves
        PROVE  /\ freed.rs[r].outside = s.rs[r].outside
               /\ \A h \in Groups :
                    freed.rs[r].against[h] = others.against[r][h]
                                             + (IF h = g THEN reset.o.onShares[r] ELSE 0)
    <3>1. /\ freed.rs[r].outside = s.rs[r].outside
          /\ \A h \in Groups :
               freed.rs[r].against[h] =
                 IF r = w /\ h = g THEN SaturatingSub(s.rs[r].against[h], s.o.onShares[w])
                 ELSE s.rs[r].against[h]
      BY <1>0, <1>3, <2>1 DEF ReserveRecords
    <3>2. reset.o.onShares[r] = IF r = w THEN 0 ELSE s.o.onShares[r] BY <1>0, <1>2
    <3>3. ASSUME NEW h \in Groups
          PROVE  freed.rs[r].against[h] = others.against[r][h]
                                          + (IF h = g THEN reset.o.onShares[r] ELSE 0)
      <4>1. /\ others.against[r][h] \in Nat /\ s.o.onShares[r] \in Nat
            /\ s.rs[r].against[h] = others.against[r][h] + (IF h = g THEN s.o.onShares[r] ELSE 0)
        BY <1>0 DEF AddsIn, Adds, g, Others
      <4>2. h = g => SaturatingSub(s.rs[r].against[h], s.o.onShares[r]) = others.against[r][h]
        BY <4>1, NothingSaturates
      <4> QED BY <3>1, <3>2, <4>1, <4>2
    <3> QED BY <3>1, <3>3
  <2>3. \A r \in Reserves : s.rs[r].outside = others.outside[r] + s.o.onDebt[r]
    BY DEF Adds, AddsIn
  <2>4. freed.o.onDebt = s.o.onDebt /\ freed.o.onShares = reset.o.onShares BY <1>2, <1>3
  <2>5. AddsIn(freed, g, others) BY <2>2, <2>3, <2>4 DEF AddsIn
  <2> QED BY <1>2, <1>3, <1>7, <2>5 DEF Adds, g, t
<1> QED BY <1>4, <1>5, <1>6, <1>7

LEMMA BorrowedAdds ==
  ASSUME NEW s \in States, NEW r \in Reserves, NEW amount \in Nat, NEW others \in Others,
         Adds(s, others)
  PROVE  LET t == TrackersOnBorrow(s, r, amount)
         IN  t.o.group = s.o.group /\ Adds(t, others)
<1> DEFINE g == s.o.group
           deposits == Deposits(s.o)
           t == TrackersOnBorrow(s, r, amount)
<1>0. /\ s.o \in ObligationRecords /\ s.rs \in [Reserves -> ReserveRecords]
      /\ s.o.onShares \in [Reserves -> Nat] /\ s.o.onDebt \in [Reserves -> Nat]
      /\ g \in Groups \cup {NoGroup}
  BY DEF States, ObligationRecords
<1>1. ASSUME NEW d \in Reserves, NEW h \in Groups
      PROVE  /\ others.against[d][h] \in Nat /\ others.outside[d] \in Nat
             /\ s.rs[d].against[h] = others.against[d][h] + (IF h = g THEN s.o.onShares[d] ELSE 0)
  BY DEF Adds, AddsIn, Others
<1>2. ASSUME NEW d \in Reserves
      PROVE  others.outside[d] \in Nat /\ s.rs[d].outside = others.outside[d] + s.o.onDebt[d]
  BY DEF Adds, AddsIn, Others
<1>3. CASE InGroup(s.o)
  <2>1. g \in Groups BY <1>0, <1>3 DEF InGroup
  <2>2. /\ t.rs = AgainstMore(s.rs, deposits, g, amount)
        /\ t.o.onDebt = s.o.onDebt /\ t.o.group = g
        /\ t.o.onShares = [d \in Reserves |-> IF d \in deposits THEN s.o.onShares[d] + amount
                                              ELSE s.o.onShares[d]]
    BY <1>0, <1>3 DEF TrackersOnBorrow, ObligationRecords
  <2> HIDE DEF t, g, deposits
  <2>3. ASSUME NEW d \in Reserves
        PROVE  /\ t.rs[d].outside = s.rs[d].outside
               /\ \A h \in Groups :
                    t.rs[d].against[h] = IF d \in deposits /\ h = g THEN s.rs[d].against[h] + amount
                                         ELSE s.rs[d].against[h]
               /\ t.o.onShares[d] = IF d \in deposits THEN s.o.onShares[d] + amount
                                    ELSE s.o.onShares[d]
    <3>1. /\ t.rs[d].outside = s.rs[d].outside
          /\ \A h \in Groups :
               t.rs[d].against[h] = IF d \in deposits /\ h = g THEN s.rs[d].against[h] + amount
                                    ELSE s.rs[d].against[h]
      <4> DEFINE rs == AgainstMore(s.rs, deposits, g, amount)
      <4>1. /\ rs[d].outside = s.rs[d].outside
            /\ \A h \in Groups :
                 rs[d].against[h] = IF d \in deposits /\ h = g THEN s.rs[d].against[h] + amount
                                    ELSE s.rs[d].against[h]
        <5>1. s.rs \in [Reserves -> ReserveRecords] /\ g \in Groups BY <1>0, <2>1
        <5> QED BY <5>1, MoreChanged
      <4>2. t.rs = rs BY <2>2
      <4> HIDE DEF rs
      <4> QED BY <4>1, <4>2
    <3>2. t.o.onShares[d] = IF d \in deposits THEN s.o.onShares[d] + amount
                            ELSE s.o.onShares[d]
      BY <2>2
    <3> QED BY <3>1, <3>2
  <2>4. ASSUME NEW d \in Reserves, NEW h \in Groups
        PROVE  t.rs[d].against[h] = others.against[d][h] + (IF h = g THEN t.o.onShares[d] ELSE 0)
    <3>1. s.o.onShares[d] \in Nat BY <1>0
    <3> QED BY <1>1, <2>3, <3>1
  <2>5. AddsIn(t, g, others) BY <1>2, <2>2, <2>3, <2>4 DEF AddsIn
  <2> QED BY <2>2, <2>5 DEF Adds, t, g
<1>4. CASE ~InGroup(s.o)
  <2>1. /\ t.rs = [s.rs EXCEPT ![r].outside = @ + amount]
        /\ t.o.onShares = s.o.onShares /\ t.o.group = g
        /\ t.o.onDebt = [s.o.onDebt EXCEPT ![r] = @ + amount]
    BY <1>0, <1>4 DEF TrackersOnBorrow, ObligationRecords
  <2> HIDE DEF t, g
  <2>2. ASSUME NEW d \in Reserves
        PROVE  /\ t.rs[d].outside = others.outside[d] + t.o.onDebt[d]
               /\ t.rs[d].against = s.rs[d].against
    <3>1. /\ t.rs[d].outside = IF d = r THEN s.rs[d].outside + amount ELSE s.rs[d].outside
          /\ t.rs[d].against = s.rs[d].against
      BY <1>0, <2>1 DEF ReserveRecords
    <3>2. t.o.onDebt[d] = IF d = r THEN s.o.onDebt[d] + amount ELSE s.o.onDebt[d]
      BY <1>0, <2>1
    <3>3. s.o.onDebt[d] \in Nat BY <1>0
    <3> QED BY <1>2, <3>1, <3>2, <3>3
  <2>3. AddsIn(t, g, others) BY <1>1, <2>1, <2>2 DEF AddsIn
  <2> QED BY <2>1, <2>3 DEF Adds, t, g
<1> QED BY <1>3, <1>4

\* What is paid back was counted exactly, so that nothing saturates.
LEMMA SettledAdds ==
  ASSUME NEW s \in States, NEW r \in Borrows(s.o), NEW settled \in Nat, NEW others \in Others,
         settled <= s.o.debts[r], Tracked(s.o, 0), BorrowsFit(s.o, s.o.group),
         Adds(s, others)
  PROVE  LET t == Settled(s, r, settled)
         IN  t.o.group = s.o.group /\ Adds(t, others)
<1> DEFINE g == s.o.group
           paid == ToCeil(settled)
           deposits == Deposits(s.o)
           u == TrackersOnRepay(s, r, paid)
           t == DebtReduced(u, r, settled)
<1>0. /\ s.o \in ObligationRecords /\ s.rs \in [Reserves -> ReserveRecords]
      /\ s.o.onShares \in [Reserves -> Nat] /\ s.o.onDebt \in [Reserves -> Nat]
      /\ s.o.debts \in [Reserves -> Nat] /\ r \in Reserves
      /\ g \in Groups \cup {NoGroup} /\ paid \in Nat
  BY CeilType DEF States, ObligationRecords, Borrows
<1>1. /\ ToCeil(s.o.debts[r]) \in Nat /\ paid <= ToCeil(s.o.debts[r])
      /\ settled = s.o.debts[r] => paid = ToCeil(s.o.debts[r])
  BY <1>0, CeilType, CeilMonotone
<1>2. ASSUME NEW d \in Reserves, NEW h \in Groups
      PROVE  /\ others.against[d][h] \in Nat
             /\ s.rs[d].against[h] = others.against[d][h] + (IF h = g THEN s.o.onShares[d] ELSE 0)
  BY DEF Adds, AddsIn, Others
<1>3. ASSUME NEW d \in Reserves
      PROVE  others.outside[d] \in Nat /\ s.rs[d].outside = others.outside[d] + s.o.onDebt[d]
  BY DEF Adds, AddsIn, Others
<1>4. CASE InGroup(s.o)
  <2>1. g \in Groups /\ r = DebtReserve[g] BY <1>0, <1>4 DEF InGroup, BorrowsFit
  <2>2. [d \in Reserves |-> paid] \in [Reserves -> Nat] BY <1>0
  <2>3. /\ u.rs = AgainstLess(s.rs, deposits, g, [d \in Reserves |-> paid])
        /\ u.o = [s.o EXCEPT !.onShares =
                    [d \in Reserves |-> IF d \in deposits THEN SaturatingSub(s.o.onShares[d], paid)
                                        ELSE s.o.onShares[d]]]
    BY <1>0, <1>4 DEF TrackersOnRepay, ObligationRecords
  <2>4. /\ u.o.onDebt = s.o.onDebt /\ u.o.group = g
        /\ u.o.onShares = [d \in Reserves |-> IF d \in deposits
                                              THEN SaturatingSub(s.o.onShares[d], paid)
                                              ELSE s.o.onShares[d]]
        /\ u.o \in ObligationRecords
    BY <1>0, <2>3, SaturatingSubType DEF ObligationRecords
  <2>5. u = [o |-> u.o, rs |-> u.rs] BY <1>4 DEF TrackersOnRepay
  <2> HIDE DEF u
  <2>6. /\ t.rs = u.rs /\ t.o.group = g /\ t.o.onShares = u.o.onShares
        /\ t.o.onDebt = [s.o.onDebt EXCEPT ![r] = IF settled = s.o.debts[r] THEN 0 ELSE @]
    <3>1. t.rs = u.rs BY <2>5 DEF DebtReduced
    <3>2. u.o.debts = s.o.debts BY <1>0, <2>3 DEF ObligationRecords
    <3>3. t.o.onDebt = [u.o.onDebt EXCEPT ![r] = IF settled = s.o.debts[r] THEN 0 ELSE @]
      BY <1>0, <2>4, <2>5, <3>2 DEF DebtReduced, ObligationRecords
    <3>4. t.o.group = g /\ t.o.onShares = u.o.onShares
      BY <1>0, <2>4, <2>5 DEF DebtReduced, ObligationRecords
    <3> QED BY <2>4, <3>1, <3>3, <3>4
  <2>7. s.o.onDebt[r] = 0 BY <1>0, <1>4 DEF Tracked
  <2>8. t.o.onDebt = s.o.onDebt BY <1>0, <2>6, <2>7
  <2> HIDE DEF t, deposits
  <2>9. ASSUME NEW d \in Reserves
        PROVE  /\ t.rs[d].outside = s.rs[d].outside
               /\ \A h \in Groups :
                    t.rs[d].against[h] = others.against[d][h] + (IF h = g THEN t.o.onShares[d] ELSE 0)
    <3>1. /\ t.rs[d].outside = s.rs[d].outside
          /\ \A h \in Groups :
               t.rs[d].against[h] = IF d \in deposits /\ h = g
                                    THEN SaturatingSub(s.rs[d].against[h], paid)
                                    ELSE s.rs[d].against[h]
      <4> DEFINE rs == AgainstLess(s.rs, deposits, g, [e \in Reserves |-> paid])
      <4>1. s.rs \in [Reserves -> ReserveRecords] /\ g \in Groups BY <1>0, <2>1
      <4>2. /\ rs[d].outside = s.rs[d].outside
            /\ \A h \in Groups :
                 rs[d].against[h] = IF d \in deposits /\ h = g
                                    THEN SaturatingSub(s.rs[d].against[h], paid)
                                    ELSE s.rs[d].against[h]
        <5> HIDE DEF g, paid
        <5>1. s.rs[d] \in ReserveRecords BY <4>1
        <5> QED BY <4>1, <5>1 DEF AgainstLess, ReserveRecords
      <4>3. t.rs = rs BY <2>3, <2>6
      <4> HIDE DEF rs
      <4> QED BY <4>2, <4>3
    <3>2. t.o.onShares[d] = IF d \in deposits THEN SaturatingSub(s.o.onShares[d], paid)
                            ELSE s.o.onShares[d]
      BY <2>4, <2>6
    <3>3. s.o.onShares[d] \in Nat BY <1>0
    <3>4. d \in deposits => s.o.onShares[d] = ToCeil(s.o.debts[r])
      <4>1. d \in deposits => s.o.onShares[d] - ToCeil(s.o.debts[r]) \in -0..0
        BY <1>4, <2>1 DEF Tracked, deposits
      <4> QED BY <1>1, <3>3, <4>1
    <3>5. ASSUME NEW h \in Groups
          PROVE  t.rs[d].against[h] = others.against[d][h] + (IF h = g THEN t.o.onShares[d] ELSE 0)
      <4>1. CASE d \in deposits /\ h = g
        <5>1. t.rs[d].against[h] = SaturatingSub(s.rs[d].against[h], paid) BY <3>1, <4>1
        <5>2. paid <= s.o.onShares[d] BY <1>1, <3>4, <4>1
        <5>3. SaturatingSub(s.o.onShares[d], paid) = s.o.onShares[d] - paid
          BY <1>0, <3>3, <5>2, NothingSaturates
        <5>4. s.rs[d].against[h] = others.against[d][h] + s.o.onShares[d]
              /\ others.against[d][h] \in Nat
          BY <1>2, <4>1
        <5>5. s.rs[d].against[h] \in Nat /\ paid <= s.rs[d].against[h]
          BY <1>0, <3>3, <5>2, <5>4
        <5>6. SaturatingSub(s.rs[d].against[h], paid) = s.rs[d].against[h] - paid
          BY <1>0, <5>5, NothingSaturates
        <5> QED BY <1>0, <3>2, <3>3, <4>1, <5>1, <5>3, <5>4, <5>6
      <4>2. CASE ~(d \in deposits /\ h = g)
        BY <1>2, <3>1, <3>2, <4>2
      <4> QED BY <4>1, <4>2
    <3> QED BY <3>1, <3>5
  <2>10. AddsIn(t, g, others) BY <1>3, <2>8, <2>9 DEF AddsIn
  <2> QED BY <2>6, <2>10 DEF Adds, Settled, t, u, g, paid
<1>5. CASE ~InGroup(s.o)
  <2>1. /\ u.rs = [s.rs EXCEPT ![r].outside = SaturatingSub(@, paid)]
        /\ u.o = [s.o EXCEPT !.onDebt = [s.o.onDebt EXCEPT ![r] = SaturatingSub(@, paid)]]
    BY <1>0, <1>5 DEF TrackersOnRepay, ObligationRecords
  <2>2. /\ u.o.onShares = s.o.onShares /\ u.o.group = g
        /\ u.o.onDebt = [s.o.onDebt EXCEPT ![r] = SaturatingSub(@, paid)]
        /\ u.o \in ObligationRecords
    BY <1>0, <2>1, SaturatingSubType DEF ObligationRecords
  <2>3. u = [o |-> u.o, rs |-> u.rs] BY <1>5 DEF TrackersOnRepay
  <2> HIDE DEF u
  <2>4. /\ t.rs = u.rs /\ t.o.group = g /\ t.o.onShares = s.o.onShares
        /\ t.o.onDebt = [u.o.onDebt EXCEPT ![r] = IF settled = s.o.debts[r] THEN 0 ELSE @]
    <3>1. t.rs = u.rs BY <2>3 DEF DebtReduced
    <3>2. u.o.debts = s.o.debts BY <1>0, <2>1 DEF ObligationRecords
    <3> QED BY <1>0, <2>2, <2>3, <3>1, <3>2 DEF DebtReduced, ObligationRecords
  <2> HIDE DEF t
  <2>5. s.o.onDebt[r] = ToCeil(s.o.debts[r])
    <3>1. s.o.onDebt[r] - ToCeil(s.o.debts[r]) \in -0..0 BY <1>5 DEF Tracked
    <3>2. s.o.onDebt[r] \in Nat BY <1>0
    <3> QED BY <1>1, <3>1, <3>2
  <2>6. SaturatingSub(s.o.onDebt[r], paid) = s.o.onDebt[r] - paid
    BY <1>0, <1>1, <2>5, NothingSaturates
  <2>7. t.o.onDebt[r] = s.o.onDebt[r] - paid
    <3>1. u.o.onDebt[r] = s.o.onDebt[r] - paid BY <1>0, <2>2, <2>6
    <3>2. t.o.onDebt[r] = IF settled = s.o.debts[r] THEN 0 ELSE u.o.onDebt[r]
      BY <1>0, <2>2, <2>4 DEF ObligationRecords
    <3> QED BY <1>0, <1>1, <2>5, <3>1, <3>2
  <2>8. ASSUME NEW d \in Reserves
        PROVE  /\ t.rs[d].outside = others.outside[d] + t.o.onDebt[d]
               /\ t.rs[d].against = s.rs[d].against
    <3>1. /\ t.rs[d].outside = IF d = r THEN SaturatingSub(s.rs[r].outside, paid) ELSE s.rs[d].outside
          /\ t.rs[d].against = s.rs[d].against
      BY <1>0, <2>1, <2>4 DEF ReserveRecords
    <3>2. CASE d # r
      <4>1. t.o.onDebt[d] = s.o.onDebt[d] BY <1>0, <2>2, <2>4, <3>2 DEF ObligationRecords
      <4> QED BY <1>3, <3>1, <3>2, <4>1
    <3>3. CASE d = r
      <4>1. /\ s.rs[r].outside = others.outside[r] + s.o.onDebt[r] /\ others.outside[r] \in Nat
            /\ s.o.onDebt[r] \in Nat /\ paid <= s.o.onDebt[r]
        BY <1>0, <1>1, <1>3, <2>5
      <4>2. s.rs[r].outside \in Nat /\ paid <= s.rs[r].outside BY <1>0, <4>1
      <4>3. SaturatingSub(s.rs[r].outside, paid) = s.rs[r].outside - paid
        BY <1>0, <4>2, NothingSaturates
      <4> QED BY <1>0, <2>7, <3>1, <3>3, <4>1, <4>3
    <3> QED BY <3>2, <3>3
  <2>9. AddsIn(t, g, others) BY <1>2, <2>4, <2>8 DEF AddsIn
  <2> QED BY <2>4, <2>9 DEF Adds, Settled, t, u, g, paid
<1> QED BY <1>4, <1>5

\* A deposit that the obligation did not have counted nothing until now.
LEMMA DepositedAdds ==
  ASSUME NEW s \in States, NEW r \in Reserves, NEW amount \in Nat, NEW others \in Others,
         Tracked(s.o, 0), Adds(s, others)
  PROVE  LET t == Deposited(s, r, amount)
         IN  t.o.group = s.o.group /\ Adds(t, others)
<1> DEFINE g == s.o.group
           borrowed == BorrowedIfSingle(s.o)
           more == [s EXCEPT !.o.deposits[r] = @ + amount, !.o.updated = "stale"]
           new == [more EXCEPT !.o.onShares[r] = borrowed, !.rs[r].against[g] = @ + borrowed]
           t == Deposited(s, r, amount)
<1>0. /\ s.o \in ObligationRecords /\ s.rs \in [Reserves -> ReserveRecords]
      /\ s.o.onShares \in [Reserves -> Nat]
      /\ g \in Groups \cup {NoGroup} /\ borrowed \in Nat
  BY BorrowedType DEF States, ObligationRecords
<1>1. /\ more.rs = s.rs /\ more.o.onShares = s.o.onShares /\ more.o.onDebt = s.o.onDebt
      /\ more.o.group = g
  BY <1>0 DEF States, ObligationRecords
<1>2. /\ new.rs = [s.rs EXCEPT ![r].against[g] = @ + borrowed]
      /\ new.o.onShares = [s.o.onShares EXCEPT ![r] = borrowed]
      /\ new.o.onDebt = s.o.onDebt /\ new.o.group = g
  BY <1>0 DEF States, ObligationRecords
<1>3. t = IF InGroup(s.o) /\ r \notin Deposits(s.o) THEN new ELSE more
  BY DEF Deposited
<1> HIDE DEF t, new, more, borrowed, g
<1>4. AddsIn(s, g, others) BY DEF Adds, g
<1>5. AddsIn(more, g, others) BY <1>1, <1>4, SameTrackers
<1>6. ASSUME InGroup(s.o), r \notin Deposits(s.o) PROVE AddsIn(new, g, others)
  <2>1. g \in Groups /\ s.o.onShares[r] = 0 BY <1>0, <1>6 DEF InGroup, g, Tracked
  <2>2. ASSUME NEW d \in Reserves
        PROVE  /\ new.rs[d].outside = others.outside[d] + s.o.onDebt[d]
               /\ \A h \in Groups :
                    new.rs[d].against[h] = others.against[d][h]
                                           + (IF h = g THEN new.o.onShares[d] ELSE 0)
    <3>1. /\ new.rs[d].outside = s.rs[d].outside
          /\ \A h \in Groups :
               new.rs[d].against[h] =
                 IF d = r /\ h = g THEN s.rs[d].against[h] + borrowed ELSE s.rs[d].against[h]
      BY <1>0, <1>2, <2>1 DEF ReserveRecords
    <3>2. new.o.onShares[d] = IF d = r THEN borrowed ELSE s.o.onShares[d] BY <1>0, <1>2
    <3>3. s.rs[d].outside = others.outside[d] + s.o.onDebt[d] BY <1>4 DEF AddsIn
    <3>4. ASSUME NEW h \in Groups
          PROVE  new.rs[d].against[h] = others.against[d][h]
                                        + (IF h = g THEN new.o.onShares[d] ELSE 0)
      <4>1. /\ others.against[d][h] \in Nat /\ s.o.onShares[d] \in Nat
            /\ s.rs[d].against[h] = others.against[d][h] + (IF h = g THEN s.o.onShares[d] ELSE 0)
        BY <1>0, <1>4 DEF AddsIn, Others
      <4> QED BY <1>0, <2>1, <3>1, <3>2, <4>1
    <3> QED BY <3>1, <3>3, <3>4
  <2> QED BY <1>2, <2>2 DEF AddsIn
<1> QED BY <1>1, <1>2, <1>3, <1>5, <1>6 DEF Adds, g, t

\* A reset takes off the reserves exactly what the obligation counted.
LEMMA ResetAdds ==
  ASSUME NEW s \in States, NEW others \in Others, Tracked(s.o, 0), Adds(s, others)
  PROVE  AddsIn(TrackersReset(s), s.o.group, others)
<1> DEFINE g == s.o.group
           deposits == Deposits(s.o)
           borrows == Borrows(s.o)
           t == TrackersReset(s)
<1>0. /\ s.o \in ObligationRecords /\ s.rs \in [Reserves -> ReserveRecords]
      /\ s.o.onShares \in [Reserves -> Nat] /\ s.o.onDebt \in [Reserves -> Nat]
      /\ g \in Groups \cup {NoGroup} /\ \A r \in Reserves : Zeros[r] = 0
  BY DEF States, ObligationRecords, Zeros
<1>1. AddsIn(s, g, others) BY DEF Adds
<1>2. ASSUME NEW d \in Reserves
      PROVE  /\ s.rs[d].outside = others.outside[d] + s.o.onDebt[d]
             /\ others.outside[d] \in Nat /\ s.o.onDebt[d] \in Nat
  BY <1>0, <1>1 DEF AddsIn, Others
<1>3. ASSUME NEW d \in Reserves, NEW h \in Groups
      PROVE  /\ others.against[d][h] \in Nat /\ s.o.onShares[d] \in Nat
             /\ s.rs[d].against[h] = others.against[d][h] + (IF h = g THEN s.o.onShares[d] ELSE 0)
  BY <1>0, <1>1 DEF AddsIn, Others
<1>4. CASE InGroup(s.o)
  <2>1. g \in Groups BY <1>0, <1>4 DEF InGroup
  <2>2. /\ t.rs = AgainstLess(s.rs, deposits, g, s.o.onShares)
        /\ t.o.onDebt = s.o.onDebt /\ t.o.onShares = Set(s.o.onShares, deposits, Zeros)
    BY <1>0, <1>4 DEF TrackersReset, ObligationRecords
  <2> HIDE DEF t, g, deposits
  <2>3. ASSUME NEW d \in Reserves
        PROVE  /\ t.rs[d].outside = s.rs[d].outside
               /\ \A h \in Groups :
                    t.rs[d].against[h] = others.against[d][h] + (IF h = g THEN t.o.onShares[d] ELSE 0)
    <3> DEFINE rs == AgainstLess(s.rs, deposits, g, s.o.onShares)
    <3>1. /\ rs[d].outside = s.rs[d].outside
          /\ \A h \in Groups :
               rs[d].against[h] = IF d \in deposits /\ h = g
                                  THEN SaturatingSub(s.rs[d].against[h], s.o.onShares[d])
                                  ELSE s.rs[d].against[h]
      <4>1. /\ s.rs \in [Reserves -> ReserveRecords] /\ g \in Groups
            /\ s.o.onShares \in [Reserves -> Nat]
        BY <1>0, <2>1
      <4>2. s.rs[d] \in ReserveRecords BY <4>1
      <4> QED BY <4>1, <4>2 DEF AgainstLess, ReserveRecords
    <3>2. t.rs = rs BY <2>2
    <3> HIDE DEF rs
    <3>3. t.o.onShares[d] = IF d \in deposits THEN 0 ELSE s.o.onShares[d]
      BY <1>0, <2>2 DEF Set
    <3>4. ASSUME NEW h \in Groups
          PROVE  t.rs[d].against[h] = others.against[d][h] + (IF h = g THEN t.o.onShares[d] ELSE 0)
      <4>1. h = g => SaturatingSub(s.rs[d].against[h], s.o.onShares[d]) = others.against[d][h]
        BY <1>3, NothingSaturates
      <4> QED BY <1>3, <3>1, <3>2, <3>3, <4>1
    <3> QED BY <3>1, <3>2, <3>4
  <2> QED BY <1>2, <2>2, <2>3 DEF AddsIn, t, g
<1>5. CASE ~InGroup(s.o)
  <2>1. /\ t.rs = OutsideReplaced(s.rs, borrows, s.o.onDebt, Zeros)
        /\ t.o.onShares = s.o.onShares /\ t.o.onDebt = Set(s.o.onDebt, borrows, Zeros)
    BY <1>0, <1>5 DEF TrackersReset, ObligationRecords
  <2> HIDE DEF t, g, borrows
  <2>2. ASSUME NEW d \in Reserves
        PROVE  /\ t.rs[d].outside = others.outside[d] + t.o.onDebt[d]
               /\ t.rs[d].against = s.rs[d].against
    <3> DEFINE rs == OutsideReplaced(s.rs, borrows, s.o.onDebt, Zeros)
    <3>1. /\ rs[d].against = s.rs[d].against
          /\ rs[d].outside = IF d \in borrows
                             THEN SaturatingSub(s.rs[d].outside, s.o.onDebt[d]) + Zeros[d]
                             ELSE s.rs[d].outside
      BY <1>0, OutsideChanged
    <3>2. t.rs = rs BY <2>1
    <3> HIDE DEF rs
    <3>3. t.o.onDebt[d] = IF d \in borrows THEN 0 ELSE s.o.onDebt[d] BY <1>0, <2>1 DEF Set
    <3>4. SaturatingSub(s.rs[d].outside, s.o.onDebt[d]) = others.outside[d]
      BY <1>2, NothingSaturates
    <3>5. Zeros[d] = 0 BY <1>0
    <3> QED BY <1>2, <3>1, <3>2, <3>3, <3>4, <3>5
  <2> QED BY <1>3, <2>1, <2>2 DEF AddsIn, t, g
<1> QED BY <1>4, <1>5

LEMMA MarkedAdds ==
  ASSUME NEW s \in States, NEW others, Adds(s, others)
  PROVE  Adds(MarkedStale(s), others)
<1> DEFINE t == MarkedStale(s)
<1>1. /\ t.rs = s.rs /\ t.o.group = s.o.group
      /\ t.o.onShares = s.o.onShares /\ t.o.onDebt = s.o.onDebt
  BY DEF MarkedStale, States, ObligationRecords
<1> HIDE DEF t
<1>2. AddsIn(t, s.o.group, others) BY <1>1, SameTrackers DEF Adds
<1> QED BY <1>1, <1>2 DEF Adds, t

\* An obligation without positions counts nothing, and can go.
LEMMA ClosedAdds ==
  ASSUME NEW s \in States, NEW others \in Others, Adds(s, others),
         Tracked(s.o, 1), Closes(s.o)
  PROVE  LET t == [s EXCEPT !.o = NewObligation]
         IN  t \in States /\ Adds(t, others)
<1> DEFINE t == [s EXCEPT !.o = NewObligation]
<1>1. t \in States /\ t.rs = s.rs /\ t.o = NewObligation
  BY NewObligationFacts DEF States
<1>2. \A r \in Reserves : s.o.onShares[r] = 0 /\ s.o.onDebt[r] = 0
  BY DEF Tracked, Closes
<1>3. \A r \in Reserves : NewObligation.onShares[r] = 0 /\ NewObligation.onDebt[r] = 0
  BY DEF NewObligation, Zeros
<1> HIDE DEF t
<1>4. Adds(t, others) BY <1>1, <1>2, <1>3 DEF Adds, AddsIn
<1> QED BY <1>1, <1>4 DEF t

-------------------------------------------------------------------------------
(* Every handler leaves the reserves counting what the obligation counts.      *)

Counted(id, others) == \E t \in States : Commit(id, t) /\ Adds(t, others)

LEMMA RefreshObligationAdds ==
  ASSUME IInv, NEW id \in Obligations, NEW others \in Others, Adds(View(id), others),
         RefreshObligation(id)
  PROVE  Counted(id, others)
<1> DEFINE s == View(id)
<1>1. PICK debts \in Accrued(s.o) : Commit(id, Refreshed(s, debts))
  BY DEF RefreshObligation
<1>2. s \in States /\ Good(s.o) BY ViewFacts
<1>3. /\ debts \in [Reserves -> Nat]
      /\ \A r \in Reserves : debts[r] > 0 <=> s.o.debts[r] > 0
  BY <1>2, AccruedFacts DEF States
<1> DEFINE t == Refreshed(s, debts)
<1>4. t \in States BY <1>2, <1>3, RefreshedFacts DEF Good
<1>5. Adds(t, others) BY <1>2, <1>3, RefreshedAdds
<1> QED BY <1>1, <1>4, <1>5 DEF Counted

LEMMA DepositCollateralAdds ==
  ASSUME IInv, NEW id \in Obligations, NEW others \in Others, Adds(View(id), others),
         NEW r \in Reserves, NEW amount \in Nat \ {0}, DepositCollateral(id, r, amount)
  PROVE  Counted(id, others)
<1> DEFINE s == View(id)
           t == Deposited(s, r, amount)
<1>1. DepositAllowed(s.o, r) /\ Commit(id, t) BY DEF DepositCollateral
<1>2. s \in States /\ IsFresh(s.o) /\ Exact(s.o) /\ Good(s.o)
  BY <1>1, ViewFacts DEF DepositAllowed
<1>3. t \in States BY <1>1, <1>2, DepositFits
<1>4. Adds(t, others) BY <1>2, DepositedAdds DEF Exact
<1> QED BY <1>1, <1>3, <1>4 DEF Counted

LEMMA WithdrawCollateralAdds ==
  ASSUME IInv, NEW id \in Obligations, NEW others \in Others, Adds(View(id), others),
         NEW r \in Reserves, NEW amount \in Nat \ {0}, WithdrawCollateral(id, r, amount)
  PROVE  Counted(id, others)
<1> DEFINE s == View(id)
           t == Withdrawn(s, r, amount)
<1>1. s \in States /\ Good(s.o) BY ViewFacts
<1>2. /\ amount <= s.o.deposits[r]
      /\ \/ Closes(t.o) /\ Commit(id, [t EXCEPT !.o = NewObligation])
         \/ Commit(id, MarkedStale(t))
  BY DEF WithdrawCollateral
<1>3. t \in States /\ Tracked(t.o, 1) BY <1>1, <1>2, WithdrawnKeeps DEF Good
<1>4. Adds(t, others) BY <1>1, WithdrawnAdds
<1> HIDE DEF t
<1>5. CASE Closes(t.o) /\ Commit(id, [t EXCEPT !.o = NewObligation])
  BY <1>3, <1>4, <1>5, ClosedAdds DEF Counted
<1>6. CASE Commit(id, MarkedStale(t))
  BY <1>3, <1>4, <1>6, MarkedAdds, MarkedStaleFacts DEF Counted
<1> QED BY <1>2, <1>5, <1>6

LEMMA DepositAndWithdrawAdds ==
  ASSUME IInv, NEW id \in Obligations, NEW others \in Others, Adds(View(id), others),
         NEW r \in Reserves, NEW amount \in Nat \ {0},
         NEW w \in Reserves, NEW withdrawn \in Nat \ {0},
         DepositAndWithdraw(id, r, amount, w, withdrawn)
  PROVE  Counted(id, others)
<1> DEFINE s == View(id)
           deposited == Deposited(s, r, amount)
           refreshed == Refreshed(deposited, deposited.o.debts)
           after == Withdrawn(refreshed, w, withdrawn)
           t == Refreshed(after, after.o.debts)
<1>1. /\ DepositAllowed(s.o, r) /\ withdrawn <= refreshed.o.deposits[w]
      /\ \/ Closes(after.o) /\ Commit(id, [after EXCEPT !.o = NewObligation])
         \/ Commit(id, MarkedStale(t))
  BY DEF DepositAndWithdraw
<1>2. s \in States /\ IsFresh(s.o) /\ Exact(s.o) /\ Good(s.o)
  BY <1>1, ViewFacts DEF DepositAllowed
<1>3. deposited \in States /\ Tracked(deposited.o, 1)
  BY <1>1, <1>2, DepositFits, ExactIsTracked
<1>4. Adds(deposited, others) BY <1>2, DepositedAdds DEF Exact
<1> HIDE DEF deposited
<1>5. deposited.o.debts \in [Reserves -> Nat] BY <1>3 DEF States, ObligationRecords
<1>6. refreshed \in States /\ Tracked(refreshed.o, 1)
  BY <1>3, <1>5, RefreshedFacts, ExactIsTracked DEF Exact
<1>7. Adds(refreshed, others) BY <1>3, <1>4, <1>5, RefreshedAdds
<1> HIDE DEF refreshed
<1>8. after \in States /\ Tracked(after.o, 1) BY <1>1, <1>6, WithdrawnKeeps
<1>9. Adds(after, others) BY <1>6, <1>7, WithdrawnAdds
<1> HIDE DEF after
<1>10. after.o.debts \in [Reserves -> Nat] BY <1>8 DEF States, ObligationRecords
<1>11. t \in States BY <1>8, <1>10, RefreshedFacts
<1>12. Adds(t, others) BY <1>8, <1>9, <1>10, RefreshedAdds
<1> HIDE DEF t
<1>13. CASE Closes(after.o) /\ Commit(id, [after EXCEPT !.o = NewObligation])
  BY <1>8, <1>9, <1>13, ClosedAdds DEF Counted
<1>14. CASE Commit(id, MarkedStale(t))
  BY <1>11, <1>12, <1>14, MarkedAdds, MarkedStaleFacts DEF Counted
<1> QED BY <1>1, <1>13, <1>14

LEMMA BorrowLiquidityAdds ==
  ASSUME IInv, NEW id \in Obligations, NEW others \in Others, Adds(View(id), others),
         NEW r \in Reserves, NEW amount \in Nat \ {0}, BorrowLiquidity(id, r, amount)
  PROVE  Counted(id, others)
<1> DEFINE s == View(id)
           a == [s EXCEPT !.o.debts[r] = @ + amount]
           t == TrackersOnBorrow(a, r, ToCeil(amount))
<1>1. /\ IsFresh(s.o) /\ Commit(id, MarkedStale(t))
      /\ LimitsAllowBorrow(s, r, ToCeil(amount))
  BY DEF BorrowLiquidity
<1>2. s \in States /\ Exact(s.o) BY <1>1, ViewFacts
<1>3. InGroup(s.o) => r = DebtReserve[s.o.group] BY <1>1 DEF LimitsAllowBorrow
<1>4. t \in States BY <1>2, <1>3, BorrowedFacts DEF Exact
<1>5. /\ a \in States /\ a.rs = s.rs /\ a.o.group = s.o.group
      /\ a.o.onShares = s.o.onShares /\ a.o.onDebt = s.o.onDebt
  <2>1. [s.o.debts EXCEPT ![r] = @ + amount] \in [Reserves -> Nat]
    BY <1>2 DEF States, ObligationRecords
  <2> QED BY <1>2, <2>1 DEF States, ObligationRecords
<1> HIDE DEF a
<1>6. Adds(a, others)
  <2>1. AddsIn(a, s.o.group, others) BY <1>5, SameTrackers DEF Adds
  <2> QED BY <1>5, <2>1 DEF Adds
<1>7. Adds(t, others) BY <1>5, <1>6, CeilType, BorrowedAdds
<1> HIDE DEF t
<1> QED BY <1>1, <1>4, <1>7, MarkedAdds, MarkedStaleFacts DEF Counted

LEMMA RepaidAdds ==
  ASSUME IInv, NEW id \in Obligations, NEW others \in Others, Adds(View(id), others),
         NEW r \in Reserves, NEW amount \in Nat \ {0},
         RepayLiquidity(id, r, amount) \/ SocializeLoss(id, r, amount)
  PROVE  Counted(id, others)
<1> DEFINE s == View(id)
           settled == Smaller(FromNum(amount), s.o.debts[r])
           t == Settled(s, r, settled)
<1>1. IsFresh(s.o) /\ r \in Borrows(s.o) /\ Commit(id, MarkedStale(t))
  BY DEF RepayLiquidity, SocializeLoss
<1>2. s \in States /\ Exact(s.o) /\ Good(s.o) BY <1>1, ViewFacts
<1>3. settled \in Nat /\ settled <= s.o.debts[r]
  <2>1. s.o.debts[r] \in Nat BY <1>2 DEF States, ObligationRecords
  <2>2. FromNum(amount) \in Nat BY ConstantTypes DEF FromNum
  <2> QED BY <2>1, <2>2 DEF Smaller
<1> HIDE DEF settled
<1>4. t \in States BY <1>1, <1>2, <1>3, SettledKeeps
<1>5. Adds(t, others) BY <1>1, <1>2, <1>3, SettledAdds DEF Exact, Good, RefreshAllowed
<1> HIDE DEF t
<1> QED BY <1>1, <1>4, <1>5, MarkedAdds, MarkedStaleFacts DEF Counted

LEMMA LiquidateAdds ==
  ASSUME IInv, NEW id \in Obligations, NEW others \in Others, Adds(View(id), others),
         NEW r \in Reserves, NEW settled \in Nat \ {0},
         NEW w \in Reserves, NEW withdrawn \in Nat \ {0},
         Liquidate(id, r, settled, w, withdrawn)
  PROVE  Counted(id, others)
<1> DEFINE s == View(id)
           u == Settled(s, r, settled)
           t == Withdrawn(u, w, withdrawn)
<1>1. /\ IsFresh(s.o) /\ settled <= s.o.debts[r] /\ withdrawn <= s.o.deposits[w]
      /\ Commit(id, MarkedStale(t))
  BY DEF Liquidate
<1>2. s \in States /\ Exact(s.o) /\ Good(s.o) BY <1>1, ViewFacts
<1>3. r \in Borrows(s.o) BY <1>1, <1>2 DEF Borrows, States, ObligationRecords
<1>4. u \in States /\ u.o.deposits = s.o.deposits /\ Good(u.o)
  BY <1>1, <1>2, <1>3, SettledKeeps
<1>5. Adds(u, others) BY <1>1, <1>2, <1>3, SettledAdds DEF Exact, Good, RefreshAllowed
<1> HIDE DEF u
<1>6. t \in States BY <1>1, <1>4, WithdrawnKeeps DEF Good
<1>7. Adds(t, others) BY <1>4, <1>5, WithdrawnAdds
<1> HIDE DEF t
<1> QED BY <1>1, <1>6, <1>7, MarkedAdds, MarkedStaleFacts DEF Counted

\* After a reset the obligation counts nothing, in whatever group: the new group may
\* take the place of the old one.
LEMMA RequestElevationGroupAdds ==
  ASSUME IInv, NEW id \in Obligations, NEW others \in Others, Adds(View(id), others),
         NEW g \in Groups \cup {NoGroup}, RequestElevationGroup(id, g)
  PROVE  Counted(id, others)
<1> DEFINE s == View(id)
           a == TrackersReset(s)
           b == BorrowsRefreshed(a, g)
           d == DepositsRefreshed(b, g)
           t == [d EXCEPT !.o.group = g]
<1>1. IsFresh(s.o) /\ Commit(id, MarkedStale(t)) BY DEF RequestElevationGroup
<1>2. s \in States /\ Tracked(s.o, 0) BY <1>1, ViewFacts DEF Exact
<1>3. a \in States /\ \A r \in Reserves : a.o.onShares[r] = 0 BY <1>2, ResetFacts
<1>4. AddsIn(a, s.o.group, others) BY <1>2, ResetAdds
<1> HIDE DEF a
<1>5. AddsIn(a, g, others) BY <1>3, <1>4, NothingCounted
<1>6. b \in States BY <1>3, BorrowsRefreshedFacts
<1>7. AddsIn(b, g, others) BY <1>3, <1>5, BorrowsRefreshedAdds
<1> HIDE DEF b
<1>8. d \in States BY <1>6, DepositsRefreshedFacts
<1>9. AddsIn(d, g, others) BY <1>6, <1>7, DepositsRefreshedAdds
<1> HIDE DEF d
<1>10. /\ t \in States /\ t.rs = d.rs /\ t.o.group = g
       /\ t.o.onShares = d.o.onShares /\ t.o.onDebt = d.o.onDebt
  BY <1>8 DEF States, ObligationRecords
<1> HIDE DEF t
<1>11. AddsIn(t, g, others) BY <1>9, <1>10, SameTrackers
<1>12. Adds(t, others) BY <1>10, <1>11 DEF Adds
<1> QED BY <1>1, <1>10, <1>12, MarkedAdds, MarkedStaleFacts DEF Counted

-------------------------------------------------------------------------------
(* The sums over all obligations.                                              *)

OutsideOf(r) == [id \in Obligations |-> obligations[id].onDebt[r]]

AgainstOf(r, g) ==
  [id \in Obligations |-> IF obligations[id].group = g THEN obligations[id].onShares[r] ELSE 0]

AddUp ==
  \A r \in Reserves :
    /\ reserves[r].outside = SumFunctionOnSet(OutsideOf(r), Obligations)
    /\ \A g \in Groups : reserves[r].against[g] = SumFunctionOnSet(AgainstOf(r, g), Obligations)

OthersOf(id) ==
  [outside |-> [r \in Reserves |-> SumFunctionOnSet(OutsideOf(r), Obligations \ {id})],
   against |-> [r \in Reserves |-> [g \in Groups |->
                  SumFunctionOnSet(AgainstOf(r, g), Obligations \ {id})]]]

LEMMA FiniteObligations ==
  IsFiniteSet(Obligations) /\ \A id : IsFiniteSet(Obligations \ {id})
BY FS_RemoveElement, ElevationGroupsAssumption

LEMMA TermTypes ==
  ASSUME TypeOK, NEW r \in Reserves
  PROVE  /\ \A id \in Obligations : OutsideOf(r)[id] \in Nat
         /\ \A g \in Groups : \A id \in Obligations : AgainstOf(r, g)[id] \in Nat
BY DEF TypeOK, ObligationRecords, OutsideOf, AgainstOf

LEMMA OthersFacts ==
  ASSUME TypeOK, NEW id \in Obligations
  PROVE  OthersOf(id) \in Others
<1>1. ASSUME NEW r \in Reserves
      PROVE  SumFunctionOnSet(OutsideOf(r), Obligations \ {id}) \in Nat
  <2>1. \A i \in Obligations \ {id} : OutsideOf(r)[i] \in Nat BY TermTypes
  <2> QED BY <2>1, FiniteObligations, SumNatural
<1>2. ASSUME NEW r \in Reserves, NEW g \in Groups
      PROVE  SumFunctionOnSet(AgainstOf(r, g), Obligations \ {id}) \in Nat
  <2>1. \A i \in Obligations \ {id} : AgainstOf(r, g)[i] \in Nat BY TermTypes
  <2> QED BY <2>1, FiniteObligations, SumNatural
<1> QED BY <1>1, <1>2 DEF OthersOf, Others

LEMMA ViewAdds ==
  ASSUME TypeOK, AddUp, NEW id \in Obligations
  PROVE  Adds(View(id), OthersOf(id))
<1> DEFINE s == View(id)
           others == OthersOf(id)
<1>1. s.rs = reserves /\ s.o = obligations[id] BY DEF View
<1>2. ASSUME NEW r \in Reserves
      PROVE  reserves[r].outside = others.outside[r] + obligations[id].onDebt[r]
  <2>1. /\ reserves[r].outside = SumFunctionOnSet(OutsideOf(r), Obligations)
        /\ OutsideOf(r)[id] = obligations[id].onDebt[r]
        /\ others.outside[r] = SumFunctionOnSet(OutsideOf(r), Obligations \ {id})
    BY DEF AddUp, OutsideOf, OthersOf
  <2>2. \A i \in Obligations : OutsideOf(r)[i] \in Int BY TermTypes
  <2>3. SumFunctionOnSet(OutsideOf(r), Obligations)
          = OutsideOf(r)[id] + SumFunctionOnSet(OutsideOf(r), Obligations \ {id})
    BY <2>2, FiniteObligations, SumRemove
  <2>4. others.outside[r] \in Int /\ OutsideOf(r)[id] \in Int
    BY <2>2, OthersFacts DEF Others
  <2> HIDE DEF others
  <2> QED BY <2>1, <2>3, <2>4
<1>3. ASSUME NEW r \in Reserves, NEW g \in Groups
      PROVE  reserves[r].against[g] =
               others.against[r][g]
               + (IF g = obligations[id].group THEN obligations[id].onShares[r] ELSE 0)
  <2>1. /\ reserves[r].against[g] = SumFunctionOnSet(AgainstOf(r, g), Obligations)
        /\ AgainstOf(r, g)[id] = IF g = obligations[id].group THEN obligations[id].onShares[r]
                                 ELSE 0
        /\ others.against[r][g] = SumFunctionOnSet(AgainstOf(r, g), Obligations \ {id})
    BY DEF AddUp, AgainstOf, OthersOf
  <2>2. \A i \in Obligations : AgainstOf(r, g)[i] \in Int BY TermTypes
  <2>3. SumFunctionOnSet(AgainstOf(r, g), Obligations)
          = AgainstOf(r, g)[id] + SumFunctionOnSet(AgainstOf(r, g), Obligations \ {id})
    BY <2>2, FiniteObligations, SumRemove
  <2>4. others.against[r][g] \in Int /\ AgainstOf(r, g)[id] \in Int
    BY <2>2, OthersFacts DEF Others
  <2> HIDE DEF others
  <2> QED BY <2>1, <2>3, <2>4
<1> HIDE DEF s, others
<1>4. Adds(s, others) BY <1>1, <1>2, <1>3 DEF Adds, AddsIn
<1> QED BY <1>4 DEF s, others

\* What the other obligations count is the same before and after an instruction.
LEMMA CommittedAdds ==
  ASSUME TypeOK, TypeOK', NEW id \in Obligations, Counted(id, OthersOf(id))
  PROVE  AddUp'
<1> DEFINE others == OthersOf(id)
           outside(r) == [i \in Obligations |-> obligations'[i].onDebt[r]]
           against(r, g) ==
             [i \in Obligations |-> IF obligations'[i].group = g THEN obligations'[i].onShares[r]
                                    ELSE 0]
<1>1. PICK t \in States : Commit(id, t) /\ Adds(t, others) BY DEF Counted
<1>2. /\ obligations \in [Obligations -> ObligationRecords]
      /\ obligations' \in [Obligations -> ObligationRecords]
      /\ obligations' = [obligations EXCEPT ![id] = t.o] /\ reserves' = t.rs
  BY <1>1 DEF TypeOK, Commit
<1>3. /\ obligations'[id] = t.o
      /\ \A i \in Obligations \ {id} : obligations'[i] = obligations[i]
  BY <1>2
<1>4. \A i \in Obligations : obligations'[i] \in ObligationRecords BY <1>2
<1>5. ASSUME NEW r \in Reserves
      PROVE  reserves'[r].outside = SumFunctionOnSet(outside(r), Obligations)
  <2>1. reserves'[r].outside = others.outside[r] + t.o.onDebt[r]
    BY <1>1, <1>2 DEF Adds, AddsIn
  <2>2. \A i \in Obligations : outside(r)[i] \in Int BY <1>4 DEF ObligationRecords
  <2>3. outside(r)[id] = t.o.onDebt[r] BY <1>3
  <2>4. \A i \in Obligations \ {id} : outside(r)[i] = OutsideOf(r)[i] BY <1>3 DEF OutsideOf
  <2> HIDE DEF outside
  <2>5. SumFunctionOnSet(outside(r), Obligations)
          = outside(r)[id] + SumFunctionOnSet(outside(r), Obligations \ {id})
    BY <2>2, FiniteObligations, SumRemove
  <2>6. SumFunctionOnSet(outside(r), Obligations \ {id})
          = SumFunctionOnSet(OutsideOf(r), Obligations \ {id})
    BY <2>4, FiniteObligations, SumCongruence
  <2>7. others.outside[r] = SumFunctionOnSet(OutsideOf(r), Obligations \ {id})
    BY DEF OthersOf
  <2>8. others.outside[r] \in Int /\ outside(r)[id] \in Int BY <2>2, OthersFacts DEF Others
  <2> HIDE DEF others
  <2> QED BY <2>1, <2>3, <2>5, <2>6, <2>7, <2>8
<1>6. ASSUME NEW r \in Reserves, NEW g \in Groups
      PROVE  reserves'[r].against[g] = SumFunctionOnSet(against(r, g), Obligations)
  <2>1. reserves'[r].against[g] = others.against[r][g]
                                  + (IF g = t.o.group THEN t.o.onShares[r] ELSE 0)
    BY <1>1, <1>2 DEF Adds, AddsIn
  <2>2. \A i \in Obligations : against(r, g)[i] \in Int BY <1>4 DEF ObligationRecords
  <2>3. against(r, g)[id] = IF g = t.o.group THEN t.o.onShares[r] ELSE 0 BY <1>3
  <2>4. \A i \in Obligations \ {id} : against(r, g)[i] = AgainstOf(r, g)[i]
    BY <1>3 DEF AgainstOf
  <2> HIDE DEF against
  <2>5. SumFunctionOnSet(against(r, g), Obligations)
          = against(r, g)[id] + SumFunctionOnSet(against(r, g), Obligations \ {id})
    BY <2>2, FiniteObligations, SumRemove
  <2>6. SumFunctionOnSet(against(r, g), Obligations \ {id})
          = SumFunctionOnSet(AgainstOf(r, g), Obligations \ {id})
    BY <2>4, FiniteObligations, SumCongruence
  <2>7. others.against[r][g] = SumFunctionOnSet(AgainstOf(r, g), Obligations \ {id})
    BY DEF OthersOf
  <2>8. others.against[r][g] \in Int /\ against(r, g)[id] \in Int
    BY <2>2, OthersFacts DEF Others
  <2> HIDE DEF others
  <2> QED BY <2>1, <2>3, <2>5, <2>6, <2>7, <2>8
<1> QED BY <1>5, <1>6 DEF AddUp, OutsideOf, AgainstOf

\* Time passes for every obligation and changes no tracker.
LEMMA UncountedAdds ==
  ASSUME AddUp, reserves' = reserves,
         \A id \in Obligations : /\ obligations'[id].group = obligations[id].group
                                 /\ obligations'[id].onDebt = obligations[id].onDebt
                                 /\ obligations'[id].onShares = obligations[id].onShares
  PROVE  AddUp'
<1>1. ASSUME NEW r \in Reserves PROVE OutsideOf(r)' = OutsideOf(r) BY DEF OutsideOf
<1>2. ASSUME NEW r \in Reserves, NEW g \in Groups PROVE AgainstOf(r, g)' = AgainstOf(r, g)
  BY DEF AgainstOf
<1> QED BY <1>1, <1>2 DEF AddUp

LEMMA InitAddUp == Init => AddUp
<1> SUFFICES ASSUME Init PROVE AddUp OBVIOUS
<1>1. ASSUME NEW r \in Reserves
      PROVE  SumFunctionOnSet(OutsideOf(r), Obligations) = 0
  <2>1. \A id \in Obligations : OutsideOf(r)[id] = 0
    BY DEF Init, OutsideOf, NewObligation, Zeros
  <2> QED BY <2>1, FiniteObligations, SumZero
<1>2. ASSUME NEW r \in Reserves, NEW g \in Groups
      PROVE  SumFunctionOnSet(AgainstOf(r, g), Obligations) = 0
  <2>1. \A id \in Obligations : AgainstOf(r, g)[id] = 0
    BY DEF Init, AgainstOf, NewObligation, Zeros
  <2> QED BY <2>1, FiniteObligations, SumZero
<1> QED BY <1>1, <1>2 DEF Init, AddUp

LEMMA NextAddsUp == IInv /\ AddUp /\ [Next]_vars => AddUp'
<1> SUFFICES ASSUME IInv, AddUp, [Next]_vars PROVE AddUp'
  OBVIOUS
<1>0. TypeOK /\ TypeOK' BY NextKeeps DEF Kept, IInv
<1>1. CASE NextSlot
  <2>1. \A id \in Obligations : /\ obligations'[id].group = obligations[id].group
                                /\ obligations'[id].onDebt = obligations[id].onDebt
                                /\ obligations'[id].onShares = obligations[id].onShares
    BY <1>0, <1>1 DEF NextSlot, TypeOK, ObligationRecords
  <2> QED BY <1>1, <2>1, UncountedAdds DEF NextSlot
<1>2. CASE UNCHANGED vars BY <1>2, UncountedAdds DEF vars
<1>3. ASSUME NEW id \in Obligations,
             \/ RefreshObligation(id)
             \/ \E g \in Groups \cup {NoGroup} : RequestElevationGroup(id, g)
      PROVE  AddUp'
  <2>1. OthersOf(id) \in Others /\ Adds(View(id), OthersOf(id)) BY <1>0, OthersFacts, ViewAdds
  <2>2. Counted(id, OthersOf(id))
    BY <1>3, <2>1, RefreshObligationAdds, RequestElevationGroupAdds
  <2> QED BY <1>0, <2>2, CommittedAdds
<1>4. ASSUME NEW id \in Obligations, NEW r \in Reserves, NEW amount \in Shares,
             \/ DepositCollateral(id, r, amount)
             \/ WithdrawCollateral(id, r, amount)
             \/ \E w \in Reserves, withdrawn \in Shares :
                  DepositAndWithdraw(id, r, amount, w, withdrawn)
      PROVE  AddUp'
  <2>1. OthersOf(id) \in Others /\ Adds(View(id), OthersOf(id)) BY <1>0, OthersFacts, ViewAdds
  <2>2. Shares \subseteq Nat \ {0} BY ElevationGroupsAssumption
  <2>3. Counted(id, OthersOf(id))
    BY <1>4, <2>1, <2>2, DepositCollateralAdds, WithdrawCollateralAdds, DepositAndWithdrawAdds
  <2> QED BY <1>0, <2>3, CommittedAdds
<1>5. ASSUME NEW id \in Obligations, NEW r \in Reserves, NEW amount \in Tokens,
             RepayLiquidity(id, r, amount) \/ SocializeLoss(id, r, amount)
      PROVE  AddUp'
  <2>1. OthersOf(id) \in Others /\ Adds(View(id), OthersOf(id)) BY <1>0, OthersFacts, ViewAdds
  <2>2. Tokens \subseteq Nat \ {0} BY ElevationGroupsAssumption
  <2>3. Counted(id, OthersOf(id)) BY <1>5, <2>1, <2>2, RepaidAdds
  <2> QED BY <1>0, <2>3, CommittedAdds
<1>6. ASSUME NEW id \in Obligations, NEW r \in Reserves, NEW amount \in Sums,
             \/ BorrowLiquidity(id, r, amount)
             \/ \E w \in Reserves, withdrawn \in Shares : Liquidate(id, r, amount, w, withdrawn)
      PROVE  AddUp'
  <2>1. OthersOf(id) \in Others /\ Adds(View(id), OthersOf(id)) BY <1>0, OthersFacts, ViewAdds
  <2>2. Sums \subseteq Nat \ {0} /\ Shares \subseteq Nat \ {0} BY ElevationGroupsAssumption
  <2>3. Counted(id, OthersOf(id)) BY <1>6, <2>1, <2>2, BorrowLiquidityAdds, LiquidateAdds
  <2> QED BY <1>0, <2>3, CommittedAdds
<1> QED BY <1>1, <1>2, <1>3, <1>4, <1>5, <1>6 DEF Next

\* Over the obligations of a group, or over all of them, of which the others count 0.
LEMMA AddUpIsTrackersAddUp == TypeOK /\ AddUp => TrackersAddUp
<1> SUFFICES ASSUME TypeOK, AddUp, NEW r \in Reserves
             PROVE  /\ reserves[r].outside =
                         SumFunction([id \in Obligations |-> obligations[id].onDebt[r]])
                    /\ \A g \in Groups :
                         reserves[r].against[g] =
                           SumFunctionOnSet([id \in Obligations |-> obligations[id].onShares[r]],
                                            {id \in Obligations : obligations[id].group = g})
  BY DEF TrackersAddUp
<1>1. reserves[r].outside = SumFunction([id \in Obligations |-> obligations[id].onDebt[r]])
  BY DEF AddUp, OutsideOf, SumFunction, SumFunctionOnSet
<1>2. ASSUME NEW g \in Groups
      PROVE  reserves[r].against[g] =
               SumFunctionOnSet([id \in Obligations |-> obligations[id].onShares[r]],
                                {id \in Obligations : obligations[id].group = g})
  <2> DEFINE shares == [id \in Obligations |-> obligations[id].onShares[r]]
             members == {id \in Obligations : obligations[id].group = g}
  <2>1. IsFiniteSet(members) /\ members \in SUBSET Obligations
    BY FS_Subset, FiniteObligations
  <2>2. /\ \A id \in Obligations \ members : AgainstOf(r, g)[id] = 0
        /\ \A id \in members : AgainstOf(r, g)[id] = shares[id]
    BY DEF AgainstOf
  <2>3. \A id \in Obligations : AgainstOf(r, g)[id] \in Int BY TermTypes
  <2> HIDE DEF members, shares
  <2>4. SumFunctionOnSet(AgainstOf(r, g), Obligations) = SumFunctionOnSet(AgainstOf(r, g), members)
    BY <2>1, <2>2, <2>3, FiniteObligations, SumRestricted
  <2>5. SumFunctionOnSet(AgainstOf(r, g), members) = SumFunctionOnSet(shares, members)
    BY <2>1, <2>2, SumCongruence
  <2>6. reserves[r].against[g] = SumFunctionOnSet(shares, members)
    BY <2>4, <2>5 DEF AddUp
  <2> QED BY <2>6 DEF shares, members
<1> QED BY <1>1, <1>2

\* Trackers are a token off at most, and so a total is one off for each of its terms.
LEMMA AddUpIsNear == IInv /\ TrackersAddUp => TotalsNearDebts
<1> SUFFICES ASSUME IInv, TrackersAddUp PROVE TotalsNearDebts OBVIOUS
<1> DEFINE Debts(d) == [id \in Obligations |-> ToCeil(obligations[id].debts[d])]
           OnDebt(r) == [id \in Obligations |-> obligations[id].onDebt[r]]
           OnShares(r) == [id \in Obligations |-> obligations[id].onShares[r]]
           Near(total, owing, d) ==
             total - SumFunctionOnSet(Debts(d), owing) \in -Cardinality(owing)..Cardinality(owing)
<1>1. ASSUME NEW id \in Obligations
      PROVE  obligations[id] \in ObligationRecords /\ Tracked(obligations[id], 1)
  BY DEF IInv, TypeOK, Good
<1>2. ASSUME NEW r \in Reserves, NEW id \in Obligations
      PROVE  Debts(r)[id] \in Int /\ OnDebt(r)[id] \in Int /\ OnShares(r)[id] \in Int
  <2>1. /\ obligations[id].debts[r] \in Nat /\ obligations[id].onDebt[r] \in Nat
        /\ obligations[id].onShares[r] \in Nat
    BY <1>1 DEF ObligationRecords
  <2>2. ToCeil(obligations[id].debts[r]) \in Nat BY <2>1, CeilType
  <2> QED BY <2>1, <2>2
<1>3. ASSUME NEW r \in Reserves
      PROVE  Near(reserves[r].outside, OwingOutside(r), r)
  <2> DEFINE owing == OwingOutside(r)
  <2>1. reserves[r].outside = SumFunctionOnSet(OnDebt(r), Obligations)
    BY DEF TrackersAddUp, SumFunction, SumFunctionOnSet
  <2>2. owing \in SUBSET Obligations /\ IsFiniteSet(owing)
    BY FS_Subset, FiniteObligations DEF OwingOutside
  <2>3. \A id \in Obligations \ owing : OnDebt(r)[id] = 0
    <3>1. ASSUME NEW id \in Obligations, id \notin owing PROVE obligations[id].onDebt[r] = 0
      BY <1>1, <3>1 DEF OwingOutside, Tracked
    <3> QED BY <3>1
  <2>4. \A id \in owing : OnDebt(r)[id] - Debts(r)[id] \in -1..1
    <3>1. ASSUME NEW id \in owing
          PROVE  obligations[id].onDebt[r] - ToCeil(obligations[id].debts[r]) \in -1..1
      <4>1. id \in Obligations /\ ~InGroup(obligations[id]) /\ r \in Borrows(obligations[id])
        BY DEF OwingOutside
      <4> QED BY <1>1, <4>1 DEF Tracked
    <3> QED BY <2>2, <3>1
  <2>5. \A id \in Obligations : OnDebt(r)[id] \in Int /\ Debts(r)[id] \in Int BY <1>2
  <2> DEFINE f == OnDebt(r)
             g == Debts(r)
  <2> HIDE DEF f, g, owing
  <2>6. SumFunctionOnSet(f, Obligations) = SumFunctionOnSet(f, owing)
    BY <2>2, <2>3, <2>5, FiniteObligations, SumRestricted DEF f
  <2>7. \A id \in owing : f[id] \in Int /\ g[id] \in Int /\ f[id] - g[id] \in -1..1
    BY <2>2, <2>4, <2>5 DEF f, g
  <2>8. SumFunctionOnSet(f, owing) - SumFunctionOnSet(g, owing)
          \in -Cardinality(owing)..Cardinality(owing)
    BY <2>2, <2>7, SumNear
  <2> QED BY <2>1, <2>6, <2>8 DEF f, g, owing
<1>4. ASSUME NEW r \in Reserves, NEW h \in Groups
      PROVE  Near(reserves[r].against[h], OwingAgainst(r, h), DebtReserve[h])
  <2> DEFINE members == {id \in Obligations : obligations[id].group = h}
             owing == OwingAgainst(r, h)
             f == OnShares(r)
             g == Debts(DebtReserve[h])
  <2>1. reserves[r].against[h] = SumFunctionOnSet(f, members) BY DEF TrackersAddUp
  <2>2. /\ members \in SUBSET Obligations /\ IsFiniteSet(members)
        /\ owing \in SUBSET members /\ IsFiniteSet(owing)
    BY FS_Subset, FiniteObligations DEF OwingAgainst
  <2>3. \A id \in members : InGroup(obligations[id])
    BY ConstantTypes DEF InGroup
  <2>4. \A id \in members \ owing : f[id] = 0
    <3>1. ASSUME NEW id \in members, id \notin owing PROVE obligations[id].onShares[r] = 0
      <4>1. id \in Obligations /\ r \notin Deposits(obligations[id]) BY <3>1 DEF OwingAgainst
      <4> QED BY <1>1, <4>1 DEF Tracked
    <3> QED BY <3>1
  <2>5. \A id \in owing : f[id] - g[id] \in -1..1
    <3>1. ASSUME NEW id \in owing
          PROVE  obligations[id].onShares[r] - ToCeil(obligations[id].debts[DebtReserve[h]])
                   \in -1..1
      <4>1. /\ id \in Obligations /\ obligations[id].group = h
            /\ r \in Deposits(obligations[id]) /\ InGroup(obligations[id])
        BY <2>2, <2>3 DEF OwingAgainst
      <4> QED BY <1>1, <4>1 DEF Tracked
    <3> QED BY <2>2, <3>1
  <2>6. \A id \in Obligations : f[id] \in Int /\ g[id] \in Int BY <1>2, ConstantTypes
  <2> HIDE DEF f, g, owing, members
  <2>7. SumFunctionOnSet(f, members) = SumFunctionOnSet(f, owing)
    BY <2>2, <2>4, <2>6, SumRestricted
  <2>8. \A id \in owing : f[id] \in Int /\ g[id] \in Int /\ f[id] - g[id] \in -1..1
    BY <2>2, <2>5, <2>6
  <2>9. SumFunctionOnSet(f, owing) - SumFunctionOnSet(g, owing)
          \in -Cardinality(owing)..Cardinality(owing)
    BY <2>2, <2>8, SumNear
  <2> QED BY <2>1, <2>7, <2>9 DEF g, owing
<1> QED BY <1>3, <1>4 DEF TotalsNearDebts

\* The debt tracked by a reserve is the sum of what the positions of all obligations
\* contributed to it: no handler of lending_operations.rs forgets one, counts it twice
\* or leaves it behind in a group.
THEOREM TrackersAlwaysAddUp == Spec => []TrackersAddUp
<1>1. Init => AddUp BY InitAddUp
<1>2. IInv /\ AddUp /\ [Next]_vars => AddUp' BY NextAddsUp
<1>3. IInv /\ AddUp => TrackersAddUp BY AddUpIsTrackersAddUp DEF IInv
<1> QED BY <1>1, <1>2, <1>3, Invariance, PTL DEF Spec

\* What the limits of update_elevation_group_debt_trackers_on_borrow and of
\* check_elevation_group_borrow_limit_constraints are compared with is what is owed, but
\* for one token per obligation.
THEOREM TotalsStayNear == Spec => []TotalsNearDebts
<1>1. IInv /\ TrackersAddUp => TotalsNearDebts BY AddUpIsNear
<1> QED BY <1>1, Invariance, TrackersAlwaysAddUp, PTL
==============================================================================
