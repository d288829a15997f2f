------------------------- MODULE RewardShares_proofs -------------------------
(***************************************************************************)
(* Proofs that the lazy accumulator credits every staker the eager share   *)
(* of RewardShares, up to rounding.  Only whole units are added to the     *)
(* accumulator, so the bounds themselves are not inductive: the invariant  *)
(* compares what is booked for a staker at the last update, with the       *)
(* emission since then still undivided.                                    *)
(***************************************************************************)
EXTENDS RewardShares, Escrow_proofs, Stakes_proofs

-----------------------------------------------------------------------------
(* Arithmetic.  S is the scale, P the precision factor, T the total stake, *)
(* n one of the stakes, due what was emitted since the last update.        *)

LEMMA ProductsNat == \A a \in Nat, b \in Nat : a * b \in Nat
  OBVIOUS

LEMMA ProductsInt == \A a \in Int, b \in Int : a * b \in Int
  OBVIOUS

LEMMA NoneTimes == \A a \in Nat : 0 * a = 0
  OBVIOUS

(* The quotient is the accumulator's step: at most the exact one, and less *)
(* than one unit below it.                                                 *)
LEMMA QuotientBounds ==
    ASSUME NEW P \in Nat, NEW T \in Nat \ {0}, NEW due \in Nat,
           NEW step, step = (due * P) \div T
    PROVE  /\ step \in Nat /\ due * P \in Nat
           /\ T * step <= due * P /\ due * P <= T * step + T
<1> DEFINE m == due * P
<1>1. m \in Nat
  OBVIOUS
<1>2. step = m \div T
  OBVIOUS
<1> HIDE DEF m
<1>3. step \in Nat /\ T * step <= m /\ m - T * step <= T - 1
  BY <1>1, <1>2, FloorBounds
<1>4. T * step \in Int
  BY <1>3
<1> QED
  BY <1>1, <1>3, <1>4 DEF m

LEMMA Widens ==
    ASSUME NEW k \in Nat, NEW a \in Int, NEW b \in Int, a <= b
    PROVE  k * a \in Int /\ k * b \in Int /\ k * a <= k * b
  OBVIOUS

(* An inequality may be divided by the total.                              *)
LEMMA Cancels ==
    ASSUME NEW T \in Nat \ {0}, NEW a \in Int, NEW b \in Int, T * a <= T * b
    PROVE  a <= b
<1>1. SUFFICES ASSUME b + 1 <= a PROVE FALSE
  OBVIOUS
<1>2. T * (b + 1) <= T * a /\ T * a \in Int
  BY <1>1, Widens
<1>3. T * (b + 1) = T * b + T * 1 /\ T * b \in Int /\ T * 1 = T
  BY Products
<1> QED
  BY <1>2, <1>3

(* The update moves what is outstanding, n * due out of T, into the        *)
(* booked amount.                                                          *)
LEMMA UpdateAtMost ==
    ASSUME NEW S \in Nat, NEW P \in Nat, NEW T \in Nat \ {0}, NEW n \in Nat, NEW due \in Nat,
           NEW step, step = (due * P) \div T, NEW booked \in Int, NEW most \in Int,
           T * (S * booked) + S * (P * (n * due)) <= T * most
    PROVE  S * (booked + n * step) <= most
<1>1. step \in Nat /\ due * P \in Nat /\ T * step <= due * P
  BY QuotientBounds
<1>2. n * (T * step) <= n * (due * P) /\ n * (T * step) \in Int /\ n * (due * P) \in Int
  BY <1>1, Widens
<1>3. S * (n * (T * step)) <= S * (n * (due * P))
      /\ S * (n * (T * step)) \in Int /\ S * (n * (due * P)) \in Int
  BY <1>2, Widens
<1>4. S * (n * (due * P)) = S * (P * (n * due))
  OBVIOUS
<1>5. /\ S * booked \in Int /\ S * (n * step) \in Int /\ S * (booked + n * step) \in Int
      /\ S * (booked + n * step) = S * booked + S * (n * step)
  BY <1>1
<1>6. T * (S * (n * step)) = S * (n * (T * step))
  BY <1>1
<1>7. /\ T * (S * (booked + n * step)) = T * (S * booked) + T * (S * (n * step))
      /\ T * (S * booked) \in Int /\ T * most \in Int
  BY <1>5, Products
<1>8. T * (S * (booked + n * step)) <= T * most
  BY <1>3, <1>4, <1>6, <1>7
<1> QED
  BY <1>5, <1>8, Cancels

LEMMA UpdateAtLeast ==
    ASSUME NEW S \in Nat, NEW P \in Nat, NEW T \in Nat \ {0}, NEW n \in Nat, NEW due \in Nat,
           NEW step, step = (due * P) \div T, NEW booked \in Int, NEW least \in Int,
           T * least <= T * (S * booked) + S * (P * (n * due))
    PROVE  least - S * n <= S * (booked + n * step)
<1>1. step \in Nat /\ due * P \in Nat /\ due * P <= T * step + T /\ T * step + T \in Nat
  BY QuotientBounds
<1>2. n * (due * P) <= n * (T * step + T) /\ n * (T * step + T) \in Int /\ n * (due * P) \in Int
  BY <1>1, Widens
<1>3. S * (n * (due * P)) <= S * (n * (T * step + T))
      /\ S * (n * (T * step + T)) \in Int /\ S * (n * (due * P)) \in Int
  BY <1>2, Widens
<1>4. S * (n * (due * P)) = S * (P * (n * due))
  OBVIOUS
<1>5. S * (n * (T * step + T)) = T * (S * (n * step)) + T * (S * n)
  BY <1>1
<1>6. /\ S * booked \in Int /\ S * (n * step) \in Int /\ S * n \in Int
      /\ S * (booked + n * step) \in Int /\ least - S * n \in Int
      /\ S * (booked + n * step) = S * booked + S * (n * step)
  BY <1>1
<1>7. /\ T * (S * (booked + n * step)) = T * (S * booked) + T * (S * (n * step))
      /\ T * (least - S * n) = T * least - T * (S * n)
  BY <1>6, Products
<1>8. /\ T * (S * booked) \in Int /\ T * (S * (n * step)) \in Int /\ T * (S * n) \in Int
      /\ T * least \in Int
  BY <1>6, Products
<1>9. T * (least - S * n) <= T * (S * (booked + n * step))
  BY <1>3, <1>4, <1>5, <1>7, <1>8
<1> QED
  BY <1>6, <1>9, Cancels

(* Settling a reward pays whole units, and the debt of the new stake is    *)
(* rounded down: the booked amount moves by less than one unit, and not at *)
(* all for the same stake.                                                 *)
LEMMA SettledBooked ==
    ASSUME NEW P \in Nat \ {0}, NEW k \in Nat, NEW l \in Nat, NEW debt \in Nat,
           NEW received \in Int, NEW owed, owed = k \div P - debt,
           NEW before, before = P * received + (k - P * debt),
           NEW after, after = P * (received + owed) + (l - P * (l \div P))
    PROVE  /\ before \in Int /\ after \in Int
           /\ after <= before + (P - 1) /\ before <= after + (P - 1)
           /\ l = k => after = before
<1>1. /\ k \div P \in Nat /\ P * (k \div P) <= k /\ k - P * (k \div P) <= P - 1
      /\ l \div P \in Nat /\ P * (l \div P) <= l /\ l - P * (l \div P) <= P - 1
  BY FloorBounds
<1> DEFINE x == k \div P
           y == l \div P
<1>2. l = k => y = x
  OBVIOUS
<1> HIDE DEF x, y
<1>3. /\ x \in Nat /\ P * x <= k /\ k - P * x <= P - 1
      /\ y \in Nat /\ P * y <= l /\ l - P * y <= P - 1
      /\ owed = x - debt /\ owed \in Int
      /\ after = P * (received + owed) + (l - P * y)
  BY <1>1 DEF x, y
<1>4. P * (received + owed) = P * received + P * owed /\ P * owed = P * x - P * debt
  BY <1>3, Products
<1>5. P * received \in Int /\ P * x \in Int /\ P * debt \in Int /\ P * y \in Int
  BY <1>3, Products
<1>6. /\ before = P * received + (k - P * debt)
      /\ after = P * received + (P * x - P * debt) + (l - P * y)
  BY <1>3, <1>4
<1> QED
  BY <1>2, <1>3, <1>5, <1>6

(* A slot adds rate to what is due, and to the eager share its quotient.   *)
LEMMA SlotProducts ==
    ASSUME NEW S \in Nat, NEW P \in Nat, NEW n \in Nat, NEW rate \in Nat, NEW due \in Nat
    PROVE  /\ S * (P * (n * (due + rate))) = S * (P * (n * due)) + P * (rate * S * n)
           /\ S * (P * (n * due)) \in Nat /\ rate * S * n \in Nat /\ P * (rate * S * n) \in Nat
<1>1. /\ n * due \in Nat /\ n * rate \in Nat /\ n * (due + rate) = n * due + n * rate
  BY ProductsNat, Products
<1>2. /\ P * (n * due) \in Nat /\ P * (n * rate) \in Nat
      /\ P * (n * (due + rate)) = P * (n * due) + P * (n * rate)
  BY <1>1, ProductsNat, Products
<1>3. S * (P * (n * (due + rate))) = S * (P * (n * due)) + S * (P * (n * rate))
  BY <1>2, Products
<1>4. S * (P * (n * rate)) = P * (rate * S * n)
  OBVIOUS
<1>5. S * (P * (n * due)) \in Nat /\ rate * S \in Nat
  BY <1>2, ProductsNat
<1>6. rate * S * n \in Nat
  BY <1>5, ProductsNat
<1> QED
  BY <1>3, <1>4, <1>5, <1>6, ProductsNat

LEMMA SlotBounds ==
    ASSUME NEW S \in Nat, NEW P \in Nat, NEW T \in Nat \ {0}, NEW n \in Nat,
           NEW rate \in Nat, NEW due \in Nat,
           NEW earned, earned = (rate * S * n) \div T,
           NEW credit \in Int, NEW most \in Int, NEW least \in Int,
           T * credit + S * (P * (n * due)) <= T * most,
           T * least <= T * credit + S * (P * (n * due))
    PROVE  /\ earned \in Nat
           /\ T * credit + S * (P * (n * (due + rate))) <= T * (most + P * (earned + 1))
           /\ T * (least + P * earned) <= T * credit + S * (P * (n * (due + rate)))
<1> DEFINE m == rate * S * n
<1>1. m \in Nat
  BY SlotProducts
<1>2. earned = m \div T
  OBVIOUS
<1>3. /\ S * (P * (n * (due + rate))) = S * (P * (n * due)) + P * m
      /\ S * (P * (n * due)) \in Nat /\ P * m \in Nat
  BY SlotProducts
<1> HIDE DEF m
<1>4. earned \in Nat /\ T * earned <= m /\ m - T * earned <= T - 1
  BY <1>1, <1>2, FloorBounds
<1>5. T * earned \in Nat /\ T * (earned + 1) = T * earned + T * 1 /\ T * 1 = T
  BY <1>4, ProductsNat, Products
<1>6. T * earned <= m /\ m <= T * (earned + 1) /\ T * (earned + 1) \in Int
  BY <1>1, <1>4, <1>5
<1>7. P * (T * earned) <= P * m /\ P * m <= P * (T * (earned + 1))
  BY <1>1, <1>5, <1>6, Widens
<1>8. P * (T * earned) = T * (P * earned) /\ P * (T * (earned + 1)) = T * (P * (earned + 1))
  BY <1>4
<1>9. P * earned \in Int /\ P * (earned + 1) \in Int
  BY <1>4, Products
<1>10. /\ T * (most + P * (earned + 1)) = T * most + T * (P * (earned + 1))
       /\ T * (least + P * earned) = T * least + T * (P * earned)
       /\ T * most \in Int /\ T * least \in Int /\ T * credit \in Int
       /\ T * (P * earned) \in Int /\ T * (P * (earned + 1)) \in Int
  BY <1>9, Products
<1> QED
  BY <1>3, <1>4, <1>7, <1>8, <1>10

-----------------------------------------------------------------------------
(* The invariant.                                                          *)

ShareTypes ==
    /\ share \in [Users -> Nat]
    /\ rounded \in [Users -> Nat]
    /\ dust \in [Users -> Nat]

(* What was emitted since the accumulator was last brought up to date.     *)
Due == IF IsStale(pool_state, slot) THEN Emitted(pool_config, pool_state, slot) ELSE 0

Received(u) == tokens[RewardAccount(u)] - InitialTokens[RewardAccount(u)]

(* What the user was paid and has accrued, before the division by the      *)
(* precision factor, and times the scale of the shares.                    *)
Booked(u, ps) == PrecisionFactor * Received(u) + Unpaid(ps)[u]
Credit(u) == ShareScale * Booked(u, pool_state)

(* The bounds of the two properties.                                       *)
AtMost(u) ==
    PrecisionFactor * (share[u] + slot) + ShareScale * ((PrecisionFactor - 1) * rounded[u])
AtLeast(u) ==
    PrecisionFactor * share[u] - ShareScale * ((PrecisionFactor - 1) * rounded[u] + dust[u])

(* What the stake of the user is due of the emission since the last        *)
(* update, times the total stake.                                          *)
Outstanding(u) == ShareScale * (PrecisionFactor * (user_info[u].staked_amount * Due))

FairTo(u) ==
    LET total == pool_state.total_staked
    IN  /\ Credit(u) <= AtMost(u)
        /\ total * Credit(u) + Outstanding(u) <= total * AtMost(u)
        /\ total = 0 => AtLeast(u) <= Credit(u)
        /\ total * AtLeast(u) <= total * Credit(u) + Outstanding(u)

FairToAll == \A u \in Users : FairTo(u)

LEMMA BookedType ==
    ASSUME TypeOK, HasPrecision, NEW u \in Users, NEW ps, ps.acc_token_per_share \in Nat
    PROVE  /\ Booked(u, ps) \in Int /\ Received(u) \in Int
           /\ Booked(u, ps) = PrecisionFactor * Received(u)
                    + (user_info[u].staked_amount * ps.acc_token_per_share
                        - PrecisionFactor * user_info[u].reward_debt)
<1>1. /\ user_info[u].staked_amount \in Nat /\ user_info[u].reward_debt \in Nat
      /\ PrecisionFactor \in Nat
  BY SolvencyTypes, PrecisionFactorType
<1>2. Received(u) \in Int
  BY AccountTypes, InitialAssumption DEF TypeOK, Received
<1>3. Booked(u, ps) = PrecisionFactor * Received(u)
                    + (user_info[u].staked_amount * ps.acc_token_per_share
                        - PrecisionFactor * user_info[u].reward_debt)
  BY DEF Booked, Unpaid
<1>4. /\ PrecisionFactor * Received(u) \in Int
      /\ user_info[u].staked_amount * ps.acc_token_per_share \in Int
      /\ PrecisionFactor * user_info[u].reward_debt \in Int
  BY <1>1, <1>2, ProductsInt
<1> QED
  BY <1>2, <1>3, <1>4

LEMMA BoundTypes ==
    TypeOK /\ ShareTypes /\ HasPrecision => \A u \in Users :
        /\ AtMost(u) \in Int /\ AtLeast(u) \in Int /\ Credit(u) \in Int /\ Due \in Nat
        /\ pool_state.total_staked \in Nat /\ Booked(u, pool_state) \in Int
<1> SUFFICES ASSUME TypeOK, ShareTypes, HasPrecision, NEW u \in Users
             PROVE  /\ AtMost(u) \in Int /\ AtLeast(u) \in Int /\ Credit(u) \in Int
                    /\ Due \in Nat
                    /\ pool_state.total_staked \in Nat /\ Booked(u, pool_state) \in Int
  OBVIOUS
<1>1. /\ PrecisionFactor \in Nat \ {0} /\ ShareScale \in Nat /\ slot \in Nat
      /\ share[u] \in Nat /\ rounded[u] \in Nat /\ dust[u] \in Nat
      /\ pool_state.total_staked \in Nat /\ pool_state.acc_token_per_share \in Nat
  BY PrecisionFactorType, ScaleAssumption, ScheduleTypes DEF ShareTypes
<1>2. Due \in Nat
  BY EmittedNat DEF TypeOK, Due
<1>3. Booked(u, pool_state) \in Int /\ Credit(u) \in Int
  BY <1>1, BookedType, ProductsInt DEF Credit
<1>4. /\ PrecisionFactor * (share[u] + slot) \in Int /\ PrecisionFactor * share[u] \in Int
      /\ (PrecisionFactor - 1) * rounded[u] \in Int
      /\ (PrecisionFactor - 1) * rounded[u] + dust[u] \in Int
  <2>1. PrecisionFactor \in Int /\ PrecisionFactor - 1 \in Int /\ share[u] + slot \in Int
        /\ share[u] \in Int /\ rounded[u] \in Int
    BY <1>1
  <2>2. (PrecisionFactor - 1) * rounded[u] \in Int
    BY <2>1, ProductsInt
  <2> QED
    BY <1>1, <2>1, <2>2, ProductsInt
<1>5. /\ ShareScale * ((PrecisionFactor - 1) * rounded[u]) \in Int
      /\ ShareScale * ((PrecisionFactor - 1) * rounded[u] + dust[u]) \in Int
  BY <1>1, <1>4, ProductsInt
<1> QED
  BY <1>1, <1>2, <1>3, <1>4, <1>5 DEF AtMost, AtLeast

LEMMA BoundTypesNext ==
    TypeOK' /\ ShareTypes' /\ HasPrecision => \A u \in Users :
        /\ AtMost(u)' \in Int /\ AtLeast(u)' \in Int /\ Credit(u)' \in Int /\ Due' \in Nat
        /\ pool_state'.total_staked \in Nat /\ Booked(u, pool_state)' \in Int
<1>1. (TypeOK /\ ShareTypes /\ HasPrecision => \A u \in Users :
        /\ AtMost(u) \in Int /\ AtLeast(u) \in Int /\ Credit(u) \in Int /\ Due \in Nat
        /\ pool_state.total_staked \in Nat /\ Booked(u, pool_state) \in Int)'
  BY BoundTypes, PTL
<1>2. HasPrecision' <=> HasPrecision
  BY DEF HasPrecision
<1> QED
  BY <1>1, <1>2

(* With nothing due the bounds are those of the credit alone.              *)
LEMMA FairUpToDate ==
    ASSUME NEW S \in Nat, NEW P \in Nat, NEW n \in Nat, NEW T \in Nat,
           NEW credit \in Int, NEW most \in Int, NEW least \in Int
    PROVE  /\ credit <= most => T * credit + S * (P * (n * 0)) <= T * most
           /\ least <= credit => T * least <= T * credit + S * (P * (n * 0))
           /\ T * least <= T * credit + S * (P * (n * 0)) /\ T # 0 => least <= credit
<1>1. S * (P * (n * 0)) = 0
  <2>1. n * 0 = 0 /\ P * 0 = 0 /\ S * 0 = 0
    OBVIOUS
  <2> QED
    BY <2>1
<1>2. T * credit \in Int /\ T * most \in Int /\ T * least \in Int
  BY Products
<1> QED
  BY <1>1, <1>2, Widens, Cancels

(* Brought up to date, the credit is within the bounds; the lower one may  *)
(* need one more update than there has been, if that accrues anything.     *)
LEMMA UpdateFair ==
    ASSUME TypeOK, ShareTypes, HasPrecision, NEW u \in Users, FairTo(u)
    PROVE  /\ Updated.acc_token_per_share \in Nat
           /\ Booked(u, Updated) \in Int
           /\ ShareScale * Booked(u, Updated) <= AtMost(u)
           /\ AtLeast(u) - ShareScale * user_info[u].staked_amount
                    <= ShareScale * Booked(u, Updated)
           /\ Updated.should_total_paid = pool_state.should_total_paid
                    => AtLeast(u) <= ShareScale * Booked(u, Updated)
<1> DEFINE S == ShareScale
           P == PrecisionFactor
           T == pool_state.total_staked
           n == user_info[u].staked_amount
           acc == pool_state.acc_token_per_share
           booked == Booked(u, pool_state)
           most == AtMost(u)
           least == AtLeast(u)
<1>1. /\ S \in Nat /\ P \in Nat /\ T \in Nat /\ n \in Nat /\ acc \in Nat
      /\ booked \in Int /\ most \in Int /\ least \in Int /\ Due \in Nat
      /\ pool_state.should_total_paid \in Nat
  BY ScaleAssumption, PrecisionFactorType, ScheduleTypes, SolvencyTypes, BoundTypes
<1>2. /\ S * booked <= most /\ T * (S * booked) + S * (P * (n * Due)) <= T * most
      /\ T = 0 => least <= S * booked
      /\ T * least <= T * (S * booked) + S * (P * (n * Due))
  BY DEF FairTo, Credit, Outstanding
<1>3. S * n \in Nat /\ S * booked \in Int
  BY <1>1, ProductsNat, ProductsInt
<1>4. CASE ~IsStale(pool_state, slot) \/ T = 0
  <2>1. Updated.acc_token_per_share = acc
    BY <1>4, UpdatedFields
  <2>2. Booked(u, Updated) = booked
    BY <2>1 DEF Booked, Unpaid
  <2>3. least <= S * booked
    <3>1. CASE T = 0
      BY <1>2, <3>1
    <3>2. CASE T # 0
      <4>1. Due = 0
        BY <1>4, <3>2 DEF Due
      <4> HIDE DEF S, P, T, n, booked, most, least
      <4> QED
        BY <1>1, <1>2, <1>3, <3>2, <4>1, FairUpToDate
    <3> QED
      BY <3>1, <3>2
  <2>4. least - S * n <= S * booked
    <3> HIDE DEF S, n, booked, least
    <3> QED
      BY <1>1, <1>3, <2>3
  <2> QED
    BY <1>1, <1>2, <2>1, <2>2, <2>3, <2>4
<1>5. CASE IsStale(pool_state, slot) /\ T # 0
  <2> DEFINE step == (Due * P) \div T
  <2>1. Due = Emitted(pool_config, pool_state, slot)
    BY <1>5 DEF Due
  <2>2. /\ Updated.acc_token_per_share = acc + step
        /\ Updated.should_total_paid = pool_state.should_total_paid + Due
    BY <1>5, <2>1, UpdatedFields DEF AccPerShare
  <2>3. step \in Nat /\ acc + step \in Nat
    BY <1>1, <1>5, QuotientBounds
  <2>4. Booked(u, Updated) = booked + n * step
    <3>1. /\ Booked(u, Updated) = P * Received(u) + (n * (acc + step) - P * user_info[u].reward_debt)
          /\ booked = P * Received(u) + (n * acc - P * user_info[u].reward_debt)
          /\ Received(u) \in Int /\ user_info[u].reward_debt \in Nat
      BY <1>1, <2>2, <2>3, BookedType, SolvencyTypes
    <3> HIDE DEF P, n, acc, step, booked
    <3>2. n * (acc + step) = n * acc + n * step /\ n * acc \in Int /\ n * step \in Int
      BY <1>1, <2>3, Products
    <3>3. P * Received(u) \in Int /\ P * user_info[u].reward_debt \in Int
      BY <1>1, <3>1, ProductsInt
    <3> QED
      BY <3>1, <3>2, <3>3
  <2>5. S * (booked + n * step) <= most /\ least - S * n <= S * (booked + n * step)
    <3>1. step = (Due * P) \div T
      OBVIOUS
    <3> HIDE DEF S, P, T, n, booked, most, least, step
    <3>2. S * (booked + n * step) <= most
      BY <1>1, <1>2, <1>5, <3>1, UpdateAtMost
    <3>3. least - S * n <= S * (booked + n * step)
      BY <1>1, <1>2, <1>5, <3>1, UpdateAtLeast
    <3> QED
      BY <3>2, <3>3
  <2>6. ASSUME Updated.should_total_paid = pool_state.should_total_paid
        PROVE  least <= S * (booked + n * step)
    <3>1. Due = 0
      BY <1>1, <2>2, <2>6
    <3> HIDE DEF S, P, T, n, booked, most, least, step
    <3>2. least <= S * booked
      BY <1>1, <1>2, <1>3, <1>5, <3>1, FairUpToDate
    <3>3. n * step \in Nat
      BY <1>1, <2>3, ProductsNat
    <3>4. booked <= booked + n * step /\ booked + n * step \in Int
      BY <1>1, <3>3
    <3>5. S * booked <= S * (booked + n * step) /\ S * (booked + n * step) \in Int
      BY <1>1, <3>4, Widens
    <3> QED
      BY <1>1, <1>3, <3>2, <3>5
  <2>7. booked + n * step \in Int
    <3> HIDE DEF step, booked, n
    <3> QED
      BY <1>1, <2>3, ProductsInt
  <2> HIDE DEF step
  <2> QED
    BY <2>2, <2>3, <2>4, <2>5, <2>6, <2>7
<1> QED
  BY <1>1, <1>4, <1>5

(* What a credit between the bounds says of whole units.                   *)
LEMMA CreditedBounds ==
    ASSUME NEW S \in Nat, NEW P \in Nat \ {0}, NEW k \in Nat, NEW debt \in Nat,
           NEW received \in Int,
           NEW credited, credited = received + (k \div P - debt),
           NEW booked, booked = P * received + (k - P * debt)
    PROVE  /\ credited \in Int /\ booked \in Int
           /\ S * P * credited <= S * booked
           /\ S * booked <= S * (P * credited + (P - 1))
<1> DEFINE x == k \div P
<1>1. x \in Nat /\ P * x <= k /\ k - P * x <= P - 1 /\ credited = received + (x - debt)
  BY FloorBounds
<1> HIDE DEF x
<1>2. x - debt \in Int /\ credited \in Int
  BY <1>1
<1>3. P * credited = P * received + P * (x - debt) /\ P * (x - debt) = P * x - P * debt
  BY <1>1, <1>2, Products
<1>4. P * received \in Int /\ P * x \in Int /\ P * debt \in Int /\ P * credited \in Int
  BY <1>1, <1>2, ProductsInt
<1>5. /\ booked \in Int /\ P * credited + (P - 1) \in Int
      /\ P * credited <= booked /\ booked <= P * credited + (P - 1)
  BY <1>1, <1>3, <1>4
<1>6. S * (P * credited) <= S * booked /\ S * booked <= S * (P * credited + (P - 1))
  BY <1>4, <1>5, Widens
<1>7. S * P * credited = S * (P * credited)
  BY <1>2
<1> QED
  BY <1>2, <1>5, <1>6, <1>7

-----------------------------------------------------------------------------
(* What a step does to one staker.                                         *)

StaysPut(u) == user_info'[u] = user_info[u] /\ Received(u)' = Received(u)

Served(u) ==
    /\ Received(u)' = Received(u) + Owed(u)
    /\ \E staked : user_info' = [user_info EXCEPT ![u] = Restaked(Updated, @, staked)]

Attends == \A u \in Users : StaysPut(u) \/ (Settles /\ Served(u))

LEMMA MovedReceived ==
    ASSUME TypeOK, NEW u \in Users, NEW out, NEW kept, Moves(u, Owed(u), out, kept),
           Owed(u) \in Nat
    PROVE  /\ Received(u)' = Received(u) + Owed(u)
           /\ \A v \in Users \ {u} : Received(v)' = Received(v)
<1>1. \A v \in Users : tokens[RewardAccount(v)] \in Nat
                        /\ InitialTokens[RewardAccount(v)] \in Nat
  BY AccountTypes, InitialAssumption DEF TypeOK
<1>2. /\ tokens'[RewardAccount(u)] = tokens[RewardAccount(u)] + Owed(u)
      /\ \A v \in Users \ {u} : tokens'[RewardAccount(v)] = tokens[RewardAccount(v)]
  BY DEF Moves
<1> QED
  BY <1>1, <1>2 DEF Received

LEMMA ServesCaller ==
    ASSUME TwoMints, TypeOK, Settles, NEW u \in Users, NEW out, NEW kept, NEW staked,
           CanUpdate, CanSettle(u), Moves(u, Owed(u), out, kept),
           user_info' = [user_info EXCEPT ![u] = Restaked(Updated, @, staked)]
    PROVE  Attends
<1>1. /\ Received(u)' = Received(u) + Owed(u)
      /\ \A v \in Users \ {u} : Received(v)' = Received(v)
  BY MovedReceived, SettleType
<1>2. \A v \in Users \ {u} : user_info'[v] = user_info[v]
  BY DEF TypeOK
<1> QED
  BY <1>1, <1>2 DEF Attends, StaysPut, Served

LEMMA StakeServes ==
    ASSUME TwoMints, TypeOK, NEW u \in Users, NEW amount \in StakeAmounts, Stake(u, amount)
    PROVE  Attends
<1> DEFINE fee == Percent(amount, pool_config.stake_fee)
           staked == user_info[u].staked_amount + (amount - fee)
<1>1. /\ CanUpdate /\ CanSettle(u)
      /\ user_info' = [user_info EXCEPT ![u] = Restaked(Updated, @, staked)]
  BY DEF Stake
<1>2. Moves(u, Owed(u), amount, amount - fee)
  BY StakeMovesTokens
<1> QED
  BY <1>1, <1>2, StakeSettles, ServesCaller

LEMMA UnstakeServes ==
    ASSUME TwoMints, TypeOK, NEW u \in Users, NEW amount \in UnstakeAmounts,
           Unstake(u, amount)
    PROVE  Attends
<1> DEFINE fee == Percent(amount, pool_config.unstake_fee)
           staked == user_info[u].staked_amount - amount
<1>1. /\ CanUpdate /\ CanSettle(u)
      /\ user_info' = [user_info EXCEPT ![u] = Restaked(Updated, @, staked)]
  BY DEF Unstake
<1>2. Moves(u, Owed(u), fee - amount, 0 - amount)
  BY UnstakeMovesTokens
<1> QED
  BY <1>1, <1>2, UnstakeSettles, ServesCaller

LEMMA ClaimServes ==
    ASSUME TwoMints, TypeOK, NEW u \in Users, ClaimStaked(u)
    PROVE  Attends
<1>1. /\ CanUpdate /\ CanSettle(u)
      /\ user_info' = [user_info EXCEPT
                            ![u] = Restaked(Updated, @, user_info[u].staked_amount)]
  BY DEF ClaimStaked, TypeOK
<1> QED
  BY <1>1, ClaimMovesTokens, ClaimStakedSettles, ServesCaller

(* The creator funds and sweeps the pool from an account that is no        *)
(* staker's.                                                               *)
LEMMA FundMovesNobody ==
    ASSUME TwoMints, TypeOK, UNCHANGED user_info, NEW amount \in Nat,
           \/ tokens' = Transfer(tokens, RewardAccount(creator), pool_reward_token_vault, amount)
           \/ tokens' = Transfer(tokens, pool_reward_token_vault, RewardAccount(creator), amount)
    PROVE  Attends
<1>1. /\ RewardAccount(creator) \in TokenAccount /\ pool_reward_token_vault \in TokenAccount
      /\ RewardAccount(creator) # pool_reward_token_vault
  BY DistinctAccounts
<1>2. \A a \in TokenAccount \ {RewardAccount(creator), pool_reward_token_vault} :
            tokens'[a] = tokens[a]
  BY <1>1, TransferBalances DEF TypeOK
<1>3. \A u \in Users : tokens'[RewardAccount(u)] = tokens[RewardAccount(u)]
  BY <1>2, DistinctAccounts DEF TwoMints
<1> QED
  BY <1>3 DEF Attends, StaysPut, Received

LEMMA QuietMovesNobody ==
    ASSUME UNCHANGED << user_info, tokens >> PROVE Attends
  BY DEF Attends, StaysPut, Received

LEMMA AttendsStep == TwoMints /\ TypeOK /\ [StopNext]_vars => Attends
<1> SUFFICES ASSUME TwoMints, TypeOK, [StopNext]_vars PROVE Attends
  OBVIOUS
<1>1. UNCHANGED vars => Attends
  BY QuietMovesNobody DEF vars
<1>2. \A a \in DeployFees, b \in PerformanceFees : Initialize(a, b) => Attends
  BY QuietMovesNobody DEF Initialize
<1>3. ASSUME NEW a, NEW b, NEW funding \in Fundings, NEW rate, NEW duration,
             CreatePool(a, b, funding, rate, duration)
      PROVE  Attends
  <2>1. funding \in Nat
    BY ArgumentAssumption, UtilsAssumption DEF U64
  <2> QED
    BY <1>3, <2>1, FundMovesNobody DEF CreatePool
<1>4. StartReward => Attends
  BY QuietMovesNobody DEF StartReward
<1>5. \A u \in Users : CallWithoutStake(u) => Attends
  BY QuietMovesNobody DEF CallWithoutStake
<1>6. ASSUME StopReward PROVE Attends
  <2>1. Surplus(Updated) \in Nat
    <3>1. Updated \in PoolState
      BY <1>6, UpdatedType DEF StopReward
    <3> QED
      BY <3>1, UtilsAssumption
         DEF Surplus, SaturatingSub, AvailableRewardTokens, PoolState, U64
  <2> QED
    BY <1>6, <2>1, FundMovesNobody DEF StopReward
<1>7. Tick => Attends
  BY QuietMovesNobody DEF Tick
<1> QED
  BY <1>1, <1>2, <1>3, <1>4, <1>5, <1>6, <1>7, StakeServes, UnstakeServes, ClaimServes
     DEF StopNext, CoreNext, Setup, ClaimReward

-----------------------------------------------------------------------------
(* The invariant is kept.                                                  *)

Calls == Settles \/ Creates \/ StartReward

(* After a call the pool is up to date, whoever it was for.                *)
LEMMA CallUpToDate ==
    ASSUME TypeOK, TypeOK', Schedule, Calls
    PROVE  /\ slot' = slot /\ Due' = 0
           /\ pool_state'.acc_token_per_share = Updated.acc_token_per_share
           /\ pool_state'.should_total_paid = Updated.should_total_paid
<1>1. CASE Settles
  BY <1>1, SettledUpToDate DEF Settles, Due
<1>2. CASE Creates
  <2>1. /\ pool_config.start_slot = 0 /\ pool_state'.last_reward_slot = 0
        /\ pool_state'.acc_token_per_share = pool_state.acc_token_per_share
        /\ pool_state'.should_total_paid = pool_state.should_total_paid
    BY <1>2 DEF Creates, Schedule
  <2>2. ~IsStale(pool_state', slot') /\ Updated = pool_state
    BY <2>1, IdleUpToDate DEF IsStale
  <2> QED
    BY <1>2, <2>1, <2>2 DEF Creates, Due
<1>3. CASE StartReward
  <2>1. /\ pool_config.start_slot = 0 /\ slot' = slot /\ slot \in Nat
        /\ pool_state'.last_reward_slot \in Nat /\ pool_state'.last_reward_slot > slot'
        /\ pool_state'.acc_token_per_share = pool_state.acc_token_per_share
        /\ pool_state'.should_total_paid = pool_state.should_total_paid
    BY <1>3, StartRewardFields, ScheduleTypes
  <2>2. ~IsStale(pool_state', slot') /\ Updated = pool_state
    BY <2>1, IdleUpToDate DEF IsStale
  <2> QED
    BY <2>1, <2>2 DEF Due
<1> QED
  BY <1>1, <1>2, <1>3 DEF Calls

LEMMA SharesTypeStep ==
    ASSUME TypeOK, ShareTypes, SharesStep PROVE ShareTypes'
<1>1. ASSUME SlotPays, NEW u \in Users PROVE EarnedInSlot(u) \in Nat
  <2>1. /\ pool_config.reward_per_slot \in Nat /\ ShareScale \in Nat
        /\ user_info[u].staked_amount \in Nat /\ pool_state.total_staked \in Nat \ {0}
    BY <1>1, ScaleAssumption, ScheduleTypes, SolvencyTypes DEF SlotPays
  <2>2. pool_config.reward_per_slot * ShareScale * user_info[u].staked_amount \in Nat
    BY <2>1, ProductsNat
  <2> QED
    BY <2>1, <2>2, DivType DEF EarnedInSlot
<1>2. \A u \in Users : user_info[u].staked_amount \in Nat
  BY SolvencyTypes
<1>3. share' \in [Users -> Nat]
  BY <1>1 DEF SharesStep, ShareTypes
<1>4. rounded' \in [Users -> Nat]
  BY DEF SharesStep, ShareTypes
<1>5. dust' \in [Users -> Nat]
  BY <1>2 DEF SharesStep, ShareTypes
<1> QED
  BY <1>3, <1>4, <1>5 DEF ShareTypes

(* The history of a call: no slot ends, and the user's bounds are widened  *)
(* for a new stake and for an update that accrues something.               *)
LEMMA CallHistory ==
    ASSUME TypeOK, ShareTypes, ShareTypes', SharesStep, slot' = slot, HasPrecision,
           NEW u \in Users,
           NEW wider \in {0, 1},
           wider = 1 <=> user_info'[u].staked_amount # user_info[u].staked_amount
    PROVE  /\ AtMost(u)' = AtMost(u) + ShareScale * ((PrecisionFactor - 1) * wider)
           /\ \/ /\ pool_state'.should_total_paid = pool_state.should_total_paid
                 /\ AtLeast(u)' = AtLeast(u) - ShareScale * ((PrecisionFactor - 1) * wider)
              \/ AtLeast(u)' = AtLeast(u) - ShareScale * ((PrecisionFactor - 1) * wider)
                                    - ShareScale * user_info[u].staked_amount
<1> DEFINE S == ShareScale
           P == PrecisionFactor
           n == user_info[u].staked_amount
           r == rounded[u]
           d == dust[u]
<1>1. /\ S \in Nat /\ P \in Nat \ {0} /\ n \in Nat /\ r \in Nat /\ d \in Nat
      /\ share[u] \in Nat /\ slot \in Nat /\ wider \in Nat
  BY ScaleAssumption, PrecisionFactorType, SolvencyTypes, ScheduleTypes DEF ShareTypes
<1>2. ~SlotPays /\ share' = share
  BY <1>1 DEF SharesStep, SlotPays
<1>3. rounded'[u] = r + wider
  BY <1>1 DEF SharesStep
<1>4. \/ pool_state'.should_total_paid = pool_state.should_total_paid /\ dust'[u] = d
      \/ dust'[u] = d + n
  BY <1>1 DEF SharesStep, ShareTypes
<1>5. /\ AtMost(u)' = P * (share[u] + slot) + S * ((P - 1) * (r + wider))
      /\ AtMost(u) = P * (share[u] + slot) + S * ((P - 1) * r)
      /\ AtLeast(u)' = P * share[u] - S * ((P - 1) * (r + wider) + dust'[u])
      /\ AtLeast(u) = P * share[u] - S * ((P - 1) * r + d)
  BY <1>2, <1>3 DEF AtMost, AtLeast
<1> HIDE DEF S, P, n, r, d
<1> DEFINE q == P - 1
<1>6. /\ q \in Int /\ q * (r + wider) = q * r + q * wider
      /\ q * r \in Int /\ q * wider \in Int
  BY <1>1, Products
<1>7. /\ S * (q * r + q * wider) = S * (q * r) + S * (q * wider)
      /\ S * (q * r + d) = S * (q * r) + S * d
      /\ S * ((q * r + q * wider) + d) = S * (q * r + q * wider) + S * d
      /\ S * ((q * r + q * wider) + (d + n)) = S * (q * r + q * wider) + S * (d + n)
      /\ S * (d + n) = S * d + S * n
  BY <1>1, <1>6, Products
<1>8. /\ P * (share[u] + slot) \in Int /\ P * share[u] \in Int /\ S * (q * r) \in Int
      /\ S * (q * wider) \in Int /\ S * d \in Int /\ S * n \in Int
  <2>1. share[u] + slot \in Int /\ S \in Int /\ P \in Int /\ n \in Int /\ d \in Int
    BY <1>1
  <2> QED
    BY <1>1, <1>6, <2>1, ProductsInt
<1>9. AtMost(u)' = AtMost(u) + S * (q * wider)
  BY <1>5, <1>6, <1>7, <1>8
<1>10. dust'[u] = d => AtLeast(u)' = AtLeast(u) - S * (q * wider)
  BY <1>5, <1>6, <1>7, <1>8
<1>11. dust'[u] = d + n => AtLeast(u)' = AtLeast(u) - S * (q * wider) - S * n
  BY <1>5, <1>6, <1>7, <1>8
<1> QED
  BY <1>4, <1>9, <1>10, <1>11 DEF S, P, n, q

(* A call moves what is booked for a staker only by the rounding of a new  *)
(* debt.                                                                   *)
LEMMA CallCredit ==
    ASSUME HasPrecision, Sound, TypeOK', Calls, NEW u \in Users,
           StaysPut(u) \/ Served(u), NEW wider \in {0, 1},
           wider = 1 <=> user_info'[u].staked_amount # user_info[u].staked_amount
    PROVE  /\ Booked(u, Updated) \in Int /\ Booked(u, pool_state)' \in Int
           /\ Booked(u, pool_state)' <= Booked(u, Updated) + (PrecisionFactor - 1) * wider
           /\ Booked(u, Updated) <= Booked(u, pool_state)' + (PrecisionFactor - 1) * wider
<1> DEFINE P == PrecisionFactor
           A == Updated.acc_token_per_share
           n == user_info[u].staked_amount
           debt == user_info[u].reward_debt
           m == user_info'[u].staked_amount
           before == Booked(u, Updated)
           after == Booked(u, pool_state)'
<1>1. TypeOK /\ Schedule /\ DebtCovered
  BY DEF Sound
<1>2. A \in Nat /\ P \in Nat \ {0} /\ n \in Nat /\ debt \in Nat /\ m \in Nat
  <2>1. A \in Nat
    BY <1>1, TimeAccrues DEF TypeOK, Updated
  <2>2. m \in Nat
    BY UtilsAssumption DEF TypeOK, UserInfo, U64
  <2> QED
    BY <1>1, <2>1, <2>2, PrecisionFactorType, SolvencyTypes
<1>3. before = P * Received(u) + (n * A - P * debt) /\ Received(u) \in Int /\ before \in Int
  BY <1>1, <1>2, BookedType
<1>4. after = P * Received(u)' + (m * A - P * user_info'[u].reward_debt)
  BY <1>1, CallUpToDate DEF Booked, Unpaid
<1>5. CASE StaysPut(u)
  <2>1. after = before /\ wider = 0
    BY <1>3, <1>4, <1>5 DEF StaysPut
  <2>2. (P - 1) * wider = 0
    BY <1>2, <2>1
  <2> HIDE DEF before, after, P
  <2> QED
    BY <1>3, <2>1, <2>2 DEF before, after, P
<1>6. CASE Served(u)
  <2> DEFINE k == n * A
             l == m * A
  <2>1. Owed(u) = k \div P - debt
    BY <1>1, EarnedType, ViewIsPending DEF Pending, Accrued
  <2>2. Received(u)' = Received(u) + Owed(u) /\ user_info'[u].reward_debt = l \div P
    BY <1>1, <1>6 DEF Served, Restaked, Accrued, TypeOK
  <2>3. k \in Nat /\ l \in Nat
    BY <1>2, ProductsNat
  <2>4. after = P * (Received(u) + Owed(u)) + (l - P * (l \div P))
    BY <1>4, <2>2
  <2>5. before = P * Received(u) + (k - P * debt)
    BY <1>3
  <2>6. wider = 0 => l = k
    OBVIOUS
  <2> DEFINE received == Received(u)
             owed == Owed(u)
  <2> HIDE DEF k, l, before, after, P, debt, received, owed
  <2>7. /\ before \in Int /\ after \in Int
        /\ after <= before + (P - 1) /\ before <= after + (P - 1)
        /\ l = k => after = before
    <3>1. received \in Int /\ owed = k \div P - debt
      BY <1>3, <2>1 DEF received, owed
    <3>2. /\ before = P * received + (k - P * debt)
          /\ after = P * (received + owed) + (l - P * (l \div P))
      BY <2>4, <2>5 DEF received, owed
    <3> QED
      BY <1>2, <2>3, <3>1, <3>2, SettledBooked
  <2>8. (P - 1) * 1 = P - 1 /\ (P - 1) * 0 = 0
    BY <1>2
  <2> QED
    BY <1>2, <2>6, <2>7, <2>8 DEF before, after, P
<1> QED
  BY <1>5, <1>6

LEMMA FairAfterCall ==
    ASSUME HasPrecision, Sound, TypeOK', ShareTypes, ShareTypes', SharesStep, Calls,
           NEW u \in Users, StaysPut(u) \/ Served(u), FairTo(u)
    PROVE  FairTo(u)'
<1> DEFINE S == ShareScale
           q == PrecisionFactor - 1
           wider == IF user_info'[u].staked_amount # user_info[u].staked_amount THEN 1 ELSE 0
           n == user_info[u].staked_amount
           before == Booked(u, Updated)
           after == Booked(u, pool_state)'
           most == AtMost(u)
           least == AtLeast(u)
<1>1. TypeOK /\ Schedule /\ S \in Nat /\ q \in Int /\ n \in Nat /\ wider \in {0, 1}
      /\ most \in Int /\ least \in Int
  BY ScaleAssumption, PrecisionFactorType, SolvencyTypes, BoundTypes DEF Sound
<1>2. /\ slot' = slot /\ Due' = 0
      /\ pool_state'.should_total_paid = Updated.should_total_paid
  BY <1>1, CallUpToDate
<1>3. /\ before \in Int /\ after \in Int
      /\ after <= before + q * wider /\ before <= after + q * wider
  BY <1>1, CallCredit
<1>4. /\ AtMost(u)' = most + S * (q * wider)
      /\ \/ /\ pool_state'.should_total_paid = pool_state.should_total_paid
            /\ AtLeast(u)' = least - S * (q * wider)
         \/ AtLeast(u)' = least - S * (q * wider) - S * n
  BY <1>1, <1>2, CallHistory
<1>5. /\ S * before <= most /\ least - S * n <= S * before
      /\ pool_state'.should_total_paid = pool_state.should_total_paid => least <= S * before
  BY <1>1, <1>2, UpdateFair
<1>6. Credit(u)' = S * after
  BY DEF Credit
<1> HIDE DEF S, q, wider, n, before, after, most, least
<1>7. q * wider \in Int /\ wider \in Int
  BY <1>1, ProductsInt
<1>8. /\ S * after \in Int /\ S * before \in Int /\ S * n \in Int /\ S * (q * wider) \in Int
      /\ S * after <= S * before + S * (q * wider)
      /\ S * before <= S * after + S * (q * wider)
  <2>1. /\ S * (before + q * wider) = S * before + S * (q * wider)
        /\ S * (after + q * wider) = S * after + S * (q * wider)
    BY <1>1, <1>3, <1>7, Products
  <2>2. /\ S * after <= S * (before + q * wider)
        /\ S * before <= S * (after + q * wider)
    BY <1>1, <1>3, <1>7, Widens
  <2> QED
    BY <1>1, <1>3, <1>7, <2>1, <2>2, Products
<1>9. Credit(u)' <= AtMost(u)' /\ AtLeast(u)' <= Credit(u)'
  BY <1>1, <1>4, <1>5, <1>6, <1>8
<1>10. /\ AtMost(u)' \in Int /\ AtLeast(u)' \in Int /\ Credit(u)' \in Int
       /\ pool_state'.total_staked \in Nat
  BY BoundTypesNext
<1>11. user_info'[u].staked_amount \in Nat
  BY UtilsAssumption DEF TypeOK, UserInfo, U64
<1>12. /\ pool_state'.total_staked * Credit(u)' + Outstanding(u)'
                <= pool_state'.total_staked * AtMost(u)'
       /\ pool_state'.total_staked * AtLeast(u)'
                <= pool_state'.total_staked * Credit(u)' + Outstanding(u)'
  <2>1. Outstanding(u)' = S * (PrecisionFactor * (user_info'[u].staked_amount * 0))
    BY <1>2 DEF Outstanding, S
  <2>2. PrecisionFactor \in Nat
    BY PrecisionFactorType
  <2> QED
    BY <1>1, <1>9, <1>10, <1>11, <2>1, <2>2, FairUpToDate
<1> QED
  BY <1>9, <1>12 DEF FairTo

-----------------------------------------------------------------------------
(* Time.                                                                   *)

(* The last reward slot is past, unless it is the first of the schedule.   *)
LastSlot == pool_state.last_reward_slot <= slot
                \/ pool_state.last_reward_slot = pool_config.start_slot

LEMMA LastSlotStep ==
    ASSUME TypeOK, TypeOK', Schedule, LastSlot, Kinds PROVE LastSlot'
<1>1. /\ slot \in Nat /\ pool_state.last_reward_slot \in Nat
  BY ScheduleTypes
<1>2. CASE Settles
  <2>1. /\ pool_state'.last_reward_slot = Updated.last_reward_slot
        /\ UNCHANGED << pool_config, slot >>
    BY <1>2 DEF Settles
  <2>2. Updated.last_reward_slot = slot \/ Updated = pool_state
    BY UpdatedFields
  <2> QED
    BY <1>1, <2>1, <2>2 DEF LastSlot
<1>3. CASE Waits
  BY <1>1, <1>3 DEF Waits, LastSlot
<1>4. CASE Creates
  BY <1>4 DEF Creates, LastSlot
<1>5. CASE StartReward
  BY <1>5, StartRewardFields DEF LastSlot
<1> QED
  BY <1>2, <1>3, <1>4, <1>5 DEF Kinds

(* The schedule, slot by slot: the emission due grows by the rate in every *)
(* slot that pays, and in no other.                                        *)
LEMMA MultiplierGrows ==
    ASSUME NEW last \in Nat, NEW now \in Nat, NEW end \in Nat, last < now
    PROVE  GetMultiplier(last, now + 1, end)
                = GetMultiplier(last, now, end) + (IF now < end THEN 1 ELSE 0)
  BY DEF GetMultiplier

LEMMA MultiplierStarts ==
    ASSUME NEW now \in Nat, NEW end \in Nat
    PROVE  GetMultiplier(now, now + 1, end) = IF now < end THEN 1 ELSE 0
  BY DEF GetMultiplier

LEMMA SlotDue ==
    ASSUME TypeOK, Schedule, LastSlot, UNCHANGED << pool_config, pool_state >>,
           slot' = slot + 1
    PROVE  /\ SlotPays => Due' = Due + pool_config.reward_per_slot
           /\ ~SlotPays /\ pool_state.total_staked # 0 => Due' = Due
<1> DEFINE last == pool_state.last_reward_slot
           start == pool_config.start_slot
           end == pool_config.end_slot
           rate == pool_config.reward_per_slot
           total == pool_state.total_staked
           now == slot
           counts == IF now < end THEN 1 ELSE 0
<1>1. /\ last \in Nat /\ start \in Nat /\ end \in Nat /\ rate \in Nat /\ now \in Nat
      /\ total \in Nat
  BY ScheduleTypes
<1>2. /\ start = 0 => last = 0
      /\ start # 0 => start <= last
      /\ last <= now \/ last = start
  BY DEF Schedule, LastSlot
<1>3. /\ Due = IF now > last /\ last # 0 THEN GetMultiplier(last, now, end) * rate ELSE 0
      /\ Due' = IF now + 1 > last /\ last # 0
                THEN GetMultiplier(last, now + 1, end) * rate ELSE 0
  BY DEF Due, IsStale, Emitted
<1>4. SlotPays <=> start # 0 /\ start <= now /\ now < end /\ total > 0
  BY <1>1 DEF SlotPays
<1> DEFINE m == GetMultiplier(last, now, end)
           due == Due
           later == Due'
<1> HIDE DEF last, start, end, rate, total, now, due, later
<1>5. CASE now > last /\ last # 0
  <2>1. m \in Nat
    BY <1>1, <1>5 DEF GetMultiplier
  <2>2. GetMultiplier(last, now + 1, end) = m + counts
    BY <1>1, <1>5, MultiplierGrows
  <2> HIDE DEF m
  <2>3. now + 1 > last
    BY <1>1, <1>5
  <2>4. due = m * rate /\ later = (m + counts) * rate
    BY <1>3, <1>5, <2>2, <2>3 DEF m, due, later
  <2>5. m * rate \in Nat /\ (m + 1) * rate = m * rate + rate /\ (m + 0) * rate = m * rate
    BY <1>1, <2>1
  <2>6. (SlotPays => counts = 1) /\ (~SlotPays /\ total # 0 => counts = 0)
    BY <1>1, <1>2, <1>4, <1>5
  <2> HIDE DEF counts
  <2>7. (SlotPays => later = due + rate) /\ (~SlotPays /\ total # 0 => later = due)
    BY <2>4, <2>5, <2>6
  <2> QED
    BY <2>7 DEF due, later, rate, total
<1>6. CASE now = last /\ last # 0
  <2>1. GetMultiplier(last, now + 1, end) = counts
    BY <1>1, <1>6, MultiplierStarts
  <2>2. due = 0 /\ later = counts * rate
    BY <1>1, <1>3, <1>6, <2>1 DEF due, later
  <2>3. 1 * rate = rate /\ 0 * rate = 0
    BY <1>1
  <2>4. (SlotPays => counts = 1) /\ (~SlotPays /\ total # 0 => counts = 0)
    BY <1>1, <1>2, <1>4, <1>6
  <2>5. (SlotPays => later = due + rate) /\ (~SlotPays /\ total # 0 => later = due)
    BY <1>1, <2>2, <2>3, <2>4
  <2> QED
    BY <2>5 DEF due, later, rate, total
<1>7. CASE last = 0 \/ now < last
  <2>1. due = 0 /\ later = 0
    BY <1>1, <1>3, <1>7 DEF due, later
  <2>2. ~SlotPays
    BY <1>1, <1>2, <1>4, <1>7
  <2> QED
    BY <2>1, <2>2 DEF due, later
<1> QED
  BY <1>1, <1>5, <1>6, <1>7

(* The history of a slot.                                                  *)
LEMMA SlotHistory ==
    ASSUME TypeOK, ShareTypes, SharesStep, UNCHANGED << pool_state, user_info >>,
           slot' = slot + 1, HasPrecision, NEW u \in Users,
           NEW earned, earned = EarnedInSlot(u), SlotPays => earned \in Nat
    PROVE  /\ SlotPays =>
                /\ AtMost(u)' = AtMost(u) + PrecisionFactor * (earned + 1)
                /\ AtLeast(u)' = AtLeast(u) + PrecisionFactor * earned
           /\ ~SlotPays =>
                /\ AtMost(u)' = AtMost(u) + PrecisionFactor
                /\ AtLeast(u)' = AtLeast(u)
<1> DEFINE P == PrecisionFactor
           s == share[u]
           roundings == ShareScale * ((P - 1) * rounded[u])
           lost == ShareScale * ((P - 1) * rounded[u] + dust[u])
<1>1. rounded'[u] = rounded[u] /\ dust'[u] = dust[u]
  BY DEF SharesStep, ShareTypes
<1>2. share'[u] = IF SlotPays THEN s + earned ELSE s
  BY DEF SharesStep, ShareTypes
<1>3. /\ P \in Nat /\ P - 1 \in Int /\ s \in Nat /\ slot \in Nat /\ ShareScale \in Nat
      /\ rounded[u] \in Nat /\ dust[u] \in Nat
  BY PrecisionFactorType, ScaleAssumption, ScheduleTypes DEF ShareTypes
<1>4. roundings \in Int /\ lost \in Int
  <2>1. (P - 1) * rounded[u] \in Int /\ (P - 1) * rounded[u] + dust[u] \in Int
    BY <1>3, ProductsInt
  <2> QED
    BY <1>3, <2>1, ProductsInt
<1>5. /\ AtMost(u) = P * (s + slot) + roundings
      /\ AtMost(u)' = P * (share'[u] + (slot + 1)) + roundings
      /\ AtLeast(u) = P * s - lost
      /\ AtLeast(u)' = P * share'[u] - lost
  BY <1>1 DEF AtMost, AtLeast
<1> HIDE DEF P, s, roundings, lost
<1>6. CASE SlotPays
  <2>1. earned \in Nat
    BY <1>6
  <2>2. /\ (s + earned) + (slot + 1) = (s + slot) + (earned + 1)
        /\ P * ((s + slot) + (earned + 1)) = P * (s + slot) + P * (earned + 1)
        /\ P * (s + earned) = P * s + P * earned
    BY <1>3, <2>1, Products
  <2>3. /\ P * (s + slot) \in Int /\ P * (earned + 1) \in Int /\ P * s \in Int
        /\ P * earned \in Int
    BY <1>3, <2>1, ProductsNat
  <2> QED
    BY <1>2, <1>4, <1>5, <1>6, <2>2, <2>3 DEF P
<1>7. CASE ~SlotPays
  <2>1. s + (slot + 1) = (s + slot) + 1 /\ P * ((s + slot) + 1) = P * (s + slot) + P * 1
        /\ P * 1 = P
    BY <1>3, Products
  <2>2. P * (s + slot) \in Int
    BY <1>3, ProductsNat
  <2> QED
    BY <1>2, <1>3, <1>4, <1>5, <1>7, <2>1, <2>2 DEF P
<1> QED
  BY <1>6, <1>7

(* More may be credited, or less, with the same due.                       *)
LEMMA BoundsWiden ==
    ASSUME NEW T \in Nat, NEW out \in Int, NEW credit \in Int, NEW more \in Nat,
           NEW most \in Int, T * credit + out <= T * most
    PROVE  T * credit + out <= T * (most + more)
<1>1. T * (most + more) = T * most + T * more /\ T * more \in Nat
      /\ T * most \in Int /\ T * credit \in Int
  BY Products, ProductsNat
<1> QED
  BY <1>1

LEMMA FairAfterSlot ==
    ASSUME HasPrecision, TypeOK, TypeOK', Schedule, LastSlot, TotalStakedIsSum,
           ShareTypes, ShareTypes', SharesStep,
           UNCHANGED << pool_config, pool_state, user_info >>, slot' = slot + 1,
           NEW u \in Users, Received(u)' = Received(u), FairTo(u)
    PROVE  FairTo(u)'
<1> DEFINE S == ShareScale
           P == PrecisionFactor
           T == pool_state.total_staked
           n == user_info[u].staked_amount
           rate == pool_config.reward_per_slot
           earned == EarnedInSlot(u)
           credit == Credit(u)
           most == AtMost(u)
           least == AtLeast(u)
           due == Due
           out == S * (P * (n * due))
           later == S * (P * (n * Due'))
<1>1. /\ S \in Nat /\ P \in Nat /\ T \in Nat /\ n \in Nat /\ rate \in Nat /\ due \in Nat
      /\ credit \in Int /\ most \in Int /\ least \in Int
  BY ScaleAssumption, PrecisionFactorType, ScheduleTypes, SolvencyTypes, BoundTypes
<1>2. /\ credit <= most /\ T * credit + out <= T * most
      /\ T = 0 => least <= credit
      /\ T * least <= T * credit + out
  BY DEF FairTo, Outstanding
<1>3. Credit(u)' = credit /\ pool_state'.total_staked = T /\ Outstanding(u)' = later
  BY DEF Credit, Booked, Unpaid, Outstanding
<1>4. SlotPays => T \in Nat \ {0} /\ earned = (rate * S * n) \div T
  BY <1>1 DEF SlotPays, EarnedInSlot
<1>5. out \in Int
  <2>1. n * due \in Nat
    BY <1>1, ProductsNat
  <2>2. P * (n * due) \in Nat
    BY <1>1, <2>1, ProductsNat
  <2> QED
    BY <1>1, <2>2, ProductsNat
<1>6. CASE SlotPays
  <2>1. later = S * (P * (n * (due + rate)))
    BY <1>6, SlotDue
  <2> HIDE DEF S, P, T, n, rate, earned, credit, most, least, due, later
  <2>2. /\ earned \in Nat
        /\ T * credit + later <= T * (most + P * (earned + 1))
        /\ T * (least + P * earned) <= T * credit + later
    <3>1. T \in Nat \ {0} /\ earned = (rate * S * n) \div T
      BY <1>4, <1>6
    <3>2. /\ T * credit + S * (P * (n * due)) <= T * most
          /\ T * least <= T * credit + S * (P * (n * due))
      BY <1>2
    <3>3. /\ earned \in Nat
          /\ T * credit + S * (P * (n * (due + rate))) <= T * (most + P * (earned + 1))
          /\ T * (least + P * earned) <= T * credit + S * (P * (n * (due + rate)))
      BY <1>1, <3>1, <3>2, SlotBounds
    <3> QED
      BY <2>1, <3>3
  <2>3. AtMost(u)' = most + P * (earned + 1) /\ AtLeast(u)' = least + P * earned
    BY <1>6, <2>2, SlotHistory DEF most, least, earned, P
  <2>4. P * (earned + 1) \in Nat
    BY <1>1, <2>2, ProductsNat
  <2>5. credit <= AtMost(u)'
    BY <1>1, <1>2, <2>3, <2>4
  <2> QED
    BY <1>3, <1>4, <1>6, <2>2, <2>3, <2>5 DEF FairTo
<1>7. CASE ~SlotPays
  <2>1. later = out
    <3>1. CASE T = 0
      <4>1. n <= T
        BY StakeWithinTotal
      <4>2. n = 0
        BY <1>1, <3>1, <4>1
      <4>3. Due' \in Nat
        BY BoundTypesNext
      <4>4. 0 * due = 0 /\ 0 * Due' = 0
        BY <1>1, <4>3, NoneTimes
      <4> QED
        BY <4>2, <4>4
    <3>2. CASE T # 0
      BY <1>7, <3>2, SlotDue
    <3> QED
      BY <3>1, <3>2
  <2>2. AtMost(u)' = most + P /\ AtLeast(u)' = least
    BY <1>7, SlotHistory
  <2> HIDE DEF S, P, T, n, rate, earned, credit, most, least, due, out, later
  <2>3. T * credit + out <= T * (most + P)
    BY <1>1, <1>2, <1>5, BoundsWiden
  <2>4. credit <= most + P
    BY <1>1, <1>2
  <2> QED
    BY <1>2, <1>3, <2>1, <2>2, <2>3, <2>4 DEF FairTo
<1> QED
  BY <1>6, <1>7

(* Nothing changes the bounds while nothing happens.                       *)
LEMMA FairAtRest ==
    ASSUME TypeOK, ShareTypes, SharesStep,
           UNCHANGED << pool_config, pool_state, user_info, slot >>,
           NEW u \in Users, Received(u)' = Received(u), FairTo(u)
    PROVE  FairTo(u)'
<1>1. share' = share /\ rounded'[u] = rounded[u] /\ dust'[u] = dust[u]
  <2>1. ~SlotPays
    BY ScheduleTypes DEF SlotPays
  <2> QED
    BY <2>1 DEF SharesStep, ShareTypes
<1>2. AtMost(u)' = AtMost(u) /\ AtLeast(u)' = AtLeast(u)
  BY <1>1 DEF AtMost, AtLeast
<1>3. Credit(u)' = Credit(u) /\ Outstanding(u)' = Outstanding(u)
  BY DEF Credit, Booked, Unpaid, Outstanding, Due, IsStale, Emitted
<1> QED
  BY <1>2, <1>3 DEF FairTo

-----------------------------------------------------------------------------
(* The invariant holds.                                                    *)

SharesSound == Sound /\ TotalStakedIsSum /\ LastSlot /\ ShareTypes

LEMMA FairStep ==
    ASSUME TwoMints, SharesSound, SharesSound', Kinds, SharesStep, Attends, FairToAll
    PROVE  FairToAll'
<1>1. /\ TypeOK /\ TypeOK' /\ Sound /\ Schedule /\ TotalStakedIsSum /\ LastSlot
      /\ ShareTypes /\ ShareTypes' /\ HasPrecision
  BY DEF SharesSound, Sound, TwoMints
<1> SUFFICES ASSUME NEW u \in Users PROVE FairTo(u)'
  BY DEF FairToAll
<1>2. FairTo(u) /\ (StaysPut(u) \/ (Settles /\ Served(u)))
  BY DEF FairToAll, Attends
<1>3. CASE Calls
  BY <1>1, <1>2, <1>3, FairAfterCall
<1>4. CASE ~Calls
  <2>1. Waits /\ StaysPut(u)
    BY <1>2, <1>4 DEF Kinds, Calls
  <2>2. CASE slot' = slot
    BY <1>1, <1>2, <2>1, <2>2, FairAtRest DEF Waits, StaysPut
  <2>3. CASE slot' = slot + 1
    BY <1>1, <1>2, <2>1, <2>3, FairAfterSlot DEF Waits, StaysPut
  <2> QED
    BY <2>1, <2>2, <2>3 DEF Waits
<1> QED
  BY <1>3, <1>4

(* Nobody has anything, and nothing is due.                                *)
LEMMA InitFair ==
    ASSUME HasPrecision, Init, SharesInit PROVE LastSlot /\ ShareTypes /\ FairToAll
<1>1. TypeOK
  BY InitType
<1>2. LastSlot /\ ShareTypes
  BY DEF Init, PoolInit, LedgerInit, SharesInit, LastSlot, ShareTypes
<1>3. ASSUME NEW u \in Users PROVE FairTo(u)
  <2>1. /\ ShareScale \in Nat /\ PrecisionFactor \in Nat \ {0}
    BY ScaleAssumption, PrecisionFactorType
  <2>2. /\ Received(u) = 0 /\ user_info[u].staked_amount = 0 /\ user_info[u].reward_debt = 0
        /\ pool_state.acc_token_per_share = 0 /\ pool_state.total_staked = 0
        /\ share[u] = 0 /\ rounded[u] = 0 /\ dust[u] = 0 /\ slot = 1 /\ Due = 0
    <3>1. Received(u) = 0
      BY AccountTypes, InitialAssumption DEF Init, LedgerInit, Received
    <3>2. Due = 0
      BY DEF Init, PoolInit, Due, IsStale
    <3> QED
      BY <3>1, <3>2 DEF Init, PoolInit, LedgerInit, SharesInit
  <2>3. Booked(u, pool_state) = 0
    <3>1. Booked(u, pool_state) = PrecisionFactor * 0 + (0 * 0 - PrecisionFactor * 0)
      BY <1>1, <2>2, BookedType
    <3> QED
      BY <2>1, <3>1
  <2>4. /\ Credit(u) = 0 /\ AtMost(u) = PrecisionFactor /\ AtLeast(u) = 0
        /\ Outstanding(u) = 0
    <3>1. PrecisionFactor * 0 = 0 /\ ShareScale * 0 = 0 /\ (PrecisionFactor - 1) * 0 = 0
          /\ PrecisionFactor * (0 + 1) = PrecisionFactor /\ 0 * 0 = 0
      BY <2>1
    <3>2. Credit(u) = ShareScale * 0 /\ AtMost(u) = PrecisionFactor * (0 + 1)
            + ShareScale * ((PrecisionFactor - 1) * 0)
      BY <2>2, <2>3 DEF Credit, AtMost
    <3>3. /\ AtLeast(u) = PrecisionFactor * 0 - ShareScale * ((PrecisionFactor - 1) * 0 + 0)
          /\ Outstanding(u) = ShareScale * (PrecisionFactor * (0 * 0))
      BY <2>2 DEF AtLeast, Outstanding
    <3> QED
      BY <2>1, <3>1, <3>2, <3>3
  <2>5. 0 * PrecisionFactor = 0
    BY <2>1
  <2> QED
    BY <2>1, <2>2, <2>4, <2>5 DEF FairTo
<1> QED
  BY <1>2, <1>3 DEF FairToAll

LEMMA RestShares ==
    ASSUME TypeOK, ShareTypes, UNCHANGED << vars, shareVars >> PROVE SharesStep
<1>1. ~SlotPays /\ UNCHANGED << user_info, pool_state, share, rounded, dust >>
  BY ScheduleTypes DEF vars, shareVars, SlotPays
<1>2. rounded = [u \in Users |-> rounded[u]]
  BY DEF ShareTypes
<1> QED
  BY <1>1, <1>2 DEF SharesStep

(* The pool with the history is a pool: what holds of every pool holds     *)
(* of it.                                                                  *)
LEMMA SharesPool == SharesSpec => [](TypeOK /\ Schedule /\ DebtCovered /\ TotalStakedIsSum)
<1>1. [StopNext /\ SharesStep]_<< vars, shareVars >> => [Next]_vars
  BY DEF Next, StopNext, CompoundNext, vars
<1>2. SharesSpec => Spec
  BY <1>1, PTL DEF SharesSpec, Spec
<1> QED
  BY <1>2, ScheduleCorrect, DebtsCovered, TotalIsSum, PTL

LEMMA SharesInvariant ==
    ASSUME TwoMints, SharesSound, FairToAll, Sound', TotalStakedIsSum',
           [StopNext /\ SharesStep]_<< vars, shareVars >>
    PROVE  SharesSound' /\ FairToAll'
<1>1. /\ TypeOK /\ TypeOK' /\ Schedule /\ LastSlot /\ ShareTypes
  BY DEF SharesSound, Sound
<1>2. [StopNext]_vars /\ SharesStep
  BY <1>1, RestShares DEF vars
<1>3. Kinds
  BY <1>1, <1>2, StepKinds DEF Next, StopNext, CompoundNext
<1>4. LastSlot' /\ ShareTypes'
  BY <1>1, <1>2, <1>3, LastSlotStep, SharesTypeStep
<1>5. Attends
  BY <1>1, <1>2, AttendsStep
<1>6. SharesSound'
  BY <1>4 DEF SharesSound
<1> QED
  BY <1>2, <1>3, <1>5, <1>6, FairStep

LEMMA FairCorrect == TwoMints => (SharesSpec => [](SharesSound /\ FairToAll))
<1>1. TwoMints /\ (SharesSound /\ FairToAll) /\ (Sound /\ TotalStakedIsSum)'
        /\ [StopNext /\ SharesStep]_<< vars, shareVars >> => (SharesSound /\ FairToAll)'
  BY SharesInvariant
<1>2. TwoMints /\ (Sound /\ TotalStakedIsSum) /\ Init /\ SharesInit
        => SharesSound /\ FairToAll
  BY InitFair DEF SharesSound, TwoMints
<1>3. SharesSpec => [](Sound /\ TotalStakedIsSum)
  BY SharesPool DEF Sound
<1>4. TwoMints => TwoMints'
  BY DEF TwoMints, HasPrecision
<1> QED
  BY <1>1, <1>2, <1>3, <1>4, PTL DEF SharesSpec

(* What the invariant says of whole units: what is booked for a staker,    *)
(* brought up to date, is what the staker is credited and a fraction.      *)
LEMMA CreditedBooked ==
    ASSUME SharesSound, HasPrecision, NEW u \in Users
    PROVE  /\ Credited(u) \in Int
           /\ ShareScale * PrecisionFactor * Credited(u) <= ShareScale * Booked(u, Updated)
           /\ ShareScale * Booked(u, Updated)
                <= ShareScale * (PrecisionFactor * Credited(u) + (PrecisionFactor - 1))
<1> DEFINE A == Updated.acc_token_per_share
           k == user_info[u].staked_amount * A
<1>1. TypeOK /\ Sound
  BY DEF SharesSound, Sound
<1>2. A \in Nat /\ user_info[u].staked_amount \in Nat /\ user_info[u].reward_debt \in Nat
      /\ ShareScale \in Nat /\ PrecisionFactor \in Nat \ {0}
  BY <1>1, TimeAccrues, SolvencyTypes, ScaleAssumption, PrecisionFactorType
     DEF TypeOK, Updated
<1>3. k \in Nat
  BY <1>2, ProductsNat
<1>4. /\ Received(u) \in Int
      /\ Booked(u, Updated) = PrecisionFactor * Received(u)
                                + (k - PrecisionFactor * user_info[u].reward_debt)
  BY <1>1, <1>2, BookedType
<1>5. Credited(u) = Received(u) + (k \div PrecisionFactor - user_info[u].reward_debt)
  BY <1>1, ViewIsPending DEF Credited, Received, Pending, Accrued
<1> HIDE DEF k
<1> QED
  BY <1>2, <1>3, <1>4, <1>5, CreditedBounds

LEMMA FairNotOver == TwoMints /\ SharesSound /\ FairToAll => NobodyOverpaid
<1> SUFFICES ASSUME TwoMints, SharesSound, FairToAll, NEW u \in Users
             PROVE  ShareScale * PrecisionFactor * Credited(u)
                        <= PrecisionFactor * (share[u] + slot)
                            + ShareScale * (PrecisionFactor - 1) * rounded[u]
  BY DEF NobodyOverpaid
<1>1. TypeOK /\ ShareTypes /\ HasPrecision /\ FairTo(u)
  BY DEF SharesSound, Sound, TwoMints, FairToAll
<1>2. /\ ShareScale \in Nat /\ PrecisionFactor \in Nat \ {0} /\ rounded[u] \in Nat
      /\ Booked(u, Updated) \in Int /\ AtMost(u) \in Int
  BY <1>1, ScaleAssumption, PrecisionFactorType, UpdateFair, BoundTypes DEF ShareTypes
<1>3. Credited(u) \in Int
      /\ ShareScale * PrecisionFactor * Credited(u) <= ShareScale * Booked(u, Updated)
  BY <1>1, CreditedBooked
<1>4. ShareScale * Booked(u, Updated) <= AtMost(u)
  BY <1>1, UpdateFair
<1>5. AtMost(u) = PrecisionFactor * (share[u] + slot)
                    + ShareScale * (PrecisionFactor - 1) * rounded[u]
  <2> DEFINE q == PrecisionFactor - 1
  <2>1. q \in Int
    BY <1>2
  <2> HIDE DEF q
  <2>2. ShareScale * (q * rounded[u]) = ShareScale * q * rounded[u]
    BY <1>2, <2>1
  <2> QED
    BY <2>2 DEF AtMost, q
<1>6. /\ ShareScale * PrecisionFactor * Credited(u) \in Int
      /\ ShareScale * Booked(u, Updated) \in Int
  BY <1>2, <1>3, ProductsInt
<1> QED
  BY <1>2, <1>3, <1>4, <1>5, <1>6

LEMMA FairNotUnder == TwoMints /\ SharesSound /\ FairToAll => NobodyUnderpaid
<1> SUFFICES ASSUME TwoMints, SharesSound, FairToAll, NEW u \in Users
             PROVE  ShareScale * (PrecisionFactor * Credited(u) + dust[u]
                                    + user_info[u].staked_amount
                                    + (PrecisionFactor - 1) * (rounded[u] + 1))
                        >= PrecisionFactor * share[u]
  BY DEF NobodyUnderpaid
<1> DEFINE S == ShareScale
           P == PrecisionFactor
           q == P - 1
           n == user_info[u].staked_amount
           r == rounded[u]
           d == dust[u]
           c == P * Credited(u)
           booked == Booked(u, Updated)
           paid == P * share[u]
<1>1. TypeOK /\ ShareTypes /\ HasPrecision /\ FairTo(u)
  BY DEF SharesSound, Sound, TwoMints, FairToAll
<1>2. /\ S \in Nat /\ P \in Nat \ {0} /\ r \in Nat /\ d \in Nat /\ n \in Nat /\ q \in Nat
      /\ booked \in Int /\ share[u] \in Nat
  BY <1>1, ScaleAssumption, PrecisionFactorType, SolvencyTypes, UpdateFair DEF ShareTypes
<1>3. Credited(u) \in Int /\ S * booked <= S * (c + q)
  BY <1>1, CreditedBooked
<1>4. paid - S * (q * r + d) - S * n <= S * booked
  BY <1>1, UpdateFair DEF AtLeast
<1>5. c \in Int /\ paid \in Int
  BY <1>2, <1>3, ProductsInt
<1> HIDE DEF S, P, q, n, r, d, c, booked, paid
<1>6. q * r \in Int /\ q * (r + 1) = q * r + q
  <2>1. q * (r + 1) = q * r + q * 1 /\ q * 1 = q
    BY <1>2, Products
  <2> QED
    BY <1>2, <2>1, ProductsInt
<1>7. /\ S * ((c + q) + ((q * r + d) + n)) = S * (c + q) + (S * (q * r + d) + S * n)
      /\ S * (c + q) \in Int /\ S * (q * r + d) \in Int /\ S * n \in Int /\ S * booked \in Int
  <2>1. c + q \in Int /\ q * r + d \in Int
    BY <1>2, <1>5, <1>6
  <2> QED
    BY <1>2, <2>1, Products
<1>8. c + d + n + q * (r + 1) = (c + q) + ((q * r + d) + n)
  BY <1>2, <1>5, <1>6
<1>9. S * (c + d + n + q * (r + 1)) >= paid
  BY <1>3, <1>4, <1>5, <1>7, <1>8
<1> QED
  BY <1>9 DEF S, P, q, n, r, d, c, paid

(* In a pool with two mints that is not compounded, no staker is credited  *)
(* more than the eager share of the emission, however the calls of the     *)
(* stakers interleave, but for the rounding of the debts and of the shares *)
(* themselves (update_pool, claim_reward.rs:71, stake.rs, unstake.rs).     *)
THEOREM NobodyIsOverpaid == TwoMints => (SharesSpec => []NobodyOverpaid)
<1>1. TwoMints => TwoMints'
  BY DEF TwoMints, HasPrecision
<1> QED
  BY <1>1, FairCorrect, FairNotOver, PTL

(* Nor less, but for the rounding of the accumulator and of the debts.     *)
THEOREM NobodyIsUnderpaid == TwoMints => (SharesSpec => []NobodyUnderpaid)
<1>1. TwoMints => TwoMints'
  BY DEF TwoMints, HasPrecision
<1> QED
  BY <1>1, FairCorrect, FairNotUnder, PTL
=============================================================================
