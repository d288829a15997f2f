---------------------------- MODULE Stakes_proofs ----------------------------
(***************************************************************************)
(* Proofs about sums over all stakers.  total_staked is the sum of the     *)
(* stakes: every call that moves a stake moves total_staked by as much,    *)
(* and no call moves two stakes.  Rewards paid and pending are within the  *)
(* emission, so a pool that was funded for its schedule can pay everybody. *)
(***************************************************************************)
EXTENDS Accounting_proofs, Accrual_proofs, Functions, FiniteSetTheorems, TLAPS

-----------------------------------------------------------------------------
(* Facts about SumFunctionOnSet, the sum of the values of a function over  *)
(* a finite set.  It is computed by a recursive function on the subsets of *)
(* the set, which takes one element after the other; the facts are proved  *)
(* by looking at a smallest subset for which they would fail.              *)

(* The recursive function behind the sum over S.                           *)
SumsOver(f, S, sums) ==
    sums = [s \in SUBSET S |->
                IF s = {} THEN 0
                ELSE LET x == CHOOSE x \in s : TRUE IN f[x] + sums[s \ {x}]]

(* The element that the recursion takes next.                              *)
Chosen(s) == CHOOSE x \in s : TRUE

(* Among the subsets of a finite set with some property is a smallest one. *)
LEMMA SmallestSubset ==
    ASSUME NEW S, IsFiniteSet(S), NEW Bad, Bad \subseteq SUBSET S, Bad # {}
    PROVE  \E T \in Bad : \A U \in Bad : U \subseteq T => U = T
<1>1. IsWellFoundedOn(StrictSubsetOrdering(S), SUBSET S)
  BY FS_StrictSubsetOrderingWellFounded, FS_FiniteSubsetsOfFinite
<1>2. \E T \in Bad : \A U \in Bad : ~ (<<U, T>> \in StrictSubsetOrdering(S))
  BY <1>1, WFMin
<1> QED
  BY <1>2 DEF StrictSubsetOrdering

(* The recursion, one element at a time.                                   *)
LEMMA SumsUnfold ==
    ASSUME NEW f, NEW S, NEW sums, SumsOver(f, S, sums), NEW s \in SUBSET S
    PROVE  /\ s = {} => sums[s] = 0
           /\ s # {} => /\ Chosen(s) \in s
                        /\ sums[s] = f[Chosen(s)] + sums[s \ {Chosen(s)}]
<1>1. sums[s] = IF s = {} THEN 0 ELSE f[Chosen(s)] + sums[s \ {Chosen(s)}]
  BY DEF SumsOver, Chosen
<1>2. s # {} => Chosen(s) \in s
  BY DEF Chosen
<1> QED
  BY <1>1, <1>2

(* Two such functions agree where both are defined.                        *)
LEMMA SumsAgree ==
    ASSUME NEW f, NEW S, IsFiniteSet(S), NEW R, NEW sums, NEW others,
           SumsOver(f, S, sums), SumsOver(f, R, others)
    PROVE  \A s \in SUBSET S : s \in SUBSET R => sums[s] = others[s]
<1> DEFINE Bad == {s \in SUBSET S : s \in SUBSET R /\ sums[s] # others[s]}
<1>1. SUFFICES ASSUME Bad # {} PROVE FALSE
  OBVIOUS
<1> HIDE DEF Bad
<1>2. PICK T \in Bad : \A U \in Bad : U \subseteq T => U = T
  <2>1. Bad \subseteq SUBSET S
    BY DEF Bad
  <2> QED
    BY <1>1, <2>1, SmallestSubset
<1>3. T \in SUBSET S /\ T \in SUBSET R /\ sums[T] # others[T]
  BY <1>2 DEF Bad
<1>4. T # {}
  BY <1>3, SumsUnfold
<1> DEFINE x == Chosen(T)
<1>5. /\ x \in T
      /\ sums[T] = f[x] + sums[T \ {x}] /\ others[T] = f[x] + others[T \ {x}]
  BY <1>3, <1>4, SumsUnfold
<1> HIDE DEF x
<1>6. T \ {x} \notin Bad
  BY <1>2, <1>5
<1>7. sums[T \ {x}] = others[T \ {x}]
  BY <1>3, <1>6 DEF Bad
<1> QED
  BY <1>3, <1>5, <1>7

(* For a finite set there is such a function.                              *)
LEMMA SumsExist ==
    ASSUME NEW f, NEW S, IsFiniteSet(S)
    PROVE  \E sums : SumsOver(f, S, sums)
<1> DEFINE Bad == {T \in SUBSET S : ~ \E sums : SumsOver(f, T, sums)}
<1>1. SUFFICES ASSUME Bad # {} PROVE FALSE
  OBVIOUS
<1> HIDE DEF Bad
<1>2. PICK T \in Bad : \A U \in Bad : U \subseteq T => U = T
  <2>1. Bad \subseteq SUBSET S
    BY DEF Bad
  <2> QED
    BY <1>1, <2>1, SmallestSubset
<1>3. IsFiniteSet(T) /\ T \in SUBSET S /\ ~ \E sums : SumsOver(f, T, sums)
  BY <1>2, FS_Subset DEF Bad
<1> DEFINE without == [x \in T |-> CHOOSE sums : SumsOver(f, T \ {x}, sums)]
           omitted(s) == CHOOSE x \in T : x \notin s
           last == f[Chosen(T)] + without[Chosen(T)][T \ {Chosen(T)}]
           sums == [s \in SUBSET T |-> IF s = {} THEN 0
                        ELSE IF s = T THEN last ELSE without[omitted(s)][s]]
<1>4. ASSUME NEW x \in T PROVE SumsOver(f, T \ {x}, without[x]) /\ IsFiniteSet(T \ {x})
  <2>1. T \ {x} \notin Bad
    BY <1>2, <1>4
  <2>2. \E g : SumsOver(f, T \ {x}, g)
    BY <1>3, <2>1 DEF Bad
  <2> QED
    BY <1>3, <2>2, FS_Subset
<1> HIDE DEF without
<1>5. ASSUME NEW s \in SUBSET T, s # T PROVE omitted(s) \in T /\ omitted(s) \notin s
  BY <1>5
<1> HIDE DEF omitted
<1>6. ASSUME NEW s \in SUBSET T, s # T, NEW x \in T, x \notin s
      PROVE  sums[s] = without[x][s]
  <2>1. s \in SUBSET (T \ {x})
    BY <1>6
  <2>2. CASE s = {}
    BY <1>4, <2>1, <2>2, SumsUnfold
  <2>3. CASE s # {}
    <3> DEFINE y == omitted(s)
               less == without[x]
               others == without[y]
    <3>1. y \in T /\ s \in SUBSET (T \ {y}) /\ sums[s] = others[s]
      BY <1>5, <1>6, <2>3
    <3> HIDE DEF y
    <3>2. /\ SumsOver(f, T \ {x}, less) /\ IsFiniteSet(T \ {x})
          /\ SumsOver(f, T \ {y}, others)
      BY <1>4, <1>6, <3>1
    <3> HIDE DEF less, others, sums
    <3>3. less[s] = others[s]
      BY <2>1, <3>1, <3>2, SumsAgree
    <3> QED
      BY <3>1, <3>3 DEF less
  <2> QED
    BY <2>2, <2>3
<1>7. ASSUME NEW s \in SUBSET T, s # {}
      PROVE  sums[s] = f[Chosen(s)] + sums[s \ {Chosen(s)}]
  <2>1. Chosen(s) \in s
    BY <1>7 DEF Chosen
  <2>2. CASE s = T
    <3>1. sums[T \ {Chosen(T)}] = without[Chosen(T)][T \ {Chosen(T)}]
      BY <1>6, <2>1, <2>2
    <3> QED
      BY <1>7, <2>2, <3>1
  <2>3. CASE s # T
    <3> DEFINE x == omitted(s)
    <3>1. x \in T /\ x \notin s
      BY <1>5, <2>3
    <3> HIDE DEF x
    <3> DEFINE less == without[x]
    <3>2. sums[s] = less[s] /\ sums[s \ {Chosen(s)}] = less[s \ {Chosen(s)}]
      BY <1>6, <2>1, <2>3, <3>1
    <3>3. SumsOver(f, T \ {x}, less) /\ s \in SUBSET (T \ {x})
      BY <1>4, <3>1
    <3> HIDE DEF less, sums
    <3>4. less[s] = f[Chosen(s)] + less[s \ {Chosen(s)}]
      BY <1>7, <3>3, SumsUnfold
    <3> QED
      BY <3>2, <3>4
  <2> QED
    BY <2>2, <2>3
<1>8. SumsOver(f, T, sums)
  <2>1. sums[{}] = 0
    OBVIOUS
  <2>2. \A s \in SUBSET T :
            sums[s] = IF s = {} THEN 0
                      ELSE LET x == CHOOSE x \in s : TRUE IN f[x] + sums[s \ {x}]
    BY <1>7, <2>1 DEF Chosen
  <2>3. sums = [s \in SUBSET T |-> sums[s]]
    OBVIOUS
  <2> HIDE DEF sums
  <2> QED
    BY <2>2, <2>3 DEF SumsOver
<1> QED
  BY <1>3, <1>8

(* What the recursion computes is the sum.                                 *)
LEMMA SumIsComputed ==
    ASSUME NEW f, NEW S, IsFiniteSet(S)
    PROVE  \E sums : SumsOver(f, S, sums) /\ SumFunctionOnSet(f, S) = sums[S]
<1> DEFINE computed == CHOOSE sums : SumsOver(f, S, sums)
<1>1. SumsOver(f, S, computed)
  BY SumsExist
<1>2. SumFunctionOnSet(f, S) = computed[S]
  BY DEF SumFunctionOnSet, FoldFunctionOnSet, MapThenFoldSet, SumsOver
<1> QED
  BY <1>1, <1>2

(* The sum over a set from the sum over the set less one element.          *)
LEMMA SumUnfold ==
    ASSUME NEW f, NEW S, IsFiniteSet(S)
    PROVE  /\ S = {} => SumFunctionOnSet(f, S) = 0
           /\ S # {} => /\ Chosen(S) \in S
                        /\ SumFunctionOnSet(f, S)
                                = f[Chosen(S)] + SumFunctionOnSet(f, S \ {Chosen(S)})
<1>1. PICK sums : SumsOver(f, S, sums) /\ SumFunctionOnSet(f, S) = sums[S]
  BY SumIsComputed
<1>2. CASE S = {}
  BY <1>1, <1>2, SumsUnfold
<1>3. CASE S # {}
  <2> DEFINE x == Chosen(S)
  <2>1. x \in S /\ sums[S] = f[x] + sums[S \ {x}]
    BY <1>1, <1>3, SumsUnfold
  <2> HIDE DEF x
  <2> DEFINE rest == S \ {x}
  <2>2. IsFiniteSet(rest) /\ rest \in SUBSET S /\ rest \in SUBSET rest
    BY FS_Subset
  <2>3. SumFunctionOnSet(f, S) = f[x] + sums[rest]
    BY <1>1, <2>1
  <2> HIDE DEF rest
  <2>4. PICK less : SumsOver(f, rest, less) /\ SumFunctionOnSet(f, rest) = less[rest]
    BY <2>2, SumIsComputed
  <2>5. \A s \in SUBSET rest : s \in SUBSET S => less[s] = sums[s]
    BY <1>1, <2>2, <2>4, SumsAgree
  <2> QED
    BY <1>3, <2>1, <2>2, <2>3, <2>4, <2>5 DEF x, rest
<1> QED
  BY <1>2, <1>3

-----------------------------------------------------------------------------
LEMMA SumEmpty == \A f : SumFunctionOnSet(f, {}) = 0
  BY SumUnfold, FS_EmptySet

(* The sums over T follow from those over T less one element, which is not *)
(* in Bad.                                                                 *)
Recurs(T, S, Bad) ==
    /\ T \subseteq S /\ IsFiniteSet(T \ {Chosen(T)})
    /\ Chosen(T) \in T /\ T \ {Chosen(T)} \notin Bad
    /\ \A f : SumFunctionOnSet(f, T) = f[Chosen(T)] + SumFunctionOnSet(f, T \ {Chosen(T)})

(* If some subsets of S are bad, there is one that the recursion takes to  *)
(* one that is not.                                                        *)
LEMMA SmallestBad ==
    ASSUME NEW S, IsFiniteSet(S), NEW Bad, Bad \subseteq SUBSET S, {} \notin Bad, Bad # {}
    PROVE  \E T \in Bad : Recurs(T, S, Bad)
<1>1. PICK T \in Bad : \A U \in Bad : U \subseteq T => U = T
  BY SmallestSubset
<1>2. T \subseteq S /\ T # {}
  OBVIOUS
<1>3. IsFiniteSet(T)
  BY <1>2, FS_Subset
<1>4. IsFiniteSet(T \ {Chosen(T)})
  BY <1>3, FS_Subset
<1>5. Chosen(T) \in T
  BY <1>2 DEF Chosen
<1>6. T \ {Chosen(T)} \notin Bad
  BY <1>1, <1>5
<1>7. ASSUME NEW f
      PROVE  SumFunctionOnSet(f, T) = f[Chosen(T)] + SumFunctionOnSet(f, T \ {Chosen(T)})
  BY <1>2, <1>3, SumUnfold
<1> QED
  BY <1>2, <1>4, <1>5, <1>6, <1>7 DEF Recurs

LEMMA SumType ==
    ASSUME NEW S, IsFiniteSet(S), NEW f, \A x \in S : f[x] \in Int
    PROVE  SumFunctionOnSet(f, S) \in Int
<1> DEFINE Bad == {T \in SUBSET S : SumFunctionOnSet(f, T) \notin Int}
<1>1. SUFFICES ASSUME Bad # {} PROVE FALSE
  OBVIOUS
<1>2. Bad \subseteq SUBSET S /\ {} \notin Bad
  BY SumEmpty
<1> HIDE DEF Bad
<1>3. PICK T \in Bad : Recurs(T, S, Bad)
  BY <1>1, <1>2, SmallestBad
<1>4. SumFunctionOnSet(f, T \ {Chosen(T)}) \in Int /\ f[Chosen(T)] \in Int
  BY <1>3 DEF Recurs, Bad
<1> QED
  BY <1>3, <1>4 DEF Recurs, Bad

(* A change of one value changes the sum by as much.                       *)
LEMMA SumOneChanged ==
    ASSUME NEW S, IsFiniteSet(S), NEW u \in S, NEW f, NEW g,
           \A x \in S : f[x] \in Int /\ g[x] \in Int,
           \A x \in S \ {u} : g[x] = f[x]
    PROVE  SumFunctionOnSet(g, S) = SumFunctionOnSet(f, S) + (g[u] - f[u])
<1> DEFINE change(T) == IF u \in T THEN g[u] - f[u] ELSE 0
           Bad == {T \in SUBSET S :
                    SumFunctionOnSet(g, T) # SumFunctionOnSet(f, T) + change(T)}
<1>1. SUFFICES ASSUME Bad # {} PROVE FALSE
  OBVIOUS
<1>2. Bad \subseteq SUBSET S /\ {} \notin Bad
  BY SumEmpty
<1> HIDE DEF Bad
<1>3. PICK T \in Bad : Recurs(T, S, Bad)
  BY <1>1, <1>2, SmallestBad
<1> DEFINE x == Chosen(T)
           sumf == SumFunctionOnSet(f, T \ {x})
           sumg == SumFunctionOnSet(g, T \ {x})
<1>4. sumg = sumf + change(T \ {x})
  BY <1>3 DEF Recurs, Bad
<1>5. SumFunctionOnSet(f, T) = f[x] + sumf /\ SumFunctionOnSet(g, T) = g[x] + sumg
  BY <1>3 DEF Recurs
<1>6. sumf \in Int /\ x \in T /\ x \in S /\ f[x] \in Int /\ f[u] \in Int /\ g[u] \in Int
  BY <1>3, SumType DEF Recurs
<1>7. SumFunctionOnSet(g, T) # SumFunctionOnSet(f, T) + change(T)
  BY DEF Bad
<1> HIDE DEF x, sumf, sumg
<1>8. CASE x = u
  BY <1>4, <1>5, <1>6, <1>7, <1>8
<1>9. CASE x # u
  BY <1>4, <1>5, <1>6, <1>7, <1>9
<1> QED
  BY <1>8, <1>9

LEMMA Distributive == \A k \in Int, m \in Int, n \in Int : k * (m + n) = k * m + k * n
  OBVIOUS

(* The sum of a combination is the combination of the sums.                *)
LEMMA SumCombined ==
    ASSUME NEW S, IsFiniteSet(S), NEW f, NEW g, NEW h, NEW k \in Int,
           \A x \in S : f[x] \in Int /\ g[x] \in Int /\ h[x] = f[x] + k * g[x]
    PROVE  SumFunctionOnSet(h, S) = SumFunctionOnSet(f, S) + k * SumFunctionOnSet(g, S)
<1> DEFINE Bad == {T \in SUBSET S : SumFunctionOnSet(h, T)
                        # SumFunctionOnSet(f, T) + k * SumFunctionOnSet(g, T)}
<1>1. SUFFICES ASSUME Bad # {} PROVE FALSE
  OBVIOUS
<1>2. Bad \subseteq SUBSET S /\ {} \notin Bad
  BY SumEmpty
<1> HIDE DEF Bad
<1>3. PICK T \in Bad : Recurs(T, S, Bad)
  BY <1>1, <1>2, SmallestBad
<1> DEFINE x == Chosen(T)
           sumf == SumFunctionOnSet(f, T \ {x})
           sumg == SumFunctionOnSet(g, T \ {x})
           sumh == SumFunctionOnSet(h, T \ {x})
<1>4. sumh = sumf + k * sumg
  BY <1>3 DEF Recurs, Bad
<1>5. /\ SumFunctionOnSet(f, T) = f[x] + sumf /\ SumFunctionOnSet(g, T) = g[x] + sumg
      /\ SumFunctionOnSet(h, T) = h[x] + sumh
  BY <1>3 DEF Recurs
<1>6. sumf \in Int /\ sumg \in Int /\ f[x] \in Int /\ g[x] \in Int /\ h[x] = f[x] + k * g[x]
  BY <1>3, SumType DEF Recurs
<1>7. SumFunctionOnSet(h, T) # SumFunctionOnSet(f, T) + k * SumFunctionOnSet(g, T)
  BY DEF Bad
<1> HIDE DEF x, sumf, sumg, sumh
<1>8. k * (g[x] + sumg) = k * g[x] + k * sumg /\ k * g[x] \in Int /\ k * sumg \in Int
  BY <1>6, Distributive
<1> QED
  BY <1>4, <1>5, <1>6, <1>7, <1>8

(* A bound on every value is a bound on the sum.                           *)
LEMMA SumBounded ==
    ASSUME NEW S, IsFiniteSet(S), NEW f, NEW g, NEW k \in Int,
           \A x \in S : f[x] \in Int /\ g[x] \in Int /\ k * f[x] <= g[x]
    PROVE  k * SumFunctionOnSet(f, S) <= SumFunctionOnSet(g, S)
<1> DEFINE Bad == {T \in SUBSET S : ~ (k * SumFunctionOnSet(f, T) <= SumFunctionOnSet(g, T))}
<1>1. SUFFICES ASSUME Bad # {} PROVE FALSE
  OBVIOUS
<1>2. Bad \subseteq SUBSET S /\ {} \notin Bad
  BY SumEmpty
<1> HIDE DEF Bad
<1>3. PICK T \in Bad : Recurs(T, S, Bad)
  BY <1>1, <1>2, SmallestBad
<1> DEFINE x == Chosen(T)
           sumf == SumFunctionOnSet(f, T \ {x})
           sumg == SumFunctionOnSet(g, T \ {x})
<1>4. k * sumf <= sumg
  BY <1>3 DEF Recurs, Bad
<1>5. SumFunctionOnSet(f, T) = f[x] + sumf /\ SumFunctionOnSet(g, T) = g[x] + sumg
  BY <1>3 DEF Recurs
<1>6. sumf \in Int /\ sumg \in Int /\ f[x] \in Int /\ g[x] \in Int /\ k * f[x] <= g[x]
  BY <1>3, SumType DEF Recurs
<1>7. ~ (k * SumFunctionOnSet(f, T) <= SumFunctionOnSet(g, T))
  BY DEF Bad
<1> HIDE DEF x, sumf, sumg
<1>8. k * (f[x] + sumf) = k * f[x] + k * sumf /\ k * f[x] \in Int /\ k * sumf \in Int
  BY <1>6, Distributive
<1> QED
  BY <1>4, <1>5, <1>6, <1>7, <1>8

(* A sum of zeros.                                                         *)
LEMMA SumZero ==
    ASSUME NEW S, IsFiniteSet(S), NEW f, \A x \in S : f[x] = 0
    PROVE  SumFunctionOnSet(f, S) = 0
<1> DEFINE Bad == {T \in SUBSET S : SumFunctionOnSet(f, T) # 0}
<1>1. SUFFICES ASSUME Bad # {} PROVE FALSE
  OBVIOUS
<1>2. Bad \subseteq SUBSET S /\ {} \notin Bad
  BY SumEmpty
<1> HIDE DEF Bad
<1>3. PICK T \in Bad : Recurs(T, S, Bad)
  BY <1>1, <1>2, SmallestBad
<1>4. SumFunctionOnSet(f, T \ {Chosen(T)}) = 0 /\ f[Chosen(T)] = 0
  BY <1>3 DEF Recurs, Bad
<1> QED
  BY <1>3, <1>4 DEF Recurs, Bad

-----------------------------------------------------------------------------
(* A sum over the users is one over a finite set.                          *)
LEMMA SumOverUsers ==
    ASSUME NEW f, DOMAIN f = Users
    PROVE  SumFunction(f) = SumFunctionOnSet(f, Users) /\ IsFiniteSet(Users)
  BY UsersAssumption DEF SumFunction

-----------------------------------------------------------------------------
(* What a step does to the stakes.                                         *)
KeepsStakes ==
    /\ pool_state'.total_staked = pool_state.total_staked
    /\ \A u \in Users : user_info'[u].staked_amount = user_info[u].staked_amount

MovesStakeOf(u) ==
    /\ \A v \in Users \ {u} : user_info'[v] = user_info[v]
    /\ pool_state'.total_staked - pool_state.total_staked
            = user_info'[u].staked_amount - user_info[u].staked_amount

MovesOneStake == KeepsStakes \/ \E u \in Users : MovesStakeOf(u)

LEMMA KeptStakesAddUp ==
    ASSUME TotalStakedIsSum, KeepsStakes
    PROVE  TotalStakedIsSum'
<1>1. Stakes' = Stakes
  BY DEF KeepsStakes, Stakes
<1> QED
  BY <1>1 DEF TotalStakedIsSum, KeepsStakes

LEMMA MovedStakeAddsUp ==
    ASSUME TypeOK, TypeOK', TotalStakedIsSum, NEW u \in Users, MovesStakeOf(u)
    PROVE  TotalStakedIsSum'
<1> DEFINE f == Stakes
           g == Stakes'
<1>1. /\ DOMAIN f = Users /\ DOMAIN g = Users
      /\ \A x \in Users : f[x] \in Int /\ g[x] \in Int
      /\ \A x \in Users \ {u} : g[x] = f[x]
      /\ g[u] - f[u] = pool_state'.total_staked - pool_state.total_staked
  BY UtilsAssumption DEF Stakes, TypeOK, UserInfo, U64, MovesStakeOf
<1>2. /\ pool_state.total_staked = SumFunction(f)
      /\ TotalStakedIsSum' <=> pool_state'.total_staked = SumFunction(g)
  BY DEF TotalStakedIsSum
<1>3. pool_state.total_staked \in Int /\ pool_state'.total_staked \in Int
  BY UtilsAssumption DEF TypeOK, PoolState, U64
<1> HIDE DEF f, g
<1>4. SumFunction(g) = SumFunction(f) + (g[u] - f[u])
  BY <1>1, SumOverUsers, SumOneChanged
<1> QED
  BY <1>1, <1>2, <1>3, <1>4

-----------------------------------------------------------------------------
(* The calls.                                                              *)

(* A call that sets one stake and moves total_staked by the difference.    *)
LEMMA RestakeMoves ==
    ASSUME TypeOK, NEW u \in Users, NEW ps, NEW moved \in Int,
           user_info' = [user_info EXCEPT
                            ![u] = Restaked(ps, @, user_info[u].staked_amount + moved)],
           pool_state'.total_staked = pool_state.total_staked + moved
    PROVE  MovesOneStake
<1>1. /\ user_info'[u].staked_amount = user_info[u].staked_amount + moved
      /\ \A v \in Users \ {u} : user_info'[v] = user_info[v]
  BY DEF TypeOK, Restaked
<1>2. user_info[u].staked_amount \in Nat /\ pool_state.total_staked \in Nat
  BY UtilsAssumption DEF TypeOK, UserInfo, PoolState, U64
<1> QED
  BY <1>1, <1>2 DEF MovesOneStake, MovesStakeOf

LEMMA CreatePoolMoves ==
    ASSUME TypeOK, NothingBeforeCreation, NEW a, NEW b, NEW c, NEW d, NEW e,
           CreatePool(a, b, c, d, e)
    PROVE  MovesOneStake
<1>1. /\ pool_state.total_staked = 0 /\ UNCHANGED user_info
      /\ pool_state' = [pool_state EXCEPT !.reward_amount = c, !.total_staked = 0]
  BY DEF CreatePool, NothingBeforeCreation
<1> QED
  BY <1>1 DEF MovesOneStake, KeepsStakes, TypeOK, PoolState

LEMMA StartRewardMoves ==
    ASSUME TypeOK, StartReward PROVE MovesOneStake
<1>1. UNCHANGED user_info
  BY DEF StartReward
<1>2. pool_state'.total_staked = pool_state.total_staked
  BY DEF StartReward, TypeOK, PoolState
<1> QED
  BY <1>1, <1>2 DEF MovesOneStake, KeepsStakes

LEMMA StakeMoves ==
    ASSUME TypeOK, NEW u \in Users, NEW amount \in StakeAmounts, Stake(u, amount)
    PROVE  MovesOneStake
<1> DEFINE real == amount - Percent(amount, pool_config.stake_fee)
<1>1. /\ CanUpdate /\ CanSettle(u)
      /\ pool_state' = [Paid(Updated, Owed(u)) EXCEPT !.total_staked = @ + real]
      /\ user_info' = [user_info EXCEPT
                            ![u] = Restaked(Updated, @, user_info[u].staked_amount + real)]
  BY DEF Stake
<1>2. real \in Int
  BY ArgumentAssumption, UtilsAssumption, PercentBound DEF U64, TypeOK, PoolConfig
<1> HIDE DEF real
<1>3. pool_state'.total_staked = pool_state.total_staked + real
  BY <1>1, SettleBooks DEF PoolState
<1> QED
  BY <1>1, <1>2, <1>3, RestakeMoves

LEMMA UnstakeMoves ==
    ASSUME TypeOK, NEW u \in Users, NEW amount \in UnstakeAmounts, Unstake(u, amount)
    PROVE  MovesOneStake
<1> DEFINE moved == 0 - amount
<1>1. /\ CanUpdate /\ CanSettle(u)
      /\ pool_state' = Left(Paid(Updated, Owed(u)), amount)
      /\ user_info' = [user_info EXCEPT
                            ![u] = Restaked(Updated, @, user_info[u].staked_amount - amount)]
  BY DEF Unstake
<1>2. amount \in Nat /\ user_info[u].staked_amount \in Nat /\ pool_state.total_staked \in Nat
  BY ArgumentAssumption, UtilsAssumption DEF U64, TypeOK, UserInfo, PoolState
<1>3. pool_state'.total_staked = pool_state.total_staked - amount
  BY <1>1, SettleBooks DEF PoolState, Left
<1>4. /\ moved \in Int /\ pool_state'.total_staked = pool_state.total_staked + moved
      /\ user_info[u].staked_amount - amount = user_info[u].staked_amount + moved
  BY <1>2, <1>3
<1> HIDE DEF moved
<1> QED
  BY <1>1, <1>4, RestakeMoves

LEMMA CallWithoutStakeMoves ==
    ASSUME TypeOK, NEW u \in Users, CallWithoutStake(u) PROVE MovesOneStake
  BY UpdatedType DEF CallWithoutStake, MovesOneStake, KeepsStakes

LEMMA ClaimStakedMoves ==
    ASSUME TypeOK, NEW u \in Users, ClaimStaked(u) PROVE MovesOneStake
<1> DEFINE moved == 0
<1>1. /\ CanUpdate /\ CanSettle(u)
      /\ pool_state' = Paid(Updated, Owed(u))
      /\ user_info' = [user_info EXCEPT
                            ![u] = Restaked(Updated, @, user_info[u].staked_amount)]
  BY DEF ClaimStaked, TypeOK
<1>2. user_info[u].staked_amount \in Nat /\ pool_state.total_staked \in Nat
  BY UtilsAssumption DEF U64, TypeOK, UserInfo, PoolState
<1>3. pool_state'.total_staked = pool_state.total_staked + moved
  BY <1>1, <1>2, SettleBooks
<1>4. user_info' = [user_info EXCEPT
                        ![u] = Restaked(Updated, @, user_info[u].staked_amount + moved)]
  <2>1. user_info[u].staked_amount = user_info[u].staked_amount + moved
    BY <1>2
  <2> QED
    BY <1>1, <2>1, Zenon
<1>5. moved \in Int
  OBVIOUS
<1> HIDE DEF moved
<1> QED
  BY <1>3, <1>4, <1>5, RestakeMoves

LEMMA CompoundMoves ==
    ASSUME TypeOK, NEW u \in Users, NEW added \in Int,
           CanCompound(u, added), CompoundState(u, added)
    PROVE  MovesOneStake
<1>1. /\ CanUpdate
      /\ pool_state' = Compounded(Updated, Owed(u), added)
      /\ user_info' = [user_info EXCEPT
                            ![u] = Restaked(Updated, @, user_info[u].staked_amount + added)]
  BY DEF CanCompound, CompoundState, TypeOK
<1>2. pool_state'.total_staked = pool_state.total_staked + added
  BY <1>1, UpdatedType DEF Compounded, PoolState
<1> QED
  BY <1>1, <1>2, RestakeMoves

LEMMA StopRewardMoves ==
    ASSUME TypeOK, StopReward PROVE MovesOneStake
<1>1. /\ CanUpdate /\ UNCHANGED user_info
      /\ pool_state' = [Updated EXCEPT !.total_earned = SaturatingSub(@, Surplus(Updated))]
  BY DEF StopReward
<1>2. pool_state'.total_staked = pool_state.total_staked
  BY <1>1, UpdatedType DEF PoolState
<1> QED
  BY <1>1, <1>2 DEF MovesOneStake, KeepsStakes

LEMMA MovesStep == TypeOK /\ NothingBeforeCreation /\ [Next]_vars => MovesOneStake
<1> SUFFICES ASSUME TypeOK, NothingBeforeCreation, [Next]_vars PROVE MovesOneStake
  OBVIOUS
<1>1. ASSUME UNCHANGED << pool_state, user_info >> PROVE MovesOneStake
  BY <1>1 DEF MovesOneStake, KeepsStakes
<1>2. UNCHANGED vars => MovesOneStake
  BY <1>1 DEF vars
<1>3. Tick => MovesOneStake
  BY <1>1 DEF Tick
<1>4. \A a \in DeployFees, b \in PerformanceFees : Initialize(a, b) => MovesOneStake
  BY <1>1 DEF Initialize
<1>5. \A u \in Users : CompoundDirect(u) => MovesOneStake
  BY CompoundOwed, CompoundMoves DEF CompoundDirect
<1>6. \A u \in Users : \A out \in SwapOutputs : CompoundSwap(u, out) => MovesOneStake
  BY CompoundMoves DEF CompoundSwap
<1> QED
  BY <1>2, <1>3, <1>4, <1>5, <1>6, StepCases, CreatePoolMoves, StartRewardMoves,
     StakeMoves, UnstakeMoves, CallWithoutStakeMoves, ClaimStakedMoves, StopRewardMoves

LEMMA InitStakes == Init => TotalStakedIsSum
<1> SUFFICES ASSUME Init PROVE TotalStakedIsSum
  OBVIOUS
<1>1. DOMAIN Stakes = Users /\ \A u \in Users : Stakes[u] = 0
  BY DEF Init, PoolInit, Stakes
<1>2. SumFunction(Stakes) = 0
  BY <1>1, SumOverUsers, SumZero
<1> QED
  BY <1>2 DEF Init, PoolInit, TotalStakedIsSum

LEMMA TotalStep == TypeOK /\ TypeOK' /\ TotalStakedIsSum /\ MovesOneStake => TotalStakedIsSum'
  BY KeptStakesAddUp, MovedStakeAddsUp DEF MovesOneStake

(* total_staked is the sum of the stakes after any history of calls of any *)
(* number of users, so update_pool divides by the whole stake.             *)
THEOREM TotalIsSum == Spec => []TotalStakedIsSum
<1>1. Books => NothingBeforeCreation
  BY DEF Books
<1> QED
  BY <1>1, InitStakes, TotalStep, MovesStep, TypeCorrect, BooksCorrect, PTL DEF Spec
-----------------------------------------------------------------------------
(* What is paid and pending against what was emitted.                      *)

(* Division rounds down by less than one unit.                             *)
LEMMA FloorBounds ==
    ASSUME NEW n \in Nat, NEW d \in Nat \ {0}
    PROVE  n \div d \in Nat /\ d * (n \div d) <= n /\ n - d * (n \div d) <= d - 1
  OBVIOUS

LEMMA Products ==
    ASSUME NEW a \in Int, NEW b \in Int, NEW c \in Int
    PROVE  /\ a * b \in Int /\ a * b = b * a
           /\ a * (b + c) = a * b + a * c /\ a * (b - c) = a * b - a * c
  OBVIOUS

(* The accounts of the users, as far as the emission is concerned.         *)
LEMMA SolvencyTypes ==
    ASSUME TypeOK
    PROVE  /\ pool_state.paid_rewards \in Nat /\ pool_state.should_total_paid \in Nat
           /\ pool_state.acc_token_per_share \in Nat /\ pool_state.total_staked \in Nat
           /\ hist.restakes \in Nat
           /\ \A u \in Users : user_info[u].staked_amount \in Nat
                                /\ user_info[u].reward_debt \in Nat
  BY UtilsAssumption DEF TypeOK, PoolState, UserInfo, HistType, U64

(* What a pool state leaves of the emission when the pendings are taken.   *)
Within(ps) ==
    PrecisionFactor * ps.paid_rewards + SumFunction(Unpaid(ps))
        <= PrecisionFactor * ps.should_total_paid + (PrecisionFactor - 1) * hist.restakes

(* update_pool pays nothing.                                               *)
LEMMA UpdatedPaid ==
    ASSUME TypeOK
    PROVE  /\ Updated.paid_rewards = pool_state.paid_rewards
           /\ Updated.reward_amount = pool_state.reward_amount
           /\ Updated.total_staked = pool_state.total_staked
<1> DEFINE reward == Emitted(pool_config, pool_state, slot)
           acc == AccPerShare(pool_state, reward)
<1>1. \/ Updated = pool_state
      \/ Updated = [pool_state EXCEPT !.last_reward_slot = slot]
      \/ Updated = [pool_state EXCEPT !.acc_token_per_share = acc,
                                      !.last_reward_slot = slot,
                                      !.should_total_paid = @ + reward]
  BY DEF Updated, UpdatePool
<1> HIDE DEF reward, acc
<1> QED
  BY <1>1 DEF TypeOK, PoolState

(* What the accumulator adds to all stakes together is no more than the    *)
(* emission of the slots it is brought up to date for.                     *)
LEMMA ShareOfEmission ==
    ASSUME HasPrecision, NEW reward \in Nat, NEW total \in Nat \ {0}
    PROVE  LET added == (reward * PrecisionFactor) \div total
           IN  added \in Nat /\ added * total <= PrecisionFactor * reward
<1>1. PrecisionFactor \in Nat
  BY PrecisionFactorType
<1> DEFINE n == reward * PrecisionFactor
<1>2. n \in Nat /\ n = PrecisionFactor * reward
  BY <1>1
<1> HIDE DEF n
<1>3. n \div total \in Nat /\ total * (n \div total) <= n
  BY <1>2, FloorBounds
<1>4. total * (n \div total) = (n \div total) * total
  BY <1>3
<1> QED
  BY <1>2, <1>3, <1>4 DEF n

LEMMA UpdateWithin ==
    ASSUME TypeOK, HasPrecision, TotalStakedIsSum, Within(pool_state)
    PROVE  Within(Updated)
<1>1. CASE ~IsStale(pool_state, slot)
  BY <1>1, UpdatedFields
<1>2. CASE IsStale(pool_state, slot) /\ pool_state.total_staked = 0
  <2>1. /\ Updated.should_total_paid = pool_state.should_total_paid
        /\ Updated.acc_token_per_share = pool_state.acc_token_per_share
    BY <1>2, UpdatedFields
  <2>2. Updated.paid_rewards = pool_state.paid_rewards
    BY UpdatedPaid
  <2> QED
    BY <2>1, <2>2 DEF Within, Unpaid
<1>3. CASE IsStale(pool_state, slot) /\ pool_state.total_staked # 0
  <2> DEFINE P == PrecisionFactor
             reward == Emitted(pool_config, pool_state, slot)
             total == pool_state.total_staked
             added == (reward * P) \div total
             f == Unpaid(pool_state)
             g == Stakes
             h == Unpaid(Updated)
             paid == pool_state.paid_rewards
             should == pool_state.should_total_paid
             slack == (P - 1) * hist.restakes
  <2>1. /\ Updated.should_total_paid = should + reward
        /\ Updated.acc_token_per_share = pool_state.acc_token_per_share + added
        /\ Updated.paid_rewards = paid
    BY <1>3, UpdatedFields, UpdatedPaid DEF AccPerShare
  <2>2. reward \in Nat /\ total \in Nat \ {0} /\ P \in Nat \ {0}
    BY <1>3, EmittedNat, SolvencyTypes, PrecisionFactorType DEF TypeOK
  <2>3. added \in Nat /\ added * total <= P * reward /\ P * reward \in Int
    BY <2>2, ShareOfEmission
  <2>4. paid \in Nat /\ should \in Nat /\ slack \in Int
    BY <2>2, SolvencyTypes
  <2>5. /\ DOMAIN f = Users /\ DOMAIN g = Users /\ DOMAIN h = Users
        /\ \A u \in Users : f[u] \in Int /\ g[u] \in Int /\ h[u] = f[u] + added * g[u]
    <3>1. DOMAIN f = Users /\ DOMAIN g = Users /\ DOMAIN h = Users
      BY DEF Unpaid, Stakes
    <3>2. ASSUME NEW u \in Users
          PROVE  f[u] \in Int /\ g[u] \in Int /\ h[u] = f[u] + added * g[u]
      <4> DEFINE staked == user_info[u].staked_amount
                 debt == user_info[u].reward_debt
                 acc == pool_state.acc_token_per_share
      <4>1. /\ f[u] = staked * acc - P * debt /\ g[u] = staked
            /\ h[u] = staked * (acc + added) - P * debt
        BY <2>1 DEF Unpaid, Stakes
      <4>2. staked \in Int /\ debt \in Int /\ acc \in Int /\ added \in Int /\ P \in Int
        BY <2>2, <2>3, SolvencyTypes
      <4> HIDE DEF staked, debt, acc, added, P, f, g, h
      <4>3. /\ staked * acc \in Int /\ P * debt \in Int /\ added * staked \in Int
            /\ staked * (acc + added) = staked * acc + added * staked
        BY <4>2, Products
      <4> QED
        BY <4>1, <4>2, <4>3
    <3> QED
      BY <3>1, <3>2
  <2>6. total = SumFunction(g) /\ P * paid + SumFunction(f) <= P * should + slack
    BY DEF TotalStakedIsSum, Within
  <2>7. Within(Updated) <=> P * paid + SumFunction(h) <= P * (should + reward) + slack
    BY <2>1 DEF Within
  <2> HIDE DEF P, reward, total, added, f, g, h, paid, should, slack
  <2>8. SumFunction(h) = SumFunction(f) + added * total /\ SumFunction(f) \in Int
    BY <2>3, <2>5, <2>6, SumOverUsers, SumCombined, SumType
  <2>9. /\ P * (should + reward) = P * should + P * reward
        /\ P * should \in Int /\ P * paid \in Int /\ added * total \in Int
    BY <2>2, <2>3, <2>4, Products
  <2> QED
    BY <2>3, <2>4, <2>6, <2>7, <2>8, <2>9
<1> QED
  BY <1>1, <1>2, <1>3

(* A call that settles what u is owed, books it as paid, and sets the      *)
(* stake of u; it counts as a restake unless the stake stays as it is.     *)
SettlesFor(u, staked, counted) ==
    /\ pool_state'.acc_token_per_share = Updated.acc_token_per_share
    /\ pool_state'.should_total_paid = Updated.should_total_paid
    /\ pool_state'.paid_rewards = pool_state.paid_rewards + Owed(u)
    /\ user_info' = [user_info EXCEPT ![u] = Restaked(Updated, @, staked)]
    /\ hist'.restakes = hist.restakes + counted
    /\ \/ counted = 1
       \/ counted = 0 /\ staked = user_info[u].staked_amount /\ staked > 0

(* A call that brings the pool up to date and settles nobody's reward.     *)
SettlesNobody ==
    /\ pool_state'.acc_token_per_share = Updated.acc_token_per_share
    /\ pool_state'.should_total_paid = Updated.should_total_paid
    /\ pool_state'.paid_rewards = pool_state.paid_rewards
    /\ hist'.restakes = hist.restakes
    /\ UNCHANGED user_info

SettlesNothing ==
    /\ pool_state'.acc_token_per_share = pool_state.acc_token_per_share
    /\ pool_state'.should_total_paid = pool_state.should_total_paid
    /\ pool_state'.paid_rewards = pool_state.paid_rewards
    /\ hist'.restakes = hist.restakes
    /\ UNCHANGED user_info

Pays ==
    \/ SettlesNothing
    \/ CanUpdate /\ SettlesNobody
    \/ CanUpdate /\ \E u \in Users : \E staked \in Nat, counted \in {0, 1} :
            SettlesFor(u, staked, counted)

LEMMA FirstStake ==
    ASSUME NEW P \in Nat \ {0}, NEW after \in Int, after <= P - 1
    PROVE  after - 0 <= (P - 1) * 1 - P * 0
  OBVIOUS

(* What the stake of one user has not been paid, before and after the      *)
(* reward is settled: less by the reward that is paid, plus, for a new     *)
(* stake, what its debt is rounded down by.                                *)
LEMMA SettledTerm ==
    ASSUME NEW P \in Nat \ {0}, NEW acc \in Nat, NEW staked \in Nat, NEW debt \in Nat,
           NEW restaked \in Nat, NEW owed, NEW counted,
           debt <= (staked * acc) \div P,
           owed = IF staked > 0 THEN (staked * acc) \div P - debt ELSE 0,
           \/ counted = 1
           \/ counted = 0 /\ restaked = staked /\ staked > 0,
           NEW before, before = staked * acc - P * debt,
           NEW after, after = restaked * acc - P * ((restaked * acc) \div P)
    PROVE  /\ owed \in Nat /\ before \in Int /\ after \in Int
           /\ after - before <= (P - 1) * counted - P * owed
<1> DEFINE m == staked * acc
           n == restaked * acc
<1>1. P \in Nat \ {0} /\ before = m - P * debt /\ after = n - P * (n \div P)
  OBVIOUS
<1>2. m \in Nat /\ n \in Nat
  BY TimesMonotonic
<1>3. staked = 0 => m = 0
  OBVIOUS
<1>4. counted = 0 => n = m
  OBVIOUS
<1>5. /\ debt <= m \div P
      /\ owed = IF staked > 0 THEN m \div P - debt ELSE 0
  OBVIOUS
<1> HIDE DEF m, n
<1>6. /\ m \div P \in Nat /\ P * (m \div P) <= m /\ m - P * (m \div P) <= P - 1
      /\ n \div P \in Nat /\ P * (n \div P) <= n /\ n - P * (n \div P) <= P - 1
  BY <1>1, <1>2, FloorBounds
<1>7. owed \in Nat
  BY <1>5, <1>6
<1>8. /\ P * (m \div P) \in Int /\ P * (n \div P) \in Int /\ P * debt \in Int /\ P * owed \in Int
      /\ P * (m \div P - debt) = P * (m \div P) - P * debt
  BY <1>1, <1>6, <1>7, Products
<1>9. CASE staked > 0
  <2>1. P * owed = P * (m \div P) - P * debt
    BY <1>5, <1>8, <1>9
  <2>2. CASE counted = 1
    BY <1>1, <1>2, <1>6, <1>7, <1>8, <2>1, <2>2
  <2>3. CASE counted = 0
    BY <1>1, <1>2, <1>4, <1>6, <1>7, <1>8, <2>1, <2>3
  <2> QED
    BY <2>2, <2>3
<1>10. CASE ~ (staked > 0)
  <2>1. m = 0 /\ m \div P = 0 /\ debt = 0 /\ counted = 1 /\ owed = 0
    BY <1>1, <1>3, <1>5, <1>10
  <2>2. P * debt = 0 /\ P * owed = 0
    BY <1>1, <2>1
  <2>3. before = 0 /\ after \in Int /\ after <= P - 1
    BY <1>1, <1>2, <1>6, <1>8, <2>1, <2>2
  <2> QED
    BY <1>7, <2>1, <2>3, FirstStake
<1> QED
  BY <1>9, <1>10

LEMMA SettledWithin ==
    ASSUME TypeOK, TypeOK', HasPrecision, TotalStakedIsSum, DebtCovered, Within(pool_state),
           CanUpdate, NEW u \in Users, NEW staked \in Nat, NEW counted \in {0, 1},
           SettlesFor(u, staked, counted)
    PROVE  Within(pool_state)'
<1> DEFINE P == PrecisionFactor
           f == Unpaid(Updated)
           g == Unpaid(pool_state)'
           acc == Updated.acc_token_per_share
           paid == pool_state.paid_rewards
           should == Updated.should_total_paid
           restakes == hist.restakes
<1>1. P \in Nat \ {0} /\ acc \in Nat /\ paid \in Nat /\ restakes \in Nat /\ should \in Nat
  BY SolvencyTypes, UpdatedType, PrecisionFactorType, UtilsAssumption DEF PoolState, U64
<1>2. P * paid + SumFunction(f) <= P * should + (P - 1) * restakes
  BY UpdateWithin, UpdatedPaid DEF Within
<1>3. /\ pool_state'.acc_token_per_share = acc /\ pool_state'.should_total_paid = should
      /\ pool_state'.paid_rewards = paid + Owed(u) /\ hist'.restakes = restakes + counted
      /\ \A v \in Users \ {u} : user_info'[v] = user_info[v]
      /\ user_info'[u].staked_amount = staked
      /\ user_info'[u].reward_debt = (staked * acc) \div P
  BY DEF SettlesFor, TypeOK, Restaked, Accrued
<1>4. DOMAIN f = Users /\ DOMAIN g = Users
  BY DEF Unpaid
<1>5. /\ \A v \in Users : f[v] = user_info[v].staked_amount * acc
                                - P * user_info[v].reward_debt
      /\ \A v \in Users : g[v] = user_info'[v].staked_amount * acc
                                - P * user_info'[v].reward_debt
  BY <1>3 DEF Unpaid
<1>6. \A v \in Users : /\ user_info[v].staked_amount \in Nat /\ user_info[v].reward_debt \in Nat
                       /\ user_info'[v].staked_amount \in Nat
                       /\ user_info'[v].reward_debt \in Nat
  BY UtilsAssumption DEF TypeOK, UserInfo, U64
<1>7. user_info[u].reward_debt <= (user_info[u].staked_amount * acc) \div P
  <2>1. user_info[u].reward_debt <= Accrued(pool_state, user_info[u].staked_amount)
    BY DEF DebtCovered
  <2>2. Accrued(pool_state, user_info[u].staked_amount)
            <= Accrued(Updated, user_info[u].staked_amount)
    BY AccruedMonotonic, UpdatedType, SolvencyTypes DEF TypeOK, UserInfo
  <2>3. /\ Accrued(pool_state, user_info[u].staked_amount) \in Nat
        /\ Accrued(Updated, user_info[u].staked_amount) \in Nat
    BY <1>1, <1>6, SolvencyTypes, TimesMonotonic, DivType DEF Accrued
  <2> QED
    BY <1>6, <2>1, <2>2, <2>3 DEF Accrued
<1>8. /\ Owed(u) = IF user_info[u].staked_amount > 0
                   THEN (user_info[u].staked_amount * acc) \div P - user_info[u].reward_debt
                   ELSE 0
      /\ \/ counted = 1
         \/ counted = 0 /\ staked = user_info[u].staked_amount /\ user_info[u].staked_amount > 0
  BY DEF Owed, Pending, Accrued, SettlesFor
<1>9. Within(pool_state)' <=>
        P * (paid + Owed(u)) + SumFunction(g) <= P * should + (P - 1) * (restakes + counted)
  BY <1>3 DEF Within
<1> HIDE DEF P, f, g, acc, paid, should, restakes
<1>10. Owed(u) \in Nat /\ f[u] \in Int /\ g[u] \in Int
       /\ g[u] - f[u] <= (P - 1) * counted - P * Owed(u)
  <2> DEFINE old == user_info[u].staked_amount
             debt == user_info[u].reward_debt
  <2>1. f[u] = old * acc - P * debt /\ g[u] = staked * acc - P * ((staked * acc) \div P)
    BY <1>3, <1>5
  <2>2. old \in Nat /\ debt \in Nat /\ acc \in Nat
    BY <1>1, <1>6
  <2>3. /\ debt <= (old * acc) \div P
        /\ Owed(u) = IF old > 0 THEN (old * acc) \div P - debt ELSE 0
        /\ \/ counted = 1
           \/ counted = 0 /\ staked = old /\ old > 0
    BY <1>7, <1>8
  <2> DEFINE owed == Owed(u)
  <2>4. owed = Owed(u)
    OBVIOUS
  <2> HIDE DEF old, debt, owed
  <2> QED
    BY <1>1, <2>1, <2>2, <2>3, <2>4, SettledTerm
<1>11. \A v \in Users : f[v] \in Int /\ g[v] \in Int
  BY <1>1, <1>5, <1>6, Products
<1>12. \A v \in Users \ {u} : g[v] = f[v]
  BY <1>3, <1>5
<1>13. SumFunction(g) = SumFunction(f) + (g[u] - f[u]) /\ SumFunction(f) \in Int
  BY <1>4, <1>11, <1>12, SumOverUsers, SumOneChanged, SumType
<1>14. /\ P * (paid + Owed(u)) = P * paid + P * Owed(u)
       /\ (P - 1) * (restakes + counted) = (P - 1) * restakes + (P - 1) * counted
       /\ P * paid \in Int /\ P * Owed(u) \in Int /\ P * should \in Int
       /\ (P - 1) * restakes \in Int /\ (P - 1) * counted \in Int
  BY <1>1, <1>10, Products
<1> QED
  BY <1>2, <1>9, <1>10, <1>13, <1>14

LEMMA UnsettledWithin ==
    ASSUME TypeOK, HasPrecision, TotalStakedIsSum, Within(pool_state),
           SettlesNothing \/ SettlesNobody
    PROVE  Within(pool_state)'
<1>1. Within(Updated)
  BY UpdateWithin
<1>2. CASE SettlesNothing
  BY <1>2 DEF SettlesNothing, Within, Unpaid
<1>3. CASE SettlesNobody
  BY <1>1, <1>3, UpdatedPaid DEF SettlesNobody, Within, Unpaid
<1> QED
  BY <1>2, <1>3

LEMMA PaysWithin ==
    ASSUME TypeOK, TypeOK', HasPrecision, TotalStakedIsSum, DebtCovered, Within(pool_state),
           Pays
    PROVE  Within(pool_state)'
  BY SettledWithin, UnsettledWithin DEF Pays

-----------------------------------------------------------------------------
(* Every call pays so.                                                     *)

LEMMA PaidKeeps ==
    ASSUME NEW ps \in PoolState, NEW pending
    PROVE  /\ Paid(ps, pending).acc_token_per_share = ps.acc_token_per_share
           /\ Paid(ps, pending).should_total_paid = ps.should_total_paid
  BY PaidSchedule

LEMMA CreatePoolPays ==
    ASSUME TypeOK, NEW a, NEW b, NEW c, NEW d, NEW e, CreatePool(a, b, c, d, e)
    PROVE  Pays
<1>1. /\ pool_state' = [pool_state EXCEPT !.reward_amount = c, !.total_staked = 0]
      /\ hist' = [hist EXCEPT !.funding = c] /\ UNCHANGED user_info
  BY DEF CreatePool
<1> QED
  BY <1>1 DEF Pays, SettlesNothing, TypeOK, PoolState, HistType

LEMMA StartRewardPays ==
    ASSUME TypeOK, StartReward PROVE Pays
<1> DEFINE short == InsufficientRewards(pool_config, pool_state)
           start == slot + START_DELAY
<1>1. /\ pool_state' = [pool_state EXCEPT !.last_reward_slot = start]
      /\ hist' = [hist EXCEPT !.shortfall = short] /\ UNCHANGED user_info
  BY DEF StartReward
<1> HIDE DEF short, start
<1> QED
  BY <1>1 DEF Pays, SettlesNothing, TypeOK, PoolState, HistType

LEMMA StakePays ==
    ASSUME TypeOK, NEW u \in Users, NEW amount \in StakeAmounts, Stake(u, amount)
    PROVE  Pays
<1> DEFINE real == amount - Percent(amount, pool_config.stake_fee)
           staked == user_info[u].staked_amount + real
<1>1. /\ CanUpdate /\ CanSettle(u) /\ Fits(staked)
      /\ pool_state' = [Paid(Updated, Owed(u)) EXCEPT !.total_staked = @ + real]
      /\ user_info' = [user_info EXCEPT ![u] = Restaked(Updated, @, staked)]
      /\ hist' = [hist EXCEPT !.restakes = @ + 1]
  BY DEF Stake
<1>2. staked \in Nat
  BY <1>1, UtilsAssumption DEF Fits, U64
<1> HIDE DEF real, staked
<1>3. /\ pool_state'.acc_token_per_share = Updated.acc_token_per_share
      /\ pool_state'.should_total_paid = Updated.should_total_paid
      /\ pool_state'.paid_rewards = pool_state.paid_rewards + Owed(u)
  BY <1>1, SettleBooks, UpdatedType, PaidKeeps DEF PoolState
<1>4. hist'.restakes = hist.restakes + 1
  BY <1>1 DEF TypeOK, HistType
<1>5. SettlesFor(u, staked, 1)
  BY <1>1, <1>3, <1>4 DEF SettlesFor
<1> QED
  BY <1>1, <1>2, <1>5 DEF Pays

LEMMA UnstakePays ==
    ASSUME TypeOK, NEW u \in Users, NEW amount \in UnstakeAmounts, Unstake(u, amount)
    PROVE  Pays
<1> DEFINE staked == user_info[u].staked_amount - amount
<1>1. /\ CanUpdate /\ CanSettle(u) /\ Fits(staked)
      /\ pool_state' = Left(Paid(Updated, Owed(u)), amount)
      /\ user_info' = [user_info EXCEPT ![u] = Restaked(Updated, @, staked)]
      /\ hist' = [hist EXCEPT !.restakes = @ + 1]
  BY DEF Unstake
<1>2. staked \in Nat
  BY <1>1, UtilsAssumption DEF Fits, U64
<1> HIDE DEF staked
<1>3. /\ pool_state'.acc_token_per_share = Updated.acc_token_per_share
      /\ pool_state'.should_total_paid = Updated.should_total_paid
      /\ pool_state'.paid_rewards = pool_state.paid_rewards + Owed(u)
  BY <1>1, SettleBooks, UpdatedType, PaidKeeps DEF PoolState, Left
<1>4. hist'.restakes = hist.restakes + 1
  BY <1>1 DEF TypeOK, HistType
<1>5. SettlesFor(u, staked, 1)
  BY <1>1, <1>3, <1>4 DEF SettlesFor
<1> QED
  BY <1>1, <1>2, <1>5 DEF Pays

LEMMA CallWithoutStakePays ==
    ASSUME TypeOK, NEW u \in Users, CallWithoutStake(u) PROVE Pays
<1>1. CanUpdate /\ pool_state' = Updated /\ UNCHANGED << user_info, hist >>
  BY DEF CallWithoutStake
<1> QED
  BY <1>1, UpdatedType DEF Pays, SettlesNobody

LEMMA ClaimStakedPays ==
    ASSUME TypeOK, NEW u \in Users, ClaimStaked(u) PROVE Pays
<1> DEFINE staked == user_info[u].staked_amount
<1>1. /\ CanUpdate /\ CanSettle(u) /\ staked > 0
      /\ pool_state' = Paid(Updated, Owed(u))
      /\ user_info' = [user_info EXCEPT ![u] = Restaked(Updated, @, staked)]
      /\ UNCHANGED hist
  BY DEF ClaimStaked, TypeOK
<1>2. staked \in Nat /\ hist.restakes \in Nat
  BY SolvencyTypes
<1> HIDE DEF staked
<1>3. /\ pool_state'.acc_token_per_share = Updated.acc_token_per_share
      /\ pool_state'.should_total_paid = Updated.should_total_paid
      /\ pool_state'.paid_rewards = pool_state.paid_rewards + Owed(u)
  BY <1>1, SettleBooks, UpdatedType, PaidKeeps
<1>4. hist'.restakes = hist.restakes + 0
  BY <1>1, <1>2
<1>5. SettlesFor(u, staked, 0)
  BY <1>1, <1>3, <1>4 DEF SettlesFor, staked
<1> QED
  BY <1>1, <1>2, <1>5 DEF Pays

(* A compounded reward counts as a restake when it is added to the stake.  *)
LEMMA CompoundPays ==
    ASSUME TypeOK, NEW u \in Users, NEW added \in Nat, NEW counted \in {0, 1},
           CanCompound(u, added), CompoundState(u, added),
           hist'.restakes = hist.restakes + counted, added > 0 => counted = 1
    PROVE  Pays
<1> DEFINE staked == user_info[u].staked_amount + added
<1>1. /\ CanUpdate /\ user_info[u].staked_amount > 0
      /\ pool_state' = Compounded(Updated, Owed(u), added)
      /\ user_info' = [user_info EXCEPT ![u] = Restaked(Updated, @, staked)]
  BY DEF CanCompound, CompoundState, TypeOK
<1>2. user_info[u].staked_amount \in Nat
  BY SolvencyTypes
<1>3. staked \in Nat /\ (counted = 0 => staked = user_info[u].staked_amount)
  BY <1>2
<1> HIDE DEF staked
<1>4. /\ pool_state'.acc_token_per_share = Updated.acc_token_per_share
      /\ pool_state'.should_total_paid = Updated.should_total_paid
      /\ pool_state'.paid_rewards = pool_state.paid_rewards + Owed(u)
  BY <1>1, UpdatedType DEF Compounded, PoolState
<1>5. SettlesFor(u, staked, counted)
  BY <1>1, <1>3, <1>4 DEF SettlesFor
<1> QED
  BY <1>1, <1>3, <1>5 DEF Pays

LEMMA CompoundDirectPays ==
    ASSUME TypeOK, NEW u \in Users, CompoundDirect(u) PROVE Pays
<1> DEFINE counted == IF Owed(u) > 0 THEN 1 ELSE 0
<1>1. /\ CanCompound(u, Owed(u)) /\ CompoundState(u, Owed(u))
      /\ hist' = [hist EXCEPT !.compounded = @ + Owed(u), !.restaked = @ + Owed(u),
                              !.restakes = @ + counted]
  BY DEF CompoundDirect
<1>2. hist'.restakes = hist.restakes + counted
  BY <1>1 DEF TypeOK, HistType
<1>3. Owed(u) \in Nat
  BY <1>1, CompoundOwed
<1> QED
  BY <1>1, <1>2, <1>3, CompoundPays

LEMMA CompoundSwapPays ==
    ASSUME TypeOK, NEW u \in Users, NEW out \in SwapOutputs, CompoundSwap(u, out)
    PROVE  Pays
<1>1. /\ CanCompound(u, 0) /\ CompoundState(u, 0)
      /\ hist' = [hist EXCEPT !.compounded = @ + Owed(u), !.swapped_in = @ + Owed(u),
                              !.swapped_out = @ + out]
  BY DEF CompoundSwap
<1>2. hist'.restakes = hist.restakes + 0
  BY <1>1, SolvencyTypes DEF TypeOK, HistType
<1> QED
  BY <1>1, <1>2, CompoundPays

LEMMA StopRewardPays ==
    ASSUME TypeOK, StopReward PROVE Pays
<1> DEFINE earned == SaturatingSub(Updated.total_earned, Surplus(Updated))
           swept == hist.swept + Surplus(Updated)
<1>1. /\ CanUpdate /\ UNCHANGED user_info
      /\ pool_state' = [Updated EXCEPT !.total_earned = earned]
      /\ hist' = [hist EXCEPT !.swept = swept, !.announced_end = slot]
  BY DEF StopReward
<1> HIDE DEF earned, swept
<1>2. /\ pool_state'.acc_token_per_share = Updated.acc_token_per_share
      /\ pool_state'.should_total_paid = Updated.should_total_paid
      /\ pool_state'.paid_rewards = pool_state.paid_rewards
  BY <1>1, UpdatedType DEF PoolState
<1>3. hist'.restakes = hist.restakes
  BY <1>1 DEF TypeOK, HistType
<1> QED
  BY <1>1, <1>2, <1>3 DEF Pays, SettlesNobody

LEMMA PaysStep == TypeOK /\ [Next]_vars => Pays
<1> SUFFICES ASSUME TypeOK, [Next]_vars PROVE Pays
  OBVIOUS
<1>1. ASSUME UNCHANGED << pool_state, user_info, hist >> PROVE Pays
  BY <1>1 DEF Pays, SettlesNothing
<1>2. UNCHANGED vars => Pays
  BY <1>1 DEF vars
<1>3. Tick => Pays
  BY <1>1 DEF Tick
<1>4. \A a \in DeployFees, b \in PerformanceFees : Initialize(a, b) => Pays
  BY <1>1 DEF Initialize
<1> QED
  BY <1>2, <1>3, <1>4, StepCases, CreatePoolPays, StartRewardPays, StakePays, UnstakePays,
     CallWithoutStakePays, ClaimStakedPays, CompoundDirectPays, CompoundSwapPays,
     StopRewardPays

LEMMA InitWithin == Init => PaidWithinEmission
<1> SUFFICES ASSUME Init, HasPrecision PROVE Within(pool_state)
  BY DEF PaidWithinEmission, Within
<1>1. /\ pool_state.acc_token_per_share = 0 /\ pool_state.paid_rewards = 0
      /\ pool_state.should_total_paid = 0 /\ hist.restakes = 0
      /\ \A u \in Users : user_info[u].staked_amount = 0 /\ user_info[u].reward_debt = 0
  BY DEF Init, PoolInit
<1>2. PrecisionFactor \in Nat \ {0}
  BY PrecisionFactorType
<1>3. DOMAIN Unpaid(pool_state) = Users /\ \A u \in Users : Unpaid(pool_state)[u] = 0
  BY <1>1, <1>2 DEF Unpaid
<1>4. SumFunction(Unpaid(pool_state)) = 0
  BY <1>3, SumOverUsers, SumZero
<1> QED
  BY <1>1, <1>2, <1>4 DEF Within

(* Whatever the calls and whoever makes them, the rewards paid and the     *)
(* rewards still pending stay within the emission, up to the rounding of   *)
(* the restakes, less than one unit each: a debt that is reset with a      *)
(* stake takes with it what the old stake has been paid.                   *)
THEOREM RewardsWithinEmission == Spec => []PaidWithinEmission
<1>1. TypeOK /\ TypeOK' /\ TotalStakedIsSum /\ DebtCovered /\ PaidWithinEmission /\ [Next]_vars
        => PaidWithinEmission'
  BY PaysStep, PaysWithin DEF PaidWithinEmission, Within, HasPrecision
<1> QED
  BY <1>1, InitWithin, TypeCorrect, TotalIsSum, DebtsCovered, PTL DEF Spec
-----------------------------------------------------------------------------
(* A pool that was funded for its schedule.                                *)

(* What the funding is for: the stakes come after the rewards are started, *)
(* compounded rewards of a pool with two mints are swapped ones, and a     *)
(* start without a shortfall leaves enough for every slot of the schedule. *)
Funds ==
    /\ pool_config.start_slot = 0 =>
            hist.compounded = 0 /\ \A u \in Users : user_info[u].staked_amount = 0
    /\ stake_mint # reward_mint => hist.swapped_in = hist.compounded
    /\ FundedPool /\ stake_mint # reward_mint =>
            hist.funding >= pool_config.reward_per_slot
                                * (pool_config.end_slot - pool_config.start_slot)

(* A step that leaves the schedule, its funding and the stakes of a pool   *)
(* that is not started alone, and compounds what it swaps.                 *)
KeepsFunds ==
    /\ UNCHANGED pool_config
    /\ hist'.funding = hist.funding /\ hist'.shortfall = hist.shortfall
    /\ pool_config.start_slot = 0 =>
            hist'.compounded = hist.compounded /\ UNCHANGED user_info
    /\ stake_mint # reward_mint =>
            \/ hist'.compounded = hist.compounded /\ hist'.swapped_in = hist.swapped_in
            \/ \E owed : /\ hist'.compounded = hist.compounded + owed
                         /\ hist'.swapped_in = hist.swapped_in + owed

LEMMA KeptFunds == ASSUME Funds, KeepsFunds PROVE Funds'
  BY DEF Funds, KeepsFunds, FundedPool

LEMMA CreatePoolFunds ==
    ASSUME TypeOK, Schedule, Funds, NEW a, NEW b, NEW c, NEW d, NEW e,
           CreatePool(a, b, c, d, e)
    PROVE  Funds'
<1>1. /\ "pool" \notin opened /\ UNCHANGED user_info
      /\ pool_config' = [pool_config EXCEPT !.stake_fee = a, !.unstake_fee = b,
                                            !.duration = e, !.reward_per_slot = d]
      /\ hist' = [hist EXCEPT !.funding = c]
  BY DEF CreatePool
<1>2. /\ pool_config'.start_slot = pool_config.start_slot
      /\ hist'.compounded = hist.compounded /\ hist'.swapped_in = hist.swapped_in
  BY <1>1 DEF TypeOK, PoolConfig, HistType
<1>3. pool_config.start_slot = 0
  BY <1>1 DEF Schedule
<1> QED
  BY <1>1, <1>2, <1>3 DEF Funds, FundedPool

(* InsufficientRewards is zero only when the funding covers the schedule.  *)
LEMMA StartRewardFunds ==
    ASSUME TypeOK, Schedule, RewardBooks, Funds, StartReward
    PROVE  Funds'
<1> DEFINE short == InsufficientRewards(pool_config, pool_state)
           start == slot + START_DELAY
           rate == pool_config.reward_per_slot
           days == pool_config.duration * SLOTS_PER_DAY
<1>1. /\ pool_config.start_slot = 0 /\ UNCHANGED user_info
      /\ pool_config' = [pool_config EXCEPT !.start_slot = start, !.end_slot = start + days]
      /\ hist' = [hist EXCEPT !.shortfall = short]
  BY DEF StartReward
<1>2. /\ rate \in Nat /\ days \in Nat /\ start \in Nat \ {0}
      /\ pool_config.duration \in Nat /\ SLOTS_PER_DAY \in Nat
  BY ScheduleTypes, CostAssumption, UtilsAssumption DEF TypeOK, PoolConfig
<1>3. pool_state.reward_amount + pool_state.paid_rewards = hist.funding
  BY <1>1, BookTypes DEF Funds, RewardBooks
<1>4. pool_state.should_total_paid = 0
  BY <1>1 DEF Schedule
<1>5. rate * pool_config.duration * SLOTS_PER_DAY = rate * days
  BY <1>2
<1>6. ASSUME short = 0, stake_mint # reward_mint
      PROVE  hist.funding >= rate * days
  <2>1. AvailableRewardTokens(pool_state) = pool_state.reward_amount
    BY <1>6 DEF AvailableRewardTokens
  <2>2. short = IF hist.funding >= 0 + rate * days THEN 0
                ELSE (0 + rate * days) - hist.funding
    BY <1>1, <1>3, <1>4, <1>5, <2>1 DEF InsufficientRewards
  <2>3. rate * days \in Int /\ hist.funding \in Int
    BY <1>2, BookTypes
  <2> HIDE DEF short, rate, days
  <2> QED
    BY <1>6, <2>2, <2>3
<1> HIDE DEF short, start, days
<1>7. /\ pool_config'.start_slot = start /\ pool_config'.end_slot = start + days
      /\ pool_config'.reward_per_slot = rate
      /\ hist'.shortfall = short /\ hist'.funding = hist.funding
      /\ hist'.compounded = hist.compounded /\ hist'.swapped_in = hist.swapped_in
  BY <1>1 DEF TypeOK, PoolConfig, HistType
<1>8. (start + days) - start = days
  BY <1>2
<1> QED
  BY <1>1, <1>2, <1>6, <1>7, <1>8 DEF Funds, FundedPool

(* The history of a call that compounds nothing.                           *)
LEMMA RestakesKeepFunds ==
    ASSUME TypeOK, UNCHANGED pool_config,
           hist' = hist \/ hist' = [hist EXCEPT !.restakes = @ + 1],
           pool_config.start_slot = 0 => UNCHANGED user_info
    PROVE  KeepsFunds
  BY DEF KeepsFunds, TypeOK, HistType

LEMMA StakeKeepsFunds ==
    ASSUME TypeOK, NEW u \in Users, NEW amount, Stake(u, amount) PROVE KeepsFunds
<1>1. /\ pool_config.start_slot > 0 /\ UNCHANGED pool_config
      /\ hist' = [hist EXCEPT !.restakes = @ + 1]
  BY DEF Stake
<1>2. pool_config.start_slot # 0
  BY <1>1, ScheduleTypes
<1> QED
  BY <1>1, <1>2, RestakesKeepFunds

(* A user without a stake has nothing to withdraw, claim or compound.      *)
LEMMA StakedIsStarted ==
    ASSUME TypeOK, Funds, NEW u \in Users, user_info[u].staked_amount > 0
    PROVE  pool_config.start_slot # 0
  BY DEF Funds

LEMMA UnstakeKeepsFunds ==
    ASSUME TypeOK, Funds, NEW u \in Users, NEW amount \in UnstakeAmounts, Unstake(u, amount)
    PROVE  KeepsFunds
<1>1. /\ amount > 0 /\ user_info[u].staked_amount > amount /\ UNCHANGED pool_config
      /\ hist' = [hist EXCEPT !.restakes = @ + 1]
  BY DEF Unstake, UnstakeAmountOK
<1>2. user_info[u].staked_amount \in Nat /\ amount \in Nat
  BY SolvencyTypes, ArgumentAssumption, UtilsAssumption DEF U64
<1>3. pool_config.start_slot # 0
  BY <1>1, <1>2, StakedIsStarted
<1> QED
  BY <1>1, <1>3, RestakesKeepFunds

LEMMA ClaimRewardKeepsFunds ==
    ASSUME TypeOK, Funds, NEW u \in Users, CallWithoutStake(u) \/ ClaimStaked(u)
    PROVE  KeepsFunds
<1>1. CASE CallWithoutStake(u)
  BY <1>1, RestakesKeepFunds DEF CallWithoutStake
<1>2. CASE ClaimStaked(u)
  <2>1. user_info[u].staked_amount > 0 /\ UNCHANGED << pool_config, hist >>
    BY <1>2 DEF ClaimStaked
  <2> QED
    BY <2>1, StakedIsStarted, RestakesKeepFunds
<1> QED
  BY <1>1, <1>2

LEMMA CompoundDirectKeepsFunds ==
    ASSUME TypeOK, Funds, NEW u \in Users, CompoundDirect(u) PROVE KeepsFunds
<1>1. /\ stake_mint = reward_mint \/ Owed(u) = 0
      /\ user_info[u].staked_amount > 0 /\ UNCHANGED pool_config
      /\ hist' = [hist EXCEPT !.compounded = @ + Owed(u), !.restaked = @ + Owed(u),
                              !.restakes = @ + (IF Owed(u) > 0 THEN 1 ELSE 0)]
  BY DEF CompoundDirect, CanCompound, CompoundState
<1>2. pool_config.start_slot # 0
  BY <1>1, StakedIsStarted
<1>3. /\ hist'.funding = hist.funding /\ hist'.shortfall = hist.shortfall
      /\ hist'.compounded = hist.compounded + Owed(u)
      /\ hist'.swapped_in = hist.swapped_in
  BY <1>1 DEF TypeOK, HistType
<1>4. stake_mint # reward_mint => hist'.compounded = hist.compounded
  BY <1>1, <1>3, BookTypes
<1> QED
  BY <1>1, <1>2, <1>3, <1>4 DEF KeepsFunds

LEMMA CompoundSwapKeepsFunds ==
    ASSUME TypeOK, Funds, NEW u \in Users, NEW out, CompoundSwap(u, out) PROVE KeepsFunds
<1>1. /\ user_info[u].staked_amount > 0 /\ UNCHANGED pool_config
      /\ hist' = [hist EXCEPT !.compounded = @ + Owed(u), !.swapped_in = @ + Owed(u),
                              !.swapped_out = @ + out]
  BY DEF CompoundSwap, CanCompound, CompoundState
<1>2. pool_config.start_slot # 0
  BY <1>1, StakedIsStarted
<1>3. /\ hist'.funding = hist.funding /\ hist'.shortfall = hist.shortfall
      /\ hist'.compounded = hist.compounded + Owed(u)
      /\ hist'.swapped_in = hist.swapped_in + Owed(u)
  BY <1>1 DEF TypeOK, HistType
<1> QED
  BY <1>1, <1>2, <1>3 DEF KeepsFunds

LEMMA StopRewardKeepsFunds ==
    ASSUME TypeOK, StopReward PROVE KeepsFunds
<1> DEFINE swept == hist.swept + Surplus(Updated)
<1>1. /\ UNCHANGED << pool_config, user_info >>
      /\ hist' = [hist EXCEPT !.swept = swept, !.announced_end = slot]
  BY DEF StopReward
<1> HIDE DEF swept
<1> QED
  BY <1>1 DEF KeepsFunds, TypeOK, HistType

LEMMA FundsStep ==
    TypeOK /\ Schedule /\ RewardBooks /\ Funds /\ [Next]_vars => Funds'
<1> SUFFICES ASSUME TypeOK, Schedule, RewardBooks, Funds, [Next]_vars PROVE Funds'
  OBVIOUS
<1>1. ASSUME UNCHANGED << pool_config, user_info, hist >> PROVE Funds'
  BY <1>1, RestakesKeepFunds, KeptFunds
<1>2. UNCHANGED vars => Funds'
  BY <1>1 DEF vars
<1>3. Tick => Funds'
  BY <1>1 DEF Tick
<1>4. \A a \in DeployFees, b \in PerformanceFees : Initialize(a, b) => Funds'
  BY <1>1 DEF Initialize
<1>5. \A u \in Users : \A amount \in StakeAmounts : Stake(u, amount) => Funds'
  BY StakeKeepsFunds, KeptFunds
<1>6. \A u \in Users : \A amount \in UnstakeAmounts : Unstake(u, amount) => Funds'
  BY UnstakeKeepsFunds, KeptFunds
<1>7. \A u \in Users : CallWithoutStake(u) \/ ClaimStaked(u) => Funds'
  BY ClaimRewardKeepsFunds, KeptFunds
<1>8. \A u \in Users : CompoundDirect(u) => Funds'
  BY CompoundDirectKeepsFunds, KeptFunds
<1>9. \A u \in Users : \A out \in SwapOutputs : CompoundSwap(u, out) => Funds'
  BY CompoundSwapKeepsFunds, KeptFunds
<1>10. StopReward => Funds'
  BY StopRewardKeepsFunds, KeptFunds
<1> QED
  BY <1>2, <1>3, <1>4, <1>5, <1>6, <1>7, <1>8, <1>9, <1>10, StepCases, CreatePoolFunds,
     StartRewardFunds

LEMMA FundsCorrect == Spec => []Funds
<1>1. Init => Funds
  BY DEF Init, PoolInit, Funds, FundedPool
<1> QED
  BY <1>1, FundsStep, TypeCorrect, ScheduleCorrect, RewardsBalance, PTL DEF Spec

(* What is emitted is within the schedule, and so within the funding.      *)
LEMMA EmittedIsFunded ==
    ASSUME TypeOK, Schedule, EmissionCap, Funds, FundedPool, stake_mint # reward_mint
    PROVE  Updated.should_total_paid <= hist.funding
<1> DEFINE last == Updated.last_reward_slot
           start == pool_config.start_slot
           end == pool_config.end_slot
           rate == pool_config.reward_per_slot
           slots == SmallerOf(last, end) - start
<1>1. Updated.should_total_paid <= rate * slots
  BY UpdateKeepsCap DEF Cap, FundedPool
<1>2. hist.funding >= rate * (end - start)
  BY DEF Funds
<1>3. /\ start \in Nat /\ end \in Nat /\ rate \in Nat /\ last \in Nat
      /\ start <= end /\ start <= last
  BY ScheduleTypes, UpdatedFields, UpdateKeepsCap DEF Schedule, FundedPool
<1>4. Updated.should_total_paid \in Int /\ hist.funding \in Int
  <2>1. IsStale(pool_state, slot) => Emitted(pool_config, pool_state, slot) \in Nat
    BY EmittedNat DEF TypeOK
  <2> QED
    BY <2>1, BookTypes, ScheduleTypes, UpdatedFields
<1> HIDE DEF last, start, end, rate
<1>5. slots \in Nat /\ end - start \in Nat /\ slots <= end - start
  BY <1>3 DEF SmallerOf
<1> HIDE DEF slots
<1>6. rate * slots <= rate * (end - start) /\ rate * slots \in Int /\ rate * (end - start) \in Int
  BY <1>3, <1>5, TimesMonotonic
<1> QED
  BY <1>1, <1>2, <1>4, <1>6

(* The pendings, rounded down one by one, are within the unpaid accruals.  *)
LEMMA OwingIsUnpaid ==
    ASSUME TypeOK, HasPrecision
    PROVE  /\ Owing \in Int /\ SumFunction(Unpaid(Updated)) \in Int
           /\ PrecisionFactor * Owing <= SumFunction(Unpaid(Updated))
<1> DEFINE P == PrecisionFactor
           f == [u \in Users |-> Pending(Updated, user_info[u])]
           g == Unpaid(Updated)
           acc == Updated.acc_token_per_share
<1>1. P \in Nat \ {0}
  BY PrecisionFactorType
<1>2. acc \in Nat
  BY TimeAccrues DEF TypeOK, Updated
<1>3. ASSUME NEW u \in Users
      PROVE  f[u] \in Int /\ g[u] \in Int /\ P * f[u] <= g[u]
  <2> DEFINE debt == user_info[u].reward_debt
             n == user_info[u].staked_amount * acc
  <2>1. f[u] = n \div P - debt /\ g[u] = n - P * debt
    BY DEF Pending, Accrued, Unpaid
  <2>2. n \in Nat /\ debt \in Nat
    BY <1>2, SolvencyTypes, TimesMonotonic
  <2> HIDE DEF P, f, g, n, debt
  <2>3. n \div P \in Nat /\ P * (n \div P) <= n
    BY <1>1, <2>2, FloorBounds
  <2>4. /\ P * (n \div P - debt) = P * (n \div P) - P * debt
        /\ P * (n \div P) \in Int /\ P * debt \in Int
    BY <1>1, <2>2, <2>3, Products
  <2> QED
    BY <2>1, <2>2, <2>3, <2>4
<1>4. Owing = SumFunction(f) /\ DOMAIN f = Users /\ DOMAIN g = Users
  BY DEF Owing, Unpaid
<1> HIDE DEF P, f, g, acc
<1>5. SumFunction(f) \in Int /\ SumFunction(g) \in Int /\ P * SumFunction(f) <= SumFunction(g)
  BY <1>1, <1>3, <1>4, SumOverUsers, SumType, SumBounded
<1> QED
  BY <1>4, <1>5 DEF P, g

(* From the emission to the books and from the books to the vault.         *)
LEMMA FundedPays ==
    ASSUME TypeOK, Schedule, EmissionCap, Funds, RewardBooks, RewardVaultDrift,
           TotalStakedIsSum, PaidWithinEmission
    PROVE  FundedPoolPaysAll
<1> SUFFICES ASSUME FundedPool, hist.swept = 0, HasPrecision, stake_mint # reward_mint
             PROVE  LET rounding == (PrecisionFactor - 1) * hist.restakes
                    IN  /\ PrecisionFactor * Owing
                            <= PrecisionFactor * AvailableRewardTokens(Updated) + rounding
                        /\ PrecisionFactor * Owing
                            <= PrecisionFactor * tokens[pool_reward_token_vault] + rounding
  BY DEF FundedPoolPaysAll
<1> DEFINE P == PrecisionFactor
           rounding == (P - 1) * hist.restakes
           unpaid == SumFunction(Unpaid(Updated))
           should == Updated.should_total_paid
           paid == pool_state.paid_rewards
           amount == pool_state.reward_amount
           vault == tokens[pool_reward_token_vault]
<1>1. P * paid + unpaid <= P * should + rounding
  BY UpdateWithin, UpdatedPaid DEF PaidWithinEmission, Within
<1>2. should <= hist.funding
  BY EmittedIsFunded
<1>3. AvailableRewardTokens(Updated) = amount
  BY UpdatedPaid DEF AvailableRewardTokens
<1>4. amount + paid = hist.funding + hist.compounded
  BY DEF RewardBooks
<1>5. vault + hist.compounded = amount
  <2>1. vault + hist.swept + hist.swapped_in = amount
    BY VaultAssumption DEF RewardVaultDrift
  <2>2. hist.swapped_in = hist.compounded
    BY DEF Funds
  <2> QED
    BY <2>1, <2>2, BookTypes
<1>6. /\ P \in Nat \ {0} /\ paid \in Nat /\ amount \in Nat /\ vault \in Nat
      /\ hist.funding \in Nat /\ hist.compounded \in Nat /\ hist.restakes \in Nat
  BY PrecisionFactorType, BookTypes, SolvencyTypes
<1>7. P * Owing <= unpaid /\ Owing \in Int /\ unpaid \in Int
  BY OwingIsUnpaid
<1>8. should \in Nat
  <2>1. IsStale(pool_state, slot) => Emitted(pool_config, pool_state, slot) \in Nat
    BY EmittedNat DEF TypeOK
  <2> QED
    BY <2>1, ScheduleTypes, UpdatedFields
<1> HIDE DEF P, unpaid, should, paid, amount, vault
<1>9. /\ should <= vault + paid /\ vault <= amount
  BY <1>2, <1>4, <1>5, <1>6, <1>8
<1>10. /\ P * should <= P * (vault + paid) /\ P * vault <= P * amount
       /\ P * should \in Int /\ P * vault \in Int /\ P * amount \in Int
  BY <1>6, <1>8, <1>9, TimesMonotonic
<1>11. P * (vault + paid) = P * vault + P * paid /\ P * paid \in Int /\ P * Owing \in Int
  BY <1>6, <1>7, Products
<1>12. rounding \in Int
  BY <1>6
<1> HIDE DEF rounding
<1>13. P * Owing <= P * vault + rounding /\ P * Owing <= P * amount + rounding
  BY <1>1, <1>7, <1>10, <1>11, <1>12
<1> QED
  BY <1>3, <1>13 DEF P, rounding, vault

(* A pool with two mints that had its schedule funded when it was started  *)
(* has the rewards of all its stakers in its books and in its vault at any *)
(* time, up to less than one unit for every change of a stake, whatever    *)
(* they call, compounding included, until stop_reward sweeps it.  (Of a    *)
(* pool with one mint it says nothing: there the stakes are subtracted     *)
(* from what is available.)                                                *)
THEOREM FundedPoolSolvent == Spec => []FundedPoolPaysAll
  BY FundedPays, FundsCorrect, TypeCorrect, ScheduleCorrect, RewardsBalance,
     RewardVaultExplained, TotalIsSum, RewardsWithinEmission, PTL

-----------------------------------------------------------------------------
(* A pool on a ledger with others.  TwoPools_proofs has these lemmas once  *)
(* for each of its pools.                                                  *)

OwnBooks == TypeOK /\ NothingBeforeCreation /\ TotalStakedIsSum

LEMMA OwnBooksInit == Init => OwnBooks
  BY InitType, InitBooks, InitStakes DEF OwnBooks, Books

LEMMA OwnBooksStep == OwnBooks /\ [Next]_vars => OwnBooks' /\ HeldMoves
<1> SUFFICES ASSUME OwnBooks, [Next]_vars PROVE OwnBooks' /\ HeldMoves
  OBVIOUS
<1>1. TypeOK /\ NothingBeforeCreation /\ TotalStakedIsSum
  BY DEF OwnBooks
<1>2. TypeOK' /\ BooksMove /\ MovesOneStake
  BY <1>1, TypeStep, BooksMoveStep, MovesStep
<1>3. TotalStakedIsSum'
  BY <1>1, <1>2, TotalStep
<1> QED
  BY <1>2, <1>3 DEF OwnBooks, BooksMove

LEMMA HeldType == OwnBooks => \A a \in TokenAccount : Held(a) \in Int /\ tokens[a] \in Nat
<1> SUFFICES ASSUME OwnBooks, NEW a \in TokenAccount
             PROVE  Held(a) \in Int /\ tokens[a] \in Nat
  OBVIOUS
<1>1. HeldRewards \in Int /\ HeldStakes \in Int
  BY BookTypes DEF OwnBooks, HeldRewards, HeldStakes
<1> QED
  BY <1>1 DEF OwnBooks, TypeOK, Held

(* What the vaults hold at least when no other pool takes from them.       *)
VaultsCover ==
    \A v \in {pool_stake_token_vault, pool_reward_token_vault} : Held(v) <= tokens[v]

(* What CanLeave asks of the pool, without what it asks of the vaults.     *)
Payable(u) ==
    user_info[u].staked_amount > 0 =>
        /\ PendingFits(Updated, user_info[u])
        /\ Owed(u) > 0 => /\ AvailableRewardTokens(Updated) >= Owed(u)
                          /\ Fits(Updated.paid_rewards + Owed(u))

(* No stake is more than all of them.                                      *)
LEMMA StakeWithinTotal ==
    ASSUME TypeOK, TotalStakedIsSum, NEW u \in Users
    PROVE  user_info[u].staked_amount <= pool_state.total_staked
<1> DEFINE f == Stakes
           g == [Stakes EXCEPT ![u] = 0]
<1>1. /\ DOMAIN f = Users /\ \A x \in Users : f[x] \in Nat /\ g[x] \in Nat
      /\ \A x \in Users \ {u} : g[x] = f[x]
      /\ f[u] = user_info[u].staked_amount /\ g[u] = 0
  BY UtilsAssumption DEF Stakes, TypeOK, UserInfo, U64
<1>2. pool_state.total_staked = SumFunction(f)
  BY DEF TotalStakedIsSum
<1> HIDE DEF f, g
<1>3. SumFunction(f) = SumFunctionOnSet(f, Users) /\ IsFiniteSet(Users)
  BY <1>1, SumOverUsers
<1>4. \A x \in Users : f[x] \in Int /\ g[x] \in Int /\ 0 * f[x] <= g[x]
  BY <1>1
<1>5. /\ SumFunctionOnSet(f, Users) \in Int /\ SumFunctionOnSet(g, Users) \in Int
      /\ SumFunctionOnSet(g, Users) = SumFunctionOnSet(f, Users) + (g[u] - f[u])
  BY <1>1, <1>3, <1>4, SumType, SumOneChanged
<1>6. 0 * SumFunctionOnSet(f, Users) <= SumFunctionOnSet(g, Users)
  BY <1>3, <1>4, SumBounded
<1> QED
  BY <1>1, <1>2, <1>3, <1>5, <1>6

(* A pool whose books are backed holds no less than nothing anywhere, the  *)
(* rewards that are left in the one vault and the stakes in the other, or  *)
(* both in one.                                                            *)
LEMMA BackedHeld == TypeOK /\ BooksBacked =>
    /\ \A a : Held(a) \in Nat
    /\ pool_state.reward_amount <= Held(pool_reward_token_vault)
    /\ pool_state.total_staked <= Held(pool_stake_token_vault)
    /\ pool_stake_token_vault = pool_reward_token_vault =>
            pool_state.reward_amount + pool_state.total_staked
                <= Held(pool_stake_token_vault)
<1> SUFFICES ASSUME TypeOK, BooksBacked
             PROVE  /\ \A a : Held(a) \in Nat
                    /\ pool_state.reward_amount <= Held(pool_reward_token_vault)
                    /\ pool_state.total_staked <= Held(pool_stake_token_vault)
                    /\ pool_stake_token_vault = pool_reward_token_vault =>
                            pool_state.reward_amount + pool_state.total_staked
                                <= Held(pool_stake_token_vault)
  OBVIOUS
<1>1. /\ HeldRewards = pool_state.reward_amount
      /\ HeldStakes = pool_state.total_staked + hist.swapped_out
  BY BookTypes DEF BooksBacked, HeldRewards, HeldStakes
<1>2. /\ pool_state.reward_amount \in Nat /\ pool_state.total_staked \in Nat
      /\ hist.swapped_out \in Nat
  BY BookTypes
<1> QED
  BY <1>1, <1>2 DEF Held

(* So whom its books can pay can leave.                                    *)
LEMMA CoveredCanLeave ==
    TypeOK /\ TotalStakedIsSum /\ BooksBacked /\ VaultsCover
        => \A u \in Users : Payable(u) => CanLeave(u)
<1> SUFFICES ASSUME TypeOK, TotalStakedIsSum, BooksBacked, VaultsCover,
                    NEW u \in Users, Payable(u)
             PROVE  CanLeave(u)
  OBVIOUS
<1> DEFINE staked == user_info[u].staked_amount
           left == pool_state.reward_amount
<1>1. /\ staked \in Nat /\ left \in Nat /\ pool_state.total_staked \in Nat
      /\ staked <= pool_state.total_staked
      /\ tokens \in [TokenAccount -> Nat]
  BY StakeWithinTotal, BookTypes, UtilsAssumption DEF TypeOK, UserInfo, U64
<1>2. /\ left <= tokens[pool_reward_token_vault]
      /\ pool_state.total_staked <= tokens[pool_stake_token_vault]
      /\ pool_stake_token_vault = pool_reward_token_vault =>
            left + pool_state.total_staked <= tokens[pool_stake_token_vault]
  <2>1. /\ Held(pool_reward_token_vault) <= tokens[pool_reward_token_vault]
        /\ Held(pool_stake_token_vault) <= tokens[pool_stake_token_vault]
    BY DEF VaultsCover
  <2> QED
    BY <1>1, <2>1, BackedHeld, BookTypes
<1>3. Updated.reward_amount = left /\ Updated.total_staked = pool_state.total_staked
  BY DEF TypeOK, PoolState, Updated, UpdatePool
<1>4. /\ Owed(u) \in Nat
      /\ Owed(u) > 0 => Owed(u) <= AvailableRewardTokens(Updated)
  <2>1. CASE staked > 0
    <3>1. Owed(u) \in U64
      BY <2>1 DEF Payable, Owed, PendingFits, Fits
    <3> QED
      BY <2>1, <3>1, UtilsAssumption DEF Payable, U64, AvailableRewardTokens
  <2>2. CASE ~(staked > 0)
    BY <2>2 DEF Owed
  <2> QED
    BY <2>1, <2>2
<1>5. AvailableRewardTokens(Updated) \in Nat /\ AvailableRewardTokens(Updated) <= left
  BY <1>1, <1>3 DEF AvailableRewardTokens
<1>6. Owed(u) <= left
  BY <1>1, <1>4, <1>5
<1>7. CanSettle(u)
  <2>1. Holds(tokens, pool_reward_token_vault, Owed(u))
    BY <1>1, <1>2, <1>4, <1>6, AccountTypes DEF Holds
  <2> QED
    BY <2>1 DEF CanSettle, CanPay, Payable
<1>8. PaidOut(tokens, u, Owed(u))[pool_stake_token_vault] =
            IF pool_stake_token_vault = pool_reward_token_vault
            THEN tokens[pool_stake_token_vault] - Owed(u)
            ELSE tokens[pool_stake_token_vault]
  <2>1. RewardAccount(u) \in UserAccounts
    BY AccountTypes, VaultTypes
  <2> QED
    BY <1>1, <1>4, <2>1, TransferOut, VaultTypes DEF PaidOut
<1>9. staked <= PaidOut(tokens, u, Owed(u))[pool_stake_token_vault]
  <2>1. tokens[pool_stake_token_vault] \in Nat
    BY BookTypes
  <2> QED
    BY <1>1, <1>2, <1>4, <1>6, <1>8, <2>1
<1> QED
  BY <1>7, <1>9 DEF CanLeave, Holds

LEMMA CoveredCanLeaveNext ==
    (OwnBooks /\ BooksBacked /\ VaultsCover)'
        => (\A u \in Users : Payable(u) => CanLeave(u))'
<1>1. OwnBooks /\ BooksBacked /\ VaultsCover => \A u \in Users : Payable(u) => CanLeave(u)
  BY CoveredCanLeave DEF OwnBooks
<1> QED
  BY <1>1, PTL

(* A step that leaves the pool alone and the vaults with enough leaves a   *)
(* staker who can leave able to.                                           *)
LEMMA LeavableStays ==
    (OwnBooks /\ BooksBacked /\ VaultsCover)'
            /\ UNCHANGED << pool_config, pool_state, user_info, slot >>
        => \A u \in Users : CanLeave(u) => CanLeave(u)'
<1> SUFFICES ASSUME (OwnBooks /\ BooksBacked /\ VaultsCover)',
                    UNCHANGED << pool_config, pool_state, user_info, slot >>,
                    NEW u \in Users, CanLeave(u)
             PROVE  CanLeave(u)'
  OBVIOUS
<1>1. Payable(u)
  BY DEF CanLeave, CanSettle, CanPay, Payable
<1>2. Payable(u)'
  <2>1. Updated' = Updated /\ Owed(u)' = Owed(u)
    BY DEF Updated, Owed
  <2> QED
    BY <1>1, <2>1 DEF Payable
<1> QED
  BY <1>2, CoveredCanLeaveNext
=============================================================================
