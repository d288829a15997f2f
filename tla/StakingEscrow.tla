---------------------------- MODULE StakingEscrow ----------------------------
(***************************************************************************)
(* What a staking pool promises to its stakers, without accumulators,      *)
(* debts or schedules: an escrow that keeps every stake, and a fund that   *)
(* pays each staker what the stake has earned.  Time lets stakes earn,     *)
(* equal stakes alike, and never takes anything back.  A deposit, a        *)
(* withdrawal or a claim pays the caller exactly what had been earned, and *)
(* touches nobody else.                                                    *)
(***************************************************************************)
EXTENDS Integers

CONSTANTS Stakers, MaxFee, FeeUnit      \* a fee is at most MaxFee / FeeUnit

VARIABLES
    wallet,     \* the stake tokens every staker holds outside
    stake,      \* the stake of every staker
    earned,     \* what a claim of the staker would pay now
    received,   \* the reward tokens the staker holds
    escrow,     \* the stake tokens the pool holds
    fund        \* the reward tokens the pool holds

escrowVars == << wallet, stake, earned, received, escrow, fund >>

Init ==
    /\ wallet \in [Stakers -> Nat] /\ received \in [Stakers -> Nat]
    /\ stake = [u \in Stakers |-> 0] /\ earned = [u \in Stakers |-> 0]
    /\ escrow = 0 /\ fund = 0

Fees(amount) == 0 .. ((amount * MaxFee) \div FeeUnit)

PayEarned(u) ==
    /\ earned[u] <= fund
    /\ fund' = fund - earned[u]
    /\ received' = [received EXCEPT ![u] = @ + earned[u]]
    /\ earned' = [earned EXCEPT ![u] = 0]

Deposit(u, amount, fee) ==
    /\ amount <= wallet[u]
    /\ PayEarned(u)
    /\ wallet' = [wallet EXCEPT ![u] = @ - amount]
    /\ stake' = [stake EXCEPT ![u] = @ + amount - fee]
    /\ escrow' = escrow + amount - fee

Withdraw(u, amount, fee) ==
    /\ 0 < amount /\ amount < stake[u] /\ amount <= escrow
    /\ PayEarned(u)
    /\ wallet' = [wallet EXCEPT ![u] = @ + amount - fee]
    /\ stake' = [stake EXCEPT ![u] = @ - amount]
    /\ escrow' = escrow - amount

Claim(u) ==
    /\ PayEarned(u)
    /\ UNCHANGED << wallet, stake, escrow >>

Endow ==
    /\ fund' >= fund
    /\ UNCHANGED << wallet, stake, earned, received, escrow >>

Earn ==
    /\ earned' \in [Stakers -> Nat]
    /\ \A u \in Stakers :
            /\ earned'[u] >= earned[u]
            /\ stake[u] = 0 => earned'[u] = earned[u]
    /\ \A u, v \in Stakers :
            stake[u] = stake[v] => earned'[u] - earned[u] = earned'[v] - earned[v]
    /\ UNCHANGED << wallet, stake, received, escrow, fund >>

Next ==
    \/ \E u \in Stakers :
            \/ \E amount \in 0..wallet[u] : \E fee \in Fees(amount) : Deposit(u, amount, fee)
            \/ \E amount \in 1..stake[u] : \E fee \in Fees(amount) : Withdraw(u, amount, fee)
            \/ Claim(u)
    \/ Endow
    \/ Earn

Spec == Init /\ [][Next]_escrowVars
=============================================================================
