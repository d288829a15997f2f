----------------------------- MODULE TokenLedger -----------------------------
(***************************************************************************)
(* The two external ledgers the program moves value on through CPI calls:  *)
(* the SPL token program (token::transfer) and the system program          *)
(* (system_program::transfer).  Both move an amount between two accounts,  *)
(* which may be the same one, and fail the whole transaction when the      *)
(* source does not hold the amount.                                        *)
(***************************************************************************)
EXTENDS Integers

Holds(balances, from, amount) == amount <= balances[from]

Transfer(balances, from, to, amount) ==
    [balances EXCEPT ![from] = @ - amount, ![to] = @ + amount]
=============================================================================
