-------------------------------- MODULE Bank --------------------------------
(***************************************************************************)
(* The chain's accounts: what each address owns of each denomination, and  *)
(* a transfer of coins.                                                    *)
(***************************************************************************)
EXTENDS Messages

Balances == [Address -> [Denom -> Nat]]

AmountOf(funds, d) ==
  LET coins == {c \in funds : c.denom = d}
  IN  IF coins = {} THEN 0 ELSE (CHOOSE c \in coins : TRUE).amount

Affords(balances, account, funds) ==
  \A c \in funds : c.amount <= balances[account][c.denom]

Transfer(balances, from, to, funds) ==
  LET debited == [balances EXCEPT ![from] =
                    [d \in Denom |-> @[d] - AmountOf(funds, d)]]
  IN  [debited EXCEPT ![to] = [d \in Denom |-> @[d] + AmountOf(funds, d)]]
=============================================================================
