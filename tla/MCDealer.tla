------------------------------ MODULE MCDealer ------------------------------
(* A dealer called by an arbitrary chain: every handler, every caller.      *)
EXTENDS Dealer

CONSTANTS DealerAddr, SnipAddr, OtherAddr, Malformed, H1, H2

MCAddress == {DealerAddr, SnipAddr, OtherAddr}
MCAddressStrings == MCAddress \cup {Malformed}
MCHash == {H1, H2}

Price(d, n) == [denom |-> d, amount |-> n]

\* No price, one price, and one denomination listed twice.
MCPriceLists ==
  { << >>, << Price("uscrt", 1) >>, << Price("uscrt", 2), Price("uscrt", 1) >> }
=============================================================================
