----------------------------- MODULE MCSnip721 -----------------------------
(* A snip721-migratable contract called by an arbitrary chain.              *)
EXTENDS Snip721Migratable

CONSTANTS SnipAddr, UserAddr, Malformed, H1, H2

MCAddress == {SnipAddr, UserAddr}
MCAddressStrings == MCAddress \cup {Malformed}
MCHash == {H1, H2}
============================================================================
