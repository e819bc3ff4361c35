------------------------------ MODULE MCSystem ------------------------------
(* Small deployments of the dealer and its child.                           *)
EXTENDS MigratableSystem_inv

CONSTANTS alice, bob, D1, D2, S1, S2, E1, E2

MCAddress == {DEALER, SNIP, EXT, alice, bob}
MCHash == {D1, D2, S1, S2, E1, E2}

Price(d, n) == [denom |-> d, amount |-> n]

OnePrice == { << Price("uscrt", 1) >> }
SomePrices == { << >>, << Price("uscrt", 2), Price("ueth", 1) >> }
DoubledPrice == { << Price("uscrt", 2), Price("uscrt", 1) >> }

NoFunds == { {} }
SomeFunds ==
  { {}, {Price("uscrt", 2)}, {Price("ueth", 1)}, {Price("ueth", 2)},
    {Price("uscrt", 2), Price("ueth", 1)} }
NoneOrPrice == { {}, {Price("uscrt", 1)} }
OneCoin == { {Price("uscrt", 1)}, {Price("uscrt", 2)} }

Purchase == [tag |-> "purchase_mint"]

\* Registrations and notifications anyone may send, the partner's address
\* with a hash it may have one day among them, and the child's change of
\* admin.
References ==
  { SubscribeMsg(Contract(SNIP, S2)), SubscribeMsg(Contract(DEALER, D2)),
    SubscribeMsg(Contract(EXT, E1)),
    NotificationMsg(Contract(SNIP, S2)), NotificationMsg(Contract(DEALER, D2)),
    [tag |-> "broadcast_migration_complete_notification"],
    ChangeAdmin(bob) }

OneForm == {"one_form"}
AnyForm == {"one_form", "both_forms"}

\* The id that a mint asks for: an index not reached yet, or some name.
MCTokenId == {1, -1}

\* Purchases, and the administration of the child that lets or stops them.
Sales ==
  { Purchase, MintNft(Unset, bob, "one_form"), MintNft(1, bob, "one_form"),
    [tag |-> "add_minters", minters |-> {alice, DEALER}],
    [tag |-> "remove_minters", minters |-> {DEALER}],
    [tag |-> "set_contract_status", level |-> "stop_transactions"],
    [tag |-> "set_contract_status", level |-> "normal"] }

\* Purchases, and a registration: the other message that the dealer takes
\* coins with.
Registrations == { Purchase, SubscribeMsg(Contract(SNIP, S1)) }

\* Purchases, and mints by one more minter who names the tokens.
NamedTokens ==
  { Purchase, [tag |-> "add_minters", minters |-> {alice}],
    MintNft(1, bob, "one_form"), MintNft(-1, bob, "one_form") }

OnlyPurchases == {Purchase}
NoRequests == {}
=============================================================================
