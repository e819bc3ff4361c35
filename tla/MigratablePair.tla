--------------------------- MODULE MigratablePair ---------------------------
(***************************************************************************)
(* What the dealer and its child promise to whoever looks at the chain     *)
(* between transactions: they appear together, each can be migrated at any *)
(* time and stays known to the other, and a sale is one step in which the  *)
(* listed price goes to the dealer's admin and one token to the buyer.     *)
(*                                                                         *)
(* There are no messages here, no replies, no lists of subscribers and no  *)
(* failures: a transaction that fails is no step.  MigratableSystem        *)
(* implements this specification; its state between two transactions is    *)
(* the state here.                                                         *)
(***************************************************************************)
EXTENDS Bank

CONSTANTS
  DEALER, SNIP,          \* the two contracts
  Users,                 \* accounts that use them
  Deployers,             \* those that deploy them or become the admin
  DealerHash, SnipHash,  \* stored code of each kind of contract
  PriceLists,            \* price lists a deployment may ask for
  MetadataOffers,        \* and metadata of what it sells
  FundsSent,             \* coins users attach to messages
  InitialBalance         \* of each user, in each denomination

VARIABLES
  code,        \* of each contract: the hash of its code, Unset if it is none
  known,       \* of each contract: the hash under which it knows the other
  sale,        \* the dealer's admin, its prices and the metadata it sells
  collection,  \* the child's admin, minters, status and tokens
  bank         \* balances
vars == <<code, known, sale, collection, bank>>

Pair == {DEALER, SNIP}
Partner(c) == IF c = DEALER THEN SNIP ELSE DEALER

Status == {"normal", "stop_transactions", "stop_all"}

Init ==
  /\ code = [c \in Pair |-> Unset]
  /\ known = [c \in Pair |-> Unset]
  /\ sale = [admin |-> Unset, prices |-> << >>, metadata |-> Unset]
  /\ collection =
       [admin |-> Unset, minters |-> {}, status |-> "normal", tokens |-> << >>]
  /\ bank = [a \in Address |->
               [d \in Denom |-> IF a \in Users THEN InitialBalance ELSE 0]]

Deployed == code[DEALER] # Unset

\* The two contracts appear, know each other, and have the same admin; the
\* dealer, and nobody else, may mint.
Deploy(d, s, admin, prices, metadata) ==
  /\ ~Deployed
  /\ prices # << >>
  /\ code' = [c \in Pair |-> IF c = DEALER THEN d ELSE s]
  /\ known' = [c \in Pair |-> code'[Partner(c)]]
  /\ sale' = [admin |-> admin, prices |-> prices, metadata |-> metadata]
  /\ collection' =
       [admin |-> admin, minters |-> {DEALER}, status |-> "normal", tokens |-> << >>]
  /\ UNCHANGED bank

\* A contract gets new code, and its partner knows.
Migrate(c, h) ==
  /\ Deployed
  /\ code' = [code EXCEPT ![c] = h]
  /\ known' = [known EXCEPT ![Partner(c)] = h]
  /\ UNCHANGED <<sale, collection, bank>>

\* No two tokens have the same id.
MayMint(minter, id) ==
  /\ collection.status = "normal" /\ minter \in collection.minters
  /\ \A i \in DOMAIN collection.tokens : collection.tokens[i].id # id

Minted(minter, id, owner) ==
  [collection EXCEPT !.tokens =
     Append(@, [id |-> id, owner |-> owner, minter |-> minter])]

\* The id of a token for which none was chosen.
Index == Len(collection.tokens)

\* A sale at the first price that the dealer lists in its denomination.
Purchase(buyer, i) ==
  /\ MayMint(DEALER, Index)
  /\ sale.metadata # "both_forms"
  /\ \A j \in 1..(i - 1) : sale.prices[j].denom # sale.prices[i].denom
  /\ Affords(bank, buyer, {sale.prices[i]})
  /\ collection' = Minted(DEALER, Index, buyer)
  /\ bank' = Transfer(bank, buyer, sale.admin, {sale.prices[i]})
  /\ UNCHANGED <<code, known, sale>>

\* Coins sent along with a message that does not ask for them.
Attach(sender, contract, funds) ==
  /\ Affords(bank, sender, funds)
  /\ bank' = Transfer(bank, sender, contract, funds)

\* A user with the right to mint mints without the dealer, and may choose
\* the id.
Mint(minter, id, owner, funds) ==
  /\ MayMint(minter, id)
  /\ collection' = Minted(minter, id, owner)
  /\ Attach(minter, SNIP, funds)
  /\ UNCHANGED <<code, known, sale>>

\* The child's admin changes who administers and who mints, or stops the
\* child; when all has stopped, only the status can be changed.
Administer(funds) ==
  /\ Deployed
  /\ collection' \in [admin : Address, minters : SUBSET Address, status : Status,
                      tokens : {collection.tokens}]
  /\ collection.status = "stop_all" =>
       collection' = [collection EXCEPT !.status = collection'.status]
  /\ Attach(collection.admin, SNIP, funds)
  /\ UNCHANGED <<code, known, sale>>

\* A registration or a notification by anyone: all that it changes here is
\* who has the coins.
Notice(sender, contract, funds) ==
  /\ Deployed
  /\ Attach(sender, contract, funds)
  /\ UNCHANGED <<code, known, sale, collection>>

Next ==
  \/ \E d \in DealerHash, s \in SnipHash, admin \in Deployers,
        prices \in PriceLists, metadata \in MetadataOffers :
       Deploy(d, s, admin, prices, metadata)
  \/ \E h \in DealerHash : Migrate(DEALER, h)
  \/ \E h \in SnipHash : Migrate(SNIP, h)
  \/ \E buyer \in Users, i \in DOMAIN sale.prices : Purchase(buyer, i)
  \/ \E minter \in Users, id \in TokenId \cup {Index}, owner \in Address,
        funds \in FundsSent :
       Mint(minter, id, owner, funds)
  \/ \E funds \in FundsSent : Administer(funds)
  \/ \E sender \in Users, contract \in Pair, funds \in FundsSent :
       Notice(sender, contract, funds)

Spec == Init /\ [][Next]_vars
=============================================================================
