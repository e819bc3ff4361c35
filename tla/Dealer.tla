------------------------------- MODULE Dealer -------------------------------
(***************************************************************************)
(* The contract snip721-dealer: it instantiates its own snip721-migratable *)
(* contract (its child), sells mints of it at fixed prices, and keeps its  *)
(* reference to the child up to date when the child migrates.              *)
(*                                                                         *)
(* `dealer' is the contract's storage and `response' what its last handler *)
(* returned.  A handler that returns Err leaves the storage alone, since   *)
(* the chain discards what it wrote.  Next lets an arbitrary chain call    *)
(* the handlers in any order with any arguments; the module                *)
(* MigratableSystem has the real one.                                      *)
(***************************************************************************)
EXTENDS MigratableStd

CONSTANTS
  Self,            \* the contract's own address
  PriceLists,      \* the price lists a deployment may ask for
  AddressStrings,  \* address strings in messages, well formed or not
  MaxSubscribers   \* bound of the model: entries of the subscriber list

ASSUME SelfIsAnAddress == Self \in Address
ASSUME PriceListsAreLists == PriceLists \subseteq Seq(Coin)
ASSUME AddressesAreStrings ==
  Address \subseteq AddressStrings /\ Unset \notin AddressStrings
ASSUME MaxSubscribersIsNat == MaxSubscribers \in Nat

VARIABLES dealer, response
vars == <<dealer, response>>

INSTANTIATE_SNIP721_REPLY_ID == 1

\* Storage before `instantiate'.
Blank ==
  [admin |-> Unset, prices |-> << >>, metadata |-> Unset,
   child_code_hash |-> Unset, child_address |-> Unset, subscribers |-> << >>]

Fail == dealer' = dealer /\ response' = Err
Succeed(storage, msgs) == dealer' = storage /\ response' = Ok(msgs)

Child == Contract(dealer.child_address, dealer.child_code_hash)

-----------------------------------------------------------------------------
(* instantiate *)

\* The dealer makes itself the first admin of its child, and so its minter;
\* the wasm admin is the true admin from the start.
InstantiateChild(true_admin, msg) ==
  WasmInstantiate(true_admin, msg.snip721_code_id, msg.snip721_code_hash,
                  Snip721Instantiate(Self, msg.royalty_info, 1),
                  INSTANTIATE_SNIP721_REPLY_ID)

\* Neither the metadata nor the royalties are looked at.
NewStorage(admin, msg) ==
  [Blank EXCEPT !.admin = admin,
                !.prices = msg.prices,
                !.metadata = msg.metadata,
                !.child_code_hash = msg.snip721_code_hash]

TrueAdmin(sender, msg) == IF msg.admin = Unset THEN sender ELSE msg.admin

\* Mutant: the admin's address is not validated.
CanInstantiateUnchecked(sender, msg) == msg.prices # << >>

CanInstantiate(sender, msg) ==
  /\ msg.prices # << >>
  /\ TrueAdmin(sender, msg) \in Address

\* Mutant: the admin is saved as given, also when none was.
InstantiateRawAdmin(sender, msg) ==
  \/ /\ CanInstantiate(sender, msg)
     /\ Succeed(NewStorage(msg.admin, msg),
                << InstantiateChild(TrueAdmin(sender, msg), msg) >>)
  \/ ~CanInstantiate(sender, msg) /\ Fail

Instantiate(sender, msg) ==
  \/ /\ CanInstantiate(sender, msg)
     /\ Succeed(NewStorage(TrueAdmin(sender, msg), msg),
                << InstantiateChild(TrueAdmin(sender, msg), msg) >>)
  \/ ~CanInstantiate(sender, msg) /\ Fail

-----------------------------------------------------------------------------
(* reply *)

\* Mutant: the dealer keeps the admin role.
HandshakeMsgsKeepAdmin(child, code_hash) ==
  << WasmExecute(child, SubscribeMsg(Contract(Self, code_hash))) >>

\* Mutant: the dealer registers itself under its child's code hash.
HandshakeMsgsWrongHash(child, code_hash) ==
  << WasmExecute(child, SubscribeMsg(Contract(Self, child.code_hash))),
     WasmExecute(child, ChangeAdmin(dealer.admin)) >>

\* The two calls the dealer makes to the child it just instantiated.
HandshakeMsgs(child, code_hash) ==
  << WasmExecute(child, SubscribeMsg(Contract(Self, code_hash))),
     WasmExecute(child, ChangeAdmin(dealer.admin)) >>

OnInstantiatedSnip721(child_address, code_hash) ==
  LET child == Contract(child_address, dealer.child_code_hash)
  IN  Succeed([dealer EXCEPT !.child_address = child_address,
                             !.subscribers = AddSubscriber(@, child)],
              HandshakeMsgs(child, code_hash))

Reply(id, child_address, code_hash) ==
  \/ /\ id = INSTANTIATE_SNIP721_REPLY_ID
     /\ OnInstantiatedSnip721(child_address, code_hash)
  \/ id # INSTANTIATE_SNIP721_REPLY_ID /\ Fail

-----------------------------------------------------------------------------
(* execute *)

\* The payment is one coin, and exactly the first price in its denomination.
Pays(prices, funds) ==
  \E i \in DOMAIN prices :
    /\ funds = {prices[i]}
    /\ \A j \in 1..(i - 1) : prices[j].denom # prices[i].denom

\* The buyer asks for nothing: the child counts its mints for the id of the
\* new token, and the metadata is that of every sale.
MintFor(buyer) == WasmExecute(Child, MintNft(Unset, buyer, dealer.metadata))

\* Mutant: the payment stays with the dealer.
PurchaseMsgsKeepFunds(sender, funds) == << MintFor(sender) >>

\* Mutant: the first listed price is paid, whatever was sent.
PurchaseMsgsFirstPrice(sender, funds) ==
  << BankSend(dealer.admin, {dealer.prices[1]}), MintFor(sender) >>

PurchaseMsgs(sender, funds) == << BankSend(dealer.admin, funds), MintFor(sender) >>

\* Before the reply there is no child to mint from: the load fails.
CanPurchase(funds) ==
  /\ Pays(dealer.prices, funds)
  /\ dealer.child_address # Unset

PurchaseAndMint(sender, funds) ==
  \/ CanPurchase(funds) /\ Succeed(dealer, PurchaseMsgs(sender, funds))
  \/ ~CanPurchase(funds) /\ Fail

\* The dealer never saves the number of remaining slots, so registration is
\* not limited.
Subscribe(contract) ==
  \/ /\ IsValid(contract)
     /\ Succeed([dealer EXCEPT !.subscribers = AddSubscriber(@, contract)], << >>)
  \/ ~IsValid(contract) /\ Fail

CanUpdateChild(sender, to) ==
  /\ dealer.child_address # Unset
  /\ sender = dealer.child_address
  /\ IsValid(to)

\* Mutant: the list of subscribers is forgotten.
UpdateChildOnly(sender, to) ==
  \/ /\ CanUpdateChild(sender, to)
     /\ Succeed([dealer EXCEPT !.child_address = to.address,
                               !.child_code_hash = to.code_hash], << >>)
  \/ ~CanUpdateChild(sender, to) /\ Fail

\* Mutant: the new code hash is forgotten.
UpdateChildAddressOnly(sender, to) ==
  \/ /\ CanUpdateChild(sender, to)
     /\ Succeed([dealer EXCEPT !.child_address = to.address,
                               !.subscribers = UpdateSubscriber(@, sender, to)],
                << >>)
  \/ ~CanUpdateChild(sender, to) /\ Fail

\* Mutant: a notification is taken from every subscriber, and passed on.
UpdateChildPassedOn(sender, to) ==
  LET ofChild == sender = dealer.child_address
      known == \E i \in DOMAIN dealer.subscribers :
                 dealer.subscribers[i].address = sender
  IN  \/ /\ known /\ IsValid(to)
         /\ Succeed([dealer EXCEPT
                      !.child_code_hash = IF ofChild THEN to.code_hash ELSE @,
                      !.subscribers = UpdateSubscriber(@, sender, to)],
                    Broadcast(dealer.subscribers, to))
      \/ ~(known /\ IsValid(to)) /\ Fail

UpdateChildSnip721(sender, to) ==
  \/ /\ CanUpdateChild(sender, to)
     /\ Succeed([dealer EXCEPT !.child_address = to.address,
                               !.child_code_hash = to.code_hash,
                               !.subscribers = UpdateSubscriber(@, sender, to)],
                << >>)
  \/ ~CanUpdateChild(sender, to) /\ Fail

Supported ==
  {"purchase_mint", "subscribe_to_migration_complete_event",
   "migration_complete_notification"}

\* The deserializer tries the three message enums in turn; a message of none
\* of them, and a Migrate message that is not a subscription, is an error.
Execute(sender, funds, msg) ==
  \/ msg.tag = "purchase_mint" /\ PurchaseAndMint(sender, funds)
  \/ msg.tag = "subscribe_to_migration_complete_event" /\ Subscribe(msg.contract)
  \/ msg.tag = "migration_complete_notification" /\ UpdateChildSnip721(sender, msg.to)
  \/ msg.tag \notin Supported /\ Fail

-----------------------------------------------------------------------------
(* migrate and query *)

\* Mutant: only the first subscriber is told.
MigrateTellsFirst(code_hash) ==
  Succeed(dealer, Broadcast(SubSeq(dealer.subscribers, 1, 1),
                            Contract(Self, code_hash)))

\* The entry point of the new code: it tells the subscribers the new hash.
Migrate(code_hash) ==
  Succeed(dealer, Broadcast(dealer.subscribers, Contract(Self, code_hash)))

\* Both loads of the query must succeed.
QueryChildSnip721 ==
  IF dealer.child_address = Unset THEN Unset ELSE Child

QueryPrices == dealer.prices

-----------------------------------------------------------------------------
Instantiated == dealer.admin # Unset

\* Bound of the model: another subscription only below MaxSubscribers.
RoomFor(contract) ==
  Len(AddSubscriber(dealer.subscribers, contract)) <= MaxSubscribers

AnyContract == [address : AddressStrings, code_hash : Hash]

AnyMsg ==
  {[tag |-> "purchase_mint"], [tag |-> "broadcast_migration_complete_notification"]}
    \cup { SubscribeMsg(c) : c \in AnyContract }
    \cup { NotificationMsg(c) : c \in AnyContract }

InstantiateMsg ==
  [admin : AddressStrings \cup {Unset}, prices : PriceLists, metadata : Metadata,
   royalty_info : RoyaltyInfo, snip721_code_id : Hash, snip721_code_hash : Hash]

Init == dealer = Blank /\ response = Ok(<< >>)

DoInstantiate ==
  /\ ~Instantiated
  /\ \E sender \in Address, msg \in InstantiateMsg : Instantiate(sender, msg)

\* The chain calls `reply' for the instantiation only, which happens once.
DoReply ==
  /\ Instantiated
  /\ dealer.child_address = Unset
  /\ \E id \in {0, INSTANTIATE_SNIP721_REPLY_ID}, child \in Address, h \in Hash :
       /\ RoomFor(Contract(child, dealer.child_code_hash))
       /\ Reply(id, child, h)

DoExecute ==
  /\ Instantiated
  /\ \E sender \in Address, funds \in Funds, msg \in AnyMsg :
       /\ msg.tag = "subscribe_to_migration_complete_event" => RoomFor(msg.contract)
       /\ Execute(sender, funds, msg)

DoMigrate == Instantiated /\ \E h \in Hash : Migrate(h)

Next == DoInstantiate \/ DoReply \/ DoExecute \/ DoMigrate

Spec == Init /\ [][Next]_vars

-----------------------------------------------------------------------------
\* Type correctness of the storage and of the last response.
TypeOK ==
  /\ dealer \in [admin : Address \cup {Unset}, prices : Seq(Coin),
                 metadata : Metadata \cup {Unset},
                 child_code_hash : Hash \cup {Unset},
                 child_address : Address \cup {Unset},
                 subscribers : Seq(ContractInfo)]
  /\ response \in Response
  /\ Instantiated => dealer.child_code_hash \in Hash /\ dealer.metadata \in Metadata

\* The reference to the child (state.rs, CHILD_SNIP721_*) and the list of
\* subscribers are two records of the same fact, written by reply and by
\* update_child_snip721: whoever calls and in whatever order, the child under
\* its recorded address and code hash is among those notified.  Without this
\* a migrated dealer would no longer be known to its child.
ChildIsSubscribed ==
  dealer.child_address # Unset => Child \in Range(dealer.subscribers)
=============================================================================
