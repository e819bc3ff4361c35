------------------------ MODULE MigratableSystem_inv ------------------------
(***************************************************************************)
(* The inductive invariant of the composition.  Between transactions the   *)
(* two contracts are either not there or linked to each other; during a    *)
(* transaction its kind determines which stages it goes through, that is   *)
(* which messages are under way and how the present state differs from the *)
(* committed one.                                                          *)
(***************************************************************************)
EXTENDS MigratableSystem

-----------------------------------------------------------------------------
(* Between transactions.  w is a record like World. *)

\* The dealer's storage names the child with the code hash h, in its reference
\* and in the entry through which it notifies it.
KnowsChild(storage, h) ==
  /\ storage.child_address = SNIP
  /\ storage.child_code_hash = h
  /\ storage.subscribers # << >>
  /\ storage.subscribers[1] = Contract(SNIP, h)

\* The child's only entry is the dealer with the code hash h, and nobody else
\* will ever have one.
KnowsDealer(storage, h) ==
  /\ storage.slots = 0
  /\ storage.subscribers = << Contract(DEALER, h) >>

\* The dealer's tokens have the ids that counting gives.
Counted(tokens) ==
  \A i \in DOMAIN tokens : tokens[i].minter = DEALER => tokens[i].id = i - 1

HasEntry(subscribers, a) == \E i \in DOMAIN subscribers : subscribers[i].address = a

Undeployed(w) ==
  /\ w.codeHash[DEALER] = Unset /\ w.codeHash[SNIP] = Unset
  /\ w.dealer = D!Blank
  /\ w.snip = S!Blank

Linked(w) ==
  /\ w.codeHash[DEALER] # Unset /\ w.codeHash[SNIP] # Unset
  /\ w.dealer.admin # Unset /\ w.dealer.metadata \in Metadata
  /\ KnowsChild(w.dealer, w.codeHash[SNIP])
  /\ KnowsDealer(w.snip, w.codeHash[DEALER])
  /\ Counted(w.snip.tokens)

\* The listener follows the dealer at most, and is on its list if it does.
Listens(w) ==
  /\ w.heard[SNIP] = Unset
  /\ w.heard[DEALER] \in {Unset, w.codeHash[DEALER]}
  /\ w.heard[DEALER] # Unset => HasEntry(w.dealer.subscribers, EXT)

Sound(w) == (Undeployed(w) \/ Linked(w)) /\ Listens(w)

-----------------------------------------------------------------------------
(* Deployments. *)

\* The dealer's storage from its instantiation to the reply, and after it.
NewDealer ==
  /\ codeHash[DEALER] \in DealerHash
  /\ dealer.admin \in Deployers
  /\ dealer.prices \in PriceLists \ {<< >>}
  /\ dealer.metadata \in MetadataOffers
  /\ dealer.child_code_hash \in SnipHash
  /\ bank = committed.bank /\ heard = committed.heard

Expecting ==
  NewDealer /\ dealer.child_address = Unset /\ dealer.subscribers = << >>

HasChild ==
  /\ NewDealer
  /\ codeHash[SNIP] = dealer.child_code_hash
  /\ dealer.child_address = SNIP
  /\ dealer.subscribers = << Current(SNIP) >>

\* The child's storage after its instantiation, and after the registration.
NewChild ==
  /\ wasmAdmin[SNIP] = dealer.admin
  /\ snip.minters = {DEALER} /\ snip.status = "normal" /\ snip.tokens = << >>

Unregistered ==
  NewChild /\ snip.admin = DEALER /\ snip.slots = 1 /\ snip.subscribers = << >>

Registered == NewChild /\ KnowsDealer(snip, codeHash[DEALER])

Registration ==
  Item(DEALER, {}, WasmExecute(Current(SNIP), SubscribeMsg(Current(DEALER))))
HandOver ==
  Item(DEALER, {}, WasmExecute(Current(SNIP), ChangeAdmin(dealer.admin)))

DeploymentSubmitted ==
  /\ World = committed
  /\ \E wasm_admin \in Deployers, h \in DealerHash, admin \in Deployers \cup {Unset},
        prices \in PriceLists, metadata \in MetadataOffers,
        royalty_info \in RoyaltyInfo, code_id \in SnipHash, code_hash \in SnipHash :
       pending =
         << Item(tx.sender, {},
                 [type |-> "instantiate_dealer", wasm_admin |-> wasm_admin,
                  code_hash |-> h,
                  msg |-> [admin |-> admin, prices |-> prices, metadata |-> metadata,
                           royalty_info |-> royalty_info,
                           snip721_code_id |-> code_id,
                           snip721_code_hash |-> code_hash]]) >>

DealerInstantiated ==
  /\ Expecting
  /\ codeHash[SNIP] = Unset /\ snip = S!Blank
  /\ \E code_id \in SnipHash, royalty_info \in RoyaltyInfo :
       pending = << Item(DEALER, {},
                         WasmInstantiate(dealer.admin, code_id, dealer.child_code_hash,
                                         Snip721Instantiate(DEALER, royalty_info, 1),
                                         1)) >>

ChildInstantiated ==
  /\ Expecting /\ Unregistered /\ codeHash[SNIP] = dealer.child_code_hash
  /\ pending = << Item(SNIP, {}, [type |-> "reply", id |-> 1,
                                  contract_address |-> SNIP]) >>

Replied == HasChild /\ Unregistered /\ pending = << Registration, HandOver >>

DealerRegistered ==
  HasChild /\ Registered /\ snip.admin = DEALER /\ pending = << HandOver >>

HandedOver ==
  HasChild /\ Registered /\ snip.admin = dealer.admin /\ pending = << >>

Deploying ==
  /\ tx.sender \in Deployers
  /\ Undeployed(committed)
  /\ \/ DeploymentSubmitted \/ DealerInstantiated \/ ChildInstantiated
     \/ Replied \/ DealerRegistered \/ HandedOver

-----------------------------------------------------------------------------
(* Calls. *)

CodeUnchanged == codeHash = committed.codeHash /\ wasmAdmin = committed.wasmAdmin

\* The coins sent with the call have arrived.
Paid(contract) ==
  /\ Affords(committed.bank, tx.sender, tx.funds)
  /\ bank = Transfer(committed.bank, tx.sender, contract, tx.funds)

CallSubmitted ==
  /\ World = committed
  /\ pending = << Item(tx.sender, tx.funds,
                       WasmExecute(Current(tx.contract), tx.body)) >>
  /\ tx.contract = EXT =>
       /\ tx.funds = {}
       /\ \E c \in {DEALER, SNIP} : tx.body = FollowMsg(Current(c))

\* What the minters and the admin of the child may change in its storage.
MintedBy(sender, id, owner, before, after) ==
  /\ before.status = "normal" /\ sender \in before.minters
  /\ \A i \in DOMAIN before.tokens : before.tokens[i].id # id
  /\ after = [before EXCEPT !.tokens =
                Append(@, [id |-> id, owner |-> owner, minter |-> sender])]

AdministeredBy(sender, before, after) ==
  /\ sender = before.admin
  /\ \E admin \in Address, minters \in SUBSET Address, status \in S!Status :
       /\ after = [before EXCEPT !.admin = admin, !.minters = minters, !.status = status]
       /\ before.status = "stop_all" => admin = before.admin /\ minters = before.minters

MintItem ==
  Item(DEALER, {}, WasmExecute(Current(SNIP), MintNft(Unset, tx.sender, dealer.metadata)))

Sale ==
  /\ IsPurchase
  /\ CodeUnchanged /\ heard = committed.heard
  /\ dealer = committed.dealer
  /\ D!Pays(dealer.prices, tx.funds)

SaleAgreed ==
  /\ Sale /\ Paid(DEALER) /\ snip = committed.snip
  /\ pending = << Item(DEALER, {}, BankSend(dealer.admin, tx.funds)), MintItem >>

SalePaid ==
  /\ Sale /\ Paid(dealer.admin) /\ snip = committed.snip
  /\ pending = << MintItem >>

SaleDone ==
  /\ Sale /\ Paid(dealer.admin)
  /\ dealer.metadata # "both_forms"
  /\ MintedBy(DEALER, Len(committed.snip.tokens), tx.sender, committed.snip, snip)
  /\ pending = << >>

\* A registration with the dealer.
RegisteredWithDealer(contract) ==
  dealer = [committed.dealer EXCEPT !.subscribers = AddSubscriber(@, contract)]

DealerCalled ==
  /\ tx.contract = DEALER /\ ~IsPurchase
  /\ CodeUnchanged /\ heard = committed.heard /\ snip = committed.snip
  /\ Paid(DEALER)
  /\ tx.body.contract \in ContractInfo /\ RegisteredWithDealer(tx.body.contract)
  /\ pending = << >>

ChildCalled ==
  /\ tx.contract = SNIP
  /\ CodeUnchanged /\ heard = committed.heard /\ dealer = committed.dealer
  /\ Paid(SNIP)
  /\ \/ snip = committed.snip
     \/ \E id \in TokenId \cup {Len(committed.snip.tokens)}, owner \in Address :
          MintedBy(tx.sender, id, owner, committed.snip, snip)
     \/ AdministeredBy(tx.sender, committed.snip, snip)
  /\ pending = << >>

Followed ==
  /\ tx.contract = EXT
  /\ CodeUnchanged /\ bank = committed.bank /\ snip = committed.snip
  /\ \E c \in {DEALER, SNIP} :
       /\ heard = [committed.heard EXCEPT ![c] = codeHash[c]]
       /\ \/ /\ dealer = committed.dealer
             /\ pending = << Item(EXT, {}, WasmExecute(Current(c),
                                               SubscribeMsg(Current(EXT)))) >>
          \/ /\ c = DEALER /\ RegisteredWithDealer(Current(EXT))
             /\ pending = << >>

Calling ==
  /\ Linked(committed)
  /\ tx.contract = EXT => codeHash[EXT] # Unset
  /\ tx.funds \in FundsSent \/ tx.contract = EXT
  /\ \/ CallSubmitted \/ SaleAgreed \/ SalePaid \/ SaleDone
     \/ DealerCalled \/ ChildCalled \/ Followed

-----------------------------------------------------------------------------
(* Migrations. *)

MigrationSubmitted ==
  /\ World = committed
  /\ Exists(tx.contract)
  /\ \E h \in CodeFor(tx.contract), notify \in Told :
       /\ tx.contract # EXT => notify = << >>
       /\ \A i \in DOMAIN notify : Exists(notify[i])
       /\ pending = << Item(tx.sender, {},
                            [type |-> "migrate", contract |-> tx.contract,
                             code_hash |-> h, notify |-> notify]) >>

\* The notification of c's migration for the contract with this entry.
Notification(c, contract) == Item(c, {}, WasmExecute(contract, NotificationMsg(Current(c))))

Migrated(c) ==
  /\ tx.contract = c
  /\ codeHash[c] \in CodeFor(c)
  /\ codeHash = [committed.codeHash EXCEPT ![c] = codeHash[c]]
  /\ wasmAdmin = committed.wasmAdmin
  /\ bank = committed.bank

\* The child has one subscriber.
ChildMigrated ==
  /\ Migrated(SNIP) /\ Linked(committed)
  /\ snip = committed.snip /\ heard = committed.heard
  /\ \/ /\ pending = << Notification(SNIP, Current(DEALER)) >>
        /\ dealer = committed.dealer
     \/ /\ pending = << >>
        /\ dealer = [committed.dealer EXCEPT
                       !.child_code_hash = codeHash[SNIP],
                       !.subscribers = UpdateSubscriber(@, SNIP, Current(SNIP))]

\* While the dealer tells its subscribers, the listener registers again.
Callback == Item(EXT, {}, WasmExecute(Current(DEALER), SubscribeMsg(Current(EXT))))

Telling(item) ==
  \/ item = Callback
  \/ \E contract \in ContractInfo :
       /\ item = Notification(DEALER, contract)
       /\ HasEntry(dealer.subscribers, contract.address)

\* The child is told first.
ChildToBeTold ==
  /\ snip = committed.snip
  /\ pending # << >> /\ pending[1] = Notification(DEALER, Current(SNIP))

ChildTold == snip = [committed.snip EXCEPT !.subscribers = << Current(DEALER) >>]

ListenerToBeTold ==
  \E i \in DOMAIN pending, h \in Hash :
    pending[i] = Notification(DEALER, Contract(EXT, h))

DealerMigrated ==
  /\ Migrated(DEALER) /\ Linked(committed)
  /\ dealer = [committed.dealer EXCEPT !.subscribers = dealer.subscribers]
  /\ KnowsChild(dealer, codeHash[SNIP])
  /\ \A i \in DOMAIN pending : Telling(pending[i])
  /\ ChildToBeTold \/ ChildTold
  /\ heard[SNIP] = Unset
  /\ heard[DEALER] # Unset => HasEntry(dealer.subscribers, EXT)
  /\ heard[DEALER] \in {Unset, codeHash[DEALER]} \/ ListenerToBeTold

\* The listener tells whom it wants, to no effect.
ListenerMigrated ==
  /\ Migrated(EXT)
  /\ dealer = committed.dealer /\ snip = committed.snip /\ heard = committed.heard
  /\ \A i \in DOMAIN pending :
       \E c \in {DEALER, SNIP} : Exists(c) /\ pending[i] = Notification(EXT, Current(c))

Migrating ==
  MigrationSubmitted \/ ChildMigrated \/ DealerMigrated \/ ListenerMigrated

-----------------------------------------------------------------------------
(* The invariant. *)

Resting == pending = << >> /\ response = Ok(<< >>) /\ World = committed

Running ==
  /\ tx.kind = "instantiate" => Deploying
  /\ tx.kind = "execute" => Calling
  /\ tx.kind = "migrate" => Migrating

\* A dealer that has a child has all that it needs for a sale.
Ready ==
  dealer.child_address # Unset =>
    /\ dealer.admin # Unset /\ dealer.child_code_hash # Unset
    /\ dealer.metadata \in Metadata

\* Between transactions the two are undeployed or linked and a listener that
\* heard of the dealer is on its list; a transaction that has not failed is in
\* one of the stages of its kind; and the child's migration and a rightly paid
\* purchase have not failed (contract.rs and contract_migrate.rs of both
\* contracts, every handler).
IInv ==
  /\ TypeOK
  /\ Sound(committed)
  /\ AtRest => Resting
  /\ (~AtRest /\ response.ok) => Running
  /\ ChildMigrationNeverRefused
  /\ PurchaseNeverRefused
=============================================================================
