------------------------- MODULE Snip721Migratable -------------------------
(***************************************************************************)
(* The contract snip721-migratable: the SNIP-721 reference implementation, *)
(* which it hands every base message to, with a list of subscribers to its *)
(* migrations whose length is limited when it is instantiated.             *)
(*                                                                         *)
(* Of the reference implementation (a git dependency) the model has what   *)
(* the dealer and its administrator use: who is the admin, who may mint,   *)
(* whether minting is stopped, which tokens exist and under which ids.     *)
(* Everything about transfers, approvals and viewing keys is left out.     *)
(*                                                                         *)
(* Next lets an arbitrary chain call the handlers in any order.            *)
(***************************************************************************)
EXTENDS MigratableStd

CONSTANTS
  Self,            \* the contract's own address
  AddressStrings,  \* address strings in messages, well formed or not
  MaxSlots,        \* bound of the model: largest number of slots asked for
  MaxTokens        \* bound of the model: tokens minted

ASSUME SelfIsAnAddress == Self \in Address
ASSUME AddressesAreStrings ==
  Address \subseteq AddressStrings /\ Unset \notin AddressStrings
ASSUME MaxSlotsIsU8 == MaxSlots \in 0..255
ASSUME MaxTokensIsNat == MaxTokens \in Nat

VARIABLES snip, response
vars == <<snip, response>>

Status == {"normal", "stop_transactions", "stop_all"}
Token == [id : Int, owner : Address, minter : Address]

\* Storage before `instantiate'.
Blank ==
  [admin |-> Unset, minters |-> {}, status |-> "normal", tokens |-> << >>,
   slots |-> 0, subscribers |-> << >>]

Fail == snip' = snip /\ response' = Err
Succeed(storage, msgs) == snip' = storage /\ response' = Ok(msgs)

-----------------------------------------------------------------------------
(* The reference implementation. *)

\* Its instantiate: the admin is also the first minter.
CanBaseInstantiate(msg) ==
  msg.admin \in Address \cup {Unset} /\ msg.royalty_info = "valid"

BaseInstantiate(storage, sender, msg) ==
  LET admin == IF msg.admin = Unset THEN sender ELSE msg.admin
  IN  [storage EXCEPT !.admin = admin, !.minters = {admin}]

\* Without an id the token gets the current token index, which counts all
\* mints, also those that asked for an id.
NewId(token_id) == IF token_id = Unset THEN Len(snip.tokens) ELSE token_id

IdsInUse == { snip.tokens[i].id : i \in DOMAIN snip.tokens }

CanMint(sender, msg) ==
  /\ snip.status = "normal" /\ sender \in snip.minters
  /\ NewId(msg.token_id) \notin IdsInUse
  /\ msg.metadata # "both_forms"

Mint(sender, msg) ==
  [snip EXCEPT !.tokens =
     Append(@, [id |-> NewId(msg.token_id), owner |-> msg.owner, minter |-> sender])]

\* Administration is refused to others, and to all once everything stopped.
CanAdminister(sender) == sender = snip.admin /\ snip.status # "stop_all"

BaseExecute(sender, msg) ==
  \/ /\ msg.tag = "mint_nft" /\ CanMint(sender, msg)
     /\ Succeed(Mint(sender, msg), << >>)
  \/ /\ msg.tag = "change_admin" /\ CanAdminister(sender)
     /\ Succeed([snip EXCEPT !.admin = msg.address], << >>)
  \/ /\ msg.tag = "add_minters" /\ CanAdminister(sender)
     /\ Succeed([snip EXCEPT !.minters = @ \cup msg.minters], << >>)
  \/ /\ msg.tag = "remove_minters" /\ CanAdminister(sender)
     /\ Succeed([snip EXCEPT !.minters = @ \ msg.minters], << >>)
  \/ /\ msg.tag = "set_contract_status" /\ sender = snip.admin
     /\ Succeed([snip EXCEPT !.status = msg.level], << >>)
  \/ msg.tag = "mint_nft" /\ ~CanMint(sender, msg) /\ Fail
  \/ /\ msg.tag \in {"change_admin", "add_minters", "remove_minters"}
     /\ ~CanAdminister(sender) /\ Fail
  \/ msg.tag = "set_contract_status" /\ sender # snip.admin /\ Fail

BaseTags ==
  {"mint_nft", "change_admin", "add_minters", "remove_minters",
   "set_contract_status"}

-----------------------------------------------------------------------------
(* The contract. *)

Instantiate(sender, msg) ==
  \/ /\ CanBaseInstantiate(msg)
     /\ Succeed(BaseInstantiate(
                  [Blank EXCEPT !.slots = msg.max_migration_complete_event_subscribers],
                  sender, msg),
                << >>)
  \/ ~CanBaseInstantiate(msg) /\ Fail

\* Mutant: registration does not look at the slots.
CanRegisterUnlimited(contract) == IsValid(contract)

\* register_to_notify_on_migration_complete, with the number of remaining
\* slots saved by instantiate: each registration takes one, also a repeated
\* one.
CanRegister(contract) == snip.slots > 0 /\ IsValid(contract)

\* Mutant: the slot is not taken.
SubscribeFree(contract) ==
  \/ /\ CanRegister(contract)
     /\ Succeed([snip EXCEPT !.subscribers = AddSubscriber(@, contract)], << >>)
  \/ ~CanRegister(contract) /\ Fail

Subscribe(contract) ==
  \/ /\ CanRegister(contract)
     /\ Succeed([snip EXCEPT !.slots = @ - 1,
                             !.subscribers = AddSubscriber(@, contract)], << >>)
  \/ ~CanRegister(contract) /\ Fail

\* Mutant: the notification is accepted and ignored.
IgnoreMigratedDependency(sender, to) ==
  (IsValid(to) /\ Succeed(snip, << >>)) \/ (~IsValid(to) /\ Fail)

\* Anyone may call it; only an entry of the caller is touched.
UpdateMigratedDependency(sender, to) ==
  \/ /\ IsValid(to)
     /\ Succeed([snip EXCEPT !.subscribers = UpdateSubscriber(@, sender, to)], << >>)
  \/ ~IsValid(to) /\ Fail

Supported ==
  BaseTags \cup
  {"subscribe_to_migration_complete_event", "migration_complete_notification"}

Execute(sender, msg) ==
  \/ msg.tag \in BaseTags /\ BaseExecute(sender, msg)
  \/ msg.tag = "subscribe_to_migration_complete_event" /\ Subscribe(msg.contract)
  \/ /\ msg.tag = "migration_complete_notification"
     /\ UpdateMigratedDependency(sender, msg.to)
  \/ msg.tag \notin Supported /\ Fail

Migrate(code_hash) ==
  Succeed(snip, Broadcast(snip.subscribers, Contract(Self, code_hash)))

-----------------------------------------------------------------------------
Instantiated == snip.admin # Unset

AnyContract == [address : AddressStrings, code_hash : Hash]

AnyMsg ==
  { MintNft(id, a, m) : id \in TokenId \cup {Unset}, a \in Address, m \in Metadata } \cup
  { ChangeAdmin(a) : a \in Address } \cup
  [tag : {"add_minters", "remove_minters"}, minters : SUBSET Address] \cup
  [tag : {"set_contract_status"}, level : Status] \cup
  { SubscribeMsg(c) : c \in AnyContract } \cup
  { NotificationMsg(c) : c \in AnyContract } \cup
  {[tag |-> "broadcast_migration_complete_notification"]}

Init == snip = Blank /\ response = Ok(<< >>)

DoInstantiate ==
  /\ ~Instantiated
  /\ \E sender \in Address, admin \in AddressStrings \cup {Unset},
        royalty_info \in RoyaltyInfo, n \in 0..MaxSlots :
       Instantiate(sender, Snip721Instantiate(admin, royalty_info, n))

DoExecute ==
  /\ Instantiated
  /\ \E sender \in Address, msg \in AnyMsg :
       /\ msg.tag = "mint_nft" => Len(snip.tokens) < MaxTokens
       /\ Execute(sender, msg)

DoMigrate == Instantiated /\ \E h \in Hash : Migrate(h)

Next == DoInstantiate \/ DoExecute \/ DoMigrate

Spec == Init /\ [][Next]_vars

-----------------------------------------------------------------------------
\* Type correctness of the storage and of the last response.
TypeOK ==
  /\ snip \in [admin : Address \cup {Unset}, minters : SUBSET Address,
               status : Status, tokens : Seq(Token), slots : 0..255,
               subscribers : Seq(ContractInfo)]
  /\ response \in Response

\* Entries of the list and slots left.
Budget == Len(snip.subscribers) + snip.slots

\* The limit given at instantiation is never exceeded: slots in use (entries
\* of the list) and slots left never add up to more than before, whatever
\* registrations, repeated registrations and migrations of subscribers
\* happen in between (contract.rs, instantiate and execute).
SlotBudgetNeverGrows == [][Instantiated => Budget' <= Budget]_vars
============================================================================
