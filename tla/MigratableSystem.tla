-------------------------- MODULE MigratableSystem --------------------------
(***************************************************************************)
(* The dealer and its snip721-migratable child on the chain that runs      *)
(* them, with their users and one more contract that may listen to         *)
(* migrations.                                                             *)
(*                                                                         *)
(* The chain is external.  It executes one transaction at a time.  The     *)
(* messages a contract returns run depth first, before those returned      *)
(* earlier; a call that fails, whoever made it, aborts the transaction and *)
(* restores the committed state.  A message to a contract fails unless it  *)
(* names the hash of the code the contract runs now; a migration keeps the *)
(* address and changes that hash, and only the wasm admin may ask for it.  *)
(* A step of the model is the start of a transaction, one call of a        *)
(* handler, or the end of a transaction, so that every state between two   *)
(* calls is visible.                                                       *)
(***************************************************************************)
EXTENDS MigratableStd, Bank

CONSTANTS
  DEALER, SNIP, EXT,              \* the contracts; EXT is somebody else's
  Users,                          \* accounts that send transactions
  Deployers,                      \* those that deploy or administer contracts
  DealerHash, SnipHash, ExtHash,  \* stored code of each kind of contract
  PriceLists,                     \* price lists a deployment may ask for
  MetadataOffers,                 \* and metadata of what it sells
  Requests,                       \* bodies users send to the contracts
  FundsSent,                      \* coins users attach to them
  InitialBalance,                 \* of each user, in each denomination
  MaxTokens, MaxSubscribers       \* bounds of the model

ASSUME ContractsDiffer ==
  /\ {DEALER, SNIP, EXT} \subseteq Address
  /\ DEALER # SNIP /\ DEALER # EXT /\ SNIP # EXT
ASSUME UsersAreNoContracts ==
  Users \subseteq Address \ {DEALER, SNIP, EXT} /\ Deployers \subseteq Users
ASSUME HashesAreStored ==
  DealerHash \subseteq Hash /\ SnipHash \subseteq Hash /\ ExtHash \subseteq Hash
ASSUME PriceListsAreLists == PriceLists \subseteq Seq(Coin)
ASSUME MetadataIsMetadata == MetadataOffers \subseteq Metadata
ASSUME FundsAreCoins == FundsSent \subseteq Funds
ASSUME BoundsAreNat ==
  InitialBalance \in Nat /\ MaxTokens \in Nat /\ MaxSubscribers \in Nat

VARIABLES
  dealer, snip,  \* storage of the two contracts
  codeHash,      \* hash of the code each address runs, Unset if none
  wasmAdmin,     \* who may migrate it
  bank,          \* balances
  heard,         \* the listener's storage: the hashes it knows of the two
  tx,            \* the transaction being executed
  pending,       \* its messages still to run, the next one first
  response,      \* what the last handler returned
  committed      \* the state before the transaction
vars == <<dealer, snip, codeHash, wasmAdmin, bank, heard, tx, pending, response,
          committed>>

D == INSTANCE Dealer WITH Self <- DEALER, AddressStrings <- Address
S == INSTANCE Snip721Migratable
       WITH Self <- SNIP, AddressStrings <- Address, MaxSlots <- 1

ASSUME RequestsAreMessages == Requests \subseteq D!AnyMsg \cup S!AnyMsg

chain == <<codeHash, wasmAdmin, bank>>
outside == <<heard, tx, committed>>  \* out of the two contracts' reach

World ==
  [dealer |-> dealer, snip |-> snip, codeHash |-> codeHash,
   wasmAdmin |-> wasmAdmin, bank |-> bank, heard |-> heard]

NoTx == [kind |-> "none"]
AtRest == tx = NoTx
Exists(c) == codeHash[c] # Unset
Current(c) == Contract(c, codeHash[c])

-----------------------------------------------------------------------------
(* Transactions start: an account submits one message. *)

Item(from, funds, msg) == [from |-> from, funds |-> funds, msg |-> msg]

Begin(t, msg) ==
  /\ AtRest
  /\ tx' = t
  /\ pending' = << Item(t.sender, t.funds, msg) >>
  /\ UNCHANGED <<dealer, snip, chain, heard, response, committed>>

\* A deployment: the dealer's code, and in the message the child's.
SubmitInstantiate ==
  /\ ~Exists(DEALER)
  /\ \E u \in Deployers, wasm_admin \in Deployers, h \in DealerHash,
        admin \in Deployers \cup {Unset}, prices \in PriceLists,
        metadata \in MetadataOffers, royalty_info \in RoyaltyInfo,
        code_id \in SnipHash, code_hash \in SnipHash :
       Begin([kind |-> "instantiate", sender |-> u, funds |-> {}],
             [type |-> "instantiate_dealer", wasm_admin |-> wasm_admin,
              code_hash |-> h,
              msg |-> [admin |-> admin, prices |-> prices, metadata |-> metadata,
                       royalty_info |-> royalty_info,
                       snip721_code_id |-> code_id,
                       snip721_code_hash |-> code_hash]])

\* Bounds of the model.
WithinBounds(contract, body) ==
  /\ body.tag \in {"purchase_mint", "mint_nft"} => Len(snip.tokens) < MaxTokens
  /\ (contract = DEALER /\ body.tag = "subscribe_to_migration_complete_event")
       => D!RoomFor(body.contract)

\* A user knows the hash of the code a contract runs.
SubmitTo(sender, contract, funds, body) ==
  /\ Exists(contract)
  /\ WithinBounds(contract, body)
  /\ Begin([kind |-> "execute", sender |-> sender, funds |-> funds,
            contract |-> contract, body |-> body],
           WasmExecute(Current(contract), body))

SubmitExecute ==
  \E u \in Users, contract \in {DEALER, SNIP}, funds \in FundsSent, body \in Requests :
    SubmitTo(u, contract, funds, body)

\* Somebody has the listener register itself.
FollowMsg(contract) == [tag |-> "follow", contract |-> contract]

SubmitFollow ==
  \E u \in Users, contract \in {DEALER, SNIP} :
    /\ Exists(contract) /\ Exists(EXT)
    /\ contract = DEALER => D!RoomFor(Current(EXT))
    /\ SubmitTo(u, EXT, {}, FollowMsg(Current(contract)))

CodeFor(contract) ==
  CASE contract = DEALER -> DealerHash
    [] contract = SNIP -> SnipHash
    [] contract = EXT -> ExtHash

\* Whom the listener tells that it migrated, in any order, or nobody.
Told == UNION { [1..n -> {DEALER, SNIP}] : n \in 0..2 }

SubmitMigrate ==
  \E u \in Users, contract \in {DEALER, SNIP, EXT}, notify \in Told :
    /\ Exists(contract)
    /\ contract # EXT => notify = << >>
    /\ \A i \in DOMAIN notify : Exists(notify[i])
    /\ \E h \in CodeFor(contract) :
         Begin([kind |-> "migrate", sender |-> u, funds |-> {}, contract |-> contract],
               [type |-> "migrate", contract |-> contract, code_hash |-> h,
                notify |-> notify])

-----------------------------------------------------------------------------
(* Transactions run: the next message is delivered. *)

Item1 == Head(pending)
Msg == Head(pending).msg

Runs(type) ==
  /\ ~AtRest
  /\ response.ok
  /\ pending # << >>
  /\ Msg.type = type

\* Messages of the contract that just ran go first.
Outgoing(from, msgs) == [i \in DOMAIN msgs |-> Item(from, {}, msgs[i])]
Schedule(from, later) ==
  pending' = Outgoing(from, response'.msgs) \o later \o Tail(pending)

\* The chain refuses the message itself.
Refuse ==
  /\ response' = Err
  /\ pending' = Tail(pending)
  /\ UNCHANGED <<dealer, snip, chain>>

Reaches(contract) ==
  /\ Msg.contract.address = contract
  /\ Msg.contract = Current(contract)
  /\ Affords(bank, Item1.from, Item1.funds)

Pay(contract) == bank' = Transfer(bank, Item1.from, contract, Item1.funds)

ExecuteDealer ==
  /\ Runs("execute") /\ Reaches(DEALER)
  /\ Pay(DEALER)
  /\ D!Execute(Item1.from, Item1.funds, Msg.body)
  /\ Schedule(DEALER, << >>)
  /\ UNCHANGED <<snip, codeHash, wasmAdmin, outside>>

ExecuteSnip721 ==
  /\ Runs("execute") /\ Reaches(SNIP)
  /\ Pay(SNIP)
  /\ S!Execute(Item1.from, Msg.body)
  /\ Schedule(SNIP, << >>)
  /\ UNCHANGED <<dealer, codeHash, wasmAdmin, outside>>

\* The listener follows a contract, or is told that one it follows migrated
\* and may call back to it, in the middle of the migration, to register again.
ExecuteExt ==
  /\ Runs("execute") /\ Reaches(EXT)
  /\ \/ /\ Msg.body.tag = "follow"
        /\ heard' = [heard EXCEPT ![Msg.body.contract.address] =
                                    Msg.body.contract.code_hash]
        /\ response' = Ok(<< WasmExecute(Msg.body.contract,
                                          SubscribeMsg(Current(EXT))) >>)
     \/ /\ Msg.body.tag = "migration_complete_notification"
        /\ heard' = [heard EXCEPT ![Item1.from] = Msg.body.to.code_hash]
        /\ \/ response' = Ok(<< >>)
           \/ /\ Item1.from = DEALER => D!RoomFor(Current(EXT))
              /\ response' = Ok(<< WasmExecute(Msg.body.to,
                                              SubscribeMsg(Current(EXT))) >>)
  /\ Schedule(EXT, << >>)
  /\ UNCHANGED <<dealer, snip, chain, tx, committed>>

\* No contract at the address, or one whose code has another hash, or not
\* enough money.
ExecuteRefused ==
  /\ Runs("execute")
  /\ \A contract \in {DEALER, SNIP, EXT} : ~Reaches(contract)
  /\ Refuse
  /\ UNCHANGED outside

RunBankSend ==
  /\ Runs("bank_send")
  /\ \/ /\ Affords(bank, Item1.from, Msg.amount)
        /\ bank' = Transfer(bank, Item1.from, Msg.to_address, Msg.amount)
        /\ response' = Ok(<< >>)
        /\ pending' = Tail(pending)
        /\ UNCHANGED <<dealer, snip, codeHash, wasmAdmin>>
     \/ ~Affords(bank, Item1.from, Msg.amount) /\ Refuse
  /\ UNCHANGED outside

Create(contract) ==
  /\ codeHash' = [codeHash EXCEPT ![contract] = Msg.code_hash]
  /\ wasmAdmin' = [wasmAdmin EXCEPT ![contract] = Msg.wasm_admin]

RunInstantiateDealer ==
  /\ Runs("instantiate_dealer")
  /\ Create(DEALER)
  /\ D!Instantiate(Item1.from, Msg.msg)
  /\ Schedule(DEALER, << >>)
  /\ UNCHANGED <<snip, bank, outside>>

\* The child's messages, then the reply to the dealer, then the rest; none of
\* them if it fails.
RunInstantiateSnip721 ==
  /\ Runs("instantiate")
  /\ \/ /\ Msg.code_id = Msg.code_hash
        /\ Create(SNIP)
        /\ S!Instantiate(Item1.from, Msg.msg)
        /\ Schedule(SNIP, << Item(SNIP, {}, [type |-> "reply", id |-> Msg.reply_id,
                                             contract_address |-> SNIP]) >>)
        /\ UNCHANGED <<dealer, bank>>
     \/ Msg.code_id # Msg.code_hash /\ Refuse
  /\ UNCHANGED outside

RunReply ==
  /\ Runs("reply")
  /\ D!Reply(Msg.id, Msg.contract_address, codeHash[DEALER])
  /\ Schedule(DEALER, << >>)
  /\ UNCHANGED <<snip, chain, outside>>

ExtMigrates ==
  /\ response' = Ok(Broadcast([i \in DOMAIN Msg.notify |-> Current(Msg.notify[i])],
                              Contract(EXT, Msg.code_hash)))
  /\ UNCHANGED <<dealer, snip>>

\* The new code's migrate handler runs under its own hash.
RunMigrate ==
  /\ Runs("migrate")
  /\ \/ /\ Item1.from = wasmAdmin[Msg.contract]
        /\ codeHash' = [codeHash EXCEPT ![Msg.contract] = Msg.code_hash]
        /\ \/ Msg.contract = DEALER /\ D!Migrate(Msg.code_hash) /\ UNCHANGED snip
           \/ Msg.contract = SNIP /\ S!Migrate(Msg.code_hash) /\ UNCHANGED dealer
           \/ Msg.contract = EXT /\ ExtMigrates
        /\ Schedule(Msg.contract, << >>)
        /\ UNCHANGED <<wasmAdmin, bank>>
     \/ Item1.from # wasmAdmin[Msg.contract] /\ Refuse
  /\ UNCHANGED outside

-----------------------------------------------------------------------------
(* Transactions end. *)

Rest == tx' = NoTx /\ pending' = << >> /\ response' = Ok(<< >>)

Commit ==
  /\ ~AtRest /\ response.ok /\ pending = << >>
  /\ Rest
  /\ committed' = World
  /\ UNCHANGED <<dealer, snip, chain, heard>>

Abort ==
  /\ ~AtRest /\ ~response.ok
  /\ Rest
  /\ dealer' = committed.dealer
  /\ snip' = committed.snip
  /\ codeHash' = committed.codeHash
  /\ wasmAdmin' = committed.wasmAdmin
  /\ bank' = committed.bank
  /\ heard' = committed.heard
  /\ UNCHANGED committed

-----------------------------------------------------------------------------
Init ==
  /\ dealer = D!Blank
  /\ snip = S!Blank
  /\ \E h \in ExtHash \cup {Unset}, u \in Deployers :
       /\ codeHash = [a \in Address |-> IF a = EXT THEN h ELSE Unset]
       /\ wasmAdmin = [a \in Address |-> IF a = EXT THEN u ELSE Unset]
  /\ bank = [a \in Address |->
               [d \in Denom |-> IF a \in Users THEN InitialBalance ELSE 0]]
  /\ heard = [c \in {DEALER, SNIP} |-> Unset]
  /\ tx = NoTx
  /\ pending = << >>
  /\ response = Ok(<< >>)
  /\ committed = World

\* What the chain does with a transaction it has begun.
ChainStep ==
  \/ ExecuteDealer \/ ExecuteSnip721 \/ ExecuteExt \/ ExecuteRefused
  \/ RunBankSend \/ RunInstantiateDealer \/ RunInstantiateSnip721
  \/ RunReply \/ RunMigrate
  \/ Commit \/ Abort

Next ==
  \/ SubmitInstantiate \/ SubmitExecute \/ SubmitFollow \/ SubmitMigrate
  \/ ChainStep

Spec == Init /\ [][Next]_vars

\* The chain goes on with a transaction; nobody has to send one.
FairSpec == Spec /\ WF_vars(ChainStep)

-----------------------------------------------------------------------------
(* Types. *)

DealerStorage ==
  [admin : Address \cup {Unset}, prices : Seq(Coin), metadata : Metadata \cup {Unset},
   child_code_hash : Hash \cup {Unset}, child_address : Address \cup {Unset},
   subscribers : Seq(ContractInfo)]

Snip721Storage ==
  [admin : Address \cup {Unset}, minters : SUBSET Address, status : S!Status,
   tokens : Seq(S!Token), slots : 0..255, subscribers : Seq(ContractInfo)]

WorldType ==
  [dealer : DealerStorage, snip : Snip721Storage,
   codeHash : [Address -> Hash \cup {Unset}],
   wasmAdmin : [Address -> Address \cup {Unset}],
   bank : Balances,
   heard : [{DEALER, SNIP} -> Hash \cup {Unset}]]

\* Bodies of the execute messages of a transaction.
Bodies ==
  ExecuteBody \cup D!AnyMsg \cup S!AnyMsg \cup { FollowMsg(c) : c \in ContractInfo }

ChainMsg ==
  SubMsg \cup
  [type : {"execute"}, contract : ContractInfo, body : Bodies] \cup
  [type : {"instantiate_dealer"}, wasm_admin : Address, code_hash : Hash,
   msg : D!InstantiateMsg] \cup
  [type : {"reply"}, id : Nat, contract_address : Address] \cup
  [type : {"migrate"}, contract : {DEALER, SNIP, EXT}, code_hash : Hash, notify : Told]

Items == [from : Address, funds : Funds, msg : ChainMsg]

Transactions ==
  {NoTx} \cup
  [kind : {"instantiate"}, sender : Users, funds : Funds] \cup
  [kind : {"execute"}, sender : Users, funds : Funds, contract : {DEALER, SNIP, EXT},
   body : Bodies] \cup
  [kind : {"migrate"}, sender : Users, funds : Funds, contract : {DEALER, SNIP, EXT}]

\* Type correctness of the committed and of the present state, and of what
\* is under way.
TypeOK ==
  /\ World \in WorldType
  /\ committed \in WorldType
  /\ tx \in Transactions
  /\ response \in Response
  /\ pending \in Seq(Items)

-----------------------------------------------------------------------------
(* Properties. *)

FirstEntry(subscribers, c) ==
  { subscribers[i] : i \in {j \in DOMAIN subscribers : IsFirstEntry(subscribers, c, j)} }

\* README.md:10, "Both contracts can be migrated without breaking their
\* references to each other": between transactions, after a deployment and
\* whatever was migrated, aborted or registered by others since, the child
\* that the dealer answers queries with, and the entry through which each of
\* the two notifies the other, name the partner with the code it runs.
ReferencesCurrent ==
  (AtRest /\ Exists(DEALER)) =>
    /\ D!QueryChildSnip721 = Current(SNIP)
    /\ FirstEntry(dealer.subscribers, SNIP) = {Current(SNIP)}
    /\ FirstEntry(snip.subscribers, DEALER) = {Current(DEALER)}

\* The end of a transaction in which nothing failed.
Committing == ~AtRest /\ response.ok /\ pending = << >>

\* README.md:8, "It instantiates its own snip721-migratable instance. And
\* registers itself as a minter": a deployment that commits has linked the
\* two contracts completely.  The reply has given the child's admin role,
\* which the dealer held for the instantiation, to the true admin, kept the
\* minter role, and used the child's only slot for the dealer itself.
HandshakeComplete ==
  (Committing /\ tx.kind = "instantiate") =>
    /\ wasmAdmin[SNIP] = dealer.admin
    /\ snip.admin = dealer.admin
    /\ snip.minters = {DEALER}
    /\ snip.slots = 0
    /\ snip.subscribers = << Current(DEALER) >>
    /\ dealer.subscribers = << Current(SNIP) >>

IsPurchase ==
  tx.kind = "execute" /\ tx.contract = DEALER /\ tx.body.tag = "purchase_mint"

\* A purchase that commits moved exactly the listed price from the buyer to
\* the dealer's admin, through the dealer and leaving nothing with it, and
\* minted one token for the buyer (contract.rs, purchase_and_mint).  No
\* other transaction makes the dealer mint.
MintIffPaid ==
  Committing =>
    IF IsPurchase
    THEN /\ D!Pays(committed.dealer.prices, tx.funds)
         /\ bank = Transfer(committed.bank, tx.sender, committed.dealer.admin, tx.funds)
         /\ snip.tokens =
              Append(committed.snip.tokens,
                     [id |-> Len(committed.snip.tokens), owner |-> tx.sender,
                      minter |-> DEALER])
    ELSE \A i \in (Len(committed.snip.tokens) + 1)..Len(snip.tokens) :
           snip.tokens[i].minter # DEALER

\* Coins that came with a registration or a notification stay with the
\* dealer for good (contract.rs, execute: no message takes them out): no
\* transaction lowers its balance, so that none of them ever pays for a sale.
DealerKeepsCoins ==
  [][\A d \in Denom : committed.bank[DEALER][d] <= committed'.bank[DEALER][d]]_vars

\* The child has not been told to refuse the dealer's mints, and accepts the
\* metadata of what the dealer sells.
OpenForSale ==
  /\ DEALER \in committed.snip.minters
  /\ committed.snip.status = "normal"
  /\ committed.dealer.metadata # "both_forms"

\* Somebody else has a token whose id, which its minter chose, is the number
\* of tokens: the id that the next sale will get.
IndexTaken ==
  \E i \in DOMAIN committed.snip.tokens :
    /\ committed.snip.tokens[i].id = Len(committed.snip.tokens)
    /\ committed.snip.tokens[i].minter # DEALER

\* A buyer with the money, who sends a listed price.
RightlyPaid ==
  /\ IsPurchase
  /\ D!Pays(committed.dealer.prices, tx.funds)
  /\ Affords(committed.bank, tx.sender, tx.funds)

\* A buyer who sends a listed price is turned away for one reason only, the
\* id taken by another minter's token: never because of a migration, however
\* many there were (the integration tests dealer_can_mint_after_dealer_migrates
\* and dealer_can_mint_after_snip721_migrates_tokens), nor because of the
\* sales and mints before.
PurchaseNeverRefused == (RightlyPaid /\ OpenForSale /\ ~IndexTaken) => response.ok

\* README.md:8, "allows anyone to buy a mint of an nft with fixed metadata":
\* who sends a listed price is served as long as the dealer may mint.
AnyoneCanBuy == (RightlyPaid /\ OpenForSale) => response.ok

MigrationBy(contract) ==
  /\ tx.kind = "migrate"
  /\ tx.contract = contract
  /\ tx.sender = committed.wasmAdmin[contract]

\* The child's wasm admin can always migrate it: the only contract that the
\* child has to notify is the dealer, under its present hash, and the dealer
\* accepts (contract_migrate.rs and contract.rs, update_child_snip721).
ChildMigrationNeverRefused == MigrationBy(SNIP) => response.ok

\* README.md:10, "Both contracts can be migrated": the dealer's wasm admin
\* can always migrate it.
DealerMigrationNeverRefused == MigrationBy(DEALER) => response.ok

\* msg.rs, InstantiateMsg.prices, "Allowed Coin prices for purchasing a
\* mint": each price that the dealer lists buys a mint.
EveryListedPriceBuys ==
  (/\ IsPurchase
   /\ OpenForSale
   /\ \E price \in Range(D!QueryPrices) : tx.funds = {price}
   /\ Affords(committed.bank, tx.sender, tx.funds))
  => response.ok

\* A migration that commits has reached the listener, wherever it stands in
\* the list and whatever the others did when they were told: it never takes
\* one of the two for running older code than it does (contract_migrate.rs,
\* migrate, whose messages are all ReplyOn::Never).  It is about the dealer:
\* a child that the dealer has deployed has no slot for a listener.
FollowersAreTold ==
  AtRest => \A c \in {DEALER, SNIP} : heard[c] \in {Unset, codeHash[c]}

\* Each of the two notifies the other and stands in its own or the other's
\* list, but telling them never sets off further notifications without end:
\* every transaction comes to its end (contract.rs, update_child_snip721 and
\* update_migrated_dependency).
TransactionsEnd == []<>AtRest

-----------------------------------------------------------------------------
(* The abstract specification. *)

\* The hash under which the child knows the dealer.
DealerHashIn(subscribers) ==
  IF FirstEntry(subscribers, DEALER) = {} THEN Unset
  ELSE (CHOOSE e \in FirstEntry(subscribers, DEALER) : TRUE).code_hash

\* What the pair promises is about the state between transactions.
Promise == INSTANCE MigratablePair WITH
  code <- [c \in {DEALER, SNIP} |-> committed.codeHash[c]],
  known <- [c \in {DEALER, SNIP} |->
              IF c = DEALER THEN committed.dealer.child_code_hash
              ELSE DealerHashIn(committed.snip.subscribers)],
  sale <- [admin |-> committed.dealer.admin, prices |-> committed.dealer.prices,
           metadata |-> committed.dealer.metadata],
  collection <- [admin |-> committed.snip.admin, minters |-> committed.snip.minters,
                 status |-> committed.snip.status, tokens |-> committed.snip.tokens],
  bank <- committed.bank

\* README.md:8-10: all the messages, replies and failures of the two
\* contracts amount to atomic deployments, sales, migrations and
\* administration, in which the two always know each other.
ImplementsPromise == Promise!Spec
=============================================================================
