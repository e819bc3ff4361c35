# A verification of snip721-migratable and snip721-dealer

TLA+ modules that model the two contracts of this repository and the way the
chain runs them, TLC configurations that check them on small instances, and
TLAPS proofs of what holds for every instance.

## 1. The system

| component | state | operations | talks to |
|---|---|---|---|
| `contracts/snip721-dealer` | admin, price list, metadata, the child's address and code hash, list of subscribers | `instantiate`, `reply`, `execute` (PurchaseMint, SubscribeToMigrationCompleteEvent, MigrationCompleteNotification), `migrate`, queries GetPrices and GetChildSnip721 | instantiates the child, registers with it, hands it to its admin, mints through it; pays its admin |
| `contracts/snip721-migratable` | the reference implementation's storage; list of subscribers; remaining slots | `instantiate`, `execute` (base messages, SubscribeToMigrationCompleteEvent, MigrationCompleteNotification), `migrate`, base queries | notifies its subscribers |
| `cw-migratable-contract-std` (git dependency) | the list of subscribers and the slots, in the storage of its caller | add, register, update a subscriber, broadcast | |
| `snip721-reference-impl` (git dependency) | admin, minters, status, tokens and their ids, ... | mint, administration, ... | |
| the chain (external) | code hash and wasm admin of each contract, balances | transactions, submessages, replies, migrations, bank | calls the entry points |
| `deployment/deploy` | the records `deployed/<contract>/v<version>/<node>.json` | `storeUpdatedContracts` | uploads code to the chain of a node |
| `deployment/integration-tests` | none | the client calls used as transactions here | sends transactions |
| schema examples, CI, build files | none | | |

How they interact.  `instantiate` of the dealer answers with one submessage,
the instantiation of the child, whose first admin (and so minter) is the dealer
itself.  The chain then calls the dealer's `reply`, which stores the child's
address, puts the child on the dealer's list of subscribers, and sends the child
two messages: the dealer's own registration, which uses the only slot the child
was given, and ChangeAdmin to the true admin.  A purchase is one coin sent to the
dealer; the dealer answers with a bank transfer to its admin and a MintNft to the
child, which names no token id: the child then takes its count of mints, unless a
token has that id already.  When code is migrated the address stays and the code hash changes; the
new code's `migrate` sends MigrationCompleteNotification to every subscriber
under the hash stored with it.  On receiving one, the dealer updates the child's
reference and list entry (only the child may send it), the child updates the
sender's entry, if there is one.

The deploy tool is a program of its own.  A run is for one node; for each of the
two contracts it reads the version in Cargo.toml and looks for the record of that
version and node.  A record that exists is read; otherwise the wasm file is
uploaded and the record written.  Versions, wasm files and records are tied
together by nothing but the developer.

What makes it hard:

* the same fact is stored in several places: the child's code hash in the
  chain, in the dealer's reference and in the dealer's list; the dealer's hash
  in the chain and in the child's list.  Every call between the two uses one of
  the copies, and the chain refuses a call with an old one;
* the contracts migrate in any order and any number of times, with other
  registrations and notifications in between;
* every operation is several messages, and one failure anywhere undoes all;
* the child's administration is in the admin's hands: it can take the dealer's
  right to mint away between two purchases, and let others mint, who choose the
  ids of their tokens;
* metadata and royalties go through the dealer unchecked, and are refused by the
  child, at each mint or when it is instantiated;
* contracts outside the pair register for migrations, are called in the middle
  of one, and may call back;
* the dealer takes coins with messages that do not ask for any, and pays its admin
  from the same account;
* a run of the deploy tool can be cut off anywhere, and all that the next one
  knows of it is the files.

What makes each component correct:

* dealer: its reference to the child and its list of subscribers agree
  (`ChildIsSubscribed`); it mints exactly when its price was paid to its admin
  (`MintIffPaid`);
* token contract: the limit on subscribers holds (`SlotBudgetNeverGrows`);
* together: a deployment links them completely (`HandshakeComplete`), they know
  each other's current code ever after (`ReferencesCurrent`), so that a migration
  of the child never fails (`ChildMigrationNeverRefused`), and a purchase only when
  somebody else's token has the id it would get (`PurchaseNeverRefused`); followers
  are told of every migration (`FollowersAreTold`), telling them comes to an end
  (`TransactionsEnd`), and each transaction is one atomic step for whoever looks
  from outside (`ImplementsPromise`);
* deploy tool: its records are true (`RecordsAreTrue`), nothing that has a record
  is uploaded again (`UploadsAccountedFor`), an interruption leaves at most one
  record that cannot be read (`UnreadableOnlyAfterCrash`), and it gets through when
  started again after a failure, unless it meets such a record
  (`DeploymentCompletes`).

## 2. The modules

* **Messages** - types shared by all: contracts as others refer to them, message
  bodies, messages a handler returns (`SubMsg`), and its result (`Ok`, `Err`).
  Addresses and hashes are atomic values.  A token id is a number: a token index is
  the id that is written like it, a negative one stands for any other string.
  Metadata is what a mint accepts or what it refuses (a `token_uri` and an
  `extension` together), and royalties add up to 100% or to more.  Other strings
  and gas are left out.
* **MigratableStd** - the library's operations on a list of subscribers, as
  operators: `AddSubscriber` (skips an exact duplicate), `UpdateSubscriber`
  (replaces the first entry with the sender's address, or nothing), `Broadcast`.
* **Dealer** - `dealer` is the storage, `response` what the last handler
  returned.  One definition per handler (`Instantiate`, `Reply`,
  `PurchaseAndMint`, `Subscribe`, `UpdateChildSnip721`, `Execute` for the routing,
  `Migrate`, and the queries as expressions); each has a disjunct that succeeds
  and one that fails, under a named condition made of the code's checks.  A failed
  handler leaves the storage alone, as the chain discards what it wrote.  Its own
  `Next` is an arbitrary chain: any handler, sender, funds and message, malformed
  addresses and unknown messages included.
* **Snip721Migratable** - the same for the token contract (`snip`, `response`).
  `CanBaseInstantiate`, `BaseInstantiate` and `BaseExecute` are the part of the
  reference implementation the dealer and the admin use.  `NewId` is the id of the
  token that is minted, the one asked for or the count of mints (no token is ever
  burned: the dealer disables it), and `CanMint` refuses one that is in use.
* **Bank** - balances and the transfer of coins, for the two modules that follow.
* **MigratableSystem** - `D == INSTANCE Dealer` and `S == INSTANCE
  Snip721Migratable` share `response`; around them the chain: `codeHash`,
  `wasmAdmin`, `bank`, the running transaction `tx`, its messages still to be run
  `pending`, and the state `committed` before it.  `Submit...` starts a
  transaction, `Execute...`/`Run...` delivers the next message to a handler and
  puts the messages it returns first, `Commit` and `Abort` end it.  `EXT` is a third
  contract that may follow the two (it registers and remembers the hash, `heard`),
  migrate, and notify them in any order or not at all.  Told of a migration, it may
  call back before the others have been told.
* **MigratablePair** - the abstract specification: what the pair promises to an
  observer between transactions.  Its steps are whole transactions: `Deploy`,
  `Migrate` (new code, and the partner knows), `Purchase` (the price to the admin,
  a token to the buyer), `Mint`, `Administer`, and `Notice` (any other message,
  whose only effect is on the coins sent with it).  There are no messages, lists or
  failures.  `MigratableSystem` instantiates it as `Promise`, its state being read
  off `committed`: the code of the two from `codeHash`, what the dealer knows from
  its reference, what the child knows from the first entry for the dealer in its
  list.
* **Deploy** - the deploy tool.  `source` is what the developer edits (version and
  wasm file of each contract), `records` the files under `deployed/`, `chains` the
  code stored on each node's chain and on those it replaced, `run` where the run
  is.  One action per step that something else can come between: `CheckRecord`,
  `StoreCode`, `CreateRecord` (`fileSystem.write` opens the file), `WriteRecord`,
  `Finish`; `Interrupt`, a crash or an exception of the client, may come between
  any two; `Retry` starts the tool again.  `RaiseVersion`, `Compile` and `Reset` (a
  local chain is run with `docker run --rm`) are the environment.
* **MCDealer**, **MCSnip721**, **MCSystem**, **MCDeploy** - the small instances.
* **MigratableSystem_inv** - the inductive invariant of the composition: no proofs,
  only the stages that the transactions of each kind go through.
* **MigratableStd_proofs**, **Dealer_proofs**, **Snip721Migratable_proofs**,
  **Deploy_proofs** - the proofs about the parts.
* **MigratableSystem_types**, **MigratableSystem_calls**,
  **MigratableSystem_migrations**, **MigratableSystem_proofs** - the proofs about the
  composition, each extending the one before: what every step does to the types
  and what the handlers can do at all; deployments and calls from stage to stage;
  migrations from stage to stage; the invariant, the theorems and the refinement.

Definitions marked "Mutant" are altered copies of the definition after them.
No specification uses them; putting one in the place of the original shows that
the property it is listed with in PROJECT.json depends on that code.

### External code

Two libraries and the chain are not in the repository.  They are modelled from
how the code here uses them:

* that `update_migrated_subscriber` changes the entry of the sender's address and
  that registering stores a contract: the unit tests
  (`snip721-migratable/src/test_migrate.rs:128,245`, `snip721-dealer/src/test_migrate.rs:129,294`);
* the corner cases (exact duplicates are skipped but use a slot, only the first
  matching entry is replaced, without saved slots registration is unlimited, no
  slot left is an error, who may mint and administer in which contract status, that
  every mint advances the token index and a refused one does not, that an id in use
  and metadata with both a `token_uri` and an `extension` are refused, and that an
  instantiation with royalties of more than 100% is) were observed by running the compiled contracts in `optimized-wasm/`;
* that a migration keeps the address and changes the hash, that the child's
  purchases go on after either migration, and that only the wasm admin may
  migrate: `IntegrationTests.kt:267-396`;
* that a call names the hash of the code it is meant for and fails with another,
  that transactions are serial, submessages run depth first, and a failed
  submessage with `ReplyOn::Never` or `ReplyOn::Success` aborts the whole
  transaction: the CosmWasm execution model that the code relies on.

The deploy tool's client (`DeployContractUtils.storeCode` of the library secretk) is
modelled as an upload that either happens or ends the run; an exception after the
upload took place is an interruption like another.  A record is written with names
in snake case (main.kt:16,69) and read with the default JSON configuration
(main.kt:63); whether that works depends on the names in `CodeInfo`, a class of
the library, and is the constant `SnakeCaseIsRead`.  The safety theorems hold for
both values of it.  The runs have it TRUE, which the tool relies on; were it
FALSE, every run that finds a record would fail, and `DeploymentCompletes` with it.

A migrated contract is assumed to run code with the same handlers under another
hash.

## 3. The runs

| run | instance | shows |
|---|---|---|
| dealer | 3 addresses and a malformed one, 2 hashes, 2 denominations, 2 amounts, lists of up to 2 subscribers | `TypeOK`, `ChildIsSubscribed` under every sequence of calls |
| snip721 | 2 addresses and a malformed one, 2 hashes, up to 3 slots, 2 tokens, minted with or without an id | `TypeOK`, `SlotBudgetNeverGrows` under every sequence of calls |
| references | 2 users, each able to deploy and be admin, 2 hashes for each of dealer, child and listener, lists of up to 3 | `IInv`, `TypeOK`, `ReferencesCurrent`, `HandshakeComplete`, `ChildMigrationNeverRefused`, `FollowersAreTold`, `TransactionsEnd`, `ImplementsPromise` |
| purchases | 2 buyers with 2 of each of 2 coins, two prices, and right, wrong, missing and double payments, 2 tokens, mints by another minter with and without an id, metadata of both kinds, 2 hashes each | `MintIffPaid`, `PurchaseNeverRefused`, `ImplementsPromise` |
| attached_coins | the purchases instance with registrations that carry coins in place of the administration | `IInv`, `MintIffPaid`, `DealerKeepsCoins` |
| deploy | 2 nodes, one of them local, 2 edits (versions raised or compilations), 1 interruption, 1 chain discarded | `RecordsAreTrue`, `UploadsAccountedFor`, `UnreadableOnlyAfterCrash`, `DeploymentCompletes` |
| listener | the references instance with no other requests | **violated**: `DealerMigrationNeverRefused` |
| doubled_price | one denomination listed with two prices | **violated**: `EveryListedPriceBuys` |
| token_ids | 2 users with one price; the admin mints as well, tokens with an index not reached yet or with another name | **violated**: `AnyoneCanBuy` |
| deploy_version | 1 node, 1 edit | **violated**: `StoresTheVersionItNames` |

Bounds.  Two hashes are enough for a stored hash to be stale and to become
current again after a migration back.  A list of three holds the partner, a
second entry for the partner's address, and a stranger: every shape of "first
entry" and "exact duplicate" occurs.  Two tokens let one purchase fail or succeed
after another, and one token of another minter take the id of the next sale.  In
`references` users also register the partner's address under a
hash it may have later, send notifications themselves, and change the child's
admin, and half of the deployments carry royalties that the child refuses; in
`purchases` the child's admin removes and restores the dealer's right to mint,
stops minting, and mints itself.  In `attached_coins` the dealer owns coins of both
denominations when it is paid in one of them, which is the case where it could
pay on the wrong ones.  In `deploy` two edits let one contract be raised and
compiled, compiled twice, or each contract be edited once, before, between and
during runs; one interruption can fall on any step of a run, and the run after it
is the one that finds what was left; the discarded chain leaves its records
behind.  `MaxTokens`, `MaxSubscribers` (in `WithinBounds`, `RoomFor`), `MaxEdits`,
`MaxInterruptions` and `MaxResets` are the only bounds in guards; everything else
is bounded by the sets of values.

No run disables the deadlock check: a transaction, or a run of the deploy tool,
can always be started.

### Fairness

`references` assumes weak fairness of `ChainStep`: a chain that has begun a
transaction goes on delivering its messages, which is what executing a
transaction means.  Nobody is assumed to send one.  `TransactionsEnd` then says
that the calls of a transaction do not call each other forever; it would fail if
a handler of notifications sent notifications, because the dealer may be
registered with itself.

`deploy` assumes weak fairness of `ToolStep` (a process that runs goes on until it
ends or is interrupted) and of `Retry` (a run that failed is started again).
Interruptions are bounded, the usual assumption that failures cease.  Even so
`DeploymentCompletes` has an exception: a run cut off between the creation of
a record and its content leaves a file that every later run fails to read
(`Blocked`).  It holds for every other interruption.

### The four violated properties

* `DealerMigrationNeverRefused`.  The dealer accepts registrations from anyone,
  but a notification only from its child.  A listener that registers and later
  migrates keeps its old hash in the dealer's list; the dealer's next migration
  notifies it under that hash, the chain refuses, and since the notifications are
  `ReplyOn::Never` the migration is undone.  If the listener does notify the
  dealer, its own migration is undone instead, by the dealer's error.  The child
  does not have the problem: its only slot is the dealer's.
* `EveryListedPriceBuys`.  The first price in the coin's denomination decides;
  a second one is stored, listed, and never accepted.
* `AnyoneCanBuy`, the sentence of README.md:8.  The id of a sale is the child's
  count of mints (`token_id: None`, dealer `contract.rs:166`).  A minter whom the
  child's admin added may mint a token with an id that is an index not reached yet.
  When the count arrives there, the sale is refused because the id is in use; a
  refused mint does not advance the count, so all later sales are refused too, until
  somebody mints with an id of their choice.  `PurchaseNeverRefused` says that
  nothing else turns away a buyer while the dealer may mint; it is proved.
* `StoresTheVersionItNames`.  The version comes from Cargo.toml and the code from
  the wasm file.  A version raised without a compilation is announced as "storing
  version" that version and recorded under it, with the old code.

Two more places where text and code differ, without a run of their own:
README.md:10 says the child updates its *minters* on a notification; the code
updates its *subscribers*, and needs nothing else since the dealer's address does
not change.  The comment in snip721-migratable `contract.rs:55`, "update any
matching subscribers", is about a call that updates the first one only.

## 4. The proofs

Checked by tlapm for every value of the constants, from the named assumptions of
the modules (contract addresses are addresses, price lists are lists of coins,
the limit is an unsigned byte, `Unset` is no value).

* `MigratableStd_proofs`: what adding, updating and broadcasting return.  The one
  that is not a calculation is `FirstEntryExists`: a list with an entry for an
  address has a first one, from the well-foundedness of the naturals.
* `Dealer_proofs!TypeCorrect`: TypeOK is inductive, one lemma per handler.  Its
  third conjunct (an instantiated dealer has a child code hash) is what makes the
  messages of `reply` and of a purchase well typed.
* `Dealer_proofs!ChildAlwaysSubscribed`: ChildIsSubscribed is inductive relative
  to TypeOK.  Three handlers matter: `reply` adds the entry, a registration
  removes none, and a notification from the child finds the first entry of the
  child's address (there is one, by the invariant) and replaces it with the value
  that the reference gets.
* `Snip721Migratable_proofs!TypeCorrect` and `!SlotsAreBudgeted`: a registration
  takes its slot before it adds at most one entry, an update keeps the length, and
  the reference implementation touches neither.

* `Deploy_proofs!RecordsAlwaysTrue`, with `!TypeCorrect`.  `RecordsAreTrue` alone is
  not inductive.  The invariant `IInv` adds that each node has a present chain
  (`ChainsExist`), that a run which is about to upload is still at a contract type,
  and that what a run is about to record is true (`UnderWay`).  The steps that change
  the chains only add to them (`ChainsGrow`), so that nothing true becomes false
  (`TruthLasts`); the others record what the last upload returned.  Edits never
  matter: that is why the recorded hash is the one the upload returned and not that
  of the present file.

* `Deploy_proofs!UploadsAreAccountedFor`.  Here the invariant is `Accounts`: the
  record of the upload under way does not exist yet (`Unrecorded`: only this run
  could have written it), so that writing it adds to the records and replaces none,
  and an interruption pays for the upload that it leaves without one.  The sets
  of uploads and of records are finite at any time, by the same induction; nothing
  is assumed about the number of nodes.

* `Deploy_proofs!UnreadableAreCharged`.  The invariant is `Charged`: the file that
  is being written is among those that cannot be read, so that its content takes
  one away, and an interruption pays for the one it leaves.

### The composition

All the theorems about the two contracts together rest on one inductive invariant,
`IInv` in `MigratableSystem_inv`, which the runs `references` and `attached_coins`
check on small instances as well.  None of the properties is inductive by
itself: what a handler does next depends on the messages that are still under way,
and those on what the handlers before it have stored.  `IInv` therefore says

* between transactions (`Sound`): either nothing is deployed (`Undeployed`), or
  the two are `Linked`: the dealer's reference and *first* list entry are the
  child with the hash it runs, and the child's *only* entry is the dealer with the
  hash it runs, no slot being left for anybody else.  A token that the dealer
  minted has an id below the number of tokens (`Counted`), which is why a sale never
  takes the id of a later one.  A listener that heard of the dealer is on its list
  and knows its hash (`Listens`);
* during a transaction that has not failed (`Running`): which stage it is in.  A
  stage gives the messages under way and how the present state differs from the
  committed one.  A deployment has six (`DeploymentSubmitted`,
  `DealerInstantiated`, `ChildInstantiated`, `Replied`, `DealerRegistered`,
  `HandedOver`); a call is `CallSubmitted`, a sale that is agreed, paid or done, a
  call of the dealer or of the child that is over, or a listener's registration on
  its way; a migration is `MigrationSubmitted`, then one stage for each contract
  that migrates.  The dealer's (`DealerMigrated`) is the only one with an
  unbounded list: its messages are notifications to those on the list and calls
  back from the listener, the child's notification comes first or the child has
  been told, and a listener with an old hash has a notification coming;
* that a migration of the child, and a purchase that is rightly paid, have not
  failed (`ChildMigrationNeverRefused`, `PurchaseNeverRefused`): in their stages the
  lemmas `ChildMigrationNeverFails` and `SaleNeverFails` show that the next message
  finds a contract with the hash it names, the sender's money, and a handler whose
  conditions hold; that the next id is free when no other minter's token has it is
  `IndexIsFree`, from `Counted`.

That the invariant is kept goes by kind of step: a transaction starts
(`Submit...KeepsIInv`), a message is delivered (`DeliveryKeepsIInv`, from
`DeploymentGoesOn`, `CallGoesOn` and `MigrationGoesOn`, which have one lemma for each
stage), it ends (`CommitKeepsIInv`, from `DeploymentEnds`, `CallEnds` and
`MigrationEnds`, and `AbortKeepsIInv`).  What follows (`MigratableSystem_proofs`):

| theorem | states |
|---|---|
| `SystemInvariant` | `Spec => []IInv` |
| `SystemTypeCorrect` | `TypeOK` |
| `ReferencesStayCurrent` | `ReferencesCurrent` |
| `HandshakeIsComplete` | `HandshakeComplete` |
| `ChildCanAlwaysMigrate` | `ChildMigrationNeverRefused` |
| `BuyersAreServed` | `PurchaseNeverRefused` |
| `FollowersAreAlwaysTold` | `FollowersAreTold` |
| `MintsArePaid` | `MintIffPaid` |
| `DealerKeepsItsCoins` | `DealerKeepsCoins`, an action property |
| `PromiseIsKept` | `Spec => ImplementsPromise`, the refinement of MigratablePair |

The refinement reads the abstract state off `committed`, so only `Commit` can be a
step of it (`StepImplements`).  `LastStage` gives the stage in which a transaction
commits; `DeploymentImplements`, `CallImplements` and `MigrationImplements` name the
abstract step it is, by kind.  `IInv` is needed on both sides of the step: that
the child knows the dealer under the abstract `known` is `Linked` before and after.

Assumed are the named assumptions of the modules and nothing else: the three
contracts have different addresses and none of them is a user's; stored code,
price lists, metadata, funds and requests are of their types; `Unset` is no address,
no hash and no token id; token ids are integers; amounts are positive.  Users, accounts, hashes, denominations, price lists and token ids
may be infinitely many, and the lists of subscribers of any length.  The bounds
`MaxTokens` and `MaxSubscribers` are arbitrary numbers.

Two things that the proof attempts brought to light are in the model: price lists had
to be assumed to be lists (`PriceListsAreLists`), and the dealer's handlers return
well-typed messages only because a dealer that has a child has an admin and the
child's hash and metadata (`Ready`), since no handler checks for them.

Only model-checked: `TransactionsEnd` and `DeploymentCompletes`, which are liveness
under fairness and out of the prover's reach, and the four violated properties,
which have counterexamples.

## 5. Not modelled

* Gas: a broadcast to a long list may exceed it.  The number of subscribers of
  the dealer is unlimited in the code and bounded in the model.
* Several messages in one transaction, and queries of other contracts: the code
  uses neither.
* The content of metadata and royalties, beyond what makes the child refuse them;
  entropy, labels: stored or passed on, never looked at.
* Batch and clone mints, mints with a malformed owner, and the end of the 32-bit
  token index: minters other than the dealer can use the first two, and they mint
  tokens or fail like a single mint.
* Transfers, approvals and the queries of the reference implementation: they do
  not depend on anything the two contracts add.
* Of the deploy tool: wallet, faucet and the parsing of Cargo.toml, which leave
  nothing behind that a later run sees; two runs at the same time.
* The tests' client types, the schema examples, CI and build files: no behaviour
  of the program.

## 6. The plan

1. (done) Messages, MigratableStd, Dealer, Snip721Migratable, MigratableSystem;
   the types, `ChildIsSubscribed` and `SlotBudgetNeverGrows` proved.
2. (done) MigratablePair and its refinement by MigratableSystem; the listener's
   view, calls back from it, and the end of transactions; coins attached to other
   messages; Deploy with its crashes, its liveness and its proofs.
3. (done) Proofs about the composition: the inductive invariant and with it every
   safety property of the runs, the refinement of MigratablePair, and
   `UploadsAccountedFor`; token ids, metadata and royalties as far as they make
   the child refuse what the dealer asks for.
4. What the counterexamples leave true: that the dealer's migration is refused only
   when an entry of its list is stale, and that every price which is the first of its
   denomination buys.  (`PurchaseNeverRefused` is what `AnyoneCanBuy` leaves.)
