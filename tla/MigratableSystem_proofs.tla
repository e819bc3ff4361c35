------------------------ MODULE MigratableSystem_proofs ------------------------
(***************************************************************************)
(* The composition: its inductive invariant, what follows from it, and the *)
(* refinement of MigratablePair.                                           *)
(***************************************************************************)
EXTENDS MigratableSystem_migrations

-----------------------------------------------------------------------------
(* Transactions run. *)

\* A message that fails leaves types alone.
LEMMA FailureTypes ==
  ASSUME TypeOK, ChainStep, ~AtRest, response.ok, pending # << >>, ~response'.ok
  PROVE  TypeOK' /\ UNCHANGED <<tx, committed>>
<1>1. CASE ExecuteDealer
  BY <1>1, ExecuteDealerTypes DEF ExecuteDealer, outside
<1>2. CASE ExecuteSnip721
  BY <1>2, ExecuteSnip721Types DEF ExecuteSnip721, outside
<1>3. CASE ExecuteExt
  BY <1>3, ExecuteExtTypes DEF ExecuteExt
<1>4. CASE ExecuteRefused
  BY <1>4, RefuseTypes DEF ExecuteRefused, outside
<1>5. CASE RunBankSend
  BY <1>5, RunBankSendTypes DEF RunBankSend, outside
<1>6. CASE RunInstantiateDealer
  BY <1>6, RunInstantiateDealerTypes DEF RunInstantiateDealer, outside
<1>7. CASE RunInstantiateSnip721
  BY <1>7, RunInstantiateSnip721Types DEF RunInstantiateSnip721, outside
<1>8. CASE RunReply
  BY <1>8, RunReplyTypes DEF RunReply, outside
<1>9. CASE RunMigrate
  <2>1. Refuse
    <3>1. ~(D!Migrate(Msg.code_hash) \/ S!Migrate(Msg.code_hash) \/ ExtMigrates)
      BY DealerMigrates, ChildMigrates DEF ExtMigrates, Ok
    <3> QED BY <1>9, <3>1 DEF RunMigrate
  <2> QED BY <1>9, <2>1, RefuseTypes DEF RunMigrate, outside
<1> QED BY <1>1, <1>2, <1>3, <1>4, <1>5, <1>6, <1>7, <1>8, <1>9
       DEF ChainStep, Commit, Abort

\* A message of a transaction is delivered.
LEMMA DeliveryKeepsIInv ==
  ASSUME IInv, ChainStep, ~AtRest, response.ok, pending # << >>
  PROVE  IInv'
<1>1. TypeOK /\ Sound(committed) /\ Running
  BY DEF IInv
<1>2. tx.kind \in {"instantiate", "execute", "migrate"}
  BY <1>1, StateTypes DEF AtRest, Transactions
<1>3. ASSUME response'.ok
      PROVE  TypeOK' /\ Running' /\ UNCHANGED <<tx, committed>>
  <2>0. UNCHANGED <<tx, committed>>
    BY DEF ChainStep, ExecuteDealer, ExecuteSnip721, ExecuteExt, ExecuteRefused, RunBankSend,
           RunInstantiateDealer, RunInstantiateSnip721, RunReply, RunMigrate, Commit, Abort,
           outside
  <2>1. CASE tx.kind = "instantiate"
    BY <1>1, <1>3, <2>0, <2>1, DeploymentGoesOn DEF Running
  <2>2. CASE tx.kind = "execute"
    BY <1>1, <1>3, <2>0, <2>2, CallGoesOn DEF Running
  <2>3. CASE tx.kind = "migrate"
    BY <1>1, <1>3, <2>0, <2>3, MigrationGoesOn DEF Running
  <2> QED BY <1>2, <2>1, <2>2, <2>3
<1>4. TypeOK' /\ (response'.ok => Running') /\ UNCHANGED <<tx, committed>>
  BY <1>1, <1>3, FailureTypes
<1>5. ChildMigrationNeverRefused'
  <2> SUFFICES ASSUME MigrationBy(SNIP) PROVE response'.ok
    BY <1>4 DEF ChildMigrationNeverRefused, MigrationBy
  <2>1. MigrationSubmitted \/ ChildMigrated
    BY <1>1, ContractsDiffer
       DEF Running, Migrating, MigrationBy, DealerMigrated, ListenerMigrated, Migrated
  <2> QED BY <1>1, <2>1, ChildMigrationNeverFails DEF MigrationBy
<1>6. PurchaseNeverRefused'
  <2> SUFFICES ASSUME RightlyPaid, OpenForSale, ~IndexTaken PROVE response'.ok
    BY <1>4 DEF PurchaseNeverRefused, RightlyPaid, IsPurchase, OpenForSale, IndexTaken
  <2> QED BY <1>1, SaleNeverFails DEF Running, RightlyPaid, IsPurchase
<1> QED BY <1>1, <1>4, <1>5, <1>6 DEF IInv, AtRest

-----------------------------------------------------------------------------
(* Transactions end. *)

\* Updating the first entry, and adding one, keep the others.
LEMMA UpdateKeepsEntries ==
  ASSUME NEW subs \in Seq(ContractInfo), NEW h, subs # << >>, subs[1].address = SNIP,
         HasEntry(subs, EXT)
  PROVE  HasEntry(UpdateSubscriber(subs, SNIP, Contract(SNIP, h)), EXT)
<1>1. PICK i \in DOMAIN subs : subs[i].address = EXT
  BY DEF HasEntry
<1>2. UpdateSubscriber(subs, SNIP, Contract(SNIP, h))[i] = subs[i]
  BY <1>1, ContractsDiffer DEF UpdateSubscriber, IsFirstEntry
<1> QED BY <1>1, <1>2 DEF HasEntry, UpdateSubscriber

\* A registration keeps the entries there are and their order, and adds its own.
LEMMA AddKeepsEntries ==
  ASSUME NEW subs \in Seq(ContractInfo), NEW c
  PROVE  /\ subs # << >> => /\ AddSubscriber(subs, c) # << >>
                            /\ AddSubscriber(subs, c)[1] = subs[1]
         /\ \A a : HasEntry(subs, a) => HasEntry(AddSubscriber(subs, c), a)
         /\ HasEntry(AddSubscriber(subs, c), c.address)
<1>1. DOMAIN subs = 1..Len(subs) /\ Len(subs) \in Nat
  BY LenProperties
<1>2. CASE c \in Range(subs)
  BY <1>1, <1>2 DEF AddSubscriber, HasEntry, Range
<1>3. CASE c \notin Range(subs)
  <2> DEFINE added == Append(subs, c)
  <2>1. /\ DOMAIN added = 1..(Len(subs) + 1)
        /\ \A i \in 1..Len(subs) : added[i] = subs[i]
        /\ added[Len(subs) + 1] = c
    BY <1>1
  <2>2. AddSubscriber(subs, c) = added
    BY <1>3 DEF AddSubscriber
  <2>3. subs # << >> => 1 \in 1..Len(subs)
    BY <1>1, EmptySeq
  <2> HIDE DEF added
  <2>4. subs # << >> => added # << >> /\ added[1] = subs[1]
    <3>1. added # << >>
      BY <1>1, <2>1
    <3> QED BY <2>1, <2>3, <3>1
  <2>5. \A a : HasEntry(subs, a) => HasEntry(added, a)
    BY <1>1, <2>1 DEF HasEntry
  <2>6. HasEntry(added, c.address)
    BY <1>1, <2>1 DEF HasEntry
  <2> QED BY <2>2, <2>4, <2>5, <2>6
<1> QED BY <1>2, <1>3

\* The fields of the present state.
LEMMA WorldFields ==
  /\ World.dealer = dealer /\ World.snip = snip /\ World.codeHash = codeHash
  /\ World.wasmAdmin = wasmAdmin /\ World.bank = bank /\ World.heard = heard
BY DEF World

\* A deployment that ends has linked the two.
LEMMA DeploymentEnds ==
  ASSUME TypeOK, Sound(committed), Deploying, pending = << >>
  PROVE  Sound(World)
<1>1. HandedOver /\ Undeployed(committed)
  BY DEF Deploying, DeploymentSubmitted, DealerInstantiated, ChildInstantiated, Replied,
         DealerRegistered
<1>2. /\ codeHash[DEALER] # Unset /\ codeHash[SNIP] # Unset /\ dealer.admin # Unset
      /\ dealer.metadata \in Metadata /\ heard = committed.heard
  BY <1>1, HashesAreStored, UsersAreNoContracts, MetadataIsMetadata, UnsetIsNoValue
     DEF HandedOver, HasChild, NewDealer
<1>3. KnowsChild(dealer, codeHash[SNIP]) /\ KnowsDealer(snip, codeHash[DEALER])
  BY <1>1 DEF HandedOver, HasChild, Registered, KnowsChild, Current
<1>4. heard[SNIP] = Unset /\ heard[DEALER] = Unset
  BY <1>1, <1>2 DEF Sound, Listens, Undeployed
<1>5. Counted(snip.tokens)
  BY <1>1 DEF HandedOver, Registered, NewChild, Counted
<1> QED BY <1>2, <1>3, <1>4, <1>5, WorldFields DEF Sound, Linked, Listens

\* The state after a call differs from the one before in what does not matter
\* to the link.
LEMMA LinkKept ==
  ASSUME TypeOK, Linked(committed), Listens(committed), CodeUnchanged,
         NEW subs \in Seq(ContractInfo),
         dealer = [committed.dealer EXCEPT !.subscribers = subs],
         subs # << >>, subs[1] = committed.dealer.subscribers[1],
         HasEntry(committed.dealer.subscribers, EXT) => HasEntry(subs, EXT),
         snip.slots = committed.snip.slots,
         snip.subscribers = committed.snip.subscribers, Counted(snip.tokens),
         heard[SNIP] = Unset,
         \/ heard[DEALER] = committed.heard[DEALER]
         \/ heard[DEALER] = codeHash[DEALER] /\ HasEntry(subs, EXT)
  PROVE  Sound(World)
<1>1. /\ dealer.admin = committed.dealer.admin /\ dealer.subscribers = subs
      /\ dealer.metadata = committed.dealer.metadata
      /\ dealer.child_address = committed.dealer.child_address
      /\ dealer.child_code_hash = committed.dealer.child_code_hash
  BY LinkedTypes DEF DealerStorage
<1>2. codeHash = committed.codeHash
  BY DEF CodeUnchanged
<1>3. KnowsChild(dealer, codeHash[SNIP]) /\ KnowsDealer(snip, codeHash[DEALER])
  BY <1>1, <1>2 DEF Linked, KnowsChild, KnowsDealer
<1>4. /\ codeHash[DEALER] # Unset /\ codeHash[SNIP] # Unset /\ dealer.admin # Unset
      /\ dealer.metadata \in Metadata
  BY <1>1, <1>2 DEF Linked
<1>5. /\ heard[DEALER] \in {Unset, codeHash[DEALER]}
      /\ heard[DEALER] # Unset => HasEntry(dealer.subscribers, EXT)
  BY <1>1, <1>2 DEF Listens
<1> QED BY <1>3, <1>4, <1>5, WorldFields DEF Sound, Linked, Listens

\* What a mint and an administration leave alone.
LEMMA CollectionChanges ==
  ASSUME NEW before \in Snip721Storage, NEW after, NEW sender, NEW id, NEW owner
  PROVE  /\ MintedBy(sender, id, owner, before, after) =>
              /\ after.slots = before.slots /\ after.subscribers = before.subscribers
              /\ after.admin = before.admin /\ after.minters = before.minters
              /\ after.status = before.status
              /\ after.tokens =
                   Append(before.tokens, [id |-> id, owner |-> owner, minter |-> sender])
         /\ AdministeredBy(sender, before, after) =>
              /\ after.slots = before.slots /\ after.subscribers = before.subscribers
              /\ after.tokens = before.tokens
BY DEF MintedBy, AdministeredBy, Snip721Storage

\* The dealer's tokens keep their counted ids when another token is added,
\* whose id is counted if it is the dealer's.
LEMMA CountedAppend ==
  ASSUME NEW tokens \in Seq(S!Token), Counted(tokens), NEW id, NEW owner, NEW minter,
         minter = DEALER => id = Len(tokens)
  PROVE  Counted(Append(tokens, [id |-> id, owner |-> owner, minter |-> minter]))
<1> DEFINE token == [id |-> id, owner |-> owner, minter |-> minter]
           added == Append(tokens, token)
<1>1. Len(tokens) \in Nat
  BY LenProperties
<1> HIDE DEF token
<1>2. /\ DOMAIN added = 1..(Len(tokens) + 1) /\ DOMAIN tokens = 1..Len(tokens)
      /\ \A i \in 1..Len(tokens) : added[i] = tokens[i]
      /\ added[Len(tokens) + 1] = token
  BY <1>1
<1> HIDE DEF added
<1> SUFFICES ASSUME NEW i \in DOMAIN added, added[i].minter = DEALER
             PROVE  added[i].id = i - 1
  BY DEF Counted, added, token
<1>3. CASE i \in 1..Len(tokens)
  BY <1>2, <1>3 DEF Counted
<1>4. CASE i = Len(tokens) + 1
  <2>1. added[i].id = id /\ minter = DEALER
    BY <1>2, <1>4 DEF token
  <2> QED BY <1>1, <1>4, <2>1
<1> QED BY <1>1, <1>2, <1>3, <1>4

\* A mint keeps the dealer's tokens counted, if it gives the dealer's own token
\* the counted id.
LEMMA MintKeepsCounted ==
  ASSUME NEW before \in Snip721Storage, NEW after, NEW sender, NEW id, NEW owner,
         MintedBy(sender, id, owner, before, after), Counted(before.tokens),
         sender = DEALER => id = Len(before.tokens)
  PROVE  Counted(after.tokens)
<1>1. before.tokens \in Seq(S!Token)
  BY DEF Snip721Storage
<1>2. after.tokens = Append(before.tokens, [id |-> id, owner |-> owner, minter |-> sender])
  BY CollectionChanges
<1> QED BY <1>1, <1>2, CountedAppend

\* A call that ends leaves the link as it was, and a listener that follows on
\* the list.
LEMMA CallEnds ==
  ASSUME TypeOK, Sound(committed), Calling, tx.kind = "execute", pending = << >>
  PROVE  Sound(World)
<1> DEFINE subs == committed.dealer.subscribers
<1>1. Linked(committed) /\ Listens(committed)
  BY DEF Calling, Sound
<1>2. /\ committed.dealer \in DealerStorage /\ committed.snip \in Snip721Storage
      /\ subs \in Seq(ContractInfo) /\ subs # << >>
  BY <1>1, LinkedTypes DEF DealerStorage, Linked, KnowsChild
<1>3. committed.dealer = [committed.dealer EXCEPT !.subscribers = subs]
  BY <1>2 DEF DealerStorage
<1>4. committed.heard[SNIP] = Unset /\ Counted(committed.snip.tokens)
  BY <1>1 DEF Listens, Linked
<1> HIDE DEF subs
<1>5. CASE SaleDone
  <2>1. CodeUnchanged /\ heard = committed.heard /\ dealer = committed.dealer
    BY <1>5 DEF SaleDone, Sale
  <2>2. snip.slots = committed.snip.slots /\ snip.subscribers = committed.snip.subscribers
    BY <1>2, <1>5, CollectionChanges DEF SaleDone
  <2>3. Counted(snip.tokens)
    BY <1>2, <1>4, <1>5, MintKeepsCounted DEF SaleDone
  <2> QED BY <1>1, <1>2, <1>3, <1>4, <2>1, <2>2, <2>3, LinkKept DEF subs
<1>6. CASE DealerCalled
  <2> DEFINE after == AddSubscriber(subs, tx.body.contract)
  <2>1. /\ CodeUnchanged /\ heard = committed.heard /\ snip = committed.snip
        /\ tx.body.contract \in ContractInfo
        /\ dealer = [committed.dealer EXCEPT !.subscribers = after]
    BY <1>2, <1>6 DEF DealerCalled, RegisteredWithDealer, DealerStorage, subs
  <2>2. after \in Seq(ContractInfo) /\ after # << >> /\ after[1] = subs[1]
        /\ (HasEntry(subs, EXT) => HasEntry(after, EXT))
    BY <1>2, <2>1, AddSubscriberProperties, AddKeepsEntries
  <2> HIDE DEF after
  <2> QED BY <1>1, <1>4, <2>1, <2>2, LinkKept DEF subs
<1>7. CASE ChildCalled
  <2>1. CodeUnchanged /\ heard = committed.heard /\ dealer = committed.dealer
    BY <1>7 DEF ChildCalled
  <2>2. snip.slots = committed.snip.slots /\ snip.subscribers = committed.snip.subscribers
    BY <1>2, <1>7, CollectionChanges DEF ChildCalled
  <2>3. Counted(snip.tokens)
    <3>1. CASE snip = committed.snip
      BY <1>4, <3>1
    <3>2. CASE \E id \in TokenId \cup {Len(committed.snip.tokens)}, owner \in Address :
                 MintedBy(tx.sender, id, owner, committed.snip, snip)
      <4>1. tx.sender # DEALER
        BY CallTypes
      <4> QED BY <1>2, <1>4, <3>2, <4>1, MintKeepsCounted
    <3>3. CASE AdministeredBy(tx.sender, committed.snip, snip)
      <4>1. snip.tokens = committed.snip.tokens
        BY <1>2, <3>3, CollectionChanges
      <4> QED BY <1>4, <4>1
    <3> QED BY <1>7, <3>1, <3>2, <3>3 DEF ChildCalled
  <2> QED BY <1>1, <1>2, <1>3, <1>4, <2>1, <2>2, <2>3, LinkKept DEF subs
<1>8. CASE Followed
  <2> DEFINE after == AddSubscriber(subs, Current(EXT))
  <2>1. /\ CodeUnchanged /\ snip = committed.snip /\ tx.contract = EXT
        /\ heard = [committed.heard EXCEPT ![DEALER] = codeHash[DEALER]]
        /\ dealer = [committed.dealer EXCEPT !.subscribers = after]
    BY <1>2, <1>8 DEF Followed, RegisteredWithDealer, DealerStorage, subs
  <2>2. Current(EXT) \in ContractInfo /\ Current(EXT).address = EXT
    <3>1. codeHash[EXT] \in Hash
      BY <2>1, StateTypes, ContractsDiffer DEF Calling
    <3> QED BY <3>1, ContractsDiffer DEF Current, Contract, ContractInfo
  <2>3. after \in Seq(ContractInfo) /\ after # << >> /\ after[1] = subs[1]
        /\ (HasEntry(subs, EXT) => HasEntry(after, EXT)) /\ HasEntry(after, EXT)
    BY <1>2, <2>2, AddSubscriberProperties, AddKeepsEntries
  <2>4. heard[SNIP] = Unset /\ heard[DEALER] = codeHash[DEALER]
    <3>1. committed.heard \in [{DEALER, SNIP} -> Hash \cup {Unset}]
      BY StateTypes DEF WorldType
    <3> QED BY <1>4, <2>1, <3>1, ContractsDiffer
  <2> HIDE DEF after
  <2> QED BY <1>1, <1>4, <2>1, <2>3, <2>4, LinkKept DEF subs
<1> QED BY <1>5, <1>6, <1>7, <1>8 DEF Calling, CallSubmitted, SaleAgreed, SalePaid

\* The migrated contract, and it alone, has other code.
LEMMA MigratedCode ==
  ASSUME TypeOK, NEW c \in {DEALER, SNIP, EXT}, Migrated(c)
  PROVE  /\ codeHash[c] \in Hash /\ codeHash[c] # Unset
         /\ \A a \in Address : a # c => codeHash[a] = committed.codeHash[a]
<1>1. codeHash[c] \in CodeFor(c) /\ codeHash = [committed.codeHash EXCEPT ![c] = codeHash[c]]
  BY DEF Migrated
<1>2. committed.codeHash \in [Address -> Hash \cup {Unset}]
  BY StateTypes DEF WorldType
<1> QED BY <1>1, <1>2, CodeIsStored, UnsetIsNoValue

\* A migration that ends has both know the code that the other runs.
LEMMA MigrationEnds ==
  ASSUME TypeOK, Sound(committed), Migrating, tx.kind = "migrate", pending = << >>
  PROVE  Sound(World)
<1>1. CASE ChildMigrated
  <2> DEFINE subs == committed.dealer.subscribers
             after == UpdateSubscriber(subs, SNIP, Current(SNIP))
  <2>1. /\ Migrated(SNIP) /\ Linked(committed) /\ Listens(committed)
        /\ snip = committed.snip /\ heard = committed.heard
        /\ dealer = [committed.dealer EXCEPT !.child_code_hash = codeHash[SNIP],
                                             !.subscribers = after]
    BY <1>1, LinkedTypes DEF ChildMigrated, DealerStorage, Sound
  <2>2. /\ dealer.admin = committed.dealer.admin /\ dealer.child_address = SNIP
        /\ dealer.metadata = committed.dealer.metadata
        /\ dealer.child_code_hash = codeHash[SNIP] /\ dealer.subscribers = after
    <3> HIDE DEF after
    <3> QED BY <2>1, LinkedTypes DEF DealerStorage
  <2>3. codeHash[SNIP] # Unset /\ codeHash[DEALER] = committed.codeHash[DEALER]
    BY <2>1, MigratedCode, ContractsDiffer
  <2>4. /\ subs \in Seq(ContractInfo) /\ subs # << >> /\ subs[1].address = SNIP
        /\ 1 \in DOMAIN subs
    <3>1. subs \in Seq(ContractInfo) /\ subs # << >>
      BY <2>1, LinkedTypes DEF DealerStorage, Linked, KnowsChild
    <3> QED BY <2>1, <3>1, LenProperties, EmptySeq DEF Linked, KnowsChild, Contract
  <2>5. after # << >> /\ after[1] = Current(SNIP)
    <3>1. IsFirstEntry(subs, SNIP, 1)
      BY <2>4 DEF IsFirstEntry
    <3>2. 1 \in DOMAIN after /\ after[1] = Current(SNIP)
      BY <2>4, <3>1 DEF UpdateSubscriber
    <3> HIDE DEF after
    <3> QED BY <3>2
  <2>6. HasEntry(subs, EXT) => HasEntry(after, EXT)
    BY <2>4, UpdateKeepsEntries DEF Current
  <2> HIDE DEF after
  <2>7. KnowsChild(dealer, codeHash[SNIP]) /\ KnowsDealer(snip, codeHash[DEALER])
    BY <2>1, <2>2, <2>3, <2>5 DEF KnowsChild, Linked, KnowsDealer, Current
  <2>8. Listens(World)
    BY <2>1, <2>2, <2>3, <2>6, WorldFields DEF Listens
  <2> QED BY <2>1, <2>2, <2>3, <2>7, <2>8, WorldFields DEF Sound, Linked
<1>2. CASE DealerMigrated
  <2>1. /\ Migrated(DEALER) /\ Linked(committed) /\ ChildTold
        /\ KnowsChild(dealer, codeHash[SNIP])
        /\ heard[SNIP] = Unset /\ heard[DEALER] \in {Unset, codeHash[DEALER]}
        /\ heard[DEALER] # Unset => HasEntry(dealer.subscribers, EXT)
        /\ dealer = [committed.dealer EXCEPT !.subscribers = dealer.subscribers]
    BY <1>2 DEF DealerMigrated, ChildToBeTold, ListenerToBeTold
  <2>2. codeHash[DEALER] # Unset /\ codeHash[SNIP] = committed.codeHash[SNIP]
    BY <2>1, MigratedCode, ContractsDiffer
  <2>3. /\ dealer.admin = committed.dealer.admin
        /\ dealer.metadata = committed.dealer.metadata
    BY <2>1, LinkedTypes DEF DealerStorage
  <2>4. KnowsDealer(snip, codeHash[DEALER]) /\ snip.tokens = committed.snip.tokens
    BY <2>1, LinkedTypes DEF ChildTold, KnowsDealer, Linked, Snip721Storage, Current
  <2> QED BY <2>1, <2>2, <2>3, <2>4, WorldFields DEF Sound, Linked, Listens
<1>3. CASE ListenerMigrated
  <2>1. /\ dealer = committed.dealer /\ snip = committed.snip /\ heard = committed.heard
        /\ codeHash[DEALER] = committed.codeHash[DEALER]
        /\ codeHash[SNIP] = committed.codeHash[SNIP]
    BY <1>3, MigratedCode, ContractsDiffer DEF ListenerMigrated
  <2> QED BY <2>1, WorldFields DEF Sound, Undeployed, Linked, Listens
<1> QED BY <1>1, <1>2, <1>3 DEF Migrating, MigrationSubmitted

\* A transaction that ends without failure leaves the two undeployed or linked.
LEMMA CommitKeepsIInv ==
  ASSUME IInv, Commit
  PROVE  IInv'
<1>1. /\ TypeOK /\ Sound(committed) /\ Running /\ pending = << >> /\ ~AtRest
      /\ tx' = NoTx /\ pending' = << >> /\ response' = Ok(<< >>) /\ committed' = World
      /\ UNCHANGED <<dealer, snip, codeHash, wasmAdmin, bank, heard>>
  BY DEF IInv, Commit, Rest, chain
<1>2. tx.kind \in {"instantiate", "execute", "migrate"}
  BY <1>1, StateTypes DEF AtRest, Transactions
<1>3. Sound(World)
  BY <1>1, <1>2, DeploymentEnds, CallEnds, MigrationEnds DEF Running
<1>4. World' = committed' /\ AtRest' /\ response'.ok
  BY <1>1 DEF World, AtRest, Ok
<1>5. TypeOK'
  BY <1>1, EndTypes
<1> QED BY <1>1, <1>3, <1>4, <1>5
       DEF IInv, Resting, ChildMigrationNeverRefused, PurchaseNeverRefused

\* One that fails restores the state before it, which was sound.
LEMMA AbortKeepsIInv ==
  ASSUME IInv, Abort
  PROVE  IInv'
<1>1. /\ TypeOK /\ Sound(committed)
      /\ tx' = NoTx /\ pending' = << >> /\ response' = Ok(<< >>)
      /\ dealer' = committed.dealer /\ snip' = committed.snip
      /\ codeHash' = committed.codeHash /\ wasmAdmin' = committed.wasmAdmin
      /\ bank' = committed.bank /\ heard' = committed.heard
      /\ committed' = committed
  BY DEF IInv, Abort, Rest
<1>2. AtRest' /\ response'.ok
  BY <1>1 DEF AtRest, Ok
<1>3. World' = committed'
  BY <1>1, StateTypes DEF World, WorldType
<1>4. TypeOK'
  BY <1>1, EndTypes
<1> QED BY <1>1, <1>2, <1>3, <1>4
       DEF IInv, Resting, ChildMigrationNeverRefused, PurchaseNeverRefused

-----------------------------------------------------------------------------
(* Transactions start. *)

\* A transaction that starts in a stage of its kind keeps the invariant.
LEMMA BeginKeepsIInv ==
  ASSUME IInv, NEW t \in Transactions, t # NoTx, NEW msg, Begin(t, msg),
         TypeOK', Running'
  PROVE  IInv'
<1>1. /\ Sound(committed) /\ response.ok
      /\ tx' = t /\ response' = response /\ committed' = committed
  BY DEF IInv, Begin, Resting, Ok
<1> QED BY <1>1 DEF IInv, AtRest, ChildMigrationNeverRefused, PurchaseNeverRefused

\* What a transaction starts from.
LEMMA BeginsAtRest ==
  ASSUME IInv, NEW t, NEW msg, Begin(t, msg)
  PROVE  /\ TypeOK /\ Sound(committed) /\ World = committed /\ World' = committed'
         /\ tx' = t /\ pending' = << Item(t.sender, t.funds, msg) >>
         /\ UNCHANGED <<dealer, snip, codeHash, wasmAdmin, bank, heard, committed>>
         /\ codeHash = committed.codeHash
BY DEF IInv, Begin, Resting, World, chain

\* A deployment starts with nothing deployed.
LEMMA SubmitInstantiateKeepsIInv ==
  ASSUME IInv, SubmitInstantiate
  PROVE  IInv'
<1>1. PICK u \in Deployers, wasm_admin \in Deployers, h \in DealerHash,
           admin \in Deployers \cup {Unset}, prices \in PriceLists,
           metadata \in MetadataOffers, royalty_info \in RoyaltyInfo,
           code_id \in SnipHash, code_hash \in SnipHash :
        Begin([kind |-> "instantiate", sender |-> u, funds |-> {}],
              [type |-> "instantiate_dealer", wasm_admin |-> wasm_admin, code_hash |-> h,
               msg |-> [admin |-> admin, prices |-> prices, metadata |-> metadata,
                        royalty_info |-> royalty_info,
                        snip721_code_id |-> code_id, snip721_code_hash |-> code_hash]])
  BY DEF SubmitInstantiate
<1> DEFINE t == [kind |-> "instantiate", sender |-> u, funds |-> {}]
           msg == [type |-> "instantiate_dealer", wasm_admin |-> wasm_admin,
                   code_hash |-> h,
                   msg |-> [admin |-> admin, prices |-> prices, metadata |-> metadata,
                            royalty_info |-> royalty_info,
                            snip721_code_id |-> code_id, snip721_code_hash |-> code_hash]]
<1>2. /\ t.kind = "instantiate" /\ t.sender = u /\ t.funds = {}
      /\ t \in Transactions /\ t # NoTx
  BY UsersAreNoContracts, NoFundsAreFunds DEF Transactions, NoTx
<1>3. Begin(t, msg)
  BY <1>1
<1> HIDE DEF t
<1>4. TypeOK' /\ Undeployed(committed)
  <2>1. TypeOK /\ Sound(committed) /\ codeHash = committed.codeHash
    BY <1>3, BeginsAtRest
  <2> QED BY <2>1, SubmitInstantiateTypes
          DEF SubmitInstantiate, Exists, Sound, Linked
<1>5. DeploymentSubmitted'
  <2> HIDE DEF msg
  <2>1. World' = committed' /\ tx'.sender = u /\ pending' = << Item(tx'.sender, {}, msg) >>
    BY <1>2, <1>3, BeginsAtRest
  <2> QED BY <2>1 DEF DeploymentSubmitted, msg
<1> HIDE DEF msg
<1>6. Running'
  <2>1. tx' = t /\ committed' = committed
    BY <1>3, BeginsAtRest
  <2> QED BY <1>2, <1>4, <1>5, <2>1 DEF Running, Deploying
<1> QED BY <1>2, <1>3, <1>4, <1>6, BeginKeepsIInv

\* A call of one of the two, once they are there.
LEMMA SubmitToKeepsIInv ==
  ASSUME IInv, NEW u \in Users, NEW contract \in {DEALER, SNIP, EXT}, NEW funds \in Funds,
         NEW body \in Bodies, SubmitTo(u, contract, funds, body), TypeOK',
         \E c \in {DEALER, SNIP} : Exists(c),
         \/ contract # EXT /\ funds \in FundsSent
         \/ /\ contract = EXT /\ funds = {}
            /\ \E c \in {DEALER, SNIP} : body = FollowMsg(Current(c))
  PROVE  IInv'
<1> DEFINE t == [kind |-> "execute", sender |-> u, funds |-> funds,
                 contract |-> contract, body |-> body]
           msg == WasmExecute(Current(contract), body)
<1>1. /\ t.kind = "execute" /\ t.sender = u /\ t.funds = funds
      /\ t.contract = contract /\ t.body = body
      /\ t \in Transactions /\ t # NoTx
  BY DEF Transactions, NoTx
<1>2. Begin(t, msg)
  BY DEF SubmitTo
<1> HIDE DEF t, msg
<1>3. /\ tx' = t /\ World' = committed' /\ pending' = << Item(u, funds, msg) >>
      /\ UNCHANGED <<codeHash, committed>> /\ codeHash = committed.codeHash
      /\ Sound(committed)
  BY <1>1, <1>2, BeginsAtRest
<1>4. Linked(committed)
  BY <1>3 DEF Sound, Undeployed, Exists
<1>5. CallSubmitted'
  <2>1. Current(contract)' = Current(contract)
        /\ \A c \in {DEALER, SNIP} : Current(c)' = Current(c)
    BY <1>3 DEF Current
  <2>2. pending' = << Item(u, funds, WasmExecute(Current(contract)', body)) >>
    BY <1>3, <2>1 DEF msg
  <2>3. contract = EXT =>
          funds = {} /\ \E c \in {DEALER, SNIP} : body = FollowMsg(Current(c)')
    BY <2>1
  <2>4. /\ tx'.sender = u /\ tx'.funds = funds /\ tx'.contract = contract /\ tx'.body = body
    BY <1>1, <1>3
  <2>5. pending' = << Item(tx'.sender, tx'.funds,
                           WasmExecute(Current(tx.contract)', tx'.body)) >>
    BY <2>2, <2>4 DEF Current
  <2> QED BY <1>3, <2>3, <2>4, <2>5 DEF CallSubmitted
<1>6. Running'
  <2>1. contract = EXT => codeHash[EXT] # Unset
    BY DEF SubmitTo, Exists
  <2>2. /\ tx'.contract = EXT => codeHash'[EXT] # Unset
        /\ tx'.funds \in FundsSent \/ tx'.contract = EXT
        /\ tx'.kind = "execute"
    BY <1>1, <1>3, <2>1
  <2> QED BY <1>3, <1>4, <1>5, <2>2 DEF Running, Calling
<1> QED BY <1>1, <1>2, <1>6, BeginKeepsIInv

\* A call starts with the two linked.
LEMMA SubmitExecuteKeepsIInv ==
  ASSUME IInv, SubmitExecute
  PROVE  IInv'
<1>1. PICK u \in Users, contract \in {DEALER, SNIP}, funds \in FundsSent, body \in Requests :
        SubmitTo(u, contract, funds, body)
  BY DEF SubmitExecute
<1>2. body \in Bodies /\ funds \in Funds /\ contract # EXT
  BY RequestsAreMessages, FundsAreCoins, ContractsDiffer DEF Bodies
<1>3. Exists(contract)
  BY <1>1 DEF SubmitTo
<1>4. TypeOK'
  BY SubmitExecuteTypes DEF IInv
<1> QED BY <1>1, <1>2, <1>3, <1>4, SubmitToKeepsIInv

\* So does the listener's call, which exists and names a hash that is current.
LEMMA SubmitFollowKeepsIInv ==
  ASSUME IInv, SubmitFollow
  PROVE  IInv'
<1>1. PICK u \in Users, c \in {DEALER, SNIP} :
        /\ Exists(c)
        /\ SubmitTo(u, EXT, {}, FollowMsg(Current(c)))
  BY DEF SubmitFollow
<1>2. FollowMsg(Current(c)) \in Bodies
  <2>1. codeHash[c] \in Hash
    BY <1>1, StateTypes, ContractsDiffer DEF IInv, Exists
  <2>2. Current(c) \in ContractInfo
    BY <2>1, ContractsDiffer DEF Current, Contract, ContractInfo
  <2> QED BY <2>2 DEF Bodies
<1>3. TypeOK'
  BY SubmitFollowTypes DEF IInv
<1> QED BY <1>1, <1>2, <1>3, NoFundsAreFunds, SubmitToKeepsIInv

\* A migration starts with a contract that exists.
LEMMA SubmitMigrateKeepsIInv ==
  ASSUME IInv, SubmitMigrate
  PROVE  IInv'
<1>1. PICK u \in Users, contract \in {DEALER, SNIP, EXT}, notify \in Told :
        /\ Exists(contract)
        /\ contract # EXT => notify = << >>
        /\ \A i \in DOMAIN notify : Exists(notify[i])
        /\ \E h \in CodeFor(contract) :
             Begin([kind |-> "migrate", sender |-> u, funds |-> {}, contract |-> contract],
                   [type |-> "migrate", contract |-> contract, code_hash |-> h,
                    notify |-> notify])
  BY DEF SubmitMigrate
<1>2. PICK h \in CodeFor(contract) :
        Begin([kind |-> "migrate", sender |-> u, funds |-> {}, contract |-> contract],
              [type |-> "migrate", contract |-> contract, code_hash |-> h,
               notify |-> notify])
  BY <1>1
<1> DEFINE t == [kind |-> "migrate", sender |-> u, funds |-> {}, contract |-> contract]
           msg == [type |-> "migrate", contract |-> contract, code_hash |-> h,
                   notify |-> notify]
<1>3. /\ t.kind = "migrate" /\ t.sender = u /\ t.funds = {} /\ t.contract = contract
      /\ t \in Transactions /\ t # NoTx
  BY NoFundsAreFunds DEF Transactions, NoTx
<1>4. Begin(t, msg)
  BY <1>2
<1> HIDE DEF t, msg
<1>5. /\ tx' = t /\ World' = committed' /\ pending' = << Item(u, {}, msg) >>
      /\ UNCHANGED codeHash
  BY <1>3, <1>4, BeginsAtRest
<1>6. MigrationSubmitted'
  <2>1. /\ Exists(tx.contract)' /\ h \in CodeFor(tx.contract)'
        /\ \A i \in DOMAIN notify : Exists(notify[i])'
        /\ tx'.contract # EXT => notify = << >>
    BY <1>1, <1>3, <1>5 DEF Exists, CodeFor
  <2>2. pending' = << Item(tx'.sender, {}, [type |-> "migrate", contract |-> tx'.contract,
                                            code_hash |-> h, notify |-> notify]) >>
    BY <1>3, <1>5 DEF msg
  <2> QED BY <1>5, <2>1, <2>2 DEF MigrationSubmitted
<1>7. TypeOK'
  BY SubmitMigrateTypes DEF IInv
<1>8. Running'
  BY <1>3, <1>5, <1>6 DEF Running, Migrating
<1> QED BY <1>3, <1>4, <1>7, <1>8, BeginKeepsIInv

-----------------------------------------------------------------------------
(* The invariant. *)

\* Nothing is deployed at first.
LEMMA InitIInv == Init => IInv
<1> SUFFICES ASSUME Init PROVE IInv
  OBVIOUS
<1>1. PICK h \in ExtHash \cup {Unset}, u \in Deployers :
        /\ codeHash = [a \in Address |-> IF a = EXT THEN h ELSE Unset]
        /\ wasmAdmin = [a \in Address |-> IF a = EXT THEN u ELSE Unset]
  BY DEF Init
<1>2. /\ dealer = D!Blank /\ snip = S!Blank
      /\ bank = [a \in Address |->
                   [d \in Denom |-> IF a \in Users THEN InitialBalance ELSE 0]]
      /\ heard = [c \in {DEALER, SNIP} |-> Unset]
      /\ tx = NoTx /\ pending = << >> /\ response = Ok(<< >>) /\ committed = World
  BY DEF Init
<1>3. << >> \in Seq(ContractInfo) /\ << >> \in Seq(Coin) /\ << >> \in Seq(S!Token)
      /\ << >> \in Seq(Items)
  BY EmptySeq
<1>4. dealer \in DealerStorage /\ snip \in Snip721Storage
  BY <1>2, <1>3 DEF D!Blank, S!Blank, DealerStorage, Snip721Storage, S!Status
<1>5. /\ codeHash \in [Address -> Hash \cup {Unset}]
      /\ wasmAdmin \in [Address -> Address \cup {Unset}]
  BY <1>1, HashesAreStored, UsersAreNoContracts
<1>6. bank \in Balances /\ heard \in [{DEALER, SNIP} -> Hash \cup {Unset}]
  BY <1>2, BoundsAreNat DEF Balances
<1>7. World \in WorldType
  BY <1>4, <1>5, <1>6 DEF World, WorldType
<1>8. TypeOK
  BY <1>2, <1>3, <1>7, EmptyResponses DEF TypeOK, Transactions
<1>9. Sound(World)
  <2>1. codeHash[DEALER] = Unset /\ codeHash[SNIP] = Unset
    BY <1>1, ContractsDiffer
  <2>2. heard[DEALER] = Unset /\ heard[SNIP] = Unset
    BY <1>2
  <2> QED BY <1>2, <2>1, <2>2, WorldFields DEF Sound, Undeployed, Listens
<1> QED BY <1>2, <1>8, <1>9
       DEF IInv, AtRest, Resting, ChildMigrationNeverRefused, MigrationBy,
           PurchaseNeverRefused, RightlyPaid, IsPurchase, NoTx, Ok

\* Nothing changes when nothing happens.
LEMMA StutterKeepsIInv ==
  ASSUME IInv, UNCHANGED vars
  PROVE  IInv'
<1>1. UNCHANGED <<dealer, snip, codeHash, wasmAdmin, bank, heard, tx, pending, response,
                  committed>>
  BY DEF vars
<1>2. TypeOK'
  BY <1>1, StateTypes, StepTypes DEF IInv
<1>3. (AtRest => Resting)'
  BY <1>1 DEF IInv, AtRest, Resting, World
<1>4. Deploying => Deploying'
  BY <1>1
     DEF Deploying, DeploymentSubmitted, DealerInstantiated, ChildInstantiated, Replied,
         DealerRegistered, HandedOver, NewDealer, Expecting, HasChild, NewChild,
         Unregistered, Registered, KnowsDealer, Registration, HandOver, Current, World
<1>5. Calling => Calling'
  BY <1>1
     DEF Calling, CallSubmitted, SaleAgreed, SalePaid, SaleDone, DealerCalled, ChildCalled,
         Followed, CodeUnchanged, Paid, Sale, IsPurchase, MintItem, RegisteredWithDealer,
         Current, World
<1>6. Migrating => Migrating'
  BY ZenonT(30), <1>1
     DEF Migrating, MigrationSubmitted, ChildMigrated, DealerMigrated, ListenerMigrated,
         Migrated, CodeFor, Notification, Telling, Callback, ChildToBeTold, ChildTold,
         ListenerToBeTold, KnowsChild, Exists, Current, World
<1>7. ((~AtRest /\ response.ok) => Running)'
  BY <1>1, <1>4, <1>5, <1>6 DEF IInv, Running, AtRest
<1>8. ChildMigrationNeverRefused' /\ PurchaseNeverRefused'
  BY <1>1 DEF IInv, ChildMigrationNeverRefused, MigrationBy, PurchaseNeverRefused,
              RightlyPaid, IsPurchase, OpenForSale, IndexTaken
<1> QED BY <1>1, <1>2, <1>3, <1>7, <1>8 DEF IInv

\* Every step keeps the invariant.
LEMMA NextKeepsIInv == IInv /\ [Next]_vars => IInv'
<1> SUFFICES ASSUME IInv, [Next]_vars PROVE IInv'
  OBVIOUS
<1>1. CASE SubmitInstantiate
  BY <1>1, SubmitInstantiateKeepsIInv
<1>2. CASE SubmitExecute
  BY <1>2, SubmitExecuteKeepsIInv
<1>3. CASE SubmitFollow
  BY <1>3, SubmitFollowKeepsIInv
<1>4. CASE SubmitMigrate
  BY <1>4, SubmitMigrateKeepsIInv
<1>5. CASE Commit
  BY <1>5, CommitKeepsIInv
<1>6. CASE Abort
  BY <1>6, AbortKeepsIInv
<1>7. CASE ChainStep /\ ~Commit /\ ~Abort
  <2>1. ~AtRest /\ response.ok /\ pending # << >>
    BY <1>7 DEF ChainStep, ExecuteDealer, ExecuteSnip721, ExecuteExt, ExecuteRefused,
                RunBankSend, RunInstantiateDealer, RunInstantiateSnip721, RunReply,
                RunMigrate, Runs
  <2> QED BY <1>7, <2>1, DeliveryKeepsIInv
<1>8. CASE UNCHANGED vars
  BY <1>8, StutterKeepsIInv
<1> QED BY <1>1, <1>2, <1>3, <1>4, <1>5, <1>6, <1>7, <1>8 DEF Next

\* Whatever the users send and in whatever order the chain takes it, every
\* state is between two transactions or in a stage of one.
THEOREM SystemInvariant == Spec => []IInv
<1> QED BY InitIInv, NextKeepsIInv, PTL DEF Spec

-----------------------------------------------------------------------------
(* What follows. *)

\* Type correctness.
THEOREM SystemTypeCorrect == Spec => []TypeOK
<1>1. IInv => TypeOK
  BY DEF IInv
<1> QED BY <1>1, SystemInvariant, PTL

\* Whichever of the two was migrated, aborted or registered with, between
\* transactions the references of both name the code that the other runs.
THEOREM ReferencesStayCurrent == Spec => []ReferencesCurrent
<1>1. IInv => ReferencesCurrent
  <2> SUFFICES ASSUME IInv, AtRest, Exists(DEALER)
               PROVE  /\ D!QueryChildSnip721 = Current(SNIP)
                      /\ FirstEntry(dealer.subscribers, SNIP) = {Current(SNIP)}
                      /\ FirstEntry(snip.subscribers, DEALER) = {Current(DEALER)}
    BY DEF ReferencesCurrent
  <2>1. Linked(World) /\ World = committed
    BY WorldFields DEF IInv, Resting, Sound, Undeployed, Exists
  <2>2. KnowsChild(dealer, codeHash[SNIP]) /\ KnowsDealer(snip, codeHash[DEALER])
    BY <2>1, WorldFields DEF Linked
  <2>3. D!QueryChildSnip721 = Current(SNIP)
    BY <2>2, ContractsDiffer, UnsetIsNoValue
       DEF KnowsChild, D!QueryChildSnip721, D!Child, D!Contract, Current, Contract
  <2>4. /\ dealer.subscribers # << >> /\ dealer.subscribers[1] = Current(SNIP)
        /\ dealer.subscribers \in Seq(ContractInfo)
        /\ snip.subscribers = << Current(DEALER) >>
    BY <2>2, StateTypes DEF IInv, KnowsChild, KnowsDealer, Current, DealerStorage
  <2>5. Current(SNIP).address = SNIP /\ Current(DEALER).address = DEALER
    BY DEF Current, Contract
  <2>6. ASSUME NEW subs \in Seq(ContractInfo), NEW c, NEW first,
               subs # << >>, subs[1] = first, first.address = c
        PROVE  FirstEntry(subs, c) = {first}
    <3>1. DOMAIN subs = 1..Len(subs) /\ 1 \in DOMAIN subs /\ Len(subs) \in Nat
      BY <2>6, LenProperties, EmptySeq
    <3>2. IsFirstEntry(subs, c, 1)
      BY <2>6 DEF IsFirstEntry
    <3>3. \A j \in DOMAIN subs : IsFirstEntry(subs, c, j) => j = 1
      BY <2>6, <3>1 DEF IsFirstEntry
    <3> QED BY <2>6, <3>1, <3>2, <3>3 DEF FirstEntry
  <2>7. snip.subscribers \in Seq(ContractInfo)
    BY StateTypes DEF IInv, Snip721Storage
  <2>8. snip.subscribers # << >> /\ snip.subscribers[1] = Current(DEALER)
    BY <2>4
  <2> QED BY <2>3, <2>4, <2>5, <2>6, <2>7, <2>8
<1> QED BY <1>1, SystemInvariant, PTL

\* A deployment that commits has linked the two completely.
THEOREM HandshakeIsComplete == Spec => []HandshakeComplete
<1>1. IInv => HandshakeComplete
  <2> SUFFICES ASSUME IInv, Committing, tx.kind = "instantiate"
               PROVE  HandshakeComplete
    BY DEF HandshakeComplete
  <2>1. HandedOver
    BY DEF IInv, Committing, Running, Deploying, DeploymentSubmitted, DealerInstantiated,
           ChildInstantiated, Replied, DealerRegistered
  <2> QED BY <2>1
          DEF HandedOver, HasChild, Registered, NewChild, KnowsDealer, HandshakeComplete,
              Current
<1> QED BY <1>1, SystemInvariant, PTL

\* Nothing that was registered or migrated before makes a migration of the
\* child by its wasm admin fail.
THEOREM ChildCanAlwaysMigrate == Spec => []ChildMigrationNeverRefused
<1>1. IInv => ChildMigrationNeverRefused
  BY DEF IInv
<1> QED BY <1>1, SystemInvariant, PTL

\* Nor does it, or any sale or mint before, turn away a buyer who sends a listed
\* price, unless another minter's token has taken the next id.
THEOREM BuyersAreServed == Spec => []PurchaseNeverRefused
<1>1. IInv => PurchaseNeverRefused
  BY DEF IInv
<1> QED BY <1>1, SystemInvariant, PTL

\* A listener that hears of migrations hears of each of them.
THEOREM FollowersAreAlwaysTold == Spec => []FollowersAreTold
<1>1. IInv => FollowersAreTold
  <2> SUFFICES ASSUME IInv, AtRest, NEW c \in {DEALER, SNIP}
               PROVE  heard[c] \in {Unset, codeHash[c]}
    BY DEF FollowersAreTold
  <2>1. Listens(World)
    BY DEF IInv, Resting, Sound
  <2> QED BY <2>1, WorldFields DEF Listens
<1> QED BY <1>1, SystemInvariant, PTL

\* The stage in which a transaction of each kind commits.
LEMMA LastStage ==
  ASSUME IInv, Committing
  PROVE  \/ tx.kind = "instantiate" /\ HandedOver /\ Undeployed(committed)
         \/ /\ tx.kind = "execute" /\ Linked(committed)
            /\ SaleDone \/ DealerCalled \/ ChildCalled \/ Followed
            /\ tx.contract = EXT \/ tx.funds \in FundsSent
         \/ tx.kind = "migrate" /\ (ChildMigrated \/ DealerMigrated \/ ListenerMigrated)
<1>1. tx.kind \in {"instantiate", "execute", "migrate"} /\ Running /\ pending = << >>
  BY StateTypes DEF IInv, Committing, AtRest, Transactions
<1> QED BY <1>1
        DEF Running, Deploying, DeploymentSubmitted, DealerInstantiated, ChildInstantiated,
            Replied, DealerRegistered, Calling, CallSubmitted, SaleAgreed, SalePaid,
            Migrating, MigrationSubmitted

\* The dealer mints when, and only when, the listed price went to its admin.
THEOREM MintsArePaid == Spec => []MintIffPaid
<1>1. IInv => MintIffPaid
  <2> SUFFICES ASSUME IInv, Committing PROVE MintIffPaid
    BY DEF MintIffPaid
  <2> DEFINE before == committed.snip.tokens
             after == snip.tokens
             Unminted == \A i \in (Len(before) + 1)..Len(after) : after[i].minter # DEALER
  <2>1. committed.snip \in Snip721Storage /\ before \in Seq(S!Token) /\ TypeOK
    BY StateTypes DEF IInv, WorldType, Snip721Storage
  <2>2. Len(before) \in Nat
    BY <2>1, LenProperties
  <2>3. after = before => Unminted
    BY <2>2
  <2>4. ASSUME ~IsPurchase, Unminted PROVE MintIffPaid
    BY <2>4 DEF MintIffPaid
  <2> HIDE DEF Unminted
  <2>5. CASE tx.kind = "instantiate" /\ HandedOver /\ Undeployed(committed)
    <3>1. after = << >> /\ before = << >>
      BY <2>5 DEF HandedOver, Registered, NewChild, Undeployed, S!Blank
    <3> QED BY <2>3, <2>4, <2>5, <3>1 DEF IsPurchase
  <2>6. CASE tx.kind = "execute" /\ SaleDone /\ Linked(committed)
    <3>1. after = Append(before, [id |-> Len(before), owner |-> tx.sender,
                                  minter |-> DEALER])
      BY <2>1, <2>6, CollectionChanges DEF SaleDone
    <3> QED BY <2>6, <3>1 DEF SaleDone, Sale, Paid, MintIffPaid
  <2>7. CASE tx.kind = "execute" /\ DealerCalled
    BY <2>3, <2>4, <2>7 DEF DealerCalled
  <2>8. CASE tx.kind = "execute" /\ ChildCalled
    <3>1. ~IsPurchase
      BY <2>8, ContractsDiffer DEF ChildCalled, IsPurchase
    <3>2. CASE after = before
      BY <2>3, <2>4, <3>1, <3>2
    <3>3. CASE \E id \in TokenId \cup {Len(before)}, owner \in Address :
                 MintedBy(tx.sender, id, owner, committed.snip, snip)
      <4>0. PICK id \in TokenId \cup {Len(before)}, owner \in Address :
              MintedBy(tx.sender, id, owner, committed.snip, snip)
        BY <3>3
      <4>1. after = Append(before, [id |-> id, owner |-> owner, minter |-> tx.sender])
        BY <2>1, <4>0, CollectionChanges
      <4>2. /\ Len(after) = Len(before) + 1
            /\ after[Len(before) + 1].minter = tx.sender
        BY <2>1, <2>2, <4>1
      <4>3. tx.sender # DEALER
        BY <2>1, <2>8, CallTypes
      <4>4. Unminted
        BY <2>2, <4>2, <4>3 DEF Unminted
      <4> QED BY <2>4, <3>1, <4>4
    <3> QED BY <2>1, <2>8, <3>2, <3>3, CollectionChanges DEF ChildCalled
  <2>9. CASE tx.kind = "execute" /\ Followed
    BY <2>3, <2>4, <2>9, ContractsDiffer DEF Followed, IsPurchase
  <2>10. CASE tx.kind = "migrate" /\ (ChildMigrated \/ DealerMigrated \/ ListenerMigrated)
    <3>1. after = before
      BY <2>1, <2>10
         DEF ChildMigrated, DealerMigrated, ListenerMigrated, ChildToBeTold, ChildTold,
             Snip721Storage
    <3> QED BY <2>3, <2>4, <2>10, <3>1 DEF IsPurchase
  <2> QED BY <2>5, <2>6, <2>7, <2>8, <2>9, <2>10, LastStage
<1> QED BY <1>1, SystemInvariant, PTL

\* No transaction takes coins from the dealer.
THEOREM DealerKeepsItsCoins == Spec => DealerKeepsCoins
<1> DEFINE Kept == \A d \in Denom : committed.bank[DEALER][d] <= committed'.bank[DEALER][d]
<1>1. IInv /\ [Next]_vars => [Kept]_vars
  <2> SUFFICES ASSUME IInv, Next PROVE Kept
    OBVIOUS
  <2>1. TypeOK /\ committed.bank \in Balances
    BY StateTypes DEF IInv, WorldType
  <2>2. \A d \in Denom : committed.bank[DEALER][d] \in Nat
    BY <2>1, ContractsDiffer DEF Balances
  <2>3. CASE committed' = committed
    BY <2>2, <2>3
  <2>4. CASE Commit
    <3>1. Committing /\ committed'.bank = bank
      BY <2>4, WorldFields DEF Commit, Committing
    <3>2. CASE bank = committed.bank
      BY <2>2, <3>1, <3>2
    <3>3. CASE tx.kind = "execute" /\ Linked(committed) /\ \E to \in Address : Paid(to)
      <4>1. PICK to \in Address :
              bank = Transfer(committed.bank, tx.sender, to, tx.funds)
        BY <3>3 DEF Paid
      <4>2. tx.sender \in Address /\ tx.sender # DEALER /\ tx.funds \in SUBSET Coin
        BY <2>1, <3>3, CallTypes, FundsAreSets
      <4>3. ASSUME NEW d \in Denom
            PROVE  committed.bank[DEALER][d] <= bank[DEALER][d]
        <5>1. AmountOf(tx.funds, d) \in Nat
          BY <4>2, AmountIsNat
        <5>2. bank[DEALER][d] = committed.bank[DEALER][d] - 0
                                  + (IF DEALER = to THEN AmountOf(tx.funds, d) ELSE 0)
          BY <2>1, <4>1, <4>2, TransferValue, ContractsDiffer
        <5> QED BY <2>2, <5>1, <5>2
      <4> QED BY <3>1, <4>3
    <3>4. \/ bank = committed.bank
          \/ tx.kind = "execute" /\ Linked(committed) /\ \E to \in Address : Paid(to)
      <4>1. CASE tx.kind = "instantiate" /\ HandedOver
        BY <4>1 DEF HandedOver, HasChild, NewDealer
      <4>2. CASE tx.kind = "execute" /\ Linked(committed) /\ SaleDone
        <5>1. dealer.admin \in Address /\ Paid(dealer.admin)
          BY <2>1, <4>2, LinkedTypes DEF SaleDone, Sale
        <5> QED BY <4>2, <5>1
      <4>3. CASE tx.kind = "execute" /\ Linked(committed) /\ (DealerCalled \/ ChildCalled)
        BY <4>3, ContractsDiffer DEF DealerCalled, ChildCalled
      <4>4. CASE tx.kind = "execute" /\ Followed
        BY <4>4 DEF Followed
      <4>5. CASE tx.kind = "migrate" /\ (ChildMigrated \/ DealerMigrated \/ ListenerMigrated)
        BY <4>5 DEF ChildMigrated, DealerMigrated, ListenerMigrated, Migrated
      <4> QED BY <3>1, <4>1, <4>2, <4>3, <4>4, <4>5, LastStage
    <3> QED BY <3>2, <3>3, <3>4
  <2> QED BY <2>3, <2>4
          DEF Next, SubmitInstantiate, SubmitExecute, SubmitFollow, SubmitMigrate, SubmitTo,
              Begin, ChainStep, ExecuteDealer, ExecuteSnip721, ExecuteExt, ExecuteRefused,
              RunBankSend, RunInstantiateDealer, RunInstantiateSnip721, RunReply, RunMigrate,
              Abort, outside
<1> QED BY <1>1, SystemInvariant, PTL DEF Spec, DealerKeepsCoins

-----------------------------------------------------------------------------
(* The promise. *)

\* The abstract specification has the bank of the detailed one.
LEMMA PromiseOperators ==
  /\ \A balances, account, funds :
       Promise!Affords(balances, account, funds) = Affords(balances, account, funds)
  /\ \A balances, from, to, funds :
       Promise!Transfer(balances, from, to, funds) = Transfer(balances, from, to, funds)
<1>1. \A funds, d : Promise!AmountOf(funds, d) = AmountOf(funds, d)
  BY DEF Promise!AmountOf, AmountOf
<1> QED BY <1>1 DEF Promise!Affords, Affords, Promise!Transfer, Transfer

\* A child whose only entry is the dealer knows it by that entry; one without
\* entries does not know it.
LEMMA DealerHashes ==
  /\ \A h : DealerHashIn(<< Contract(DEALER, h) >>) = h
  /\ DealerHashIn(<< >>) = Unset
<1>1. ASSUME NEW h PROVE DealerHashIn(<< Contract(DEALER, h) >>) = h
  <2> DEFINE only == << Contract(DEALER, h) >>
  <2>1. DOMAIN only = {1} /\ only[1] = Contract(DEALER, h)
    OBVIOUS
  <2>2. IsFirstEntry(only, DEALER, 1)
    BY <2>1 DEF IsFirstEntry, Contract
  <2> HIDE DEF only
  <2>3. FirstEntry(only, DEALER) = {Contract(DEALER, h)}
    BY <2>1, <2>2 DEF FirstEntry
  <2>4. (CHOOSE e \in {Contract(DEALER, h)} : TRUE) = Contract(DEALER, h)
    OBVIOUS
  <2> QED BY <2>3, <2>4 DEF DealerHashIn, Contract, only
<1>2. DealerHashIn(<< >>) = Unset
  <2>1. FirstEntry(<< >>, DEALER) = {}
    BY DEF FirstEntry
  <2> QED BY <2>1 DEF DealerHashIn
<1> QED BY <1>1, <1>2

\* What each of two that are linked knows of the other.
LEMMA LinkedKnow ==
  ASSUME NEW w, Linked(w)
  PROVE  /\ w.dealer.child_code_hash = w.codeHash[SNIP]
         /\ DealerHashIn(w.snip.subscribers) = w.codeHash[DEALER]
         /\ w.codeHash[DEALER] # Unset
BY DealerHashes DEF Linked, KnowsChild, KnowsDealer

LEMMA InitImplements == Init => Promise!Init
<1> SUFFICES ASSUME Init PROVE Promise!Init
  OBVIOUS
<1>1. /\ committed.codeHash[DEALER] = Unset /\ committed.codeHash[SNIP] = Unset
      /\ committed.dealer = D!Blank /\ committed.snip = S!Blank
      /\ committed.bank =
           [a \in Address |-> [d \in Denom |-> IF a \in Users THEN InitialBalance ELSE 0]]
  BY WorldFields, ContractsDiffer DEF Init
<1>2. DealerHashIn(committed.snip.subscribers) = Unset
  BY <1>1, DealerHashes DEF S!Blank
<1> QED BY <1>1, <1>2 DEF Promise!Init, Promise!Pair, D!Blank, S!Blank

\* What the end of a transaction that fails nowhere makes visible.
LEMMA CommitEnds ==
  ASSUME IInv, Commit
  PROVE  /\ TypeOK /\ Committing /\ (Undeployed(World) \/ Linked(World))
         /\ committed'.dealer = dealer /\ committed'.snip = snip
         /\ committed'.codeHash = codeHash /\ committed'.bank = bank
<1>1. /\ TypeOK /\ Committing /\ committed' = World
      /\ Sound(committed') /\ World = committed'
  <2>1. IInv'
    BY CommitKeepsIInv
  <2> QED BY <2>1 DEF IInv, Commit, Committing
<1> QED BY <1>1, WorldFields DEF Sound

\* A deployment that commits is one step, in which the two appear together.
LEMMA DeploymentImplements ==
  ASSUME IInv, Commit, HandedOver, Undeployed(committed)
  PROVE  Promise!Next
<1>1. /\ committed'.dealer = dealer /\ committed'.snip = snip
      /\ committed'.codeHash = codeHash /\ committed'.bank = bank
  BY CommitEnds
<1>2. PICK d \in DealerHash, s \in SnipHash, admin \in Deployers, prices \in PriceLists,
           metadata \in MetadataOffers :
        /\ d = codeHash[DEALER] /\ s = codeHash[SNIP] /\ s = dealer.child_code_hash
        /\ admin = dealer.admin /\ prices = dealer.prices /\ prices # << >>
        /\ metadata = dealer.metadata
        /\ bank = committed.bank
  BY DEF HandedOver, HasChild, NewDealer
<1>3. /\ snip.admin = admin /\ snip.minters = {DEALER} /\ snip.status = "normal"
      /\ snip.tokens = << >> /\ DealerHashIn(snip.subscribers) = d
  BY <1>2, DealerHashes DEF HandedOver, Registered, NewChild, KnowsDealer
<1>4. committed.codeHash[DEALER] = Unset
  BY DEF Undeployed
<1>5. Promise!Deploy(d, s, admin, prices, metadata)
  BY <1>1, <1>2, <1>3, <1>4, ContractsDiffer
     DEF Promise!Deploy, Promise!Deployed, Promise!Pair, Promise!Partner
<1> QED BY <1>5 DEF Promise!Next

\* A migration that commits is one step in which the partner learns the new
\* hash, whatever else the listener was told or registered meanwhile; the
\* listener's own is none.
LEMMA MigrationImplements ==
  ASSUME IInv, Commit, ChildMigrated \/ DealerMigrated \/ ListenerMigrated
  PROVE  [Promise!Next]_Promise!vars
<1>1. /\ TypeOK /\ committed'.dealer = dealer /\ committed'.snip = snip
      /\ committed'.codeHash = codeHash /\ committed'.bank = bank
      /\ Undeployed(World) \/ Linked(World)
      /\ pending = << >>
  BY CommitEnds DEF Committing
<1>2. /\ committed.dealer \in DealerStorage /\ committed.snip \in Snip721Storage
  BY <1>1, StateTypes DEF WorldType
<1>3. CASE ChildMigrated
  <2>1. /\ Migrated(SNIP) /\ Linked(committed) /\ snip = committed.snip
        /\ dealer = [committed.dealer EXCEPT
                       !.child_code_hash = codeHash[SNIP],
                       !.subscribers = UpdateSubscriber(@, SNIP, Current(SNIP))]
    BY <1>1, <1>3 DEF ChildMigrated
  <2>2. PICK h \in SnipHash :
          /\ h = codeHash[SNIP] /\ codeHash[DEALER] = committed.codeHash[DEALER]
          /\ bank = committed.bank
    BY <1>1, <2>1, MigratedCode, ContractsDiffer DEF Migrated, CodeFor
  <2>3. /\ dealer.admin = committed.dealer.admin /\ dealer.prices = committed.dealer.prices
        /\ dealer.child_code_hash = codeHash[SNIP]
        /\ dealer.metadata = committed.dealer.metadata
    BY <1>2, <2>1 DEF DealerStorage
  <2>4. Promise!Migrate(SNIP, h)
    BY <1>1, <2>1, <2>2, <2>3, LinkedKnow, ContractsDiffer
       DEF Promise!Migrate, Promise!Deployed, Promise!Partner
  <2> QED BY <2>4 DEF Promise!Next
<1>4. CASE DealerMigrated
  <2>1. /\ Migrated(DEALER) /\ Linked(committed) /\ ChildTold
        /\ dealer = [committed.dealer EXCEPT !.subscribers = dealer.subscribers]
    BY <1>1, <1>4 DEF DealerMigrated, ChildToBeTold
  <2>2. PICK h \in DealerHash :
          /\ h = codeHash[DEALER] /\ codeHash[SNIP] = committed.codeHash[SNIP]
          /\ bank = committed.bank
    BY <1>1, <2>1, MigratedCode, ContractsDiffer DEF Migrated, CodeFor
  <2>3. /\ dealer.admin = committed.dealer.admin /\ dealer.prices = committed.dealer.prices
        /\ dealer.child_code_hash = committed.dealer.child_code_hash
        /\ dealer.metadata = committed.dealer.metadata
    BY <1>2, <2>1 DEF DealerStorage
  <2>4. /\ snip.admin = committed.snip.admin /\ snip.minters = committed.snip.minters
        /\ snip.status = committed.snip.status /\ snip.tokens = committed.snip.tokens
        /\ DealerHashIn(snip.subscribers) = codeHash[DEALER]
    BY <1>2, <2>1, DealerHashes DEF ChildTold, Snip721Storage, Current
  <2>5. Promise!Migrate(DEALER, h)
    BY <1>1, <2>1, <2>2, <2>3, <2>4, LinkedKnow, ContractsDiffer
       DEF Promise!Migrate, Promise!Deployed, Promise!Partner
  <2> QED BY <2>5 DEF Promise!Next
<1>5. CASE ListenerMigrated
  <2>1. /\ codeHash[DEALER] = committed.codeHash[DEALER]
        /\ codeHash[SNIP] = committed.codeHash[SNIP]
        /\ dealer = committed.dealer /\ snip = committed.snip /\ bank = committed.bank
    BY <1>1, <1>5, MigratedCode, ContractsDiffer DEF ListenerMigrated, Migrated
  <2> QED BY <1>1, <2>1 DEF Promise!vars
<1> QED BY <1>3, <1>4, <1>5

\* A mint adds a token to a collection.
LEMMA MintedCollection ==
  ASSUME NEW minter, NEW id, NEW owner
  PROVE  Promise!Minted(minter, id, owner) =
           [admin |-> committed.snip.admin, minters |-> committed.snip.minters,
            status |-> committed.snip.status,
            tokens |-> Append(committed.snip.tokens,
                              [id |-> id, owner |-> owner, minter |-> minter])]
<1> DEFINE before == [admin |-> committed.snip.admin, minters |-> committed.snip.minters,
                      status |-> committed.snip.status, tokens |-> committed.snip.tokens]
           token == [id |-> id, owner |-> owner, minter |-> minter]
           tokens == Append(before.tokens, token)
<1>1. Promise!Minted(minter, id, owner) = [before EXCEPT !.tokens = tokens]
  BY DEF Promise!Minted
<1>2. before.tokens = committed.snip.tokens
  OBVIOUS
<1>3. tokens = Append(committed.snip.tokens, token)
  BY <1>2
<1> HIDE DEF tokens, token
<1>4. [before EXCEPT !.tokens = tokens] =
        [admin |-> committed.snip.admin, minters |-> committed.snip.minters,
         status |-> committed.snip.status, tokens |-> tokens]
  OBVIOUS
<1> QED BY <1>1, <1>3, <1>4 DEF token

\* A call that commits is a sale, a mint, a change of administration or a
\* notice, and in each the coins go where the code sends them.
LEMMA CallImplements ==
  ASSUME IInv, Commit, tx.kind = "execute", Linked(committed),
         SaleDone \/ DealerCalled \/ ChildCalled \/ Followed,
         tx.contract = EXT \/ tx.funds \in FundsSent
  PROVE  [Promise!Next]_Promise!vars
<1>1. /\ TypeOK /\ committed'.dealer = dealer /\ committed'.snip = snip
      /\ committed'.codeHash = codeHash /\ committed'.bank = bank
  BY CommitEnds
<1>2. /\ committed.dealer \in DealerStorage /\ committed.snip \in Snip721Storage
      /\ committed.codeHash[DEALER] # Unset
  BY <1>1, LinkedTypes, LinkedKnow
<1>3. PICK sender, funds :
        sender \in Users /\ sender = tx.sender /\ funds = tx.funds
  BY <1>1, CallTypes
<1>4. /\ tx.contract # EXT => funds \in FundsSent
      /\ codeHash = committed.codeHash
  BY <1>3 DEF SaleDone, Sale, DealerCalled, ChildCalled, Followed, CodeUnchanged
<1>5. ASSUME NEW contract, Paid(contract)
      PROVE  Promise!Attach(sender, contract, funds)
  BY <1>1, <1>3, <1>5, PromiseOperators DEF Paid, Promise!Attach
<1>6. CASE SaleDone
  <2> DEFINE index == Len(committed.snip.tokens)
  <2>1. PICK i \in DOMAIN committed.dealer.prices :
          /\ funds = {committed.dealer.prices[i]}
          /\ \A j \in 1..(i - 1) :
               committed.dealer.prices[j].denom # committed.dealer.prices[i].denom
    BY <1>3, <1>6 DEF SaleDone, Sale, D!Pays
  <2>2. /\ dealer = committed.dealer /\ Paid(dealer.admin)
        /\ MintedBy(DEALER, index, sender, committed.snip, snip)
        /\ dealer.metadata # "both_forms"
    BY <1>3, <1>6 DEF SaleDone, Sale
  <2>3. /\ snip.subscribers = committed.snip.subscribers
        /\ snip.admin = committed.snip.admin /\ snip.minters = committed.snip.minters
        /\ snip.status = committed.snip.status
        /\ snip.tokens = Append(committed.snip.tokens,
                                [id |-> index, owner |-> sender, minter |-> DEALER])
        /\ committed.snip.status = "normal" /\ DEALER \in committed.snip.minters
        /\ \A k \in DOMAIN committed.snip.tokens : committed.snip.tokens[k].id # index
    BY <1>2, <2>2, CollectionChanges DEF MintedBy
  <2>4. Promise!Attach(sender, dealer.admin, funds)
    BY <1>5, <2>2
  <2>5. Promise!Purchase(sender, i)
    <3>1. Promise!Minted(DEALER, index, sender) =
            [admin |-> snip.admin, minters |-> snip.minters, status |-> snip.status,
             tokens |-> snip.tokens]
      BY <2>3, MintedCollection
    <3> QED BY <1>1, <1>4, <2>1, <2>2, <2>3, <2>4, <3>1
            DEF Promise!Purchase, Promise!Attach, Promise!MayMint, Promise!Index
  <2> QED BY <1>3, <2>5 DEF Promise!Next
<1>7. CASE DealerCalled
  <2>1. /\ tx.contract = DEALER /\ snip = committed.snip /\ Paid(DEALER)
        /\ dealer = [committed.dealer EXCEPT
                       !.subscribers = AddSubscriber(@, tx.body.contract)]
    BY <1>7 DEF DealerCalled, RegisteredWithDealer
  <2>2. /\ dealer.admin = committed.dealer.admin /\ dealer.prices = committed.dealer.prices
        /\ dealer.child_code_hash = committed.dealer.child_code_hash
        /\ dealer.metadata = committed.dealer.metadata
    BY <1>2, <2>1 DEF DealerStorage
  <2>3. Promise!Attach(sender, DEALER, funds)
    BY <1>5, <2>1
  <2>4. Promise!Notice(sender, DEALER, funds)
    BY <1>1, <1>2, <1>4, <2>1, <2>2, <2>3 DEF Promise!Notice, Promise!Deployed
  <2>5. funds \in FundsSent /\ DEALER \in Promise!Pair
    BY <1>4, <2>1, ContractsDiffer DEF Promise!Pair
  <2> QED BY <1>3, <2>4, <2>5 DEF Promise!Next
<1>8. CASE ChildCalled
  <2>1. /\ dealer = committed.dealer /\ Promise!Attach(sender, SNIP, funds)
        /\ funds \in FundsSent /\ SNIP \in Promise!Pair
    BY <1>4, <1>5, <1>8, ContractsDiffer DEF ChildCalled, Promise!Pair
  <2>2. CASE snip = committed.snip
    <3>1. Promise!Notice(sender, SNIP, funds)
      BY <1>1, <1>2, <1>4, <2>1, <2>2 DEF Promise!Notice, Promise!Deployed
    <3> QED BY <1>3, <2>1, <3>1 DEF Promise!Next
  <2>3. CASE \E id \in TokenId \cup {Len(committed.snip.tokens)}, owner \in Address :
               MintedBy(tx.sender, id, owner, committed.snip, snip)
    <3>1. PICK id \in TokenId \cup {Promise!Index}, owner \in Address :
            MintedBy(sender, id, owner, committed.snip, snip)
      BY <1>3, <2>3 DEF Promise!Index
    <3>2. /\ snip.subscribers = committed.snip.subscribers
          /\ snip.admin = committed.snip.admin /\ snip.minters = committed.snip.minters
          /\ snip.status = committed.snip.status
          /\ snip.tokens = Append(committed.snip.tokens,
                                  [id |-> id, owner |-> owner, minter |-> sender])
          /\ committed.snip.status = "normal" /\ sender \in committed.snip.minters
          /\ \A k \in DOMAIN committed.snip.tokens : committed.snip.tokens[k].id # id
      BY <1>2, <3>1, CollectionChanges DEF MintedBy
    <3>3. Promise!Mint(sender, id, owner, funds)
      <4>1. Promise!Minted(sender, id, owner) =
              [admin |-> snip.admin, minters |-> snip.minters, status |-> snip.status,
               tokens |-> snip.tokens]
        BY <3>2, MintedCollection
      <4> QED BY <1>1, <1>4, <2>1, <3>2, <4>1 DEF Promise!Mint, Promise!MayMint
    <3> QED BY <1>3, <2>1, <3>3 DEF Promise!Next
  <2>4. CASE AdministeredBy(tx.sender, committed.snip, snip)
    <3>1. PICK admin \in Address, minters \in SUBSET Address, status \in S!Status :
            /\ snip = [committed.snip EXCEPT !.admin = admin, !.minters = minters,
                                             !.status = status]
            /\ committed.snip.status = "stop_all" =>
                 admin = committed.snip.admin /\ minters = committed.snip.minters
      BY <2>4 DEF AdministeredBy
    <3>2. /\ snip.subscribers = committed.snip.subscribers
          /\ snip.admin = admin /\ snip.minters = minters /\ snip.status = status
          /\ snip.tokens = committed.snip.tokens
          /\ sender = committed.snip.admin
      BY <1>2, <1>3, <2>4, <3>1 DEF AdministeredBy, Snip721Storage
    <3>3. status \in Promise!Status
      BY DEF S!Status, Promise!Status
    <3>4. Promise!Administer(funds)
      BY <1>1, <1>2, <1>4, <2>1, <3>1, <3>2, <3>3
         DEF Promise!Administer, Promise!Deployed
    <3> QED BY <2>1, <3>4 DEF Promise!Next
  <2> QED BY <1>8, <2>2, <2>3, <2>4 DEF ChildCalled
<1>9. CASE Followed
  <2>1. /\ snip = committed.snip /\ bank = committed.bank
        /\ \/ dealer = committed.dealer
           \/ dealer = [committed.dealer EXCEPT
                          !.subscribers = AddSubscriber(@, Current(EXT))]
    BY <1>9 DEF Followed, RegisteredWithDealer
  <2>2. /\ dealer.admin = committed.dealer.admin /\ dealer.prices = committed.dealer.prices
        /\ dealer.child_code_hash = committed.dealer.child_code_hash
        /\ dealer.metadata = committed.dealer.metadata
    BY <1>2, <2>1 DEF DealerStorage
  <2> QED BY <1>1, <1>4, <2>1, <2>2 DEF Promise!vars
<1> QED BY <1>6, <1>7, <1>8, <1>9

\* Only the end of a transaction in which nothing failed is a step of the
\* promise.
LEMMA StepImplements == IInv /\ [Next]_vars => [Promise!Next]_Promise!vars
<1> SUFFICES ASSUME IInv, [Next]_vars PROVE [Promise!Next]_Promise!vars
  OBVIOUS
<1>1. CASE Commit
  <2>1. Committing
    BY <1>1, CommitEnds
  <2> QED BY <1>1, <2>1, LastStage, DeploymentImplements, CallImplements,
             MigrationImplements
<1>2. CASE committed' = committed
  BY <1>2 DEF Promise!vars
<1> QED BY <1>1, <1>2
        DEF Next, SubmitInstantiate, SubmitExecute, SubmitFollow, SubmitMigrate, SubmitTo,
            Begin, ChainStep, ExecuteDealer, ExecuteSnip721, ExecuteExt, ExecuteRefused,
            RunBankSend, RunInstantiateDealer, RunInstantiateSnip721, RunReply, RunMigrate,
            Abort, outside, vars

\* Seen between transactions, the messages, replies, notifications and
\* failures of the two contracts are the atomic steps of the promise.
THEOREM PromiseIsKept == Spec => ImplementsPromise
<1> QED BY InitImplements, StepImplements, SystemInvariant, PTL
        DEF Spec, ImplementsPromise, Promise!Spec
=============================================================================
