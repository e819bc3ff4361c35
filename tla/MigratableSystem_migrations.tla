--------------------- MODULE MigratableSystem_migrations ---------------------
(***************************************************************************)
(* Migrations, stage by stage: the contract that migrates tells those it   *)
(* has on its list, whatever they do in return.                            *)
(***************************************************************************)
EXTENDS MigratableSystem_calls

-----------------------------------------------------------------------------
(* The first step. *)

\* The request to migrate is the only message under way, and nothing has
\* changed yet.
LEMMA MigrationItem ==
  ASSUME TypeOK, MigrationSubmitted, tx.kind = "migrate"
  PROVE  /\ pending # << >> /\ Tail(pending) = << >> /\ pending = << Item1 >>
         /\ pending \in Seq(Items) /\ Item1 \in Items
         /\ Item1.from = tx.sender
         /\ Msg.type = "migrate" /\ Msg.contract = tx.contract
         /\ tx.contract \in {DEALER, SNIP, EXT} /\ Exists(tx.contract)
         /\ Msg.code_hash \in CodeFor(tx.contract) /\ Msg.code_hash \in Hash
         /\ Msg.notify \in Told
         /\ \A i \in DOMAIN Msg.notify : Exists(Msg.notify[i])
         /\ dealer = committed.dealer /\ snip = committed.snip
         /\ bank = committed.bank /\ heard = committed.heard
         /\ codeHash = committed.codeHash /\ wasmAdmin = committed.wasmAdmin
<1>1. PICK h \in CodeFor(tx.contract), notify \in Told :
        /\ \A i \in DOMAIN notify : Exists(notify[i])
        /\ pending = << Item(tx.sender, {},
                             [type |-> "migrate", contract |-> tx.contract,
                              code_hash |-> h, notify |-> notify]) >>
  BY DEF MigrationSubmitted
<1> DEFINE msg == [type |-> "migrate", contract |-> tx.contract,
                   code_hash |-> h, notify |-> notify]
<1>2. /\ msg.type = "migrate" /\ msg.contract = tx.contract /\ msg.code_hash = h
      /\ msg.notify = notify
  OBVIOUS
<1> HIDE DEF msg
<1>3. /\ Item1 = Item(tx.sender, {}, msg) /\ Msg = Item1.msg
      /\ pending # << >> /\ Tail(pending) = << >> /\ pending = << Item1 >>
  BY <1>1, NextItem DEF msg
<1>4. Item1.from = tx.sender /\ Msg = msg
  BY <1>3 DEF Item
<1>5. /\ dealer = committed.dealer /\ snip = committed.snip
      /\ bank = committed.bank /\ heard = committed.heard
      /\ codeHash = committed.codeHash /\ wasmAdmin = committed.wasmAdmin
  BY DEF MigrationSubmitted, World
<1>6. tx.contract \in {DEALER, SNIP, EXT} /\ Exists(tx.contract)
  BY StateTypes DEF Transactions, NoTx, MigrationSubmitted
<1>7. pending \in Seq(Items) /\ Item1 \in Items
  BY <1>3, PendingItems, StateTypes
<1> QED BY <1>1, <1>2, <1>3, <1>4, <1>5, <1>6, <1>7, CodeIsStored

\* Only the wasm admin gets through, and the contract has its new code.
LEMMA MigrationStarts ==
  ASSUME TypeOK, MigrationSubmitted, tx.kind = "migrate", RunMigrate, response'.ok
  PROVE  /\ Migrated(tx.contract)'
         /\ tx.sender = committed.wasmAdmin[tx.contract]
         /\ codeHash'[tx.contract] = Msg.code_hash
         /\ \A a \in Address : a # tx.contract => codeHash'[a] = codeHash[a]
         /\ tx.contract = DEALER => D!Migrate(Msg.code_hash) /\ snip' = snip
         /\ tx.contract = SNIP => S!Migrate(Msg.code_hash) /\ dealer' = dealer
         /\ tx.contract = EXT => ExtMigrates
         /\ Schedule(tx.contract, << >>)
         /\ UNCHANGED <<wasmAdmin, bank, heard, tx, committed>>
<1>1. /\ tx.sender = committed.wasmAdmin[tx.contract]
      /\ codeHash' = [codeHash EXCEPT ![tx.contract] = Msg.code_hash]
      /\ \/ tx.contract = DEALER /\ D!Migrate(Msg.code_hash) /\ UNCHANGED snip
         \/ tx.contract = SNIP /\ S!Migrate(Msg.code_hash) /\ UNCHANGED dealer
         \/ tx.contract = EXT /\ ExtMigrates
      /\ Schedule(tx.contract, << >>)
      /\ UNCHANGED <<wasmAdmin, bank, heard, tx, committed>>
  BY MigrationItem DEF RunMigrate, Refuse, Err, outside
<1>2. /\ codeHash'[tx.contract] = Msg.code_hash
      /\ \A a \in Address : a # tx.contract => codeHash'[a] = codeHash[a]
  BY <1>1, MigrationItem, StateTypes, ContractsDiffer
<1>3. Migrated(tx.contract)'
  BY <1>1, <1>2, MigrationItem, StateTypes DEF Migrated, CodeFor
<1> QED BY <1>1, <1>2, <1>3, ContractsDiffer

-----------------------------------------------------------------------------
(* The child migrates. *)

\* The child's migration leaves one notification, to the dealer under the hash
\* that it runs.
LEMMA ChildIsMigrated ==
  ASSUME TypeOK, Sound(committed), MigrationSubmitted, tx.kind = "migrate",
         tx.contract = SNIP, RunMigrate, response'.ok
  PROVE  ChildMigrated'
<1>1. Linked(committed)
  BY MigrationItem DEF Sound, Undeployed, Exists
<1>2. /\ snip' = snip
      /\ response' = Ok(Broadcast(snip.subscribers, Contract(SNIP, Msg.code_hash)))
  BY MigrationStarts, ChildMigrates
<1> DEFINE told == WasmExecute(Current(DEALER),
                               NotificationMsg(Contract(SNIP, Msg.code_hash)))
<1>3. Broadcast(snip.subscribers, Contract(SNIP, Msg.code_hash)) = << told >>
  <2>1. snip.subscribers = << Current(DEALER) >>
    BY <1>1, MigrationItem DEF Linked, KnowsDealer, Current
  <2> QED BY <2>1 DEF Broadcast
<1>4. Item(SNIP, {}, told) = Notification(SNIP, Current(DEALER))'
  BY MigrationStarts, ContractsDiffer DEF Notification, Current
<1> HIDE DEF told
<1>5. pending' = << Item(SNIP, {}, told) >>
  <2>1. TypeOK'
    BY MigrationItem, RunMigrateTypes
  <2>2. response' \in Response
    BY <2>1, StateTypes DEF TypeOK
  <2>3. Item(SNIP, {}, told) \in Items
    BY <1>2, <1>3, <2>2, ResponseItems, ContractsDiffer
  <2>4. response'.msgs = << told >>
    BY <1>2, <1>3 DEF Ok
  <2> QED BY <2>3, <2>4, MigrationItem, MigrationStarts, OneNext
<1>6. Migrated(SNIP)' /\ UNCHANGED <<dealer, heard, committed>>
  BY MigrationStarts
<1> QED BY <1>1, <1>2, <1>4, <1>5, <1>6, MigrationItem DEF ChildMigrated

\* The dealer's reference and its entry take the child's new hash.
LEMMA DealerIsTold ==
  ASSUME TypeOK, ChildMigrated, pending # << >>, ExecuteDealer
  PROVE  response'.ok /\ ChildMigrated'
<1>1. /\ Item1 = Notification(SNIP, Current(DEALER)) /\ Tail(pending) = << >>
      /\ dealer = committed.dealer /\ pending \in Seq(Items) /\ Item1 \in Items
      /\ Msg = Item1.msg /\ Linked(committed)
  BY NextItem, PendingItems, StateTypes DEF ChildMigrated, Item1
<1>2. /\ Item1.from = SNIP /\ Item1.funds = {} /\ Msg.body = NotificationMsg(Current(SNIP))
      /\ Msg.type = "execute"
  BY <1>1 DEF Notification, Item, WasmExecute
<1>3. /\ NotificationMsg(Current(SNIP)) \in Bodies
      /\ NotificationMsg(Current(SNIP)).tag = "migration_complete_notification"
      /\ NotificationMsg(Current(SNIP)).to = Current(SNIP)
  <2>1. Msg \in ChainMsg
    BY <1>1 DEF Items
  <2> QED BY <1>2, <2>1, MsgFields DEF NotificationMsg
<1>4. response' = Ok(<< >>)
      /\ dealer' = [dealer EXCEPT
                      !.child_address = Current(SNIP).address,
                      !.child_code_hash = Current(SNIP).code_hash,
                      !.subscribers = UpdateSubscriber(dealer.subscribers, SNIP,
                                                       Current(SNIP))]
  <2>1. D!Execute(SNIP, {}, NotificationMsg(Current(SNIP)))
    BY <1>2 DEF ExecuteDealer
  <2>2. dealer.child_address # Unset /\ SNIP = dealer.child_address
    BY <1>1, LinkedTypes
  <2>3. DealerUpdates(SNIP, Current(SNIP))
    BY <1>3, <2>1, <2>2, DealerExecutes, StateTypes
  <2> QED BY <2>3 DEF DealerUpdates
<1>5. Current(SNIP).address = SNIP /\ Current(SNIP).code_hash = codeHash[SNIP]
  BY DEF Current, Contract
<1>6. dealer' = [committed.dealer EXCEPT
                   !.child_code_hash = codeHash[SNIP],
                   !.subscribers = UpdateSubscriber(@, SNIP, Current(SNIP))]
  BY <1>1, <1>4, <1>5, LinkedTypes DEF DealerStorage
<1>7. pending' = << >>
  <2>1. response'.msgs = << >>
    BY <1>4 DEF Ok
  <2> QED BY <1>1, <2>1, NothingNext DEF ExecuteDealer
<1>8. bank' = bank
  <2>1. bank' = Transfer(bank, SNIP, DEALER, {})
    BY <1>2 DEF ExecuteDealer, Pay
  <2> QED BY <2>1, TransferNothing, StateTypes, ContractsDiffer
<1>9. UNCHANGED <<snip, codeHash, wasmAdmin, heard, tx, committed>>
  BY DEF ExecuteDealer, outside
<1>10. Migrated(SNIP)'
  BY <1>8, <1>9 DEF ChildMigrated, Migrated, CodeFor
<1> QED BY <1>1, <1>4, <1>6, <1>7, <1>9, <1>10 DEF ChildMigrated, Ok, Current

\* A migration of the child by its wasm admin succeeds, step by step.
LEMMA ChildMigrationNeverFails ==
  ASSUME TypeOK, ChainStep, ~AtRest, response.ok, pending # << >>,
         tx.kind = "migrate", tx.contract = SNIP,
         tx.sender = committed.wasmAdmin[SNIP],
         MigrationSubmitted \/ ChildMigrated
  PROVE  response'.ok
<1>1. CASE MigrationSubmitted
  <2>1. RunMigrate
    BY <1>1, MigrationItem, NextStep
  <2>2. S!Migrate(Msg.code_hash)
    BY <1>1, <2>1, MigrationItem, ContractsDiffer DEF RunMigrate
  <2> QED BY <2>2, ChildMigrates DEF Ok
<1>2. CASE ChildMigrated
  <2>1. Item1 = Notification(SNIP, Current(DEALER)) /\ Msg = Item1.msg
    BY <1>2, NextItem DEF ChildMigrated
  <2>2. /\ Item1.funds = {} /\ Msg.type = "execute" /\ Msg.contract = Current(DEALER)
        /\ Msg.contract.address = DEALER
    BY <2>1 DEF Notification, Item, WasmExecute, Current, Contract
  <2>3. Reaches(DEALER)
    BY <2>2, NothingIsOwned DEF Reaches
  <2>4. ExecuteDealer
    BY <2>2, <2>3, NextStep, NextContract, ContractsDiffer DEF ExecuteRefused
  <2> QED BY <1>2, <2>4, DealerIsTold
<1> QED BY <1>1, <1>2

-----------------------------------------------------------------------------
(* The dealer migrates. *)

\* After a broadcast what is under way is one notification for each subscriber,
\* in their order.
LEMMA BroadcastItems ==
  ASSUME TypeOK, pending = << Item1 >>, NEW subs \in Seq(ContractInfo),
         NEW self \in ContractInfo, NEW from \in Address,
         response' = Ok(Broadcast(subs, self)), Schedule(from, << >>)
  PROVE  /\ DOMAIN pending' = DOMAIN subs
         /\ \A i \in DOMAIN subs :
              pending'[i] = Item(from, {}, WasmExecute(subs[i], NotificationMsg(self)))
<1>1. /\ response'.msgs = Broadcast(subs, self) /\ response'.msgs \in Seq(SubMsg)
      /\ DOMAIN response'.msgs = DOMAIN subs
      /\ \A i \in DOMAIN subs :
           response'.msgs[i] = WasmExecute(subs[i], NotificationMsg(self))
  BY BroadcastType DEF Ok, Broadcast
<1>2. Len(pending) = 1 /\ pending # << >> /\ pending \in Seq(Items)
  BY StateTypes
<1> DEFINE m == Len(response'.msgs)
<1>3. /\ m \in Nat /\ pending' \in Seq(Items) /\ Len(pending') = m + 1 - 1
      /\ \A i \in 1..m : pending'[i] = Item(from, {}, response'.msgs[i])
  BY <1>1, <1>2, ScheduledNext
<1>4. DOMAIN response'.msgs = 1..m /\ DOMAIN pending' = 1..Len(pending')
  BY <1>1, <1>3, LenProperties
<1> HIDE DEF m
<1> QED BY <1>1, <1>3, <1>4

\* The dealer's migration leaves one notification for each subscriber, the
\* child's first, and the listener's if it follows.
LEMMA DealerIsMigrated ==
  ASSUME TypeOK, Sound(committed), MigrationSubmitted, tx.kind = "migrate",
         tx.contract = DEALER, RunMigrate, response'.ok
  PROVE  DealerMigrated'
<1>1. Linked(committed) /\ Listens(committed)
  BY MigrationItem DEF Sound, Undeployed, Exists
<1> DEFINE h == Msg.code_hash
           self == Contract(DEALER, h)
           subs == dealer.subscribers
<1>2. h \in Hash /\ codeHash'[DEALER] = h /\ codeHash'[SNIP] = codeHash[SNIP]
  BY MigrationItem, MigrationStarts, ContractsDiffer
<1>3. /\ dealer' = dealer /\ response' = Ok(Broadcast(subs, self)) /\ snip' = snip
      /\ heard' = heard /\ committed' = committed
  BY MigrationStarts, DealerMigrates
<1>4. subs \in Seq(ContractInfo) /\ self \in ContractInfo
  BY <1>2, StateTypes, ContractsDiffer DEF DealerStorage, Contract, ContractInfo
<1>5. self = Current(DEALER)'
  BY <1>2 DEF Current
<1> HIDE DEF h, self
<1>6. /\ DOMAIN pending' = DOMAIN subs
      /\ \A i \in DOMAIN subs :
           pending'[i] = Item(DEALER, {}, WasmExecute(subs[i], NotificationMsg(self)))
  BY <1>3, <1>4, MigrationItem, MigrationStarts, BroadcastItems, ContractsDiffer
<1>7. ASSUME NEW i \in DOMAIN subs, NEW contract, subs[i] = contract
      PROVE  pending'[i] = Notification(DEALER, contract)'
  BY <1>5, <1>6, <1>7 DEF Notification
<1>8. /\ KnowsChild(dealer', codeHash'[SNIP])
      /\ 1 \in DOMAIN subs /\ subs[1] = Contract(SNIP, codeHash[SNIP])
  <2>1. KnowsChild(dealer, codeHash[SNIP])
    BY <1>1, MigrationItem DEF Linked
  <2>2. Len(subs) \in Nat /\ Len(subs) # 0 /\ DOMAIN subs = 1..Len(subs)
    BY <1>4, <2>1, LenProperties, EmptySeq DEF KnowsChild
  <2> QED BY <1>2, <1>3, <2>1, <2>2 DEF KnowsChild
<1>9. (\A i \in DOMAIN pending : Telling(pending[i]))'
  <2> SUFFICES ASSUME NEW i \in DOMAIN subs
               PROVE  Telling(pending[i])'
    BY <1>6
  <2>1. PICK contract \in ContractInfo : contract = subs[i]
    BY <1>4, LenProperties, ElementOfSeq
  <2>2. pending'[i] = Notification(DEALER, contract)'
    BY <1>7, <2>1
  <2>3. HasEntry(dealer'.subscribers, contract.address)
    BY <1>3, <2>1 DEF HasEntry
  <2> QED BY <2>1, <2>2, <2>3 DEF Telling
<1>10. ChildToBeTold'
  <2>1. pending'[1] = Notification(DEALER, Current(SNIP))'
    BY <1>2, <1>5, <1>6, <1>8 DEF Notification, Current
  <2>2. pending' # << >>
    <3>1. DOMAIN pending' # {}
      BY <1>6, <1>8
    <3> QED BY <3>1
  <2> QED BY <1>3, <2>1, <2>2, MigrationItem DEF ChildToBeTold
<1>11. heard[DEALER] # Unset => HasEntry(dealer.subscribers, EXT)
  BY <1>1, MigrationItem DEF Listens
<1>12. heard'[DEALER] \in {Unset, codeHash'[DEALER]} \/ ListenerToBeTold'
  <2> SUFFICES ASSUME heard[DEALER] # Unset PROVE ListenerToBeTold'
    BY <1>3
  <2>1. PICK i \in DOMAIN subs : subs[i].address = EXT
    BY <1>11 DEF HasEntry
  <2>2. subs[i] \in ContractInfo
    BY <1>4, LenProperties, ElementOfSeq
  <2>3. PICK hash \in Hash : subs[i] = Contract(EXT, hash)
    BY <2>1, <2>2 DEF ContractInfo, Contract
  <2>4. pending'[i] = Notification(DEALER, Contract(EXT, hash))' /\ i \in DOMAIN pending'
    BY <1>5, <1>6, <2>3 DEF Notification
  <2> QED BY <2>4 DEF ListenerToBeTold
<1>13. heard'[SNIP] = Unset
  BY <1>1, <1>3, MigrationItem DEF Listens
<1>14. Migrated(DEALER)'
  BY MigrationStarts
<1>15. dealer' = [committed'.dealer EXCEPT !.subscribers = dealer'.subscribers]
  BY <1>1, <1>3, MigrationItem, LinkedTypes DEF DealerStorage
<1> QED BY <1>1, <1>3, <1>8, <1>9, <1>10, <1>11, <1>12, <1>13, <1>14, <1>15
       DEF DealerMigrated

\* What is still under way after one delivery of a dealer's migration: the
\* listener's registration at most, and what was.
LEMMA TellingGoesOn ==
  ASSUME TypeOK, DealerMigrated, pending # << >>, codeHash' = codeHash,
         \A a : HasEntry(dealer.subscribers, a) => HasEntry(dealer'.subscribers, a),
         NEW from \in Address, Schedule(from, << >>), response' \in Response,
         \/ response' = Ok(<< >>)
         \/ /\ from = EXT
            /\ response' = Ok(<< WasmExecute(Current(DEALER), SubscribeMsg(Current(EXT))) >>)
  PROVE  /\ (\A i \in DOMAIN pending : Telling(pending[i]))'
         /\ \A i \in DOMAIN pending :
              i # 1 => \E j \in DOMAIN pending' : pending'[j] = pending[i]
<1> DEFINE m == Len(response'.msgs)
<1>1. response'.msgs \in Seq(SubMsg) /\ pending \in Seq(Items)
  BY StateTypes DEF Response
<1>2. /\ m \in Nat /\ pending' \in Seq(Items) /\ Len(pending') = m + Len(pending) - 1
      /\ \A i \in 1..m : pending'[i] = Item(from, {}, response'.msgs[i])
      /\ \A i \in 2..Len(pending) : pending'[m + i - 1] = pending[i]
  BY <1>1, ScheduledNext
<1>3. /\ DOMAIN pending = 1..Len(pending) /\ DOMAIN pending' = 1..Len(pending')
      /\ Len(pending) \in Nat
  BY <1>1, <1>2, LenProperties
<1>4. \A i \in 1..m : pending'[i] = Callback
  <2>1. CASE response' = Ok(<< >>)
    <3>1. m = 0
      BY <2>1 DEF Ok
    <3> QED BY <3>1
  <2>2. CASE /\ from = EXT
             /\ response' = Ok(<< WasmExecute(Current(DEALER), SubscribeMsg(Current(EXT))) >>)
    <3>1. /\ m = 1
          /\ response'.msgs[1] = WasmExecute(Current(DEALER), SubscribeMsg(Current(EXT)))
      BY <2>2 DEF Ok
    <3> QED BY <1>2, <2>2, <3>1 DEF Callback
  <2> QED BY <2>1, <2>2
<1>5. ASSUME NEW item, Telling(item), NEW j, pending'[j] = item
      PROVE  Telling(pending[j])'
  BY <1>5 DEF Telling, Callback, Notification, Current
<1> HIDE DEF m
<1>6. ASSUME NEW j \in DOMAIN pending'
      PROVE  Telling(pending[j])'
  <2>1. CASE j <= m
    <3>1. pending'[j] = Callback
      BY <1>2, <1>3, <1>4, <2>1
    <3> QED BY <3>1 DEF Telling, Callback, Current
  <2>2. CASE ~(j <= m)
    <3>1. /\ (j - m) + 1 \in 2..Len(pending) /\ m + ((j - m) + 1) - 1 = j
          /\ (j - m) + 1 \in DOMAIN pending
      BY <1>2, <1>3, <2>2
    <3>2. pending'[j] = pending[(j - m) + 1]
      BY <1>2, <3>1
    <3>3. Telling(pending[(j - m) + 1])
      BY <3>1 DEF DealerMigrated
    <3>4. PICK item : item = pending[(j - m) + 1]
      OBVIOUS
    <3> QED BY <1>5, <3>2, <3>3, <3>4
  <2> QED BY <2>1, <2>2
<1>7. ASSUME NEW i \in DOMAIN pending, i # 1
      PROVE  \E j \in DOMAIN pending' : pending'[j] = pending[i]
  <2>1. i \in 2..Len(pending) /\ m + i - 1 \in DOMAIN pending'
    BY <1>2, <1>3, <1>7
  <2> QED BY <1>2, <2>1
<1> QED BY <1>6, <1>7

\* What runs after the migration changes no code and no balance.
LEMMA MigratedStays ==
  ASSUME NEW c \in {DEALER, SNIP, EXT}, Migrated(c),
         UNCHANGED <<codeHash, wasmAdmin, bank, tx, committed>>
  PROVE  Migrated(c)'
BY DEF Migrated, CodeFor

\* The dealer's storage and the next message, while it tells the others.
LEMMA DealerTelling ==
  ASSUME TypeOK, DealerMigrated, pending # << >>
  PROVE  /\ Linked(committed) /\ Ready /\ dealer.child_address = SNIP
         /\ Telling(Item1) /\ Item1 = pending[1] /\ Msg = Item1.msg
         /\ pending \in Seq(Items) /\ Item1 \in Items
         /\ 1 \in DOMAIN pending
<1>1. Linked(committed) /\ KnowsChild(dealer, codeHash[SNIP])
  BY DEF DealerMigrated
<1>2. /\ codeHash[SNIP] = committed.codeHash[SNIP] /\ dealer.admin = committed.dealer.admin
      /\ dealer.metadata = committed.dealer.metadata
  <2>1. codeHash = [committed.codeHash EXCEPT ![DEALER] = codeHash[DEALER]]
    BY DEF DealerMigrated, Migrated
  <2>2. dealer = [committed.dealer EXCEPT !.subscribers = dealer.subscribers]
    BY DEF DealerMigrated
  <2>3. /\ dealer.admin = committed.dealer.admin
        /\ dealer.metadata = committed.dealer.metadata
    BY <1>1, <2>2, LinkedTypes DEF DealerStorage
  <2>4. committed.codeHash \in [Address -> Hash \cup {Unset}]
    BY StateTypes DEF WorldType
  <2> QED BY <2>1, <2>3, <2>4, ContractsDiffer
<1>3. Ready /\ dealer.child_address = SNIP
  BY <1>1, <1>2, LinkedTypes, UnsetIsNoValue DEF Ready, KnowsChild, Linked
<1>4. /\ Item1 = pending[1] /\ Msg = Item1.msg /\ Item1 \in Items
      /\ pending \in Seq(Items) /\ 1 \in DOMAIN pending
  BY PendingItems, StateTypes, LenProperties
<1> QED BY <1>1, <1>3, <1>4 DEF DealerMigrated

\* The listener registers again with the dealer.
LEMMA ListenerCallsBack ==
  ASSUME TypeOK, DealerMigrated, pending # << >>, Item1 = Callback,
         ExecuteDealer, response'.ok
  PROVE  DealerMigrated'
<1>1. /\ Item1.from = EXT /\ Item1.funds = {} /\ Msg.type = "execute"
      /\ Msg.body = SubscribeMsg(Current(EXT))
      /\ Msg.body.tag = "subscribe_to_migration_complete_event"
      /\ Msg.body.contract = Current(EXT)
  BY DealerTelling DEF Callback, Item, WasmExecute, SubscribeMsg
<1>2. Msg.body \in Bodies
  <2>1. Msg \in ChainMsg
    BY DealerTelling DEF Items
  <2> QED BY <1>1, <2>1, MsgFields
<1>3. DealerRegisters(Current(EXT)) /\ response' \in Response
  <2>1. D!Execute(EXT, {}, Msg.body) /\ ~DealerFails
    BY <1>1 DEF ExecuteDealer, DealerFails, Err
  <2>2. DealerRegisters(Current(EXT))
    BY <1>1, <1>2, <2>1, DealerExecutes, StateTypes
  <2> QED BY <2>2, EmptyResponses DEF DealerRegisters
<1> DEFINE before == dealer.subscribers
           after == AddSubscriber(before, Current(EXT))
<1>4. Current(EXT) \in ContractInfo /\ before \in Seq(ContractInfo)
  BY <1>1, <1>2, BodyFields, StateTypes DEF DealerStorage
<1>5. dealer' = [dealer EXCEPT !.subscribers = after] /\ response' = Ok(<< >>)
  BY <1>3 DEF DealerRegisters
<1>6. after = before \/ after = Append(before, Current(EXT))
  BY DEF AddSubscriber
<1>7. /\ DOMAIN before \subseteq DOMAIN after
      /\ \A i \in DOMAIN before : after[i] = before[i]
  BY <1>4, <1>6, AppendProperties, LenProperties
<1> HIDE DEF before, after
<1>8. dealer'.subscribers = after
  BY <1>5, StateTypes DEF DealerStorage
<1>9. \A a : HasEntry(dealer.subscribers, a) => HasEntry(dealer'.subscribers, a)
  BY <1>7, <1>8 DEF HasEntry, before
<1>10. UNCHANGED <<snip, codeHash, wasmAdmin, heard, tx, committed>>
  BY DEF ExecuteDealer, outside
<1>11. bank' = bank
  <2>1. bank' = Transfer(bank, EXT, DEALER, {})
    BY <1>1 DEF ExecuteDealer, Pay
  <2> QED BY <2>1, TransferNothing, StateTypes, ContractsDiffer
<1>12. /\ (\A i \in DOMAIN pending : Telling(pending[i]))'
       /\ \A i \in DOMAIN pending :
            i # 1 => \E j \in DOMAIN pending' : pending'[j] = pending[i]
  BY <1>3, <1>5, <1>9, <1>10, TellingGoesOn, ContractsDiffer DEF ExecuteDealer
<1>13. Item1 # Notification(DEALER, Current(SNIP))
       /\ \A h \in Hash : Item1 # Notification(DEALER, Contract(EXT, h))
  BY <1>1, ContractsDiffer DEF Notification, Item
<1>14. ChildTold'
  BY <1>10, <1>13, DealerTelling DEF DealerMigrated, ChildToBeTold, ChildTold, Current
<1>15. heard'[DEALER] \in {Unset, codeHash'[DEALER]} \/ ListenerToBeTold'
  <2>1. CASE ListenerToBeTold
    <3>1. PICK i \in DOMAIN pending, h \in Hash :
            pending[i] = Notification(DEALER, Contract(EXT, h))
      BY <2>1 DEF ListenerToBeTold
    <3>2. PICK j \in DOMAIN pending' : pending'[j] = pending[i]
      BY <1>12, <1>13, <3>1, DealerTelling
    <3> QED BY <1>10, <3>1, <3>2 DEF ListenerToBeTold, Notification, Current
  <2> QED BY <1>10, <2>1 DEF DealerMigrated
<1>16. KnowsChild(dealer', codeHash'[SNIP])
  <2>1. KnowsChild(dealer, codeHash[SNIP])
    BY DEF DealerMigrated
  <2>2. before # << >> /\ before[1] = Contract(SNIP, codeHash[SNIP])
    BY <2>1 DEF KnowsChild, before
  <2>3. 1 \in DOMAIN before
    BY <1>4, <2>2, LenProperties, EmptySeq
  <2>4. 1 \in DOMAIN after /\ after[1] = before[1]
    BY <1>7, <2>3
  <2>5. after # << >>
    BY <2>4
  <2>6. /\ dealer'.child_address = dealer.child_address
        /\ dealer'.child_code_hash = dealer.child_code_hash
    BY <1>5, StateTypes DEF DealerStorage
  <2> QED BY <1>8, <1>10, <2>1, <2>2, <2>4, <2>5, <2>6 DEF KnowsChild
<1>17. dealer' = [committed'.dealer EXCEPT !.subscribers = dealer'.subscribers]
  <2>1. dealer = [committed.dealer EXCEPT !.subscribers = dealer.subscribers]
    BY DEF DealerMigrated
  <2>2. dealer' = [committed.dealer EXCEPT !.subscribers = after]
    BY <1>5, <2>1, DealerTelling, LinkedTypes DEF DealerStorage
  <2> QED BY <1>8, <1>10, <2>2
<1>18. Migrated(DEALER)'
  BY <1>10, <1>11, MigratedStays DEF DealerMigrated
<1>19. heard'[SNIP] = Unset /\ (heard'[DEALER] # Unset => HasEntry(dealer'.subscribers, EXT))
  BY <1>9, <1>10 DEF DealerMigrated
<1> QED BY <1>10, <1>12, <1>14, <1>15, <1>16, <1>17, <1>18, <1>19, DealerTelling
       DEF DealerMigrated

\* The notification that is delivered next.
LEMMA TellingItem ==
  ASSUME TypeOK, DealerMigrated, pending # << >>, Item1 # Callback
  PROVE  /\ Item1.from = DEALER /\ Item1.funds = {} /\ Msg.type = "execute"
         /\ Msg.body = NotificationMsg(Current(DEALER)) /\ Msg.body \in Bodies
         /\ Msg.body.tag = "migration_complete_notification"
         /\ Msg.body.to = Current(DEALER)
         /\ HasEntry(dealer.subscribers, Msg.contract.address)
<1>1. PICK contract \in ContractInfo :
        /\ Item1 = Notification(DEALER, contract)
        /\ HasEntry(dealer.subscribers, contract.address)
  BY DealerTelling DEF Telling
<1>2. /\ Item1.from = DEALER /\ Item1.funds = {} /\ Msg.type = "execute"
      /\ Msg.body = NotificationMsg(Current(DEALER)) /\ Msg.contract = contract
  BY <1>1, DealerTelling DEF Notification, Item, WasmExecute
<1>3. Msg.body \in Bodies
  <2>1. Msg \in ChainMsg
    BY DealerTelling DEF Items
  <2> QED BY <1>2, <2>1, MsgFields
<1> QED BY <1>1, <1>2, <1>3 DEF NotificationMsg

\* The child puts the dealer's new hash into its only entry.
LEMMA ChildIsTold ==
  ASSUME TypeOK, DealerMigrated, pending # << >>, Item1 # Callback, ExecuteSnip721,
         response'.ok
  PROVE  DealerMigrated'
<1>1. response' = Ok(<< >>) /\ ChildUpdates(DEALER, Current(DEALER))
  <2>1. S!Execute(DEALER, Msg.body)
    BY TellingItem DEF ExecuteSnip721
  <2> QED BY <2>1, TellingItem, ChildExecutes, StateTypes, ContractsDiffer
<1>2. PICK h \in Hash : snip.subscribers = << Contract(DEALER, h) >>
  <2>1. CASE snip = committed.snip
    BY <2>1, DealerTelling, LinkedTypes DEF Linked, KnowsDealer
  <2>2. CASE ChildTold
    <3>1. snip.subscribers = << Current(DEALER) >>
      BY <2>2, DealerTelling, LinkedTypes DEF ChildTold, Snip721Storage
    <3>2. codeHash[DEALER] \in Hash
      BY CodeIsStored DEF DealerMigrated, Migrated
    <3> QED BY <3>1, <3>2 DEF Current
  <2> QED BY <2>1, <2>2 DEF DealerMigrated, ChildToBeTold
<1>3. UpdateSubscriber(snip.subscribers, DEALER, Current(DEALER)) = << Current(DEALER) >>
  <2>1. Contract(DEALER, h).address = DEALER
    BY DEF Contract
  <2> QED BY <1>2, <2>1 DEF UpdateSubscriber, IsFirstEntry
<1>4. snip' = [snip EXCEPT !.subscribers = << Current(DEALER) >>]
  BY <1>1, <1>3 DEF ChildUpdates
<1>5. UNCHANGED <<dealer, codeHash, wasmAdmin, heard, tx, committed>>
  BY DEF ExecuteSnip721, outside
<1>6. ChildTold'
  <2>1. snip = committed.snip \/ ChildTold
    BY DEF DealerMigrated, ChildToBeTold
  <2>2. snip' = [committed.snip EXCEPT !.subscribers = << Current(DEALER) >>]
    BY <1>4, <2>1, DealerTelling, LinkedTypes DEF ChildTold, Snip721Storage
  <2> QED BY <1>5, <2>2 DEF ChildTold, Current
<1>7. bank' = bank
  <2>1. bank' = Transfer(bank, DEALER, SNIP, {})
    BY TellingItem DEF ExecuteSnip721, Pay
  <2> QED BY <2>1, TransferNothing, StateTypes, ContractsDiffer
<1>8. /\ (\A i \in DOMAIN pending : Telling(pending[i]))'
      /\ \A i \in DOMAIN pending :
           i # 1 => \E j \in DOMAIN pending' : pending'[j] = pending[i]
  BY <1>1, <1>5, EmptyResponses, TellingGoesOn, ContractsDiffer DEF ExecuteSnip721
<1>9. \A h2 \in Hash : Item1 # Notification(DEALER, Contract(EXT, h2))
  <2>1. Msg.contract.address = SNIP
    BY DEF ExecuteSnip721, Reaches
  <2> QED BY <2>1, DealerTelling, ContractsDiffer DEF Notification, Item, WasmExecute, Contract
<1>10. heard'[DEALER] \in {Unset, codeHash'[DEALER]} \/ ListenerToBeTold'
  <2>1. CASE ListenerToBeTold
    <3>1. PICK i \in DOMAIN pending, h2 \in Hash :
            pending[i] = Notification(DEALER, Contract(EXT, h2))
      BY <2>1 DEF ListenerToBeTold
    <3>2. PICK j \in DOMAIN pending' : pending'[j] = pending[i]
      BY <1>8, <1>9, <3>1, DealerTelling
    <3> QED BY <1>5, <3>1, <3>2 DEF ListenerToBeTold, Notification, Current
  <2> QED BY <1>5, <2>1 DEF DealerMigrated
<1>11. Migrated(DEALER)'
  BY <1>5, <1>7, MigratedStays DEF DealerMigrated
<1> QED BY <1>5, <1>6, <1>8, <1>10, <1>11, DealerTelling DEF DealerMigrated

\* The listener hears of the dealer's new hash; it has an entry.
LEMMA ListenerIsTold ==
  ASSUME TypeOK, DealerMigrated, pending # << >>, Item1 # Callback, ExecuteExt,
         response'.ok
  PROVE  DealerMigrated'
<1>1. Current(DEALER).code_hash = codeHash[DEALER] /\ Msg.contract.address = EXT
  BY DEF Current, Contract, ExecuteExt, Reaches
<1>2. /\ heard' = [heard EXCEPT ![DEALER] = codeHash[DEALER]]
      /\ \/ response' = Ok(<< >>)
         \/ response' = Ok(<< WasmExecute(Current(DEALER), SubscribeMsg(Current(EXT))) >>)
  BY <1>1, TellingItem DEF ExecuteExt
<1>3. UNCHANGED <<dealer, snip, codeHash, wasmAdmin, bank, tx, committed>>
  BY DEF ExecuteExt, chain
<1>4. response' \in Response
  <2>1. TypeOK'
    BY ExecuteExtTypes
  <2> QED BY <2>1 DEF TypeOK
<1>5. (\A i \in DOMAIN pending : Telling(pending[i]))'
  BY <1>2, <1>3, <1>4, TellingGoesOn, ContractsDiffer DEF ExecuteExt
<1>6. /\ heard'[DEALER] = codeHash'[DEALER] /\ heard'[SNIP] = Unset
  BY <1>2, <1>3, StateTypes, ContractsDiffer DEF DealerMigrated
<1>7. HasEntry(dealer'.subscribers, EXT)
  BY <1>1, <1>3, TellingItem
<1>8. ChildTold'
  <2>1. pending[1] # Notification(DEALER, Current(SNIP))
    BY <1>1, DealerTelling, ContractsDiffer
       DEF Notification, Item, WasmExecute, Current, Contract
  <2> QED BY <1>3, <2>1 DEF DealerMigrated, ChildToBeTold, ChildTold, Current
<1>9. Migrated(DEALER)'
  BY <1>3, MigratedStays DEF DealerMigrated
<1> QED BY <1>3, <1>5, <1>6, <1>7, <1>8, <1>9, DealerTelling DEF DealerMigrated

\* The dealer takes no notification from itself.
LEMMA DealerTells ==
  ASSUME TypeOK, DealerMigrated, ChainStep, ~AtRest, response.ok, pending # << >>,
         response'.ok
  PROVE  DealerMigrated' /\ TypeOK' /\ UNCHANGED <<tx, committed>>
<1>1. CASE Item1 = Callback
  <2>1. Msg.type = "execute" /\ Msg.contract.address = DEALER
    BY <1>1, DealerTelling DEF Callback, Item, WasmExecute, Current, Contract
  <2>2. ExecuteDealer
    BY <2>1, DeliveredToDealer
  <2> QED BY <1>1, <2>2, ListenerCallsBack, DealerTelling, ExecuteDealerTypes
         DEF ExecuteDealer, outside
<1>2. CASE Item1 # Callback
  <2>1. \/ ExecuteDealer \/ ExecuteSnip721 \/ ExecuteExt
    BY <1>2, TellingItem, NextStep DEF ExecuteRefused, Refuse, Err
  <2>2. ~ExecuteDealer
    <3> SUFFICES ASSUME ExecuteDealer PROVE FALSE
      OBVIOUS
    <3>1. D!Execute(DEALER, {}, Msg.body)
      BY <1>2, TellingItem DEF ExecuteDealer
    <3>2. ~DealerFails
      BY DEF DealerFails, Err
    <3>3. DealerUpdates(DEALER, Current(DEALER))
      BY <1>2, <3>1, <3>2, TellingItem, DealerExecutes, StateTypes
    <3> QED BY <3>3, DealerTelling, ContractsDiffer DEF DealerUpdates
  <2>3. CASE ExecuteSnip721
    BY <1>2, <2>3, ChildIsTold, ExecuteSnip721Types DEF ExecuteSnip721, outside
  <2>4. CASE ExecuteExt
    BY <1>2, <2>4, ListenerIsTold, ExecuteExtTypes DEF ExecuteExt
  <2> QED BY <2>1, <2>2, <2>3, <2>4
<1> QED BY <1>1, <1>2

-----------------------------------------------------------------------------
(* The listener migrates. *)

\* The listener's migration leaves notifications to those it wants to tell, and
\* they exist.
LEMMA ListenerIsMigrated ==
  ASSUME TypeOK, MigrationSubmitted, tx.kind = "migrate", tx.contract = EXT, RunMigrate,
         response'.ok
  PROVE  ListenerMigrated'
<1> DEFINE self == Contract(EXT, Msg.code_hash)
           subs == [i \in DOMAIN Msg.notify |-> Current(Msg.notify[i])]
<1>1. /\ response' = Ok(Broadcast(subs, self))
      /\ UNCHANGED <<dealer, snip, heard, tx, committed>> /\ Schedule(EXT, << >>)
  BY MigrationStarts DEF ExtMigrates
<1>2. subs \in Seq(ContractInfo) /\ DOMAIN subs = DOMAIN Msg.notify
  BY MigrationItem, ToldContracts
<1>3. self \in ContractInfo
  BY MigrationItem, ContractsDiffer DEF Contract, ContractInfo
<1>4. self = Current(EXT)'
  BY MigrationStarts DEF Current
<1>5. \A i \in DOMAIN subs : /\ Msg.notify[i] \in {DEALER, SNIP}
                             /\ Exists(Msg.notify[i])
                             /\ subs[i] = Current(Msg.notify[i])
  BY MigrationItem DEF Told
<1> HIDE DEF self, subs
<1>6. /\ DOMAIN pending' = DOMAIN subs
      /\ \A i \in DOMAIN subs :
           pending'[i] = Item(EXT, {}, WasmExecute(subs[i], NotificationMsg(self)))
  BY <1>1, <1>2, <1>3, MigrationItem, BroadcastItems, ContractsDiffer
<1>7. ASSUME NEW i \in DOMAIN pending'
      PROVE  \E c \in {DEALER, SNIP} :
               Exists(c)' /\ pending'[i] = Notification(EXT, Current(c))'
  <2>1. PICK c \in {DEALER, SNIP} : Exists(c) /\ subs[i] = Current(c)
    BY <1>5, <1>6
  <2>2. codeHash'[c] = codeHash[c]
    BY MigrationStarts, ContractsDiffer
  <2>3. Exists(c)' /\ pending'[i] = Notification(EXT, Current(c))'
    BY <1>4, <1>6, <2>1, <2>2 DEF Exists, Notification, Current
  <2> QED BY <2>3
<1>8. Migrated(EXT)'
  BY MigrationStarts
<1> QED BY <1>1, <1>7, <1>8, MigrationItem DEF ListenerMigrated

\* The dealer takes no notification from the listener, and the child has no
\* entry of it.
LEMMA ListenerTells ==
  ASSUME TypeOK, Sound(committed), ListenerMigrated, ChainStep, ~AtRest, response.ok,
         pending # << >>, response'.ok
  PROVE  ListenerMigrated' /\ TypeOK' /\ UNCHANGED <<tx, committed>>
<1>1. /\ Item1 = pending[1] /\ Msg = Item1.msg /\ Item1 \in Items
      /\ pending \in Seq(Items) /\ 1 \in DOMAIN pending
  BY PendingItems, StateTypes, LenProperties
<1>2. PICK c \in {DEALER, SNIP} : Exists(c) /\ Item1 = Notification(EXT, Current(c))
  BY <1>1 DEF ListenerMigrated
<1>3. /\ Item1.from = EXT /\ Item1.funds = {} /\ Msg.type = "execute"
      /\ Msg.body = NotificationMsg(Current(EXT)) /\ Msg.contract.address = c
      /\ Msg.body.tag = "migration_complete_notification"
      /\ Msg.body.to = Current(EXT)
  BY <1>1, <1>2 DEF Notification, Item, WasmExecute, Current, Contract, NotificationMsg
<1>4. Msg.body \in Bodies
  <2>1. Msg \in ChainMsg
    BY <1>1 DEF Items
  <2> QED BY <1>3, <2>1, MsgFields
<1>5. Linked(committed)
  <2>1. codeHash[c] # Unset
    BY <1>2 DEF Exists
  <2>2. codeHash = [committed.codeHash EXCEPT ![EXT] = codeHash[EXT]]
    BY DEF ListenerMigrated, Migrated
  <2>3. committed.codeHash \in [Address -> Hash \cup {Unset}]
    BY StateTypes DEF WorldType
  <2>4. committed.codeHash[c] # Unset
    BY <2>1, <2>2, <2>3, ContractsDiffer
  <2> QED BY <2>4 DEF Sound, Undeployed
<1>6. dealer = committed.dealer /\ snip = committed.snip
  BY DEF ListenerMigrated
<1>7. c = SNIP
  <2> SUFFICES ASSUME c = DEALER PROVE FALSE
    OBVIOUS
  <2>1. ExecuteDealer
    BY <1>3, DeliveredToDealer
  <2>2. D!Execute(EXT, {}, Msg.body) /\ ~DealerFails
    BY <1>3, <2>1 DEF ExecuteDealer, DealerFails, Err
  <2>3. DealerUpdates(EXT, Current(EXT))
    BY <1>3, <1>4, <2>2, DealerExecutes, StateTypes
  <2> QED BY <1>5, <1>6, <2>3, LinkedTypes, ContractsDiffer DEF DealerUpdates
<1>8. ExecuteSnip721
  BY <1>3, <1>7, DeliveredToChild
<1>9. response' = Ok(<< >>) /\ ChildUpdates(EXT, Current(EXT))
  <2>1. S!Execute(EXT, Msg.body)
    BY <1>3, <1>8 DEF ExecuteSnip721
  <2> QED BY <1>3, <1>4, <2>1, ChildExecutes, StateTypes, ContractsDiffer
<1>10. snip' = snip
  <2>1. snip.subscribers = << Contract(DEALER, committed.codeHash[DEALER]) >>
    BY <1>5, <1>6 DEF Linked, KnowsDealer
  <2>2. /\ Contract(DEALER, committed.codeHash[DEALER]) \in ContractInfo
        /\ Contract(DEALER, committed.codeHash[DEALER]).address = DEALER
    BY <1>5, LinkedTypes, ContractsDiffer DEF Contract, ContractInfo
  <2>3. UpdateSubscriber(snip.subscribers, EXT, Current(EXT)) = snip.subscribers
    BY <2>1, <2>2, UpdateOfOther, ContractsDiffer
  <2> QED BY <1>9, <2>3, StateTypes DEF ChildUpdates, Snip721Storage
<1>11. bank' = bank
  <2>1. bank' = Transfer(bank, EXT, SNIP, {})
    BY <1>3, <1>8 DEF ExecuteSnip721, Pay
  <2> QED BY <2>1, TransferNothing, StateTypes, ContractsDiffer
<1>12. pending' = Tail(pending)
  <2>1. response'.msgs = << >>
    BY <1>9 DEF Ok
  <2> QED BY <1>1, <1>8, <2>1, NothingNext DEF ExecuteSnip721
<1>13. UNCHANGED <<dealer, codeHash, wasmAdmin, heard, tx, committed>>
  BY <1>8 DEF ExecuteSnip721, outside
<1>14. \A i \in DOMAIN pending' : i + 1 \in DOMAIN pending /\ pending'[i] = pending[i + 1]
  BY <1>12, PendingItems, StateTypes, LenProperties
<1>15. ASSUME NEW i \in DOMAIN pending'
       PROVE  \E d \in {DEALER, SNIP} :
                Exists(d)' /\ pending'[i] = Notification(EXT, Current(d))'
  <2>1. PICK d \in {DEALER, SNIP} :
          Exists(d) /\ pending[i + 1] = Notification(EXT, Current(d))
    BY <1>14 DEF ListenerMigrated
  <2> QED BY <1>13, <1>14, <2>1 DEF Exists, Notification, Current
<1>16. Migrated(EXT)'
  BY <1>11, <1>13, MigratedStays DEF ListenerMigrated
<1> QED BY <1>6, <1>8, <1>10, <1>13, <1>15, <1>16, ExecuteSnip721Types DEF ListenerMigrated

-----------------------------------------------------------------------------
\* Between its start and its end a migration goes from stage to stage.
LEMMA MigrationGoesOn ==
  ASSUME TypeOK, Sound(committed), Migrating, tx.kind = "migrate", ChainStep, ~AtRest,
         response.ok, pending # << >>, response'.ok
  PROVE  Migrating' /\ TypeOK' /\ UNCHANGED <<tx, committed>>
<1>1. CASE MigrationSubmitted
  <2>1. RunMigrate
    BY <1>1, MigrationItem, NextStep
  <2>2. TypeOK'
    BY <1>1, <2>1, MigrationItem, RunMigrateTypes
  <2>3. tx.contract \in {DEALER, SNIP, EXT} /\ UNCHANGED <<tx, committed>>
    BY <1>1, <2>1, MigrationItem, MigrationStarts
  <2> QED BY <1>1, <2>1, <2>2, <2>3, DealerIsMigrated, ChildIsMigrated, ListenerIsMigrated
         DEF Migrating
<1>2. CASE ChildMigrated
  <2>1. /\ Item1 = Notification(SNIP, Current(DEALER)) /\ Msg = Item1.msg
        /\ dealer = committed.dealer /\ Linked(committed)
    BY <1>2, NextItem DEF ChildMigrated
  <2>2. Msg.type = "execute" /\ Msg.contract.address = DEALER
    BY <2>1 DEF Notification, Item, WasmExecute, Current, Contract
  <2>3. ExecuteDealer
    BY <2>2, DeliveredToDealer
  <2>4. ChildMigrated'
    BY <1>2, <2>3, DealerIsTold
  <2>5. TypeOK'
    BY <2>1, <2>3, LinkedTypes, ExecuteDealerTypes
  <2> QED BY <2>3, <2>4, <2>5 DEF Migrating, ExecuteDealer, outside
<1>3. CASE DealerMigrated
  BY <1>3, DealerTells DEF Migrating
<1>4. CASE ListenerMigrated
  BY <1>4, ListenerTells DEF Migrating
<1> QED BY <1>1, <1>2, <1>3, <1>4 DEF Migrating
=============================================================================
