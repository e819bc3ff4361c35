------------------------ MODULE MigratableSystem_calls ------------------------
(***************************************************************************)
(* Deployments and calls, stage by stage: each message that is delivered   *)
(* takes the transaction to its next stage, or fails.                      *)
(***************************************************************************)
EXTENDS MigratableSystem_types

-----------------------------------------------------------------------------
(* Which step comes next. *)

\* The type of the next message determines what the chain does with it.
LEMMA NextStep ==
  ASSUME ChainStep, ~AtRest, response.ok, pending # << >>
  PROVE  /\ Msg.type = "execute" =>
              ExecuteDealer \/ ExecuteSnip721 \/ ExecuteExt \/ ExecuteRefused
         /\ Msg.type = "bank_send" => RunBankSend
         /\ Msg.type = "instantiate_dealer" => RunInstantiateDealer
         /\ Msg.type = "instantiate" => RunInstantiateSnip721
         /\ Msg.type = "reply" => RunReply
         /\ Msg.type = "migrate" => RunMigrate
BY DEF ChainStep, ExecuteDealer, ExecuteSnip721, ExecuteExt, ExecuteRefused, RunBankSend,
       RunInstantiateDealer, RunInstantiateSnip721, RunReply, RunMigrate, Commit, Abort,
       Runs

\* The address of an execute message determines who gets it.
LEMMA NextContract ==
  ASSUME NEW c \in {DEALER, SNIP, EXT}, Msg.contract.address = c
  PROVE  /\ ExecuteDealer => c = DEALER
         /\ ExecuteSnip721 => c = SNIP
         /\ ExecuteExt => c = EXT
BY DEF ExecuteDealer, ExecuteSnip721, ExecuteExt, Reaches

\* The only message under way is the next, and nothing comes after it.
LEMMA NextItem ==
  ASSUME NEW item, pending = << item >>
  PROVE  /\ Item1 = item /\ Msg = item.msg
         /\ pending # << >> /\ Tail(pending) = << >>
BY DEF Item1, Msg

\* The first of two messages is the next, and the second comes after it.
LEMMA NextOfTwo ==
  ASSUME NEW item, NEW next, pending = << item, next >>
  PROVE  /\ Item1 = item /\ Msg = item.msg
         /\ pending # << >> /\ Tail(pending) = << next >>
BY DEF Item1, Msg

\* A transfer of nothing.
LEMMA TransferNothing ==
  ASSUME NEW balances \in Balances, NEW from \in Address, NEW to \in Address
  PROVE  Transfer(balances, from, to, {}) = balances
<1>1. \A d : AmountOf({}, d) = 0
  BY DEF AmountOf
<1>2. ASSUME NEW b \in Balances, NEW a \in Address
      PROVE  /\ [d \in Denom |-> b[a][d] - AmountOf({}, d)] = b[a]
             /\ [d \in Denom |-> b[a][d] + AmountOf({}, d)] = b[a]
  <2>1. b[a] \in [Denom -> Nat]
    BY DEF Balances
  <2>2. \A d \in Denom : b[a][d] \in Nat
    BY <2>1
  <2>3. \A d \in Denom : /\ b[a][d] - AmountOf({}, d) = b[a][d]
                         /\ b[a][d] + AmountOf({}, d) = b[a][d]
    BY <1>1, <2>2
  <2>4. b[a] = [d \in Denom |-> b[a][d]]
    BY <2>1
  <2> QED BY <2>3, <2>4
<1>3. ASSUME NEW b \in Balances, NEW a \in Address
      PROVE  [b EXCEPT ![a] = b[a]] = b
  BY DEF Balances
<1> DEFINE less == [d \in Denom |-> balances[from][d] - AmountOf({}, d)]
           more == [d \in Denom |-> balances[to][d] + AmountOf({}, d)]
<1>4. less = balances[from] /\ more = balances[to]
  BY <1>2
<1>5. [balances EXCEPT ![from] = less] = balances /\ [balances EXCEPT ![to] = more] = balances
  <2> HIDE DEF less, more
  <2> QED BY <1>3, <1>4
<1> DEFINE debited == [balances EXCEPT ![from] =
                         [d \in Denom |-> @[d] - AmountOf({}, d)]]
<1>6. debited = balances
  BY <1>5
<1>7. Transfer(balances, from, to, {}) =
        [debited EXCEPT ![to] = [d \in Denom |-> debited[to][d] + AmountOf({}, d)]]
  BY <1>6 DEF Transfer, Balances
<1> QED BY <1>5, <1>6, <1>7

-----------------------------------------------------------------------------
(* Deployments. *)

\* The chain creates the dealer, whose instantiation asks for the child.
LEMMA DealerIsInstantiated ==
  ASSUME TypeOK, Undeployed(committed), tx.sender \in Deployers, DeploymentSubmitted,
         RunInstantiateDealer, response'.ok
  PROVE  DealerInstantiated'
<1>1. PICK wasm_admin \in Deployers, h \in DealerHash, admin \in Deployers \cup {Unset},
           prices \in PriceLists, metadata \in MetadataOffers,
           royalty_info \in RoyaltyInfo, code_id \in SnipHash, code_hash \in SnipHash :
        pending =
          << Item(tx.sender, {},
                  [type |-> "instantiate_dealer", wasm_admin |-> wasm_admin,
                   code_hash |-> h,
                   msg |-> [admin |-> admin, prices |-> prices, metadata |-> metadata,
                            royalty_info |-> royalty_info,
                            snip721_code_id |-> code_id,
                            snip721_code_hash |-> code_hash]]) >>
  BY DEF DeploymentSubmitted
<1> DEFINE item == Item1
           msg == Msg.msg
           true_admin == IF admin = Unset THEN tx.sender ELSE admin
           child == WasmInstantiate(true_admin, code_id, code_hash,
                                    Snip721Instantiate(DEALER, royalty_info, 1), 1)
<1>2. /\ Item1.from = tx.sender /\ Msg.code_hash = h
      /\ msg.admin = admin /\ msg.prices = prices /\ msg.metadata = metadata
      /\ msg.royalty_info = royalty_info
      /\ msg.snip721_code_id = code_id /\ msg.snip721_code_hash = code_hash
      /\ pending # << >> /\ item \in Items /\ pending = << item >>
  BY <1>1, PendingItems, StateTypes DEF Item, Item1, Msg
<1>3. msg \in D!InstantiateMsg /\ Item1.from \in Address
  <2>1. Msg \in ChainMsg /\ Msg.type = "instantiate_dealer" /\ Item1.from \in Address
    BY <1>2 DEF Items, Msg, Item1, RunInstantiateDealer, Runs
  <2> QED BY <2>1, MsgFields
<1>4. true_admin \in Deployers
  OBVIOUS
<1>5. /\ prices # << >>
      /\ dealer' = [admin |-> true_admin, prices |-> prices, metadata |-> metadata,
                    child_code_hash |-> code_hash, child_address |-> Unset,
                    subscribers |-> << >>]
      /\ response' = Ok(<< child >>)
  <2>1. ~DealerFails
    BY DEF DealerFails, Err
  <2> HIDE DEF msg
  <2> QED BY <1>2, <1>3, <2>1, DealerInstantiates DEF RunInstantiateDealer, msg
<1>6. pending' = << Item(DEALER, {}, child) >>
  <2>1. response'.msgs = << child >> /\ Schedule(DEALER, << >>)
    BY <1>5 DEF Ok, RunInstantiateDealer
  <2>2. child \in ChainMsg
    BY <1>4, UsersAreNoContracts, HashesAreStored, ContractsDiffer
       DEF WasmInstantiate, Snip721Instantiate, Snip721InstantiateMsg, SubMsg, ChainMsg
  <2>3. Item(DEALER, {}, child) \in Items
    BY <2>2, OneItem, NoFundsAreFunds, ContractsDiffer
  <2> HIDE DEF child, item
  <2> QED BY <1>2, <2>1, <2>3, OneNext
<1>7. /\ codeHash'[DEALER] = h /\ codeHash'[SNIP] = Unset
      /\ snip' = S!Blank /\ bank' = committed'.bank /\ heard' = committed'.heard
  BY <1>2, StateTypes, ContractsDiffer
     DEF DeploymentSubmitted, RunInstantiateDealer, Create, outside, World, Undeployed
<1>8. /\ dealer'.admin = true_admin /\ dealer'.prices = prices
      /\ dealer'.metadata = metadata
      /\ dealer'.child_code_hash = code_hash /\ dealer'.child_address = Unset
      /\ dealer'.subscribers = << >>
  BY <1>5
<1> HIDE DEF true_admin
<1> QED BY <1>4, <1>5, <1>6, <1>7, <1>8 DEF DealerInstantiated, Expecting, NewDealer

\* The chain creates the child and calls back the dealer.
LEMMA ChildIsInstantiated ==
  ASSUME TypeOK, DealerInstantiated, RunInstantiateSnip721, response'.ok
  PROVE  ChildInstantiated'
<1>1. PICK code_id \in SnipHash, royalty_info \in RoyaltyInfo :
        pending = << Item(DEALER, {},
                          WasmInstantiate(dealer.admin, code_id, dealer.child_code_hash,
                                          Snip721Instantiate(DEALER, royalty_info, 1),
                                          1)) >>
  BY DEF DealerInstantiated
<1>2. /\ Item1.from = DEALER /\ Msg.wasm_admin = dealer.admin
      /\ Msg.code_hash = dealer.child_code_hash
      /\ Msg.msg = Snip721Instantiate(DEALER, royalty_info, 1) /\ Msg.reply_id = 1
      /\ Tail(pending) = << >>
  BY <1>1, NextItem DEF Item, WasmInstantiate
<1> DEFINE reply == [type |-> "reply", id |-> 1, contract_address |-> SNIP]
<1>3. /\ Create(SNIP) /\ S!Instantiate(Item1.from, Msg.msg)
      /\ Schedule(SNIP, << Item(SNIP, {}, reply) >>)
      /\ UNCHANGED <<dealer, bank, outside>>
  BY <1>2 DEF RunInstantiateSnip721, Refuse, Err
<1>4. /\ snip' = [admin |-> DEALER, minters |-> {DEALER}, status |-> "normal",
                  tokens |-> << >>, slots |-> 1, subscribers |-> << >>]
      /\ response' = Ok(<< >>)
  <2>1. ~ChildFails
    BY DEF ChildFails, Err
  <2> QED BY <1>2, <1>3, <2>1, ChildInstantiates, ContractsDiffer
<1>5. pending' = << Item(SNIP, {}, reply) >>
  <2>1. Outgoing(SNIP, << >>) = << >>
    BY DEF Outgoing
  <2>2. pending' = << >> \o << Item(SNIP, {}, reply) >> \o << >>
    BY <1>2, <1>3, <1>4, <2>1 DEF Schedule, Ok
  <2>3. << Item(SNIP, {}, reply) >> \in Seq({Item(SNIP, {}, reply)})
    OBVIOUS
  <2> QED BY <2>2, <2>3, ConcatEmptySeq
<1>6. /\ codeHash'[DEALER] = codeHash[DEALER]
      /\ codeHash'[SNIP] = dealer.child_code_hash /\ wasmAdmin'[SNIP] = dealer.admin
  BY <1>2, <1>3, StateTypes, ContractsDiffer DEF Create
<1>7. Expecting'
  BY <1>3, <1>6 DEF DealerInstantiated, Expecting, NewDealer, outside
<1> QED BY <1>3, <1>4, <1>5, <1>6, <1>7 DEF ChildInstantiated, Unregistered, NewChild

\* The dealer's reply.
LEMMA DealerReplied ==
  ASSUME TypeOK, ChildInstantiated, RunReply, response'.ok
  PROVE  Replied'
<1> DEFINE child == Contract(SNIP, dealer.child_code_hash)
           self == Contract(DEALER, codeHash[DEALER])
           first == WasmExecute(child, SubscribeMsg(self))
           second == WasmExecute(child, ChangeAdmin(dealer.admin))
<1>1. /\ Msg.id = 1 /\ Msg.contract_address = SNIP
      /\ pending # << >> /\ Item1 \in Items /\ pending = << Item1 >>
  BY NextItem, PendingItems, StateTypes DEF ChildInstantiated, Item
<1>2. /\ dealer.admin \in Address /\ dealer.child_code_hash \in Hash
      /\ codeHash[DEALER] \in Hash /\ dealer.subscribers = << >>
      /\ codeHash[SNIP] = dealer.child_code_hash
  BY UsersAreNoContracts, HashesAreStored DEF ChildInstantiated, Expecting, NewDealer
<1>3. child \in ContractInfo /\ self \in ContractInfo
  BY <1>2, ContractsDiffer DEF Contract, ContractInfo
<1>4. /\ dealer' = [dealer EXCEPT !.child_address = SNIP,
                     !.subscribers = AddSubscriber(dealer.subscribers, child)]
      /\ response' = Ok(<< first, second >>)
  <2>1. ~DealerFails
    BY DEF DealerFails, Err
  <2> QED BY <1>1, <2>1, DealerReplies, StateTypes DEF RunReply
<1>5. AddSubscriber(dealer.subscribers, child) = << child >>
  BY <1>2 DEF AddSubscriber, Range
<1>6. pending' = << Item(DEALER, {}, first), Item(DEALER, {}, second) >>
  <2>1. response'.msgs = << first, second >> /\ Schedule(DEALER, << >>)
    BY <1>4 DEF Ok, RunReply
  <2>2. first \in ChainMsg /\ second \in ChainMsg
    <3> HIDE DEF child, self
    <3> QED BY <1>2, <1>3
            DEF WasmExecute, SubscribeMsg, ChangeAdmin, ExecuteBody, SubMsg, ChainMsg
  <2>3. Item(DEALER, {}, first) \in Items /\ Item(DEALER, {}, second) \in Items
    BY <2>2, OneItem, NoFundsAreFunds, ContractsDiffer
  <2> HIDE DEF first, second
  <2> QED BY <1>1, <2>1, <2>3, TwoNext
<1>7. UNCHANGED <<snip, codeHash, wasmAdmin, bank, heard, committed>>
  BY DEF RunReply, chain, outside
<1>8. /\ dealer'.child_address = SNIP /\ dealer'.subscribers = << child >>
      /\ dealer'.admin = dealer.admin /\ dealer'.prices = dealer.prices
      /\ dealer'.metadata = dealer.metadata
      /\ dealer'.child_code_hash = dealer.child_code_hash
  BY <1>4, <1>5, StateTypes DEF DealerStorage
<1>9. child = Current(SNIP)' /\ self = Current(DEALER)'
  BY <1>2, <1>7 DEF Current
<1>10. HasChild' /\ Unregistered'
  BY <1>2, <1>7, <1>8, <1>9
     DEF ChildInstantiated, Expecting, HasChild, NewDealer, Unregistered, NewChild
<1>11. pending' = << Registration', HandOver' >>
  BY <1>6, <1>8, <1>9 DEF Registration, HandOver
<1> QED BY <1>10, <1>11 DEF Replied

\* The next message goes to a contract that accepts it: it is not refused.
LEMMA DeliveredToDealer ==
  ASSUME ChainStep, ~AtRest, response.ok, pending # << >>, response'.ok,
         Msg.type = "execute", Msg.contract.address = DEALER
  PROVE  ExecuteDealer
BY NextStep, NextContract, ContractsDiffer DEF ExecuteRefused, Refuse, Err

\* An execute message for the child that does not fail is run by the child.
LEMMA DeliveredToChild ==
  ASSUME ChainStep, ~AtRest, response.ok, pending # << >>, response'.ok,
         Msg.type = "execute", Msg.contract.address = SNIP
  PROVE  ExecuteSnip721
BY NextStep, NextContract, ContractsDiffer DEF ExecuteRefused, Refuse, Err

\* An execute message for the listener that does not fail is run by it.
LEMMA DeliveredToListener ==
  ASSUME ChainStep, ~AtRest, response.ok, pending # << >>, response'.ok,
         Msg.type = "execute", Msg.contract.address = EXT
  PROVE  ExecuteExt
BY NextStep, NextContract, ContractsDiffer DEF ExecuteRefused, Refuse, Err

\* The child registers the dealer, in its only slot.
LEMMA DealerIsRegistered ==
  ASSUME TypeOK, Replied, ExecuteSnip721, response'.ok
  PROVE  DealerRegistered'
<1> DEFINE self == Current(DEALER)
           body == SubscribeMsg(self)
<1>1. /\ Item1 = Registration /\ pending # << >> /\ Tail(pending) = << HandOver >>
      /\ pending \in Seq(Items) /\ Item1 \in Items
  BY NextOfTwo, PendingItems, StateTypes DEF Replied
<1>2. /\ Item1.from = DEALER /\ Item1.funds = {} /\ Msg.body = body /\ Msg.type = "execute"
      /\ body.tag = "subscribe_to_migration_complete_event" /\ body.contract = self
  BY <1>1 DEF Registration, Item, WasmExecute, Item1, Msg, SubscribeMsg
<1>3. Msg.body \in Bodies /\ Item1.from \in Address
  <2>1. Msg \in ChainMsg /\ Item1.from \in Address
    BY <1>1 DEF Items, Item1, Msg
  <2> QED BY <1>2, <2>1, MsgFields
<1>4. response' = Ok(<< >>) /\ ChildRegisters(self)
  <2>1. S!Execute(DEALER, body) /\ ~ChildFails /\ body \in Bodies /\ DEALER \in Address
    BY <1>2, <1>3 DEF ExecuteSnip721, ChildFails, Err
  <2> HIDE DEF body
  <2>2. body.tag = "subscribe_to_migration_complete_event" /\ body.contract = self
    BY <1>2 DEF body
  <2> QED BY <2>1, <2>2, ChildExecutes, StateTypes
<1>5. AddSubscriber(<< >>, self) = << self >>
  BY DEF AddSubscriber, Range
<1>6. /\ snip'.slots = 0 /\ snip'.subscribers = << self >>
      /\ snip'.admin = snip.admin /\ snip'.minters = snip.minters
      /\ snip'.status = snip.status /\ snip'.tokens = snip.tokens
  BY <1>4, <1>5, StateTypes DEF Replied, Unregistered, ChildRegisters, Snip721Storage
<1>7. bank' = bank
  <2>1. bank' = Transfer(bank, DEALER, SNIP, {})
    BY <1>2 DEF ExecuteSnip721, Pay
  <2> QED BY <2>1, TransferNothing, StateTypes, ContractsDiffer
<1>8. pending' = << HandOver >>
  <2>1. response'.msgs = << >>
    BY <1>4 DEF Ok
  <2> QED BY <1>1, <2>1, NothingNext DEF ExecuteSnip721
<1>9. UNCHANGED <<dealer, codeHash, wasmAdmin, heard, committed>>
  BY DEF ExecuteSnip721, outside
<1>10. HasChild' /\ Registered' /\ HandOver' = HandOver
  BY <1>6, <1>7, <1>9
     DEF Replied, Unregistered, HasChild, NewDealer, NewChild, Registered, KnowsDealer,
         Current, HandOver
<1> QED BY <1>6, <1>8, <1>9, <1>10 DEF Replied, Unregistered, DealerRegistered

\* The child gets its true admin.
LEMMA ChildIsHandedOver ==
  ASSUME TypeOK, DealerRegistered, ExecuteSnip721, response'.ok
  PROVE  HandedOver'
<1> DEFINE body == ChangeAdmin(dealer.admin)
<1>1. /\ Item1 = HandOver /\ pending # << >> /\ Tail(pending) = << >>
      /\ pending \in Seq(Items) /\ Item1 \in Items
  BY NextItem, PendingItems, StateTypes DEF DealerRegistered
<1>2. /\ Item1.from = DEALER /\ Item1.funds = {} /\ Msg.body = body /\ Msg.type = "execute"
      /\ body.tag = "change_admin" /\ body.address = dealer.admin
  BY <1>1 DEF HandOver, Item, WasmExecute, Item1, Msg, ChangeAdmin
<1>3. Msg.body \in Bodies /\ Item1.from \in Address
  <2>1. Msg \in ChainMsg /\ Item1.from \in Address
    BY <1>1 DEF Items, Item1, Msg
  <2> QED BY <1>2, <2>1, MsgFields
<1>4. response' = Ok(<< >>) /\ snip' = [snip EXCEPT !.admin = dealer.admin]
  <2>1. S!Execute(DEALER, body) /\ ~ChildFails /\ body \in Bodies /\ DEALER \in Address
    BY <1>2, <1>3 DEF ExecuteSnip721, ChildFails, Err
  <2> HIDE DEF body
  <2>2. body.tag = "change_admin" /\ body.address = dealer.admin
    BY <1>2 DEF body
  <2> QED BY <2>1, <2>2, ChildExecutes, StateTypes
<1>5. /\ snip'.slots = snip.slots /\ snip'.subscribers = snip.subscribers
      /\ snip'.admin = dealer.admin /\ snip'.minters = snip.minters
      /\ snip'.status = snip.status /\ snip'.tokens = snip.tokens
  BY <1>4, StateTypes DEF Snip721Storage
<1>6. bank' = bank
  <2>1. bank' = Transfer(bank, DEALER, SNIP, {})
    BY <1>2 DEF ExecuteSnip721, Pay
  <2> QED BY <2>1, TransferNothing, StateTypes, ContractsDiffer
<1>7. pending' = << >>
  <2>1. response'.msgs = << >>
    BY <1>4 DEF Ok
  <2> QED BY <1>1, <2>1, NothingNext DEF ExecuteSnip721
<1>8. UNCHANGED <<dealer, codeHash, wasmAdmin, heard, committed>>
  BY DEF ExecuteSnip721, outside
<1>9. HasChild' /\ Registered'
  BY <1>5, <1>6, <1>8
     DEF DealerRegistered, HasChild, NewDealer, NewChild, Registered, KnowsDealer, Current
<1> QED BY <1>5, <1>7, <1>8, <1>9 DEF HandedOver

\* Between its start and its end a deployment goes from stage to stage.
LEMMA DeploymentGoesOn ==
  ASSUME TypeOK, Deploying, ChainStep, ~AtRest, response.ok, pending # << >>, response'.ok
  PROVE  Deploying' /\ TypeOK'
<1>1. Undeployed(committed) /\ tx.sender \in Deployers
  BY DEF Deploying
<1>2. CASE DeploymentSubmitted
  <2>1. Msg.type = "instantiate_dealer"
    BY <1>2, NextItem DEF DeploymentSubmitted, Item
  <2>2. RunInstantiateDealer
    BY <2>1, NextStep
  <2>3. DealerInstantiated' /\ UNCHANGED <<tx, committed>>
    BY <1>1, <1>2, <2>2, DealerIsInstantiated DEF RunInstantiateDealer, outside
  <2> QED BY <1>1, <2>2, <2>3, RunInstantiateDealerTypes DEF Deploying
<1>3. CASE DealerInstantiated
  <2>1. Msg.type = "instantiate"
    BY <1>3, NextItem DEF DealerInstantiated, Item, WasmInstantiate
  <2>2. RunInstantiateSnip721
    BY <2>1, NextStep
  <2>3. ChildInstantiated' /\ UNCHANGED <<tx, committed>>
    BY <1>3, <2>2, ChildIsInstantiated DEF RunInstantiateSnip721, outside
  <2> QED BY <1>1, <2>2, <2>3, RunInstantiateSnip721Types DEF Deploying
<1>4. CASE ChildInstantiated
  <2>1. Msg.type = "reply"
    BY <1>4, NextItem DEF ChildInstantiated, Item
  <2>2. RunReply
    BY <2>1, NextStep
  <2>3. Replied' /\ UNCHANGED <<tx, committed>>
    BY <1>4, <2>2, DealerReplied DEF RunReply, outside
  <2>4. /\ dealer.admin \in Address /\ dealer.child_code_hash \in Hash
        /\ codeHash[DEALER] \in Hash
    BY <1>4, UsersAreNoContracts, HashesAreStored DEF ChildInstantiated, Expecting, NewDealer
  <2> QED BY <1>1, <2>2, <2>3, <2>4, RunReplyTypes DEF Deploying
<1>5. CASE Replied
  <2>1. Msg.type = "execute" /\ Msg.contract.address = SNIP
    BY <1>5, NextOfTwo DEF Replied, Registration, Item, WasmExecute, Current, Contract
  <2>2. ExecuteSnip721
    BY <2>1, DeliveredToChild
  <2>3. DealerRegistered' /\ UNCHANGED <<tx, committed>>
    BY <1>5, <2>2, DealerIsRegistered DEF ExecuteSnip721, outside
  <2> QED BY <1>1, <2>2, <2>3, ExecuteSnip721Types DEF Deploying
<1>6. CASE DealerRegistered
  <2>1. Msg.type = "execute" /\ Msg.contract.address = SNIP
    BY <1>6, NextItem DEF DealerRegistered, HandOver, Item, WasmExecute, Current, Contract
  <2>2. ExecuteSnip721
    BY <2>1, DeliveredToChild
  <2>3. HandedOver' /\ UNCHANGED <<tx, committed>>
    BY <1>6, <2>2, ChildIsHandedOver DEF ExecuteSnip721, outside
  <2> QED BY <1>1, <2>2, <2>3, ExecuteSnip721Types DEF Deploying
<1> QED BY <1>2, <1>3, <1>4, <1>5, <1>6 DEF Deploying, HandedOver

-----------------------------------------------------------------------------
(* Coins. *)

\* Of one denomination nobody sends less than nothing.
LEMMA AmountIsNat ==
  ASSUME NEW funds \in SUBSET Coin, NEW d
  PROVE  AmountOf(funds, d) \in Nat
<1> DEFINE coins == {c \in funds : c.denom = d}
<1>1. CASE coins = {}
  BY <1>1 DEF AmountOf
<1>2. CASE coins # {}
  <2>1. PICK c \in coins : c = (CHOOSE x \in coins : TRUE)
    BY <1>2
  <2>2. AmountOf(funds, d) = c.amount
    BY <1>2, <2>1 DEF AmountOf
  <2>3. c.amount \in Nat
    BY AmountIsPositive DEF Coin
  <2> QED BY <2>2, <2>3
<1> QED BY <1>1, <1>2

\* A transfer takes the coins from one account and adds them to the other.
LEMMA TransferValue ==
  ASSUME NEW balances \in Balances, NEW from \in Address, NEW to \in Address,
         NEW funds \in SUBSET Coin
  PROVE  /\ Transfer(balances, from, to, funds) \in [Address -> [Denom -> Int]]
         /\ \A a \in Address, d \in Denom :
              Transfer(balances, from, to, funds)[a][d] =
                balances[a][d] - (IF a = from THEN AmountOf(funds, d) ELSE 0)
                               + (IF a = to THEN AmountOf(funds, d) ELSE 0)
<1> DEFINE less == [d \in Denom |-> balances[from][d] - AmountOf(funds, d)]
           debited == [balances EXCEPT ![from] = less]
           more == [d \in Denom |-> debited[to][d] + AmountOf(funds, d)]
<1>1. \A d : AmountOf(funds, d) \in Nat
  BY AmountIsNat
<1>2. \A a \in Address : \A d \in Denom : balances[a][d] \in Nat
  BY DEF Balances
<1>3. less \in [Denom -> Int]
  BY <1>1, <1>2
<1>4. /\ debited \in [Address -> [Denom -> Int]]
      /\ \A a \in Address : debited[a] = IF a = from THEN less ELSE balances[a]
  <2> HIDE DEF less
  <2> QED BY <1>3 DEF Balances
<1>5. more \in [Denom -> Int]
  <2> HIDE DEF debited
  <2> QED BY <1>1, <1>4
<1>6. Transfer(balances, from, to, funds) = [debited EXCEPT ![to] = more]
  BY DEF Transfer, Balances
<1>7. /\ Transfer(balances, from, to, funds) \in [Address -> [Denom -> Int]]
      /\ \A a \in Address :
           Transfer(balances, from, to, funds)[a] = IF a = to THEN more ELSE debited[a]
  <2> HIDE DEF debited, more
  <2> QED BY <1>4, <1>5, <1>6
<1>8. ASSUME NEW a \in Address, NEW d \in Denom
      PROVE  Transfer(balances, from, to, funds)[a][d] =
                balances[a][d] - (IF a = from THEN AmountOf(funds, d) ELSE 0)
                               + (IF a = to THEN AmountOf(funds, d) ELSE 0)
  <2>1. debited[a][d] = balances[a][d] - (IF a = from THEN AmountOf(funds, d) ELSE 0)
    <3>1. less[d] = balances[from][d] - AmountOf(funds, d)
      OBVIOUS
    <3> HIDE DEF less, debited
    <3> QED BY <1>1, <1>2, <1>4, <3>1
  <2>2. more[d] = debited[to][d] + AmountOf(funds, d)
    OBVIOUS
  <2>3. debited[a][d] \in Int
    <3> HIDE DEF debited
    <3> QED BY <1>4
  <2> HIDE DEF less, debited, more
  <2> QED BY <1>1, <1>7, <2>1, <2>2, <2>3
<1> QED BY <1>7, <1>8

\* Coins that are passed on.
LEMMA TransferTwice ==
  ASSUME NEW balances \in Balances, NEW a \in Address, NEW b \in Address, NEW c \in Address,
         NEW funds \in Funds, Affords(balances, a, funds)
  PROVE  Transfer(Transfer(balances, a, b, funds), b, c, funds)
           = Transfer(balances, a, c, funds)
<1> DEFINE between == Transfer(balances, a, b, funds)
           twice == Transfer(between, b, c, funds)
           once == Transfer(balances, a, c, funds)
<1>1. funds \in SUBSET Coin /\ between \in Balances
  BY FundsAreSets, TransferType
<1>2. \A d : AmountOf(funds, d) \in Nat
  BY <1>1, AmountIsNat
<1>3. \A x \in Address : \A d \in Denom : balances[x][d] \in Nat
  BY DEF Balances
<1>4. /\ \A x \in Address, d \in Denom :
           between[x][d] = balances[x][d] - (IF x = a THEN AmountOf(funds, d) ELSE 0)
                                          + (IF x = b THEN AmountOf(funds, d) ELSE 0)
      /\ once \in [Address -> [Denom -> Int]]
      /\ \A x \in Address, d \in Denom :
           once[x][d] = balances[x][d] - (IF x = a THEN AmountOf(funds, d) ELSE 0)
                                       + (IF x = c THEN AmountOf(funds, d) ELSE 0)
  BY <1>1, TransferValue
<1> HIDE DEF between, once
<1>5. /\ twice \in [Address -> [Denom -> Int]]
      /\ \A x \in Address, d \in Denom :
           twice[x][d] = between[x][d] - (IF x = b THEN AmountOf(funds, d) ELSE 0)
                                       + (IF x = c THEN AmountOf(funds, d) ELSE 0)
  BY <1>1, TransferValue
<1> HIDE DEF twice
<1>6. \A x \in Address : \A d \in Denom : twice[x][d] = once[x][d]
  BY <1>2, <1>3, <1>4, <1>5
<1>7. \A x \in Address : twice[x] = once[x]
  <2> TAKE x \in Address
  <2>1. twice[x] \in [Denom -> Int] /\ once[x] \in [Denom -> Int]
    BY <1>4, <1>5
  <2> QED BY <1>6, <2>1
<1>8. twice = once
  BY <1>4, <1>5, <1>7
<1> QED BY <1>8 DEF between, twice, once

\* Who has just been paid can pass the coins on.
LEMMA ReceivedIsOwned ==
  ASSUME NEW balances \in Balances, NEW a \in Address, NEW b \in Address,
         NEW funds \in Funds, Affords(balances, a, funds), a # b
  PROVE  Affords(Transfer(balances, a, b, funds), b, funds)
<1> SUFFICES ASSUME NEW c \in funds
             PROVE  c.amount <= Transfer(balances, a, b, funds)[b][c.denom]
  BY DEF Affords
<1>1. funds \in SUBSET Coin /\ c.denom \in Denom /\ c.amount \in Nat
  BY FundsAreSets, AmountIsPositive DEF Coin
<1> DEFINE coins == {x \in funds : x.denom = c.denom}
<1>2. coins = {c}
  BY DEF Funds
<1>3. AmountOf(funds, c.denom) = c.amount
  BY <1>2 DEF AmountOf
<1>4. Transfer(balances, a, b, funds)[b][c.denom] = balances[b][c.denom] - 0 + c.amount
  BY <1>1, <1>3, TransferValue
<1>5. balances[b][c.denom] \in Nat
  BY <1>1 DEF Balances
<1> QED BY <1>1, <1>4, <1>5

\* Everybody can afford to send no coins.
LEMMA NothingIsOwned ==
  ASSUME NEW balances, NEW a PROVE Affords(balances, a, {})
BY DEF Affords

-----------------------------------------------------------------------------
(* Calls. *)

\* What the two store when they are linked is there: no Unset is read.
LEMMA LinkedTypes ==
  ASSUME TypeOK, Linked(committed)
  PROVE  /\ committed.dealer \in DealerStorage /\ committed.snip \in Snip721Storage
         /\ committed.bank \in Balances
         /\ committed.codeHash[DEALER] \in Hash /\ committed.codeHash[SNIP] \in Hash
         /\ committed.dealer.admin \in Address
         /\ committed.dealer.child_address = SNIP /\ SNIP # Unset
         /\ committed.dealer.child_code_hash = committed.codeHash[SNIP]
         /\ dealer = committed.dealer => Ready
<1>1. /\ committed.dealer \in DealerStorage /\ committed.snip \in Snip721Storage
      /\ committed.bank \in Balances
      /\ committed.codeHash \in [Address -> Hash \cup {Unset}]
  BY StateTypes DEF WorldType
<1>2. SNIP # Unset
  BY ContractsDiffer, UnsetIsNoValue
<1> QED BY <1>1, <1>2, ContractsDiffer, UnsetIsNoValue
       DEF Linked, KnowsChild, DealerStorage, Ready

\* A call comes from a user, who is none of the contracts.
LEMMA CallTypes ==
  ASSUME TypeOK, tx.kind = "execute"
  PROVE  /\ tx.sender \in Users /\ tx.sender \in Address \ {DEALER, SNIP, EXT}
         /\ tx.funds \in Funds /\ tx.contract \in {DEALER, SNIP, EXT}
         /\ tx.body \in Bodies
BY StateTypes, UsersAreNoContracts DEF Transactions, NoTx

\* The call is delivered, and the coins that came with it.
LEMMA CallItem ==
  ASSUME TypeOK, CallSubmitted
  PROVE  /\ pending # << >> /\ Tail(pending) = << >> /\ pending = << Item1 >>
         /\ Item1.from = tx.sender /\ Item1.funds = tx.funds
         /\ Msg.type = "execute" /\ Msg.contract = Current(tx.contract)
         /\ Msg.contract.address = tx.contract /\ Msg.body = tx.body
         /\ pending \in Seq(Items) /\ Item1 \in Items
         /\ dealer = committed.dealer /\ snip = committed.snip
         /\ bank = committed.bank /\ heard = committed.heard
         /\ CodeUnchanged
<1>1. /\ pending = << Item(tx.sender, tx.funds,
                           WasmExecute(Current(tx.contract), tx.body)) >>
      /\ World = committed
  BY DEF CallSubmitted
<1>2. /\ dealer = committed.dealer /\ snip = committed.snip
      /\ bank = committed.bank /\ heard = committed.heard
      /\ CodeUnchanged
  BY <1>1 DEF World, CodeUnchanged
<1>3. /\ pending # << >> /\ Tail(pending) = << >> /\ pending = << Item1 >>
      /\ Item1 = Item(tx.sender, tx.funds, WasmExecute(Current(tx.contract), tx.body))
      /\ Msg = WasmExecute(Current(tx.contract), tx.body)
  BY <1>1, NextItem DEF Item
<1> QED BY <1>2, <1>3, PendingItems, StateTypes DEF Item, WasmExecute, Current, Contract

\* A message that a response holds is an item that can be delivered.
LEMMA ResponseItems ==
  ASSUME NEW from \in Address, response' \in Response
  PROVE  /\ \A a : response' = Ok(<< a >>) => Item(from, {}, a) \in Items
         /\ \A a, b : response' = Ok(<< a, b >>) =>
              Item(from, {}, a) \in Items /\ Item(from, {}, b) \in Items
<1>1. response'.msgs \in Seq(SubMsg) /\ SubMsg \subseteq ChainMsg
  BY DEF Response, ChainMsg
<1>2. \A a : response' = Ok(<< a >>) => a \in ChainMsg
  <2> TAKE a
  <2> HAVE response' = Ok(<< a >>)
  <2>1. response'.msgs = << a >>
    BY DEF Ok
  <2>2. Len(response'.msgs) = 1 /\ response'.msgs[1] = a
    BY <2>1
  <2> QED BY <1>1, <2>2, ElementOfSeq
<1>3. \A a, b : response' = Ok(<< a, b >>) => a \in ChainMsg /\ b \in ChainMsg
  <2> TAKE a, b
  <2> HAVE response' = Ok(<< a, b >>)
  <2>1. response'.msgs = << a, b >>
    BY DEF Ok
  <2>2. /\ Len(response'.msgs) = 2
        /\ response'.msgs[1] = a /\ response'.msgs[2] = b
    BY <2>1
  <2> QED BY <1>1, <2>2, ElementOfSeq
<1> QED BY <1>2, <1>3, OneItem, NoFundsAreFunds

\* The dealer agrees to a sale, or registers a subscriber; a user is not its
\* child, so that nothing else succeeds.
LEMMA DealerIsCalled ==
  ASSUME TypeOK, Linked(committed), tx.kind = "execute", CallSubmitted,
         tx.contract = DEALER, ExecuteDealer, response'.ok
  PROVE  SaleAgreed' \/ DealerCalled'
<1>1. /\ UNCHANGED <<snip, codeHash, wasmAdmin, heard, tx, committed>>
      /\ Affords(bank, tx.sender, tx.funds)
      /\ bank' = Transfer(bank, tx.sender, DEALER, tx.funds)
      /\ D!Execute(tx.sender, tx.funds, tx.body)
  BY CallItem DEF ExecuteDealer, Reaches, Pay, outside
<1>2. CodeUnchanged' /\ heard' = committed'.heard /\ snip' = committed'.snip /\ Paid(DEALER)'
  BY <1>1, CallItem DEF CodeUnchanged, Paid
<1>3. /\ tx.sender \in Address /\ tx.sender # SNIP /\ tx.funds \in Funds
      /\ tx.body \in Bodies /\ dealer \in DealerStorage
      /\ dealer.child_address = SNIP /\ dealer = committed.dealer
  BY CallTypes, LinkedTypes, CallItem
<1>4. ~DealerFails
  BY DEF DealerFails, Err
<1>5. CASE tx.body.tag = "purchase_mint" /\ DealerSells(tx.sender, tx.funds)
  <2> DEFINE send == BankSend(dealer.admin, tx.funds)
             mint == WasmExecute(Contract(dealer.child_address, dealer.child_code_hash),
                                 MintNft(Unset, tx.sender, dealer.metadata))
  <2>1. /\ D!Pays(dealer.prices, tx.funds) /\ dealer' = dealer
        /\ response' = Ok(<< send, mint >>)
    BY <1>5 DEF DealerSells
  <2>2. response' \in Response
    BY <1>1, <1>3, LinkedTypes, DealerExecutesTypes
  <2> HIDE DEF send, mint
  <2>3. Item(DEALER, {}, send) \in Items /\ Item(DEALER, {}, mint) \in Items
    BY <2>1, <2>2, ResponseItems, ContractsDiffer
  <2>4. pending' = << Item(DEALER, {}, send), Item(DEALER, {}, mint) >>
    <3>1. response'.msgs = << send, mint >>
      BY <2>1 DEF Ok
    <3> QED BY <2>3, <3>1, CallItem, TwoNext DEF ExecuteDealer
  <2>5. Item(DEALER, {}, mint) = MintItem'
    <3>1. codeHash[SNIP] = dealer.child_code_hash
      BY <1>3, CallItem, LinkedTypes DEF CodeUnchanged
    <3> QED BY <1>1, <1>3, <2>1, <3>1 DEF mint, MintItem, Current
  <2>6. Sale'
    BY <1>1, <1>2, <1>3, <1>5, <2>1 DEF Sale, IsPurchase
  <2> QED BY <1>1, <1>2, <2>1, <2>4, <2>5, <2>6 DEF SaleAgreed, send
<1>6. CASE /\ tx.body.tag = "subscribe_to_migration_complete_event"
           /\ DealerRegisters(tx.body.contract)
  <2>1. tx.body.contract \in ContractInfo
    BY <1>3, <1>6, BodyFields
  <2>2. RegisteredWithDealer(tx.body.contract)'
    BY <1>1, <1>3, <1>6 DEF DealerRegisters, RegisteredWithDealer, DealerStorage
  <2>3. pending' = << >>
    <3>1. response'.msgs = << >>
      BY <1>6 DEF DealerRegisters, Ok
    <3> QED BY <3>1, CallItem, NothingNext DEF ExecuteDealer
  <2>4. ~IsPurchase'
    BY <1>1, <1>6 DEF IsPurchase
  <2> QED BY <1>1, <1>2, <2>1, <2>2, <2>3, <2>4 DEF DealerCalled
<1> QED BY <1>1, <1>3, <1>4, <1>5, <1>6, DealerExecutes DEF DealerUpdates

\* An entry of another address is left alone.
LEMMA UpdateOfOther ==
  ASSUME NEW contract \in ContractInfo, NEW from, NEW to, contract.address # from
  PROVE  UpdateSubscriber(<< contract >>, from, to) = << contract >>
BY DEF UpdateSubscriber, IsFirstEntry

\* The child's slots are used up, and its only entry is the dealer's: calls
\* of users mint, administer, or change nothing.
LEMMA ChildIsCalled ==
  ASSUME TypeOK, Linked(committed), tx.kind = "execute", CallSubmitted,
         tx.contract = SNIP, ExecuteSnip721, response'.ok
  PROVE  ChildCalled'
<1>1. /\ UNCHANGED <<dealer, codeHash, wasmAdmin, heard, tx, committed>>
      /\ Affords(bank, tx.sender, tx.funds)
      /\ bank' = Transfer(bank, tx.sender, SNIP, tx.funds)
      /\ S!Execute(tx.sender, tx.body)
  BY CallItem DEF ExecuteSnip721, Reaches, Pay, outside
<1>2. CodeUnchanged' /\ heard' = committed'.heard /\ dealer' = committed'.dealer /\ Paid(SNIP)'
  BY <1>1, CallItem DEF CodeUnchanged, Paid
<1>3. /\ tx.sender \in Address /\ tx.sender # DEALER
      /\ tx.body \in Bodies /\ snip \in Snip721Storage /\ snip = committed.snip
      /\ snip.slots = 0
      /\ snip.subscribers = << Contract(DEALER, committed.codeHash[DEALER]) >>
  BY CallTypes, LinkedTypes, CallItem DEF Linked, KnowsDealer
<1>4. ~ChildFails /\ response' = Ok(<< >>)
  <2>1. ~ChildFails
    BY DEF ChildFails, Err
  <2> QED BY <1>1, <1>3, <2>1, ChildExecutes
<1>5. \/ snip' = committed'.snip
      \/ \E id \in TokenId \cup {Len(committed.snip.tokens)}, owner \in Address :
           MintedBy(tx.sender, id, owner, committed.snip, snip')
      \/ AdministeredBy(tx.sender, committed.snip, snip')
  <2>1. CASE tx.body.tag = "mint_nft" /\ ChildMints(tx.sender, tx.body)
    <3>1. /\ tx.body.owner \in Address
          /\ S!NewId(tx.body.token_id) \in TokenId \cup {Len(snip.tokens)}
      BY <1>3, <2>1, BodyFields, NewIdIsNumber
    <3> QED BY <1>3, <2>1, <3>1 DEF ChildMints
  <2>2. CASE AdministeredBy(tx.sender, snip, snip')
    BY <1>3, <2>2
  <2>3. CASE /\ tx.body.tag = "migration_complete_notification"
             /\ ChildUpdates(tx.sender, tx.body.to)
    <3>1. /\ Contract(DEALER, committed.codeHash[DEALER]) \in ContractInfo
          /\ Contract(DEALER, committed.codeHash[DEALER]).address = DEALER
      BY LinkedTypes, ContractsDiffer DEF Contract, ContractInfo
    <3>2. UpdateSubscriber(snip.subscribers, tx.sender, tx.body.to) = snip.subscribers
      BY <1>3, <3>1, UpdateOfOther
    <3>3. snip' = snip
      BY <1>3, <2>3, <3>2 DEF ChildUpdates, Snip721Storage
    <3> QED BY <1>1, <1>3, <3>3
  <2> QED BY <1>1, <1>3, <1>4, <2>1, <2>2, <2>3, ChildExecutes DEF ChildRegisters
<1>6. pending' = << >>
  <2>1. response'.msgs = << >>
    BY <1>4 DEF Ok
  <2> QED BY <2>1, CallItem, NothingNext DEF ExecuteSnip721
<1> QED BY <1>1, <1>2, <1>5, <1>6 DEF ChildCalled

\* The listener is asked to follow a contract, and registers with it.
LEMMA ListenerIsCalled ==
  ASSUME TypeOK, Linked(committed), tx.kind = "execute", CallSubmitted,
         tx.contract = EXT, ExecuteExt, response'.ok
  PROVE  Followed'
<1>1. PICK c \in {DEALER, SNIP} : tx.body = FollowMsg(Current(c))
  BY DEF CallSubmitted
<1> DEFINE registration == WasmExecute(Current(c), SubscribeMsg(Current(EXT)))
<1>2. /\ Msg.body.tag = "follow" /\ Msg.body.contract = Current(c)
      /\ Current(c).address = c /\ Current(c).code_hash = codeHash[c]
  BY <1>1, CallItem DEF FollowMsg, Current, Contract
<1>3. /\ heard' = [heard EXCEPT ![c] = codeHash[c]]
      /\ response' = Ok(<< registration >>)
      /\ Schedule(EXT, << >>)
      /\ UNCHANGED <<dealer, snip, codeHash, wasmAdmin, bank, tx, committed>>
  BY <1>2 DEF ExecuteExt, chain
<1> HIDE DEF registration
<1>4. response' \in Response
  <2>1. TypeOK'
    BY ExecuteExtTypes
  <2> QED BY <2>1 DEF TypeOK
<1>5. pending' = << Item(EXT, {}, registration) >>
  <2>1. Item(EXT, {}, registration) \in Items
    BY <1>3, <1>4, ResponseItems, ContractsDiffer
  <2>2. response'.msgs = << registration >>
    BY <1>3 DEF Ok
  <2> QED BY <1>3, <2>1, <2>2, CallItem, OneNext
<1>6. registration = WasmExecute(Current(c)', SubscribeMsg(Current(EXT)'))
  BY <1>3 DEF registration, Current
<1> QED BY <1>3, <1>5, <1>6, CallItem DEF Followed, CodeUnchanged

\* The dealer passes the coins on to its admin.
LEMMA SaleIsPaid ==
  ASSUME TypeOK, Linked(committed), tx.kind = "execute", SaleAgreed, RunBankSend,
         response'.ok
  PROVE  SalePaid'
<1>1. /\ Item1 = Item(DEALER, {}, BankSend(dealer.admin, tx.funds))
      /\ Msg = BankSend(dealer.admin, tx.funds) /\ Tail(pending) = << MintItem >>
  BY NextOfTwo DEF SaleAgreed, Item
<1>2. Item1.from = DEALER /\ Msg.to_address = dealer.admin /\ Msg.amount = tx.funds
  BY <1>1 DEF Item, BankSend
<1>3. /\ bank' = Transfer(bank, DEALER, dealer.admin, tx.funds)
      /\ pending' = Tail(pending)
      /\ UNCHANGED <<dealer, snip, codeHash, wasmAdmin, heard, tx, committed>>
  BY <1>2 DEF RunBankSend, Refuse, Err, outside
<1>4. /\ Affords(committed.bank, tx.sender, tx.funds)
      /\ bank = Transfer(committed.bank, tx.sender, DEALER, tx.funds)
      /\ dealer = committed.dealer
  BY DEF SaleAgreed, Sale, Paid
<1>5. bank' = Transfer(committed.bank, tx.sender, dealer.admin, tx.funds)
  BY <1>3, <1>4, CallTypes, LinkedTypes, TransferTwice, ContractsDiffer
<1>6. Sale' /\ MintItem' = MintItem /\ Paid(dealer.admin)' /\ snip' = committed'.snip
  BY <1>3, <1>4, <1>5
     DEF SaleAgreed, Sale, IsPurchase, CodeUnchanged, Paid, MintItem, Current
<1> QED BY <1>1, <1>3, <1>6 DEF SalePaid

MintFields(body) ==
  /\ body.tag = "mint_nft" /\ body.token_id = Unset
  /\ body.owner = tx.sender /\ body.metadata = dealer.metadata

\* The body of the message by which the dealer mints.
LEMMA SaleBody ==
  ASSUME TypeOK, Linked(committed), tx.kind = "execute", SalePaid
  PROVE  /\ MintNft(Unset, tx.sender, dealer.metadata) \in Bodies
         /\ MintFields(MintNft(Unset, tx.sender, dealer.metadata))
<1>1. tx.sender \in Address /\ dealer.metadata \in Metadata
  BY CallTypes DEF SalePaid, Sale, Linked
<1> QED BY <1>1 DEF MintNft, MintFields, ExecuteBody, Bodies

\* The sale ends with the mint.
LEMMA SaleIsDone ==
  ASSUME TypeOK, Linked(committed), tx.kind = "execute", SalePaid, ExecuteSnip721,
         response'.ok
  PROVE  SaleDone'
<1>1. /\ Item1 = MintItem /\ pending # << >> /\ Tail(pending) = << >>
      /\ pending \in Seq(Items)
  BY NextItem, StateTypes DEF SalePaid
<1> DEFINE body == MintNft(Unset, tx.sender, dealer.metadata)
<1>2. Item1.from = DEALER /\ Item1.funds = {} /\ Msg.body = body
  BY <1>1 DEF MintItem, Item, WasmExecute, Item1, Msg
<1>3. body \in Bodies /\ MintFields(body)
  BY SaleBody
<1> HIDE DEF body
<1>4. /\ response' = Ok(<< >>) /\ dealer.metadata # "both_forms"
      /\ MintedBy(DEALER, Len(snip.tokens), tx.sender, snip, snip')
  <2>1. S!Execute(DEALER, body) /\ ~ChildFails
    BY <1>2 DEF ExecuteSnip721, ChildFails, Err
  <2>2. response' = Ok(<< >>) /\ ChildMints(DEALER, body)
    BY <1>3, <2>1, ChildExecutes, StateTypes, ContractsDiffer DEF MintFields
  <2> QED BY <1>3, <2>2, NewIdIsNumber, StateTypes DEF ChildMints, MintFields
<1>5. bank' = bank
  <2>1. bank' = Transfer(bank, DEALER, SNIP, {})
    BY <1>2 DEF ExecuteSnip721, Pay
  <2> QED BY <2>1, TransferNothing, StateTypes, ContractsDiffer
<1>6. pending' = << >>
  <2>1. response'.msgs = << >>
    BY <1>4 DEF Ok
  <2> QED BY <1>1, <2>1, NothingNext DEF ExecuteSnip721
<1>7. UNCHANGED <<dealer, codeHash, wasmAdmin, heard, tx, committed>>
  BY DEF ExecuteSnip721, outside
<1>8. Sale' /\ Paid(dealer.admin)'
  BY <1>5, <1>7 DEF SalePaid, Sale, IsPurchase, CodeUnchanged, Paid
<1>9. /\ MintedBy(DEALER, Len(committed.snip.tokens), tx.sender, committed.snip, snip)'
      /\ dealer'.metadata # "both_forms"
  BY <1>4, <1>7 DEF SalePaid, MintedBy
<1> QED BY <1>6, <1>8, <1>9 DEF SaleDone

\* The listener's registration: the dealer accepts it, the child has no slot.
LEMMA ListenerIsRegistered ==
  ASSUME TypeOK, Linked(committed), tx.kind = "execute", Followed, pending # << >>,
         ~AtRest, response.ok, ChainStep, response'.ok
  PROVE  ExecuteDealer /\ Followed'
<1>1. PICK c \in {DEALER, SNIP} :
        /\ heard = [committed.heard EXCEPT ![c] = codeHash[c]]
        /\ dealer = committed.dealer
        /\ pending = << Item(EXT, {}, WasmExecute(Current(c), SubscribeMsg(Current(EXT)))) >>
  BY DEF Followed
<1>2. /\ CodeUnchanged /\ bank = committed.bank /\ snip = committed.snip
      /\ tx.contract = EXT
  BY DEF Followed
<1> DEFINE item == Item(EXT, {}, WasmExecute(Current(c), SubscribeMsg(Current(EXT))))
<1>3. /\ Item1 = item /\ Tail(pending) = << >> /\ pending \in Seq(Items)
      /\ pending[1] \in Items /\ Item1 = pending[1] /\ Msg = Item1.msg
  <2> HIDE DEF item
  <2> QED BY <1>1, NextItem, StateTypes, PendingItems DEF item
<1>4. /\ Item1.from = EXT /\ Item1.funds = {} /\ Msg.type = "execute"
      /\ Msg.contract.address = c /\ Msg.body = SubscribeMsg(Current(EXT))
      /\ Msg.body.tag = "subscribe_to_migration_complete_event"
      /\ Msg.body.contract = Current(EXT)
  BY <1>3 DEF Item, WasmExecute, SubscribeMsg, Current, Contract
<1>5. Msg.body \in Bodies
  <2>1. Msg \in ChainMsg
    BY <1>3 DEF Items
  <2> QED BY <1>4, <2>1, MsgFields
<1> HIDE DEF item
<1>6. c = DEALER
  <2> SUFFICES ASSUME c = SNIP PROVE FALSE
    OBVIOUS
  <2>1. ExecuteSnip721
    BY <1>4, DeliveredToChild
  <2>2. S!Execute(EXT, Msg.body) /\ ~ChildFails
    BY <1>4, <2>1 DEF ExecuteSnip721, ChildFails, Err
  <2>3. snip.slots > 0
    BY <1>4, <1>5, <2>2, ChildExecutes, StateTypes, ContractsDiffer DEF ChildRegisters
  <2> QED BY <1>2, <2>3 DEF Linked, KnowsDealer
<1>7. ExecuteDealer
  BY <1>4, <1>6, DeliveredToDealer
<1>8. DealerRegisters(Current(EXT))
  <2>1. D!Execute(EXT, {}, Msg.body) /\ ~DealerFails
    BY <1>4, <1>7 DEF ExecuteDealer, DealerFails, Err
  <2> QED BY <1>4, <1>5, <2>1, DealerExecutes, StateTypes
<1>9. bank' = bank
  <2>1. bank' = Transfer(bank, EXT, DEALER, {})
    BY <1>4, <1>7 DEF ExecuteDealer, Pay
  <2> QED BY <2>1, TransferNothing, StateTypes, ContractsDiffer
<1>10. pending' = << >>
  <2>1. response'.msgs = << >>
    BY <1>8 DEF DealerRegisters, Ok
  <2> QED BY <1>3, <1>7, <2>1, NothingNext DEF ExecuteDealer
<1>11. UNCHANGED <<snip, codeHash, wasmAdmin, heard, tx, committed>>
  BY <1>7 DEF ExecuteDealer, outside
<1>12. RegisteredWithDealer(Current(EXT))'
  BY <1>1, <1>8, <1>11, LinkedTypes
     DEF DealerRegisters, RegisteredWithDealer, DealerStorage, Current
<1> QED BY <1>1, <1>2, <1>6, <1>7, <1>9, <1>10, <1>11, <1>12 DEF Followed, CodeUnchanged

\* Between its start and its end a call goes from stage to stage.
LEMMA CallGoesOn ==
  ASSUME TypeOK, Calling, tx.kind = "execute", ChainStep, ~AtRest, response.ok,
         pending # << >>, response'.ok
  PROVE  Calling' /\ TypeOK'
<1>1. Linked(committed)
  BY DEF Calling
<1>2. ASSUME UNCHANGED <<tx, committed, codeHash>>,
             (\/ SaleAgreed \/ SalePaid \/ SaleDone
              \/ DealerCalled \/ ChildCalled \/ Followed)'
      PROVE  Calling'
  BY <1>2 DEF Calling
<1>3. CASE CallSubmitted
  <2>1. /\ Msg.type = "execute" /\ Msg.contract.address = tx.contract
        /\ tx.contract \in {DEALER, SNIP, EXT} /\ dealer = committed.dealer
    BY <1>3, CallItem, CallTypes
  <2>2. CASE tx.contract = DEALER
    <3>1. ExecuteDealer
      BY <2>1, <2>2, DeliveredToDealer
    <3>2. SaleAgreed' \/ DealerCalled'
      BY <1>1, <1>3, <2>2, <3>1, DealerIsCalled
    <3>3. TypeOK'
      BY <1>1, <2>1, <3>1, LinkedTypes, ExecuteDealerTypes
    <3> QED BY <1>2, <3>1, <3>2, <3>3 DEF ExecuteDealer, outside
  <2>3. CASE tx.contract = SNIP
    <3>1. ExecuteSnip721
      BY <2>1, <2>3, DeliveredToChild
    <3>2. ChildCalled'
      BY <1>1, <1>3, <2>3, <3>1, ChildIsCalled
    <3> QED BY <1>2, <3>1, <3>2, ExecuteSnip721Types DEF ExecuteSnip721, outside
  <2>4. CASE tx.contract = EXT
    <3>1. ExecuteExt
      BY <2>1, <2>4, DeliveredToListener
    <3>2. Followed'
      BY <1>1, <1>3, <2>4, <3>1, ListenerIsCalled
    <3> QED BY <1>2, <3>1, <3>2, ExecuteExtTypes DEF ExecuteExt, chain
  <2> QED BY <2>1, <2>2, <2>3, <2>4
<1>4. CASE SaleAgreed
  <2>1. Msg.type = "bank_send"
    BY <1>4, NextOfTwo DEF SaleAgreed, Item, BankSend
  <2>2. RunBankSend
    BY <2>1, NextStep
  <2>3. SalePaid'
    BY <1>1, <1>4, <2>2, SaleIsPaid
  <2>4. UNCHANGED <<tx, committed, codeHash>>
    BY <2>2 DEF RunBankSend, Refuse, Err, outside
  <2> QED BY <1>2, <2>2, <2>3, <2>4, RunBankSendTypes
<1>5. CASE SalePaid
  <2>1. Msg.type = "execute" /\ Msg.contract.address = SNIP
    BY <1>5, NextItem DEF SalePaid, MintItem, Item, WasmExecute, Current, Contract
  <2>2. ExecuteSnip721
    BY <2>1, DeliveredToChild
  <2>3. SaleDone'
    BY <1>1, <1>5, <2>2, SaleIsDone
  <2> QED BY <1>2, <2>2, <2>3, ExecuteSnip721Types DEF ExecuteSnip721, outside
<1>6. CASE Followed
  <2>1. ExecuteDealer /\ Followed'
    BY <1>1, <1>6, ListenerIsRegistered
  <2>2. dealer = committed.dealer
    BY <1>6 DEF Followed
  <2>3. TypeOK'
    BY <1>1, <2>1, <2>2, LinkedTypes, ExecuteDealerTypes
  <2> QED BY <1>2, <2>1, <2>3 DEF ExecuteDealer, outside
<1> QED BY <1>3, <1>4, <1>5, <1>6 DEF Calling, SaleDone, DealerCalled, ChildCalled

\* The dealer's own tokens have smaller ids than the next one will get: what
\* takes that id is somebody else's.
LEMMA IndexIsFree ==
  ASSUME committed.snip \in Snip721Storage, Counted(committed.snip.tokens), ~IndexTaken,
         NEW i \in DOMAIN committed.snip.tokens
  PROVE  committed.snip.tokens[i].id # Len(committed.snip.tokens)
<1> DEFINE tokens == committed.snip.tokens
<1>1. tokens \in Seq(S!Token)
  BY DEF Snip721Storage
<1>2. CASE tokens[i].minter = DEALER
  <2>1. tokens[i].id = i - 1
    BY <1>2 DEF Counted
  <2> HIDE DEF tokens
  <2>2. i \in Nat /\ i <= Len(tokens) /\ Len(tokens) \in Nat
    BY <1>1, LenProperties DEF tokens
  <2> QED BY <2>1, <2>2 DEF tokens
<1>3. CASE tokens[i].minter # DEALER
  BY <1>3 DEF IndexTaken
<1> QED BY <1>2, <1>3

\* A buyer who pays a listed price, when no other minter's token has the next
\* id, gets through each stage of the sale.
LEMMA SaleNeverFails ==
  ASSUME TypeOK, Calling, tx.kind = "execute", ChainStep, ~AtRest, response.ok,
         pending # << >>, RightlyPaid, OpenForSale, ~IndexTaken
  PROVE  response'.ok
<1>1. Linked(committed) /\ tx.contract = DEALER
  BY DEF Calling, RightlyPaid, IsPurchase
<1>2. CASE CallSubmitted
  <2>1. Reaches(DEALER) /\ Msg.type = "execute" /\ Msg.contract.address = DEALER
    BY <1>1, <1>2, CallItem DEF Reaches, RightlyPaid
  <2>2. ExecuteDealer
    BY <2>1, NextStep, NextContract, ContractsDiffer DEF ExecuteRefused
  <2>3. D!Execute(tx.sender, tx.funds, tx.body)
    BY <1>2, <2>2, CallItem DEF ExecuteDealer
  <2>4. D!CanPurchase(tx.funds) /\ tx.body.tag = "purchase_mint"
    BY <1>1, <1>2, CallItem, LinkedTypes DEF D!CanPurchase, RightlyPaid, IsPurchase
  <2>5. DealerSells(tx.sender, tx.funds)
    BY <2>3, <2>4, CallTypes, DealerExecutes, StateTypes
  <2> QED BY <2>5 DEF DealerSells, Ok
<1>3. CASE SaleAgreed
  <2>1. /\ Msg.type = "bank_send" /\ Msg.amount = tx.funds /\ Item1.from = DEALER
    BY <1>3, NextOfTwo DEF SaleAgreed, Item, BankSend
  <2>2. RunBankSend
    BY <2>1, NextStep
  <2>3. Affords(bank, DEALER, tx.funds)
    <3>1. bank = Transfer(committed.bank, tx.sender, DEALER, tx.funds)
      BY <1>3 DEF SaleAgreed, Paid
    <3> QED BY <1>1, <3>1, CallTypes, LinkedTypes, ReceivedIsOwned, ContractsDiffer
            DEF RightlyPaid
  <2> QED BY <2>1, <2>2, <2>3 DEF RunBankSend, Ok
<1>4. CASE SalePaid
  <2> DEFINE body == MintNft(Unset, tx.sender, dealer.metadata)
  <2>1. /\ Item1 = MintItem /\ Msg = WasmExecute(Current(SNIP), body)
    BY <1>4, NextItem DEF SalePaid, MintItem, Item
  <2>2. /\ Item1.from = DEALER /\ Item1.funds = {} /\ Msg.body = body
        /\ Msg.type = "execute" /\ Msg.contract = Current(SNIP)
        /\ Msg.contract.address = SNIP
    BY <2>1 DEF MintItem, Item, WasmExecute, Current, Contract
  <2>3. body \in Bodies /\ MintFields(body)
    BY <1>1, <1>4, SaleBody
  <2> HIDE DEF body
  <2>4. Reaches(SNIP)
    BY <2>2, NothingIsOwned DEF Reaches
  <2>5. ExecuteSnip721
    BY <2>2, <2>4, NextStep, NextContract, ContractsDiffer DEF ExecuteRefused
  <2>6. S!Execute(DEALER, body)
    BY <2>2, <2>5 DEF ExecuteSnip721
  <2>7. S!CanMint(DEALER, body)
    <3>1. /\ snip = committed.snip /\ dealer.metadata = committed.dealer.metadata
      BY <1>4 DEF SalePaid, Sale
    <3>2. S!NewId(body.token_id) = Len(committed.snip.tokens)
      BY <2>3, <3>1, NewIdIsNumber, StateTypes DEF MintFields
    <3>3. Len(committed.snip.tokens) \notin S!IdsInUse
      BY <1>1, <3>1, IndexIsFree, LinkedTypes DEF S!IdsInUse, Linked
    <3> QED BY <2>3, <3>1, <3>2, <3>3 DEF S!CanMint, OpenForSale, MintFields
  <2>8. response' = Ok(<< >>)
    BY <2>3, <2>6, <2>7, ChildExecutes, StateTypes, ContractsDiffer DEF MintFields
  <2> QED BY <2>8 DEF Ok
<1> QED BY <1>1, <1>2, <1>3, <1>4, ContractsDiffer
       DEF Calling, SaleDone, DealerCalled, ChildCalled, Followed
=============================================================================
