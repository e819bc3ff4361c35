---------------------------- MODULE Dealer_proofs ----------------------------
(***************************************************************************)
(* The dealer, under an arbitrary chain and for all constants: its types,  *)
(* and that its child is always among the contracts it notifies.           *)
(***************************************************************************)
EXTENDS Dealer, MigratableStd_proofs

-----------------------------------------------------------------------------
(* Type correctness. *)

\* A handler that fails stores nothing.
LEMMA FailKeepsTypes == TypeOK /\ Fail => TypeOK'
  BY EmptyResponses DEF TypeOK, Fail, Instantiated

\* The instantiation stores and returns what is well typed.
LEMMA InstantiateTypes ==
  ASSUME TypeOK, NEW sender \in Address, NEW msg \in InstantiateMsg,
         Instantiate(sender, msg)
  PROVE  TypeOK'
<1>1. CASE CanInstantiate(sender, msg) /\
           Succeed(NewStorage(TrueAdmin(sender, msg), msg),
                   << InstantiateChild(TrueAdmin(sender, msg), msg) >>)
  <2> DEFINE admin == TrueAdmin(sender, msg)
             child == InstantiateChild(admin, msg)
  <2>1. /\ admin \in Address
        /\ msg.prices \in Seq(Coin)
        /\ msg.metadata \in Metadata
        /\ msg.royalty_info \in RoyaltyInfo
        /\ msg.snip721_code_hash \in Hash
        /\ msg.snip721_code_id \in Hash
    BY <1>1, PriceListsAreLists DEF CanInstantiate, InstantiateMsg
  <2>2. child \in SubMsg
    BY <2>1, SelfIsAnAddress
       DEF InstantiateChild, WasmInstantiate, Snip721Instantiate, SubMsg,
           Snip721InstantiateMsg, INSTANTIATE_SNIP721_REPLY_ID
  <2>3. response' \in Response
    BY <1>1, <2>2, ShortResponses DEF Succeed
  <2>4. dealer' = [admin |-> admin, prices |-> msg.prices, metadata |-> msg.metadata,
                   child_code_hash |-> msg.snip721_code_hash,
                   child_address |-> Unset, subscribers |-> << >>]
    BY <1>1 DEF Succeed, Blank, NewStorage
  <2>5. << >> \in Seq(ContractInfo)
    BY EmptySeq
  <2> HIDE DEF admin, child
  <2> QED BY <2>1, <2>3, <2>4, <2>5 DEF TypeOK
<1>2. CASE ~CanInstantiate(sender, msg) /\ Fail
  BY <1>2, FailKeepsTypes
<1> QED BY <1>1, <1>2 DEF Instantiate

\* So does the reply.
LEMMA ReplyTypes ==
  ASSUME TypeOK, Instantiated, NEW id, NEW child \in Address, NEW h \in Hash,
         Reply(id, child, h)
  PROVE  TypeOK'
<1> DEFINE c == Contract(child, dealer.child_code_hash)
<1>1. CASE OnInstantiatedSnip721(child, h)
  <2>1. /\ c \in ContractInfo
        /\ Contract(Self, h) \in ContractInfo
        /\ dealer.admin \in Address
    BY SelfIsAnAddress DEF TypeOK, Instantiated, Contract, ContractInfo
  <2>2. /\ WasmExecute(c, SubscribeMsg(Contract(Self, h))) \in SubMsg
        /\ WasmExecute(c, ChangeAdmin(dealer.admin)) \in SubMsg
    BY <2>1 DEF WasmExecute, SubscribeMsg, ChangeAdmin, SubMsg, ExecuteBody
  <2>3. response' \in Response
    <3>1. response' = Ok(HandshakeMsgs(c, h))
      BY <1>1 DEF OnInstantiatedSnip721, Succeed
    <3> QED BY <2>2, <3>1, ShortResponses DEF HandshakeMsgs
  <2>4. AddSubscriber(dealer.subscribers, c) \in Seq(ContractInfo)
    BY <2>1, AddSubscriberProperties DEF TypeOK
  <2>5. dealer' = [dealer EXCEPT !.child_address = child,
                                 !.subscribers = AddSubscriber(dealer.subscribers, c)]
    BY <1>1 DEF OnInstantiatedSnip721, Succeed, TypeOK
  <2> HIDE DEF c
  <2> QED BY <2>3, <2>4, <2>5 DEF TypeOK, Instantiated
<1>2. CASE id # INSTANTIATE_SNIP721_REPLY_ID /\ Fail
  BY <1>2, FailKeepsTypes
<1> QED BY <1>1, <1>2 DEF Reply

\* So does a purchase.
LEMMA PurchaseTypes ==
  ASSUME TypeOK, Instantiated, NEW sender \in Address, NEW funds \in Funds,
         PurchaseAndMint(sender, funds)
  PROVE  TypeOK'
<1>1. CASE CanPurchase(funds) /\ Succeed(dealer, PurchaseMsgs(sender, funds))
  <2>1. /\ Child \in ContractInfo
        /\ dealer.admin \in Address
        /\ dealer.metadata \in Metadata
        /\ funds \in SUBSET Coin
    BY <1>1 DEF TypeOK, Instantiated, CanPurchase, Child, Contract, ContractInfo, Funds
  <2>2. /\ BankSend(dealer.admin, funds) \in SubMsg
        /\ MintFor(sender) \in SubMsg
    BY <2>1 DEF MintFor, WasmExecute, BankSend, MintNft, SubMsg, ExecuteBody
  <2>3. response' \in Response
    BY <1>1, <2>2, ShortResponses DEF Succeed, PurchaseMsgs
  <2> QED BY <1>1, <2>3 DEF TypeOK, Succeed, Instantiated
<1>2. CASE ~CanPurchase(funds) /\ Fail
  BY <1>2, FailKeepsTypes
<1> QED BY <1>1, <1>2 DEF PurchaseAndMint

\* A contract whose address was accepted is a contract.
LEMMA ValidContract ==
  ASSUME NEW c \in AnyContract, IsValid(c)
  PROVE  c \in ContractInfo
BY DEF AnyContract, IsValid, ContractInfo

\* So does a registration.
LEMMA SubscribeTypes ==
  ASSUME TypeOK, NEW c \in AnyContract, Subscribe(c)
  PROVE  TypeOK'
<1>1. CASE IsValid(c) /\
           Succeed([dealer EXCEPT !.subscribers = AddSubscriber(@, c)], << >>)
  <2>1. AddSubscriber(dealer.subscribers, c) \in Seq(ContractInfo)
    BY <1>1, ValidContract, AddSubscriberProperties DEF TypeOK
  <2>2. response' \in Response
    BY <1>1, EmptyResponses DEF Succeed
  <2>3. dealer' = [dealer EXCEPT !.subscribers = AddSubscriber(dealer.subscribers, c)]
    BY <1>1 DEF Succeed, TypeOK
  <2> QED BY <2>1, <2>2, <2>3 DEF TypeOK, Instantiated
<1>2. CASE ~IsValid(c) /\ Fail
  BY <1>2, FailKeepsTypes
<1> QED BY <1>1, <1>2 DEF Subscribe

\* So does the child's notification.
LEMMA UpdateChildTypes ==
  ASSUME TypeOK, NEW sender \in Address, NEW to \in AnyContract,
         UpdateChildSnip721(sender, to)
  PROVE  TypeOK'
<1>1. CASE /\ CanUpdateChild(sender, to)
           /\ Succeed([dealer EXCEPT !.child_address = to.address,
                                     !.child_code_hash = to.code_hash,
                                     !.subscribers = UpdateSubscriber(@, sender, to)],
                      << >>)
  <2>1. to \in ContractInfo
    BY <1>1, ValidContract DEF CanUpdateChild
  <2>2. UpdateSubscriber(dealer.subscribers, sender, to) \in Seq(ContractInfo)
    BY <2>1, UpdateSubscriberType DEF TypeOK
  <2>3. response' \in Response
    BY <1>1, EmptyResponses DEF Succeed
  <2>4. dealer' = [dealer EXCEPT !.child_address = to.address,
                     !.child_code_hash = to.code_hash,
                     !.subscribers = UpdateSubscriber(dealer.subscribers, sender, to)]
    BY <1>1 DEF Succeed, TypeOK
  <2> QED BY <2>1, <2>2, <2>3, <2>4 DEF TypeOK, ContractInfo, Instantiated
<1>2. CASE ~CanUpdateChild(sender, to) /\ Fail
  BY <1>2, FailKeepsTypes
<1> QED BY <1>1, <1>2 DEF UpdateChildSnip721

\* So does the migration.
LEMMA MigrateTypes ==
  ASSUME TypeOK, NEW h \in Hash, Migrate(h)
  PROVE  TypeOK'
<1>1. Contract(Self, h) \in ContractInfo
  BY SelfIsAnAddress DEF Contract, ContractInfo
<1>2. Broadcast(dealer.subscribers, Contract(Self, h)) \in Seq(SubMsg)
  BY <1>1, BroadcastType DEF TypeOK
<1> QED BY <1>2 DEF Migrate, Succeed, Ok, Response, TypeOK, Instantiated

\* The messages a chain may deliver, by their tag.
LEMMA MessageFields ==
  ASSUME NEW msg \in AnyMsg
  PROVE  /\ msg.tag = "subscribe_to_migration_complete_event" => msg.contract \in AnyContract
         /\ msg.tag = "migration_complete_notification" => msg.to \in AnyContract
BY DEF AnyMsg, SubscribeMsg, NotificationMsg

\* The storage and the responses of the dealer keep their types: in
\* particular no malformed address is ever stored or sent to.
THEOREM TypeCorrect == Spec => []TypeOK
<1>1. Init => TypeOK
  BY EmptyResponses, EmptySeq DEF Init, TypeOK, Blank, Instantiated
<1>2. TypeOK /\ [Next]_vars => TypeOK'
  <2> SUFFICES ASSUME TypeOK, [Next]_vars PROVE TypeOK'
    OBVIOUS
  <2>1. CASE DoInstantiate
    BY <2>1, InstantiateTypes DEF DoInstantiate
  <2>2. CASE DoReply
    BY <2>2, ReplyTypes DEF DoReply
  <2>3. CASE DoExecute
    <3>1. PICK sender \in Address, funds \in Funds, msg \in AnyMsg :
             Execute(sender, funds, msg)
      BY <2>3 DEF DoExecute
    <3>2. Instantiated
      BY <2>3 DEF DoExecute
    <3>3. CASE PurchaseAndMint(sender, funds)
      BY <3>2, <3>3, PurchaseTypes
    <3>4. CASE msg.tag = "subscribe_to_migration_complete_event" /\ Subscribe(msg.contract)
      BY <3>4, MessageFields, SubscribeTypes
    <3>5. CASE msg.tag = "migration_complete_notification" /\ UpdateChildSnip721(sender, msg.to)
      BY <3>5, MessageFields, UpdateChildTypes
    <3>6. CASE Fail
      BY <3>6, FailKeepsTypes
    <3> QED BY <3>1, <3>3, <3>4, <3>5, <3>6 DEF Execute
  <2>4. CASE DoMigrate
    BY <2>4, MigrateTypes DEF DoMigrate
  <2>5. CASE UNCHANGED vars
    BY <2>5 DEF vars, TypeOK, Instantiated
  <2> QED BY <2>1, <2>2, <2>3, <2>4, <2>5 DEF Next
<1> QED BY <1>1, <1>2, PTL DEF Spec

-----------------------------------------------------------------------------
(* The child is subscribed. *)

\* The reply puts the child on the dealer's list.
LEMMA ReplySubscribes ==
  ASSUME TypeOK, Instantiated, NEW child \in Address, NEW h,
         OnInstantiatedSnip721(child, h)
  PROVE  ChildIsSubscribed'
<1> DEFINE c == Contract(child, dealer.child_code_hash)
<1>1. c \in ContractInfo
  BY DEF TypeOK, Instantiated, Contract, ContractInfo
<1>2. dealer' = [dealer EXCEPT !.child_address = child,
                               !.subscribers = AddSubscriber(dealer.subscribers, c)]
  BY DEF OnInstantiatedSnip721, Succeed, TypeOK
<1>3. dealer'.subscribers = AddSubscriber(dealer.subscribers, c) /\ Child' = c
  BY <1>2 DEF TypeOK, Child
<1> HIDE DEF c
<1> QED BY <1>1, <1>3, AddSubscriberProperties DEF ChildIsSubscribed, TypeOK

\* A registration leaves the child on the list.
LEMMA SubscribeKeepsChild ==
  ASSUME TypeOK, ChildIsSubscribed, NEW c \in AnyContract, IsValid(c),
         Succeed([dealer EXCEPT !.subscribers = AddSubscriber(@, c)], << >>)
  PROVE  ChildIsSubscribed'
<1>1. dealer' = [dealer EXCEPT !.subscribers = AddSubscriber(dealer.subscribers, c)]
  BY DEF Succeed, TypeOK
<1>2. /\ dealer'.child_address = dealer.child_address
      /\ Child' = Child
      /\ dealer'.subscribers = AddSubscriber(dealer.subscribers, c)
  BY <1>1 DEF TypeOK, Child
<1>3. Range(dealer.subscribers) \subseteq Range(dealer'.subscribers)
  BY <1>2, ValidContract, AddSubscriberProperties DEF TypeOK
<1> QED BY <1>2, <1>3 DEF ChildIsSubscribed

\* The child's notification moves the child's entry to its new code.
LEMMA UpdateMovesEntry ==
  ASSUME TypeOK, ChildIsSubscribed, NEW sender \in Address, NEW to \in AnyContract,
         CanUpdateChild(sender, to),
         Succeed([dealer EXCEPT !.child_address = to.address,
                                !.child_code_hash = to.code_hash,
                                !.subscribers = UpdateSubscriber(@, sender, to)],
                 << >>)
  PROVE  ChildIsSubscribed'
<1>1. to \in ContractInfo
  BY ValidContract DEF CanUpdateChild
<1>2. Child \in Range(dealer.subscribers) /\ Child.address = sender
  BY DEF ChildIsSubscribed, CanUpdateChild, Child, Contract
<1>3. to \in Range(UpdateSubscriber(dealer.subscribers, sender, to))
  BY <1>1, <1>2, UpdateSubscriberReplaces DEF TypeOK
<1>4. dealer' = [dealer EXCEPT !.child_address = to.address,
                   !.child_code_hash = to.code_hash,
                   !.subscribers = UpdateSubscriber(dealer.subscribers, sender, to)]
  BY DEF Succeed, TypeOK
<1>5. /\ dealer'.subscribers = UpdateSubscriber(dealer.subscribers, sender, to)
      /\ Child' = to
  BY <1>1, <1>4 DEF TypeOK, Child, Contract, ContractInfo
<1> QED BY <1>3, <1>5 DEF ChildIsSubscribed

\* Whatever calls arrive, in whatever order and from whomever, the dealer's
\* reference to its child and its list of subscribers agree.  The invariant
\* needs the types: an entry is found by its address, and only a well formed
\* list has a first one.
THEOREM ChildAlwaysSubscribed == Spec => []ChildIsSubscribed
<1>1. Init => ChildIsSubscribed
  BY DEF Init, ChildIsSubscribed, Blank
<1>2. TypeOK /\ ChildIsSubscribed /\ [Next]_vars => ChildIsSubscribed'
  <2> SUFFICES ASSUME TypeOK, ChildIsSubscribed, [Next]_vars
               PROVE  ChildIsSubscribed'
    OBVIOUS
  <2>1. ASSUME dealer' = dealer PROVE ChildIsSubscribed'
    BY <2>1 DEF ChildIsSubscribed, Child
  <2>2. CASE DoInstantiate
    <3>1. CASE dealer' = dealer
      BY <2>1, <3>1
    <3>2. CASE dealer' # dealer
      <4>1. PICK sender \in Address, msg \in InstantiateMsg : Instantiate(sender, msg)
        BY <2>2 DEF DoInstantiate
      <4>2. dealer'.child_address = Unset
        BY <3>2, <4>1 DEF Instantiate, Succeed, Fail, Blank, NewStorage
      <4> QED BY <4>2 DEF ChildIsSubscribed
    <3> QED BY <3>1, <3>2
  <2>3. CASE DoReply
    BY <2>1, <2>3, ReplySubscribes DEF DoReply, Reply, Fail
  <2>4. CASE DoExecute
    <3>1. PICK sender \in Address, funds \in Funds, msg \in AnyMsg :
             Execute(sender, funds, msg)
      BY <2>4 DEF DoExecute
    <3>2. CASE PurchaseAndMint(sender, funds) \/ Fail
      BY <2>1, <3>2 DEF PurchaseAndMint, Succeed, Fail
    <3>3. CASE msg.tag = "subscribe_to_migration_complete_event" /\ Subscribe(msg.contract)
      BY <2>1, <3>3, MessageFields, SubscribeKeepsChild DEF Subscribe, Fail
    <3>4. CASE msg.tag = "migration_complete_notification" /\ UpdateChildSnip721(sender, msg.to)
      BY <2>1, <3>4, MessageFields, UpdateMovesEntry DEF UpdateChildSnip721, Fail
    <3> QED BY <3>1, <3>2, <3>3, <3>4 DEF Execute
  <2>5. CASE DoMigrate
    BY <2>1, <2>5 DEF DoMigrate, Migrate, Succeed
  <2>6. CASE UNCHANGED vars
    BY <2>1, <2>6 DEF vars
  <2> QED BY <2>2, <2>3, <2>4, <2>5, <2>6 DEF Next
<1> QED BY <1>1, <1>2, TypeCorrect, PTL DEF Spec
==============================================================================
