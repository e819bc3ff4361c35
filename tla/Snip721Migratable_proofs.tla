---------------------- MODULE Snip721Migratable_proofs ----------------------
(***************************************************************************)
(* The token contract, under an arbitrary chain and for all constants: its *)
(* types, and that the limit on its subscribers is never exceeded.         *)
(***************************************************************************)
EXTENDS Snip721Migratable, MigratableStd_proofs

\* A contract whose address was accepted is a contract.
LEMMA ValidContract ==
  ASSUME NEW c \in AnyContract, IsValid(c)
  PROVE  c \in ContractInfo
BY DEF AnyContract, IsValid, ContractInfo

\* The messages a chain may deliver, by their tag.
LEMMA MessageFields ==
  ASSUME NEW msg \in AnyMsg
  PROVE  /\ msg.tag = "mint_nft" =>
              msg.owner \in Address /\ msg.token_id \in TokenId \cup {Unset}
         /\ msg.tag = "change_admin" => msg.address \in Address
         /\ msg.tag \in {"add_minters", "remove_minters"} => msg.minters \in SUBSET Address
         /\ msg.tag = "set_contract_status" => msg.level \in Status
         /\ msg.tag = "subscribe_to_migration_complete_event" => msg.contract \in AnyContract
         /\ msg.tag = "migration_complete_notification" => msg.to \in AnyContract
BY DEF AnyMsg, SubscribeMsg, NotificationMsg, MintNft, ChangeAdmin

-----------------------------------------------------------------------------
(* Type correctness. *)

\* A handler that fails stores nothing.
LEMMA FailKeepsTypes == TypeOK /\ Fail => TypeOK'
  BY EmptyResponses DEF TypeOK, Fail

\* The instantiation stores and returns what is well typed.
LEMMA InstantiateTypes ==
  ASSUME TypeOK, NEW sender \in Address, NEW admin, NEW royalty_info,
         NEW n \in 0..MaxSlots,
         Instantiate(sender, Snip721Instantiate(admin, royalty_info, n))
  PROVE  TypeOK'
<1> DEFINE msg == Snip721Instantiate(admin, royalty_info, n)
           a == IF admin = Unset THEN sender ELSE admin
           storage == [Blank EXCEPT !.slots = n]
<1>1. CASE CanBaseInstantiate(msg) /\
           Succeed(BaseInstantiate(storage, sender, msg), << >>)
  <2>1. a \in Address
    BY <1>1 DEF CanBaseInstantiate, Snip721Instantiate
  <2>2. n \in 0..255
    BY MaxSlotsIsU8
  <2>3. snip' = [admin |-> a, minters |-> {a}, status |-> "normal", tokens |-> << >>,
                 slots |-> n, subscribers |-> << >>]
    BY <1>1 DEF Succeed, BaseInstantiate, Snip721Instantiate, Blank
  <2>4. << >> \in Seq(Token) /\ << >> \in Seq(ContractInfo)
    BY EmptySeq
  <2>5. response' \in Response
    BY <1>1, EmptyResponses DEF Succeed
  <2> HIDE DEF a
  <2> QED BY <2>1, <2>2, <2>3, <2>4, <2>5 DEF TypeOK, Status
<1>2. CASE Fail
  BY <1>2, FailKeepsTypes
<1> QED BY <1>1, <1>2 DEF Instantiate, Snip721Instantiate

\* The id of a new token is a number, whether it was asked for or counted.
LEMMA NewIdIsNumber ==
  ASSUME TypeOK, NEW token_id \in TokenId \cup {Unset}
  PROVE  NewId(token_id) \in Int
<1>1. snip.tokens \in Seq(Token)
  BY DEF TypeOK
<1>2. Len(snip.tokens) \in Int
  <2> DEFINE tokens == snip.tokens
  <2>1. tokens \in Seq(Token)
    BY <1>1
  <2> HIDE DEF tokens
  <2>2. Len(tokens) \in Nat
    BY <2>1, LenProperties
  <2> QED BY <2>2 DEF tokens
<1> QED BY <1>2, TokenIdsAreNumbered DEF NewId

\* So do the handlers of the base contract.
LEMMA BaseTypes ==
  ASSUME TypeOK, NEW sender \in Address, NEW msg \in AnyMsg, BaseExecute(sender, msg)
  PROVE  TypeOK'
<1>1. CASE msg.tag = "mint_nft" /\ Succeed(Mint(sender, msg), << >>)
  <2> DEFINE token == [id |-> NewId(msg.token_id), owner |-> msg.owner, minter |-> sender]
  <2>1. token \in Token
    BY <1>1, MessageFields, NewIdIsNumber DEF Token
  <2>2. Append(snip.tokens, token) \in Seq(Token)
    BY <2>1, AppendProperties DEF TypeOK
  <2> QED BY <1>1, <2>2, EmptyResponses DEF TypeOK, Succeed, Mint
<1>2. CASE msg.tag = "change_admin" /\ Succeed([snip EXCEPT !.admin = msg.address], << >>)
  BY <1>2, MessageFields, EmptyResponses DEF TypeOK, Succeed
<1>3. CASE /\ msg.tag = "add_minters"
           /\ Succeed([snip EXCEPT !.minters = @ \cup msg.minters], << >>)
  BY <1>3, MessageFields, EmptyResponses DEF TypeOK, Succeed
<1>4. CASE /\ msg.tag = "remove_minters"
           /\ Succeed([snip EXCEPT !.minters = @ \ msg.minters], << >>)
  BY <1>4, MessageFields, EmptyResponses DEF TypeOK, Succeed
<1>5. CASE /\ msg.tag = "set_contract_status"
           /\ Succeed([snip EXCEPT !.status = msg.level], << >>)
  BY <1>5, MessageFields, EmptyResponses DEF TypeOK, Succeed
<1>6. CASE Fail
  BY <1>6, FailKeepsTypes
<1> QED BY <1>1, <1>2, <1>3, <1>4, <1>5, <1>6 DEF BaseExecute

\* So does a registration.
LEMMA SubscribeTypes ==
  ASSUME TypeOK, NEW c \in AnyContract, Subscribe(c)
  PROVE  TypeOK'
<1>1. CASE /\ CanRegister(c)
           /\ Succeed([snip EXCEPT !.slots = @ - 1,
                                   !.subscribers = AddSubscriber(@, c)], << >>)
  <2>1. AddSubscriber(snip.subscribers, c) \in Seq(ContractInfo)
    BY <1>1, ValidContract, AddSubscriberProperties DEF TypeOK, CanRegister
  <2>2. snip.slots - 1 \in 0..255
    BY <1>1 DEF TypeOK, CanRegister
  <2>3. snip' = [snip EXCEPT !.slots = snip.slots - 1,
                             !.subscribers = AddSubscriber(snip.subscribers, c)]
    BY <1>1 DEF Succeed, TypeOK
  <2> QED BY ZenonT(30), <1>1, <2>1, <2>2, <2>3, EmptyResponses DEF TypeOK, Succeed
<1>2. CASE ~CanRegister(c) /\ Fail
  BY <1>2, FailKeepsTypes
<1> QED BY <1>1, <1>2 DEF Subscribe

\* So does the dealer's notification.
LEMMA UpdateTypes ==
  ASSUME TypeOK, NEW sender \in Address, NEW to \in AnyContract,
         UpdateMigratedDependency(sender, to)
  PROVE  TypeOK'
<1>1. CASE /\ IsValid(to)
           /\ Succeed([snip EXCEPT !.subscribers = UpdateSubscriber(@, sender, to)], << >>)
  <2>1. UpdateSubscriber(snip.subscribers, sender, to) \in Seq(ContractInfo)
    BY <1>1, ValidContract, UpdateSubscriberType DEF TypeOK
  <2>2. snip' = [snip EXCEPT !.subscribers = UpdateSubscriber(snip.subscribers, sender, to)]
    BY <1>1 DEF Succeed, TypeOK
  <2> QED BY <1>1, <2>1, <2>2, EmptyResponses DEF TypeOK, Succeed
<1>2. CASE ~IsValid(to) /\ Fail
  BY <1>2, FailKeepsTypes
<1> QED BY <1>1, <1>2 DEF UpdateMigratedDependency

\* So does the migration.
LEMMA MigrateTypes ==
  ASSUME TypeOK, NEW h \in Hash, Migrate(h)
  PROVE  TypeOK'
<1>1. Contract(Self, h) \in ContractInfo
  BY SelfIsAnAddress DEF Contract, ContractInfo
<1>2. Broadcast(snip.subscribers, Contract(Self, h)) \in Seq(SubMsg)
  BY <1>1, BroadcastType DEF TypeOK
<1> QED BY <1>2 DEF Migrate, Succeed, Ok, Response, TypeOK

\* The storage and the responses keep their types; the counter of remaining
\* slots, an unsigned byte, never goes below zero.
THEOREM TypeCorrect == Spec => []TypeOK
<1>1. Init => TypeOK
  BY EmptyResponses, EmptySeq DEF Init, TypeOK, Blank, Status
<1>2. TypeOK /\ [Next]_vars => TypeOK'
  <2> SUFFICES ASSUME TypeOK, [Next]_vars PROVE TypeOK'
    OBVIOUS
  <2>1. CASE DoInstantiate
    BY <2>1, InstantiateTypes DEF DoInstantiate
  <2>2. CASE DoExecute
    <3>1. PICK sender \in Address, msg \in AnyMsg : Execute(sender, msg)
      BY <2>2 DEF DoExecute
    <3>2. CASE BaseExecute(sender, msg)
      BY <3>2, BaseTypes
    <3>3. CASE msg.tag = "subscribe_to_migration_complete_event" /\ Subscribe(msg.contract)
      BY <3>3, MessageFields, SubscribeTypes
    <3>4. CASE /\ msg.tag = "migration_complete_notification"
               /\ UpdateMigratedDependency(sender, msg.to)
      BY <3>4, MessageFields, UpdateTypes
    <3>5. CASE Fail
      BY <3>5, FailKeepsTypes
    <3> QED BY <3>1, <3>2, <3>3, <3>4, <3>5 DEF Execute
  <2>3. CASE DoMigrate
    BY <2>3, MigrateTypes DEF DoMigrate
  <2>4. CASE UNCHANGED vars
    BY <2>4 DEF vars, TypeOK
  <2> QED BY <2>1, <2>2, <2>3, <2>4 DEF Next
<1> QED BY <1>1, <1>2, PTL DEF Spec

-----------------------------------------------------------------------------
(* The limit on subscribers. *)

\* The number of entries and of free slots are numbers.
LEMMA BudgetIsNat ==
  ASSUME TypeOK
  PROVE  Len(snip.subscribers) \in Nat /\ snip.slots \in Nat /\ Budget \in Nat
<1>1. snip.subscribers \in Seq(ContractInfo) /\ snip.slots \in 0..255
  BY DEF TypeOK
<1>2. Len(snip.subscribers) \in Nat
  <2> DEFINE subs == snip.subscribers
  <2>1. subs \in Seq(ContractInfo)
    BY <1>1
  <2> HIDE DEF subs
  <2>2. Len(subs) \in Nat
    BY <2>1, LenProperties
  <2> QED BY <2>2 DEF subs
<1>3. snip.slots \in Nat
  <2>1. \A n \in 0..255 : n \in Nat
    OBVIOUS
  <2> QED BY <1>1, <2>1
<1> QED BY <1>2, <1>3 DEF Budget

\* A registration takes its slot before it adds at most one entry.
LEMMA SubscribeBudget ==
  ASSUME TypeOK, NEW c \in AnyContract, Subscribe(c)
  PROVE  Budget' <= Budget
<1>1. CASE /\ CanRegister(c)
           /\ Succeed([snip EXCEPT !.slots = @ - 1,
                                   !.subscribers = AddSubscriber(@, c)], << >>)
  <2>1. Len(AddSubscriber(snip.subscribers, c))
          \in {Len(snip.subscribers), Len(snip.subscribers) + 1}
    BY <1>1, ValidContract, AddSubscriberProperties DEF TypeOK, CanRegister
  <2>2. /\ snip'.slots = snip.slots - 1
        /\ snip'.subscribers = AddSubscriber(snip.subscribers, c)
    BY <1>1 DEF Succeed, TypeOK
  <2> QED BY <2>1, <2>2, BudgetIsNat DEF Budget
<1>2. CASE ~CanRegister(c) /\ Fail
  <2>1. Budget' = Budget
    BY <1>2 DEF Fail, Budget
  <2> QED BY <2>1, BudgetIsNat
<1> QED BY <1>1, <1>2 DEF Subscribe

\* A notification replaces entries and adds none.
LEMMA UpdateBudget ==
  ASSUME TypeOK, NEW sender \in Address, NEW to \in AnyContract,
         UpdateMigratedDependency(sender, to)
  PROVE  Budget' = Budget
<1>1. CASE /\ IsValid(to)
           /\ Succeed([snip EXCEPT !.subscribers = UpdateSubscriber(@, sender, to)], << >>)
  <2>1. Len(UpdateSubscriber(snip.subscribers, sender, to)) = Len(snip.subscribers)
    BY <1>1, ValidContract, UpdateSubscriberType DEF TypeOK
  <2>2. /\ snip'.slots = snip.slots
        /\ snip'.subscribers = UpdateSubscriber(snip.subscribers, sender, to)
    BY <1>1 DEF Succeed, TypeOK
  <2> QED BY <2>1, <2>2 DEF Budget
<1>2. CASE ~IsValid(to) /\ Fail
  BY <1>2 DEF Fail, Budget
<1> QED BY <1>1, <1>2 DEF UpdateMigratedDependency

\* Nothing in the reference implementation touches list or counter.
LEMMA BaseBudget ==
  ASSUME TypeOK, NEW sender, NEW msg, BaseExecute(sender, msg)
  PROVE  Budget' = Budget
<1>1. snip'.slots = snip.slots /\ snip'.subscribers = snip.subscribers
  BY DEF BaseExecute, TypeOK, Succeed, Fail, Mint
<1> QED BY <1>1 DEF Budget

\* The number of subscribers allowed at instantiation is an upper bound for
\* ever: no call makes entries and remaining slots add up to more than before.
THEOREM SlotsAreBudgeted == Spec => SlotBudgetNeverGrows
<1>1. TypeOK /\ [Next]_vars => [Instantiated => Budget' <= Budget]_vars
  <2> SUFFICES ASSUME TypeOK, Next, Instantiated PROVE Budget' <= Budget
    OBVIOUS
  <2>1. ASSUME Budget' = Budget PROVE Budget' <= Budget
    BY <2>1, BudgetIsNat
  <2>2. CASE DoExecute
    <3>1. PICK sender \in Address, msg \in AnyMsg : Execute(sender, msg)
      BY <2>2 DEF DoExecute
    <3>2. CASE BaseExecute(sender, msg)
      BY <2>1, <3>2, BaseBudget
    <3>3. CASE msg.tag = "subscribe_to_migration_complete_event" /\ Subscribe(msg.contract)
      BY <3>3, MessageFields, SubscribeBudget
    <3>4. CASE /\ msg.tag = "migration_complete_notification"
               /\ UpdateMigratedDependency(sender, msg.to)
      BY <2>1, <3>4, MessageFields, UpdateBudget
    <3>5. CASE Fail
      BY <2>1, <3>5 DEF Fail, Budget
    <3> QED BY <3>1, <3>2, <3>3, <3>4, <3>5 DEF Execute
  <2>3. CASE DoMigrate
    BY <2>1, <2>3 DEF DoMigrate, Migrate, Succeed, Budget
  <2> QED BY <2>2, <2>3 DEF Next, DoInstantiate
<1> QED BY <1>1, TypeCorrect, PTL DEF Spec, SlotBudgetNeverGrows
=============================================================================
