------------------------ MODULE MigratableSystem_types ------------------------
(***************************************************************************)
(* Type correctness of the composition, step by step: the chain's own      *)
(* operations, the handlers of the two contracts, and the transactions.    *)
(***************************************************************************)
EXTENDS MigratableSystem_inv, MigratableStd_proofs

-----------------------------------------------------------------------------
(* The bank. *)

\* Of the coins sent, the amount in one denomination is owned by the sender.
LEMMA AmountIsOwned ==
  ASSUME NEW balances \in Balances, NEW a \in Address, NEW funds \in SUBSET Coin,
         Affords(balances, a, funds), NEW d \in Denom
  PROVE  AmountOf(funds, d) \in Nat /\ AmountOf(funds, d) <= balances[a][d]
<1> DEFINE coins == {c \in funds : c.denom = d}
<1>1. balances[a][d] \in Nat
  BY DEF Balances
<1>2. CASE coins = {}
  BY <1>1, <1>2 DEF AmountOf
<1>3. CASE coins # {}
  <2>1. (CHOOSE c \in coins : TRUE) \in coins
    BY <1>3
  <2>2. PICK c \in coins : c = (CHOOSE x \in coins : TRUE)
    BY <2>1
  <2>3. AmountOf(funds, d) = c.amount
    BY <1>3, <2>2 DEF AmountOf
  <2>4. c \in funds /\ c.denom = d /\ c \in Coin
    OBVIOUS
  <2>5. c.amount \in Nat
    BY <2>4, AmountIsPositive DEF Coin
  <2>6. c.amount <= balances[a][d]
    BY <2>4 DEF Affords
  <2> QED BY <2>3, <2>5, <2>6
<1> QED BY <1>2, <1>3

\* A transfer that can be afforded leaves nobody with less than nothing.
LEMMA TransferType ==
  ASSUME NEW balances \in Balances, NEW from \in Address, NEW to \in Address,
         NEW funds \in SUBSET Coin, Affords(balances, from, funds)
  PROVE  Transfer(balances, from, to, funds) \in Balances
<1> DEFINE less == [d \in Denom |-> balances[from][d] - AmountOf(funds, d)]
           debited == [balances EXCEPT ![from] = less]
           more == [d \in Denom |-> debited[to][d] + AmountOf(funds, d)]
<1>1. \A d \in Denom : /\ AmountOf(funds, d) \in Nat
                       /\ AmountOf(funds, d) <= balances[from][d]
                       /\ balances[from][d] \in Nat
  BY AmountIsOwned DEF Balances
<1>2. less \in [Denom -> Nat]
  BY <1>1
<1>3. debited \in Balances
  <2> HIDE DEF less
  <2> QED BY <1>2 DEF Balances
<1>4. more \in [Denom -> Nat]
  <2> HIDE DEF debited
  <2> QED BY <1>1, <1>3 DEF Balances
<1>5. Transfer(balances, from, to, funds) = [debited EXCEPT ![to] = more]
  BY DEF Transfer, Balances
<1> HIDE DEF debited, more
<1> QED BY <1>3, <1>4, <1>5 DEF Balances

\* Coins sent with a message are coins.
LEMMA FundsAreSets == \A f \in Funds : f \in SUBSET Coin
BY DEF Funds

\* No coins are funds.
LEMMA NoFundsAreFunds == {} \in Funds
BY DEF Funds

-----------------------------------------------------------------------------
(* The messages under way. *)

\* The next item is one of the items, and so are those after it.
LEMMA PendingItems ==
  ASSUME pending \in Seq(Items), pending # << >>
  PROVE  /\ Item1 = pending[1] /\ Item1 \in Items /\ Msg = pending[1].msg
         /\ Len(pending) \in Nat \ {0}
         /\ Tail(pending) \in Seq(Items)
         /\ Len(Tail(pending)) = Len(pending) - 1
         /\ \A i \in 1..(Len(pending) - 1) : Tail(pending)[i] = pending[i + 1]
<1>1. /\ Head(pending) = pending[1] /\ Head(pending) \in Items
      /\ Tail(pending) \in Seq(Items)
      /\ Len(Tail(pending)) = Len(pending) - 1
      /\ \A i \in 1..Len(Tail(pending)) : Tail(pending)[i] = pending[i + 1]
  BY HeadTailProperties
<1>2. Len(pending) \in Nat /\ Len(pending) # 0
  BY LenProperties, EmptySeq
<1> QED BY <1>1, <1>2 DEF Item1, Msg

\* A message a contract returns is an item that can be delivered.
LEMMA OutgoingItems ==
  ASSUME NEW from \in Address, NEW msgs \in Seq(SubMsg)
  PROVE  /\ Outgoing(from, msgs) \in Seq(Items)
         /\ Len(Outgoing(from, msgs)) = Len(msgs)
         /\ \A i \in 1..Len(msgs) : Outgoing(from, msgs)[i] = Item(from, {}, msgs[i])
<1> DEFINE out == Outgoing(from, msgs)
<1>1. Len(msgs) \in Nat /\ DOMAIN msgs = 1..Len(msgs)
  BY LenProperties
<1>2. \A i \in 1..Len(msgs) : out[i] = Item(from, {}, msgs[i])
  BY <1>1 DEF Outgoing
<1>3. \A i \in 1..Len(msgs) : out[i] \in Items
  <2> TAKE i \in 1..Len(msgs)
  <2>1. msgs[i] \in SubMsg
    BY ElementOfSeq
  <2>2. msgs[i] \in ChainMsg
    BY <2>1 DEF ChainMsg
  <2>3. out[i] = [from |-> from, funds |-> {}, msg |-> msgs[i]]
    BY <1>2 DEF Item
  <2> HIDE DEF out
  <2> QED BY <2>2, <2>3, NoFundsAreFunds DEF Items
<1>4. out = [i \in 1..Len(msgs) |-> out[i]]
  BY <1>1 DEF Outgoing
<1>5. out \in Seq(Items) /\ Len(out) = Len(msgs)
  <2> HIDE DEF out
  <2> QED BY <1>1, <1>3, <1>4, IsASeq
<1> QED BY <1>2, <1>5

\* After a handler has run: what it returned comes first, then what was put
\* behind it, then the rest.
LEMMA Scheduled ==
  ASSUME pending \in Seq(Items), pending # << >>,
         NEW from \in Address, NEW later \in Seq(Items),
         response'.msgs \in Seq(SubMsg), Schedule(from, later)
  PROVE  LET m == Len(response'.msgs)
             l == Len(later)
         IN  /\ m \in Nat /\ l \in Nat
             /\ pending' \in Seq(Items)
             /\ Len(pending') = m + l + Len(pending) - 1
             /\ \A i \in 1..m : pending'[i] = Item(from, {}, response'.msgs[i])
             /\ \A i \in 1..l : pending'[m + i] = later[i]
             /\ \A i \in 2..Len(pending) : pending'[m + l + i - 1] = pending[i]
<1> DEFINE out == Outgoing(from, response'.msgs)
           m == Len(response'.msgs)
           l == Len(later)
           rest == Tail(pending)
<1>1. /\ out \in Seq(Items) /\ Len(out) = m
      /\ \A i \in 1..m : out[i] = Item(from, {}, response'.msgs[i])
  BY OutgoingItems
<1>2. /\ rest \in Seq(Items) /\ Len(rest) = Len(pending) - 1
      /\ Len(pending) \in Nat \ {0}
      /\ \A i \in 1..(Len(pending) - 1) : rest[i] = pending[i + 1]
  BY PendingItems
<1>3. pending' = out \o later \o rest
  BY DEF Schedule
<1>4. m \in Nat /\ l \in Nat
  BY LenProperties
<1> HIDE DEF out, m, l, rest
<1>5. /\ out \o later \in Seq(Items)
      /\ Len(out \o later) = m + l
      /\ \A i \in 1..(m + l) : (out \o later)[i] = IF i <= m THEN out[i] ELSE later[i - m]
  BY <1>1, ConcatProperties DEF l
<1>6. /\ pending' \in Seq(Items)
      /\ Len(pending') = m + l + Len(rest)
      /\ \A i \in 1..(m + l + Len(rest)) :
           pending'[i] = IF i <= m + l THEN (out \o later)[i] ELSE rest[i - (m + l)]
  BY <1>2, <1>3, <1>5, ConcatProperties
<1>7. \A i \in 1..m : pending'[i] = Item(from, {}, response'.msgs[i])
  <2> TAKE i \in 1..m
  <2>1. i \in 1..(m + l) /\ i \in 1..(m + l + Len(rest)) /\ i <= m /\ i <= m + l
    BY <1>2, <1>4
  <2> QED BY <1>1, <1>5, <1>6, <2>1
<1>8. \A i \in 1..l : pending'[m + i] = later[i]
  <2> TAKE i \in 1..l
  <2>1. m + i \in 1..(m + l) /\ ~(m + i <= m) /\ (m + i) - m = i
    BY <1>4
  <2>2. (out \o later)[m + i] = later[i]
    BY <1>5, <2>1
  <2>3. m + i \in 1..(m + l + Len(rest)) /\ m + i <= m + l
    BY <1>2, <1>4, <2>1
  <2> QED BY <1>6, <2>2, <2>3
<1>9. \A i \in 2..Len(pending) : pending'[m + l + i - 1] = pending[i]
  <2> TAKE i \in 2..Len(pending)
  <2>1. /\ m + l + i - 1 \in 1..(m + l + Len(rest))
        /\ ~(m + l + i - 1 <= m + l) /\ (m + l + i - 1) - (m + l) = i - 1
    BY <1>2, <1>4
  <2>2. i - 1 \in 1..(Len(pending) - 1) /\ (i - 1) + 1 = i
    BY <1>2
  <2>3. rest[i - 1] = pending[i]
    BY <1>2, <2>2
  <2> QED BY <1>6, <2>1, <2>3
<1> QED BY <1>2, <1>4, <1>6, <1>7, <1>8, <1>9 DEF m, l

\* The usual case: nothing is put behind.
LEMMA ScheduledNext ==
  ASSUME pending \in Seq(Items), pending # << >>,
         NEW from \in Address, response'.msgs \in Seq(SubMsg), Schedule(from, << >>)
  PROVE  LET m == Len(response'.msgs)
         IN  /\ m \in Nat
             /\ pending' \in Seq(Items)
             /\ Len(pending') = m + Len(pending) - 1
             /\ \A i \in 1..m : pending'[i] = Item(from, {}, response'.msgs[i])
             /\ \A i \in 2..Len(pending) : pending'[m + i - 1] = pending[i]
<1>1. << >> \in Seq(Items) /\ Len(<< >>) = 0
  BY EmptySeq
<1>2. Len(pending) \in Nat
  BY LenProperties
<1> DEFINE m == Len(response'.msgs)
<1>3. /\ m \in Nat
      /\ pending' \in Seq(Items)
      /\ Len(pending') = m + Len(<< >>) + Len(pending) - 1
      /\ \A i \in 1..m : pending'[i] = Item(from, {}, response'.msgs[i])
      /\ \A i \in 2..Len(pending) : pending'[m + Len(<< >>) + i - 1] = pending[i]
  BY <1>1, Scheduled
<1> HIDE DEF m
<1>4. Len(pending') = m + Len(pending) - 1
  BY <1>1, <1>2, <1>3
<1>5. \A i \in 2..Len(pending) : pending'[m + i - 1] = pending[i]
  BY <1>1, <1>2, <1>3
<1> QED BY <1>3, <1>4, <1>5 DEF m

\* A handler that returns nothing leaves the rest to run.
LEMMA NothingNext ==
  ASSUME pending \in Seq(Items), pending # << >>, NEW from,
         response'.msgs = << >>, Schedule(from, << >>)
  PROVE  pending' = Tail(pending)
<1>1. Outgoing(from, << >>) = << >>
  BY DEF Outgoing
<1>2. << >> \o << >> = << >>
  BY EmptySeq, ConcatEmptySeq
<1>3. Tail(pending) \in Seq(Items)
  BY PendingItems
<1> QED BY <1>1, <1>2, <1>3, ConcatEmptySeq DEF Schedule

\* What one or two messages returned for the only message under way become.
LEMMA OneNext ==
  ASSUME NEW item \in Items, pending = << item >>, NEW from, NEW a,
         response'.msgs = << a >>, Schedule(from, << >>), Item(from, {}, a) \in Items
  PROVE  pending' = << Item(from, {}, a) >>
<1>1. Outgoing(from, << a >>) = << Item(from, {}, a) >>
  BY DEF Outgoing
<1>2. Tail(pending) = << >>
  OBVIOUS
<1>3. << Item(from, {}, a) >> \in Seq(Items)
  OBVIOUS
<1> QED BY <1>1, <1>2, <1>3, ConcatEmptySeq DEF Schedule

\* A handler that returns two messages leaves these two to run.
LEMMA TwoNext ==
  ASSUME NEW item \in Items, pending = << item >>, NEW from, NEW a, NEW b,
         response'.msgs = << a, b >>, Schedule(from, << >>),
         Item(from, {}, a) \in Items, Item(from, {}, b) \in Items
  PROVE  pending' = << Item(from, {}, a), Item(from, {}, b) >>
<1>1. Outgoing(from, << a, b >>) = << Item(from, {}, a), Item(from, {}, b) >>
  BY DEF Outgoing
<1>2. Tail(pending) = << >>
  OBVIOUS
<1>3. << Item(from, {}, a), Item(from, {}, b) >> \in Seq(Items)
  OBVIOUS
<1> QED BY <1>1, <1>2, <1>3, ConcatEmptySeq DEF Schedule

-----------------------------------------------------------------------------
(* The bodies of messages, by their tag. *)

\* The instances' names for the same types.
LEMMA SameTypes ==
  /\ D!AnyContract = ContractInfo /\ S!AnyContract = ContractInfo
  /\ S!Token = [id : Int, owner : Address, minter : Address]
BY DEF D!AnyContract, S!AnyContract, ContractInfo, S!Token

\* The fields that the handlers read of each kind of body are there and well
\* typed.
LEMMA BodyFields ==
  ASSUME NEW body \in Bodies
  PROVE  /\ body.tag = "subscribe_to_migration_complete_event" =>
              body.contract \in ContractInfo
         /\ body.tag = "migration_complete_notification" => body.to \in ContractInfo
         /\ body.tag = "mint_nft" =>
              body.owner \in Address /\ body.token_id \in TokenId \cup {Unset}
         /\ body.tag = "change_admin" => body.address \in Address
         /\ body.tag \in {"add_minters", "remove_minters"} =>
              body.minters \in SUBSET Address
         /\ body.tag = "set_contract_status" => body.level \in S!Status
         /\ body.tag = "follow" => body.contract \in ContractInfo
<1>1. CASE body \in ExecuteBody
  BY <1>1 DEF ExecuteBody
<1>2. CASE body \in D!AnyMsg
  BY <1>2, SameTypes DEF D!AnyMsg, D!SubscribeMsg, D!NotificationMsg
<1>3. CASE body \in S!AnyMsg
  BY <1>3, SameTypes
     DEF S!AnyMsg, S!SubscribeMsg, S!NotificationMsg, S!MintNft, S!ChangeAdmin
<1>4. CASE \E c \in ContractInfo : body = FollowMsg(c)
  BY <1>4 DEF FollowMsg
<1> QED BY <1>1, <1>2, <1>3, <1>4 DEF Bodies

-----------------------------------------------------------------------------
(* What a call of the dealer does. *)

DealerFails == dealer' = dealer /\ response' = Err

\* The call is a sale, a registration or the child's notification.
DealerSells(sender, funds) ==
  /\ D!Pays(dealer.prices, funds)
  /\ dealer.child_address # Unset
  /\ dealer' = dealer
  /\ response' = Ok(<< BankSend(dealer.admin, funds),
                       WasmExecute(Contract(dealer.child_address, dealer.child_code_hash),
                                   MintNft(Unset, sender, dealer.metadata)) >>)

DealerRegisters(contract) ==
  /\ dealer' = [dealer EXCEPT !.subscribers = AddSubscriber(dealer.subscribers, contract)]
  /\ response' = Ok(<< >>)

DealerUpdates(sender, to) ==
  /\ sender = dealer.child_address
  /\ dealer' = [dealer EXCEPT
                  !.child_address = to.address, !.child_code_hash = to.code_hash,
                  !.subscribers = UpdateSubscriber(dealer.subscribers, sender, to)]
  /\ response' = Ok(<< >>)

\* The dealer's instance of the std's operators is the composition's.
LEMMA DealerOperators ==
  /\ \A s, c : D!AddSubscriber(s, c) = AddSubscriber(s, c)
  /\ \A s, a, c : D!UpdateSubscriber(s, a, c) = UpdateSubscriber(s, a, c)
  /\ \A s, c : D!Broadcast(s, c) = Broadcast(s, c)
<1>1. \A s, c : D!AddSubscriber(s, c) = AddSubscriber(s, c)
  BY DEF D!AddSubscriber, AddSubscriber, D!Range, Range
<1>2. \A s, a, c : D!UpdateSubscriber(s, a, c) = UpdateSubscriber(s, a, c)
  BY DEF D!UpdateSubscriber, UpdateSubscriber, D!IsFirstEntry, IsFirstEntry
<1>3. \A s, c : D!Broadcast(s, c) = Broadcast(s, c)
  BY DEF D!Broadcast, Broadcast, D!WasmExecute, WasmExecute, D!NotificationMsg,
         NotificationMsg
<1> QED BY <1>1, <1>2, <1>3

\* What a call of the dealer does: it fails without a trace, or it is a sale, a
\* registration or the child's notification.
LEMMA DealerExecutes ==
  ASSUME dealer \in DealerStorage, NEW sender, NEW funds, NEW body \in Bodies,
         D!Execute(sender, funds, body)
  PROVE  \/ /\ DealerFails
            /\ body.tag = "purchase_mint" => ~D!CanPurchase(funds)
            /\ body.tag # "subscribe_to_migration_complete_event"
            /\ body.tag = "migration_complete_notification" =>
                 ~(dealer.child_address # Unset /\ sender = dealer.child_address)
         \/ body.tag = "purchase_mint" /\ DealerSells(sender, funds)
         \/ /\ body.tag = "subscribe_to_migration_complete_event"
            /\ DealerRegisters(body.contract)
         \/ /\ body.tag = "migration_complete_notification"
            /\ dealer.child_address # Unset /\ DealerUpdates(sender, body.to)
<1>1. CASE body.tag = "purchase_mint" /\ D!PurchaseAndMint(sender, funds)
  <2>1. CASE D!CanPurchase(funds) /\ D!Succeed(dealer, D!PurchaseMsgs(sender, funds))
    BY <1>1, <2>1
       DEF D!CanPurchase, D!Succeed, D!Ok, Ok, D!PurchaseMsgs, D!BankSend, BankSend,
           D!MintFor, D!WasmExecute, WasmExecute, D!MintNft, MintNft, D!Child,
           D!Contract, Contract, DealerSells
  <2>2. CASE ~D!CanPurchase(funds) /\ D!Fail
    BY <1>1, <2>2 DEF D!Fail, D!Err, Err, DealerFails
  <2> QED BY <1>1, <2>1, <2>2 DEF D!PurchaseAndMint
<1>2. CASE /\ body.tag = "subscribe_to_migration_complete_event"
           /\ D!Subscribe(body.contract)
  <2>1. D!IsValid(body.contract)
    BY <1>2, BodyFields DEF D!IsValid, ContractInfo
  <2>2. dealer' = [dealer EXCEPT !.subscribers = D!AddSubscriber(@, body.contract)]
        /\ response' = Ok(<< >>)
    BY <1>2, <2>1 DEF D!Subscribe, D!Succeed, D!Ok, Ok
  <2>3. DealerRegisters(body.contract)
    BY <2>2, DealerOperators DEF DealerRegisters, DealerStorage
  <2> QED BY <1>2, <2>3
<1>3. CASE /\ body.tag = "migration_complete_notification"
           /\ D!UpdateChildSnip721(sender, body.to)
  <2>1. D!IsValid(body.to)
    BY <1>3, BodyFields DEF D!IsValid, ContractInfo
  <2>2. CASE D!CanUpdateChild(sender, body.to)
    <3>1. /\ dealer' = [dealer EXCEPT !.child_address = body.to.address,
                         !.child_code_hash = body.to.code_hash,
                         !.subscribers = D!UpdateSubscriber(@, sender, body.to)]
          /\ response' = Ok(<< >>)
      BY <1>3, <2>2 DEF D!UpdateChildSnip721, D!Succeed, D!Ok, Ok
    <3>2. DealerUpdates(sender, body.to) /\ dealer.child_address # Unset
      BY <2>2, <3>1, DealerOperators DEF DealerUpdates, DealerStorage, D!CanUpdateChild
    <3> QED BY <1>3, <3>2
  <2>3. CASE ~D!CanUpdateChild(sender, body.to)
    BY <1>3, <2>1, <2>3
       DEF D!UpdateChildSnip721, D!CanUpdateChild, D!Fail, D!Err, Err, DealerFails
  <2> QED BY <2>2, <2>3
<1>4. CASE body.tag \notin D!Supported /\ D!Fail
  BY <1>4 DEF D!Supported, D!Fail, D!Err, Err, DealerFails
<1> QED BY <1>1, <1>2, <1>3, <1>4 DEF D!Execute

\* What the dealer returns and stores is well typed.
LEMMA DealerExecutesTypes ==
  ASSUME dealer \in DealerStorage, response'.ok => Ready,
         NEW sender \in Address, NEW funds \in Funds,
         NEW body \in Bodies, D!Execute(sender, funds, body)
  PROVE  dealer' \in DealerStorage /\ response' \in Response
<1>1. CASE DealerFails
  BY <1>1, EmptyResponses DEF DealerFails
<1>2. CASE DealerSells(sender, funds)
  <2> DEFINE child == Contract(dealer.child_address, dealer.child_code_hash)
  <2>1. child \in ContractInfo /\ dealer.admin \in Address /\ dealer.metadata \in Metadata
    BY <1>2 DEF DealerSells, Ok, Ready, DealerStorage, Contract, ContractInfo
  <2>2. BankSend(dealer.admin, funds) \in SubMsg
    BY <2>1, FundsAreSets DEF BankSend, SubMsg
  <2>3. WasmExecute(child, MintNft(Unset, sender, dealer.metadata)) \in SubMsg
    <3> HIDE DEF child
    <3> QED BY <2>1 DEF WasmExecute, MintNft, SubMsg, ExecuteBody
  <2> QED BY <1>2, <2>2, <2>3, ShortResponses DEF DealerSells
<1>3. CASE /\ body.tag = "subscribe_to_migration_complete_event"
           /\ DealerRegisters(body.contract)
  <2>1. AddSubscriber(dealer.subscribers, body.contract) \in Seq(ContractInfo)
    BY <1>3, BodyFields, AddSubscriberProperties DEF DealerStorage
  <2> QED BY <1>3, <2>1, EmptyResponses DEF DealerRegisters, DealerStorage
<1>4. CASE body.tag = "migration_complete_notification" /\ DealerUpdates(sender, body.to)
  <2>1. body.to \in ContractInfo
    BY <1>4, BodyFields
  <2>2. UpdateSubscriber(dealer.subscribers, sender, body.to) \in Seq(ContractInfo)
    BY <2>1, UpdateSubscriberType DEF DealerStorage
  <2> QED BY <1>4, <2>1, <2>2, EmptyResponses DEF DealerUpdates, DealerStorage, ContractInfo
<1> QED BY <1>1, <1>2, <1>3, <1>4, DealerExecutes

\* The instantiation: the dealer's storage, and the child it asks for.
LEMMA DealerInstantiates ==
  ASSUME NEW sender \in Address, NEW msg \in D!InstantiateMsg,
         D!Instantiate(sender, msg)
  PROVE  \/ DealerFails
         \/ \E admin \in Address :
              /\ admin = IF msg.admin = Unset THEN sender ELSE msg.admin
              /\ msg.prices # << >>
              /\ dealer' = [admin |-> admin, prices |-> msg.prices,
                            metadata |-> msg.metadata,
                            child_code_hash |-> msg.snip721_code_hash,
                            child_address |-> Unset, subscribers |-> << >>]
              /\ response' = Ok(<< WasmInstantiate(admin, msg.snip721_code_id,
                                      msg.snip721_code_hash,
                                      Snip721Instantiate(DEALER, msg.royalty_info, 1),
                                      1) >>)
<1> DEFINE admin == D!TrueAdmin(sender, msg)
<1>1. CASE ~D!CanInstantiate(sender, msg)
  BY <1>1 DEF D!Instantiate, D!Fail, D!Err, Err, DealerFails
<1>2. CASE D!CanInstantiate(sender, msg)
  <2>1. /\ admin \in Address /\ msg.prices # << >>
        /\ admin = IF msg.admin = Unset THEN sender ELSE msg.admin
    BY <1>2 DEF D!CanInstantiate, D!TrueAdmin
  <2>2. dealer' = D!NewStorage(admin, msg)
    BY <1>2 DEF D!Instantiate, D!Succeed
  <2>3. dealer' = [admin |-> admin, prices |-> msg.prices, metadata |-> msg.metadata,
                   child_code_hash |-> msg.snip721_code_hash,
                   child_address |-> Unset, subscribers |-> << >>]
    <3> HIDE DEF admin
    <3> QED BY <2>2 DEF D!NewStorage, D!Blank
  <2>4. response' = D!Ok(<< D!InstantiateChild(admin, msg) >>)
    BY <1>2 DEF D!Instantiate, D!Succeed
  <2>5. response' = Ok(<< WasmInstantiate(admin, msg.snip721_code_id,
                             msg.snip721_code_hash,
                             Snip721Instantiate(DEALER, msg.royalty_info, 1), 1) >>)
    <3> HIDE DEF admin
    <3> QED BY <2>4 DEF D!InstantiateChild, D!WasmInstantiate, WasmInstantiate,
         D!Snip721Instantiate, Snip721Instantiate, D!INSTANTIATE_SNIP721_REPLY_ID,
         D!Ok, Ok
  <2> HIDE DEF admin
  <2> QED BY <2>1, <2>3, <2>5
<1> QED BY <1>1, <1>2

\* The fields of the dealer's instantiate message.
LEMMA InstantiateMsgFields ==
  ASSUME NEW msg \in D!InstantiateMsg
  PROVE  /\ msg.admin \in Address \cup {Unset} /\ msg.prices \in Seq(Coin)
         /\ msg.metadata \in Metadata /\ msg.royalty_info \in RoyaltyInfo
         /\ msg.snip721_code_id \in Hash /\ msg.snip721_code_hash \in Hash
BY PriceListsAreLists
   DEF D!InstantiateMsg, D!Metadata, Metadata, D!RoyaltyInfo, RoyaltyInfo

\* The dealer's instantiation stores and returns what is well typed.
LEMMA DealerInstantiatesTypes ==
  ASSUME dealer \in DealerStorage, NEW sender \in Address, NEW msg \in D!InstantiateMsg,
         D!Instantiate(sender, msg)
  PROVE  dealer' \in DealerStorage /\ response' \in Response
<1>1. CASE DealerFails
  BY <1>1, EmptyResponses DEF DealerFails
<1>2. CASE ~DealerFails
  <2>1. PICK admin \in Address :
          /\ dealer' = [admin |-> admin, prices |-> msg.prices, metadata |-> msg.metadata,
                        child_code_hash |-> msg.snip721_code_hash,
                        child_address |-> Unset, subscribers |-> << >>]
          /\ response' = Ok(<< WasmInstantiate(admin, msg.snip721_code_id,
                                  msg.snip721_code_hash,
                                  Snip721Instantiate(DEALER, msg.royalty_info, 1),
                                  1) >>)
    BY <1>2, DealerInstantiates
  <2>2. WasmInstantiate(admin, msg.snip721_code_id, msg.snip721_code_hash,
                        Snip721Instantiate(DEALER, msg.royalty_info, 1), 1) \in SubMsg
    BY InstantiateMsgFields, ContractsDiffer
       DEF WasmInstantiate, SubMsg, Snip721Instantiate, Snip721InstantiateMsg
  <2>3. << >> \in Seq(ContractInfo)
    BY EmptySeq
  <2> QED BY <2>1, <2>2, <2>3, InstantiateMsgFields, ShortResponses DEF DealerStorage
<1> QED BY <1>1, <1>2

\* The reply: the child is stored and subscribed, and gets two messages.
LEMMA DealerReplies ==
  ASSUME dealer \in DealerStorage, NEW id, NEW address, NEW h,
         D!Reply(id, address, h)
  PROVE  LET child == Contract(address, dealer.child_code_hash)
         IN  \/ DealerFails /\ id # 1
             \/ /\ dealer' = [dealer EXCEPT
                    !.child_address = address,
                    !.subscribers = AddSubscriber(dealer.subscribers, child)]
                /\ response' = Ok(<< WasmExecute(child, SubscribeMsg(Contract(DEALER, h))),
                                     WasmExecute(child, ChangeAdmin(dealer.admin)) >>)
<1> DEFINE child == Contract(address, dealer.child_code_hash)
<1>1. CASE id # D!INSTANTIATE_SNIP721_REPLY_ID /\ D!Fail
  BY <1>1 DEF D!Fail, D!Err, Err, DealerFails, D!INSTANTIATE_SNIP721_REPLY_ID
<1>2. CASE D!OnInstantiatedSnip721(address, h)
  <2>1. D!Contract(address, dealer.child_code_hash) = child
    BY DEF D!Contract, Contract
  <2>2. /\ dealer' = [dealer EXCEPT !.child_address = address,
                                    !.subscribers = D!AddSubscriber(@, child)]
        /\ response' = D!Ok(D!HandshakeMsgs(child, h))
    BY <1>2, <2>1 DEF D!OnInstantiatedSnip721, D!Succeed
  <2> HIDE DEF child
  <2>3. dealer' = [dealer EXCEPT !.child_address = address,
                     !.subscribers = AddSubscriber(dealer.subscribers, child)]
    BY <2>2, DealerOperators DEF DealerStorage
  <2>4. response' = Ok(<< WasmExecute(child, SubscribeMsg(Contract(DEALER, h))),
                          WasmExecute(child, ChangeAdmin(dealer.admin)) >>)
    BY <2>2 DEF D!Ok, Ok, D!HandshakeMsgs, D!WasmExecute, WasmExecute, D!SubscribeMsg,
                SubscribeMsg, D!ChangeAdmin, ChangeAdmin, D!Contract, Contract
  <2> QED BY <2>3, <2>4 DEF child
<1> QED BY <1>1, <1>2 DEF D!Reply

\* The dealer's migration stores nothing and tells all its subscribers.
LEMMA DealerMigrates ==
  ASSUME NEW h, D!Migrate(h)
  PROVE  /\ dealer' = dealer
         /\ response' = Ok(Broadcast(dealer.subscribers, Contract(DEALER, h)))
BY DealerOperators DEF D!Migrate, D!Succeed, D!Ok, Ok, D!Contract, Contract

-----------------------------------------------------------------------------
(* What a call of the child does. *)

ChildFails == snip' = snip /\ response' = Err

ChildRegisters(contract) ==
  /\ snip.slots > 0
  /\ snip' = [snip EXCEPT !.slots = snip.slots - 1,
                          !.subscribers = AddSubscriber(snip.subscribers, contract)]

ChildMints(sender, body) ==
  /\ MintedBy(sender, S!NewId(body.token_id), body.owner, snip, snip')
  /\ body.metadata # "both_forms"

ChildUpdates(sender, to) ==
  snip' = [snip EXCEPT !.subscribers = UpdateSubscriber(snip.subscribers, sender, to)]

\* The child's instance of the std's operators is the composition's.
LEMMA ChildOperators ==
  /\ \A s, c : S!AddSubscriber(s, c) = AddSubscriber(s, c)
  /\ \A s, a, c : S!UpdateSubscriber(s, a, c) = UpdateSubscriber(s, a, c)
  /\ \A s, c : S!Broadcast(s, c) = Broadcast(s, c)
<1>1. \A s, c : S!AddSubscriber(s, c) = AddSubscriber(s, c)
  BY DEF S!AddSubscriber, AddSubscriber, S!Range, Range
<1>2. \A s, a, c : S!UpdateSubscriber(s, a, c) = UpdateSubscriber(s, a, c)
  BY DEF S!UpdateSubscriber, UpdateSubscriber, S!IsFirstEntry, IsFirstEntry
<1>3. \A s, c : S!Broadcast(s, c) = Broadcast(s, c)
  BY DEF S!Broadcast, Broadcast, S!WasmExecute, WasmExecute, S!NotificationMsg,
         NotificationMsg
<1> QED BY <1>1, <1>2, <1>3

\* The reference implementation: minting, administration, or a refusal.
LEMMA BaseExecutes ==
  ASSUME snip \in Snip721Storage, NEW sender \in Address, NEW body \in Bodies,
         S!BaseExecute(sender, body)
  PROVE  \/ /\ ChildFails
            /\ body.tag = "mint_nft" => ~S!CanMint(sender, body)
            /\ body.tag = "change_admin" => ~S!CanAdminister(sender)
         \/ /\ response' = Ok(<< >>)
            /\ \/ body.tag = "mint_nft" /\ ChildMints(sender, body)
               \/ /\ body.tag = "change_admin"
                  /\ snip' = [snip EXCEPT !.admin = body.address]
                  /\ AdministeredBy(sender, snip, snip')
               \/ /\ body.tag \in {"add_minters", "remove_minters", "set_contract_status"}
                  /\ AdministeredBy(sender, snip, snip')
<1>1. CASE /\ body.tag = "mint_nft" /\ S!CanMint(sender, body)
           /\ S!Succeed(S!Mint(sender, body), << >>)
  <2>1. \A i \in DOMAIN snip.tokens : snip.tokens[i].id # S!NewId(body.token_id)
    BY <1>1 DEF S!CanMint, S!IdsInUse
  <2>2. ChildMints(sender, body)
    BY <1>1, <2>1 DEF ChildMints, S!CanMint, S!Mint, S!Succeed, MintedBy
  <2> QED BY <1>1, <2>2 DEF S!Succeed, S!Ok, Ok
<1>2. CASE /\ body.tag = "change_admin" /\ S!CanAdminister(sender)
           /\ S!Succeed([snip EXCEPT !.admin = body.address], << >>)
  <2>1. /\ snip' = [snip EXCEPT !.admin = body.address, !.minters = snip.minters,
                                !.status = snip.status]
        /\ body.address \in Address
    BY <1>2, BodyFields DEF S!Succeed, Snip721Storage
  <2>2. AdministeredBy(sender, snip, snip')
    BY <1>2, <2>1 DEF AdministeredBy, S!CanAdminister, Snip721Storage
  <2> QED BY <1>2, <2>2 DEF S!Succeed, S!Ok, Ok
<1>3. CASE /\ body.tag = "add_minters" /\ S!CanAdminister(sender)
           /\ S!Succeed([snip EXCEPT !.minters = @ \cup body.minters], << >>)
  <2>1. /\ snip' = [snip EXCEPT !.admin = snip.admin,
                                !.minters = snip.minters \cup body.minters,
                                !.status = snip.status]
        /\ snip.minters \cup body.minters \in SUBSET Address
    BY <1>3, BodyFields DEF S!Succeed, Snip721Storage
  <2>2. AdministeredBy(sender, snip, snip')
    BY <1>3, <2>1 DEF AdministeredBy, S!CanAdminister, Snip721Storage
  <2> QED BY <1>3, <2>2 DEF S!Succeed, S!Ok, Ok
<1>4. CASE /\ body.tag = "remove_minters" /\ S!CanAdminister(sender)
           /\ S!Succeed([snip EXCEPT !.minters = @ \ body.minters], << >>)
  <2>1. /\ snip' = [snip EXCEPT !.admin = snip.admin,
                                !.minters = snip.minters \ body.minters,
                                !.status = snip.status]
        /\ snip.minters \ body.minters \in SUBSET Address
    BY <1>4, BodyFields DEF S!Succeed, Snip721Storage
  <2>2. AdministeredBy(sender, snip, snip')
    BY <1>4, <2>1 DEF AdministeredBy, S!CanAdminister, Snip721Storage
  <2> QED BY <1>4, <2>2 DEF S!Succeed, S!Ok, Ok
<1>5. CASE /\ body.tag = "set_contract_status" /\ sender = snip.admin
           /\ S!Succeed([snip EXCEPT !.status = body.level], << >>)
  <2>1. /\ snip' = [snip EXCEPT !.admin = snip.admin, !.minters = snip.minters,
                                !.status = body.level]
        /\ body.level \in S!Status
    BY <1>5, BodyFields DEF S!Succeed, Snip721Storage
  <2>2. AdministeredBy(sender, snip, snip')
    BY <1>5, <2>1 DEF AdministeredBy, Snip721Storage
  <2> QED BY <1>5, <2>2 DEF S!Succeed, S!Ok, Ok
<1>6. CASE S!Fail /\ body.tag = "mint_nft" /\ ~S!CanMint(sender, body)
  BY <1>6 DEF S!Fail, S!Err, Err, ChildFails
<1>7. CASE /\ S!Fail /\ body.tag \in {"change_admin", "add_minters", "remove_minters"}
           /\ ~S!CanAdminister(sender)
  BY <1>7 DEF S!Fail, S!Err, Err, ChildFails
<1>8. CASE S!Fail /\ body.tag = "set_contract_status"
  BY <1>8 DEF S!Fail, S!Err, Err, ChildFails
<1> QED BY <1>1, <1>2, <1>3, <1>4, <1>5, <1>6, <1>7, <1>8 DEF S!BaseExecute

\* What a call of the child does: it fails without a trace, or one of the
\* storage's parts changes.
LEMMA ChildExecutes ==
  ASSUME snip \in Snip721Storage, NEW sender \in Address, NEW body \in Bodies,
         S!Execute(sender, body)
  PROVE  \/ /\ ChildFails
            /\ body.tag = "mint_nft" => ~S!CanMint(sender, body)
            /\ body.tag = "change_admin" => ~S!CanAdminister(sender)
            /\ body.tag = "subscribe_to_migration_complete_event" => ~(snip.slots > 0)
            /\ body.tag # "migration_complete_notification"
         \/ /\ response' = Ok(<< >>)
            /\ \/ body.tag = "mint_nft" /\ ChildMints(sender, body)
               \/ /\ body.tag = "change_admin"
                  /\ snip' = [snip EXCEPT !.admin = body.address]
                  /\ AdministeredBy(sender, snip, snip')
               \/ /\ body.tag \in {"add_minters", "remove_minters", "set_contract_status"}
                  /\ AdministeredBy(sender, snip, snip')
               \/ /\ body.tag = "subscribe_to_migration_complete_event"
                  /\ ChildRegisters(body.contract)
               \/ /\ body.tag = "migration_complete_notification"
                  /\ ChildUpdates(sender, body.to)
<1>1. CASE body.tag \in S!BaseTags /\ S!BaseExecute(sender, body)
  <2>1. /\ body.tag # "subscribe_to_migration_complete_event"
        /\ body.tag # "migration_complete_notification"
    BY <1>1 DEF S!BaseTags
  <2> QED BY <1>1, <2>1, BaseExecutes
<1>2. CASE /\ body.tag = "subscribe_to_migration_complete_event"
           /\ S!Subscribe(body.contract)
  <2>1. S!IsValid(body.contract)
    BY <1>2, BodyFields DEF S!IsValid, ContractInfo
  <2>2. CASE snip.slots > 0
    <3>1. /\ snip' = [snip EXCEPT !.slots = @ - 1,
                       !.subscribers = S!AddSubscriber(@, body.contract)]
          /\ response' = Ok(<< >>)
      BY <1>2, <2>1, <2>2 DEF S!Subscribe, S!CanRegister, S!Succeed, S!Ok, Ok
    <3>2. ChildRegisters(body.contract)
      BY <2>2, <3>1, ChildOperators DEF ChildRegisters, Snip721Storage
    <3> QED BY <1>2, <3>1, <3>2
  <2>3. CASE ~(snip.slots > 0)
    BY <1>2, <2>3 DEF S!Subscribe, S!CanRegister, S!Fail, S!Err, Err, ChildFails
  <2> QED BY <2>2, <2>3
<1>3. CASE /\ body.tag = "migration_complete_notification"
           /\ S!UpdateMigratedDependency(sender, body.to)
  <2>1. S!IsValid(body.to)
    BY <1>3, BodyFields DEF S!IsValid, ContractInfo
  <2>2. /\ snip' = [snip EXCEPT !.subscribers = S!UpdateSubscriber(@, sender, body.to)]
        /\ response' = Ok(<< >>)
    BY <1>3, <2>1 DEF S!UpdateMigratedDependency, S!Succeed, S!Ok, Ok
  <2>3. ChildUpdates(sender, body.to)
    BY <2>2, ChildOperators DEF ChildUpdates, Snip721Storage
  <2> QED BY <1>3, <2>2, <2>3
<1>4. CASE body.tag \notin S!Supported /\ S!Fail
  BY <1>4 DEF S!Supported, S!BaseTags, S!Fail, S!Err, Err, ChildFails
<1> QED BY <1>1, <1>2, <1>3, <1>4 DEF S!Execute

\* The id of a new token is a number, whether it was asked for or counted.
LEMMA NewIdIsNumber ==
  ASSUME snip \in Snip721Storage, NEW token_id \in TokenId \cup {Unset}
  PROVE  /\ S!NewId(token_id) \in Int
         /\ S!NewId(token_id) \in TokenId \cup {Len(snip.tokens)}
         /\ S!NewId(Unset) = Len(snip.tokens)
<1>1. Len(snip.tokens) \in Int
  <2> DEFINE tokens == snip.tokens
  <2>1. tokens \in Seq(S!Token)
    BY DEF Snip721Storage
  <2> HIDE DEF tokens
  <2>2. Len(tokens) \in Nat
    BY <2>1, LenProperties
  <2> QED BY <2>2 DEF tokens
<1> QED BY <1>1, TokenIdsAreNumbered DEF S!NewId

\* What the child stores and returns is well typed.
LEMMA ChildExecutesTypes ==
  ASSUME snip \in Snip721Storage, NEW sender \in Address, NEW body \in Bodies,
         S!Execute(sender, body)
  PROVE  snip' \in Snip721Storage /\ response' \in Response
<1>1. response' \in Response
  BY ChildExecutes, EmptyResponses DEF ChildFails
<1>2. CASE ChildFails
  BY <1>1, <1>2 DEF ChildFails
<1>3. CASE body.tag = "mint_nft" /\ ChildMints(sender, body)
  <2> DEFINE id == S!NewId(body.token_id)
             token == [id |-> id, owner |-> body.owner, minter |-> sender]
  <2>1. id \in Int /\ body.owner \in Address
    BY <1>3, BodyFields, NewIdIsNumber
  <2> HIDE DEF id
  <2>2. token \in S!Token
    BY <2>1, SameTypes
  <2>3. Append(snip.tokens, token) \in Seq(S!Token)
    BY <2>2, AppendProperties DEF Snip721Storage
  <2> QED BY <1>1, <1>3, <2>3 DEF ChildMints, MintedBy, Snip721Storage, id
<1>4. CASE AdministeredBy(sender, snip, snip')
  BY ZenonT(30), <1>1, <1>4 DEF AdministeredBy, Snip721Storage
<1>5. CASE /\ body.tag = "subscribe_to_migration_complete_event"
           /\ ChildRegisters(body.contract)
  <2>1. AddSubscriber(snip.subscribers, body.contract) \in Seq(ContractInfo)
    BY <1>5, BodyFields, AddSubscriberProperties DEF Snip721Storage
  <2>2. snip.slots - 1 \in 0..255
    BY <1>5 DEF ChildRegisters, Snip721Storage
  <2> QED BY <1>1, <1>5, <2>1, <2>2 DEF ChildRegisters, Snip721Storage
<1>6. CASE body.tag = "migration_complete_notification" /\ ChildUpdates(sender, body.to)
  <2>1. UpdateSubscriber(snip.subscribers, sender, body.to) \in Seq(ContractInfo)
    BY <1>6, BodyFields, UpdateSubscriberType DEF Snip721Storage
  <2> QED BY <1>1, <1>6, <2>1 DEF ChildUpdates, Snip721Storage
<1> QED BY <1>2, <1>3, <1>4, <1>5, <1>6, ChildExecutes

\* The child's instantiation: it fails, or its admin is its only minter.
LEMMA ChildInstantiates ==
  ASSUME NEW sender \in Address, NEW admin \in Address, NEW royalty_info,
         NEW n \in 0..255,
         S!Instantiate(sender, Snip721Instantiate(admin, royalty_info, n))
  PROVE  \/ ChildFails
         \/ /\ snip' = [admin |-> admin, minters |-> {admin}, status |-> "normal",
                        tokens |-> << >>, slots |-> n, subscribers |-> << >>]
            /\ response' = Ok(<< >>)
            /\ snip' \in Snip721Storage
<1> DEFINE msg == Snip721Instantiate(admin, royalty_info, n)
<1>1. CASE ~S!CanBaseInstantiate(msg)
  BY <1>1 DEF S!Instantiate, S!Fail, S!Err, Err, ChildFails
<1>2. CASE S!CanBaseInstantiate(msg)
  <2>1. admin # Unset
    BY UnsetIsNoValue
  <2>2. /\ snip' = S!BaseInstantiate(
                     [S!Blank EXCEPT !.slots =
                        msg.max_migration_complete_event_subscribers], sender, msg)
        /\ response' = Ok(<< >>)
    <3> HIDE DEF msg
    <3> QED BY <1>2 DEF S!Instantiate, S!Succeed, S!Ok, Ok, msg
  <2>3. snip' = [admin |-> admin, minters |-> {admin}, status |-> "normal",
                 tokens |-> << >>, slots |-> n, subscribers |-> << >>]
    BY <2>1, <2>2 DEF S!BaseInstantiate, Snip721Instantiate, S!Blank
  <2>4. << >> \in Seq(S!Token) /\ << >> \in Seq(ContractInfo)
    BY EmptySeq
  <2>5. snip' \in Snip721Storage
    BY <2>3, <2>4 DEF Snip721Storage, S!Status
  <2>6. response' = Ok(<< >>)
    BY <2>2
  <2> QED BY Zenon, <2>3, <2>5, <2>6
<1> QED BY <1>1, <1>2

\* The child's migration stores nothing and tells its subscriber.
LEMMA ChildMigrates ==
  ASSUME NEW h, S!Migrate(h)
  PROVE  /\ snip' = snip
         /\ response' = Ok(Broadcast(snip.subscribers, Contract(SNIP, h)))
BY ChildOperators DEF S!Migrate, S!Succeed, S!Ok, Ok, S!Contract, Contract

-----------------------------------------------------------------------------
(* The state and the messages under way keep their types. *)

\* The fields of each kind of message.
LEMMA MsgFields ==
  ASSUME NEW m \in ChainMsg
  PROVE  /\ m.type = "execute" => m.contract \in ContractInfo /\ m.body \in Bodies
         /\ m.type = "bank_send" => m.to_address \in Address /\ m.amount \in SUBSET Coin
         /\ m.type = "instantiate" =>
              /\ m.wasm_admin \in Address /\ m.code_id \in Hash /\ m.code_hash \in Hash
              /\ m.msg \in Snip721InstantiateMsg
         /\ m.type = "instantiate_dealer" =>
              m.wasm_admin \in Address /\ m.code_hash \in Hash /\ m.msg \in D!InstantiateMsg
         /\ m.type = "reply" => m.contract_address \in Address
         /\ m.type = "migrate" =>
              /\ m.contract \in {DEALER, SNIP, EXT} /\ m.code_hash \in Hash
              /\ m.notify \in Told
<1>1. ExecuteBody \subseteq Bodies
  BY DEF Bodies
<1>2. CASE m \in SubMsg
  BY <1>1, <1>2 DEF SubMsg
<1>3. CASE m \in ChainMsg \ SubMsg
  BY <1>3 DEF ChainMsg
<1> QED BY <1>2, <1>3

\* The types of the variables.
LEMMA StateTypes ==
  ASSUME TypeOK
  PROVE  /\ dealer \in DealerStorage /\ snip \in Snip721Storage
         /\ codeHash \in [Address -> Hash \cup {Unset}]
         /\ wasmAdmin \in [Address -> Address \cup {Unset}]
         /\ bank \in Balances
         /\ heard \in [{DEALER, SNIP} -> Hash \cup {Unset}]
         /\ committed \in WorldType /\ tx \in Transactions
         /\ response \in Response /\ pending \in Seq(Items)
<1>1. World \in WorldType
  BY DEF TypeOK
<1>2. /\ World.dealer = dealer /\ World.snip = snip /\ World.codeHash = codeHash
      /\ World.wasmAdmin = wasmAdmin /\ World.bank = bank /\ World.heard = heard
  BY DEF World
<1> HIDE DEF World
<1> QED BY <1>1, <1>2 DEF TypeOK, WorldType

\* A step within a transaction.
LEMMA StepTypes ==
  ASSUME TypeOK, UNCHANGED <<tx, committed>>,
         dealer' \in DealerStorage, snip' \in Snip721Storage,
         codeHash' \in [Address -> Hash \cup {Unset}],
         wasmAdmin' \in [Address -> Address \cup {Unset}],
         bank' \in Balances,
         heard' \in [{DEALER, SNIP} -> Hash \cup {Unset}],
         response' \in Response, pending' \in Seq(Items)
  PROVE  TypeOK'
BY DEF TypeOK, World, WorldType

\* A call of a dealer that is ready for what it accepts keeps types.
LEMMA ExecuteDealerTypes ==
  ASSUME TypeOK, response'.ok => Ready, ExecuteDealer
  PROVE  TypeOK'
<1>1. Item1 \in Items /\ Msg = Item1.msg /\ pending # << >> /\ Msg.type = "execute"
  BY PendingItems, StateTypes DEF ExecuteDealer, Runs, Msg, Item1
<1>2. /\ Item1.from \in Address /\ Item1.funds \in Funds
      /\ Msg.body \in Bodies
  BY <1>1, MsgFields DEF Items
<1>3. bank' \in Balances
  BY <1>2, FundsAreSets, TransferType, StateTypes, ContractsDiffer
     DEF ExecuteDealer, Reaches, Pay
<1>4. dealer' \in DealerStorage /\ response' \in Response
  BY <1>2, DealerExecutesTypes, StateTypes DEF ExecuteDealer
<1>5. pending' \in Seq(Items)
  BY <1>1, <1>4, ScheduledNext, StateTypes, ContractsDiffer DEF ExecuteDealer, Response
<1> QED BY <1>3, <1>4, <1>5, StepTypes, StateTypes DEF ExecuteDealer, outside

\* A call of the child keeps types.
LEMMA ExecuteSnip721Types ==
  ASSUME TypeOK, ExecuteSnip721
  PROVE  TypeOK'
<1>1. Item1 \in Items /\ Msg = Item1.msg /\ pending # << >> /\ Msg.type = "execute"
  BY PendingItems, StateTypes DEF ExecuteSnip721, Runs, Msg, Item1
<1>2. /\ Item1.from \in Address /\ Item1.funds \in Funds
      /\ Msg.body \in Bodies
  BY <1>1, MsgFields DEF Items
<1>3. bank' \in Balances
  BY <1>2, FundsAreSets, TransferType, StateTypes, ContractsDiffer
     DEF ExecuteSnip721, Reaches, Pay
<1>4. snip' \in Snip721Storage /\ response' \in Response
  BY <1>2, ChildExecutesTypes, StateTypes DEF ExecuteSnip721
<1>5. pending' \in Seq(Items)
  BY <1>1, <1>4, ScheduledNext, StateTypes, ContractsDiffer DEF ExecuteSnip721, Response
<1> QED BY <1>3, <1>4, <1>5, StepTypes, StateTypes DEF ExecuteSnip721, outside

\* A call of the listener keeps types.
LEMMA ExecuteExtTypes ==
  ASSUME TypeOK, ExecuteExt
  PROVE  TypeOK'
<1>1. Item1 \in Items /\ Msg = Item1.msg /\ pending # << >> /\ Msg.type = "execute"
  BY PendingItems, StateTypes DEF ExecuteExt, Runs, Msg, Item1
<1>2. /\ Item1.from \in Address /\ Item1.funds \in Funds
      /\ Msg.body \in Bodies /\ Current(EXT) \in ContractInfo
  BY <1>1, MsgFields DEF Items, ExecuteExt, Reaches
<1>3. bank' \in Balances
  BY <1>2, FundsAreSets, TransferType, StateTypes, ContractsDiffer
     DEF ExecuteExt, Reaches, chain
<1>4. ASSUME NEW c \in ContractInfo
      PROVE  Ok(<< WasmExecute(c, SubscribeMsg(Current(EXT))) >>) \in Response
  <2> DEFINE self == Current(EXT)
  <2> HIDE DEF self
  <2>1. WasmExecute(c, SubscribeMsg(self)) \in SubMsg
    BY <1>2, <1>4 DEF WasmExecute, SubscribeMsg, SubMsg, ExecuteBody, self
  <2> QED BY <2>1, ShortResponses DEF self
<1>5. /\ heard' \in [{DEALER, SNIP} -> Hash \cup {Unset}]
      /\ response' \in Response
  <2>1. CASE /\ Msg.body.tag = "follow"
             /\ heard' = [heard EXCEPT ![Msg.body.contract.address] =
                                         Msg.body.contract.code_hash]
             /\ response' = Ok(<< WasmExecute(Msg.body.contract,
                                               SubscribeMsg(Current(EXT))) >>)
    <3>1. Msg.body.contract \in ContractInfo
      BY <1>2, <2>1, BodyFields
    <3>2. Msg.body.contract.code_hash \in Hash
      BY <3>1 DEF ContractInfo
    <3> QED BY <1>4, <2>1, <3>1, <3>2, StateTypes
  <2>2. CASE /\ Msg.body.tag = "migration_complete_notification"
             /\ heard' = [heard EXCEPT ![Item1.from] = Msg.body.to.code_hash]
             /\ \/ response' = Ok(<< >>)
                \/ response' = Ok(<< WasmExecute(Msg.body.to,
                                                 SubscribeMsg(Current(EXT))) >>)
    <3>1. Msg.body.to \in ContractInfo
      BY <1>2, <2>2, BodyFields
    <3>2. Msg.body.to.code_hash \in Hash
      BY <3>1 DEF ContractInfo
    <3> QED BY <1>4, <2>2, <3>1, <3>2, StateTypes, EmptyResponses
  <2> QED BY <2>1, <2>2 DEF ExecuteExt
<1>6. pending' \in Seq(Items)
  BY <1>1, <1>5, ScheduledNext, StateTypes, ContractsDiffer DEF ExecuteExt, Response
<1> QED BY <1>3, <1>5, <1>6, StepTypes, StateTypes DEF ExecuteExt, chain

\* A message that the chain refuses keeps types.
LEMMA RefuseTypes ==
  ASSUME TypeOK, pending # << >>, Refuse, UNCHANGED outside
  PROVE  TypeOK'
BY PendingItems, StateTypes, StepTypes, EmptyResponses DEF Refuse, chain, outside

\* A payment keeps types: what is sent is owned.
LEMMA RunBankSendTypes ==
  ASSUME TypeOK, RunBankSend
  PROVE  TypeOK'
<1>1. /\ Item1 \in Items /\ Msg = Item1.msg /\ pending # << >> /\ Msg.type = "bank_send"
      /\ Tail(pending) \in Seq(Items)
  BY PendingItems, StateTypes DEF RunBankSend, Runs, Msg, Item1
<1>2. CASE Affords(bank, Item1.from, Msg.amount)
  <2>1. /\ Item1.from \in Address /\ Msg.to_address \in Address
        /\ Msg.amount \in SUBSET Coin
    BY <1>1, MsgFields DEF Items
  <2>2. bank' \in Balances \/ Refuse
    BY <1>2, <2>1, TransferType, StateTypes DEF RunBankSend
  <2> QED BY <1>1, <1>2, <2>2, RefuseTypes, StateTypes, StepTypes, EmptyResponses
          DEF RunBankSend, outside
<1>3. CASE ~Affords(bank, Item1.from, Msg.amount)
  BY <1>1, <1>3, RefuseTypes DEF RunBankSend
<1> QED BY <1>2, <1>3

\* A new contract has stored code and an address as its wasm admin.
LEMMA CreateTypes ==
  ASSUME TypeOK, NEW contract \in Address, Msg.code_hash \in Hash,
         Msg.wasm_admin \in Address, Create(contract)
  PROVE  /\ codeHash' \in [Address -> Hash \cup {Unset}]
         /\ wasmAdmin' \in [Address -> Address \cup {Unset}]
BY StateTypes DEF Create

\* The dealer's instantiation keeps types.
LEMMA RunInstantiateDealerTypes ==
  ASSUME TypeOK, RunInstantiateDealer
  PROVE  TypeOK'
<1>1. /\ Item1 \in Items /\ Msg = Item1.msg /\ pending # << >>
      /\ Msg.type = "instantiate_dealer"
  BY PendingItems, StateTypes DEF RunInstantiateDealer, Runs, Msg, Item1
<1>2. /\ Item1.from \in Address /\ Msg.code_hash \in Hash /\ Msg.wasm_admin \in Address
      /\ Msg.msg \in D!InstantiateMsg
  BY <1>1, MsgFields DEF Items
<1>3. dealer' \in DealerStorage /\ response' \in Response
  BY <1>2, DealerInstantiatesTypes, StateTypes DEF RunInstantiateDealer
<1>4. pending' \in Seq(Items)
  BY <1>1, <1>3, ScheduledNext, StateTypes, ContractsDiffer
     DEF RunInstantiateDealer, Response
<1> QED BY <1>2, <1>3, <1>4, CreateTypes, StepTypes, StateTypes, ContractsDiffer
        DEF RunInstantiateDealer, outside

\* The child's instantiation, which schedules the reply too, keeps types.
LEMMA RunInstantiateSnip721Types ==
  ASSUME TypeOK, RunInstantiateSnip721
  PROVE  TypeOK'
<1>1. /\ Item1 \in Items /\ Msg = Item1.msg /\ pending # << >>
      /\ Msg.type = "instantiate"
  BY PendingItems, StateTypes DEF RunInstantiateSnip721, Runs, Msg, Item1
<1>2. /\ Item1.from \in Address /\ Msg.code_hash \in Hash /\ Msg.wasm_admin \in Address
      /\ Msg.msg \in Snip721InstantiateMsg
  BY <1>1, MsgFields DEF Items
<1>3. CASE Refuse
  BY <1>1, <1>3, RefuseTypes DEF RunInstantiateSnip721
<1>4. CASE ~Refuse
  <2> DEFINE admin == Msg.msg.admin
             royalty_info == Msg.msg.royalty_info
             n == Msg.msg.max_migration_complete_event_subscribers
             reply == [type |-> "reply", id |-> Msg.reply_id, contract_address |-> SNIP]
             later == << Item(SNIP, {}, reply) >>
  <2>1. /\ Create(SNIP) /\ S!Instantiate(Item1.from, Msg.msg) /\ Schedule(SNIP, later)
        /\ UNCHANGED <<dealer, bank, outside>>
    BY <1>4 DEF RunInstantiateSnip721
  <2>2. /\ admin \in Address /\ n \in 0..255
        /\ Msg.msg = Snip721Instantiate(admin, royalty_info, n)
    BY <1>2 DEF Snip721InstantiateMsg, Snip721Instantiate
  <2>3. snip' \in Snip721Storage /\ response' \in Response
    <3>1. ChildFails \/ (snip' \in Snip721Storage /\ response' = Ok(<< >>))
      <4> HIDE DEF admin, n, royalty_info
      <4> QED BY ZenonT(30), <1>2, <2>1, <2>2, ChildInstantiates
    <3> QED BY <3>1, StateTypes, EmptyResponses DEF ChildFails
  <2>4. Msg.reply_id \in Nat
    BY <1>1 DEF Items, ChainMsg, SubMsg
  <2>5. reply \in ChainMsg
    BY <2>4, ContractsDiffer DEF ChainMsg
  <2>6. Item(SNIP, {}, reply) \in Items
    <3> HIDE DEF reply
    <3> QED BY <2>5, ContractsDiffer, NoFundsAreFunds DEF Item, Items
  <2>7. later \in Seq(Items)
    <3> DEFINE item == Item(SNIP, {}, reply)
    <3>1. item \in Items
      BY <2>6
    <3> HIDE DEF item
    <3>2. << item >> \in Seq(Items)
      BY <3>1
    <3> QED BY <3>2 DEF item
  <2> HIDE DEF later
  <2>8. pending' \in Seq(Items)
    BY <1>1, <2>1, <2>3, <2>7, Scheduled, StateTypes, ContractsDiffer DEF Response
  <2> QED BY <1>2, <2>1, <2>3, <2>8, CreateTypes, StepTypes, StateTypes, ContractsDiffer
          DEF outside
<1> QED BY <1>3, <1>4

\* The reply: the dealer knows whom to give the child to, and under which
\* hash the child runs.
LEMMA RunReplyTypes ==
  ASSUME TypeOK, RunReply,
         response'.ok => /\ dealer.admin \in Address /\ dealer.child_code_hash \in Hash
                         /\ codeHash[DEALER] \in Hash
  PROVE  TypeOK'
<1>1. /\ Item1 \in Items /\ Msg = Item1.msg /\ pending # << >>
      /\ Msg.type = "reply"
  BY PendingItems, StateTypes DEF RunReply, Runs, Msg, Item1
<1>2. Msg.contract_address \in Address
  BY <1>1, MsgFields DEF Items
<1> DEFINE child == Contract(Msg.contract_address, dealer.child_code_hash)
           self == Contract(DEALER, codeHash[DEALER])
<1>3. response'.ok => child \in ContractInfo /\ self \in ContractInfo
  BY <1>2, ContractsDiffer DEF Contract, ContractInfo
<1>4. dealer' \in DealerStorage /\ response' \in Response
  <2>1. CASE DealerFails
    BY <2>1, StateTypes, EmptyResponses DEF DealerFails
  <2>2. CASE /\ dealer' = [dealer EXCEPT !.child_address = Msg.contract_address,
                             !.subscribers = AddSubscriber(dealer.subscribers, child)]
             /\ response' = Ok(<< WasmExecute(child, SubscribeMsg(self)),
                                  WasmExecute(child, ChangeAdmin(dealer.admin)) >>)
    <3>0. response'.ok
      BY <2>2 DEF Ok
    <3> HIDE DEF child, self
    <3>1. AddSubscriber(dealer.subscribers, child) \in Seq(ContractInfo)
      BY <1>3, <3>0, AddSubscriberProperties, StateTypes DEF DealerStorage
    <3>2. dealer' \in DealerStorage
      BY <1>2, <2>2, <3>1, StateTypes DEF DealerStorage
    <3>3. /\ WasmExecute(child, SubscribeMsg(self)) \in SubMsg
          /\ WasmExecute(child, ChangeAdmin(dealer.admin)) \in SubMsg
      BY <1>3, <3>0 DEF WasmExecute, SubscribeMsg, ChangeAdmin, SubMsg, ExecuteBody
    <3> QED BY <2>2, <3>2, <3>3, ShortResponses
  <2> QED BY <2>1, <2>2, DealerReplies, StateTypes DEF RunReply
<1>5. pending' \in Seq(Items)
  BY <1>1, <1>4, ScheduledNext, StateTypes, ContractsDiffer DEF RunReply, Response
<1> QED BY <1>4, <1>5, StepTypes, StateTypes DEF RunReply, chain, outside

\* A broadcast is a response.
LEMMA BroadcastResponse ==
  ASSUME NEW subs \in Seq(ContractInfo), NEW self \in ContractInfo
  PROVE  Ok(Broadcast(subs, self)) \in Response
BY BroadcastType DEF Ok, Response

\* The contracts that the listener tells of its migration.
LEMMA ToldContracts ==
  ASSUME TypeOK, NEW notify \in Told, \A i \in DOMAIN notify : Exists(notify[i])
  PROVE  /\ [i \in DOMAIN notify |-> Current(notify[i])] \in Seq(ContractInfo)
         /\ DOMAIN [i \in DOMAIN notify |-> Current(notify[i])] = DOMAIN notify
<1>1. PICK n \in 0..2 : notify \in [1..n -> {DEALER, SNIP}]
  BY DEF Told
<1>2. n \in Nat /\ DOMAIN notify = 1..n
  BY <1>1
<1>3. \A i \in 1..n : Current(notify[i]) \in ContractInfo
  <2> TAKE i \in 1..n
  <2>1. notify[i] \in Address /\ codeHash[notify[i]] # Unset
    BY <1>1, <1>2, ContractsDiffer DEF Exists
  <2> QED BY <2>1, StateTypes DEF Current, Contract, ContractInfo
<1>4. [i \in 1..n |-> Current(notify[i])] \in Seq(ContractInfo)
  BY <1>2, <1>3, IsASeq
<1> QED BY <1>2, <1>4

\* A migration keeps types, if those whom the listener tells exist.
LEMMA RunMigrateTypes ==
  ASSUME TypeOK, RunMigrate, \A i \in DOMAIN Msg.notify : Exists(Msg.notify[i])
  PROVE  TypeOK'
<1>1. /\ Item1 \in Items /\ Msg = Item1.msg /\ pending # << >>
      /\ Msg.type = "migrate"
  BY PendingItems, StateTypes DEF RunMigrate, Runs, Msg, Item1
<1>2. /\ Msg.contract \in {DEALER, SNIP, EXT} /\ Msg.code_hash \in Hash
      /\ Msg.notify \in Told
  BY <1>1, MsgFields DEF Items
<1>3. ASSUME NEW c \in Address PROVE Contract(c, Msg.code_hash) \in ContractInfo
  BY <1>2 DEF Contract, ContractInfo
<1>4. CASE Refuse
  BY <1>1, <1>4, RefuseTypes DEF RunMigrate
<1>5. CASE ~Refuse
  <2>1. /\ codeHash' = [codeHash EXCEPT ![Msg.contract] = Msg.code_hash]
        /\ Schedule(Msg.contract, << >>)
        /\ UNCHANGED <<wasmAdmin, bank, outside>>
    BY <1>5 DEF RunMigrate
  <2>2. dealer' = dealer /\ snip' = snip /\ response' \in Response
    <3>1. CASE D!Migrate(Msg.code_hash) /\ UNCHANGED snip
      BY <1>3, <3>1, DealerMigrates, BroadcastResponse, StateTypes, ContractsDiffer
         DEF DealerStorage
    <3>2. CASE S!Migrate(Msg.code_hash) /\ UNCHANGED dealer
      BY <1>3, <3>2, ChildMigrates, BroadcastResponse, StateTypes, ContractsDiffer
         DEF Snip721Storage
    <3>3. CASE ExtMigrates
      <4>1. [i \in DOMAIN Msg.notify |-> Current(Msg.notify[i])] \in Seq(ContractInfo)
        BY <1>2, ToldContracts
      <4> QED BY <1>3, <3>3, <4>1, BroadcastResponse, ContractsDiffer DEF ExtMigrates
    <3> QED BY <1>5, <3>1, <3>2, <3>3 DEF RunMigrate
  <2>3. pending' \in Seq(Items)
    BY <1>1, <1>2, <2>1, <2>2, ScheduledNext, StateTypes, ContractsDiffer DEF Response
  <2>4. codeHash' \in [Address -> Hash \cup {Unset}]
    BY <1>2, <2>1, StateTypes
  <2> QED BY <2>1, <2>2, <2>3, <2>4, StepTypes, StateTypes DEF outside
<1> QED BY <1>4, <1>5

-----------------------------------------------------------------------------
(* Transactions start and end. *)

\* A message that an account submits is an item.
LEMMA OneItem ==
  ASSUME NEW from \in Address, NEW funds \in Funds, NEW msg \in ChainMsg
  PROVE  /\ Item(from, funds, msg) \in Items
         /\ << Item(from, funds, msg) >> \in Seq(Items)
<1> DEFINE item == Item(from, funds, msg)
<1>1. item \in Items
  BY DEF Item, Items
<1> HIDE DEF item
<1>2. << item >> \in Seq(Items)
  BY <1>1
<1> QED BY <1>1, <1>2 DEF item

\* A transaction that starts keeps types.
LEMMA BeginTypes ==
  ASSUME TypeOK, NEW t \in Transactions, t # NoTx, NEW msg \in ChainMsg, Begin(t, msg)
  PROVE  TypeOK'
<1>1. t.sender \in Address /\ t.funds \in Funds
  BY UsersAreNoContracts DEF Transactions, NoTx
<1>2. pending' \in Seq(Items)
  BY <1>1, OneItem DEF Begin
<1>3. World' = World
  BY DEF Begin, chain, World
<1> QED BY <1>2, <1>3 DEF TypeOK, Begin

\* A deployment that is submitted keeps types.
LEMMA SubmitInstantiateTypes ==
  ASSUME TypeOK, SubmitInstantiate
  PROVE  TypeOK'
<1>1. PICK u \in Deployers, wasm_admin \in Deployers, h \in DealerHash,
           admin \in Deployers \cup {Unset}, prices \in PriceLists,
           metadata \in MetadataOffers, royalty_info \in RoyaltyInfo,
           code_id \in SnipHash, code_hash \in SnipHash :
        Begin([kind |-> "instantiate", sender |-> u, funds |-> {}],
              [type |-> "instantiate_dealer", wasm_admin |-> wasm_admin, code_hash |-> h,
               msg |-> [admin |-> admin, prices |-> prices, metadata |-> metadata,
                        royalty_info |-> royalty_info,
                        snip721_code_id |-> code_id, snip721_code_hash |-> code_hash]])
  BY DEF SubmitInstantiate
<1> DEFINE init == [admin |-> admin, prices |-> prices, metadata |-> metadata,
                    royalty_info |-> royalty_info,
                    snip721_code_id |-> code_id, snip721_code_hash |-> code_hash]
           msg == [type |-> "instantiate_dealer", wasm_admin |-> wasm_admin,
                   code_hash |-> h, msg |-> init]
           t == [kind |-> "instantiate", sender |-> u, funds |-> {}]
<1>2. init \in D!InstantiateMsg
  BY UsersAreNoContracts, HashesAreStored, MetadataIsMetadata
     DEF D!InstantiateMsg, D!Metadata, Metadata, D!RoyaltyInfo, RoyaltyInfo
<1>3. msg \in ChainMsg
  <2> HIDE DEF init
  <2> QED BY <1>2, UsersAreNoContracts, HashesAreStored DEF ChainMsg
<1>4. t \in Transactions /\ t # NoTx
  BY NoFundsAreFunds, UsersAreNoContracts DEF Transactions, NoTx
<1>5. Begin(t, msg)
  BY <1>1
<1> HIDE DEF msg, t
<1> QED BY <1>3, <1>4, <1>5, BeginTypes

\* A call of a contract that is there.
LEMMA SubmitToTypes ==
  ASSUME TypeOK, NEW u \in Users, NEW contract \in {DEALER, SNIP, EXT},
         NEW funds \in Funds, NEW body \in Bodies, SubmitTo(u, contract, funds, body)
  PROVE  TypeOK'
<1> DEFINE t == [kind |-> "execute", sender |-> u, funds |-> funds,
                 contract |-> contract, body |-> body]
           msg == WasmExecute(Current(contract), body)
<1>1. Current(contract) \in ContractInfo
  BY StateTypes, ContractsDiffer DEF SubmitTo, Exists, Current, Contract, ContractInfo
<1>2. msg \in ChainMsg
  BY <1>1 DEF WasmExecute, ChainMsg
<1>3. t \in Transactions /\ t # NoTx
  BY DEF Transactions, NoTx
<1>4. Begin(t, msg)
  BY DEF SubmitTo
<1> HIDE DEF t, msg
<1> QED BY <1>2, <1>3, <1>4, BeginTypes

\* A call that is submitted keeps types.
LEMMA SubmitExecuteTypes ==
  ASSUME TypeOK, SubmitExecute
  PROVE  TypeOK'
<1>1. Requests \subseteq Bodies
  BY RequestsAreMessages DEF Bodies
<1> QED BY <1>1, SubmitToTypes, FundsAreCoins DEF SubmitExecute

\* A listener's call that is submitted keeps types.
LEMMA SubmitFollowTypes ==
  ASSUME TypeOK, SubmitFollow
  PROVE  TypeOK'
<1>1. PICK u \in Users, contract \in {DEALER, SNIP} :
        Exists(contract) /\ SubmitTo(u, EXT, {}, FollowMsg(Current(contract)))
  BY DEF SubmitFollow
<1>2. Current(contract) \in ContractInfo
  BY <1>1, StateTypes, ContractsDiffer DEF Exists, Current, Contract, ContractInfo
<1>3. FollowMsg(Current(contract)) \in Bodies
  BY <1>2 DEF Bodies
<1> QED BY <1>1, <1>3, SubmitToTypes, NoFundsAreFunds

\* The code that a contract migrates to is stored.
LEMMA CodeIsStored ==
  ASSUME NEW c \in {DEALER, SNIP, EXT} PROVE CodeFor(c) \subseteq Hash
BY HashesAreStored, ContractsDiffer DEF CodeFor

\* A migration that is submitted keeps types.
LEMMA SubmitMigrateTypes ==
  ASSUME TypeOK, SubmitMigrate
  PROVE  TypeOK'
<1>0. PICK u \in Users, contract \in {DEALER, SNIP, EXT}, notify \in Told :
        \E h \in CodeFor(contract) :
          Begin([kind |-> "migrate", sender |-> u, funds |-> {}, contract |-> contract],
                [type |-> "migrate", contract |-> contract, code_hash |-> h,
                 notify |-> notify])
  BY DEF SubmitMigrate
<1>1. PICK h \in CodeFor(contract) :
        Begin([kind |-> "migrate", sender |-> u, funds |-> {}, contract |-> contract],
              [type |-> "migrate", contract |-> contract, code_hash |-> h,
               notify |-> notify])
  BY <1>0
<1> DEFINE t == [kind |-> "migrate", sender |-> u, funds |-> {}, contract |-> contract]
           msg == [type |-> "migrate", contract |-> contract, code_hash |-> h,
                   notify |-> notify]
<1>2. msg \in ChainMsg
  BY CodeIsStored DEF ChainMsg
<1>3. t \in Transactions /\ t # NoTx
  BY NoFundsAreFunds DEF Transactions, NoTx
<1>4. Begin(t, msg)
  BY <1>1
<1> HIDE DEF t, msg
<1> QED BY <1>2, <1>3, <1>4, BeginTypes

\* The end of a transaction, by commit or by abort, keeps types.
LEMMA EndTypes ==
  ASSUME TypeOK, Commit \/ Abort
  PROVE  TypeOK'
<1>1. tx' \in Transactions /\ response' \in Response /\ pending' \in Seq(Items)
  BY EmptyResponses, EmptySeq DEF Commit, Abort, Rest, Transactions
<1>2. CASE Commit
  <2>1. World' = World /\ committed' = World
    BY <1>2 DEF Commit, chain, World
  <2> QED BY <1>1, <2>1 DEF TypeOK
<1>3. CASE Abort
  <2>1. committed \in WorldType /\ committed' = committed
    BY <1>3, StateTypes DEF Abort
  <2>2. World' = committed
    BY <1>3, <2>1 DEF Abort, World, WorldType
  <2> QED BY <1>1, <2>1, <2>2 DEF TypeOK
<1> QED BY <1>2, <1>3
=============================================================================
