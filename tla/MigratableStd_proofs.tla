------------------------ MODULE MigratableStd_proofs ------------------------
(***************************************************************************)
(* What the operations on the list of subscribers return and preserve.     *)
(***************************************************************************)
EXTENDS MigratableStd, SequenceTheorems, WellFoundedInduction, TLAPS

\* Adding keeps the list a list, loses no entry, and the contract is in it.
LEMMA AddSubscriberProperties ==
  ASSUME NEW subs \in Seq(ContractInfo), NEW c \in ContractInfo
  PROVE  /\ AddSubscriber(subs, c) \in Seq(ContractInfo)
         /\ c \in Range(AddSubscriber(subs, c))
         /\ Range(subs) \subseteq Range(AddSubscriber(subs, c))
         /\ Len(AddSubscriber(subs, c)) \in {Len(subs), Len(subs) + 1}
<1>1. CASE c \in Range(subs)
  BY <1>1 DEF AddSubscriber
<1>2. CASE c \notin Range(subs)
  <2>1. AddSubscriber(subs, c) = Append(subs, c)
    BY <1>2 DEF AddSubscriber
  <2>2. /\ Append(subs, c) \in Seq(ContractInfo)
        /\ Len(Append(subs, c)) = Len(subs) + 1
        /\ \A i \in 1..Len(subs) : Append(subs, c)[i] = subs[i]
        /\ Append(subs, c)[Len(subs) + 1] = c
    BY AppendProperties
  <2>3. c \in Range(Append(subs, c))
    BY <2>2 DEF Range
  <2>4. Range(subs) \subseteq Range(Append(subs, c))
    BY <2>2 DEF Range
  <2> QED BY <2>1, <2>2, <2>3, <2>4
<1> QED BY <1>1, <1>2

\* An address with an entry has a first entry.
LEMMA FirstEntryExists ==
  ASSUME NEW subs \in Seq(ContractInfo), NEW a,
         NEW k \in DOMAIN subs, subs[k].address = a
  PROVE  \E i \in DOMAIN subs : IsFirstEntry(subs, a, i)
<1> DEFINE hits == {i \in DOMAIN subs : subs[i].address = a}
<1>1. hits \subseteq Nat /\ hits # {}
  BY LenProperties
<1>2. PICK i \in hits : \A j \in hits : ~(<<j, i>> \in OpToRel(<, Nat))
  BY <1>1, NatLessThanWellFounded, WFMin
<1>3. \A j \in 1..(i - 1) : j \in DOMAIN subs
  BY LenProperties
<1>4. \A j \in 1..(i - 1) : <<j, i>> \in OpToRel(<, Nat)
  BY <1>1 DEF OpToRel
<1>5. IsFirstEntry(subs, a, i)
  BY <1>2, <1>3, <1>4 DEF IsFirstEntry
<1> QED BY <1>5

\* Updating keeps the list a list of the same length.
LEMMA UpdateSubscriberType ==
  ASSUME NEW subs \in Seq(ContractInfo), NEW from, NEW to \in ContractInfo
  PROVE  /\ UpdateSubscriber(subs, from, to) \in Seq(ContractInfo)
         /\ Len(UpdateSubscriber(subs, from, to)) = Len(subs)
<1> DEFINE s == UpdateSubscriber(subs, from, to)
<1>1. \A i \in 1..Len(subs) : s[i] \in ContractInfo
  BY LenProperties, ElementOfSeq DEF UpdateSubscriber
<1>2. s = [i \in 1..Len(subs) |-> s[i]]
  BY LenProperties DEF UpdateSubscriber
<1>3. Len(subs) \in Nat
  BY LenProperties
<1>4. s \in Seq(ContractInfo) /\ Len(s) = Len(subs)
  <2> HIDE DEF s
  <2> QED BY <1>1, <1>2, <1>3, IsASeq
<1> QED BY <1>4

\* A contract with an entry that migrates has an entry afterwards.
LEMMA UpdateSubscriberReplaces ==
  ASSUME NEW subs \in Seq(ContractInfo), NEW from, NEW to \in ContractInfo,
         \E c \in Range(subs) : c.address = from
  PROVE  to \in Range(UpdateSubscriber(subs, from, to))
<1>1. PICK k \in DOMAIN subs : subs[k].address = from
  BY DEF Range
<1>2. PICK i \in DOMAIN subs : IsFirstEntry(subs, from, i)
  BY <1>1, FirstEntryExists
<1>3. /\ i \in DOMAIN UpdateSubscriber(subs, from, to)
      /\ UpdateSubscriber(subs, from, to)[i] = to
  BY <1>2 DEF UpdateSubscriber
<1> QED BY <1>3 DEF Range

\* The notifications of a migration are messages a contract may return.
LEMMA BroadcastType ==
  ASSUME NEW subs \in Seq(ContractInfo), NEW self \in ContractInfo
  PROVE  Broadcast(subs, self) \in Seq(SubMsg)
<1> DEFINE b == Broadcast(subs, self)
<1>1. NotificationMsg(self) \in ExecuteBody
  BY DEF NotificationMsg, ExecuteBody
<1>2. \A i \in 1..Len(subs) : b[i] \in SubMsg
  <2> TAKE i \in 1..Len(subs)
  <2>1. subs[i] \in ContractInfo
    BY ElementOfSeq
  <2>2. b[i] = WasmExecute(subs[i], NotificationMsg(self))
    BY LenProperties DEF Broadcast
  <2> QED BY <1>1, <2>1, <2>2 DEF WasmExecute, SubMsg
<1>3. b = [i \in 1..Len(subs) |-> b[i]]
  BY LenProperties DEF Broadcast
<1>4. Len(subs) \in Nat
  BY LenProperties
<1>5. b \in Seq(SubMsg)
  <2> HIDE DEF b
  <2> QED BY <1>2, <1>3, <1>4, IsASeq
<1> QED BY <1>5

\* A response without messages, and an error, are responses.
LEMMA EmptyResponses == Err \in Response /\ Ok(<< >>) \in Response
<1>1. << >> \in Seq(SubMsg)
  BY EmptySeq
<1> QED BY <1>1 DEF Err, Ok, Response

\* A list of one or of two messages is a list of messages.
LEMMA ShortResponses ==
  ASSUME NEW m \in SubMsg, NEW n \in SubMsg
  PROVE  Ok(<<m>>) \in Response /\ Ok(<<m, n>>) \in Response
<1>1. <<m>> \in Seq(SubMsg) /\ <<m, n>> \in Seq(SubMsg)
  OBVIOUS
<1> QED BY <1>1 DEF Ok, Response
=============================================================================
