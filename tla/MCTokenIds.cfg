\* A minter gives a token the id that the next sale would get.
SPECIFICATION Spec
CONSTANTS
  DEALER = DEALER
  SNIP = SNIP
  EXT = EXT
  alice = alice
  bob = bob
  D1 = D1
  D2 = D2
  S1 = S1
  S2 = S2
  E1 = E1
  E2 = E2
  Unset = Unset
  Address <- MCAddress
  Hash <- MCHash
  Users = {alice, bob}
  Deployers = {alice}
  DealerHash = {D1, D2}
  SnipHash = {S1, S2}
  ExtHash = {}
  Denom = {"uscrt"}
  Amount = {1}
  TokenId <- MCTokenId
  MetadataOffers <- OneForm
  PriceLists <- OnePrice
  Requests <- NamedTokens
  FundsSent <- NoneOrPrice
  InitialBalance = 2
  MaxTokens = 2
  MaxSubscribers = 1
INVARIANT AnyoneCanBuy
