\* Purchases with right and wrong payments between migrations and changes of
\* the child's minters and status.
SPECIFICATION Spec
CONSTANTS
  DEALER = DEALER
  SNIP = SNIP
  EXT = EXT
  alice = alice
  bob = bob
  D1 = D1
  D2 = D2
  S1 = S1
  S2 = S2
  E1 = E1
  E2 = E2
  Unset = Unset
  Address <- MCAddress
  Hash <- MCHash
  Users = {alice, bob}
  Deployers = {alice}
  DealerHash = {D1, D2}
  SnipHash = {S1, S2}
  ExtHash = {}
  Denom = {"uscrt", "ueth"}
  Amount = {1, 2}
  TokenId <- MCTokenId
  MetadataOffers <- AnyForm
  PriceLists <- SomePrices
  Requests <- Sales
  FundsSent <- SomeFunds
  InitialBalance = 2
  MaxTokens = 2
  MaxSubscribers = 1
INVARIANTS
  MintIffPaid
  PurchaseNeverRefused
PROPERTY ImplementsPromise
