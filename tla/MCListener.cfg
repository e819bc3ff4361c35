\* A listener registers with the dealer and later migrates: the dealer can no
\* longer be migrated.
SPECIFICATION Spec
CONSTANTS
  DEALER = DEALER
  SNIP = SNIP
  EXT = EXT
  alice = alice
  bob = bob
  D1 = D1
  D2 = D2
  S1 = S1
  S2 = S2
  E1 = E1
  E2 = E2
  Unset = Unset
  Address <- MCAddress
  Hash <- MCHash
  Users = {alice, bob}
  Deployers = {alice}
  DealerHash = {D1, D2}
  SnipHash = {S1, S2}
  ExtHash = {E1, E2}
  Denom = {"uscrt"}
  Amount = {1}
  TokenId <- MCTokenId
  MetadataOffers <- OneForm
  PriceLists <- OnePrice
  Requests <- NoRequests
  FundsSent <- NoFunds
  InitialBalance = 0
  MaxTokens = 0
  MaxSubscribers = 3
INVARIANT DealerMigrationNeverRefused
