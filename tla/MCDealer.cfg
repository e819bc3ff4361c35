\* The dealer under an arbitrary sequence of calls.
SPECIFICATION Spec
CONSTANTS
  DealerAddr = DealerAddr
  SnipAddr = SnipAddr
  OtherAddr = OtherAddr
  Malformed = Malformed
  H1 = H1
  H2 = H2
  Unset = Unset
  Self = DealerAddr
  Address <- MCAddress
  AddressStrings <- MCAddressStrings
  Hash <- MCHash
  Denom = {"uscrt", "ueth"}
  Amount = {1, 2}
  TokenId = {1}
  PriceLists <- MCPriceLists
  MaxSubscribers = 2
INVARIANTS
  TypeOK
  ChildIsSubscribed
