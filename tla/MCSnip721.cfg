\* The token contract under an arbitrary sequence of calls.
SPECIFICATION Spec
CONSTANTS
  SnipAddr = SnipAddr
  UserAddr = UserAddr
  Malformed = Malformed
  H1 = H1
  H2 = H2
  Unset = Unset
  Self = SnipAddr
  Address <- MCAddress
  AddressStrings <- MCAddressStrings
  Hash <- MCHash
  Denom = {"uscrt"}
  Amount = {1}
  TokenId = {1}
  MaxSlots = 3
  MaxTokens = 2
INVARIANT TypeOK
PROPERTY SlotBudgetNeverGrows
