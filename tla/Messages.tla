------------------------------ MODULE Messages ------------------------------
(***************************************************************************)
(* What the two contracts exchange with each other and with the chain: the *)
(* types of cosmwasm_std that the code uses (Coin, ContractInfo, CosmosMsg *)
(* and SubMsg, Response) and the bodies of the messages sent between       *)
(* contracts.  A string, a byte count or a gas amount is never looked at   *)
(* by the code in src/ and is left out; an address or a code hash is an    *)
(* atomic value, and of metadata and royalties there is only what decides  *)
(* whether the reference implementation accepts them.                      *)
(***************************************************************************)
EXTENDS Integers, Sequences, FiniteSets

CONSTANTS
  Address,    \* the addresses the chain's addr_validate accepts
  Hash,       \* code hashes of stored contract code
  Denom,      \* coin denominations
  Amount,     \* coin amounts
  TokenId,    \* token ids that a mint may ask for
  Unset       \* a storage item that was never saved, an Option that is None

ASSUME UnsetIsNoValue == Unset \notin Address \cup Hash \cup TokenId
ASSUME AmountIsPositive == Amount \subseteq Nat \ {0}

\* A token id is a string.  The decimal form of a token index, which is the id
\* of a token minted without one, is that number; a negative number stands for
\* any other string.
ASSUME TokenIdsAreNumbered == TokenId \subseteq Int

\* The public and private metadata of a token: each has a token_uri or an
\* extension at most, or one of them has both, which no mint accepts.
Metadata == {"one_form", "both_forms"}

\* Royalties that add up to 100% at most, or that do not.
RoyaltyInfo == {"valid", "excessive"}

Coin == [denom : Denom, amount : Amount]

\* The coins sent with a message: at most one of each denomination.
Funds == { f \in SUBSET Coin : \A c, d \in f : c.denom = d.denom => c = d }

\* A contract as another contract refers to it.
ContractInfo == [address : Address, code_hash : Hash]
Contract(address, code_hash) == [address |-> address, code_hash |-> code_hash]

-----------------------------------------------------------------------------
(* Bodies of execute messages. *)

SubscribeMsg(contract) ==
  [tag |-> "subscribe_to_migration_complete_event", contract |-> contract]

NotificationMsg(to) ==
  [tag |-> "migration_complete_notification", to |-> to]

MintNft(token_id, owner, metadata) ==
  [tag |-> "mint_nft", token_id |-> token_id, owner |-> owner, metadata |-> metadata]

ChangeAdmin(address) == [tag |-> "change_admin", address |-> address]

ExecuteBody ==
  [tag : {"subscribe_to_migration_complete_event"}, contract : ContractInfo] \cup
  [tag : {"migration_complete_notification"}, to : ContractInfo] \cup
  [tag : {"mint_nft"}, token_id : TokenId \cup {Unset}, owner : Address,
   metadata : Metadata] \cup
  [tag : {"change_admin"}, address : Address]

-----------------------------------------------------------------------------
(* Messages a contract hands back to the chain.  Each of them aborts the   *)
(* whole transaction when it fails; only an instantiation asks for a reply *)
(* (ReplyOn::Success), the others are ReplyOn::Never.                      *)

WasmExecute(contract, body) ==
  [type |-> "execute", contract |-> contract, body |-> body]

BankSend(to_address, amount) ==
  [type |-> "bank_send", to_address |-> to_address, amount |-> amount]

WasmInstantiate(wasm_admin, code_id, code_hash, msg, reply_id) ==
  [type |-> "instantiate", wasm_admin |-> wasm_admin, code_id |-> code_id,
   code_hash |-> code_hash, msg |-> msg, reply_id |-> reply_id]

\* The instantiate message of snip721-migratable.
Snip721Instantiate(admin, royalty_info, max_subscribers) ==
  [admin |-> admin, royalty_info |-> royalty_info,
   max_migration_complete_event_subscribers |-> max_subscribers]

Snip721InstantiateMsg ==
  [admin : Address, royalty_info : RoyaltyInfo,
   max_migration_complete_event_subscribers : 0..255]

\* A code id identifies the stored code by the hash the chain keeps for it.
SubMsg ==
  [type : {"execute"}, contract : ContractInfo, body : ExecuteBody] \cup
  [type : {"bank_send"}, to_address : Address, amount : SUBSET Coin] \cup
  [type : {"instantiate"}, wasm_admin : Address, code_id : Hash,
   code_hash : Hash, msg : Snip721InstantiateMsg, reply_id : Nat]

\* What a handler returns: Err, or Ok with the messages to run next.
Response == [ok : BOOLEAN, msgs : Seq(SubMsg)]
Err == [ok |-> FALSE, msgs |-> << >>]
Ok(msgs) == [ok |-> TRUE, msgs |-> msgs]
=============================================================================
