--------------------------- MODULE MigratableStd ---------------------------
(***************************************************************************)
(* The library cw_migratable_contract_std as the two contracts use it: the *)
(* list of subscribers to "migration complete" and the operations on it.   *)
(* The library is a git dependency, so these definitions follow its        *)
(* callers, the unit tests beside them and the behaviour of the contracts' *)
(* compiled form.                                                          *)
(***************************************************************************)
EXTENDS Messages, Functions

\* An address is checked when it is stored.
IsValid(contract) == contract.address \in Address

\* add_migration_complete_event_subscriber: an entry already present, with
\* the same address and the same code hash, is not added again.
AddSubscriber(subscribers, contract) ==
  IF contract \in Range(subscribers)
  THEN subscribers
  ELSE Append(subscribers, contract)

\* The position of the first entry with this address.
IsFirstEntry(subscribers, address, i) ==
  /\ subscribers[i].address = address
  /\ \A j \in 1..(i - 1) : subscribers[j].address # address

\* update_migrated_subscriber: the first entry of the contract that migrated
\* is replaced; without such an entry nothing changes.
UpdateSubscriber(subscribers, from, to) ==
  [i \in DOMAIN subscribers |->
     IF IsFirstEntry(subscribers, from, i) THEN to ELSE subscribers[i]]

\* create_broadcast_migration_complete_notification_msgs: one notification
\* per entry, in order, addressed with the code hash of the entry.
Broadcast(subscribers, self) ==
  [i \in DOMAIN subscribers |->
     WasmExecute(subscribers[i], NotificationMsg(self))]
============================================================================
