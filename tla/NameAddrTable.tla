---------------------------- MODULE NameAddrTable ----------------------------
(***************************************************************************)
(* The operations on name_addr_cache (Utils.c) as operators on a table: a  *)
(* function from slots to entries or NoEntry.  NameAddrCache makes one     *)
(* table a state machine; SmartHomeNet keeps one table per device.         *)
(*                                                                         *)
(* osal_mem_alloc is taken to succeed: the code does not test its result.  *)
(***************************************************************************)
EXTENDS Integers

CONSTANTS
  Name,                  \* device names (NUL-terminated strings in the code)
  Addr,                  \* unicast short addresses
  Broadcast,             \* the address 0xFFFF
  NAME_ADDR_CACHE_SIZE,  \* number of slots, 5 in the code
  NoEntry                \* a NULL slot

Slot == 0 .. NAME_ADDR_CACHE_SIZE - 1
Entry == [addr : Addr, name : Name]
Table == [Slot -> Entry \cup {NoEntry}]

ASSUME SizeAssumption == NAME_ADDR_CACHE_SIZE \in Nat \ {0}
ASSUME NoEntryAssumption == NoEntry \notin Entry
ASSUME BroadcastAssumption == Broadcast \notin Addr

EmptyTable == [s \in Slot |-> NoEntry]

\* The entries of table t, wherever they are.
Entries(t) == {t[s] : s \in {r \in Slot : t[r] # NoEntry}}

\* NameAddrCache_delete: every entry with this address is freed.
Deleted(t, a) ==
  [s \in Slot |-> IF t[s] # NoEntry /\ t[s].addr = a THEN NoEntry ELSE t[s]]

\* Mutant: only the address is compared, so a device that moved is held twice.
WithoutMatchAddrOnly(t, n, a) ==
  [s \in Slot |-> IF t[s] # NoEntry /\ t[s].addr = a THEN NoEntry ELSE t[s]]

\* The first loop of NameAddrCache_put: every entry with this address or this
\* name is freed.
WithoutMatch(t, n, a) ==
  [s \in Slot |-> IF t[s] # NoEntry /\ (t[s].addr = a \/ t[s].name = n)
                  THEN NoEntry ELSE t[s]]

\* NameAddrCache_put: the slot at the index is freed, whatever it holds and
\* whatever other slot is free, and takes the new entry.
Put(t, idx, n, a) ==
  [WithoutMatch(t, n, a) EXCEPT ![idx] = [addr |-> a, name |-> n]]

\* Mutant: the index is advanced and never wrapped.
NextIdxUnwrapped(idx) == idx + 1

\* Mutant: the index stays, and every put overwrites the same slot.
NextIdxStuck(idx) == idx

\* name_addr_cache_idx after a put.
NextIdx(idx) == (idx + 1) % NAME_ADDR_CACHE_SIZE

\* The slots NameAddrCache_getAddrFromCmd stops at for the name n: the first match.
FirstMatch(t, n) ==
  {s \in Slot : /\ t[s] # NoEntry /\ t[s].name = n
                /\ \A r \in Slot : r < s => t[r] = NoEntry \/ t[r].name # n}

\* NameAddrCache_getAddrFromCmd, after the name was cut out of the command.
GetAddr(t, n) ==
  IF FirstMatch(t, n) = {} THEN Broadcast
  ELSE t[CHOOSE s \in FirstMatch(t, n) : TRUE].addr

=============================================================================
