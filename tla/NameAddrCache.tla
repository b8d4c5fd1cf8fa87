---------------------------- MODULE NameAddrCache ----------------------------
(***************************************************************************)
(* The name/address cache of one device (Utils.c 78-208): name_addr_cache, *)
(* a table of NAME_ADDR_CACHE_SIZE pointers, and name_addr_cache_idx, the  *)
(* slot the next put overwrites.  The application task and the UART        *)
(* callback, its only callers, run on the same thread: a call is one step. *)
(***************************************************************************)
EXTENDS NameAddrTable

VARIABLES
  name_addr_cache,
  name_addr_cache_idx

vars == <<name_addr_cache, name_addr_cache_idx>>

Init ==
  /\ name_addr_cache = EmptyTable
  /\ name_addr_cache_idx = 0

NameAddrCache_put(n, a) ==
  /\ name_addr_cache' = Put(name_addr_cache, name_addr_cache_idx, n, a)
  /\ name_addr_cache_idx' = NextIdx(name_addr_cache_idx)

NameAddrCache_delete(a) ==
  /\ name_addr_cache' = Deleted(name_addr_cache, a)
  /\ UNCHANGED name_addr_cache_idx

Next ==
  \/ \E n \in Name, a \in Addr : NameAddrCache_put(n, a)
  \/ \E a \in Addr : NameAddrCache_delete(a)

Spec == Init /\ [][Next]_vars

-----------------------------------------------------------------------------
(* Properties *)

\* The index stays inside the table, and every slot is NULL or an entry.
TypeOK ==
  /\ name_addr_cache \in Table
  /\ name_addr_cache_idx \in Slot

\* No name and no address is held by two slots, so that the first match that
\* NameAddrCache_getAddrFromCmd stops at is the only one, and one delete by
\* address cannot leave another name pointing at the dead address.
OneToOne ==
  \A s, r \in Slot :
    /\ name_addr_cache[s] # NoEntry
    /\ name_addr_cache[r] # NoEntry
    /\ \/ name_addr_cache[s].name = name_addr_cache[r].name
       \/ name_addr_cache[s].addr = name_addr_cache[r].addr
    => s = r

-----------------------------------------------------------------------------
(* The directory the cache implements *)

\* How many puts ago the entry in slot s was written: the index has moved
\* that many slots past it.
Age(s) == IF s < name_addr_cache_idx
          THEN name_addr_cache_idx - 1 - s
          ELSE name_addr_cache_idx - 1 - s + NAME_ADDR_CACHE_SIZE

Occupied == {s \in Slot : name_addr_cache[s] # NoEntry}

\* The directory's bindings, read off the slots.
BindingOf(s) == [name |-> name_addr_cache[s].name,
                 addr |-> name_addr_cache[s].addr,
                 age  |-> Age(s)]

Directory ==
  INSTANCE NameDirectory WITH Capacity <- NAME_ADDR_CACHE_SIZE,
                              bindings <- {BindingOf(s) : s \in Occupied}

\* The round-robin table is a directory whose bindings live for exactly
\* NAME_ADDR_CACHE_SIZE puts: a put or a delete loses nothing but what it
\* contradicts and the binding that is NAME_ADDR_CACHE_SIZE puts old.
ImplementsDirectory == Directory!Spec

=============================================================================
