------------------------- MODULE NameAddrCache_proofs -------------------------
(***************************************************************************)
(* Proofs about NameAddrCache for every set of names and addresses and     *)
(* every positive number of slots: type correctness, that no name and no   *)
(* address is held twice, and that the round-robin table implements the    *)
(* directory of NameDirectory.                                             *)
(***************************************************************************)
EXTENDS NameAddrCache, TLAPS

-----------------------------------------------------------------------------
(* The operations on the name/address table *)

\* The index stays a slot number.
LEMMA NextIdxInSlot ==
  ASSUME NEW slot \in Slot
  PROVE  /\ NextIdx(slot) \in Slot
         /\ NextIdx(slot) = IF slot = NAME_ADDR_CACHE_SIZE - 1 THEN 0 ELSE slot + 1
  BY SizeAssumption DEF NextIdx, Slot

\* Deleting by address, or by address or name, gives a table.
LEMMA TableClosed ==
  ASSUME NEW t \in Table, NEW n \in Name, NEW a \in Addr, NEW i \in Slot
  PROVE  /\ Deleted(t, a) \in Table
         /\ WithoutMatch(t, n, a) \in Table
         /\ Put(t, i, n, a) \in Table
  BY DEF Table, Entry, Deleted, WithoutMatch, Put

-----------------------------------------------------------------------------

\* Type correctness: the index never leaves the table (Utils.c 136-138).
THEOREM TypeCorrect == Spec => []TypeOK
<1>1. Init => TypeOK
  BY SizeAssumption DEF Init, TypeOK, EmptyTable, Table, Slot
<1>2. TypeOK /\ [Next]_vars => TypeOK'
  <2> SUFFICES ASSUME TypeOK, [Next]_vars PROVE TypeOK'
    OBVIOUS
  <2>1. ASSUME NEW n \in Name, NEW a \in Addr, NameAddrCache_put(n, a)
        PROVE  TypeOK'
    BY <2>1, TableClosed, NextIdxInSlot DEF TypeOK, NameAddrCache_put
  <2>2. ASSUME NEW a \in Addr, NameAddrCache_delete(a)
        PROVE  TypeOK'
    BY <2>2 DEF TypeOK, NameAddrCache_delete, Deleted, Table
  <2>3. CASE UNCHANGED vars
    BY <2>3 DEF TypeOK, vars
  <2> QED
    BY <2>1, <2>2, <2>3 DEF Next
<1> QED
  BY <1>1, <1>2, PTL DEF Spec

-----------------------------------------------------------------------------
(* No name and no address twice *)

\* A put first frees every slot that speaks of the new pair, a delete only
\* frees slots: neither can make two slots agree on a name or an address.
THEOREM CacheOneToOne == Spec => []OneToOne
<1>1. Init => OneToOne
  BY DEF Init, OneToOne, EmptyTable
<1>2. TypeOK /\ OneToOne /\ [Next]_vars => OneToOne'
  <2> SUFFICES ASSUME TypeOK, OneToOne, [Next]_vars PROVE OneToOne'
    OBVIOUS
  <2>1. ASSUME NEW n \in Name, NEW a \in Addr, NameAddrCache_put(n, a)
        PROVE  OneToOne'
    <3> DEFINE i == name_addr_cache_idx
               t == name_addr_cache
               u == Put(t, i, n, a)
    <3>1. t \in Table /\ i \in Slot /\ name_addr_cache' = u
      BY <2>1 DEF TypeOK, NameAddrCache_put
    <3> SUFFICES ASSUME NEW s \in Slot, NEW r \in Slot,
                        u[s] # NoEntry, u[r] # NoEntry,
                        u[s].name = u[r].name \/ u[s].addr = u[r].addr
                 PROVE  s = r
      BY <3>1 DEF OneToOne
    <3>2. u[i].addr = a /\ u[i].name = n
      BY <3>1 DEF Put, WithoutMatch, Table
    <3>3. \A q \in Slot : q # i /\ u[q] # NoEntry =>
            u[q] = t[q] /\ t[q] # NoEntry /\ u[q].addr # a /\ u[q].name # n
      BY <3>1 DEF Put, WithoutMatch, Table
    <3>4. CASE s = i /\ r # i
      BY <3>2, <3>3, <3>4
    <3>5. CASE s # i /\ r = i
      BY <3>2, <3>3, <3>5
    <3>6. CASE s # i /\ r # i
      BY <3>3, <3>6 DEF OneToOne
    <3> QED
      BY <3>4, <3>5, <3>6
  <2>2. ASSUME NEW a \in Addr, NameAddrCache_delete(a)
        PROVE  OneToOne'
    BY <2>2 DEF OneToOne, NameAddrCache_delete, Deleted, TypeOK, Table
  <2>3. CASE UNCHANGED vars
    BY <2>3 DEF OneToOne, vars
  <2> QED
    BY <2>1, <2>2, <2>3 DEF Next
<1> QED
  BY <1>1, <1>2, TypeCorrect, PTL DEF Spec

-----------------------------------------------------------------------------
(* The table implements the directory *)

\* The age of slot s when the index is i: Age(s) for any index.
LOCAL AgeIn(i, s) == IF s < i THEN i - 1 - s ELSE i - 1 - s + NAME_ADDR_CACHE_SIZE

\* Ages run from 0, the slot just written, to NAME_ADDR_CACHE_SIZE - 1, the
\* slot the index points at; a put makes every other slot one put older.
LEMMA AgeSteps ==
  ASSUME NEW i \in Slot
  PROVE  /\ AgeIn(NextIdx(i), i) = 0
         /\ \A s \in Slot :
              /\ AgeIn(i, s) < NAME_ADDR_CACHE_SIZE - 1 <=> s # i
              /\ s # i => AgeIn(NextIdx(i), s) = AgeIn(i, s) + 1
  BY NextIdxInSlot, SizeAssumption DEF AgeIn, Slot

\* Every put is a Learn and every delete a Forget of the directory read off the
\* slots, which starts out empty: the table forgets nothing early.
THEOREM CacheImplementsDirectory == Spec => ImplementsDirectory
<1> DEFINE B == {BindingOf(s) : s \in Occupied}
<1>1. Init => Directory!Init
  BY DEF Init, Directory!Init, Occupied, EmptyTable
<1>2. TypeOK /\ [Next]_vars => [Directory!Next]_B
  <2> SUFFICES ASSUME TypeOK, [Next]_vars PROVE [Directory!Next]_B
    OBVIOUS
  <2> DEFINE i == name_addr_cache_idx
             t == name_addr_cache
  <2>t. t \in Table /\ i \in Slot
    BY DEF TypeOK
  <2>1. ASSUME NEW n \in Name, NEW a \in Addr, NameAddrCache_put(n, a)
        PROVE  Directory!Next
    <3> DEFINE u == Put(t, i, n, a)
               j == NextIdx(i)
               New == [name |-> n, addr |-> a, age |-> 0]
               Kept == {c \in Directory!Untouched(n, a) : c.age < NAME_ADDR_CACHE_SIZE - 1}
    <3>1. name_addr_cache' = u /\ name_addr_cache_idx' = j
      BY <2>1 DEF NameAddrCache_put
    <3>2. B' = {[name |-> u[s].name, addr |-> u[s].addr, age |-> AgeIn(j, s)] :
                  s \in {r \in Slot : u[r] # NoEntry}}
      BY <3>1 DEF BindingOf, Occupied, Age, AgeIn
    <3>3. \A s \in Slot : BindingOf(s) = [name |-> t[s].name, addr |-> t[s].addr,
                                          age |-> AgeIn(i, s)]
      BY DEF BindingOf, Age, AgeIn
    <3>4. u[i] = [addr |-> a, name |-> n] /\ u[i] # NoEntry
      BY <2>t, NoEntryAssumption DEF Put, WithoutMatch, Table, Entry
    <3>5. \A s \in Slot : s # i =>
            /\ u[s] # NoEntry <=> t[s] # NoEntry /\ t[s].addr # a /\ t[s].name # n
            /\ u[s] # NoEntry => u[s] = t[s]
      BY <2>t DEF Put, WithoutMatch, Table
    <3>6. /\ AgeIn(j, i) = 0
          /\ \A s \in Slot : AgeIn(i, s) < NAME_ADDR_CACHE_SIZE - 1 <=> s # i
          /\ \A s \in Slot : s # i => AgeIn(j, s) = AgeIn(i, s) + 1
      BY <2>t, AgeSteps
    <3>7. Kept = {BindingOf(s) : s \in {r \in Slot : r # i /\ u[r] # NoEntry}}
      BY <3>3, <3>5, <3>6 DEF Occupied, Directory!Untouched
    <3> HIDE DEF u, j, Kept
    <3>8. \A s \in Slot : s # i /\ u[s] # NoEntry =>
            Directory!Older(BindingOf(s)) =
              [name |-> u[s].name, addr |-> u[s].addr, age |-> AgeIn(j, s)]
      BY <3>3, <3>5, <3>6 DEF Directory!Older
    <3>9. B' = {Directory!Older(c) : c \in Kept} \cup {New}
      <4>1. {Directory!Older(c) : c \in Kept} =
              {Directory!Older(BindingOf(s)) : s \in {r \in Slot : r # i /\ u[r] # NoEntry}}
        BY <3>7
      <4>2. @ = {[name |-> u[s].name, addr |-> u[s].addr, age |-> AgeIn(j, s)] :
                   s \in {r \in Slot : r # i /\ u[r] # NoEntry}}
        BY <3>8
      <4>3. New = [name |-> u[i].name, addr |-> u[i].addr, age |-> AgeIn(j, i)]
        BY <3>4, <3>6
      <4> QED
        BY <4>1, <4>2, <4>3, <3>2, <3>4, <2>t
    <3> QED
      <4>1. Directory!Learn(n, a)
        BY <3>9 DEF Directory!Learn, Kept
      <4> QED
        BY <4>1 DEF Directory!Next
  <2>2. ASSUME NEW a \in Addr, NameAddrCache_delete(a)
        PROVE  Directory!Next
    <3>1. \A s \in Slot : Age(s)' = Age(s)
      BY <2>2 DEF NameAddrCache_delete, Age
    <3>2. Occupied' = {s \in Occupied : t[s].addr # a}
      BY <2>2, <2>t DEF NameAddrCache_delete, Deleted, Occupied
    <3>3. \A s \in Occupied' : t'[s] = t[s]
      BY <2>2, <2>t, <3>2 DEF NameAddrCache_delete, Deleted, Occupied
    <3>4. \A s \in Occupied' : BindingOf(s)' = BindingOf(s)
      BY <3>1, <3>3 DEF BindingOf, Occupied
    <3>5. B' = {b \in B : b.addr # a}
      <4>1. B' = {BindingOf(s) : s \in {r \in Occupied : t[r].addr # a}}
        BY <3>2, <3>4
      <4> QED
        BY <4>1 DEF BindingOf
    <3> QED
      BY <3>5 DEF Directory!Next, Directory!Forget
  <2>3. CASE UNCHANGED vars
    <3>1. B' = B
      BY <2>3 DEF vars, Occupied, BindingOf, Age
    <3> QED
      BY <3>1
  <2> QED
    BY <2>1, <2>2, <2>3 DEF Next
<1> QED
  BY <1>1, <1>2, TypeCorrect, PTL DEF Spec, ImplementsDirectory, Directory!Spec

=============================================================================
