------------------------------- MODULE OsalNv -------------------------------
(***************************************************************************)
(* Items in flash pages (OSAL_Nv.c).  An item is never changed in place: a *)
(* new one is written behind the last, and the old one then zeroed.  One   *)
(* page is kept erased, in reserve; a page without room is compacted, its  *)
(* live items copied to the reserve page, put in use, and then erased.     *)
(* Every write to the flash is a step, after which the power may fail; at  *)
(* power-up initNV puts right what it finds, and may be interrupted too.   *)
(*                                                                         *)
(* Calls that change nothing are left out: a write of the value an item    *)
(* has, a write to an item that is not there, and whatever finds no room.  *)
(* The flash itself works: what is written can be read back, so that the   *)
(* branches for a write that failed are left out.                          *)
(***************************************************************************)
EXTENDS Naturals, Sequences, FiniteSets

CONSTANTS
  Pages,       \* number of pages
  PageSize,    \* the room for items in a page
  Id,          \* the ids of items
  hotIds,      \* those whose place is kept in RAM
  Size,        \* the size of each item, with its header
  Value,       \* values
  TornErase    \* an interrupted erase may clear the mark of compaction alone

Zeroed == "zeroed"      \* OSAL_NV_ZEROED_ID

ASSUME PagesAssumption == Pages \in Nat /\ Pages >= 2
ASSUME SizeAssumption == PageSize \in Nat /\ Size \in [Id -> 1 .. PageSize] /\ hotIds \subseteq Id
ASSUME IdAssumption == Zeroed \notin Id
ASSUME FaultAssumption == TornErase \in BOOLEAN

Page == 1 .. Pages
NoPage == 0             \* OSAL_NV_PAGE_NULL
NoPlace == <<0, 0>>
NoValue == "no value"
Garbage == "garbage"    \* data that is not written, or only in part

VARIABLES
  flash,     \* the pages
  pgRes,     \* the reserve page
  hot,       \* hotPg and hotOff: the places of hot items
  pc,        \* the write to the flash that comes next
  call,      \* the call under way
  dst,       \* the page that takes the new item
  src,       \* the place of the old item
  com,       \* the page that is compacted
  cur,       \* the place that compactPage or initNV looks at
  findDups,  \* of initNV
  inited     \* history: the hot items osal_nv_item_init was called for since power-up

ram == <<pgRes, hot, pc, call, dst, src, com, cur, findDups, inited>>
vars == <<flash, ram>>

NoCall == [kind |-> "none"]
Succeeded == [kind |-> "succeeded"]

\* osalNvPgHdr_t and the items behind it.  active, inUse, xfer: written.
ItemType == [id : Id \cup {Zeroed}, val : Value \cup {NoValue, Garbage}, size : 1 .. PageSize,
             good : BOOLEAN,   \* the checksum is that of the data
             xfer : BOOLEAN]   \* stat: there is, or will be, a newer copy
PageType == [active : BOOLEAN, inUse : BOOLEAN, xfer : BOOLEAN, items : Seq(ItemType)]

Blank == [active |-> FALSE, inUse |-> FALSE, xfer |-> FALSE, items |-> <<>>]

Init ==
  /\ flash = [p \in Page |-> Blank]
  /\ pgRes = NoPage
  /\ hot = [id \in hotIds |-> NoPlace]
  /\ pc = "boot"
  /\ call = NoCall
  /\ dst = NoPage
  /\ src = NoPlace
  /\ com = NoPage
  /\ cur = NoPlace
  /\ findDups = FALSE
  /\ inited = {}

-----------------------------------------------------------------------------
(* What is in the pages *)

Total(f) ==
  LET sum[n \in 0 .. Len(f)] == IF n = 0 THEN 0 ELSE sum[n - 1] + f[n]
  IN sum[Len(f)]

SizeOf(items) == Total([i \in DOMAIN items |-> items[i].size])
LostOf(items) == Total([i \in DOMAIN items |-> IF items[i].id = Zeroed THEN items[i].size ELSE 0])
pgOff(p) == SizeOf(flash[p].items)
\* (The counter in RAM may be smaller after a recovery: initPage returns early at
\* an old item.)
pgLost(p) == LostOf(flash[p].items)

Items == UNION {{<<p, i>> : i \in DOMAIN flash[p].items} : p \in Page}
Item(a) == flash[a[1]].items[a[2]]

Before(a, b) == a[1] < b[1] \/ (a[1] = b[1] /\ a[2] < b[2])
FirstOf(S) == IF S = {} THEN NoPlace ELSE CHOOSE a \in S : \A b \in S : a = b \/ Before(a, b)

Copies(id, old) == {a \in Items : Item(a).id = id /\ Item(a).xfer = old}

\* findItem: the first item not marked as old, whatever its checksum; else the
\* first one that is.
findItem(id) == FirstOf(IF Copies(id, FALSE) # {} THEN Copies(id, FALSE) ELSE Copies(id, TRUE))

\* osal_nv_read.  A hot item is read at the place in RAM, whatever that is: a
\* place not set since power-up is one in page 0, the code's.
Read(id) ==
  LET a == IF id \in hotIds THEN hot[id] ELSE findItem(id)
  IN IF a \in Items THEN Item(a).val
     ELSE IF id \in hotIds THEN Garbage ELSE NoValue

\* The pages an item of that size goes to, the nearest after the reserve page.
Fitting(size) == {p \in Page \ {pgRes} : size + pgOff(p) <= PageSize + pgLost(p)}
Distance(p) == (p + Pages - pgRes) % Pages
Chosen(size) == CHOOSE p \in Fitting(size) : \A q \in Fitting(size) : Distance(p) <= Distance(q)

NeedsCompaction(p, size) == pgOff(p) + size > PageSize

-----------------------------------------------------------------------------
(* One write to the flash *)

Writes(p, page) == flash' = [flash EXCEPT ![p] = page]

WritesItem(a, item) == Writes(a[1], [flash[a[1]] EXCEPT !.items[a[2]] = item])

\* A header, with the data that follows it at once.
WritesHeader(p, id, val) ==
  flash' = [flash EXCEPT ![p].items = Append(@,
              [id |-> id, val |-> val,
               size |-> Size[id], good |-> FALSE, xfer |-> FALSE])]

\* setItem with eNvZero.  What a zeroed item was does not matter any more.
Zeroes(a) ==
  WritesItem(a, [Item(a) EXCEPT !.id = Zeroed, !.val = NoValue, !.good = FALSE, !.xfer = FALSE])

LastPlace(p) == <<p, Len(flash[p].items)>>

\* Mutant: hot items are not followed.
hotItemKept(a) == hot' = hot

hotItemUpdate(a) ==
  hot' = IF Item(a).id \in hotIds THEN [hot EXCEPT ![Item(a).id] = a] ELSE hot

-----------------------------------------------------------------------------
(* Calls *)

\* osal_nv_item_init for a new id, and osal_nv_write of a new value: initItem
\* chooses a page.
Begin(kind, id, val) ==
  /\ pc = "ready"
  /\ Fitting(Size[id]) # {}
  /\ kind = "init" <=> findItem(id) = NoPlace
  /\ kind = "write" => Item(findItem(id)).val # val
  /\ call' = [kind |-> kind, id |-> id, val |-> val]
  /\ src' = findItem(id)
  /\ LET p == Chosen(Size[id])
     IN IF NeedsCompaction(p, Size[id])
        THEN dst' = pgRes /\ com' = p /\ pc' = "markPage"
        ELSE dst' = p /\ pc' = "header" /\ UNCHANGED com
  /\ UNCHANGED <<flash, pgRes, hot, cur, findDups, inited>>

\* osal_nv_item_init of a hot item that exists.
ItemInitHot(id) ==
  /\ pc = "ready"
  /\ findItem(id) # NoPlace
  /\ hot' = [hot EXCEPT ![id] = findItem(id)]
  /\ inited' = inited \cup {id}
  /\ UNCHANGED <<flash, pgRes, pc, call, dst, src, com, cur, findDups>>

\* osal_nv_delete, of items that are not hot.
osal_nv_delete(id) ==
  /\ pc = "ready"
  /\ findItem(id) # NoPlace
  /\ call' = [kind |-> "delete", id |-> id, val |-> NoValue]
  /\ src' = findItem(id)
  /\ pc' = "zeroOld"
  /\ UNCHANGED <<flash, pgRes, hot, dst, com, cur, findDups, inited>>

\* The page to compact is marked.  The reserve page is clean (OneReserve), or
\* compactPage would refuse.
MarkPage ==
  /\ pc = "markPage"
  /\ Writes(com, [flash[com] EXCEPT !.xfer = TRUE])
  /\ cur' = <<com, 1>>
  /\ flash[pgRes] = Blank
  /\ pc' = "copy"
  /\ UNCHANGED <<pgRes, hot, call, dst, src, com, findDups, inited>>

\* What compactPage still has to copy: not the item to be written.
ToCopy ==
  {a \in Items : /\ a[1] = com
                 /\ a[2] >= cur[2]
                 /\ Item(a).id # Zeroed
                 /\ Item(a).good
                 /\ call # NoCall => Item(a).id # call.id}

\* compactPage marks the next item as old, or is through.
CopyMark ==
  /\ pc = "copy"
  /\ IF ToCopy # {}
     THEN LET a == FirstOf(ToCopy)
          IN /\ WritesItem(a, [Item(a) EXCEPT !.xfer = TRUE])
             /\ cur' = a
             /\ pc' = "copyItem"
     ELSE /\ pc' = IF call # NoCall THEN "header" ELSE "use"
          /\ UNCHANGED <<flash, cur>>
  /\ UNCHANGED <<pgRes, hot, call, dst, src, com, findDups, inited>>

CopyItem ==
  /\ pc = "copyItem"
  /\ WritesHeader(pgRes, Item(cur).id, Item(cur).val)
  /\ pc' = "copyChk"
  /\ UNCHANGED <<pgRes, hot, call, dst, src, com, cur, findDups, inited>>

CopyChk ==
  /\ pc = "copyChk"
  /\ WritesItem(LastPlace(pgRes), [Item(LastPlace(pgRes)) EXCEPT !.good = TRUE])
  /\ hotItemUpdate(LastPlace(pgRes))
  /\ cur' = <<com, cur[2] + 1>>
  /\ pc' = "copy"
  /\ UNCHANGED <<pgRes, call, dst, src, com, findDups, inited>>

\* Mutant: no page clean-up if the old item is on another page.
AfterItemNoCleanup ==
  IF call.kind = "write" /\ src[1] # com THEN "zeroOld"
  ELSE IF com # NoPage THEN "use" ELSE "return"

\* What follows the new item.
AfterItem ==
  IF com # NoPage THEN "use" ELSE IF call.kind = "write" THEN "zeroOld" ELSE "return"

WriteHeader ==
  /\ pc = "header"
  /\ WritesHeader(dst, call.id, Garbage)
  /\ pc' = IF call.kind = "write" THEN "markOld" ELSE "data"
  /\ UNCHANGED <<pgRes, hot, call, dst, src, com, cur, findDups, inited>>

MarkOld ==
  /\ pc = "markOld"
  /\ WritesItem(src, [Item(src) EXCEPT !.xfer = TRUE])
  /\ pc' = "data"
  /\ UNCHANGED <<pgRes, hot, call, dst, src, com, cur, findDups, inited>>

WriteData ==
  /\ pc = "data"
  /\ WritesItem(LastPlace(dst), [Item(LastPlace(dst)) EXCEPT !.val = call.val])
  /\ pc' = "chk"
  /\ UNCHANGED <<pgRes, hot, call, dst, src, com, cur, findDups, inited>>

SetChk ==
  /\ pc = "chk"
  /\ WritesItem(LastPlace(dst), [Item(LastPlace(dst)) EXCEPT !.good = TRUE])
  /\ hotItemUpdate(LastPlace(dst))
  /\ pc' = AfterItem
  /\ UNCHANGED <<pgRes, call, dst, src, com, cur, findDups, inited>>

\* Mutant: the page is erased without the reserve page being put in use.
PageUseSkipped ==
  /\ pc = "use"
  /\ pc' = "erase"
  /\ UNCHANGED <<flash, pgRes, hot, call, dst, src, com, cur, findDups, inited>>

\* COMPACT_PAGE_CLEANUP, first half: setPageUse( pgRes, TRUE ).
PageUse ==
  /\ pc = "use"
  /\ Writes(pgRes, [flash[pgRes] EXCEPT !.active = TRUE, !.inUse = TRUE])
  /\ pc' = "erase"
  /\ UNCHANGED <<pgRes, hot, call, dst, src, com, cur, findDups, inited>>

\* Second half, also in initNV: the compacted page becomes the reserve page.
ErasePage ==
  /\ pc = "erase"
  /\ Writes(com, Blank)
  /\ pgRes' = com
  /\ com' = NoPage
  /\ cur' = <<1, 1>>
  /\ pc' = IF call = NoCall THEN "dups"
           ELSE IF call.kind = "write" /\ src[1] # com THEN "zeroOld" ELSE "return"
  /\ UNCHANGED <<hot, call, dst, src, findDups, inited>>

ZeroOld ==
  /\ pc = "zeroOld"
  /\ Zeroes(src)
  /\ pc' = "return"
  /\ UNCHANGED <<pgRes, hot, call, dst, src, com, cur, findDups, inited>>

\* osal_nv_delete looks whether the item is there still.
Return ==
  /\ pc = "return"
  /\ call' = IF call.kind = "delete" /\ findItem(call.id) # NoPlace THEN NoCall ELSE Succeeded
  /\ dst' = NoPage
  /\ src' = NoPlace
  /\ com' = NoPage
  /\ cur' = NoPlace
  /\ pc' = "ready"
  /\ inited' = IF call.kind = "init" THEN inited \cup ({call.id} \cap hotIds) ELSE inited
  /\ UNCHANGED <<flash, pgRes, hot, findDups>>

-----------------------------------------------------------------------------
(* initNV *)

Erased == {p \in Page : ~flash[p].active}
LowestOf(S) == IF S = {} THEN NoPage ELSE CHOOSE p \in S : \A q \in S : p <= q
HighestOf(S) == IF S = {} THEN NoPage ELSE CHOOSE p \in S : \A q \in S : p >= q

\* Mutant: only inUse is written.
BootUseHalf ==
  /\ pc = "boot"
  /\ Cardinality(Erased) > 1
  /\ LET p == LowestOf(Erased \ {LowestOf(Erased)})
     IN Writes(p, [flash[p] EXCEPT !.inUse = TRUE])
  /\ UNCHANGED ram

\* An erased page besides the first is put in use.
BootUse ==
  /\ pc = "boot"
  /\ Cardinality(Erased) > 1
  /\ LET p == LowestOf(Erased \ {LowestOf(Erased)})
     IN Writes(p, [flash[p] EXCEPT !.active = TRUE, !.inUse = TRUE])
  /\ UNCHANGED ram

\* The interrupted compaction, if any, is done again, or completed.
BootScan ==
  /\ pc = "boot"
  /\ Cardinality(Erased) <= 1
  /\ pgRes' = LowestOf(Erased)
  /\ com' = HighestOf({p \in Page : flash[p].active /\ flash[p].xfer})
  /\ pc' = IF pgRes' # NoPage THEN "eraseRes" ELSE IF com' # NoPage THEN "erase" ELSE "dups"
  /\ cur' = <<1, 1>>
  /\ UNCHANGED <<flash, hot, call, dst, src, findDups, inited>>

EraseRes ==
  /\ pc = "eraseRes"
  /\ Writes(pgRes, Blank)
  /\ pc' = IF com # NoPage THEN "copy" ELSE "dups"
  /\ cur' = IF com # NoPage THEN <<com, 1>> ELSE <<1, 1>>
  /\ UNCHANGED <<pgRes, hot, call, dst, src, com, findDups, inited>>

Rest == {a \in Items : ~Before(a, cur) /\ Item(a).id # Zeroed}
Bad(a) == ~Item(a).good
Old(a) == Item(a).good /\ Item(a).xfer
New(a) == Item(a).good /\ ~Item(a).xfer /\ Copies(Item(a).id, TRUE) # {}

\* initPage, as far as its next write: an item with a bad checksum is zeroed;
\* a good old one makes it start again, and zero the old copies of good new
\* ones.
InitPages ==
  LET a == FirstOf({b \in Rest : Bad(b) \/ (IF findDups THEN New(b) ELSE Old(b))})
  IN /\ pc = "dups"
     /\ a # NoPlace
     /\ IF Bad(a) THEN Zeroes(a)
        ELSE IF findDups
        THEN Zeroes(FirstOf(Copies(Item(a).id, TRUE)))
        ELSE UNCHANGED flash
     /\ IF Old(a) /\ ~findDups THEN findDups' = TRUE /\ cur' = <<1, 1>>
        ELSE cur' = <<a[1], a[2] + 1>> /\ UNCHANGED findDups
     /\ UNCHANGED <<pgRes, hot, pc, call, dst, src, com, inited>>

\* Without a reserve page the one with nothing but lost items, or else the one
\* that lost most, is erased.
MostLost == CHOOSE p \in Page : \A q \in Page : pgLost(p) > pgLost(q) \/ (pgLost(p) = pgLost(q) /\ p <= q)

InitDone ==
  /\ pc = "dups"
  /\ \A a \in Rest : ~Bad(a) /\ ~(IF findDups THEN New(a) ELSE Old(a))
  /\ IF pgRes # NoPage THEN pc' = "ready" /\ UNCHANGED com
     ELSE pc' = "eraseMost" /\ com' = MostLost
  /\ cur' = NoPlace
  /\ findDups' = FALSE
  /\ UNCHANGED <<flash, pgRes, hot, call, dst, src, inited>>

EraseMost ==
  /\ pc = "eraseMost"
  /\ Writes(com, Blank)
  /\ pgRes' = com
  /\ com' = NoPage
  /\ pc' = "ready"
  /\ UNCHANGED <<hot, call, dst, src, cur, findDups, inited>>

-----------------------------------------------------------------------------
(* Failures *)

\* What an interrupted erase may leave: the page itself, one whose items are
\* there but not its header, an erased page, or one whose header does not show
\* any more that it was compacted (the last comment of initNV).
EraseLeaves(page) ==
  {page, Blank, [page EXCEPT !.active = FALSE, !.inUse = FALSE, !.xfer = FALSE]}
    \cup IF TornErase THEN {[page EXCEPT !.xfer = FALSE]} ELSE {}

UnderErase == IF pc \in {"erase", "eraseMost"} THEN {com}
              ELSE IF pc = "eraseRes" THEN {pgRes} ELSE {}

\* The power fails and comes back.
Crash ==
  /\ pc # "boot"
  /\ IF UnderErase = {} THEN UNCHANGED flash
     ELSE \E p \in UnderErase : \E page \in EraseLeaves(flash[p]) : flash' = [flash EXCEPT ![p] = page]
  /\ pgRes' = NoPage
  /\ hot' = [id \in hotIds |-> NoPlace]
  /\ pc' = "boot"
  /\ call' = NoCall
  /\ dst' = NoPage
  /\ src' = NoPlace
  /\ com' = NoPage
  /\ cur' = NoPlace
  /\ findDups' = FALSE
  /\ inited' = {}

-----------------------------------------------------------------------------

Writing ==
  \/ MarkPage \/ CopyMark \/ CopyItem \/ CopyChk \/ WriteHeader \/ MarkOld
  \/ WriteData \/ SetChk \/ PageUse \/ ErasePage \/ ZeroOld \/ Return

initNV == BootUse \/ BootScan \/ EraseRes \/ InitPages \/ InitDone \/ EraseMost

Next ==
  \/ \E id \in Id, val \in Value : Begin("init", id, val) \/ Begin("write", id, val)
  \/ \E id \in hotIds : ItemInitHot(id)
  \/ \E id \in Id \ hotIds : osal_nv_delete(id)
  \/ Writing
  \/ initNV
  \/ Crash

Spec == Init /\ [][Next]_vars

\* A call, once begun, and initNV go on to their end.
FairSpec == Spec /\ WF_vars(Writing \/ initNV)

-----------------------------------------------------------------------------
(* Properties *)

\* Every variable is of its type and no page holds more than it has room for.
TypeOK ==
  /\ flash \in [Page -> PageType]
  /\ \A p \in Page : pgOff(p) <= PageSize
  /\ pgRes \in Page \cup {NoPage}
  /\ hot \in [hotIds -> Page \X Nat \cup {NoPlace}]
  /\ dst \in Page \cup {NoPage}
  /\ com \in Page \cup {NoPage}
  /\ {src, cur} \subseteq Page \X Nat \cup {NoPlace}
  /\ findDups \in BOOLEAN
  /\ inited \subseteq hotIds

\* The value a restart finds for id: that of a good item in a page in use, one
\* that is not marked as old if there is one.
Stored(id) ==
  LET good == {a \in Items : Item(a).id = id /\ Item(a).good /\ flash[a[1]].active}
      new == {a \in good : ~Item(a).xfer}
  IN IF good = {} THEN NoValue ELSE Item(FirstOf(IF new # {} THEN new ELSE good)).val

\* A call is atomic: whatever it writes and wherever the power fails, in the
\* call, in the compaction it causes or in initNV after an earlier power
\* failure, each item has its old value or its new one, and the new one if the
\* call returned SUCCESS; all other items keep theirs.
Store == INSTANCE NvStore WITH store <- [id \in Id |-> Stored(id)]
ImplementsStore == Store!Spec

\* What is read, of hot items without a look at the pages, is what a restart
\* would find, once a hot item's osal_nv_item_init was called ("must be called
\* before calling osal_nv_read() or osal_nv_write()").  Other items need no such
\* call.
ReadsStored ==
  pc = "ready" => \A id \in Id : (id \in hotIds => id \in inited) => Read(id) = Stored(id)

\* "One erased reserve page will be maintained": and all others are in use.
OneReserve ==
  pc = "ready" => flash[pgRes] = Blank /\ \A p \in Page \ {pgRes} : flash[p].active

\* Once the power fails no more the memory gets ready again and again: initNV
\* comes to an end on whatever a power failure left, and so does every call.
GetsReady == <>[][pc' # "boot"]_pc => []<>(pc = "ready")

=============================================================================
