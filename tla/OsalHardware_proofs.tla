------------------------- MODULE OsalHardware_proofs -------------------------
(***************************************************************************)
(* Proofs about the parts of OsalHardware.                                 *)
(*                                                                         *)
(* OsalNv, for every number of pages, every set of items and every size,   *)
(* and wherever the power fails: that one page is always kept in reserve   *)
(* (Reserve), that what is read is what a start would find (Sound), that   *)
(* nothing is written beyond the end of a page (Rooms), and that calls are *)
(* atomic, as NvStore has it.  Sound tells for each step what is known of  *)
(* the items that are not zeroed: which of them are good, which have       *)
(* another copy, and which page may be marked.                             *)
(*                                                                         *)
(* OsalSleep: nothing is slept over.  HalUartTx: bytes leave in order.     *)
(***************************************************************************)
EXTENDS OsalHardware, FiniteSetTheorems, SequenceTheorems, WellFoundedInduction, TLAPS

-----------------------------------------------------------------------------
(* Places and sums *)

\* A set of numbers has a least one.
LEMMA LeastOf ==
  ASSUME NEW S \in SUBSET Nat, S # {}
  PROVE  \E x \in S : \A y \in S : x <= y
<1>1. PICK x \in S : \A y \in S : ~(<<y, x>> \in OpToRel(<, Nat))
  BY NatLessThanWellFounded, WFMin, Zenon
<1>2. \A y \in S : ~(y < x)
  BY <1>1 DEF OpToRel
<1> QED
  BY <1>2

\* Headers and items are of their types.
PagesTyped == flash \in [Page -> PageType]

\* The places of items: a page and a number in it.
LEMMA PlacesOfItems ==
  ASSUME PagesTyped
  PROVE  /\ \A p \in Page : /\ flash[p] \in PageType
                           /\ flash[p].items \in Seq(ItemType)
                           /\ Len(flash[p].items) \in Nat
                           /\ DOMAIN flash[p].items = 1 .. Len(flash[p].items)
         /\ \A a \in Items : /\ a = <<a[1], a[2]>> /\ a[1] \in Page
                            /\ a[1] \in Nat /\ a[2] \in Nat /\ a[2] \in DOMAIN flash[a[1]].items
                            /\ Item(a) \in ItemType
         /\ \A p, i : <<p, i>> \in Items <=> p \in Page /\ i \in DOMAIN flash[p].items
<1>1. ASSUME NEW p \in Page
      PROVE  /\ flash[p] \in PageType /\ flash[p].items \in Seq(ItemType)
             /\ Len(flash[p].items) \in Nat /\ DOMAIN flash[p].items = 1 .. Len(flash[p].items)
  <2>1. flash[p] \in PageType /\ flash[p].items \in Seq(ItemType)
    BY DEF PagesTyped, PageType
  <2> QED
    BY <2>1, LenProperties
<1>2. ASSUME NEW a \in Items
      PROVE  /\ a = <<a[1], a[2]>> /\ a[1] \in Page /\ a[2] \in DOMAIN flash[a[1]].items
             /\ a[1] \in Nat /\ a[2] \in Nat /\ Item(a) \in ItemType
  <2>1. PICK p \in Page : a \in {<<p, i>> : i \in DOMAIN flash[p].items}
    BY DEF Items
  <2>2. PICK i \in DOMAIN flash[p].items : a = <<p, i>>
    BY <2>1
  <2>3. a = <<a[1], a[2]>> /\ a[1] = p /\ a[2] = i /\ p \in Nat /\ i \in Nat
    BY <1>1, <2>2, PagesAssumption DEF Page
  <2> DEFINE items == flash[p].items
  <2>4. items \in Seq(ItemType) /\ i \in 1 .. Len(items)
    BY <1>1
  <2> HIDE DEF items
  <2>5. items[i] \in ItemType
    BY <2>4
  <2> QED
    BY <2>3, <2>5 DEF items, Item
<1>3. ASSUME NEW p, NEW i PROVE <<p, i>> \in Items <=> p \in Page /\ i \in DOMAIN flash[p].items
  BY DEF Items
<1> QED
  BY <1>1, <1>2, <1>3

\* A set of items has a first one, in the order of the pages.
LEMMA FirstOfIn ==
  ASSUME PagesTyped, NEW S \in SUBSET Items, S # {}
  PROVE  FirstOf(S) \in S /\ \A b \in S : FirstOf(S) = b \/ Before(FirstOf(S), b)
<1>1. \A a \in S : a[1] \in Nat /\ a[2] \in Nat /\ a = <<a[1], a[2]>>
  BY PlacesOfItems
<1> DEFINE P == {a[1] : a \in S}
<1>2. PICK p \in P : \A q \in P : p <= q
  <2>1. P \in SUBSET Nat /\ P # {}
    BY <1>1
  <2> HIDE DEF P
  <2> QED
    BY <2>1, LeastOf
<1> DEFINE I == {a[2] : a \in {b \in S : b[1] = p}}
<1>3. PICK i \in I : \A j \in I : i <= j
  <2>1. I \in SUBSET Nat /\ I # {}
    BY <1>1, <1>2
  <2> HIDE DEF I
  <2> QED
    BY <2>1, LeastOf
<1>4. PICK a \in S : a[1] = p /\ a[2] = i
  BY <1>3
<1>5. ASSUME NEW b \in S PROVE a = b \/ Before(a, b)
  <2>1. a[1] <= b[1] /\ (b[1] = a[1] => a[2] <= b[2])
    BY <1>2, <1>3, <1>4
  <2> QED
    BY <1>1, <2>1 DEF Before
<1> QED
  BY <1>5 DEF FirstOf

\* A write to one page leaves the others as they are.
LEMMA PageWritten ==
  ASSUME PagesTyped, NEW p \in Page, NEW page \in PageType, Writes(p, page)
  PROVE  PagesTyped' /\ flash'[p] = page /\ \A q \in Page \ {p} : flash'[q] = flash[q]
BY DEF PagesTyped, Writes

\* Writing in an item leaves the header of the page as it is.
LEMMA ItemWritten ==
  ASSUME PagesTyped, NEW a, NEW item, WritesItem(a, item),
         a[1] \in Page /\ a[2] \in DOMAIN flash[a[1]].items => item \in ItemType
  PROVE  /\ PagesTyped'
         /\ \A p \in Page : flash'[p].active = flash[p].active
         /\ \A p \in Page \ {a[1]} : flash'[p] = flash[p]
<1>1. CASE a[1] \notin Page
  <2>1. flash' = flash
    BY <1>1 DEF PagesTyped, WritesItem, Writes
  <2> QED
    BY <2>1 DEF PagesTyped
<1>2. CASE a[1] \in Page
  <2> DEFINE items == flash[a[1]].items
             new == [items EXCEPT ![a[2]] = item]
  <2>1. flash[a[1]] \in PageType /\ items \in Seq(ItemType)
    BY <1>2 DEF PagesTyped, PageType
  <2>2. new \in Seq(ItemType)
    <3>1. CASE a[2] \in DOMAIN items
      <4>1. item \in ItemType
        BY <1>2, <3>1
      <4> HIDE DEF items
      <4> QED
        BY <2>1, <3>1, <4>1, ExceptSeq
    <3>2. CASE a[2] \notin DOMAIN items
      <4> HIDE DEF items
      <4>1. new = items
        BY <2>1, <3>2
      <4> QED
        BY <2>1, <4>1
    <3> QED
      BY <3>1, <3>2
  <2> DEFINE page == [flash[a[1]] EXCEPT !.items = new]
  <2>3. page = [flash[a[1]] EXCEPT !.items[a[2]] = item]
    BY <2>1
  <2>4. Writes(a[1], page)
    BY <2>3 DEF WritesItem
  <2> HIDE DEF new
  <2>5. page \in PageType /\ page.active = flash[a[1]].active
    BY <2>1, <2>2 DEF PageType
  <2> HIDE DEF page
  <2>6. PagesTyped' /\ flash'[a[1]] = page /\ \A q \in Page \ {a[1]} : flash'[q] = flash[q]
    BY <1>2, <2>4, <2>5, PageWritten
  <2> QED
    BY <2>5, <2>6
<1> QED
  BY <1>1, <1>2

\* So does writing a new one.
LEMMA HeaderWritten ==
  ASSUME PagesTyped, NEW p \in Page, NEW id \in Id, NEW val \in Value \cup {NoValue, Garbage},
         WritesHeader(p, id, val)
  PROVE  /\ PagesTyped'
         /\ \A q \in Page : flash'[q].active = flash[q].active
         /\ \A q \in Page \ {p} : flash'[q] = flash[q]
<1> DEFINE item == [id |-> id, val |-> val, size |-> Size[id], good |-> FALSE, xfer |-> FALSE]
           page == [flash[p] EXCEPT !.items = Append(@, item)]
<1>1. item \in ItemType
  BY SizeAssumption DEF ItemType
<1>2. flash[p] \in PageType
  BY DEF PagesTyped
<1>3. flash' = [flash EXCEPT ![p] = page]
  BY DEF WritesHeader
<1> HIDE DEF item
<1>4. page \in PageType /\ page.active = flash[p].active
  <2>1. flash[p].items \in Seq(ItemType)
    BY <1>2 DEF PageType
  <2>2. Append(flash[p].items, item) \in Seq(ItemType)
    BY <1>1, <2>1
  <2> HIDE DEF ItemType
  <2> QED
    BY <1>2, <2>2 DEF PageType
<1> HIDE DEF page
<1>5. PagesTyped' /\ flash'[p] = page /\ \A q \in Page \ {p} : flash'[q] = flash[q]
  BY <1>3, <1>4, PageWritten DEF Writes
<1> QED
  BY <1>4, <1>5

-----------------------------------------------------------------------------

\* The sums of the first numbers of a sequence, which Total is the last one of.
LEMMA TotalIsSum ==
  ASSUME NEW f \in Seq(Nat)
  PROVE  \E s \in [0 .. Len(f) -> Nat] :
           /\ s[0] = 0
           /\ \A n \in 1 .. Len(f) : s[n] = s[n - 1] + f[n]
           /\ Total(f) = s[Len(f)]
<1> DEFINE Sums(s, m) == s = [n \in 0 .. m |-> IF n = 0 THEN 0 ELSE s[n - 1] + f[n]]
           Exact(m) == \E s \in [0 .. m -> Nat] : Sums(s, m)
           T == {m \in 0 .. Len(f) : ~Exact(m)}
<1>1. Len(f) \in Nat /\ \A n \in 1 .. Len(f) : f[n] \in Nat
  BY LenProperties
<1>2. T = {}
  <2> SUFFICES ASSUME T # {} PROVE FALSE
    OBVIOUS
  <2>1. PICK m \in T : \A k \in T : m <= k
    <3>1. T \in SUBSET Nat
      OBVIOUS
    <3> HIDE DEF T
    <3> QED
      BY <3>1, LeastOf
  <2>2. m \in 0 .. Len(f) /\ ~Exact(m)
    BY <2>1
  <2>3. m # 0
    <3>1. ASSUME m = 0 PROVE Exact(m)
      <4>1. [n \in 0 .. 0 |-> 0] \in [0 .. m -> Nat] /\ Sums([n \in 0 .. 0 |-> 0], m)
        BY <3>1
      <4> QED
        BY <4>1
    <3> QED
      BY <2>2, <3>1
  <2>4. m - 1 \in 0 .. Len(f) /\ Exact(m - 1)
    <3>1. m - 1 \in 0 .. Len(f) /\ ~(m <= m - 1)
      BY <1>1, <2>2, <2>3
    <3> HIDE DEF Exact
    <3> QED
      BY <2>1, <3>1
  <2>5. PICK s \in [0 .. m - 1 -> Nat] : Sums(s, m - 1)
    BY <2>4
  <2> DEFINE r == [n \in 0 .. m |-> IF n = m THEN s[m - 1] + f[m] ELSE s[n]]
  <2>6. r \in [0 .. m -> Nat]
    BY <1>1, <2>2, <2>3, <2>5
  <2>7. \A n \in 0 .. m : r[n] = IF n = 0 THEN 0 ELSE r[n - 1] + f[n]
    <3>1. \A n \in 0 .. m - 1 : s[n] = IF n = 0 THEN 0 ELSE s[n - 1] + f[n]
      BY <2>5
    <3>2. r[m] = s[m - 1] + f[m] /\ r[m - 1] = s[m - 1]
      BY <2>2, <2>3
    <3>3. \A n \in 0 .. m : n = m \/ (n \in 0 .. m - 1 /\ r[n] = s[n] /\ (n # 0 => n - 1 \in 0 .. m /\ r[n - 1] = s[n - 1]))
      BY <2>2, <2>3
    <3> QED
      BY <2>3, <3>1, <3>2, <3>3
  <2>8. Sums(r, m)
    BY <2>6, <2>7
  <2> QED
    BY <2>2, <2>6, <2>8
<1> DEFINE sum == CHOOSE s : Sums(s, Len(f))
<1>3. PICK s \in [0 .. Len(f) -> Nat] : Sums(s, Len(f))
  BY <1>1, <1>2
<1>4. Sums(sum, Len(f))
  BY <1>3
<1>5. Total(f) = sum[Len(f)]
  BY DEF Total
<1> HIDE DEF sum
<1>6. \A n \in 0 .. Len(f) : sum[n] = s[n]
  <2> DEFINE U == {n \in 0 .. Len(f) : sum[n] # s[n]}
  <2> SUFFICES ASSUME U # {} PROVE FALSE
    OBVIOUS
  <2>1. PICK m \in U : \A k \in U : m <= k
    <3>1. U \in SUBSET Nat
      OBVIOUS
    <3> HIDE DEF U
    <3> QED
      BY <3>1, LeastOf
  <2>2. m # 0
    BY <1>1, <1>3, <1>4, <2>1
  <2>3. m - 1 \in 0 .. Len(f) /\ sum[m - 1] = s[m - 1]
    BY <1>1, <2>1, <2>2
  <2>4. m \in 0 .. Len(f) /\ sum[m] = sum[m - 1] + f[m] /\ s[m] = s[m - 1] + f[m]
    BY <1>3, <1>4, <2>1, <2>2
  <2> QED
    BY <2>1, <2>3, <2>4
<1>7. s[0] = 0 /\ \A n \in 1 .. Len(f) : s[n] = s[n - 1] + f[n]
  <2>1. \A n \in 0 .. Len(f) : s[n] = IF n = 0 THEN 0 ELSE s[n - 1] + f[n]
    BY <1>3
  <2> QED
    BY <1>1, <2>1
<1>8. Total(f) = s[Len(f)]
  BY <1>1, <1>5, <1>6
<1> QED
  BY <1>7, <1>8

\* What items take up, and the lost ones among them, are numbers.
LEMMA RoomIsNumber ==
  ASSUME NEW items \in Seq(ItemType)
  PROVE  SizeOf(items) \in Nat /\ LostOf(items) \in Nat
<1>1. \A i \in DOMAIN items : items[i].size \in Nat
  <2>1. \A item \in ItemType : item.size \in Nat
    BY SizeAssumption DEF ItemType
  <2> HIDE DEF ItemType
  <2>2. \A i \in DOMAIN items : items[i] \in ItemType
    OBVIOUS
  <2> QED
    BY <2>1, <2>2
<1>2. Len(items) \in Nat /\ DOMAIN items = 1 .. Len(items)
  BY LenProperties
<1>3. \A f \in Seq(Nat) : Total(f) \in Nat
  <2> TAKE f \in Seq(Nat)
  <2>1. PICK s \in [0 .. Len(f) -> Nat] : Total(f) = s[Len(f)]
    BY TotalIsSum
  <2> QED
    BY <2>1, LenProperties
<1>4. \A f : DOMAIN f = 1 .. Len(items) /\ (\A i \in 1 .. Len(items) : f[i] \in Nat)
             /\ f = [i \in 1 .. Len(items) |-> f[i]] => f \in Seq(Nat)
  BY <1>2
<1> DEFINE sizes == [i \in DOMAIN items |-> items[i].size]
           lost == [i \in DOMAIN items |-> IF items[i].id = Zeroed THEN items[i].size ELSE 0]
<1>5. sizes \in Seq(Nat)
  BY <1>1, <1>2, <1>4
<1>6. lost \in Seq(Nat)
  BY <1>1, <1>2, <1>4
<1>7. SizeOf(items) = Total(sizes) /\ LostOf(items) = Total(lost)
  BY DEF SizeOf, LostOf
<1> HIDE DEF sizes, lost
<1> QED
  BY <1>3, <1>5, <1>6, <1>7

-----------------------------------------------------------------------------

\* All pages but the reserve page are in use.
Filled == pgRes \in Page /\ \A p \in Page \ {pgRes} : flash[p].active

\* The reserve page is erased, too.
Reserved == Filled /\ flash[pgRes] = Blank

\* Another page is compacted into the reserve page.
Compacting == Filled /\ com \in Page /\ com # pgRes

\* The call under way is about an item.
ForItem == call.id \in Id /\ call.val \in Value

\* What is known of the pages before each write to the flash.
Reserve ==
  /\ PagesTyped
  /\ pc \in {"boot", "ready", "markPage", "copy", "copyItem", "copyChk", "header", "markOld",
             "data", "chk", "use", "erase", "zeroOld", "return", "dups", "eraseRes", "eraseMost"}
  /\ pc \in {"boot", "eraseRes"} => call = NoCall
  /\ pc \in {"ready", "dups"} => com = NoPage
  /\ pc \in {"ready", "return"} => Reserved
  /\ pc = "markPage" => Reserved /\ Compacting
  /\ pc \in {"copy", "copyItem", "copyChk", "use"} => Compacting
  /\ pc \in {"markPage", "copy", "copyItem", "copyChk"} => call = NoCall \/ (ForItem /\ dst = pgRes)
  /\ pc = "copyItem" => cur \in Items /\ Item(cur).id \in Id
  /\ pc \in {"header", "markOld", "data", "chk"} =>
       /\ ForItem
       /\ IF com = NoPage THEN Reserved /\ dst \in Page \ {pgRes} /\ src[1] # pgRes
                          ELSE Compacting /\ dst = pgRes
  /\ pc = "zeroOld" => Reserved /\ src[1] # pgRes
  /\ pc \in {"erase", "eraseMost"} => com \in Page /\ \A p \in Page \ {com} : flash[p].active
  /\ pc = "eraseRes" => Filled /\ (com = NoPage \/ Compacting)
  /\ pc = "dups" => IF pgRes = NoPage THEN \A p \in Page : flash[p].active ELSE Reserved

\* Headers stay as they are, and so do the pages other than p.
Within(p) ==
  /\ PagesTyped'
  /\ \A q \in Page : flash'[q].active = flash[q].active
  /\ \A q \in Page \ {p} : flash'[q] = flash[q]

\* What is read in the items of a page is an item.
LEMMA ItemTyped ==
  ASSUME PagesTyped, NEW a, a[1] \in Page /\ a[2] \in DOMAIN flash[a[1]].items
  PROVE  Item(a) \in ItemType
<1>1. flash[a[1]].items \in Seq(ItemType)
  BY DEF PagesTyped, PageType
<1> DEFINE items == flash[a[1]].items
<1> HIDE DEF items
<1>2. items \in Seq(ItemType) /\ a[2] \in DOMAIN items => items[a[2]] \in ItemType
  BY ElementOfSeq, LenProperties
<1> QED
  BY <1>1, <1>2 DEF items, Item

\* An item changed in a field keeps its type.
LEMMA FieldWritten ==
  ASSUME PagesTyped, NEW a,
         \/ WritesItem(a, [Item(a) EXCEPT !.xfer = TRUE])
         \/ WritesItem(a, [Item(a) EXCEPT !.good = TRUE])
         \/ Zeroes(a)
         \/ call.val \in Value /\ WritesItem(a, [Item(a) EXCEPT !.val = call.val])
  PROVE  Within(a[1])
<1> DEFINE zeroed == [Item(a) EXCEPT !.id = Zeroed, !.val = NoValue, !.good = FALSE, !.xfer = FALSE]
<1>1. ASSUME a[1] \in Page /\ a[2] \in DOMAIN flash[a[1]].items
      PROVE  /\ [Item(a) EXCEPT !.xfer = TRUE] \in ItemType
             /\ [Item(a) EXCEPT !.good = TRUE] \in ItemType
             /\ zeroed \in ItemType
             /\ call.val \in Value => [Item(a) EXCEPT !.val = call.val] \in ItemType
  <2>1. Item(a) \in ItemType
    BY <1>1, ItemTyped
  <2> QED
    BY <2>1 DEF ItemType
<1> QED
  BY <1>1, ItemWritten DEF Zeroes, Within

\* The page that is chosen has room for the item, once it is compacted.
LEMMA ChosenIn ==
  ASSUME pgRes \in Page, NEW size, Fitting(size) # {}
  PROVE  Chosen(size) \in Fitting(size)
<1> DEFINE D == {Distance(p) : p \in Fitting(size)}
<1>1. \A p \in Page : Distance(p) \in Nat
  BY PagesAssumption DEF Distance, Page
<1>2. D \in SUBSET Nat /\ D # {}
  BY <1>1 DEF Fitting
<1>3. PICK d \in D : \A e \in D : d <= e
  BY <1>2, LeastOf
<1>4. \E p \in Fitting(size) : \A q \in Fitting(size) : Distance(p) <= Distance(q)
  BY <1>3
<1> QED
  BY <1>4 DEF Chosen

\* It is not the reserve page.
LEMMA ChosenFits ==
  ASSUME pgRes \in Page, NEW size, Fitting(size) # {}
  PROVE  Chosen(size) \in Page \ {pgRes}
BY ChosenIn DEF Fitting

\* An item that is found is in a page.
LEMMA ItemFound ==
  ASSUME PagesTyped, NEW id
  PROVE  findItem(id) = NoPlace \/ findItem(id) \in Items
<1>1. Copies(id, TRUE) \in SUBSET Items /\ Copies(id, FALSE) \in SUBSET Items
  BY DEF Copies
<1>2. ASSUME NEW S \in SUBSET Items PROVE FirstOf(S) = NoPlace \/ FirstOf(S) \in Items
  BY FirstOfIn DEF FirstOf
<1> QED
  BY <1>1, <1>2 DEF findItem

\* Nothing is found in a page that is erased.
LEMMA BlankIsEmpty ==
  ASSUME PagesTyped, Reserved, NEW a, a = NoPlace \/ a \in Items
  PROVE  a[1] # pgRes
<1>1. CASE a = NoPlace
  BY <1>1, PagesAssumption DEF NoPlace, Reserved, Filled, Page
<1>2. CASE a \in Items
  <2>1. flash[a[1]].items # <<>>
    BY <1>2, PlacesOfItems
  <2> QED
    BY <2>1 DEF Reserved, Blank
<1> QED
  BY <1>1, <1>2

\* Of finitely many numbers one is the first of the greatest: of the first k,
\* for k up to how many they are.
LEMMA FirstOfMost ==
  ASSUME NEW n \in Nat, n >= 1, NEW l \in [1 .. n -> Nat]
  PROVE  \E m \in 1 .. n : \A q \in 1 .. n : l[m] > l[q] \/ (l[m] = l[q] /\ m <= q)
<1> DEFINE Most(m, k) == \A q \in 1 .. k : l[m] > l[q] \/ (l[m] = l[q] /\ m <= q)
           Has(k) == \E m \in 1 .. k : Most(m, k)
           T == {k \in 1 .. n : ~Has(k)}
<1>1. Has(1)
  BY DEF Has
<1>2. ASSUME NEW k \in 1 .. n, k # 1, Has(k - 1) PROVE Has(k)
  <2>1. PICK m \in 1 .. k - 1 : Most(m, k - 1)
    BY <1>2
  <2>2. m \in 1 .. k /\ k \in 1 .. k /\ m < k /\ l[m] \in Nat /\ l[k] \in Nat
    BY <2>1
  <2>3. \A q \in 1 .. k : q = k \/ (q \in 1 .. k - 1 /\ q \in 1 .. n)
    OBVIOUS
  <2>4. CASE l[k] > l[m]
    <3>1. Most(k, k)
      BY <2>1, <2>2, <2>3, <2>4
    <3> HIDE DEF Most
    <3> QED
      BY <2>2, <3>1
  <2>5. CASE ~(l[k] > l[m])
    <3>1. Most(m, k)
      BY <2>1, <2>2, <2>3, <2>5
    <3> HIDE DEF Most
    <3> QED
      BY <2>2, <3>1
  <2> QED
    BY <2>4, <2>5
<1> HIDE DEF Has
<1>3. T = {}
  <2> SUFFICES ASSUME T # {} PROVE FALSE
    OBVIOUS
  <2>1. PICK k \in T : \A j \in T : k <= j
    <3>1. T \in SUBSET Nat
      OBVIOUS
    <3> HIDE DEF T
    <3> QED
      BY <3>1, LeastOf
  <2>2. k \in 1 .. n /\ ~Has(k) /\ k # 1
    BY <1>1, <2>1
  <2>3. k - 1 \in 1 .. n /\ ~(k <= k - 1)
    BY <2>2
  <2>4. Has(k - 1)
    BY <2>1, <2>3
  <2> QED
    BY <1>2, <2>2, <2>4
<1>4. Has(n)
  BY <1>3
<1> QED
  BY <1>4 DEF Has

\* Some page lost most.
LEMMA MostOfLost ==
  ASSUME PagesTyped
  PROVE  \E q \in Page : \A r \in Page : pgLost(q) > pgLost(r) \/ (pgLost(q) = pgLost(r) /\ q <= r)
<1> DEFINE l == [p \in 1 .. Pages |-> pgLost(p)]
<1>1. \A p \in 1 .. Pages : pgLost(p) \in Nat
  BY RoomIsNumber DEF PagesTyped, PageType, pgLost, Page
<1>2. l \in [1 .. Pages -> Nat] /\ \A p \in 1 .. Pages : l[p] = pgLost(p)
  BY <1>1
<1> HIDE DEF l
<1>3. \E m \in 1 .. Pages : \A q \in 1 .. Pages : l[m] > l[q] \/ (l[m] = l[q] /\ m <= q)
  <2>1. Pages \in Nat /\ Pages >= 1
    BY PagesAssumption
  <2> QED
    BY <1>2, <2>1, FirstOfMost
<1>4. PICK m \in 1 .. Pages : \A q \in 1 .. Pages : l[m] > l[q] \/ (l[m] = l[q] /\ m <= q)
  BY <1>3
<1>5. \A q \in 1 .. Pages : pgLost(m) > pgLost(q) \/ (pgLost(m) = pgLost(q) /\ m <= q)
  BY <1>2, <1>4
<1> QED
  BY <1>5 DEF Page

\* It is the one that initNV chooses.
LEMMA MostLostPage ==
  ASSUME PagesTyped
  PROVE  MostLost \in Page
BY MostOfLost DEF MostLost

\* At most one page is erased: the others are in use.
LEMMA OneErased ==
  ASSUME PagesTyped, Cardinality(Erased) <= 1
  PROVE  /\ LowestOf(Erased) = NoPage => \A p \in Page : flash[p].active
         /\ LowestOf(Erased) # NoPage => /\ LowestOf(Erased) \in Page
                                         /\ ~flash[LowestOf(Erased)].active
                                         /\ \A p \in Page \ {LowestOf(Erased)} : flash[p].active
<1>1. IsFiniteSet(Page)
  BY FS_Interval, PagesAssumption DEF Page
<1>2. IsFiniteSet(Erased) /\ Erased \subseteq Page /\ Page \in SUBSET Nat /\ NoPage \notin Page
  BY <1>1, FS_Subset, PagesAssumption DEF Erased, Page, NoPage
<1>3. CASE Erased = {}
  BY <1>3 DEF LowestOf, Erased
<1>4. CASE Erased # {}
  <2>1. \E p \in Erased : \A q \in Erased : p <= q
    BY <1>2, <1>4, LeastOf
  <2>2. LowestOf(Erased) \in Erased
    BY <1>4, <2>1 DEF LowestOf
  <2>3. Cardinality(Erased) \in Nat /\ Cardinality(Erased) # 0
    BY <1>2, <1>4, FS_CardinalityType, FS_EmptySet
  <2>4. \E x : Erased = {x}
    <3>1. Cardinality(Erased) = 1
      BY <2>3
    <3> QED
      BY <1>2, <3>1, FS_Singleton, Zenon
  <2> QED
    BY <1>2, <2>2, <2>4 DEF Erased
<1> QED
  BY <1>3, <1>4

\* The highest page of a set is one of them.
LEMMA HighestIn ==
  ASSUME NEW S \in SUBSET Page
  PROVE  IF S = {} THEN HighestOf(S) = NoPage ELSE HighestOf(S) \in S
<1>1. CASE S = {}
  BY <1>1 DEF HighestOf
<1>2. CASE S # {}
  <2> DEFINE D == {Pages - p : p \in S}
  <2>1. D \in SUBSET Nat /\ D # {} /\ S \subseteq Nat
    <3>1. \A p \in S : p \in Nat /\ Pages - p \in Nat
      BY PagesAssumption DEF Page
    <3>2. \A d \in D : d \in Nat
      BY <3>1
    <3>3. D # {}
      BY <1>2
    <3> QED
      BY <3>1, <3>2, <3>3
  <2>2. PICK d \in D : \A e \in D : d <= e
    <3>1. D \in SUBSET Nat /\ D # {}
      BY <2>1
    <3> HIDE DEF D
    <3> QED
      BY <3>1, LeastOf
  <2>3. PICK p \in S : d = Pages - p
    BY <2>2
  <2>4. \A q \in S : p >= q
    <3> TAKE q \in S
    <3>1. Pages - p <= Pages - q
      BY <2>2, <2>3
    <3>2. p \in Nat /\ q \in Nat /\ Pages \in Nat
      BY <2>1, PagesAssumption
    <3> QED
      BY <3>1, <3>2
  <2> QED
    BY <1>2, <2>4 DEF HighestOf
<1> QED
  BY <1>1, <1>2

\* No call, no write and no power failure breaks that.
LEMMA ReserveInvariant == Spec => []Reserve
<1>1. Init => Reserve
  <2> SUFFICES ASSUME Init PROVE Reserve
    OBVIOUS
  <2>1. Blank \in PageType
    BY DEF Blank, PageType
  <2>2. PagesTyped /\ pc = "boot" /\ call = NoCall
    BY <2>1 DEF Init, PagesTyped
  <2> QED
    BY <2>2 DEF Reserve
<1>2. Reserve /\ [Next]_vars => Reserve'
  <2> SUFFICES ASSUME Reserve, [Next]_vars PROVE Reserve'
    OBVIOUS
  <2>t. PagesTyped /\ Blank \in PageType
    BY DEF Reserve, Blank, PageType
  <2>f. /\ pgRes \in Page /\ UNCHANGED pgRes /\ Within(pgRes) => (Filled => Filled')
        /\ \A p \in Page : UNCHANGED pgRes /\ Within(p) => (Filled => Filled')
        /\ \A p : p # pgRes /\ UNCHANGED pgRes /\ Within(p) => (Reserved => Reserved')
    BY DEF Filled, Reserved, Within
  <2>1. ASSUME NEW kind \in {"init", "write"}, NEW id \in Id, NEW val \in Value, Begin(kind, id, val)
        PROVE  Reserve'
    <3>1. Reserved /\ pc = "ready" /\ com = NoPage /\ PagesTyped
      BY <2>1 DEF Begin, Reserve
    <3>2. findItem(id)[1] # pgRes
      BY <3>1, ItemFound, BlankIsEmpty
    <3>3. Chosen(Size[id]) \in Page \ {pgRes}
      BY <2>1, <3>1, ChosenFits DEF Begin, Reserved, Filled
    <3>4. ForItem'
      BY <2>1 DEF Begin, ForItem
    <3>5. UNCHANGED <<flash, pgRes>> /\ Reserved' /\ PagesTyped'
      BY <2>1, <3>1 DEF Begin, Reserved, Filled, PagesTyped
    <3>6. src'[1] # pgRes'
      BY <2>1, <3>2 DEF Begin
    <3>7. CASE NeedsCompaction(Chosen(Size[id]), Size[id])
      <4>1. dst' = pgRes /\ com' = Chosen(Size[id]) /\ pc' = "markPage"
        BY <2>1, <3>7 DEF Begin
      <4> QED
        BY <3>3, <3>4, <3>5, <4>1 DEF Reserve, Reserved, Filled, Compacting
    <3>8. CASE ~NeedsCompaction(Chosen(Size[id]), Size[id])
      <4>1. dst' = Chosen(Size[id]) /\ com' = com /\ pc' = "header"
        BY <2>1, <3>8 DEF Begin
      <4> QED
        BY <3>1, <3>3, <3>4, <3>5, <3>6, <4>1 DEF Reserve
    <3> QED
      BY <3>7, <3>8
  <2>2. ASSUME NEW id \in hotIds, ItemInitHot(id) PROVE Reserve'
    BY <2>2 DEF ItemInitHot, Reserve, Reserved, Filled, PagesTyped
  <2>3. ASSUME NEW id \in Id \ hotIds, osal_nv_delete(id) PROVE Reserve'
    <3>1. Reserved /\ PagesTyped
      BY <2>3 DEF osal_nv_delete, Reserve
    <3>2. findItem(id)[1] # pgRes
      BY <3>1, ItemFound, BlankIsEmpty
    <3> QED
      BY <2>3, <3>1, <3>2 DEF osal_nv_delete, Reserve, Reserved, Filled, PagesTyped
  <2>4. CASE MarkPage
    <3>1. Reserved /\ Compacting /\ (call = NoCall \/ (ForItem /\ dst = pgRes))
      BY <2>4 DEF MarkPage, Reserve
    <3>2. [flash[com] EXCEPT !.xfer = TRUE] \in PageType
      BY <2>t, <3>1 DEF Compacting, PagesTyped, PageType
    <3>3. PagesTyped' /\ flash'[com].active = flash[com].active /\ \A q \in Page \ {com} : flash'[q] = flash[q]
      BY <2>4, <2>t, <3>1, <3>2, PageWritten DEF MarkPage, Compacting, PagesTyped, PageType
    <3> QED
      BY <2>4, <3>1, <3>3 DEF MarkPage, Reserve, Reserved, Compacting, Filled, ForItem
  <2>5. CASE CopyMark
    <3>1. Compacting /\ (call = NoCall \/ (ForItem /\ dst = pgRes)) /\ pgRes' = pgRes /\ com' = com
          /\ UNCHANGED <<call, dst>> /\ com # NoPage
      BY <2>5, PagesAssumption DEF CopyMark, Reserve, Compacting, Page, NoPage
    <3>2. CASE ToCopy = {}
      <4>1. flash' = flash /\ pc' = IF call # NoCall THEN "header" ELSE "use"
        BY <2>5, <3>2 DEF CopyMark
      <4>2. Compacting' /\ PagesTyped' /\ (ForItem => ForItem')
        BY <2>t, <3>1, <4>1 DEF Compacting, Filled, PagesTyped, ForItem
      <4> QED
        BY <3>1, <4>1, <4>2 DEF Reserve
    <3>3. CASE ToCopy # {}
      <4> DEFINE a == FirstOf(ToCopy)
      <4>1. a \in ToCopy
        BY <2>t, <3>3, FirstOfIn DEF ToCopy
      <4>2. /\ WritesItem(a, [Item(a) EXCEPT !.xfer = TRUE])
            /\ cur' = a /\ pc' = "copyItem"
        BY <2>5, <3>3 DEF CopyMark
      <4>3. a \in Items /\ a[1] = com /\ Item(a).id # Zeroed
        BY <4>1 DEF ToCopy
      <4> HIDE DEF a
      <4>4. Within(com)
        BY <2>t, <4>2, <4>3, FieldWritten
      <4>5. Compacting' /\ PagesTyped' /\ (ForItem => ForItem')
        BY <3>1, <4>4 DEF Compacting, Filled, Within, ForItem
      <4>6. (cur \in Items /\ Item(cur).id \in Id)'
        <5>1. a[1] \in Page /\ a[2] \in DOMAIN flash[a[1]].items /\ a = <<a[1], a[2]>>
          BY <2>t, <4>3, PlacesOfItems
        <5>2. Item(a) \in ItemType /\ flash[a[1]] \in PageType /\ flash[a[1]].items \in Seq(ItemType)
          BY <2>t, <5>1, ItemTyped DEF PagesTyped, PageType
        <5>3. flash'[a[1]].items = [flash[a[1]].items EXCEPT ![a[2]] = [Item(a) EXCEPT !.xfer = TRUE]]
          BY <2>t, <4>2, <5>1, <5>2 DEF WritesItem, Writes, PagesTyped, PageType
        <5>4. DOMAIN flash'[a[1]].items = DOMAIN flash[a[1]].items
          BY <5>3
        <5>5. flash'[a[1]].items[a[2]] = [Item(a) EXCEPT !.xfer = TRUE]
          BY <5>1, <5>3
        <5>6. [Item(a) EXCEPT !.xfer = TRUE].id = Item(a).id /\ Item(a).id \in Id
          BY <4>3, <5>2 DEF ItemType
        <5> QED
          BY <4>2, <4>5, <5>1, <5>4, <5>5, <5>6, PlacesOfItems DEF Items, Item
      <4> QED
        BY <3>1, <4>2, <4>5, <4>6 DEF Reserve
    <3> QED
      BY <3>2, <3>3
  <2>6. CASE CopyItem
    <3>1. /\ Compacting /\ (call = NoCall \/ (ForItem /\ dst = pgRes)) /\ pc' = "copyChk"
          /\ UNCHANGED <<pgRes, com, call, dst>>
          /\ cur \in Items /\ Item(cur).id \in Id
          /\ WritesHeader(pgRes, Item(cur).id, Item(cur).val)
      BY <2>6 DEF CopyItem, Reserve
    <3>2. Item(cur).val \in Value \cup {NoValue, Garbage}
      BY <2>t, <3>1, PlacesOfItems DEF ItemType
    <3>3. Within(pgRes)
      BY <2>t, <3>1, <3>2, HeaderWritten DEF Within, Compacting, Filled
    <3>4. Compacting' /\ PagesTyped' /\ (ForItem => ForItem')
      BY <3>1, <3>3 DEF Compacting, Filled, Within, ForItem
    <3> QED
      BY <3>1, <3>4 DEF Reserve
  <2>7. CASE CopyChk
    <3>1. /\ Compacting /\ (call = NoCall \/ (ForItem /\ dst = pgRes)) /\ pc' = "copy"
          /\ UNCHANGED <<pgRes, com, call, dst>>
          /\ LastPlace(pgRes)[1] = pgRes
          /\ WritesItem(LastPlace(pgRes), [Item(LastPlace(pgRes)) EXCEPT !.good = TRUE])
      BY <2>7 DEF CopyChk, Reserve, LastPlace
    <3>2. Within(pgRes)
      BY <2>t, <3>1, FieldWritten
    <3>3. Compacting' /\ PagesTyped' /\ (ForItem => ForItem')
      BY <3>1, <3>2 DEF Compacting, Filled, Within, ForItem
    <3> QED
      BY <3>1, <3>3 DEF Reserve
  <2>w. ASSUME NEW p, Within(p), UNCHANGED <<pgRes, com, dst, src, call>>,
               ForItem, p = dst \/ p = src[1],
               IF com = NoPage THEN Reserved /\ dst \in Page \ {pgRes} /\ src[1] # pgRes
                               ELSE Compacting /\ dst = pgRes
        PROVE  /\ PagesTyped' /\ ForItem'
               /\ IF com' = NoPage THEN Reserved' /\ dst' \in Page \ {pgRes'} /\ src'[1] # pgRes'
                                   ELSE Compacting' /\ dst' = pgRes'
    BY <2>w DEF Within, ForItem, Reserved, Filled, Compacting
  <2>8. CASE WriteHeader
    <3>1. /\ ForItem /\ UNCHANGED <<pgRes, com, dst, src, call>> /\ pc' \in {"markOld", "data"}
          /\ dst \in Page /\ WritesHeader(dst, call.id, Garbage)
          /\ IF com = NoPage THEN Reserved /\ dst \in Page \ {pgRes} /\ src[1] # pgRes
                             ELSE Compacting /\ dst = pgRes
      BY <2>8 DEF WriteHeader, Reserve, Compacting, Filled
    <3>2. Within(dst)
      BY <2>t, <3>1, HeaderWritten DEF Within, ForItem
    <3> HIDE DEF Reserve
    <3>3. /\ PagesTyped' /\ ForItem'
          /\ IF com' = NoPage THEN Reserved' /\ dst' \in Page \ {pgRes'} /\ src'[1] # pgRes'
                              ELSE Compacting' /\ dst' = pgRes'
      BY <2>w, <3>1, <3>2
    <3> QED
      BY <3>1, <3>3 DEF Reserve
  <2>9. CASE MarkOld
    <3>1. /\ ForItem /\ UNCHANGED <<pgRes, com, dst, src, call>> /\ pc' = "data"
          /\ WritesItem(src, [Item(src) EXCEPT !.xfer = TRUE])
          /\ IF com = NoPage THEN Reserved /\ dst \in Page \ {pgRes} /\ src[1] # pgRes
                             ELSE Compacting /\ dst = pgRes
      BY <2>9 DEF MarkOld, Reserve, LastPlace
    <3>2. Within(src[1])
      BY <2>t, <3>1, FieldWritten DEF ForItem
    <3>3. /\ PagesTyped' /\ ForItem'
          /\ IF com' = NoPage THEN Reserved' /\ dst' \in Page \ {pgRes'} /\ src'[1] # pgRes'
                              ELSE Compacting' /\ dst' = pgRes'
      BY <2>w, <3>1, <3>2
    <3> QED
      BY <3>1, <3>3 DEF Reserve
  <2>10. CASE WriteData
    <3>1. /\ ForItem /\ UNCHANGED <<pgRes, com, dst, src, call>> /\ pc' = "chk"
          /\ LastPlace(dst)[1] = dst
          /\ WritesItem(LastPlace(dst), [Item(LastPlace(dst)) EXCEPT !.val = call.val])
          /\ IF com = NoPage THEN Reserved /\ dst \in Page \ {pgRes} /\ src[1] # pgRes
                             ELSE Compacting /\ dst = pgRes
      BY <2>10 DEF WriteData, Reserve, LastPlace
    <3>2. Within(dst)
      BY <2>t, <3>1, FieldWritten DEF ForItem
    <3>3. /\ PagesTyped' /\ ForItem'
          /\ IF com' = NoPage THEN Reserved' /\ dst' \in Page \ {pgRes'} /\ src'[1] # pgRes'
                              ELSE Compacting' /\ dst' = pgRes'
      BY <2>w, <3>1, <3>2
    <3> QED
      BY <3>1, <3>3 DEF Reserve
  <2>11. CASE SetChk
    <3>1. /\ ForItem /\ UNCHANGED <<pgRes, com, dst, src, call>> /\ pc' = AfterItem
          /\ LastPlace(dst)[1] = dst
          /\ WritesItem(LastPlace(dst), [Item(LastPlace(dst)) EXCEPT !.good = TRUE])
          /\ IF com = NoPage THEN Reserved /\ dst \in Page \ {pgRes} /\ src[1] # pgRes
                             ELSE Compacting /\ dst = pgRes
      BY <2>11 DEF SetChk, Reserve, LastPlace
    <3>2. Within(dst)
      BY <2>t, <3>1, FieldWritten
    <3>3. /\ PagesTyped' /\ ForItem'
          /\ IF com' = NoPage THEN Reserved' /\ dst' \in Page \ {pgRes'} /\ src'[1] # pgRes'
                              ELSE Compacting' /\ dst' = pgRes'
      BY <2>w, <3>1, <3>2
    <3>4. IF com = NoPage THEN pc' \in {"zeroOld", "return"} ELSE pc' = "use"
      BY <3>1 DEF AfterItem
    <3> QED
      BY <3>1, <3>3, <3>4 DEF Reserve
  <2>12. CASE PageUse
    <3>1. /\ Compacting /\ pc' = "erase" /\ UNCHANGED <<pgRes, com>>
          /\ Writes(pgRes, [flash[pgRes] EXCEPT !.active = TRUE, !.inUse = TRUE])
      BY <2>12 DEF PageUse, Reserve
    <3>2. /\ [flash[pgRes] EXCEPT !.active = TRUE, !.inUse = TRUE] \in PageType
          /\ [flash[pgRes] EXCEPT !.active = TRUE, !.inUse = TRUE].active
      BY <2>t, <3>1 DEF Compacting, Filled, PagesTyped, PageType
    <3>3. PagesTyped' /\ flash'[pgRes].active /\ \A q \in Page \ {pgRes} : flash'[q] = flash[q]
      BY <2>t, <3>1, <3>2, PageWritten DEF Compacting, Filled
    <3> QED
      BY <3>1, <3>3 DEF Reserve, Compacting, Filled
  <2>e. ASSUME com \in Page, \A p \in Page \ {com} : flash[p].active, Writes(com, Blank), pgRes' = com
        PROVE  PagesTyped' /\ Reserved'
    <3>1. PagesTyped' /\ flash'[com] = Blank /\ \A q \in Page \ {com} : flash'[q] = flash[q]
      BY <2>t, <2>e, PageWritten
    <3> QED
      BY <2>e, <3>1 DEF Reserved, Filled
  <2>13. CASE ErasePage
    <3>1. /\ com \in Page /\ com # NoPage /\ \A p \in Page \ {com} : flash[p].active
          /\ Writes(com, Blank) /\ pgRes' = com /\ com' = NoPage
          /\ pc' \in {"dups", "zeroOld", "return"} /\ src' = src
          /\ pc' = "zeroOld" => src[1] # com
      BY <2>13, PagesAssumption DEF ErasePage, Reserve, Page, NoPage
    <3>2. PagesTyped' /\ Reserved' /\ pgRes' # NoPage
      BY <2>e, <3>1
    <3> QED
      BY <3>1, <3>2 DEF Reserve
  <2>14. CASE ZeroOld
    <3>1. Reserved /\ src[1] # pgRes /\ Zeroes(src) /\ pgRes' = pgRes /\ pc' = "return"
      BY <2>14 DEF ZeroOld, Reserve
    <3>2. Within(src[1])
      BY <2>t, <3>1, FieldWritten
    <3>3. PagesTyped' /\ Reserved'
      BY <3>1, <3>2 DEF Within, Reserved, Filled
    <3> QED
      BY <3>1, <3>3 DEF Reserve
  <2>15. CASE Return
    <3>1. Reserved /\ UNCHANGED <<flash, pgRes>> /\ com' = NoPage /\ pc' = "ready"
      BY <2>15 DEF Return, Reserve
    <3> QED
      BY <2>t, <3>1 DEF Reserve, Reserved, Filled, PagesTyped
  <2>16. CASE BootUse
    <3> DEFINE p == LowestOf(Erased \ {LowestOf(Erased)})
               page == [flash[p] EXCEPT !.active = TRUE, !.inUse = TRUE]
    <3>1. pc' = "boot" /\ call' = NoCall /\ Writes(p, page)
      BY <2>16 DEF BootUse, ram, Reserve
    <3> HIDE DEF p
    <3>2. PagesTyped'
      <4>1. CASE p \in Page
        <5>1. page \in PageType
          BY <2>t, <4>1 DEF PagesTyped, PageType
        <5> HIDE DEF page
        <5> QED
          BY <2>t, <3>1, <4>1, <5>1, PageWritten
      <4>2. CASE p \notin Page
        <5>1. flash' = flash
          BY <2>t, <3>1, <4>2 DEF Writes, PagesTyped
        <5> QED
          BY <2>t, <5>1 DEF PagesTyped
      <4> QED
        BY <4>1, <4>2
    <3> QED
      BY <3>1, <3>2 DEF Reserve
  <2>17. CASE BootScan
    <3> DEFINE old == {p \in Page : flash[p].active /\ flash[p].xfer}
    <3>1. /\ flash' = flash /\ pgRes' = LowestOf(Erased) /\ com' = HighestOf(old)
          /\ pc' = IF pgRes' # NoPage THEN "eraseRes" ELSE IF com' # NoPage THEN "erase" ELSE "dups"
          /\ call' = NoCall
          /\ Cardinality(Erased) <= 1
      BY <2>17 DEF BootScan, Reserve
    <3>2. com' = NoPage \/ com' \in old
      BY <3>1, HighestIn, Zenon
    <3> HIDE DEF old
    <3>3. /\ pgRes' = NoPage => \A p \in Page : flash[p].active
          /\ pgRes' # NoPage => pgRes' \in Page /\ ~flash[pgRes'].active
                                /\ \A p \in Page \ {pgRes'} : flash[p].active
      BY <2>t, <3>1, OneErased
    <3>4. com' # NoPage => com' \in Page /\ com' # pgRes'
      BY <3>2, <3>3 DEF old, NoPage
    <3>5. PagesTyped'
      BY <2>t, <3>1 DEF PagesTyped
    <3> QED
      BY <3>1, <3>3, <3>4, <3>5 DEF Reserve, Filled, Compacting
  <2>18. CASE EraseRes
    <3>1. /\ Filled /\ (com = NoPage \/ Compacting) /\ Writes(pgRes, Blank)
          /\ UNCHANGED <<pgRes, com, call, dst>>
          /\ call = NoCall /\ pc' = IF com # NoPage THEN "copy" ELSE "dups"
      BY <2>18 DEF EraseRes, Reserve
    <3>2. PagesTyped' /\ flash'[pgRes] = Blank /\ \A q \in Page \ {pgRes} : flash'[q] = flash[q]
      BY <2>t, <3>1, PageWritten DEF Filled
    <3>3. CASE com = NoPage
      <4>1. Reserved' /\ pgRes' # NoPage /\ com' = NoPage /\ pc' = "dups"
        BY <3>1, <3>2, <3>3, PagesAssumption DEF Filled, Reserved, Page, NoPage
      <4> QED
        BY <3>2, <4>1 DEF Reserve
    <3>4. CASE com # NoPage
      <4>1. Compacting' /\ pc' = "copy" /\ call' = NoCall
        BY <3>1, <3>2, <3>4 DEF Filled, Compacting
      <4> QED
        BY <3>2, <4>1 DEF Reserve
    <3> QED
      BY <3>3, <3>4
  <2>19. CASE InitPages
    <3> DEFINE S == {b \in Rest : Bad(b) \/ (IF findDups THEN New(b) ELSE Old(b))}
               a == FirstOf(S)
               b == FirstOf(Copies(Item(a).id, TRUE))
    <3>1. /\ pc = "dups" /\ UNCHANGED <<pgRes, pc, com>> /\ a # NoPlace
          /\ IF Bad(a) THEN Zeroes(a) ELSE IF findDups THEN Zeroes(b) ELSE UNCHANGED flash
          /\ com = NoPage /\ IF pgRes = NoPage THEN \A p \in Page : flash[p].active ELSE Reserved
      BY <2>19 DEF InitPages, Reserve
    <3>2. a \in S
      BY <2>t, <3>1, FirstOfIn DEF FirstOf, Rest
    <3>3. a \in Items
      BY <3>2 DEF Rest
    <3>4. ~Bad(a) /\ findDups => b \in Items
      <4>1. ~Bad(a) /\ findDups => Copies(Item(a).id, TRUE) # {}
        BY <3>2 DEF New
      <4>2. Copies(Item(a).id, TRUE) \in SUBSET Items
        BY DEF Copies
      <4> QED
        BY <2>t, <4>1, <4>2, FirstOfIn
    <3> HIDE DEF a, b
    <3>5. flash' = flash \/ \E c \in Items : Zeroes(c)
      BY <3>1, <3>3, <3>4
    <3>6. CASE flash' = flash
      BY <2>t, <3>1, <3>6 DEF Reserve, Reserved, Filled, PagesTyped
    <3>7. ASSUME NEW c \in Items, Zeroes(c) PROVE Reserve'
      <4>1. Within(c[1])
        BY <2>t, <3>7, FieldWritten
      <4>2. pgRes # NoPage => c[1] # pgRes /\ Reserved'
        BY <2>t, <3>1, <4>1, BlankIsEmpty DEF Within, Reserved, Filled
      <4> QED
        BY <3>1, <4>1, <4>2 DEF Reserve, Within
    <3> QED
      BY <3>5, <3>6, <3>7
  <2>20. CASE InitDone
    <3>1. /\ UNCHANGED <<flash, pgRes>> /\ com = NoPage
          /\ IF pgRes # NoPage THEN pc' = "ready" /\ com' = com /\ Reserved
             ELSE pc' = "eraseMost" /\ com' = MostLost /\ \A p \in Page : flash[p].active
      BY <2>20 DEF InitDone, Reserve
    <3>2. MostLost \in Page
      BY <2>t, MostLostPage
    <3> QED
      BY <2>t, <3>1, <3>2 DEF Reserve, Reserved, Filled, PagesTyped
  <2>21. CASE EraseMost
    <3>1. /\ com \in Page /\ \A p \in Page \ {com} : flash[p].active
          /\ Writes(com, Blank) /\ pgRes' = com /\ com' = NoPage /\ pc' = "ready"
      BY <2>21 DEF EraseMost, Reserve
    <3>2. PagesTyped' /\ Reserved'
      BY <2>e, <3>1
    <3> QED
      BY <3>1, <3>2 DEF Reserve
  <2>22. CASE Crash
    <3>1. pc' = "boot" /\ call' = NoCall
      BY <2>22 DEF Crash
    <3>2. PagesTyped'
      <4>1. CASE UNCHANGED flash
        BY <2>t, <4>1 DEF PagesTyped
      <4>2. ASSUME NEW p, NEW page \in EraseLeaves(flash[p]), flash' = [flash EXCEPT ![p] = page]
            PROVE  PagesTyped'
        <5>1. p \in Page => page \in PageType
          BY <2>t, <4>2 DEF EraseLeaves, PagesTyped, PageType
        <5> QED
          BY <2>t, <4>2, <5>1 DEF PagesTyped
      <4> QED
        BY <2>22, <4>1, <4>2 DEF Crash
    <3> QED
      BY <3>1, <3>2 DEF Reserve
  <2>23. CASE UNCHANGED vars
    BY <2>23, <2>t DEF vars, ram, Reserve, Reserved, Filled, Compacting, ForItem, PagesTyped, Items, Item
  <2> QED
    BY <2>1, <2>2, <2>3, <2>4, <2>5, <2>6, <2>7, <2>8, <2>9, <2>10, <2>11, <2>12, <2>13, <2>14,
       <2>15, <2>16, <2>17, <2>18, <2>19, <2>20, <2>21, <2>22, <2>23
    DEF Next, Writing, initNV
<1> QED
  BY <1>1, <1>2, PTL DEF Spec

\* A page is always kept in reserve, and all others in use, whenever the memory
\* is ready, whatever power failures did before (initNV, compactPage).
THEOREM ReserveKept == Spec => []OneReserve
<1>1. Reserve => OneReserve
  BY DEF Reserve, OneReserve, Reserved, Filled
<1> QED
  BY <1>1, ReserveInvariant, PTL

-----------------------------------------------------------------------------
(* What a write to the flash does to the items that are not zeroed *)

Named == {x \in Items : Item(x).id # Zeroed}

\* The headers of the pages stay as they are.
HeadersStay == \A p \in Page : flash'[p].active = flash[p].active /\ flash'[p].xfer = flash[p].xfer

\* An item is replaced by another one.
LEMMA ItemReplaced ==
  ASSUME PagesTyped, NEW a \in Items, NEW item \in ItemType, WritesItem(a, item)
  PROVE  /\ PagesTyped' /\ HeadersStay /\ Items' = Items
         /\ Item(a)' = item /\ \A x \in Items \ {a} : Item(x)' = Item(x)
         /\ \A p \in Page : LastPlace(p)' = LastPlace(p)
<1>1. a[1] \in Page /\ a[2] \in DOMAIN flash[a[1]].items /\ a = <<a[1], a[2]>>
  BY PlacesOfItems
<1> DEFINE items == flash[a[1]].items
           new == [items EXCEPT ![a[2]] = item]
           page == [flash[a[1]] EXCEPT !.items = new]
<1>2. flash[a[1]] \in PageType /\ items \in Seq(ItemType) /\ DOMAIN items = 1 .. Len(items)
  BY <1>1, PlacesOfItems
<1>3. /\ new \in Seq(ItemType) /\ Len(new) = Len(items) /\ DOMAIN new = DOMAIN items
      /\ new[a[2]] = item /\ \A i \in DOMAIN items : i # a[2] => new[i] = items[i]
  <2> HIDE DEF items
  <2>1. new \in Seq(ItemType) /\ Len(new) = Len(items)
    BY <1>1, <1>2, ExceptSeq DEF items
  <2> QED
    BY <1>1, <1>2, <2>1 DEF items
<1>4. Writes(a[1], page)
  <2>1. page = [flash[a[1]] EXCEPT !.items[a[2]] = item]
    BY <1>2 DEF PageType
  <2> QED
    BY <2>1 DEF WritesItem
<1> HIDE DEF new
<1>5. page \in PageType /\ page.items = new /\ page.active = flash[a[1]].active /\ page.xfer = flash[a[1]].xfer
  <2> HIDE DEF ItemType
  <2> QED
    BY <1>2, <1>3 DEF PageType
<1> HIDE DEF page
<1>6. PagesTyped' /\ flash'[a[1]] = page /\ \A q \in Page \ {a[1]} : flash'[q] = flash[q]
  BY <1>1, <1>4, <1>5, PageWritten
<1>7. HeadersStay
  BY <1>5, <1>6 DEF HeadersStay
<1>8. \A p \in Page : DOMAIN flash'[p].items = DOMAIN flash[p].items /\ Len(flash'[p].items) = Len(flash[p].items)
  BY <1>3, <1>5, <1>6
<1>9. Items' = Items
  BY <1>8 DEF Items
<1>10. Item(a)' = item
  BY <1>3, <1>5, <1>6 DEF Item
<1>11. \A x \in Items \ {a} : Item(x)' = Item(x)
  <2> TAKE x \in Items \ {a}
  <2>1. x[1] \in Page /\ x[2] \in DOMAIN flash[x[1]].items /\ x = <<x[1], x[2]>>
    BY PlacesOfItems
  <2>2. CASE x[1] = a[1]
    <3>1. x[2] # a[2]
      BY <1>1, <2>1, <2>2
    <3> QED
      BY <1>3, <1>5, <1>6, <2>1, <2>2, <3>1 DEF Item
  <2>3. CASE x[1] # a[1]
    BY <1>6, <2>1, <2>3 DEF Item
  <2> QED
    BY <2>2, <2>3
<1>12. \A p \in Page : LastPlace(p)' = LastPlace(p)
  BY <1>8 DEF LastPlace
<1> QED
  BY <1>6, <1>7, <1>9, <1>10, <1>11, <1>12

\* One field of an item is written: it is marked as old, its checksum completed,
\* or its data written.
LEMMA FieldReplaced ==
  ASSUME PagesTyped, NEW a \in Named
  PROVE  /\ WritesItem(a, [Item(a) EXCEPT !.xfer = TRUE]) =>
              /\ HeadersStay /\ Named' = Named /\ \A p \in Page : LastPlace(p)' = LastPlace(p)
              /\ \A x \in Named : /\ Item(x)'.id = Item(x).id /\ Item(x)'.val = Item(x).val
                                  /\ Item(x)'.good = Item(x).good
                                  /\ x # a => Item(x)'.xfer = Item(x).xfer
              /\ Item(a)'.xfer
         /\ WritesItem(a, [Item(a) EXCEPT !.good = TRUE]) =>
              /\ HeadersStay /\ Named' = Named /\ \A p \in Page : LastPlace(p)' = LastPlace(p)
              /\ \A x \in Named : /\ Item(x)'.id = Item(x).id /\ Item(x)'.val = Item(x).val
                                  /\ x # a => Item(x)'.good = Item(x).good
                                  /\ Item(x)'.xfer = Item(x).xfer
              /\ Item(a)'.good
         /\ \A v \in Value : WritesItem(a, [Item(a) EXCEPT !.val = v]) =>
              /\ HeadersStay /\ Named' = Named /\ \A p \in Page : LastPlace(p)' = LastPlace(p)
              /\ \A x \in Named : /\ Item(x)'.id = Item(x).id
                                  /\ x # a => Item(x)'.val = Item(x).val
                                  /\ Item(x)'.good = Item(x).good /\ Item(x)'.xfer = Item(x).xfer
              /\ Item(a)'.val = v
         /\ Zeroes(a) => /\ HeadersStay /\ Named' = Named \ {a}
                         /\ \A x \in Named \ {a} : Item(x)' = Item(x)
<1>1. a \in Items /\ Item(a) \in ItemType /\ Item(a).id # Zeroed
  BY PlacesOfItems DEF Named
<1>2. ASSUME NEW item \in ItemType, WritesItem(a, item)
      PROVE  /\ HeadersStay /\ \A p \in Page : LastPlace(p)' = LastPlace(p)
             /\ Item(a)' = item /\ \A x \in Items \ {a} : Item(x)' = Item(x)
             /\ item.id = Item(a).id => Named' = Named
             /\ item.id = Zeroed => Named' = Named \ {a}
  BY <1>1, <1>2, ItemReplaced DEF Named
<1>3. Named \subseteq Items
  BY DEF Named
<1>4. ASSUME WritesItem(a, [Item(a) EXCEPT !.xfer = TRUE])
      PROVE  /\ HeadersStay /\ Named' = Named /\ \A p \in Page : LastPlace(p)' = LastPlace(p)
             /\ \A x \in Named : /\ Item(x)'.id = Item(x).id /\ Item(x)'.val = Item(x).val
                                 /\ Item(x)'.good = Item(x).good
                                 /\ x # a => Item(x)'.xfer = Item(x).xfer
             /\ Item(a)'.xfer
  <2> DEFINE item == [Item(a) EXCEPT !.xfer = TRUE]
  <2>1. item \in ItemType /\ item.id = Item(a).id /\ item.val = Item(a).val /\ item.good = Item(a).good /\ item.xfer
    BY <1>1 DEF ItemType
  <2> HIDE DEF item
  <2>2. WritesItem(a, item)
    BY <1>4 DEF item
  <2> QED
    BY <1>2, <1>3, <2>1, <2>2
<1>5. ASSUME WritesItem(a, [Item(a) EXCEPT !.good = TRUE])
      PROVE  /\ HeadersStay /\ Named' = Named /\ \A p \in Page : LastPlace(p)' = LastPlace(p)
             /\ \A x \in Named : /\ Item(x)'.id = Item(x).id /\ Item(x)'.val = Item(x).val
                                 /\ x # a => Item(x)'.good = Item(x).good
                                 /\ Item(x)'.xfer = Item(x).xfer
             /\ Item(a)'.good
  <2> DEFINE item == [Item(a) EXCEPT !.good = TRUE]
  <2>1. item \in ItemType /\ item.id = Item(a).id /\ item.val = Item(a).val /\ item.xfer = Item(a).xfer /\ item.good
    BY <1>1 DEF ItemType
  <2> HIDE DEF item
  <2>2. WritesItem(a, item)
    BY <1>5 DEF item
  <2> QED
    BY <1>2, <1>3, <2>1, <2>2
<1>6. ASSUME NEW v \in Value, WritesItem(a, [Item(a) EXCEPT !.val = v])
      PROVE  /\ HeadersStay /\ Named' = Named /\ \A p \in Page : LastPlace(p)' = LastPlace(p)
             /\ \A x \in Named : /\ Item(x)'.id = Item(x).id
                                 /\ x # a => Item(x)'.val = Item(x).val
                                 /\ Item(x)'.good = Item(x).good /\ Item(x)'.xfer = Item(x).xfer
             /\ Item(a)'.val = v
  <2> DEFINE item == [Item(a) EXCEPT !.val = v]
  <2>1. item \in ItemType /\ item.id = Item(a).id /\ item.good = Item(a).good /\ item.xfer = Item(a).xfer /\ item.val = v
    BY <1>1 DEF ItemType
  <2> HIDE DEF item
  <2>2. WritesItem(a, item)
    BY <1>6 DEF item
  <2> QED
    BY <1>2, <1>3, <2>1, <2>2
<1>7. ASSUME Zeroes(a)
      PROVE  /\ HeadersStay /\ Named' = Named \ {a}
             /\ \A x \in Named \ {a} : Item(x)' = Item(x)
  <2> DEFINE item == [Item(a) EXCEPT !.id = Zeroed, !.val = NoValue, !.good = FALSE, !.xfer = FALSE]
  <2>1. item \in ItemType /\ item.id = Zeroed
    BY <1>1 DEF ItemType
  <2> HIDE DEF item
  <2>2. WritesItem(a, item)
    BY <1>7 DEF item, Zeroes
  <2> QED
    BY <1>2, <1>3, <2>1, <2>2
<1> QED
  BY <1>4, <1>5, <1>6, <1>7

\* A new item is written behind the last of a page.
LEMMA ItemAdded ==
  ASSUME PagesTyped, NEW p \in Page, NEW id \in Id, NEW val \in Value \cup {NoValue, Garbage},
         WritesHeader(p, id, val)
  PROVE  /\ HeadersStay
         /\ LastPlace(p)' \notin Items /\ LastPlace(p)'[1] = p
         /\ Named' = Named \cup {LastPlace(p)'}
         /\ \A x \in Named : Item(x)' = Item(x)
         /\ Item(LastPlace(p))'.id = id /\ Item(LastPlace(p))'.val = val
         /\ ~Item(LastPlace(p))'.good /\ ~Item(LastPlace(p))'.xfer
         /\ \A x \in Named : x[1] = p => x[2] < LastPlace(p)'[2]
<1> DEFINE item == [id |-> id, val |-> val, size |-> Size[id], good |-> FALSE, xfer |-> FALSE]
           items == flash[p].items
           page == [flash[p] EXCEPT !.items = Append(@, item)]
<1>n. PICK n : n = <<p, Len(items) + 1>>
  OBVIOUS
<1>1. item \in ItemType /\ item.id = id /\ item.val = val /\ ~item.good /\ ~item.xfer
  BY SizeAssumption DEF ItemType
<1>2. flash[p] \in PageType /\ items \in Seq(ItemType) /\ Len(items) \in Nat /\ DOMAIN items = 1 .. Len(items)
  BY PlacesOfItems
<1>3. Writes(p, page)
  BY DEF WritesHeader, Writes
<1> HIDE DEF item
<1>4. /\ Append(items, item) \in Seq(ItemType)
      /\ Len(Append(items, item)) = Len(items) + 1
      /\ Append(items, item)[Len(items) + 1] = item
      /\ \A i \in 1 .. Len(items) : Append(items, item)[i] = items[i]
      /\ DOMAIN Append(items, item) = 1 .. Len(items) + 1
  <2> HIDE DEF items, ItemType
  <2> QED
    BY <1>1, <1>2
<1>5. page \in PageType /\ page.items = Append(items, item) /\ page.active = flash[p].active /\ page.xfer = flash[p].xfer
  <2> HIDE DEF ItemType
  <2> QED
    BY <1>2, <1>4 DEF PageType
<1> HIDE DEF page
<1>6. PagesTyped' /\ flash'[p] = page /\ \A q \in Page \ {p} : flash'[q] = flash[q]
  BY <1>3, <1>5, PageWritten
<1>7. HeadersStay
  BY <1>5, <1>6 DEF HeadersStay
<1>8. LastPlace(p)' = n /\ n[1] = p
  BY <1>n, <1>4, <1>5, <1>6 DEF LastPlace
<1>9. n \notin Items
  BY <1>n, <1>2, PlacesOfItems
<1>10. n \in Items' /\ Item(n)' = item
  <2>1. flash'[p].items = Append(items, item) /\ n[1] = p /\ n[2] = Len(items) + 1
    BY <1>n, <1>5, <1>6
  <2>2. n[2] \in DOMAIN flash'[p].items
    BY <1>2, <1>4, <2>1
  <2>3. \A q, i : q \in Page /\ i \in DOMAIN flash'[q].items => <<q, i>> \in Items'
    BY DEF Items
  <2> QED
    BY <1>n, <1>4, <2>1, <2>2, <2>3 DEF Item
<1>11. ASSUME NEW x PROVE /\ x \in Items => x \in Items' /\ Item(x)' = Item(x)
                          /\ x \in Items' => x = n \/ x \in Items
  <2>1. ASSUME x \in Items PROVE x \in Items' /\ Item(x)' = Item(x)
    <3>1. x = <<x[1], x[2]>> /\ x[1] \in Page /\ x[2] \in DOMAIN flash[x[1]].items
      BY <2>1, PlacesOfItems
    <3>2. flash'[x[1]].items[x[2]] = flash[x[1]].items[x[2]] /\ x[2] \in DOMAIN flash'[x[1]].items
      <4>1. CASE x[1] = p
        <5>1. x[2] \in 1 .. Len(items) /\ x[2] \in 1 .. Len(items) + 1
          BY <1>2, <3>1, <4>1
        <5>2. flash'[p].items = Append(items, item)
          BY <1>5, <1>6
        <5> QED
          BY <1>4, <4>1, <5>1, <5>2
      <4>2. CASE x[1] # p
        BY <1>6, <3>1, <4>2
      <4> QED
        BY <4>1, <4>2
    <3>3. \A q, i : q \in Page /\ i \in DOMAIN flash'[q].items => <<q, i>> \in Items'
      BY DEF Items
    <3> QED
      BY <3>1, <3>2, <3>3 DEF Item
  <2>2. ASSUME x \in Items' PROVE x = n \/ x \in Items
    <3>1. PICK q \in Page : x \in {<<q, i>> : i \in DOMAIN flash'[q].items}
      BY <2>2 DEF Items
    <3>2. PICK i \in DOMAIN flash'[q].items : x = <<q, i>>
      BY <3>1
    <3>3. CASE q = p
      <4>1. i = Len(items) + 1 \/ i \in DOMAIN flash[q].items
        BY <1>2, <1>4, <1>5, <1>6, <3>2, <3>3
      <4> QED
        BY <1>n, <3>2, <3>3, <4>1, PlacesOfItems
    <3>4. CASE q # p
      BY <1>6, <3>2, <3>4, PlacesOfItems
    <3> QED
      BY <3>3, <3>4
  <2> QED
    BY <2>1, <2>2
<1>12. Named' = Named \cup {n} /\ \A x \in Named : Item(x)' = Item(x)
  <2>1. item.id # Zeroed
    BY <1>1, IdAssumption
  <2>2. \A x \in Named : x \in Items /\ Item(x).id # Zeroed
    BY DEF Named
  <2>3. \A x : x \in Named' <=> x \in Items' /\ Item(x)'.id # Zeroed
    BY DEF Named
  <2>4. \A x : x \in Items /\ Item(x).id # Zeroed => x \in Named
    BY DEF Named
  <2>5. \A x : x \in Named' <=> x \in Named \/ x = n
    <3> TAKE x
    <3>1. x \in Items => x \in Items' /\ Item(x)' = Item(x)
      BY <1>11
    <3>2. x \in Items' => x = n \/ x \in Items
      BY <1>11
    <3>3. n \in Named'
      BY <1>10, <2>1, <2>3
    <3> QED
      BY <2>2, <2>3, <2>4, <3>1, <3>2, <3>3
  <2> QED
    BY <1>11, <2>2, <2>5
<1>13. \A x \in Named : x[1] = p => x[2] < n[2]
  BY <1>n, <1>2, PlacesOfItems DEF Named
<1>14. Item(LastPlace(p))' = item
  <2>1. n \in Items' /\ Item(n)' = item /\ LastPlace(p)' = n
    BY <1>8, <1>10
  <2> QED
    BY <2>1 DEF Item
<1> QED
  BY <1>1, <1>7, <1>8, <1>9, <1>12, <1>13, <1>14

\* A page is erased, or only its header written.
LEMMA PageReplaced ==
  ASSUME PagesTyped, NEW p \in Page, NEW page \in PageType, Writes(p, page)
  PROVE  /\ page.items = <<>> =>
              Named' = {x \in Named : x[1] # p} /\ \A x \in Named' : Item(x)' = Item(x)
         /\ page.items = flash[p].items =>
              Named' = Named /\ Items' = Items /\ \A x \in Items : Item(x)' = Item(x)
         /\ flash'[p] = page /\ \A q \in Page \ {p} : flash'[q] = flash[q]
<1>1. PagesTyped' /\ flash'[p] = page /\ \A q \in Page \ {p} : flash'[q] = flash[q]
  BY PageWritten
<1>2. ASSUME NEW x PROVE (x \in Items)' <=> /\ x = <<x[1], x[2]>> /\ x[1] \in Page
                                            /\ x[2] \in DOMAIN flash'[x[1]].items
  BY DEF Items
<1>3. ASSUME NEW x PROVE x \in Items <=> /\ x = <<x[1], x[2]>> /\ x[1] \in Page
                                         /\ x[2] \in DOMAIN flash[x[1]].items
  BY DEF Items
<1>4. CASE page.items = <<>>
  <2>1. DOMAIN flash'[p].items = {}
    BY <1>1, <1>4
  <2>2. \A x : x \in Items' <=> x \in Items /\ x[1] # p
    BY <1>1, <1>2, <1>3, <2>1
  <2>3. \A x \in Items' : Item(x)' = Item(x)
    BY <1>1, <1>3, <2>2 DEF Item
  <2>4. Named' = {x \in Named : x[1] # p}
    BY <2>2, <2>3 DEF Named
  <2> QED
    <3>1. \A x \in Named' : Item(x)' = Item(x)
      BY <2>2, <2>3, <2>4 DEF Named
    <3>2. page.items = flash[p].items => Items' = Items /\ Named' = Named
      BY <1>1, <1>4, <2>2, <2>3 DEF Items, Named
    <3> QED
      BY <1>1, <2>2, <2>3, <2>4, <3>1, <3>2
<1>5. CASE page.items = flash[p].items
  <2>1. \A q \in Page : flash'[q].items = flash[q].items
    BY <1>1, <1>5
  <2>2. Items' = Items
    BY <2>1 DEF Items
  <2>3. \A x \in Items : Item(x)' = Item(x)
    BY <1>3, <2>1 DEF Item
  <2>4. Named' = Named
    BY <2>2, <2>3 DEF Named
  <2>5. page.items = <<>> => \A x \in Named : x[1] # p
    <3>1. ASSUME page.items = <<>>, NEW x \in Items PROVE x[1] # p
      <4>1. flash[p].items = <<>> /\ DOMAIN <<>> = {}
        BY <1>5, <3>1
      <4> QED
        BY <1>3, <4>1
    <3> QED
      BY <3>1 DEF Named
  <2> QED
    BY <1>1, <2>2, <2>3, <2>4, <2>5 DEF Named
<1> QED
  BY <1>1, <1>4, <1>5

-----------------------------------------------------------------------------
(* What is known of the items before each write to the flash *)

In(P) == {x \in Named : x[1] \in P}
Live == In(Page \ {pgRes})
InUse == {x \in Named : flash[x[1]].active}

\* All are good, no two have the same id.
Clean(S) == \A x \in S : Item(x).good /\ \A y \in S : Item(x).id = Item(y).id => x = y

\* Of two good ones with the same id one is marked as old.
Paired(S) ==
  /\ \A x \in S : Item(x).xfer => Item(x).good
  /\ \A x \in S, y \in S : /\ x # y /\ Item(x).id = Item(y).id
                           /\ Item(x).good /\ Item(y).good
                           => Item(x).xfer # Item(y).xfer

\* No other pages are marked as being compacted.
Marked(P) == \A p \in Page : flash[p].active /\ flash[p].xfer => p \in P

\* Other pages hold all that is in p.
Covered(p) ==
  \A x \in In({p}) : \E y \in In(Page \ {p}) : Item(y).id = Item(x).id /\ Item(y).good /\ ~Item(y).xfer

\* The places in RAM: none, and those of items in S.
Cold == \A id \in hotIds : hot[id] = NoPlace
HotIn(S) == \A id \in hotIds : hot[id] # NoPlace => hot[id] \in S /\ Item(hot[id]).id = id
HotCopies == \A y \in In({pgRes}) : Item(y).good /\ Item(y).id \in hotIds => hot[Item(y).id] = y

Kept(S) == Clean(S) /\ HotIn(S)

\* A flash that was never written, and one that a power failure left.
Virgin == Named = {} /\ \A p \in Page : ~flash[p].xfer
Recoverable ==
  /\ \A p \in Erased, q \in Erased : p = q
  /\ Paired(InUse)
  /\ \E p \in Page :
       /\ Marked({p})
       /\ IF Erased = {} THEN flash[p].xfer => Covered(p)
          ELSE Marked({}) \/ Clean(InUse)

\* An item that the call under way is not about.
Other(x) == call = NoCall \/ Item(x).id # call.id

\* What the call under way is about is in S, or it is new.
Replaces(S) ==
  \/ call = NoCall
  \/ call.kind = "write" /\ src \in S /\ Item(src).id = call.id
  \/ call.kind = "init" /\ \A x \in S : Item(x).id # call.id

\* What is copied from the page, up to n, and S its copies.
From(n) == {x \in In({com}) : Other(x) /\ x[2] < n}
FromAll == {x \in In({com}) : Other(x)}
To(S, D) ==
  /\ Clean(S)
  /\ \A y \in S : ~Item(y).xfer /\ \E x \in D : Item(x).id = Item(y).id /\ Item(x).val = Item(y).val
  /\ \A x \in D : Item(x).xfer /\ \E y \in S : Item(y).id = Item(x).id

Work == ~flash[pgRes].active /\ ~flash[pgRes].xfer /\ Marked({com}) /\ HotIn(Named) /\ HotCopies
Copying == Work /\ Clean(Live) /\ Replaces(Live)
Copied(x) == x \in In({com}) /\ Other(x) /\ Item(x).xfer
Fresh(p) == LastPlace(p) \in Named /\ ~Item(LastPlace(p)).good /\ ~Item(LastPlace(p)).xfer
Written(x) == Item(x).good /\ ~Item(x).xfer /\ Item(x).id = call.id /\ Item(x).val = call.val
Outdated == call.kind = "write" /\ src[1] # com

\* What initNV has looked at so far, and found to be in order.
Walked == {x \in Named : Before(x, cur)}
Checked(x) ==
  /\ Item(x).good
  /\ IF findDups THEN ~Item(x).xfer => \A y \in Named : Item(y).id = Item(x).id => ~Item(y).xfer
     ELSE ~Item(x).xfer

HotTyped == hot \in [hotIds -> Page \X Nat \cup {NoPlace}]

AtBoot == pc = "boot" => Cold /\ (Virgin \/ Recoverable)
AtRest == pc \in {"ready", "return"} => Kept(Named) /\ Marked({})
AtReturn == pc = "return" /\ call.kind # "delete" => \E y \in Named : Written(y)
AtMark == pc = "markPage" => Kept(Named) /\ Marked({}) /\ call # NoCall /\ Replaces(Named)
AtCopy == pc = "copy" => Copying /\ cur[1] = com /\ cur[2] \in Nat /\ To(In({pgRes}), From(cur[2]))
AtCopyItem == pc = "copyItem" => Copying /\ Copied(cur) /\ To(In({pgRes}), From(cur[2]))
AtCopyChk ==
  pc = "copyChk" =>
    /\ Copying /\ Copied(cur) /\ To(In({pgRes}) \ {LastPlace(pgRes)}, From(cur[2]))
    /\ Fresh(pgRes) /\ Item(LastPlace(pgRes)).id = Item(cur).id /\ Item(LastPlace(pgRes)).val = Item(cur).val
AtHeader == pc = "header" => Copying /\ call # NoCall /\ To(In({pgRes}), FromAll)
AtWrite ==
  pc \in {"markOld", "data", "chk"} =>
    /\ Work /\ call # NoCall
    /\ Fresh(dst) /\ Item(LastPlace(dst)).id = call.id
    /\ Clean(Live \ {LastPlace(dst)}) /\ Replaces(Live \ {LastPlace(dst)})
    /\ To(In({pgRes}) \ {LastPlace(dst)}, FromAll)
    /\ pc = "markOld" => call.kind = "write"
    /\ call.kind = "write" /\ pc # "markOld" => Item(src).xfer
    /\ pc = "chk" => Item(LastPlace(dst)).val = call.val
AtUse ==
  pc = "use" =>
    /\ Copying
    /\ \/ call = NoCall /\ To(In({pgRes}), FromAll)
       \/ /\ call # NoCall
          /\ To(In({pgRes}) \ {LastPlace(pgRes)}, FromAll)
          /\ LastPlace(pgRes) \in Named /\ Written(LastPlace(pgRes))
          /\ call.kind = "write" => Item(src).xfer
AtErase ==
  pc = "erase" =>
    /\ Paired(Named) /\ Marked({com}) /\ Covered(com)
    /\ \/ call = NoCall /\ (Cold \/ Kept(In(Page \ {com})))
       \/ /\ call # NoCall
          /\ Kept(In(Page \ {com}) \ (IF Outdated THEN {src} ELSE {}))
          /\ Outdated => src \in Named
          /\ \E y \in In(Page \ {com}) : Written(y) /\ (Outdated => y # src)
AtZeroOld ==
  pc = "zeroOld" =>
    /\ src \in Named /\ Kept(Named \ {src}) /\ Paired(Named) /\ Marked({})
    /\ call.kind # "delete" => \E y \in Named \ {src} : Written(y)
AtEraseRes ==
  pc = "eraseRes" =>
    /\ ~flash[pgRes].active /\ Cold /\ Paired(Live) /\ Marked({com})
    /\ com = NoPage \/ Clean(Live)
AtDups ==
  pc = "dups" =>
    /\ Paired(Named) /\ Marked({})
    /\ Cold \/ (pgRes # NoPage /\ Kept(Named))
    /\ \A x \in Walked : Checked(x)
AtEraseMost == pc = "eraseMost" => Cold /\ Clean(Named) /\ Marked({})

Sound ==
  /\ HotTyped
  /\ AtBoot /\ AtRest /\ AtReturn /\ AtMark /\ AtCopy /\ AtCopyItem /\ AtCopyChk /\ AtHeader
  /\ AtWrite /\ AtUse /\ AtErase /\ AtZeroOld /\ AtEraseRes /\ AtDups /\ AtEraseMost

\* Items that are not zeroed.
LEMMA NamedPlaces ==
  ASSUME PagesTyped
  PROVE  /\ \A x \in Named : /\ x \in Items /\ x = <<x[1], x[2]>> /\ x[1] \in Page /\ x[1] \in Nat \ {0}
                             /\ x[2] \in Nat \ {0} /\ x # NoPlace
                             /\ Item(x).id \in Id /\ Item(x).val \in Value \cup {NoValue, Garbage}
                             /\ Item(x).good \in BOOLEAN /\ Item(x).xfer \in BOOLEAN
         /\ \A p \in Page : flash[p] = Blank => \A x \in Named : x[1] # p
         /\ \A x \in Items : Item(x).id # Zeroed => x \in Named
         /\ \A p \in Page : flash[p] \in PageType /\ flash[p].active \in BOOLEAN /\ flash[p].xfer \in BOOLEAN
<1>1. \A x \in Named : x \in Items /\ Item(x).id # Zeroed
  BY DEF Named
<1>2. \A x \in Items : Item(x).id # Zeroed => x \in Named
  BY DEF Named
<1>3. \A item \in ItemType : /\ item.id \in Id \cup {Zeroed} /\ item.val \in Value \cup {NoValue, Garbage}
                             /\ item.good \in BOOLEAN /\ item.xfer \in BOOLEAN
  BY DEF ItemType
<1>4. ASSUME NEW x \in Items
      PROVE  /\ x = <<x[1], x[2]>> /\ x[1] \in Page /\ x[1] \in Nat \ {0} /\ x[2] \in Nat \ {0}
             /\ x[2] \in DOMAIN flash[x[1]].items /\ Item(x) \in ItemType
  <2>1. /\ x = <<x[1], x[2]>> /\ x[1] \in Page /\ x[2] \in DOMAIN flash[x[1]].items /\ Item(x) \in ItemType
        /\ x[2] \in Nat
    BY PlacesOfItems
  <2>2. DOMAIN flash[x[1]].items = 1 .. Len(flash[x[1]].items) /\ Len(flash[x[1]].items) \in Nat
    BY <2>1, PlacesOfItems
  <2> QED
    BY <2>1, <2>2, PagesAssumption DEF Page
<1>5. \A p \in Page : flash[p] = Blank => \A x \in Items : x[1] # p
  <2> TAKE p \in Page
  <2> HAVE flash[p] = Blank
  <2>1. DOMAIN flash[p].items = {}
    BY DEF Blank
  <2> QED
    BY <1>4, <2>1
<1>6. \A p \in Page : flash[p] \in PageType /\ flash[p].active \in BOOLEAN /\ flash[p].xfer \in BOOLEAN
  <2> HIDE DEF ItemType
  <2> QED
    BY DEF PagesTyped, PageType
<1>7. \A x \in Named : x # NoPlace
  <2> TAKE x \in Named
  <2>1. x[1] # 0
    BY <1>1, <1>4
  <2> QED
    BY <2>1 DEF NoPlace
<1> QED
  BY <1>1, <1>2, <1>3, <1>4, <1>5, <1>6, <1>7

\* Where nothing is written, all items are as they were.
LEMMA FlashStays ==
  ASSUME flash' = flash
  PROVE  /\ Items' = Items /\ Named' = Named /\ \A x : Item(x)' = Item(x)
         /\ \A p : LastPlace(p)' = LastPlace(p)
<1>1. Items' = Items
  BY DEF Items
<1>2. \A x : Item(x)' = Item(x)
  BY DEF Item
<1>3. Named' = Named
  BY <1>1, <1>2 DEF Named
<1>4. \A p : LastPlace(p)' = LastPlace(p)
  BY DEF LastPlace
<1> QED
  BY <1>1, <1>2, <1>3, <1>4

\* What is found for an id is one of its items, and nothing only if there is none.
LEMMA FoundNamed ==
  ASSUME PagesTyped, NEW id \in Id
  PROVE  /\ findItem(id) # NoPlace => findItem(id) \in Named /\ Item(findItem(id)).id = id
         /\ findItem(id) = NoPlace => \A x \in Named : Item(x).id # id
<1> DEFINE S == IF Copies(id, FALSE) # {} THEN Copies(id, FALSE) ELSE Copies(id, TRUE)
<1>1. S \in SUBSET Items /\ \A x \in S : Item(x).id = id
  BY DEF Copies
<1>2. findItem(id) = FirstOf(S)
  BY DEF findItem
<1>3. id # Zeroed
  BY IdAssumption
<1>4. \A x \in Named : Item(x).id = id => x \in Copies(id, FALSE) \cup Copies(id, TRUE)
  <2> TAKE x \in Named
  <2>1. x \in Items /\ Item(x).xfer \in BOOLEAN
    BY NamedPlaces
  <2> QED
    BY <2>1 DEF Copies
<1>5. S = {} => \A x \in Named : Item(x).id # id
  BY <1>4
<1> HIDE DEF S
<1>6. S # {} => FirstOf(S) \in S
  BY <1>1, FirstOfIn
<1>7. \A x \in S : x \in Named
  BY <1>1, <1>3, NamedPlaces
<1>8. \A x \in Named : x # NoPlace
  BY NamedPlaces
<1>9. S = {} => FirstOf(S) = NoPlace
  BY DEF FirstOf
<1> QED
  BY <1>1, <1>2, <1>5, <1>6, <1>7, <1>8, <1>9

-----------------------------------------------------------------------------
(* The calls *)

\* A call finds its item, and the page for a new one.
LEMMA SoundBegin ==
  ASSUME Reserve, Sound, NEW kind \in {"init", "write"}, NEW id \in Id, NEW val \in Value,
         Begin(kind, id, val)
  PROVE  Sound'
<1>1. /\ PagesTyped /\ HotTyped /\ Reserved /\ com = NoPage
      /\ Clean(Named) /\ HotIn(Named) /\ Marked({})
  BY DEF Begin, Reserve, Sound, AtRest, Kept
<1>2. /\ Items' = Items /\ Named' = Named /\ \A x : Item(x)' = Item(x)
      /\ \A p : LastPlace(p)' = LastPlace(p)
  BY FlashStays DEF Begin
<1>3. flash' = flash /\ hot' = hot /\ pgRes' = pgRes
  BY DEF Begin
<1>4. /\ call'.kind = kind /\ call'.id = id /\ call'.val = val /\ call' # NoCall
      /\ src' = findItem(id) /\ (kind = "init" <=> findItem(id) = NoPlace)
  <2>1. call' = [kind |-> kind, id |-> id, val |-> val] /\ src' = findItem(id)
        /\ (kind = "init" <=> findItem(id) = NoPlace)
    BY DEF Begin
  <2>2. call'.kind = kind /\ NoCall.kind = "none"
    BY <2>1 DEF NoCall
  <2>3. call' # NoCall
    BY <2>2
  <2> QED
    BY <2>1, <2>3
<1>5. /\ findItem(id) # NoPlace => findItem(id) \in Named /\ Item(findItem(id)).id = id
      /\ findItem(id) = NoPlace => \A x \in Named : Item(x).id # id
  BY <1>1, FoundNamed
<1>6. \A x \in Named : x[1] \in Page /\ x[1] # pgRes /\ x[1] # NoPage
  BY <1>1, NamedPlaces DEF Reserved, Filled, NoPage
<1>7. Clean(Named)' /\ HotIn(Named)' /\ Marked({})' /\ HotTyped'
  BY <1>1, <1>2, <1>3 DEF Clean, HotIn, Marked, HotTyped
<1>8. Replaces(Named)'
  BY <1>2, <1>4, <1>5 DEF Replaces
<1>9. CASE pc' = "markPage"
  BY <1>4, <1>7, <1>8, <1>9
  DEF Sound, Kept, AtBoot, AtRest, AtReturn, AtMark, AtCopy, AtCopyItem, AtCopyChk, AtHeader,
      AtWrite, AtUse, AtErase, AtZeroOld, AtEraseRes, AtDups, AtEraseMost
<1>10. CASE pc' = "header" /\ com' = com
  <2>1. Live' = Named' /\ In({pgRes})' = {} /\ FromAll' = {}
    BY <1>1, <1>2, <1>3, <1>6, <1>10 DEF Live, In, FromAll
  <2>2. Work'
    <3>1. flash'[pgRes'] = Blank
      BY <1>1, <1>3 DEF Reserved
    <3>2. Marked({com})'
      BY <1>7 DEF Marked
    <3> QED
      BY <1>7, <2>1, <3>1, <3>2 DEF Work, HotCopies, Blank
  <2>3. Copying'
    <3>1. Clean(Live)'
      BY <1>7, <2>1 DEF Clean
    <3>2. Replaces(Live)'
      BY <1>8, <2>1 DEF Replaces
    <3> QED
      BY <2>2, <3>1, <3>2 DEF Copying
  <2>4. To(In({pgRes}), FromAll)'
    BY <2>1 DEF To, Clean
  <2> QED
    BY <1>4, <1>7, <1>10, <2>3, <2>4
    DEF Sound, AtBoot, AtRest, AtReturn, AtMark, AtCopy, AtCopyItem, AtCopyChk, AtHeader,
        AtWrite, AtUse, AtErase, AtZeroOld, AtEraseRes, AtDups, AtEraseMost
<1> QED
  BY <1>9, <1>10 DEF Begin

\* The place of a hot item is looked up.
LEMMA SoundItemInitHot ==
  ASSUME Reserve, Sound, NEW id \in hotIds, ItemInitHot(id)
  PROVE  Sound'
<1>1. PagesTyped /\ HotTyped /\ Clean(Named) /\ HotIn(Named) /\ Marked({}) /\ pc = "ready" /\ id \in Id
  BY SizeAssumption DEF ItemInitHot, Reserve, Sound, AtRest, Kept
<1>2. Items' = Items /\ Named' = Named /\ \A x : Item(x)' = Item(x)
  BY FlashStays DEF ItemInitHot
<1>3. findItem(id) \in Named /\ Item(findItem(id)).id = id
  BY <1>1, FoundNamed DEF ItemInitHot
<1>4. flash' = flash /\ hot' = [hot EXCEPT ![id] = findItem(id)] /\ pc' = "ready"
  BY <1>1 DEF ItemInitHot
<1>5. findItem(id) \in Page \X Nat
  BY <1>1, <1>3, NamedPlaces
<1>6. HotTyped'
  BY <1>1, <1>4, <1>5 DEF HotTyped
<1>7. Clean(Named)' /\ Marked({})'
  BY <1>1, <1>2, <1>4 DEF Clean, Marked
<1>8. HotIn(Named)'
  BY <1>1, <1>2, <1>3, <1>4 DEF HotIn, HotTyped
<1> QED
  BY <1>4, <1>6, <1>7, <1>8
  DEF Sound, Kept, AtBoot, AtRest, AtReturn, AtMark, AtCopy, AtCopyItem, AtCopyChk, AtHeader,
      AtWrite, AtUse, AtErase, AtZeroOld, AtEraseRes, AtDups, AtEraseMost

\* An item that is not hot is to be deleted.
LEMMA SoundDelete ==
  ASSUME Reserve, Sound, NEW id \in Id \ hotIds, osal_nv_delete(id)
  PROVE  Sound'
<1>1. PagesTyped /\ HotTyped /\ Clean(Named) /\ HotIn(Named) /\ Marked({})
  BY DEF osal_nv_delete, Reserve, Sound, AtRest, Kept
<1>2. Items' = Items /\ Named' = Named /\ \A x : Item(x)' = Item(x)
  BY FlashStays DEF osal_nv_delete
<1>3. findItem(id) \in Named /\ Item(findItem(id)).id = id
  BY <1>1, FoundNamed DEF osal_nv_delete
<1>4. /\ flash' = flash /\ hot' = hot /\ pc' = "zeroOld" /\ src' = findItem(id)
      /\ call'.kind = "delete"
  BY DEF osal_nv_delete
<1>5. HotTyped' /\ Marked({})' /\ src' \in Named'
  BY <1>1, <1>2, <1>3, <1>4 DEF HotTyped, Marked
<1>6. Paired(Named)'
  BY <1>1, <1>2 DEF Paired, Clean
<1>7. Clean(Named \ {src})'
  BY <1>1, <1>2 DEF Clean
<1>8. HotIn(Named \ {src})'
  BY <1>1, <1>2, <1>3, <1>4 DEF HotIn
<1> QED
  BY <1>4, <1>5, <1>6, <1>7, <1>8
  DEF Sound, Kept, AtBoot, AtRest, AtReturn, AtMark, AtCopy, AtCopyItem, AtCopyChk, AtHeader,
      AtWrite, AtUse, AtErase, AtZeroOld, AtEraseRes, AtDups, AtEraseMost

-----------------------------------------------------------------------------
(* The compaction of a page *)

\* The page to compact is marked.
LEMMA SoundMarkPage ==
  ASSUME Reserve, Sound, MarkPage
  PROVE  Sound'
<1>1. /\ PagesTyped /\ HotTyped /\ Reserved /\ Compacting
      /\ Clean(Named) /\ HotIn(Named) /\ Marked({}) /\ Replaces(Named)
  BY DEF MarkPage, Reserve, Sound, AtMark, Kept
<1> DEFINE page == [flash[com] EXCEPT !.xfer = TRUE]
<1>2. com \in Page /\ com # pgRes /\ flash[com] \in PageType /\ pgRes \in Page
  BY <1>1 DEF Compacting, Filled, PagesTyped
<1>3. page \in PageType /\ page.items = flash[com].items
  <2> HIDE DEF ItemType
  <2> QED
    BY <1>2 DEF PageType
<1>4. Writes(com, page)
  BY DEF MarkPage
<1> HIDE DEF page
<1>5. /\ Named' = Named /\ \A x \in Items : Item(x)' = Item(x)
      /\ \A q \in Page \ {com} : flash'[q] = flash[q]
  BY <1>1, <1>2, <1>3, <1>4, PageReplaced
<1>6. /\ hot' = hot /\ pgRes' = pgRes /\ com' = com /\ call' = call /\ src' = src
      /\ cur' = <<com, 1>> /\ pc' = "copy"
  BY DEF MarkPage
<1>7. \A x \in Named : x \in Items /\ x[1] \in Page /\ x[1] # pgRes /\ x[2] \in Nat \ {0}
  BY <1>1, <1>2, NamedPlaces DEF Reserved
<1>8. \A x \in Named : Item(x)' = Item(x)
  BY <1>5, <1>7
<1>9. Live' = Named /\ In({pgRes})' = {} /\ From(cur[2])' = {} /\ Live = Named
  <2>1. cur'[2] = 1 /\ \A x \in Named : ~(x[2] < cur'[2])
    BY <1>6, <1>7
  <2> QED
    BY <1>5, <1>6, <1>7, <2>1 DEF Live, In, From
<1>10. Work'
  <2>1. HotIn(Named)'
    BY <1>1, <1>5, <1>6, <1>8 DEF HotIn
  <2>2. Marked({com})'
    BY <1>1, <1>5, <1>6 DEF Marked
  <2>3. flash'[pgRes'] = Blank
    BY <1>1, <1>2, <1>5, <1>6 DEF Reserved
  <2> QED
    BY <1>9, <2>1, <2>2, <2>3 DEF Work, HotCopies, Blank
<1>11. Copying'
  <2>1. Clean(Live)'
    BY <1>1, <1>8, <1>9 DEF Clean
  <2>2. Replaces(Live)'
    BY <1>1, <1>6, <1>8, <1>9 DEF Replaces
  <2> QED
    BY <1>10, <2>1, <2>2 DEF Copying
<1>12. To(In({pgRes}), From(cur[2]))'
  BY <1>9 DEF To, Clean
<1>13. cur'[1] = com' /\ cur'[2] \in Nat /\ HotTyped'
  BY <1>1, <1>6 DEF HotTyped
<1> QED
  BY <1>6, <1>11, <1>12, <1>13
  DEF Sound, AtBoot, AtRest, AtReturn, AtMark, AtCopy, AtCopyItem, AtCopyChk, AtHeader,
      AtWrite, AtUse, AtErase, AtZeroOld, AtEraseRes, AtDups, AtEraseMost

\* Copies stay copies as long as their items and those copied stay.
LEMMA ToStays ==
  ASSUME NEW S, NEW D, To(S, D),
         \A x \in S : /\ Item(x)'.id = Item(x).id /\ Item(x)'.val = Item(x).val
                      /\ Item(x)'.good = Item(x).good /\ Item(x)'.xfer = Item(x).xfer,
         \A x \in D : /\ Item(x)'.id = Item(x).id /\ Item(x)'.val = Item(x).val
                      /\ Item(x).xfer => Item(x)'.xfer
  PROVE  To(S, D)'
<1>1. Clean(S)'
  BY DEF To, Clean
<1>2. \A y \in S : ~Item(y)'.xfer /\ \E x \in D : Item(x)'.id = Item(y)'.id /\ Item(x)'.val = Item(y)'.val
  <2> TAKE y \in S
  <2>1. PICK x \in D : Item(x).id = Item(y).id /\ Item(x).val = Item(y).val
    BY DEF To
  <2>2. ~Item(y)'.xfer
    BY DEF To
  <2> QED
    BY <2>1, <2>2
<1>3. \A x \in D : Item(x)'.xfer /\ \E y \in S : Item(y)'.id = Item(x)'.id
  <2> TAKE x \in D
  <2>1. Item(x).xfer /\ \E y \in S : Item(y).id = Item(x).id
    BY DEF To
  <2> QED
    BY <2>1
<1> QED
  BY <1>1, <1>2, <1>3 DEF To

\* The next item to copy is marked as old, or all have been copied.
LEMMA SoundCopyMark ==
  ASSUME Reserve, Sound, CopyMark
  PROVE  Sound'
<1>1. /\ PagesTyped /\ HotTyped /\ com \in Page /\ pgRes \in Page /\ com # pgRes
      /\ Work /\ Clean(Live) /\ Replaces(Live) /\ cur[1] = com /\ cur[2] \in Nat
      /\ To(In({pgRes}), From(cur[2]))
  BY DEF CopyMark, Reserve, Sound, AtCopy, Copying, Compacting, Filled
<1>2. hot' = hot /\ pgRes' = pgRes /\ com' = com /\ call' = call /\ src' = src
  BY DEF CopyMark
<1>3. ToCopy \in SUBSET Items
  BY DEF ToCopy
<1>4. \A x \in Named : /\ x \in Items /\ x[1] \in Page /\ x[2] \in Nat /\ x = <<x[1], x[2]>>
                       /\ Item(x).xfer \in BOOLEAN
  BY <1>1, NamedPlaces
<1>5. \A x \in In({com}) : Other(x) /\ ~(x[2] < cur[2]) => x \in ToCopy
  <2> TAKE x \in In({com})
  <2> HAVE Other(x) /\ ~(x[2] < cur[2])
  <2>1. x \in Named /\ x[1] = com /\ x \in Live
    BY <1>1, <1>4 DEF In, Live
  <2>2. Item(x).good /\ x \in Items /\ Item(x).id # Zeroed
    BY <1>1, <2>1 DEF Clean, Named
  <2>3. x[2] >= cur[2]
    BY <1>1, <1>4, <2>1
  <2> QED
    BY <2>1, <2>2, <2>3 DEF ToCopy, Other
<1>6. CASE ToCopy # {}
  <2>1. PICK a : a = FirstOf(ToCopy)
    OBVIOUS
  <2>2. a \in ToCopy /\ \A b \in ToCopy : a = b \/ Before(a, b)
    BY <1>1, <1>3, <1>6, <2>1, FirstOfIn
  <2>3. WritesItem(a, [Item(a) EXCEPT !.xfer = TRUE]) /\ cur' = a /\ pc' = "copyItem"
    BY <1>6, <2>1 DEF CopyMark
  <2>4. a \in Named /\ a[1] = com /\ a[2] \in Nat /\ a[2] >= cur[2] /\ Other(a)
    BY <1>4, <2>2 DEF ToCopy, Named, Other
  <2>5. /\ HeadersStay /\ Named' = Named
        /\ \A x \in Named : /\ Item(x)'.id = Item(x).id /\ Item(x)'.val = Item(x).val
                            /\ Item(x)'.good = Item(x).good
                            /\ x # a => Item(x)'.xfer = Item(x).xfer
        /\ Item(a)'.xfer
    BY <1>1, <2>3, <2>4, FieldReplaced
  <2>6. Live' = Live /\ In({pgRes})' = In({pgRes}) /\ In({com})' = In({com})
        /\ \A x \in Named : Other(x)' <=> Other(x)
    BY <1>2, <2>5 DEF Live, In, Other
  <2>7. Live \subseteq Named /\ In({pgRes}) \subseteq Named /\ In({com}) \subseteq Named
    BY DEF Live, In
  <2>8. Work'
    <3>1. HotIn(Named)'
      BY <1>1, <1>2, <2>5 DEF Work, HotIn
    <3>2. HotCopies'
      BY <1>1, <1>2, <2>5, <2>6, <2>7 DEF Work, HotCopies
    <3>3. Marked({com})' /\ flash'[pgRes'].active = flash[pgRes].active /\ flash'[pgRes'].xfer = flash[pgRes].xfer
      BY <1>1, <1>2, <2>5 DEF Work, Marked, HeadersStay
    <3> QED
      BY <1>1, <3>1, <3>2, <3>3 DEF Work
  <2>9. Clean(Live)'
    BY <1>1, <2>5, <2>6, <2>7 DEF Clean
  <2>10. Replaces(Live)'
    BY <1>1, <1>2, <2>5, <2>6, <2>7 DEF Replaces
  <2>11. Copied(cur)'
    BY <1>4, <2>3, <2>4, <2>5, <2>6 DEF Copied, In
  <2>12. From(cur[2])' = From(cur[2])
    <3>1. \A x \in In({com}) : Other(x) => (x[2] < a[2] <=> x[2] < cur[2])
      <4> TAKE x \in In({com})
      <4> HAVE Other(x)
      <4>1. x[1] = com /\ x \in Named /\ x[2] \in Nat
        BY <1>4 DEF In
      <4>2. CASE x[2] < cur[2]
        BY <1>1, <2>4, <4>1, <4>2
      <4>3. CASE ~(x[2] < cur[2])
        <5>1. a = x \/ Before(a, x)
          BY <1>5, <2>2, <4>3
        <5>2. com \in Nat
          BY <1>1 DEF Page
        <5> QED
          BY <2>4, <4>1, <4>3, <5>1, <5>2 DEF Before
      <4> QED
        BY <4>2, <4>3
    <3> QED
      BY <2>3, <2>6, <2>7, <3>1 DEF From
  <2>13. \A x \in In({pgRes}) : x # a
    BY <1>1, <2>4 DEF In
  <2>14. From(cur[2]) \subseteq Named
    BY <2>7 DEF From
  <2>15. \A x \in From(cur[2]) : Item(x)'.xfer = Item(x).xfer
    <3>1. a \notin From(cur[2])
      BY <1>1, <2>4 DEF From
    <3> QED
      BY <2>5, <2>14, <3>1
  <2>16. To(In({pgRes}), From(cur[2]))'
    <3>1. PICK S, D : S = In({pgRes}) /\ D = From(cur[2])
      OBVIOUS
    <3>2. To(S, D)
      BY <1>1, <3>1
    <3>3. \A x \in S : x \in Named /\ x # a
      BY <2>7, <2>13, <3>1
    <3>4. \A x \in D : x \in Named /\ Item(x)'.xfer = Item(x).xfer
      BY <2>14, <2>15, <3>1
    <3>5. To(S, D)'
      BY <2>5, <3>2, <3>3, <3>4, ToStays
    <3>6. In({pgRes})' = S /\ From(cur[2])' = D
      BY <2>6, <2>12, <3>1
    <3> QED
      BY <3>5, <3>6 DEF To, Clean
  <2>17. HotTyped'
    BY <1>1, <1>2 DEF HotTyped
  <2> QED
    BY <2>3, <2>8, <2>9, <2>10, <2>11, <2>16, <2>17
    DEF Sound, Copying, AtBoot, AtRest, AtReturn, AtMark, AtCopy, AtCopyItem, AtCopyChk, AtHeader,
        AtWrite, AtUse, AtErase, AtZeroOld, AtEraseRes, AtDups, AtEraseMost
<1>7. CASE ToCopy = {}
  <2>1. flash' = flash /\ cur' = cur /\ pc' = IF call # NoCall THEN "header" ELSE "use"
    BY <1>7 DEF CopyMark
  <2>2. From(cur[2]) = FromAll
    BY <1>5, <1>7 DEF From, FromAll
  <2>3. Named' = Named /\ \A x : Item(x)' = Item(x)
    BY <2>1, FlashStays
  <2>4. Live' = Live /\ In({pgRes})' = In({pgRes}) /\ FromAll' = FromAll
    BY <1>2, <2>3 DEF Live, In, Other, FromAll
  <2>5. Work'
    <3>1. HotIn(Named)'
      BY <1>1, <1>2, <2>3 DEF Work, HotIn
    <3>2. HotCopies'
      BY <1>1, <1>2, <2>3, <2>4 DEF Work, HotCopies
    <3>3. Marked({com})' /\ ~flash'[pgRes'].active /\ ~flash'[pgRes'].xfer
      BY <1>1, <1>2, <2>1 DEF Work, Marked
    <3> QED
      BY <3>1, <3>2, <3>3 DEF Work
  <2>6. Clean(Live)' /\ Replaces(Live)'
    BY <1>1, <1>2, <2>3, <2>4 DEF Clean, Replaces
  <2>7. To(In({pgRes}), FromAll)'
    <3>1. PICK S, D : S = In({pgRes}) /\ D = FromAll
      OBVIOUS
    <3>2. To(S, D)
      BY <1>1, <2>2, <3>1
    <3>3. To(S, D)'
      BY <2>3, <3>2, ToStays
    <3>4. In({pgRes})' = S /\ FromAll' = D
      BY <2>4, <3>1
    <3> QED
      BY <3>3, <3>4 DEF To, Clean
  <2>8. HotTyped'
    BY <1>1, <1>2 DEF HotTyped
  <2>9. call' = NoCall <=> pc' = "use"
    BY <1>2, <2>1
  <2> QED
    BY <1>2, <2>1, <2>5, <2>6, <2>7, <2>8, <2>9
    DEF Sound, Copying, AtBoot, AtRest, AtReturn, AtMark, AtCopy, AtCopyItem, AtCopyChk, AtHeader,
        AtWrite, AtUse, AtErase, AtZeroOld, AtEraseRes, AtDups, AtEraseMost
<1> QED
  BY <1>6, <1>7

\* Its copy is written, as yet without its checksum.
LEMMA SoundCopyItem ==
  ASSUME Reserve, Sound, CopyItem
  PROVE  Sound'
<1>1. /\ PagesTyped /\ HotTyped /\ com \in Page /\ pgRes \in Page /\ com # pgRes
      /\ Work /\ Clean(Live) /\ Replaces(Live) /\ Copied(cur)
      /\ To(In({pgRes}), From(cur[2]))
  BY DEF CopyItem, Reserve, Sound, AtCopyItem, Copying, Compacting, Filled
<1>2. /\ hot' = hot /\ pgRes' = pgRes /\ com' = com /\ call' = call /\ src' = src /\ cur' = cur
      /\ pc' = "copyChk"
  BY DEF CopyItem
<1>3. PICK n : n = LastPlace(pgRes)'
  OBVIOUS
<1>4. cur \in Named /\ cur[1] = com
  BY <1>1 DEF Copied, In
<1>5. Item(cur).id \in Id /\ Item(cur).val \in Value \cup {NoValue, Garbage}
  BY <1>1, <1>4, NamedPlaces
<1>6. /\ HeadersStay /\ n \notin Items /\ n[1] = pgRes /\ Named' = Named \cup {n}
      /\ \A x \in Named : Item(x)' = Item(x)
      /\ Item(LastPlace(pgRes))'.id = Item(cur).id /\ Item(LastPlace(pgRes))'.val = Item(cur).val
      /\ ~Item(LastPlace(pgRes))'.good /\ ~Item(LastPlace(pgRes))'.xfer
  BY <1>1, <1>3, <1>5, ItemAdded DEF CopyItem
<1>7. /\ Item(n)'.id = Item(cur).id /\ Item(n)'.val = Item(cur).val
      /\ ~Item(n)'.good /\ ~Item(n)'.xfer /\ n \notin Named
  BY <1>3, <1>6 DEF Named, Item
<1>8. LastPlace(pgRes)' = n
  BY <1>3
<1>9. /\ Live' = Live /\ In({pgRes})' = In({pgRes}) \cup {n} /\ In({com})' = In({com})
      /\ \A x \in Named : Other(x)' <=> Other(x)
  BY <1>1, <1>2, <1>6 DEF Live, In, Other
<1>10. Live \subseteq Named /\ In({pgRes}) \subseteq Named /\ In({com}) \subseteq Named
  BY DEF Live, In
<1>11. From(cur[2])' = From(cur[2]) /\ From(cur[2]) \subseteq Named
  BY <1>2, <1>9, <1>10 DEF From
<1>12. Work'
  <2>1. HotIn(Named)'
    BY <1>1, <1>2, <1>6 DEF Work, HotIn
  <2>2. HotCopies'
    BY <1>1, <1>2, <1>6, <1>7, <1>9, <1>10 DEF Work, HotCopies
  <2>3. Marked({com})' /\ ~flash'[pgRes'].active /\ ~flash'[pgRes'].xfer
    BY <1>1, <1>2, <1>6 DEF Work, Marked, HeadersStay
  <2> QED
    BY <2>1, <2>2, <2>3 DEF Work
<1>13. Clean(Live)'
  BY <1>1, <1>6, <1>9, <1>10 DEF Clean
<1>14. Replaces(Live)'
  BY <1>1, <1>2, <1>6, <1>9, <1>10 DEF Replaces
<1>15. Copied(cur)'
  BY <1>1, <1>2, <1>4, <1>6, <1>9 DEF Copied
<1>16. To(In({pgRes}) \ {LastPlace(pgRes)}, From(cur[2]))'
  <2>1. PICK S, D : S = In({pgRes}) /\ D = From(cur[2])
    OBVIOUS
  <2>2. To(S, D)
    BY <1>1, <2>1
  <2>3. \A x \in S \cup D : Item(x)' = Item(x)
    BY <1>6, <1>10, <1>11, <2>1
  <2>4. To(S, D)'
    BY <2>2, <2>3, ToStays
  <2>5. (In({pgRes}) \ {LastPlace(pgRes)})' = S /\ From(cur[2])' = D
    BY <1>7, <1>8, <1>9, <1>10, <1>11, <2>1
  <2> QED
    BY <2>4, <2>5 DEF To, Clean
<1>17. Fresh(pgRes)'
  <2>1. LastPlace(pgRes)' \in Named'
    BY <1>6, <1>8
  <2> QED
    BY <1>6, <2>1 DEF Fresh
<1>18. Item(LastPlace(pgRes))'.id = Item(cur)'.id /\ Item(LastPlace(pgRes))'.val = Item(cur)'.val
  <2>1. Item(cur)' = Item(cur)
    BY <1>2, <1>4, <1>6 DEF Item
  <2> QED
    BY <1>6, <2>1
<1>19. HotTyped'
  BY <1>1, <1>2 DEF HotTyped
<1> QED
  BY <1>2, <1>12, <1>13, <1>14, <1>15, <1>16, <1>17, <1>18, <1>19
  DEF Sound, Copying, AtBoot, AtRest, AtReturn, AtMark, AtCopy, AtCopyItem, AtCopyChk, AtHeader,
      AtWrite, AtUse, AtErase, AtZeroOld, AtEraseRes, AtDups, AtEraseMost

\* The place of a hot item follows its newest copy.
LEMMA HotFollows ==
  ASSUME PagesTyped, HotTyped, NEW n \in Named, hotItemUpdate(n),
         Named' = Named, \A x \in Named : Item(x)'.id = Item(x).id,
         HotIn(Named)
  PROVE  /\ HotTyped' /\ HotIn(Named)'
         /\ \A id \in hotIds : hot'[id] = IF Item(n).id = id THEN n ELSE hot[id]
<1>1. n \in Page \X Nat
  BY NamedPlaces
<1>2. /\ HotTyped'
      /\ \A id \in hotIds : hot'[id] = IF Item(n).id = id THEN n ELSE hot[id]
  <2>1. CASE Item(n).id \in hotIds
    <3>1. hot' = [hot EXCEPT ![Item(n).id] = n]
      BY <2>1 DEF hotItemUpdate
    <3> QED
      BY <1>1, <2>1, <3>1 DEF HotTyped
  <2>2. CASE Item(n).id \notin hotIds
    <3>1. hot' = hot
      BY <2>2 DEF hotItemUpdate
    <3> QED
      BY <2>2, <3>1 DEF HotTyped
  <2> QED
    BY <2>1, <2>2
<1>3. HotIn(Named)'
  <2>1. ASSUME NEW id \in hotIds, hot'[id] # NoPlace
        PROVE  hot'[id] \in Named' /\ Item(hot[id])'.id = id
    <3>1. PICK h : h = hot'[id]
      OBVIOUS
    <3>2. h \in Named /\ Item(h).id = id
      BY <1>2, <2>1, <3>1 DEF HotIn
    <3>3. h \in Named' /\ Item(h)'.id = id
      BY <3>2
    <3> QED
      BY <3>1, <3>3 DEF Item
  <2> QED
    BY <2>1 DEF HotIn
<1> QED
  BY <1>2, <1>3

\* Its checksum completes the copy.
LEMMA SoundCopyChk ==
  ASSUME Reserve, Sound, CopyChk
  PROVE  Sound'
<1>1. PICK n : n = LastPlace(pgRes)
  OBVIOUS
<1>2. PICK S, D : S = In({pgRes}) \ {n} /\ D = From(cur[2])
  OBVIOUS
<1>3. /\ PagesTyped /\ HotTyped /\ com \in Page /\ pgRes \in Page /\ com # pgRes
      /\ Work /\ Clean(Live) /\ Replaces(Live) /\ Copied(cur)
      /\ To(S, D)
      /\ n \in Named /\ ~Item(n).good /\ ~Item(n).xfer
      /\ Item(n).id = Item(cur).id /\ Item(n).val = Item(cur).val
  BY <1>1, <1>2 DEF CopyChk, Reserve, Sound, AtCopyChk, Copying, Compacting, Filled, Fresh
<1>4. /\ pgRes' = pgRes /\ com' = com /\ call' = call /\ src' = src /\ cur' = <<com, cur[2] + 1>>
      /\ pc' = "copy" /\ WritesItem(n, [Item(n) EXCEPT !.good = TRUE]) /\ hotItemUpdate(n)
  BY <1>1 DEF CopyChk
<1>5. n[1] = pgRes
  BY <1>1 DEF LastPlace
<1>6. /\ HeadersStay /\ Named' = Named
      /\ \A x \in Named : /\ Item(x)'.id = Item(x).id /\ Item(x)'.val = Item(x).val
                          /\ x # n => Item(x)'.good = Item(x).good
                          /\ Item(x)'.xfer = Item(x).xfer
      /\ Item(n)'.good
  BY <1>3, <1>4, FieldReplaced
<1>7. /\ HotTyped' /\ HotIn(Named)'
      /\ \A id \in hotIds : hot'[id] = IF Item(n).id = id THEN n ELSE hot[id]
  BY <1>3, <1>4, <1>6, HotFollows DEF Work
<1>8. /\ Live' = Live /\ In({pgRes})' = S \cup {n} /\ In({com})' = In({com})
      /\ \A x \in Named : Other(x)' <=> Other(x)
  BY <1>2, <1>3, <1>4, <1>5, <1>6 DEF Live, In, Other
<1>9. /\ Live \subseteq Named /\ S \subseteq Named /\ In({com}) \subseteq Named /\ D \subseteq In({com})
      /\ In({com}) \subseteq Live
  BY <1>2, <1>3 DEF Live, In, From
<1>10. \A x \in Named : x = <<x[1], x[2]>> /\ x[2] \in Nat
  BY <1>3, NamedPlaces
<1>11. cur \in In({com}) /\ Other(cur) /\ Item(cur).xfer /\ cur[1] = com /\ cur[2] \in Nat
       /\ cur = <<com, cur[2]>> /\ cur \in Named
  BY <1>3, <1>9, <1>10 DEF Copied, In
<1>12. From(cur[2])' = D \cup {cur}
  <2>1. \A x \in In({com}) : x[2] < cur[2] + 1 <=> x[2] < cur[2] \/ x = cur
    <3> TAKE x \in In({com})
    <3>1. x = <<com, x[2]>> /\ x[2] \in Nat
      BY <1>9, <1>10 DEF In
    <3> QED
      BY <1>11, <3>1
  <2>2. cur'[2] = cur[2] + 1
    BY <1>4
  <2>3. From(cur[2])' = {x \in In({com}) : Other(x) /\ x[2] < cur[2] + 1}
    BY <1>8, <1>9, <2>2 DEF From
  <2>4. D = {x \in In({com}) : Other(x) /\ x[2] < cur[2]}
    BY <1>2 DEF From
  <2> QED
    BY <1>11, <2>1, <2>3, <2>4
<1>13. cur \notin D
  BY <1>2, <1>11 DEF From
\* No other copy has the id of the new one: their items come before it.
<1>14. \A y \in S : Item(y).id # Item(n).id
  <2> TAKE y \in S
  <2>1. PICK x \in D : Item(x).id = Item(y).id
    BY <1>3 DEF To
  <2>2. x # cur /\ x \in Live /\ cur \in Live
    BY <1>9, <1>11, <1>13
  <2> QED
    BY <1>3, <2>1, <2>2 DEF Clean
<1>15. Work'
  <2>1. HotCopies'
    <3>1. ASSUME NEW y \in S \cup {n}, Item(y)'.good, Item(y)'.id \in hotIds
          PROVE  hot'[Item(y)'.id] = y
      <4>1. CASE y = n
        BY <1>3, <1>6, <1>7, <3>1, <4>1
      <4>2. CASE y # n
        <5>1. y \in S /\ Item(y)'.id = Item(y).id /\ Item(y).good /\ Item(y).id # Item(n).id
          BY <1>6, <1>9, <1>14, <3>1, <4>2
        <5>2. hot[Item(y).id] = y
          BY <1>2, <1>3, <3>1, <5>1 DEF Work, HotCopies
        <5> QED
          BY <1>7, <3>1, <5>1, <5>2
      <4> QED
        BY <4>1, <4>2
    <3> QED
      BY <1>8, <3>1 DEF HotCopies
  <2>2. Marked({com})' /\ ~flash'[pgRes'].active /\ ~flash'[pgRes'].xfer
    BY <1>3, <1>4, <1>6 DEF Work, Marked, HeadersStay
  <2> QED
    BY <1>7, <2>1, <2>2 DEF Work
<1>16. Clean(Live)'
  <2>1. n \notin Live
    BY <1>5 DEF Live, In
  <2> QED
    BY <1>3, <1>6, <1>8, <1>9, <2>1 DEF Clean
<1>17. Replaces(Live)'
  BY <1>3, <1>4, <1>6, <1>8, <1>9 DEF Replaces
<1>18. To(In({pgRes}), From(cur[2]))'
  <2>1. n \notin S /\ n \notin D
    BY <1>2, <1>3, <1>5, <1>9 DEF In
  <2>2. To(S, D)'
    BY <1>3, <1>6, <1>9, <2>1, ToStays
  <2>3. PICK c : c = cur
    OBVIOUS
  <2>4. /\ n # c /\ Item(c)'.xfer /\ Item(c)'.id = Item(n)'.id /\ Item(c)'.val = Item(n)'.val
        /\ Item(n)'.good /\ ~Item(n)'.xfer
    BY <1>3, <1>5, <1>6, <1>11, <2>3
  <2>5. \A y \in S : Item(y)'.id # Item(n)'.id
    BY <1>3, <1>6, <1>9, <1>14
  <2>6. Clean(S \cup {n})'
    BY <2>2, <2>4, <2>5 DEF To, Clean
  <2>7. To(S \cup {n}, D \cup {c})'
    BY <2>2, <2>4, <2>6 DEF To
  <2>8. In({pgRes})' = S \cup {n} /\ From(cur[2])' = D \cup {c}
    BY <1>8, <1>12, <2>3
  <2> QED
    BY <2>7, <2>8 DEF To, Clean
<1>19. cur'[1] = com' /\ cur'[2] \in Nat
  BY <1>4, <1>11
<1> QED
  BY <1>4, <1>7, <1>15, <1>16, <1>17, <1>18, <1>19
  DEF Sound, Copying, AtBoot, AtRest, AtReturn, AtMark, AtCopy, AtCopyItem, AtCopyChk, AtHeader,
      AtWrite, AtUse, AtErase, AtZeroOld, AtEraseRes, AtDups, AtEraseMost

-----------------------------------------------------------------------------
(* A new item *)

\* The new item is written, as yet without its data.
LEMMA SoundWriteHeader ==
  ASSUME Reserve, Sound, WriteHeader
  PROVE  Sound'
<1>1. PICK S, D : S = In({pgRes}) /\ D = FromAll
  OBVIOUS
<1>2. /\ PagesTyped /\ HotTyped /\ dst \in Page /\ dst # com /\ call.id \in Id
      /\ Work /\ Clean(Live) /\ Replaces(Live) /\ call # NoCall /\ To(S, D)
      /\ pgRes \in Page
  BY <1>1, PagesAssumption DEF WriteHeader, Reserve, Sound, AtHeader, Copying, Compacting, Reserved, Filled, ForItem,
     NoPage, Page
<1>3. /\ hot' = hot /\ pgRes' = pgRes /\ com' = com /\ call' = call /\ src' = src /\ dst' = dst
      /\ pc' \in {"markOld", "data"} /\ pc' = (IF call.kind = "write" THEN "markOld" ELSE "data")
  BY DEF WriteHeader
<1>4. PICK n : n = LastPlace(dst)'
  OBVIOUS
<1>5. /\ HeadersStay /\ n \notin Items /\ n[1] = dst /\ Named' = Named \cup {n}
      /\ \A x \in Named : Item(x)' = Item(x)
      /\ Item(LastPlace(dst))'.id = call.id
      /\ ~Item(LastPlace(dst))'.good /\ ~Item(LastPlace(dst))'.xfer
  BY <1>2, <1>4, ItemAdded DEF WriteHeader
<1>6. /\ Item(n)'.id = call.id /\ ~Item(n)'.good /\ ~Item(n)'.xfer /\ n \notin Named
  BY <1>4, <1>5 DEF Named, Item
<1>7. LastPlace(dst)' = n
  BY <1>4
<1>8. /\ (Live \ {LastPlace(dst)})' = Live /\ (In({pgRes}) \ {LastPlace(dst)})' = S /\ FromAll' = D
      /\ Live \subseteq Named /\ S \subseteq Named /\ D \subseteq Named
  BY <1>1, <1>2, <1>3, <1>5, <1>6, <1>7 DEF Live, In, FromAll, Other
<1>9. Work'
  <2>1. HotIn(Named)'
    BY <1>2, <1>3, <1>5 DEF Work, HotIn
  <2>2. HotCopies'
    <3>1. In({pgRes})' \subseteq S \cup {n} /\ S = In({pgRes})
      BY <1>1, <1>3, <1>5 DEF In
    <3>2. \A y \in S : Item(y).good /\ Item(y).id \in hotIds => hot[Item(y).id] = y
      BY <1>2, <3>1 DEF Work, HotCopies
    <3>3. \A y \in S \cup {n} : Item(y)'.good /\ Item(y)'.id \in hotIds => hot'[Item(y)'.id] = y
      BY <1>3, <1>5, <1>6, <1>8, <3>2
    <3> QED
      BY <3>1, <3>3 DEF HotCopies
  <2>3. Marked({com})' /\ ~flash'[pgRes'].active /\ ~flash'[pgRes'].xfer
    BY <1>2, <1>3, <1>5 DEF Work, Marked, HeadersStay
  <2> QED
    BY <2>1, <2>2, <2>3 DEF Work
<1>10. Fresh(dst)'
  <2>1. LastPlace(dst)' \in Named'
    BY <1>5, <1>7
  <2> QED
    BY <1>5, <2>1 DEF Fresh
<1>11. Clean(Live \ {LastPlace(dst)})'
  BY <1>2, <1>5, <1>8 DEF Clean
<1>12. Replaces(Live \ {LastPlace(dst)})'
  BY <1>2, <1>3, <1>5, <1>8 DEF Replaces
<1>13. To(In({pgRes}) \ {LastPlace(dst)}, FromAll)'
  <2>1. To(S, D)'
    BY <1>2, <1>5, <1>8, ToStays
  <2> QED
    BY <1>8, <2>1 DEF To, Clean
<1>14. HotTyped'
  BY <1>2, <1>3 DEF HotTyped
<1>15. call'.kind = "write" <=> pc' = "markOld"
  BY <1>3
<1> QED
  BY <1>2, <1>3, <1>5, <1>9, <1>10, <1>11, <1>12, <1>13, <1>14, <1>15
  DEF Sound, AtBoot, AtRest, AtReturn, AtMark, AtCopy, AtCopyItem, AtCopyChk, AtHeader,
      AtWrite, AtUse, AtErase, AtZeroOld, AtEraseRes, AtDups, AtEraseMost

\* What is known while a new item is written.
LEMMA NewItem ==
  ASSUME Reserve, Sound, pc \in {"markOld", "data", "chk"}, NEW n, n = LastPlace(dst)
  PROVE  /\ PagesTyped /\ HotTyped /\ pgRes \in Page /\ com # pgRes /\ dst \in Page /\ dst # com
         /\ call # NoCall /\ call.id \in Id /\ call.val \in Value
         /\ n \in Named /\ n[1] = dst /\ ~Item(n).good /\ ~Item(n).xfer /\ Item(n).id = call.id
         /\ \A S, D : S = In({pgRes}) \ {n} /\ D = FromAll =>
              To(S, D) /\ S \subseteq Named /\ D \subseteq Named /\ n \notin D /\ n \notin S
         /\ Work /\ Clean(Live \ {n}) /\ Replaces(Live \ {n})
<1>1. /\ PagesTyped /\ HotTyped /\ pgRes \in Page /\ dst \in Page /\ dst # com /\ com # pgRes
      /\ call.id \in Id /\ call.val \in Value
      /\ Work /\ Clean(Live \ {n}) /\ Replaces(Live \ {n}) /\ call # NoCall
  BY PagesAssumption DEF Reserve, Sound, AtWrite, Copying, Compacting, Reserved, Filled, ForItem, NoPage, Page
<1>2. /\ n \in Named /\ ~Item(n).good /\ ~Item(n).xfer /\ Item(n).id = call.id
      /\ To(In({pgRes}) \ {n}, FromAll)
  BY DEF Sound, AtWrite, Fresh
<1>3. n[1] = dst
  BY DEF LastPlace
<1> QED
  BY <1>1, <1>2, <1>3 DEF In, FromAll, Other

\* The reserve page and the places in RAM are as they were.
LEMMA WorkStays ==
  ASSUME PagesTyped, Work, pgRes \in Page, hot' = hot, pgRes' = pgRes, com' = com, HeadersStay, Named' = Named,
         \A x \in Named : Item(x)'.id = Item(x).id /\ Item(x)'.good = Item(x).good
  PROVE  Work'
<1>1. HotIn(Named)'
  <2>1. ASSUME NEW id \in hotIds, hot[id] # NoPlace
        PROVE  hot'[id] \in Named' /\ Item(hot[id])'.id = id
    <3>1. PICK h : h = hot[id]
      OBVIOUS
    <3>2. h \in Named /\ Item(h).id = id
      BY <2>1, <3>1 DEF Work, HotIn
    <3>3. h \in Named' /\ Item(h)'.id = id
      BY <3>2
    <3> QED
      BY <3>1, <3>3 DEF Item
  <2> QED
    BY <2>1 DEF HotIn
<1>2. HotCopies'
  <2>1. In({pgRes})' = In({pgRes}) /\ In({pgRes}) \subseteq Named
    BY DEF In
  <2> QED
    BY <2>1 DEF Work, HotCopies
<1>3. Marked({com})' /\ ~flash'[pgRes'].active /\ ~flash'[pgRes'].xfer
  BY DEF Work, Marked, HeadersStay
<1> QED
  BY <1>1, <1>2, <1>3 DEF Work

\* The old item is marked.
LEMMA SoundMarkOld ==
  ASSUME Reserve, Sound, MarkOld
  PROVE  Sound'
<1>1. PICK n, S, D : n = LastPlace(dst) /\ S = In({pgRes}) \ {n} /\ D = FromAll
  OBVIOUS
<1>2. pc = "markOld" /\ call.kind = "write"
  BY DEF MarkOld, Sound, AtWrite
<1>3. /\ PagesTyped /\ HotTyped /\ pgRes \in Page /\ dst \in Page
      /\ call # NoCall /\ n \in Named /\ ~Item(n).good /\ ~Item(n).xfer /\ Item(n).id = call.id
      /\ To(S, D) /\ S \subseteq Named /\ D \subseteq Named
      /\ Work /\ Clean(Live \ {n}) /\ Replaces(Live \ {n})
  BY <1>1, <1>2, NewItem
<1>4. PICK o : o = src
  OBVIOUS
<1>5. o \in Named /\ o # n /\ o[1] # pgRes
  BY <1>2, <1>3, <1>4 DEF Replaces, Live, In
<1>6. /\ hot' = hot /\ pgRes' = pgRes /\ com' = com /\ call' = call /\ src' = src /\ dst' = dst
      /\ pc' = "data" /\ WritesItem(o, [Item(o) EXCEPT !.xfer = TRUE])
  BY <1>4 DEF MarkOld
<1>7. /\ HeadersStay /\ Named' = Named /\ \A p \in Page : LastPlace(p)' = LastPlace(p)
      /\ \A x \in Named : /\ Item(x)'.id = Item(x).id /\ Item(x)'.val = Item(x).val
                          /\ Item(x)'.good = Item(x).good
                          /\ x # o => Item(x)'.xfer = Item(x).xfer
      /\ Item(o)'.xfer
  BY <1>3, <1>5, <1>6, FieldReplaced
<1>8. LastPlace(dst)' = n
  BY <1>1, <1>3, <1>6, <1>7 DEF LastPlace
<1>9. /\ (Live \ {LastPlace(dst)})' = Live \ {n} /\ (In({pgRes}) \ {LastPlace(dst)})' = S /\ FromAll' = D
      /\ Live \subseteq Named
  BY <1>1, <1>6, <1>7, <1>8 DEF Live, In, FromAll, Other
<1>10. Work'
  BY <1>3, <1>6, <1>7, WorkStays
<1>11. Fresh(dst)' /\ Item(LastPlace(dst))'.id = call'.id
  <2>1. n \in Named' /\ ~Item(n)'.good /\ ~Item(n)'.xfer /\ Item(n)'.id = call'.id
    BY <1>3, <1>5, <1>6, <1>7
  <2> QED
    BY <1>8, <2>1 DEF Fresh, Item
<1>12. Clean(Live \ {LastPlace(dst)})'
  BY <1>3, <1>7, <1>9 DEF Clean
<1>13. Replaces(Live \ {LastPlace(dst)})' /\ Item(src)'.xfer
  <2>1. o \in Live \ {n} /\ Item(o).id = call.id
    BY <1>2, <1>3, <1>4 DEF Replaces
  <2>2. Item(o)'.id = call.id /\ Item(o)'.xfer
    BY <1>5, <1>7, <2>1
  <2>3. Item(src)'.id = call'.id /\ Item(src)'.xfer /\ src' \in (Live \ {LastPlace(dst)})'
    BY <1>4, <1>6, <1>9, <2>1, <2>2 DEF Item
  <2> QED
    BY <1>2, <1>6, <2>3 DEF Replaces
<1>14. To(In({pgRes}) \ {LastPlace(dst)}, FromAll)'
  <2>1. \A x \in S : x # o
    BY <1>1, <1>5 DEF In
  <2>2. To(S, D)'
    BY <1>3, <1>7, <2>1, ToStays
  <2> QED
    BY <1>9, <2>2 DEF To, Clean
<1>15. HotTyped'
  BY <1>3, <1>6 DEF HotTyped
<1> QED
  BY <1>3, <1>6, <1>10, <1>11, <1>12, <1>13, <1>14, <1>15
  DEF Sound, AtBoot, AtRest, AtReturn, AtMark, AtCopy, AtCopyItem, AtCopyChk, AtHeader,
      AtWrite, AtUse, AtErase, AtZeroOld, AtEraseRes, AtDups, AtEraseMost

\* The data of the new item.
LEMMA SoundWriteData ==
  ASSUME Reserve, Sound, WriteData
  PROVE  Sound'
<1>1. PICK n, S, D : n = LastPlace(dst) /\ S = In({pgRes}) \ {n} /\ D = FromAll
  OBVIOUS
<1>2. pc = "data" /\ (call.kind = "write" => Item(src).xfer)
  BY DEF WriteData, Sound, AtWrite
<1>3. /\ PagesTyped /\ HotTyped /\ pgRes \in Page /\ dst \in Page
      /\ call # NoCall /\ n \in Named /\ ~Item(n).good /\ ~Item(n).xfer /\ Item(n).id = call.id
      /\ To(S, D) /\ S \subseteq Named /\ D \subseteq Named /\ n \notin S /\ n \notin D
      /\ Work /\ Clean(Live \ {n}) /\ Replaces(Live \ {n}) /\ call.val \in Value
  BY <1>1, <1>2, NewItem
<1>4. /\ hot' = hot /\ pgRes' = pgRes /\ com' = com /\ call' = call /\ src' = src /\ dst' = dst
      /\ pc' = "chk" /\ WritesItem(n, [Item(n) EXCEPT !.val = call.val])
  BY <1>1 DEF WriteData
<1>5. PICK v \in Value : v = call.val
  BY <1>3
<1>6. /\ HeadersStay /\ Named' = Named /\ \A p \in Page : LastPlace(p)' = LastPlace(p)
      /\ \A x \in Named : /\ Item(x)'.id = Item(x).id
                          /\ x # n => Item(x)'.val = Item(x).val
                          /\ Item(x)'.good = Item(x).good /\ Item(x)'.xfer = Item(x).xfer
      /\ Item(n)'.val = v
  BY <1>3, <1>4, <1>5, FieldReplaced
<1>7. LastPlace(dst)' = n
  BY <1>1, <1>3, <1>4, <1>6 DEF LastPlace
<1>8. /\ (Live \ {LastPlace(dst)})' = Live \ {n} /\ (In({pgRes}) \ {LastPlace(dst)})' = S /\ FromAll' = D
      /\ Live \subseteq Named
  BY <1>1, <1>4, <1>6, <1>7 DEF Live, In, FromAll, Other
<1>9. Work'
  BY <1>3, <1>4, <1>6, WorkStays
<1>10. Fresh(dst)' /\ Item(LastPlace(dst))'.id = call'.id /\ Item(LastPlace(dst))'.val = call'.val
  <2>1. /\ n \in Named' /\ ~Item(n)'.good /\ ~Item(n)'.xfer /\ Item(n)'.id = call'.id
        /\ Item(n)'.val = call'.val
    BY <1>3, <1>4, <1>5, <1>6
  <2> QED
    BY <1>7, <2>1 DEF Fresh, Item
<1>11. Clean(Live \ {LastPlace(dst)})'
  BY <1>3, <1>6, <1>8 DEF Clean
<1>12. Replaces(Live \ {LastPlace(dst)})' /\ (call.kind = "write" => Item(src)'.xfer)
  <2>1. CASE call.kind = "write"
    <3>1. PICK o : o = src
      OBVIOUS
    <3>2. o \in Live \ {n} /\ Item(o).id = call.id /\ Item(o).xfer
      BY <1>2, <1>3, <2>1, <3>1 DEF Replaces
    <3>3. Item(o)'.id = call.id /\ Item(o)'.xfer
      BY <1>6, <1>8, <3>2
    <3>4. Item(src)'.id = call'.id /\ Item(src)'.xfer /\ src' \in (Live \ {LastPlace(dst)})'
      BY <1>4, <1>8, <3>1, <3>2, <3>3 DEF Item
    <3> QED
      BY <1>4, <2>1, <3>4 DEF Replaces
  <2>2. CASE call.kind # "write"
    <3>1. call.kind = "init" /\ \A x \in Live \ {n} : Item(x).id # call.id
      BY <1>3, <2>2 DEF Replaces
    <3> QED
      BY <1>4, <1>6, <1>8, <2>2, <3>1 DEF Replaces
  <2> QED
    BY <2>1, <2>2
<1>13. To(In({pgRes}) \ {LastPlace(dst)}, FromAll)'
  <2>1. To(S, D)'
    BY <1>3, <1>6, ToStays
  <2> QED
    BY <1>8, <2>1 DEF To, Clean
<1>14. HotTyped'
  BY <1>3, <1>4 DEF HotTyped
<1> QED
  BY <1>3, <1>4, <1>9, <1>10, <1>11, <1>12, <1>13, <1>14
  DEF Sound, AtBoot, AtRest, AtReturn, AtMark, AtCopy, AtCopyItem, AtCopyChk, AtHeader,
      AtWrite, AtUse, AtErase, AtZeroOld, AtEraseRes, AtDups, AtEraseMost

\* The checksum completes the new item, and makes it the one that counts.
LEMMA SoundSetChk ==
  ASSUME Reserve, Sound, SetChk
  PROVE  Sound'
<1>1. PICK n, o, S, D : n = LastPlace(dst) /\ o = src /\ S = In({pgRes}) \ {n} /\ D = FromAll
  OBVIOUS
<1>2. /\ pc = "chk" /\ (call.kind = "write" => Item(o).xfer) /\ Item(n).val = call.val
      /\ IF com = NoPage THEN Reserved ELSE dst = pgRes
  BY <1>1 DEF SetChk, Sound, AtWrite, Reserve
<1>3. /\ PagesTyped /\ HotTyped /\ pgRes \in Page /\ dst \in Page /\ com # pgRes
      /\ call # NoCall /\ n \in Named /\ ~Item(n).good /\ ~Item(n).xfer /\ Item(n).id = call.id
      /\ n[1] = dst
      /\ To(S, D) /\ S \subseteq Named /\ D \subseteq Named /\ n \notin S /\ n \notin D
      /\ Work /\ Clean(Live \ {n}) /\ Replaces(Live \ {n}) /\ call.val \in Value
  BY <1>1, <1>2, NewItem
<1>4. /\ pgRes' = pgRes /\ com' = com /\ call' = call /\ src' = src /\ dst' = dst
      /\ pc' = AfterItem /\ WritesItem(n, [Item(n) EXCEPT !.good = TRUE]) /\ hotItemUpdate(n)
  BY <1>1 DEF SetChk
<1>5. /\ HeadersStay /\ Named' = Named /\ \A p \in Page : LastPlace(p)' = LastPlace(p)
      /\ \A x \in Named : /\ Item(x)'.id = Item(x).id /\ Item(x)'.val = Item(x).val
                          /\ x # n => Item(x)'.good = Item(x).good
                          /\ Item(x)'.xfer = Item(x).xfer
      /\ Item(n)'.good
  BY <1>3, <1>4, FieldReplaced
<1>6. /\ HotTyped' /\ HotIn(Named)'
      /\ \A id \in hotIds : hot'[id] = IF Item(n).id = id THEN n ELSE hot[id]
  BY <1>3, <1>4, <1>5, HotFollows DEF Work
<1>7. LastPlace(dst)' = n /\ Live \subseteq Named
  BY <1>1, <1>3, <1>4, <1>5 DEF LastPlace, Live, In
<1>8. /\ Item(n)'.good /\ ~Item(n)'.xfer /\ Item(n)'.id = call'.id /\ Item(n)'.val = call'.val
  BY <1>2, <1>3, <1>4, <1>5
\* The old item, if there is one, is the only other one of that id.
<1>9. \/ /\ call.kind = "write" /\ o \in Live \ {n} /\ Item(o).id = call.id /\ Item(o).xfer
         /\ \A x \in Live \ {n} : Item(x).id = call.id => x = o
      \/ call.kind = "init" /\ \A x \in Live \ {n} : Item(x).id # call.id
  BY <1>1, <1>2, <1>3 DEF Replaces, Clean
<1>10. Clean(Live \ {n})'
  <2>1. \A x \in Live \ {n} : Item(x)'.good /\ Item(x)'.id = Item(x).id
    BY <1>3, <1>5, <1>7 DEF Clean
  <2>2. (Live \ {n})' = Live \ {n}
    BY <1>4, <1>5 DEF Live, In
  <2> QED
    BY <1>3, <2>1, <2>2 DEF Clean
<1>11. CASE com # NoPage
  <2>1. dst = pgRes /\ n \notin Live /\ LastPlace(pgRes)' = n
    <3>1. dst = pgRes
      BY <1>2, <1>11
    <3>2. n \notin Live
      BY <1>3, <3>1 DEF Live, In
    <3> QED
      BY <1>3, <1>4, <1>5, <1>1, <3>1, <3>2 DEF LastPlace
  <2>2. /\ Live' = Live /\ In({pgRes})' = S \cup {n} /\ FromAll' = D /\ (In({pgRes}) \ {LastPlace(pgRes)})' = S
    BY <1>1, <1>3, <1>4, <1>5, <2>1 DEF Live, In, FromAll, Other
  <2>3. \A y \in S : Item(y).id # call.id
    <3> TAKE y \in S
    <3>1. PICK x \in D : Item(x).id = Item(y).id
      BY <1>3 DEF To
    <3>2. Other(x)
      BY <1>1 DEF FromAll
    <3> QED
      BY <1>3, <3>1, <3>2 DEF Other
  <2>4. Work'
    <3>1. HotCopies'
      <4>1. ASSUME NEW y \in S \cup {n}, Item(y)'.good, Item(y)'.id \in hotIds
            PROVE  hot'[Item(y)'.id] = y
        <5>1. CASE y = n
          BY <1>3, <1>5, <1>6, <4>1, <5>1
        <5>2. CASE y # n
          <6>1. y \in S /\ Item(y)'.id = Item(y).id /\ Item(y).good /\ Item(y).id # Item(n).id
            BY <1>3, <1>5, <2>3, <4>1, <5>2
          <6>2. hot[Item(y).id] = y
            BY <1>1, <1>3, <4>1, <6>1 DEF Work, HotCopies
          <6> QED
            BY <1>6, <4>1, <6>1, <6>2
        <5> QED
          BY <5>1, <5>2
      <4> QED
        BY <2>2, <4>1 DEF HotCopies
    <3>2. Marked({com})' /\ ~flash'[pgRes'].active /\ ~flash'[pgRes'].xfer
      BY <1>3, <1>4, <1>5 DEF Work, Marked, HeadersStay
    <3> QED
      BY <1>6, <3>1, <3>2 DEF Work
  <2>5. Clean(Live)'
    BY <1>10, <2>1, <2>2 DEF Clean
  <2>6. Replaces(Live)' /\ (call.kind = "write" => Item(src)'.xfer)
    <3>1. CASE call.kind = "write"
      <4>1. o \in Live /\ Item(o)'.id = call.id /\ Item(o)'.xfer
        BY <1>5, <1>7, <1>9, <3>1
      <4>2. src' \in Live' /\ Item(src)'.id = call'.id /\ Item(src)'.xfer
        BY <1>1, <1>4, <2>2, <4>1 DEF Item
      <4> QED
        BY <1>4, <3>1, <4>2 DEF Replaces
    <3>2. CASE call.kind # "write"
      BY <1>4, <1>5, <1>7, <1>9, <2>1, <2>2, <3>2 DEF Replaces
    <3> QED
      BY <3>1, <3>2
  <2>7. To(In({pgRes}) \ {LastPlace(pgRes)}, FromAll)'
    <3>1. To(S, D)'
      BY <1>3, <1>5, ToStays
    <3> QED
      BY <2>2, <3>1 DEF To, Clean
  <2>8. LastPlace(pgRes)' \in Named' /\ Written(LastPlace(pgRes))'
    BY <1>3, <1>5, <1>8, <2>1 DEF Written, Item
  <2>9. pc' = "use"
    BY <1>4, <1>11 DEF AfterItem
  <2> QED
    BY <1>3, <1>4, <1>6, <2>4, <2>5, <2>6, <2>7, <2>8, <2>9
    DEF Sound, Copying, AtBoot, AtRest, AtReturn, AtMark, AtCopy, AtCopyItem, AtCopyChk, AtHeader,
        AtWrite, AtUse, AtErase, AtZeroOld, AtEraseRes, AtDups, AtEraseMost
<1>12. CASE com = NoPage
  <2>1. Live = Named
    <3>1. \A x \in Named : x[1] \in Page /\ x[1] # pgRes
      BY <1>2, <1>3, <1>12, NamedPlaces DEF Reserved
    <3> QED
      BY <3>1 DEF Live, In
  <2>2. Marked({})'
    BY <1>3, <1>5, <1>12 DEF Work, Marked, HeadersStay, Page, NoPage
  <2>3. CASE call.kind = "write"
    <3>1. pc' = "zeroOld" /\ src' = o /\ o \in Named' /\ o # n
      BY <1>1, <1>4, <1>5, <1>9, <1>12, <2>1, <2>3 DEF AfterItem
    <3>2. (Named \ {src})' = Named \ {o}
      BY <1>5, <3>1
    <3>3. \A x \in Named \ {o} : Item(x)'.good /\ (x # n => Item(x)'.id # call.id)
      BY <1>5, <1>9, <1>3, <2>1, <2>3 DEF Clean
    <3>4. Clean(Named \ {src})'
      <4>1. ASSUME NEW x \in Named \ {o}, NEW y \in Named \ {o}, Item(x)'.id = Item(y)'.id PROVE x = y
        <5>1. CASE x = n \/ y = n
          BY <1>4, <1>8, <3>3, <4>1, <5>1
        <5>2. CASE x # n /\ y # n
          BY <1>3, <1>5, <2>1, <4>1, <5>2 DEF Clean
        <5> QED
          BY <5>1, <5>2
      <4> QED
        BY <3>2, <3>3, <4>1 DEF Clean
    <3>5. HotIn(Named \ {src})'
      <4>1. ASSUME NEW id \in hotIds, hot'[id] # NoPlace PROVE hot'[id] \in Named \ {o} /\ Item(hot[id])'.id = id
        <5>1. hot'[id] \in Named' /\ Item(hot[id])'.id = id
          BY <1>6, <4>1 DEF HotIn
        <5>2. hot'[id] # o
          <6>1. CASE Item(n).id = id
            BY <1>6, <3>1, <6>1
          <6>2. CASE Item(n).id # id
            <7>1. PICK h : h = hot[id]
              OBVIOUS
            <7>2. hot'[id] = h /\ Item(h).id = id
              BY <1>3, <1>6, <4>1, <6>2, <7>1 DEF Work, HotIn
            <7>3. Item(o).id = Item(n).id
              BY <1>3, <1>9, <2>3
            <7> QED
              BY <6>2, <7>2, <7>3
          <6> QED
            BY <6>1, <6>2
        <5> QED
          BY <1>5, <5>1, <5>2
      <4> QED
        BY <3>2, <4>1 DEF HotIn
    <3>6. Paired(Named)'
      <4>1. \A x \in Named : Item(x)'.good /\ Item(x)'.xfer \in BOOLEAN
        <5>1. \A x \in Named : Item(x)'.good
          BY <1>5, <1>3, <2>1 DEF Clean
        <5>2. \A x \in Named : Item(x)'.xfer = Item(x).xfer /\ Item(x).xfer \in BOOLEAN
          BY <1>3, <1>5, NamedPlaces
        <5> QED
          BY <5>1, <5>2
      <4>2. ASSUME NEW x \in Named, NEW y \in Named, x # y, Item(x)'.id = Item(y)'.id
            PROVE  Item(x)'.xfer # Item(y)'.xfer
        <5>1. ASSUME x # o, y # o PROVE FALSE
          BY <3>2, <3>4, <4>2, <5>1 DEF Clean
        <5>2. x = n \/ y = n
          <6>1. Item(o)'.id = call.id
            BY <1>5, <1>7, <1>9, <2>3
          <6> QED
            BY <3>3, <4>2, <5>1, <6>1
        <5>3. Item(o)'.xfer /\ ~Item(n)'.xfer
          BY <1>5, <1>8, <1>9, <2>3, <3>1
        <5> QED
          BY <3>1, <4>1, <4>2, <5>1, <5>2, <5>3
      <4> QED
        BY <1>5, <4>1, <4>2 DEF Paired
    <3>7. \E y \in (Named \ {src})' : Written(y)'
      BY <1>3, <1>8, <3>1, <3>2 DEF Written
    <3> QED
      BY <1>6, <2>2, <3>1, <3>4, <3>5, <3>6, <3>7
      DEF Sound, Kept, AtBoot, AtRest, AtReturn, AtMark, AtCopy, AtCopyItem, AtCopyChk, AtHeader,
          AtWrite, AtUse, AtErase, AtZeroOld, AtEraseRes, AtDups, AtEraseMost
  <2>4. CASE call.kind # "write"
    <3>1. pc' = "return"
      BY <1>4, <1>12, <2>4 DEF AfterItem
    <3>2. Clean(Named)'
      <4>1. \A x \in Named : Item(x)'.good /\ (x # n => Item(x)'.id # call.id)
        BY <1>3, <1>5, <1>9, <2>1, <2>4 DEF Clean
      <4>2. ASSUME NEW x \in Named, NEW y \in Named, Item(x)'.id = Item(y)'.id PROVE x = y
        <5>1. CASE x = n \/ y = n
          BY <1>4, <1>8, <4>1, <4>2, <5>1
        <5>2. CASE x # n /\ y # n
          BY <1>3, <1>5, <2>1, <4>2, <5>2 DEF Clean
        <5> QED
          BY <5>1, <5>2
      <4> QED
        BY <1>5, <4>1, <4>2 DEF Clean
    <3>3. \E y \in Named' : Written(y)'
      BY <1>3, <1>5, <1>8 DEF Written
    <3> QED
      BY <1>6, <2>2, <3>1, <3>2, <3>3
      DEF Sound, Kept, AtBoot, AtRest, AtReturn, AtMark, AtCopy, AtCopyItem, AtCopyChk, AtHeader,
          AtWrite, AtUse, AtErase, AtZeroOld, AtEraseRes, AtDups, AtEraseMost
  <2> QED
    BY <2>3, <2>4
<1> QED
  BY <1>11, <1>12

-----------------------------------------------------------------------------
(* Page clean-up, and the end of a call *)

\* What the reserve page holds is all that the compacted page does, and may take
\* its place.
LEMMA CopiesComplete ==
  ASSUME Reserve, Sound, pc = "use", NEW R, R = In(Page \ {com}) \ (IF call # NoCall /\ Outdated THEN {src} ELSE {})
  PROVE  /\ PagesTyped /\ com \in Page /\ pgRes \in Page /\ com # pgRes
         /\ Paired(Named) /\ Marked({com}) /\ Covered(com) /\ Clean(R) /\ HotIn(R)
         /\ call # NoCall => /\ Outdated => src \in Named
                             /\ \E y \in In(Page \ {com}) : Written(y) /\ (Outdated => y # src)
<1> DEFINE n == LastPlace(pgRes)
           S == IF call = NoCall THEN In({pgRes}) ELSE In({pgRes}) \ {n}
           D == FromAll
<1>1. /\ PagesTyped /\ com \in Page /\ pgRes \in Page /\ com # pgRes
      /\ Work /\ Clean(Live) /\ Replaces(Live) /\ To(S, D)
      /\ call # NoCall => n \in Named /\ Written(n) /\ (call.kind = "write" => Item(src).xfer)
  BY DEF Reserve, Sound, AtUse, Copying, Compacting, Filled
<1>2. \A x \in Named : x[1] \in Page /\ Item(x).xfer \in BOOLEAN /\ Item(x).good \in BOOLEAN
  BY <1>1, NamedPlaces
<1>3. n[1] = pgRes
  BY DEF LastPlace
<1>4. /\ \A x : x \in Live <=> x \in Named /\ x[1] # pgRes
      /\ \A x : x \in In({com}) <=> x \in Named /\ x[1] = com
      /\ \A x : x \in In(Page \ {com}) <=> x \in Named /\ x[1] # com
      /\ \A x : x \in In({pgRes}) <=> x \in Named /\ x[1] = pgRes
  BY <1>2 DEF Live, In
<1>5. \A x \in Named : x \in Live \/ x \in S \/ (call # NoCall /\ x = n)
  BY <1>4
<1>6. \A x \in D : x \in Named /\ x[1] = com /\ x \in Live /\ Other(x) /\ Item(x).xfer
  BY <1>1, <1>4 DEF FromAll, To
<1>7. \A x \in In({com}) : Other(x) => x \in D
  BY DEF FromAll
<1>8. S \subseteq Named /\ \A y \in S : y[1] = pgRes /\ Item(y).good /\ ~Item(y).xfer /\ y \notin Live
  BY <1>1, <1>4 DEF To, Clean
\* An item on another page that has the id of a copy is the one copied.
<1>9. ASSUME NEW y \in S, NEW x \in Live, Item(x).id = Item(y).id
      PROVE  x \in In({com}) /\ Item(x).xfer
  <2>1. PICK z \in D : Item(z).id = Item(y).id
    BY <1>1 DEF To
  <2>2. z = x
    BY <1>1, <1>6, <1>9, <2>1 DEF Clean
  <2> QED
    BY <1>4, <1>6, <2>1, <2>2
<1>10. ASSUME NEW y \in S, call # NoCall PROVE Item(y).id # call.id
  <2>1. PICK z \in D : Item(z).id = Item(y).id
    BY <1>1 DEF To
  <2> QED
    BY <1>6, <1>10, <2>1 DEF Other
<1>11. ASSUME call # NoCall, NEW x \in Live, Item(x).id = call.id
       PROVE  call.kind = "write" /\ x = src /\ Item(x).xfer
  <2>1. call.kind = "write" /\ src \in Live /\ Item(src).id = call.id
    BY <1>1, <1>11 DEF Replaces
  <2>2. x = src
    BY <1>1, <1>11, <2>1 DEF Clean
  <2> QED
    BY <1>1, <1>11, <2>1, <2>2
<1>12. call # NoCall => n \in Named /\ n \notin Live /\ n \notin S /\ Item(n).good /\ ~Item(n).xfer
                        /\ Item(n).id = call.id /\ Item(n).val = call.val
  BY <1>1, <1>3, <1>4 DEF Written
<1>13. \A x \in Live : Item(x).good
  BY <1>1 DEF Clean
<1> HIDE DEF S, D, n
<1>14. \A x \in Named : Item(x).good
  BY <1>5, <1>8, <1>12, <1>13
\* Two items of the same id: an old one that is left behind or zeroed, a new one.
<1>15. ASSUME NEW x \in Named, NEW y \in Named, x # y, Item(x).id = Item(y).id
       PROVE  \/ x \in Live /\ y \notin Live /\ Item(x).xfer /\ ~Item(y).xfer
                 /\ (x[1] = com \/ (call # NoCall /\ call.kind = "write" /\ x = src))
              \/ y \in Live /\ x \notin Live /\ Item(y).xfer /\ ~Item(x).xfer
                 /\ (y[1] = com \/ (call # NoCall /\ call.kind = "write" /\ y = src))
  <2>1. ~(x \in Live /\ y \in Live)
    BY <1>1, <1>15 DEF Clean
  <2>2. ~(x \in S /\ y \in S)
    BY <1>1, <1>15 DEF To, Clean
  <2>3. ~(call # NoCall /\ x \in S /\ y = n) /\ ~(call # NoCall /\ y \in S /\ x = n)
    BY <1>10, <1>12, <1>15
  <2>4. CASE x \in Live /\ y \in S
    BY <1>4, <1>8, <1>9, <1>15, <2>4
  <2>5. CASE y \in Live /\ x \in S
    BY <1>4, <1>8, <1>9, <1>15, <2>5
  <2>6. CASE x \in Live /\ call # NoCall /\ y = n
    BY <1>11, <1>12, <1>15, <2>6
  <2>7. CASE y \in Live /\ call # NoCall /\ x = n
    BY <1>11, <1>12, <1>15, <2>7
  <2> QED
    BY <1>5, <1>15, <2>1, <2>2, <2>3, <2>4, <2>5, <2>6, <2>7
<1>16. Paired(Named)
  BY <1>14, <1>15 DEF Paired
\* All that is on the page has another copy.
<1>17. ASSUME NEW x \in In({com})
       PROVE  \E y \in In(Page \ {com}) : y[1] = pgRes /\ Item(y).id = Item(x).id /\ Item(y).good /\ ~Item(y).xfer
  <2>1. CASE Other(x)
    <3>1. PICK y \in S : Item(y).id = Item(x).id
      BY <1>1, <1>7, <2>1 DEF To
    <3> QED
      BY <1>1, <1>4, <1>8, <3>1
  <2>2. CASE ~Other(x)
    <3>1. call # NoCall /\ Item(x).id = call.id
      BY <2>2 DEF Other
    <3> QED
      BY <1>1, <1>3, <1>4, <1>12, <3>1
  <2> QED
    BY <2>1, <2>2
<1>18. Covered(com)
  BY <1>17 DEF Covered
<1>19. \A x \in R : x \in Named /\ x[1] # com /\ ~(call # NoCall /\ call.kind = "write" /\ x = src)
  <2>1. ASSUME NEW x \in R, call # NoCall, call.kind = "write", x = src PROVE FALSE
    <3>1. src[1] # com
      BY <1>4, <2>1
    <3> QED
      BY <2>1, <3>1 DEF Outdated
  <2> QED
    BY <1>4, <2>1
<1>20. Clean(R)
  BY <1>14, <1>15, <1>19 DEF Clean
<1>21. HotIn(R)
  <2> SUFFICES ASSUME NEW id \in hotIds, hot[id] # NoPlace PROVE hot[id] \in R /\ Item(hot[id]).id = id
    BY DEF HotIn
  <2>1. PICK h : h = hot[id]
    OBVIOUS
  <2>2. h \in Named /\ Item(h).id = id
    BY <1>1, <2>1 DEF Work, HotIn
  <2>3. \A y \in Named : y[1] = pgRes /\ Item(y).id = id => y = h
    BY <1>1, <1>4, <1>14, <2>1 DEF Work, HotCopies
  <2>4. h[1] # com
    <3> SUFFICES ASSUME h[1] = com PROVE FALSE
      OBVIOUS
    <3>1. PICK y \in In(Page \ {com}) : y[1] = pgRes /\ Item(y).id = Item(h).id
      BY <1>4, <1>17, <2>2
    <3> QED
      BY <1>4, <2>2, <2>3, <3>1
  <2>5. ~(call # NoCall /\ Outdated /\ h = src)
    <3> SUFFICES ASSUME call # NoCall, Outdated, h = src PROVE FALSE
      OBVIOUS
    <3>1. src \in Live /\ Item(src).id = call.id
      BY <1>1 DEF Replaces, Outdated
    <3>2. h = n
      BY <1>3, <1>12, <2>2, <2>3, <3>1
    <3> QED
      BY <1>12, <3>1, <3>2
  <2> QED
    BY <1>4, <2>1, <2>2, <2>4, <2>5
<1>22. ASSUME call # NoCall
       PROVE  /\ Outdated => src \in Named
              /\ \E y \in In(Page \ {com}) : Written(y) /\ (Outdated => y # src)
  <2>1. Outdated => src \in Live
    BY <1>1, <1>22 DEF Replaces, Outdated
  <2>2. n \in In(Page \ {com}) /\ Written(n)
    BY <1>1, <1>3, <1>4, <1>12, <1>22
  <2> QED
    BY <1>4, <1>12, <1>22, <2>1, <2>2
<1> QED
  BY <1>1, <1>16, <1>18, <1>20, <1>21, <1>22 DEF Work

\* The reserve page is put in use.
LEMMA SoundPageUse ==
  ASSUME Reserve, Sound, PageUse
  PROVE  Sound'
<1>1. PICK R : R = In(Page \ {com}) \ (IF call # NoCall /\ Outdated THEN {src} ELSE {})
  OBVIOUS
<1>2. /\ PagesTyped /\ com \in Page /\ pgRes \in Page /\ com # pgRes
      /\ Paired(Named) /\ Marked({com}) /\ Covered(com) /\ Clean(R) /\ HotIn(R)
      /\ call # NoCall => /\ Outdated => src \in Named
                          /\ \E y \in In(Page \ {com}) : Written(y) /\ (Outdated => y # src)
  BY <1>1, CopiesComplete DEF PageUse
<1>3. HotTyped /\ ~flash[pgRes].xfer
  BY DEF PageUse, Sound, AtUse, Copying, Work
<1> DEFINE page == [flash[pgRes] EXCEPT !.active = TRUE, !.inUse = TRUE]
<1>4. page \in PageType /\ page.items = flash[pgRes].items /\ ~page.xfer
  <2>1. flash[pgRes] \in PageType
    BY <1>2 DEF PagesTyped
  <2> HIDE DEF ItemType
  <2> QED
    BY <1>3, <2>1 DEF PageType
<1>5. /\ hot' = hot /\ pgRes' = pgRes /\ com' = com /\ call' = call /\ src' = src
      /\ pc' = "erase" /\ Writes(pgRes, page)
  BY DEF PageUse
<1> HIDE DEF page
<1>6. /\ Named' = Named /\ \A x \in Items : Item(x)' = Item(x)
      /\ flash'[pgRes] = page /\ \A q \in Page \ {pgRes} : flash'[q] = flash[q]
  BY <1>2, <1>4, <1>5, PageReplaced
<1>7. \A x \in Named : Item(x)' = Item(x)
  BY <1>6 DEF Named
<1>8. In(Page \ {com})' = In(Page \ {com}) /\ In({com})' = In({com}) /\ (Outdated' <=> Outdated)
      /\ In(Page \ {com}) \subseteq Named /\ In({com}) \subseteq Named
  BY <1>5, <1>6 DEF In, Outdated
<1>9. Paired(Named)'
  BY <1>2, <1>6, <1>7 DEF Paired
<1>10. Marked({com})'
  BY <1>2, <1>4, <1>5, <1>6 DEF Marked
<1>11. Covered(com)'
  <2>1. \A x \in In({com}) : \E y \in In(Page \ {com}) : Item(y)'.id = Item(x)'.id /\ Item(y)'.good /\ ~Item(y)'.xfer
    BY <1>2, <1>7, <1>8 DEF Covered
  <2> QED
    BY <1>8, <2>1 DEF Covered
<1>12. R \subseteq Named
  BY <1>1 DEF In
<1>13. Clean(R)'
  BY <1>2, <1>7, <1>12 DEF Clean
<1>14. HotIn(R)'
  <2>1. ASSUME NEW id \in hotIds, hot[id] # NoPlace PROVE hot'[id] \in R /\ Item(hot[id])'.id = id
    <3>1. PICK h : h = hot[id]
      OBVIOUS
    <3>2. h \in R /\ Item(h).id = id
      BY <1>2, <2>1, <3>1 DEF HotIn
    <3>3. Item(h)'.id = id
      BY <1>7, <1>12, <3>2
    <3> QED
      BY <1>5, <3>1, <3>2, <3>3 DEF Item
  <2> QED
    BY <1>5, <2>1 DEF HotIn
<1>15. ASSUME call = NoCall PROVE Kept(In(Page \ {com}))'
  <2>1. In(Page \ {com})' = R
    BY <1>1, <1>8, <1>15
  <2> QED
    BY <1>13, <1>14, <2>1 DEF Kept, Clean, HotIn
<1>16. ASSUME call # NoCall
       PROVE  /\ Kept(In(Page \ {com}) \ (IF Outdated THEN {src} ELSE {}))'
              /\ Outdated' => src' \in Named'
              /\ \E y \in In(Page \ {com})' : Written(y)' /\ (Outdated' => y # src')
  <2>1. (In(Page \ {com}) \ (IF Outdated THEN {src} ELSE {}))' = R
    BY <1>1, <1>5, <1>8, <1>16
  <2>2. Kept(In(Page \ {com}) \ (IF Outdated THEN {src} ELSE {}))'
    BY <1>13, <1>14, <2>1 DEF Kept, Clean, HotIn
  <2>3. PICK y \in In(Page \ {com}) : Written(y) /\ (Outdated => y # src)
    BY <1>2, <1>16
  <2>4. Written(y)'
    BY <1>5, <1>7, <1>8, <2>3 DEF Written
  <2> QED
    BY <1>2, <1>5, <1>6, <1>8, <1>16, <2>2, <2>3, <2>4
<1>17. HotTyped'
  BY <1>3, <1>5 DEF HotTyped
<1>18. call' = call
  BY <1>5
<1> QED
  BY <1>5, <1>9, <1>10, <1>11, <1>15, <1>16, <1>17
  DEF Sound, AtBoot, AtRest, AtReturn, AtMark, AtCopy, AtCopyItem, AtCopyChk, AtHeader,
      AtWrite, AtUse, AtErase, AtZeroOld, AtEraseRes, AtDups, AtEraseMost

\* An erased page is a page.
LEMMA BlankTyped == Blank \in PageType /\ Blank.items = <<>> /\ ~Blank.active /\ ~Blank.xfer
<1>1. <<>> \in Seq(ItemType)
  OBVIOUS
<1> HIDE DEF ItemType
<1> QED
  BY <1>1 DEF Blank, PageType

\* A page that is erased.
LEMMA PageErased ==
  ASSUME PagesTyped, NEW p \in Page, Writes(p, Blank)
  PROVE  /\ Named' = {x \in Named : x[1] # p} /\ Named' = In(Page \ {p})
         /\ \A x \in Named' : Item(x)' = Item(x)
         /\ flash'[p] = Blank /\ \A q \in Page \ {p} : flash'[q] = flash[q]
<1>1. /\ Named' = {x \in Named : x[1] # p}
      /\ \A x \in Named' : Item(x)' = Item(x)
      /\ flash'[p] = Blank /\ \A q \in Page \ {p} : flash'[q] = flash[q]
  BY BlankTyped, PageReplaced
<1>2. In(Page \ {p}) = {x \in Named : x[1] # p}
  BY NamedPlaces DEF In
<1> QED
  BY <1>1, <1>2

\* The places in RAM stay those of items that stay.
LEMMA HotStays ==
  ASSUME NEW S, HotIn(S), hot' = hot, \A x \in S : Item(x)'.id = Item(x).id
  PROVE  HotIn(S)'
<1>1. ASSUME NEW id \in hotIds, hot[id] # NoPlace PROVE hot'[id] \in S /\ Item(hot[id])'.id = id
  <2>1. PICK h : h = hot[id]
    OBVIOUS
  <2>2. h \in S /\ Item(h).id = id
    BY <1>1, <2>1 DEF HotIn
  <2>3. Item(h)'.id = id
    BY <2>2
  <2> QED
    BY <2>1, <2>2, <2>3 DEF Item
<1> QED
  BY <1>1 DEF HotIn

\* The compacted page is erased.
LEMMA SoundErasePage ==
  ASSUME Reserve, Sound, ErasePage
  PROVE  Sound'
<1>1. /\ PagesTyped /\ HotTyped /\ com \in Page
      /\ Paired(Named) /\ Marked({com})
      /\ \/ call = NoCall /\ (Cold \/ Kept(In(Page \ {com})))
         \/ /\ call # NoCall
            /\ Kept(In(Page \ {com}) \ (IF Outdated THEN {src} ELSE {}))
            /\ Outdated => src \in Named
            /\ \E y \in In(Page \ {com}) : Written(y) /\ (Outdated => y # src)
  BY DEF ErasePage, Reserve, Sound, AtErase
<1>2. /\ hot' = hot /\ pgRes' = com /\ call' = call /\ src' = src /\ cur' = <<1, 1>>
      /\ Writes(com, Blank)
      /\ pc' = IF call = NoCall THEN "dups" ELSE IF Outdated THEN "zeroOld" ELSE "return"
  BY DEF ErasePage, Outdated
<1>3. /\ Named' = {x \in Named : x[1] # com} /\ Named' = In(Page \ {com})
      /\ \A x \in Named' : Item(x)' = Item(x)
      /\ flash'[com] = Blank /\ \A q \in Page \ {com} : flash'[q] = flash[q]
  BY <1>1, <1>2, PageErased
<1>4. Paired(Named)'
  BY <1>1, <1>3 DEF Paired
<1>5. Marked({})'
  BY <1>1, <1>3 DEF Marked, Blank
<1>6. HotTyped'
  BY <1>1, <1>2 DEF HotTyped
<1>7. CASE call = NoCall
  <2>1. pc' = "dups" /\ pgRes' # NoPage
    BY <1>1, <1>2, <1>7 DEF Page, NoPage
  <2>2. Cold' \/ Kept(Named)'
    <3>1. ASSUME Cold PROVE Cold'
      BY <1>2, <3>1 DEF Cold
    <3>2. ASSUME Kept(In(Page \ {com})) PROVE Kept(Named)'
      <4>1. PICK S : S = In(Page \ {com})
        OBVIOUS
      <4>2. Clean(S) /\ HotIn(S) /\ S = Named' /\ \A x \in S : Item(x)' = Item(x)
        BY <1>3, <3>2, <4>1 DEF Kept
      <4>3. HotIn(S)'
        BY <1>2, <4>2, HotStays
      <4>4. Clean(S)'
        BY <4>2 DEF Clean
      <4> QED
        BY <4>2, <4>3, <4>4 DEF Kept, Clean, HotIn
    <3> QED
      BY <1>1, <1>7, <3>1, <3>2
  <2>3. Walked' = {}
    <3>1. \A x \in Named : x[1] \in Nat \ {0} /\ x[2] \in Nat \ {0}
      BY <1>1, NamedPlaces
    <3>2. \A x \in Named' : ~Before(x, <<1, 1>>)
      BY <1>3, <3>1 DEF Before
    <3> QED
      BY <1>2, <3>2 DEF Walked
  <2> QED
    BY <1>4, <1>5, <1>6, <2>1, <2>2, <2>3
    DEF Sound, AtBoot, AtRest, AtReturn, AtMark, AtCopy, AtCopyItem, AtCopyChk, AtHeader,
        AtWrite, AtUse, AtErase, AtZeroOld, AtEraseRes, AtDups, AtEraseMost
<1>8. CASE call # NoCall
  <2>1. PICK S : S = Named' \ (IF Outdated THEN {src} ELSE {})
    OBVIOUS
  <2>2. Clean(S) /\ HotIn(S) /\ S \subseteq Named'
    BY <1>1, <1>3, <1>8, <2>1 DEF Kept
  <2>3. HotIn(S)'
    BY <1>2, <1>3, <2>2, HotStays
  <2>4. Clean(S)'
    BY <1>3, <2>2 DEF Clean
  <2>5. PICK y \in In(Page \ {com}) : Written(y) /\ (Outdated => y # src)
    BY <1>1, <1>8
  <2>6. Written(y)' /\ y \in Named'
    BY <1>2, <1>3, <2>5 DEF Written
  <2>7. CASE Outdated
    <3>1. pc' = "zeroOld" /\ src' \in Named' /\ S = (Named \ {src})'
      BY <1>1, <1>2, <1>3, <1>8, <2>1, <2>7 DEF Outdated
    <3>2. Kept(Named \ {src})'
      BY <2>3, <2>4, <3>1 DEF Kept, Clean, HotIn
    <3>3. y \in (Named \ {src})'
      BY <1>2, <2>5, <2>6, <2>7
    <3> QED
      BY <1>4, <1>5, <1>6, <2>6, <3>1, <3>2, <3>3
      DEF Sound, AtBoot, AtRest, AtReturn, AtMark, AtCopy, AtCopyItem, AtCopyChk, AtHeader,
          AtWrite, AtUse, AtErase, AtZeroOld, AtEraseRes, AtDups, AtEraseMost
  <2>8. CASE ~Outdated
    <3>1. pc' = "return" /\ S = Named'
      BY <1>2, <1>8, <2>1, <2>8
    <3>2. Kept(Named)'
      BY <2>3, <2>4, <3>1 DEF Kept, Clean, HotIn
    <3> QED
      BY <1>5, <1>6, <2>6, <3>1, <3>2
      DEF Sound, AtBoot, AtRest, AtReturn, AtMark, AtCopy, AtCopyItem, AtCopyChk, AtHeader,
          AtWrite, AtUse, AtErase, AtZeroOld, AtEraseRes, AtDups, AtEraseMost
  <2> QED
    BY <2>7, <2>8
<1> QED
  BY <1>7, <1>8

\* The old item is zeroed.
LEMMA SoundZeroOld ==
  ASSUME Reserve, Sound, ZeroOld
  PROVE  Sound'
<1>1. PICK o, S : o = src /\ S = Named \ {o}
  OBVIOUS
<1>2. /\ PagesTyped /\ HotTyped /\ o \in Named /\ Clean(S) /\ HotIn(S) /\ Marked({})
      /\ call.kind # "delete" => \E y \in S : Written(y)
  BY <1>1 DEF ZeroOld, Reserve, Sound, AtZeroOld, Kept
<1>3. /\ hot' = hot /\ call' = call /\ pc' = "return" /\ Zeroes(o)
  BY <1>1 DEF ZeroOld
<1>4. HeadersStay /\ Named' = S /\ \A x \in S : Item(x)' = Item(x)
  BY <1>1, <1>2, <1>3, FieldReplaced
<1>5. HotIn(S)'
  BY <1>2, <1>3, <1>4, HotStays
<1>6. Clean(S)'
  BY <1>2, <1>4 DEF Clean
<1>7. Kept(Named)'
  BY <1>4, <1>5, <1>6 DEF Kept, Clean, HotIn
<1>8. Marked({})'
  BY <1>2, <1>4 DEF Marked, HeadersStay
<1>9. call'.kind # "delete" => \E y \in Named' : Written(y)'
  BY <1>2, <1>3, <1>4 DEF Written
<1>10. HotTyped'
  BY <1>2, <1>3 DEF HotTyped
<1> QED
  BY <1>3, <1>7, <1>8, <1>9, <1>10
  DEF Sound, AtBoot, AtRest, AtReturn, AtMark, AtCopy, AtCopyItem, AtCopyChk, AtHeader,
      AtWrite, AtUse, AtErase, AtZeroOld, AtEraseRes, AtDups, AtEraseMost

\* The call returns.
LEMMA SoundReturn ==
  ASSUME Reserve, Sound, Return
  PROVE  Sound'
<1>1. HotTyped /\ Clean(Named) /\ HotIn(Named) /\ Marked({})
  BY DEF Return, Sound, AtRest, Kept
<1>2. flash' = flash /\ hot' = hot /\ pc' = "ready"
  BY DEF Return
<1>3. PICK S : S = Named
  OBVIOUS
<1>4. Named' = S /\ \A x : Item(x)' = Item(x)
  BY <1>2, <1>3, FlashStays
<1>5. HotIn(S)'
  BY <1>1, <1>2, <1>3, <1>4, HotStays
<1>6. Kept(Named)'
  BY <1>1, <1>3, <1>4, <1>5 DEF Kept, Clean, HotIn
<1>7. Marked({})' /\ HotTyped'
  BY <1>1, <1>2 DEF Marked, HotTyped
<1> QED
  BY <1>2, <1>6, <1>7
  DEF Sound, AtBoot, AtRest, AtReturn, AtMark, AtCopy, AtCopyItem, AtCopyChk, AtHeader,
      AtWrite, AtUse, AtErase, AtZeroOld, AtEraseRes, AtDups, AtEraseMost

-----------------------------------------------------------------------------
(* initNV *)

\* Nothing lies before the first place.
LEMMA NoneWalked ==
  ASSUME PagesTyped, Named' \subseteq Named, cur' = <<1, 1>>
  PROVE  Walked' = {}
<1>1. \A x \in Named : x[1] \in Nat \ {0} /\ x[2] \in Nat \ {0}
  BY NamedPlaces
<1>2. \A x \in Named' : ~Before(x, <<1, 1>>)
  BY <1>1 DEF Before
<1> QED
  BY <1>2 DEF Walked

\* Only in a flash that was never written is more than one page erased.
LEMMA SoundBootUse ==
  ASSUME Reserve, Sound, BootUse
  PROVE  Sound'
<1>1. PagesTyped /\ HotTyped /\ Cold /\ (Virgin \/ Recoverable) /\ Cardinality(Erased) > 1 /\ pc = "boot"
  BY DEF BootUse, Reserve, Sound, AtBoot
<1>2. ~Recoverable
  <2> SUFFICES ASSUME \A p \in Erased, q \in Erased : p = q PROVE FALSE
    BY DEF Recoverable
  <2>1. CASE Erased = {}
    BY <1>1, <2>1, FS_EmptySet
  <2>2. CASE Erased # {}
    <3>1. PICK p : Erased = {p}
      BY <2>2
    <3> QED
      BY <1>1, <3>1, FS_Singleton
  <2> QED
    BY <2>1, <2>2
<1>3. Virgin
  BY <1>1, <1>2
<1>4. PICK p : p = LowestOf(Erased \ {LowestOf(Erased)})
  OBVIOUS
<1> DEFINE page == [flash[p] EXCEPT !.active = TRUE, !.inUse = TRUE]
<1>5. Writes(p, page) /\ hot' = hot /\ pc' = "boot"
  BY <1>1, <1>4 DEF BootUse, ram
<1>6. Named' = {} /\ \A q \in Page : ~flash'[q].xfer
  <2>1. CASE p \in Page
    <3>1. page \in PageType /\ page.items = flash[p].items /\ page.xfer = flash[p].xfer
      <4>1. flash[p] \in PageType
        BY <1>1, <2>1 DEF PagesTyped
      <4> HIDE DEF ItemType
      <4> QED
        BY <4>1 DEF PageType
    <3> HIDE DEF page
    <3>2. Named' = Named /\ flash'[p] = page /\ \A q \in Page \ {p} : flash'[q] = flash[q]
      BY <1>1, <1>5, <2>1, <3>1, PageReplaced
    <3> QED
      BY <1>3, <2>1, <3>1, <3>2 DEF Virgin
  <2>2. CASE p \notin Page
    <3>1. flash' = flash
      BY <1>1, <1>5, <2>2 DEF Writes, PagesTyped
    <3>2. Named' = Named
      BY <3>1, FlashStays
    <3> QED
      BY <1>3, <3>1, <3>2 DEF Virgin
  <2> QED
    BY <2>1, <2>2
<1>7. Virgin' /\ Cold' /\ HotTyped'
  BY <1>1, <1>5, <1>6 DEF Virgin, Cold, HotTyped
<1> QED
  BY <1>5, <1>7
  DEF Sound, AtBoot, AtRest, AtReturn, AtMark, AtCopy, AtCopyItem, AtCopyChk, AtHeader,
      AtWrite, AtUse, AtErase, AtZeroOld, AtEraseRes, AtDups, AtEraseMost

\* The erased page is the reserve page, the marked one that which was compacted.
LEMMA SoundBootScan ==
  ASSUME Reserve, Sound, BootScan
  PROVE  Sound'
<1> DEFINE old == {p \in Page : flash[p].active /\ flash[p].xfer}
<1>1. /\ PagesTyped /\ HotTyped /\ Cold /\ (Virgin \/ Recoverable) /\ Cardinality(Erased) <= 1
      /\ flash' = flash /\ hot' = hot /\ call' = NoCall
      /\ pgRes' = LowestOf(Erased) /\ com' = HighestOf(old)
      /\ pc' = IF pgRes' # NoPage THEN "eraseRes" ELSE IF com' # NoPage THEN "erase" ELSE "dups"
      /\ cur' = <<1, 1>>
  BY DEF BootScan, Reserve, Sound, AtBoot
<1>2. IF old = {} THEN com' = NoPage ELSE com' \in old
  BY <1>1, HighestIn, Zenon
<1>3. /\ pgRes' = NoPage => \A p \in Page : flash[p].active
      /\ pgRes' # NoPage => pgRes' \in Page /\ ~flash[pgRes'].active
                            /\ \A p \in Page \ {pgRes'} : flash[p].active
  BY <1>1, OneErased
<1>4. Named' = Named /\ \A x : Item(x)' = Item(x)
  BY <1>1, FlashStays
<1>5. NoPage \notin Page /\ \A x \in Named : x[1] \in Page
  BY <1>1, NamedPlaces DEF Page, NoPage
\* At most one page is marked.
<1>6. Marked({com})'
  <2>1. ASSUME NEW p \in Page, Marked({p}) PROVE Marked({com})'
    BY <1>1, <1>2, <2>1 DEF Marked
  <2>2. CASE Virgin
    BY <1>1, <2>2 DEF Virgin, Marked
  <2> QED
    BY <1>1, <2>1, <2>2 DEF Recoverable
<1>7. Paired(InUse)
  BY <1>1 DEF Virgin, Recoverable, Paired, InUse
<1>8. Cold' /\ HotTyped'
  BY <1>1 DEF Cold, HotTyped
<1>9. CASE pgRes' # NoPage
  <2>1. pc' = "eraseRes" /\ ~flash'[pgRes'].active
    BY <1>1, <1>3, <1>9
  <2>2. Live' = InUse
    BY <1>3, <1>4, <1>5, <1>9 DEF Live, In, InUse
  <2>3. Paired(Live)'
    BY <1>4, <1>7, <2>2 DEF Paired
  <2>4. com' = NoPage \/ Clean(Live)'
    <3> SUFFICES ASSUME com' # NoPage PROVE Clean(Live)'
      OBVIOUS
    <3>1. com' \in Page /\ flash[com'].active /\ flash[com'].xfer
      BY <1>2
    <3>2. ~Virgin /\ ~Marked({})
      BY <3>1 DEF Virgin, Marked
    <3>3. Erased # {}
      BY <1>3, <1>9 DEF Erased
    <3>4. Clean(InUse)
      BY <1>1, <3>2, <3>3 DEF Recoverable
    <3> QED
      BY <1>4, <2>2, <3>4 DEF Clean
  <2> QED
    BY <1>6, <1>8, <2>1, <2>3, <2>4
    DEF Sound, AtBoot, AtRest, AtReturn, AtMark, AtCopy, AtCopyItem, AtCopyChk, AtHeader,
        AtWrite, AtUse, AtErase, AtZeroOld, AtEraseRes, AtDups, AtEraseMost
<1>10. CASE pgRes' = NoPage
  <2>1. InUse = Named /\ Erased = {}
    BY <1>3, <1>5, <1>10 DEF InUse, Erased
  <2>2. Paired(Named)'
    BY <1>4, <1>7, <2>1 DEF Paired
  <2>3. CASE com' # NoPage
    <3>1. pc' = "erase"
      BY <1>1, <1>10, <2>3
    <3>2. com' \in Page /\ flash[com'].active /\ flash[com'].xfer
      BY <1>2, <2>3
    <3>3. PICK c : c = com'
      OBVIOUS
    <3>4. Covered(c)
      <4>1. ~Virgin
        BY <3>2 DEF Virgin
      <4>2. PICK p \in Page : Marked({p}) /\ (flash[p].xfer => Covered(p))
        BY <1>1, <2>1, <4>1 DEF Recoverable
      <4>3. p = c
        BY <3>2, <3>3, <4>2 DEF Marked
      <4> QED
        BY <3>2, <3>3, <4>2, <4>3
    <3>5. Covered(com)'
      <4>1. In({c})' = In({c}) /\ In(Page \ {c})' = In(Page \ {c})
        BY <1>4 DEF In
      <4>2. \A x \in In({c}) : \E y \in In(Page \ {c}) : Item(y)'.id = Item(x)'.id /\ Item(y)'.good /\ ~Item(y)'.xfer
        BY <1>4, <3>4 DEF Covered
      <4>3. In({com})' = In({c}) /\ In(Page \ {com})' = In(Page \ {c})
        BY <3>3, <4>1 DEF In
      <4> QED
        BY <4>2, <4>3 DEF Covered
    <3> QED
      BY <1>1, <1>6, <1>8, <2>2, <3>1, <3>5
      DEF Sound, AtBoot, AtRest, AtReturn, AtMark, AtCopy, AtCopyItem, AtCopyChk, AtHeader,
          AtWrite, AtUse, AtErase, AtZeroOld, AtEraseRes, AtDups, AtEraseMost
  <2>4. CASE com' = NoPage
    <3>1. pc' = "dups" /\ Walked' = {}
      BY <1>1, <1>4, <1>10, <2>4, NoneWalked
    <3>2. Marked({})'
      BY <1>5, <1>6, <2>4 DEF Marked
    <3> QED
      BY <1>8, <2>2, <3>1, <3>2
      DEF Sound, AtBoot, AtRest, AtReturn, AtMark, AtCopy, AtCopyItem, AtCopyChk, AtHeader,
          AtWrite, AtUse, AtErase, AtZeroOld, AtEraseRes, AtDups, AtEraseMost
  <2> QED
    BY <2>3, <2>4
<1> QED
  BY <1>9, <1>10

\* The reserve page is erased; a compaction starts anew.
LEMMA SoundEraseRes ==
  ASSUME Reserve, Sound, EraseRes
  PROVE  Sound'
<1>1. /\ PagesTyped /\ HotTyped /\ Filled /\ (com = NoPage \/ Compacting) /\ call = NoCall
      /\ ~flash[pgRes].active /\ Cold /\ Paired(Live) /\ Marked({com})
      /\ com = NoPage \/ Clean(Live)
  BY DEF EraseRes, Reserve, Sound, AtEraseRes
<1>2. /\ hot' = hot /\ pgRes' = pgRes /\ com' = com /\ call' = NoCall
      /\ Writes(pgRes, Blank)
      /\ pc' = IF com # NoPage THEN "copy" ELSE "dups"
      /\ cur' = IF com # NoPage THEN <<com, 1>> ELSE <<1, 1>>
  BY <1>1 DEF EraseRes
<1>3. pgRes \in Page
  BY <1>1 DEF Filled
<1>4. /\ Named' = Live /\ Named' \subseteq Named
      /\ \A x \in Named' : Item(x)' = Item(x) /\ x[1] # pgRes
      /\ flash'[pgRes] = Blank /\ \A q \in Page \ {pgRes} : flash'[q] = flash[q]
  BY <1>1, <1>2, <1>3, PageErased DEF Live
<1>5. Cold' /\ HotTyped'
  BY <1>1, <1>2 DEF Cold, HotTyped
<1>6. Marked({com})'
  BY <1>1, <1>2, <1>4 DEF Marked, Blank
<1>7. \A x \in Named : x[1] \in Page /\ x[2] \in Nat \ {0}
  BY <1>1, NamedPlaces
<1>8. CASE com = NoPage
  <2>1. pc' = "dups" /\ Walked' = {}
    BY <1>1, <1>2, <1>4, <1>8, NoneWalked
  <2>2. Paired(Named)'
    BY <1>1, <1>4 DEF Paired
  <2>3. Marked({})'
    BY <1>2, <1>6, <1>8 DEF Marked, Page, NoPage
  <2> QED
    BY <1>5, <2>1, <2>2, <2>3
    DEF Sound, AtBoot, AtRest, AtReturn, AtMark, AtCopy, AtCopyItem, AtCopyChk, AtHeader,
        AtWrite, AtUse, AtErase, AtZeroOld, AtEraseRes, AtDups, AtEraseMost
<1>9. CASE com # NoPage
  <2>1. pc' = "copy" /\ cur'[1] = com' /\ cur'[2] = 1
    BY <1>2, <1>9
  <2>2. Live' = Live /\ In({pgRes})' = {} /\ From(cur[2])' = {}
    <3>1. \A x \in Named' : ~(x[2] < cur'[2]) /\ x[1] \in Page \ {pgRes'}
      BY <1>2, <1>4, <1>7, <2>1
    <3> QED
      BY <1>4, <3>1 DEF Live, In, From
  <2>3. Clean(Live)'
    BY <1>1, <1>4, <1>9, <2>2 DEF Clean
  <2>4. Work'
    <3>1. HotIn(Named)'
      BY <1>5 DEF HotIn, Cold
    <3>2. flash'[pgRes'] = Blank
      BY <1>2, <1>4
    <3> QED
      BY <1>6, <2>2, <3>1, <3>2 DEF Work, HotCopies, Blank
  <2>5. Copying'
    BY <1>2, <2>3, <2>4 DEF Copying, Replaces
  <2>6. To(In({pgRes}), From(cur[2]))'
    BY <2>2 DEF To, Clean
  <2> QED
    BY <1>5, <2>1, <2>5, <2>6
    DEF Sound, AtBoot, AtRest, AtReturn, AtMark, AtCopy, AtCopyItem, AtCopyChk, AtHeader,
        AtWrite, AtUse, AtErase, AtZeroOld, AtEraseRes, AtDups, AtEraseMost
<1> QED
  BY <1>8, <1>9

\* An item that initNV passes over is in order.
LEMMA PassedOver ==
  ASSUME PagesTyped, pc = "dups", Sound, NEW x \in Named,
         Before(x, cur) \/ (~Bad(x) /\ ~(IF findDups THEN New(x) ELSE Old(x)))
  PROVE  Checked(x)
<1>1. CASE Before(x, cur)
  <2>1. x \in Walked
    BY <1>1 DEF Walked
  <2> QED
    BY <2>1 DEF Sound, AtDups, Checked
<1>2. CASE ~Bad(x) /\ ~(IF findDups THEN New(x) ELSE Old(x))
  <2>1. Item(x).good
    BY <1>2 DEF Bad
  <2>2. CASE findDups
    <3>1. ASSUME ~Item(x).xfer, NEW y \in Named, Item(y).id = Item(x).id PROVE ~Item(y).xfer
      <4>1. Copies(Item(x).id, TRUE) = {}
        BY <1>2, <2>1, <2>2, <3>1 DEF New
      <4>2. y \in Items /\ Item(y).xfer \in BOOLEAN
        BY NamedPlaces
      <4> QED
        BY <3>1, <4>1, <4>2 DEF Copies
    <3> QED
      BY <2>1, <2>2, <3>1 DEF Checked
  <2>3. CASE ~findDups
    BY <1>2, <2>1, <2>3 DEF Old, Checked
  <2> QED
    BY <2>2, <2>3
<1> QED
  BY <1>1, <1>2

\* initNV zeroes a bad item or a copy that is out of date, or starts to look for
\* those.
LEMMA SoundInitPages ==
  ASSUME Reserve, Sound, InitPages
  PROVE  Sound'
<1> DEFINE T == {b \in Rest : Bad(b) \/ (IF findDups THEN New(b) ELSE Old(b))}
<1>1. PICK a : a = FirstOf(T)
  OBVIOUS
<1>2. /\ pc = "dups" /\ pc' = "dups" /\ hot' = hot /\ pgRes' = pgRes /\ a # NoPlace
      /\ IF Bad(a) THEN Zeroes(a)
         ELSE IF findDups THEN Zeroes(FirstOf(Copies(Item(a).id, TRUE)))
         ELSE flash' = flash
      /\ IF Old(a) /\ ~findDups THEN findDups' = TRUE /\ cur' = <<1, 1>>
         ELSE cur' = <<a[1], a[2] + 1>> /\ findDups' = findDups
  BY <1>1 DEF InitPages
<1>3. /\ PagesTyped /\ HotTyped /\ Paired(Named) /\ Marked({})
      /\ Cold \/ (pgRes # NoPage /\ Clean(Named) /\ HotIn(Named))
  BY <1>2 DEF Reserve, Sound, AtDups, Kept
<1>4. T \in SUBSET Items
  BY DEF Rest
<1>5. a \in T /\ \A b \in T : a = b \/ Before(a, b)
  <2>1. T # {}
    BY <1>1, <1>2 DEF FirstOf
  <2> HIDE DEF T
  <2> QED
    BY <1>1, <1>3, <1>4, <2>1, FirstOfIn
<1>6. a \in Named /\ (Bad(a) \/ (IF findDups THEN New(a) ELSE Old(a)))
  BY <1>5 DEF Rest, Named
<1>7. \A x \in Named : x[1] \in Nat /\ x[2] \in Nat /\ x = <<x[1], x[2]>>
  BY <1>3, NamedPlaces
<1>8. ASSUME NEW x \in Named, Before(x, a) PROVE Checked(x)
  <2>1. CASE Before(x, cur)
    BY <1>2, <1>3, <2>1, PassedOver
  <2>2. CASE ~Before(x, cur)
    <3>1. x \in Rest
      BY <2>2 DEF Rest, Named
    <3>2. a # x /\ ~Before(a, x)
      BY <1>6, <1>7, <1>8 DEF Before
    <3>3. x \notin T
      BY <1>5, <3>2
    <3> QED
      BY <1>2, <1>3, <3>1, <3>3, PassedOver
  <2> QED
    BY <2>1, <2>2
<1>9. ASSUME NEW x \in Named, Before(x, <<a[1], a[2] + 1>>) PROVE x = a \/ Before(x, a)
  BY <1>6, <1>7, <1>9 DEF Before
<1> HIDE DEF T
<1>10. HotTyped' /\ (Cold => Cold')
  BY <1>2, <1>3 DEF HotTyped, Cold
<1>11. CASE Bad(a)
  <2>1. ~Old(a) /\ ~Clean(Named)
    BY <1>6, <1>11 DEF Bad, Old, Clean
  <2>2. Zeroes(a) /\ cur' = <<a[1], a[2] + 1>> /\ findDups' = findDups
    BY <1>2, <1>11, <2>1
  <2>3. HeadersStay /\ Named' = Named \ {a} /\ \A x \in Named \ {a} : Item(x)' = Item(x)
    BY <1>3, <1>6, <2>2, FieldReplaced
  <2>4. Paired(Named)'
    BY <1>3, <2>3 DEF Paired
  <2>5. Marked({})'
    BY <1>3, <2>3 DEF Marked, HeadersStay
  <2>6. ASSUME NEW x \in Walked'
        PROVE  Checked(x)'
    <3>1. x \in Named' /\ Before(x, <<a[1], a[2] + 1>>)
      BY <2>2, <2>6 DEF Walked
    <3>2. Checked(x)
      BY <1>8, <1>9, <2>3, <3>1
    <3> QED
      BY <2>2, <2>3, <3>1, <3>2 DEF Checked
  <2> QED
    BY <1>2, <1>3, <1>10, <2>1, <2>4, <2>5, <2>6
    DEF Sound, AtBoot, AtRest, AtReturn, AtMark, AtCopy, AtCopyItem, AtCopyChk, AtHeader,
        AtWrite, AtUse, AtErase, AtZeroOld, AtEraseRes, AtDups, AtEraseMost
<1>12. CASE ~Bad(a) /\ findDups
  <2>1. PICK b : b = FirstOf(Copies(Item(a).id, TRUE))
    OBVIOUS
  <2>2. Item(a).good /\ ~Item(a).xfer /\ Copies(Item(a).id, TRUE) # {}
    BY <1>6, <1>12 DEF New
  <2>3. b \in Copies(Item(a).id, TRUE)
    <3>1. Copies(Item(a).id, TRUE) \in SUBSET Items
      BY DEF Copies
    <3> QED
      BY <1>3, <2>1, <2>2, <3>1, FirstOfIn
  <2>4. b \in Named /\ Item(b).id = Item(a).id /\ Item(b).xfer
    <3>1. b \in Items /\ Item(b).id = Item(a).id /\ Item(b).xfer
      BY <2>3 DEF Copies
    <3> QED
      BY <1>6, <3>1 DEF Named
  <2>5. b # a /\ ~Clean(Named)
    BY <1>6, <2>2, <2>4 DEF Clean
  <2>6. Zeroes(b) /\ cur' = <<a[1], a[2] + 1>> /\ findDups'
    BY <1>2, <1>12, <2>1
  <2>7. HeadersStay /\ Named' = Named \ {b} /\ \A x \in Named \ {b} : Item(x)' = Item(x)
    BY <1>3, <2>4, <2>6, FieldReplaced
  <2>8. Paired(Named)'
    BY <1>3, <2>7 DEF Paired
  <2>9. Marked({})'
    BY <1>3, <2>7 DEF Marked, HeadersStay
  \* No old copy is left: there was but one.
  <2>10. ASSUME NEW y \in Named \ {b}, Item(y).id = Item(a).id PROVE ~Item(y).xfer
    <3>1. Item(b).good /\ (Item(y).xfer => Item(y).good)
      BY <1>3, <2>4, <2>10 DEF Paired
    <3>2. Item(y).good => Item(y).xfer # Item(b).xfer
      BY <1>3, <2>4, <2>10, <3>1 DEF Paired
    <3>3. Item(y).xfer \in BOOLEAN /\ Item(b).xfer \in BOOLEAN
      BY <1>3, <2>4, <2>10, NamedPlaces
    <3> QED
      BY <2>4, <3>1, <3>2, <3>3
  <2>11. ASSUME NEW x \in Walked'
         PROVE  Checked(x)'
    <3>1. x \in Named' /\ Before(x, <<a[1], a[2] + 1>>)
      BY <2>6, <2>11 DEF Walked
    <3>2. CASE x = a
      BY <2>2, <2>5, <2>6, <2>7, <2>10, <3>1, <3>2 DEF Checked
    <3>3. CASE x # a
      <4>1. Checked(x)
        BY <1>8, <1>9, <2>7, <3>1, <3>3
      <4> QED
        BY <1>12, <2>6, <2>7, <3>1, <4>1 DEF Checked
    <3> QED
      BY <3>2, <3>3
  <2> QED
    BY <1>2, <1>3, <1>10, <2>5, <2>8, <2>9, <2>11
    DEF Sound, AtBoot, AtRest, AtReturn, AtMark, AtCopy, AtCopyItem, AtCopyChk, AtHeader,
        AtWrite, AtUse, AtErase, AtZeroOld, AtEraseRes, AtDups, AtEraseMost
<1>13. CASE ~Bad(a) /\ ~findDups
  <2>1. flash' = flash /\ cur' = <<1, 1>>
    BY <1>2, <1>6, <1>13
  <2>2. PICK S : S = Named
    OBVIOUS
  <2>3. Named' = S /\ \A x : Item(x)' = Item(x)
    BY <2>1, <2>2, FlashStays
  <2>4. Walked' = {}
    BY <1>3, <2>1, <2>2, <2>3, NoneWalked
  <2>5. Paired(Named)' /\ Marked({})' /\ (Clean(Named) => Clean(Named)')
    BY <1>3, <2>1, <2>2, <2>3 DEF Paired, Marked, Clean
  <2>6. HotIn(Named) => HotIn(Named)'
    <3> HAVE HotIn(Named)
    <3>1. HotIn(S)'
      BY <1>2, <2>2, <2>3, HotStays
    <3> QED
      BY <2>3, <3>1 DEF HotIn
  <2> QED
    BY <1>2, <1>3, <1>10, <2>4, <2>5, <2>6
    DEF Sound, Kept, AtBoot, AtRest, AtReturn, AtMark, AtCopy, AtCopyItem, AtCopyChk, AtHeader,
        AtWrite, AtUse, AtErase, AtZeroOld, AtEraseRes, AtDups, AtEraseMost
<1> QED
  BY <1>11, <1>12, <1>13

\* initNV is through with the items.
LEMMA SoundInitDone ==
  ASSUME Reserve, Sound, InitDone
  PROVE  Sound'
<1>1. PICK S : S = Named
  OBVIOUS
<1>2. /\ pc = "dups" /\ hot' = hot /\ flash' = flash
      /\ \A a \in Rest : ~Bad(a) /\ ~(IF findDups THEN New(a) ELSE Old(a))
      /\ IF pgRes # NoPage THEN pc' = "ready" ELSE pc' = "eraseMost"
  BY DEF InitDone
<1>3. /\ PagesTyped /\ HotTyped /\ Paired(S) /\ Marked({})
      /\ Cold \/ (pgRes # NoPage /\ HotIn(S))
  BY <1>1, <1>2 DEF Reserve, Sound, AtDups, Kept
<1>4. \A x \in S : Checked(x)
  <2> TAKE x \in S
  <2>1. Before(x, cur) \/ x \in Rest
    BY <1>1 DEF Rest, Named
  <2> QED
    BY <1>1, <1>2, <1>3, <2>1, PassedOver
<1>5. Clean(S)
  <2>1. ASSUME NEW x \in S, NEW y \in S, Item(x).id = Item(y).id, x # y PROVE FALSE
    <3>1. Item(x).good /\ Item(y).good
      BY <1>4 DEF Checked
    <3>2. Item(x).xfer # Item(y).xfer
      BY <1>3, <2>1, <3>1 DEF Paired
    <3>3. Item(x).xfer \in BOOLEAN /\ Item(y).xfer \in BOOLEAN
      BY <1>1, <1>3, NamedPlaces
    <3>4. ASSUME NEW u \in S, NEW w \in S, Item(u).id = Item(w).id, ~Item(u).xfer PROVE ~Item(w).xfer
      BY <1>1, <1>4, <3>4 DEF Checked
    <3> QED
      BY <2>1, <3>2, <3>3, <3>4
  <2> QED
    BY <1>4, <2>1 DEF Clean, Checked
<1>6. Named' = S /\ \A x : Item(x)' = Item(x)
  BY <1>1, <1>2, FlashStays
<1>7. Clean(Named)'
  BY <1>5, <1>6 DEF Clean
<1>8. Marked({})' /\ HotTyped' /\ (Cold => Cold')
  BY <1>2, <1>3 DEF Marked, HotTyped, Cold
<1>9. HotIn(Named)'
  <2>1. HotIn(S)
    BY <1>3 DEF Cold, HotIn
  <2>2. HotIn(S)'
    BY <1>2, <1>6, <2>1, HotStays
  <2> QED
    BY <1>6, <2>2 DEF HotIn
<1> QED
  BY <1>2, <1>3, <1>7, <1>8, <1>9
  DEF Sound, Kept, AtBoot, AtRest, AtReturn, AtMark, AtCopy, AtCopyItem, AtCopyChk, AtHeader,
      AtWrite, AtUse, AtErase, AtZeroOld, AtEraseRes, AtDups, AtEraseMost

\* Without a reserve page one is erased.
LEMMA SoundEraseMost ==
  ASSUME Reserve, Sound, EraseMost
  PROVE  Sound'
<1>1. PagesTyped /\ HotTyped /\ com \in Page /\ Cold /\ Clean(Named) /\ Marked({})
  BY DEF EraseMost, Reserve, Sound, AtEraseMost
<1>2. hot' = hot /\ pc' = "ready" /\ Writes(com, Blank)
  BY DEF EraseMost
<1>3. /\ Named' = {x \in Named : x[1] # com}
      /\ \A x \in Named' : Item(x)' = Item(x)
      /\ flash'[com] = Blank /\ \A q \in Page \ {com} : flash'[q] = flash[q]
  BY <1>1, <1>2, PageErased
<1>4. Clean(Named)'
  BY <1>1, <1>3 DEF Clean
<1>5. HotIn(Named)'
  BY <1>1, <1>2 DEF HotIn, Cold
<1>6. Marked({})' /\ HotTyped'
  BY <1>1, <1>2, <1>3 DEF Marked, Blank, HotTyped
<1> QED
  BY <1>2, <1>4, <1>5, <1>6
  DEF Sound, Kept, AtBoot, AtRest, AtReturn, AtMark, AtCopy, AtCopyItem, AtCopyChk, AtHeader,
      AtWrite, AtUse, AtErase, AtZeroOld, AtEraseRes, AtDups, AtEraseMost

-----------------------------------------------------------------------------
(* Power failures *)

\* Where one page is erased, and the others, with no two good copies of the same
\* age, are in use, a start puts things right.
LEMMA OneToReserve ==
  ASSUME PagesTyped, NEW r \in Page, NEW c \in Page \cup {NoPage},
         ~flash'[r].active, \A q \in Page \ {r} : flash'[q] = flash[q] /\ flash[q].active,
         In(Page \ {r})' = In(Page \ {r}), \A x \in In(Page \ {r}) : Item(x)' = Item(x),
         Named' \subseteq Named,
         Paired(In(Page \ {r})), Marked({c}), c \in {NoPage, r} \/ Clean(In(Page \ {r}))
  PROVE  Recoverable'
<1>1. Erased' = {r}
  BY DEF Erased
<1>2. InUse' = In(Page \ {r})
  <2>1. \A x \in Named' : x[1] \in Page
    BY NamedPlaces
  <2> QED
    BY <2>1 DEF InUse, In
<1>3. Paired(InUse)'
  <2>1. PICK S : S = In(Page \ {r})
    OBVIOUS
  <2>2. Paired(S) /\ (\A x \in S : Item(x)' = Item(x)) /\ InUse' = S
    BY <1>2, <2>1
  <2> QED
    BY <2>2 DEF Paired
<1>4. Marked({c})'
  BY DEF Marked
<1>5. Marked({})' \/ Clean(InUse)'
  <2>1. CASE c \in {NoPage, r}
    BY <1>4, <2>1 DEF Marked, Page, NoPage
  <2>2. CASE Clean(In(Page \ {r}))
    BY <1>2, <2>2 DEF Clean
  <2> QED
    BY <2>1, <2>2
<1>6. \E p \in Page : Marked({p})'
  <2>1. CASE c \in Page
    BY <1>4, <2>1
  <2>2. CASE c = NoPage
    BY <1>4, <2>2 DEF Marked, Page, NoPage
  <2> QED
    BY <2>1, <2>2
<1> QED
  BY <1>1, <1>3, <1>5, <1>6 DEF Recoverable

\* So does it where all are.
LEMMA NoneToReserve ==
  ASSUME PagesTyped, NEW c \in Page, \A q \in Page : flash'[q].active,
         Paired(Named)', Marked({c})', flash'[c].xfer => Covered(c)'
  PROVE  Recoverable'
<1>1. Erased' = {}
  BY DEF Erased
<1>2. Paired(InUse)'
  BY DEF Paired, InUse
<1> QED
  BY <1>1, <1>2 DEF Recoverable

\* What an interrupted erase leaves: nothing new, and nothing new on other pages.
LEMMA EraseInterrupted ==
  ASSUME PagesTyped, NEW c \in Page, NEW page \in EraseLeaves(flash[c]), Writes(c, page)
  PROVE  /\ flash'[c] = page /\ \A q \in Page \ {c} : flash'[q] = flash[q]
         /\ page.active => flash[c].active
         /\ page.xfer => page = flash[c] /\ Named' = Named
         /\ Named' \subseteq Named /\ \A x \in Named' : Item(x)' = Item(x)
         /\ In(Page \ {c})' = In(Page \ {c}) /\ \A x \in In(Page \ {c}) : Item(x)' = Item(x)
<1>1. flash[c] \in PageType
  BY DEF PagesTyped
<1>2. /\ page \in PageType /\ (page.items = flash[c].items \/ page.items = <<>>)
      /\ page.active => flash[c].active
      /\ page.xfer => page = flash[c]
  <2> DEFINE p1 == [flash[c] EXCEPT !.active = FALSE, !.inUse = FALSE, !.xfer = FALSE]
             p2 == [flash[c] EXCEPT !.xfer = FALSE]
  <2>1. /\ p1 \in PageType /\ p1.items = flash[c].items /\ ~p1.active /\ ~p1.xfer
        /\ p2 \in PageType /\ p2.items = flash[c].items /\ p2.active = flash[c].active /\ ~p2.xfer
    <3> HIDE DEF ItemType
    <3> QED
      BY <1>1 DEF PageType
  <2>2. page = flash[c] \/ page = Blank \/ page = p1 \/ page = p2
    BY DEF EraseLeaves
  <2> HIDE DEF p1, p2
  <2> QED
    BY <1>1, <2>1, <2>2, BlankTyped
<1>3. /\ page.items = <<>> => Named' = {x \in Named : x[1] # c} /\ \A x \in Named' : Item(x)' = Item(x)
      /\ page.items = flash[c].items => Named' = Named /\ \A x \in Items : Item(x)' = Item(x)
      /\ flash'[c] = page /\ \A q \in Page \ {c} : flash'[q] = flash[q]
  BY <1>2, PageReplaced
<1>4. \A x \in Named : x \in Items /\ x[1] \in Page
  BY NamedPlaces
<1>5. CASE page.items = <<>>
  <2>1. page.xfer => Named' = Named
    BY <1>2, <1>3, <1>5
  <2> QED
    BY <1>2, <1>3, <1>4, <1>5, <2>1 DEF In
<1>6. CASE page.items = flash[c].items
  BY <1>2, <1>3, <1>4, <1>6 DEF In
<1> QED
  BY <1>2, <1>5, <1>6

\* An interrupted erase of a page of which other pages hold all that it does.
LEMMA ErasedInPart ==
  ASSUME PagesTyped, NEW c \in Page, NEW page \in EraseLeaves(flash[c]), Writes(c, page),
         \A q \in Page \ {c} : flash[q].active,
         Paired(Named), Marked({c}), flash[c].active /\ flash[c].xfer => Covered(c)
  PROVE  Recoverable'
<1>1. /\ flash'[c] = page /\ \A q \in Page \ {c} : flash'[q] = flash[q]
      /\ page.active => flash[c].active
      /\ page.xfer => page = flash[c] /\ Named' = Named
      /\ Named' \subseteq Named /\ \A x \in Named' : Item(x)' = Item(x)
      /\ In(Page \ {c})' = In(Page \ {c}) /\ \A x \in In(Page \ {c}) : Item(x)' = Item(x)
  BY EraseInterrupted
<1>2. CASE page.active
  <2>1. Paired(Named)'
    BY <1>1 DEF Paired
  <2>2. Marked({c})'
    BY <1>1 DEF Marked
  <2>3. page.xfer => Covered(c)'
    <3> HAVE page.xfer
    <3>1. Covered(c) /\ Named' = Named
      BY <1>1, <1>2
    <3>2. In({c})' = In({c}) /\ In({c}) \subseteq Named /\ In(Page \ {c}) \subseteq Named
      BY <3>1 DEF In
    <3>3. \A x \in In({c}) : \E y \in In(Page \ {c}) : Item(y)'.id = Item(x)'.id /\ Item(y)'.good /\ ~Item(y)'.xfer
      BY <1>1, <3>1, <3>2 DEF Covered
    <3> QED
      BY <1>1, <3>2, <3>3 DEF Covered
  <2>4. \A q \in Page : flash'[q].active
    BY <1>1, <1>2
  <2> QED
    BY <1>1, <2>1, <2>2, <2>3, <2>4, NoneToReserve
<1>3. CASE ~page.active
  <2>1. Paired(In(Page \ {c}))
    BY DEF Paired, In
  <2> QED
    BY <1>1, <1>3, <2>1, OneToReserve
<1> QED
  BY <1>2, <1>3

\* What is known before a write is enough to resume from when the power fails.
LEMMA SoundCrash ==
  ASSUME Reserve, Sound, Crash
  PROVE  Sound'
<1>1. /\ PagesTyped /\ pc # "boot" /\ pc' = "boot"
      /\ hot' = [id \in hotIds |-> NoPlace]
      /\ IF UnderErase = {} THEN flash' = flash
         ELSE \E p \in UnderErase : \E page \in EraseLeaves(flash[p]) : flash' = [flash EXCEPT ![p] = page]
  BY DEF Crash, Reserve
<1>2. Cold' /\ HotTyped'
  BY <1>1 DEF Cold, HotTyped
<1>3. NoPage \notin Page /\ 1 \in Page
  BY PagesAssumption DEF Page, NoPage
<1>4. CASE UnderErase = {}
  <2>1. flash' = flash
    BY <1>1, <1>4
  <2>2. Named' = Named /\ \A x : Item(x)' = Item(x)
    BY <2>1, FlashStays
  <2>3. pc \notin {"boot", "erase", "eraseMost", "eraseRes"}
    BY <1>1, <1>4 DEF UnderErase
  <2>4. ASSUME NEW c \in Page \cup {NoPage}, Filled, ~flash[pgRes].active, Paired(Live), Marked({c}),
               c = NoPage \/ Clean(Live)
        PROVE  Recoverable'
    <3>1. PICK r : r = pgRes
      OBVIOUS
    <3>2. Live = In(Page \ {r}) /\ r \in Page
      BY <2>4, <3>1 DEF Live, Filled
    <3>3. In(Page \ {r})' = In(Page \ {r})
      BY <2>2 DEF In
    <3> QED
      BY <1>1, <2>1, <2>2, <2>4, <3>1, <3>2, <3>3, OneToReserve DEF Filled
  <2>5. Live \subseteq Named
    BY DEF Live, In
  <2>6. ASSUME pc \in {"ready", "return", "markPage", "zeroOld"} PROVE Recoverable'
    <3>1. Reserved /\ Marked({}) /\ Paired(Named)
      BY <2>6 DEF Reserve, Sound, AtRest, AtMark, AtZeroOld, Kept, Clean, Paired
    <3>2. Filled /\ ~flash[pgRes].active /\ Paired(Live) /\ Marked({NoPage})
      BY <2>5, <3>1 DEF Reserved, Blank, Paired, Marked
    <3> QED
      BY <2>4, <3>2
  <2>7. ASSUME pc \in {"copy", "copyItem", "copyChk", "header", "use"} PROVE Recoverable'
    <3>1. /\ Filled /\ ~flash[pgRes].active /\ Clean(Live) /\ Marked({com})
          /\ com \in Page \cup {NoPage}
      BY <2>7 DEF Reserve, Sound, AtCopy, AtCopyItem, AtCopyChk, AtHeader, AtUse, Copying, Work,
                  Compacting, Reserved
    <3>2. Paired(Live)
      BY <3>1 DEF Clean, Paired
    <3> QED
      BY <2>4, <3>1, <3>2
  <2>8. ASSUME pc \in {"markOld", "data", "chk"} PROVE Recoverable'
    <3>1. PICK n : n = LastPlace(dst)
      OBVIOUS
    <3>2. /\ Work /\ n \in Named /\ n[1] = dst /\ ~Item(n).good /\ ~Item(n).xfer /\ Clean(Live \ {n})
      BY <2>8, <3>1, NewItem
    <3>3. /\ Filled /\ com \in Page \cup {NoPage} /\ (com # NoPage => dst = pgRes)
      BY <2>8 DEF Reserve, Reserved, Compacting
    <3>4. ~flash[pgRes].active /\ Marked({com})
      BY <3>2 DEF Work
    <3>5. Paired(Live)
      BY <3>2 DEF Clean, Paired
    <3>6. com = NoPage \/ Clean(Live)
      <4> SUFFICES ASSUME com # NoPage PROVE Clean(Live)
        OBVIOUS
      <4>1. n \notin Live
        BY <3>2, <3>3 DEF Live, In
      <4> QED
        BY <3>2, <4>1 DEF Clean
    <3> QED
      BY <2>4, <3>3, <3>4, <3>5, <3>6
  <2>9. ASSUME pc = "dups" PROVE Recoverable'
    <3>1. Paired(Named) /\ Marked({}) /\ IF pgRes = NoPage THEN \A p \in Page : flash[p].active ELSE Reserved
      BY <2>9 DEF Reserve, Sound, AtDups
    <3>2. CASE pgRes = NoPage
      <4>1. Paired(Named)' /\ \A q \in Page : flash'[q].active
        BY <2>1, <2>2, <3>1, <3>2 DEF Paired
      <4>2. Marked({1})' /\ ~flash'[1].xfer
        BY <1>3, <2>1, <3>1, <3>2 DEF Marked
      <4> QED
        BY <1>1, <1>3, <4>1, <4>2, NoneToReserve
    <3>3. CASE pgRes # NoPage
      <4>1. Filled /\ ~flash[pgRes].active /\ Paired(Live) /\ Marked({NoPage})
        BY <2>5, <3>1, <3>3 DEF Reserved, Blank, Paired, Marked
      <4> QED
        BY <2>4, <4>1
    <3> QED
      BY <3>2, <3>3
  <2>10. Recoverable'
    BY <2>3, <2>6, <2>7, <2>8, <2>9 DEF Reserve
  <2> QED
    BY <1>1, <1>2, <2>10
    DEF Sound, AtBoot, AtRest, AtReturn, AtMark, AtCopy, AtCopyItem, AtCopyChk, AtHeader,
        AtWrite, AtUse, AtErase, AtZeroOld, AtEraseRes, AtDups, AtEraseMost
<1>5. CASE UnderErase # {}
  <2>1. PICK c, page : c \in UnderErase /\ page \in EraseLeaves(flash[c]) /\ Writes(c, page)
    BY <1>1, <1>5 DEF Writes
  <2>2. ASSUME pc \in {"erase", "eraseMost"} PROVE Recoverable'
    <3>1. c = com /\ c \in Page /\ \A q \in Page \ {c} : flash[q].active
      BY <2>1, <2>2 DEF UnderErase, Reserve
    <3>2. Paired(Named) /\ Marked({c}) /\ (flash[c].active /\ flash[c].xfer => Covered(c))
      <4>1. CASE pc = "erase"
        BY <3>1, <4>1 DEF Sound, AtErase
      <4>2. CASE pc = "eraseMost"
        BY <3>1, <4>2 DEF Sound, AtEraseMost, Marked, Clean, Paired
      <4> QED
        BY <2>2, <4>1, <4>2
    <3> QED
      BY <1>1, <2>1, <3>1, <3>2, ErasedInPart
  <2>3. ASSUME pc = "eraseRes" PROVE Recoverable'
    <3>1. c = pgRes /\ c \in Page /\ \A q \in Page \ {c} : flash[q].active
      BY <2>1, <2>3 DEF UnderErase, Reserve, Filled
    <3>2. /\ ~flash[c].active /\ Paired(Live) /\ Marked({com}) /\ (com = NoPage \/ Clean(Live))
          /\ com \in Page \cup {NoPage} /\ Live = In(Page \ {c})
      BY <2>3, <3>1 DEF Reserve, Compacting, Sound, AtEraseRes, Live
    <3>3. /\ flash'[c] = page /\ \A q \in Page \ {c} : flash'[q] = flash[q]
          /\ ~page.active /\ Named' \subseteq Named
          /\ In(Page \ {c})' = In(Page \ {c}) /\ \A x \in In(Page \ {c}) : Item(x)' = Item(x)
      BY <1>1, <2>1, <3>1, <3>2, EraseInterrupted
    <3> QED
      BY <1>1, <3>1, <3>2, <3>3, OneToReserve
  <2>4. Recoverable'
    BY <1>5, <2>2, <2>3 DEF UnderErase
  <2> QED
    BY <1>1, <1>2, <2>4
    DEF Sound, AtBoot, AtRest, AtReturn, AtMark, AtCopy, AtCopyItem, AtCopyChk, AtHeader,
        AtWrite, AtUse, AtErase, AtZeroOld, AtEraseRes, AtDups, AtEraseMost
<1> QED
  BY <1>4, <1>5

-----------------------------------------------------------------------------

\* The hot items that osal_nv_item_init was called for have a place, and so has
\* a new one once initItem has set its checksum.
Placing == pc \in {"use", "erase", "zeroOld", "return"} /\ call.kind = "init" /\ call.id \in hotIds
Placed ==
  /\ inited \subseteq hotIds
  /\ \A id \in inited : hot[id] # NoPlace
  /\ Placing => hot[call.id] # NoPlace

\* What initNV and the calls leave is what is read.
LEMMA SoundReads == Reserve /\ Sound /\ Placed => ReadsStored
<1> SUFFICES ASSUME Reserve, Sound, Placed, pc = "ready", NEW id \in Id, id \in hotIds => id \in inited
             PROVE  Read(id) = Stored(id)
  BY DEF ReadsStored
<1>10. id \in hotIds => hot[id] # NoPlace
  BY DEF Placed
<1>1. PagesTyped /\ Reserved /\ Clean(Named) /\ HotIn(Named)
  BY DEF Reserve, Sound, AtRest, Kept
<1>2. \A x \in Named : flash[x[1]].active /\ x \in Items /\ x # NoPlace /\ Item(x).xfer \in BOOLEAN
                       /\ x[2] \in DOMAIN flash[x[1]].items /\ Item(x).good
  <2>1. \A x \in Named : x[1] \in Page /\ x[1] # pgRes
    BY <1>1, NamedPlaces DEF Reserved, Filled
  <2>2. \A x \in Named : x \in Items /\ x # NoPlace /\ Item(x).xfer \in BOOLEAN
    BY <1>1, NamedPlaces
  <2>3. \A x \in Items : x[2] \in DOMAIN flash[x[1]].items
    BY <1>1, PlacesOfItems
  <2> QED
    BY <1>1, <2>1, <2>2, <2>3 DEF Reserved, Filled, Clean
<1>3. \A x \in Items : Item(x).id = id => x \in Named
  BY IdAssumption DEF Named
<1> DEFINE good == {a \in Items : Item(a).id = id /\ Item(a).good /\ flash[a[1]].active}
           new == {a \in good : ~Item(a).xfer}
<1>4. Stored(id) = IF good = {} THEN NoValue ELSE Item(FirstOf(IF new # {} THEN new ELSE good)).val
  BY DEF Stored
<1>5. good = {x \in Named : Item(x).id = id}
  BY <1>2, <1>3
<1>6. findItem(id) # NoPlace => findItem(id) \in Named /\ Item(findItem(id)).id = id
  BY <1>1, FoundNamed
<1>7. findItem(id) = NoPlace => \A x \in Named : Item(x).id # id
  BY <1>1, FoundNamed
<1>8. CASE good = {}
  <2>1. findItem(id) = NoPlace
    BY <1>5, <1>6, <1>8
  <2>2. id \notin hotIds
    BY <1>1, <1>5, <1>8, <1>10 DEF HotIn
  <2>3. NoPlace \notin Items
    <3>1. \A x \in Items : x[1] # 0
      BY <1>1, PlacesOfItems, PagesAssumption DEF Page
    <3> QED
      BY <3>1 DEF NoPlace
  <2> QED
    BY <1>4, <1>8, <2>1, <2>2, <2>3 DEF Read
<1>9. CASE good # {}
  <2>1. PICK x \in Named : Item(x).id = id /\ good = {x}
    BY <1>1, <1>5, <1>9 DEF Clean
  <2>2. ASSUME NEW S \in SUBSET {x}, S # {} PROVE FirstOf(S) = x
    <3>1. S \in SUBSET Items
      BY <1>2
    <3> QED
      BY <1>1, <2>2, <3>1, FirstOfIn
  <2>3. Stored(id) = Item(x).val
    <3>1. new \in SUBSET {x}
      BY <2>1
    <3> HIDE DEF good, new
    <3> QED
      BY <1>4, <2>1, <2>2, <3>1
  <2>4. findItem(id) = x
    BY <1>5, <1>6, <1>7, <2>1
  <2>5. id \in hotIds => hot[id] = x
    BY <1>1, <1>5, <1>10, <2>1 DEF HotIn
  <2> QED
    BY <1>2, <2>3, <2>4, <2>5 DEF Read
<1> QED
  BY <1>8, <1>9

-----------------------------------------------------------------------------

\* A flash that was never written holds nothing.
LEMMA SoundInit == Init => Sound
<1> SUFFICES ASSUME Init PROVE Sound
  OBVIOUS
<1>1. pc = "boot" /\ hot = [id \in hotIds |-> NoPlace] /\ \A p \in Page : flash[p] = Blank
  BY DEF Init
<1>2. PagesTyped
  BY BlankTyped DEF Init, PagesTyped
<1>3. Named = {}
  <2>1. \A x \in Named : x[1] \in Page /\ x[1] # x[1]
    BY <1>1, <1>2, NamedPlaces
  <2> QED
    BY <2>1
<1>4. Virgin /\ Cold /\ HotTyped
  BY <1>1, <1>3, BlankTyped DEF Virgin, Cold, HotTyped
<1> QED
  BY <1>1, <1>4
  DEF Sound, AtBoot, AtRest, AtReturn, AtMark, AtCopy, AtCopyItem, AtCopyChk, AtHeader,
      AtWrite, AtUse, AtErase, AtZeroOld, AtEraseRes, AtDups, AtEraseMost

\* Nothing happens to the memory.
LEMMA SoundStutter == Sound /\ UNCHANGED vars => Sound'
<1> SUFFICES ASSUME Sound, UNCHANGED vars PROVE Sound'
  OBVIOUS
<1>1. /\ flash' = flash /\ pgRes' = pgRes /\ hot' = hot /\ pc' = pc /\ call' = call
      /\ dst' = dst /\ src' = src /\ com' = com /\ cur' = cur /\ findDups' = findDups
  BY DEF vars, ram
<1>2. Named' = Named /\ (\A x : Item(x)' = Item(x)) /\ (\A p : LastPlace(p)' = LastPlace(p))
  BY <1>1, FlashStays
<1>3. Item(cur)' = Item(cur) /\ Item(src)' = Item(src)
  BY <1>1 DEF Item
<1>4. /\ LastPlace(pgRes)' = LastPlace(pgRes) /\ LastPlace(dst)' = LastPlace(dst)
      /\ Item(LastPlace(pgRes))' = Item(LastPlace(pgRes)) /\ Item(LastPlace(dst))' = Item(LastPlace(dst))
  BY <1>1 DEF LastPlace, Item
<1>5. /\ Live' = Live /\ InUse' = InUse /\ Erased' = Erased /\ In({com})' = In({com})
      /\ In({pgRes})' = In({pgRes}) /\ In(Page \ {com})' = In(Page \ {com})
      /\ \A P : In(P)' = In(P)
  BY <1>1, <1>2 DEF Live, In, InUse, Erased
<1>6. \A x : /\ Other(x)' <=> Other(x)
             /\ Written(x)' <=> Written(x)
  BY <1>1, <1>2 DEF Other, Written
<1>7. FromAll' = FromAll /\ From(cur[2])' = From(cur[2])
  BY <1>1, <1>5, <1>6 DEF FromAll, From
<1>8. \A S : /\ Clean(S)' <=> Clean(S)
             /\ Paired(S)' <=> Paired(S)
             /\ Replaces(S)' <=> Replaces(S)
             /\ HotIn(S) => HotIn(S)'
  <2> TAKE S
  <2>1. HotIn(S) => HotIn(S)'
    BY <1>1, <1>2, HotStays
  <2>2. Clean(S)' <=> Clean(S)
    BY <1>2 DEF Clean
  <2>3. Paired(S)' <=> Paired(S)
    BY <1>2 DEF Paired
  <2>4. Replaces(S)' <=> Replaces(S)
    BY <1>1, <1>2, <1>3 DEF Replaces
  <2> QED
    BY <2>1, <2>2, <2>3, <2>4
<1>9. \A S, D : To(S, D) => To(S, D)'
  BY <1>2, ToStays
<1>10. \A P : Marked(P)' <=> Marked(P)
  BY <1>1 DEF Marked
<1>11. \A p : Covered(p) => Covered(p)'
  BY <1>2, <1>5 DEF Covered
<1>12. Cold => Cold'
  BY <1>1 DEF Cold
<1>13. Work => Work'
  <2> HAVE Work
  <2>1. HotIn(Named)'
    BY <1>1, <1>2, WorkStays DEF Work, HotIn
  <2> QED
    BY <1>1, <1>2, <1>5, <2>1 DEF Work, HotCopies, Marked
<1>14. HotTyped'
  BY <1>1 DEF Sound, HotTyped
<1>15. /\ Clean(Named) => Clean(Named)'
       /\ Clean(Live) => Clean(Live)'
       /\ Clean(InUse) => Clean(InUse)'
       /\ Clean(Live \ {LastPlace(dst)}) => Clean(Live \ {LastPlace(dst)})'
  BY <1>2, <1>4, <1>5, <1>8
<1>16. /\ Paired(Named) => Paired(Named)'
       /\ Paired(Live) => Paired(Live)'
       /\ Paired(InUse) => Paired(InUse)'
  BY <1>2, <1>5, <1>8
<1>17. /\ Replaces(Named) => Replaces(Named)'
       /\ Replaces(Live) => Replaces(Live)'
       /\ Replaces(Live \ {LastPlace(dst)}) => Replaces(Live \ {LastPlace(dst)})'
  BY <1>2, <1>4, <1>5, <1>8
<1>18. Outdated' <=> Outdated
  BY <1>1 DEF Outdated
<1> DEFINE Others == In(Page \ {com}) \ (IF Outdated THEN {src} ELSE {})
<1>19. Others' = Others
  BY <1>1, <1>5, <1>18
<1>20. /\ Kept(Named) => Kept(Named)'
       /\ Kept(In(Page \ {com})) => Kept(In(Page \ {com}))'
       /\ Kept(Named \ {src}) => Kept(Named \ {src})'
       /\ Kept(Others) => Kept(Others)'
  <2> HIDE DEF Others
  <2>1. \A S : Kept(S) => Kept(S)'
    BY <1>8 DEF Kept
  <2> QED
    BY <1>1, <1>2, <1>5, <1>19, <2>1
<1>21. /\ To(In({pgRes}), From(cur[2])) => To(In({pgRes}), From(cur[2]))'
       /\ To(In({pgRes}), FromAll) => To(In({pgRes}), FromAll)'
       /\ To(In({pgRes}) \ {LastPlace(pgRes)}, From(cur[2])) => To(In({pgRes}) \ {LastPlace(pgRes)}, From(cur[2]))'
       /\ To(In({pgRes}) \ {LastPlace(pgRes)}, FromAll) => To(In({pgRes}) \ {LastPlace(pgRes)}, FromAll)'
       /\ To(In({pgRes}) \ {LastPlace(dst)}, FromAll) => To(In({pgRes}) \ {LastPlace(dst)}, FromAll)'
  <2>1. In({pgRes})' = In({pgRes})
    BY <1>5
  <2>2. (In({pgRes}) \ {LastPlace(pgRes)})' = In({pgRes}) \ {LastPlace(pgRes)}
    BY <1>4, <1>5
  <2>3. (In({pgRes}) \ {LastPlace(dst)})' = In({pgRes}) \ {LastPlace(dst)}
    BY <1>4, <1>5
  <2>4. To(In({pgRes}), From(cur[2])) => To(In({pgRes}), From(cur[2]))'
    BY <1>7, <1>9, <2>1
  <2>5. To(In({pgRes}), FromAll) => To(In({pgRes}), FromAll)'
    BY <1>7, <1>9, <2>1
  <2>6. To(In({pgRes}) \ {LastPlace(pgRes)}, From(cur[2])) => To(In({pgRes}) \ {LastPlace(pgRes)}, From(cur[2]))'
    BY <1>7, <1>9, <2>2
  <2>7. To(In({pgRes}) \ {LastPlace(pgRes)}, FromAll) => To(In({pgRes}) \ {LastPlace(pgRes)}, FromAll)'
    BY <1>7, <1>9, <2>2
  <2>8. To(In({pgRes}) \ {LastPlace(dst)}, FromAll) => To(In({pgRes}) \ {LastPlace(dst)}, FromAll)'
    BY <1>7, <1>9, <2>3
  <2> QED
    BY <2>4, <2>5, <2>6, <2>7, <2>8
<1>22. /\ Marked({}) => Marked({})'
       /\ Marked({com}) => Marked({com})'
       /\ Covered(com) => Covered(com)'
  BY <1>1, <1>10, <1>11
<1>23. Copying => Copying'
  BY <1>13, <1>15, <1>17 DEF Copying
<1>24. /\ Copied(cur) => Copied(cur)'
       /\ Fresh(pgRes) => Fresh(pgRes)'
       /\ Fresh(dst) => Fresh(dst)'
       /\ Written(LastPlace(pgRes)) => Written(LastPlace(pgRes))'
  BY <1>1, <1>2, <1>3, <1>4, <1>5 DEF Copied, Other, Fresh, Written
<1>25. AtBoot'
  <2>1. Virgin => Virgin'
    BY <1>1, <1>2 DEF Virgin
  <2>2. Recoverable => Recoverable'
    BY <1>1, <1>2, <1>5, <1>10, <1>11, <1>15, <1>16 DEF Recoverable
  <2> QED
    BY <1>1, <1>12, <2>1, <2>2 DEF Sound, AtBoot
<1>26. AtRest' /\ AtReturn' /\ AtMark'
  BY <1>1, <1>2, <1>6, <1>17, <1>20, <1>22 DEF Sound, AtRest, AtReturn, AtMark, Written
<1>27. AtCopy' /\ AtCopyItem' /\ AtCopyChk' /\ AtHeader'
  BY <1>1, <1>3, <1>4, <1>21, <1>23, <1>24 DEF Sound, AtCopy, AtCopyItem, AtCopyChk, AtHeader
<1>28. AtWrite'
  <2>1. Item(LastPlace(dst))' = Item(LastPlace(dst)) /\ Item(src)' = Item(src)
    BY <1>3, <1>4
  <2> QED
    BY <1>1, <1>13, <1>15, <1>17, <1>21, <1>24, <2>1 DEF Sound, AtWrite
<1>29. AtUse'
  BY <1>1, <1>2, <1>3, <1>4, <1>21, <1>23, <1>24 DEF Sound, AtUse
<1>30. AtErase'
  BY <1>1, <1>2, <1>5, <1>12, <1>16, <1>18, <1>20, <1>22 DEF Sound, AtErase, Written
<1>31. AtZeroOld' /\ AtEraseRes' /\ AtEraseMost'
  BY <1>1, <1>2, <1>12, <1>15, <1>16, <1>20, <1>22 DEF Sound, AtZeroOld, AtEraseRes, AtEraseMost, Written
<1>32. AtDups'
  <2>1. Walked' = Walked
    BY <1>1, <1>2 DEF Walked, Before
  <2>2. \A x : Checked(x) => Checked(x)'
    BY <1>1, <1>2 DEF Checked
  <2>3. ASSUME \A x \in Walked : Checked(x) PROVE (\A x \in Walked : Checked(x))'
    BY <2>1, <2>2, <2>3
  <2> QED
    BY <1>1, <1>12, <1>16, <1>20, <1>22, <2>3 DEF Sound, AtDups
<1> QED
  BY <1>14, <1>25, <1>26, <1>27, <1>28, <1>29, <1>30, <1>31, <1>32 DEF Sound

\* So it is, whatever the calls and the power failures.
LEMMA SoundInvariant == Spec => []Sound
<1>1. Init => Sound
  BY SoundInit
<1>2. Reserve /\ Sound /\ [Next]_vars => Sound'
  <2> SUFFICES ASSUME Reserve, Sound, [Next]_vars PROVE Sound'
    OBVIOUS
  <2>1. ASSUME NEW id \in Id, NEW val \in Value, Begin("init", id, val) \/ Begin("write", id, val)
        PROVE  Sound'
    BY <2>1, SoundBegin
  <2>2. ASSUME NEW id \in hotIds, ItemInitHot(id) PROVE Sound'
    BY <2>2, SoundItemInitHot
  <2>3. ASSUME NEW id \in Id \ hotIds, osal_nv_delete(id) PROVE Sound'
    BY <2>3, SoundDelete
  <2>4. CASE Writing
    BY <2>4, SoundMarkPage, SoundCopyMark, SoundCopyItem, SoundCopyChk, SoundWriteHeader, SoundMarkOld,
       SoundWriteData, SoundSetChk, SoundPageUse, SoundErasePage, SoundZeroOld, SoundReturn
    DEF Writing
  <2>5. CASE initNV
    BY <2>5, SoundBootUse, SoundBootScan, SoundEraseRes, SoundInitPages, SoundInitDone, SoundEraseMost
    DEF initNV
  <2>6. CASE Crash
    BY <2>6, SoundCrash
  <2>7. CASE UNCHANGED vars
    BY <2>7, SoundStutter
  <2> QED
    BY <2>1, <2>2, <2>3, <2>4, <2>5, <2>6, <2>7 DEF Next
<1> QED
  BY <1>1, <1>2, ReserveInvariant, PTL DEF Spec

\* Where hotItemUpdate writes a place, items that have one keep having one.
LEMMA PlaceFollows ==
  ASSUME HotTyped, NEW p \in Page, hotItemUpdate(LastPlace(p))
  PROVE  /\ \A id \in hotIds : hot[id] # NoPlace => hot'[id] # NoPlace
         /\ Item(LastPlace(p)).id \in hotIds => hot'[Item(LastPlace(p)).id] # NoPlace
<1>1. LastPlace(p) # NoPlace
  <2>1. LastPlace(p)[1] = p /\ NoPlace[1] = 0 /\ p # 0
    BY PagesAssumption DEF LastPlace, NoPlace, Page
  <2> QED
    BY <2>1
<1> DEFINE a == LastPlace(p)
<1> HIDE DEF a
<1>2. hot' = IF Item(a).id \in hotIds THEN [hot EXCEPT ![Item(a).id] = a] ELSE hot
  BY DEF hotItemUpdate, a
<1>3. a # NoPlace /\ DOMAIN hot = hotIds
  BY <1>1 DEF a, HotTyped
<1>4. /\ \A id \in hotIds : hot[id] # NoPlace => hot'[id] # NoPlace
      /\ Item(a).id \in hotIds => hot'[Item(a).id] # NoPlace
  BY <1>2, <1>3
<1> QED
  BY <1>4 DEF a

\* No place is lost, but all of them with the power.
LEMMA PlacedKept == Reserve /\ Sound /\ Placed /\ [Next]_vars => Placed'
<1> SUFFICES ASSUME Reserve, Sound, Placed, [Next]_vars PROVE Placed'
  OBVIOUS
<1>1. HotTyped
  BY DEF Sound
<1>2. ASSUME NEW kind \in {"init", "write"}, NEW id \in Id, NEW val \in Value, Begin(kind, id, val)
      PROVE  Placed'
  BY <1>2 DEF Begin, Placed, Placing
<1>3. ASSUME NEW id \in hotIds, ItemInitHot(id) PROVE Placed'
  <2>1. /\ hot' = [hot EXCEPT ![id] = findItem(id)] /\ findItem(id) # NoPlace
        /\ inited' = inited \cup {id} /\ pc' = "ready"
    BY <1>3 DEF ItemInitHot
  <2>2. \A i \in hotIds : hot'[i] = IF i = id THEN findItem(id) ELSE hot[i]
    BY <1>1, <2>1 DEF HotTyped
  <2> QED
    BY <2>1, <2>2 DEF Placed, Placing
<1>4. ASSUME NEW id \in Id \ hotIds, osal_nv_delete(id) PROVE Placed'
  <2>1. call'.kind = "delete" /\ hot' = hot /\ inited' = inited
    BY <1>4 DEF osal_nv_delete
  <2> QED
    BY <2>1 DEF Placed, Placing
<1>5. CASE CopyMark
  <2>1. hot' = hot /\ inited' = inited /\ call' = call /\ (pc' = "use" => call = NoCall)
        /\ pc' \in {"copyItem", "header", "use"}
    BY <1>5 DEF CopyMark
  <2> QED
    BY <2>1 DEF Placed, Placing, NoCall
<1>6. CASE CopyChk
  <2>1. pgRes \in Page
    BY <1>6 DEF CopyChk, Reserve, Compacting, Filled
  <2>2. \A id \in hotIds : hot[id] # NoPlace => hot'[id] # NoPlace
    BY <1>1, <1>6, <2>1, PlaceFollows DEF CopyChk
  <2>3. inited' = inited /\ pc' = "copy"
    BY <1>6 DEF CopyChk
  <2> QED
    BY <2>2, <2>3 DEF Placed, Placing
<1>7. CASE SetChk
  <2>1. dst \in Page /\ Item(LastPlace(dst)).id = call.id
    <3>1. pc = "chk"
      BY <1>7 DEF SetChk
    <3>2. dst \in Page
      BY <3>1 DEF Reserve, Compacting, Filled
    <3>3. Item(LastPlace(dst)).id = call.id
      BY <3>1 DEF Sound, AtWrite
    <3> QED
      BY <3>2, <3>3
  <2>2. /\ \A id \in hotIds : hot[id] # NoPlace => hot'[id] # NoPlace
        /\ call.id \in hotIds => hot'[call.id] # NoPlace
    <3>1. hotItemUpdate(LastPlace(dst))
      BY <1>7 DEF SetChk
    <3> QED
      BY <1>1, <2>1, <3>1, PlaceFollows
  <2>3. inited' = inited /\ call' = call
    BY <1>7 DEF SetChk
  <2> QED
    BY <2>2, <2>3 DEF Placed, Placing
<1>8. CASE MarkPage \/ CopyItem \/ WriteHeader \/ MarkOld \/ WriteData
  BY <1>8 DEF MarkPage, CopyItem, WriteHeader, MarkOld, WriteData, Placed, Placing
<1>9. CASE PageUse \/ ErasePage \/ ZeroOld
  <2>1. hot' = hot /\ inited' = inited /\ call' = call /\ pc \in {"use", "erase", "zeroOld"}
    BY <1>9 DEF PageUse, ErasePage, ZeroOld
  <2> QED
    BY <2>1 DEF Placed, Placing
<1>10. CASE Return
  <2>1. /\ hot' = hot /\ pc = "return" /\ pc' = "ready"
        /\ inited' = IF call.kind = "init" THEN inited \cup ({call.id} \cap hotIds) ELSE inited
    BY <1>10 DEF Return
  <2> QED
    BY <2>1 DEF Placed, Placing
<1>11. CASE BootScan
  <2>1. hot' = hot /\ inited' = inited /\ call' = NoCall
    BY <1>11 DEF BootScan, Reserve
  <2> QED
    BY <2>1 DEF Placed, Placing, NoCall
<1>12. CASE BootUse \/ EraseRes \/ InitPages \/ InitDone \/ EraseMost \/ UNCHANGED vars
  <2>1. /\ hot' = hot /\ inited' = inited /\ call' = call
        /\ pc' = pc \/ pc' \in {"copy", "dups", "ready", "eraseMost"}
    BY <1>12 DEF BootUse, EraseRes, InitPages, InitDone, EraseMost, vars, ram
  <2> QED
    BY <2>1 DEF Placed, Placing
<1>13. CASE Crash
  BY <1>13 DEF Crash, Placed, Placing
<1> QED
  BY <1>2, <1>3, <1>4, <1>5, <1>6, <1>7, <1>8, <1>9, <1>10, <1>11, <1>12, <1>13 DEF Next, Writing, initNV

\* So every hot item that osal_nv_item_init was called for has its place.
LEMMA PlacedInvariant == Spec => []Placed
<1>1. Init => Placed
  BY DEF Init, Placed, Placing
<1> QED
  BY <1>1, PlacedKept, SoundInvariant, ReserveInvariant, PTL DEF Spec

\* When the memory is ready, what osal_nv_read returns is what a start would
\* find: of hot items without a look at the pages (hotItemUpdate), once
\* osal_nv_item_init was called for them since power-up, of others by findItem.
THEOREM ReadsAreStored == Spec => []ReadsStored
BY SoundReads, PlacedInvariant, SoundInvariant, ReserveInvariant, PTL

-----------------------------------------------------------------------------
(* Sums of sizes *)

\* A set that holds 0, and n where it holds n - 1, holds every number up to m.
LEMMA CountedUp ==
  ASSUME NEW m \in Nat, NEW S, 0 \in S, \A n \in 1 .. m : n - 1 \in S => n \in S
  PROVE  \A n \in 0 .. m : n \in S
<1> DEFINE T == {n \in 0 .. m : n \notin S}
<1> SUFFICES ASSUME T # {} PROVE FALSE
  OBVIOUS
<1>1. PICK n \in T : \A k \in T : n <= k
  <2>1. T \in SUBSET Nat
    OBVIOUS
  <2> HIDE DEF T
  <2> QED
    BY <2>1, LeastOf
<1>2. n \in 1 .. m /\ n - 1 \in 0 .. m /\ ~(n <= n - 1)
  BY <1>1
<1>3. n - 1 \in S
  BY <1>1, <1>2
<1> QED
  BY <1>1, <1>2, <1>3

\* Sums are added number by number.
LEMMA TotalAdds ==
  ASSUME NEW f \in Seq(Nat), NEW g \in Seq(Nat), NEW h \in Seq(Nat), Len(g) = Len(f), Len(h) = Len(f),
         \A i \in 1 .. Len(f) : h[i] = f[i] + g[i]
  PROVE  Total(h) = Total(f) + Total(g)
<1>1. PICK r \in [0 .. Len(f) -> Nat] : /\ r[0] = 0
                                        /\ \A n \in 1 .. Len(f) : r[n] = r[n - 1] + f[n]
                                        /\ Total(f) = r[Len(f)]
  BY TotalIsSum
<1>2. PICK s \in [0 .. Len(g) -> Nat] : /\ s[0] = 0
                                        /\ \A n \in 1 .. Len(g) : s[n] = s[n - 1] + g[n]
                                        /\ Total(g) = s[Len(g)]
  BY TotalIsSum
<1>3. PICK t \in [0 .. Len(h) -> Nat] : /\ t[0] = 0
                                        /\ \A n \in 1 .. Len(h) : t[n] = t[n - 1] + h[n]
                                        /\ Total(h) = t[Len(h)]
  BY TotalIsSum
<1>4. Len(f) \in Nat /\ \A n \in 1 .. Len(f) : f[n] \in Nat /\ g[n] \in Nat
  BY LenProperties
<1> DEFINE S == {n \in 0 .. Len(f) : t[n] = r[n] + s[n]}
<1>5. 0 \in S
  BY <1>1, <1>2, <1>3, <1>4
<1>6. \A n \in 1 .. Len(f) : n - 1 \in S => n \in S
  <2> TAKE n \in 1 .. Len(f)
  <2>1. n \in 0 .. Len(f) /\ n - 1 \in 0 .. Len(f)
    BY <1>4
  <2>4. n \in 1 .. Len(g) /\ n \in 1 .. Len(h) /\ h[n] = f[n] + g[n]
    OBVIOUS
  <2>2. r[n] = r[n - 1] + f[n] /\ s[n] = s[n - 1] + g[n] /\ t[n] = t[n - 1] + (f[n] + g[n])
    BY <1>1, <1>2, <1>3, <2>4
  <2>3. r[n - 1] \in Nat /\ s[n - 1] \in Nat /\ t[n - 1] \in Nat
    BY <2>1
  <2>5. f[n] \in Nat /\ g[n] \in Nat
    BY <1>4
  <2> HAVE n - 1 \in S
  <2>6. t[n - 1] = r[n - 1] + s[n - 1]
    OBVIOUS
  <2>7. t[n] = r[n] + s[n]
    <3>1. PICK v \in Nat, w \in Nat, x \in Nat, y \in Nat : v = r[n - 1] /\ w = s[n - 1] /\ x = f[n] /\ y = g[n]
      BY <2>3, <2>5
    <3>2. t[n] = (v + w) + (x + y) /\ r[n] = v + x /\ s[n] = w + y
      BY <2>2, <2>6, <3>1
    <3> QED
      BY <3>2
  <2> QED
    BY <2>1, <2>7
<1>7. Len(f) \in S
  <2>1. Len(f) \in 0 .. Len(f)
    BY <1>4
  <2> HIDE DEF S
  <2>2. \A n \in 0 .. Len(f) : n \in S
    BY <1>4, <1>5, <1>6, CountedUp
  <2> QED
    BY <2>1, <2>2
<1> QED
  BY <1>1, <1>2, <1>3, <1>7

\* A sum of zeros and one number is that number.
LEMMA TotalOfOne ==
  ASSUME NEW f \in Seq(Nat), NEW k \in 1 .. Len(f), \A i \in 1 .. Len(f) : i # k => f[i] = 0
  PROVE  Total(f) = f[k]
<1>1. PICK r \in [0 .. Len(f) -> Nat] : /\ r[0] = 0
                                        /\ \A n \in 1 .. Len(f) : r[n] = r[n - 1] + f[n]
                                        /\ Total(f) = r[Len(f)]
  BY TotalIsSum
<1>2. Len(f) \in Nat /\ \A n \in 1 .. Len(f) : f[n] \in Nat
  BY LenProperties
<1> DEFINE S == {n \in 0 .. Len(f) : r[n] = IF n < k THEN 0 ELSE f[k]}
<1>3. 0 \in S
  BY <1>1, <1>2
<1>4. \A n \in 1 .. Len(f) : n - 1 \in S => n \in S
  <2> TAKE n \in 1 .. Len(f)
  <2>1. n \in 0 .. Len(f) /\ n - 1 \in 0 .. Len(f)
    BY <1>2
  <2>2. r[n] = r[n - 1] + f[n] /\ r[n - 1] \in Nat
    BY <1>1, <2>1
  <2>3. CASE n < k
    BY <1>2, <2>1, <2>2, <2>3
  <2>4. CASE n = k
    BY <1>2, <2>1, <2>2, <2>4
  <2>5. CASE n > k
    BY <1>2, <2>1, <2>2, <2>5
  <2> QED
    BY <1>2, <2>3, <2>4, <2>5
<1>5. Len(f) \in S
  <2>1. Len(f) \in 0 .. Len(f)
    BY <1>2
  <2> HIDE DEF S
  <2>2. \A n \in 0 .. Len(f) : n \in S
    BY <1>2, <1>3, <1>4, CountedUp
  <2> QED
    BY <2>1, <2>2
<1> QED
  BY <1>1, <1>2, <1>5

\* A number more.
LEMMA TotalAppends ==
  ASSUME NEW f \in Seq(Nat), NEW x \in Nat
  PROVE  Total(Append(f, x)) = Total(f) + x
<1> DEFINE g == Append(f, x)
<1>1. PICK r \in [0 .. Len(f) -> Nat] : /\ r[0] = 0
                                        /\ \A n \in 1 .. Len(f) : r[n] = r[n - 1] + f[n]
                                        /\ Total(f) = r[Len(f)]
  BY TotalIsSum
<1>2. /\ Len(f) \in Nat /\ g \in Seq(Nat) /\ Len(g) = Len(f) + 1
      /\ g[Len(f) + 1] = x /\ \A n \in 1 .. Len(f) : g[n] = f[n]
  BY LenProperties
<1> HIDE DEF g
<1>3. PICK s \in [0 .. Len(g) -> Nat] : /\ s[0] = 0
                                        /\ \A n \in 1 .. Len(g) : s[n] = s[n - 1] + g[n]
                                        /\ Total(g) = s[Len(g)]
  BY <1>2, TotalIsSum
<1> DEFINE S == {n \in 0 .. Len(f) : s[n] = r[n]}
<1>4. 0 \in S
  BY <1>1, <1>2, <1>3
<1>5. \A n \in 1 .. Len(f) : n - 1 \in S => n \in S
  <2> TAKE n \in 1 .. Len(f)
  <2>1. n \in 0 .. Len(f) /\ n - 1 \in 0 .. Len(f) /\ n \in 1 .. Len(g)
    BY <1>2
  <2>2. r[n] = r[n - 1] + f[n] /\ s[n] = s[n - 1] + f[n]
    BY <1>1, <1>2, <1>3, <2>1
  <2> QED
    BY <2>1, <2>2
<1>6. Len(f) \in S
  <2>1. Len(f) \in 0 .. Len(f)
    BY <1>2
  <2> HIDE DEF S
  <2>2. \A n \in 0 .. Len(f) : n \in S
    BY <1>2, <1>4, <1>5, CountedUp
  <2> QED
    BY <2>1, <2>2
<1>7. s[Len(g)] = s[Len(f)] + x
  <2>1. Len(g) \in 1 .. Len(g) /\ Len(g) - 1 = Len(f)
    BY <1>2
  <2> QED
    BY <1>2, <1>3, <2>1
<1> QED
  BY <1>1, <1>3, <1>6, <1>7 DEF g

\* What the items numbered in I take up.
Weight(items, I) == Total([i \in DOMAIN items |-> IF i \in I THEN items[i].size ELSE 0])

\* The numbers that are summed up.
LEMMA WeightTyped ==
  ASSUME NEW items \in Seq(ItemType), NEW I
  PROVE  /\ [i \in DOMAIN items |-> IF i \in I THEN items[i].size ELSE 0] \in Seq(Nat)
         /\ Len([i \in DOMAIN items |-> IF i \in I THEN items[i].size ELSE 0]) = Len(items)
         /\ Weight(items, I) \in Nat
<1>1. \A i \in DOMAIN items : items[i].size \in Nat
  <2>1. \A item \in ItemType : item.size \in Nat
    BY SizeAssumption DEF ItemType
  <2> HIDE DEF ItemType
  <2>2. \A i \in DOMAIN items : items[i] \in ItemType
    OBVIOUS
  <2> QED
    BY <2>1, <2>2
<1>2. Len(items) \in Nat /\ DOMAIN items = 1 .. Len(items)
  BY LenProperties
<1> DEFINE f == [i \in DOMAIN items |-> IF i \in I THEN items[i].size ELSE 0]
<1>3. f = [i \in 1 .. Len(items) |-> f[i]] /\ \A i \in 1 .. Len(items) : f[i] \in Nat
  BY <1>1, <1>2
<1>4. f \in Seq(Nat) /\ Len(f) = Len(items)
  <2> HIDE DEF f
  <2> QED
    BY <1>2, <1>3
<1>5. Total(f) \in Nat
  <2> HIDE DEF f
  <2>1. PICK s \in [0 .. Len(f) -> Nat] : Total(f) = s[Len(f)]
    BY <1>4, TotalIsSum
  <2> QED
    BY <1>2, <1>4, <2>1
<1> QED
  BY <1>4, <1>5 DEF Weight

\* Items that are not the same are counted each for itself.
LEMMA Weights ==
  ASSUME NEW items \in Seq(ItemType)
  PROVE  /\ \A I, J : I \cap J = {} => Weight(items, I \cup J) = Weight(items, I) + Weight(items, J)
         /\ \A I, J : I \subseteq J => Weight(items, I) <= Weight(items, J)
         /\ \A k \in DOMAIN items : Weight(items, {k}) = items[k].size
         /\ SizeOf(items) = Weight(items, DOMAIN items)
         /\ LostOf(items) = Weight(items, {i \in DOMAIN items : items[i].id = Zeroed})
<1>1. Len(items) \in Nat /\ DOMAIN items = 1 .. Len(items) /\ \A i \in DOMAIN items : items[i].size \in Nat
  <2>1. \A item \in ItemType : item.size \in Nat
    BY SizeAssumption DEF ItemType
  <2> HIDE DEF ItemType
  <2>2. \A i \in DOMAIN items : items[i] \in ItemType
    OBVIOUS
  <2> QED
    BY <2>1, <2>2, LenProperties
<1>2. ASSUME NEW I, NEW J, I \cap J = {} PROVE Weight(items, I \cup J) = Weight(items, I) + Weight(items, J)
  <2> DEFINE f == [i \in DOMAIN items |-> IF i \in I THEN items[i].size ELSE 0]
             g == [i \in DOMAIN items |-> IF i \in J THEN items[i].size ELSE 0]
             h == [i \in DOMAIN items |-> IF i \in I \cup J THEN items[i].size ELSE 0]
  <2>1. /\ f \in Seq(Nat) /\ g \in Seq(Nat) /\ h \in Seq(Nat)
        /\ Len(f) = Len(items) /\ Len(g) = Len(items) /\ Len(h) = Len(items)
    BY WeightTyped
  <2>2. \A i \in 1 .. Len(items) : h[i] = f[i] + g[i]
    BY <1>1, <1>2
  <2>3. Weight(items, I \cup J) = Total(h) /\ Weight(items, I) = Total(f) /\ Weight(items, J) = Total(g)
    BY DEF Weight
  <2> HIDE DEF f, g, h
  <2> QED
    BY <2>1, <2>2, <2>3, TotalAdds
<1>3. ASSUME NEW I, NEW J, I \subseteq J PROVE Weight(items, I) <= Weight(items, J)
  <2>1. J = I \cup (J \ I) /\ I \cap (J \ I) = {}
    BY <1>3
  <2>2. Weight(items, J) = Weight(items, I) + Weight(items, J \ I)
    BY <1>2, <2>1
  <2>3. Weight(items, I) \in Nat /\ Weight(items, J \ I) \in Nat
    BY WeightTyped
  <2> QED
    BY <2>2, <2>3
<1>4. ASSUME NEW k \in DOMAIN items PROVE Weight(items, {k}) = items[k].size
  <2> DEFINE f == [i \in DOMAIN items |-> IF i \in {k} THEN items[i].size ELSE 0]
  <2>1. f \in Seq(Nat) /\ Len(f) = Len(items)
    BY WeightTyped
  <2>2. k \in 1 .. Len(f) /\ f[k] = items[k].size /\ \A i \in 1 .. Len(f) : i # k => f[i] = 0
    BY <1>1, <2>1
  <2>3. Weight(items, {k}) = Total(f)
    BY DEF Weight
  <2> HIDE DEF f
  <2> QED
    BY <2>1, <2>2, <2>3, TotalOfOne
<1>5. SizeOf(items) = Weight(items, DOMAIN items)
  <2>1. [i \in DOMAIN items |-> items[i].size] = [i \in DOMAIN items |-> IF i \in DOMAIN items THEN items[i].size ELSE 0]
    OBVIOUS
  <2> QED
    BY <2>1 DEF SizeOf, Weight
<1>6. LostOf(items) = Weight(items, {i \in DOMAIN items : items[i].id = Zeroed})
  <2>1. [i \in DOMAIN items |-> IF items[i].id = Zeroed THEN items[i].size ELSE 0]
          = [i \in DOMAIN items |-> IF i \in {j \in DOMAIN items : items[j].id = Zeroed} THEN items[i].size ELSE 0]
    OBVIOUS
  <2> QED
    BY <2>1 DEF LostOf, Weight
<1> QED
  BY <1>2, <1>3, <1>4, <1>5, <1>6

\* An item more takes up its size more.
LEMMA SizeOfMore ==
  ASSUME NEW items \in Seq(ItemType), NEW item \in ItemType
  PROVE  SizeOf(Append(items, item)) = SizeOf(items) + item.size
<1> DEFINE more == Append(items, item)
           f == [i \in DOMAIN items |-> items[i].size]
           g == [i \in DOMAIN more |-> more[i].size]
<1>1. Len(items) \in Nat /\ DOMAIN items = 1 .. Len(items) /\ item.size \in Nat /\ \A i \in DOMAIN items : items[i].size \in Nat
  <2>1. \A one \in ItemType : one.size \in Nat
    BY SizeAssumption DEF ItemType
  <2> HIDE DEF ItemType
  <2>2. \A i \in DOMAIN items : items[i] \in ItemType
    OBVIOUS
  <2> QED
    BY <2>1, <2>2, LenProperties
<1>2. DOMAIN more = 1 .. Len(items) + 1 /\ more[Len(items) + 1] = item /\ \A i \in 1 .. Len(items) : more[i] = items[i]
  <2> HIDE DEF ItemType
  <2> QED
    BY <1>1
<1>3. f \in Seq(Nat) /\ Len(f) = Len(items)
  <2>1. f = [i \in DOMAIN items |-> IF i \in DOMAIN items THEN items[i].size ELSE 0]
    OBVIOUS
  <2> HIDE DEF f
  <2> QED
    BY <2>1, WeightTyped
<1> HIDE DEF more
<1>4. g = Append(f, item.size)
  <2>1. DOMAIN g = 1 .. Len(items) + 1 /\ \A i \in 1 .. Len(items) + 1 : g[i] = IF i = Len(items) + 1 THEN item.size ELSE f[i]
    BY <1>1, <1>2
  <2>2. g = [i \in 1 .. Len(items) + 1 |-> g[i]]
    BY <1>2
  <2> HIDE DEF f, g
  <2>3. /\ DOMAIN Append(f, item.size) = 1 .. Len(items) + 1
        /\ Append(f, item.size) = [i \in 1 .. Len(items) + 1 |-> Append(f, item.size)[i]]
        /\ \A i \in 1 .. Len(items) + 1 : Append(f, item.size)[i] = IF i = Len(items) + 1 THEN item.size ELSE f[i]
    BY <1>1, <1>3
  <2> QED
    BY <2>1, <2>2, <2>3
<1>5. SizeOf(items) = Total(f) /\ SizeOf(more) = Total(g)
  BY DEF SizeOf
<1> HIDE DEF f, g
<1> QED
  BY <1>1, <1>3, <1>4, <1>5, TotalAppends DEF more

-----------------------------------------------------------------------------
(* No page takes more than it has room for *)

\* What those of the items of page p take up that are in D.
Taken(p, D) == Weight(flash[p].items, {i \in DOMAIN flash[p].items : <<p, i>> \in D})

\* Each page has room for its items, and each item the size of its id.
Rooms ==
  /\ \A p \in Page : pgOff(p) <= PageSize
  /\ \A x \in Named : Item(x).size = Size[Item(x).id]

\* There is room for what compactPage still has to copy, and for the new item
\* behind that.
AtRoom ==
  /\ pc \in {"markPage", "copy", "copyItem", "copyChk"} /\ call # NoCall =>
       Taken(com, FromAll) + Size[call.id] <= PageSize
  /\ pc \in {"copy", "copyItem"} => pgOff(pgRes) <= Taken(com, From(cur[2]))
  /\ pc = "copyChk" => pgOff(pgRes) <= Taken(com, From(cur[2] + 1))
  /\ pc = "header" => pgOff(dst) + Size[call.id] <= PageSize

\* What is taken up is at most what the page takes up, and less what is lost.
LEMMA TakenBounds ==
  ASSUME PagesTyped, NEW p \in Page
  PROVE  /\ pgOff(p) \in Nat /\ pgLost(p) \in Nat
         /\ \A D : Taken(p, D) \in Nat /\ Taken(p, D) <= pgOff(p)
         /\ \A D, E : D \subseteq E => Taken(p, D) <= Taken(p, E)
         /\ \A D : D \subseteq Named => Taken(p, D) + pgLost(p) <= pgOff(p)
         /\ \A D, x : x \in Items /\ x[1] = p /\ x \notin D => Taken(p, D \cup {x}) = Taken(p, D) + Item(x).size
<1> DEFINE items == flash[p].items
           I(D) == {i \in DOMAIN items : <<p, i>> \in D}
           lost == {i \in DOMAIN items : items[i].id = Zeroed}
<1>1. items \in Seq(ItemType) /\ \A i \in DOMAIN items : <<p, i>> \in Items /\ Item(<<p, i>>) = items[i]
  BY PlacesOfItems DEF Item
<1>2. \A D : Taken(p, D) = Weight(items, I(D)) /\ I(D) \subseteq DOMAIN items
  BY DEF Taken
<1>3. pgOff(p) = SizeOf(items) /\ pgLost(p) = LostOf(items)
  BY DEF pgOff, pgLost
<1>4. ASSUME NEW D, D \subseteq Named PROVE I(D) \cap lost = {}
  BY <1>1, <1>4 DEF Named
<1>5. ASSUME NEW D, NEW x, x \in Items, x[1] = p, x \notin D
      PROVE  I(D \cup {x}) = I(D) \cup {x[2]} /\ I(D) \cap {x[2]} = {} /\ x[2] \in DOMAIN items /\ Item(x) = items[x[2]]
  <2>1. x = <<x[1], x[2]>> /\ x[2] \in DOMAIN flash[x[1]].items
    BY <1>5, PlacesOfItems
  <2> QED
    BY <1>5, <2>1 DEF Item
<1>6. \A D, E : D \subseteq E => I(D) \subseteq I(E)
  OBVIOUS
<1>7. \A D : I(D) \subseteq DOMAIN items
  OBVIOUS
<1>8. lost \subseteq DOMAIN items
  OBVIOUS
<1>9. SizeOf(items) \in Nat /\ LostOf(items) \in Nat /\ \A J : Weight(items, J) \in Nat
  <2> HIDE DEF items
  <2> QED
    BY <1>1, RoomIsNumber, WeightTyped
<1>10. /\ \A J, K : J \cap K = {} => Weight(items, J \cup K) = Weight(items, J) + Weight(items, K)
       /\ \A J, K : J \subseteq K => Weight(items, J) <= Weight(items, K)
       /\ \A k \in DOMAIN items : Weight(items, {k}) = items[k].size
       /\ SizeOf(items) = Weight(items, DOMAIN items)
       /\ LostOf(items) = Weight(items, lost)
  <2>1. items \in Seq(ItemType)
    BY <1>1
  <2> HIDE DEF items
  <2> QED
    BY <2>1, Weights DEF lost
<1> HIDE DEF items, I, lost
<1>11. ASSUME NEW D, D \subseteq Named PROVE Weight(items, I(D)) + LostOf(items) <= SizeOf(items)
  <2>1. I(D) \cup lost \subseteq DOMAIN items
    BY <1>7, <1>8
  <2>2. Weight(items, I(D) \cup lost) = Weight(items, I(D)) + LostOf(items)
    BY <1>4, <1>10, <1>11
  <2>3. Weight(items, I(D) \cup lost) <= SizeOf(items)
    BY <1>10, <2>1
  <2> QED
    BY <2>2, <2>3
<1>12. ASSUME NEW D, NEW x, x \in Items, x[1] = p, x \notin D
       PROVE  Weight(items, I(D \cup {x})) = Weight(items, I(D)) + Item(x).size
  <2>1. Weight(items, I(D) \cup {x[2]}) = Weight(items, I(D)) + Weight(items, {x[2]})
    BY <1>5, <1>10, <1>12
  <2> QED
    BY <1>5, <1>10, <1>12, <2>1
<1>13. \A D : Weight(items, I(D)) <= SizeOf(items)
  BY <1>7, <1>10
<1>14. \A D, E : D \subseteq E => Weight(items, I(D)) <= Weight(items, I(E))
  BY <1>6, <1>10
<1> QED
  BY <1>2, <1>3, <1>9, <1>11, <1>12, <1>13, <1>14

\* Items, and how much room they take, stay; what is in them may change.
SizesStay(p) ==
  /\ DOMAIN flash'[p].items = DOMAIN flash[p].items
  /\ \A i \in DOMAIN flash[p].items : flash'[p].items[i].size = flash[p].items[i].size

\* Then what they take up stays.
LEMMA TakenStays ==
  ASSUME NEW p, SizesStay(p)
  PROVE  pgOff(p)' = pgOff(p) /\ \A D : Taken(p, D)' = Taken(p, D)
<1> DEFINE items == flash[p].items
           more == flash'[p].items
<1>1. DOMAIN more = DOMAIN items /\ \A i \in DOMAIN items : more[i].size = items[i].size
  BY DEF SizesStay
<1>2. pgOff(p) = SizeOf(items) /\ pgOff(p)' = SizeOf(more)
  BY DEF pgOff, SizeOf, Total
<1>3. ASSUME NEW D
      PROVE  /\ Taken(p, D) = Weight(items, {i \in DOMAIN items : <<p, i>> \in D})
             /\ Taken(p, D)' = Weight(more, {i \in DOMAIN more : <<p, i>> \in D})
  BY DEF Taken, Weight, Total
<1> HIDE DEF items, more
<1>4. SizeOf(items) = SizeOf(more)
  <2>1. [i \in DOMAIN items |-> items[i].size] = [i \in DOMAIN more |-> more[i].size]
    BY <1>1
  <2> QED
    BY <2>1 DEF SizeOf
<1>5. ASSUME NEW J PROVE Weight(items, J) = Weight(more, J)
  <2>1. [i \in DOMAIN items |-> IF i \in J THEN items[i].size ELSE 0]
          = [i \in DOMAIN more |-> IF i \in J THEN more[i].size ELSE 0]
    BY <1>1
  <2> QED
    BY <2>1 DEF Weight
<1> QED
  BY <1>1, <1>2, <1>3, <1>4, <1>5


\* No items take up nothing.
LEMMA EmptyRoom == SizeOf(<<>>) = 0
<1>1. [i \in DOMAIN <<>> |-> <<>>[i].size] = <<>>
  OBVIOUS
<1>2. <<>> \in Seq(Nat) /\ Len(<<>>) = 0
  OBVIOUS
<1>3. Total(<<>>) = 0
  BY <1>2, TotalIsSum
<1> QED
  BY <1>1, <1>3 DEF SizeOf

\* Where items only stay, or go, no page takes more.
LEMMA RoomsStay ==
  ASSUME PagesTyped, Rooms, \A p \in Page : SizesStay(p) \/ flash'[p].items = <<>>,
         Named' \subseteq Named, \A x \in Named' : Item(x)'.id = Item(x).id
  PROVE  Rooms'
<1>1. ASSUME NEW p \in Page PROVE pgOff(p)' <= PageSize
  <2>1. CASE SizesStay(p)
    BY <2>1, TakenStays DEF Rooms
  <2>2. CASE flash'[p].items = <<>>
    <3>1. pgOff(p)' = SizeOf(<<>>)
      BY <2>2 DEF pgOff
    <3> QED
      BY <3>1, EmptyRoom, SizeAssumption
  <2> QED
    BY <2>1, <2>2
<1>2. ASSUME NEW x \in Named' PROVE Item(x)'.size = Item(x).size
  <2>1. x = <<x[1], x[2]>> /\ x[1] \in Page /\ x[2] \in DOMAIN flash'[x[1]].items
    BY DEF Named, Items
  <2>2. flash'[x[1]].items # <<>>
    BY <2>1
  <2> QED
    BY <2>1, <2>2 DEF SizesStay, Item
<1> QED
  BY <1>1, <1>2 DEF Rooms

\* One write to an item that is there.
WritesIn(a) ==
  \/ WritesItem(a, [Item(a) EXCEPT !.xfer = TRUE])
  \/ WritesItem(a, [Item(a) EXCEPT !.good = TRUE])
  \/ \E v \in Value : WritesItem(a, [Item(a) EXCEPT !.val = v])
  \/ Zeroes(a)

\* A write to an item leaves all sizes as they are.
LEMMA ItemSizes ==
  ASSUME PagesTyped, NEW a \in Named, WritesIn(a)
  PROVE  (\A p \in Page : SizesStay(p)) /\ (Rooms => Rooms')
<1>1. a \in Items /\ Item(a) \in ItemType
  BY PlacesOfItems DEF Named
<1>2. PICK item \in ItemType : WritesItem(a, item) /\ item.size = Item(a).size /\ (item.id = Item(a).id \/ item.id = Zeroed)
  <2> DEFINE i1 == [Item(a) EXCEPT !.xfer = TRUE]
             i2 == [Item(a) EXCEPT !.good = TRUE]
             i3(v) == [Item(a) EXCEPT !.val = v]
             i4 == [Item(a) EXCEPT !.id = Zeroed, !.val = NoValue, !.good = FALSE, !.xfer = FALSE]
  <2>1. /\ {i1, i2, i4} \subseteq ItemType
        /\ \A i \in {i1, i2, i4} : i.size = Item(a).size /\ (i.id = Item(a).id \/ i.id = Zeroed)
        /\ \A v \in Value : i3(v) \in ItemType /\ i3(v).size = Item(a).size /\ i3(v).id = Item(a).id
    BY <1>1 DEF ItemType
  <2>2. WritesItem(a, i1) \/ WritesItem(a, i2) \/ (\E v \in Value : WritesItem(a, i3(v))) \/ WritesItem(a, i4)
    BY DEF WritesIn, Zeroes
  <2> HIDE DEF i1, i2, i3, i4, ItemType
  <2> QED
    BY <2>1, <2>2
<1>3. /\ Items' = Items /\ Item(a)' = item /\ \A x \in Items \ {a} : Item(x)' = Item(x)
  BY <1>1, <1>2, ItemReplaced
<1>4. \A x \in Items : Item(x)'.size = Item(x).size /\ (Item(x)'.id = Item(x).id \/ Item(x)'.id = Zeroed)
  BY <1>2, <1>3
<1>5. \A p \in Page : SizesStay(p)
  <2> TAKE p \in Page
  <2>1. \A i : i \in DOMAIN flash[p].items <=> <<p, i>> \in Items
    BY DEF Items
  <2>2. \A i : i \in DOMAIN flash'[p].items <=> <<p, i>> \in Items'
    BY DEF Items
  <2>3. \A i : Item(<<p, i>>) = flash[p].items[i] /\ Item(<<p, i>>)' = flash'[p].items[i]
    BY DEF Item
  <2> QED
    BY <1>3, <1>4, <2>1, <2>2, <2>3 DEF SizesStay
<1>6. Named' \subseteq Named /\ \A x \in Named' : Item(x)'.id = Item(x).id
  BY <1>3, <1>4 DEF Named
<1> QED
  BY <1>5, <1>6, RoomsStay

\* A new item takes up its size.
LEMMA HeaderSizes ==
  ASSUME PagesTyped, NEW p \in Page, NEW id \in Id, NEW val \in Value \cup {NoValue, Garbage}, WritesHeader(p, id, val)
  PROVE  /\ pgOff(p)' = pgOff(p) + Size[id] /\ \A q \in Page \ {p} : SizesStay(q)
         /\ Rooms /\ pgOff(p) + Size[id] <= PageSize => Rooms'
<1> DEFINE item == [id |-> id, val |-> val, size |-> Size[id], good |-> FALSE, xfer |-> FALSE]
           items == flash[p].items
<1>1. /\ LastPlace(p)' \notin Items /\ Named' = Named \cup {LastPlace(p)'}
      /\ \A x \in Named : Item(x)' = Item(x)
      /\ Item(LastPlace(p))'.id = id
  BY ItemAdded
<1>2. flash[p] \in PageType /\ items \in Seq(ItemType) /\ item \in ItemType /\ item.size = Size[id]
  BY SizeAssumption, PlacesOfItems DEF ItemType
<1>3. flash'[p].items = Append(items, item) /\ \A q \in Page \ {p} : flash'[q] = flash[q]
  <2> HIDE DEF item, ItemType
  <2> QED
    BY <1>2 DEF WritesHeader, PagesTyped, PageType, item
<1>4. pgOff(p)' = SizeOf(Append(items, item)) /\ pgOff(p) = SizeOf(items)
  BY <1>3 DEF pgOff, SizeOf, Total
<1>5. pgOff(p)' = pgOff(p) + Size[id]
  <2> HIDE DEF item, items, ItemType
  <2> QED
    BY <1>2, <1>4, SizeOfMore
<1>6. \A q \in Page \ {p} : SizesStay(q)
  BY <1>3 DEF SizesStay
<1>7. Item(LastPlace(p))'.size = Size[id]
  <2> HIDE DEF item, items, ItemType
  <2>1. Len(items) \in Nat /\ Len(Append(items, item)) = Len(items) + 1 /\ Append(items, item)[Len(items) + 1] = item
    BY <1>2, LenProperties
  <2> QED
    BY <1>2, <1>3, <2>1 DEF Item, LastPlace
<1>8. ASSUME Rooms, pgOff(p) + Size[id] <= PageSize PROVE Rooms'
  <2>1. \A q \in Page : pgOff(q)' <= PageSize
    BY <1>5, <1>6, <1>8, TakenStays DEF Rooms
  <2>2. ASSUME NEW x \in Named' PROVE Item(x)'.size = Size[Item(x)'.id]
    <3>1. CASE x \in Named
      BY <1>1, <1>8, <3>1 DEF Rooms
    <3>2. CASE x \notin Named
      <4>1. PICK n : n = LastPlace(p)'
        OBVIOUS
      <4>2. x = n
        BY <1>1, <3>2, <4>1
      <4>3. Item(n)' = Item(LastPlace(p))'
        BY <4>1 DEF Item
      <4> QED
        BY <1>1, <1>7, <4>2, <4>3
    <3> QED
      BY <3>1, <3>2
  <2> QED
    BY <2>1, <2>2 DEF Rooms
<1> QED
  BY <1>5, <1>6, <1>8

\* What is written to a page leaves its items, or none.
LEMMA PageSizes ==
  ASSUME PagesTyped, NEW p \in Page, NEW page \in PageType, Writes(p, page), page.items \in {<<>>, flash[p].items}
  PROVE  /\ \A q \in Page \ {p} : SizesStay(q)
         /\ page.items = flash[p].items => SizesStay(p)
         /\ page.items = <<>> => pgOff(p)' = 0
         /\ Rooms => Rooms'
<1>1. flash'[p] = page /\ \A q \in Page \ {p} : flash'[q] = flash[q]
  BY PageReplaced
<1>2. Named' \subseteq Named /\ \A x \in Named' : Item(x)' = Item(x)
  <2>1. page.items = <<>> => Named' = {x \in Named : x[1] # p} /\ \A x \in Named' : Item(x)' = Item(x)
    BY PageReplaced
  <2>2. page.items = flash[p].items => Named' = Named /\ \A x \in Items : Item(x)' = Item(x)
    BY PageReplaced
  <2> QED
    BY <2>1, <2>2 DEF Named
<1>3. (\A q \in Page \ {p} : SizesStay(q)) /\ (page.items = flash[p].items => SizesStay(p))
  BY <1>1 DEF SizesStay
<1>4. \A q \in Page : SizesStay(q) \/ flash'[q].items = <<>>
  BY <1>1, <1>3
<1>5. Rooms => Rooms'
  BY <1>2, <1>4, RoomsStay
<1>6. page.items = <<>> => pgOff(p)' = 0
  BY <1>1, EmptyRoom DEF pgOff, SizeOf, Total
<1> QED
  BY <1>3, <1>5, <1>6


\* What initPage comes to next.
LEMMA ToCheck ==
  ASSUME Reserve, Sound, InitPages
  PROVE  \E a \in Named : \/ flash' = flash \/ (Bad(a) /\ Zeroes(a))
                          \/ findDups /\ New(a) /\ Zeroes(FirstOf(Copies(Item(a).id, TRUE)))
<1> DEFINE T == {b \in Rest : Bad(b) \/ (IF findDups THEN New(b) ELSE Old(b))}
<1>1. PICK a : a = FirstOf(T)
  OBVIOUS
<1>2. /\ a # NoPlace
      /\ IF Bad(a) THEN Zeroes(a)
         ELSE IF findDups THEN Zeroes(FirstOf(Copies(Item(a).id, TRUE)))
         ELSE flash' = flash
  BY <1>1 DEF InitPages
<1>3. T \in SUBSET Items
  BY DEF Rest
<1>4. a \in T
  <2>1. T # {} /\ PagesTyped
    BY <1>1, <1>2 DEF FirstOf, Reserve
  <2> HIDE DEF T
  <2> QED
    BY <1>1, <1>3, <2>1, FirstOfIn
<1>5. a \in Named /\ (Bad(a) \/ (IF findDups THEN New(a) ELSE Old(a)))
  BY <1>4 DEF Rest, Named
<1> QED
  BY <1>2, <1>5

\* One write to a whole page, or to its header.
WritesPage(p, page) ==
  /\ Writes(p, page)
  /\ page.items \in {<<>>, flash[p].items}
  /\ page.xfer => page.items = flash[p].items /\ (flash[p].xfer \/ (MarkPage /\ p = com))

\* Each step is one write to the flash, if any: to an item, to the header or the
\* whole of a page, or behind the last item of one.
LEMMA OneWrite ==
  ASSUME Reserve, Sound, [Next]_vars
  PROVE  \/ flash' = flash
         \/ \E a \in Named : WritesIn(a)
         \/ \E p \in Page : \E page \in PageType : WritesPage(p, page)
         \/ CopyItem \/ WriteHeader
<1>1. PagesTyped
  BY DEF Reserve
<1>2. ASSUME NEW p \in Page
      PROVE  /\ [flash[p] EXCEPT !.xfer = TRUE] \in PageType /\ [flash[p] EXCEPT !.xfer = TRUE].items = flash[p].items
             /\ [flash[p] EXCEPT !.active = TRUE, !.inUse = TRUE] \in PageType
             /\ [flash[p] EXCEPT !.active = TRUE, !.inUse = TRUE].items = flash[p].items
             /\ [flash[p] EXCEPT !.active = TRUE, !.inUse = TRUE].xfer = flash[p].xfer
             /\ \A page \in EraseLeaves(flash[p]) : /\ page \in PageType /\ page.items \in {<<>>, flash[p].items}
                                                    /\ page.xfer => page = flash[p]
  <2>1. flash[p] \in PageType
    BY <1>1 DEF PagesTyped
  <2> DEFINE p1 == [flash[p] EXCEPT !.active = FALSE, !.inUse = FALSE, !.xfer = FALSE]
             p2 == [flash[p] EXCEPT !.xfer = FALSE]
  <2>2. /\ p1 \in PageType /\ p1.items = flash[p].items /\ ~p1.xfer /\ p2 \in PageType /\ p2.items = flash[p].items /\ ~p2.xfer
        /\ [flash[p] EXCEPT !.xfer = TRUE] \in PageType /\ [flash[p] EXCEPT !.xfer = TRUE].items = flash[p].items
        /\ [flash[p] EXCEPT !.active = TRUE, !.inUse = TRUE] \in PageType
        /\ [flash[p] EXCEPT !.active = TRUE, !.inUse = TRUE].items = flash[p].items
        /\ [flash[p] EXCEPT !.active = TRUE, !.inUse = TRUE].xfer = flash[p].xfer
    <3> HIDE DEF ItemType
    <3> QED
      BY <2>1 DEF PageType
  <2>3. \A page \in EraseLeaves(flash[p]) : page = flash[p] \/ page = Blank \/ page = p1 \/ page = p2
    BY DEF EraseLeaves
  <2> HIDE DEF p1, p2
  <2> QED
    BY <2>1, <2>2, <2>3, BlankTyped
<1>3. \A p : p \notin Page => \A page : Writes(p, page) => flash' = flash
  BY <1>1 DEF Writes, PagesTyped
<1>4. ASSUME PageUse \/ BootUse PROVE flash' = flash \/ \E p \in Page : \E page \in PageType : WritesPage(p, page)
  <2>1. PICK p : Writes(p, [flash[p] EXCEPT !.active = TRUE, !.inUse = TRUE])
    BY <1>4 DEF PageUse, BootUse
  <2>2. PICK page : page = [flash[p] EXCEPT !.active = TRUE, !.inUse = TRUE]
    OBVIOUS
  <2>3. p \in Page => page \in PageType /\ page.items = flash[p].items /\ page.xfer = flash[p].xfer
    BY <1>2, <2>2
  <2>4. p \in Page => WritesPage(p, page)
    BY <2>1, <2>2, <2>3 DEF WritesPage
  <2> HIDE DEF PageType
  <2> QED
    BY <1>3, <2>1, <2>3, <2>4
<1>13. ASSUME MarkPage PROVE flash' = flash \/ \E p \in Page : \E page \in PageType : WritesPage(p, page)
  <2>1. PICK p : p = com /\ Writes(p, [flash[p] EXCEPT !.xfer = TRUE])
    BY <1>13 DEF MarkPage
  <2> QED
    BY <1>2, <1>3, <1>13, <2>1 DEF WritesPage
<1>5. ASSUME ErasePage \/ EraseRes \/ EraseMost
      PROVE  flash' = flash \/ \E p \in Page : \E page \in PageType : WritesPage(p, page)
  <2>1. PICK p : Writes(p, Blank)
    BY <1>5 DEF ErasePage, EraseRes, EraseMost
  <2> QED
    BY <1>3, <2>1, BlankTyped DEF WritesPage
<1>6. ASSUME Crash PROVE flash' = flash \/ \E p \in Page : \E page \in PageType : WritesPage(p, page)
  <2>1. CASE \E p : \E page \in EraseLeaves(flash[p]) : Writes(p, page)
    <3>1. PICK p, page : page \in EraseLeaves(flash[p]) /\ Writes(p, page)
      BY <2>1
    <3>2. p \in Page => page \in PageType /\ page.items \in {<<>>, flash[p].items} /\ (page.xfer => page = flash[p])
      BY <1>2, <3>1
    <3>3. p \in Page => WritesPage(p, page)
      BY <3>1, <3>2 DEF WritesPage
    <3> HIDE DEF PageType
    <3> QED
      BY <1>3, <3>1, <3>2, <3>3
  <2>2. CASE flash' = flash
    BY <2>2
  <2> QED
    BY <1>6, <2>1, <2>2 DEF Crash, Writes
<1>7. ASSUME CopyMark PROVE flash' = flash \/ \E a \in Named : WritesIn(a)
  <2>1. CASE ToCopy # {}
    <3>1. ToCopy \in SUBSET Items
      BY DEF ToCopy
    <3>2. PICK a : a = FirstOf(ToCopy)
      OBVIOUS
    <3>3. a \in ToCopy
      BY <1>1, <2>1, <3>1, <3>2, FirstOfIn
    <3>4. WritesItem(a, [Item(a) EXCEPT !.xfer = TRUE]) /\ a \in Named
      BY <1>7, <2>1, <3>2, <3>3 DEF CopyMark, ToCopy, Named
    <3> QED
      BY <3>4 DEF WritesIn
  <2>2. CASE ToCopy = {}
    BY <1>7, <2>2 DEF CopyMark
  <2> QED
    BY <2>1, <2>2
<1>8. ASSUME CopyChk PROVE \E a \in Named : WritesIn(a)
  <2>1. PICK a : a = LastPlace(pgRes)
    OBVIOUS
  <2>2. a \in Named /\ WritesItem(a, [Item(a) EXCEPT !.good = TRUE])
    BY <1>8, <2>1 DEF CopyChk, Sound, AtCopyChk, Fresh
  <2> QED
    BY <2>2 DEF WritesIn
<1>9. ASSUME MarkOld \/ WriteData \/ SetChk PROVE \E a \in Named : WritesIn(a)
  <2>1. PICK n, o, v : n = LastPlace(dst) /\ o = src /\ v = call.val
    OBVIOUS
  <2>2. /\ pc \in {"markOld", "data", "chk"}
        /\ \/ WritesItem(o, [Item(o) EXCEPT !.xfer = TRUE]) /\ call.kind = "write"
           \/ WritesItem(n, [Item(n) EXCEPT !.val = v])
           \/ WritesItem(n, [Item(n) EXCEPT !.good = TRUE])
    BY <1>9, <2>1 DEF MarkOld, WriteData, SetChk, Sound, AtWrite
  <2>3. n \in Named /\ v \in Value /\ Replaces(Live \ {n}) /\ call # NoCall
    BY <2>1, <2>2, NewItem
  <2>4. call.kind = "write" => o \in Named
    BY <2>1, <2>3 DEF Replaces, Live, In
  <2> QED
    BY <2>2, <2>3, <2>4 DEF WritesIn
<1>10. ASSUME ZeroOld PROVE \E a \in Named : WritesIn(a)
  <2>1. PICK a : a = src
    OBVIOUS
  <2>2. a \in Named /\ Zeroes(a)
    BY <1>10, <2>1 DEF ZeroOld, Sound, AtZeroOld
  <2> QED
    BY <2>2 DEF WritesIn
<1>11. ASSUME InitPages PROVE flash' = flash \/ \E a \in Named : WritesIn(a)
  <2>1. PICK a \in Named : \/ flash' = flash \/ (Bad(a) /\ Zeroes(a))
                           \/ findDups /\ New(a) /\ Zeroes(FirstOf(Copies(Item(a).id, TRUE)))
    BY <1>11, ToCheck
  <2>2. CASE findDups /\ New(a) /\ Zeroes(FirstOf(Copies(Item(a).id, TRUE)))
    <3>1. PICK b : b = FirstOf(Copies(Item(a).id, TRUE))
      OBVIOUS
    <3>2. b \in Copies(Item(a).id, TRUE)
      <4>1. Copies(Item(a).id, TRUE) \in SUBSET Items /\ Copies(Item(a).id, TRUE) # {}
        BY <2>2 DEF Copies, New
      <4> QED
        BY <1>1, <3>1, <4>1, FirstOfIn
    <3>3. b \in Named
      BY <3>2 DEF Copies, Named
    <3> QED
      BY <2>2, <3>1, <3>3 DEF WritesIn
  <2>3. CASE Bad(a) /\ Zeroes(a)
    BY <2>3 DEF WritesIn
  <2> QED
    BY <2>1, <2>2, <2>3
<1>12. CASE \/ \E id \in Id, val \in Value : Begin("init", id, val) \/ Begin("write", id, val)
            \/ \E id \in hotIds : ItemInitHot(id)
            \/ \E id \in Id \ hotIds : osal_nv_delete(id)
            \/ Return \/ BootScan \/ InitDone \/ UNCHANGED vars
  BY <1>12 DEF Begin, ItemInitHot, osal_nv_delete, Return, BootScan, InitDone, vars
<1> QED
  BY <1>4, <1>5, <1>6, <1>7, <1>8, <1>9, <1>10, <1>11, <1>12, <1>13 DEF Next, Writing, initNV


\* There is room for the copy of an item behind those copied before it.
LEMMA CopyRoom ==
  ASSUME Reserve, Sound, Rooms, AtRoom, pc = "copyItem"
  PROVE  /\ pgOff(pgRes) + Size[Item(cur).id] <= Taken(com, From(cur[2] + 1))
         /\ pgOff(pgRes) + Size[Item(cur).id] <= PageSize
<1>1. PagesTyped /\ com \in Page /\ pgRes \in Page /\ Copied(cur) /\ Item(cur).id \in Id
  BY DEF Reserve, Compacting, Filled, Sound, AtCopyItem
<1>2. cur \in Named /\ cur \in Items /\ cur[1] = com /\ cur[2] \in Nat /\ Other(cur) /\ cur \in In({com})
  BY <1>1, NamedPlaces DEF Copied, In
<1>3. From(cur[2]) \cup {cur} \subseteq From(cur[2] + 1) /\ cur \notin From(cur[2])
  <2>1. \A x \in In({com}) : x[2] \in Nat
    BY <1>1, NamedPlaces DEF In
  <2>2. \A x \in In({com}) : x[2] < cur[2] => x[2] < cur[2] + 1
    <3>1. \A m \in Nat, n \in Nat : m < n => m < n + 1
      OBVIOUS
    <3> QED
      BY <1>2, <2>1, <3>1
  <2>3. cur[2] < cur[2] + 1 /\ ~(cur[2] < cur[2])
    BY <1>2
  <2> QED
    BY <1>2, <2>2, <2>3 DEF From
<1>4. /\ Taken(com, From(cur[2]) \cup {cur}) = Taken(com, From(cur[2])) + Item(cur).size
      /\ Taken(com, From(cur[2]) \cup {cur}) <= Taken(com, From(cur[2] + 1))
      /\ Taken(com, From(cur[2] + 1)) <= pgOff(com)
      /\ Taken(com, From(cur[2])) \in Nat /\ Taken(com, From(cur[2] + 1)) \in Nat
      /\ Taken(com, From(cur[2]) \cup {cur}) \in Nat
      /\ pgOff(com) \in Nat /\ pgOff(pgRes) \in Nat
  BY <1>1, <1>2, <1>3, TakenBounds
<1>5. Item(cur).size = Size[Item(cur).id] /\ pgOff(pgRes) <= Taken(com, From(cur[2])) /\ pgOff(com) <= PageSize
  BY <1>1, <1>2 DEF Rooms, AtRoom
<1>6. Size[Item(cur).id] \in Nat /\ PageSize \in Nat
  BY <1>1, SizeAssumption
<1> QED
  BY <1>4, <1>5, <1>6

\* So each page keeps room for its items.
LEMMA RoomsKept == Reserve /\ Sound /\ Rooms /\ AtRoom /\ [Next]_vars => Rooms'
<1> SUFFICES ASSUME Reserve, Sound, Rooms, AtRoom, [Next]_vars PROVE Rooms'
  OBVIOUS
<1>1. PagesTyped
  BY DEF Reserve
<1>2. CASE flash' = flash
  BY <1>1, <1>2, FlashStays, RoomsStay DEF SizesStay
<1>3. CASE \E a \in Named : WritesIn(a)
  BY <1>1, <1>3, ItemSizes
<1>4. CASE \E p \in Page : \E page \in PageType : WritesPage(p, page)
  <2> HIDE DEF PageType
  <2> QED
    BY <1>1, <1>4, PageSizes DEF WritesPage
<1>5. CASE CopyItem
  <2>1. /\ pc = "copyItem" /\ WritesHeader(pgRes, Item(cur).id, Item(cur).val)
        /\ pgRes \in Page /\ com \in Page /\ Item(cur).id \in Id /\ Copied(cur)
    BY <1>5 DEF CopyItem, Reserve, Compacting, Filled, Sound, AtCopyItem
  <2>2. cur \in Named
    BY <2>1 DEF Copied, In
  <2>3. Item(cur).val \in Value \cup {NoValue, Garbage}
    BY <1>1, <2>2, NamedPlaces
  <2>4. pgOff(pgRes) + Size[Item(cur).id] <= PageSize
    BY <1>1, <2>1, CopyRoom DEF Rooms
  <2> QED
    BY <1>1, <2>1, <2>3, <2>4, HeaderSizes
<1>6. CASE WriteHeader
  <2>1. /\ pc = "header" /\ WritesHeader(dst, call.id, Garbage) /\ dst \in Page /\ call.id \in Id
    BY <1>6 DEF WriteHeader, Reserve, Compacting, Filled, ForItem
  <2> QED
    BY <1>1, <2>1, HeaderSizes DEF AtRoom
<1> QED
  BY <1>2, <1>3, <1>4, <1>5, <1>6, OneWrite

\* The places that Taken counts stay where they are.
LEMMA TakenKept ==
  ASSUME com \in Page, com' = com, SizesStay(com), NEW D
  PROVE  Taken(com, D)' = Taken(com, D)
<1>1. PICK p : p = com
  OBVIOUS
<1>2. Taken(p, D)' = Taken(p, D)
  BY <1>1, TakenStays
<1> QED
  BY <1>1, <1>2 DEF Taken

\* initItem has looked for room, for the page as it is or once it is compacted.
LEMMA RoomBegin ==
  ASSUME Reserve, Rooms, NEW kind \in {"init", "write"}, NEW id \in Id, NEW val \in Value, Begin(kind, id, val)
  PROVE  AtRoom'
<1>1. PICK p : p = Chosen(Size[id])
  OBVIOUS
<1>2. PagesTyped /\ p \in Page /\ p \in Fitting(Size[id])
  <2>1. PagesTyped /\ pgRes \in Page /\ Fitting(Size[id]) # {}
    BY DEF Begin, Reserve, Reserved, Filled
  <2> QED
    BY <1>1, <2>1, ChosenIn DEF Fitting
<1>3. Size[id] \in Nat /\ PageSize \in Nat
  BY SizeAssumption
<1>4. /\ flash' = flash /\ call' = [kind |-> kind, id |-> id, val |-> val] /\ call'.id = id
      /\ IF NeedsCompaction(p, Size[id]) THEN com' = p /\ pc' = "markPage" ELSE dst' = p /\ pc' = "header"
  BY <1>1 DEF Begin
<1>5. Named' = Named /\ pgOff(p)' = pgOff(p) /\ \A D : Taken(p, D)' = Taken(p, D)
  BY <1>4, FlashStays, TakenStays DEF SizesStay
<1>6. pgOff(p) \in Nat
  BY <1>2, TakenBounds
<1>7. CASE NeedsCompaction(p, Size[id])
  <2>1. PICK D : D = FromAll'
    OBVIOUS
  <2>2. D \subseteq Named
    BY <1>5, <2>1 DEF FromAll, In
  <2>3. Taken(p, D) + pgLost(p) <= pgOff(p) /\ pgLost(p) \in Nat /\ Taken(p, D) \in Nat
    BY <1>2, <2>2, TakenBounds
  <2>4. Size[id] + pgOff(p) <= PageSize + pgLost(p)
    BY <1>2 DEF Fitting
  <2>5. Taken(p, D) + Size[id] <= PageSize
    BY <1>3, <1>6, <2>3, <2>4
  <2>6. Taken(com, FromAll)' = Taken(p, D)'
    BY <1>4, <1>7, <2>1 DEF Taken
  <2> QED
    BY <1>4, <1>5, <1>7, <2>5, <2>6 DEF AtRoom
<1>8. CASE ~NeedsCompaction(p, Size[id])
  <2>1. pgOff(p) + Size[id] <= PageSize
    BY <1>3, <1>6, <1>8 DEF NeedsCompaction
  <2>2. pgOff(dst)' = pgOff(p)'
    BY <1>4, <1>8 DEF pgOff
  <2> QED
    BY <1>4, <1>5, <1>8, <2>1, <2>2 DEF AtRoom
<1> QED
  BY <1>7, <1>8

\* compactPage starts with an empty page.
LEMMA RoomMarkPage ==
  ASSUME Reserve, Sound, AtRoom, MarkPage
  PROVE  AtRoom'
<1>1. /\ PagesTyped /\ com \in Page /\ pgRes \in Page /\ com # pgRes /\ call # NoCall
      /\ flash[pgRes] = Blank
  BY DEF MarkPage, Reserve, Sound, AtMark, Compacting, Reserved, Filled
<1> DEFINE page == [flash[com] EXCEPT !.xfer = TRUE]
<1>2. /\ com' = com /\ pgRes' = pgRes /\ call' = call /\ pc' = "copy" /\ Writes(com, page)
      /\ Taken(com, FromAll) + Size[call.id] <= PageSize
  BY <1>1 DEF MarkPage, AtRoom
<1>3. page \in PageType /\ page.items = flash[com].items
  <2>1. flash[com] \in PageType
    BY <1>1 DEF PagesTyped
  <2> HIDE DEF ItemType
  <2> QED
    BY <2>1 DEF PageType
<1> HIDE DEF page
<1>4. (\A p \in Page : SizesStay(p)) /\ Named' = Named /\ \A x \in Named : Item(x)' = Item(x)
  <2>1. Named' = Named /\ \A x \in Items : Item(x)' = Item(x)
    BY <1>1, <1>2, <1>3, PageReplaced
  <2> QED
    BY <1>1, <1>2, <1>3, <2>1, PageSizes DEF Named
<1>5. FromAll' = FromAll
  BY <1>2, <1>4 DEF FromAll, In, Other
<1>6. Taken(com, FromAll)' = Taken(com, FromAll)
  <2>1. PICK D : D = FromAll
    OBVIOUS
  <2>2. Taken(com, D)' = Taken(com, D)
    BY <1>1, <1>2, <1>4, TakenKept
  <2> QED
    BY <1>5, <2>1, <2>2 DEF Taken
<1>7. pgOff(pgRes)' = 0
  <2>1. pgOff(pgRes) = 0
    BY <1>1, EmptyRoom DEF pgOff, Blank
  <2>2. PICK r : r = pgRes
    OBVIOUS
  <2>3. pgOff(r)' = pgOff(r)
    BY <1>1, <1>4, <2>2, TakenStays
  <2> QED
    BY <1>2, <2>1, <2>2, <2>3 DEF pgOff
<1>8. 0 <= Taken(com, From(cur[2]))'
  <2>1. PICK D : D = From(cur[2])'
    OBVIOUS
  <2>2. Taken(com, D)' = Taken(com, D)
    BY <1>1, <1>2, <1>4, TakenKept
  <2>3. Taken(com, D) \in Nat
    BY <1>1, TakenBounds
  <2> QED
    BY <2>1, <2>2, <2>3 DEF Taken
<1> QED
  BY <1>2, <1>6, <1>7, <1>8 DEF AtRoom


\* What compactPage marks, or is through with.
LEMMA RoomCopyMark ==
  ASSUME Reserve, Sound, AtRoom, CopyMark
  PROVE  AtRoom'
<1>1. /\ PagesTyped /\ com \in Page /\ pgRes \in Page /\ cur[1] = com /\ cur[2] \in Nat
      /\ call # NoCall => ForItem /\ dst = pgRes
  BY DEF CopyMark, Reserve, Sound, AtCopy, Compacting, Filled
<1>2. /\ com' = com /\ pgRes' = pgRes /\ call' = call /\ dst' = dst
      /\ pgOff(pgRes) <= Taken(com, From(cur[2]))
      /\ call # NoCall => Taken(com, FromAll) + Size[call.id] <= PageSize
  BY DEF CopyMark, AtRoom
<1>3. From(cur[2]) \subseteq FromAll
  BY DEF From, FromAll
<1>4. Taken(com, From(cur[2])) <= Taken(com, FromAll) /\ Taken(com, FromAll) \in Nat /\ Taken(com, From(cur[2])) \in Nat
      /\ pgOff(pgRes) \in Nat
  BY <1>1, <1>3, TakenBounds
<1>5. CASE ToCopy # {}
  <2>1. PICK a : a = FirstOf(ToCopy)
    OBVIOUS
  <2>2. a \in ToCopy /\ \A b \in ToCopy : a = b \/ Before(a, b)
    <3>1. ToCopy \in SUBSET Items
      BY DEF ToCopy
    <3> QED
      BY <1>1, <1>5, <2>1, <3>1, FirstOfIn
  <2>3. WritesItem(a, [Item(a) EXCEPT !.xfer = TRUE]) /\ cur' = a /\ pc' = "copyItem"
    BY <1>5, <2>1 DEF CopyMark
  <2>4. a \in Named /\ a[1] = com /\ a[2] \in Nat /\ a[2] >= cur[2]
    <3>1. a \in Named /\ a[1] = com /\ a[2] >= cur[2]
      BY <2>2 DEF ToCopy, Named
    <3> QED
      BY <1>1, <3>1, NamedPlaces
  <2>5. Named' = Named /\ \A x \in Named : Item(x)'.id = Item(x).id
    BY <1>1, <2>3, <2>4, FieldReplaced
  <2>6. \A p \in Page : SizesStay(p)
    BY <1>1, <2>3, <2>4, ItemSizes DEF WritesIn
  <2>7. FromAll' = FromAll
    BY <1>2, <2>5 DEF FromAll, In, Other
  <2>8. \A x \in From(cur[2]) : x \in From(cur[2])'
    <3> TAKE x \in From(cur[2])
    <3>1. x \in Named /\ x[1] = com /\ Other(x) /\ x[2] < cur[2] /\ x[2] \in Nat
      BY <1>1, NamedPlaces DEF From, In
    <3>2. x[2] < a[2]
      BY <1>1, <2>4, <3>1
    <3> QED
      BY <1>2, <2>3, <2>5, <3>1, <3>2 DEF From, In, Other
  <2>9. PICK D, E, r : D = FromAll /\ E = From(cur[2]) /\ r = pgRes
    OBVIOUS
  <2>10. PICK F : F = From(cur[2])'
    OBVIOUS
  <2>11. Taken(com, D)' = Taken(com, D) /\ Taken(com, F)' = Taken(com, F) /\ pgOff(r)' = pgOff(r)
    BY <1>1, <1>2, <2>6, <2>9, TakenKept, TakenStays
  <2>12. Taken(com, E) <= Taken(com, F) /\ Taken(com, E) \in Nat /\ Taken(com, F) \in Nat
    <3>1. E \subseteq F
      BY <2>8, <2>9, <2>10
    <3> QED
      BY <1>1, <3>1, TakenBounds
  <2>13. Taken(com, FromAll)' = Taken(com, FromAll)
    BY <2>7, <2>9, <2>11 DEF Taken
  <2>14. Taken(com, From(cur[2]))' = Taken(com, F)
    BY <2>10, <2>11 DEF Taken
  <2>15. pgOff(pgRes)' = pgOff(pgRes)
    BY <1>2, <2>9, <2>11 DEF pgOff
  <2>16. pgOff(pgRes) <= Taken(com, F)
    BY <1>2, <1>4, <2>9, <2>12
  <2> QED
    BY <1>2, <2>3, <2>13, <2>14, <2>15, <2>16 DEF AtRoom
<1>6. CASE ToCopy = {}
  <2>1. flash' = flash /\ pc' = IF call # NoCall THEN "header" ELSE "use"
    BY <1>6 DEF CopyMark
  <2>2. call # NoCall => pgOff(dst) + Size[call.id] <= PageSize
    <3> SUFFICES ASSUME call # NoCall PROVE pgOff(dst) + Size[call.id] <= PageSize
      OBVIOUS
    <3>1. Size[call.id] \in Nat /\ PageSize \in Nat /\ dst = pgRes
      BY <1>1, SizeAssumption DEF ForItem
    <3> QED
      BY <1>2, <1>4, <3>1
  <2>3. pgOff(dst)' = pgOff(dst)
    BY <1>2, <2>1 DEF pgOff
  <2> QED
    BY <1>2, <2>1, <2>2, <2>3 DEF AtRoom
<1> QED
  BY <1>5, <1>6

\* What it copies.
LEMMA RoomCopyItem ==
  ASSUME Reserve, Sound, Rooms, AtRoom, CopyItem
  PROVE  AtRoom'
<1>1. /\ PagesTyped /\ com \in Page /\ pgRes \in Page /\ com # pgRes /\ Item(cur).id \in Id
      /\ call # NoCall => ForItem /\ dst = pgRes
  BY DEF CopyItem, Reserve, Compacting, Filled
<1>2. /\ com' = com /\ pgRes' = pgRes /\ call' = call /\ cur' = cur /\ pc = "copyItem" /\ pc' = "copyChk"
      /\ WritesHeader(pgRes, Item(cur).id, Item(cur).val)
      /\ call # NoCall => Taken(com, FromAll) + Size[call.id] <= PageSize
  BY DEF CopyItem, AtRoom
<1>3. pgOff(pgRes) + Size[Item(cur).id] <= Taken(com, From(cur[2] + 1))
  BY <1>2, CopyRoom
<1>4. Item(cur).val \in Value \cup {NoValue, Garbage}
  <2>1. cur \in Named
    BY <1>2 DEF Sound, AtCopyItem, Copied, In
  <2> QED
    BY <1>1, <2>1, NamedPlaces
<1>5. PICK D, E, r, id : D = FromAll /\ E = From(cur[2] + 1) /\ r = pgRes /\ id = Item(cur).id
  OBVIOUS
<1>6. pgOff(r)' = pgOff(r) + Size[id] /\ SizesStay(com)
  BY <1>1, <1>2, <1>4, <1>5, HeaderSizes
<1>7. Taken(com, D)' = Taken(com, D) /\ Taken(com, E)' = Taken(com, E)
  BY <1>1, <1>2, <1>6, TakenKept
<1>8. In({com})' = In({com}) /\ \A x \in In({com}) : Other(x)' <=> Other(x)
  <2>1. PICK n : n = LastPlace(pgRes)'
    OBVIOUS
  <2>2. n[1] = pgRes /\ Named' = Named \cup {n} /\ \A x \in Named : Item(x)' = Item(x)
    BY <1>1, <1>2, <1>4, <2>1, ItemAdded
  <2> QED
    BY <1>1, <1>2, <2>2 DEF In, Other
<1>9. FromAll' = D /\ From(cur[2] + 1)' = E
  BY <1>2, <1>5, <1>8 DEF FromAll, From
<1>10. Taken(com, FromAll)' = Taken(com, FromAll) /\ Taken(com, From(cur[2] + 1))' = Taken(com, From(cur[2] + 1))
  BY <1>5, <1>7, <1>9 DEF Taken
<1>11. pgOff(pgRes)' = pgOff(pgRes) + Size[Item(cur).id]
  BY <1>2, <1>5, <1>6 DEF pgOff
<1> QED
  BY <1>2, <1>3, <1>10, <1>11 DEF AtRoom

\* What completes the copy.
LEMMA RoomCopyChk ==
  ASSUME Reserve, Sound, AtRoom, CopyChk
  PROVE  AtRoom'
<1>1. PICK n, D, E, r : n = LastPlace(pgRes) /\ D = FromAll /\ E = From(cur[2] + 1) /\ r = pgRes
  OBVIOUS
<1>2. /\ PagesTyped /\ com \in Page /\ r \in Page /\ n \in Named /\ WritesItem(n, [Item(n) EXCEPT !.good = TRUE])
  BY <1>1 DEF CopyChk, Reserve, Compacting, Filled, Sound, AtCopyChk, Fresh
<1>3. /\ com' = com /\ pgRes' = pgRes /\ call' = call /\ cur' = <<com, cur[2] + 1>> /\ pc' = "copy"
      /\ call # NoCall => Taken(com, FromAll) + Size[call.id] <= PageSize
      /\ pgOff(pgRes) <= Taken(com, From(cur[2] + 1))
  BY DEF CopyChk, AtRoom
<1>4. Named' = Named /\ \A x \in Named : Item(x)'.id = Item(x).id
  BY <1>2, FieldReplaced
<1>5. \A p \in Page : SizesStay(p)
  BY <1>2, ItemSizes DEF WritesIn
<1>6. FromAll' = D
  BY <1>1, <1>3, <1>4 DEF FromAll, In, Other
<1>7. From(cur[2])' = E
  BY <1>1, <1>3, <1>4 DEF From, In, Other
<1>8. Taken(com, D)' = Taken(com, D) /\ Taken(com, E)' = Taken(com, E) /\ pgOff(r)' = pgOff(r)
  BY <1>2, <1>3, <1>5, TakenKept, TakenStays
<1>9. Taken(com, FromAll)' = Taken(com, FromAll) /\ Taken(com, From(cur[2]))' = Taken(com, From(cur[2] + 1))
  BY <1>1, <1>6, <1>7, <1>8 DEF Taken
<1>10. pgOff(pgRes)' = pgOff(pgRes)
  BY <1>1, <1>3, <1>8 DEF pgOff
<1> QED
  BY <1>3, <1>9, <1>10 DEF AtRoom

\* The reserve page is erased before a compaction that was interrupted is done again.
LEMMA RoomEraseRes ==
  ASSUME Reserve, EraseRes
  PROVE  AtRoom'
<1>1. PagesTyped /\ pgRes \in Page /\ (com = NoPage \/ (com \in Page /\ com # pgRes)) /\ call = NoCall
  BY DEF EraseRes, Reserve, Compacting, Filled
<1>2. /\ com' = com /\ pgRes' = pgRes /\ call' = NoCall /\ Writes(pgRes, Blank)
      /\ pc' = IF com # NoPage THEN "copy" ELSE "dups"
  BY <1>1 DEF EraseRes
<1>3. pgOff(pgRes)' = 0
  <2>1. PICK r : r = pgRes
    OBVIOUS
  <2>2. pgOff(r)' = 0
    BY <1>1, <1>2, <2>1, BlankTyped, PageSizes
  <2> QED
    BY <1>2, <2>1, <2>2 DEF pgOff
<1>4. CASE com = NoPage
  BY <1>2, <1>4 DEF AtRoom
<1>5. CASE com # NoPage
  <2>1. PICK D : D = From(cur[2])'
    OBVIOUS
  <2>2. SizesStay(com)
    BY <1>1, <1>2, <1>5, BlankTyped, PageSizes
  <2>3. Taken(com, D)' = Taken(com, D) /\ Taken(com, D) \in Nat
    BY <1>1, <1>2, <1>5, <2>2, TakenKept, TakenBounds
  <2>4. Taken(com, From(cur[2]))' \in Nat
    BY <2>1, <2>3 DEF Taken
  <2> QED
    BY <1>2, <1>3, <1>5, <2>4 DEF AtRoom
<1> QED
  BY <1>4, <1>5

\* No other write has to find room.
LEMMA AtRoomKept == Reserve /\ Sound /\ Rooms /\ AtRoom /\ [Next]_vars => AtRoom'
<1> SUFFICES ASSUME Reserve, Sound, Rooms, AtRoom, [Next]_vars PROVE AtRoom'
  OBVIOUS
<1>1. ASSUME pc' \notin {"markPage", "copy", "copyItem", "copyChk", "header"} PROVE AtRoom'
  BY <1>1 DEF AtRoom
<1>2. ASSUME NEW kind \in {"init", "write"}, NEW id \in Id, NEW val \in Value, Begin(kind, id, val) PROVE AtRoom'
  BY <1>2, RoomBegin
<1>3. CASE UNCHANGED vars
  <2>1. Named' = Named /\ \A x : Item(x)' = Item(x)
    BY <1>3, FlashStays DEF vars
  <2>2. FromAll' = FromAll /\ From(cur[2])' = From(cur[2]) /\ From(cur[2] + 1)' = From(cur[2] + 1)
    BY <1>3, <2>1 DEF vars, ram, FromAll, From, In, Other
  <2>3. /\ Taken(com, FromAll)' = Taken(com, FromAll) /\ Taken(com, From(cur[2]))' = Taken(com, From(cur[2]))
        /\ Taken(com, From(cur[2] + 1))' = Taken(com, From(cur[2] + 1))
        /\ pgOff(pgRes)' = pgOff(pgRes) /\ pgOff(dst)' = pgOff(dst)
    BY <1>3, <2>2 DEF vars, ram, Taken, pgOff
  <2> QED
    BY <1>3, <2>3 DEF AtRoom, vars, ram
<1>4. ASSUME \/ \E id \in hotIds : ItemInitHot(id)
             \/ \E id \in Id \ hotIds : osal_nv_delete(id)
             \/ WriteHeader \/ MarkOld \/ WriteData \/ SetChk \/ PageUse \/ ErasePage \/ ZeroOld \/ Return
             \/ BootUse \/ BootScan \/ InitPages \/ InitDone \/ EraseMost \/ Crash
      PROVE  AtRoom'
  BY <1>1, <1>4 DEF ItemInitHot, osal_nv_delete, WriteHeader, MarkOld, WriteData, SetChk, AfterItem, PageUse, ErasePage,
                    ZeroOld, Return, BootUse, BootScan, InitPages, InitDone, EraseMost, Crash, ram
<1> QED
  BY <1>2, <1>3, <1>4, RoomMarkPage, RoomCopyMark, RoomCopyItem, RoomCopyChk, RoomEraseRes DEF Next, Writing, initNV


\* Pages and places are such.
PlaceType == Page \X Nat \cup {NoPlace}
PlacesTyped ==
  /\ pgRes \in Page \cup {NoPage} /\ dst \in Page \cup {NoPage} /\ com \in Page \cup {NoPage}
  /\ src \in PlaceType /\ cur \in PlaceType
  /\ findDups \in BOOLEAN

\* No step leads away from the pages.
LEMMA PlacesKept == Reserve /\ Sound /\ PlacesTyped /\ [Next]_vars => PlacesTyped'
<1> SUFFICES ASSUME Reserve, Sound, PlacesTyped, [Next]_vars PROVE PlacesTyped'
  OBVIOUS
<1> USE DEF PlacesTyped
<1>1. PagesTyped /\ 1 \in Page /\ Page \subseteq Nat
  BY PagesAssumption DEF Reserve, Page
<1>2. ASSUME NEW p \in Page, NEW n \in Nat PROVE <<p, n>> \in PlaceType
  BY <1>2 DEF PlaceType
<1>3. NoPlace \in PlaceType
  BY DEF PlaceType
<1>17. \A x \in Items : x \in PlaceType /\ <<x[1], x[2] + 1>> \in PlaceType
  <2> TAKE x \in Items
  <2>1. x = <<x[1], x[2]>> /\ x[1] \in Page /\ x[2] \in Nat
    BY <1>1, PlacesOfItems
  <2>2. x[2] + 1 \in Nat
    BY <2>1
  <2> QED
    BY <1>2, <2>1, <2>2
<1>4. \A id : findItem(id) \in PlaceType
  BY <1>1, <1>3, <1>17, ItemFound
<1>5. ASSUME NEW kind \in {"init", "write"}, NEW id \in Id, NEW val \in Value, Begin(kind, id, val) PROVE PlacesTyped'
  <2>1. pgRes \in Page /\ Fitting(Size[id]) # {} /\ com = NoPage
    BY <1>5 DEF Begin, Reserve, Reserved, Filled
  <2>2. Chosen(Size[id]) \in Page
    BY <2>1, ChosenFits
  <2> QED
    BY <1>4, <1>5, <2>1, <2>2 DEF Begin
<1>6. CASE (\E id \in hotIds : ItemInitHot(id)) \/ (\E id \in Id \ hotIds : osal_nv_delete(id))
  BY <1>4, <1>6 DEF ItemInitHot, osal_nv_delete
<1>7. CASE MarkPage
  <2>1. com \in Page
    BY <1>7 DEF MarkPage, Reserve, Compacting
  <2> QED
    BY <1>2, <1>7, <2>1 DEF MarkPage
<1>8. CASE CopyMark
  <2>1. ToCopy # {} => FirstOf(ToCopy) \in Items
    <3>1. ToCopy \in SUBSET Items
      BY DEF ToCopy
    <3> QED
      BY <1>1, <3>1, FirstOfIn
  <2> QED
    BY <1>17, <1>8, <2>1 DEF CopyMark
<1>9. CASE CopyChk
  <2>1. com \in Page /\ cur \in Named
    BY <1>9 DEF CopyChk, Reserve, Compacting, Sound, AtCopyChk, Copied, In
  <2>2. cur[2] + 1 \in Nat
    BY <1>1, <2>1, NamedPlaces
  <2> QED
    BY <1>2, <1>9, <2>1, <2>2 DEF CopyChk
<1>10. CASE CopyItem \/ WriteHeader \/ MarkOld \/ WriteData \/ SetChk \/ PageUse \/ ZeroOld
  BY <1>10 DEF CopyItem, WriteHeader, MarkOld, WriteData, SetChk, PageUse, ZeroOld
<1>11. CASE ErasePage \/ EraseRes \/ EraseMost
  <2>1. <<1, 1>> \in PlaceType /\ (com # NoPage => <<com, 1>> \in PlaceType)
    BY <1>1, <1>2
  <2> QED
    BY <1>11, <2>1 DEF ErasePage, EraseRes, EraseMost
<1>12. CASE Return \/ Crash
  BY <1>3, <1>12 DEF Return, Crash
<1>13. CASE BootUse \/ UNCHANGED vars
  BY <1>13 DEF BootUse, vars, ram
<1>14. CASE BootScan
  <2> DEFINE old == {p \in Page : flash[p].active /\ flash[p].xfer}
  <2>1. com' \in Page \cup {NoPage}
    <3>1. com' = HighestOf(old)
      BY <1>14 DEF BootScan
    <3>2. IF old = {} THEN HighestOf(old) = NoPage ELSE HighestOf(old) \in old
      BY HighestIn, Zenon
    <3> QED
      BY <3>1, <3>2
  <2>2. pgRes' \in Page \cup {NoPage}
    BY <1>1, <1>14, OneErased DEF BootScan
  <2>3. <<1, 1>> \in PlaceType
    BY <1>1, <1>2
  <2> QED
    BY <1>14, <2>1, <2>2, <2>3 DEF BootScan
<1>15. CASE InitPages
  <2> DEFINE T == {b \in Rest : Bad(b) \/ (IF findDups THEN New(b) ELSE Old(b))}
  <2>1. PICK a : a = FirstOf(T)
    OBVIOUS
  <2>2. a # NoPlace /\ (cur' = <<1, 1>> \/ cur' = <<a[1], a[2] + 1>>) /\ findDups' \in BOOLEAN
    BY <1>15, <2>1 DEF InitPages
  <2>3. a \in Items
    <3>1. T \in SUBSET Items /\ T # {}
      BY <2>1, <2>2 DEF FirstOf, Rest
    <3> HIDE DEF T
    <3> QED
      BY <1>1, <2>1, <3>1, FirstOfIn
  <2>4. <<1, 1>> \in PlaceType
    BY <1>1, <1>2
  <2> QED
    BY <1>17, <1>15, <2>2, <2>3, <2>4 DEF InitPages
<1>16. CASE InitDone
  <2>1. MostLost \in Page
    BY <1>1, MostLostPage
  <2> QED
    BY <1>3, <1>16, <2>1 DEF InitDone
<1> QED
  BY <1>5, <1>6, <1>7, <1>8, <1>9, <1>10, <1>11, <1>12, <1>13, <1>14, <1>15, <1>16 DEF Next, Writing, initNV

\* All of it holds of all that is reached.
LEMMA RoomInvariant == Spec => [](Rooms /\ AtRoom /\ PlacesTyped)
<1>1. Init => Rooms /\ AtRoom /\ PlacesTyped
  <2> SUFFICES ASSUME Init PROVE Rooms /\ AtRoom /\ PlacesTyped
    OBVIOUS
  <2>1. \A p \in Page : flash[p].items = <<>>
    BY DEF Init, Blank
  <2>2. Rooms
    <3>1. Named = {}
      BY <2>1 DEF Named, Items
    <3>2. \A p \in Page : pgOff(p) = 0
      BY <2>1, EmptyRoom DEF pgOff
    <3> QED
      BY <3>1, <3>2, SizeAssumption DEF Rooms
  <2> QED
    BY <2>2 DEF Init, AtRoom, PlacesTyped, PlaceType
<1> QED
  BY <1>1, RoomsKept, AtRoomKept, PlacesKept, SoundInvariant, ReserveInvariant, PTL DEF Spec

\* Every variable is of its type, and what compactPage and initItem write behind
\* the items of a page never goes beyond its end.
THEOREM WithinPages == Spec => []TypeOK
<1>1. Reserve /\ Sound /\ Placed /\ Rooms /\ PlacesTyped => TypeOK
  BY DEF Reserve, PagesTyped, Sound, HotTyped, Placed, Rooms, PlacesTyped, PlaceType, TypeOK
<1> QED
  BY <1>1, RoomInvariant, PlacedInvariant, SoundInvariant, ReserveInvariant, PTL

-----------------------------------------------------------------------------
(* The store that the items make up *)

\* The items a start would take the value of id from.
Good(id) == {x \in InUse : Item(x).id = id /\ Item(x).good}

\* The value of id is that of a good item which is not marked as old, or there
\* is none that is not.
Determined ==
  \A id \in Id :
    /\ Good(id) = {} => Stored(id) = NoValue
    /\ \A x \in Good(id) : (Item(x).xfer => \A y \in Good(id) : Item(y).xfer) => Stored(id) = Item(x).val

\* What osal_nv_read would find, with Paired, does not depend on where the items are.
LEMMA StoredIs == PagesTyped /\ Paired(InUse) => Determined
<1> SUFFICES ASSUME PagesTyped, Paired(InUse), NEW id \in Id
             PROVE  /\ Good(id) = {} => Stored(id) = NoValue
                    /\ \A x \in Good(id) : (Item(x).xfer => \A y \in Good(id) : Item(y).xfer)
                                           => Stored(id) = Item(x).val
  BY DEF Determined
<1> DEFINE good == {a \in Items : Item(a).id = id /\ Item(a).good /\ flash[a[1]].active}
           new == {a \in good : ~Item(a).xfer}
<1>1. Stored(id) = IF good = {} THEN NoValue ELSE Item(FirstOf(IF new # {} THEN new ELSE good)).val
  BY DEF Stored
<1>2. good = Good(id) /\ good \subseteq Items
  BY IdAssumption DEF Good, InUse, Named
<1>3. \A x \in good, y \in good : x # y => Item(x).xfer # Item(y).xfer
  BY <1>2 DEF Good, Paired
<1>4. ASSUME NEW x \in good, Item(x).xfer => \A y \in good : Item(y).xfer
      PROVE  Stored(id) = Item(x).val
  <2> DEFINE S == IF new # {} THEN new ELSE good
  <2>1. \A y \in good : Item(y).xfer \in BOOLEAN
    BY <1>2, NamedPlaces DEF Good, InUse
  <2>2. S = {x}
    BY <1>3, <1>4, <2>1
  <2>3. S \in SUBSET Items /\ S # {}
    BY <1>2, <2>2
  <2>4. Stored(id) = Item(FirstOf(S)).val
    BY <1>1, <2>2
  <2> HIDE DEF S
  <2>5. FirstOf(S) \in S
    BY <2>3, FirstOfIn
  <2> QED
    BY <2>2, <2>4, <2>5
<1> HIDE DEF good, new
<1> QED
  BY <1>1, <1>2, <1>4

\* Before each write the items in use are in pairs.
LEMMA InUsePaired == Reserve /\ Sound => Determined /\ Paired(InUse)
<1> SUFFICES ASSUME Reserve, Sound PROVE Paired(InUse)
  BY StoredIs DEF Reserve
<1>1. PagesTyped /\ \A x \in Named : Item(x).xfer \in BOOLEAN /\ Item(x).good \in BOOLEAN /\ x[1] \in Page
  BY NamedPlaces DEF Reserve
<1>2. InUse \subseteq Named
  BY DEF InUse
<1>3. ASSUME NEW S, NEW T, T \subseteq S, Clean(S) \/ Paired(S) PROVE Paired(T)
  BY <1>3 DEF Clean, Paired
<1>4. ~flash[pgRes].active => InUse \subseteq Live
  BY <1>1 DEF InUse, Live, In
<1>5. CASE pc = "boot"
  <2>1. Virgin => InUse = {}
    BY <1>2 DEF Virgin
  <2> QED
    BY <1>5, <2>1 DEF Sound, AtBoot, Recoverable, Paired
<1>6. CASE pc \in {"ready", "return", "markPage", "eraseMost"}
  BY <1>2, <1>3, <1>6 DEF Sound, AtRest, AtMark, AtEraseMost, Kept
<1>7. CASE pc \in {"copy", "copyItem", "copyChk", "header", "use"}
  BY <1>3, <1>4, <1>7 DEF Sound, AtCopy, AtCopyItem, AtCopyChk, AtHeader, AtUse, Copying, Work
<1>8. CASE pc \in {"markOld", "data", "chk"}
  <2>1. Clean(Live \ {LastPlace(dst)}) /\ Fresh(dst) /\ InUse \subseteq Live
    BY <1>4, <1>8 DEF Sound, AtWrite, Work
  <2>2. Paired(Live)
    BY <2>1 DEF Clean, Paired, Fresh
  <2> QED
    BY <1>3, <2>1, <2>2
<1>9. CASE pc \in {"erase", "zeroOld", "dups"}
  BY <1>2, <1>3, <1>9 DEF Sound, AtErase, AtZeroOld, AtDups
<1>10. CASE pc = "eraseRes"
  BY <1>3, <1>4, <1>10 DEF Sound, AtEraseRes
<1> QED
  BY <1>5, <1>6, <1>7, <1>8, <1>9, <1>10 DEF Reserve

\* The value of id stays if its good items do, or if those that go have a newer
\* copy; one that has none may be marked as old.
LEMMA ValueStays ==
  ASSUME Reserve, Sound, Reserve', Sound', NEW id \in Id,
         \A x \in Good(id)' : /\ x \in Good(id) /\ Item(x)'.val = Item(x).val
                              /\ Item(x)'.xfer = Item(x).xfer \/ Good(id) = {x},
         \A x \in Good(id) : x \in Good(id)' \/ \E y \in Good(id)' : y # x /\ ~Item(y).xfer
  PROVE  Stored(id)' = Stored(id)
<1>1. Determined /\ Paired(InUse)
  BY InUsePaired
<1>2. (Determined /\ Paired(InUse))'
  BY InUsePaired, PTL
<1>3. CASE Good(id) = {}
  <2>1. Good(id)' = {}
    BY <1>3
  <2> QED
    BY <1>1, <1>2, <1>3, <2>1 DEF Determined
<1>4. CASE Good(id) # {}
  <2>1. PICK x \in Good(id) : Item(x).xfer => \A y \in Good(id) : Item(y).xfer
    BY <1>4
  <2>2. Stored(id) = Item(x).val
    BY <1>1, <2>1 DEF Determined
  <2>3. \A y \in Good(id) : y # x => Item(x).xfer # Item(y).xfer
    BY <1>1, <2>1 DEF Paired, Good
  <2>t. \A y \in Good(id) : Item(y).xfer \in BOOLEAN
    BY NamedPlaces DEF Good, InUse, Reserve
  <2>4. x \in Good(id)'
    BY <2>1, <2>3, <2>t
  <2>5. Item(x)'.val = Item(x).val
    BY <2>4
  <2>6. Item(x)'.xfer => \A y \in Good(id)' : Item(y)'.xfer
    BY <2>1, <2>3, <2>4
  <2>7. \A y \in Good(id)' : (Item(y)'.xfer => \A z \in Good(id)' : Item(z)'.xfer) => Stored(id)' = Item(y)'.val
    BY <1>2 DEF Determined
  <2> QED
    BY <2>2, <2>4, <2>5, <2>6, <2>7
<1> QED
  BY <1>3, <1>4

\* A good item that is not marked as old gives its value.
LEMMA ValueGiven ==
  ASSUME Reserve', Sound', NEW id \in Id, NEW x \in Good(id)', ~Item(x)'.xfer
  PROVE  Stored(id)' = Item(x)'.val
<1>1. (Determined /\ Paired(InUse))'
  BY InUsePaired, PTL
<1> QED
  BY <1>1 DEF Determined

\* The store, as a start would find it.
Held == [id \in Id |-> Stored(id)]

\* Nothing is lost where no good item is new and none goes but for one with a
\* newer copy.
LEMMA NothingLost ==
  ASSUME Reserve, Sound, Reserve', Sound',
         \A x \in InUse' : Item(x)'.good =>
            /\ x \in InUse /\ Item(x).good /\ Item(x)'.id = Item(x).id /\ Item(x)'.val = Item(x).val
            /\ \/ Item(x)'.xfer = Item(x).xfer
               \/ \A y \in InUse : Item(y).good /\ Item(y).id = Item(x).id => y = x,
         \A x \in InUse : Item(x).good =>
            \/ x \in InUse' /\ Item(x)'.good
            \/ \E y \in InUse' : y # x /\ Item(y)'.good /\ Item(y).id = Item(x).id /\ ~Item(y).xfer
  PROVE  Held' = Held
<1>1. ASSUME NEW id \in Id PROVE Stored(id)' = Stored(id)
  <2>1. \A x : x \in Good(id)' <=> x \in InUse' /\ Item(x)'.id = id /\ Item(x)'.good
    BY DEF Good
  <2>2. \A x : x \in Good(id) <=> x \in InUse /\ Item(x).id = id /\ Item(x).good
    BY DEF Good
  <2>3. \A x \in Good(id)' : /\ x \in Good(id) /\ Item(x)'.val = Item(x).val
                             /\ Item(x)'.xfer = Item(x).xfer \/ Good(id) = {x}
    BY <2>1, <2>2
  <2>4. \A x \in Good(id) : x \in Good(id)' \/ \E y \in Good(id)' : y # x /\ ~Item(y).xfer
    BY <2>1, <2>2
  <2> QED
    BY <2>3, <2>4, ValueStays
<1> QED
  BY <1>1 DEF Held

\* The items of the pages in use, where no header is written.
LEMMA InUseStays ==
  ASSUME PagesTyped, HeadersStay
  PROVE  /\ Named' = Named => InUse' = InUse
         /\ \A x \in Named : x \in Named' => (x \in InUse' <=> x \in InUse)
<1>1. \A x \in Named : x[1] \in Page
  BY NamedPlaces
<1> QED
  BY <1>1 DEF InUse, HeadersStay

\* Where nothing is written nothing changes.
LEMMA HeldStays ==
  ASSUME flash' = flash
  PROVE  Held' = Held
<1>1. Items' = Items /\ \A x : Item(x)' = Item(x)
  BY FlashStays
<1>2. \A id \in Id : Stored(id)' = Stored(id)
  BY <1>1 DEF Stored, Item
<1> QED
  BY <1>2 DEF Held

-----------------------------------------------------------------------------
(* What the writes to the flash do to the store *)

\* A page is marked.
LEMMA HeldMarkPage ==
  ASSUME Reserve, Sound, Reserve', Sound', MarkPage
  PROVE  Held' = Held
<1> DEFINE page == [flash[com] EXCEPT !.xfer = TRUE]
<1>1. PagesTyped /\ com \in Page /\ flash[com] \in PageType
  BY DEF MarkPage, Reserve, Compacting, PagesTyped
<1>2. page \in PageType /\ page.items = flash[com].items /\ page.active = flash[com].active
  <2> HIDE DEF ItemType
  <2> QED
    BY <1>1 DEF PageType
<1>3. Writes(com, page)
  BY DEF MarkPage
<1> HIDE DEF page
<1>4. /\ Named' = Named /\ \A x \in Items : Item(x)' = Item(x)
      /\ flash'[com] = page /\ \A q \in Page \ {com} : flash'[q] = flash[q]
  BY <1>1, <1>2, <1>3, PageReplaced
<1>5. \A x \in Named : x \in Items /\ x[1] \in Page
  BY <1>1, NamedPlaces
<1>6. InUse' = InUse /\ InUse \subseteq Items
  BY <1>2, <1>4, <1>5 DEF InUse
<1> QED
  BY <1>4, <1>6, NothingLost

\* An item is marked as old before it is copied: there is no other one.
LEMMA HeldCopyMark ==
  ASSUME Reserve, Sound, Reserve', Sound', CopyMark
  PROVE  Held' = Held
<1>1. PagesTyped /\ pgRes \in Page /\ com # pgRes /\ com \in Page /\ Clean(Live) /\ ~flash[pgRes].active
  BY DEF CopyMark, Reserve, Sound, AtCopy, Copying, Work, Compacting, Filled
<1>2. CASE ToCopy = {}
  BY <1>2, HeldStays DEF CopyMark
<1>3. CASE ToCopy # {}
  <2>1. PICK a : a = FirstOf(ToCopy)
    OBVIOUS
  <2>2. a \in ToCopy
    <3>1. ToCopy \in SUBSET Items
      BY DEF ToCopy
    <3> QED
      BY <1>1, <1>3, <2>1, <3>1, FirstOfIn
  <2>3. WritesItem(a, [Item(a) EXCEPT !.xfer = TRUE])
    BY <1>3, <2>1 DEF CopyMark
  <2>4. a \in Named /\ a[1] = com
    BY <2>2 DEF ToCopy, Named
  <2>5. /\ HeadersStay /\ Named' = Named
        /\ \A x \in Named : /\ Item(x)'.id = Item(x).id /\ Item(x)'.val = Item(x).val
                            /\ Item(x)'.good = Item(x).good
                            /\ x # a => Item(x)'.xfer = Item(x).xfer
    BY <1>1, <2>3, <2>4, FieldReplaced
  <2>6. InUse' = InUse /\ InUse \subseteq Named
    BY <1>1, <2>5, InUseStays DEF InUse
  <2>7. InUse \subseteq Live
    BY <1>1, NamedPlaces DEF InUse, Live, In
  <2>8. a \in Live
    BY <1>1, <2>4 DEF Live, In
  <2>9. \A y \in InUse : Item(y).id = Item(a).id => y = a
    BY <1>1, <2>7, <2>8 DEF Clean
  <2> QED
    BY <2>5, <2>6, <2>9, NothingLost
<1> QED
  BY <1>2, <1>3

\* An item that is not good yet is added.
LEMMA HeldAdded ==
  ASSUME Reserve, Sound, Reserve', Sound', NEW p \in Page, NEW id \in Id, NEW val \in Value \cup {NoValue, Garbage},
         WritesHeader(p, id, val)
  PROVE  Held' = Held
<1>1. PagesTyped
  BY DEF Reserve
<1>2. PICK n : n = LastPlace(p)'
  OBVIOUS
<1>3. /\ HeadersStay /\ Named' = Named \cup {n} /\ \A x \in Named : Item(x)' = Item(x)
      /\ ~Item(LastPlace(p))'.good
  BY <1>1, <1>2, ItemAdded
<1>4. ~Item(n)'.good
  BY <1>2, <1>3 DEF Item
<1>5. \A x \in Named : x \in InUse' <=> x \in InUse
  BY <1>1, <1>3, InUseStays
<1>6. \A x \in InUse' : x = n \/ x \in InUse
  BY <1>3, <1>5 DEF InUse
<1>7. InUse \subseteq Named
  BY DEF InUse
<1> QED
  BY <1>3, <1>4, <1>5, <1>6, <1>7, NothingLost

\* A copy is written in the reserve page, which is not in use yet.
LEMMA HeldCopyItem ==
  ASSUME Reserve, Sound, Reserve', Sound', CopyItem
  PROVE  Held' = Held
<1>1. PagesTyped /\ pgRes \in Page /\ cur \in Named
  BY DEF CopyItem, Reserve, Sound, AtCopyItem, Compacting, Filled, Copied, In
<1>2. Item(cur).id \in Id /\ Item(cur).val \in Value \cup {NoValue, Garbage}
  BY <1>1, NamedPlaces
<1> QED
  BY <1>1, <1>2, HeldAdded DEF CopyItem

\* Its checksum is.
LEMMA HeldCopyChk ==
  ASSUME Reserve, Sound, Reserve', Sound', CopyChk
  PROVE  Held' = Held
<1>1. PICK n : n = LastPlace(pgRes)
  OBVIOUS
<1>2. PagesTyped /\ n \in Named /\ ~flash[pgRes].active
  BY <1>1 DEF CopyChk, Reserve, Sound, AtCopyChk, Copying, Work, Fresh
<1>3. WritesItem(n, [Item(n) EXCEPT !.good = TRUE])
  BY <1>1 DEF CopyChk
<1>4. /\ HeadersStay /\ Named' = Named
      /\ \A x \in Named : /\ Item(x)'.id = Item(x).id /\ Item(x)'.val = Item(x).val
                          /\ x # n => Item(x)'.good = Item(x).good
                          /\ Item(x)'.xfer = Item(x).xfer
  BY <1>2, <1>3, FieldReplaced
<1>5. InUse' = InUse /\ InUse \subseteq Named
  BY <1>2, <1>4, InUseStays DEF InUse
<1>6. n \notin InUse
  BY <1>1, <1>2 DEF InUse, LastPlace
<1> QED
  BY <1>4, <1>5, <1>6, NothingLost

\* The new item is added, not good yet.
LEMMA HeldWriteHeader ==
  ASSUME Reserve, Sound, Reserve', Sound', WriteHeader
  PROVE  Held' = Held
<1>1. dst \in Page /\ call.id \in Id
  BY DEF WriteHeader, Reserve, Compacting, Reserved, Filled, ForItem
<1> QED
  BY <1>1, HeldAdded DEF WriteHeader

\* The old item is marked: there is no other one.
LEMMA HeldMarkOld ==
  ASSUME Reserve, Sound, Reserve', Sound', MarkOld
  PROVE  Held' = Held
<1>1. PICK n, o : n = LastPlace(dst) /\ o = src
  OBVIOUS
<1>2. pc = "markOld" /\ call.kind = "write"
  BY DEF MarkOld, Sound, AtWrite
<1>3. /\ PagesTyped /\ n \in Named /\ ~Item(n).good /\ Work /\ Clean(Live \ {n}) /\ Replaces(Live \ {n})
      /\ call # NoCall
  BY <1>1, <1>2, NewItem
<1>4. o \in Live \ {n} /\ o \in Named
  BY <1>1, <1>2, <1>3 DEF Replaces, Live, In
<1>5. WritesItem(o, [Item(o) EXCEPT !.xfer = TRUE])
  BY <1>1 DEF MarkOld
<1>6. /\ HeadersStay /\ Named' = Named
      /\ \A x \in Named : /\ Item(x)'.id = Item(x).id /\ Item(x)'.val = Item(x).val
                          /\ Item(x)'.good = Item(x).good
                          /\ x # o => Item(x)'.xfer = Item(x).xfer
  BY <1>3, <1>4, <1>5, FieldReplaced
<1>7. InUse' = InUse /\ InUse \subseteq Named
  BY <1>3, <1>6, InUseStays DEF InUse
<1>8. InUse \subseteq Live
  BY <1>3, NamedPlaces DEF InUse, Live, In, Work
<1>9. \A y \in InUse : Item(y).good /\ Item(y).id = Item(o).id => y = o
  BY <1>3, <1>4, <1>8 DEF Clean
<1> QED
  BY <1>6, <1>7, <1>9, NothingLost

\* The data of an item that is not good yet.
LEMMA HeldWriteData ==
  ASSUME Reserve, Sound, Reserve', Sound', WriteData
  PROVE  Held' = Held
<1>1. PICK n, v : n = LastPlace(dst) /\ v = call.val
  OBVIOUS
<1>2. PagesTyped /\ n \in Named /\ ~Item(n).good /\ v \in Value
  BY <1>1, NewItem DEF WriteData
<1>3. WritesItem(n, [Item(n) EXCEPT !.val = v])
  BY <1>1 DEF WriteData
<1>4. /\ HeadersStay /\ Named' = Named
      /\ \A x \in Named : /\ Item(x)'.id = Item(x).id
                          /\ x # n => Item(x)'.val = Item(x).val
                          /\ Item(x)'.good = Item(x).good /\ Item(x)'.xfer = Item(x).xfer
  BY <1>2, <1>3, FieldReplaced
<1>5. InUse' = InUse /\ InUse \subseteq Named
  BY <1>2, <1>4, InUseStays DEF InUse
<1> QED
  BY <1>2, <1>4, <1>5, NothingLost

\* The call under way takes effect.
TakesEffect == \A id \in Id : Stored(id)' = IF id = call.id THEN call.val ELSE Stored(id)

\* What is known of the call, and of the old item until it is zeroed.
AtCall ==
  /\ call \in Store!Call \cup {NoCall, Succeeded}
  /\ pc \in {"boot", "dups", "eraseRes", "eraseMost"} => call = NoCall
  /\ pc = "ready" => call \in {NoCall, Succeeded}
  /\ pc \in {"markPage", "header", "markOld", "data", "chk", "zeroOld", "return"} => call \in Store!Call
  /\ pc \in {"copy", "copyItem", "copyChk", "use", "erase"} => call # Succeeded
  /\ pc = "zeroOld" => Item(src).id = call.id /\ (call.kind = "delete" => Clean(Named))
  /\ pc = "erase" /\ call # NoCall /\ Outdated => Item(src).id = call.id

\* The checksum of the new item: it counts, unless its page is not in use yet.
LEMMA HeldSetChk ==
  ASSUME Reserve, Sound, Reserve', Sound', SetChk
  PROVE  Held' = Held \/ TakesEffect
<1>1. PICK n, id, val : n = LastPlace(dst) /\ id = call.id /\ val = call.val
  OBVIOUS
<1>2. /\ PagesTyped /\ n \in Named /\ n[1] = dst /\ dst \in Page /\ ~Item(n).good /\ ~Item(n).xfer
      /\ Item(n).id = id /\ id \in Id /\ Work
  BY <1>1, NewItem DEF SetChk
<1>3. Item(n).val = val /\ IF com = NoPage THEN Reserved /\ dst # pgRes ELSE dst = pgRes
  BY <1>1 DEF SetChk, Reserve, Sound, AtWrite
<1>4. WritesItem(n, [Item(n) EXCEPT !.good = TRUE])
  BY <1>1 DEF SetChk
<1>5. /\ HeadersStay /\ Named' = Named
      /\ \A x \in Named : /\ Item(x)'.id = Item(x).id /\ Item(x)'.val = Item(x).val
                          /\ x # n => Item(x)'.good = Item(x).good
                          /\ Item(x)'.xfer = Item(x).xfer
      /\ Item(n)'.good
  BY <1>2, <1>4, FieldReplaced
<1>6. InUse' = InUse /\ InUse \subseteq Named
  BY <1>2, <1>5, InUseStays DEF InUse
<1>7. CASE com # NoPage
  <2>1. n \notin InUse
    BY <1>2, <1>3, <1>7 DEF InUse, Work
  <2> QED
    BY <1>5, <1>6, <2>1, NothingLost
<1>8. CASE com = NoPage
  <2>1. n \in InUse
    BY <1>2, <1>3, <1>8 DEF InUse, Reserved, Filled
  <2>2. Stored(id)' = val
    <3>1. n \in Good(id)' /\ ~Item(n)'.xfer /\ Item(n)'.val = val
      BY <1>2, <1>3, <1>5, <1>6, <2>1 DEF Good
    <3> QED
      BY <1>2, <3>1, ValueGiven
  <2>3. ASSUME NEW other \in Id \ {id} PROVE Stored(other)' = Stored(other)
    <3>1. \A x : x \in Good(other)' <=> x \in Good(other)
      BY <1>2, <1>5, <1>6 DEF Good
    <3>2. \A x \in Good(other) : Item(x)'.val = Item(x).val /\ Item(x)'.xfer = Item(x).xfer
      BY <1>5, <1>6 DEF Good
    <3> QED
      BY <3>1, <3>2, ValueStays
  <2> QED
    BY <1>1, <2>2, <2>3 DEF TakesEffect
<1> QED
  BY <1>7, <1>8

\* The reserve page is put in use: with the copies nothing changes, and the new
\* item counts.
LEMMA HeldPageUse ==
  ASSUME Reserve, Sound, Reserve', Sound', PageUse
  PROVE  IF call = NoCall THEN Held' = Held ELSE TakesEffect
<1> DEFINE page == [flash[pgRes] EXCEPT !.active = TRUE, !.inUse = TRUE]
<1>1. PICK n, S : n = LastPlace(pgRes) /\ S = IF call = NoCall THEN In({pgRes}) ELSE In({pgRes}) \ {n}
  OBVIOUS
<1>2. PICK D : D = FromAll
  OBVIOUS
<1>3. /\ PagesTyped /\ pgRes \in Page /\ com \in Page /\ com # pgRes /\ ~flash[pgRes].active
      /\ \A p \in Page \ {pgRes} : flash[p].active
      /\ Clean(Live) /\ To(S, D)
      /\ call # NoCall => n \in Named /\ Written(n)
  BY <1>1, <1>2 DEF PageUse, Reserve, Sound, AtUse, Copying, Work, Compacting, Filled
<1>4. page \in PageType /\ page.items = flash[pgRes].items /\ page.active
  <2>1. flash[pgRes] \in PageType
    BY <1>3 DEF PagesTyped
  <2> HIDE DEF ItemType
  <2> QED
    BY <2>1 DEF PageType
<1>5. Writes(pgRes, page)
  BY DEF PageUse
<1> HIDE DEF page
<1>6. /\ Named' = Named /\ \A x \in Items : Item(x)' = Item(x)
      /\ flash'[pgRes] = page /\ \A q \in Page \ {pgRes} : flash'[q] = flash[q]
  BY <1>3, <1>4, <1>5, PageReplaced
<1>7. \A x \in Named : x \in Items /\ x[1] \in Page
  BY <1>3, NamedPlaces
<1>8. /\ InUse' = Named /\ InUse = Live /\ Named = Live \cup In({pgRes}) /\ D \subseteq Live /\ S \subseteq Named
      /\ Live \subseteq Named /\ \A x \in Named : Item(x)' = Item(x)
  BY <1>1, <1>2, <1>3, <1>4, <1>6, <1>7 DEF InUse, Live, In, FromAll
<1>9. ASSUME NEW id \in Id, call # NoCall, id = call.id PROVE Stored(id)' = call.val
  <2>1. n \in Good(id)' /\ ~Item(n)'.xfer /\ Item(n)'.val = call.val
    BY <1>3, <1>8, <1>9 DEF Good, Written
  <2> QED
    BY <2>1, ValueGiven
<1>10. ASSUME NEW id \in Id, call = NoCall \/ id # call.id PROVE Stored(id)' = Stored(id)
  <2>1. CASE \E y \in S : Item(y).id = id
    <3>1. PICK y \in S : Item(y).id = id
      BY <2>1
    <3>2. PICK x \in D : Item(x).id = id /\ Item(x).val = Item(y).val
      BY <1>3, <3>1 DEF To
    <3>3. Stored(id) = Item(x).val
      <4>1. Good(id) = {x}
        BY <1>3, <1>8, <3>2 DEF Good, Clean
      <4>2. Determined
        BY InUsePaired
      <4> QED
        BY <4>1, <4>2 DEF Determined
    <3>4. Stored(id)' = Item(y)'.val
      <4>1. Item(y).good /\ ~Item(y).xfer
        BY <1>3, <3>1 DEF To, Clean
      <4>2. y \in InUse' /\ Item(y)' = Item(y)
        BY <1>8, <3>1
      <4>3. y \in Good(id)' /\ ~Item(y)'.xfer
        BY <3>1, <4>1, <4>2 DEF Good
      <4> QED
        BY <4>3, ValueGiven
    <3> QED
      BY <1>8, <3>1, <3>2, <3>3, <3>4
  <2>2. CASE \A y \in S : Item(y).id # id
    <3>1. \A x \in In({pgRes}) : Item(x).id # id
      BY <1>1, <1>3, <1>10, <2>2 DEF Written
    <3>2. \A x : x \in Good(id)' <=> x \in Good(id)
      BY <1>8, <3>1 DEF Good
    <3>3. \A x \in Good(id) : Item(x)' = Item(x)
      BY <1>8 DEF Good
    <3> QED
      BY <3>2, <3>3, ValueStays
  <2> QED
    BY <2>1, <2>2
<1>11. CASE call = NoCall
  BY <1>10, <1>11 DEF Held
<1>12. CASE call # NoCall
  BY <1>9, <1>10, <1>12 DEF TakesEffect
<1> QED
  BY <1>11, <1>12

\* The compacted page is erased: other pages hold all that is in it.
LEMMA HeldErasePage ==
  ASSUME Reserve, Sound, Reserve', Sound', ErasePage
  PROVE  Held' = Held
<1>1. PagesTyped /\ com \in Page /\ Covered(com) /\ \A p \in Page \ {com} : flash[p].active
  BY DEF ErasePage, Reserve, Sound, AtErase
<1>2. Writes(com, Blank)
  BY DEF ErasePage
<1>3. /\ Named' = In(Page \ {com}) /\ \A x \in Named' : Item(x)' = Item(x)
      /\ flash'[com] = Blank /\ \A q \in Page \ {com} : flash'[q] = flash[q]
  BY <1>1, <1>2, PageErased
<1>4. \A x \in Named : x[1] \in Page
  BY <1>1, NamedPlaces
<1>5. InUse' = In(Page \ {com}) /\ InUse' \subseteq InUse /\ \A x \in InUse : x \in InUse' \/ x \in In({com})
  BY <1>1, <1>3, <1>4 DEF InUse, In
<1>6. \A x \in In({com}) : \E y \in InUse' : y # x /\ Item(y)'.good /\ Item(y).id = Item(x).id /\ ~Item(y).xfer
  <2> TAKE x \in In({com})
  <2>1. PICK y \in In(Page \ {com}) : Item(y).id = Item(x).id /\ Item(y).good /\ ~Item(y).xfer
    BY <1>1 DEF Covered
  <2>2. y # x /\ Item(y)' = Item(y)
    BY <1>3, <2>1 DEF In
  <2> QED
    BY <1>5, <2>1, <2>2
<1> QED
  BY <1>3, <1>5, <1>6, NothingLost

\* The old item is zeroed: the new one counts already, or the item is deleted.
LEMMA HeldZeroOld ==
  ASSUME Reserve, Sound, Reserve', Sound', AtCall, ZeroOld
  PROVE  Held' = Held \/ TakesEffect
<1>1. PICK o, id : o = src /\ id = call.id
  OBVIOUS
<1>2. /\ PagesTyped /\ o \in Named /\ Reserved /\ Item(o).id = id
      /\ call.kind # "delete" => \E y \in Named \ {o} : Written(y)
      /\ call.kind = "delete" => Clean(Named)
      /\ call \in Store!Call
  BY <1>1 DEF ZeroOld, Reserve, Sound, AtZeroOld, AtCall
<1>3. Zeroes(o)
  BY <1>1 DEF ZeroOld
<1>4. HeadersStay /\ Named' = Named \ {o} /\ \A x \in Named \ {o} : Item(x)' = Item(x)
  BY <1>2, <1>3, FieldReplaced
<1>5. InUse = Named
  BY <1>2, NamedPlaces DEF InUse, Reserved, Filled
<1>6. InUse' = Named \ {o}
  <2>1. \A x \in Named : x \in Named' => (x \in InUse' <=> x \in InUse)
    BY <1>2, <1>4, InUseStays
  <2>2. \A x \in InUse' : x \in Named'
    BY DEF InUse
  <2> QED
    BY <1>4, <1>5, <2>1, <2>2
<1>7. CASE call.kind # "delete"
  <2>1. PICK y \in Named \ {o} : Written(y)
    BY <1>2, <1>7
  <2>2. y \in InUse' /\ Item(y)'.good /\ ~Item(y).xfer /\ Item(y).id = Item(o).id
    BY <1>1, <1>2, <1>4, <1>6, <2>1 DEF Written
  <2> QED
    BY <1>4, <1>5, <1>6, <2>1, <2>2, NothingLost
<1>8. CASE call.kind = "delete"
  <2>1. call.val = NoValue /\ id \in Id
    BY <1>1, <1>2, <1>8 DEF Store!Call
  <2>2. Stored(id)' = NoValue
    <3>1. Good(id)' = {}
      BY <1>2, <1>4, <1>6, <1>8 DEF Good, Clean
    <3>2. Determined'
      BY InUsePaired, PTL
    <3> QED
      BY <2>1, <3>1, <3>2 DEF Determined
  <2>3. ASSUME NEW other \in Id \ {id} PROVE Stored(other)' = Stored(other)
    <3>1. \A x : x \in Good(other)' <=> x \in Good(other)
      BY <1>2, <1>4, <1>5, <1>6 DEF Good
    <3>2. \A x \in Good(other) : Item(x)' = Item(x)
      BY <1>2, <1>4, <1>5, <2>1 DEF Good
    <3> QED
      BY <3>1, <3>2, ValueStays
  <2> QED
    BY <1>1, <2>1, <2>2, <2>3 DEF TakesEffect
<1> QED
  BY <1>7, <1>8

\* A page that was never written is put in use.
LEMMA HeldBootUse ==
  ASSUME Reserve, Sound, Reserve', Sound', BootUse
  PROVE  Held' = Held
<1>1. PagesTyped /\ (Virgin \/ Recoverable) /\ Cardinality(Erased) > 1
  BY DEF BootUse, Reserve, Sound, AtBoot
<1>2. ~Recoverable
  <2> SUFFICES ASSUME \A p \in Erased, q \in Erased : p = q PROVE FALSE
    BY DEF Recoverable
  <2>1. CASE Erased = {}
    BY <1>1, <2>1, FS_EmptySet
  <2>2. CASE Erased # {}
    <3>1. PICK p : Erased = {p}
      BY <2>2
    <3> QED
      BY <1>1, <3>1, FS_Singleton
  <2> QED
    BY <2>1, <2>2
<1>3. Named = {}
  BY <1>1, <1>2 DEF Virgin
<1>4. PICK p : p = LowestOf(Erased \ {LowestOf(Erased)})
  OBVIOUS
<1> DEFINE page == [flash[p] EXCEPT !.active = TRUE, !.inUse = TRUE]
<1>5. Writes(p, page)
  BY <1>4 DEF BootUse
<1>6. CASE p \in Page
  <2>1. page \in PageType /\ page.items = flash[p].items
    <3>1. flash[p] \in PageType
      BY <1>1, <1>6 DEF PagesTyped
    <3> HIDE DEF ItemType
    <3> QED
      BY <3>1 DEF PageType
  <2> HIDE DEF page
  <2>2. Named' = {}
    BY <1>1, <1>3, <1>5, <1>6, <2>1, PageReplaced
  <2>3. InUse' = {} /\ InUse = {}
    BY <1>3, <2>2 DEF InUse
  <2> QED
    BY <2>3, NothingLost
<1>7. CASE p \notin Page
  <2>1. flash' = flash
    BY <1>1, <1>5, <1>7 DEF Writes, PagesTyped
  <2> QED
    BY <2>1, HeldStays
<1> QED
  BY <1>6, <1>7

\* The reserve page is erased, which is not in use.
LEMMA HeldEraseRes ==
  ASSUME Reserve, Sound, Reserve', Sound', EraseRes
  PROVE  Held' = Held
<1>1. PagesTyped /\ pgRes \in Page /\ ~flash[pgRes].active
  BY DEF EraseRes, Reserve, Sound, AtEraseRes, Filled
<1>2. Writes(pgRes, Blank)
  BY DEF EraseRes
<1>3. /\ Named' = {x \in Named : x[1] # pgRes} /\ \A x \in Named' : Item(x)' = Item(x)
      /\ flash'[pgRes] = Blank /\ \A q \in Page \ {pgRes} : flash'[q] = flash[q]
  BY <1>1, <1>2, PageErased
<1>4. \A x \in Named : x[1] \in Page
  BY <1>1, NamedPlaces
<1>5. InUse' = InUse /\ \A x \in InUse : Item(x)' = Item(x)
  BY <1>1, <1>3, <1>4 DEF InUse
<1> QED
  BY <1>5, NothingLost

\* What initNV zeroes is bad, or has a newer copy.
LEMMA HeldInitPages ==
  ASSUME Reserve, Sound, Reserve', Sound', InitPages
  PROVE  Held' = Held
<1> DEFINE T == {b \in Rest : Bad(b) \/ (IF findDups THEN New(b) ELSE Old(b))}
<1>1. PICK a : a = FirstOf(T)
  OBVIOUS
<1>2. /\ pc = "dups" /\ a # NoPlace
      /\ IF Bad(a) THEN Zeroes(a)
         ELSE IF findDups THEN Zeroes(FirstOf(Copies(Item(a).id, TRUE)))
         ELSE flash' = flash
  BY <1>1 DEF InitPages
<1>3. PagesTyped /\ IF pgRes = NoPage THEN \A p \in Page : flash[p].active ELSE Reserved
  BY <1>2 DEF Reserve
<1>4. a \in T
  <2>1. T # {} /\ T \in SUBSET Items
    BY <1>1, <1>2 DEF FirstOf, Rest
  <2> HIDE DEF T
  <2> QED
    BY <1>1, <1>3, <2>1, FirstOfIn
<1>5. a \in Named /\ (Bad(a) \/ (IF findDups THEN New(a) ELSE Old(a)))
  BY <1>4 DEF Rest, Named
<1> HIDE DEF T
<1>6. InUse = Named
  BY <1>3, NamedPlaces DEF InUse, Reserved, Filled
<1>7. ASSUME NEW b \in Named, Zeroes(b)
      PROVE  InUse' = Named \ {b} /\ \A x \in Named \ {b} : Item(x)' = Item(x)
  <2>1. HeadersStay /\ Named' = Named \ {b} /\ \A x \in Named \ {b} : Item(x)' = Item(x)
    BY <1>3, <1>7, FieldReplaced
  <2>2. \A x \in Named : x \in Named' => (x \in InUse' <=> x \in InUse)
    BY <1>3, <2>1, InUseStays
  <2>3. \A x \in InUse' : x \in Named'
    BY DEF InUse
  <2> QED
    BY <1>6, <2>1, <2>2, <2>3
<1>8. CASE Bad(a)
  <2>1. Zeroes(a) /\ ~Item(a).good
    BY <1>2, <1>8 DEF Bad
  <2>2. InUse' = Named \ {a} /\ \A x \in Named \ {a} : Item(x)' = Item(x)
    BY <1>5, <1>7, <2>1
  <2> QED
    BY <1>6, <2>1, <2>2, NothingLost
<1>9. CASE ~Bad(a) /\ findDups
  <2>1. PICK b : b = FirstOf(Copies(Item(a).id, TRUE))
    OBVIOUS
  <2>2. Item(a).good /\ ~Item(a).xfer /\ Copies(Item(a).id, TRUE) # {}
    BY <1>5, <1>9 DEF New
  <2>3. b \in Copies(Item(a).id, TRUE)
    <3>1. Copies(Item(a).id, TRUE) \in SUBSET Items
      BY DEF Copies
    <3> QED
      BY <1>3, <2>1, <2>2, <3>1, FirstOfIn
  <2>4. b \in Named /\ Item(b).id = Item(a).id /\ Item(b).xfer
    <3>1. b \in Items /\ Item(b).id = Item(a).id /\ Item(b).xfer
      BY <2>3 DEF Copies
    <3> QED
      BY <1>5, <3>1 DEF Named
  <2>5. a # b
    BY <2>2, <2>4
  <2>6. InUse' = Named \ {b} /\ \A x \in Named \ {b} : Item(x)' = Item(x)
    BY <1>2, <1>7, <1>9, <2>1, <2>4
  <2>7. a \in InUse' /\ Item(a)' = Item(a)
    BY <1>5, <2>5, <2>6
  <2> QED
    BY <1>6, <2>2, <2>4, <2>5, <2>6, <2>7, NothingLost
<1>10. CASE ~Bad(a) /\ ~findDups
  <2>1. flash' = flash
    BY <1>2, <1>10
  <2> QED
    BY <2>1, HeldStays
<1> QED
  BY <1>8, <1>9, <1>10

\* initNV erases a page without a reserve page: nothing is in it.
AllLost == pc = "eraseMost" => In({com}) = {}

\* So that nothing is lost.
LEMMA HeldEraseMost ==
  ASSUME Reserve, Sound, Reserve', Sound', AllLost, EraseMost
  PROVE  Held' = Held
<1>1. PagesTyped /\ com \in Page /\ In({com}) = {}
  BY DEF EraseMost, Reserve, AllLost
<1>2. Writes(com, Blank)
  BY DEF EraseMost
<1>3. /\ Named' = In(Page \ {com}) /\ \A x \in Named' : Item(x)' = Item(x)
      /\ flash'[com] = Blank /\ \A q \in Page \ {com} : flash'[q] = flash[q]
  BY <1>1, <1>2, PageErased
<1>4. \A x \in Named : x[1] \in Page /\ x[1] # com
  BY <1>1, NamedPlaces DEF In
<1>5. InUse' = InUse /\ \A x \in InUse : Item(x)' = Item(x)
  BY <1>1, <1>3, <1>4 DEF InUse, In
<1> QED
  BY <1>5, NothingLost

\* An erase that the power failure interrupts loses no more than one that ends.
LEMMA HeldCrash ==
  ASSUME Reserve, Sound, Reserve', Sound', AllLost, Crash
  PROVE  Held' = Held
<1>1. PagesTyped
  BY DEF Reserve
<1>2. CASE UnderErase = {}
  BY <1>2, HeldStays DEF Crash
<1>3. CASE UnderErase # {}
  <2>1. PICK c \in UnderErase : \E page \in EraseLeaves(flash[c]) : flash' = [flash EXCEPT ![c] = page]
    BY <1>3 DEF Crash
  <2>2. PICK page \in EraseLeaves(flash[c]) : Writes(c, page)
    BY <2>1 DEF Writes
  <2>3. c \in Page
    BY <2>1 DEF UnderErase, Reserve, Filled
  <2>4. /\ flash'[c] = page /\ \A q \in Page \ {c} : flash'[q] = flash[q]
        /\ page.active => flash[c].active
        /\ Named' \subseteq Named /\ \A x \in Named' : Item(x)' = Item(x)
        /\ In(Page \ {c})' = In(Page \ {c}) /\ \A x \in In(Page \ {c}) : Item(x)' = Item(x)
    BY <1>1, <2>2, <2>3, EraseInterrupted
  <2>5. \A x \in Named : x[1] \in Page
    BY <1>1, NamedPlaces
  <2>6. /\ InUse' \subseteq InUse /\ InUse' \subseteq Named'
        /\ \A x \in InUse : x[1] # c => x \in InUse' /\ Item(x)' = Item(x)
    BY <2>4, <2>5 DEF InUse, In
  <2>7. \A x \in InUse : x[1] = c => \E y \in InUse' : y # x /\ Item(y)'.good /\ Item(y).id = Item(x).id /\ ~Item(y).xfer
    <3> TAKE x \in InUse
    <3> HAVE x[1] = c
    <3>1. CASE pc = "erase"
      <4>1. Covered(c) /\ c = com /\ \A p \in Page \ {com} : flash[p].active
        BY <2>1, <3>1 DEF UnderErase, Reserve, Sound, AtErase
      <4>2. x \in In({c})
        BY DEF InUse, In
      <4>3. PICK y \in In(Page \ {c}) : Item(y).id = Item(x).id /\ Item(y).good /\ ~Item(y).xfer
        BY <4>1, <4>2 DEF Covered
      <4>4. y \in InUse /\ y[1] # c
        BY <4>1 DEF InUse, In
      <4> QED
        BY <2>6, <4>3, <4>4
    <3>2. CASE pc = "eraseMost"
      BY <2>1, <3>2 DEF UnderErase, AllLost, In, InUse
    <3>3. CASE pc = "eraseRes"
      BY <2>1, <3>3 DEF UnderErase, Sound, AtEraseRes, InUse
    <3> QED
      BY <2>1, <3>1, <3>2, <3>3 DEF UnderErase
  <2> QED
    BY <2>4, <2>6, <2>7, NothingLost
<1> QED
  BY <1>2, <1>3

-----------------------------------------------------------------------------

\* A call of the store is none of what a call leaves behind.
LEMMA CallsDiffer == \A c \in Store!Call : c # NoCall /\ c # Succeeded /\ c.id \in Id
<1> TAKE c \in Store!Call
<1>1. c.kind \in {"init", "write", "delete"} /\ c.id \in Id
  BY DEF Store!Call
<1>2. NoCall.kind = "none" /\ Succeeded.kind = "succeeded"
  BY DEF NoCall, Succeeded
<1> QED
  BY <1>1, <1>2

\* What is known of the call stays known.
LEMMA AtCallKept == Reserve /\ Sound /\ AtCall /\ [Next]_vars => AtCall'
<1> SUFFICES ASSUME Reserve, Sound, AtCall, [Next]_vars PROVE AtCall'
  OBVIOUS
<1> DEFINE Known(where, c) ==
             /\ c \in Store!Call \cup {NoCall, Succeeded}
             /\ where \in {"boot", "dups", "eraseRes", "eraseMost"} => c = NoCall
             /\ where = "ready" => c \in {NoCall, Succeeded}
             /\ where \in {"markPage", "header", "markOld", "data", "chk", "zeroOld", "return"} => c \in Store!Call
             /\ where \in {"copy", "copyItem", "copyChk", "use", "erase"} => c # Succeeded
<1>1. Known(pc, call)
  BY DEF AtCall
<1>2. ASSUME Known(pc', call'), pc' \notin {"zeroOld", "erase"} PROVE AtCall'
  BY <1>2 DEF AtCall
<1>3. ASSUME NEW kind \in {"init", "write"}, NEW id \in Id, NEW val \in Value, Begin(kind, id, val)
      PROVE  AtCall'
  <2>1. call' \in Store!Call /\ pc' \in {"markPage", "header"}
    BY <1>3 DEF Begin, Store!Call
  <2> QED
    BY <1>2, <2>1
<1>4. ASSUME NEW id \in hotIds, ItemInitHot(id) PROVE AtCall'
  <2>1. call' = call /\ pc' = pc /\ pc = "ready"
    BY <1>4 DEF ItemInitHot
  <2> QED
    BY <1>1, <1>2, <2>1
<1>5. ASSUME NEW id \in Id \ hotIds, osal_nv_delete(id) PROVE AtCall'
  <2>1. /\ flash' = flash /\ pc = "ready" /\ pc' = "zeroOld" /\ src' = findItem(id) /\ findItem(id) # NoPlace
        /\ call' = [kind |-> "delete", id |-> id, val |-> NoValue]
    BY <1>5 DEF osal_nv_delete
  <2>2. call' \in Store!Call /\ call'.id = id
    BY <2>1 DEF Store!Call
  <2>3. PICK a : a = findItem(id)
    OBVIOUS
  <2>4. PagesTyped /\ Clean(Named) /\ a \in Named /\ Item(a).id = id
    BY <2>1, <2>3, FoundNamed DEF Reserve, Sound, AtRest, Kept
  <2>5. Named' = Named /\ \A x : Item(x)' = Item(x)
    BY <2>1, FlashStays
  <2>6. Clean(Named)'
    BY <2>4, <2>5 DEF Clean
  <2>7. Item(src)'.id = id
    BY <2>1, <2>3, <2>4 DEF Item
  <2> QED
    BY <2>1, <2>2, <2>6, <2>7 DEF AtCall
<1>6. CASE MarkPage \/ CopyMark \/ CopyItem \/ CopyChk \/ WriteHeader \/ MarkOld \/ WriteData
  <2>1. /\ call' = call
        /\ \/ pc = "markPage" /\ pc' = "copy"
           \/ pc = "copy" /\ pc' \in {"copyItem", IF call # NoCall THEN "header" ELSE "use"}
           \/ pc = "copyItem" /\ pc' = "copyChk"
           \/ pc = "copyChk" /\ pc' = "copy"
           \/ pc = "header" /\ pc' \in {"markOld", "data"}
           \/ pc = "markOld" /\ pc' = "data"
           \/ pc = "data" /\ pc' = "chk"
    BY <1>6 DEF MarkPage, CopyMark, CopyItem, CopyChk, WriteHeader, MarkOld, WriteData
  <2>2. Known(pc', call') /\ pc' \notin {"zeroOld", "erase"}
    BY <1>1, <2>1, CallsDiffer
  <2> QED
    BY <1>2, <2>2
<1>7. CASE SetChk
  <2>1. PICK n, o : n = LastPlace(dst) /\ o = src
    OBVIOUS
  <2>2. /\ PagesTyped /\ n \in Named /\ Replaces(Live \ {n}) /\ call # NoCall
    BY <1>7, <2>1, NewItem DEF SetChk
  <2>3. /\ pc = "chk" /\ pc' = AfterItem /\ call' = call /\ src' = src
        /\ WritesItem(n, [Item(n) EXCEPT !.good = TRUE])
    BY <1>7, <2>1 DEF SetChk
  <2>4. \A x \in Named : Item(x)'.id = Item(x).id
    BY <2>2, <2>3, FieldReplaced
  <2>5. ASSUME call.kind = "write" PROVE Item(src)'.id = call.id
    <3>1. o \in Named /\ Item(o).id = call.id
      BY <2>1, <2>2, <2>5 DEF Replaces, Live, In
    <3>2. Item(o)'.id = call.id
      BY <2>4, <3>1
    <3> QED
      BY <2>1, <2>3, <3>2 DEF Item
  <2>6. pc' \in {"use", "return"} \/ (pc' = "zeroOld" /\ call.kind = "write")
    BY <2>3 DEF AfterItem
  <2>7. Known(pc', call')
    BY <1>1, <2>3, <2>6, CallsDiffer
  <2>8. CASE pc' = "zeroOld"
    <3>1. Item(src)'.id = call'.id
      BY <2>3, <2>5, <2>6, <2>8
    <3> QED
      BY <2>3, <2>6, <2>7, <2>8, <3>1 DEF AtCall
  <2> QED
    BY <1>2, <2>6, <2>7, <2>8
<1>8. CASE PageUse
  <2> DEFINE page == [flash[pgRes] EXCEPT !.active = TRUE, !.inUse = TRUE]
  <2>1. PICK o : o = src
    OBVIOUS
  <2>2. PagesTyped /\ pgRes \in Page /\ Replaces(Live)
    BY <1>8 DEF PageUse, Reserve, Sound, AtUse, Copying, Compacting, Filled
  <2>3. page \in PageType /\ page.items = flash[pgRes].items
    <3>1. flash[pgRes] \in PageType
      BY <2>2 DEF PagesTyped
    <3> HIDE DEF ItemType
    <3> QED
      BY <3>1 DEF PageType
  <2>4. Writes(pgRes, page) /\ call' = call /\ src' = src /\ pc = "use" /\ pc' = "erase" /\ com' = com
    BY <1>8 DEF PageUse
  <2> HIDE DEF page
  <2>5. \A x \in Items : Item(x)' = Item(x)
    BY <2>2, <2>3, <2>4, PageReplaced
  <2>6. ASSUME call # NoCall, Outdated PROVE Item(src)'.id = call.id
    <3>1. o \in Items /\ Item(o).id = call.id
      BY <2>1, <2>2, <2>6 DEF Replaces, Live, In, Named, Outdated
    <3>2. Item(o)'.id = call.id
      BY <2>5, <3>1
    <3> QED
      BY <2>1, <2>4, <3>2 DEF Item
  <2>7. Known(pc', call')
    BY <1>1, <2>4
  <2>8. Outdated' <=> Outdated
    BY <2>4 DEF Outdated
  <2> QED
    BY <2>4, <2>6, <2>7, <2>8 DEF AtCall
<1>9. CASE ErasePage
  <2>1. PICK o : o = src
    OBVIOUS
  <2>2. PagesTyped /\ com \in Page /\ (call # NoCall /\ Outdated => o \in Named /\ Item(o).id = call.id)
    BY <1>9, <2>1 DEF ErasePage, Reserve, Sound, AtErase, AtCall
  <2>3. /\ pc = "erase" /\ call' = call /\ src' = src /\ Writes(com, Blank)
        /\ pc' = IF call = NoCall THEN "dups" ELSE IF Outdated THEN "zeroOld" ELSE "return"
    BY <1>9 DEF ErasePage, Outdated
  <2>4. Named' = {x \in Named : x[1] # com} /\ \A x \in Named' : Item(x)' = Item(x)
    BY <2>2, <2>3, PageErased
  <2>5. Known(pc', call')
    BY <1>1, <2>3
  <2>6. CASE pc' = "zeroOld"
    <3>1. call # NoCall /\ Outdated
      BY <2>3, <2>6
    <3>2. Item(o)'.id = call.id
      BY <2>1, <2>2, <2>4, <3>1 DEF Outdated
    <3>3. Item(src)'.id = call.id
      BY <2>1, <2>3, <3>2 DEF Item
    <3> QED
      BY <2>3, <2>5, <2>6, <3>1, <3>3 DEF AtCall, Outdated
  <2> QED
    BY <1>2, <2>3, <2>5, <2>6
<1>10. CASE ZeroOld \/ Return
  <2>1. \/ pc = "zeroOld" /\ pc' = "return" /\ call' = call
        \/ pc' = "ready" /\ call' \in {NoCall, Succeeded}
    BY <1>10 DEF ZeroOld, Return
  <2>2. Known(pc', call') /\ pc' \notin {"zeroOld", "erase"}
    BY <1>1, <2>1
  <2> QED
    BY <1>2, <2>2
<1>11. CASE BootUse \/ EraseRes \/ InitPages \/ InitDone \/ EraseMost
  <2>1. /\ pc \in {"boot", "eraseRes", "dups", "eraseMost"} /\ call' = call
        /\ pc' \in {"boot", "copy", "dups", "ready", "eraseMost"}
    BY <1>11 DEF BootUse, EraseRes, InitPages, InitDone, EraseMost, ram
  <2>2. Known(pc', call') /\ pc' \notin {"zeroOld", "erase"}
    BY <1>1, <2>1 DEF NoCall, Succeeded
  <2> QED
    BY <1>2, <2>2
<1>12. CASE BootScan
  <2>1. pc = "boot" /\ call' = call /\ pc' \in {"eraseRes", "erase", "dups"}
    BY <1>12 DEF BootScan
  <2>2. call' = NoCall /\ NoCall # Succeeded
    BY <1>1, <2>1 DEF NoCall, Succeeded
  <2> QED
    BY <2>1, <2>2 DEF AtCall
<1>13. CASE Crash
  <2>1. pc' = "boot" /\ call' = NoCall
    BY <1>13 DEF Crash
  <2> QED
    BY <2>1 DEF AtCall
<1>14. CASE UNCHANGED vars
  <2>1. flash' = flash /\ pc' = pc /\ call' = call /\ src' = src /\ com' = com
    BY <1>14 DEF vars, ram
  <2>2. Named' = Named /\ (\A x : Item(x)' = Item(x)) /\ Item(src)' = Item(src) /\ (Outdated' <=> Outdated)
    BY <2>1, FlashStays DEF Outdated, Item
  <2>3. Clean(Named) => Clean(Named)'
    BY <2>2 DEF Clean
  <2> QED
    BY <1>1, <2>1, <2>2, <2>3 DEF AtCall
<1> QED
  BY <1>3, <1>4, <1>5, <1>6, <1>7, <1>8, <1>9, <1>10, <1>11, <1>12, <1>13, <1>14 DEF Next, Writing, initNV

-----------------------------------------------------------------------------
(* Each step is one of the store, or changes nothing of it *)

\* At first the store is empty.
LEMMA StoreInit == Init => Store!Init
<1> SUFFICES ASSUME Init PROVE Store!Init
  OBVIOUS
<1>1. \A p \in Page : flash[p].items = <<>>
  BY DEF Init, Blank
<1>2. Items = {}
  BY <1>1 DEF Items
<1>3. \A id \in Id : Stored(id) = NoValue
  BY <1>2 DEF Stored
<1> QED
  BY <1>3 DEF Init, NoCall, Store!Init, Store!NoCall

\* A call that returns has taken effect.
LEMMA StoreReturn ==
  ASSUME Reserve, Sound, AtCall, Return
  PROVE  Held' = Held /\ (call' = NoCall \/ (call' = Succeeded /\ call \in Store!Call /\ Stored(call.id) = call.val))
<1>1. PICK c : c = call
  OBVIOUS
<1>2. /\ PagesTyped /\ Reserved /\ Clean(Named) /\ c \in Store!Call /\ c.id \in Id /\ Determined
      /\ c.kind # "delete" => \E y \in Named : Written(y)
  BY <1>1, InUsePaired, CallsDiffer DEF Return, Reserve, Sound, AtRest, AtReturn, AtCall, Kept
<1>3. Held' = Held
  BY HeldStays DEF Return
<1>4. call' = IF c.kind = "delete" /\ findItem(c.id) # NoPlace THEN NoCall ELSE Succeeded
  BY <1>1 DEF Return
<1>5. InUse = Named
  BY <1>2, NamedPlaces DEF InUse, Reserved, Filled
<1>6. CASE c.kind # "delete"
  <2>1. PICK y \in Named : Written(y)
    BY <1>2, <1>6
  <2>2. y \in Good(c.id) /\ ~Item(y).xfer /\ Item(y).val = c.val
    BY <1>1, <1>5, <2>1 DEF Good, Written
  <2>3. Stored(c.id) = c.val
    BY <1>2, <2>2 DEF Determined
  <2> QED
    BY <1>1, <1>2, <1>3, <1>4, <1>6, <2>3
<1>7. CASE c.kind = "delete" /\ findItem(c.id) = NoPlace
  <2>1. c.val = NoValue
    BY <1>2, <1>7 DEF Store!Call
  <2>2. Good(c.id) = {}
    BY <1>2, <1>5, <1>7, FoundNamed DEF Good
  <2>3. Stored(c.id) = c.val
    BY <1>2, <2>1, <2>2 DEF Determined
  <2> QED
    BY <1>1, <1>2, <1>3, <1>4, <1>7, <2>3
<1> QED
  BY <1>3, <1>4, <1>6, <1>7

\* Each step: a call begins, takes effect, returns or fails, or nothing changes.
LEMMA StoreStep ==
  ASSUME Reserve, Sound, AtCall, AllLost, Reserve', Sound', [Next]_vars
  PROVE  [Store!Next]_<<Held, call>>
<1> DEFINE Goal == [Store!Next]_<<Held, call>>
<1>1. ASSUME Held' = Held, call' = call PROVE Goal
  BY <1>1
<1>2. ASSUME TakesEffect, call \in Store!Call, call' = call PROVE Goal
  <2>1. Held' = [Held EXCEPT ![call.id] = call.val]
    BY <1>2 DEF TakesEffect, Held
  <2>2. Store!Effect
    BY <1>2, <2>1 DEF Store!Effect, Held
  <2> QED
    BY <2>2 DEF Store!Next
<1>3. ASSUME Held' = Held, call' = NoCall PROVE Goal
  <2>1. Store!Fail
    BY <1>3 DEF Store!Fail, Held, NoCall, Store!NoCall
  <2> QED
    BY <2>1 DEF Store!Next
<1>4. ASSUME Held' = Held, call \notin Store!Call, call' \in Store!Call PROVE Goal
  <2>1. PICK c \in Store!Call : c = call'
    BY <1>4
  <2>2. Store!Begin(c)
    BY <1>4, <2>1 DEF Store!Begin, Held
  <2> QED
    BY <2>2 DEF Store!Next
<1>5. ASSUME NEW kind \in {"init", "write"}, NEW id \in Id, NEW val \in Value, Begin(kind, id, val)
      PROVE  Goal
  <2>1. call' \in Store!Call /\ flash' = flash /\ pc = "ready"
    BY <1>5 DEF Begin, Store!Call
  <2>2. call \notin Store!Call
    BY <2>1, CallsDiffer DEF AtCall
  <2> QED
    BY <1>4, <2>1, <2>2, HeldStays
<1>6. ASSUME NEW id \in hotIds, ItemInitHot(id) PROVE Goal
  BY <1>1, <1>6, HeldStays DEF ItemInitHot
<1>7. ASSUME NEW id \in Id \ hotIds, osal_nv_delete(id) PROVE Goal
  <2>1. call' \in Store!Call /\ flash' = flash /\ pc = "ready"
    BY <1>7 DEF osal_nv_delete, Store!Call
  <2>2. call \notin Store!Call
    BY <2>1, CallsDiffer DEF AtCall
  <2> QED
    BY <1>4, <2>1, <2>2, HeldStays
<1>8. CASE MarkPage \/ CopyMark \/ CopyItem \/ CopyChk \/ WriteHeader \/ MarkOld \/ WriteData \/ ErasePage
  <2>1. Held' = Held
    BY <1>8, HeldMarkPage, HeldCopyMark, HeldCopyItem, HeldCopyChk, HeldWriteHeader, HeldMarkOld,
       HeldWriteData, HeldErasePage
  <2>2. call' = call
    BY <1>8 DEF MarkPage, CopyMark, CopyItem, CopyChk, WriteHeader, MarkOld, WriteData, ErasePage
  <2> QED
    BY <1>1, <2>1, <2>2
<1>9. CASE SetChk
  <2>1. call' = call /\ call \in Store!Call
    BY <1>9 DEF SetChk, AtCall
  <2> QED
    BY <1>1, <1>2, <1>9, <2>1, HeldSetChk
<1>10. CASE PageUse
  <2>1. call' = call /\ (call = NoCall \/ call \in Store!Call)
    BY <1>10 DEF PageUse, AtCall
  <2>2. IF call = NoCall THEN Held' = Held ELSE TakesEffect
    BY <1>10, HeldPageUse
  <2> QED
    BY <1>1, <1>2, <2>1, <2>2
<1>11. CASE ZeroOld
  <2>1. call' = call /\ call \in Store!Call
    BY <1>11 DEF ZeroOld, AtCall
  <2> QED
    BY <1>1, <1>2, <1>11, <2>1, HeldZeroOld
<1>12. CASE Return
  <2>1. Held' = Held /\ (call' = NoCall \/ (call' = Succeeded /\ call \in Store!Call /\ Stored(call.id) = call.val))
    BY <1>12, StoreReturn
  <2>2. ASSUME call' = Succeeded, call \in Store!Call, Stored(call.id) = call.val PROVE Goal
    <3>1. Store!Return
      BY <2>1, <2>2, CallsDiffer DEF Store!Return, Held, Succeeded, Store!Succeeded
    <3> QED
      BY <3>1 DEF Store!Next
  <2> QED
    BY <1>3, <2>1, <2>2
<1>13. CASE BootUse \/ BootScan \/ EraseRes \/ InitPages \/ InitDone \/ EraseMost
  <2>1. Held' = Held
    <3>1. CASE BootScan \/ InitDone
      BY <3>1, HeldStays DEF BootScan, InitDone
    <3> QED
      BY <1>13, <3>1, HeldBootUse, HeldEraseRes, HeldInitPages, HeldEraseMost
  <2>2. call' = call
    BY <1>13 DEF BootUse, BootScan, EraseRes, InitPages, InitDone, EraseMost, ram
  <2> QED
    BY <1>1, <2>1, <2>2
<1>14. CASE Crash
  <2>1. Held' = Held
    BY <1>14, HeldCrash
  <2> QED
    BY <1>3, <1>14, <2>1 DEF Crash
<1>15. CASE UNCHANGED vars
  <2>1. flash' = flash /\ call' = call
    BY <1>15 DEF vars, ram
  <2> QED
    BY <1>1, <2>1, HeldStays
<1> QED
  BY <1>5, <1>6, <1>7, <1>8, <1>9, <1>10, <1>11, <1>12, <1>13, <1>14, <1>15 DEF Next, Writing, initNV

-----------------------------------------------------------------------------
(* The page that is compacted is marked until it is erased *)

IsMarked(p) == flash[p].active /\ flash[p].xfer

Compaction == {"copy", "copyItem", "copyChk", "header", "markOld", "data", "chk", "use", "erase"}
Compacted == pc \in Compaction \cup {"eraseRes"} /\ com # NoPage => IsMarked(com)

\* No step loses the mark.
LEMMA CompactedKept == Reserve /\ Sound /\ Compacted /\ [Next]_vars => Compacted'
<1> SUFFICES ASSUME Reserve, Sound, Compacted, [Next]_vars, pc' \in Compaction \cup {"eraseRes"}, com' # NoPage
             PROVE  IsMarked(com)'
  BY DEF Compacted
<1>1. PagesTyped
  BY DEF Reserve
<1>2. ASSUME HeadersStay, com' = com, com \in Page, IsMarked(com) PROVE IsMarked(com)'
  BY <1>2 DEF HeadersStay, IsMarked
<1>3. CASE flash' = flash /\ com' = com /\ pc \in Compaction
  BY <1>3 DEF Compacted, IsMarked
<1>4. ASSUME NEW kind \in {"init", "write"}, NEW id \in Id, NEW val \in Value, Begin(kind, id, val)
      PROVE  FALSE
  BY <1>4 DEF Begin, Reserve, Compaction
<1>5. CASE MarkPage
  <2>1. com \in Page /\ flash[com] \in PageType /\ flash[com].active
    BY <1>5 DEF MarkPage, Reserve, Compacting, Filled, PagesTyped
  <2>2. flash'[com] = [flash[com] EXCEPT !.xfer = TRUE] /\ com' = com
    BY <1>1, <1>5, <2>1 DEF MarkPage, Writes, PagesTyped
  <2> HIDE DEF ItemType
  <2> QED
    BY <2>1, <2>2 DEF IsMarked, PageType
<1>6. CASE CopyMark /\ ToCopy # {}
  <2>1. PICK a : a = FirstOf(ToCopy)
    OBVIOUS
  <2>2. a \in ToCopy
    <3>1. ToCopy \in SUBSET Items
      BY DEF ToCopy
    <3> QED
      BY <1>1, <1>6, <2>1, <3>1, FirstOfIn
  <2>3. WritesItem(a, [Item(a) EXCEPT !.xfer = TRUE]) /\ a \in Named /\ com' = com /\ com \in Page /\ pc = "copy"
    BY <1>6, <2>1, <2>2 DEF CopyMark, ToCopy, Named, Reserve, Compacting
  <2> QED
    BY <1>1, <1>2, <2>3, FieldReplaced DEF Compacted, Compaction
<1>7. CASE CopyMark /\ ToCopy = {}
  BY <1>3, <1>7 DEF CopyMark, Compaction
<1>8. CASE CopyItem
  <2>1. /\ com \in Page /\ pgRes \in Page /\ Item(cur).id \in Id /\ cur \in Named
        /\ WritesHeader(pgRes, Item(cur).id, Item(cur).val) /\ com' = com /\ pc = "copyItem"
    BY <1>8 DEF CopyItem, Reserve, Sound, AtCopyItem, Compacting, Filled, Copied, In
  <2>2. Item(cur).val \in Value \cup {NoValue, Garbage}
    BY <1>1, <2>1, NamedPlaces
  <2> QED
    BY <1>1, <1>2, <2>1, <2>2, ItemAdded DEF Compacted, Compaction
<1>9. CASE CopyChk
  <2>1. PICK n : n = LastPlace(pgRes)
    OBVIOUS
  <2>2. /\ com \in Page /\ n \in Named /\ WritesItem(n, [Item(n) EXCEPT !.good = TRUE]) /\ com' = com
        /\ pc = "copyChk"
    BY <1>9, <2>1 DEF CopyChk, Reserve, Sound, AtCopyChk, Compacting, Fresh
  <2> QED
    BY <1>1, <1>2, <2>2, FieldReplaced DEF Compacted, Compaction
<1>10. CASE WriteHeader
  <2>1. com \in Page /\ dst \in Page /\ call.id \in Id /\ WritesHeader(dst, call.id, Garbage) /\ com' = com /\ pc = "header"
    BY <1>10 DEF WriteHeader, Reserve, Compacting, Filled, ForItem
  <2> QED
    BY <1>1, <1>2, <2>1, ItemAdded DEF Compacted, Compaction
<1>11. CASE MarkOld \/ WriteData \/ SetChk
  <2>1. PICK n, o, v : n = LastPlace(dst) /\ o = src /\ v = call.val
    OBVIOUS
  <2>2. /\ pc \in {"markOld", "data", "chk"} /\ com' = com
        /\ \/ WritesItem(o, [Item(o) EXCEPT !.xfer = TRUE]) /\ call.kind = "write"
           \/ WritesItem(n, [Item(n) EXCEPT !.val = v])
           \/ WritesItem(n, [Item(n) EXCEPT !.good = TRUE])
    BY <1>11, <2>1 DEF MarkOld, WriteData, SetChk, Sound, AtWrite
  <2>3. n \in Named /\ v \in Value /\ (call.kind = "write" => o \in Named) /\ com \in Page
    <3>1. n \in Named /\ v \in Value /\ Replaces(Live \ {n}) /\ call # NoCall
      BY <2>1, <2>2, NewItem
    <3>2. com \in Page
      BY <2>2 DEF Reserve, Compacting
    <3> QED
      BY <2>1, <3>1, <3>2 DEF Replaces, Live, In
  <2>4. HeadersStay
    BY <1>1, <2>2, <2>3, FieldReplaced
  <2> QED
    BY <1>2, <2>2, <2>3, <2>4 DEF Compacted, Compaction
<1>12. CASE PageUse \/ EraseRes
  <2>1. com' = com /\ pc \in Compaction \cup {"eraseRes"} /\ Compacting
    BY <1>12 DEF PageUse, EraseRes, Reserve, Compaction
  <2>2. flash'[com] = flash[com]
    BY <1>1, <1>12, <2>1 DEF PageUse, EraseRes, Writes, Compacting, PagesTyped
  <2> QED
    BY <2>1, <2>2 DEF Compacted, IsMarked, Compacting
<1>13. CASE BootScan
  <2> DEFINE old == {p \in Page : flash[p].active /\ flash[p].xfer}
  <2>1. IF old = {} THEN com' = NoPage ELSE com' \in old
    BY <1>13, HighestIn, Zenon DEF BootScan
  <2>2. flash' = flash
    BY <1>13 DEF BootScan
  <2> QED
    BY <2>1, <2>2 DEF IsMarked
<1>14. CASE UNCHANGED vars
  BY <1>14 DEF vars, ram, Compacted, IsMarked
<1>15. ASSUME \/ \E id \in hotIds : ItemInitHot(id)
              \/ \E id \in Id \ hotIds : osal_nv_delete(id)
              \/ ErasePage \/ ZeroOld \/ Return \/ BootUse \/ InitPages \/ InitDone \/ EraseMost \/ Crash
       PROVE  FALSE
  BY <1>15 DEF ItemInitHot, osal_nv_delete, ErasePage, ZeroOld, Return, BootUse, InitPages, InitDone, EraseMost, Crash,
               Compaction, ram
<1> QED
  BY <1>4, <1>5, <1>6, <1>7, <1>8, <1>9, <1>10, <1>11, <1>12, <1>13, <1>14, <1>15 DEF Next, Writing, initNV

\* There is one where there were two to choose from.
LEMMA OneLeft ==
  ASSUME PagesTyped, BootUse
  PROVE  Erased' # {}
<1>1. PICK r : r = LowestOf(Erased)
  OBVIOUS
<1>2. r \in Erased
  <2>1. Erased # {}
    <3> SUFFICES ASSUME Erased = {} PROVE FALSE
      OBVIOUS
    <3>1. Cardinality(Erased) = 0
      BY FS_EmptySet
    <3> QED
      BY <3>1 DEF BootUse
  <2>2. Erased \in SUBSET Nat
    BY PagesAssumption DEF Erased, Page
  <2> QED
    BY <1>1, <2>1, <2>2, LeastOf DEF LowestOf
<1>3. PICK p : p = LowestOf(Erased \ {r})
  OBVIOUS
<1>4. p # r
  <2> DEFINE S == Erased \ {r}
  <2>1. S \in SUBSET Nat
    BY PagesAssumption DEF Erased, Page
  <2>2. S # {} => LowestOf(S) \in S
    <3> HIDE DEF S
    <3> QED
      BY <2>1, LeastOf DEF LowestOf
  <2>3. S = {} => LowestOf(S) = NoPage
    BY DEF LowestOf
  <2>4. r # NoPage
    BY <1>2, PagesAssumption DEF Erased, Page, NoPage
  <2> QED
    BY <1>3, <2>2, <2>3, <2>4
<1>5. flash'[r] = flash[r]
  BY <1>1, <1>2, <1>3, <1>4 DEF BootUse, Writes, PagesTyped, Erased
<1> QED
  BY <1>2, <1>5 DEF Erased

\* A power failure that does not interrupt the erase of a compacted page, or of
\* the one that lost most, leaves a page in reserve.
LEMMA ReserveLeft ==
  ASSUME Reserve, Sound, Crash, pc \notin {"erase", "eraseMost"}, pc = "dups" => pgRes # NoPage
  PROVE  Erased' # {}
<1>1. PICK r : r = pgRes
  OBVIOUS
<1>2. PagesTyped /\ r \in Page /\ ~flash[r].active
  <2>1. CASE pc \in {"ready", "return", "markPage", "zeroOld", "dups"}
    BY <1>1, <2>1 DEF Reserve, Reserved, Filled, Blank
  <2>2. CASE pc \in {"copy", "copyItem", "copyChk", "header", "use"}
    BY <1>1, <2>2 DEF Reserve, Compacting, Reserved, Filled, Sound, AtCopy, AtCopyItem, AtCopyChk, AtHeader, AtUse,
                      Copying, Work
  <2>3. CASE pc \in {"markOld", "data", "chk"}
    BY <1>1, <2>3 DEF Reserve, Compacting, Reserved, Filled, Sound, AtWrite, Work
  <2>4. CASE pc = "eraseRes"
    BY <1>1, <2>4 DEF Reserve, Filled, Sound, AtEraseRes
  <2> QED
    BY <2>1, <2>2, <2>3, <2>4 DEF Reserve, Crash
<1>3. CASE UnderErase = {}
  BY <1>2, <1>3 DEF Crash, Erased
<1>4. CASE UnderErase # {}
  <2>1. UnderErase = {r}
    BY <1>1, <1>4 DEF UnderErase
  <2>2. PICK page \in EraseLeaves(flash[r]) : Writes(r, page)
    BY <1>4, <2>1 DEF Crash, Writes
  <2>3. flash'[r] = page /\ (page.active => flash[r].active)
    BY <1>2, <2>2, EraseInterrupted
  <2> QED
    BY <1>2, <2>3 DEF Erased
<1> QED
  BY <1>3, <1>4

-----------------------------------------------------------------------------
(* Where an interrupted erase leaves the mark or all of the header goes *)

\* There is a page in reserve, or the one that was to become it is known by its mark.
Resumable ==
  /\ pc # "eraseMost"
  /\ pc = "dups" => pgRes # NoPage
  /\ pc = "boot" => Erased # {} \/ \E p \in Page : IsMarked(p)

\* So initNV never has to look for the page that lost most.
LEMMA ResumableKept == ~TornErase /\ Reserve /\ Sound /\ Compacted /\ Resumable /\ [Next]_vars => Resumable'
<1> SUFFICES ASSUME ~TornErase, Reserve, Sound, Compacted, Resumable, [Next]_vars
             PROVE  Resumable'
  OBVIOUS
<1>1. PagesTyped
  BY DEF Reserve
<1>2. ASSUME pc' \notin {"eraseMost", "dups", "boot"} PROVE Resumable'
  BY <1>2 DEF Resumable
<1>3. CASE Crash
  <2>1. CASE pc # "erase"
    <3>1. Erased' # {}
      BY <1>3, <2>1, ReserveLeft DEF Resumable
    <3> QED
      BY <1>3, <3>1 DEF Crash, Resumable
  <2>2. CASE pc = "erase"
    <3>1. PICK c : c = com
      OBVIOUS
    <3>2. c \in Page /\ flash[c].xfer /\ flash[c].active
      <4>1. com \in Page /\ com # NoPage
        BY <2>2, PagesAssumption DEF Reserve, Page, NoPage
      <4> QED
        BY <2>2, <3>1, <4>1 DEF Compacted, Compaction, IsMarked
    <3>3. UnderErase = {c}
      BY <2>2, <3>1 DEF UnderErase
    <3>4. PICK page \in EraseLeaves(flash[c]) : Writes(c, page)
      BY <1>3, <3>3 DEF Crash, Writes
    <3>5. flash'[c] = page
      BY <1>1, <3>2, <3>4, EraseInterrupted
    <3>6. page = flash[c] \/ ~page.active
      <4>1. flash[c] \in PageType
        BY <1>1, <3>2 DEF PagesTyped
      <4>2. page \in {flash[c], Blank, [flash[c] EXCEPT !.active = FALSE, !.inUse = FALSE, !.xfer = FALSE]}
        BY DEF EraseLeaves
      <4>3. ~[flash[c] EXCEPT !.active = FALSE, !.inUse = FALSE, !.xfer = FALSE].active
        <5> HIDE DEF ItemType
        <5> QED
          BY <4>1 DEF PageType
      <4> QED
        BY <4>2, <4>3, BlankTyped
    <3>7. Erased' # {} \/ \E p \in Page : IsMarked(p)'
      BY <3>2, <3>5, <3>6 DEF Erased, IsMarked
    <3> QED
      BY <1>3, <3>7 DEF Crash, Resumable
  <2> QED
    BY <2>1, <2>2
<1>4. CASE BootUse
  <2>1. Erased' # {} /\ pc' = "boot"
    BY <1>1, <1>4, OneLeft DEF BootUse, ram
  <2> QED
    BY <2>1 DEF Resumable
<1>5. CASE BootScan
  <2> DEFINE old == {p \in Page : flash[p].active /\ flash[p].xfer}
  <2>1. /\ IF old = {} THEN com' = NoPage ELSE com' \in old
        /\ pgRes' = NoPage => Erased = {}
    <3>1. com' = HighestOf(old) /\ pgRes' = LowestOf(Erased) /\ Cardinality(Erased) <= 1
      BY <1>5 DEF BootScan
    <3>2. IF old = {} THEN HighestOf(old) = NoPage ELSE HighestOf(old) \in old
      BY HighestIn, Zenon
    <3>3. LowestOf(Erased) = NoPage => Erased = {}
      BY <1>1, <3>1, OneErased DEF Erased
    <3> QED
      BY <3>1, <3>2, <3>3
  <2>2. pgRes' = NoPage => com' # NoPage
    BY <1>5, <2>1, PagesAssumption DEF BootScan, Resumable, IsMarked, Page, NoPage
  <2> QED
    BY <1>5, <2>2 DEF BootScan, Resumable
<1>6. CASE ErasePage
  <2>1. com \in Page
    BY <1>6 DEF ErasePage, Reserve
  <2> QED
    BY <1>6, <2>1, PagesAssumption DEF ErasePage, Resumable, Page, NoPage
<1>7. CASE EraseRes
  <2>1. pgRes \in Page
    BY <1>7 DEF EraseRes, Reserve, Filled
  <2> QED
    BY <1>7, <2>1, PagesAssumption DEF EraseRes, Resumable, Page, NoPage
<1>8. CASE InitPages \/ InitDone
  BY <1>8 DEF InitPages, InitDone, Resumable
<1>9. CASE \/ \E id \in Id, val \in Value : Begin("init", id, val) \/ Begin("write", id, val)
           \/ \E id \in hotIds : ItemInitHot(id)
           \/ \E id \in Id \ hotIds : osal_nv_delete(id)
           \/ MarkPage \/ CopyMark \/ CopyItem \/ CopyChk \/ WriteHeader \/ MarkOld
           \/ WriteData \/ SetChk \/ PageUse \/ ZeroOld \/ Return \/ EraseMost
  BY <1>2, <1>9 DEF Begin, ItemInitHot, osal_nv_delete, MarkPage, CopyMark, CopyItem, CopyChk, WriteHeader, MarkOld,
                    WriteData, SetChk, PageUse, ZeroOld, Return, EraseMost, AfterItem
<1>10. CASE UNCHANGED vars
  BY <1>10 DEF vars, ram, Resumable, Erased, IsMarked
<1> QED
  BY <1>3, <1>4, <1>5, <1>6, <1>7, <1>8, <1>9, <1>10 DEF Next, Writing, initNV

-----------------------------------------------------------------------------
(* What initNV erases where all items are of a size *)

\* A page has no room for another item.
Full(p) == \A id \in Id : pgOff(p) + Size[id] > PageSize

\* A page that is compacted, or may have to be erased for want of a reserve page,
\* is full, and other pages hold all that is in it.
AtFull ==
  /\ \A p \in Page : flash[p].xfer => Full(p)
  /\ pc = "markPage" => Full(com)
  /\ pc = "boot" /\ Erased = {} => \E p \in Page : Marked({p}) /\ Covered(p) /\ Full(p)
  /\ pc = "dups" /\ pgRes = NoPage => \E p \in Page : Covered(p) /\ Full(p)
  /\ pc = "eraseMost" => In({com}) = {} /\ Full(com)

\* A full page stays full while its items stay, or there are more of them.
LEMMA FullStays ==
  ASSUME PagesTyped, NEW p \in Page, Full(p),
         SizesStay(p) \/ \E id \in Id : pgOff(p)' = pgOff(p) + Size[id]
  PROVE  Full(p)'
<1>1. pgOff(p) \in Nat /\ PageSize \in Nat /\ \A id \in Id : Size[id] \in Nat
  BY TakenBounds, SizeAssumption
<1>2. pgOff(p)' \in Nat /\ pgOff(p)' >= pgOff(p)
  BY <1>1, TakenStays
<1>3. \A id \in Id : pgOff(p)' + Size[id] > PageSize
  BY <1>1, <1>2 DEF Full
<1> QED
  BY <1>3 DEF Full

\* So do the marked ones, until they are erased.
LEMMA MarkedFull ==
  ASSUME Reserve, Sound, AtFull, [Next]_vars
  PROVE  \A p \in Page : flash'[p].xfer => Full(p)'
<1>1. PagesTyped /\ \A p \in Page : flash[p].xfer => Full(p)
  BY DEF Reserve, AtFull
<1>2. CASE flash' = flash
  <2>1. \A p \in Page : SizesStay(p)
    BY <1>2 DEF SizesStay
  <2> QED
    BY <1>1, <1>2, <2>1, FullStays
<1>3. CASE \E a \in Named : WritesIn(a)
  <2>1. PICK a \in Named : WritesIn(a)
    BY <1>3
  <2>2. HeadersStay /\ \A p \in Page : SizesStay(p)
    BY <1>1, <2>1, FieldReplaced, ItemSizes DEF WritesIn
  <2> QED
    BY <1>1, <2>2, FullStays DEF HeadersStay
<1>4. CASE \E p \in Page : \E page \in PageType : WritesPage(p, page)
  <2> HIDE DEF PageType
  <2>1. PICK p \in Page, page \in PageType : WritesPage(p, page)
    BY <1>4
  <2>2. /\ flash'[p] = page /\ \A q \in Page \ {p} : flash'[q] = flash[q] /\ SizesStay(q)
        /\ page.items = flash[p].items => SizesStay(p)
    BY <1>1, <2>1, PageReplaced, PageSizes DEF WritesPage
  <2>3. page.xfer => SizesStay(p) /\ Full(p)
    <3>1. MarkPage => Full(com)
      BY DEF MarkPage, AtFull
    <3> QED
      BY <1>1, <2>1, <2>2, <3>1 DEF WritesPage
  <2>4. page.xfer => Full(p)'
    BY <1>1, <2>3, FullStays
  <2>5. \A q \in Page \ {p} : flash[q].xfer => Full(q)'
    BY <1>1, <2>2, FullStays
  <2> QED
    BY <2>2, <2>4, <2>5
<1>5. ASSUME NEW r \in Page, NEW id \in Id, NEW val \in Value \cup {NoValue, Garbage}, WritesHeader(r, id, val)
      PROVE  \A p \in Page : flash'[p].xfer => Full(p)'
  <2>1. HeadersStay /\ pgOff(r)' = pgOff(r) + Size[id] /\ \A q \in Page \ {r} : SizesStay(q)
    BY <1>1, <1>5, ItemAdded, HeaderSizes
  <2> QED
    BY <1>1, <2>1, FullStays DEF HeadersStay
<1>6. CASE CopyItem
  <2>1. /\ pc = "copyItem" /\ WritesHeader(pgRes, Item(cur).id, Item(cur).val)
        /\ pgRes \in Page /\ Item(cur).id \in Id /\ Copied(cur)
    BY <1>6 DEF CopyItem, Reserve, Compacting, Filled, Sound, AtCopyItem
  <2>2. Item(cur).val \in Value \cup {NoValue, Garbage}
    BY <1>1, <2>1, NamedPlaces DEF Copied, In
  <2> QED
    BY <1>5, <2>1, <2>2
<1>7. CASE WriteHeader
  <2>1. WritesHeader(dst, call.id, Garbage) /\ dst \in Page /\ call.id \in Id
    BY <1>7 DEF WriteHeader, Reserve, Compacting, Filled, ForItem
  <2> QED
    BY <1>5, <2>1
<1> QED
  BY <1>2, <1>3, <1>4, <1>6, <1>7, OneWrite


\* A power failure leaves a reserve page, or the page that may be erased.
LEMMA FullCrash ==
  ASSUME Reserve, Sound, Compacted, AtFull, Crash
  PROVE  Erased' = {} => \E p \in Page : Marked({p})' /\ Covered(p)' /\ Full(p)'
<1>1. PagesTyped
  BY DEF Reserve
<1>2. ASSUME NEW p \in Page, Named' = Named, \A x \in Named : Item(x)' = Item(x), Covered(p) PROVE Covered(p)'
  <2>1. In({p})' = In({p}) /\ In(Page \ {p})' = In(Page \ {p}) /\ In({p}) \subseteq Named /\ In(Page \ {p}) \subseteq Named
    BY <1>2 DEF In
  <2>2. \A x \in In({p}) : \E y \in In(Page \ {p}) : Item(y)'.id = Item(x)'.id /\ Item(y)'.good /\ ~Item(y)'.xfer
    BY <1>2, <2>1 DEF Covered
  <2> QED
    BY <2>1, <2>2 DEF Covered
<1>3. CASE pc \notin {"erase", "eraseMost"} /\ (pc = "dups" => pgRes # NoPage)
  BY <1>3, ReserveLeft
<1>4. CASE pc = "dups" /\ pgRes = NoPage
  <2>1. PICK p \in Page : Covered(p) /\ Full(p)
    BY <1>4 DEF AtFull
  <2>2. flash' = flash
    BY <1>4 DEF Crash, UnderErase
  <2>3. Named' = Named /\ \A x : Item(x)' = Item(x)
    BY <2>2, FlashStays
  <2>4. Full(p)'
    BY <1>1, <2>1, <2>2, FullStays DEF SizesStay
  <2>5. Marked({p})'
    BY <1>4, <2>2 DEF Sound, AtDups, Marked
  <2> QED
    BY <1>2, <2>1, <2>3, <2>4, <2>5
<1>5. CASE pc \in {"erase", "eraseMost"}
  <2> SUFFICES ASSUME Erased' = {} PROVE \E p \in Page : Marked({p})' /\ Covered(p)' /\ Full(p)'
    OBVIOUS
  <2>1. PICK c : c = com
    OBVIOUS
  <2>2. c \in Page
    BY <1>5, <2>1 DEF Reserve
  <2>3. Covered(c) /\ Full(c) /\ Marked({c})
    <3>1. CASE pc = "erase"
      <4>1. Covered(c) /\ Marked({c})
        BY <2>1, <3>1 DEF Sound, AtErase
      <4>2. c # NoPage
        BY <2>2, PagesAssumption DEF Page, NoPage
      <4>3. flash[c].xfer
        BY <2>1, <3>1, <4>2 DEF Compacted, Compaction, IsMarked
      <4> QED
        BY <2>2, <4>1, <4>3 DEF AtFull
    <3>2. CASE pc = "eraseMost"
      <4>1. Marked({c}) /\ In({c}) = {} /\ Full(c)
        BY <2>1, <3>2 DEF Sound, AtEraseMost, Marked, AtFull
      <4> QED
        BY <4>1 DEF Covered
    <3> QED
      BY <1>5, <3>1, <3>2
  <2>4. PICK page \in EraseLeaves(flash[c]) : Writes(c, page)
    BY <1>5, <2>1 DEF Crash, UnderErase, Writes
  <2>5. /\ flash'[c] = page /\ (\A q \in Page \ {c} : flash'[q] = flash[q]) /\ page.active
    BY <1>1, <2>2, <2>4, EraseInterrupted DEF Erased
  <2>6. page \in PageType /\ page.items = flash[c].items
    <3> DEFINE p1 == [flash[c] EXCEPT !.active = FALSE, !.inUse = FALSE, !.xfer = FALSE]
               p2 == [flash[c] EXCEPT !.xfer = FALSE]
    <3>1. flash[c] \in PageType
      BY <1>1, <2>2 DEF PagesTyped
    <3>2. ~p1.active /\ p2 \in PageType /\ p2.items = flash[c].items
      <4> HIDE DEF ItemType
      <4> QED
        BY <3>1 DEF PageType
    <3>3. page = flash[c] \/ page = Blank \/ page = p1 \/ page = p2
      BY DEF EraseLeaves
    <3> HIDE DEF p1, p2
    <3> QED
      BY <2>5, <3>1, <3>2, <3>3, BlankTyped
  <2>7. Named' = Named /\ \A x \in Items : Item(x)' = Item(x)
    BY <1>1, <2>2, <2>4, <2>6, PageReplaced
  <2>8. SizesStay(c)
    BY <2>5, <2>6 DEF SizesStay
  <2>9. Full(c)'
    BY <1>1, <2>2, <2>3, <2>8, FullStays
  <2>10. Covered(c)'
    <3>1. \A x \in Named : Item(x)' = Item(x)
      BY <2>7 DEF Named
    <3> QED
      BY <1>2, <2>2, <2>3, <2>7, <3>1
  <2>11. Marked({c})'
    BY <2>3, <2>5 DEF Marked
  <2> QED
    BY <2>2, <2>9, <2>10, <2>11
<1> QED
  BY <1>3, <1>4, <1>5

\* The items that initNV zeroes are not among those that cover the page.
LEMMA FullInitPages ==
  ASSUME Reserve, Sound, InitPages, NEW p \in Page, Covered(p), Full(p)
  PROVE  Covered(p)' /\ Full(p)'
<1>1. PagesTyped
  BY DEF Reserve
<1>2. PICK a \in Named : \/ flash' = flash \/ (Bad(a) /\ Zeroes(a))
                         \/ findDups /\ New(a) /\ Zeroes(FirstOf(Copies(Item(a).id, TRUE)))
  BY ToCheck
<1>3. CASE flash' = flash
  <2>1. Named' = Named /\ \A x : Item(x)' = Item(x)
    BY <1>3, FlashStays
  <2>2. Full(p)'
    BY <1>1, <1>3, FullStays DEF SizesStay
  <2> QED
    BY <2>1, <2>2 DEF Covered, In
<1>4. ASSUME NEW z \in Named, Zeroes(z), ~Item(z).good \/ Item(z).xfer PROVE Covered(p)' /\ Full(p)'
  <2>1. Named' = Named \ {z} /\ \A x \in Named \ {z} : Item(x)' = Item(x)
    BY <1>1, <1>4, FieldReplaced
  <2>2. SizesStay(p)
    BY <1>1, <1>4, ItemSizes DEF WritesIn
  <2>3. Full(p)'
    BY <1>1, <2>2, FullStays
  <2>4. /\ In({p})' = In({p}) \ {z} /\ In(Page \ {p})' = In(Page \ {p}) \ {z}
        /\ In({p}) \subseteq Named /\ In(Page \ {p}) \subseteq Named
    BY <2>1 DEF In
  <2>5. \A x \in In({p}) \ {z} : \E y \in In(Page \ {p}) \ {z} :
          Item(y)'.id = Item(x)'.id /\ Item(y)'.good /\ ~Item(y)'.xfer
    <3> TAKE x \in In({p}) \ {z}
    <3>1. PICK y \in In(Page \ {p}) : Item(y).id = Item(x).id /\ Item(y).good /\ ~Item(y).xfer
      BY DEF Covered
    <3>2. y # z
      BY <1>4, <3>1
    <3> QED
      BY <2>1, <2>4, <3>1, <3>2
  <2>6. Covered(p)'
    BY <2>4, <2>5 DEF Covered
  <2> QED
    BY <2>3, <2>6
<1>5. CASE Bad(a) /\ Zeroes(a)
  BY <1>4, <1>5 DEF Bad
<1>6. CASE New(a) /\ Zeroes(FirstOf(Copies(Item(a).id, TRUE)))
  <2>1. PICK z : z = FirstOf(Copies(Item(a).id, TRUE))
    OBVIOUS
  <2>2. z \in Copies(Item(a).id, TRUE)
    <3>1. Copies(Item(a).id, TRUE) \in SUBSET Items /\ Copies(Item(a).id, TRUE) # {}
      BY <1>6 DEF Copies, New
    <3> QED
      BY <1>1, <2>1, <3>1, FirstOfIn
  <2>3. z \in Named /\ Item(z).xfer
    BY <2>2 DEF Copies, Named
  <2> QED
    BY <1>4, <1>6, <2>1, <2>3
<1> QED
  BY <1>2, <1>3, <1>5, <1>6

\* A page of which all is lost.
LEMMA AllIsLost ==
  ASSUME PagesTyped, NEW p \in Page, In({p}) = {}
  PROVE  pgOff(p) = pgLost(p)
<1> DEFINE items == flash[p].items
<1>1. items \in Seq(ItemType) /\ \A i \in DOMAIN items : <<p, i>> \in Items /\ Item(<<p, i>>) = items[i]
  BY PlacesOfItems DEF Item
<1>2. ASSUME NEW i \in DOMAIN items PROVE items[i].id = Zeroed
  <2>1. PICK x : x = <<p, i>>
    OBVIOUS
  <2>2. x \in Items /\ Item(x) = items[i] /\ x[1] = p
    BY <1>1, <2>1
  <2> QED
    BY <2>2 DEF In, Named
<1>3. pgOff(p) = SizeOf(items) /\ pgLost(p) = LostOf(items)
  BY DEF pgOff, pgLost
<1> HIDE DEF items
<1>4. [i \in DOMAIN items |-> items[i].size] = [i \in DOMAIN items |-> IF items[i].id = Zeroed THEN items[i].size ELSE 0]
  BY <1>2
<1> QED
  BY <1>3, <1>4 DEF SizeOf, LostOf

\* The page that lost most lost all that it held: the full one has nothing else,
\* and an item less would not fill a page.
LEMMA FullInitDone ==
  ASSUME Reserve, Rooms, AtFull, InitDone, Sound', pgRes = NoPage
  PROVE  In({com})' = {} /\ Full(com)'
<1>1. PagesTyped /\ pc = "dups" /\ pc' = "eraseMost" /\ flash' = flash
  BY DEF Reserve, InitDone
<1>2. Named' = Named /\ \A x : Item(x)' = Item(x)
  BY <1>1, FlashStays
<1>3. Clean(Named)
  <2>1. Clean(Named)'
    BY <1>1 DEF Sound, AtEraseMost
  <2> QED
    BY <1>2, <2>1 DEF Clean
<1>4. PICK p \in Page : Covered(p) /\ Full(p)
  BY <1>1 DEF AtFull
<1>5. In({p}) = {}
  <2> SUFFICES ASSUME NEW x \in In({p}) PROVE FALSE
    OBVIOUS
  <2>1. PICK y \in In(Page \ {p}) : Item(y).id = Item(x).id
    BY <1>4 DEF Covered
  <2>2. x = y
    BY <1>3, <2>1 DEF Clean, In
  <2> QED
    BY <2>1, <2>2 DEF In
<1>6. PICK m : m = MostLost
  OBVIOUS
<1>7. m \in Page /\ pgLost(m) >= pgLost(p)
  <2>1. \E q \in Page : \A r \in Page : pgLost(q) > pgLost(r) \/ (pgLost(q) = pgLost(r) /\ q <= r)
    BY <1>1, MostOfLost
  <2>2. m \in Page /\ \A r \in Page : pgLost(m) > pgLost(r) \/ (pgLost(m) = pgLost(r) /\ m <= r)
    BY <1>6, <2>1 DEF MostLost
  <2>3. pgLost(m) \in Nat /\ pgLost(p) \in Nat
    BY <1>1, <2>2, TakenBounds
  <2> QED
    BY <2>2, <2>3
<1>8. /\ pgOff(p) = pgLost(p) /\ pgLost(m) <= pgOff(m) /\ pgOff(m) <= PageSize
      /\ pgOff(m) \in Nat /\ pgLost(m) \in Nat /\ pgOff(p) \in Nat
  <2>1. pgOff(p) = pgLost(p)
    BY <1>1, <1>5, AllIsLost
  <2>2. Taken(m, {}) + pgLost(m) <= pgOff(m) /\ Taken(m, {}) \in Nat
    BY <1>1, <1>7, TakenBounds
  <2>3. pgOff(m) \in Nat /\ pgLost(m) \in Nat /\ pgOff(p) \in Nat
    BY <1>1, <1>7, TakenBounds
  <2> QED
    BY <1>7, <2>1, <2>2, <2>3 DEF Rooms
<1>9. PageSize \in Nat /\ \A id \in Id : Size[id] \in Nat /\ pgLost(m) + Size[id] > PageSize
  <2>1. PageSize \in Nat /\ \A id \in Id : Size[id] \in Nat /\ pgOff(p) + Size[id] > PageSize
    BY <1>4, SizeAssumption DEF Full
  <2> QED
    BY <1>7, <1>8, <2>1
<1>10. Full(m)
  BY <1>8, <1>9 DEF Full
<1>11. In({m}) = {}
  <2> SUFFICES ASSUME NEW x \in In({m}) PROVE FALSE
    OBVIOUS
  <2>1. x \in Named /\ x \in Items /\ x[1] = m /\ Item(x).id \in Id
    BY <1>1, NamedPlaces DEF In
  <2>2. Taken(m, {} \cup {x}) = Taken(m, {}) + Item(x).size
    BY <1>1, <1>7, <2>1, TakenBounds
  <2>3. Taken(m, {} \cup {x}) + pgLost(m) <= pgOff(m)
    <3>1. {} \cup {x} \subseteq Named
      BY <2>1
    <3> QED
      BY <1>1, <1>7, <3>1, TakenBounds
  <2>4. Taken(m, {}) \in Nat /\ Item(x).size = Size[Item(x).id]
    BY <1>1, <1>7, <2>1, TakenBounds DEF Rooms
  <2> QED
    BY <1>8, <1>9, <2>1, <2>2, <2>3, <2>4
<1>12. com' = m
  BY <1>6 DEF InitDone
<1>13. Full(m)' /\ In({m})' = {}
  <2>1. Full(m)'
    BY <1>1, <1>7, <1>10, FullStays DEF SizesStay
  <2>2. In({m})' = In({m})
    BY <1>2 DEF In
  <2> QED
    BY <1>11, <2>1, <2>2
<1> QED
  BY <1>12, <1>13 DEF Full, In, pgOff


\* Items are all of a size.
SameSize == \A i \in Id, j \in Id : Size[i] = Size[j]

\* So what initNV erases is full, and has only lost items.
LEMMA AtFullKept ==
  SameSize /\ Reserve /\ Sound /\ Compacted /\ Rooms /\ AtFull /\ Sound' /\ [Next]_vars => AtFull'
<1> SUFFICES ASSUME SameSize, Reserve, Sound, Compacted, Rooms, AtFull, Sound', [Next]_vars
             PROVE  AtFull'
  OBVIOUS
<1>1. PagesTyped /\ \A p \in Page : flash'[p].xfer => Full(p)'
  BY MarkedFull DEF Reserve
<1>2. ASSUME pc' \notin {"markPage", "boot", "dups", "eraseMost"} PROVE AtFull'
  BY <1>1, <1>2 DEF AtFull
<1>3. ASSUME NEW kind \in {"init", "write"}, NEW id \in Id, NEW val \in Value, Begin(kind, id, val) PROVE AtFull'
  <2>1. CASE pc' = "header"
    BY <1>2, <2>1
  <2>2. CASE pc' # "header"
    <3>1. PICK p : p = Chosen(Size[id])
      OBVIOUS
    <3>2. p \in Page /\ com' = p /\ pc' = "markPage" /\ flash' = flash /\ NeedsCompaction(p, Size[id])
      <4>1. pgRes \in Page /\ Fitting(Size[id]) # {}
        BY <1>3 DEF Begin, Reserve, Reserved, Filled
      <4>2. p \in Page
        BY <3>1, <4>1, ChosenFits
      <4> QED
        BY <1>3, <2>2, <3>1, <4>2 DEF Begin
    <3>3. Full(p)
      BY <3>2 DEF NeedsCompaction, Full, SameSize
    <3>4. Full(p)'
      BY <1>1, <3>2, <3>3, FullStays DEF SizesStay
    <3>5. Full(com)'
      BY <3>2, <3>4 DEF Full, pgOff
    <3> QED
      BY <1>1, <3>2, <3>5 DEF AtFull
  <2> QED
    BY <2>1, <2>2
<1>4. CASE Crash
  BY <1>1, <1>4, FullCrash DEF Crash, AtFull
<1>5. CASE BootUse
  <2>1. Erased' # {} /\ pc' = "boot"
    BY <1>1, <1>5, OneLeft DEF BootUse, ram
  <2> QED
    BY <1>1, <2>1 DEF AtFull
<1>6. CASE BootScan
  <2>1. CASE pc' = "dups" /\ pgRes' = NoPage
    <3>1. Erased = {} /\ pc = "boot"
      <4>1. LowestOf(Erased) = NoPage /\ Cardinality(Erased) <= 1
        BY <1>6, <2>1 DEF BootScan
      <4>2. \A p \in Page : flash[p].active
        BY <1>1, <4>1, OneErased
      <4> QED
        BY <1>6, <4>2 DEF BootScan, Erased
    <3>2. PICK p \in Page : Covered(p) /\ Full(p)
      BY <3>1 DEF AtFull
    <3>3. flash' = flash
      BY <1>6 DEF BootScan
    <3>4. Covered(p)'
      BY <3>2, <3>3, FlashStays DEF Covered, In
    <3>5. Full(p)'
      BY <1>1, <3>2, <3>3, FullStays DEF SizesStay
    <3> QED
      BY <1>1, <2>1, <3>2, <3>4, <3>5 DEF AtFull
  <2>2. CASE ~(pc' = "dups" /\ pgRes' = NoPage)
    BY <1>1, <1>6, <2>2 DEF BootScan, AtFull
  <2> QED
    BY <2>1, <2>2
<1>7. CASE InitPages
  <2>1. pc = "dups" /\ pc' = "dups" /\ pgRes' = pgRes
    BY <1>7 DEF InitPages
  <2>2. pgRes = NoPage => \E p \in Page : Covered(p)' /\ Full(p)'
    BY <1>7, <2>1, FullInitPages DEF AtFull
  <2> QED
    BY <1>1, <2>1, <2>2 DEF AtFull
<1>8. CASE InitDone
  <2>1. CASE pgRes = NoPage
    BY <1>1, <1>8, <2>1, FullInitDone DEF InitDone, AtFull
  <2>2. CASE pgRes # NoPage
    BY <1>2, <1>8, <2>2 DEF InitDone
  <2> QED
    BY <2>1, <2>2
<1>9. CASE ErasePage
  <2>1. com \in Page
    BY <1>9 DEF ErasePage, Reserve
  <2> QED
    BY <1>1, <1>9, <2>1, PagesAssumption DEF ErasePage, AtFull, Page, NoPage
<1>10. CASE EraseRes
  <2>1. pgRes \in Page
    BY <1>10 DEF EraseRes, Reserve, Filled
  <2> QED
    BY <1>1, <1>10, <2>1, PagesAssumption DEF EraseRes, AtFull, Page, NoPage
<1>11. CASE UNCHANGED vars
  <2>1. flash' = flash /\ pc' = pc /\ com' = com /\ pgRes' = pgRes
    BY <1>11 DEF vars, ram
  <2>2. Named' = Named /\ \A x : Item(x)' = Item(x)
    BY <2>1, FlashStays
  <2>3. /\ \A p \in Page : Covered(p) => Covered(p)'
        /\ \A p \in Page : Marked({p}) => Marked({p})'
        /\ \A p \in Page : Full(p) => Full(p)'
    <3>1. \A p \in Page : Covered(p) => Covered(p)'
      BY <2>2 DEF Covered, In
    <3>2. \A p \in Page : Marked({p}) => Marked({p})'
      BY <2>1 DEF Marked
    <3>3. \A p \in Page : Full(p) => Full(p)'
      BY <1>1, <2>1, FullStays DEF SizesStay
    <3> QED
      BY <3>1, <3>2, <3>3
  <2>4. Erased' = Erased /\ In({com})' = In({com}) /\ (Full(com) => Full(com)')
    BY <2>1, <2>2 DEF Erased, In, Full, pgOff
  <2> QED
    BY <1>1, <2>1, <2>3, <2>4 DEF AtFull
<1>12. CASE \/ \E id \in hotIds : ItemInitHot(id)
            \/ \E id \in Id \ hotIds : osal_nv_delete(id)
            \/ MarkPage \/ CopyMark \/ CopyItem \/ CopyChk \/ WriteHeader \/ MarkOld
            \/ WriteData \/ SetChk \/ PageUse \/ ZeroOld \/ Return \/ EraseMost
  BY <1>2, <1>12 DEF ItemInitHot, osal_nv_delete, MarkPage, CopyMark, CopyItem, CopyChk, WriteHeader, MarkOld,
                     WriteData, SetChk, PageUse, ZeroOld, Return, EraseMost, AfterItem
<1> QED
  BY <1>3, <1>4, <1>5, <1>6, <1>7, <1>8, <1>9, <1>10, <1>11, <1>12 DEF Next, Writing, initNV

-----------------------------------------------------------------------------

\* What is known of a call holds whatever the calls and the power failures.
LEMMA CallKept == Spec => []AtCall
<1>1. Init => AtCall
  BY DEF Init, AtCall
<1> QED
  BY <1>1, AtCallKept, SoundInvariant, ReserveInvariant, PTL DEF Spec

\* osal_nv_write, osal_nv_item_init and osal_nv_delete are atomic, in spite of
\* power failures in them, in compactPage and in initNV, as long as initNV, without
\* a reserve page, does not erase a page that has items still.
THEOREM WritesAreAtomicOnceAllLost == Spec /\ []AllLost => ImplementsStore
<1>1. Spec => [](Reserve /\ Sound /\ AtCall)
  BY CallKept, SoundInvariant, ReserveInvariant, PTL
<1>2. Reserve /\ Sound /\ AtCall /\ AllLost /\ Reserve' /\ Sound' /\ [Next]_vars => [Store!Next]_<<Held, call>>
  BY StoreStep
<1>3. Spec /\ []AllLost => Store!Init /\ [][Store!Next]_<<Held, call>>
  BY <1>1, <1>2, StoreInit, PTL DEF Spec
<1> QED
  BY <1>3, PTL DEF ImplementsStore, Store!Spec, Held

\* It does not where an interrupted erase leaves or clears the header as a whole,
\* so that a compaction is known by its mark; nor, if it may clear the mark alone
\* (the last comment of initNV), where all items are of a size.
THEOREM WritesAreAtomic == ~TornErase \/ SameSize => (Spec => ImplementsStore)
<1>1. Init => Compacted /\ Resumable /\ AtFull
  <2> SUFFICES ASSUME Init PROVE Resumable /\ AtFull
    BY DEF Init, Compacted, Compaction
  <2>1. \A p \in Page : ~flash[p].active /\ ~flash[p].xfer
    BY DEF Init, Blank
  <2>2. 1 \in Page
    BY PagesAssumption DEF Page
  <2>3. Erased # {}
    BY <2>1, <2>2 DEF Erased
  <2> QED
    BY <2>1, <2>3 DEF Init, Resumable, AtFull
<1>2. Reserve /\ Sound /\ Compacted /\ [Next]_vars => Compacted'
  BY CompactedKept
<1>3. Spec => []Compacted
  BY <1>1, <1>2, SoundInvariant, ReserveInvariant, PTL DEF Spec
<1>4. ASSUME ~TornErase PROVE Spec => []AllLost
  <2>1. Reserve /\ Sound /\ Compacted /\ Resumable /\ [Next]_vars => Resumable'
    BY <1>4, ResumableKept
  <2>2. Resumable => AllLost
    BY DEF Resumable, AllLost
  <2> QED
    BY <1>1, <1>3, <2>1, <2>2, SoundInvariant, ReserveInvariant, PTL DEF Spec
<1>5. ASSUME SameSize PROVE Spec => []AllLost
  <2>1. Reserve /\ Sound /\ Compacted /\ Rooms /\ AtFull /\ Sound' /\ [Next]_vars => AtFull'
    BY <1>5, AtFullKept
  <2>2. AtFull => AllLost
    BY DEF AtFull, AllLost
  <2> QED
    BY <1>1, <1>3, <2>1, <2>2, RoomInvariant, SoundInvariant, ReserveInvariant, PTL DEF Spec
<1>6. ASSUME ~TornErase \/ SameSize PROVE Spec => []AllLost
  BY <1>4, <1>5, <1>6
<1>7. ASSUME ~TornErase \/ SameSize PROVE Spec => ImplementsStore
  BY <1>6, <1>7, WritesAreAtomicOnceAllLost, PTL
<1> QED
  BY <1>7

-----------------------------------------------------------------------------
(* The loop with nothing to do (OsalSleep).                                 *)

\* What the thread has found out on its way to sleep still holds, or an interrupt
\* has cleared halSleepPconValue since: there is no event, no task forbids to
\* sleep, and no timer runs if the sleep is to be a deep one.  The radio does not
\* interrupt any more once its power is off.
Drowsy ==
  /\ thread \in {"next", "mac", "disable"} /\ PconValue => ~anyEvent /\ state = {}
  /\ thread \in {"prepare", "stop", "asleep"} => ~anyEvent /\ state = {} /\ "radio" \notin raised
  /\ thread \in {"stop", "asleep"} => masked
  /\ thread \in {"prepare", "asleep"} => PconValue
  /\ thread = "mac" /\ PconValue /\ next = "none" => timer["osal"] = "none"
  /\ thread \in {"disable", "prepare", "stop", "asleep"} /\ PconValue /\ mode = "deep"
       => timer["osal"] = "none" /\ timer["mac"] = "none"

\* Each step of the thread and each interrupt keeps what is known on the way to
\* sleep.
LEMMA SleepInvariant == SleepSpec => [](SleepTypeOK /\ Drowsy)
<1> DEFINE Inv == SleepTypeOK /\ Drowsy
<1>1. SleepInit => Inv
  <2> SUFFICES ASSUME SleepInit PROVE Inv
    OBVIOUS
  <2>1. timer \in [{"osal", "mac"} -> Time]
    BY DEF SleepInit, Time
  <2> QED
    BY <2>1 DEF SleepInit, SleepTypeOK, Time, Drowsy
<1>2. Inv /\ [SleepNext]_sleepVars => Inv'
  <2> SUFFICES ASSUME SleepTypeOK, Drowsy, [SleepNext]_sleepVars PROVE SleepTypeOK' /\ Drowsy'
    OBVIOUS
  <2> USE DEF SleepTypeOK, Time, Drowsy
  <2>1. CASE osalTimeUpdate
    BY <2>1 DEF osalTimeUpdate
  <2>2. CASE Hal_ProcessPoll
    BY <2>2 DEF Hal_ProcessPoll, Allow
  <2>3. CASE Scan
    BY <2>3 DEF Scan
  <2>4. CASE RunTask
    <3>1. timer' \in [{"osal", "mac"} -> Time]
      BY <2>4 DEF RunTask
    <3>2. state' \subseteq PowerTask
      BY <2>4 DEF RunTask
    <3>3. /\ thread' = "poll" /\ thread = "task" /\ anyEvent' = FALSE
          /\ UNCHANGED <<EA, masked, raised, PconValue, next, mode, radioOn>>
      BY <2>4 DEF RunTask
    <3> QED
      BY <3>1, <3>2, <3>3
  <2>5. CASE osal_next_timeout
    BY <2>5 DEF osal_next_timeout
  <2>6. CASE halSleep
    BY <2>6 DEF halSleep
  <2>7. CASE DisableInterrupts
    BY <2>7 DEF DisableInterrupts, MaySleep
  <2>8. CASE Prepare
    BY <2>8 DEF Prepare
  <2>9. CASE halSetSleepMode
    BY <2>9 DEF halSetSleepMode, EnabledAwake
  <2>10. CASE WakeUp
    BY <2>10 DEF WakeUp, Missed
  <2>11. ASSUME NEW i \in {"key", "radio"}, Raise(i) PROVE SleepTypeOK' /\ Drowsy'
    BY <2>11 DEF Raise
  <2>12. ASSUME NEW i \in {"key", "radio", "sleepTimer"}, Interrupt(i)
         PROVE  SleepTypeOK' /\ Drowsy'
    BY <2>12 DEF Interrupt, Waking, EnabledAwake
  <2>13. CASE SleepTimer
    BY <2>13 DEF SleepTimer
  <2>14. ASSUME NEW w \in {"osal", "mac"}, Elapse(w) PROVE SleepTypeOK' /\ Drowsy'
    BY <2>14 DEF Elapse, Later
  <2>15. CASE UNCHANGED sleepVars
    BY <2>15 DEF sleepVars
  <2> QED
    BY <2>1, <2>2, <2>3, <2>4, <2>5, <2>6, <2>7, <2>8, <2>9, <2>10, <2>11, <2>12, <2>13, <2>14,
       <2>15
    DEF SleepNext, SleepThread
<1> QED
  BY <1>1, <1>2, PTL DEF SleepSpec

\* The loop's way to sleep and back is in one of its states; interrupts are let in
\* in all of them but the two around the setting of the sleep mode, and the radio is
\* off from the first of these to the second (halSleep).
THEOREM SleepTyped == SleepSpec => []SleepTypeOK
BY SleepInvariant, PTL

\* Nothing is slept over: from the look at the events to the instruction that
\* stops the processor, every interrupt clears the value that the instruction
\* writes, and between the last test of that value and its setting interrupts
\* are disabled (osal_pwrmgr_powerconserve, halSleep, CLEAR_SLEEP_MODE).
THEOREM NothingIsSleptOver == SleepSpec => []NothingSleptOver
<1>1. SleepTypeOK /\ Drowsy => NothingSleptOver
  BY DEF NothingSleptOver, SleepTypeOK, Waking, Drowsy
<1> QED
  BY <1>1, SleepInvariant, PTL

-----------------------------------------------------------------------------
(* The transmitter of the UART, which each round of the loop polls (HalUartTx). *)

\* The last of the bytes that the hardware holds in DBUF and on the line.
HeldByte(u, last) == IF u.dbuf # None THEN u.dbuf ELSE IF u.shift # None THEN u.shift ELSE last

\* The bytes at places from to to - 1 of a buffer follow each other.
Consecutive(b, from, to) ==
  \A i \in 0 .. TX_MAX - 1 : from < i /\ i < to => txBuf[b][i] = After(txBuf[b][i - 1])

\* What the hardware holds and the DMA still reads follows the byte last.
Follows(u, last) ==
  /\ u.shift # None => u.shift = After(last)
  /\ u.dbuf # None => u.shift # None /\ u.dbuf = After(u.shift)
  /\ u.armed => txBuf[u.src][u.pos] = After(HeldByte(u, last)) /\ Consecutive(u.src, u.pos, u.len)

\* The last byte that the hardware has to send.
LastOut(u, last) == IF u.armed THEN txBuf[u.src][u.len - 1] ELSE HeldByte(u, last)

\* Any state of the channel and its registers.
Uart == [armed : BOOLEAN, src : Buffer, pos : 0 .. TX_MAX, len : 0 .. TX_MAX, irq : BOOLEAN,
         dbuf : Byte \cup {None}, shift : Byte \cup {None}, left : 0 .. CharTicks]

\* The DMA reads as long as DBUF is full, and its end raises the interrupt.
SoundUart(u) ==
  /\ u \in Uart
  /\ u.shift # None <=> u.left > 0
  /\ u.armed => u.dbuf # None /\ u.pos < u.len /\ ~u.irq
  /\ u.irq => u.len > 0

\* Types, with what a tick or an interrupt may count on.
TxTyped ==
  /\ txBuf \in [Buffer -> [0 .. TX_MAX - 1 -> Byte]]
  /\ txIdx \in [Buffer -> 0 .. TX_MAX] /\ txSel \in Buffer
  /\ {txDMAPending, txShdwValid} \subseteq BOOLEAN /\ since \in Nat
  /\ write.len \in Nat /\ write.txIdx \in Nat
  /\ line \in Byte /\ accepted \in Byte
  /\ SoundUart(uart) /\ uart.pos <= uart.len

\* What a buffer is for: the DMA reads one and has emptied it when it is
\* through; writes fill the other.  A DMA is awaited only while none is at
\* work, and a byte in DBUF by then is on the line before the waiting is over.
BufferRoles ==
  /\ IF IdleDma THEN txIdx[1 - txSel] = 0
                ELSE uart.src # txSel /\ txIdx[uart.src] = uart.len
  /\ txDMAPending => IdleDma /\ txIdx[txSel] > 0
  /\ txShdwValid => IdleDma
  /\ IdleDma /\ uart.dbuf # None => txShdwValid /\ since + uart.left <= CharTicks
  /\ txPc = "write" =>
       /\ write.txSel = txSel /\ write.txIdx = txIdx[txSel]
       /\ write.len > 0 /\ write.txIdx + write.len <= TX_MAX

\* From the line over the hardware and the DMA's buffer to the buffer that is
\* filled, each byte follows the one before, up to the last one accepted.
BytesOrdered ==
  /\ Follows(uart, line)
  /\ txIdx[txSel] > 0 => txBuf[txSel][0] = After(LastOut(uart, line))
  /\ Consecutive(txSel, 0, txIdx[txSel])
  /\ accepted = IF txIdx[txSel] > 0 THEN txBuf[txSel][txIdx[txSel] - 1] ELSE LastOut(uart, line)

\* The numbers of the bytes go round: after n + 1 comes what follows after n.
LEMMA AfterSteps ==
  ASSUME NEW n \in Nat
  PROVE  After(n) \in Byte /\ After(n + 1) = After(After(n))
<1> DEFINE m == 2 * TX_MAX + 3
           q == (n + 1) \div m
           r == (n + 1) % m
<1>1. m \in Nat \ {0}
  BY TransmitterAssumption
<1>2. q \in Nat /\ r \in 0 .. m - 1 /\ n + 1 = m * q + r
  BY <1>1
<1>3. After(n) = r /\ After(n + 1) = (n + 2) % m /\ After(r) = (r + 1) % m
  BY <1>1, <1>2 DEF After
<1>4. 0 .. m - 1 = Byte
  BY TransmitterAssumption DEF Byte
<1> HIDE DEF m, q, r
<1>5. (n + 2) % m = (r + 1) % m
  <2> DEFINE p == (n + 2) \div m
             s == (n + 2) % m
             p2 == (r + 1) \div m
             s2 == (r + 1) % m
  <2>1. p \in Nat /\ s \in 0 .. m - 1 /\ n + 2 = m * p + s
    BY <1>1
  <2>2. p2 \in Nat /\ s2 \in 0 .. m - 1 /\ r + 1 = m * p2 + s2
    BY <1>1, <1>2
  <2> HIDE DEF p, s, p2, s2
  <2>3. m * p + s = m * (q + p2) + s2
    BY <1>1, <1>2, <2>1, <2>2
  <2>4. s = s2
    <3> DEFINE k == p - (q + p2)
    <3>1. k \in Int /\ m * k = s2 - s
      BY <1>1, <1>2, <2>1, <2>2, <2>3
    <3> HIDE DEF k
    <3>2. ASSUME k >= 1 PROVE FALSE
      <4>1. PICK j \in Nat : k = j + 1
        BY <3>1, <3>2
      <4>2. m * k = m * j + m /\ m * j \in Nat
        BY <1>1, <4>1
      <4> QED
        BY <1>1, <2>1, <2>2, <3>1, <4>2
    <3>3. ASSUME k <= -1 PROVE FALSE
      <4>1. PICK j \in Nat : k = -1 - j
        BY <3>1, <3>3
      <4>2. m * k = 0 - m * j - m /\ m * j \in Nat
        BY <1>1, <4>1
      <4> QED
        BY <1>1, <2>1, <2>2, <3>1, <4>2
    <3>4. k = 0
      BY <3>1, <3>2, <3>3
    <3> QED
      BY <1>1, <2>1, <2>2, <3>1, <3>4
  <2> QED
    BY <2>4 DEF s, s2
<1> QED
  BY <1>2, <1>3, <1>4, <1>5

\* The DMA puts the byte that is next into DBUF.
LEMMA TransferStep ==
  ASSUME txBuf \in [Buffer -> [0 .. TX_MAX - 1 -> Byte]],
         NEW u \in Uart, NEW last, u.pos < u.len, u.dbuf = None,
         txBuf[u.src][u.pos] = After(last), Consecutive(u.src, u.pos, u.len),
         NEW v, v = Transfer(u)
  PROVE  /\ v \in Uart
         /\ v.dbuf = After(last) /\ v.dbuf \in Byte
         /\ v.shift = u.shift /\ v.left = u.left /\ v.src = u.src /\ v.len = u.len
         /\ v.pos = u.pos + 1 /\ v.pos <= v.len
         /\ v.armed = (v.pos < v.len) /\ v.irq = (v.pos = v.len)
         /\ v.armed => txBuf[v.src][v.pos] = After(v.dbuf) /\ Consecutive(v.src, v.pos, v.len)
         /\ txBuf[u.src][u.len - 1] = IF v.armed THEN txBuf[v.src][v.len - 1] ELSE v.dbuf
<1>0. /\ u.pos \in 0 .. TX_MAX /\ u.len \in 0 .. TX_MAX /\ u.src \in Buffer /\ TX_MAX \in Nat
      /\ u.pos \in 0 .. TX_MAX - 1 /\ u.len - 1 \in 0 .. TX_MAX - 1
  BY TransmitterAssumption DEF Uart
<1>1. /\ v.dbuf = txBuf[u.src][u.pos] /\ v.pos = u.pos + 1
      /\ v.armed = (u.pos + 1 < u.len) /\ v.irq = (u.pos + 1 = u.len)
      /\ v.shift = u.shift /\ v.left = u.left /\ v.src = u.src /\ v.len = u.len
  BY DEF Transfer, Uart
<1>2. v.dbuf \in Byte
  BY <1>0, <1>1
<1>3. v \in Uart
  <2>1. u.pos + 1 \in 0 .. TX_MAX /\ (u.pos + 1 < u.len) \in BOOLEAN /\ (u.pos + 1 = u.len) \in BOOLEAN
    BY <1>0
  <2> QED
    BY <1>1, <1>2, <2>1 DEF Transfer, Uart
<1>6. (v.armed => u.pos + 1 < u.len) /\ (~v.armed => ~(u.pos + 1 < u.len))
  BY <1>1, Zenon
<1>4. ASSUME v.armed PROVE txBuf[v.src][v.pos] = After(v.dbuf) /\ Consecutive(v.src, v.pos, v.len)
  <2>0. u.pos + 1 < u.len
    BY <1>4, <1>6
  <2>1. u.pos + 1 \in 0 .. TX_MAX - 1
    BY <1>0, <2>0
  <2>2. txBuf[u.src][u.pos + 1] = After(txBuf[u.src][u.pos + 1 - 1])
    BY <1>0, <2>0, <2>1 DEF Consecutive
  <2>3. u.pos + 1 - 1 = u.pos
    BY <1>0
  <2>4. Consecutive(u.src, u.pos + 1, u.len)
    BY <1>0 DEF Consecutive
  <2> QED
    BY <1>1, <2>2, <2>3, <2>4
<1>5. txBuf[u.src][u.len - 1] = IF v.armed THEN txBuf[v.src][v.len - 1] ELSE v.dbuf
  <2>1. CASE v.armed
    BY <1>1, <2>1
  <2>2. CASE ~v.armed
    <3>0. ~(u.pos + 1 < u.len)
      BY <1>6, <2>2
    <3>1. u.len - 1 = u.pos
      BY <1>0, <3>0
    <3> QED
      BY <1>1, <2>2, <3>1
  <2> QED
    BY <2>1, <2>2
<1> QED
  BY <1>0, <1>1, <1>2, <1>3, <1>4, <1>5

\* A record of the hardware before Load.
ReadyToLoad(u, last) ==
  /\ u \in Uart /\ last \in Byte
  /\ u.shift # None <=> u.left > 0
  /\ u.shift # None => u.shift = After(last)
  /\ u.dbuf # None => u.dbuf = After(IF u.shift # None THEN u.shift ELSE last)
  /\ u.armed => /\ u.dbuf # None /\ u.pos < u.len /\ ~u.irq
                /\ txBuf[u.src][u.pos] = After(HeldByte(u, last)) /\ Consecutive(u.src, u.pos, u.len)
  /\ u.irq => u.len > 0
  /\ u.pos <= u.len

\* A byte goes from DBUF onto the line, and the DMA brings the next one.
LEMMA LoadStep ==
  ASSUME txBuf \in [Buffer -> [0 .. TX_MAX - 1 -> Byte]],
         NEW u, NEW last, ReadyToLoad(u, last), NEW w, w = Load(u)
  PROVE  /\ SoundUart(w) /\ Follows(w, last) /\ LastOut(w, last) = LastOut(u, last)
         /\ w.src = u.src /\ w.len = u.len /\ w.pos <= w.len
         /\ (w.armed \/ w.irq) = (u.armed \/ u.irq)
         /\ u.shift = None /\ ~u.armed => w.dbuf = None
<1>0. None \notin Byte /\ u \in Uart /\ CharTicks \in Nat /\ CharTicks > 0
  BY TransmitterAssumption DEF None, Byte, ReadyToLoad
<1>1. CASE u.shift # None \/ u.dbuf = None
  <2>1. w = u
    BY <1>1 DEF Load
  <2> QED
    BY <1>0, <1>1, <2>1 DEF SoundUart, Follows, ReadyToLoad
<1>2. CASE u.shift = None /\ u.dbuf # None
  <2> DEFINE v == [u EXCEPT !.shift = u.dbuf, !.dbuf = None, !.left = CharTicks]
  <2>1. /\ v.shift = u.dbuf /\ v.dbuf = None /\ v.left = CharTicks /\ v.pos = u.pos
        /\ v.armed = u.armed /\ v.irq = u.irq /\ v.src = u.src /\ v.len = u.len
    BY <1>0 DEF Uart
  <2>2. v \in Uart
    <3>1. u.dbuf \in Byte \cup {None} /\ None \in Byte \cup {None} /\ CharTicks \in 0 .. CharTicks
      BY <1>0 DEF Uart
    <3> QED
      BY <1>0, <3>1 DEF Uart
  <2>3. w = IF v.armed THEN Transfer(v) ELSE v
    BY <1>2 DEF Load
  <2>4. v.shift # None /\ v.shift = After(last)
    BY <1>2, <2>1 DEF ReadyToLoad
  <2> HIDE DEF v
  <2>5. CASE ~v.armed
    BY <1>0, <1>2, <2>1, <2>2, <2>3, <2>4, <2>5 DEF SoundUart, Follows, LastOut, HeldByte, ReadyToLoad
  <2>6. CASE v.armed
    <3>1. /\ txBuf[v.src][v.pos] = After(v.shift) /\ Consecutive(v.src, v.pos, v.len)
          /\ v.pos < v.len
      BY <1>2, <2>1, <2>6 DEF ReadyToLoad, HeldByte
    <3>2. /\ w \in Uart
          /\ w.dbuf = After(v.shift) /\ w.dbuf \in Byte
          /\ w.shift = v.shift /\ w.left = v.left /\ w.src = v.src /\ w.len = v.len
          /\ w.pos = v.pos + 1 /\ w.pos <= w.len
          /\ w.armed = (w.pos < w.len) /\ w.irq = (w.pos = w.len)
          /\ w.armed => txBuf[w.src][w.pos] = After(w.dbuf) /\ Consecutive(w.src, w.pos, w.len)
          /\ txBuf[v.src][v.len - 1] = IF w.armed THEN txBuf[w.src][w.len - 1] ELSE w.dbuf
      BY <2>1, <2>2, <2>3, <2>6, <3>1, TransferStep
    <3>3. v.pos \in Nat /\ v.len \in Nat /\ w.pos \in Nat
      BY <2>2, <3>2 DEF Uart
    <3>4. w.dbuf # None
      BY <1>0, <3>2
    <3>a. /\ w.armed => w.pos < w.len
          /\ w.irq => w.pos = w.len
      BY <3>2, Zenon
    <3>b. /\ w.pos < w.len => w.armed
          /\ w.pos = w.len => w.irq
      BY <3>2, Zenon
    <3>c. ~(w.pos < w.len /\ w.pos = w.len) /\ (w.pos < w.len \/ w.pos = w.len) /\ v.pos + 1 > 0
      BY <3>2, <3>3
    <3>d. w.armed => ~w.irq
      BY <3>a, <3>c
    <3>e. w.armed \/ w.irq
      BY <3>b, <3>c
    <3>f. w.irq => w.len > 0
      BY <3>2, <3>3, <3>a
    <3>g. w.shift # None /\ w.left > 0
      BY <1>0, <2>1, <2>4, <3>2
    <3>5. SoundUart(w)
      BY <3>2, <3>4, <3>a, <3>d, <3>f, <3>g DEF SoundUart
    <3>6. Follows(w, last)
      BY <2>4, <3>2, <3>4 DEF Follows, HeldByte
    <3>7. LastOut(w, last) = LastOut(u, last)
      BY <2>1, <2>6, <3>2, <3>4 DEF LastOut, HeldByte
    <3> QED
      BY <2>1, <2>6, <3>2, <3>5, <3>6, <3>7, <3>e
  <2> QED
    BY <2>5, <2>6
<1> QED
  BY <1>1, <1>2

\* TxFacts about the state that most steps need.
LEMMA TxFacts ==
  ASSUME TxTyped
  PROVE  /\ None \notin Byte /\ Buffer = {0, 1} /\ 1 - txSel \in Buffer /\ 1 - txSel # txSel
         /\ \A b \in Buffer : b # txSel => b = 1 - txSel
         /\ TX_MAX \in Nat /\ TX_MAX > 0 /\ CharTicks \in Nat /\ CharTicks > 0
         /\ txIdx[txSel] \in 0 .. TX_MAX
         /\ uart \in Uart /\ uart.left \in Nat /\ uart.left <= CharTicks
         /\ uart.src \in Buffer /\ uart.len \in 0 .. TX_MAX /\ uart.pos \in 0 .. TX_MAX
         /\ uart.shift \in Byte \cup {None} /\ uart.dbuf \in Byte \cup {None}
         /\ \A b \in Buffer : txBuf[b] \in [0 .. TX_MAX - 1 -> Byte]
<1>1. txSel \in {0, 1} /\ Buffer = {0, 1}
  BY DEF TxTyped, Buffer
<1>2. 1 - txSel \in {0, 1} /\ 1 - txSel # txSel /\ \A b \in {0, 1} : b # txSel => b = 1 - txSel
  BY <1>1
<1>3. uart \in Uart
  BY DEF TxTyped, SoundUart
<1>4. /\ uart.left \in 0 .. CharTicks /\ uart.src \in Buffer
      /\ uart.len \in 0 .. TX_MAX /\ uart.pos \in 0 .. TX_MAX
      /\ uart.shift \in Byte \cup {None} /\ uart.dbuf \in Byte \cup {None}
  BY <1>3 DEF Uart
<1>5. None \notin Byte
  BY DEF None, Byte
<1>6. txIdx[txSel] \in 0 .. TX_MAX /\ \A b \in Buffer : txBuf[b] \in [0 .. TX_MAX - 1 -> Byte]
  BY DEF TxTyped
<1>7. TX_MAX \in Nat /\ TX_MAX > 0 /\ CharTicks \in Nat /\ CharTicks > 0
  BY TransmitterAssumption
<1>8. uart.left \in Nat /\ uart.left <= CharTicks
  BY <1>4, <1>7
<1> QED
  BY <1>1, <1>2, <1>3, <1>4, <1>5, <1>6, <1>7, <1>8

\* The work of the interrupt, done by it or by a poll.
LEMMA DoneStep ==
  ASSUME TxTyped, BufferRoles, BytesOrdered, TxDone, ~uart.armed,
         UNCHANGED <<txSel, line, accepted>>,
         txPc' = "write" => txPc = "write", UNCHANGED write
  PROVE  TxTyped' /\ BufferRoles' /\ BytesOrdered'
<1>f. /\ None \notin Byte /\ Buffer = {0, 1} /\ 1 - txSel \in Buffer /\ 1 - txSel # txSel
      /\ TX_MAX \in Nat /\ TX_MAX > 0 /\ txIdx[txSel] \in 0 .. TX_MAX
      /\ uart \in Uart /\ uart.left \in Nat /\ uart.left <= CharTicks
  BY TxFacts
<1>1. /\ uart'.armed = FALSE /\ uart'.irq = FALSE /\ uart'.src = uart.src /\ uart'.pos = uart.pos
      /\ uart'.len = uart.len /\ uart'.dbuf = uart.dbuf /\ uart'.shift = uart.shift
      /\ uart'.left = uart.left
  BY <1>f DEF TxDone, Uart
<1>2. uart' \in Uart
  BY <1>f DEF TxDone, Uart
<1>3. SoundUart(uart')
  BY <1>1, <1>2 DEF SoundUart, TxTyped
<1>4. /\ txBuf' \in [Buffer -> [0 .. TX_MAX - 1 -> Byte]]
      /\ txBuf'[txSel] = txBuf[txSel]
  <2>1. 0 \in Byte /\ Empty \in [0 .. TX_MAX - 1 -> Byte]
    BY <1>f DEF Empty, Byte
  <2> QED
    BY <1>f, <2>1 DEF TxDone, TxTyped
<1>5. /\ txIdx' \in [Buffer -> 0 .. TX_MAX]
      /\ txIdx'[txSel] = txIdx[txSel] /\ txIdx'[1 - txSel] = 0
  BY <1>f DEF TxDone, TxTyped
<1>6. txDMAPending' \in BOOLEAN /\ txDMAPending' => txIdx[txSel] > 0
  <2>1. txDMAPending' = (txDMAPending \/ txIdx[txSel] # 0)
    BY DEF TxDone
  <2>2. txDMAPending => txIdx[txSel] # 0
    BY <1>f DEF BufferRoles
  <2>3. txIdx[txSel] # 0 => txIdx[txSel] > 0
    BY <1>f
  <2>4. txDMAPending \in BOOLEAN
    BY DEF TxTyped
  <2> QED
    BY <2>1, <2>2, <2>3, <2>4
<1>7. txShdwValid' = TRUE /\ since' = 0
  BY DEF TxDone
<1>8. TxTyped'
  BY <1>1, <1>3, <1>4, <1>5, <1>6, <1>7 DEF TxTyped, TxDone, SoundUart
<1>9. BufferRoles'
  <2>1. IdleDma'
    BY <1>1 DEF IdleDma
  <2>2. txShdwValid' /\ since' + uart'.left <= CharTicks
    BY <1>f, <1>1, <1>7
  <2>3. txSel' = txSel /\ (txDMAPending' => txIdx'[txSel] > 0)
    BY <1>f, <1>5, <1>6
  <2>4. txPc' = "write" =>
          /\ write'.txSel = txSel /\ write'.txIdx = txIdx'[txSel]
          /\ write'.len > 0 /\ write'.txIdx + write'.len <= TX_MAX
    BY <1>5 DEF BufferRoles
  <2> QED
    BY <1>5, <2>1, <2>2, <2>3, <2>4 DEF BufferRoles
<1>10. BytesOrdered'
  <2>1. LastOut(uart, line)' = LastOut(uart, line)
    BY <1>1 DEF LastOut, HeldByte
  <2>2. Follows(uart, line)'
    BY <1>1 DEF Follows, BytesOrdered
  <2>3. Consecutive(txSel, 0, txIdx[txSel])'
    BY <1>4, <1>5 DEF Consecutive, BytesOrdered
  <2> QED
    BY <1>4, <1>5, <2>1, <2>2, <2>3 DEF BytesOrdered
<1> QED
  BY <1>8, <1>9, <1>10

\* A tick with which a byte has left.
LEMMA LeaveStep ==
  ASSUME TxTyped, BufferRoles, BytesOrdered, TxTick, uart.shift # None /\ uart.left = 1
  PROVE  TxTyped' /\ BufferRoles' /\ BytesOrdered'
<1>f. /\ None \notin Byte /\ uart \in Uart /\ CharTicks \in Nat /\ TickMod \in Nat \ {0}
      /\ uart.shift \in Byte
  BY TxFacts, TransmitterAssumption
<1> DEFINE u == [uart EXCEPT !.shift = None, !.left = 0]
<1>1. /\ line' = uart.shift /\ uart' = Load(u)
      /\ UNCHANGED <<txBuf, txIdx, txSel, txDMAPending, txShdwValid, txPc, write, accepted>>
  BY DEF TxTick
<1>2. /\ u.shift = None /\ u.left = 0 /\ u.dbuf = uart.dbuf /\ u.armed = uart.armed
      /\ u.irq = uart.irq /\ u.src = uart.src /\ u.pos = uart.pos /\ u.len = uart.len
  BY <1>f DEF Uart
<1>3. u \in Uart
  <2>1. None \in Byte \cup {None} /\ 0 \in 0 .. CharTicks
    BY <1>f
  <2> QED
    BY <1>f, <2>1 DEF Uart
<1> HIDE DEF u
<1>4. HeldByte(u, uart.shift) = HeldByte(uart, line)
  BY <1>2 DEF HeldByte
<1>5. ReadyToLoad(u, line')
  BY <1>f, <1>1, <1>2, <1>3, <1>4 DEF ReadyToLoad, TxTyped, SoundUart, BytesOrdered, Follows
<1>6. txBuf \in [Buffer -> [0 .. TX_MAX - 1 -> Byte]]
  BY DEF TxTyped
<1>7. /\ SoundUart(uart') /\ Follows(uart', line') /\ LastOut(uart', line') = LastOut(u, line')
      /\ uart'.src = u.src /\ uart'.len = u.len /\ uart'.pos <= uart'.len
      /\ (uart'.armed \/ uart'.irq) = (u.armed \/ u.irq)
      /\ u.shift = None /\ ~u.armed => uart'.dbuf = None
  BY <1>1, <1>5, <1>6, LoadStep
<1>8. since' \in Nat
  BY <1>f DEF TxTick, TxTyped
<1>9. TxTyped'
  BY <1>f, <1>1, <1>7, <1>8 DEF TxTyped
<1>10. BufferRoles'
  <2>1. IdleDma' <=> IdleDma
    BY <1>2, <1>7 DEF IdleDma
  <2>2. IdleDma => uart'.dbuf = None
    BY <1>2, <1>7 DEF IdleDma
  <2> QED
    BY <1>1, <1>2, <1>7, <2>1, <2>2 DEF BufferRoles
<1>11. BytesOrdered'
  <2>1. Follows(uart, line)' /\ LastOut(uart, line)' = LastOut(uart, line)
    BY <1>1, <1>2, <1>4, <1>7 DEF Follows, LastOut, HeldByte, Consecutive
  <2> QED
    BY <1>1, <2>1 DEF BytesOrdered, Consecutive
<1> QED
  BY <1>9, <1>10, <1>11

\* Any other tick.
LEMMA PassStep ==
  ASSUME TxTyped, BufferRoles, BytesOrdered, TxTick, ~(uart.shift # None /\ uart.left = 1)
  PROVE  TxTyped' /\ BufferRoles' /\ BytesOrdered'
<1>f. /\ None \notin Byte /\ uart \in Uart /\ CharTicks \in Nat /\ TickMod \in Nat \ {0}
      /\ uart.left \in 0 .. CharTicks /\ since \in Nat
  BY TxFacts, TransmitterAssumption DEF TxTyped, Uart
<1>1. /\ line' = line /\ uart' = [uart EXCEPT !.left = IF @ > 0 THEN @ - 1 ELSE 0]
      /\ UNCHANGED <<txBuf, txIdx, txSel, txDMAPending, txShdwValid, txPc, write, accepted>>
      /\ since' = IF txShdwValid THEN (since + 1) % TickMod ELSE since
  BY DEF TxTick
<1>2. /\ uart'.shift = uart.shift /\ uart'.dbuf = uart.dbuf /\ uart'.armed = uart.armed
      /\ uart'.irq = uart.irq /\ uart'.src = uart.src /\ uart'.pos = uart.pos
      /\ uart'.len = uart.len /\ uart'.left = IF uart.left > 0 THEN uart.left - 1 ELSE 0
  BY <1>f, <1>1 DEF Uart
<1>3. uart'.left \in 0 .. CharTicks /\ uart' \in Uart
  <2>1. (IF uart.left > 0 THEN uart.left - 1 ELSE 0) \in 0 .. CharTicks
    BY <1>f
  <2> QED
    BY <1>f, <1>1, <1>2, <2>1 DEF Uart
<1>4. uart.left # 1
  BY <1>f DEF TxTyped, SoundUart
<1>5. uart'.left > 0 <=> uart.left > 0
  BY <1>f, <1>2, <1>4
<1>6. since' \in Nat /\ (txShdwValid => since' <= since + 1)
  <2>1. (since + 1) % TickMod \in Nat /\ (since + 1) % TickMod <= since + 1
    <3>1. CASE since + 1 < TickMod
      <4>1. (since + 1) % TickMod = since + 1
        BY <1>f, <3>1
      <4> QED
        BY <1>f, <4>1
    <3>2. CASE since + 1 >= TickMod
      <4>1. (since + 1) % TickMod \in 0 .. TickMod - 1
        BY <1>f
      <4> QED
        BY <1>f, <3>2, <4>1
    <3> QED
      BY <1>f, <3>1, <3>2
  <2> QED
    BY <1>f, <1>1, <2>1
<1>7. TxTyped'
  <2>1. SoundUart(uart')
    BY <1>2, <1>3, <1>5 DEF SoundUart, TxTyped
  <2> QED
    BY <1>1, <1>2, <1>6, <2>1 DEF TxTyped
<1>8. BufferRoles'
  <2>1. IdleDma' <=> IdleDma
    BY <1>2 DEF IdleDma
  <2>2. ASSUME IdleDma, uart.dbuf # None
        PROVE  txShdwValid /\ since' + uart'.left <= CharTicks
    <3>1. txShdwValid /\ since + uart.left <= CharTicks
      BY <2>2 DEF BufferRoles
    <3>2. uart.left > 0
      BY <2>2 DEF BytesOrdered, Follows, TxTyped, SoundUart
    <3>3. uart'.left = uart.left - 1 /\ since' <= since + 1
      BY <1>2, <1>6, <3>1, <3>2
    <3> QED
      BY <1>f, <1>6, <3>1, <3>3
  <2> QED
    BY <1>1, <1>2, <2>1, <2>2 DEF BufferRoles
<1>9. BytesOrdered'
  <2>1. Follows(uart, line)' /\ LastOut(uart, line)' = LastOut(uart, line)
    BY <1>1, <1>2 DEF Follows, LastOut, HeldByte, Consecutive, BytesOrdered
  <2> QED
    BY <1>1, <2>1 DEF BytesOrdered, Consecutive
<1> QED
  BY <1>7, <1>8, <1>9

\* The DMA is started.
LEMMA FireStep ==
  ASSUME TxTyped, BufferRoles, BytesOrdered, Fire
  PROVE  TxTyped' /\ BufferRoles' /\ BytesOrdered'
<1>f. /\ None \notin Byte /\ uart \in Uart /\ CharTicks \in Nat
      /\ 1 - txSel \in Buffer /\ 1 - txSel # txSel /\ txSel \in Buffer
      /\ TX_MAX \in Nat /\ txIdx[txSel] \in 0 .. TX_MAX
      /\ txBuf \in [Buffer -> [0 .. TX_MAX - 1 -> Byte]]
  BY TxFacts DEF TxTyped
<1>1. /\ IdleDma /\ ~txShdwValid /\ uart.dbuf = None /\ txIdx[txSel] > 0 /\ txIdx[1 - txSel] = 0
      /\ ~uart.armed
  BY DEF Fire, BufferRoles, IdleDma
<1> DEFINE u == [uart EXCEPT !.armed = TRUE, !.src = txSel, !.pos = 0, !.len = txIdx[txSel],
                             !.irq = FALSE]
           v == Transfer(u)
           last == HeldByte(uart, line)
<1>2. /\ uart' = Load(v) /\ txSel' = 1 - txSel /\ ~txDMAPending' /\ txPc' = "idle"
      /\ UNCHANGED <<txBuf, txIdx, txShdwValid, since, write, line, accepted>>
  BY DEF Fire
<1>3. /\ u.shift = uart.shift /\ u.left = uart.left /\ u.dbuf = None /\ u.src = txSel
      /\ u.pos = 0 /\ u.len = txIdx[txSel]
  BY <1>f, <1>1 DEF Uart
<1>4. u \in Uart
  <2>1. 0 \in 0 .. TX_MAX
    BY <1>f
  <2> QED
    BY <1>f, <2>1 DEF Uart
<1> HIDE DEF u
<1>5. txBuf[u.src][u.pos] = After(last) /\ Consecutive(u.src, u.pos, u.len) /\ u.pos < u.len
  BY <1>1, <1>3 DEF BytesOrdered, LastOut
<1>6. /\ v \in Uart
      /\ v.dbuf = After(last) /\ v.dbuf \in Byte
      /\ v.shift = u.shift /\ v.left = u.left /\ v.src = u.src /\ v.len = u.len
      /\ v.pos = u.pos + 1 /\ v.pos <= v.len
      /\ v.armed = (v.pos < v.len) /\ v.irq = (v.pos = v.len)
      /\ v.armed => txBuf[v.src][v.pos] = After(v.dbuf) /\ Consecutive(v.src, v.pos, v.len)
      /\ txBuf[u.src][u.len - 1] = IF v.armed THEN txBuf[v.src][v.len - 1] ELSE v.dbuf
  BY <1>f, <1>3, <1>4, <1>5, TransferStep
<1> HIDE DEF v, last
<1>7. /\ v.armed => v.pos < v.len
      /\ v.irq => v.pos = v.len
      /\ v.pos < v.len => v.armed
      /\ v.pos = v.len => v.irq
  BY <1>6, Zenon
<1>8. v.pos \in Nat /\ v.len \in Nat /\ v.pos > 0
  BY <1>3, <1>6 DEF Uart
<1>9. (v.armed \/ v.irq) /\ (v.armed => ~v.irq) /\ (v.irq => v.len > 0)
  <2>1. v.pos < v.len \/ v.pos = v.len
    BY <1>6, <1>8
  <2>2. ~(v.pos < v.len /\ v.pos = v.len)
    BY <1>8
  <2>3. v.pos = v.len => v.len > 0
    BY <1>8
  <2> QED
    BY <1>7, <2>1, <2>2, <2>3
<1>10. ReadyToLoad(v, line)
  <2>1. last = IF v.shift # None THEN v.shift ELSE line
    BY <1>1, <1>3, <1>6 DEF last, HeldByte
  <2>2. HeldByte(v, line) = v.dbuf /\ v.dbuf # None
    BY <1>f, <1>6 DEF HeldByte
  <2>3. (v.shift # None <=> v.left > 0) /\ (v.shift # None => v.shift = After(line)) /\ line \in Byte
    BY <1>3, <1>6 DEF TxTyped, SoundUart, BytesOrdered, Follows
  <2> QED
    BY <1>6, <1>7, <1>9, <2>1, <2>2, <2>3 DEF ReadyToLoad
<1>11. /\ SoundUart(uart') /\ Follows(uart', line) /\ LastOut(uart', line) = LastOut(v, line)
       /\ uart'.src = v.src /\ uart'.len = v.len /\ uart'.pos <= uart'.len
       /\ (uart'.armed \/ uart'.irq) = (v.armed \/ v.irq)
  BY <1>f, <1>2, <1>10, LoadStep
<1>12. LastOut(v, line) = accepted
  <2>1. LastOut(v, line) = txBuf[txSel][txIdx[txSel] - 1]
    BY <1>f, <1>3, <1>6 DEF LastOut, HeldByte
  <2> QED
    BY <1>1, <2>1 DEF BytesOrdered
<1>13. TxTyped'
  <2>1. txSel' \in Buffer
    BY <1>f, <1>2
  <2>2. txDMAPending' = FALSE /\ txShdwValid' \in BOOLEAN
    BY <1>2 DEF Fire, TxTyped
  <2>3. /\ txBuf' \in [Buffer -> [0 .. TX_MAX - 1 -> Byte]] /\ txIdx' \in [Buffer -> 0 .. TX_MAX]
        /\ since' \in Nat /\ write'.len \in Nat /\ write'.txIdx \in Nat
        /\ line' \in Byte /\ accepted' \in Byte
    BY <1>2 DEF TxTyped
  <2>4. SoundUart(uart)' /\ (uart.pos <= uart.len)'
    BY <1>11 DEF SoundUart
  <2> QED
    BY <2>1, <2>2, <2>3, <2>4 DEF TxTyped
<1>14. BufferRoles'
  <2>1. ~IdleDma'
    BY <1>9, <1>11 DEF IdleDma
  <2>2. uart'.src = txSel /\ uart'.len = txIdx[txSel]
    BY <1>3, <1>6, <1>11
  <2> QED
    BY <1>f, <1>1, <1>2, <2>1, <2>2 DEF BufferRoles
<1>15. BytesOrdered'
  <2>1. Follows(uart, line)' /\ LastOut(uart, line)' = accepted
    BY <1>2, <1>11, <1>12 DEF Follows, LastOut, HeldByte, Consecutive
  <2>2. txIdx'[txSel'] = 0
    BY <1>1, <1>2
  <2>3. Consecutive(txSel, 0, txIdx[txSel])'
    BY <1>f, <2>2 DEF Consecutive
  <2> QED
    BY <1>2, <2>1, <2>2, <2>3 DEF BytesOrdered
<1> QED
  BY <1>13, <1>14, <1>15

\* The bytes of a write are in the buffer.
LEMMA WriteStep ==
  ASSUME TxTyped, BufferRoles, BytesOrdered, EndWrite
  PROVE  TxTyped' /\ BufferRoles' /\ BytesOrdered'
<1> DEFINE n == txIdx[txSel]
           l == write.len
           old == txBuf[txSel]
           new == txBuf'[txSel]
<1>f. /\ 1 - txSel \in Buffer /\ 1 - txSel # txSel /\ txSel \in Buffer
      /\ TX_MAX \in Nat /\ n \in 0 .. TX_MAX /\ l \in Nat
      /\ old \in [0 .. TX_MAX - 1 -> Byte] /\ accepted \in Byte /\ accepted \in Nat
      /\ uart \in Uart /\ uart.src \in Buffer
  BY TxFacts DEF TxTyped, Byte
<1>1. /\ write.txSel = txSel /\ write.txIdx = n /\ l > 0 /\ n + l <= TX_MAX
  BY DEF EndWrite, BufferRoles
<1>2. /\ txBuf' = [txBuf EXCEPT ![txSel] = [i \in 0 .. TX_MAX - 1 |->
           IF i \in n .. n + l - 1 THEN After(accepted + i - n) ELSE @[i]]]
      /\ accepted' = After(accepted + l - 1)
      /\ txIdx' = [txIdx EXCEPT ![txSel] = n + l]
      /\ txDMAPending' = (txDMAPending \/ txIdx[1 - txSel] = 0)
      /\ txPc' = "idle" /\ write' = NoWrite
      /\ UNCHANGED <<txSel, txShdwValid, since, uart, line>>
  BY <1>1 DEF EndWrite, Sends
<1>3. /\ new = [i \in 0 .. TX_MAX - 1 |->
           IF i \in n .. n + l - 1 THEN After(accepted + i - n) ELSE old[i]]
      /\ \A b \in Buffer : b # txSel => txBuf'[b] = txBuf[b]
  BY <1>f, <1>2 DEF TxTyped
<1>4. txIdx'[txSel] = n + l /\ txIdx'[1 - txSel] = txIdx[1 - txSel]
  BY <1>f, <1>2 DEF TxTyped
<1> HIDE DEF n, l, old, new
<1>5. /\ \A i \in 0 .. n - 1 : new[i] = old[i]
      /\ \A i \in n .. n + l - 1 : new[i] = After(accepted + (i - n))
  <2>1. ASSUME NEW i \in 0 .. n - 1 PROVE new[i] = old[i]
    BY <1>f, <1>1, <1>3
  <2>2. ASSUME NEW i \in n .. n + l - 1 PROVE new[i] = After(accepted + (i - n))
    <3>1. i \in 0 .. TX_MAX - 1 /\ accepted + i - n = accepted + (i - n)
      BY <1>f, <1>1
    <3>2. new[i] = After(accepted + i - n)
      BY <1>3, <3>1
    <3> QED
      BY <3>1, <3>2
  <2> QED
    BY <2>1, <2>2
<1>6. /\ txBuf' \in [Buffer -> [0 .. TX_MAX - 1 -> Byte]]
      /\ accepted' \in Byte
  <2>1. accepted + l - 1 \in Nat
    BY <1>f, <1>1
  <2>2. ASSUME NEW i \in 0 .. TX_MAX - 1
        PROVE  (IF i \in n .. n + l - 1 THEN After(accepted + i - n) ELSE old[i]) \in Byte
    <3>1. CASE i \in n .. n + l - 1
      <4>1. accepted + i - n \in Nat
        BY <1>f, <3>1
      <4> QED
        BY <3>1, <4>1, AfterSteps
    <3> QED
      BY <1>f, <3>1
  <2>3. new \in [0 .. TX_MAX - 1 -> Byte]
    BY <1>3, <2>2
  <2>4. txBuf' \in [Buffer -> [0 .. TX_MAX - 1 -> Byte]]
    <3>1. txBuf' = [txBuf EXCEPT ![txSel] = new]
      BY <1>2, <1>3, <1>f DEF old, TxTyped
    <3> QED
      BY <2>3, <3>1 DEF TxTyped
  <2> QED
    BY <1>2, <2>1, <2>4, AfterSteps
<1>7. TxTyped'
  <2>1. n + l \in 0 .. TX_MAX
    BY <1>f, <1>1
  <2>2. txIdx' \in [Buffer -> 0 .. TX_MAX]
    BY <1>2, <2>1 DEF TxTyped
  <2>3. write'.len \in Nat /\ write'.txIdx \in Nat
    BY <1>2 DEF NoWrite
  <2>4. {txDMAPending', txShdwValid'} \subseteq BOOLEAN
    BY <1>2 DEF TxTyped
  <2>5. txSel' \in Buffer /\ since' \in Nat /\ line' \in Byte /\ (SoundUart(uart) /\ uart.pos <= uart.len)'
    BY <1>2 DEF TxTyped, SoundUart
  <2> QED
    BY <1>6, <2>2, <2>3, <2>4, <2>5 DEF TxTyped
<1>8. ~IdleDma => uart.src = 1 - txSel /\ txIdx[1 - txSel] # 0
  <2>1. ASSUME ~IdleDma PROVE uart.len # 0
    <3>1. uart.len \in Nat /\ uart.pos \in Nat
      BY <1>f DEF Uart
    <3>2. uart.armed => uart.pos < uart.len
      BY DEF TxTyped, SoundUart
    <3>3. uart.irq => uart.len > 0
      BY DEF TxTyped, SoundUart
    <3> QED
      BY <2>1, <3>1, <3>2, <3>3 DEF IdleDma
  <2>2. ~IdleDma => uart.src = 1 - txSel /\ txIdx[uart.src] = uart.len
    BY TxFacts DEF BufferRoles
  <2> QED
    BY <2>1, <2>2
<1>9. BufferRoles'
  <2>1. IdleDma' <=> IdleDma
    BY <1>2 DEF IdleDma
  <2>2. txIdx'[txSel'] > 0
    BY <1>f, <1>1, <1>2, <1>4
  <2>3. txDMAPending' => IdleDma
    BY <1>2, <1>8 DEF BufferRoles
  <2>4. IF IdleDma THEN txIdx'[1 - txSel] = 0
                   ELSE uart.src # txSel /\ txIdx'[uart.src] = uart.len
    <3>1. CASE IdleDma
      BY <1>4, <3>1 DEF BufferRoles
    <3>2. CASE ~IdleDma
      BY <1>4, <1>8, <3>2 DEF BufferRoles
    <3> QED
      BY <3>1, <3>2
  <2> QED
    BY <1>2, <2>1, <2>2, <2>3, <2>4 DEF BufferRoles
<1>10. BytesOrdered'
  <2>1. uart.armed => txBuf'[uart.src] = txBuf[uart.src]
    BY <1>f, <1>3, <1>8 DEF IdleDma
  <2>h. uart' = uart /\ line' = line /\ txSel' = txSel /\ HeldByte(uart, line)' = HeldByte(uart, line)
    BY <1>2 DEF HeldByte
  <2>2. Follows(uart, line)' /\ LastOut(uart, line)' = LastOut(uart, line)
    <3>1. CASE uart.armed
      <4>1. Consecutive(uart.src, uart.pos, uart.len)'
        BY <2>1, <2>h, <3>1 DEF BytesOrdered, Follows, Consecutive
      <4>2. (txBuf[uart.src][uart.pos])' = txBuf[uart.src][uart.pos]
        BY <2>1, <2>h, <3>1
      <4>3. Follows(uart, line)'
        BY <2>h, <4>1, <4>2 DEF BytesOrdered, Follows
      <4> QED
        BY <2>1, <2>h, <3>1, <4>3 DEF LastOut
    <3>2. CASE ~uart.armed
      BY <2>h, <3>2 DEF BytesOrdered, Follows, LastOut
    <3> QED
      BY <3>1, <3>2
  <2>3. new[0] = After(LastOut(uart, line))
    <3>1. CASE n = 0
      <4>1. accepted = LastOut(uart, line)
        BY <3>1 DEF BytesOrdered, n
      <4>2. 0 \in n .. n + l - 1 /\ accepted + (0 - n) = accepted
        BY <1>f, <1>1, <3>1
      <4> QED
        BY <1>5, <4>1, <4>2
    <3>2. CASE n # 0
      <4>1. 0 \in 0 .. n - 1 /\ n > 0
        BY <1>f, <3>2
      <4>2. old[0] = After(LastOut(uart, line))
        BY <4>1 DEF BytesOrdered, n, old
      <4> QED
        BY <1>5, <4>1, <4>2
    <3> QED
      BY <3>1, <3>2
  <2>4. ASSUME NEW i \in 0 .. TX_MAX - 1, 0 < i, i < n + l
        PROVE  new[i] = After(new[i - 1])
    <3>1. CASE i < n
      <4>1. i \in 0 .. n - 1 /\ i - 1 \in 0 .. n - 1
        BY <1>f, <2>4, <3>1
      <4>2. old[i] = After(old[i - 1])
        BY <2>4, <3>1 DEF BytesOrdered, Consecutive, n, old
      <4> QED
        BY <1>5, <4>1, <4>2
    <3>2. CASE i = n
      <4>1. n \in n .. n + l - 1 /\ n - 1 \in 0 .. n - 1 /\ accepted + (n - n) = accepted /\ n > 0
        BY <1>f, <1>1, <2>4, <3>2
      <4>2. accepted = old[n - 1]
        BY <4>1 DEF BytesOrdered, n, old
      <4> QED
        BY <1>5, <3>2, <4>1, <4>2
    <3>3. CASE i > n
      <4>1. /\ i \in n .. n + l - 1 /\ i - 1 \in n .. n + l - 1
            /\ accepted + (i - 1 - n) \in Nat /\ accepted + (i - 1 - n) + 1 = accepted + (i - n)
        BY <1>f, <1>1, <2>4, <3>3
      <4>2. After(accepted + (i - 1 - n) + 1) = After(After(accepted + (i - 1 - n)))
        BY <4>1, AfterSteps
      <4> QED
        BY <1>5, <4>1, <4>2
    <3> QED
      BY <1>f, <3>1, <3>2, <3>3
  <2>5. accepted' = new[n + l - 1]
    <3> DEFINE i == n + l - 1
    <3>1. i \in n .. n + l - 1 /\ accepted + (i - n) = accepted + l - 1
      BY <1>f, <1>1
    <3> HIDE DEF i
    <3>2. new[i] = After(accepted + l - 1)
      BY <1>5, <3>1
    <3> QED
      BY <1>2, <3>2 DEF i
  <2>6. txBuf'[txSel'] = new /\ txIdx'[txSel'] = n + l /\ n + l > 0
    BY <1>f, <1>1, <1>2, <1>4 DEF new
  <2>7. Consecutive(txSel, 0, txIdx[txSel])'
    BY <2>4, <2>6 DEF Consecutive
  <2>8. (accepted = IF txIdx[txSel] > 0 THEN txBuf[txSel][txIdx[txSel] - 1]
                                       ELSE LastOut(uart, line))'
    <3>0. txIdx'[txSel'] > 0
      BY <2>6, Zenon
    <3>b. txIdx'[txSel'] - 1 = n + l - 1
      <4>1. PICK k : k = n + l
        OBVIOUS
      <4>2. txIdx'[txSel'] = n + l
        BY <2>6, Zenon
      <4>3. txIdx'[txSel'] = k
        BY <4>1, <4>2, Zenon
      <4>4. n + l - 1 = k - 1
        BY <1>f, <4>1
      <4> QED
        BY <4>3, <4>4, Zenon
    <3>c. txBuf'[txSel'] = new
      BY <2>6
    <3>a. txBuf'[txSel'][txIdx'[txSel'] - 1] = new[n + l - 1]
      BY <3>b, <3>c, Zenon
    <3>1. txIdx'[txSel'] > 0 /\ txBuf'[txSel'][txIdx'[txSel'] - 1] = new[n + l - 1]
      BY <3>0, <3>a
    <3>2. accepted' = txBuf'[txSel'][txIdx'[txSel'] - 1]
      BY <2>5, <3>1, Zenon
    <3> QED
      BY <3>1, <3>2
  <2>9. (txIdx[txSel] > 0 => txBuf[txSel][0] = After(LastOut(uart, line)))'
    <3>1. (txBuf[txSel][0])' = new[0]
      BY <2>6
    <3>2. After(LastOut(uart, line))' = After(LastOut(uart, line)')
      BY DEF After
    <3> QED
      BY <2>2, <2>3, <3>1, <3>2
  <2> QED
    BY <2>2, <2>7, <2>8, <2>9 DEF BytesOrdered
<1> QED
  BY <1>7, <1>9, <1>10

\* Each step of a write, a poll, the interrupt and the hardware keeps what the
\* buffers are for and how the bytes follow each other.
LEMMA TxInvariant == TxSpec => [](TxTyped /\ BufferRoles /\ BytesOrdered)
<1> DEFINE TxInv == TxTyped /\ BufferRoles /\ BytesOrdered
<1>1. TxInit => TxInv
  <2> SUFFICES ASSUME TxInit PROVE TxInv
    OBVIOUS
  <2>1. 0 \in Byte /\ TX_MAX \in Nat /\ TX_MAX > 0 /\ CharTicks \in Nat
    BY TransmitterAssumption DEF Byte
  <2>2. uart \in Uart
    <3>1. 0 \in 0 .. TX_MAX /\ 0 \in 0 .. CharTicks /\ 0 \in Buffer
      BY <2>1 DEF Buffer
    <3> QED
      BY <3>1 DEF TxInit, Idle, Uart
  <2>3. /\ ~uart.armed /\ ~uart.irq /\ uart.dbuf = None /\ uart.shift = None /\ uart.left = 0
        /\ uart.pos = 0 /\ uart.len = 0
    BY DEF TxInit, Idle
  <2>4. TxTyped
    <3>1. Empty \in [0 .. TX_MAX - 1 -> Byte] /\ 0 \in 0 .. TX_MAX
      BY <2>1 DEF Empty
    <3>2. txBuf \in [Buffer -> [0 .. TX_MAX - 1 -> Byte]] /\ txIdx \in [Buffer -> 0 .. TX_MAX]
      BY <3>1 DEF TxInit
    <3>3. SoundUart(uart)
      BY <2>2, <2>3 DEF SoundUart
    <3>4. /\ txSel \in Buffer /\ {txDMAPending, txShdwValid} \subseteq BOOLEAN /\ since \in Nat
          /\ line \in Byte /\ accepted \in Byte
      BY <2>1 DEF TxInit, Buffer
    <3>5. write.len \in Nat /\ write.txIdx \in Nat
      BY DEF TxInit, NoWrite
    <3>6. uart.pos <= uart.len
      BY <2>3
    <3> QED
      BY <3>2, <3>3, <3>4, <3>5, <3>6 DEF TxTyped
  <2>5. BufferRoles
    BY <2>3 DEF TxInit, BufferRoles, IdleDma, Buffer
  <2>6. BytesOrdered
    BY <2>3 DEF TxInit, BytesOrdered, Follows, LastOut, HeldByte, Consecutive, Buffer
  <2> QED
    BY <2>4, <2>5, <2>6
<1>2. TxInv /\ [TxNext]_txVars => TxInv'
  <2> SUFFICES ASSUME TxTyped, BufferRoles, BytesOrdered, [TxNext]_txVars PROVE TxTyped' /\ BufferRoles' /\ BytesOrdered'
    OBVIOUS
  <2>1. CASE TxTick
    BY <2>1, LeaveStep, PassStep
  <2>2. CASE HalUARTIsrDMA
    <3>1. ~uart.armed
      BY <2>2 DEF HalUARTIsrDMA, TxTyped, SoundUart
    <3> QED
      BY <2>2, <3>1, DoneStep DEF HalUARTIsrDMA
  <2>3. CASE EndWrite
    BY <2>3, WriteStep
  <2>4. CASE PollShadow
    <3>1. /\ UNCHANGED <<txBuf, txIdx, txSel, txDMAPending, write, uart, line, accepted>>
          /\ txPc' = "fire" /\ txShdwValid' = (txShdwValid /\ ~Spaced)
          /\ since' = IF txShdwValid' THEN since ELSE 0
      BY <2>4 DEF PollShadow
    <3>2. txShdwValid' \in BOOLEAN /\ since' \in Nat /\ txShdwValid' => txShdwValid
      BY <3>1 DEF TxTyped
    <3>3. TxTyped'
      BY <3>1, <3>2 DEF TxTyped, SoundUart
    <3>4. ASSUME IdleDma, uart.dbuf # None
          PROVE  txShdwValid' /\ since' + uart.left <= CharTicks
      <4>1. txShdwValid /\ since + uart.left <= CharTicks
        BY <3>4 DEF BufferRoles
      <4>2. uart.left > 0 /\ uart.left \in Nat /\ since \in Nat /\ CharTicks \in Nat
        BY <3>4, TxFacts DEF BytesOrdered, Follows, TxTyped, SoundUart
      <4>3. ~Spaced
        BY <4>1, <4>2 DEF Spaced, txTick
      <4> QED
        BY <3>1, <4>1, <4>3
    <3>5. BufferRoles'
      BY <3>1, <3>2, <3>4 DEF BufferRoles, IdleDma
    <3>6. BytesOrdered'
      BY <3>1 DEF BytesOrdered, Follows, LastOut, HeldByte, Consecutive
    <3> QED
      BY <3>3, <3>5, <3>6
  <2>5. CASE Fire
    BY <2>5, FireStep
  <2>6. CASE Recover
    <3>1. CASE txIdx[txSel] # 0 /\ IdleDma
      BY <2>6, <3>1, DoneStep DEF Recover, IdleDma
    <3>2. CASE ~(txIdx[txSel] # 0 /\ IdleDma)
      <4>1. /\ UNCHANGED <<txBuf, txIdx, txSel, txDMAPending, txShdwValid, since, write, uart, line,
                           accepted>>
            /\ txPc' = "idle"
        BY <2>6, <3>2 DEF Recover
      <4> QED
        BY <4>1 DEF TxTyped, SoundUart, BufferRoles, IdleDma, BytesOrdered, Follows, LastOut, HeldByte, Consecutive
    <3> QED
      BY <3>1, <3>2
  <2>7. ASSUME NEW len \in 1 .. TX_MAX, BeginWrite(len) PROVE TxTyped' /\ BufferRoles' /\ BytesOrdered'
    <3>1. /\ UNCHANGED <<txBuf, txIdx, txSel, txDMAPending, txShdwValid, since, uart, line,
                         accepted>>
          /\ write' = [len |-> len, txSel |-> txSel, txIdx |-> txIdx[txSel]]
          /\ len + txIdx[txSel] <= TX_MAX
      BY <2>7 DEF BeginWrite
    <3>2. /\ write'.len = len /\ write'.txSel = txSel /\ write'.txIdx = txIdx[txSel]
      BY <3>1
    <3>3. len \in Nat /\ len > 0 /\ txIdx[txSel] \in Nat /\ txIdx[txSel] + len <= TX_MAX
      BY <3>1, TxFacts, TransmitterAssumption
    <3>4. TxTyped'
      BY <3>1, <3>2, <3>3 DEF TxTyped, SoundUart
    <3>5. BufferRoles'
      BY <3>1, <3>2, <3>3 DEF BufferRoles, IdleDma
    <3>6. BytesOrdered'
      BY <3>1 DEF BytesOrdered, Follows, LastOut, HeldByte, Consecutive
    <3> QED
      BY <3>4, <3>5, <3>6
  <2>8. CASE UNCHANGED txVars
    BY <2>8 DEF txVars, TxTyped, SoundUart, BufferRoles, IdleDma, BytesOrdered, Follows, LastOut, HeldByte, Consecutive
  <2> QED
    BY <2>1, <2>2, <2>3, <2>4, <2>5, <2>6, <2>7, <2>8 DEF TxNext, TxThread
<1> QED
  BY <1>1, <1>2, PTL DEF TxSpec

\* Whatever the sizes of the buffers: no index leaves its buffer, the DMA never
\* reads the buffer that writes fill, and a character's time is waited for only
\* while no DMA is at work (HalUARTPollDMA, "while the shadow was valid, DMA ISR
\* cannot be triggered").
THEOREM TransmitterTyped == TxSpec => []TxTypeOK
<1>1. TxTyped /\ BufferRoles => TxTypeOK
  BY DEF TxTyped, BufferRoles, IdleDma, TxTypeOK
<1> QED
  BY <1>1, TxInvariant, PTL

\* The bytes leave in the order in which they were accepted, none twice, none
\* left out, none overwritten: for buffers of any size, a character's time of
\* any number of ticks, and writes, polls, interrupts and ticks in any order.
THEOREM BytesLeaveInOrder == TxSpec => BytesInOrder
<1> DEFINE TxInv == TxTyped /\ BufferRoles /\ BytesOrdered
<1>1. TxInv /\ [TxNext]_txVars => [line' # line => line' = After(line)]_line
  <2> SUFFICES ASSUME TxInv, [TxNext]_txVars, line' # line PROVE line' = After(line)
    OBVIOUS
  <2>1. TxTick /\ uart.shift # None /\ line' = uart.shift
    BY DEF TxNext, TxThread, txVars, TxTick, HalUARTIsrDMA, EndWrite, PollShadow, Fire, Recover,
           BeginWrite
  <2> QED
    BY <2>1 DEF BytesOrdered, Follows
<1> QED
  BY <1>1, TxInvariant, PTL DEF TxSpec, BytesInOrder


-----------------------------------------------------------------------------
(* All three *)

\* The flash, with its page in reserve, the transmitter and the way to sleep are
\* always well formed.
THEOREM HardwareWellFormed == AllSpec => []WellFormed
<1>1. AllInit => Init /\ TxInit /\ SleepInit
  BY DEF AllInit
<1>2. [AllNext]_allVars => [Next]_vars
  BY DEF AllNext, allVars, InNv, InTx, InSleep
<1>3. [AllNext]_allVars => [TxNext]_txVars
  BY DEF AllNext, allVars, InNv, InTx, InSleep
<1>4. [AllNext]_allVars => [SleepNext]_sleepVars
  BY DEF AllNext, allVars, InNv, InTx, InSleep
<1>5. AllSpec => Spec /\ TxSpec /\ SleepSpec
  BY <1>1, <1>2, <1>3, <1>4, PTL DEF AllSpec, Spec, TxSpec, SleepSpec
<1>6. TypeOK /\ OneReserve /\ TxTypeOK /\ SleepTypeOK => WellFormed
  BY DEF WellFormed
<1> QED
  BY <1>5, <1>6, WithinPages, ReserveKept, TransmitterTyped, SleepTyped, PTL

=============================================================================
