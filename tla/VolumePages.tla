------------------------------ MODULE VolumePages ------------------------------
(***************************************************************************)
(* The pages of a volume, for every geometry: what it means that each is   *)
(* in one place only and that they tell what memory tells, and what the    *)
(* operators of ObjectFile and FileTree do to such pages.                  *)
(***************************************************************************)
EXTENDS Diagnosis, FiniteSetTheorems, FunctionTheorems, NaturalsInduction, TLAPS

-----------------------------------------------------------------------------
(***************************************************************************)
(* The bitmap: what the allocator's scans return, for every bitmap and     *)
(* every device, and what the bit file holds, for every size of a byte and *)
(* of a page.                                                              *)
(***************************************************************************)
\* The numbers of S above p.
Over(S, p) == {q \in S : q > p}

\* Of two numbers of a finite set the lower has more of the set above it.
LEMMA FewerAbove ==
  ASSUME NEW S \in SUBSET Int, IsFiniteSet(S), NEW p \in S, NEW r \in S, p < r
  PROVE  /\ Cardinality(Over(S, r)) \in Nat /\ Cardinality(Over(S, p)) \in Nat
         /\ Cardinality(Over(S, r)) < Cardinality(Over(S, p))
<1>0. p \in Int /\ r \in Int /\ \A q \in S : q \in Int
  OBVIOUS
<1>1. /\ \A q \in Over(S, r) : q \in Over(S, p)
      /\ r \in Over(S, p) /\ r \notin Over(S, r)
  BY <1>0 DEF Over
<1>2. /\ Over(S, p) \in SUBSET S /\ Over(S, r) \in SUBSET S
      /\ Over(S, r) \in SUBSET Over(S, p)
  BY <1>1 DEF Over
<1>3. IsFiniteSet(Over(S, p)) /\ IsFiniteSet(Over(S, r))
  BY <1>2, FS_Subset
<1>4. Cardinality(Over(S, p)) \in Nat /\ Cardinality(Over(S, r)) \in Nat
  BY <1>3, FS_CardinalityType
<1>5. /\ Cardinality(Over(S, r)) <= Cardinality(Over(S, p))
      /\ Cardinality(Over(S, p)) = Cardinality(Over(S, r)) => Over(S, p) = Over(S, r)
  BY <1>2, <1>3, FS_Subset
<1>. QED  BY <1>1, <1>4, <1>5

\* Two numbers with as many above them are the same number.
LEMMA SameAbove ==
  ASSUME NEW S \in SUBSET Int, IsFiniteSet(S), NEW p \in S, NEW r \in S,
         Cardinality(Over(S, p)) = Cardinality(Over(S, r))
  PROVE  p = r
<1>1. CASE p < r  BY <1>1, FewerAbove
<1>2. CASE r < p  BY <1>2, FewerAbove
<1>. QED  BY <1>1, <1>2

\* A finite set of numbers has a k-th one from the top, for every k up to its size: counting
\* the numbers above maps the set one to one into 0 .. size - 1, hence onto it.
LEMMA NthExists ==
  ASSUME NEW S \in SUBSET Int, IsFiniteSet(S), NEW k \in 1 .. Cardinality(S)
  PROVE  \E p \in S : Cardinality(Over(S, p)) = k - 1
<1>. DEFINE n     == Cardinality(S)
            ranks == 0 .. n - 1
            rank  == [p \in S |-> Cardinality(Over(S, p))]
<1>1. n \in Nat /\ n - 1 \in Int
  BY FS_CardinalityType
<1>2. IsFiniteSet(ranks) /\ Cardinality(ranks) = n
  <2>. HIDE DEF n
  <2>1. IsFiniteSet(ranks) /\ Cardinality(ranks) = IF 0 > n - 1 THEN 0 ELSE (n - 1) - 0 + 1
    BY <1>1, FS_Interval
  <2>. QED  BY <1>1, <2>1
<1>3. ASSUME NEW p \in S
      PROVE  Cardinality(Over(S, p)) \in ranks
  <2>1. Over(S, p) \in SUBSET (S \ {p})
    BY <1>3 DEF Over
  <2>2. IsFiniteSet(S \ {p}) /\ Cardinality(S \ {p}) = n - 1
    BY <1>3, FS_RemoveElement
  <2>3. IsFiniteSet(Over(S, p)) /\ Cardinality(Over(S, p)) <= n - 1
    BY <2>1, <2>2, FS_Subset
  <2>4. Cardinality(Over(S, p)) \in Nat
    BY <2>3, FS_CardinalityType
  <2>. QED  BY <1>1, <2>3, <2>4
<1>4. rank \in [S -> ranks]
  BY <1>3
<1>5. \A p, r \in S : rank[p] = rank[r] => p = r
  BY SameAbove
<1>6. rank \in Injection(S, ranks)
  BY <1>4, <1>5, Fun_IsInj
<1>7. rank \in Surjection(S, ranks)
  BY <1>2, <1>6, FS_Injection
<1>8. k - 1 \in ranks
  BY <1>1
<1>9. PICK p \in S : rank[p] = k - 1
  <2>. HIDE DEF rank, ranks
  <2>. QED  BY <1>7, <1>8, Fun_SurjectionProperties
<1>. QED  BY <1>9

\* The window of the allocator is a finite set of pages of the device.
LEMMA WindowType ==
  /\ Window \subseteq Pages /\ 0 \notin Window
  /\ IsFiniteSet(Pages)
  /\ \A used : FreePages(used) \in SUBSET Int /\ IsFiniteSet(FreePages(used))
<1>1. Top \in Int /\ Top <= TotalPages - 1
  BY BitMapAssumption DEF Top
<1>2. Window \subseteq Pages /\ 0 \notin Window
  BY <1>1, BitMapAssumption DEF Window, Pages
<1>3. IsFiniteSet(Pages)
  BY BitMapAssumption, FS_Interval DEF Pages
<1>4. \A used : FreePages(used) \in SUBSET Pages
  BY <1>2 DEF FreePages
<1>5. \A used : IsFiniteSet(FreePages(used))
  BY <1>3, <1>4, FS_Subset
<1>. QED  BY <1>2, <1>3, <1>4, <1>5 DEF Pages

\* As long as k pages are free, k scans in a row find a k-th one, it is free and in the window,
\* and no two of the scans find the same (ndfs_bf_find_free with ndfs_bf_mark_used).
LEMMA NthFreeFound ==
  ASSUME NEW used, NEW k \in 1 .. Cardinality(FreePages(used))
  PROVE  /\ NthFree(used, k) \in FreePages(used)
         /\ Cardinality(Over(FreePages(used), NthFree(used, k))) = k - 1
<1>1. \E p \in FreePages(used) : Cardinality(Over(FreePages(used), p)) = k - 1
  BY WindowType, NthExists
<1>. QED  BY <1>1 DEF NthFree, Over

\* Two allocations of a series get different pages.
LEMMA NthFreeDistinct ==
  ASSUME NEW used, NEW k \in 1 .. Cardinality(FreePages(used)),
         NEW l \in 1 .. Cardinality(FreePages(used)), NthFree(used, k) = NthFree(used, l)
  PROVE  k = l
BY NthFreeFound

\* The scan for one page finds one unless the window is full.
LEMMA FindFreeFound ==
  ASSUME NEW used, FreePages(used) # {}
  PROVE  FindFree(used) \in FreePages(used)
<1>1. Cardinality(FreePages(used)) \in Nat /\ Cardinality(FreePages(used)) # 0
  BY WindowType, FS_CardinalityType, FS_EmptySet
<1>2. 1 \in 1 .. Cardinality(FreePages(used))
  BY <1>1
<1>. QED  BY <1>2, NthFreeFound DEF FindFree

\* The scan for a run finds one whenever there is one.
LEMMA FindFreeRangeFound ==
  ASSUME NEW used, NEW n \in Nat \ {0}, HasFreeRange(used, n)
  PROVE  FindFreeRange(used, n) \in Window /\ IsFreeRun(used, FindFreeRange(used, n), n)
<1>. DEFINE runs == {p \in Window : IsFreeRun(used, p, n)}
<1>1. runs \in SUBSET Int /\ IsFiniteSet(runs) /\ runs # {}
  <2>1. runs \in SUBSET Pages
    BY WindowType
  <2>2. IsFiniteSet(runs)
    <3>. HIDE DEF runs
    <3>. QED  BY <2>1, WindowType, FS_Subset
  <2>. QED  BY <2>1, <2>2 DEF Pages, HasFreeRange
<1>2. Cardinality(runs) \in Nat /\ Cardinality(runs) # 0
  BY <1>1, FS_CardinalityType, FS_EmptySet
<1>3. PICK p \in runs : Cardinality(Over(runs, p)) = 1 - 1
  <2>1. 1 \in 1 .. Cardinality(runs)
    BY <1>2
  <2>. HIDE DEF runs
  <2>. QED  BY <1>1, <2>1, NthExists
<1>4. Over(runs, p) = {}
  <2>1. Over(runs, p) \in SUBSET runs
    BY DEF Over
  <2>2. IsFiniteSet(Over(runs, p))
    <3>. HIDE DEF runs
    <3>. QED  BY <1>1, <2>1, FS_Subset
  <2>3. Cardinality(Over(runs, p)) = 0
    BY <1>3
  <2>. QED  BY <2>2, <2>3, FS_EmptySet
<1>5. \A q \in Window : IsFreeRun(used, q, n) => q <= p
  BY <1>1, <1>4 DEF Over
<1>. QED  BY <1>3, <1>5 DEF FindFreeRange

-----------------------------------------------------------------------------
(***************************************************************************)
(* The bytes of the bit file.                                              *)
(***************************************************************************)
\* Division with remainder.
LEMMA DivMod ==
  ASSUME NEW a \in Nat, NEW d \in Nat \ {0}
  PROVE  /\ a \div d \in Nat /\ a % d \in 0 .. d - 1
         /\ a = d * (a \div d) + (a % d)
BY Z3

\* Quotient and remainder are the only ones.
LEMMA DivModUnique ==
  ASSUME NEW d \in Nat \ {0}, NEW q \in Nat, NEW r \in 0 .. d - 1
  PROVE  (d * q + r) \div d = q /\ (d * q + r) % d = r
BY Z3

\* Rounding up reaches beyond every smaller quotient.
LEMMA CeilDivAbove ==
  ASSUME NEW n \in Nat, NEW d \in Nat \ {0}, NEW a \in 0 .. n - 1
  PROVE  CeilDiv(n, d) \in Nat /\ a \div d < CeilDiv(n, d)
BY Z3 DEF CeilDiv

\* The bitmap is whole words, and the byte of every page is one of it.
LEMMA ByteOfPage ==
  ASSUME NEW p \in Pages
  PROVE  /\ BitmapBytes \in Nat /\ BitmapBytes % 2 = 0
         /\ ByteIndex(p) \in 0 .. BitmapBytes - 1
         /\ BitOf(p) \in 0 .. ByteBits - 1
<1>. DEFINE b     == p \div ByteBits
            bytes == CeilDiv(TotalPages, ByteBits)
<1>1. TotalPages \in Nat /\ ByteBits \in Nat \ {0} /\ p \in Nat /\ p \in 0 .. TotalPages - 1
  BY BitMapAssumption, BitFileAssumption DEF Pages
<1>2. bytes \in Nat /\ b < bytes /\ b \in Nat
  BY <1>1, CeilDivAbove, DivMod
<1>3. BitOf(p) \in 0 .. ByteBits - 1
  BY <1>1, DivMod DEF BitOf
<1>. HIDE DEF b, bytes
<1>4. /\ ((bytes + 1) \div 2) * 2 \in Nat
      /\ (((bytes + 1) \div 2) * 2) % 2 = 0
      /\ (IF b % 2 = 0 THEN b + 1 ELSE b - 1) \in 0 .. ((bytes + 1) \div 2) * 2 - 1
  BY <1>2, Z3
<1>. QED  BY <1>3, <1>4 DEF BitmapBytes, ByteIndex, b, bytes

\* Two pages with the same byte and bit are one page.
LEMMA BitsApart ==
  ASSUME NEW p \in Pages, NEW q \in Pages, ByteIndex(p) = ByteIndex(q), BitOf(p) = BitOf(q)
  PROVE  p = q
<1>1. ByteBits \in Nat \ {0} /\ p \in Nat /\ q \in Nat
  BY BitMapAssumption, BitFileAssumption DEF Pages
<1>2. p \div ByteBits \in Nat /\ q \div ByteBits \in Nat
  BY <1>1, DivMod
<1>3. p \div ByteBits = q \div ByteBits
  BY <1>2, Z3 DEF ByteIndex
<1>. QED  BY <1>1, <1>3, DivMod DEF BitOf

\* What write_bit_file puts on its pages is the bitmap, byte for byte.
LEMMA BytesStored ==
  ASSUME NEW used, NEW b \in 0 .. BitmapBytes - 1, BitmapBytes \in Nat
  PROVE  Bytes(BitPages(used))[b] = Bitmap(used)[b]
<1>1. PageBytes \in Nat \ {0} /\ b \in Nat
  BY BitFileAssumption
<1>2. BitmapPages \in Nat /\ b \div PageBytes < BitmapPages
  BY <1>1, CeilDivAbove DEF BitmapPages
<1>3. /\ b \div PageBytes \in Nat /\ b % PageBytes \in 0 .. PageBytes - 1
      /\ b = PageBytes * (b \div PageBytes) + (b % PageBytes)
  BY <1>1, DivMod
<1>4. b \in 0 .. BitmapPages * PageBytes - 1
  BY <1>1, <1>2, <1>3, Z3
<1>5. (b \div PageBytes) * PageBytes + (b % PageBytes) = b
  BY <1>1, <1>3, Z3
<1>6. Bytes(BitPages(used))[b] = BitPages(used)[b \div PageBytes][b % PageBytes]
  BY <1>4 DEF Bytes
<1>. DEFINE i == b \div PageBytes
            r == b % PageBytes
<1>7. i \in 0 .. BitmapPages - 1 /\ r \in 0 .. PageBytes - 1
  BY <1>2, <1>3
<1>8. i * PageBytes + r = b
  BY <1>5
<1>. HIDE DEF i, r
<1>9. BitPages(used)[i][r] =
        IF i * PageBytes + r < BitmapBytes THEN Bitmap(used)[i * PageBytes + r] ELSE {}
  BY <1>7 DEF BitPages
<1>. QED  BY <1>6, <1>8, <1>9 DEF i, r

\* A bit is set exactly for the pages that are used.
LEMMA BitSet ==
  ASSUME NEW used \in SUBSET Pages, NEW p \in Pages
  PROVE  BitOf(p) \in Bitmap(used)[ByteIndex(p)] <=> p \in used
<1>1. Bitmap(used)[ByteIndex(p)] = {BitOf(q) : q \in {q \in used : ByteIndex(q) = ByteIndex(p)}}
  BY ByteOfPage DEF Bitmap
<1>. QED  BY <1>1, BitsApart

\* The library reads back the bits it has written.
LEMMA LoadedIsWritten ==
  ASSUME NEW used \in SUBSET Pages
  PROVE  Loaded(BitPages(used)) = used
<1>. DEFINE bitmap == [b \in 0 .. BitmapBytes - 1 |-> Bytes(BitPages(used))[b]]
<1>1. ASSUME NEW p \in Pages
      PROVE  IsUsed(bitmap, p) <=> p \in used
  <2>1. ByteIndex(p) \in 0 .. BitmapBytes - 1 /\ BitmapBytes \in Nat
    BY ByteOfPage
  <2>2. bitmap[ByteIndex(p)] = Bitmap(used)[ByteIndex(p)]
    BY <2>1, BytesStored
  <2>3. IsUsed(bitmap, p) <=> BitOf(p) \in bitmap[ByteIndex(p)]
    BY <2>1 DEF IsUsed
  <2>. QED  BY <2>2, <2>3, BitSet
<1>2. Loaded(BitPages(used)) = {p \in Pages : IsUsed(bitmap, p)}
  BY DEF Loaded
<1>. QED  BY <1>1, <1>2

\* The word and bit SINTRAN looks a page up at are the byte and bit the library uses.
LEMMA WordOfPage ==
  ASSUME NEW p \in Nat
  PROVE  LET w == p \div (2 * ByteBits)
             r == p % (2 * ByteBits) IN
         /\ w \in Nat /\ r \in Nat
         /\ r < ByteBits  => ByteIndex(p) = 2 * w + 1 /\ BitOf(p) = r
         /\ r >= ByteBits => ByteIndex(p) = 2 * w /\ r = ByteBits + BitOf(p)
<1>. DEFINE d == 2 * ByteBits
            w == p \div d
            r == p % d
<1>1. ByteBits \in Nat \ {0} /\ d \in Nat \ {0}
  BY BitFileAssumption
<1>2. w \in Nat /\ r \in 0 .. d - 1 /\ p = d * w + r
  BY <1>1, DivMod
<1>. HIDE DEF w, r
<1>3. CASE r < ByteBits
  <2>1. p = ByteBits * (2 * w) + r /\ 2 * w \in Nat /\ r \in 0 .. ByteBits - 1
    BY <1>1, <1>2, <1>3, Z3
  <2>2. p \div ByteBits = 2 * w /\ p % ByteBits = r
    BY <1>1, <2>1, DivModUnique
  <2>3. (2 * w) % 2 = 0
    BY <1>2, Z3
  <2>4. ByteIndex(p) = 2 * w + 1 /\ BitOf(p) = r
    BY <2>2, <2>3 DEF ByteIndex, BitOf
  <2>5. ~(r >= ByteBits)
    BY <1>1, <1>2, <1>3
  <2>. QED  BY <1>2, <2>4, <2>5 DEF w, r
<1>4. CASE r >= ByteBits
  <2>1. /\ p = ByteBits * (2 * w + 1) + (r - ByteBits)
        /\ 2 * w + 1 \in Nat /\ r - ByteBits \in 0 .. ByteBits - 1
    BY <1>1, <1>2, <1>4, Z3
  <2>2. p \div ByteBits = 2 * w + 1 /\ p % ByteBits = r - ByteBits
    BY <1>1, <2>1, DivModUnique
  <2>3. (2 * w + 1) % 2 = 1
    BY <1>2, Z3
  <2>4. ByteIndex(p) = 2 * w /\ r = ByteBits + BitOf(p)
    BY <1>1, <1>2, <2>2, <2>3 DEF ByteIndex, BitOf
  <2>5. ~(r < ByteBits)
    BY <1>1, <1>2, <1>4
  <2>. QED  BY <1>2, <2>4, <2>5 DEF w, r
<1>. QED  BY <1>1, <1>2, <1>3, <1>4 DEF w, r

\* SINTRAN reads the bits the library has written, to the last page of a device that ends
\* in the middle of a word.
LEMMA SintranReadsWritten ==
  ASSUME NEW used \in SUBSET Pages
  PROVE  SintranReads(BitPages(used)) = used
<1>. DEFINE bytes   == Bytes(BitPages(used))
            low(w)  == bytes[2 * w + 1]
            high(w) == bytes[2 * w]
            word(w) == low(w) \union {ByteBits + j : j \in high(w)}
<1>1. ASSUME NEW p \in Pages
      PROVE  p % (2 * ByteBits) \in word(p \div (2 * ByteBits)) <=> p \in used
  <2>. DEFINE w == p \div (2 * ByteBits)
              r == p % (2 * ByteBits)
  <2>1. p \in Nat /\ ByteBits \in Nat
    BY BitFileAssumption DEF Pages
  <2>2. /\ BitmapBytes \in Nat /\ BitmapBytes % 2 = 0
        /\ ByteIndex(p) \in 0 .. BitmapBytes - 1
    BY ByteOfPage
  <2>3. /\ w \in Nat /\ r \in Nat
        /\ r < ByteBits  => ByteIndex(p) = 2 * w + 1 /\ BitOf(p) = r
        /\ r >= ByteBits => ByteIndex(p) = 2 * w /\ r = ByteBits + BitOf(p)
    BY <2>1, WordOfPage
  <2>. HIDE DEF w, r
  <2>4. 2 * w \in 0 .. BitmapBytes - 1 /\ 2 * w + 1 \in 0 .. BitmapBytes - 1
    BY <2>1, <2>2, <2>3, Z3
  <2>5. low(w) = Bitmap(used)[2 * w + 1] /\ high(w) = Bitmap(used)[2 * w]
    BY <2>2, <2>4, BytesStored
  <2>6. \A b \in 0 .. BitmapBytes - 1 : \A j \in Bitmap(used)[b] : j \in 0 .. ByteBits - 1
    BY ByteOfPage DEF Bitmap
  <2>7. BitOf(p) \in Bitmap(used)[ByteIndex(p)] <=> p \in used
    BY BitSet
  <2>8. r \in low(w) \union {ByteBits + j : j \in high(w)} <=> p \in used
    <3>. HIDE DEF low, high
    <3>1. CASE r < ByteBits
      <4>1. \A j \in high(w) : r # ByteBits + j
        BY <2>1, <2>3, <2>4, <2>5, <2>6, <3>1
      <4>. QED  BY <2>3, <2>5, <2>7, <3>1, <4>1
    <3>2. CASE r >= ByteBits
      <4>1. r \notin low(w)
        BY <2>1, <2>3, <2>4, <2>5, <2>6, <3>2
      <4>2. \A j \in high(w) : r = ByteBits + j <=> j = BitOf(p)
        BY <2>1, <2>3, <2>4, <2>5, <2>6, <3>2, ByteOfPage
      <4>. QED  BY <2>3, <2>5, <2>7, <3>2, <4>1, <4>2
    <3>. QED  BY <2>1, <2>3, <3>1, <3>2
  <2>. QED  BY <2>8 DEF w, r
<1>2. SintranReads(BitPages(used)) =
        {p \in Pages : p % (2 * ByteBits) \in word(p \div (2 * ByteBits))}
  BY DEF SintranReads
<1>. QED  BY <1>1, <1>2

-----------------------------------------------------------------------------
(***************************************************************************)
(* The inductive invariant, in three parts: the shape of the structures,   *)
(* the pages kept apart, and the media telling what memory tells.          *)
(***************************************************************************)
PageFields   == {"ptrs", "items"}
VolumeFields == {"used", "users", "objects", "root", "mem"}
UserFields   == {"reserved", "used", "max", "alloc"}
EntryFields  == {"slot", "user", "name", "kind", "page", "pages", "size", "num", "named"}

\* Every page is a table of pointers and a set of items.
IsMem(mem) ==
  /\ DOMAIN mem = Pages
  /\ \A p \in Pages : DOMAIN mem[p] = PageFields /\ mem[p].ptrs \in [Indexes -> Pages]

IsEntry(h, o) ==
  /\ DOMAIN o = EntryFields
  /\ o.slot \in Slots /\ o.user \in DOMAIN h.users /\ o.named = TRUE
  /\ o.kind \in {"contiguous", "indexed", "subindexed"}
  /\ o.page \in Pages /\ o.pages \in Nat /\ (o.kind = "contiguous" => o.pages > 0)

WellFormed(h) ==
  /\ DOMAIN h = VolumeFields
  /\ IsMem(h.mem)
  /\ h.used \subseteq Pages
  /\ DOMAIN h.root = {"sub", "page"} /\ h.root.sub \in BOOLEAN
  /\ DOMAIN h.users \subseteq UserIds
  /\ \A u \in DOMAIN h.users : DOMAIN h.users[u] = UserFields
  /\ \A o \in h.objects : IsEntry(h, o)

\* The pages the directory finds other pages through.
GroupPages(h) == IF h.root.sub THEN {Ptr(h, h.root.page, g) : g \in Indexes} \ {Null} ELSE {h.root.page}
IndexPages(h) == {h.root.page, UserIndex} \union GroupPages(h)

\* The pages the directory refers to.
DirPages(h) ==
  {h.root.page} \union ({Ptr(h, a, i) : a \in IndexPages(h), i \in Indexes} \ {Null})

\* The directory refers to each of its pages from one place.
DirectoryApart(h) ==
  /\ h.root.page \in Pages
  /\ DirPages(h) \intersect RootPages = {}
  /\ \A a \in IndexPages(h), i \in Indexes : Ptr(h, a, i) # h.root.page
  /\ \A a, b \in IndexPages(h), i, j \in Indexes :
       Ptr(h, a, i) # Null /\ Ptr(h, a, i) = Ptr(h, b, j) => a = b /\ i = j
  /\ DirPages(h) \union RootPages \subseteq h.used

\* A file refers to each of its pages from one place, and they are its own.
FileApart(h, o) ==
  /\ \A r \in Refs(h.mem, o) : r[2] \in Window \intersect h.used
  /\ \A r, s \in Refs(h.mem, o) : r[2] = s[2] => r = s
  /\ PagesOf(h.mem, o) \intersect (DirPages(h) \union RootPages) = {}

FilesApart(h) ==
  /\ \A o \in h.objects : FileApart(h, o)
  /\ \A o, q \in h.objects : o # q => PagesOf(h.mem, o) \intersect PagesOf(h.mem, q) = {}

InRow(u, slot) ==
  /\ GroupOf(slot) >= Home(u)
  /\ \E k \in 0 .. FilesPerBlock - 1 : slot = PhysicalSlot(u, GroupOf(slot), k)

SlotsApart(h) ==
  /\ \A o, q \in h.objects : o.slot = q.slot => o = q
  /\ \A o \in h.objects : InRow(o.user, o.slot)

Apart(h) == WellFormed(h) /\ DirectoryApart(h) /\ FilesApart(h) /\ SlotsApart(h)

\* The page of the entries in position i of group g.
DirAt(h, g, i) ==
  LET group == IF h.root.sub THEN Ptr(h, h.root.page, g) ELSE IF g = 0 THEN h.root.page ELSE Null
  IN IF group = Null THEN Null ELSE Ptr(h, group, i)

At(o, g, i) == GroupOf(o.slot) = g /\ Inner(o.slot) = i

\* An entry page holds the entries of its slots.
EntryPageOK(h, g, i) ==
  DirAt(h, g, i) # Null =>
    h.mem[DirAt(h, g, i)].items = {OnDisk(o) : o \in {o \in h.objects : At(o, g, i)}}

\* A record of user u as far as a reload has to find it.
IsRecord(h, r, i) ==
  /\ DOMAIN r = {"id", "entry"} /\ DOMAIN r.entry = UserFields
  /\ r.id \in DOMAIN h.users /\ r.id \div EntriesPerPage = i
  /\ r.entry.used = h.users[r.id].used

\* A user page holds one record of each of its users.
UserPageOK(h, i) ==
  LET p == Ptr(h, UserIndex, i) IN
  p # Null => /\ \A r \in h.mem[p].items : IsRecord(h, r, i)
              /\ \A r, s \in h.mem[p].items : r.id = s.id => r = s
              /\ \A u \in DOMAIN h.users : u \div EntriesPerPage = i => \E r \in h.mem[p].items : r.id = u

MasterOK(h) ==
  h.mem[MasterPage].items # {} /\ \A m \in h.mem[MasterPage].items : m.root = h.root

HasDirPage(h, o) == DirAt(h, GroupOf(o.slot), Inner(o.slot)) # Null

\* The media tell what memory tells, but for the entry positions G and the user pages U.
MirroredBut(h, G, U) ==
  /\ \A o \in h.objects : HasDirPage(h, o)
  /\ \A g, i \in Indexes : <<g, i>> \notin G => EntryPageOK(h, g, i)
  /\ \A i \in Indexes : i \notin U => UserPageOK(h, i)
  /\ MasterOK(h)
  /\ h.mem[BitPage].items \subseteq Pages

Sound(h) == Apart(h) /\ MirroredBut(h, {}, {})

SoundUntilHurt == fs.used \subseteq Pages /\ (~hurt => Sound(fs))

-----------------------------------------------------------------------------
(***************************************************************************)
(* The geometry.                                                           *)
(***************************************************************************)
\* The fixed pages are different pages of the device, and no allocation returns them being
\* marked used.
LEMMA Layout ==
  /\ PtrsPerPage \in Nat \ {0} /\ EntriesPerPage \in Nat \ {0} /\ PagesPerBlock \in Nat \ {0}
  /\ MaxUsers \in Nat \ {0} /\ TotalPages \in Nat /\ BitPage \in Nat \ {0}
  /\ 0 \in Indexes /\ Indexes \subseteq Nat
  /\ {MasterPage, BitPage, ObjectIndex, ObjectPage0, UserIndex, UserPage0} \subseteq Pages
  /\ RootPages \subseteq Pages /\ Null = 0 /\ MasterPage = 0 /\ Pages \subseteq Nat
  /\ Null \in RootPages /\ UserIndex # Null /\ UserIndex # BitPage /\ BitPage # Null
BY ObjectBlocksAssumption, BitMapAssumption, LayoutAssumption
   DEF Indexes, Pages, MasterPage, ObjectIndex, ObjectPage0, UserIndex, UserPage0, RootPages, Null

\* A zeroed page, and a page of items.
LEMMA PageContent ==
  /\ DOMAIN Blank = PageFields /\ Blank.items = {} /\ Blank.ptrs = [i \in Indexes |-> Null]
  /\ Blank.ptrs \in [Indexes -> Pages] /\ \A i \in Indexes : Blank.ptrs[i] = Null
  /\ \A S : /\ DOMAIN Holding(S) = PageFields /\ Holding(S).items = S
            /\ Holding(S).ptrs = [i \in Indexes |-> Null] /\ Holding(S).ptrs \in [Indexes -> Pages]
<1>1. Null \in Pages
  BY Layout
<1>2. /\ DOMAIN Blank = PageFields /\ Blank.items = {} /\ Blank.ptrs = [i \in Indexes |-> Null]
  BY DEF Blank, PageFields
<1>3. Blank.ptrs \in [Indexes -> Pages] /\ \A i \in Indexes : Blank.ptrs[i] = Null
  BY <1>1, <1>2
<1>4. ASSUME NEW S
      PROVE  /\ DOMAIN Holding(S) = PageFields /\ Holding(S).items = S
             /\ Holding(S).ptrs = [i \in Indexes |-> Null] /\ Holding(S).ptrs \in [Indexes -> Pages]
  BY <1>1 DEF Holding, Blank, PageFields
<1>. QED  BY <1>2, <1>3, <1>4

\* A slot is the page it is on and its place on the page, a page its group and its position.
LEMMA SlotParts ==
  ASSUME NEW s \in Slots
  PROVE  /\ PageOf(s) \in Nat /\ GroupOf(s) \in Indexes /\ Inner(s) \in Indexes
         /\ PageOf(s) = GroupOf(s) * PtrsPerPage + Inner(s)
         /\ s % EntriesPerPage \in 0 .. EntriesPerPage - 1
         /\ s = PageOf(s) * EntriesPerPage + (s % EntriesPerPage)
<1>. DEFINE P == PtrsPerPage
            E == EntriesPerPage
            p == s \div E
            g == p \div P
            i == p % P
<1>1. P \in Nat \ {0} /\ E \in Nat \ {0} /\ s \in Nat /\ s < P * P * E
  BY Layout, Z3 DEF Slots
<1>2. /\ p \in Nat /\ s % E \in 0 .. E - 1 /\ s = E * p + (s % E)
  BY <1>1, DivMod
<1>. HIDE DEF p
<1>3. g \in Nat /\ i \in 0 .. P - 1 /\ p = P * g + i
  BY <1>1, <1>2, DivMod
<1>. HIDE DEF g, i
<1>4. p < P * P
  <2>1. E * p < E * (P * P)
    BY <1>1, <1>2, Z3
  <2>. QED  BY <1>1, <1>2, <2>1, Z3
<1>5. g < P
  BY <1>1, <1>3, <1>4, Z3
<1>6. p = g * P + i /\ s = p * E + (s % E)
  BY <1>1, <1>2, <1>3, Z3
<1>7. PageOf(s) = p /\ GroupOf(s) = g /\ Inner(s) = i
  BY DEF PageOf, GroupOf, Inner, p, g, i
<1>. QED  BY <1>1, <1>2, <1>3, <1>5, <1>6, <1>7 DEF Indexes

-----------------------------------------------------------------------------
(***************************************************************************)
(* Object blocks.                                                          *)
(***************************************************************************)
\* Least is the least element of a set of numbers.
LEMMA LeastFound ==
  ASSUME NEW S \in SUBSET Nat, S # {}
  PROVE  Least(S) \in S /\ \A x \in S : Least(S) <= x
<1>1. IsWellFoundedOn(OpToRel(<, Nat), Nat)
  BY NatLessThanWellFounded
<1>2. PICK m \in S : \A x \in S : ~(<<x, m>> \in OpToRel(<, Nat))
  BY <1>1, WFMin
<1>3. \A x \in S : m <= x
  <2>. SUFFICES ASSUME NEW x \in S, x < m
                PROVE  FALSE
    OBVIOUS
  <2>1. <<x, m>> \in OpToRel(<, Nat)
    BY DEF OpToRel
  <2>. QED  BY <1>2, <2>1
<1>. QED  BY <1>3 DEF Least

\* The k-th slot of a user's row in a group is a slot of that group, in the row (the rows of
\* a group fit on its pages).
LEMMA RowSlot ==
  ASSUME NEW u \in Nat, NEW g \in Indexes, NEW k \in 0 .. FilesPerBlock - 1
  PROVE  /\ PhysicalSlot(u, g, k) \in Slots
         /\ GroupOf(PhysicalSlot(u, g, k)) = g
         /\ Inner(PhysicalSlot(u, g, k)) = (u % UsersPerGroup) * PagesPerBlock + (k \div EntriesPerPage)
         /\ PhysicalSlot(u, g, k) % EntriesPerPage = k % EntriesPerPage
<1>. DEFINE P == PtrsPerPage
            E == EntriesPerPage
            B == PagesPerBlock
            U == UsersPerGroup
            a == u % U
            q == k \div E
            m == k % E
            i == a * B + q
            n == g * P + a * B + q
            s == n * E + m
<1>0. PhysicalSlot(u, g, k) = s
  BY DEF PhysicalSlot
<1>1. /\ P \in Nat \ {0} /\ E \in Nat \ {0} /\ B \in Nat \ {0} /\ B <= P
      /\ g \in Nat /\ g < P /\ k \in Nat /\ k < B * E
  BY Layout, ObjectBlocksAssumption DEF Indexes, FilesPerBlock
<1>2. U \in Nat \ {0} /\ U * B <= P
  BY <1>1, Z3 DEF UsersPerGroup
<1>3. a \in Nat /\ a < U
  BY <1>2, DivMod
<1>4. q \in Nat /\ m \in 0 .. E - 1 /\ k = E * q + m
  BY <1>1, DivMod
<1>. HIDE DEF a, q, m
<1>5. q < B
  BY <1>1, <1>4, Z3
<1>6. i \in Nat /\ i < P
  <2>1. a * B + B <= U * B
    BY <1>1, <1>2, <1>3, Z3
  <2>. QED  BY <1>1, <1>2, <1>3, <1>4, <1>5, <2>1, Z3
<1>7. n \in Nat /\ n < P * P /\ n = P * g + i
  <2>1. n = P * g + i
    BY <1>1, <1>2, <1>3, <1>4, Z3
  <2>. HIDE DEF i, n
  <2>2. P * g + i < P * P
    BY <1>1, <1>6, Z3
  <2>. QED  BY <1>1, <1>6, <2>1, <2>2
<1>. HIDE DEF i, n
<1>8. n \div P = g /\ n % P = i
  BY <1>1, <1>6, <1>7, DivModUnique
<1>9. s \in Nat /\ s < P * P * E /\ s = E * n + m
  BY <1>1, <1>4, <1>7, Z3
<1>10. s \div E = n /\ s % E = m
  BY <1>1, <1>4, <1>7, <1>9, DivModUnique
<1>. HIDE DEF s
<1>11. s \in Slots
  BY <1>1, <1>9 DEF Slots
<1>. QED  BY <1>0, <1>8, <1>10, <1>11 DEF PageOf, GroupOf, Inner, m, i, a, q

\* find_free_user_slot finds a slot that no entry has, in the user's row, in his home group
\* or above it; it opens a block only where the maximum allows.
LEMMA FreeUserSlot ==
  ASSUME NEW objects, NEW valid, NEW u \in UserIds, NEW max, NEW allocated,
         FindFreeUserSlot(objects, valid, u, max, allocated) # NoSlot
  PROVE  LET s == FindFreeUserSlot(objects, valid, u, max, allocated) IN
         /\ s \in Slots /\ ~SlotInUse(objects, s) /\ InRow(u, s)
         /\ GroupOf(s) = Home(u) \/ UsesGroup(objects, u, GroupOf(s)) \/ ~(allocated >= max)
<1>1. Home(u) \in Nat /\ u \in Nat /\ PtrsPerPage \in Nat
  <2>1. PtrsPerPage \in Nat \ {0} /\ PagesPerBlock \in Nat \ {0} /\ PagesPerBlock <= PtrsPerPage
    BY Layout, ObjectBlocksAssumption
  <2>2. UsersPerGroup \in Nat \ {0}
    BY <2>1, Z3 DEF UsersPerGroup
  <2>3. u \in Nat
    BY Layout DEF UserIds
  <2>. QED  BY <2>1, <2>2, <2>3, DivMod DEF Home
<1>2. 0 \in 0 .. FilesPerBlock - 1
  BY Layout, Z3 DEF FilesPerBlock
<1>3. ASSUME NEW g \in Home(u) .. PtrsPerPage - 1, NEW k \in 0 .. FilesPerBlock - 1
      PROVE  /\ PhysicalSlot(u, g, k) \in Slots /\ InRow(u, PhysicalSlot(u, g, k))
             /\ GroupOf(PhysicalSlot(u, g, k)) = g
  <2>1. g \in Indexes /\ g >= Home(u)
    BY <1>1 DEF Indexes
  <2>. QED  BY <1>1, <2>1, RowSlot DEF InRow
<1>4. \A s \in OpenSlots(objects, u) :
        /\ s \in Slots /\ ~SlotInUse(objects, s) /\ InRow(u, s)
        /\ GroupOf(s) = Home(u) \/ UsesGroup(objects, u, GroupOf(s))
  BY <1>3 DEF OpenSlots
<1>5. \A s \in NextBlocks(objects, valid, u) : s \in Slots /\ ~SlotInUse(objects, s) /\ InRow(u, s)
  <2>1. Home(u) + 1 .. PtrsPerPage - 1 \subseteq Home(u) .. PtrsPerPage - 1
    BY <1>1
  <2>. QED  BY <1>2, <1>3, <2>1 DEF NextBlocks
<1>6. Slots \subseteq Nat
  BY DEF Slots
<1>7. CASE OpenSlots(objects, u) # {}
  <2>1. Least(OpenSlots(objects, u)) \in OpenSlots(objects, u)
    BY <1>4, <1>6, <1>7, LeastFound
  <2>. QED  BY <1>4, <1>7, <2>1 DEF FindFreeUserSlot
<1>8. CASE OpenSlots(objects, u) = {}
  <2>1. NextBlocks(objects, valid, u) # {}
    BY <1>8 DEF FindFreeUserSlot
  <2>2. Least(NextBlocks(objects, valid, u)) \in NextBlocks(objects, valid, u)
    BY <1>5, <1>6, <2>1, LeastFound
  <2>3. ~(allocated >= max)
    BY <1>8 DEF FindFreeUserSlot
  <2>. QED  BY <1>5, <1>8, <2>2, <2>3 DEF FindFreeUserSlot
<1>. QED  BY <1>7, <1>8

-----------------------------------------------------------------------------
(***************************************************************************)
(* Frames: what does not change when the pages it is read from do not.     *)
(***************************************************************************)
SamePtrs(mem, mem2, S) == \A p \in S : mem2[p].ptrs = mem[p].ptrs

\* The index pages decide where the directory is.
LEMMA SameIndex ==
  ASSUME NEW h, NEW h2, h2.root = h.root, SamePtrs(h.mem, h2.mem, IndexPages(h))
  PROVE  /\ GroupPages(h2) = GroupPages(h) /\ IndexPages(h2) = IndexPages(h)
         /\ DirPages(h2) = DirPages(h)
         /\ \A a \in IndexPages(h), i \in Indexes : Ptr(h2, a, i) = Ptr(h, a, i)
         /\ \A g, i \in Indexes : DirAt(h2, g, i) = DirAt(h, g, i)
<1>1. \A a \in IndexPages(h), i \in Indexes : Ptr(h2, a, i) = Ptr(h, a, i)
  BY DEF SamePtrs, Ptr
<1>2. h.root.page \in IndexPages(h) /\ GroupPages(h) \subseteq IndexPages(h)
  BY DEF IndexPages
<1>3. GroupPages(h2) = GroupPages(h)
  BY <1>1, <1>2 DEF GroupPages
<1>4. IndexPages(h2) = IndexPages(h)
  BY <1>3 DEF IndexPages
<1>5. DirPages(h2) = DirPages(h)
  BY <1>1, <1>4 DEF DirPages
<1>6. ASSUME NEW g \in Indexes, NEW i \in Indexes
      PROVE  DirAt(h2, g, i) = DirAt(h, g, i)
  <2>1. CASE h.root.sub
    <3>1. Ptr(h2, h.root.page, g) = Ptr(h, h.root.page, g)
      BY <1>1, <1>2
    <3>2. CASE Ptr(h, h.root.page, g) = Null
      BY <2>1, <3>1, <3>2 DEF DirAt
    <3>3. CASE Ptr(h, h.root.page, g) # Null
      <4>1. Ptr(h, h.root.page, g) \in GroupPages(h)
        BY <2>1, <3>3 DEF GroupPages
      <4>2. Ptr(h2, Ptr(h, h.root.page, g), i) = Ptr(h, Ptr(h, h.root.page, g), i)
        BY <1>1, <1>2, <4>1
      <4>. QED  BY <2>1, <3>1, <4>2 DEF DirAt
    <3>. QED  BY <3>2, <3>3
  <2>2. CASE ~h.root.sub
    <3>1. Ptr(h2, h.root.page, i) = Ptr(h, h.root.page, i)
      BY <1>1, <1>2
    <3>. QED  BY <2>2, <3>1 DEF DirAt
  <2>. QED  BY <2>1, <2>2
<1>. QED  BY <1>1, <1>3, <1>4, <1>5, <1>6

\* The index pages are directory pages or fixed.
LEMMA IndexIsDir ==
  ASSUME NEW h, h.root.sub \in BOOLEAN
  PROVE  IndexPages(h) \subseteq DirPages(h) \union RootPages
<1>1. UserIndex \in RootPages /\ h.root.page \in DirPages(h)
  BY DEF RootPages, DirPages
<1>2. GroupPages(h) \subseteq DirPages(h)
  BY DEF GroupPages, DirPages, IndexPages
<1>. QED  BY <1>1, <1>2 DEF IndexPages

\* The index pages of a file.
IndexOf(mem, o) == {r[2] : r \in {r \in Refs(mem, o) : ~IsData(r[1])}}

\* The index pages of a file decide where the file is.
LEMMA SameRefs ==
  ASSUME NEW mem, NEW mem2, NEW o, o.kind \in {"contiguous", "indexed", "subindexed"},
         SamePtrs(mem, mem2, IndexOf(mem, o))
  PROVE  Refs(mem2, o) = Refs(mem, o) /\ PagesOf(mem2, o) = PagesOf(mem, o)
<1>0. \A p : ~IsData(TopRole) /\ \A g : ~IsData(GroupRole(g))
  BY DEF IsData, TopRole, GroupRole
<1>1. Refs(mem2, o) = Refs(mem, o)
  <2>1. CASE o.kind = "contiguous"
    BY <2>1 DEF Refs
  <2>2. CASE o.kind = "indexed"
    <3>1. <<TopRole, o.page>> \in Refs(mem, o)
      BY <2>2 DEF Refs
    <3>2. o.page \in IndexOf(mem, o)
      BY <1>0, <3>1 DEF IndexOf
    <3>3. Pointed(mem2, o.page, 0) = Pointed(mem, o.page, 0)
      BY <3>2 DEF Pointed, SamePtrs
    <3>. QED  BY <2>2, <3>3 DEF Refs
  <2>3. CASE o.kind = "subindexed"
    <3>. DEFINE groups(m) == {<<GroupRole(g), m[o.page].ptrs[g]>> :
                                g \in {g \in Indexes : m[o.page].ptrs[g] # Null}}
                below(m)  == UNION {Pointed(m, r[2], r[1][1]) : r \in groups(m)}
    <3>1. \A m : Refs(m, o) = {<<TopRole, o.page>>} \union groups(m) \union below(m)
      BY <2>3 DEF Refs
    <3>2. o.page \in IndexOf(mem, o)
      <4>1. <<TopRole, o.page>> \in Refs(mem, o)
        BY <3>1
      <4>. QED  BY <1>0, <4>1 DEF IndexOf
    <3>3. groups(mem2) = groups(mem)
      BY <3>2 DEF SamePtrs
    <3>4. \A r \in groups(mem) : Pointed(mem2, r[2], r[1][1]) = Pointed(mem, r[2], r[1][1])
      <4>. SUFFICES ASSUME NEW r \in groups(mem)
                    PROVE  Pointed(mem2, r[2], r[1][1]) = Pointed(mem, r[2], r[1][1])
        OBVIOUS
      <4>1. r \in Refs(mem, o)
        BY <3>1
      <4>2. PICK g \in Indexes : r = <<GroupRole(g), mem[o.page].ptrs[g]>>
        OBVIOUS
      <4>3. ~IsData(r[1])
        BY <1>0, <4>2
      <4>4. r[2] \in IndexOf(mem, o)
        BY <4>1, <4>3 DEF IndexOf
      <4>. QED  BY <4>4 DEF Pointed, SamePtrs
    <3>5. below(mem2) = below(mem)
      BY <3>3, <3>4
    <3>. QED
      <4>. HIDE DEF groups, below
      <4>. QED  BY <3>1, <3>3, <3>5
  <2>. QED  BY <2>1, <2>2, <2>3
<1>. QED  BY <1>1 DEF PagesOf

FilePages(h) == UNION {PagesOf(h.mem, o) : o \in h.objects}

SameDirectory(h, h2) ==
  /\ h2.root = h.root /\ IndexPages(h2) = IndexPages(h) /\ DirPages(h2) = DirPages(h)
  /\ \A a \in IndexPages(h), i \in Indexes : Ptr(h2, a, i) = Ptr(h, a, i)
  /\ \A g, i \in Indexes : DirAt(h2, g, i) = DirAt(h, g, i)

\* A change that keeps the directory's index pages, keeps the files K where they are and
\* brings in at most one other file, N, on pages of its own, keeps the pages apart.
LEMMA ApartStep ==
  ASSUME NEW h, NEW h2, Apart(h), WellFormed(h2), h2.root = h.root,
         SamePtrs(h.mem, h2.mem, IndexPages(h)),
         DirPages(h) \union RootPages \subseteq h2.used,
         NEW K \in SUBSET h.objects, NEW N, h2.objects = K \union N,
         \A o \in K : SamePtrs(h.mem, h2.mem, IndexOf(h.mem, o)) /\ PagesOf(h.mem, o) \subseteq h2.used,
         \A n \in N : FileApart(h2, n) /\ InRow(n.user, n.slot),
         \A n \in N, o \in K : n.slot # o.slot /\ PagesOf(h2.mem, n) \intersect PagesOf(h.mem, o) = {},
         \A m, n \in N : m = n
  PROVE  Apart(h2) /\ SameDirectory(h, h2)
<1>1. SameDirectory(h, h2)
  BY SameIndex DEF SameDirectory
<1>2. DirectoryApart(h2)
  BY <1>1 DEF Apart, DirectoryApart, SameDirectory
<1>3. \A o \in K : Refs(h2.mem, o) = Refs(h.mem, o) /\ PagesOf(h2.mem, o) = PagesOf(h.mem, o)
  <2>. SUFFICES ASSUME NEW o \in K
                PROVE  Refs(h2.mem, o) = Refs(h.mem, o) /\ PagesOf(h2.mem, o) = PagesOf(h.mem, o)
    OBVIOUS
  <2>1. o.kind \in {"contiguous", "indexed", "subindexed"}
    BY DEF Apart, WellFormed, IsEntry
  <2>. QED  BY <2>1, SameRefs
<1>4. ASSUME NEW o \in K
      PROVE  FileApart(h2, o)
  <2>1. FileApart(h, o)
    BY DEF Apart, FilesApart
  <2>2. \A r \in Refs(h.mem, o) : r[2] \in PagesOf(h.mem, o)
    BY DEF PagesOf
  <2>3. Refs(h2.mem, o) = Refs(h.mem, o) /\ PagesOf(h2.mem, o) = PagesOf(h.mem, o)
    BY <1>3
  <2>4. DirPages(h2) = DirPages(h) /\ PagesOf(h.mem, o) \subseteq h2.used
    BY <1>1 DEF SameDirectory
  <2>. QED  BY <2>1, <2>2, <2>3, <2>4 DEF FileApart
<1>5. FilesApart(h2)
  <2>1. \A o \in h2.objects : FileApart(h2, o)
    BY <1>4
  <2>2. ASSUME NEW o \in h2.objects, NEW q \in h2.objects, o # q
        PROVE  PagesOf(h2.mem, o) \intersect PagesOf(h2.mem, q) = {}
    <3>1. CASE o \in K /\ q \in K
      <4>1. PagesOf(h.mem, o) \intersect PagesOf(h.mem, q) = {}
        BY <2>2, <3>1 DEF Apart, FilesApart
      <4>. QED  BY <1>3, <3>1, <4>1
    <3>2. CASE o \in K /\ q \in N
      <4>1. PagesOf(h2.mem, q) \intersect PagesOf(h.mem, o) = {} /\ PagesOf(h2.mem, o) = PagesOf(h.mem, o)
        BY <1>3, <3>2
      <4>. QED  BY <4>1
    <3>3. CASE o \in N /\ q \in K
      <4>1. PagesOf(h2.mem, o) \intersect PagesOf(h.mem, q) = {} /\ PagesOf(h2.mem, q) = PagesOf(h.mem, q)
        BY <1>3, <3>3
      <4>. QED  BY <4>1
    <3>. QED  BY <2>2, <3>1, <3>2, <3>3
  <2>. QED  BY <2>1, <2>2 DEF FilesApart
<1>6. SlotsApart(h2)
  BY DEF Apart, SlotsApart
<1>. QED  BY <1>1, <1>2, <1>5, <1>6 DEF Apart

\* What keeps every index page where it is, frees nothing and moves no entry keeps the pages
\* apart.
LEMMA ApartKept ==
  ASSUME NEW h, NEW h2, Apart(h), WellFormed(h2),
         h2.root = h.root, h2.objects = h.objects, h.used \subseteq h2.used,
         SamePtrs(h.mem, h2.mem, IndexPages(h) \union FilePages(h))
  PROVE  Apart(h2) /\ SameDirectory(h, h2)
<1>1. SamePtrs(h.mem, h2.mem, IndexPages(h))
  BY DEF SamePtrs
<1>2. DirPages(h) \union RootPages \subseteq h2.used
  BY DEF Apart, DirectoryApart
<1>3. ASSUME NEW o \in h.objects
      PROVE  SamePtrs(h.mem, h2.mem, IndexOf(h.mem, o)) /\ PagesOf(h.mem, o) \subseteq h2.used
  <2>1. FileApart(h, o)
    BY DEF Apart, FilesApart
  <2>2. PagesOf(h.mem, o) \subseteq h.used
    BY <2>1 DEF FileApart, PagesOf
  <2>3. IndexOf(h.mem, o) \subseteq PagesOf(h.mem, o)
    BY DEF IndexOf, PagesOf
  <2>4. PagesOf(h.mem, o) \subseteq FilePages(h)
    BY DEF FilePages
  <2>. QED  BY <2>2, <2>3, <2>4 DEF SamePtrs
<1>. QED
  <2>. DEFINE K == h.objects
              N == {}
  <2>1. K \in SUBSET h.objects /\ h2.objects = K \union N
    OBVIOUS
  <2>2. /\ \A n \in N : FileApart(h2, n) /\ InRow(n.user, n.slot)
        /\ \A n \in N, o \in K : n.slot # o.slot /\ PagesOf(h2.mem, n) \intersect PagesOf(h.mem, o) = {}
        /\ \A m, n \in N : m = n
    OBVIOUS
  <2>3. \A o \in K : SamePtrs(h.mem, h2.mem, IndexOf(h.mem, o)) /\ PagesOf(h.mem, o) \subseteq h2.used
    BY <1>3
  <2>. HIDE DEF K, N
  <2>. QED  BY <1>1, <1>2, <2>1, <2>2, <2>3, ApartStep

\* The index page of a group.
GroupAt(h, g) == IF h.root.sub THEN Ptr(h, h.root.page, g) ELSE IF g = 0 THEN h.root.page ELSE Null

\* The page of an entry position is found through the index page of its group, and no other
\* group has that index page.
LEMMA ThroughGroup ==
  ASSUME NEW h, Apart(h), NEW f \in Indexes, NEW j \in Indexes, DirAt(h, f, j) # Null
  PROVE  /\ GroupAt(h, f) \in GroupPages(h) /\ GroupAt(h, f) \in IndexPages(h)
         /\ DirAt(h, f, j) = Ptr(h, GroupAt(h, f), j)
         /\ \A e \in Indexes : GroupAt(h, e) = GroupAt(h, f) => e = f
<1>1. GroupAt(h, f) # Null /\ DirAt(h, f, j) = Ptr(h, GroupAt(h, f), j)
  BY DEF DirAt, GroupAt
<1>2. CASE h.root.sub
  <2>1. h.root.page \in IndexPages(h) /\ GroupAt(h, f) \in GroupPages(h)
    BY <1>1, <1>2 DEF GroupPages, IndexPages, GroupAt
  <2>2. \A e \in Indexes : GroupAt(h, e) = GroupAt(h, f) => e = f
    BY <1>1, <1>2, <2>1 DEF GroupAt, Apart, DirectoryApart
  <2>. QED  BY <1>1, <2>1, <2>2 DEF IndexPages
<1>3. CASE ~h.root.sub
  <2>1. h.root.page # Null
    BY Layout DEF Apart, DirectoryApart, DirPages
  <2>. QED  BY <1>1, <1>3, <2>1 DEF GroupPages, GroupAt, IndexPages
<1>. QED  BY <1>2, <1>3

\* The pages of the entries are no index pages, no fixed pages and no file's, and each is the
\* page of one position only; none is a user page.
LEMMA EntryPage ==
  ASSUME NEW h, Apart(h), NEW g \in Indexes, NEW i \in Indexes, DirAt(h, g, i) # Null
  PROVE  /\ DirAt(h, g, i) \in DirPages(h)
         /\ DirAt(h, g, i) \in Pages \ (IndexPages(h) \union RootPages \union FilePages(h))
         /\ \A f, j \in Indexes : DirAt(h, f, j) = DirAt(h, g, i) => f = g /\ j = i
         /\ \A j \in Indexes : Ptr(h, UserIndex, j) # DirAt(h, g, i)
<1>. DEFINE p == DirAt(h, g, i)
            a == GroupAt(h, g)
<1>0. \A x, y \in IndexPages(h), k, l \in Indexes :
        Ptr(h, x, k) # Null /\ Ptr(h, x, k) = Ptr(h, y, l) => x = y /\ k = l
  BY DEF Apart, DirectoryApart
<1>1. p # Null /\ a \in GroupPages(h) /\ a \in IndexPages(h) /\ p = Ptr(h, a, i)
  BY ThroughGroup
<1>2. UserIndex \in IndexPages(h) /\ h.root.page \in IndexPages(h)
  BY DEF IndexPages
<1>3. p \in DirPages(h)
  BY <1>1 DEF DirPages
<1>4. /\ DirPages(h) \subseteq Pages /\ DirPages(h) \intersect RootPages = {}
      /\ DirPages(h) \intersect FilePages(h) = {}
  BY DEF Apart, DirectoryApart, WellFormed, FilesApart, FileApart, FilePages
<1>5. UserIndex \in RootPages /\ h.root.page \in DirPages(h) /\ GroupPages(h) \subseteq DirPages(h)
  BY DEF RootPages, DirPages, GroupPages, IndexPages
<1>6. a # UserIndex
  BY <1>1, <1>4, <1>5
<1>7. p \notin IndexPages(h)
  <2>1. p # h.root.page
    BY <1>1 DEF Apart, DirectoryApart
  <2>2. p # UserIndex
    BY <1>3, <1>4, <1>5
  <2>3. ASSUME h.root.sub, p \in GroupPages(h)
        PROVE  FALSE
    <3>. HIDE DEF p, a
    <3>1. PICK f \in Indexes : p = Ptr(h, h.root.page, f) /\ p # Null
      BY <2>3 DEF GroupPages
    <3>2. a = h.root.page
      BY <1>0, <1>1, <1>2, <3>1
    <3>3. \E f2 \in Indexes : a = Ptr(h, h.root.page, f2)
      BY <1>1, <2>3 DEF GroupPages
    <3>. QED  BY <1>2, <3>2, <3>3 DEF Apart, DirectoryApart
  <2>. QED  BY <2>1, <2>2, <2>3 DEF IndexPages, GroupPages
<1>8. \A f, j \in Indexes : DirAt(h, f, j) = p => f = g /\ j = i
  <2>. SUFFICES ASSUME NEW f \in Indexes, NEW j \in Indexes, DirAt(h, f, j) = p
                PROVE  f = g /\ j = i
    OBVIOUS
  <2>1. /\ GroupAt(h, f) \in IndexPages(h) /\ DirAt(h, f, j) = Ptr(h, GroupAt(h, f), j)
        /\ \A e \in Indexes : GroupAt(h, e) = GroupAt(h, f) => e = f
    BY <1>1, ThroughGroup
  <2>. HIDE DEF p
  <2>2. GroupAt(h, f) = a /\ j = i
    <3>. HIDE DEF a
    <3>. QED  BY <1>0, <1>1, <2>1
  <2>. QED  BY <2>1, <2>2
<1>9. \A j \in Indexes : Ptr(h, UserIndex, j) # p
  BY <1>0, <1>1, <1>2, <1>6
<1>. QED  BY <1>3, <1>4, <1>7, <1>8, <1>9

\* The pages of the users, likewise.
LEMMA UserPage ==
  ASSUME NEW h, Apart(h), NEW i \in Indexes, Ptr(h, UserIndex, i) # Null
  PROVE  /\ Ptr(h, UserIndex, i) \in DirPages(h)
         /\ Ptr(h, UserIndex, i) \in Pages \ (IndexPages(h) \union RootPages \union FilePages(h))
         /\ \A j \in Indexes : Ptr(h, UserIndex, j) = Ptr(h, UserIndex, i) => j = i
<1>. DEFINE p == Ptr(h, UserIndex, i)
<1>1. UserIndex \in IndexPages(h) /\ UserIndex \in RootPages /\ h.root.page \in IndexPages(h)
  BY DEF IndexPages, RootPages
<1>2. p \in DirPages(h) /\ h.root.page \in DirPages(h)
  BY <1>1 DEF DirPages
<1>3. /\ DirPages(h) \subseteq Pages /\ DirPages(h) \intersect RootPages = {}
      /\ DirPages(h) \intersect FilePages(h) = {}
  BY DEF Apart, DirectoryApart, WellFormed, FilesApart, FileApart, FilePages
<1>4. p # h.root.page
  BY <1>1 DEF Apart, DirectoryApart
<1>5. ASSUME h.root.sub, p \in GroupPages(h)
      PROVE  FALSE
  <2>1. PICK f \in Indexes : p = Ptr(h, h.root.page, f) /\ p # Null
    BY <1>5 DEF GroupPages
  <2>2. UserIndex = h.root.page
    BY <1>1, <2>1 DEF Apart, DirectoryApart
  <2>. QED  BY <1>1, <1>2, <1>3, <2>2
<1>6. p \notin IndexPages(h)
  BY <1>1, <1>2, <1>3, <1>4, <1>5 DEF IndexPages, GroupPages
<1>7. \A j \in Indexes : Ptr(h, UserIndex, j) = p => j = i
  BY <1>1 DEF Apart, DirectoryApart
<1>. QED  BY <1>2, <1>3, <1>6, <1>7

-----------------------------------------------------------------------------
(***************************************************************************)
(* The surgical writers: each puts back one page that refers to nothing.   *)
(***************************************************************************)
SameButMem(h, h2) ==
  /\ DOMAIN h2 = VolumeFields
  /\ h2.used = h.used /\ h2.users = h.users /\ h2.objects = h.objects /\ h2.root = h.root

\* One page of memory assigned.
Assigned(h, p, c) == [h EXCEPT !.mem[p] = c]

\* Nothing but that page changes.
LEMMA PageAssigned ==
  ASSUME NEW h, DOMAIN h = VolumeFields, DOMAIN h.mem = Pages, NEW p \in Pages, NEW c,
         NEW h2, h2 = Assigned(h, p, c)
  PROVE  /\ SameButMem(h, h2) /\ DOMAIN h2.mem = Pages /\ h2.mem[p] = c
         /\ \A q \in Pages : q # p => h2.mem[q] = h.mem[q]
BY DEF SameButMem, VolumeFields, Assigned

\* A page is rewritten as a page of items.
Put(h, p, S) == [h EXCEPT !.mem[p] = Holding(S)]

\* A page that refers to nothing and holds no file can be rewritten.
LEMMA LeafWritten ==
  ASSUME NEW h, Apart(h), NEW p \in Pages \ (IndexPages(h) \union FilePages(h)), NEW S,
         NEW h2, h2 = Put(h, p, S)
  PROVE  /\ SameButMem(h, h2) /\ h2.mem[p].items = S
         /\ \A q \in Pages : q # p => h2.mem[q] = h.mem[q]
         /\ Apart(h2) /\ SameDirectory(h, h2)
<1>0. /\ DOMAIN h = VolumeFields /\ DOMAIN h.mem = Pages /\ IsMem(h.mem)
      /\ WellFormed(h)
  BY DEF Apart, WellFormed, IsMem
<1>1. /\ SameButMem(h, h2) /\ DOMAIN h2.mem = Pages /\ h2.mem[p] = Holding(S)
      /\ \A q \in Pages : q # p => h2.mem[q] = h.mem[q]
  BY <1>0, PageAssigned DEF Put, Assigned
<1>2. /\ DOMAIN h2.mem[p] = PageFields /\ h2.mem[p].items = S /\ h2.mem[p].ptrs \in [Indexes -> Pages]
  BY <1>1, PageContent
<1>3. IsMem(h2.mem)
  BY <1>0, <1>1, <1>2 DEF IsMem
<1>4. WellFormed(h2)
  BY <1>0, <1>1, <1>3 DEF WellFormed, SameButMem, IsEntry
<1>5. IndexPages(h) \union FilePages(h) \subseteq Pages
  <2>1. IndexPages(h) \subseteq Pages
    BY IndexIsDir DEF Apart, WellFormed, DirectoryApart
  <2>2. FilePages(h) \subseteq Pages
    BY DEF Apart, WellFormed, FilesApart, FileApart, FilePages, PagesOf
  <2>. QED  BY <2>1, <2>2
<1>6. SamePtrs(h.mem, h2.mem, IndexPages(h) \union FilePages(h))
  BY <1>1, <1>5 DEF SamePtrs
<1>7. Apart(h2) /\ SameDirectory(h, h2)
  BY <1>1, <1>4, <1>6, ApartKept DEF SameButMem
<1>. QED  BY <1>1, <1>2, <1>7

\* The fixed pages are no index pages but the user file's, and no file's.
LEMMA FixedLeaf ==
  ASSUME NEW h, Apart(h)
  PROVE  /\ MasterPage \in Pages \ (IndexPages(h) \union FilePages(h))
         /\ BitPage \in Pages \ (IndexPages(h) \union FilePages(h))
<1>1. {MasterPage, BitPage} \subseteq Pages \intersect RootPages /\ UserIndex \notin {MasterPage, BitPage}
  BY Layout DEF RootPages
<1>2. /\ DirPages(h) \intersect RootPages = {} /\ RootPages \intersect FilePages(h) = {}
  BY DEF Apart, DirectoryApart, FilesApart, FileApart, FilePages
<1>3. IndexPages(h) \subseteq DirPages(h) \union {UserIndex}
  BY DEF IndexPages, DirPages, GroupPages
<1>. QED  BY <1>1, <1>2, <1>3

\* What keeps the directory, and keeps what its pages tell in step with what memory tells,
\* keeps the rest mirrored.
LEMMA MirrorStep ==
  ASSUME NEW h, NEW h2, Apart(h), NEW G, NEW U, NEW G0, NEW U0, MirroredBut(h, G0, U0),
         G0 \subseteq G, U0 \subseteq U,
         SameDirectory(h, h2),
         \A p \in DirPages(h) : h2.mem[p].items = h.mem[p].items,
         MasterOK(h2), h2.mem[BitPage].items \subseteq Pages,
         \A g, i \in Indexes : <<g, i>> \notin G =>
           {o \in h2.objects : At(o, g, i)} = {o \in h.objects : At(o, g, i)},
         \A o \in h2.objects : HasDirPage(h, o) /\ o.slot \in Slots,
         \A u \in UserIds : u \div EntriesPerPage \notin U =>
           /\ (u \in DOMAIN h2.users) <=> (u \in DOMAIN h.users)
           /\ u \in DOMAIN h.users => h2.users[u].used = h.users[u].used,
         DOMAIN h.users \subseteq UserIds, DOMAIN h2.users \subseteq UserIds
  PROVE  MirroredBut(h2, G, U)
<1>1. \A o \in h2.objects : HasDirPage(h2, o)
  BY SlotParts DEF SameDirectory, HasDirPage
<1>2. ASSUME NEW g \in Indexes, NEW i \in Indexes, <<g, i>> \notin G
      PROVE  EntryPageOK(h2, g, i)
  <2>. SUFFICES ASSUME DirAt(h, g, i) # Null
                PROVE  h2.mem[DirAt(h, g, i)].items = {OnDisk(o) : o \in {o \in h2.objects : At(o, g, i)}}
    BY DEF EntryPageOK, SameDirectory
  <2>1. h2.mem[DirAt(h, g, i)].items = h.mem[DirAt(h, g, i)].items
    BY EntryPage
  <2>2. h.mem[DirAt(h, g, i)].items = {OnDisk(o) : o \in {o \in h.objects : At(o, g, i)}}
    BY <1>2 DEF MirroredBut, EntryPageOK
  <2>. QED  BY <1>2, <2>1, <2>2
<1>3. ASSUME NEW i \in Indexes, i \notin U
      PROVE  UserPageOK(h2, i)
  <2>. DEFINE p == Ptr(h, UserIndex, i)
  <2>1. Ptr(h2, UserIndex, i) = p
    BY DEF SameDirectory, IndexPages
  <2>2. UserPageOK(h, i)
    BY <1>3 DEF MirroredBut
  <2>. SUFFICES ASSUME p # Null
                PROVE  /\ \A r \in h2.mem[p].items : IsRecord(h2, r, i)
                       /\ \A r, s \in h2.mem[p].items : r.id = s.id => r = s
                       /\ \A u \in DOMAIN h2.users : u \div EntriesPerPage = i => \E r \in h2.mem[p].items : r.id = u
    BY <2>1 DEF UserPageOK
  <2>3. h2.mem[p].items = h.mem[p].items
    BY UserPage
  <2>4. /\ \A r \in h.mem[p].items : IsRecord(h, r, i)
        /\ \A r, s \in h.mem[p].items : r.id = s.id => r = s
        /\ \A u \in DOMAIN h.users : u \div EntriesPerPage = i => \E r \in h.mem[p].items : r.id = u
    BY <2>2 DEF UserPageOK
  <2>. HIDE DEF p
  <2>5. \A r \in h.mem[p].items : IsRecord(h2, r, i)
    BY <1>3, <2>4 DEF IsRecord
  <2>. QED  BY <1>3, <2>3, <2>4, <2>5
<1>. QED  BY <1>1, <1>2, <1>3 DEF MirroredBut

Pos(s) == <<GroupOf(s), Inner(s)>>

\* Two slots are on one page when they have one position.
LEMMA SamePage ==
  ASSUME NEW s \in Slots, NEW t \in Slots
  PROVE  PageOf(s) = PageOf(t) <=> GroupOf(s) = GroupOf(t) /\ Inner(s) = Inner(t)
<1>1. PageOf(s) = PageOf(t) => GroupOf(s) = GroupOf(t) /\ Inner(s) = Inner(t)
  BY DEF GroupOf, Inner
<1>. QED  BY <1>1, SlotParts

\* write_object_page brings its page up to date and touches nothing else.
LEMMA ObjectPageWritten ==
  ASSUME NEW h, Apart(h), NEW s \in Slots, NEW U, MirroredBut(h, {Pos(s)}, U),
         NEW h2, h2 = WriteObjectPage(h, s)
  PROVE  Apart(h2) /\ MirroredBut(h2, {}, U) /\ SameButMem(h, h2) /\ SameDirectory(h, h2)
<1>. DEFINE g == GroupOf(s)
            i == Inner(s)
            p == DirAt(h, g, i)
            S == {OnDisk(o) : o \in {o \in h.objects : PageOf(o.slot) = PageOf(s)}}
<1>0. g \in Indexes /\ i \in Indexes
  BY SlotParts
<1>1. DirPage(h, s) = p
  BY DEF DirPage, DirAt
<1>2. \A f, j \in Indexes : <<f, j>> # Pos(s) => EntryPageOK(h, f, j)
  BY DEF MirroredBut
<1>3. \A f, j \in Indexes : f # g \/ j # i => EntryPageOK(h, f, j)
  BY <1>2 DEF Pos
<1>4. S = {OnDisk(o) : o \in {o \in h.objects : At(o, g, i)}}
  <2>1. \A o \in h.objects : PageOf(o.slot) = PageOf(s) <=> At(o, g, i)
    BY SamePage DEF At, Apart, WellFormed, IsEntry
  <2>. QED  BY <2>1
<1>. HIDE DEF g, i, S
<1>5. CASE p = Null
  <2>1. h2 = h
    BY <1>1, <1>5 DEF WriteObjectPage
  <2>2. EntryPageOK(h, g, i)
    BY <1>5 DEF EntryPageOK
  <2>3. \A f, j \in Indexes : EntryPageOK(h, f, j)
    BY <1>3, <2>2
  <2>. QED  BY <2>1, <2>3 DEF MirroredBut, SameButMem, SameDirectory, Apart, WellFormed
<1>6. CASE p # Null
  <2>1. h2 = Put(h, p, S)
    BY <1>1, <1>6 DEF WriteObjectPage, Put, S
  <2>2. /\ p \in Pages \ (IndexPages(h) \union RootPages \union FilePages(h))
        /\ \A f, j \in Indexes : DirAt(h, f, j) = p => f = g /\ j = i
        /\ \A j \in Indexes : Ptr(h, UserIndex, j) # p
    BY <1>0, <1>6, EntryPage
  <2>. HIDE DEF p
  <2>3. /\ SameButMem(h, h2) /\ h2.mem[p].items = S
        /\ \A q \in Pages : q # p => h2.mem[q] = h.mem[q]
        /\ Apart(h2) /\ SameDirectory(h, h2)
    BY <2>1, <2>2, LeafWritten
  <2>4. ASSUME NEW f \in Indexes, NEW j \in Indexes
        PROVE  EntryPageOK(h2, f, j)
    <3>1. DirAt(h2, f, j) = DirAt(h, f, j) /\ h2.objects = h.objects
      BY <2>3 DEF SameDirectory, SameButMem
    <3>2. CASE f = g /\ j = i
      BY <1>4, <2>3, <3>1, <3>2 DEF EntryPageOK, p
    <3>3. CASE f # g \/ j # i
      <4>. SUFFICES ASSUME DirAt(h, f, j) # Null
                    PROVE  h2.mem[DirAt(h, f, j)].items = {OnDisk(o) : o \in {o \in h.objects : At(o, f, j)}}
        BY <3>1 DEF EntryPageOK
      <4>1. DirAt(h, f, j) # p /\ DirAt(h, f, j) \in Pages
        BY <2>2, <3>3, EntryPage
      <4>. QED  BY <1>3, <2>3, <3>3, <4>1 DEF EntryPageOK
    <3>. QED  BY <3>2, <3>3
  <2>5. \A j \in Indexes : j \notin U => UserPageOK(h2, j)
    <3>. SUFFICES ASSUME NEW j \in Indexes, j \notin U
                  PROVE  UserPageOK(h2, j)
      OBVIOUS
    <3>1. Ptr(h2, UserIndex, j) = Ptr(h, UserIndex, j) /\ h2.users = h.users
      BY <2>3 DEF SameDirectory, SameButMem, IndexPages
    <3>2. Ptr(h, UserIndex, j) # Null => h2.mem[Ptr(h, UserIndex, j)] = h.mem[Ptr(h, UserIndex, j)]
      BY <2>2, <2>3, UserPage
    <3>3. UserPageOK(h, j)
      BY DEF MirroredBut
    <3>. QED  BY <3>1, <3>2, <3>3 DEF UserPageOK, IsRecord
  <2>6. h2.mem[MasterPage] = h.mem[MasterPage] /\ h2.mem[BitPage] = h.mem[BitPage]
    BY <2>2, <2>3, Layout DEF RootPages
  <2>7. \A o \in h2.objects : HasDirPage(h2, o)
    <3>1. \A o \in h.objects : o.slot \in Slots
      BY DEF Apart, WellFormed, IsEntry
    <3>. QED  BY <2>3, <3>1, SlotParts DEF SameDirectory, SameButMem, MirroredBut, HasDirPage
  <2>8. MasterOK(h2) /\ h2.mem[BitPage].items \subseteq Pages
    BY <2>3, <2>6 DEF MirroredBut, MasterOK, SameButMem
  <2>. QED  BY <2>3, <2>4, <2>5, <2>7, <2>8 DEF MirroredBut
<1>. QED  BY <1>5, <1>6

\* A user's page is one of the pages of the user file.
LEMMA UserPart ==
  ASSUME NEW u \in UserIds
  PROVE  u \in Nat /\ u \div EntriesPerPage \in Indexes
<1>1. /\ u \in Nat /\ PtrsPerPage \in Nat \ {0} /\ EntriesPerPage \in Nat \ {0}
      /\ u < EntriesPerPage * PtrsPerPage
  BY Layout, ObjectBlocksAssumption, Z3 DEF UserIds
<1>2. /\ u \div EntriesPerPage \in Nat /\ u % EntriesPerPage \in Nat
      /\ u = EntriesPerPage * (u \div EntriesPerPage) + (u % EntriesPerPage)
  BY <1>1, DivMod
<1>3. u \div EntriesPerPage < PtrsPerPage
  BY <1>1, <1>2, Z3
<1>. QED  BY <1>1, <1>2, <1>3 DEF Indexes

\* write_user_page brings its page up to date and touches nothing else.
LEMMA UserPageWritten ==
  ASSUME NEW h, Apart(h), NEW u \in UserIds, NEW G, MirroredBut(h, G, {u \div EntriesPerPage}),
         NEW h2, h2 = WriteUserPage(h, u)
  PROVE  Apart(h2) /\ MirroredBut(h2, G, {}) /\ SameButMem(h, h2) /\ SameDirectory(h, h2)
<1>. DEFINE i == u \div EntriesPerPage
            p == Ptr(h, UserIndex, i)
            S == {UserRecord(h, v) : v \in {v \in DOMAIN h.users : v \div EntriesPerPage = i}}
<1>0. i \in Indexes
  BY UserPart
<1>1. \A j \in Indexes : j # i => UserPageOK(h, j)
  BY DEF MirroredBut
<1>2. /\ \A r \in S : IsRecord(h, r, i)
      /\ \A r, s \in S : r.id = s.id => r = s
      /\ \A v \in DOMAIN h.users : v \div EntriesPerPage = i => \E r \in S : r.id = v
  <2>1. \A v \in DOMAIN h.users : DOMAIN h.users[v] = UserFields
    BY DEF Apart, WellFormed
  <2>2. \A v \in DOMAIN h.users : v \div EntriesPerPage = i => UserRecord(h, v) \in S
    OBVIOUS
  <2>3. \A r \in S : \E v \in DOMAIN h.users : v \div EntriesPerPage = i /\ r = UserRecord(h, v)
    OBVIOUS
  <2>4. \A v \in DOMAIN h.users : /\ DOMAIN UserRecord(h, v) = {"id", "entry"}
                                  /\ UserRecord(h, v).id = v /\ UserRecord(h, v).entry = h.users[v]
    BY DEF UserRecord
  <2>. HIDE DEF S
  <2>. QED  BY <2>1, <2>2, <2>3, <2>4 DEF IsRecord
<1>3. CASE p = Null
  <2>1. h2 = h
    BY <1>3 DEF WriteUserPage
  <2>2. UserPageOK(h, i)
    BY <1>3 DEF UserPageOK
  <2>. QED  BY <1>1, <2>1, <2>2 DEF MirroredBut, SameButMem, SameDirectory, Apart, WellFormed
<1>4. CASE p # Null
  <2>1. h2 = Put(h, p, S)
    BY <1>4 DEF WriteUserPage, Put
  <2>2. /\ p \in Pages \ (IndexPages(h) \union RootPages \union FilePages(h))
        /\ \A j \in Indexes : Ptr(h, UserIndex, j) = p => j = i
    BY <1>0, <1>4, UserPage
  <2>. HIDE DEF p, S, i
  <2>3. /\ SameButMem(h, h2) /\ h2.mem[p].items = S
        /\ \A q \in Pages : q # p => h2.mem[q] = h.mem[q]
        /\ Apart(h2) /\ SameDirectory(h, h2)
    BY <2>1, <2>2, LeafWritten
  <2>4. \A f, j \in Indexes : <<f, j>> \notin G => EntryPageOK(h2, f, j)
    <3>. SUFFICES ASSUME NEW f \in Indexes, NEW j \in Indexes, <<f, j>> \notin G, DirAt(h, f, j) # Null
                  PROVE  h2.mem[DirAt(h, f, j)].items = {OnDisk(o) : o \in {o \in h.objects : At(o, f, j)}}
      BY <2>3 DEF EntryPageOK, SameDirectory, SameButMem
    <3>1. DirAt(h, f, j) # p /\ DirAt(h, f, j) \in Pages
      BY <1>0, EntryPage DEF p
    <3>2. EntryPageOK(h, f, j)
      BY DEF MirroredBut
    <3>. QED  BY <2>3, <3>1, <3>2 DEF EntryPageOK
  <2>5. ASSUME NEW j \in Indexes
        PROVE  UserPageOK(h2, j)
    <3>1. Ptr(h2, UserIndex, j) = Ptr(h, UserIndex, j) /\ h2.users = h.users
      BY <2>3 DEF SameDirectory, SameButMem, IndexPages
    <3>2. CASE j = i
      <4>1. Ptr(h2, UserIndex, j) = p
        BY <3>1, <3>2 DEF p
      <4>. QED  BY <1>2, <2>3, <3>1, <3>2, <4>1 DEF UserPageOK, IsRecord
    <3>3. CASE j # i
      <4>1. Ptr(h, UserIndex, j) # Null => h2.mem[Ptr(h, UserIndex, j)] = h.mem[Ptr(h, UserIndex, j)]
        BY <2>2, <2>3, <3>3, UserPage
      <4>2. UserPageOK(h, j)
        BY <1>1, <3>3
      <4>. QED  BY <3>1, <4>1, <4>2 DEF UserPageOK, IsRecord
    <3>. QED  BY <3>2, <3>3
  <2>6. h2.mem[MasterPage] = h.mem[MasterPage] /\ h2.mem[BitPage] = h.mem[BitPage]
    BY <2>2, <2>3, Layout DEF RootPages
  <2>7. \A o \in h2.objects : HasDirPage(h2, o)
    <3>1. \A o \in h.objects : o.slot \in Slots
      BY DEF Apart, WellFormed, IsEntry
    <3>. QED  BY <2>3, <3>1, SlotParts DEF SameDirectory, SameButMem, MirroredBut, HasDirPage
  <2>8. MasterOK(h2) /\ h2.mem[BitPage].items \subseteq Pages
    BY <2>3, <2>6 DEF MirroredBut, MasterOK, SameButMem
  <2>. QED  BY <2>3, <2>4, <2>5, <2>7, <2>8 DEF MirroredBut
<1>. QED  BY <1>3, <1>4

\* A fixed page is rewritten, page 0 with a master record of the root.
LEMMA FixedWritten ==
  ASSUME NEW h, Apart(h), NEW G, NEW U, MirroredBut(h, G, U), NEW p \in {MasterPage, BitPage}, NEW S,
         p = MasterPage => S # {} /\ \A m \in S : m.root = h.root,
         p = BitPage => S \subseteq Pages,
         NEW h2, h2 = Put(h, p, S)
  PROVE  Apart(h2) /\ MirroredBut(h2, G, U) /\ SameButMem(h, h2) /\ SameDirectory(h, h2)
         /\ h2.mem[p].items = S
<1>1. p \in Pages \ (IndexPages(h) \union FilePages(h)) /\ p \in RootPages
  BY FixedLeaf DEF RootPages
<1>2. /\ SameButMem(h, h2) /\ h2.mem[p].items = S
      /\ \A q \in Pages : q # p => h2.mem[q] = h.mem[q]
      /\ Apart(h2) /\ SameDirectory(h, h2)
  BY <1>1, LeafWritten
<1>3. \A q \in DirPages(h) : h2.mem[q].items = h.mem[q].items
  BY <1>1, <1>2 DEF Apart, WellFormed, DirectoryApart
<1>4. {MasterPage, BitPage} \subseteq Pages /\ MasterPage # BitPage
  BY Layout DEF Null
<1>5. MasterOK(h2) /\ h2.mem[BitPage].items \subseteq Pages
  BY <1>2, <1>4 DEF MirroredBut, MasterOK, SameButMem
<1>6. /\ h2.objects = h.objects /\ h2.users = h.users /\ DOMAIN h.users \subseteq UserIds
      /\ \A o \in h.objects : HasDirPage(h, o) /\ o.slot \in Slots
  BY <1>2 DEF SameButMem, Apart, WellFormed, IsEntry, MirroredBut
<1>7. MirroredBut(h2, G, U)
  BY <1>2, <1>3, <1>5, <1>6, MirrorStep
<1>. QED  BY <1>2, <1>7

\* persist_master_block
LEMMA MasterPersisted ==
  ASSUME NEW h, Apart(h), NEW G, NEW U, MirroredBut(h, G, U), NEW h2, h2 = PersistMaster(h)
  PROVE  Apart(h2) /\ MirroredBut(h2, G, U) /\ SameButMem(h, h2) /\ SameDirectory(h, h2)
<1>. DEFINE S == {MasterRecord(h)}
<1>1. S # {} /\ \A m \in S : m.root = h.root
  BY DEF MasterRecord
<1>2. h2 = Put(h, MasterPage, S)
  BY DEF PersistMaster, Put
<1>3. MasterPage # BitPage
  BY Layout DEF Null
<1>. HIDE DEF S
<1>. QED  BY <1>1, <1>2, <1>3, FixedWritten

\* SameDirectory and SameButMem are transitive.
LEMMA SameTwice ==
  ASSUME NEW h, NEW h2, NEW h3
  PROVE  /\ SameDirectory(h, h2) /\ SameDirectory(h2, h3) => SameDirectory(h, h3)
         /\ SameButMem(h, h2) /\ SameButMem(h2, h3) => SameButMem(h, h3)
BY DEF SameDirectory, SameButMem

\* The bit file is stored with page 0.
LEMMA BitFileWritten ==
  ASSUME NEW h, Apart(h), NEW G, NEW U, MirroredBut(h, G, U), NEW h2, h2 = WriteBitFile(h)
  PROVE  Apart(h2) /\ MirroredBut(h2, G, U) /\ SameButMem(h, h2) /\ SameDirectory(h, h2)
<1>. DEFINE b == Put(h, BitPage, h.used)
<1>1. h2 = PersistMaster(b)
  BY DEF WriteBitFile, Put
<1>2. h.used \subseteq Pages /\ MasterPage # BitPage
  BY Layout DEF Apart, WellFormed, Null
<1>. HIDE DEF b
<1>3. Apart(b) /\ MirroredBut(b, G, U) /\ SameButMem(h, b) /\ SameDirectory(h, b)
  BY <1>2, FixedWritten DEF b
<1>4. Apart(h2) /\ MirroredBut(h2, G, U) /\ SameButMem(b, h2) /\ SameDirectory(b, h2)
  BY <1>1, <1>3, MasterPersisted
<1>. QED  BY <1>3, <1>4, SameTwice

\* The metadata of a mutation: the entry's page, the user's page and the bit file are all in
\* step again.
LEMMA SavedSound ==
  ASSUME NEW h, Apart(h), NEW s \in Slots, NEW u \in UserIds,
         MirroredBut(h, {Pos(s)}, {u \div EntriesPerPage}), NEW h2, h2 = Saved(h, s, u)
  PROVE  Sound(h2) /\ SameButMem(h, h2) /\ SameDirectory(h, h2)
<1>. DEFINE a == WriteObjectPage(h, s)
            b == WriteUserPage(a, u)
<1>1. h2 = WriteBitFile(b)
  BY DEF Saved
<1>. HIDE DEF a, b
<1>2. Apart(a) /\ MirroredBut(a, {}, {u \div EntriesPerPage}) /\ SameButMem(h, a) /\ SameDirectory(h, a)
  BY ObjectPageWritten DEF a
<1>3. Apart(b) /\ MirroredBut(b, {}, {}) /\ SameButMem(a, b) /\ SameDirectory(a, b)
  BY <1>2, UserPageWritten DEF b
<1>4. Apart(h2) /\ MirroredBut(h2, {}, {}) /\ SameButMem(b, h2) /\ SameDirectory(b, h2)
  BY <1>1, <1>3, BitFileWritten
<1>. QED  BY <1>2, <1>3, <1>4, SameTwice DEF Sound

-----------------------------------------------------------------------------
(***************************************************************************)
(* The directory grows: a page is taken, and linked or made the root.      *)
(***************************************************************************)
\* Everything in use is marked, so a free page is none of it.
LEMMA InUse ==
  ASSUME NEW h, Apart(h)
  PROVE  IndexPages(h) \union DirPages(h) \union RootPages \union FilePages(h) \subseteq h.used
<1>1. DirPages(h) \union RootPages \subseteq h.used
  BY DEF Apart, DirectoryApart
<1>2. IndexPages(h) \subseteq DirPages(h) \union RootPages
  BY IndexIsDir DEF Apart, WellFormed
<1>3. FilePages(h) \subseteq h.used
  BY DEF Apart, FilesApart, FileApart, FilePages, PagesOf
<1>. QED  BY <1>1, <1>2, <1>3

\* The files stay apart when the directory takes a free page and writes only index pages of
\* its own and page 0.
LEMMA FilesUntouched ==
  ASSUME NEW h, NEW h2, Apart(h), h2.objects = h.objects, h.used \subseteq h2.used,
         NEW p \in Pages \ h.used, DirPages(h2) = DirPages(h) \union {p},
         SamePtrs(h.mem, h2.mem, FilePages(h))
  PROVE  FilesApart(h2)
<1>1. p \notin FilePages(h)
  BY InUse
<1>2. \A o \in h.objects : Refs(h2.mem, o) = Refs(h.mem, o) /\ PagesOf(h2.mem, o) = PagesOf(h.mem, o)
  <2>. SUFFICES ASSUME NEW o \in h.objects
                PROVE  Refs(h2.mem, o) = Refs(h.mem, o) /\ PagesOf(h2.mem, o) = PagesOf(h.mem, o)
    OBVIOUS
  <2>1. o.kind \in {"contiguous", "indexed", "subindexed"}
    BY DEF Apart, WellFormed, IsEntry
  <2>2. SamePtrs(h.mem, h2.mem, IndexOf(h.mem, o))
    BY DEF SamePtrs, FilePages, IndexOf, PagesOf
  <2>. QED  BY <2>1, <2>2, SameRefs
<1>3. ASSUME NEW o \in h.objects
      PROVE  FileApart(h2, o)
  <2>1. FileApart(h, o)
    BY DEF Apart, FilesApart
  <2>2. p \notin PagesOf(h.mem, o)
    BY <1>1 DEF FilePages
  <2>. QED  BY <1>2, <2>1, <2>2 DEF FileApart
<1>. QED  BY <1>2, <1>3 DEF Apart, FilesApart

\* A page taken for the directory is linked from a place that had no page.
LEMMA FreshLink ==
  ASSUME NEW h, NEW h2, Apart(h), NEW G, NEW U, MirroredBut(h, G, U),
         NEW index \in IndexPages(h), NEW i \in Indexes, Ptr(h, index, i) = Null,
         index = UserIndex => i \in U,
         NEW p \in Window \ h.used, WellFormed(h2),
         h2.used = h.used \union {p}, h2.users = h.users, h2.objects = h.objects, h2.root = h.root,
         h2.mem[p] = Blank,
         \A q \in Pages : q # p =>
           /\ h2.mem[q].items = h.mem[q].items
           /\ \A k \in Indexes : h2.mem[q].ptrs[k] = IF q = index /\ k = i THEN p ELSE h.mem[q].ptrs[k],
         \A q \in Pages : q # p /\ q # index => h2.mem[q].ptrs = h.mem[q].ptrs
  PROVE  /\ Apart(h2) /\ MirroredBut(h2, G, U)
         /\ DirPages(h2) = DirPages(h) \union {p}
         /\ IndexPages(h) \subseteq IndexPages(h2)
         /\ \A a \in IndexPages(h), k \in Indexes :
              Ptr(h2, a, k) = IF a = index /\ k = i THEN p ELSE Ptr(h, a, k)
<1>0. /\ p \in Pages /\ p # Null
      /\ p \notin IndexPages(h) /\ p \notin DirPages(h) /\ p \notin RootPages /\ p \notin FilePages(h)
  BY InUse, WindowType DEF Null
<1>1. IndexPages(h) \subseteq Pages /\ DirPages(h) \subseteq Pages /\ RootPages \subseteq Pages
  BY InUse DEF Apart, WellFormed
<1>2. \A a \in IndexPages(h), k \in Indexes :
        Ptr(h2, a, k) = IF a = index /\ k = i THEN p ELSE Ptr(h, a, k)
  BY <1>0, <1>1 DEF Ptr
<1>3. \A k \in Indexes : Ptr(h2, p, k) = Null
  BY PageContent DEF Ptr
<1>4. h.root.page \in IndexPages(h) /\ UserIndex \in IndexPages(h) /\ GroupPages(h) \subseteq IndexPages(h)
  BY DEF IndexPages
<1>5. /\ GroupPages(h2) \subseteq GroupPages(h) \union {p} /\ GroupPages(h) \subseteq GroupPages(h2)
  <2>1. CASE h.root.sub
    <3>1. \A k \in Indexes : Ptr(h, h.root.page, k) # Null => Ptr(h2, h.root.page, k) = Ptr(h, h.root.page, k)
      BY <1>2, <1>4
    <3>2. \A k \in Indexes : Ptr(h2, h.root.page, k) \in {p, Ptr(h, h.root.page, k)}
      BY <1>2, <1>4
    <3>. QED  BY <2>1, <3>1, <3>2 DEF GroupPages
  <2>2. CASE ~h.root.sub
    BY <2>2 DEF GroupPages
  <2>. QED  BY <2>1, <2>2
<1>6. IndexPages(h2) \subseteq IndexPages(h) \union {p} /\ IndexPages(h) \subseteq IndexPages(h2)
  BY <1>5 DEF IndexPages
<1>7. DirPages(h2) = DirPages(h) \union {p}
  <2>1. DirPages(h2) \subseteq DirPages(h) \union {p}
    BY <1>2, <1>3, <1>6 DEF DirPages
  <2>2. \A a \in IndexPages(h), k \in Indexes : Ptr(h, a, k) # Null => Ptr(h, a, k) \in DirPages(h2)
    BY <1>2, <1>6 DEF DirPages
  <2>3. p \in DirPages(h2) /\ h.root.page \in DirPages(h2)
    BY <1>0, <1>2, <1>6 DEF DirPages
  <2>. QED  BY <2>1, <2>2, <2>3 DEF DirPages
<1>8. DirectoryApart(h2)
  <2>1. /\ h.root.page \in Pages /\ DirPages(h) \intersect RootPages = {}
        /\ \A a \in IndexPages(h), k \in Indexes : Ptr(h, a, k) # h.root.page
        /\ \A a, b \in IndexPages(h), k, l \in Indexes :
             Ptr(h, a, k) # Null /\ Ptr(h, a, k) = Ptr(h, b, l) => a = b /\ k = l
        /\ DirPages(h) \union RootPages \subseteq h.used
    BY DEF Apart, DirectoryApart
  <2>2. h.root.page # Null /\ h.root.page # p
    BY <1>0, <1>4, <2>1 DEF DirPages, RootPages, Null, MasterPage
  <2>3. \A a \in IndexPages(h2), k \in Indexes : Ptr(h2, a, k) # h.root.page
    BY <1>2, <1>3, <1>6, <2>1, <2>2
  <2>4. \A a \in IndexPages(h), k \in Indexes : Ptr(h, a, k) # p
    BY <1>0 DEF DirPages
  <2>5. \A a, b \in IndexPages(h2), k, l \in Indexes :
          Ptr(h2, a, k) # Null /\ Ptr(h2, a, k) = Ptr(h2, b, l) => a = b /\ k = l
    <3>. SUFFICES ASSUME NEW a \in IndexPages(h2), NEW b \in IndexPages(h2), NEW k \in Indexes, NEW l \in Indexes,
                         Ptr(h2, a, k) # Null, Ptr(h2, a, k) = Ptr(h2, b, l)
                  PROVE  a = b /\ k = l
      OBVIOUS
    <3>1. a \in IndexPages(h) /\ b \in IndexPages(h)
      BY <1>3, <1>6
    <3>2. CASE Ptr(h2, a, k) = p
      BY <1>2, <2>4, <3>1, <3>2
    <3>3. CASE Ptr(h2, a, k) # p
      <4>1. Ptr(h2, a, k) = Ptr(h, a, k) /\ Ptr(h2, b, l) = Ptr(h, b, l)
        BY <1>2, <3>1, <3>3
      <4>2. Ptr(h, a, k) # Null /\ Ptr(h, a, k) = Ptr(h, b, l)
        BY <4>1
      <4>3. \A c, d \in IndexPages(h), m, n \in Indexes :
              Ptr(h, c, m) # Null /\ Ptr(h, c, m) = Ptr(h, d, n) => c = d /\ m = n
        BY <2>1
      <4>. QED  BY ONLY <3>1, <4>2, <4>3, k \in Indexes, l \in Indexes
    <3>. QED  BY <3>2, <3>3
  <2>. QED  BY <1>0, <1>7, <2>1, <2>3, <2>5 DEF DirectoryApart
<1>9. FilesApart(h2)
  <2>1. SamePtrs(h.mem, h2.mem, FilePages(h))
    <3>1. index \notin FilePages(h) /\ FilePages(h) \subseteq Pages
      <4>1. index \in DirPages(h) \union RootPages
        BY IndexIsDir DEF Apart, WellFormed
      <4>2. (DirPages(h) \union RootPages) \intersect FilePages(h) = {}
        BY DEF Apart, FilesApart, FileApart, FilePages
      <4>. QED  BY <4>1, <4>2, InUse DEF Apart, WellFormed
    <3>. QED  BY <1>0, <3>1 DEF SamePtrs
  <2>. QED  BY <1>0, <1>7, <2>1, FilesUntouched
<1>10. Apart(h2)
  BY <1>8, <1>9 DEF Apart, SlotsApart
<1>11. ASSUME NEW g \in Indexes, NEW j \in Indexes
       PROVE  /\ DirAt(h, g, j) # Null => DirAt(h2, g, j) = DirAt(h, g, j)
              /\ DirAt(h, g, j) = Null => DirAt(h2, g, j) \in {Null, p}
  <2>. DEFINE a == GroupAt(h, g)
              b == GroupAt(h2, g)
  <2>1. /\ DirAt(h, g, j) = IF a = Null THEN Null ELSE Ptr(h, a, j)
        /\ DirAt(h2, g, j) = IF b = Null THEN Null ELSE Ptr(h2, b, j)
    BY DEF DirAt, GroupAt
  <2>2. a # Null => b = a /\ a \in IndexPages(h)
    <3>1. CASE h.root.sub
      BY <1>2, <1>4, <3>1 DEF GroupAt, GroupPages
    <3>2. CASE ~h.root.sub
      BY <1>4, <3>2 DEF GroupAt
    <3>. QED  BY <3>1, <3>2
  <2>3. a = Null => b \in {Null, p}
    <3>1. CASE h.root.sub
      BY <1>2, <1>4, <3>1 DEF GroupAt
    <3>2. CASE ~h.root.sub
      BY <3>2 DEF GroupAt
    <3>. QED  BY <3>1, <3>2
  <2>. HIDE DEF a, b
  <2>4. CASE a = Null
    BY <1>3, <2>1, <2>3, <2>4
  <2>5. CASE a # Null
    BY <1>2, <2>1, <2>2, <2>5
  <2>. QED  BY <2>4, <2>5
<1>12. \A o \in h.objects : HasDirPage(h, o) /\ o.slot \in Slots
  BY DEF MirroredBut, Apart, WellFormed, IsEntry
<1>13. \A o \in h.objects : HasDirPage(h2, o)
  BY <1>11, <1>12, SlotParts DEF HasDirPage
<1>14. ASSUME NEW g \in Indexes, NEW j \in Indexes, <<g, j>> \notin G
       PROVE  EntryPageOK(h2, g, j)
  <2>1. CASE DirAt(h, g, j) # Null
    <3>1. DirAt(h, g, j) \in Pages /\ DirAt(h, g, j) # p
      BY <1>0, <2>1, EntryPage
    <3>2. EntryPageOK(h, g, j)
      BY <1>14 DEF MirroredBut
    <3>. QED  BY <1>11, <2>1, <3>1, <3>2 DEF EntryPageOK
  <2>2. CASE DirAt(h, g, j) = Null
    <3>1. \A o \in h.objects : ~At(o, g, j)
      BY <1>12, <2>2 DEF At, HasDirPage
    <3>2. DirAt(h2, g, j) # Null => h2.mem[DirAt(h2, g, j)].items = {}
      BY <1>11, <2>2, PageContent
    <3>. QED  BY <3>1, <3>2 DEF EntryPageOK
  <2>. QED  BY <2>1, <2>2
<1>15. ASSUME NEW j \in Indexes, j \notin U
       PROVE  UserPageOK(h2, j)
  <2>1. Ptr(h2, UserIndex, j) = Ptr(h, UserIndex, j)
    BY <1>2, <1>4, <1>15
  <2>2. UserPageOK(h, j)
    BY <1>15 DEF MirroredBut
  <2>3. Ptr(h, UserIndex, j) # Null =>
          h2.mem[Ptr(h, UserIndex, j)].items = h.mem[Ptr(h, UserIndex, j)].items
    BY <1>0, UserPage
  <2>. QED  BY <2>1, <2>2, <2>3 DEF UserPageOK, IsRecord
<1>16. MasterOK(h2) /\ h2.mem[BitPage].items \subseteq Pages
  <2>1. {MasterPage, BitPage} \subseteq Pages /\ p \notin {MasterPage, BitPage}
    BY <1>0, Layout DEF RootPages
  <2>2. h2.mem[MasterPage].items = h.mem[MasterPage].items /\ h2.mem[BitPage].items = h.mem[BitPage].items
    BY <2>1
  <2>. QED  BY <2>2 DEF MirroredBut, MasterOK
<1>. QED  BY <1>2, <1>6, <1>7, <1>10, <1>13, <1>14, <1>15, <1>16 DEF MirroredBut

\* The records on the i-th user page, none when it was never made.
RecordsOn(h, i) ==
  IF Ptr(h, UserIndex, i) = Null THEN {} ELSE h.mem[Ptr(h, UserIndex, i)].items

SameRecords(h, h2) == \A i \in Indexes : RecordsOn(h2, i) = RecordsOn(h, i)

\* The user pages are where they were, with what they had on them.
LEMMA RecordsKept ==
  ASSUME NEW h, NEW h2, SamePtrs(h.mem, h2.mem, {UserIndex}),
         \A i \in Indexes :
           LET p == Ptr(h, UserIndex, i) IN p # Null => h2.mem[p].items = h.mem[p].items
  PROVE  SameRecords(h, h2)
<1>. SUFFICES ASSUME NEW i \in Indexes
              PROVE  RecordsOn(h2, i) = RecordsOn(h, i)
  BY DEF SameRecords
<1>1. Ptr(h2, UserIndex, i) = Ptr(h, UserIndex, i)
  BY DEF SamePtrs, Ptr
<1>2. CASE Ptr(h, UserIndex, i) = Null
  BY <1>1, <1>2 DEF RecordsOn
<1>3. CASE Ptr(h, UserIndex, i) # Null
  BY <1>1, <1>3 DEF RecordsOn
<1>. QED  BY <1>2, <1>3

\* The pointers of the directory lead where they led, others may have been set.
LinksKept(h, h2) ==
  /\ IndexPages(h) \subseteq IndexPages(h2)
  /\ \A a \in IndexPages(h), i \in Indexes : Ptr(h, a, i) # Null => Ptr(h2, a, i) = Ptr(h, a, i)

\* What allocation for the directory leaves: more pages in use, all of them the directory's,
\* the users and their records, the entries and the pages of the files as they were.
Grown(h, h2) ==
  /\ DOMAIN h2 = VolumeFields /\ h2.users = h.users /\ h2.objects = h.objects
  /\ h.used \subseteq h2.used /\ h2.used \subseteq h.used \union DirPages(h2)
  /\ h2.used \subseteq h.used \union Window
  /\ DirPages(h) \subseteq DirPages(h2)
  /\ \A q \in FilePages(h) : h2.mem[q] = h.mem[q]
  /\ SameRecords(h, h2) /\ LinksKept(h, h2)

\* Take marks and zeroes a page that was free.
LEMMA Taken ==
  ASSUME NEW h, DOMAIN h = VolumeFields, DOMAIN h.mem = Pages, NEW t, t = Take(h)
  PROVE  \/ t.page = Null /\ t.h = h /\ FreePages(h.used) = {}
         \/ /\ t.page \in Window \ h.used /\ t.page \in Pages /\ t.page # Null
            /\ DOMAIN t.h = VolumeFields /\ t.h.used = h.used \union {t.page}
            /\ t.h.users = h.users /\ t.h.objects = h.objects /\ t.h.root = h.root
            /\ DOMAIN t.h.mem = Pages /\ t.h.mem[t.page] = Blank
            /\ \A q \in Pages : q # t.page => t.h.mem[q] = h.mem[q]
<1>1. CASE FreePages(h.used) = {}
  BY <1>1 DEF Take, Failed
<1>2. CASE FreePages(h.used) # {}
  <2>. DEFINE p == FindFree(h.used)
              k == [h EXCEPT !.used = @ \union {p}, !.mem[p] = Blank]
  <2>1. p \in FreePages(h.used)
    BY <1>2, FindFreeFound
  <2>2. p \in Window \ h.used /\ p \in Pages /\ p # Null
    BY <2>1, WindowType DEF FreePages, Null
  <2>3. t.h = k /\ t.page = p
    BY <1>2 DEF Take
  <2>. HIDE DEF p
  <2>4. /\ DOMAIN k = VolumeFields /\ k.used = h.used \union {p}
        /\ k.users = h.users /\ k.objects = h.objects /\ k.root = h.root
        /\ DOMAIN k.mem = Pages /\ k.mem[p] = Blank
        /\ \A q \in Pages : q # p => k.mem[q] = h.mem[q]
    BY <2>2 DEF VolumeFields
  <2>. QED  BY <2>2, <2>3, <2>4
<1>. QED  BY <1>1, <1>2

\* A pointer of a page assigned.
LEMMA PointerSet ==
  ASSUME NEW h, DOMAIN h = VolumeFields, IsMem(h.mem), NEW index \in Pages, NEW i \in Indexes,
         NEW p \in Pages, NEW h2, h2 = SetPtr(h, index, i, p)
  PROVE  /\ SameButMem(h, h2) /\ IsMem(h2.mem)
         /\ \A q \in Pages :
              /\ q # index => h2.mem[q] = h.mem[q]
              /\ h2.mem[q].items = h.mem[q].items
              /\ \A k \in Indexes : h2.mem[q].ptrs[k] = IF q = index /\ k = i THEN p ELSE h.mem[q].ptrs[k]
<1>1. /\ DOMAIN h.mem = Pages /\ DOMAIN h.mem[index] = PageFields /\ h.mem[index].ptrs \in [Indexes -> Pages]
  BY DEF IsMem
<1>. DEFINE c == [h.mem[index] EXCEPT !.ptrs = [@ EXCEPT ![i] = p]]
<1>2. h2 = Assigned(h, index, c)
  BY <1>1 DEF SetPtr, VolumeFields, PageFields, Assigned
<1>3. /\ DOMAIN c = PageFields /\ c.items = h.mem[index].items /\ c.ptrs \in [Indexes -> Pages]
      /\ \A k \in Indexes : c.ptrs[k] = IF k = i THEN p ELSE h.mem[index].ptrs[k]
  BY <1>1 DEF PageFields
<1>. HIDE DEF c
<1>4. /\ SameButMem(h, h2) /\ DOMAIN h2.mem = Pages /\ h2.mem[index] = c
      /\ \A q \in Pages : q # index => h2.mem[q] = h.mem[q]
  BY <1>1, <1>2, PageAssigned
<1>5. IsMem(h2.mem)
  BY <1>3, <1>4 DEF IsMem
<1>. QED  BY <1>3, <1>4, <1>5

\* A place of an index page gets a page when it has none: everything stays apart and mirrored.
LEMMA LinkedKeeps ==
  ASSUME NEW h, Apart(h), NEW G, NEW U, MirroredBut(h, G, U),
         NEW index \in IndexPages(h), NEW i \in Indexes, index = UserIndex => i \in U,
         NEW r, r = LinkedAt(h, index, i)
  PROVE  /\ Apart(r.h) /\ MirroredBut(r.h, G, U) /\ Grown(h, r.h)
         /\ r.h.root = h.root /\ IndexPages(h) \subseteq IndexPages(r.h)
         /\ \A a \in IndexPages(h), k \in Indexes : a # index => Ptr(r.h, a, k) = Ptr(h, a, k)
         /\ r.page # Null => Ptr(r.h, index, i) = r.page
<1>0. DOMAIN h = VolumeFields /\ IsMem(h.mem) /\ DOMAIN h.mem = Pages /\ WellFormed(h)
  BY DEF Apart, WellFormed, IsMem
<1>1. CASE Ptr(h, index, i) # Null
  <2>1. r.h = h /\ r.page = Ptr(h, index, i)
    BY <1>1 DEF LinkedAt
  <2>. QED  BY <1>0, <2>1 DEF Grown, SameRecords, LinksKept
<1>2. CASE Ptr(h, index, i) = Null /\ Take(h).page = Null
  <2>1. r = Take(h)
    BY <1>2 DEF LinkedAt
  <2>2. r.h = h /\ r.page = Null
    BY <1>0, <1>2, <2>1, Taken
  <2>. QED  BY <1>0, <2>2 DEF Grown, SameRecords, LinksKept
<1>3. CASE Ptr(h, index, i) = Null /\ Take(h).page # Null
  <2>. DEFINE t == Take(h)
              p == t.page
              h1 == t.h
              h2 == SetPtr(h1, index, i, p)
  <2>1. /\ p \in Window \ h.used /\ p \in Pages /\ p # Null
        /\ DOMAIN h1 = VolumeFields /\ h1.used = h.used \union {p}
        /\ h1.users = h.users /\ h1.objects = h.objects /\ h1.root = h.root
        /\ DOMAIN h1.mem = Pages /\ h1.mem[p] = Blank
        /\ \A q \in Pages : q # p => h1.mem[q] = h.mem[q]
    BY <1>0, <1>3, Taken
  <2>2. r.h = h2 /\ r.page = p
    <3>1. r = [t EXCEPT !.h = h2]
      BY <1>3 DEF LinkedAt
    <3>2. t = [h |-> h1, page |-> p]
      BY DEF Take, Failed
    <3>. HIDE DEF h1, h2, t, p
    <3>. QED  BY <3>1, <3>2
  <2>. HIDE DEF t, p, h1
  <2>3. index \in Pages /\ index # p
    BY <2>1, InUse DEF Apart, WellFormed
  <2>4. IsMem(h1.mem)
    BY <1>0, <2>1, PageContent DEF IsMem
  <2>5. /\ SameButMem(h1, h2) /\ IsMem(h2.mem)
        /\ \A q \in Pages :
             /\ q # index => h2.mem[q] = h1.mem[q]
             /\ h2.mem[q].items = h1.mem[q].items
             /\ \A k \in Indexes : h2.mem[q].ptrs[k] = IF q = index /\ k = i THEN p ELSE h1.mem[q].ptrs[k]
    <3>. HIDE DEF h2
    <3>1. h2 = SetPtr(h1, index, i, p)
      BY DEF h2
    <3>. QED  BY <2>1, <2>3, <2>4, <3>1, PointerSet
  <2>. HIDE DEF h2
  <2>6. WellFormed(h2)
    <3>1. h2.used \subseteq Pages
      BY <1>0, <2>1, <2>5 DEF SameButMem, WellFormed
    <3>2. \A o \in h2.objects : IsEntry(h2, o)
      BY <1>0, <2>1, <2>5 DEF SameButMem, WellFormed, IsEntry
    <3>. QED  BY <1>0, <2>1, <2>5, <3>1, <3>2 DEF SameButMem, WellFormed
  <2>7. /\ h2.used = h.used \union {p} /\ h2.users = h.users /\ h2.objects = h.objects /\ h2.root = h.root
        /\ h2.mem[p] = Blank
        /\ \A q \in Pages : q # p =>
             /\ h2.mem[q].items = h.mem[q].items
             /\ \A k \in Indexes : h2.mem[q].ptrs[k] = IF q = index /\ k = i THEN p ELSE h.mem[q].ptrs[k]
        /\ \A q \in Pages : q # p /\ q # index => h2.mem[q] = h.mem[q]
    BY <2>1, <2>3, <2>5 DEF SameButMem
  <2>8. /\ Apart(h2) /\ MirroredBut(h2, G, U)
        /\ DirPages(h2) = DirPages(h) \union {p}
        /\ IndexPages(h) \subseteq IndexPages(h2)
        /\ \A a \in IndexPages(h), k \in Indexes :
             Ptr(h2, a, k) = IF a = index /\ k = i THEN p ELSE Ptr(h, a, k)
    <3>1. \A q \in Pages : q # p /\ q # index => h2.mem[q].ptrs = h.mem[q].ptrs
      BY <2>7
    <3>2. Ptr(h, index, i) = Null
      BY <1>3
    <3>. QED  BY <2>1, <2>6, <2>7, <3>1, <3>2, FreshLink
  <2>9. \A q \in FilePages(h) : h2.mem[q] = h.mem[q]
    <3>1. index \notin FilePages(h)
      <4>1. index \in DirPages(h) \union RootPages
        BY <1>0, IndexIsDir DEF WellFormed
      <4>2. (DirPages(h) \union RootPages) \intersect FilePages(h) = {}
        BY DEF Apart, FilesApart, FileApart, FilePages
      <4>. QED  BY <4>1, <4>2
    <3>2. FilePages(h) \subseteq Pages /\ p \notin FilePages(h)
      BY <1>0, <2>1, InUse DEF WellFormed
    <3>. QED  BY <2>7, <3>1, <3>2
  <2>10. SameRecords(h, h2)
    <3>. SUFFICES ASSUME NEW k \in Indexes
                  PROVE  RecordsOn(h2, k) = RecordsOn(h, k)
      BY DEF SameRecords
    <3>1. UserIndex \in IndexPages(h)
      BY DEF IndexPages
    <3>2. CASE Ptr(h2, UserIndex, k) # Ptr(h, UserIndex, k)
      <4>1. Ptr(h2, UserIndex, k) = p /\ Ptr(h, UserIndex, k) = Null
        BY <1>3, <2>8, <3>1, <3>2
      <4>. QED  BY <2>7, <4>1, PageContent DEF RecordsOn
    <3>3. CASE Ptr(h2, UserIndex, k) = Ptr(h, UserIndex, k) /\ Ptr(h, UserIndex, k) # Null
      <4>1. Ptr(h, UserIndex, k) \in Pages /\ Ptr(h, UserIndex, k) # p
        BY <2>1, <3>3, UserPage, InUse
      <4>. QED  BY <2>7, <3>3, <4>1 DEF RecordsOn
    <3>4. CASE Ptr(h2, UserIndex, k) = Ptr(h, UserIndex, k) /\ Ptr(h, UserIndex, k) = Null
      BY <3>4 DEF RecordsOn
    <3>. QED  BY <3>2, <3>3, <3>4
  <2>11. LinksKept(h, h2)
    BY <1>3, <2>8 DEF LinksKept
  <2>12. Grown(h, h2)
    BY <2>1, <2>5, <2>7, <2>8, <2>9, <2>10, <2>11 DEF Grown, SameButMem
  <2>. QED  BY <2>2, <2>7, <2>8, <2>12
<1>. QED  BY <1>1, <1>2, <1>3

\* A page taken for the new root of the directory has the old one as its group 0.
LEMMA FreshRoot ==
  ASSUME NEW h, NEW h2, Apart(h), NEW G, NEW U, MirroredBut(h, G, U), ~h.root.sub,
         NEW p \in Window \ h.used, WellFormed(h2),
         h2.used = h.used \union {p}, h2.users = h.users, h2.objects = h.objects,
         h2.root.sub, h2.root.page = p, MasterOK(h2),
         \A k \in Indexes : h2.mem[p].ptrs[k] = IF k = 0 THEN h.root.page ELSE Null,
         \A q \in Pages : q # p /\ q # MasterPage => h2.mem[q] = h.mem[q]
  PROVE  /\ Apart(h2) /\ MirroredBut(h2, G, U)
         /\ DirPages(h2) = DirPages(h) \union {p}
<1>. DEFINE old == h.root.page
<1>0. /\ p \in Pages /\ p # Null /\ 0 \in Indexes
      /\ p \notin IndexPages(h) /\ p \notin DirPages(h) /\ p \notin RootPages /\ p \notin FilePages(h)
  BY InUse, WindowType, Layout DEF Null
<1>1. /\ IndexPages(h) \subseteq Pages /\ DirPages(h) \subseteq Pages
      /\ MasterPage \notin IndexPages(h) /\ MasterPage \notin DirPages(h) /\ MasterPage \notin FilePages(h)
  BY InUse, FixedLeaf DEF Apart, WellFormed, DirectoryApart, RootPages
<1>2. \A a \in IndexPages(h), k \in Indexes : Ptr(h2, a, k) = Ptr(h, a, k)
  BY <1>0, <1>1 DEF Ptr
<1>3. \A k \in Indexes : Ptr(h2, p, k) = IF k = 0 THEN old ELSE Null
  BY DEF Ptr
<1>4. old \in DirPages(h) /\ old # Null /\ old # p
  BY <1>0 DEF DirPages, Apart, DirectoryApart, RootPages, Null, MasterPage
<1>5. IndexPages(h) = {old, UserIndex}
  BY DEF IndexPages, GroupPages
<1>6. IndexPages(h2) = IndexPages(h) \union {p}
  <2>1. GroupPages(h2) = {Ptr(h2, p, g) : g \in Indexes} \ {Null}
    BY DEF GroupPages
  <2>2. GroupPages(h2) = {old}
    BY <1>0, <1>3, <1>4, <2>1
  <2>. QED  BY <1>5, <2>2 DEF IndexPages
<1>7. DirPages(h2) = DirPages(h) \union {p}
  <2>. DEFINE linked(k) == {Ptr(k, a, i) : a \in IndexPages(k), i \in Indexes} \ {Null}
  <2>1. linked(h2) \subseteq linked(h) \union {old}
    BY <1>2, <1>3, <1>6
  <2>2. linked(h) \subseteq linked(h2)
    BY <1>2, <1>6
  <2>3. old \in linked(h2)
    BY <1>0, <1>3, <1>4, <1>6
  <2>4. DirPages(h) = {old} \union linked(h) /\ DirPages(h2) = {p} \union linked(h2)
    BY DEF DirPages
  <2>. HIDE DEF linked, old
  <2>. QED  BY <2>1, <2>2, <2>3, <2>4
<1>8. DirectoryApart(h2)
  <2>1. /\ old \in Pages /\ DirPages(h) \intersect RootPages = {}
        /\ \A a \in IndexPages(h), k \in Indexes : Ptr(h, a, k) # old
        /\ DirPages(h) \union RootPages \subseteq h.used
    BY DEF Apart, DirectoryApart
  <2>2. \A a, b \in IndexPages(h), k, l \in Indexes :
          Ptr(h, a, k) # Null /\ Ptr(h, a, k) = Ptr(h, b, l) => a = b /\ k = l
    BY DEF Apart, DirectoryApart
  <2>3. \A a \in IndexPages(h), k \in Indexes : Ptr(h, a, k) # p
    BY <1>0 DEF DirPages
  <2>. HIDE DEF old
  <2>4. \A a \in IndexPages(h2), k \in Indexes : Ptr(h2, a, k) # p
    BY <1>0, <1>2, <1>3, <1>4, <1>6, <2>3
  <2>5. \A a, b \in IndexPages(h2), k, l \in Indexes :
          Ptr(h2, a, k) # Null /\ Ptr(h2, a, k) = Ptr(h2, b, l) => a = b /\ k = l
    <3>. SUFFICES ASSUME NEW a \in IndexPages(h2), NEW b \in IndexPages(h2), NEW k \in Indexes, NEW l \in Indexes,
                         Ptr(h2, a, k) # Null, Ptr(h2, a, k) = Ptr(h2, b, l)
                  PROVE  a = b /\ k = l
      OBVIOUS
    <3>1. CASE a = p /\ b = p
      BY <1>3, <3>1
    <3>2. CASE a \in IndexPages(h) /\ b \in IndexPages(h)
      BY <1>2, <2>2, <3>2
    <3>3. CASE a = p /\ b \in IndexPages(h)
      BY <1>2, <1>3, <2>1, <3>3
    <3>4. CASE a \in IndexPages(h) /\ b = p
      BY <1>2, <1>3, <2>1, <3>4
    <3>. QED  BY <1>6, <3>1, <3>2, <3>3, <3>4
  <2>. QED  BY <1>0, <1>7, <2>1, <2>4, <2>5 DEF DirectoryApart
<1>9. FilesApart(h2)
  <2>1. SamePtrs(h.mem, h2.mem, FilePages(h))
    BY <1>0, <1>1, InUse DEF SamePtrs, Apart, WellFormed
  <2>. QED  BY <1>0, <1>7, <2>1, FilesUntouched
<1>10. Apart(h2)
  BY <1>8, <1>9 DEF Apart, SlotsApart
<1>11. \A g, j \in Indexes : DirAt(h2, g, j) = DirAt(h, g, j)
  <2>. SUFFICES ASSUME NEW g \in Indexes, NEW j \in Indexes
                PROVE  DirAt(h2, g, j) = DirAt(h, g, j)
    OBVIOUS
  <2>1. DirAt(h2, g, j) = LET group == Ptr(h2, p, g) IN IF group = Null THEN Null ELSE Ptr(h2, group, j)
    BY DEF DirAt
  <2>2. DirAt(h, g, j) = LET group == IF g = 0 THEN old ELSE Null IN IF group = Null THEN Null ELSE Ptr(h, group, j)
    BY DEF DirAt
  <2>3. Ptr(h2, old, j) = Ptr(h, old, j)
    BY <1>2, <1>5
  <2>. QED  BY <1>3, <2>1, <2>2, <2>3
<1>12. \A o \in h.objects : HasDirPage(h, o) /\ o.slot \in Slots
  BY DEF MirroredBut, Apart, WellFormed, IsEntry
<1>13. \A o \in h.objects : HasDirPage(h2, o)
  BY <1>11, <1>12, SlotParts DEF HasDirPage
<1>14. ASSUME NEW g \in Indexes, NEW j \in Indexes, <<g, j>> \notin G
       PROVE  EntryPageOK(h2, g, j)
  <2>. SUFFICES ASSUME DirAt(h, g, j) # Null
                PROVE  h2.mem[DirAt(h, g, j)].items = {OnDisk(o) : o \in {o \in h.objects : At(o, g, j)}}
    BY <1>11 DEF EntryPageOK
  <2>1. DirAt(h, g, j) \in Pages /\ DirAt(h, g, j) # p /\ DirAt(h, g, j) # MasterPage
    BY <1>0, <1>1, EntryPage
  <2>2. EntryPageOK(h, g, j)
    BY <1>14 DEF MirroredBut
  <2>. QED  BY <2>1, <2>2 DEF EntryPageOK
<1>15. ASSUME NEW j \in Indexes, j \notin U
       PROVE  UserPageOK(h2, j)
  <2>1. Ptr(h2, UserIndex, j) = Ptr(h, UserIndex, j)
    BY <1>2, <1>5
  <2>2. UserPageOK(h, j)
    BY <1>15 DEF MirroredBut
  <2>3. Ptr(h, UserIndex, j) # Null =>
          h2.mem[Ptr(h, UserIndex, j)] = h.mem[Ptr(h, UserIndex, j)]
    BY <1>0, <1>1, UserPage
  <2>. QED  BY <2>1, <2>2, <2>3 DEF UserPageOK, IsRecord
<1>16. h2.mem[BitPage].items \subseteq Pages
  <2>1. BitPage \in Pages /\ p # BitPage /\ BitPage # MasterPage
    BY <1>0, Layout DEF RootPages, Null
  <2>. QED  BY <2>1 DEF MirroredBut
<1>. QED  BY <1>7, <1>10, <1>13, <1>14, <1>15, <1>16 DEF MirroredBut

\* The one-time conversion keeps everything apart and mirrored.
LEMMA WrappedKeeps ==
  ASSUME NEW h, Apart(h), NEW G, NEW U, MirroredBut(h, G, U), ~h.root.sub, NEW r, r = Wrapped(h)
  PROVE  /\ Apart(r.h) /\ MirroredBut(r.h, G, U) /\ Grown(h, r.h)
         /\ r.page # Null => r.h.root.sub /\ r.h.root.page = r.page
<1>0. DOMAIN h = VolumeFields /\ IsMem(h.mem) /\ DOMAIN h.mem = Pages /\ WellFormed(h)
  BY DEF Apart, WellFormed, IsMem
<1>1. CASE Take(h).page = Null
  <2>1. r = Take(h)
    BY <1>1 DEF Wrapped
  <2>2. r.h = h /\ r.page = Null
    BY <1>0, <1>1, <2>1, Taken
  <2>. QED  BY <1>0, <2>2 DEF Grown, SameRecords, LinksKept
<1>2. CASE Take(h).page # Null
  <2>. DEFINE t == Take(h)
              p == t.page
              h1 == t.h
              h2 == SetPtr(h1, p, 0, h.root.page)
              h3 == [h2 EXCEPT !.root = [sub |-> TRUE, page |-> p]]
              S  == {MasterRecord(h3)}
              h4 == Put(h3, MasterPage, S)
  <2>1. /\ p \in Window \ h.used /\ p \in Pages /\ p # Null
        /\ DOMAIN h1 = VolumeFields /\ h1.used = h.used \union {p}
        /\ h1.users = h.users /\ h1.objects = h.objects /\ h1.root = h.root
        /\ DOMAIN h1.mem = Pages /\ h1.mem[p] = Blank
        /\ \A q \in Pages : q # p => h1.mem[q] = h.mem[q]
    BY <1>0, <1>2, Taken
  <2>2. r.h = h4 /\ r.page = p
    <3>1. r = [t EXCEPT !.h = h4]
      BY <1>2 DEF Wrapped, PersistMaster, Put
    <3>2. t = [h |-> h1, page |-> p]
      BY DEF Take, Failed
    <3>. HIDE DEF h1, h2, h3, h4, t, p
    <3>. QED  BY <3>1, <3>2
  <2>. HIDE DEF t, p, h1
  <2>3. IsMem(h1.mem)
    BY <1>0, <2>1, PageContent DEF IsMem
  <2>4. h.root.page \in Pages /\ 0 \in Indexes
    BY Layout DEF Apart, DirectoryApart
  <2>5. /\ SameButMem(h1, h2) /\ IsMem(h2.mem)
        /\ \A q \in Pages :
             /\ q # p => h2.mem[q] = h1.mem[q]
             /\ h2.mem[q].items = h1.mem[q].items
             /\ \A k \in Indexes : h2.mem[q].ptrs[k] = IF q = p /\ k = 0 THEN h.root.page ELSE h1.mem[q].ptrs[k]
    <3>. HIDE DEF h2
    <3>1. h2 = SetPtr(h1, p, 0, h.root.page)
      BY DEF h2
    <3>. QED  BY <2>1, <2>3, <2>4, <3>1, PointerSet
  <2>. HIDE DEF h2
  <2>6. /\ DOMAIN h3 = VolumeFields /\ h3.used = h.used \union {p}
        /\ h3.users = h.users /\ h3.objects = h.objects /\ h3.mem = h2.mem
        /\ h3.root = [sub |-> TRUE, page |-> p]
    BY <2>1, <2>5 DEF SameButMem, VolumeFields
  <2>7. S # {} /\ \A m \in S : m.root = h3.root
    BY DEF MasterRecord
  <2>. HIDE DEF h3, S
  <2>8. MasterPage \in Pages /\ MasterPage # p
    BY <2>1, Layout DEF Null
  <2>9. /\ SameButMem(h3, h4) /\ DOMAIN h4.mem = Pages /\ h4.mem[MasterPage] = Holding(S)
        /\ \A q \in Pages : q # MasterPage => h4.mem[q] = h3.mem[q]
    <3>1. h4 = Assigned(h3, MasterPage, Holding(S))
      BY DEF Put, Assigned
    <3>2. DOMAIN h3.mem = Pages
      BY <2>5, <2>6 DEF IsMem
    <3>. HIDE DEF h4
    <3>. QED  BY <2>6, <2>8, <3>1, <3>2, PageAssigned
  <2>. HIDE DEF h4
  <2>10. /\ h4.used = h.used \union {p} /\ h4.users = h.users /\ h4.objects = h.objects
         /\ DOMAIN h4 = VolumeFields /\ h4.root = [sub |-> TRUE, page |-> p]
         /\ h4.root.sub = TRUE /\ h4.root.page = p /\ DOMAIN h4.root = {"sub", "page"}
    BY <2>6, <2>9 DEF SameButMem
  <2>11. /\ \A q \in Pages : q # p /\ q # MasterPage => h4.mem[q] = h.mem[q]
         /\ \A k \in Indexes : h4.mem[p].ptrs[k] = IF k = 0 THEN h.root.page ELSE Null
    <3>1. h4.mem[p] = h2.mem[p]
      BY <2>1, <2>6, <2>8, <2>9
    <3>2. \A k \in Indexes : h1.mem[p].ptrs[k] = Null
      BY <2>1, PageContent
    <3>. QED  BY <2>1, <2>5, <2>6, <2>9, <3>1, <3>2
  <2>12. MasterOK(h4)
    <3>1. h4.mem[MasterPage].items = S
      BY <2>9, PageContent
    <3>2. h4.root = h3.root
      BY <2>9 DEF SameButMem
    <3>. QED  BY <2>7, <3>1, <3>2 DEF MasterOK
  <2>13. WellFormed(h4)
    <3>1. IsMem(h4.mem)
      <4>1. /\ DOMAIN h4.mem[MasterPage] = PageFields
            /\ h4.mem[MasterPage].ptrs \in [Indexes -> Pages]
        BY <2>9, PageContent
      <4>2. \A q \in Pages : q # MasterPage => h4.mem[q] = h2.mem[q]
        BY <2>6, <2>9
      <4>3. DOMAIN h4.mem = Pages
        BY <2>9
      <4>. QED  BY <2>5, <4>1, <4>2, <4>3 DEF IsMem
    <3>2. h4.used \subseteq Pages
      BY <1>0, <2>1, <2>10 DEF WellFormed
    <3>3. \A o \in h4.objects : IsEntry(h4, o)
      BY <1>0, <2>10 DEF WellFormed, IsEntry
    <3>. QED  BY <1>0, <2>10, <3>1, <3>2, <3>3 DEF WellFormed
  <2>14. Apart(h4) /\ MirroredBut(h4, G, U) /\ DirPages(h4) = DirPages(h) \union {p}
    <3>1. Apart(h) /\ MirroredBut(h, G, U) /\ ~h.root.sub
      OBVIOUS
    <3>2. p \in Window \ h.used
      BY <2>1
    <3>3. /\ h4.used = h.used \union {p} /\ h4.users = h.users /\ h4.objects = h.objects
          /\ h4.root.sub /\ h4.root.page = p
      BY <2>10
    <3>. QED  BY ONLY <2>11, <2>12, <2>13, <3>1, <3>2, <3>3, FreshRoot, SMTT(40)
  <2>15. \A q \in FilePages(h) : h4.mem[q] = h.mem[q]
    BY <1>0, <2>1, <2>11, InUse, FixedLeaf DEF WellFormed
  <2>16. SameRecords(h, h4)
    <3>1. UserIndex \in Pages /\ UserIndex # p /\ UserIndex # MasterPage
      BY <2>1, InUse, Layout DEF RootPages
    <3>2. SamePtrs(h.mem, h4.mem, {UserIndex})
      BY <2>11, <3>1 DEF SamePtrs
    <3>3. ASSUME NEW i \in Indexes, Ptr(h, UserIndex, i) # Null
          PROVE  h4.mem[Ptr(h, UserIndex, i)].items = h.mem[Ptr(h, UserIndex, i)].items
      <4>. DEFINE q == Ptr(h, UserIndex, i)
      <4>1. q \in Pages /\ q # p /\ q # MasterPage
        BY <2>1, <3>3, UserPage, InUse DEF RootPages
      <4>. HIDE DEF q
      <4>2. h4.mem[q].items = h.mem[q].items
        BY <2>11, <4>1
      <4>. QED  BY <4>2 DEF q
    <3>. QED  BY <3>2, <3>3, RecordsKept
  <2>17. LinksKept(h, h4)
    <3>1. IndexPages(h) = {h.root.page, UserIndex}
      BY DEF IndexPages, GroupPages
    <3>2. Ptr(h4, p, 0) = h.root.page /\ h.root.page # Null
      BY <2>4, <2>11, Layout DEF Ptr, Apart, DirectoryApart, DirPages
    <3>3. IndexPages(h) \subseteq IndexPages(h4)
      BY <2>4, <2>10, <3>1, <3>2 DEF IndexPages, GroupPages
    <3>4. \A a \in IndexPages(h) : a \in Pages /\ a # p /\ a # MasterPage
      BY <2>1, <2>4, <3>1, InUse, Layout DEF Apart, DirectoryApart, DirPages, RootPages
    <3>. QED  BY <2>11, <3>3, <3>4 DEF LinksKept, Ptr
  <2>18. Grown(h, h4)
    BY <2>1, <2>10, <2>14, <2>15, <2>16, <2>17 DEF Grown
  <2>. QED  BY <2>2, <2>10, <2>14, <2>18
<1>. QED  BY <1>1, <1>2

\* Growing twice is growing.
LEMMA GrownTwice ==
  ASSUME NEW h, NEW h2, NEW h3, Apart(h), Grown(h, h2), Grown(h2, h3)
  PROVE  Grown(h, h3)
<1>1. ASSUME NEW o \in h.objects
      PROVE  PagesOf(h2.mem, o) = PagesOf(h.mem, o)
  <2>1. o.kind \in {"contiguous", "indexed", "subindexed"}
    BY DEF Apart, WellFormed, IsEntry
  <2>2. SamePtrs(h.mem, h2.mem, IndexOf(h.mem, o))
    BY DEF SamePtrs, Grown, FilePages, IndexOf, PagesOf
  <2>. QED  BY <2>1, <2>2, SameRefs
<1>2. FilePages(h2) = FilePages(h)
  BY <1>1 DEF FilePages, Grown
<1>3. \A q \in FilePages(h) : h3.mem[q] = h.mem[q]
  BY <1>2 DEF Grown
<1>4. LinksKept(h, h3)
  BY DEF Grown, LinksKept
<1>. QED  BY <1>3, <1>4 DEF Grown, SameRecords

\* ensure_object_dir_page keeps everything apart and mirrored, and the page it returns is the
\* page of the slot.
LEMMA EnsureDirKeeps ==
  ASSUME NEW h, Apart(h), NEW G, NEW U, MirroredBut(h, G, U), NEW s \in Slots,
         NEW r, r = EnsureDir(h, s)
  PROVE  /\ Apart(r.h) /\ MirroredBut(r.h, G, U) /\ Grown(h, r.h)
         /\ r.page # Null => DirAt(r.h, GroupOf(s), Inner(s)) = r.page
<1>. DEFINE g == GroupOf(s)
            i == Inner(s)
            root  == IF ~h.root.sub /\ GroupOf(s) > 0 THEN Wrapped(h) ELSE [h |-> h, page |-> h.root.page]
            group == IF root.page = Null \/ ~root.h.root.sub THEN root ELSE LinkedAt(root.h, root.page, g)
<1>0. g \in Indexes /\ i \in Indexes /\ g \in Nat
  BY SlotParts, Layout
<1>1. r = IF group.page = Null THEN group ELSE LinkedAt(group.h, group.page, i)
  BY DEF EnsureDir
<1>2. /\ Apart(root.h) /\ MirroredBut(root.h, G, U) /\ Grown(h, root.h)
      /\ root.page # Null => root.h.root.page = root.page /\ (root.h.root.sub \/ g = 0)
  <2>1. CASE ~h.root.sub /\ g > 0
    <3>1. root = Wrapped(h)
      BY <2>1
    <3>. HIDE DEF root
    <3>. QED  BY <2>1, <3>1, WrappedKeeps
  <2>2. CASE ~(~h.root.sub /\ g > 0)
    <3>1. root.h = h /\ root.page = h.root.page
      BY <2>2
    <3>2. Grown(h, h)
      BY DEF Grown, Apart, WellFormed, SameRecords, LinksKept
    <3>. QED  BY <1>0, <2>2, <3>1, <3>2
  <2>. QED  BY <2>1, <2>2
<1>. HIDE DEF root
<1>3. \A k : Apart(k) => /\ UserIndex \notin GroupPages(k) /\ UserIndex # k.root.page
                         /\ k.root.page \in IndexPages(k)
  <2>. SUFFICES ASSUME NEW k, Apart(k)
                PROVE  /\ UserIndex \notin GroupPages(k) /\ UserIndex # k.root.page
                       /\ k.root.page \in IndexPages(k)
    OBVIOUS
  <2>1. GroupPages(k) \subseteq DirPages(k) /\ k.root.page \in DirPages(k) /\ k.root.page \in IndexPages(k)
    BY DEF GroupPages, DirPages, IndexPages
  <2>2. DirPages(k) \intersect RootPages = {} /\ UserIndex \in RootPages
    BY DEF Apart, DirectoryApart, RootPages
  <2>. QED  BY <2>1, <2>2
<1>4. /\ Apart(group.h) /\ MirroredBut(group.h, G, U) /\ Grown(h, group.h)
      /\ group.page # Null => group.page = GroupAt(group.h, g) /\ group.page \in GroupPages(group.h)
  <2>1. CASE root.page = Null
    BY <1>2, <2>1
  <2>2. CASE root.page # Null /\ ~root.h.root.sub
    <3>1. group = root
      BY <2>2
    <3>. HIDE DEF group
    <3>. QED  BY <1>2, <2>2, <3>1 DEF GroupAt, GroupPages
  <2>3. CASE root.page # Null /\ root.h.root.sub
    <3>1. group = LinkedAt(root.h, root.page, g)
      BY <2>3
    <3>. HIDE DEF group
    <3>2. root.page \in IndexPages(root.h) /\ root.page # UserIndex
      BY <1>2, <1>3, <2>3
    <3>3. /\ Apart(group.h) /\ MirroredBut(group.h, G, U) /\ Grown(root.h, group.h)
          /\ group.h.root = root.h.root
          /\ group.page # Null => Ptr(group.h, root.page, g) = group.page
      BY <1>0, <1>2, <3>1, <3>2, LinkedKeeps
    <3>4. Grown(h, group.h)
      BY <1>2, <3>3, GrownTwice
    <3>. QED  BY <1>0, <1>2, <2>3, <3>3, <3>4 DEF GroupAt, GroupPages
  <2>. QED  BY <2>1, <2>2, <2>3
<1>. HIDE DEF group
<1>5. CASE group.page = Null
  BY <1>1, <1>4, <1>5
<1>6. CASE group.page # Null
  <2>1. r = LinkedAt(group.h, group.page, i)
    BY <1>1, <1>6
  <2>2. group.page \in IndexPages(group.h) /\ group.page # UserIndex
    BY <1>3, <1>4, <1>6 DEF IndexPages
  <2>3. /\ Apart(r.h) /\ MirroredBut(r.h, G, U) /\ Grown(group.h, r.h)
        /\ r.h.root = group.h.root
        /\ \A a \in IndexPages(group.h), k \in Indexes : a # group.page => Ptr(r.h, a, k) = Ptr(group.h, a, k)
        /\ r.page # Null => Ptr(r.h, group.page, i) = r.page
    BY <1>0, <1>4, <2>1, <2>2, LinkedKeeps
  <2>4. Grown(h, r.h)
    BY <1>4, <2>3, GrownTwice
  <2>5. GroupAt(r.h, g) = group.page
    <3>1. CASE group.h.root.sub
      <4>1. group.page = Ptr(group.h, group.h.root.page, g)
        BY <1>4, <1>6, <3>1 DEF GroupAt
      <4>2. group.h.root.page # group.page /\ group.h.root.page \in IndexPages(group.h)
        BY <1>0, <1>4, <4>1 DEF Apart, DirectoryApart, IndexPages
      <4>. QED  BY <1>0, <2>3, <3>1, <4>1, <4>2 DEF GroupAt
    <3>2. CASE ~group.h.root.sub
      BY <1>4, <1>6, <2>3, <3>2 DEF GroupAt
    <3>. QED  BY <3>1, <3>2
  <2>6. r.page # Null => DirAt(r.h, g, i) = r.page
    BY <1>6, <2>3, <2>5 DEF DirAt, GroupAt
  <2>. QED  BY <2>3, <2>4, <2>6
<1>. QED  BY <1>5, <1>6

-----------------------------------------------------------------------------
(***************************************************************************)
(* Allocating a file: every role of its tree gets a page of its own.       *)
(***************************************************************************)
\* The roles of a tree: the top, the index pages of its groups, and the data pages, each of
\* an index page that is there.
LEMMA RolesShape ==
  ASSUME NEW n \in Nat \ {0}, n <= MaxFilePages, NEW holes
  PROVE  LET R == RolesFor(n, holes) IN
         /\ TopRole \in R
         /\ \A r \in R :
              \/ r = TopRole
              \/ KindFor(n) = "subindexed" /\ \E g \in Indexes : r = GroupRole(g)
              \/ KindFor(n) = "indexed" /\ \E i \in Indexes : r = <<0, i>>
              \/ KindFor(n) = "subindexed" /\ \E g, i \in Indexes : r = <<g, i>> /\ GroupRole(g) \in R
<1>. DEFINE P == PtrsPerPage
            R == RolesFor(n, holes)
            m == n - 1
            top == m \div P
<1>1. P \in Nat \ {0} /\ n \in Nat /\ m \in Nat /\ n = m + 1 /\ n <= P * P
  BY Layout DEF MaxFilePages
<1>. HIDE DEF m
<1>2. top \in Nat /\ top < P
  <2>1. /\ top \in Nat /\ m % P \in 0 .. P - 1 /\ m = P * top + (m % P)
    BY <1>1, DivMod
  <2>. HIDE DEF top
  <2>. QED  BY <1>1, <2>1, Z3
<1>3. ASSUME NEW i \in 0 .. n - 1
      PROVE  i \div P \in 0 .. top /\ i \div P \in Indexes /\ i % P \in Indexes
  <2>0. i \in Nat /\ i <= m
    BY <1>1
  <2>1. /\ i \div P \in Nat /\ i % P \in 0 .. P - 1 /\ i = P * (i \div P) + (i % P)
    BY <1>1, <2>0, DivMod
  <2>2. /\ m % P \in 0 .. P - 1 /\ m = P * top + (m % P)
    BY <1>1, DivMod
  <2>3. i \div P <= top
    <3>. DEFINE q == i \div P
    <3>. HIDE DEF q, top
    <3>1. i <= m /\ q \in Nat /\ i = P * q + (i % P)
      BY <2>0, <2>1 DEF q
    <3>2. P * q < P * (top + 1)
      BY <1>1, <1>2, <2>1, <2>2, <3>1, Z3
    <3>3. q <= top
      BY <1>1, <1>2, <3>1, <3>2, Z3
    <3>. QED  BY <3>3 DEF q
  <2>. QED  BY <1>1, <1>2, <2>1, <2>3 DEF Indexes
<1>. HIDE DEF top
<1>4. TopRole \in R
  BY DEF RolesFor
<1>5. CASE KindFor(n) = "indexed"
  <2>1. n <= P
    BY <1>5 DEF KindFor
  <2>2. R = {TopRole} \union {<<0, i>> : i \in (0 .. n - 1) \ holes}
    BY <1>5 DEF RolesFor, DataRole
  <2>3. 0 .. n - 1 \subseteq Indexes
    BY <1>1, <2>1 DEF Indexes
  <2>. QED  BY <1>4, <1>5, <2>2, <2>3
<1>6. CASE KindFor(n) = "subindexed"
  <2>1. R = {TopRole} \union {GroupRole(g) : g \in 0 .. top}
              \union {<<i \div P, i % P>> : i \in (0 .. n - 1) \ holes}
    BY <1>6 DEF RolesFor, DataRole, top, m
  <2>2. 0 .. top \subseteq Indexes
    BY <1>1, <1>2 DEF Indexes
  <2>3. \A i \in (0 .. n - 1) \ holes : GroupRole(i \div P) \in R
    BY <1>3, <2>1
  <2>. QED  BY <1>3, <1>4, <1>6, <2>1, <2>2, <2>3
<1>. QED  BY <1>5, <1>6 DEF KindFor

\* The roles are finitely many pairs of numbers.
LEMMA RolesFinite ==
  ASSUME NEW n \in Nat \ {0}, n <= MaxFilePages, NEW holes
  PROVE  RolesFor(n, holes) \in SUBSET (Int \X Int) /\ IsFiniteSet(RolesFor(n, holes))
<1>. DEFINE I == -1 .. PtrsPerPage - 1
<1>1. -1 \in I /\ 0 \in I /\ Indexes \subseteq I /\ I \subseteq Int /\ PtrsPerPage - 1 \in Int
  BY Layout DEF Indexes
<1>2. IsFiniteSet(I)
  BY <1>1, FS_Interval
<1>. HIDE DEF I
<1>3. IsFiniteSet(I \X I)
  BY <1>2, FS_Product
<1>4. ASSUME NEW r \in RolesFor(n, holes)
      PROVE  r \in I \X I
  <2>1. \/ r = TopRole
        \/ \E g \in Indexes : r = GroupRole(g)
        \/ \E i \in Indexes : r = <<0, i>>
        \/ \E g, i \in Indexes : r = <<g, i>>
    BY RolesShape
  <2>. QED  BY <1>1, <2>1 DEF TopRole, GroupRole
<1>5. RolesFor(n, holes) \in SUBSET (I \X I)
  BY <1>4
<1>. QED  BY <1>1, <1>3, <1>5, FS_Subset

\* The order of allocation numbers the roles from 1, no two of them alike.
LEMMA RankApart ==
  ASSUME NEW R \in SUBSET (Int \X Int), IsFiniteSet(R)
  PROVE  /\ \A r \in R : Rank(r, R) \in Nat \ {0}
         /\ \A r, s \in R : Rank(r, R) = Rank(s, R) => r = s
<1>. DEFINE under(r) == {q \in R : Before(q, r)}
<1>1. \A r \in R : IsFiniteSet(under(r)) /\ Cardinality(under(r)) \in Nat
  <2>. SUFFICES ASSUME NEW r \in R
                PROVE  IsFiniteSet(under(r)) /\ Cardinality(under(r)) \in Nat
    OBVIOUS
  <2>1. under(r) \in SUBSET R
    OBVIOUS
  <2>2. IsFiniteSet(under(r))
    BY <2>1, FS_Subset
  <2>. QED  BY <2>2, FS_CardinalityType
<1>2. ASSUME NEW r \in R, NEW s \in R, Before(r, s)
      PROVE  Cardinality(under(r)) < Cardinality(under(s))
  <2>0. \A q \in R : q[1] \in Int /\ q[2] \in Int
    OBVIOUS
  <2>1. under(r) \in SUBSET under(s)
    BY <1>2, <2>0 DEF Before
  <2>2. r \in under(s) /\ r \notin under(r)
    BY <1>2, <2>0 DEF Before
  <2>. HIDE DEF under
  <2>3. Cardinality(under(r)) <= Cardinality(under(s))
        /\ (Cardinality(under(s)) = Cardinality(under(r)) => under(s) = under(r))
    BY <1>1, <2>1, FS_Subset
  <2>. QED  BY <1>1, <2>2, <2>3
<1>3. \A r \in R : Rank(r, R) = 1 + Cardinality(under(r))
  BY DEF Rank
<1>. HIDE DEF under
<1>4. \A r, s \in R : r # s => Before(r, s) \/ Before(s, r)
  <2>. SUFFICES ASSUME NEW r \in R, NEW s \in R, r # s
                PROVE  Before(r, s) \/ Before(s, r)
    OBVIOUS
  <2>1. r = <<r[1], r[2]>> /\ s = <<s[1], s[2]>> /\ {r[1], r[2], s[1], s[2]} \subseteq Int
    OBVIOUS
  <2>2. r[1] # s[1] \/ r[2] # s[2]
    BY <2>1
  <2>. QED  BY <2>1, <2>2 DEF Before
<1>. QED  BY <1>1, <1>2, <1>3, <1>4

\* The place given to each role that found one is a free page, no two roles have the same.
LEMMA PlacesApart ==
  ASSUME NEW h, NEW R \in SUBSET (Int \X Int), IsFiniteSet(R)
  PROVE  /\ \A r \in Placed(h, R) : NthFree(h.used, Rank(r, R)) \in FreePages(h.used)
         /\ \A r, s \in Placed(h, R) :
              NthFree(h.used, Rank(r, R)) = NthFree(h.used, Rank(s, R)) => r = s
<1>1. \A r \in R : Rank(r, R) \in Nat \ {0}
  BY RankApart
<1>2. Cardinality(FreePages(h.used)) \in Nat
  BY WindowType, FS_CardinalityType
<1>3. \A r \in Placed(h, R) : r \in R /\ Rank(r, R) \in 1 .. Cardinality(FreePages(h.used))
  BY <1>1, <1>2 DEF Placed
<1>4. \A r \in Placed(h, R) : NthFree(h.used, Rank(r, R)) \in FreePages(h.used)
  BY <1>3, NthFreeFound
<1>5. ASSUME NEW r \in Placed(h, R), NEW s \in Placed(h, R),
             NthFree(h.used, Rank(r, R)) = NthFree(h.used, Rank(s, R))
      PROVE  r = s
  <2>1. Rank(r, R) = Rank(s, R)
    BY <1>3, <1>5, NthFreeDistinct
  <2>. QED  BY <1>3, <2>1, RankApart
<1>. QED  BY <1>4, <1>5

\* The page of an index role points at pages, those of the roles below it.
LEMMA TreePage ==
  ASSUME NEW n, NEW v, NEW at, \A r \in DOMAIN at : at[r] \in Pages, NEW role
  PROVE  /\ DOMAIN TreeContent(n, v, role, at) = PageFields
         /\ TreeContent(n, v, role, at).ptrs \in [Indexes -> Pages]
<1>. DEFINE group == IF role = TopRole THEN 0 ELSE role[1]
            below == IF role = TopRole /\ KindFor(n) = "subindexed"
                       THEN [g \in Indexes |-> GroupRole(g)] ELSE [i \in Indexes |-> <<group, i>>]
            ptrs  == [i \in Indexes |-> IF below[i] \in DOMAIN at THEN at[below[i]] ELSE Null]
            c     == TreeContent(n, v, role, at)
<1>1. c = IF IsData(role) THEN Holding(Item(v, role[1] * PtrsPerPage + role[2]))
          ELSE [Blank EXCEPT !.ptrs = ptrs]
  BY DEF TreeContent
<1>2. ptrs \in [Indexes -> Pages]
  BY Layout
<1>. HIDE DEF ptrs, c
<1>3. CASE IsData(role)
  <2>1. DOMAIN c = PageFields /\ c.ptrs \in [Indexes -> Pages]
    BY <1>1, <1>3, PageContent
  <2>. QED  BY <2>1 DEF c
<1>4. CASE ~IsData(role)
  <2>1. DOMAIN c = PageFields /\ c.ptrs = ptrs
    BY <1>1, <1>4, PageContent DEF PageFields
  <2>. QED  BY <1>2, <2>1 DEF c
<1>. QED  BY <1>3, <1>4

\* The top page of an indexed file.
LEMMA IndexedTop ==
  ASSUME NEW n, NEW v, NEW at, KindFor(n) = "indexed", NEW i \in Indexes
  PROVE  TreeContent(n, v, TopRole, at).ptrs[i] = IF <<0, i>> \in DOMAIN at THEN at[<<0, i>>] ELSE Null
BY PageContent DEF TreeContent, TopRole, IsData, PageFields

\* The top page of a subindexed file.
LEMMA SubindexedTop ==
  ASSUME NEW n, NEW v, NEW at, KindFor(n) = "subindexed", NEW g \in Indexes
  PROVE  TreeContent(n, v, TopRole, at).ptrs[g] = IF GroupRole(g) \in DOMAIN at THEN at[GroupRole(g)] ELSE Null
BY PageContent DEF TreeContent, TopRole, IsData, PageFields

\* The index page of a group.
LEMMA GroupIndex ==
  ASSUME NEW n, NEW v, NEW at, NEW g \in Indexes, NEW i \in Indexes
  PROVE  TreeContent(n, v, GroupRole(g), at).ptrs[i] = IF <<g, i>> \in DOMAIN at THEN at[<<g, i>>] ELSE Null
<1>1. GroupRole(g) # TopRole /\ GroupRole(g)[1] = g /\ ~IsData(GroupRole(g))
  BY Layout DEF GroupRole, TopRole, IsData
<1>2. TreeContent(n, v, GroupRole(g), at)
        = [Blank EXCEPT !.ptrs = [j \in Indexes |-> IF <<g, j>> \in DOMAIN at THEN at[<<g, j>>] ELSE Null]]
  BY <1>1 DEF TreeContent
<1>. QED  BY <1>2, PageContent DEF PageFields

\* What an index page points at.
LEMMA PointedAt ==
  ASSUME NEW mem, NEW p, NEW g, NEW x
  PROVE  x \in Pointed(mem, p, g)
           <=> \E i \in Indexes : mem[p].ptrs[i] # Null /\ x = <<<<g, i>>, mem[p].ptrs[i]>>
BY DEF Pointed

\* The walk of an indexed file meets the pages given to its roles.
LEMMA IndexedRefs ==
  ASSUME NEW mem, NEW o, o.kind = "indexed", NEW D, NEW at, TopRole \in D, o.page = at[TopRole],
         \A r \in D : at[r] # Null,
         \A i \in Indexes : mem[o.page].ptrs[i] = IF <<0, i>> \in D THEN at[<<0, i>>] ELSE Null,
         \A r \in D : r = TopRole \/ \E i \in Indexes : r = <<0, i>>
  PROVE  \A x : x \in Refs(mem, o) <=> \E r \in D : x = <<r, at[r]>>
<1>1. Refs(mem, o) = {<<TopRole, o.page>>} \union Pointed(mem, o.page, 0)
  BY DEF Refs
<1>2. \A x : x \in Pointed(mem, o.page, 0) <=> \E i \in Indexes : <<0, i>> \in D /\ x = <<<<0, i>>, at[<<0, i>>]>>
  <2>1. \A i \in Indexes : /\ mem[o.page].ptrs[i] # Null <=> <<0, i>> \in D
                           /\ <<0, i>> \in D => mem[o.page].ptrs[i] = at[<<0, i>>]
    OBVIOUS
  <2>2. \A x : x \in Pointed(mem, o.page, 0)
          <=> \E i \in Indexes : mem[o.page].ptrs[i] # Null /\ x = <<<<0, i>>, mem[o.page].ptrs[i]>>
    BY ONLY PointedAt
  <2>3. ASSUME NEW x, NEW i \in Indexes, mem[o.page].ptrs[i] # Null, x = <<<<0, i>>, mem[o.page].ptrs[i]>>
        PROVE  <<0, i>> \in D /\ x = <<<<0, i>>, at[<<0, i>>]>>
    BY ONLY <2>1, <2>3
  <2>4. ASSUME NEW x, NEW i \in Indexes, <<0, i>> \in D, x = <<<<0, i>>, at[<<0, i>>]>>
        PROVE  mem[o.page].ptrs[i] # Null /\ x = <<<<0, i>>, mem[o.page].ptrs[i]>>
    BY ONLY <2>1, <2>4
  <2>. QED  BY ONLY <2>2, <2>3, <2>4
<1>3. ASSUME NEW x \in Refs(mem, o)
      PROVE  \E r \in D : x = <<r, at[r]>>
  <2>1. x = <<TopRole, o.page>> \/ x \in Pointed(mem, o.page, 0)
    BY <1>1
  <2>. QED  BY <1>2, <2>1
<1>4. ASSUME NEW r \in D
      PROVE  <<r, at[r]>> \in Refs(mem, o)
  <2>1. CASE r = TopRole
    BY <1>1, <2>1
  <2>2. CASE r # TopRole
    <3>1. PICK i \in Indexes : r = <<0, i>>
      BY <2>2
    <3>2. <<<<0, i>>, at[<<0, i>>]>> \in Pointed(mem, o.page, 0)
      BY <1>2, <3>1
    <3>. QED  BY <1>1, <3>1, <3>2
  <2>. QED  BY <2>1, <2>2
<1>. QED  BY <1>3, <1>4

\* So does the walk of a subindexed file.
LEMMA SubindexedRefs ==
  ASSUME NEW mem, NEW o, o.kind = "subindexed", NEW D, NEW at, TopRole \in D, o.page = at[TopRole],
         \A r \in D : at[r] # Null,
         \A g \in Indexes : mem[o.page].ptrs[g] = IF GroupRole(g) \in D THEN at[GroupRole(g)] ELSE Null,
         \A g \in Indexes : GroupRole(g) \in D =>
           \A i \in Indexes : mem[at[GroupRole(g)]].ptrs[i] = IF <<g, i>> \in D THEN at[<<g, i>>] ELSE Null,
         \A r \in D : \/ r = TopRole \/ \E g \in Indexes : r = GroupRole(g)
                      \/ \E g, i \in Indexes : r = <<g, i>> /\ GroupRole(g) \in D
  PROVE  \A x : x \in Refs(mem, o) <=> \E r \in D : x = <<r, at[r]>>
<1>. DEFINE groups == {<<GroupRole(g), mem[o.page].ptrs[g]>> : g \in {g \in Indexes : mem[o.page].ptrs[g] # Null}}
            below  == UNION {Pointed(mem, r[2], r[1][1]) : r \in groups}
<1>1. Refs(mem, o) = {<<TopRole, o.page>>} \union groups \union below
  BY DEF Refs
<1>2. \A x : x \in groups <=> \E g \in Indexes : GroupRole(g) \in D /\ x = <<GroupRole(g), at[GroupRole(g)]>>
  <2>1. \A g \in Indexes : /\ mem[o.page].ptrs[g] # Null <=> GroupRole(g) \in D
                           /\ GroupRole(g) \in D => mem[o.page].ptrs[g] = at[GroupRole(g)]
    OBVIOUS
  <2>. QED  BY ONLY <2>1
<1>3. \A x : x \in below <=> \E r \in groups : x \in Pointed(mem, r[2], r[1][1])
  OBVIOUS
<1>4. \A g : GroupRole(g)[1] = g
  BY DEF GroupRole
<1>. HIDE DEF groups, below
<1>5. ASSUME NEW x \in Refs(mem, o)
      PROVE  \E r \in D : x = <<r, at[r]>>
  <2>1. CASE x = <<TopRole, o.page>>
    BY <2>1
  <2>2. CASE x \in groups
    BY <1>2, <2>2
  <2>3. CASE x \in below
    <3>1. PICK r \in groups : x \in Pointed(mem, r[2], r[1][1])
      BY <1>3, <2>3
    <3>2. PICK g \in Indexes : GroupRole(g) \in D /\ r = <<GroupRole(g), at[GroupRole(g)]>>
      BY <1>2
    <3>3. x \in Pointed(mem, at[GroupRole(g)], g)
      BY <1>4, <3>1, <3>2
    <3>4. PICK i \in Indexes : /\ mem[at[GroupRole(g)]].ptrs[i] # Null
                               /\ x = <<<<g, i>>, mem[at[GroupRole(g)]].ptrs[i]>>
      BY <3>3, PointedAt
    <3>. QED  BY <3>2, <3>4
  <2>. QED  BY <1>1, <2>1, <2>2, <2>3
<1>6. ASSUME NEW r \in D
      PROVE  <<r, at[r]>> \in Refs(mem, o)
  <2>1. CASE r = TopRole
    BY <1>1, <2>1
  <2>2. ASSUME NEW g \in Indexes, r = GroupRole(g)
        PROVE  <<r, at[r]>> \in Refs(mem, o)
    BY <1>1, <1>2, <2>2
  <2>3. ASSUME NEW g \in Indexes, NEW i \in Indexes, r = <<g, i>>, GroupRole(g) \in D
        PROVE  <<r, at[r]>> \in Refs(mem, o)
    <3>. DEFINE s == <<GroupRole(g), at[GroupRole(g)]>>
    <3>1. s \in groups
      BY <1>2, <2>3
    <3>2. mem[at[GroupRole(g)]].ptrs[i] = at[r] /\ at[r] # Null
      BY <2>3
    <3>3. <<r, at[r]>> \in Pointed(mem, at[GroupRole(g)], g)
      BY <2>3, <3>2, PointedAt
    <3>4. <<r, at[r]>> \in Pointed(mem, s[2], s[1][1])
      BY <1>4, <3>3
    <3>. QED  BY <1>1, <1>3, <3>1, <3>4
  <2>. QED  BY <2>1, <2>2, <2>3
<1>. QED  BY <1>5, <1>6

\* Free pages are taken and written.
Extended(h, g, T) ==
  /\ DOMAIN g = VolumeFields /\ IsMem(g.mem)
  /\ T \subseteq FreePages(h.used) /\ g.used = h.used \union T
  /\ g.users = h.users /\ g.objects = h.objects /\ g.root = h.root
  /\ \A q \in Pages \ T : g.mem[q] = h.mem[q]

\* A file occupies the pages T.
Occupies(mem, o, T) ==
  PagesOf(mem, o) = T /\ \A r, s \in Refs(mem, o) : r[2] = s[2] => r = s

\* Each page of a tree of n pages is the one of its role, and holds what belongs there.
TreeAt(mem, o, n, holes, v, at) ==
  /\ DOMAIN at = RolesFor(n, holes)
  /\ Refs(mem, o) = {<<r, at[r]>> : r \in RolesFor(n, holes)}
  /\ \A r, s \in RolesFor(n, holes) : at[r] = at[s] => r = s
  /\ \A r \in RolesFor(n, holes) : mem[at[r]] = TreeContent(n, v, r, at)

TreeOf(mem, o, n, holes, v) == \E at : TreeAt(mem, o, n, holes, v, at)

\* What allocate_and_write_data makes of h, on pages T: complete when it returns a page.
Built(h, b, T, n, holes, v) ==
  /\ Extended(h, b.h, T)
  /\ b.page # Null => \A o : o.kind = KindFor(n) /\ o.page = b.page =>
                         Occupies(b.h.mem, o, T) /\ TreeOf(b.h.mem, o, n, holes, v)

\* allocate_and_write_data takes free pages only.  When there were enough, the walk of the
\* new file meets each of them once and no other page.
LEMMA BuildShape ==
  ASSUME NEW h, DOMAIN h = VolumeFields, IsMem(h.mem),
         NEW n \in Nat \ {0}, n <= MaxFilePages, NEW holes, NEW v, NEW b, b = Build(h, n, holes, v)
  PROVE  b.page \in Pages /\ \E T : Built(h, b, T, n, holes, v)
<1>. DEFINE R    == RolesFor(n, holes)
            D    == Placed(h, R)
            at   == [r \in D |-> NthFree(h.used, Rank(r, R))]
            T    == {at[r] : r \in D}
            held == [p \in T |-> CHOOSE r \in D : at[r] = p]
            mem  == [p \in Pages |-> IF p \in T THEN TreeContent(n, v, held[p], at) ELSE h.mem[p]]
            h2   == [h EXCEPT !.used = @ \union T, !.mem = mem]
<1>1. b = [h |-> h2, page |-> IF D = R THEN at[TopRole] ELSE Null]
  BY DEF Build, VolumeFields
<1>2. DOMAIN at = D /\ \A r \in D : at[r] \in FreePages(h.used)
  BY RolesFinite, PlacesApart
<1>3. \A r, s \in D : at[r] = at[s] => r = s
  BY RolesFinite, PlacesApart
<1>4. D \subseteq R
  BY DEF Placed
<1>. HIDE DEF R, D, at
<1>5. T \in SUBSET FreePages(h.used) /\ T \subseteq Pages /\ Null \notin T
  BY <1>2, WindowType DEF FreePages, Null
<1>6. \A r \in D : at[r] \in T /\ held[at[r]] = r
  BY <1>3
<1>7. \A r \in D : at[r] \in Pages /\ at[r] # Null
  BY <1>5, <1>6
<1>. HIDE DEF T, held
<1>8. \A r \in D : mem[at[r]] = TreeContent(n, v, r, at)
  BY <1>6, <1>7
<1>0. /\ \A r : /\ DOMAIN TreeContent(n, v, r, at) = PageFields
                /\ TreeContent(n, v, r, at).ptrs \in [Indexes -> Pages]
      /\ KindFor(n) = "indexed" => \A i \in Indexes :
           TreeContent(n, v, TopRole, at).ptrs[i] = IF <<0, i>> \in D THEN at[<<0, i>>] ELSE Null
      /\ KindFor(n) = "subindexed" => \A g \in Indexes :
           TreeContent(n, v, TopRole, at).ptrs[g] = IF GroupRole(g) \in D THEN at[GroupRole(g)] ELSE Null
      /\ \A g, i \in Indexes :
           TreeContent(n, v, GroupRole(g), at).ptrs[i] = IF <<g, i>> \in D THEN at[<<g, i>>] ELSE Null
  <2>1. \A r \in DOMAIN at : at[r] \in Pages
    BY <1>2, <1>7
  <2>. HIDE DEF mem, h2
  <2>2. \A r : /\ DOMAIN TreeContent(n, v, r, at) = PageFields
               /\ TreeContent(n, v, r, at).ptrs \in [Indexes -> Pages]
    BY ONLY <2>1, TreePage
  <2>3. ASSUME KindFor(n) = "indexed", NEW i \in Indexes
        PROVE  TreeContent(n, v, TopRole, at).ptrs[i] = IF <<0, i>> \in DOMAIN at THEN at[<<0, i>>] ELSE Null
    BY ONLY <2>3, IndexedTop
  <2>4. ASSUME KindFor(n) = "subindexed", NEW g \in Indexes
        PROVE  TreeContent(n, v, TopRole, at).ptrs[g]
                 = IF GroupRole(g) \in DOMAIN at THEN at[GroupRole(g)] ELSE Null
    BY ONLY <2>4, SubindexedTop
  <2>5. \A g, i \in Indexes :
          TreeContent(n, v, GroupRole(g), at).ptrs[i] = IF <<g, i>> \in DOMAIN at THEN at[<<g, i>>] ELSE Null
    BY ONLY GroupIndex
  <2>. QED  BY <1>2, <2>2, <2>3, <2>4, <2>5
<1>9. IsMem(mem) /\ \A q \in Pages \ T : mem[q] = h.mem[q]
  <2>1. \A p \in Pages : DOMAIN mem[p] = PageFields /\ mem[p].ptrs \in [Indexes -> Pages]
    BY <1>0 DEF IsMem
  <2>. QED  BY <2>1 DEF IsMem
<1>. HIDE DEF mem
<1>10. /\ DOMAIN h2 = VolumeFields /\ h2.used = h.used \union T
       /\ h2.users = h.users /\ h2.objects = h.objects /\ h2.root = h.root /\ h2.mem = mem
  BY DEF VolumeFields
<1>11. b.h = h2 /\ b.page = IF D = R THEN at[TopRole] ELSE Null
  BY <1>1
<1>. HIDE DEF h2
<1>12. ASSUME b.page # Null, NEW o, o.kind = KindFor(n), o.page = b.page
       PROVE  /\ PagesOf(mem, o) = T
              /\ \A r, s \in Refs(mem, o) : r[2] = s[2] => r = s
              /\ TreeAt(mem, o, n, holes, v, at)
  <2>1. D = R /\ o.page = at[TopRole] /\ TopRole \in D
    BY <1>11, <1>12, RolesShape DEF R
  <2>2. \A r \in D :
              \/ r = TopRole
              \/ KindFor(n) = "subindexed" /\ \E g \in Indexes : r = GroupRole(g)
              \/ KindFor(n) = "indexed" /\ \E i \in Indexes : r = <<0, i>>
              \/ KindFor(n) = "subindexed" /\ \E g, i \in Indexes : r = <<g, i>> /\ GroupRole(g) \in D
    BY <2>1, RolesShape DEF R
  <2>3. \A x : x \in Refs(mem, o) <=> \E r \in D : x = <<r, at[r]>>
    <3>0. \A r \in D : at[r] # Null
      BY <1>7
    <3>1. CASE KindFor(n) = "indexed"
      <4>0. mem[o.page] = TreeContent(n, v, TopRole, at)
        BY <1>8, <2>1
      <4>1. \A i \in Indexes : mem[o.page].ptrs[i] = IF <<0, i>> \in D THEN at[<<0, i>>] ELSE Null
        BY <1>0, <3>1, <4>0
      <4>2. \A r \in D : r = TopRole \/ \E i \in Indexes : r = <<0, i>>
        BY <2>2, <3>1
      <4>. QED  BY <1>12, <2>1, <3>0, <3>1, <4>1, <4>2, IndexedRefs
    <3>2. CASE KindFor(n) = "subindexed"
      <4>0. mem[o.page] = TreeContent(n, v, TopRole, at)
        BY <1>8, <2>1
      <4>1. \A g \in Indexes : mem[o.page].ptrs[g] = IF GroupRole(g) \in D THEN at[GroupRole(g)] ELSE Null
        BY <1>0, <3>2, <4>0
      <4>2. ASSUME NEW g \in Indexes, GroupRole(g) \in D, NEW i \in Indexes
            PROVE  mem[at[GroupRole(g)]].ptrs[i] = IF <<g, i>> \in D THEN at[<<g, i>>] ELSE Null
        <5>1. mem[at[GroupRole(g)]] = TreeContent(n, v, GroupRole(g), at)
          BY <1>8, <4>2
        <5>. QED  BY <1>0, <5>1
      <4>3. \A r \in D : \/ r = TopRole \/ \E g \in Indexes : r = GroupRole(g)
                         \/ \E g, i \in Indexes : r = <<g, i>> /\ GroupRole(g) \in D
        BY <2>2, <3>2
      <4>. QED  BY <1>12, <2>1, <3>0, <3>2, <4>1, <4>2, <4>3, SubindexedRefs
    <3>. QED  BY <3>1, <3>2 DEF KindFor
  <2>4. PagesOf(mem, o) = T
    <3>1. \A p \in PagesOf(mem, o) : p \in T
      BY <2>3 DEF PagesOf, T
    <3>2. ASSUME NEW p \in T
          PROVE  p \in PagesOf(mem, o)
      <4>1. PICK r \in D : p = at[r]
        BY DEF T
      <4>2. <<r, at[r]>> \in Refs(mem, o)
        BY <2>3
      <4>. QED  BY <4>1, <4>2 DEF PagesOf
    <3>. QED  BY <3>1, <3>2
  <2>5. ASSUME NEW x \in Refs(mem, o), NEW y \in Refs(mem, o), x[2] = y[2]
        PROVE  x = y
    <3>1. PICK r \in D : x = <<r, at[r]>>
      BY <2>3
    <3>2. PICK s \in D : y = <<s, at[s]>>
      BY <2>3
    <3>3. r = s
      BY <1>3, <2>5, <3>1, <3>2
    <3>. QED  BY <3>1, <3>2, <3>3
  <2>6. TreeAt(mem, o, n, holes, v, at)
    <3>1. Refs(mem, o) = {<<r, at[r]>> : r \in D}
      BY <2>3
    <3>2. D = RolesFor(n, holes)
      BY <2>1 DEF R
    <3>. QED  BY <1>2, <1>3, <1>8, <3>1, <3>2 DEF TreeAt
  <2>. QED  BY <2>4, <2>5, <2>6
<1>13. Extended(h, b.h, T)
  BY <1>5, <1>9, <1>10, <1>11 DEF Extended
<1>14. b.page # Null => \A o : o.kind = KindFor(n) /\ o.page = b.page =>
                          Occupies(b.h.mem, o, T) /\ TreeOf(b.h.mem, o, n, holes, v)
  BY <1>10, <1>11, <1>12 DEF Occupies, TreeOf
<1>15. b.page \in Pages
  <2>1. TopRole \in R
    BY RolesShape DEF R
  <2>. QED  BY <1>7, <1>11, <2>1, Layout
<1>16. Built(h, b, T, n, holes, v)
  BY <1>13, <1>14 DEF Built
<1>. QED  BY <1>15, <1>16
===============================================================================
