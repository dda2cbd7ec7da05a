------------------------------ MODULE ImageLayout ------------------------------
(***************************************************************************)
(* Where ndfs_create_image puts the pages a new volume has, for the four   *)
(* templates and for a device of any size, in real sizes: a page has 2048  *)
(* bytes.  Volume starts from such an image with a bit file of one page.   *)
(***************************************************************************)
EXTENDS Integers, TLAPS

CeilDiv(n, d) == (n + d - 1) \div d

\* The bit file of n pages: whole words, then whole pages.
BitmapBytes(n) == ((CeilDiv(n, 8) + 1) \div 2) * 2
BitmapPages(n) == CeilDiv(BitmapBytes(n), 2048)

\* "pages" is the declared size, "blocks" that of the device.
Layout(pages, blocks, object, user, bit) ==
  [pages |-> pages, blocks |-> blocks, object |-> object, user |-> user, bit |-> bit]

Templates ==
  { Layout(154, 154, 149, 151, 153),
    Layout(616, 616, 611, 613, 615),
    Layout(36945, 38400, 18684, 18686, 18472),
    Layout(36396, 36360, 32771, 32769, 18198) }

\* build_custom_spec: the bit file at a track boundary near the middle, the two indexes behind it.
Custom(n) ==
  LET bit == ((n \div 2) \div 9) * 9
  IN Layout(n, n, bit + BitmapPages(n), bit + BitmapPages(n) + 2, bit)

\* The smallest custom device is 32 pages.
CustomSizes == {n \in Nat : n >= 32}
Layouts     == Templates \union {Custom(n) : n \in CustomSizes}

BitFilePages(s) == s.bit .. s.bit + BitmapPages(s.pages) - 1
Linked(s)       == {0, s.object, s.object + 1, s.user, s.user + 1} \union BitFilePages(s)

\* The pages behind the declared end are not marked.
Marked(s) ==
  {0, s.object, s.user}
    \union {p \in {s.object + 1, s.user + 1} \union BitFilePages(s) : p < s.pages}

\* What write_bit_file rewrites when the image has been opened: the size of the device counts.
Rewritten(s) == s.bit .. s.bit + BitmapPages(s.blocks) - 1

-----------------------------------------------------------------------------
\* The indexes and their first pages are four pages, none of them page 0, and neither they nor
\* page 0 lie where the bit file is or will be rewritten; all of them are on the device.
PagesApart(s) ==
  /\ s.object # s.user /\ s.object + 1 # s.user /\ s.user + 1 # s.object
  /\ {0, s.object, s.object + 1, s.user, s.user + 1} \intersect (BitFilePages(s) \union Rewritten(s)) = {}
  /\ 0 \notin {s.object, s.object + 1, s.user, s.user + 1}
  /\ Linked(s) \union Rewritten(s) \subseteq 0 .. s.blocks - 1

\* Every page in use is marked, and no other: the allocator cannot hand out the object file's
\* own index page to the first file written (comment of mark_page_used).
MarksInUse(s) == Marked(s) = Linked(s)

\* One page of bits covers 16384 pages.
LEMMA BitmapPagesBound ==
  ASSUME NEW n \in Nat, n >= 32
  PROVE  BitmapPages(n) \in Nat /\ 1 <= BitmapPages(n) /\ 16384 * (BitmapPages(n) - 1) < n + 16
BY DEF BitmapPages, BitmapBytes, CeilDiv

\* The pages of the four templates, computed.
LEMMA TemplateApart ==
  ASSUME NEW s \in Templates
  PROVE  PagesApart(s) /\ MarksInUse(s)
<1>1. BitmapPages(154) = 1 /\ BitmapPages(616) = 1
  BY DEF BitmapPages, BitmapBytes, CeilDiv
<1>2. BitmapPages(36945) = 3 /\ BitmapPages(38400) = 3
  BY DEF BitmapPages, BitmapBytes, CeilDiv
<1>3. BitmapPages(36396) = 3 /\ BitmapPages(36360) = 3
  BY DEF BitmapPages, BitmapBytes, CeilDiv
<1>4. CASE s = Layout(154, 154, 149, 151, 153)
  BY <1>1, <1>4 DEF Layout, PagesApart, MarksInUse, Marked, Linked, BitFilePages, Rewritten
<1>5. CASE s = Layout(616, 616, 611, 613, 615)
  BY <1>1, <1>5 DEF Layout, PagesApart, MarksInUse, Marked, Linked, BitFilePages, Rewritten
<1>6. CASE s = Layout(36945, 38400, 18684, 18686, 18472)
  BY <1>2, <1>6 DEF Layout, PagesApart, MarksInUse, Marked, Linked, BitFilePages, Rewritten
<1>7. CASE s = Layout(36396, 36360, 32771, 32769, 18198)
  BY <1>3, <1>7 DEF Layout, PagesApart, MarksInUse, Marked, Linked, BitFilePages, Rewritten
<1>. QED  BY <1>4, <1>5, <1>6, <1>7 DEF Templates

\* The pages of a custom image of any size.
LEMMA CustomApart ==
  ASSUME NEW n \in CustomSizes
  PROVE  PagesApart(Custom(n)) /\ MarksInUse(Custom(n))
<1>. DEFINE bit == ((n \div 2) \div 9) * 9
            k   == BitmapPages(n)
<1>1. n \in Nat /\ n >= 32
  BY DEF CustomSizes
<1>2. k \in Nat /\ 1 <= k /\ 16384 * (k - 1) < n + 16
  BY <1>1, BitmapPagesBound
<1>3. bit \in Nat /\ 9 <= bit /\ 2 * bit <= n
  BY <1>1
<1>4. bit + k + 3 < n
  BY <1>1, <1>2, <1>3
<1>5. Custom(n) = Layout(n, n, bit + k, bit + k + 2, bit)
  BY DEF Custom
<1>. HIDE DEF bit, k
<1>6. BitmapPages(n) = k
  BY DEF k
<1>. QED
  BY <1>1, <1>2, <1>3, <1>4, <1>5, <1>6
     DEF Layout, PagesApart, MarksInUse, Marked, Linked, BitFilePages, Rewritten

\* A created image of any size has its pages apart and marked, and rewriting the bit file of
\* the opened image, which is sized by the device, touches no other page.
THEOREM CreatedImageSound == \A s \in Layouts : PagesApart(s) /\ MarksInUse(s)
BY TemplateApart, CustomApart DEF Layouts
================================================================================
