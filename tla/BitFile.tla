-------------------------------- MODULE BitFile --------------------------------
(***************************************************************************)
(* The bytes of the bit file: how bit_file.c lays the set "used" of BitMap *)
(* out, how write_bit_file puts it on pages and how load_structures gets   *)
(* it back.  SINTRAN addresses the bit file in words of two bytes, the     *)
(* high byte first; the library addresses bytes.  A byte is the set of its *)
(* bits that are 1.                                                        *)
(***************************************************************************)
EXTENDS BitMap

CONSTANTS
  ByteBits,   \* the bits of a byte (8)
  PageBytes   \* NDFS_PAGE_SIZE (2048)

ASSUME BitFileAssumption == {ByteBits, PageBytes} \subseteq Nat \ {0}

CeilDiv(n, d) == (n + d - 1) \div d

\* ndfs_bf_init: whole words.
BitmapBytes == ((CeilDiv(TotalPages, ByteBits) + 1) \div 2) * 2

\* Bug: page p in byte p / 8.  Reader and writer agree, with each other only.
ByteIndexNaive(p) == p \div ByteBits

\* bf_byte_index: (p >> 3) ^ 1.
ByteIndex(p) == LET b == p \div ByteBits IN IF b % 2 = 0 THEN b + 1 ELSE b - 1
BitOf(p)     == p % ByteBits

\* Pages marked by ndfs_bf_mark_used in a bitmap of zeros.  What would lie behind the end of
\* the buffer is lost.
Bitmap(used) ==
  [b \in 0 .. BitmapBytes - 1 |-> {BitOf(p) : p \in {p \in used : ByteIndex(p) = b}}]

\* ndfs_bf_is_used
IsUsed(bitmap, p) == ByteIndex(p) \in DOMAIN bitmap /\ BitOf(p) \in bitmap[ByteIndex(p)]

BitmapPages == CeilDiv(BitmapBytes, PageBytes)

\* write_bit_file: whole pages, zeros behind the end of the bitmap.
BitPages(used) ==
  [i \in 0 .. BitmapPages - 1 |->
     [b \in 0 .. PageBytes - 1 |->
        LET at == i * PageBytes + b IN IF at < BitmapBytes THEN Bitmap(used)[at] ELSE {}]]

Bytes(pages) ==
  [b \in 0 .. BitmapPages * PageBytes - 1 |-> pages[b \div PageBytes][b % PageBytes]]

\* load_structures and ndfs_bf_load: as many bytes as the bitmap has.
Loaded(pages) ==
  LET bitmap == [b \in 0 .. BitmapBytes - 1 |-> Bytes(pages)[b]]
  IN {p \in Pages : IsUsed(bitmap, p)}

\* SINTRAN's allocator: page p is bit p % 16 of word p / 16, bit 0 the least significant.
SintranReads(pages) ==
  LET wordBits == 2 * ByteBits
      low(w)   == Bytes(pages)[2 * w + 1]
      high(w)  == Bytes(pages)[2 * w]
      word(w)  == low(w) \union {ByteBits + j : j \in high(w)}
  IN {p \in Pages : p % wordBits \in word(p \div wordBits)}
==============================================================================
