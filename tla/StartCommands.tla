----------------------------- MODULE StartCommands -----------------------------
(***************************************************************************)
(* The initial-command buffer of SINTRAN (sintran.c): a text area and a    *)
(* length cell inside the memory image of a segment, found through the     *)
(* segment table of SEGFIL0.  Several segments may hold the address of the *)
(* buffer, and nothing marks the real one: a buffer is believed when its   *)
(* commands, encoded again, have the length in its cell.                   *)
(* A byte is Nul, Quote (which ends a command), a printable character or   *)
(* something else; the parity bit that parsing strips is left out.         *)
(***************************************************************************)
EXTENDS SequencesExt

CONSTANTS
  Nul, Quote,
  Printable,   \* the other characters a command may hold
  Upper,       \* toupper on them
  Keywords,    \* the texts a repair looks for
  Cap,         \* LEN_CELL_BYTES: the bytes of the text area, 260 in the code
  MaxText,     \* the longest text a writer may store, 254 in the code
  Table,       \* the segment table: first address, length and place in the file of a segment
  Inibu,       \* the address of the buffer in each version, in the order they are tried
  FileSize,
  FirstPage,   \* offset -> the bytes of the buffer there that lie in its first page
  Lists,       \* the command lists written
  Starts,      \* what a buffer area may hold when the image is opened
  Code         \* those of them that are no buffer

ASSUME StartAssumption ==
  /\ Nul \notin Printable /\ Quote \notin Printable /\ Nul # Quote
  /\ Upper \in [Printable -> Printable]
  /\ Cap \in Nat /\ MaxText \in Nat /\ MaxText + 2 <= Cap
  /\ FileSize \in Nat
  /\ Code \subseteq Starts

VARIABLES
  area,   \* offset in SEGFIL0 -> the text and the cell of the buffer area there
  said,   \* the last call, the list it was given and its result
  torn    \* the areas whose last patch stopped between two pages

vars == <<area, said, torn>>

-----------------------------------------------------------------------------
(***************************************************************************)
(* Encoding and parsing.                                                   *)
(***************************************************************************)
Padded(bytes) == IF Len(bytes) % 2 = 1 THEN Append(bytes, Nul) ELSE bytes

Valid(c) == c # <<>> /\ \A k \in DOMAIN c : c[k] \in Printable
Uppercase(c) == [k \in DOMAIN c |-> Upper[c[k]]]

\* The text of a list, without the lone quote that ends the buffer.
Text(list) ==
  FoldLeft(LAMBDA bytes, c : Padded(Append(bytes \o Uppercase(c), Quote)), <<>>, list)

\* ndfs_sintran_encode_buffer
Encodes(list) == (\A k \in DOMAIN list : Valid(list[k])) /\ Len(Text(list)) <= MaxText

\* What ends at a quote is copied whole, and is a C string from then on: is_printable and the
\* encoder see it up to its first Nul.
CString(bytes) ==
  LET nul == SelectInSeq(bytes, LAMBDA byte : byte = Nul)
  IN IF nul = 0 THEN bytes ELSE SubSeq(bytes, 1, nul - 1)

\* One byte of ndfs_sintran_parse_buffer.  A command that the end of the text cuts off
\* counts like one that a quote ends.
Take(s, byte) ==
  CASE s.over                                -> s
    [] ~s.over /\ s.cur = <<>> /\ byte = Nul   -> s
    [] ~s.over /\ s.cur = <<>> /\ byte = Quote -> [s EXCEPT !.over = TRUE]
    [] ~s.over /\ s.cur # <<>> /\ byte = Quote -> [s EXCEPT !.list = Append(@, CString(s.cur)), !.cur = <<>>]
    [] OTHER                                 -> [s EXCEPT !.cur = Append(@, byte)]

Parse(bytes) ==
  LET s == FoldLeft(Take, [list |-> <<>>, cur |-> <<>>, over |-> FALSE], bytes)
  IN IF s.cur = <<>> THEN s.list ELSE Append(s.list, CString(s.cur))

Parses(bytes) == \A k \in DOMAIN Parse(bytes) : Valid(Parse(bytes)[k])

\* Bug: the quote that ends the buffer is counted in the length cell.
RegionCountingEnd(list) ==
  LET bytes == Append(Text(list), Quote) IN
  [text |-> [k \in 1 .. Cap |-> IF k <= Len(bytes) THEN bytes[k] ELSE Nul],
   cell |-> Len(bytes)]

\* build_region_image
Region(list) ==
  LET bytes == Append(Text(list), Quote) IN
  [text |-> [k \in 1 .. Cap |-> IF k <= Len(bytes) THEN bytes[k] ELSE Nul],
   cell |-> Len(Text(list))]

-----------------------------------------------------------------------------
(***************************************************************************)
(* Where the buffer may be: every segment that holds its address, for one  *)
(* version after the other.                                                *)
(***************************************************************************)
Holds(seg, v) ==
  /\ seg.len # 0 /\ seg.at # 0
  /\ seg.base <= Inibu[v] /\ Inibu[v] < seg.base + seg.len
  /\ seg.at + 2 * (Inibu[v] - seg.base) + Cap + 2 <= FileSize

OffsetIn(seg, v) == seg.at + 2 * (Inibu[v] - seg.base)

Scan ==
  FlattenSeq([v \in DOMAIN Inibu |->
    LET holding == SelectSeq(Table, LAMBDA seg : Holds(seg, v))
    IN [k \in DOMAIN holding |-> OffsetIn(holding[k], v)]])

Offsets == ToSet(Scan)

Plausible(r) == r.cell > 0 /\ r.cell <= Cap
Listed(r)    == Parse(SubSeq(r.text, 1, r.cell))

\* ndfs_sintran_reencode_matches, for a list that could be parsed.
Matches(list, cell) == Encodes(list) /\ Len(Text(list)) = cell

\* Bug: the first area that parses is taken for the buffer.
BelievedAtOnce(r) ==
  /\ Plausible(r)
  /\ Parses(SubSeq(r.text, 1, r.cell))
  /\ Listed(r) # <<>>

Believed(r) ==
  /\ Plausible(r)
  /\ Parses(SubSeq(r.text, 1, r.cell))
  /\ Listed(r) # <<>>
  /\ Matches(Listed(r), r.cell)

\* locate: the first area that is believed, 0 when there is none.
Located(at) ==
  LET k == SelectInSeq(Scan, LAMBDA o : Believed(at[o])) IN IF k = 0 THEN 0 ELSE Scan[k]

\* ndfs_read_initial_commands
Read(at) == IF Located(at) = 0 THEN <<>> ELSE Listed(at[Located(at)])

\* locate_repair_target: the area with the most surviving words, if it has two or more and
\* no other candidate has as many.
Survives(word, text) ==
  \E k \in 1 .. Cap : k + Len(word) - 1 <= Cap /\ SubSeq(text, k, k + Len(word) - 1) = word
Score(r) == Cardinality({w \in Keywords : Survives(w, r.text)})

\* Bug: one word that has survived is enough.
ClearByOneWord(at, k) ==
  /\ Score(at[Scan[k]]) >= 1
  /\ \A j \in DOMAIN Scan \ {k} : Score(at[Scan[j]]) < Score(at[Scan[k]])

Clear(at, k) ==
  /\ Score(at[Scan[k]]) >= 2
  /\ \A j \in DOMAIN Scan \ {k} : Score(at[Scan[j]]) < Score(at[Scan[k]])

-----------------------------------------------------------------------------
Init ==
  /\ area \in [Offsets -> Starts]
  /\ said = [call |-> "none", list |-> <<>>, result |-> "ok"]
  /\ torn = {}

Answers(call, list, result) == said' = [call |-> call, list |-> list, result |-> result]

\* ndfs_patch_file_region, page by page.
Patch(call, o, list) ==
  /\ area' = [area EXCEPT ![o] = Region(list)]
  /\ torn' = torn \ {o}
  /\ Answers(call, list, "ok")

\* The second page of the area cannot be had when the first has been written.
PatchTorn(call, o, list) ==
  /\ FirstPage[o] < Cap + 2
  /\ area' = [area EXCEPT ![o].text =
                [k \in 1 .. Cap |-> IF k <= FirstPage[o] THEN Region(list).text[k] ELSE @[k]]]
  /\ torn' = torn \union {o}
  /\ Answers(call, list, "corrupt")

Refused(call, list) == Answers(call, list, "refused") /\ UNCHANGED <<area, torn>>

\* ndfs_write_initial_commands
Write(list) ==
  LET o == Located(area) IN
  IF o # 0 /\ Encodes(list) THEN Patch("write", o, list) \/ PatchTorn("write", o, list)
  ELSE Refused("write", list)

\* ndfs_repair_initial_commands
Repair(list) ==
  LET clear == {k \in DOMAIN Scan : Clear(area, k)} IN
  IF clear # {} /\ Encodes(list)
  THEN \E k \in clear : Patch("repair", Scan[k], list) \/ PatchTorn("repair", Scan[k], list)
  ELSE Refused("repair", list)

\* SINTRAN, interrupted in @INITIAL-COMMAND: the length is 2, the text starts with a quote.
Interrupted(o) ==
  /\ area' = [area EXCEPT ![o].cell = 2, ![o].text[1] = Quote]
  /\ Answers("none", <<>>, "ok")
  /\ UNCHANGED torn

Next ==
  \/ \E list \in Lists : Write(list) \/ Repair(list)
  \/ \E o \in Offsets : Interrupted(o)

Spec == Init /\ [][Next]_vars

-----------------------------------------------------------------------------
Uppercased(list) == [k \in DOMAIN list |-> Uppercase(list[k])]

\* A list that was written, or put where a repair found the remains of a buffer nobody could
\* locate any more, is the list read from then on, in upper case.  The empty list is left
\* out: its length cell is 0, which no area is believed with.
StoredIsRead ==
  [][ LET put == said'.result = "ok" /\ said'.list # <<>> IN
      put /\ (said'.call = "write" \/ (said'.call = "repair" /\ Located(area) = 0))
        => Read(area') = Uppercased(said'.list) ]_vars

\* As the encoder lays a text out: a Nul only behind a quote, every command at an even offset.
LaidOut(r) ==
  \A k \in 1 .. r.cell :
    LET first == k = 1 \/ r.text[k - 1] \in {Nul, Quote} IN
    /\ r.text[k] = Nul => k > 1 /\ r.text[k - 1] = Quote
    /\ r.text[k] \notin {Nul, Quote} /\ first => k % 2 = 1

\* What is read was once stored: neither SINTRAN code that happens to look like a command nor
\* what an interruption left of a buffer is taken for a list.  Only the length is compared, so
\* that a text that is not laid out as the encoder does it can pass: a Nul inside or in place
\* of the end of a command, or a missing pad made up for by a quote too many.  It is left out,
\* as is an area torn between its two pages: the end of the old text may give a command nobody
\* wrote.
NothingInvented ==
  LET o == Located(area) IN
  o \notin torn \union {0} /\ LaidOut(area[o]) =>
    Read(area) \in {Uppercased(list) : list \in {list \in Lists : Encodes(list)}}

\* SINTRAN code is not written over, whatever has happened to the buffer before: with the
\* buffer interrupted or torn, a repair looks for what is left of it among areas of code, which
\* hold one of its words at most, and a write that finds no buffer takes nothing else for one.
\* A text laid out as no encoder does it can pass for a buffer, and a write then goes there.
CodeSpared ==
  [][ \A o \in Offsets : area[o] \in Code =>
        /\ said'.call = "repair" => area'[o] = area[o]
        /\ said'.call = "write" /\ LaidOut(area[o]) => area'[o] = area[o] ]_vars
=============================================================================
