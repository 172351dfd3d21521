------------------------------ MODULE Archive -------------------------------
(***************************************************************************)
(* CompressBuf of Kernel/Compress.HC writes what ExpandBuf of TOSZ reads:  *)
(* codes of growing width, each the longest string in the table that the   *)
(* text goes on with.  The table is never written down: the expander makes *)
(* its own from the codes it reads, one entry behind the compressor's.     *)
(*                                                                         *)
(* One step is one turn of a loop.  A buffer of bits is the set of the     *)
(* positions of its ones.                                                  *)
(***************************************************************************)
EXTENDS ArcTable, Sequences

CONSTANTS Texts,       \* the texts that are compressed
          ByteBits,    \* the bits of a byte: 8
          HeaderSize   \* sizeof(CArcCompress) without body: 17

ASSUME ArchiveAssumption ==
  /\ Texts \subseteq Seq(Chars)
  /\ ByteBits \in Nat /\ ByteBits > LowBits
  /\ HeaderSize \in Nat

VARIABLES text,        \* src_buf of the compressor
          pc,
          c,           \* CArcCtrl
          src_pos, dst_pos,
          dst,         \* the bits of dst_buf
          basecode,    \* of the loop that runs
          lastcode, code, last_ch,
          stk,         \* stk_base up to stk_ptr
          arc,         \* what CompressBuf returns
          out,         \* what ExpandBuf has written to its dst_buf
          sent, got    \* history: the codes written and read, and where

ctrlVars == <<c, src_pos, dst_pos, dst>>
expandVars == <<lastcode, code, last_ch, stk>>
archiveVars == <<text, pc, ctrlVars, basecode, expandVars, arc, out, sent, got>>

Size == Len(text)
DstBits == (Size + HeaderSize) * ByteBits   \* dst_size of the compressor

\* BFieldOrU32: the bits of code from pos on, however many they are.
BitsOf(value, pos) ==
  {pos + k : k \in {n \in 0 .. ARC_MAX_BITS - 1 : (value \div Shift[n]) % 2 = 1}}

\* BFieldExtDWORD.
BFieldExt(bits, pos, width) ==
  CHOOSE value \in 0 .. Shift[width] - 1 :
     BitsOf(value, pos) = bits \cap (pos .. pos + width - 1)

Code(pos, value) == [pos |-> pos, code |-> value]

ArcDetermineCompressionType ==
  IF \E i \in 1 .. Size : text[i] >= Shift[LowBits] THEN CT_8_BIT ELSE CT_7_BIT

NoArc == [compression_type |-> 0, compressed_size |-> 0, expanded_size |-> 0,
          bits |-> {}, body |-> <<>>]

ArchiveInitFor(source) ==
  /\ text = source
  /\ pc = "compress"
  /\ c = ArcCtrlNew(CT_7_BIT)
  /\ src_pos = 0 /\ dst_pos = 0 /\ dst = {}
  /\ basecode = 0 /\ lastcode = 0 /\ code = 0 /\ last_ch = 0
  /\ stk = <<>>
  /\ arc = NoArc
  /\ out = <<>>
  /\ sent = <<>> /\ got = <<>>

ArchiveInit == \E source \in Texts : ArchiveInitFor(source)

-----------------------------------------------------------------------------
\* CompressBuf up to the loop of ArcCompressBuf.  The first character is read
\* before the size is looked at: of an empty text, whatever lies there.
CompressBegin ==
  /\ pc = "compress"
  /\ c' = ArcCtrlNew(ArcDetermineCompressionType)
  /\ src_pos' = 1
  /\ dst_pos' = HeaderSize * ByteBits
  /\ basecode' \in IF Size > 0 THEN {text[1]} ELSE Chars
  /\ pc' = "code"
  /\ UNCHANGED <<text, dst, expandVars, arc, out, sent, got>>

\* The head of the loop: one more code, if any of the text is left and the
\* code has room.
CodeBegin ==
  /\ pc = "code"
  /\ src_pos < Size /\ dst_pos + c.cur_bits_in_use <= DstBits
  /\ c' = ArcEntryGet(c)
  /\ pc' = "extend"
  /\ UNCHANGED <<text, src_pos, dst_pos, dst, basecode, expandVars, arc, out,
                 sent, got>>

Longer(ch) == {e \in c.hash[basecode] : c.compress[e].ch = ch}

\* ac_start: the text goes on as an entry does.
CodeExtend ==
  /\ pc = "extend"
  /\ src_pos < Size
  /\ basecode' \in Longer(text[src_pos + 1])
  /\ src_pos' = src_pos + 1
  /\ UNCHANGED <<text, pc, c, dst_pos, dst, expandVars, arc, out, sent, got>>

\* It does not: the code is written, and what it stands for with one more
\* character is the next entry.
CodeEmit ==
  /\ pc = "extend"
  /\ src_pos < Size
  /\ LET ch == text[src_pos + 1]
     IN  /\ Longer(ch) = {}
         /\ c' = Linked(c, basecode, ch)
         /\ basecode' = ch
  /\ src_pos' = src_pos + 1
  /\ dst' = dst \cup BitsOf(basecode, dst_pos)
  /\ sent' = Append(sent, Code(dst_pos, basecode))
  /\ dst_pos' = dst_pos + c.cur_bits_in_use
  /\ pc' = "code"
  /\ UNCHANGED <<text, expandVars, arc, out, got>>

\* That the text ends where a string of the table goes on is not noticed.
FaultyCodesDone ==
  pc = "code" /\ ~(src_pos < Size /\ dst_pos + c.cur_bits_in_use <= DstBits)

CodesDone ==
  \/ pc = "code" /\ ~(src_pos < Size /\ dst_pos + c.cur_bits_in_use <= DstBits)
  \/ pc = "extend" /\ src_pos >= Size

HasRoom == dst_pos + c.cur_bits_in_use <= DstBits /\ src_pos = Size

\* Whole bytes.
CompressedSize(bits) == (bits + ByteBits - 1) \div ByteBits

\* ArcFinishCompression and the end of CompressBuf.  The last code is checked
\* for room in one width and counted in another, so size_out may be one byte
\* more than dst_buf has; MemCpy copies what lies behind it.
CompressEnd ==
  /\ CodesDone
  /\ HasRoom
  /\ LET end == dst_pos + c.next_bits_in_use
         size_out == CompressedSize(end)
     IN  \E behind \in SUBSET (DstBits .. size_out * ByteBits - 1) :
           arc' = [compression_type |-> ArcDetermineCompressionType,
                   compressed_size |-> size_out,
                   expanded_size |-> Size,
                   bits |-> dst \cup BitsOf(basecode, dst_pos) \cup behind,
                   body |-> <<>>]
  /\ sent' = Append(sent, Code(dst_pos, basecode))
  /\ pc' = "expand"
  /\ UNCHANGED <<text, ctrlVars, basecode, expandVars, out, got>>

\* What is no shorter compressed is kept as it is.
StoreAsIs ==
  /\ CodesDone
  /\ ~HasRoom
  /\ arc' = [compression_type |-> CT_NONE,
             compressed_size |-> Size + HeaderSize,
             expanded_size |-> Size,
             bits |-> {}, body |-> text]
  /\ pc' = "expand"
  /\ UNCHANGED <<text, ctrlVars, basecode, expandVars, out, sent, got>>

-----------------------------------------------------------------------------
ExpandAsIs ==
  /\ pc = "expand"
  /\ arc.compression_type = CT_NONE
  /\ out' = arc.body
  /\ pc' = "done"
  /\ UNCHANGED <<text, ctrlVars, basecode, expandVars, arc, sent, got>>

\* ExpandBuf up to the loop of ArcExpandBuf: the first code is a character.
ExpandBegin ==
  /\ pc = "expand"
  /\ arc.compression_type # CT_NONE
  /\ LET new == ArcCtrlNew(arc.compression_type)
         pos == HeaderSize * ByteBits
         first == BFieldExt(arc.bits, pos, new.next_bits_in_use)
     IN  /\ src_pos' = pos + new.next_bits_in_use
         /\ c' = ArcEntryGet(new)
         /\ lastcode' = first
         /\ last_ch' = first
         /\ out' = <<first % Shift[LowBits + 1]>>
         /\ got' = <<Code(pos, first)>>
  /\ stk' = <<>>
  /\ pc' = "read"
  /\ UNCHANGED <<text, dst_pos, dst, basecode, code, arc, sent>>

\* The expander reads as wide as its own entry would be written.
FaultyReadWidth == c.cur_bits_in_use

\* One entry behind, it reads in the width of the entry set aside.
ReadWidth == c.next_bits_in_use

MoreToRead == /\ Len(out) < arc.expanded_size
              /\ src_pos + ReadWidth <= arc.compressed_size * ByteBits

\* A code that stands for the entry being made is taken for an old one.
FaultyUnwindFrom(value) == [stk |-> <<>>, code |-> value]

\* A code may be that of the entry the expander is one behind with: what it
\* stands for is the last string and that string's first character again.
UnwindFrom(value) ==
  IF c.cur_entry = value
  THEN [stk |-> <<last_ch>>, code |-> lastcode]
  ELSE [stk |-> <<>>, code |-> value]

ExpandRead ==
  /\ pc = "read"
  /\ MoreToRead
  /\ basecode' = BFieldExt(arc.bits, src_pos, ReadWidth)
  /\ src_pos' = src_pos + ReadWidth
  /\ got' = Append(got, Code(src_pos, basecode'))
  /\ stk' = stk \o UnwindFrom(basecode').stk
  /\ code' = UnwindFrom(basecode').code
  /\ pc' = "unwind"
  /\ UNCHANGED <<text, c, dst_pos, dst, lastcode, last_ch, arc, out, sent>>

\* The string of a code, last character first.
ExpandUnwind ==
  /\ pc = "unwind"
  /\ code >= c.min_table_entry
  /\ stk' = Append(stk, c.compress[code].ch)
  /\ code' = c.compress[code].basecode
  /\ UNCHANGED <<text, pc, ctrlVars, basecode, lastcode, last_ch, arc, out,
                 sent, got>>

\* One character stays on the stack.
FaultyFlushed(full) ==
  IF Len(full) <= arc.expanded_size - Len(out)
  THEN Len(full) - 1 ELSE arc.expanded_size - Len(out)

\* How much of the stack there is room for.
Flushed(full) ==
  IF Len(full) < arc.expanded_size - Len(out)
  THEN Len(full) ELSE arc.expanded_size - Len(out)

\* The last entry can be completed now that the first character of this
\* string is known; then the stack is emptied as far as there is room.
ExpandLink ==
  /\ pc = "unwind"
  /\ code < c.min_table_entry
  /\ last_ch' = code
  /\ c' = ArcEntryGet(Linked(c, lastcode, code))
  /\ lastcode' = basecode
  /\ LET full == Append(stk, code)
         n == Flushed(full)
     IN  /\ out' = out \o [i \in 1 .. n |-> full[Len(full) + 1 - i]]
         /\ stk' = SubSeq(full, 1, Len(full) - n)
  /\ pc' = "read"
  /\ UNCHANGED <<text, src_pos, dst_pos, dst, basecode, code, arc, sent, got>>

ExpandEnd ==
  /\ pc = "read"
  /\ ~MoreToRead
  /\ pc' = "done"
  /\ UNCHANGED <<text, ctrlVars, basecode, expandVars, arc, out, sent, got>>

CompressStep ==
  CompressBegin \/ CodeBegin \/ CodeExtend \/ CodeEmit \/ CompressEnd \/ StoreAsIs

ExpandStep ==
  ExpandAsIs \/ ExpandBegin \/ ExpandRead \/ ExpandUnwind \/ ExpandLink \/ ExpandEnd

ArchiveNext == CompressStep \/ ExpandStep

ArchiveSpec == ArchiveInit /\ [][ArchiveNext]_archiveVars

-----------------------------------------------------------------------------
Compressing == pc \in {"code", "extend"}
Expanding == pc \in {"read", "unwind"}

ArchiveTypeOK ==
  /\ text \in Seq(Chars)
  /\ pc \in {"compress", "code", "extend", "expand", "read", "unwind", "done"}
  /\ c \in Ctrl
  /\ src_pos \in Nat /\ dst_pos \in Nat
  /\ basecode \in Codes /\ lastcode \in Codes /\ code \in Codes
  /\ last_ch \in Codes
  /\ stk \in Seq(Chars)
  /\ out \in Seq(Chars)

\* The block reaches past the compressor's buffer.
Overran == arc.compressed_size > Size + HeaderSize

\* What has been expanded is the text as far as it goes, and in the end all of
\* it, unless the block took in a byte that was not its own.
RoundTrip ==
  ~Overran => /\ out = SubSeq(text, 1, Len(out))
              /\ pc = "done" => Len(out) = Size

\* The same without the exception, as Doc/Tips.DD has it: files "will be
\* automatically compressed and uncompressed when read or written".
ComesBack == pc = "done" => out = text

\* The expander reads every code where, and in the width, the compressor
\* wrote it, although neither place nor width is in the file.
ReadsWhatWasWritten ==
  ~Overran => /\ Len(got) <= Len(sent)
              /\ \A i \in 1 .. Len(got) : got[i] = sent[i]

\* Nothing is built on an entry that was given up, and a spare entry stands
\* for nothing.
TableIsSound == Compressing => ChainsMatchEntries(c) /\ SpareEntriesAreFree(c)

\* The same of the table of the expander, which links every entry to the code
\* it read before; and when the table is full there is a leaf to give up.
ExpanderTableIsSound ==
  Expanding /\ ~Overran =>
    /\ ChainsMatchEntries(c) /\ SpareEntriesAreFree(c)
    /\ c.next_bits_in_use = ARC_MAX_BITS =>
         \E i \in Leaves(c) : i \notin {c.next_entry, lastcode}

\* Every code is written in as many bits as it takes.
WidthSuffices == Compressing => CodesFitWidth(c) /\ basecode < Shift[WidthInUse(c)]

\* Of a string and a character there is one entry at most.
OneMatch == Compressing => SiblingsDiffer(c)

\* When the compressor's table is full there is a leaf to give up, other than
\* the entry in hand: the search for it ends.
LeafToGiveUp ==
  Compressing /\ c.entry_used /\ c.next_bits_in_use = ARC_MAX_BITS
    => \E i \in Leaves(c) : i # c.next_entry

\* The string of the n-th code has at most n characters, and never more than
\* the stack of the expander, 1 << ARC_MAX_BITS, which nothing else guards:
\* no entry stands, over however many others, on itself.
StackFits == Expanding => Len(stk) < Len(got) /\ Len(stk) < Shift[ARC_MAX_BITS]
-----------------------------------------------------------------------------
\* The inductive invariant of the compressor: between two codes the table has
\* been brought up to date and the string at hand is a character, one of the
\* text unless that is empty; while a string is being extended it is one that
\* has a code.
CompressorInv ==
  /\ text \in Seq(Chars)
  /\ Compressing =>
       /\ TableInv(c)
       /\ src_pos \in Nat
       /\ \A n \in 1 .. Size : Literal(c, text[n])
       /\ basecode \in Codes
       /\ pc = "code" => /\ c.entry_used /\ basecode \in Chars
                         /\ Size > 0 => Literal(c, basecode)
       /\ pc = "extend" =>
            ~c.entry_used /\ (Literal(c, basecode) \/ basecode \in OnChain(c))
=============================================================================
