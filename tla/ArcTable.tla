------------------------------ MODULE ArcTable ------------------------------
(***************************************************************************)
(* The table of the archive format, CArcCtrl of Linux/TOSZ.CPP and of      *)
(* Kernel/KernelA.HH: strings that were seen, each one entry, which is an  *)
(* earlier string (its basecode) and one more character.  The compressor   *)
(* and the expander each keep one and must keep them alike; when it is     *)
(* full, a string nothing else is built on gives up its entry.             *)
(*                                                                         *)
(* The chain of entries on one basecode, a linked list in the code, is the *)
(* set of them.                                                            *)
(***************************************************************************)
EXTENDS Integers, FiniteSets

CONSTANTS ARC_MAX_BITS,  \* the width of the widest code: 12
          LowBits,       \* the bits of a character of text: 7
          Shift          \* Shift[n] is 1 << n

\* 7 < 8 < 9 < 12: both kinds of text start with codes narrower than the
\* widest.
ASSUME WidthAssumption ==
  /\ ARC_MAX_BITS \in Nat /\ LowBits \in Nat
  /\ 1 <= LowBits /\ LowBits + 2 < ARC_MAX_BITS

ASSUME ShiftAssumption ==
  /\ Shift \in [0 .. ARC_MAX_BITS -> Nat]
  /\ Shift[0] = 1
  /\ \A n \in 0 .. ARC_MAX_BITS - 1 : Shift[n + 1] = 2 * Shift[n]
  /\ \A m, n \in 0 .. ARC_MAX_BITS : m < n => Shift[m] < Shift[n]

CT_NONE == 1
CT_7_BIT == 2
CT_8_BIT == 3

Codes == 0 .. Shift[ARC_MAX_BITS] - 1
Chars == 0 .. Shift[LowBits + 1] - 1
NoEntry == -1    \* NULL

Entry == [basecode : Codes, ch : Chars]

Ctrl == [min_table_entry : Nat,
         cur_entry : Codes \cup {NoEntry}, next_entry : Codes \cup {NoEntry},
         cur_bits_in_use : 0 .. ARC_MAX_BITS,
         next_bits_in_use : 0 .. ARC_MAX_BITS,
         free_idx : Nat, free_limit : Nat,
         entry_used : BOOLEAN,
         compress : [Codes -> Entry],
         hash : [Codes -> SUBSET Codes]]

-----------------------------------------------------------------------------
\* A new entry while there are codes nobody has used; the last code of a
\* width widens the next.
FreshEntry(c) ==
  LET i == c.free_idx + 1
      bits == IF i = c.free_limit THEN c.next_bits_in_use + 1
                                  ELSE c.next_bits_in_use
  IN  [c EXCEPT !.next_entry = c.free_idx,
                !.free_idx = i,
                !.next_bits_in_use = bits,
                !.free_limit = IF i = c.free_limit THEN Shift[bits] ELSE @]

\* The entries no other is built on.
Leaves(c) == {i \in c.min_table_entry .. c.free_limit - 1 : c.hash[i] = {}}

Least(S) == CHOOSE i \in S : \A j \in S : i <= j

\* Entries in use as a basecode are not passed over.
FaultyNextLeaf(c) ==
  IF c.free_idx + 1 = c.free_limit THEN c.min_table_entry ELSE c.free_idx + 1

\* The first of them after free_idx, in a circle.
NextLeaf(c) ==
  LET above == {i \in Leaves(c) : i > c.free_idx}
  IN  Least(IF above # {} THEN above ELSE Leaves(c))

\* The entry keeps its place in the chain of its old basecode.
FaultyRecycledEntry(c) ==
  LET i == NextLeaf(c)
  IN  [c EXCEPT !.next_entry = i, !.free_idx = i]

\* The table is full: a leaf is taken off its chain to be used again.
RecycledEntry(c) ==
  LET i == NextLeaf(c)
  IN  [c EXCEPT !.next_entry = i,
                !.free_idx = i,
                !.hash = [c.hash EXCEPT ![c.compress[i].basecode] = @ \ {i}]]

\* The entry set aside becomes the current one,
Advanced(c) == [c EXCEPT !.entry_used = FALSE,
                         !.cur_entry = c.next_entry,
                         !.cur_bits_in_use = c.next_bits_in_use]

\* and another is set aside, unless the current one has not been used yet.
ArcEntryGet(c) ==
  IF ~c.entry_used
  THEN c
  ELSE IF c.next_bits_in_use < ARC_MAX_BITS
       THEN FreshEntry(Advanced(c))
       ELSE RecycledEntry(Advanced(c))

MinBits(type) == IF type = CT_7_BIT THEN LowBits ELSE LowBits + 1

\* A CArcCtrl as ArcCtrlNew fills it in,
Zeroed(type) ==
  [min_table_entry |-> Shift[MinBits(type)],
   cur_entry |-> NoEntry, next_entry |-> NoEntry,
   cur_bits_in_use |-> 0,
   next_bits_in_use |-> MinBits(type) + 1,
   free_idx |-> Shift[MinBits(type)], free_limit |-> Shift[MinBits(type) + 1],
   entry_used |-> TRUE,
   compress |-> [i \in Codes |-> [basecode |-> 0, ch |-> 0]],
   hash |-> [i \in Codes |-> {}]]

\* and after its call of ArcEntryGet.
ArcCtrlNew(type) == [ArcEntryGet(Zeroed(type)) EXCEPT !.entry_used = TRUE]

\* What both sides do when they have seen basecode followed by ch: the
\* current entry stands for it from now on.
Linked(c, basecode, ch) ==
  [c EXCEPT !.entry_used = TRUE,
            !.compress = [c.compress EXCEPT ![c.cur_entry] =
                             [basecode |-> basecode, ch |-> ch]],
            !.hash = [c.hash EXCEPT ![basecode] = @ \cup {c.cur_entry}]]

-----------------------------------------------------------------------------
\* The entries on some chain.
OnChain(c) == {e \in Codes : e \in c.hash[c.compress[e].basecode]}

Literal(c, code) == code < c.min_table_entry

\* The chains are what the entries say, and every string is built on a
\* character or on an entry that still stands for a string: what is taken
\* off a chain to be used again was the basecode of nothing.
ChainsMatchEntries(c) ==
  /\ \A b, e \in Codes : e \in c.hash[b] => c.compress[e].basecode = b
  /\ \A e \in Codes : c.hash[e] # {} => Literal(c, e) \/ e \in OnChain(c)
  /\ \A e \in OnChain(c) : ~Literal(c, e)

\* Stands for nothing, and nothing is built on it.
IsSpare(c, e) ==
  e \in Codes /\ e \notin OnChain(c) /\ c.hash[e] = {} /\ ~Literal(c, e)

SpareEntriesAreFree(c) ==
  /\ IsSpare(c, c.next_entry)
  /\ ~c.entry_used => IsSpare(c, c.cur_entry) /\ c.cur_entry # c.next_entry

\* The width of the code that is written next.
WidthInUse(c) == IF c.entry_used THEN c.next_bits_in_use ELSE c.cur_bits_in_use

\* Every string there is a code for can be written in the bits in use: a
\* wider one would run into the next code.
CodesFitWidth(c) ==
  /\ c.min_table_entry <= Shift[c.cur_bits_in_use]
  /\ \A e \in OnChain(c) : e < Shift[WidthInUse(c)]

\* No two strings of one chain end in the same character, so that what the
\* compressor finds first is all there is.
SiblingsDiffer(c) ==
  \A b \in Codes : \A e, f \in c.hash[b] :
     c.compress[e].ch = c.compress[f].ch => e = f
-----------------------------------------------------------------------------
\* What else the table keeps to, so that all of it together is inductive: the
\* limits are powers of two in step with the widths,
Sized(c) ==
  /\ c \in Ctrl
  /\ \E bits \in {LowBits, LowBits + 1} :
        c.min_table_entry = Shift[bits] /\ bits < c.cur_bits_in_use
  /\ c.cur_bits_in_use <= c.next_bits_in_use
  /\ c.free_limit = Shift[c.next_bits_in_use]
  /\ c.min_table_entry <= c.free_idx /\ c.free_idx < c.free_limit
  /\ c.next_entry < c.free_limit /\ c.cur_entry < c.free_limit

\* codes from free_idx on are unused until the table is full, and when the
\* next code is to be wider none is wider than this one,
Unused(c) ==
  \A e \in Codes : e >= c.free_idx =>
     /\ e # c.cur_entry /\ c.hash[e] = {} /\ e \notin OnChain(c)
     /\ c.compress[e] = [basecode |-> 0, ch |-> 0]

FreeIdxOK(c) ==
  \/ /\ c.cur_bits_in_use = ARC_MAX_BITS /\ c.next_bits_in_use = ARC_MAX_BITS
     /\ c.next_entry = c.free_idx
  \/ /\ c.next_entry < c.free_idx
     /\ Unused(c)
     /\ c.next_bits_in_use = ARC_MAX_BITS => c.free_idx + 1 < c.free_limit
     /\ c.cur_bits_in_use < c.next_bits_in_use
          => c.free_idx <= Shift[c.cur_bits_in_use]

\* and the entry that was used last is a leaf.
LastUsedIsLeaf(c) ==
  c.entry_used =>
    \/ c.cur_entry = NoEntry /\ c.next_bits_in_use < ARC_MAX_BITS
    \/ /\ c.cur_entry \in Leaves(c)
       /\ c.cur_entry # c.next_entry

TableInv(c) == /\ Sized(c)
               /\ FreeIdxOK(c)
               /\ LastUsedIsLeaf(c)
               /\ ChainsMatchEntries(c)
               /\ SpareEntriesAreFree(c)
               /\ CodesFitWidth(c)
               /\ SiblingsDiffer(c)
=============================================================================
