---------------------------- MODULE ArchiveProofs -----------------------------
(***************************************************************************)
(* The archives, for every text and every width of codes and characters.   *)
(*                                                                         *)
(* First the table: a new one is sound, and taking an entry, fresh or      *)
(* recycled, and linking it keep it so.  Then what a code stands for: a    *)
(* string is given by where in the text it was seen, and a code means the  *)
(* same in the table it was written with, which the compressor has, and in *)
(* the one before, which the expander has.  Then the compressor, step by   *)
(* step; the bits; and the expander, which gives back what was compressed. *)
(*                                                                         *)
(* The two sides never meet: what ties them together is a history of the   *)
(* codes, a turn for each, of which the program keeps nothing.  The        *)
(* invariant says that there is one.                                       *)
(***************************************************************************)
EXTENDS Archive, SequenceLemmas, SequenceTheorems, FiniteSetTheorems, WellFoundedInduction

-----------------------------------------------------------------------------
\* A set of numbers has a least element, and Least finds it.
LEMMA LeastIsLeast ==
  ASSUME NEW S, S \subseteq Nat, S # {}
  PROVE  Least(S) \in S /\ \A j \in S : Least(S) <= j
<1> DEFINE below == {0 .. x : x \in S}
<1>1. below \subseteq FiniteSubsetsOf(Nat) /\ below # {}
  <2>1. ASSUME NEW x \in S
        PROVE  0 .. x \in FiniteSubsetsOf(Nat)
    <3>1. IsFiniteSet(0 .. x)
      BY FS_Interval
    <3>2. 0 .. x \subseteq Nat
      OBVIOUS
    <3> QED
      BY <3>1, <3>2 DEF FiniteSubsetsOf
  <2> QED
    BY <2>1
<1>2. PICK t \in below : \A u \in below : ~ (<<u, t>> \in StrictSubsetOrdering(Nat))
  <2> HIDE DEF below
  <2> QED
    BY <1>1, FS_StrictSubsetOrderingWellFounded, WFMin
<1>3. PICK x \in S : t = 0 .. x
  BY <1>2
<1>4. \A y \in S : x <= y
  <2> SUFFICES ASSUME NEW y \in S, y < x
               PROVE  FALSE
    OBVIOUS
  <2>1. 0 .. y \subseteq 0 .. x /\ x \notin 0 .. y /\ x \in 0 .. x
    OBVIOUS
  <2>2. <<0 .. y, 0 .. x>> \in StrictSubsetOrdering(Nat)
    BY <2>1 DEF StrictSubsetOrdering
  <2> QED
    BY <1>2, <1>3, <2>2
<1> QED
  BY <1>3, <1>4 DEF Least

\* The powers of two, as far as the proofs need them.
LEMMA ShiftFacts ==
  /\ \A n \in 0 .. ARC_MAX_BITS : Shift[n] \in Nat /\ Shift[n] >= 1
  /\ \A m, n \in 0 .. ARC_MAX_BITS : m < n => Shift[m] < Shift[n]
  /\ \A m, n \in 0 .. ARC_MAX_BITS : m <= n => Shift[m] <= Shift[n]
  /\ \A n \in 0 .. ARC_MAX_BITS - 1 : n >= 1 => Shift[n] + 1 < Shift[n + 1]
<1> USE WidthAssumption, ShiftAssumption
<1>1. \A n \in 0 .. ARC_MAX_BITS : Shift[n] \in Nat
  OBVIOUS
<1>2. \A m, n \in 0 .. ARC_MAX_BITS : m < n => Shift[m] < Shift[n]
  OBVIOUS
<1>3. \A n \in 0 .. ARC_MAX_BITS : Shift[n] >= 1
  <2> TAKE n \in 0 .. ARC_MAX_BITS
  <2>1. CASE n = 0
    BY <2>1
  <2>2. CASE n > 0
    BY <1>1, <1>2, <2>2
  <2> QED
    BY <2>1, <2>2
<1>4. \A n \in 0 .. ARC_MAX_BITS - 1 : n >= 1 => Shift[n] + 1 < Shift[n + 1]
  <2> SUFFICES ASSUME NEW n \in 0 .. ARC_MAX_BITS - 1, n >= 1
               PROVE  Shift[n] + 1 < Shift[n + 1]
    OBVIOUS
  <2>1. Shift[0] < Shift[n]
    BY <1>2
  <2>2. Shift[n + 1] = 2 * Shift[n]
    OBVIOUS
  <2> QED
    BY <1>1, <2>1, <2>2
<1>5. \A m, n \in 0 .. ARC_MAX_BITS : m <= n => Shift[m] <= Shift[n]
  <2> SUFFICES ASSUME NEW m \in 0 .. ARC_MAX_BITS, NEW n \in 0 .. ARC_MAX_BITS,
                      m <= n
               PROVE  Shift[m] <= Shift[n]
    OBVIOUS
  <2>1. CASE m = n
    BY <1>1, <2>1
  <2>2. CASE m < n
    BY <1>1, <1>2, <2>2
  <2> QED
    BY <2>1, <2>2
<1> QED
  BY <1>1, <1>2, <1>3, <1>4, <1>5

-----------------------------------------------------------------------------
\* What a table that is Sized is made of.
LEMMA SizedFacts ==
  ASSUME NEW tbl, Sized(tbl)
  PROVE  /\ tbl.min_table_entry \in Nat /\ tbl.free_idx \in Nat /\ tbl.free_limit \in Nat
         /\ tbl.next_bits_in_use \in 1 .. ARC_MAX_BITS
         /\ tbl.cur_bits_in_use \in 1 .. ARC_MAX_BITS
         /\ tbl.free_limit <= Shift[ARC_MAX_BITS]
         /\ tbl.next_entry \in Codes \cup {NoEntry}
         /\ tbl.cur_entry \in Codes \cup {NoEntry}
         /\ tbl.entry_used \in BOOLEAN
         /\ tbl.compress \in [Codes -> Entry]
         /\ tbl.hash \in [Codes -> SUBSET Codes]
         /\ \A e \in tbl.min_table_entry .. tbl.free_limit - 1 : e \in Codes
         /\ tbl.min_table_entry < Shift[tbl.cur_bits_in_use]
<1> USE WidthAssumption
<1>1. tbl \in Ctrl
  BY DEF Sized
<1>2. /\ tbl.min_table_entry \in Nat /\ tbl.free_idx \in Nat /\ tbl.free_limit \in Nat
      /\ tbl.next_bits_in_use \in 0 .. ARC_MAX_BITS
      /\ tbl.cur_bits_in_use \in 0 .. ARC_MAX_BITS
      /\ tbl.next_entry \in Codes \cup {NoEntry}
      /\ tbl.cur_entry \in Codes \cup {NoEntry}
      /\ tbl.entry_used \in BOOLEAN
      /\ tbl.compress \in [Codes -> Entry]
      /\ tbl.hash \in [Codes -> SUBSET Codes]
  BY <1>1 DEF Ctrl
<1>3. PICK bits \in {LowBits, LowBits + 1} :
        tbl.min_table_entry = Shift[bits] /\ bits < tbl.cur_bits_in_use
  BY DEF Sized
<1>4. tbl.cur_bits_in_use >= 1 /\ tbl.next_bits_in_use >= 1
  BY <1>2, <1>3 DEF Sized
<1>5. tbl.free_limit <= Shift[ARC_MAX_BITS]
  BY <1>2, ShiftFacts DEF Sized
<1>6. \A e \in tbl.min_table_entry .. tbl.free_limit - 1 : e \in Codes
  BY <1>2, <1>5, ShiftFacts DEF Codes
<1>7. tbl.min_table_entry < Shift[tbl.cur_bits_in_use]
  BY <1>2, <1>3, ShiftFacts
<1> QED
  BY <1>2, <1>4, <1>5, <1>6, <1>7

-----------------------------------------------------------------------------
\* The widths a table starts with.
LEMMA MinBitsFacts ==
  ASSUME NEW type
  PROVE  /\ MinBits(type) \in {LowBits, LowBits + 1}
         /\ MinBits(type) \in 1 .. ARC_MAX_BITS - 2
BY WidthAssumption DEF MinBits

-----------------------------------------------------------------------------
\* What each operation leaves and what it changes, field by field.
LEMMA AdvancedFields ==
  ASSUME NEW tbl \in Ctrl
  PROVE  /\ Advanced(tbl) \in Ctrl
         /\ Advanced(tbl).min_table_entry = tbl.min_table_entry
         /\ Advanced(tbl).cur_entry = tbl.next_entry
         /\ Advanced(tbl).next_entry = tbl.next_entry
         /\ Advanced(tbl).cur_bits_in_use = tbl.next_bits_in_use
         /\ Advanced(tbl).next_bits_in_use = tbl.next_bits_in_use
         /\ Advanced(tbl).free_idx = tbl.free_idx
         /\ Advanced(tbl).free_limit = tbl.free_limit
         /\ Advanced(tbl).entry_used = FALSE
         /\ Advanced(tbl).compress = tbl.compress
         /\ Advanced(tbl).hash = tbl.hash
BY DEF Ctrl, Advanced

\* What taking a fresh entry does to each field.
LEMMA FreshFields ==
  ASSUME NEW tbl \in Ctrl, tbl.free_idx \in Codes,
         tbl.next_bits_in_use < ARC_MAX_BITS,
         NEW bits,
         bits = IF tbl.free_idx + 1 = tbl.free_limit THEN tbl.next_bits_in_use + 1
                                                 ELSE tbl.next_bits_in_use
  PROVE  /\ FreshEntry(tbl) \in Ctrl
         /\ FreshEntry(tbl).min_table_entry = tbl.min_table_entry
         /\ FreshEntry(tbl).cur_entry = tbl.cur_entry
         /\ FreshEntry(tbl).next_entry = tbl.free_idx
         /\ FreshEntry(tbl).cur_bits_in_use = tbl.cur_bits_in_use
         /\ FreshEntry(tbl).next_bits_in_use = bits
         /\ FreshEntry(tbl).free_idx = tbl.free_idx + 1
         /\ FreshEntry(tbl).free_limit =
              IF tbl.free_idx + 1 = tbl.free_limit THEN Shift[bits] ELSE tbl.free_limit
         /\ FreshEntry(tbl).entry_used = tbl.entry_used
         /\ FreshEntry(tbl).compress = tbl.compress
         /\ FreshEntry(tbl).hash = tbl.hash
<1> USE WidthAssumption
<1> DEFINE limit == IF tbl.free_idx + 1 = tbl.free_limit THEN Shift[bits] ELSE tbl.free_limit
<1>1. bits \in 0 .. ARC_MAX_BITS /\ tbl.free_idx + 1 \in Nat
  BY DEF Ctrl
<1>2. limit \in Nat
  BY <1>1, ShiftFacts DEF Ctrl
<1>3. FreshEntry(tbl) = [tbl EXCEPT !.next_entry = tbl.free_idx,
                                !.free_idx = tbl.free_idx + 1,
                                !.next_bits_in_use = bits,
                                !.free_limit = limit]
  BY DEF FreshEntry
<1> HIDE DEF limit
<1>4. /\ FreshEntry(tbl) \in Ctrl
      /\ FreshEntry(tbl).min_table_entry = tbl.min_table_entry
      /\ FreshEntry(tbl).cur_entry = tbl.cur_entry
      /\ FreshEntry(tbl).next_entry = tbl.free_idx
      /\ FreshEntry(tbl).cur_bits_in_use = tbl.cur_bits_in_use
      /\ FreshEntry(tbl).next_bits_in_use = bits
      /\ FreshEntry(tbl).free_idx = tbl.free_idx + 1
      /\ FreshEntry(tbl).free_limit = limit
      /\ FreshEntry(tbl).entry_used = tbl.entry_used
      /\ FreshEntry(tbl).compress = tbl.compress
      /\ FreshEntry(tbl).hash = tbl.hash
  BY <1>1, <1>2, <1>3 DEF Ctrl
<1> QED
  BY <1>4 DEF limit

\* The fields of a CArcCtrl before its first entry,
LEMMA ZeroedFields ==
  ASSUME NEW type
  PROVE  /\ Zeroed(type) \in Ctrl
         /\ Zeroed(type).min_table_entry = Shift[MinBits(type)]
         /\ Zeroed(type).cur_entry = NoEntry
         /\ Zeroed(type).next_entry = NoEntry
         /\ Zeroed(type).next_bits_in_use = MinBits(type) + 1
         /\ Zeroed(type).free_idx = Shift[MinBits(type)]
         /\ Zeroed(type).free_limit = Shift[MinBits(type) + 1]
         /\ Zeroed(type).entry_used = TRUE
         /\ Zeroed(type).compress = [i \in Codes |-> [basecode |-> 0, ch |-> 0]]
         /\ Zeroed(type).hash = [i \in Codes |-> {}]
<1> DEFINE bits == MinBits(type)
<1>1. /\ bits + 1 \in 0 .. ARC_MAX_BITS
      /\ Shift[bits] \in Nat /\ Shift[bits + 1] \in Nat
      /\ 0 \in Codes /\ 0 \in Chars
  BY MinBitsFacts, ShiftFacts, WidthAssumption DEF Codes, Chars
<1>2. [i \in Codes |-> [basecode |-> 0, ch |-> 0]] \in [Codes -> Entry]
  BY <1>1 DEF Entry
<1>3. [i \in Codes |-> {}] \in [Codes -> SUBSET Codes]
  OBVIOUS
<1> QED
  BY <1>1, <1>2, <1>3, WidthAssumption DEF Zeroed, Ctrl

\* ArcCtrlNew, field by field: one entry has been set aside.
LEMMA NewFields ==
  ASSUME NEW type
  PROVE  /\ ArcCtrlNew(type) \in Ctrl
         /\ ArcCtrlNew(type).min_table_entry = Shift[MinBits(type)]
         /\ ArcCtrlNew(type).cur_entry = NoEntry
         /\ ArcCtrlNew(type).next_entry = Shift[MinBits(type)]
         /\ ArcCtrlNew(type).cur_bits_in_use = MinBits(type) + 1
         /\ ArcCtrlNew(type).next_bits_in_use = MinBits(type) + 1
         /\ ArcCtrlNew(type).free_idx = Shift[MinBits(type)] + 1
         /\ ArcCtrlNew(type).free_limit = Shift[MinBits(type) + 1]
         /\ ArcCtrlNew(type).entry_used = TRUE
         /\ ArcCtrlNew(type).compress = [i \in Codes |-> [basecode |-> 0, ch |-> 0]]
         /\ ArcCtrlNew(type).hash = [i \in Codes |-> {}]
<1> DEFINE bits == MinBits(type)
           next == Advanced(Zeroed(type))
           taken == FreshEntry(next)
<1>1. /\ bits \in 1 .. ARC_MAX_BITS - 2
      /\ bits + 1 < ARC_MAX_BITS /\ Shift[bits] + 1 # Shift[bits + 1]
      /\ Shift[bits] \in Codes
  BY MinBitsFacts, ShiftFacts, WidthAssumption DEF Codes
<1>2. /\ next \in Ctrl
      /\ next.min_table_entry = Shift[bits]
      /\ next.cur_entry = NoEntry
      /\ next.cur_bits_in_use = bits + 1 /\ next.next_bits_in_use = bits + 1
      /\ next.free_idx = Shift[bits] /\ next.free_limit = Shift[bits + 1]
      /\ next.compress = [i \in Codes |-> [basecode |-> 0, ch |-> 0]]
      /\ next.hash = [i \in Codes |-> {}]
  <2> DEFINE zeroed == Zeroed(type)
             compress == [i \in Codes |-> [basecode |-> 0, ch |-> 0]]
             hash == [i \in Codes |-> {}]
  <2>1. /\ zeroed \in Ctrl
        /\ zeroed.min_table_entry = Shift[bits]
        /\ zeroed.next_entry = NoEntry
        /\ zeroed.next_bits_in_use = bits + 1
        /\ zeroed.free_idx = Shift[bits] /\ zeroed.free_limit = Shift[bits + 1]
        /\ zeroed.compress = compress /\ zeroed.hash = hash
    BY ZeroedFields
  <2> HIDE DEF zeroed, compress, hash, bits
  <2>2. /\ Advanced(zeroed) \in Ctrl
        /\ Advanced(zeroed).min_table_entry = Shift[bits]
        /\ Advanced(zeroed).cur_entry = NoEntry
        /\ Advanced(zeroed).cur_bits_in_use = bits + 1
        /\ Advanced(zeroed).next_bits_in_use = bits + 1
        /\ Advanced(zeroed).free_idx = Shift[bits]
        /\ Advanced(zeroed).free_limit = Shift[bits + 1]
        /\ Advanced(zeroed).compress = compress
        /\ Advanced(zeroed).hash = hash
    BY <2>1, AdvancedFields
  <2> QED
    BY <2>2 DEF zeroed, compress, hash
<1>3. ArcEntryGet(Zeroed(type)) = taken
  BY <1>1, ZeroedFields DEF ArcEntryGet
<1> HIDE DEF next
<1>4. /\ taken \in Ctrl
      /\ taken.min_table_entry = next.min_table_entry
      /\ taken.cur_entry = next.cur_entry
      /\ taken.next_entry = next.free_idx
      /\ taken.cur_bits_in_use = next.cur_bits_in_use
      /\ taken.next_bits_in_use = next.next_bits_in_use
      /\ taken.free_idx = next.free_idx + 1
      /\ taken.free_limit = next.free_limit
      /\ taken.compress = next.compress
      /\ taken.hash = next.hash
  BY <1>1, <1>2, FreshFields
<1> HIDE DEF taken, bits
<1>5. ArcCtrlNew(type) = [taken EXCEPT !.entry_used = TRUE]
  BY <1>3 DEF ArcCtrlNew
<1>6. /\ taken.min_table_entry = Shift[bits]
      /\ taken.cur_entry = NoEntry /\ taken.next_entry = Shift[bits]
      /\ taken.cur_bits_in_use = bits + 1 /\ taken.next_bits_in_use = bits + 1
      /\ taken.free_idx = Shift[bits] + 1 /\ taken.free_limit = Shift[bits + 1]
      /\ taken.compress = [i \in Codes |-> [basecode |-> 0, ch |-> 0]]
      /\ taken.hash = [i \in Codes |-> {}]
  BY <1>2, <1>4
<1>7. /\ ArcCtrlNew(type) \in Ctrl
      /\ ArcCtrlNew(type).min_table_entry = taken.min_table_entry
      /\ ArcCtrlNew(type).cur_entry = taken.cur_entry
      /\ ArcCtrlNew(type).next_entry = taken.next_entry
      /\ ArcCtrlNew(type).cur_bits_in_use = taken.cur_bits_in_use
      /\ ArcCtrlNew(type).next_bits_in_use = taken.next_bits_in_use
      /\ ArcCtrlNew(type).free_idx = taken.free_idx
      /\ ArcCtrlNew(type).free_limit = taken.free_limit
      /\ ArcCtrlNew(type).entry_used = TRUE
      /\ ArcCtrlNew(type).compress = taken.compress
      /\ ArcCtrlNew(type).hash = taken.hash
  BY <1>4, <1>5 DEF Ctrl
<1> QED
  BY <1>6, <1>7 DEF bits

-----------------------------------------------------------------------------
\* A new table is sound.
LEMMA NewTable ==
  ASSUME NEW type
  PROVE  /\ TableInv(ArcCtrlNew(type))
         /\ ArcCtrlNew(type).entry_used
         /\ ArcCtrlNew(type).min_table_entry = Shift[MinBits(type)]
<1> DEFINE tbl == ArcCtrlNew(type)
           bits == MinBits(type)
<1>1. /\ bits \in {LowBits, LowBits + 1}
      /\ bits \in 1 .. ARC_MAX_BITS - 2
      /\ Shift[bits] \in Nat /\ Shift[bits + 1] \in Nat
      /\ Shift[bits] >= 1
      /\ Shift[bits] + 1 < Shift[bits + 1]
      /\ Shift[bits] < Shift[ARC_MAX_BITS]
      /\ Shift[ARC_MAX_BITS] \in Nat /\ Shift[LowBits + 1] \in Nat
      /\ Shift[LowBits + 1] >= 1
      /\ ARC_MAX_BITS \in Nat
  BY MinBitsFacts, ShiftFacts, WidthAssumption
<1>2. /\ tbl.min_table_entry = Shift[bits]
      /\ tbl.cur_entry = NoEntry /\ tbl.next_entry = Shift[bits]
      /\ tbl.cur_bits_in_use = bits + 1 /\ tbl.next_bits_in_use = bits + 1
      /\ tbl.free_idx = Shift[bits] + 1 /\ tbl.free_limit = Shift[bits + 1]
      /\ tbl.entry_used = TRUE
      /\ tbl.compress = [i \in Codes |-> [basecode |-> 0, ch |-> 0]]
      /\ tbl.hash = [i \in Codes |-> {}]
  BY NewFields
<1>3. tbl \in Ctrl
  BY NewFields
<1> HIDE DEF tbl, bits
<1>4. OnChain(tbl) = {}
  BY <1>2, <1>1 DEF OnChain, Codes
<1>5. Sized(tbl)
  BY <1>1, <1>2, <1>3 DEF Sized, NoEntry
<1>6. FreeIdxOK(tbl) /\ LastUsedIsLeaf(tbl)
  BY <1>1, <1>2, <1>4 DEF FreeIdxOK, Unused, LastUsedIsLeaf, NoEntry, Codes
<1>7. ChainsMatchEntries(tbl) /\ SiblingsDiffer(tbl)
  BY <1>2, <1>4 DEF ChainsMatchEntries, SiblingsDiffer
<1>8. SpareEntriesAreFree(tbl)
  BY <1>1, <1>2, <1>4 DEF SpareEntriesAreFree, IsSpare, Literal, Codes
<1>9. CodesFitWidth(tbl)
  BY <1>1, <1>2, <1>4, ShiftFacts DEF CodesFitWidth
<1> QED
  BY <1>2, <1>5, <1>6, <1>7, <1>8, <1>9 DEF TableInv, tbl, bits

-----------------------------------------------------------------------------
\* The leaf that is found: not free_idx if there is any other, and beyond it if
\* there is one beyond.
LEMMA NextLeafFacts ==
  ASSUME NEW tbl, tbl.min_table_entry \in Nat, tbl.free_limit \in Nat, tbl.free_idx \in Nat,
         Leaves(tbl) # {}
  PROVE  /\ NextLeaf(tbl) \in Leaves(tbl)
         /\ \A j \in Leaves(tbl) : j # tbl.free_idx => NextLeaf(tbl) # tbl.free_idx
         /\ \A j \in Leaves(tbl) : j > tbl.free_idx => NextLeaf(tbl) > tbl.free_idx
<1> DEFINE above == {i \in Leaves(tbl) : i > tbl.free_idx}
<1>1. Leaves(tbl) \subseteq Nat
  BY DEF Leaves
<1>2. CASE above # {}
  <2>1. Least(above) \in above
    BY <1>1, <1>2, LeastIsLeast
  <2> QED
    BY <1>1, <1>2, <2>1 DEF NextLeaf
<1>3. CASE above = {}
  <2>1. Least(Leaves(tbl)) \in Leaves(tbl) /\ \A j \in Leaves(tbl) : Least(Leaves(tbl)) <= j
    BY <1>1, LeastIsLeast
  <2>2. NextLeaf(tbl) = Least(Leaves(tbl))
    BY <1>3 DEF NextLeaf
  <2> QED
    BY <1>1, <1>3, <2>1, <2>2
<1> QED
  BY <1>2, <1>3

\* What taking an entry of a full table does to each field.
LEMMA RecycledFields ==
  ASSUME NEW tbl \in Ctrl, NEW i \in Codes, i = NextLeaf(tbl)
  PROVE  /\ RecycledEntry(tbl) \in Ctrl
         /\ RecycledEntry(tbl).min_table_entry = tbl.min_table_entry
         /\ RecycledEntry(tbl).cur_entry = tbl.cur_entry
         /\ RecycledEntry(tbl).next_entry = i
         /\ RecycledEntry(tbl).cur_bits_in_use = tbl.cur_bits_in_use
         /\ RecycledEntry(tbl).next_bits_in_use = tbl.next_bits_in_use
         /\ RecycledEntry(tbl).free_idx = i
         /\ RecycledEntry(tbl).free_limit = tbl.free_limit
         /\ RecycledEntry(tbl).entry_used = tbl.entry_used
         /\ RecycledEntry(tbl).compress = tbl.compress
         /\ RecycledEntry(tbl).hash =
              [tbl.hash EXCEPT ![tbl.compress[i].basecode] = @ \ {i}]
<1> DEFINE hash == [tbl.hash EXCEPT ![tbl.compress[i].basecode] = @ \ {i}]
<1>1. hash \in [Codes -> SUBSET Codes]
  BY DEF Ctrl
<1>2. i \in Nat
  BY ShiftFacts, WidthAssumption DEF Codes
<1>3. RecycledEntry(tbl) = [tbl EXCEPT !.next_entry = i, !.free_idx = i, !.hash = hash]
  BY DEF RecycledEntry
<1> HIDE DEF hash
<1>4. /\ RecycledEntry(tbl) \in Ctrl
      /\ RecycledEntry(tbl).min_table_entry = tbl.min_table_entry
      /\ RecycledEntry(tbl).cur_entry = tbl.cur_entry
      /\ RecycledEntry(tbl).next_entry = i
      /\ RecycledEntry(tbl).cur_bits_in_use = tbl.cur_bits_in_use
      /\ RecycledEntry(tbl).next_bits_in_use = tbl.next_bits_in_use
      /\ RecycledEntry(tbl).free_idx = i
      /\ RecycledEntry(tbl).free_limit = tbl.free_limit
      /\ RecycledEntry(tbl).entry_used = tbl.entry_used
      /\ RecycledEntry(tbl).compress = tbl.compress
      /\ RecycledEntry(tbl).hash = hash
  BY <1>1, <1>2, <1>3 DEF Ctrl
<1> QED
  BY <1>4 DEF hash

-----------------------------------------------------------------------------
\* A fresh entry leaves a sound table.
LEMMA FreshTable ==
  ASSUME NEW tbl, TableInv(tbl), tbl.entry_used, tbl.next_bits_in_use < ARC_MAX_BITS
  PROVE  /\ TableInv(ArcEntryGet(tbl))
         /\ ~ArcEntryGet(tbl).entry_used
         /\ ArcEntryGet(tbl).min_table_entry = tbl.min_table_entry
         /\ ArcEntryGet(tbl).cur_bits_in_use = tbl.next_bits_in_use
         /\ ArcEntryGet(tbl).compress = tbl.compress
         /\ OnChain(ArcEntryGet(tbl)) \subseteq OnChain(tbl)
<1> USE WidthAssumption
<1> DEFINE a == Advanced(tbl)
           new == ArcEntryGet(tbl)
           bits == IF tbl.free_idx + 1 = tbl.free_limit THEN tbl.next_bits_in_use + 1
                                                    ELSE tbl.next_bits_in_use
<1>1. Sized(tbl) /\ tbl \in Ctrl
  BY DEF TableInv, Sized
<1>2. /\ tbl.min_table_entry \in Nat /\ tbl.free_idx \in Nat /\ tbl.free_limit \in Nat
      /\ tbl.next_bits_in_use \in 1 .. ARC_MAX_BITS
      /\ tbl.cur_bits_in_use \in 1 .. ARC_MAX_BITS
      /\ tbl.free_idx \in Codes
  BY <1>1, SizedFacts DEF Sized
<1>3. tbl.next_entry < tbl.free_idx /\ Unused(tbl)
  BY <1>2 DEF TableInv, FreeIdxOK
<1>4. /\ a \in Ctrl
      /\ a.min_table_entry = tbl.min_table_entry
      /\ a.cur_entry = tbl.next_entry
      /\ a.cur_bits_in_use = tbl.next_bits_in_use
      /\ a.next_bits_in_use = tbl.next_bits_in_use
      /\ a.free_idx = tbl.free_idx /\ a.free_limit = tbl.free_limit
      /\ a.entry_used = FALSE
      /\ a.compress = tbl.compress /\ a.hash = tbl.hash
  BY <1>1, AdvancedFields
<1>5. new = FreshEntry(a)
  BY DEF ArcEntryGet
<1> HIDE DEF a, new
<1>6. /\ new \in Ctrl
      /\ new.min_table_entry = tbl.min_table_entry
      /\ new.cur_entry = tbl.next_entry
      /\ new.next_entry = tbl.free_idx
      /\ new.cur_bits_in_use = tbl.next_bits_in_use
      /\ new.next_bits_in_use = bits
      /\ new.free_idx = tbl.free_idx + 1
      /\ new.free_limit = IF tbl.free_idx + 1 = tbl.free_limit THEN Shift[bits]
                                                           ELSE tbl.free_limit
      /\ new.entry_used = FALSE
      /\ new.compress = tbl.compress /\ new.hash = tbl.hash
  BY <1>2, <1>4, <1>5, FreshFields
<1>7. OnChain(new) = OnChain(tbl)
  BY <1>6 DEF OnChain
<1>8. /\ tbl.free_limit = Shift[tbl.next_bits_in_use]
      /\ tbl.free_idx < tbl.free_limit /\ tbl.min_table_entry <= tbl.free_idx
      /\ tbl.cur_bits_in_use <= tbl.next_bits_in_use
  BY <1>1 DEF Sized
<1>9. /\ bits \in 1 .. ARC_MAX_BITS /\ tbl.next_bits_in_use <= bits
      /\ new.free_limit = Shift[bits]
      /\ tbl.free_idx + 1 < new.free_limit
      /\ tbl.free_limit <= new.free_limit
  BY <1>2, <1>6, <1>8, ShiftFacts
<1>10. tbl.next_entry \in Codes /\ IsSpare(tbl, tbl.next_entry)
  BY DEF TableInv, SpareEntriesAreFree, IsSpare
<1>11. Codes \subseteq Int
  BY DEF Codes
<1>12. Sized(new)
  <2>1. PICK low \in {LowBits, LowBits + 1} :
          tbl.min_table_entry = Shift[low] /\ low < tbl.cur_bits_in_use
    BY <1>1 DEF Sized
  <2>2. new.min_table_entry = Shift[low] /\ low < new.cur_bits_in_use
    BY <1>2, <1>6, <1>8, <2>1
  <2>3. new.next_entry < new.free_limit /\ new.cur_entry < new.free_limit
    <3>1. new.free_limit \in Nat
      BY <1>6 DEF Ctrl
    <3>2. tbl.next_entry \in Int
      BY <1>10, <1>11
    <3> QED
      BY <1>2, <1>3, <1>6, <1>9, <3>1, <3>2
  <2>4. /\ new.min_table_entry <= new.free_idx /\ new.free_idx < new.free_limit
        /\ new.cur_bits_in_use <= new.next_bits_in_use
        /\ new.free_limit = Shift[new.next_bits_in_use]
    BY <1>2, <1>6, <1>8, <1>9
  <2> HIDE DEF bits
  <2>5. new \in Ctrl
    BY <1>6
  <2>6. \E b \in {LowBits, LowBits + 1} :
          new.min_table_entry = Shift[b] /\ b < new.cur_bits_in_use
    BY <2>2
  <2> QED
    BY <2>3, <2>4, <2>5, <2>6 DEF Sized
<1>13. FreeIdxOK(new)
  <2>1. Unused(new)
    BY <1>2, <1>3, <1>6, <1>7, <1>10, <1>11 DEF Unused
  <2>2. bits = ARC_MAX_BITS => tbl.free_idx + 1 + 1 < new.free_limit
    BY <1>2, <1>8, <1>9, ShiftFacts
  <2>3. tbl.next_bits_in_use < bits => tbl.free_idx + 1 <= Shift[tbl.next_bits_in_use]
    <3>1. CASE tbl.free_idx + 1 = tbl.free_limit
      <4>1. Shift[tbl.next_bits_in_use] \in Nat
        BY <1>2, ShiftFacts
      <4> QED
        BY <1>8, <3>1, <4>1
    <3>2. CASE tbl.free_idx + 1 # tbl.free_limit
      BY <1>2, <3>2
    <3> QED
      BY <3>1, <3>2
  <2> HIDE DEF bits
  <2> QED
    BY <1>2, <1>6, <2>1, <2>2, <2>3 DEF FreeIdxOK
<1>14. LastUsedIsLeaf(new)
  BY <1>6 DEF LastUsedIsLeaf
<1>15. ChainsMatchEntries(new) /\ SiblingsDiffer(new)
  BY <1>6, <1>7 DEF TableInv, ChainsMatchEntries, SiblingsDiffer, Literal
<1>16. SpareEntriesAreFree(new)
  <2>1. IsSpare(tbl, tbl.free_idx)
    BY <1>2, <1>3, <1>8 DEF IsSpare, Unused, Literal
  <2> QED
    BY <1>2, <1>3, <1>6, <1>7, <1>10, <1>11, <2>1
    DEF SpareEntriesAreFree, IsSpare, Literal
<1>17. CodesFitWidth(new)
  <2>1. tbl.min_table_entry <= Shift[tbl.next_bits_in_use]
    BY <1>2, <1>8, ShiftFacts
  <2>2. \A e \in OnChain(tbl) : e < Shift[tbl.next_bits_in_use]
    BY DEF TableInv, CodesFitWidth, WidthInUse
  <2> QED
    BY <1>6, <1>7, <2>1, <2>2 DEF CodesFitWidth, WidthInUse
<1> QED
  BY <1>6, <1>7, <1>12, <1>13, <1>14, <1>15, <1>16, <1>17 DEF TableInv, new

-----------------------------------------------------------------------------
\* In a full table there is a leaf to give up, and it is not the entry that was
\* set aside.
LEMMA LeafGivenUp ==
  ASSUME NEW tbl, TableInv(tbl), tbl.entry_used, tbl.next_bits_in_use = ARC_MAX_BITS
  PROVE  /\ NextLeaf(Advanced(tbl)) \in Leaves(tbl)
         /\ NextLeaf(Advanced(tbl)) # tbl.next_entry
<1> USE WidthAssumption
<1> DEFINE a == Advanced(tbl)
<1>1. Sized(tbl) /\ tbl \in Ctrl
  BY DEF TableInv, Sized
<1>2. /\ tbl.min_table_entry \in Nat /\ tbl.free_idx \in Nat /\ tbl.free_limit \in Nat
      /\ tbl.min_table_entry <= tbl.free_idx
      /\ \A e \in tbl.min_table_entry .. tbl.free_limit - 1 : e \in Codes
  BY <1>1, SizedFacts DEF Sized
<1>3. /\ a.min_table_entry = tbl.min_table_entry
      /\ a.free_idx = tbl.free_idx /\ a.free_limit = tbl.free_limit
      /\ a.hash = tbl.hash
  BY <1>1, AdvancedFields
<1> HIDE DEF a
<1>4. Leaves(a) = Leaves(tbl)
  BY <1>3 DEF Leaves
<1>5. tbl.cur_entry \in Leaves(tbl) /\ tbl.cur_entry # tbl.next_entry
  BY DEF TableInv, LastUsedIsLeaf
<1>6. /\ NextLeaf(a) \in Leaves(tbl)
      /\ \A j \in Leaves(tbl) : j # tbl.free_idx => NextLeaf(a) # tbl.free_idx
      /\ \A j \in Leaves(tbl) : j > tbl.free_idx => NextLeaf(a) > tbl.free_idx
  <2>1. a.min_table_entry \in Nat /\ a.free_limit \in Nat /\ a.free_idx \in Nat
    BY <1>2, <1>3
  <2>2. Leaves(a) # {}
    BY <1>4, <1>5
  <2> QED
    BY <1>3, <1>4, <2>1, <2>2, NextLeafFacts
<1>7. CASE tbl.next_entry = tbl.free_idx
  BY <1>5, <1>6, <1>7 DEF a
<1>8. CASE /\ tbl.next_entry < tbl.free_idx
           /\ Unused(tbl)
           /\ tbl.free_idx + 1 < tbl.free_limit
  <2>1. tbl.free_idx + 1 \in tbl.min_table_entry .. tbl.free_limit - 1
    BY <1>2, <1>8
  <2>2. tbl.free_idx + 1 \in Leaves(tbl)
    BY <1>2, <1>8, <2>1 DEF Unused, Leaves
  <2>3. NextLeaf(a) > tbl.free_idx /\ NextLeaf(a) \in Int
    BY <1>2, <1>6, <2>2 DEF Leaves
  <2>4. NextLeaf(a) # tbl.next_entry
    BY <1>2, <1>8, <2>3
  <2> QED
    BY <1>6, <2>4 DEF a
<1> QED
  BY <1>7, <1>8 DEF TableInv, FreeIdxOK

\* An entry that is used again leaves a sound table.
LEMMA RecycledTable ==
  ASSUME NEW tbl, TableInv(tbl), tbl.entry_used, tbl.next_bits_in_use = ARC_MAX_BITS
  PROVE  /\ TableInv(ArcEntryGet(tbl))
         /\ ~ArcEntryGet(tbl).entry_used
         /\ ArcEntryGet(tbl).min_table_entry = tbl.min_table_entry
         /\ ArcEntryGet(tbl).cur_bits_in_use = tbl.next_bits_in_use
         /\ ArcEntryGet(tbl).compress = tbl.compress
         /\ OnChain(ArcEntryGet(tbl)) \subseteq OnChain(tbl)
<1> USE WidthAssumption
<1> DEFINE a == Advanced(tbl)
           new == ArcEntryGet(tbl)
           i == NextLeaf(a)
<1>1. Sized(tbl) /\ tbl \in Ctrl
  BY DEF TableInv, Sized
<1>2. /\ tbl.min_table_entry \in Nat /\ tbl.free_idx \in Nat /\ tbl.free_limit \in Nat
      /\ tbl.compress \in [Codes -> Entry] /\ tbl.hash \in [Codes -> SUBSET Codes]
      /\ \A e \in tbl.min_table_entry .. tbl.free_limit - 1 : e \in Codes
      /\ tbl.min_table_entry < Shift[tbl.cur_bits_in_use]
      /\ tbl.cur_bits_in_use \in 1 .. ARC_MAX_BITS
  BY <1>1, SizedFacts
<1>3. /\ a \in Ctrl
      /\ a.min_table_entry = tbl.min_table_entry
      /\ a.cur_entry = tbl.next_entry
      /\ a.cur_bits_in_use = ARC_MAX_BITS /\ a.next_bits_in_use = ARC_MAX_BITS
      /\ a.free_limit = tbl.free_limit
      /\ a.entry_used = FALSE
      /\ a.compress = tbl.compress /\ a.hash = tbl.hash
  BY <1>1, AdvancedFields
<1>4. i \in Leaves(tbl) /\ i # tbl.next_entry
  BY LeafGivenUp
<1>5. new = RecycledEntry(a)
  BY DEF ArcEntryGet
<1>6. /\ i \in Codes /\ tbl.hash[i] = {}
      /\ tbl.min_table_entry <= i /\ i < tbl.free_limit /\ i \in Nat
  BY <1>2, <1>4 DEF Leaves
<1> DEFINE b == tbl.compress[i].basecode
<1> HIDE DEF a, new, b
<1>7. /\ new \in Ctrl
      /\ new.min_table_entry = tbl.min_table_entry
      /\ new.cur_entry = tbl.next_entry /\ new.next_entry = i
      /\ new.cur_bits_in_use = ARC_MAX_BITS /\ new.next_bits_in_use = ARC_MAX_BITS
      /\ new.free_idx = i /\ new.free_limit = tbl.free_limit
      /\ new.entry_used = FALSE
      /\ new.compress = tbl.compress
      /\ new.hash = [tbl.hash EXCEPT ![b] = @ \ {i}]
  BY <1>3, <1>5, <1>6, RecycledFields DEF b
<1> HIDE DEF i
<1>8. b \in Codes
  BY <1>2, <1>6 DEF b, Entry
<1>9. ChainsMatchEntries(tbl)
  BY DEF TableInv
<1>10. \A x \in Codes : new.hash[x] = tbl.hash[x] \ {i}
  <2> TAKE x \in Codes
  <2>1. CASE x = b
    BY <1>2, <1>7, <1>8, <2>1
  <2>2. CASE x # b
    BY <1>2, <1>6, <1>7, <1>8, <1>9, <2>2 DEF ChainsMatchEntries, b
  <2> QED
    BY <2>1, <2>2
<1>11. OnChain(new) = OnChain(tbl) \ {i}
  <2>1. \A e \in Codes : tbl.compress[e].basecode \in Codes
    BY <1>2 DEF Entry
  <2> QED
    BY <1>7, <1>10, <2>1 DEF OnChain
<1>12. /\ tbl.next_entry \in Codes /\ IsSpare(tbl, tbl.next_entry)
       /\ tbl.free_limit = Shift[tbl.next_bits_in_use]
       /\ tbl.next_entry < tbl.free_limit
  BY <1>1 DEF TableInv, SpareEntriesAreFree, IsSpare, Sized
<1>13. Sized(new)
  <2>1. PICK low \in {LowBits, LowBits + 1} :
          tbl.min_table_entry = Shift[low] /\ low < tbl.cur_bits_in_use
    BY <1>1 DEF Sized
  <2>2. new.min_table_entry = Shift[low] /\ low < new.cur_bits_in_use
    BY <1>2, <1>7, <2>1
  <2>3. new.next_entry < new.free_limit /\ new.cur_entry < new.free_limit
    BY <1>6, <1>7, <1>12
  <2>4. /\ new.min_table_entry <= new.free_idx /\ new.free_idx < new.free_limit
        /\ new.cur_bits_in_use <= new.next_bits_in_use
        /\ new.free_limit = Shift[new.next_bits_in_use]
    BY <1>6, <1>7, <1>12
  <2> QED
    BY <1>7, <2>2, <2>3, <2>4 DEF Sized
<1>14. FreeIdxOK(new) /\ LastUsedIsLeaf(new)
  BY <1>7 DEF FreeIdxOK, LastUsedIsLeaf
<1>15. ChainsMatchEntries(new)
  BY <1>6, <1>7, <1>9, <1>10, <1>11 DEF ChainsMatchEntries, Literal
<1>16. SiblingsDiffer(new)
  BY <1>7, <1>10 DEF TableInv, SiblingsDiffer
<1>17. SpareEntriesAreFree(new)
  <2>1. IsSpare(new, i)
    BY <1>2, <1>6, <1>7, <1>10, <1>11 DEF IsSpare, Literal
  <2>2. IsSpare(new, tbl.next_entry)
    BY <1>7, <1>10, <1>11, <1>12 DEF IsSpare, Literal
  <2> QED
    BY <1>4, <1>7, <2>1, <2>2 DEF SpareEntriesAreFree, i
<1>18. CodesFitWidth(new)
  <2>1. tbl.min_table_entry <= Shift[ARC_MAX_BITS]
    BY <1>2, ShiftFacts
  <2>2. \A e \in OnChain(tbl) : e < Shift[ARC_MAX_BITS]
    BY DEF TableInv, CodesFitWidth, WidthInUse
  <2> QED
    BY <1>7, <1>11, <2>1, <2>2 DEF CodesFitWidth, WidthInUse
<1> QED
  BY <1>7, <1>11, <1>13, <1>14, <1>15, <1>16, <1>17, <1>18 DEF TableInv, new

-----------------------------------------------------------------------------
\* Taking an entry leaves a sound table, whichever way the entry is had.
LEMMA GetEntry ==
  ASSUME NEW tbl, TableInv(tbl), tbl.entry_used
  PROVE  /\ TableInv(ArcEntryGet(tbl))
         /\ ~ArcEntryGet(tbl).entry_used
         /\ ArcEntryGet(tbl).min_table_entry = tbl.min_table_entry
         /\ ArcEntryGet(tbl).cur_bits_in_use = tbl.next_bits_in_use
         /\ ArcEntryGet(tbl).compress = tbl.compress
         /\ OnChain(ArcEntryGet(tbl)) \subseteq OnChain(tbl)
<1>1. tbl.next_bits_in_use \in 1 .. ARC_MAX_BITS
  BY SizedFacts DEF TableInv
<1>2. tbl.next_bits_in_use < ARC_MAX_BITS \/ tbl.next_bits_in_use = ARC_MAX_BITS
  BY <1>1, WidthAssumption
<1> QED
  BY <1>2, FreshTable, RecycledTable

-----------------------------------------------------------------------------
\* What linking the current entry leaves as it is,
LEMMA LinkedFields ==
  ASSUME NEW tbl \in Ctrl, tbl.cur_entry \in Codes,
         NEW basis \in Codes, NEW ch \in Chars
  PROVE  /\ Linked(tbl, basis, ch) \in Ctrl
         /\ Linked(tbl, basis, ch).min_table_entry = tbl.min_table_entry
         /\ Linked(tbl, basis, ch).cur_entry = tbl.cur_entry
         /\ Linked(tbl, basis, ch).next_entry = tbl.next_entry
         /\ Linked(tbl, basis, ch).cur_bits_in_use = tbl.cur_bits_in_use
         /\ Linked(tbl, basis, ch).next_bits_in_use = tbl.next_bits_in_use
         /\ Linked(tbl, basis, ch).free_idx = tbl.free_idx
         /\ Linked(tbl, basis, ch).free_limit = tbl.free_limit
         /\ Linked(tbl, basis, ch).entry_used = TRUE
<1>1. [basecode |-> basis, ch |-> ch] \in Entry
  BY DEF Entry
<1> QED
  BY <1>1 DEF Ctrl, Linked

\* and what it changes.
LEMMA LinkedChains ==
  ASSUME NEW tbl \in Ctrl, tbl.cur_entry \in Codes,
         NEW basis \in Codes, NEW ch \in Chars
  PROVE  /\ Linked(tbl, basis, ch).compress[tbl.cur_entry].basecode = basis
         /\ Linked(tbl, basis, ch).compress[tbl.cur_entry].ch = ch
         /\ \A e \in Codes : e # tbl.cur_entry =>
              Linked(tbl, basis, ch).compress[e] = tbl.compress[e]
         /\ Linked(tbl, basis, ch).hash[basis] =
              tbl.hash[basis] \cup {tbl.cur_entry}
         /\ \A x \in Codes : x # basis =>
              Linked(tbl, basis, ch).hash[x] = tbl.hash[x]
BY DEF Ctrl, Linked

\* Linking the current entry to a string there is, with a character that string
\* does not go on with yet, leaves a sound table.
LEMMA LinkEntry ==
  ASSUME NEW tbl, TableInv(tbl), ~tbl.entry_used,
         NEW basis \in Codes, NEW ch \in Chars,
         Literal(tbl, basis) \/ basis \in OnChain(tbl),
         \A e \in tbl.hash[basis] : tbl.compress[e].ch # ch
  PROVE  /\ TableInv(Linked(tbl, basis, ch))
         /\ Linked(tbl, basis, ch).entry_used
         /\ Linked(tbl, basis, ch).min_table_entry = tbl.min_table_entry
         /\ OnChain(Linked(tbl, basis, ch)) = OnChain(tbl) \cup {tbl.cur_entry}
<1> USE WidthAssumption
<1> DEFINE new == Linked(tbl, basis, ch)
           cur == tbl.cur_entry
<1>1. /\ Sized(tbl) /\ tbl \in Ctrl /\ FreeIdxOK(tbl) /\ ChainsMatchEntries(tbl)
      /\ SpareEntriesAreFree(tbl) /\ CodesFitWidth(tbl) /\ SiblingsDiffer(tbl)
  BY DEF TableInv, Sized
<1>2. /\ tbl.min_table_entry \in Nat /\ tbl.free_idx \in Nat /\ tbl.free_limit \in Nat
      /\ tbl.next_bits_in_use \in 1 .. ARC_MAX_BITS
      /\ tbl.cur_bits_in_use \in 1 .. ARC_MAX_BITS
      /\ tbl.compress \in [Codes -> Entry] /\ tbl.hash \in [Codes -> SUBSET Codes]
      /\ tbl.min_table_entry <= tbl.free_idx
      /\ tbl.free_limit = Shift[tbl.next_bits_in_use]
      /\ tbl.cur_bits_in_use <= tbl.next_bits_in_use
      /\ cur < tbl.free_limit
  BY <1>1, SizedFacts DEF Sized
<1>3. /\ cur \in Codes /\ cur \notin OnChain(tbl) /\ tbl.hash[cur] = {}
      /\ ~Literal(tbl, cur) /\ cur # tbl.next_entry
      /\ IsSpare(tbl, tbl.next_entry)
  BY <1>1 DEF SpareEntriesAreFree, IsSpare
<1>4. basis # cur /\ basis # tbl.next_entry
  BY <1>3 DEF IsSpare
<1>5. \A x \in Codes : cur \notin tbl.hash[x]
  BY <1>1, <1>3 DEF ChainsMatchEntries, OnChain
<1>6. /\ new \in Ctrl
      /\ new.min_table_entry = tbl.min_table_entry
      /\ new.cur_entry = cur /\ new.next_entry = tbl.next_entry
      /\ new.cur_bits_in_use = tbl.cur_bits_in_use
      /\ new.next_bits_in_use = tbl.next_bits_in_use
      /\ new.free_idx = tbl.free_idx /\ new.free_limit = tbl.free_limit
      /\ new.entry_used = TRUE
  <2>1. tbl \in Ctrl /\ tbl.cur_entry \in Codes
    BY <1>1, <1>3
  <2> QED
    BY <2>1, LinkedFields
<1>7. /\ new.compress[cur].basecode = basis /\ new.compress[cur].ch = ch
      /\ \A e \in Codes : e # cur => new.compress[e] = tbl.compress[e]
  BY <1>1, <1>3, LinkedChains
<1>8. /\ new.hash[basis] = tbl.hash[basis] \cup {cur}
      /\ \A x \in Codes : x # basis => new.hash[x] = tbl.hash[x]
  BY <1>1, <1>3, LinkedChains
<1> HIDE DEF new, cur
<1>9. OnChain(new) = OnChain(tbl) \cup {cur}
  <2>1. cur \in OnChain(new)
    BY <1>3, <1>7, <1>8 DEF OnChain
  <2>2. ASSUME NEW e \in Codes, e # cur
        PROVE  e \in OnChain(new) <=> e \in OnChain(tbl)
    <3>1. new.compress[e].basecode = tbl.compress[e].basecode
          /\ tbl.compress[e].basecode \in Codes
      BY <1>2, <1>7, <2>2 DEF Entry
    <3>2. e \in new.hash[tbl.compress[e].basecode] <=> e \in tbl.hash[tbl.compress[e].basecode]
      BY <1>8, <2>2, <3>1
    <3> QED
      BY <3>1, <3>2 DEF OnChain
  <2> QED
    BY <1>3, <2>1, <2>2 DEF OnChain
<1>10. Sized(new)
  <2>1. PICK low \in {LowBits, LowBits + 1} :
          tbl.min_table_entry = Shift[low] /\ low < tbl.cur_bits_in_use
    BY <1>1 DEF Sized
  <2>2. new.min_table_entry = Shift[low] /\ low < new.cur_bits_in_use
    BY <1>6, <2>1
  <2>3. /\ new.next_entry < new.free_limit /\ new.cur_entry < new.free_limit
        /\ new.min_table_entry <= new.free_idx /\ new.free_idx < new.free_limit
        /\ new.cur_bits_in_use <= new.next_bits_in_use
        /\ new.free_limit = Shift[new.next_bits_in_use]
    BY <1>1, <1>6 DEF Sized, cur
  <2> QED
    BY <1>6, <2>2, <2>3 DEF Sized
<1>11. FreeIdxOK(new)
  <2>1. ASSUME Unused(tbl), NEW e \in Codes, e >= tbl.free_idx
        PROVE  /\ e # cur /\ new.hash[e] = {} /\ e \notin OnChain(new)
               /\ new.compress[e] = [basecode |-> 0, ch |-> 0]
    <3>1. /\ e # cur /\ tbl.hash[e] = {} /\ e \notin OnChain(tbl)
          /\ tbl.compress[e] = [basecode |-> 0, ch |-> 0]
      BY <2>1 DEF Unused, cur
    <3>2. e \in Int
      BY DEF Codes
    <3>3. ~Literal(tbl, e)
      BY <1>2, <2>1, <3>2 DEF Literal
    <3>4. e # basis
      BY <3>1, <3>3
    <3> QED
      BY <1>7, <1>8, <1>9, <3>1, <3>4
  <2>2. Unused(tbl) => Unused(new)
    BY <1>6, <2>1 DEF Unused
  <2> QED
    BY <1>1, <1>6, <2>2 DEF FreeIdxOK
<1>12. LastUsedIsLeaf(new)
  <2>1. cur \in Int /\ ~ (cur < tbl.min_table_entry)
    BY <1>3 DEF Codes, Literal
  <2>2. cur \in tbl.min_table_entry .. tbl.free_limit - 1
    BY <1>2, <2>1
  <2>3. new.hash[cur] = {}
    BY <1>3, <1>4, <1>8
  <2> QED
    BY <1>3, <1>6, <2>2, <2>3 DEF LastUsedIsLeaf, Leaves
<1>13. ChainsMatchEntries(new)
  <2>1. \A x, e \in Codes : e \in new.hash[x] => new.compress[e].basecode = x
    <3> SUFFICES ASSUME NEW x \in Codes, NEW e \in Codes, e \in new.hash[x]
                 PROVE  new.compress[e].basecode = x
      OBVIOUS
    <3>1. CASE e = cur
      BY <1>5, <1>7, <1>8, <3>1
    <3>2. CASE e # cur
      <4>1. e \in tbl.hash[x]
        BY <1>8, <3>2
      <4> QED
        BY <1>1, <1>7, <3>2, <4>1 DEF ChainsMatchEntries
    <3> QED
      BY <3>1, <3>2
  <2>2. \A e \in Codes : new.hash[e] # {} => Literal(new, e) \/ e \in OnChain(new)
    BY <1>1, <1>6, <1>8, <1>9 DEF ChainsMatchEntries, Literal
  <2>3. \A e \in OnChain(new) : ~Literal(new, e)
    BY <1>1, <1>3, <1>6, <1>9 DEF ChainsMatchEntries, Literal
  <2> QED
    BY <2>1, <2>2, <2>3 DEF ChainsMatchEntries
<1>14. SpareEntriesAreFree(new)
  BY <1>3, <1>4, <1>6, <1>8, <1>9 DEF SpareEntriesAreFree, IsSpare, Literal
<1>15. CodesFitWidth(new)
  <2>1. /\ tbl.min_table_entry <= Shift[tbl.cur_bits_in_use]
        /\ \A e \in OnChain(tbl) : e < Shift[tbl.cur_bits_in_use]
    BY <1>1 DEF CodesFitWidth, WidthInUse
  <2>2. Shift[tbl.cur_bits_in_use] <= Shift[tbl.next_bits_in_use]
        /\ Shift[tbl.cur_bits_in_use] \in Nat /\ Shift[tbl.next_bits_in_use] \in Nat
    BY <1>2, ShiftFacts
  <2>3. \A e \in OnChain(tbl) : e < Shift[tbl.next_bits_in_use]
    BY <2>1, <2>2 DEF OnChain, Codes
  <2>4. \A e \in OnChain(new) : e < Shift[tbl.next_bits_in_use]
    BY <1>2, <1>9, <2>3
  <2> QED
    BY <1>6, <2>1, <2>4 DEF CodesFitWidth, WidthInUse
<1>16. SiblingsDiffer(new)
  <2> SUFFICES ASSUME NEW x \in Codes, NEW e \in new.hash[x], NEW f \in new.hash[x],
                      new.compress[e].ch = new.compress[f].ch
               PROVE  e = f
    BY DEF SiblingsDiffer
  <2>1. new.hash[x] \subseteq Codes
    BY <1>2, <1>3, <1>8
  <2>2. CASE e # cur /\ f # cur
    <3>1. e \in tbl.hash[x] /\ f \in tbl.hash[x]
      BY <1>8, <2>2
    <3> QED
      BY <1>1, <1>7, <2>1, <2>2, <3>1 DEF SiblingsDiffer
  <2>3. CASE e = cur /\ f # cur
    <3>1. x = basis /\ f \in tbl.hash[basis]
      BY <1>5, <1>8, <2>3
    <3> QED
      BY <1>7, <2>1, <2>3, <3>1
  <2>4. CASE e # cur /\ f = cur
    <3>1. x = basis /\ e \in tbl.hash[basis]
      BY <1>5, <1>8, <2>4
    <3> QED
      BY <1>7, <2>1, <2>4, <3>1
  <2> QED
    BY <2>2, <2>3, <2>4
<1> QED
  BY <1>6, <1>9, <1>10, <1>11, <1>12, <1>13, <1>14, <1>15, <1>16
  DEF TableInv, new, cur

-----------------------------------------------------------------------------
\* From one code to the next: the current entry stands for the string that was
\* seen, at most one other string loses its entry, and no entry is changed.
LEMMA NextTable ==
  ASSUME NEW tbl, TableInv(tbl), ~tbl.entry_used,
         NEW basis \in Codes, NEW ch \in Chars,
         Literal(tbl, basis) \/ basis \in OnChain(tbl),
         \A e \in tbl.hash[basis] : tbl.compress[e].ch # ch,
         NEW new, new = ArcEntryGet(Linked(tbl, basis, ch))
  PROVE  /\ TableInv(new) /\ ~new.entry_used
         /\ new.min_table_entry = tbl.min_table_entry
         /\ new.cur_bits_in_use = tbl.next_bits_in_use
         /\ tbl.cur_entry \in Codes /\ tbl.cur_entry \notin OnChain(tbl)
         /\ OnChain(new) \subseteq OnChain(tbl) \cup {tbl.cur_entry}
         /\ new.compress[tbl.cur_entry].basecode = basis
         /\ new.compress[tbl.cur_entry].ch = ch
         /\ \A e \in Codes : e # tbl.cur_entry => new.compress[e] = tbl.compress[e]
<1> DEFINE linked == Linked(tbl, basis, ch)
<1>1. tbl \in Ctrl /\ tbl.cur_entry \in Codes /\ tbl.cur_entry \notin OnChain(tbl)
  BY DEF TableInv, Sized, SpareEntriesAreFree, IsSpare
<1>2. /\ TableInv(linked) /\ linked.entry_used
      /\ linked.min_table_entry = tbl.min_table_entry
      /\ OnChain(linked) = OnChain(tbl) \cup {tbl.cur_entry}
  BY LinkEntry
<1>3. linked.next_bits_in_use = tbl.next_bits_in_use
  BY <1>1, LinkedFields
<1>4. /\ linked.compress[tbl.cur_entry].basecode = basis
      /\ linked.compress[tbl.cur_entry].ch = ch
      /\ \A e \in Codes : e # tbl.cur_entry => linked.compress[e] = tbl.compress[e]
  BY <1>1, LinkedChains
<1>5. new = ArcEntryGet(linked)
  OBVIOUS
<1> HIDE DEF linked
<1>6. /\ TableInv(new) /\ ~new.entry_used
      /\ new.min_table_entry = linked.min_table_entry
      /\ new.cur_bits_in_use = linked.next_bits_in_use
      /\ new.compress = linked.compress
      /\ OnChain(new) \subseteq OnChain(linked)
  BY <1>2, <1>5, GetEntry
<1> QED
  BY <1>1, <1>2, <1>3, <1>4, <1>6
-----------------------------------------------------------------------------
\* What the codes of a table stand for is a part of the text that was seen
\* before: where it is, and how long, a table does not say.  The proofs write it
\* down beside the table, for every entry that has been linked.
Span == [at : Nat, len : Nat]

\* Code p stands for the n characters of s that come after the first at ones.
Says(s, tab, whr, p, at, n) ==
  /\ p \in Codes
  /\ Literal(tab, p) => n = 1 /\ s[at + 1] = p
  /\ ~Literal(tab, p) =>
       /\ p \in OnChain(tab) /\ whr[p].len = n
       /\ \A k \in 1 .. n : s[whr[p].at + k] = s[at + k]

\* Every entry in use stands for a string of at most n characters: its last
\* character, after what it is built on.
Strings(s, tab, whr, n) ==
  \A e \in OnChain(tab) :
    /\ whr[e].len \in 2 .. n
    /\ s[whr[e].at + whr[e].len] = tab.compress[e].ch
    /\ Says(s, tab, whr, tab.compress[e].basecode, whr[e].at, whr[e].len - 1)

\* What the n-th code of s is written with: a table with an entry set aside, and
\* from which character and which bit on.
Turn == [tab : Ctrl, whr : [Codes -> Span], at : Nat, pos : Nat]

TurnOK(s, t, n) ==
  /\ t \in Turn
  /\ TableInv(t.tab) /\ ~t.tab.entry_used
  /\ t.at < Len(s)
  /\ \A k \in 1 .. Len(s) : Literal(t.tab, s[k])
  /\ Strings(s, t.tab, t.whr, n)

\* The next code's, when p is the code that t writes.
Follows(s, new, t, p) ==
  /\ t.at < new.at
  /\ Says(s, t.tab, t.whr, p, t.at, new.at - t.at)
  /\ new.pos = t.pos + t.tab.cur_bits_in_use
  /\ new.tab = ArcEntryGet(Linked(t.tab, p, s[new.at + 1]))
  /\ new.whr = [t.whr EXCEPT ![t.tab.cur_entry] =
                  [at |-> t.at, len |-> new.at - t.at + 1]]
  /\ new.tab.min_table_entry = t.tab.min_table_entry
  /\ new.tab.cur_bits_in_use = t.tab.next_bits_in_use
  /\ OnChain(new.tab) \subseteq OnChain(t.tab) \cup {t.tab.cur_entry}

\* A code says the same wherever it says something.
LEMMA SaysSame ==
  ASSUME NEW s, NEW tab, NEW whr, NEW p, NEW a, NEW b, NEW m, NEW n,
         Says(s, tab, whr, p, a, m), Says(s, tab, whr, p, b, n)
  PROVE  m = n /\ \A k \in 1 .. n : s[a + k] = s[b + k]
<1>1. CASE Literal(tab, p)
  <2>1. m = 1 /\ n = 1 /\ s[a + 1] = s[b + 1]
    BY <1>1 DEF Says
  <2>2. \A k \in 1 .. 1 : k = 1
    OBVIOUS
  <2> QED
    BY <2>1, <2>2
<1>2. CASE ~Literal(tab, p)
  BY <1>2 DEF Says
<1> QED
  BY <1>1, <1>2

\* And it says it wherever the same characters stand.
LEMMA SaysElsewhere ==
  ASSUME NEW s, NEW tab, NEW whr, NEW p, NEW a, NEW b, NEW n,
         Says(s, tab, whr, p, a, n), \A k \in 1 .. n : s[a + k] = s[b + k]
  PROVE  Says(s, tab, whr, p, b, n)
<1>1. CASE Literal(tab, p)
  <2>1. 1 \in 1 .. n
    BY <1>1 DEF Says
  <2> QED
    BY <1>1, <2>1 DEF Says
<1>2. CASE ~Literal(tab, p)
  BY <1>2 DEF Says
<1> QED
  BY <1>1, <1>2

\* The string of an entry without its last character is that of its basis.
LEMMA StringOfBasecode ==
  ASSUME NEW s, NEW tab, NEW whr, NEW p, NEW at \in Nat, NEW n, NEW most \in Nat,
         Strings(s, tab, whr, most), Says(s, tab, whr, p, at, n),
         ~Literal(tab, p)
  PROVE  /\ n \in 2 .. most
         /\ p \in OnChain(tab)
         /\ tab.compress[p].ch = s[at + n]
         /\ Says(s, tab, whr, tab.compress[p].basecode, at, n - 1)
<1>1. /\ p \in OnChain(tab) /\ whr[p].len = n
      /\ \A k \in 1 .. n : s[whr[p].at + k] = s[at + k]
  BY DEF Says
<1>2. /\ n \in 2 .. most
      /\ s[whr[p].at + n] = tab.compress[p].ch
      /\ Says(s, tab, whr, tab.compress[p].basecode, whr[p].at, n - 1)
  BY <1>1 DEF Strings
<1>3. \A k \in 1 .. n - 1 : s[whr[p].at + k] = s[at + k]
  BY <1>1, <1>2
<1>4. s[whr[p].at + n] = s[at + n]
  BY <1>1, <1>2
<1> QED
  BY <1>1, <1>2, <1>3, <1>4, SaysElsewhere

\* An entry built on what p stands for, with the character that comes next,
\* stands for that and this character (CodeExtend).
LEMMA StringExtended ==
  ASSUME NEW s, NEW tab, NEW whr, NEW p, NEW at \in Nat, NEW n \in Nat,
         NEW most \in Nat,
         TableInv(tab), Strings(s, tab, whr, most), Says(s, tab, whr, p, at, n),
         NEW e \in tab.hash[p], tab.compress[e].ch = s[at + n + 1]
  PROVE  Says(s, tab, whr, e, at, n + 1)
<1>1. p \in Codes /\ e \in Codes
  <2>1. p \in Codes
    BY DEF Says
  <2> QED
    BY <2>1, SizedFacts DEF TableInv
<1>2. tab.compress[e].basecode = p /\ e \in OnChain(tab) /\ ~Literal(tab, e)
  BY <1>1 DEF TableInv, ChainsMatchEntries, OnChain
<1>3. /\ whr[e].len \in 2 .. most
      /\ s[whr[e].at + whr[e].len] = tab.compress[e].ch
      /\ Says(s, tab, whr, p, whr[e].at, whr[e].len - 1)
  BY <1>2 DEF Strings
<1>4. /\ whr[e].len - 1 = n
      /\ \A k \in 1 .. n : s[whr[e].at + k] = s[at + k]
  BY <1>3, SaysSame
<1>5. whr[e].len = n + 1
  BY <1>3, <1>4
<1>6. \A k \in 1 .. n + 1 : s[whr[e].at + k] = s[at + k]
  <2> SUFFICES ASSUME NEW k \in 1 .. n + 1
               PROVE  s[whr[e].at + k] = s[at + k]
    OBVIOUS
  <2>1. CASE k \in 1 .. n
    BY <1>4, <2>1
  <2>2. CASE k = n + 1
    <3>1. s[whr[e].at + k] = s[at + n + 1]
      BY <1>3, <1>5, <2>2
    <3>2. at + k = at + n + 1
      BY <2>2
    <3> QED
      BY <3>1, <3>2
  <2> QED
    BY <2>1, <2>2
<1> QED
  BY <1>1, <1>2, <1>5, <1>6 DEF Says

\* In the table that follows, and at its places, what was there before and is
\* still in use says what it said.
LEMMA SaysAfter ==
  ASSUME NEW s, NEW old, NEW new, NEW whr, NEW span, NEW cur, NEW p, NEW at, NEW n,
         NEW now, now = [whr EXCEPT ![cur] = span],
         whr \in [Codes -> Span],
         cur \notin OnChain(old), ~Literal(old, cur),
         new.min_table_entry = old.min_table_entry,
         Says(s, old, whr, p, at, n),
         Literal(new, p) \/ p \in OnChain(new)
  PROVE  Says(s, new, now, p, at, n)
<1>1. Literal(new, p) <=> Literal(old, p)
  BY DEF Literal
<1>2. p \in Codes
  BY DEF Says
<1>3. p # cur
  BY DEF Says
<1>4. now[p] = whr[p]
  BY <1>2, <1>3
<1> QED
  BY <1>1, <1>4 DEF Says

\* And before, what is not the new entry said the same.
LEMMA SaysBefore ==
  ASSUME NEW s, NEW new, NEW t, NEW q, NEW p, NEW at, NEW n,
         t \in Turn, Follows(s, new, t, q),
         Says(s, new.tab, new.whr, p, at, n), p # t.tab.cur_entry
  PROVE  Says(s, t.tab, t.whr, p, at, n)
<1>1. Literal(new.tab, p) <=> Literal(t.tab, p)
  BY DEF Literal, Follows
<1>2. p \in Codes
  BY DEF Says
<1>3. new.whr[p] = t.whr[p]
  BY <1>2 DEF Follows, Turn
<1>4. p \in OnChain(new.tab) => p \in OnChain(t.tab)
  BY DEF Follows
<1> QED
  BY <1>1, <1>3, <1>4 DEF Says
-----------------------------------------------------------------------------
\* The code after t, once what t writes and the character after it are known.
NextTurn(s, t, p, n) ==
  [tab |-> ArcEntryGet(Linked(t.tab, p, s[t.at + n + 1])),
   whr |-> [t.whr EXCEPT ![t.tab.cur_entry] = [at |-> t.at, len |-> n + 1]],
   at  |-> t.at + n,
   pos |-> t.pos + t.tab.cur_bits_in_use]

\* The first of all: nothing has been linked.
FirstTurn(type, pos) ==
  [tab |-> ArcEntryGet(ArcCtrlNew(type)),
   whr |-> [e \in Codes |-> [at |-> 0, len |-> 0]],
   at  |-> 0, pos |-> pos]

\* What CodeEmit and the next ArcEntryGet do to a table: what is emitted ends where
\* the next code begins, and the next code stands for the character in hand.
LEMMA NextTurnFollows ==
  ASSUME NEW s \in Seq(Chars), NEW t, NEW i \in Nat, i >= 1, TurnOK(s, t, i),
         NEW p, NEW n \in Nat, n >= 1, Says(s, t.tab, t.whr, p, t.at, n),
         t.at + n < Len(s),
         \A e \in t.tab.hash[p] : t.tab.compress[e].ch # s[t.at + n + 1],
         NEW new, new = NextTurn(s, t, p, n)
  PROVE  /\ TurnOK(s, new, i + 1)
         /\ Follows(s, new, t, p)
         /\ Says(s, new.tab, new.whr, s[new.at + 1], new.at, 1)
<1> DEFINE ch == s[t.at + n + 1]
           cur == t.tab.cur_entry
           span == [at |-> t.at, len |-> n + 1]
<1>1. /\ t \in Turn /\ TableInv(t.tab) /\ ~t.tab.entry_used
      /\ \A k \in 1 .. Len(s) : Literal(t.tab, s[k])
      /\ Strings(s, t.tab, t.whr, i)
  BY DEF TurnOK
<1>2. /\ t.at \in Nat /\ t.pos \in Nat /\ t.tab \in Ctrl /\ t.whr \in [Codes -> Span]
      /\ t.tab.cur_bits_in_use \in Nat
  <2>1. t.at \in Nat /\ t.pos \in Nat /\ t.tab \in Ctrl /\ t.whr \in [Codes -> Span]
    BY <1>1 DEF Turn
  <2> QED
    BY <2>1, WidthAssumption DEF Ctrl
<1>3. /\ t.at + n + 1 \in 1 .. Len(s) /\ ch \in Chars /\ Literal(t.tab, ch)
  BY <1>1, <1>2
<1>4. /\ p \in Codes /\ (Literal(t.tab, p) \/ p \in OnChain(t.tab))
  BY DEF Says
<1>5. /\ new.tab = ArcEntryGet(Linked(t.tab, p, ch))
      /\ new.whr = [t.whr EXCEPT ![cur] = span]
      /\ new.at = t.at + n /\ new.pos = t.pos + t.tab.cur_bits_in_use
      /\ new = [tab |-> new.tab, whr |-> new.whr, at |-> new.at, pos |-> new.pos]
  BY DEF NextTurn
<1> HIDE DEF ch
<1>6. /\ TableInv(new.tab) /\ ~new.tab.entry_used
      /\ new.tab.min_table_entry = t.tab.min_table_entry
      /\ new.tab.cur_bits_in_use = t.tab.next_bits_in_use
      /\ cur \in Codes /\ cur \notin OnChain(t.tab)
      /\ OnChain(new.tab) \subseteq OnChain(t.tab) \cup {cur}
      /\ new.tab.compress[cur].basecode = p
      /\ new.tab.compress[cur].ch = ch
      /\ \A e \in Codes : e # cur => new.tab.compress[e] = t.tab.compress[e]
  <2>1. \A e \in t.tab.hash[p] : t.tab.compress[e].ch # ch
    BY DEF ch
  <2>2. TableInv(t.tab) /\ ~t.tab.entry_used
    BY <1>1
  <2>3. new.tab = ArcEntryGet(Linked(t.tab, p, ch))
    BY <1>5
  <2> QED
    BY <1>3, <1>4, <2>1, <2>2, <2>3, NextTable
<1>7. ~Literal(t.tab, cur)
  BY <1>1, <1>6 DEF TableInv, SpareEntriesAreFree, IsSpare
<1>8. span \in Span /\ new.whr \in [Codes -> Span] /\ new.whr[cur] = span
      /\ \A e \in Codes : e # cur => new.whr[e] = t.whr[e]
  BY <1>2, <1>5, <1>6 DEF Span
<1> HIDE DEF cur, span
<1>9. ASSUME NEW q, NEW at, NEW len, Says(s, t.tab, t.whr, q, at, len),
             Literal(new.tab, q) \/ q \in OnChain(new.tab)
      PROVE  Says(s, new.tab, new.whr, q, at, len)
  BY <1>2, <1>5, <1>6, <1>7, <1>9, SaysAfter
<1>10. \A k \in 1 .. Len(s) : Literal(new.tab, s[k])
  BY <1>1, <1>6 DEF Literal
<1>11. new.at < Len(s) /\ new \in Turn
  <2>1. new.tab \in Ctrl
    BY <1>6 DEF TableInv, Sized
  <2>2. new.at \in Nat /\ new.pos \in Nat
    BY <1>2, <1>5
  <2> QED
    BY <1>5, <1>8, <2>1, <2>2 DEF Turn
<1>12. \A e \in OnChain(new.tab) :
          /\ new.tab.compress[e].basecode \in Codes
          /\ \/ Literal(new.tab, new.tab.compress[e].basecode)
             \/ new.tab.compress[e].basecode \in OnChain(new.tab)
  <2> SUFFICES ASSUME NEW e \in OnChain(new.tab)
               PROVE  /\ new.tab.compress[e].basecode \in Codes
                      /\ \/ Literal(new.tab, new.tab.compress[e].basecode)
                         \/ new.tab.compress[e].basecode \in OnChain(new.tab)
    OBVIOUS
  <2>1. new.tab.compress \in [Codes -> Entry]
    BY <1>6, SizedFacts DEF TableInv
  <2>2. e \in Codes /\ e \in new.tab.hash[new.tab.compress[e].basecode]
    BY DEF OnChain
  <2>3. new.tab.compress[e].basecode \in Codes
    BY <2>1, <2>2 DEF Entry
  <2>4. ChainsMatchEntries(new.tab)
    BY <1>6 DEF TableInv
  <2> QED
    BY <2>2, <2>3, <2>4 DEF ChainsMatchEntries
<1>13. Strings(s, new.tab, new.whr, i + 1)
  <2> SUFFICES ASSUME NEW e \in OnChain(new.tab)
               PROVE  /\ new.whr[e].len \in 2 .. i + 1
                      /\ s[new.whr[e].at + new.whr[e].len] = new.tab.compress[e].ch
                      /\ Says(s, new.tab, new.whr, new.tab.compress[e].basecode,
                              new.whr[e].at, new.whr[e].len - 1)
    BY DEF Strings
  <2>1. CASE e = cur
    <3>1. n \in 1 .. i
      <4>1. CASE Literal(t.tab, p)
        BY <4>1 DEF Says
      <4>2. CASE ~Literal(t.tab, p)
        <5>1. n \in 2 .. i
          BY <1>1, <1>2, <4>2, StringOfBasecode
        <5> QED
          BY <5>1
      <4> QED
        BY <4>1, <4>2
    <3>2. new.whr[e].at = t.at /\ new.whr[e].len = n + 1
      BY <1>8, <2>1 DEF span
    <3>3. s[t.at + (n + 1)] = ch
      BY <1>2 DEF ch
    <3>4. Says(s, t.tab, t.whr, p, t.at, n)
      OBVIOUS
    <3>5. Says(s, new.tab, new.whr, p, t.at, n)
      BY <1>6, <1>9, <1>12, <2>1, <3>4
    <3>6. n + 1 \in 2 .. i + 1 /\ n + 1 - 1 = n
      BY <3>1
    <3> QED
      BY <1>6, <2>1, <3>2, <3>3, <3>5, <3>6
  <2>2. CASE e # cur
    <3>1. e \in OnChain(t.tab) /\ e \in Codes
      BY <1>6, <2>2 DEF OnChain
    <3>2. /\ new.whr[e] = t.whr[e]
          /\ new.tab.compress[e] = t.tab.compress[e]
      BY <1>6, <1>8, <2>2, <3>1
    <3>3. /\ t.whr[e].len \in 2 .. i
          /\ s[t.whr[e].at + t.whr[e].len] = t.tab.compress[e].ch
          /\ Says(s, t.tab, t.whr, t.tab.compress[e].basecode,
                  t.whr[e].at, t.whr[e].len - 1)
      BY <1>1, <3>1 DEF Strings
    <3>4. Says(s, new.tab, new.whr, t.tab.compress[e].basecode,
               t.whr[e].at, t.whr[e].len - 1)
      BY <1>9, <1>12, <3>2, <3>3
    <3>5. t.whr[e].len \in 2 .. i + 1
      BY <3>3
    <3> QED
      BY <3>2, <3>3, <3>4, <3>5
  <2> QED
    BY <2>1, <2>2
<1>14. TurnOK(s, new, i + 1)
  BY <1>6, <1>10, <1>11, <1>13 DEF TurnOK
<1>15. Follows(s, new, t, p)
  <2>1. t.at < new.at /\ new.at - t.at = n
    BY <1>2, <1>5
  <2>2. new.tab = ArcEntryGet(Linked(t.tab, p, s[new.at + 1]))
    BY <1>5 DEF ch
  <2>3. new.whr = [t.whr EXCEPT ![t.tab.cur_entry] = [at |-> t.at, len |-> new.at - t.at + 1]]
    BY <1>5, <2>1 DEF cur, span
  <2> QED
    BY <1>5, <1>6, <2>1, <2>2, <2>3 DEF Follows, cur
<1>16. Says(s, new.tab, new.whr, s[new.at + 1], new.at, 1)
  <2>1. ch = s[new.at + 1]
    BY <1>5 DEF ch
  <2>2. ch \in Codes
    <3>1. Shift[LowBits + 1] <= Shift[ARC_MAX_BITS]
          /\ Shift[ARC_MAX_BITS] \in Nat /\ Shift[LowBits + 1] \in Nat
      BY ShiftFacts, WidthAssumption
    <3> QED
      BY <1>3, <3>1 DEF Chars, Codes
  <2>3. Literal(new.tab, ch)
    BY <1>3, <1>6 DEF Literal
  <2> QED
    BY <2>1, <2>2, <2>3 DEF Says
<1> QED
  BY <1>14, <1>15, <1>16

\* The first code is written with a table in which nothing is linked.
LEMMA FirstTurnOK ==
  ASSUME NEW s \in Seq(Chars), Len(s) > 0, NEW type, NEW pos \in Nat,
         \A k \in 1 .. Len(s) : s[k] < Shift[MinBits(type)],
         NEW new, new = FirstTurn(type, pos)
  PROVE  /\ TurnOK(s, new, 1)
         /\ Says(s, new.tab, new.whr, s[1], 0, 1)
<1>1. /\ new.tab = ArcEntryGet(ArcCtrlNew(type))
      /\ new.whr = [e \in Codes |-> [at |-> 0, len |-> 0]]
      /\ new.at = 0 /\ new.pos = pos
      /\ new = [tab |-> new.tab, whr |-> new.whr, at |-> new.at, pos |-> new.pos]
  BY DEF FirstTurn
<1>2. /\ TableInv(ArcCtrlNew(type)) /\ ArcCtrlNew(type).entry_used
      /\ ArcCtrlNew(type).min_table_entry = Shift[MinBits(type)]
  BY NewTable
<1>3. OnChain(ArcCtrlNew(type)) = {}
  <2>1. /\ ArcCtrlNew(type).compress = [i \in Codes |-> [basecode |-> 0, ch |-> 0]]
        /\ ArcCtrlNew(type).hash = [i \in Codes |-> {}]
    BY NewFields
  <2>2. 0 \in Codes
    <3>1. Shift[ARC_MAX_BITS] \in Nat /\ Shift[ARC_MAX_BITS] >= 1
      BY ShiftFacts, WidthAssumption
    <3> QED
      BY <3>1 DEF Codes
  <2>3. \A e \in Codes : ArcCtrlNew(type).compress[e].basecode = 0
    BY <2>1
  <2>4. ArcCtrlNew(type).hash[0] = {}
    BY <2>1, <2>2
  <2> QED
    BY <2>3, <2>4 DEF OnChain
<1>4. /\ TableInv(new.tab) /\ ~new.tab.entry_used
      /\ new.tab.min_table_entry = Shift[MinBits(type)]
      /\ OnChain(new.tab) = {}
  BY <1>1, <1>2, <1>3, GetEntry
<1>5. \A k \in 1 .. Len(s) : Literal(new.tab, s[k])
  BY <1>4 DEF Literal
<1>6. new \in Turn
  <2>1. new.tab \in Ctrl
    BY <1>4 DEF TableInv, Sized
  <2>2. new.whr \in [Codes -> Span]
    BY <1>1 DEF Span
  <2> QED
    BY <1>1, <2>1, <2>2 DEF Turn
<1>7. Strings(s, new.tab, new.whr, 1)
  BY <1>4 DEF Strings
<1>8. s[1] \in Codes
  <2>1. 1 \in 1 .. Len(s) /\ s[1] \in Chars
    OBVIOUS
  <2>2. Shift[LowBits + 1] <= Shift[ARC_MAX_BITS]
        /\ Shift[ARC_MAX_BITS] \in Nat /\ Shift[LowBits + 1] \in Nat
    BY ShiftFacts, WidthAssumption
  <2> QED
    BY <2>1, <2>2 DEF Chars, Codes
<1>9. Literal(new.tab, s[1])
  BY <1>5
<1>10. Says(s, new.tab, new.whr, s[1], 0, 1)
  BY <1>8, <1>9 DEF Says
<1> QED
  BY <1>1, <1>4, <1>5, <1>6, <1>7, <1>10 DEF TurnOK

\* The code of the entry that the one before it made: the string before, and its
\* first character again (UnwindFrom).
LEMMA NewEntryRead ==
  ASSUME NEW s, NEW t, NEW i, NEW new, NEW q, NEW n,
         TurnOK(s, t, i), Follows(s, new, t, q), new.at \in Nat,
         Says(s, new.tab, new.whr, t.tab.cur_entry, new.at, n)
  PROVE  /\ n = new.at - t.at + 1
         /\ s[new.at + n] = s[t.at + 1]
         /\ Says(s, t.tab, t.whr, q, new.at, n - 1)
<1> DEFINE cur == t.tab.cur_entry
<1>1. /\ t.at \in Nat /\ t.whr \in [Codes -> Span]
      /\ TableInv(t.tab) /\ ~t.tab.entry_used
  BY DEF TurnOK, Turn
<1>2. cur \in Codes /\ ~Literal(t.tab, cur)
  BY <1>1 DEF TableInv, SpareEntriesAreFree, IsSpare
<1>3. /\ t.at < new.at
      /\ Says(s, t.tab, t.whr, q, t.at, new.at - t.at)
      /\ new.whr[cur].at = t.at /\ new.whr[cur].len = new.at - t.at + 1
      /\ new.tab.min_table_entry = t.tab.min_table_entry
  BY <1>1, <1>2 DEF Follows
<1>4. ~Literal(new.tab, cur)
  BY <1>2, <1>3 DEF Literal
<1>5. /\ n = new.at - t.at + 1
      /\ \A k \in 1 .. n : s[t.at + k] = s[new.at + k]
  BY <1>3, <1>4 DEF Says
<1>6. s[new.at + n] = s[t.at + 1]
  <2>1. n \in 1 .. n /\ 1 \in 1 .. n /\ t.at + n = new.at + 1
    BY <1>1, <1>3, <1>5
  <2> QED
    BY <1>5, <2>1
<1>7. /\ n - 1 = new.at - t.at
      /\ \A k \in 1 .. n - 1 : s[t.at + k] = s[new.at + k]
  BY <1>1, <1>3, <1>5
<1> QED
  BY <1>3, <1>5, <1>6, <1>7, SaysElsewhere
-----------------------------------------------------------------------------
\* What an entry stands on is shorter by one, so there is an entry of every
\* length up to that of the longest: none stands for more characters than there
\* are codes.
LEMMA StringsFit ==
  ASSUME NEW s, NEW tab, NEW whr, NEW most \in Nat,
         TableInv(tab), Strings(s, tab, whr, most),
         NEW e \in OnChain(tab)
  PROVE  whr[e].len <= Shift[ARC_MAX_BITS]
<1> DEFINE lens == {whr[x].len : x \in OnChain(tab)}
           f == [x \in OnChain(tab) |-> whr[x].len]
           top == whr[e].len
<1>1. \A x \in OnChain(tab) : whr[x].len \in 2 .. most
  BY DEF Strings
<1>2. lens \subseteq Nat
  BY <1>1
<1>3. \A k \in 2 .. top : k \in lens
  <2> SUFFICES ASSUME NEW k \in 2 .. top, k \notin lens
               PROVE  FALSE
    OBVIOUS
  <2> DEFINE above == {l \in lens : l > k}
             l == Least(above)
  <2>1. top \in above
    <3>1. top \in lens
      OBVIOUS
    <3>2. top # k /\ top \in Nat /\ k <= top
      BY <1>2, <3>1
    <3> QED
      BY <3>1, <3>2
  <2>2. above \subseteq Nat /\ above # {}
    BY <1>2, <2>1
  <2> HIDE DEF above
  <2>3. l \in above /\ \A j \in above : l <= j
    BY <2>2, LeastIsLeast
  <2> HIDE DEF l
  <2>4. l \in lens /\ l > k /\ l \in Nat
    BY <2>2, <2>3 DEF above
  <2>5. PICK x \in OnChain(tab) : l = whr[x].len
    BY <2>4
  <2> DEFINE b == tab.compress[x].basecode
  <2>6. Says(s, tab, whr, b, whr[x].at, l - 1)
    BY <2>5 DEF Strings
  <2>7. l - 1 # 1
    BY <2>4
  <2>8. b \in OnChain(tab) /\ whr[b].len = l - 1
    BY <2>6, <2>7 DEF Says
  <2>9. l - 1 \in lens
    BY <2>8
  <2>10. l - 1 # k
    BY <2>9
  <2>11. l - 1 \in above
    BY <2>4, <2>9, <2>10 DEF above
  <2> QED
    BY <2>3, <2>4, <2>11
<1>4. /\ Shift[ARC_MAX_BITS] \in Nat /\ Shift[ARC_MAX_BITS] >= 1
      /\ tab.min_table_entry \in Nat /\ tab.min_table_entry >= 1
  <2>1. PICK bits \in {LowBits, LowBits + 1} : tab.min_table_entry = Shift[bits]
    BY DEF TableInv, Sized
  <2> QED
    BY <2>1, ShiftFacts, WidthAssumption
<1>5. OnChain(tab) \in SUBSET (1 .. Shift[ARC_MAX_BITS] - 1)
  <2> SUFFICES ASSUME NEW x \in OnChain(tab)
               PROVE  x \in 1 .. Shift[ARC_MAX_BITS] - 1
    OBVIOUS
  <2>1. x \in Codes /\ ~Literal(tab, x)
    BY DEF TableInv, ChainsMatchEntries, OnChain
  <2> QED
    BY <1>4, <2>1 DEF Codes, Literal
<1>6. /\ IsFiniteSet(1 .. Shift[ARC_MAX_BITS] - 1)
      /\ Cardinality(1 .. Shift[ARC_MAX_BITS] - 1) = Shift[ARC_MAX_BITS] - 1
  <2> DEFINE last == Shift[ARC_MAX_BITS] - 1
  <2>1. 1 \in Int /\ last \in Int
    BY <1>4
  <2>2. last >= 0
    BY <1>4
  <2> HIDE DEF last
  <2>3. /\ IsFiniteSet(1 .. last)
        /\ Cardinality(1 .. last) = IF 1 > last THEN 0 ELSE last - 1 + 1
    BY <2>1, FS_Interval
  <2>4. Cardinality(1 .. last) = last
    BY <2>1, <2>2, <2>3
  <2> QED
    BY <2>3, <2>4 DEF last
<1>7. /\ IsFiniteSet(OnChain(tab))
      /\ Cardinality(OnChain(tab)) <= Shift[ARC_MAX_BITS] - 1
  <2> PICK all : all = 1 .. Shift[ARC_MAX_BITS] - 1
    OBVIOUS
  <2>1. /\ OnChain(tab) \in SUBSET all /\ IsFiniteSet(all)
        /\ Cardinality(all) = Shift[ARC_MAX_BITS] - 1
    BY <1>5, <1>6
  <2>2. /\ IsFiniteSet(OnChain(tab))
        /\ Cardinality(OnChain(tab)) <= Cardinality(all)
    BY ONLY <2>1, FS_Subset
  <2> QED
    BY ONLY <2>1, <2>2
<1>8. f \in Surjection(OnChain(tab), lens)
  BY DEF Surjection
<1>9. IsFiniteSet(lens) /\ Cardinality(lens) <= Cardinality(OnChain(tab))
  BY <1>7, <1>8, FS_Surjection
<1>10. top \in Nat /\ top >= 2
  BY <1>1
<1>11. 2 .. top \in SUBSET lens
  BY <1>3
<1> HIDE DEF lens, f, top
<1>12. Cardinality(2 .. top) <= Cardinality(lens)
  BY <1>9, <1>11, FS_Subset
<1>13. Cardinality(2 .. top) = top - 1
  <2>1. Cardinality(2 .. top) = IF 2 > top THEN 0 ELSE top - 2 + 1
    BY <1>10, FS_Interval
  <2> QED
    BY <1>10, <2>1
<1>14. Cardinality(lens) \in Nat /\ Cardinality(OnChain(tab)) \in Nat
  BY <1>7, <1>9, FS_CardinalityType
<1> QED
  BY <1>4, <1>7, <1>9, <1>10, <1>12, <1>13, <1>14 DEF top

-----------------------------------------------------------------------------
\* A quotient is known by what it leaves.
LEMMA QuotientOf ==
  ASSUME NEW v \in Nat, NEW d \in Nat, d >= 1, NEW q \in Nat, NEW r \in Nat,
         r < d, v = d * q + r
  PROVE  v \div d = q
OBVIOUS

\* Half of a quotient is the quotient by the double.
LEMMA HalfQuotient ==
  ASSUME NEW v \in Nat, NEW d \in Nat, d >= 1
  PROVE  v \div (2 * d) = (v \div d) \div 2
<1> DEFINE q == v \div d
           r == v % d
<1>1. q \in Nat /\ r \in Nat /\ r < d /\ v = d * q + r
  OBVIOUS
<1> HIDE DEF q, r
<1> DEFINE a == q \div 2
           b == q % 2
<1>2. a \in Nat /\ b \in 0 .. 1 /\ q = 2 * a + b
  BY <1>1
<1> HIDE DEF a, b
<1>3. d * q = (2 * d) * a + d * b
  BY <1>1, <1>2
<1>4. d * b + r \in Nat /\ d * b + r < 2 * d
  BY <1>1, <1>2
<1>5. v = (2 * d) * a + (d * b + r)
  BY <1>1, <1>2, <1>3, <1>4
<1>6. 2 * d \in Nat /\ 2 * d >= 1
  OBVIOUS
<1>7. v \div (2 * d) = a
  BY <1>2, <1>4, <1>5, <1>6, QuotientOf
<1> QED
  BY <1>7 DEF a, q

-----------------------------------------------------------------------------
\* A character is a code, and there is room for it in what a table of its kind
\* of text begins with.
LEMMA CharsAreCodes == Chars \subseteq Codes /\ 0 \in Codes
<1>1. Shift[LowBits + 1] < Shift[ARC_MAX_BITS] /\ Shift[LowBits + 1] \in Nat
      /\ Shift[ARC_MAX_BITS] \in Nat
  BY ShiftFacts, WidthAssumption
<1> QED
  BY <1>1 DEF Chars, Codes

\* The kind of a text is one whose characters stand for themselves.
LEMMA TypeFitsText ==
  ASSUME text \in Seq(Chars)
  PROVE  \A n \in 1 .. Size :
            text[n] < Shift[MinBits(ArcDetermineCompressionType)]
<1> USE WidthAssumption
<1>1. SUFFICES ASSUME NEW n \in 1 .. Size
               PROVE  text[n] < Shift[MinBits(ArcDetermineCompressionType)]
  OBVIOUS
<1>2. text[n] \in Chars
  BY <1>1 DEF Size
<1>3. text[n] \in Nat /\ text[n] < Shift[LowBits + 1]
  BY <1>2, ShiftFacts DEF Chars
<1>4. Shift[LowBits] \in Nat
  BY ShiftFacts
<1>5. CASE \E at \in 1 .. Size : text[at] >= Shift[LowBits]
  BY <1>3, <1>5 DEF ArcDetermineCompressionType, MinBits, CT_7_BIT, CT_8_BIT
<1>6. CASE ~ \E at \in 1 .. Size : text[at] >= Shift[LowBits]
  BY <1>1, <1>3, <1>4, <1>6 DEF ArcDetermineCompressionType, MinBits, CT_7_BIT, CT_8_BIT
<1> QED
  BY <1>5, <1>6

-----------------------------------------------------------------------------
\* The steps of the compressor, one by one.
LEMMA BeginKeepsInv ==
  ASSUME CompressorInv, CompressBegin
  PROVE  CompressorInv'
<1> USE WidthAssumption
<1> DEFINE type == ArcDetermineCompressionType
           min == Shift[MinBits(type)]
<1>1. /\ text \in Seq(Chars) /\ text' = text
      /\ c' = ArcCtrlNew(type) /\ src_pos' = 1 /\ pc' = "code"
      /\ basecode' \in IF Size > 0 THEN {text[1]} ELSE Chars
  BY DEF CompressorInv, CompressBegin
<1>2. /\ TableInv(c') /\ c'.entry_used
      /\ c'.min_table_entry = min
  BY <1>1, NewTable
<1>3. \A n \in 1 .. Size : text[n] < min
  BY <1>1, TypeFitsText
<1>4. Size' = Size /\ Size \in Nat
  BY <1>1 DEF Size
<1>5. basecode' \in Chars /\ basecode' \in Codes /\ (Size > 0 => basecode' < min)
  <2>1. CASE Size > 0
    <3>1. basecode' = text[1] /\ 1 \in 1 .. Size
      BY <1>1, <1>4, <2>1
    <3>2. text[1] \in Chars
      BY <1>1, <3>1 DEF Size
    <3> QED
      BY <1>3, <3>1, <3>2, CharsAreCodes
  <2>2. CASE ~(Size > 0)
    BY <1>1, <2>2, CharsAreCodes
  <2> QED
    BY <2>1, <2>2
<1> HIDE DEF type, min
<1> QED
  BY <1>1, <1>2, <1>3, <1>4, <1>5 DEF CompressorInv, Literal

\* Setting an entry aside keeps the invariant,
LEMMA CodeBeginKeepsInv ==
  ASSUME CompressorInv, CodeBegin
  PROVE  CompressorInv'
<1>1. /\ text \in Seq(Chars) /\ text' = text
      /\ TableInv(c) /\ c.entry_used /\ c' = ArcEntryGet(c)
      /\ src_pos \in Nat /\ src_pos' = src_pos
      /\ basecode \in Codes /\ basecode' = basecode
      /\ Literal(c, basecode) /\ pc' = "extend"
      /\ \A n \in 1 .. Size : Literal(c, text[n])
  <2>1. /\ text \in Seq(Chars) /\ text' = text
        /\ TableInv(c) /\ c.entry_used /\ c' = ArcEntryGet(c)
        /\ src_pos \in Nat /\ src_pos' = src_pos
        /\ basecode \in Codes /\ basecode' = basecode
        /\ (Size > 0 => Literal(c, basecode)) /\ pc' = "extend"
        /\ \A n \in 1 .. Size : Literal(c, text[n])
    BY DEF CompressorInv, CodeBegin, Compressing
  <2>2. Size \in Nat /\ src_pos < Size
    BY <2>1 DEF CodeBegin, Size
  <2> QED
    BY <2>1, <2>2
<1>2. /\ TableInv(c') /\ ~c'.entry_used
      /\ c'.min_table_entry = c.min_table_entry
  BY <1>1, GetEntry
<1> QED
  BY <1>1, <1>2 DEF CompressorInv, Literal, Size

\* so does taking a longer string,
LEMMA ExtendKeepsInv ==
  ASSUME CompressorInv, CodeExtend
  PROVE  CompressorInv'
<1>1. /\ text \in Seq(Chars) /\ text' = text
      /\ TableInv(c) /\ ~c.entry_used /\ c' = c
      /\ src_pos \in Nat /\ src_pos' = src_pos + 1
      /\ basecode \in Codes /\ basecode' \in c.hash[basecode]
      /\ pc' = "extend"
      /\ \A n \in 1 .. Size : Literal(c, text[n])
  BY DEF CompressorInv, CodeExtend, Compressing, Longer
<1>2. c.hash[basecode] \subseteq Codes
  BY <1>1, SizedFacts DEF TableInv
<1>3. basecode' \in OnChain(c)
  BY <1>1, <1>2 DEF TableInv, ChainsMatchEntries, OnChain
<1> QED
  BY <1>1, <1>2, <1>3 DEF CompressorInv, Literal, Size, OnChain

\* and so does writing a code and linking an entry to it.
LEMMA EmitKeepsInv ==
  ASSUME CompressorInv, CodeEmit
  PROVE  CompressorInv'
<1> DEFINE ch == text[src_pos + 1]
<1>1. /\ text \in Seq(Chars) /\ text' = text
      /\ TableInv(c) /\ ~c.entry_used /\ c' = Linked(c, basecode, ch)
      /\ src_pos \in Nat /\ src_pos < Size /\ src_pos' = src_pos + 1
      /\ basecode \in Codes /\ basecode' = ch
      /\ Literal(c, basecode) \/ basecode \in OnChain(c)
      /\ Longer(ch) = {}
      /\ pc' = "code"
      /\ \A n \in 1 .. Size : Literal(c, text[n])
  BY DEF CompressorInv, CodeEmit, Compressing
<1>2. src_pos + 1 \in 1 .. Size /\ ch \in Chars
  BY <1>1 DEF Size
<1>3. Literal(c, ch) /\ ch \in Codes
  BY <1>1, <1>2, CharsAreCodes
<1> HIDE DEF ch
<1>4. \A e \in c.hash[basecode] : c.compress[e].ch # ch
  BY <1>1 DEF Longer
<1>5. /\ TableInv(c') /\ c'.entry_used
      /\ c'.min_table_entry = c.min_table_entry
  BY <1>1, <1>2, <1>4, LinkEntry
<1> QED
  BY <1>1, <1>2, <1>3, <1>5 DEF CompressorInv, Literal, Size

-----------------------------------------------------------------------------
\* The compressor's invariant: between two codes the table is sound and the
\* string in hand is a character; while a string is being extended, an entry is
\* set aside for it and it is one there is a code for (ArcCompressBuf).
THEOREM CompressorCorrect == ArchiveSpec => []CompressorInv
<1>1. ArchiveInit => CompressorInv
  BY ArchiveAssumption
  DEF ArchiveInit, ArchiveInitFor, CompressorInv, Compressing
<1>2. CompressorInv /\ [ArchiveNext]_archiveVars => CompressorInv'
  <2> SUFFICES ASSUME CompressorInv, [ArchiveNext]_archiveVars
               PROVE  CompressorInv'
    OBVIOUS
  <2>1. CASE CompressBegin
    BY <2>1, BeginKeepsInv
  <2>2. CASE CodeBegin
    BY <2>2, CodeBeginKeepsInv
  <2>3. CASE CodeExtend
    BY <2>3, ExtendKeepsInv
  <2>4. CASE CodeEmit
    BY <2>4, EmitKeepsInv
  <2>5. CASE CompressEnd \/ StoreAsIs \/ ExpandStep
    <3>1. text' = text /\ pc' \in {"expand", "read", "unwind", "done"}
      BY <2>5 DEF CompressEnd, StoreAsIs, ExpandStep, ExpandAsIs, ExpandBegin,
                  ExpandRead, ExpandUnwind, ExpandLink, ExpandEnd
    <3> QED
      BY <3>1 DEF CompressorInv, Compressing
  <2>6. CASE UNCHANGED archiveVars
    BY <2>6 DEF archiveVars, ctrlVars, CompressorInv, Compressing, Size, Literal
  <2> QED
    BY <2>1, <2>2, <2>3, <2>4, <2>5, <2>6 DEF ArchiveNext, CompressStep
<1> QED
  BY <1>1, <1>2, PTL DEF ArchiveSpec

-----------------------------------------------------------------------------
\* While text is compressed no string is built on an entry that was given up to
\* be used again, and an entry that waits to be used stands for nothing.
THEOREM CompressorTableIsSound == ArchiveSpec => []TableIsSound
<1>1. CompressorInv => TableIsSound
  BY DEF CompressorInv, TableIsSound, TableInv
<1> QED
  BY <1>1, CompressorCorrect, PTL

\* Every code is written in as many bits as it takes, although the width grows
\* with the table and is stored nowhere.
THEOREM CodesFit == ArchiveSpec => []WidthSuffices
<1>1. CompressorInv => WidthSuffices
  <2> SUFFICES ASSUME CompressorInv, Compressing
               PROVE  CodesFitWidth(c) /\ basecode < Shift[WidthInUse(c)]
    BY DEF WidthSuffices
  <2>1. Sized(c) /\ CodesFitWidth(c) /\ basecode \in Codes
    BY DEF CompressorInv, TableInv
  <2>2. CASE basecode \in OnChain(c)
    BY <2>1, <2>2 DEF CodesFitWidth
  <2>3. CASE Literal(c, basecode)
    <3>1. /\ c.cur_bits_in_use <= c.next_bits_in_use
          /\ c.cur_bits_in_use \in 1 .. ARC_MAX_BITS
          /\ c.next_bits_in_use \in 1 .. ARC_MAX_BITS
          /\ c.min_table_entry \in Nat
          /\ c.min_table_entry < Shift[c.cur_bits_in_use]
      BY <2>1, SizedFacts DEF Sized
    <3>2. /\ Shift[c.cur_bits_in_use] \in Nat /\ Shift[c.next_bits_in_use] \in Nat
          /\ Shift[c.cur_bits_in_use] <= Shift[c.next_bits_in_use]
      BY <3>1, ShiftFacts, WidthAssumption
    <3>3. basecode \in Int /\ basecode < c.min_table_entry
      BY <2>1, <2>3 DEF Codes, Literal
    <3> QED
      BY <2>1, <3>1, <3>2, <3>3 DEF WidthInUse
  <2>4. CASE pc = "code" /\ ~(Size > 0)
    <3>1. basecode \in Chars /\ c.entry_used
      BY <2>4 DEF CompressorInv
    <3>2. /\ LowBits + 1 <= c.next_bits_in_use /\ LowBits + 1 \in 0 .. ARC_MAX_BITS
          /\ c.next_bits_in_use \in 0 .. ARC_MAX_BITS
      BY <2>1, SizedFacts, WidthAssumption DEF Sized
    <3>3. /\ Shift[LowBits + 1] \in Nat /\ Shift[c.next_bits_in_use] \in Nat
          /\ Shift[LowBits + 1] <= Shift[c.next_bits_in_use]
      BY <3>2, ShiftFacts
    <3>4. basecode \in Nat /\ basecode < Shift[LowBits + 1]
      BY <3>1, <3>3 DEF Chars
    <3> QED
      BY <2>1, <3>1, <3>3, <3>4 DEF WidthInUse
  <2> QED
    BY <2>2, <2>3, <2>4 DEF CompressorInv, Compressing
<1> QED
  BY <1>1, CompressorCorrect, PTL

\* The string the text goes on with is the only one, so the loop of
\* ArcCompressBuf that stops at the first it finds has found it.
THEOREM OnlyOneMatch == ArchiveSpec => []OneMatch
<1>1. CompressorInv => OneMatch
  BY DEF CompressorInv, OneMatch, TableInv
<1> QED
  BY <1>1, CompressorCorrect, PTL

\* ArcEntryGet's search of a full table for an entry nothing is built on ends,
\* and not at the entry that is about to be used.
THEOREM SearchEnds == ArchiveSpec => []LeafToGiveUp
<1>1. CompressorInv => LeafToGiveUp
  BY WidthAssumption
  DEF CompressorInv, LeafToGiveUp, TableInv, LastUsedIsLeaf
<1> QED
  BY <1>1, CompressorCorrect, PTL

-----------------------------------------------------------------------------
\* A code takes no more than the bits it is written in,
LEMMA BitsInside ==
  ASSUME NEW w \in 0 .. ARC_MAX_BITS, NEW v \in Nat, v < Shift[w], NEW from \in Nat
  PROVE  BitsOf(v, from) \subseteq from .. from + w - 1
<1> USE WidthAssumption
<1> SUFFICES ASSUME NEW n \in 0 .. ARC_MAX_BITS - 1, (v \div Shift[n]) % 2 = 1
             PROVE  n < w
  BY DEF BitsOf
<1>1. SUFFICES ASSUME n >= w
               PROVE  FALSE
  OBVIOUS
<1>2. Shift[n] \in Nat /\ Shift[w] \in Nat /\ Shift[w] <= Shift[n] /\ Shift[n] >= 1
  BY <1>1, ShiftFacts
<1>3. v \div Shift[n] = 0
  BY <1>2
<1> QED
  BY <1>3

\* two numbers with the same bits are the same: so they are from the highest bit
\* down,
LEMMA BitsTell ==
  ASSUME NEW u \in Codes, NEW v \in Codes, NEW from \in Nat,
         BitsOf(u, from) = BitsOf(v, from)
  PROVE  u = v
<1> USE WidthAssumption
<1>1. /\ u \in Nat /\ v \in Nat
      /\ Shift[ARC_MAX_BITS] \in Nat /\ Shift[ARC_MAX_BITS] >= 1
      /\ u < Shift[ARC_MAX_BITS] /\ v < Shift[ARC_MAX_BITS]
  BY ShiftFacts DEF Codes
<1>2. \A n \in 0 .. ARC_MAX_BITS : Shift[n] \in Nat /\ Shift[n] >= 1
  BY ShiftFacts
<1>3. \A n \in 0 .. ARC_MAX_BITS - 1 :
         (u \div Shift[n]) % 2 = 1 <=> (v \div Shift[n]) % 2 = 1
  <2> SUFFICES ASSUME NEW n \in 0 .. ARC_MAX_BITS - 1
               PROVE  (u \div Shift[n]) % 2 = 1 <=> (v \div Shift[n]) % 2 = 1
    OBVIOUS
  <2>1. ASSUME NEW x, from + n \in BitsOf(x, from)
        PROVE  (x \div Shift[n]) % 2 = 1
    <3>1. PICK m \in {d \in 0 .. ARC_MAX_BITS - 1 : (x \div Shift[d]) % 2 = 1} :
             from + n = from + m
      BY <2>1 DEF BitsOf
    <3>2. m = n
      BY <3>1
    <3> QED
      BY <3>1, <3>2
  <2>2. ASSUME NEW x, (x \div Shift[n]) % 2 = 1
        PROVE  from + n \in BitsOf(x, from)
    BY <2>2 DEF BitsOf
  <2> QED
    BY <2>1, <2>2
<1> DEFINE same(n) == u \div Shift[n] = v \div Shift[n]
           apart == {d \in 0 .. ARC_MAX_BITS : ~same(ARC_MAX_BITS - d)}
<1>4. same(ARC_MAX_BITS)
  <2>1. u \div Shift[ARC_MAX_BITS] = 0 /\ v \div Shift[ARC_MAX_BITS] = 0
    BY <1>1
  <2> QED
    BY <2>1
<1>5. ASSUME NEW n \in 0 .. ARC_MAX_BITS - 1, same(n + 1)
      PROVE  same(n)
  <2> DEFINE a == u \div Shift[n]
             b == v \div Shift[n]
  <2>1. Shift[n] \in Nat /\ Shift[n] >= 1 /\ Shift[n + 1] = 2 * Shift[n]
    BY <1>2, ShiftAssumption
  <2>2. a \div 2 = u \div Shift[n + 1] /\ b \div 2 = v \div Shift[n + 1]
    BY <1>1, <2>1, HalfQuotient
  <2>3. a \in Nat /\ b \in Nat
    BY <1>1, <2>1
  <2>4. a % 2 = 1 <=> b % 2 = 1
    BY <1>3
  <2> HIDE DEF a, b
  <2>5. a \div 2 = b \div 2
    BY <1>5, <2>2
  <2>6. a = b
    BY <2>3, <2>4, <2>5
  <2> QED
    BY <2>6 DEF a, b
<1> HIDE DEF same
<1>6. apart = {}
  <2> SUFFICES ASSUME apart # {}
               PROVE  FALSE
    OBVIOUS
  <2> DEFINE d == Least(apart)
  <2>1. apart \subseteq Nat
    OBVIOUS
  <2>2. d \in apart /\ \A j \in apart : d <= j
    BY <2>1, LeastIsLeast
  <2> HIDE DEF d
  <2>3. d \in 0 .. ARC_MAX_BITS /\ ~same(ARC_MAX_BITS - d)
    BY <2>2
  <2>4. d # 0
    BY <1>4, <2>3
  <2>5. d - 1 \in 0 .. ARC_MAX_BITS /\ d - 1 \notin apart
    BY <2>2, <2>3, <2>4
  <2>6. same(ARC_MAX_BITS - (d - 1))
    BY <2>5
  <2>7. ARC_MAX_BITS - d \in 0 .. ARC_MAX_BITS - 1
        /\ ARC_MAX_BITS - (d - 1) = ARC_MAX_BITS - d + 1
    BY <2>3, <2>4
  <2> QED
    BY <1>5, <2>3, <2>6, <2>7
<1>7. same(0)
  <2>1. ARC_MAX_BITS \in 0 .. ARC_MAX_BITS /\ ARC_MAX_BITS - ARC_MAX_BITS = 0
    OBVIOUS
  <2> QED
    BY <1>6, <2>1
<1>8. Shift[0] = 1 /\ u \div 1 = u /\ v \div 1 = v
  BY <1>1, ShiftAssumption
<1> QED
  BY <1>7, <1>8 DEF same

\* so what is written is what is read (BFieldOrU32, BFieldExtDWORD).
LEMMA ReadBack ==
  ASSUME NEW w \in 0 .. ARC_MAX_BITS, NEW v \in Nat, v < Shift[w], NEW from \in Nat,
         NEW bits, bits \cap (from .. from + w - 1) = BitsOf(v, from)
  PROVE  BFieldExt(bits, from, w) = v
<1> DEFINE fits(x) == BitsOf(x, from) = bits \cap (from .. from + w - 1)
<1>1. /\ Shift[w] \in Nat /\ Shift[ARC_MAX_BITS] \in Nat
      /\ Shift[w] <= Shift[ARC_MAX_BITS]
  BY ShiftFacts, WidthAssumption
<1>2. v \in 0 .. Shift[w] - 1 /\ fits(v)
  BY <1>1
<1>3. 0 .. Shift[w] - 1 \subseteq Codes
  BY <1>1 DEF Codes
<1>4. ASSUME NEW x \in 0 .. Shift[w] - 1, fits(x)
      PROVE  x = v
  <2>1. x \in Codes /\ v \in Codes
    BY <1>2, <1>3
  <2>2. BitsOf(x, from) = BitsOf(v, from)
    BY <1>2, <1>4
  <2> QED
    BY <2>1, <2>2, BitsTell
<1>5. BFieldExt(bits, from, w) = CHOOSE x \in 0 .. Shift[w] - 1 : fits(x)
  BY DEF BFieldExt
<1> HIDE DEF fits
<1> QED
  BY <1>2, <1>4, <1>5

\* The half of a quotient is the quotient of the half.
LEMMA QuotientOfHalf ==
  ASSUME NEW v \in Nat, NEW d \in Nat, d >= 1
  PROVE  v \div (2 * d) = (v \div 2) \div d
<1> DEFINE a == v \div 2
           b == v % 2
<1>1. a \in Nat /\ b \in 0 .. 1 /\ v = 2 * a + b
  OBVIOUS
<1> HIDE DEF a, b
<1> DEFINE q == a \div d
           r == a % d
<1>2. q \in Nat /\ r \in Nat /\ r < d /\ a = d * q + r
  BY <1>1
<1> HIDE DEF q, r
<1>3. d * q \in Nat /\ 2 * (d * q) = (2 * d) * q
  BY <1>2
<1>4. 2 * r + b \in Nat /\ 2 * r + b < 2 * d /\ 2 * d \in Nat /\ 2 * d >= 1
  BY <1>1, <1>2
<1>5. v = (2 * d) * q + (2 * r + b)
  BY ONLY <1>1, <1>2, <1>3, <1>4
<1>6. v \div (2 * d) = q
  BY <1>2, <1>4, <1>5, QuotientOf
<1> QED
  BY <1>6 DEF q, a

\* and whatever bits there are, there is a number that has them.
LEMMA BitsMake ==
  ASSUME NEW w \in 0 .. ARC_MAX_BITS, NEW from \in Nat, NEW bits
  PROVE  \E v \in 0 .. Shift[w] - 1 : BitsOf(v, from) = bits \cap (from .. from + w - 1)
<1>a. /\ ARC_MAX_BITS \in Nat
      /\ \A n \in 0 .. ARC_MAX_BITS : Shift[n] \in Nat /\ Shift[n] >= 1
      /\ \A n \in 0 .. ARC_MAX_BITS - 1 : Shift[n + 1] = 2 * Shift[n]
      /\ Shift[0] = 1 /\ ARC_MAX_BITS > 0
  BY ShiftAssumption, ShiftFacts, WidthAssumption
<1> USE WidthAssumption
<1> DEFINE makes(v, at, n) == BitsOf(v, at) = bits \cap (at .. at + n - 1)
           S == {n \in 0 .. ARC_MAX_BITS :
                   \A at \in Nat : \E v \in 0 .. Shift[n] - 1 : makes(v, at, n)}
<1>1. 0 \in S
  <2> SUFFICES ASSUME NEW at \in Nat
               PROVE  0 \in 0 .. Shift[0] - 1 /\ makes(0, at, 0)
    BY DEF S
  <2>1. Shift[0] = 1
    BY ShiftAssumption
  <2>2. BitsOf(0, at) = {}
    <3>1. BitsOf(0, at) \subseteq at .. at + 0 - 1
      BY <2>1, BitsInside
    <3> QED
      BY <3>1
  <2>3. at .. at + 0 - 1 = {}
    OBVIOUS
  <2> QED
    BY <2>1, <2>2, <2>3
<1>2. ASSUME NEW n \in S, n # ARC_MAX_BITS
      PROVE  n + 1 \in S
  <2>1. n \in 0 .. ARC_MAX_BITS - 1 /\ n + 1 \in 0 .. ARC_MAX_BITS
    BY <1>2
  <2> SUFFICES ASSUME NEW at \in Nat
               PROVE  \E v \in 0 .. Shift[n + 1] - 1 : makes(v, at, n + 1)
    BY <2>1
  <2>2. PICK high \in 0 .. Shift[n] - 1 : makes(high, at + 1, n)
    BY <1>2
  <2> PICK low : low = IF at \in bits THEN 1 ELSE 0
    OBVIOUS
  <2> PICK v : v = 2 * high + low
    OBVIOUS
  <2>3. /\ Shift[n] \in Nat /\ Shift[n + 1] = 2 * Shift[n] /\ high \in Nat
        /\ high < Shift[n] /\ low \in 0 .. 1
    <3>1. Shift[n] \in Nat /\ Shift[n + 1] = 2 * Shift[n]
      BY <1>a, <2>1
    <3>2. high \in Nat /\ high < Shift[n] /\ low \in 0 .. 1
      BY <2>2, <3>1
    <3> QED
      BY <3>1, <3>2
  <2>4. v \in 0 .. Shift[n + 1] - 1 /\ v \in Nat /\ v \div 2 = high /\ v % 2 = low
    <3>1. v \in Nat /\ v = 2 * high + low
      BY <2>3
    <3>2. v < 2 * Shift[n]
      BY ONLY <2>3, <3>1
    <3>3. v \div 2 = high /\ v % 2 = low
      BY ONLY <2>3, <3>1
    <3>4. Shift[n + 1] = 2 * Shift[n] /\ Shift[n] \in Nat
      BY <2>3
    <3>5. v \in 0 .. Shift[n + 1] - 1
      BY ONLY <3>1, <3>2, <3>4
    <3> QED
      BY <3>1, <3>3, <3>5
  <2> DEFINE Ones(x) == {m \in 0 .. ARC_MAX_BITS - 1 : (x \div Shift[m]) % 2 = 1}
  <2>5. 0 \in Ones(v) <=> at \in bits
    <3>1. Shift[0] = 1 /\ 0 \in 0 .. ARC_MAX_BITS - 1
      BY <1>a
    <3>2. v \div 1 = v
      BY ONLY <2>4
    <3>3. v % 2 = 1 <=> at \in bits
      BY <2>3, <2>4
    <3>4. (v \div Shift[0]) % 2 = v % 2
      BY <3>1, <3>2
    <3> QED
      BY <3>1, <3>3, <3>4
  <2>6. ASSUME NEW m \in 0 .. ARC_MAX_BITS - 2
        PROVE  m + 1 \in Ones(v) <=> m \in Ones(high)
    <3>1. /\ m \in 0 .. ARC_MAX_BITS - 1 /\ m + 1 \in 0 .. ARC_MAX_BITS - 1
          /\ Shift[m + 1] = 2 * Shift[m] /\ Shift[m] \in Nat /\ Shift[m] >= 1
      BY <1>a
    <3>2. v \div (2 * Shift[m]) = (v \div 2) \div Shift[m]
      BY ONLY <2>4, <3>1, QuotientOfHalf
    <3>3. v \div Shift[m + 1] = high \div Shift[m]
      BY <2>4, <3>1, <3>2
    <3> QED
      BY <3>1, <3>3
  <2>7. \A m \in Ones(high) : m < n
    <3> SUFFICES ASSUME NEW m \in Ones(high)
                 PROVE  m < n
      OBVIOUS
    <3>1. 0 + m \in BitsOf(high, 0) /\ m \in Int
      BY DEF BitsOf
    <3>2. BitsOf(high, 0) \subseteq 0 .. 0 + n - 1
      BY <2>1, <2>3, BitsInside
    <3> QED
      BY <2>1, <3>1, <3>2
  <2>8. \A x : BitsOf(high, at + 1) = {at + 1 + m : m \in Ones(high)}
    BY DEF BitsOf
  <2>9. BitsOf(v, at) = {at + m : m \in Ones(v)}
    BY DEF BitsOf
  <2>10. \A m \in Nat : m \in Ones(high) <=> at + 1 + m \in bits /\ m < n
    <3> SUFFICES ASSUME NEW m \in Nat
                 PROVE  m \in Ones(high) <=> at + 1 + m \in bits /\ m < n
      OBVIOUS
    <3> HIDE DEF Ones
    <3>1. at + 1 + m \in BitsOf(high, at + 1) <=> m \in Ones(high)
      <4>1. ASSUME NEW d \in Ones(high), at + 1 + m = at + 1 + d
            PROVE  d = m
        BY <4>1, Ones(high) \subseteq Int DEF Ones
      <4> QED
        BY <2>8, <4>1
    <3>2. at + 1 + m \in at + 1 .. at + 1 + n - 1 <=> m < n
      BY <2>1
    <3> QED
      BY <2>2, <3>1, <3>2
  <2>11. \A m \in Nat : m \in Ones(v) <=> at + m \in bits /\ m < n + 1
    <3> SUFFICES ASSUME NEW m \in Nat
                 PROVE  m \in Ones(v) <=> at + m \in bits /\ m < n + 1
      OBVIOUS
    <3>1. CASE m = 0
      <4>1. at + m = at /\ m < n + 1
        BY <2>1, <3>1
      <4> QED
        BY <2>5, <3>1, <4>1
    <3>2. CASE m \in 1 .. ARC_MAX_BITS - 1
      <4>1. PICK d : d = m - 1
        OBVIOUS
      <4>2. d \in 0 .. ARC_MAX_BITS - 2 /\ d + 1 = m /\ at + 1 + d = at + m /\ d \in Nat
        BY <3>2, <4>1
      <4>3. d < n <=> m < n + 1
        BY <2>1, <3>2, <4>1
      <4>4. d \in Ones(high) <=> at + 1 + d \in bits /\ d < n
        BY <2>10, <4>2
      <4>5. d + 1 \in Ones(v) <=> d \in Ones(high)
        BY <2>6, <4>2
      <4> HIDE DEF Ones
      <4> QED
        BY <4>2, <4>3, <4>4, <4>5
    <3>3. CASE m >= ARC_MAX_BITS
      <4>1. m \notin Ones(v) /\ ~(m < n + 1)
        BY <2>1, <3>3
      <4> QED
        BY <4>1
    <3> QED
      BY <3>1, <3>2, <3>3
  <2>12. Ones(v) \subseteq Nat
    OBVIOUS
  <2> HIDE DEF Ones
  <2>13. BitsOf(v, at) = bits \cap (at .. at + (n + 1) - 1)
    <3>1. ASSUME NEW x \in BitsOf(v, at)
          PROVE  x \in bits /\ x \in at .. at + (n + 1) - 1
      <4>1. PICK m \in Ones(v) : x = at + m
        BY <2>9, <3>1
      <4> QED
        BY <2>1, <2>11, <2>12, <4>1
    <3>2. ASSUME NEW x \in at .. at + (n + 1) - 1, x \in bits
          PROVE  x \in BitsOf(v, at)
      <4>1. PICK m : m = x - at
        OBVIOUS
      <4>2. m \in Nat /\ x = at + m /\ m < n + 1
        BY <2>1, <4>1
      <4> QED
        BY <2>9, <2>11, <3>2, <4>2
    <3> QED
      BY <3>1, <3>2
  <2> QED
    BY <2>4, <2>13
<1>3. \A n \in 0 .. ARC_MAX_BITS : n \in S
  <2>1. \A n \in 0 .. ARC_MAX_BITS : n \in S /\ n # ARC_MAX_BITS => n + 1 \in S
    BY <1>2
  <2> HIDE DEF S
  <2> QED
    BY ONLY <1>1, <2>1, WidthAssumption, 0 \in Nat, Climb
<1>4. w \in S
  BY <1>3
<1> QED
  BY <1>4

\* What is read is a number of that width, with the bits that are there.
LEMMA BitsRead ==
  ASSUME NEW w \in 0 .. ARC_MAX_BITS, NEW from \in Nat, NEW bits, NEW v,
         v = BFieldExt(bits, from, w)
  PROVE  /\ v \in 0 .. Shift[w] - 1 /\ v \in Codes /\ v \in Nat
         /\ BitsOf(v, from) = bits \cap (from .. from + w - 1)
<1>1. /\ v \in 0 .. Shift[w] - 1
      /\ BitsOf(v, from) = bits \cap (from .. from + w - 1)
  BY BitsMake DEF BFieldExt
<1>2. Shift[w] \in Nat /\ Shift[ARC_MAX_BITS] \in Nat /\ Shift[w] <= Shift[ARC_MAX_BITS]
  BY ShiftFacts, WidthAssumption
<1> QED
  BY <1>1, <1>2 DEF Codes

\* What is read over the end of what was written is it or is wider.
LEMMA ReadPastTheEnd ==
  ASSUME NEW narrow \in 0 .. ARC_MAX_BITS, NEW wide \in 0 .. ARC_MAX_BITS,
         narrow <= wide, NEW p \in Codes, p < Shift[narrow],
         NEW from \in Nat, NEW limit \in Nat, from + narrow <= limit, NEW bits,
         bits \cap (from .. limit - 1) = BitsOf(p, from) \cap (from .. limit - 1),
         NEW v, v = BFieldExt(bits, from, wide)
  PROVE  v \in Codes /\ (v = p \/ v >= Shift[narrow])
<1>1. /\ v \in Codes /\ v \in Nat
      /\ BitsOf(v, from) = bits \cap (from .. from + wide - 1)
  BY BitsRead
<1>2. p \in Nat /\ Shift[narrow] \in Nat
  BY ShiftFacts DEF Codes
<1>3. ASSUME v < Shift[narrow]
      PROVE  v = p
  <2>1. /\ BitsOf(v, from) \subseteq from .. from + narrow - 1
        /\ BitsOf(p, from) \subseteq from .. from + narrow - 1
    BY <1>1, <1>2, <1>3, BitsInside
  <2>2. /\ narrow \in Nat /\ wide \in Nat
        /\ from .. from + narrow - 1 \subseteq from .. limit - 1
        /\ from .. from + narrow - 1 \subseteq from .. from + wide - 1
    <3>1. narrow \in Nat /\ wide \in Nat
      BY WidthAssumption
    <3> QED
      BY <3>1
  <2>3. BitsOf(v, from) = BitsOf(p, from)
    BY <1>1, <2>1, <2>2
  <2> QED
    BY <1>1, <2>3, BitsTell
<1> QED
  BY <1>1, <1>2, <1>3

\* Whatever character a code turns out to begin with, there is an entry to set
\* aside when it has been linked to another.
LEMMA LinkedAnyhow ==
  ASSUME NEW tbl, TableInv(tbl), ~tbl.entry_used,
         NEW basis \in Codes, basis # tbl.cur_entry, NEW ch \in Chars
  PROVE  ArcEntryGet(Linked(tbl, basis, ch)) \in Ctrl
<1> USE WidthAssumption
<1> PICK new : new = Linked(tbl, basis, ch)
  OBVIOUS
<1> PICK next : next = Advanced(new)
  OBVIOUS
<1>1. /\ Sized(tbl) /\ tbl \in Ctrl /\ SpareEntriesAreFree(tbl)
      /\ tbl.min_table_entry \in Nat /\ tbl.free_idx \in Nat /\ tbl.free_limit \in Nat
      /\ tbl.next_bits_in_use \in 1 .. ARC_MAX_BITS
      /\ tbl.free_limit <= Shift[ARC_MAX_BITS]
      /\ tbl.hash \in [Codes -> SUBSET Codes]
      /\ \A e \in tbl.min_table_entry .. tbl.free_limit - 1 : e \in Codes
  BY SizedFacts DEF TableInv, Sized
<1>2. /\ tbl.cur_entry \in Codes /\ tbl.hash[tbl.cur_entry] = {}
      /\ tbl.cur_entry \in tbl.min_table_entry .. tbl.free_limit - 1
      /\ tbl.free_idx \in tbl.min_table_entry .. tbl.free_limit - 1
  <2>1. /\ tbl.cur_entry \in Codes /\ tbl.hash[tbl.cur_entry] = {}
        /\ ~(tbl.cur_entry < tbl.min_table_entry)
        /\ tbl.cur_entry < tbl.free_limit
        /\ tbl.min_table_entry <= tbl.free_idx /\ tbl.free_idx < tbl.free_limit
    BY <1>1 DEF SpareEntriesAreFree, IsSpare, Sized, Literal
  <2>2. tbl.cur_entry \in Nat
    BY <2>1, ShiftFacts DEF Codes
  <2> QED
    BY <1>1, <2>1, <2>2
<1>3. /\ new \in Ctrl /\ new.min_table_entry = tbl.min_table_entry
      /\ new.next_bits_in_use = tbl.next_bits_in_use
      /\ new.free_idx = tbl.free_idx /\ new.free_limit = tbl.free_limit
      /\ new.entry_used = TRUE
  <2>1. tbl \in Ctrl /\ tbl.cur_entry \in Codes /\ basis \in Codes /\ ch \in Chars
    BY <1>1, <1>2
  <2>2. new = Linked(tbl, basis, ch)
    OBVIOUS
  <2> QED
    BY ONLY <2>1, <2>2, LinkedFields
<1>4. new.hash = [tbl.hash EXCEPT ![basis] = @ \cup {tbl.cur_entry}]
  BY <1>1 DEF Linked, Ctrl
<1>5. /\ next \in Ctrl /\ next.min_table_entry = tbl.min_table_entry
      /\ next.next_bits_in_use = tbl.next_bits_in_use
      /\ next.free_idx = tbl.free_idx /\ next.free_limit = tbl.free_limit
      /\ next.hash = new.hash
  BY <1>3, AdvancedFields
<1>6. CASE tbl.next_bits_in_use < ARC_MAX_BITS
  <2>1. next.free_idx \in Codes /\ next.next_bits_in_use < ARC_MAX_BITS
    BY <1>1, <1>2, <1>5, <1>6
  <2>2. FreshEntry(next) \in Ctrl
    BY <1>5, <2>1, FreshFields
  <2> QED
    BY <1>3, <1>6, <2>2 DEF ArcEntryGet
<1>7. CASE ~(tbl.next_bits_in_use < ARC_MAX_BITS)
  <2>1. tbl.cur_entry \in Leaves(next)
    BY <1>1, <1>2, <1>4, <1>5 DEF Leaves
  <2>2. NextLeaf(next) \in Leaves(next)
    BY <1>1, <1>5, <2>1, NextLeafFacts
  <2>3. NextLeaf(next) \in Codes
    BY <1>1, <1>5, <2>2 DEF Leaves
  <2>4. RecycledEntry(next) \in Ctrl
    BY <1>5, <2>3, RecycledFields
  <2> QED
    BY <1>3, <1>7, <2>4 DEF ArcEntryGet
<1> QED
  BY <1>6, <1>7
-----------------------------------------------------------------------------
Place == [pos : Nat, code : Codes]

\* What every code of s is written with, first to last.
History(type, s, codes, h) ==
  /\ h \in Seq(Turn) /\ Len(h) >= 1
  /\ h[1].tab = ArcEntryGet(ArcCtrlNew(type)) /\ h[1].at = 0
  /\ h[1].pos = HeaderSize * ByteBits
  /\ \A n \in 1 .. Len(h) : TurnOK(s, h[n], n)
  /\ \A n \in 1 .. Len(h) - 1 : Follows(s, h[n + 1], h[n], codes[n].code)

\* The bits up to end hold every code in the place and the width it has there.
Written(bits, end, codes, h) ==
  \A n \in 1 .. Len(codes) :
    LET w == h[n].tab.cur_bits_in_use
    IN  /\ codes[n].pos = h[n].pos
        /\ codes[n].code < Shift[w]
        /\ bits \cap (h[n].pos .. h[n].pos + w - 1) = BitsOf(codes[n].code, h[n].pos)
        /\ h[n].pos + w <= end

\* While the text is compressed, the last of h is for the code in the making.
Writing(h) ==
  LET t == h[Len(h)]
  IN  /\ Len(h) = Len(sent) + 1
      /\ History(ArcDetermineCompressionType, text, sent, h)
      /\ t.tab = IF pc = "code" THEN ArcEntryGet(c) ELSE c
      /\ pc = "code" /\ Len(h) > 1
           => c.cur_bits_in_use = h[Len(h) - 1].tab.cur_bits_in_use
      /\ t.at < src_pos /\ src_pos <= Len(text)
      /\ Says(text, t.tab, t.whr, basecode, t.at, src_pos - t.at)
      /\ t.pos = dst_pos
      /\ Written(dst, dst_pos, sent, h)
      /\ dst \subseteq 0 .. dst_pos - 1

\* A code that says something fits into the bits in use.
LEMMA SaysInWidth ==
  ASSUME NEW s, NEW t, NEW n, NEW p, NEW at, NEW len,
         TurnOK(s, t, n), Says(s, t.tab, t.whr, p, at, len)
  PROVE  p \in Codes /\ p < Shift[t.tab.cur_bits_in_use]
<1>1. TableInv(t.tab) /\ ~t.tab.entry_used /\ p \in Codes
  BY DEF TurnOK, Says
<1>2. CASE p \in OnChain(t.tab)
  BY <1>1, <1>2 DEF TableInv, CodesFitWidth, WidthInUse
<1>3. CASE Literal(t.tab, p)
  <2>1. /\ t.tab.min_table_entry \in Nat
        /\ t.tab.cur_bits_in_use \in 0 .. ARC_MAX_BITS
        /\ t.tab.min_table_entry < Shift[t.tab.cur_bits_in_use]
    BY <1>1, SizedFacts DEF TableInv
  <2>2. Shift[t.tab.cur_bits_in_use] \in Nat
    BY <2>1, ShiftFacts
  <2> QED
    BY <1>1, <1>3, <2>1, <2>2 DEF Literal, Codes
<1> QED
  BY <1>1, <1>2, <1>3 DEF Says

\* The types of what a code is written with.
LEMMA TurnFacts ==
  ASSUME NEW s, NEW t, NEW n, TurnOK(s, t, n)
  PROVE  /\ t \in Turn /\ t.at \in Nat /\ t.pos \in Nat
         /\ t.tab.cur_bits_in_use \in 1 .. ARC_MAX_BITS
         /\ t.tab.next_bits_in_use \in 1 .. ARC_MAX_BITS
         /\ t.tab.cur_bits_in_use <= t.tab.next_bits_in_use
<1>1. t \in Turn /\ Sized(t.tab)
  BY DEF TurnOK, TableInv
<1>2. t.at \in Nat /\ t.pos \in Nat
  BY <1>1 DEF Turn
<1> QED
  BY <1>1, <1>2, SizedFacts DEF Sized

\* One more code after those that are written.
LEMMA WrittenOneMore ==
  ASSUME NEW bits, NEW end, NEW codes \in Seq(Place), NEW h, NEW s,
         \A m \in 1 .. Len(codes) + 1 : TurnOK(s, h[m], m),
         Written(bits, end, codes, h), bits \subseteq 0 .. end - 1,
         NEW t, t = h[Len(codes) + 1], t.pos = end,
         NEW p \in Codes, p < Shift[t.tab.cur_bits_in_use],
         NEW new, \A m \in 1 .. Len(codes) + 1 : new[m] = h[m],
         NEW last \in Int, end + t.tab.cur_bits_in_use <= last
  PROVE  /\ Written(bits \cup BitsOf(p, end), last, Append(codes, Code(end, p)), new)
         /\ bits \cup BitsOf(p, end) \subseteq 0 .. end + t.tab.cur_bits_in_use - 1
         /\ Append(codes, Code(end, p)) \in Seq(Place)
<1> DEFINE now == Append(codes, Code(end, p))
           w == t.tab.cur_bits_in_use
<1>1. end \in Nat /\ w \in 1 .. ARC_MAX_BITS /\ Len(codes) \in Nat
  <2>1. Len(codes) + 1 \in 1 .. Len(codes) + 1 /\ Len(codes) \in Nat
    OBVIOUS
  <2>2. TurnOK(s, t, Len(codes) + 1)
    BY <2>1
  <2> QED
    BY <2>1, <2>2, TurnFacts
<1>2. Code(end, p) \in Place /\ Code(end, p).pos = end /\ Code(end, p).code = p
  BY <1>1 DEF Code, Place
<1>3. /\ now \in Seq(Place) /\ Len(now) = Len(codes) + 1
      /\ \A m \in 1 .. Len(codes) : now[m] = codes[m]
      /\ now[Len(codes) + 1] = Code(end, p)
  BY <1>2
<1>4. BitsOf(p, end) \subseteq end .. end + w - 1
  <2>1. p \in Nat /\ w \in 0 .. ARC_MAX_BITS
    BY <1>1 DEF Codes
  <2> QED
    BY <1>1, <2>1, BitsInside
<1> HIDE DEF now, w
<1>5. ASSUME NEW m \in 1 .. Len(codes)
      PROVE  /\ now[m].pos = new[m].pos
             /\ now[m].code < Shift[new[m].tab.cur_bits_in_use]
             /\ (bits \cup BitsOf(p, end))
                   \cap (new[m].pos .. new[m].pos + new[m].tab.cur_bits_in_use - 1)
                = BitsOf(now[m].code, new[m].pos)
             /\ new[m].pos + new[m].tab.cur_bits_in_use <= last
  <2> DEFINE here == h[m].pos .. h[m].pos + h[m].tab.cur_bits_in_use - 1
  <2>1. now[m] = codes[m] /\ new[m] = h[m]
    BY <1>1, <1>3
  <2>2. /\ codes[m].pos = h[m].pos
        /\ codes[m].code < Shift[h[m].tab.cur_bits_in_use]
        /\ bits \cap here = BitsOf(codes[m].code, h[m].pos)
        /\ h[m].pos + h[m].tab.cur_bits_in_use <= end
    BY DEF Written
  <2>3. here \cap BitsOf(p, end) = {}
    <3>1. TurnOK(s, h[m], m)
      BY <1>1
    <3>2. h[m].pos \in Nat /\ h[m].tab.cur_bits_in_use \in Nat
      BY <3>1, TurnFacts, WidthAssumption
    <3>3. here \subseteq 0 .. end - 1
      <4>1. PICK from, wide : from = h[m].pos /\ wide = h[m].tab.cur_bits_in_use
        OBVIOUS
      <4>2. from \in Nat /\ wide \in Nat /\ from + wide <= end
        BY <2>2, <3>2, <4>1
      <4>3. from .. from + wide - 1 \subseteq 0 .. end - 1
        BY ONLY <1>1, <4>2
      <4> QED
        BY <4>1, <4>3
    <3>4. (0 .. end - 1) \cap (end .. end + w - 1) = {}
      BY ONLY <1>1
    <3> HIDE DEF here
    <3> QED
      BY ONLY <1>4, <3>3, <3>4
  <2>4. (bits \cup BitsOf(p, end)) \cap here = BitsOf(codes[m].code, h[m].pos)
    BY <2>2, <2>3
  <2>5. h[m].pos + h[m].tab.cur_bits_in_use <= last
    <3>1. TurnOK(s, h[m], m)
      BY <1>1
    <3>2. h[m].pos \in Nat /\ h[m].tab.cur_bits_in_use \in Nat
      BY <3>1, TurnFacts, WidthAssumption
    <3>3. end + w <= last /\ last \in Int
      BY DEF w
    <3> QED
      BY ONLY <1>1, <2>2, <3>2, <3>3
  <2> QED
    BY <2>1, <2>2, <2>4, <2>5
<1>6. (bits \cup BitsOf(p, end)) \cap (end .. end + w - 1) = BitsOf(p, end)
  <2>1. bits \cap (end .. end + w - 1) = {}
    BY <1>1
  <2> QED
    BY <1>4, <2>1
<1>7. Written(bits \cup BitsOf(p, end), last, now, new)
  <2> SUFFICES ASSUME NEW m \in 1 .. Len(codes) + 1
               PROVE  /\ now[m].pos = new[m].pos
                      /\ now[m].code < Shift[new[m].tab.cur_bits_in_use]
                      /\ (bits \cup BitsOf(p, end))
                            \cap (new[m].pos .. new[m].pos + new[m].tab.cur_bits_in_use - 1)
                         = BitsOf(now[m].code, new[m].pos)
                      /\ new[m].pos + new[m].tab.cur_bits_in_use <= last
    BY <1>3 DEF Written
  <2>1. CASE m \in 1 .. Len(codes)
    BY <1>5, <2>1
  <2>2. CASE m = Len(codes) + 1
    <3>1. new[m] = t /\ now[m].pos = end /\ now[m].code = p
      BY <1>2, <1>3, <2>2
    <3> QED
      BY <1>6, <3>1 DEF w
  <2> QED
    BY <1>1, <2>1, <2>2
<1>8. bits \cup BitsOf(p, end) \subseteq 0 .. end + w - 1
  <2>1. 0 .. end - 1 \subseteq 0 .. end + w - 1
        /\ end .. end + w - 1 \subseteq 0 .. end + w - 1
    BY <1>1
  <2> QED
    BY <1>4, <2>1
<1> QED
  BY <1>3, <1>7, <1>8 DEF now, w
-----------------------------------------------------------------------------
\* A history goes on with a turn that follows its last.
LEMMA HistoryLonger ==
  ASSUME NEW type, NEW s \in Seq(Chars), NEW codes, NEW h,
         History(type, s, codes, h),
         NEW more, \A n \in 1 .. Len(h) : more[n].code = codes[n].code \/ n = Len(h),
         NEW t, TurnOK(s, t, Len(h) + 1), Follows(s, t, h[Len(h)], more[Len(h)].code)
  PROVE  /\ History(type, s, more, Append(h, t))
         /\ Len(Append(h, t)) = Len(h) + 1
         /\ Append(h, t)[Len(h) + 1] = t
         /\ \A n \in 1 .. Len(h) : Append(h, t)[n] = h[n]
<1> DEFINE new == Append(h, t)
<1>1. t \in Turn /\ h \in Seq(Turn) /\ Len(h) \in Nat /\ Len(h) >= 1
  BY DEF TurnOK, History
<1>2. /\ new \in Seq(Turn) /\ Len(new) = Len(h) + 1
      /\ new[Len(h) + 1] = t
      /\ \A n \in 1 .. Len(h) : new[n] = h[n]
  BY <1>1
<1>3. new[1] = h[1]
  BY <1>1, <1>2
<1>4. \A n \in 1 .. Len(new) : TurnOK(s, new[n], n)
  <2> SUFFICES ASSUME NEW n \in 1 .. Len(h) + 1
               PROVE  TurnOK(s, new[n], n)
    BY <1>2
  <2>1. CASE n = Len(h) + 1
    BY <1>2, <2>1
  <2>2. CASE n \in 1 .. Len(h)
    BY <1>2, <2>2 DEF History
  <2> QED
    BY <1>1, <2>1, <2>2
<1>5. \A n \in 1 .. Len(new) - 1 : Follows(s, new[n + 1], new[n], more[n].code)
  <2> SUFFICES ASSUME NEW n \in 1 .. Len(h)
               PROVE  Follows(s, new[n + 1], new[n], more[n].code)
    BY <1>1, <1>2
  <2>1. CASE n = Len(h)
    BY <1>1, <1>2, <2>1
  <2>2. CASE n # Len(h)
    <3>1. n \in 1 .. Len(h) - 1 /\ n + 1 \in 1 .. Len(h)
      BY <1>1, <2>2
    <3>2. Follows(s, h[n + 1], h[n], codes[n].code)
      BY <3>1 DEF History
    <3>3. new[n + 1] = h[n + 1] /\ new[n] = h[n]
      BY <1>2, <3>1
    <3> QED
      BY <2>2, <3>2, <3>3
  <2> QED
    BY <2>1, <2>2
<1>6. History(type, s, more, new)
  BY <1>1, <1>2, <1>3, <1>4, <1>5 DEF History
<1> QED
  BY <1>2, <1>6 DEF new

\* The kind of a text depends on nothing else.
LEMMA SameType ==
  ASSUME text' = text
  PROVE  ArcDetermineCompressionType' = ArcDetermineCompressionType
BY DEF ArcDetermineCompressionType, Size

\* CompressBegin begins a history,
LEMMA BeginWrites ==
  ASSUME text \in Seq(Chars), CompressBegin, Size > 0, sent = <<>>, dst = {}
  PROVE  \E h : Writing(h)'
<1> PICK type : type = ArcDetermineCompressionType
  OBVIOUS
<1> DEFINE first == FirstTurn(type, HeaderSize * ByteBits)
           h == <<first>>
<1>1. /\ text' = text /\ sent' = <<>> /\ dst' = {} /\ pc' = "code"
      /\ c' = ArcCtrlNew(type) /\ src_pos' = 1 /\ dst_pos' = HeaderSize * ByteBits
      /\ basecode' = text[1]
  BY DEF CompressBegin
<1>2. Len(text) > 0 /\ Len(text) \in Nat /\ HeaderSize * ByteBits \in Nat
  BY ArchiveAssumption DEF Size
<1>3. \A n \in 1 .. Len(text) : text[n] < Shift[MinBits(type)]
  BY TypeFitsText DEF Size
<1>4. ArcDetermineCompressionType' = type
  BY <1>1, SameType
<1>5. /\ TurnOK(text, first, 1)
      /\ Says(text, first.tab, first.whr, text[1], 0, 1)
  BY <1>2, <1>3, FirstTurnOK
<1>6. /\ first.tab = ArcEntryGet(ArcCtrlNew(type)) /\ first.at = 0
      /\ first.pos = HeaderSize * ByteBits
  BY DEF FirstTurn
<1>7. first \in Turn
  BY <1>5 DEF TurnOK
<1> HIDE DEF first
<1>8. h \in Seq(Turn) /\ Len(h) = 1 /\ h[1] = first
  BY <1>7
<1> HIDE DEF h
<1>9. History(type, text, <<>>, h)
  BY <1>5, <1>6, <1>8 DEF History
<1>10. Written({}, dst_pos', <<>>, h)
  BY DEF Written
<1>11. /\ Len(h) = Len(sent') + 1
       /\ History(ArcDetermineCompressionType', text', sent', h)
       /\ Written(dst', dst_pos', sent', h)
       /\ dst' \subseteq 0 .. dst_pos' - 1
  <2>1. Len(h) = Len(<<>>) + 1
    BY <1>8
  <2>2. History(ArcDetermineCompressionType', text, <<>>, h)
    BY <1>4, <1>9
  <2> QED
    BY <1>1, <1>10, <2>1, <2>2
<1>12. /\ h[Len(h)].tab = IF pc' = "code" THEN ArcEntryGet(c') ELSE c'
       /\ ~(Len(h) > 1)
       /\ h[Len(h)].at < src_pos' /\ src_pos' <= Len(text')
       /\ h[Len(h)].pos = dst_pos'
       /\ Says(text', h[Len(h)].tab, h[Len(h)].whr, basecode', h[Len(h)].at,
               src_pos' - h[Len(h)].at)
  <2>1. first.at < 1 /\ 1 - first.at = 1 /\ 1 <= Len(text)
    BY <1>2, <1>6
  <2>2. h[Len(h)] = first
    BY <1>8
  <2> QED
    BY <1>1, <1>5, <1>6, <1>8, <2>1, <2>2
<1>13. Writing(h)'
  BY <1>11, <1>12 DEF Writing
<1> QED
  BY <1>13

\* setting an entry aside for its last code leaves it alone,
LEMMA CodeBeginWrites ==
  ASSUME NEW h, Writing(h), CodeBegin
  PROVE  Writing(h)'
<1>1. /\ text' = text /\ sent' = sent /\ dst' = dst /\ pc = "code" /\ pc' = "extend"
      /\ c' = ArcEntryGet(c) /\ src_pos' = src_pos /\ dst_pos' = dst_pos
      /\ basecode' = basecode
  BY DEF CodeBegin
<1>2. ArcDetermineCompressionType' = ArcDetermineCompressionType
  BY <1>1, SameType
<1> QED
  BY <1>1, <1>2 DEF Writing

\* What a history of writing says of the code in the making.
LEMMA WritingFacts ==
  ASSUME NEW h, Writing(h), NEW t, t = h[Len(h)], sent \in Seq(Place)
  PROVE  /\ Len(h) \in Nat /\ Len(h) >= 1 /\ Len(h) = Len(sent) + 1
         /\ TurnOK(text, t, Len(h))
         /\ t.at \in Nat /\ t.pos \in Nat /\ t.pos = dst_pos
         /\ \A n \in 1 .. Len(sent) + 1 : TurnOK(text, h[n], n)
<1>1. /\ Len(h) \in Nat /\ Len(h) >= 1 /\ Len(h) = Len(sent) + 1
      /\ \A n \in 1 .. Len(h) : TurnOK(text, h[n], n)
      /\ t.pos = dst_pos
  BY DEF Writing, History
<1>2. Len(h) \in 1 .. Len(h)
  BY <1>1
<1>3. TurnOK(text, t, Len(h))
  BY <1>1, <1>2
<1> QED
  BY <1>1, <1>3, TurnFacts

\* and so does a longer string for the last code;
LEMMA ExtendWrites ==
  ASSUME CompressorInv, sent \in Seq(Place), NEW h, Writing(h), CodeExtend
  PROVE  Writing(h)'
<1> PICK t : t = h[Len(h)]
  OBVIOUS
<1> DEFINE n == src_pos - t.at
<1>1. /\ text' = text /\ sent' = sent /\ dst' = dst /\ pc = "extend" /\ pc' = pc
      /\ c' = c /\ src_pos' = src_pos + 1 /\ dst_pos' = dst_pos
      /\ src_pos < Len(text)
      /\ basecode' \in c.hash[basecode]
      /\ c.compress[basecode'].ch = text[src_pos + 1]
  BY DEF CodeExtend, Longer, Size
<1>2. ArcDetermineCompressionType' = ArcDetermineCompressionType
  BY <1>1, SameType
<1>3. text \in Seq(Chars) /\ src_pos \in Nat
  BY <1>1 DEF CompressorInv, Compressing
<1>4. /\ Len(h) \in Nat /\ TurnOK(text, t, Len(h)) /\ t.at \in Nat
  BY WritingFacts
<1>5. /\ t.tab = c /\ t.at < src_pos /\ src_pos <= Len(text)
      /\ Says(text, c, t.whr, basecode, t.at, n)
  BY <1>1 DEF Writing
<1>6. /\ n \in Nat /\ t.at + n + 1 = src_pos + 1 /\ src_pos' - t.at = n + 1
      /\ t.at < src_pos' /\ src_pos' <= Len(text)
  BY <1>1, <1>3, <1>4, <1>5
<1>7. TableInv(c) /\ Strings(text, c, t.whr, Len(h))
  BY <1>4, <1>5 DEF TurnOK
<1> HIDE DEF n
<1>8. c.compress[basecode'].ch = text[t.at + n + 1]
  BY <1>1, <1>6
<1>9. Says(text, c, t.whr, basecode', t.at, n + 1)
  BY <1>1, <1>4, <1>5, <1>6, <1>7, <1>8, StringExtended
<1>10. /\ Len(h) = Len(sent') + 1
       /\ History(ArcDetermineCompressionType', text', sent', h)
       /\ Written(dst', dst_pos', sent', h)
       /\ dst' \subseteq 0 .. dst_pos' - 1
       /\ t.pos = dst_pos'
  BY <1>1, <1>2 DEF Writing
<1>11. /\ t.tab = IF pc' = "code" THEN ArcEntryGet(c') ELSE c'
       /\ t.at < src_pos' /\ src_pos' <= Len(text')
       /\ Says(text', t.tab, t.whr, basecode', t.at, src_pos' - t.at)
  BY <1>1, <1>5, <1>6, <1>9
<1> QED
  BY <1>1, <1>10, <1>11 DEF Writing

\* a code that is written is its last, and the next code's turn follows.
LEMMA EmitWrites ==
  ASSUME CompressorInv, sent \in Seq(Place), NEW h, Writing(h), CodeEmit
  PROVE  (\E g : Writing(g)') /\ sent' \in Seq(Place)
<1> PICK t : t = h[Len(h)]
  OBVIOUS
<1> DEFINE n == src_pos - t.at
<1> PICK new : new = NextTurn(text, t, basecode, n)
  OBVIOUS
<1> DEFINE g == Append(h, new)
           w == c.cur_bits_in_use
<1>1. /\ text' = text /\ pc = "extend" /\ pc' = "code"
      /\ c' = Linked(c, basecode, text[src_pos + 1])
      /\ src_pos' = src_pos + 1 /\ dst_pos' = dst_pos + w
      /\ src_pos < Len(text)
      /\ basecode' = text[src_pos + 1]
      /\ dst' = dst \cup BitsOf(basecode, dst_pos)
      /\ sent' = Append(sent, Code(dst_pos, basecode))
      /\ \A e \in c.hash[basecode] : c.compress[e].ch # text[src_pos + 1]
  BY DEF CodeEmit, Longer, Size
<1>2. ArcDetermineCompressionType' = ArcDetermineCompressionType
  BY <1>1, SameType
<1>3. text \in Seq(Chars) /\ src_pos \in Nat
  BY <1>1 DEF CompressorInv, Compressing
<1>4. /\ Len(h) \in Nat /\ Len(h) >= 1 /\ Len(h) = Len(sent) + 1
      /\ TurnOK(text, t, Len(h)) /\ t.at \in Nat /\ t.pos \in Nat /\ t.pos = dst_pos
      /\ \A m \in 1 .. Len(sent) + 1 : TurnOK(text, h[m], m)
  BY WritingFacts
<1>5. /\ t.tab = c /\ t.at < src_pos /\ src_pos <= Len(text)
      /\ Says(text, c, t.whr, basecode, t.at, n)
      /\ History(ArcDetermineCompressionType, text, sent, h)
      /\ Written(dst, dst_pos, sent, h) /\ dst \subseteq 0 .. dst_pos - 1
  BY <1>1 DEF Writing
<1>6. /\ n \in Nat /\ n >= 1 /\ t.at + n + 1 = src_pos + 1 /\ t.at + n = src_pos
      /\ t.at + n < Len(text)
  BY <1>1, <1>3, <1>4, <1>5
<1>7. \A e \in t.tab.hash[basecode] : t.tab.compress[e].ch # text[t.at + n + 1]
  BY <1>1, <1>5, <1>6
<1> HIDE DEF n
<1>8. /\ TurnOK(text, new, Len(h) + 1)
      /\ Follows(text, new, t, basecode)
      /\ Says(text, new.tab, new.whr, text[new.at + 1], new.at, 1)
  BY <1>3, <1>4, <1>5, <1>6, <1>7, NextTurnFollows
<1>9. /\ new.tab = ArcEntryGet(c') /\ new.at = src_pos /\ new.pos = dst_pos'
  BY <1>1, <1>4, <1>5, <1>6 DEF NextTurn
<1>10. basecode \in Codes /\ basecode < Shift[w] /\ w \in Nat
  <2>1. basecode \in Codes /\ basecode < Shift[w]
    BY <1>4, <1>5, SaysInWidth
  <2>2. w \in Nat
    BY <1>4, <1>5, TurnFacts, WidthAssumption
  <2> QED
    BY <2>1, <2>2
<1>11. Code(dst_pos, basecode).code = basecode /\ Code(dst_pos, basecode) \in Place
  BY <1>4, <1>10 DEF Code, Place
<1>12. /\ sent' \in Seq(Place)
       /\ Len(sent') = Len(sent) + 1
       /\ \A m \in 1 .. Len(sent) : sent'[m] = sent[m]
       /\ sent'[Len(h)] = Code(dst_pos, basecode)
  BY <1>1, <1>4, <1>11
<1>13. /\ History(ArcDetermineCompressionType, text, sent', g)
       /\ Len(g) = Len(h) + 1 /\ g[Len(h) + 1] = new
       /\ \A m \in 1 .. Len(h) : g[m] = h[m]
  <2>1. \A m \in 1 .. Len(h) : sent'[m].code = sent[m].code \/ m = Len(h)
    BY <1>4, <1>12
  <2>2. Follows(text, new, h[Len(h)], sent'[Len(h)].code)
    BY <1>8, <1>11, <1>12
  <2> QED
    BY <1>3, <1>5, <1>8, <2>1, <2>2, HistoryLonger
<1> HIDE DEF g
<1>14. /\ Written(dst', dst_pos', sent', g)
       /\ dst' \subseteq 0 .. dst_pos' - 1
  <2> PICK end : end = dst_pos + t.tab.cur_bits_in_use
    OBVIOUS
  <2>1. t = h[Len(sent) + 1]
    BY <1>4
  <2>2. t.tab.cur_bits_in_use = c.cur_bits_in_use
    BY <1>5
  <2>3. end \in Int /\ basecode < Shift[t.tab.cur_bits_in_use]
    BY <1>4, <1>10, <2>2
  <2>4. \A m \in 1 .. Len(sent) + 1 : g[m] = h[m]
    BY <1>4, <1>13
  <2>5. dst_pos' = end /\ dst_pos + t.tab.cur_bits_in_use <= end
    <3>1. dst_pos + t.tab.cur_bits_in_use <= end
      BY <2>3
    <3> QED
      BY <1>1, <2>2, <3>1
  <2>6. \A m \in 1 .. Len(sent) + 1 : TurnOK(text, h[m], m)
    BY <1>4
  <2>7. Written(dst, dst_pos, sent, h) /\ dst \subseteq 0 .. dst_pos - 1
    BY <1>5
  <2>8. t.pos = dst_pos /\ basecode \in Codes
    BY <1>4, <1>10
  <2> HIDE DEF w
  <2>10. /\ Written(dst \cup BitsOf(basecode, dst_pos), end,
                    Append(sent, Code(dst_pos, basecode)), g)
         /\ dst \cup BitsOf(basecode, dst_pos)
               \subseteq 0 .. dst_pos + t.tab.cur_bits_in_use - 1
    <3>1. sent \in Seq(Place)
      OBVIOUS
    <3> QED
      BY ONLY <2>1, <2>3, <2>4, <2>5, <2>6, <2>7, <2>8, <3>1, WrittenOneMore
  <2>11. /\ dst' = dst \cup BitsOf(basecode, dst_pos)
         /\ sent' = Append(sent, Code(dst_pos, basecode))
    BY <1>1
  <2>12. dst_pos' = end
    BY <2>5
  <2>13. Written(dst', dst_pos', sent', g)
    BY ONLY <2>10, <2>11, <2>12
  <2>14. dst_pos' = dst_pos + t.tab.cur_bits_in_use
    BY <2>12
  <2>15. dst' \subseteq 0 .. dst_pos' - 1
    <3>1. dst_pos \in Nat /\ t.tab.cur_bits_in_use \in Nat
      BY <1>4, <1>10, <2>2 DEF w
    <3>2. dst_pos + t.tab.cur_bits_in_use - 1 = dst_pos' - 1
      BY ONLY <2>14, <3>1
    <3> QED
      BY ONLY <2>10, <2>11, <3>2
  <2> QED
    BY <2>13, <2>15
<1>15. /\ Len(g) = Len(sent') + 1
       /\ History(ArcDetermineCompressionType', text', sent', g)
       /\ Written(dst', dst_pos', sent', g)
       /\ dst' \subseteq 0 .. dst_pos' - 1
  BY <1>1, <1>2, <1>4, <1>12, <1>13, <1>14
<1>16. /\ g[Len(g)].tab = IF pc' = "code" THEN ArcEntryGet(c') ELSE c'
       /\ g[Len(g)].at < src_pos' /\ src_pos' <= Len(text')
       /\ g[Len(g)].pos = dst_pos'
       /\ Says(text', g[Len(g)].tab, g[Len(g)].whr, basecode', g[Len(g)].at,
               src_pos' - g[Len(g)].at)
  <2>1. g[Len(g)] = new
    BY <1>4, <1>13
  <2>2. /\ new.at < src_pos' /\ src_pos' <= Len(text) /\ src_pos' - new.at = 1
        /\ text[new.at + 1] = basecode'
    BY <1>1, <1>3, <1>9
  <2> QED
    BY <1>1, <1>8, <1>9, <2>1, <2>2
<1>17. c'.cur_bits_in_use = g[Len(g) - 1].tab.cur_bits_in_use
  <2>1. g[Len(g) - 1] = t
    BY <1>4, <1>13
  <2>2. c'.cur_bits_in_use = c.cur_bits_in_use
    <3>1. TableInv(c) /\ ~c.entry_used /\ c \in Ctrl /\ c.cur_entry \in Codes
      BY <1>4, <1>5 DEF TurnOK, TableInv, Sized, SpareEntriesAreFree, IsSpare
    <3>2. text[src_pos + 1] \in Chars
      BY <1>1, <1>3
    <3>3. PICK ch, tbl, basis : ch = text[src_pos + 1] /\ tbl = c /\ basis = basecode
      OBVIOUS
    <3>4. /\ tbl \in Ctrl /\ tbl.cur_entry \in Codes /\ basis \in Codes /\ ch \in Chars
          /\ c' = Linked(tbl, basis, ch)
      BY <1>1, <1>10, <3>1, <3>2, <3>3
    <3>5. c'.cur_bits_in_use = tbl.cur_bits_in_use
      BY ONLY <3>4, LinkedFields
    <3> QED
      BY <3>3, <3>5
  <2> QED
    BY <1>5, <2>1, <2>2
<1>18. Writing(g)'
  BY <1>15, <1>16, <1>17 DEF Writing
<1> QED
  BY <1>12, <1>18
-----------------------------------------------------------------------------
EndOf(s, h, n) == IF n < Len(h) THEN h[n + 1].at ELSE Len(s)

\* What is read where the n-th code was written.
ReadAt(h, n) == BFieldExt(arc.bits, h[n].pos, h[n].tab.cur_bits_in_use)

\* The last code, one character, may be written over the end of the buffer and
\* read with what lies behind: whatever is read then, it is a character or a
\* code nobody has used.
Strays(h, n) ==
  /\ n = Len(h) /\ Overran
  /\ Len(text) = h[n].at + 1
  /\ ReadAt(h, n) \in Codes
  /\ n > 1 =>
       LET tab == h[n - 1].tab
       IN  /\ ReadAt(h, n) # tab.cur_entry
           /\ Literal(tab, ReadAt(h, n))
                \/ tab.compress[ReadAt(h, n)] = [basecode |-> 0, ch |-> 0]

\* What has been written is a history of all codes.
OnRecord(h) ==
  LET last == Len(h)
  IN  /\ last = Len(sent)
      /\ History(arc.compression_type, text, sent, h)
      /\ Says(text, h[last].tab, h[last].whr, sent[last].code, h[last].at,
              Len(text) - h[last].at)
      /\ \E bits : Written(bits, arc.compressed_size * ByteBits, sent, h)
      /\ \A n \in 1 .. last : ReadAt(h, n) = sent[n].code \/ Strays(h, n)
      /\ arc.expanded_size = Len(text)

\* The history goes on, as it is the same, with one more code.
LEMMA HistorySame ==
  ASSUME NEW type, NEW s, NEW codes, NEW more, NEW h, History(type, s, codes, h),
         \A n \in 1 .. Len(h) - 1 : more[n] = codes[n]
  PROVE  History(type, s, more, h)
BY DEF History

\* Rounding up to whole bytes makes room.
LEMMA WholeBytes ==
  ASSUME NEW b \in Nat, NEW B \in Nat, B >= 1
  PROVE  /\ (b + B - 1) \div B \in Nat
         /\ b <= ((b + B - 1) \div B) * B
<1> DEFINE e == b + B - 1
           q == e \div B
           r == e % B
<1>1. e \in Nat
  OBVIOUS
<1> HIDE DEF e
<1>2. q \in Nat /\ r \in 0 .. B - 1 /\ e = B * q + r
  BY <1>1
<1> HIDE DEF q, r
<1>3. B * q \in Nat /\ B * q = q * B
  BY <1>2
<1>4. e = b + B - 1
  BY DEF e
<1>5. b <= q * B
  BY <1>2, <1>3, <1>4
<1> QED
  BY <1>2, <1>5 DEF q, e

\* Products grow with their factors.
LEMMA TimesMonotone ==
  ASSUME NEW a \in Nat, NEW b \in Nat, a <= b, NEW m \in Nat
  PROVE  a * m <= b * m
<1>1. PICK d \in Nat : b = a + d
  <2> WITNESS b - a \in Nat
  <2> QED
    OBVIOUS
<1>2. b * m = a * m + d * m
  BY <1>1
<1>3. a * m \in Nat /\ d * m \in Nat /\ b * m \in Nat
  BY <1>1
<1> QED
  BY <1>2, <1>3

\* What is compressed does not say that it is stored as it is.
LEMMA TypeIsNotNone == ArcDetermineCompressionType # CT_NONE
BY DEF ArcDetermineCompressionType, CT_7_BIT, CT_8_BIT, CT_NONE

\* What is written over the end of the buffer goes astray at most so.
LEMMA LastCodeAstray ==
  ASSUME CompressorInv, sent \in Seq(Place), NEW h, Writing(h), pc = "code",
         src_pos = Len(text), NEW limit \in Nat,
         dst_pos + c.cur_bits_in_use <= limit,
         NEW t, t = h[Len(h)], ~(dst_pos + t.tab.cur_bits_in_use <= limit),
         NEW bits,
         bits \cap (dst_pos .. limit - 1)
           = BitsOf(basecode, dst_pos) \cap (dst_pos .. limit - 1),
         NEW v, v = BFieldExt(bits, dst_pos, t.tab.cur_bits_in_use)
  PROVE  /\ Len(text) = t.at + 1 /\ v \in Codes
         /\ Len(h) > 1 =>
              LET tab == h[Len(h) - 1].tab
              IN  /\ v # tab.cur_entry
                  /\ Literal(tab, v) \/ tab.compress[v] = [basecode |-> 0, ch |-> 0]
<1> PICK narrow, wide : narrow = c.cur_bits_in_use /\ wide = t.tab.cur_bits_in_use
  OBVIOUS
<1> PICK last : last = Len(h)
  OBVIOUS
<1>1. /\ TableInv(c) /\ c.entry_used /\ Literal(c, basecode) /\ basecode \in Codes
      /\ text \in Seq(Chars) /\ src_pos \in Nat
  <2>1. Size > 0
    <3>1. t.at \in Nat /\ t.at < src_pos /\ src_pos \in Nat
      BY WritingFacts DEF Writing, CompressorInv, Compressing
    <3> QED
      BY <3>1 DEF Size
  <2> QED
    BY <2>1 DEF CompressorInv, Compressing
<1>2. /\ last \in Nat /\ last >= 1 /\ last = Len(sent) + 1
      /\ TurnOK(text, t, last) /\ t.at \in Nat /\ dst_pos \in Nat
      /\ \A m \in 1 .. last : TurnOK(text, h[m], m)
  BY WritingFacts
<1>3. /\ t.tab = ArcEntryGet(c)
      /\ Says(text, t.tab, t.whr, basecode, t.at, Len(text) - t.at)
      /\ History(ArcDetermineCompressionType, text, sent, h)
      /\ last > 1 => narrow = h[last - 1].tab.cur_bits_in_use
  BY DEF Writing
<1>4. t.tab.min_table_entry = c.min_table_entry /\ wide = c.next_bits_in_use
  BY <1>1, <1>3, GetEntry
<1>5. /\ narrow \in 0 .. ARC_MAX_BITS /\ wide \in 0 .. ARC_MAX_BITS
      /\ narrow \in Nat /\ wide \in Nat /\ narrow <= wide
      /\ c.min_table_entry \in Nat /\ c.min_table_entry < Shift[narrow]
  <2>1. Sized(c)
    BY <1>1 DEF TableInv
  <2>2. narrow \in 1 .. ARC_MAX_BITS /\ wide \in 1 .. ARC_MAX_BITS
    BY <1>4, <2>1, SizedFacts
  <2>3. narrow \in Nat /\ wide \in Nat
    BY <2>2, WidthAssumption
  <2> QED
    BY <1>4, <2>1, <2>2, <2>3, SizedFacts DEF Sized
<1>6. basecode \in Nat /\ Shift[narrow] \in Nat /\ basecode < Shift[narrow]
  BY <1>1, <1>5, ShiftFacts DEF Literal, Codes
<1>7. v \in Codes /\ (v = basecode \/ v >= Shift[narrow])
  <2> PICK p, from : p = basecode /\ from = dst_pos
    OBVIOUS
  <2>1. /\ p \in Codes /\ p < Shift[narrow] /\ from \in Nat /\ limit \in Nat
        /\ from + narrow <= limit
        /\ bits \cap (from .. limit - 1) = BitsOf(p, from) \cap (from .. limit - 1)
        /\ v = BFieldExt(bits, from, wide)
    BY <1>1, <1>2, <1>6
  <2>2. v \in Codes /\ (v = p \/ v >= Shift[narrow])
    BY ONLY <1>5, <2>1, ReadPastTheEnd
  <2> QED
    BY <2>2
<1>8. narrow < wide
  BY <1>2, <1>5
<1>9. Len(text) = t.at + 1
  <2>1. Len(text) - t.at = 1 /\ Len(text) \in Nat
    BY <1>1, <1>3, <1>4 DEF Says, Literal
  <2> QED
    BY <1>2, <2>1
<1>10. ASSUME last > 1
       PROVE  LET tab == h[last - 1].tab
              IN  /\ v # tab.cur_entry
                  /\ Literal(tab, v) \/ tab.compress[v] = [basecode |-> 0, ch |-> 0]
  <2> PICK tab : tab = h[last - 1].tab
    OBVIOUS
  <2>1. /\ last - 1 \in 1 .. Len(h) - 1 /\ last - 1 \in 1 .. last
        /\ (last - 1) + 1 = last
    BY <1>2, <1>10
  <2>2. TableInv(tab) /\ ~tab.entry_used
    BY <1>2, <2>1 DEF TurnOK
  <2>3. Follows(text, t, h[last - 1], sent[last - 1].code)
    <3>1. Follows(text, h[(last - 1) + 1], h[last - 1], sent[last - 1].code)
      BY <1>3, <2>1 DEF History
    <3> QED
      BY <2>1, <3>1
  <2>4. /\ tab.min_table_entry = c.min_table_entry
        /\ tab.cur_bits_in_use = narrow /\ tab.next_bits_in_use = wide
    BY <1>3, <1>4, <1>10, <2>3 DEF Follows
  <2>5. /\ tab.cur_entry \in Codes /\ ~Literal(tab, tab.cur_entry)
    BY <2>2 DEF TableInv, SpareEntriesAreFree, IsSpare
  <2>6. CASE v = basecode
    <3>1. Literal(tab, v)
      BY <1>1, <2>4, <2>6 DEF Literal
    <3> QED
      BY <2>5, <3>1
  <2>7. CASE v >= Shift[narrow]
    <3>1. FreeIdxOK(tab) /\ Sized(tab)
      BY <2>2 DEF TableInv
    <3>2. narrow # ARC_MAX_BITS
      BY <1>5, <1>8, WidthAssumption
    <3>3. Unused(tab) /\ tab.free_idx <= Shift[narrow]
      BY <1>8, <2>4, <3>1, <3>2 DEF FreeIdxOK
    <3>4. tab.free_idx \in Nat /\ v \in Nat
      BY <1>7, <3>1, SizedFacts DEF Codes
    <3>5. v >= tab.free_idx
      BY <1>6, <2>7, <3>3, <3>4
    <3> QED
      BY <1>7, <3>3, <3>5 DEF Unused
  <2> QED
    BY <1>7, <2>6, <2>7
<1> QED
  BY <1>7, <1>9, <1>10

\* The last code of all: in the archive is a history of all codes, though the
\* block may have taken in a byte that is not its own.
LEMMA EndWrites ==
  ASSUME CompressorInv, sent \in Seq(Place), NEW h, Writing(h), CompressEnd
  PROVE  /\ sent' \in Seq(Place)
         /\ arc'.compression_type # CT_NONE
         /\ OnRecord(h)'
<1> PICK t : t = h[Len(h)]
  OBVIOUS
<1> PICK end : end = dst_pos + c.next_bits_in_use
  OBVIOUS
<1>1. /\ text' = text /\ pc \in {"code", "extend"}
      /\ ~(src_pos < Len(text)) \/ pc = "code"
      /\ src_pos = Len(text) /\ dst_pos + c.cur_bits_in_use <= DstBits
      /\ sent' = Append(sent, Code(dst_pos, basecode))
  BY DEF CompressEnd, CodesDone, HasRoom, Size
<1>2. PICK behind \in SUBSET (DstBits .. CompressedSize(end) * ByteBits - 1) :
        arc' = [compression_type |-> ArcDetermineCompressionType,
                compressed_size |-> CompressedSize(end),
                expanded_size |-> Size,
                bits |-> dst \cup BitsOf(basecode, dst_pos) \cup behind,
                body |-> <<>>]
  BY DEF CompressEnd
<1>3. /\ arc'.compression_type = ArcDetermineCompressionType
      /\ arc'.compressed_size = CompressedSize(end)
      /\ arc'.expanded_size = Len(text)
      /\ arc'.bits = dst \cup BitsOf(basecode, dst_pos) \cup behind
  BY <1>2 DEF Size
<1>4. /\ Len(h) \in Nat /\ Len(h) >= 1 /\ Len(h) = Len(sent) + 1
      /\ TurnOK(text, t, Len(h)) /\ t.at \in Nat /\ t.pos \in Nat /\ t.pos = dst_pos
      /\ \A m \in 1 .. Len(sent) + 1 : TurnOK(text, h[m], m)
  BY WritingFacts
<1>5. /\ t.tab = IF pc = "code" THEN ArcEntryGet(c) ELSE c
      /\ Says(text, t.tab, t.whr, basecode, t.at, src_pos - t.at)
      /\ History(ArcDetermineCompressionType, text, sent, h)
      /\ Written(dst, dst_pos, sent, h) /\ dst \subseteq 0 .. dst_pos - 1
  BY DEF Writing
<1>6. basecode \in Codes /\ basecode < Shift[t.tab.cur_bits_in_use]
  BY <1>4, <1>5, SaysInWidth
<1>7. /\ c.next_bits_in_use \in Nat /\ t.tab.cur_bits_in_use \in Nat
      /\ t.tab.cur_bits_in_use <= c.next_bits_in_use
  <2>1. TableInv(c) /\ (pc = "code" => c.entry_used)
    BY <1>1 DEF CompressorInv, Compressing
  <2>2. /\ c.next_bits_in_use \in 1 .. ARC_MAX_BITS
        /\ c.cur_bits_in_use \in 1 .. ARC_MAX_BITS
        /\ c.cur_bits_in_use <= c.next_bits_in_use
    BY <2>1, SizedFacts DEF TableInv, Sized
  <2>3. /\ c.next_bits_in_use \in Nat /\ c.cur_bits_in_use \in Nat
    BY <2>2, WidthAssumption
  <2>4. pc = "code" => t.tab.cur_bits_in_use = c.next_bits_in_use
    BY <1>5, <2>1, GetEntry
  <2>5. pc # "code" => t.tab.cur_bits_in_use = c.cur_bits_in_use
    BY <1>5
  <2> QED
    BY <2>2, <2>3, <2>4, <2>5
<1>8. ByteBits \in Nat /\ ByteBits >= 1 /\ HeaderSize \in Nat
  BY ArchiveAssumption, WidthAssumption
<1>9. /\ end \in Nat /\ dst_pos + t.tab.cur_bits_in_use <= end
      /\ CompressedSize(end) \in Nat /\ end <= CompressedSize(end) * ByteBits
  <2>1. end \in Nat /\ dst_pos + t.tab.cur_bits_in_use <= end
    BY <1>4, <1>7
  <2> QED
    BY <1>8, <2>1, WholeBytes DEF CompressedSize
<1>10. CompressedSize(end) * ByteBits \in Nat
  BY <1>8, <1>9
<1>11. Code(dst_pos, basecode) \in Place
  BY <1>4, <1>6 DEF Code, Place
<1>12. /\ sent' \in Seq(Place) /\ Len(sent') = Len(sent) + 1
       /\ \A m \in 1 .. Len(sent) : sent'[m] = sent[m]
       /\ sent'[Len(h)].code = basecode
  BY <1>1, <1>4, <1>11 DEF Code
<1> PICK bits : bits = dst \cup BitsOf(basecode, dst_pos)
  OBVIOUS
<1>13. Written(bits, CompressedSize(end) * ByteBits,
               Append(sent, Code(dst_pos, basecode)), h)
  <2>1. dst_pos + t.tab.cur_bits_in_use <= CompressedSize(end) * ByteBits
    <3>1. dst_pos + t.tab.cur_bits_in_use \in Nat
      BY <1>4, <1>7
    <3> QED
      BY <1>9, <1>10, <3>1
  <2>2. t = h[Len(sent) + 1] /\ CompressedSize(end) * ByteBits \in Int
    BY <1>4, <1>10
  <2>3. sent \in Seq(Place) /\ bits = dst \cup BitsOf(basecode, dst_pos)
    OBVIOUS
  <2>4. \A m \in 1 .. Len(sent) + 1 : h[m] = h[m]
    OBVIOUS
  <2>5. Written(dst, dst_pos, sent, h) /\ dst \subseteq 0 .. dst_pos - 1
    BY <1>5
  <2>6. t.pos = dst_pos /\ \A m \in 1 .. Len(sent) + 1 : TurnOK(text, h[m], m)
    BY <1>4
  <2> QED
    BY ONLY <1>6, <2>1, <2>2, <2>3, <2>4, <2>5, <2>6, WrittenOneMore
<1>14. /\ DstBits \in Nat /\ DstBits = (Len(text) + HeaderSize) * ByteBits
       /\ Len(text) + HeaderSize \in Nat
  <2>1. Len(text) \in Nat
    BY DEF CompressorInv
  <2> QED
    BY <1>8, <2>1 DEF DstBits, Size
<1>15. \A x \in Int : x < DstBits => (x \in arc'.bits <=> x \in bits)
  <2>1. \A x \in behind : ~(x < DstBits)
    BY <1>10, <1>14
  <2> QED
    BY <1>3, <2>1
<1>16. ASSUME NEW n \in 1 .. Len(h),
              h[n].pos + h[n].tab.cur_bits_in_use <= DstBits
       PROVE  ReadAt(h, n)' = sent'[n].code
  <2> PICK w, from, v : w = h[n].tab.cur_bits_in_use /\ from = h[n].pos /\ v = sent'[n].code
    OBVIOUS
  <2>1. TurnOK(text, h[n], n) /\ n \in 1 .. Len(sent')
    BY <1>4, <1>12
  <2>2. w \in 0 .. ARC_MAX_BITS /\ w \in Nat /\ from \in Nat /\ from + w <= DstBits
    <3>1. from \in Nat /\ w \in 1 .. ARC_MAX_BITS
      BY <2>1, TurnFacts
    <3> QED
      BY <1>16, <3>1, WidthAssumption
  <2>3. v \in Nat
    <3>1. sent'[n] \in Place
      BY <1>12, <2>1
    <3> QED
      BY <3>1 DEF Place, Codes
  <2>4. v < Shift[w] /\ bits \cap (from .. from + w - 1) = BitsOf(v, from)
    BY <1>1, <1>13, <2>1 DEF Written
  <2>5. \A x \in from .. from + w - 1 : x \in Int /\ x < DstBits
    BY <1>14, <2>2
  <2>6. arc'.bits \cap (from .. from + w - 1) = BitsOf(v, from)
    BY <1>15, <2>4, <2>5
  <2>7. BFieldExt(arc'.bits, from, w) = v
    BY ONLY <2>2, <2>3, <2>4, <2>6, ReadBack
  <2> QED
    BY <2>7 DEF ReadAt
<1>17. ASSUME NEW n \in 1 .. Len(h), n # Len(h)
       PROVE  ReadAt(h, n)' = sent'[n].code
  <2> PICK w, from : w = h[n].tab.cur_bits_in_use /\ from = h[n].pos
    OBVIOUS
  <2>1. n \in 1 .. Len(sent) /\ TurnOK(text, h[n], n)
    BY <1>4, <1>17
  <2>2. from + w <= dst_pos
    BY <1>5, <2>1 DEF Written
  <2>3. from \in Nat /\ w \in Nat
    BY <2>1, TurnFacts, WidthAssumption
  <2>4. c.cur_bits_in_use \in Nat /\ dst_pos \in Nat
    <3>1. TableInv(c)
      BY <1>1 DEF CompressorInv, Compressing
    <3> QED
      BY <1>4, <3>1, SizedFacts, WidthAssumption DEF TableInv
  <2>5. from + w <= DstBits
    BY ONLY <1>1, <1>14, <2>2, <2>3, <2>4
  <2> QED
    BY <1>16, <2>5
<1>18. ASSUME ~(dst_pos + t.tab.cur_bits_in_use <= DstBits)
       PROVE  Strays(h, Len(h))'
  <2>1. pc = "code" /\ src_pos = Len(text) /\ dst_pos + c.cur_bits_in_use <= DstBits
    BY <1>1, <1>5, <1>18
  <2>2. arc'.bits \cap (dst_pos .. DstBits - 1)
          = BitsOf(basecode, dst_pos) \cap (dst_pos .. DstBits - 1)
    <3> SUFFICES ASSUME NEW x \in dst_pos .. DstBits - 1
                 PROVE  x \in arc'.bits <=> x \in BitsOf(basecode, dst_pos)
      OBVIOUS
    <3>1. x \in Int /\ x < DstBits /\ x \notin 0 .. dst_pos - 1
      BY <1>4, <1>14
    <3>2. x \notin dst
      BY <1>5, <3>1
    <3> QED
      BY <1>15, <3>1, <3>2
  <2> PICK v : v = BFieldExt(arc'.bits, dst_pos, t.tab.cur_bits_in_use)
    OBVIOUS
  <2>3. /\ Len(text) = t.at + 1 /\ v \in Codes
        /\ Len(h) > 1 =>
             LET tab == h[Len(h) - 1].tab
             IN  /\ v # tab.cur_entry
                 /\ Literal(tab, v) \/ tab.compress[v] = [basecode |-> 0, ch |-> 0]
    BY <1>14, <1>18, <2>1, <2>2, LastCodeAstray
  <2>4. Overran'
    <3> SUFFICES ASSUME CompressedSize(end) <= Len(text) + HeaderSize
                 PROVE  FALSE
      BY <1>1, <1>3, <1>9, <1>14 DEF Overran, Size
    <3>1. PICK packed, most : packed = CompressedSize(end) /\ most = Len(text) + HeaderSize
      OBVIOUS
    <3>2. packed \in Nat /\ most \in Nat /\ packed <= most
      BY <1>9, <1>14, <3>1
    <3>3. packed * ByteBits <= most * ByteBits
      BY ONLY <1>8, <3>2, TimesMonotone
    <3>4. end <= DstBits
      BY <1>9, <1>10, <1>14, <3>1, <3>3
    <3>5. dst_pos + t.tab.cur_bits_in_use \in Nat
      BY <1>4, <1>7
    <3> QED
      BY <1>9, <1>14, <1>18, <3>4, <3>5
  <2>5. ReadAt(h, Len(h))' = v
    BY <1>4 DEF ReadAt
  <2>6. Len(text') = h[Len(h)].at + 1
    BY <1>1, <2>3
  <2> QED
    BY <2>3, <2>4, <2>5, <2>6 DEF Strays
<1>19. \A n \in 1 .. Len(h) : ReadAt(h, n)' = sent'[n].code \/ Strays(h, n)'
  <2>1. CASE dst_pos + t.tab.cur_bits_in_use <= DstBits
    BY <1>4, <1>16, <1>17, <2>1
  <2>2. CASE ~(dst_pos + t.tab.cur_bits_in_use <= DstBits)
    BY <1>17, <1>18, <2>2
  <2> QED
    BY <2>1, <2>2
<1>20. History(arc'.compression_type, text', sent', h)
  <2>1. \A n \in 1 .. Len(h) - 1 : sent'[n] = sent[n]
    BY <1>4, <1>12
  <2>2. History(ArcDetermineCompressionType, text, sent', h)
    BY <1>5, <2>1, HistorySame
  <2> QED
    BY <1>1, <1>3, <2>2
<1>21. Written(bits, arc'.compressed_size * ByteBits, sent', h)
  BY <1>1, <1>3, <1>13
<1>22. Says(text', h[Len(h)].tab, h[Len(h)].whr, sent'[Len(h)].code, h[Len(h)].at,
            Len(text') - h[Len(h)].at)
  BY <1>1, <1>5, <1>12
<1>23. Len(h) = Len(sent') /\ arc'.expanded_size = Len(text')
  BY <1>1, <1>3, <1>4, <1>12
<1>24. OnRecord(h)'
  BY <1>19, <1>20, <1>21, <1>22, <1>23 DEF OnRecord
<1> QED
  BY <1>3, <1>12, <1>24, TypeIsNotNone
-----------------------------------------------------------------------------
\* What is recorded of the n-th code, and that it is read where it is.
LEMMA RecordedFacts ==
  ASSUME text \in Seq(Chars), sent \in Seq(Place), NEW h, OnRecord(h),
         NEW n \in 1 .. Len(h), NEW t, t = h[n], NEW end, end = EndOf(text, h, n)
  PROVE  /\ TurnOK(text, t, n) /\ t.at \in Nat /\ t.pos \in Nat
         /\ end \in Nat /\ t.at < end /\ end <= Len(text)
         /\ Says(text, t.tab, t.whr, sent[n].code, t.at, end - t.at)
         /\ sent[n] = Code(t.pos, sent[n].code) /\ sent[n] \in Place
         /\ ReadAt(h, n) = sent[n].code \/ Strays(h, n)
         /\ t.pos + t.tab.cur_bits_in_use <= arc.compressed_size * ByteBits
<1>1. /\ Len(h) \in Nat /\ Len(h) = Len(sent) /\ Len(text) \in Nat
      /\ \A m \in 1 .. Len(h) : TurnOK(text, h[m], m)
      /\ \A m \in 1 .. Len(h) - 1 : Follows(text, h[m + 1], h[m], sent[m].code)
      /\ arc.expanded_size = Len(text)
  <2>1. Len(h) = Len(sent) /\ arc.expanded_size = Len(text)
        /\ History(arc.compression_type, text, sent, h)
    BY DEF OnRecord
  <2>2. h \in Seq(Turn) /\ Len(text) \in Nat
    BY <2>1 DEF History
  <2>3. /\ \A m \in 1 .. Len(h) : TurnOK(text, h[m], m)
        /\ \A m \in 1 .. Len(h) - 1 : Follows(text, h[m + 1], h[m], sent[m].code)
    BY <2>1 DEF History
  <2> QED
    BY <2>1, <2>2, <2>3
<1>2. TurnOK(text, t, n) /\ t.at < Len(text)
  BY <1>1 DEF TurnOK
<1>3. /\ t.at \in Nat /\ t.pos \in Nat
      /\ t.tab.cur_bits_in_use \in 1 .. ARC_MAX_BITS
  BY <1>2, TurnFacts
<1>4. /\ end \in Nat /\ t.at < end /\ end <= Len(text)
      /\ Says(text, t.tab, t.whr, sent[n].code, t.at, end - t.at)
  <2>1. CASE n < Len(h)
    <3>1. n \in 1 .. Len(h) - 1 /\ n + 1 \in 1 .. Len(h)
      BY <1>1, <2>1
    <3>2. Follows(text, h[n + 1], t, sent[n].code) /\ end = h[n + 1].at
      BY <1>1, <2>1, <3>1 DEF EndOf
    <3>3. TurnOK(text, h[n + 1], n + 1) /\ h[n + 1].at < Len(text)
      BY <1>1, <3>1 DEF TurnOK
    <3>4. h[n + 1].at \in Nat
      BY <3>3, TurnFacts
    <3> QED
      BY <1>1, <3>2, <3>3, <3>4 DEF Follows
  <2>2. CASE ~(n < Len(h))
    <3>1. n = Len(h) /\ end = Len(text)
      BY <1>1, <2>2 DEF EndOf
    <3>2. Says(text, h[Len(h)].tab, h[Len(h)].whr, sent[Len(h)].code, h[Len(h)].at,
               Len(text) - h[Len(h)].at)
      BY DEF OnRecord
    <3> QED
      BY <1>1, <1>2, <3>1, <3>2
  <2> QED
    BY <2>1, <2>2
<1>5. /\ sent[n].pos = t.pos
      /\ t.pos + t.tab.cur_bits_in_use <= arc.compressed_size * ByteBits
  <2>1. n \in 1 .. Len(sent)
    BY <1>1
  <2>2. PICK bits : Written(bits, arc.compressed_size * ByteBits, sent, h)
    BY DEF OnRecord
  <2> QED
    BY <2>1, <2>2 DEF Written
<1>6. sent[n] \in Place
  BY <1>1
<1>7. sent[n] = Code(t.pos, sent[n].code) /\ sent[n].code \in Nat
  BY <1>5, <1>6 DEF Place, Code, Codes
<1>8. ReadAt(h, n) = sent[n].code \/ Strays(h, n)
  BY DEF OnRecord
<1> QED
  BY <1>2, <1>3, <1>4, <1>5, <1>6, <1>7, <1>8

\* Of one code and the next.
LEMMA RecordedNext ==
  ASSUME text \in Seq(Chars), sent \in Seq(Place), NEW h, OnRecord(h),
         NEW n \in 1 .. Len(h), n # Len(h)
  PROVE  /\ n + 1 \in 1 .. Len(h)
         /\ Follows(text, h[n + 1], h[n], sent[n].code)
         /\ EndOf(text, h, n) = h[n + 1].at /\ h[n + 1].at < Len(text)
         /\ h[n + 1].pos = h[n].pos + h[n].tab.cur_bits_in_use
         /\ h[n + 1].tab.cur_bits_in_use = h[n].tab.next_bits_in_use
<1>1. /\ Len(h) \in Nat
      /\ \A m \in 1 .. Len(h) : TurnOK(text, h[m], m)
      /\ \A m \in 1 .. Len(h) - 1 : Follows(text, h[m + 1], h[m], sent[m].code)
  <2>1. History(arc.compression_type, text, sent, h)
    BY DEF OnRecord
  <2>2. h \in Seq(Turn)
    BY <2>1 DEF History
  <2>3. /\ \A m \in 1 .. Len(h) : TurnOK(text, h[m], m)
        /\ \A m \in 1 .. Len(h) - 1 : Follows(text, h[m + 1], h[m], sent[m].code)
    BY <2>1 DEF History
  <2> QED
    BY <2>2, <2>3
<1>2. n \in 1 .. Len(h) - 1 /\ n + 1 \in 1 .. Len(h) /\ n < Len(h)
  BY <1>1
<1>3. TurnOK(text, h[n + 1], n + 1) /\ Follows(text, h[n + 1], h[n], sent[n].code)
  BY <1>1, <1>2
<1> QED
  BY <1>2, <1>3 DEF TurnOK, Follows, EndOf

\* What comes of the text after its first n characters.
Shows(n) ==
  /\ out \in Seq(Chars) /\ Len(out) = n
  /\ \A m \in 1 .. n : out[m] = text[m]

\* Between two codes the expander has the table the last of them was written with.
BetweenCodes(h) ==
  LET n == Len(got)
  IN  /\ n >= 1 /\ stk = <<>>
      /\ c = h[n].tab /\ lastcode = sent[n].code
      /\ src_pos = h[n].pos + h[n].tab.cur_bits_in_use
      /\ last_ch = text[h[n].at + 1]
      /\ Shows(EndOf(text, h, n))

\* While a code is taken apart it has the table of the one before; what is on
\* the stack and what code stands for are together the characters of the code.
WithinCode(h) ==
  LET n == Len(got)
      end == EndOf(text, h, n)
      rest == end - h[n].at - Len(stk)
  IN  /\ n >= 2
      /\ c = h[n - 1].tab /\ lastcode = sent[n - 1].code /\ basecode = sent[n].code
      /\ src_pos = h[n].pos + h[n].tab.cur_bits_in_use
      /\ Shows(h[n].at)
      /\ rest >= 1
      /\ Says(text, c, h[n - 1].whr, code, h[n].at, rest)
      /\ stk \in Seq(Chars)
      /\ \A m \in 1 .. Len(stk) : stk[m] = text[end + 1 - m]

Reading(h) ==
  /\ got \in Seq(Place) /\ Len(got) <= Len(h)
  /\ \A m \in 1 .. Len(got) : got[m] = sent[m]
  /\ pc \in {"expand", "read", "unwind", "done"}
  /\ pc = "expand" => got = <<>> /\ out = <<>>
  /\ pc = "read" => BetweenCodes(h)
  /\ pc = "unwind" => WithinCode(h)
  /\ pc = "done" => Shows(Len(text))

\* A code that went astray is the last: it puts two characters on the stack at
\* most, and for one of them there is room.
Straying(h) ==
  LET n == Len(h)
  IN  /\ Strays(h, n)
      /\ got \in Seq(Place) /\ Len(got) = n
      /\ pc \in {"read", "unwind", "done"}
      /\ c \in Ctrl /\ out \in Seq(Chars) /\ stk \in Seq(Chars)
      /\ pc # "unwind" =>
           Len(out) = Len(text) /\ (stk = <<>> \/ (Len(stk) = 1 /\ n >= 2))
      /\ pc = "unwind" =>
           /\ n >= 2 /\ c = h[n - 1].tab /\ lastcode = sent[n - 1].code
           /\ Len(out) = Len(text) - 1
           /\ code \in Codes
           /\ \/ /\ Len(stk) = 1
                 /\ Literal(c, code)
              \/ /\ stk = <<>>
                 /\ \/ Literal(c, code)
                    \/ c.compress[code] = [basecode |-> 0, ch |-> 0]

\* The record is of what no step of the expander changes.
LEMMA RecordedStays ==
  ASSUME NEW h, OnRecord(h), text' = text, sent' = sent, arc' = arc
  PROVE  /\ OnRecord(h)'
         /\ \A n : Strays(h, n) => Strays(h, n)'
<1>1. \A n : ReadAt(h, n)' = ReadAt(h, n)
  BY DEF ReadAt
<1>2. \A n : Strays(h, n) => Strays(h, n)'
  BY <1>1 DEF Strays, Overran, Size
<1> QED
  BY <1>1, <1>2 DEF OnRecord

\* Nor does any change where in the text a code ends.
LEMMA EndOfStays ==
  ASSUME NEW h, NEW n, text' = text
  PROVE  EndOf(text', h, n) = EndOf(text, h, n)
OBVIOUS

\* The first code is read in the place and the width it was written in, and
\* is the first character.
LEMMA BeginReads ==
  ASSUME text \in Seq(Chars), sent \in Seq(Place), NEW h, OnRecord(h), Reading(h),
         ExpandBegin, ~Strays(h, 1)
  PROVE  Reading(h)'
<1> PICK new : new = ArcCtrlNew(arc.compression_type)
  OBVIOUS
<1> PICK at : at = HeaderSize * ByteBits
  OBVIOUS
<1> PICK first : first = BFieldExt(arc.bits, at, new.next_bits_in_use)
  OBVIOUS
<1>1. /\ text' = text /\ sent' = sent /\ arc' = arc /\ pc' = "read"
      /\ src_pos' = at + new.next_bits_in_use
      /\ c' = ArcEntryGet(new) /\ lastcode' = first /\ last_ch' = first
      /\ out' = <<first % Shift[LowBits + 1]>> /\ got' = <<Code(at, first)>>
      /\ stk' = <<>>
  BY DEF ExpandBegin
<1>2. /\ Len(h) \in Nat /\ Len(h) >= 1
      /\ h[1].tab = ArcEntryGet(new) /\ h[1].at = 0 /\ h[1].pos = at
      /\ \A n \in 1 .. Len(h) : TurnOK(text, h[n], n)
  BY DEF OnRecord, History
<1>3. h[1].tab.cur_bits_in_use = new.next_bits_in_use
  BY <1>2, NewTable, GetEntry
<1> PICK end : end = EndOf(text, h, 1)
  OBVIOUS
<1>4. /\ TurnOK(text, h[1], 1)
      /\ end \in Nat /\ 0 < end /\ end <= Len(text)
      /\ Says(text, h[1].tab, h[1].whr, sent[1].code, 0, end - 0)
      /\ sent[1] = Code(at, sent[1].code) /\ sent[1] \in Place
      /\ first = sent[1].code
  <2>1. 1 \in 1 .. Len(h)
    BY <1>2
  <2> QED
    BY <1>2, <1>3, <2>1, RecordedFacts DEF ReadAt
<1>5. Literal(h[1].tab, first)
  <2>1. h[1].whr[first].len \in 2 .. 1 \/ first \notin OnChain(h[1].tab)
    BY <1>4 DEF TurnOK, Strings
  <2>2. first \notin OnChain(h[1].tab)
    BY <2>1
  <2> QED
    BY <1>4, <2>2 DEF Says
<1>6. end = 1 /\ first = text[1]
  BY <1>4, <1>5 DEF Says
<1>7. first \in Chars /\ first % Shift[LowBits + 1] = first
  <2>1. first \in Chars
    BY <1>4, <1>6
  <2>2. Shift[LowBits + 1] \in Nat
    BY ShiftFacts, WidthAssumption
  <2> QED
    <3>1. first \in Nat /\ first < Shift[LowBits + 1]
      BY <2>1, <2>2 DEF Chars
    <3> QED
      BY ONLY <2>1, <2>2, <3>1
<1>8. /\ got' \in Seq(Place) /\ Len(got') = 1 /\ got'[1] = sent[1]
  BY <1>1, <1>4
<1>9. /\ out' \in Seq(Chars) /\ Len(out') = 1 /\ out'[1] = text[1]
  BY <1>1, <1>6, <1>7
<1>10. Shows(1)'
  BY <1>1, <1>9 DEF Shows
<1>11. EndOf(text', h, 1) = 1
  BY <1>1, <1>6
<1>12. BetweenCodes(h)'
  <2>1. lastcode' = sent'[1].code /\ last_ch' = text'[h[1].at + 1]
    BY <1>1, <1>2, <1>4, <1>6
  <2>2. /\ c' = h[1].tab /\ stk' = <<>>
        /\ src_pos' = h[1].pos + h[1].tab.cur_bits_in_use
    BY <1>1, <1>2, <1>3
  <2>3. Shows(EndOf(text, h, 1))'
    BY <1>10, <1>11
  <2> QED
    BY <1>8, <2>1, <2>2, <2>3 DEF BetweenCodes
<1> QED
  BY <1>1, <1>2, <1>8, <1>12 DEF Reading

\* or it is all there is of the text and goes astray.
LEMMA BeginStrays ==
  ASSUME text \in Seq(Chars), sent \in Seq(Place), NEW h, OnRecord(h),
         ExpandBegin, Strays(h, 1)
  PROVE  Straying(h)'
<1> PICK new : new = ArcCtrlNew(arc.compression_type)
  OBVIOUS
<1> PICK at : at = HeaderSize * ByteBits
  OBVIOUS
<1> PICK first : first = BFieldExt(arc.bits, at, new.next_bits_in_use)
  OBVIOUS
<1>1. /\ text' = text /\ sent' = sent /\ arc' = arc /\ pc' = "read"
      /\ c' = ArcEntryGet(new)
      /\ out' = <<first % Shift[LowBits + 1]>> /\ got' = <<Code(at, first)>>
      /\ stk' = <<>>
  BY DEF ExpandBegin
<1>2. /\ h[1].tab = ArcEntryGet(new) /\ h[1].at = 0 /\ h[1].pos = at
      /\ Len(h) = 1 /\ Len(text) = h[1].at + 1
      /\ ReadAt(h, 1) \in Codes
  BY DEF OnRecord, History, Strays
<1>3. TurnOK(text, h[1], 1)
  <2>1. 1 \in 1 .. Len(h)
    BY <1>2
  <2> QED
    BY <2>1, RecordedFacts
<1>4. h[1].tab \in Ctrl
  BY <1>3 DEF TurnOK, Turn
<1>5. h[1].tab.cur_bits_in_use = new.next_bits_in_use
  BY <1>2, NewTable, GetEntry
<1>6. first \in Codes
  BY <1>2, <1>5 DEF ReadAt
<1>7. first % Shift[LowBits + 1] \in Chars
  <2>1. /\ Shift[LowBits + 1] \in Nat /\ Shift[LowBits + 1] >= 1
        /\ first \in Nat
    BY <1>6, ShiftFacts, WidthAssumption DEF Codes
  <2>2. first % Shift[LowBits + 1] \in 0 .. Shift[LowBits + 1] - 1
    BY ONLY <2>1
  <2> QED
    BY <2>2 DEF Chars
<1>8. Code(at, first) \in Place
  <2>1. at \in Nat
    BY ArchiveAssumption
  <2> QED
    BY <1>6, <2>1 DEF Code, Place
<1>9. /\ out' \in Seq(Chars) /\ Len(out') = Len(text')
      /\ got' \in Seq(Place) /\ Len(got') = Len(h)
      /\ stk' \in Seq(Chars) /\ c' \in Ctrl
  BY <1>1, <1>2, <1>4, <1>7, <1>8
<1>10. Strays(h, Len(h))'
  BY <1>1, <1>2, RecordedStays
<1> QED
  BY <1>1, <1>9, <1>10 DEF Straying
-----------------------------------------------------------------------------
\* What is out is less than the text as long as there are codes to read, and
\* then there are bits to read them from.
LEMMA MoreToReadMeans ==
  ASSUME text \in Seq(Chars), sent \in Seq(Place), NEW h, OnRecord(h), Reading(h),
         pc = "read"
  PROVE  /\ Len(got) \in 1 .. Len(h)
         /\ src_pos \in Int /\ ReadWidth \in Int
         /\ MoreToRead <=> Len(got) # Len(h)
         /\ Len(got) # Len(h) => /\ src_pos = h[Len(got) + 1].pos
                                 /\ ReadWidth = h[Len(got) + 1].tab.cur_bits_in_use
<1> PICK n : n = Len(got)
  OBVIOUS
<1>1. /\ n \in 1 .. Len(h)
      /\ c = h[n].tab /\ src_pos = h[n].pos + h[n].tab.cur_bits_in_use
      /\ Len(out) = EndOf(text, h, n)
  <2>1. BetweenCodes(h) /\ got \in Seq(Place) /\ Len(got) <= Len(h)
    BY DEF Reading
  <2>2. Len(h) \in Nat
    BY DEF OnRecord, History
  <2> QED
    BY <2>1, <2>2 DEF BetweenCodes, Shows
<1>2. /\ TurnOK(text, h[n], n) /\ h[n].pos \in Nat
      /\ EndOf(text, h, n) <= Len(text)
  BY <1>1, RecordedFacts
<1>3. /\ h[n].tab.cur_bits_in_use \in Nat /\ h[n].tab.next_bits_in_use \in Nat
  BY <1>2, TurnFacts, WidthAssumption
<1>4. src_pos \in Int /\ ReadWidth = h[n].tab.next_bits_in_use /\ ReadWidth \in Int
  BY <1>1, <1>2, <1>3 DEF ReadWidth
<1>5. arc.expanded_size = Len(text)
  BY DEF OnRecord
<1>6. CASE n # Len(h)
  <2>1. /\ n + 1 \in 1 .. Len(h)
        /\ EndOf(text, h, n) = h[n + 1].at /\ h[n + 1].at < Len(text)
        /\ h[n + 1].pos = h[n].pos + h[n].tab.cur_bits_in_use
        /\ h[n + 1].tab.cur_bits_in_use = h[n].tab.next_bits_in_use
    BY <1>1, <1>6, RecordedNext
  <2>2. h[n + 1].pos + h[n + 1].tab.cur_bits_in_use <= arc.compressed_size * ByteBits
    BY <2>1, RecordedFacts
  <2>3. MoreToRead
    BY <1>1, <1>4, <1>5, <2>1, <2>2 DEF MoreToRead
  <2> QED
    BY <1>1, <1>4, <1>6, <2>1, <2>3
<1>7. CASE n = Len(h)
  <2>1. Len(out) = Len(text) /\ text \in Seq(Chars)
    BY <1>1, <1>7 DEF EndOf
  <2>2. ~MoreToRead
    BY <1>5, <2>1 DEF MoreToRead
  <2> QED
    BY <1>1, <1>4, <1>7, <2>2
<1> QED
  BY <1>6, <1>7

\* So is every other, although the expander is one entry behind: what it reads
\* is an entry of the table of the code before, or the entry that is about to be
\* linked there.
LEMMA ReadReads ==
  ASSUME text \in Seq(Chars), sent \in Seq(Place), NEW h, OnRecord(h), Reading(h),
         ExpandRead, ~Strays(h, Len(got) + 1)
  PROVE  Reading(h)'
<1> PICK n : n = Len(got)
  OBVIOUS
<1> PICK t : t = h[n]
  OBVIOUS
<1> PICK u : u = h[n + 1]
  OBVIOUS
<1> PICK p : p = sent[n + 1].code
  OBVIOUS
<1> PICK end : end = EndOf(text, h, n + 1)
  OBVIOUS
<1>1. /\ text' = text /\ sent' = sent /\ arc' = arc /\ c' = c /\ lastcode' = lastcode
      /\ out' = out /\ pc = "read" /\ pc' = "unwind"
      /\ MoreToRead
      /\ basecode' = BFieldExt(arc.bits, src_pos, ReadWidth)
      /\ src_pos' = src_pos + ReadWidth
      /\ got' = Append(got, Code(src_pos, basecode'))
      /\ stk' = stk \o UnwindFrom(basecode').stk
      /\ code' = UnwindFrom(basecode').code
  BY DEF ExpandRead
<1>2. /\ n \in 1 .. Len(h) /\ n # Len(h) /\ n \in Nat
      /\ src_pos = u.pos /\ ReadWidth = u.tab.cur_bits_in_use
  BY <1>1, MoreToReadMeans
<1>3. /\ got \in Seq(Place) /\ \A m \in 1 .. n : got[m] = sent[m]
      /\ stk = <<>> /\ c = t.tab /\ lastcode = sent[n].code
      /\ last_ch = text[t.at + 1] /\ Shows(EndOf(text, h, n))
  BY <1>1 DEF Reading, BetweenCodes
<1>4. /\ n + 1 \in 1 .. Len(h)
      /\ Follows(text, u, t, sent[n].code)
      /\ EndOf(text, h, n) = u.at
  BY <1>2, RecordedNext
<1>5. /\ TurnOK(text, u, n + 1) /\ u.at \in Nat
      /\ end \in Nat /\ u.at < end /\ end <= Len(text)
      /\ Says(text, u.tab, u.whr, p, u.at, end - u.at)
      /\ sent[n + 1] = Code(u.pos, p) /\ sent[n + 1] \in Place
      /\ BFieldExt(arc.bits, u.pos, u.tab.cur_bits_in_use) = p
  BY <1>4, RecordedFacts DEF ReadAt
<1>6. TurnOK(text, t, n) /\ t.at \in Nat /\ t \in Turn
  <2>1. TurnOK(text, t, n) /\ t.at \in Nat
    BY <1>2, RecordedFacts
  <2> QED
    BY <2>1 DEF TurnOK
<1>7. basecode' = p /\ Code(src_pos, basecode') = sent[n + 1]
  BY <1>1, <1>2, <1>5
<1>8. /\ got' \in Seq(Place) /\ Len(got') = n + 1
      /\ \A m \in 1 .. n + 1 : got'[m] = sent[m]
  <2>1. got' = Append(got, sent[n + 1])
    BY <1>1, <1>7
  <2>2. /\ got' \in Seq(Place) /\ Len(got') = n + 1
        /\ \A m \in 1 .. n : got'[m] = got[m]
        /\ got'[n + 1] = sent[n + 1]
    BY <1>3, <1>5, <2>1
  <2> QED
    BY <1>2, <1>3, <2>2
<1>9. /\ stk' = UnwindFrom(p).stk /\ code' = UnwindFrom(p).code
  <2>1. stk' = <<>> \o UnwindFrom(p).stk
    BY <1>1, <1>3, <1>7
  <2>2. last_ch \in Chars
    <3>1. t.at + 1 \in 1 .. Len(text)
      BY <1>6 DEF TurnOK
    <3> QED
      BY <1>3, <3>1
  <2>3. UnwindFrom(p).stk \in Seq(Chars)
    BY <2>2 DEF UnwindFrom
  <2>4. <<>> \o UnwindFrom(p).stk = UnwindFrom(p).stk
    BY ONLY <2>3
  <2>5. code' = UnwindFrom(p).code
    BY <1>1, <1>7
  <2> QED
    BY ONLY <2>1, <2>4, <2>5
<1>10. /\ end - u.at - Len(stk') >= 1
       /\ Says(text, t.tab, t.whr, code', u.at, end - u.at - Len(stk'))
       /\ stk' \in Seq(Chars)
       /\ \A m \in 1 .. Len(stk') : stk'[m] = text[end + 1 - m]
  <2>1. CASE t.tab.cur_entry = p
    <3>1. stk' = <<last_ch>> /\ code' = lastcode
      BY <1>3, <1>9, <2>1 DEF UnwindFrom
    <3>2. /\ end - u.at = u.at - t.at + 1
          /\ text[u.at + (end - u.at)] = text[t.at + 1]
          /\ Says(text, t.tab, t.whr, sent[n].code, u.at, (end - u.at) - 1)
      <4>1. PICK len : len = end - u.at
        OBVIOUS
      <4>2. Says(text, u.tab, u.whr, t.tab.cur_entry, u.at, len)
        BY <1>5, <2>1, <4>1
      <4>3. TurnOK(text, t, n) /\ Follows(text, u, t, sent[n].code) /\ u.at \in Nat
        BY <1>4, <1>5, <1>6
      <4>4. /\ len = u.at - t.at + 1
            /\ text[u.at + len] = text[t.at + 1]
            /\ Says(text, t.tab, t.whr, sent[n].code, u.at, len - 1)
        BY ONLY <4>2, <4>3, NewEntryRead
      <4> QED
        BY <4>1, <4>4
    <3>3. t.at < u.at
      BY <1>4 DEF Follows
    <3>4. t.at + 1 \in 1 .. Len(text) /\ last_ch \in Chars
      BY <1>3, <1>5, <1>6, <3>3
    <3>5. stk' \in Seq(Chars) /\ Len(stk') = 1 /\ stk'[1] = last_ch
      BY <3>1, <3>4
    <3>6. u.at + (end - u.at) = end + 1 - 1 /\ end - u.at - 1 >= 1
      BY <1>5, <1>6, <3>2, <3>3
    <3> QED
      BY <1>3, <3>1, <3>2, <3>5, <3>6
  <2>2. CASE t.tab.cur_entry # p
    <3>1. stk' = <<>> /\ code' = p
      BY <1>3, <1>9, <2>2 DEF UnwindFrom
    <3>2. Says(text, t.tab, t.whr, p, u.at, end - u.at)
      BY <1>4, <1>5, <1>6, <2>2, SaysBefore
    <3>3. end - u.at - 0 = end - u.at /\ end - u.at >= 1
      BY <1>5
    <3> QED
      BY <3>1, <3>2, <3>3
  <2> QED
    BY <2>1, <2>2
<1>11. Shows(u.at)'
  <2>1. Shows(u.at)
    BY <1>3, <1>4
  <2> QED
    BY <1>1, <2>1 DEF Shows
<1>12. WithinCode(h)'
  <2>1. n + 1 >= 2 /\ (n + 1) - 1 = n
    BY <1>2
  <2>2. /\ c' = h[(n + 1) - 1].tab /\ lastcode' = sent'[(n + 1) - 1].code
        /\ basecode' = sent'[n + 1].code
        /\ src_pos' = h[n + 1].pos + h[n + 1].tab.cur_bits_in_use
    BY <1>1, <1>2, <1>3, <1>7, <2>1
  <2>3. Shows(h[n + 1].at)'
    BY <1>11
  <2>4. EndOf(text', h, n + 1) = end
    BY <1>1
  <2>5. /\ end - h[n + 1].at - Len(stk') >= 1
        /\ Says(text', c', h[(n + 1) - 1].whr, code', h[n + 1].at,
                end - h[n + 1].at - Len(stk'))
        /\ stk' \in Seq(Chars)
        /\ \A m \in 1 .. Len(stk') : stk'[m] = text'[end + 1 - m]
    BY <1>1, <1>3, <1>10, <2>1
  <2> QED
    BY <1>8, <2>1, <2>2, <2>3, <2>4, <2>5 DEF WithinCode
<1>13. /\ Len(got') <= Len(h) /\ pc' = "unwind"
       /\ \A m \in 1 .. Len(got') : got'[m] = sent'[m]
  BY <1>1, <1>4, <1>8
<1> QED
  BY ONLY <1>8, <1>12, <1>13 DEF Reading

\* The one that goes astray is not the entry about to be linked.
LEMMA ReadStrays ==
  ASSUME text \in Seq(Chars), sent \in Seq(Place), NEW h, OnRecord(h), Reading(h),
         ExpandRead, Strays(h, Len(got) + 1)
  PROVE  Straying(h)'
<1> PICK n : n = Len(got)
  OBVIOUS
<1> PICK t : t = h[n]
  OBVIOUS
<1> PICK u : u = h[n + 1]
  OBVIOUS
<1> PICK v : v = BFieldExt(arc.bits, src_pos, ReadWidth)
  OBVIOUS
<1>1. /\ text' = text /\ sent' = sent /\ arc' = arc /\ c' = c /\ lastcode' = lastcode
      /\ out' = out /\ pc = "read" /\ pc' = "unwind"
      /\ MoreToRead
      /\ got' = Append(got, Code(src_pos, v))
      /\ stk' = stk \o UnwindFrom(v).stk
      /\ code' = UnwindFrom(v).code
  BY DEF ExpandRead
<1>2. /\ n \in 1 .. Len(h) /\ n # Len(h) /\ n \in Nat
      /\ src_pos = u.pos /\ ReadWidth = u.tab.cur_bits_in_use
  BY <1>1, MoreToReadMeans
<1>3. /\ got \in Seq(Place)
      /\ stk = <<>> /\ c = t.tab /\ lastcode = sent[n].code
      /\ Shows(EndOf(text, h, n))
  BY <1>1 DEF Reading, BetweenCodes
<1>4. /\ n + 1 \in 1 .. Len(h) /\ EndOf(text, h, n) = u.at
  BY <1>2, RecordedNext
<1>5. /\ n + 1 = Len(h) /\ Len(text) = u.at + 1 /\ v \in Codes
      /\ v # c.cur_entry
      /\ Literal(c, v) \/ c.compress[v] = [basecode |-> 0, ch |-> 0]
  <2>1. v = ReadAt(h, n + 1)
    BY <1>2 DEF ReadAt
  <2>2. n + 1 > 1 /\ (n + 1) - 1 = n
    BY <1>2
  <2> QED
    BY <1>3, <2>1, <2>2 DEF Strays
<1>6. u.pos \in Nat /\ u.at \in Nat
  BY <1>4, RecordedFacts
<1>7. TurnOK(text, t, n)
  BY <1>2, RecordedFacts
<1>8. c \in Ctrl
  BY <1>3, <1>7 DEF TurnOK, Turn
<1>9. stk' = <<>> /\ code' = v
  BY <1>1, <1>3, <1>5 DEF UnwindFrom
<1>10. got' \in Seq(Place) /\ Len(got') = n + 1
  <2>1. Code(src_pos, v) \in Place
    BY <1>2, <1>5, <1>6 DEF Code, Place
  <2> QED
    BY <1>1, <1>3, <2>1
<1>11. out' \in Seq(Chars) /\ Len(out') = Len(text') - 1
  <2>1. out \in Seq(Chars) /\ Len(out) = u.at
    BY <1>3, <1>4 DEF Shows
  <2> QED
    BY <1>1, <1>5, <1>6, <2>1
<1>12. Strays(h, Len(h))'
  BY <1>1, <1>5, RecordedStays
<1>13. Len(h) >= 2 /\ Len(h) - 1 = n
  BY <1>2, <1>5
<1>14. /\ stk' = <<>> /\ stk' \in Seq(Chars)
       /\ Literal(c', code') \/ c'.compress[code'] = [basecode |-> 0, ch |-> 0]
       /\ c' \in Ctrl /\ c' = h[Len(h) - 1].tab /\ lastcode' = sent'[Len(h) - 1].code
       /\ code' \in Codes /\ Len(got') = Len(h)
  <2>1. stk' = <<>> /\ stk' \in Seq(Chars)
    BY <1>9
  <2>2. Literal(c', code') \/ c'.compress[code'] = [basecode |-> 0, ch |-> 0]
    BY <1>1, <1>5, <1>9
  <2>3. c' \in Ctrl /\ c' = h[Len(h) - 1].tab /\ lastcode' = sent'[Len(h) - 1].code
    BY <1>1, <1>3, <1>8, <1>13
  <2>4. code' \in Codes /\ Len(got') = Len(h)
    BY <1>5, <1>9, <1>10
  <2> QED
    BY <2>1, <2>2, <2>3, <2>4
<1> QED
  BY ONLY <1>1, <1>10, <1>11, <1>12, <1>13, <1>14 DEF Straying
-----------------------------------------------------------------------------
\* What a code that is taken apart is known to be.
LEMMA WithinFacts ==
  ASSUME text \in Seq(Chars), sent \in Seq(Place), NEW h, OnRecord(h), Reading(h),
         pc = "unwind", NEW n, n = Len(got), NEW end, end = EndOf(text, h, n),
         NEW rest, rest = end - h[n].at - Len(stk)
  PROVE  /\ n \in 1 .. Len(h) /\ n >= 2 /\ n - 1 \in 1 .. Len(h) /\ n \in Nat
         /\ h[n].at \in Nat /\ end \in Nat /\ h[n].at < end /\ end <= Len(text)
         /\ stk \in Seq(Chars) /\ Len(stk) \in Nat
         /\ rest \in Nat /\ rest >= 1
         /\ Says(text, c, h[n - 1].whr, code, h[n].at, rest)
         /\ TurnOK(text, h[n - 1], n - 1) /\ c = h[n - 1].tab
         /\ Follows(text, h[n], h[n - 1], sent[n - 1].code)
         /\ Says(text, h[n].tab, h[n].whr, sent[n].code, h[n].at, end - h[n].at)
<1>1. /\ n >= 2 /\ n \in Nat /\ n <= Len(h) /\ Len(h) \in Nat
      /\ c = h[n - 1].tab
      /\ rest >= 1
      /\ Says(text, c, h[n - 1].whr, code, h[n].at, rest)
      /\ stk \in Seq(Chars)
  <2>1. WithinCode(h) /\ got \in Seq(Place) /\ Len(got) <= Len(h)
    BY DEF Reading
  <2>2. Len(h) \in Nat
    BY DEF OnRecord, History
  <2> QED
    BY <2>1, <2>2 DEF WithinCode
<1>2. n \in 1 .. Len(h) /\ n - 1 \in 1 .. Len(h) /\ n - 1 # Len(h) /\ (n - 1) + 1 = n
  BY <1>1
<1>3. /\ h[n].at \in Nat /\ end \in Nat /\ h[n].at < end /\ end <= Len(text)
      /\ Says(text, h[n].tab, h[n].whr, sent[n].code, h[n].at, end - h[n].at)
  BY <1>2, RecordedFacts
<1>4. TurnOK(text, h[n - 1], n - 1)
  BY <1>2, RecordedFacts
<1>5. Follows(text, h[n], h[n - 1], sent[n - 1].code)
  <2>1. Follows(text, h[(n - 1) + 1], h[n - 1], sent[n - 1].code)
    BY <1>2, RecordedNext
  <2> QED
    BY <1>2, <2>1
<1>6. rest \in Nat /\ Len(stk) \in Nat
  BY <1>1, <1>3
<1> QED
  BY <1>1, <1>2, <1>3, <1>4, <1>5, <1>6

\* Taking off the last character leaves the string of what is left.
LEMMA UnwindReads ==
  ASSUME text \in Seq(Chars), sent \in Seq(Place), NEW h, OnRecord(h), Reading(h),
         ExpandUnwind
  PROVE  Reading(h)'
<1> PICK n : n = Len(got)
  OBVIOUS
<1> PICK end : end = EndOf(text, h, n)
  OBVIOUS
<1> PICK rest : rest = end - h[n].at - Len(stk)
  OBVIOUS
<1> PICK last : last = c.compress[code].ch
  OBVIOUS
<1>1. /\ text' = text /\ sent' = sent /\ got' = got /\ c' = c /\ lastcode' = lastcode
      /\ basecode' = basecode /\ src_pos' = src_pos
      /\ out' = out /\ pc = "unwind" /\ pc' = "unwind"
      /\ ~(code < c.min_table_entry)
      /\ stk' = Append(stk, last) /\ code' = c.compress[code].basecode
  <2>1. code >= c.min_table_entry /\ pc = "unwind"
    BY DEF ExpandUnwind
  <2>2. code \in Codes /\ TableInv(c)
    BY <2>1, WithinFacts DEF TurnOK, Says
  <2>3. code \in Nat /\ c.min_table_entry \in Nat
    BY <2>2, SizedFacts, ShiftFacts, WidthAssumption DEF TableInv, Codes
  <2> QED
    BY <2>1, <2>3 DEF ExpandUnwind, ctrlVars
<1>2. /\ n \in 1 .. Len(h) /\ n >= 2 /\ n - 1 \in Nat
      /\ h[n].at \in Nat /\ end \in Nat /\ end <= Len(text)
      /\ stk \in Seq(Chars) /\ Len(stk) \in Nat
      /\ rest \in Nat /\ rest >= 1
      /\ Says(text, c, h[n - 1].whr, code, h[n].at, rest)
      /\ Strings(text, c, h[n - 1].whr, n - 1)
  <2>1. /\ n \in 1 .. Len(h) /\ n >= 2 /\ n \in Nat
        /\ h[n].at \in Nat /\ end \in Nat /\ end <= Len(text)
        /\ stk \in Seq(Chars) /\ Len(stk) \in Nat
        /\ rest \in Nat /\ rest >= 1
        /\ Says(text, c, h[n - 1].whr, code, h[n].at, rest)
        /\ TurnOK(text, h[n - 1], n - 1) /\ c = h[n - 1].tab
    BY <1>1, WithinFacts
  <2> QED
    BY <2>1 DEF TurnOK
<1>3. ~Literal(c, code)
  BY <1>1 DEF Literal
<1>4. /\ rest \in 2 .. n - 1 /\ last = text[h[n].at + rest]
      /\ Says(text, c, h[n - 1].whr, c.compress[code].basecode, h[n].at, rest - 1)
  <2> PICK at : at = h[n].at
    OBVIOUS
  <2> PICK most : most = n - 1
    OBVIOUS
  <2>1. /\ at \in Nat /\ most \in Nat /\ Strings(text, c, h[n - 1].whr, most)
        /\ Says(text, c, h[n - 1].whr, code, at, rest)
    BY <1>2
  <2>2. /\ rest \in 2 .. most /\ c.compress[code].ch = text[at + rest]
        /\ Says(text, c, h[n - 1].whr, c.compress[code].basecode, at, rest - 1)
    BY ONLY <1>3, <2>1, StringOfBasecode
  <2> QED
    BY <2>2
<1>5. h[n].at + rest \in 1 .. Len(text) /\ h[n].at + rest = end - Len(stk)
  <2>1. Len(text) \in Nat /\ rest = end - h[n].at - Len(stk)
    OBVIOUS
  <2>2. PICK at, deep : at = h[n].at /\ deep = Len(stk)
    OBVIOUS
  <2>3. /\ at \in Nat /\ deep \in Nat /\ end \in Nat /\ end <= Len(text)
        /\ rest \in Nat /\ rest >= 2 /\ rest = end - at - deep
    BY <1>2, <1>4, <2>1, <2>2
  <2>4. at + rest \in 1 .. Len(text) /\ at + rest = end - deep
    BY ONLY <2>1, <2>3
  <2> QED
    BY <2>2, <2>4
<1>6. /\ stk' \in Seq(Chars) /\ Len(stk') = Len(stk) + 1
      /\ \A m \in 1 .. Len(stk) : stk'[m] = stk[m]
      /\ stk'[Len(stk) + 1] = text[end - Len(stk)]
  <2>1. last \in Chars
    BY <1>4, <1>5
  <2>2. /\ stk \in Seq(Chars) /\ stk' = Append(stk, last)
        /\ last = text[end - Len(stk)]
    BY <1>1, <1>2, <1>4, <1>5
  <2> QED
    BY ONLY <2>1, <2>2
<1>7. end - h[n].at - Len(stk') = rest - 1 /\ rest - 1 >= 1
  <2>1. rest = end - h[n].at - Len(stk)
    OBVIOUS
  <2>2. PICK at, deep : at = h[n].at /\ deep = Len(stk)
    OBVIOUS
  <2>3. /\ at \in Nat /\ deep \in Nat /\ end \in Nat /\ Len(stk') = deep + 1
        /\ rest \in Nat /\ rest >= 2 /\ rest = end - at - deep
    BY <1>2, <1>4, <1>6, <2>1, <2>2
  <2>4. end - at - (deep + 1) = rest - 1 /\ rest - 1 >= 1
    BY ONLY <2>3
  <2> QED
    BY ONLY <2>2, <2>3, <2>4
<1>8. \A m \in 1 .. Len(stk') : stk'[m] = text[end + 1 - m]
  <2> SUFFICES ASSUME NEW m \in 1 .. Len(stk) + 1
               PROVE  stk'[m] = text[end + 1 - m]
    BY <1>6
  <2>1. CASE m = Len(stk) + 1
    <3>1. end + 1 - m = end - Len(stk)
      BY <1>2, <2>1
    <3> QED
      BY <1>6, <2>1, <3>1
  <2>2. CASE m \in 1 .. Len(stk)
    <3>1. \A x \in 1 .. Len(stk) : stk[x] = text[end + 1 - x]
      BY <1>1 DEF Reading, WithinCode
    <3> QED
      BY <1>6, <2>2, <3>1
  <2>3. m \in 1 .. Len(stk) \/ m = Len(stk) + 1
    BY <1>2
  <2> QED
    BY <2>1, <2>2, <2>3
<1>9. WithinCode(h)
  BY <1>1 DEF Reading
<1>10. /\ c = h[n - 1].tab /\ lastcode = sent[n - 1].code /\ basecode = sent[n].code
       /\ src_pos = h[n].pos + h[n].tab.cur_bits_in_use
       /\ Shows(h[n].at)
  BY <1>9 DEF WithinCode
<1>11. WithinCode(h)'
  <2>1. Len(got') = n /\ EndOf(text', h, n) = end
    BY <1>1
  <2>2. Shows(h[n].at)'
    BY <1>1, <1>10 DEF Shows
  <2>3. /\ c' = h[n - 1].tab /\ lastcode' = sent'[n - 1].code
        /\ basecode' = sent'[n].code
        /\ src_pos' = h[n].pos + h[n].tab.cur_bits_in_use
    BY <1>1, <1>10
  <2>4. /\ end - h[n].at - Len(stk') >= 1
        /\ Says(text', c', h[n - 1].whr, code', h[n].at, end - h[n].at - Len(stk'))
        /\ \A m \in 1 .. Len(stk') : stk'[m] = text'[end + 1 - m]
    BY <1>1, <1>4, <1>7, <1>8
  <2> QED
    BY <1>2, <1>6, <2>1, <2>2, <2>3, <2>4 DEF WithinCode
<1> QED
  BY <1>1, <1>11 DEF Reading

\* A code that nobody has used comes apart in one step.
LEMMA UnwindStrays ==
  ASSUME text \in Seq(Chars), NEW h, OnRecord(h), Straying(h), ExpandUnwind
  PROVE  Straying(h)'
<1> PICK n : n = Len(h)
  OBVIOUS
<1>1. /\ text' = text /\ sent' = sent /\ got' = got /\ c' = c /\ lastcode' = lastcode
      /\ arc' = arc /\ out' = out /\ pc = "unwind" /\ pc' = "unwind"
      /\ code >= c.min_table_entry
      /\ stk' = Append(stk, c.compress[code].ch)
      /\ code' = c.compress[code].basecode
  BY DEF ExpandUnwind, ctrlVars
<1>2. /\ got \in Seq(Place) /\ Len(got) = n /\ out \in Seq(Chars)
      /\ c \in Ctrl /\ n >= 2 /\ c = h[n - 1].tab /\ lastcode = sent[n - 1].code
      /\ Len(out) = Len(text) - 1 /\ code \in Codes /\ Strays(h, n)
      /\ Literal(c, code)
           \/ (stk = <<>> /\ c.compress[code] = [basecode |-> 0, ch |-> 0])
  BY <1>1 DEF Straying
<1>3. TableInv(c)
  <2>1. n - 1 \in 1 .. Len(h) /\ \A m \in 1 .. Len(h) : TurnOK(text, h[m], m)
    BY <1>2 DEF OnRecord, History
  <2> QED
    BY <1>2, <2>1 DEF TurnOK
<1>4. c.min_table_entry \in Nat /\ 0 < c.min_table_entry
  <2>1. PICK bits \in {LowBits, LowBits + 1} : c.min_table_entry = Shift[bits]
    BY <1>3 DEF TableInv, Sized
  <2> QED
    BY <2>1, ShiftFacts, WidthAssumption
<1>5. ~Literal(c, code)
  BY <1>1, <1>2, <1>4, ShiftFacts DEF Literal, Codes
<1>6. stk' = <<0>> /\ code' = 0
  <2>1. stk = <<>> /\ c.compress[code] = [basecode |-> 0, ch |-> 0]
    BY <1>2, <1>5
  <2>2. c.compress[code].ch = 0 /\ c.compress[code].basecode = 0
    BY <2>1
  <2>3. stk' = Append(<<>>, 0) /\ code' = 0
    BY <1>1, <2>1, <2>2
  <2> QED
    BY ONLY <2>3
<1>7. 0 \in Chars /\ 0 \in Codes /\ Literal(c, 0)
  <2>1. Shift[LowBits + 1] \in Nat /\ Shift[LowBits + 1] >= 1
    BY ShiftFacts, WidthAssumption
  <2>2. 0 \in Chars
    BY <2>1 DEF Chars
  <2>3. Literal(c, 0)
    BY <1>4 DEF Literal
  <2> QED
    BY <2>2, <2>3, CharsAreCodes
<1>8. stk' \in Seq(Chars) /\ Len(stk') = 1
  BY <1>6, <1>7
<1>9. Strays(h, n)'
  BY <1>1, <1>2, RecordedStays
<1> QED
  BY <1>1, <1>2, <1>6, <1>7, <1>8, <1>9 DEF Straying
-----------------------------------------------------------------------------
\* What is put after a beginning of s, last character first, goes on as s does.
LEMMA ReversedContinues ==
  ASSUME NEW S, NEW s \in Seq(S), NEW was \in Seq(S), NEW full \in Seq(S),
         Len(was) + Len(full) <= Len(s),
         \A m \in 1 .. Len(was) : was[m] = s[m],
         \A m \in 1 .. Len(full) : full[m] = s[Len(was) + Len(full) + 1 - m],
         NEW turned,
         turned = [m \in 1 .. Len(full) |-> full[Len(full) + 1 - m]],
         NEW new, new = was \o turned
  PROVE  /\ new \in Seq(S) /\ Len(new) = Len(was) + Len(full)
         /\ \A m \in 1 .. Len(was) + Len(full) : new[m] = s[m]
<1>1. /\ Len(full) \in Nat /\ Len(was) \in Nat /\ Len(s) \in Nat
      /\ was \in Seq(S) /\ new = was \o turned
  OBVIOUS
<1>2. \A m \in 1 .. Len(full) : turned[m] = s[Len(was) + m]
  <2> SUFFICES ASSUME NEW m \in 1 .. Len(full)
               PROVE  turned[m] = s[Len(was) + m]
    OBVIOUS
  <2>1. turned[m] = full[Len(full) + 1 - m]
    OBVIOUS
  <2>2. /\ Len(full) + 1 - m \in 1 .. Len(full)
        /\ Len(was) + Len(full) + 1 - (Len(full) + 1 - m) = Len(was) + m
    BY <1>1
  <2> QED
    BY <2>1, <2>2
<1>3. \A m \in 1 .. Len(full) : Len(full) + 1 - m \in 1 .. Len(full)
  BY <1>1
<1>4. turned \in [1 .. Len(full) -> S]
  <2>1. \A m \in 1 .. Len(full) : full[m] \in S
    OBVIOUS
  <2>2. \A m \in 1 .. Len(full) : full[Len(full) + 1 - m] \in S
    BY <1>3, <2>1
  <2> QED
    BY <2>2
<1>5. turned \in Seq(S) /\ Len(turned) = Len(full)
  <2>1. turned \in UNION {[1 .. n -> S] : n \in Nat}
    BY ONLY <1>1, <1>4
  <2>2. turned \in Seq(S)
    BY <2>1, SeqDef
  <2> QED
    BY ONLY <1>1, <1>4, <2>2, LenProperties
<1>6. /\ new \in Seq(S) /\ Len(new) = Len(was) + Len(full)
      /\ \A m \in 1 .. Len(was) : new[m] = was[m]
      /\ \A m \in Len(was) + 1 .. Len(was) + Len(full) : new[m] = turned[m - Len(was)]
  <2>1. /\ new \in Seq(S) /\ Len(new) = Len(was) + Len(turned)
        /\ \A m \in 1 .. Len(was) + Len(turned) :
              new[m] = IF m <= Len(was) THEN was[m] ELSE turned[m - Len(was)]
    BY ONLY <1>1, <1>5, ConcatProperties
  <2>2. /\ \A m \in 1 .. Len(was) : m \in 1 .. Len(was) + Len(full) /\ m <= Len(was)
        /\ \A m \in Len(was) + 1 .. Len(was) + Len(full) :
              m \in 1 .. Len(was) + Len(full) /\ ~(m <= Len(was))
    BY ONLY <1>1
  <2> QED
    BY ONLY <1>5, <2>1, <2>2
<1>7. ASSUME NEW m \in 1 .. Len(was) + Len(full)
      PROVE  new[m] = s[m]
  <2>1. CASE m <= Len(was)
    BY <1>1, <1>6, <2>1
  <2>2. CASE ~(m <= Len(was))
    <3>1. /\ m \in Len(was) + 1 .. Len(was) + Len(full)
          /\ m - Len(was) \in 1 .. Len(full)
          /\ Len(was) + (m - Len(was)) = m
      BY <1>1, <2>2
    <3> QED
      BY <1>2, <1>6, <3>1
  <2> QED
    BY <2>1, <2>2
<1> QED
  BY <1>6, <1>7

\* The last character to come off is the first: with it the expander links the
\* entry the compressor linked, and has the table of the code it has read.
LEMMA LinkReads ==
  ASSUME text \in Seq(Chars), sent \in Seq(Place), NEW h, OnRecord(h), Reading(h),
         ExpandLink
  PROVE  Reading(h)'
<1> PICK n : n = Len(got)
  OBVIOUS
<1> PICK end : end = EndOf(text, h, n)
  OBVIOUS
<1> PICK rest : rest = end - h[n].at - Len(stk)
  OBVIOUS
<1> PICK full : full = Append(stk, code)
  OBVIOUS
<1> PICK at : at = h[n].at
  OBVIOUS
<1>0. text \in Seq(Chars) /\ full = Append(stk, code)
  OBVIOUS
<1>1. /\ text' = text /\ sent' = sent /\ got' = got /\ arc' = arc
      /\ lastcode' = basecode /\ src_pos' = src_pos
      /\ pc = "unwind" /\ pc' = "read"
      /\ code < c.min_table_entry
      /\ last_ch' = code /\ c' = ArcEntryGet(Linked(c, lastcode, code))
      /\ out' = out \o [m \in 1 .. Flushed(full) |-> full[Len(full) + 1 - m]]
      /\ stk' = SubSeq(full, 1, Len(full) - Flushed(full))
  BY DEF ExpandLink
<1>2. /\ n \in 1 .. Len(h) /\ n >= 2 /\ n \in Nat
      /\ at \in Nat /\ end \in Nat /\ at < end /\ end <= Len(text)
      /\ stk \in Seq(Chars) /\ Len(stk) \in Nat
      /\ Says(text, c, h[n - 1].whr, code, at, rest)
      /\ Follows(text, h[n], h[n - 1], sent[n - 1].code)
  BY <1>1, WithinFacts
<1>3. /\ c = h[n - 1].tab /\ lastcode = sent[n - 1].code /\ basecode = sent[n].code
      /\ src_pos = h[n].pos + h[n].tab.cur_bits_in_use
      /\ out \in Seq(Chars) /\ Len(out) = at
      /\ \A m \in 1 .. at : out[m] = text[m]
      /\ \A m \in 1 .. Len(stk) : stk[m] = text[end + 1 - m]
  <2>1. WithinCode(h)
    BY <1>1 DEF Reading
  <2> QED
    BY <2>1 DEF WithinCode, Shows
<1>4. rest = 1 /\ code = text[at + 1]
  BY <1>1, <1>2 DEF Says, Literal
<1>5. Len(stk) = end - at - 1 /\ Len(text) \in Nat
  <2>1. rest = end - at - Len(stk) /\ Len(text) \in Nat
    OBVIOUS
  <2> QED
    BY ONLY <1>2, <1>4, <2>1
<1>6. at + 1 \in 1 .. Len(text) /\ code \in Chars
  <2>1. at + 1 \in 1 .. Len(text)
    BY ONLY <1>2, <1>5
  <2> QED
    BY ONLY <1>0, <1>4, <2>1
<1>7. /\ full \in Seq(Chars) /\ Len(full) = end - at
      /\ \A m \in 1 .. Len(stk) : full[m] = stk[m]
      /\ full[end - at] = code
  BY ONLY <1>0, <1>2, <1>5, <1>6
<1>8. \A m \in 1 .. end - at : full[m] = text[end + 1 - m]
  <2> SUFFICES ASSUME NEW m \in 1 .. end - at
               PROVE  full[m] = text[end + 1 - m]
    OBVIOUS
  <2>0. m \in 1 .. end - at
    OBVIOUS
  <2>1. CASE m = end - at
    <3>1. end + 1 - m = at + 1
      BY ONLY <1>2, <2>1
    <3> QED
      BY ONLY <1>4, <1>7, <2>1, <3>1
  <2>2. CASE m # end - at
    <3>1. m \in 1 .. Len(stk)
      BY ONLY <1>2, <1>5, <2>0, <2>2
    <3> QED
      BY ONLY <1>3, <1>7, <3>1
  <2> QED
    BY <2>1, <2>2
<1>9. Flushed(full) = Len(full)
  <2>1. arc.expanded_size = Len(text)
    BY DEF OnRecord
  <2>2. Len(full) <= arc.expanded_size - Len(out)
    BY ONLY <1>2, <1>3, <1>5, <1>7, <2>1
  <2> QED
    BY ONLY <1>2, <1>3, <1>5, <1>7, <2>1, <2>2 DEF Flushed
<1>10. /\ Len(out) + Len(full) = end
       /\ \A m \in 1 .. Len(full) : full[m] = text[Len(out) + Len(full) + 1 - m]
  <2>1. Len(out) + Len(full) = end
    BY ONLY <1>2, <1>3, <1>7
  <2> QED
    BY ONLY <1>7, <1>8, <2>1
<1>11. /\ out' \in Seq(Chars) /\ Len(out') = end
       /\ \A m \in 1 .. end : out'[m] = text[m]
  <2> PICK turned : turned = [m \in 1 .. Len(full) |-> full[Len(full) + 1 - m]]
    OBVIOUS
  <2>0. turned = [m \in 1 .. Len(full) |-> full[Len(full) + 1 - m]]
    OBVIOUS
  <2>1. out' = out \o turned
    BY ONLY <1>1, <1>9, <2>0
  <2>2. /\ text \in Seq(Chars) /\ out \in Seq(Chars) /\ full \in Seq(Chars)
        /\ Len(out) + Len(full) <= Len(text)
        /\ \A m \in 1 .. Len(out) : out[m] = text[m]
    BY ONLY <1>0, <1>2, <1>3, <1>7, <1>10
  <2>3. /\ out' \in Seq(Chars) /\ Len(out') = Len(out) + Len(full)
        /\ \A m \in 1 .. Len(out) + Len(full) : out'[m] = text[m]
    <3> PICK s, was, new : s = text /\ was = out /\ new = out'
      OBVIOUS
    <3>1. /\ s \in Seq(Chars) /\ was \in Seq(Chars) /\ full \in Seq(Chars)
          /\ Len(was) + Len(full) <= Len(s)
          /\ \A m \in 1 .. Len(was) : was[m] = s[m]
          /\ \A m \in 1 .. Len(full) : full[m] = s[Len(was) + Len(full) + 1 - m]
          /\ new = was \o turned
      BY ONLY <1>10, <2>1, <2>2, s = text /\ was = out /\ new = out'
    <3>2. /\ new \in Seq(Chars) /\ Len(new) = Len(was) + Len(full)
          /\ \A m \in 1 .. Len(was) + Len(full) : new[m] = s[m]
      BY ONLY <2>0, <3>1, ReversedContinues
    <3> QED
      BY <3>2
  <2> QED
    BY <1>10, <2>3
<1>12. stk' = <<>>
  <2>1. Len(full) - Flushed(full) = 0
    BY ONLY <1>7, <1>9
  <2> QED
    BY ONLY <1>1, <1>7, <2>1
<1>13. c' = h[n].tab
  <2>1. h[n].tab = ArcEntryGet(Linked(h[n - 1].tab, sent[n - 1].code, text[at + 1]))
    BY <1>2 DEF Follows
  <2> QED
    BY <1>1, <1>3, <1>4, <2>1
<1>14. Shows(EndOf(text, h, n))'
  BY <1>1, <1>11 DEF Shows
<1>15. BetweenCodes(h)'
  <2>1. Len(got') = n /\ n >= 1
    BY <1>1, <1>2
  <2>2. /\ c' = h[n].tab /\ stk' = <<>> /\ lastcode' = sent'[n].code
        /\ src_pos' = h[n].pos + h[n].tab.cur_bits_in_use
        /\ last_ch' = text'[h[n].at + 1]
    BY <1>1, <1>3, <1>4, <1>12, <1>13
  <2> QED
    BY <1>14, <2>1, <2>2 DEF BetweenCodes
<1> QED
  BY <1>1, <1>15 DEF Reading

\* One that went astray is linked all the same, and the text is as long as it
\* should be.
LEMMA LinkStrays ==
  ASSUME text \in Seq(Chars), sent \in Seq(Place), NEW h, OnRecord(h), Straying(h),
         ExpandLink
  PROVE  Straying(h)'
<1> PICK n : n = Len(h)
  OBVIOUS
<1> PICK full : full = Append(stk, code)
  OBVIOUS
<1> PICK turned : turned = [m \in 1 .. Flushed(full) |-> full[Len(full) + 1 - m]]
  OBVIOUS
<1>1. /\ text' = text /\ sent' = sent /\ got' = got /\ arc' = arc
      /\ pc = "unwind" /\ pc' = "read"
      /\ code < c.min_table_entry
      /\ c' = ArcEntryGet(Linked(c, lastcode, code))
      /\ out' = out \o turned
      /\ stk' = SubSeq(full, 1, Len(full) - Flushed(full))
  BY DEF ExpandLink
<1>2. /\ got \in Seq(Place) /\ Len(got) = n /\ out \in Seq(Chars)
      /\ c \in Ctrl /\ n >= 2 /\ c = h[n - 1].tab /\ lastcode = sent[n - 1].code
      /\ Len(out) = Len(text) - 1 /\ code \in Codes /\ Strays(h, n)
      /\ stk \in Seq(Chars)
  BY <1>1 DEF Straying
<1>3. Len(stk) \in {0, 1}
  BY <1>1 DEF Straying
<1>4. /\ n \in Nat /\ n - 1 \in 1 .. Len(h) /\ n - 1 # Len(h)
      /\ arc.expanded_size = Len(text)
      /\ \A m \in 1 .. Len(h) : TurnOK(text, h[m], m)
  BY <1>2 DEF OnRecord, History
<1>5. TableInv(c) /\ ~c.entry_used
  BY <1>2, <1>4 DEF TurnOK
<1>6. lastcode \in Codes /\ lastcode # c.cur_entry
  <2>1. Follows(text, h[(n - 1) + 1], h[n - 1], sent[n - 1].code)
    BY <1>4, RecordedNext
  <2>2. /\ lastcode \in Codes
        /\ Literal(c, lastcode) \/ lastcode \in OnChain(c)
    BY <1>2, <2>1 DEF Follows, Says
  <2> QED
    BY <1>5, <2>2 DEF TableInv, SpareEntriesAreFree, IsSpare
<1>7. code \in Chars
  <2>1. PICK bits \in {LowBits, LowBits + 1} : c.min_table_entry = Shift[bits]
    BY <1>5 DEF TableInv, Sized
  <2>2. /\ Shift[bits] \in Nat /\ Shift[LowBits + 1] \in Nat
        /\ Shift[bits] <= Shift[LowBits + 1]
    BY ShiftFacts, WidthAssumption
  <2> QED
    BY <1>1, <1>2, <2>1, <2>2 DEF Chars, Codes
<1>8. c' \in Ctrl
  BY <1>1, <1>5, <1>6, <1>7, LinkedAnyhow
<1>9. full \in Seq(Chars) /\ Len(full) = Len(stk) + 1
  BY <1>2, <1>7
<1>10. Flushed(full) = 1
  <2>1. arc.expanded_size - Len(out) = 1 /\ Len(full) \in {1, 2}
    <3>1. Len(text) \in Nat
      OBVIOUS
    <3>2. arc.expanded_size - Len(out) = 1
      BY ONLY <1>2, <1>4, <3>1
    <3>3. Len(full) \in {1, 2}
      <4>1. PICK d, e : d = Len(stk) /\ e = Len(full)
        OBVIOUS
      <4>2. d \in {0, 1} /\ e = d + 1
        BY ONLY <1>3, <1>9, <4>1
      <4>3. e \in {1, 2}
        BY ONLY <4>2
      <4> QED
        BY ONLY <4>1, <4>3
    <3> QED
      BY <3>2, <3>3
  <2> QED
    BY ONLY <2>1 DEF Flushed
<1>11. /\ out' \in Seq(Chars) /\ Len(out') = Len(text)
  <2>1. turned = [m \in 1 .. 1 |-> full[Len(full) + 1 - m]]
    BY <1>10
  <2>2. \A m \in 1 .. 1 : full[Len(full) + 1 - m] \in Chars
    BY <1>3, <1>9
  <2>3. turned \in [1 .. 1 -> Chars]
    BY <2>1, <2>2
  <2>4. turned \in Seq(Chars) /\ Len(turned) = 1
    <3>1. turned \in UNION {[1 .. m -> Chars] : m \in Nat}
      BY ONLY <2>3
    <3>2. turned \in Seq(Chars)
      BY <3>1, SeqDef
    <3> QED
      BY ONLY <2>3, <3>2, LenProperties
  <2>5. Len(text) \in Nat
    OBVIOUS
  <2>6. out' \in Seq(Chars) /\ Len(out') = Len(out) + 1
    <3> PICK new, was : new = out' /\ was = out
      OBVIOUS
    <3>1. new = was \o turned /\ was \in Seq(Chars)
      BY <1>1, <1>2
    <3>2. new \in Seq(Chars) /\ Len(new) = Len(was) + Len(turned)
      BY ONLY <2>4, <3>1, ConcatProperties
    <3> QED
      BY <2>4, <3>2
  <2> QED
    BY ONLY <1>2, <2>5, <2>6
<1>12. stk' \in Seq(Chars) /\ Len(stk') = Len(stk)
  BY <1>1, <1>3, <1>9, <1>10
<1>13. stk' = <<>> \/ Len(stk') = 1
  BY <1>3, <1>12
<1>14. Strays(h, n)'
  BY <1>1, <1>2, RecordedStays
<1>15. Len(h) >= 2 /\ Len(got') = Len(h) /\ got' \in Seq(Place) /\ Len(out') = Len(text')
  BY <1>1, <1>2, <1>11
<1> QED
  BY ONLY <1>1, <1>8, <1>11, <1>12, <1>13, <1>14, <1>15, n = Len(h) DEF Straying

\* There is nothing more to read then.
LEMMA EndStrays ==
  ASSUME NEW h, OnRecord(h), Straying(h), ExpandEnd
  PROVE  Straying(h)'
<1>1. /\ text' = text /\ sent' = sent /\ got' = got /\ out' = out /\ arc' = arc
      /\ pc = "read" /\ pc' = "done" /\ c' = c /\ stk' = stk
  BY DEF ExpandEnd, ctrlVars, expandVars
<1>2. Strays(h, Len(h))'
  BY <1>1, RecordedStays DEF Straying
<1> QED
  BY <1>1, <1>2 DEF Straying

\* When the expander stops it has read every code.
LEMMA EndReads ==
  ASSUME text \in Seq(Chars), sent \in Seq(Place), NEW h, OnRecord(h), Reading(h),
         ExpandEnd
  PROVE  Reading(h)'
<1>1. /\ text' = text /\ sent' = sent /\ got' = got /\ out' = out
      /\ pc = "read" /\ pc' = "done" /\ ~MoreToRead
  BY DEF ExpandEnd
<1>2. Len(got) = Len(h)
  BY <1>1, MoreToReadMeans
<1>3. Shows(EndOf(text, h, Len(got)))
  BY <1>1 DEF Reading, BetweenCodes
<1>4. EndOf(text, h, Len(got)) = Len(text)
  <2>1. Len(h) \in Nat
    BY DEF OnRecord, History
  <2> QED
    BY <1>2, <2>1 DEF EndOf
<1>5. Shows(Len(text))'
  BY <1>1, <1>3, <1>4 DEF Shows
<1> QED
  BY <1>1, <1>5 DEF Reading
-----------------------------------------------------------------------------
\* Of an empty text nothing is ever written.
CompressorWrites ==
  /\ src_pos >= 1
  /\ Size = 0 => sent = <<>>
  /\ Size > 0 => \E h : Writing(h)

StoredAsIs ==
  /\ arc.compression_type = CT_NONE
  /\ arc.compressed_size = Size + HeaderSize
  /\ arc.body = text
  /\ pc \in {"expand", "done"}
  /\ got = <<>>
  /\ out = IF pc = "done" THEN text ELSE <<>>

ExpanderReads ==
  /\ arc.compression_type # CT_NONE
  /\ \E h : OnRecord(h) /\ (Reading(h) \/ Straying(h))

\* No code goes astray unless the block reaches past the buffer.
LEMMA ReadingUnlessOverran ==
  ASSUME ExpanderReads, ~Overran
  PROVE  \E h : OnRecord(h) /\ Reading(h)
BY DEF ExpanderReads, Straying, Strays

Before == pc \in {"compress", "code", "extend"}

RoundInv ==
  /\ sent \in Seq(Place)
  /\ Before \/ pc \in {"expand", "read", "unwind", "done"}
  /\ Before => got = <<>> /\ out = <<>>
  /\ pc = "compress" => sent = <<>> /\ dst = {}
  /\ Compressing => CompressorWrites
  /\ ~Before => StoredAsIs \/ ExpanderReads

\* At first nothing has been written.
LEMMA RoundInit ==
  ASSUME ArchiveInit
  PROVE  RoundInv
<1>1. /\ pc = "compress" /\ sent = <<>> /\ got = <<>> /\ out = <<>> /\ dst = {}
  BY DEF ArchiveInit, ArchiveInitFor
<1> QED
  BY <1>1 DEF RoundInv, Before, Compressing

\* Every step of the compressor keeps the invariant:
\* the first,
LEMMA CompressBeginRound ==
  ASSUME CompressorInv, RoundInv, CompressBegin
  PROVE  RoundInv'
<1>1. /\ text' = text /\ sent' = sent /\ got' = got /\ out' = out
      /\ pc = "compress" /\ pc' = "code" /\ src_pos' = 1
  BY DEF CompressBegin
<1>2. text \in Seq(Chars)
  BY DEF CompressorInv
<1>3. /\ sent = <<>> /\ dst = {} /\ got = <<>> /\ out = <<>> /\ sent \in Seq(Place)
  BY <1>1 DEF RoundInv, Before
<1>4. Size > 0 => \E h : Writing(h)'
  BY <1>2, <1>3, BeginWrites
<1>5. CompressorWrites'
  BY <1>1, <1>3, <1>4 DEF CompressorWrites, Size
<1> QED
  BY <1>1, <1>3, <1>5 DEF RoundInv, Before, Compressing

\* the head of the loop,
LEMMA CodeBeginRound ==
  ASSUME CompressorInv, RoundInv, CodeBegin
  PROVE  RoundInv'
<1>1. /\ text' = text /\ sent' = sent /\ got' = got /\ out' = out
      /\ pc = "code" /\ pc' = "extend" /\ src_pos' = src_pos
  BY DEF CodeBegin
<1>2. /\ CompressorWrites /\ sent \in Seq(Place) /\ got = <<>> /\ out = <<>>
  BY <1>1 DEF RoundInv, Before, Compressing
<1>3. Size > 0 => \E h : Writing(h)'
  BY <1>2, CodeBeginWrites DEF CompressorWrites
<1>4. CompressorWrites'
  BY <1>1, <1>2, <1>3 DEF CompressorWrites, Size
<1> QED
  BY <1>1, <1>2, <1>4 DEF RoundInv, Before, Compressing

\* a longer string,
LEMMA ExtendRound ==
  ASSUME CompressorInv, RoundInv, CodeExtend
  PROVE  RoundInv'
<1>1. /\ text' = text /\ sent' = sent /\ got' = got /\ out' = out
      /\ pc = "extend" /\ pc' = "extend" /\ src_pos' = src_pos + 1
  BY DEF CodeExtend
<1>2. /\ CompressorWrites /\ sent \in Seq(Place) /\ got = <<>> /\ out = <<>>
  BY <1>1 DEF RoundInv, Before, Compressing
<1>3. Size > 0 => \E h : Writing(h)'
  BY <1>2, ExtendWrites DEF CompressorWrites
<1>4. src_pos' >= 1
  BY <1>1, <1>2 DEF CompressorWrites, CompressorInv, Compressing
<1>5. CompressorWrites'
  BY <1>1, <1>2, <1>3, <1>4 DEF CompressorWrites, Size
<1> QED
  BY <1>1, <1>2, <1>5 DEF RoundInv, Before, Compressing

\* a code that is written,
LEMMA EmitRound ==
  ASSUME CompressorInv, RoundInv, CodeEmit
  PROVE  RoundInv'
<1>1. /\ text' = text /\ got' = got /\ out' = out
      /\ pc = "extend" /\ pc' = "code" /\ src_pos' = src_pos + 1 /\ src_pos < Size
  BY DEF CodeEmit
<1>2. /\ CompressorWrites /\ sent \in Seq(Place) /\ got = <<>> /\ out = <<>>
  BY <1>1 DEF RoundInv, Before, Compressing
<1>3. src_pos \in Nat /\ src_pos >= 1 /\ Size \in Nat /\ Size > 0
  BY <1>1, <1>2 DEF CompressorWrites, CompressorInv, Compressing, Size
<1>4. (\E h : Writing(h)') /\ sent' \in Seq(Place)
  BY <1>2, <1>3, EmitWrites DEF CompressorWrites
<1>5. src_pos' >= 1 /\ Size' = Size /\ Size # 0
  BY <1>1, <1>3 DEF Size
<1>6. CompressorWrites'
  BY <1>4, <1>5 DEF CompressorWrites
<1> QED
  BY <1>1, <1>2, <1>4, <1>6 DEF RoundInv, Before, Compressing

\* the last code,
LEMMA CompressEndRound ==
  ASSUME CompressorInv, RoundInv, CompressEnd
  PROVE  RoundInv'
<1>1. /\ text' = text /\ got' = got /\ out' = out
      /\ pc \in {"code", "extend"} /\ pc' = "expand" /\ src_pos = Size
  BY DEF CompressEnd, CodesDone, HasRoom
<1>2. /\ CompressorWrites /\ sent \in Seq(Place) /\ got = <<>> /\ out = <<>>
  BY <1>1 DEF RoundInv, Before, Compressing
<1>3. Size > 0
  <2>1. src_pos \in Nat /\ src_pos >= 1
    BY <1>1, <1>2 DEF CompressorWrites, CompressorInv, Compressing
  <2> QED
    BY <1>1, <2>1
<1>4. PICK h : Writing(h)
  BY <1>2, <1>3 DEF CompressorWrites
<1>5. /\ sent' \in Seq(Place) /\ arc'.compression_type # CT_NONE
      /\ OnRecord(h)'
  BY <1>2, <1>4, EndWrites
<1>6. OnRecord(h)' => Reading(h)'
  <2>1. Len(h) \in Nat
    BY <1>4 DEF Writing, History
  <2>2. got' = <<>> /\ Len(got') = 0 /\ out' = <<>>
    BY <1>1, <1>2
  <2> QED
    BY <1>1, <2>1, <2>2 DEF Reading
<1>7. ExpanderReads'
  BY <1>5, <1>6 DEF ExpanderReads
<1> QED
  BY <1>1, <1>5, <1>7 DEF RoundInv, Before, Compressing

\* and giving up.
LEMMA StoreRound ==
  ASSUME CompressorInv, RoundInv, StoreAsIs
  PROVE  RoundInv'
<1>1. /\ text' = text /\ got' = got /\ out' = out /\ sent' = sent
      /\ pc \in {"code", "extend"} /\ pc' = "expand"
      /\ arc'.compression_type = CT_NONE /\ arc'.body = text
      /\ arc'.compressed_size = Size + HeaderSize
  BY DEF StoreAsIs, CodesDone
<1>2. sent \in Seq(Place) /\ got = <<>> /\ out = <<>>
  BY <1>1 DEF RoundInv, Before, Compressing
<1>3. StoredAsIs'
  BY <1>1, <1>2 DEF StoredAsIs, Size
<1> QED
  BY <1>1, <1>2, <1>3 DEF RoundInv, Before, Compressing

\* What was stored as it is comes back as it is.
LEMMA AsIsRound ==
  ASSUME CompressorInv, RoundInv, ExpandAsIs
  PROVE  RoundInv'
<1>1. /\ text' = text /\ got' = got /\ sent' = sent /\ arc' = arc
      /\ pc = "expand" /\ pc' = "done" /\ out' = arc.body
      /\ arc.compression_type = CT_NONE
  BY DEF ExpandAsIs
<1>2. sent \in Seq(Place) /\ StoredAsIs
  BY <1>1 DEF RoundInv, Before, ExpanderReads
<1>3. StoredAsIs'
  BY <1>1, <1>2 DEF StoredAsIs, Size
<1> QED
  BY <1>1, <1>2, <1>3 DEF RoundInv, Before, Compressing

\* A step of the expander that has a block to read.
LEMMA ReadingRound ==
  ASSUME CompressorInv, RoundInv,
         ExpandBegin \/ ExpandRead \/ ExpandUnwind \/ ExpandLink \/ ExpandEnd
  PROVE  RoundInv'
<1>1. /\ text' = text /\ sent' = sent /\ arc' = arc
      /\ pc \in {"expand", "read", "unwind"}
      /\ pc' \in {"read", "unwind", "done"}
      /\ pc = "expand" => arc.compression_type # CT_NONE
  BY DEF ExpandBegin, ExpandRead, ExpandUnwind, ExpandLink, ExpandEnd
<1>2. text \in Seq(Chars) /\ sent \in Seq(Place) /\ ExpanderReads
  BY <1>1 DEF CompressorInv, RoundInv, Before, StoredAsIs
<1>3. PICK h : OnRecord(h) /\ (Reading(h) \/ Straying(h))
  BY <1>2 DEF ExpanderReads
<1>4. OnRecord(h)' /\ (Reading(h)' \/ Straying(h)')
  <2>1. OnRecord(h)'
    BY <1>1, <1>3, RecordedStays
  <2>2. CASE Reading(h)
    <3>1. CASE ExpandBegin
      BY <1>2, <1>3, <2>1, <2>2, <3>1, BeginReads, BeginStrays
    <3>2. CASE ExpandRead
      BY <1>2, <1>3, <2>1, <2>2, <3>2, ReadReads, ReadStrays
    <3>3. CASE ExpandUnwind
      BY <1>2, <1>3, <2>1, <2>2, <3>3, UnwindReads
    <3>4. CASE ExpandLink
      BY <1>2, <1>3, <2>1, <2>2, <3>4, LinkReads
    <3>5. CASE ExpandEnd
      BY <1>2, <1>3, <2>1, <2>2, <3>5, EndReads
    <3> QED
      BY <3>1, <3>2, <3>3, <3>4, <3>5
  <2>3. CASE Straying(h)
    <3>1. ~ExpandBegin
      BY <2>3 DEF Straying, ExpandBegin
    <3>2. ~ExpandRead
      <4>1. ASSUME pc = "read"
            PROVE  ~(Len(out) < arc.expanded_size)
        <5>1. Len(out) = Len(text) /\ arc.expanded_size = Len(text) /\ Len(text) \in Nat
          BY <1>2, <1>3, <2>3, <4>1 DEF Straying, OnRecord
        <5> QED
          BY ONLY <5>1
      <4> QED
        BY <4>1 DEF ExpandRead, MoreToRead
    <3>3. CASE ExpandUnwind
      BY <1>2, <1>3, <2>1, <2>3, <3>3, UnwindStrays
    <3>4. CASE ExpandLink
      BY <1>2, <1>3, <2>1, <2>3, <3>4, LinkStrays
    <3>5. CASE ExpandEnd
      BY <1>3, <2>1, <2>3, <3>5, EndStrays
    <3> QED
      BY <3>1, <3>2, <3>3, <3>4, <3>5
  <2> QED
    BY <1>3, <2>1, <2>2, <2>3
<1>5. ExpanderReads'
  BY <1>1, <1>2, <1>4 DEF ExpanderReads
<1> QED
  BY <1>1, <1>2, <1>5 DEF RoundInv, Before, Compressing

\* A step that leaves both sides alone leaves the record alone.
LEMMA RoundStays ==
  ASSUME RoundInv, UNCHANGED archiveVars
  PROVE  RoundInv'
<1>1. /\ text' = text /\ pc' = pc /\ c' = c /\ src_pos' = src_pos /\ dst_pos' = dst_pos
      /\ dst' = dst /\ basecode' = basecode /\ lastcode' = lastcode /\ code' = code
      /\ last_ch' = last_ch /\ stk' = stk /\ arc' = arc /\ out' = out
      /\ sent' = sent /\ got' = got
  BY DEF archiveVars, ctrlVars, expandVars
<1>2. /\ Overran' = Overran /\ Before' = Before /\ Compressing' = Compressing
      /\ StoredAsIs' = StoredAsIs
  BY <1>1 DEF Overran, Size, Before, Compressing, StoredAsIs
<1>3. ArcDetermineCompressionType' = ArcDetermineCompressionType
  BY <1>1, SameType
<1>4. \A h : Writing(h) => Writing(h)'
  BY <1>1, <1>3 DEF Writing
<1>5. \A h : OnRecord(h) => OnRecord(h)' /\ \A n : Strays(h, n) => Strays(h, n)'
  BY <1>1, RecordedStays
<1>6. \A n : Shows(n) => Shows(n)'
  BY <1>1 DEF Shows
<1>7. ASSUME NEW h, Reading(h)
      PROVE  Reading(h)'
  <2>1. BetweenCodes(h) => BetweenCodes(h)'
    BY <1>1 DEF BetweenCodes, Shows
  <2>2. WithinCode(h) => WithinCode(h)'
    BY <1>1 DEF WithinCode, Shows
  <2>3. Shows(Len(text)) => Shows(Len(text))'
    BY <1>1 DEF Shows
  <2> QED
    BY <1>1, <1>7, <2>1, <2>2, <2>3 DEF Reading
<1>8. ASSUME NEW h, OnRecord(h), Straying(h)
      PROVE  Straying(h)'
  BY <1>1, <1>5, <1>8 DEF Straying
<1>9. CompressorWrites => CompressorWrites'
  BY <1>1, <1>4 DEF CompressorWrites, Size
<1>10. ExpanderReads => ExpanderReads'
  BY <1>1, <1>5, <1>7, <1>8 DEF ExpanderReads
<1> QED
  BY <1>1, <1>2, <1>9, <1>10 DEF RoundInv

\* There is, for every code that was written, a table both sides have when they
\* come to it, a place in the text it begins at and a place in the archive it is
\* at; neither CompressBuf nor ExpandBuf keeps such a record.  Only the last
\* code is read otherwise than it was written, if the block did not fit the buffer
\* it was made in.
THEOREM EveryCodeOnRecord == ArchiveSpec => []RoundInv
<1>1. ArchiveInit => RoundInv
  BY RoundInit
<1>2. CompressorInv /\ RoundInv /\ [ArchiveNext]_archiveVars => RoundInv'
  <2> SUFFICES ASSUME CompressorInv, RoundInv, [ArchiveNext]_archiveVars
               PROVE  RoundInv'
    OBVIOUS
  <2>1. CASE CompressStep
    BY <2>1, CompressBeginRound, CodeBeginRound, ExtendRound, EmitRound,
       CompressEndRound, StoreRound DEF CompressStep
  <2>2. CASE ExpandStep
    BY <2>2, AsIsRound, ReadingRound DEF ExpandStep
  <2>3. CASE UNCHANGED archiveVars
    BY <2>3, RoundStays
  <2> QED
    BY <2>1, <2>2, <2>3 DEF ArchiveNext
<1> QED
  BY <1>1, <1>2, CompressorCorrect, PTL DEF ArchiveSpec
-----------------------------------------------------------------------------
\* What Shows means for a sequence: a beginning of the text.
LEMMA ShowsBeginning ==
  ASSUME text \in Seq(Chars), NEW n \in Nat, n <= Len(text), Shows(n)
  PROVE  out = SubSeq(text, 1, Len(out)) /\ (n = Len(text) => out = text)
<1>1. /\ out \in Seq(Chars) /\ Len(out) = n /\ Len(text) \in Nat
      /\ \A m \in 1 .. n : out[m] = text[m]
  BY DEF Shows
<1>2. /\ SubSeq(text, 1, n) \in Seq(Chars) /\ Len(SubSeq(text, 1, n)) = n
      /\ \A m \in 1 .. n : SubSeq(text, 1, n)[m] = text[m]
  BY <1>1
<1>3. out = SubSeq(text, 1, n)
  BY ONLY <1>1, <1>2, SeqEqual
<1>4. ASSUME n = Len(text) PROVE out = text
  BY ONLY <1>1, <1>4, text \in Seq(Chars), SeqEqual
<1> QED
  BY <1>1, <1>3, <1>4

\* What was stored as it is comes back.
LEMMA StoredComesBack ==
  ASSUME text \in Seq(Chars), StoredAsIs
  PROVE  RoundTrip
<1>1. out = text \/ (out = <<>> /\ pc # "done")
  BY DEF StoredAsIs
<1>2. out = SubSeq(text, 1, Len(out))
  <2>1. CASE out = text
    <3>1. Shows(Len(text)) /\ Len(text) \in Nat
      BY <2>1 DEF Shows
    <3> QED
      BY <3>1, ShowsBeginning
  <2>2. CASE out = <<>>
    <3>1. Shows(0) /\ 0 <= Len(text)
      BY <2>2 DEF Shows
    <3> QED
      BY <3>1, ShowsBeginning
  <2> QED
    BY <1>1, <2>1, <2>2
<1> QED
  BY <1>1, <1>2 DEF RoundTrip, Size

\* What the expander has put out of a recorded text is the beginning of it.
LEMMA RecordComesBack ==
  ASSUME text \in Seq(Chars), sent \in Seq(Place), NEW h, OnRecord(h), Reading(h)
  PROVE  /\ out = SubSeq(text, 1, Len(out))
         /\ pc = "done" => out = text
<1>1. CASE pc = "expand"
  <2>1. out = <<>>
    BY <1>1 DEF Reading
  <2> QED
    BY <1>1, <2>1
<1>2. CASE pc = "read"
  <2>1. Len(got) \in 1 .. Len(h)
    BY <1>2, MoreToReadMeans
  <2>2. /\ EndOf(text, h, Len(got)) \in Nat /\ EndOf(text, h, Len(got)) <= Len(text)
    BY <2>1, RecordedFacts
  <2>3. Shows(EndOf(text, h, Len(got)))
    BY <1>2 DEF Reading, BetweenCodes
  <2> QED
    BY <1>2, <2>2, <2>3, ShowsBeginning
<1>3. CASE pc = "unwind"
  <2>1. h[Len(got)].at \in Nat /\ h[Len(got)].at <= Len(text)
    BY <1>3, WithinFacts
  <2>2. Shows(h[Len(got)].at)
    BY <1>3 DEF Reading, WithinCode
  <2> QED
    BY <1>3, <2>1, <2>2, ShowsBeginning
<1>4. CASE pc = "done"
  <2>1. Shows(Len(text)) /\ Len(text) \in Nat
    BY <1>4 DEF Reading
  <2> QED
    BY <2>1, ShowsBeginning
<1> QED
  BY <1>1, <1>2, <1>3, <1>4 DEF Reading

\* ExpandBuf gives back the text that CompressBuf was given, for every text, every
\* width of codes and characters and however often entries have been given up,
\* unless the block was one byte longer than the buffer it was made in.
THEOREM TextsComeBack == ArchiveSpec => []RoundTrip
<1>1. CompressorInv /\ RoundInv => RoundTrip
  <2> SUFFICES ASSUME CompressorInv, RoundInv, ~Overran
               PROVE  RoundTrip
    BY DEF RoundTrip
  <2>1. text \in Seq(Chars) /\ sent \in Seq(Place)
    BY DEF CompressorInv, RoundInv
  <2>2. CASE Before
    <3>1. out = <<>> /\ pc # "done"
      BY <2>2 DEF RoundInv, Before
    <3> QED
      BY <2>1, <3>1 DEF RoundTrip
  <2>3. CASE StoredAsIs
    BY <2>1, <2>3, StoredComesBack
  <2>4. CASE ExpanderReads
    <3>1. PICK h : OnRecord(h) /\ Reading(h)
      BY <2>4, ReadingUnlessOverran
    <3> QED
      BY <2>1, <3>1, RecordComesBack DEF RoundTrip, Size
  <2> QED
    BY <2>2, <2>3, <2>4 DEF RoundInv
<1> QED
  BY <1>1, CompressorCorrect, EveryCodeOnRecord, PTL

\* ExpandBuf reads every code at the bit and in the width CompressBuf wrote it,
\* though the archive says neither.
THEOREM CodesAreReadAsWritten == ArchiveSpec => []ReadsWhatWasWritten
<1>1. RoundInv => ReadsWhatWasWritten
  <2> SUFFICES ASSUME RoundInv, ~Overran
               PROVE  /\ Len(got) <= Len(sent)
                      /\ \A m \in 1 .. Len(got) : got[m] = sent[m]
    BY DEF ReadsWhatWasWritten
  <2>1. sent \in Seq(Place)
    BY DEF RoundInv
  <2>2. CASE got = <<>>
    <3>1. Len(got) = 0 /\ Len(sent) \in Nat
      BY <2>1, <2>2
    <3> QED
      BY <3>1
  <2>3. CASE got # <<>>
    <3>1. ExpanderReads
      BY <2>3 DEF RoundInv, StoredAsIs
    <3>2. PICK h : OnRecord(h) /\ Reading(h)
      BY <3>1, ReadingUnlessOverran
    <3> QED
      BY <3>2 DEF OnRecord, Reading
  <2> QED
    BY <2>2, <2>3
<1> QED
  BY <1>1, EveryCodeOnRecord, PTL

\* In the table of a code there is a leaf that is not what the code stands for:
\* the entry that is about to be linked.
LEMMA TurnHasLeaf ==
  ASSUME NEW t, NEW n, TurnOK(text, t, n), NEW p, NEW at, NEW len,
         Says(text, t.tab, t.whr, p, at, len)
  PROVE  /\ ChainsMatchEntries(t.tab) /\ SpareEntriesAreFree(t.tab)
         /\ \E e \in Leaves(t.tab) : e \notin {t.tab.next_entry, p}
<1>1. TableInv(t.tab) /\ ~t.tab.entry_used
  BY DEF TurnOK
<1> PICK cur : cur = t.tab.cur_entry
  OBVIOUS
<1>2. /\ cur \in Codes /\ cur \notin OnChain(t.tab) /\ t.tab.hash[cur] = {}
      /\ ~Literal(t.tab, cur) /\ cur # t.tab.next_entry
      /\ cur < t.tab.free_limit
  BY <1>1 DEF TableInv, Sized, SpareEntriesAreFree, IsSpare
<1>3. cur \in Leaves(t.tab)
  <2>1. cur \in Nat /\ t.tab.min_table_entry \in Nat /\ t.tab.free_limit \in Nat
    BY <1>1, <1>2, SizedFacts, ShiftFacts, WidthAssumption DEF TableInv, Codes
  <2> QED
    BY <1>2, <2>1 DEF Leaves, Literal
<1>4. cur # p
  BY <1>2 DEF Says
<1> QED
  BY <1>1, <1>2, <1>3, <1>4 DEF TableInv

\* In the table of the expander, too, nothing is built on an entry that was given
\* up, a spare entry stands for nothing, and when it is full there is a leaf to
\* give up other than the code that will be linked to next.
THEOREM BothTablesAreSound == ArchiveSpec => []ExpanderTableIsSound
<1>1. CompressorInv /\ RoundInv => ExpanderTableIsSound
  <2> SUFFICES ASSUME CompressorInv, RoundInv, Expanding, ~Overran
               PROVE  /\ ChainsMatchEntries(c) /\ SpareEntriesAreFree(c)
                      /\ \E e \in Leaves(c) : e \notin {c.next_entry, lastcode}
    BY DEF ExpanderTableIsSound
  <2>1. text \in Seq(Chars) /\ sent \in Seq(Place)
    BY DEF CompressorInv, RoundInv
  <2>2. PICK h : OnRecord(h) /\ Reading(h)
    BY ReadingUnlessOverran DEF RoundInv, Expanding, Before, StoredAsIs
  <2>3. CASE pc = "read"
    <3>1. Len(got) \in 1 .. Len(h)
      BY <2>1, <2>2, <2>3, MoreToReadMeans
    <3>2. c = h[Len(got)].tab /\ lastcode = sent[Len(got)].code
      BY <2>2, <2>3 DEF Reading, BetweenCodes
    <3>3. PICK end : end = EndOf(text, h, Len(got))
      OBVIOUS
    <3>4. PICK t : t = h[Len(got)]
      OBVIOUS
    <3>5. /\ TurnOK(text, t, Len(got))
          /\ Says(text, t.tab, t.whr, lastcode, t.at, end - t.at)
      BY <2>1, <2>2, <3>1, <3>2, <3>3, <3>4, RecordedFacts
    <3> QED
      BY <3>2, <3>4, <3>5, TurnHasLeaf
  <2>4. CASE pc = "unwind"
    <3>1. PICK n : n = Len(got)
      OBVIOUS
    <3>2. /\ TurnOK(text, h[n - 1], n - 1)
          /\ Follows(text, h[n], h[n - 1], sent[n - 1].code)
      BY <2>1, <2>2, <2>4, <3>1, WithinFacts
    <3>3. c = h[n - 1].tab /\ lastcode = sent[n - 1].code
      BY <2>2, <2>4, <3>1 DEF Reading, WithinCode
    <3>4. PICK t : t = h[n - 1]
      OBVIOUS
    <3>5. /\ TurnOK(text, t, n - 1)
          /\ Says(text, t.tab, t.whr, lastcode, t.at, h[n].at - t.at)
      BY <3>2, <3>3, <3>4 DEF Follows
    <3> QED
      BY <3>3, <3>4, <3>5, TurnHasLeaf
  <2> QED
    BY <2>3, <2>4 DEF Expanding
<1> QED
  BY <1>1, CompressorCorrect, EveryCodeOnRecord, PTL

\* What a code stands for has no more characters than there were codes, or
\* than there are codes of any width.
LEMMA StringIsShort ==
  ASSUME NEW t, NEW n \in Nat, n >= 1, TurnOK(text, t, n), NEW p, NEW at, NEW len,
         Says(text, t.tab, t.whr, p, at, len)
  PROVE  len <= n /\ len <= Shift[ARC_MAX_BITS]
<1>1. TableInv(t.tab) /\ Strings(text, t.tab, t.whr, n)
  BY DEF TurnOK
<1>2. CASE Literal(t.tab, p)
  <2>1. Shift[ARC_MAX_BITS] \in Nat /\ Shift[ARC_MAX_BITS] >= 1
    BY ShiftFacts, WidthAssumption
  <2> QED
    BY <1>2, <2>1 DEF Says
<1>3. CASE ~Literal(t.tab, p)
  <2>1. p \in OnChain(t.tab) /\ t.whr[p].len = len
    BY <1>3 DEF Says
  <2>2. len \in 2 .. n
    BY <1>1, <2>1 DEF Strings
  <2>3. len <= Shift[ARC_MAX_BITS]
    BY <1>1, <2>1, StringsFit
  <2> QED
    BY <2>2, <2>3
<1> QED
  BY <1>2, <1>3

\* The stack of ArcExpandBuf, whose bound nothing checks, is never used up, and
\* the n-th code never puts more than n characters on it, nor does a last code
\* that took in a byte that was not the block's.
THEOREM StackStaysSmall == ArchiveSpec => []StackFits
<1>1. CompressorInv /\ RoundInv => StackFits
  <2> SUFFICES ASSUME CompressorInv, RoundInv, Expanding
               PROVE  Len(stk) < Len(got) /\ Len(stk) < Shift[ARC_MAX_BITS]
    BY DEF StackFits
  <2>1. text \in Seq(Chars) /\ sent \in Seq(Place)
    BY DEF CompressorInv, RoundInv
  <2>2. PICK h : OnRecord(h) /\ (Reading(h) \/ Straying(h))
    BY DEF RoundInv, Expanding, Before, StoredAsIs, ExpanderReads
  <2>3. Shift[ARC_MAX_BITS] \in Nat /\ Shift[ARC_MAX_BITS] >= 2
    BY ShiftFacts, WidthAssumption, ShiftAssumption
  <2>4. CASE Reading(h) /\ pc = "read"
    <3>1. Len(got) \in 1 .. Len(h) /\ stk = <<>>
      BY <2>1, <2>2, <2>4, MoreToReadMeans DEF Reading, BetweenCodes
    <3> QED
      BY <2>3, <3>1
  <2>5. CASE Reading(h) /\ pc = "unwind"
    <3>1. PICK n, end, t : n = Len(got) /\ end = EndOf(text, h, n) /\ t = h[n]
      OBVIOUS
    <3>2. PICK rest : rest = end - h[n].at - Len(stk)
      OBVIOUS
    <3>3. /\ n \in 1 .. Len(h) /\ n \in Nat /\ t.at \in Nat /\ end \in Nat
          /\ Len(stk) \in Nat /\ rest \in Nat /\ rest >= 1
          /\ Says(text, t.tab, t.whr, sent[n].code, t.at, end - t.at)
      BY <2>1, <2>2, <2>5, <3>1, <3>2, WithinFacts
    <3>4. TurnOK(text, t, n)
      BY <2>1, <2>2, <3>1, <3>3, RecordedFacts
    <3>5. PICK len : len = end - t.at
      OBVIOUS
    <3>6. len <= n /\ len <= Shift[ARC_MAX_BITS]
      <4>1. Says(text, t.tab, t.whr, sent[n].code, t.at, len) /\ n >= 1
        BY <3>3, <3>5
      <4> QED
        BY ONLY <3>3, <3>4, <4>1, StringIsShort
    <3>7. rest = len - Len(stk) /\ len \in Int
      BY <3>1, <3>2, <3>3, <3>5
    <3>8. Len(stk) < n /\ Len(stk) < Shift[ARC_MAX_BITS]
      BY ONLY <2>3, <3>3, <3>6, <3>7
    <3> QED
      BY <3>1, <3>8
  <2>6. CASE Straying(h)
    <3>1. Len(h) \in Nat /\ Len(h) >= 1 /\ Len(got) = Len(h)
      BY <2>2, <2>6 DEF OnRecord, History, Straying
    <3>2. stk = <<>> \/ (Len(stk) = 1 /\ Len(h) >= 2)
      BY <2>6 DEF Straying, Expanding
    <3>3. CASE stk = <<>>
      <4>1. Len(stk) = 0
        BY <3>3
      <4> QED
        BY ONLY <2>3, <3>1, <4>1
    <3>4. CASE Len(stk) = 1 /\ Len(h) >= 2
      BY ONLY <2>3, <3>1, <3>4
    <3> QED
      BY <3>2, <3>3, <3>4
  <2> QED
    BY <2>2, <2>4, <2>5, <2>6 DEF Expanding
<1> QED
  BY <1>1, CompressorCorrect, EveryCodeOnRecord, PTL
-----------------------------------------------------------------------------
\* What the types of the expander come from.
ExpanderTyped ==
  /\ Expanding => c \in Ctrl /\ stk \in Seq(Chars) /\ out \in Seq(Chars)
  /\ pc = "expand" /\ arc.compression_type = CT_NONE => arc.body \in Seq(Chars)

\* Every table the expander has is one a code was written with, or made from
\* one.
LEMMA RecordIsTyped ==
  ASSUME CompressorInv, RoundInv
  PROVE  ExpanderTyped
<1>1. text \in Seq(Chars) /\ sent \in Seq(Place)
  BY DEF CompressorInv, RoundInv
<1>2. ASSUME Expanding
      PROVE  c \in Ctrl /\ stk \in Seq(Chars) /\ out \in Seq(Chars)
  <2>1. PICK h : OnRecord(h) /\ (Reading(h) \/ Straying(h))
    BY <1>2 DEF RoundInv, Expanding, Before, StoredAsIs, ExpanderReads
  <2>2. \A m \in 1 .. Len(h) : h[m].tab \in Ctrl
    BY <2>1 DEF OnRecord, History, TurnOK, Turn
  <2>3. CASE Reading(h) /\ pc = "read"
    <3>1. Len(got) \in 1 .. Len(h)
      BY <1>1, <2>1, <2>3, MoreToReadMeans
    <3>2. c = h[Len(got)].tab /\ stk = <<>> /\ out \in Seq(Chars)
      BY <2>3 DEF Reading, BetweenCodes, Shows
    <3> QED
      BY <2>2, <3>1, <3>2
  <2>4. CASE Reading(h) /\ pc = "unwind"
    <3>1. PICK n : n = Len(got)
      OBVIOUS
    <3>2. n - 1 \in 1 .. Len(h) /\ c = h[n - 1].tab /\ stk \in Seq(Chars)
      BY <1>1, <2>1, <2>4, <3>1, WithinFacts
    <3>3. out \in Seq(Chars)
      BY <2>4 DEF Reading, WithinCode, Shows
    <3> QED
      BY <2>2, <3>2, <3>3
  <2>5. CASE Straying(h)
    BY <2>5 DEF Straying
  <2> QED
    BY <1>2, <2>1, <2>3, <2>4, <2>5 DEF Expanding
<1>3. pc = "expand" /\ arc.compression_type = CT_NONE => arc.body \in Seq(Chars)
  BY <1>1 DEF RoundInv, Before, StoredAsIs, ExpanderReads
<1> QED
  BY <1>2, <1>3 DEF ExpanderTyped

\* At first everything is empty.
LEMMA ArchiveTypesInit ==
  ASSUME ArchiveInit
  PROVE  ArchiveTypeOK
<1>1. text \in Seq(Chars)
  BY ArchiveAssumption DEF ArchiveInit, ArchiveInitFor
<1>2. c \in Ctrl
  BY NewFields DEF ArchiveInit, ArchiveInitFor
<1>3. 0 \in Codes
  BY CharsAreCodes
<1> QED
  BY <1>1, <1>2, <1>3 DEF ArchiveInit, ArchiveInitFor, ArchiveTypeOK

\* A code that is read is one of the widest width at most, whatever the bits.
LEMMA ReadTyped ==
  ASSUME NEW bits, NEW from \in Nat, NEW w \in 0 .. ARC_MAX_BITS
  PROVE  BFieldExt(bits, from, w) \in Codes /\ from + w \in Nat
<1>1. PICK v : v = BFieldExt(bits, from, w)
  OBVIOUS
<1>2. v \in Codes
  BY <1>1, BitsRead
<1> QED
  BY <1>1, <1>2, WidthAssumption

\* Every step keeps the types: the compressor's because its table is sound,
LEMMA CompressTypes ==
  ASSUME ArchiveTypeOK, CompressorInv, CompressorInv', CompressStep
  PROVE  ArchiveTypeOK'
<1>1. /\ text' = text /\ out' = out /\ stk' = stk /\ lastcode' = lastcode /\ code' = code
      /\ last_ch' = last_ch
      /\ pc' \in {"code", "extend", "expand"}
      /\ pc' # "code" /\ pc' # "extend" => c' = c /\ src_pos' = src_pos /\ basecode' = basecode
  BY DEF CompressStep, CompressBegin, CodeBegin, CodeExtend, CodeEmit, CompressEnd,
         StoreAsIs, ctrlVars, expandVars
<1>2. /\ text \in Seq(Chars) /\ c \in Ctrl /\ src_pos \in Nat /\ dst_pos \in Nat
      /\ basecode \in Codes /\ lastcode \in Codes /\ code \in Codes /\ last_ch \in Codes
      /\ stk \in Seq(Chars) /\ out \in Seq(Chars)
  BY DEF ArchiveTypeOK
<1>3. c' \in Ctrl /\ src_pos' \in Nat /\ basecode' \in Codes
  <2>1. CASE pc' \in {"code", "extend"}
    BY <2>1 DEF CompressorInv, Compressing, TableInv, Sized
  <2> QED
    BY <1>1, <1>2, <2>1
<1>4. dst_pos' \in Nat
  <2>1. CASE CompressBegin
    BY <2>1, ArchiveAssumption DEF CompressBegin
  <2>2. CASE CodeEmit
    <3>1. c.cur_bits_in_use \in Nat
      BY <1>2, WidthAssumption DEF Ctrl
    <3> QED
      BY <1>2, <2>2, <3>1 DEF CodeEmit
  <2>3. CASE CodeBegin \/ CodeExtend \/ CompressEnd \/ StoreAsIs
    BY <1>2, <2>3 DEF CodeBegin, CodeExtend, CompressEnd, StoreAsIs, ctrlVars
  <2> QED
    BY <2>1, <2>2, <2>3 DEF CompressStep
<1> QED
  BY <1>1, <1>2, <1>3, <1>4 DEF ArchiveTypeOK

\* and the expander's because its table was one of the compressor's.
LEMMA ExpandTypes ==
  ASSUME ArchiveTypeOK, ExpanderTyped, ExpanderTyped', ExpandStep
  PROVE  ArchiveTypeOK'
<1>1. /\ text \in Seq(Chars) /\ c \in Ctrl /\ src_pos \in Nat /\ dst_pos \in Nat
      /\ basecode \in Codes /\ lastcode \in Codes /\ code \in Codes /\ last_ch \in Codes
      /\ stk \in Seq(Chars) /\ out \in Seq(Chars)
  BY DEF ArchiveTypeOK
<1>2. c.next_bits_in_use \in 0 .. ARC_MAX_BITS /\ c.compress \in [Codes -> Entry]
  BY <1>1 DEF Ctrl
<1>3. pc' \in {"read", "unwind"} => c' \in Ctrl /\ stk' \in Seq(Chars) /\ out' \in Seq(Chars)
  BY DEF ExpanderTyped, Expanding
<1>4. CASE ExpandAsIs
  <2>1. arc.body \in Seq(Chars)
    BY <1>4 DEF ExpandAsIs, ExpanderTyped
  <2> QED
    BY <1>1, <1>4, <2>1 DEF ExpandAsIs, ArchiveTypeOK, ctrlVars, expandVars
<1>5. CASE ExpandBegin
  <2> PICK new, at : new = ArcCtrlNew(arc.compression_type) /\ at = HeaderSize * ByteBits
    OBVIOUS
  <2> PICK first : first = BFieldExt(arc.bits, at, new.next_bits_in_use)
    OBVIOUS
  <2>1. new.next_bits_in_use \in 0 .. ARC_MAX_BITS /\ at \in Nat
    <3>1. new \in Ctrl
      BY NewFields
    <3>2. at \in Nat
      BY ArchiveAssumption
    <3> QED
      BY <3>1, <3>2 DEF Ctrl
  <2>2. first \in Codes /\ at + new.next_bits_in_use \in Nat
    BY <2>1, ReadTyped
  <2>3. /\ text' = text /\ pc' = "read" /\ src_pos' = at + new.next_bits_in_use
        /\ lastcode' = first /\ last_ch' = first /\ dst_pos' = dst_pos
        /\ basecode' = basecode /\ code' = code
    BY <1>5 DEF ExpandBegin
  <2> QED
    BY <1>1, <1>3, <2>2, <2>3 DEF ArchiveTypeOK
<1>6. CASE ExpandRead
  <2>1. basecode' \in Codes /\ src_pos' \in Nat
    BY <1>1, <1>2, <1>6, ReadTyped DEF ExpandRead, ReadWidth
  <2>2. code' \in Codes
    BY <1>1, <1>6, <2>1 DEF ExpandRead, UnwindFrom
  <2>3. /\ text' = text /\ pc' = "unwind" /\ dst_pos' = dst_pos
        /\ lastcode' = lastcode /\ last_ch' = last_ch
    BY <1>6 DEF ExpandRead
  <2> QED
    BY <1>1, <1>3, <2>1, <2>2, <2>3 DEF ArchiveTypeOK
<1>7. CASE ExpandUnwind
  <2>1. code' \in Codes
    BY <1>1, <1>2, <1>7 DEF ExpandUnwind, Entry
  <2>2. /\ text' = text /\ pc' = "unwind" /\ src_pos' = src_pos /\ dst_pos' = dst_pos
        /\ basecode' = basecode /\ lastcode' = lastcode /\ last_ch' = last_ch
    BY <1>7 DEF ExpandUnwind, ctrlVars
  <2> QED
    BY <1>1, <1>3, <2>1, <2>2 DEF ArchiveTypeOK
<1>8. CASE ExpandLink
  <2>1. /\ text' = text /\ pc' = "read" /\ src_pos' = src_pos /\ dst_pos' = dst_pos
        /\ basecode' = basecode /\ lastcode' = basecode /\ last_ch' = code /\ code' = code
    BY <1>8 DEF ExpandLink
  <2> QED
    BY <1>1, <1>3, <2>1 DEF ArchiveTypeOK
<1>9. CASE ExpandEnd
  BY <1>1, <1>9 DEF ExpandEnd, ArchiveTypeOK, ctrlVars, expandVars
<1> QED
  BY <1>4, <1>5, <1>6, <1>7, <1>8, <1>9 DEF ExpandStep

\* Either way, and when neither takes a step.
LEMMA ArchiveTypesKept ==
  ASSUME ArchiveTypeOK, ExpanderTyped, ExpanderTyped', CompressorInv, CompressorInv',
         [ArchiveNext]_archiveVars
  PROVE  ArchiveTypeOK'
<1>1. CASE UNCHANGED archiveVars
  BY <1>1 DEF archiveVars, ctrlVars, expandVars, ArchiveTypeOK
<1> QED
  BY <1>1, CompressTypes, ExpandTypes DEF ArchiveNext

\* Every code, the ones that go astray included, stays a code, what is on the
\* stack and in the output stays characters, and the tables stay tables.
THEOREM ArchiveIsTyped == ArchiveSpec => []ArchiveTypeOK
<1>1. CompressorInv /\ RoundInv => ExpanderTyped
  BY RecordIsTyped
<1>2. ArchiveInit => ArchiveTypeOK
  BY ArchiveTypesInit
<1>3. ArchiveTypeOK /\ ExpanderTyped /\ ExpanderTyped' /\ CompressorInv /\ CompressorInv'
        /\ [ArchiveNext]_archiveVars => ArchiveTypeOK'
  BY ArchiveTypesKept
<1> QED
  BY <1>1, <1>2, <1>3, CompressorCorrect, EveryCodeOnRecord, PTL DEF ArchiveSpec
===============================================================================
