----------------------------- MODULE MacroTable -----------------------------
(***************************************************************************)
(* The table of macros (ukengine/mactab.cpp): a memory of characters with  *)
(* the keys and the texts one after the other, each ended by 0, and for    *)
(* each macro the places of both.  A file of macros is either in UTF-8,    *)
(* which its first line says, or of an old version, in VIQR.               *)
(*                                                                         *)
(* The sizes are the constants of keycons.h.  Memory is counted in         *)
(* characters, not in bytes.                                               *)
(***************************************************************************)
EXTENDS VnConv

CONSTANTS MAX_MACRO_KEY_LEN, MAX_MACRO_TEXT_LEN, MAX_MACRO_ITEMS, MACRO_MEM_SIZE
ASSUME MacroAssumption ==
  {MAX_MACRO_KEY_LEN, MAX_MACRO_TEXT_LEN, MAX_MACRO_ITEMS, MACRO_MEM_SIZE} \subseteq Nat \ {0}

EmptyTable == [mem |-> <<>>, items |-> <<>>]                             \* resetContent
Colon == 58
Beginning(bytes, n) == SubSeq(bytes, 1, Min({n, Len(bytes)}))

\* VnConvert of a string that ends with 0, which is converted with it unless it
\* is all of the string.
Ended(bytes) == IF bytes = <<>> THEN <<>> ELSE Append(bytes, 0)
Converted(cs, bytes) == Read(cs, DefaultOptions, Ended(bytes))
RoomFor(most, occupied) == Min({most, MACRO_MEM_SIZE - occupied})

addConverted(t, key, text) ==
  IF \/ Len(t.items) >= MAX_MACRO_ITEMS
     \/ Len(key) > RoomFor(MAX_MACRO_KEY_LEN, Len(t.mem))
     \/ Len(text) > RoomFor(MAX_MACRO_TEXT_LEN, Len(t.mem) + Len(key))
  THEN t
  ELSE [mem |-> t.mem \o key \o text,
        items |-> Append(t.items, [keyOffset |-> Len(t.mem), textOffset |-> Len(t.mem) + Len(key)])]

\* Mutant of addItem: a key is cut one byte too late.
addItemCutLate(t, line, cs) ==
  IF Colon \notin ToSet(line) THEN t
  ELSE LET pos == SelectInSeq(line, LAMBDA b : b = Colon) IN
       addConverted(t, Converted(cs, Beginning(SubSeq(line, 1, pos - 1), MAX_MACRO_KEY_LEN)),
                    Converted(cs, SubSeq(line, pos + 1, Len(line))))

\* addItem of a line: a key that is too long is cut, in bytes.
addItem(t, line, cs) ==
  IF Colon \notin ToSet(line) THEN t
  ELSE LET pos == SelectInSeq(line, LAMBDA b : b = Colon) IN
       addConverted(t, Converted(cs, Beginning(SubSeq(line, 1, pos - 1), MAX_MACRO_KEY_LEN - 1)),
                    Converted(cs, SubSeq(line, pos + 1, Len(line))))

\* What is found at a place: the characters up to the next 0, or nil if what
\* follows is memory that nothing was written to.
Nil == <<-1>>
StringAt(t, offset) ==
  LET rest == SubSeq(t.mem, offset + 1, Len(t.mem)) IN
  IF 0 \in ToSet(rest) THEN SubSeq(rest, 1, SelectInSeq(rest, LAMBDA c : c = 0) - 1) ELSE Nil
KeyOf(t, k) == StringAt(t, t.items[k].keyOffset)
TextOf(t, k) == StringAt(t, t.items[k].textOffset)

\* bsearch may find any of the macros with one key.
lookup(t, key) == {TextOf(t, k) : k \in {j \in DOMAIN t.items : KeyOf(t, j) = key}}

\* macCompare; macros with one key stay in their order.
macLess(s1, s2) ==
  \/ Len(s1) < Len(s2) /\ s1 = SubSeq(s2, 1, Len(s1))
  \/ \E i \in DOMAIN s1 \cap DOMAIN s2 : SubSeq(s1, 1, i - 1) = SubSeq(s2, 1, i - 1) /\ s1[i] < s2[i]
Sorted(t) ==
  LET before(j, k) == macLess(KeyOf(t, j), KeyOf(t, k)) \/ (KeyOf(t, j) = KeyOf(t, k) /\ j < k)
      place(k) == 1 + Cardinality({j \in DOMAIN t.items : before(j, k)})
      at(n) == CHOOSE k \in DOMAIN t.items : place(k) = n
      order == [n \in DOMAIN t.items |-> at(n)]
  IN  [t EXCEPT !.items = [n \in DOMAIN t.items |-> t.items[order[n]]]]

MacroFile(version, lines) == [version |-> version, lines |-> lines]
writeToFile(t) ==
  MacroFile(1, [k \in DOMAIN t.items |->
    Written("UTF8", DefaultOptions, KeyOf(t, k)) \o <<Colon>> \o Written("UTF8", DefaultOptions, TextOf(t, k))])

\* loadFromFile: the table, and the file, which is written again if it was old.
loadFromFile(file) ==
  LET cs == IF file.version = 1 THEN "UTF8" ELSE "VIQR"
      upgraded(t) == [table |-> t, file |-> IF file.version = 1 THEN file ELSE writeToFile(t)]
  IN  upgraded(Sorted(FoldLeft(LAMBDA table, line : addItem(table, line, cs), EmptyTable, file.lines)))
=============================================================================
