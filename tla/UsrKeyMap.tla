----------------------------- MODULE UsrKeyMap -----------------------------
(***************************************************************************)
(* The file of a user's key map (ukengine/usrkeymap.cpp): which action of  *)
(* the engine each key has, an event or a letter.                          *)
(*                                                                         *)
(* A line is a sequence of characters; the word for an action counts as    *)
(* one.  Keys is the part of the ASCII characters that the model has.      *)
(***************************************************************************)
EXTENDS Integers, Sequences, SequencesExt

Keys == {"a", "A", "b", ";", " ", "="}
toupper(c) == IF c = "a" THEN "A" ELSE IF c = "b" THEN "B" ELSE c
tolower(c) == IF c = "A" THEN "a" ELSE IF c = "B" THEN "b" ELSE c
AllKeys == Keys \cup {toupper(c) : c \in Keys}

\* UkEvLabelList: some events (below vneCount) and letters.
Events == {"Tone1", "Roof-A"}
Letters == {"a^", "A^"}
Labels == Events \cup Letters
Normal == "normal"                                                       \* vneNormal

Trim(cs) ==
  LET marks == {k \in DOMAIN cs : cs[k] # " "} IN
  IF marks = {} THEN <<>> ELSE SubSeq(cs, Min(marks), Max(marks))
UpTo(cs, c) == IF c \in ToSet(cs) THEN SubSeq(cs, 1, SelectInSeq(cs, LAMBDA x : x = c) - 1) ELSE cs
\* parseNameValue: a name is at least one character, even if that is "=".
parseNameValue(line) ==
  LET split(text, name) ==
        [name |-> Trim(name), value |-> Trim(SubSeq(text, Len(name) + 2, Len(text)))]
      pair(p) == IF p.value = <<>> THEN [name |-> <<>>, value |-> <<>>] ELSE p
      parsed(text) == IF text = <<>> THEN [name |-> <<>>, value |-> <<>>]
                      ELSE pair(split(text, <<text[1]>> \o UpTo(Tail(text), "=")))
  IN  parsed(Trim(UpTo(line, ";")))

initKeyMap == [k \in AllKeys |-> Normal]

IsPair(parsed) ==
  Len(parsed.name) = 1 /\ Len(parsed.value) = 1 /\ parsed.value[1] \in Labels
Bound(st, c, ev) ==
  LET key == IF ev \in Events THEN toupper(c) ELSE c IN
  [keyMap |-> [k \in AllKeys |-> IF k \in {c, key} THEN ev ELSE st.keyMap[k]],
   order |-> Append(st.order, [key |-> key, action |-> ev])]

\* Of UkLoadKeyOrderMap: what a line adds to the map and the order of its keys.
\* Mutant: a key is taken again.
TakeAgain(st, parsed) ==
  IF ~ IsPair(parsed) THEN st ELSE Bound(st, parsed.name[1], parsed.value[1])
Take(st, parsed) ==
  IF ~ IsPair(parsed) \/ st.keyMap[parsed.name[1]] # Normal THEN st
  ELSE Bound(st, parsed.name[1], parsed.value[1])
UkLoadKeyOrderMap(lines) ==
  FoldLeft(LAMBDA st, line : Take(st, parseNameValue(line)),
           [keyMap |-> initKeyMap, order |-> <<>>], lines).order

UkLoadKeyMap(lines) ==
  FoldLeft(LAMBDA keyMap, pair : [k \in AllKeys |->
             IF k = pair.key \/ (pair.action \in Events /\ k = tolower(pair.key)) THEN pair.action
             ELSE keyMap[k]],
           initKeyMap, UkLoadKeyOrderMap(lines))

UkStoreKeyOrderMap(order) ==
  [k \in DOMAIN order |-> <<order[k].key, " ", "=", " ", order[k].action>>]
=============================================================================
