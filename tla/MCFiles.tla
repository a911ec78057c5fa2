------------------------------ MODULE MCFiles ------------------------------
(***************************************************************************)
(* The converter, its streams, the three kinds of files the program reads  *)
(* and the list of input contexts, on all small inputs: a behaviour        *)
(* chooses what is tried and gives one input after the other; each         *)
(* property says what all of them give.                                    *)
(***************************************************************************)
EXTENDS MacroTable, ByteIO, UsrKeyMap, OptFile, IcList

VARIABLES kind, item
vars == <<kind, item>>

Lexi == INSTANCE UkLexi
O == DefaultOptions
Kind(what, of, n) == [what |-> what, of |-> of, n |-> n]
Kinds ==
  {Kind("text", cs, 0) : cs \in Charsets \ {"VIQR", "UTF8VIQR"}}
    \cup {Kind("words", "VIQR", 0), Kind("words", "UTF8", 0), Kind("patterns", "VIQR", 0)}
    \cup {Kind("calls", "bytes", n) : n \in 0 .. 4}
    \cup {Kind("calls", "words", n) : n \in {0, 2, 4}} \cup {Kind("calls", "dwords", n) : n \in {0, 4, 8}}
    \cup {Kind("puts", "room", n) : n \in 0 .. 5}
    \cup {Kind("macros", "UTF8", 1), Kind("macros", "VIQR", 0)}
    \cup {Kind("keys", "file", 0), Kind("options", "file", 0),
          Kind("contexts", "clients", 0)}

-----------------------------------------------------------------------------
(* The inputs *)

\* Letters with and without marks, symbols, and what the charsets use as marks,
\* digits and escapes.
Samples == {Vn(i) : i \in {0, 1, 3, 13, 28, 43, 75, 121, 154, 175, 187, 195, 198}}
             \cup {32, 35, 38, 49, 59, 92, 128, 142, 216, 222, 769, 961}
TextAfter(read) ==
  CASE read = <<>> -> Samples \cup {Vn(i) : i \in Indices}
    [] Len(read) = 1 \/ (Len(read) = 2 /\ read[1] \in Samples) -> Samples
    [] OTHER -> {}

\* The vowels of every sequence of the lexicon with every tone where either style
\* puts it, in capitals and small letters, alone or after a barred d.
RowOf == [a |-> 0, ar |-> 12, ab |-> 24, e |-> 44, er |-> 56, i |-> 74, o |-> 96, or |-> 108, oh |-> 120,
          u |-> 142, uh |-> 154, y |-> 172]
Toned(vs, tone, at, small) ==
  LET v == Lexi!VSeqList[vs].v IN
  [k \in DOMAIN v |-> Vn(RowOf[v[k]] + small + IF k = at + 1 THEN 2 * tone ELSE 0)]
Places(vs) == {Lexi!getTonePosition(vs, terminated, style) : terminated \in BOOLEAN, style \in BOOLEAN}
Sounds ==
  {onset \o sound : onset \in {<<>>, <<Vn(43)>>},
     sound \in UNION {{Toned(vs, tone, at, small) : tone \in 0 .. 5, at \in Places(vs), small \in 0 .. 1}
                        : vs \in DOMAIN Lexi!VSeqList}}
SomeSounds == {Toned("oa", 0, 0, 1), Toned("or", 5, 0, 1), <<Vn(43)>> \o Toned("i", 0, 0, 1), Toned("a", 1, 0, 0)}
Punctuation(cs) == IF cs = "VIQR" THEN {32, 39, 46, 63, 92, 94, 40, 43} ELSE {32, 44, 46, 63}
Sentence(cs, so) ==
  CASE Len(so) = 0 -> Sounds
    [] Len(so) \in {1, 3} -> {<<p>> : p \in Punctuation(cs)}
    [] Len(so) = 2 /\ so[1] \in SomeSounds -> SomeSounds
    [] OTHER -> {}

\* Parts of the patterns of VIQR, that overlap in every way: m, ma, i, il, mail, e,
\* to, :, /, w, ww, f, ft, p, ne, ws, @.
Fragments ==
  {<<109>>, <<109, 97>>, <<105>>, <<105, 108>>, <<109, 97, 105, 108>>, <<101>>, <<116, 111>>, <<58>>, <<47>>,
   <<119>>, <<119, 119>>, <<102>>, <<102, 116>>, <<112>>, <<110, 101>>, <<119, 115>>, <<64>>}

Calls(of) == CASE of = "bytes" -> {"getNext", "peekNext"} [] of = "words" -> {"getNextW", "peekNextW"}
               [] of = "dwords" -> {"getNextDW"}
PutCalls == {<<"putB", 1>>, <<"putW", 2>>, <<"puts", 1>>, <<"puts", 3>>}

\* Lines of macros: a key (one is too long, one has two letters in VIQR) and a text.
MacroKeys(cs) == {<<97>>, <<98, 99>>, <<97, 98, 99, 100>>} \cup IF cs = "VIQR" THEN {<<97, 39>>} ELSE {<<195, 161>>}
MacroTexts(cs) == {<<120>>, <<121, 58, 122>>} \cup IF cs = "VIQR" THEN {<<68, 68>>} ELSE {<<196, 144>>}
MacroLines(cs) == {k \o <<Colon>> \o t : k \in MacroKeys(cs), t \in MacroTexts(cs)}

KeyLines ==
  {<<k, " ", "=", " ", l>> : k \in Keys, l \in Labels}
    \cup {<<" ", "b", "=", "Tone1", " ", ";", "a">>, <<"a", "b", "=", "a^">>, <<";", "a", "=", "a^">>, <<>>}

OptionLines ==
  {<<n, "=", w>> : n \in {"FreeStyle", "ModernStyle", "EnableSpellCheck", "AutoRestoreNonVn"}, w \in {"Yes", "No"}}
    \cup {<<"Input", " ", "=", " ", "USER">>, <<"Charset", "=", "UTF-8", " ", "#", "Yes">>, <<"InitState", "=", "Off">>,
          <<"InitState", "=", "OFF">>, <<"CommitMethod", "=", "Forward">>, <<"PosX", "=", "10">>,
          <<" ", "MacroFile", "=", "~", " ", "m", " ">>, <<"UsrKeyMapFile", "=", "k", "#", "=">>, <<"Bell", "#", "No">>}

\* What clients ask of their contexts: attributes of every kind, one that is not
\* known, a font of the name that the code takes for one, two color maps in one place.
Attr(name, value) == [name |-> name, value |-> value]
AttributeLists ==
  {[ic |-> <<Attr("focusWindow", "w1")>>, preedit |-> <<Attr("stdColorMap", "c1"), Attr("area", "a1")>>, status |-> <<>>],
   [ic |-> <<Attr("clientWindow", "w2"), Attr("focusWindow", "0")>>, preedit |-> <<Attr("fontSet", "fontSet")>>,
    status |-> <<Attr("spotLocation", "p1"), Attr("lineSpace", "l1")>>],
   [ic |-> <<>>, preedit |-> <<Attr("fontSet", "f1"), Attr("colorMap", "c2")>>,
    status |-> <<Attr("fontSet", "f1"), Attr("fontSet", "f2")>>]}
Ids == 0 .. IdCount - 1
Requests ==
  [call : {"create"}, attrs : AttributeLists] \cup [call : {"set"}, id : Ids, attrs : AttributeLists]
    \cup [call : {"destroy"}, id : Ids]

Inputs ==
  CASE kind.what = "text" -> TextAfter(item)
    [] kind.what = "words" -> Sentence(kind.of, item)
    [] kind.what = "patterns" -> IF Len(item) < 4 THEN Fragments ELSE {}
    [] kind.what = "calls" -> IF Len(item) < 6 THEN Calls(kind.of) ELSE {}
    [] kind.what = "puts" -> IF Len(item) < 4 THEN PutCalls ELSE {}
    [] kind.what = "macros" -> IF Len(item) < 3 THEN MacroLines(kind.of) ELSE {}
    [] kind.what = "keys" -> IF Len(item) < 3 THEN KeyLines ELSE {}
    [] kind.what = "options" -> IF Len(item) < 3 THEN OptionLines ELSE {}
    [] kind.what = "contexts" -> IF Len(item) < 4 THEN Requests ELSE {}

Init == kind \in Kinds /\ item = <<>>
Next == \E input \in Inputs : item' = Append(item, input) /\ UNCHANGED kind
Spec == Init /\ [][Next]_vars
-----------------------------------------------------------------------------
(* The properties *)

\* What is written in a charset reads back character by character: a character
\* reads as it does alone, whatever stands before and after it, although most
\* charsets look one unit ahead (nextInput and putChar of each charset).  Alone,
\* each reads as itself in every charset of Unicode.  A text that holds the
\* beginning of a reference or a mark of its own is another matter.
Alone(cs, c) == Read(cs, O, Written(cs, O, <<c>>))
ReadsBack ==
  kind.what = "text" =>
    LET cs == kind.of IN
    /\ \/ cs \in {"UNIREF", "UNIREF_HEX"} /\ \E k \in 2 .. Len(item) : item[k - 1] = 38 /\ item[k] = 35
       \/ cs = "UNIDECOMPOSED" /\ 769 \in ToSet(item)
       \/ Read(cs, O, Written(cs, O, item)) = FlattenSeq([k \in DOMAIN item |-> Alone(cs, item[k])])
    /\ cs \in Unicodes \cup {"UNIDECOMPOSED", "VNSTANDARD"} =>
         \A c \in ToSet(item) : c > 127 => Alone(cs, c) = <<c>>

\* Words that the lexicon allows, with the punctuation that VIQR uses for marks,
\* are the same after they were written in VIQR and read (putChar escapes a mark
\* where nextInput would take it); and words in UTF-8 are the same when they are
\* read as the mix of UTF-8 and VIQR, once a letter has told that they are not
\* VIQR (m_suspicious).
WordsKept ==
  kind.what = "words" =>
    LET text == FlattenSeq(item) IN
    IF kind.of = "VIQR" THEN genConvert("VIQR", "VNSTANDARD", O, Written("VIQR", O, text)) = text
    ELSE (item # <<>> /\ \E c \in ToSet(item[1]) : ToUnicode(c) > 127)
           => Read("UTF8VIQR", O, Written("UTF8", O, text)) = text

\* PatternList finds a pattern just when it is the end of what was read, however
\* the patterns overlap (PatternState.foundAtNextChar).
PatternsFound ==
  (kind.what = "patterns" /\ item # <<>>) =>
    LET bytes == FlattenSeq(item)
        pats == FoldLeft(Fed, Reset, Front(bytes))
    IN  Found(pats, Last(bytes)) <=>
          \E k \in 1 .. VIQREscCount : IsSuffix(VIQREscapes[k], bytes)

\* A file read with getNext and peekNext, or by words, gives what a string with
\* the same bytes gives, and is not at its end before it (FileBIStream with its
\* two ways to give a byte back, StringBIStream).
SameReads ==
  kind.what = "calls" =>
    LET data == [k \in 1 .. kind.n |-> k]
        step(both, call) ==
          LET s == StringCall(data, both.s, call) f == FileCall(data, both.f, call) IN
          [s |-> s.st, f |-> f.st,
           same |-> /\ both.same /\ (FileEos(f.st) => s.st.eos)
                    /\ s.ok = f.ok /\ (s.ok => s.value = f.value)]
    IN  FoldLeft(step, [s |-> StringBIStream(data), f |-> FileBIStream, same |-> TRUE], item).same

\* A text that is put in a string or a file of limited room is written from its
\* beginning as far as it goes; it is bad just when something is missing, and
\* getOutBytes is the room that it takes (StringBOStream, FileBOStream).
OutCounted ==
  kind.what = "puts" =>
    LET calls == [k \in DOMAIN item |-> [name |-> item[k][1], bytes |-> [j \in 1 .. item[k][2] |-> 10 * k + j]]]
        all == FlattenSeq([k \in DOMAIN item |-> calls[k].bytes])
        s == FoldLeft(StringPut, BOStream(kind.n), calls)
        f == FoldLeft(FilePut, BOStream(kind.n), calls)
    IN  /\ s.out = Len(all)
        /\ \A st \in {s, f} : IsPrefix(st.written, all) /\ (st.bad <=> st.written # all)

\* What goes through a stream, in either direction, is the same in a file and in
\* a string, and the stream knows where it is.
StreamsExact == SameReads /\ OutCounted

\* A macro is found by its key, as far as that fits, with the text of its line,
\* no other key finds anything, and a file that is written and read again gives
\* the same (CMacroTable).
KeysOf(cs) == {Read(cs, O, Beginning(k, MAX_MACRO_KEY_LEN - 1)) : k \in MacroKeys(cs)}
Macro(cs, line) == [key |-> Read(cs, O, Beginning(Before(line, Colon), MAX_MACRO_KEY_LEN - 1)),
                    text |-> Read(cs, O, After(line, Colon))]
Finds(t, macros) ==
  LET needed == FoldLeft(LAMBDA n, m : n + Len(m.key) + Len(m.text) + 2, 0, macros)
      fits == Len(macros) <= MAX_MACRO_ITEMS /\ needed <= MACRO_MEM_SIZE
      texts(key) == {m.text : m \in {n \in ToSet(macros) : n.key = key}}
  IN  \A key \in KeysOf(kind.of) :
        lookup(t, key) \subseteq texts(key) /\ (fits => texts(key) \subseteq lookup(t, key))
SameMacros(t, again) == \A key \in KeysOf(kind.of) : lookup(again, key) = lookup(t, key)
MacrosKept ==
  kind.what = "macros" =>
    LET kept(t) ==
          /\ Finds(t, [k \in DOMAIN item |-> Macro(kind.of, item[k])])
          /\ SameMacros(t, loadFromFile(writeToFile(t)).table)
    IN  kept(loadFromFile(MacroFile(kind.n, item)).table)

\* Of the lines for one key the first counts, an event being for both cases of a
\* letter, and a map that is stored and loaded is the same; except a key that was
\* given a letter before an event, or an event as a capital before anything as a
\* small letter (the code refuses only some of those second lines), and the keys
\* that a line cannot begin with (UkLoadKeyOrderMap, UkLoadKeyMap,
\* UkStoreKeyOrderMap).
Parsed == SelectSeq([k \in DOMAIN item |-> parseNameValue(item[k])],
                    LAMBDA p : Len(p.name) = 1 /\ Len(p.value) = 1)
Overridden(pairs) ==
  \E j, k \in DOMAIN pairs :
    /\ j < k
    /\ tolower(pairs[j].name[1]) = tolower(pairs[k].name[1])
    /\ IF pairs[j].value[1] \in Letters THEN pairs[k].value[1] \in Events
       ELSE pairs[j].name # pairs[k].name /\ pairs[j].name[1] = toupper(pairs[j].name[1])
FirstMeant(pairs, key) ==
  LET means(p) == key = p.name[1] \/ (p.value[1] \in Events /\ tolower(key) = tolower(p.name[1]))
      first(ps) == IF ps = <<>> THEN Normal ELSE ps[1].value[1]
  IN  first(SelectSeq(pairs, means))
KeyMapKept ==
  kind.what = "keys" =>
    LET kept(pairs, keyMap) ==
          ~ Overridden(pairs) =>
            /\ \A key \in AllKeys : keyMap[key] = FirstMeant(pairs, key)
            /\ UkLoadKeyMap(UkStoreKeyOrderMap(UkLoadKeyOrderMap(item))) = keyMap
    IN  kept(Parsed, UkLoadKeyMap(item))

\* The options that are saved when the server ends are those it has, also those
\* that a macro file has changed: reading the file gives them all again ("AutoSave:
\* unikey will save options on exit", ukopt.c; writeValue and parseValue).
OptionsSaved ==
  kind.what = "options" =>
    LET macros(opts) == [opts EXCEPT !.macroEnabled = IF opts.macroFile = NULL THEN @ ELSE 1]
        same(saved, opts) == \A k \in DOMAIN UkXimOptList :
          saved[UkXimOptList[k].field] = opts[UkXimOptList[k].field]
        kept(opts) == same(UkParseOptFile(UkSetDefOptions, ParseWriteOptFile(opts)), opts)
    IN  kept(macros(UkParseOptFile(UkSetDefOptions, item)))

\* A context has just what was set on it since it was created, whatever its memory
\* was used for before and whatever was done to others; it is found until it is
\* destroyed, unless one that is younger has its id, ids being given again after
\* the last.  A font set stays once it has the name of the attribute, and both
\* color maps have one place.  A client is told what was set, and a trigger key is
\* sent to the window of the context, with Shift just if it is a capital letter
\* (NewIC, FindIC, DeleteIC, StoreIC, GetIC, MyTriggerNotifyHandler).
\* The requests that created the contexts with the id that are alive after the
\* first n requests, the youngest first.
IdOf(n) == Cardinality({k \in 1 .. n : item[k].call = "create"}) % IdCount
AliveAfter(id) ==
  LET alive[n \in 0 .. Len(item)] ==
        IF n = 0 THEN <<>>
        ELSE CASE item[n].call = "create" -> IF IdOf(n) = id THEN <<n>> \o alive[n - 1] ELSE alive[n - 1]
               [] item[n].call = "destroy" -> IF item[n].id = id /\ alive[n - 1] # <<>> THEN Tail(alive[n - 1])
                                              ELSE alive[n - 1]
               [] OTHER -> alive[n - 1]
  IN  alive
\* The values given to one place of the context: by the request that created it, and
\* by those that set attributes while it was the youngest.
GivenTo(alive, id, part, place) ==
  LET n == Len(item)
      concerns(k) == \/ item[k].call = "create" /\ k = alive[n][1]
                     \/ item[k].call = "set" /\ item[k].id = id /\ alive[k] = alive[n]
      values(k) == IF ~ concerns(k) THEN <<>>
                   ELSE SelectSeq(item[k].attrs[part], LAMBDA a : a.name \in AttributesOf[part] /\ PlaceOf(a.name) = place)
  IN  FlattenSeq([k \in 1 .. n |-> values(k)])
LastGiven(given, place) ==
  IF given = <<>> THEN "0"
  ELSE IF place = "fontSet" /\ Attr(place, place) \in ToSet(given) THEN place
  ELSE Last(given).value
TriggerRight(s, id) ==
  \A k \in DOMAIN Trigger_Keys :
    LET trigger == MyTriggerNotifyHandler(s, id, 3 * (k - 1), TRUE, TRUE, FALSE).event
        has == s.list[FindIC(s, id)].has.ic
    IN  /\ trigger.key = Trigger_Keys[k].key
        /\ trigger.state = "Shift" <=> Trigger_Keys[k].capital
        /\ trigger.window \in {has["focusWindow"], has["clientWindow"]}
        /\ trigger.window = "0" => has["focusWindow"] = "0"
ContextsFound ==
  kind.what = "contexts" =>
    LET s == FoldLeft(Handle, NoContexts, item) IN
    \A id \in Ids :
      LET alive == AliveAfter(id) IN
      IF alive[Len(item)] = <<>> THEN FindIC(s, id) = 0
      ELSE /\ FindIC(s, id) # 0
           /\ LET has == s.list[FindIC(s, id)].has
                  right(part, place) == has[part][place] = LastGiven(GivenTo(alive, id, part, place), place)
                  told == GetIC(s, id)
              IN  /\ \A part \in Parts : \A place \in DOMAIN has[part] : right(part, place)
                  /\ \A part \in {"preedit", "status"} : \A name \in DOMAIN told[part] \ {"lineSpace"} :
                       told[part][name] = has[part][name]
           /\ TriggerRight(s, id)
=============================================================================
