------------------------------ MODULE UkInput -------------------------------
(***************************************************************************)
(* The input processor (inputproc.cpp, usrkeymap.cpp): what a key is       *)
(* (letter, word break, ...) and which event it means in the input method  *)
(* in use.  A key code is a string: a letter "a" or "A", a digit, a        *)
(* punctuation sign ("grave" for the back quote), "RET" for any control    *)
(* code, "0xE9" for a letter of the upper half of Latin-1.                 *)
(***************************************************************************)
EXTENDS UkLexi, TLC

AZLexiLower == <<"a", "b", "c", "d", "e", "f", "g", "h", "i", "j", "k", "l", "m", "n", "o", "p",
                 "q", "r", "s", "t", "u", "v", "w", "x", "y", "z">>
AZLexiUpper == <<"A", "B", "C", "D", "E", "F", "G", "H", "I", "J", "K", "L", "M", "N", "O", "P",
                 "Q", "R", "S", "T", "U", "V", "W", "X", "Y", "Z">>
Lower == {AZLexiLower[i] : i \in 1..26}
Upper == {AZLexiUpper[i] : i \in 1..26}
Digits == {"0", "1", "2", "3", "4", "5", "6", "7", "8", "9"}
WordBreakSyms == {",", ";", ":", ".", "\"", "'", "!", "?", " ", "<", ">", "=", "+", "-", "*",
                  "/", "\\", "_", "@", "#", "$", "%", "&", "(", ")", "{", "}", "[", "]", "|"}

\* AscVnLexiList as SetupInputClassifierTable reads it, a later row replacing
\* an earlier one: <<key, letter, tone, upper case>>.
AscVnLexi ==
  { <<"0xC0", "a", 2, TRUE>>,  <<"0xC1", "a", 1, TRUE>>,  <<"0xC2", "a", 4, TRUE>>,
    <<"0xC8", "e", 2, TRUE>>,  <<"0xC9", "e", 1, TRUE>>,  <<"0xCA", "er", 0, TRUE>>,
    <<"0xCC", "i", 2, TRUE>>,  <<"0xCD", "i", 1, TRUE>>,  <<"0xD2", "o", 2, TRUE>>,
    <<"0xD3", "o", 1, TRUE>>,  <<"0xD4", "or", 0, TRUE>>, <<"0xD5", "o", 4, TRUE>>,
    <<"0xD9", "u", 2, TRUE>>,  <<"0xDA", "u", 1, TRUE>>,  <<"0xDD", "y", 1, TRUE>>,
    <<"0xE0", "a", 2, FALSE>>, <<"0xE1", "a", 1, FALSE>>, <<"0xE2", "ar", 0, FALSE>>,
    <<"0xE3", "a", 4, FALSE>>, <<"0xE8", "e", 2, FALSE>>, <<"0xE9", "e", 1, FALSE>>,
    <<"0xEA", "er", 0, FALSE>>, <<"0xEC", "i", 2, FALSE>>, <<"0xED", "i", 1, FALSE>>,
    <<"0xF2", "o", 2, FALSE>>, <<"0xF3", "o", 1, FALSE>>, <<"0xF4", "or", 0, FALSE>>,
    <<"0xF5", "o", 4, FALSE>>, <<"0xF9", "u", 2, FALSE>>, <<"0xFA", "u", 1, FALSE>>,
    <<"0xFD", "y", 1, FALSE>> }
AscKeys == {row[1] : row \in AscVnLexi}
KeyCodes == Lower \cup Upper \cup Digits \cup WordBreakSyms \cup AscKeys
              \cup {"~", "grave", "^", "RET"}

isalpha(k) == k \in Lower \cup Upper       \* in the C locale

-----------------------------------------------------------------------------
\* A symbol: a letter with its case and tone.  A key that is no Vietnamese
\* letter (vnl_nonVnChar) is its own symbol.
Symbol(sym, caps, tone) == [sym |-> sym, caps |-> caps, tone |-> tone]

\* IsoToVnLexi.
KeySymbols == [k \in KeyCodes |->
  CASE k \in Lower -> Symbol(k, FALSE, 0)
    [] k \in Upper -> Symbol(AZLexiLower[CHOOSE i \in 1..26 : AZLexiUpper[i] = k], TRUE, 0)
    [] k \in AscKeys -> LET row == CHOOSE r \in AscVnLexi : r[1] = k
                        IN  Symbol(row[2], row[4], row[3])
    [] OTHER -> Symbol(k, FALSE, 0)]

\* UkcMap.
getCharType(k) ==
  CASE k = "RET" -> "Reset"
    [] k \in {"j", "J", "f", "F", "w", "W"} -> "NonVn"
    [] k \in (Lower \cup Upper \cup AscKeys) \ {"j", "J", "f", "F", "w", "W"} -> "Vn"
    [] k \in WordBreakSyms -> "WordBreak"
    [] OTHER -> "NonVn"

-----------------------------------------------------------------------------
ToneEvents == {"Tone0", "Tone1", "Tone2", "Tone3", "Tone4", "Tone5"}
RoofEvents == {"RoofAll", "Roof_a", "Roof_e", "Roof_o"}
HookEvents == {"HookAll", "Hook_uo", "Hook_u", "Hook_o", "Bowl"}

\* vneCount + letter: the key maps to a character (the last labels of
\* UkEvLabelList).
MapCharRows ==
  { <<"DD", "dd", TRUE>>, <<"dd", "dd", FALSE>>, <<"A^", "ar", TRUE>>, <<"a^", "ar", FALSE>>,
    <<"A(", "ab", TRUE>>, <<"a(", "ab", FALSE>>, <<"E^", "er", TRUE>>, <<"e^", "er", FALSE>>,
    <<"O^", "or", TRUE>>, <<"o^", "or", FALSE>>, <<"O+", "oh", TRUE>>, <<"o+", "oh", FALSE>>,
    <<"U+", "uh", TRUE>>, <<"u+", "uh", FALSE>> }
MapChars == [label \in {row[1] : row \in MapCharRows} |->
  LET row == CHOOSE r \in MapCharRows : r[1] = label IN Symbol(row[2], row[3], 0)]

\* UkEvLabelList: what a key map can bind a key to.
UkEvLabelList ==
  ToneEvents \cup RoofEvents \cup HookEvents \cup {"Dd", "telex_w", "EscChar"} \cup DOMAIN MapChars

TelexMethodMapping ==
  [z |-> "Tone0", s |-> "Tone1", f |-> "Tone2", r |-> "Tone3", x |-> "Tone4", j |-> "Tone5",
   w |-> "telex_w", a |-> "Roof_a", e |-> "Roof_e", o |-> "Roof_o", d |-> "Dd"]
VniMethodMapping ==
  "0" :> "Tone0" @@ "1" :> "Tone1" @@ "2" :> "Tone2" @@ "3" :> "Tone3" @@ "4" :> "Tone4" @@
  "5" :> "Tone5" @@ "6" :> "RoofAll" @@ "7" :> "Hook_uo" @@ "8" :> "Bowl" @@ "9" :> "Dd"
VIQRMethodMapping ==
  "0" :> "Tone0" @@ "'" :> "Tone1" @@ "grave" :> "Tone2" @@ "?" :> "Tone3" @@ "~" :> "Tone4" @@
  "." :> "Tone5" @@ "^" :> "RoofAll" @@ "+" :> "Hook_uo" @@ "*" :> "Hook_uo" @@
  "(" :> "Bowl" @@ "d" :> "Dd" @@ "\\" :> "EscChar"

\* useBuiltIn, UkLoadKeyMap: a method is a partial function from keys, letters
\* in lower case, to events; an event (not a character) is bound to both cases.
Event(method, k) ==
  LET low == IF k \in Upper THEN KeySymbols[k].sym ELSE k
  IN  CASE k \in DOMAIN method -> method[k]
        [] k \notin DOMAIN method /\ low \in DOMAIN method /\ method[low] \notin DOMAIN MapChars
             -> method[low]
        [] OTHER -> "Normal"

\* keyCodeToSymbol: the key as mere text.
keyCodeToSymbol(k) ==
  [type |-> "Normal", ch |-> getCharType(k), key |-> k, sym |-> KeySymbols[k], tone |-> 0]

\* keyCodeToEvent; the tones are numbered in the order of their events.
ToneOf(type) == CHOOSE n \in 0..5 : type = "Tone" \o ToString(n)
Meaning(text, type) ==
  CASE type \in ToneEvents -> [text EXCEPT !.type = type, !.tone = ToneOf(type)]
    [] type \in DOMAIN MapChars -> [text EXCEPT !.type = "MapChar", !.ch = "Vn", !.sym = MapChars[type]]
    [] OTHER -> [text EXCEPT !.type = type]
keyCodeToEvent(method, k) == Meaning(keyCodeToSymbol(k), Event(method, k))
=============================================================================
