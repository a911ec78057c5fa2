------------------------------- MODULE VnConv -------------------------------
(***************************************************************************)
(* The converter of charsets (vnconv/charset.cpp, convert.cpp and          *)
(* pattern.cpp): what each charset makes of the units of a text and what   *)
(* it writes for a character, as functions.                                *)
(*                                                                         *)
(* A character is a number, as in the source: those of Vietnamese from     *)
(* 65536 on, in the order of VnTables, any other as in Unicode.  A unit is *)
(* a byte, or a word of the charsets that consist of words.                *)
(***************************************************************************)
EXTENDS VnTables, SequencesExt, FiniteSetsExt

VnStdCharOffset == 65536
INVALID_STD_CHAR == -1
PadChar == 35                                                            \* #
Vn(i) == VnStdCharOffset + i
IsVn(c) == c >= VnStdCharOffset
Index(c) == c - VnStdCharOffset

SingleBytes == DOMAIN SingleByteTables
DoubleBytes == DOMAIN DoubleByteTables \cup {"WINCP1258"}
Unicodes == {"UNICODE", "UTF8", "UNIREF", "UNIREF_HEX", "UNI_CSTRING"}
Charsets == SingleBytes \cup DoubleBytes \cup Unicodes
              \cup {"UNIDECOMPOSED", "VIQR", "UTF8VIQR", "VNSTANDARD"}

\* What was read: a character, how many units it took (0 at an end within a
\* character), and the state in which the next is read.
Got(c, n, st) == [c |-> c, n |-> n, st |-> st]

Bytes == 0 .. 255
Whites == {32, 9, 13, 10}
-----------------------------------------------------------------------------
(* SingleByteCharset *)

\* m_stdMap: of two characters with one code that do not follow each other the
\* last one has it, and the last of those that do.
SingleMap == [cs \in SingleBytes |->
  LET t == SingleByteTables[cs]
      Owners(b) == {i \in 1 .. TOTAL_VNCHARS : t[i] = b /\ (i = TOTAL_VNCHARS \/ t[i + 1] # b)}
  IN  [b \in Bytes |-> IF b = 0 \/ Owners(b) = {} THEN 0 ELSE Max(Owners(b))]]

nextSingle(cs, b) == IF SingleMap[cs][b] = 0 THEN b ELSE Vn(SingleMap[cs][b] - 1)

Missing(c) == CASE c \in {Vn(201), Vn(202)} -> 34 [] c = Vn(190) -> 46 [] OTHER -> PadChar
putSingle(cs, c) ==
  LET code == SingleByteTables[cs][Index(c) + 1] IN
  IF IsVn(c) THEN IF code = 0 THEN Missing(c) ELSE code
  ELSE IF c > 255 \/ SingleMap[cs][c] # 0 THEN PadChar ELSE c
-----------------------------------------------------------------------------
(* DoubleByteCharset and WinCP1258Charset *)

DoubleOut == [cs \in DoubleBytes |->
  IF cs = "WINCP1258" THEN WinCP1258
  ELSE [i \in Indices |-> LET w == DoubleByteTables[cs][i + 1] IN
          IF w > 255 THEN <<w % 256, w \div 256>> ELSE <<w>>]]
DoubleAlso(cs) == IF cs = "WINCP1258" THEN WinCP1258Pre ELSE DoubleOut[cs]

\* m_vnChars: the character of a code.
CharOf(t, also) ==
  [code \in Range(t) \cup Range(also) |->
     IF code \in Range(t) THEN Min({i \in Indices : t[i] = code})
                          ELSE Min({i \in Indices : also[i] = code})]
DoubleIn == [cs \in DoubleBytes |-> CharOf(DoubleOut[cs], DoubleAlso(cs))]

\* m_stdMap: the bytes that are marks, and the characters that are one byte.
MarkByte == 65535
ByteMap(charOf) ==
  [b \in Bytes |->
     IF \E code \in DOMAIN charOf : Len(code) = 2 /\ code[2] = b THEN MarkByte
     ELSE IF <<b>> \in DOMAIN charOf THEN charOf[<<b>>] + 1 ELSE 0]
DoubleMap == [cs \in DoubleBytes |-> ByteMap(DoubleIn[cs])]

nextDouble(cs, s, p) ==
  LET m == DoubleMap[cs][s[p]]
      pair == SubSeq(s, p, p + 1)
  IN  IF m = 0 THEN Got(s[p], 1, <<>>)
      ELSE IF m = MarkByte THEN Got(INVALID_STD_CHAR, 1, <<>>)
      ELSE IF p < Len(s) /\ pair \in DOMAIN DoubleIn[cs] THEN Got(Vn(DoubleIn[cs][pair]), 2, <<>>)
      ELSE Got(Vn(m - 1), 1, <<>>)

putDouble(cs, c) ==
  LET code == DoubleOut[cs][Index(c)] IN
  IF IsVn(c) THEN IF Len(code) = 1 /\ DoubleMap[cs][code[1]] = MarkByte THEN <<PadChar>> ELSE code
  ELSE IF c > 255 \/ DoubleMap[cs][c] # 0 THEN <<PadChar>> ELSE <<c>>
-----------------------------------------------------------------------------
(* The charsets of Unicode *)

UnicodeIndex == [u \in Range(UnicodeTable) |-> CHOOSE i \in Indices : UnicodeTable[i + 1] = u]
FromUnicode(u) == IF u \in DOMAIN UnicodeIndex THEN Vn(UnicodeIndex[u]) ELSE u
ToUnicode(c) == IF IsVn(c) THEN UnicodeTable[Index(c) + 1] ELSE c % 65536

CompIndex ==
  [code \in Range(UnicodeComposite) \cup {<<UnicodeTable[i + 1]>> : i \in Indices} |->
     CHOOSE i \in Indices : UnicodeComposite[i] = code \/ <<UnicodeTable[i + 1]>> = code]
nextComposed(s, p) ==
  LET one == SubSeq(s, p, p) two == SubSeq(s, p, p + 1) IN
  IF one \notin DOMAIN CompIndex THEN Got(s[p], 1, <<>>)
  ELSE IF p < Len(s) /\ two \in DOMAIN CompIndex THEN Got(Vn(CompIndex[two]), 2, <<>>)
  ELSE Got(Vn(CompIndex[one]), 1, <<>>)
putComposed(c) == IF IsVn(c) THEN UnicodeComposite[Index(c)] ELSE <<c % 65536>>

\* A sequence of UTF-8 ends early at a byte that does not continue it.
Continues(s, p) == s[p] \in 128 .. 191
nextUTF8(s, p) ==
  LET b == s[p]
      more == CASE b < 128 -> 0 [] b \in 192 .. 223 -> 1 [] b \in 224 .. 239 -> 2 [] OTHER -> -1
      good == {k \in 0 .. more : p + k <= Len(s) /\ \A j \in 1 .. k : Continues(s, p + j)}
      n == Max(good)
      six(k) == s[p + k] % 64
  IN  IF more = -1 THEN Got(INVALID_STD_CHAR, 1, <<>>)
      ELSE IF n < more THEN Got(INVALID_STD_CHAR, IF p + n < Len(s) THEN n + 1 ELSE 0, <<>>)
      ELSE Got(FromUnicode(CASE more = 0 -> b
                             [] more = 1 -> (b % 32) * 64 + six(1)
                             [] more = 2 -> (b % 16) * 4096 + six(1) * 64 + six(2)), more + 1, <<>>)
putUTF8(u) ==
  IF u < 128 THEN <<u>>
  ELSE IF u < 2048 THEN <<192 + (u \div 64), 128 + (u % 64)>>
  ELSE <<224 + (u \div 4096), 128 + ((u \div 64) % 64), 128 + (u % 64)>>

\* Numbers, written in digits of base without leading zeros.
DigitValue(b) == CASE b \in 48 .. 57 -> b - 48 [] b \in 97 .. 102 -> b - 87 [] b \in 65 .. 70 -> b - 55
                   [] OTHER -> 16
DigitByte(d) == IF d < 10 THEN 48 + d ELSE 55 + d
Digits(u, base) ==
  LET places == {k \in 0 .. 4 : u \div (base ^ k) > 0}
  IN  [j \in 1 .. Cardinality(places) |-> DigitByte((u \div (base ^ (Cardinality(places) - j))) % base)]
\* How many digits there are at p, and what number they are, in 16 bits.
Run(s, p, base, max) ==
  Max({n \in 0 .. max : p + n - 1 <= Len(s) /\ \A k \in p .. p + n - 1 : DigitValue(s[k]) < base})
Number(s, p, n, base) ==
  FoldLeft(LAMBDA code, b : (code * base + DigitValue(b)) % 65536, 0, SubSeq(s, p, p + n - 1))

\* &#D; and &#xH; -- without the semicolon all but the & is dropped.
nextRef(s, p) ==
  LET hex == p + 2 <= Len(s) /\ s[p + 2] \in {88, 120}
      from == IF hex THEN p + 3 ELSE p + 2
      base == IF hex THEN 16 ELSE 10
      n == Run(s, from, base, IF hex THEN 4 ELSE 5)
      end == from + n
  IN  IF ~ (s[p] = 38 /\ p < Len(s) /\ s[p + 1] = 35) THEN Got(FromUnicode(s[p]), 1, <<>>)
      ELSE IF end <= Len(s) /\ s[end] = 59
           THEN Got(FromUnicode(Number(s, from, n, base)), end + 1 - p, <<>>)
      ELSE Got(38, end - p, <<>>)
putRef(u) == IF u < 128 THEN <<u>> ELSE <<38, 35>> \o Digits(u, 10) \o <<59>>
putHex(u) == IF u < 256 THEN <<u>> ELSE <<38, 35, 120>> \o Digits(u, 16) \o <<59>>

\* \xH of a string of C, whose end is told by the next character only.
nextCString(s, p) ==
  LET n == Run(s, p + 2, 16, 4) IN
  IF s[p] = 92 /\ p < Len(s) /\ s[p + 1] \in {88, 120}
  THEN Got(FromUnicode(Number(s, p + 2, n, 16)), n + 2, <<>>)
  ELSE Got(FromUnicode(s[p]), 1, <<>>)
\* Mutant of putCString: digits are written as they are.
putCStringPlain(u) == IF u < 128 THEN <<u>> ELSE <<92, 120>> \o Digits(u, 16)
putCString(u) ==
  IF u < 128 /\ DigitValue(u) = 16 /\ u \notin {88, 120} THEN <<u>>
  ELSE <<92, 120>> \o Digits(u, 16)
-----------------------------------------------------------------------------
(* PatternList: the places in a text after which VIQR is not meant *)

VIQREscapes ==
  << <<58, 47, 47>>,                          \* ://
     <<47>>,                                  \* /
     <<64>>,                                  \* @
     <<109, 97, 105, 108, 116, 111, 58>>,     \* mailto:
     <<101, 109, 97, 105, 108, 58>>,          \* email:
     <<110, 101, 119, 115, 58>>,              \* news:
     <<119, 119, 119>>,                       \* www
     <<102, 116, 112>> >>                     \* ftp
VIQREscCount == Len(VIQREscapes)

\* m_border of a pattern: from a position that does not match, where to go on.
\* The pattern is matched as far as position pos, and byte b comes.
Border(pat) ==
  LET border[i \in 0 .. Len(pat)] ==
        LET from[j \in -1 .. i - 1] ==
              IF j = -1 THEN -1 ELSE IF pat[j + 1] = pat[i] THEN j ELSE from[border[j]]
        IN  IF i = 0 THEN -1 ELSE from[border[i - 1]] + 1
  IN  border
Borders == [k \in 1 .. VIQREscCount |-> Border(VIQREscapes[k])]
\* Mutant of Advance: a pattern that does not go on begins again.
AdvanceOrBegin(k, pos, b) == IF VIQREscapes[k][pos + 1] = b THEN pos + 1 ELSE 0
Advance(k, pos, b) ==
  LET fall[j \in -1 .. pos] ==
        IF j = -1 THEN -1 ELSE IF VIQREscapes[k][j + 1] = b THEN j ELSE fall[Borders[k][j]]
  IN  fall[pos] + 1

Reset == [k \in 1 .. VIQREscCount |-> 0]                                       \* m_pos
Found(pats, b) == \E k \in DOMAIN pats : Advance(k, pats[k], b) = Len(VIQREscapes[k])
Fed(pats, b) ==
  [k \in DOMAIN pats |-> LET pos == Advance(k, pats[k], b) IN
     IF pos = Len(VIQREscapes[k]) THEN Borders[k][pos] ELSE pos]
-----------------------------------------------------------------------------
(* VIQRCharset *)

VIQRMarks == 39 :> 2 @@ 96 :> 4 @@ 63 :> 6 @@ 126 :> 8 @@ 46 :> 10 @@ 94 :> 12
               @@ 40 :> 24 @@ 43 :> 26 @@ 42 :> 26
VIQRMap == [b \in Bytes |->
  LET letter(is) == IF is = {} THEN 0 ELSE 256 + Min(is)
  IN  IF b \in DOMAIN VIQRMarks THEN VIQRMarks[b] ELSE letter({i \in Indices : VIQRTable[i] = <<b>>})]
As == {65, 97}
Es == {69, 101}
Os == {79, 111}
Us == {85, 117}
Ds == {68, 100}
VowelBytes == As \cup Es \cup Os \cup Us \cup {73, 105, 89, 121}

startInput(suspicious) ==
  [suspicious |-> suspicious, wordStart |-> TRUE, gotTone |-> FALSE, escAll |-> FALSE, pats |-> Reset]

\* Does the vowel b take the mark of this index?
TakesMark(b, index) ==
  \/ index = 12 /\ b \in As \cup Es \cup Os
  \/ index = 24 /\ b \in As
  \/ index = 26 /\ b \in Os \cup Us
TakesTone(st, index) ==
  IF st.suspicious THEN index \in {2, 4, 8}
  ELSE index \in {2, 4, 6, 8, 10} /\ (st.gotTone => index \notin {6, 10})
Offset(b, index) == IF index \in {24, 26} THEN IF b \in Us THEN 12 ELSE 24 ELSE index

\* What byte b is to the patterns.
Searched(o, st, b) ==
  [st EXCEPT !.escAll = (@ \/ (o.viqrEsc /\ Found(st.pats, b))) /\ b \notin Whites,
             !.pats = IF o.viqrEsc THEN Fed(@, b) ELSE @]
TakeVIQR(o, s, p, st) ==
  LET b == s[p]
      i == VIQRMap[b] - 256
      raw == [st EXCEPT !.wordStart = TRUE, !.gotTone = FALSE]
      inWord == [st EXCEPT !.wordStart = FALSE]
      index == VIQRMap[s[p + 1]]
      third == IF p + 2 <= Len(s) THEN VIQRMap[s[p + 2]] ELSE 0
      tone == IF index > 10 /\ third \in 1 .. 10 THEN third ELSE 0
  IN  IF b = 92 /\ p < Len(s) THEN Got(s[p + 1], 2, raw)
      ELSE IF i < 0 THEN Got(b, 1, raw)
      ELSE IF st.escAll \/ p = Len(s) THEN Got(Vn(i), 1, inWord)
      ELSE IF (o.smartViqr => st.wordStart) /\ b \in Ds /\ s[p + 1] \in Ds
           THEN Got(Vn(i + 2), 2, inWord)
      ELSE IF b \in VowelBytes /\ (TakesTone(st, index) \/ TakesMark(b, index))
           THEN Got(Vn(i + Offset(b, index) + tone), IF tone > 0 THEN 3 ELSE 2,
                    [inWord EXCEPT !.gotTone = TRUE, !.suspicious = FALSE])
      ELSE Got(Vn(i), 1, inWord)
nextVIQR(o, s, p, st) == TakeVIQR(o, s, p, Searched(o, st, s[p]))

startOutput ==
  [bowl |-> FALSE, roof |-> FALSE, hook |-> FALSE, tone |-> FALSE, noOutEsc |-> FALSE, pats |-> Reset]

\* What may follow without being taken for a mark of the letter: nothing that
\* completes it.
AfterLetter(code, st) ==
  LET b == code[1] IN
  IF Len(code) > 1
  THEN [bowl |-> FALSE, roof |-> FALSE, hook |-> FALSE, tone |-> Len(code) = 2 /\ code[2] \in {94, 40, 43, 42},
        noOutEsc |-> st.noOutEsc \/ Found(st.pats, b), pats |-> Reset]
  ELSE [bowl |-> b \in As, roof |-> b \in As \cup Es \cup Os, hook |-> b \in Us \cup Os,
        tone |-> b \in VowelBytes,
        noOutEsc |-> st.noOutEsc \/ Found(st.pats, b), pats |-> Fed(st.pats, b)]
\* Mutant of NeedsEscape: after a letter with a mark no tone is escaped.
NeedsEscapeOnce(o, c, st) ==
  LET index == VIQRMap[c] IN
  /\ ~ o.viqrMixed /\ ~ st.noOutEsc
  /\ c = 92 \/ (index \in 1 .. 10 /\ st.tone /\ st.roof) \/ (index = 12 /\ st.roof)
     \/ (index = 24 /\ st.bowl) \/ (index = 26 /\ st.hook)
NeedsEscape(o, c, st) ==
  LET index == VIQRMap[c] IN
  /\ ~ o.viqrMixed /\ ~ st.noOutEsc
  /\ c = 92 \/ (index \in 1 .. 10 /\ st.tone) \/ (index = 12 /\ st.roof)
     \/ (index = 24 /\ st.bowl) \/ (index = 26 /\ st.hook)

Put(out, st) == [out |-> out, st |-> st]
\* After something else than a letter, which may be escaped.
AfterByte(b, pats, st) ==
  [startOutput EXCEPT !.noOutEsc = (st.noOutEsc \/ Found(pats, b)) /\ b \notin Whites,
                      !.pats = Fed(pats, b)]
putOther(out, st) ==
  Put(out, AfterByte(Last(out), IF Len(out) = 2 THEN Fed(st.pats, 92) ELSE st.pats, st))
putVIQR(o, c, st) ==
  IF IsVn(c) THEN Put(VIQRTable[Index(c)], AfterLetter(VIQRTable[Index(c)], st))
  ELSE putOther(IF c > 255 THEN <<PadChar>> ELSE IF NeedsEscape(o, c, st) THEN <<92, c>> ELSE <<c>>, st)
-----------------------------------------------------------------------------
(* Any charset, and the conversion *)

DefaultOptions == [viqrEsc |-> TRUE, viqrMixed |-> FALSE, smartViqr |-> TRUE,          \* VnConvResetOptions
                   toUpper |-> FALSE, toLower |-> FALSE, removeTone |-> FALSE]

\* Of UTF8VIQR: a text with letters of UTF-8 is suspected not to be VIQR.
nextUTF8VIQR(o, s, p, st) ==
  IF s[p] \in 192 .. 253 THEN [nextUTF8(s, p) EXCEPT !.st = startInput(TRUE)]
  ELSE nextVIQR(o, s, p, st)

nextInput(cs, o, s, p, st) ==
  CASE cs \in SingleBytes -> Got(nextSingle(cs, s[p]), 1, st)
    [] cs \in DoubleBytes -> nextDouble(cs, s, p)
    [] cs = "UNICODE" -> Got(FromUnicode(s[p]), 1, st)
    [] cs = "UNIDECOMPOSED" -> nextComposed(s, p)
    [] cs = "UTF8" -> nextUTF8(s, p)
    [] cs \in {"UNIREF", "UNIREF_HEX"} -> nextRef(s, p)
    [] cs = "UNI_CSTRING" -> nextCString(s, p)
    [] cs = "VIQR" -> nextVIQR(o, s, p, st)
    [] cs = "UTF8VIQR" -> nextUTF8VIQR(o, s, p, st)
    [] cs = "VNSTANDARD" -> Got(s[p], 1, st)

putChar(cs, o, c, st) ==
  CASE cs \in SingleBytes -> Put(<<putSingle(cs, c)>>, st)
    [] cs \in DoubleBytes -> Put(putDouble(cs, c), st)
    [] cs = "UNICODE" -> Put(<<ToUnicode(c)>>, st)
    [] cs = "UNIDECOMPOSED" -> Put(putComposed(c), st)
    [] cs = "UTF8" -> Put(putUTF8(ToUnicode(c)), st)
    [] cs = "UNIREF" -> Put(putRef(ToUnicode(c)), st)
    [] cs = "UNIREF_HEX" -> Put(putHex(ToUnicode(c)), st)
    [] cs = "UNI_CSTRING" -> Put(putCString(ToUnicode(c)), st)
    [] cs \in {"VIQR", "UTF8VIQR"} -> putVIQR(o, c, st)
    [] cs = "VNSTANDARD" -> Put(<<c>>, st)

IsAlpha(c) == IsVn(c) /\ Index(c) < TOTAL_ALPHA_VNCHARS
StdVnToUpper(c) == IF IsAlpha(c) THEN c - (c % 2) ELSE c
StdVnToLower(c) == IF IsAlpha(c) THEN c + 1 - (c % 2) ELSE c
StdVnGetRoot(c) == IF IsVn(c) THEN Vn(StdVnRootChar(Index(c))) ELSE c
Changed(o, c) ==
  LET d == IF o.toLower THEN StdVnToLower(c) ELSE IF o.toUpper THEN StdVnToUpper(c) ELSE c
  IN  IF o.removeTone THEN StdVnGetRoot(d) ELSE d

\* The characters of a text, and a text of them: the two halves of genConvert.
Took(o, s, r, got) ==
  IF got.n = 0 THEN [r EXCEPT !.p = Len(s) + 1]
  ELSE [p |-> r.p + got.n, st |-> got.st,
        read |-> IF got.c = INVALID_STD_CHAR THEN r.read ELSE Append(r.read, Changed(o, got.c))]
Read(cs, o, s) ==
  FoldLeft(LAMBDA r, unit : IF r.p > Len(s) THEN r ELSE Took(o, s, r, nextInput(cs, o, s, r.p, r.st)),
           [p |-> 1, st |-> startInput(FALSE), read |-> <<>>], s).read
Written(cs, o, text) ==
  LET add(w, put) == Put(w.out \o put.out, put.st)
  IN  FoldLeft(LAMBDA w, c : add(w, putChar(cs, o, c, w.st)), Put(<<>>, startOutput), text).out
genConvert(from, to, o, s) == Written(to, o, Read(from, o, s))
=============================================================================
