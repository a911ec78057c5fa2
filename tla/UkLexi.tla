------------------------------- MODULE UkLexi -------------------------------
(***************************************************************************)
(* The lexicon of the Unikey engine: the tables of Vietnamese vowel and    *)
(* consonant sequences (ukengine.cpp, vnlexi.h) and the pure functions     *)
(* that consult them: lookups, syllable validity and the place of the tone *)
(* mark.                                                                   *)
(*                                                                         *)
(* A letter (VnLexiName) is a string without case or tone, "ar" being a^,  *)
(* "ab" a(, "er" e^, "or" o^, "oh" o+, "uh" u+ and "dd" the barred d.  A   *)
(* VowelSeq or a ConSeq is named as in the enumerations of vnlexi.h,       *)
(* without its prefix: "uhoh" is vs_uhoh, "ngh" is cs_ngh.                 *)
(***************************************************************************)
EXTENDS Integers, Sequences, Functions

Nil == "nil"                               \* vs_nil, cs_nil

Vowels == {"a", "ar", "ab", "e", "er", "i", "o", "or", "oh", "u", "uh", "y"}
Consonants == {"b", "c", "d", "dd", "f", "g", "h", "j", "k", "l", "m", "n", "p",
               "q", "r", "s", "t", "v", "w", "x", "z"}
VnLetters == Vowels \cup Consonants        \* every vnSym but vnl_nonVnChar

\* StdVnRootChar: the letter without its roof, hook, bowl or bar.
Root(sym) == CASE sym \in {"ar", "ab"} -> "a" [] sym = "er" -> "e"
               [] sym \in {"or", "oh"} -> "o" [] sym = "uh" -> "u"
               [] sym = "dd" -> "d"        [] OTHER -> sym

-----------------------------------------------------------------------------
\* VSeqList.  The columns of the source are kept but sub[], which is by
\* definition the list of the prefixes of v.  -1 and "nil" mean none.
RHooksForRoofs(row) ==                                      \* mutant: columns swapped
  [v |-> row[1], len |-> Len(row[1]), complete |-> row[2] = 1, conSuffix |-> row[3] = 1,
   roofPos |-> row[6], withRoof |-> row[7], hookPos |-> row[4], withHook |-> row[5]]
R(row) ==
  [v |-> row[1], len |-> Len(row[1]), complete |-> row[2] = 1, conSuffix |-> row[3] = 1,
   roofPos |-> row[4], withRoof |-> row[5], hookPos |-> row[6], withHook |-> row[7]]
Table(rows) == [s \in DOMAIN rows |-> R(rows[s])]

VSeqList == Table(
  [ a |-> <<<<"a">>, 1, 1, -1, "ar", -1, "ab">>, ar |-> <<<<"ar">>, 1, 1, 0, "nil", -1, "ab">>,
    ab |-> <<<<"ab">>, 1, 1, -1, "ar", 0, "nil">>, e |-> <<<<"e">>, 1, 1, -1, "er", -1, "nil">>,
    er |-> <<<<"er">>, 1, 1, 0, "nil", -1, "nil">>, i |-> <<<<"i">>, 1, 1, -1, "nil", -1, "nil">>,
    o |-> <<<<"o">>, 1, 1, -1, "or", -1, "oh">>, or |-> <<<<"or">>, 1, 1, 0, "nil", -1, "oh">>,
    oh |-> <<<<"oh">>, 1, 1, -1, "or", 0, "nil">>, u |-> <<<<"u">>, 1, 1, -1, "nil", -1, "uh">>,
    uh |-> <<<<"uh">>, 1, 1, -1, "nil", 0, "nil">>, y |-> <<<<"y">>, 1, 1, -1, "nil", -1, "nil">>,
    ai |-> <<<<"a","i">>, 1, 0, -1, "nil", -1, "nil">>, ao |-> <<<<"a","o">>, 1, 0, -1, "nil", -1, "nil">>,
    au |-> <<<<"a","u">>, 1, 0, -1, "aru", -1, "nil">>, ay |-> <<<<"a","y">>, 1, 0, -1, "ary", -1, "nil">>,
    aru |-> <<<<"ar","u">>, 1, 0, 0, "nil", -1, "nil">>, ary |-> <<<<"ar","y">>, 1, 0, 0, "nil", -1, "nil">>,
    eo |-> <<<<"e","o">>, 1, 0, -1, "nil", -1, "nil">>, eu |-> <<<<"e","u">>, 0, 0, -1, "eru", -1, "nil">>,
    eru |-> <<<<"er","u">>, 1, 0, 0, "nil", -1, "nil">>, ia |-> <<<<"i","a">>, 1, 0, -1, "nil", -1, "nil">>,
    ie |-> <<<<"i","e">>, 0, 1, -1, "ier", -1, "nil">>, ier |-> <<<<"i","er">>, 1, 1, 1, "nil", -1, "nil">>,
    iu |-> <<<<"i","u">>, 1, 0, -1, "nil", -1, "nil">>, oa |-> <<<<"o","a">>, 1, 1, -1, "nil", -1, "oab">>,
    oab |-> <<<<"o","ab">>, 1, 1, -1, "nil", 1, "nil">>, oe |-> <<<<"o","e">>, 1, 1, -1, "nil", -1, "nil">>,
    oi |-> <<<<"o","i">>, 1, 0, -1, "ori", -1, "ohi">>, ori |-> <<<<"or","i">>, 1, 0, 0, "nil", -1, "ohi">>,
    ohi |-> <<<<"oh","i">>, 1, 0, -1, "ori", 0, "nil">>, ua |-> <<<<"u","a">>, 1, 1, -1, "uar", -1, "uha">>,
    uar |-> <<<<"u","ar">>, 1, 1, 1, "nil", -1, "nil">>, ue |-> <<<<"u","e">>, 0, 1, -1, "uer", -1, "nil">>,
    uer |-> <<<<"u","er">>, 1, 1, 1, "nil", -1, "nil">>, ui |-> <<<<"u","i">>, 1, 0, -1, "nil", -1, "uhi">>,
    uo |-> <<<<"u","o">>, 0, 1, -1, "uor", -1, "uho">>, uor |-> <<<<"u","or">>, 1, 1, 1, "nil", -1, "uoh">>,
    uoh |-> <<<<"u","oh">>, 1, 1, -1, "uor", 1, "uhoh">>, uu |-> <<<<"u","u">>, 0, 0, -1, "nil", -1, "uhu">>,
    uy |-> <<<<"u","y">>, 1, 1, -1, "nil", -1, "nil">>, uha |-> <<<<"uh","a">>, 1, 0, -1, "nil", 0, "nil">>,
    uhi |-> <<<<"uh","i">>, 1, 0, -1, "nil", 0, "nil">>, uho |-> <<<<"uh","o">>, 0, 1, -1, "nil", 0, "uhoh">>,
    uhoh |-> <<<<"uh","oh">>, 1, 1, -1, "nil", 0, "nil">>, uhu |-> <<<<"uh","u">>, 1, 0, -1, "nil", 0, "nil">>,
    ye |-> <<<<"y","e">>, 0, 1, -1, "yer", -1, "nil">>, yer |-> <<<<"y","er">>, 1, 1, 1, "nil", -1, "nil">>,
    ieu |-> <<<<"i","e","u">>, 0, 0, -1, "ieru", -1, "nil">>,
    ieru |-> <<<<"i","er","u">>, 1, 0, 1, "nil", -1, "nil">>,
    oai |-> <<<<"o","a","i">>, 1, 0, -1, "nil", -1, "nil">>,
    oay |-> <<<<"o","a","y">>, 1, 0, -1, "nil", -1, "nil">>,
    oeo |-> <<<<"o","e","o">>, 1, 0, -1, "nil", -1, "nil">>,
    uay |-> <<<<"u","a","y">>, 0, 0, -1, "uary", -1, "nil">>,
    uary |-> <<<<"u","ar","y">>, 1, 0, 1, "nil", -1, "nil">>,
    uoi |-> <<<<"u","o","i">>, 0, 0, -1, "uori", -1, "uhoi">>,
    uou |-> <<<<"u","o","u">>, 0, 0, -1, "nil", -1, "uhou">>,
    uori |-> <<<<"u","or","i">>, 1, 0, 1, "nil", -1, "uohi">>,
    uohi |-> <<<<"u","oh","i">>, 0, 0, -1, "uori", 1, "uhohi">>,
    uohu |-> <<<<"u","oh","u">>, 0, 0, -1, "nil", 1, "uhohu">>,
    uya |-> <<<<"u","y","a">>, 1, 0, -1, "nil", -1, "nil">>,
    uye |-> <<<<"u","y","e">>, 0, 1, -1, "uyer", -1, "nil">>,
    uyer |-> <<<<"u","y","er">>, 1, 1, 2, "nil", -1, "nil">>,
    uyu |-> <<<<"u","y","u">>, 1, 0, -1, "nil", -1, "nil">>,
    uhoi |-> <<<<"uh","o","i">>, 0, 0, -1, "nil", 0, "uhohi">>,
    uhou |-> <<<<"uh","o","u">>, 0, 0, -1, "nil", 0, "uhohu">>,
    uhohi |-> <<<<"uh","oh","i">>, 1, 0, -1, "nil", 0, "nil">>,
    uhohu |-> <<<<"uh","oh","u">>, 1, 0, -1, "nil", 0, "nil">>,
    yeu |-> <<<<"y","e","u">>, 0, 0, -1, "yeru", -1, "nil">>,
    yeru |-> <<<<"y","er","u">>, 1, 0, 1, "nil", -1, "nil">> ])

CSeqList ==
  [ b |-> <<"b">>, c |-> <<"c">>, ch |-> <<"c","h">>, d |-> <<"d">>, dd |-> <<"dd">>,
    dz |-> <<"d","z">>, g |-> <<"g">>, gh |-> <<"g","h">>, gi |-> <<"g","i">>,
    gin |-> <<"g","i","n">>, k |-> <<"k">>, kh |-> <<"k","h">>, l |-> <<"l">>, m |-> <<"m">>,
    n |-> <<"n">>, ng |-> <<"n","g">>, ngh |-> <<"n","g","h">>, nh |-> <<"n","h">>,
    p |-> <<"p">>, ph |-> <<"p","h">>, q |-> <<"q">>, qu |-> <<"q","u">>, r |-> <<"r">>,
    s |-> <<"s">>, t |-> <<"t">>, th |-> <<"t","h">>, tr |-> <<"t","r">>, v |-> <<"v">>,
    x |-> <<"x">> ]

\* ConSeqInfo.suffix: the consonant sequences that may end a syllable.
EndConsonants == {"c", "ch", "m", "n", "ng", "nh", "p", "t"}

\* VCPairList, by the set of suffixes each vowel sequence takes.
VCPairs(v) ==
  CASE v \in {"a", "e", "oa"} -> EndConsonants
    [] v \in {"ar", "ab", "o", "or", "u", "ie", "ier", "uo", "uho", "uhoh"} ->
                                            {"c", "m", "n", "ng", "p", "t"}
    [] v \in {"er", "i"}          -> {"c", "ch", "m", "n", "nh", "p", "t"}
    [] v = "oh"                   -> {"m", "n", "p", "t"}
    [] v \in {"uh", "oab", "uor"} -> {"c", "m", "n", "ng", "t"}
    [] v = "y"                    -> {"t"}
    [] v \in {"oe", "uye", "uyer"} -> {"n", "t"}
    [] v \in {"ua", "uar"}        -> {"n", "ng", "t"}
    [] v \in {"ue", "uer"}        -> {"c", "ch", "n", "nh"}
    [] v = "uy"                   -> {"c", "ch", "n", "nh", "p", "t"}
    [] v = "ye"                   -> {"m", "n", "ng", "p", "t"}
    [] v = "yer"                  -> {"m", "n", "ng", "t"}
    [] OTHER                      -> {}

VS == DOMAIN VSeqList
CS == DOMAIN CSeqList

\* What the engine takes for granted of the tables: it indexes them, and its
\* buffer, by what it looks up there, without a check.  Nothing is left open
\* here: the formula has no parameter.
ASSUME VowelsAssumption ==
  /\ VS \cap {Nil, "d", "dd"} = {} /\ Len(CSeqList["gin"]) = 3
  /\ \A s \in VS :
       LET r == VSeqList[s] IN
       /\ r.v \in Seq(Vowels) /\ r.len = Len(r.v) /\ r.len \in 1 .. 3
       /\ r.roofPos \in -1 .. r.len - 1 /\ r.hookPos \in -1 .. r.len - 1
       /\ \A t \in VS : VSeqList[t].v = r.v => t = s
       /\ \A j \in 1 .. r.len - 1 : \E t \in VS : VSeqList[t].v = SubSeq(r.v, 1, j)
  /\ \A c \in Vowels : \E t \in VS : VSeqList[t].v = <<c>>

-----------------------------------------------------------------------------
\* lookupVSeq and lookupCSeq: binary searches in the sorted copies of the
\* tables; letters is the sequence of the letters before the first
\* vnl_nonVnChar of the arguments.
VSeqOf == AntiFunction([s \in VS |-> VSeqList[s].v])
CSeqOf == AntiFunction(CSeqList)
Lookup(table, letters) == IF letters \in DOMAIN table THEN table[letters] ELSE Nil

lookupVSeq(letters) == Lookup(VSeqOf, letters)
lookupCSeq(letters) == Lookup(CSeqOf, letters)

\* VSeqList[v].sub[i-1]
Sub(v, i) == lookupVSeq(SubSeq(VSeqList[v].v, 1, i))

kVseqWithoutIE == {"e", "i", "y", "er", "eo", "eu", "eru", "ia", "ier", "ieu", "ieru"}   \* mutant
kVseq == {"e", "i", "y", "er", "eo", "eu", "eru", "ia", "ie", "ier", "ieu", "ieru"}

isValidCV(c, v) ==
  \/ c = Nil \/ v = Nil
  \/ /\ <<c, VSeqList[v].v[1]>> \notin {<<"gi", "i">>, <<"qu", "u">>}
     /\ c = "k" => v \in kVseq

isValidVC(v, c) ==
  \/ v = Nil \/ c = Nil
  \/ VSeqList[v].conSuffix /\ c \in EndConsonants /\ c \in VCPairs(v)

isValidCVC(c1, v, c2) ==
  IF v = Nil THEN c1 = Nil \/ c2 # Nil
  ELSE IF isValidVC(v, c2) THEN isValidCV(c1, v)
  ELSE \/ c1 = "qu" /\ v = "y" /\ c2 \in {"n", "nh"}      \* vc fails but cvc passes
       \/ c1 = "gi" /\ v \in {"e", "er"} /\ c2 \in {"n", "ng"}

\* The offset in the vowel sequence vs (0, 1 or 2) of the letter that bears
\* the tone.  terminated: no consonant follows the sequence.
TonePositionIn(info, vs, terminated, modernStyle) ==
  CASE info.len = 1 -> 0
    [] info.len > 1 /\ info.roofPos # -1 -> info.roofPos
    [] info.len > 1 /\ info.roofPos = -1 /\ info.hookPos # -1 ->
         IF vs \in {"uhoh", "uhohi", "uhohu"} THEN 1 ELSE info.hookPos
    [] info.len = 3 /\ info.roofPos = -1 /\ info.hookPos = -1 -> 1
    [] OTHER -> IF (modernStyle /\ vs \in {"oa", "oe", "uy"}) \/ ~terminated THEN 1 ELSE 0

\* Mutant: u+o+ bears the tone on its first hook.
toneOnFirstHook(vs, terminated, modernStyle) ==
  IF vs \in {"uhoh", "uhohi", "uhohu"} THEN 0
  ELSE TonePositionIn(VSeqList[vs], vs, terminated, modernStyle)
getTonePosition(vs, terminated, modernStyle) ==
  TonePositionIn(VSeqList[vs], vs, terminated, modernStyle)
=============================================================================
