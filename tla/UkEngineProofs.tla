--------------------------- MODULE UkEngineProofs ---------------------------
(***************************************************************************)
(* UkEngine implements UkBuffer: whatever the keys, the method and the     *)
(* options are, every call fills and empties the arrays of letters and of  *)
(* key strokes as UkBuffer says, so that what is proved there holds here.  *)
(*                                                                         *)
(* There is one lemma for every handler: what it makes of the engine is a  *)
(* growth by no letter or one (Grown), leaves the key to processAppend     *)
(* (Going), or has done with it (Outcome); with the key stroke recorded    *)
(* this gives the sizes of both arrays after a call (Result).              *)
(*                                                                         *)
(* And a backspace takes the last letter and no other.                     *)
(***************************************************************************)
EXTENDS UkEngine, SequenceTheorems, TLAPS

Q == INSTANCE QueueLemmas

-----------------------------------------------------------------------------
(* What the buffers hold. *)

Forms == {"nonVn", "empty", "c", "v", "cv", "vc", "cvc"}
WordFields == {"form", "c1", "v", "c2", "seq", "sym", "caps", "tone"}
IsWord(w) == DOMAIN w = WordFields /\ w.form \in Forms

\* A key stroke: its key resets nothing.
StrokeFields == {"key", "brk", "conv"}
IsStroke(s) ==
  /\ DOMAIN s = StrokeFields
  /\ s.brk = (getCharType(s.key) = "WordBreak") /\ getCharType(s.key) # "Reset"

\* A sequence of words or of key strokes.
IsItem(kind, x) == IF kind = "word" THEN IsWord(x) ELSE IsStroke(x)
Items(kind, b) == (\E S : b \in Seq(S)) /\ \A i \in 1 .. Len(b) : IsItem(kind, b[i])

EngineFields == {"buf", "keys", "single", "esc", "telexW", "changePos", "backs", "written", "out",
                 "restored", "ev", "ret", "then", "ctl"}
EngineOK(e) == DOMAIN e = EngineFields /\ Items("word", e.buf) /\ Items("stroke", e.keys)

\* f is e with k letters more, as far as the arrays and the key go.
Grown(e, f, k) ==
  /\ EngineOK(f) /\ f.keys = e.keys /\ f.ev = e.ev /\ f.then = e.then /\ f.ctl = e.ctl
  /\ Len(f.buf) = Len(e.buf) + k

-----------------------------------------------------------------------------
(* Sequences of words and of key strokes. *)

\* A sequence of items has a length and its indices, and only <<>> has length 0.
LEMMA ItemsLength ==
  ASSUME NEW kind, NEW b, Items(kind, b)
  PROVE  Len(b) \in Nat /\ DOMAIN b = 1 .. Len(b) /\ (b = <<>> <=> Len(b) = 0)
<1>1. PICK S : b \in Seq(S)
  BY DEF Items
<1>. QED  BY <1>1, LenProperties, EmptySeq

\* An item at the end of such a sequence makes one a place longer (++current, ++keyCurrent).
LEMMA ItemsAppend ==
  ASSUME NEW kind, NEW b, Items(kind, b), NEW w, IsItem(kind, w)
  PROVE  Items(kind, Append(b, w)) /\ Len(Append(b, w)) = Len(b) + 1 /\ Append(b, w)[Len(b) + 1] = w
<1>1. PICK S : b \in Seq(S)
  BY DEF Items
<1>. DEFINE T == S \cup {w}
<1>2. b \in Seq(T) /\ w \in T
  BY <1>1
<1>. HIDE DEF T
<1>3. Append(b, w) \in Seq(T) /\ Len(Append(b, w)) = Len(b) + 1 /\ Len(b) \in Nat
      /\ (\A i \in 1 .. Len(b) : Append(b, w)[i] = b[i]) /\ Append(b, w)[Len(b) + 1] = w
  BY <1>2, AppendProperties, LenProperties
<1>4. ASSUME NEW i \in 1 .. Len(Append(b, w))  PROVE IsItem(kind, Append(b, w)[i])
  <2>1. CASE i = Len(b) + 1
    BY <1>3, <2>1
  <2>2. CASE i # Len(b) + 1
    <3>1. i \in 1 .. Len(b)
      BY <1>3, <2>2
    <3>. QED  BY <1>3, <3>1 DEF Items
  <2>. QED  BY <2>1, <2>2
<1>. QED  BY <1>3, <1>4 DEF Items

\* A part of a buffer.
LEMMA ItemsPart ==
  ASSUME NEW kind, NEW b, Items(kind, b), NEW m \in 1 .. Len(b) + 1, NEW n \in m - 1 .. Len(b)
  PROVE  Items(kind, SubSeq(b, m, n)) /\ Len(SubSeq(b, m, n)) = n - m + 1
<1>1. PICK S : b \in Seq(S)
  BY DEF Items
<1>0. Len(b) \in Nat
  BY ItemsLength
<1>2. /\ SubSeq(b, m, n) \in Seq(S) /\ Len(SubSeq(b, m, n)) = n - m + 1
      /\ \A i \in 1 .. n - m + 1 : SubSeq(b, m, n)[i] = b[m + i - 1]
  BY <1>0, <1>1, SubSeqProperties
<1>3. \A i \in 1 .. n - m + 1 : m + i - 1 \in 1 .. Len(b)
  BY <1>0
<1>. QED  BY <1>2, <1>3 DEF Items

\* Without its last item it stays such a sequence, a place shorter (current--, keyCurrent--).
LEMMA ItemsFront ==
  ASSUME NEW kind, NEW b, Items(kind, b), b # <<>>
  PROVE  Items(kind, Front(b)) /\ Len(Front(b)) = Len(b) - 1
<1>1. 1 \in 1 .. Len(b) + 1 /\ Len(b) - 1 \in 1 - 1 .. Len(b) /\ (Len(b) - 1) - 1 + 1 = Len(b) - 1
  <2>. Len(b) \in Nat /\ Len(b) # 0
    BY ItemsLength
  <2>. QED  OBVIOUS
<1>2. Items(kind, SubSeq(b, 1, Len(b) - 1)) /\ Len(SubSeq(b, 1, Len(b) - 1)) = (Len(b) - 1) - 1 + 1
  BY <1>1, ItemsPart
<1>. QED  BY <1>1, <1>2 DEF Front

\* An entry is replaced.
LEMMA ItemsReplace ==
  ASSUME NEW kind, NEW b, Items(kind, b), NEW i, NEW w, i \in 1 .. Len(b) => IsItem(kind, w)
  PROVE  LET c == [b EXCEPT ![i] = w]
         IN  Items(kind, c) /\ Len(c) = Len(b)
<1>. DEFINE c == [b EXCEPT ![i] = w]
<1>1. PICK S : b \in Seq(S)
  BY DEF Items
<1>2. Len(b) \in Nat /\ DOMAIN b = 1 .. Len(b)
  BY ItemsLength
<1>3. \A j \in 1 .. Len(b) : c[j] = IF j = i THEN w ELSE b[j]
  BY <1>2
<1>4. c \in Seq(S \cup {w}) /\ Len(c) = Len(b)
  <2>1. b \in [1 .. Len(b) -> S]
    BY <1>1, LenProperties
  <2>2. c \in [1 .. Len(b) -> S \cup {w}]
    BY <2>1
  <2>. HIDE DEF c
  <2>. QED  BY <1>2, <2>2, SeqDef
<1>. HIDE DEF c
<1>5. ASSUME NEW j \in 1 .. Len(b)  PROVE IsItem(kind, c[j])
  BY <1>3 DEF Items
<1>6. QED  BY <1>4, <1>5 DEF Items, c

\* An entry is changed in one field.
Edited(b, i, f, x) == [b EXCEPT ![i] = [b[i] EXCEPT ![f] = x]]
\* A field of an entry is written: the words stay words, in the same number.
LEMMA BufEdit ==
  ASSUME NEW b, Items("word", b), NEW i, NEW f, NEW x, f = "form" => x \in Forms
  PROVE  Items("word", Edited(b, i, f, x)) /\ Len(Edited(b, i, f, x)) = Len(b)
<1>. DEFINE w == [b[i] EXCEPT ![f] = x]
<1>1. ASSUME i \in 1 .. Len(b)  PROVE IsWord(w)
  <2>1. IsWord(b[i])
    BY <1>1 DEF Items, IsItem
  <2>. QED  BY <2>1 DEF IsWord
<1>. HIDE DEF w
<1>2. LET c == [b EXCEPT ![i] = w] IN Items("word", c) /\ Len(c) = Len(b)
  <2>1. i \in 1 .. Len(b) => IsItem("word", w)
    BY <1>1 DEF IsItem
  <2>. QED  BY <2>1, ItemsReplace
<1>. QED  BY <1>2 DEF w, Edited

-----------------------------------------------------------------------------
(* Engines. *)

\* Both arrays of an engine have lengths, and are empty when those are 0.
LEMMA EngineLengths ==
  ASSUME NEW e, EngineOK(e)
  PROVE  /\ Len(e.buf) \in Nat /\ DOMAIN e.buf = 1 .. Len(e.buf) /\ (e.buf = <<>> <=> Len(e.buf) = 0)
         /\ Len(e.keys) \in Nat /\ DOMAIN e.keys = 1 .. Len(e.keys)
         /\ (e.keys = <<>> <=> Len(e.keys) = 0)
  BY ItemsLength DEF EngineOK

\* The last word.
LEMMA TopForm ==
  ASSUME NEW e, EngineOK(e), e.buf # <<>>
  PROVE  IsWord(Top(e)) /\ Top(e).form \in Forms
<1>1. Len(e.buf) \in 1 .. Len(e.buf)
  BY EngineLengths
<1>2. IsWord(e.buf[Len(e.buf)])
  BY <1>1 DEF EngineOK, Items, IsItem
<1>. QED  BY <1>2 DEF Top, IsWord

\* What Word makes is an entry of the given form.
LEMMA WordMade ==
  ASSUME NEW form \in Forms, NEW c1, NEW v, NEW c2, NEW seq, NEW s
  PROVE  IsWord(Word(form, c1, v, c2, seq, s)) /\ Word(form, c1, v, c2, seq, s).form = form
  BY DEF Word, IsWord, WordFields

\* Symbols that are no letters and breaks make entries too.
LEMMA NonVnMade ==
  ASSUME NEW s
  PROVE  IsWord(NonVn(s)) /\ IsWord(Break(s))
<1>1. "nonVn" \in Forms /\ "empty" \in Forms
  BY DEF Forms
<1>. QED  BY <1>1, WordMade DEF NonVn, Break

\* Steps of a handler follow each other.
LEMMA GrownTwice ==
  ASSUME NEW e, NEW f, NEW g, NEW k \in Int, NEW j \in Int, EngineOK(e), Grown(e, f, k), Grown(f, g, j)
  PROVE  Grown(e, g, k + j)
<1>1. Len(e.buf) \in Nat
  BY EngineLengths
<1>2. Len(f.buf) = Len(e.buf) + k /\ Len(g.buf) = Len(f.buf) + j
  BY DEF Grown
<1>3. \A a, b, c : a \in Nat /\ b = a + k /\ c = b + j => c = a + (k + j)
  OBVIOUS
<1>4. Len(g.buf) = Len(e.buf) + (k + j)
  BY <1>1, <1>2, <1>3, Zenon
<1>. QED  BY <1>4 DEF Grown

\* Changes that add no letter before k letters come add nothing to them.
LEMMA GrownAfter ==
  ASSUME NEW e, NEW f, NEW g, NEW k \in Int, EngineOK(e), Grown(e, f, 0), Grown(f, g, k)
  PROVE  Grown(e, g, k)
<1>1. Grown(e, g, 0 + k) /\ 0 + k = k
  BY GrownTwice
<1>. QED  BY <1>1

\* Nor do changes that come after them.
LEMMA GrownBefore ==
  ASSUME NEW e, NEW f, NEW g, NEW k \in Int, EngineOK(e), Grown(e, f, k), Grown(f, g, 0)
  PROVE  Grown(e, g, k)
<1>1. Grown(e, g, k + 0) /\ k + 0 = k
  BY GrownTwice
<1>. QED  BY <1>1

\* An engine that is left alone grew by nothing.
LEMMA GrownSelf ==
  ASSUME NEW e, EngineOK(e)
  PROVE  Grown(e, e, 0)
  BY EngineLengths DEF Grown

\* What a growth keeps and what it counts, as facts of their own.
LEMMA GrownOK ==
  ASSUME NEW e, NEW f, NEW k, Grown(e, f, k)
  PROVE  EngineOK(f) /\ f.keys = e.keys /\ f.ev = e.ev /\ f.then = e.then /\ f.ctl = e.ctl /\ Len(f.buf) = Len(e.buf) + k
  BY DEF Grown

\* What a call keeps in other fields changes nothing.
LEMMA GrownNone ==
  ASSUME NEW e, EngineOK(e), NEW f, DOMAIN f = EngineFields, f.buf = e.buf, f.keys = e.keys,
         f.ev = e.ev, f.then = e.then, f.ctl = e.ctl
  PROVE  Grown(e, f, 0)
<1>1. Len(e.buf) \in Nat
  BY EngineLengths
<1>. QED  BY <1>1 DEF Grown, EngineOK

\* A value returned touches no array.
LEMMA RetGrows ==
  ASSUME NEW e, EngineOK(e), NEW r
  PROVE  Grown(e, Ret(e, r), 0) /\ Ret(e, r).ret = r
<1>1. DOMAIN e = EngineFields
  BY DEF EngineOK
<1>2. LET f == Ret(e, r) IN DOMAIN f = EngineFields /\ f.buf = e.buf /\ f.keys = e.keys /\ f.ev = e.ev
                            /\ f.then = e.then /\ f.ctl = e.ctl /\ f.ret = r
  BY <1>1 DEF Ret, EngineFields
<1>. QED  BY <1>2, GrownNone

\* Noting where the change begins touches no array.
LEMMA MarkChangeGrows ==
  ASSUME NEW e, EngineOK(e), NEW pos
  PROVE  Grown(e, markChange(e, pos), 0) /\ markChange(e, pos).ret = e.ret /\ markChange(e, pos).buf = e.buf
<1>1. DOMAIN e = EngineFields
  BY DEF EngineOK
<1>2. LET f == markChange(e, pos) IN DOMAIN f = EngineFields /\ f.buf = e.buf /\ f.keys = e.keys
                                     /\ f.ev = e.ev /\ f.then = e.then /\ f.ctl = e.ctl /\ f.ret = e.ret
  BY <1>1 DEF markChange, EngineFields
<1>. QED  BY <1>2, GrownNone

\* An engine with another buffer, of k letters more.
LEMMA BufGrows ==
  ASSUME NEW e, EngineOK(e), NEW b, Items("word", b), NEW k, Len(b) = Len(e.buf) + k
  PROVE  LET f == [e EXCEPT !.buf = b] IN Grown(e, f, k) /\ f.buf = b /\ f.ret = e.ret
<1>. DEFINE f == [e EXCEPT !.buf = b]
<1>1. DOMAIN e = EngineFields
  BY DEF EngineOK
<1>2. DOMAIN f = EngineFields /\ f.buf = b /\ f.keys = e.keys /\ f.ev = e.ev /\ f.then = e.then /\ f.ctl = e.ctl
      /\ f.ret = e.ret
  BY <1>1 DEF EngineFields
<1>. HIDE DEF f
<1>3. Grown(e, f, k)
  BY <1>2 DEF Grown, EngineOK
<1>. QED  BY <1>2, <1>3 DEF f

WithEdit(e, i, field, x) == [e EXCEPT !.buf[i][field] = x]
\* A field of an entry that is written adds and removes nothing.
LEMMA EditGrows ==
  ASSUME NEW e, EngineOK(e), NEW i, NEW field, NEW x, field = "form" => x \in Forms
  PROVE  Grown(e, WithEdit(e, i, field, x), 0) /\ WithEdit(e, i, field, x).ret = e.ret
<1>. DEFINE b == Edited(e.buf, i, field, x)
<1>1. Items("word", b) /\ Len(b) = Len(e.buf)
  <2>1. Items("word", e.buf)
    BY DEF EngineOK
  <2>. QED  BY <2>1, BufEdit
<1>2. Len(b) = Len(e.buf) + 0
  BY <1>1, EngineLengths
<1>. HIDE DEF b
<1>3. LET f == [e EXCEPT !.buf = b] IN Grown(e, f, 0) /\ f.ret = e.ret
  BY <1>1, <1>2, BufGrows
<1>. QED  BY <1>3 DEF b, Edited, WithEdit

\* An entry appended is one letter more and is the last.
LEMMA PushGrows ==
  ASSUME NEW e, EngineOK(e), NEW w, IsWord(w)
  PROVE  Grown(e, Push(e, w), 1) /\ Top(Push(e, w)) = w /\ Push(e, w).ret = e.ret
<1>1. IsItem("word", w) /\ Items("word", e.buf)
  BY DEF IsItem, EngineOK
<1>2. Items("word", Append(e.buf, w)) /\ Len(Append(e.buf, w)) = Len(e.buf) + 1
      /\ Append(e.buf, w)[Len(e.buf) + 1] = w
  BY <1>1, ItemsAppend
<1>3. Grown(e, Push(e, w), 1) /\ Push(e, w).buf = Append(e.buf, w) /\ Push(e, w).ret = e.ret
  BY <1>2, BufGrows DEF Push
<1>. QED  BY <1>2, <1>3 DEF Top

\* The last entry removed is one letter less.
LEMMA PopGrows ==
  ASSUME NEW e, EngineOK(e), e.buf # <<>>
  PROVE  Grown(e, Pop(e), -1) /\ Pop(e).ret = e.ret
<1>1. Items("word", Front(e.buf)) /\ Len(Front(e.buf)) = Len(e.buf) + (-1)
  <2>1. Items("word", Front(e.buf)) /\ Len(Front(e.buf)) = Len(e.buf) - 1
    BY ItemsFront DEF EngineOK
  <2>. QED  BY <2>1, EngineLengths
<1>. QED  BY <1>1, BufGrows DEF Pop

-----------------------------------------------------------------------------
(* Marks and tones: no letter comes or goes. *)

\* A tone that is put on a letter adds nothing.
LEMMA SetToneGrows ==
  ASSUME NEW e, EngineOK(e), NEW pos, NEW tone
  PROVE  Grown(e, SetTone(e, pos, tone), 0)
<1>1. Grown(e, markChange(e, pos), 0) /\ EngineOK(markChange(e, pos))
  BY MarkChangeGrows, GrownOK
<1>2. "tone" # "form"
  OBVIOUS
<1>3. Grown(markChange(e, pos), WithEdit(markChange(e, pos), pos, "tone", tone), 0)
  BY <1>1, <1>2, EditGrows
<1>4. SetTone(e, pos, tone) = WithEdit(markChange(e, pos), pos, "tone", tone)
  BY DEF SetTone, WithEdit
<1>. QED  BY <1>1, <1>3, <1>4, GrownAfter

\* A tone that moves adds nothing.
LEMMA MoveToneGrows ==
  ASSUME NEW e, EngineOK(e), NEW from, NEW to
  PROVE  Grown(e, MoveTone(e, from, to), 0)
<1>1. Grown(e, SetTone(e, to, e.buf[from].tone), 0) /\ EngineOK(SetTone(e, to, e.buf[from].tone))
  BY SetToneGrows, GrownOK
<1>2. LET s == SetTone(e, to, e.buf[from].tone) IN Grown(s, SetTone(s, from, 0), 0)
  BY <1>1, SetToneGrows
<1>3. Grown(e, SetTone(SetTone(e, to, e.buf[from].tone), from, 0), 0)
  BY <1>1, <1>2, GrownAfter
<1>. QED  BY <1>3, GrownSelf DEF MoveTone

\* The vowel sequence noted at a letter adds nothing.
LEMMA SequencedGrows ==
  ASSUME NEW e, EngineOK(e), NEW first, NEW vs, NEW i
  PROVE  Grown(e, Sequenced(e, first, vs, i), 0) /\ EngineOK(Sequenced(e, first, vs, i))
<1>1. Grown(e, WithEdit(e, first + i, "seq", Sub(vs, i + 1)), 0)
  BY EditGrows
<1>2. Sequenced(e, first, vs, i) = WithEdit(e, first + i, "seq", Sub(vs, i + 1))
      \/ Sequenced(e, first, vs, i) = e
  BY DEF Sequenced, WithEdit
<1>. QED  BY <1>1, <1>2, GrownSelf, GrownOK

\* The vowel sequences noted along a word add nothing.
LEMMA RetypeGrows ==
  ASSUME NEW e, EngineOK(e), NEW first, NEW vs
  PROVE  Grown(e, Retype(e, first, vs), 0) /\ EngineOK(Retype(e, first, vs))
<1>. DEFINE a == Sequenced(e, first, vs, 0)
            b == Sequenced(a, first, vs, 1)
            c == Sequenced(b, first, vs, 2)
<1>1. Grown(e, a, 0) /\ EngineOK(a)
  BY SequencedGrows
<1>. HIDE DEF a
<1>2. Grown(a, b, 0) /\ EngineOK(b)
  BY <1>1, SequencedGrows
<1>. HIDE DEF b
<1>3. Grown(b, c, 0)
  BY <1>2, SequencedGrows
<1>. HIDE DEF c
<1>4. Grown(e, c, 0)
  BY <1>1, <1>2, <1>3, GrownAfter
<1>. QED  BY <1>4, GrownOK DEF a, b, c, Retype

\* A letter of a vowel sequence that is rewritten adds nothing.
LEMMA LetteredGrows ==
  ASSUME NEW e, EngineOK(e), NEW first, NEW to, NEW i
  PROVE  Grown(e, Lettered(e, first, to, i), 0) /\ EngineOK(Lettered(e, first, to, i))
<1>1. Grown(e, WithEdit(e, first + i, "sym", to[i]), 0)
  BY EditGrows
<1>2. Lettered(e, first, to, i) = WithEdit(e, first + i, "sym", to[i])
      \/ Lettered(e, first, to, i) = e
  BY DEF Lettered, WithEdit
<1>. QED  BY <1>1, <1>2, GrownSelf, GrownOK

\* Vowels that are marked or unmarked keep their number.
LEMMA RewriteAtGrows ==
  ASSUME NEW e, EngineOK(e), NEW first, NEW to, NEW vs
  PROVE  Grown(e, RewriteAt(e, first, to, vs), 0)
<1>. DEFINE m == markChange(e, first + Min(DOMAIN to))
            a == Lettered(m, first, to, 0)
            b == Lettered(a, first, to, 1)
            c == Lettered(b, first, to, 2)
            d == Retype(c, first, vs)
            f == MoveTone(d, TonePos(e), first + TonePosition(e, vs, Terminated(e)))
<1>1. Grown(e, m, 0) /\ EngineOK(m)
  BY MarkChangeGrows, GrownOK
<1>. HIDE DEF m
<1>2. Grown(m, a, 0) /\ EngineOK(a)
  BY <1>1, LetteredGrows
<1>. HIDE DEF a
<1>3. Grown(a, b, 0) /\ EngineOK(b)
  BY <1>2, LetteredGrows
<1>. HIDE DEF b
<1>4. Grown(b, c, 0) /\ EngineOK(c)
  BY <1>3, LetteredGrows
<1>. HIDE DEF c
<1>5. Grown(c, d, 0) /\ EngineOK(d)
  BY <1>4, RetypeGrows
<1>. HIDE DEF d
<1>6. Grown(d, f, 0)
  BY <1>5, MoveToneGrows
<1>. HIDE DEF f
<1>7. Grown(e, b, 0)
  BY <1>1, <1>2, <1>3, GrownAfter
<1>8. Grown(e, f, 0)
  BY <1>4, <1>5, <1>6, <1>7, GrownAfter
<1>. QED  BY <1>8 DEF a, b, c, d, f, m, RewriteAt

-----------------------------------------------------------------------------
(* Letters appended. *)

\* Nor does what follows an appended symbol add any.
LEMMA AppendedGrows ==
  ASSUME NEW e, EngineOK(e)
  PROVE  Grown(e, Appended(e), 0)
<1>1. LET m == markChange(e, Len(e.buf)) IN Grown(e, m, 0) /\ EngineOK(m)
  BY MarkChangeGrows, GrownOK
<1>2. Grown(e, Ret(markChange(e, Len(e.buf)), 1), 0)
  BY <1>1, RetGrows, GrownAfter
<1>3. Grown(e, Ret(e, 0), 0)
  BY RetGrows
<1>. QED  BY <1>2, <1>3 DEF Appended

\* A pushed word, and whatever is done to the marks after it.
LEMMA PushedGrows ==
  ASSUME NEW e, EngineOK(e), NEW w, IsWord(w)
  PROVE  /\ EngineOK(Push(e, w)) /\ Grown(e, Push(e, w), 1)
         /\ \A f : Grown(Push(e, w), f, 0) => Grown(e, f, 1)
         /\ Grown(e, Appended(Push(e, w)), 1)
         /\ \A r : Grown(e, Ret(Push(e, w), r), 1)
         /\ \A p, t, r : Grown(e, Ret(SetTone(Push(e, w), p, t), r), 1)
<1>. DEFINE u == Push(e, w)
<1>1. EngineOK(u) /\ Grown(e, u, 1)
  BY PushGrows, GrownOK
<1>. HIDE DEF u
<1>2. ASSUME NEW f, Grown(u, f, 0)  PROVE Grown(e, f, 1)
  BY <1>1, <1>2, GrownBefore
<1>3. Grown(e, Appended(u), 1) /\ \A r : Grown(e, Ret(u, r), 1)
  BY <1>1, <1>2, AppendedGrows, RetGrows
<1>4. ASSUME NEW p, NEW t, NEW r  PROVE Grown(e, Ret(SetTone(u, p, t), r), 1)
  <2>1. Grown(u, SetTone(u, p, t), 0) /\ EngineOK(SetTone(u, p, t))
    BY <1>1, SetToneGrows, GrownOK
  <2>2. Grown(u, Ret(SetTone(u, p, t), r), 0)
    BY <1>1, <2>1, RetGrows, GrownAfter
  <2>. QED  BY <1>2, <2>2
<1>. QED  BY <1>1, <1>2, <1>3, <1>4 DEF u

\* A symbol that is no letter of Vietnamese is one entry more.
LEMMA AppendNonVnGrows ==
  ASSUME NEW e, EngineOK(e)
  PROVE  Grown(e, appendNonVn(e), 1)
  BY NonVnMade, PushedGrows DEF appendNonVn

\* A vowel that continues a sequence is one more, whatever the tone does.
LEMMA VowelJoinsGrows ==
  ASSUME NEW e, EngineOK(e), e.buf # <<>>, NEW newVs, NEW start, NEW oldPos
  PROVE  Grown(e, VowelJoins(e, newVs, start, oldPos), 1)
<1>. DEFINE w == Word(Top(e).form, IF Top(e).form = "cv" THEN Top(e).c1 + 1 ELSE -1, 0, -1,
                      newVs, Symbol(e.ev.sym.sym, e.ev.sym.caps, 0))
            u == Push(e, w)
            newPos == start + TonePosition(e, newVs, TRUE)
            tone == e.buf[oldPos].tone
            v == Ret(SetTone(u, newPos, e.ev.sym.tone), 1)
            s == SetTone(u, oldPos, 0)
            t == Ret(SetTone(s, newPos, tone), 1)
<1>1. IsWord(w)
  <2>1. Top(e).form \in Forms
    BY TopForm
  <2>. QED  BY <2>1, WordMade
<1>. HIDE DEF w
<1>2. EngineOK(u) /\ (\A f : Grown(u, f, 0) => Grown(e, f, 1)) /\ Grown(e, Appended(u), 1) /\ Grown(e, v, 1)
  BY <1>1, PushedGrows
<1>3. Grown(e, t, 1)
  <2>. HIDE DEF u, newPos, tone
  <2>1. Grown(u, s, 0) /\ EngineOK(s)
    BY <1>2, SetToneGrows, GrownOK
  <2>. HIDE DEF s
  <2>2. Grown(s, SetTone(s, newPos, tone), 0) /\ EngineOK(SetTone(s, newPos, tone))
    BY <2>1, SetToneGrows, GrownOK
  <2>3. Grown(SetTone(s, newPos, tone), t, 0)
    BY <2>2, RetGrows
  <2>. HIDE DEF t
  <2>4. Grown(s, t, 0)
    BY <2>1, <2>2, <2>3, GrownAfter
  <2>5. Grown(u, t, 0)
    BY <1>2, <2>1, <2>4, GrownAfter
  <2>. QED  BY <1>2, <2>5
<1>4. Grown(e, appendNonVn(e), 1)
  BY AppendNonVnGrows
<1>5. VowelJoins(e, newVs, start, oldPos) \in {appendNonVn(e), v, t, Appended(u)}
  BY DEF VowelJoins, u, w
<1>. HIDE DEF u, v, t
<1>. QED  BY <1>2, <1>3, <1>4, <1>5

\* A vowel after a vowel is one entry more, in every case of appendVowel's.
LEMMA AppendVowelToVowelGrows ==
  ASSUME NEW e, EngineOK(e), e.buf # <<>>
  PROVE  Grown(e, appendVowelToVowel(e), 1)
  BY VowelJoinsGrows DEF appendVowelToVowel

\* A vowel that begins its sequence is one entry more.
LEMMA VowelAloneGrows ==
  ASSUME NEW e, EngineOK(e), NEW v
  PROVE  Grown(e, VowelAlone(e, v), 1)
<1>. DEFINE first == Word("v", -1, 0, -1, v, e.ev.sym)
            w == Word("cv", 1, 0, -1, v, e.ev.sym)
            toned == [w EXCEPT !.tone = IF w.tone = 0 THEN Top(e).tone ELSE w.tone]
            t == Ret(SetTone(Push(e, toned), Len(e.buf), 0), 1)
<1>1. IsWord(first) /\ IsWord(w)
  BY WordMade DEF Forms
<1>. HIDE DEF first, w
<1>2. IsWord(toned)
  BY <1>1 DEF IsWord
<1>. HIDE DEF toned
<1>3. Grown(e, Appended(Push(e, first)), 1) /\ Grown(e, Appended(Push(e, w)), 1) /\ Grown(e, t, 1)
  BY <1>1, <1>2, PushedGrows
<1>4. Grown(e, appendNonVn(e), 1)
  BY AppendNonVnGrows
<1>. HIDE DEF t
<1>5. VowelAlone(e, v) \in {Appended(Push(e, first)), appendNonVn(e), t, Appended(Push(e, w))}
  BY DEF VowelAlone, first, w, toned, t
<1>. QED  BY <1>3, <1>4, <1>5

\* appendVowel adds one entry.
LEMMA AppendVowelGrows ==
  ASSUME NEW e, EngineOK(e)
  PROVE  Grown(e, appendVowel(e), 1)
<1>1. CASE ~AtWordBeginning(e.buf) /\ Top(e).form \in {"v", "cv"}
  <2>1. e.buf # <<>>
    BY <1>1 DEF AtWordBeginning
  <2>. QED  BY <1>1, <2>1, AppendVowelToVowelGrows DEF appendVowel
<1>2. CASE ~(~AtWordBeginning(e.buf) /\ Top(e).form \in {"v", "cv"})
  BY <1>2, VowelAloneGrows DEF appendVowel
<1>. QED  BY <1>1, <1>2

\* u+o and uo+ become u+o+ when a consonant w is pushed after them.
Hooked(e, w) ==
  LET n == Len(e.buf)
      pushed == Push(e, w)
  IN  CASE Top(e).seq = "uho" -> [markChange(pushed, n) EXCEPT !.buf[n].sym = "oh", !.buf[n].seq = "uhoh"]
        [] Top(e).seq = "uoh" -> [markChange(pushed, n - 1) EXCEPT
                                    !.buf[n-1].sym = "uh", !.buf[n-1].seq = "uh", !.buf[n].seq = "uhoh"]
        [] OTHER -> pushed

\* A consonant that hooks the u of u-o-horn before it is one entry more.
LEMMA HookedGrows ==
  ASSUME NEW e, EngineOK(e), NEW w, IsWord(w)
  PROVE  Grown(e, Hooked(e, w), 1)
<1>. DEFINE n == Len(e.buf)
            u == Push(e, w)
            m == markChange(u, n)
            a == WithEdit(m, n, "sym", "oh")
            b == WithEdit(a, n, "seq", "uhoh")
            k == markChange(u, n - 1)
            x == WithEdit(k, n - 1, "sym", "uh")
            y == WithEdit(x, n - 1, "seq", "uh")
            z == WithEdit(y, n, "seq", "uhoh")
<1>1. EngineOK(u) /\ Grown(e, u, 1) /\ \A f : Grown(u, f, 0) => Grown(e, f, 1)
  BY PushedGrows
<1>. HIDE DEF u, n
<1>2. Grown(u, m, 0) /\ EngineOK(m) /\ Grown(u, k, 0) /\ EngineOK(k)
  BY <1>1, MarkChangeGrows, GrownOK
<1>. HIDE DEF m, k
<1>3. Grown(u, b, 0)
  <2>1. Grown(m, a, 0) /\ EngineOK(a)
    BY <1>2, EditGrows, GrownOK
  <2>. HIDE DEF a
  <2>2. Grown(a, b, 0)
    BY <2>1, EditGrows
  <2>. HIDE DEF b
  <2>. QED  BY <1>1, <1>2, <2>1, <2>2, GrownAfter
<1>4. Grown(u, z, 0)
  <2>1. Grown(k, x, 0) /\ EngineOK(x)
    BY <1>2, EditGrows, GrownOK
  <2>. HIDE DEF x
  <2>2. Grown(x, y, 0) /\ EngineOK(y)
    BY <2>1, EditGrows, GrownOK
  <2>. HIDE DEF y
  <2>3. Grown(y, z, 0)
    BY <2>2, EditGrows
  <2>. HIDE DEF z
  <2>4. Grown(u, x, 0)
    BY <1>1, <1>2, <2>1, GrownAfter
  <2>. QED  BY <1>1, <2>2, <2>3, <2>4, GrownAfter
<1>5. b = [m EXCEPT !.buf[n].sym = "oh", !.buf[n].seq = "uhoh"]
  BY DEF a, b, WithEdit
<1>6. z = [k EXCEPT !.buf[n-1].sym = "uh", !.buf[n-1].seq = "uh", !.buf[n].seq = "uhoh"]
  BY DEF x, y, z, WithEdit
<1>. HIDE DEF b, z
<1>7. Hooked(e, w) \in {b, z, u}
  BY <1>5, <1>6 DEF Hooked, m, k, u, n
<1>. QED  BY <1>1, <1>3, <1>4, <1>7

\* A consonant that ends a syllable is one entry more, whatever the tone does.
LEMMA ConsonantAfterVowelGrows ==
  ASSUME NEW e, EngineOK(e), NEW newVs, NEW newCs, NEW oldPos, NEW newPos
  PROVE  Grown(e, ConsonantAfterVowel(e, newVs, newCs, oldPos, newPos), 1)
<1>. DEFINE w == IF Top(e).form = "v" THEN Word("vc", -1, 1, 0, newCs, e.ev.sym)
                 ELSE Word("cvc", Top(e).c1 + 1, 1, 0, newCs, e.ev.sym)
            h == Hooked(e, w)
            r == IF Top(e).seq # newVs \/ (e.buf[oldPos].tone # 0 /\ oldPos # newPos) THEN 1 ELSE 0
            t == Ret(MoveTone(h, oldPos, newPos), r)
<1>1. IsWord(w)
  BY WordMade DEF Forms
<1>2. Grown(e, Ret(Push(e, NonVn(e.ev.sym)), 0), 1)
  BY NonVnMade, PushedGrows
<1>. HIDE DEF w, r
<1>3. Grown(e, h, 1) /\ EngineOK(h)
  BY <1>1, HookedGrows, GrownOK
<1>. HIDE DEF h
<1>4. Grown(h, MoveTone(h, oldPos, newPos), 0) /\ EngineOK(MoveTone(h, oldPos, newPos))
  BY <1>3, MoveToneGrows, GrownOK
<1>5. Grown(h, t, 0)
  BY <1>3, <1>4, RetGrows, GrownAfter
<1>. HIDE DEF t
<1>6. Grown(e, t, 1)
  BY <1>3, <1>5, GrownBefore
<1>7. ConsonantAfterVowel(e, newVs, newCs, oldPos, newPos) \in {Ret(Push(e, NonVn(e.ev.sym)), 0), t}
  BY DEF ConsonantAfterVowel, Hooked, h, w, r, t
<1>. QED  BY <1>2, <1>6, <1>7

\* A consonant after a vowel is one entry more.
LEMMA AppendConsonnantToVowelGrows ==
  ASSUME NEW e, EngineOK(e)
  PROVE  Grown(e, appendConsonnantToVowel(e), 1)
  BY ConsonantAfterVowelGrows DEF appendConsonnantToVowel

\* A consonant after a consonant is one entry more.
LEMMA ConsonantAfterConsonantGrows ==
  ASSUME NEW e, EngineOK(e), NEW newCs
  PROVE  Grown(e, ConsonantAfterConsonant(e, newCs), 1)
<1>. DEFINE n == Len(e.buf)
            a == Word("c", 0, -1, -1, newCs, e.ev.sym)
            b == Word(Top(e).form, IF Top(e).form = "cvc" THEN Top(e).c1 + 1 ELSE -1, Top(e).v + 1, 0, newCs, e.ev.sym)
            c == NonVn(e.ev.sym)
<1>1. IsWord(a) /\ IsWord(c) /\ (Top(e).form \in {"vc", "cvc"} => IsWord(b))
  BY WordMade, NonVnMade DEF Forms
<1>. HIDE DEF a, b, c
<1>. DEFINE x == CASE newCs # Nil /\ Top(e).form = "c" -> a
                   [] /\ newCs # Nil /\ Top(e).form \in {"vc", "cvc"}
                      /\ isValidCVC(C1(e, n), e.buf[n - Top(e).v].seq, newCs) -> b
                   [] OTHER -> c
<1>2. IsWord(x)
  BY <1>1
<1>3. ConsonantAfterConsonant(e, newCs) = Ret(Push(e, x), 0)
  BY DEF ConsonantAfterConsonant, a, b, c
<1>. HIDE DEF x
<1>. QED  BY <1>2, <1>3, PushedGrows

\* appendConsonnant adds one entry.
LEMMA AppendConsonnantGrows ==
  ASSUME NEW e, EngineOK(e)
  PROVE  Grown(e, appendConsonnant(e), 1)
<1>. DEFINE a == Ret(Push(e, Word("c", 0, -1, -1, lookupCSeq(<<e.ev.sym.sym>>), e.ev.sym)), 0)
            b == Ret(Push(e, NonVn(e.ev.sym)), 0)
            c == appendConsonnantToVowel(e)
            d == ConsonantAfterConsonant(e, CSeqAfter(e, Top(e).seq, e.ev.sym))
<1>1. Grown(e, a, 1) /\ Grown(e, b, 1)
  <2>1. IsWord(Word("c", 0, -1, -1, lookupCSeq(<<e.ev.sym.sym>>), e.ev.sym))
    BY WordMade DEF Forms
  <2>. QED  BY <2>1, NonVnMade, PushedGrows
<1>2. Grown(e, c, 1) /\ Grown(e, d, 1)
  BY AppendConsonnantToVowelGrows, ConsonantAfterConsonantGrows
<1>. HIDE DEF a, b, c, d
<1>3. ~AtWordBeginning(e.buf) => Top(e).form \in {"nonVn", "v", "cv", "c", "vc", "cvc"}
  <2>1. ~AtWordBeginning(e.buf) => Top(e).form \in Forms /\ Top(e).form # "empty"
    BY TopForm DEF AtWordBeginning, Top
  <2>. QED  BY <2>1 DEF Forms
<1>4. appendConsonnant(e) \in {a, b, c, d}
  BY <1>3 DEF appendConsonnant, a, b, c, d
<1>. QED  BY <1>1, <1>2, <1>4

\* Any key but a word break and a control code is one letter more.
LEMMA AppendSymbolGrows ==
  ASSUME NEW e, EngineOK(e), e.ev.ch \in {"NonVn", "Vn"}
  PROVE  Grown(e, appendSymbol(e), 1)
<1>1. Grown(e, Ret(Push(e, NonVn(e.ev.sym)), 0), 1)
  BY NonVnMade, PushedGrows
<1>2. Grown(e, appendVowel(e), 1) /\ Grown(e, appendConsonnant(e), 1)
  BY AppendVowelGrows, AppendConsonnantGrows
<1>3. appendSymbol(e) \in {Ret(Push(e, NonVn(e.ev.sym)), 0), appendVowel(e), appendConsonnant(e)}
  BY DEF appendSymbol
<1>. QED  BY <1>1, <1>2, <1>3

-----------------------------------------------------------------------------
(* Keys and their events. *)

EventTypes == ToneEvents \cup RoofEvents \cup HookEvents
                \cup {"Dd", "telex_w", "EscChar", "MapChar", "Normal"}

\* The event of a key that is no control code.
EventOK(ev) ==
  /\ DOMAIN ev = {"type", "ch", "key", "sym", "tone"}
  /\ ev.type \in EventTypes /\ ev.ch \in {"NonVn", "Vn", "WordBreak"}
  /\ ev.type = "MapChar" => ev.ch = "Vn"
  /\ getCharType(ev.key) # "Reset"

\* A character is of one of four kinds, and only RET resets.
LEMMA CharTypes ==
  ASSUME NEW k
  PROVE  /\ getCharType(k) \in {"Reset", "NonVn", "Vn", "WordBreak"}
         /\ getCharType(k) = "Reset" => k = "RET"
<1>1. CASE k = "RET"
  <2>1. k \notin {"j", "J", "f", "F", "w", "W"}
    BY <1>1
  <2>. QED  BY <1>1, <2>1 DEF getCharType
<1>2. CASE k # "RET"
  BY <1>2 DEF getCharType
<1>. QED  BY <1>1, <1>2

\* The event of a character that is typed as text says of what kind it is.
LEMMA TextEvent ==
  ASSUME NEW k
  PROVE  LET ev == keyCodeToSymbol(k)
         IN  /\ DOMAIN ev = {"type", "ch", "key", "sym", "tone"}
             /\ ev.type = "Normal" /\ ev.ch = getCharType(k) /\ ev.key = k
             /\ getCharType(k) # "Reset" => EventOK(ev)
<1>. DEFINE ev == keyCodeToSymbol(k)
<1>1. /\ DOMAIN ev = {"type", "ch", "key", "sym", "tone"}
      /\ ev.type = "Normal" /\ ev.ch = getCharType(k) /\ ev.key = k
  BY DEF keyCodeToSymbol
<1>. HIDE DEF ev
<1>2. getCharType(k) # "Reset" => EventOK(ev)
  BY <1>1, CharTypes DEF EventOK, EventTypes
<1>. QED  BY <1>1, <1>2 DEF ev

\* In every method a key means an event, and a control code nothing.
LEMMA EventMade ==
  ASSUME NEW m \in Methods, NEW k
  PROVE  LET ev == keyCodeToEvent(m, k)
         IN  /\ getCharType(k) # "Reset" => EventOK(ev)
             /\ getCharType(k) = "Reset" => ev.type = "Normal" /\ ev.ch = "Reset"
<1>. DEFINE text == keyCodeToSymbol(k)
            type == Event(m, k)
            ev == Meaning(text, type)
<1>1. type \in UkEvLabelList \cup {"Normal"}
  BY MethodsAssumption DEF Event
<1>2. k = "RET" => type = "Normal"
  <2>1. "RET" \notin Upper
    BY DEF Upper, AZLexiUpper
  <2>. QED  BY <2>1, MethodsAssumption DEF Event
<1>3. /\ DOMAIN text = {"type", "ch", "key", "sym", "tone"}
      /\ text.type = "Normal" /\ text.ch = getCharType(k) /\ text.key = k
  BY TextEvent
<1>4. "Normal" \notin ToneEvents /\ "Normal" \notin DOMAIN MapChars
  BY DEF ToneEvents, MapChars, MapCharRows
<1>. HIDE DEF text, type
<1>5. ASSUME getCharType(k) # "Reset"  PROVE EventOK(ev)
  <2>1. CASE type \in ToneEvents
    <3>00. type \notin DOMAIN MapChars
      BY <2>1 DEF ToneEvents, MapChars, MapCharRows
    <3>0. ev = [text EXCEPT !.type = type, !.tone = ToneOf(type)]
      BY <2>1, <3>00 DEF Meaning
    <3>. HIDE DEF ev
    <3>1. DOMAIN ev = {"type", "ch", "key", "sym", "tone"} /\ ev.type = type /\ ev.ch = text.ch /\ ev.key = k
      BY <1>3, <3>0
    <3>2. ev.type # "MapChar"
      BY <2>1, <3>1 DEF ToneEvents
    <3>. HIDE DEF ev
    <3>. QED  BY <1>3, <1>5, <2>1, <3>1, <3>2, CharTypes DEF EventOK, EventTypes
  <2>2. CASE type \notin ToneEvents /\ type \in DOMAIN MapChars
    <3>1. DOMAIN ev = {"type", "ch", "key", "sym", "tone"} /\ ev.type = "MapChar" /\ ev.ch = "Vn" /\ ev.key = k
      BY <1>3, <2>2 DEF Meaning
    <3>. HIDE DEF ev
    <3>. QED  BY <1>5, <3>1 DEF EventOK, EventTypes
  <2>3. CASE type \notin ToneEvents /\ type \notin DOMAIN MapChars
    <3>1. DOMAIN ev = {"type", "ch", "key", "sym", "tone"} /\ ev.type = type /\ ev.ch = text.ch /\ ev.key = k
      BY <1>3, <2>3 DEF Meaning
    <3>2. type \in EventTypes /\ type # "MapChar"
      BY <1>1, <2>3 DEF UkEvLabelList, EventTypes, RoofEvents, HookEvents
    <3>. HIDE DEF ev
    <3>. QED  BY <1>3, <1>5, <3>1, <3>2, CharTypes DEF EventOK
  <2>. QED  BY <2>1, <2>2, <2>3
<1>6. ASSUME getCharType(k) = "Reset"  PROVE ev.type = "Normal" /\ ev.ch = "Reset"
  <2>1. type = "Normal"
    BY <1>2, <1>6, CharTypes
  <2>. QED  BY <1>3, <1>4, <1>6, <2>1 DEF Meaning
<1>. QED  BY <1>5, <1>6 DEF ev, text, type, keyCodeToEvent

-----------------------------------------------------------------------------
(* Where the last word starts. *)

\* The last place of a set of places, or 0.
LEMMA MaxAmong ==
  ASSUME NEW n \in Nat, NEW T, T \subseteq 1 .. n
  PROVE  Max({0} \cup T) \in 0 .. n /\ \A i \in T : i <= Max({0} \cup T)
<1>. DEFINE U == {0} \cup T
            D == {k \in Nat : \E x \in U : x = n - k}
<1>1. U \subseteq 0 .. n
  OBVIOUS
<1>2. D \subseteq Nat /\ D # {}
  <2>1. 0 \in U /\ n \in Nat /\ 0 = n - n
    OBVIOUS
  <2>. QED  BY <2>1
<1>3. PICK d \in D : \A k \in D : d <= k
  <2>. HIDE DEF D
  <2>. QED  BY <1>2, Q!LeastNumber
<1>4. PICK x \in U : x = n - d
  BY <1>3
<1>5. ASSUME NEW y \in U  PROVE x >= y
  <2>1. n - y \in Nat /\ y = n - (n - y)
    BY <1>1
  <2>2. d <= n - y
    BY <1>3, <2>1
  <2>. QED  BY <1>1, <1>4, <2>2
<1>. HIDE DEF U
<1>6. Max(U) \in U /\ \A y \in U : Max(U) >= y
  BY <1>5 DEF Max
<1>7. Max(U) \in 0 .. n
  BY <1>1, <1>6
<1>8. \A i \in T : i <= Max(U)
  <2>. SUFFICES ASSUME NEW i \in T PROVE i <= Max(U)
    OBVIOUS
  <2>1. i \in U
    BY DEF U
  <2>2. i \in 0 .. n
    BY <2>1, <1>1
  <2>. QED  BY <1>6, <1>7, <2>1, <2>2
<1>. QED  BY <1>7, <1>8 DEF U

\* The last word begins at an entry, or where the next would come.
LEMMA WordStartRange ==
  ASSUME NEW e, EngineOK(e)
  PROVE  WordStart(e) \in 1 .. Len(e.buf) + 1
<1>1. Len(e.buf) \in Nat /\ DOMAIN e.buf = 1 .. Len(e.buf)
  BY EngineLengths
<1>2. Max({0} \cup {i \in DOMAIN e.buf : e.buf[i].form = "empty"}) \in 0 .. Len(e.buf)
  BY <1>1, MaxAmong
<1>. QED  BY <1>1, <1>2 DEF WordStart

\* None of the key strokes of the last word is a word break.
LEMMA KeyStartRange ==
  ASSUME NEW e, EngineOK(e)
  PROVE  /\ KeyStart(e) \in 1 .. Len(e.keys) + 1
         /\ \A i \in KeyStart(e) .. Len(e.keys) : ~ e.keys[i].brk
<1>. DEFINE T == {i \in DOMAIN e.keys : e.keys[i].brk}
<1>1. Len(e.keys) \in Nat /\ DOMAIN e.keys = 1 .. Len(e.keys)
  BY EngineLengths
<1>2. Max({0} \cup T) \in 0 .. Len(e.keys) /\ \A i \in T : i <= Max({0} \cup T)
  BY <1>1, MaxAmong
<1>3. KeyStart(e) = Max({0} \cup T) + 1
  BY DEF KeyStart
<1>4. ASSUME NEW i \in KeyStart(e) .. Len(e.keys)  PROVE ~ e.keys[i].brk
  <2>1. i \in DOMAIN e.keys /\ ~(i <= Max({0} \cup T))
    BY <1>1, <1>2, <1>3
  <2>2. i \notin T
    BY <1>2, <2>1
  <2>. QED  BY <2>1, <2>2
<1>. QED  BY <1>1, <1>2, <1>3, <1>4

\* A control code empties both arrays.
LEMMA ResetClears ==
  ASSUME NEW e, EngineOK(e)
  PROVE  LET r == reset(e)
         IN  EngineOK(r) /\ r.buf = <<>> /\ r.keys = <<>> /\ r.ev = e.ev /\ r.then = e.then
<1>. DEFINE r == reset(e)
<1>1. DOMAIN e = EngineFields
  BY DEF EngineOK
<1>2. DOMAIN r = EngineFields /\ r.buf = <<>> /\ r.keys = <<>> /\ r.ev = e.ev /\ r.then = e.then
  BY <1>1 DEF reset, EngineFields
<1>. HIDE DEF r
<1>3. Items("word", <<>>) /\ Items("stroke", <<>>)
  <2>1. <<>> \in Seq({}) /\ Len(<<>>) = 0
    BY EmptySeq
  <2>. QED  BY <2>1 DEF Items
<1>. QED  BY <1>2, <1>3 DEF EngineOK, r

\* Appending a character that resets empties both arrays.
LEMMA AppendResets ==
  ASSUME NEW e, EngineOK(e), e.ev.ch = "Reset"
  PROVE  appendSymbol(e).buf = <<>> /\ appendSymbol(e).keys = <<>>
         /\ appendSymbol(e).then = e.then /\ EngineOK(appendSymbol(e))
<1>. DEFINE r == reset(e)
<1>1. EngineOK(r) /\ r.buf = <<>> /\ r.keys = <<>> /\ r.then = e.then
  BY ResetClears
<1>2. appendSymbol(e) = Ret(r, 0)
  BY DEF appendSymbol
<1>. HIDE DEF r
<1>3. Grown(r, Ret(r, 0), 0)
  BY <1>1, RetGrows
<1>4. EngineOK(Ret(r, 0)) /\ Ret(r, 0).keys = <<>> /\ Ret(r, 0).then = e.then /\ Len(Ret(r, 0).buf) = 0
  <2>1. Len(r.buf) = 0
    BY <1>1, EngineLengths
  <2>. QED  BY <1>1, <1>3, <2>1 DEF Grown
<1>5. Ret(r, 0).buf = <<>>
  BY <1>4, EngineLengths
<1>. QED  BY <1>2, <1>4, <1>5

-----------------------------------------------------------------------------
(* Key strokes typed once more. *)

\* The engine after one stroke more, and g the engines after the first n of them.
Again1(e, stroke) == appendSymbol([e EXCEPT !.ev = keyCodeToSymbol(stroke.key)])
IsReplay(g, e, strokes, n) ==
  g = [i \in 0 .. n |-> IF i = 0 THEN e ELSE Again1(g[i - 1], strokes[i])]
Replay(e, strokes, n) == CHOOSE g : IsReplay(g, e, strokes, n)

\* Typing strokes anew is the last step of a replay that types them one by one.
LEMMA RetypedMeans ==
  ASSUME NEW e, NEW strokes
  PROVE  Retyped(e, strokes) = Replay(e, strokes, Len(strokes))[Len(strokes)]
  BY DEF Retyped, IsReplay, Replay, Again1

\* One stroke is one letter.
LEMMA StrokeGrows ==
  ASSUME NEW e, EngineOK(e), NEW s, IsStroke(s), ~ s.brk
  PROVE  /\ EngineOK(Again1(e, s)) /\ Again1(e, s).keys = e.keys /\ Again1(e, s).then = e.then
         /\ Len(Again1(e, s).buf) = Len(e.buf) + 1
<1>. DEFINE f == [e EXCEPT !.ev = keyCodeToSymbol(s.key)]
<1>1. DOMAIN e = EngineFields
  BY DEF EngineOK
<1>2. DOMAIN f = EngineFields /\ f.buf = e.buf /\ f.keys = e.keys /\ f.then = e.then
      /\ f.ev = keyCodeToSymbol(s.key)
  BY <1>1 DEF EngineFields
<1>3. Again1(e, s) = appendSymbol(f)
  BY DEF Again1
<1>. HIDE DEF f
<1>4. EngineOK(f)
  BY <1>2 DEF EngineOK
<1>5. f.ev.ch \in {"NonVn", "Vn"}
  <2>1. f.ev.ch = getCharType(s.key)
    BY <1>2, TextEvent
  <2>. QED  BY <2>1, CharTypes DEF IsStroke
<1>6. Grown(f, appendSymbol(f), 1)
  BY <1>4, <1>5, AppendSymbolGrows
<1>. QED  BY <1>2, <1>3, <1>6 DEF Grown

\* There is such a list: the least n without one would not be 0, and the list for n - 1
\* has a next element.
LEMMA ReplayExists ==
  ASSUME NEW e, NEW strokes, NEW n \in Nat
  PROVE  \E g : IsReplay(g, e, strokes, n)
<1>. DEFINE T == {k \in Nat : ~(\E g : IsReplay(g, e, strokes, k))}
<1>1. SUFFICES ASSUME T # {}  PROVE FALSE
  OBVIOUS
<1>2. PICK k \in T : \A j \in T : k <= j
  <2>1. T \subseteq Nat
    OBVIOUS
  <2>. HIDE DEF T
  <2>. QED  BY <1>1, <2>1, Q!LeastNumber
<1>3. CASE k = 0
  <2>. DEFINE g == [i \in 0 .. 0 |-> e]
  <2>1. IsReplay(g, e, strokes, 0)
    BY DEF IsReplay
  <2>. QED  BY <1>3, <2>1
<1>4. CASE k # 0
  <2>1. k - 1 \in Nat /\ ~(k <= k - 1)
    BY <1>4
  <2>2. k - 1 \notin T
    BY <1>2, <2>1
  <2>3. PICK g : IsReplay(g, e, strokes, k - 1)
    BY <2>1, <2>2
  <2>. DEFINE h == [i \in 0 .. k |-> IF i = k THEN Again1(g[k - 1], strokes[k]) ELSE g[i]]
  <2>4. \A i \in 0 .. k - 1 : g[i] = IF i = 0 THEN e ELSE Again1(g[i - 1], strokes[i])
    BY <2>3 DEF IsReplay
  <2>5. ASSUME NEW i \in 0 .. k  PROVE h[i] = IF i = 0 THEN e ELSE Again1(h[i - 1], strokes[i])
    <3>1. CASE i = k
      <4>1. k - 1 \in 0 .. k /\ k - 1 # k
        BY <1>4
      <4>. QED  BY <1>4, <3>1, <4>1
    <3>2. CASE i # k
      <4>1. i \in 0 .. k - 1 /\ (i # 0 => i - 1 \in 0 .. k /\ i - 1 # k)
        BY <3>2
      <4>. QED  BY <2>4, <3>2, <4>1
    <3>. QED  BY <3>1, <3>2
  <2>6. IsReplay(h, e, strokes, k)
    <3>. DEFINE d == [i \in 0 .. k |-> IF i = 0 THEN e ELSE Again1(h[i - 1], strokes[i])]
    <3>1. \A i \in 0 .. k : h[i] = d[i]
      BY <2>5
    <3>2. DOMAIN h = 0 .. k /\ DOMAIN d = 0 .. k /\ h = [i \in 0 .. k |-> h[i]] /\ d = [i \in 0 .. k |-> d[i]]
      OBVIOUS
    <3>3. h = d
      BY <3>1, <3>2
    <3>. QED  BY <3>3 DEF IsReplay
  <2>. QED  BY <2>6
<1>. QED  BY <1>3, <1>4

\* So the engines are what their equations say.
LEMMA ReplaySteps ==
  ASSUME NEW e, NEW strokes, NEW n \in Nat
  PROVE  LET g == Replay(e, strokes, n)
         IN  \A i \in 0 .. n : g[i] = IF i = 0 THEN e ELSE Again1(g[i - 1], strokes[i])
<1>1. IsReplay(Replay(e, strokes, n), e, strokes, n)
  BY ReplayExists DEF Replay
<1>. QED  BY <1>1 DEF IsReplay

\* Strokes that are no word breaks are a letter each.
LEMMA RetypedGrows ==
  ASSUME NEW e, EngineOK(e), NEW strokes, Items("stroke", strokes),
         \A i \in 1 .. Len(strokes) : ~ strokes[i].brk
  PROVE  LET r == Retyped(e, strokes)
         IN  /\ EngineOK(r) /\ r.keys = e.keys /\ r.then = e.then
             /\ Len(r.buf) = Len(e.buf) + Len(strokes)
<1>. DEFINE g == Replay(e, strokes, Len(strokes))
            Holds(k) == /\ EngineOK(g[k]) /\ g[k].keys = e.keys /\ g[k].then = e.then
                        /\ Len(g[k].buf) = Len(e.buf) + k
            T == {k \in 0 .. Len(strokes) : ~Holds(k)}
<1>0. Len(strokes) \in Nat /\ Len(e.buf) \in Nat
  BY ItemsLength, EngineLengths
<1>1. \A i \in 0 .. Len(strokes) : g[i] = IF i = 0 THEN e ELSE Again1(g[i - 1], strokes[i])
  BY <1>0, ReplaySteps
<1>. HIDE DEF g
<1>2. ASSUME T # {}  PROVE FALSE
  <2>1. PICK k \in T : \A j \in T : k <= j
    <3>1. T \subseteq Nat
      BY <1>0
    <3>. HIDE DEF T
    <3>. QED  BY <1>2, <3>1, Q!LeastNumber
  <2>2. CASE k = 0
    <3>1. g[0] = e
      BY <1>0, <1>1
    <3>2. Holds(0)
      BY <1>0, <3>1
    <3>. QED  BY <2>1, <2>2, <3>2
  <2>3. CASE k # 0
    <3>1. k \in 0 .. Len(strokes) /\ k - 1 \in 0 .. Len(strokes) /\ k \in 1 .. Len(strokes) /\ ~(k <= k - 1)
      BY <1>0, <2>1, <2>3
    <3>2. Holds(k - 1)
      BY <2>1, <3>1
    <3>3. g[k] = Again1(g[k - 1], strokes[k])
      BY <1>1, <2>3, <3>1
    <3>4. IsStroke(strokes[k]) /\ ~ strokes[k].brk
      BY <3>1 DEF Items, IsItem
    <3>. DEFINE a == g[k - 1]
                f == Again1(a, strokes[k])
    <3>5. EngineOK(a) /\ a.keys = e.keys /\ a.then = e.then /\ Len(a.buf) = Len(e.buf) + (k - 1)
      BY <3>2
    <3>. HIDE DEF a
    <3>6. EngineOK(f) /\ f.keys = a.keys /\ f.then = a.then /\ Len(f.buf) = Len(a.buf) + 1
      BY <3>4, <3>5, StrokeGrows
    <3>7. \A x, y, z : x \in Nat /\ y = x + (k - 1) /\ z = y + 1 => z = x + k
      BY <3>1
    <3>8. Len(f.buf) = Len(e.buf) + k
      BY <1>0, <3>5, <3>6, <3>7, Zenon
    <3>. HIDE DEF f
    <3>9. g[k] = f
      BY <3>3 DEF a, f
    <3>10. Holds(k)
      BY <3>5, <3>6, <3>8, <3>9
    <3>. QED  BY <2>1, <3>10
  <2>. QED  BY <2>2, <2>3
<1>3. Holds(Len(strokes))
  <2>1. Len(strokes) \in 0 .. Len(strokes)
    BY <1>0
  <2>. QED  BY <1>2, <2>1
<1>4. Retyped(e, strokes) = g[Len(strokes)]
  BY RetypedMeans DEF g
<1>. QED  BY <1>3, <1>4

-----------------------------------------------------------------------------
(* A word is restored. *)

\* The key strokes with their conversion flags cleared are key strokes.
LEMMA ItemsCleared ==
  ASSUME NEW b, Items("stroke", b), NEW C
  PROVE  LET c == [i \in DOMAIN b |-> [b[i] EXCEPT !.conv = @ /\ i \notin C]]
         IN  Items("stroke", c) /\ Len(c) = Len(b)
<1>. DEFINE c == [i \in DOMAIN b |-> [b[i] EXCEPT !.conv = @ /\ i \notin C]]
<1>1. Len(b) \in Nat /\ DOMAIN b = 1 .. Len(b)
  BY ItemsLength
<1>2. ASSUME NEW i \in 1 .. Len(b)  PROVE IsItem("stroke", c[i])
  <2>1. IsStroke(b[i])
    BY DEF Items, IsItem
  <2>2. c[i] = [b[i] EXCEPT !.conv = b[i].conv /\ i \notin C]
    BY <1>1
  <2>. DEFINE s == [b[i] EXCEPT !.conv = b[i].conv /\ i \notin C]
  <2>3. DOMAIN s = DOMAIN b[i] /\ s.key = b[i].key /\ s.brk = b[i].brk
    BY <2>1 DEF IsStroke, StrokeFields
  <2>. HIDE DEF s
  <2>4. IsStroke(s)
    BY <2>1, <2>3 DEF IsStroke
  <2>. QED  BY <2>2, <2>4 DEF IsItem, s
<1>3. DOMAIN c = 1 .. Len(b)
  BY <1>1
<1>. HIDE DEF c
<1>. DEFINE S == {c[i] : i \in 1 .. Len(b)}
<1>4. c \in [1 .. Len(b) -> S]
  <2>1. c = [i \in 1 .. Len(b) |-> c[i]]
    BY <1>3 DEF c
  <2>. QED  BY <2>1
<1>5. c \in Seq(S) /\ Len(c) = Len(b)
  <2>. HIDE DEF S
  <2>1. c \in Seq(S)
    BY <1>1, <1>4, SeqDef
  <2>. QED  BY <1>1, <1>3, <2>1, LenProperties
<1>6. Items("stroke", c)
  <2>. HIDE DEF S
  <2>. QED  BY <1>2, <1>5 DEF Items
<1>. QED  BY <1>5, <1>6 DEF c

\* The engine without the letters of its last word.
WithBuf(e, b) == [e EXCEPT !.buf = b]
Fresh(e) == [e EXCEPT !.backs = 0, !.changePos = Len(e.buf) + 1]
Erased(e) == WithBuf(markChange(Fresh(e), WordStart(e)), SubSeq(markChange(Fresh(e), WordStart(e)).buf, 1, WordStart(e) - 1))
\* A word that is erased leaves the letters before it, and every key stroke.
LEMMA ErasedOK ==
  ASSUME NEW e, EngineOK(e)
  PROVE  /\ EngineOK(Erased(e)) /\ Erased(e).keys = e.keys /\ Erased(e).then = e.then
         /\ Len(Erased(e).buf) = WordStart(e) - 1 /\ Grown(e, Fresh(e), 0)
<1>. DEFINE m == markChange(Fresh(e), WordStart(e))
            w == WordStart(e)
            b == SubSeq(e.buf, 1, w - 1)
<1>1. Grown(e, Fresh(e), 0) /\ Fresh(e).buf = e.buf
  <2>. DEFINE f == Fresh(e)
  <2>1. DOMAIN f = EngineFields /\ f.buf = e.buf /\ f.keys = e.keys /\ f.ev = e.ev /\ f.then = e.then /\ f.ctl = e.ctl
    BY DEF Fresh, EngineFields, EngineOK
  <2>. HIDE DEF f
  <2>2. Grown(e, f, 0)
    BY <2>1, GrownNone
  <2>. QED  BY <2>1, <2>2 DEF f
<1>2. Grown(Fresh(e), m, 0) /\ m.buf = e.buf
  BY <1>1, GrownOK, MarkChangeGrows
<1>3. EngineOK(m) /\ m.keys = e.keys /\ m.then = e.then
  BY <1>1, <1>2, GrownOK
<1>4. w \in 1 .. Len(e.buf) + 1 /\ Len(e.buf) \in Nat
  BY WordStartRange, EngineLengths
<1>5. Items("word", b) /\ Len(b) = w - 1
  <2>1. 1 \in 1 .. Len(e.buf) + 1 /\ w - 1 \in 1 - 1 .. Len(e.buf) /\ (w - 1) - 1 + 1 = w - 1
    BY <1>4
  <2>2. Items("word", e.buf)
    BY DEF EngineOK
  <2>3. Items("word", b) /\ Len(b) = (w - 1) - 1 + 1
    <3>. HIDE DEF w
    <3>. QED  BY <2>1, <2>2, ItemsPart
  <2>. QED  BY <2>1, <2>3
<1>. HIDE DEF m, w, b
<1>. DEFINE f == [m EXCEPT !.buf = b]
<1>6. DOMAIN f = EngineFields /\ f.buf = b /\ f.keys = m.keys /\ f.then = m.then
  BY <1>3 DEF EngineOK, EngineFields
<1>7. Erased(e) = f
  <2>1. b = SubSeq(m.buf, 1, w - 1)
    BY <1>2 DEF b
  <2>. QED  BY <2>1 DEF Erased, WithBuf, w, m
<1>. HIDE DEF f
<1>. QED  BY <1>1, <1>3, <1>5, <1>6, <1>7 DEF EngineOK, w

\* len entries: some of the first n, and one for each of some of m key strokes.
Replays(n, m, len) == \E s \in 0 .. n, j \in 1 .. m : len = s + j

\* Either nothing is restored, or the last word makes place for its key strokes.
LEMMA RestoreGrows ==
  ASSUME NEW e, EngineOK(e)
  PROVE  LET r == restoreKeyStrokes(e)
         IN  \/ Grown(e, r, 0) /\ r.ret = 0
             \/ /\ EngineOK(r) /\ Len(r.keys) = Len(e.keys) /\ r.ev = e.ev /\ r.then = e.then /\ r.ret = 1
                /\ Replays(Len(e.buf), Len(e.keys), Len(r.buf))
<1>. DEFINE last == {i \in DOMAIN e.keys : i >= KeyStart(e)}
            none == [e EXCEPT !.backs = 0]
            strokes == SubSeq(e.keys, KeyStart(e), Len(e.keys))
            again == Retyped(Erased(e), strokes)
            ks == [i \in DOMAIN e.keys |-> [e.keys[i] EXCEPT !.conv = @ /\ i \notin last]]
            out == Raw([i \in DOMAIN strokes |-> strokes[i].key])
            back == Ret([again EXCEPT !.keys = ks, !.out = out, !.ev = e.ev], 1)
            r == restoreKeyStrokes(e)
<1>1. \/ r = Ret(none, 0) \/ r = Ret(Fresh(e), 0)
      \/ r = back /\ last # {}
  <2>1. CASE ~lastWordHasVnMark(e)
    BY <2>1 DEF restoreKeyStrokes
  <2>2. CASE lastWordHasVnMark(e) /\ ~\E i \in last : e.keys[i].conv
    BY <2>2 DEF restoreKeyStrokes, Fresh
  <2>3. CASE lastWordHasVnMark(e) /\ \E i \in last : e.keys[i].conv
    <3>1. r = back
      BY <2>3 DEF restoreKeyStrokes, Fresh, Erased, WithBuf
    <3>. QED  BY <2>3, <3>1
  <2>. QED  BY <2>1, <2>2, <2>3
<1>2. Grown(e, Ret(none, 0), 0) /\ Ret(none, 0).ret = 0
  <2>1. Grown(e, none, 0)
    <3>1. DOMAIN none = EngineFields /\ none.buf = e.buf /\ none.keys = e.keys /\ none.ev = e.ev /\ none.then = e.then /\ none.ctl = e.ctl
      BY DEF EngineFields, EngineOK
    <3>. HIDE DEF none
    <3>. QED  BY <3>1, GrownNone
  <2>. HIDE DEF none
  <2>2. EngineOK(none)
    BY <2>1, GrownOK
  <2>. QED  BY <2>1, <2>2, RetGrows, GrownAfter
<1>3. Grown(e, Ret(Fresh(e), 0), 0) /\ Ret(Fresh(e), 0).ret = 0
  <2>1. Grown(e, Fresh(e), 0) /\ EngineOK(Fresh(e))
    BY ErasedOK, GrownOK
  <2>. QED  BY <2>1, RetGrows, GrownAfter
<1>4. ASSUME last # {}
      PROVE  /\ EngineOK(back) /\ Len(back.keys) = Len(e.keys) /\ back.ev = e.ev /\ back.then = e.then
             /\ back.ret = 1 /\ Replays(Len(e.buf), Len(e.keys), Len(back.buf))
  <2>1. /\ KeyStart(e) \in 1 .. Len(e.keys) + 1 /\ Len(e.keys) \in Nat /\ Len(e.buf) \in Nat
        /\ DOMAIN e.keys = 1 .. Len(e.keys) /\ WordStart(e) \in 1 .. Len(e.buf) + 1
    BY KeyStartRange, WordStartRange, EngineLengths
  <2>2. KeyStart(e) \in 1 .. Len(e.keys)
    <3>1. PICK i \in last : TRUE
      BY <1>4
    <3>2. i \in 1 .. Len(e.keys) /\ i >= KeyStart(e)
      BY <2>1
    <3>. QED  BY <2>1, <3>2
  <2>. DEFINE j == Len(e.keys) - KeyStart(e) + 1
  <2>3. /\ Items("stroke", strokes) /\ Len(strokes) = j
        /\ \A i \in 1 .. Len(strokes) : ~ strokes[i].brk
    <3>1. Items("stroke", e.keys)
      BY DEF EngineOK
    <3>2. KeyStart(e) \in 1 .. Len(e.keys) + 1 /\ Len(e.keys) \in KeyStart(e) - 1 .. Len(e.keys)
      BY <2>1
    <3>3. Items("stroke", strokes) /\ Len(strokes) = j
      BY <3>1, <3>2, ItemsPart
    <3>4. \A i \in 1 .. j : strokes[i] = e.keys[KeyStart(e) + i - 1]
      <4>1. PICK S : e.keys \in Seq(S)
        BY <3>1 DEF Items
      <4>. QED  BY <2>1, <2>2, <4>1, SubSeqProperties
    <3>5. \A i \in 1 .. j : KeyStart(e) + i - 1 \in KeyStart(e) .. Len(e.keys)
      BY <2>1, <2>2
    <3>. QED  BY <3>3, <3>4, <3>5, KeyStartRange
  <2>. HIDE DEF strokes
  <2>4. /\ EngineOK(again) /\ again.then = e.then
        /\ Len(again.buf) = (WordStart(e) - 1) + j
    <3>1. EngineOK(Erased(e)) /\ Erased(e).then = e.then /\ Len(Erased(e).buf) = WordStart(e) - 1
      BY ErasedOK
    <3>2. EngineOK(again) /\ again.then = Erased(e).then /\ Len(again.buf) = Len(Erased(e).buf) + Len(strokes)
      BY <2>3, <3>1, RetypedGrows
    <3>. QED  BY <2>3, <3>1, <3>2
  <2>. HIDE DEF again
  <2>5. Items("stroke", ks) /\ Len(ks) = Len(e.keys)
    BY ItemsCleared DEF EngineOK
  <2>. HIDE DEF ks, out
  <2>. DEFINE f == [again EXCEPT !.keys = ks, !.out = out, !.ev = e.ev]
  <2>6. DOMAIN f = EngineFields /\ f.buf = again.buf /\ f.keys = ks /\ f.ev = e.ev /\ f.then = again.then
    BY <2>4 DEF EngineOK, EngineFields
  <2>7. back = Ret(f, 1)
    OBVIOUS
  <2>. HIDE DEF f, back
  <2>8. EngineOK(f)
    BY <2>4, <2>5, <2>6 DEF EngineOK
  <2>9. Grown(f, Ret(f, 1), 0) /\ Ret(f, 1).ret = 1
    BY <2>8, RetGrows
  <2>10. Len(f.buf) = (WordStart(e) - 1) + j /\ WordStart(e) - 1 \in 0 .. Len(e.buf) /\ j \in 1 .. Len(e.keys)
    <3>1. WordStart(e) - 1 \in 0 .. Len(e.buf) /\ j \in 1 .. Len(e.keys)
      BY <2>1, <2>2
    <3>2. f.buf = again.buf
      BY <2>6
    <3>. HIDE DEF j
    <3>. QED  BY <2>4, <3>1, <3>2
  <2>11. Len(back.buf) = Len(f.buf)
    <3>1. Len(back.buf) = Len(f.buf) + 0 /\ Len(f.buf) \in Nat
      BY <2>7, <2>8, <2>9, EngineLengths DEF Grown
    <3>. QED  BY <3>1
  <2>12. Replays(Len(e.buf), Len(e.keys), Len(back.buf))
    <3>. HIDE DEF j
    <3>. QED  BY <2>10, <2>11 DEF Replays
  <2>. QED  BY <2>4, <2>5, <2>6, <2>7, <2>9, <2>12 DEF Grown
<1>. HIDE DEF r, none, back, last
<1>5. \/ Grown(e, r, 0) /\ r.ret = 0
      \/ /\ EngineOK(r) /\ Len(r.keys) = Len(e.keys) /\ r.ev = e.ev /\ r.then = e.then /\ r.ret = 1
         /\ Replays(Len(e.buf), Len(e.keys), Len(r.buf))
  BY <1>1, <1>2, <1>3, <1>4
<1>. QED  BY <1>5 DEF r

-----------------------------------------------------------------------------
(* A word ends. *)

\* What processAppend does to the arrays: one entry more; or everything goes, when a macro
\* is expanded; or the last word is restored and one entry more follows it.
Ended(e, r) ==
  /\ EngineOK(r) /\ r.ev = e.ev /\ r.then = e.then
  /\ \/ Len(r.keys) = Len(e.keys) /\ Len(r.buf) = Len(e.buf) + 1 /\ r.ctl = e.ctl
     \/ r.buf = <<>> /\ r.keys = <<>> /\ r.ret = 1
     \/ /\ e.ctl.options.autoNonVnRestore /\ Len(r.keys) = Len(e.keys) /\ r.ret = 1
        /\ \E k \in Nat : Len(r.buf) = k + 1 /\ Replays(Len(e.buf), Len(e.keys), k)

\* One entry more is an outcome of the end of a word.
LEMMA GrownEnds ==
  ASSUME NEW e, NEW r, Grown(e, r, 1)
  PROVE  Ended(e, r)
  BY DEF Grown, Ended

\* Changes that add no letter before it add nothing to the end of a word.
LEMMA EndedAfter ==
  ASSUME NEW e, EngineOK(e), NEW f, NEW r, Grown(e, f, 0), Ended(f, r)
  PROVE  Ended(e, r)
<1>1. f.keys = e.keys /\ f.ev = e.ev /\ f.then = e.then /\ f.ctl = e.ctl /\ Len(f.buf) = Len(e.buf)
  <2>1. Len(e.buf) \in Nat /\ Len(f.buf) = Len(e.buf) + 0
    BY EngineLengths DEF Grown
  <2>. QED  BY <2>1 DEF Grown
<1>. QED  BY <1>1 DEF Ended

\* A macro that is expanded empties both arrays; one that is not found types on.
LEMMA MacroEnds ==
  ASSUME NEW e, EngineOK(e)
  PROVE  Ended(e, expandMacro(e))
<1>. DEFINE start == Max(MacroStarts(e))
            r == reset(markChange(e, start))
            out == Append(e.ctl.macros[MacroKey(e, start)], <<e.ev.sym, 1>>)
            f == [r EXCEPT !.written = TRUE, !.out = out]
<1>1. EngineOK(r) /\ r.buf = <<>> /\ r.keys = <<>> /\ r.ev = e.ev /\ r.then = e.then
  <2>. DEFINE m == markChange(e, start)
  <2>1. EngineOK(m) /\ m.ev = e.ev /\ m.then = e.then
    BY MarkChangeGrows, GrownOK
  <2>. HIDE DEF m
  <2>2. LET x == reset(m) IN EngineOK(x) /\ x.buf = <<>> /\ x.keys = <<>> /\ x.ev = m.ev /\ x.then = m.then
    BY <2>1, ResetClears
  <2>. QED  BY <2>1, <2>2 DEF m
<1>2. expandMacro(e) = Ret(f, 1)
  BY DEF expandMacro
<1>. HIDE DEF r, out
<1>3. DOMAIN f = EngineFields /\ f.buf = r.buf /\ f.keys = r.keys /\ f.ev = r.ev /\ f.then = r.then
  BY <1>1 DEF EngineOK, EngineFields
<1>. HIDE DEF f
<1>4. EngineOK(f)
  BY <1>1, <1>3 DEF EngineOK
<1>. DEFINE g == Ret(f, 1)
<1>5. DOMAIN g = EngineFields /\ g.buf = f.buf /\ g.keys = f.keys /\ g.ev = f.ev /\ g.then = f.then /\ g.ret = 1
  BY <1>4 DEF EngineOK, EngineFields, Ret
<1>. HIDE DEF g
<1>6. EngineOK(g)
  BY <1>4, <1>5 DEF EngineOK
<1>. QED  BY <1>1, <1>2, <1>3, <1>5, <1>6 DEF Ended, g

\* Strokes that are restored at the end of a word: the replayed letters and the break.
LEMMA RestoredEnds ==
  ASSUME NEW e, EngineOK(e), e.ctl.options.autoNonVnRestore
  PROVE  Ended(e, WordEndRestored(e, restoreKeyStrokes(e)))
<1>. DEFINE t == restoreKeyStrokes(e)
            s == e.ev.sym
            u == Push(t, Break(s))
            out == Append(u.out, <<s, 1>>)
            f == [u EXCEPT !.restored = TRUE, !.written = TRUE, !.out = out]
<1>1. \/ Grown(e, t, 0) /\ t.ret = 0
      \/ /\ EngineOK(t) /\ Len(t.keys) = Len(e.keys) /\ t.ev = e.ev /\ t.then = e.then /\ t.ret = 1
         /\ Replays(Len(e.buf), Len(e.keys), Len(t.buf))
  BY RestoreGrows
<1>. HIDE DEF t
<1>2. CASE t.ret = 0
  <2>1. Grown(e, t, 0) /\ EngineOK(t)
    BY <1>1, <1>2, GrownOK
  <2>2. Grown(t, Ret(u, 0), 1)
    BY <2>1, NonVnMade, PushedGrows
  <2>3. Grown(e, Ret(u, 0), 1)
    BY <2>1, <2>2, GrownAfter
  <2>4. WordEndRestored(e, t) = Ret(u, 0)
    BY <1>2 DEF WordEndRestored
  <2>. QED  BY <2>3, <2>4, GrownEnds DEF t
<1>3. CASE t.ret # 0
  <2>1. /\ EngineOK(t) /\ Len(t.keys) = Len(e.keys) /\ t.ev = e.ev /\ t.then = e.then
        /\ Replays(Len(e.buf), Len(e.keys), Len(t.buf))
    BY <1>1, <1>3
  <2>2. Grown(t, u, 1)
    BY <2>1, NonVnMade, PushedGrows
  <2>3. WordEndRestored(e, t) = Ret(f, 1)
    BY <1>3 DEF WordEndRestored
  <2>. HIDE DEF u, out
  <2>4. EngineOK(u)
    BY <2>2, GrownOK
  <2>5. DOMAIN f = EngineFields /\ f.buf = u.buf /\ f.keys = u.keys /\ f.ev = u.ev /\ f.then = u.then
    BY <2>4 DEF EngineOK, EngineFields
  <2>. HIDE DEF f
  <2>6. EngineOK(f)
    BY <2>4, <2>5 DEF EngineOK
  <2>. DEFINE g == Ret(f, 1)
  <2>7. DOMAIN g = EngineFields /\ g.buf = f.buf /\ g.keys = f.keys /\ g.ev = f.ev /\ g.then = f.then /\ g.ret = 1
    BY <2>6 DEF EngineOK, EngineFields, Ret
  <2>. HIDE DEF g
  <2>8. EngineOK(g)
    BY <2>6, <2>7 DEF EngineOK
  <2>9. Len(g.buf) = Len(t.buf) + 1 /\ g.keys = t.keys /\ g.ev = t.ev /\ g.then = t.then
    BY <2>2, <2>5, <2>7 DEF Grown
  <2>10. Len(t.buf) \in Nat
    BY <2>1, EngineLengths
  <2>11. Ended(e, g)
    BY <2>1, <2>7, <2>8, <2>9, <2>10 DEF Ended
  <2>. QED  BY <2>3, <2>11 DEF g, t
<1>. QED  BY <1>2, <1>3

\* The end of a word has no other outcome (processWordEnd).
LEMMA WordEnded ==
  ASSUME NEW e, EngineOK(e)
  PROVE  Ended(e, processWordEnd(e))
<1>. DEFINE b == Ret(Push(e, Break(e.ev.sym)), 0)
<1>1. Ended(e, b)
  BY NonVnMade, PushedGrows, GrownEnds
<1>. HIDE DEF b
<1>2. \/ processWordEnd(e) = expandMacro(e)
      \/ processWordEnd(e) = b
      \/ processWordEnd(e) = WordEndRestored(e, restoreKeyStrokes(e)) /\ e.ctl.options.autoNonVnRestore
  BY DEF processWordEnd, b
<1>. QED  BY <1>1, <1>2, MacroEnds, RestoredEnds

\* A key typed as text.
LEMMA AppendEnds ==
  ASSUME NEW e, EngineOK(e), EventOK(e.ev)
  PROVE  Ended(e, processAppend(e))
<1>1. CASE e.ev.ch = "WordBreak"
  <2>. DEFINE f == [e EXCEPT !.single = FALSE]
  <2>1. DOMAIN f = EngineFields /\ f.buf = e.buf /\ f.keys = e.keys /\ f.ev = e.ev /\ f.then = e.then /\ f.ctl = e.ctl
    BY DEF EngineOK, EngineFields
  <2>2. processAppend(e) = processWordEnd(f)
    BY <1>1 DEF processAppend
  <2>. HIDE DEF f
  <2>3. Grown(e, f, 0) /\ EngineOK(f)
    BY <2>1, GrownNone, GrownOK
  <2>. QED  BY <2>2, <2>3, WordEnded, EndedAfter
<1>2. CASE e.ev.ch # "WordBreak"
  <2>1. e.ev.ch \in {"NonVn", "Vn"}
    BY <1>2 DEF EventOK
  <2>2. processAppend(e) = appendSymbol(e)
    BY <1>2 DEF processAppend
  <2>. QED  BY <2>1, <2>2, AppendSymbolGrows, GrownEnds
<1>. QED  BY <1>1, <1>2

-----------------------------------------------------------------------------
(* How a handler ends. *)

\* A call that found n entries, m key strokes and the options of c has handled its key.
Outcome(c, n, m, f) ==
  /\ EngineOK(f) /\ f.then = "return" /\ EventOK(f.ev)
  /\ \/ /\ Len(f.keys) = m /\ f.ctl = c /\ f.buf # <<>> /\ Len(f.buf) \in {n, n + 1}
        /\ f.ret = 0 => Len(f.buf) = n + 1
     \/ f.buf = <<>> /\ f.keys = <<>> /\ f.ret # 0
     \/ /\ c.options.autoNonVnRestore /\ Len(f.keys) = m /\ f.ret # 0
        /\ \E k \in Nat : Len(f.buf) = k + 1 /\ Replays(n, m, k)

\* It is left to processAppend to type the key, after the n entries or in place of the last.
Going(c, n, m, h) ==
  /\ EngineOK(h) /\ EventOK(h.ev) /\ Len(h.keys) = m /\ h.ctl = c
  /\ \/ h.then \in {"append", "undo"} /\ Len(h.buf) = n
     \/ h.then \in {"undo", "replace"} /\ n >= 1 /\ Len(h.buf) = n - 1

\* Leaving a handler by processAppend sets how the handlers after it return.
LEMMA AppendingReturns ==
  ASSUME NEW e, EngineOK(e), NEW then, then \in {"append", "undo", "replace"}
  PROVE  LET f == Appending(e, then)
         IN  /\ EngineOK(f) /\ f.buf = e.buf /\ f.keys = e.keys /\ f.ev = e.ev /\ f.ctl = e.ctl
             /\ f.then = "return" /\ f.ret = IF then = "append" THEN e.ret ELSE 1
<1>. DEFINE m == markChange(e, Len(e.buf))
            f == Appending(e, then)
<1>1. EngineOK(m) /\ m.buf = e.buf /\ m.keys = e.keys /\ m.ev = e.ev /\ m.ctl = e.ctl
  BY MarkChangeGrows, GrownOK
<1>. HIDE DEF m
<1>2. /\ DOMAIN f = EngineFields /\ f.buf = e.buf /\ f.keys = e.keys /\ f.ev = e.ev /\ f.ctl = e.ctl
      /\ f.then = "return" /\ f.ret = IF then = "append" THEN e.ret ELSE 1
  <2>0. DOMAIN e = EngineFields /\ DOMAIN m = EngineFields
    BY <1>1 DEF EngineOK
  <2>1. CASE then = "append"
    BY <2>0, <2>1 DEF Appending, EngineFields
  <2>2. CASE then = "undo"
    BY <2>0, <2>2 DEF Appending, EngineFields
  <2>3. CASE then = "replace"
    <3>1. f = [m EXCEPT !.then = "return", !.ret = 1]
      BY <2>3 DEF Appending, m
    <3>. HIDE DEF f
    <3>. QED  BY <1>1, <2>0, <2>3, <3>1 DEF EngineFields
  <2>. QED  BY <2>1, <2>2, <2>3
<1>. HIDE DEF f
<1>3. EngineOK(f)
  BY <1>2 DEF EngineOK
<1>. QED  BY <1>2, <1>3 DEF f

\* A replay that fits an array of n - 1 letters fits one of n.
LEMMA ReplaysMore ==
  ASSUME NEW n \in Nat, n >= 1, NEW m \in Nat, NEW k, Replays(n - 1, m, k)
  PROVE  Replays(n, m, k)
<1>1. 0 .. n - 1 \subseteq 0 .. n
  OBVIOUS
<1>. QED  BY <1>1 DEF Replays

\* What processAppend makes of a handler that is to go on is an outcome.
LEMMA FinishGives ==
  ASSUME NEW c, NEW n \in Nat, NEW m \in Nat, NEW h, Outcome(c, n, m, h) \/ Going(c, n, m, h)
  PROVE  Outcome(c, n, m, Finish(h))
<1>1. CASE h.then = "return"
  <2>1. ~Going(c, n, m, h)
    BY <1>1 DEF Going
  <2>. QED  BY <1>1, <2>1 DEF Finish
<1>2. CASE h.then # "return"
  <2>1. Going(c, n, m, h)
    BY <1>2 DEF Outcome
  <2>2. EngineOK(h) /\ EventOK(h.ev) /\ h.then \in {"append", "undo", "replace"} /\ Len(h.keys) = m /\ h.ctl = c
    BY <2>1 DEF Going
  <2>. DEFINE r == processAppend(h)
              f == Appending(r, h.then)
              l == Len(h.buf)
  <2>3. Ended(h, r)
    BY <2>2, AppendEnds
  <2>4. Finish(h) = f
    BY <1>2 DEF Finish
  <2>. HIDE DEF r
  <2>5. /\ EngineOK(f) /\ f.buf = r.buf /\ f.keys = r.keys /\ f.ev = h.ev /\ f.ctl = r.ctl
        /\ f.then = "return" /\ f.ret = IF h.then = "append" THEN r.ret ELSE 1
    BY <2>2, <2>3, AppendingReturns DEF Ended
  <2>. HIDE DEF f
  <2>6. l = n \/ (n >= 1 /\ l = n - 1 /\ h.then # "append")
    BY <2>1 DEF Going
  <2>7. l \in Nat
    BY <2>2, EngineLengths
  <2>. HIDE DEF l
  <2>8. CASE Len(r.keys) = m /\ Len(r.buf) = l + 1 /\ r.ctl = c
    <3>1. Len(r.buf) \in {n, n + 1} /\ (f.ret = 0 => Len(r.buf) = n + 1) /\ Len(r.buf) # 0
      BY <2>5, <2>6, <2>7, <2>8
    <3>2. r.buf # <<>>
      BY <2>3, <3>1, EngineLengths DEF Ended
    <3>. QED  BY <2>2, <2>4, <2>5, <2>8, <3>1, <3>2 DEF Outcome
  <2>9. CASE r.buf = <<>> /\ r.keys = <<>> /\ r.ret = 1
    BY <2>2, <2>4, <2>5, <2>9 DEF Outcome
  <2>10. CASE /\ c.options.autoNonVnRestore /\ Len(r.keys) = m /\ r.ret = 1
              /\ \E k \in Nat : Len(r.buf) = k + 1 /\ Replays(l, m, k)
    <3>1. PICK k \in Nat : Len(r.buf) = k + 1 /\ Replays(l, m, k)
      BY <2>10
    <3>2. Replays(n, m, k)
      BY <2>6, <3>1, ReplaysMore
    <3>3. f.ret # 0
      BY <2>5, <2>10
    <3>. QED  BY <2>2, <2>4, <2>5, <2>10, <3>1, <3>2, <3>3 DEF Outcome
  <2>. QED  BY <2>2, <2>3, <2>8, <2>9, <2>10 DEF Ended, l
<1>. QED  BY <1>1, <1>2

-----------------------------------------------------------------------------
(* The handlers. *)

\* A handler is called, or has worked on the n entries without adding one.
Ready(c, n, m, e) ==
  /\ EngineOK(e) /\ EventOK(e.ev) /\ e.then = "return" /\ e.ctl = c
  /\ Len(e.buf) = n /\ Len(e.keys) = m /\ n \in Nat /\ m \in Nat
Done(c, n, m, h) == Outcome(c, n, m, h) \/ Going(c, n, m, h)

\* A handler that has added nothing may go on from where it is.
LEMMA ReadyStays ==
  ASSUME NEW c, NEW n, NEW m, NEW e, Ready(c, n, m, e), NEW f, Grown(e, f, 0)
  PROVE  Ready(c, n, m, f) /\ EngineOK(f)
<1>1. Len(f.buf) = n + 0 /\ n + 0 = n
  BY DEF Ready, Grown
<1>. QED  BY <1>1 DEF Ready, Grown

\* An engine that differs in fields of no interest.
LEMMA ReadyEven ==
  ASSUME NEW c, NEW n, NEW m, NEW e, Ready(c, n, m, e), NEW f, DOMAIN f = EngineFields,
         f.buf = e.buf, f.keys = e.keys, f.then = e.then, f.ctl = e.ctl, EventOK(f.ev)
  PROVE  Ready(c, n, m, f)
  BY DEF Ready, EngineOK

\* What a handler finds when it is called.
LEMMA ReadyHas ==
  ASSUME NEW c, NEW n, NEW m, NEW e, Ready(c, n, m, e)
  PROVE  /\ EngineOK(e) /\ EventOK(e.ev) /\ e.ctl = c /\ DOMAIN e = EngineFields
         /\ n \in Nat /\ m \in Nat /\ (e.buf # <<>> <=> n >= 1)
  BY EngineLengths DEF Ready, EngineOK

\* A handler may leave the key to be typed as text, with or without the mark undone.
LEMMA TextGoes ==
  ASSUME NEW c, NEW n, NEW m, NEW e, Ready(c, n, m, e)
  PROVE  Done(c, n, m, AsText(e)) /\ Done(c, n, m, Undo(e))
<1>. DEFINE a == AsText(e)
            u == Undo(e)
<1>1. /\ DOMAIN a = EngineFields /\ a.buf = e.buf /\ a.keys = e.keys /\ a.ev = e.ev /\ a.ctl = e.ctl
      /\ a.then = "append"
  BY ReadyHas DEF AsText, EngineFields
<1>2. /\ DOMAIN u = EngineFields /\ u.buf = e.buf /\ u.keys = e.keys /\ u.ev = e.ev /\ u.ctl = e.ctl
      /\ u.then = "undo"
  BY ReadyHas DEF Undo, EngineFields
<1>. HIDE DEF a, u
<1>3. Going(c, n, m, a) /\ Going(c, n, m, u)
  BY <1>1, <1>2 DEF Ready, EngineOK, Going
<1>. QED  BY <1>3 DEF Done, a, u

\* A handler may take the key and leave the letters as they are.
LEMMA RetDone ==
  ASSUME NEW c, NEW n, NEW m, NEW e, Ready(c, n, m, e), n >= 1
  PROVE  Done(c, n, m, Ret(e, 1))
<1>. DEFINE f == Ret(e, 1)
<1>1. Grown(e, f, 0) /\ f.ret = 1
  BY ReadyHas, RetGrows
<1>. HIDE DEF f
<1>2. Ready(c, n, m, f)
  BY <1>1, ReadyStays
<1>3. f.buf # <<>>
  BY <1>2, ReadyHas
<1>4. Outcome(c, n, m, f)
  BY <1>1, <1>2, <1>3 DEF Ready, Outcome
<1>. QED  BY <1>4 DEF Done, f

\* A handler may take the key and rewrite the vowels of the word.
LEMMA RewriteDone ==
  ASSUME NEW c, NEW n, NEW m, NEW e, Ready(c, n, m, e), n >= 1, NEW change
  PROVE  Done(c, n, m, Rewrite(e, change))
<1>. DEFINE f == RewriteAt(e, VStart(e), change.to, change.vs)
<1>1. Grown(e, f, 0)
  BY ReadyHas, RewriteAtGrows
<1>. HIDE DEF f
<1>2. Ready(c, n, m, f)
  BY <1>1, ReadyStays
<1>3. Rewrite(e, change) \in {AsText(e), Undo(f), Ret(f, 1)}
  BY DEF Rewrite, Rewritten, f
<1>. QED  BY <1>2, <1>3, TextGoes, RetDone

\* The handler of the circumflex is done in one of these ways.
LEMMA RoofDone ==
  ASSUME NEW c, NEW n, NEW m, NEW e, Ready(c, n, m, e)
  PROVE  Done(c, n, m, processRoof(e))
<1>. DEFINE change == RoofChange(e, VSeqList[VSeq(e)], Roofed(VSeq(e), VSeqList[VSeq(e)]))
<1>1. hasVowel(e) => processRoof(e) = Rewrite(e, change)
  BY DEF processRoof
<1>. HIDE DEF change
<1>2. hasVowel(e) => n >= 1
  BY ReadyHas DEF hasVowel
<1>3. ~hasVowel(e) => processRoof(e) = AsText(e)
  BY DEF processRoof
<1>. QED  BY <1>1, <1>2, <1>3, RewriteDone, TextGoes

\* So is that of the horn and the breve.
LEMMA HookDone ==
  ASSUME NEW c, NEW n, NEW m, NEW e, Ready(c, n, m, e)
  PROVE  Done(c, n, m, processHook(e))
<1>. DEFINE change == HookChange(e, VSeqList[VSeq(e)])
<1>1. hasVowel(e) => processHook(e) = Rewrite(e, change)
  BY DEF processHook
<1>. HIDE DEF change
<1>2. hasVowel(e) => n >= 1
  BY ReadyHas DEF hasVowel
<1>3. ~hasVowel(e) => processHook(e) = AsText(e)
  BY DEF processHook
<1>. QED  BY <1>1, <1>2, <1>3, RewriteDone, TextGoes

\* A tone that is put at a place of the word is done so too.
LEMMA ToneAtDone ==
  ASSUME NEW c, NEW n, NEW m, NEW e, Ready(c, n, m, e), n >= 1, NEW pos
  PROVE  Done(c, n, m, ToneAt(e, pos))
<1>1. \A t : Ready(c, n, m, SetTone(e, pos, t))
  BY ReadyHas, ReadyStays, SetToneGrows
<1>2. ToneAt(e, pos) \in {Ret(SetTone(e, pos, e.ev.tone), 1), Undo(SetTone(e, pos, 0)), AsText(e)}
  BY DEF ToneAt
<1>. QED  BY <1>1, <1>2, TextGoes, RetDone

\* So is the handler of the tones.
LEMMA ToneDone ==
  ASSUME NEW c, NEW n, NEW m, NEW e, Ready(c, n, m, e)
  PROVE  Done(c, n, m, processTone(e))
<1>1. \/ processTone(e) = AsText(e)
      \/ e.buf # <<>> /\ processTone(e) \in {ToneAt(e, Len(e.buf)), ToneAt(e, Len(e.buf) - 1), ToneAt(e, TonePos(e))}
  BY DEF processTone, hasVowel
<1>2. e.buf # <<>> => n >= 1
  BY ReadyHas
<1>. QED  BY <1>1, <1>2, ToneAtDone, TextGoes

\* The letter at p becomes a d or a barred d.
Become(s, p, letter) == WithEdit(WithEdit(markChange(s, p), p, "sym", letter), p, "seq", letter)
\* A letter that becomes another stays in its place.
LEMMA BecomeStays ==
  ASSUME NEW c, NEW n, NEW m, NEW e, Ready(c, n, m, e), NEW p, NEW letter
  PROVE  Ready(c, n, m, Become(e, p, letter))
<1>. DEFINE a == markChange(e, p)
            b == WithEdit(a, p, "sym", letter)
<1>1. Ready(c, n, m, a)
  BY ReadyHas, ReadyStays, MarkChangeGrows
<1>. HIDE DEF a
<1>2. Ready(c, n, m, b)
  BY <1>1, ReadyHas, ReadyStays, EditGrows
<1>. HIDE DEF b
<1>3. Ready(c, n, m, WithEdit(b, p, "seq", letter))
  BY <1>2, ReadyHas, ReadyStays, EditGrows
<1>. QED  BY <1>3 DEF a, b, Become

\* The handler of the barred d is done in one of these ways.
LEMMA DdDone ==
  ASSUME NEW c, NEW n, NEW m, NEW e, Ready(c, n, m, e)
  PROVE  Done(c, n, m, processDd(e))
<1>. DEFINE l == Len(e.buf)
            pos == l - Top(e).c1
            one == [e EXCEPT !.single = TRUE]
            s == Become(one, l, "dd")
            t == WithEdit(WithEdit(s, l, "form", "c"), l, "c1", 0)
<1>1. Ready(c, n, m, one)
  <2>1. /\ DOMAIN one = EngineFields /\ one.buf = e.buf /\ one.keys = e.keys /\ one.ev = e.ev
        /\ one.ctl = e.ctl /\ one.then = e.then
    BY ReadyHas DEF EngineFields
  <2>. HIDE DEF one
  <2>. QED  BY <2>1, ReadyHas, ReadyEven
<1>2. \/ processDd(e) = AsText(e)
      \/ e.buf # <<>> /\ processDd(e) \in {Ret(t, 1), Ret(Become(e, pos, "dd"), 1), Undo(Become(e, pos, "d"))}
  BY DEF processDd, Become, WithEdit
<1>. HIDE DEF one
<1>3. Ready(c, n, m, s)
  BY <1>1, BecomeStays
<1>. HIDE DEF s, l
<1>4. Ready(c, n, m, t)
  <2>. DEFINE a == WithEdit(s, l, "form", "c")
  <2>1. Ready(c, n, m, a)
    <3>1. "c" \in Forms
      BY DEF Forms
    <3>. QED  BY <1>3, <3>1, ReadyHas, ReadyStays, EditGrows
  <2>. HIDE DEF a
  <2>2. Ready(c, n, m, WithEdit(a, l, "c1", 0))
    BY <2>1, ReadyHas, ReadyStays, EditGrows
  <2>. QED  BY <2>2 DEF a
<1>5. \A letter : Ready(c, n, m, Become(e, pos, letter))
  BY BecomeStays
<1>6. e.buf # <<>> => n >= 1
  BY ReadyHas
<1>. HIDE DEF t, pos
<1>. QED  BY <1>2, <1>4, <1>5, <1>6, TextGoes, RetDone

\* A letter that is the first of its word.
LEMMA FirstLetter ==
  ASSUME NEW e, EngineOK(e), e.buf = <<>>, e.ev.ch = "Vn"
  PROVE  Top(appendSymbol(e)).form \in {"v", "c"}
<1>. DEFINE v == Push(e, Word("v", -1, 0, -1, lookupVSeq(<<e.ev.sym.sym>>), e.ev.sym))
            d == Push(e, Word("c", 0, -1, -1, lookupCSeq(<<e.ev.sym.sym>>), e.ev.sym))
<1>1. AtWordBeginning(e.buf)
  BY DEF AtWordBeginning
<1>2. appendSymbol(e) = Appended(v) \/ appendSymbol(e) = Ret(d, 0)
  <2>1. appendVowel(e) = Appended(v)
    BY <1>1 DEF appendVowel, VowelAlone
  <2>2. appendConsonnant(e) = Ret(d, 0)
    BY <1>1 DEF appendConsonnant
  <2>3. appendSymbol(e) = appendVowel(e) \/ appendSymbol(e) = appendConsonnant(e)
    BY DEF appendSymbol
  <2>. QED  BY <2>1, <2>2, <2>3
<1>3. /\ EngineOK(v) /\ Top(v).form = "v"
      /\ EngineOK(d) /\ Top(d).form = "c"
  BY PushGrows, GrownOK, WordMade DEF Forms
<1>. HIDE DEF v, d
<1>4. ASSUME NEW f, EngineOK(f), NEW r  PROVE Ret(f, r).buf = f.buf
  BY <1>4 DEF EngineOK, EngineFields, Ret
<1>5. Appended(v).buf = v.buf
  <2>1. EngineOK(markChange(v, Len(v.buf))) /\ markChange(v, Len(v.buf)).buf = v.buf
    BY <1>3, MarkChangeGrows, GrownOK
  <2>. QED  BY <1>3, <1>4, <2>1 DEF Appended
<1>. QED  BY <1>2, <1>3, <1>4, <1>5 DEF Top

\* A mapped letter that is typed twice is undone and typed as text.
LEMMA MapUndoneGoes ==
  ASSUME NEW c, NEW n, NEW m, NEW e, Ready(c, n, m, e), n >= 1
  PROVE  Done(c, n, m, MapUndone(e))
<1>. DEFINE k == markChange(e, Len(e.buf))
            t == MoveTone(k, TonePos(k), VStart(k) + TonePosition(k, k.buf[Len(e.buf) - 1].seq, TRUE))
            x == IF Top(e).form # "c" /\ Len(e.buf) > 1 /\ e.buf[Len(e.buf) - 1].form \in {"v", "cv"}
                 THEN t ELSE k
            u == Undo(Pop(x))
<1>1. MapUndone(e) = u
  BY DEF MapUndone
<1>2. Ready(c, n, m, k)
  BY ReadyHas, ReadyStays, MarkChangeGrows
<1>. HIDE DEF k
<1>3. Ready(c, n, m, t)
  BY <1>2, ReadyHas, ReadyStays, MoveToneGrows
<1>. HIDE DEF t
<1>4. Ready(c, n, m, x)
  BY <1>2, <1>3
<1>. HIDE DEF x
<1>5. Grown(x, Pop(x), -1)
  BY <1>4, ReadyHas, PopGrows
<1>. DEFINE p == Pop(x)
<1>6. /\ EngineOK(p) /\ EventOK(p.ev) /\ p.ctl = c /\ Len(p.keys) = m /\ Len(p.buf) = n - 1
  <2>1. n + (-1) = n - 1
    BY <1>4, ReadyHas
  <2>. QED  BY <1>4, <1>5, <2>1 DEF Ready, Grown
<1>. HIDE DEF p
<1>7. u = Undo(p)
  BY DEF p
<1>. HIDE DEF u
<1>8. /\ DOMAIN u = EngineFields /\ u.buf = p.buf /\ u.keys = p.keys /\ u.ev = p.ev /\ u.ctl = p.ctl
      /\ u.then = "undo"
  BY <1>6, <1>7 DEF Undo, EngineOK, EngineFields
<1>9. Going(c, n, m, u)
  BY <1>6, <1>8 DEF EngineOK, Going
<1>. QED  BY <1>1, <1>9 DEF Done

\* A mapped letter that joins the word stays, one that does not is taken back.
LEMMA MapTriedDone ==
  ASSUME NEW c, NEW n, NEW m, NEW e, Ready(c, n, m, e), NEW t, Grown(e, t, 1),
         n = 0 => Top(t).form \in {"v", "c"}
  PROVE  Done(c, n, m, MapTried(t, e.ev.key))
<1>. DEFINE p == Pop(t)
            o == [p EXCEPT !.ev = keyCodeToSymbol(e.ev.key)]
<1>1. /\ EngineOK(t) /\ EventOK(t.ev) /\ t.then = "return" /\ t.ctl = c /\ Len(t.keys) = m
      /\ Len(t.buf) = n + 1 /\ n \in Nat /\ t.buf # <<>>
  <2>1. EngineOK(t) /\ Len(t.buf) = n + 1 /\ n \in Nat
    BY DEF Ready, Grown
  <2>2. t.buf # <<>>
    BY <2>1, EngineLengths
  <2>. QED  BY <2>1, <2>2 DEF Ready, Grown
<1>2. Grown(t, p, -1)
  BY <1>1, PopGrows
<1>3. Ready(c, n, m, p)
  <2>1. (n + 1) + (-1) = n
    BY <1>1
  <2>. QED  BY <1>1, <1>2, <2>1 DEF Grown, Ready
<1>. HIDE DEF p
<1>4. Ready(c, n, m, o)
  <2>1. /\ DOMAIN o = EngineFields /\ o.buf = p.buf /\ o.keys = p.keys /\ o.then = p.then /\ o.ctl = p.ctl
        /\ o.ev = keyCodeToSymbol(e.ev.key)
    BY <1>3, ReadyHas DEF EngineFields
  <2>2. EventOK(o.ev)
    <3>1. getCharType(e.ev.key) # "Reset"
      BY DEF Ready, EventOK
    <3>. QED  BY <2>1, <3>1, TextEvent
  <2>. HIDE DEF o
  <2>. QED  BY <1>3, <2>1, <2>2, ReadyEven
<1>5. \/ MapTried(t, e.ev.key) = Ret(t, 1)
      \/ MapTried(t, e.ev.key) \in {MapUndone(o), AsText(o)} /\ n >= 1
  <2>1. CASE Top(t).form \notin {"empty", "nonVn"}
    BY <1>1, <2>1 DEF MapTried
  <2>2. CASE Top(t).form \in {"empty", "nonVn"}
    <3>1. n >= 1
      <4>1. n # 0
        BY <2>2
      <4>. QED  BY <1>1, <4>1
    <3>2. MapTried(t, e.ev.key) \in {MapUndone(o), AsText(o)}
      BY <1>1, <2>2 DEF MapTried, p, o
    <3>. QED  BY <3>1, <3>2
  <2>. QED  BY <2>1, <2>2
<1>. HIDE DEF o
<1>6. Done(c, n, m, Ret(t, 1))
  <2>. DEFINE f == Ret(t, 1)
  <2>1. DOMAIN f = EngineFields /\ f.buf = t.buf /\ f.keys = t.keys /\ f.ev = t.ev /\ f.then = t.then
        /\ f.ctl = t.ctl /\ f.ret = 1
    BY <1>1 DEF EngineOK, EngineFields, Ret
  <2>. HIDE DEF f
  <2>2. Outcome(c, n, m, f)
    BY <1>1, <2>1 DEF EngineOK, Outcome
  <2>. QED  BY <2>2 DEF Done, f
<1>. QED  BY <1>4, <1>5, <1>6, MapUndoneGoes, TextGoes

\* The handler of the mapped letters is done in one of these ways.
LEMMA MapCharDone ==
  ASSUME NEW c, NEW n, NEW m, NEW e, Ready(c, n, m, e), e.ev.ch = "Vn"
  PROVE  Done(c, n, m, processMapChar(e))
<1>. DEFINE f == [e EXCEPT !.ev.sym.caps = @ # e.ctl.lock]
            g == [e EXCEPT !.ev = [e.ev EXCEPT !.sym = [e.ev.sym EXCEPT !.caps = e.ev.sym.caps # e.ctl.lock]]]
<1>0. f = g
  OBVIOUS
<1>1. /\ DOMAIN g = EngineFields /\ g.buf = e.buf /\ g.keys = e.keys /\ g.then = e.then /\ g.ctl = e.ctl
      /\ g.ev = [e.ev EXCEPT !.sym = [e.ev.sym EXCEPT !.caps = e.ev.sym.caps # e.ctl.lock]]
  BY ReadyHas DEF EngineFields
<1>2. EventOK(g.ev) /\ g.ev.ch = "Vn" /\ g.ev.key = e.ev.key
  <2>. DEFINE s == [e.ev.sym EXCEPT !.caps = e.ev.sym.caps # e.ctl.lock]
              v == [e.ev EXCEPT !.sym = s]
  <2>1. EventOK(e.ev)
    BY ReadyHas
  <2>. HIDE DEF s
  <2>2. DOMAIN v = DOMAIN e.ev /\ v.type = e.ev.type /\ v.ch = e.ev.ch /\ v.key = e.ev.key
    BY <2>1 DEF EventOK
  <2>3. g.ev = v
    BY <1>1 DEF s
  <2>. HIDE DEF v, g
  <2>. QED  BY <2>1, <2>2, <2>3 DEF EventOK
<1>3. processMapChar(e) = MapTried(appendSymbol(g), g.ev.key)
  BY <1>0, <1>2 DEF processMapChar
<1>. HIDE DEF f, g
<1>4. Ready(c, n, m, g)
  BY <1>1, <1>2, ReadyEven
<1>5. Grown(g, appendSymbol(g), 1)
  BY <1>2, <1>4, ReadyHas, AppendSymbolGrows
<1>6. n = 0 => Top(appendSymbol(g)).form \in {"v", "c"}
  <2>1. n = 0 => g.buf = <<>>
    <3>1. ~(0 >= 1)
      OBVIOUS
    <3>. QED  BY <1>4, <3>1, ReadyHas
  <2>. QED  BY <1>2, <1>4, <2>1, ReadyHas, FirstLetter
<1>. QED  BY <1>3, <1>4, <1>5, <1>6, MapTriedDone

\* The event changed in one field.
EvFields == {"type", "ch", "key", "sym", "tone"}
WithEv(e, f, x) == [e EXCEPT !.ev[f] = x]
SameButEv(e, a) ==
  DOMAIN a = EngineFields /\ a.buf = e.buf /\ a.keys = e.keys /\ a.then = e.then /\ a.ctl = e.ctl

\* A field of the event that is rewritten leaves its others and the engine alone.
LEMMA EvChanged ==
  ASSUME NEW e, DOMAIN e = EngineFields, DOMAIN e.ev = EvFields, NEW f \in EvFields, NEW x
  PROVE  LET a == WithEv(e, f, x)
         IN  /\ SameButEv(e, a) /\ DOMAIN a.ev = EvFields
             /\ \A g \in EvFields : a.ev[g] = IF g = f THEN x ELSE e.ev[g]
<1>. DEFINE v == [e.ev EXCEPT ![f] = x]
            a == [e EXCEPT !.ev = v]
<1>1. DOMAIN v = EvFields /\ \A g \in EvFields : v[g] = IF g = f THEN x ELSE e.ev[g]
  OBVIOUS
<1>2. a = WithEv(e, f, x)
  BY DEF WithEv
<1>. HIDE DEF v
<1>3. DOMAIN a = EngineFields /\ a.buf = e.buf /\ a.keys = e.keys /\ a.then = e.then /\ a.ctl = e.ctl /\ a.ev = v
  BY DEF EngineFields
<1>. HIDE DEF a
<1>. QED  BY <1>1, <1>2, <1>3 DEF SameButEv

\* One attempt of the w of Telex, as a letter or as a mark, has an outcome.
LEMMA TelexWAsDone ==
  ASSUME NEW c, NEW n, NEW m, NEW e, Ready(c, n, m, e), NEW mapChar
  PROVE  Outcome(c, n, m, TelexWAs(e, mapChar))
<1>. DEFINE letter == Symbol("uh", (e.ev.key \in Upper) # e.ctl.lock, 0)
            x == WithEv(e, "type", "MapChar")
            y == WithEv(x, "ch", "Vn")
            a == WithEv(y, "sym", letter)
            b == WithEv(e, "type", "HookAll")
<1>1. TelexWAs(e, mapChar) = Finish(IF mapChar THEN processMapChar(a) ELSE processHook(b))
  BY DEF TelexWAs, WithEv
<1>. HIDE DEF letter
<1>2. DOMAIN e = EngineFields /\ DOMAIN e.ev = EvFields /\ EventOK(e.ev)
  BY ReadyHas DEF EventOK, EvFields
<1>3. /\ "type" \in EvFields /\ "ch" \in EvFields /\ "sym" \in EvFields /\ "key" \in EvFields
      /\ "type" # "ch" /\ "type" # "sym" /\ "ch" # "sym" /\ "key" \notin {"type", "ch", "sym"}
  BY DEF EvFields
<1>4. SameButEv(e, x) /\ DOMAIN x.ev = EvFields /\ \A g \in EvFields : x.ev[g] = IF g = "type" THEN "MapChar" ELSE e.ev[g]
  BY <1>2, <1>3, EvChanged
<1>5. SameButEv(e, b) /\ DOMAIN b.ev = EvFields /\ \A g \in EvFields : b.ev[g] = IF g = "type" THEN "HookAll" ELSE e.ev[g]
  BY <1>2, <1>3, EvChanged
<1>. HIDE DEF x, b
<1>6. SameButEv(x, y) /\ DOMAIN y.ev = EvFields /\ \A g \in EvFields : y.ev[g] = IF g = "ch" THEN "Vn" ELSE x.ev[g]
  BY <1>3, <1>4, EvChanged DEF SameButEv
<1>. HIDE DEF y
<1>7. SameButEv(y, a) /\ DOMAIN a.ev = EvFields /\ \A g \in EvFields : a.ev[g] = IF g = "sym" THEN letter ELSE y.ev[g]
  BY <1>3, <1>6, EvChanged DEF SameButEv
<1>. HIDE DEF a
<1>8. a.ev.type = "MapChar" /\ a.ev.ch = "Vn" /\ a.ev.key = e.ev.key
  BY <1>3, <1>4, <1>6, <1>7
<1>9. b.ev.type = "HookAll" /\ b.ev.ch = e.ev.ch /\ b.ev.key = e.ev.key
  BY <1>3, <1>5
<1>10. EventOK(a.ev) /\ EventOK(b.ev)
  BY <1>2, <1>5, <1>7, <1>8, <1>9 DEF EventOK, EvFields, EventTypes, HookEvents
<1>11. Ready(c, n, m, a) /\ Ready(c, n, m, b)
  BY <1>4, <1>5, <1>6, <1>7, <1>10, ReadyEven DEF SameButEv
<1>12. Done(c, n, m, processMapChar(a)) /\ Done(c, n, m, processHook(b))
  BY <1>8, <1>11, MapCharDone, HookDone
<1>13. n \in Nat /\ m \in Nat
  BY ReadyHas
<1>. QED  BY <1>1, <1>12, <1>13, FinishGives DEF Done

\* So has the handler, which makes one or two attempts.
LEMMA TelexWDone ==
  ASSUME NEW c, NEW n, NEW m, NEW e, Ready(c, n, m, e)
  PROVE  Outcome(c, n, m, processTelexW(e))
<1>. DEFINE first == TelexWAs(e, e.telexW)
            used == ~e.telexW
            r == Retract(first, used)
<1>1. Outcome(c, n, m, first)
  BY TelexWAsDone
<1>2. processTelexW(e) = IF first.ret # 0 THEN first ELSE TelexWAs(r, used)
  BY DEF processTelexW, TelexWAgain
<1>. HIDE DEF first, used
<1>3. ASSUME first.ret = 0  PROVE Outcome(c, n, m, TelexWAs(r, used))
  <2>1. /\ EngineOK(first) /\ first.then = "return" /\ EventOK(first.ev) /\ Len(first.keys) = m
        /\ first.ctl = c /\ first.buf # <<>> /\ Len(first.buf) = n + 1
    BY <1>1, <1>3 DEF Outcome
  <2>. DEFINE b == Front(first.buf)
  <2>2. Items("word", b) /\ Len(b) = Len(first.buf) - 1
    BY <2>1, ItemsFront DEF EngineOK
  <2>. HIDE DEF b
  <2>3. r = [first EXCEPT !.buf = b, !.telexW = used]
    BY <2>1 DEF Retract, b
  <2>. HIDE DEF r
  <2>4. /\ DOMAIN r = EngineFields /\ r.buf = b /\ r.keys = first.keys /\ r.ev = first.ev
        /\ r.then = first.then /\ r.ctl = first.ctl
    BY <2>1, <2>3 DEF EngineOK, EngineFields
  <2>5. n \in Nat /\ m \in Nat
    BY ReadyHas
  <2>6. Len(b) = n
    BY <2>1, <2>2, <2>5
  <2>7. Ready(c, n, m, r)
    BY <2>1, <2>2, <2>4, <2>5, <2>6 DEF Ready, EngineOK
  <2>. QED  BY <2>7, TelexWAsDone
<1>. QED  BY <1>1, <1>2, <1>3

\* The handler of the escape character is done in one of these ways.
LEMMA EscCharDone ==
  ASSUME NEW c, NEW n, NEW m, NEW e, Ready(c, n, m, e)
  PROVE  Done(c, n, m, processEscChar(e))
<1>. DEFINE x == e.esc \/ (e.buf # <<>> /\ Top(e).form \notin {"empty", "nonVn"})
            f == [e EXCEPT !.esc = x]
<1>1. processEscChar(e) = AsText(f)
  BY DEF processEscChar
<1>. HIDE DEF x
<1>2. /\ DOMAIN f = EngineFields /\ f.buf = e.buf /\ f.keys = e.keys /\ f.then = e.then /\ f.ctl = e.ctl
      /\ f.ev = e.ev
  BY ReadyHas DEF EngineFields
<1>. HIDE DEF f
<1>3. Ready(c, n, m, f)
  BY <1>2, ReadyHas, ReadyEven
<1>. QED  BY <1>1, <1>3, TextGoes

\* Whatever the key means, its handler is done in one of these ways (UkKeyProcList).
LEMMA KeyProcDone ==
  ASSUME NEW c, NEW n, NEW m, NEW e, Ready(c, n, m, e)
  PROVE  Done(c, n, m, UkKeyProc(e))
<1>1. e.ev.type \in EventTypes /\ (e.ev.type = "MapChar" => e.ev.ch = "Vn")
  BY ReadyHas DEF EventOK
<1>2. \/ UkKeyProc(e) \in {processRoof(e), processHook(e), processTone(e), processDd(e), processTelexW(e),
                           processEscChar(e), AsText(e)}
      \/ UkKeyProc(e) = processMapChar(e) /\ e.ev.type = "MapChar"
  BY <1>1 DEF UkKeyProc, EventTypes
<1>3. Done(c, n, m, processTelexW(e))
  BY TelexWDone DEF Done
<1>. QED  BY <1>1, <1>2, <1>3, RoofDone, HookDone, ToneDone, DdDone, EscCharDone, MapCharDone, TextGoes

\* Any key that is no control code.
LEMMA HandledDone ==
  ASSUME NEW c, NEW n, NEW m, NEW e, Ready(c, n, m, e), NEW escaping
  PROVE  Outcome(c, n, m, Handled(e, escaping))
<1>. DEFINE p == Pop(e)
            i == InPlace(p)
            refused == e.buf = <<>> \/ e.ev.type \in {"Normal", "EscChar"}
            h == CASE ~escaping -> UkKeyProc(e)
                   [] escaping /\ refused -> AsText(e)
                   [] OTHER -> i
<1>1. Handled(e, escaping) = Finish(h)
  BY DEF Handled
<1>2. h \in {UkKeyProc(e), AsText(e)} \/ (h = i /\ e.buf # <<>>)
  OBVIOUS
<1>. HIDE DEF h
<1>3. ASSUME e.buf # <<>>  PROVE Done(c, n, m, i)
  <2>1. Grown(e, p, -1) /\ n >= 1
    BY <1>3, ReadyHas, PopGrows
  <2>2. EngineOK(p) /\ EventOK(p.ev) /\ p.ctl = c /\ Len(p.keys) = m /\ Len(p.buf) = n - 1
    <3>1. n + (-1) = n - 1
      BY ReadyHas
    <3>. QED  BY <2>1, <3>1 DEF Ready, Grown
  <2>. HIDE DEF p
  <2>3. /\ DOMAIN i = EngineFields /\ i.buf = p.buf /\ i.keys = p.keys /\ i.ev = p.ev /\ i.ctl = p.ctl
        /\ i.then = "replace"
    BY <2>2 DEF InPlace, EngineOK, EngineFields
  <2>. HIDE DEF i
  <2>4. Going(c, n, m, i)
    BY <2>1, <2>2, <2>3 DEF EngineOK, Going
  <2>. QED  BY <2>4 DEF Done
<1>. HIDE DEF i
<1>4. Done(c, n, m, h)
  BY <1>2, <1>3, KeyProcDone, TextGoes
<1>5. n \in Nat /\ m \in Nat
  BY ReadyHas
<1>. QED  BY <1>1, <1>4, <1>5, FinishGives DEF Done

-----------------------------------------------------------------------------
(* A key press. *)

\* A letter that starts a word of its own is changed, not added.
LEMMA SpeltGrows ==
  ASSUME NEW e, EngineOK(e)
  PROVE  Grown(e, Spelt(e), 0)
<1>. DEFINE w == Top(e)
            toned == e.ev.sym.tone # 0 /\ Len(e.buf) > 1 /\ IsOnsetVowel(e.buf[Len(e.buf) - 1], w.sym)
            vs == IF toned THEN Nil ELSE lookupVSeq(<<w.sym>>)
            new == IF w.sym \in Vowels THEN Word("v", -1, 0, -1, vs, w)
                   ELSE Word("c", 0, -1, -1, lookupCSeq(<<w.sym>>), w)
            b == [e.buf EXCEPT ![Len(e.buf)] = new]
            s == [e EXCEPT !.buf = b]
            t == markChange(s, Len(e.buf))
<1>1. Spelt(e) \in {e, Ret(s, 0), Ret(t, 1)}
  BY DEF Spelt, processNoSpellCheck
<1>2. IsItem("word", new)
  BY WordMade DEF Forms, IsItem
<1>. HIDE DEF new
<1>3. Items("word", b) /\ Len(b) = Len(e.buf)
  BY <1>2, ItemsReplace DEF EngineOK
<1>4. Len(b) = Len(e.buf) + 0
  BY <1>3, EngineLengths
<1>. HIDE DEF b
<1>5. Grown(e, s, 0) /\ EngineOK(s)
  BY <1>3, <1>4, BufGrows, GrownOK
<1>. HIDE DEF s
<1>6. Grown(s, Ret(s, 0), 0) /\ Grown(s, t, 0) /\ EngineOK(t)
  BY <1>5, RetGrows, MarkChangeGrows, GrownOK
<1>7. Grown(t, Ret(t, 1), 0)
  BY <1>6, RetGrows
<1>. HIDE DEF t
<1>8. Grown(e, Ret(s, 0), 0) /\ Grown(e, t, 0)
  BY <1>5, <1>6, GrownAfter
<1>9. Grown(e, Ret(t, 1), 0)
  BY <1>7, <1>8, GrownAfter
<1>. QED  BY <1>1, <1>8, <1>9, GrownSelf

\* The key stroke goes with what it typed.
LEMMA RecordedHas ==
  ASSUME NEW e, EngineOK(e), NEW k, getCharType(k) # "Reset"
  PROVE  LET r == Recorded(e, k)
         IN  /\ EngineOK(r) /\ r.buf = e.buf
             /\ e.buf = <<>> => r.keys = e.keys
             /\ e.buf # <<>> => Len(r.keys) = Len(e.keys) + 1
<1>. DEFINE s == [key |-> k, brk |-> getCharType(k) = "WordBreak", conv |-> e.ret # 0 /\ ~e.restored]
            ks == Append(e.keys, s)
            f == [e EXCEPT !.keys = ks]
<1>1. IsItem("stroke", s)
  BY DEF IsItem, IsStroke, StrokeFields
<1>2. Recorded(e, k) = IF e.buf = <<>> THEN e ELSE f
  BY DEF Recorded
<1>. HIDE DEF s
<1>3. Items("stroke", ks) /\ Len(ks) = Len(e.keys) + 1
  BY <1>1, ItemsAppend DEF EngineOK
<1>. HIDE DEF ks
<1>4. DOMAIN f = EngineFields /\ f.buf = e.buf /\ f.keys = ks
  BY DEF EngineOK, EngineFields
<1>. HIDE DEF f
<1>5. EngineOK(f)
  BY <1>3, <1>4 DEF EngineOK
<1>. QED  BY <1>2, <1>3, <1>4, <1>5

\* A call that found n entries and m key strokes has typed, cleared or restored.
Result(c, n, m, r) ==
  /\ EngineOK(r)
  /\ \/ Len(r.keys) = m + 1 /\ Len(r.buf) \in {n, n + 1} /\ Len(r.buf) >= 1
     \/ r.buf = <<>> /\ r.keys = <<>>
     \/ /\ c.options.autoNonVnRestore /\ Len(r.keys) = m + 1
        /\ \E l \in Nat : Len(r.buf) = l + 1 /\ Replays(n, m, l)

\* When the key stroke is recorded, the arrays have the sizes the specification allows.
LEMMA OutcomeResult ==
  ASSUME NEW c, NEW n \in Nat, NEW m \in Nat, NEW f, Outcome(c, n, m, f), NEW k, getCharType(k) # "Reset"
  PROVE  Result(c, n, m, Recorded(Spelt(f), k))
<1>. DEFINE s == Spelt(f)
            r == Recorded(s, k)
<1>1. EngineOK(f)
  BY DEF Outcome
<1>2. EngineOK(s) /\ s.keys = f.keys /\ Len(s.buf) = Len(f.buf)
  <2>1. Grown(f, s, 0) /\ Len(f.buf) \in Nat
    BY <1>1, SpeltGrows, EngineLengths
  <2>. HIDE DEF s
  <2>. QED  BY <2>1 DEF Grown
<1>. HIDE DEF s
<1>3. /\ EngineOK(r) /\ r.buf = s.buf
      /\ s.buf = <<>> => r.keys = s.keys
      /\ s.buf # <<>> => Len(r.keys) = Len(s.keys) + 1
  BY <1>2, RecordedHas
<1>. HIDE DEF r
<1>4. /\ s.buf = <<>> <=> f.buf = <<>>
      /\ s.buf # <<>> => Len(s.buf) >= 1
  BY <1>1, <1>2, EngineLengths
<1>5. CASE f.buf = <<>> /\ f.keys = <<>>
  BY <1>2, <1>3, <1>4, <1>5 DEF Result, r, s
<1>6. CASE Len(f.keys) = m /\ f.buf # <<>> /\ Len(f.buf) \in {n, n + 1}
  BY <1>2, <1>3, <1>4, <1>6 DEF Result, r, s
<1>7. CASE /\ c.options.autoNonVnRestore /\ Len(f.keys) = m
           /\ \E l \in Nat : Len(f.buf) = l + 1 /\ Replays(n, m, l)
  <2>1. PICK l \in Nat : Len(f.buf) = l + 1 /\ Replays(n, m, l)
    BY <1>7
  <2>2. f.buf # <<>>
    <3>1. l + 1 # 0
      OBVIOUS
    <3>. QED  BY <1>1, <2>1, <3>1, EngineLengths
  <2>. QED  BY <1>2, <1>3, <1>4, <1>7, <2>2 DEF Result, r, s
<1>. QED  BY <1>5, <1>6, <1>7 DEF Outcome

\* prepareBuffer leaves what UkBuffer says it does.
LEMMA PreparedAs ==
  ASSUME NEW e, EngineOK(e), e.buf = buf, e.keys = keys
  PROVE  LET p == prepareBuffer(e)
         IN  /\ EngineOK(p) /\ p.then = e.then /\ p.ctl = e.ctl
             /\ Len(p.buf) - 1 \in Buffers!PreparedChars
             /\ Len(p.keys) - 1 = Buffers!PreparedKeys
<1>. DEFINE p == prepareBuffer(e)
            b == PreparedBuf(e)
            ks == PreparedKeys(e)
            l == Len(e.buf)
            m == Len(e.keys)
<1>1. /\ l \in Nat /\ (e.buf = <<>> <=> l = 0) /\ Items("word", e.buf)
      /\ m \in Nat /\ Items("stroke", e.keys)
  BY EngineLengths DEF EngineOK
<1>2. /\ DOMAIN p = EngineFields /\ p.buf = b /\ p.keys = ks /\ p.then = e.then /\ p.ctl = e.ctl
  BY DEF prepareBuffer, EngineOK, EngineFields
<1>. HIDE DEF p
<1>3. Items("word", b) /\ Len(b) - 1 \in Buffers!PreparedChars
  <2>1. CASE ~NearlyFull(e)
    <3>1. b = e.buf
      BY <2>1 DEF PreparedBuf
    <3>. HIDE DEF b
    <3>2. ~(l - 1 >= 0 /\ l - 1 + Slack >= BufSize)
      BY <1>1, <2>1 DEF NearlyFull
    <3>3. Buffers!PreparedChars = {Len(buf) - 1}
      BY <3>2 DEF Buffers!PreparedChars
    <3>. QED  BY <1>1, <3>1, <3>3
  <2>2. CASE NearlyFull(e)
    <3>1. l - 1 >= 0 /\ l - 1 + Slack >= BufSize
      BY <1>1, <2>2 DEF NearlyFull
    <3>2. Buffers!PreparedChars = {-1} \cup {(l - 1) - (rid + 1) : rid \in (l - 1) \div 2 .. (l - 1) - 1}
      BY <3>1 DEF Buffers!PreparedChars
    <3>3. CASE BreaksInYoungerHalf(e) = {}
      <4>1. b = <<>>
        BY <2>2, <3>3 DEF PreparedBuf
      <4>2. <<>> \in Seq({}) /\ Len(<<>>) = 0
        BY EmptySeq
      <4>. HIDE DEF b
      <4>. QED  BY <3>2, <4>1, <4>2 DEF Items
    <3>4. CASE BreaksInYoungerHalf(e) # {}
      <4>. DEFINE B == BreaksInYoungerHalf(e)
                  i == Min(B)
      <4>1. b = SubSeq(e.buf, i + 1, l)
        BY <2>2, <3>4 DEF PreparedBuf
      <4>2. (l - 1) \div 2 \in Nat
        BY <1>1, <3>1
      <4>3. B \subseteq (l - 1) \div 2 + 1 .. l - 1
        BY DEF BreaksInYoungerHalf
      <4>4. i \in B
        <5>1. B \subseteq Nat
          BY <1>1, <4>2, <4>3
        <5>. HIDE DEF B
        <5>2. \E x \in B : \A y \in B : x <= y
          BY <3>4, <5>1, Q!LeastNumber DEF B
        <5>. QED  BY <5>2 DEF Min
      <4>. HIDE DEF i, B, b
      <4>. DEFINE rid == i - 1
      <4>5. /\ i + 1 \in 1 .. l + 1 /\ l \in (i + 1) - 1 .. l
            /\ rid \in (l - 1) \div 2 .. (l - 1) - 1
            /\ (l - (i + 1) + 1) - 1 = (l - 1) - (rid + 1)
        BY <1>1, <4>2, <4>3, <4>4
      <4>6. Items("word", b) /\ Len(b) = l - (i + 1) + 1
        BY <1>1, <4>1, <4>5, ItemsPart
      <4>. HIDE DEF rid, l
      <4>. QED  BY <3>2, <4>5, <4>6
    <3>. QED  BY <3>3, <3>4
  <2>. QED  BY <2>1, <2>2
<1>4. Items("stroke", ks) /\ Len(ks) - 1 = Buffers!PreparedKeys
  <2>0. KeyBufSize \in Nat
    BY SizesAssumption
  <2>1. CASE m > 1 /\ m >= KeyBufSize
    <3>. DEFINE h == (m - 1) \div 2
    <3>1. ks = SubSeq(e.keys, h + 1, m)
      BY <2>1 DEF PreparedKeys
    <3>2. h \in Nat /\ h <= m - 1
      BY <1>1, <2>1
    <3>. HIDE DEF h, ks
    <3>3. h + 1 \in 1 .. m + 1 /\ m \in (h + 1) - 1 .. m /\ (m - (h + 1) + 1) - 1 = (m - 1) - h
      BY <1>1, <3>2
    <3>4. Items("stroke", ks) /\ Len(ks) = m - (h + 1) + 1
      BY <1>1, <3>1, <3>3, ItemsPart
    <3>5. m - 1 > 0 /\ (m - 1) + 1 >= KeyBufSize
      BY <1>1, <2>0, <2>1
    <3>6. Buffers!PreparedKeys = (m - 1) - h
      BY <3>5 DEF Buffers!PreparedKeys, h
    <3>. QED  BY <3>3, <3>4, <3>6
  <2>2. CASE ~(m > 1 /\ m >= KeyBufSize)
    <3>1. ks = e.keys
      BY <2>2 DEF PreparedKeys
    <3>2. ~(m - 1 > 0 /\ (m - 1) + 1 >= KeyBufSize)
      BY <1>1, <2>0, <2>2
    <3>3. Buffers!PreparedKeys = m - 1
      BY <3>2 DEF Buffers!PreparedKeys
    <3>. QED  BY <1>1, <3>1, <3>3
  <2>. QED  BY <2>1, <2>2
<1>. HIDE DEF b, ks
<1>. QED  BY <1>2, <1>3, <1>4 DEF EngineOK, p

\* A key empties both arrays, or adds to them from where prepareBuffer left them.
LEMMA ProcessGives ==
  ASSUME NEW e, EngineOK(e), e.then = "return", e.ctl.method \in Methods, e.buf = buf, e.keys = keys, NEW k
  PROVE  LET p == prepareBuffer(e)
             r == process(e, k)
         IN  \/ EngineOK(r) /\ r.buf = <<>> /\ r.keys = <<>>
             \/ Result(e.ctl, Len(p.buf), Len(p.keys), r)
<1>. DEFINE p == prepareBuffer(e)
            ev == keyCodeToEvent(p.ctl.method, k)
            b == Begun(p, k)
            h == Handled(b, e.esc)
            n == Len(p.buf)
            m == Len(p.keys)
<1>1. EngineOK(p) /\ p.then = "return" /\ p.ctl = e.ctl
  BY PreparedAs
<1>2. process(e, k) = Recorded(Spelt(h), k)
  BY DEF process
<1>3. n \in Nat /\ m \in Nat
  BY <1>1, EngineLengths
<1>. HIDE DEF p
<1>4. /\ getCharType(k) # "Reset" => EventOK(ev)
      /\ getCharType(k) = "Reset" => ev.type = "Normal" /\ ev.ch = "Reset"
  BY <1>1, EventMade
<1>. HIDE DEF ev
<1>5. /\ DOMAIN b = EngineFields /\ b.buf = p.buf /\ b.keys = p.keys /\ b.then = p.then /\ b.ctl = p.ctl
      /\ b.ev = ev
  BY <1>1 DEF Begun, EngineOK, EngineFields, ev
<1>. HIDE DEF b
<1>6. EngineOK(b)
  BY <1>1, <1>5 DEF EngineOK
<1>7. CASE getCharType(k) # "Reset"
  <2>1. Ready(e.ctl, n, m, b)
    BY <1>1, <1>3, <1>4, <1>5, <1>6, <1>7 DEF Ready
  <2>2. Outcome(e.ctl, n, m, h)
    BY <2>1, HandledDone
  <2>. HIDE DEF h, n, m
  <2>3. Result(e.ctl, n, m, Recorded(Spelt(h), k))
    BY <1>3, <1>7, <2>2, OutcomeResult
  <2>. QED  BY <1>2, <2>3 DEF p, n, m
<1>8. CASE getCharType(k) = "Reset"
  <2>. DEFINE t == AsText(b)
              a == appendSymbol(t)
  <2>1. b.ev.type = "Normal" /\ b.ev.ch = "Reset"
    BY <1>4, <1>5, <1>8
  <2>2. h = Finish(t)
    <3>1. UkKeyProc(b) = AsText(b)
      BY <2>1 DEF UkKeyProc, RoofEvents, HookEvents, ToneEvents
    <3>. QED  BY <2>1, <3>1 DEF Handled
  <2>3. EngineOK(t) /\ t.ev = b.ev /\ t.then = "append"
    <3>1. /\ DOMAIN t = EngineFields /\ t.buf = b.buf /\ t.keys = b.keys /\ t.ev = b.ev /\ t.then = "append"
      BY <1>6 DEF AsText, EngineOK, EngineFields
    <3>. HIDE DEF t
    <3>. QED  BY <1>6, <3>1 DEF EngineOK
  <2>. HIDE DEF t, h
  <2>4. EngineOK(a) /\ a.buf = <<>> /\ a.keys = <<>>
    BY <2>1, <2>3, AppendResets
  <2>5. h = Appending(a, "append")
    BY <2>1, <2>2, <2>3 DEF Finish, processAppend
  <2>. HIDE DEF a
  <2>6. EngineOK(h) /\ h.buf = <<>> /\ h.keys = <<>>
    BY <2>4, <2>5, AppendingReturns
  <2>7. Recorded(Spelt(h), k) = h
    BY <2>6 DEF Spelt, Recorded
  <2>. QED  BY <1>2, <2>6, <2>7 DEF h
<1>. QED  BY <1>7, <1>8

-----------------------------------------------------------------------------
(* A backspace. *)

\* Synchronising drops key strokes only, one at least when there are any.
LEMMA SynchKeeps ==
  ASSUME NEW e, EngineOK(e)
  PROVE  LET r == synchKeyStrokeBuffer(e)
         IN  /\ EngineOK(r) /\ r.buf = e.buf /\ Len(r.keys) <= Len(e.keys)
             /\ Len(e.keys) > 0 => Len(r.keys) < Len(e.keys)
<1>. DEFINE ks == IF e.keys = <<>> THEN <<>> ELSE Front(e.keys)
            B == {i \in DOMAIN ks : ks[i].brk}
            x == Max({0} \cup B)
            cut == SubSeq(ks, 1, x)
            new == IF e.buf # <<>> /\ Top(e).form = "empty" THEN cut ELSE ks
            f == [e EXCEPT !.keys = new]
<1>1. /\ Len(e.keys) \in Nat /\ (e.keys = <<>> <=> Len(e.keys) = 0) /\ Items("stroke", e.keys)
  BY EngineLengths DEF EngineOK
<1>2. Items("stroke", ks) /\ Len(ks) <= Len(e.keys) /\ (Len(e.keys) > 0 => Len(ks) < Len(e.keys))
  <2>1. CASE e.keys = <<>>
    BY <1>1, <2>1
  <2>2. CASE e.keys # <<>>
    <3>1. Items("stroke", Front(e.keys)) /\ Len(Front(e.keys)) = Len(e.keys) - 1
      BY <1>1, <2>2, ItemsFront
    <3>2. ks = Front(e.keys)
      BY <2>2
    <3>. HIDE DEF ks
    <3>. QED  BY <1>1, <3>1, <3>2
  <2>. QED  BY <2>1, <2>2
<1>. HIDE DEF ks
<1>3. Len(ks) \in Nat /\ DOMAIN ks = 1 .. Len(ks)
  BY <1>2, ItemsLength
<1>4. x \in 0 .. Len(ks)
  BY <1>3, MaxAmong
<1>. HIDE DEF x
<1>5. Items("stroke", cut) /\ Len(cut) = x
  <2>1. 1 \in 1 .. Len(ks) + 1 /\ x \in 1 - 1 .. Len(ks) /\ x - 1 + 1 = x
    BY <1>3, <1>4
  <2>2. Items("stroke", cut) /\ Len(cut) = x - 1 + 1
    BY <1>2, <2>1, ItemsPart
  <2>. QED  BY <2>1, <2>2
<1>6. synchKeyStrokeBuffer(e) = f
  BY DEF synchKeyStrokeBuffer, ks, x
<1>. HIDE DEF cut
<1>7. Items("stroke", new) /\ Len(new) <= Len(ks) /\ Len(new) \in Nat
  BY <1>2, <1>3, <1>4, <1>5
<1>. HIDE DEF new
<1>8. DOMAIN f = EngineFields /\ f.buf = e.buf /\ f.keys = new
  BY DEF EngineOK, EngineFields
<1>. HIDE DEF f
<1>9. Len(new) <= Len(e.keys) /\ (Len(e.keys) > 0 => Len(new) < Len(e.keys))
  BY <1>1, <1>2, <1>3, <1>7
<1>. QED  BY <1>6, <1>7, <1>8, <1>9 DEF EngineOK

\* A backspace takes one letter, and a key stroke at least when there are any.
LEMMA BackspaceGives ==
  ASSUME NEW e, EngineOK(e), e.buf # <<>>
  PROVE  LET r == processBackspace(e)
         IN  /\ EngineOK(r) /\ Len(r.buf) = Len(e.buf) - 1 /\ Len(r.keys) <= Len(e.keys)
             /\ Len(e.keys) > 0 => Len(r.keys) < Len(e.keys)
<1>. DEFINE n == Len(e.buf)
            from == TonePos(e)
            to == VStart(e) + TonePosition(e, e.buf[Len(e.buf) - 1].seq, TRUE)
            o == [e EXCEPT !.changePos = n + 1]
            k == markChange(o, n)
            simple == \/ n = 1 \/ Top(e).form \in {"empty", "nonVn", "c"}
                      \/ e.buf[n - 1].form \in {"c", "vc", "cvc"}
                      \/ e.buf[from].tone = 0 \/ from = n \/ from = to
            x == IF simple THEN k ELSE MoveTone(k, from, to)
            p == synchKeyStrokeBuffer(Pop(x))
            w == [p EXCEPT !.written = TRUE]
<1>1. processBackspace(e) \in {Ret(w, 1), Ret(w, 0), Ret(p, 1)}
  BY DEF processBackspace, BackspaceFrom
<1>. HIDE DEF simple, from, to
<1>2. Grown(e, o, 0) /\ EngineOK(o)
  <2>1. /\ DOMAIN o = EngineFields /\ o.buf = e.buf /\ o.keys = e.keys /\ o.ev = e.ev /\ o.then = e.then
        /\ o.ctl = e.ctl
    BY DEF EngineOK, EngineFields
  <2>. HIDE DEF o
  <2>. QED  BY <2>1, GrownNone, GrownOK
<1>. HIDE DEF o
<1>3. Grown(o, k, 0) /\ EngineOK(k)
  BY <1>2, MarkChangeGrows, GrownOK
<1>. HIDE DEF k
<1>4. Grown(e, k, 0)
  BY <1>2, <1>3, GrownAfter
<1>5. Grown(k, MoveTone(k, from, to), 0)
  BY <1>3, MoveToneGrows
<1>6. Grown(e, x, 0) /\ EngineOK(x)
  BY <1>3, <1>4, <1>5, GrownAfter, GrownOK
<1>. HIDE DEF x
<1>7. Len(e.buf) \in Nat /\ Len(e.buf) # 0
  BY EngineLengths
<1>8. x.buf # <<>>
  <2>1. Len(x.buf) = Len(e.buf) + 0
    BY <1>6 DEF Grown
  <2>2. Len(x.buf) # 0
    BY <1>7, <2>1
  <2>. QED  BY <1>6, <2>2, EngineLengths
<1>. DEFINE q == Pop(x)
<1>9. EngineOK(q) /\ Len(q.buf) = Len(e.buf) - 1 /\ q.keys = e.keys
  <2>1. Grown(x, q, -1)
    BY <1>6, <1>8, PopGrows
  <2>2. Len(q.buf) = (Len(e.buf) + 0) + (-1) /\ (Len(e.buf) + 0) + (-1) = Len(e.buf) - 1
    BY <1>6, <1>7, <2>1 DEF Grown
  <2>. QED  BY <1>6, <2>1, <2>2 DEF Grown
<1>. HIDE DEF q
<1>10. /\ EngineOK(p) /\ p.buf = q.buf /\ Len(p.keys) <= Len(e.keys)
       /\ Len(e.keys) > 0 => Len(p.keys) < Len(e.keys)
  BY <1>9, SynchKeeps DEF q
<1>. HIDE DEF p
<1>11. EngineOK(w) /\ w.buf = p.buf /\ w.keys = p.keys
  <2>1. DOMAIN w = EngineFields /\ w.buf = p.buf /\ w.keys = p.keys
    BY <1>10 DEF EngineOK, EngineFields
  <2>. HIDE DEF w
  <2>. QED  BY <1>10, <2>1 DEF EngineOK
<1>. HIDE DEF w
<1>12. ASSUME NEW f, EngineOK(f), NEW r  PROVE EngineOK(Ret(f, r)) /\ Ret(f, r).buf = f.buf /\ Ret(f, r).keys = f.keys
  <2>. DEFINE g == Ret(f, r)
  <2>1. DOMAIN g = EngineFields /\ g.buf = f.buf /\ g.keys = f.keys
    BY <1>12 DEF EngineOK, EngineFields, Ret
  <2>. HIDE DEF g
  <2>2. EngineOK(g)
    BY <1>12, <2>1 DEF EngineOK
  <2>. QED  BY <2>1, <2>2 DEF g
<1>13. ASSUME NEW f, EngineOK(f), f.buf = p.buf, f.keys = p.keys, NEW r
       PROVE  LET g == Ret(f, r)
              IN  /\ EngineOK(g) /\ Len(g.buf) = Len(e.buf) - 1 /\ Len(g.keys) <= Len(e.keys)
                  /\ Len(e.keys) > 0 => Len(g.keys) < Len(e.keys)
  BY <1>9, <1>10, <1>12, <1>13
<1>. QED  BY <1>1, <1>10, <1>11, <1>13

-----------------------------------------------------------------------------
(* The calls of the engine's interface. *)

\* The arrays hold words and key strokes, and the method and options are ones the client has.
TypeInv ==
  /\ Items("word", buf) /\ Items("stroke", keys)
  /\ method \in Methods /\ options \in OptionSets

\* Nothing gives key strokes back: no call asks for it, and no option.
NothingRestored ==
  PassKeys = {} /\ "Restore" \notin Calls /\ \A o \in OptionSets : ~ o.autoNonVnRestore

\* What a step of the engine is in UkBuffer; NothingRestored keeps it to TypingNext.
TypeOrReset == Buffers!Type \/ Buffers!Reset \/ (options.autoNonVnRestore /\ Buffers!TypeAndRestore)

\* The engine a call finds is made of the variables.
LEMMA EngineFound ==
  ASSUME TypeInv, NEW lock, NEW shift, NEW junk
  PROVE  LET e == EngineAt(lock, shift, junk)
         IN  /\ EngineOK(e) /\ e.buf = buf /\ e.keys = keys /\ e.then = "return"
             /\ e.ctl.method = method /\ e.ctl.options = options
<1>. DEFINE e == EngineAt(lock, shift, junk)
<1>1. /\ DOMAIN e = EngineFields /\ e.buf = buf /\ e.keys = keys /\ e.then = "return"
      /\ e.ctl.method = method /\ e.ctl.options = options
  BY DEF EngineAt, EngineFields, CtlAt
<1>. HIDE DEF e
<1>. QED  BY <1>1 DEF TypeInv, EngineOK, e

\* A restored word fits what UkBuffer says of the entries it may take.
LEMMA ReplaysAre ==
  ASSUME NEW n \in Nat, NEW m \in Nat, NEW l, Replays(n, m, l)
  PROVE  l - 1 \in Buffers!Replayed(n - 1, m - 1)
<1>1. PICK s \in 0 .. n, j \in 1 .. m : l = s + j
  BY DEF Replays
<1>2. s - 1 \in -1 .. n - 1 /\ j \in 1 .. (m - 1) + 1 /\ l - 1 = (s - 1) + j
  BY <1>1
<1>3. \E start \in -1 .. n - 1, q \in 1 .. (m - 1) + 1 : l - 1 = start + q
  BY <1>2
<1>4. \A a, b, d : (\E start \in -1 .. a, q \in 1 .. b + 1 : d = start + q) => d \in Buffers!Replayed(a, b)
  BY DEF Buffers!Replayed
<1>. HIDE DEF Replays
<1>. QED  BY <1>3, <1>4, Zenon

\* The arrays after a call, when nothing else of the invariant changes.
LEMMA PutKeeps ==
  ASSUME TypeInv, NEW e, EngineOK(e), Put(e), method' \in Methods, options' \in OptionSets
  PROVE  TypeInv'
<1>1. buf' = e.buf /\ keys' = e.keys
  BY DEF Put
<1>2. Items("word", buf') /\ Items("stroke", keys')
  BY <1>1 DEF EngineOK
<1>3. Items("word", buf)' /\ Items("stroke", keys)'
  BY <1>2 DEF Items
<1>. QED  BY <1>3 DEF TypeInv

\* UnikeyFilter types, resets or restores and types.
LEMMA FilterStep ==
  ASSUME TypeInv, NEW k, NEW lock, NEW shift, NEW junk, Filter(k, lock, shift, junk)
  PROVE  TypeInv' /\ TypeOrReset
<1>. DEFINE e == EngineAt(lock, shift, junk)
            r == process(e, k)
            p == prepareBuffer(e)
            n == Len(p.buf)
            m == Len(p.keys)
<1>1. Put(r) /\ UNCHANGED <<options, method, charset>>
  BY DEF Filter, Pressed
<1>2. /\ EngineOK(e) /\ e.buf = buf /\ e.keys = keys /\ e.then = "return"
      /\ e.ctl.method = method /\ e.ctl.options = options
  BY EngineFound
<1>. HIDE DEF e
<1>3. (EngineOK(r) /\ r.buf = <<>> /\ r.keys = <<>>) \/ Result(e.ctl, n, m, r)
  BY <1>2, ProcessGives DEF TypeInv
<1>4. EngineOK(p) /\ n - 1 \in Buffers!PreparedChars /\ m - 1 = Buffers!PreparedKeys
  BY <1>2, PreparedAs
<1>5. n \in Nat /\ m \in Nat
  BY <1>4, EngineLengths
<1>. HIDE DEF p, n, m, r
<1>6. EngineOK(r)
  BY <1>3 DEF Result
<1>7. TypeInv'
  BY <1>1, <1>6, PutKeeps DEF TypeInv
<1>8. buf' = r.buf /\ keys' = r.keys
  BY <1>1 DEF Put
<1>9. CASE r.buf = <<>> /\ r.keys = <<>>
  <2>1. Len(<<>>) - 1 = -1
    BY EmptySeq
  <2>2. Buffers!Reset
    BY <1>8, <1>9, <2>1 DEF Buffers!Reset
  <2>. QED  BY <1>7, <2>2 DEF TypeOrReset
<1>10. CASE Len(r.keys) = m + 1 /\ Len(r.buf) \in {n, n + 1} /\ Len(r.buf) >= 1
  <2>1. Len(buf') - 1 \in {n - 1, (n - 1) + 1, (n - 1) + 2} /\ Len(buf') - 1 >= 0
    BY <1>5, <1>8, <1>10
  <2>2. Len(keys') - 1 = Buffers!PreparedKeys + 1
    BY <1>4, <1>5, <1>8, <1>10
  <2>3. Buffers!Type
    BY <1>4, <2>1, <2>2 DEF Buffers!Type
  <2>. QED  BY <1>7, <2>3 DEF TypeOrReset
<1>11. CASE /\ e.ctl.options.autoNonVnRestore /\ Len(r.keys) = m + 1
            /\ \E l \in Nat : Len(r.buf) = l + 1 /\ Replays(n, m, l)
  <2>1. PICK l \in Nat : Len(r.buf) = l + 1 /\ Replays(n, m, l)
    BY <1>11
  <2>2. l - 1 \in Buffers!Replayed(n - 1, Buffers!PreparedKeys)
    BY <1>4, <1>5, <2>1, ReplaysAre
  <2>3. Len(buf') - 1 = (l - 1) + 1
    BY <1>8, <2>1
  <2>4. Len(keys') - 1 = Buffers!PreparedKeys + 1
    BY <1>4, <1>5, <1>8, <1>11
  <2>5. Buffers!TypeAndRestore
    BY <1>4, <2>2, <2>3, <2>4 DEF Buffers!TypeAndRestore
  <2>. QED  BY <1>2, <1>7, <1>11, <2>5 DEF TypeOrReset
<1>. QED  BY <1>3, <1>9, <1>10, <1>11 DEF Result

\* UnikeyPutChar appends, restores and appends, or resets.
LEMMA PutCharStep ==
  ASSUME TypeInv, NEW k, NEW junk, PutChar(k, junk)
  PROVE  TypeInv' /\ (Buffers!PutChar \/ Buffers!Reset)
<1>. DEFINE o == EngineAt(FALSE, FALSE, junk)
            ev == keyCodeToEvent(method, k)
            e == [o EXCEPT !.ev = ev]
            r == processAppend(e)
            n == Len(buf)
            m == Len(keys)
<1>1. Put(r) /\ UNCHANGED <<options, method, charset>>
  BY DEF PutChar, Pressed
<1>2. /\ EngineOK(o) /\ o.buf = buf /\ o.keys = keys
  BY EngineFound
<1>3. /\ getCharType(k) # "Reset" => EventOK(ev)
      /\ getCharType(k) = "Reset" => ev.ch = "Reset"
  BY EventMade DEF TypeInv
<1>. HIDE DEF o, ev
<1>4. DOMAIN e = EngineFields /\ e.buf = buf /\ e.keys = keys /\ e.ev = ev
  BY <1>2 DEF EngineOK, EngineFields
<1>. HIDE DEF e
<1>5. EngineOK(e)
  BY <1>2, <1>4 DEF EngineOK
<1>6. n \in Nat /\ m \in Nat
  BY <1>2, EngineLengths
<1>7. Ended(e, r) \/ (EngineOK(r) /\ r.buf = <<>> /\ r.keys = <<>>)
  <2>1. CASE getCharType(k) # "Reset"
    BY <1>3, <1>4, <1>5, <2>1, AppendEnds
  <2>2. CASE getCharType(k) = "Reset"
    <3>1. r = appendSymbol(e)
      BY <1>3, <1>4, <2>2 DEF processAppend
    <3>. HIDE DEF r
    <3>. QED  BY <1>3, <1>4, <1>5, <2>2, <3>1, AppendResets
  <2>. QED  BY <2>1, <2>2
<1>. HIDE DEF r
<1>8. TypeInv'
  BY <1>1, <1>7, PutKeeps DEF TypeInv, Ended
<1>9. buf' = r.buf /\ keys' = r.keys
  BY <1>1 DEF Put
<1>10. CASE r.buf = <<>> /\ r.keys = <<>>
  <2>1. Len(<<>>) - 1 = -1
    BY EmptySeq
  <2>. QED  BY <1>8, <1>9, <1>10, <2>1 DEF Buffers!Reset
<1>11. CASE Len(r.keys) = m /\ Len(r.buf) = n + 1
  <2>1. Len(buf') - 1 = (n - 1) + 1 /\ Len(keys') - 1 = m - 1
    BY <1>6, <1>9, <1>11
  <2>. QED  BY <1>8, <2>1 DEF Buffers!PutChar
<1>12. CASE Len(r.keys) = m /\ \E l \in Nat : Len(r.buf) = l + 1 /\ Replays(n, m, l)
  <2>1. PICK l \in Nat : Len(r.buf) = l + 1 /\ Replays(n, m, l)
    BY <1>12
  <2>2. l - 1 \in Buffers!Replayed(n - 1, m - 1)
    BY <1>6, <2>1, ReplaysAre
  <2>3. Len(buf') - 1 = (l - 1) + 1 /\ Len(keys') - 1 = m - 1
    BY <1>9, <1>12, <2>1
  <2>. QED  BY <1>8, <2>2, <2>3 DEF Buffers!PutChar
<1>. QED  BY <1>4, <1>7, <1>10, <1>11, <1>12 DEF Ended

\* UnikeyRestoreKeyStrokes refuses or restores.
LEMMA RestoreStep ==
  ASSUME TypeInv, NEW junk, RestoreKeyStrokes(junk)
  PROVE  TypeInv' /\ (Buffers!RestoreKeyStrokes \/ UNCHANGED Buffers!vars)
<1>. DEFINE e == EngineAt(FALSE, FALSE, junk)
            r == restoreKeyStrokes(e)
            n == Len(buf)
            m == Len(keys)
<1>1. Put(r) /\ UNCHANGED <<options, method, charset>>
  BY DEF RestoreKeyStrokes
<1>2. EngineOK(e) /\ e.buf = buf /\ e.keys = keys
  BY EngineFound
<1>. HIDE DEF e
<1>3. \/ Grown(e, r, 0)
      \/ EngineOK(r) /\ Len(r.keys) = Len(e.keys) /\ Replays(Len(e.buf), Len(e.keys), Len(r.buf))
  BY <1>2, RestoreGrows
<1>. HIDE DEF r
<1>4. n \in Nat /\ m \in Nat
  BY <1>2, EngineLengths
<1>5. TypeInv'
  BY <1>1, <1>3, PutKeeps, GrownOK DEF TypeInv
<1>6. buf' = r.buf /\ keys' = r.keys
  BY <1>1 DEF Put
<1>7. CASE Grown(e, r, 0)
  <2>1. Len(buf') - 1 = n - 1 /\ Len(keys') - 1 = m - 1
    BY <1>2, <1>4, <1>6, <1>7 DEF Grown
  <2>. QED  BY <1>5, <2>1 DEF Buffers!vars
<1>8. CASE Len(r.keys) = Len(e.keys) /\ Replays(Len(e.buf), Len(e.keys), Len(r.buf))
  <2>1. Len(buf') - 1 \in Buffers!Replayed(n - 1, m - 1)
    BY <1>2, <1>4, <1>6, <1>8, ReplaysAre
  <2>2. Len(keys') - 1 = m - 1
    BY <1>2, <1>6, <1>8
  <2>. QED  BY <1>5, <2>1, <2>2 DEF Buffers!RestoreKeyStrokes
<1>. QED  BY <1>3, <1>7, <1>8

\* UnikeyBackspacePress.
LEMMA BackspaceStep ==
  ASSUME TypeInv, BackspacePress
  PROVE  TypeInv' /\ Buffers!Backspace
<1>. DEFINE r == processBackspace(Engine)
            n == Len(buf)
            m == Len(keys)
<1>1. Put(r) /\ UNCHANGED <<options, method, charset>> /\ buf # <<>>
  BY DEF BackspacePress
<1>2. EngineOK(Engine) /\ Engine.buf = buf /\ Engine.keys = keys
  BY EngineFound DEF Engine
<1>3. EngineOK(r) /\ Len(r.buf) = n - 1 /\ Len(r.keys) <= m /\ (m > 0 => Len(r.keys) < m)
  BY <1>1, <1>2, BackspaceGives
<1>. HIDE DEF r
<1>4. n \in Nat /\ m \in Nat /\ n # 0 /\ Len(r.keys) \in Nat
  BY <1>1, <1>2, <1>3, EngineLengths
<1>5. TypeInv'
  BY <1>1, <1>3, PutKeeps DEF TypeInv
<1>6. buf' = r.buf /\ keys' = r.keys
  BY <1>1 DEF Put
<1>7. n - 1 >= 0 /\ Len(buf') - 1 = (n - 1) - 1 /\ Len(keys') - 1 \in -1 .. m - 1
      /\ (m - 1 >= 0 => Len(keys') - 1 < m - 1)
  BY <1>3, <1>4, <1>6
<1>. QED  BY <1>5, <1>7 DEF Buffers!Backspace

\* UnikeyResetBuf and the calls that reset the engine.
LEMMA ResetStep ==
  ASSUME TypeInv, Reset, method' \in Methods, options' \in OptionSets
  PROVE  TypeInv' /\ Buffers!Reset
<1>. DEFINE r == reset(Engine)
<1>1. Put(r)
  BY DEF Reset
<1>2. EngineOK(r) /\ r.buf = <<>> /\ r.keys = <<>>
  BY EngineFound, ResetClears DEF Engine
<1>. HIDE DEF r
<1>3. buf' = <<>> /\ keys' = <<>>
  BY <1>1, <1>2 DEF Put
<1>4. Len(<<>>) - 1 = -1
  BY EmptySeq
<1>5. TypeInv'
  BY <1>1, <1>2, PutKeeps
<1>. QED  BY <1>3, <1>4, <1>5 DEF Buffers!Reset

-----------------------------------------------------------------------------
(* The engine implements UkBuffer. *)

\* At first both arrays are empty.
LEMMA InitImplements ==
  ASSUME Init
  PROVE  TypeInv /\ Buffers!Init
<1>1. Len(<<>>) = 0 /\ <<>> \in Seq({})
  BY EmptySeq
<1>2. Items("word", <<>>) /\ Items("stroke", <<>>)
  BY <1>1 DEF Items
<1>3. Len(<<>>) - 1 = -1
  BY <1>1
<1>. QED  BY <1>2, <1>3 DEF Init, TypeInv, Buffers!Init

\* Every call is a step of UkBuffer or leaves both arrays as they are; when nothing is
\* restored it types, resets or deletes.
LEMMA NextImplements ==
  ASSUME TypeInv, [Next]_vars
  PROVE  /\ TypeInv' /\ [Buffers!Next]_(Buffers!vars)
         /\ NothingRestored => [Buffers!TypingNext]_(Buffers!vars)
<1>1. ASSUME NEW k, NEW lock, NEW shift, NEW junk, Filter(k, lock, shift, junk)
      PROVE  /\ TypeInv' /\ Buffers!Next
             /\ NothingRestored => Buffers!TypingNext
  <2>1. TypeInv' /\ TypeOrReset
    BY <1>1, FilterStep
  <2>2. NothingRestored => ~ options.autoNonVnRestore
    BY DEF NothingRestored, TypeInv
  <2>. QED  BY <2>1, <2>2 DEF TypeOrReset, Buffers!Next, Buffers!TypingNext
<1>2. ASSUME NEW k \in PassKeys, NEW junk, PutChar(k, junk)
      PROVE  TypeInv' /\ Buffers!Next /\ ~NothingRestored
  BY <1>2, PutCharStep DEF NothingRestored, Buffers!Next, Buffers!TypingNext
<1>3. CASE BackspacePress
  BY <1>3, BackspaceStep DEF Buffers!Next, Buffers!TypingNext
<1>4. ASSUME NEW junk, RestoreKeyStrokes(junk)
      PROVE  TypeInv' /\ [Buffers!Next]_(Buffers!vars) /\ ~NothingRestored
  <2>1. ~NothingRestored
    BY <1>4 DEF NothingRestored, RestoreKeyStrokes
  <2>. QED  BY <1>4, <2>1, RestoreStep DEF Buffers!Next
<1>5. CASE ResetBuf \/ (\E m \in Methods : SetInputMethod(m)) \/ \E c \in Charsets : SetOutputCharset(c)
  <2>1. Reset /\ method' \in Methods /\ options' \in OptionSets
    BY <1>5 DEF ResetBuf, SetInputMethod, SetOutputCharset, Keep, TypeInv
  <2>. QED  BY <2>1, ResetStep DEF Buffers!Next, Buffers!TypingNext
<1>6. CASE SetSingleMode \/ (\E o \in OptionSets : SetOptions(o)) \/ UNCHANGED vars
  <2>1. buf' = buf /\ keys' = keys /\ method' \in Methods /\ options' \in OptionSets
    BY <1>6 DEF SetSingleMode, SetOptions, Keep, vars, TypeInv
  <2>2. Items("word", buf)' /\ Items("stroke", keys)'
    BY <2>1 DEF TypeInv, Items
  <2>3. TypeInv'
    BY <2>1, <2>2 DEF TypeInv
  <2>. QED  BY <2>1, <2>3 DEF Buffers!vars
<1>. QED  BY <1>1, <1>2, <1>3, <1>4, <1>5, <1>6 DEF Next, Press, OtherCall

\* Whatever is called, the letters and key strokes of the engine are added, dropped and
\* replaced as the specification of its two arrays says.
THEOREM EngineFillsBuffers == Spec => BufferSpec
<1>1. Init => TypeInv /\ Buffers!Init
  BY InitImplements
<1>2. TypeInv /\ [Next]_vars => TypeInv' /\ [Buffers!Next]_(Buffers!vars)
  BY NextImplements
<1>. QED  BY <1>1, <1>2, PTL DEF Spec, BufferSpec, Buffers!Spec

\* As long as no key strokes are restored, by a call or by an option, and no key goes by
\* the engine, every call of the engine is a step of typing.
LEMMA EngineTypes ==
  ASSUME NothingRestored
  PROVE  Spec => Buffers!TypingSpec
<1>1. Init => TypeInv /\ Buffers!Init
  BY InitImplements
<1>2. TypeInv /\ [Next]_vars => TypeInv' /\ [Buffers!TypingNext]_(Buffers!vars)
  BY NextImplements
<1>. QED  BY <1>1, <1>2, PTL DEF Spec, Buffers!TypingSpec

\* What is proved of UkBuffer, for the arrays of the engine.
BP == INSTANCE UkBufferProofs WITH
  current <- Len(buf) - 1, keyCurrent <- Len(keys) - 1

\* The two instances of UkBuffer, with these lengths, say the same.
LEMMA SameBuffers ==
  /\ Buffers!Init => BP!Init
  /\ [Buffers!Next]_(Buffers!vars) => [BP!Next]_(BP!vars)
  /\ [Buffers!TypingNext]_(Buffers!vars) => [BP!TypingNext]_(BP!vars)
  /\ BP!KeysInRange => Buffers!KeysInRange
  /\ BP!CharsInRange => Buffers!CharsInRange
<1>1. Buffers!Init => BP!Init
  BY DEF Buffers!Init, BP!Init
<1>2. Buffers!Type => BP!Type
  BY DEF Buffers!Type, BP!Type, Buffers!PreparedChars, BP!PreparedChars, Buffers!PreparedKeys, BP!PreparedKeys
<1>3. (Buffers!Reset => BP!Reset) /\ (Buffers!Backspace => BP!Backspace)
  BY DEF Buffers!Reset, BP!Reset, Buffers!Backspace, BP!Backspace
<1>4. \A a, b : Buffers!Replayed(a, b) = BP!Replayed(a, b)
  BY DEF Buffers!Replayed, BP!Replayed
<1>5. Buffers!RestoreKeyStrokes => BP!RestoreKeyStrokes
  BY <1>4 DEF Buffers!RestoreKeyStrokes, BP!RestoreKeyStrokes
<1>6. Buffers!TypeAndRestore => BP!TypeAndRestore
  BY <1>4 DEF Buffers!TypeAndRestore, BP!TypeAndRestore, Buffers!PreparedChars, BP!PreparedChars,
              Buffers!PreparedKeys, BP!PreparedKeys
<1>7. Buffers!PutChar => BP!PutChar
  BY <1>4 DEF Buffers!PutChar, BP!PutChar
<1>8. UNCHANGED Buffers!vars => UNCHANGED BP!vars
  BY DEF Buffers!vars, BP!vars
<1>9. BP!KeysInRange => Buffers!KeysInRange
  BY DEF BP!KeysInRange, Buffers!KeysInRange
<1>10. BP!CharsInRange => Buffers!CharsInRange
  BY DEF BP!CharsInRange, Buffers!CharsInRange
<1>11. Buffers!TypingNext => BP!TypingNext
  BY <1>2, <1>3 DEF Buffers!TypingNext, BP!TypingNext
<1>12. Buffers!Next => BP!Next
  BY <1>5, <1>6, <1>7, <1>11 DEF Buffers!Next, BP!Next
<1>. QED  BY <1>1, <1>8, <1>9, <1>10, <1>11, <1>12

\* So no call of the engine writes past m_keyStrokes.
THEOREM EngineKeysInRange == Spec => []Buffers!KeysInRange
<1>1. /\ Buffers!Init => BP!Init
      /\ [Buffers!Next]_(Buffers!vars) => [BP!Next]_(BP!vars)
      /\ BP!KeysInRange => Buffers!KeysInRange
  BY SameBuffers
<1>2. BP!Spec => []BP!KeysInRange
  BY SizesAssumption, BP!KeysAlwaysInRange, PTL
<1>. QED  BY <1>1, <1>2, EngineFillsBuffers, PTL DEF BufferSpec, Buffers!Spec, BP!Spec

\* While nothing is restored no call writes past m_buffer.
THEOREM EngineCharsInRange ==
  ASSUME NothingRestored
  PROVE  Spec => []CharsInRange
<1>1. /\ Buffers!Init => BP!Init
      /\ [Buffers!TypingNext]_(Buffers!vars) => [BP!TypingNext]_(BP!vars)
      /\ BP!CharsInRange => Buffers!CharsInRange
  BY SameBuffers
<1>2. BP!TypingSpec => []BP!CharsInRange
  BY SizesAssumption, BP!TypingCharsInRange, PTL
<1>. QED  BY <1>1, <1>2, EngineTypes, PTL DEF CharsInRange, Buffers!TypingSpec, BP!TypingSpec

-----------------------------------------------------------------------------
(* A backspace takes the last letter and no other. *)

\* The letters of two buffers and their case are the same.
SameLetters(b, d) ==
  Len(d) = Len(b) /\ \A i \in 1 .. Len(b) : d[i].sym = b[i].sym /\ d[i].caps = b[i].caps

\* Tones are no letters.
LEMMA ToneKeepsLetters ==
  ASSUME NEW e, EngineOK(e), NEW pos, NEW tone
  PROVE  EngineOK(SetTone(e, pos, tone)) /\ SameLetters(e.buf, SetTone(e, pos, tone).buf)
<1>. DEFINE m == markChange(e, pos)
            w == [m.buf[pos] EXCEPT !.tone = tone]
            b == [m.buf EXCEPT ![pos] = w]
            s == [m EXCEPT !.buf = b]
<1>1. EngineOK(SetTone(e, pos, tone)) /\ Len(SetTone(e, pos, tone).buf) = Len(e.buf)
  <2>1. Grown(e, SetTone(e, pos, tone), 0) /\ Len(e.buf) \in Nat
    BY SetToneGrows, EngineLengths
  <2>. QED  BY <2>1 DEF Grown
<1>2. SetTone(e, pos, tone) = s
  BY DEF SetTone
<1>3. EngineOK(m) /\ m.buf = e.buf
  BY MarkChangeGrows, GrownOK
<1>. HIDE DEF m
<1>4. DOMAIN e.buf = 1 .. Len(e.buf) /\ \A i \in 1 .. Len(e.buf) : IsWord(e.buf[i])
  BY EngineLengths DEF EngineOK, Items, IsItem
<1>5. pos \in 1 .. Len(e.buf) => w.sym = e.buf[pos].sym /\ w.caps = e.buf[pos].caps
  BY <1>3, <1>4 DEF IsWord, WordFields
<1>. HIDE DEF w
<1>6. \A i \in 1 .. Len(e.buf) : b[i] = IF i = pos THEN w ELSE e.buf[i]
  BY <1>3, <1>4
<1>. HIDE DEF b
<1>7. s.buf = b
  BY <1>3 DEF EngineOK, EngineFields
<1>. HIDE DEF s
<1>. QED  BY <1>1, <1>2, <1>5, <1>6, <1>7 DEF SameLetters

\* A tone that moves leaves every letter the one it was, but for its tone.
LEMMA MoveToneKeepsLetters ==
  ASSUME NEW e, EngineOK(e), NEW from, NEW to
  PROVE  EngineOK(MoveTone(e, from, to)) /\ SameLetters(e.buf, MoveTone(e, from, to).buf)
<1>. DEFINE a == SetTone(e, to, e.buf[from].tone)
            b == SetTone(a, from, 0)
<1>1. EngineOK(a) /\ SameLetters(e.buf, a.buf)
  BY ToneKeepsLetters
<1>2. MoveTone(e, from, to) \in {e, b}
  BY DEF MoveTone
<1>. HIDE DEF a
<1>3. EngineOK(b) /\ SameLetters(a.buf, b.buf)
  BY <1>1, ToneKeepsLetters
<1>. HIDE DEF b
<1>. QED  BY <1>1, <1>2, <1>3 DEF SameLetters

\* What is left after a backspace has the letters it had.
LEMMA BackspaceKeepsLetters ==
  ASSUME NEW e, EngineOK(e), e.buf # <<>>
  PROVE  LET r == processBackspace(e)
         IN  /\ Len(r.buf) = Len(e.buf) - 1
             /\ \A i \in 1 .. Len(e.buf) - 1 : r.buf[i].sym = e.buf[i].sym /\ r.buf[i].caps = e.buf[i].caps
<1>. DEFINE n == Len(e.buf)
            from == TonePos(e)
            to == VStart(e) + TonePosition(e, e.buf[Len(e.buf) - 1].seq, TRUE)
            o == [e EXCEPT !.changePos = n + 1]
            k == markChange(o, n)
            simple == \/ n = 1 \/ Top(e).form \in {"empty", "nonVn", "c"}
                      \/ e.buf[n - 1].form \in {"c", "vc", "cvc"}
                      \/ e.buf[from].tone = 0 \/ from = n \/ from = to
            x == IF simple THEN k ELSE MoveTone(k, from, to)
            q == Pop(x)
            p == synchKeyStrokeBuffer(q)
            w == [p EXCEPT !.written = TRUE]
<1>1. processBackspace(e) \in {Ret(w, 1), Ret(w, 0), Ret(p, 1)}
  BY DEF processBackspace, BackspaceFrom
<1>. HIDE DEF simple, from, to
<1>2. EngineOK(o) /\ o.buf = e.buf
  <2>1. /\ DOMAIN o = EngineFields /\ o.buf = e.buf /\ o.keys = e.keys
    BY DEF EngineOK, EngineFields
  <2>. HIDE DEF o
  <2>. QED  BY <2>1 DEF EngineOK
<1>. HIDE DEF o
<1>3. EngineOK(k) /\ k.buf = e.buf
  BY <1>2, MarkChangeGrows, GrownOK
<1>. HIDE DEF k
<1>4. EngineOK(MoveTone(k, from, to)) /\ SameLetters(k.buf, MoveTone(k, from, to).buf)
  BY <1>3, MoveToneKeepsLetters
<1>5. EngineOK(x) /\ SameLetters(e.buf, x.buf)
  BY <1>3, <1>4 DEF SameLetters
<1>. HIDE DEF x
<1>6. Len(e.buf) \in Nat /\ Len(e.buf) # 0 /\ Len(x.buf) = Len(e.buf) /\ x.buf # <<>>
  BY <1>5, EngineLengths DEF SameLetters
<1>7. EngineOK(q) /\ q.buf = Front(x.buf)
  <2>1. EngineOK(q)
    BY <1>5, <1>6, PopGrows, GrownOK
  <2>2. q.buf = Front(x.buf)
    BY <1>5 DEF Pop, EngineOK, EngineFields
  <2>. QED  BY <2>1, <2>2
<1>8. Len(Front(x.buf)) = n - 1 /\ \A i \in 1 .. n - 1 : Front(x.buf)[i] = x.buf[i]
  <2>1. PICK S : x.buf \in Seq(S)
    BY <1>5 DEF EngineOK, Items
  <2>2. 1 \in 1 .. n + 1 /\ n - 1 \in 1 - 1 .. n /\ (n - 1) - 1 + 1 = n - 1 /\ \A i \in 1 .. n - 1 : 1 + i - 1 = i
    BY <1>6
  <2>3. Front(x.buf) = SubSeq(x.buf, 1, n - 1)
    BY <1>6 DEF Front
  <2>. HIDE DEF n
  <2>4. /\ Len(SubSeq(x.buf, 1, n - 1)) = (n - 1) - 1 + 1
        /\ \A i \in 1 .. (n - 1) - 1 + 1 : SubSeq(x.buf, 1, n - 1)[i] = x.buf[1 + i - 1]
    BY <1>6, <2>1, <2>2, SubSeqProperties DEF n
  <2>. QED  BY <2>2, <2>3, <2>4
<1>. HIDE DEF q
<1>9. EngineOK(p) /\ p.buf = q.buf
  BY <1>7, SynchKeeps
<1>. HIDE DEF p
<1>10. EngineOK(w) /\ w.buf = p.buf
  <2>1. DOMAIN w = EngineFields /\ w.buf = p.buf /\ w.keys = p.keys
    BY <1>9 DEF EngineOK, EngineFields
  <2>. HIDE DEF w
  <2>. QED  BY <1>9, <2>1 DEF EngineOK
<1>. HIDE DEF w
<1>11. ASSUME NEW f, EngineOK(f), NEW r  PROVE Ret(f, r).buf = f.buf
  BY <1>11 DEF EngineOK, EngineFields, Ret
<1>12. processBackspace(e).buf = Front(x.buf)
  BY <1>1, <1>7, <1>9, <1>10, <1>11
<1>13. \A i \in 1 .. n - 1 : i \in 1 .. Len(e.buf)
  BY <1>6
<1>. QED  BY <1>5, <1>8, <1>12, <1>13 DEF SameLetters

\* Whatever was typed, marked and moved, a backspace takes the last letter of the engine's
\* text and leaves the others, whose tone alone may move.
THEOREM BackspaceTakesLast == Spec => [][LastLetterGoes]_vars
<1>1. TypeInv /\ [Next]_vars => [LastLetterGoes]_vars
  <2>. SUFFICES ASSUME TypeInv, BackspacePress  PROVE Typed(buf') = Front(Typed(buf))
    BY DEF LastLetterGoes
  <2>. DEFINE r == processBackspace(Engine)
              n == Len(buf)
              T(b) == [i \in DOMAIN b |-> <<Root(b[i].sym), b[i].caps>>]
  <2>1. EngineOK(Engine) /\ Engine.buf = buf /\ buf # <<>> /\ buf' = r.buf
    BY EngineFound DEF Engine, BackspacePress, Put
  <2>2. EngineOK(r) /\ Len(r.buf) = n - 1
        /\ \A i \in 1 .. n - 1 : r.buf[i].sym = buf[i].sym /\ r.buf[i].caps = buf[i].caps
    BY <2>1, BackspaceGives, BackspaceKeepsLetters
  <2>. HIDE DEF r
  <2>3. n \in Nat /\ n # 0 /\ DOMAIN buf = 1 .. n /\ DOMAIN r.buf = 1 .. n - 1
    BY <2>1, <2>2, EngineLengths
  <2>4. Typed(r.buf) = [i \in 1 .. n - 1 |-> <<Root(buf[i].sym), buf[i].caps>>]
    BY <2>2, <2>3 DEF Typed
  <2>5. Typed(buf) = [i \in 1 .. n |-> <<Root(buf[i].sym), buf[i].caps>>]
    BY <2>3 DEF Typed
  <2>6. Len(Typed(buf)) = n /\ \A i \in 1 .. n : Typed(buf)[i] = <<Root(buf[i].sym), buf[i].caps>>
    BY <2>3, <2>5
  <2>7. Front(Typed(buf)) = [i \in 1 .. n - 1 |-> Typed(buf)[i]]
    <3>1. Front(Typed(buf)) = SubSeq(Typed(buf), 1, n - 1)
      BY <2>6 DEF Front
    <3>. HIDE DEF Typed
    <3>2. SubSeq(Typed(buf), 1, n - 1) = [i \in 1 .. (n - 1) - 1 + 1 |-> Typed(buf)[i + 1 - 1]]
      OBVIOUS
    <3>3. (n - 1) - 1 + 1 = n - 1 /\ \A i \in 1 .. n - 1 : i + 1 - 1 = i
      BY <2>3
    <3>. QED  BY <3>1, <3>2, <3>3
  <2>8. \A i \in 1 .. n - 1 : i \in 1 .. n
    BY <2>3
  <2>9. Front(Typed(buf)) = [i \in 1 .. n - 1 |-> <<Root(buf[i].sym), buf[i].caps>>]
    BY <2>6, <2>7, <2>8
  <2>. QED  BY <2>1, <2>4, <2>9
<1>2. Init => TypeInv
  BY InitImplements
<1>3. TypeInv /\ [Next]_vars => TypeInv'
  BY NextImplements
<1>. QED  BY <1>1, <1>2, <1>3, PTL DEF Spec

-----------------------------------------------------------------------------
(* The tables of vowel sequences. *)

\* A lookup that finds something finds the row with these letters.
LEMMA LookupFinds ==
  ASSUME NEW l, NEW s, s = lookupVSeq(l), s # Nil
  PROVE  s \in VS /\ VSeqList[s].v = l
  BY DEF lookupVSeq, Lookup, VSeqOf, AntiFunction, Inverse, Range

\* The letters of a row are found, at that row.
LEMMA LookupRow ==
  ASSUME NEW s \in VS
  PROVE  lookupVSeq(VSeqList[s].v) = s
<1>. DEFINE V == [r \in VS |-> VSeqList[r].v]
<1>1. /\ DOMAIN VSeqOf = {V[r] : r \in VS}
      /\ \A l \in DOMAIN VSeqOf : VSeqOf[l] = CHOOSE r \in VS : l \in DOMAIN VSeqOf => V[r] = l
  BY DEF VSeqOf, AntiFunction, Inverse, Range
<1>2. V[s] \in DOMAIN VSeqOf
  BY <1>1
<1>3. VSeqOf[V[s]] \in VS /\ V[VSeqOf[V[s]]] = V[s]
  BY <1>1, <1>2
<1>4. VSeqOf[V[s]] = s
  BY <1>3, VowelsAssumption
<1>. QED  BY <1>2, <1>4 DEF lookupVSeq, Lookup

\* The numbers of a row.
LEMMA Rows ==
  ASSUME NEW s \in VS
  PROVE  LET r == VSeqList[s] IN
         /\ r.v \in Seq(Vowels) /\ r.len = Len(r.v) /\ r.len \in 1 .. 3 /\ r.len \in Int
         /\ r.roofPos \in -1 .. r.len - 1 /\ r.hookPos \in -1 .. r.len - 1
         /\ s # Nil /\ s # "d" /\ s # "dd"
<1>. VSeqList[s].len \in 1 .. 3 => VSeqList[s].len \in Int
  OBVIOUS
<1>. QED  BY VowelsAssumption

\* sub[]: the first j letters of a row are a row.
LEMMA SubRow ==
  ASSUME NEW s \in VS, NEW j \in 1 .. VSeqList[s].len
  PROVE  /\ Sub(s, j) \in VS /\ VSeqList[Sub(s, j)].v = SubSeq(VSeqList[s].v, 1, j)
         /\ VSeqList[Sub(s, j)].len = j
         /\ \A i \in 1 .. j : VSeqList[Sub(s, j)].v[i] = VSeqList[s].v[i]
<1>. DEFINE v == VSeqList[s].v
<1>1. v \in Seq(Vowels) /\ VSeqList[s].len = Len(v) /\ Len(v) \in 1 .. 3 /\ Len(v) \in Int
  BY Rows
<1>2. \E t \in VS : VSeqList[t].v = SubSeq(v, 1, j)
  <2>1. CASE j = Len(v)
    <3>1. SubSeq(v, 1, j) = v
      BY <1>1, <2>1, SubSeqFull
    <3>. QED  BY <3>1
  <2>2. CASE j # Len(v)
    <3>1. j \in 1 .. VSeqList[s].len - 1
      BY <1>1, <2>2
    <3>. QED  BY <3>1, VowelsAssumption
  <2>. QED  BY <2>1, <2>2
<1>3. PICK t \in VS : VSeqList[t].v = SubSeq(v, 1, j)
  BY <1>2
<1>4. Sub(s, j) = t
  BY <1>3, LookupRow DEF Sub
<1>. HIDE DEF v
<1>5. Len(SubSeq(v, 1, j)) = j /\ \A i \in 1 .. j : SubSeq(v, 1, j)[i] = v[i]
  <2>1. 1 \in 1 .. Len(v) + 1 /\ j \in 0 .. Len(v) /\ j - 1 + 1 = j /\ \A i \in 1 .. j : 1 + i - 1 = i
    BY <1>1
  <2>. QED  BY <1>1, <2>1, SubSeqProperties
<1>6. VSeqList[t].len = j
  BY <1>3, <1>5, Rows
<1>. QED  BY <1>3, <1>4, <1>5, <1>6 DEF v

\* All its letters are the row itself, and the parts of a part are parts of the row.
LEMMA SubSub ==
  ASSUME NEW s \in VS
  PROVE  /\ Sub(s, VSeqList[s].len) = s
         /\ \A j \in 1 .. VSeqList[s].len : \A i \in 1 .. j : Sub(Sub(s, j), i) = Sub(s, i)
<1>. DEFINE v == VSeqList[s].v
<1>1. v \in Seq(Vowels) /\ VSeqList[s].len = Len(v) /\ Len(v) \in 1 .. 3 /\ Len(v) \in Int
  BY Rows
<1>2. Sub(s, VSeqList[s].len) = s
  <2>1. SubSeq(v, 1, Len(v)) = v
    BY <1>1, SubSeqFull
  <2>. QED  BY <1>1, <2>1, LookupRow DEF Sub
<1>3. ASSUME NEW j \in 1 .. VSeqList[s].len, NEW i \in 1 .. j  PROVE Sub(Sub(s, j), i) = Sub(s, i)
  <2>1. i \in 1 .. VSeqList[s].len
    BY <1>1
  <2>2. VSeqList[Sub(s, j)].v = SubSeq(v, 1, j)
    BY SubRow
  <2>. HIDE DEF v
  <2>3. SubSeq(SubSeq(v, 1, j), 1, i) = SubSeq(v, 1, i)
    <3>1. j \in 0 .. Len(v) /\ 1 \in 1 .. Len(v) + 1 /\ i \in Int /\ j \in Int /\ i <= j /\ j <= Len(v) /\ 1 <= i
      BY <1>1
    <3>2. /\ SubSeq(v, 1, j) \in Seq(Vowels) /\ Len(SubSeq(v, 1, j)) = j
          /\ \A k \in 1 .. j : SubSeq(v, 1, j)[k] = v[k]
      <4>1. j - 1 + 1 = j /\ \A k \in 1 .. j : 1 + k - 1 = k
        BY <3>1
      <4>. QED  BY <1>1, <3>1, <4>1, SubSeqProperties
    <3>. DEFINE a == SubSeq(v, 1, j)
                b == SubSeq(a, 1, i)
                c == SubSeq(v, 1, i)
    <3>3. Len(b) = i /\ b \in Seq(Vowels) /\ \A k \in 1 .. i : b[k] = a[k]
      <4>. HIDE DEF a
      <4>1. 1 \in 1 .. Len(a) + 1 /\ i \in 0 .. Len(a) /\ i - 1 + 1 = i /\ \A k \in 1 .. i : 1 + k - 1 = k
        BY <3>1, <3>2 DEF a
      <4>2. a \in Seq(Vowels)
        BY <3>2 DEF a
      <4>. QED  BY <4>1, <4>2, SubSeqProperties
    <3>4. Len(c) = i /\ c \in Seq(Vowels) /\ \A k \in 1 .. i : c[k] = v[k]
      <4>1. i \in 0 .. Len(v) /\ i - 1 + 1 = i /\ \A k \in 1 .. i : 1 + k - 1 = k
        BY <3>1
      <4>. QED  BY <1>1, <3>1, <4>1, SubSeqProperties
    <3>5. \A k \in 1 .. i : b[k] = c[k]
      <4>1. \A k \in 1 .. i : k \in 1 .. j
        BY <3>1
      <4>. QED  BY <3>2, <3>3, <3>4, <4>1
    <3>. HIDE DEF a, b, c
    <3>6. b = c
      BY <3>3, <3>4, <3>5, SeqEqual
    <3>. QED  BY <3>6 DEF a, b, c
  <2>. QED  BY <2>2, <2>3 DEF Sub, v
<1>. QED  BY <1>2, <1>3

\* A vowel after the letters of a row: where a row has them all, it continues the first.
LEMMA JoinedRow ==
  ASSUME NEW s \in VS, NEW c \in Vowels, NEW t, t = lookupVSeq(Append(VSeqList[s].v, c)), t # Nil
  PROVE  /\ t \in VS /\ VSeqList[t].len = VSeqList[s].len + 1 /\ VSeqList[t].v[VSeqList[s].len + 1] = c
         /\ \A j \in 1 .. VSeqList[s].len : Sub(t, j) = Sub(s, j) /\ VSeqList[t].v[j] = VSeqList[s].v[j]
<1>. DEFINE v == VSeqList[s].v
            n == VSeqList[s].len
<1>1. v \in Seq(Vowels) /\ n = Len(v) /\ n \in 1 .. 3 /\ n \in Int
  BY Rows
<1>2. t \in VS /\ VSeqList[t].v = Append(v, c)
  BY LookupFinds
<1>. HIDE DEF v
<1>3. Len(Append(v, c)) = n + 1 /\ Append(v, c)[n + 1] = c /\ \A j \in 1 .. n : Append(v, c)[j] = v[j]
  BY <1>1, AppendProperties
<1>4. VSeqList[t].len = n + 1
  BY <1>2, <1>3, Rows
<1>7. \A a \in 1 .. 3 : a \in 1 .. a + 1
  OBVIOUS
<1>5. Sub(t, n) = s
  <2>1. n \in 1 .. VSeqList[t].len
    BY <1>1, <1>4, <1>7
  <2>2. Sub(t, n) \in VS /\ VSeqList[Sub(t, n)].len = n
        /\ \A i \in 1 .. n : VSeqList[Sub(t, n)].v[i] = VSeqList[t].v[i]
    BY <1>2, <2>1, SubRow
  <2>. DEFINE w == VSeqList[Sub(t, n)].v
  <2>3. w \in Seq(Vowels) /\ Len(w) = n
    BY <2>2, Rows
  <2>4. \A i \in 1 .. n : w[i] = v[i]
    BY <1>2, <1>3, <2>2
  <2>5. w = v
    <3>. HIDE DEF w
    <3>. QED  BY <1>1, <2>3, <2>4, SeqEqual
  <2>. QED  BY <2>2, <2>5, VowelsAssumption DEF v
<1>6. \A j \in 1 .. n : Sub(t, j) = Sub(s, j)
  <2>1. n \in 1 .. VSeqList[t].len
    BY <1>1, <1>4, <1>7
  <2>2. \A j \in 1 .. n : Sub(Sub(t, n), j) = Sub(t, j)
    BY <1>2, <2>1, SubSub
  <2>. QED  BY <1>5, <2>2
<1>. QED  BY <1>2, <1>3, <1>4, <1>6 DEF v

\* Every vowel alone is a row of one letter.
LEMMA AloneRow ==
  ASSUME NEW c \in Vowels, NEW t, t = lookupVSeq(<<c>>)
  PROVE  t \in VS /\ VSeqList[t].len = 1 /\ VSeqList[t].v[1] = c
<1>1. PICK s \in VS : VSeqList[s].v = <<c>>
  BY VowelsAssumption
<1>2. t = s
  BY <1>1, LookupRow
<1>3. VSeqList[s].len = Len(<<c>>)
  BY <1>1, Rows
<1>. QED  BY <1>1, <1>2, <1>3

\* The tone of a row is on one of its letters.
LEMMA TonePositions ==
  ASSUME NEW s \in VS, NEW terminated, NEW modern
  PROVE  getTonePosition(s, terminated, modern) \in 0 .. VSeqList[s].len - 1
<1>. DEFINE r == VSeqList[s]
<1>1. /\ r.len \in 1 .. 3 /\ r.len \in Int
      /\ r.roofPos \in -1 .. r.len - 1 /\ r.hookPos \in -1 .. r.len - 1
  BY Rows
<1>. HIDE DEF r
<1>2. CASE r.len = 1
  <2>1. TonePositionIn(r, s, terminated, modern) = 0
    BY <1>2 DEF TonePositionIn
  <2>. QED  BY <1>2, <2>1 DEF getTonePosition, r
<1>3. CASE r.len > 1 /\ r.roofPos # -1
  <2>1. TonePositionIn(r, s, terminated, modern) = r.roofPos
    BY <1>1, <1>3 DEF TonePositionIn
  <2>. QED  BY <1>1, <1>3, <2>1 DEF getTonePosition, r
<1>4. CASE r.len > 1 /\ r.roofPos = -1 /\ r.hookPos # -1
  <2>1. TonePositionIn(r, s, terminated, modern) \in {1, r.hookPos}
    BY <1>1, <1>4 DEF TonePositionIn
  <2>. QED  BY <1>1, <1>4, <2>1 DEF getTonePosition, r
<1>5. CASE r.len > 1 /\ r.roofPos = -1 /\ r.hookPos = -1
  <2>1. TonePositionIn(r, s, terminated, modern) \in {0, 1}
    <3>1. CASE r.len = 3
      BY <1>5, <3>1 DEF TonePositionIn
    <3>2. CASE r.len # 3
      BY <1>5, <3>2 DEF TonePositionIn
    <3>. QED  BY <3>1, <3>2
  <2>. QED  BY <1>1, <1>5, <2>1 DEF getTonePosition, r
<1>. QED  BY <1>1, <1>2, <1>3, <1>4, <1>5

-----------------------------------------------------------------------------
(* The shape of a buffer. *)

\* Field f of entry i counts the entries since the one it refers to.
Chain(b, i, f) ==
  LET k == b[i][f]
  IN  k \in Int /\ -1 <= k /\ k < i /\ \A j \in 0 .. k : b[i - j][f] = k - j

\* Entry i ends a sequence of vowels: the letters of its row, each of them noted
\* at its entry with the part of the row it ends.
EndsVowels(b, i) ==
  LET s == b[i].seq
      n == VSeqList[s].len
  IN  /\ s \in VS /\ n <= i
      /\ \A j \in 1 .. n : /\ b[i - n + j].v = 0 /\ b[i - n + j].seq = Sub(s, j)
                           /\ b[i - n + j].sym = VSeqList[s].v[j]

ShapedAt(b, i) ==
  LET w == b[i] IN
  /\ Chain(b, i, "v") /\ Chain(b, i, "c1")
  /\ w.form \in {"v", "cv"} <=> w.v = 0
  /\ w.form \in {"vc", "cvc"} <=> w.v >= 1
  /\ w.form = "c" => w.c1 = 0
  /\ w.form = "empty" => w.c1 = -1
  /\ (w.form = "c" /\ w.seq = "gin") => i >= 2 /\ b[i - 1].form = "c"
  /\ w.v = 0 => EndsVowels(b, i)
Shaped(b) == \A i \in 1 .. Len(b) : ShapedAt(b, i)

\* The shape is in these fields.
SameBone(x, y) == x.form = y.form /\ x.c1 = y.c1 /\ x.v = y.v /\ x.seq = y.seq /\ x.sym = y.sym

\* It depends on the entries before i and i itself.
LEMMA ShapedLike ==
  ASSUME NEW b, NEW d, NEW i \in Nat \ {0}, \A j \in 1 .. i : SameBone(d[j], b[j]), ShapedAt(b, i)
  PROVE  ShapedAt(d, i)
<1>1. SameBone(d[i], b[i]) /\ i \in Int
  BY DEF SameBone
<1>2. Chain(d, i, "v") /\ Chain(d, i, "c1")
  <2>1. /\ b[i].v \in Int /\ -1 <= b[i].v /\ b[i].v < i /\ \A j \in 0 .. b[i].v : b[i - j].v = b[i].v - j
        /\ b[i].c1 \in Int /\ -1 <= b[i].c1 /\ b[i].c1 < i /\ \A j \in 0 .. b[i].c1 : b[i - j].c1 = b[i].c1 - j
    BY DEF ShapedAt, Chain
  <2>2. \A j \in 0 .. b[i].v : i - j \in 1 .. i
    BY <1>1, <2>1
  <2>3. \A j \in 0 .. b[i].c1 : i - j \in 1 .. i
    BY <1>1, <2>1
  <2>. QED  BY <1>1, <2>1, <2>2, <2>3 DEF Chain, SameBone
<1>3. d[i].v = 0 => EndsVowels(d, i)
  <2>1. SUFFICES ASSUME b[i].v = 0  PROVE EndsVowels(d, i)
    BY <1>1 DEF SameBone
  <2>. DEFINE s == b[i].seq
              n == VSeqList[s].len
  <2>2. /\ s \in VS /\ n <= i
        /\ \A j \in 1 .. n : /\ b[i - n + j].v = 0 /\ b[i - n + j].seq = Sub(s, j)
                             /\ b[i - n + j].sym = VSeqList[s].v[j]
    BY <2>1 DEF ShapedAt, EndsVowels
  <2>3. n \in Int
    BY <2>2, Rows
  <2>4. d[i].seq = s
    BY <1>1 DEF SameBone
  <2>. HIDE DEF s, n
  <2>5. \A j \in 1 .. n : i - n + j \in 1 .. i
    BY <1>1, <2>2, <2>3
  <2>6. \A j \in 1 .. n : /\ d[i - n + j].v = 0 /\ d[i - n + j].seq = Sub(s, j)
                          /\ d[i - n + j].sym = VSeqList[s].v[j]
    BY <2>2, <2>5 DEF SameBone
  <2>. QED  BY <2>2, <2>4, <2>6 DEF EndsVowels, n
<1>4. i >= 2 => i - 1 \in 1 .. i
  OBVIOUS
<1>. QED  BY <1>1, <1>2, <1>3, <1>4 DEF ShapedAt, SameBone

\* Of two buffers of one length with the same bones both are shaped.
LEMMA ShapedSame ==
  ASSUME NEW b, NEW d, Items("word", b), Len(d) = Len(b), Shaped(b),
         \A j \in 1 .. Len(b) : SameBone(d[j], b[j])
  PROVE  Shaped(d)
<1>1. SUFFICES ASSUME NEW i \in 1 .. Len(b)  PROVE ShapedAt(d, i)
  BY DEF Shaped
<1>2. Len(b) \in Nat
  BY ItemsLength
<1>3. i \in Nat \ {0} /\ \A j \in 1 .. i : j \in 1 .. Len(b)
  BY <1>2
<1>. QED  BY <1>3, ShapedLike DEF Shaped

\* An entry more.
LEMMA ShapedAppend ==
  ASSUME NEW b, Items("word", b), Shaped(b), NEW w, IsWord(w), ShapedAt(Append(b, w), Len(b) + 1)
  PROVE  Shaped(Append(b, w))
<1>. DEFINE d == Append(b, w)
<1>1. Len(b) \in Nat /\ Len(d) = Len(b) + 1 /\ \A j \in 1 .. Len(b) : d[j] = b[j]
  <2>1. PICK S : b \in Seq(S)
    BY DEF Items
  <2>2. b \in Seq(S \cup {w}) /\ w \in S \cup {w}
    BY <2>1
  <2>. QED  BY <2>2, AppendProperties, LenProperties
<1>. HIDE DEF d
<1>2. ASSUME NEW i \in 1 .. Len(b)  PROVE ShapedAt(d, i)
  <2>1. i \in Nat \ {0} /\ \A j \in 1 .. i : j \in 1 .. Len(b)
    BY <1>1
  <2>2. \A j \in 1 .. i : SameBone(d[j], b[j])
    BY <1>1, <2>1 DEF SameBone
  <2>. QED  BY <2>1, <2>2, ShapedLike DEF Shaped
<1>3. ShapedAt(d, Len(b) + 1)
  BY DEF d
<1>4. \A i \in 1 .. Len(d) : i \in 1 .. Len(b) \/ i = Len(b) + 1
  BY <1>1
<1>. QED  BY <1>2, <1>3, <1>4 DEF Shaped, d

\* Entries of a buffer that grows.
LEMMA AppendEntries ==
  ASSUME NEW b, Items("word", b), NEW w
  PROVE  /\ Len(b) \in Nat /\ Append(b, w)[Len(b) + 1] = w
         /\ \A j \in 1 .. Len(b) : Append(b, w)[j] = b[j]
<1>1. PICK S : b \in Seq(S)
  BY DEF Items
<1>2. b \in Seq(S \cup {w}) /\ w \in S \cup {w}
  BY <1>1
<1>. QED  BY <1>2, AppendProperties, LenProperties

\* Entries of a buffer without its last one.
LEMMA FrontEntries ==
  ASSUME NEW b, Items("word", b), b # <<>>
  PROVE  /\ Len(b) \in Nat \ {0} /\ Items("word", Front(b)) /\ Len(Front(b)) = Len(b) - 1
         /\ \A j \in 1 .. Len(b) - 1 : Front(b)[j] = b[j]
<1>1. PICK S : b \in Seq(S)
  BY DEF Items
<1>2. Len(b) \in Nat \ {0}
  BY ItemsLength
<1>3. 1 \in 1 .. Len(b) + 1 /\ Len(b) - 1 \in 0 .. Len(b) /\ Len(b) - 1 - 1 + 1 = Len(b) - 1
      /\ \A j \in 1 .. Len(b) - 1 : 1 + j - 1 = j
  BY <1>2
<1>4. \A j \in 1 .. Len(b) - 1 : SubSeq(b, 1, Len(b) - 1)[j] = b[j]
  BY <1>1, <1>2, <1>3, SubSeqProperties
<1>. QED  BY <1>2, <1>4, ItemsFront DEF Front

\* An entry less.
LEMMA ShapedFront ==
  ASSUME NEW b, Items("word", b), b # <<>>, Shaped(b)
  PROVE  Shaped(Front(b))
<1>1. /\ Len(b) \in Nat \ {0} /\ Len(Front(b)) = Len(b) - 1
      /\ \A j \in 1 .. Len(b) - 1 : Front(b)[j] = b[j]
  BY FrontEntries
<1>2. ASSUME NEW i \in 1 .. Len(b) - 1  PROVE ShapedAt(Front(b), i)
  <2>1. i \in Nat \ {0} /\ i \in 1 .. Len(b) /\ \A j \in 1 .. i : j \in 1 .. Len(b) - 1
    BY <1>1
  <2>2. \A j \in 1 .. i : SameBone(Front(b)[j], b[j])
    BY <1>1, <2>1 DEF SameBone
  <2>. QED  BY <2>1, <2>2, ShapedLike DEF Shaped
<1>. QED  BY <1>1, <1>2 DEF Shaped

\* What a chain says, fact by fact.
LEMMA ChainHas ==
  ASSUME NEW b, NEW i, NEW f, Chain(b, i, f)
  PROVE  b[i][f] \in Int /\ -1 <= b[i][f] /\ b[i][f] < i /\ \A j \in 0 .. b[i][f] : b[i - j][f] = b[i][f] - j
  BY DEF Chain

\* And what the end of a sequence of vowels says.
LEMMA EndsHas ==
  ASSUME NEW b, NEW i \in Int, EndsVowels(b, i), NEW s, s = b[i].seq, NEW n, n = VSeqList[s].len
  PROVE  /\ s \in VS /\ n <= i /\ n \in Int
         /\ \A j \in 1 .. n : b[i - n + j].v = 0 /\ b[i - n + j].seq = Sub(s, j)
                             /\ b[i - n + j].sym = VSeqList[s].v[j]
<1>1. s \in VS /\ n <= i
  BY DEF EndsVowels
<1>2. n \in Int
  BY <1>1, Rows
<1>. QED  BY <1>1, <1>2 DEF EndsVowels

\* Without the entries up to a word break a buffer keeps its shape (prepareBuffer).
LEMMA ShapedSuffix ==
  ASSUME NEW b, Items("word", b), Shaped(b), NEW k \in 1 .. Len(b), b[k].form = "empty",
         NEW d, Len(d) = Len(b) - k, \A j \in 1 .. Len(b) - k : d[j] = b[k + j]
  PROVE  Shaped(d)
<1>1. SUFFICES ASSUME NEW i \in 1 .. Len(b) - k  PROVE ShapedAt(d, i)
  BY DEF Shaped
<1>2. /\ Len(b) \in Nat /\ k \in Int /\ 1 <= k /\ k <= Len(b) /\ i \in Int /\ 1 <= i /\ i <= Len(b) - k
      /\ k + i \in 1 .. Len(b)
  <2>1. Len(b) \in Nat
    BY ItemsLength
  <2>. QED  BY <1>1, <2>1
<1>3. ShapedAt(b, k + i) /\ ShapedAt(b, k) /\ d[i] = b[k + i]
  BY <1>2 DEF Shaped
<1>4. b[k].v = -1 /\ b[k].c1 = -1
  <2>1. b[k].v \in Int /\ -1 <= b[k].v
    BY <1>3, ChainHas DEF ShapedAt
  <2>. QED  BY <1>3, <2>1 DEF ShapedAt
<1>5. ASSUME NEW f \in {"v", "c1"}  PROVE Chain(d, i, f)
  <2>. DEFINE c == b[k + i][f]
  <2>0. Chain(b, k + i, f)
    BY <1>3 DEF ShapedAt
  <2>1. c \in Int /\ -1 <= c /\ c < k + i /\ \A j \in 0 .. c : b[k + i - j][f] = c - j
    BY <2>0, ChainHas
  <2>2. b[k][f] = -1
    BY <1>4
  <2>. HIDE DEF c
  <2>3. c < i
    <3>1. SUFFICES ASSUME i <= c  PROVE FALSE
      BY <1>2, <2>1
    <3>2. i \in 0 .. c /\ k + i - i = k
      BY <1>2, <2>1, <3>1
    <3>3. b[k + i - i][f] = c - i
      BY <2>1, <3>2
    <3>4. b[k][f] = c - i
      BY <3>2, <3>3
    <3>. QED  BY <1>2, <2>1, <2>2, <3>1, <3>4
  <2>4. ASSUME NEW j \in 0 .. c  PROVE d[i - j][f] = c - j
    <3>1. i - j \in 1 .. Len(b) - k /\ k + (i - j) = k + i - j
      BY <1>2, <2>1, <2>3
    <3>2. d[i - j] = b[k + (i - j)]
      BY <3>1
    <3>. QED  BY <2>1, <3>1, <3>2
  <2>. QED  BY <1>3, <2>1, <2>3, <2>4 DEF Chain, c
<1>6. d[i].v = 0 => EndsVowels(d, i)
  <2>1. SUFFICES ASSUME b[k + i].v = 0  PROVE EndsVowels(d, i)
    BY <1>3
  <2>. DEFINE s == b[k + i].seq
              n == VSeqList[s].len
  <2>0. EndsVowels(b, k + i)
    BY <1>3, <2>1 DEF ShapedAt
  <2>2. /\ s \in VS /\ n <= k + i
        /\ \A j \in 1 .. n : /\ b[k + i - n + j].v = 0 /\ b[k + i - n + j].seq = Sub(s, j)
                             /\ b[k + i - n + j].sym = VSeqList[s].v[j]
    <3>1. PICK p \in Int : p = k + i
      BY <1>2
    <3>2. EndsVowels(b, p) /\ s = b[p].seq /\ n = VSeqList[s].len
      BY <2>0, <3>1
    <3>. HIDE DEF s, n
    <3>3. s \in VS /\ n <= p /\ n \in Int
      BY ONLY <3>2, p \in Int, EndsHas
    <3>4. ASSUME NEW j \in 1 .. n
          PROVE  /\ b[k + i - n + j].v = 0 /\ b[k + i - n + j].seq = Sub(s, j)
                 /\ b[k + i - n + j].sym = VSeqList[s].v[j]
      <4>1. PICK q : q = p - n + j
        OBVIOUS
      <4>2. q = k + i - n + j
        BY <1>2, <3>1, <3>3, <4>1
      <4>3. p \in Int /\ n \in Int /\ j \in 1 .. n
        BY <3>3
      <4>4. b[q].v = 0 /\ b[q].seq = Sub(s, j) /\ b[q].sym = VSeqList[s].v[j]
        BY ONLY <3>2, <4>1, <4>3 DEF EndsVowels
      <4>. QED  BY ONLY <4>2, <4>4
    <3>. QED  BY ONLY <3>1, <3>3, <3>4
  <2>3. n \in Int
    BY <2>2, Rows
  <2>. HIDE DEF n
  <2>4. n <= i
    <3>1. SUFFICES ASSUME i < n  PROVE FALSE
      BY <1>2, <2>3
    <3>2. n - i \in 1 .. n /\ k + i - n + (n - i) = k
      BY <1>2, <2>3, <3>1
    <3>3. b[k + i - n + (n - i)].v = 0
      BY <2>2, <3>2
    <3>. QED  BY <1>4, <3>2, <3>3
  <2>5. \A j \in 1 .. n : d[i - n + j] = b[k + i - n + j]
    <3>1. ASSUME NEW j \in 1 .. n  PROVE d[i - n + j] = b[k + i - n + j]
      <4>1. i - n + j \in 1 .. Len(b) - k /\ k + (i - n + j) = k + i - n + j
        BY <1>2, <2>3, <2>4
      <4>2. d[i - n + j] = b[k + (i - n + j)]
        BY <4>1
      <4>. QED  BY <4>1, <4>2
    <3>. QED  BY <3>1
  <2>. QED  BY <1>3, <2>2, <2>4, <2>5, Zenon DEF EndsVowels, n
<1>7. (d[i].form = "c" /\ d[i].seq = "gin") => i >= 2 /\ d[i - 1].form = "c"
  <2>1. SUFFICES ASSUME d[i].form = "c", d[i].seq = "gin"  PROVE i >= 2 /\ d[i - 1].form = "c"
    OBVIOUS
  <2>2. b[k + i - 1].form = "c"
    BY <1>3, <2>1 DEF ShapedAt
  <2>3. i # 1
    <3>1. k + 1 - 1 = k
      BY <1>2
    <3>. QED  BY <2>2, <3>1
  <2>4. i - 1 \in 1 .. Len(b) - k /\ k + (i - 1) = k + i - 1
    BY <1>2, <2>3
  <2>5. d[i - 1] = b[k + (i - 1)]
    BY <2>4
  <2>. QED  BY <1>2, <2>2, <2>3, <2>4, <2>5
<1>. QED  BY <1>3, <1>5, <1>6, <1>7 DEF ShapedAt

\* The entries first .. last of b, a sequence of vowels, become in d the row t of as
\* many letters; no vowel follows them.
Revowelled(b, d, first, t) ==
  /\ Len(d) = Len(b) /\ t \in VS
  /\ \A i \in 1 .. Len(b) :
       LET j == i - first + 1
       IN  /\ d[i].form = b[i].form /\ d[i].c1 = b[i].c1 /\ d[i].v = b[i].v
           /\ j \in 1 .. VSeqList[t].len => d[i].seq = Sub(t, j) /\ d[i].sym = VSeqList[t].v[j]
           /\ j \notin 1 .. VSeqList[t].len => d[i].seq = b[i].seq /\ d[i].sym = b[i].sym

\* The buffer stays in shape.
LEMMA ShapedRevowelled ==
  ASSUME NEW b, Items("word", b), Shaped(b), NEW last \in 1 .. Len(b), b[last].v = 0,
         \A i \in last + 1 .. Len(b) : b[i].v # 0,
         NEW t \in VS, VSeqList[t].len = VSeqList[b[last].seq].len,
         NEW d, Revowelled(b, d, last - VSeqList[t].len + 1, t)
  PROVE  Shaped(d)
<1>. DEFINE n == VSeqList[t].len
            first == last - n + 1
            s == b[last].seq
<1>1. /\ Len(b) \in Nat /\ last \in Int /\ 1 <= last /\ last <= Len(b)
      /\ n \in Int /\ 1 <= n /\ n <= 3
  <2>1. Len(b) \in Nat
    BY ItemsLength
  <2>. QED  BY <2>1, Rows
<1>2. /\ s \in VS /\ n = VSeqList[s].len /\ n <= last
      /\ \A j \in 1 .. n : b[last - n + j].v = 0 /\ b[last - n + j].seq = Sub(s, j)
  BY DEF Shaped, ShapedAt, EndsVowels
<1>3. /\ Len(d) = Len(b)
      /\ \A i \in 1 .. Len(b) : d[i].form = b[i].form /\ d[i].c1 = b[i].c1 /\ d[i].v = b[i].v
      /\ \A i \in 1 .. Len(b) : i - first + 1 \in 1 .. n =>
           d[i].seq = Sub(t, i - first + 1) /\ d[i].sym = VSeqList[t].v[i - first + 1]
      /\ \A i \in 1 .. Len(b) : i - first + 1 \notin 1 .. n => d[i].seq = b[i].seq /\ d[i].sym = b[i].sym
  BY DEF Revowelled
<1>. HIDE DEF n, s
<1>4. /\ first \in Int /\ 1 <= first /\ first <= last /\ last = first + n - 1
      /\ \A i \in Int : i - first + 1 \in 1 .. n <=> (first <= i /\ i <= last)
  <2>1. first \in Int /\ 1 <= first /\ first <= last /\ last = first + n - 1
    BY <1>1, <1>2
  <2>. HIDE DEF first
  <2>2. ASSUME NEW i \in Int  PROVE i - first + 1 \in 1 .. n <=> (first <= i /\ i <= last)
    BY <1>1, <2>1
  <2>. QED  BY <2>1, <2>2
<1>. HIDE DEF first
<1>5. \A i \in first .. last : b[i].v = 0 /\ b[i].seq = Sub(s, i - first + 1)
  <2>1. ASSUME NEW i \in first .. last  PROVE b[i].v = 0 /\ b[i].seq = Sub(s, i - first + 1)
    <3>1. i - first + 1 \in 1 .. n /\ last - n + (i - first + 1) = i
      BY <1>1, <1>4
    <3>. QED  BY <1>2, <3>1
  <2>. QED  BY <2>1
<1>6. SUFFICES ASSUME NEW i \in 1 .. Len(b)  PROVE ShapedAt(d, i)
  BY <1>3 DEF Shaped
<1>7. ShapedAt(b, i) /\ i \in Int /\ 1 <= i /\ i <= Len(b)
  BY <1>1 DEF Shaped
<1>8. Chain(d, i, "v") /\ Chain(d, i, "c1")
  <2>1. /\ b[i].v \in Int /\ -1 <= b[i].v /\ b[i].v < i /\ \A j \in 0 .. b[i].v : b[i - j].v = b[i].v - j
        /\ b[i].c1 \in Int /\ -1 <= b[i].c1 /\ b[i].c1 < i /\ \A j \in 0 .. b[i].c1 : b[i - j].c1 = b[i].c1 - j
    BY <1>7 DEF ShapedAt, Chain
  <2>2. ASSUME NEW k \in Int, k < i, NEW j \in 0 .. k  PROVE i - j \in 1 .. Len(b)
    <3>1. j \in Int /\ 0 <= j /\ j < i
      BY <1>7, <2>2
    <3>. QED  BY <1>1, <1>7, <3>1
  <2>. QED  BY <1>3, <2>1, <2>2 DEF Chain
<1>9. (d[i].form = "c" /\ d[i].seq = "gin") => i >= 2 /\ d[i - 1].form = "c"
  <2>1. SUFFICES ASSUME d[i].form = "c", d[i].seq = "gin"  PROVE i >= 2 /\ d[i - 1].form = "c"
    OBVIOUS
  <2>2. b[i].form = "c" /\ b[i].v # 0
    BY <1>3, <1>7, <2>1 DEF ShapedAt
  <2>3. i \notin first .. last
    BY <1>5, <2>2
  <2>4. b[i].seq = "gin"
    BY <1>3, <1>4, <1>7, <2>1, <2>3
  <2>5. i >= 2 /\ b[i - 1].form = "c"
    BY <1>7, <2>2, <2>4 DEF ShapedAt
  <2>6. i - 1 \in 1 .. Len(b)
    BY <1>1, <1>7, <2>5
  <2>. QED  BY <1>3, <2>5, <2>6
<1>10. d[i].v = 0 => EndsVowels(d, i)
  <2>1. SUFFICES ASSUME b[i].v = 0  PROVE EndsVowels(d, i)
    BY <1>3
  <2>2. i <= last
    <3>1. SUFFICES ASSUME i > last  PROVE FALSE
      BY <1>1, <1>7
    <3>2. i \in last + 1 .. Len(b)
      BY <1>1, <1>7, <3>1
    <3>. QED  BY <2>1, <3>2
  <2>3. CASE first <= i
    <3>. DEFINE k == i - first + 1
                u == Sub(t, k)
    <3>1. k \in 1 .. n /\ i - k = first - 1 /\ k \in Int
      BY <1>1, <1>4, <1>7, <2>2, <2>3
    <3>2. d[i].seq = u
      BY <1>3, <3>1
    <3>. HIDE DEF k
    <3>3. /\ u \in VS /\ VSeqList[u].len = k /\ (\A j \in 1 .. k : VSeqList[u].v[j] = VSeqList[t].v[j])
          /\ \A j \in 1 .. k : Sub(u, j) = Sub(t, j)
      BY <3>1, SubRow, SubSub DEF n
    <3>. HIDE DEF u
    <3>4. ASSUME NEW j \in 1 .. k
          PROVE  d[i - k + j].v = 0 /\ d[i - k + j].seq = Sub(t, j) /\ d[i - k + j].sym = VSeqList[t].v[j]
      <4>. DEFINE p == i - k + j
      <4>1. p = first - 1 + j /\ p \in 1 .. Len(b) /\ p \in first .. last /\ p - first + 1 = j /\ j \in 1 .. n
        BY <1>1, <1>4, <3>1
      <4>. HIDE DEF p
      <4>2. d[p].v = 0 /\ d[p].seq = Sub(t, j) /\ d[p].sym = VSeqList[t].v[j]
        BY <1>3, <1>5, <4>1
      <4>. QED  BY <4>2 DEF p
    <3>5. k <= i
      BY <1>1, <1>4, <1>7, <3>1
    <3>. QED  BY <3>2, <3>3, <3>4, <3>5 DEF EndsVowels
  <2>4. CASE i < first
    <3>. DEFINE u == b[i].seq
                k == VSeqList[u].len
    <3>1. /\ u \in VS /\ k <= i
          /\ \A j \in 1 .. k : /\ b[i - k + j].v = 0 /\ b[i - k + j].seq = Sub(u, j)
                               /\ b[i - k + j].sym = VSeqList[u].v[j]
      BY <1>7, <2>1 DEF ShapedAt, EndsVowels
    <3>2. k \in Int
      BY <3>1, Rows
    <3>3. d[i].seq = u
      BY <1>3, <1>4, <1>7, <2>4
    <3>. HIDE DEF u, k
    <3>4. ASSUME NEW j \in 1 .. k
          PROVE  d[i - k + j].v = 0 /\ d[i - k + j].seq = Sub(u, j) /\ d[i - k + j].sym = VSeqList[u].v[j]
      <4>. DEFINE p == i - k + j
      <4>1. p \in 1 .. Len(b) /\ p \in Int /\ p < first
        BY <1>1, <1>4, <1>7, <2>4, <3>1, <3>2
      <4>2. b[p].v = 0 /\ b[p].seq = Sub(u, j) /\ b[p].sym = VSeqList[u].v[j]
        BY <3>1
      <4>. HIDE DEF p
      <4>3. p - first + 1 \notin 1 .. n
        BY <1>4, <4>1
      <4>4. d[p].v = 0 /\ d[p].seq = Sub(u, j) /\ d[p].sym = VSeqList[u].v[j]
        BY <1>3, <4>1, <4>2, <4>3
      <4>. QED  BY <4>4 DEF p
    <3>. QED  BY <3>1, <3>3, <3>4 DEF EndsVowels, k
  <2>. QED  BY <1>4, <1>7, <2>3, <2>4
<1>. QED  BY <1>3, <1>7, <1>8, <1>9, <1>10 DEF ShapedAt

-----------------------------------------------------------------------------
(* What the client's text holds for a buffer. *)

Face(w) == Symbol(w.sym, w.caps, w.tone)
Units(cs, w) == [j \in 1 .. Width(cs, w) |-> <<Face(w), j>>]
Unit(cs, ws) == [i \in DOMAIN ws |-> Units(cs, ws[i])]

\* The texts of the first 1 .. n parts.
IsFlat(g, s, n) == g = [i \in 1 .. n |-> IF i = 1 THEN s[i] ELSE g[i - 1] \o s[i]]
Flat(s, n) == CHOOSE g : IsFlat(g, s, n)

\* Rendering a buffer is the last of them.
LEMMA RenderMeans ==
  ASSUME NEW cs, NEW ws, NEW s, s = Unit(cs, ws)
  PROVE  Render(cs, ws) = IF Len(s) = 0 THEN s ELSE Flat(s, Len(s))[Len(s)]
<1>1. Render(cs, ws) = FlattenSeq(s)
  BY DEF Render, Unit, Units, Face
<1>2. FlattenSeq(s) = IF Len(s) = 0 THEN s ELSE Flat(s, Len(s))[Len(s)]
  BY DEF FlattenSeq, Flat, IsFlat
<1>. QED  BY <1>1, <1>2

\* There are such texts, whatever n is: compare ReplayExists.
LEMMA FlatExists ==
  ASSUME NEW s, NEW n \in Nat
  PROVE  \E g : IsFlat(g, s, n)
<1>. DEFINE T == {k \in Nat : ~(\E g : IsFlat(g, s, k))}
<1>1. SUFFICES ASSUME T # {}  PROVE FALSE
  OBVIOUS
<1>2. PICK k \in T : \A j \in T : k <= j
  <2>1. T \subseteq Nat
    OBVIOUS
  <2>. HIDE DEF T
  <2>. QED  BY <1>1, <2>1, Q!LeastNumber
<1>3. CASE k = 0
  <2>. DEFINE g == [i \in 1 .. 0 |-> s[i]]
  <2>1. IsFlat(g, s, 0)
    BY DEF IsFlat
  <2>. QED  BY <1>3, <2>1
<1>4. CASE k # 0
  <2>1. k - 1 \in Nat /\ ~(k <= k - 1)
    BY <1>4
  <2>2. k - 1 \notin T
    BY <1>2, <2>1
  <2>3. PICK g : IsFlat(g, s, k - 1)
    BY <2>1, <2>2
  <2>. DEFINE h == [i \in 1 .. k |-> IF i = k /\ k # 1 THEN g[k - 1] \o s[k]
                                     ELSE IF i = k THEN s[k] ELSE g[i]]
  <2>4. \A i \in 1 .. k - 1 : g[i] = IF i = 1 THEN s[i] ELSE g[i - 1] \o s[i]
    BY <2>3 DEF IsFlat
  <2>5. ASSUME NEW i \in 1 .. k  PROVE h[i] = IF i = 1 THEN s[i] ELSE h[i - 1] \o s[i]
    <3>1. CASE i = k /\ k # 1
      <4>1. k - 1 \in 1 .. k /\ k - 1 # k
        BY <1>4, <3>1
      <4>2. h[k - 1] = g[k - 1] /\ h[k] = g[k - 1] \o s[k]
        BY <3>1, <4>1
      <4>. QED  BY <3>1, <4>2
    <3>2. CASE i = k /\ k = 1
      BY <3>2
    <3>3. CASE i # k
      <4>1. i \in 1 .. k - 1 /\ (i # 1 => i - 1 \in 1 .. k /\ i - 1 # k)
        BY <3>3
      <4>2. h[i] = g[i] /\ (i # 1 => h[i - 1] = g[i - 1])
        BY <3>3, <4>1
      <4>3. g[i] = IF i = 1 THEN s[i] ELSE g[i - 1] \o s[i]
        BY <2>4, <4>1
      <4>. HIDE DEF h
      <4>. QED  BY <4>2, <4>3
    <3>. QED  BY <3>1, <3>2, <3>3
  <2>6. IsFlat(h, s, k)
    <3>. DEFINE d == [i \in 1 .. k |-> IF i = 1 THEN s[i] ELSE h[i - 1] \o s[i]]
    <3>1. \A i \in 1 .. k : h[i] = d[i]
      BY <2>5
    <3>2. DOMAIN h = 1 .. k /\ DOMAIN d = 1 .. k /\ h = [i \in 1 .. k |-> h[i]] /\ d = [i \in 1 .. k |-> d[i]]
      OBVIOUS
    <3>3. h = d
      BY <3>1, <3>2
    <3>. QED  BY <3>3 DEF IsFlat
  <2>. QED  BY <2>6
<1>. QED  BY <1>3, <1>4

\* So they are what their equations say.
LEMMA FlatSteps ==
  ASSUME NEW s, NEW n \in Nat, NEW i \in 1 .. n
  PROVE  Flat(s, n)[i] = IF i = 1 THEN s[i] ELSE Flat(s, n)[i - 1] \o s[i]
<1>1. IsFlat(Flat(s, n), s, n)
  BY FlatExists DEF Flat
<1>. QED  BY <1>1 DEF IsFlat

\* The text of the first k parts depends on no other.
LEMMA FlatSame ==
  ASSUME NEW s, NEW t, NEW n \in Nat, NEW m \in Nat, NEW k \in 1 .. n, k <= m,
         \A i \in 1 .. k : s[i] = t[i]
  PROVE  Flat(s, n)[k] = Flat(t, m)[k]
<1>. DEFINE T == {i \in 1 .. k : Flat(s, n)[i] # Flat(t, m)[i]}
<1>1. ASSUME T # {}  PROVE FALSE
  <2>1. PICK j \in T : \A i \in T : j <= i
    <3>1. T \subseteq Nat
      OBVIOUS
    <3>. HIDE DEF T
    <3>. QED  BY <1>1, <3>1, Q!LeastNumber
  <2>2. j \in 1 .. n /\ j \in 1 .. m /\ j \in 1 .. k /\ s[j] = t[j]
    BY <2>1
  <2>3. Flat(s, n)[j] = IF j = 1 THEN s[j] ELSE Flat(s, n)[j - 1] \o s[j]
    BY <2>2, FlatSteps
  <2>4. Flat(t, m)[j] = IF j = 1 THEN t[j] ELSE Flat(t, m)[j - 1] \o t[j]
    BY <2>2, FlatSteps
  <2>5. j # 1 => Flat(s, n)[j - 1] = Flat(t, m)[j - 1]
    <3>. SUFFICES ASSUME j # 1  PROVE j - 1 \notin T /\ j - 1 \in 1 .. k
      OBVIOUS
    <3>1. j - 1 \in 1 .. k /\ ~(j <= j - 1)
      BY <2>2
    <3>. QED  BY <2>1, <3>1
  <2>6. Flat(s, n)[j] = Flat(t, m)[j]
    BY <2>2, <2>3, <2>4, <2>5
  <2>. QED  BY <2>1, <2>6
<1>. QED  BY <1>1

\* The units of an entry, one or two.
LEMMA UnitsSeq ==
  ASSUME NEW cs, NEW w
  PROVE  /\ Width(cs, w) \in {1, 2} /\ Len(Units(cs, w)) = Width(cs, w)
         /\ \A T : <<Face(w), 1>> \in T /\ <<Face(w), 2>> \in T => Units(cs, w) \in Seq(T)
<1>1. Width(cs, w) \in {1, 2}
  BY DEF Width
<1>2. ASSUME NEW T, <<Face(w), 1>> \in T, <<Face(w), 2>> \in T  PROVE Units(cs, w) \in Seq(T)
  <2>1. Units(cs, w) \in [1 .. Width(cs, w) -> T]
    BY <1>1, <1>2 DEF Units
  <2>2. Width(cs, w) \in Nat
    BY <1>1
  <2>. QED  BY <2>1, <2>2, SeqDef
<1>3. Len(Units(cs, w)) = Width(cs, w)
  BY <1>1 DEF Units
<1>. QED  BY <1>1, <1>2, <1>3

\* Faces are all that is seen of an entry.
LEMMA UnitsSame ==
  ASSUME NEW cs, NEW w, NEW x, Face(w) = Face(x)
  PROVE  Units(cs, w) = Units(cs, x)
<1>1. w.sym = x.sym /\ w.tone = x.tone
  BY DEF Face, Symbol
<1>2. Width(cs, w) = Width(cs, x)
  BY <1>1 DEF Width
<1>. QED  BY <1>2 DEF Units

\* As many parts as entries.
LEMMA UnitParts ==
  ASSUME NEW cs, NEW ws, Items("word", ws)
  PROVE  /\ Len(Unit(cs, ws)) = Len(ws) /\ Len(ws) \in Nat
         /\ \A i \in 1 .. Len(ws) : Unit(cs, ws)[i] = Units(cs, ws[i])
<1>1. Len(ws) \in Nat /\ DOMAIN ws = 1 .. Len(ws)
  BY ItemsLength
<1>. QED  BY <1>1 DEF Unit

\* No entries, no text.
LEMMA RenderEmpty ==
  ASSUME NEW cs
  PROVE  Render(cs, <<>>) = <<>>
<1>1. Items("word", <<>>) /\ Len(<<>>) = 0
  BY EmptySeq DEF Items
<1>2. Len(Unit(cs, <<>>)) = 0
  BY <1>1, UnitParts
<1>3. Render(cs, <<>>) = Unit(cs, <<>>)
  BY <1>2, RenderMeans
<1>4. Unit(cs, <<>>) = <<>>
  BY DEF Unit
<1>. QED  BY <1>3, <1>4

\* The text shows the faces of the entries.
LEMMA RenderSame ==
  ASSUME NEW cs, NEW ws, Items("word", ws), NEW xs, Items("word", xs), Len(xs) = Len(ws),
         \A i \in 1 .. Len(ws) : Face(xs[i]) = Face(ws[i])
  PROVE  Render(cs, xs) = Render(cs, ws)
<1>1. DOMAIN ws = 1 .. Len(ws) /\ DOMAIN xs = 1 .. Len(ws)
  BY ItemsLength
<1>2. \A i \in 1 .. Len(ws) : Units(cs, xs[i]) = Units(cs, ws[i])
  BY UnitsSame
<1>3. Unit(cs, xs) = Unit(cs, ws)
  BY <1>1, <1>2 DEF Unit
<1>. QED  BY <1>3, RenderMeans

\* A buffer and one more entry: the last of the texts of the parts.
LEMMA RenderAppend ==
  ASSUME NEW cs, NEW ws, Items("word", ws), NEW w, IsWord(w)
  PROVE  Render(cs, Append(ws, w)) = IF ws = <<>> THEN Units(cs, w) ELSE Render(cs, ws) \o Units(cs, w)
<1>. DEFINE xs == Append(ws, w)
            n == Len(ws)
            s == Unit(cs, ws)
            t == Unit(cs, xs)
<1>1. Items("word", xs) /\ Len(xs) = n + 1 /\ n \in Nat /\ (ws = <<>> <=> n = 0) /\ xs[n + 1] = w
  BY ItemsAppend, ItemsLength DEF IsItem
<1>2. \A i \in 1 .. n : xs[i] = ws[i]
  <2>1. PICK S : ws \in Seq(S)
    BY DEF Items
  <2>2. ws \in Seq(S \cup {w}) /\ w \in S \cup {w}
    BY <2>1
  <2>. QED  BY <2>2, AppendProperties
<1>. HIDE DEF xs
<1>3. Len(t) = n + 1 /\ \A i \in 1 .. n + 1 : t[i] = Units(cs, xs[i])
  BY <1>1, UnitParts
<1>4. Len(s) = n /\ \A i \in 1 .. n : s[i] = Units(cs, ws[i])
  BY UnitParts
<1>5. Render(cs, xs) = Flat(t, n + 1)[n + 1]
  BY <1>1, <1>3, RenderMeans
<1>6. n # 0 => Render(cs, ws) = Flat(s, n)[n]
  BY <1>4, RenderMeans
<1>. HIDE DEF s, t, n
<1>7. n + 1 \in 1 .. n + 1 /\ n + 1 \in Nat /\ n + 1 - 1 = n /\ \A i \in 1 .. n : i \in 1 .. n + 1
  BY <1>1
<1>8. Flat(t, n + 1)[n + 1] = IF n + 1 = 1 THEN t[n + 1] ELSE Flat(t, n + 1)[n] \o t[n + 1]
  <2>. PICK m : m = n + 1
    OBVIOUS
  <2>1. m \in Nat /\ m \in 1 .. m /\ m - 1 = n
    BY <1>1
  <2>2. Flat(t, m)[m] = IF m = 1 THEN t[m] ELSE Flat(t, m)[m - 1] \o t[m]
    BY <2>1, FlatSteps
  <2>3. Flat(t, m)[m] = IF m = 1 THEN t[m] ELSE Flat(t, m)[n] \o t[m]
    BY <2>1, <2>2
  <2>. QED  BY <2>3
<1>9. t[n + 1] = Units(cs, w)
  BY <1>1, <1>3, <1>7
<1>10. n # 0 => Flat(t, n + 1)[n] = Flat(s, n)[n]
  <2>. SUFFICES ASSUME n # 0  PROVE Flat(t, n + 1)[n] = Flat(s, n)[n]
    OBVIOUS
  <2>1. n \in 1 .. n + 1 /\ n <= n
    BY <1>1
  <2>2. \A i \in 1 .. n : t[i] = s[i]
    BY <1>2, <1>3, <1>4, <1>7
  <2>. QED  BY <1>1, <1>7, <2>1, <2>2, FlatSame
<1>11. n # 0 => n + 1 # 1
  BY <1>1
<1>. QED  BY <1>1, <1>5, <1>6, <1>8, <1>9, <1>10, <1>11 DEF xs

\* The units that entries may be shown as.
AllUnits(T, ws) == \A i \in 1 .. Len(ws) : <<Face(ws[i]), 1>> \in T /\ <<Face(ws[i]), 2>> \in T
UnitsOf(ws) == {<<Face(ws[i]), j>> : i \in 1 .. Len(ws), j \in {1, 2}}

\* A text is a sequence of such units.
LEMMA RenderSeq ==
  ASSUME NEW cs, NEW ws, Items("word", ws), NEW T, AllUnits(T, ws)
  PROVE  Render(cs, ws) \in Seq(T)
<1>. DEFINE s == Unit(cs, ws)
            n == Len(ws)
            D == {i \in 1 .. n : Flat(s, n)[i] \notin Seq(T)}
<1>1. n \in Nat /\ Len(s) = n /\ \A i \in 1 .. n : s[i] = Units(cs, ws[i])
  BY UnitParts
<1>2. \A i \in 1 .. n : s[i] \in Seq(T)
  <2>1. ASSUME NEW i \in 1 .. n  PROVE Units(cs, ws[i]) \in Seq(T)
    <3>1. <<Face(ws[i]), 1>> \in T /\ <<Face(ws[i]), 2>> \in T
      BY DEF AllUnits
    <3>. QED  BY <3>1, UnitsSeq
  <2>. QED  BY <1>1, <2>1
<1>. HIDE DEF s
<1>3. ASSUME D # {}  PROVE FALSE
  <2>1. PICK j \in D : \A i \in D : j <= i
    <3>1. D \subseteq Nat
      OBVIOUS
    <3>. HIDE DEF D
    <3>. QED  BY <1>3, <3>1, Q!LeastNumber
  <2>2. j \in 1 .. n
    BY <2>1
  <2>3. Flat(s, n)[j] = IF j = 1 THEN s[j] ELSE Flat(s, n)[j - 1] \o s[j]
    BY <1>1, <2>2, FlatSteps
  <2>4. j # 1 => Flat(s, n)[j - 1] \in Seq(T)
    <3>. SUFFICES ASSUME j # 1  PROVE j - 1 \notin D /\ j - 1 \in 1 .. n
      OBVIOUS
    <3>1. j - 1 \in 1 .. n /\ ~(j <= j - 1)
      BY <1>1, <2>2
    <3>. QED  BY <2>1, <3>1
  <2>5. Flat(s, n)[j] \in Seq(T)
    BY <1>2, <2>2, <2>3, <2>4, ConcatProperties
  <2>. QED  BY <2>1, <2>5
<1>4. CASE n = 0
  <2>1. ws = <<>>
    BY <1>4, ItemsLength
  <2>2. <<>> \in Seq(T)
    BY EmptySeq
  <2>. HIDE DEF D, n
  <2>. QED  BY <2>1, <2>2, RenderEmpty
<1>5. CASE n # 0
  <2>1. n \in 1 .. n
    BY <1>1, <1>5
  <2>2. Render(cs, ws) = Flat(s, n)[n]
    BY <1>1, <1>5, RenderMeans DEF s
  <2>. QED  BY <1>3, <2>1, <2>2
<1>. QED  BY <1>4, <1>5

\* An entry more is its units more.
LEMMA RenderMore ==
  ASSUME NEW cs, NEW ws, Items("word", ws), NEW w, IsWord(w)
  PROVE  /\ Render(cs, Append(ws, w)) = Render(cs, ws) \o Units(cs, w)
         /\ Len(Render(cs, ws)) \in Nat
         /\ Len(Render(cs, Append(ws, w))) = Len(Render(cs, ws)) + Width(cs, w)
<1>. DEFINE T == UnitsOf(ws) \cup {<<Face(w), 1>>, <<Face(w), 2>>}
<1>1. AllUnits(T, ws) /\ <<Face(w), 1>> \in T /\ <<Face(w), 2>> \in T
  BY DEF AllUnits, UnitsOf
<1>. HIDE DEF T
<1>2. Render(cs, ws) \in Seq(T) /\ Units(cs, w) \in Seq(T) /\ Len(Units(cs, w)) = Width(cs, w)
  BY <1>1, RenderSeq, UnitsSeq
<1>3. Render(cs, Append(ws, w)) = Render(cs, ws) \o Units(cs, w)
  <2>1. CASE ws = <<>>
    <3>1. <<>> \o Units(cs, w) = Units(cs, w)
      BY <1>2, ConcatEmptySeq
    <3>. QED  BY <2>1, <3>1, RenderAppend, RenderEmpty
  <2>. QED  BY <2>1, RenderAppend
<1>. QED  BY <1>2, <1>3, ConcatProperties, LenProperties

\* A part of a buffer, and its text.
LEMMA PartHas ==
  ASSUME NEW ws, Items("word", ws), NEW a \in 1 .. Len(ws) + 1, NEW c \in a - 1 .. Len(ws), NEW cs
  PROVE  LET p == SubSeq(ws, a, c)
         IN  /\ Items("word", p) /\ Len(p) = c - a + 1 /\ \A i \in 1 .. c - a + 1 : p[i] = ws[a + i - 1]
             /\ Render(cs, p) \in Seq(UnitsOf(ws))
<1>. DEFINE p == SubSeq(ws, a, c)
<1>1. Items("word", p) /\ Len(p) = c - a + 1 /\ Len(ws) \in Nat
  BY ItemsPart, ItemsLength
<1>2. PICK S : ws \in Seq(S)
  BY DEF Items
<1>3. \A i \in a .. c : ws[i] \in S
  BY <1>1, <1>2, ElementOfSeq
<1>4. \A i \in 1 .. c - a + 1 : p[i] = ws[a + i - 1]
  BY <1>1, <1>3, SubSeqProperties
<1>. HIDE DEF p
<1>5. AllUnits(UnitsOf(ws), p)
  <2>1. ASSUME NEW i \in 1 .. Len(p)
        PROVE  <<Face(p[i]), 1>> \in UnitsOf(ws) /\ <<Face(p[i]), 2>> \in UnitsOf(ws)
    <3>1. p[i] = ws[a + i - 1] /\ a + i - 1 \in 1 .. Len(ws)
      BY <1>1, <1>4
    <3>. QED  BY <3>1 DEF UnitsOf
  <2>. QED  BY <2>1 DEF AllUnits
<1>6. Render(cs, p) \in Seq(UnitsOf(ws))
  BY <1>1, <1>5, RenderSeq
<1>. QED  BY <1>1, <1>4, <1>6 DEF p

\* Its last entry.
LEMMA PartAppend ==
  ASSUME NEW ws, Items("word", ws), NEW a \in 1 .. Len(ws), NEW c \in a .. Len(ws)
  PROVE  SubSeq(ws, a, c) = Append(SubSeq(ws, a, c - 1), ws[c]) /\ IsWord(ws[c])
<1>1. Len(ws) \in Nat /\ c \in 1 .. Len(ws)
  BY ItemsLength
<1>2. PICK S : ws \in Seq(S)
  BY DEF Items
<1>3. ws[c] \in S /\ \A i \in a .. c - 1 : ws[i] \in S
  BY <1>1, <1>2, ElementOfSeq
<1>4. SubSeq(ws, a, c - 1) \in Seq(S)
  BY <1>1, <1>3, SubSeqProperties
<1>5. SubSeq(ws, a, c) = SubSeq(ws, a, c - 1) \o <<ws[c]>>
  BY <1>2, SubSeqRecursiveSecond
<1>6. SubSeq(ws, a, c) = Append(SubSeq(ws, a, c - 1), ws[c])
  BY <1>3, <1>4, <1>5, AppendIsConcat
<1>7. IsWord(ws[c])
  BY <1>1 DEF Items, IsItem
<1>. QED  BY <1>6, <1>7

\* One text after another.
Cat(x, y) == x \o y

\* Texts may be put together in any order.
LEMMA CatAssociates ==
  ASSUME NEW U, NEW x \in Seq(U), NEW y \in Seq(U), NEW z \in Seq(U)
  PROVE  Cat(Cat(x, y), z) = Cat(x, Cat(y, z))
  BY ConcatAssociative DEF Cat

\* The text of a part is the texts of its own parts.
LEMMA RenderCut ==
  ASSUME NEW cs, NEW ws, Items("word", ws), NEW a \in 1 .. Len(ws) + 1, NEW b \in a - 1 .. Len(ws),
         NEW c \in b .. Len(ws)
  PROVE  LET p == Render(cs, SubSeq(ws, a, b))
             q == Render(cs, SubSeq(ws, b + 1, c))
         IN  Render(cs, SubSeq(ws, a, c)) = Cat(p, q) /\ Len(Render(cs, SubSeq(ws, a, c))) = Len(p) + Len(q)
<1>. DEFINE Txt(i, j) == Render(cs, SubSeq(ws, i, j))
            U == UnitsOf(ws)
            T == {j \in b .. Len(ws) : Txt(a, j) # Txt(a, b) \o Txt(b + 1, j)}
<1>1. /\ Len(ws) \in Nat /\ a \in Int /\ b \in Int /\ c \in Int /\ 1 <= a /\ a - 1 <= b /\ b <= Len(ws)
      /\ b <= c /\ c <= Len(ws)
  <2>1. Len(ws) \in Nat
    BY ItemsLength
  <2>. QED  BY <2>1
<1>2. \A i \in 1 .. Len(ws) + 1 : \A j \in i - 1 .. Len(ws) : Txt(i, j) \in Seq(U)
  BY PartHas
<1>. HIDE DEF Txt, U
<1>3. ASSUME NEW d \in b .. Len(ws)  PROVE Txt(a, b) \in Seq(U) /\ Txt(b + 1, d) \in Seq(U)
  <2>1. b + 1 \in 1 .. Len(ws) + 1 /\ d \in b + 1 - 1 .. Len(ws)
    BY <1>1
  <2>. QED  BY <1>2, <2>1
<1>4. Txt(b + 1, b) = <<>>
  <2>1. SubSeq(ws, b + 1, b) = <<>>
    BY <1>1, SubSeqEmpty
  <2>. QED  BY <2>1, RenderEmpty DEF Txt
<1>5. ASSUME NEW i \in 1 .. Len(ws), NEW j \in i .. Len(ws)
      PROVE  Txt(i, j) = Txt(i, j - 1) \o Units(cs, ws[j]) /\ Units(cs, ws[j]) \in Seq(U)
  <2>1. i \in 1 .. Len(ws) + 1 /\ j - 1 \in i - 1 .. Len(ws) /\ j \in 1 .. Len(ws)
    BY <1>1
  <2>2. Items("word", SubSeq(ws, i, j - 1))
    BY <2>1, PartHas
  <2>3. SubSeq(ws, i, j) = Append(SubSeq(ws, i, j - 1), ws[j]) /\ IsWord(ws[j])
    BY PartAppend
  <2>4. Txt(i, j) = Txt(i, j - 1) \o Units(cs, ws[j])
    BY <2>2, <2>3, RenderMore DEF Txt
  <2>5. <<Face(ws[j]), 1>> \in U /\ <<Face(ws[j]), 2>> \in U
    BY <2>1 DEF U, UnitsOf
  <2>. QED  BY <2>4, <2>5, UnitsSeq
<1>6. ASSUME T # {}  PROVE FALSE
  <2>1. PICK d \in T : \A j \in T : d <= j
    <3>1. T \subseteq Nat
      BY <1>1
    <3>. HIDE DEF T
    <3>. QED  BY <1>6, <3>1, Q!LeastNumber
  <2>2. d \in b .. Len(ws) /\ Txt(a, d) # Txt(a, b) \o Txt(b + 1, d)
    BY <2>1
  <2>3. d # b
    <3>1. Txt(a, b) \o <<>> = Txt(a, b)
      BY <1>3, <2>2, ConcatEmptySeq
    <3>. QED  BY <1>4, <2>2, <3>1
  <2>4. /\ d - 1 \in b .. Len(ws) /\ ~(d <= d - 1) /\ a \in 1 .. Len(ws) /\ d \in a .. Len(ws)
        /\ b + 1 \in 1 .. Len(ws) /\ d \in b + 1 .. Len(ws)
    BY <1>1, <2>2, <2>3
  <2>5. Txt(a, d - 1) = Txt(a, b) \o Txt(b + 1, d - 1)
    BY <2>1, <2>4
  <2>6. /\ Txt(a, d) = Txt(a, d - 1) \o Units(cs, ws[d]) /\ Units(cs, ws[d]) \in Seq(U)
        /\ Txt(b + 1, d) = Txt(b + 1, d - 1) \o Units(cs, ws[d])
    BY <1>5, <2>4
  <2>7. Txt(a, b) \in Seq(U) /\ Txt(b + 1, d - 1) \in Seq(U)
    BY <1>3, <2>4
  <2>8. Txt(a, d) = Txt(a, b) \o Txt(b + 1, d)
    <3>1. /\ Txt(a, d - 1) = Cat(Txt(a, b), Txt(b + 1, d - 1))
          /\ Txt(a, d) = Cat(Txt(a, d - 1), Units(cs, ws[d]))
          /\ Txt(b + 1, d) = Cat(Txt(b + 1, d - 1), Units(cs, ws[d]))
      BY <2>5, <2>6 DEF Cat
    <3>2. Cat(Cat(Txt(a, b), Txt(b + 1, d - 1)), Units(cs, ws[d])) = Cat(Txt(a, b), Cat(Txt(b + 1, d - 1), Units(cs, ws[d])))
      BY <2>6, <2>7, CatAssociates
    <3>3. Txt(a, d) = Cat(Txt(a, b), Txt(b + 1, d))
      BY <3>1, <3>2
    <3>. QED  BY <3>3 DEF Cat
  <2>. QED  BY <2>2, <2>8
<1>7. Txt(a, c) = Txt(a, b) \o Txt(b + 1, c)
  BY <1>6
<1>8. Len(Txt(a, c)) = Len(Txt(a, b)) + Len(Txt(b + 1, c))
  <2>1. Txt(a, b) \in Seq(U) /\ Txt(b + 1, c) \in Seq(U)
    BY <1>3
  <2>. QED  BY <1>7, <2>1, ConcatProperties
<1>. QED  BY <1>7, <1>8 DEF Txt, Cat

\* The text of ws is the texts of its first k entries and of the others.
Splits(cs, ws, k) ==
  LET r == Render(cs, ws)
      p == Render(cs, SubSeq(ws, 1, k))
      q == Render(cs, SubSeq(ws, k + 1, Len(ws)))
  IN  /\ Len(r) = Len(p) + Len(q) /\ Len(p) \in Nat /\ Len(q) \in Nat
      /\ SubSeq(r, 1, Len(r) - Len(q)) = p /\ SubSeq(r, Len(p) + 1, Len(r)) = q
      /\ r = p \o q

\* A text may be cut where a part ends, or begun where one starts.
LEMMA RenderSplit ==
  ASSUME NEW cs, NEW ws, Items("word", ws), NEW k \in 0 .. Len(ws)
  PROVE  Splits(cs, ws, k)
<1>. DEFINE n == Len(ws)
            r == Render(cs, ws)
            p == Render(cs, SubSeq(ws, 1, k))
            q == Render(cs, SubSeq(ws, k + 1, n))
            U == UnitsOf(ws)
<1>1. n \in Nat /\ 1 \in 1 .. n + 1 /\ k \in 0 .. n /\ k \in 1 - 1 .. n /\ n \in k .. n /\ k + 1 \in 1 .. n + 1
      /\ n \in k + 1 - 1 .. n
  <2>1. n \in Nat
    BY ItemsLength
  <2>. QED  BY <2>1
<1>2. SubSeq(ws, 1, n) = ws
  <2>1. PICK S : ws \in Seq(S)
    BY DEF Items
  <2>. QED  BY <2>1, SubSeqFull
<1>3. p \in Seq(U) /\ q \in Seq(U)
  BY <1>1, PartHas
<1>4. r = p \o q /\ Len(r) = Len(p) + Len(q)
  <2>1. Render(cs, SubSeq(ws, 1, n)) = Cat(p, q) /\ Len(Render(cs, SubSeq(ws, 1, n))) = Len(p) + Len(q)
    BY <1>1, RenderCut
  <2>. QED  BY <1>2, <2>1 DEF Cat
<1>. HIDE DEF p, q, r, U, n
<1>5. Len(p) \in Nat /\ Len(q) \in Nat
  BY <1>3, LenProperties
<1>6. r \in Seq(U) /\ \A i \in 1 .. Len(r) : r[i] = IF i <= Len(p) THEN p[i] ELSE q[i - Len(p)]
  BY <1>3, <1>4, ConcatProperties
<1>7. SubSeq(r, 1, Len(r) - Len(q)) = p
  <2>1. Len(r) - Len(q) = Len(p) /\ \A i \in 1 .. Len(p) : i \in 1 .. Len(r) /\ 1 + i - 1 = i
    BY <1>4, <1>5
  <2>2. \A i \in 1 .. Len(p) : r[i] \in U
    BY <1>6, <2>1, ElementOfSeq
  <2>. DEFINE x == SubSeq(r, 1, Len(p))
  <2>3. x \in Seq(U) /\ Len(x) = Len(p) /\ \A i \in 1 .. Len(p) : x[i] = r[1 + i - 1]
    <3>1. /\ Len(x) = IF 1 <= Len(p) THEN Len(p) - 1 + 1 ELSE 0
          /\ x \in Seq(U) /\ \A i \in 1 .. Len(p) - 1 + 1 : x[i] = r[1 + i - 1]
      BY <1>5, <2>2, SubSeqProperties
    <3>. QED  BY <1>5, <3>1
  <2>. HIDE DEF x
  <2>4. \A i \in 1 .. Len(p) : x[i] = p[i]
    BY <1>5, <1>6, <2>1, <2>3
  <2>5. x = p
    BY <1>3, <2>3, <2>4, SeqEqual
  <2>. QED  BY <2>1, <2>5 DEF x
<1>8. SubSeq(r, Len(p) + 1, Len(r)) = q
  <2>1. \A i \in 1 .. Len(q) : /\ Len(p) + i \in 1 .. Len(r) /\ ~(Len(p) + i <= Len(p))
                               /\ Len(p) + i - Len(p) = i /\ Len(p) + 1 + i - 1 = Len(p) + i
    BY <1>4, <1>5
  <2>2. \A i \in Len(p) + 1 .. Len(r) : r[i] \in U
    <3>1. \A i \in Len(p) + 1 .. Len(r) : i \in 1 .. Len(r)
      BY <1>4, <1>5
    <3>. QED  BY <1>6, <3>1, ElementOfSeq
  <2>. DEFINE x == SubSeq(r, Len(p) + 1, Len(r))
  <2>3. x \in Seq(U) /\ Len(x) = Len(q) /\ \A i \in 1 .. Len(q) : x[i] = r[Len(p) + 1 + i - 1]
    <3>0. Len(r) \in Int /\ Len(p) + 1 \in Int /\ Len(r) - (Len(p) + 1) + 1 = Len(q)
          /\ (Len(p) + 1 <= Len(r) <=> Len(q) # 0)
      BY <1>4, <1>5
    <3>1. /\ Len(x) = IF Len(p) + 1 <= Len(r) THEN Len(r) - (Len(p) + 1) + 1 ELSE 0
          /\ x \in Seq(U) /\ \A i \in 1 .. Len(r) - (Len(p) + 1) + 1 : x[i] = r[Len(p) + 1 + i - 1]
      BY <2>2, <3>0, SubSeqProperties
    <3>. HIDE DEF x
    <3>. QED  BY <3>0, <3>1
  <2>. HIDE DEF x
  <2>4. \A i \in 1 .. Len(q) : x[i] = q[i]
    BY <1>6, <2>1, <2>3
  <2>5. x = q
    BY <1>3, <2>3, <2>4, SeqEqual
  <2>. QED  BY <2>5 DEF x
<1>. QED  BY <1>4, <1>5, <1>7, <1>8 DEF p, q, r, n, Splits

-----------------------------------------------------------------------------
(* What may be appended to a shaped buffer. *)

\* A count that starts, or goes on from the entry before.
LEMMA ChainPush ==
  ASSUME NEW b, Items("word", b), NEW w, NEW f,
         \/ w[f] = -1 \/ w[f] = 0
         \/ b # <<>> /\ Chain(b, Len(b), f) /\ w[f] = b[Len(b)][f] + 1
  PROVE  Chain(Append(b, w), Len(b) + 1, f)
<1>. DEFINE n == Len(b)
            d == Append(b, w)
            k == w[f]
<1>1. n \in Nat /\ d[n + 1] = w /\ (\A j \in 1 .. n : d[j] = b[j]) /\ (b = <<>> <=> n = 0)
  BY AppendEntries, ItemsLength
<1>0. SUFFICES Chain(d, n + 1, f)
  OBVIOUS
<1>. HIDE DEF n, d
<1>2. CASE k \in {-1, 0}
  <2>1. \A j \in 0 .. k : j = 0 /\ k = 0 /\ n + 1 - j = n + 1
    BY <1>1, <1>2
  <2>. QED  BY <1>1, <1>2, <2>1 DEF Chain, k
<1>3. CASE b # <<>> /\ Chain(b, n, f) /\ k = b[n][f] + 1
  <2>. DEFINE c == b[n][f]
  <2>1. c \in Int /\ -1 <= c /\ c < n /\ \A j \in 0 .. c : b[n - j][f] = c - j
    BY <1>3, ChainHas
  <2>. HIDE DEF c
  <2>2. k = c + 1 /\ k \in Int /\ -1 <= k /\ k < n + 1
    BY <1>1, <1>3, <2>1 DEF c
  <2>3. ASSUME NEW j \in 0 .. k  PROVE d[n + 1 - j][f] = k - j
    <3>1. CASE j = 0
      BY <1>1, <2>2, <3>1 DEF k
    <3>2. CASE j # 0
      <4>. PICK i \in Int : i = j - 1
        BY <2>2
      <4>1. i \in 0 .. c /\ n + 1 - j = n - i /\ n - i \in 1 .. n /\ k - j = c - i
        BY <1>1, <2>1, <2>2, <3>2
      <4>. QED  BY <1>1, <2>1, <4>1
    <3>. QED  BY <3>1, <3>2
  <2>. QED  BY <1>1, <2>2, <2>3 DEF Chain, k
<1>. QED  BY <1>2, <1>3 DEF n, k

\* What the shape says of an entry.
LEMMA ShapeHas ==
  ASSUME NEW b, Items("word", b), Shaped(b), NEW i \in 1 .. Len(b)
  PROVE  /\ Chain(b, i, "v") /\ Chain(b, i, "c1")
         /\ b[i].v \in Int /\ -1 <= b[i].v /\ b[i].v < i /\ b[i].c1 \in Int /\ -1 <= b[i].c1 /\ b[i].c1 < i
         /\ b[i].form \in {"v", "cv"} <=> b[i].v = 0
         /\ b[i].form \in {"vc", "cvc"} <=> b[i].v >= 1
         /\ b[i].form = "c" => b[i].c1 = 0
         /\ b[i].form = "empty" => b[i].c1 = -1
         /\ (b[i].form = "c" /\ b[i].seq = "gin") => i >= 2 /\ b[i - 1].form = "c"
         /\ b[i].v = 0 => EndsVowels(b, i) /\ b[i].seq \in VS /\ VSeqList[b[i].seq].len <= i
         /\ i \in Int /\ IsWord(b[i])
<1>1. ShapedAt(b, i)
  BY DEF Shaped
<1>2. IsWord(b[i]) /\ i \in Int
  <2>1. Len(b) \in Nat
    BY ItemsLength
  <2>. QED  BY <2>1 DEF Items, IsItem
<1>3. b[i].v \in Int /\ -1 <= b[i].v /\ b[i].v < i /\ b[i].c1 \in Int /\ -1 <= b[i].c1 /\ b[i].c1 < i
  BY <1>1 DEF ShapedAt, Chain
<1>4. b[i].v = 0 => b[i].seq \in VS /\ VSeqList[b[i].seq].len <= i
  BY <1>1 DEF ShapedAt, EndsVowels
<1>. QED  BY <1>1, <1>2, <1>3, <1>4 DEF ShapedAt

\* An entry that is no vowel fits anywhere its counts fit.
LEMMA PushShape ==
  ASSUME NEW b, Items("word", b), Shaped(b), NEW w, IsWord(w),
         \/ w.v = -1 \/ (w.v = 0 /\ EndsVowels(Append(b, w), Len(b) + 1))
         \/ b # <<>> /\ b[Len(b)].v >= 0 /\ w.v = b[Len(b)].v + 1,
         \/ w.c1 = -1 \/ w.c1 = 0
         \/ b # <<>> /\ w.c1 = b[Len(b)].c1 + 1,
         w.form \in {"v", "cv"} <=> w.v = 0,
         w.form \in {"vc", "cvc"} <=> w.v >= 1,
         w.form = "c" => w.c1 = 0,
         w.form = "empty" => w.c1 = -1,
         (w.form = "c" /\ w.seq = "gin") => b # <<>> /\ b[Len(b)].form = "c"
  PROVE  Shaped(Append(b, w))
<1>. DEFINE n == Len(b)
            d == Append(b, w)
<1>1. n \in Nat /\ d[n + 1] = w /\ (\A j \in 1 .. n : d[j] = b[j]) /\ (b # <<>> => n \in 1 .. n /\ n >= 1)
  <2>1. n \in Nat /\ d[n + 1] = w /\ (\A j \in 1 .. n : d[j] = b[j]) /\ (b = <<>> <=> n = 0)
    BY AppendEntries, ItemsLength
  <2>. QED  BY <2>1
<1>2. b # <<>> => Chain(b, n, "v") /\ Chain(b, n, "c1")
  BY <1>1, ShapeHas
<1>3. Chain(d, n + 1, "v")
  BY <1>2, ChainPush
<1>4. Chain(d, n + 1, "c1")
  BY <1>2, ChainPush
<1>5. w.v = 0 => EndsVowels(d, n + 1)
  <2>1. b # <<>> => b[n].v \in Int
    BY <1>1, ShapeHas
  <2>. QED  BY <2>1
<1>6. (w.form = "c" /\ w.seq = "gin") => n + 1 >= 2 /\ d[n + 1 - 1].form = "c"
  <2>1. b # <<>> => n + 1 >= 2 /\ n + 1 - 1 = n /\ d[n] = b[n]
    BY <1>1
  <2>. HIDE DEF n, d
  <2>. QED  BY <2>1 DEF n
<1>. HIDE DEF n, d
<1>7. ShapedAt(d, n + 1)
  BY <1>1, <1>3, <1>4, <1>5, <1>6 DEF ShapedAt
<1>. QED  BY <1>7, ShapedAppend DEF n, d

\* What Word makes, field by field.
LEMMA WordHas ==
  ASSUME NEW form \in Forms, NEW c1, NEW v, NEW c2, NEW seq, NEW s, NEW w, w = Word(form, c1, v, c2, seq, s)
  PROVE  /\ IsWord(w) /\ w.form = form /\ w.c1 = c1 /\ w.v = v /\ w.c2 = c2 /\ w.seq = seq /\ w.sym = s.sym
         /\ w.caps = s.caps /\ w.tone = s.tone
         /\ Face(w) = Symbol(s.sym, s.caps, s.tone)
  BY DEF Word, IsWord, WordFields, Face

\* A symbol that is no letter, a word break.
LEMMA NonVnShape ==
  ASSUME NEW b, Items("word", b), Shaped(b), NEW s, NEW w, w \in {NonVn(s), Break(s)}
  PROVE  Shaped(Append(b, w)) /\ IsWord(w) /\ Face(w) = Symbol(s.sym, s.caps, s.tone)
<1>1. PICK form \in {"nonVn", "empty"} : w = Word(form, -1, -1, -1, Nil, s)
  BY DEF NonVn, Break
<1>2. /\ IsWord(w) /\ w.form \in {"nonVn", "empty"} /\ w.c1 = -1 /\ w.v = -1
      /\ Face(w) = Symbol(s.sym, s.caps, s.tone)
  BY <1>1, WordHas DEF Forms
<1>. QED  BY <1>2, PushShape

\* A consonant that begins or continues an onset.
LEMMA OnsetShape ==
  ASSUME NEW b, Items("word", b), Shaped(b), NEW s, NEW cs,
         cs = "gin" => b # <<>> /\ b[Len(b)].form = "c",
         NEW w, w = Word("c", 0, -1, -1, cs, s)
  PROVE  Shaped(Append(b, w)) /\ IsWord(w) /\ Face(w) = Symbol(s.sym, s.caps, s.tone)
<1>1. /\ IsWord(w) /\ w.form = "c" /\ w.c1 = 0 /\ w.v = -1 /\ w.seq = cs
      /\ Face(w) = Symbol(s.sym, s.caps, s.tone)
  BY WordHas DEF Forms
<1>. QED  BY <1>1, PushShape

\* No letter alone is the sequence gin.
LEMMA ConsonantAlone ==
  ASSUME NEW x
  PROVE  lookupCSeq(<<x>>) # "gin"
<1>1. SUFFICES ASSUME lookupCSeq(<<x>>) = "gin"  PROVE FALSE
  OBVIOUS
<1>2. "gin" # Nil
  BY DEF Nil
<1>3. CSeqList["gin"] = <<x>>
  <2>1. <<x>> \in DOMAIN CSeqOf /\ CSeqOf[<<x>>] = "gin"
    BY <1>1, <1>2 DEF lookupCSeq, Lookup
  <2>. QED  BY <2>1 DEF CSeqOf, AntiFunction, Inverse, Range
<1>4. Len(CSeqList["gin"]) = 1
  BY <1>3
<1>. QED  BY <1>4, VowelsAssumption

\* A consonant after the vowels.
LEMMA CodaShape ==
  ASSUME NEW b, Items("word", b), Shaped(b), b # <<>>, b[Len(b)].v >= 0,
         NEW w, IsWord(w), w.form \in {"vc", "cvc"}, w.c1 = -1 \/ w.c1 = b[Len(b)].c1 + 1,
         w.v = b[Len(b)].v + 1
  PROVE  Shaped(Append(b, w))
<1>1. b[Len(b)].v \in Int
  <2>1. Len(b) \in 1 .. Len(b)
    BY ItemsLength
  <2>. QED  BY <2>1, ShapeHas
<1>2. w.v >= 1 /\ w.v # 0
  BY <1>1
<1>. QED  BY <1>2, PushShape

\* A vowel that begins its sequence.
LEMMA VowelShape ==
  ASSUME NEW b, Items("word", b), Shaped(b), NEW w, IsWord(w), w.form \in {"v", "cv"}, w.v = 0,
         \/ w.c1 = -1 \/ w.c1 = 0
         \/ b # <<>> /\ w.c1 = b[Len(b)].c1 + 1,
         w.sym \in Vowels, w.seq = lookupVSeq(<<w.sym>>)
  PROVE  Shaped(Append(b, w))
<1>. DEFINE n == Len(b)
            d == Append(b, w)
<1>1. n \in Nat /\ d[n + 1] = w
  BY AppendEntries
<1>2. w.seq \in VS /\ VSeqList[w.seq].len = 1 /\ VSeqList[w.seq].v[1] = w.sym
  BY AloneRow
<1>3. Sub(w.seq, 1) = w.seq
  BY <1>2, SubSub
<1>. HIDE DEF d, n
<1>4. EndsVowels(d, n + 1)
  <2>1. \A j \in 1 .. 1 : j = 1 /\ n + 1 - 1 + j = n + 1
    BY <1>1
  <2>. QED  BY <1>1, <1>2, <1>3, <2>1 DEF EndsVowels
<1>. QED  BY <1>4, PushShape DEF d, n

\* Where a sequence of vowels ends, it ends with one vowel more at the next entry.
LEMMA JoinEnds ==
  ASSUME NEW b, NEW d, NEW n \in Nat, EndsVowels(b, n), \A j \in 1 .. n : d[j] = b[j],
         NEW s, s = b[n].seq, NEW c \in Vowels, NEW t, t = lookupVSeq(Append(VSeqList[s].v, c)), t # Nil,
         d[n + 1].v = 0, d[n + 1].sym = c, d[n + 1].seq = t
  PROVE  EndsVowels(d, n + 1)
<1>. DEFINE k == VSeqList[s].len
<1>1. /\ s \in VS /\ k <= n /\ k \in Int
      /\ \A j \in 1 .. k : b[n - k + j].v = 0 /\ b[n - k + j].seq = Sub(s, j) /\ b[n - k + j].sym = VSeqList[s].v[j]
  BY EndsHas
<1>2. /\ t \in VS /\ VSeqList[t].len = k + 1 /\ VSeqList[t].v[k + 1] = c
      /\ \A j \in 1 .. k : Sub(t, j) = Sub(s, j) /\ VSeqList[t].v[j] = VSeqList[s].v[j]
  <2>1. s \in VS
    BY <1>1
  <2>. QED  BY ONLY <2>1, c \in Vowels, t = lookupVSeq(Append(VSeqList[s].v, c)), t # Nil, JoinedRow
<1>3. Sub(t, k + 1) = t
  BY <1>2, SubSub
<1>. HIDE DEF k
<1>. PICK m \in Int : m = k + 1
  BY <1>1
<1>. PICK p \in Int : p = n + 1
  OBVIOUS
<1>0. d[p].v = 0 /\ d[p].sym = c /\ d[p].seq = t
  OBVIOUS
<1>4. ASSUME NEW j \in 1 .. m
      PROVE  d[p - m + j].v = 0 /\ d[p - m + j].seq = Sub(t, j) /\ d[p - m + j].sym = VSeqList[t].v[j]
  <2>1. CASE j = m
    <3>1. p - m + j = p
      BY <1>1, <2>1
    <3>. QED  BY <1>0, <1>2, <1>3, <2>1, <3>1
  <2>2. CASE j # m
    <3>1. j \in 1 .. k /\ p - m + j = n - k + j /\ n - k + j \in 1 .. n
      BY <1>1, <2>2
    <3>. PICK i \in 1 .. n : i = n - k + j
      BY <3>1
    <3>2. b[i].v = 0 /\ b[i].seq = Sub(s, j) /\ b[i].sym = VSeqList[s].v[j]
      BY <1>1, <3>1
    <3>3. d[i] = b[i]
      OBVIOUS
    <3>4. Sub(t, j) = Sub(s, j) /\ VSeqList[t].v[j] = VSeqList[s].v[j]
      BY ONLY <1>2, <3>1
    <3>5. p - m + j = i
      BY <3>1
    <3>. QED  BY ONLY <3>2, <3>3, <3>4, <3>5
  <2>. QED  BY <2>1, <2>2
<1>5. m <= n + 1 /\ VSeqList[t].len = m
  BY <1>1, <1>2
<1>6. /\ m <= p /\ d[p].seq = t
      /\ \A j \in 1 .. m : d[p - m + j].v = 0 /\ d[p - m + j].seq = Sub(t, j) /\ d[p - m + j].sym = VSeqList[t].v[j]
  BY <1>0, <1>4, <1>5, Zenon
<1>7. EndsVowels(d, p)
  BY ONLY <1>2, <1>5, <1>6 DEF EndsVowels
<1>. QED  BY <1>7

\* A vowel that continues the sequence before it.
LEMMA JoinShape ==
  ASSUME NEW b, Items("word", b), Shaped(b), b # <<>>, b[Len(b)].v = 0,
         NEW w, IsWord(w), w.form \in {"v", "cv"}, w.v = 0, w.c1 \in {-1, b[Len(b)].c1 + 1},
         w.sym \in Vowels, w.seq = lookupVSeq(Append(VSeqList[b[Len(b)].seq].v, w.sym)), w.seq # Nil
  PROVE  Shaped(Append(b, w))
<1>. DEFINE n == Len(b)
            d == Append(b, w)
<1>1. n \in Nat /\ d[n + 1] = w /\ (\A j \in 1 .. n : d[j] = b[j]) /\ n \in 1 .. n
  <2>1. n \in Nat /\ d[n + 1] = w /\ (\A j \in 1 .. n : d[j] = b[j]) /\ n # 0
    BY AppendEntries, ItemsLength
  <2>. QED  BY <2>1
<1>2. EndsVowels(b, n)
  BY <1>1, ShapeHas
<1>. HIDE DEF d
<1>3. EndsVowels(d, n + 1)
  BY <1>1, <1>2, JoinEnds
<1>. QED  BY <1>3, PushShape DEF d

=============================================================================
