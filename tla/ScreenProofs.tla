---------------------------- MODULE ScreenProofs ----------------------------
(***************************************************************************)
(* The client's text is what the engine believes it to be, for every       *)
(* setting of the constants under which nothing is restored and the        *)
(* client's keys are plain (PlainClient).                                  *)
(*                                                                         *)
(* A call finds a buffer b and a text that shows it.  Held says what is    *)
(* true at every point within the call: the entries before changePos show  *)
(* what they showed in b, backs is the number of units of b's text from    *)
(* there on, and the buffer is in shape (Shaped): the counts of entries    *)
(* back to the vowels and the first consonant, and the rows of vowels      *)
(* noted at the entries, agree with the letters.  Every function of the    *)
(* engine keeps Held, and those that may leave the key to the client       *)
(* (return 0) add one entry that shows the key and touch no other          *)
(* (Longer).                                                               *)
(***************************************************************************)
EXTENDS UkEngineProofs

-----------------------------------------------------------------------------
(* What an engine says of the client's text. *)

\* The call found the buffer b.  The entries before changePos are those of b, as far as
\* the text shows them, and backs counts the units of the others.
Tracks(b, e) ==
  /\ e.changePos \in 1 .. Len(b) + 1 /\ e.changePos <= Len(e.buf) + 1
  /\ \A i \in 1 .. e.changePos - 1 : Face(e.buf[i]) = Face(b[i])
  /\ e.backs = Len(Render(e.ctl.charset, SubSeq(b, e.changePos, Len(b))))
  /\ e.written = FALSE /\ e.esc = FALSE
Kept(b, e) == Items("word", b) /\ EngineOK(e) /\ Tracks(b, e)
Held(b, e) == Kept(b, e) /\ Shaped(e.buf)

\* Its numbers.
LEMMA KeptHas ==
  ASSUME NEW b, NEW e, Kept(b, e)
  PROVE  /\ Items("word", b) /\ EngineOK(e) /\ Items("word", e.buf) /\ DOMAIN e = EngineFields
         /\ Len(b) \in Nat /\ Len(e.buf) \in Nat
         /\ e.changePos \in Int /\ 1 <= e.changePos /\ e.changePos <= Len(b) + 1 /\ e.changePos <= Len(e.buf) + 1
         /\ \A i \in 1 .. e.changePos - 1 : i \in 1 .. Len(b) /\ i \in 1 .. Len(e.buf) /\ Face(e.buf[i]) = Face(b[i])
<1>1. Len(b) \in Nat /\ Len(e.buf) \in Nat
  BY ItemsLength DEF Kept, EngineOK
<1>. QED  BY <1>1 DEF Kept, Tracks, EngineOK

\* Only these fields matter.
LEMMA KeptEven ==
  ASSUME NEW b, NEW e, Kept(b, e), NEW f, DOMAIN f = EngineFields, f.buf = e.buf, f.keys = e.keys,
         f.changePos = e.changePos, f.backs = e.backs, f.written = e.written /\ f.esc = e.esc, f.ctl = e.ctl
  PROVE  Kept(b, f) /\ (Held(b, e) => Held(b, f))
  BY DEF Kept, Held, Tracks, EngineOK

\* Nor do the entries from changePos on.
LEMMA KeptBuf ==
  ASSUME NEW b, NEW e, Kept(b, e), NEW f, DOMAIN f = EngineFields, Items("word", f.buf), f.keys = e.keys,
         f.changePos = e.changePos, f.backs = e.backs, f.written = e.written /\ f.esc = e.esc, f.ctl = e.ctl,
         e.changePos <= Len(f.buf) + 1, \A i \in 1 .. e.changePos - 1 : Face(f.buf[i]) = Face(e.buf[i])
  PROVE  Kept(b, f)
  BY DEF Kept, Tracks, EngineOK

\* A change is noted, with the units it takes back (markChange).
LEMMA KeptMark ==
  ASSUME NEW b, NEW e, Kept(b, e), NEW pos \in Int, pos >= 1, NEW f, f = markChange(e, pos)
  PROVE  /\ Kept(b, f) /\ f.buf = e.buf
         /\ f.changePos = IF pos < e.changePos THEN pos ELSE e.changePos
         /\ Held(b, e) => Held(b, f)
<1>1. CASE ~(pos < e.changePos)
  <2>1. f = e
    BY <1>1 DEF markChange
  <2>. QED  BY <1>1, <2>1
<1>2. CASE pos < e.changePos
  <2>. DEFINE p == e.changePos
              cs == e.ctl.charset
              old == SubSeq(b, pos, p - 1)
              new == SubSeq(e.buf, pos, p - 1)
  <2>1. /\ Items("word", b) /\ EngineOK(e) /\ Items("word", e.buf) /\ DOMAIN e = EngineFields
        /\ Len(b) \in Nat /\ Len(e.buf) \in Nat
        /\ p \in Int /\ 1 <= p /\ p <= Len(b) + 1 /\ p <= Len(e.buf) + 1
        /\ \A i \in 1 .. p - 1 : Face(e.buf[i]) = Face(b[i])
    BY KeptHas
  <2>2. f = [e EXCEPT !.backs = @ + Len(Render(cs, new)), !.changePos = pos]
    BY <1>2 DEF markChange, getSeqSteps
  <2>. HIDE DEF p
  <2>3. /\ pos \in 1 .. Len(b) + 1 /\ p - 1 \in pos - 1 .. Len(b) /\ pos \in 1 .. Len(e.buf) + 1
        /\ p - 1 \in pos - 1 .. Len(e.buf) /\ Len(b) \in p - 1 .. Len(b) /\ p - 1 + 1 = p
    BY <1>2, <2>1 DEF p
  <2>4. /\ Items("word", old) /\ Len(old) = p - 1 - pos + 1 /\ \A i \in 1 .. p - 1 - pos + 1 : old[i] = b[pos + i - 1]
        /\ Items("word", new) /\ Len(new) = p - 1 - pos + 1 /\ \A i \in 1 .. p - 1 - pos + 1 : new[i] = e.buf[pos + i - 1]
    BY <2>1, <2>3, PartHas
  <2>. HIDE DEF old, new
  <2>5. Render(cs, new) = Render(cs, old)
    <3>1. \A i \in 1 .. p - 1 - pos + 1 : pos + i - 1 \in 1 .. p - 1
      BY <2>1
    <3>2. \A i \in 1 .. Len(old) : Face(new[i]) = Face(old[i])
      BY <2>1, <2>4, <3>1
    <3>. QED  BY <2>4, <3>2, RenderSame
  <2>6. Len(Render(cs, SubSeq(b, pos, Len(b)))) = Len(Render(cs, old)) + Len(Render(cs, SubSeq(b, p, Len(b))))
    <3>. PICK q \in Int : q = p - 1
      BY <2>1
    <3>1. q \in pos - 1 .. Len(b) /\ Len(b) \in q .. Len(b) /\ q + 1 = p
      BY <2>3
    <3>2. Len(Render(cs, SubSeq(b, pos, Len(b))))
            = Len(Render(cs, SubSeq(b, pos, q))) + Len(Render(cs, SubSeq(b, q + 1, Len(b))))
      <4>1. Items("word", b) /\ pos \in 1 .. Len(b) + 1
        BY <2>1, <2>3
      <4>2. q \in pos - 1 .. Len(b) /\ Len(b) \in q .. Len(b)
        BY <3>1
      <4>. HIDE DEF cs
      <4>. QED  BY ONLY <4>1, <4>2, RenderCut
    <3>. QED  BY <3>1, <3>2 DEF old
  <2>7. Len(Render(cs, old)) \in Nat /\ Len(Render(cs, SubSeq(b, p, Len(b)))) \in Nat
    <3>1. p \in 1 .. Len(b) + 1 /\ Len(b) \in p - 1 .. Len(b)
      BY <2>1
    <3>2. Render(cs, old) \in Seq(UnitsOf(b)) /\ Render(cs, SubSeq(b, p, Len(b))) \in Seq(UnitsOf(b))
      BY <2>1, <2>3, <3>1, PartHas DEF old
    <3>. QED  BY <3>2, LenProperties
  <2>8. e.backs = Len(Render(cs, SubSeq(b, p, Len(b)))) /\ e.written = FALSE /\ e.esc = FALSE
    BY DEF Kept, Tracks, p
  <2>9. /\ DOMAIN f = EngineFields /\ f.buf = e.buf /\ f.keys = e.keys /\ f.ctl = e.ctl /\ f.written = e.written /\ f.esc = e.esc
        /\ f.changePos = pos /\ f.backs = e.backs + Len(Render(cs, new))
    BY <2>1, <2>2 DEF EngineFields
  <2>. HIDE DEF cs
  <2>10. f.backs = Len(Render(cs, SubSeq(b, f.changePos, Len(b))))
    BY <2>5, <2>6, <2>7, <2>8, <2>9
  <2>11. Tracks(b, f)
    <3>1. \A i \in 1 .. pos - 1 : i \in 1 .. p - 1
      BY <1>2, <2>1 DEF p
    <3>2. pos <= Len(e.buf) + 1
      BY <2>3
    <3>. QED  BY <2>1, <2>3, <2>8, <2>9, <2>10, <3>1, <3>2 DEF Tracks, cs
  <2>. QED  BY <1>2, <2>1, <2>9, <2>11 DEF Kept, Held, EngineOK, p
<1>. QED  BY <1>1, <1>2

\* The buffer d is b with a field of entry i written.
OneField(d, b, i, field, x) ==
  /\ Len(d) = Len(b)
  /\ \A j \in 1 .. Len(b) : j # i => d[j] = b[j]
  /\ \A j \in 1 .. Len(b), g \in WordFields : d[j][g] = IF j = i /\ g = field THEN x ELSE b[j][g]

\* A field of an entry is written: the others are as they were.
LEMMA EditHas ==
  ASSUME NEW e, EngineOK(e), NEW i, NEW field \in WordFields, NEW x, field = "form" => x \in Forms
  PROVE  LET f == WithEdit(e, i, field, x) IN
         /\ DOMAIN f = EngineFields /\ Items("word", f.buf) /\ Len(f.buf) = Len(e.buf) /\ EngineOK(f)
         /\ f.keys = e.keys /\ f.changePos = e.changePos /\ f.backs = e.backs /\ f.written = e.written /\ f.esc = e.esc
         /\ f.ctl = e.ctl /\ f.ev = e.ev /\ f.then = e.then /\ f.ret = e.ret /\ f.single = e.single
         /\ OneField(f.buf, e.buf, i, field, x)
<1>. DEFINE f == WithEdit(e, i, field, x)
            d == Edited(e.buf, i, field, x)
<1>1. Items("word", e.buf) /\ DOMAIN e = EngineFields /\ DOMAIN e.buf = 1 .. Len(e.buf)
  BY EngineLengths DEF EngineOK
<1>2. Items("word", d) /\ Len(d) = Len(e.buf)
  BY <1>1, BufEdit
<1>3. /\ \A j \in 1 .. Len(e.buf) : j # i => d[j] = e.buf[j]
      /\ \A j \in 1 .. Len(e.buf), g \in WordFields : d[j][g] = IF j = i /\ g = field THEN x ELSE e.buf[j][g]
  <2>1. /\ \A j \in 1 .. Len(e.buf) : j # i => d[j] = e.buf[j]
        /\ i \in 1 .. Len(e.buf) => d[i] = [e.buf[i] EXCEPT ![field] = x]
    BY <1>1 DEF Edited
  <2>2. \A j \in 1 .. Len(e.buf) : DOMAIN e.buf[j] = WordFields
    BY <1>1 DEF Items, IsItem, IsWord
  <2>. HIDE DEF d
  <2>. QED  BY <2>1, <2>2
<1>4. f = [e EXCEPT !.buf = d]
  BY DEF WithEdit, Edited
<1>. HIDE DEF d, f
<1>5. /\ DOMAIN f = EngineFields /\ f.buf = d
      /\ f.keys = e.keys /\ f.changePos = e.changePos /\ f.backs = e.backs /\ f.written = e.written /\ f.esc = e.esc
      /\ f.ctl = e.ctl /\ f.ev = e.ev /\ f.then = e.then /\ f.ret = e.ret /\ f.single = e.single
  BY <1>1, <1>4 DEF EngineFields
<1>6. EngineOK(f)
  BY <1>2, <1>5 DEF EngineOK
<1>. QED  BY <1>2, <1>3, <1>5, <1>6 DEF f, OneField

\* What the text shows from changePos on may be written; before it, what it does not show.
LEMMA KeptEdit ==
  ASSUME NEW b, NEW e, Kept(b, e), NEW i \in Int, NEW field \in WordFields, NEW x, field = "form" => x \in Forms,
         field \in {"sym", "caps", "tone"} => i >= e.changePos \/ i < 1,
         NEW f, f = WithEdit(e, i, field, x)
  PROVE  Kept(b, f) /\ f.changePos = e.changePos
<1>1. /\ EngineOK(e) /\ Len(e.buf) \in Nat /\ e.changePos \in Int /\ e.changePos <= Len(e.buf) + 1
      /\ \A j \in 1 .. e.changePos - 1 : j \in 1 .. Len(e.buf)
  BY KeptHas
<1>0. EngineOK(e)
  BY <1>1
<1>2. /\ DOMAIN f = EngineFields /\ Items("word", f.buf) /\ Len(f.buf) = Len(e.buf)
      /\ f.keys = e.keys /\ f.changePos = e.changePos /\ f.backs = e.backs /\ f.written = e.written /\ f.esc = e.esc
      /\ f.ctl = e.ctl
  BY ONLY <1>0, field \in WordFields, field = "form" => x \in Forms, f = WithEdit(e, i, field, x), EditHas
<1>3. \A j \in 1 .. Len(e.buf), g \in WordFields :
            f.buf[j][g] = IF j = i /\ g = field THEN x ELSE e.buf[j][g]
  <2>1. OneField(f.buf, e.buf, i, field, x)
    BY ONLY <1>0, field \in WordFields, field = "form" => x \in Forms, f = WithEdit(e, i, field, x), EditHas
  <2>. QED  BY <2>1 DEF OneField
<1>4. ASSUME NEW j \in 1 .. e.changePos - 1  PROVE Face(f.buf[j]) = Face(e.buf[j])
  <2>1. \A g \in {"sym", "caps", "tone"} : g \in WordFields
    BY DEF WordFields
  <2>2. j \in 1 .. Len(e.buf) /\ ~(i >= e.changePos /\ j = i) /\ ~(i < 1 /\ j = i)
    BY <1>1
  <2>3. \A g \in {"sym", "caps", "tone"} : f.buf[j][g] = e.buf[j][g]
    BY <1>3, <2>1, <2>2
  <2>. QED  BY <2>3 DEF Face
<1>. QED  BY <1>1, <1>2, <1>4, KeptBuf

\* The shape does not see it when a tone is written.
LEMMA SameBones ==
  ASSUME NEW e, EngineOK(e), NEW i, NEW x, NEW f, f = WithEdit(e, i, "tone", x)
  PROVE  \A j \in 1 .. Len(e.buf) : SameBone(f.buf[j], e.buf[j])
<1>1. "tone" \in WordFields /\ \A g \in {"form", "c1", "v", "seq", "sym"} : g \in WordFields /\ g # "tone"
  BY DEF WordFields
<1>2. \A j \in 1 .. Len(e.buf), g \in {"form", "c1", "v", "seq", "sym"} : f.buf[j][g] = e.buf[j][g]
  <2>1. "tone" = "form" => x \in Forms
    OBVIOUS
  <2>2. OneField(f.buf, e.buf, i, "tone", x)
    BY ONLY EngineOK(e), <1>1, <2>1, f = WithEdit(e, i, "tone", x), EditHas
  <2>. QED  BY <1>1, <2>2 DEF OneField
<1>. QED  BY <1>2 DEF SameBone

\* A tone is put on an entry, and the change noted.
LEMMA KeptTone ==
  ASSUME NEW b, NEW e, Kept(b, e), NEW pos \in Int, pos >= 1, NEW tone, NEW f, f = SetTone(e, pos, tone)
  PROVE  /\ Kept(b, f) /\ Len(f.buf) = Len(e.buf)
         /\ f.changePos = IF pos < e.changePos THEN pos ELSE e.changePos
         /\ \A j \in 1 .. Len(e.buf) : SameBone(f.buf[j], e.buf[j])
         /\ \A j \in 1 .. Len(e.buf) : j # pos => f.buf[j] = e.buf[j]
         /\ Held(b, e) => Held(b, f)
<1>. DEFINE m == markChange(e, pos)
<1>0. EngineOK(e) /\ e.changePos \in Int /\ Items("word", e.buf)
  BY KeptHas
<1>1. Kept(b, m) /\ m.buf = e.buf /\ m.changePos = IF pos < e.changePos THEN pos ELSE e.changePos
  BY KeptMark
<1>2. f = WithEdit(m, pos, "tone", tone)
  BY DEF SetTone, WithEdit
<1>. HIDE DEF m
<1>3. EngineOK(m)
  BY <1>1, KeptHas
<1>4. pos >= m.changePos
  BY <1>0, <1>1
<1>5. "tone" \in WordFields /\ "tone" # "form"
  BY DEF WordFields
<1>6. Kept(b, f) /\ f.changePos = m.changePos
  BY <1>1, <1>2, <1>4, <1>5, KeptEdit
<1>7. Len(f.buf) = Len(e.buf) /\ \A j \in 1 .. Len(e.buf) : j # pos => f.buf[j] = e.buf[j]
  <2>1. OneField(f.buf, m.buf, pos, "tone", tone)
    BY ONLY <1>2, <1>3, <1>5, EditHas
  <2>. QED  BY <1>1, <2>1 DEF OneField
<1>8. \A j \in 1 .. Len(e.buf) : SameBone(f.buf[j], e.buf[j])
  BY <1>1, <1>2, <1>3, SameBones
<1>9. Shaped(e.buf) => Shaped(f.buf)
  BY <1>0, <1>7, <1>8, ShapedSame
<1>. QED  BY <1>1, <1>6, <1>7, <1>8, <1>9 DEF Held

\* The same of an engine whose buffer is in shape.
LEMMA HeldTone ==
  ASSUME NEW b, NEW e, Held(b, e), NEW pos \in Int, pos >= 1, NEW tone
  PROVE  LET f == SetTone(e, pos, tone)
         IN  /\ Held(b, f) /\ Len(f.buf) = Len(e.buf)
             /\ f.changePos = IF pos < e.changePos THEN pos ELSE e.changePos
             /\ \A j \in 1 .. Len(e.buf) : SameBone(f.buf[j], e.buf[j])
<1>. DEFINE f == SetTone(e, pos, tone)
<1>1. Kept(b, e) /\ f = SetTone(e, pos, tone)
  BY DEF Held
<1>. HIDE DEF f
<1>2. /\ Len(f.buf) = Len(e.buf) /\ (Held(b, e) => Held(b, f))
      /\ f.changePos = IF pos < e.changePos THEN pos ELSE e.changePos
      /\ \A j \in 1 .. Len(e.buf) : SameBone(f.buf[j], e.buf[j])
  BY ONLY <1>1, KeptTone, pos \in Int, pos >= 1
<1>. QED  BY <1>2 DEF f

\* A tone moves.
LEMMA KeptMoveTone ==
  ASSUME NEW b, NEW e, Kept(b, e), NEW from \in Int, from >= 1, NEW to \in Int, to >= 1,
         NEW f, f = MoveTone(e, from, to)
  PROVE  /\ Kept(b, f) /\ Len(f.buf) = Len(e.buf) /\ f.changePos <= e.changePos
         /\ \A j \in 1 .. Len(e.buf) : SameBone(f.buf[j], e.buf[j])
         /\ Held(b, e) => Held(b, f)
<1>. DEFINE g == SetTone(e, to, e.buf[from].tone)
            h == SetTone(g, from, 0)
<1>0. EngineOK(e) /\ e.changePos \in Int
  BY KeptHas
<1>1. /\ Kept(b, g) /\ Len(g.buf) = Len(e.buf) /\ g.changePos <= e.changePos /\ g.changePos \in Int
      /\ \A j \in 1 .. Len(e.buf) : SameBone(g.buf[j], e.buf[j])
      /\ Held(b, e) => Held(b, g)
  BY <1>0, KeptTone
<1>. HIDE DEF g
<1>2. /\ Kept(b, h) /\ Len(h.buf) = Len(e.buf) /\ h.changePos <= e.changePos
      /\ \A j \in 1 .. Len(e.buf) : SameBone(h.buf[j], g.buf[j])
      /\ Held(b, g) => Held(b, h)
  BY <1>0, <1>1, KeptTone
<1>. HIDE DEF h
<1>3. \A j \in 1 .. Len(e.buf) : SameBone(h.buf[j], e.buf[j])
  BY <1>1, <1>2 DEF SameBone
<1>4. f \in {h, e}
  BY DEF MoveTone, g, h
<1>5. \A j \in 1 .. Len(e.buf) : SameBone(e.buf[j], e.buf[j])
  BY DEF SameBone
<1>. QED  BY <1>0, <1>1, <1>2, <1>3, <1>4, <1>5

\* A result noted, a flag set: nothing of this changes.
LEMMA HeldRet ==
  ASSUME NEW b, NEW e, Kept(b, e), NEW r
  PROVE  LET f == Ret(e, r)
         IN  /\ Kept(b, f) /\ (Held(b, e) => Held(b, f)) /\ f.ret = r
             /\ f.buf = e.buf /\ f.changePos = e.changePos /\ f.ev = e.ev /\ f.then = e.then
<1>. DEFINE f == Ret(e, r)
<1>1. DOMAIN e = EngineFields
  BY KeptHas
<1>2. /\ DOMAIN f = EngineFields /\ f.buf = e.buf /\ f.keys = e.keys /\ f.changePos = e.changePos
      /\ f.backs = e.backs /\ f.written = e.written /\ f.esc = e.esc /\ f.ctl = e.ctl /\ f.ret = r /\ f.ev = e.ev /\ f.then = e.then
  BY <1>1 DEF Ret, EngineFields
<1>. HIDE DEF f
<1>3. Kept(b, f) /\ (Held(b, e) => Held(b, f))
  BY <1>2, KeptEven
<1>. QED  BY <1>2, <1>3 DEF f

\* What is held is kept, in shape.
LEMMA HeldHas ==
  ASSUME NEW b, NEW e, Held(b, e)
  PROVE  /\ Kept(b, e) /\ Shaped(e.buf) /\ EngineOK(e) /\ Items("word", e.buf) /\ Items("word", b)
         /\ DOMAIN e = EngineFields /\ Len(e.buf) \in Nat /\ Len(b) \in Nat
         /\ (e.buf = <<>> <=> Len(e.buf) = 0) /\ (e.buf # <<>> => Len(e.buf) \in 1 .. Len(e.buf))
         /\ e.changePos \in Int /\ 1 <= e.changePos /\ e.changePos <= Len(b) + 1 /\ e.changePos <= Len(e.buf) + 1
<1>1. Kept(b, e) /\ Shaped(e.buf)
  BY DEF Held
<1>2. EngineOK(e) /\ Len(e.buf) \in Nat
  BY <1>1, KeptHas
<1>3. (e.buf = <<>> <=> Len(e.buf) = 0) /\ (e.buf # <<>> => Len(e.buf) \in 1 .. Len(e.buf))
  BY <1>2, EngineLengths
<1>. QED  BY <1>1, <1>3, KeptHas

\* An entry is appended: changePos is as far from it as it was.
LEMMA HeldPush ==
  ASSUME NEW b, NEW e, Held(b, e), NEW w, IsWord(w), Shaped(Append(e.buf, w))
  PROVE  LET f == Push(e, w)
         IN  /\ Held(b, f) /\ f.buf = Append(e.buf, w) /\ f.changePos = e.changePos /\ Len(f.buf) = Len(e.buf) + 1
             /\ \A j \in 1 .. Len(e.buf) : f.buf[j] = e.buf[j]
             /\ f.buf[Len(e.buf) + 1] = w /\ Appended(f) \in {Ret(f, 0), Ret(f, 1)}
<1>. DEFINE f == Push(e, w)
            n == Len(e.buf)
<1>1. /\ EngineOK(e) /\ Items("word", e.buf) /\ DOMAIN e = EngineFields /\ n \in Nat
      /\ e.changePos \in Int /\ 1 <= e.changePos /\ e.changePos <= n + 1
      /\ \A i \in 1 .. e.changePos - 1 : i \in 1 .. n
  BY KeptHas DEF Held
<1>2. Items("word", Append(e.buf, w)) /\ Len(Append(e.buf, w)) = n + 1
      /\ Append(e.buf, w)[n + 1] = w /\ \A j \in 1 .. n : Append(e.buf, w)[j] = e.buf[j]
  BY <1>1, ItemsAppend, AppendEntries DEF IsItem
<1>3. /\ DOMAIN f = EngineFields /\ f.buf = Append(e.buf, w) /\ f.keys = e.keys /\ f.changePos = e.changePos
      /\ f.backs = e.backs /\ f.written = e.written /\ f.esc = e.esc /\ f.ctl = e.ctl
  BY <1>1 DEF Push, EngineFields
<1>. HIDE DEF f, n
<1>4. Kept(b, f)
  <2>1. \A i \in 1 .. e.changePos - 1 : Face(f.buf[i]) = Face(e.buf[i])
    BY <1>1, <1>2, <1>3
  <2>2. e.changePos <= Len(f.buf) + 1
    BY <1>1, <1>2, <1>3
  <2>. QED  BY <1>2, <1>3, <2>1, <2>2, KeptBuf DEF Held
<1>5. Held(b, f)
  BY <1>3, <1>4 DEF Held
<1>6. Appended(f) \in {Ret(f, 0), Ret(f, 1)}
  <2>1. ~(Len(f.buf) < f.changePos)
    BY <1>1, <1>2, <1>3
  <2>2. markChange(f, Len(f.buf)) = f
    BY <2>1 DEF markChange
  <2>. QED  BY <2>2 DEF Appended
<1>. QED  BY <1>2, <1>3, <1>5, <1>6 DEF f, n

\* The key is typed as an entry more.
Shown(s) == Symbol(s.sym, s.caps, s.tone)
Plain(e, f) ==
  /\ f.changePos = e.changePos
  /\ \E w : IsWord(w) /\ f.buf = Append(e.buf, w) /\ Face(w) = Shown(e.ev.sym)
\* What is to be shown of appendSymbol.
Grew(b, e, f) ==
  /\ Held(b, f) /\ f.changePos <= e.changePos
  /\ (f.ret = 0 \/ Top(f).form \in {"nonVn", "empty"}) => Plain(e, f)

\* The entry shows the key.
LEMMA GrewPush ==
  ASSUME NEW b, NEW e, Held(b, e), NEW w, IsWord(w), Shaped(Append(e.buf, w)), Face(w) = Shown(e.ev.sym)
  PROVE  Grew(b, e, Appended(Push(e, w))) /\ \A r : Grew(b, e, Ret(Push(e, w), r))
<1>. DEFINE p == Push(e, w)
<1>1. /\ Held(b, p) /\ p.buf = Append(e.buf, w) /\ p.changePos = e.changePos
      /\ Appended(p) \in {Ret(p, 0), Ret(p, 1)}
  BY HeldPush
<1>2. e.changePos \in Int
  BY KeptHas DEF Held
<1>. HIDE DEF p
<1>3. ASSUME NEW r  PROVE Grew(b, e, Ret(p, r))
  <2>. DEFINE f == Ret(p, r)
  <2>0. Kept(b, p)
    BY <1>1 DEF Held
  <2>1. Held(b, f) /\ f.buf = p.buf /\ f.changePos = p.changePos
    BY <1>1, <2>0, HeldRet
  <2>. HIDE DEF f
  <2>2. Plain(e, f)
    BY <1>1, <2>1 DEF Plain
  <2>. QED  BY <1>1, <1>2, <2>1, <2>2 DEF Grew, f
<1>. QED  BY <1>1, <1>3 DEF p

\* appendNonVn.
LEMMA GrewNonVn ==
  ASSUME NEW b, NEW e, Held(b, e)
  PROVE  /\ Grew(b, e, appendNonVn(e)) /\ \A r : Grew(b, e, Ret(Push(e, NonVn(e.ev.sym)), r))
         /\ \A r : Grew(b, e, Ret(Push(e, Break(e.ev.sym)), r))
<1>1. Items("word", e.buf) /\ Shaped(e.buf)
  BY KeptHas DEF Held
<1>2. ASSUME NEW w, w \in {NonVn(e.ev.sym), Break(e.ev.sym)}
      PROVE  Shaped(Append(e.buf, w)) /\ IsWord(w) /\ Face(w) = Shown(e.ev.sym)
  BY <1>1, <1>2, NonVnShape DEF Shown
<1>. QED  BY <1>2, GrewPush DEF appendNonVn

\* Where the vowels of the last entry are, when it ends them.
LEMMA LastVowels ==
  ASSUME NEW b, NEW e, Held(b, e), e.buf # <<>>, Top(e).form \in {"v", "cv"}, NEW start,
         start = Len(e.buf) - VSeqList[Top(e).seq].len + 1
  PROVE  /\ Top(e).v = 0 /\ Top(e).seq \in VS /\ start \in Int /\ 1 <= start /\ start <= Len(e.buf)
         /\ Top(e) = e.buf[Len(e.buf)] /\ Len(e.buf) \in Int
         /\ \A t : TonePosition(e, Top(e).seq, t) \in Int /\ start + TonePosition(e, Top(e).seq, t) \in Int
                   /\ start + TonePosition(e, Top(e).seq, t) >= start
                   /\ start + TonePosition(e, Top(e).seq, t) <= Len(e.buf)
<1>. DEFINE n == Len(e.buf)
            s == Top(e).seq
<1>1. Items("word", e.buf) /\ Shaped(e.buf) /\ n \in 1 .. n /\ n \in Int /\ Top(e) = e.buf[n]
  BY HeldHas DEF Top
<1>2. Top(e).v = 0 /\ s \in VS /\ VSeqList[s].len <= n
  BY <1>1, ShapeHas
<1>3. VSeqList[s].len \in 1 .. 3 /\ VSeqList[s].len \in Int
  BY <1>2, Rows
<1>4. \A t : TonePosition(e, s, t) \in 0 .. VSeqList[s].len - 1
  BY <1>2, TonePositions DEF TonePosition
<1>. PICK k : k = VSeqList[s].len
  OBVIOUS
<1>0. start = n - k + 1
  OBVIOUS
<1>. HIDE DEF n, s
<1>6. k \in Int /\ 1 <= k /\ k <= n /\ start \in Int /\ 1 <= start /\ start <= n
  BY <1>0, <1>1, <1>2, <1>3
<1>5. \A t : TonePosition(e, s, t) \in 0 .. k - 1
  BY <1>4
<1>7. \A p \in 0 .. k - 1 : p \in Int /\ start + p \in Int /\ start + p >= start /\ start + p <= n
  BY <1>0, <1>1, <1>6
<1>8. \A t : /\ TonePosition(e, s, t) \in Int /\ start + TonePosition(e, s, t) \in Int
            /\ start + TonePosition(e, s, t) >= start /\ start + TonePosition(e, s, t) <= n
  BY <1>5, <1>7
<1>. QED  BY <1>1, <1>2, <1>6, <1>8, Zenon DEF n, s

\* The last entry keeps its form when tones are written.
LEMMA TopSame ==
  ASSUME NEW d, NEW c, Items("word", c), c # <<>>, Len(d) = Len(c), \A j \in 1 .. Len(c) : SameBone(d[j], c[j])
  PROVE  d[Len(d)].form = c[Len(c)].form
<1>1. Len(c) \in 1 .. Len(c)
  BY ItemsLength
<1>. QED  BY <1>1 DEF SameBone

\* A vowel that continues a sequence.
LEMMA GrewVowelJoins ==
  ASSUME NEW b, NEW e, Held(b, e), e.buf # <<>>, Top(e).form \in {"v", "cv"},
         e.ev.sym.sym \in Vowels, e.ev.sym.tone = 0,
         NEW newVs, newVs \in {Nil, lookupVSeq(Append(VSeqList[Top(e).seq].v, e.ev.sym.sym))},
         NEW start, start = Len(e.buf) - VSeqList[Top(e).seq].len + 1,
         NEW oldPos, oldPos = start + TonePosition(e, Top(e).seq, TRUE)
  PROVE  Grew(b, e, VowelJoins(e, newVs, start, oldPos))
<1>. DEFINE x == e.ev.sym
            form == Top(e).form
            w == Word(form, IF form = "cv" THEN Top(e).c1 + 1 ELSE -1, 0, -1,
                      newVs, Symbol(x.sym, x.caps, 0))
            p == Push(e, w)
            newPos == start + TonePosition(e, newVs, TRUE)
            tone == e.buf[oldPos].tone
            g == SetTone(p, oldPos, 0)
            h == SetTone(g, newPos, tone)
            j == VowelJoins(e, newVs, start, oldPos)
            n == Len(e.buf)
<1>1. /\ Top(e).v = 0 /\ Top(e).seq \in VS /\ start \in Int /\ 1 <= start /\ start <= n
      /\ Top(e) = e.buf[n] /\ oldPos \in Int /\ oldPos >= 1
  <2>1. /\ Top(e).v = 0 /\ Top(e).seq \in VS /\ start \in Int /\ 1 <= start /\ start <= n /\ Top(e) = e.buf[n]
        /\ \A t : start + TonePosition(e, Top(e).seq, t) \in Int /\ start + TonePosition(e, Top(e).seq, t) >= start
    <3>1. Held(b, e) /\ e.buf # <<>> /\ Top(e).form \in {"v", "cv"}
          /\ start = Len(e.buf) - VSeqList[Top(e).seq].len + 1
      OBVIOUS
    <3>. QED  BY ONLY <3>1, LastVowels
  <2>2. oldPos \in Int /\ oldPos >= start
    BY <2>1, Zenon
  <2>. HIDE DEF n
  <2>3. oldPos >= 1
    BY ONLY <2>1, <2>2
  <2>. QED  BY <2>1, <2>2, <2>3, Zenon
<1>2. j \in {appendNonVn(e), Appended(p), Ret(h, 1)} /\ (newVs = Nil => j = appendNonVn(e))
  <2>. DEFINE refused == newVs = Nil \/ (Top(e).form = "cv" /\ ~isValidCV(C1(e, Len(e.buf)), newVs))
  <2>1. j = IF refused THEN appendNonVn(e)
            ELSE CASE tone = 0 /\ x.tone # 0 -> Ret(SetTone(p, newPos, x.tone), 1)
                   [] tone # 0 /\ newPos # oldPos -> Ret(h, 1)
                   [] OTHER -> Appended(p)
    BY DEF VowelJoins
  <2>2. x.tone = 0 /\ (newVs = Nil => refused)
    OBVIOUS
  <2>. HIDE DEF j, p, h, newPos, tone, x, refused
  <2>. QED  BY <2>1, <2>2
<1>3. Grew(b, e, appendNonVn(e))
  BY GrewNonVn
<1>4. CASE newVs = Nil
  BY <1>2, <1>3, <1>4
<1>5. CASE newVs # Nil
  <2>1. newVs \in VS
    BY <1>1, <1>5, JoinedRow
  <2>2. newPos \in Int /\ newPos >= 1
    <3>1. TonePosition(e, newVs, TRUE) \in 0 .. VSeqList[newVs].len - 1 /\ VSeqList[newVs].len \in Int
      BY <2>1, TonePositions, Rows DEF TonePosition
    <3>2. \A q \in 0 .. VSeqList[newVs].len - 1 : start + q \in Int /\ start + q >= 1
      BY <1>1, <3>1
    <3>. QED  BY <3>1, <3>2
  <2>3. /\ IsWord(w) /\ w.form = form /\ w.c1 = (IF form = "cv" THEN Top(e).c1 + 1 ELSE -1) /\ w.v = 0
        /\ w.seq = newVs /\ w.sym = x.sym /\ Face(w) = Shown(x)
    <3>1. Symbol(x.sym, x.caps, 0).sym = x.sym /\ Symbol(x.sym, x.caps, 0).caps = x.caps
          /\ Symbol(x.sym, x.caps, 0).tone = x.tone
      BY DEF Symbol
    <3>2. form \in Forms
      BY DEF Forms
    <3>. QED  BY <3>1, <3>2, WordHas DEF Shown
  <2>. HIDE DEF w
  <2>4. Shaped(Append(e.buf, w))
    <3>1. Items("word", e.buf) /\ Shaped(e.buf)
      BY HeldHas
    <3>2. w.c1 \in {-1, e.buf[n].c1 + 1} /\ e.buf[n].v = 0
      BY <1>1, <2>3
    <3>3. w.seq = lookupVSeq(Append(VSeqList[e.buf[n].seq].v, w.sym)) /\ w.seq # Nil /\ w.sym \in Vowels
      BY <1>1, <1>5, <2>3
    <3>4. w.form \in {"v", "cv"} /\ w.v = 0
      BY <2>3
    <3>. HIDE DEF n, x
    <3>. QED  BY <2>3, <3>1, <3>2, <3>3, <3>4, JoinShape DEF n
  <2>5. Grew(b, e, Appended(p))
    BY <2>3, <2>4, GrewPush
  <2>6. Grew(b, e, Ret(h, 1))
    <3>1. /\ Held(b, p) /\ p.changePos = e.changePos /\ Len(p.buf) = n + 1 /\ p.buf[n + 1] = w
          /\ n \in Nat /\ Items("word", p.buf) /\ p.changePos \in Int /\ Kept(b, p)
      <4>1. Held(b, p) /\ p.changePos = e.changePos /\ Len(p.buf) = n + 1 /\ p.buf[n + 1] = w
        BY <2>3, <2>4, HeldPush
      <4>. HIDE DEF p
      <4>. QED  BY <4>1, HeldHas
    <3>. HIDE DEF p, newPos, tone
    <3>2. /\ Held(b, g) /\ Len(g.buf) = n + 1 /\ g.changePos <= e.changePos /\ g.changePos \in Int /\ Kept(b, g)
          /\ \A i \in 1 .. n + 1 : SameBone(g.buf[i], p.buf[i])
      <4>1. /\ Held(b, g) /\ Len(g.buf) = Len(p.buf)
            /\ g.changePos = (IF oldPos < p.changePos THEN oldPos ELSE p.changePos)
            /\ \A i \in 1 .. Len(p.buf) : SameBone(g.buf[i], p.buf[i])
        <5>1. oldPos \in Int /\ oldPos >= 1 /\ Kept(b, p) /\ g = SetTone(p, oldPos, 0) /\ Held(b, p)
          BY <1>1, <3>1
        <5>. HIDE DEF g
        <5>. QED  BY ONLY <5>1, KeptTone
      <4>2. p.changePos \in Int /\ oldPos \in Int /\ p.changePos = e.changePos /\ Len(p.buf) = n + 1
        BY <1>1, <3>1
      <4>. HIDE DEF g
      <4>3. g.changePos <= e.changePos
        <5>. HIDE DEF n, form, x, h
        <5>. QED  BY ONLY <4>1, <4>2
      <4>4. g.changePos \in Int /\ Kept(b, g)
        BY <4>1, HeldHas
      <4>. QED  BY <4>1, <4>2, <4>3, <4>4
    <3>. HIDE DEF g
    <3>3. /\ Held(b, h) /\ Len(h.buf) = n + 1 /\ h.changePos <= e.changePos /\ Kept(b, h)
          /\ \A i \in 1 .. n + 1 : SameBone(h.buf[i], g.buf[i])
      <4>1. /\ Held(b, h) /\ Len(h.buf) = Len(g.buf)
            /\ h.changePos = (IF newPos < g.changePos THEN newPos ELSE g.changePos)
            /\ \A i \in 1 .. Len(g.buf) : SameBone(h.buf[i], g.buf[i])
        <5>1. newPos \in Int /\ newPos >= 1 /\ Kept(b, g) /\ h = SetTone(g, newPos, tone) /\ Held(b, g)
          BY <2>2, <3>2
        <5>. PICK q, u, k : q = newPos /\ u = tone /\ k = h
          OBVIOUS
        <5>2. q \in Int /\ q >= 1 /\ k = SetTone(g, q, u) /\ Held(b, g)
          BY <5>1
        <5>. HIDE DEF h, n, form, x, j
        <5>3. /\ Held(b, k) /\ Len(k.buf) = Len(g.buf)
              /\ k.changePos = (IF q < g.changePos THEN q ELSE g.changePos)
              /\ \A i \in 1 .. Len(g.buf) : SameBone(k.buf[i], g.buf[i])
          BY ONLY <5>2, HeldTone
        <5>. QED  BY <5>3
      <4>2. e.changePos \in Int
        BY HeldHas
      <4>. HIDE DEF h
      <4>. QED  BY <2>2, <3>1, <3>2, <4>1, <4>2, HeldHas
    <3>. HIDE DEF h
    <3>4. n + 1 \in 1 .. n + 1
      BY <3>1
    <3>5. h.buf[n + 1].form = form
      BY <2>3, <3>1, <3>2, <3>3, <3>4 DEF SameBone
    <3>. DEFINE f == Ret(h, 1)
    <3>6. Held(b, f) /\ f.buf = h.buf /\ f.changePos = h.changePos /\ f.ret = 1
      BY <3>3, HeldRet
    <3>. HIDE DEF f
    <3>7. Top(f).form \in {"v", "cv"}
      BY <3>3, <3>5, <3>6 DEF Top
    <3>8. f.ret # 0 /\ Top(f).form \notin {"nonVn", "empty"}
      BY <3>6, <3>7
    <3>. QED  BY <3>3, <3>6, <3>8 DEF Grew, f
  <2>. QED  BY <1>2, <1>3, <2>5, <2>6
<1>. QED  BY <1>4, <1>5

\* An engine that has one entry more, which is a letter, and has changed others.
LEMMA GrewTouched ==
  ASSUME NEW b, NEW e, Held(b, e), NEW g, Held(b, g), Len(g.buf) = Len(e.buf) + 1,
         g.changePos <= e.changePos, g.buf[Len(e.buf) + 1].form \notin {"nonVn", "empty"}
  PROVE  Grew(b, e, Ret(g, 1))
<1>1. Kept(b, g)
  BY HeldHas
<1>. DEFINE f == Ret(g, 1)
<1>2. Held(b, f) /\ f.ret = 1 /\ f.buf = g.buf /\ f.changePos = g.changePos
  BY <1>1, HeldRet
<1>. HIDE DEF f
<1>3. Top(f).form \notin {"nonVn", "empty"}
  BY <1>2 DEF Top
<1>. QED  BY <1>2, <1>3 DEF Grew, f

\* A vowel after a vowel.
LEMMA GrewAppendVowelToVowel ==
  ASSUME NEW b, NEW e, Held(b, e), e.buf # <<>>, Top(e).form \in {"v", "cv"},
         e.ev.sym.sym \in Vowels, e.ev.sym.tone = 0
  PROVE  Grew(b, e, appendVowelToVowel(e))
<1>. DEFINE start == Len(e.buf) - VSeqList[Top(e).seq].len + 1
            oldPos == start + TonePosition(e, Top(e).seq, TRUE)
            bothTones == e.ev.sym.tone # 0 /\ e.buf[oldPos].tone # 0
            row == lookupVSeq(Append(VSeqList[Top(e).seq].v, e.ev.sym.sym))
            newVs == IF bothTones THEN Nil ELSE row
<1>1. appendVowelToVowel(e) = VowelJoins(e, newVs, start, oldPos)
  BY DEF appendVowelToVowel
<1>2. newVs \in {Nil, row}
  OBVIOUS
<1>3. start = Len(e.buf) - VSeqList[Top(e).seq].len + 1 /\ oldPos = start + TonePosition(e, Top(e).seq, TRUE)
  OBVIOUS
<1>. HIDE DEF newVs, start, oldPos
<1>4. Grew(b, e, VowelJoins(e, newVs, start, oldPos))
  BY <1>2, <1>3, GrewVowelJoins
<1>. QED  BY <1>1, <1>4

\* A vowel after something else.
LEMMA GrewVowelAlone ==
  ASSUME NEW b, NEW e, Held(b, e), e.ev.sym.sym \in Vowels
  PROVE  Grew(b, e, VowelAlone(e, lookupVSeq(<<e.ev.sym.sym>>)))
<1>. DEFINE x == e.ev.sym
            v == lookupVSeq(<<x.sym>>)
            n == Len(e.buf)
            first == Word("v", -1, 0, -1, v, x)
            w == Word("cv", 1, 0, -1, v, x)
            toned == [w EXCEPT !.tone = IF w.tone = 0 THEN Top(e).tone ELSE w.tone]
            p == Push(e, toned)
            t == SetTone(p, n, 0)
            refused == Top(e).form # "c" \/ ~isValidCV(Top(e).seq, v)
            r == VowelAlone(e, v)
<1>1. /\ Items("word", e.buf) /\ Shaped(e.buf) /\ n \in Nat /\ (e.buf # <<>> => n \in 1 .. n) /\ Kept(b, e)
      /\ e.changePos \in Int
  BY HeldHas
<1>2. /\ IsWord(first) /\ first.form = "v" /\ first.c1 = -1 /\ first.v = 0 /\ first.seq = v /\ first.sym = x.sym
      /\ Face(first) = Shown(x)
      /\ IsWord(w) /\ w.form = "cv" /\ w.c1 = 1 /\ w.v = 0 /\ w.seq = v /\ w.sym = x.sym /\ Face(w) = Shown(x)
  BY WordHas DEF Forms, Shown
<1>3. /\ IsWord(toned) /\ toned.form = "cv" /\ toned.c1 = 1 /\ toned.v = 0 /\ toned.seq = v /\ toned.sym = x.sym
  <2>. HIDE DEF w
  <2>. QED  BY <1>2 DEF IsWord, WordFields
<1>4. r = CASE AtWordBeginning(e.buf) -> Appended(Push(e, first))
            [] ~AtWordBeginning(e.buf) /\ refused -> appendNonVn(e)
            [] OTHER -> IF Top(e).seq = "gi" /\ Top(e).tone # 0 THEN Ret(t, 1) ELSE Appended(Push(e, w))
  BY DEF VowelAlone
<1>. HIDE DEF first, w, toned
<1>5. Grew(b, e, appendNonVn(e))
  BY GrewNonVn
<1>6. Grew(b, e, Appended(Push(e, first)))
  <2>1. Shaped(Append(e.buf, first))
    BY <1>1, <1>2, VowelShape
  <2>. QED  BY <1>2, <2>1, GrewPush
<1>7. ASSUME ~AtWordBeginning(e.buf), ~refused
      PROVE  Grew(b, e, Appended(Push(e, w))) /\ Grew(b, e, Ret(t, 1))
  <2>1. e.buf # <<>> /\ e.buf[n].form = "c" /\ e.buf[n].c1 = 0
    <3>1. e.buf # <<>> /\ e.buf[n].form = "c"
      BY <1>7 DEF AtWordBeginning, Top
    <3>. QED  BY <1>1, <3>1, ShapeHas
  <2>2. 1 = e.buf[n].c1 + 1
    BY <2>1
  <2>3. Shaped(Append(e.buf, w)) /\ Shaped(Append(e.buf, toned))
    BY <1>1, <1>2, <1>3, <2>1, <2>2, VowelShape
  <2>4. Grew(b, e, Appended(Push(e, w)))
    BY <1>2, <2>3, GrewPush
  <2>5. Held(b, p) /\ p.changePos = e.changePos /\ Len(p.buf) = n + 1 /\ p.buf[n + 1] = toned /\ Kept(b, p)
    <3>1. Held(b, p) /\ p.changePos = e.changePos /\ Len(p.buf) = n + 1 /\ p.buf[n + 1] = toned
      BY <1>3, <2>3, HeldPush
    <3>. QED  BY <3>1, HeldHas
  <2>. HIDE DEF p
  <2>6. n \in Int /\ n >= 1
    BY <1>1, <2>1
  <2>7. /\ Held(b, t) /\ Len(t.buf) = Len(p.buf) /\ t.changePos = (IF n < p.changePos THEN n ELSE p.changePos)
        /\ \A i \in 1 .. Len(p.buf) : SameBone(t.buf[i], p.buf[i])
    BY <2>5, <2>6, KeptTone
  <2>. HIDE DEF t, r
  <2>8. n + 1 \in 1 .. n + 1
    BY <2>6
  <2>9. Len(t.buf) = n + 1 /\ t.changePos <= e.changePos /\ t.buf[n + 1].form \notin {"nonVn", "empty"}
    BY <1>1, <1>3, <2>5, <2>6, <2>7, <2>8 DEF SameBone
  <2>10. Grew(b, e, Ret(t, 1))
    BY <2>7, <2>9, GrewTouched
  <2>. QED  BY <2>4, <2>10
<1>. HIDE DEF r, refused, t
<1>8. Grew(b, e, r)
  BY <1>4, <1>5, <1>6, <1>7
<1>. QED  BY <1>8 DEF r

\* appendVowel.
LEMMA GrewAppendVowel ==
  ASSUME NEW b, NEW e, Held(b, e), e.ev.sym.sym \in Vowels, e.ev.sym.tone = 0
  PROVE  Grew(b, e, appendVowel(e))
<1>1. Grew(b, e, VowelAlone(e, lookupVSeq(<<e.ev.sym.sym>>)))
  BY GrewVowelAlone
<1>2. ASSUME ~AtWordBeginning(e.buf), Top(e).form \in {"v", "cv"}
      PROVE  Grew(b, e, appendVowelToVowel(e))
  <2>1. e.buf # <<>>
    BY <1>2 DEF AtWordBeginning
  <2>. QED  BY <1>2, <2>1, GrewAppendVowelToVowel
<1>. QED  BY <1>1, <1>2 DEF appendVowel

-----------------------------------------------------------------------------
(* Consonants. *)

\* The rows of uo with its hooks.
LEMMA HookedRows ==
  /\ {"uho", "uoh", "uhoh", "uh"} \subseteq VS
  /\ VSeqList["uho"].v = <<"uh", "o">> /\ VSeqList["uoh"].v = <<"u", "oh">>
  /\ VSeqList["uhoh"].v = <<"uh", "oh">> /\ VSeqList["uh"].v = <<"uh">>
<1>1. "uho" \in VS /\ "uoh" \in VS /\ "uh" \in VS /\ "uhoh" \in VS
  BY SMTT(60) DEF VS, VSeqList, Table
<1>2. VSeqList["uho"] = R(<<<<"uh", "o">>, 0, 1, -1, "nil", 0, "uhoh">>)
  BY ZenonT(60) DEF VSeqList, Table
<1>3. VSeqList["uoh"] = R(<<<<"u", "oh">>, 1, 1, -1, "uor", 1, "uhoh">>)
  BY ZenonT(60) DEF VSeqList, Table
<1>4. VSeqList["uhoh"] = R(<<<<"uh", "oh">>, 1, 1, -1, "nil", 0, "nil">>)
  BY ZenonT(60) DEF VSeqList, Table
<1>5. VSeqList["uh"] = R(<<<<"uh">>, 1, 1, -1, "nil", 0, "nil">>)
  BY ZenonT(60) DEF VSeqList, Table
<1>. QED  BY <1>1, <1>2, <1>3, <1>4, <1>5 DEF R

\* Rows that begin with the same letters begin with the same rows.
LEMMA SameSub ==
  ASSUME NEW s \in VS, NEW t \in VS, NEW j \in 1 .. VSeqList[s].len, j <= VSeqList[t].len,
         \A i \in 1 .. j : VSeqList[s].v[i] = VSeqList[t].v[i]
  PROVE  Sub(s, j) = Sub(t, j)
<1>1. VSeqList[t].len \in Int
  BY Rows
<1>2. j \in 1 .. VSeqList[t].len
  BY <1>1
<1>. DEFINE p == Sub(s, j)
            q == Sub(t, j)
<1>3. /\ p \in VS /\ VSeqList[p].len = j /\ \A i \in 1 .. j : VSeqList[p].v[i] = VSeqList[s].v[i]
      /\ q \in VS /\ VSeqList[q].len = j /\ \A i \in 1 .. j : VSeqList[q].v[i] = VSeqList[t].v[i]
  BY <1>2, SubRow
<1>. HIDE DEF p, q
<1>4. /\ VSeqList[p].v \in Seq(Vowels) /\ Len(VSeqList[p].v) = j
      /\ VSeqList[q].v \in Seq(Vowels) /\ Len(VSeqList[q].v) = j
  BY <1>3, Rows
<1>5. \A i \in 1 .. j : VSeqList[p].v[i] = VSeqList[q].v[i]
  BY <1>3
<1>6. VSeqList[p].v = VSeqList[q].v
  BY <1>4, <1>5, SeqEqual
<1>7. p = q
  BY <1>3, <1>6, VowelsAssumption
<1>. QED  BY <1>7 DEF p, q

\* What becomes of uo+ and u+o, letter by letter.
LEMMA HookedSubs ==
  /\ VSeqList["uho"].len = 2 /\ VSeqList["uoh"].len = 2 /\ VSeqList["uhoh"].len = 2
  /\ Sub("uho", 1) = "uh" /\ Sub("uhoh", 1) = "uh" /\ Sub("uhoh", 2) = "uhoh"
  /\ VSeqList["uho"].v[1] = "uh" /\ VSeqList["uoh"].v[2] = "oh"
  /\ VSeqList["uhoh"].v[1] = "uh" /\ VSeqList["uhoh"].v[2] = "oh"
<1>1. /\ "uho" \in VS /\ "uoh" \in VS /\ "uhoh" \in VS /\ "uh" \in VS
      /\ VSeqList["uho"].v = <<"uh", "o">> /\ VSeqList["uoh"].v = <<"u", "oh">>
      /\ VSeqList["uhoh"].v = <<"uh", "oh">> /\ VSeqList["uh"].v = <<"uh">>
  BY HookedRows
<1>2. VSeqList["uho"].len = 2 /\ VSeqList["uoh"].len = 2 /\ VSeqList["uhoh"].len = 2 /\ VSeqList["uh"].len = 1
  BY <1>1, Rows
<1>3. Sub("uhoh", 2) = "uhoh" /\ Sub("uh", 1) = "uh"
  BY <1>1, <1>2, SubSub
<1>4. VSeqList["uho"].v[1] = "uh" /\ VSeqList["uhoh"].v[1] = "uh" /\ VSeqList["uh"].v[1] = "uh"
  BY <1>1
<1>5. \A i \in 1 .. 1 : i = 1
  OBVIOUS
<1>6. Sub("uh", 1) = Sub("uho", 1) /\ Sub("uh", 1) = Sub("uhoh", 1)
  BY <1>1, <1>2, <1>4, <1>5, SameSub
<1>. QED  BY <1>1, <1>2, <1>3, <1>4, <1>6

\* A letter and the sequence it ends are written at an entry.
Respelled(e, i, sym, seq) == WithEdit(WithEdit(e, i, "sym", sym), i, "seq", seq)
OtherwiseSame(d, b, i, sym, seq) ==
  /\ Len(d) = Len(b)
  /\ \A j \in 1 .. Len(b) : /\ d[j].form = b[j].form /\ d[j].c1 = b[j].c1 /\ d[j].v = b[j].v
                            /\ d[j].caps = b[j].caps /\ d[j].tone = b[j].tone
                            /\ d[j].sym = (IF j = i THEN sym ELSE b[j].sym)
                            /\ d[j].seq = (IF j = i THEN seq ELSE b[j].seq)

\* The text is tracked as before when the letter is none of those before changePos.
LEMMA KeptRespelled ==
  ASSUME NEW b, NEW e, Kept(b, e), NEW i \in Int, i >= e.changePos, NEW sym, NEW seq
  PROVE  LET f == Respelled(e, i, sym, seq) IN
         /\ Kept(b, f) /\ f.changePos = e.changePos /\ OtherwiseSame(f.buf, e.buf, i, sym, seq)
         /\ f.ev = e.ev /\ f.then = e.then /\ f.ret = e.ret /\ f.ctl = e.ctl
<1>. DEFINE g == WithEdit(e, i, "sym", sym)
            f == WithEdit(g, i, "seq", seq)
<1>1. /\ "sym" \in WordFields /\ "seq" \in WordFields /\ "sym" # "form" /\ "seq" # "form"
      /\ \A x \in {"form", "c1", "v", "caps", "tone"} : x \in WordFields /\ x # "sym" /\ x # "seq"
  BY DEF WordFields
<1>2. Kept(b, g) /\ g.changePos = e.changePos
  BY <1>1, KeptEdit
<1>3. EngineOK(e)
  BY KeptHas
<1>4. /\ g.ev = e.ev /\ g.then = e.then /\ g.ret = e.ret /\ g.ctl = e.ctl /\ OneField(g.buf, e.buf, i, "sym", sym)
  BY ONLY <1>1, <1>3, EditHas
<1>. HIDE DEF g
<1>5. Kept(b, f) /\ f.changePos = g.changePos
  BY <1>1, <1>2, KeptEdit
<1>6. EngineOK(g)
  BY <1>2, KeptHas
<1>7. /\ f.ev = g.ev /\ f.then = g.then /\ f.ret = g.ret /\ f.ctl = g.ctl /\ OneField(f.buf, g.buf, i, "seq", seq)
  BY ONLY <1>1, <1>6, EditHas
<1>. HIDE DEF f
<1>8. OtherwiseSame(f.buf, e.buf, i, sym, seq)
  BY <1>1, <1>4, <1>7 DEF OneField, OtherwiseSame
<1>. QED  BY <1>2, <1>4, <1>5, <1>7, <1>8 DEF f, g, Respelled

\* u+o and uo+, with a consonant after them, become u+o+.
LEMMA HeldHooked ==
  ASSUME NEW b, NEW e, Held(b, e), e.buf # <<>>, Top(e).v = 0,
         NEW w, IsWord(w), Shaped(Append(e.buf, w)), w.v = 1
  PROVE  LET h == Hooked(e, w)
         IN  /\ Held(b, h) /\ Len(h.buf) = Len(e.buf) + 1 /\ h.changePos <= e.changePos
             /\ h.buf[Len(e.buf) + 1].form = w.form
             /\ Top(e).seq \notin {"uho", "uoh"} => h = Push(e, w)
<1>. DEFINE p == Push(e, w)
            n == Len(e.buf)
            vs == Top(e).seq
            h == Hooked(e, w)
<1>1. /\ Held(b, p) /\ p.changePos = e.changePos /\ Len(p.buf) = n + 1 /\ p.buf[n + 1] = w
      /\ \A j \in 1 .. n : p.buf[j] = e.buf[j]
  BY HeldPush
<1>2. n \in Int /\ n >= 1 /\ e.changePos \in Int /\ e.changePos <= n + 1
  <2>1. n \in Nat /\ n \in 1 .. n /\ e.changePos \in Int /\ e.changePos <= n + 1
    BY HeldHas
  <2>. QED  BY <2>1
<1>3. p.buf[n].v = 0 /\ p.buf[n].seq = vs
  BY <1>1, <1>2 DEF Top
<1>4. h = CASE vs = "uho" -> Respelled(markChange(p, n), n, "oh", "uhoh")
            [] vs = "uoh" -> WithEdit(Respelled(markChange(p, n - 1), n - 1, "uh", "uh"), n, "seq", "uhoh")
            [] OTHER -> p
  BY DEF Hooked, Respelled, WithEdit
<1>. HIDE DEF p, n, vs, h
<1>5. Items("word", p.buf) /\ Shaped(p.buf) /\ Kept(b, p) /\ n \in 1 .. Len(p.buf)
  <2>1. n \in 1 .. n + 1
    BY <1>2
  <2>. QED  BY <1>1, <2>1, HeldHas
<1>6. EndsVowels(p.buf, n)
  BY <1>3, <1>5, ShapeHas
<1>7. ASSUME NEW g, Kept(b, g), g.changePos <= e.changePos, Revowelled(p.buf, g.buf, n - 2 + 1, "uhoh"),
             VSeqList[vs].len = 2
      PROVE  /\ Held(b, g) /\ Len(g.buf) = n + 1 /\ g.changePos <= e.changePos
             /\ g.buf[n + 1].form = w.form
  <2>1. \A i \in n + 1 .. Len(p.buf) : p.buf[i].v # 0
    <3>1. \A i \in n + 1 .. n + 1 : i = n + 1
      BY <1>2
    <3>. QED  BY <1>1, <3>1
  <2>2. "uhoh" \in VS /\ VSeqList["uhoh"].len = 2
    BY HookedRows, HookedSubs
  <2>3. Shaped(g.buf)
    BY <1>3, <1>5, <1>7, <2>1, <2>2, ShapedRevowelled
  <2>4. n + 1 \in 1 .. n + 1
    BY <1>2
  <2>5. Len(g.buf) = n + 1 /\ g.buf[n + 1].form = w.form
    BY <1>1, <1>7, <2>4 DEF Revowelled
  <2>. QED  BY <1>7, <2>3, <2>5 DEF Held
<1>8. CASE vs = "uho"
  <2>. DEFINE m == markChange(p, n)
  <2>0. h = Respelled(m, n, "oh", "uhoh") /\ vs \in {"uho", "uoh"}
    BY <1>4, <1>8
  <2>1. Kept(b, m) /\ m.buf = p.buf /\ m.changePos = IF n < p.changePos THEN n ELSE p.changePos
    BY <1>2, <1>5, KeptMark
  <2>. HIDE DEF m
  <2>2. n >= m.changePos /\ m.changePos <= e.changePos
    BY <1>1, <1>2, <2>1
  <2>3. Kept(b, h) /\ h.changePos = m.changePos /\ OtherwiseSame(h.buf, p.buf, n, "oh", "uhoh")
    <3>1. n \in Int
      BY <1>2
    <3>. QED  BY ONLY <2>0, <2>1, <2>2, <3>1, KeptRespelled
  <2>4. 2 <= n /\ \A j \in 1 .. 2 : p.buf[n - 2 + j].seq = Sub("uho", j) /\ p.buf[n - 2 + j].sym = VSeqList["uho"].v[j]
    BY <1>3, <1>6, <1>8, HookedSubs DEF EndsVowels
  <2>5. p.buf[n - 1].seq = "uh" /\ p.buf[n - 1].sym = "uh"
    <3>1. 1 \in 1 .. 2 /\ n - 2 + 1 = n - 1
      BY <1>2
    <3>2. p.buf[n - 2 + 1].seq = "uh" /\ p.buf[n - 2 + 1].sym = "uh"
      BY <2>4, <3>1, HookedSubs
    <3>. QED  BY <3>1, <3>2
  <2>6. Revowelled(p.buf, h.buf, n - 2 + 1, "uhoh")
    <3>1. ASSUME NEW i \in 1 .. Len(p.buf)
          PROVE  LET j == i - (n - 2 + 1) + 1
                 IN  /\ h.buf[i].form = p.buf[i].form /\ h.buf[i].c1 = p.buf[i].c1 /\ h.buf[i].v = p.buf[i].v
                     /\ j \in 1 .. 2 => h.buf[i].seq = Sub("uhoh", j) /\ h.buf[i].sym = VSeqList["uhoh"].v[j]
                     /\ j \notin 1 .. 2 => h.buf[i].seq = p.buf[i].seq /\ h.buf[i].sym = p.buf[i].sym
      <4>. PICK j \in Int : j = i - (n - 2 + 1) + 1
        BY <1>1, <1>2
      <4>1. (j \in 1 .. 2 <=> (j = 1 \/ j = 2)) /\ (j = 1 <=> i = n - 1) /\ (j = 2 <=> i = n) /\ n # n - 1
        BY <1>1, <1>2
      <4>2. /\ h.buf[i].form = p.buf[i].form /\ h.buf[i].c1 = p.buf[i].c1 /\ h.buf[i].v = p.buf[i].v
            /\ h.buf[i].sym = (IF i = n THEN "oh" ELSE p.buf[i].sym)
            /\ h.buf[i].seq = (IF i = n THEN "uhoh" ELSE p.buf[i].seq)
        BY <2>3 DEF OtherwiseSame
      <4>. QED  BY <2>5, <4>1, <4>2, HookedSubs
    <3>2. Len(h.buf) = Len(p.buf)
      BY <2>3 DEF OtherwiseSame
    <3>. QED  BY <3>1, <3>2, HookedRows, HookedSubs DEF Revowelled
  <2>. QED  BY <1>7, <1>8, <2>0, <2>2, <2>3, <2>6, HookedSubs DEF h, n, vs
<1>9. CASE vs = "uoh"
  <2>. PICK k \in Int : k = n - 1
    BY <1>2
  <2>. DEFINE m == markChange(p, k)
              g == Respelled(m, k, "uh", "uh")
  <2>0. h = WithEdit(g, n, "seq", "uhoh") /\ vs \in {"uho", "uoh"}
    BY <1>4, <1>9
  <2>4. 2 <= n /\ \A j \in 1 .. 2 : p.buf[n - 2 + j].seq = Sub("uoh", j) /\ p.buf[n - 2 + j].sym = VSeqList["uoh"].v[j]
    BY <1>3, <1>6, <1>9, HookedSubs DEF EndsVowels
  <2>1. Kept(b, m) /\ m.buf = p.buf /\ m.changePos = IF k < p.changePos THEN k ELSE p.changePos
    <3>1. k >= 1
      BY <1>2, <2>4
    <3>2. k \in Int /\ k >= 1 /\ Kept(b, p) /\ m = markChange(p, k)
      BY <1>5, <3>1
    <3>. HIDE DEF m
    <3>. QED  BY ONLY <3>2, KeptMark, ZenonT(30)
  <2>. HIDE DEF m
  <2>2. k >= m.changePos /\ m.changePos <= e.changePos /\ m.changePos \in Int /\ n >= m.changePos
    BY <1>1, <1>2, <2>1
  <2>3. Kept(b, g) /\ g.changePos = m.changePos /\ OtherwiseSame(g.buf, p.buf, k, "uh", "uh")
    BY ONLY k \in Int, <2>1, <2>2, KeptRespelled
  <2>. HIDE DEF g
  <2>5. "seq" \in WordFields /\ "seq" # "form" /\ \A x \in {"form", "c1", "v", "sym"} : x \in WordFields /\ x # "seq"
    BY DEF WordFields
  <2>6. Kept(b, h) /\ h.changePos = g.changePos
    BY <1>2, <2>0, <2>3, <2>5, KeptEdit
  <2>7. OneField(h.buf, g.buf, n, "seq", "uhoh")
    <3>1. EngineOK(g)
      BY <2>3, KeptHas
    <3>. QED  BY ONLY <2>0, <2>5, <3>1, EditHas
  <2>8. p.buf[n].sym = "oh"
    <3>1. 2 \in 1 .. 2 /\ n - 2 + 2 = n
      BY <1>2
    <3>2. p.buf[n - 2 + 2].sym = "oh"
      BY <2>4, <3>1, HookedSubs
    <3>. QED  BY <3>1, <3>2
  <2>9. Revowelled(p.buf, h.buf, n - 2 + 1, "uhoh")
    <3>1. ASSUME NEW i \in 1 .. Len(p.buf)
          PROVE  LET j == i - (n - 2 + 1) + 1
                 IN  /\ h.buf[i].form = p.buf[i].form /\ h.buf[i].c1 = p.buf[i].c1 /\ h.buf[i].v = p.buf[i].v
                     /\ j \in 1 .. 2 => h.buf[i].seq = Sub("uhoh", j) /\ h.buf[i].sym = VSeqList["uhoh"].v[j]
                     /\ j \notin 1 .. 2 => h.buf[i].seq = p.buf[i].seq /\ h.buf[i].sym = p.buf[i].sym
      <4>. PICK j \in Int : j = i - (n - 2 + 1) + 1
        BY <1>1, <1>2
      <4>1. (j \in 1 .. 2 <=> (j = 1 \/ j = 2)) /\ (j = 1 <=> i = k) /\ (j = 2 <=> i = n) /\ n # k
        BY <1>1, <1>2
      <4>2. /\ g.buf[i].form = p.buf[i].form /\ g.buf[i].c1 = p.buf[i].c1 /\ g.buf[i].v = p.buf[i].v
            /\ g.buf[i].sym = (IF i = k THEN "uh" ELSE p.buf[i].sym)
            /\ g.buf[i].seq = (IF i = k THEN "uh" ELSE p.buf[i].seq)
            /\ Len(g.buf) = Len(p.buf)
        BY <2>3 DEF OtherwiseSame
      <4>3. /\ h.buf[i].form = g.buf[i].form /\ h.buf[i].c1 = g.buf[i].c1 /\ h.buf[i].v = g.buf[i].v
            /\ h.buf[i].sym = g.buf[i].sym
            /\ h.buf[i].seq = (IF i = n THEN "uhoh" ELSE g.buf[i].seq)
        BY <2>5, <2>7, <4>2 DEF OneField
      <4>. QED  BY <2>8, <4>1, <4>2, <4>3, HookedSubs, Zenon
    <3>2. Len(h.buf) = Len(p.buf)
      BY <2>3, <2>7 DEF OtherwiseSame, OneField
    <3>. QED  BY <3>1, <3>2, HookedRows, HookedSubs DEF Revowelled
  <2>10. h.changePos <= e.changePos
    BY <2>2, <2>3, <2>6
  <2>. QED  BY <1>7, <1>9, <2>0, <2>6, <2>9, <2>10, HookedSubs DEF h, n, vs
<1>10. CASE vs \notin {"uho", "uoh"}
  <2>1. h = p
    BY <1>4, <1>10
  <2>. QED  BY <1>1, <1>2, <2>1 DEF h, n, p
<1>. QED  BY <1>8, <1>9, <1>10

\* A consonant ends the vowels.
LEMMA GrewConsonantAfterVowel ==
  ASSUME NEW b, NEW e, Held(b, e), e.buf # <<>>, Top(e).form \in {"v", "cv"}, NEW newCs,
         NEW newVs, newVs = IF Top(e).seq \in {"uoh", "uho"} THEN "uhoh" ELSE Top(e).seq,
         NEW oldPos \in 1 .. Len(e.buf), NEW newPos \in Int, newPos >= 1
  PROVE  Grew(b, e, ConsonantAfterVowel(e, newVs, newCs, oldPos, newPos))
<1>. DEFINE n == Len(e.buf)
            vs == Top(e).seq
            x == e.ev.sym
            w == IF Top(e).form = "v" THEN Word("vc", -1, 1, 0, newCs, x)
                 ELSE Word("cvc", Top(e).c1 + 1, 1, 0, newCs, x)
            h == Hooked(e, w)
            t == MoveTone(h, oldPos, newPos)
            moved == e.buf[oldPos].tone # 0 /\ oldPos # newPos
            r == IF vs # newVs \/ moved THEN 1 ELSE 0
            c == ConsonantAfterVowel(e, newVs, newCs, oldPos, newPos)
<1>1. c = IF ~isValidCVC(C1(e, n), newVs, newCs) THEN Ret(Push(e, NonVn(x)), 0) ELSE Ret(t, r)
  BY DEF ConsonantAfterVowel, Hooked
<1>2. Grew(b, e, Ret(Push(e, NonVn(x)), 0))
  BY GrewNonVn
<1>3. /\ Items("word", e.buf) /\ Shaped(e.buf) /\ n \in Int /\ n >= 1 /\ n \in 1 .. n /\ Top(e) = e.buf[n]
      /\ e.changePos \in Int
  <2>1. Items("word", e.buf) /\ Shaped(e.buf) /\ n \in Nat /\ n \in 1 .. n /\ e.changePos \in Int
    BY HeldHas
  <2>. QED  BY <2>1 DEF Top
<1>4. Top(e).v = 0 /\ e.buf[n].v = 0
  BY <1>3, ShapeHas
<1>5. PICK form, c1 : form \in {"vc", "cvc"} /\ w = Word(form, c1, 1, 0, newCs, x) /\ (c1 = -1 \/ c1 = e.buf[n].c1 + 1)
  BY <1>3
<1>6. w.form = form /\ w.v = 1 /\ IsWord(w)
  BY <1>5, WordHas DEF Forms
<1>. HIDE DEF w, c
<1>7. Shaped(Append(e.buf, w)) /\ Face(w) = Shown(x)
  <2>1. 1 = e.buf[n].v + 1 /\ e.buf[n].v >= 0
    BY <1>4
  <2>2. w.c1 = c1 /\ Face(w) = Shown(x)
    BY <1>5, WordHas DEF Forms, Shown
  <2>3. Shaped(Append(e.buf, w))
    BY <1>3, <1>5, <1>6, <2>1, <2>2, CodaShape
  <2>. QED  BY <2>2, <2>3
<1>8. /\ Held(b, h) /\ Len(h.buf) = n + 1 /\ h.changePos <= e.changePos /\ h.buf[n + 1].form = w.form
      /\ vs \notin {"uho", "uoh"} => h = Push(e, w)
  BY <1>4, <1>6, <1>7, HeldHooked
<1>9. Kept(b, h) /\ h.changePos \in Int
  BY <1>8, HeldHas
<1>. HIDE DEF h
<1>10. CASE r = 0
  <2>1. vs \notin {"uho", "uoh"} /\ ~moved
    BY <1>10
  <2>2. h = Push(e, w)
    BY <1>8, <2>1
  <2>3. h.buf[oldPos] = e.buf[oldPos]
    <3>1. \A j \in 1 .. n : Push(e, w).buf[j] = e.buf[j]
      BY <1>6, <1>7, HeldPush
    <3>. QED  BY <2>2, <3>1
  <2>4. t = h
    BY <2>1, <2>3 DEF MoveTone
  <2>5. Grew(b, e, Ret(h, 0))
    BY <1>6, <1>7, <2>2, GrewPush
  <2>. HIDE DEF t, r
  <2>. QED  BY <1>1, <1>2, <1>10, <2>4, <2>5 DEF c
<1>11. CASE r # 0
  <2>1. oldPos \in Int /\ oldPos >= 1
    BY <1>3
  <2>2. /\ Held(b, t) /\ Len(t.buf) = Len(h.buf) /\ t.changePos <= h.changePos
        /\ \A j \in 1 .. Len(h.buf) : SameBone(t.buf[j], h.buf[j])
    BY <1>8, <1>9, <2>1, KeptMoveTone
  <2>3. t.changePos \in Int
    BY <2>2, HeldHas
  <2>4. n + 1 \in 1 .. n + 1 /\ Len(t.buf) = n + 1 /\ t.changePos <= e.changePos
    BY <1>3, <1>8, <1>9, <2>2, <2>3
  <2>5. t.buf[n + 1].form \notin {"nonVn", "empty"}
    <3>1. n + 1 \in 1 .. Len(h.buf)
      BY <1>8, <2>4
    <3>2. SameBone(t.buf[n + 1], h.buf[n + 1])
      BY ONLY <2>2, <3>1
    <3>3. t.buf[n + 1].form = h.buf[n + 1].form
      BY ONLY <3>2 DEF SameBone
    <3>. QED  BY <1>5, <1>6, <1>8, <3>3
  <2>. HIDE DEF t
  <2>6. Grew(b, e, Ret(t, 1))
    BY <2>2, <2>4, <2>5, GrewTouched
  <2>7. r = 1
    BY <1>11
  <2>. HIDE DEF r
  <2>. QED  BY <1>1, <1>2, <2>6, <2>7 DEF c
<1>. QED  BY <1>10, <1>11

\* appendConsonnantToVowel.
LEMMA GrewAppendConsonnantToVowel ==
  ASSUME NEW b, NEW e, Held(b, e), e.buf # <<>>, Top(e).form \in {"v", "cv"}
  PROVE  Grew(b, e, appendConsonnantToVowel(e))
<1>. DEFINE vs == Top(e).seq
            newVs == IF vs \in {"uoh", "uho"} THEN "uhoh" ELSE vs
            start == Len(e.buf) - VSeqList[vs].len + 1
            oldPos == start + TonePosition(e, vs, TRUE)
            newPos == start + TonePosition(e, newVs, FALSE)
            newCs == lookupCSeq(<<e.ev.sym.sym>>)
<1>1. appendConsonnantToVowel(e) = ConsonantAfterVowel(e, newVs, newCs, oldPos, newPos)
  BY DEF appendConsonnantToVowel
<1>2. /\ vs \in VS /\ start \in Int /\ 1 <= start /\ start <= Len(e.buf) /\ Len(e.buf) \in Int
      /\ oldPos \in Int /\ oldPos >= start /\ oldPos <= Len(e.buf)
  BY LastVowels
<1>3. newVs \in VS
  BY <1>2, HookedRows
<1>4. TonePosition(e, newVs, FALSE) \in 0 .. VSeqList[newVs].len - 1 /\ VSeqList[newVs].len \in Int
  BY <1>3, TonePositions, Rows DEF TonePosition
<1>5. newPos \in Int /\ newPos >= 1
  <2>. PICK q, l : q = TonePosition(e, newVs, FALSE) /\ l = VSeqList[newVs].len
    OBVIOUS
  <2>1. q \in 0 .. l - 1 /\ l \in Int /\ newPos = start + q
    BY <1>4
  <2>. HIDE DEF start, newVs, newPos
  <2>2. start \in Int /\ 1 <= start
    BY <1>2
  <2>. QED  BY ONLY <2>1, <2>2
<1>6. oldPos \in 1 .. Len(e.buf)
  <2>. HIDE DEF start, oldPos
  <2>. QED  BY <1>2
<1>7. newVs = IF vs \in {"uoh", "uho"} THEN "uhoh" ELSE vs
  OBVIOUS
<1>. HIDE DEF newVs, newCs, oldPos, newPos
<1>8. Grew(b, e, ConsonantAfterVowel(e, newVs, newCs, oldPos, newPos))
  BY <1>5, <1>6, <1>7, GrewConsonantAfterVowel
<1>. QED  BY <1>1, <1>8

\* A consonant after a consonant.
LEMMA GrewConsonantAfterConsonant ==
  ASSUME NEW b, NEW e, Held(b, e), e.buf # <<>>, NEW newCs
  PROVE  Grew(b, e, ConsonantAfterConsonant(e, newCs))
<1>. DEFINE n == Len(e.buf)
            x == e.ev.sym
            prev == Top(e)
            onset == Word("c", 0, -1, -1, newCs, x)
            c1 == IF prev.form = "cvc" THEN prev.c1 + 1 ELSE -1
            coda == Word(prev.form, c1, prev.v + 1, 0, newCs, x)
            c == ConsonantAfterConsonant(e, newCs)
<1>1. \/ c = Ret(Push(e, NonVn(x)), 0)
      \/ c = Ret(Push(e, onset), 0) /\ prev.form = "c"
      \/ c = Ret(Push(e, coda), 0) /\ prev.form \in {"vc", "cvc"}
  BY DEF ConsonantAfterConsonant
<1>2. Grew(b, e, Ret(Push(e, NonVn(x)), 0))
  BY GrewNonVn
<1>3. Items("word", e.buf) /\ Shaped(e.buf) /\ n \in 1 .. n /\ prev = e.buf[n]
  BY HeldHas DEF Top
<1>. HIDE DEF c
<1>4. ASSUME prev.form = "c"  PROVE Grew(b, e, Ret(Push(e, onset), 0))
  <2>1. e.buf[n].form = "c"
    BY <1>3, <1>4
  <2>2. Shaped(Append(e.buf, onset)) /\ IsWord(onset) /\ Face(onset) = Shown(x)
    BY <1>3, <2>1, OnsetShape DEF Shown
  <2>. HIDE DEF onset
  <2>. QED  BY <2>2, GrewPush
<1>5. ASSUME prev.form \in {"vc", "cvc"}  PROVE Grew(b, e, Ret(Push(e, coda), 0))
  <2>1. e.buf[n].v >= 1 /\ e.buf[n].v \in Int
    BY <1>3, <1>5, ShapeHas
  <2>2. e.buf[n].v >= 0 /\ (c1 = -1 \/ c1 = e.buf[n].c1 + 1) /\ prev.v + 1 = e.buf[n].v + 1
    BY <1>3, <2>1
  <2>3. /\ IsWord(coda) /\ Face(coda) = Shown(x) /\ coda.form = prev.form /\ coda.c1 = c1
        /\ coda.v = e.buf[n].v + 1
    <3>1. prev.form \in Forms
      BY <1>5 DEF Forms
    <3>. HIDE DEF c1
    <3>. QED  BY <1>3, <3>1, WordHas DEF Shown
  <2>. HIDE DEF coda
  <2>4. Shaped(Append(e.buf, coda))
    BY <1>3, <1>5, <2>2, <2>3, CodaShape
  <2>. HIDE DEF coda
  <2>. QED  BY <2>3, <2>4, GrewPush
<1>6. Grew(b, e, c)
  BY <1>1, <1>2, <1>4, <1>5
<1>. QED  BY <1>6 DEF c

\* appendConsonnant.
LEMMA GrewAppendConsonnant ==
  ASSUME NEW b, NEW e, Held(b, e)
  PROVE  Grew(b, e, appendConsonnant(e))
<1>. DEFINE x == e.ev.sym
            first == Word("c", 0, -1, -1, lookupCSeq(<<x.sym>>), x)
<1>1. /\ Items("word", e.buf) /\ Shaped(e.buf) /\ (~AtWordBeginning(e.buf) => e.buf # <<>>)
      /\ (e.buf # <<>> => Top(e).form \in Forms)
  <2>1. Items("word", e.buf) /\ Shaped(e.buf) /\ EngineOK(e)
    BY HeldHas
  <2>. QED  BY <2>1, TopForm DEF AtWordBeginning
<1>2. ASSUME e.buf # <<>>, Top(e).form = "empty"  PROVE AtWordBeginning(e.buf)
  BY <1>2 DEF AtWordBeginning, Top
<1>3. Grew(b, e, Ret(Push(e, first), 0))
  <2>1. lookupCSeq(<<x.sym>>) # "gin"
    BY ConsonantAlone
  <2>2. Shaped(Append(e.buf, first)) /\ IsWord(first) /\ Face(first) = Shown(x)
    BY <1>1, <2>1, OnsetShape DEF Shown
  <2>. HIDE DEF first
  <2>. QED  BY <2>2, GrewPush
<1>4. Grew(b, e, Ret(Push(e, NonVn(x)), 0))
  BY GrewNonVn
<1>5. CASE AtWordBeginning(e.buf)
  BY <1>3, <1>5 DEF appendConsonnant
<1>6. CASE ~AtWordBeginning(e.buf)
  <2>. PICK newCs : newCs = CSeqAfter(e, Top(e).seq, x)
    OBVIOUS
  <2>1. e.buf # <<>> /\ Top(e).form \in Forms \ {"empty"}
    BY <1>1, <1>2, <1>6
  <2>2. \/ Top(e).form = "nonVn" /\ appendConsonnant(e) = Ret(Push(e, NonVn(x)), 0)
        \/ Top(e).form \in {"v", "cv"} /\ appendConsonnant(e) = appendConsonnantToVowel(e)
        \/ appendConsonnant(e) = ConsonantAfterConsonant(e, newCs)
    BY <1>6, <2>1 DEF appendConsonnant, Forms
  <2>3. Grew(b, e, ConsonantAfterConsonant(e, newCs))
    BY <2>1, GrewConsonantAfterConsonant
  <2>4. Top(e).form \in {"v", "cv"} => Grew(b, e, appendConsonnantToVowel(e))
    BY <2>1, GrewAppendConsonnantToVowel
  <2>. QED  BY <1>4, <2>2, <2>3, <2>4
<1>. QED  BY <1>5, <1>6

\* appendSymbol, for anything but a control code and a word break.
LEMMA GrewAppendSymbol ==
  ASSUME NEW b, NEW e, Held(b, e), e.ev.ch \in {"NonVn", "Vn"}, e.ev.sym.tone = 0
  PROVE  Grew(b, e, appendSymbol(e))
<1>1. Grew(b, e, Ret(Push(e, NonVn(e.ev.sym)), 0)) /\ Grew(b, e, appendConsonnant(e))
  BY GrewNonVn, GrewAppendConsonnant
<1>2. e.ev.sym.sym \in Vowels => Grew(b, e, appendVowel(e))
  BY GrewAppendVowel
<1>3. \/ appendSymbol(e) = Ret(Push(e, NonVn(e.ev.sym)), 0)
      \/ appendSymbol(e) = appendConsonnant(e)
      \/ e.ev.sym.sym \in Vowels /\ appendSymbol(e) = appendVowel(e)
  BY DEF appendSymbol
<1>. QED  BY <1>1, <1>2, <1>3

-----------------------------------------------------------------------------
(* The vowels of the last word. *)

\* The first of some places.
LEMMA MinAmong ==
  ASSUME NEW n \in Nat, NEW T, T \subseteq 0 .. n - 1, T # {}
  PROVE  Min(T) \in T /\ Min(T) \in Int /\ Min(T) >= 0 /\ \A i \in T : i >= Min(T)
<1>1. T \subseteq Nat
  OBVIOUS
<1>2. PICK x \in T : \A y \in T : x <= y
  BY ONLY <1>1, T # {}, Q!LeastNumber
<1>. PICK m : m = Min(T)
  OBVIOUS
<1>3. m \in T /\ \A y \in T : m <= y
  BY <1>2 DEF Min
<1>4. m \in Int /\ m >= 0 /\ \A i \in T : i >= m
  BY <1>1, <1>3
<1>. QED  BY <1>3, <1>4

\* Where they are, and that no later entry is a vowel.
LEMMA VowelsFound ==
  ASSUME NEW b, NEW e, Held(b, e), hasVowel(e)
  PROVE  LET n == Len(e.buf)
             last == VEnd(e)
             s == VSeq(e)
             first == VStart(e)
         IN
         /\ n \in Nat /\ last \in 1 .. n /\ last \in Int /\ s \in VS /\ s = e.buf[last].seq /\ e.buf[last].v = 0
         /\ \A i \in last + 1 .. n : e.buf[i].v # 0
         /\ first = last - VSeqList[s].len + 1 /\ first \in Int /\ first >= 1 /\ VSeqList[s].len \in 1 .. 3
         /\ \A j \in 1 .. VSeqList[s].len : e.buf[first + j - 1].sym = VSeqList[s].v[j]
<1>. DEFINE n == Len(e.buf)
            last == VEnd(e)
            s == VSeq(e)
            first == VStart(e)
            c == e.buf
            w == Top(e)
            m == w.v
<1>1. Items("word", c) /\ Shaped(c) /\ n \in Nat /\ n \in 1 .. n /\ w = c[n] /\ m >= 0
  BY HeldHas DEF hasVowel, Top
<1>2. Chain(c, n, "v") /\ m \in Int /\ m < n
  BY <1>1, ShapeHas
<1>3. \A j \in 0 .. m : c[n - j].v = m - j
  <2>1. \A j \in 0 .. c[n]["v"] : c[n - j]["v"] = c[n]["v"] - j
    BY ONLY <1>2, ChainHas
  <2>. QED  BY <1>1, <2>1
<1>4. last = n - m
  BY DEF VEnd
<1>5. last \in 1 .. n /\ c[last].v = 0
  <2>1. m \in 0 .. m /\ n \in Int
    BY <1>1, <1>2
  <2>2. c[n - m].v = m - m
    BY ONLY <1>3, <2>1
  <2>. QED  BY <1>1, <1>2, <1>4, <2>2
<1>6. ASSUME NEW i \in last + 1 .. n  PROVE c[i].v # 0
  <2>. PICK j \in Int : j = n - i
    BY <1>1, <1>5
  <2>1. j \in 0 .. m /\ i = n - j /\ m - j > 0
    BY <1>1, <1>2, <1>4
  <2>. QED  BY <1>2, <1>3, <2>1
<1>7. s = c[last].seq /\ first = last - VSeqList[s].len + 1
  BY DEF VSeq, VStart, VEnd
<1>8. EndsVowels(c, last) /\ s \in VS /\ VSeqList[s].len <= last
  BY <1>1, <1>5, <1>7, ShapeHas
<1>9. VSeqList[s].len \in 1 .. 3
  BY <1>8, Rows
<1>10. \A j \in 1 .. VSeqList[s].len : c[first + j - 1].sym = VSeqList[s].v[j]
  <2>. PICK k \in Int : k = VSeqList[s].len
    BY <1>9
  <2>. HIDE DEF c, last, s, n
  <2>1. \A j \in 1 .. k : c[last - k + j].sym = VSeqList[s].v[j]
    BY <1>5, <1>7, <1>8, EndsHas
  <2>2. \A j \in 1 .. k : first + j - 1 = last - k + j
    BY <1>5, <1>7, <1>9
  <2>. QED  BY <2>1, <2>2
<1>. QED  BY <1>1, <1>5, <1>6, <1>7, <1>8, <1>9, <1>10

\* The tone is on one of them, or would be on one of another row of as many letters.
LEMMA TonesFound ==
  ASSUME NEW b, NEW e, Held(b, e), hasVowel(e)
  PROVE  /\ TonePos(e) \in Int /\ TonePos(e) >= 1 /\ TonePos(e) <= Len(e.buf)
         /\ \A x : \A t \in VS : VStart(e) + TonePosition(e, t, x) \in Int /\ VStart(e) + TonePosition(e, t, x) >= 1
<1>. DEFINE first == VStart(e)
            s == VSeq(e)
<1>1. s \in VS /\ first \in Int /\ first >= 1 /\ VSeqList[s].len \in 1 .. 3
      /\ first = VEnd(e) - VSeqList[s].len + 1 /\ VEnd(e) \in 1 .. Len(e.buf) /\ Len(e.buf) \in Nat
  BY VowelsFound
<1>2. \A x : \A t \in VS : TonePosition(e, t, x) \in 0 .. VSeqList[t].len - 1 /\ VSeqList[t].len \in Int
  BY TonePositions, Rows DEF TonePosition
<1>. HIDE DEF first, s
<1>3. \A x : \A t \in VS : first + TonePosition(e, t, x) \in Int /\ first + TonePosition(e, t, x) >= 1
  BY <1>1, <1>2
<1>4. TonePos(e) = first + TonePosition(e, s, Terminated(e))
  BY DEF TonePos, first, s
<1>. PICK q \in Int : q = TonePosition(e, s, Terminated(e))
  BY <1>1, <1>2
<1>5. q \in 0 .. VSeqList[s].len - 1
  BY <1>1, <1>2
<1>. QED  BY <1>1, <1>3, <1>4, <1>5 DEF first

-----------------------------------------------------------------------------
(* Vowels rewritten (RewriteAt). *)

\* The buffer c is d with a field written at first and the places after it: what to has
\* for those in K.
Written(c, d, first, field, to, K) ==
  /\ Len(c) = Len(d)
  /\ \A j \in 1 .. Len(d), g \in WordFields :
        c[j][g] = IF g = field /\ j - first \in K /\ j - first \in DOMAIN to THEN to[j - first] ELSE d[j][g]

\* One place more.
LEMMA WriteStep ==
  ASSUME NEW b, NEW e, Kept(b, e), NEW first \in Int, NEW field \in {"sym", "seq"}, NEW to, NEW i \in Int,
         (field = "sym" /\ i \in DOMAIN to) => first + i >= e.changePos,
         NEW d, Len(d) \in Nat, NEW K, Written(e.buf, d, first, field, to, K)
  PROVE  LET g == IF i \in DOMAIN to THEN WithEdit(e, first + i, field, to[i]) ELSE e
         IN  /\ Kept(b, g) /\ g.changePos = e.changePos /\ g.ev = e.ev /\ g.then = e.then /\ g.ctl = e.ctl
             /\ Written(g.buf, d, first, field, to, K \cup {i})
<1>1. CASE i \notin DOMAIN to
  <2>1. Written(e.buf, d, first, field, to, K \cup {i})
    <3>. DEFINE c == e.buf
    <3>1. Written(c, d, first, field, to, K)
      OBVIOUS
    <3>. HIDE DEF c
    <3>2. Written(c, d, first, field, to, K \cup {i})
      BY <1>1, <3>1 DEF Written
    <3>. QED  BY <3>2 DEF c
  <2>. QED  BY <1>1, <2>1
<1>2. CASE i \in DOMAIN to
  <2>. PICK p \in Int : p = first + i
    OBVIOUS
  <2>. DEFINE f == WithEdit(e, p, field, to[i])
  <2>1. field \in WordFields /\ field # "form" /\ EngineOK(e)
    BY DEF WordFields, Kept
  <2>2. (field \in {"sym", "caps", "tone"}) => p >= e.changePos \/ p < 1
    BY <1>2
  <2>3. Kept(b, f) /\ f.changePos = e.changePos
    <3>. PICK x : x = to[i]
      OBVIOUS
    <3>1. f = WithEdit(e, p, field, x)
      OBVIOUS
    <3>. HIDE DEF f
    <3>. QED  BY ONLY <2>1, <2>2, <3>1, KeptEdit, Kept(b, e), p \in Int
  <2>4. /\ OneField(f.buf, e.buf, p, field, to[i]) /\ f.ev = e.ev /\ f.then = e.then /\ f.ctl = e.ctl
        /\ Len(f.buf) = Len(e.buf)
    BY <2>1, EditHas
  <2>5. Written(f.buf, d, first, field, to, K \cup {i})
    <3>. PICK c, h, x : c = e.buf /\ h = f.buf /\ x = to[i]
      OBVIOUS
    <3>. HIDE DEF f
    <3>0. /\ Len(c) = Len(d) /\ Len(h) = Len(c)
          /\ \A j \in 1 .. Len(d), g \in WordFields :
               c[j][g] = IF g = field /\ j - first \in K /\ j - first \in DOMAIN to THEN to[j - first] ELSE d[j][g]
      BY <2>4 DEF Written
    <3>1. \A j \in 1 .. Len(c), g \in WordFields : h[j][g] = IF j = p /\ g = field THEN x ELSE c[j][g]
      BY <2>4 DEF OneField
    <3>2. ASSUME NEW j \in 1 .. Len(d), NEW g \in WordFields
          PROVE  h[j][g] = IF g = field /\ j - first \in K \cup {i} /\ j - first \in DOMAIN to
                           THEN to[j - first] ELSE d[j][g]
      <4>1. h[j][g] = IF j = p /\ g = field THEN x ELSE c[j][g]
        BY <3>0, <3>1
      <4>2. c[j][g] = IF g = field /\ j - first \in K /\ j - first \in DOMAIN to THEN to[j - first] ELSE d[j][g]
        BY <3>0
      <4>3. j = p <=> j - first = i
        OBVIOUS
      <4>. QED  BY <1>2, <4>1, <4>2, <4>3
    <3>3. Written(h, d, first, field, to, K \cup {i})
      BY <3>0, <3>2 DEF Written
    <3>. QED  BY <3>3
  <2>. HIDE DEF f
  <2>6. f = IF i \in DOMAIN to THEN WithEdit(e, first + i, field, to[i]) ELSE e
    BY <1>2 DEF f
  <2>. QED  BY <2>3, <2>4, <2>5, <2>6
<1>. QED  BY <1>1, <1>2

\* Nothing written yet.
LEMMA WrittenNone ==
  ASSUME NEW d, NEW first, NEW field, NEW to
  PROVE  Written(d, d, first, field, to, {})
BY DEF Written

\* The letters.
AllLettered(e, first, to) == Lettered(Lettered(Lettered(e, first, to, 0), first, to, 1), first, to, 2)

\* They are the letters of to, and nothing else is written.
LEMMA LettersWritten ==
  ASSUME NEW b, NEW e, Kept(b, e), NEW first \in Int, NEW to,
         \A i \in DOMAIN to : i \in Int /\ first + i >= e.changePos
  PROVE  LET f == AllLettered(e, first, to)
         IN  /\ Kept(b, f) /\ f.changePos = e.changePos /\ f.ev = e.ev /\ f.then = e.then /\ f.ctl = e.ctl
             /\ Written(f.buf, e.buf, first, "sym", to, {0, 1, 2})
<1>. DEFINE d == e.buf
            f0 == Lettered(e, first, to, 0)
            f1 == Lettered(f0, first, to, 1)
            f2 == Lettered(f1, first, to, 2)
<1>0. /\ \A x, i : Lettered(x, first, to, i) = IF i \in DOMAIN to THEN WithEdit(x, first + i, "sym", to[i]) ELSE x
      /\ Len(d) \in Nat
  BY KeptHas DEF Lettered, WithEdit
<1>1. ASSUME NEW x, Kept(b, x), x.changePos = e.changePos, NEW i \in {0, 1, 2}, NEW K,
             Written(x.buf, d, first, "sym", to, K)
      PROVE  LET g == Lettered(x, first, to, i)
             IN  /\ Kept(b, g) /\ g.changePos = e.changePos /\ g.ev = x.ev /\ g.then = x.then /\ g.ctl = x.ctl
                 /\ Written(g.buf, d, first, "sym", to, K \cup {i})
  <2>. DEFINE g == IF i \in DOMAIN to THEN WithEdit(x, first + i, "sym", to[i]) ELSE x
  <2>1. (i \in DOMAIN to => first + i >= x.changePos) /\ i \in Int
    BY <1>1
  <2>2. /\ Kept(b, g) /\ g.changePos = x.changePos /\ g.ev = x.ev /\ g.then = x.then /\ g.ctl = x.ctl
        /\ Written(g.buf, d, first, "sym", to, K \cup {i})
    <3>. HIDE DEF d
    <3>. QED  BY <1>0, <1>1, <2>1, WriteStep
  <2>3. Lettered(x, first, to, i) = g
    BY <1>0
  <2>. HIDE DEF g, d
  <2>. QED  BY <1>1, <2>2, <2>3
<1>2. Written(e.buf, d, first, "sym", to, {})
  BY WrittenNone
<1>3. /\ Kept(b, f0) /\ f0.changePos = e.changePos /\ f0.ev = e.ev /\ f0.then = e.then /\ f0.ctl = e.ctl
      /\ Written(f0.buf, d, first, "sym", to, {} \cup {0})
  <2>. HIDE DEF d
  <2>. QED  BY <1>1, <1>2
<1>. HIDE DEF f0
<1>4. /\ Kept(b, f1) /\ f1.changePos = e.changePos /\ f1.ev = e.ev /\ f1.then = e.then /\ f1.ctl = e.ctl
      /\ Written(f1.buf, d, first, "sym", to, {} \cup {0} \cup {1})
  <2>. HIDE DEF d
  <2>. QED  BY <1>1, <1>3
<1>. HIDE DEF f1
<1>5. /\ Kept(b, f2) /\ f2.changePos = e.changePos /\ f2.ev = e.ev /\ f2.then = e.then /\ f2.ctl = e.ctl
      /\ Written(f2.buf, d, first, "sym", to, {} \cup {0} \cup {1} \cup {2})
  <2>. HIDE DEF d
  <2>. QED  BY <1>1, <1>4
<1>6. {} \cup {0} \cup {1} \cup {2} = {0, 1, 2}
  OBVIOUS
<1>. QED  BY <1>5, <1>6 DEF AllLettered, f0, f1, f2, d

\* The parts of the row they spell.
LEMMA SequencesWritten ==
  ASSUME NEW b, NEW e, Kept(b, e), NEW first \in Int, NEW t \in VS
  PROVE  LET f == Retype(e, first, t)
             to == [i \in 0 .. VSeqList[t].len - 1 |-> Sub(t, i + 1)]
         IN  /\ Kept(b, f) /\ f.changePos = e.changePos /\ f.ev = e.ev /\ f.then = e.then /\ f.ctl = e.ctl
             /\ Written(f.buf, e.buf, first, "seq", to, {0, 1, 2})
<1>. DEFINE d == e.buf
            to == [i \in 0 .. VSeqList[t].len - 1 |-> Sub(t, i + 1)]
            f0 == Sequenced(e, first, t, 0)
            f1 == Sequenced(f0, first, t, 1)
            f2 == Sequenced(f1, first, t, 2)
<1>0. /\ \A x : \A i \in {0, 1, 2} :
           Sequenced(x, first, t, i) = IF i \in DOMAIN to THEN WithEdit(x, first + i, "seq", to[i]) ELSE x
      /\ Len(d) \in Nat
  <2>1. VSeqList[t].len \in 1 .. 3
    BY Rows
  <2>2. \A i \in {0, 1, 2} : i \in DOMAIN to <=> i < VSeqList[t].len
    BY <2>1
  <2>3. \A i \in DOMAIN to : to[i] = Sub(t, i + 1)
    OBVIOUS
  <2>4. Len(d) \in Nat
    BY KeptHas
  <2>5. \A x : \A i \in {0, 1, 2} :
           Sequenced(x, first, t, i) = IF i < VSeqList[t].len THEN WithEdit(x, first + i, "seq", Sub(t, i + 1)) ELSE x
    BY DEF Sequenced, WithEdit
  <2>. HIDE DEF to, d
  <2>. QED  BY <2>2, <2>3, <2>4, <2>5
<1>. HIDE DEF to
<1>1. ASSUME NEW x, Kept(b, x), x.changePos = e.changePos, NEW i \in {0, 1, 2}, NEW K,
             Written(x.buf, d, first, "seq", to, K)
      PROVE  LET g == Sequenced(x, first, t, i)
             IN  /\ Kept(b, g) /\ g.changePos = e.changePos /\ g.ev = x.ev /\ g.then = x.then /\ g.ctl = x.ctl
                 /\ Written(g.buf, d, first, "seq", to, K \cup {i})
  <2>. DEFINE g == IF i \in DOMAIN to THEN WithEdit(x, first + i, "seq", to[i]) ELSE x
  <2>1. i \in Int /\ "seq" # "sym"
    OBVIOUS
  <2>2. /\ Kept(b, g) /\ g.changePos = x.changePos /\ g.ev = x.ev /\ g.then = x.then /\ g.ctl = x.ctl
        /\ Written(g.buf, d, first, "seq", to, K \cup {i})
    <3>. HIDE DEF d
    <3>. QED  BY <1>0, <1>1, <2>1, WriteStep
  <2>3. Sequenced(x, first, t, i) = g
    BY <1>0
  <2>. HIDE DEF g, d
  <2>. QED  BY <1>1, <2>2, <2>3
<1>2. Written(e.buf, d, first, "seq", to, {})
  BY WrittenNone
<1>3. /\ Kept(b, f0) /\ f0.changePos = e.changePos /\ f0.ev = e.ev /\ f0.then = e.then /\ f0.ctl = e.ctl
      /\ Written(f0.buf, d, first, "seq", to, {} \cup {0})
  <2>. HIDE DEF d
  <2>. QED  BY <1>1, <1>2
<1>. HIDE DEF f0
<1>4. /\ Kept(b, f1) /\ f1.changePos = e.changePos /\ f1.ev = e.ev /\ f1.then = e.then /\ f1.ctl = e.ctl
      /\ Written(f1.buf, d, first, "seq", to, {} \cup {0} \cup {1})
  <2>. HIDE DEF d
  <2>. QED  BY <1>1, <1>3
<1>. HIDE DEF f1
<1>5. /\ Kept(b, f2) /\ f2.changePos = e.changePos /\ f2.ev = e.ev /\ f2.then = e.then /\ f2.ctl = e.ctl
      /\ Written(f2.buf, d, first, "seq", to, {} \cup {0} \cup {1} \cup {2})
  <2>. HIDE DEF d
  <2>. QED  BY <1>1, <1>4
<1>6. {} \cup {0} \cup {1} \cup {2} = {0, 1, 2}
  OBVIOUS
<1>. QED  BY <1>5, <1>6 DEF Retype, f0, f1, f2, d, to

\* Both, and the tone moved: the vowels of the last word are those of another row.
LEMMA RewriteHolds ==
  ASSUME NEW b, NEW e, Held(b, e), hasVowel(e), NEW to, NEW t, Changes(VSeq(e), to, t)
  PROVE  LET h == RewriteAt(e, VStart(e), to, t)
         IN  /\ Held(b, h) /\ Len(h.buf) = Len(e.buf) /\ h.changePos <= Len(h.buf)
             /\ h.ev = e.ev /\ h.then = e.then /\ h.ctl = e.ctl
<1>. DEFINE s == VSeq(e)
            first == VStart(e)
            last == VEnd(e)
            n == Len(e.buf)
            low == Min(DOMAIN to)
            x == markChange(e, first + low)
            y == AllLettered(x, first, to)
            z == Retype(y, first, t)
            h == RewriteAt(e, first, to, t)
            subs == [i \in 0 .. VSeqList[t].len - 1 |-> Sub(t, i + 1)]
<1>1. /\ n \in Nat /\ last \in 1 .. n /\ last \in Int /\ s \in VS /\ s = e.buf[last].seq /\ e.buf[last].v = 0
      /\ \A i \in last + 1 .. n : e.buf[i].v # 0
      /\ first = last - VSeqList[s].len + 1 /\ first \in Int /\ first >= 1 /\ VSeqList[s].len \in 1 .. 3
      /\ \A j \in 1 .. VSeqList[s].len : e.buf[first + j - 1].sym = VSeqList[s].v[j]
  BY VowelsFound
<1>2. /\ t \in VS /\ VSeqList[t].len = VSeqList[s].len
      /\ DOMAIN to # {} /\ DOMAIN to \subseteq 0 .. VSeqList[s].len - 1
      /\ \A j \in 1 .. VSeqList[s].len :
            VSeqList[t].v[j] = IF j - 1 \in DOMAIN to THEN to[j - 1] ELSE VSeqList[s].v[j]
  BY DEF Changes
<1>3. low \in DOMAIN to /\ low \in Int /\ low >= 0 /\ \A i \in DOMAIN to : i >= low
  <2>. PICK D, k : D = DOMAIN to /\ k = VSeqList[s].len
    OBVIOUS
  <2>1. k \in Nat /\ D # {} /\ D \subseteq 0 .. k - 1
    BY <1>1, <1>2
  <2>2. Min(D) \in D /\ Min(D) \in Int /\ Min(D) >= 0 /\ \A i \in D : i >= Min(D)
    BY <2>1, MinAmong
  <2>. QED  BY <2>2
<1>. HIDE DEF s, first, last, low
<1>4. Kept(b, x) /\ x.buf = e.buf /\ x.changePos <= first + low /\ x.changePos \in Int
      /\ x.ev = e.ev /\ x.then = e.then /\ x.ctl = e.ctl
  <2>. PICK p \in Int : p = first + low
    BY <1>1, <1>3
  <2>1. p >= 1 /\ Kept(b, e) /\ EngineOK(e) /\ x = markChange(e, p)
    BY <1>1, <1>3 DEF Held, Kept
  <2>. HIDE DEF x
  <2>2. Kept(b, x) /\ x.buf = e.buf /\ x.changePos = IF p < e.changePos THEN p ELSE e.changePos
    BY ONLY <2>1, KeptMark, p \in Int
  <2>3. x.ev = e.ev /\ x.then = e.then /\ x.ctl = e.ctl
    BY <2>1, MarkChangeGrows DEF Grown
  <2>4. e.changePos \in Int
    BY HeldHas
  <2>. QED  BY <2>2, <2>3, <2>4
<1>. HIDE DEF x
<1>5. /\ Kept(b, y) /\ y.changePos = x.changePos /\ y.ev = e.ev /\ y.then = e.then /\ y.ctl = e.ctl
      /\ Written(y.buf, e.buf, first, "sym", to, {0, 1, 2})
  <2>1. ASSUME NEW i \in DOMAIN to  PROVE i \in Int /\ first + i >= x.changePos
    <3>1. i \in Int /\ i >= low
      BY <1>1, <1>2, <1>3
    <3>. HIDE DEF n, subs
    <3>. QED  BY <1>1, <1>3, <1>4, <3>1
  <2>2. /\ Kept(b, y) /\ y.changePos = x.changePos /\ y.ev = x.ev /\ y.then = x.then /\ y.ctl = x.ctl
        /\ Written(y.buf, x.buf, first, "sym", to, {0, 1, 2})
    <3>1. first \in Int /\ Kept(b, x)
      BY <1>1, <1>4
    <3>. QED  BY ONLY <2>1, <3>1, LettersWritten
  <2>. HIDE DEF y
  <2>. QED  BY <1>4, <2>2
<1>. HIDE DEF y
<1>6. /\ Kept(b, z) /\ z.changePos = x.changePos /\ z.ev = e.ev /\ z.then = e.then /\ z.ctl = e.ctl
      /\ Written(z.buf, y.buf, first, "seq", subs, {0, 1, 2})
  <2>1. /\ Kept(b, z) /\ z.changePos = y.changePos /\ z.ev = y.ev /\ z.then = y.then /\ z.ctl = y.ctl
        /\ Written(z.buf, y.buf, first, "seq", subs, {0, 1, 2})
    <3>1. first \in Int /\ t \in VS /\ Kept(b, y)
      BY <1>1, <1>2, <1>5
    <3>. QED  BY ONLY <3>1, SequencesWritten
  <2>. HIDE DEF z, subs
  <2>. QED  BY <1>5, <2>1
<1>. HIDE DEF z
<1>7. Revowelled(e.buf, z.buf, first, t) /\ Len(z.buf) = n
  <2>. PICK c, d, a, k : c = e.buf /\ d = y.buf /\ a = z.buf /\ k = VSeqList[s].len
    OBVIOUS
  <2>1. /\ Len(d) = Len(c) /\ Len(a) = Len(d) /\ Len(c) \in Nat /\ k \in 1 .. 3 /\ k = VSeqList[t].len
    BY <1>1, <1>2, <1>5, <1>6, Zenon DEF Written
  <2>2. \A j \in 1 .. Len(c), g \in WordFields :
          d[j][g] = IF g = "sym" /\ j - first \in {0, 1, 2} /\ j - first \in DOMAIN to THEN to[j - first] ELSE c[j][g]
    BY <1>5 DEF Written
  <2>3. \A j \in 1 .. Len(c), g \in WordFields :
          a[j][g] = IF g = "seq" /\ j - first \in {0, 1, 2} /\ j - first \in DOMAIN subs THEN subs[j - first] ELSE d[j][g]
    BY <1>6, <2>1 DEF Written
  <2>4. DOMAIN subs = 0 .. k - 1 /\ \A i \in 0 .. k - 1 : subs[i] = Sub(t, i + 1)
    BY <2>1
  <2>. HIDE DEF subs, n
  <2>5. \A i \in 1 .. Len(c) :
          /\ a[i].form = c[i].form /\ a[i].c1 = c[i].c1 /\ a[i].v = c[i].v
          /\ a[i].sym = (IF i - first \in {0, 1, 2} /\ i - first \in DOMAIN to THEN to[i - first] ELSE c[i].sym)
          /\ a[i].seq = (IF i - first \in {0, 1, 2} /\ i - first \in DOMAIN subs THEN subs[i - first] ELSE c[i].seq)
    BY <2>2, <2>3 DEF WordFields
  <2>6. ASSUME NEW i \in 1 .. Len(c), NEW j, j = i - first + 1
        PROVE  /\ j \in 1 .. k => a[i].seq = Sub(t, j) /\ a[i].sym = VSeqList[t].v[j]
               /\ j \notin 1 .. k => a[i].seq = c[i].seq /\ a[i].sym = c[i].sym
    <3>. PICK m \in Int : m = i - first
      BY <1>1
    <3>1. j = m + 1 /\ j \in Int
      BY <2>6, <1>1
    <3>2. CASE j \in 1 .. k
      <4>1. m \in {0, 1, 2} /\ m \in 0 .. k - 1 /\ subs[m] = Sub(t, j)
        BY <2>1, <2>4, <3>1, <3>2
      <4>2. a[i].seq = Sub(t, j)
        BY <2>4, <2>5, <4>1
      <4>3. i = first + j - 1
        BY <1>1, <2>6
      <4>4. c[i].sym = VSeqList[s].v[j]
        BY <1>1, <3>2, <4>3, Zenon
      <4>5. VSeqList[t].v[j] = IF m \in DOMAIN to THEN to[m] ELSE VSeqList[s].v[j]
        <5>1. j - 1 = m
          BY <3>1
        <5>. QED  BY <1>2, <3>2, <5>1
      <4>. QED  BY <2>5, <3>2, <4>1, <4>2, <4>4, <4>5
    <3>3. CASE j \notin 1 .. k
      <4>1. m \notin 0 .. k - 1
        BY <2>1, <3>1, <3>3
      <4>2. m \notin DOMAIN to /\ m \notin DOMAIN subs
        BY <1>2, <2>4, <4>1
      <4>. QED  BY <2>5, <3>3, <4>2
    <3>. QED  BY <3>2, <3>3
  <2>7. Revowelled(c, a, first, t)
    BY <1>2, <2>1, <2>5, <2>6 DEF Revowelled
  <2>. QED  BY <2>1, <2>7 DEF n
<1>8. Shaped(z.buf)
  <2>. PICK c, a, k : c = e.buf /\ a = z.buf /\ k = VSeqList[s].len
    OBVIOUS
  <2>1. Items("word", c) /\ Shaped(c)
    BY HeldHas
  <2>2. /\ last \in 1 .. Len(c) /\ c[last].v = 0 /\ (\A i \in last + 1 .. Len(c) : c[i].v # 0)
        /\ VSeqList[t].len = VSeqList[c[last].seq].len
        /\ Revowelled(c, a, last - VSeqList[t].len + 1, t)
    BY <1>1, <1>2, <1>7
  <2>3. t \in VS
    BY <1>2
  <2>. HIDE DEF n
  <2>4. Shaped(a)
    BY ONLY <2>1, <2>2, <2>3, ShapedRevowelled
  <2>. QED  BY <2>4
<1>9. Held(b, z)
  BY <1>6, <1>8 DEF Held
<1>. DEFINE from == TonePos(e)
            dest == first + TonePosition(e, t, Terminated(e))
<1>10. h = MoveTone(z, from, dest)
  BY DEF RewriteAt, AllLettered, h, z, y, x, low
<1>11. from \in Int /\ from >= 1 /\ dest \in Int /\ dest >= 1
  BY <1>2, TonesFound DEF first
<1>. HIDE DEF h, from, dest
<1>12. Held(b, h) /\ Len(h.buf) = Len(z.buf) /\ h.changePos <= z.changePos
  BY ONLY <1>9, <1>6, <1>10, <1>11, KeptMoveTone
<1>13. h.ev = z.ev /\ h.then = z.then /\ h.ctl = z.ctl
  <2>1. EngineOK(z)
    BY <1>9, HeldHas
  <2>. QED  BY <1>10, <2>1, MoveToneGrows DEF Grown
<1>14. h.changePos <= Len(h.buf)
  <2>1. first + low <= n
    <3>. PICK k \in Int : k = VSeqList[s].len
      BY <1>1
    <3>1. low <= k - 1
      BY <1>2, <1>3
    <3>. HIDE DEF n, subs
    <3>2. first = last - k + 1 /\ last <= n /\ last \in Int /\ n \in Int
      BY <1>1
    <3>. QED  BY ONLY <1>3, <3>1, <3>2, k \in Int
  <2>2. h.changePos \in Int
    BY <1>12, HeldHas
  <2>. HIDE DEF n, subs
  <2>3. z.changePos <= first + low /\ Len(h.buf) = n
    BY <1>4, <1>6, <1>7, <1>12
  <2>4. z.changePos \in Int /\ first + low \in Int /\ n \in Int
    BY <1>1, <1>3, <1>4, <1>6
  <2>. QED  BY ONLY <1>12, <2>1, <2>2, <2>3, <2>4
<1>. QED  BY <1>6, <1>7, <1>12, <1>13, <1>14 DEF h, first

-----------------------------------------------------------------------------
(* What the mark keys ask for is what makes another row of the vowels. *)

\* What the tables say of a row (MarksAssumption).
LEMMA MarksOf ==
  ASSUME NEW s \in VS, NEW r, r = VSeqList[s], NEW v, v = r.v
  PROVE  LET roofed == Roofed(s, r)
             rpos == VSeqList[roofed].roofPos
             hooked == r.withHook
             hpos == VSeqList[hooked].hookPos
         IN  /\ doubleChangeUO(s) => roofed # Nil /\ Changes(s, Both("u", "or"), roofed)
             /\ (~doubleChangeUO(s) /\ roofed # Nil) =>
                   Changes(s, At(rpos, VSeqList[roofed].v[rpos + 1]), roofed)
             /\ (roofed = Nil /\ r.roofPos # -1) =>
                   Changes(s, At(r.roofPos, Root(v[r.roofPos + 1])), lookupVSeq(Rooted(v, r.roofPos)))
BY MarksAssumption

\* The same of the hook, for a row without uo.
LEMMA HooksOf ==
  ASSUME NEW s \in VS, NEW r, r = VSeqList[s], NEW v, v = r.v
  PROVE  LET hooked == r.withHook
             hpos == VSeqList[hooked].hookPos
             uo == r.len > 1 /\ v[1] \in {"u", "uh"} /\ v[2] \in {"o", "oh", "or"}
         IN  /\ (~uo /\ hooked # Nil) => Changes(s, At(hpos, VSeqList[hooked].v[hpos + 1]), hooked)
             /\ (~uo /\ hooked = Nil /\ r.hookPos # -1) =>
                   Changes(s, At(r.hookPos, Root(v[r.hookPos + 1])), lookupVSeq(Rooted(v, r.hookPos)))
             /\ uo =>
                  /\ hooked # Nil => VSeqList[hooked].v[hpos + 1] # "ab"
                  /\ (hooked = Nil /\ r.hookPos # -1) => v[r.hookPos + 1] # "ab"
                  /\ v[2] = "or" => v[1] = "u"
BY MarksAssumption

\* And for a row that begins with uo.
LEMMA DoubleHooksOf ==
  ASSUME NEW s \in VS, NEW r, r = VSeqList[s], NEW v, v = r.v,
         r.len > 1, v[1] \in {"u", "uh"}, v[2] \in {"o", "oh", "or"}
  PROVE  LET hooked == r.withHook
             plain == v[1] = "u" /\ v[2] # "oh"
         IN  /\ plain => Changes(s, Both("uh", "oh"), VSeqList[hooked].withHook)
             /\ (plain /\ r.len = 2) => Changes(s, At(1, "oh"), "uoh")
             /\ (v[1] = "u" /\ v[2] = "oh") => Changes(s, At(0, "uh"), hooked)
             /\ (v[1] = "uh" /\ v[2] = "o") => Changes(s, At(1, "oh"), hooked)
             /\ (v[1] = "uh" /\ v[2] = "oh") =>
                   Changes(s, Both("u", "o"), lookupVSeq(<<"u", "o">> \o SubSeq(v, 3, Len(v))))
BY MarksAssumption

\* A mark is taken back.
LEMMA UnmarkIs ==
  ASSUME NEW b, NEW e, Held(b, e), hasVowel(e), NEW pos \in 0 .. VSeqList[VSeq(e)].len - 1
  PROVE  LET v == VSeqList[VSeq(e)].v
         IN  Unmark(e, pos) = Change(At(pos, Root(v[pos + 1])), lookupVSeq(Rooted(v, pos)), TRUE)
<1>. DEFINE s == VSeq(e)
            v == VSeqList[s].v
            first == VStart(e)
            k == VSeqList[s].len
            sym(i) == e.buf[first + i].sym
<1>1. /\ s \in VS /\ first \in Int /\ k \in 1 .. 3 /\ \A j \in 1 .. k : e.buf[first + j - 1].sym = v[j]
  BY VowelsFound
<1>2. k = Len(v) /\ k \in Int
  BY <1>1, Rows
<1>. HIDE DEF first, k
<1>3. ASSUME NEW j \in 1 .. k  PROVE sym(j - 1) = v[j]
  <2>1. first + j - 1 = first + (j - 1)
    BY <1>1, <1>2
  <2>. QED  BY <1>1, <2>1
<1>4. sym(pos) = v[pos + 1]
  <2>. PICK j \in Int : j = pos + 1
    BY <1>2
  <2>1. j \in 1 .. k /\ j - 1 = pos
    BY <1>2 DEF k
  <2>. QED  BY <1>3, <2>1
<1>5. [i \in 1 .. k |-> IF i = pos + 1 THEN Root(sym(pos)) ELSE sym(i - 1)] = Rooted(v, pos)
  <2>. HIDE DEF sym
  <2>. QED  BY <1>2, <1>3, <1>4 DEF Rooted
<1>6. Unmark(e, pos) = Change(At(pos, Root(sym(pos))),
         lookupVSeq([i \in 1 .. k |-> IF i = pos + 1 THEN Root(sym(pos)) ELSE sym(i - 1)]), TRUE)
  BY DEF Unmark, first, k
<1>. HIDE DEF sym
<1>. QED  BY <1>4, <1>5, <1>6

\* The roof key.
LEMMA RoofAsks ==
  ASSUME NEW b, NEW e, Held(b, e), hasVowel(e), NEW s, s = VSeq(e), NEW r, r = VSeqList[s],
         NEW c, c = RoofChange(e, r, Roofed(s, r)), c.to # <<>>
  PROVE  Changes(s, c.to, c.vs)
<1>. DEFINE newVs == Roofed(s, r)
            pos == VSeqList[newVs].roofPos
            v == r.v
            to == IF doubleChangeUO(s) THEN Both("u", "or") ELSE At(pos, VSeqList[newVs].v[pos + 1])
            back == Unmark(e, r.roofPos)
            target(letter) == CASE e.ev.type = "Roof_a" -> letter = "ar" [] e.ev.type = "Roof_e" -> letter = "er"
                                [] e.ev.type = "Roof_o" -> letter = "or" [] OTHER -> TRUE
            G == target(VSeqList[newVs].v[pos + 1]) /\ Fits(e, newVs) /\ MayMark(e, VStart(e) + Min(DOMAIN to))
            H == target(e.buf[VStart(e) + r.roofPos].sym) /\ MayMark(e, VStart(e) + r.roofPos)
<1>1. s \in VS
  BY VowelsFound
<1>2. c = CASE newVs # Nil /\ G -> Change(to, newVs, FALSE)
            [] newVs = Nil /\ r.roofPos # -1 /\ H -> back
            [] OTHER -> NoChange
  BY DEF RoofChange
<1>3. /\ newVs # Nil => Changes(s, to, newVs)
      /\ (newVs = Nil /\ r.roofPos # -1) => Changes(s, At(r.roofPos, Root(v[r.roofPos + 1])), lookupVSeq(Rooted(v, r.roofPos)))
      /\ doubleChangeUO(s) => newVs # Nil
  BY <1>1, MarksOf
<1>. HIDE DEF newVs, pos, to, back, G, H
<1>4. NoChange.to = <<>>
  BY DEF NoChange, Change
<1>5. CASE newVs # Nil /\ G
  <2>1. c = Change(to, newVs, FALSE)
    BY <1>2, <1>5
  <2>2. c.to = to /\ c.vs = newVs
    BY <2>1 DEF Change
  <2>. QED  BY <1>3, <1>5, <2>2
<1>6. CASE newVs = Nil /\ r.roofPos # -1 /\ H
  <2>1. c = back
    BY <1>2, <1>6
  <2>2. r.roofPos \in 0 .. VSeqList[s].len - 1
    <3>. PICK q, k : q = r.roofPos /\ k = VSeqList[s].len
      OBVIOUS
    <3>1. k \in 1 .. 3 /\ q \in -1 .. k - 1 /\ q # -1
      BY <1>1, <1>6, Rows
    <3>2. q \in 0 .. k - 1
      BY <3>1
    <3>. QED  BY <3>2
  <2>3. back = Change(At(r.roofPos, Root(v[r.roofPos + 1])), lookupVSeq(Rooted(v, r.roofPos)), TRUE)
    <3>. PICK q : q = r.roofPos
      OBVIOUS
    <3>1. q \in 0 .. VSeqList[s].len - 1 /\ v = VSeqList[s].v
      BY <2>2
    <3>2. Unmark(e, q) = Change(At(q, Root(v[q + 1])), lookupVSeq(Rooted(v, q)), TRUE)
      <4>1. q \in 0 .. VSeqList[VSeq(e)].len - 1 /\ v = VSeqList[VSeq(e)].v
        BY <3>1
      <4>. HIDE DEF v
      <4>. QED  BY <4>1, UnmarkIs
    <3>. QED  BY <3>2 DEF back
  <2>4. c.to = At(r.roofPos, Root(v[r.roofPos + 1])) /\ c.vs = lookupVSeq(Rooted(v, r.roofPos))
    BY <2>1, <2>3 DEF Change
  <2>. QED  BY <1>3, <1>6, <2>4
<1>7. CASE ~(newVs # Nil /\ G) /\ ~(newVs = Nil /\ r.roofPos # -1 /\ H)
  <2>1. c = NoChange
    BY <1>2, <1>7 DEF newVs
  <2>. QED  BY <1>4, <2>1
<1>. QED  BY <1>5, <1>6, <1>7

\* The hook on uo, when the key is not bound to the hook of one letter.
LEMMA DoubleHookAsks ==
  ASSUME NEW e, NEW s \in VS, NEW r, r = VSeqList[s], NEW v, v = r.v, e.ev.type \notin {"Hook_u", "Hook_o"},
         r.len > 1, v[1] \in {"u", "uh"}, v[2] \in {"o", "oh", "or"},
         NEW c, c = processHookWithUO(e, r), c.to # <<>>
  PROVE  Changes(s, c.to, c.vs)
<1>. DEFINE th == Len(v) = 2 /\ Terminated(e) /\ Top(e).form = "cv" /\ e.buf[Len(e.buf) - 2].seq = "th"
            both == Both("uh", "oh")
            none == Both("u", "o")
            uo == lookupVSeq(<<"u", "o">> \o SubSeq(v, 3, Len(v)))
            mine == CASE v[1] = "u" /\ v[2] \in {"o", "or"} /\ th  -> Change(At(1, "oh"), "uoh", FALSE)
               [] v[1] = "u" /\ v[2] \in {"o", "or"} /\ ~th -> Change(both, VSeqList[r.withHook].withHook, FALSE)
               [] v[1] = "u" /\ v[2] = "oh" -> Change(At(0, "uh"), r.withHook, FALSE)
               [] v[1] = "uh" /\ v[2] = "o" -> Change(At(1, "oh"), r.withHook, FALSE)
               [] v[1] = "uh" /\ v[2] = "oh" -> Change(none, uo, TRUE)
            A == ~e.ctl.options.freeMarking /\ ~Terminated(e)
<1>1. c = IF A THEN NoChange ELSE mine
  <2>. DEFINE type == IF e.ev.type \in {"Hook_u", "Hook_o"} THEN e.ev.type ELSE "Hook_uo"
              mark(to, newVs) == Change(to, newVs, FALSE)
              unmark(to) == Change(to, uo, TRUE)
              x == IF v[1] = "u" THEN mark(At(0, "uh"), r.withHook) ELSE unmark(none)
              y == IF v[2] = "oh" THEN unmark(IF v[1] = "uh" THEN none ELSE At(1, "o"))
                   ELSE IF th THEN mark(At(1, "oh"), r.withHook)
                   ELSE mark(IF v[1] = "u" THEN both ELSE At(1, "oh"),
                             lookupVSeq(<<"uh", "oh">> \o SubSeq(v, 3, Len(v))))
  <2>1. c = IF A THEN NoChange ELSE CASE type = "Hook_u" -> x [] type = "Hook_o" -> y [] type = "Hook_uo" -> mine
    BY DEF processHookWithUO
  <2>2. type = "Hook_uo"
    OBVIOUS
  <2>. HIDE DEF type, x, y, mine, A
  <2>. QED  BY <2>1, <2>2
<1>2. NoChange.to = <<>>
  BY DEF NoChange, Change
<1>3. ~A
  BY <1>1, <1>2
<1>5. r.len = Len(v) /\ (v[2] = "or" => v[1] = "u")
  BY Rows, HooksOf
<1>6. /\ (v[1] = "u" /\ v[2] # "oh") => Changes(s, both, VSeqList[r.withHook].withHook)
      /\ (v[1] = "u" /\ v[2] # "oh" /\ r.len = 2) => Changes(s, At(1, "oh"), "uoh")
      /\ (v[1] = "u" /\ v[2] = "oh") => Changes(s, At(0, "uh"), r.withHook)
      /\ (v[1] = "uh" /\ v[2] = "o") => Changes(s, At(1, "oh"), r.withHook)
      /\ (v[1] = "uh" /\ v[2] = "oh") => Changes(s, none, uo)
  BY DoubleHooksOf
<1>7. th => r.len = 2
  BY <1>5
<1>. HIDE DEF th, both, none, uo, A
<1>8. c = mine
  BY <1>1, <1>3
<1>9. CASE v[1] = "u" /\ v[2] \in {"o", "or"} /\ th
  <2>1. c = Change(At(1, "oh"), "uoh", FALSE)
    BY <1>8, <1>9
  <2>. HIDE DEF mine
  <2>2. c.to = At(1, "oh") /\ c.vs = "uoh"
    BY <2>1 DEF Change
  <2>. QED  BY <1>6, <1>7, <1>9, <2>2
<1>10. CASE v[1] = "u" /\ v[2] \in {"o", "or"} /\ ~th
  <2>1. c = Change(both, VSeqList[r.withHook].withHook, FALSE)
    BY <1>8, <1>10
  <2>. HIDE DEF mine
  <2>2. c.to = both /\ c.vs = VSeqList[r.withHook].withHook
    BY <2>1 DEF Change
  <2>. QED  BY <1>6, <1>10, <2>2
<1>11. CASE v[1] = "u" /\ v[2] = "oh"
  <2>1. c = Change(At(0, "uh"), r.withHook, FALSE)
    BY <1>8, <1>11
  <2>. HIDE DEF mine
  <2>2. c.to = At(0, "uh") /\ c.vs = r.withHook
    BY <2>1 DEF Change
  <2>. QED  BY <1>6, <1>11, <2>2
<1>12. CASE v[1] = "uh" /\ v[2] = "o"
  <2>1. c = Change(At(1, "oh"), r.withHook, FALSE)
    BY <1>8, <1>12
  <2>. HIDE DEF mine
  <2>2. c.to = At(1, "oh") /\ c.vs = r.withHook
    BY <2>1 DEF Change
  <2>. QED  BY <1>6, <1>12, <2>2
<1>13. CASE v[1] = "uh" /\ v[2] = "oh"
  <2>1. c = Change(none, uo, TRUE)
    BY <1>8, <1>13
  <2>. HIDE DEF mine
  <2>2. c.to = none /\ c.vs = uo
    BY <2>1 DEF Change
  <2>. QED  BY <1>6, <1>13, <2>2
<1>. QED  BY <1>5, <1>9, <1>10, <1>11, <1>12, <1>13

\* The hook and bowl keys.
LEMMA HookAsks ==
  ASSUME NEW b, NEW e, Held(b, e), hasVowel(e), NEW s, s = VSeq(e), NEW r, r = VSeqList[s],
         e.ev.type \notin {"Hook_u", "Hook_o"}, NEW c, c = HookChange(e, r), c.to # <<>>
  PROVE  Changes(s, c.to, c.vs)
<1>. DEFINE newVs == r.withHook
            pos == VSeqList[newVs].hookPos
            hooked == VSeqList[newVs].v[pos + 1]
            v == r.v
            row == r.len > 1 /\ v[1] \in {"u", "uh"} /\ v[2] \in {"o", "oh", "or"}
            uo == row /\ e.ev.type # "Bowl"
            back == Unmark(e, r.hookPos)
            double == processHookWithUO(e, r)
            takes(letter) == CASE e.ev.type = "Hook_u" -> letter = "uh" [] e.ev.type = "Hook_o" -> letter = "oh"
                         [] e.ev.type = "Bowl" -> letter = "ab"   [] e.ev.type = "Hook_uo" -> letter # "ab"
                         [] OTHER -> TRUE
            G == takes(hooked) /\ Fits(e, newVs) /\ MayMark(e, VStart(e) + pos)
            H == takes(e.buf[VStart(e) + r.hookPos].sym) /\ MayMark(e, VStart(e) + r.hookPos)
<1>1. /\ s \in VS /\ VStart(e) \in Int
      /\ \A j \in 1 .. VSeqList[s].len : e.buf[VStart(e) + j - 1].sym = VSeqList[s].v[j]
  BY VowelsFound
<1>2. HookChange(e, r) = CASE uo -> double
                           [] ~uo /\ newVs # Nil /\ G -> Change(At(pos, hooked), newVs, FALSE)
                           [] ~uo /\ newVs = Nil /\ r.hookPos # -1 /\ H -> back
                           [] OTHER -> NoChange
  BY Zenon DEF HookChange
<1>3. /\ (~row /\ newVs # Nil) => Changes(s, At(pos, hooked), newVs)
      /\ (~row /\ newVs = Nil /\ r.hookPos # -1) =>
           Changes(s, At(r.hookPos, Root(v[r.hookPos + 1])), lookupVSeq(Rooted(v, r.hookPos)))
      /\ (row /\ newVs # Nil) => hooked # "ab"
      /\ (row /\ newVs = Nil /\ r.hookPos # -1) => v[r.hookPos + 1] # "ab"
  BY <1>1, HooksOf
<1>4. r.hookPos # -1 => r.hookPos \in 0 .. VSeqList[s].len - 1
  <2>. PICK q, k : q = r.hookPos /\ k = VSeqList[s].len
    OBVIOUS
  <2>1. k \in 1 .. 3 /\ q \in -1 .. k - 1
    BY <1>1, Rows
  <2>2. q # -1 => q \in 0 .. k - 1
    BY <2>1
  <2>. QED  BY <2>2
<1>5. r.hookPos # -1 => e.buf[VStart(e) + r.hookPos].sym = v[r.hookPos + 1]
  <2>. SUFFICES ASSUME r.hookPos # -1  PROVE e.buf[VStart(e) + r.hookPos].sym = v[r.hookPos + 1]
    OBVIOUS
  <2>. PICK q, k, f : q = r.hookPos /\ k = VSeqList[s].len /\ f = VStart(e)
    OBVIOUS
  <2>1. k \in 1 .. 3 /\ q \in 0 .. k - 1 /\ f \in Int
    BY <1>1, <1>4, Rows
  <2>. PICK j \in Int : j = q + 1
    BY <2>1
  <2>2. j \in 1 .. k /\ f + j - 1 = f + q
    BY <2>1
  <2>3. e.buf[f + j - 1].sym = v[j]
    BY <1>1, <2>2
  <2>. QED  BY <2>2, <2>3
<1>6. e.ev.type = "Bowl" => \A x : takes(x) <=> x = "ab"
  OBVIOUS
<1>7. /\ (row /\ ~uo /\ newVs # Nil) => ~G
      /\ (row /\ ~uo /\ newVs = Nil /\ r.hookPos # -1) => ~H
  <2>1. (row /\ ~uo) => e.ev.type = "Bowl"
    OBVIOUS
  <2>. HIDE DEF row, uo, takes, pos, hooked, newVs, v
  <2>. QED  BY <1>3, <1>5, <1>6, <2>1
<1>8. uo => row
  OBVIOUS
<1>9. (uo /\ c = double) => Changes(s, c.to, c.vs)
  <2>. SUFFICES ASSUME uo, c = double  PROVE Changes(s, c.to, c.vs)
    OBVIOUS
  <2>1. /\ s \in VS /\ r = VSeqList[s] /\ v = r.v /\ e.ev.type \notin {"Hook_u", "Hook_o"}
        /\ r.len > 1 /\ v[1] \in {"u", "uh"} /\ v[2] \in {"o", "oh", "or"} /\ c = processHookWithUO(e, r) /\ c.to # <<>>
    BY <1>1
  <2>. HIDE DEF v
  <2>. QED  BY ONLY <2>1, DoubleHookAsks
<1>. HIDE DEF newVs, pos, hooked, row, uo, back, double, takes, G, H
<1>10. NoChange.to = <<>>
  BY DEF NoChange, Change
<1>11. CASE uo
  <2>1. c = double
    BY <1>2, <1>11
  <2>. QED  BY <1>9, <1>11, <2>1
<1>12. CASE ~uo /\ newVs # Nil /\ G
  <2>1. c = Change(At(pos, hooked), newVs, FALSE)
    BY <1>2, <1>12
  <2>2. c.to = At(pos, hooked) /\ c.vs = newVs
    BY <2>1 DEF Change
  <2>. QED  BY <1>3, <1>7, <1>12, <2>2
<1>13. CASE ~uo /\ newVs = Nil /\ r.hookPos # -1 /\ H
  <2>1. c = back
    BY <1>2, <1>13
  <2>2. back = Change(At(r.hookPos, Root(v[r.hookPos + 1])), lookupVSeq(Rooted(v, r.hookPos)), TRUE)
    <3>. PICK q : q = r.hookPos
      OBVIOUS
    <3>1. q \in 0 .. VSeqList[s].len - 1 /\ v = VSeqList[s].v
      BY <1>4, <1>13
    <3>2. Unmark(e, q) = Change(At(q, Root(v[q + 1])), lookupVSeq(Rooted(v, q)), TRUE)
      <4>1. q \in 0 .. VSeqList[VSeq(e)].len - 1 /\ v = VSeqList[VSeq(e)].v
        BY <3>1
      <4>. HIDE DEF v
      <4>. QED  BY <4>1, UnmarkIs
    <3>. QED  BY <3>2 DEF back
  <2>3. c.to = At(r.hookPos, Root(v[r.hookPos + 1])) /\ c.vs = lookupVSeq(Rooted(v, r.hookPos))
    BY <2>1, <2>2 DEF Change
  <2>. QED  BY <1>3, <1>7, <1>13, <2>3
<1>14. CASE ~uo /\ ~(newVs # Nil /\ G) /\ ~(newVs = Nil /\ r.hookPos # -1 /\ H)
  <2>1. c = NoChange
    BY <1>2, <1>14
  <2>. QED  BY <1>10, <2>1
<1>. QED  BY <1>11, <1>12, <1>13, <1>14

-----------------------------------------------------------------------------
(* What a handler owes. *)

\* The event is still that of the key k, which has no tone.
KeyIs(e, k) == e.ev.sym = KeySymbols[k] /\ e.ev.sym.tone = 0 /\ e.ev.key = k /\ e.ev.ch = getCharType(k)
\* The handler finds the buffer b, all of it.
Whole(b, e) == Held(b, e) /\ Len(e.buf) = Len(b) /\ e.changePos = Len(b) + 1
Start(b, k, e) == Whole(b, e) /\ KeyIs(e, k) /\ e.then = "return"
\* A letter: as text it may yet become a syllable (Spelt).
IsLetter(e) == e.ev.type = "Normal" /\ e.ev.ch = "Vn"

\* The buffer is b and the key, and nothing else of the text changed.
Longer(b, k, f) ==
  /\ Len(f.buf) = Len(b) + 1 /\ f.changePos = Len(b) + 1 /\ Face(f.buf[Len(b) + 1]) = Shown(KeySymbols[k])

\* The key has been handled: a macro was expanded, or the text is tracked, and the client
\* lets the key through only when that shows what the buffer has.
Settled(b, k, f) ==
  /\ Held(b, f) /\ f.buf # <<>> /\ f.ev.sym.tone = 0
  /\ f.ret # 0 => f.changePos <= Len(f.buf)
  /\ f.ret = 0 => Longer(b, k, f) /\ KeyIs(f, k)
  /\ (IsLetter(f) /\ Top(f).form = "nonVn") => Longer(b, k, f)
Answer(b, k, f) == f.then = "return" /\ ((f.buf = <<>> /\ f.ret # 0 /\ f.esc = FALSE) \/ Settled(b, k, f))

\* Or it is still to be typed.
Taken(b, k, h) ==
  \/ Answer(b, k, h)
  \/ h.then = "append" /\ Whole(b, h) /\ KeyIs(h, k)
  \/ h.then = "undo" /\ Held(b, h) /\ KeyIs(h, k) /\ ~IsLetter(h)

\* Keys that are sent as they are have no tone.
PlainKey(k) == KeySymbols[k].tone = 0 /\ getCharType(k) # "Reset"

\* An entry more that shows the key.
LEMMA PlainLonger ==
  ASSUME NEW b, NEW k, NEW e, Whole(b, e), KeyIs(e, k), NEW f, Plain(e, f)
  PROVE  Longer(b, k, f)
<1>1. /\ Len(e.buf) = Len(b) /\ e.changePos = Len(b) + 1 /\ e.ev.sym = KeySymbols[k]
      /\ Items("word", e.buf)
  BY HeldHas DEF Whole, KeyIs
<1>2. PICK w : IsWord(w) /\ f.buf = Append(e.buf, w) /\ Face(w) = Shown(e.ev.sym)
  BY DEF Plain
<1>3. f.changePos = e.changePos
  BY DEF Plain
<1>. PICK c : c = e.buf
  OBVIOUS
<1>4. Len(Append(c, w)) = Len(c) + 1 /\ Append(c, w)[Len(c) + 1] = w
  <2>1. IsItem("word", w) /\ Items("word", c)
    BY <1>1, <1>2 DEF IsItem
  <2>. QED  BY <2>1, ItemsAppend
<1>. QED  BY <1>1, <1>2, <1>3, <1>4 DEF Longer

\* Typing leaves what it has to: processAppend with a result of its own or with 1.
LEMMA GrewSettles ==
  ASSUME NEW b, NEW k, NEW e, Held(b, e), KeyIs(e, k), NEW f, Grew(b, e, f), Grown(e, f, 1),
         NEW g, g = [f EXCEPT !.then = "return"] \/ g = [f EXCEPT !.then = "return", !.ret = 1],
         \/ Whole(b, e)
         \/ ~IsLetter(e) /\ g.ret = 1
  PROVE  Answer(b, k, g)
<1>1. /\ Held(b, f) /\ f.changePos <= e.changePos /\ ((f.ret = 0 \/ Top(f).form \in {"nonVn", "empty"}) => Plain(e, f))
  BY DEF Grew
<1>2. f.ev = e.ev /\ Len(f.buf) = Len(e.buf) + 1 /\ DOMAIN f = EngineFields
  BY HeldHas, <1>1 DEF Grown
<1>3. /\ Len(e.buf) \in Nat /\ e.changePos \in Int /\ f.changePos \in Int /\ e.changePos <= Len(e.buf) + 1
      /\ (f.buf = <<>> <=> Len(f.buf) = 0)
  BY <1>1, HeldHas
<1>4. /\ g.buf = f.buf /\ g.keys = f.keys /\ g.changePos = f.changePos /\ g.backs = f.backs
      /\ g.written = f.written /\ g.esc = f.esc /\ g.ctl = f.ctl /\ g.ev = f.ev /\ g.then = "return"
      /\ (g.ret = f.ret \/ g.ret = 1) /\ DOMAIN g = EngineFields
  BY <1>2 DEF EngineFields
<1>5. Held(b, g)
  <2>1. Kept(b, f)
    BY <1>1 DEF Held
  <2>. QED  BY <1>1, <1>4, <2>1, KeptEven
<1>6. g.buf # <<>> /\ g.changePos <= Len(g.buf)
  BY <1>1, <1>2, <1>3, <1>4
<1>7. Top(g) = Top(f) /\ (IsLetter(g) <=> IsLetter(e)) /\ KeyIs(g, k) /\ g.ev.sym.tone = 0
  BY <1>2, <1>4 DEF Top, IsLetter, KeyIs
<1>8. CASE Whole(b, e)
  <2>1. Plain(e, f) => Longer(b, k, f)
    BY <1>8, PlainLonger
  <2>2. Longer(b, k, f) => Longer(b, k, g)
    BY <1>4 DEF Longer
  <2>3. g.ret = 0 => f.ret = 0
    BY <1>4
  <2>. QED  BY <1>1, <1>4, <1>5, <1>6, <1>7, <2>1, <2>2, <2>3 DEF Answer, Settled
<1>9. CASE ~IsLetter(e) /\ g.ret = 1
  BY <1>4, <1>5, <1>6, <1>7, <1>9 DEF Answer, Settled
<1>. QED  BY <1>8, <1>9

\* A field of an engine that nothing here depends on.
LEMMA HeldOther ==
  ASSUME NEW b, NEW e, Held(b, e), NEW x
  PROVE  LET f == [e EXCEPT !.single = x]
         IN  /\ Held(b, f) /\ f.buf = e.buf /\ f.changePos = e.changePos /\ f.ev = e.ev /\ f.then = e.then
             /\ f.ctl = e.ctl /\ f.keys = e.keys /\ DOMAIN f = EngineFields
<1>1. DOMAIN e = EngineFields /\ Kept(b, e)
  BY HeldHas
<1>. DEFINE f == [e EXCEPT !.single = x]
<1>2. /\ DOMAIN f = EngineFields /\ f.buf = e.buf /\ f.keys = e.keys /\ f.changePos = e.changePos
      /\ f.backs = e.backs /\ f.written = e.written /\ f.esc = e.esc /\ f.ctl = e.ctl /\ f.ev = e.ev /\ f.then = e.then
  BY <1>1 DEF EngineFields
<1>. HIDE DEF f
<1>3. Held(b, f)
  BY <1>1, <1>2, KeptEven
<1>. QED  BY <1>2, <1>3 DEF f

\* A handler that has left the key to processAppend.
LEMMA FinishAnswers ==
  ASSUME NEW b, NEW k, PlainKey(k), NEW h, Taken(b, k, h), ~h.ctl.options.autoNonVnRestore
  PROVE  Answer(b, k, Finish(h))
<1>1. CASE Answer(b, k, h)
  BY <1>1 DEF Answer, Finish
<1>2. CASE /\ h.then \in {"append", "undo"} /\ Held(b, h) /\ KeyIs(h, k)
           /\ (h.then = "append" /\ Whole(b, h)) \/ (h.then = "undo" /\ ~IsLetter(h))
  <2>. DEFINE p == processAppend(h)
              g == Appending(p, h.then)
  <2>1. Finish(h) = g
    BY <1>2 DEF Finish
  <2>2. \/ h.then = "append" /\ g = [p EXCEPT !.then = "return"]
        \/ h.then = "undo" /\ g = [p EXCEPT !.then = "return", !.ret = 1]
    BY <1>2 DEF Appending
  <2>3. h.ev.ch \in {"NonVn", "Vn", "WordBreak"} /\ h.ev.sym.tone = 0
    BY <1>2, CharTypes DEF PlainKey, KeyIs
  <2>4. CASE h.ev.ch # "WordBreak"
    <3>. DEFINE f == appendSymbol(h)
    <3>1. p = f
      BY <2>4 DEF processAppend
    <3>2. Grew(b, h, f) /\ Grown(h, f, 1)
      <4>1. h.ev.ch \in {"NonVn", "Vn"} /\ EngineOK(h)
        BY <1>2, <2>3, <2>4, HeldHas
      <4>. QED  BY <1>2, <2>3, <4>1, GrewAppendSymbol, AppendSymbolGrows
    <3>. HIDE DEF f, p, g
    <3>3. DOMAIN f = EngineFields
      BY <3>2 DEF Grown, EngineOK
    <3>4. g = [f EXCEPT !.then = "return"] \/ (g = [f EXCEPT !.then = "return", !.ret = 1] /\ g.ret = 1)
      BY <2>2, <3>1, <3>3 DEF EngineFields
    <3>5. h.then = "undo" => g.ret = 1
      BY <2>2, <3>1, <3>3 DEF EngineFields
    <3>6. Answer(b, k, g)
      BY <1>2, <3>2, <3>4, <3>5, GrewSettles, Zenon
    <3>. QED  BY <2>1, <3>6
  <2>5. CASE h.ev.ch = "WordBreak"
    <3>. DEFINE e == [h EXCEPT !.single = FALSE]
    <3>1. /\ Held(b, e) /\ e.buf = h.buf /\ e.changePos = h.changePos /\ e.ev = h.ev /\ e.then = h.then
          /\ e.ctl = h.ctl /\ e.keys = h.keys /\ DOMAIN e = EngineFields
      BY <1>2, HeldOther
    <3>2. p = processWordEnd(e)
      BY <2>5 DEF processAppend
    <3>. HIDE DEF e, p
    <3>3. p = CASE hasMacro(e) -> expandMacro(e)
                [] ~hasMacro(e) /\ \/ ~e.ctl.options.spellCheck \/ e.single \/ e.buf = <<>>
                                   \/ ~e.ctl.options.autoNonVnRestore \/ ~lastWordIsNonVn(e)
                     -> Ret(Push(e, Break(e.ev.sym)), 0)
                [] OTHER -> WordEndRestored(e, restoreKeyStrokes(e))
      BY <3>2 DEF processWordEnd
    <3>4. CASE hasMacro(e)
      <4>. DEFINE m == markChange(e, Max(MacroStarts(e)))
                  q == reset(m)
                  txt == Append(e.ctl.macros[MacroKey(e, Max(MacroStarts(e)))], <<e.ev.sym, 1>>)
      <4>1. p = Ret([q EXCEPT !.written = TRUE, !.out = txt], 1)
        BY <3>3, <3>4 DEF expandMacro
      <4>2. EngineOK(q) /\ q.buf = <<>> /\ q.esc = FALSE
        <5>1. EngineOK(e)
          BY <3>1, HeldHas
        <5>. HIDE DEF m
        <5>2. EngineOK(m)
          BY <5>1, MarkChangeGrows DEF Grown, m
        <5>3. q.esc = FALSE
          BY <5>2 DEF reset, EngineOK, EngineFields
        <5>. HIDE DEF q
        <5>. QED  BY <5>2, <5>3, ResetClears DEF q
      <4>. HIDE DEF q, txt
      <4>3. p.buf = <<>> /\ p.ret = 1 /\ p.esc = FALSE /\ DOMAIN p = EngineFields
        BY <4>1, <4>2 DEF Ret, EngineOK, EngineFields
      <4>4. g.buf = <<>> /\ g.ret = 1 /\ g.esc = FALSE /\ g.then = "return"
        <5>. HIDE DEF g
        <5>. QED  BY <2>2, <4>3 DEF EngineFields
      <4>. HIDE DEF g
      <4>. QED  BY <2>1, <4>4 DEF Answer
    <3>5. CASE ~hasMacro(e)
      <4>. DEFINE f == Ret(Push(e, Break(e.ev.sym)), 0)
      <4>1. p = f
        BY <1>2, <3>1, <3>3, <3>5
      <4>2. Grew(b, e, f)
        BY <3>1, GrewNonVn
      <4>3. Grown(e, f, 1)
        BY <3>1, HeldHas, NonVnMade, PushedGrows
      <4>. HIDE DEF f, g
      <4>4. DOMAIN f = EngineFields
        BY <4>3 DEF Grown, EngineOK
      <4>5. g = [f EXCEPT !.then = "return"] \/ (g = [f EXCEPT !.then = "return", !.ret = 1] /\ g.ret = 1)
        BY <2>2, <4>1, <4>4 DEF EngineFields
      <4>6. h.then = "undo" => g.ret = 1
        BY <2>2, <4>1, <4>4 DEF EngineFields
      <4>7. KeyIs(e, k) /\ (Whole(b, h) => Whole(b, e)) /\ (IsLetter(e) => IsLetter(h))
        BY <1>2, <3>1 DEF KeyIs, Whole, IsLetter
      <4>8. Answer(b, k, g)
        BY <1>2, <3>1, <4>2, <4>3, <4>5, <4>6, <4>7, GrewSettles, Zenon
      <4>. QED  BY <2>1, <4>8
    <3>. QED  BY <3>4, <3>5
  <2>. QED  BY <2>4, <2>5
<1>3. Whole(b, h) => Held(b, h)
  BY DEF Whole
<1>. QED  BY <1>1, <1>2, <1>3 DEF Taken

-----------------------------------------------------------------------------
(* The marks. *)

\* What a handler finds.
LEMMA StartHas ==
  ASSUME NEW b, NEW k, NEW e, Start(b, k, e)
  PROVE  /\ Held(b, e) /\ Kept(b, e) /\ EngineOK(e) /\ Items("word", e.buf) /\ Shaped(e.buf) /\ DOMAIN e = EngineFields
         /\ Len(e.buf) \in Nat /\ Len(e.buf) = Len(b) /\ e.changePos = Len(b) + 1 /\ (e.buf = <<>> <=> Len(e.buf) = 0)
         /\ KeyIs(e, k) /\ e.then = "return" /\ Whole(b, e)
BY HeldHas DEF Start, Whole

\* The key may be left as text.
LEMMA TextTaken ==
  ASSUME NEW b, NEW k, NEW e, Start(b, k, e)
  PROVE  Taken(b, k, AsText(e))
<1>. DEFINE f == AsText(e)
<1>1. Held(b, e) /\ Kept(b, e) /\ DOMAIN e = EngineFields
  BY StartHas
<1>2. /\ DOMAIN f = EngineFields /\ f.buf = e.buf /\ f.keys = e.keys /\ f.changePos = e.changePos
      /\ f.backs = e.backs /\ f.written = e.written /\ f.esc = e.esc /\ f.ctl = e.ctl /\ f.ev = e.ev /\ f.then = "append"
  BY <1>1 DEF EngineFields, AsText
<1>. HIDE DEF f
<1>3. Held(b, f)
  BY <1>1, <1>2, KeptEven
<1>4. Whole(b, f) /\ KeyIs(f, k)
  BY <1>2, <1>3 DEF Start, Whole, KeyIs
<1>. QED  BY <1>2, <1>4 DEF f, Taken

\* Or be typed after a mark has been taken back.
LEMMA UndoTaken ==
  ASSUME NEW b, NEW k, NEW e, Held(b, e), KeyIs(e, k), ~IsLetter(e)
  PROVE  Taken(b, k, Undo(e))
<1>. DEFINE f == Undo(e)
<1>1. Held(b, e) /\ Kept(b, e) /\ DOMAIN e = EngineFields
  BY HeldHas
<1>2. /\ DOMAIN f = EngineFields /\ f.buf = e.buf /\ f.keys = e.keys /\ f.changePos = e.changePos
      /\ f.backs = e.backs /\ f.written = e.written /\ f.esc = e.esc /\ f.ctl = e.ctl /\ f.ev = e.ev /\ f.then = "undo"
  BY <1>1 DEF EngineFields, Undo
<1>. HIDE DEF f
<1>3. Held(b, f)
  BY <1>1, <1>2, KeptEven
<1>4. KeyIs(f, k) /\ ~IsLetter(f)
  BY <1>2 DEF KeyIs, IsLetter
<1>. QED  BY <1>2, <1>3, <1>4 DEF f, Taken

\* Or be used up.
LEMMA UsedTaken ==
  ASSUME NEW b, NEW k, NEW e, Held(b, e), e.then = "return", e.buf # <<>>, e.changePos <= Len(e.buf),
         ~IsLetter(e) \/ Top(e).form # "nonVn", KeyIs(e, k) \/ e.ev.sym.tone = 0
  PROVE  Taken(b, k, Ret(e, 1))
<1>. DEFINE f == Ret(e, 1)
<1>1. Held(b, f) /\ f.ret = 1 /\ f.buf = e.buf /\ f.changePos = e.changePos /\ f.ev = e.ev /\ f.then = e.then
  <2>1. Kept(b, e)
    BY HeldHas
  <2>. QED  BY <2>1, HeldRet
<1>. HIDE DEF f
<1>2. (IsLetter(f) <=> IsLetter(e)) /\ Top(f) = Top(e) /\ f.ev.sym.tone = 0
  BY <1>1 DEF IsLetter, Top, KeyIs
<1>3. Answer(b, k, f)
  BY <1>1, <1>2 DEF Answer, Settled
<1>. QED  BY <1>3 DEF f, Taken

\* The vowels are rewritten, if the key asks for it.
LEMMA RewriteTaken ==
  ASSUME NEW b, NEW k, NEW e, Start(b, k, e), e.ev.type # "Normal", hasVowel(e), NEW c,
         c.to # <<>> => Changes(VSeq(e), c.to, c.vs)
  PROVE  Taken(b, k, Rewrite(e, c))
<1>1. CASE c.to = <<>>
  BY <1>1, TextTaken DEF Rewrite
<1>2. CASE c.to # <<>>
  <2>. DEFINE h == RewriteAt(e, VStart(e), c.to, c.vs)
  <2>1. /\ Held(b, h) /\ Len(h.buf) = Len(e.buf) /\ h.changePos <= Len(h.buf) /\ h.ev = e.ev /\ h.then = e.then
    BY <1>2, StartHas, RewriteHolds
  <2>. HIDE DEF h
  <2>2. KeyIs(h, k) /\ ~IsLetter(h) /\ h.then = "return"
    BY <2>1, StartHas DEF KeyIs, IsLetter
  <2>3. h.buf # <<>>
    <3>1. e.buf # <<>> /\ EngineOK(e) /\ EngineOK(h)
      BY <2>1, StartHas, HeldHas DEF hasVowel
    <3>. QED  BY <2>1, <3>1, EngineLengths
  <2>4. Taken(b, k, Undo(h)) /\ Taken(b, k, Ret(h, 1))
    BY <2>1, <2>2, <2>3, UndoTaken, UsedTaken
  <2>5. Rewrite(e, c) \in {Undo(h), Ret(h, 1)}
    BY <1>2 DEF Rewrite, Rewritten, h
  <2>. QED  BY <2>4, <2>5
<1>. QED  BY <1>1, <1>2

\* processRoof.
LEMMA RoofTaken ==
  ASSUME NEW b, NEW k, NEW e, Start(b, k, e), e.ev.type # "Normal"
  PROVE  Taken(b, k, processRoof(e))
<1>1. CASE ~hasVowel(e)
  BY <1>1, TextTaken DEF processRoof
<1>2. CASE hasVowel(e)
  <2>. DEFINE s == VSeq(e)
              r == VSeqList[s]
              c == RoofChange(e, r, Roofed(s, r))
  <2>1. processRoof(e) = Rewrite(e, c)
    BY <1>2 DEF processRoof
  <2>2. c.to # <<>> => Changes(s, c.to, c.vs)
    <3>1. Held(b, e)
      BY StartHas
    <3>. HIDE DEF c
    <3>2. c = RoofChange(e, r, Roofed(s, r))
      BY DEF c
    <3>. QED  BY <1>2, <3>1, <3>2, RoofAsks
  <2>. HIDE DEF c
  <2>. QED  BY <1>2, <2>1, <2>2, RewriteTaken
<1>. QED  BY <1>1, <1>2

\* processHook, of a key that is not bound to the hook of one letter.
LEMMA HookTaken ==
  ASSUME NEW b, NEW k, NEW e, Start(b, k, e), e.ev.type \notin {"Normal", "Hook_u", "Hook_o"}
  PROVE  Taken(b, k, processHook(e))
<1>1. CASE ~hasVowel(e)
  BY <1>1, TextTaken DEF processHook
<1>2. CASE hasVowel(e)
  <2>. DEFINE s == VSeq(e)
              r == VSeqList[s]
              c == HookChange(e, r)
  <2>1. processHook(e) = Rewrite(e, c)
    BY <1>2 DEF processHook
  <2>2. c.to # <<>> => Changes(s, c.to, c.vs)
    <3>1. Held(b, e)
      BY StartHas
    <3>. HIDE DEF c
    <3>2. c = HookChange(e, r)
      BY DEF c
    <3>. QED  BY <1>2, <3>1, <3>2, HookAsks
  <2>. HIDE DEF c
  <2>3. e.ev.type # "Normal"
    OBVIOUS
  <2>. QED  BY <1>2, <2>1, <2>2, <2>3, RewriteTaken
<1>. QED  BY <1>1, <1>2

\* A tone at a letter of the word.
LEMMA ToneAtTaken ==
  ASSUME NEW b, NEW k, NEW e, Start(b, k, e), e.ev.type # "Normal", NEW pos \in Int, pos >= 1, pos <= Len(e.buf)
  PROVE  Taken(b, k, ToneAt(e, pos))
<1>0. /\ Held(b, e) /\ EngineOK(e) /\ Len(e.buf) \in Nat /\ Len(e.buf) = Len(b) /\ e.changePos = Len(b) + 1
      /\ KeyIs(e, k) /\ e.then = "return"
  BY StartHas
<1>1. ASSUME NEW tone, NEW h, h = SetTone(e, pos, tone)
      PROVE  Taken(b, k, Undo(h)) /\ Taken(b, k, Ret(h, 1))
  <2>1. Held(b, h) /\ Len(h.buf) = Len(e.buf) /\ h.changePos = IF pos < e.changePos THEN pos ELSE e.changePos
    <3>. DEFINE x == SetTone(e, pos, tone)
    <3>1. /\ Held(b, x) /\ Len(x.buf) = Len(e.buf) /\ x.changePos = (IF pos < e.changePos THEN pos ELSE e.changePos)
      BY <1>0, HeldTone
    <3>. HIDE DEF x
    <3>2. h = x
      BY <1>1 DEF x
    <3>. QED  BY <3>1, <3>2
  <2>2. h.ev = e.ev /\ h.then = e.then
    BY <1>0, <1>1, SetToneGrows DEF Grown
  <2>3. h.buf # <<>>
    <3>1. EngineOK(h)
      BY <2>1, HeldHas
    <3>. QED  BY <1>0, <2>1, <3>1, EngineLengths
  <2>4. h.changePos <= Len(h.buf)
    BY <1>0, <2>1
  <2>5. KeyIs(h, k) /\ ~IsLetter(h) /\ h.then = "return"
    BY <1>0, <2>2 DEF KeyIs, IsLetter
  <2>. QED  BY <2>1, <2>3, <2>4, <2>5, UndoTaken, UsedTaken
<1>2. ToneAt(e, pos) \in {Ret(SetTone(e, pos, e.ev.tone), 1), Undo(SetTone(e, pos, 0)), AsText(e)}
  BY DEF ToneAt
<1>3. Taken(b, k, AsText(e))
  BY TextTaken
<1>. QED  BY <1>1, <1>2, <1>3

\* processTone.
LEMMA ToneTaken ==
  ASSUME NEW b, NEW k, NEW e, Start(b, k, e), e.ev.type # "Normal"
  PROVE  Taken(b, k, processTone(e))
<1>. DEFINE n == Len(e.buf)
            w == Top(e)
<1>1. Taken(b, k, AsText(e)) /\ Held(b, e) /\ n \in Nat /\ (e.buf = <<>> <=> n = 0)
      /\ Items("word", e.buf) /\ Shaped(e.buf)
  BY TextTaken, StartHas
<1>2. CASE e.buf # <<>> /\ w.form = "c" /\ w.seq = "gi"
  <2>1. processTone(e) = ToneAt(e, n)
    BY <1>2 DEF processTone
  <2>. QED  BY <1>1, <1>2, <2>1, ToneAtTaken
<1>3. CASE e.buf # <<>> /\ w.form = "c" /\ w.seq = "gin"
  <2>1. processTone(e) = ToneAt(e, n - 1)
    BY <1>3 DEF processTone
  <2>2. n >= 2
    <3>1. n \in 1 .. Len(e.buf) /\ w = e.buf[n]
      BY <1>1, <1>3 DEF Top
    <3>. HIDE DEF n
    <3>. QED  BY <1>1, <1>3, <3>1, ShapeHas
  <2>. PICK p \in Int : p = n - 1
    BY <1>1
  <2>3. p >= 1 /\ p <= n
    BY <1>1, <2>2
  <2>. QED  BY <2>1, <2>3, ToneAtTaken
<1>4. CASE e.buf = <<>>
  BY <1>1, <1>4 DEF processTone
<1>5. CASE e.buf # <<>> /\ ~(w.form = "c" /\ w.seq = "gi") /\ ~(w.form = "c" /\ w.seq = "gin")
  <2>1. processTone(e) = AsText(e) \/ (hasVowel(e) /\ processTone(e) = ToneAt(e, TonePos(e)))
    BY <1>5 DEF processTone
  <2>2. hasVowel(e) => Taken(b, k, ToneAt(e, TonePos(e)))
    <3>1. hasVowel(e) => TonePos(e) \in Int /\ TonePos(e) >= 1 /\ TonePos(e) <= Len(e.buf)
      BY <1>1, TonesFound
    <3>. QED  BY <3>1, ToneAtTaken
  <2>. QED  BY <1>1, <2>1, <2>2
<1>. QED  BY <1>2, <1>3, <1>4, <1>5

-----------------------------------------------------------------------------
(* The barred d. *)

\* A letter that is no vowel may become another.
LEMMA ShapedRespelled ==
  ASSUME NEW c, Items("word", c), Shaped(c), NEW p, NEW sym, NEW seq, seq # "gin",
         p \in 1 .. Len(c) => c[p].v # 0, NEW d, OtherwiseSame(d, c, p, sym, seq)
  PROVE  Shaped(d)
<1>1. /\ Len(d) = Len(c) /\ Len(c) \in Nat
      /\ \A j \in 1 .. Len(c) : /\ d[j].form = c[j].form /\ d[j].c1 = c[j].c1 /\ d[j].v = c[j].v
                                /\ j # p => d[j].sym = c[j].sym /\ d[j].seq = c[j].seq
                                /\ j = p => d[j].seq # "gin"
  BY ItemsLength DEF OtherwiseSame
<1>2. SUFFICES ASSUME NEW i \in 1 .. Len(c)  PROVE ShapedAt(d, i)
  BY <1>1 DEF Shaped
<1>3. ShapedAt(c, i) /\ i \in Int /\ 1 <= i /\ i <= Len(c)
  BY <1>1 DEF Shaped
<1>4. Chain(d, i, "v") /\ Chain(d, i, "c1")
  <2>1. /\ c[i].v \in Int /\ -1 <= c[i].v /\ c[i].v < i /\ \A j \in 0 .. c[i].v : c[i - j].v = c[i].v - j
        /\ c[i].c1 \in Int /\ -1 <= c[i].c1 /\ c[i].c1 < i /\ \A j \in 0 .. c[i].c1 : c[i - j].c1 = c[i].c1 - j
    BY <1>3 DEF ShapedAt, Chain
  <2>2. ASSUME NEW k \in Int, k < i, NEW j \in 0 .. k  PROVE i - j \in 1 .. Len(c)
    <3>1. j \in Int /\ 0 <= j /\ j < i
      BY <1>3, <2>2
    <3>. QED  BY <1>1, <1>3, <3>1
  <2>. QED  BY <1>1, <2>1, <2>2 DEF Chain
<1>5. (d[i].form = "c" /\ d[i].seq = "gin") => i >= 2 /\ d[i - 1].form = "c"
  <2>1. SUFFICES ASSUME d[i].form = "c", d[i].seq = "gin"  PROVE i >= 2 /\ d[i - 1].form = "c"
    OBVIOUS
  <2>2. c[i].form = "c" /\ c[i].seq = "gin"
    BY <1>1, <2>1
  <2>3. i >= 2 /\ c[i - 1].form = "c"
    BY <1>3, <2>2 DEF ShapedAt
  <2>4. i - 1 \in 1 .. Len(c)
    BY <1>1, <1>3, <2>3
  <2>. QED  BY <1>1, <2>3, <2>4
<1>6. d[i].v = 0 => EndsVowels(d, i)
  <2>1. SUFFICES ASSUME c[i].v = 0  PROVE EndsVowels(d, i)
    BY <1>1
  <2>2. i # p
    BY <2>1
  <2>. PICK s, n : s = c[i].seq /\ n = VSeqList[s].len
    OBVIOUS
  <2>3. /\ s \in VS /\ n <= i /\ n \in Int
        /\ \A j \in 1 .. n : c[i - n + j].v = 0 /\ c[i - n + j].seq = Sub(s, j) /\ c[i - n + j].sym = VSeqList[s].v[j]
    <3>1. EndsVowels(c, i)
      BY <1>3, <2>1 DEF ShapedAt
    <3>. QED  BY <1>3, <3>1, EndsHas
  <2>4. d[i].seq = s
    BY <1>1, <2>2
  <2>5. ASSUME NEW j \in 1 .. n
        PROVE  d[i - n + j].v = 0 /\ d[i - n + j].seq = Sub(s, j) /\ d[i - n + j].sym = VSeqList[s].v[j]
    <3>. PICK m \in Int : m = i - n + j
      BY <1>3, <2>3
    <3>1. m \in 1 .. Len(c)
      BY <1>1, <1>3, <2>3
    <3>2. c[m].v = 0 /\ c[m].seq = Sub(s, j) /\ c[m].sym = VSeqList[s].v[j]
      BY <2>3
    <3>3. m # p
      BY <3>1, <3>2
    <3>. QED  BY <1>1, <3>1, <3>2, <3>3, Zenon
  <2>. QED  BY <2>3, <2>4, <2>5 DEF EndsVowels
<1>7. /\ d[i].form = c[i].form /\ d[i].c1 = c[i].c1 /\ d[i].v = c[i].v
  BY <1>1
<1>. QED  BY <1>3, <1>4, <1>5, <1>6, <1>7 DEF ShapedAt

\* The letter at p is changed and the change noted.
LEMMA BecomeHolds ==
  ASSUME NEW b, NEW e, Kept(b, e), NEW p \in Int, p >= 1, NEW letter
  PROVE  LET f == Become(e, p, letter)
         IN  /\ Kept(b, f) /\ f.changePos \in Int /\ f.changePos <= p /\ f.ev = e.ev /\ f.then = e.then /\ f.ctl = e.ctl
             /\ OtherwiseSame(f.buf, e.buf, p, letter, letter)
<1>. DEFINE x == markChange(e, p)
            f == Respelled(x, p, letter, letter)
<1>1. e.changePos \in Int /\ EngineOK(e)
  BY KeptHas
<1>2. Kept(b, x) /\ x.buf = e.buf /\ x.changePos = IF p < e.changePos THEN p ELSE e.changePos
  BY KeptMark
<1>3. x.ev = e.ev /\ x.then = e.then /\ x.ctl = e.ctl
  BY <1>1, MarkChangeGrows DEF Grown
<1>. HIDE DEF x
<1>4. p >= x.changePos /\ x.changePos \in Int
  BY <1>1, <1>2
<1>5. /\ Kept(b, f) /\ f.changePos = x.changePos /\ OtherwiseSame(f.buf, x.buf, p, letter, letter)
      /\ f.ev = x.ev /\ f.then = x.then /\ f.ctl = x.ctl
  BY <1>2, <1>4, KeptRespelled
<1>6. f = Become(e, p, letter)
  BY DEF Become, Respelled, x
<1>. HIDE DEF f
<1>. QED  BY <1>2, <1>3, <1>4, <1>5, <1>6

\* processDd, d after another letter.
LEMMA DdAfterOnset ==
  ASSUME NEW b, NEW k, NEW e, Start(b, k, e), e.ev.type # "Normal", e.buf # <<>>, Top(e).c1 >= 0,
         NEW p, p = Len(e.buf) - Top(e).c1, e.buf[p].seq \in {"d", "dd"}, NEW letter \in {"d", "dd"}
  PROVE  Taken(b, k, Undo(Become(e, p, letter))) /\ Taken(b, k, Ret(Become(e, p, letter), 1))
<1>. DEFINE n == Len(e.buf)
            f == Become(e, p, letter)
<1>1. /\ Held(b, e) /\ Kept(b, e) /\ n \in Nat /\ n >= 1 /\ Items("word", e.buf) /\ Shaped(e.buf)
      /\ KeyIs(e, k) /\ e.then = "return"
  BY StartHas
<1>2. Top(e) = e.buf[n] /\ n \in 1 .. n
  BY <1>1 DEF Top
<1>3. Top(e).c1 \in Int /\ Top(e).c1 < n
  BY <1>1, <1>2, ShapeHas
<1>4. p \in 1 .. n /\ p \in Int /\ p >= 1
  BY <1>1, <1>3
<1>5. e.buf[p].v # 0
  <2>1. e.buf[p].v = 0 => e.buf[p].seq \in VS
    BY <1>1, <1>4, ShapeHas
  <2>. QED  BY <2>1, Rows
<1>6. /\ Kept(b, f) /\ f.changePos \in Int /\ f.changePos <= p /\ f.ev = e.ev /\ f.then = e.then
      /\ OtherwiseSame(f.buf, e.buf, p, letter, letter)
  BY <1>1, <1>4, BecomeHolds
<1>. HIDE DEF f
<1>7. Held(b, f)
  <2>. PICK c, d : c = e.buf /\ d = f.buf
    OBVIOUS
  <2>1. Items("word", c) /\ Shaped(c) /\ letter # "gin" /\ (p \in 1 .. Len(c) => c[p].v # 0)
        /\ OtherwiseSame(d, c, p, letter, letter)
    BY <1>1, <1>5, <1>6
  <2>2. Shaped(d)
    BY ONLY <2>1, ShapedRespelled
  <2>. QED  BY <1>6, <2>2 DEF Held
<1>8. Len(f.buf) = n /\ f.buf # <<>> /\ f.changePos <= Len(f.buf)
  <2>1. Len(f.buf) = n
    BY <1>6 DEF OtherwiseSame
  <2>. QED  BY <1>1, <1>4, <1>6, <1>7, <2>1, HeldHas
<1>9. KeyIs(f, k) /\ ~IsLetter(f) /\ f.then = "return"
  BY <1>1, <1>6 DEF KeyIs, IsLetter
<1>. QED  BY <1>7, <1>8, <1>9, UndoTaken, UsedTaken DEF f

\* processDd, d of no syllable.
LEMMA DdAlone ==
  ASSUME NEW b, NEW k, NEW e, Start(b, k, e), e.ev.type # "Normal", e.buf # <<>>, Top(e).form = "nonVn",
         NEW one, one = [e EXCEPT !.single = TRUE], NEW n, n = Len(e.buf)
  PROVE  Taken(b, k, Ret(WithEdit(WithEdit(Become(one, n, "dd"), n, "form", "c"), n, "c1", 0), 1))
<1>. DEFINE s == Become(one, n, "dd")
            t == WithEdit(s, n, "form", "c")
            u == WithEdit(t, n, "c1", 0)
<1>1. /\ Held(b, e) /\ n \in Nat /\ n >= 1 /\ n \in 1 .. n /\ Items("word", e.buf) /\ Shaped(e.buf)
      /\ e.then = "return" /\ Top(e) = e.buf[n] /\ KeyIs(e, k)
  BY StartHas DEF Top
<1>2. Held(b, one) /\ Kept(b, one) /\ one.buf = e.buf /\ one.ev = e.ev /\ one.then = e.then
  <2>1. Held(b, one) /\ one.buf = e.buf /\ one.ev = e.ev /\ one.then = e.then
    <3>1. Held(b, e)
      BY <1>1
    <3>. QED  BY ONLY <3>1, HeldOther, one = [e EXCEPT !.single = TRUE]
  <2>. QED  BY <2>1, HeldHas
<1>3. /\ Kept(b, s) /\ s.changePos \in Int /\ s.changePos <= n /\ s.ev = one.ev /\ s.then = one.then
      /\ OtherwiseSame(s.buf, one.buf, n, "dd", "dd")
  <2>1. Kept(b, one) /\ n \in Int /\ n >= 1
    BY <1>1, <1>2
  <2>. QED  BY ONLY <2>1, BecomeHolds
<1>. HIDE DEF s
<1>4. /\ "form" \in WordFields /\ "c" \in Forms /\ "c1" \in WordFields /\ "c1" # "form"
      /\ "form" \notin {"sym", "caps", "tone"} /\ "c1" \notin {"sym", "caps", "tone"} /\ n \in Int
      /\ \A x \in {"v", "seq", "sym"} : x \in WordFields /\ x # "form" /\ x # "c1"
  BY <1>1 DEF WordFields, Forms
<1>5. Kept(b, t) /\ t.changePos = s.changePos
  BY ONLY <1>3, <1>4, KeptEdit
<1>6. OneField(t.buf, s.buf, n, "form", "c") /\ t.ev = s.ev /\ t.then = s.then
  <2>1. EngineOK(s)
    BY <1>3, KeptHas
  <2>. QED  BY ONLY <2>1, <1>4, EditHas
<1>. HIDE DEF t
<1>7. Kept(b, u) /\ u.changePos = t.changePos
  <2>1. u = WithEdit(t, n, "c1", 0)
    OBVIOUS
  <2>. PICK x : x = 0
    OBVIOUS
  <2>2. u = WithEdit(t, n, "c1", x) /\ Kept(b, t) /\ n \in Int /\ "c1" \in WordFields /\ "c1" # "form"
        /\ "c1" \notin {"sym", "caps", "tone"}
    BY <1>4, <1>5, <2>1
  <2>. HIDE DEF u
  <2>. QED  BY ONLY <2>2, KeptEdit
<1>8. OneField(u.buf, t.buf, n, "c1", 0) /\ u.ev = t.ev /\ u.then = t.then
  <2>1. EngineOK(t)
    BY <1>5, KeptHas
  <2>. QED  BY ONLY <2>1, <1>4, EditHas
<1>. HIDE DEF u
<1>. PICK c, d : c = e.buf /\ d = u.buf
  OBVIOUS
<1>9. /\ Len(d) = Len(c) /\ Len(c) = n
      /\ \A j \in 1 .. n : j # n => SameBone(d[j], c[j])
      /\ d[n].form = "c" /\ d[n].c1 = 0 /\ d[n].v = c[n].v /\ d[n].seq = "dd"
  BY <1>1, <1>2, <1>3, <1>4, <1>6, <1>8 DEF OneField, OtherwiseSame, SameBone
<1>10. c[n].v = -1 /\ Chain(c, n, "v") /\ Items("word", c) /\ Shaped(c)
  <2>1. Items("word", c) /\ Shaped(c) /\ n \in 1 .. Len(c) /\ c[n].form = "nonVn" /\ Len(c) = n
    BY <1>1
  <2>2. /\ Chain(c, n, "v") /\ c[n].v \in Int /\ -1 <= c[n].v
        /\ c[n].form \in {"v", "cv"} <=> c[n].v = 0
        /\ c[n].form \in {"vc", "cvc"} <=> c[n].v >= 1
    BY ONLY <2>1, ShapeHas
  <2>. QED  BY <2>1, <2>2
<1>11. Shaped(d)
  <2>1. SUFFICES ASSUME NEW i \in 1 .. n  PROVE ShapedAt(d, i)
    BY <1>9 DEF Shaped
  <2>2. CASE i < n
    <3>1. i \in Nat \ {0} /\ ShapedAt(c, i)
      BY <1>9, <1>10 DEF Shaped
    <3>2. \A j \in 1 .. i : SameBone(d[j], c[j])
      BY <1>1, <1>9, <2>2
    <3>. QED  BY <3>1, <3>2, ShapedLike
  <2>3. CASE i = n
    <3>1. Chain(d, n, "v") /\ Chain(d, n, "c1")
      BY <1>1, <1>9, <1>10 DEF Chain
    <3>. QED  BY <1>9, <1>10, <2>3, <3>1 DEF ShapedAt
  <2>. QED  BY <1>1, <2>2, <2>3
<1>12. Held(b, u) /\ u.buf # <<>> /\ u.changePos <= Len(u.buf)
  <2>1. Held(b, u)
    BY <1>7, <1>11 DEF Held
  <2>2. u.changePos <= n /\ Len(u.buf) = n
    BY <1>3, <1>5, <1>7, <1>9
  <2>. QED  BY <1>1, <2>1, <2>2, HeldHas
<1>13. ~IsLetter(u) /\ KeyIs(u, k) /\ u.then = "return"
  BY <1>1, <1>2, <1>3, <1>6, <1>8 DEF IsLetter, KeyIs
<1>. QED  BY <1>12, <1>13, UsedTaken DEF u, t, s

\* processDd.
LEMMA DdTaken ==
  ASSUME NEW b, NEW k, NEW e, Start(b, k, e), e.ev.type # "Normal"
  PROVE  Taken(b, k, processDd(e))
<1>. DEFINE n == Len(e.buf)
            pos == n - Top(e).c1
            one == [e EXCEPT !.single = TRUE]
            t == WithEdit(WithEdit(Become(one, n, "dd"), n, "form", "c"), n, "c1", 0)
<1>1. \/ processDd(e) = AsText(e)
      \/ e.buf # <<>> /\ Top(e).form = "nonVn" /\ processDd(e) = Ret(t, 1)
      \/ e.buf # <<>> /\ Top(e).c1 >= 0 /\ e.buf[pos].seq = "d" /\ processDd(e) = Ret(Become(e, pos, "dd"), 1)
      \/ e.buf # <<>> /\ Top(e).c1 >= 0 /\ e.buf[pos].seq = "dd" /\ processDd(e) = Undo(Become(e, pos, "d"))
  <2>. DEFINE P1 == /\ e.buf # <<>> /\ Top(e).form = "nonVn" /\ Top(e).sym = "d"
                    /\ e.buf[n - 1].sym \notin Vowels
              P2 == /\ e.buf # <<>> /\ Top(e).c1 >= 0 /\ e.buf[pos].seq = "d"
                    /\ MayMark(e, pos)
              P3 == /\ e.buf # <<>> /\ Top(e).c1 >= 0 /\ e.buf[pos].seq = "dd"
                    /\ MayMark(e, pos)
              x1 == Ret(t, 1)
              x2 == Ret(Become(e, pos, "dd"), 1)
              x3 == Undo(Become(e, pos, "d"))
  <2>1. processDd(e) = CASE e.buf = <<>> -> AsText(e) [] P1 -> x1 [] P2 -> x2 [] P3 -> x3 [] OTHER -> AsText(e)
    BY DEF processDd, Become, WithEdit
  <2>2. /\ P1 => e.buf # <<>> /\ Top(e).form = "nonVn"
        /\ P2 => e.buf # <<>> /\ Top(e).c1 >= 0 /\ e.buf[pos].seq = "d"
        /\ P3 => e.buf # <<>> /\ Top(e).c1 >= 0 /\ e.buf[pos].seq = "dd"
    OBVIOUS
  <2>. HIDE DEF P1, P2, P3, x1, x2, x3
  <2>3. \/ processDd(e) = AsText(e)
        \/ P1 /\ processDd(e) = x1
        \/ P2 /\ processDd(e) = x2
        \/ P3 /\ processDd(e) = x3
    BY <2>1
  <2>. QED  BY <2>2, <2>3 DEF x1, x2, x3
<1>2. (e.buf # <<>> /\ Top(e).form = "nonVn") => Taken(b, k, Ret(t, 1))
  BY DdAlone
<1>3. (e.buf # <<>> /\ Top(e).c1 >= 0 /\ e.buf[pos].seq \in {"d", "dd"}) =>
         Taken(b, k, Ret(Become(e, pos, "dd"), 1)) /\ Taken(b, k, Undo(Become(e, pos, "d")))
  BY DdAfterOnset
<1>. HIDE DEF t, pos
<1>. QED  BY <1>1, <1>2, <1>3, TextTaken

-----------------------------------------------------------------------------
(* Keys that stand for a letter. *)

\* The last entry goes, with the changes noted from it on.
LEMMA HeldPop ==
  ASSUME NEW b, NEW e, Held(b, e), e.buf # <<>>, e.changePos <= Len(e.buf)
  PROVE  LET f == Pop(e)
         IN  /\ Held(b, f) /\ f.buf = Front(e.buf) /\ Len(f.buf) = Len(e.buf) - 1 /\ f.changePos = e.changePos
             /\ f.ev = e.ev /\ f.then = e.then /\ f.ctl = e.ctl /\ f.ret = e.ret /\ DOMAIN f = EngineFields
<1>. DEFINE f == Pop(e)
<1>1. /\ Kept(b, e) /\ Shaped(e.buf) /\ DOMAIN e = EngineFields /\ Items("word", e.buf) /\ Len(e.buf) \in Nat
      /\ e.changePos \in Int
  BY HeldHas
<1>. PICK c, d : c = e.buf /\ d = f.buf
  OBVIOUS
<1>2. /\ DOMAIN f = EngineFields /\ f.buf = Front(c) /\ f.keys = e.keys /\ f.changePos = e.changePos
      /\ f.backs = e.backs /\ f.written = e.written /\ f.esc = e.esc /\ f.ctl = e.ctl /\ f.ev = e.ev /\ f.then = e.then /\ f.ret = e.ret
  BY <1>1 DEF EngineFields, Pop
<1>. HIDE DEF f
<1>3. Items("word", d) /\ Len(d) = Len(c) - 1 /\ \A j \in 1 .. Len(c) - 1 : d[j] = c[j]
  BY <1>1, <1>2, FrontEntries
<1>4. Shaped(d)
  BY <1>1, <1>2, ShapedFront
<1>5. Kept(b, f)
  <2>1. e.changePos <= Len(f.buf) + 1 /\ Items("word", f.buf)
    BY <1>1, <1>3
  <2>2. \A i \in 1 .. e.changePos - 1 : Face(f.buf[i]) = Face(e.buf[i])
    <3>1. \A i \in 1 .. e.changePos - 1 : i \in 1 .. Len(c) - 1 /\ i \in 1 .. Len(b)
      BY <1>1, KeptHas
    <3>. QED  BY <1>3, <3>1
  <2>. QED  BY <1>1, <1>2, <2>1, <2>2, KeptBuf
<1>6. Held(b, f)
  BY <1>4, <1>5 DEF Held
<1>. QED  BY <1>2, <1>3, <1>6 DEF f

\* The engine with another event.
LEMMA HeldEvent ==
  ASSUME NEW b, NEW e, Held(b, e), NEW f, DOMAIN f = EngineFields, f.buf = e.buf, f.keys = e.keys,
         f.changePos = e.changePos, f.backs = e.backs, f.written = e.written /\ f.esc = e.esc, f.ctl = e.ctl
  PROVE  Held(b, f) /\ (Whole(b, e) => Whole(b, f))
<1>1. Held(b, f)
  BY HeldHas, KeptEven
<1>. QED  BY <1>1 DEF Whole

\* The key takes the letter back that it has just put there.
LEMMA MapUndoneTaken ==
  ASSUME NEW b, NEW k, NEW e, Whole(b, e), KeyIs(e, k), ~IsLetter(e), e.buf # <<>>,
         Top(e).form \notin {"empty", "nonVn"}
  PROVE  Taken(b, k, MapUndone(e))
<1>. DEFINE n == Len(e.buf)
            x == markChange(e, n)
            to == VStart(x) + TonePosition(x, x.buf[n - 1].seq, TRUE)
            y == MoveTone(x, TonePos(x), to)
            moves == Top(e).form # "c" /\ n > 1 /\ e.buf[n - 1].form \in {"v", "cv"}
            z == IF moves THEN y ELSE x
<1>1. /\ Held(b, e) /\ Kept(b, e) /\ EngineOK(e) /\ n \in Nat /\ n >= 1 /\ n = Len(b) /\ e.changePos = n + 1
      /\ Items("word", e.buf) /\ Shaped(e.buf)
  BY HeldHas DEF Whole
<1>2. MapUndone(e) = Undo(Pop(z))
  BY DEF MapUndone
<1>3. Held(b, x) /\ Kept(b, x) /\ EngineOK(x) /\ x.buf = e.buf /\ x.changePos = n /\ x.ev = e.ev
  <2>1. Kept(b, x) /\ x.buf = e.buf /\ x.changePos = (IF n < e.changePos THEN n ELSE e.changePos) /\ Held(b, x)
    BY <1>1, KeptMark
  <2>2. x.ev = e.ev
    BY <1>1, MarkChangeGrows DEF Grown
  <2>. HIDE DEF x
  <2>. QED  BY <1>1, <2>1, <2>2 DEF Kept
<1>. HIDE DEF x
<1>4. moves => Held(b, y) /\ Len(y.buf) = n /\ y.changePos <= n /\ y.ev = e.ev /\ EngineOK(y)
  <2>. SUFFICES ASSUME moves  PROVE Held(b, y) /\ Len(y.buf) = n /\ y.changePos <= n /\ y.ev = e.ev /\ EngineOK(y)
    OBVIOUS
  <2>1. hasVowel(x)
    <3>1. Top(e) = e.buf[n] /\ Top(x) = e.buf[n] /\ n \in 1 .. Len(e.buf) /\ x.buf # <<>>
      BY <1>1, <1>3 DEF Top
    <3>2. /\ e.buf[n].v \in Int
          /\ e.buf[n].form \in {"v", "cv"} <=> e.buf[n].v = 0
          /\ e.buf[n].form \in {"vc", "cvc"} <=> e.buf[n].v >= 1
          /\ IsWord(e.buf[n])
      <4>. HIDE DEF n
      <4>. QED  BY <1>1, <3>1, ShapeHas
    <3>3. e.buf[n].v >= 0
      BY <3>1, <3>2 DEF IsWord, Forms
    <3>. QED  BY <3>1, <3>3 DEF hasVowel
  <2>2. x.buf[n - 1].seq \in VS
    <3>0. n - 1 \in Int
      BY <1>1
    <3>. PICK m \in Int : m = n - 1
      BY ONLY <3>0
    <3>1. m \in 1 .. Len(e.buf)
      BY <1>1
    <3>2. e.buf[m].form \in {"v", "cv"} => e.buf[m].seq \in VS
      <4>. HIDE DEF n
      <4>. QED  BY <1>1, <3>1, ShapeHas
    <3>. QED  BY <1>3, <3>2
  <2>3. TonePos(x) \in Int /\ TonePos(x) >= 1 /\ to \in Int /\ to >= 1
    BY <1>3, <2>1, <2>2, TonesFound
  <2>. PICK p, q : p = TonePos(x) /\ q = to
    OBVIOUS
  <2>4. p \in Int /\ p >= 1 /\ q \in Int /\ q >= 1 /\ Kept(b, x) /\ y = MoveTone(x, p, q) /\ Held(b, x)
    BY <1>3, <2>3
  <2>. HIDE DEF y
  <2>5. Kept(b, y) /\ Len(y.buf) = Len(x.buf) /\ y.changePos <= x.changePos /\ Held(b, y)
    BY ONLY <2>4, KeptMoveTone
  <2>6. y.ev = x.ev /\ EngineOK(y)
    <3>1. EngineOK(x)
      BY <1>3
    <3>2. Grown(x, y, 0)
      BY ONLY <2>4, <3>1, MoveToneGrows
    <3>. QED  BY <3>1, <3>2 DEF Grown
  <2>. QED  BY <1>3, <2>5, <2>6
<1>. HIDE DEF y, moves
<1>5. Held(b, z) /\ Len(z.buf) = n /\ z.changePos <= n /\ z.ev = e.ev /\ EngineOK(z)
  BY <1>1, <1>3, <1>4
<1>. HIDE DEF z
<1>6. z.buf # <<>>
  BY <1>1, <1>5, EngineLengths
<1>. DEFINE p == Pop(z)
<1>7. Held(b, p) /\ p.ev = z.ev
  BY <1>5, <1>6, HeldPop
<1>. HIDE DEF p
<1>8. KeyIs(p, k) /\ ~IsLetter(p)
  BY <1>5, <1>7 DEF KeyIs, IsLetter
<1>9. Taken(b, k, Undo(p))
  BY <1>7, <1>8, UndoTaken
<1>. QED  BY <1>2, <1>9 DEF p

\* processMapChar: the letter stays, or the key is typed for it.
LEMMA MapCharTaken ==
  ASSUME NEW b, NEW k, PlainKey(k), getCharType(k) # "Vn", NEW e, Whole(b, e), e.then = "return",
         NEW sym, NEW caps, e.ev.sym = Symbol(sym, caps, 0), e.ev.ch = "Vn", e.ev.key = k,
         e.ev.type # "Normal", DOMAIN e.ev = EvFields
  PROVE  Taken(b, k, processMapChar(e))
<1>. DEFINE a == [e EXCEPT !.ev.sym.caps = @ # e.ctl.lock]
            t == appendSymbol(a)
            key == keyCodeToSymbol(k)
            popped == [Pop(t) EXCEPT !.ev = key]
            last == Top(popped)
<1>1. /\ Held(b, e) /\ Kept(b, e) /\ DOMAIN e = EngineFields /\ EngineOK(e) /\ Len(e.buf) \in Nat
      /\ Len(e.buf) = Len(b) /\ e.changePos = Len(b) + 1 /\ Items("word", e.buf)
  BY HeldHas DEF Whole
<1>2. /\ DOMAIN a = EngineFields /\ a.buf = e.buf /\ a.keys = e.keys /\ a.changePos = e.changePos
      /\ a.backs = e.backs /\ a.written = e.written /\ a.esc = e.esc /\ a.ctl = e.ctl /\ a.then = e.then
      /\ a.ev.ch = "Vn" /\ a.ev.key = k /\ a.ev.type = e.ev.type /\ a.ev.sym.tone = 0
  <2>. PICK flag : flag = (e.ev.sym.caps # e.ctl.lock)
    OBVIOUS
  <2>1. a = [e EXCEPT !.ev.sym.caps = flag]
    OBVIOUS
  <2>. HIDE DEF a
  <2>. QED  BY <1>1, <2>1 DEF EngineFields, EvFields, Symbol
<1>3. processMapChar(e) = MapTried(t, k)
  BY DEF processMapChar
<1>. HIDE DEF a
<1>4. Whole(b, a) /\ Held(b, a) /\ EngineOK(a)
  <2>1. Whole(b, a)
    BY <1>1, <1>2, HeldEvent
  <2>. QED  BY <2>1, HeldHas DEF Whole
<1>5. Grew(b, a, t) /\ Grown(a, t, 1)
  BY <1>2, <1>4, GrewAppendSymbol, AppendSymbolGrows
<1>6. a.buf = <<>> => Top(t).form \in {"v", "c"}
  BY <1>2, <1>4, FirstLetter
<1>. HIDE DEF t
<1>7. /\ Held(b, t) /\ t.changePos <= Len(t.buf) /\ Len(t.buf) = Len(b) + 1 /\ t.ev = a.ev /\ t.then = "return"
      /\ t.buf # <<>> /\ DOMAIN t = EngineFields /\ EngineOK(t)
  <2>1. Held(b, t) /\ t.changePos <= a.changePos /\ Len(t.buf) = Len(a.buf) + 1 /\ t.ev = a.ev /\ t.then = a.then
    BY <1>5 DEF Grew, Grown
  <2>2. /\ t.changePos \in Int /\ (t.buf = <<>> <=> Len(t.buf) = 0) /\ DOMAIN t = EngineFields /\ EngineOK(t)
    BY <2>1, HeldHas
  <2>. QED  BY <1>1, <1>2, <2>1, <2>2
<1>8. MapTried(t, k) =
        CASE t.buf # <<>> /\ Top(t).form \notin {"empty", "nonVn"} -> Ret(t, 1)
          [] t.buf = <<>> -> Ret(t, 0)
          [] OTHER -> IF last.form \notin {"empty", "nonVn"} /\ last.sym = t.ev.sym.sym /\ last.caps = t.ev.sym.caps
                      THEN MapUndone(popped) ELSE AsText(popped)
  BY DEF MapTried
<1>9. CASE Top(t).form \notin {"empty", "nonVn"}
  <2>1. processMapChar(e) = Ret(t, 1)
    BY <1>3, <1>7, <1>8, <1>9
  <2>2. t.ev.sym.tone = 0
    BY <1>2, <1>7
  <2>. QED  BY <1>7, <1>9, <2>1, <2>2, UsedTaken
<1>10. CASE Top(t).form \in {"empty", "nonVn"}
  <2>1. processMapChar(e) \in {MapUndone(popped), AsText(popped)}
    BY <1>3, <1>7, <1>8, <1>10
  <2>2. processMapChar(e) = MapUndone(popped) => last.form \notin {"empty", "nonVn"} \/ processMapChar(e) = AsText(popped)
    BY <1>3, <1>7, <1>8, <1>10
  <2>3. Plain(a, t)
    BY <1>5, <1>10 DEF Grew
  <2>4. e.buf # <<>>
    BY <1>2, <1>6, <1>10
  <2>. DEFINE q == Pop(t)
  <2>5. /\ Held(b, q) /\ q.buf = Front(t.buf) /\ Len(q.buf) = Len(b) /\ q.changePos = Len(b) + 1 /\ DOMAIN q = EngineFields
    <3>1. Held(b, q) /\ q.buf = Front(t.buf) /\ Len(q.buf) = Len(t.buf) - 1 /\ q.changePos = t.changePos /\ DOMAIN q = EngineFields
      BY <1>7, HeldPop
    <3>2. t.changePos = a.changePos
      BY <2>3 DEF Plain
    <3>. HIDE DEF q
    <3>. QED  BY <1>1, <1>2, <1>7, <3>1, <3>2
  <2>. HIDE DEF q
  <2>6. popped = [q EXCEPT !.ev = key]
    BY DEF q
  <2>. HIDE DEF popped, last, key
  <2>7. /\ DOMAIN popped = EngineFields /\ popped.buf = q.buf /\ popped.keys = q.keys /\ popped.changePos = q.changePos
        /\ popped.backs = q.backs /\ popped.written = q.written /\ popped.esc = q.esc /\ popped.ctl = q.ctl /\ popped.ev = key
        /\ popped.then = q.then
    BY <2>5, <2>6 DEF EngineFields
  <2>8. Whole(b, popped) /\ EngineOK(popped)
    <3>1. Whole(b, q)
      BY <2>5 DEF Whole
    <3>2. Whole(b, popped)
      BY <2>5, <2>7, <3>1, HeldEvent
    <3>. QED  BY <3>2, HeldHas DEF Whole
  <2>9. KeyIs(popped, k) /\ ~IsLetter(popped)
    BY <2>7, TextEvent DEF KeyIs, IsLetter, PlainKey, key, keyCodeToSymbol
  <2>10. popped.buf # <<>>
    <3>1. Len(e.buf) >= 1
      BY <1>1, <2>4, EngineLengths
    <3>. QED  BY <1>1, <2>5, <2>7, <2>8, <3>1, EngineLengths
  <2>11. last.form \notin {"empty", "nonVn"} => Taken(b, k, MapUndone(popped))
    BY <2>8, <2>9, <2>10, MapUndoneTaken DEF last
  <2>12. Taken(b, k, AsText(popped))
    <3>. DEFINE g == AsText(popped)
    <3>1. /\ DOMAIN g = EngineFields /\ g.buf = popped.buf /\ g.keys = popped.keys /\ g.changePos = popped.changePos
          /\ g.backs = popped.backs /\ g.written = popped.written /\ g.esc = popped.esc /\ g.ctl = popped.ctl /\ g.ev = popped.ev
          /\ g.then = "append"
      BY <2>7 DEF EngineFields, AsText
    <3>. HIDE DEF g
    <3>2. Whole(b, g)
      BY <2>8, <3>1, HeldEvent DEF Whole
    <3>3. KeyIs(g, k)
      BY <2>9, <3>1 DEF KeyIs
    <3>. QED  BY <3>1, <3>2, <3>3 DEF g, Taken
  <2>. QED  BY <2>1, <2>2, <2>11, <2>12
<1>. QED  BY <1>9, <1>10

-----------------------------------------------------------------------------
(* Every key. *)

\* A handler that is done in one of the ways of Done and owes no more has an answer.
LEMMA TakenAnswers ==
  ASSUME NEW b, NEW k, PlainKey(k), NEW c, ~c.options.autoNonVnRestore, NEW n, NEW m, NEW h,
         Done(c, n, m, h), Taken(b, k, h)
  PROVE  Answer(b, k, Finish(h))
<1>1. CASE Outcome(c, n, m, h)
  <2>1. h.then = "return"
    BY <1>1 DEF Outcome
  <2>2. Finish(h) = h /\ Answer(b, k, h)
    BY <2>1 DEF Finish, Taken
  <2>. QED  BY <2>2
<1>2. CASE Going(c, n, m, h)
  <2>1. ~h.ctl.options.autoNonVnRestore
    BY <1>2 DEF Going
  <2>. QED  BY <2>1, FinishAnswers
<1>. QED  BY <1>1, <1>2 DEF Done

\* One attempt of the w of Telex.
LEMMA TelexWAsAnswers ==
  ASSUME NEW b, NEW k, PlainKey(k), getCharType(k) # "Vn", NEW c, ~c.options.autoNonVnRestore, NEW n, NEW m,
         NEW e, Ready(c, n, m, e), Start(b, k, e), NEW mapChar
  PROVE  Answer(b, k, TelexWAs(e, mapChar))
<1>. DEFINE caps == (e.ev.key \in Upper) # e.ctl.lock
            letter == Symbol("uh", caps, 0)
            x == WithEv(e, "type", "MapChar")
            y == WithEv(x, "ch", "Vn")
            a == WithEv(y, "sym", letter)
            d == WithEv(e, "type", "HookAll")
<1>1. TelexWAs(e, mapChar) = Finish(IF mapChar THEN processMapChar(a) ELSE processHook(d))
  BY DEF TelexWAs, WithEv
<1>0. letter = Symbol("uh", caps, 0)
  OBVIOUS
<1>. HIDE DEF letter, caps
<1>2. DOMAIN e = EngineFields /\ DOMAIN e.ev = EvFields /\ EventOK(e.ev)
  BY ReadyHas DEF EventOK, EvFields
<1>3. /\ "type" \in EvFields /\ "ch" \in EvFields /\ "sym" \in EvFields /\ "key" \in EvFields
      /\ "type" # "ch" /\ "type" # "sym" /\ "ch" # "sym" /\ "key" \notin {"type", "ch", "sym"}
  BY DEF EvFields
<1>4. SameButEv(e, x) /\ DOMAIN x.ev = EvFields /\ \A g \in EvFields : x.ev[g] = IF g = "type" THEN "MapChar" ELSE e.ev[g]
  BY <1>2, <1>3, EvChanged
<1>5. SameButEv(e, d) /\ DOMAIN d.ev = EvFields /\ \A g \in EvFields : d.ev[g] = IF g = "type" THEN "HookAll" ELSE e.ev[g]
  BY <1>2, <1>3, EvChanged
<1>r. /\ x.changePos = e.changePos /\ x.backs = e.backs /\ x.written = e.written /\ x.esc = e.esc
      /\ d.changePos = e.changePos /\ d.backs = e.backs /\ d.written = e.written /\ d.esc = e.esc
  BY <1>2 DEF WithEv, EngineFields
<1>. HIDE DEF x, d
<1>6. SameButEv(x, y) /\ DOMAIN y.ev = EvFields /\ \A g \in EvFields : y.ev[g] = IF g = "ch" THEN "Vn" ELSE x.ev[g]
  BY <1>3, <1>4, EvChanged DEF SameButEv
<1>s. y.changePos = x.changePos /\ y.backs = x.backs /\ y.written = x.written /\ y.esc = x.esc
  BY <1>4 DEF SameButEv, WithEv, EngineFields
<1>. HIDE DEF y
<1>7. SameButEv(y, a) /\ DOMAIN a.ev = EvFields /\ \A g \in EvFields : a.ev[g] = IF g = "sym" THEN letter ELSE y.ev[g]
  BY <1>3, <1>6, EvChanged DEF SameButEv
<1>t. a.changePos = y.changePos /\ a.backs = y.backs /\ a.written = y.written /\ a.esc = y.esc
  BY <1>6 DEF SameButEv, WithEv, EngineFields
<1>. HIDE DEF a
<1>8. a.ev.type = "MapChar" /\ a.ev.ch = "Vn" /\ a.ev.key = e.ev.key /\ a.ev.sym = letter
  BY <1>3, <1>4, <1>6, <1>7
<1>9. d.ev.type = "HookAll" /\ d.ev.ch = e.ev.ch /\ d.ev.key = e.ev.key /\ d.ev.sym = e.ev.sym
  BY <1>3, <1>5
<1>10. EventOK(a.ev) /\ EventOK(d.ev)
  BY <1>2, <1>5, <1>7, <1>8, <1>9 DEF EventOK, EvFields, EventTypes, HookEvents
<1>11. Ready(c, n, m, a) /\ Ready(c, n, m, d)
  BY <1>4, <1>5, <1>6, <1>7, <1>10, ReadyEven DEF SameButEv
<1>12. Done(c, n, m, processMapChar(a)) /\ Done(c, n, m, processHook(d))
  BY <1>8, <1>11, MapCharDone, HookDone
<1>13. Whole(b, e) /\ Held(b, e) /\ KeyIs(e, k) /\ e.then = "return"
  BY StartHas
<1>14. Whole(b, a) /\ Whole(b, d) /\ a.then = "return" /\ d.then = "return"
  <2>1. /\ DOMAIN a = EngineFields /\ a.buf = e.buf /\ a.keys = e.keys /\ a.changePos = e.changePos
        /\ a.backs = e.backs /\ a.written = e.written /\ a.esc = e.esc /\ a.ctl = e.ctl /\ a.then = e.then
    BY <1>4, <1>6, <1>7, <1>r, <1>s, <1>t DEF SameButEv
  <2>2. /\ DOMAIN d = EngineFields /\ d.buf = e.buf /\ d.keys = e.keys /\ d.changePos = e.changePos
        /\ d.backs = e.backs /\ d.written = e.written /\ d.esc = e.esc /\ d.ctl = e.ctl /\ d.then = e.then
    BY <1>5, <1>r DEF SameButEv
  <2>. QED  BY <1>13, <2>1, <2>2, HeldEvent
<1>15. Taken(b, k, processMapChar(a))
  <2>1. a.ev.key = k /\ a.ev.sym = Symbol("uh", caps, 0) /\ a.ev.ch = "Vn" /\ a.ev.type # "Normal"
    BY <1>0, <1>8, <1>13 DEF KeyIs
  <2>. QED  BY <1>7, <1>14, <2>1, MapCharTaken
<1>16. Taken(b, k, processHook(d))
  <2>1. Start(b, k, d) /\ d.ev.type \notin {"Normal", "Hook_u", "Hook_o"}
    BY <1>9, <1>13, <1>14 DEF Start, KeyIs
  <2>. QED  BY <2>1, HookTaken
<1>17. Answer(b, k, Finish(processMapChar(a))) /\ Answer(b, k, Finish(processHook(d)))
  BY <1>12, <1>15, <1>16, TakenAnswers
<1>. QED  BY <1>1, <1>17

\* What is left to the client is one entry more, which can be taken back.
LEMMA RetractStarts ==
  ASSUME NEW b, NEW k, NEW f, Answer(b, k, f), f.ret = 0, NEW used
  PROVE  Start(b, k, Retract(f, used))
<1>1. f.then = "return" /\ Held(b, f) /\ f.buf # <<>> /\ Longer(b, k, f) /\ KeyIs(f, k)
  BY DEF Answer, Settled
<1>. DEFINE p == Pop(f)
<1>2. Len(f.buf) = Len(b) + 1 /\ f.changePos = Len(b) + 1 /\ Len(b) \in Nat /\ DOMAIN f = EngineFields
  BY <1>1, HeldHas DEF Longer
<1>3. /\ Held(b, p) /\ p.buf = Front(f.buf) /\ Len(p.buf) = Len(f.buf) - 1 /\ p.changePos = f.changePos
      /\ p.ev = f.ev /\ p.then = f.then /\ DOMAIN p = EngineFields
  BY <1>1, <1>2, HeldPop
<1>. DEFINE r == Retract(f, used)
<1>4. r = [p EXCEPT !.telexW = used]
  BY <1>1, <1>2 DEF Retract, Pop, EngineFields
<1>. HIDE DEF p, r
<1>5. /\ DOMAIN r = EngineFields /\ r.buf = p.buf /\ r.keys = p.keys /\ r.changePos = p.changePos
      /\ r.backs = p.backs /\ r.written = p.written /\ r.esc = p.esc /\ r.ctl = p.ctl /\ r.ev = p.ev /\ r.then = p.then
  BY <1>3, <1>4 DEF EngineFields
<1>6. Whole(b, p)
  BY <1>2, <1>3 DEF Whole
<1>7. Whole(b, r)
  BY <1>3, <1>5, <1>6, HeldEvent
<1>. QED  BY <1>1, <1>3, <1>5, <1>7 DEF Start, KeyIs, r

\* processTelexW.
LEMMA TelexWAnswers ==
  ASSUME NEW b, NEW k, PlainKey(k), getCharType(k) # "Vn", NEW c, ~c.options.autoNonVnRestore, NEW n, NEW m,
         NEW e, Ready(c, n, m, e), Start(b, k, e)
  PROVE  Answer(b, k, processTelexW(e))
<1>. DEFINE first == TelexWAs(e, e.telexW)
            used == ~e.telexW
            r == Retract(first, used)
<1>1. Outcome(c, n, m, first) /\ Answer(b, k, first)
  BY TelexWAsDone, TelexWAsAnswers
<1>2. processTelexW(e) = IF first.ret # 0 THEN first ELSE TelexWAs(r, used)
  BY DEF processTelexW, TelexWAgain
<1>. HIDE DEF first, used
<1>3. ASSUME first.ret = 0  PROVE Answer(b, k, TelexWAs(r, used))
  <2>1. /\ EngineOK(first) /\ first.then = "return" /\ EventOK(first.ev) /\ Len(first.keys) = m
        /\ first.ctl = c /\ first.buf # <<>> /\ Len(first.buf) = n + 1
    BY <1>1, <1>3 DEF Outcome
  <2>. DEFINE d == Front(first.buf)
  <2>2. Items("word", d) /\ Len(d) = Len(first.buf) - 1
    BY <2>1, ItemsFront DEF EngineOK
  <2>. HIDE DEF d
  <2>3. r = [first EXCEPT !.buf = d, !.telexW = used]
    BY <2>1 DEF Retract, d
  <2>s. Start(b, k, r)
    BY <1>1, <1>3, RetractStarts
  <2>. HIDE DEF r
  <2>4. /\ DOMAIN r = EngineFields /\ r.buf = d /\ r.keys = first.keys /\ r.ev = first.ev
        /\ r.then = first.then /\ r.ctl = first.ctl
    BY <2>1, <2>3 DEF EngineOK, EngineFields
  <2>5. n \in Nat /\ m \in Nat
    BY ReadyHas
  <2>6. Len(d) = n
    BY <2>1, <2>2, <2>5
  <2>7. Ready(c, n, m, r)
    BY <2>1, <2>2, <2>4, <2>5, <2>6 DEF Ready, EngineOK
  <2>. QED  BY <2>7, <2>s, TelexWAsAnswers
<1>. QED  BY <1>1, <1>2, <1>3

\* A key press as its handler finds it.
Asked(b, k, e) ==
  /\ Whole(b, e) /\ e.then = "return" /\ e.ev.type \notin {"EscChar", "Hook_u", "Hook_o"}
  /\ e.ev.type \in {"telex_w", "MapChar"} => getCharType(k) # "Vn"
  /\ e.ev.type # "MapChar" => KeyIs(e, k)
  /\ e.ev.type = "MapChar" => e.ev.key = k /\ \E sym, caps : e.ev.sym = Symbol(sym, caps, 0)

\* Whatever the key means.
LEMMA HandledAnswers ==
  ASSUME NEW b, NEW k, PlainKey(k), NEW c, ~c.options.autoNonVnRestore, NEW n, NEW m,
         NEW e, Ready(c, n, m, e), Asked(b, k, e)
  PROVE  Answer(b, k, Handled(e, FALSE)) /\ Outcome(c, n, m, Handled(e, FALSE))
<1>1. Handled(e, FALSE) = Finish(UkKeyProc(e))
  BY DEF Handled
<1>2. Outcome(c, n, m, Handled(e, FALSE)) /\ Done(c, n, m, UkKeyProc(e))
  BY HandledDone, KeyProcDone
<1>3. e.ev.type \in EventTypes /\ DOMAIN e.ev = EvFields /\ (e.ev.type = "MapChar" => e.ev.ch = "Vn")
  BY ReadyHas DEF EventOK, EvFields
<1>4. Taken(b, k, UkKeyProc(e))
  <2>1. CASE e.ev.type = "MapChar"
    <3>1. UkKeyProc(e) = processMapChar(e)
      BY <2>1 DEF UkKeyProc, RoofEvents, HookEvents, ToneEvents
    <3>. PICK sym, caps : e.ev.sym = Symbol(sym, caps, 0)
      BY <2>1 DEF Asked
    <3>2. Whole(b, e) /\ e.then = "return" /\ e.ev.key = k /\ e.ev.type # "Normal" /\ getCharType(k) # "Vn"
      BY <2>1 DEF Asked
    <3>. QED  BY <1>3, <2>1, <3>1, <3>2, MapCharTaken
  <2>2. CASE e.ev.type = "telex_w"
    <3>1. UkKeyProc(e) = processTelexW(e)
      BY <2>2 DEF UkKeyProc, RoofEvents, HookEvents, ToneEvents
    <3>2. Start(b, k, e) /\ getCharType(k) # "Vn"
      BY <2>2 DEF Asked, Start
    <3>3. Answer(b, k, processTelexW(e))
      BY <3>2, TelexWAnswers
    <3>. QED  BY <3>1, <3>3 DEF Taken
  <2>3. CASE e.ev.type \notin {"MapChar", "telex_w"}
    <3>1. Start(b, k, e) /\ e.ev.type \notin {"EscChar", "Hook_u", "Hook_o"}
      BY <2>3 DEF Asked, Start
    <3>2. \/ e.ev.type = "Normal" /\ UkKeyProc(e) = AsText(e)
          \/ e.ev.type # "Normal" /\ UkKeyProc(e) \in {processRoof(e), processHook(e), processTone(e), processDd(e)}
      BY <1>3, <2>3, <3>1 DEF UkKeyProc, EventTypes, RoofEvents, HookEvents, ToneEvents
    <3>3. Taken(b, k, AsText(e))
      BY <3>1, TextTaken
    <3>4. e.ev.type # "Normal" => /\ Taken(b, k, processRoof(e)) /\ Taken(b, k, processHook(e))
                                  /\ Taken(b, k, processTone(e)) /\ Taken(b, k, processDd(e))
      BY <3>1, RoofTaken, HookTaken, ToneTaken, DdTaken
    <3>. QED  BY <3>2, <3>3, <3>4
  <2>. QED  BY <2>1, <2>2, <2>3
<1>5. Answer(b, k, Finish(UkKeyProc(e)))
  BY <1>2, <1>4, TakenAnswers
<1>. QED  BY <1>1, <1>2, <1>5

-----------------------------------------------------------------------------
(* A letter that starts a word of its own. *)

\* The last entry is replaced.
WithLast(c, w) == [c EXCEPT ![Len(c)] = w]

\* The others stay where they are.
LEMMA LastReplaced ==
  ASSUME NEW c, Items("word", c), c # <<>>, NEW w, IsWord(w)
  PROVE  LET d == WithLast(c, w)
         IN  /\ Items("word", d) /\ Len(d) = Len(c) /\ d[Len(c)] = w
             /\ \A j \in 1 .. Len(c) : j # Len(c) => d[j] = c[j]
             /\ \A j \in 1 .. Len(c) : SameBone(d[j], Append(Front(c), w)[j])
<1>. PICK d : d = WithLast(c, w)
  OBVIOUS
<1>1. Len(c) \in Nat /\ DOMAIN c = 1 .. Len(c) /\ Len(c) >= 1
  BY ItemsLength
<1>0. Len(c) \in 1 .. Len(c) => IsItem("word", w)
  BY DEF IsItem
<1>. PICK n : n = Len(c)
  OBVIOUS
<1>a. d = [c EXCEPT ![n] = w] /\ n \in Nat /\ DOMAIN c = 1 .. n /\ n >= 1
  BY <1>1 DEF WithLast
<1>2. Items("word", d) /\ Len(d) = n
  <2>1. LET x == [c EXCEPT ![n] = w] IN Items("word", x) /\ Len(x) = Len(c)
    <3>1. n \in 1 .. Len(c) => IsItem("word", w)
      BY <1>0
    <3>2. Items("word", c)
      OBVIOUS
    <3>. QED  BY ONLY <3>1, <3>2, ItemsReplace
  <2>. QED  BY ONLY <1>a, <2>1, n = Len(c)
<1>3. d[n] = w /\ \A j \in 1 .. n : j # n => d[j] = c[j]
  BY ONLY <1>a
<1>. PICK f : f = Front(c)
  OBVIOUS
<1>4. Items("word", f) /\ Len(f) = Len(c) - 1 /\ \A j \in 1 .. Len(c) - 1 : f[j] = c[j]
  BY FrontEntries
<1>5. Append(f, w)[Len(c)] = w /\ \A j \in 1 .. Len(f) : Append(f, w)[j] = f[j]
  BY <1>1, <1>4, AppendEntries
<1>6. ASSUME NEW j \in 1 .. n  PROVE d[j] = Append(f, w)[j]
  <2>1. j = n \/ j \in 1 .. n - 1
    BY <1>1
  <2>. QED  BY <1>1, <1>3, <1>4, <1>5, <2>1
<1>. QED  BY <1>2, <1>3, <1>6 DEF SameBone

\* What a call is to leave: a macro's text, or a buffer the text is known for.
Shows(b, k, g) ==
  \/ g.buf = <<>> /\ g.ret # 0 /\ g.esc = FALSE
  \/ /\ Held(b, g) /\ g.buf # <<>>
     /\ g.ret # 0 => g.changePos <= Len(g.buf)
     /\ g.ret = 0 => Longer(b, k, g)

\* The last entry becomes the first letter of a word: the text does not see it.
LastAs(e, w) == [e EXCEPT !.buf = WithLast(e.buf, w)]

\* The buffer stays in shape, and the text is tracked as before.
LEMMA StartedHolds ==
  ASSUME NEW b, NEW k, NEW e, Held(b, e), e.buf # <<>>, Top(e).form = "nonVn",
         NEW new, \/ /\ Top(e).sym \in Vowels
                     /\ new = Word("v", -1, 0, -1, lookupVSeq(<<Top(e).sym>>), Top(e))
                  \/ new = Word("c", 0, -1, -1, lookupCSeq(<<Top(e).sym>>), Top(e))
  PROVE  LET f == LastAs(e, new)
         IN  /\ Held(b, f) /\ Len(f.buf) = Len(e.buf) /\ f.changePos = e.changePos
             /\ \A j \in 1 .. Len(e.buf) : Face(f.buf[j]) = Face(e.buf[j])
<1>. PICK f : f = LastAs(e, new)
  OBVIOUS
<1>. DEFINE c == e.buf
            n == Len(c)
            w == Top(e)
<1>1. /\ Kept(b, e) /\ Items("word", c) /\ Shaped(c) /\ DOMAIN e = EngineFields /\ n \in 1 .. n /\ n \in Nat
  BY HeldHas
<1>2. w = c[n] /\ IsWord(w)
  <2>1. w = c[n]
    BY DEF Top
  <2>2. IsWord(c[n])
    BY <1>1 DEF Items, IsItem
  <2>. HIDE DEF w, n, c
  <2>. QED  BY ONLY <2>1, <2>2
<1>. PICK d : d = WithLast(c, new)
  OBVIOUS
<1>3. /\ DOMAIN f = EngineFields /\ f.buf = d /\ f.keys = e.keys /\ f.changePos = e.changePos
      /\ f.backs = e.backs /\ f.written = e.written /\ f.esc = e.esc /\ f.ctl = e.ctl
  BY <1>1 DEF EngineFields, LastAs
<1>. PICK a : a = Front(c)
  OBVIOUS
<1>4. Items("word", a) /\ Shaped(a) /\ Len(a) = n - 1
  BY <1>1, FrontEntries, ShapedFront
<1>5. Shaped(Append(a, new)) /\ IsWord(new) /\ Face(new) = Face(w)
  <2>1. CASE w.sym \in Vowels /\ new = Word("v", -1, 0, -1, lookupVSeq(<<w.sym>>), w)
    <3>1. /\ IsWord(new) /\ new.form = "v" /\ new.c1 = -1 /\ new.v = 0 /\ new.seq = lookupVSeq(<<w.sym>>)
          /\ new.sym = w.sym /\ Face(new) = Symbol(w.sym, w.caps, w.tone)
      BY <2>1, WordHas DEF Forms
    <3>. HIDE DEF w
    <3>2. Shaped(Append(a, new))
      BY <1>4, <2>1, <3>1, VowelShape
    <3>. QED  BY <3>1, <3>2 DEF Face
  <2>2. CASE new = Word("c", 0, -1, -1, lookupCSeq(<<w.sym>>), w)
    <3>. HIDE DEF w
    <3>. PICK cs : cs = lookupCSeq(<<w.sym>>)
      OBVIOUS
    <3>1. cs # "gin" /\ new = Word("c", 0, -1, -1, cs, w)
      BY <2>2, ConsonantAlone
    <3>2. Shaped(Append(a, new)) /\ IsWord(new) /\ Face(new) = Symbol(w.sym, w.caps, w.tone)
      BY <1>4, <3>1, OnsetShape
    <3>. QED  BY <3>2 DEF Face
  <2>. QED  BY <2>1, <2>2
<1>. HIDE DEF w
<1>6. /\ Items("word", d) /\ Len(d) = n /\ d[n] = new
      /\ \A j \in 1 .. n : j # n => d[j] = c[j]
      /\ \A j \in 1 .. n : SameBone(d[j], Append(a, new)[j])
  <2>1. c # <<>> /\ d = WithLast(c, new) /\ a = Front(c) /\ IsWord(new) /\ Items("word", c)
    BY <1>1, <1>5
  <2>. HIDE DEF c
  <2>2. /\ Items("word", d) /\ Len(d) = Len(c) /\ d[Len(c)] = new
        /\ \A j \in 1 .. Len(c) : j # Len(c) => d[j] = c[j]
        /\ \A j \in 1 .. Len(c) : SameBone(d[j], Append(Front(c), new)[j])
    BY ONLY <2>1, LastReplaced
  <2>. QED  BY ONLY <2>1, <2>2
<1>7. Shaped(d)
  <2>1. Items("word", Append(a, new)) /\ Len(Append(a, new)) = n
    BY <1>1, <1>4, <1>5, ItemsAppend DEF IsItem
  <2>. HIDE DEF n, c
  <2>. QED  BY <1>5, <1>6, <2>1, ShapedSame
<1>8. \A j \in 1 .. n : Face(d[j]) = Face(c[j])
  BY <1>2, <1>5, <1>6
<1>9. Kept(b, f)
  <2>1. e.changePos <= Len(f.buf) + 1 /\ \A i \in 1 .. e.changePos - 1 : i \in 1 .. n
    BY <1>1, <1>3, <1>6, KeptHas
  <2>2. \A i \in 1 .. e.changePos - 1 : Face(f.buf[i]) = Face(e.buf[i])
    BY <1>3, <1>8, <2>1
  <2>3. Items("word", f.buf) /\ Kept(b, e)
    BY <1>1, <1>3, <1>6
  <2>. HIDE DEF n, c
  <2>. QED  BY ONLY <2>3, <1>3, <2>1, <2>2, KeptBuf
<1>. QED  BY <1>3, <1>6, <1>7, <1>8, <1>9 DEF Held

\* processNoSpellCheck.
LEMMA SpeltShows ==
  ASSUME NEW b, NEW k, NEW f, Answer(b, k, f)
  PROVE  Shows(b, k, Spelt(f))
<1>1. CASE Spelt(f) = f
  BY <1>1 DEF Answer, Settled, Shows
<1>2. CASE /\ Spelt(f) = processNoSpellCheck(f)
           /\ f.buf # <<>> /\ Top(f).form = "nonVn" /\ f.ev.ch = "Vn"
  <2>1. Settled(b, k, f) /\ Held(b, f)
    BY <1>2 DEF Answer, Settled
  <2>. DEFINE w == Top(f)
              n == Len(f.buf)
              new == IF w.sym \in Vowels THEN Word("v", -1, 0, -1, lookupVSeq(<<w.sym>>), w)
                                         ELSE Word("c", 0, -1, -1, lookupCSeq(<<w.sym>>), w)
              s == [f EXCEPT !.buf[n] = new]
              alone == f.ev.type = "Normal" /\ isalpha(f.ev.key)
  <2>2. Spelt(f) = IF alone THEN Ret(s, 0) ELSE Ret(markChange(s, n), 1)
    <3>1. f.ev.sym.tone = 0
      BY <2>1 DEF Settled
    <3>. QED  BY <1>2, <3>1 DEF processNoSpellCheck
  <2>3. \/ w.sym \in Vowels /\ new = Word("v", -1, 0, -1, lookupVSeq(<<w.sym>>), w)
        \/ new = Word("c", 0, -1, -1, lookupCSeq(<<w.sym>>), w)
    OBVIOUS
  <2>. HIDE DEF new
  <2>4. /\ Held(b, s) /\ Len(s.buf) = n /\ s.changePos = f.changePos
        /\ \A j \in 1 .. n : Face(s.buf[j]) = Face(f.buf[j])
    <3>1. s = LastAs(f, new)
      BY DEF WithLast, LastAs
    <3>. HIDE DEF s
    <3>2. f.buf # <<>> /\ Top(f).form = "nonVn"
      BY <1>2
    <3>3. /\ Held(b, s) /\ Len(s.buf) = Len(f.buf) /\ s.changePos = f.changePos
          /\ \A j \in 1 .. Len(f.buf) : Face(s.buf[j]) = Face(f.buf[j])
      BY ONLY <2>1, <2>3, <3>1, <3>2, StartedHolds
    <3>. QED  BY <3>3
  <2>. HIDE DEF s
  <2>5. n \in Nat /\ n >= 1 /\ Kept(b, s) /\ Len(b) \in Nat
    BY <1>2, <2>1, <2>4, HeldHas
  <2>6. s.buf # <<>>
    BY <2>4, <2>5, HeldHas
  <2>7. CASE alone
    <3>1. Longer(b, k, f)
      BY <1>2, <2>1, <2>7 DEF Settled, IsLetter
    <3>2. Len(b) + 1 \in 1 .. n
      BY <2>5, <3>1 DEF Longer
    <3>. DEFINE g == Ret(s, 0)
    <3>3. Held(b, g) /\ g.ret = 0 /\ g.buf = s.buf /\ g.changePos = s.changePos
      BY <2>4, <2>5, HeldRet
    <3>. HIDE DEF g, n
    <3>4. Longer(b, k, g)
      BY <2>4, <3>1, <3>2, <3>3 DEF Longer, n
    <3>5. Shows(b, k, g)
      BY <2>6, <3>3, <3>4 DEF Shows
    <3>. QED  BY <2>2, <2>7, <3>5 DEF g
  <2>8. CASE ~alone
    <3>. DEFINE m == markChange(s, n)
    <3>1. Kept(b, m) /\ m.buf = s.buf /\ m.changePos = (IF n < s.changePos THEN n ELSE s.changePos) /\ Held(b, m)
      BY <2>4, <2>5, KeptMark
    <3>. HIDE DEF m
    <3>. DEFINE g == Ret(m, 1)
    <3>2. Held(b, g) /\ g.ret = 1 /\ g.buf = m.buf /\ g.changePos = m.changePos
      BY <3>1, HeldRet
    <3>3. g.changePos <= Len(g.buf)
      BY <2>4, <2>5, <3>1, <3>2, HeldHas
    <3>. HIDE DEF g
    <3>4. Shows(b, k, g)
      BY <2>6, <3>1, <3>2, <3>3 DEF Shows
    <3>. QED  BY <2>2, <2>8, <3>4 DEF g, m
  <2>. QED  BY <2>7, <2>8
<1>. QED  BY <1>1, <1>2 DEF Spelt

-----------------------------------------------------------------------------
(* The keys a client sends. *)

\* What is assumed of the client: nothing is restored, its keys are of ASCII, none of them is
\* the escape character or the hook of one letter, and a key that stands for a letter of
\* Vietnamese is no such letter itself.
PlainClient ==
  /\ NothingRestored
  /\ Keys \cap AscKeys = {}
  /\ \A m \in Methods, k \in Keys :
        /\ Event(m, k) \notin {"EscChar", "Hook_u", "Hook_o"}
        /\ Event(m, k) \in DOMAIN MapChars \cup {"telex_w"} => getCharType(k) # "Vn"

\* Its symbol is a letter without a tone.
LEMMA KeySent ==
  ASSUME NEW k \in KeyCodes, k \notin AscKeys
  PROVE  /\ \E sym, caps : KeySymbols[k] = Symbol(sym, caps, 0) /\ sym \notin {"ar", "ab", "er", "or"}
         /\ KeySymbols[k].tone = 0 /\ Shown(KeySymbols[k]) = KeySymbols[k]
<1>1. \A i \in 1 .. 26 : AZLexiLower[i] \notin {"ar", "ab", "er", "or"}
  BY DEF AZLexiLower
<1>2. {"ar", "ab", "er", "or"} \cap (Digits \cup WordBreakSyms \cup {"~", "grave", "^", "RET"}) = {}
  BY DEF Digits, WordBreakSyms
<1>3. \A x \in Lower : x \notin {"ar", "ab", "er", "or"}
  BY <1>1 DEF Lower
<1>4. \E sym, caps : KeySymbols[k] = Symbol(sym, caps, 0) /\ sym \notin {"ar", "ab", "er", "or"}
  <2>1. KeySymbols[k] = CASE k \in Lower -> Symbol(k, FALSE, 0)
          [] k \in Upper -> Symbol(AZLexiLower[CHOOSE j \in 1 .. 26 : AZLexiUpper[j] = k], TRUE, 0)
          [] k \in AscKeys -> LET row == CHOOSE r \in AscVnLexi : r[1] = k
                              IN  Symbol(row[2], row[4], row[3])
          [] OTHER -> Symbol(k, FALSE, 0)
    BY DEF KeySymbols
  <2>2. CASE k \in Lower
    <3>1. KeySymbols[k] = Symbol(k, FALSE, 0) \/ k \in Upper
      BY <2>1, <2>2
    <3>2. k \notin Upper
      BY <2>2 DEF Lower, Upper, AZLexiLower, AZLexiUpper
    <3>. QED  BY <1>3, <2>2, <3>1, <3>2
  <2>3. CASE k \in Upper
    <3>. PICK i : i = CHOOSE j \in 1 .. 26 : AZLexiUpper[j] = k
      OBVIOUS
    <3>1. i \in 1 .. 26
      BY <2>3 DEF Upper
    <3>2. k \notin Lower
      BY <2>3 DEF Lower, Upper, AZLexiLower, AZLexiUpper
    <3>3. KeySymbols[k] = Symbol(AZLexiLower[i], TRUE, 0)
      BY <2>1, <2>3, <3>2
    <3>. QED  BY <1>1, <3>1, <3>3
  <2>4. CASE k \notin Lower /\ k \notin Upper
    <3>1. KeySymbols[k] = Symbol(k, FALSE, 0)
      BY <2>1, <2>4
    <3>2. k \in Digits \cup WordBreakSyms \cup {"~", "grave", "^", "RET"}
      BY <2>4 DEF KeyCodes
    <3>. QED  BY <1>2, <3>1, <3>2
  <2>. QED  BY <2>2, <2>3, <2>4
<1>5. KeySymbols[k].tone = 0 /\ Shown(KeySymbols[k]) = KeySymbols[k]
  BY <1>4 DEF Symbol, Shown
<1>. QED  BY <1>4, <1>5

\* It is one unit of the text, whatever the charset is.
LEMMA KeyText ==
  ASSUME NEW k \in KeyCodes, k \notin AscKeys, NEW w, Face(w) = Shown(KeySymbols[k]), NEW cs
  PROVE  Units(cs, w) = Raw(<<k>>)
<1>. PICK sym, caps : KeySymbols[k] = Symbol(sym, caps, 0) /\ sym \notin {"ar", "ab", "er", "or"}
  BY KeySent
<1>1. w.sym = sym /\ w.tone = 0 /\ Face(w) = KeySymbols[k]
  BY KeySent DEF Face, Symbol
<1>2. Width(cs, w) = 1
  BY <1>1 DEF Width
<1>3. Units(cs, w) = [j \in 1 .. 1 |-> <<KeySymbols[k], j>>]
  BY <1>1, <1>2 DEF Units
<1>4. Raw(<<k>>) = [i \in 1 .. 1 |-> <<KeySymbols[k], 1>>]
  <2>1. DOMAIN <<k>> = 1 .. 1 /\ \A i \in 1 .. 1 : <<k>>[i] = k
    OBVIOUS
  <2>. QED  BY <2>1 DEF Raw
<1>5. \A i \in 1 .. 1 : <<KeySymbols[k], i>> = <<KeySymbols[k], 1>>
  OBVIOUS
<1>. QED  BY <1>3, <1>4, <1>5

\* What a key means, for such a client.
LEMMA KeyMeans ==
  ASSUME PlainClient, NEW m \in Methods, NEW k \in Keys, getCharType(k) # "Reset",
         NEW ev, ev = keyCodeToEvent(m, k)
  PROVE  /\ PlainKey(k) /\ ev.type \notin {"EscChar", "Hook_u", "Hook_o"} /\ ev.key = k
         /\ ev.type \in {"telex_w", "MapChar"} => getCharType(k) # "Vn"
         /\ ev.type # "MapChar" => ev.sym = KeySymbols[k] /\ ev.ch = getCharType(k)
         /\ ev.type = "MapChar" => \E sym, caps : ev.sym = Symbol(sym, caps, 0)
<1>. DEFINE text == keyCodeToSymbol(k)
            type == Event(m, k)
<1>1. k \in KeyCodes /\ k \notin AscKeys
  BY KeysAssumption DEF PlainClient
<1>2. PlainKey(k)
  BY <1>1, KeySent DEF PlainKey
<1>3. type \notin {"EscChar", "Hook_u", "Hook_o"} /\ (type \in DOMAIN MapChars \cup {"telex_w"} => getCharType(k) # "Vn")
  BY DEF PlainClient
<1>4. ev = Meaning(text, type)
  BY DEF keyCodeToEvent
<1>5. /\ DOMAIN text = {"type", "ch", "key", "sym", "tone"}
      /\ text.type = "Normal" /\ text.ch = getCharType(k) /\ text.key = k /\ text.sym = KeySymbols[k]
  BY TextEvent DEF keyCodeToSymbol
<1>6. type \in UkEvLabelList \cup {"Normal"}
  BY MethodsAssumption DEF Event
<1>. HIDE DEF text, type
<1>7. ToneEvents \cap DOMAIN MapChars = {} /\ "MapChar" \notin UkEvLabelList
  BY DEF ToneEvents, MapChars, MapCharRows, UkEvLabelList, RoofEvents, HookEvents
<1>8. CASE type \in ToneEvents
  <2>1. ev = [text EXCEPT !.type = type, !.tone = ToneOf(type)]
    BY <1>4, <1>7, <1>8 DEF Meaning
  <2>2. ev.type = type /\ ev.key = k /\ ev.sym = KeySymbols[k] /\ ev.ch = getCharType(k)
    BY <1>5, <2>1
  <2>3. type \notin {"telex_w", "MapChar", "EscChar", "Hook_u", "Hook_o"}
    BY <1>8 DEF ToneEvents
  <2>. QED  BY <1>2, <2>2, <2>3
<1>9. CASE type \in DOMAIN MapChars
  <2>0. ev = [text EXCEPT !.type = "MapChar", !.ch = "Vn", !.sym = MapChars[type]]
    BY <1>4, <1>7, <1>9 DEF Meaning
  <2>1. ev.type = "MapChar" /\ ev.key = k /\ ev.sym = MapChars[type]
    BY <1>5, <2>0
  <2>2. \E sym, caps : MapChars[type] = Symbol(sym, caps, 0)
    <3>. DEFINE row == CHOOSE r \in MapCharRows : r[1] = type
    <3>1. MapChars[type] = Symbol(row[2], row[3], 0)
      BY <1>9 DEF MapChars
    <3>. QED  BY <3>1
  <2>. QED  BY <1>2, <1>3, <1>9, <2>1, <2>2
<1>10. CASE type \notin ToneEvents /\ type \notin DOMAIN MapChars
  <2>1. ev = [text EXCEPT !.type = type]
    BY <1>4, <1>10 DEF Meaning
  <2>2. ev.type = type /\ ev.key = k /\ ev.sym = KeySymbols[k] /\ ev.ch = getCharType(k)
    BY <1>5, <2>1
  <2>3. type # "MapChar"
    BY <1>6, <1>7
  <2>. QED  BY <1>2, <1>3, <2>2, <2>3
<1>. QED  BY <1>8, <1>9, <1>10

-----------------------------------------------------------------------------
(* The client's text. *)

\* What a call has put in the place of what it took back is the text of its buffer.
LEMMA TextApplied ==
  ASSUME NEW b, NEW f, Held(b, f), NEW cs, cs = f.ctl.charset
  PROVE  Apply(Render(cs, b), f.backs, Render(cs, SubSeq(f.buf, f.changePos, Len(f.buf)))) = Render(cs, f.buf)
<1>1. /\ Kept(b, f) /\ Items("word", f.buf) /\ Items("word", b) /\ Len(f.buf) \in Nat /\ Len(b) \in Nat
      /\ f.changePos \in Int /\ 1 <= f.changePos /\ f.changePos <= Len(b) + 1 /\ f.changePos <= Len(f.buf) + 1
  BY HeldHas
<1>. PICK k \in Int : k = f.changePos - 1
  BY <1>1
<1>2. k \in 0 .. Len(b) /\ k \in 0 .. Len(f.buf) /\ f.changePos = k + 1
  BY <1>1
<1>. DEFINE r == Render(cs, b)
            p == Render(cs, SubSeq(b, 1, k))
            q == Render(cs, SubSeq(b, k + 1, Len(b)))
            s == Render(cs, f.buf)
            u == Render(cs, SubSeq(f.buf, 1, k))
            v == Render(cs, SubSeq(f.buf, k + 1, Len(f.buf)))
<1>a. Items("word", b) /\ k \in 0 .. Len(b)
  BY <1>1, <1>2
<1>b. Items("word", f.buf) /\ k \in 0 .. Len(f.buf)
  BY <1>1, <1>2
<1>3. Len(r) = Len(p) + Len(q) /\ Len(p) \in Nat /\ Len(q) \in Nat /\ SubSeq(r, 1, Len(r) - Len(q)) = p
  <2>1. Splits(cs, b, k)
    BY ONLY <1>a, RenderSplit
  <2>. QED  BY <2>1 DEF Splits
<1>4. s = u \o v
  <2>1. Splits(cs, f.buf, k)
    BY ONLY <1>b, RenderSplit
  <2>. QED  BY <2>1 DEF Splits
<1>5. u = p
  <2>. PICK x, y : x = SubSeq(b, 1, k) /\ y = SubSeq(f.buf, 1, k)
    OBVIOUS
  <2>0. 1 \in 1 .. Len(b) + 1 /\ k \in 1 - 1 .. Len(b) /\ 1 \in 1 .. Len(f.buf) + 1 /\ k \in 1 - 1 .. Len(f.buf)
    BY <1>1, <1>2
  <2>1. Items("word", x) /\ Len(x) = k - 1 + 1 /\ \A i \in 1 .. k - 1 + 1 : x[i] = b[1 + i - 1]
    BY <1>1, <2>0, PartHas
  <2>2. Items("word", y) /\ Len(y) = k - 1 + 1 /\ \A i \in 1 .. k - 1 + 1 : y[i] = f.buf[1 + i - 1]
    BY <1>1, <2>0, PartHas
  <2>3. \A i \in 1 .. k : x[i] = b[i] /\ y[i] = f.buf[i]
    BY <1>2, <2>1, <2>2
  <2>4. \A i \in 1 .. f.changePos - 1 : Face(f.buf[i]) = Face(b[i])
    BY <1>1, KeptHas
  <2>5. Len(x) = k /\ Len(y) = Len(x) /\ \A i \in 1 .. Len(x) : Face(y[i]) = Face(x[i])
    BY <1>2, <2>1, <2>2, <2>3, <2>4
  <2>. QED  BY <2>1, <2>2, <2>5, RenderSame
<1>6. f.backs = Len(q)
  BY <1>1, <1>2 DEF Kept, Tracks
<1>7. v = Render(cs, SubSeq(f.buf, f.changePos, Len(f.buf)))
  BY <1>2
<1>. HIDE DEF r, p, q, s, u, v
<1>8. ~(f.backs > Len(r))
  BY <1>3, <1>6
<1>9. Apply(r, f.backs, v) = p \o v
  BY <1>3, <1>6, <1>8 DEF Apply
<1>. QED  BY <1>4, <1>5, <1>7, <1>9 DEF r, s

\* A key that is let through adds what the buffer has for it.
LEMMA TextTyped ==
  ASSUME NEW b, NEW f, Held(b, f), NEW k \in KeyCodes, k \notin AscKeys, Longer(b, k, f), NEW cs
  PROVE  Render(cs, f.buf) = Render(cs, b) \o Raw(<<k>>)
<1>1. /\ Kept(b, f) /\ Items("word", f.buf) /\ Items("word", b) /\ Len(f.buf) \in Nat /\ Len(b) \in Nat
  BY HeldHas
<1>2. Len(f.buf) = Len(b) + 1 /\ f.changePos = Len(b) + 1 /\ Face(f.buf[Len(b) + 1]) = Shown(KeySymbols[k])
  BY DEF Longer
<1>. PICK c : c = f.buf
  OBVIOUS
<1>. PICK d, w : d = Front(c) /\ w = c[Len(c)]
  OBVIOUS
<1>3. c # <<>> /\ Items("word", c)
  BY <1>1, <1>2, ItemsLength
<1>4. Items("word", d) /\ Len(d) = Len(c) - 1 /\ \A j \in 1 .. Len(c) - 1 : d[j] = c[j]
  BY <1>3, FrontEntries
<1>5. c = Append(d, w) /\ IsWord(w)
  <2>1. 1 \in 1 .. Len(c) /\ Len(c) \in 1 .. Len(c)
    BY <1>1, <1>2
  <2>2. SubSeq(c, 1, Len(c)) = Append(SubSeq(c, 1, Len(c) - 1), c[Len(c)]) /\ IsWord(c[Len(c)])
    BY <1>3, <2>1, PartAppend
  <2>3. SubSeq(c, 1, Len(c)) = c
    BY <1>3 DEF Items
  <2>. QED  BY <2>2, <2>3 DEF Front
<1>6. Render(cs, d) = Render(cs, b)
  <2>1. \A i \in 1 .. f.changePos - 1 : Face(f.buf[i]) = Face(b[i])
    BY <1>1, KeptHas
  <2>2. Len(d) = Len(b) /\ \A i \in 1 .. Len(b) : Face(d[i]) = Face(b[i])
    BY <1>1, <1>2, <1>4, <2>1
  <2>. QED  BY <1>1, <1>4, <2>2, RenderSame
<1>7. Render(cs, Append(d, w)) = Render(cs, d) \o Units(cs, w)
  <2>1. Items("word", d) /\ IsWord(w)
    BY <1>4, <1>5
  <2>. QED  BY ONLY <2>1, RenderMore, ZenonT(30)
<1>8. Units(cs, w) = Raw(<<k>>)
  BY <1>2, KeyText
<1>. QED  BY <1>5, <1>6, <1>7, <1>8

\* A change is seen: it puts something in the text.
LEMMA OutputShown ==
  ASSUME NEW b, NEW f, Held(b, f)
  PROVE  /\ Output(f) = Render(f.ctl.charset, SubSeq(f.buf, f.changePos, Len(f.buf)))
         /\ f.changePos <= Len(f.buf) => Output(f) # <<>>
<1>1. /\ Kept(b, f) /\ Items("word", f.buf) /\ Len(f.buf) \in Nat /\ f.changePos \in Int /\ 1 <= f.changePos
  BY HeldHas
<1>2. Output(f) = Render(f.ctl.charset, SubSeq(f.buf, f.changePos, Len(f.buf)))
  BY <1>1 DEF Output, Kept, Tracks
<1>3. ASSUME f.changePos <= Len(f.buf)  PROVE Output(f) # <<>>
  <2>. PICK c, a, n, cs : c = f.buf /\ a = f.changePos /\ n = Len(f.buf) /\ cs = f.ctl.charset
    OBVIOUS
  <2>1. a \in 1 .. Len(c) /\ n \in a .. Len(c) /\ Items("word", c) /\ n - 1 \in a - 1 .. Len(c) /\ a \in 1 .. Len(c) + 1
    BY <1>1, <1>3
  <2>. PICK d, w : d = SubSeq(c, a, n - 1) /\ w = c[n]
    OBVIOUS
  <2>2. SubSeq(c, a, n) = Append(d, w) /\ IsWord(w)
    BY <2>1, PartAppend
  <2>3. Items("word", d)
    BY <2>1, PartHas
  <2>4. Len(Render(cs, d)) \in Nat /\ Len(Render(cs, Append(d, w))) = Len(Render(cs, d)) + Width(cs, w)
    BY <2>2, <2>3, RenderMore
  <2>5. Width(cs, w) \in {1, 2}
    BY UnitsSeq
  <2>6. Len(Render(cs, Append(d, w))) # 0
    BY <2>4, <2>5
  <2>7. Len(<<>>) = 0
    OBVIOUS
  <2>. QED  BY <1>2, <2>2, <2>6, <2>7
<1>. QED  BY <1>2, <1>3

\* The client applies an answer.
After(text, k, f) == IF Silent(f) THEN text \o Raw(<<k>>) ELSE Apply(text, f.backs, Output(f))

\* So the client's text is that of the buffer again.
LEMMA ClientShows ==
  ASSUME NEW b, NEW k \in KeyCodes, k \notin AscKeys, NEW f, Shows(b, k, f), f.buf # <<>>, NEW cs, cs = f.ctl.charset,
         NEW text, text = After(Render(cs, b), k, f)
  PROVE  text = Render(cs, f.buf)
<1>1. Held(b, f) /\ (f.ret # 0 => f.changePos <= Len(f.buf)) /\ (f.ret = 0 => Longer(b, k, f))
  BY DEF Shows
<1>2. CASE f.ret = 0
  BY <1>1, <1>2, TextTyped DEF Silent, After
<1>3. CASE f.ret # 0
  <2>1. ~Silent(f) /\ Output(f) = Render(cs, SubSeq(f.buf, f.changePos, Len(f.buf)))
    BY <1>1, <1>3, OutputShown DEF Silent
  <2>. QED  BY <1>1, <2>1, TextApplied DEF After
<1>. QED  BY <1>2, <1>3

-----------------------------------------------------------------------------
(* What a call finds. *)

\* prepareBuffer leaves the buffer, or what follows a word break, or nothing.
LEMMA PreparedBufIs ==
  ASSUME NEW e, EngineOK(e)
  PROVE  \/ PreparedBuf(e) = e.buf \/ PreparedBuf(e) = <<>>
         \/ \E k \in 1 .. Len(e.buf) - 1 :
              e.buf[k].form = "empty" /\ PreparedBuf(e) = SubSeq(e.buf, k + 1, Len(e.buf))
<1>. DEFINE T == BreaksInYoungerHalf(e)
            n == Len(e.buf)
<1>1. n \in Nat /\ (e.buf = <<>> <=> n = 0)
  BY EngineLengths
<1>2. CASE ~NearlyFull(e) \/ T = {}
  BY <1>2 DEF PreparedBuf
<1>3. CASE NearlyFull(e) /\ T # {}
  <2>1. n >= 1 /\ T \subseteq 1 .. n - 1 /\ \A i \in T : e.buf[i].form = "empty"
    <3>1. n >= 1
      BY <1>1, <1>3 DEF NearlyFull
    <3>2. PICK h \in Nat : h = (n - 1) \div 2
      <4>1. n - 1 >= 0
        BY <1>1, <3>1
      <4>2. n \in Nat
        BY <1>1
      <4>. HIDE DEF n, T
      <4>3. (n - 1) \div 2 \in Int /\ 2 * ((n - 1) \div 2) >= n - 2
        BY ONLY <4>1, <4>2
      <4>4. (n - 1) \div 2 \in Nat
        BY ONLY <4>1, <4>2, <4>3
      <4>. QED  BY <4>4
    <3>3. T = {i \in h + 1 .. n - 1 : e.buf[i].form = "empty"}
      BY <3>2 DEF BreaksInYoungerHalf
    <3>. HIDE DEF T, n
    <3>. QED  BY ONLY <1>1, <3>1, <3>2, <3>3
  <2>2. PreparedBuf(e) = SubSeq(e.buf, Min(T) + 1, n)
    BY <1>3 DEF PreparedBuf
  <2>3. Min(T) \in T
    <3>1. T \subseteq 0 .. n - 1
      BY <2>1
    <3>. HIDE DEF T, n
    <3>. QED  BY <1>1, <1>3, <3>1, MinAmong
  <2>. HIDE DEF T, n
  <2>. QED  BY <2>1, <2>2, <2>3 DEF n
<1>. QED  BY <1>2, <1>3

\* No entries.
LEMMA NoEntries == Items("word", <<>>) /\ Shaped(<<>>) /\ Len(<<>>) = 0 /\ SubSeq(<<>>, 1, 0) = <<>>
<1>1. <<>> \in Seq({}) /\ Len(<<>>) = 0
  BY EmptySeq
<1>. QED  BY <1>1 DEF Items, Shaped

\* The m entries of b before those of d are dropped, with what the text has for them.
Remains(b, d, m, cs, text) ==
  /\ Items("word", d) /\ Shaped(d)
  /\ (IF b = <<>> \/ m = Len(b) THEN <<>>
      ELSE SubSeq(text, Len(Render(cs, SubSeq(b, 1, m))) + 1, Len(text))) = Render(cs, d)

\* What is left is in shape, and its text is the end of the text there was.
LEMMA PreparedShows ==
  ASSUME NEW e, EngineOK(e), Shaped(e.buf), NEW d, d = PreparedBuf(e), NEW cs, NEW text,
         e.buf # <<>> => text = Render(cs, e.buf),
         NEW m, m = Len(e.buf) - Len(d)
  PROVE  Remains(e.buf, d, m, cs, text)
<1>. SUFFICES /\ Items("word", d) /\ Shaped(d)
              /\ (IF e.buf = <<>> \/ m = Len(e.buf) THEN <<>>
                  ELSE SubSeq(text, Len(Render(cs, SubSeq(e.buf, 1, m))) + 1, Len(text))) = Render(cs, d)
  BY DEF Remains
<1>. PICK b : b = e.buf
  OBVIOUS
<1>1. Items("word", b) /\ Shaped(b) /\ Len(b) \in Nat /\ (b = <<>> <=> Len(b) = 0)
  BY EngineLengths DEF EngineOK
<1>2. CASE d = <<>>
  <2>1. m = Len(b)
    BY <1>1, <1>2, NoEntries
  <2>. QED  BY <1>2, <2>1, NoEntries, RenderEmpty
<1>3. CASE d = b /\ b # <<>>
  <2>1. m = 0 /\ m # Len(b) /\ 0 \in 0 .. Len(b)
    BY <1>1, <1>3
  <2>2. Splits(cs, b, 0)
    BY ONLY <1>1, <2>1, RenderSplit
  <2>3. LET r == Render(cs, b)
            p == Render(cs, SubSeq(b, 1, 0))
            q == Render(cs, SubSeq(b, 0 + 1, Len(b)))
        IN  SubSeq(r, Len(p) + 1, Len(r)) = q
    BY ONLY <2>2 DEF Splits
  <2>4. SubSeq(b, 0 + 1, Len(b)) = b
    BY <1>1 DEF Items
  <2>5. SubSeq(text, Len(Render(cs, SubSeq(b, 1, 0))) + 1, Len(text)) = Render(cs, d)
    BY <1>3, <2>3, <2>4
  <2>. QED  BY <1>1, <1>3, <2>1, <2>5
<1>4. CASE d # <<>> /\ d # b
  <2>. PICK k \in 1 .. Len(b) - 1 : b[k].form = "empty" /\ d = SubSeq(b, k + 1, Len(b))
    BY <1>4, PreparedBufIs
  <2>0. k \in 1 .. Len(b) /\ k \in 0 .. Len(b) /\ k + 1 \in 1 .. Len(b) + 1 /\ Len(b) \in k + 1 - 1 .. Len(b) /\ k # Len(b)
    BY <1>1
  <2>1. Items("word", d) /\ Len(d) = Len(b) - k /\ \A i \in 1 .. Len(b) - k : d[i] = b[k + i]
    <3>1. PICK p \in Int : p = k + 1
      <4>1. k + 1 \in Int
        BY <2>0
      <4>. QED  BY ONLY <4>1
    <3>2. PICK n \in Nat : n = Len(b)
      BY <1>1
    <3>3. p \in 1 .. n + 1 /\ n \in p - 1 .. n /\ Items("word", b) /\ d = SubSeq(b, p, n)
      BY <1>1, <2>0, <3>1, <3>2
    <3>4. /\ Items("word", d) /\ Len(d) = n - p + 1
          /\ \A i \in 1 .. n - p + 1 : d[i] = b[p + i - 1]
      BY ONLY <3>2, <3>3, PartHas
    <3>5. n - p + 1 = n - k
      BY ONLY <3>1, <3>2, <2>0
    <3>6. ASSUME NEW i \in 1 .. n - k  PROVE  d[i] = b[k + i]
      <4>1. p + i - 1 = k + i
        BY ONLY <3>1, <3>2, <3>6, <2>0
      <4>. QED  BY <3>4, <3>5, <4>1
    <3>. QED  BY <3>2, <3>4, <3>5, <3>6
  <2>2. Len(d) = Len(b) - k /\ m = k /\ \A i \in 1 .. Len(b) - k : d[i] = b[k + i]
    BY <1>1, <2>0, <2>1
  <2>3. Shaped(d)
    BY <1>1, <2>0, <2>2, ShapedSuffix
  <2>4. Splits(cs, b, k)
    BY ONLY <1>1, <2>0, RenderSplit
  <2>5. LET r == Render(cs, b)
            p == Render(cs, SubSeq(b, 1, k))
            q == Render(cs, SubSeq(b, k + 1, Len(b)))
        IN  SubSeq(r, Len(p) + 1, Len(r)) = q
    BY ONLY <2>4 DEF Splits
  <2>6. b # <<>> /\ text = Render(cs, b)
    BY <1>1, <2>0
  <2>7. SubSeq(text, Len(Render(cs, SubSeq(b, 1, m))) + 1, Len(text)) = Render(cs, d)
    BY <2>2, <2>5, <2>6
  <2>. QED  BY <2>0, <2>1, <2>2, <2>3, <2>6, <2>7
<1>5. d = <<>> \/ (d = b /\ b # <<>>) \/ (d # <<>> /\ d # b)
  OBVIOUS
<1>. QED  BY <1>2, <1>3, <1>4, <1>5

\* An engine at the beginning of a call.
Idle(e) ==
  /\ EngineOK(e) /\ Shaped(e.buf) /\ e.changePos = Len(e.buf) + 1 /\ e.backs = 0 /\ e.written = FALSE
  /\ e.out = <<>> /\ e.esc = FALSE /\ e.then = "return"

\* It is what it is said to be.
LEMMA IdleHolds ==
  ASSUME NEW e, Idle(e)
  PROVE  Whole(e.buf, e) /\ Held(e.buf, e)
<1>. PICK b : b = e.buf
  OBVIOUS
<1>1. Items("word", b) /\ Len(b) \in Nat
  BY EngineLengths DEF Idle, EngineOK
<1>2. SubSeq(b, e.changePos, Len(b)) = <<>>
  <2>1. e.changePos = Len(b) + 1
    BY DEF Idle
  <2>2. Len(b) + 1 \in 1 .. Len(b) + 1 /\ Len(b) \in Len(b) + 1 - 1 .. Len(b)
    BY <1>1
  <2>3. PICK n \in Nat : n = Len(b)
    BY <1>1
  <2>4. PICK p \in Int : p = n + 1
    <3>1. n + 1 \in Int
      BY <2>3
    <3>. QED  BY ONLY <3>1
  <2>5. p \in 1 .. n + 1 /\ n \in p - 1 .. n /\ n - p + 1 = 0
    BY ONLY <2>3, <2>4
  <2>6. Items("word", SubSeq(b, p, n)) /\ Len(SubSeq(b, p, n)) = n - p + 1
    BY ONLY <1>1, <2>3, <2>5, PartHas
  <2>. QED  BY <2>1, <2>3, <2>4, <2>5, <2>6, ItemsLength
<1>3. e.backs = Len(Render(e.ctl.charset, SubSeq(b, e.changePos, Len(b))))
  BY <1>2, RenderEmpty, NoEntries DEF Idle
<1>4. Tracks(b, e)
  <2>1. /\ e.changePos \in 1 .. Len(b) + 1 /\ e.changePos <= Len(e.buf) + 1 /\ e.written = FALSE /\ e.esc = FALSE
    BY <1>1 DEF Idle
  <2>. QED  BY <1>3, <2>1 DEF Tracks
<1>. QED  BY <1>1, <1>4 DEF Idle, Held, Kept, Whole

-----------------------------------------------------------------------------
(* A key press. *)

\* Recording a key stroke changes nothing that the text depends on.
LEMMA RecordedShows ==
  ASSUME NEW b, NEW k, NEW f, EngineOK(f), Shows(b, k, f), getCharType(k) # "Reset"
  PROVE  Shows(b, k, Recorded(f, k)) /\ Recorded(f, k).ctl = f.ctl
<1>. DEFINE s == [key |-> k, brk |-> getCharType(k) = "WordBreak", conv |-> f.ret # 0 /\ ~f.restored]
            ks == Append(f.keys, s)
            g == [f EXCEPT !.keys = ks]
<1>1. CASE f.buf = <<>>
  BY <1>1 DEF Recorded
<1>2. CASE f.buf # <<>>
  <2>1. Recorded(f, k) = g
    BY <1>2 DEF Recorded
  <2>2. EngineOK(Recorded(f, k))
    BY RecordedHas
  <2>. HIDE DEF ks
  <2>3. /\ DOMAIN g = EngineFields /\ g.buf = f.buf /\ g.changePos = f.changePos /\ g.backs = f.backs /\ g.ret = f.ret
        /\ g.written = f.written /\ g.esc = f.esc /\ g.ctl = f.ctl
    BY DEF EngineOK, EngineFields
  <2>. HIDE DEF g
  <2>4. Held(b, f)
    BY <1>2 DEF Shows
  <2>5. EngineOK(g) /\ Held(b, g)
    <3>1. EngineOK(g)
      BY <2>1, <2>2
    <3>2. Tracks(b, g)
      BY <2>3, <2>4 DEF Held, Kept, Tracks
    <3>. QED  BY <2>3, <2>4, <3>1, <3>2 DEF Held, Kept
  <2>6. /\ g.ret # 0 => g.changePos <= Len(g.buf)
        /\ g.ret = 0 => Longer(b, k, g)
    BY <1>2, <2>3 DEF Shows, Longer
  <2>. QED  BY <1>2, <2>1, <2>3, <2>5, <2>6 DEF Shows
<1>. QED  BY <1>1, <1>2

\* A key as it is asked for.
LEMMA BegunAsked ==
  ASSUME PlainClient, NEW e, Idle(e), e.ctl.method \in Methods, NEW k \in Keys, getCharType(k) # "Reset",
         NEW p, DOMAIN p = EngineFields, EngineOK(p), p.buf = PreparedBuf(e), p.backs = e.backs, p.written = e.written,
         p.out = e.out, p.then = e.then, p.ctl = e.ctl
  PROVE  LET b == Begun(p, k)
         IN  /\ Asked(p.buf, k, b) /\ Ready(e.ctl, Len(p.buf), Len(p.keys), b)
             /\ PlainKey(k) /\ EngineOK(b)
<1>. DEFINE ev == keyCodeToEvent(p.ctl.method, k)
            b == Begun(p, k)
<1>1. /\ PlainKey(k) /\ ev.type \notin {"EscChar", "Hook_u", "Hook_o"} /\ ev.key = k
      /\ ev.type \in {"telex_w", "MapChar"} => getCharType(k) # "Vn"
      /\ ev.type # "MapChar" => ev.sym = KeySymbols[k] /\ ev.ch = getCharType(k)
      /\ ev.type = "MapChar" => \E sym, caps : ev.sym = Symbol(sym, caps, 0)
  <2>1. p.ctl.method \in Methods
    OBVIOUS
  <2>. QED  BY <2>1, KeyMeans
<1>2. EventOK(ev)
  BY EventMade
<1>. HIDE DEF ev
<1>3. /\ DOMAIN b = EngineFields /\ b.buf = p.buf /\ b.keys = p.keys /\ b.then = p.then /\ b.ctl = p.ctl
      /\ b.ev = ev /\ b.changePos = Len(p.buf) + 1 /\ b.esc = FALSE /\ b.backs = p.backs
      /\ b.written = p.written /\ b.out = p.out
  BY DEF Begun, EngineFields, ev
<1>. HIDE DEF b
<1>4. EngineOK(b)
  BY <1>3 DEF EngineOK
<1>5. Shaped(b.buf)
  <2>1. EngineOK(e) /\ Shaped(e.buf)
    BY DEF Idle
  <2>2. PICK m : m = Len(e.buf) - Len(PreparedBuf(e))
    OBVIOUS
  <2>. PICK cs, text : text = Render(cs, e.buf)
    OBVIOUS
  <2>3. Remains(e.buf, PreparedBuf(e), m, cs, text)
    BY ONLY <2>1, <2>2, text = Render(cs, e.buf), PreparedShows
  <2>4. Shaped(PreparedBuf(e))
    BY <2>3 DEF Remains
  <2>. QED  BY <1>3, <2>4
<1>6. Idle(b)
  BY <1>3, <1>4, <1>5 DEF Idle
<1>7. Whole(b.buf, b)
  BY <1>6, IdleHolds
<1>8. b.then = "return"
  BY <1>3 DEF Idle
<1>9. Asked(p.buf, k, b)
  BY <1>1, <1>3, <1>7, <1>8 DEF Asked, KeyIs, PlainKey
<1>10. Ready(e.ctl, Len(p.buf), Len(p.keys), b)
  <2>1. Len(p.buf) \in Nat /\ Len(p.keys) \in Nat
    BY EngineLengths
  <2>. QED  BY <1>2, <1>3, <1>4, <1>8, <2>1 DEF Ready
<1>. QED  BY <1>1, <1>4, <1>9, <1>10 DEF b

\* A key leaves a buffer whose text is known.
LEMMA ProcessShows ==
  ASSUME PlainClient, NEW e, Idle(e), e.ctl.method \in Methods, ~e.ctl.options.autoNonVnRestore,
         e.buf = buf, e.keys = keys, NEW k \in Keys, getCharType(k) # "Reset"
  PROVE  LET r == process(e, k)
         IN  Shows(PreparedBuf(e), k, r) /\ (r.buf # <<>> => r.ctl = e.ctl)
<1>. DEFINE p == prepareBuffer(e)
            b == Begun(p, k)
            h == Handled(b, e.esc)
            n == Len(p.buf)
            m == Len(p.keys)
            d == PreparedBuf(e)
<1>1. /\ DOMAIN p = EngineFields /\ p.buf = d /\ p.backs = e.backs /\ p.written = e.written
      /\ p.out = e.out /\ p.then = e.then /\ p.ctl = e.ctl
  <2>. HIDE DEF d
  <2>. QED  BY DEF prepareBuffer, EngineOK, EngineFields, Idle, d
<1>2. EngineOK(p)
  BY PreparedAs DEF Idle
<1>3. process(e, k) = Recorded(Spelt(h), k)
  BY DEF process
<1>. HIDE DEF p, d
<1>4. Asked(d, k, b) /\ Ready(e.ctl, n, m, b) /\ PlainKey(k)
  BY <1>1, <1>2, BegunAsked DEF d
<1>5. h = Handled(b, FALSE)
  BY DEF Idle
<1>. HIDE DEF b, n, m, h
<1>6. Answer(d, k, h) /\ Outcome(e.ctl, n, m, h)
  BY <1>4, <1>5, HandledAnswers
<1>7. Shows(d, k, Spelt(h))
  BY <1>6, SpeltShows
<1>8. EngineOK(Spelt(h)) /\ Spelt(h).ctl = h.ctl /\ (Spelt(h).buf # <<>> => h.buf # <<>>)
  <2>1. EngineOK(h)
    BY <1>6 DEF Outcome
  <2>2. Grown(h, Spelt(h), 0)
    BY <2>1, SpeltGrows
  <2>3. Len(h.buf) \in Nat /\ (h.buf = <<>> <=> Len(h.buf) = 0) /\ (Spelt(h).buf = <<>> <=> Len(Spelt(h).buf) = 0)
    BY <2>1, <2>2, EngineLengths DEF Grown
  <2>. QED  BY <2>1, <2>2, <2>3 DEF Grown
<1>9. h.buf # <<>> => h.ctl = e.ctl
  BY <1>6 DEF Outcome
<1>10. Shows(d, k, Recorded(Spelt(h), k)) /\ Recorded(Spelt(h), k).ctl = Spelt(h).ctl
  BY <1>7, <1>8, RecordedShows
<1>11. Recorded(Spelt(h), k).buf = Spelt(h).buf
  BY <1>8, RecordedHas
<1>. QED  BY <1>3, <1>8, <1>9, <1>10, <1>11 DEF d

\* A control code clears it.
LEMMA ProcessResets ==
  ASSUME NEW e, EngineOK(e), e.then = "return", e.esc = FALSE, e.ctl.method \in Methods,
         e.buf = buf, e.keys = keys, NEW k, getCharType(k) = "Reset"
  PROVE  process(e, k).buf = <<>> /\ process(e, k).esc = FALSE
<1>. DEFINE p == prepareBuffer(e)
            ev == keyCodeToEvent(p.ctl.method, k)
            b == Begun(p, k)
            t == AsText(b)
            a == appendSymbol(t)
            h == Handled(b, e.esc)
            r == reset(t)
<1>1. EngineOK(p) /\ p.then = "return" /\ p.ctl = e.ctl
  BY PreparedAs
<1>2. process(e, k) = Recorded(Spelt(h), k)
  BY DEF process
<1>. HIDE DEF p
<1>3. ev.type = "Normal" /\ ev.ch = "Reset"
  BY <1>1, EventMade
<1>. HIDE DEF ev
<1>4. DOMAIN b = EngineFields /\ b.buf = p.buf /\ b.keys = p.keys /\ b.ev = ev
  BY <1>1 DEF Begun, EngineOK, EngineFields, ev
<1>. HIDE DEF b
<1>5. h = Finish(t)
  <2>1. UkKeyProc(b) = AsText(b)
    BY <1>3, <1>4 DEF UkKeyProc, RoofEvents, HookEvents, ToneEvents
  <2>. QED  BY <2>1 DEF Handled
<1>6. DOMAIN t = EngineFields /\ t.buf = b.buf /\ t.keys = b.keys /\ t.ev = b.ev /\ t.then = "append"
  BY <1>4 DEF AsText, EngineFields
<1>. HIDE DEF t, h
<1>7. EngineOK(t)
  BY <1>1, <1>4, <1>6 DEF EngineOK
<1>8. a = Ret(r, 0)
  BY <1>3, <1>4, <1>6 DEF appendSymbol
<1>9. DOMAIN r = EngineFields /\ r.buf = <<>> /\ r.esc = FALSE
  BY <1>6 DEF reset, EngineFields
<1>. HIDE DEF r
<1>10. a.buf = <<>> /\ a.esc = FALSE /\ DOMAIN a = EngineFields
  BY <1>8, <1>9 DEF Ret, EngineFields
<1>11. h = Appending(a, "append")
  BY <1>3, <1>4, <1>5, <1>6 DEF Finish, processAppend
<1>. HIDE DEF a
<1>12. h.buf = <<>> /\ h.esc = FALSE
  BY <1>10, <1>11 DEF Appending, EngineFields
<1>13. Recorded(Spelt(h), k) = h
  BY <1>12 DEF Spelt, Recorded
<1>. QED  BY <1>2, <1>12, <1>13 DEF h

-----------------------------------------------------------------------------
(* A backspace. *)

\* When the tone may have to move, it has a place to come from and one to go to.
LEMMA BackspaceTones ==
  ASSUME NEW b, NEW e, Held(b, e), e.buf # <<>>, NEW n, n = Len(e.buf), n # 1,
         Top(e).form \notin {"empty", "nonVn", "c"}, e.buf[n - 1].form \notin {"c", "vc", "cvc"},
         TonePos(e) # n
  PROVE  LET to == VStart(e) + TonePosition(e, e.buf[n - 1].seq, TRUE)
         IN  hasVowel(e) /\ TonePos(e) \in Int /\ TonePos(e) >= 1 /\ to \in Int /\ to >= 1
<1>. PICK c : c = e.buf
  OBVIOUS
<1>1. Items("word", c) /\ Shaped(c) /\ n \in Nat /\ n = Len(c) /\ n \in 1 .. Len(c) /\ n >= 2 /\ Top(e) = c[n]
  <2>1. Items("word", c) /\ Shaped(c) /\ n \in Nat /\ n # 0
    BY HeldHas
  <2>2. n >= 2 /\ n \in 1 .. n
    BY ONLY <2>1, n # 1
  <2>3. Top(e) = c[n]
    BY DEF Top
  <2>. QED  BY <2>1, <2>2, <2>3
<1>2. PICK m \in Int : m = n - 1
  <2>1. n - 1 \in Int
    BY <1>1
  <2>. QED  BY <2>1
<1>3. m \in 1 .. Len(c)
  BY <1>1, <1>2
<1>4. /\ Chain(c, n, "v") /\ c[n].v \in Int /\ -1 <= c[n].v /\ c[n].v < n
      /\ c[n].form \in {"v", "cv"} <=> c[n].v = 0
      /\ c[n].form \in {"vc", "cvc"} <=> c[n].v >= 1
      /\ c[n].v = 0 => EndsVowels(c, n)
      /\ IsWord(c[n])
  BY ONLY <1>1, ShapeHas
<1>5. /\ c[m].v \in Int /\ -1 <= c[m].v
      /\ c[m].form \in {"v", "cv"} <=> c[m].v = 0
      /\ c[m].form \in {"vc", "cvc"} <=> c[m].v >= 1
      /\ c[m].v = 0 => c[m].seq \in VS
      /\ IsWord(c[m])
  BY ONLY <1>1, <1>3, ShapeHas
<1>6. c[n].v >= 0
  BY <1>1, <1>4 DEF IsWord, Forms
<1>7. hasVowel(e)
  BY <1>1, <1>6 DEF hasVowel
<1>8. CASE c[m].form \in {"v", "cv"}
  <2>1. e.buf[n - 1].seq \in VS
    BY <1>2, <1>5, <1>8
  <2>. QED  BY <1>7, <2>1, TonesFound
<1>9. CASE c[m].form \notin {"v", "cv"}
  <2>1. c[m].v = -1
    BY <1>2, <1>5, <1>9
  <2>2. c[n].v = 0
    <3>. PICK k \in Int : k = c[n].v
      BY <1>4
    <3>1. \A j \in 0 .. k : c[n - j].v = k - j
      BY <1>4 DEF Chain
    <3>2. SUFFICES ASSUME k >= 1  PROVE FALSE
      BY <1>4, <1>6
    <3>3. 1 \in 0 .. k /\ n - 1 = m
      BY <1>2, <3>2
    <3>4. c[m].v = k - 1
      BY <3>1, <3>3
    <3>. QED  BY <2>1, <3>2, <3>4
  <2>. PICK s, L : s = c[n].seq /\ L = VSeqList[s].len
    OBVIOUS
  <2>3. s \in VS /\ \A j \in 1 .. L : c[n - L + j].v = 0
    BY <1>4, <2>2, Zenon DEF EndsVowels
  <2>4. L \in 1 .. 3
    BY <2>3, Rows
  <2>5. L = 1
    <3>1. SUFFICES ASSUME L # 1  PROVE FALSE
      OBVIOUS
    <3>2. PICK j \in Int : j = L - 1
      <4>1. L - 1 \in Int
        BY <2>4
      <4>. QED  BY <4>1
    <3>3. j \in 1 .. L /\ n - L + j = m
      BY ONLY <1>1, <1>2, <2>4, <3>1, <3>2
    <3>. QED  BY <2>1, <2>3, <3>3
  <2>6. VEnd(e) = n /\ VSeq(e) = s /\ VStart(e) = n
    <3>1. VEnd(e) = n
      BY <1>1, <2>2 DEF VEnd
    <3>2. VSeq(e) = s
      BY <3>1 DEF VSeq
    <3>3. VStart(e) = n - L + 1
      BY <3>1, <3>2 DEF VStart
    <3>. QED  BY <1>1, <2>5, <3>1, <3>2, <3>3
  <2>7. TonePosition(e, s, Terminated(e)) = 0
    <3>1. getTonePosition(s, Terminated(e), e.ctl.options.modernStyle) \in 0 .. L - 1
      BY ONLY <2>3, L = VSeqList[s].len, TonePositions
    <3>. QED  BY <2>5, <3>1 DEF TonePosition
  <2>8. TonePos(e) = n
    BY <1>1, <2>6, <2>7 DEF TonePos
  <2>. QED  BY <2>8
<1>. QED  BY <1>8, <1>9

\* Dropping a key stroke changes nothing that the text depends on.
LEMMA SynchHolds ==
  ASSUME NEW b, NEW e, Held(b, e)
  PROVE  LET f == synchKeyStrokeBuffer(e)
         IN  /\ Held(b, f) /\ DOMAIN f = EngineFields /\ f.buf = e.buf /\ f.changePos = e.changePos
             /\ f.backs = e.backs /\ f.written = e.written /\ f.out = e.out /\ f.esc = e.esc /\ f.ctl = e.ctl
<1>. DEFINE f == synchKeyStrokeBuffer(e)
            ks == IF e.keys = <<>> THEN <<>> ELSE Front(e.keys)
            new == IF e.buf # <<>> /\ Top(e).form = "empty"
                   THEN SubSeq(ks, 1, Max({0} \cup {i \in DOMAIN ks : ks[i].brk})) ELSE ks
<1>1. EngineOK(e) /\ DOMAIN e = EngineFields
  BY HeldHas
<1>2. f = [e EXCEPT !.keys = new]
  BY DEF synchKeyStrokeBuffer
<1>3. EngineOK(f)
  BY <1>1, SynchKeeps
<1>. HIDE DEF new, f
<1>4. /\ DOMAIN f = EngineFields /\ f.buf = e.buf /\ f.changePos = e.changePos
      /\ f.backs = e.backs /\ f.written = e.written /\ f.out = e.out /\ f.esc = e.esc /\ f.ctl = e.ctl
  BY <1>1, <1>2 DEF EngineFields
<1>5. Tracks(b, f)
  BY <1>4 DEF Held, Kept, Tracks
<1>6. Held(b, f)
  BY <1>3, <1>4, <1>5 DEF Held, Kept
<1>. QED  BY <1>4, <1>6 DEF f

\* An entry taken off the end, whatever was changed before.
Dropped(b, x, p, cs) ==
  /\ Held(b, p) /\ DOMAIN p = EngineFields /\ Shaped(p.buf) /\ p.esc = FALSE /\ p.written = FALSE
  /\ Len(p.buf) = Len(x.buf) - 1 /\ p.changePos = x.changePos /\ p.out = x.out /\ p.ctl = x.ctl
  /\ Apply(Render(cs, b), p.backs, Render(cs, SubSeq(p.buf, p.changePos, Len(p.buf)))) = Render(cs, p.buf)

\* So the text is known.
LEMMA PoppedText ==
  ASSUME NEW b, NEW x, Held(b, x), x.buf # <<>>, x.changePos <= Len(x.buf),
         NEW p, p = synchKeyStrokeBuffer(Pop(x)), NEW cs, cs = x.ctl.charset
  PROVE  Dropped(b, x, p, cs)
<1>. DEFINE q == Pop(x)
<1>1. Held(b, q) /\ Len(q.buf) = Len(x.buf) - 1 /\ q.changePos = x.changePos /\ q.ctl = x.ctl
  BY HeldPop
<1>2. q.out = x.out
  <2>1. DOMAIN x = EngineFields
    BY HeldHas
  <2>. QED  BY <2>1 DEF Pop, EngineFields
<1>. HIDE DEF q
<1>3. /\ Held(b, p) /\ DOMAIN p = EngineFields /\ p.buf = q.buf /\ p.changePos = q.changePos
      /\ p.out = q.out /\ p.ctl = q.ctl
  BY <1>1, SynchHolds DEF q
<1>4. Shaped(p.buf) /\ p.esc = FALSE /\ p.written = FALSE
  BY <1>3 DEF Held, Kept, Tracks
<1>5. Apply(Render(cs, b), p.backs, Render(cs, SubSeq(p.buf, p.changePos, Len(p.buf)))) = Render(cs, p.buf)
  <2>1. cs = p.ctl.charset
    BY <1>1, <1>3
  <2>. QED  BY ONLY <1>3, <2>1, TextApplied
<1>. QED  BY <1>1, <1>2, <1>3, <1>4, <1>5 DEF Dropped

\* A backspace leaves a buffer whose text is known.
LEMMA BackspaceShows ==
  ASSUME NEW e, Idle(e), e.buf # <<>>, NEW cs, cs = e.ctl.charset
  PROVE  LET r == processBackspace(e)
         IN  /\ Shaped(r.buf) /\ r.esc = FALSE
             /\ Apply(Render(cs, e.buf), r.backs, Output(r)) = Render(cs, r.buf)
<1>. DEFINE n == Len(e.buf)
            from == TonePos(e)
            to == VStart(e) + TonePosition(e, e.buf[Len(e.buf) - 1].seq, TRUE)
            o == [e EXCEPT !.changePos = n + 1]
            k == markChange(o, n)
            simple == \/ n = 1 \/ Top(e).form \in {"empty", "nonVn", "c"}
                      \/ e.buf[n - 1].form \in {"c", "vc", "cvc"}
                      \/ e.buf[from].tone = 0 \/ from = n \/ from = to
            x == IF simple THEN k ELSE MoveTone(k, from, to)
            p == synchKeyStrokeBuffer(Pop(x))
            w == [p EXCEPT !.written = TRUE]
<1>. PICK b : b = e.buf
  OBVIOUS
<1>0. Whole(b, e) /\ Held(b, e) /\ Kept(b, e) /\ DOMAIN e = EngineFields /\ e.changePos = n + 1
  BY IdleHolds, HeldHas DEF Idle
<1>00. n \in Nat /\ n >= 1 /\ Len(b) = n
  <2>1. n \in Nat /\ n # 0
    BY <1>0, HeldHas
  <2>. QED  BY <2>1
<1>1. processBackspace(e) = IF simple THEN Ret(w, IF p.backs > 1 THEN 1 ELSE 0) ELSE Ret(p, 1)
  BY DEF processBackspace, BackspaceFrom
<1>2. /\ Kept(b, o) /\ Held(b, o) /\ DOMAIN o = EngineFields /\ o.buf = e.buf /\ o.changePos = n + 1
      /\ o.ctl = e.ctl /\ o.out = e.out
  <2>1. /\ DOMAIN o = EngineFields /\ o.buf = e.buf /\ o.keys = e.keys /\ o.changePos = e.changePos
        /\ o.backs = e.backs /\ o.written = e.written /\ o.esc = e.esc /\ o.ctl = e.ctl /\ o.out = e.out
    BY <1>0 DEF EngineFields
  <2>. HIDE DEF o, n
  <2>2. Held(b, o)
    BY <1>0, <2>1, HeldEvent
  <2>. QED  BY <1>0, <2>1, <2>2, HeldHas
<1>. HIDE DEF o
<1>3. Kept(b, k) /\ Held(b, k) /\ k.buf = e.buf /\ k.changePos = n
  <2>1. n \in Int /\ n >= 1 /\ k = markChange(o, n)
    BY <1>00
  <2>. HIDE DEF k
  <2>2. Kept(b, k) /\ k.buf = o.buf /\ k.changePos = (IF n < o.changePos THEN n ELSE o.changePos) /\ Held(b, k)
    BY <1>2, <2>1, KeptMark
  <2>3. n < o.changePos
    BY <1>00, <1>2
  <2>. QED  BY <1>2, <2>2, <2>3
<1>4. k.ctl = e.ctl /\ k.out = <<>>
  <2>. DEFINE y == [o EXCEPT !.backs = @ + getSeqSteps(o, n, o.changePos - 1), !.changePos = n]
  <2>1. k \in {y, o}
    BY DEF markChange
  <2>2. y.ctl = e.ctl /\ y.out = e.out /\ o.ctl = e.ctl /\ o.out = e.out
    BY <1>2 DEF EngineFields
  <2>3. e.out = <<>>
    BY DEF Idle
  <2>. HIDE DEF y, k
  <2>. QED  BY <2>1, <2>2, <2>3
<1>. HIDE DEF k
<1>5. /\ Held(b, x) /\ x.buf # <<>> /\ x.changePos <= Len(x.buf) /\ Len(x.buf) = n /\ x.ctl = e.ctl
      /\ simple => x.out = <<>> /\ x.changePos = n
  <2>1. CASE simple
    <3>1. x = k
      BY <2>1
    <3>. HIDE DEF x, simple
    <3>. QED  BY <1>00, <1>3, <1>4, <3>1
  <2>2. CASE ~simple
    <3>1. hasVowel(e) /\ from \in Int /\ from >= 1 /\ to \in Int /\ to >= 1
      <4>1. /\ n # 1 /\ Top(e).form \notin {"empty", "nonVn", "c"} /\ e.buf[n - 1].form \notin {"c", "vc", "cvc"}
            /\ TonePos(e) # n /\ Held(b, e) /\ e.buf # <<>> /\ n = Len(e.buf)
        BY <1>0, <2>2
      <4>. QED  BY ONLY <4>1, BackspaceTones
    <3>2. x = MoveTone(k, from, to)
      BY <2>2
    <3>. HIDE DEF x, simple, from, to
    <3>3. Kept(b, x) /\ Len(x.buf) = Len(k.buf) /\ x.changePos <= k.changePos /\ Held(b, x)
      BY ONLY <1>3, <3>1, <3>2, KeptMoveTone
    <3>4. x.ctl = k.ctl
      <4>1. EngineOK(k)
        BY <1>3 DEF Kept
      <4>2. Grown(k, x, 0)
        BY ONLY <3>2, <4>1, MoveToneGrows
      <4>. QED  BY <4>2 DEF Grown
    <3>5. Len(x.buf) = n /\ x.changePos <= Len(x.buf)
      BY <1>3, <3>3
    <3>6. x.buf # <<>>
      BY <1>00, <3>3, <3>5, HeldHas
    <3>. QED  BY <1>3, <1>4, <2>2, <3>3, <3>4, <3>5, <3>6
  <2>. QED  BY <2>1, <2>2
<1>. HIDE DEF x, simple
<1>6. /\ Held(b, p) /\ DOMAIN p = EngineFields /\ Shaped(p.buf) /\ p.esc = FALSE /\ p.written = FALSE
      /\ Len(p.buf) = Len(x.buf) - 1 /\ p.changePos = x.changePos /\ p.out = x.out /\ p.ctl = x.ctl
      /\ Apply(Render(cs, b), p.backs, Render(cs, SubSeq(p.buf, p.changePos, Len(p.buf)))) = Render(cs, p.buf)
  <2>1. /\ Held(b, x) /\ x.buf # <<>> /\ x.changePos <= Len(x.buf) /\ p = synchKeyStrokeBuffer(Pop(x))
        /\ cs = x.ctl.charset
    BY <1>5
  <2>. HIDE DEF p
  <2>2. Dropped(b, x, p, cs)
    BY ONLY <2>1, PoppedText
  <2>. QED  BY ONLY <2>2 DEF Dropped
<1>. HIDE DEF p
<1>7. CASE simple
  <2>. PICK v : v = IF p.backs > 1 THEN 1 ELSE 0
    OBVIOUS
  <2>. DEFINE r == Ret(w, v)
  <2>1. r.buf = p.buf /\ r.esc = p.esc /\ r.backs = p.backs /\ r.written = TRUE /\ r.out = p.out
    BY <1>6 DEF Ret, EngineFields
  <2>2. processBackspace(e) = r
    BY <1>1, <1>7
  <2>. HIDE DEF r
  <2>3. Output(r) = <<>>
    BY <1>5, <1>6, <1>7, <2>1 DEF Output
  <2>4. Render(cs, SubSeq(p.buf, p.changePos, Len(p.buf))) = <<>>
    <3>. PICK d : d = p.buf
      OBVIOUS
    <3>1. Items("word", d) /\ Len(d) = n - 1
      BY <1>5, <1>6, HeldHas
    <3>2. PICK m \in Int : m = n - 1
      <4>1. n - 1 \in Int
        BY <1>00
      <4>. QED  BY <4>1
    <3>3. n \in 1 .. m + 1 /\ m \in n - 1 .. m /\ m - n + 1 = 0
      BY ONLY <1>00, <3>2
    <3>4. Items("word", SubSeq(d, n, m)) /\ Len(SubSeq(d, n, m)) = m - n + 1
      <4>1. Len(d) = m
        BY <3>1, <3>2
      <4>. HIDE DEF n
      <4>. QED  BY ONLY <3>1, <3>3, <4>1, PartHas
    <3>5. SubSeq(d, n, m) = <<>>
      BY <3>3, <3>4, ItemsLength
    <3>6. SubSeq(p.buf, p.changePos, Len(p.buf)) = SubSeq(d, n, m)
      BY <1>5, <1>6, <1>7, <3>1, <3>2
    <3>. QED  BY <3>5, <3>6, RenderEmpty
  <2>5. Apply(Render(cs, b), r.backs, Output(r)) = Render(cs, r.buf)
    BY <1>6, <2>1, <2>3, <2>4
  <2>. QED  BY <1>6, <2>1, <2>2, <2>5
<1>8. CASE ~simple
  <2>. DEFINE r == Ret(p, 1)
  <2>1. /\ r.buf = p.buf /\ r.esc = p.esc /\ r.backs = p.backs /\ r.written = p.written
        /\ r.changePos = p.changePos /\ r.ctl = p.ctl
    BY <1>6 DEF Ret, EngineFields
  <2>2. processBackspace(e) = r
    BY <1>1, <1>8
  <2>. HIDE DEF r
  <2>3. Output(r) = Render(cs, SubSeq(p.buf, p.changePos, Len(p.buf)))
    BY <1>5, <1>6, <2>1 DEF Output
  <2>4. Apply(Render(cs, b), r.backs, Output(r)) = Render(cs, r.buf)
    BY <1>6, <2>1, <2>3
  <2>. QED  BY <1>6, <2>1, <2>2, <2>4
<1>. QED  BY <1>7, <1>8

-----------------------------------------------------------------------------
(* The engine and its client. *)

\* The text is that of the buffer, which is in shape, and no escape character is pending.
ScreenInv == TypeInv /\ Shaped(buf) /\ esc = FALSE /\ ScreenMatchesBuffer

\* A call finds the engine as it is said to be.
LEMMA EngineIdle ==
  ASSUME ScreenInv, NEW lock, NEW shift, NEW junk
  PROVE  LET e == EngineAt(lock, shift, junk)
         IN  /\ Idle(e) /\ e.buf = buf /\ e.keys = keys /\ e.ctl.charset = charset /\ e.then = "return"
             /\ e.ctl.method = method /\ e.ctl.options = options
<1>. DEFINE e == EngineAt(lock, shift, junk)
<1>1. /\ EngineOK(e) /\ e.buf = buf /\ e.keys = keys /\ e.then = "return"
      /\ e.ctl.method = method /\ e.ctl.options = options
  BY EngineFound DEF ScreenInv
<1>2. /\ e.changePos = Len(buf) + 1 /\ e.backs = 0 /\ e.written = FALSE /\ e.out = <<>> /\ e.esc = esc
      /\ e.ctl.charset = charset
  BY DEF EngineAt, CtlAt
<1>. HIDE DEF e
<1>. QED  BY <1>1, <1>2 DEF ScreenInv, Idle, e

\* The engine's part of the text is that of the buffer it goes on with.
LEMMA OwnedShows ==
  ASSUME ScreenInv, NEW lock, NEW shift, NEW junk
  PROVE  Owned = Render(charset, PreparedBuf(EngineAt(lock, shift, junk)))
<1>. DEFINE e == EngineAt(lock, shift, junk)
            d == PreparedBuf(e)
            m == Len(buf) - Len(d)
<1>1. EngineOK(e) /\ e.buf = buf
  BY EngineIdle DEF Idle
<1>2. prepareBuffer(Engine).buf = d
  <2>1. EngineOK(Engine) /\ Engine.buf = buf
    <3>1. Idle(Engine) /\ Engine.buf = buf
      BY EngineIdle DEF Engine
    <3>. QED  BY <3>1 DEF Idle
  <2>2. PreparedBuf(Engine) = d
    BY <1>1, <2>1 DEF PreparedBuf, NearlyFull, BreaksInYoungerHalf
  <2>. HIDE DEF d
  <2>3. prepareBuffer(Engine).buf = PreparedBuf(Engine)
    BY <2>1 DEF prepareBuffer, EngineOK, EngineFields
  <2>. QED  BY <2>2, <2>3
<1>. HIDE DEF e, d
<1>3. Owned = IF buf = <<>> \/ m = Len(buf) THEN <<>>
              ELSE SubSeq(screen, Len(Render(charset, SubSeq(buf, 1, m))) + 1, Len(screen))
  BY <1>2 DEF Owned
<1>. PICK q : q = m
  OBVIOUS
<1>4. /\ EngineOK(e) /\ Shaped(e.buf) /\ d = PreparedBuf(e) /\ (e.buf # <<>> => screen = Render(charset, e.buf))
      /\ q = Len(e.buf) - Len(d)
  BY <1>1 DEF ScreenInv, ScreenMatchesBuffer, d
<1>5. Remains(e.buf, d, q, charset, screen)
  BY ONLY <1>4, PreparedShows
<1>. QED  BY <1>1, <1>3, <1>5 DEF Remains, e, d

\* A key press.
LEMMA FilterScreen ==
  ASSUME PlainClient, ScreenInv, NEW k \in Keys, NEW lock, NEW shift, NEW junk, Filter(k, lock, shift, junk)
  PROVE  Shaped(buf)' /\ (esc = FALSE)' /\ ScreenMatchesBuffer'
<1>. DEFINE e == EngineAt(lock, shift, junk)
            r == process(e, k)
            d == PreparedBuf(e)
<1>1. /\ Idle(e) /\ e.buf = buf /\ e.keys = keys /\ e.ctl.charset = charset /\ e.then = "return"
      /\ e.ctl.method = method /\ e.ctl.options = options
  BY EngineIdle
<1>2. Owned = Render(charset, d)
  BY OwnedShows
<1>3. /\ Put(r) /\ charset' = charset
      /\ screen' = IF Silent(r) THEN Owned \o Raw(<<k>>) ELSE Apply(Owned, r.backs, Output(r))
  BY DEF Filter, Pressed
<1>. HIDE DEF e, d
<1>4. method \in Methods /\ ~options.autoNonVnRestore
  BY DEF ScreenInv, TypeInv, PlainClient, NothingRestored
<1>5. buf' = r.buf /\ esc' = r.esc
  BY <1>3 DEF Put
<1>6. CASE getCharType(k) = "Reset"
  <2>1. r.buf = <<>> /\ r.esc = FALSE
    <3>1. EngineOK(e) /\ e.esc = FALSE
      BY <1>1 DEF Idle
    <3>. QED  BY <1>1, <1>4, <1>6, <3>1, ProcessResets
  <2>. HIDE DEF r
  <2>. QED  BY <1>5, <2>1, NoEntries DEF ScreenMatchesBuffer
<1>7. CASE getCharType(k) # "Reset"
  <2>1. Shows(d, k, r) /\ (r.buf # <<>> => r.ctl = e.ctl)
    BY <1>1, <1>4, <1>7, ProcessShows DEF d
  <2>. HIDE DEF r
  <2>2. CASE r.buf = <<>>
    <3>1. r.esc = FALSE
      BY <2>1, <2>2 DEF Shows, Held, Kept, Tracks
    <3>. QED  BY <1>5, <2>2, <3>1, NoEntries DEF ScreenMatchesBuffer
  <2>3. CASE r.buf # <<>>
    <3>1. Held(d, r)
      BY <2>1, <2>3 DEF Shows
    <3>2. Shaped(r.buf) /\ r.esc = FALSE
      BY <3>1 DEF Held, Kept, Tracks
    <3>3. k \in KeyCodes /\ k \notin AscKeys
      BY KeysAssumption DEF PlainClient
    <3>4. charset = r.ctl.charset
      BY <1>1, <2>1, <2>3
    <3>. PICK text, cs : text = screen' /\ cs = charset
      OBVIOUS
    <3>5. text = After(Render(cs, d), k, r)
      BY <1>2, <1>3 DEF After
    <3>6. cs = r.ctl.charset
      BY <3>4
    <3>7. text = Render(cs, r.buf)
      BY ONLY <2>1, <2>3, <3>3, <3>5, <3>6, ClientShows
    <3>8. screen' = Render(charset, r.buf)
      BY <3>7
    <3>. QED  BY <1>3, <1>5, <3>2, <3>8 DEF ScreenMatchesBuffer
  <2>. QED  BY <2>2, <2>3
<1>. QED  BY <1>6, <1>7

\* A backspace.
LEMMA BackspaceScreen ==
  ASSUME ScreenInv, BackspacePress
  PROVE  Shaped(buf)' /\ (esc = FALSE)' /\ ScreenMatchesBuffer'
<1>. DEFINE r == processBackspace(Engine)
<1>1. Put(r) /\ charset' = charset /\ buf # <<>> /\ screen' = Apply(screen, r.backs, Output(r))
  BY DEF BackspacePress
<1>2. Idle(Engine) /\ Engine.buf = buf /\ Engine.ctl.charset = charset
  BY EngineIdle DEF Engine
<1>3. /\ Shaped(r.buf) /\ r.esc = FALSE
      /\ Apply(Render(charset, Engine.buf), r.backs, Output(r)) = Render(charset, r.buf)
  BY <1>1, <1>2, BackspaceShows
<1>. HIDE DEF r
<1>4. buf' = r.buf /\ esc' = r.esc
  BY <1>1 DEF Put
<1>5. screen = Render(charset, buf)
  BY <1>1 DEF ScreenInv, ScreenMatchesBuffer
<1>. QED  BY <1>1, <1>2, <1>3, <1>4, <1>5 DEF ScreenMatchesBuffer

\* A call that empties the buffer.
LEMMA ResetScreen ==
  ASSUME ScreenInv, Reset
  PROVE  Shaped(buf)' /\ (esc = FALSE)' /\ ScreenMatchesBuffer'
<1>. DEFINE r == reset(Engine)
<1>1. Put(r)
  BY DEF Reset
<1>2. r.buf = <<>> /\ r.esc = FALSE
  <2>1. DOMAIN Engine = EngineFields
    BY EngineIdle DEF Idle, Engine, EngineOK
  <2>. QED  BY <2>1 DEF reset, EngineFields
<1>. HIDE DEF r
<1>. QED  BY <1>1, <1>2, NoEntries DEF Put, ScreenMatchesBuffer

\* Every call keeps the invariant.
LEMMA NextScreen ==
  ASSUME PlainClient, ScreenInv, [Next]_vars
  PROVE  ScreenInv'
<1>1. TypeInv'
  BY NextImplements DEF ScreenInv
<1>2. Shaped(buf)' /\ (esc = FALSE)' /\ ScreenMatchesBuffer'
  <2>1. ASSUME NEW k \in Keys, NEW lock, NEW shift, NEW junk, Filter(k, lock, shift, junk)
        PROVE  Shaped(buf)' /\ (esc = FALSE)' /\ ScreenMatchesBuffer'
    BY <2>1, FilterScreen
  <2>2. ASSUME NEW k \in PassKeys, NEW junk, PutChar(k, junk)
        PROVE  FALSE
    BY DEF PlainClient, NothingRestored
  <2>3. CASE BackspacePress
    BY <2>3, BackspaceScreen
  <2>4. ASSUME NEW junk, RestoreKeyStrokes(junk)
        PROVE  FALSE
    BY <2>4 DEF PlainClient, NothingRestored, RestoreKeyStrokes
  <2>5. CASE ResetBuf \/ (\E m \in Methods : SetInputMethod(m)) \/ \E c \in Charsets : SetOutputCharset(c)
    <3>1. Reset
      BY <2>5 DEF ResetBuf, SetInputMethod, SetOutputCharset
    <3>. QED  BY <3>1, ResetScreen
  <2>6. CASE SetSingleMode \/ (\E o \in OptionSets : SetOptions(o)) \/ UNCHANGED vars
    <3>1. buf' = buf /\ esc' = esc /\ charset' = charset /\ screen' = screen
      BY <2>6 DEF SetSingleMode, SetOptions, Keep, vars
    <3>. QED  BY <3>1 DEF ScreenInv, ScreenMatchesBuffer
  <2>. QED  BY <2>1, <2>2, <2>3, <2>4, <2>5, <2>6 DEF Next, Press, OtherCall
<1>. QED  BY <1>1, <1>2 DEF ScreenInv

\* At the start nothing is shown.
LEMMA InitScreen == Init => ScreenInv
  BY InitImplements, NoEntries DEF Init, ScreenInv, ScreenMatchesBuffer

\* Whatever is typed, marked, moved and deleted, the client's text is what the engine
\* believes it to be, when no key strokes are restored and the client's keys are plain.
THEOREM AlwaysScreenMatches ==
  ASSUME PlainClient
  PROVE  Spec => []ScreenMatchesBuffer
<1>1. Init => ScreenInv
  BY InitScreen
<1>2. ScreenInv /\ [Next]_vars => ScreenInv'
  BY NextScreen
<1>3. ScreenInv => ScreenMatchesBuffer
  BY DEF ScreenInv
<1>. QED  BY <1>1, <1>2, <1>3, PTL DEF Spec

\* In a buffer in shape the vowels of each syllable are the row noted with them.
LEMMA ShapedVowels ==
  ASSUME Items("word", buf), Shaped(buf)
  PROVE  VowelsMatchLetters
<1>. SUFFICES ASSUME NEW i \in DOMAIN buf, buf[i].v >= 0
              PROVE  Letters(VowelStart(i), VowelEnd(i)) = VSeqList[VowelSeq(i)].v
  BY DEF VowelsMatchLetters
<1>1. Len(buf) \in Nat /\ i \in 1 .. Len(buf)
  <2>1. Len(buf) \in Nat /\ DOMAIN buf = 1 .. Len(buf)
    BY ItemsLength DEF Items
  <2>. QED  BY <2>1
<1>. PICK m \in Int : m = buf[i].v
  BY <1>1, ShapeHas
<1>2. Chain(buf, i, "v") /\ m >= 0 /\ m < i
  BY <1>1, ShapeHas
<1>. PICK last \in Int : last = i - m
  BY <1>1
<1>3. last \in 1 .. Len(buf) /\ last = VowelEnd(i)
  BY <1>1, <1>2 DEF VowelEnd
<1>4. buf[last].v = 0
  <2>1. \A j \in 0 .. buf[i]["v"] : buf[i - j]["v"] = buf[i]["v"] - j
    BY ONLY <1>2, ChainHas
  <2>2. m \in 0 .. buf[i]["v"] /\ m = buf[i]["v"]
    BY <1>2
  <2>. QED  BY <2>1, <2>2
<1>. PICK s : s = buf[last].seq
  OBVIOUS
<1>5. EndsVowels(buf, last) /\ s \in VS
  BY <1>1, <1>3, <1>4, ShapeHas
<1>6. s = VowelSeq(i)
  BY <1>3 DEF VowelSeq
<1>7. /\ VSeqList[s].v \in Seq(Vowels) /\ VSeqList[s].len = Len(VSeqList[s].v)
      /\ VSeqList[s].len \in 1 .. 3 /\ VSeqList[s].len \in Int
  BY <1>5, Rows
<1>. PICK n \in 1 .. 3 : n = VSeqList[s].len
  BY <1>7
<1>. PICK first \in Int : first = last - n + 1
  BY <1>3
<1>8. first = VowelStart(i)
  BY <1>3, <1>6 DEF VowelStart
<1>9. VSeqList[s].v = [j \in 1 .. n |-> VSeqList[s].v[j]]
  <2>. PICK v \in Seq(Vowels) : v = VSeqList[s].v
    BY <1>7
  <2>1. Len(v) = n
    BY <1>7
  <2>2. v \in [1 .. Len(v) -> Vowels]
    BY LenProperties
  <2>3. v \in [1 .. n -> Vowels]
    BY ONLY <2>1, <2>2
  <2>. QED  BY <2>3, Zenon
<1>10. ASSUME NEW j \in 1 .. n  PROVE buf[first + j - 1].sym = VSeqList[s].v[j]
  <2>1. \A k \in 1 .. n : buf[last - n + k].sym = VSeqList[s].v[k]
    BY ONLY <1>5, s = buf[last].seq, n = VSeqList[s].len, last \in Int, EndsHas
  <2>2. first + j - 1 = last - n + j
    OBVIOUS
  <2>. QED  BY <2>1, <2>2
<1>11. last - first + 1 = n
  OBVIOUS
<1>12. Letters(first, last) = [j \in 1 .. n |-> buf[first + j - 1].sym]
  BY ONLY <1>11, Zenon DEF Letters
<1>13. Letters(first, last) = [j \in 1 .. n |-> VSeqList[s].v[j]]
  <2>. DEFINE f(j) == buf[first + j - 1].sym
              g(j) == VSeqList[s].v[j]
  <2>1. \A j \in 1 .. n : f(j) = g(j)
    BY <1>10, Zenon
  <2>2. Letters(first, last) = [j \in 1 .. n |-> f(j)]
    BY <1>12, Zenon
  <2>. HIDE DEF f, g
  <2>3. Letters(first, last) = [j \in 1 .. n |-> g(j)]
    BY ONLY <2>1, <2>2
  <2>. QED  BY <2>3, Zenon DEF g
<1>. QED  BY <1>3, <1>6, <1>8, <1>9, <1>13

\* Whatever such a client types, marks, takes back and deletes, the row of vowels that the
\* engine has noted with a syllable, by which its handlers decide, is that of the letters in the
\* buffer, which it writes.
THEOREM AlwaysVowelsMatch ==
  ASSUME PlainClient
  PROVE  Spec => []VowelsMatchLetters
<1>1. Init => ScreenInv
  BY InitScreen
<1>2. ScreenInv /\ [Next]_vars => ScreenInv'
  BY NextScreen
<1>3. ScreenInv => VowelsMatchLetters
  BY ShapedVowels DEF ScreenInv, TypeInv
<1>. QED  BY <1>1, <1>2, <1>3, PTL DEF Spec
=============================================================================
