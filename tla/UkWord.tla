------------------------------- MODULE UkWord -------------------------------
(***************************************************************************)
(* The word buffer of the engine (ukengine.cpp) and the handlers that work *)
(* on it, as operators from the engine's state to its state after the      *)
(* call.  UkEngine makes a state machine of them.                          *)
(*                                                                         *)
(* An engine e is a record of                                              *)
(*   buf, keys     m_buffer[0..m_current], m_keyStrokes[0..m_keyCurrent]   *)
(*   single, esc   m_singleMode, m_toEscape                                *)
(*   telexW        the static usedAsMapChar of processTelexW               *)
(*   changePos, backs, written, out, restored                              *)
(*                 the variables of one call: m_changePos, m_backs,        *)
(*                 m_outputWritten, *m_pOutBuf, m_keyRestored              *)
(*   ev, ret       the key event handled and the handler's result          *)
(*   then          how the call goes on: "return", or with the processAppend *)
(*                 that ends a handler (see Finish in UkHandlers)            *)
(*   ctl           what the call sees of UkSharedMem and the keyboard:     *)
(*                 options, charset, method, macros, lock (CapsLock),      *)
(*                 shift, and junk (see CSeqAfter).                        *)
(* Positions count from 1, so that m_current is Len(buf) - 1.  vietKey,    *)
(* which no caller ever clears, is taken as set, and the charset is one of *)
(* XUTF8 and VNI-WIN: the branches for the others are not modelled.        *)
(***************************************************************************)
EXTENDS UkInput, SequencesExt, FiniteSetsExt

CONSTANTS BufSize,      \* m_bufSize     (MAX_UK_ENGINE)
          KeyBufSize,   \* m_keyBufSize  (MAX_UK_ENGINE)
          Slack         \* the 10 entries prepareBuffer wants available

ASSUME SizesAssumption ==
  /\ BufSize \in Nat /\ KeyBufSize \in Nat /\ Slack \in Nat
  /\ 2 <= Slack /\ Slack < BufSize /\ 3 <= KeyBufSize

\* A WordInfo.  seq is the union of vseq and cseq.
Word(form, c1, v, c2, seq, s) ==
  [form |-> form, c1 |-> c1, v |-> v, c2 |-> c2, seq |-> seq,
   sym |-> s.sym, caps |-> s.caps, tone |-> s.tone]
NonVn(s) == Word("nonVn", -1, -1, -1, Nil, s)
Break(s) == Word("empty", -1, -1, -1, Nil, s)

Top(e) == e.buf[Len(e.buf)]
Push(e, w) == [e EXCEPT !.buf = Append(@, w)]
PopNone(e) == e                                             \* mutant: m_current-- forgotten
Pop(e) == [e EXCEPT !.buf = Front(@)]
Ret(e, r) == [e EXCEPT !.ret = r]
AtWordBeginning(b) == b = <<>> \/ b[Len(b)].form = "empty"
TonePosition(e, vs, terminated) == getTonePosition(vs, terminated, e.ctl.options.modernStyle)

-----------------------------------------------------------------------------
\* Output.  DoubleByteCharset::putChar writes two bytes for the letters the
\* VNI-WIN row of DoubleByteTables combines; every other letter, and every
\* letter in UTF-8, is one character of the client's text.
Width(charset, s) ==
  IF /\ charset = "VNIWIN"
     /\ \/ s.sym \in {"ar", "ab", "er", "or"}
        \/ s.sym \in Vowels \ {"i"} /\ s.tone # 0 /\ ~(s.sym = "y" /\ s.tone = 5)
  THEN 2 ELSE 1

\* What the client's text holds for the entries ws: a sequence of units.
Render(charset, ws) ==
  FlattenSeq([i \in DOMAIN ws |->
    [j \in 1..Width(charset, ws[i]) |-> <<Symbol(ws[i].sym, ws[i].caps, ws[i].tone), j>>]])

\* The characters of keys sent as they are.
Raw(ks) == [i \in DOMAIN ks |-> <<KeySymbols[ks[i]], 1>>]

OneStepShort(e, first, last) == Len(Render(e.ctl.charset, SubSeq(e.buf, first + 1, last)))  \* mutant
getSeqSteps(e, first, last) == Len(Render(e.ctl.charset, SubSeq(e.buf, first, last)))

\* Mutant: a second change in one call forgets the backspaces of the first.
markLastChange(e, pos) ==
  IF pos < e.changePos
  THEN [e EXCEPT !.backs = getSeqSteps(e, pos, e.changePos - 1), !.changePos = pos]
  ELSE e
markChange(e, pos) ==
  IF pos < e.changePos
  THEN [e EXCEPT !.backs = @ + getSeqSteps(e, pos, e.changePos - 1), !.changePos = pos]
  ELSE e

SetTone(e, pos, tone) == [markChange(e, pos) EXCEPT !.buf[pos].tone = tone]

\* The tone re-positioning that ends most handlers.
MoveTone(e, from, to) ==
  IF from # to /\ e.buf[from].tone # 0
  THEN SetTone(SetTone(e, to, e.buf[from].tone), from, 0) ELSE e

\* The entries of the vowel sequence vs, of three letters at most, that starts
\* at first get the sub-sequences of vs.
Sequenced(e, first, vs, i) ==
  IF i < VSeqList[vs].len THEN [e EXCEPT !.buf[first + i].seq = Sub(vs, i + 1)] ELSE e
RetypeNone(e, first, vs) == e                               \* mutant: sequences left as they were
Retype(e, first, vs) ==
  Sequenced(Sequenced(Sequenced(e, first, vs, 0), first, vs, 1), first, vs, 2)

-----------------------------------------------------------------------------
\* The consonant sequences around the vowel of the last entry w, at position n.
C1(e, n) == IF e.buf[n].c1 = -1 THEN Nil ELSE e.buf[n - e.buf[n].c1].seq
C2(e, n) == IF e.buf[n].c2 = -1 THEN Nil ELSE e.buf[n - e.buf[n].c2].seq

\* An appended letter is left to the client when its key is that letter.
Appended(e) == IF isalpha(e.ev.key) THEN Ret(e, 0) ELSE Ret(markChange(e, Len(e.buf)), 1)

appendNonVn(e) == Appended(Push(e, NonVn(e.ev.sym)))

\* A vowel after the vowel sequence that starts at start and bears its tone at
\* oldPos: newVs is the sequence of both.
VowelJoins(e, newVs, start, oldPos) ==
  LET s == e.ev.sym
      prev == Top(e)
      tone == e.buf[oldPos].tone
      newPos == start + TonePosition(e, newVs, TRUE)
      pushed == Push(e, Word(prev.form, IF prev.form = "cv" THEN prev.c1 + 1 ELSE -1, 0, -1,
                             newVs, Symbol(s.sym, s.caps, 0)))
  IN  IF newVs = Nil \/ (prev.form = "cv" /\ ~isValidCV(C1(e, Len(e.buf)), newVs)) THEN appendNonVn(e)
      ELSE CASE tone = 0 /\ s.tone # 0 -> Ret(SetTone(pushed, newPos, s.tone), 1)
             [] tone # 0 /\ newPos # oldPos -> Ret(SetTone(SetTone(pushed, oldPos, 0), newPos, tone), 1)
             [] OTHER -> Appended(pushed)

appendVowelToVowel(e) ==
  LET info == VSeqList[Top(e).seq]
      start == Len(e.buf) - info.len + 1
      oldPos == start + TonePosition(e, Top(e).seq, TRUE)
      bothTones == e.ev.sym.tone # 0 /\ e.buf[oldPos].tone # 0
  IN  VowelJoins(e, IF bothTones THEN Nil ELSE lookupVSeq(Append(info.v, e.ev.sym.sym)), start, oldPos)

\* A vowel, v alone, after something else.
VowelAlone(e, v) ==
  LET w == Word("cv", 1, 0, -1, v, e.ev.sym)
      onset == Top(e)
  IN  CASE AtWordBeginning(e.buf) -> Appended(Push(e, Word("v", -1, 0, -1, v, e.ev.sym)))
        [] ~AtWordBeginning(e.buf) /\ (onset.form # "c" \/ ~isValidCV(onset.seq, v)) -> appendNonVn(e)
        [] OTHER -> IF onset.seq = "gi" /\ onset.tone # 0
                    THEN Ret(SetTone(Push(e, [w EXCEPT !.tone = IF @ = 0 THEN onset.tone ELSE @]),
                                     Len(e.buf), 0), 1)
                    ELSE Appended(Push(e, w))

appendVowel(e) ==
  IF ~AtWordBeginning(e.buf) /\ Top(e).form \in {"v", "cv"} THEN appendVowelToVowel(e)
  ELSE VowelAlone(e, lookupVSeq(<<e.ev.sym.sym>>))

-----------------------------------------------------------------------------
\* u after q and i after g are consonants.
IsOnsetVowel(prev, sym) == prev.form = "c" /\ <<prev.seq, sym>> \in {<<"q", "u">>, <<"g", "i">>}

\* The consonant sequence of cs and the letter s after it.  A letter that is no
\* sequence of its own ("z" where it is not a tone key) leaves cs_nil in the
\* buffer, and the code then reads CSeqList[-1]: junk is what that lookup
\* happens to return.  A letter that a key gives with its tone (Latin-1) is
\* looked up with it, and found in no sequence.
CSeqAfter(e, cs, s) ==
  CASE cs = Nil -> e.ctl.junk
    [] cs # Nil /\ s.tone = 0 -> lookupCSeq(Append(CSeqList[cs], s.sym))
    [] OTHER -> Nil

\* The consonant newCs after a vowel, whose tone moves from oldPos to newPos;
\* u+o and uo+ become u+o+.
ConsonantAfterVowel(e, newVs, newCs, oldPos, newPos) ==
  LET n == Len(e.buf)
      prev == Top(e)
      vs == prev.seq
      pushed == Push(e, IF prev.form = "v" THEN Word("vc", -1, 1, 0, newCs, e.ev.sym)
                        ELSE Word("cvc", prev.c1 + 1, 1, 0, newCs, e.ev.sym))
      hooked == CASE vs = "uho" -> [markChange(pushed, n) EXCEPT !.buf[n].sym = "oh", !.buf[n].seq = "uhoh"]
                  [] vs = "uoh" -> [markChange(pushed, n - 1) EXCEPT
                                      !.buf[n-1].sym = "uh", !.buf[n-1].seq = "uh", !.buf[n].seq = "uhoh"]
                  [] OTHER -> pushed
  IN  IF ~isValidCVC(C1(e, n), newVs, newCs) THEN Ret(Push(e, NonVn(e.ev.sym)), 0)
      ELSE Ret(MoveTone(hooked, oldPos, newPos),
               IF vs # newVs \/ (e.buf[oldPos].tone # 0 /\ oldPos # newPos) THEN 1 ELSE 0)

appendConsonnantToVowel(e) ==
  LET vs == Top(e).seq
      newVs == IF vs \in {"uoh", "uho"} THEN "uhoh" ELSE vs
      start == Len(e.buf) - VSeqList[vs].len + 1
  IN  ConsonantAfterVowel(e, newVs, lookupCSeq(<<e.ev.sym.sym>>), start + TonePosition(e, vs, TRUE),
                          start + TonePosition(e, newVs, FALSE))

\* A consonant after a consonant; newCs is the sequence of both.
ConsonantAfterConsonant(e, newCs) ==
  LET n == Len(e.buf)
      s == e.ev.sym
      prev == Top(e)
  IN  Ret(Push(e,
        CASE newCs # Nil /\ prev.form = "c" -> Word("c", 0, -1, -1, newCs, s)
          [] /\ newCs # Nil /\ prev.form \in {"vc", "cvc"}
             /\ isValidCVC(C1(e, n), e.buf[n - prev.v].seq, newCs) ->
               Word(prev.form, IF prev.form = "cvc" THEN prev.c1 + 1 ELSE -1, prev.v + 1, 0, newCs, s)
          [] OTHER -> NonVn(s)), 0)

appendConsonnant(e) ==
  LET s == e.ev.sym IN
  CASE AtWordBeginning(e.buf) -> Ret(Push(e, Word("c", 0, -1, -1, lookupCSeq(<<s.sym>>), s)), 0)
    [] ~AtWordBeginning(e.buf) /\ Top(e).form = "nonVn" -> Ret(Push(e, NonVn(s)), 0)
    [] ~AtWordBeginning(e.buf) /\ Top(e).form \in {"v", "cv"} -> appendConsonnantToVowel(e)
    [] ~AtWordBeginning(e.buf) /\ Top(e).form \in {"c", "vc", "cvc"} ->
         ConsonantAfterConsonant(e, CSeqAfter(e, Top(e).seq, s))

reset(e) == [e EXCEPT !.buf = <<>>, !.keys = <<>>, !.single = FALSE, !.esc = FALSE]

\* processAppend for anything but a word break.  appendVowel takes a letter and
\* its tone apart; appendConsonnant does not: its entry with the letter "i" and
\* tone 1, say, stands for one whose vnSym is vnl_i1 and whose tone is 0.
appendSymbol(e) ==
  LET sym == e.ev.sym.sym IN
  CASE e.ev.ch = "Reset" -> Ret(reset(e), 0)
    [] e.ev.ch = "NonVn" -> Ret(Push(e, NonVn(e.ev.sym)), 0)
    [] e.ev.ch = "Vn" ->
         IF sym \in Vowels /\ ~(Len(e.buf) > 0 /\ IsOnsetVowel(Top(e), sym))
         THEN appendVowel(e) ELSE appendConsonnant(e)
=============================================================================
