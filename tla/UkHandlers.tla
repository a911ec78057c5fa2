----------------------------- MODULE UkHandlers -----------------------------
(***************************************************************************)
(* The key handlers of the engine (UkKeyProcList in ukengine.cpp): the end *)
(* of a word, with macros and the restoration of key strokes; roofs, hooks *)
(* and bowls; tones; the barred d; mapped characters; the escape           *)
(* character.  Each maps an engine, with the event in e.ev, to the engine  *)
(* after the call; see UkWord.  A handler that ends with processAppend     *)
(* only says so, in e.then, and Finish makes the call.                     *)
(***************************************************************************)
EXTENDS UkWord

\* Where the last word starts: after the last word break in the buffer, and
\* after the last key stroke that is of the type of word breaks.
WordStart(e) == Max({0} \cup {i \in DOMAIN e.buf : e.buf[i].form = "empty"}) + 1
KeyStartOffByOne(e) == Max({0} \cup {i \in DOMAIN e.keys : e.keys[i].brk}) + 2     \* mutant
KeyStart(e) == Max({0} \cup {i \in DOMAIN e.keys : e.keys[i].brk}) + 1

lastWordHasVnMark(e) ==
  \E i \in WordStart(e) .. Len(e.buf) :
     /\ e.buf[i].sym \in VnLetters
     /\ \/ e.buf[i].sym \in Vowels /\ e.buf[i].tone # 0
        \/ e.buf[i].sym # Root(e.buf[i].sym)

StopSuffixes == {"c", "ch", "p", "t"}      \* they take no tone but the acute and the dot
lastWordIsNonVn(e) ==
  LET n == Len(e.buf)
      w == Top(e)
      vIndex == n - w.v
      vs == e.buf[vIndex].seq
      tonePos == vIndex - VSeqList[vs].len + 1 + TonePosition(e, vs, FALSE)
  IN  /\ n > 0
      /\ \/ w.form = "nonVn"
         \/ w.form \in {"v", "cv"} /\ ~VSeqList[w.seq].complete
         \/ /\ w.form \in {"vc", "cvc"}
            /\ \/ ~VSeqList[vs].complete
               \/ ~isValidCVC(C1(e, n), vs, w.seq)
               \/ w.seq \in StopSuffixes /\ e.buf[tonePos].tone \in {2, 3, 4}

\* The engine e after the key strokes are typed once more, as mere text.
Retyped(e, strokes) ==
  LET replayed[n \in 0 .. Len(strokes)] ==
        IF n = 0 THEN e
        ELSE appendSymbol([replayed[n - 1] EXCEPT !.ev = keyCodeToSymbol(strokes[n].key)])
  IN  replayed[Len(strokes)]

\* The keys of the last word take the place of the word, in the buffer and as
\* output.  When it refuses, backs is cleared: processWordEnd passes m_backs
\* itself for the argument.
restoreKeyStrokes(e) ==
  LET typed == {i \in DOMAIN e.keys : i >= KeyStart(e)}
      fresh == [e EXCEPT !.backs = 0, !.changePos = Len(e.buf) + 1]
      erased == [markChange(fresh, WordStart(e)) EXCEPT !.buf = SubSeq(@, 1, WordStart(e) - 1)]
      strokes == SubSeq(e.keys, KeyStart(e), Len(e.keys))
  IN  CASE ~lastWordHasVnMark(e) -> Ret([e EXCEPT !.backs = 0], 0)
        [] lastWordHasVnMark(e) /\ ~\E i \in typed : e.keys[i].conv -> Ret(fresh, 0)
        [] OTHER -> Ret([Retyped(erased, strokes) EXCEPT
             !.keys = [i \in DOMAIN e.keys |-> [e.keys[i] EXCEPT !.conv = @ /\ i \notin typed]],
             !.out = Raw([i \in DOMAIN strokes |-> strokes[i].key]), !.ev = e.ev], 1)

-----------------------------------------------------------------------------
\* The macro table maps a word, its letters with case and tone, to a text.
MacroKey(e, p) ==
  [i \in 1 .. Len(e.buf) - p + 1 |->
     Symbol(e.buf[p + i - 1].sym, e.buf[p + i - 1].caps, e.buf[p + i - 1].tone)]
MacroStarts(e) ==
  {p \in DOMAIN e.buf : /\ p = 1 \/ e.buf[p].form = "empty" \/ e.buf[p - 1].form = "empty"
                        /\ MacroKey(e, p) \in DOMAIN e.ctl.macros}
hasMacroWhateverShift(e) == e.ctl.options.macroEnabled /\ MacroStarts(e) # {}      \* mutant
hasMacro(e) == e.ctl.options.macroEnabled /\ ~(e.ctl.shift /\ e.ev.key = " ") /\ MacroStarts(e) # {}

\* macroMatch: the shortest match, from the right, is expanded and the last
\* key follows it.
expandMacro(e) ==
  LET start == Max(MacroStarts(e))
      marked == markChange(e, start)
  IN  Ret([reset(marked) EXCEPT !.written = TRUE,
             !.out = Append(e.ctl.macros[MacroKey(e, start)], <<e.ev.sym, 1>>)], 1)

\* A word that is none of the language, once restoreKeyStrokes has been tried.
WordEndForgetsKey(e, tried) ==                              \* mutant: the last key is lost
  IF tried.ret = 0 THEN Ret(Push(tried, Break(e.ev.sym)), 0)
  ELSE Ret([Push(tried, Break(e.ev.sym)) EXCEPT !.restored = TRUE, !.written = TRUE], 1)
WordEndRestored(e, tried) ==
  IF tried.ret = 0 THEN Ret(Push(tried, Break(e.ev.sym)), 0)
  ELSE Ret([Push(tried, Break(e.ev.sym)) EXCEPT !.restored = TRUE, !.written = TRUE,
              !.out = Append(@, <<e.ev.sym, 1>>)], 1)

processWordEnd(e) ==
  CASE hasMacro(e) -> expandMacro(e)
    [] ~hasMacro(e) /\ \/ ~e.ctl.options.spellCheck \/ e.single \/ e.buf = <<>>
                       \/ ~e.ctl.options.autoNonVnRestore \/ ~lastWordIsNonVn(e)
         -> Ret(Push(e, Break(e.ev.sym)), 0)
    [] OTHER -> WordEndRestored(e, restoreKeyStrokes(e))

processAppend(e) ==
  IF e.ev.ch = "WordBreak" THEN processWordEnd([e EXCEPT !.single = FALSE]) ELSE appendSymbol(e)

\* The ways a handler ends in processAppend: the key is text; the key is typed
\* after a mark is taken back; the key takes the place of an erased character.
AsText(e) == [e EXCEPT !.then = "append"]
UndoOnly(e) == Ret([e EXCEPT !.single = FALSE], 1)          \* mutant: key not typed
Undo(e) == [e EXCEPT !.single = FALSE, !.then = "undo"]
InPlace(e) == [e EXCEPT !.then = "replace"]

Appending(done, then) ==
  CASE then = "append"  -> [done EXCEPT !.then = "return"]
    [] then = "undo"    -> [done EXCEPT !.then = "return", !.ret = 1]
    [] then = "replace" -> [markChange(done, Len(done.buf)) EXCEPT !.then = "return", !.ret = 1]
Finish(e) == IF e.then = "return" THEN e ELSE Appending(processAppend(e), e.then)

-----------------------------------------------------------------------------
\* The vowel sequence of the last word: its last and first positions.
hasVowel(e) == e.buf # <<>> /\ Top(e).v >= 0
VEnd(e) == Len(e.buf) - Top(e).v
VSeq(e) == e.buf[VEnd(e)].seq
VStart(e) == VEnd(e) - VSeqList[VSeq(e)].len + 1
Terminated(e) == Top(e).v = 0
TonePos(e) == VStart(e) + TonePosition(e, VSeq(e), Terminated(e))

\* Without free marking only the last letter takes a mark.
MayMark(e, pos) == e.ctl.options.freeMarking \/ pos = Len(e.buf)

\* The syllable with the vowel sequence newVs instead of its own.
Fits(e, newVs) == isValidCVC(C1(e, Len(e.buf)), newVs, C2(e, Len(e.buf)))

\* The letters of the vowel sequence at the offsets in DOMAIN to change; the
\* sequence becomes newVs and its tone moves to where newVs has it.
Lettered(e, first, to, i) ==
  IF i \in DOMAIN to THEN [e EXCEPT !.buf[first + i].sym = to[i]] ELSE e
RewriteAt(e, first, to, newVs) ==
  LET marked == markChange(e, first + Min(DOMAIN to))
      written == Lettered(Lettered(Lettered(marked, first, to, 0), first, to, 1), first, to, 2)
  IN  MoveTone(Retype(written, first, newVs), TonePos(e), first + TonePosition(e, newVs, Terminated(e)))

\* What a mark key asks for: to and newVs as above, and whether it takes a mark
\* back.  With to empty the key is no mark here.
Change(to, newVs, undo) == [to |-> to, vs |-> newVs, undo |-> undo]
NoChange == Change(<<>>, Nil, FALSE)

Rewritten(done, undo) == IF undo THEN Undo(done) ELSE Ret(done, 1)
Rewrite(e, change) ==
  IF change.to = <<>> THEN AsText(e)
  ELSE Rewritten(RewriteAt(e, VStart(e), change.to, change.vs), change.undo)

\* One letter to change, or the first two.
At(pos, letter) == [i \in {pos} |-> letter]
Both(letter, second) == [i \in {0, 1} |-> IF i = 0 THEN letter ELSE second]

\* The letter at offset pos goes back to its root.
Unmark(e, pos) ==
  LET sym(i) == e.buf[VStart(e) + i].sym
      root == Root(sym(pos))
  IN  Change(At(pos, root),
             lookupVSeq([i \in 1 .. VSeqList[VSeq(e)].len |-> IF i = pos + 1 THEN root ELSE sym(i - 1)]), TRUE)

\* The sequence with its roof.  A hooked uo loses its hooks to it.
doubleChangeUO(vs) == vs \in {"uho", "uhoh", "uhoi", "uhohi"}
Roofed(vs, info) ==
  IF doubleChangeUO(vs) THEN lookupVSeq(<<"u", "or">> \o SubSeq(info.v, 3, info.len)) ELSE info.withRoof

\* The letters at the offsets in DOMAIN to are what makes t of the sequence s.
Changes(s, to, t) ==
  /\ t \in VS /\ VSeqList[t].len = VSeqList[s].len
  /\ DOMAIN to # {} /\ DOMAIN to \subseteq 0 .. VSeqList[s].len - 1
  /\ \A j \in 1 .. VSeqList[s].len :
        VSeqList[t].v[j] = IF j - 1 \in DOMAIN to THEN to[j - 1] ELSE VSeqList[s].v[j]
Rooted(v, pos) == [i \in 1 .. Len(v) |-> IF i = pos + 1 THEN Root(v[i]) ELSE v[i]]

\* The columns of marks in the tables agree with the letters the handlers write:
\* again a formula without parameters.
ASSUME MarksAssumption ==
  \A s \in VS :
    LET r == VSeqList[s]
        v == r.v
        roofed == Roofed(s, r)
        rpos == VSeqList[roofed].roofPos
        hooked == r.withHook
        hpos == VSeqList[hooked].hookPos
        uo == r.len > 1 /\ v[1] \in {"u", "uh"} /\ v[2] \in {"o", "oh", "or"}
        plain == v[1] = "u" /\ v[2] # "oh"
    IN  /\ doubleChangeUO(s) => roofed # Nil /\ Changes(s, Both("u", "or"), roofed)
        /\ (~doubleChangeUO(s) /\ roofed # Nil) => Changes(s, At(rpos, VSeqList[roofed].v[rpos + 1]), roofed)
        /\ (roofed = Nil /\ r.roofPos # -1) =>
              Changes(s, At(r.roofPos, Root(v[r.roofPos + 1])), lookupVSeq(Rooted(v, r.roofPos)))
        /\ (~uo /\ hooked # Nil) => Changes(s, At(hpos, VSeqList[hooked].v[hpos + 1]), hooked)
        /\ (~uo /\ hooked = Nil /\ r.hookPos # -1) =>
              Changes(s, At(r.hookPos, Root(v[r.hookPos + 1])), lookupVSeq(Rooted(v, r.hookPos)))
        /\ uo =>
             /\ hooked # Nil => VSeqList[hooked].v[hpos + 1] # "ab"
             /\ (hooked = Nil /\ r.hookPos # -1) => v[r.hookPos + 1] # "ab"
             /\ v[2] = "or" => v[1] = "u"
             /\ plain => Changes(s, Both("uh", "oh"), VSeqList[hooked].withHook)
             /\ (plain /\ r.len = 2) => Changes(s, At(1, "oh"), "uoh")
             /\ (v[1] = "u" /\ v[2] = "oh") => Changes(s, At(0, "uh"), hooked)
             /\ (v[1] = "uh" /\ v[2] = "o") => Changes(s, At(1, "oh"), hooked)
             /\ (v[1] = "uh" /\ v[2] = "oh") =>
                   Changes(s, Both("u", "o"), lookupVSeq(<<"u", "o">> \o SubSeq(v, 3, Len(v))))

RoofChange(e, info, newVs) ==
  LET pos == VSeqList[newVs].roofPos
      to == IF doubleChangeUO(VSeq(e)) THEN Both("u", "or") ELSE At(pos, VSeqList[newVs].v[pos + 1])
      target(letter) == CASE e.ev.type = "Roof_a" -> letter = "ar" [] e.ev.type = "Roof_e" -> letter = "er"
                          [] e.ev.type = "Roof_o" -> letter = "or" [] OTHER -> TRUE
  IN  CASE /\ newVs # Nil /\ target(VSeqList[newVs].v[pos + 1]) /\ Fits(e, newVs)
           /\ MayMark(e, VStart(e) + Min(DOMAIN to)) -> Change(to, newVs, FALSE)
        [] /\ newVs = Nil /\ info.roofPos # -1
           /\ target(e.buf[VStart(e) + info.roofPos].sym)
           /\ MayMark(e, VStart(e) + info.roofPos) -> Unmark(e, info.roofPos)
        [] OTHER -> NoChange

processRoof(e) ==
  IF hasVowel(e) THEN Rewrite(e, RoofChange(e, VSeqList[VSeq(e)], Roofed(VSeq(e), VSeqList[VSeq(e)])))
  ELSE AsText(e)

\* The hook on uo, which takes both letters: uo, uo^ -> u+o+ -> uo, with
\* uo+ in between after th.
processHookWithUO(e, info) ==
  LET v == info.v
      th == Len(v) = 2 /\ Terminated(e) /\ Top(e).form = "cv" /\ e.buf[Len(e.buf) - 2].seq = "th"
      type == IF e.ev.type \in {"Hook_u", "Hook_o"} THEN e.ev.type ELSE "Hook_uo"
      mark(to, newVs) == Change(to, newVs, FALSE)
      unmark(to) == Change(to, lookupVSeq(<<"u", "o">> \o SubSeq(v, 3, Len(v))), TRUE)
      both == Both("uh", "oh")
      none == Both("u", "o")
  IN  IF ~e.ctl.options.freeMarking /\ ~Terminated(e) THEN NoChange ELSE
      CASE type = "Hook_u" -> IF v[1] = "u" THEN mark(At(0, "uh"), info.withHook) ELSE unmark(none)
        [] type = "Hook_o" ->
             IF v[2] = "oh" THEN unmark(IF v[1] = "uh" THEN none ELSE At(1, "o"))
             ELSE IF th THEN mark(At(1, "oh"), info.withHook)
             ELSE mark(IF v[1] = "u" THEN both ELSE At(1, "oh"),
                       lookupVSeq(<<"uh", "oh">> \o SubSeq(v, 3, Len(v))))
        [] type = "Hook_uo" ->
             CASE v[1] = "u" /\ v[2] \in {"o", "or"} /\ th  -> mark(At(1, "oh"), "uoh")
               [] v[1] = "u" /\ v[2] \in {"o", "or"} /\ ~th -> mark(both, VSeqList[info.withHook].withHook)
               [] v[1] = "u" /\ v[2] = "oh" -> mark(At(0, "uh"), info.withHook)
               [] v[1] = "uh" /\ v[2] = "o" -> mark(At(1, "oh"), info.withHook)
               [] v[1] = "uh" /\ v[2] = "oh" -> unmark(none)

HookChange(e, info) ==
  LET newVs == info.withHook
      pos == VSeqList[newVs].hookPos
      hooked == VSeqList[newVs].v[pos + 1]
      uo == /\ info.len > 1 /\ e.ev.type # "Bowl"
            /\ info.v[1] \in {"u", "uh"} /\ info.v[2] \in {"o", "oh", "or"}
      takes(letter) == CASE e.ev.type = "Hook_u" -> letter = "uh" [] e.ev.type = "Hook_o" -> letter = "oh"
                         [] e.ev.type = "Bowl" -> letter = "ab"   [] e.ev.type = "Hook_uo" -> letter # "ab"
                         [] OTHER -> TRUE
  IN  CASE uo -> processHookWithUO(e, info)
        [] /\ ~uo /\ newVs # Nil
           /\ takes(hooked) /\ Fits(e, newVs)
           /\ MayMark(e, VStart(e) + pos) -> Change(At(pos, hooked), newVs, FALSE)
        [] /\ ~uo /\ newVs = Nil /\ info.hookPos # -1
           /\ takes(e.buf[VStart(e) + info.hookPos].sym)
           /\ MayMark(e, VStart(e) + info.hookPos) -> Unmark(e, info.hookPos)
        [] OTHER -> NoChange

processHook(e) ==
  IF hasVowel(e) THEN Rewrite(e, HookChange(e, VSeqList[VSeq(e)])) ELSE AsText(e)

-----------------------------------------------------------------------------
\* The tone of the event at position pos; the same tone again is taken back.
ToneAt(e, pos) ==
  CASE e.buf[pos].tone # e.ev.tone -> Ret(SetTone(e, pos, e.ev.tone), 1)
    [] e.buf[pos].tone = e.ev.tone /\ e.ev.tone # 0 -> Undo(SetTone(e, pos, 0))
    [] OTHER -> AsText(e)

processTone(e) ==
  LET n == Len(e.buf)
      w == Top(e)
      refused == \/ /\ e.ctl.options.spellCheck /\ ~e.ctl.options.freeMarking
                    /\ ~VSeqList[VSeq(e)].complete
                 \/ w.form \in {"vc", "cvc"} /\ w.seq \in StopSuffixes /\ e.ev.tone \in {2, 3, 4}
  IN  CASE e.buf = <<>> -> AsText(e)
        [] e.buf # <<>> /\ w.form = "c" /\ w.seq = "gi"  -> ToneAt(e, n)
        [] e.buf # <<>> /\ w.form = "c" /\ w.seq = "gin" -> ToneAt(e, n - 1)
        [] OTHER -> IF ~hasVowel(e) \/ refused THEN AsText(e) ELSE ToneAt(e, TonePos(e))

\* Also after a d that belongs to no syllable and follows no vowel: DD is
\* common in abbreviations.
processDd(e) ==
  LET n == Len(e.buf)
      pos == n - Top(e).c1
      become(s, p, letter) == [markChange(s, p) EXCEPT !.buf[p].sym = letter, !.buf[p].seq = letter]
  IN  CASE e.buf = <<>> -> AsText(e)
        [] /\ e.buf # <<>> /\ Top(e).form = "nonVn" /\ Top(e).sym = "d"
           /\ e.buf[n - 1].sym \notin Vowels ->
             LET s == become([e EXCEPT !.single = TRUE], n, "dd")
             IN  Ret([s EXCEPT !.buf[n].form = "c", !.buf[n].c1 = 0], 1)
        [] /\ e.buf # <<>> /\ Top(e).c1 >= 0 /\ e.buf[pos].seq = "d"
           /\ MayMark(e, pos) -> Ret(become(e, pos, "dd"), 1)
        [] /\ e.buf # <<>> /\ Top(e).c1 >= 0 /\ e.buf[pos].seq = "dd"
           /\ MayMark(e, pos) -> Undo(become(e, pos, "d"))
        [] OTHER -> AsText(e)

\* The key stands for a letter.  When the letter does not fit, the key is
\* typed as text, in place of the letter if it was just typed with that key.
MapUndone(popped) ==
  LET n == Len(popped.buf)
      marked == markChange(popped, n)
  IN  Undo(Pop(IF Top(popped).form # "c" /\ n > 1 /\ popped.buf[n - 1].form \in {"v", "cv"}
               THEN MoveTone(marked, TonePos(marked),
                             VStart(marked) + TonePosition(marked, marked.buf[n - 1].seq, TRUE))
               ELSE marked))
MapTried(tried, key) ==
  LET sym == tried.ev.sym
      popped == [Pop(tried) EXCEPT !.ev = keyCodeToSymbol(key)]
      last == Top(popped)
  IN  CASE tried.buf # <<>> /\ Top(tried).form \notin {"empty", "nonVn"} -> Ret(tried, 1)
        [] tried.buf = <<>> -> Ret(tried, 0)
        [] OTHER -> IF last.form \notin {"empty", "nonVn"} /\ last.sym = sym.sym /\ last.caps = sym.caps
                    THEN MapUndone(popped) ELSE AsText(popped)
processMapChar(e) == MapTried(appendSymbol([e EXCEPT !.ev.sym.caps = @ # e.ctl.lock]), e.ev.key)

\* Before the second attempt of processTelexW the letter that the first one
\* appended goes.
RetractNothing(e, used) == [e EXCEPT !.telexW = used]       \* mutant: m_current-- forgotten
Retract(e, used) == [e EXCEPT !.buf = IF @ = <<>> THEN @ ELSE Front(@), !.telexW = used]

\* The w of Telex is a hook, or else the letter u+; it tries first the one it
\* was used for the last time.
TelexWAs(e, mapChar) ==
  LET letter == Symbol("uh", (e.ev.key \in Upper) # e.ctl.lock, 0) IN
  Finish(IF mapChar THEN processMapChar([e EXCEPT !.ev.type = "MapChar", !.ev.ch = "Vn", !.ev.sym = letter])
         ELSE processHook([e EXCEPT !.ev.type = "HookAll"]))
TelexWAgain(first, used) ==
  IF first.ret # 0 THEN first ELSE TelexWAs(Retract(first, used), used)
processTelexW(e) == TelexWAgain(TelexWAs(e, e.telexW), ~e.telexW)

processEscChar(e) ==
  LET afterVn == e.buf # <<>> /\ Top(e).form \notin {"empty", "nonVn"}
  IN  AsText([e EXCEPT !.esc = @ \/ afterVn])

\* UkKeyProcList.
UkKeyProc(e) ==
  CASE e.ev.type \in RoofEvents -> processRoof(e)
    [] e.ev.type \in HookEvents -> processHook(e)
    [] e.ev.type \in ToneEvents -> processTone(e)
    [] e.ev.type = "Dd"       -> processDd(e)
    [] e.ev.type = "telex_w"  -> processTelexW(e)
    [] e.ev.type = "MapChar"  -> processMapChar(e)
    [] e.ev.type = "EscChar"  -> processEscChar(e)
    [] e.ev.type = "Normal"   -> AsText(e)

\* A letter that fits no syllable starts a word of its own.  One that was
\* refused as a consonant with its tone (CSeqAfter) is no sequence of vowels
\* either: vs_nil stays in the buffer, and what the code then reads at
\* VSeqList[-1] is as undefined here as it is there.
processNoSpellCheck(e) ==
  LET n == Len(e.buf)
      w == Top(e)
      toned == e.ev.sym.tone # 0 /\ n > 1 /\ IsOnsetVowel(e.buf[n - 1], w.sym)
      vs == IF toned THEN Nil ELSE lookupVSeq(<<w.sym>>)
      new == IF w.sym \in Vowels THEN Word("v", -1, 0, -1, vs, w)
                                 ELSE Word("c", 0, -1, -1, lookupCSeq(<<w.sym>>), w)
      started == [e EXCEPT !.buf[n] = new]
  IN  IF e.ev.type = "Normal" /\ isalpha(e.ev.key) THEN Ret(started, 0)
      ELSE Ret(markChange(started, n), 1)

-----------------------------------------------------------------------------
\* Each buffer drops its oldest part when it is nearly full: whole words of
\* the one, half of the other.
NearlyFull(e) == e.buf # <<>> /\ Len(e.buf) - 1 + Slack >= BufSize
BreaksInYoungerHalf(e) ==
  {i \in (Len(e.buf) - 1) \div 2 + 1 .. Len(e.buf) - 1 : e.buf[i].form = "empty"}
PreparedBuf(e) ==
  CASE ~NearlyFull(e) -> e.buf
    [] NearlyFull(e) /\ BreaksInYoungerHalf(e) = {} -> <<>>
    [] OTHER -> SubSeq(e.buf, Min(BreaksInYoungerHalf(e)) + 1, Len(e.buf))

DropOneTooMany(e) ==                                        \* mutant
  IF Len(e.keys) > 1 /\ Len(e.keys) >= KeyBufSize
  THEN SubSeq(e.keys, (Len(e.keys) - 1) \div 2 + 2, Len(e.keys)) ELSE e.keys
PreparedKeys(e) ==
  IF Len(e.keys) > 1 /\ Len(e.keys) >= KeyBufSize
  THEN SubSeq(e.keys, (Len(e.keys) - 1) \div 2 + 1, Len(e.keys)) ELSE e.keys

prepareBuffer(e) == [e EXCEPT !.buf = PreparedBuf(e), !.keys = PreparedKeys(e)]

\* process: a key press.  A key after the escape character is text, or takes
\* the place of that character.
Handled(e, escaping) ==
  Finish(CASE ~escaping -> UkKeyProc(e)
           [] escaping /\ (e.buf = <<>> \/ e.ev.type \in {"Normal", "EscChar"}) -> AsText(e)
           [] OTHER -> InPlace(Pop(e)))
Spelt(e) ==
  IF /\ e.buf # <<>> /\ Top(e).form = "nonVn" /\ e.ev.ch = "Vn"
     /\ ~e.ctl.options.spellCheck \/ e.single
  THEN processNoSpellCheck(e) ELSE e
Recorded(e, k) ==
  IF e.buf = <<>> THEN e
  ELSE [e EXCEPT !.keys = Append(@, [key |-> k, brk |-> getCharType(k) = "WordBreak",
                                     conv |-> e.ret # 0 /\ ~e.restored])]
Begun(e, k) == [e EXCEPT !.changePos = Len(e.buf) + 1, !.ev = keyCodeToEvent(e.ctl.method, k), !.esc = FALSE]
process(e, k) == Recorded(Spelt(Handled(Begun(prepareBuffer(e), k), e.esc)), k)

\* The characters a call outputs: writeOutput, unless a handler has written.
Output(e) == IF e.written THEN e.out ELSE Render(e.ctl.charset, SubSeq(e.buf, e.changePos, Len(e.buf)))

\* One key stroke is dropped with a letter, and all those of the word when
\* the buffer is back at a word break.
synchNothing(e) == e                                        \* mutant: key strokes left
synchKeyStrokeBuffer(e) ==
  LET keys == IF e.keys = <<>> THEN <<>> ELSE Front(e.keys)
      breaks == {i \in DOMAIN keys : keys[i].brk}
  IN  [e EXCEPT !.keys = IF e.buf # <<>> /\ Top(e).form = "empty"
                         THEN SubSeq(keys, 1, Max({0} \cup breaks)) ELSE keys]

\* The last letter goes, and the tone of its syllable from tonePos to newPos.
BackspaceFrom(e, tonePos, newPos) ==
  LET n == Len(e.buf)
      marked == markChange([e EXCEPT !.changePos = n + 1], n)
      simple == \/ n = 1 \/ Top(e).form \in {"empty", "nonVn", "c"}
                \/ e.buf[n - 1].form \in {"c", "vc", "cvc"}
                \/ e.buf[tonePos].tone = 0 \/ tonePos = n \/ tonePos = newPos
      popped == synchKeyStrokeBuffer(Pop(IF simple THEN marked ELSE MoveTone(marked, tonePos, newPos)))
  IN  IF simple THEN Ret([popped EXCEPT !.written = TRUE], IF popped.backs > 1 THEN 1 ELSE 0)
      ELSE Ret(popped, 1)

processBackspace(e) ==
  IF e.buf = <<>> THEN Ret(e, 0)
  ELSE BackspaceFrom(e, TonePos(e), VStart(e) + TonePosition(e, e.buf[Len(e.buf) - 1].seq, TRUE))
=============================================================================
