------------------------------ MODULE UkEngine ------------------------------
(***************************************************************************)
(* The engine behind its interface (unikey.cpp), driven by a client that   *)
(* applies every answer to its text at once: it deletes UnikeyBackspaces   *)
(* units before the caret, puts UnikeyBuf there, and when both are empty   *)
(* lets the key itself through.  One client call is one step.              *)
(***************************************************************************)
EXTENDS UkHandlers

CONSTANTS Keys,         \* the keys given to UnikeyFilter
          PassKeys,     \* the keys given to UnikeyPutChar: those of the keypad
          Calls,        \* the other calls the client makes
          Locks,        \* the states of CapsLock, a subset of BOOLEAN
          Shifts,       \* the states of Shift when a key is pressed
          Junks,        \* see CSeqAfter
          Methods, Charsets, OptionSets, Macros,
          MaxPresses    \* bound: keys pressed in a behaviour

ASSUME KeysAssumption == Keys \subseteq KeyCodes /\ PassKeys \subseteq KeyCodes
\* Key maps bind characters, no control codes.
ASSUME MethodsAssumption ==
  \A m \in Methods : "RET" \notin DOMAIN m /\ \A k \in DOMAIN m : m[k] \in UkEvLabelList
ASSUME PressesAssumption == MaxPresses \in Nat

VARIABLES buf, keys,    \* m_buffer[0..m_current], m_keyStrokes[0..m_keyCurrent]
          single, esc,  \* m_singleMode, m_toEscape
          telexW,       \* usedAsMapChar
          options, method, charset,   \* UkSharedMem
          screen,       \* the client's text since the buffer was last empty, in units
          typed,        \* history: the keys pressed since the last word break, oldest
                        \* first, with "BackSpace" where one has cut into the word
          presses       \* keys pressed so far
vars == <<buf, keys, single, esc, telexW, options, method, charset, screen, typed, presses>>

CtlAt(lock, shift, junk) ==
  [options |-> options, charset |-> charset, method |-> method, macros |-> Macros,
   lock |-> lock, shift |-> shift, junk |-> junk]
NoEvent == [type |-> "Normal", ch |-> "Reset", key |-> "RET", sym |-> KeySymbols["RET"], tone |-> 0]

\* The engine as a call finds it.
EngineAt(lock, shift, junk) ==
  [buf |-> buf, keys |-> keys, single |-> single, esc |-> esc, telexW |-> telexW,
   changePos |-> Len(buf) + 1, backs |-> 0, written |-> FALSE, out |-> <<>>, restored |-> FALSE,
   ev |-> NoEvent, ret |-> 0, then |-> "return", ctl |-> CtlAt(lock, shift, junk)]
Engine == EngineAt(FALSE, FALSE, Nil)

-----------------------------------------------------------------------------
\* A text after n units before the caret are deleted and out is put there.
\* Overrun stands for a unit that was there before the engine's first one.
Overrun == <<Symbol("overrun", FALSE, 0), 0>>
Apply(text, n, out) ==
  IF n > Len(text) THEN <<Overrun>> \o out ELSE SubSeq(text, 1, Len(text) - n) \o out

\* The engine's part of the text, once prepareBuffer has dropped old words.
Owned ==
  LET dropped == Len(buf) - Len(prepareBuffer(Engine).buf)
      units == Len(Render(charset, SubSeq(buf, 1, dropped)))
  IN  IF buf = <<>> \/ dropped = Len(buf) THEN <<>> ELSE SubSeq(screen, units + 1, Len(screen))

Put(e) == /\ buf' = e.buf /\ keys' = e.keys /\ single' = e.single
          /\ esc' = e.esc /\ telexW' = e.telexW
Keep == UNCHANGED <<telexW, options, method, charset>>

\* The key k was pressed: the engine is e now and the client's text is text.
Pressed(k, e, text) ==
  /\ presses < MaxPresses
  /\ presses' = presses + 1
  /\ Put(e)
  /\ screen' = text
  /\ typed' = IF AtWordBeginning(e.buf) THEN <<>> ELSE Append(typed, k)
  /\ UNCHANGED <<options, method, charset>>
Silent(e) == e.ret = 0 \/ (e.backs = 0 /\ Output(e) = <<>>)

Filter(k, lock, shift, junk) ==
  \E e \in {process(EngineAt(lock, shift, junk), k)} :
     Pressed(k, e, IF Silent(e) THEN Owned \o Raw(<<k>>) ELSE Apply(Owned, e.backs, Output(e)))

\* UnikeyPutChar: the key goes through as it is.
PutChar(k, junk) ==
  \E e \in {processAppend([EngineAt(FALSE, FALSE, junk) EXCEPT !.ev = keyCodeToEvent(method, k)])} :
     Pressed(k, e, (IF buf = <<>> THEN <<>> ELSE screen) \o Raw(<<k>>))

\* UnikeyBackspacePress.  With an empty buffer it does nothing, and the key
\* deletes a unit the engine knows nothing about.
BackspacePress ==
  \E e \in {processBackspace(Engine)} :
     /\ "BackSpace" \in Calls
     /\ buf # <<>>
     /\ Put(e)
     /\ screen' = Apply(screen, e.backs, Output(e))
     /\ typed' = IF AtWordBeginning(e.buf) THEN <<>> ELSE Append(typed, "BackSpace")
     /\ UNCHANGED <<options, method, charset, presses>>

\* UnikeyRestoreKeyStrokes.
RestoreKeyStrokes(junk) ==
  \E e \in {restoreKeyStrokes(EngineAt(FALSE, FALSE, junk))} :
     /\ "Restore" \in Calls
     /\ Put(e)
     /\ screen' = IF e.ret = 0 THEN screen ELSE Apply(screen, e.backs, e.out)
     /\ UNCHANGED <<options, method, charset, typed, presses>>

\* UnikeyResetBuf, and what resets the engine within another call.
Reset == Put(reset(Engine)) /\ screen' = <<>> /\ typed' = <<>> /\ UNCHANGED presses
ResetBuf == "Reset" \in Calls /\ Reset /\ Keep
SetInputMethod(m) == "Method" \in Calls /\ Reset /\ method' = m /\ UNCHANGED <<options, charset>>
SetOutputCharset(c) == "Charset" \in Calls /\ Reset /\ charset' = c /\ UNCHANGED <<options, method>>

\* UnikeySetSingleMode, UnikeySetOptions: the word goes on.
SetSingleMode ==
  /\ "Single" \in Calls
  /\ single' = TRUE
  /\ UNCHANGED <<buf, keys, esc, screen, typed, presses>> /\ Keep
SetOptions(o) ==
  /\ "Options" \in Calls
  /\ options' = o
  /\ UNCHANGED <<buf, keys, single, esc, telexW, method, charset, screen, typed, presses>>

Init ==
  /\ buf = <<>> /\ keys = <<>> /\ single = FALSE /\ esc = FALSE /\ telexW = FALSE
  /\ options \in OptionSets /\ method \in Methods /\ charset \in Charsets
  /\ screen = <<>> /\ typed = <<>> /\ presses = 0

Press ==
  \E k \in Keys, lock \in Locks, shift \in Shifts, junk \in Junks : Filter(k, lock, shift, junk)
OtherCall ==
  \/ \E k \in PassKeys, junk \in Junks : PutChar(k, junk)
  \/ BackspacePress
  \/ \E junk \in Junks : RestoreKeyStrokes(junk)
  \/ ResetBuf
  \/ \E m \in Methods : SetInputMethod(m)
  \/ \E c \in Charsets : SetOutputCharset(c)
  \/ SetSingleMode
  \/ \E o \in OptionSets : SetOptions(o)
Next == Press \/ OtherCall

Spec == Init /\ [][Next]_vars

-----------------------------------------------------------------------------
\* Entry i of the buffer ends its syllable: no later entry belongs to it.
EndsSyllable(i) ==
  /\ buf[i].v >= 0
  /\ i < Len(buf) => /\ buf[i + 1].form \notin {"cv", "vc", "cvc"}
                     /\ buf[i + 1].form = "v" => VSeqList[buf[i + 1].seq].len = 1
VowelEnd(i) == i - buf[i].v
VowelSeq(i) == buf[VowelEnd(i)].seq
VowelStart(i) == VowelEnd(i) - VSeqList[VowelSeq(i)].len + 1
Letters(first, last) == [i \in 1 .. last - first + 1 |-> buf[first + i - 1].sym]
\* The letters without marks or tones, and their case.
Typed(ws) == [i \in DOMAIN ws |-> <<Root(ws[i].sym), ws[i].caps>>]

\* The client's text is what the engine believes it to be: each of its
\* answers erased exactly the units that stood for the changed letters
\* (getSeqSteps, markChange, writeOutput).
ScreenMatchesBuffer == buf # <<>> => screen = Render(charset, buf)

\* The sequence number kept with each vowel and consonant agrees with the
\* letters of the buffer: the handlers decide by the one and output the other.
VowelsMatchLetters ==
  \A i \in DOMAIN buf : buf[i].v >= 0 => Letters(VowelStart(i), VowelEnd(i)) = VSeqList[VowelSeq(i)].v
SequencesMatchLetters ==
  /\ VowelsMatchLetters
  /\ \A i \in DOMAIN buf :
        (buf[i].form \in {"c", "vc", "cvc"} /\ buf[i].seq # Nil) =>
           Letters(i - Len(CSeqList[buf[i].seq]) + 1, i) = CSeqList[buf[i].seq]

\* Every syllable the engine composes is one of the language, though marks
\* are taken back, and the hook put on uo, without a check; but for qu with u.
QuWithU(i) == C1(Engine, i) = "qu" /\ Letters(VowelStart(i), VowelStart(i)) = <<"u">>
SyllablesValid ==
  \A i \in DOMAIN buf :
     buf[i].v >= 0 => isValidCVC(C1(Engine, i), VowelSeq(i), C2(Engine, i)) \/ QuWithU(i)

\* The tone of a syllable is on the letter getTonePosition names, and on no
\* other, whatever was typed, marked, unmarked or deleted after it.
TonePlacement ==
  \A i \in DOMAIN buf : EndsSyllable(i) =>
     \A j \in VowelStart(i) .. VowelEnd(i) :
        buf[j].tone # 0 =>
          j = VowelStart(i) + getTonePosition(VowelSeq(i), buf[i].v = 0, options.modernStyle)

Again(e) == [Engine EXCEPT !.buf = e.buf, !.keys = e.keys, !.single = e.single, !.esc = e.esc,
                           !.telexW = e.telexW, !.changePos = Len(e.buf) + 1]
\* A key that puts a mark on an unmarked word, pressed again, takes it back
\* and is typed (the undo branches of the handlers); uo after th is hooked in
\* two steps.
MarkTakenBack ==
  ~lastWordHasVnMark(Engine) =>
    \A k \in {k \in Keys : keyCodeToEvent(method, k).type \notin {"Normal", "MapChar", "EscChar"}} :
      \A first \in {process(Engine, k)} :
        LET n == Len(buf)
        IN  (/\ Len(first.buf) = n /\ lastWordHasVnMark(first)
             /\ ~(n > 3 /\ Letters(n - 3, n - 2) = <<"t", "h">> /\ Letters(n - 1, n) = <<"u", "o">>))
            => Render(charset, process(Again(first), k).buf) = Append(Render(charset, buf), <<KeySymbols[k], 1>>)

-----------------------------------------------------------------------------
\* A key press marks the letters before it or adds itself; it deletes,
\* reorders or changes the case of none, but a key that stands for a letter
\* may replace that letter by itself, and any key an escape character.
LettersStay ==
  LET old == prepareBuffer(Engine).buf
      n == Len(old)
      replaceable(w) == w.sym \in {"\\", "uh"} \cup {MapChars[c].sym : c \in Range(method) \cap DOMAIN MapChars}
  IN  (presses' # presses /\ buf' # <<>>) =>
        \/ Typed(buf') = Typed(old)
        \/ Len(buf') = n + 1 /\ Typed(Front(buf')) = Typed(old)
        \/ Len(buf') = n /\ Typed(Front(buf')) = Typed(Front(old)) /\ replaceable(Last(old))

\* Restoring a word puts in the client's text exactly the keys it was typed
\* with (README1ST: "to restore a sequence of key strokes").
RestoredKeys ==
  ((\E junk \in Junks : RestoreKeyStrokes(junk)) /\ "BackSpace" \notin Range(typed)) =>
     \/ screen' = screen
     \/ screen' = Render(charset, SubSeq(buf, 1, WordStart(Engine) - 1)) \o Raw(typed)

\* A word break leaves the word as it is or gives back the keys it was typed
\* with; it does nothing else to the text.
WordEnds ==
  (presses' # presses /\ buf' # <<>> /\ AtWordBeginning(buf')) =>
     \E k \in Keys \cup PassKeys :
        \/ screen' = Owned \o Raw(<<k>>)
        \/ screen' = Render(charset, SubSeq(buf, 1, WordStart(Engine) - 1)) \o Raw(Append(typed, k))

\* When a word break is typed, a last word that is a macro gives way to the
\* macro's text, and nothing else of the client's text changes; the space bar
\* with Shift spares it, and no other word is expanded (macroMatch).
WordsExpand ==
  LET word == WordStart(Engine)
      isMacro(p) == MacroKey(Engine, p) \in DOMAIN Macros
      pressed(k, shift) == \E lock \in Locks, junk \in Junks : Filter(k, lock, shift, junk)
  IN  (presses' # presses /\ (buf' = <<>> \/ isMacro(word))) =>
        \A k \in {k \in Keys : keyCodeToEvent(method, k).ch = "WordBreak"}, shift \in Shifts :
          LET expanded(p) == screen' = Render(charset, SubSeq(buf, 1, p - 1))
                                         \o Append(Macros[MacroKey(Engine, p)], <<KeySymbols[k], 1>>)
              spared == ~options.macroEnabled \/ (shift /\ k = " ")
          IN  pressed(k, shift) =>
                IF ~spared /\ isMacro(word) THEN buf' = <<>> /\ expanded(word)
                ELSE buf' = <<>> => ~spared /\ \E p \in DOMAIN buf : isMacro(p) /\ expanded(p)

\* A backspace deletes the last letter and no other ("the number of
\* backspaces actually required to remove one character", unikey.h).
LastLetterGoes == BackspacePress => Typed(buf') = Front(Typed(buf))

\* The two arrays are filled and emptied as UkBuffer has it.
Buffers == INSTANCE UkBuffer WITH
  current <- Len(buf) - 1, keyCurrent <- Len(keys) - 1
BufferSpec == Buffers!Spec
CharsInRange == Buffers!CharsInRange
=============================================================================
