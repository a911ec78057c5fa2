----------------------------- MODULE MCUkEngine -----------------------------
(***************************************************************************)
(* Instances of UkEngine for TLC.  A behaviour begins with the keys of one *)
(* of Scripts and goes on with FreeSteps steps of any kind: the scripts    *)
(* take it to the words on which the handlers differ.                      *)
(***************************************************************************)
EXTENDS UkEngine

CONSTANTS Scenes        \* what a user types and calls, a set of Scene; one for each behaviour

VARIABLES scene,
          script,       \* the keys of the script still to press
          left          \* steps left
mcvars == <<buf, keys, single, esc, telexW, options, method, charset, screen, typed, presses, scene, script, left>>

\* What the scenes need together: the constants of UkEngine.
AllKeys == UNION {s.keys : s \in Scenes}
AllPassKeys == UNION {s.passKeys : s \in Scenes}
AllCalls == UNION {s.calls : s \in Scenes}
AllLocks == UNION {s.locks : s \in Scenes}
AllShifts == UNION {s.shifts : s \in Scenes}
AllJunks == UNION {s.junks : s \in Scenes}
AllMethods == UNION {s.methods : s \in Scenes}
AllCharsets == UNION {s.charsets : s \in Scenes}
AllOptionSets == UNION {s.options : s \in Scenes}

MCInit ==
  /\ Init
  /\ scene \in Scenes
  /\ options \in scene.options /\ method \in scene.methods /\ charset \in scene.charsets
  /\ script \in scene.scripts /\ left = scene.steps
Now(choices, scripted) == IF script = <<>> THEN choices ELSE {scripted}
Type ==
  /\ \E k \in IF script = <<>> THEN scene.keys ELSE {script[1]},
        lock \in Now(scene.locks, FALSE), shift \in Now(scene.shifts, FALSE), junk \in Now(scene.junks, Nil) :
          /\ script = <<>> => left > 0
          /\ Filter(k, lock, shift, junk)
          /\ IF script = <<>> THEN left' = left - 1 /\ UNCHANGED script
             ELSE script' = Tail(script) /\ UNCHANGED left
  /\ UNCHANGED scene
Call ==
  /\ script = <<>> /\ left > 0
  /\ \/ \E k \in scene.passKeys, junk \in scene.junks : PutChar(k, junk)
     \/ "BackSpace" \in scene.calls /\ BackspacePress
     \/ "Restore" \in scene.calls /\ \E junk \in scene.junks : RestoreKeyStrokes(junk)
     \/ "Method" \in scene.calls /\ \E m \in scene.methods : SetInputMethod(m)
     \/ "Charset" \in scene.calls /\ \E c \in scene.charsets : SetOutputCharset(c)
     \/ "Single" \in scene.calls /\ SetSingleMode
     \/ "Options" \in scene.calls /\ \E o \in scene.options : SetOptions(o)
  /\ left' = left - 1 /\ UNCHANGED <<script, scene>>
Refocus == script = <<>> /\ ResetBuf /\ UNCHANGED <<script, left, scene>>
MCNext == Type \/ Call \/ Refocus
MCSpec == MCInit /\ [][MCNext]_mcvars

-----------------------------------------------------------------------------
Option(free, modern, spell, restore, macro) ==
  [freeMarking |-> free, modernStyle |-> modern, spellCheck |-> spell,
   autoNonVnRestore |-> restore, macroEnabled |-> macro]
Default == Option(TRUE, FALSE, TRUE, FALSE, FALSE)      \* CreateDefaultUnikeyOptions
DefaultOnly == {Default}
BothStyles == {Default, Option(TRUE, TRUE, TRUE, FALSE, FALSE)}
\* The default, no spell check, and no free marking: the options under which
\* the word goes on when they change.  A change of the style of tones shows
\* only when the tone moves next.
Settings == {Default, Option(TRUE, FALSE, FALSE, FALSE, FALSE), Option(FALSE, FALSE, TRUE, FALSE, FALSE)}
AutoRestore == {Option(TRUE, FALSE, TRUE, TRUE, FALSE)}
WithMacros == {Option(TRUE, FALSE, TRUE, TRUE, TRUE)}

Telex == {TelexMethodMapping}
Vni == {VniMethodMapping}
TelexAndVni == Telex \cup Vni
Viqr == {VIQRMethodMapping}
\* doc/im-samples/telex-std: Telex with four keys that stand for letters.
Maps == {VIQRMethodMapping,
         TelexMethodMapping @@ "[" :> "u+" @@ "]" :> "o+" @@ "{" :> "U+" @@ "}" :> "O+"}

NoMacros == <<>>
Plain(k) == KeySymbols[k]
\* A word, a word with a barred d, and one that begins with a space.
SomeMacros ==
  <<Plain("a"), Plain("n")>> :> Raw(<<"h", "a", "n", "h">>) @@
  <<Symbol("dd", FALSE, 0), Plain("a")>> :> Raw(<<"d", "a", "u">>) @@
  <<Plain(" "), Plain("n")>> :> Raw(<<" ", "a", "b">>)

\* Words without marks: every onset with every vowel sequence, and these with
\* a consonant after them.
PlainVowels == {[i \in DOMAIN VSeqList[s].v |-> Root(VSeqList[s].v[i])] : s \in VS}
Onsets == {<<>>, <<"t", "h">>, <<"q", "u">>, <<"g", "i">>}
Words == {o \o v : o \in Onsets, v \in PlainVowels}
           \cup {v \o c : v \in PlainVowels, c \in {<<"n">>, <<"c", "h">>}}

-----------------------------------------------------------------------------
\* Telex with the default options; the others say what they do otherwise.
Scene(name, letters, steps) ==
  [name |-> name, keys |-> letters, steps |-> steps, passKeys |-> {}, calls |-> {"Reset"},
   locks |-> {FALSE}, shifts |-> {FALSE}, junks |-> {"nil"}, methods |-> Telex,
   charsets |-> {"XUTF8"}, options |-> DefaultOnly, scripts |-> {<<>>}]

\* Every word without marks, then two steps, in both styles of tones.
TelexScene ==
  [Scene("telex", {"a", "e", "o", "w", "s", "z", "d", "u", "i", "n", "h", "W"}, 2)
     EXCEPT !.calls = {"BackSpace", "Reset"}, !.options = BothStyles, !.scripts = Words]
\* Charsets, methods, spell check, free marking and single mode, changed at any time.
SettingsScene ==
  [Scene("settings", {"a", "o", "w", "s", "d", "z", "n", "1", "7", "0xE1", "RET"}, 4)
     EXCEPT !.calls = {"BackSpace", "Reset", "Method", "Charset", "Single", "Options"},
            !.passKeys = {"5"}, !.junks = {"nil", "ch"}, !.methods = TelexAndVni,
            !.charsets = {"XUTF8", "VNIWIN"}, !.options = Settings]
\* Restoring words, on demand and at word ends, and macros.
RestoreScene ==
  [Scene("restore", {"a", "w", "s", "d", "n", " ", "-"}, 5)
     EXCEPT !.calls = {"Restore", "Reset"}, !.shifts = {TRUE, FALSE},
            !.charsets = {"XUTF8", "VNIWIN"}, !.options = WithMacros]
\* Latin-1 letters with their tone, also where a vowel is a consonant.
LatinScene ==
  [Scene("latin", {"g", "q", "i", "u", "a", "n", "s", "0xED", "0xDA"}, 4)
     EXCEPT !.calls = {"BackSpace", "Reset"}]
WordScenes == {TelexScene, SettingsScene, RestoreScene, LatinScene}

\* Keys that stand for letters, CapsLock, the escape character; no restoring.
MapScene ==
  [Scene("maps", {"u", "o", "w", "[", "c", "s", " ", "'", "^", "+", "\\"}, 5)
     EXCEPT !.locks = {TRUE, FALSE}, !.methods = Maps]
\* Every call, in long texts.
LongScene ==
  [Scene("long", {"a", "s", " "}, 9)
     EXCEPT !.calls = {"BackSpace", "Restore", "Reset"}, !.passKeys = {"5"}, !.options = AutoRestore]
BufferScenes == {MapScene, LongScene}

\* More key strokes than letters.
RoomScenes == {[Scene("room", {"a", "s", "f", " "}, 9) EXCEPT !.calls = {"Restore", "Reset"}]}

-----------------------------------------------------------------------------
\* The properties of UkEngine, each in the scenes it is about.
In(names) == scene.name \in names

\* What the engine records of a word, the word's letters and its tone stay one
\* description.  Without spell check any vowels may come together, and what a z
\* leaves is no sequence.
WordsConsistent ==
  /\ In({"telex", "maps", "settings", "latin"}) => TonePlacement
  /\ In({"telex", "maps", "latin"}) => SequencesMatchLetters /\ SyllablesValid

\* A mark typed twice is taken back and typed.
MarkTwiceUndoes == In({"telex"}) => MarkTakenBack

\* Without restoring, no letter is deleted, reordered or changed in case by a key,
\* and a backspace deletes the last letter and no other.
KeepsLetters ==
  [][/\ In({"telex", "maps", "latin"}) => LettersStay
     /\ In({"telex", "settings", "latin"}) => LastLetterGoes]_vars

\* Restoring gives back the keys, on demand and at the end of a word; a macro
\* takes the place of its word and of nothing else.
RestoreGivesKeys == [][In({"restore"}) => RestoredKeys]_vars
WordEndKeepsOrRestores == [][In({"restore"}) => WordEnds]_vars
MacroReplacesWord == [][In({"restore"}) => WordsExpand]_vars

\* While nothing is restored the arrays fill as the proved specification says.
TypingSpec == Buffers!Init /\ [][In({"maps"}) => Buffers!TypingNext]_<<buf, keys>>
=============================================================================
