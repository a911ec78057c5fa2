# A verification development for UnikeyAI

UnikeyAI turns the keys of a plain keyboard into Vietnamese text: an engine in
C++ (`src/src/ukengine`) that rewrites the last word after every key, and front
ends (an XIM server, a GTK input module, a macOS event tap) that apply the
engine's answers to the text of another program. This directory holds TLA+
models of it, TLC configurations, and proofs for TLAPS. Paths below are relative
to the repository, which is taken to be in `src/`; `ukengine.cpp` and the like
without a path are in `src/src/ukengine`.

## 1. Inventory

| component | state it keeps | operations | what is hard | what makes it correct |
|---|---|---|---|---|
| **lexicon** (`ukengine.cpp` 63-483, `vnlexi.h`) | none: tables | look-ups, validity of a syllable, place of the tone | 70 rows of six columns written by hand, followed without checks | every step through the tables stays in the language; marks and tones where the letters say |
| **input processor** (`inputproc.cpp`) | the event bound to each key | `setIM`, `keyCodeToEvent`, `keyCodeToSymbol` | a key is a letter, a mark and a word break at once | each key types its own letter |
| **engine** (`ukengine.cpp`) | `m_buffer`, `m_keyStrokes`, `m_singleMode`, `m_toEscape`, the static `usedAsMapChar` | `process`, `pass`, `processBackspace`, `restoreKeyStrokes`, `reset`, `setSingleMode` | long sequences of keys; two descriptions of one word that must agree; arrays that drop their oldest part | the client's text is what the buffer says; no letter is lost; a mark can be taken back; arrays stay in range |
| **engine interface** (`ukinterface/unikey.cpp`) | `UkSharedMem`, `UnikeyBuf`, one global engine | the `Unikey...` calls | options change in the middle of a word; every input context shares the engine | the calls leave the engine in a state its rules can produce |
| **macro table** (`mactab.cpp`) | a sorted table over one block of memory | load, save, look up, add | the order used to sort is the order used to search | a word finds its own text |
| **user key maps** (`usrkeymap.cpp`) | none | read and write a key map | duplicates, upper and lower case | the map in memory is the one in the file |
| **charset converters** (`vnconv`) | the state of VIQR: a tone or mark just read, an escape, a pattern half seen | convert a text, one unit at a time | escapes, composed letters, marks that are also punctuation | converting there and back is the identity where both charsets have the letter |
| **byte streams** (`byteio`) | a position, push-back, room left | read, peek, give back, write | two implementations of one interface; output that is full | a file and a string with the same bytes are read alike |
| **XIM server** (`xim/xim.c`, `IC.c`) | `PendingCommit`, `PostponeKeyEv`, `PostponeCount`, `DataCommit`, contexts | key events, focus, triggers, X properties, signals | fake BackSpace and F12 events in flight while real keys arrive; focus changes in between; two servers started at once | the text is what the keys say, in their order |
| **XIM options** (`ukopt.c`, `optparse.c`, `uksync.c`) | none | read options and write them, read and write properties | fields of several widths behind one pointer; the order of two properties | what is saved is what was read; both sides end with the same method |
| **GTK module** (`unikey-gtk/gtkimcontextvn.c`) | `PendingBuf`, `BackCount`, `ResetByKey`, static and shared by contexts | key events, reset, focus | as XIM, with the queue of GDK | as XIM |
| **control window** (`gui/gui.c`) | the server's process, whether it has answered | launch, relaunch, quit | signals against timeouts | one server runs, or the user is told |
| **macOS event tap** (`macos/main.mm`) | on or off, the hotkey machine | events of keys, flags and mouse | a hotkey made of modifiers only; replacement by fake keys | the hotkey fires once for a clean press, the engine forgets when the caret moves |
| **IMdkit**, build files | - | - | vendored; no behaviour of this program | - |

How they interact. A front end calls `UnikeyFilter` for a character, reads
`UnikeyBackspaces` and `UnikeyBuf`, and deletes and inserts that much; a call
with nothing to do means that the key itself goes through. It calls
`UnikeyBackspacePress` before it lets a backspace through, `UnikeyResetBuf` when
the caret may have moved, `UnikeyPutChar` for keypad keys and
`UnikeyRestoreKeyStrokes` for a hotkey. The engine calls back for the state of
Shift and CapsLock. The XIM server and the control window agree on the method
and the charset through properties of the X root window and signals.

The engine runs in one thread, to completion, on each call: what is hard about
it is the number of histories that lead to a word, not concurrency. Concurrency
is in the front ends. `PROJECT.json` lists the hazards with their lines.

## 2. Plan

Done:

1. `UkLexi`, `UkInput`, `UkWord`, `UkHandlers`: the engine as operators.
2. `UkEngine`: the interface as a state machine with a client.
3. `UkBuffer`, `UkBufferProofs`: an abstract specification of the two arrays,
   implemented by `UkEngine`, with proofs.
4. `KeysAtOnce`, and the two front ends of X against it: `XimCommit` and `GtkCommit`,
   with proofs.
5. `MacTap`: the hotkey machine and the ways to replace text, with proofs.
6. `Session`: window, servers, signals, properties, option file.
7. `VnTables`, `VnConv`, `ByteIO`, `MacroTable`, `UsrKeyMap`, `OptFile`, checked in
   `MCFiles`: data structures and conversions against reference definitions.
8. `QueueLemmas`, `GtkCommitProofs`, `XimCommitProofs`: both front ends of X implement
   `KeysAtOnce`; `SessionProofs`.
9. `IcList`: the list of input contexts, and trigger keys.
10. `UkEngineProofs`: the engine implements `UkBuffer`, handler by handler.
11. `ScreenProofs`: the client's text is what the engine's buffer says, and the vowels
    noted there are those of its letters.

Left:

12. Several input contexts of one GTK program, which share its static variables.
13. Proofs of the rest of `WordsConsistent`: consonants, validity, tones.

## 3. Modules

| module | what it models |
|---|---|
| `UkLexi` | `VSeqList`, `CSeqList`, `VCPairList`, the look-ups, `isValidCV`, `isValidVC`, `isValidCVC`, `getTonePosition`. Letters are strings without case or tone. `sub[]` is left out of the rows: it is the list of the prefixes of `v` (`Sub`). A binary search in a sorted table is its result, a function. |
| `UkInput` | `SetupInputClassifierTable`, the built-in maps, `keyCodeToEvent`, `keyCodeToSymbol`, and the labels of `usrkeymap.cpp` that stand for characters. |
| `UkWord` | The engine as a record; output (`writeOutput`, `getSeqSteps`, `markChange`); `appendVowel`, `appendConsonnant`, `processAppend`, `reset`. |
| `UkHandlers` | `processWordEnd`, `restoreKeyStrokes`, `macroMatch`; one operator for each entry of `UkKeyProcList`; `prepareBuffer`, `process`, `processBackspace`. |
| `UkEngine` | The interface and a client. One action for each call of `unikey.h` that changes the engine. |
| `MCUkEngine` | Instances: option sets, key maps, macros, scripts. |
| `MCUkLexi` | The lexicon alone, over all valid syllables. |
| `UkBuffer` | How full `m_buffer` and `m_keyStrokes` are, for any text. |
| `UkBufferProofs` | Theorems on `UkBuffer`. |
| `UkEngineProofs` | Theorems on `UkEngine`: it implements `UkBuffer`; what a backspace takes. The lemmas on the tables, on the shape of a buffer and on its text. |
| `ScreenProofs` | Theorems on `UkEngine`: the client's text is what the buffer says, and the vowels noted there are those of its letters. |
| `KeysAtOnce` | What a front end promises: each key is taken once and changes the text in one step. |
| `ClientText` | The text of a client before its caret. |
| `XimCommit` | `ProcessKey`, `MyForwardEventHandler`, `restoreKeys`, `resetState`, focus, the properties `AIMMethod` and `AGUIVisible`, `reloadConfig`; with the queue of the client's window, X, the client's text and a user. |
| `XimCommitProofs` | Theorems on `XimCommit`: that nothing is held back for ever, and that the text is the engine's. |
| `GtkCommit` | `gtk_im_context_vn_filter_key` and what it calls, `reset`, focus, `gtk_im_context_vn_event_filter`; with the queue of GDK, the widget and a user. |
| `GtkCommitProofs` | Theorems on `GtkCommit`, likewise. |
| `QueueLemmas` | What counting, splitting and appending do to any sequence; what deleting and inserting do to a text. |
| `MacTap` | `EventTapCallback`, `HandleFlagsChangedForSwitchHotkey`, replacing text by keys and through Accessibility; with the queue of events, the field and a user. |
| `MacTapProofs` | Theorems on `MacTap`: the hotkey, and that the engine's word is the one before the caret. |
| `Session`, `MCSession` | The processes: `gui.c` and `xim.c` outside their handling of keys; properties of the root window, signals, the selections that say who runs, the option file. `MCSession` has the files and bounds. |
| `SessionProofs` | Theorems on `Session`: launches, and that window and server agree. |
| `VnTables` | The tables of `data.cpp`, from which all charsets are built. |
| `VnConv` | Every charset's `nextInput` and `putChar`, `PatternList`, `genConvert`. |
| `ByteIO` | `StringBIStream`, `FileBIStream`, `StringBOStream`, `FileBOStream`. |
| `MacroTable` | `CMacroTable`: adding, sorting, looking up, reading and writing files of both versions. |
| `UsrKeyMap` | Reading, keeping and storing a user's key map. |
| `OptFile` | `UkParseOptFile`, `ParseWriteOptFile` and the options' types. |
| `IcList` | The input contexts of `IC.c`, what the clients ask of them, and `MyTriggerNotifyHandler`. |
| `MCFiles` | The inputs of the last seven modules, and what is promised of each. |

Correspondence. Positions count from 1, so `m_current` is `Len(buf) - 1`. An
entry of `buf` is a `WordInfo`: `form`, the three offsets `c1`, `v`, `c2`, one
field `seq` for the union of `vseq` and `cseq`, and `sym`, `caps`, `tone`. A call
works on a record `e` that holds the state it finds, the variables of one call
(`m_backs`, `m_changePos`, `m_outputWritten`, the output) and what it sees of the
shared memory; the action then stores the state again. A handler that ends with a
call of `processAppend` says so in `e.then` (`AsText`, `Undo`, `InPlace`) and
`Finish` makes the call; `processTelexW` makes one attempt or two (`TelexWAgain`). Roofs and
hooks first choose a `Change` of the vowel sequence, then `Rewrite` carries it out.
`m_reverted` is written and never read; it is left out.

The client in `UkEngine` keeps `screen`, the text since the buffer was last
empty, in units of the charset: it deletes `UnikeyBackspaces` units, inserts the
output, or inserts the key. When `prepareBuffer` drops old words the client's
part of the text is cut likewise (`Owned`). `typed` is a history variable: the
keys of the present word.

Operators marked *mutant* are wrong on purpose: each is a definition as a
plausible mistake would have left it, and the property it is meant for fails
when it takes the place of the definition that follows it.

`XimCommit` has one queue from the user through the client to the server, because
each part of that way keeps the order, and a second one, `sent`, for what the server
gave to `XSendEvent` and X has not put into the first: keys of the user may come
between any two events of the server. What the server sends to the client keeps its
order too and acts on the text only, so that it acts at once. The engine is any
engine: it deletes up to `MaxBacks` of the letters it knows (`own`) and inserts up to
`MaxLetters`. A letter is the number of the key that wrote it. `word` is the text by
the engine's answers. An event of the server and one of the user look the same to
the server; their numbers are for the properties only. `pace` says how the user
behaves: *waits* (for all events to be dealt with, then does anything), *oneAhead*
and *ahead* (types text while a commit is under way, one key or several) and *any*.
Left out are key releases and modifier keys, which pass without effect, trigger
keys (dynamic XimFlow, in which a trigger stands for the key), and changes of `CommitMethod` by `reloadConfig`, which is
between two events here.

`GtkCommit` has the one queue of GDK: what the module puts and what the user types go
to its tail. The new letters are committed when the Pause comes back, and a key that
comes before is put at the tail again. `toneMoves` says whether a BackSpace may change
more than one letter; if so `UnikeyBackspacePress` returns letters that
`gtkimcontextvn.c` does not commit. `InResetMode` is written and never read; `ResetByKey`
keeps from the engine the one reset that the widget makes after each BackSpace, and
is false between events. The
method is a root property when the control window is shown, of which the client is
told later (`notified`), and else a variable of the client.

`MacTap` has the events between the system and the application; synthetic ones pass
the tap as well. A flag event carries all modifiers held. `known` is what the
engine believes to be before the caret, `text` what is; `selected` stands for the
completion that a browser's address bar selects after the caret, which a first BackSpace
deletes. `mishaps` records why `known` may be wrong until the next reset, so that
`InSync` says that nothing else makes it wrong: events that passed a disabled tap,
keys posted to the search field of Spotlight, which ignores synthetic
BackSpaces, a BackSpace of the user that moves a tone, and one that
deletes a suggestion while the engine takes back a letter.

In `Session` a process is a record with its program counter, its variables and the
signals that wait for it (a set, as signals are). What a client asks of X waits in `out` until X does it; a client that
reads waits for that. X tells all who watch that a property has changed,
and they read the value it has by then. A `Crash` ends any process at any point, with any
part of its requests done; X then gives up its selections. `usrMap` stands for a
key map that is loaded. A handler of a signal runs between any two steps, among them
the two halves of the server's `fixSyncToUnikeyMethod`, which reads the property in
one and uses it in the other (`seen`). The
signal mask that `ximTerminatedHandler` sets is undone when it returns, and so is not
there. Assumed: X closes the connection of a dead process before its
successor asks for the selection; children are not stopped and continued; `initXIM`
succeeds. The properties for the position of the window and raising it are left out.

In the modules on files a function stands for each operation, from the data it works
on to its result and the data after it. `VnConv` works on units of a
charset, bytes or words, and characters are numbers as in the source. A table that
the source writes out by a rule is defined by that rule. In `OptFile` a long
covers `IntsPerLong` of the int fields of `UnikeyOptions`: writing a
Boolean through a pointer to long, as `parseValue` does, writes so many.

What the abstraction leaves out of the engine: the sizes of the output buffer and of macro keys
(`MAX_MACRO_KEY_LEN`); `vietKey`, which no caller clears; the charsets other than
UTF-8 and VNI Windows, with `checkEscapeVIQR`; the key code of an entry, except
for what `sym` keeps of it. The consonant `z`, where it is no tone key, leaves
`cs_nil` in the buffer and the next consonant reads `CSeqList[-1]`: what the read
yields is a choice (`Junks`: no sequence, or one). A Latin-1 i or u with a tone after g
or q is looked up as a consonant with its tone, and found in no sequence; the model
keeps the tone beside the letter (`CSeqAfter`). Without spell check the code makes it a
vowel with `vs_nil` (`processNoSpellCheck`), and the next vowel or mark reads
`VSeqList[-1]`: what follows from there is not modelled, and no scene goes there.

## 4. Runs

| run | instance | shows |
|---|---|---|
| `MCUkLexi` | every onset, vowel sequence and coda that `isValidCVC` accepts | `MarkTablesExact`: `withRoof`, `withHook`, `roofPos`, `hookPos` say what the letters say. `StepsStayValid`: taking back a mark, hooking `uo` and deleting, which the handlers do without `isValidCVC`, stay in the language. `ToneOnMarkedLetter`. |
| `MCUkBuffer` | arrays of 24 and 20 entries, slack 4 | `CharsInRange`, `RoomAfterPrepare`, `KeysInRange`: the bounds of typing and deleting, proved in general (section 6). |
| `MCWords` | four scenes. Telex: the words with one of four onsets, all 70 vowel sequences without marks, or a coda; two free steps of 12 keys, backspace, reset; both styles of tones. Settings: 11 keys and a keypad key, four steps, two methods and charsets, three option sets, changed at any time. Restoring: seven keys, five steps, automatic restoring, macros, Shift. Latin: letters of Latin-1 with their tone among nine keys, after g and q too, four steps | `ScreenMatchesBuffer`: the client's text is what the buffer says, in the units that are on the screen. `WordsConsistent`: letters, recorded sequences, validity and tone are one description. `MarkTwiceUndoes`; `KeepsLetters`: a key loses no letter, a backspace one; `RestoreGivesKeys`, `WordEndKeepsOrRestores`, `MacroReplacesWord`. |
| `MCBuffers` | arrays of 5 and 4 entries. Maps: 11 keys, five steps, the map of `doc/im-samples` and VIQR, CapsLock. Long: nine steps of every call | `BufferSpec`, `TypingSpec`: `UkEngine` implements `UkBuffer`, so that its theorems hold of it. `ScreenMatchesBuffer`, `KeepsLetters` while letters are typed by one key, retracted or escaped, and while words are dropped. |
| `XimCommit` | four keys, two ahead, answers of up to two BackSpaces and one letter, both commit methods, all four paces | `OwesWord`, `TakesKeysAtOnce`: text typed ahead is neither lost, torn nor applied twice, and in order if one key ahead. For every user: `NothingStuck`, `EveryKeyTaken` (liveness), `OffIsIdle`, `ForwardExact`. |
| `GtkCommit` | as `XimCommit`, with the control window shown or not, tones that move or not | The same promises: `OwesWord`, `TakesKeysAtOnce`, `EveryKeyTaken`; `PauseComes`: no key waits for a Pause that is not coming; `FakesCounted`: for users who wait before BackSpace, the counter says which BackSpaces are the module's. |
| `MacTap` | five events, two ahead, three kinds of field, a tap that is disabled | `InSync`: the engine's word is the one before the caret. `HotkeyRemembers`: the two flags are what a history of the events says. |
| `MCFiles` | per kind of input: texts of up to three characters, words of the lexicon with every tone and punctuation, four fragments of patterns, six calls of a stream of at most eight bytes, four writes, three lines of macros, of a key map, of options; four requests to two input contexts | `ReadsBack`, `WordsKept`: charsets read what they write. `PatternsFound`, `StreamsExact`, `MacrosKept`, `KeyMapKept`, `OptionsSaved` (where a long is as wide as an int). `ContextsFound`: a context has what was set on it and nothing that an earlier one left. |
| `Session` | two windows, three servers, one GTK program; four sizes of session: one act with split requests, two acts, one act and two deaths, two windows | `Agreed`: when all has been dealt with, window, server and engine have the same switch, method, charset and visibility. `LaunchesEarned`: a server that never ran is not started again. |
| `RestoreRoom`, `XimFakeBackspace`, `OptionsSaved` | | violated, see section 5. |

Bounds. `MaxPresses` and the steps of a scene bound the keys of a behaviour, its
scripts take it to a word first. A Vietnamese syllable has at most three onset letters, three
vowels and two more consonants, and a handler looks at the last word only; the
scripts contain every vowel sequence without marks, so that two more
keys reach each branch of each handler, its undo branch included. Array sizes
are small in `MCBuffers` so that `prepareBuffer` runs several times in nine keys; the theorems
are for every size. Every run ends by exhausting its states. Resets are free
(`Refocus`), so that no state of the engine is without a successor and deadlock is checked. In the
other runs the user may stop, or the input ends, so that states without
successor are ends. Four keys in `XimCommit` and `GtkCommit` are a
letter, one that starts a commit, and two that come while it is under way;
or a commit, a reset and a second commit
that meets the events of the first. Five events in `MacTap` are two modifiers pressed
and let go with something between. In `Session`, `Limits` is a set of
sizes, because two windows, splitting and deaths at once are too many
states; three servers are the first one and two successors, and a window that wants a
fourth waits for ever, which is not `Quiet`. In `MCFiles` two ids stand for 65536, so that an id is given
again while its context lives and after;
no charset looks further than one unit ahead, and two lines of a file suffice
for any clash; a third may undo it. Windows are symmetric; no property
there is temporal.

Fairness. The engine answers each call before it returns. In `XimCommit` the X server
delivers what it was given, the client passes its events on and the server's loop
reads events and property changes: weak fairness of `DeliverSent`,
`MyForwardEventHandler` and `MethodChanged`. In `GtkCommit` the main loop of GTK
dispatches every event of the queue: weak fairness of the filter and of
`MethodChanged`. The user need not type. The other specifications have safety
properties only, and no fairness.

## 5. Disagreements between code and documents

The first three have a run that TLC finds violated.

- `RestoreRoom` (`CharsInRange`): `restoreKeyStrokes` appends as many entries as the
  word has key strokes without calling `prepareBuffer`.
- `XimFakeBackspace` (`FakeBackspace`): a BackSpace of the user that comes while a
  commit is pending is taken for one of the server's and not told to the engine.
- `OptionsSaved`: with a long of 64 bits, as on Linux, an option read or written
  through `long *` covers the next int field: reading `FreeStyle` clears `modernStyle`,
  `ModernStyle` clears `macroEnabled`, `EnableSpellCheck` clears
  `autoNonVnRestore`, and `ModernStyle = No` is saved as `Yes` when macros are on.

Met while modelling, without a run:

*Engine.* `synchKeyStrokeBuffer` drops one key stroke for one letter, against its
comment; `a`, `s`, backspace leaves the stroke `a`, and the next word starts with
it. `processWordEnd` lends `m_backs` to `restoreKeyStrokes`, which clears it also
when it refuses. In VIQR restoring does not give the keys: the tone keys
count as word breaks when the first key stroke of the word is looked for. With the
labels `Hook-U` and `Hook-O` of a key map the sequence recorded for `uo` after `th`
is not that of its letters. `KeepsLetters` fails in VIQR with backspaces, because
`m_toEscape` outlives the escape character; the VIQR scene has none for that reason.
After `q`, `u`, Telex `w` then `W` leave `qu` with the vowel `u`, which `isValidCV`
rejects (`QuWithU`). A key map that binds a letter key to a character that the engine then takes back
(`q` to `o+`, and `b`, `q`, `q` typed without the spell check) leaves the first character on the
screen: `processMapChar` takes its letter off the buffer, and `processNoSpellCheck`, to
which the event now is an ordinary key, returns 0 (`ukengine.cpp` 1143-1165 and 1724-1727), so
that nothing is deleted. In VIQR with VNI Windows `a`, `^`, `\`, backspace, `^` leaves half an `â` on
the screen: the escape that was deleted is still pending, and deletes one unit. Row 64 of `inputproc.cpp` binds 0xC2 a second time where 0xC3
is meant; no run has the key 0xC3. A word break of the keypad restores the word in
the buffer and not on the screen (`pass`), so that the runs with a keypad key have a digit.

*Front ends.* `OwesWord` fails for users who do anything at any time: a reset
forgets a commit whose BackSpaces are on their way, so Return typed during a commit
loses the letters that were to be inserted, in both front ends of X. Text
typed two keys ahead may be reordered. In GTK a BackSpace that moves the tone of
its word drops the letters that were to be written. On macOS a BackSpace that
deletes a suggestion also takes a letter from the engine.

*Session.* `initUnikey` discards what `getSyncAtoms` read before it. A window that is
hidden and shown at once makes the server read "visible" twice, so that it
reloads the file and never saves. With the user's own method and no key map the
window shows it and the engine keeps the method before. Two starts at one time
give two servers, which `singleLaunch` is to prevent. A reload before the server's
`signalSetup` kills it. Off, window and server may remember different methods. The manual
calls the user's method `UR`, `UkMethodList` has `UD`; and of `-config` it says
`~/.unikeyrc` by default, where elsewhere, as in the code, it is `~/.unikey/options`.

*Input contexts.* A font set stays for good once its name is "fontSet": `StoreIC` compares
it with the name of the attribute. The line space that a client sets is not the one it
is told, which is 18. After 65536 contexts two may have one id, and the older is not found.

*Charsets.* A symbol of Western charsets has code zero where a charset uses that code
for a letter, says the comment at `data.cpp` 92-93; in VPS, VISCII, BKHCM1 and VNI-MAC
some have both. TCVN3 and VIETWARE give some capitals the codes of small letters by design.
`&#` without `;` drops digits. In VIQR `dd`, text after a URL and two marked vowels
in a row need not come back. `StringBIStream` takes words beyond an odd end; an
empty string that ends in 0 converts nothing.

*Files.* A macro `key:` without text is given the key after it as text, `:text`
the text as key. Keys of many marked letters get longer in UTF-8 and are cut at the
next load. A key map takes `a = Roof-A` after `A = a^`, although the comment says
"already assigned, don't accept this map", and differs after it is
stored; the keys `;` and space are lost. In an option file a line that begins
with `=` reads before its buffer, a comment after a name is the value, and a `#` in a path cuts it. The
comment of `CommitMethod` lists `Mixed`, which the look-up lacks.

## 6. Proofs

`UkBufferProofs` proves, from `SizesAssumption` (2 <= Slack < BufSize and
3 <= KeyBufSize; the code has 10, 128 and 128) and for word breaks anywhere:

- `TypingCharsInRange`, `TypingRoomAfterPrepare`, `TypingDropsHalf`: while keys are
  typed and deleted and nothing is restored, `m_buffer` is never overrun, after
  `prepareBuffer` more than `Slack` entries are free, and when words are dropped no
  more than half of the array stays in use.
- `KeysAlwaysInRange`: with every call, `m_keyStrokes` is never overrun.

`CharsInRange` is not inductive: a call adds up to two entries. `CharsBound`, two
more than what `prepareBuffer` leaves (`PreparedCharsBound`), is, together with
`KeysBound` (`TypingInduction`); the range, the room and the half are then
consequences in each state. `KeysBound` is inductive on its own for every call:
only `Type` and `TypeAndRestore` add a key stroke, after `PreparedKeysBound`. The halving (`\div 2`) is the one step that
needs its own lemmas. `DropsHalf` is a consequence that no run checks.

`UkEngineProofs` proves that the engine implements `UkBuffer`, from `SizesAssumption`
and `MethodsAssumption` (a method binds keys to the labels of `UkEvLabelList`, and none
binds RET), for any keys, methods, option sets, macros and arrays:

- `EngineFillsBuffers` (`BufferSpec`): every call is a step of `UkBuffer` or leaves the
  sizes of both arrays alone.
- `EngineKeysInRange`: hence, by `KeysAlwaysInRange`, `m_keyStrokes` is never overrun.
- `EngineCharsInRange`: while nothing is restored (`NothingRestored`:
  no option set restores words, no client calls for it or passes keys by), the engine
  implements `TypingSpec`, and `m_buffer` is never overrun. The hypothesis is needed: `RestoreRoom`
  violates the same property with restoring (section 5).
- `BackspaceTakesLast`: whatever came before, a backspace takes the last letter of
  `buf` and no other, although it may move the tone. `KeepsLetters` checks it
  together with what keys keep.

The invariant is `TypeInv`: the entries of both arrays are words and key strokes, and
no key stroke is one that resets, since `restoreKeyStrokes` types them all once more.
The proof follows `process`. Everything that edits words without adding one is a growth by 0
(`Grown`), what `processAppend` does is a growth by 1, a reset, or a restored word
(`Ended`); a handler then has done with its key (`Outcome`) or leaves it to `processAppend`, with
the last letter or without it (`Going`, `FinishGives`); recording the key stroke gives
what `UkBuffer` allows (`Result`). There is one lemma for each entry of `UkKeyProcList`. No
handler needs to know where it edits: an `EXCEPT` outside of the array changes nothing. (That they
edit the right letters is what the runs check.) In `processTelexW` the first attempt
must have added one entry if it returns 0, for `Retract` takes one away. In
`restoreKeyStrokes` the replay adds one entry for each key stroke, by `LeastNumber`
along the recursive function of `Retyped`. A user's key map could bind a control
character, a tab for one; the model has no such keys.

`ScreenProofs` proves `AlwaysScreenMatches` (`ScreenMatchesBuffer`): after every call of a
plain client the text it holds is what the engine's buffer says, unit by unit, for any
method, charset, options, sizes of the arrays and number of keys. Besides the assumptions above it rests on
`VowelsAssumption` and `MarksAssumption`: formulas without parameters on the tables of the
lexicon, which TLC evaluates in every run of the engine. They are what the handlers take for granted: a
prefix of a row is a row, and the columns of marks say the rows that the letters written
by the handlers make. A plain client (`PlainClient`) restores nothing, neither by a call nor by an
option; its keys are ASCII; none of them is the escape character or the hook of one letter; and a key
that stands for a character is no letter of Vietnamese itself. Telex and VNI bind no
such key, so that any set of ASCII keys will do for them; for VIQR the client must not send
`\`. The proof needs each part, or the model has a counterexample (TLC found them when
the invariant did not go through):

- `RestoreRoom` has what restoring does to the array.
- A key above ASCII that goes through is one unit for the client and two for
  `getSeqSteps` in VNI Windows.
- The escape and the key bound to a character: section 5.
- The hook of one letter notes a sequence that is not that of the letters (section 5),
  and later marks are looked up by the sequence.

The invariant `ScreenInv` is `ScreenMatchesBuffer`, `TypeInv`, no escape
pending, and `Shaped`: the offsets back to vowels and first consonant count
entries (`Chain`), and where vowels end, the sequence noted at each entry is that of its letters
(`EndsVowels`). Without `Shaped` nothing is known of where a handler writes,
and `ScreenMatchesBuffer` alone is not inductive. Within a call, `Held` says that the entries before
`m_changePos` show what they did when the call began, that `m_backs` is the number of units of
the old text from there on, and that the buffer is in shape: `markChange` keeps it
(`KeptMark`), and an edit that is not before `m_changePos` does. `RewriteHolds` is the lemma for all roofs and
hooks: the letters that `Change` names turn one row into another of the same length, which
`RoofAsks`, `HookAsks` and `DoubleHookAsks` get from `MarksAssumption`. A call that has handled its key (`Settled`) lets
the key through only when one entry was added that
shows it (`Longer`), and else deletes and writes as `Held` says; `ProcessShows` and `BackspaceShows`
conclude what the client has, `PreparedShows` is the loss of old words. Text is the recursive function of `Render`, of which
`RenderMeans` gives the equation, and `RenderCut`, `RenderAppend` and `RenderMore` the rest by
`LeastNumber`.

The same invariant gives `AlwaysVowelsMatch` (`VowelsMatchLetters`, a part of `WordsConsistent`): in every
syllable of a plain client the row of vowels that the engine has noted, by which its handlers decide, is
that of the letters in the buffer, which they write.

`XimCommitProofs` proves, from `BoundsAssumption` (the bounds are numbers and the paces
and methods those of section 3), for every user, any number of keys and any answers:

- `AlwaysOffIsIdle` (`OffIsIdle`), inductive by itself: hiding and switching off reset
  the server, and a shortcut asks an engine without a word.
- `AlwaysNothingStuck` (`NothingStuck`), by the invariant `WaitsForCommitKey`: while keys
  are postponed, an F12 is in one of the queues or a change of method, which resets
  the server, is not yet read. `NothingStuck` speaks of empty queues only and is not
  inductive; the invariant needs `OffIsIdle`, since a server that is off would let its
  own F12 pass. `TailKeeps`, `AppendKeeps` and `ProtocolHasCommitKey` are the lemmas on queues.
- `AlwaysForwardExact` (`ForwardExact`), by `ForwardInv`: no commit is ever pending.

`GtkCommitProofs` proves, from its `BoundsAssumption`, for every user and any answers:

- `AlwaysPauseComes` (`PauseComes`), inductive with the type of the queue: only
  `PutBackspaces` sets `PendingBuf`, and puts the Pause; the only step that takes a
  Pause off while one is awaited clears it; a key that waits goes to the
  tail and leaves the Pause where it is. `TailKeeps`, `AppendKeeps`, `ConcatKeeps` are
  the lemmas on queues, `HandlerWaits` and `PressWaits` the steps.
- `AlwaysOffIsIdle` (`OffIsIdle`): switching off resets the engine, and while it is off
  the filter asks it for BackSpace only, with no word to answer from.

`MacTapProofs` proves, from its `BoundsAssumption`, for every sequence of events:

- `AlwaysHotkeyRemembers` (`HotkeyRemembers`), with the invariant that every event in
  the queue is a synthetic one or one of the user's: the two flags are functions of the
  history `hold`, and one event more changes both sides alike (`OneMoreEvent`).
- `AlwaysOffIsIdle`: off, the engine knows no letters.
- `AlwaysInSync` (`InSync`), for a user who waits, answers of any length and every
  field. The invariant `SyncInv` adds where the events are (`Phase`): the queue is one
  event of the user, or posted BackSpaces with at most one insertion behind them
  (`BackSpacesFirst`); and in Spotlight keys that were posted are a mishap. `OwedOf` is
  what such a queue makes of a text: an arrival changes the text and the queue but not
  what is owed (`OneArrives`), an answer of the engine changes the word and what is
  owed alike (`PostedOwed`, `SuffixRewritten`). Switching on needs `AlwaysOffIsIdle`.

`SessionProofs` proves, for any number of windows and servers, any option files and
however many acts and deaths the bounds allow:

- `AlwaysLaunchesEarned` (`LaunchesEarned`). It counts launches against reports and is
  not inductive: a report may be a signal still on its way, or remembered in
  `XimLaunchOk`. `Earned` counts both: each of them is a report that no launch has
  used. Signals are a set, so that two reports may become one, never one two; a
  `Crash` takes signals away. One lemma for each step of one window's record, and
  `OneChanges` for the function of all of them. It needs no assumption.
- `AlwaysAgreed` (`Agreed`), from `NamesAssumption` (windows, servers, the GTK program
  and the names of methods are different things), `FilesAssumption` (an option file
  has values that the options can have) and `BoundsAssumption`. `Agreed` compares two
  processes in a quiet state; the invariant `SessionInv` compares each process with
  the properties of the root window, in every state. A window that is up shows what a
  property says, or an event about it waits (`Shown`). A server does what
  a property says, or an event waits, or a request of its own that changes it
  does, as after `reloadConfig` (`Heeds`); if it has read a method and not yet used it,
  that method is the property's or another event waits. X turns a request into
  the value and the event in one step (`XTells`), so none of these is lost. In
  a quiet state only the first alternative is left, for both processes. `OneActs` says
  that a step of one process leaves the others in step, whatever signals it sends.

`GtkCommitProofs` and `XimCommitProofs` prove also that the two front ends of X implement
`KeysAtOnce`, for any number of keys and any answers of the engine, for users of
every pace but *any*:

- `AlwaysFakesCounted` (`FakesCounted`, GTK): `BackCount` is the number of fake
  BackSpaces in the queue; that it is never more holds for every user.
- `AlwaysOwesWord` (`OwesWord`): the text, after the BackSpaces that are on their way
  and with the letters to be inserted, is the word of the engine.
- `TakesKeys` (`TakesKeysAtOnce`): each key is taken once and is one step of the text,
  in the order of the keys if the user is at most one ahead.

For XIM the last two assume `RoomToPostpone`: no more keys are typed ahead than half of
`MaxPostpone` (25, the code has 50), since after 50 keys `ProcessKey` lets a key
through in the middle of a commit. Keys may be counted twice, once before
the first F12 and once before the second, which is why it is half.

None of the three is inductive. The invariant (`Inv` in both modules) says also what the
queue holds (`Phases`): keys alone, or BackSpaces, one F12 (in GTK the Pause) and
keys that came later, with as many BackSpaces as the commit is to delete (`Busy`,
`Committing`); and that the keys in the queue are the keys that wait (`Books`), from which it
follows that a key is taken once. In XIM `Q` is the queue and what X has not
delivered, put together, so that a delivery changes nothing; `Calm` says that a
method changes only when nothing is on its way, and `PostponeCount` is bounded by the keys
behind the F12. A sequence is split at its F12 in one way only (`JoinedSplit`), which
is what the step that takes an event needs.

The library's induction theorems are not available; `QueueLemmas` has instead
`LeastNumber` (a set of numbers that is not empty has a least one), with which a
counterexample is made smaller. `HowMany` counts positions, `RemoveFirst` cuts at the
first position, so that no recursive definition is unfolded. Two
functions are recursive, `Changed` of `Session` and the replay of `Retyped`; each is first shown
to exist in this way (`ChangedExists`) and then followed along its equations (`ChangedHolds`).

What no theorem states:

- Liveness (`EveryKeyTaken`): not within reach.
- That consonants match their letters, words are valid and tones where they belong (the other parts of
  `WordsConsistent`), `MarkTwiceUndoes`,
  `KeepsLetters` for keys, `RestoreGivesKeys`, `WordEndKeepsOrRestores`, `MacroReplacesWord`. They
  depend on the tables of the lexicon, entry by entry, and on folds over the text.
- `ScreenMatchesBuffer` with restored words, and of clients that are not plain: the hypotheses
  of `AlwaysScreenMatches` above.
- `UkLexi`: properties of tables, exhausted by TLC.
- `MCFiles`: what a fold over a text or the lines of a file gives for every input is
  out of the prover's reach.

## 7. Not modelled

- Contexts that share the static variables of a GTK program (planned, section 2), and
  the commit protocol of XIM with two contexts or with the dynamic XimFlow.
- Simple Telex and the Microsoft layout, which `UnikeySetInputMethod` does not accept.
- Drawing, the menu and the permissions of macOS, comments in written files, counting
  the bytes of a conversion, and errors of output and of opening files.
- IMdkit, a library of others; build files.
