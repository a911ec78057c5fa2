------------------------------- MODULE MacTap -------------------------------
(***************************************************************************)
(* The event tap of the macOS front end (macos/main.mm).  Every key, click *)
(* and change of modifiers passes EventTapCallback on its way to the       *)
(* application; an answer of the engine swallows the key and is posted as  *)
(* synthetic keys, which pass the tap again, or written into the field     *)
(* through Accessibility.  Cmd and Shift alone switch Vietnamese on and    *)
(* off.  The engine is abstract: any answer it could give.                 *)
(***************************************************************************)
EXTENDS ClientText

CONSTANTS Paces,        \* how the user acts, see MayAct
          Fields,       \* what has focus: "plain", "browser", "Spotlight"
          MaxEvents,    \* bound: events of the user
          MaxAhead,     \* bound: events the tap has not seen yet
          MaxBacks,     \* bound: letters the engine deletes for one key
          MaxLetters    \* bound: letters the engine inserts for one key

ASSUME BoundsAssumption ==
  /\ Paces \subseteq {"waits", "any"} /\ Fields \subseteq {"plain", "browser", "Spotlight"}
  /\ MaxEvents \in Nat /\ MaxAhead \in Nat /\ MaxBacks \in Nat /\ MaxLetters \in Nat

VARIABLES
  queue,                \* the events on their way to the tap
  tap,                  \* is gEventTap enabled?
  gVietnameseEnabled, gHotkeyArmed, gHotkeyBroken,
  known,                \* the letters the engine believes to be before the caret
  text,                 \* the letters that are
  selected,             \* has the field a selection after the caret, a suggestion?
  modifiers,            \* those the user holds down
  hold,                 \* history: what was seen since a first modifier went down
  mishaps,              \* history: what the engine was not told of its word
  typed,                \* history: how many events there were
  pace, field           \* how this user acts, and where

hotkey == <<gHotkeyArmed, gHotkeyBroken, hold>>
client == <<text, selected>>
user == <<modifiers, typed, pace, field>>
vars == <<queue, tap, gVietnameseEnabled, hotkey, known, client, mishaps, user>>

kSwitchHotkeyCombo == {"command", "shift"}
kTrackedModifierMask == kSwitchHotkeyCombo \cup {"control"}

\* "char" is a key with one ASCII character, "other" one with any other output.
KeyDowns == {"char", "other", "BackSpace"}
Types == KeyDowns \cup {"flags", "click"}

Event(type, n, flags) == [type |-> type, n |-> n, flags |-> flags]
Backspaces(b) == [i \in 1 .. b |-> Event("backspace", 0, {})]
Insertion(n, c) == IF c = 0 THEN <<>> ELSE <<[type |-> "insert", n |-> n, count |-> c]>>
IsSynthetic(ev) == ev.type \in {"backspace", "insert"}

Init ==
  /\ queue = <<>> /\ tap = TRUE
  /\ gVietnameseEnabled = TRUE /\ gHotkeyArmed = FALSE /\ gHotkeyBroken = FALSE
  /\ known = <<>> /\ text = <<>> /\ selected = FALSE
  /\ modifiers = {} /\ hold = <<>> /\ mishaps = {}
  /\ typed = 0 /\ pace \in Paces /\ field \in Fields
-----------------------------------------------------------------------------
(* The application. *)

\* A BackSpace of the keyboard or of the tap; the search field of Spotlight
\* ignores the latter.
Deleted(t, sel) == IF sel THEN t ELSE Rewritten(t, 1, <<>>)

\* The text after an event the tap let through.  Whatever else a key or a click
\* does, it leaves a letter of its own before the caret.
TextAfter(t, sel, ev) ==
  CASE ev.type = "backspace" -> IF field = "Spotlight" THEN t ELSE Deleted(t, sel)
    [] ev.type = "insert"    -> t \o Letters(ev.n, ev.count)
    [] ev.type = "BackSpace" -> Deleted(t, sel)
    [] ev.type = "flags"     -> t
    [] OTHER                 -> Append(t, ev.n)

SelectedAfter(sel, ev) == sel /\ ev.type = "flags"

LetThrough(ev) ==
  /\ text' = TextAfter(text, selected, ev)
  /\ selected' = SelectedAfter(selected, ev)
  /\ queue' = Tail(queue)
-----------------------------------------------------------------------------
(* EventTapCallback *)

\* UnikeyResetBuf.  From here on the engine knows of everything again.
UnikeyResetBuf == known' = <<>> /\ mishaps' = {}


toggleVietnamese == gVietnameseEnabled' = ~gVietnameseEnabled /\ UnikeyResetBuf

\* Mutant of hotkeyAfter: a third modifier breaks the hotkey only while it is armed.
hotkeyAfterLess(flags) ==
  /\ gHotkeyArmed' = (flags # {} /\ (gHotkeyArmed \/ kSwitchHotkeyCombo \subseteq flags))
  /\ gHotkeyBroken' = (flags # {} /\ (gHotkeyBroken \/ (gHotkeyArmed /\ flags \ kSwitchHotkeyCombo # {})))

hotkeyAfter(flags) ==
  /\ gHotkeyArmed' = (flags # {} /\ (gHotkeyArmed \/ kSwitchHotkeyCombo \subseteq flags))
  /\ gHotkeyBroken' = (flags # {} /\ (gHotkeyBroken \/ flags \ kSwitchHotkeyCombo # {}))

HandleFlagsChangedForSwitchHotkey(ev) ==
  /\ hotkeyAfter(ev.flags)
  /\ hold' = IF ev.flags = {} THEN <<>> ELSE Append(hold, ev)
  /\ IF ev.flags = {} /\ gHotkeyArmed /\ ~gHotkeyBroken
     THEN toggleVietnamese
     ELSE UNCHANGED <<gVietnameseEnabled, known, mishaps>>
  /\ LetThrough(ev)

remember(ev) == hold' = IF hold = <<>> THEN hold ELSE Append(hold, ev)

\* A click resets the engine, whether it is on or off.
MouseDown(ev) ==
  /\ UnikeyResetBuf
  /\ remember(ev)
  /\ LetThrough(ev)
  /\ UNCHANGED <<gHotkeyArmed, gHotkeyBroken, gVietnameseEnabled>>

\* UnikeyBackspacePress: the engine takes one letter back and may rewrite those
\* before it, of which nobody is told.
BackSpaceDown(ev) ==
  /\ LetThrough(ev)
  /\ \/ known = <<>> /\ UNCHANGED <<known, mishaps>>
     \/ /\ known # <<>>
        /\ \E b \in 1 .. MaxBacks :
             /\ b <= Len(known)
             /\ known' = Rewritten(known, b, Letters(ev.n, b - 1))
             /\ mishaps' = mishaps \cup (IF b > 1 THEN {"tone"} ELSE {})
                                   \cup (IF selected THEN {"suggestion"} ELSE {})

\* TryReplaceViaAccessibility, in Spotlight only: the field is read and written
\* at once, or nothing is done.
TryReplaceViaAccessibility(b, n, c) ==
  /\ field = "Spotlight" /\ b <= Len(text)
  /\ text' = Rewritten(text, b, Letters(n, c)) /\ selected' = FALSE
  /\ queue' = Tail(queue)
  /\ UNCHANGED mishaps

\* Mutant of PostKeys: no BackSpace for the suggestion.
PostKeysOnly(b, n, c) ==
  /\ queue' = Tail(queue) \o Backspaces(b) \o Insertion(n, c)
  /\ mishaps' = IF field = "Spotlight" THEN mishaps \cup {"refused"} ELSE mishaps
  /\ UNCHANGED client

\* BackSpaces and the new letters are posted behind the events that are on
\* their way; one BackSpace more if a suggestion is selected now.
PostKeys(b, n, c) ==
  /\ queue' = Tail(queue) \o Backspaces(IF b > 0 /\ selected THEN b + 1 ELSE b) \o Insertion(n, c)
  /\ mishaps' = IF field = "Spotlight" THEN mishaps \cup {"refused"} ELSE mishaps
  /\ UNCHANGED client

\* UnikeyFilter, and what is done with its answer.
CharDown(ev) ==
  \/ known' = Append(known, ev.n) /\ LetThrough(ev) /\ UNCHANGED mishaps
  \/ UnikeyResetBuf /\ LetThrough(ev)
  \/ \E b \in 0 .. MaxBacks, c \in 0 .. MaxLetters :
       /\ b <= Len(known) /\ b + c > 0
       /\ known' = Rewritten(known, b, Letters(ev.n, c))
       /\ TryReplaceViaAccessibility(b, ev.n, c) \/ PostKeys(b, ev.n, c)

\* Cmd and Ctrl make a shortcut of any key but BackSpace.
KeyDown(ev) ==
  \/ /\ ~gVietnameseEnabled
     /\ LetThrough(ev) /\ UNCHANGED <<known, mishaps>>
  \/ /\ gVietnameseEnabled /\ ev.type = "BackSpace"
     /\ BackSpaceDown(ev)
  \/ /\ gVietnameseEnabled /\ ev.type # "BackSpace"
     /\ ev.type = "other" \/ ev.flags \cap {"command", "control"} # {}
     /\ UnikeyResetBuf /\ LetThrough(ev)
  \/ /\ gVietnameseEnabled /\ ev.type = "char" /\ ev.flags \cap {"command", "control"} = {}
     /\ CharDown(ev)

EventTapCallback ==
  /\ tap /\ queue # <<>>
  /\ LET ev == Head(queue) IN
     \/ /\ IsSynthetic(ev)
        /\ LetThrough(ev)
        /\ UNCHANGED <<gVietnameseEnabled, hotkey, known, mishaps>>
     \/ /\ ev.type = "flags"
        /\ HandleFlagsChangedForSwitchHotkey(ev)
     \/ /\ ev.type = "click"
        /\ MouseDown(ev)
     \/ /\ ev.type \in KeyDowns
        /\ KeyDown(ev)
        /\ gHotkeyBroken' = (gHotkeyBroken \/ gHotkeyArmed)
        /\ remember(ev)
        /\ UNCHANGED <<gVietnameseEnabled, gHotkeyArmed>>
  /\ UNCHANGED <<tap, user>>
-----------------------------------------------------------------------------
(* The system and the user. *)

\* A disabled tap sees nothing of what passes.
PassBy ==
  /\ ~tap /\ queue # <<>>
  /\ LetThrough(Head(queue))
  /\ mishaps' = IF IsSynthetic(Head(queue)) THEN mishaps ELSE mishaps \cup {"lost"}
  /\ UNCHANGED <<tap, gVietnameseEnabled, hotkey, known, user>>

\* What this user does now: one who waits acts only when every event has
\* reached the application.
MayAct ==
  \/ pace = "waits" /\ queue = <<>>
  \/ pace = "any" /\ Len(SelectSeq(queue, LAMBDA ev : ~IsSynthetic(ev))) < MaxAhead

Act(type, mods) ==
  /\ typed < MaxEvents /\ MayAct
  /\ typed' = typed + 1 /\ modifiers' = mods
  /\ queue' = Append(queue, Event(type, typed + 1, mods))
  /\ UNCHANGED <<tap, gVietnameseEnabled, hotkey, known, client, mishaps, pace, field>>

Press(type) == Act(type, modifiers)

ChangeModifier(m) ==
  Act("flags", IF m \in modifiers THEN modifiers \ {m} ELSE modifiers \cup {m})

\* The field suggests how the text may go on, in a selection after the caret.
Suggest ==
  /\ MayAct /\ field = "browser" /\ text # <<>>
  /\ selected' = TRUE
  /\ UNCHANGED <<queue, tap, gVietnameseEnabled, hotkey, known, text, mishaps, user>>

\* The system disables a tap that is slow, and the callback is told of it.
DisableTap ==
  /\ MayAct /\ tap' = FALSE
  /\ UNCHANGED <<queue, gVietnameseEnabled, hotkey, known, client, mishaps, user>>

EnableTap ==
  /\ ~tap /\ tap' = TRUE
  /\ UNCHANGED <<queue, gVietnameseEnabled, hotkey, known, client, mishaps, user>>

\* The panel and the menu; a choice of a method resets the engine.
switchToggled(on) ==
  /\ MayAct
  /\ gVietnameseEnabled' = on /\ UnikeyResetBuf
  /\ UNCHANGED <<queue, tap, hotkey, client, user>>

chooseMethod ==
  /\ MayAct
  /\ UnikeyResetBuf
  /\ UNCHANGED <<queue, tap, gVietnameseEnabled, hotkey, client, user>>

Next ==
  \/ EventTapCallback
  \/ PassBy
  \/ \E type \in KeyDowns \cup {"click"} : Press(type)
  \/ \E m \in kTrackedModifierMask : ChangeModifier(m)
  \/ Suggest
  \/ DisableTap
  \/ EnableTap
  \/ \E on \in BOOLEAN : switchToggled(on)
  \/ chooseMethod

Spec == Init /\ [][Next]_vars
-----------------------------------------------------------------------------
\* The text when the synthetic keys on their way have arrived, for a user who waits:
\* the queue then holds no others, the BackSpaces before the letters.  The first
\* BackSpace takes a selection away, and Spotlight ignores them all.
TextOwed ==
  LET coming == HowMany(queue, {Event("backspace", 0, {})})
      deleted == IF field = "Spotlight" THEN 0 ELSE IF selected /\ coming > 0 THEN coming - 1 ELSE coming
      inserts == queue # <<>> /\ Last(queue).type = "insert"
  IN  Rewritten(text, deleted, IF inserts THEN Letters(Last(queue).n, Last(queue).count) ELSE <<>>)

\* For a user who waits, the letters the engine would rewrite are those before
\* the caret, also where a suggestion is selected and in Spotlight, and again
\* after the next reset if something passed the engine by.
InSync == pace = "waits" /\ mishaps = {} => IsSuffix(known, TextOwed)

\* The two flags of the hotkey are what the events since a first modifier went down say:
\* Cmd and Shift were down together; Control joined them or a key followed.
HotkeyRemembers ==
  LET Together(i) == hold[i].type = "flags" /\ kSwitchHotkeyCombo \subseteq hold[i].flags
      KeyAt(i) == hold[i].type \in KeyDowns
      Joined(i) == hold[i].type = "flags" /\ ~(hold[i].flags \subseteq kSwitchHotkeyCombo)
  IN /\ gHotkeyArmed <=> \E i \in DOMAIN hold : Together(i)
     /\ gHotkeyBroken <=> \/ \E i \in DOMAIN hold : Joined(i)
                          \/ \E i, j \in DOMAIN hold : i < j /\ Together(i) /\ KeyAt(j)

\* Switched off, the engine knows no letters: the keys it does not see then
\* cannot come between those it saw and those to come.
OffIsIdle == ~gVietnameseEnabled => known = <<>>
=============================================================================
