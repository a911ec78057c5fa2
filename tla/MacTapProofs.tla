---------------------------- MODULE MacTapProofs ----------------------------
(***************************************************************************)
(* What the event tap keeps to for every user, field and number of events, *)
(* and however often the system disables it: its hotkey goes by what it    *)
(* has seen, switched off the engine has no word, and the word it has is   *)
(* that before the caret of a user who waits.                              *)
(***************************************************************************)
EXTENDS MacTap, QueueLemmas

UserEvents == [type : Types, n : Nat, flags : SUBSET kTrackedModifierMask]
SyntheticEvents ==
  [type : {"backspace"}, n : Nat, flags : {{}}] \cup [type : {"insert"}, n : Nat, count : Nat]
AllEvents == UserEvents \cup SyntheticEvents

EventsOK ==
  /\ queue \in Seq(AllEvents) /\ hold \in Seq(UserEvents)
  /\ typed \in Nat /\ modifiers \in SUBSET kTrackedModifierMask
  /\ gHotkeyArmed \in BOOLEAN /\ gHotkeyBroken \in BOOLEAN

\* What HotkeyRemembers says of a sequence of events seen.
Together(h, i) == h[i].type = "flags" /\ kSwitchHotkeyCombo \subseteq h[i].flags
Joins(h, i) == h[i].type = "flags" /\ ~(h[i].flags \subseteq kSwitchHotkeyCombo)
Arms(h) == \E i \in 1 .. Len(h) : Together(h, i)
Breaks(h) ==
  \/ \E i \in 1 .. Len(h) : Joins(h, i)
  \/ \E i, j \in 1 .. Len(h) : i < j /\ Together(h, i) /\ h[j].type \in KeyDowns

HotkeyOK == (gHotkeyArmed <=> Arms(hold)) /\ (gHotkeyBroken <=> Breaks(hold))

\* A head of the queue that is not synthetic is the user's.
LEMMA HeadIsTheUsers ==
  ASSUME EventsOK, queue # <<>>, ~IsSynthetic(Head(queue))
  PROVE  Head(queue) \in UserEvents
  BY HeadTailProperties DEF EventsOK, AllEvents, SyntheticEvents, IsSynthetic

\* The keys the tap posts are synthetic.
LEMMA PostedEvents ==
  ASSUME NEW b \in Nat, NEW n \in Nat, NEW c \in Nat
  PROVE  Backspaces(b) \in Seq(AllEvents) /\ Insertion(n, c) \in Seq(AllEvents)
<1>1. Event("backspace", 0, {}) \in AllEvents
  BY DEF Event, AllEvents, SyntheticEvents
<1>2. Backspaces(b) \in Seq(AllEvents)
  BY <1>1, IsASeq DEF Backspaces
<1>3. Insertion(n, c) \in Seq(AllEvents)
  <2>1. [type |-> "insert", n |-> n, count |-> c] \in AllEvents
    BY DEF AllEvents, SyntheticEvents
  <2>. QED  BY <2>1 DEF Insertion
<1>. QED  BY <1>2, <1>3

\* How one more event seen changes what the sequence says.
LEMMA OneMoreEvent ==
  ASSUME NEW h \in Seq(UserEvents), NEW e \in UserEvents
  PROVE  /\ Append(h, e) \in Seq(UserEvents)
         /\ Arms(Append(h, e)) <=>
              Arms(h) \/ (e.type = "flags" /\ kSwitchHotkeyCombo \subseteq e.flags)
         /\ Breaks(Append(h, e)) <=>
              \/ Breaks(h)
              \/ e.type = "flags" /\ ~(e.flags \subseteq kSwitchHotkeyCombo)
              \/ Arms(h) /\ e.type \in KeyDowns
<1>. DEFINE g == Append(h, e)
             last == Len(h) + 1
<1>1. /\ g \in Seq(UserEvents) /\ Len(g) = last /\ Len(h) \in Nat
      /\ g[last] = e /\ \A i \in 1 .. Len(h) : g[i] = h[i]
  BY AppendProperties
<1>. HIDE DEF g
<1>2. \A i \in 1 .. Len(h) : /\ Together(g, i) = Together(h, i)
                             /\ Joins(g, i) = Joins(h, i)
                             /\ g[i].type = h[i].type
  BY <1>1 DEF Together, Joins
<1>3. 1 .. Len(g) = (1 .. Len(h)) \cup {last}
  BY <1>1
<1>4. Arms(g) <=> Arms(h) \/ Together(g, last)
  BY <1>2, <1>3 DEF Arms
<1>5. Breaks(g) <=> Breaks(h) \/ Joins(g, last) \/ (Arms(h) /\ g[last].type \in KeyDowns)
  <2>1. ASSUME NEW i \in 1 .. Len(g), NEW j \in 1 .. Len(g), i < j
        PROVE  i \in 1 .. Len(h) /\ (j \in 1 .. Len(h) \/ j = last)
    BY <1>1, <2>1
  <2>2. \A i \in 1 .. Len(h) : i < last /\ i \in 1 .. Len(g) /\ last \in 1 .. Len(g)
    BY <1>1
  <2>3. ASSUME Breaks(g)
        PROVE  Breaks(h) \/ Joins(g, last) \/ (Arms(h) /\ g[last].type \in KeyDowns)
    <3>1. CASE \E i \in 1 .. Len(g) : Joins(g, i)
      BY <3>1, <1>2, <1>3 DEF Breaks
    <3>2. CASE \E i, j \in 1 .. Len(g) : i < j /\ Together(g, i) /\ g[j].type \in KeyDowns
      BY <3>2, <2>1, <1>2 DEF Breaks, Arms
    <3>. QED  BY <2>3, <3>1, <3>2 DEF Breaks
  <2>4. ASSUME Breaks(h) \/ Joins(g, last) \/ (Arms(h) /\ g[last].type \in KeyDowns)
        PROVE  Breaks(g)
    <3>1. CASE Breaks(h)
      BY <3>1, <1>2, <1>3 DEF Breaks
    <3>2. CASE Joins(g, last)
      BY <3>2, <1>3 DEF Breaks
    <3>3. CASE Arms(h) /\ g[last].type \in KeyDowns
      BY <3>3, <2>2, <1>2 DEF Breaks, Arms
    <3>. QED  BY <2>4, <3>1, <3>2, <3>3
  <2>. QED  BY <2>3, <2>4
<1>. QED  BY <1>1, <1>4, <1>5 DEF g, Together, Joins

\* Nothing seen says nothing.
LEMMA NothingSeen == <<>> \in Seq(UserEvents) /\ ~Arms(<<>>) /\ ~Breaks(<<>>)
  BY DEF Arms, Breaks

\* Initially nothing is on its way and nothing was seen.
LEMMA InitOK == Init => EventsOK /\ HotkeyOK
<1>1. <<>> \in Seq(AllEvents) /\ {} \in SUBSET kTrackedModifierMask
  OBVIOUS
<1>2. Init => EventsOK
  <2>. SUFFICES ASSUME Init PROVE EventsOK
    OBVIOUS
  <2>1. /\ queue = <<>> /\ hold = <<>> /\ typed = 0 /\ modifiers = {}
        /\ gHotkeyArmed = FALSE /\ gHotkeyBroken = FALSE
    BY DEF Init
  <2>2. <<>> \in Seq(UserEvents)
    BY NothingSeen
  <2>. QED  BY <1>1, <2>1, <2>2 DEF EventsOK
<1>3. Init => HotkeyOK
  <2>. SUFFICES ASSUME Init PROVE HotkeyOK
    OBVIOUS
  <2>1. hold = <<>> /\ ~gHotkeyArmed /\ ~gHotkeyBroken
    BY DEF Init
  <2>. QED  BY <2>1, NothingSeen, Zenon DEF HotkeyOK
<1>. QED  BY <1>2, <1>3

\* An event that is let through leaves the rest of the queue.
LEMMA LetThroughKeeps ==
  ASSUME EventsOK, queue # <<>>, LetThrough(Head(queue))
  PROVE  queue' \in Seq(AllEvents)
  BY HeadTailProperties DEF EventsOK, LetThrough

\* So does an answer of the engine, with the synthetic events behind.
LEMMA PostKeysKeeps ==
  ASSUME EventsOK, queue # <<>>, NEW b \in Nat, NEW n \in Nat, NEW c \in Nat,
         PostKeys(b, n, c)
  PROVE  queue' \in Seq(AllEvents)
<1>. DEFINE p == IF b > 0 /\ selected THEN b + 1 ELSE b
<1>1. Tail(queue) \in Seq(AllEvents)
  BY HeadTailProperties DEF EventsOK
<1>2. p \in Nat
  OBVIOUS
<1>3. Backspaces(p) \in Seq(AllEvents) /\ Insertion(n, c) \in Seq(AllEvents)
  BY <1>2, PostedEvents
<1>4. queue' = (Tail(queue) \o Backspaces(p)) \o Insertion(n, c)
  BY DEF PostKeys
<1>. QED  BY <1>1, <1>3, <1>4, ConcatProperties

\* A key that goes down leaves a queue of events.
LEMMA KeyDownKeeps ==
  ASSUME EventsOK, queue # <<>>, Head(queue) \in UserEvents, KeyDown(Head(queue))
  PROVE  queue' \in Seq(AllEvents)
<1>. DEFINE ev == Head(queue)
<1>1. CASE LetThrough(ev)
  BY <1>1, LetThroughKeeps
<1>2. CASE CharDown(ev) /\ ~LetThrough(ev)
  <2>1. ev.n \in Nat
    BY DEF UserEvents
  <2>2. PICK b \in 0 .. MaxBacks, c \in 0 .. MaxLetters :
          TryReplaceViaAccessibility(b, ev.n, c) \/ PostKeys(b, ev.n, c)
    BY <1>2 DEF CharDown
  <2>3. b \in Nat /\ c \in Nat
    BY BoundsAssumption
  <2>4. CASE PostKeys(b, ev.n, c)
    BY <2>1, <2>3, <2>4, PostKeysKeeps
  <2>5. CASE TryReplaceViaAccessibility(b, ev.n, c)
    BY <2>5, HeadTailProperties DEF TryReplaceViaAccessibility, EventsOK
  <2>. QED  BY <2>2, <2>4, <2>5
<1>. QED  BY <1>1, <1>2 DEF KeyDown, BackSpaceDown

\* What the callback does with a change of modifiers.
LEMMA FlagsStep ==
  ASSUME EventsOK, HotkeyOK, queue # <<>>, Head(queue) \in UserEvents,
         Head(queue).type = "flags", HandleFlagsChangedForSwitchHotkey(Head(queue)),
         UNCHANGED user
  PROVE  EventsOK' /\ HotkeyOK'
<1>. DEFINE ev == Head(queue)
<1>1. queue' \in Seq(AllEvents)
  BY LetThroughKeeps DEF HandleFlagsChangedForSwitchHotkey
<1>2. CASE ev.flags = {}
  <2>1. hold' = <<>> /\ gHotkeyArmed' = FALSE /\ gHotkeyBroken' = FALSE
    BY <1>2 DEF HandleFlagsChangedForSwitchHotkey, hotkeyAfter
  <2>. QED  BY <1>1, <2>1, NothingSeen DEF EventsOK, HotkeyOK, user
<1>3. CASE ev.flags # {}
  <2>1. hold' = Append(hold, ev)
    BY <1>3 DEF HandleFlagsChangedForSwitchHotkey
  <2>2. /\ hold' \in Seq(UserEvents)
        /\ Arms(hold') <=> Arms(hold) \/ kSwitchHotkeyCombo \subseteq ev.flags
        /\ Breaks(hold') <=> Breaks(hold) \/ ~(ev.flags \subseteq kSwitchHotkeyCombo)
    BY <2>1, OneMoreEvent DEF EventsOK, KeyDowns
  <2>3. (ev.flags \ kSwitchHotkeyCombo # {}) <=> ~(ev.flags \subseteq kSwitchHotkeyCombo)
    OBVIOUS
  <2>4. /\ gHotkeyArmed' = (gHotkeyArmed \/ kSwitchHotkeyCombo \subseteq ev.flags)
        /\ gHotkeyBroken' = (gHotkeyBroken \/ ev.flags \ kSwitchHotkeyCombo # {})
    BY <1>3 DEF HandleFlagsChangedForSwitchHotkey, hotkeyAfter
  <2>5. EventsOK'
    BY <1>1, <2>2, <2>4 DEF EventsOK, user
  <2>6. gHotkeyArmed' <=> Arms(hold')
    BY <2>2, <2>4 DEF HotkeyOK, EventsOK, Arms
  <2>7. gHotkeyBroken' <=> Breaks(hold')
    BY <2>2, <2>3, <2>4 DEF HotkeyOK, EventsOK, Breaks
  <2>. QED  BY <2>5, <2>6, <2>7 DEF HotkeyOK
<1>. QED  BY <1>2, <1>3

\* What it does with a key that goes down, or a click.
LEMMA OtherEventStep ==
  ASSUME EventsOK, HotkeyOK, queue # <<>>, Head(queue) \in UserEvents,
         queue' \in Seq(AllEvents), remember(Head(queue)),
         \/ Head(queue).type \in KeyDowns /\ gHotkeyBroken' = (gHotkeyBroken \/ gHotkeyArmed)
         \/ Head(queue).type = "click" /\ UNCHANGED gHotkeyBroken,
         UNCHANGED <<gHotkeyArmed, user>>
  PROVE  EventsOK' /\ HotkeyOK'
<1>. DEFINE ev == Head(queue)
<1>1. CASE hold = <<>>
  <2>1. ~Arms(hold) /\ ~Breaks(hold) /\ hold' = hold
    BY <1>1 DEF Arms, Breaks, remember
  <2>. QED  BY <2>1 DEF EventsOK, HotkeyOK, user, Arms, Breaks
<1>2. CASE hold # <<>>
  <2>1. hold' = Append(hold, ev)
    BY <1>2 DEF remember
  <2>2. /\ hold' \in Seq(UserEvents)
        /\ Arms(hold') <=> Arms(hold)
        /\ Breaks(hold') <=> Breaks(hold) \/ (Arms(hold) /\ ev.type \in KeyDowns)
    BY <2>1, OneMoreEvent DEF EventsOK, KeyDowns
  <2>3. EventsOK'
    BY <2>2 DEF EventsOK, user
  <2>4. gHotkeyArmed' <=> Arms(hold')
    BY <2>2 DEF HotkeyOK, Arms
  <2>5. gHotkeyBroken' <=> Breaks(hold')
    BY <2>2 DEF HotkeyOK, EventsOK, Breaks, Arms, KeyDowns
  <2>. QED  BY <2>3, <2>4, <2>5 DEF HotkeyOK
<1>. QED  BY <1>1, <1>2

\* Every step keeps the events and the two flags of the hotkey.
LEMMA NextOK ==
  ASSUME EventsOK, HotkeyOK, [Next]_vars
  PROVE  EventsOK' /\ HotkeyOK'
<1>1. CASE EventTapCallback
  <2>. DEFINE ev == Head(queue)
  <2>1. queue # <<>> /\ UNCHANGED user
    BY <1>1 DEF EventTapCallback
  <2>2. CASE IsSynthetic(ev) /\ LetThrough(ev) /\ UNCHANGED hotkey
    BY <2>1, <2>2, LetThroughKeeps DEF EventsOK, HotkeyOK, hotkey, user
  <2>3. CASE ev.type = "flags" /\ HandleFlagsChangedForSwitchHotkey(ev)
    BY <2>1, <2>3, HeadIsTheUsers, FlagsStep DEF IsSynthetic
  <2>4. CASE ev.type = "click" /\ MouseDown(ev)
    <3>1. ev \in UserEvents /\ queue' \in Seq(AllEvents)
      BY <2>1, <2>4, HeadIsTheUsers, LetThroughKeeps DEF IsSynthetic, MouseDown
    <3>. QED  BY <2>1, <2>4, <3>1, OtherEventStep DEF MouseDown
  <2>5. CASE /\ ev.type \in KeyDowns /\ KeyDown(ev) /\ remember(ev)
             /\ gHotkeyBroken' = (gHotkeyBroken \/ gHotkeyArmed) /\ UNCHANGED gHotkeyArmed
    <3>1. ev \in UserEvents
      BY <2>1, <2>5, HeadIsTheUsers DEF IsSynthetic, KeyDowns
    <3>2. queue' \in Seq(AllEvents)
      BY <2>1, <2>5, <3>1, KeyDownKeeps
    <3>. QED  BY <2>1, <2>5, <3>1, <3>2, OtherEventStep
  <2>. QED  BY <1>1, <2>2, <2>3, <2>4, <2>5 DEF EventTapCallback
<1>2. CASE PassBy
  BY <1>2, LetThroughKeeps DEF PassBy, EventsOK, HotkeyOK, hotkey, user
<1>3. ASSUME NEW type \in Types, NEW mods \in SUBSET kTrackedModifierMask, Act(type, mods)
      PROVE  EventsOK' /\ HotkeyOK'
  <2>1. Event(type, typed + 1, mods) \in AllEvents
    BY DEF Event, AllEvents, UserEvents, EventsOK
  <2>2. queue' \in Seq(AllEvents)
    BY <1>3, <2>1, AppendProperties DEF Act, EventsOK
  <2>. QED  BY <1>3, <2>2 DEF Act, EventsOK, HotkeyOK, hotkey
<1>4. CASE \E type \in KeyDowns \cup {"click"} : Press(type)
  BY <1>4, <1>3 DEF Press, Types, EventsOK
<1>5. CASE \E m \in kTrackedModifierMask : ChangeModifier(m)
  BY <1>5, <1>3 DEF ChangeModifier, Types, EventsOK
<1>6. CASE Suggest \/ DisableTap \/ EnableTap \/ chooseMethod \/ UNCHANGED vars
  BY <1>6 DEF Suggest, DisableTap, EnableTap, chooseMethod, vars, EventsOK, HotkeyOK, hotkey, user
<1>7. CASE \E on \in BOOLEAN : switchToggled(on)
  BY <1>7 DEF switchToggled, EventsOK, HotkeyOK, hotkey, user
<1>. QED  BY <1>1, <1>2, <1>4, <1>5, <1>6, <1>7 DEF Next

\* For every user and field the two flags of the hotkey are what the events say that
\* the callback saw since a first modifier went down, in whatever order.
THEOREM AlwaysHotkeyRemembers == Spec => []HotkeyRemembers
<1>1. EventsOK /\ HotkeyOK => HotkeyRemembers
  <2>. SUFFICES ASSUME EventsOK, HotkeyOK PROVE HotkeyRemembers
    OBVIOUS
  <2>1. DOMAIN hold = 1 .. Len(hold)
    BY LenProperties DEF EventsOK
  <2>. QED  BY <2>1 DEF HotkeyRemembers, HotkeyOK, Arms, Breaks, Together, Joins
<1>. QED  BY <1>1, InitOK, NextOK, PTL DEF Spec

\* For every user and field, a tap switched off by the hotkey, the menu or the
\* panel has an engine without a word, whatever keys it lets through.
THEOREM AlwaysOffIsIdle == Spec => []OffIsIdle
<1>. DEFINE Inv == OffIsIdle /\ gVietnameseEnabled \in BOOLEAN
<1>1. Init => Inv
  BY DEF Init, OffIsIdle
<1>2. ASSUME Inv, [Next]_vars PROVE Inv'
  <2>. USE DEF OffIsIdle
  <2>1. CASE EventTapCallback
    <3>. DEFINE ev == Head(queue)
    <3>1. CASE UNCHANGED <<gVietnameseEnabled, known>>
      BY <1>2, <3>1
    <3>2. CASE HandleFlagsChangedForSwitchHotkey(ev)
      BY <1>2, <3>2 DEF HandleFlagsChangedForSwitchHotkey, toggleVietnamese, UnikeyResetBuf
    <3>3. CASE MouseDown(ev)
      BY <1>2, <3>3 DEF MouseDown, UnikeyResetBuf
    <3>4. CASE KeyDown(ev) /\ UNCHANGED gVietnameseEnabled
      BY <1>2, <3>4 DEF KeyDown
    <3>. QED  BY <2>1, <3>1, <3>2, <3>3, <3>4 DEF EventTapCallback
  <2>2. CASE PassBy \/ Suggest \/ DisableTap \/ EnableTap \/ UNCHANGED vars
    BY <1>2, <2>2 DEF PassBy, Suggest, DisableTap, EnableTap, vars
  <2>3. CASE (\E type \in KeyDowns \cup {"click"} : Press(type))
             \/ (\E m \in kTrackedModifierMask : ChangeModifier(m))
    BY <1>2, <2>3 DEF Press, ChangeModifier, Act
  <2>4. CASE chooseMethod \/ \E on \in BOOLEAN : switchToggled(on)
    BY <1>2, <2>4 DEF chooseMethod, switchToggled, UnikeyResetBuf
  <2>. QED  BY <1>2, <2>1, <2>2, <2>3, <2>4 DEF Next
<1>. QED  BY <1>1, <1>2, PTL DEF Spec
-----------------------------------------------------------------------------
(* The letters of the engine are those before the caret. *)

\* TextOwed of any queue q, text t, selection and field.
Bs == Event("backspace", 0, {})
Coming(q) == HowMany(q, {Bs})
Inserted(q) ==
  IF q # <<>> /\ Last(q).type = "insert" THEN Letters(Last(q).n, Last(q).count) ELSE <<>>
Deletes(q, sel, f) ==
  IF f = "Spotlight" THEN 0 ELSE IF sel /\ Coming(q) > 0 THEN Coming(q) - 1 ELSE Coming(q)
OwedOf(q, t, sel, f) == Rewritten(t, Deletes(q, sel, f), Inserted(q))

\* It is the text owed of the queue, the text and the selection there are.
LEMMA OwedIs == TextOwed = OwedOf(queue, text, selected, field)
  BY DEF TextOwed, OwedOf, Deletes, Inserted, Coming, Bs

\* A queue of synthetic keys alone: BackSpaces, and an insertion after them.
BackSpacesFirst(q) ==
  \A i \in 1 .. Len(q) :
    q[i] = Bs \/ (i = Len(q) /\ q[i].type = "insert" /\ q[i].n \in Nat /\ q[i].count \in Nat)

\* One event of the user, or none.
Quiet(q) == q = <<>> \/ (Len(q) = 1 /\ Head(q) \in UserEvents)

\* A text ends with s: what that means for each letter.
LEMMA SuffixMeans ==
  ASSUME NEW s \in Seq(Nat), NEW t \in Seq(Nat)
  PROVE  IsSuffix(s, t) <=>
           Len(s) <= Len(t) /\ \A i \in 1 .. Len(s) : s[i] = t[Len(t) - Len(s) + i]
<1>. DEFINE rs == Reverse(s)
            rt == Reverse(t)
            ps == SubSeq(rs, 1, Len(s))
            pt == SubSeq(rt, 1, Len(s))
<1>1. Len(s) \in Nat /\ Len(t) \in Nat
  BY LenProperties
<1>2. /\ rs \in Seq(Nat) /\ Len(rs) = Len(s) /\ \A i \in 1 .. Len(s) : rs[i] = s[Len(s) - i + 1]
      /\ rt \in Seq(Nat) /\ Len(rt) = Len(t) /\ \A i \in 1 .. Len(t) : rt[i] = t[Len(t) - i + 1]
  <2>1. /\ \A i \in 1 .. Len(s) : s[Len(s) - i + 1] \in Nat
        /\ \A i \in 1 .. Len(t) : t[Len(t) - i + 1] \in Nat
    BY <1>1, ElementOfSeq
  <2>. QED  BY <1>1, <2>1 DEF Reverse
<1>. HIDE DEF rs, rt
<1>3. ps = rs
  BY <1>1, <1>2, SubSeqFull
<1>4. IsSuffix(s, t) <=> Len(s) <= Len(t) /\ rs = pt
  BY <1>2, <1>3 DEF IsSuffix, IsPrefix, rs, rt
<1>5. ASSUME Len(s) <= Len(t)
      PROVE  rs = pt <=> \A i \in 1 .. Len(s) : s[i] = t[Len(t) - Len(s) + i]
  <2>1. \A i \in 1 .. Len(s) : i \in 1 .. Len(t) /\ rt[i] \in Nat
    <3>1. \A i \in 1 .. Len(s) : i \in 1 .. Len(rt)
      BY <1>1, <1>2, <1>5
    <3>2. \A i \in 1 .. Len(rt) : rt[i] \in Nat
      BY <1>2, ElementOfSeq
    <3>. QED  BY <1>2, <3>1, <3>2
  <2>2. pt \in Seq(Nat) /\ Len(pt) = Len(s) /\ \A i \in 1 .. Len(s) : pt[i] = rt[i]
    BY <1>1, <1>2, <1>5, <2>1, SubSeqProperties
  <2>. HIDE DEF pt
  <2>3. rs = pt <=> \A i \in 1 .. Len(s) : rs[i] = rt[i]
    BY <1>2, <2>2, SeqEqual
  <2>4. \A i \in 1 .. Len(s) : rs[i] = s[Len(s) - i + 1] /\ rt[i] = t[Len(t) - i + 1]
    BY <1>2, <2>1
  <2>5. \A i \in 1 .. Len(s) :
          /\ Len(s) - i + 1 \in 1 .. Len(s) /\ Len(s) - (Len(s) - i + 1) + 1 = i
          /\ Len(t) - Len(s) + (Len(s) - i + 1) = Len(t) - i + 1
          /\ Len(t) - (Len(s) - i + 1) + 1 = Len(t) - Len(s) + i
    BY <1>1
  <2>. QED  BY <2>3, <2>4, <2>5
<1>. QED  BY <1>4, <1>5

\* What is where in two texts, one behind the other.
LEMMA BehindEachOther ==
  ASSUME NEW c \in Seq(Nat), NEW l \in Seq(Nat)
  PROVE  /\ c \o l \in Seq(Nat) /\ Len(c \o l) = Len(c) + Len(l)
         /\ \A i \in 1 .. Len(c) : (c \o l)[i] = c[i]
         /\ \A i \in 1 .. Len(l) : (c \o l)[Len(c) + i] = l[i]
  BY ConcatProperties, LenProperties

\* What is rewritten alike at the end of a text and of its suffix agrees again, as
\* long as no more is deleted than the suffix has.
LEMMA SuffixRewritten ==
  ASSUME NEW s \in Seq(Nat), NEW t \in Seq(Nat), IsSuffix(s, t),
         NEW b \in Nat, b <= Len(s), NEW l \in Seq(Nat)
  PROVE  IsSuffix(Rewritten(s, b, l), Rewritten(t, b, l))
<1>. DEFINE cs == SubSeq(s, 1, Len(s) - b)
            ct == SubSeq(t, 1, Len(t) - b)
            u == cs \o l
            v == ct \o l
<1>1. /\ Len(s) \in Nat /\ Len(t) \in Nat /\ Len(l) \in Nat /\ Len(s) <= Len(t)
      /\ \A i \in 1 .. Len(s) : s[i] = t[Len(t) - Len(s) + i]
  BY SuffixMeans, LenProperties
<1>2. /\ cs \in Seq(Nat) /\ Len(cs) = Len(s) - b /\ \A i \in 1 .. Len(cs) : cs[i] = s[i]
      /\ ct \in Seq(Nat) /\ Len(ct) = Len(t) - b /\ \A i \in 1 .. Len(ct) : ct[i] = t[i]
  <2>1. b <= Len(t)
    BY <1>1
  <2>2. cs \in Seq(Nat) /\ Len(cs) = Len(s) - b /\ \A i \in 1 .. Len(cs) : cs[i] = s[i]
    BY CutProperties
  <2>3. ct \in Seq(Nat) /\ Len(ct) = Len(t) - b /\ \A i \in 1 .. Len(ct) : ct[i] = t[i]
    BY <2>1, CutProperties
  <2>. QED  BY <2>2, <2>3
<1>. HIDE DEF cs, ct
<1>3. /\ u \in Seq(Nat) /\ Len(u) = Len(cs) + Len(l)
      /\ \A i \in 1 .. Len(cs) : u[i] = cs[i]
      /\ \A i \in 1 .. Len(l) : u[Len(cs) + i] = l[i]
      /\ v \in Seq(Nat) /\ Len(v) = Len(ct) + Len(l)
      /\ \A i \in 1 .. Len(ct) : v[i] = ct[i]
      /\ \A i \in 1 .. Len(l) : v[Len(ct) + i] = l[i]
  BY <1>2, BehindEachOther
<1>. HIDE DEF u, v
<1>4. /\ Len(s) \in Nat /\ Len(t) \in Nat /\ Len(l) \in Nat /\ Len(s) <= Len(t) /\ b <= Len(s)
      /\ Len(cs) = Len(s) - b /\ Len(ct) = Len(t) - b
      /\ Len(u) = Len(cs) + Len(l) /\ Len(v) = Len(ct) + Len(l)
  BY <1>1, <1>2, <1>3
<1>5. ASSUME NEW i \in 1 .. Len(u)  PROVE u[i] = v[Len(v) - Len(u) + i]
  <2>1. CASE i <= Len(cs)
    <3>1. /\ i \in 1 .. Len(cs) /\ i \in 1 .. Len(s) /\ Len(t) - Len(s) + i \in 1 .. Len(ct)
          /\ Len(v) - Len(u) + i = Len(t) - Len(s) + i
      BY <1>4, <2>1
    <3>2. u[i] = s[i] /\ v[Len(t) - Len(s) + i] = t[Len(t) - Len(s) + i]
      BY <1>2, <1>3, <3>1
    <3>. QED  BY <1>1, <3>1, <3>2
  <2>2. CASE i > Len(cs)
    <3>. DEFINE j == i - Len(cs)
    <3>1. /\ j \in 1 .. Len(l) /\ i = Len(cs) + j /\ Len(v) - Len(u) + i = Len(ct) + j
      BY <1>4, <2>2
    <3>. QED  BY <1>3, <3>1
  <2>. QED  BY <1>1, <1>2, <2>1, <2>2
<1>6. Len(u) <= Len(v)
  BY <1>1, <1>2, <1>3
<1>7. IsSuffix(u, v)
  BY <1>3, <1>5, <1>6, SuffixMeans
<1>. QED  BY <1>7 DEF Rewritten, u, v, cs, ct

\* Every text ends with no letters.
LEMMA NoLetters ==
  ASSUME NEW t \in Seq(Nat)
  PROVE  <<>> \in Seq(Nat) /\ IsSuffix(<<>>, t)
<1>. DEFINE e == <<>>
<1>1. e \in Seq(Nat) /\ Len(e) = 0 /\ Len(t) \in Nat
  BY EmptySeq, LenProperties
<1>. HIDE DEF e
<1>2. \A i \in 1 .. Len(e) : e[i] = t[Len(t) - Len(e) + i]
  BY <1>1
<1>3. IsSuffix(e, t)
  <2>1. IsSuffix(e, t) <=> Len(e) <= Len(t) /\ \A i \in 1 .. Len(e) : e[i] = t[Len(t) - Len(e) + i]
    BY <1>1, SuffixMeans, Zenon
  <2>2. Len(e) <= Len(t)
    BY <1>1
  <2>. QED  BY <1>2, <2>1, <2>2
<1>. QED  BY <1>1, <1>3 DEF e

\* With no synthetic key on its way the text owed is the text.
LEMMA QuietOwed ==
  ASSUME NEW q \in Seq(AllEvents), Quiet(q), NEW t \in Seq(Nat), NEW sel, NEW f
  PROVE  OwedOf(q, t, sel, f) = t
<1>1. Coming(q) = 0
  <2>1. \A i \in 1 .. Len(q) : q[i] \notin {Bs}
    <3>1. CASE q = <<>>
      BY <3>1, EmptySeq
    <3>2. CASE q # <<>>
      <4>1. Len(q) = 1 /\ q[1] \in UserEvents
        BY <3>2, HeadTailProperties DEF Quiet
      <4>. QED  BY <4>1 DEF UserEvents, Types, KeyDowns, Bs, Event
    <3>. QED  BY <3>1, <3>2
  <2>. QED  BY <2>1, CountSome DEF Coming
<1>2. Inserted(q) = <<>>
  <2>1. CASE q # <<>>
    <3>1. Last(q) \in UserEvents
      BY <2>1, HeadTailProperties DEF Quiet, Last
    <3>. QED  BY <3>1 DEF Inserted, UserEvents, Types, KeyDowns
  <2>. QED  BY <2>1 DEF Inserted
<1>3. Deletes(q, sel, f) = 0
  BY <1>1 DEF Deletes
<1>. QED  BY <1>2, <1>3, RewrittenType DEF OwedOf

\* The last item of a queue, and what is behind the first.
LEMMA LastAndTail ==
  ASSUME NEW q \in Seq(AllEvents), q # <<>>
  PROVE  /\ Tail(q) \in Seq(AllEvents) /\ Head(q) = q[1] /\ Len(q) \in Nat \ {0}
         /\ Len(Tail(q)) = Len(q) - 1
         /\ \A i \in 1 .. Len(q) - 1 : Tail(q)[i] = q[i + 1]
         /\ Len(q) = 1 => Tail(q) = <<>> /\ Last(q) = Head(q)
         /\ Len(q) # 1 => Tail(q) # <<>> /\ Last(Tail(q)) = Last(q)
<1>. DEFINE r == Tail(q)
<1>1. /\ r \in Seq(AllEvents) /\ Head(q) = q[1] /\ Len(q) \in Nat \ {0} /\ Len(r) = Len(q) - 1
      /\ \A i \in 1 .. Len(q) - 1 : r[i] = q[i + 1]
  BY HeadTailProperties, LenProperties, EmptySeq
<1>. HIDE DEF r
<1>2. Len(r) = 0 <=> r = <<>>
  BY <1>1, EmptySeq
<1>3. CASE Len(q) = 1
  BY <1>1, <1>2, <1>3 DEF Last, r
<1>4. CASE Len(q) # 1
  <2>1. Len(q) - 1 \in 1 .. Len(q) - 1 /\ (Len(q) - 1) + 1 = Len(q) /\ Len(r) # 0
    BY <1>1, <1>4
  <2>2. r[Len(r)] = q[Len(q)]
    BY <1>1, <2>1
  <2>. QED  BY <1>1, <1>2, <1>4, <2>1, <2>2 DEF Last, r
<1>. QED  BY <1>1, <1>3, <1>4 DEF r

\* What is left of the synthetic keys when one has arrived.
LEMMA TailFirst ==
  ASSUME NEW q \in Seq(AllEvents), q # <<>>, BackSpacesFirst(q)
  PROVE  BackSpacesFirst(Tail(q))
<1>. DEFINE r == Tail(q)
<1>1. /\ Len(q) \in Nat \ {0} /\ Len(r) = Len(q) - 1
      /\ \A i \in 1 .. Len(q) - 1 : r[i] = q[i + 1]
  BY LastAndTail
<1>. HIDE DEF r
<1>2. SUFFICES ASSUME NEW i \in 1 .. Len(r)
               PROVE  r[i] = Bs \/ (i = Len(r) /\ r[i].type = "insert" /\ r[i].n \in Nat /\ r[i].count \in Nat)
  BY DEF BackSpacesFirst, r
<1>3. i \in 1 .. Len(q) - 1 /\ i + 1 \in 1 .. Len(q) /\ (i + 1 = Len(q) => i = Len(r))
  BY <1>1
<1>4. r[i] = q[i + 1]
  BY <1>1, <1>3
<1>. QED  BY <1>3, <1>4 DEF BackSpacesFirst

\* A synthetic key that arrives does what was owed for it.
LEMMA OneArrives ==
  ASSUME NEW q \in Seq(AllEvents), q # <<>>, BackSpacesFirst(q), NEW t \in Seq(Nat),
         NEW sel \in BOOLEAN, field # "Spotlight"
  PROVE  LET u == TextAfter(t, sel, Head(q))
         IN  /\ u \in Seq(Nat)
             /\ OwedOf(Tail(q), u, FALSE, field) = OwedOf(q, t, sel, field)
<1>. DEFINE e == Head(q)
            r == Tail(q)
            u == TextAfter(t, sel, e)
<1>1. /\ r \in Seq(AllEvents) /\ e = q[1] /\ Len(q) \in Nat \ {0} /\ Len(r) = Len(q) - 1
      /\ \A i \in 1 .. Len(q) - 1 : r[i] = q[i + 1]
      /\ Len(q) = 1 => r = <<>> /\ Last(q) = e
      /\ Len(q) # 1 => r # <<>> /\ Last(r) = Last(q)
  BY LastAndTail
<1>2. Coming(q) = Coming(r) + (IF e = Bs THEN 1 ELSE 0) /\ Coming(r) \in Nat
  <2>1. /\ e \in {Bs} => HowMany(q, {Bs}) = HowMany(r, {Bs}) + 1
        /\ e \notin {Bs} => HowMany(q, {Bs}) = HowMany(r, {Bs})
    BY CountTail
  <2>2. HowMany(r, {Bs}) \in Nat
    BY <1>1, CountType
  <2>. QED  BY <2>1, <2>2 DEF Coming
<1>. HIDE DEF e, r
<1>4. e = Bs \/ (Len(q) = 1 /\ e.type = "insert" /\ e.n \in Nat /\ e.count \in Nat)
  BY <1>1 DEF BackSpacesFirst
<1>5. CASE e = Bs
  <2>. DEFINE l == Inserted(q)
  <2>1. e.type = "backspace"
    BY <1>5 DEF Bs, Event
  <2>2. u = IF sel THEN t ELSE Rewritten(t, 1, <<>>)
    BY <2>1 DEF TextAfter, Deleted
  <2>3. Inserted(r) = Inserted(q)
    BY <1>1, <2>1 DEF Inserted
  <2>4. l \in Seq(Nat)
    <3>1. CASE q # <<>> /\ Last(q).type = "insert"
      <4>1. Last(q).n \in Nat /\ Last(q).count \in Nat
        <5>1. Len(q) \in 1 .. Len(q) /\ Last(q) = q[Len(q)]
          BY <1>1 DEF Last
        <5>2. Last(q) # Bs
          BY <3>1 DEF Bs, Event
        <5>. QED  BY <5>1, <5>2 DEF BackSpacesFirst
      <4>. QED  BY <3>1, <4>1, LettersType DEF Inserted
    <3>2. CASE ~(q # <<>> /\ Last(q).type = "insert")
      BY <3>2, EmptySeq DEF Inserted
    <3>. QED  BY <3>1, <3>2
  <2>. HIDE DEF l, u
  <2>5. u \in Seq(Nat)
    BY <2>2, RewrittenType
  <2>6. Deletes(r, FALSE, field) = Coming(r)
    BY <1>2 DEF Deletes
  <2>7. CASE sel
    <3>1. Deletes(q, sel, field) = Coming(r) /\ u = t
      BY <1>2, <1>5, <2>2, <2>7 DEF Deletes
    <3>. QED  BY <2>3, <2>5, <2>6, <3>1 DEF OwedOf, u, e, r
  <2>8. CASE ~sel
    <3>1. Deletes(q, sel, field) = Coming(q) /\ Coming(q) \in Nat \ {0} /\ Coming(r) = Coming(q) - 1
      BY <1>2, <1>5, <2>8 DEF Deletes
    <3>2. u = Rewritten(t, 1, <<>>)
      BY <2>2, <2>8
    <3>3. Rewritten(u, Coming(r), l) = Rewritten(t, Coming(q), l)
      BY <2>4, <3>1, <3>2, RewrittenBack
    <3>. QED  BY <2>3, <2>5, <2>6, <3>1, <3>3 DEF OwedOf, u, e, r, l
  <2>. QED  BY <2>7, <2>8
<1>6. CASE e # Bs
  <2>. DEFINE l == Letters(e.n, e.count)
  <2>1. Len(q) = 1 /\ e.type = "insert" /\ e.n \in Nat /\ e.count \in Nat /\ r = <<>> /\ Last(q) = e
    BY <1>1, <1>4, <1>6
  <2>2. l \in Seq(Nat)
    BY <2>1, LettersType
  <2>3. u = t \o l
    BY <2>1 DEF TextAfter
  <2>4. Inserted(q) = l /\ Inserted(r) = <<>>
    BY <2>1 DEF Inserted
  <2>5. Coming(r) = 0 /\ Coming(q) = 0
    <3>1. \A i \in 1 .. Len(r) : r[i] \notin {Bs}
      BY <2>1, EmptySeq
    <3>2. Coming(r) = 0
      BY <1>1, <3>1, CountSome DEF Coming
    <3>. QED  BY <1>2, <1>6, <3>2
  <2>6. Deletes(q, sel, field) = 0 /\ Deletes(r, FALSE, field) = 0
    BY <2>5 DEF Deletes
  <2>. HIDE DEF l, u
  <2>7. u \in Seq(Nat) /\ Rewritten(t, 0, l) = t \o l
    BY <2>2, <2>3, RewrittenType, ConcatProperties
  <2>8. Rewritten(u, 0, <<>>) = u
    BY <2>7, RewrittenType
  <2>. QED  BY <2>3, <2>4, <2>6, <2>7, <2>8 DEF OwedOf, u, e, r
<1>. QED  BY <1>5, <1>6

\* What b and i are when b is k BackSpaces and i the insertion of c letters.
Posted(b, i, k, n, c) ==
  /\ Len(b) = k /\ \A j \in 1 .. k : b[j] = Bs
  /\ c = 0 => Len(i) = 0
  /\ c # 0 => Len(i) = 1 /\ i[1].type = "insert" /\ i[1].n = n /\ i[1].count = c

\* BackSpaces with an insertion behind them.
LEMMA BackSpacesThenLetters ==
  ASSUME NEW k \in Nat, NEW n \in Nat, NEW c \in Nat, NEW b \in Seq(AllEvents),
         NEW i \in Seq(AllEvents), Posted(b, i, k, n, c), NEW q, q = Joined(b, i)
  PROVE  /\ q \in Seq(AllEvents) /\ BackSpacesFirst(q)
         /\ Coming(q) = k /\ Inserted(q) = Letters(n, c)
<1>. DEFINE e == i[1]
<1>0. /\ Len(b) = k /\ \A j \in 1 .. k : b[j] = Bs
      /\ c = 0 => Len(i) = 0
      /\ c # 0 => Len(i) = 1 /\ i[1] = e /\ e.type = "insert" /\ e.n = n /\ e.count = c
  BY DEF Posted
<1>. HIDE DEF e
<1>1. Bs.type = "backspace" /\ Letters(n, 0) = <<>>
  <2>1. Bs.type = "backspace"
    BY DEF Bs, Event
  <2>2. Letters(n, 0) = <<>>
    BY LettersType
  <2>. QED  BY <2>1, <2>2
<1>2. /\ Joined(b, i) \in Seq(AllEvents) /\ Len(Joined(b, i)) = Len(b) + Len(i)
      /\ \A j \in 1 .. Len(b) + Len(i) : Joined(b, i)[j] = IF j <= Len(b) THEN b[j] ELSE i[j - Len(b)]
  BY JoinedItems
<1>3. /\ q \in Seq(AllEvents) /\ Len(q) = k + Len(i)
      /\ \A j \in 1 .. k + Len(i) : q[j] = IF j <= k THEN b[j] ELSE i[j - k]
  BY <1>0, <1>2, Zenon
<1>4. Coming(q) = k
  <2>1. HowMany(Joined(b, i), {Bs}) = HowMany(b, {Bs}) + HowMany(i, {Bs})
    BY JoinedCount
  <2>2. HowMany(b, {Bs}) = k
    <3>1. \A j \in 1 .. Len(b) : b[j] \in {Bs}
      BY <1>0
    <3>. QED  BY <1>0, <3>1, CountAll
  <2>3. HowMany(i, {Bs}) = 0
    <3>1. \A j \in 1 .. Len(i) : i[j] \notin {Bs}
      <4>1. CASE c = 0
        BY <1>0, <4>1
      <4>2. CASE c # 0
        <5>1. Len(i) = 1 /\ i[1] # Bs
          BY <1>0, <1>1, <4>2
        <5>. QED  BY <5>1
      <4>. QED  BY <4>1, <4>2
    <3>. QED  BY <3>1, CountSome
  <2>4. HowMany(q, {Bs}) = k + 0
    BY <2>1, <2>2, <2>3, Zenon
  <2>. QED  BY <2>4 DEF Coming
<1>5. CASE c = 0
  <2>1. Len(q) = k /\ \A j \in 1 .. Len(q) : q[j] = Bs
    <3>1. Len(i) = 0 /\ k + 0 = k
      BY <1>0, <1>5
    <3>2. Len(q) = k /\ \A j \in 1 .. k : j <= k /\ q[j] = IF j <= k THEN b[j] ELSE i[j - k]
      BY <1>3, <3>1
    <3>. QED  BY <1>0, <3>2
  <2>2. q # <<>> => Last(q) = Bs
    <3>1. q # <<>> => Len(q) \in 1 .. Len(q)
      BY <1>3, <2>1, EmptySeq
    <3>. QED  BY <2>1, <3>1 DEF Last
  <2>. QED  BY <1>1, <1>3, <1>4, <1>5, <2>1, <2>2 DEF BackSpacesFirst, Inserted
<1>6. CASE c # 0
  <2>1. Len(i) = 1 /\ i[1] = e /\ k + 1 \in 1 .. k + 1 /\ ~(k + 1 <= k) /\ (k + 1) - k = 1
    BY <1>0, <1>6
  <2>2. Len(q) = k + 1 /\ \A j \in 1 .. k + 1 : q[j] = IF j <= k THEN b[j] ELSE i[j - k]
    BY <1>3, <2>1
  <2>3. q[k + 1] = e
    BY <2>1, <2>2
  <2>4. ASSUME NEW j \in 1 .. Len(q)
        PROVE  q[j] = Bs \/ j = Len(q)
    <3>1. CASE j = k + 1
      BY <2>2, <3>1
    <3>2. CASE j # k + 1
      <4>1. j \in 1 .. k /\ j <= k /\ j \in 1 .. k + 1
        BY <2>2, <3>2
      <4>. QED  BY <1>0, <2>2, <4>1
    <3>. QED  BY <3>1, <3>2
  <2>5. q # <<>> /\ Last(q) = e
    BY <1>3, <2>2, <2>3, EmptySeq DEF Last
  <2>6. BackSpacesFirst(q)
    BY <1>0, <1>6, <2>2, <2>3, <2>4 DEF BackSpacesFirst
  <2>. QED  BY <1>0, <1>3, <1>4, <1>6, <2>5, <2>6 DEF Inserted
<1>. QED  BY <1>5, <1>6

\* What PostKeys puts in an empty queue.
PostedKeys(k, n, c) == (<<>> \o Backspaces(k)) \o Insertion(n, c)

\* It owes its BackSpaces and its letters.
LEMMA PostedOwed ==
  ASSUME NEW k \in Nat, NEW n \in Nat, NEW c \in Nat, NEW q, q = PostedKeys(k, n, c)
  PROVE  /\ q \in Seq(AllEvents) /\ BackSpacesFirst(q)
         /\ Coming(q) = k /\ Inserted(q) = Letters(n, c)
<1>. DEFINE b == Backspaces(k)
            i == Insertion(n, c)
            e == [type |-> "insert", n |-> n, count |-> c]
<1>1. b \in Seq(AllEvents) /\ i \in Seq(AllEvents)
  BY PostedEvents
<1>2. Len(b) = k /\ \A j \in 1 .. k : b[j] = Bs
  BY DEF Backspaces, Bs
<1>3. /\ c = 0 => Len(i) = 0
      /\ c # 0 => Len(i) = 1 /\ i[1] = e
  BY DEF Insertion
<1>4. e.type = "insert" /\ e.n = n /\ e.count = c
  OBVIOUS
<1>5. q = Joined(b, i)
  BY <1>1, ConcatEmptySeq DEF Joined, PostedKeys
<1>. HIDE DEF b, i, e
<1>6. Posted(b, i, k, n, c)
  BY <1>2, <1>3, <1>4 DEF Posted
<1>. QED  BY <1>1, <1>5, <1>6, BackSpacesThenLetters

\* The word of the engine and the text are sequences of letters.
Texts == known \in Seq(Nat) /\ text \in Seq(Nat) /\ selected \in BOOLEAN

\* Where the events of a user who waits are; in Spotlight keys that were posted are
\* known to fail.
Phase == Quiet(queue) \/ (BackSpacesFirst(queue) /\ (field = "Spotlight" => mishaps # {}))

\* The invariant: for a user who waits, the word agrees with the text.
SyncInv == Texts /\ (pace = "waits" => Phase /\ InSync)

\* Whatever arrives leaves a text.
LEMMA TextsThrough ==
  ASSUME EventsOK, Texts, queue # <<>>, LetThrough(Head(queue))
  PROVE  /\ text' \in Seq(Nat) /\ selected' \in BOOLEAN
         /\ Len(queue) = 1 => queue' = <<>>
<1>. DEFINE e == Head(queue)
<1>1. e \in AllEvents /\ (Len(queue) = 1 => Tail(queue) = <<>>)
  BY LastAndTail, HeadTailProperties DEF EventsOK
<1>2. text \in Seq(Nat) /\ Rewritten(text, 1, <<>>) \in Seq(Nat)
  BY RewrittenType DEF Texts
<1>3. e.n \in Nat
  BY <1>1 DEF AllEvents, UserEvents, SyntheticEvents
<1>4. e.type = "insert" => Letters(e.n, e.count) \in Seq(Nat)
  <2>1. e.type = "insert" => e.count \in Nat
    BY <1>1 DEF AllEvents, UserEvents, SyntheticEvents, Types, KeyDowns
  <2>. QED  BY <1>3, <2>1, LettersType
<1>5. Append(text, e.n) \in Seq(Nat)
  BY <1>2, <1>3, AppendProperties
<1>6. e.type = "insert" => text \o Letters(e.n, e.count) \in Seq(Nat)
  BY <1>2, <1>4, ConcatProperties
<1>. HIDE DEF e
<1>7. TextAfter(text, selected, e) \in Seq(Nat)
  BY <1>2, <1>5, <1>6 DEF TextAfter, Deleted
<1>. QED  BY <1>1, <1>7 DEF LetThrough, Texts, SelectedAfter, e

\* A step after which no synthetic key is on its way.
LEMMA QuietKeeps ==
  ASSUME Quiet(queue'), queue' \in Seq(AllEvents), text' \in Seq(Nat),
         mishaps' = {} => IsSuffix(known', text')
  PROVE  Phase' /\ InSync'
<1>1. OwedOf(queue', text', selected', field') = text'
  BY QuietOwed
<1>2. TextOwed' = text'
  BY <1>1 DEF TextOwed, OwedOf, Deletes, Inserted, Coming, Bs
<1>. QED  BY <1>2 DEF Phase, InSync

\* With no synthetic key on its way the word is a suffix of the text.
LEMMA QuietMeans ==
  ASSUME EventsOK, Texts, Quiet(queue), pace = "waits", InSync
  PROVE  mishaps = {} => IsSuffix(known, text)
<1>1. TextOwed = text
  BY QuietOwed, OwedIs DEF EventsOK, Texts
<1>. QED  BY <1>1 DEF InSync

\* Whatever the engine makes of an event, its word is a text.
LEMMA TextsStep ==
  ASSUME EventsOK, Texts, [Next]_vars
  PROVE  Texts'
<1>. DEFINE ev == Head(queue)
<1>0. known \in Seq(Nat) /\ text \in Seq(Nat) /\ selected \in BOOLEAN /\ <<>> \in Seq(Nat)
  BY EmptySeq DEF Texts
<1>1. CASE EventTapCallback
  <2>1. queue # <<>>
    BY <1>1 DEF EventTapCallback
  <2>2. ASSUME LetThrough(ev), known' \in Seq(Nat)  PROVE Texts'
    BY <2>1, <2>2, TextsThrough DEF Texts
  <2>3. CASE LetThrough(ev) /\ UNCHANGED known
    BY <1>0, <2>2, <2>3
  <2>4. CASE LetThrough(ev) /\ UnikeyResetBuf
    BY <1>0, <2>2, <2>4 DEF UnikeyResetBuf
  <2>5. CASE HandleFlagsChangedForSwitchHotkey(ev)
    BY <1>0, <2>2, <2>5 DEF HandleFlagsChangedForSwitchHotkey, toggleVietnamese, UnikeyResetBuf
  <2>6. CASE ~IsSynthetic(ev) /\ BackSpaceDown(ev)
    <3>1. ev.n \in Nat
      BY <2>1, <2>6, HeadIsTheUsers DEF UserEvents
    <3>2. ASSUME NEW b \in 1 .. MaxBacks  PROVE Rewritten(known, b, Letters(ev.n, b - 1)) \in Seq(Nat)
      <4>1. b \in Nat /\ b - 1 \in Nat
        BY BoundsAssumption
      <4>2. Letters(ev.n, b - 1) \in Seq(Nat)
        BY <3>1, <4>1, LettersType
      <4>. QED  BY <1>0, <4>1, <4>2, RewrittenType
    <3>3. known' \in Seq(Nat) /\ LetThrough(ev)
      BY <1>0, <2>6, <3>2 DEF BackSpaceDown
    <3>. QED  BY <2>2, <3>3
  <2>7. CASE ~IsSynthetic(ev) /\ CharDown(ev)
    <3>1. ev.n \in Nat
      BY <2>1, <2>7, HeadIsTheUsers DEF UserEvents
    <3>2. CASE known' = Append(known, ev.n) /\ LetThrough(ev)
      <4>1. Append(known, ev.n) \in Seq(Nat)
        BY <1>0, <3>1, AppendProperties
      <4>. QED  BY <2>2, <3>2, <4>1
    <3>3. ASSUME NEW b \in 0 .. MaxBacks, NEW c \in 0 .. MaxLetters,
                 known' = Rewritten(known, b, Letters(ev.n, c)),
                 TryReplaceViaAccessibility(b, ev.n, c) \/ PostKeys(b, ev.n, c)
          PROVE  Texts'
      <4>1. b \in Nat /\ c \in Nat
        BY BoundsAssumption
      <4>2. Letters(ev.n, c) \in Seq(Nat)
        BY <3>1, <4>1, LettersType
      <4>3. known' \in Seq(Nat) /\ Rewritten(text, b, Letters(ev.n, c)) \in Seq(Nat)
        BY <1>0, <3>3, <4>1, <4>2, RewrittenType
      <4>4. CASE TryReplaceViaAccessibility(b, ev.n, c)
        BY <4>3, <4>4 DEF TryReplaceViaAccessibility, Texts
      <4>5. CASE PostKeys(b, ev.n, c)
        BY <1>0, <4>3, <4>5 DEF PostKeys, Texts, client
      <4>. QED  BY <3>3, <4>4, <4>5
    <3>. QED  BY <2>4, <2>7, <3>2, <3>3 DEF CharDown
  <2>8. ev.type \in KeyDowns => ~IsSynthetic(ev)
    BY DEF KeyDowns, IsSynthetic
  <2>9. CASE ev.type \in KeyDowns /\ KeyDown(ev)
    BY <2>3, <2>4, <2>6, <2>7, <2>8, <2>9 DEF KeyDown
  <2>. QED  BY <1>1, <2>3, <2>4, <2>5, <2>9 DEF EventTapCallback, MouseDown
<1>2. CASE PassBy
  BY <1>0, <1>2, TextsThrough DEF PassBy, Texts
<1>3. CASE \/ \E type \in KeyDowns \cup {"click"} : Press(type)
           \/ \E m \in kTrackedModifierMask : ChangeModifier(m)
  BY <1>0, <1>3 DEF Press, ChangeModifier, Act, Texts, client
<1>4. CASE Suggest
  BY <1>0, <1>4 DEF Suggest, Texts
<1>5. CASE DisableTap \/ EnableTap \/ UNCHANGED vars
  BY <1>0, <1>5 DEF DisableTap, EnableTap, vars, client, Texts
<1>6. CASE chooseMethod \/ \E on \in BOOLEAN : switchToggled(on)
  BY <1>0, <1>6 DEF chooseMethod, switchToggled, UnikeyResetBuf, client, Texts
<1>. QED  BY <1>1, <1>2, <1>3, <1>4, <1>5, <1>6 DEF Next

\* A synthetic key that arrives leaves in order what is behind it.
LEMMA Arrived ==
  ASSUME EventsOK, Texts, Phase, InSync, queue # <<>>, IsSynthetic(Head(queue)),
         LetThrough(Head(queue)), UNCHANGED <<known, mishaps, pace, field>>
  PROVE  Phase' /\ InSync'
<1>1. queue \in Seq(AllEvents) /\ text \in Seq(Nat) /\ selected \in BOOLEAN
  BY DEF EventsOK, Texts
<1>2. BackSpacesFirst(queue) /\ (field = "Spotlight" => mishaps # {})
  <2>1. Head(queue) \notin UserEvents
    BY DEF IsSynthetic, UserEvents, Types, KeyDowns
  <2>. QED  BY <2>1 DEF Phase, Quiet
<1>3. /\ queue' = Tail(queue) /\ text' = TextAfter(text, selected, Head(queue))
      /\ selected' = FALSE
  BY DEF LetThrough, SelectedAfter, IsSynthetic
<1>4. BackSpacesFirst(queue') /\ (field' = "Spotlight" => mishaps' # {})
  BY <1>1, <1>2, <1>3, TailFirst
<1>5. CASE field = "Spotlight"
  BY <1>2, <1>4, <1>5 DEF Phase, InSync
<1>6. CASE field # "Spotlight"
  <2>1. OwedOf(queue', text', selected', field') = OwedOf(queue, text, selected, field)
    BY <1>1, <1>2, <1>3, <1>6, OneArrives
  <2>2. TextOwed' = TextOwed
    BY <2>1, OwedIs DEF TextOwed, OwedOf, Deletes, Inserted, Coming, Bs
  <2>. QED  BY <1>4, <2>2 DEF Phase, InSync
<1>. QED  BY <1>5, <1>6

\* An event of a user who waits is let through: what is left is what it did to the text.
LEMMA LetThroughInSync ==
  ASSUME EventsOK, Texts, Quiet(queue), queue # <<>>, LetThrough(Head(queue)),
         mishaps' = {} => IsSuffix(known', text')
  PROVE  Phase' /\ InSync'
<1>1. queue' = <<>> /\ text' \in Seq(Nat)
  BY TextsThrough DEF Quiet
<1>2. <<>> \in Seq(AllEvents)
  BY EmptySeq
<1>. QED  BY <1>1, <1>2, QuietKeeps DEF Quiet

\* An engine without a word agrees with every text.
LEMMA NoWordInSync ==
  ASSUME EventsOK, Texts, Quiet(queue), queue # <<>>, LetThrough(Head(queue)), known' = <<>>
  PROVE  Phase' /\ InSync'
<1>1. text' \in Seq(Nat)
  BY TextsThrough
<1>2. IsSuffix(<<>>, text')
  BY <1>1, NoLetters
<1>. QED  BY <1>2, LetThroughInSync

\* A BackSpace of the user takes the letter from the text that the engine takes
\* from its word, or it is a mishap.
LEMMA BackSpaceInSync ==
  ASSUME EventsOK, Texts, Quiet(queue), queue # <<>>, Head(queue) \in UserEvents,
         mishaps = {} => IsSuffix(known, text),
         Head(queue).type = "BackSpace", BackSpaceDown(Head(queue))
  PROVE  Phase' /\ InSync'
<1>. DEFINE ev == Head(queue)
<1>0. known \in Seq(Nat) /\ text \in Seq(Nat) /\ ev.n \in Nat
  BY DEF Texts, UserEvents
<1>1. LetThrough(ev) /\ text' = Deleted(text, selected)
  BY DEF BackSpaceDown, LetThrough, TextAfter
<1>2. CASE known = <<>> /\ UNCHANGED <<known, mishaps>>
  BY <1>1, <1>2, NoWordInSync
<1>3. ASSUME NEW b \in 1 .. MaxBacks, b <= Len(known),
             known' = Rewritten(known, b, Letters(ev.n, b - 1)),
             mishaps' = mishaps \cup (IF b > 1 THEN {"tone"} ELSE {})
                                \cup (IF selected THEN {"suggestion"} ELSE {})
      PROVE  Phase' /\ InSync'
  <2>1. SUFFICES ASSUME mishaps' = {}  PROVE IsSuffix(known', text')
    BY <1>1, LetThroughInSync
  <2>2. b = 1 /\ ~selected /\ mishaps = {}
    <3>1. ~(b > 1) /\ ~selected /\ mishaps = {}
      BY <1>3, <2>1, Zenon
    <3>2. b \in Nat /\ b >= 1
      BY BoundsAssumption
    <3>. QED  BY <3>1, <3>2
  <2>3. Letters(ev.n, b - 1) = <<>>
    <3>1. b - 1 = 0
      BY <2>2
    <3>2. Letters(ev.n, 0) = <<>>
      BY <1>0, LettersType
    <3>. QED  BY <3>1, <3>2
  <2>4. known' = Rewritten(known, 1, <<>>) /\ text' = Rewritten(text, 1, <<>>)
    BY <1>1, <1>3, <2>2, <2>3 DEF Deleted
  <2>5. <<>> \in Seq(Nat) /\ 1 \in Nat /\ 1 <= Len(known) /\ IsSuffix(known, text)
    BY <1>3, <2>2, EmptySeq
  <2>. QED  BY <1>0, <2>4, <2>5, SuffixRewritten
<1>. QED  BY <1>2, <1>3 DEF BackSpaceDown

\* An answer of the engine does to the text what the engine did to its word.
LEMMA AnswerInSync ==
  ASSUME EventsOK, Texts, Quiet(queue), queue # <<>>, Head(queue) \in UserEvents,
         mishaps = {} => IsSuffix(known, text), UNCHANGED user,
         NEW b \in Nat, NEW c \in Nat, NEW n \in Nat, b <= Len(known),
         known' = Rewritten(known, b, Letters(n, c)),
         TryReplaceViaAccessibility(b, n, c) \/ PostKeys(b, n, c)
  PROVE  Phase' /\ InSync'
<1>. DEFINE l == Letters(n, c)
<1>0. known \in Seq(Nat) /\ text \in Seq(Nat) /\ selected \in BOOLEAN
  BY DEF Texts
<1>1. l \in Seq(Nat)
  BY LettersType
<1>2. Tail(queue) = <<>>
  BY LastAndTail DEF EventsOK, Quiet
<1>3. mishaps = {} => IsSuffix(known', Rewritten(text, b, l))
  <2>. HIDE DEF l
  <2>1. mishaps = {} => IsSuffix(Rewritten(known, b, l), Rewritten(text, b, l))
    BY <1>0, <1>1, SuffixRewritten
  <2>. QED  BY <2>1 DEF l
<1>4. CASE TryReplaceViaAccessibility(b, n, c)
  <2>1. queue' = <<>> /\ mishaps' = mishaps /\ text' = Rewritten(text, b, l)
    BY <1>2, <1>4 DEF TryReplaceViaAccessibility
  <2>2. text' \in Seq(Nat) /\ <<>> \in Seq(AllEvents)
    BY <1>0, <1>1, <2>1, RewrittenType, EmptySeq
  <2>. QED  BY <1>3, <2>1, <2>2, QuietKeeps DEF Quiet
<1>5. CASE PostKeys(b, n, c)
  <2>. DEFINE k == IF b > 0 /\ selected THEN b + 1 ELSE b
  <2>1. queue' = PostedKeys(k, n, c) /\ k \in Nat
    <3>1. k \in Nat
      OBVIOUS
    <3>2. queue' = (Tail(queue) \o Backspaces(k)) \o Insertion(n, c)
      BY <1>5 DEF PostKeys
    <3>. HIDE DEF k
    <3>. QED  BY <1>2, <3>1, <3>2, Zenon DEF PostedKeys
  <2>2. /\ mishaps' = {} => mishaps = {} /\ field # "Spotlight"
        /\ field' = "Spotlight" => mishaps' # {}
        /\ UNCHANGED <<text, selected, field>>
    BY <1>5 DEF PostKeys, client, user
  <2>3. /\ BackSpacesFirst(queue') /\ Inserted(queue') = l /\ Coming(queue') = k
    <3>. HIDE DEF k
    <3>. QED  BY <2>1, PostedOwed
  <2>4. field # "Spotlight" => Deletes(queue', selected, field) = b
    BY <1>0, <2>3 DEF Deletes
  <2>5. field # "Spotlight" => OwedOf(queue', text', selected', field') = Rewritten(text, b, l)
    BY <2>2, <2>3, <2>4 DEF OwedOf
  <2>6. TextOwed' = OwedOf(queue', text', selected', field')
    BY DEF TextOwed, OwedOf, Deletes, Inserted, Coming, Bs
  <2>7. mishaps' = {} => IsSuffix(known', TextOwed')
    BY <1>3, <2>2, <2>5, <2>6
  <2>. QED  BY <2>2, <2>3, <2>7 DEF Phase, InSync
<1>. QED  BY <1>4, <1>5

\* So does every key that goes down.
LEMMA KeyInSync ==
  ASSUME EventsOK, Texts, OffIsIdle, Quiet(queue), queue # <<>>, Head(queue) \in UserEvents,
         mishaps = {} => IsSuffix(known, text), KeyDown(Head(queue)), UNCHANGED user
  PROVE  Phase' /\ InSync'
<1>. DEFINE ev == Head(queue)
<1>0. known \in Seq(Nat) /\ text \in Seq(Nat) /\ ev.n \in Nat
  BY DEF Texts, UserEvents
<1>1. CASE ~gVietnameseEnabled /\ LetThrough(ev) /\ UNCHANGED <<known, mishaps>>
  BY <1>1, NoWordInSync DEF OffIsIdle
<1>2. CASE ev.type = "BackSpace" /\ BackSpaceDown(ev)
  BY <1>2, BackSpaceInSync
<1>3. CASE UnikeyResetBuf /\ LetThrough(ev)
  BY <1>3, NoWordInSync DEF UnikeyResetBuf
<1>4. CASE /\ ev.type = "char" /\ known' = Append(known, ev.n)
           /\ LetThrough(ev) /\ UNCHANGED mishaps
  <2>. DEFINE l == Letters(ev.n, 1)
  <2>1. text' = Append(text, ev.n)
    BY <1>4 DEF LetThrough, TextAfter
  <2>2. known' = Rewritten(known, 0, l) /\ text' = Rewritten(text, 0, l) /\ l \in Seq(Nat)
    BY <1>0, <1>4, <2>1, LettersType
  <2>. HIDE DEF l
  <2>3. 0 \in Nat /\ 0 <= Len(known)
    BY <1>0, LenProperties
  <2>4. mishaps = {} => IsSuffix(known', text')
    BY <1>0, <2>2, <2>3, SuffixRewritten
  <2>. QED  BY <1>4, <2>4, LetThroughInSync
<1>5. ASSUME NEW b \in 0 .. MaxBacks, NEW c \in 0 .. MaxLetters, b <= Len(known),
             known' = Rewritten(known, b, Letters(ev.n, c)),
             TryReplaceViaAccessibility(b, ev.n, c) \/ PostKeys(b, ev.n, c)
      PROVE  Phase' /\ InSync'
  <2>1. b \in Nat /\ c \in Nat
    BY BoundsAssumption
  <2>. QED  BY <1>0, <1>5, <2>1, AnswerInSync
<1>. QED  BY <1>1, <1>2, <1>3, <1>4, <1>5 DEF KeyDown, CharDown

\* The callback leaves a user who waits in step with the engine.
LEMMA CallbackInSync ==
  ASSUME EventsOK, Texts, OffIsIdle, Phase, InSync, pace = "waits", EventTapCallback
  PROVE  Phase' /\ InSync'
<1>. DEFINE ev == Head(queue)
<1>1. queue # <<>> /\ UNCHANGED user
  BY DEF EventTapCallback
<1>2. CASE IsSynthetic(ev)
  <2>1. LetThrough(ev) /\ UNCHANGED <<known, mishaps, pace, field>>
    BY <1>1, <1>2 DEF EventTapCallback, IsSynthetic, KeyDowns, user
  <2>. QED  BY <1>1, <1>2, <2>1, Arrived
<1>3. CASE ~IsSynthetic(ev)
  <2>1. ev \in UserEvents
    BY <1>1, <1>3, HeadIsTheUsers
  <2>2. Quiet(queue)
    <3>1. CASE BackSpacesFirst(queue)
      <4>1. ev = queue[1] /\ 1 \in 1 .. Len(queue)
        BY <1>1, LastAndTail DEF EventsOK
      <4>2. ev # Bs /\ ev.type # "insert"
        BY <1>3 DEF IsSynthetic, Bs, Event
      <4>. QED  BY <3>1, <4>1, <4>2 DEF BackSpacesFirst
    <3>. QED  BY <3>1 DEF Phase
  <2>3. mishaps = {} => IsSuffix(known, text)
    BY <2>2, QuietMeans
  <2>4. CASE ev.type = "flags" /\ HandleFlagsChangedForSwitchHotkey(ev)
    <3>1. LetThrough(ev) /\ text' = text
      BY <2>4 DEF HandleFlagsChangedForSwitchHotkey, LetThrough, TextAfter
    <3>2. CASE known' = <<>>
      BY <1>1, <2>2, <3>1, <3>2, NoWordInSync
    <3>3. CASE UNCHANGED <<known, mishaps>>
      BY <1>1, <2>2, <2>3, <3>1, <3>3, LetThroughInSync
    <3>. QED  BY <2>4, <3>2, <3>3 DEF HandleFlagsChangedForSwitchHotkey, toggleVietnamese, UnikeyResetBuf
  <2>5. CASE MouseDown(ev)
    BY <1>1, <2>2, <2>5, NoWordInSync DEF MouseDown, UnikeyResetBuf
  <2>6. CASE KeyDown(ev)
    BY <1>1, <2>1, <2>2, <2>3, <2>6, KeyInSync
  <2>. QED  BY <1>3, <2>4, <2>5, <2>6 DEF EventTapCallback
<1>. QED  BY <1>2, <1>3

\* A disabled tap lets pass what it posted before, as an enabled one does; what
\* the user does then is a mishap.
LEMMA PassByInSync ==
  ASSUME EventsOK, Texts, Phase, InSync, PassBy
  PROVE  Phase' /\ InSync'
<1>1. queue # <<>> /\ LetThrough(Head(queue)) /\ UNCHANGED <<known, user>>
  BY DEF PassBy
<1>2. CASE IsSynthetic(Head(queue))
  <2>1. UNCHANGED <<known, mishaps, pace, field>>
    BY <1>2 DEF PassBy, user
  <2>. QED  BY <1>1, <1>2, <2>1, Arrived
<1>3. CASE ~IsSynthetic(Head(queue))
  <2>1. mishaps' # {}
    BY <1>3 DEF PassBy
  <2>2. Quiet(queue)
    <3>1. CASE BackSpacesFirst(queue)
      <4>1. Head(queue) = queue[1] /\ 1 \in 1 .. Len(queue)
        BY <1>1, LastAndTail DEF EventsOK
      <4>2. Head(queue) # Bs /\ Head(queue).type # "insert"
        BY <1>3 DEF IsSynthetic, Bs, Event
      <4>. QED  BY <3>1, <4>1, <4>2 DEF BackSpacesFirst
    <3>. QED  BY <3>1 DEF Phase
  <2>. QED  BY <1>1, <2>1, <2>2, LetThroughInSync
<1>. QED  BY <1>2, <1>3

\* No step takes the engine out of step with the text of a user who waits.
LEMMA NextInSync ==
  ASSUME EventsOK, OffIsIdle, SyncInv, [Next]_vars
  PROVE  SyncInv'
<1>1. Texts /\ Texts'
  BY TextsStep DEF SyncInv
<1>2. pace' = pace
  <2>1. EventTapCallback => pace' = pace
    BY DEF EventTapCallback, user
  <2>2. PassBy \/ Suggest \/ DisableTap \/ EnableTap \/ chooseMethod => pace' = pace
    BY DEF PassBy, Suggest, DisableTap, EnableTap, chooseMethod, user
  <2>3. (\E on \in BOOLEAN : switchToggled(on)) => pace' = pace
    BY DEF switchToggled, user
  <2>4. (\E type \in KeyDowns \cup {"click"} : Press(type))
          \/ (\E m \in kTrackedModifierMask : ChangeModifier(m)) => pace' = pace
    BY DEF Press, ChangeModifier, Act
  <2>. QED  BY <2>1, <2>2, <2>3, <2>4 DEF Next, vars, user
<1>3. SUFFICES ASSUME pace = "waits"  PROVE Phase' /\ InSync'
  BY <1>1, <1>2 DEF SyncInv
<1>4. Phase /\ InSync
  BY <1>3 DEF SyncInv
<1>5. MayAct => queue = <<>>
  BY <1>3 DEF MayAct
<1>6. queue = <<>> => (mishaps = {} => IsSuffix(known, text))
  BY <1>1, <1>3, <1>4, QuietMeans DEF Quiet
<1>7. text' \in Seq(Nat) /\ <<>> \in Seq(AllEvents)
  BY <1>1, EmptySeq DEF Texts
<1>8. CASE EventTapCallback
  BY <1>1, <1>3, <1>4, <1>8, CallbackInSync
<1>9. CASE PassBy
  BY <1>1, <1>4, <1>9, PassByInSync
<1>10. ASSUME NEW type \in Types, NEW mods \in SUBSET kTrackedModifierMask, Act(type, mods)
       PROVE  Phase' /\ InSync'
  <2>. DEFINE e == Event(type, typed + 1, mods)
              q == Append(<<>>, e)
  <2>1. /\ queue = <<>> /\ queue' = Append(queue, e)
        /\ UNCHANGED <<known, text, mishaps>>
    BY <1>5, <1>10 DEF Act, client
  <2>2. e \in UserEvents /\ e \in AllEvents
    BY DEF Event, AllEvents, UserEvents, EventsOK
  <2>. HIDE DEF e
  <2>3. /\ q \in Seq(AllEvents) /\ Len(q) = 1 /\ q # <<>> /\ q[1] = e
    BY <1>7, <2>2, AppendProperties, EmptySeq
  <2>4. queue' = q
    BY <2>1
  <2>. HIDE DEF q
  <2>5. Head(q) = e
    BY <2>3, HeadTailProperties
  <2>. QED  BY <1>6, <1>7, <2>1, <2>2, <2>3, <2>4, <2>5, QuietKeeps DEF Quiet
<1>11. CASE \E type \in KeyDowns \cup {"click"} : Press(type)
  BY <1>10, <1>11 DEF Press, Types, EventsOK
<1>12. CASE \E m \in kTrackedModifierMask : ChangeModifier(m)
  BY <1>10, <1>12 DEF ChangeModifier, Types, EventsOK
<1>13. CASE Suggest
  <2>1. queue = <<>> /\ UNCHANGED <<queue, known, text, mishaps>>
    BY <1>5, <1>13 DEF Suggest
  <2>. QED  BY <1>6, <1>7, <2>1, QuietKeeps DEF Quiet
<1>14. CASE DisableTap \/ EnableTap \/ UNCHANGED vars
  <2>1. UNCHANGED <<queue, known, text, selected, mishaps, pace, field>>
    BY <1>14 DEF DisableTap, EnableTap, vars, client, user
  <2>2. TextOwed' = TextOwed
    BY <2>1 DEF TextOwed
  <2>. QED  BY <1>4, <2>1, <2>2 DEF Phase, InSync
<1>15. CASE chooseMethod \/ \E on \in BOOLEAN : switchToggled(on)
  <2>1. queue' = <<>> /\ known' = <<>>
    BY <1>5, <1>15 DEF chooseMethod, switchToggled, UnikeyResetBuf
  <2>2. IsSuffix(<<>>, text')
    BY <1>7, NoLetters
  <2>. QED  BY <1>7, <2>1, <2>2, QuietKeeps DEF Quiet
<1>. QED  BY <1>8, <1>9, <1>11, <1>12, <1>13, <1>14, <1>15 DEF Next

\* At first there is no word and no text.
LEMMA InitInSync == Init => SyncInv
<1>. SUFFICES ASSUME Init PROVE SyncInv
  OBVIOUS
<1>1. queue = <<>> /\ known = <<>> /\ text = <<>> /\ selected = FALSE
  BY DEF Init
<1>2. <<>> \in Seq(AllEvents) /\ <<>> \in Seq(Nat)
  BY EmptySeq
<1>3. Texts
  BY <1>1, <1>2 DEF Texts
<1>4. OwedOf(queue, text, selected, field) = text
  <2>1. queue \in Seq(AllEvents) /\ Quiet(queue) /\ text \in Seq(Nat)
    BY <1>1, <1>2 DEF Quiet
  <2>. QED  BY <2>1, QuietOwed
<1>5. IsSuffix(known, TextOwed)
  BY <1>1, <1>2, <1>4, OwedIs, NoLetters
<1>. QED  BY <1>1, <1>3, <1>5 DEF SyncInv, Phase, Quiet, InSync

\* For every field and number of events the letters the engine would rewrite are those
\* before the caret of a user who waits, once the keys the tap posted have arrived:
\* past suggestions it takes away, through Accessibility in Spotlight, and however
\* often the system disables the tap, until something is a mishap and then again
\* after the next reset.
THEOREM AlwaysInSync == Spec => []InSync
<1>. DEFINE I1 == EventsOK /\ HotkeyOK
<1>1. Spec => []I1
  <2>1. Init => I1
    BY InitOK
  <2>2. I1 /\ [Next]_vars => I1'
    BY NextOK
  <2>. HIDE DEF I1
  <2>. QED  BY <2>1, <2>2, PTL DEF Spec
<1>2. I1 /\ OffIsIdle /\ SyncInv /\ [Next]_vars => SyncInv'
  BY NextInSync
<1>3. I1 /\ SyncInv => InSync
  BY DEF SyncInv, InSync
<1>. HIDE DEF I1
<1>. QED  BY <1>1, <1>2, <1>3, InitInSync, AlwaysOffIsIdle, PTL DEF Spec
=============================================================================
