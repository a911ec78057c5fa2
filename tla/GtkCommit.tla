----------------------------- MODULE GtkCommit ------------------------------
(***************************************************************************)
(* How the input module of GTK (unikey-gtk/gtkimcontextvn.c) carries out an *)
(* answer of the engine that deletes letters: it puts BackSpace keys and a *)
(* Pause in the event queue of GDK and commits the new letters at Pause.   *)
(* Keys that come before it are put at the end of the queue.  The same     *)
(* module in each client watches root properties for the method.  The      *)
(* engine is abstract: any answer it could give.                           *)
(***************************************************************************)
EXTENDS ClientText

CONSTANTS Paces,        \* how the user may type, see MayType
          MaxKeys,      \* bound: keys typed
          MaxAhead,     \* bound: keys typed ahead of the module
          MaxBacks,     \* bound: letters the engine deletes for one key
          MaxLetters    \* bound: letters the engine inserts for one key

ASSUME BoundsAssumption ==
  /\ Paces \subseteq {"waits", "oneAhead", "ahead", "any"}
  /\ MaxKeys \in Nat /\ MaxAhead \in Nat
  /\ MaxBacks \in Nat \ {0} /\ MaxLetters \in Nat \ {0}

VARIABLES
  queue,                    \* the key events in the queue of GDK
  PendingBuf, BackCount, pendingSwitch,
  visible,                  \* UkGUIVisible
  enabled,                  \* GlobalOpt.enabled
  method,                   \* the property AIMMethod: is it not VKM_OFF?
  notified,                 \* has this client seen the last change of it?
  UnikeyBuf,                \* the letters of the engine's last answer
  own,                      \* how many letters of the text the engine knows
  screen,                   \* the text of the widget
  word,                     \* history: the text as the engine's answers would have it
  typed, waiting,           \* history: how many keys were typed, those not taken yet
  pace,                     \* how this user types
  toneMoves                 \* may a BackSpace move the tone of the word?

commit == <<PendingBuf, BackCount>>
engine == <<UnikeyBuf, own, word>>
switches == <<visible, enabled, method, notified>>
settings == <<pace, toneMoves>>
vars == <<queue, commit, pendingSwitch, switches, engine, screen, typed, waiting, settings>>

FakeBackSpace == [type |-> "BackSpace", n |-> 0]
PauseKey == [type |-> "Pause", n |-> 0]
Fakes(b) == [i \in 1 .. b |-> FakeBackSpace]

\* A key with a character, one without, and those with a meaning of their own;
\* "hold" is Ctrl or Shift pressed while the other is down, "release" either
\* let go, "setup" a shortcut for a charset or a method.
TextTypes == {"char", "other", "Pause"}
Shortcuts == {"restore", "switch", "setup", "reload"}
KeyTypes == TextTypes \cup Shortcuts \cup {"BackSpace", "hold", "release"}
Events == [type : KeyTypes, n : 0 .. MaxKeys]

Init ==
  /\ queue = <<>> /\ PendingBuf = FALSE /\ BackCount = 0 /\ pendingSwitch = FALSE
  /\ visible \in BOOLEAN /\ enabled = TRUE /\ method = TRUE /\ notified = TRUE
  /\ UnikeyBuf = <<>> /\ own = 0 /\ word = <<>> /\ screen = <<>>
  /\ typed = 0 /\ waiting = <<>> /\ pace \in Paces /\ toneMoves \in BOOLEAN
-----------------------------------------------------------------------------
\* What the widget does with a key the module does not keep.
Forwarded(t, ev) ==
  IF ev.type = "BackSpace" THEN Rewritten(t, 1, <<>>)
  ELSE IF ev.type \in TextTypes THEN Append(t, ev.n)
  ELSE t

\* The engine answers: b BackSpaces and then the letters s.
Answer(b, s) ==
  /\ UnikeyBuf' = s
  /\ own' = own - b + Len(s)
  /\ word' = Rewritten(word, b, s)

\* Mutant of PutBackspaces: the new letters come before the BackSpaces.
PutPauseFirst(b) ==
  /\ queue' = Tail(queue) \o <<PauseKey>> \o Fakes(b)
  /\ PendingBuf' = TRUE /\ BackCount' = b
  /\ UNCHANGED screen

\* Puts b BackSpaces and a Pause in the queue, behind the keys that are there.
PutBackspaces(b) ==
  /\ queue' = Tail(queue) \o Fakes(b) \o <<PauseKey>>
  /\ PendingBuf' = TRUE /\ BackCount' = b
  /\ UNCHANGED screen

\* commitString
commitString(t, s) == screen' = t \o s /\ queue' = Tail(queue) /\ UNCHANGED commit

Taken(ev) == waiting' = RemoveFirst(waiting, ev.n)

\* The key goes to the widget and to nobody else.
PassOn(ev) ==
  /\ screen' = Forwarded(screen, ev) /\ word' = Forwarded(word, ev)
  /\ queue' = Tail(queue)
  /\ UNCHANGED <<commit, own, UnikeyBuf>>
-----------------------------------------------------------------------------
(* gtk_im_context_vn_filter_key, one operator for each kind of key. *)

\* The method is changed through the property when the control window shows
\* it, and else in this client alone.
Switch ==
  \/ /\ visible
     /\ method' = ~enabled /\ notified' = FALSE
     /\ UNCHANGED <<visible, enabled, own>>
  \/ /\ ~visible
     /\ enabled' = ~enabled /\ own' = 0
     /\ UNCHANGED <<visible, method, notified>>

\* checkSwitchKey: Ctrl and Shift, pressed together and let go, are a switch.
checkSwitchKey(ev) ==
  /\ Taken(ev)
  /\ pendingSwitch' = (ev.type = "hold")
  /\ IF ev.type = "release" /\ pendingSwitch THEN Switch ELSE UNCHANGED <<switches, own>>
  /\ queue' = Tail(queue)
  /\ UNCHANGED <<commit, UnikeyBuf, word, screen>>

\* setOutputCharset and setInputMethod.  Their calls of the engine reset it; when
\* the control window shows the method, the property brings it to this client
\* later and switches it on.  (The property of the charset is seen at once.)
SetUp ==
  \/ own' = 0 /\ UNCHANGED switches
  \/ visible /\ method' = TRUE /\ notified' = FALSE /\ UNCHANGED <<visible, enabled, own>>

\* The state the file gives is overruled by the property when the control
\* window is there; the engine is reset by the charset.
reloadConfig ==
  /\ enabled' \in IF visible THEN {method} ELSE BOOLEAN
  /\ own' = 0
  /\ UNCHANGED <<visible, method, notified>>

\* restoreKeys: the letters the widget lets the module delete itself are
\* replaced at once.
restoreKeys(ev) ==
  \/ /\ enabled
     /\ \E b \in 1 .. MaxBacks, c \in 1 .. MaxLetters :
          /\ b <= own
          /\ Answer(b, Letters(ev.n, c))
          /\ \/ PutBackspaces(b)
             \/ commitString(Rewritten(screen, b, <<>>), Letters(ev.n, c))
  \/ /\ enabled
     /\ UnikeyBuf' = <<>> /\ queue' = Tail(queue)
     /\ UNCHANGED <<commit, own, word, screen>>
  \/ /\ ~enabled
     /\ queue' = Tail(queue)
     /\ UNCHANGED <<commit, engine, screen>>

\* checkShortcuts
checkShortcuts(ev) ==
  /\ Taken(ev)
  /\ \/ /\ ev.type = "restore"
        /\ restoreKeys(ev)
        /\ UNCHANGED switches
     \/ /\ ev.type # "restore"
        /\ \/ ev.type = "switch" /\ Switch
           \/ ev.type = "setup" /\ SetUp
           \/ ev.type = "reload" /\ reloadConfig
        /\ queue' = Tail(queue)
        /\ UNCHANGED <<commit, UnikeyBuf, word, screen>>

\* Mutant of PauseBack: only letters are committed and the commit ended.
PauseBackWithLetters(ev) ==
  \/ /\ PendingBuf /\ UnikeyBuf # <<>>
     /\ commitString(screen, UnikeyBuf)
     /\ PendingBuf' = FALSE
     /\ UNCHANGED <<BackCount, engine>>
  \/ UnikeyBuf = <<>> /\ PassOn(ev)

\* A Pause while a commit is pending is taken for the module's own.
PauseBack(ev) ==
  \/ /\ PendingBuf
     /\ screen' = screen \o UnikeyBuf
     /\ PendingBuf' = FALSE
     /\ queue' = Tail(queue)
     /\ UNCHANGED <<BackCount, engine>>
  \/ ~PendingBuf /\ PassOn(ev)

\* Mutant of BackSpaceKey: the count is not kept.
BackSpaceUncounted(ev) ==
  /\ screen' = Forwarded(screen, ev) /\ queue' = Tail(queue)
  /\ \/ BackCount > 0 /\ UNCHANGED <<commit, engine>>
     \/ /\ BackCount = 0
        /\ own' = Len(Rewritten(Letters(0, own), 1, <<>>))
        /\ UnikeyBuf' = <<>> /\ word' = Forwarded(word, ev)
        /\ UNCHANGED commit

\* A BackSpace that is counted is the module's own.  Any other is passed on after
\* the engine is told; of its answer only the number of BackSpaces is used, one
\* of which is the key itself.
BackSpaceKey(ev) ==
  /\ screen' = Forwarded(screen, ev)
  /\ \/ /\ BackCount > 0
        /\ BackCount' = BackCount - 1
        /\ queue' = Tail(queue)
        /\ UNCHANGED <<PendingBuf, engine>>
     \/ /\ BackCount = 0 /\ own > 0
        /\ \E b \in 1 .. MaxBacks, c \in 0 .. MaxLetters :
             /\ b <= own /\ c < b /\ (c > 0 => toneMoves)
             /\ Answer(b, Letters(ev.n, c))
             /\ queue' = Tail(queue) \o Fakes(b - 1)
             /\ BackCount' = b - 1
        /\ UNCHANGED PendingBuf
     \/ /\ BackCount = 0 /\ own = 0
        /\ UnikeyBuf' = <<>> /\ word' = Forwarded(word, ev)
        /\ queue' = Tail(queue)
        /\ UNCHANGED <<commit, own>>

\* UnikeyFilter or UnikeyPutChar: the engine lets the character through or
\* rewrites what it knows of the text.
CharKey(ev) ==
  \/ /\ UnikeyBuf' = <<>> /\ own' = own + 1 /\ word' = Forwarded(word, ev)
     /\ screen' = Forwarded(screen, ev) /\ queue' = Tail(queue)
     /\ UNCHANGED commit
  \/ \E b \in 0 .. MaxBacks, c \in 0 .. MaxLetters :
       /\ b <= own /\ b + c > 0
       /\ Answer(b, Letters(ev.n, c))
       /\ IF b > 0 THEN PutBackspaces(b) ELSE commitString(screen, Letters(ev.n, c))

\* A key without a character, of which the widget may make anything.
OtherKey(ev) ==
  /\ own' = 0
  /\ screen' = Forwarded(screen, ev) /\ word' = Forwarded(word, ev)
  /\ queue' = Tail(queue)
  /\ UNCHANGED <<commit, UnikeyBuf>>

\* Mutant of PutBack: the key is forgotten.
Forget(ev) ==
  /\ queue' = Tail(queue)
  /\ UNCHANGED <<commit, engine, screen, waiting>>

\* Mutant of MustWait: only until the first BackSpace is back.
MustWaitLess == PendingBuf /\ BackCount > 1

MustWait == PendingBuf

\* The key waits for the commit, behind the keys that are in the queue.
PutBack(ev) ==
  /\ queue' = Append(Tail(queue), ev)
  /\ UNCHANGED <<commit, engine, screen, waiting>>

\* Any other key.
OrdinaryKey(ev) ==
  \/ MustWait /\ PutBack(ev)
  \/ ~MustWait /\ ~enabled /\ Taken(ev) /\ PassOn(ev)
  \/ ~MustWait /\ enabled /\ ev.type = "char" /\ Taken(ev) /\ CharKey(ev)
  \/ ~MustWait /\ enabled /\ ev.type = "other" /\ Taken(ev) /\ OtherKey(ev)

filter_key ==
  /\ queue # <<>>
  /\ LET ev == Head(queue) IN
     \/ /\ ev.type \in {"hold", "release"}
        /\ checkSwitchKey(ev)
     \/ /\ ev.type \in Shortcuts
        /\ checkShortcuts(ev)
        /\ pendingSwitch' = FALSE
     \/ /\ \/ ev.type = "Pause" /\ Taken(ev) /\ PauseBack(ev)
           \/ ev.type = "BackSpace" /\ Taken(ev) /\ BackSpaceKey(ev)
           \/ ev.type \in {"char", "other"} /\ OrdinaryKey(ev)
        /\ pendingSwitch' = FALSE
        /\ UNCHANGED switches
  /\ UNCHANGED <<typed, settings>>
-----------------------------------------------------------------------------
(* The user, the widget, and the root window. *)

Settled == queue = <<>> /\ notified

\* What this user types now: one who waits types anything, but only when all
\* events have been dealt with; the others do not wait, and type text.
MayType(type) ==
  \/ pace = "waits" /\ Settled
  \/ pace = "oneAhead" /\ type = "char" /\ waiting = <<>>
  \/ pace = "ahead" /\ type = "char" /\ Len(waiting) < MaxAhead
  \/ pace = "any" /\ Len(waiting) < MaxAhead

Press(type) ==
  /\ typed < MaxKeys /\ MayType(type)
  /\ typed' = typed + 1
  /\ queue' = Append(queue, [type |-> type, n |-> typed + 1])
  /\ waiting' = Append(waiting, typed + 1)
  /\ UNCHANGED <<commit, pendingSwitch, switches, engine, screen, settings>>

MayDisturb == (pace = "waits" /\ Settled) \/ pace = "any"
OutsideWorld == <<queue, commit, pendingSwitch, UnikeyBuf, word, screen, typed, waiting, settings>>

\* Focus goes to another widget: the engine forgets the word, and only that.
focus_out ==
  /\ MayDisturb
  /\ own' = 0
  /\ UNCHANGED <<OutsideWorld, switches>>

\* The widget resets its context because the caret moves.  Its resets after each
\* BackSpace are those that ResetByKey keeps from the engine.
reset ==
  /\ MayDisturb
  /\ own' = 0
  /\ UNCHANGED <<OutsideWorld, switches>>

\* The control window, or the module in another client, sets AIMMethod.
SetMethod(on) ==
  /\ MayDisturb
  /\ method' = on /\ notified' = FALSE
  /\ UNCHANGED <<OutsideWorld, own, visible, enabled>>

\* The event filter, for AIMMethod, with fixSyncToUnikeyMethod.
MethodChanged ==
  /\ ~notified
  /\ enabled' = method /\ notified' = TRUE
  /\ own' = 0
  /\ UNCHANGED <<OutsideWorld, visible, method>>

\* The event filter, for AGUIVisible.
VisibleChanged ==
  /\ MayDisturb
  /\ visible' = ~visible
  /\ UNCHANGED <<OutsideWorld, own, enabled, method, notified>>

Next ==
  \/ filter_key
  \/ \E type \in KeyTypes : Press(type)
  \/ focus_out
  \/ reset
  \/ MethodChanged
  \/ VisibleChanged
  \/ \E on \in BOOLEAN : SetMethod(on)

\* The main loop of GTK dispatches every event and change of a property.
Fairness == WF_vars(filter_key) /\ WF_vars(MethodChanged)

Spec == Init /\ [][Next]_vars
FairSpec == Spec /\ Fairness
-----------------------------------------------------------------------------
FakesComing == HowMany(queue, {FakeBackSpace})

\* The text as it will be when what is in the queue has been carried out.
Owed == Rewritten(screen, FakesComing, IF PendingBuf THEN UnikeyBuf ELSE <<>>)

\* For a user who waits before BackSpace, shortcuts and keys without a
\* character, the BackSpaces and the commit that are under way lead to the text
\* the engine believes in; unless a BackSpace moves the tone.
OwesWord == pace # "any" /\ ~toneMoves => Owed = word

\* Every BackSpace that is counted is in the queue, so that for a user who waits no
\* key is taken for one that the module put there, and no such key for the
\* user's.
FakesCounted ==
  /\ BackCount <= FakesComing
  /\ pace # "any" => BackCount = FakesComing

\* While keys are made to wait, a Pause is in the queue that will end it,
\* whatever the user does.
PauseComes == PendingBuf => \E i \in DOMAIN queue : queue[i].type = "Pause"

\* Switched off, the engine knows no letters of the text: keys pass it by, but
\* BackSpace does not.
OffIsIdle == ~enabled => own = 0

AtOnce == INSTANCE KeysAtOnce WITH Keys <- 1 .. MaxKeys, inOrder <- pace # "ahead", text <- Owed

\* Each key is taken once and its effect on the text is never taken apart by
\* other keys; keys are taken in their order unless two of them are typed
\* while a commit is under way.
TakesKeysAtOnce == AtOnce!Init /\ [][pace # "any" => AtOnce!Next]_<<waiting, Owed>>

\* Every key is taken some time, whatever is typed and however the word is
\* disturbed.
EveryKeyTaken ==
  \A n \in 1 .. MaxKeys : n \in ToSet(waiting) ~> n \notin ToSet(waiting)
=============================================================================
