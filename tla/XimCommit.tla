----------------------------- MODULE XimCommit ------------------------------
(***************************************************************************)
(* How the XIM server (xim/xim.c) carries out an answer of the engine that *)
(* deletes letters of the client: it sends the client's window BackSpace   *)
(* keys and then F12, and commits the new letters when F12 comes back to   *)
(* it as a key.  Real keys come through the same queue and are sent again, *)
(* to its end, as long as a commit is under way.  The engine is abstract:  *)
(* any answer it could give.                                               *)
(***************************************************************************)
EXTENDS ClientText

CONSTANTS Paces,        \* how the user may type, see MayType
          Methods,      \* GlobalOpt.commitMethod: "Send", "Forward"
          MaxKeys,      \* bound: keys typed
          MaxAhead,     \* bound: keys typed ahead of the server
          MaxBacks,     \* bound: letters the engine deletes for one key
          MaxLetters,   \* bound: letters the engine inserts for one key
          MaxPostpone   \* the 50 of ProcessKey

ASSUME BoundsAssumption ==
  /\ Paces \subseteq {"waits", "oneAhead", "ahead", "any"}
  /\ Methods \subseteq {"Send", "Forward"}
  /\ MaxKeys \in Nat /\ MaxAhead \in Nat /\ MaxPostpone \in Nat
  /\ MaxBacks \in Nat \ {0} /\ MaxLetters \in Nat \ {0}

VARIABLES
  queue,            \* key events of the client's window, as it passes them to the server
  sent,             \* what the server gave to XSendEvent and X has not delivered
  PendingCommit, PostponeKeyEv, PostponeCount, DataCommit,
  visible,          \* UkGUIVisible, of a server that watches it (UkWatchGUI)
  enabled, commitMethod,                    \* of GlobalOpt
  method,           \* the property AIMMethod: is it not VKM_OFF?
  notified,         \* has the server seen the last change of it?
  UnikeyBuf,        \* the letters of the engine's last answer
  own,              \* how many letters of the text the engine knows
  screen,           \* the text of the client; a letter is the key that wrote it
  word,             \* history: the text as the engine's answers would have it
  typed, waiting,   \* history: how many keys were typed, those not taken yet
  pace              \* how this user types

flags == <<PendingCommit, PostponeKeyEv, PostponeCount, DataCommit>>
engine == <<UnikeyBuf, own, word>>
switches == <<visible, enabled, method, notified>>
settings == <<commitMethod, pace>>
vars == <<queue, sent, flags, switches, engine, screen, typed, waiting, settings>>

FakeBackSpace == [type |-> "BackSpace", n |-> 0]
CommitKey == [type |-> "F12", n |-> 0]
KeyTypes == {"char", "long", "reset", "BackSpace", "F12", "restore"}
Events == [type : KeyTypes, n : 0 .. MaxKeys]

Init ==
  /\ queue = <<>> /\ sent = <<>>
  /\ PendingCommit = FALSE /\ PostponeKeyEv = FALSE
  /\ PostponeCount = 0 /\ DataCommit = FALSE
  /\ visible = TRUE /\ enabled = TRUE /\ method = TRUE /\ notified = TRUE
  /\ commitMethod \in Methods
  /\ UnikeyBuf = <<>> /\ own = 0 /\ word = <<>> /\ screen = <<>>
  /\ typed = 0 /\ waiting = <<>> /\ pace \in Paces
-----------------------------------------------------------------------------
(* The calls ProcessKey makes. *)

\* Mutant of resetState: a commit that is under way goes on.
ForgetWordOnly == own' = 0 /\ UNCHANGED flags

resetState ==
  /\ own' = 0
  /\ PendingCommit' = FALSE /\ PostponeKeyEv' = FALSE
  /\ PostponeCount' = 0 /\ DataCommit' = FALSE

\* IMForwardEvent: the client acts on the key itself.
Forwarded(t, ev) ==
  IF ev.type = "BackSpace" THEN Rewritten(t, 1, <<>>)
  ELSE IF ev.type \in {"F12", "restore"} THEN t
  ELSE Append(t, ev.n)

\* The engine answers: b BackSpaces and then the letters s.
Answer(b, s) ==
  /\ UnikeyBuf' = s
  /\ own' = own - b + Len(s)
  /\ word' = Rewritten(word, b, s)

\* Mutant of CarryOut: letters before BackSpaces.
CarryOutSwapped(b, s) ==
  \/ /\ commitMethod = "Forward"
     /\ screen' = Rewritten(screen \o s, b, <<>>)
     /\ UNCHANGED <<sent, flags>>
  \/ /\ commitMethod = "Send"
     /\ sent' = sent \o <<CommitKey>> \o [i \in 1 .. b |-> FakeBackSpace]
     /\ PendingCommit' = TRUE /\ PostponeKeyEv' = TRUE
     /\ PostponeCount' = 0 /\ DataCommit' = (s # <<>>)
     /\ UNCHANGED screen

\* sendBackspaces and sendCommit, or forwardBackspaces and commitBuf.
CarryOut(b, s) ==
  \/ /\ commitMethod = "Forward"
     /\ screen' = Rewritten(screen, b, s)
     /\ UNCHANGED <<sent, flags>>
  \/ /\ commitMethod = "Send"
     /\ sent' = sent \o [i \in 1 .. b |-> FakeBackSpace] \o <<CommitKey>>
     /\ PendingCommit' = TRUE /\ PostponeKeyEv' = TRUE
     /\ PostponeCount' = 0 /\ DataCommit' = (s # <<>>)
     /\ UNCHANGED screen

\* commitBuf, of an answer that deletes nothing.
Insert(s) == screen' = Rewritten(screen, 0, s) /\ UNCHANGED <<sent, flags>>

Taken(ev) == waiting' = RemoveFirst(waiting, ev.n)
-----------------------------------------------------------------------------
(* ProcessKey, one operator for each kind of key. *)

\* UnikeyBackspacePress takes back the last letter the engine knows, and writes
\* those after the first one that changes again when the tone moves; a BackSpace that comes while a commit is
\* pending is taken for one of the server's own.
BackSpaceKey(ev) ==
  /\ Taken(ev)
  /\ \/ /\ ~PendingCommit /\ own > 0
        /\ \E b \in 1 .. MaxBacks :
             /\ b <= own /\ b - 1 <= MaxLetters
             /\ Answer(b, Letters(ev.n, b - 1)) /\ CarryOut(b, Letters(ev.n, b - 1))
     \/ /\ ~PendingCommit /\ own = 0
        /\ UnikeyBuf' = <<>>
        /\ screen' = Forwarded(screen, ev) /\ word' = Forwarded(word, ev)
        /\ UNCHANGED <<own, sent, flags>>
     \/ /\ PendingCommit
        /\ screen' = Forwarded(screen, ev)
        /\ UNCHANGED <<engine, sent, flags>>

\* Mutant of CommitKeyBack: F12 is sent again only after a commit of letters.
CommitKeyBackOnce(ev) ==
  /\ Taken(ev)
  /\ \/ /\ PendingCommit
        /\ PendingCommit' = FALSE /\ DataCommit' = FALSE
        /\ screen' = IF DataCommit THEN screen \o UnikeyBuf ELSE screen
        /\ sent' = IF DataCommit THEN Append(sent, CommitKey) ELSE sent
        /\ UNCHANGED <<PostponeKeyEv, PostponeCount>>
     \/ /\ ~PendingCommit
        /\ PostponeKeyEv' = FALSE
        /\ UNCHANGED <<PendingCommit, PostponeCount, DataCommit, screen, sent>>
  /\ UNCHANGED engine

\* COMMIT_KEYSYM: the first F12 commits and sends another, the second lets
\* keys through again.
CommitKeyBack(ev) ==
  /\ Taken(ev)
  /\ \/ /\ PendingCommit
        /\ PendingCommit' = FALSE /\ DataCommit' = FALSE
        /\ screen' = IF DataCommit THEN screen \o UnikeyBuf ELSE screen
        /\ sent' = Append(sent, CommitKey)
        /\ UNCHANGED <<PostponeKeyEv, PostponeCount>>
     \/ /\ ~PendingCommit
        /\ PostponeKeyEv' = FALSE
        /\ UNCHANGED <<PendingCommit, PostponeCount, DataCommit, screen, sent>>
  /\ UNCHANGED engine

\* Mutant of MustPostpone: only until the letters are committed.
MustPostponeLess == PendingCommit /\ PostponeCount < 1

MustPostpone == PostponeKeyEv /\ PostponeCount < MaxPostpone

\* Mutant of Postpone: the key is not sent again.
Drop(ev) ==
  /\ MustPostpone
  /\ PostponeCount' = PostponeCount + 1
  /\ UNCHANGED <<sent, PendingCommit, PostponeKeyEv, DataCommit, engine, screen, waiting>>

Postpone(ev) ==
  /\ MustPostpone
  /\ PostponeCount' = PostponeCount + 1
  /\ sent' = Append(sent, ev)
  /\ UNCHANGED <<PendingCommit, PostponeKeyEv, DataCommit, engine, screen, waiting>>

\* UnikeyFilter (UnikeyPutChar for the keypad): the engine lets the key
\* through or rewrites what it knows of the text.
CharKey(ev) ==
  \/ Postpone(ev)
  \/ /\ ~MustPostpone
     /\ Taken(ev)
     /\ \/ /\ UnikeyBuf' = <<>> /\ own' = own + 1
           /\ word' = Forwarded(word, ev) /\ screen' = Forwarded(screen, ev)
           /\ UNCHANGED <<sent, flags>>
        \/ \E b \in 0 .. MaxBacks, c \in 0 .. MaxLetters :
             /\ b <= own /\ b + c > 0
             /\ Answer(b, Letters(ev.n, c))
             /\ IF b > 0 THEN CarryOut(b, Letters(ev.n, c)) ELSE Insert(Letters(ev.n, c))

\* Mutant of ResetKey: the length is tested before the postponing.
ResetKeyAtOnce(ev) ==
  /\ Taken(ev)
  /\ resetState
  /\ word' = Forwarded(word, ev) /\ screen' = Forwarded(screen, ev)
  /\ UNCHANGED <<UnikeyBuf, sent>>

\* A key that gives several characters, after the test above, and a key that
\* gives none or has Ctrl or Alt, or is one of Forward_Keys, without it.
ResetKey(ev) ==
  \/ ev.type = "long" /\ Postpone(ev)
  \/ /\ ev.type = "reset" \/ ~MustPostpone
     /\ Taken(ev)
     /\ resetState
     /\ word' = Forwarded(word, ev) /\ screen' = Forwarded(screen, ev)
     /\ UNCHANGED <<UnikeyBuf, sent>>

\* restoreKeys, for the shortcut, at any time: the last letters the engine knows
\* become the keys of the word, or the engine refuses.
restoreKeys(ev) ==
  /\ Taken(ev)
  /\ \/ \E b \in 1 .. MaxBacks, c \in 1 .. MaxLetters :
          b <= own /\ Answer(b, Letters(ev.n, c)) /\ CarryOut(b, Letters(ev.n, c))
     \/ UnikeyBuf' = <<>> /\ UNCHANGED <<own, word, screen, sent, flags>>

\* MyForwardEventHandler when unikey is hidden or off.
PassOn(ev) ==
  /\ Taken(ev)
  /\ word' = Forwarded(word, ev) /\ screen' = Forwarded(screen, ev)
  /\ UNCHANGED <<own, UnikeyBuf, sent, flags>>

ProcessKey(ev) ==
  \/ ev.type = "BackSpace" /\ BackSpaceKey(ev)
  \/ ev.type = "F12" /\ CommitKeyBack(ev)
  \/ ev.type = "char" /\ CharKey(ev)
  \/ ev.type \in {"long", "reset"} /\ ResetKey(ev)

MyForwardEventHandler ==
  /\ queue # <<>>
  /\ queue' = Tail(queue)
  /\ LET ev == Head(queue) IN
     \/ ~visible /\ PassOn(ev)
     \/ visible /\ ev.type = "restore" /\ restoreKeys(ev)
     \/ visible /\ ev.type # "restore" /\ ~enabled /\ PassOn(ev)
     \/ visible /\ enabled /\ ProcessKey(ev)
  /\ UNCHANGED <<switches, typed, settings>>
-----------------------------------------------------------------------------
(* The user, and X. *)

Settled == queue = <<>> /\ sent = <<>> /\ notified

\* What this user types now: one who waits types anything, but only when all
\* events have been dealt with; the others do not wait, and type text.
MayType(type) ==
  \/ pace = "waits" /\ Settled
  \/ pace = "oneAhead" /\ type \in {"char", "long"} /\ waiting = <<>>
  \/ pace = "ahead" /\ type \in {"char", "long"} /\ Len(waiting) < MaxAhead
  \/ pace = "any" /\ Len(waiting) < MaxAhead

Press(type) ==
  /\ typed < MaxKeys /\ MayType(type)
  /\ typed' = typed + 1
  /\ queue' = Append(queue, [type |-> type, n |-> typed + 1])
  /\ waiting' = Append(waiting, typed + 1)
  /\ UNCHANGED <<sent, flags, switches, engine, screen, settings>>

\* X carries out an XSendEvent.
DeliverSent ==
  /\ sent # <<>>
  /\ queue' = Append(queue, Head(sent)) /\ sent' = Tail(sent)
  /\ UNCHANGED <<flags, switches, engine, screen, typed, waiting, settings>>

MayDisturb == (pace = "waits" /\ Settled) \/ pace = "any"
OutsideWorld == <<queue, sent, UnikeyBuf, word, screen, typed, waiting, settings>>

\* XIM_UNSET_IC_FOCUS
UnsetFocus ==
  /\ MayDisturb
  /\ resetState
  /\ UNCHANGED <<OutsideWorld, switches>>

\* Somebody sets the property AIMMethod: a shortcut, Ctrl+Shift, the GUI.
SetMethod(on) ==
  /\ MayDisturb
  /\ method' = on /\ notified' = FALSE
  /\ UNCHANGED <<OutsideWorld, flags, own, visible, enabled>>

\* handlePropertyChanged for AIMMethod, with fixSyncToUnikeyMethod.
MethodChanged ==
  /\ ~notified
  /\ enabled' = method /\ notified' = TRUE
  /\ resetState
  /\ UNCHANGED <<OutsideWorld, visible, method>>

\* reloadConfig: the file says whether unikey is on, and so will the property.
Reload(on) == enabled' = on /\ method' = on /\ notified' = FALSE

\* SIGUSR1, or the shortcut of it, between two events.
reloadConfig(on) ==
  /\ MayDisturb
  /\ Reload(on)
  /\ UNCHANGED <<OutsideWorld, flags, own, visible>>

\* handlePropertyChanged for AGUIVisible.
VisibleChanged(on) ==
  /\ MayDisturb
  /\ visible' = ~visible
  /\ resetState
  /\ IF visible' THEN Reload(on) ELSE UNCHANGED <<enabled, method, notified>>
  /\ UNCHANGED OutsideWorld

Next ==
  \/ MyForwardEventHandler
  \/ DeliverSent
  \/ \E type \in KeyTypes : Press(type)
  \/ UnsetFocus
  \/ MethodChanged
  \/ \E on \in BOOLEAN : SetMethod(on) \/ reloadConfig(on) \/ VisibleChanged(on)

\* The X server delivers what it was given, and the server reads its events and
\* the changes of properties; nobody has to type.
Fairness == WF_vars(MyForwardEventHandler) /\ WF_vars(DeliverSent) /\ WF_vars(MethodChanged)

Spec == Init /\ [][Next]_vars
FairSpec == Spec /\ Fairness
-----------------------------------------------------------------------------
\* The text as it will be when the commit under way has been carried out.
Owed ==
  IF PendingCommit
  THEN Rewritten(screen, HowMany(queue \o sent, {FakeBackSpace}),
                 IF DataCommit THEN UnikeyBuf ELSE <<>>)
  ELSE screen

\* For a user who waits before BackSpace, Return and shortcuts the fake
\* BackSpaces and the commit that are under way lead to the text the engine
\* believes in, however far ahead text is typed.
OwesWord == pace # "any" => Owed = word

\* With CommitMethod = Forward the client and the engine agree after every event,
\* for every user.
ForwardExact == commitMethod = "Forward" => screen = word

\* Hidden, or switched off and told so, the server has no word and no commit
\* under way: keys and shortcuts that pass by cannot start one.
OffIsIdle == ~visible \/ (~enabled /\ notified) => own = 0 /\ ~PendingCommit /\ ~PostponeKeyEv

\* When every event has been dealt with no key is kept back and no commit waits
\* for an event that will not come, whatever the user did.
NothingStuck == Settled => ~PendingCommit /\ ~PostponeKeyEv

AtOnce == INSTANCE KeysAtOnce WITH Keys <- 1 .. MaxKeys, inOrder <- pace # "ahead", text <- Owed

\* Each key is taken once and its effect on the text is never taken apart by
\* other keys; keys are taken in their order unless two of them are typed
\* while a commit is under way.
TakesKeysAtOnce == AtOnce!Init /\ [][pace # "any" => AtOnce!Next]_<<waiting, Owed>>

\* A BackSpace that comes while a commit is pending is the server's own (the
\* message "Fake backspace" of ProcessKey).  Not so: the user's is taken for one.
FakeBackspace ==
  PendingCommit /\ visible /\ enabled /\ queue # <<>> /\ Head(queue).type = "BackSpace"
  => Head(queue) = FakeBackSpace

\* Every key is taken some time, whatever is typed and whenever focus changes.
EveryKeyTaken ==
  \A n \in 1 .. MaxKeys : n \in ToSet(waiting) ~> n \notin ToSet(waiting)
=============================================================================
