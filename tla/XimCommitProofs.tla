-------------------------- MODULE XimCommitProofs ---------------------------
(***************************************************************************)
(* What the XIM server keeps to for every user and any number of keys: it  *)
(* is never left waiting for an F12 that is not on its way, it is idle     *)
(* when switched off, and with CommitMethod = Forward the client has the   *)
(* text of the engine after every event.                                   *)
(*                                                                         *)
(* With CommitMethod = Send the text is what the engine believes for a     *)
(* user who waits before BackSpace, Return and shortcuts and types text as *)
(* far ahead as the server can postpone.  That invariant says in which     *)
(* order the events come: those in the queue and those X has yet to        *)
(* deliver hold the keys that wait, and no others, and in the middle of    *)
(* them the F12 of the commit under way, with its BackSpaces before it.    *)
(***************************************************************************)
EXTENDS XimCommit, QueueLemmas

\* The queue q has an F12 of the server's.
HasCommitKey(q) == \E i \in 1 .. Len(q) : q[i] = CommitKey

QueuesOK == queue \in Seq(Events) /\ sent \in Seq(Events) /\ typed \in 0 .. MaxKeys

\* The strengthening of NothingStuck: keys are postponed while a commit is
\* pending, and while they are an F12 is on its way, or a change of method that
\* resets the server.
WaitsForCommitKey ==
  /\ PendingCommit => PostponeKeyEv
  /\ PostponeKeyEv => HasCommitKey(queue) \/ HasCommitKey(sent) \/ ~notified

LEMMA OwnEvents == FakeBackSpace \in Events /\ CommitKey \in Events
  BY BoundsAssumption DEF FakeBackSpace, CommitKey, Events, KeyTypes

\* A queue keeps its F12 when an event is added to it.
LEMMA AppendKeeps ==
  ASSUME NEW q \in Seq(Events), NEW e \in Events
  PROVE  /\ Append(q, e) \in Seq(Events)
         /\ HasCommitKey(q) \/ e = CommitKey => HasCommitKey(Append(q, e))
<1>. DEFINE r == Append(q, e)
<1>1. /\ r \in Seq(Events) /\ Len(r) = Len(q) + 1 /\ Len(q) \in Nat
      /\ r[Len(q) + 1] = e /\ \A i \in 1 .. Len(q) : r[i] = q[i]
  BY AppendProperties
<1>. HIDE DEF r
<1>2. CASE HasCommitKey(q)
  BY <1>1, <1>2 DEF HasCommitKey
<1>3. CASE e = CommitKey
  <2>. Len(q) + 1 \in 1 .. Len(r)
    BY <1>1
  <2>. QED  BY <1>1, <1>3 DEF HasCommitKey
<1>. QED  BY <1>1, <1>2, <1>3 DEF r

\* A queue keeps its F12 when another event is taken from it.
LEMMA TailKeeps ==
  ASSUME NEW q \in Seq(Events), q # <<>>
  PROVE  /\ Tail(q) \in Seq(Events) /\ Head(q) \in Events
         /\ HasCommitKey(q) /\ Head(q) # CommitKey => HasCommitKey(Tail(q))
<1>1. /\ Tail(q) \in Seq(Events) /\ Head(q) \in Events
      /\ Len(Tail(q)) = Len(q) - 1 /\ Len(q) \in Nat /\ Head(q) = q[1]
      /\ \A i \in 1 .. Len(Tail(q)) : Tail(q)[i] = q[i + 1]
  BY HeadTailProperties
<1>2. ASSUME NEW i \in 1 .. Len(q), q[i] = CommitKey, Head(q) # CommitKey
      PROVE  HasCommitKey(Tail(q))
  <2>1. i - 1 \in 1 .. Len(Tail(q))
    BY <1>1, <1>2
  <2>2. Tail(q)[i - 1] = q[(i - 1) + 1]
    BY <1>1, <2>1
  <2>. QED  BY <1>2, <2>1, <2>2 DEF HasCommitKey
<1>. QED  BY <1>1, <1>2 DEF HasCommitKey

\* What sendBackspaces and sendCommit give to X has an F12.
LEMMA ProtocolHasCommitKey ==
  ASSUME NEW q \in Seq(Events), NEW b \in Nat
  PROVE  LET r == q \o [i \in 1 .. b |-> FakeBackSpace] \o <<CommitKey>>
         IN  r \in Seq(Events) /\ HasCommitKey(r)
<1>. DEFINE f == [i \in 1 .. b |-> FakeBackSpace]
            r == q \o f \o <<CommitKey>>
<1>1. f \in Seq(Events) /\ <<CommitKey>> \in Seq(Events) /\ Len(<<CommitKey>>) = 1
  BY OwnEvents
<1>2. q \o f \in Seq(Events)
  BY <1>1, ConcatProperties
<1>. DEFINE p == q \o f
<1>3. p \in Seq(Events) /\ Len(p) \in Nat
  BY <1>2
<1>. HIDE DEF f, p
<1>4. /\ p \o <<CommitKey>> \in Seq(Events)
      /\ Len(p \o <<CommitKey>>) = Len(p) + 1
      /\ (p \o <<CommitKey>>)[Len(p) + 1] = CommitKey
  <2>1. /\ p \o <<CommitKey>> \in Seq(Events)
        /\ Len(p \o <<CommitKey>>) = Len(p) + 1
        /\ \A i \in 1 .. Len(p) + 1 : (p \o <<CommitKey>>)[i] =
              IF i <= Len(p) THEN p[i] ELSE <<CommitKey>>[i - Len(p)]
    BY <1>1, <1>3, ConcatProperties
  <2>2. Len(p) + 1 \in 1 .. Len(p) + 1 /\ ~(Len(p) + 1 <= Len(p)) /\ (Len(p) + 1) - Len(p) = 1
    BY <1>3
  <2>. QED  BY <2>1, <2>2
<1>5. HasCommitKey(p \o <<CommitKey>>)
  BY <1>3, <1>4 DEF HasCommitKey
<1>. QED  BY <1>4, <1>5 DEF p, f
-----------------------------------------------------------------------------
\* Hiding and switching off reset the server, and an engine that has no word
\* gives a shortcut nothing to do.
THEOREM AlwaysOffIsIdle == Spec => []OffIsIdle
<1>. DEFINE Off == ~visible \/ (~enabled /\ notified)
            Idle == own = 0 /\ ~PendingCommit /\ ~PostponeKeyEv
<1>1. Init => OffIsIdle
  BY DEF Init, OffIsIdle
<1>2. OffIsIdle /\ [Next]_vars => OffIsIdle'
  <2>. SUFFICES ASSUME OffIsIdle, [Next]_vars, Off'
                PROVE  Idle'
    BY DEF OffIsIdle
  <2>1. CASE MyForwardEventHandler
    <3>. DEFINE ev == Head(queue)
    <3>1. Off /\ Idle /\ (visible => ~enabled)
      BY <2>1 DEF MyForwardEventHandler, switches, OffIsIdle
    <3>2. CASE restoreKeys(ev)
      <4>1. ASSUME NEW b \in 1 .. MaxBacks, b <= own  PROVE FALSE
        BY <3>1, <4>1, BoundsAssumption
      <4>. QED  BY <3>1, <3>2, <4>1 DEF restoreKeys, flags
    <3>3. CASE PassOn(ev)
      BY <3>1, <3>3 DEF PassOn, flags
    <3>. QED  BY <2>1, <3>1, <3>2, <3>3 DEF MyForwardEventHandler
  <2>2. CASE DeliverSent \/ (\E type \in KeyTypes : Press(type)) \/ UNCHANGED vars
    <3>1. UNCHANGED <<switches, own, PendingCommit, PostponeKeyEv>>
      BY <2>2 DEF DeliverSent, Press, engine, flags, vars
    <3>. QED  BY <3>1 DEF OffIsIdle, switches
  <2>3. CASE UnsetFocus \/ MethodChanged \/ \E on \in BOOLEAN : VisibleChanged(on)
    BY <2>3 DEF UnsetFocus, MethodChanged, VisibleChanged, resetState
  <2>4. CASE \E on \in BOOLEAN : SetMethod(on) \/ reloadConfig(on)
    <3>1. UNCHANGED <<visible, own, PendingCommit, PostponeKeyEv>> /\ notified' = FALSE
      BY <2>4 DEF SetMethod, reloadConfig, Reload, flags
    <3>. QED  BY <3>1 DEF OffIsIdle
  <2>. QED  BY <2>1, <2>2, <2>3, <2>4 DEF Next
<1>. QED  BY <1>1, <1>2, PTL DEF Spec
-----------------------------------------------------------------------------
\* What a step has to establish for the next state.
WaitsNext ==
  /\ sent' \in Seq(Events)
  /\ PendingCommit' => PostponeKeyEv'
  /\ PostponeKeyEv' => HasCommitKey(queue') \/ HasCommitKey(sent') \/ ~notified'

\* CarryOut leaves an F12 on its way, if the event handled was not one.
LEMMA CarryOutWaits ==
  ASSUME QueuesOK, WaitsForCommitKey, HasCommitKey(queue) => HasCommitKey(queue'),
         NEW b \in Nat, NEW s, CarryOut(b, s), UNCHANGED switches
  PROVE  WaitsNext
<1>1. CASE UNCHANGED <<sent, flags>>
  BY <1>1 DEF QueuesOK, WaitsForCommitKey, WaitsNext, flags, switches
<1>2. CASE /\ sent' = sent \o [i \in 1 .. b |-> FakeBackSpace] \o <<CommitKey>>
           /\ PendingCommit' = TRUE /\ PostponeKeyEv' = TRUE
  <2>1. sent' \in Seq(Events) /\ HasCommitKey(sent')
    BY <1>2, ProtocolHasCommitKey DEF QueuesOK
  <2>. QED  BY <1>2, <2>1 DEF WaitsNext
<1>. QED  BY <1>1, <1>2 DEF CarryOut

\* Whatever event the server handles, it goes on waiting only for an F12 that is
\* on its way.
LEMMA HandlerWaits ==
  ASSUME QueuesOK, WaitsForCommitKey, OffIsIdle, MyForwardEventHandler
  PROVE  QueuesOK' /\ WaitsForCommitKey'
<1>. DEFINE ev == Head(queue)
<1>1. /\ queue # <<>> /\ queue' = Tail(queue) /\ typed' = typed /\ UNCHANGED switches
      /\ queue' \in Seq(Events) /\ ev \in Events
      /\ HasCommitKey(queue) /\ ev # CommitKey => HasCommitKey(queue')
  BY TailKeeps DEF MyForwardEventHandler, QueuesOK
<1>2. SUFFICES WaitsNext
  BY <1>1 DEF WaitsNext, QueuesOK, WaitsForCommitKey
<1>3. ASSUME ev.type # "F12"  PROVE HasCommitKey(queue) => HasCommitKey(queue')
  BY <1>1, <1>3 DEF CommitKey
<1>4. ASSUME UNCHANGED <<sent, flags>>, ev.type # "F12" \/ ~PostponeKeyEv \/ ~notified
      PROVE  WaitsNext
  BY <1>1, <1>3, <1>4 DEF switches, QueuesOK, WaitsForCommitKey, WaitsNext, flags
<1>5. ASSUME ev.type # "F12", Postpone(ev)  PROVE WaitsNext
  <2>1. Append(sent, ev) \in Seq(Events)
        /\ (HasCommitKey(sent) => HasCommitKey(Append(sent, ev)))
    BY <1>1, AppendKeeps DEF QueuesOK
  <2>. QED  BY <1>1, <1>3, <1>5, <2>1 DEF switches, Postpone, WaitsForCommitKey, WaitsNext
<1>6. ASSUME resetState, UNCHANGED sent  PROVE WaitsNext
  BY <1>6 DEF resetState, QueuesOK, WaitsNext
<1>7. CASE ev.type = "restore" /\ restoreKeys(ev)
  <2>1. CASE UNCHANGED <<sent, flags>>
    BY <1>4, <1>7, <2>1
  <2>2. CASE \E b \in 1 .. MaxBacks, c \in 1 .. MaxLetters : CarryOut(b, Letters(ev.n, c))
    <3>1. PICK b \in 1 .. MaxBacks, c \in 1 .. MaxLetters : CarryOut(b, Letters(ev.n, c))
      BY <2>2
    <3>2. b \in Nat
      BY BoundsAssumption
    <3>. QED  BY <1>1, <1>3, <1>7, <3>1, <3>2, CarryOutWaits
  <2>. QED  BY <1>7, <2>1, <2>2 DEF restoreKeys
<1>8. CASE (~visible \/ ~enabled) /\ PassOn(ev)
  BY <1>4, <1>8 DEF PassOn, OffIsIdle
<1>9. CASE ev.type = "BackSpace" /\ BackSpaceKey(ev)
  <2>1. CASE UNCHANGED <<sent, flags>>
    BY <1>4, <1>9, <2>1
  <2>2. CASE \E b \in 1 .. MaxBacks : CarryOut(b, Letters(ev.n, b - 1))
    <3>1. PICK b \in 1 .. MaxBacks : CarryOut(b, Letters(ev.n, b - 1))
      BY <2>2
    <3>2. b \in Nat
      BY BoundsAssumption
    <3>. QED  BY <1>1, <1>3, <1>9, <3>1, <3>2, CarryOutWaits
  <2>. QED  BY <1>9, <2>1, <2>2 DEF BackSpaceKey
<1>10. CASE ev.type = "F12" /\ CommitKeyBack(ev)
  <2>1. CASE PendingCommit
    <3>1. sent' = Append(sent, CommitKey) /\ PendingCommit' = FALSE
      BY <1>10, <2>1 DEF CommitKeyBack
    <3>2. sent' \in Seq(Events) /\ HasCommitKey(sent')
      BY <3>1, AppendKeeps, OwnEvents DEF QueuesOK
    <3>. QED  BY <3>1, <3>2 DEF WaitsNext
  <2>2. CASE ~PendingCommit
    BY <1>10, <2>2 DEF CommitKeyBack, QueuesOK, WaitsNext
  <2>. QED  BY <2>1, <2>2
<1>11. CASE ev.type = "char" /\ CharKey(ev)
  <2>1. CASE UNCHANGED <<sent, flags>>
    BY <1>4, <1>11, <2>1
  <2>2. CASE Postpone(ev)
    BY <1>5, <1>11, <2>2
  <2>3. CASE \E b \in 0 .. MaxBacks, c \in 0 .. MaxLetters : CarryOut(b, Letters(ev.n, c))
    <3>1. PICK b \in 0 .. MaxBacks, c \in 0 .. MaxLetters : CarryOut(b, Letters(ev.n, c))
      BY <2>3
    <3>2. b \in Nat
      BY BoundsAssumption
    <3>. QED  BY <1>1, <1>3, <1>11, <3>1, <3>2, CarryOutWaits
  <2>. QED  BY <1>11, <2>1, <2>2, <2>3 DEF CharKey, Insert
<1>12. CASE ev.type \in {"long", "reset"} /\ ResetKey(ev)
  BY <1>5, <1>6, <1>12 DEF ResetKey
<1>. QED  BY <1>7, <1>8, <1>9, <1>10, <1>11, <1>12 DEF MyForwardEventHandler, ProcessKey

\* X passes events on without losing any.
LEMMA DeliveryWaits ==
  ASSUME QueuesOK, WaitsForCommitKey, DeliverSent
  PROVE  QueuesOK' /\ WaitsForCommitKey'
<1>1. /\ queue' = Append(queue, Head(sent)) /\ sent' = Tail(sent) /\ typed' = typed
      /\ PendingCommit' = PendingCommit /\ PostponeKeyEv' = PostponeKeyEv
      /\ notified' = notified
  BY DEF DeliverSent, flags, switches
<1>2. /\ sent' \in Seq(Events) /\ Head(sent) \in Events
      /\ HasCommitKey(sent) /\ Head(sent) # CommitKey => HasCommitKey(sent')
  BY <1>1, TailKeeps DEF DeliverSent, QueuesOK
<1>3. /\ queue' \in Seq(Events)
      /\ HasCommitKey(queue) \/ Head(sent) = CommitKey => HasCommitKey(queue')
  BY <1>1, <1>2, AppendKeeps DEF QueuesOK
<1>. QED  BY <1>1, <1>2, <1>3 DEF QueuesOK, WaitsForCommitKey

\* A key of the user's joins the queue.
LEMMA PressWaits ==
  ASSUME QueuesOK, WaitsForCommitKey, NEW type \in KeyTypes, Press(type)
  PROVE  QueuesOK' /\ WaitsForCommitKey'
<1>. DEFINE ev == [type |-> type, n |-> typed + 1]
<1>1. /\ queue' = Append(queue, ev) /\ sent' = sent /\ typed' = typed + 1 /\ typed < MaxKeys
      /\ PendingCommit' = PendingCommit /\ PostponeKeyEv' = PostponeKeyEv
      /\ notified' = notified
  BY DEF Press, flags, switches
<1>2. ev \in Events /\ typed' \in 0 .. MaxKeys
  BY <1>1, BoundsAssumption DEF QueuesOK, Events
<1>3. queue' \in Seq(Events) /\ (HasCommitKey(queue) => HasCommitKey(queue'))
  BY <1>1, <1>2, AppendKeeps DEF QueuesOK
<1>. QED  BY <1>1, <1>2, <1>3 DEF QueuesOK, WaitsForCommitKey

\* When every event has been dealt with no key is kept back and no commit is
\* pending, for every user.
THEOREM AlwaysNothingStuck == Spec => []NothingStuck
<1>1. Init => QueuesOK /\ WaitsForCommitKey
  BY BoundsAssumption DEF Init, QueuesOK, WaitsForCommitKey
<1>2. QueuesOK /\ WaitsForCommitKey /\ OffIsIdle /\ [Next]_vars
      => QueuesOK' /\ WaitsForCommitKey'
  <2>. SUFFICES ASSUME QueuesOK, WaitsForCommitKey, OffIsIdle, [Next]_vars
                PROVE  QueuesOK' /\ WaitsForCommitKey'
    OBVIOUS
  <2>1. CASE MyForwardEventHandler
    BY <2>1, HandlerWaits
  <2>2. CASE DeliverSent
    BY <2>2, DeliveryWaits
  <2>3. CASE \E type \in KeyTypes : Press(type)
    BY <2>3, PressWaits
  <2>4. CASE UnsetFocus \/ MethodChanged \/ \E on \in BOOLEAN : VisibleChanged(on)
    BY <2>4 DEF UnsetFocus, MethodChanged, VisibleChanged, resetState, OutsideWorld,
                QueuesOK, WaitsForCommitKey
  <2>5. CASE \E on \in BOOLEAN : SetMethod(on) \/ reloadConfig(on)
    <3>1. UNCHANGED <<queue, sent, typed, PendingCommit, PostponeKeyEv>> /\ notified' = FALSE
      BY <2>5 DEF SetMethod, reloadConfig, Reload, OutsideWorld, flags
    <3>. QED  BY <3>1 DEF QueuesOK, WaitsForCommitKey
  <2>6. CASE UNCHANGED vars
    BY <2>6 DEF vars, flags, switches, QueuesOK, WaitsForCommitKey
  <2>. QED  BY <2>1, <2>2, <2>3, <2>4, <2>5, <2>6 DEF Next
<1>3. QueuesOK /\ WaitsForCommitKey => NothingStuck
  BY DEF QueuesOK, WaitsForCommitKey, NothingStuck, Settled, HasCommitKey
<1>. QED  BY <1>1, <1>2, <1>3, AlwaysOffIsIdle, PTL DEF Spec
-----------------------------------------------------------------------------
\* With CommitMethod = Forward no commit is ever pending.
ForwardInv == commitMethod = "Forward" => ~PendingCommit /\ screen = word

\* CommitMethod = Forward: the client has the engine's text after every event.
THEOREM AlwaysForwardExact == Spec => []ForwardExact
<1>1. Init => ForwardInv
  BY DEF Init, ForwardInv
<1>2. ForwardInv /\ [Next]_vars => ForwardInv'
  <2>. SUFFICES ASSUME ForwardInv, [Next]_vars, commitMethod' = "Forward"
                PROVE  ~PendingCommit' /\ screen' = word'
    BY DEF ForwardInv
  <2>1. CASE MyForwardEventHandler
    <3>. DEFINE ev == Head(queue)
    <3>1. commitMethod = "Forward" /\ ~PendingCommit /\ screen = word
      BY <2>1 DEF MyForwardEventHandler, settings, ForwardInv
    <3>2. ASSUME NEW b, NEW s, Answer(b, s), CarryOut(b, s)
          PROVE  ~PendingCommit' /\ screen' = word'
      BY <3>1, <3>2 DEF Answer, CarryOut, flags
    <3>3. ASSUME UNCHANGED flags, screen' = Forwarded(screen, ev), word' = Forwarded(word, ev)
          PROVE  ~PendingCommit' /\ screen' = word'
      BY <3>1, <3>3 DEF flags
    <3>4. CASE restoreKeys(ev)
      BY <3>1, <3>2, <3>4 DEF restoreKeys, flags
    <3>5. CASE PassOn(ev)
      BY <3>3, <3>5 DEF PassOn, flags
    <3>6. CASE BackSpaceKey(ev)
      BY <3>1, <3>2, <3>3, <3>6 DEF BackSpaceKey
    <3>7. CASE CommitKeyBack(ev)
      BY <3>1, <3>7 DEF CommitKeyBack, engine
    <3>8. ASSUME Postpone(ev)  PROVE ~PendingCommit' /\ screen' = word'
      BY <3>1, <3>8 DEF Postpone, engine
    <3>9. CASE CharKey(ev)
      <4>1. ASSUME NEW b \in 0 .. MaxBacks, NEW c \in 0 .. MaxLetters,
                   Answer(b, Letters(ev.n, c)), ~(b > 0), Insert(Letters(ev.n, c))
            PROVE  ~PendingCommit' /\ screen' = word'
        <5>1. b = 0
          BY <4>1, BoundsAssumption
        <5>. QED  BY <3>1, <4>1, <5>1 DEF Answer, Insert, flags
      <4>. QED  BY <3>2, <3>3, <3>8, <3>9, <4>1 DEF CharKey
    <3>10. CASE ResetKey(ev)
      BY <3>1, <3>8, <3>10 DEF ResetKey, resetState
    <3>. QED  BY <2>1, <3>4, <3>5, <3>6, <3>7, <3>9, <3>10 DEF MyForwardEventHandler, ProcessKey
  <2>2. CASE DeliverSent \/ \E type \in KeyTypes : Press(type)
    <3>1. /\ commitMethod' = commitMethod /\ PendingCommit' = PendingCommit
          /\ screen' = screen /\ word' = word
      BY <2>2 DEF DeliverSent, Press, engine, flags, settings
    <3>. QED  BY <3>1 DEF ForwardInv
  <2>3. CASE \/ UnsetFocus \/ MethodChanged
             \/ \E on \in BOOLEAN : SetMethod(on) \/ reloadConfig(on) \/ VisibleChanged(on)
    <3>1. /\ commitMethod' = commitMethod /\ screen' = screen /\ word' = word
          /\ PendingCommit' = PendingCommit \/ PendingCommit' = FALSE
      BY <2>3 DEF UnsetFocus, MethodChanged, SetMethod, reloadConfig, VisibleChanged,
                  resetState, OutsideWorld, flags, settings
    <3>. QED  BY <3>1 DEF ForwardInv
  <2>4. CASE UNCHANGED vars
    BY <2>4 DEF vars, engine, flags, settings, ForwardInv
  <2>. QED  BY <2>1, <2>2, <2>3, <2>4 DEF Next
<1>3. ForwardInv => ForwardExact
  BY DEF ForwardInv, ForwardExact
<1>. QED  BY <1>1, <1>2, <1>3, PTL DEF Spec

-----------------------------------------------------------------------------
(* The text of the client, with CommitMethod = Send. *)

\* The numbers of events; a letter is the number of its key.
Numbers == 0 .. MaxKeys

\* What the variables hold.
Types ==
  /\ queue \in Seq(Events) /\ sent \in Seq(Events) /\ waiting \in Seq(1 .. MaxKeys)
  /\ typed \in Numbers /\ PostponeCount \in Nat
  /\ screen \in Seq(Numbers) /\ word \in Seq(Numbers) /\ UnikeyBuf \in Seq(Numbers)

\* The letters that are still to come.
Answered == IF DataCommit THEN UnikeyBuf ELSE <<>>

\* What the server sends for an answer that deletes b letters.
Fakes(b) == [i \in 1 .. b |-> FakeBackSpace]
Begun(b) == sent \o Fakes(b) \o <<CommitKey>>

\* The events the server sends are that many.
LEMMA FakesCount ==
  ASSUME NEW b \in Nat
  PROVE  /\ Fakes(b) \in Seq({FakeBackSpace}) /\ Fakes(b) \in Seq(Events) /\ Len(Fakes(b)) = b
         /\ \A S : HowMany(Fakes(b), S) = IF FakeBackSpace \in S THEN b ELSE 0
<1>1. Fakes(b) \in Seq({FakeBackSpace}) /\ Len(Fakes(b)) = b
  BY DEF Fakes
<1>2. \A i \in 1 .. Len(Fakes(b)) : Fakes(b)[i] = FakeBackSpace
  BY <1>1, ElementOfSeq
<1>3. ASSUME NEW S, FakeBackSpace \in S  PROVE HowMany(Fakes(b), S) = b
  <2>. \A i \in 1 .. Len(Fakes(b)) : Fakes(b)[i] \in S
    BY <1>2, <1>3
  <2>. QED  BY <1>1, CountAll
<1>4. ASSUME NEW S, FakeBackSpace \notin S  PROVE HowMany(Fakes(b), S) = 0
  <2>. \A i \in 1 .. Len(Fakes(b)) : Fakes(b)[i] \notin S
    BY <1>2, <1>4
  <2>. QED  BY <1>1, CountSome
<1>5. Fakes(b) \in Seq(Events)
  <2>1. {FakeBackSpace} \subseteq Events
    BY OwnEvents
  <2>. HIDE DEF Fakes
  <2>. QED  BY <1>1, <2>1, SeqMonotonic
<1>. QED  BY <1>1, <1>3, <1>4, <1>5

\* What is counted of the events it sends to begin a commit.
LEMMA BegunCount ==
  ASSUME sent \in Seq(Events), NEW b \in Nat, NEW S
  PROVE  /\ Begun(b) \in Seq(Events)
         /\ HowMany(Begun(b), S) = HowMany(sent, S) + (IF FakeBackSpace \in S THEN b ELSE 0)
                                   + IF CommitKey \in S THEN 1 ELSE 0
<1>. DEFINE f == Fakes(b)
            p == <<CommitKey>>
<1>1. f \in Seq(Events) /\ HowMany(f, S) = IF FakeBackSpace \in S THEN b ELSE 0
  BY FakesCount
<1>2. p \in Seq(Events) /\ HowMany(p, S) = IF CommitKey \in S THEN 1 ELSE 0
  BY OwnEvents, CountOne
<1>. HIDE DEF f, p
<1>3. sent \o f \in Seq(Events) /\ HowMany(sent \o f, S) = HowMany(sent, S) + HowMany(f, S)
  BY <1>1, CountConcat, ConcatProperties
<1>4. /\ (sent \o f) \o p \in Seq(Events)
      /\ HowMany((sent \o f) \o p, S) = HowMany(sent \o f, S) + HowMany(p, S)
  BY <1>2, <1>3, CountConcat, ConcatProperties
<1>5. Begun(b) = (sent \o f) \o p
  BY DEF Begun, f, p
<1>. QED  BY <1>1, <1>2, <1>3, <1>4, <1>5

\* A key that is passed on rewrites the end of any text in the same way.
LEMMA ForwardedIs ==
  ASSUME NEW ev \in Events
  PROVE  \E b \in 0 .. MaxBacks, c \in 0 .. MaxLetters : \A u \in Seq(Numbers) :
           Forwarded(u, ev) = Rewritten(u, b, Letters(ev.n, c))
<1>1. ev.n \in Numbers
  BY DEF Events, Numbers
<1>2. Letters(ev.n, 0) = <<>>
  BY <1>1, LettersType
<1>3. 0 \in 0 .. MaxBacks /\ 1 \in 0 .. MaxBacks /\ 0 \in 0 .. MaxLetters /\ 1 \in 0 .. MaxLetters
  BY BoundsAssumption
<1>4. CASE ev.type = "BackSpace"
  <2>1. \A u \in Seq(Numbers) : Forwarded(u, ev) = Rewritten(u, 1, Letters(ev.n, 0))
    BY <1>2, <1>4 DEF Forwarded
  <2>. QED  BY <1>3, <2>1
<1>5. CASE ev.type \notin {"BackSpace", "F12", "restore"}
  <2>1. ASSUME NEW u \in Seq(Numbers)
        PROVE  Forwarded(u, ev) = Rewritten(u, 0, Letters(ev.n, 1))
    <3>1. Append(u, ev.n) = Rewritten(u, 0, Letters(ev.n, 1))
      BY <1>1, LettersType
    <3>. QED  BY <1>5, <3>1 DEF Forwarded
  <2>. QED  BY <1>3, <2>1
<1>6. CASE ev.type \in {"F12", "restore"}
  <2>1. ASSUME NEW u \in Seq(Numbers)
        PROVE  Forwarded(u, ev) = Rewritten(u, 0, Letters(ev.n, 0))
    <3>1. Rewritten(u, 0, <<>>) = u
      BY 0 \in Nat, RewrittenType
    <3>. QED  BY <1>2, <1>6, <3>1 DEF Forwarded
  <2>. QED  BY <1>3, <2>1
<1>. QED  BY <1>4, <1>5, <1>6

\* A key that is taken.
LEMMA TakenType ==
  ASSUME waiting \in Seq(1 .. MaxKeys), NEW ev, Taken(ev)
  PROVE  waiting' \in Seq(1 .. MaxKeys)
  BY RemoveFirstIsRemoveAt, RemoveAtProperties DEF Taken

\* Every answer rewrites the end of a text.
LEMMA AnswerType ==
  ASSUME NEW ev \in Events, NEW b \in Nat, NEW c \in Nat, NEW t \in Seq(Numbers)
  PROVE  Letters(ev.n, c) \in Seq(Numbers) /\ Rewritten(t, b, Letters(ev.n, c)) \in Seq(Numbers)
<1>1. ev.n \in Numbers
  BY DEF Events, Numbers
<1>2. Letters(ev.n, c) \in Seq(Numbers)
  BY <1>1, LettersType
<1>. QED  BY <1>2, RewrittenType
-----------------------------------------------------------------------------
(* What the server does with an event, as far as the queues and the text go. *)

\* The text is rewritten at once, and no commit is under way.
Acts(ev) ==
  /\ ~PendingCommit' /\ ~PostponeKeyEv' /\ PostponeCount' \in Nat
  /\ Taken(ev) /\ sent' = sent
  /\ \E b \in 0 .. MaxBacks, c \in 0 .. MaxLetters :
       /\ screen' = Rewritten(screen, b, Letters(ev.n, c))
       /\ word' = Rewritten(word, b, Letters(ev.n, c))
  /\ UnikeyBuf' \in Seq(Numbers)

\* It will be, when the F12 that is sent comes back.
Begins(ev) ==
  /\ visible /\ enabled
  /\ Taken(ev)
  /\ PendingCommit' /\ PostponeKeyEv' /\ PostponeCount' = 0
  /\ screen' = screen
  /\ \E b \in 1 .. MaxBacks, c \in 0 .. MaxLetters :
       /\ sent' = Begun(b)
       /\ UnikeyBuf' = Letters(ev.n, c) /\ Answered' = Letters(ev.n, c)
       /\ word' = Rewritten(word, b, Letters(ev.n, c))

\* One of the server's BackSpaces comes back.
CountsBack(ev) ==
  /\ Taken(ev)
  /\ screen' = Rewritten(screen, 1, <<>>)
  /\ UNCHANGED <<engine, sent, flags>>

\* The first F12 comes back.
Commits(ev) ==
  /\ Taken(ev)
  /\ ~PendingCommit' /\ UNCHANGED <<PostponeKeyEv, PostponeCount>>
  /\ screen' = Rewritten(screen, 0, Answered)
  /\ sent' = Append(sent, CommitKey)
  /\ UNCHANGED engine

\* The second F12 comes back.
Ends(ev) ==
  /\ Taken(ev)
  /\ ~PostponeKeyEv'
  /\ UNCHANGED <<PendingCommit, PostponeCount, screen, sent, engine>>

\* An answer that is carried out.
LEMMA AnswerKinds ==
  ASSUME Types, ~PendingCommit, ~PostponeKeyEv, visible, enabled,
         NEW ev \in Events, Taken(ev),
         NEW b \in 1 .. MaxBacks, NEW c \in 0 .. MaxLetters,
         Answer(b, Letters(ev.n, c)), CarryOut(b, Letters(ev.n, c))
  PROVE  Acts(ev) \/ Begins(ev)
<1>. DEFINE s == Letters(ev.n, c)
<1>1. s \in Seq(Numbers) /\ b \in 0 .. MaxBacks
  <2>1. b \in 0 .. MaxBacks /\ c \in Nat /\ ev.n \in Numbers
    BY BoundsAssumption DEF Events, Numbers
  <2>. QED  BY <2>1, LettersType
<1>2. UnikeyBuf' = s /\ word' = Rewritten(word, b, s)
  BY DEF Answer
<1>. HIDE DEF s
<1>3. CASE screen' = Rewritten(screen, b, s) /\ UNCHANGED <<sent, flags>>
  BY <1>1, <1>2, <1>3 DEF Acts, flags, Types, s
<1>4. CASE /\ sent' = Begun(b) /\ screen' = screen
           /\ PendingCommit' = TRUE /\ PostponeKeyEv' = TRUE
           /\ PostponeCount' = 0 /\ DataCommit' = (s # <<>>)
  <2>1. Answered' = s
    BY <1>2, <1>4 DEF Answered
  <2>. QED  BY <1>2, <1>4, <2>1 DEF Begins, s
<1>5. \/ screen' = Rewritten(screen, b, s) /\ UNCHANGED <<sent, flags>>
      \/ /\ sent' = Begun(b) /\ screen' = screen
         /\ PendingCommit' = TRUE /\ PostponeKeyEv' = TRUE
         /\ PostponeCount' = 0 /\ DataCommit' = (s # <<>>)
  BY DEF CarryOut, Begun, Fakes, s
<1>. QED  BY <1>3, <1>4, <1>5

\* Without a commit under way an event acts at once or begins one.
LEMMA IdleKinds ==
  ASSUME Types, OffIsIdle, notified, ~PendingCommit, ~PostponeKeyEv, MyForwardEventHandler
  PROVE  Acts(Head(queue)) \/ Begins(Head(queue))
<1>. DEFINE ev == Head(queue)
<1>1. queue # <<>> /\ ev \in Events
  BY HeadAndTail DEF MyForwardEventHandler, Types
<1>0. SUFFICES Acts(ev) \/ Begins(ev)
  OBVIOUS
<1>. HIDE DEF ev
<1>2. 0 \in 0 .. MaxBacks /\ 0 \in 0 .. MaxLetters /\ 0 \in Nat /\ 0 .. MaxLetters \subseteq Nat
      /\ screen \in Seq(Numbers) /\ word \in Seq(Numbers) /\ <<>> \in Seq(Numbers)
      /\ UnikeyBuf \in Seq(Numbers) /\ PostponeCount \in Nat
  BY BoundsAssumption, EmptySeq DEF Types
<1>3. ASSUME Taken(ev), screen' = Forwarded(screen, ev), word' = Forwarded(word, ev), sent' = sent,
             ~PendingCommit', ~PostponeKeyEv', PostponeCount' \in Nat, UnikeyBuf' \in Seq(Numbers)
      PROVE  Acts(ev)
  BY <1>1, <1>2, <1>3, ForwardedIs DEF Acts
<1>4. ASSUME Taken(ev), screen' = screen, word' = word, sent' = sent,
             ~PendingCommit', ~PostponeKeyEv', PostponeCount' \in Nat, UnikeyBuf' \in Seq(Numbers)
      PROVE  Acts(ev)
  <2>1. Letters(ev.n, 0) = <<>>
    <3>. ev.n \in Numbers
      BY <1>1 DEF Events, Numbers
    <3>. QED  BY LettersType
  <2>2. screen = Rewritten(screen, 0, Letters(ev.n, 0)) /\ word = Rewritten(word, 0, Letters(ev.n, 0))
    BY <1>2, <2>1, RewrittenType
  <2>. QED  BY <1>2, <1>4, <2>2 DEF Acts
<1>5. CASE PassOn(ev)
  BY <1>2, <1>3, <1>5 DEF PassOn, flags
<1>6. CASE visible /\ restoreKeys(ev)
  <2>1. CASE UnikeyBuf' = <<>> /\ UNCHANGED <<own, word, screen, sent, flags>>
    BY <1>2, <1>4, <1>6, <2>1 DEF restoreKeys, flags
  <2>2. ASSUME NEW b \in 1 .. MaxBacks, NEW c \in 1 .. MaxLetters,
               b <= own, Answer(b, Letters(ev.n, c)), CarryOut(b, Letters(ev.n, c))
        PROVE  Acts(ev) \/ Begins(ev)
    <3>1. enabled
      BY <1>6, <2>2, BoundsAssumption DEF OffIsIdle
    <3>2. c \in 0 .. MaxLetters /\ Taken(ev)
      BY <1>6, BoundsAssumption DEF restoreKeys
    <3>. QED  BY <1>1, <1>6, <2>2, <3>1, <3>2, AnswerKinds
  <2>. QED  BY <1>6, <2>1, <2>2 DEF restoreKeys
<1>7. CASE visible /\ enabled /\ BackSpaceKey(ev)
  <2>1. ASSUME NEW b \in 1 .. MaxBacks, b - 1 <= MaxLetters,
               Answer(b, Letters(ev.n, b - 1)), CarryOut(b, Letters(ev.n, b - 1))
        PROVE  Acts(ev) \/ Begins(ev)
    <3>1. b - 1 \in 0 .. MaxLetters /\ Taken(ev)
      BY <1>7, <2>1, BoundsAssumption DEF BackSpaceKey
    <3>. QED  BY <1>1, <1>7, <2>1, <3>1, AnswerKinds
  <2>2. CASE /\ UnikeyBuf' = <<>>
             /\ screen' = Forwarded(screen, ev) /\ word' = Forwarded(word, ev)
             /\ UNCHANGED <<own, sent, flags>>
    BY <1>2, <1>3, <1>7, <2>2 DEF BackSpaceKey, flags
  <2>. QED  BY <1>7, <2>1, <2>2 DEF BackSpaceKey
<1>8. CASE CommitKeyBack(ev)
  BY <1>2, <1>4, <1>8 DEF CommitKeyBack, engine
<1>9. CASE visible /\ enabled /\ CharKey(ev)
  <2>1. Taken(ev) /\ ~Postpone(ev)
    BY <1>9 DEF CharKey, Postpone, MustPostpone
  <2>2. CASE /\ UnikeyBuf' = <<>> /\ own' = own + 1
             /\ word' = Forwarded(word, ev) /\ screen' = Forwarded(screen, ev)
             /\ UNCHANGED <<sent, flags>>
    BY <1>2, <1>3, <2>1, <2>2 DEF flags
  <2>3. ASSUME NEW b \in 0 .. MaxBacks, NEW c \in 0 .. MaxLetters, Answer(b, Letters(ev.n, c)),
               IF b > 0 THEN CarryOut(b, Letters(ev.n, c)) ELSE Insert(Letters(ev.n, c))
        PROVE  Acts(ev) \/ Begins(ev)
    <3>1. CASE b > 0
      <4>1. b \in 1 .. MaxBacks /\ CarryOut(b, Letters(ev.n, c))
        BY <2>3, <3>1, BoundsAssumption
      <4>. QED  BY <1>1, <1>9, <2>1, <2>3, <4>1, AnswerKinds
    <3>2. CASE ~(b > 0)
      <4>1. b = 0 /\ c \in Nat
        BY <1>2, <3>2, BoundsAssumption
      <4>2. Letters(ev.n, c) \in Seq(Numbers)
        BY <1>1, <1>2, <4>1, AnswerType
      <4>. QED  BY <1>2, <2>1, <2>3, <3>2, <4>1, <4>2 DEF Insert, Answer, Acts, flags
    <3>. QED  BY <3>1, <3>2
  <2>. QED  BY <1>9, <2>1, <2>2, <2>3 DEF CharKey
<1>10. CASE ResetKey(ev)
  <2>1. ~Postpone(ev)
    BY DEF Postpone, MustPostpone
  <2>2. Taken(ev) /\ resetState /\ word' = Forwarded(word, ev) /\ screen' = Forwarded(screen, ev)
        /\ UnikeyBuf' = UnikeyBuf /\ sent' = sent
    BY <1>10, <2>1 DEF ResetKey
  <2>. QED  BY <1>2, <1>3, <2>2 DEF resetState
<1>. QED  BY <1>5, <1>6, <1>7, <1>8, <1>9, <1>10 DEF MyForwardEventHandler, ProcessKey, ev

\* While keys are postponed, each event has one effect.
LEMMA BusyKinds ==
  ASSUME Types, visible, enabled, PostponeKeyEv, MyForwardEventHandler
  PROVE  LET ev == Head(queue)
         IN  /\ ev = FakeBackSpace /\ PendingCommit => CountsBack(ev)
             /\ ev = CommitKey /\ PendingCommit => Commits(ev)
             /\ ev = CommitKey /\ ~PendingCommit => Ends(ev)
             /\ ev.type \in {"char", "long"} /\ PostponeCount < MaxPostpone => Postpone(ev)
<1>. DEFINE ev == Head(queue)
<1>1. /\ ev.type = "restore" => restoreKeys(ev)
      /\ ev.type # "restore" => ProcessKey(ev)
  BY DEF MyForwardEventHandler, ProcessKey
<1>. HIDE DEF ev
<1>2. ASSUME ev = FakeBackSpace, PendingCommit  PROVE CountsBack(ev)
  <2>1. ev.type = "BackSpace"
    BY <1>2 DEF FakeBackSpace
  <2>. QED  BY <1>1, <1>2, <2>1 DEF ProcessKey, BackSpaceKey, CountsBack, Forwarded
<1>3. ASSUME ev = CommitKey  PROVE CommitKeyBack(ev)
  <2>1. ev.type = "F12"
    BY <1>3 DEF CommitKey
  <2>. QED  BY <1>1, <2>1 DEF ProcessKey
<1>4. ASSUME ev = CommitKey, PendingCommit  PROVE Commits(ev)
  <2>1. Rewritten(screen, 0, Answered) = IF DataCommit THEN screen \o UnikeyBuf ELSE screen
    BY 0 \in Nat, EmptySeq, RewrittenType DEF Answered, Types
  <2>2. screen' = IF DataCommit THEN screen \o UnikeyBuf ELSE screen
    BY <1>3, <1>4 DEF CommitKeyBack
  <2>. HIDE DEF Answered
  <2>3. screen' = Rewritten(screen, 0, Answered)
    BY <2>1, <2>2
  <2>. QED  BY <1>3, <1>4, <2>3 DEF CommitKeyBack, Commits
<1>5. ASSUME ev = CommitKey, ~PendingCommit  PROVE Ends(ev)
  BY <1>3, <1>5 DEF CommitKeyBack, Ends
<1>6. ASSUME ev.type \in {"char", "long"}, PostponeCount < MaxPostpone  PROVE Postpone(ev)
  BY <1>1, <1>6 DEF ProcessKey, CharKey, ResetKey, MustPostpone
<1>. QED  BY <1>2, <1>4, <1>5, <1>6 DEF ev
-----------------------------------------------------------------------------
\* The events with a number of K.
Of(K) == {e \in Events : e.n \in K}

\* How many events of S are on their way.
Coming(S) == HowMany(queue, S) + HowMany(sent, S)

\* The keys on their way are those that wait.
Books == \A K \in SUBSET (1 .. MaxKeys) : Coming(Of(K)) = HowMany(waiting, K)

\* The server's own events have no number of a key.
LEMMA OwnNumbers ==
  ASSUME NEW K \in SUBSET (1 .. MaxKeys)
  PROVE  FakeBackSpace \notin Of(K) /\ CommitKey \notin Of(K)
  BY BoundsAssumption DEF Of, FakeBackSpace, CommitKey

\* A key that is taken was waiting, and no longer is.
LEMMA TakesOne ==
  ASSUME Types, Books, queue # <<>>, Taken(Head(queue))
  PROVE  LET n == Head(queue).n
         IN  \/ n = 0 /\ waiting' = waiting
             \/ /\ n # 0
                /\ \E i \in 1 .. Len(waiting) : waiting[i] = n /\ waiting' = RemoveAt(waiting, i)
<1>. DEFINE ev == Head(queue)
            n == ev.n
<1>1. ev \in Events /\ Tail(queue) \in Seq(Events) /\ n \in Numbers
  <2>1. ev \in Events /\ Tail(queue) \in Seq(Events)
    BY HeadAndTail DEF Types
  <2>. QED  BY <2>1 DEF Events, Numbers
<1>2. waiting \in Seq(1 .. MaxKeys) /\ waiting' = RemoveFirst(waiting, n) /\ MaxKeys \in Nat
  BY BoundsAssumption DEF Types, Taken
<1>3. \/ /\ \A i \in 1 .. Len(waiting) : waiting[i] # n
         /\ RemoveFirst(waiting, n) = waiting
      \/ \E i \in 1 .. Len(waiting) : waiting[i] = n /\ RemoveFirst(waiting, n) = RemoveAt(waiting, i)
  BY <1>2, RemoveFirstIsRemoveAt
<1>4. CASE n = 0
  <2>1. \A i \in 1 .. Len(waiting) : waiting[i] # n
    BY <1>2, <1>4, ElementOfSeq
  <2>. QED  BY <1>2, <1>3, <1>4, <2>1
<1>5. CASE n # 0
  <2>1. {n} \in SUBSET (1 .. MaxKeys) /\ n \in {n}
    BY <1>1, <1>2, <1>5 DEF Numbers
  <2>2. ev \in Of({n})
    BY <1>1 DEF Of
  <2>. HIDE DEF n, ev
  <2>3. Coming(Of({n})) # 0
    <3>1. HowMany(queue, Of({n})) = HowMany(Tail(queue), Of({n})) + 1
      BY <2>2, CountTail DEF Types, ev
    <3>2. HowMany(Tail(queue), Of({n})) \in Nat /\ HowMany(sent, Of({n})) \in Nat
      BY <1>1, CountType DEF Types
    <3>. QED  BY <3>1, <3>2 DEF Coming
  <2>4. HowMany(waiting, {n}) # 0
    BY <2>1, <2>3 DEF Books
  <2>5. \E i \in 1 .. Len(waiting) : waiting[i] \in {n}
    BY <1>2, <2>4, CountSome
  <2>. QED  BY <1>2, <1>3, <1>5, <2>5 DEF n, ev
<1>. QED  BY <1>4, <1>5

\* What is counted of the queues when the first event has been handled.
LEMMA FirstGone ==
  ASSUME Types, MyForwardEventHandler, NEW S
  PROVE  LET ev == Head(queue)
         IN  /\ HowMany(queue, S) = HowMany(queue', S) + IF ev \in S THEN 1 ELSE 0
             /\ HowMany(queue', S) \in Nat /\ HowMany(sent, S) \in Nat
             /\ ev \in Events /\ queue' \in Seq(Events)
<1>1. queue # <<>> /\ queue' = Tail(queue)
  BY DEF MyForwardEventHandler
<1>2. Head(queue) \in Events /\ queue' \in Seq(Events)
  BY <1>1, HeadAndTail DEF Types
<1>3. HowMany(queue', S) \in Nat /\ HowMany(sent, S) \in Nat
  BY <1>2, CountType DEF Types
<1>4. /\ Head(queue) \in S => HowMany(queue, S) = HowMany(queue', S) + 1
      /\ Head(queue) \notin S => HowMany(queue, S) = HowMany(queue', S)
  BY <1>1, CountTail DEF Types
<1>. QED  BY <1>2, <1>3, <1>4

\* The books when a key is taken and nothing but events of the server is sent.
LEMMA BooksTaken ==
  ASSUME Types, Books, MyForwardEventHandler, Taken(Head(queue)),
         \A K \in SUBSET (1 .. MaxKeys) : HowMany(sent', Of(K)) = HowMany(sent, Of(K))
  PROVE  Books'
<1>. DEFINE ev == Head(queue)
<1>1. SUFFICES ASSUME NEW K \in SUBSET (1 .. MaxKeys)
               PROVE  HowMany(queue', Of(K)) + HowMany(sent', Of(K)) = HowMany(waiting', K)
  BY DEF Books, Of, Coming
<1>. DEFINE S == Of(K)
<1>2. /\ HowMany(queue, S) = HowMany(queue', S) + IF ev \in S THEN 1 ELSE 0
      /\ HowMany(queue', S) \in Nat /\ HowMany(sent, S) \in Nat /\ ev \in Events
  BY FirstGone
<1>3. HowMany(queue, S) + HowMany(sent, S) = HowMany(waiting, K) /\ HowMany(sent', S) = HowMany(sent, S)
  BY DEF Books, Coming
<1>4. ev \in S <=> ev.n \in K
  BY <1>2 DEF Of
<1>5. waiting \in Seq(1 .. MaxKeys) /\ 0 \notin K
  BY BoundsAssumption DEF Types
<1>6. \/ ev.n = 0 /\ waiting' = waiting
      \/ \E i \in 1 .. Len(waiting) : waiting[i] = ev.n /\ waiting' = RemoveAt(waiting, i)
  BY TakesOne DEF MyForwardEventHandler
<1>. HIDE DEF S, ev
<1>7. CASE ev.n = 0 /\ waiting' = waiting
  BY <1>2, <1>3, <1>4, <1>5, <1>7 DEF S
<1>8. ASSUME NEW i \in 1 .. Len(waiting), waiting[i] = ev.n, waiting' = RemoveAt(waiting, i)
      PROVE  HowMany(queue', S) + HowMany(sent', S) = HowMany(waiting', K)
  <2>1. /\ HowMany(waiting, K) = HowMany(RemoveAt(waiting, i), K) + IF waiting[i] \in K THEN 1 ELSE 0
        /\ RemoveAt(waiting, i) \in Seq(1 .. MaxKeys)
    BY <1>5, RemoveAtProperties
  <2>2. HowMany(RemoveAt(waiting, i), K) \in Nat
    BY <2>1, CountType
  <2>. QED  BY <1>2, <1>3, <1>4, <1>8, <2>1, <2>2
<1>. QED  BY <1>6, <1>7, <1>8 DEF S

\* The books when an event is postponed.
LEMMA BooksPostponed ==
  ASSUME Types, Books, MyForwardEventHandler, Postpone(Head(queue))
  PROVE  Books'
<1>. DEFINE ev == Head(queue)
<1>1. SUFFICES ASSUME NEW K \in SUBSET (1 .. MaxKeys)
               PROVE  HowMany(queue', Of(K)) + HowMany(sent', Of(K)) = HowMany(waiting', K)
  BY DEF Books, Of, Coming
<1>. DEFINE S == Of(K)
<1>2. /\ HowMany(queue, S) = HowMany(queue', S) + IF ev \in S THEN 1 ELSE 0
      /\ HowMany(queue', S) \in Nat /\ HowMany(sent, S) \in Nat /\ ev \in Events
  BY FirstGone
<1>3. HowMany(queue, S) + HowMany(sent, S) = HowMany(waiting, K) /\ sent' = Append(sent, ev) /\ waiting' = waiting
  BY DEF Books, Coming, Postpone
<1>. HIDE DEF S, ev
<1>4. /\ ev \in S => HowMany(Append(sent, ev), S) = HowMany(sent, S) + 1
      /\ ev \notin S => HowMany(Append(sent, ev), S) = HowMany(sent, S)
  BY <1>2, CountAppend DEF Types
<1>5. HowMany(queue', S) + HowMany(sent', S) = HowMany(waiting', K)
  BY <1>2, <1>3, <1>4
<1>. QED  BY <1>5 DEF S

\* X only passes events on.
LEMMA DeliveryCounts ==
  ASSUME Types, DeliverSent, NEW S
  PROVE  /\ HowMany(queue', S) + HowMany(sent', S) = HowMany(queue, S) + HowMany(sent, S)
         /\ queue' \in Seq(Events) /\ sent' \in Seq(Events)
<1>1. /\ queue \in Seq(Events) /\ sent \in Seq(Events) /\ sent # <<>>
      /\ queue' = Append(queue, Head(sent)) /\ sent' = Tail(sent)
  BY DEF Types, DeliverSent
<1>. DEFINE e == Head(sent)
<1>2. e \in Events /\ sent' \in Seq(Events)
  BY <1>1, HeadAndTail
<1>3. HowMany(sent', S) \in Nat /\ HowMany(queue, S) \in Nat
  BY <1>1, <1>2, CountType
<1>4. /\ e \in S => HowMany(sent, S) = HowMany(sent', S) + 1
      /\ e \notin S => HowMany(sent, S) = HowMany(sent', S)
  BY <1>1, CountTail
<1>. HIDE DEF e
<1>5. /\ e \in S => HowMany(Append(queue, e), S) = HowMany(queue, S) + 1
      /\ e \notin S => HowMany(Append(queue, e), S) = HowMany(queue, S)
  BY <1>1, <1>2, CountAppend
<1>6. queue' = Append(queue, e)
  BY <1>1 DEF e
<1>7. queue' \in Seq(Events)
  BY <1>1, <1>2, <1>6, AppendProperties
<1>. QED  BY <1>2, <1>3, <1>4, <1>5, <1>6, <1>7

\* A key that is typed.
LEMMA PressKeeps ==
  ASSUME Types, Books, NEW type \in KeyTypes, Press(type)
  PROVE  /\ Types' /\ Books'
         /\ HowMany(queue', {FakeBackSpace}) = HowMany(queue, {FakeBackSpace})
<1>. DEFINE ev == [type |-> type, n |-> typed + 1]
            k == typed + 1
<1>1. /\ queue' = Append(queue, ev) /\ waiting' = Append(waiting, k) /\ typed' = k
      /\ UNCHANGED <<sent, PostponeCount, screen, word, UnikeyBuf>>
  BY DEF Press, flags, engine
<1>2. k \in 1 .. MaxKeys /\ ev \in Events /\ ev.n = k /\ k \in Numbers
  BY BoundsAssumption DEF Types, Press, Events, Numbers
<1>3. queue \in Seq(Events) /\ sent \in Seq(Events) /\ waiting \in Seq(1 .. MaxKeys)
  BY DEF Types
<1>4. FakeBackSpace # ev
  BY <1>2, BoundsAssumption DEF FakeBackSpace
<1>. HIDE DEF ev, k
<1>5. Types'
  BY <1>1, <1>2, <1>3, AppendProperties DEF Types
<1>6. Books'
  <2>. SUFFICES ASSUME NEW K \in SUBSET (1 .. MaxKeys)
                PROVE  HowMany(queue', Of(K)) + HowMany(sent', Of(K)) = HowMany(waiting', K)
    BY DEF Books, Of, Coming
  <2>. DEFINE S == Of(K)
  <2>1. (ev \in S <=> k \in K) /\ HowMany(queue, S) + HowMany(sent, S) = HowMany(waiting, K)
    BY <1>2 DEF Of, Books, Coming
  <2>. HIDE DEF S
  <2>2. /\ ev \in S => HowMany(Append(queue, ev), S) = HowMany(queue, S) + 1
        /\ ev \notin S => HowMany(Append(queue, ev), S) = HowMany(queue, S)
    BY <1>2, <1>3, CountAppend
  <2>3. /\ k \in K => HowMany(Append(waiting, k), K) = HowMany(waiting, K) + 1
        /\ k \notin K => HowMany(Append(waiting, k), K) = HowMany(waiting, K)
    BY <1>2, <1>3, CountAppend
  <2>4. HowMany(queue, S) \in Nat /\ HowMany(sent, S) \in Nat
    BY <1>3, CountType
  <2>. QED  BY <1>1, <2>1, <2>2, <2>3, <2>4 DEF S
<1>7. HowMany(queue', {FakeBackSpace}) = HowMany(queue, {FakeBackSpace})
  <2>. DEFINE F == {FakeBackSpace}
  <2>1. ev \notin F
    BY <1>4
  <2>. HIDE DEF F
  <2>2. HowMany(Append(queue, ev), F) = HowMany(queue, F)
    BY <1>2, <1>3, <2>1, CountAppend
  <2>. QED  BY <1>1, <2>2 DEF F
<1>. QED  BY <1>5, <1>6, <1>7
-----------------------------------------------------------------------------
\* The BackSpaces the server sends.
Fake == {FakeBackSpace}

\* What a user who is not of the pace "any" types, when the queues hold other things.
MyUser == {e \in Events : e.n # 0 /\ (pace = "waits" \/ e.type \in {"char", "long"})}

\* How many keys such a user lets wait.
Most == IF pace = "ahead" THEN MaxAhead ELSE 1

\* All events that are on their way, in the order in which they will come.
Q == Joined(queue, sent)

\* The F12 of a commit, with what comes before it and after it.
Back == <<CommitKey>>
Split(q, l, t) ==
  /\ l \in Seq(MyUser \cup Fake) /\ t \in Seq(MyUser)
  /\ q = Joined(Joined(l, Back), t)

\* The events of such a user: keys alone, or an F12, the first or the second, with
\* keys and BackSpaces before it and keys after it.
Idle == ~PendingCommit /\ ~PostponeKeyEv /\ Q \in Seq(MyUser)
Busy(l, t) ==
  /\ PostponeKeyEv /\ Split(Q, l, t)
  /\ PendingCommit => PostponeCount <= Len(t)
  /\ ~PendingCommit => l \in Seq(MyUser) /\ PostponeCount <= Most + Len(t)

\* How many keys wait: none while a commit is under way, if the user waits for it.
Patience == Len(waiting) <= Most /\ (pace = "waits" /\ PostponeKeyEv => waiting = <<>>)

\* The events that are on their way are those of a phase.
Phases == (Idle \/ \E l, t : Busy(l, t)) /\ Patience

\* A method is changed only when nothing is on its way.
Calm ==
  /\ pace # "waits" => visible /\ enabled /\ notified
  /\ ~notified => queue = <<>> /\ sent = <<>>
  /\ PostponeKeyEv => visible /\ enabled

\* The user's keys are none of the server's events.
LEMMA MyUserType ==
  /\ MyUser \subseteq Events /\ MyUser \cup Fake \subseteq Events /\ MyUser \subseteq MyUser \cup Fake
  /\ FakeBackSpace \notin MyUser /\ CommitKey \notin MyUser /\ FakeBackSpace # CommitKey
  /\ \A e \in MyUser : e \in Of(1 .. MaxKeys)
<1>1. FakeBackSpace \notin MyUser /\ CommitKey \notin MyUser /\ FakeBackSpace # CommitKey
  BY DEF CommitKey, FakeBackSpace, MyUser
<1>2. ASSUME NEW e \in MyUser  PROVE e \in Of(1 .. MaxKeys)
  <2>1. e \in Events /\ e.n # 0
    BY DEF MyUser
  <2>2. e.n \in 0 .. MaxKeys
    BY <2>1 DEF Events
  <2>. QED  BY <2>1, <2>2, BoundsAssumption DEF Of
<1>. QED  BY <1>1, <1>2, OwnEvents DEF MyUser, Fake

\* An F12 alone.
LEMMA BackIs ==
  /\ Back \in Seq(Events) /\ Len(Back) = 1 /\ Back[1] = CommitKey
  /\ \A S : HowMany(Back, S) = IF CommitKey \in S THEN 1 ELSE 0
  BY OwnEvents, CountOne DEF Back

\* The first event of Q is that of the queue.
LEMMA QueueFirst ==
  ASSUME NEW q \in Seq(Events), NEW s \in Seq(Events), q # <<>>
  PROVE  /\ Joined(q, s) # <<>> /\ Head(Joined(q, s)) = Head(q)
         /\ Tail(Joined(q, s)) = Joined(Tail(q), s)
<1>. DEFINE h == Head(q)
            r == Tail(q)
            f == <<h>>
<1>1. h \in Events /\ r \in Seq(Events) /\ q = Joined(f, r)
  BY HeadAndTail DEF Joined
<1>2. f \in Seq(Events) /\ Len(f) = 1 /\ f[1] = h
  BY <1>1, CountOne
<1>. HIDE DEF h, r, f
<1>3. Joined(q, s) = Joined(f, Joined(r, s))
  BY <1>1, <1>2, JoinedThrice
<1>4. Joined(r, s) \in Seq(Events)
  BY <1>1, JoinedType
<1>. DEFINE u == Joined(r, s)
<1>. HIDE DEF u
<1>5. Joined(f, u) # <<>> /\ Head(Joined(f, u)) = f[1] /\ Tail(Joined(f, u)) = u
  BY <1>2, <1>4, FirstAndRest DEF u
<1>6. Joined(q, s) # <<>> /\ Head(Joined(q, s)) = h /\ Tail(Joined(q, s)) = u
  BY <1>2, <1>3, <1>5, Zenon DEF u
<1>. QED  BY <1>6 DEF h, r, u

\* What is sent comes last.
LEMMA SentLast ==
  ASSUME NEW q \in Seq(Events), NEW s \in Seq(Events), NEW e \in Events
  PROVE  Joined(q, Append(s, e)) = Append(Joined(q, s), e)
<1>. DEFINE f == <<e>>
<1>1. f \in Seq(Events) /\ Append(s, e) = Joined(s, f)
  BY JoinedAppend
<1>. DEFINE u == Joined(q, s)
<1>2. u \in Seq(Events)
  BY JoinedType
<1>. HIDE DEF u
<1>3. Append(u, e) = Joined(u, f)
  BY <1>2, JoinedAppend
<1>. HIDE DEF f
<1>4. Joined(q, Joined(s, f)) = Joined(Joined(q, s), f)
  BY <1>1, JoinedThrice
<1>. QED  BY <1>1, <1>3, <1>4 DEF u

\* X changes nothing of Q.
LEMMA DeliveredSame ==
  ASSUME NEW q \in Seq(Events), NEW s \in Seq(Events), s # <<>>
  PROVE  Joined(Append(q, Head(s)), Tail(s)) = Joined(q, s)
<1>. DEFINE h == Head(s)
            r == Tail(s)
            f == <<h>>
<1>1. h \in Events /\ r \in Seq(Events) /\ s = Joined(f, r)
  BY HeadAndTail DEF Joined
<1>. HIDE DEF h, r
<1>2. f \in Seq(Events) /\ Append(q, h) = Joined(q, f)
  BY <1>1, JoinedAppend
<1>. HIDE DEF f
<1>3. Joined(Joined(q, f), r) = Joined(q, Joined(f, r))
  BY <1>1, <1>2, JoinedThrice
<1>4. Joined(Append(q, h), r) = Joined(q, s)
  BY <1>1, <1>2, <1>3
<1>. QED  BY <1>4 DEF h, r

\* A key that joins the queue comes before the F12 or after it.
LEMMA PressedInto ==
  ASSUME NEW q \in Seq(Events), NEW s \in Seq(Events), NEW l, NEW t,
         Split(Joined(q, s), l, t), NEW e \in MyUser
  PROVE  \/ \E m \in Seq(MyUser \cup Fake) :
              /\ Split(Joined(Append(q, e), s), m, t)
              /\ l \in Seq(MyUser) => m \in Seq(MyUser)
         \/ \E u \in Seq(MyUser) : Split(Joined(Append(q, e), s), l, u) /\ Len(u) = Len(t) + 1
<1>. DEFINE X == MyUser \cup Fake
            f == <<e>>
<1>1. /\ l \in Seq(X) /\ t \in Seq(MyUser) /\ l \in Seq(Events) /\ t \in Seq(Events)
      /\ e \in Events /\ Joined(q, s) = Joined(Joined(l, Back), t)
  BY MyUserType, SeqMonotonic DEF Split
<1>2. Back \in Seq(Events) /\ Len(Back) = 1
  BY BackIs
<1>3. f \in Seq(Events) /\ f \in Seq(MyUser) /\ Len(f) = 1 /\ Append(q, e) = Joined(q, f)
  BY <1>1, CountOne, JoinedAppend
<1>. HIDE DEF X, f
<1>. DEFINE lb == Joined(l, Back)
            n == Joined(Append(q, e), s)
<1>4. lb \in Seq(Events) /\ Len(lb) = Len(l) + 1 /\ Len(l) \in Nat /\ Len(q) \in Nat
  BY <1>1, <1>2, JoinedType, LenProperties
<1>5. n = Joined(Joined(q, f), s)
  BY <1>3
<1>6. CASE Len(q) <= Len(l)
  <2>. DEFINE bt == Joined(Back, t)
  <2>1. bt \in Seq(Events) /\ Joined(q, s) = Joined(l, bt)
    BY <1>1, <1>2, JoinedType, JoinedThrice
  <2>. HIDE DEF bt
  <2>2. PICK r \in Seq(Events) : l = Joined(q, r) /\ s = Joined(r, bt)
    BY <1>1, <1>6, <2>1, JoinedSplit
  <2>. DEFINE m == Joined(Joined(q, f), r)
  <2>3. n = Joined(Joined(m, Back), t)
    <3>1. s = Joined(r, bt)
      BY <2>2
    <3>. DEFINE qf == Joined(q, f)
    <3>2. qf \in Seq(Events)
      BY <1>3, JoinedType
    <3>. HIDE DEF qf
    <3>3. Joined(qf, Joined(r, bt)) = Joined(Joined(qf, r), bt)
      BY <2>1, <2>2, <3>2, JoinedThrice
    <3>. DEFINE qfr == Joined(qf, r)
    <3>4. qfr \in Seq(Events)
      BY <2>2, <3>2, JoinedType
    <3>. HIDE DEF qfr
    <3>5. Joined(qfr, Joined(Back, t)) = Joined(Joined(qfr, Back), t)
      BY <1>1, <1>2, <3>4, JoinedThrice
    <3>. QED  BY <1>5, <3>1, <3>3, <3>5 DEF qf, qfr, bt
  <2>4. ASSUME NEW Y, MyUser \subseteq Y, l \in Seq(Y)  PROVE m \in Seq(Y)
    <3>1. q \in Seq(Y) /\ r \in Seq(Y)
      BY <2>2, <2>4, JoinedParts
    <3>2. f \in Seq(Y)
      BY <1>3, <2>4, SeqMonotonic
    <3>3. Joined(q, f) \in Seq(Y)
      BY <3>1, <3>2, JoinedType
    <3>. QED  BY <3>1, <3>3, JoinedType
  <2>5. m \in Seq(X) /\ (l \in Seq(MyUser) => m \in Seq(MyUser))
    <3>. HIDE DEF m
    <3>1. MyUser \subseteq X
      BY DEF X
    <3>. QED  BY <1>1, <2>4, <3>1
  <2>. HIDE DEF m, n
  <2>6. Split(n, m, t)
    BY <1>1, <2>3, <2>5 DEF Split, X
  <2>. QED  BY <2>5, <2>6 DEF n, X
<1>7. CASE Len(lb) <= Len(q)
  <2>. HIDE DEF lb
  <2>1. PICK r \in Seq(Events) : q = Joined(lb, r) /\ t = Joined(r, s)
    BY <1>1, <1>4, <1>7, JoinedSplit DEF lb
  <2>. DEFINE u == Joined(Joined(r, f), s)
  <2>2. n = Joined(lb, u)
    <3>1. q = Joined(lb, r)
      BY <2>1
    <3>2. Joined(Joined(lb, r), f) = Joined(lb, Joined(r, f))
      BY <1>3, <1>4, <2>1, JoinedThrice
    <3>. DEFINE rf == Joined(r, f)
    <3>3. rf \in Seq(Events)
      BY <1>3, <2>1, JoinedType
    <3>. HIDE DEF rf
    <3>4. Joined(Joined(lb, rf), s) = Joined(lb, Joined(rf, s))
      BY <1>4, <3>3, JoinedThrice
    <3>. QED  BY <1>5, <3>1, <3>2, <3>4 DEF rf
  <2>3. r \in Seq(MyUser) /\ s \in Seq(MyUser)
    BY <1>1, <2>1, JoinedParts
  <2>4. u \in Seq(MyUser) /\ Len(u) = Len(t) + 1
    <3>1. Joined(r, f) \in Seq(MyUser) /\ Len(Joined(r, f)) = Len(r) + 1
      BY <1>3, <2>3, JoinedType
    <3>2. u \in Seq(MyUser) /\ Len(u) = Len(r) + 1 + Len(s)
      BY <2>3, <3>1, JoinedType
    <3>3. Len(t) = Len(r) + Len(s) /\ Len(r) \in Nat /\ Len(s) \in Nat
      BY <2>1, JoinedType, LenProperties
    <3>. HIDE DEF u
    <3>. QED  BY <3>2, <3>3
  <2>. HIDE DEF u, n
  <2>5. Split(n, l, u)
    BY <1>1, <2>2, <2>4 DEF Split, X, lb
  <2>. QED  BY <2>4, <2>5 DEF n
<1>. QED  BY <1>4, <1>6, <1>7
-----------------------------------------------------------------------------
\* What will come after the first event.
Rest == Joined(Tail(queue), sent)

\* The bound of 50 is enough for what such a user types ahead.
RoomToPostpone == 2 <= MaxPostpone /\ 2 * MaxAhead <= MaxPostpone

\* Nothing on its way: no commit is under way.
LEMMA QuietIdle ==
  ASSUME Types, Phases, queue = <<>>, sent = <<>>
  PROVE  Idle
<1>1. Len(Q) = 0
  BY EmptySeq, JoinedEmpty DEF Q
<1>2. ASSUME NEW l, NEW t, Busy(l, t)  PROVE FALSE
  <2>1. l \in Seq(Events) /\ t \in Seq(Events) /\ Q = Joined(Joined(l, Back), t)
    BY <1>2, MyUserType, SeqMonotonic DEF Busy, Split
  <2>2. Len(Q) = Len(l) + 1 + Len(t) /\ Len(l) \in Nat /\ Len(t) \in Nat
    BY <2>1, BackIs, SplitCount, LenProperties
  <2>. QED  BY <1>1, <2>2
<1>. QED  BY <1>2 DEF Phases

\* The first event when no commit is under way.
LEMMA IdleHead ==
  ASSUME Types, Idle, queue # <<>>
  PROVE  Head(queue) \in MyUser /\ Rest \in Seq(MyUser)
<1>1. Q # <<>> /\ Head(Q) = Head(queue) /\ Tail(Q) = Rest
  BY QueueFirst DEF Types, Q, Rest
<1>2. Q \in Seq(MyUser)
  BY DEF Idle
<1>. DEFINE q == Q
<1>3. q \in Seq(MyUser) /\ q # <<>>
  BY <1>1, <1>2
<1>. HIDE DEF q
<1>4. Head(q) \in MyUser /\ Tail(q) \in Seq(MyUser)
  BY <1>3, HeadAndTail
<1>. QED  BY <1>1, <1>4 DEF q

\* The first event when one is.
LEMMA BusyHead ==
  ASSUME Types, NEW l, NEW t, Busy(l, t), queue # <<>>
  PROVE  \/ Head(queue) = CommitKey /\ Rest = t
         \/ /\ Split(Rest, Tail(l), t) /\ Len(l) # 0 /\ Head(queue) = Head(l)
            /\ Head(queue) \in MyUser \cup Fake
            /\ l \in Seq(MyUser) => Tail(l) \in Seq(MyUser) /\ Head(queue) \in MyUser
<1>. DEFINE X == MyUser \cup Fake
            q == Q
<1>1. q # <<>> /\ Head(q) = Head(queue) /\ Tail(q) = Rest
  BY QueueFirst DEF Types, Q, Rest
<1>2. /\ l \in Seq(X) /\ t \in Seq(MyUser) /\ l \in Seq(Events) /\ t \in Seq(Events)
      /\ q = Joined(Joined(l, Back), t)
  BY MyUserType, SeqMonotonic DEF Busy, Split
<1>3. Back \in Seq(Events) /\ Len(Back) = 1 /\ Back[1] = CommitKey
  BY BackIs
<1>. HIDE DEF q, X
<1>4. CASE Len(l) = 0
  <2>1. q = Joined(Back, t)
    BY <1>2, <1>3, <1>4, SplitAtHead
  <2>2. Head(Joined(Back, t)) = Back[1] /\ Tail(Joined(Back, t)) = t
    BY <1>2, <1>3, FirstAndRest
  <2>. QED  BY <1>1, <1>3, <2>1, <2>2, Zenon
<1>5. CASE Len(l) # 0
  <2>1. Head(q) = Head(l) /\ Tail(q) = Joined(Joined(Tail(l), Back), t)
    BY <1>2, <1>3, <1>5, SplitLater
  <2>2. l # <<>>
    BY <1>5, EmptySeq
  <2>3. \A Y : l \in Seq(Y) => Head(l) \in Y /\ Tail(l) \in Seq(Y)
    BY <2>2, HeadAndTail
  <2>4. Split(Rest, Tail(l), t)
    BY <1>1, <1>2, <2>1, <2>3, Zenon DEF Split, X
  <2>. QED  BY <1>1, <1>2, <1>5, <2>1, <2>3, <2>4, Zenon DEF X
<1>. QED  BY <1>4, <1>5

\* The keys behind the F12 wait, and so does one that comes first.
LEMMA KeysBehind ==
  ASSUME Types, Books, NEW l, NEW t, Busy(l, t)
  PROVE  /\ Len(t) \in Nat /\ Len(waiting) \in Nat /\ Len(t) <= Len(waiting)
         /\ Len(l) # 0 /\ Head(l) \in MyUser => Len(t) < Len(waiting)
<1>. DEFINE K == 1 .. MaxKeys
            S == Of(K)
<1>1. /\ l \in Seq(Events) /\ t \in Seq(Events) /\ t \in Seq(MyUser)
      /\ Q = Joined(Joined(l, Back), t)
  BY MyUserType, SeqMonotonic DEF Busy, Split
<1>2. HowMany(Q, S) = Len(waiting)
  <2>1. HowMany(Q, S) = HowMany(queue, S) + HowMany(sent, S)
    BY JoinedCount DEF Types, Q
  <2>2. HowMany(queue, S) + HowMany(sent, S) = HowMany(waiting, K)
    BY DEF Books, Coming
  <2>3. HowMany(waiting, K) = Len(waiting)
    <3>1. waiting \in Seq(K)
      BY DEF Types
    <3>. HIDE DEF K
    <3>2. \A i \in 1 .. Len(waiting) : waiting[i] \in K
      BY <3>1, ElementOfSeq
    <3>. QED  BY <3>1, <3>2, CountAll
  <2>. QED  BY <2>1, <2>2, <2>3
<1>3. CommitKey \notin S /\ \A e \in MyUser : e \in S
  BY OwnNumbers, MyUserType
<1>. HIDE DEF S, K
<1>4. HowMany(Q, S) = HowMany(l, S) + HowMany(Back, S) + HowMany(t, S)
  BY <1>1, BackIs, SplitCount
<1>5. HowMany(Back, S) = 0
  BY <1>3, BackIs
<1>6. HowMany(t, S) = Len(t)
  <2>1. \A i \in 1 .. Len(t) : t[i] \in S
    BY <1>1, <1>3, ElementOfSeq
  <2>. QED  BY <1>1, <2>1, CountAll
<1>7. HowMany(l, S) \in Nat /\ Len(t) \in Nat /\ Len(waiting) \in Nat /\ Len(l) \in Nat
  BY <1>1, CountType, LenProperties DEF Types
<1>8. ASSUME Len(l) # 0, Head(l) \in MyUser  PROVE HowMany(l, S) # 0
  <2>1. l # <<>>
    BY <1>8, EmptySeq
  <2>2. HowMany(l, S) = HowMany(Tail(l), S) + 1 /\ Tail(l) \in Seq(Events)
    BY <1>1, <1>3, <1>8, <2>1, CountTail, HeadAndTail
  <2>3. HowMany(Tail(l), S) \in Nat
    BY <2>2, CountType
  <2>. QED  BY <2>2, <2>3
<1>. QED  BY <1>2, <1>4, <1>5, <1>6, <1>7, <1>8

\* A key that comes while keys are postponed finds room.
LEMMA RoomLeft ==
  ASSUME Types, Books, Phases, RoomToPostpone, NEW l, NEW t, Busy(l, t),
         Len(l) # 0, Head(l) \in MyUser
  PROVE  PostponeCount < MaxPostpone /\ Head(l).type \in {"char", "long"}
<1>1. /\ Len(t) \in Nat /\ Len(waiting) \in Nat /\ Len(t) < Len(waiting)
  BY KeysBehind
<1>2. Len(waiting) <= Most /\ (pace = "waits" => waiting = <<>>)
  BY DEF Phases, Patience, Busy
<1>3. Most \in Nat /\ 2 * Most <= MaxPostpone
  BY BoundsAssumption DEF Most, RoomToPostpone
<1>4. PostponeCount <= Most + Len(t) /\ PostponeCount \in Nat
  BY <1>1, <1>3 DEF Busy, Types
<1>5. pace # "waits"
  BY <1>1, <1>2, EmptySeq
<1>6. MaxPostpone \in Nat
  BY BoundsAssumption
<1>. QED  BY <1>1, <1>2, <1>3, <1>4, <1>5, <1>6 DEF MyUser

\* What the server does while keys are postponed.
LEMMA BusyStep ==
  ASSUME Types, Books, Phases, Calm, RoomToPostpone, NEW l, NEW t, Busy(l, t), MyForwardEventHandler
  PROVE  LET ev == Head(queue)
         IN  \/ PendingCommit /\ ev = FakeBackSpace /\ CountsBack(ev) /\ Split(Rest, Tail(l), t)
             \/ /\ ev \in MyUser /\ Postpone(ev) /\ Split(Rest, Tail(l), t)
                /\ l \in Seq(MyUser) => Tail(l) \in Seq(MyUser)
             \/ PendingCommit /\ ev = CommitKey /\ Commits(ev) /\ Rest = t
             \/ ~PendingCommit /\ ev = CommitKey /\ Ends(ev) /\ Rest = t
<1>. DEFINE ev == Head(queue)
<1>1. queue # <<>> /\ PostponeKeyEv /\ visible /\ enabled
  BY DEF MyForwardEventHandler, Busy, Calm
<1>2. /\ ev = FakeBackSpace /\ PendingCommit => CountsBack(ev)
      /\ ev = CommitKey /\ PendingCommit => Commits(ev)
      /\ ev = CommitKey /\ ~PendingCommit => Ends(ev)
      /\ ev.type \in {"char", "long"} /\ PostponeCount < MaxPostpone => Postpone(ev)
  BY <1>1, BusyKinds
<1>3. \/ ev = CommitKey /\ Rest = t
      \/ /\ Split(Rest, Tail(l), t) /\ Len(l) # 0 /\ ev = Head(l)
         /\ ev \in MyUser \cup Fake
         /\ l \in Seq(MyUser) => Tail(l) \in Seq(MyUser) /\ ev \in MyUser
  BY <1>1, BusyHead
<1>4. ~PendingCommit => l \in Seq(MyUser)
  BY DEF Busy
<1>5. FakeBackSpace \notin MyUser
  BY MyUserType
<1>. HIDE DEF ev
<1>6. ASSUME ev \in MyUser, ev = Head(l), Len(l) # 0  PROVE Postpone(ev)
  <2>1. Head(l) \in MyUser
    BY <1>6
  <2>2. PostponeCount < MaxPostpone /\ Head(l).type \in {"char", "long"}
    BY <1>6, <2>1, RoomLeft
  <2>. QED  BY <1>2, <1>6, <2>2
<1>7. ASSUME ev \in Fake  PROVE ev = FakeBackSpace
  BY <1>7 DEF Fake
<1>. QED  BY <1>2, <1>3, <1>4, <1>5, <1>6, <1>7, Zenon DEF ev
-----------------------------------------------------------------------------
\* What an event does while keys are postponed.
Proceeds(ev, l, t) ==
  \/ PendingCommit /\ ev = FakeBackSpace /\ CountsBack(ev) /\ Split(Rest, Tail(l), t)
  \/ /\ ev \in MyUser /\ Postpone(ev) /\ Split(Rest, Tail(l), t)
     /\ l \in Seq(MyUser) => Tail(l) \in Seq(MyUser)
  \/ PendingCommit /\ ev = CommitKey /\ Commits(ev) /\ Rest = t
  \/ ~PendingCommit /\ ev = CommitKey /\ Ends(ev) /\ Rest = t

\* What an event does otherwise.
Starts(ev) == Idle /\ ev \in MyUser /\ Rest \in Seq(MyUser) /\ (Acts(ev) \/ Begins(ev))

\* What the server does with an event.
LEMMA HandlerStep ==
  ASSUME Types, Books, Phases, Calm, OffIsIdle, RoomToPostpone, MyForwardEventHandler
  PROVE  /\ queue # <<>> /\ Head(queue) \in Events /\ queue' = Tail(queue) /\ queue' \in Seq(Events)
         /\ UNCHANGED <<visible, enabled, notified, typed, pace>>
         /\ \/ Starts(Head(queue))
            \/ \E l, t : Busy(l, t) /\ Proceeds(Head(queue), l, t)
<1>. DEFINE ev == Head(queue)
<1>1. queue # <<>> /\ queue' = Tail(queue) /\ UNCHANGED <<visible, enabled, notified, typed, pace>>
  BY DEF MyForwardEventHandler, switches, settings
<1>2. ev \in Events /\ queue' \in Seq(Events)
  BY <1>1, HeadAndTail DEF Types
<1>3. CASE Idle
  <2>1. notified
    BY <1>1 DEF Calm
  <2>2. ev \in MyUser /\ Rest \in Seq(MyUser)
    BY <1>1, <1>3, IdleHead
  <2>3. Acts(ev) \/ Begins(ev)
    BY <1>3, <2>1, IdleKinds DEF Idle
  <2>. QED  BY <1>1, <1>2, <1>3, <2>2, <2>3 DEF Starts
<1>4. ASSUME NEW l, NEW t, Busy(l, t)  PROVE Proceeds(ev, l, t)
  BY <1>4, BusyStep, Zenon DEF Proceeds
<1>. QED  BY <1>1, <1>2, <1>3, <1>4, Zenon DEF Phases

\* Every event of the server but one that is postponed is taken.
LEMMA TakenOrPostponed ==
  ASSUME NEW ev, Starts(ev) \/ \E l, t : Proceeds(ev, l, t)
  PROVE  \/ Taken(ev)
         \/ Postpone(ev) /\ waiting' = waiting
  BY DEF Starts, Acts, Begins, Proceeds, CountsBack, Postpone, Commits, Ends

\* The types are kept by the server.
LEMMA TypesKept ==
  ASSUME Types, Books, Phases, Calm, OffIsIdle, RoomToPostpone, MyForwardEventHandler
  PROVE  Types'
<1>. DEFINE ev == Head(queue)
<1>1. /\ ev \in Events /\ queue' \in Seq(Events) /\ typed' = typed
      /\ Starts(ev) \/ \E l, t : Proceeds(ev, l, t)
  BY HandlerStep
<1>. HIDE DEF ev
<1>2. /\ sent \in Seq(Events) /\ waiting \in Seq(1 .. MaxKeys) /\ typed \in Numbers /\ PostponeCount \in Nat
      /\ screen \in Seq(Numbers) /\ word \in Seq(Numbers) /\ UnikeyBuf \in Seq(Numbers)
      /\ Answered \in Seq(Numbers) /\ 0 \in Nat /\ 1 \in Nat
  BY EmptySeq DEF Types, Answered
<1>3. waiting' \in Seq(1 .. MaxKeys)
  <2>1. Taken(ev) \/ waiting' = waiting
    BY <1>1, TakenOrPostponed
  <2>. QED  BY <1>2, <2>1, TakenType
<1>4. SUFFICES /\ sent' \in Seq(Events) /\ PostponeCount' \in Nat
               /\ screen' \in Seq(Numbers) /\ word' \in Seq(Numbers) /\ UnikeyBuf' \in Seq(Numbers)
  BY <1>1, <1>2, <1>3 DEF Types
<1>5. 0 .. MaxBacks \subseteq Nat /\ 0 .. MaxLetters \subseteq Nat /\ 1 .. MaxBacks \subseteq Nat
  BY BoundsAssumption
<1>6. \A b, c \in Nat, u \in Seq(Numbers) :
         Letters(ev.n, c) \in Seq(Numbers) /\ Rewritten(u, b, Letters(ev.n, c)) \in Seq(Numbers)
  BY <1>1, AnswerType
<1>7. \A b \in Nat : Begun(b) \in Seq(Events)
  BY <1>2, BegunCount
<1>8. CASE Acts(ev)
  BY <1>2, <1>5, <1>6, <1>8 DEF Acts
<1>9. CASE Begins(ev)
  BY <1>2, <1>5, <1>6, <1>7, <1>9 DEF Begins
<1>10. CASE CountsBack(ev)
  <2>1. Rewritten(screen, 1, <<>>) \in Seq(Numbers)
    BY <1>2, EmptySeq, RewrittenType
  <2>. QED  BY <1>2, <1>10, <2>1 DEF CountsBack, engine, flags
<1>11. CASE Postpone(ev)
  <2>1. Append(sent, ev) \in Seq(Events)
    BY <1>1, <1>2, AppendProperties
  <2>2. PostponeCount + 1 \in Nat
    BY <1>2
  <2>. QED  BY <1>2, <1>11, <2>1, <2>2 DEF Postpone, engine
<1>12. CASE Commits(ev)
  <2>1. Append(sent, CommitKey) \in Seq(Events)
    BY <1>2, OwnEvents, AppendProperties
  <2>2. Rewritten(screen, 0, Answered) \in Seq(Numbers)
    BY <1>2, RewrittenType
  <2>. QED  BY <1>2, <1>12, <2>1, <2>2 DEF Commits, engine
<1>13. CASE Ends(ev)
  BY <1>2, <1>13 DEF Ends, engine
<1>. QED  BY <1>1, <1>8, <1>9, <1>10, <1>11, <1>12, <1>13 DEF Starts, Proceeds

\* The books are kept by the server.
LEMMA BooksKept ==
  ASSUME Types, Books, Phases, Calm, OffIsIdle, RoomToPostpone, MyForwardEventHandler
  PROVE  Books'
<1>. DEFINE ev == Head(queue)
<1>1. Starts(ev) \/ \E l, t : Proceeds(ev, l, t)
  BY HandlerStep
<1>2. CASE Postpone(ev)
  BY <1>2, BooksPostponed
<1>3. CASE Taken(ev) /\ ~Postpone(ev)
  <2>1. ASSUME NEW K \in SUBSET (1 .. MaxKeys)  PROVE HowMany(sent', Of(K)) = HowMany(sent, Of(K))
    <3>. DEFINE S == Of(K)
    <3>1. sent \in Seq(Events) /\ FakeBackSpace \notin S /\ CommitKey \notin S
      BY OwnNumbers DEF Types
    <3>. HIDE DEF S, ev
    <3>2. CASE sent' = sent
      BY <3>2
    <3>3. CASE Begins(ev)
      <4>1. PICK b \in 1 .. MaxBacks : sent' = Begun(b)
        BY <3>3 DEF Begins
      <4>4. b \in Nat
        BY BoundsAssumption
      <4>2. b \in Nat /\ HowMany(sent, S) \in Nat
        BY <3>1, <4>4, CountType
      <4>3. HowMany(Begun(b), S) = HowMany(sent, S) + (IF FakeBackSpace \in S THEN b ELSE 0)
                                   + IF CommitKey \in S THEN 1 ELSE 0
        BY <3>1, <4>2, BegunCount
      <4>. QED  BY <3>1, <4>1, <4>2, <4>3 DEF S
    <3>4. CASE Commits(ev)
      <4>1. HowMany(Append(sent, CommitKey), S) = HowMany(sent, S)
        BY <3>1, OwnEvents, CountAppend
      <4>. QED  BY <3>4, <4>1 DEF Commits, S
    <3>. QED  BY <1>1, <1>3, <3>2, <3>3, <3>4 DEF Starts, Proceeds, Acts, CountsBack, Ends
  <2>. QED  BY <1>3, <2>1, BooksTaken
<1>. QED  BY <1>1, <1>2, <1>3, TakenOrPostponed
-----------------------------------------------------------------------------
\* The pace decides what kinds of keys there are.
LEMMA SameUser ==
  ASSUME pace' = pace
  PROVE  /\ MyUser' = MyUser /\ Most' = Most
         /\ \A r, l, t : Split(r, l, t)' <=> Split(r, l, t)
  BY DEF MyUser, Most, Split

\* A commit that begins: BackSpaces and the F12 behind the keys that are there.
LEMMA BeginsSplit ==
  ASSUME Types, Rest \in Seq(MyUser), queue # <<>>, NEW b \in Nat
  PROVE  \E l : Split(Joined(Tail(queue), Begun(b)), l, <<>>)
<1>. DEFINE q == Tail(queue)
            f == Fakes(b)
            X == MyUser \cup Fake
            l == Joined(Rest, f)
<1>1. q \in Seq(Events) /\ sent \in Seq(Events) /\ Rest \in Seq(Events)
  BY HeadAndTail, MyUserType, SeqMonotonic DEF Types
<1>2. f \in Seq(X) /\ f \in Seq(Events)
  <2>1. f \in Seq(Fake) /\ f \in Seq(Events)
    BY FakesCount DEF Fake
  <2>2. Fake \subseteq X
    OBVIOUS
  <2>. HIDE DEF f, X
  <2>. QED  BY <2>1, <2>2, SeqMonotonic
<1>3. Rest \in Seq(X)
  BY SeqMonotonic
<1>4. Back \in Seq(Events)
  BY BackIs
<1>5. Begun(b) = Joined(Joined(sent, f), Back)
  BY DEF Begun, Joined, Back
<1>. HIDE DEF q, f, X
<1>6. l \in Seq(X) /\ l \in Seq(Events)
  BY <1>1, <1>2, <1>3, JoinedType
<1>7. Joined(q, Begun(b)) = Joined(l, Back)
  <2>. DEFINE sf == Joined(sent, f)
  <2>1. sf \in Seq(Events)
    BY <1>1, <1>2, JoinedType
  <2>2. Joined(q, sf) = Joined(Joined(q, sent), f)
    BY <1>1, <1>2, JoinedThrice
  <2>. HIDE DEF sf
  <2>3. Joined(q, Joined(sf, Back)) = Joined(Joined(q, sf), Back)
    BY <1>1, <1>4, <2>1, JoinedThrice
  <2>. QED  BY <1>5, <2>2, <2>3 DEF Rest, sf, q
<1>. HIDE DEF l
<1>8. Joined(Joined(l, Back), <<>>) = Joined(l, Back) /\ <<>> \in Seq(MyUser)
  <2>1. Joined(l, Back) \in Seq(Events)
    BY <1>4, <1>6, JoinedType
  <2>. QED  BY <2>1, JoinedEmpty, EmptySeq
<1>. QED  BY <1>6, <1>7, <1>8 DEF Split, X, q

\* A key that joins the keys behind the F12.
LEMMA JoinsLater ==
  ASSUME NEW q, NEW l, NEW t, Split(q, l, t), NEW e \in MyUser
  PROVE  Split(Append(q, e), l, Append(t, e)) /\ Len(Append(t, e)) = Len(t) + 1
<1>1. l \in Seq(MyUser \cup Fake) /\ t \in Seq(MyUser) /\ q = Joined(Joined(l, Back), t)
  BY DEF Split
<1>2. l \in Seq(Events) /\ t \in Seq(Events) /\ e \in Events
  BY <1>1, MyUserType, SeqMonotonic
<1>3. Back \in Seq(Events) /\ Len(Back) = 1
  BY BackIs
<1>4. Append(q, e) = Joined(Joined(l, Back), Append(t, e))
  BY <1>1, <1>2, <1>3, SplitAppend
<1>5. Append(t, e) \in Seq(MyUser) /\ Len(Append(t, e)) = Len(t) + 1
  BY <1>1, AppendProperties
<1>. QED  BY <1>1, <1>4, <1>5, Zenon DEF Split

\* An event that is sent again comes behind the F12.
LEMMA PostponedSplit ==
  ASSUME Types, queue # <<>>, NEW l, NEW t, Split(Rest, l, t), NEW e \in MyUser
  PROVE  /\ Split(Joined(Tail(queue), Append(sent, e)), l, Append(t, e))
         /\ Len(Append(t, e)) = Len(t) + 1
<1>1. Tail(queue) \in Seq(Events) /\ sent \in Seq(Events) /\ e \in Events
  BY HeadAndTail, MyUserType DEF Types
<1>2. Joined(Tail(queue), Append(sent, e)) = Append(Rest, e)
  BY <1>1, SentLast DEF Rest
<1>3. Split(Append(Rest, e), l, Append(t, e)) /\ Len(Append(t, e)) = Len(t) + 1
  BY JoinsLater, Zenon
<1>. QED  BY <1>2, <1>3

\* The second F12 comes behind the keys that are there.
LEMMA SecondSplit ==
  ASSUME Types, queue # <<>>, Rest \in Seq(MyUser)
  PROVE  Split(Joined(Tail(queue), Append(sent, CommitKey)), Rest, <<>>)
<1>1. Tail(queue) \in Seq(Events) /\ sent \in Seq(Events) /\ CommitKey \in Events
  BY HeadAndTail, OwnEvents DEF Types
<1>2. Rest \in Seq(MyUser \cup Fake) /\ Rest \in Seq(Events) /\ <<>> \in Seq(MyUser)
  BY MyUserType, SeqMonotonic, EmptySeq
<1>3. Joined(Tail(queue), Append(sent, CommitKey)) = Append(Rest, CommitKey)
  BY <1>1, SentLast DEF Rest
<1>4. Append(Rest, CommitKey) = Joined(Rest, Back)
  BY <1>1, <1>2, JoinedAppend DEF Back
<1>5. Joined(Rest, Back) \in Seq(Events)
  BY <1>2, BackIs, JoinedType
<1>6. Joined(Joined(Rest, Back), <<>>) = Joined(Rest, Back)
  BY <1>5, JoinedEmpty
<1>. QED  BY <1>2, <1>3, <1>4, <1>6, Zenon DEF Split

\* A user waits for no more keys than before, and for none more who waits.
LEMMA PatienceKept ==
  ASSUME Types, Books, Phases, Calm, OffIsIdle, RoomToPostpone, MyForwardEventHandler
  PROVE  Patience'
<1>. DEFINE ev == Head(queue)
            n == ev.n
<1>1. /\ queue # <<>> /\ pace' = pace
      /\ Starts(ev) \/ \E l, t : Busy(l, t) /\ Proceeds(ev, l, t)
  BY HandlerStep
<1>2. /\ waiting \in Seq(1 .. MaxKeys) /\ Len(waiting) \in Nat
      /\ Len(waiting) <= Most /\ (pace = "waits" /\ PostponeKeyEv => waiting = <<>>)
      /\ Most' = Most /\ Most \in Nat /\ (pace = "waits" => Most = 1)
      /\ Len(<<>>) = 0 /\ \A s \in Seq(1 .. MaxKeys) : Len(s) = 0 => s = <<>>
  BY <1>1, SameUser, BoundsAssumption, LenProperties, EmptySeq DEF Types, Phases, Patience, Most
<1>3. ASSUME Taken(ev)
      PROVE  \/ n = 0 /\ waiting' = waiting
             \/ /\ n # 0 /\ waiting' \in Seq(1 .. MaxKeys)
                /\ Len(waiting') = Len(waiting) - 1 /\ Len(waiting') \in Nat
  <2>1. \/ n = 0 /\ waiting' = waiting
        \/ /\ n # 0
           /\ \E i \in 1 .. Len(waiting) : waiting[i] = n /\ waiting' = RemoveAt(waiting, i)
    BY <1>1, <1>3, TakesOne
  <2>2. ASSUME NEW i \in 1 .. Len(waiting)
        PROVE  /\ RemoveAt(waiting, i) \in Seq(1 .. MaxKeys)
               /\ Len(RemoveAt(waiting, i)) = Len(waiting) - 1 /\ Len(waiting) - 1 \in Nat
    BY <1>2, RemoveAtProperties
  <2>. QED  BY <2>1, <2>2
<1>4. CASE Starts(ev)
  <2>1. n # 0 /\ Taken(ev)
    BY <1>4 DEF Starts, MyUser, Acts, Begins
  <2>. HIDE DEF ev, n
  <2>2. waiting' \in Seq(1 .. MaxKeys) /\ Len(waiting') = Len(waiting) - 1 /\ Len(waiting') \in Nat
    BY <1>3, <2>1
  <2>3. Len(waiting') <= Most /\ (pace = "waits" => Len(waiting') = 0)
    BY <1>2, <2>2
  <2>. QED  BY <1>1, <1>2, <2>2, <2>3 DEF Patience
<1>5. ASSUME NEW l, NEW t, Busy(l, t), Proceeds(ev, l, t)  PROVE Patience'
  <2>1. PostponeKeyEv
    BY <1>5 DEF Busy
  <2>2. Taken(ev) \/ waiting' = waiting
    BY <1>5, TakenOrPostponed
  <2>. HIDE DEF ev, n
  <2>3. waiting' = waiting \/ (Len(waiting') = Len(waiting) - 1 /\ Len(waiting') \in Nat)
    BY <1>3, <2>2
  <2>4. CASE waiting' = waiting
    BY <1>1, <1>2, <2>1, <2>4 DEF Patience
  <2>5. CASE Len(waiting') = Len(waiting) - 1 /\ Len(waiting') \in Nat
    <3>1. Len(waiting') <= Most /\ pace # "waits"
      BY <1>2, <2>1, <2>5
    <3>. QED  BY <1>1, <1>2, <3>1 DEF Patience
  <2>. QED  BY <2>3, <2>4, <2>5
<1>. QED  BY <1>1, <1>4, <1>5
-----------------------------------------------------------------------------
(* The phases are kept by the server. *)
LEMMA PhasesKept ==
  ASSUME Types, Books, Phases, Calm, OffIsIdle, RoomToPostpone, MyForwardEventHandler
  PROVE  Phases'
<1>. DEFINE ev == Head(queue)
<1>1. /\ queue # <<>> /\ queue' = Tail(queue) /\ pace' = pace
      /\ Starts(ev) \/ \E l, t : Busy(l, t) /\ Proceeds(ev, l, t)
  BY HandlerStep
<1>2. /\ MyUser' = MyUser /\ Most' = Most
      /\ \A r, l, t : Split(r, l, t)' <=> Split(r, l, t)
  BY <1>1, SameUser
<1>3. Patience'
  BY PatienceKept
<1>4. Q' = Joined(Tail(queue), sent')
  BY <1>1 DEF Q
<1>5. SUFFICES Idle' \/ \E l, t : Busy(l, t)'
  BY <1>3 DEF Phases
<1>6. PostponeCount \in Nat /\ Most \in Nat
  BY BoundsAssumption DEF Types, Most
<1>. HIDE DEF ev
<1>7. ASSUME NEW l, NEW t, PostponeKeyEv', Split(Q', l, t),
             PendingCommit' => PostponeCount' <= Len(t),
             ~PendingCommit' => l \in Seq(MyUser) /\ PostponeCount' <= Most + Len(t)
      PROVE  Busy(l, t)'
  BY <1>2, <1>7 DEF Busy
<1>8. CASE Starts(ev)
  <2>1. CASE Acts(ev)
    BY <1>2, <1>4, <1>8, <2>1 DEF Acts, Starts, Idle, Rest
  <2>2. CASE Begins(ev)
    <3>1. PICK b \in 1 .. MaxBacks : sent' = Begun(b)
      BY <2>2 DEF Begins
    <3>2. b \in Nat /\ Rest \in Seq(MyUser)
      BY <1>8, BoundsAssumption DEF Starts
    <3>3. PICK l : Split(Q', l, <<>>)
      BY <1>1, <1>4, <3>1, <3>2, BeginsSplit
    <3>4. PostponeKeyEv' /\ PendingCommit' /\ PostponeCount' = 0 /\ Len(<<>>) = 0
      BY <2>2, EmptySeq DEF Begins
    <3>5. PostponeCount' <= Len(<<>>)
      BY <3>4
    <3>. QED  BY <1>7, <3>3, <3>4, <3>5
  <2>. QED  BY <1>8, <2>1, <2>2 DEF Starts
<1>9. ASSUME NEW l, NEW t, Busy(l, t), Proceeds(ev, l, t)
      PROVE  Idle' \/ \E m, u : Busy(m, u)'
  <2>1. /\ PostponeKeyEv
        /\ PendingCommit => PostponeCount <= Len(t)
        /\ ~PendingCommit => l \in Seq(MyUser) /\ PostponeCount <= Most + Len(t)
        /\ t \in Seq(MyUser) /\ Len(t) \in Nat
    BY <1>9, LenProperties DEF Busy, Split
  <2>2. CASE PendingCommit /\ CountsBack(ev) /\ Split(Rest, Tail(l), t)
    <3>1. PostponeKeyEv' /\ PendingCommit' /\ PostponeCount' = PostponeCount /\ Q' = Rest
      BY <1>4, <2>1, <2>2 DEF CountsBack, flags, Rest
    <3>. QED  BY <1>7, <2>1, <2>2, <3>1
  <2>3. CASE /\ ev \in MyUser /\ Postpone(ev) /\ Split(Rest, Tail(l), t)
             /\ l \in Seq(MyUser) => Tail(l) \in Seq(MyUser)
    <3>. DEFINE u == Append(t, ev)
    <3>1. /\ PostponeKeyEv' /\ PendingCommit' = PendingCommit
          /\ PostponeCount' = PostponeCount + 1 /\ Q' = Joined(Tail(queue), Append(sent, ev))
      BY <1>4, <2>1, <2>3 DEF Postpone
    <3>2. Split(Joined(Tail(queue), Append(sent, ev)), Tail(l), u) /\ Len(u) = Len(t) + 1
      BY <1>1, <2>3, PostponedSplit
    <3>. HIDE DEF u
    <3>3. Split(Q', Tail(l), u)
      BY <3>1, <3>2
    <3>4. /\ PendingCommit' => PostponeCount' <= Len(u)
          /\ ~PendingCommit' => Tail(l) \in Seq(MyUser) /\ PostponeCount' <= Most + Len(u)
      BY <1>6, <2>1, <2>3, <3>1, <3>2
    <3>. QED  BY <1>7, <3>1, <3>3, <3>4
  <2>4. CASE PendingCommit /\ Commits(ev) /\ Rest = t
    <3>1. /\ PostponeKeyEv' /\ ~PendingCommit' /\ PostponeCount' = PostponeCount
          /\ Q' = Joined(Tail(queue), Append(sent, CommitKey))
      BY <1>4, <2>1, <2>4 DEF Commits
    <3>2. Split(Q', t, <<>>)
      BY <1>1, <2>1, <2>4, <3>1, SecondSplit
    <3>3. Len(t) <= Most
      <4>1. Len(t) <= Len(waiting) /\ Len(waiting) \in Nat
        BY <1>9, KeysBehind
      <4>2. Len(waiting) <= Most
        BY DEF Phases, Patience
      <4>. QED  BY <1>6, <2>1, <4>1, <4>2
    <3>4. PostponeCount' <= Most + Len(<<>>)
      BY <1>6, <2>1, <2>4, <3>1, <3>3, EmptySeq
    <3>. QED  BY <1>7, <2>1, <3>1, <3>2, <3>4
  <2>5. CASE ~PendingCommit /\ Ends(ev) /\ Rest = t
    BY <1>2, <1>4, <2>1, <2>5 DEF Ends, Idle, Rest
  <2>. QED  BY <1>9, <2>2, <2>3, <2>4, <2>5 DEF Proceeds
<1>. QED  BY <1>1, <1>8, <1>9
-----------------------------------------------------------------------------
\* What is owed, by what is on its way.
OwedByCount == Owed = IF PendingCommit THEN Rewritten(screen, Coming(Fake), Answered) ELSE screen

\* The two say the same.
LEMMA OwedIs == Types => OwedByCount
<1>. SUFFICES ASSUME Types  PROVE OwedByCount
  OBVIOUS
<1>1. queue \in Seq(Events) /\ sent \in Seq(Events)
  BY DEF Types
<1>2. HowMany(queue \o sent, Fake) = Coming(Fake)
  BY <1>1, CountConcat DEF Coming
<1>. QED  BY <1>2 DEF Owed, OwedByCount, Answered, Fake

\* The same after a step.
LEMMA OwedNext == Types' => OwedByCount'
  BY OwedIs, PTL

\* A key that can be taken changes the text owed, and the engine's, once.
TakesKey ==
  \E i \in 1 .. Len(waiting), b \in 0 .. MaxBacks, c \in 0 .. MaxLetters :
    /\ pace # "ahead" => i = 1
    /\ waiting' = RemoveAt(waiting, i)
    /\ Owed' = Rewritten(Owed, b, Letters(waiting[i], c))
    /\ word' = Rewritten(word, b, Letters(waiting[i], c))

\* There are no BackSpaces of the server among the user's keys.
LEMMA NoFakes ==
  ASSUME Types, queue # <<>>, Rest \in Seq(MyUser)
  PROVE  HowMany(Tail(queue), Fake) = 0 /\ HowMany(sent, Fake) = 0
<1>1. Tail(queue) \in Seq(Events) /\ sent \in Seq(Events)
  BY HeadAndTail DEF Types
<1>2. HowMany(Rest, Fake) = HowMany(Tail(queue), Fake) + HowMany(sent, Fake)
  BY <1>1, JoinedCount DEF Rest
<1>3. HowMany(Rest, Fake) = 0
  <2>1. \A i \in 1 .. Len(Rest) : Rest[i] \notin Fake
    BY ElementOfSeq, MyUserType DEF Fake
  <2>. QED  BY <2>1, CountSome
<1>4. HowMany(Tail(queue), Fake) \in Nat /\ HowMany(sent, Fake) \in Nat
  BY <1>1, CountType
<1>. QED  BY <1>2, <1>3, <1>4

\* How many BackSpaces of the server are on their way when it takes an event.
LEMMA FakesLeft ==
  ASSUME Types, MyForwardEventHandler
  PROVE  /\ Coming(Fake) = HowMany(queue', Fake) + HowMany(sent, Fake)
                            + IF Head(queue) \in Fake THEN 1 ELSE 0
         /\ HowMany(queue', Fake) \in Nat /\ HowMany(sent, Fake) \in Nat
<1>1. /\ HowMany(queue, Fake) = HowMany(queue', Fake) + IF Head(queue) \in Fake THEN 1 ELSE 0
      /\ HowMany(queue', Fake) \in Nat /\ HowMany(sent, Fake) \in Nat
  BY FirstGone
<1>. QED  BY <1>1 DEF Coming

\* What becomes of the text when an event is taken that no key waits for.
LEMMA StartsText ==
  ASSUME Types, Books, Phases, Types', MyForwardEventHandler, Starts(Head(queue))
  PROVE  \E b \in 0 .. MaxBacks, c \in 0 .. MaxLetters :
            /\ Owed' = Rewritten(Owed, b, Letters(Head(queue).n, c))
            /\ word' = Rewritten(word, b, Letters(Head(queue).n, c))
<1>. DEFINE ev == Head(queue)
            n == ev.n
<1>1. queue # <<>> /\ queue' = Tail(queue) /\ ~PendingCommit /\ Rest \in Seq(MyUser)
  BY DEF MyForwardEventHandler, Starts, Idle
<1>2. /\ Owed = screen
      /\ Owed' = IF PendingCommit' THEN Rewritten(screen', Coming(Fake)', Answered') ELSE screen'
  BY <1>1, OwedIs, OwedNext DEF OwedByCount
<1>3. CASE Acts(ev)
  <2>1. PICK b \in 0 .. MaxBacks, c \in 0 .. MaxLetters :
          /\ screen' = Rewritten(screen, b, Letters(n, c))
          /\ word' = Rewritten(word, b, Letters(n, c))
    BY <1>3 DEF Acts
  <2>2. ~PendingCommit'
    BY <1>3 DEF Acts
  <2>. QED  BY <1>2, <2>1, <2>2
<1>4. CASE Begins(ev)
  <2>1. PICK b \in 1 .. MaxBacks, c \in 0 .. MaxLetters :
          /\ sent' = Begun(b) /\ Answered' = Letters(n, c) /\ word' = Rewritten(word, b, Letters(n, c))
    BY <1>4 DEF Begins
  <2>2. b \in Nat /\ b \in 0 .. MaxBacks
    BY BoundsAssumption
  <2>3. Coming(Fake)' = b
    <3>1. HowMany(Tail(queue), Fake) = 0 /\ HowMany(sent, Fake) = 0
      BY <1>1, NoFakes
    <3>2. FakeBackSpace \in Fake /\ CommitKey \notin Fake
      BY MyUserType DEF Fake
    <3>3. sent \in Seq(Events)
      BY DEF Types
    <3>4. HowMany(Begun(b), Fake) = HowMany(sent, Fake) + (IF FakeBackSpace \in Fake THEN b ELSE 0)
                                    + IF CommitKey \in Fake THEN 1 ELSE 0
      BY <2>2, <3>3, BegunCount
    <3>5. HowMany(queue', Fake) = 0 /\ HowMany(sent', Fake) = b
      BY <1>1, <2>1, <2>2, <3>1, <3>2, <3>4
    <3>6. Fake' = Fake
      BY DEF Fake, FakeBackSpace
    <3>. QED  BY <2>2, <3>5, <3>6 DEF Coming
  <2>4. PendingCommit' /\ screen' = screen
    BY <1>4 DEF Begins
  <2>. QED  BY <1>2, <2>1, <2>2, <2>3, <2>4
<1>. QED  BY <1>3, <1>4 DEF Starts

\* What is owed stays the same while a commit is carried out.
LEMMA ProceedsText ==
  ASSUME Types, Books, Phases, Types', MyForwardEventHandler, queue # <<>>,
         NEW l, NEW t, Busy(l, t), Proceeds(Head(queue), l, t)
  PROVE  Owed' = Owed /\ word' = word /\ waiting' = waiting
<1>. DEFINE ev == Head(queue)
<1>1. /\ OwedByCount /\ OwedByCount'
      /\ Fake' = Fake
  BY OwedIs, OwedNext DEF Fake, FakeBackSpace
<1>2. /\ Coming(Fake) = HowMany(queue', Fake) + HowMany(sent, Fake) + IF ev \in Fake THEN 1 ELSE 0
      /\ HowMany(queue', Fake) \in Nat /\ HowMany(sent, Fake) \in Nat
      /\ Coming(Fake)' = HowMany(queue', Fake) + HowMany(sent', Fake)
  BY <1>1, FakesLeft DEF Coming
<1>3. ASSUME ev.n = 0, Taken(ev)  PROVE waiting' = waiting
  BY <1>3, TakesOne
<1>4. /\ FakeBackSpace.n = 0 /\ CommitKey.n = 0
      /\ FakeBackSpace \in Fake /\ CommitKey \notin Fake /\ \A e \in MyUser : e \notin Fake
  BY MyUserType DEF FakeBackSpace, CommitKey, Fake
<1>5. /\ screen \in Seq(Numbers) /\ Answered \in Seq(Numbers) /\ sent \in Seq(Events)
      /\ queue' = Tail(queue)
  BY EmptySeq DEF Types, Answered, MyForwardEventHandler
<1>. HIDE DEF ev
<1>6. CASE PendingCommit /\ ev = FakeBackSpace /\ CountsBack(ev)
  <2>1. /\ screen' = Rewritten(screen, 1, <<>>) /\ PendingCommit' /\ Taken(ev)
        /\ Answered' = Answered /\ word' = word /\ sent' = sent
    BY <1>6 DEF CountsBack, flags, engine, Answered
  <2>. DEFINE m == Coming(Fake)'
  <2>2. Coming(Fake) = m + 1 /\ m \in Nat
    BY <1>2, <1>4, <1>6, <2>1
  <2>3. Owed = Rewritten(screen, Coming(Fake), Answered)
    BY <1>1, <1>6 DEF OwedByCount
  <2>4. Owed' = Rewritten(Rewritten(screen, 1, <<>>), m, Answered)
    BY <1>1, <2>1 DEF OwedByCount
  <2>. HIDE DEF m
  <2>5. m + 1 \in Nat \ {0} /\ (m + 1) - 1 = m
    BY <2>2
  <2>6. Rewritten(Rewritten(screen, 1, <<>>), m, Answered) = Rewritten(screen, m + 1, Answered)
    <3>1. Rewritten(Rewritten(screen, 1, <<>>), (m + 1) - 1, Answered) = Rewritten(screen, m + 1, Answered)
      BY <1>5, <2>5, RewrittenBack
    <3>. QED  BY <2>5, <3>1
  <2>7. waiting' = waiting
    BY <1>3, <1>4, <1>6, <2>1
  <2>. QED  BY <2>1, <2>2, <2>3, <2>4, <2>6, <2>7
<1>7. CASE ev \in MyUser /\ Postpone(ev)
  <2>1. /\ screen' = screen /\ PendingCommit' = PendingCommit /\ waiting' = waiting
        /\ Answered' = Answered /\ word' = word /\ sent' = Append(sent, ev)
    BY <1>7 DEF Postpone, engine, Answered
  <2>2. HowMany(Append(sent, ev), Fake) = HowMany(sent, Fake)
    <3>1. ev \in Events /\ ev \notin Fake
      BY <1>4, <1>7, MyUserType
    <3>. QED  BY <1>5, <3>1, CountAppend
  <2>3. Coming(Fake)' = Coming(Fake)
    BY <1>2, <1>4, <1>7, <2>1, <2>2
  <2>. QED  BY <1>1, <2>1, <2>3 DEF OwedByCount
<1>8. CASE PendingCommit /\ ev = CommitKey /\ Commits(ev) /\ Rest = t
  <2>1. ~PendingCommit' /\ screen' = Rewritten(screen, 0, Answered) /\ word' = word /\ Taken(ev)
    BY <1>8 DEF Commits, engine
  <2>2. Rest \in Seq(MyUser)
    BY <1>8 DEF Busy, Split
  <2>3. HowMany(Tail(queue), Fake) = 0 /\ HowMany(sent, Fake) = 0
    BY <2>2, NoFakes
  <2>4. Coming(Fake) = 0
    BY <1>2, <1>4, <1>5, <1>8, <2>3
  <2>5. waiting' = waiting
    BY <1>3, <1>4, <1>8, <2>1
  <2>. QED  BY <1>1, <1>8, <2>1, <2>4, <2>5 DEF OwedByCount
<1>9. CASE ~PendingCommit /\ ev = CommitKey /\ Ends(ev)
  <2>1. ~PendingCommit' /\ screen' = screen /\ word' = word /\ Taken(ev)
    BY <1>9 DEF Ends, engine
  <2>2. waiting' = waiting
    BY <1>3, <1>4, <1>9, <2>1
  <2>. QED  BY <1>1, <1>9, <2>1, <2>2 DEF OwedByCount
<1>. QED  BY <1>6, <1>7, <1>8, <1>9 DEF Proceeds, ev

\* An event takes a key and rewrites what is owed and the engine's text in the
\* same way, or leaves both and the waiting keys alone.
LEMMA TextStep ==
  ASSUME Types, Books, Phases, Calm, OffIsIdle, Types', pace # "any", RoomToPostpone, MyForwardEventHandler
  PROVE  TakesKey \/ (Owed' = Owed /\ word' = word /\ waiting' = waiting)
<1>. DEFINE ev == Head(queue)
            n == ev.n
<1>1. /\ queue # <<>> /\ ev \in Events
      /\ Starts(ev) \/ \E l, t : Busy(l, t) /\ Proceeds(ev, l, t)
  BY HandlerStep
<1>2. CASE Starts(ev)
  <2>1. PICK b \in 0 .. MaxBacks, c \in 0 .. MaxLetters :
          Owed' = Rewritten(Owed, b, Letters(n, c)) /\ word' = Rewritten(word, b, Letters(n, c))
    BY <1>2, StartsText
  <2>2. n # 0 /\ Taken(ev)
    BY <1>2 DEF Starts, MyUser, Acts, Begins
  <2>3. PICK i \in 1 .. Len(waiting) : waiting[i] = n /\ waiting' = RemoveAt(waiting, i)
    BY <1>1, <2>2, TakesOne
  <2>4. pace # "ahead" => i = 1
    <3>1. Len(waiting) \in Nat
      BY LenProperties DEF Types
    <3>2. pace # "ahead" => Len(waiting) <= 1
      BY DEF Phases, Patience, Most
    <3>. QED  BY <3>1, <3>2
  <2>. QED  BY <2>1, <2>3, <2>4 DEF TakesKey
<1>3. ASSUME NEW l, NEW t, Busy(l, t), Proceeds(ev, l, t)
      PROVE  Owed' = Owed /\ word' = word /\ waiting' = waiting
  BY <1>1, <1>3, ProceedsText
<1>. QED  BY <1>1, <1>2, <1>3
-----------------------------------------------------------------------------
\* The inductive invariant.
Inv == pace # "any" => Types /\ Books /\ Phases /\ Calm /\ Owed = word

\* It holds at first.
LEMMA InvInit == Init => Inv
<1>. SUFFICES ASSUME Init  PROVE Inv
  OBVIOUS
<1>1. /\ queue = <<>> /\ sent = <<>> /\ waiting = <<>> /\ typed = 0 /\ PostponeCount = 0
      /\ ~PendingCommit /\ ~PostponeKeyEv /\ screen = <<>> /\ word = <<>> /\ UnikeyBuf = <<>>
      /\ visible /\ enabled /\ notified
  BY DEF Init
<1>2. Types
  BY <1>1, EmptySeq, BoundsAssumption DEF Types, Numbers
<1>3. Books
  <2>1. <<>> \in Seq(Events) /\ \A S : \A i \in 1 .. Len(<<>>) : <<>>[i] \notin S
    BY EmptySeq
  <2>2. \A S : HowMany(<<>>, S) = 0
    BY <2>1, CountSome, Zenon
  <2>. QED  BY <1>1, <2>2 DEF Books, Coming
<1>4. Phases
  <2>1. Q = <<>>
    BY <1>1, EmptySeq, JoinedEmpty DEF Q
  <2>2. Idle
    BY <1>1, <2>1, EmptySeq DEF Idle
  <2>3. Len(waiting) <= Most
    BY <1>1, EmptySeq, BoundsAssumption DEF Most
  <2>. QED  BY <1>1, <2>2, <2>3 DEF Phases, Patience
<1>5. Calm /\ Owed = word
  BY <1>1 DEF Calm, Owed
<1>. QED  BY <1>2, <1>3, <1>4, <1>5 DEF Inv

\* The server's step keeps the method calm.
LEMMA CalmKept ==
  ASSUME Types, Books, Phases, Calm, OffIsIdle, RoomToPostpone, MyForwardEventHandler
  PROVE  Calm'
<1>. DEFINE ev == Head(queue)
<1>1. /\ queue # <<>> /\ UNCHANGED <<visible, enabled, notified, pace>>
      /\ Starts(ev) \/ \E l, t : Busy(l, t) /\ Proceeds(ev, l, t)
  BY HandlerStep
<1>. HIDE DEF ev
<1>2. notified
  BY <1>1 DEF Calm
<1>3. CASE Starts(ev)
  <2>1. PostponeKeyEv' => visible /\ enabled
    BY <1>3 DEF Starts, Acts, Begins
  <2>. QED  BY <1>1, <1>2, <2>1 DEF Calm
<1>4. ASSUME NEW l, NEW t, Busy(l, t), Proceeds(ev, l, t)  PROVE Calm'
  <2>1. visible /\ enabled
    BY <1>4 DEF Busy, Calm
  <2>. QED  BY <1>1, <1>2, <2>1 DEF Calm
<1>. QED  BY <1>1, <1>3, <1>4

\* A key that such a user types joins the keys.
LEMMA PressPhases ==
  ASSUME Types, Books, Phases, Calm, pace # "any", NEW type \in KeyTypes, Press(type)
  PROVE  Phases' /\ Calm'
<1>. DEFINE ev == [type |-> type, n |-> typed + 1]
            k == typed + 1
<1>1. /\ pace' = pace /\ queue' = Append(queue, ev) /\ waiting' = Append(waiting, k)
      /\ UNCHANGED <<sent, PendingCommit, PostponeKeyEv, PostponeCount, visible, enabled, notified>>
  BY DEF Press, settings, flags, switches
<1>2. /\ MyUser' = MyUser /\ Most' = Most
      /\ \A r, l, t : Split(r, l, t)' <=> Split(r, l, t)
  BY <1>1, SameUser
<1>3. k \in 1 .. MaxKeys /\ ev \in Events /\ ev.n # 0 /\ ev.type = type
  BY BoundsAssumption DEF Types, Numbers, Press, Events
<1>4. pace = "waits" \/ type \in {"char", "long"}
  BY DEF Press, MayType
<1>5. ev \in MyUser
  BY <1>3, <1>4 DEF MyUser
<1>6. queue \in Seq(Events) /\ sent \in Seq(Events) /\ waiting \in Seq(1 .. MaxKeys)
  BY DEF Types
<1>7. pace = "waits" => queue = <<>> /\ sent = <<>> /\ notified
  BY DEF Press, MayType, Settled
<1>8. queue = <<>> /\ sent = <<>> => waiting = <<>>
  <2>. SUFFICES ASSUME queue = <<>>, sent = <<>>  PROVE waiting = <<>>
    OBVIOUS
  <2>. DEFINE K == 1 .. MaxKeys
              S == Of(K)
  <2>1. HowMany(queue, S) = 0 /\ HowMany(sent, S) = 0
    <3>. HIDE DEF S
    <3>1. \A q \in Seq(Events) : q = <<>> => \A i \in 1 .. Len(q) : q[i] \notin S
      BY EmptySeq
    <3>2. \A q \in Seq(Events) : q = <<>> => HowMany(q, S) = 0
      BY <3>1, CountSome
    <3>. QED  BY <1>6, <3>2
  <2>2. HowMany(queue, S) + HowMany(sent, S) = HowMany(waiting, K)
    BY DEF Books, Coming
  <2>3. HowMany(waiting, K) = Len(waiting)
    <3>1. \A i \in 1 .. Len(waiting) : waiting[i] \in K
      BY <1>6, ElementOfSeq
    <3>. HIDE DEF K
    <3>. QED  BY <1>6, <3>1, CountAll
  <2>4. Len(waiting) = 0
    BY <2>1, <2>2, <2>3
  <2>. QED  BY <1>6, <2>4, EmptySeq
<1>. HIDE DEF ev, k
<1>9. Len(waiting') <= Most /\ (pace = "waits" => ~PostponeKeyEv)
  <2>1. Len(waiting') = Len(waiting) + 1 /\ Len(waiting) \in Nat /\ Len(<<>>) = 0
    BY <1>1, <1>3, <1>6, AppendProperties, LenProperties, EmptySeq
  <2>2. pace # "ahead" => waiting = <<>>
    BY <1>7, <1>8 DEF Press, MayType
  <2>3. pace = "ahead" => Len(waiting) < MaxAhead
    BY DEF Press, MayType
  <2>4. pace = "waits" => ~PostponeKeyEv
    <3>1. pace = "waits" => Idle
      BY <1>7, QuietIdle
    <3>. QED  BY <3>1 DEF Idle
  <2>. QED  BY <2>1, <2>2, <2>3, <2>4, BoundsAssumption DEF Most
<1>10. Patience'
  BY <1>1, <1>2, <1>9 DEF Patience
<1>11. Q = Joined(queue, sent) /\ Q' = Joined(Append(queue, ev), sent)
  BY <1>1 DEF Q
<1>12. ASSUME Idle  PROVE Phases'
  <2>1. queue \in Seq(MyUser) /\ sent \in Seq(MyUser)
    BY <1>6, <1>11, <1>12, JoinedParts DEF Idle
  <2>2. Append(queue, ev) \in Seq(MyUser)
    BY <1>5, <2>1, AppendProperties
  <2>3. Q' \in Seq(MyUser)
    BY <1>11, <2>1, <2>2, JoinedType
  <2>4. Idle'
    BY <1>1, <1>2, <1>12, <2>3 DEF Idle
  <2>. QED  BY <1>10, <2>4 DEF Phases
<1>13. ASSUME NEW l, NEW t, Busy(l, t)  PROVE Phases'
  <2>1. Split(Joined(queue, sent), l, t) /\ t \in Seq(MyUser) /\ Len(t) \in Nat
    BY <1>11, <1>13, LenProperties DEF Busy, Split
  <2>2. PostponeCount \in Nat /\ Most \in Nat
    BY BoundsAssumption DEF Types, Most
  <2>3. ASSUME NEW m \in Seq(MyUser \cup Fake), Split(Joined(Append(queue, ev), sent), m, t),
               l \in Seq(MyUser) => m \in Seq(MyUser)
        PROVE  Busy(m, t)'
    BY <1>1, <1>2, <1>11, <1>13, <2>3 DEF Busy
  <2>4. ASSUME NEW u \in Seq(MyUser), Split(Joined(Append(queue, ev), sent), l, u), Len(u) = Len(t) + 1
        PROVE  Busy(l, u)'
    <3>1. /\ PendingCommit => PostponeCount <= Len(u)
          /\ ~PendingCommit => l \in Seq(MyUser) /\ PostponeCount <= Most + Len(u)
      BY <1>13, <2>1, <2>2, <2>4 DEF Busy
    <3>. QED  BY <1>1, <1>2, <1>11, <1>13, <2>4, <3>1 DEF Busy
  <2>5. \/ \E m \in Seq(MyUser \cup Fake) :
             /\ Split(Joined(Append(queue, ev), sent), m, t)
             /\ l \in Seq(MyUser) => m \in Seq(MyUser)
        \/ \E u \in Seq(MyUser) : Split(Joined(Append(queue, ev), sent), l, u) /\ Len(u) = Len(t) + 1
    BY <1>5, <1>6, <2>1, PressedInto
  <2>6. \E m, u : Busy(m, u)'
    BY <2>3, <2>4, <2>5, Zenon
  <2>. QED  BY <1>10, <2>6 DEF Phases
<1>14. Calm'
  <2>1. notified
    BY <1>7 DEF Calm
  <2>. QED  BY <1>1, <2>1 DEF Calm
<1>. QED  BY <1>12, <1>13, <1>14 DEF Phases

\* A key that is typed changes no text, and neither does X when it delivers an event.
LEMMA PassingOwes ==
  ASSUME Types, (\E type \in KeyTypes : Press(type)) \/ DeliverSent, Books
  PROVE  /\ Types' /\ Books'
         /\ Owed' = Owed /\ word' = word /\ pace' = pace
<1>1. /\ Types' /\ Books' /\ Coming(Fake)' = Coming(Fake)
  <2>1. CASE DeliverSent
    <3>1. /\ \A S : HowMany(queue', S) + HowMany(sent', S) = HowMany(queue, S) + HowMany(sent, S)
          /\ queue' \in Seq(Events) /\ sent' \in Seq(Events)
      BY <2>1, DeliveryCounts
    <3>2. UNCHANGED <<typed, waiting, PostponeCount, screen, word, UnikeyBuf>>
      BY <2>1 DEF DeliverSent, flags, engine
    <3>3. Types'
      BY <3>1, <3>2 DEF Types
    <3>4. Books'
      BY <3>1, <3>2 DEF Books, Coming, Of
    <3>5. Fake' = Fake
      BY DEF Fake, FakeBackSpace
    <3>. QED  BY <3>1, <3>3, <3>4, <3>5 DEF Coming
  <2>2. ASSUME NEW type \in KeyTypes, Press(type)
        PROVE  Types' /\ Books' /\ Coming(Fake)' = Coming(Fake)
    <3>1. Types' /\ Books' /\ HowMany(queue', Fake) = HowMany(queue, Fake)
      BY <2>2, PressKeeps DEF Fake
    <3>2. sent' = sent /\ Fake' = Fake
      BY <2>2 DEF Press, Fake, FakeBackSpace
    <3>. QED  BY <3>1, <3>2 DEF Coming
  <2>. QED  BY <2>1, <2>2
<1>2. UNCHANGED <<PendingCommit, DataCommit, UnikeyBuf, screen, word, pace>>
  BY DEF Press, DeliverSent, flags, engine, settings
<1>3. OwedByCount /\ OwedByCount'
  BY <1>1, OwedIs, OwedNext
<1>. QED  BY <1>1, <1>2, <1>3 DEF OwedByCount, Answered

\* X delivers an event.
LEMMA DeliveryPhases ==
  ASSUME Types, Phases, Calm, DeliverSent
  PROVE  Phases' /\ Calm'
<1>1. /\ queue \in Seq(Events) /\ sent \in Seq(Events) /\ sent # <<>>
      /\ queue' = Append(queue, Head(sent)) /\ sent' = Tail(sent)
  BY DEF Types, DeliverSent
<1>2. /\ UNCHANGED <<waiting, PendingCommit, PostponeKeyEv, PostponeCount, pace>>
      /\ UNCHANGED <<visible, enabled, notified>>
  BY DEF DeliverSent, flags, settings, switches
<1>3. Q' = Q
  BY <1>1, DeliveredSame DEF Q
<1>4. /\ MyUser' = MyUser /\ Most' = Most
      /\ \A r, l, t : Split(r, l, t)' <=> Split(r, l, t)
  BY <1>2, SameUser
<1>5. Idle' <=> Idle
  BY <1>2, <1>3, <1>4 DEF Idle
<1>6. \A l, t : Busy(l, t)' <=> Busy(l, t)
  BY <1>2, <1>3, <1>4 DEF Busy
<1>7. Patience'
  BY <1>2, <1>4 DEF Phases, Patience
<1>8. notified
  BY <1>1 DEF Calm
<1>. QED  BY <1>2, <1>5, <1>6, <1>7, <1>8 DEF Phases, Calm

\* What is changed when nothing is on its way.
LEMMA QuietKept ==
  ASSUME Types, Books, Phases, Calm, Owed = word, pace = "waits", queue = <<>>, sent = <<>>,
         UNCHANGED OutsideWorld, resetState \/ UNCHANGED flags
  PROVE  Types' /\ Books' /\ Phases' /\ Calm' /\ Owed' = word' /\ Owed' = Owed /\ waiting' = waiting
<1>1. UNCHANGED <<queue, sent, UnikeyBuf, word, screen, typed, waiting, pace>>
  BY DEF OutsideWorld, settings
<1>2. Idle
  BY QuietIdle
<1>3. ~PendingCommit' /\ ~PostponeKeyEv' /\ PostponeCount' \in Nat
  BY <1>2 DEF Idle, resetState, flags, Types
<1>4. MyUser' = MyUser /\ Most' = Most /\ Q' = Q
  BY <1>1, SameUser DEF Q
<1>5. Idle'
  BY <1>2, <1>3, <1>4 DEF Idle
<1>6. Phases'
  BY <1>1, <1>3, <1>4, <1>5 DEF Phases, Patience
<1>7. Types' /\ Books'
  BY <1>1, <1>3 DEF Types, Books, Coming, Of
<1>8. Calm'
  BY <1>1, <1>3 DEF Calm
<1>9. Owed = screen /\ Owed' = screen'
  BY <1>2, <1>3 DEF Owed, Idle
<1>. QED  BY <1>1, <1>6, <1>7, <1>8, <1>9

\* It is kept by what leaves all of it alone.
LEMMA StutterKept ==
  ASSUME Inv, UNCHANGED vars
  PROVE  Inv' /\ Owed' = Owed /\ waiting' = waiting
<1>1. UNCHANGED <<queue, sent, UnikeyBuf, word, screen, typed, waiting, pace, PendingCommit,
                  PostponeKeyEv, PostponeCount, DataCommit, visible, enabled, notified>>
  BY DEF vars, flags, engine, switches, settings
<1>2. MyUser' = MyUser /\ Most' = Most /\ \A r, l, t : Split(r, l, t)' <=> Split(r, l, t)
  BY <1>1, SameUser
<1>3. Q' = Q /\ (Idle' <=> Idle)
  BY <1>1, <1>2 DEF Q, Idle
<1>4. \A l, t : Busy(l, t)' <=> Busy(l, t)
  BY <1>1, <1>2, <1>3 DEF Busy
<1>5. Phases' <=> Phases
  BY <1>1, <1>2, <1>3, <1>4 DEF Phases, Patience
<1>6. Owed' = Owed
  BY <1>1 DEF Owed
<1>7. (Types' <=> Types) /\ (Books' <=> Books) /\ (Calm' <=> Calm)
  BY <1>1 DEF Types, Books, Coming, Of, Calm
<1>. QED  BY <1>1, <1>5, <1>6, <1>7 DEF Inv

\* Every step keeps it, and takes a key or none.
LEMMA InvStep ==
  ASSUME RoomToPostpone, Inv, OffIsIdle, [Next]_vars
  PROVE  /\ Inv'
         /\ pace # "any" => \/ TakesKey
                            \/ \E type \in KeyTypes : Press(type)
                            \/ Owed' = Owed /\ waiting' = waiting
<1>. DEFINE Does == \/ TakesKey
                    \/ \E type \in KeyTypes : Press(type)
                    \/ Owed' = Owed /\ waiting' = waiting
<1>1. CASE UNCHANGED vars
  BY <1>1, StutterKept
<1>2. pace' = pace
  BY DEF Next, MyForwardEventHandler, DeliverSent, Press, UnsetFocus, MethodChanged, SetMethod,
         reloadConfig, VisibleChanged, OutsideWorld, settings, vars
<1>3. SUFFICES ASSUME pace # "any", Next
               PROVE  Types' /\ Books' /\ Phases' /\ Calm' /\ Owed' = word' /\ Does
  BY <1>1, <1>2 DEF Inv
<1>4. Types /\ Books /\ Phases /\ Calm /\ Owed = word
  BY <1>3 DEF Inv
<1>5. CASE MyForwardEventHandler
  <2>1. Types' /\ Books' /\ Phases' /\ Calm'
    BY <1>4, <1>5, TypesKept, BooksKept, PhasesKept, CalmKept
  <2>2. TakesKey \/ (Owed' = Owed /\ word' = word /\ waiting' = waiting)
    BY <1>3, <1>4, <1>5, <2>1, TextStep
  <2>3. Owed' = word'
    BY <1>4, <2>2 DEF TakesKey
  <2>. QED  BY <2>1, <2>2, <2>3
<1>6. CASE \E type \in KeyTypes : Press(type)
  BY <1>3, <1>4, <1>6, PassingOwes, PressPhases
<1>7. CASE DeliverSent
  <2>1. waiting' = waiting
    BY <1>7 DEF DeliverSent
  <2>. QED  BY <1>4, <1>7, <2>1, PassingOwes, DeliveryPhases
<1>8. CASE UnsetFocus \/ MethodChanged \/ \E on \in BOOLEAN : SetMethod(on) \/ reloadConfig(on) \/ VisibleChanged(on)
  <2>1. UNCHANGED OutsideWorld /\ (resetState \/ UNCHANGED flags)
    BY <1>8 DEF UnsetFocus, MethodChanged, SetMethod, reloadConfig, VisibleChanged
  <2>2. pace = "waits" /\ queue = <<>> /\ sent = <<>>
    <3>1. CASE MethodChanged
      BY <1>4, <3>1, <1>3 DEF MethodChanged, Calm
    <3>2. CASE UnsetFocus \/ \E on \in BOOLEAN : SetMethod(on) \/ reloadConfig(on) \/ VisibleChanged(on)
      <4>1. MayDisturb
        BY <3>2 DEF UnsetFocus, SetMethod, reloadConfig, VisibleChanged
      <4>. QED  BY <1>3, <4>1 DEF MayDisturb, Settled
    <3>. QED  BY <1>8, <3>1, <3>2
  <2>. QED  BY <1>4, <2>1, <2>2, QuietKept
<1>. QED  BY <1>3, <1>5, <1>6, <1>7, <1>8 DEF Next
-----------------------------------------------------------------------------
\* For a user who waits before BackSpace, Return and shortcuts the BackSpaces and the
\* commit that are under way lead to the text the engine believes in, however
\* far ahead text is typed, as long as twice as many keys may be postponed.
THEOREM AlwaysOwesWord ==
  ASSUME RoomToPostpone
  PROVE  Spec => []OwesWord
<1>1. Inv => OwesWord
  BY DEF Inv, OwesWord
<1>2. Inv /\ OffIsIdle /\ [Next]_vars => Inv'
  BY InvStep
<1>. QED  BY <1>1, <1>2, InvInit, AlwaysOffIsIdle, PTL DEF Spec

\* The steps of KeysAtOnce, for the text owed.
LEMMA AtOnceMeans ==
  /\ AtOnce!Next <=> \/ \E n \in 1 .. MaxKeys : /\ waiting' = Append(waiting, n)
                                                /\ (pace # "ahead")' = (pace # "ahead") /\ Owed' = Owed
                     \/ \E i \in DOMAIN waiting :
                          /\ pace # "ahead" => i = 1
                          /\ waiting' = RemoveAt(waiting, i)
                          /\ \E b \in 0 .. MaxBacks, c \in 0 .. MaxLetters :
                               Owed' = Rewritten(Owed, b, Letters(waiting[i], c))
                          /\ (pace # "ahead")' = (pace # "ahead")
  BY DEF AtOnce!Next, AtOnce!Type, AtOnce!Take, AtOnce!Rewritten, AtOnce!Letters, RemoveAt, AtOnce!RemoveAt, Rewritten, Letters

\* Every step takes a key at once, is one of typing, or changes neither.
LEMMA TakesStep ==
  ASSUME RoomToPostpone
  PROVE  Inv /\ OffIsIdle /\ [Next]_vars => [pace # "any" => AtOnce!Next]_<<waiting, Owed>>
<1>. SUFFICES ASSUME Inv, OffIsIdle, [Next]_vars, pace # "any", ~UNCHANGED <<waiting, Owed>>
              PROVE  AtOnce!Next
  OBVIOUS
<1>1. TakesKey \/ \E type \in KeyTypes : Press(type)
  BY InvStep
<1>2. /\ Types /\ Books
      /\ DOMAIN waiting = 1 .. Len(waiting)
  BY LenProperties DEF Inv, Types
<1>3. pace' = pace
  BY DEF Next, MyForwardEventHandler, DeliverSent, Press, UnsetFocus, MethodChanged, SetMethod,
         reloadConfig, VisibleChanged, OutsideWorld, settings, vars
<1>4. CASE TakesKey
  BY <1>2, <1>3, <1>4, AtOnceMeans DEF TakesKey
<1>5. ASSUME NEW type \in KeyTypes, Press(type)  PROVE AtOnce!Next
  <2>1. Owed' = Owed
    BY <1>2, <1>5, PassingOwes
  <2>3. waiting' = Append(waiting, typed + 1) /\ typed < MaxKeys
    BY <1>5 DEF Press
  <2>4. typed \in 0 .. MaxKeys
    BY <1>2 DEF Types, Numbers
  <2>2. waiting' = Append(waiting, typed + 1) /\ typed + 1 \in 1 .. MaxKeys
    BY <2>3, <2>4, BoundsAssumption
  <2>. QED  BY <1>3, <2>1, <2>2, AtOnceMeans
<1>. QED  BY <1>1, <1>4, <1>5

\* The server implements KeysAtOnce: for such a user each key is taken once, whether
\* it is postponed or not, and what it does to the text is never taken apart.
THEOREM TakesKeys ==
  ASSUME RoomToPostpone
  PROVE  Spec => TakesKeysAtOnce
<1>1. Init => AtOnce!Init
  BY DEF Init, AtOnce!Init, Owed
<1>2. Inv /\ OffIsIdle /\ [Next]_vars => Inv'
  BY InvStep
<1>. QED  BY <1>1, <1>2, TakesStep, InvInit, AlwaysOffIsIdle, PTL DEF Spec, TakesKeysAtOnce
=============================================================================
