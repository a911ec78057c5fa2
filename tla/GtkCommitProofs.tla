--------------------------- MODULE GtkCommitProofs --------------------------
(***************************************************************************)
(* What the input module of GTK keeps to, for every user and any number of *)
(* keys: the keys it makes wait, wait for a Pause that is on its way, and  *)
(* switched off the engine has no word; the BackSpaces it counts are those *)
(* that come, the text that is owed is the engine's, and each key is taken *)
(* once and its effect is never taken apart.                               *)
(***************************************************************************)
EXTENDS GtkCommit, QueueLemmas, SequenceTheorems, TLAPS

HasPause(q) == \E i \in 1 .. Len(q) : q[i].type = "Pause"

QueueOK == queue \in Seq(Events) /\ typed \in 0 .. MaxKeys

LEMMA OwnEvents ==
  /\ PauseKey \in Events /\ PauseKey.type = "Pause"
  /\ \A b \in Nat : Fakes(b) \in Seq(Events)
<1>1. PauseKey \in Events /\ FakeBackSpace \in Events
  BY BoundsAssumption DEF PauseKey, FakeBackSpace, Events, KeyTypes, TextTypes
<1>2. ASSUME NEW b \in Nat PROVE Fakes(b) \in Seq(Events)
  BY <1>1, IsASeq DEF Fakes
<1>. QED  BY <1>1, <1>2 DEF PauseKey

\* A queue keeps its Pause when events are put behind it.
LEMMA ConcatKeeps ==
  ASSUME NEW q \in Seq(Events), NEW r \in Seq(Events)
  PROVE  q \o r \in Seq(Events) /\ (HasPause(q) => HasPause(q \o r))
<1>1. /\ q \o r \in Seq(Events) /\ Len(q \o r) = Len(q) + Len(r)
      /\ Len(q) \in Nat /\ Len(r) \in Nat
      /\ \A i \in 1 .. Len(q) : (q \o r)[i] = q[i]
  BY ConcatProperties, LenProperties
<1>2. \A i \in 1 .. Len(q) : i \in 1 .. Len(q \o r)
  BY <1>1
<1>. QED  BY <1>1, <1>2 DEF HasPause

LEMMA AppendKeeps ==
  ASSUME NEW q \in Seq(Events), NEW e \in Events
  PROVE  /\ Append(q, e) \in Seq(Events)
         /\ HasPause(q) \/ e.type = "Pause" => HasPause(Append(q, e))
<1>1. /\ Append(q, e) \in Seq(Events) /\ Len(Append(q, e)) = Len(q) + 1 /\ Len(q) \in Nat
      /\ Append(q, e)[Len(q) + 1] = e /\ \A i \in 1 .. Len(q) : Append(q, e)[i] = q[i]
  BY AppendProperties
<1>2. 1 .. Len(Append(q, e)) = (1 .. Len(q)) \cup {Len(q) + 1}
  BY <1>1
<1>. QED  BY <1>1, <1>2 DEF HasPause

\* A queue keeps its Pause when another event is taken from it.
LEMMA TailKeeps ==
  ASSUME NEW q \in Seq(Events), q # <<>>
  PROVE  /\ Tail(q) \in Seq(Events) /\ Head(q) \in Events
         /\ HasPause(q) /\ Head(q).type # "Pause" => HasPause(Tail(q))
<1>1. /\ Tail(q) \in Seq(Events) /\ Head(q) \in Events
      /\ Len(Tail(q)) = Len(q) - 1 /\ Len(q) \in Nat /\ Head(q) = q[1]
      /\ \A i \in 1 .. Len(Tail(q)) : Tail(q)[i] = q[i + 1]
  BY HeadTailProperties
<1>2. ASSUME NEW i \in 1 .. Len(q), q[i].type = "Pause", Head(q).type # "Pause"
      PROVE  HasPause(Tail(q))
  <2>1. i # 1
    BY <1>1, <1>2
  <2>2. i \in Int /\ i - 1 \in 1 .. Len(Tail(q)) /\ (i - 1) + 1 = i
    BY <1>1, <2>1
  <2>3. Tail(q)[i - 1] = q[i]
    BY <1>1, <2>2
  <2>. QED  BY <1>2, <2>2, <2>3 DEF HasPause
<1>. QED  BY <1>1, <1>2 DEF HasPause

\* An answer that deletes letters puts a Pause behind everything.
LEMMA PutBackspacesWaits ==
  ASSUME QueueOK, queue # <<>>, NEW b \in Nat, PutBackspaces(b)
  PROVE  queue' \in Seq(Events) /\ HasPause(queue')
<1>1. Tail(queue) \in Seq(Events) /\ Fakes(b) \in Seq(Events) /\ PauseKey \in Events
  BY TailKeeps, OwnEvents DEF QueueOK
<1>2. Tail(queue) \o Fakes(b) \in Seq(Events)
  BY <1>1, ConcatKeeps
<1>3. queue' = Append(Tail(queue) \o Fakes(b), PauseKey)
  <2>. DEFINE t == Tail(queue) \o Fakes(b)
  <2>1. queue' = t \o <<PauseKey>>
    BY DEF PutBackspaces
  <2>. HIDE DEF t
  <2>2. t \o <<PauseKey>> = Append(t, PauseKey)
    BY <1>1, <1>2, AppendIsConcat DEF t
  <2>. QED  BY <2>1, <2>2 DEF t
<1>. QED  BY <1>1, <1>2, <1>3, AppendKeeps, OwnEvents
-----------------------------------------------------------------------------
\* The Pause is still there after every key.
LEMMA HandlerWaits ==
  ASSUME QueueOK, PauseComes, filter_key
  PROVE  QueueOK' /\ PauseComes'
<1>. DEFINE ev == Head(queue)
<1>1. /\ queue # <<>> /\ typed' = typed
      /\ Tail(queue) \in Seq(Events) /\ ev \in Events
      /\ HasPause(queue) /\ ev.type # "Pause" => HasPause(Tail(queue))
  BY TailKeeps DEF filter_key, QueueOK
<1>2. PendingBuf => HasPause(queue)
  BY LenProperties DEF PauseComes, HasPause, QueueOK
<1>3. SUFFICES queue' \in Seq(Events) /\ (PendingBuf' => HasPause(queue'))
  BY <1>1, LenProperties DEF PauseComes, HasPause, QueueOK
<1>4. ASSUME queue' = Tail(queue), PendingBuf' = PendingBuf, ev.type # "Pause" \/ ~PendingBuf
      PROVE  queue' \in Seq(Events) /\ (PendingBuf' => HasPause(queue'))
  BY <1>1, <1>2, <1>4
<1>5. CASE ev.type \in {"hold", "release"} /\ checkSwitchKey(ev)
  BY <1>4, <1>5 DEF checkSwitchKey, commit
<1>6. CASE ev.type \in Shortcuts /\ checkShortcuts(ev)
  <2>1. ev.type # "Pause"
    BY <1>6 DEF Shortcuts
  <2>2. CASE queue' = Tail(queue) /\ UNCHANGED commit
    BY <1>4, <2>1, <2>2 DEF commit
  <2>3. CASE \E b \in 1 .. MaxBacks : PutBackspaces(b)
    <3>1. PICK b \in 1 .. MaxBacks : PutBackspaces(b)
      BY <2>3
    <3>2. b \in Nat
      BY BoundsAssumption
    <3>. QED  BY <1>1, <3>1, <3>2, PutBackspacesWaits
  <2>. QED  BY <1>6, <2>2, <2>3 DEF checkShortcuts, restoreKeys, commitString
<1>7. CASE ev.type = "Pause" /\ PauseBack(ev)
  BY <1>1, <1>4, <1>7 DEF PauseBack, PassOn, commit
<1>8. CASE ev.type = "BackSpace" /\ BackSpaceKey(ev)
  <2>1. CASE queue' = Tail(queue) /\ PendingBuf' = PendingBuf
    BY <1>4, <1>8, <2>1
  <2>2. CASE \E b \in 1 .. MaxBacks : queue' = Tail(queue) \o Fakes(b - 1) /\ PendingBuf' = PendingBuf
    <3>1. PICK b \in 1 .. MaxBacks : queue' = Tail(queue) \o Fakes(b - 1) /\ PendingBuf' = PendingBuf
      BY <2>2
    <3>2. b - 1 \in Nat
      BY BoundsAssumption
    <3>3. Fakes(b - 1) \in Seq(Events)
      BY <3>2, OwnEvents
    <3>. QED  BY <1>1, <1>2, <1>8, <3>1, <3>3, ConcatKeeps
  <2>. QED  BY <1>8, <2>1, <2>2 DEF BackSpaceKey, commit
<1>9. CASE ev.type \in {"char", "other"} /\ OrdinaryKey(ev)
  <2>1. CASE PutBack(ev)
    <3>1. queue' = Append(Tail(queue), ev) /\ PendingBuf' = PendingBuf
      BY <2>1 DEF PutBack, commit
    <3>. QED  BY <1>1, <1>2, <1>9, <3>1, AppendKeeps
  <2>2. CASE PassOn(ev) \/ OtherKey(ev)
    BY <1>4, <1>9, <2>2 DEF PassOn, OtherKey, commit
  <2>3. CASE CharKey(ev)
    <3>1. CASE queue' = Tail(queue) /\ UNCHANGED commit
      BY <1>4, <1>9, <3>1 DEF commit
    <3>2. CASE \E b \in 0 .. MaxBacks : PutBackspaces(b)
      <4>1. PICK b \in 0 .. MaxBacks : PutBackspaces(b)
        BY <3>2
      <4>2. b \in Nat
        BY BoundsAssumption
      <4>. QED  BY <1>1, <4>1, <4>2, PutBackspacesWaits
    <3>. QED  BY <2>3, <3>1, <3>2 DEF CharKey, commitString
  <2>. QED  BY <1>9, <2>1, <2>2, <2>3 DEF OrdinaryKey
<1>. QED  BY <1>5, <1>6, <1>7, <1>8, <1>9 DEF filter_key

\* A key of the user's joins the queue, behind the Pause.
LEMMA PressWaits ==
  ASSUME QueueOK, PauseComes, NEW type \in KeyTypes, Press(type)
  PROVE  QueueOK' /\ PauseComes'
<1>. DEFINE ev == [type |-> type, n |-> typed + 1]
<1>1. /\ queue' = Append(queue, ev) /\ typed' = typed + 1 /\ typed < MaxKeys
      /\ PendingBuf' = PendingBuf
  BY DEF Press, commit
<1>2. ev \in Events /\ typed' \in 0 .. MaxKeys
  BY <1>1, BoundsAssumption DEF QueueOK, Events
<1>3. queue' \in Seq(Events) /\ (HasPause(queue) => HasPause(queue'))
  BY <1>1, <1>2, AppendKeeps DEF QueueOK
<1>. QED  BY <1>1, <1>2, <1>3, LenProperties DEF PauseComes, HasPause, QueueOK

\* While keys are made to wait, a Pause is in the queue that will end it, for every
\* user and any number of keys.
THEOREM AlwaysPauseComes == Spec => []PauseComes
<1>1. Init => QueueOK /\ PauseComes
  BY BoundsAssumption DEF Init, QueueOK, PauseComes
<1>2. QueueOK /\ PauseComes /\ [Next]_vars => QueueOK' /\ PauseComes'
  <2>. SUFFICES ASSUME QueueOK, PauseComes, [Next]_vars
                PROVE  QueueOK' /\ PauseComes'
    OBVIOUS
  <2>1. CASE filter_key
    BY <2>1, HandlerWaits
  <2>2. CASE \E type \in KeyTypes : Press(type)
    BY <2>2, PressWaits
  <2>3. CASE \/ focus_out \/ reset \/ MethodChanged \/ VisibleChanged
             \/ \E on \in BOOLEAN : SetMethod(on)
    <3>1. UNCHANGED <<queue, typed, PendingBuf>>
      BY <2>3 DEF focus_out, reset, MethodChanged, VisibleChanged, SetMethod, OutsideWorld, commit
    <3>. QED  BY <3>1 DEF QueueOK, PauseComes
  <2>4. CASE UNCHANGED vars
    BY <2>4 DEF vars, commit, QueueOK, PauseComes
  <2>. QED  BY <2>1, <2>2, <2>3, <2>4 DEF Next
<1>. QED  BY <1>1, <1>2, PTL DEF Spec
-----------------------------------------------------------------------------
\* Switched off, the engine knows no letters of the text, for every user and any
\* number of keys.
THEOREM AlwaysOffIsIdle == Spec => []OffIsIdle
<1>1. Init => OffIsIdle
  BY DEF Init, OffIsIdle
<1>2. OffIsIdle /\ [Next]_vars => OffIsIdle'
  <2>. SUFFICES ASSUME OffIsIdle, [Next]_vars, ~enabled'  PROVE own' = 0
    BY DEF OffIsIdle
  <2>1. ASSUME own' = own \/ own' = 0, enabled' = enabled \/ own' = 0
        PROVE  own' = 0
    BY <2>1 DEF OffIsIdle
  <2>2. ASSUME Switch \/ SetUp \/ reloadConfig
        PROVE  own' = 0
    BY <2>1, <2>2 DEF Switch, SetUp, reloadConfig, switches
  <2>3. CASE filter_key
    <3>. DEFINE ev == Head(queue)
    <3>1. CASE checkSwitchKey(ev)
      BY <2>1, <2>2, <3>1 DEF checkSwitchKey, switches
    <3>2. CASE checkShortcuts(ev)
      <4>1. CASE restoreKeys(ev) /\ UNCHANGED switches
        BY <2>1, <4>1 DEF restoreKeys, switches, engine
      <4>. QED  BY <2>2, <3>2, <4>1 DEF checkShortcuts
    <3>3. CASE UNCHANGED switches
      <4>1. CASE PauseBack(ev)
        BY <2>1, <3>3, <4>1 DEF PauseBack, PassOn, switches, engine
      <4>2. CASE BackSpaceKey(ev)
        <5>1. own > 0 => enabled
          BY DEF OffIsIdle
        <5>. QED  BY <2>1, <3>3, <4>2, <5>1 DEF BackSpaceKey, switches, engine
      <4>3. CASE OrdinaryKey(ev)
        BY <2>1, <3>3, <4>3 DEF OrdinaryKey, PutBack, PassOn, OtherKey, switches, engine
      <4>. QED  BY <2>3, <3>1, <3>2, <4>1, <4>2, <4>3 DEF filter_key
    <3>. QED  BY <2>3, <3>1, <3>2, <3>3 DEF filter_key
  <2>4. CASE \E type \in KeyTypes : Press(type)
    BY <2>1, <2>4 DEF Press, switches, engine
  <2>5. CASE \/ focus_out \/ reset \/ MethodChanged \/ VisibleChanged
             \/ \E on \in BOOLEAN : SetMethod(on)
    BY <2>1, <2>5 DEF focus_out, reset, MethodChanged, VisibleChanged, SetMethod
  <2>6. CASE UNCHANGED vars
    BY <2>1, <2>6 DEF vars, switches, engine
  <2>. QED  BY <2>3, <2>4, <2>5, <2>6 DEF Next
<1>. QED  BY <1>1, <1>2, PTL DEF Spec

-----------------------------------------------------------------------------

(* The kinds of steps the filter takes, as far as the queue and the text go. *)

Numbers == 0 .. MaxKeys

\* What the variables hold.
Types ==
  /\ queue \in Seq(Events) /\ waiting \in Seq(1 .. MaxKeys)
  /\ typed \in Numbers /\ BackCount \in Nat
  /\ screen \in Seq(Numbers) /\ word \in Seq(Numbers) /\ UnikeyBuf \in Seq(Numbers)

\* The BackSpaces that are put in the queue are that many.
LEMMA FakesCount ==
  ASSUME NEW b \in Nat
  PROVE  /\ Fakes(b) \in Seq({FakeBackSpace}) /\ Fakes(b) \in Seq(Events) /\ Len(Fakes(b)) = b
         /\ \A S : HowMany(Fakes(b), S) = IF FakeBackSpace \in S THEN b ELSE 0
<1>1. Fakes(b) \in Seq({FakeBackSpace}) /\ Len(Fakes(b)) = b
  BY DEF Fakes
<1>2. \A i \in 1 .. Len(Fakes(b)) : Fakes(b)[i] = FakeBackSpace
  BY <1>1, ElementOfSeq
<1>3. ASSUME NEW S, FakeBackSpace \in S  PROVE HowMany(Fakes(b), S) = b
  <2>. \A i \in 1 .. Len(Fakes(b)) : Fakes(b)[i] \in S
    BY <1>2, <1>3
  <2>. QED  BY <1>1, CountAll
<1>4. ASSUME NEW S, FakeBackSpace \notin S  PROVE HowMany(Fakes(b), S) = 0
  <2>. \A i \in 1 .. Len(Fakes(b)) : Fakes(b)[i] \notin S
    BY <1>2, <1>4
  <2>. QED  BY <1>1, CountSome
<1>. QED  BY <1>1, <1>3, <1>4, OwnEvents

\* What PutBackspaces makes of the queue.
Begun(q, b) == q \o Fakes(b) \o <<PauseKey>>

LEMMA PutCount ==
  ASSUME NEW q \in Seq(Events), NEW b \in Nat, NEW S
  PROVE  /\ Begun(q, b) \in Seq(Events)
         /\ HowMany(Begun(q, b), S) = HowMany(q, S) + (IF FakeBackSpace \in S THEN b ELSE 0)
                                       + IF PauseKey \in S THEN 1 ELSE 0
<1>. DEFINE f == Fakes(b)
            p == <<PauseKey>>
<1>1. f \in Seq(Events) /\ HowMany(f, S) = IF FakeBackSpace \in S THEN b ELSE 0
  BY FakesCount
<1>2. p \in Seq(Events) /\ HowMany(p, S) = IF PauseKey \in S THEN 1 ELSE 0
  BY OwnEvents, CountOne
<1>. HIDE DEF f, p
<1>3. q \o f \in Seq(Events) /\ HowMany(q \o f, S) = HowMany(q, S) + HowMany(f, S)
  BY <1>1, CountConcat, ConcatProperties
<1>4. /\ (q \o f) \o p \in Seq(Events)
      /\ HowMany((q \o f) \o p, S) = HowMany(q \o f, S) + HowMany(p, S)
  BY <1>2, <1>3, CountConcat, ConcatProperties
<1>5. Begun(q, b) = (q \o f) \o p
  BY DEF Begun, f, p
<1>. QED  BY <1>1, <1>2, <1>3, <1>4, <1>5

\* A key that is passed on rewrites the end of any text in the same way.
LEMMA ForwardedIs ==
  ASSUME NEW t \in Seq(Numbers), NEW ev \in Events
  PROVE  /\ Forwarded(t, ev) \in Seq(Numbers)
         /\ \E b \in 0 .. MaxBacks, c \in 0 .. MaxLetters : \A u \in Seq(Numbers) :
              Forwarded(u, ev) = Rewritten(u, b, Letters(ev.n, c))
<1>1. ev.n \in Numbers
  BY DEF Events, Numbers
<1>2. Letters(ev.n, 0) = <<>> /\ Letters(ev.n, 1) \in Seq(Numbers)
  BY <1>1, LettersType
<1>3. 0 \in 0 .. MaxBacks /\ 1 \in 0 .. MaxBacks /\ 0 \in 0 .. MaxLetters /\ 1 \in 0 .. MaxLetters
  BY BoundsAssumption
<1>4. CASE ev.type = "BackSpace"
  <2>1. \A u \in Seq(Numbers) :
          Forwarded(u, ev) = Rewritten(u, 1, Letters(ev.n, 0)) /\ Forwarded(u, ev) \in Seq(Numbers)
    BY <1>2, <1>4, RewrittenType DEF Forwarded
  <2>. QED  BY <1>3, <2>1
<1>5. CASE ev.type # "BackSpace" /\ ev.type \in TextTypes
  <2>1. \A u \in Seq(Numbers) :
          Forwarded(u, ev) = Rewritten(u, 0, Letters(ev.n, 1)) /\ Forwarded(u, ev) \in Seq(Numbers)
    <3>. SUFFICES ASSUME NEW u \in Seq(Numbers)
                  PROVE  /\ Forwarded(u, ev) = Rewritten(u, 0, Letters(ev.n, 1))
                         /\ Forwarded(u, ev) \in Seq(Numbers)
      OBVIOUS
    <3>1. Append(u, ev.n) = Rewritten(u, 0, Letters(ev.n, 1)) /\ Append(u, ev.n) \in Seq(Numbers)
      BY <1>1, LettersType, AppendProperties
    <3>. QED  BY <1>5, <3>1 DEF Forwarded
  <2>. QED  BY <1>3, <2>1
<1>6. CASE ev.type # "BackSpace" /\ ev.type \notin TextTypes
  <2>1. \A u \in Seq(Numbers) :
          Forwarded(u, ev) = Rewritten(u, 0, Letters(ev.n, 0)) /\ Forwarded(u, ev) \in Seq(Numbers)
    <3>. SUFFICES ASSUME NEW u \in Seq(Numbers)
                  PROVE  Forwarded(u, ev) = Rewritten(u, 0, Letters(ev.n, 0)) /\ Forwarded(u, ev) \in Seq(Numbers)
      OBVIOUS
    <3>1. Rewritten(u, 0, <<>>) = u
      BY 0 \in Nat, RewrittenType
    <3>. QED  BY <1>2, <1>6, <3>1 DEF Forwarded
  <2>. QED  BY <1>3, <2>1
<1>. QED  BY <1>4, <1>5, <1>6

\* A key that is taken.
LEMMA TakenType ==
  ASSUME waiting \in Seq(1 .. MaxKeys), NEW ev, Taken(ev)
  PROVE  waiting' \in Seq(1 .. MaxKeys)
  BY RemoveFirstIsRemoveAt, RemoveAtProperties DEF Taken

\* Every answer rewrites the end of a text.
LEMMA AnswerType ==
  ASSUME NEW ev \in Events, NEW b \in Nat, NEW c \in Nat, NEW t \in Seq(Numbers)
  PROVE  Letters(ev.n, c) \in Seq(Numbers) /\ Rewritten(t, b, Letters(ev.n, c)) \in Seq(Numbers)
<1>1. ev.n \in Numbers
  BY DEF Events, Numbers
<1>2. Letters(ev.n, c) \in Seq(Numbers)
  BY <1>1, LettersType
<1>. QED  BY <1>2, RewrittenType
-----------------------------------------------------------------------------
(* What the filter does with a key, as far as the queue and the text go. *)

\* The text is rewritten at once.
Acts(ev) ==
  /\ ev.type = "BackSpace" => BackCount = 0
  /\ ev.type \in {"Pause", "char", "other"} => ~PendingBuf
  /\ Taken(ev) /\ queue' = Tail(queue) /\ UNCHANGED commit
  /\ \E b \in 0 .. MaxBacks, c \in 0 .. MaxLetters :
       /\ screen' = Rewritten(screen, b, Letters(ev.n, c))
       /\ word' = Rewritten(word, b, Letters(ev.n, c))
  /\ UnikeyBuf' \in Seq(Numbers)

\* It will be, at the Pause.
Promises(ev) ==
  /\ ev.type = "restore" \/ (ev.type = "char" /\ ~PendingBuf)
  /\ Taken(ev)
  /\ \E b \in 1 .. MaxBacks, c \in 0 .. MaxLetters :
       /\ PutBackspaces(b)
       /\ UnikeyBuf' = Letters(ev.n, c) /\ word' = Rewritten(word, b, Letters(ev.n, c))

\* A BackSpace deletes a letter now and others after it.
Deletes(ev) ==
  /\ ev.type = "BackSpace" /\ BackCount = 0
  /\ Taken(ev)
  /\ screen' = Rewritten(screen, 1, <<>>) /\ UNCHANGED PendingBuf
  /\ \E b \in 1 .. MaxBacks, c \in 0 .. MaxLetters :
       /\ queue' = Tail(queue) \o Fakes(b - 1) /\ BackCount' = b - 1
       /\ UnikeyBuf' = Letters(ev.n, c) /\ word' = Rewritten(word, b, Letters(ev.n, c))
       /\ c > 0 => toneMoves

\* A key waits for the commit under way.
MakesWait(ev) == ev.type \in {"char", "other"} /\ PendingBuf /\ PutBack(ev)

\* The Pause of a commit comes back.
Commits(ev) ==
  /\ ev.type = "Pause" /\ PendingBuf /\ Taken(ev)
  /\ screen' = screen \o UnikeyBuf /\ PendingBuf' = FALSE /\ queue' = Tail(queue)
  /\ UNCHANGED <<BackCount, UnikeyBuf, word>>

\* A BackSpace that is counted comes back.
CountsBack(ev) ==
  /\ ev.type = "BackSpace" /\ BackCount > 0 /\ Taken(ev)
  /\ BackCount' = BackCount - 1 /\ queue' = Tail(queue)
  /\ screen' = Rewritten(screen, 1, <<>>)
  /\ UNCHANGED <<PendingBuf, UnikeyBuf, word>>

\* The text stays as it is.
LEMMA NothingWritten ==
  ASSUME NEW ev \in Events, NEW t \in Seq(Numbers), NEW u \in Seq(Numbers)
  PROVE  \E b \in 0 .. MaxBacks, c \in 0 .. MaxLetters :
           t = Rewritten(t, b, Letters(ev.n, c)) /\ u = Rewritten(u, b, Letters(ev.n, c))
<1>1. ev.n \in Numbers
  BY DEF Events, Numbers
<1>2. Letters(ev.n, 0) = <<>>
  BY <1>1, LettersType
<1>3. t = Rewritten(t, 0, <<>>) /\ u = Rewritten(u, 0, <<>>)
  BY 0 \in Nat, RewrittenType
<1>4. 0 \in 0 .. MaxBacks /\ 0 \in 0 .. MaxLetters
  BY BoundsAssumption
<1>. QED  BY <1>2, <1>3, <1>4

\* Every step of the filter is of one of these kinds.
LEMMA FilterKinds ==
  ASSUME Types, filter_key
  PROVE  LET ev == Head(queue)
         IN  /\ ev \in Events /\ queue # <<>> /\ Tail(queue) \in Seq(Events)
             /\ UNCHANGED <<typed, settings>>
             /\ \/ Acts(ev) \/ Promises(ev) \/ Deletes(ev)
                \/ MakesWait(ev) \/ Commits(ev) \/ CountsBack(ev)
<1>. DEFINE ev == Head(queue)
<1>1. ev \in Events /\ queue # <<>> /\ Tail(queue) \in Seq(Events) /\ UNCHANGED <<typed, settings>>
  BY HeadAndTail DEF filter_key, Types
<1>. SUFFICES \/ Acts(ev) \/ Promises(ev) \/ Deletes(ev)
             \/ MakesWait(ev) \/ Commits(ev) \/ CountsBack(ev)
  BY <1>1
<1>. HIDE DEF ev
<1>2. /\ screen \in Seq(Numbers) /\ word \in Seq(Numbers) /\ UnikeyBuf \in Seq(Numbers)
      /\ <<>> \in Seq(Numbers)
  BY EmptySeq DEF Types
<1>3. \A c \in Nat : Letters(ev.n, c) \in Seq(Numbers)
  <2>. ev.n \in Numbers
    BY <1>1 DEF Events, Numbers
  <2>. QED  BY LettersType
<1>4. MaxBacks \in Nat /\ MaxLetters \in Nat
  BY BoundsAssumption
<1>5. ASSUME queue' = Tail(queue), UNCHANGED <<commit, UnikeyBuf, word, screen>>, Taken(ev),
             ev.type \notin TextTypes \cup {"BackSpace"}
      PROVE  Acts(ev)
  <2>1. \E b \in 0 .. MaxBacks, c \in 0 .. MaxLetters :
         screen = Rewritten(screen, b, Letters(ev.n, c)) /\ word = Rewritten(word, b, Letters(ev.n, c))
    BY <1>1, <1>2, NothingWritten
  <2>2. screen' = screen /\ word' = word /\ UnikeyBuf' = UnikeyBuf /\ UNCHANGED commit
    BY <1>5
  <2>3. /\ ev.type # "BackSpace"
        /\ ev.type \notin {"Pause", "char", "other"}
    BY <1>5 DEF TextTypes
  <2>. QED  BY <1>2, <1>5, <2>1, <2>2, <2>3 DEF Acts
<1>6. ASSUME screen' = Forwarded(screen, ev), word' = Forwarded(word, ev), queue' = Tail(queue),
             UNCHANGED commit, UnikeyBuf' \in {<<>>, UnikeyBuf}, Taken(ev),
             ev.type = "BackSpace" => BackCount = 0,
             ev.type \in {"Pause", "char", "other"} => ~PendingBuf
      PROVE  Acts(ev)
  <2>1. \E b \in 0 .. MaxBacks, c \in 0 .. MaxLetters :
         /\ screen' = Rewritten(screen, b, Letters(ev.n, c))
         /\ word' = Rewritten(word, b, Letters(ev.n, c))
    BY <1>1, <1>2, <1>6, ForwardedIs
  <2>. QED  BY <1>2, <1>6, <2>1 DEF Acts, commit
<1>7. CASE ev.type \in {"hold", "release"} /\ checkSwitchKey(ev)
  BY <1>5, <1>7 DEF checkSwitchKey, TextTypes, commit
<1>8. CASE ev.type \in Shortcuts /\ checkShortcuts(ev)
  <2>1. ev.type \notin TextTypes \cup {"BackSpace"} /\ Taken(ev)
    BY <1>8 DEF Shortcuts, TextTypes, checkShortcuts, commit
  <2>2. CASE ev.type = "restore" /\ restoreKeys(ev)
    <3>1. CASE queue' = Tail(queue) /\ UNCHANGED <<commit, word, screen>> /\ UnikeyBuf' \in {<<>>, UnikeyBuf}
      <4>1. \E b \in 0 .. MaxBacks, c \in 0 .. MaxLetters :
             screen = Rewritten(screen, b, Letters(ev.n, c)) /\ word = Rewritten(word, b, Letters(ev.n, c))
        BY <1>1, <1>2, NothingWritten
      <4>2. screen' = screen /\ word' = word /\ UNCHANGED commit
        BY <3>1
      <4>. QED  BY <1>2, <2>1, <2>2, <3>1, <4>1, <4>2 DEF Acts, TextTypes
    <3>2. ASSUME NEW b \in 1 .. MaxBacks, NEW c \in 1 .. MaxLetters, Answer(b, Letters(ev.n, c)),
                 PutBackspaces(b)
          PROVE  Promises(ev)
      BY <1>4, <2>1, <2>2, <3>2 DEF Promises, Answer, commit
    <3>3. ASSUME NEW b \in 1 .. MaxBacks, NEW c \in 1 .. MaxLetters, Answer(b, Letters(ev.n, c)),
                 commitString(Rewritten(screen, b, <<>>), Letters(ev.n, c))
          PROVE  Acts(ev)
      <4>1. b \in 0 .. MaxBacks /\ c \in 0 .. MaxLetters /\ b \in Nat /\ c \in Nat
        BY <1>4
      <4>2. Rewritten(screen, b, <<>>) \o Letters(ev.n, c) = Rewritten(screen, b, Letters(ev.n, c))
        BY <1>2, <1>3, <4>1, RewrittenInTwo
      <4>3. /\ screen' = Rewritten(screen, b, Letters(ev.n, c))
            /\ word' = Rewritten(word, b, Letters(ev.n, c)) /\ UnikeyBuf' \in Seq(Numbers)
            /\ queue' = Tail(queue) /\ UNCHANGED commit
        BY <1>3, <3>3, <4>1, <4>2 DEF Answer, commitString
      <4>. QED  BY <2>1, <2>2, <4>1, <4>3 DEF Acts, TextTypes
    <3>. QED  BY <2>2, <3>1, <3>2, <3>3 DEF restoreKeys, engine, commit
  <2>3. CASE queue' = Tail(queue) /\ UNCHANGED <<commit, UnikeyBuf, word, screen>>
    BY <1>5, <2>1, <2>3
  <2>. QED  BY <1>8, <2>2, <2>3 DEF checkShortcuts, commit
<1>9. CASE ev.type = "Pause" /\ Taken(ev) /\ PauseBack(ev)
  <2>1. CASE PendingBuf
    BY <1>9, <2>1 DEF PauseBack, Commits, engine, commit
  <2>2. CASE ~PendingBuf
    BY <1>6, <1>9, <2>2 DEF PauseBack, PassOn, commit
  <2>. QED  BY <2>1, <2>2
<1>10. CASE ev.type = "BackSpace" /\ Taken(ev) /\ BackSpaceKey(ev)
  <2>1. Forwarded(screen, ev) = Rewritten(screen, 1, <<>>)
    BY <1>10 DEF Forwarded
  <2>2. CASE BackCount > 0 /\ BackCount' = BackCount - 1 /\ queue' = Tail(queue) /\ UNCHANGED <<PendingBuf, engine>>
    BY <1>10, <2>1, <2>2 DEF CountsBack, BackSpaceKey, engine, commit
  <2>3. ASSUME BackCount = 0, UNCHANGED PendingBuf, NEW b \in 1 .. MaxBacks, NEW c \in 0 .. MaxLetters,
               c > 0 => toneMoves, Answer(b, Letters(ev.n, c)),
               queue' = Tail(queue) \o Fakes(b - 1), BackCount' = b - 1
        PROVE  Deletes(ev)
    BY <1>10, <2>1, <2>3 DEF Deletes, BackSpaceKey, Answer, commit
  <2>4. CASE /\ BackCount = 0 /\ UnikeyBuf' = <<>> /\ word' = Forwarded(word, ev)
             /\ queue' = Tail(queue) /\ UNCHANGED commit
    BY <1>6, <1>10, <2>4 DEF BackSpaceKey, commit
  <2>. QED  BY <1>10, <2>2, <2>3, <2>4 DEF BackSpaceKey, commit
<1>11. CASE ev.type \in {"char", "other"} /\ OrdinaryKey(ev)
  <2>1. CASE MustWait /\ PutBack(ev)
    BY <1>11, <2>1 DEF MakesWait, MustWait, commit
  <2>2. CASE ~MustWait /\ Taken(ev) /\ (PassOn(ev) \/ OtherKey(ev))
    BY <1>6, <1>11, <2>2 DEF MustWait, PassOn, OtherKey, commit
  <2>3. CASE ~MustWait /\ ev.type = "char" /\ Taken(ev) /\ CharKey(ev)
    <3>1. CASE /\ UnikeyBuf' = <<>> /\ word' = Forwarded(word, ev) /\ screen' = Forwarded(screen, ev)
               /\ queue' = Tail(queue) /\ UNCHANGED commit
      BY <1>6, <2>3, <3>1 DEF MustWait, commit
    <3>2. ASSUME NEW b \in 0 .. MaxBacks, NEW c \in 0 .. MaxLetters, Answer(b, Letters(ev.n, c)),
                 b > 0, PutBackspaces(b)
          PROVE  Promises(ev)
      <4>. b \in 1 .. MaxBacks
        BY <1>4, <3>2
      <4>. QED  BY <2>3, <3>2 DEF Promises, Answer, MustWait, commit
    <3>3. ASSUME NEW b \in 0 .. MaxBacks, NEW c \in 0 .. MaxLetters, Answer(b, Letters(ev.n, c)),
                 ~(b > 0), commitString(screen, Letters(ev.n, c))
          PROVE  Acts(ev)
      <4>1. b = 0 /\ c \in Nat
        BY <1>4, <3>3
      <4>2. screen \o Letters(ev.n, c) = Rewritten(screen, 0, Letters(ev.n, c))
        BY <1>2, <1>3, <4>1, RewrittenType
      <4>. QED  BY <1>3, <2>3, <3>3, <4>1, <4>2 DEF Acts, Answer, commitString, MustWait, commit
    <3>. QED  BY <2>3, <3>1, <3>2, <3>3 DEF CharKey, commit
  <2>. QED  BY <1>11, <2>1, <2>2, <2>3 DEF OrdinaryKey
<1>. QED  BY <1>7, <1>8, <1>9, <1>10, <1>11 DEF filter_key, ev
-----------------------------------------------------------------------------
\* The filter keeps the types.
LEMMA TypesKept ==
  ASSUME Types, filter_key
  PROVE  Types'
<1>. DEFINE ev == Head(queue)
<1>1. /\ ev \in Events /\ Tail(queue) \in Seq(Events) /\ typed' = typed
      /\ \/ Acts(ev) \/ Promises(ev) \/ Deletes(ev)
         \/ MakesWait(ev) \/ Commits(ev) \/ CountsBack(ev)
  BY FilterKinds
<1>. HIDE DEF ev
<1>2. \A b \in Nat, c \in Nat : \A t \in Seq(Numbers) :
        Letters(ev.n, c) \in Seq(Numbers) /\ Rewritten(t, b, Letters(ev.n, c)) \in Seq(Numbers)
  BY <1>1, AnswerType
<1>3. \A t \in Seq(Numbers) : Rewritten(t, 1, <<>>) \in Seq(Numbers)
  BY 1 \in Nat, RewrittenType
<1>4. Taken(ev) => waiting' \in Seq(1 .. MaxKeys)
  BY TakenType DEF Types
<1>5. 0 .. MaxBacks \subseteq Nat /\ 0 .. MaxLetters \subseteq Nat /\ 1 .. MaxBacks \subseteq Nat
  BY BoundsAssumption
<1>6. CASE Acts(ev)
  BY <1>1, <1>2, <1>4, <1>5, <1>6 DEF Acts, Types, commit
<1>7. CASE Promises(ev)
  <2>1. PICK b \in 1 .. MaxBacks, c \in 0 .. MaxLetters :
          /\ PutBackspaces(b)
          /\ UnikeyBuf' = Letters(ev.n, c) /\ word' = Rewritten(word, b, Letters(ev.n, c))
    BY <1>7 DEF Promises
  <2>2. queue' \in Seq(Events) /\ BackCount' \in Nat /\ screen' = screen
    <3>1. queue' = Begun(Tail(queue), b) /\ BackCount' = b /\ screen' = screen
      BY <2>1 DEF PutBackspaces, Begun
    <3>. QED  BY <1>1, <1>5, <3>1, PutCount
  <2>. QED  BY <1>1, <1>2, <1>4, <1>5, <1>7, <2>1, <2>2 DEF Types, Promises
<1>8. CASE Deletes(ev)
  <2>1. PICK b \in 1 .. MaxBacks, c \in 0 .. MaxLetters :
          /\ queue' = Tail(queue) \o Fakes(b - 1) /\ BackCount' = b - 1
          /\ UnikeyBuf' = Letters(ev.n, c) /\ word' = Rewritten(word, b, Letters(ev.n, c))
    BY <1>8 DEF Deletes
  <2>2. b - 1 \in Nat /\ b \in Nat /\ c \in Nat
    BY <1>5
  <2>3. queue' \in Seq(Events)
    BY <1>1, <2>1, <2>2, FakesCount, ConcatProperties
  <2>. QED  BY <1>1, <1>2, <1>3, <1>4, <1>8, <2>1, <2>2, <2>3 DEF Types, Deletes
<1>9. CASE MakesWait(ev)
  BY <1>1, <1>9, AppendProperties DEF Types, MakesWait, PutBack, commit, engine
<1>10. CASE Commits(ev)
  BY <1>1, <1>4, <1>10, ConcatProperties DEF Types, Commits
<1>11. CASE CountsBack(ev)
  BY <1>1, <1>3, <1>4, <1>11 DEF Types, CountsBack
<1>. QED  BY <1>1, <1>6, <1>7, <1>8, <1>9, <1>10, <1>11

\* No more BackSpaces are counted than come, for every user.
CountInv == BackCount <= FakesComing

\* The filter keeps the count.
LEMMA CountKept ==
  ASSUME Types, CountInv, filter_key
  PROVE  CountInv'
<1>. DEFINE ev == Head(queue)
            F == {FakeBackSpace}
            q == Tail(queue)
<1>1. /\ ev \in Events /\ Tail(queue) \in Seq(Events) /\ queue # <<>>
      /\ \/ Acts(ev) \/ Promises(ev) \/ Deletes(ev)
         \/ MakesWait(ev) \/ Commits(ev) \/ CountsBack(ev)
  BY FilterKinds
<1>. HIDE DEF F
<1>2. HowMany(queue, F) = HowMany(q, F) + IF ev \in F THEN 1 ELSE 0
  <2>1. HowMany(q, F) \in Nat
    BY <1>1, CountType
  <2>. QED  BY <1>1, <2>1, CountTail DEF Types
<1>3. HowMany(Tail(queue), F) \in Nat /\ BackCount \in Nat /\ BackCount <= HowMany(queue, F)
  BY <1>1, CountType DEF Types, CountInv, FakesComing, F
<1>4. FakeBackSpace.type = "BackSpace" /\ PauseKey # FakeBackSpace
  BY DEF FakeBackSpace, PauseKey
<1>5. SUFFICES BackCount' <= HowMany(queue', F)
  BY DEF CountInv, FakesComing, F
<1>12. q \in Seq(Events)
  BY <1>1
<1>13. (ev \in F <=> ev = FakeBackSpace) /\ FakeBackSpace \in F /\ PauseKey \notin F
  BY <1>4 DEF F
<1>6. CASE Acts(ev)
  <2>1. queue' = Tail(queue) /\ BackCount' = BackCount /\ (ev \in F => BackCount = 0)
    BY <1>4, <1>6, <1>13 DEF Acts, commit
  <2>. QED  BY <1>2, <1>3, <2>1
<1>7. CASE Promises(ev)
  <2>1. PICK b \in 1 .. MaxBacks : PutBackspaces(b)
    BY <1>7 DEF Promises
  <2>2. b \in Nat
    BY BoundsAssumption
  <2>3. queue' = Begun(q, b) /\ BackCount' = b
    BY <2>1 DEF PutBackspaces, Begun
  <2>. HIDE DEF q, ev
  <2>4. HowMany(queue', F) = HowMany(q, F) + b + 0
    BY <1>12, <1>13, <2>2, <2>3, PutCount
  <2>. QED  BY <1>3, <2>2, <2>3, <2>4 DEF q
<1>8. CASE Deletes(ev)
  <2>1. PICK b \in 1 .. MaxBacks : queue' = Tail(queue) \o Fakes(b - 1) /\ BackCount' = b - 1
    BY <1>8 DEF Deletes
  <2>2. b - 1 \in Nat
    BY BoundsAssumption
  <2>. DEFINE f == Fakes(b - 1)
  <2>3. f \in Seq(Events) /\ HowMany(f, F) = b - 1
    BY <1>13, <2>2, FakesCount
  <2>. HIDE DEF q, f
  <2>4. HowMany(q \o f, F) = HowMany(q, F) + (b - 1)
    BY <1>12, <2>3, CountConcat
  <2>. QED  BY <1>3, <2>1, <2>2, <2>4 DEF q, f
<1>9. CASE MakesWait(ev)
  <2>1. queue' = Append(q, ev) /\ BackCount' = BackCount
    BY <1>9 DEF MakesWait, PutBack, commit
  <2>2. q \in Seq(Events) /\ ev \in Events /\ HowMany(q, F) \in Nat
    BY <1>1, <1>3
  <2>. HIDE DEF q, ev
  <2>3. /\ ev \in F => HowMany(Append(q, ev), F) = HowMany(q, F) + 1
        /\ ev \notin F => HowMany(Append(q, ev), F) = HowMany(q, F)
    BY <2>2, CountAppend
  <2>. QED  BY <1>2, <1>3, <2>1, <2>2, <2>3 DEF q
<1>10. CASE Commits(ev)
  <2>1. queue' = Tail(queue) /\ BackCount' = BackCount /\ ev \notin F
    BY <1>4, <1>10, <1>13 DEF Commits
  <2>. QED  BY <1>2, <1>3, <2>1
<1>11. CASE CountsBack(ev)
  <2>1. queue' = Tail(queue) /\ BackCount' = BackCount - 1
    BY <1>11 DEF CountsBack
  <2>. QED  BY <1>2, <1>3, <2>1
<1>. QED  BY <1>1, <1>6, <1>7, <1>8, <1>9, <1>10, <1>11
-----------------------------------------------------------------------------
(* A key waits while its event is in the queue. *)

\* The events with which the keys K come.
Of(K) == {e \in Events : e.n \in K}

\* The keys that wait are those of the events in the queue.
Books == \A K \in SUBSET (1 .. MaxKeys) : HowMany(queue, Of(K)) = HowMany(waiting, K)

\* A key that is taken was waiting; what the module puts in the queue was not.
LEMMA TakesOne ==
  ASSUME Types, Books, queue # <<>>, Taken(Head(queue))
  PROVE  LET n == Head(queue).n
         IN  \/ n = 0 /\ waiting' = waiting
             \/ /\ n # 0
                /\ \E i \in 1 .. Len(waiting) : waiting[i] = n /\ waiting' = RemoveAt(waiting, i)
<1>. DEFINE ev == Head(queue)
            n == ev.n
<1>1. ev \in Events /\ Tail(queue) \in Seq(Events) /\ n \in Numbers
  <2>1. ev \in Events /\ Tail(queue) \in Seq(Events)
    BY HeadAndTail DEF Types
  <2>. QED  BY <2>1 DEF Events, Numbers
<1>2. waiting \in Seq(1 .. MaxKeys) /\ waiting' = RemoveFirst(waiting, n) /\ MaxKeys \in Nat
  BY BoundsAssumption DEF Types, Taken
<1>3. \/ /\ \A i \in 1 .. Len(waiting) : waiting[i] # n
         /\ RemoveFirst(waiting, n) = waiting
      \/ \E i \in 1 .. Len(waiting) : waiting[i] = n /\ RemoveFirst(waiting, n) = RemoveAt(waiting, i)
  BY <1>2, RemoveFirstIsRemoveAt
<1>4. CASE n = 0
  <2>1. \A i \in 1 .. Len(waiting) : waiting[i] # n
    BY <1>2, <1>4, ElementOfSeq
  <2>. QED  BY <1>2, <1>3, <1>4, <2>1
<1>5. CASE n # 0
  <2>1. {n} \in SUBSET (1 .. MaxKeys) /\ n \in {n}
    BY <1>1, <1>2, <1>5 DEF Numbers
  <2>2. ev \in Of({n})
    BY <1>1 DEF Of
  <2>. HIDE DEF n, ev
  <2>3. HowMany(queue, Of({n})) # 0
    <3>1. HowMany(queue, Of({n})) = HowMany(Tail(queue), Of({n})) + 1
      BY <2>2, CountTail DEF Types, ev
    <3>2. HowMany(Tail(queue), Of({n})) \in Nat
      BY <1>1, CountType
    <3>. QED  BY <3>1, <3>2
  <2>4. HowMany(waiting, {n}) # 0
    BY <2>1, <2>3 DEF Books
  <2>5. \E i \in 1 .. Len(waiting) : waiting[i] \in {n}
    BY <1>2, <2>4, CountSome
  <2>. QED  BY <1>2, <1>3, <1>5, <2>5 DEF n, ev
<1>. QED  BY <1>4, <1>5

\* The filter keeps the books, whatever the user does.
LEMMA BooksKept ==
  ASSUME Types, Books, filter_key
  PROVE  Books'
<1>. DEFINE ev == Head(queue)
            q == Tail(queue)
<1>1. /\ ev \in Events /\ q \in Seq(Events) /\ queue # <<>>
      /\ \/ Acts(ev) \/ Promises(ev) \/ Deletes(ev)
         \/ MakesWait(ev) \/ Commits(ev) \/ CountsBack(ev)
  BY FilterKinds
<1>2. SUFFICES ASSUME NEW K \in SUBSET (1 .. MaxKeys)
               PROVE  HowMany(queue', Of(K)) = HowMany(waiting', K)
  BY DEF Books, Of
<1>. DEFINE S == Of(K)
<1>3. /\ ev \in S => HowMany(queue, S) = HowMany(q, S) + 1
      /\ ev \notin S => HowMany(queue, S) = HowMany(q, S)
  BY <1>1, CountTail DEF Types
<1>4. HowMany(q, S) \in Nat /\ HowMany(queue, S) = HowMany(waiting, K)
  BY <1>1, CountType DEF Books
<1>5. FakeBackSpace \notin S /\ PauseKey \notin S
  BY BoundsAssumption DEF Of, FakeBackSpace, PauseKey
<1>6. ev \in S <=> ev.n \in K
  BY <1>1 DEF Of
<1>7. waiting \in Seq(1 .. MaxKeys) /\ MaxKeys \in Nat
  BY BoundsAssumption DEF Types
<1>. HIDE DEF S, q
<1>8. ASSUME Taken(ev)  PROVE HowMany(waiting', K) = HowMany(q, S)
  <2>1. CASE ev.n = 0 /\ waiting' = waiting
    <3>1. ev \notin S
      BY <1>6, <1>7, <2>1
    <3>. QED  BY <1>3, <1>4, <2>1, <3>1
  <2>2. ASSUME NEW i \in 1 .. Len(waiting), waiting[i] = ev.n, waiting' = RemoveAt(waiting, i)
        PROVE  HowMany(waiting', K) = HowMany(q, S)
    <3>1. /\ HowMany(waiting, K) = HowMany(RemoveAt(waiting, i), K) + IF waiting[i] \in K THEN 1 ELSE 0
          /\ RemoveAt(waiting, i) \in Seq(1 .. MaxKeys)
      BY <1>7, RemoveAtProperties
    <3>2. HowMany(RemoveAt(waiting, i), K) \in Nat
      BY <3>1, CountType
    <3>. QED  BY <1>3, <1>4, <1>6, <2>2, <3>1, <3>2
  <2>. QED  BY <1>1, <1>8, <2>1, <2>2, TakesOne
<1>9. ASSUME Taken(ev), queue' = q  PROVE HowMany(queue', S) = HowMany(waiting', K)
  BY <1>8, <1>9
<1>10. CASE Acts(ev) \/ Commits(ev) \/ CountsBack(ev)
  BY <1>9, <1>10 DEF Acts, Commits, CountsBack, q, S
<1>11. CASE Promises(ev)
  <2>1. PICK b \in 1 .. MaxBacks : PutBackspaces(b)
    BY <1>11 DEF Promises
  <2>2. b \in Nat
    BY BoundsAssumption
  <2>3. queue' = Begun(q, b) /\ Taken(ev)
    BY <1>11, <2>1 DEF PutBackspaces, Begun, q, Promises
  <2>. HIDE DEF ev
  <2>4. HowMany(Begun(q, b), S) = HowMany(q, S) + 0 + 0
    BY <1>1, <1>5, <2>2, PutCount
  <2>. QED  BY <1>4, <1>8, <2>3, <2>4 DEF S
<1>12. CASE Deletes(ev)
  <2>1. PICK b \in 1 .. MaxBacks : queue' = q \o Fakes(b - 1)
    BY <1>12 DEF Deletes, q
  <2>2. b - 1 \in Nat /\ Taken(ev)
    BY <1>12, BoundsAssumption DEF Deletes
  <2>. DEFINE f == Fakes(b - 1)
  <2>3. f \in Seq(Events) /\ HowMany(f, S) = 0
    BY <1>5, <2>2, FakesCount
  <2>. HIDE DEF f, ev
  <2>4. HowMany(q \o f, S) = HowMany(q, S) + 0
    BY <1>1, <2>3, CountConcat
  <2>. QED  BY <1>4, <1>8, <2>1, <2>2, <2>4 DEF f, S
<1>13. CASE MakesWait(ev)
  <2>1. queue' = Append(q, ev) /\ waiting' = waiting
    BY <1>13 DEF MakesWait, PutBack, q
  <2>. HIDE DEF ev
  <2>2. /\ ev \in S => HowMany(Append(q, ev), S) = HowMany(q, S) + 1
        /\ ev \notin S => HowMany(Append(q, ev), S) = HowMany(q, S)
    BY <1>1, CountAppend
  <2>. QED  BY <1>3, <1>4, <2>1, <2>2 DEF S
<1>. QED  BY <1>1, <1>10, <1>11, <1>12, <1>13

\* A key that is typed.
LEMMA PressKeeps ==
  ASSUME Types, Books, CountInv, NEW type \in KeyTypes, Press(type)
  PROVE  Types' /\ Books' /\ CountInv'
<1>. DEFINE ev == [type |-> type, n |-> typed + 1]
            k == typed + 1
<1>1. /\ queue' = Append(queue, ev) /\ waiting' = Append(waiting, k) /\ typed' = k
      /\ UNCHANGED <<BackCount, screen, word, UnikeyBuf>>
  BY DEF Press, commit, engine
<1>2. k \in 1 .. MaxKeys /\ ev \in Events /\ ev.n = k /\ k \in Numbers
  BY BoundsAssumption DEF Types, Press, Events, Numbers
<1>3. queue \in Seq(Events) /\ waiting \in Seq(1 .. MaxKeys)
  BY DEF Types
<1>4. FakeBackSpace # ev /\ BackCount <= HowMany(queue, {FakeBackSpace})
  BY <1>2, BoundsAssumption DEF FakeBackSpace, CountInv, FakesComing
<1>. HIDE DEF ev, k
<1>5. Types'
  BY <1>1, <1>2, <1>3, AppendProperties DEF Types
<1>6. Books'
  <2>. SUFFICES ASSUME NEW K \in SUBSET (1 .. MaxKeys)
                PROVE  HowMany(queue', Of(K)) = HowMany(waiting', K)
    BY DEF Books, Of
  <2>. DEFINE S == Of(K)
  <2>1. (ev \in S <=> k \in K) /\ HowMany(queue, S) = HowMany(waiting, K)
    BY <1>2 DEF Of, Books
  <2>. HIDE DEF S
  <2>2. /\ ev \in S => HowMany(Append(queue, ev), S) = HowMany(queue, S) + 1
        /\ ev \notin S => HowMany(Append(queue, ev), S) = HowMany(queue, S)
    BY <1>2, <1>3, CountAppend
  <2>3. /\ k \in K => HowMany(Append(waiting, k), K) = HowMany(waiting, K) + 1
        /\ k \notin K => HowMany(Append(waiting, k), K) = HowMany(waiting, K)
    BY <1>2, <1>3, CountAppend
  <2>. QED  BY <1>1, <2>1, <2>2, <2>3 DEF S
<1>7. CountInv'
  <2>. DEFINE F == {FakeBackSpace}
  <2>1. ev \notin F
    BY <1>4
  <2>. HIDE DEF F
  <2>2. HowMany(Append(queue, ev), F) = HowMany(queue, F)
    BY <1>2, <1>3, <2>1, CountAppend
  <2>. QED  BY <1>1, <1>4, <2>2 DEF CountInv, FakesComing, F
<1>. QED  BY <1>5, <1>6, <1>7
-----------------------------------------------------------------------------
(* What the queue of a user who waits for commits, or types text only, looks like. *)

\* What a user who is not of the pace "any" types, when the queue holds other things.
MyUser == {e \in Events : e.n # 0 /\ (pace = "waits" \/ e.type = "char")}

\* The queue of such a user: keys alone, BackSpaces for a word whose tone moved, or
\* the BackSpaces of a commit, its Pause and keys that came later.
Idle == ~PendingBuf /\ BackCount = 0 /\ queue \in Seq(MyUser)
Deleting ==
  pace = "waits" /\ ~PendingBuf /\ BackCount = Len(queue) /\ queue \in Seq({FakeBackSpace})
\* The Pause of a commit, with what comes before it and after it.
Paused == <<PauseKey>>
Split(q, l, t) ==
  /\ l \in Seq(MyUser \cup {FakeBackSpace}) /\ t \in Seq(MyUser)
  /\ q = Joined(Joined(l, Paused), t)
Committing ==
  PendingBuf /\ \E l, t : Split(queue, l, t) /\ HowMany(l, {FakeBackSpace}) = BackCount

\* How many keys such a user lets wait.
Patience ==
  /\ pace # "ahead" => Len(waiting) <= 1
  /\ pace = "waits" /\ ~Idle => waiting = <<>>

Phases == pace # "any" => (Idle \/ Deleting \/ Committing) /\ Patience

\* Keys of the user are none of the module's own.
LEMMA MyUserType ==
  /\ MyUser \subseteq Events /\ MyUser \cup {FakeBackSpace} \subseteq Events
  /\ FakeBackSpace \notin MyUser /\ PauseKey \notin MyUser /\ FakeBackSpace # PauseKey
  /\ FakeBackSpace \in Events /\ PauseKey \in Events
  /\ \A e \in MyUser : e \in Of(1 .. MaxKeys)
<1>1. FakeBackSpace \in Events /\ PauseKey \in Events
  BY BoundsAssumption DEF PauseKey, FakeBackSpace, Events, KeyTypes, TextTypes
<1>2. FakeBackSpace \notin MyUser /\ PauseKey \notin MyUser /\ FakeBackSpace # PauseKey
  BY DEF PauseKey, FakeBackSpace, MyUser
<1>3. ASSUME NEW e \in MyUser  PROVE e \in Of(1 .. MaxKeys)
  <2>1. e \in Events /\ e.n # 0
    BY DEF MyUser
  <2>2. e.n \in 0 .. MaxKeys
    BY <2>1 DEF Events
  <2>. QED  BY <2>1, <2>2, BoundsAssumption DEF Of
<1>. QED  BY <1>1, <1>2, <1>3 DEF MyUser

\* The Pause is one event.
LEMMA PausedIs ==
  /\ Paused \in Seq(Events) /\ Len(Paused) = 1 /\ Paused[1] = PauseKey
  /\ \A S : HowMany(Paused, S) = IF PauseKey \in S THEN 1 ELSE 0
  BY MyUserType, CountOne DEF Paused

\* A key of the user's that comes to the head was waiting; keys alone are those
\* that wait.
LEMMA UsersWait ==
  ASSUME Types, Books, queue # <<>>
  PROVE  /\ Head(queue) \in MyUser => waiting # <<>>
         /\ queue \in Seq(MyUser) => Len(queue) = Len(waiting)
<1>. DEFINE A == 1 .. MaxKeys
            S == Of(A)
<1>1. queue \in Seq(Events) /\ waiting \in Seq(A) /\ HowMany(queue, S) = HowMany(waiting, A)
  BY DEF Types, Books
<1>2. HowMany(waiting, A) = Len(waiting)
  <2>1. \A i \in 1 .. Len(waiting) : waiting[i] \in A
    BY <1>1, ElementOfSeq
  <2>. HIDE DEF A
  <2>. QED  BY <1>1, <2>1, CountAll
<1>3. \A e \in MyUser : e \in S
  BY MyUserType
<1>. HIDE DEF S, A
<1>4. ASSUME Head(queue) \in MyUser  PROVE waiting # <<>>
  <2>1. HowMany(queue, S) = HowMany(Tail(queue), S) + 1
    BY <1>1, <1>3, <1>4, CountTail
  <2>2. HowMany(Tail(queue), S) \in Nat
    BY <1>1, HeadAndTail, CountType
  <2>3. Len(waiting) # 0
    BY <1>1, <1>2, <2>1, <2>2
  <2>. QED  BY <2>3, EmptySeq
<1>5. ASSUME queue \in Seq(MyUser)  PROVE Len(queue) = Len(waiting)
  <2>1. \A i \in 1 .. Len(queue) : queue[i] \in S
    BY <1>3, <1>5, ElementOfSeq
  <2>2. HowMany(queue, S) = Len(queue)
    BY <1>1, <2>1, CountAll
  <2>. QED  BY <1>1, <1>2, <2>2
<1>. QED  BY <1>4, <1>5

Fake == {FakeBackSpace}

\* What is at the head of the queue, and what is behind it.
LEMMA PhaseHead ==
  ASSUME Types, Books, Phases, pace # "any", queue # <<>>
  PROVE  LET ev == Head(queue)
             q == Tail(queue)
         IN  \/ /\ Idle /\ ev \in MyUser /\ q \in Seq(MyUser)
                /\ pace = "waits" => q = <<>>
             \/ Deleting /\ ev = FakeBackSpace /\ BackCount > 0 /\ q \in Seq(Fake) /\ Len(q) = BackCount - 1
             \/ /\ PendingBuf
                /\ \E l, t : /\ Split(q, l, t)
                             /\ \/ ev = FakeBackSpace /\ BackCount > 0 /\ HowMany(l, Fake) = BackCount - 1
                                \/ /\ ev \in MyUser /\ ev.type = "char" /\ pace # "waits"
                                   /\ HowMany(l, Fake) = BackCount
             \/ PendingBuf /\ BackCount = 0 /\ ev = PauseKey /\ q \in Seq(MyUser)
<1>. DEFINE ev == Head(queue)
            q == Tail(queue)
<1>1. CASE Idle
  <2>1. queue \in Seq(MyUser)
    BY <1>1 DEF Idle
  <2>2. ev \in MyUser /\ q \in Seq(MyUser) /\ Len(q) = Len(queue) - 1
    BY <2>1, HeadAndTail
  <2>3. ASSUME pace = "waits"  PROVE q = <<>>
    <3>1. Len(queue) = Len(waiting) /\ Len(waiting) <= 1
      BY <2>1, <2>3, UsersWait DEF Phases, Patience
    <3>. HIDE DEF q
    <3>2. Len(q) \in Nat /\ Len(q) = Len(waiting) - 1
      BY <2>2, <3>1, LenProperties
    <3>3. Len(q) = 0
      BY <3>1, <3>2, LenProperties DEF Types
    <3>. QED  BY <2>2, <3>3, EmptySeq
  <2>. QED  BY <1>1, <2>2, <2>3
<1>2. CASE Deleting
  <2>1. queue \in Seq(Fake) /\ Len(queue) = BackCount
    BY <1>2 DEF Deleting, Fake
  <2>2. ev \in Fake /\ q \in Seq(Fake) /\ Len(q) = Len(queue) - 1 /\ Len(q) \in Nat
    BY <2>1, HeadAndTail, LenProperties
  <2>. QED  BY <1>2, <2>1, <2>2 DEF Fake
<1>3. CASE Committing
  <2>1. PICK l, t : Split(queue, l, t) /\ HowMany(l, Fake) = BackCount
    BY <1>3 DEF Committing, Fake
  <2>. DEFINE X == MyUser \cup {FakeBackSpace}
  <2>2. /\ l \in Seq(X) /\ t \in Seq(MyUser) /\ queue = Joined(Joined(l, Paused), t)
        /\ l \in Seq(Events) /\ t \in Seq(Events)
    BY <2>1, MyUserType, SeqMonotonic DEF Split
  <2>3. /\ Len(l) = 0 => ev = PauseKey /\ q = t
        /\ Len(l) # 0 => ev = Head(l) /\ q = Joined(Joined(Tail(l), Paused), t)
    <3>1. l \in Seq(Events) /\ t \in Seq(Events) /\ queue = Joined(Joined(l, Paused), t)
      BY <2>2
    <3>2. Paused \in Seq(Events) /\ Len(Paused) = 1 /\ Paused[1] = PauseKey
      BY PausedIs
    <3>3. Len(l) = 0 => queue = Joined(Paused, t)
      BY <3>1, <3>2, SplitAtHead
    <3>5. Head(Joined(Paused, t)) = Paused[1] /\ Tail(Joined(Paused, t)) = t
      BY <3>1, <3>2, FirstAndRest
    <3>4. Len(l) # 0 => Head(queue) = Head(l) /\ Tail(queue) = Joined(Joined(Tail(l), Paused), t)
      BY <3>1, <3>2, SplitLater
    <3>. QED  BY <3>2, <3>3, <3>4, <3>5, Zenon
  <2>4. CASE Len(l) = 0
    <3>1. HowMany(l, Fake) <= Len(l) /\ HowMany(l, Fake) \in Nat
      BY <2>2, CountType
    <3>2. BackCount = 0
      BY <2>1, <2>4, <3>1
    <3>3. PendingBuf /\ ev = PauseKey /\ q \in Seq(MyUser)
      BY <1>3, <2>2, <2>3, <2>4 DEF Committing
    <3>. QED  BY <3>2, <3>3
  <2>5. CASE l # <<>> /\ Len(l) # 0
    <3>. HIDE DEF X
    <3>1. Tail(l) \in Seq(X) /\ Head(l) \in X
      BY <2>2, <2>5, HeadAndTail
    <3>2. /\ Head(l) \in Fake => HowMany(l, Fake) = HowMany(Tail(l), Fake) + 1
          /\ Head(l) \notin Fake => HowMany(l, Fake) = HowMany(Tail(l), Fake)
      BY <2>2, <2>5, CountTail
    <3>3. HowMany(Tail(l), Fake) \in Nat
      BY <3>1, CountType
    <3>4. Split(q, Tail(l), t) /\ PendingBuf
      BY <1>3, <2>2, <2>3, <2>5, <3>1 DEF Split, Committing, X
    <3>5. CASE ev = FakeBackSpace
      <4>1. Head(l) \in Fake /\ BackCount = HowMany(Tail(l), Fake) + 1
        BY <2>1, <2>3, <2>5, <3>2, <3>5 DEF Fake
      <4>2. BackCount > 0 /\ HowMany(Tail(l), Fake) = BackCount - 1
        BY <3>3, <4>1
      <4>. QED  BY <3>4, <3>5, <4>2
    <3>6. CASE ev # FakeBackSpace
      <4>1. ev \in MyUser /\ Head(l) \notin Fake
        BY <2>3, <2>5, <3>1, <3>6 DEF X, Fake
      <4>2. HowMany(Tail(l), Fake) = BackCount
        BY <2>1, <3>2, <4>1
      <4>3. pace # "waits"
        <5>1. waiting # <<>>
          BY <4>1, UsersWait
        <5>. QED  BY <3>4, <5>1 DEF Phases, Patience, Idle
      <4>4. ev.type = "char"
        BY <4>1, <4>3 DEF MyUser
      <4>. QED  BY <3>4, <4>1, <4>2, <4>3, <4>4
    <3>. QED  BY <3>5, <3>6
  <2>. QED  BY <2>4, <2>5, EmptySeq
<1>. QED  BY <1>1, <1>2, <1>3 DEF Phases
-----------------------------------------------------------------------------
(* What the filter does in each phase. *)

\* As many BackSpaces come as are counted.
LEMMA PhaseCounts == Types /\ Phases /\ pace # "any" => BackCount = FakesComing
<1>. SUFFICES ASSUME Types, Phases, pace # "any"
              PROVE  BackCount = HowMany(queue, Fake)
  BY DEF FakesComing, Fake
<1>1. CASE Idle
  <2>1. queue \in Seq(MyUser) /\ BackCount = 0 /\ \A e \in MyUser : e \notin Fake
    BY <1>1, MyUserType DEF Idle, Fake
  <2>2. \A i \in 1 .. Len(queue) : queue[i] \notin Fake
    BY <2>1, ElementOfSeq
  <2>. QED  BY <2>1, <2>2, CountSome
<1>2. CASE Deleting
  <2>1. queue \in Seq(Fake) /\ BackCount = Len(queue)
    BY <1>2 DEF Deleting, Fake
  <2>2. \A i \in 1 .. Len(queue) : queue[i] \in Fake
    BY <2>1, ElementOfSeq
  <2>. QED  BY <2>1, <2>2, CountAll
<1>3. CASE Committing
  <2>1. PICK l, t : Split(queue, l, t) /\ HowMany(l, Fake) = BackCount
    BY <1>3 DEF Committing, Fake
  <2>2. /\ l \in Seq(Events) /\ t \in Seq(Events) /\ t \in Seq(MyUser)
        /\ queue = Joined(Joined(l, Paused), t)
    BY <2>1, MyUserType, SeqMonotonic DEF Split
  <2>3. Paused \in Seq(Events) /\ Len(Paused) = 1 /\ HowMany(Paused, Fake) = 0
    BY PausedIs, MyUserType DEF Fake
  <2>4. HowMany(t, Fake) = 0
    <3>1. \A i \in 1 .. Len(t) : t[i] \notin Fake
      BY <2>2, ElementOfSeq, MyUserType DEF Fake
    <3>. QED  BY <2>2, <3>1, CountSome
  <2>5. HowMany(queue, Fake) = HowMany(l, Fake) + HowMany(Paused, Fake) + HowMany(t, Fake)
    BY <2>2, <2>3, SplitCount
  <2>6. HowMany(l, Fake) \in Nat
    BY <2>2, CountType
  <2>. QED  BY <2>1, <2>3, <2>4, <2>5, <2>6
<1>. QED  BY <1>1, <1>2, <1>3 DEF Phases

\* What the filter does in each phase.
LEMMA PhaseKinds ==
  ASSUME Types, Books, Phases, pace # "any", filter_key
  PROVE  LET ev == Head(queue)
             q == Tail(queue)
         IN  \/ /\ Idle /\ ev \in MyUser /\ q \in Seq(MyUser)
                /\ pace = "waits" => q = <<>>
                /\ Acts(ev) \/ Promises(ev) \/ Deletes(ev)
             \/ Deleting /\ ev = FakeBackSpace /\ CountsBack(ev) /\ q \in Seq(Fake) /\ Len(q) = BackCount - 1
             \/ /\ PendingBuf
                /\ \E l, t : /\ Split(q, l, t)
                             /\ \/ /\ ev = FakeBackSpace /\ CountsBack(ev)
                                   /\ HowMany(l, Fake) = BackCount - 1
                                \/ /\ MakesWait(ev) /\ ev \in MyUser
                                   /\ HowMany(l, Fake) = BackCount
             \/ PendingBuf /\ BackCount = 0 /\ ev = PauseKey /\ Commits(ev) /\ q \in Seq(MyUser)
<1>. DEFINE ev == Head(queue)
            q == Tail(queue)
<1>1. /\ queue # <<>>
      /\ \/ Acts(ev) \/ Promises(ev) \/ Deletes(ev)
         \/ MakesWait(ev) \/ Commits(ev) \/ CountsBack(ev)
  BY FilterKinds
<1>. DEFINE A == /\ Idle /\ ev \in MyUser /\ q \in Seq(MyUser)
                 /\ pace = "waits" => q = <<>>
            B == Deleting /\ ev = FakeBackSpace /\ BackCount > 0 /\ q \in Seq(Fake) /\ Len(q) = BackCount - 1
            C(l, t) == Split(q, l, t) /\ ev = FakeBackSpace /\ BackCount > 0 /\ HowMany(l, Fake) = BackCount - 1
            D(l, t) == Split(q, l, t) /\ ev \in MyUser /\ ev.type = "char" /\ HowMany(l, Fake) = BackCount
            E == PendingBuf /\ BackCount = 0 /\ ev = PauseKey /\ q \in Seq(MyUser)
<1>2. A \/ B \/ (PendingBuf /\ \E l, t : C(l, t) \/ D(l, t)) \/ E
  <2>1. \/ A \/ B
        \/ /\ PendingBuf
           /\ \E l, t : /\ Split(q, l, t)
                        /\ \/ ev = FakeBackSpace /\ BackCount > 0 /\ HowMany(l, Fake) = BackCount - 1
                           \/ /\ ev \in MyUser /\ ev.type = "char" /\ pace # "waits"
                              /\ HowMany(l, Fake) = BackCount
        \/ E
    BY <1>1, PhaseHead
  <2>. QED  BY <2>1, Zenon
<1>3. FakeBackSpace.type = "BackSpace" /\ PauseKey.type = "Pause"
  BY DEF FakeBackSpace, PauseKey
<1>4. BackCount \in Nat
  BY DEF Types
<1>. HIDE DEF ev, q
<1>5. CASE A
  <2>1. ~PendingBuf /\ BackCount = 0
    BY <1>5 DEF Idle
  <2>2. ~(BackCount > 0)
    BY <2>1
  <2>. QED  BY <1>1, <1>5, <2>1, <2>2, Zenon DEF MakesWait, Commits, CountsBack, ev, q
<1>6. ASSUME ev = FakeBackSpace, BackCount > 0  PROVE CountsBack(ev)
  <2>1. BackCount # 0 /\ ev.type = "BackSpace"
    BY <1>3, <1>4, <1>6
  <2>. QED  BY <1>1, <2>1 DEF Acts, Promises, Deletes, MakesWait, Commits
<1>7. ASSUME PendingBuf, ev.type = "char"  PROVE MakesWait(ev)
  BY <1>1, <1>7 DEF Acts, Promises, Deletes, Commits, CountsBack
<1>8. ASSUME PendingBuf, ev = PauseKey  PROVE Commits(ev)
  BY <1>1, <1>3, <1>8 DEF Acts, Promises, Deletes, MakesWait, CountsBack
<1>9. CASE B
  BY <1>6, <1>9, Zenon DEF ev, q
<1>10. ASSUME PendingBuf, NEW l, NEW t, C(l, t) \/ D(l, t)
       PROVE  /\ Split(q, l, t)
              /\ \/ ev = FakeBackSpace /\ CountsBack(ev) /\ HowMany(l, Fake) = BackCount - 1
                 \/ MakesWait(ev) /\ ev \in MyUser /\ HowMany(l, Fake) = BackCount
  BY <1>6, <1>7, <1>10, Zenon
<1>11. CASE E
  BY <1>8, <1>11, Zenon DEF ev, q
<1>. QED  BY <1>2, <1>5, <1>9, <1>10, <1>11, Zenon DEF ev, q

\* A user who waits has nothing waiting after a key; one who is not far ahead, one
\* key at most.
LEMMA PatienceKept ==
  ASSUME Types, Books, Phases, pace # "any", filter_key
  PROVE  /\ pace # "ahead" => Len(waiting') <= 1
         /\ pace = "waits" => waiting' = <<>>
<1>. DEFINE ev == Head(queue)
            n == ev.n
<1>1. waiting \in Seq(1 .. MaxKeys) /\ Len(waiting) \in Nat
  BY LenProperties DEF Types
<1>2. /\ pace # "ahead" => Len(waiting) <= 1
      /\ pace = "waits" /\ ~Idle => waiting = <<>>
  BY DEF Phases, Patience
<1>3. Len(<<>>) = 0 /\ \A s \in Seq(1 .. MaxKeys) : Len(s) = 0 => s = <<>>
  BY EmptySeq
<1>4. queue # <<>>
  BY FilterKinds
<1>5. ASSUME Taken(ev)
      PROVE  \/ n = 0 /\ waiting' = waiting
             \/ /\ n # 0 /\ waiting' \in Seq(1 .. MaxKeys)
                /\ Len(waiting') = Len(waiting) - 1 /\ Len(waiting') \in Nat
  <2>1. \/ n = 0 /\ waiting' = waiting
        \/ /\ n # 0
           /\ \E i \in 1 .. Len(waiting) : waiting[i] = n /\ waiting' = RemoveAt(waiting, i)
    BY <1>4, <1>5, TakesOne
  <2>2. ASSUME NEW i \in 1 .. Len(waiting)
        PROVE  /\ RemoveAt(waiting, i) \in Seq(1 .. MaxKeys)
               /\ Len(RemoveAt(waiting, i)) = Len(waiting) - 1 /\ Len(waiting) - 1 \in Nat
    BY <1>1, RemoveAtProperties
  <2>. QED  BY <2>1, <2>2
<1>. HIDE DEF ev, n
<1>6. ASSUME Taken(ev)
      PROVE  /\ pace # "ahead" => Len(waiting') <= 1
             /\ pace = "waits" /\ (~Idle \/ n # 0) => waiting' = <<>>
  <2>1. CASE n = 0 /\ waiting' = waiting
    BY <1>2, <2>1
  <2>2. CASE /\ n # 0 /\ waiting' \in Seq(1 .. MaxKeys)
             /\ Len(waiting') = Len(waiting) - 1 /\ Len(waiting') \in Nat
    <3>1. pace # "ahead" => Len(waiting') = 0
      BY <1>1, <1>2, <2>2
    <3>. QED  BY <1>3, <2>2, <3>1
  <2>. QED  BY <1>5, <1>6, <2>1, <2>2
<1>7. CASE Idle /\ ev \in MyUser /\ (Acts(ev) \/ Promises(ev) \/ Deletes(ev))
  <2>1. n # 0 /\ Taken(ev)
    BY <1>7 DEF MyUser, Acts, Promises, Deletes, n
  <2>. QED  BY <1>6, <2>1
<1>8. CASE ~Idle /\ (CountsBack(ev) \/ Commits(ev))
  BY <1>6, <1>8 DEF CountsBack, Commits
<1>9. CASE ~Idle /\ MakesWait(ev)
  <2>1. waiting' = waiting
    BY <1>9 DEF MakesWait, PutBack
  <2>. QED  BY <1>2, <1>9, <2>1
<1>10. \/ Idle /\ ev \in MyUser /\ (Acts(ev) \/ Promises(ev) \/ Deletes(ev))
       \/ ~Idle /\ (CountsBack(ev) \/ Commits(ev))
       \/ ~Idle /\ MakesWait(ev)
  <2>. DEFINE q == Tail(queue)
  <2>1. CASE Deleting /\ CountsBack(ev)
    <3>1. BackCount > 0 /\ BackCount \in Nat
      BY <2>1 DEF CountsBack, Types
    <3>. QED  BY <2>1, <3>1 DEF Idle
  <2>2. CASE PendingBuf /\ (CountsBack(ev) \/ MakesWait(ev) \/ Commits(ev))
    BY <2>2 DEF Idle
  <2>. QED  BY <2>1, <2>2, PhaseKinds DEF ev
<1>. QED  BY <1>7, <1>8, <1>9, <1>10
-----------------------------------------------------------------------------
(* The phases are kept. *)

\* A commit that begins: BackSpaces and the Pause behind the keys that are there.
LEMMA BeginsCommit ==
  ASSUME NEW q \in Seq(MyUser), NEW b \in Nat
  PROVE  /\ Split(q \o Fakes(b) \o <<PauseKey>>, q \o Fakes(b), <<>>)
         /\ HowMany(q \o Fakes(b), Fake) = b
<1>. DEFINE f == Fakes(b)
            l == q \o f
            X == MyUser \cup {FakeBackSpace}
<1>1. f \in Seq(X) /\ HowMany(f, Fake) = b
  <2>1. f \in Seq(Fake) /\ HowMany(f, Fake) = b
    BY FakesCount DEF Fake
  <2>2. Fake \subseteq X
    BY DEF Fake
  <2>. HIDE DEF f, X
  <2>. QED  BY <2>1, <2>2, SeqMonotonic
<1>2. q \in Seq(X)
  BY SeqMonotonic
<1>3. HowMany(q, Fake) = 0
  <2>1. \A i \in 1 .. Len(q) : q[i] \notin Fake
    BY ElementOfSeq, MyUserType DEF Fake
  <2>. QED  BY <2>1, CountSome
<1>. HIDE DEF f, X
<1>4. l \in Seq(X) /\ HowMany(l, Fake) = b
  <2>1. l \in Seq(X)
    BY <1>1, <1>2, ConcatProperties
  <2>2. HowMany(l, Fake) = HowMany(q, Fake) + HowMany(f, Fake)
    BY <1>1, <1>2, CountConcat
  <2>. QED  BY <1>1, <1>3, <2>1, <2>2
<1>5. Joined(Joined(l, Paused), <<>>) = l \o <<PauseKey>>
  <2>1. X \subseteq Events
    BY MyUserType DEF X
  <2>2. l \in Seq(Events) /\ Paused \in Seq(Events)
    BY <1>4, <2>1, SeqMonotonic, PausedIs
  <2>. HIDE DEF l
  <2>3. Joined(l, Paused) \in Seq(Events)
    BY <2>2, JoinedType
  <2>4. Joined(Joined(l, Paused), <<>>) = Joined(l, Paused)
    BY <2>3, JoinedEmpty
  <2>. QED  BY <2>4 DEF Joined, Paused
<1>6. <<>> \in Seq(MyUser)
  BY EmptySeq
<1>7. Split(l \o <<PauseKey>>, l, <<>>)
  <2>. HIDE DEF l
  <2>. QED  BY <1>4, <1>5, <1>6 DEF Split, X
<1>. QED  BY <1>4, <1>7 DEF f

\* A key that joins the keys behind the Pause.
LEMMA JoinsLater ==
  ASSUME NEW q, NEW l, NEW t, Split(q, l, t), NEW e \in MyUser
  PROVE  Split(Append(q, e), l, Append(t, e))
<1>1. l \in Seq(MyUser \cup {FakeBackSpace}) /\ t \in Seq(MyUser) /\ q = Joined(Joined(l, Paused), t)
  BY DEF Split
<1>2. l \in Seq(Events) /\ t \in Seq(Events) /\ e \in Events
  BY <1>1, MyUserType, SeqMonotonic
<1>3. Paused \in Seq(Events) /\ Len(Paused) = 1
  BY PausedIs
<1>4. Append(q, e) = Joined(Joined(l, Paused), Append(t, e))
  BY <1>1, <1>2, <1>3, SplitAppend
<1>5. Append(t, e) \in Seq(MyUser)
  BY <1>1, AppendProperties
<1>. QED  BY <1>1, <1>4, <1>5, Zenon DEF Split

\* The filter takes one phase to another.
LEMMA PhasesKept ==
  ASSUME Types, Books, Phases, pace # "any", filter_key
  PROVE  Phases'
<1>. DEFINE ev == Head(queue)
            q == Tail(queue)
<1>1. pace' = pace /\ MyUser' = MyUser
  <2>1. pace' = pace
    BY FilterKinds DEF settings
  <2>. QED  BY <2>1 DEF MyUser
<1>2. Patience'
  BY <1>1, PatienceKept DEF Patience
<1>3. SUFFICES Idle' \/ Deleting' \/ Committing'
  BY <1>2 DEF Phases
<1>4. BackCount \in Nat /\ q \in Seq(Events)
  BY FilterKinds DEF Types
<1>5. \A r, l, t : Split(r, l, t)' <=> Split(r, l, t)
  BY <1>1 DEF Split
<1>6. CASE /\ Idle /\ ev \in MyUser /\ q \in Seq(MyUser)
           /\ pace = "waits" => q = <<>>
           /\ Acts(ev) \/ Promises(ev) \/ Deletes(ev)
  <2>1. CASE Acts(ev)
    BY <1>1, <1>6, <2>1 DEF Acts, Idle, commit
  <2>2. CASE Promises(ev)
    <3>1. PICK b \in 1 .. MaxBacks : PutBackspaces(b)
      BY <2>2 DEF Promises
    <3>2. b \in Nat
      BY BoundsAssumption
    <3>3. queue' = q \o Fakes(b) \o <<PauseKey>> /\ PendingBuf' /\ BackCount' = b
      BY <3>1 DEF PutBackspaces
    <3>. HIDE DEF q
    <3>4. /\ Split(q \o Fakes(b) \o <<PauseKey>>, q \o Fakes(b), <<>>)
          /\ HowMany(q \o Fakes(b), Fake) = b
      BY <1>6, <3>2, BeginsCommit
    <3>5. \E l, t : Split(queue', l, t) /\ HowMany(l, Fake) = BackCount'
      BY <3>3, <3>4, Zenon
    <3>. QED  BY <1>1, <3>3, <3>5 DEF Committing, Split, Fake
  <2>3. CASE Deletes(ev)
    <3>1. PICK b \in 1 .. MaxBacks : queue' = q \o Fakes(b - 1) /\ BackCount' = b - 1
      BY <2>3 DEF Deletes
    <3>2. b - 1 \in Nat
      BY BoundsAssumption
    <3>3. pace = "waits" /\ q = <<>> /\ ~PendingBuf'
      BY <1>6, <2>3 DEF MyUser, Deletes, Idle
    <3>. DEFINE f == Fakes(b - 1)
    <3>4. f \in Seq(Fake) /\ Len(f) = b - 1
      BY <3>2, FakesCount DEF Fake
    <3>. HIDE DEF f, q
    <3>5. q \o f = f
      BY <3>3, <3>4, ConcatEmptySeq
    <3>6. queue' = f
      BY <3>1, <3>5 DEF f
    <3>. QED  BY <1>1, <3>1, <3>3, <3>4, <3>6 DEF Deleting, Fake
  <2>. QED  BY <1>6, <2>1, <2>2, <2>3
<1>7. CASE Deleting /\ CountsBack(ev) /\ q \in Seq(Fake) /\ Len(q) = BackCount - 1
  BY <1>1, <1>7 DEF Deleting, CountsBack, Fake
<1>8. ASSUME PendingBuf, NEW l, NEW t, Split(q, l, t), CountsBack(ev), HowMany(l, Fake) = BackCount - 1
      PROVE  Committing'
  <2>1. queue' = q /\ BackCount' = BackCount - 1 /\ PendingBuf'
    BY <1>8 DEF CountsBack
  <2>. QED  BY <1>1, <1>8, <2>1 DEF Committing, Split, Fake
<1>9. ASSUME PendingBuf, NEW l, NEW t, Split(q, l, t), MakesWait(ev), ev \in MyUser,
             HowMany(l, Fake) = BackCount
      PROVE  Committing'
  <2>1. queue' = Append(q, ev) /\ BackCount' = BackCount /\ PendingBuf'
    BY <1>9 DEF MakesWait, PutBack, commit
  <2>2. Split(Append(q, ev), l, Append(t, ev))
    BY <1>9, JoinsLater, Zenon
  <2>. HIDE DEF q, ev
  <2>7. Split(queue', l, Append(t, ev))
    BY <2>1, <2>2
  <2>. QED  BY <1>1, <1>9, <2>1, <2>7 DEF Committing, Split, Fake
<1>10. CASE PendingBuf /\ BackCount = 0 /\ Commits(ev) /\ q \in Seq(MyUser)
  BY <1>1, <1>10 DEF Commits, Idle
<1>. QED  BY <1>6, <1>7, <1>8, <1>9, <1>10, PhaseKinds

\* A key that such a user types joins the keys, or those behind the Pause.
LEMMA PhasesPressed ==
  ASSUME Types, Books, Phases, pace # "any", NEW type \in KeyTypes, Press(type)
  PROVE  Phases'
<1>. DEFINE ev == [type |-> type, n |-> typed + 1]
            k == typed + 1
<1>1. /\ pace' = pace /\ MyUser' = MyUser
      /\ queue' = Append(queue, ev) /\ waiting' = Append(waiting, k)
      /\ PendingBuf' = PendingBuf /\ BackCount' = BackCount
  BY DEF Press, settings, commit, MyUser
<1>2. k \in 1 .. MaxKeys /\ ev \in Events /\ ev.n # 0 /\ ev.type = type
  BY BoundsAssumption DEF Types, Numbers, Press, Events
<1>3. pace = "waits" \/ type = "char"
  BY DEF Press, MayType
<1>4. ev \in MyUser
  BY <1>2, <1>3 DEF MyUser
<1>5. waiting \in Seq(1 .. MaxKeys) /\ queue \in Seq(Events) /\ BackCount \in Nat
  BY DEF Types
<1>6. pace = "waits" => queue = <<>>
  BY DEF Press, MayType, Settled
<1>7. queue = <<>> => Idle /\ waiting = <<>>
  <2>. SUFFICES ASSUME queue = <<>>  PROVE Idle /\ waiting = <<>>
    OBVIOUS
  <2>1. Len(queue) = 0 /\ queue \in Seq(MyUser)
    BY EmptySeq
  <2>2. ~Committing
    <3>. SUFFICES ASSUME NEW l, NEW t, Split(queue, l, t)  PROVE FALSE
      BY DEF Committing
    <3>1. l \in Seq(Events) /\ t \in Seq(Events) /\ queue = Joined(Joined(l, Paused), t)
      BY MyUserType, SeqMonotonic DEF Split
    <3>2. Len(queue) = Len(l) + 1 + Len(t)
      BY <3>1, PausedIs, SplitCount
    <3>3. Len(l) \in Nat /\ Len(t) \in Nat
      BY <3>1, LenProperties
    <3>. QED  BY <2>1, <3>2, <3>3
  <2>3. Idle
    BY <2>1, <2>2 DEF Phases, Idle, Deleting
  <2>4. HowMany(queue, Of(1 .. MaxKeys)) = 0
    <3>1. \A i \in 1 .. Len(queue) : queue[i] \notin Of(1 .. MaxKeys)
      BY <2>1
    <3>. QED  BY <1>5, <3>1, CountSome, Zenon
  <2>5. HowMany(waiting, 1 .. MaxKeys) = Len(waiting)
    <3>1. \A i \in 1 .. Len(waiting) : waiting[i] \in 1 .. MaxKeys
      BY <1>5, ElementOfSeq
    <3>. QED  BY <1>5, <3>1, CountAll
  <2>6. Len(waiting) = 0
    BY <2>4, <2>5 DEF Books
  <2>. QED  BY <1>5, <2>3, <2>6, EmptySeq
<1>. HIDE DEF ev, k
<1>8. pace # "ahead" => Len(waiting') <= 1
  <2>1. pace # "ahead" => waiting = <<>>
    BY <1>6, <1>7 DEF Press, MayType
  <2>2. Len(Append(waiting, k)) = Len(waiting) + 1 /\ Len(<<>>) = 0
    BY <1>2, <1>5, AppendProperties, EmptySeq
  <2>. QED  BY <1>1, <2>1, <2>2
<1>9. CASE Idle
  <2>1. queue \in Seq(MyUser)
    BY <1>9 DEF Idle
  <2>2. queue' \in Seq(MyUser)
    BY <1>1, <1>4, <2>1, AppendProperties
  <2>3. Idle'
    BY <1>1, <1>9, <2>2 DEF Idle
  <2>. QED  BY <1>8, <2>3, <1>1 DEF Phases, Patience
<1>10. CASE ~Idle
  <2>1. Committing /\ pace # "waits"
    BY <1>6, <1>7, <1>10 DEF Phases, Deleting
  <2>2. PICK l, t : Split(queue, l, t) /\ HowMany(l, Fake) = BackCount
    BY <2>1 DEF Committing, Fake
  <2>3. Split(Append(queue, ev), l, Append(t, ev))
    BY <1>4, <2>2, JoinsLater, Zenon
  <2>8. Split(queue', l, Append(t, ev))
    BY <1>1, <2>3
  <2>9. Committing'
    BY <1>1, <2>1, <2>2, <2>8 DEF Committing, Split, Fake
  <2>. QED  BY <1>1, <1>8, <2>1, <2>9 DEF Phases, Patience
<1>. QED  BY <1>9, <1>10
-----------------------------------------------------------------------------
(* The text owed. *)

\* The letters that are still to come.
Answered == IF PendingBuf THEN UnikeyBuf ELSE <<>>

\* What is owed, by what is counted.
OwedByCount == pace # "any" => Owed = Rewritten(screen, BackCount, Answered)

LEMMA OwedIs == Types /\ Phases => OwedByCount
  BY PhaseCounts DEF Owed, OwedByCount, Answered

\* The same after a step.
LEMMA OwedNext == Types' /\ Phases' => OwedByCount'
  BY OwedIs, PTL

\* The keys that can be taken change the text owed, and the engine's, once.
TakesKey ==
  \E i \in 1 .. Len(waiting), b \in 0 .. MaxBacks, c, d \in 0 .. MaxLetters :
    /\ pace # "ahead" => i = 1
    /\ waiting' = RemoveAt(waiting, i)
    /\ Owed' = Rewritten(Owed, b, Letters(waiting[i], c))
    /\ word' = Rewritten(word, b, Letters(waiting[i], d))
    /\ ~toneMoves => c = d

\* A step of the filter takes a key and rewrites what is owed and the engine's text
\* in the same way, or leaves both and the waiting keys alone.
LEMMA TextStep ==
  ASSUME Types, Books, Phases, Types', Phases', pace # "any", filter_key
  PROVE  TakesKey \/ (Owed' = Owed /\ word' = word /\ waiting' = waiting)
<1>. DEFINE ev == Head(queue)
            q == Tail(queue)
            n == ev.n
<1>1. pace' = pace /\ queue # <<>> /\ ev \in Events
  BY FilterKinds DEF settings
<1>2. Owed = Rewritten(screen, BackCount, Answered) /\ Owed' = Rewritten(screen', BackCount', Answered')
  BY <1>1, OwedNext, OwedIs DEF OwedByCount
<1>3. /\ screen \in Seq(Numbers) /\ screen' \in Seq(Numbers) /\ Answered \in Seq(Numbers)
      /\ UnikeyBuf \in Seq(Numbers) /\ <<>> \in Seq(Numbers) /\ BackCount \in Nat
  BY EmptySeq DEF Types, Answered
<1>4. \A t \in Seq(Numbers) : Rewritten(t, 0, <<>>) = t
  BY 0 \in Nat, <1>3, RewrittenType
<1>5. 0 .. MaxBacks \subseteq Nat /\ 0 .. MaxLetters \subseteq Nat /\ 1 .. MaxBacks \subseteq 0 .. MaxBacks
      /\ 0 \in 0 .. MaxLetters
  BY BoundsAssumption
<1>6. \A a, b \in Nat : \A t, s \in Seq(Numbers) :
        Rewritten(Rewritten(t, a, <<>>), b, s) = Rewritten(t, a + b, s)
  BY RewrittenTwice
<1>7. Letters(n, 0) = <<>>
  <2>. n \in Numbers
    BY <1>1 DEF Events, Numbers
  <2>. QED  BY LettersType
<1>8. ASSUME n # 0, Taken(ev), NEW b \in 0 .. MaxBacks, NEW c \in 0 .. MaxLetters, NEW d \in 0 .. MaxLetters,
             Owed' = Rewritten(Owed, b, Letters(n, c)), word' = Rewritten(word, b, Letters(n, d)),
             ~toneMoves => c = d
      PROVE  TakesKey
  <2>1. PICK i \in 1 .. Len(waiting) : waiting[i] = n /\ waiting' = RemoveAt(waiting, i)
    BY <1>1, <1>8, TakesOne
  <2>2. pace # "ahead" => i = 1
    <3>1. Len(waiting) \in Nat
      BY LenProperties DEF Types
    <3>2. pace # "ahead" => Len(waiting) <= 1
      BY DEF Phases, Patience
    <3>. QED  BY <3>1, <3>2
  <2>. QED  BY <1>8, <2>1, <2>2 DEF TakesKey
<1>9. ASSUME n = 0, Taken(ev)  PROVE waiting' = waiting
  BY <1>1, <1>9, TakesOne
<1>10. FakeBackSpace.n = 0 /\ PauseKey.n = 0
  BY DEF FakeBackSpace, PauseKey
<1>11. ASSUME ev = FakeBackSpace, CountsBack(ev)
       PROVE  Owed' = Owed /\ word' = word /\ waiting' = waiting
  <2>1. /\ BackCount > 0 /\ BackCount' = BackCount - 1 /\ Taken(ev)
        /\ screen' = Rewritten(screen, 1, <<>>) /\ UNCHANGED <<PendingBuf, UnikeyBuf, word>>
    BY <1>11 DEF CountsBack
  <2>2. Answered' = Answered
    BY <2>1 DEF Answered
  <2>3. BackCount - 1 \in Nat /\ 1 \in Nat /\ 1 + (BackCount - 1) = BackCount
    BY <1>3, <2>1
  <2>4. Rewritten(Rewritten(screen, 1, <<>>), BackCount - 1, Answered) = Rewritten(screen, BackCount, Answered)
    <3>1. Rewritten(Rewritten(screen, 1, <<>>), BackCount - 1, Answered)
            = Rewritten(screen, 1 + (BackCount - 1), Answered)
      BY <1>3, <1>6, <2>3
    <3>. QED  BY <2>3, <3>1
  <2>5. waiting' = waiting
    BY <1>9, <1>10, <1>11, <2>1
  <2>. QED  BY <1>2, <2>1, <2>2, <2>4, <2>5
<1>12. CASE Idle /\ ev \in MyUser /\ (Acts(ev) \/ Promises(ev) \/ Deletes(ev))
  <2>1. n # 0 /\ ~PendingBuf /\ BackCount = 0 /\ Taken(ev)
    BY <1>12 DEF MyUser, Idle, Acts, Promises, Deletes
  <2>2. Owed = screen
    BY <1>2, <1>3, <1>4, <2>1 DEF Answered
  <2>3. CASE Acts(ev)
    <3>1. BackCount' = 0 /\ ~PendingBuf'
      BY <2>1, <2>3 DEF Acts, commit
    <3>2. Owed' = screen'
      BY <1>2, <1>3, <1>4, <3>1 DEF Answered
    <3>3. PICK b \in 0 .. MaxBacks, c \in 0 .. MaxLetters :
            /\ screen' = Rewritten(screen, b, Letters(n, c))
            /\ word' = Rewritten(word, b, Letters(n, c))
      BY <2>3 DEF Acts
    <3>. QED  BY <1>8, <2>1, <2>2, <3>2, <3>3
  <2>4. CASE Promises(ev)
    <3>1. PICK b \in 1 .. MaxBacks, c \in 0 .. MaxLetters :
            /\ PutBackspaces(b)
            /\ UnikeyBuf' = Letters(n, c) /\ word' = Rewritten(word, b, Letters(n, c))
      BY <2>4 DEF Promises
    <3>2. BackCount' = b /\ PendingBuf' /\ screen' = screen
      BY <3>1 DEF PutBackspaces
    <3>3. Owed' = Rewritten(screen, b, Letters(n, c))
      BY <1>2, <3>1, <3>2 DEF Answered
    <3>. QED  BY <1>5, <1>8, <2>1, <2>2, <3>1, <3>3
  <2>5. CASE Deletes(ev)
    <3>1. PICK b \in 1 .. MaxBacks, c \in 0 .. MaxLetters :
            /\ BackCount' = b - 1 /\ word' = Rewritten(word, b, Letters(n, c))
            /\ c > 0 => toneMoves
      BY <2>5 DEF Deletes
    <3>2. ~PendingBuf' /\ screen' = Rewritten(screen, 1, <<>>)
      BY <2>1, <2>5 DEF Deletes
    <3>3. b \in Nat \ {0} /\ b \in 0 .. MaxBacks /\ c \in Nat
      BY BoundsAssumption
    <3>4. Rewritten(Rewritten(screen, 1, <<>>), b - 1, <<>>) = Rewritten(screen, b, <<>>)
      BY <1>3, <3>3, RewrittenBack
    <3>5. Owed' = Rewritten(Owed, b, Letters(n, 0))
      BY <1>2, <1>7, <2>2, <3>1, <3>2, <3>3, <3>4 DEF Answered
    <3>6. ~toneMoves => 0 = c
      BY <3>1, <3>3
    <3>. QED  BY <1>5, <1>8, <2>1, <3>1, <3>3, <3>5, <3>6
  <2>. QED  BY <1>12, <2>3, <2>4, <2>5
<1>13. CASE MakesWait(ev)
  BY <1>2, <1>13 DEF MakesWait, PutBack, commit, engine, Answered
<1>14. CASE PendingBuf /\ BackCount = 0 /\ ev = PauseKey /\ Commits(ev)
  <2>1. /\ screen' = screen \o UnikeyBuf /\ ~PendingBuf' /\ BackCount' = 0 /\ word' = word /\ Taken(ev)
    BY <1>14 DEF Commits
  <2>2. Owed = screen \o UnikeyBuf
    <3>1. Rewritten(screen, 0, UnikeyBuf) = screen \o UnikeyBuf
      BY <1>3, 0 \in Nat, RewrittenType
    <3>. QED  BY <1>2, <1>14, <3>1 DEF Answered
  <2>3. Owed' = screen'
    BY <1>2, <1>3, <1>4, <2>1 DEF Answered
  <2>4. waiting' = waiting
    BY <1>9, <1>10, <1>14, <2>1
  <2>. QED  BY <2>1, <2>2, <2>3, <2>4
<1>. HIDE DEF ev, q
<1>. QED  BY <1>11, <1>12, <1>13, <1>14, PhaseKinds DEF ev
-----------------------------------------------------------------------------
(* The invariant, and what follows from it. *)

\* The inductive invariant.
Inv == Types /\ Books /\ CountInv /\ Phases /\ OwesWord

\* A key that is typed changes no text.
LEMMA PressOwes ==
  ASSUME Types, Phases, NEW type \in KeyTypes, Press(type)
  PROVE  Owed' = Owed /\ word' = word /\ toneMoves' = toneMoves /\ pace' = pace
<1>. DEFINE ev == [type |-> type, n |-> typed + 1]
            F == {FakeBackSpace}
<1>1. /\ queue' = Append(queue, ev)
      /\ UNCHANGED <<PendingBuf, UnikeyBuf, screen, word, toneMoves, pace>>
  BY DEF Press, commit, engine, settings
<1>2. queue \in Seq(Events) /\ ev \in Events /\ ev \notin F
  BY BoundsAssumption DEF Types, Press, Events, Numbers, FakeBackSpace
<1>. HIDE DEF ev, F
<1>3. HowMany(Append(queue, ev), F) = HowMany(queue, F)
  BY <1>2, CountAppend
<1>4. FakesComing' = FakesComing
  BY <1>1, <1>3 DEF FakesComing, F
<1>. QED  BY <1>1, <1>4 DEF Owed

\* What the invariant is about, and the other actions leave alone.
Kept == <<queue, waiting, typed, commit, screen, word, UnikeyBuf, settings>>

\* It holds at first.
LEMMA InvInit == Init => Inv
<1>. SUFFICES ASSUME Init  PROVE Inv
  OBVIOUS
<1>1. /\ queue = <<>> /\ waiting = <<>> /\ typed = 0 /\ BackCount = 0 /\ ~PendingBuf
      /\ screen = <<>> /\ word = <<>> /\ UnikeyBuf = <<>>
  BY DEF Init
<1>2. Types
  BY <1>1, EmptySeq, BoundsAssumption DEF Types, Numbers
<1>3. \A S : HowMany(<<>>, S) = 0
  <2>1. <<>> \in Seq(Events) /\ Len(<<>>) = 0
    BY EmptySeq
  <2>2. \A S : \A i \in 1 .. Len(<<>>) : <<>>[i] \notin S
    BY <2>1
  <2>. QED  BY <2>1, <2>2, CountSome, Zenon
<1>4. FakesComing = 0
  BY <1>1, <1>3 DEF FakesComing
<1>5. Books /\ CountInv
  BY <1>1, <1>3, <1>4 DEF Books, CountInv
<1>6. Phases
  BY <1>1, EmptySeq DEF Phases, Idle, Patience
<1>7. OwesWord
  <2>1. Rewritten(<<>>, 0, <<>>) = <<>>
    BY 0 \in Nat, EmptySeq, RewrittenType
  <2>. QED  BY <1>1, <1>4, <2>1 DEF OwesWord, Owed
<1>. QED  BY <1>2, <1>5, <1>6, <1>7 DEF Inv

\* It is kept by what changes none of this.
LEMMA InvKept == Inv /\ UNCHANGED Kept => Inv'
<1>. SUFFICES ASSUME Inv, UNCHANGED Kept  PROVE Inv'
  OBVIOUS
<1>1. UNCHANGED <<queue, waiting, typed, PendingBuf, BackCount, screen, word, UnikeyBuf, pace, toneMoves>>
  BY DEF Kept, commit, settings
<1>2. Types' /\ Books' /\ CountInv'
  BY <1>1 DEF Inv, Types, Books, CountInv, FakesComing
<1>3. MyUser' = MyUser
  BY <1>1 DEF MyUser
<1>4. Idle' = Idle /\ Deleting' = Deleting /\ Committing' = Committing
  BY <1>1, <1>3 DEF Idle, Deleting, Committing, Split
<1>5. Phases'
  BY <1>1, <1>4 DEF Inv, Phases, Patience
<1>6. OwesWord'
  BY <1>1 DEF Inv, OwesWord, Owed, FakesComing
<1>. QED  BY <1>2, <1>5, <1>6 DEF Inv

\* It is kept by every step.
LEMMA InvStep == Inv /\ [Next]_vars => Inv'
<1>. SUFFICES ASSUME Inv, [Next]_vars  PROVE Inv'
  OBVIOUS
<1>. USE DEF Inv
<1>1. CASE filter_key
  <2>1. Types' /\ Books' /\ CountInv'
    BY <1>1, TypesKept, BooksKept, CountKept
  <2>2. pace' = pace /\ toneMoves' = toneMoves
    BY <1>1, FilterKinds DEF settings
  <2>3. Phases'
    BY <1>1, <2>2, PhasesKept DEF Phases
  <2>4. OwesWord'
    <3>. SUFFICES ASSUME pace # "any", ~toneMoves  PROVE Owed' = word'
      BY <2>2 DEF OwesWord
    <3>1. Owed = word
      BY DEF OwesWord
    <3>. QED  BY <1>1, <2>1, <2>3, <3>1, TextStep DEF TakesKey
  <2>. QED  BY <2>1, <2>3, <2>4
<1>2. CASE \E type \in KeyTypes : Press(type)
  <2>1. PICK type \in KeyTypes : Press(type)
    BY <1>2
  <2>2. Types' /\ Books' /\ CountInv'
    BY <2>1, PressKeeps
  <2>3. Owed' = Owed /\ word' = word /\ toneMoves' = toneMoves /\ pace' = pace
    BY <2>1, PressOwes
  <2>4. Phases'
    BY <2>1, <2>3, PhasesPressed DEF Phases
  <2>. QED  BY <2>2, <2>3, <2>4 DEF OwesWord
<1>3. CASE UNCHANGED Kept
  BY <1>3, InvKept
<1>4. CASE \/ focus_out \/ reset \/ MethodChanged \/ VisibleChanged
           \/ \E on \in BOOLEAN : SetMethod(on)
  <2>1. UNCHANGED Kept
    BY <1>4 DEF focus_out, reset, MethodChanged, VisibleChanged, SetMethod, OutsideWorld, Kept
  <2>. QED  BY <2>1, <1>3
<1>5. CASE UNCHANGED vars
  <2>1. UNCHANGED Kept
    BY <1>5 DEF vars, engine, Kept
  <2>. QED  BY <2>1, <1>3
<1>. QED  BY <1>1, <1>2, <1>4, <1>5 DEF Next

\* Every BackSpace that is counted is in the queue, for every user; and for one who
\* waits, every BackSpace of the module in the queue is counted.
THEOREM AlwaysFakesCounted == Spec => []FakesCounted
<1>1. Inv => FakesCounted
  BY PhaseCounts DEF Inv, CountInv, FakesCounted
<1>. QED  BY <1>1, InvInit, InvStep, PTL DEF Spec

\* For a user who waits before BackSpace and shortcuts, the BackSpaces and the commit
\* under way lead to the text the engine believes in, unless a BackSpace moves
\* the tone: for any number of keys and any answers of the engine.
THEOREM AlwaysOwesWord == Spec => []OwesWord
<1>1. Inv => OwesWord
  BY DEF Inv
<1>. QED  BY <1>1, InvInit, InvStep, PTL DEF Spec

\* The steps of KeysAtOnce, for the text owed.
LEMMA AtOnceMeans ==
  /\ AtOnce!Next <=> \/ \E n \in 1 .. MaxKeys : /\ waiting' = Append(waiting, n)
                                                /\ (pace # "ahead")' = (pace # "ahead") /\ Owed' = Owed
                     \/ \E i \in DOMAIN waiting :
                          /\ pace # "ahead" => i = 1
                          /\ waiting' = RemoveAt(waiting, i)
                          /\ \E b \in 0 .. MaxBacks, c \in 0 .. MaxLetters :
                               Owed' = Rewritten(Owed, b, Letters(waiting[i], c))
                          /\ (pace # "ahead")' = (pace # "ahead")
  BY DEF AtOnce!Next, AtOnce!Type, AtOnce!Take, AtOnce!Rewritten, AtOnce!Letters, RemoveAt, AtOnce!RemoveAt, Rewritten, Letters

\* Every step takes a key at once, is one of typing, or changes neither.
LEMMA TakesStep ==
  Inv /\ Inv' /\ [Next]_vars => [pace # "any" => AtOnce!Next]_<<waiting, Owed>>
<1>. SUFFICES ASSUME Inv, Inv', [Next]_vars, pace # "any", ~UNCHANGED <<waiting, Owed>>
              PROVE  AtOnce!Next
  OBVIOUS
<1>. USE DEF Inv
<1>1. CASE filter_key
  <2>1. TakesKey
    BY <1>1, TextStep
  <2>2. pace' = pace
    BY <1>1, FilterKinds DEF settings
  <2>3. DOMAIN waiting = 1 .. Len(waiting)
    BY LenProperties DEF Types
  <2>. QED  BY <2>1, <2>2, <2>3, AtOnceMeans DEF TakesKey
<1>2. CASE \E type \in KeyTypes : Press(type)
  <2>1. PICK type \in KeyTypes : Press(type)
    BY <1>2
  <2>2. Owed' = Owed /\ pace' = pace
    BY <2>1, PressOwes
  <2>3. waiting' = Append(waiting, typed + 1) /\ typed + 1 \in 1 .. MaxKeys
    BY <2>1, BoundsAssumption DEF Press, Types, Numbers
  <2>. QED  BY <2>2, <2>3, AtOnceMeans
<1>3. ~UNCHANGED Kept
  BY DEF Kept, commit, settings, Owed, FakesComing
<1>4. CASE \/ focus_out \/ reset \/ MethodChanged \/ VisibleChanged
           \/ \E on \in BOOLEAN : SetMethod(on)
  BY <1>3, <1>4 DEF focus_out, reset, MethodChanged, VisibleChanged, SetMethod, OutsideWorld, Kept
<1>5. CASE UNCHANGED vars
  BY <1>3, <1>5 DEF vars, engine, Kept
<1>. QED  BY <1>1, <1>2, <1>4, <1>5 DEF Next

\* The module implements KeysAtOnce: for such a user each key is taken once, and what
\* it does to the text is never taken apart by other keys.
THEOREM TakesKeys == Spec => TakesKeysAtOnce
<1>1. Init => AtOnce!Init
  <2>. SUFFICES ASSUME Init  PROVE AtOnce!Init
    OBVIOUS
  <2>1. waiting = <<>> /\ screen = <<>> /\ ~PendingBuf /\ BackCount = 0
    BY DEF Init
  <2>2. Inv
    BY InvInit
  <2>3. FakesComing = 0
    <3>1. queue = <<>>
      BY DEF Init
    <3>2. <<>> \in Seq(Events) /\ \A i \in 1 .. Len(<<>>) : <<>>[i] \notin {FakeBackSpace}
      BY EmptySeq
    <3>. QED  BY <3>1, <3>2, CountSome, Zenon DEF FakesComing
  <2>4. Rewritten(<<>>, 0, <<>>) = <<>>
    BY 0 \in Nat, EmptySeq, RewrittenType
  <2>. QED  BY <2>1, <2>3, <2>4 DEF AtOnce!Init, Owed
<1>. QED  BY <1>1, TakesStep, InvInit, InvStep, PTL DEF Spec, TakesKeysAtOnce
=============================================================================
