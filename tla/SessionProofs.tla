--------------------------- MODULE SessionProofs ----------------------------
(***************************************************************************)
(* What holds of a session with any number of windows, servers and deaths, *)
(* in whatever order signals arrive and X carries out what it is asked: a  *)
(* window does not start server after server when none of them comes to    *)
(* run, and once nobody has anything left to do the window and the server  *)
(* agree.                                                                  *)
(***************************************************************************)
EXTENDS Session, QueueLemmas

One(p) == IF p THEN 1 ELSE 0

\* A window that is not yet set up has launched nothing.  Later, a report has
\* been counted for each launch but one, and besides for the report that the
\* window remembers and for the one that is still a signal on its way.
Earned(r) ==
  /\ DOMAIN r = DOMAIN NewWindow
  /\ r.launches \in Nat /\ r.reports \in Nat
  /\ IF r.pc \in {"unused", "free", "second", "first"}
     THEN r.launches = 0 /\ ~r.XimLaunchOk /\ r.signals = {}
     ELSE r.launches + One(r.XimLaunchOk) + One("USR1" \in r.signals) <= r.reports + 1

AllEarned == DOMAIN window = Windows /\ \A w \in Windows : Earned(window[w])

\* The fields that a window has.
LEMMA WindowFields ==
  DOMAIN NewWindow =
    {"pc", "UnikeyOn", "UkActiveMethod", "UkActiveMode", "UkGUIVisible", "XimLaunchOk",
     "ChildPid", "signals", "launches", "reports"}
  BY DEF NewWindow
-----------------------------------------------------------------------------
(* What a step makes of the record of one window. *)

\* What properties show leaves the account alone.
LEMMA ShowingKeeps ==
  ASSUME NEW r, Earned(r)
  PROVE  /\ Earned(ShowCharset(r)) /\ ShowCharset(r).pc = r.pc
         /\ Earned(fixSyncToUnikeyMethod(r)) /\ fixSyncToUnikeyMethod(r).pc = r.pc
         /\ \A v : Earned([r EXCEPT !.UkGUIVisible = v])
  BY WindowFields DEF Earned, ShowCharset, fixSyncToUnikeyMethod

\* A signal of a process other than the report of one that runs.
LEMMA SignalKeeps ==
  ASSUME NEW r, Earned(r), r.pc = "up", NEW sig, sig # "USR1"
  PROVE  Earned([r EXCEPT !.signals = @ \cup {sig}])
  BY WindowFields DEF Earned, One

\* A report is counted when it is sent, to a window that heeds it or not.
LEMMA ReportKeeps ==
  ASSUME NEW r, Earned(r)
  PROVE  /\ Earned([r EXCEPT !.reports = @ + 1])
         /\ r.pc = "up" => Earned([[r EXCEPT !.signals = @ \cup {"USR1"}] EXCEPT !.reports = @ + 1])
  BY WindowFields DEF Earned, One

\* A signal that the window has heeded.
LEMMA HeededKeeps ==
  ASSUME NEW r, Earned(r), NEW sig \in r.signals
  PROVE  LET h == [r EXCEPT !.signals = @ \ {sig}]
         IN  /\ Earned(h) /\ h.pc = r.pc /\ h.pc \notin {"unused", "free", "second", "first"}
             /\ h.XimLaunchOk = r.XimLaunchOk /\ h.signals = r.signals \ {sig}
             /\ sig \in {"USR1", "USR2"} => Earned([h EXCEPT !.XimLaunchOk = (sig = "USR1")])
<1>. DEFINE h == [r EXCEPT !.signals = @ \ {sig}]
            g == [h EXCEPT !.XimLaunchOk = (sig = "USR1")]
<1>1. /\ DOMAIN h = DOMAIN NewWindow /\ h.pc = r.pc /\ h.launches = r.launches
      /\ h.reports = r.reports /\ h.XimLaunchOk = r.XimLaunchOk /\ h.signals = r.signals \ {sig}
  BY WindowFields DEF Earned
<1>2. /\ DOMAIN g = DOMAIN NewWindow /\ g.pc = r.pc /\ g.launches = r.launches
      /\ g.reports = r.reports /\ g.XimLaunchOk = (sig = "USR1") /\ g.signals = r.signals \ {sig}
  BY WindowFields DEF Earned
<1>3. /\ r.pc \notin {"unused", "free", "second", "first"}
      /\ r.launches \in Nat /\ r.reports \in Nat
      /\ r.launches + One(r.XimLaunchOk) + One("USR1" \in r.signals) <= r.reports + 1
  BY DEF Earned
<1>4. \A p : One(p) \in {0, 1}
  BY DEF One
<1>5. /\ One("USR1" \in r.signals \ {sig}) <= One("USR1" \in r.signals)
      /\ sig = "USR1" => One("USR1" \in r.signals \ {sig}) = 0 /\ One("USR1" \in r.signals) = 1
      /\ One(sig = "USR1") = IF sig = "USR1" THEN 1 ELSE 0
  BY DEF One
<1>. HIDE DEF h, g
<1>6. Earned(h)
  BY <1>1, <1>3, <1>4, <1>5 DEF Earned
<1>7. Earned(g)
  BY <1>2, <1>3, <1>4, <1>5 DEF Earned
<1>. QED  BY <1>1, <1>3, <1>6, <1>7 DEF h, g

\* A launch uses up the report that the window remembers; the first needs none.
LEMMA LaunchKeeps ==
  ASSUME NEW r, Earned(r), NEW s
  PROVE  /\ r.pc = "first" =>
              Earned([[r EXCEPT !.pc = "up"] EXCEPT !.ChildPid = s, !.launches = @ + 1])
         /\ r.XimLaunchOk =>
              Earned([[r EXCEPT !.XimLaunchOk = FALSE] EXCEPT !.ChildPid = s, !.launches = @ + 1])
<1>1. ASSUME r.pc = "first"
      PROVE  Earned([[r EXCEPT !.pc = "up"] EXCEPT !.ChildPid = s, !.launches = @ + 1])
  <2>. DEFINE n == [[r EXCEPT !.pc = "up"] EXCEPT !.ChildPid = s, !.launches = @ + 1]
  <2>1. /\ DOMAIN n = DOMAIN NewWindow /\ n.pc = "up" /\ n.launches = 1 /\ n.signals = {}
        /\ n.reports = r.reports /\ n.reports \in Nat /\ n.XimLaunchOk = r.XimLaunchOk
        /\ ~r.XimLaunchOk
    BY <1>1, WindowFields DEF Earned
  <2>2. One(n.XimLaunchOk) = 0 /\ One("USR1" \in n.signals) = 0
    BY <2>1 DEF One
  <2>. QED  BY <2>1, <2>2 DEF Earned
<1>2. ASSUME r.XimLaunchOk
      PROVE  Earned([[r EXCEPT !.XimLaunchOk = FALSE] EXCEPT !.ChildPid = s, !.launches = @ + 1])
  <2>. DEFINE n == [[r EXCEPT !.XimLaunchOk = FALSE] EXCEPT !.ChildPid = s, !.launches = @ + 1]
  <2>1. /\ DOMAIN n = DOMAIN NewWindow /\ n.pc = r.pc /\ n.launches = r.launches + 1
        /\ n.signals = r.signals /\ n.reports = r.reports /\ n.XimLaunchOk = FALSE
    BY WindowFields DEF Earned
  <2>2. /\ r.pc \notin {"unused", "free", "second", "first"}
        /\ r.launches \in Nat /\ r.reports \in Nat
        /\ r.launches + 1 + One("USR1" \in r.signals) <= r.reports + 1
    BY <1>2 DEF Earned, One
  <2>3. One(n.XimLaunchOk) = 0 /\ One("USR1" \in r.signals) \in Nat
    BY <2>1 DEF One
  <2>. HIDE DEF n
  <2>4. Earned(n)
    BY <2>1, <2>2, <2>3 DEF Earned
  <2>. QED  BY <2>4 DEF n
<1>. QED  BY <1>1, <1>2

\* The steps of a window up to its first launch, and its end.
LEMMA GoneKeeps ==
  ASSUME NEW r, Earned(r)
  PROVE  /\ Earned([r EXCEPT !.pc = "gone", !.signals = {}])
         /\ r.pc = "second" => Earned([r EXCEPT !.pc = "gone"])
         /\ r.pc = "unused" => Earned([r EXCEPT !.pc = "free"]) /\ Earned([r EXCEPT !.pc = "second"])
         /\ r.pc = "free" => Earned([r EXCEPT !.pc = "first", !.UkGUIVisible = TRUE])
  BY WindowFields DEF Earned, One

\* One window is replaced by a window whose account is right.
LEMMA OneChanges ==
  ASSUME AllEarned, NEW w \in Windows, NEW r, Earned(r), window' = [window EXCEPT ![w] = r]
  PROVE  AllEarned'
  BY DEF AllEarned, Earned

\* A signal to the parent of a server, other than its report.
LEMMA SignalledKeeps ==
  ASSUME AllEarned, NEW s, NEW sig, sig # "USR1", window' = Signalled(s, sig)
  PROVE  AllEarned'
  BY SignalKeeps DEF AllEarned, Signalled, Earned
-----------------------------------------------------------------------------
\* A window starts its server again only after the one before had reported that
\* it runs, for any number of processes, and however signals are delayed and
\* reordered (ximLaunchHandler, ximTerminatedHandler and childProcess of gui.c).
THEOREM AlwaysLaunchesEarned == Spec => []LaunchesEarned
<1>1. Init => AllEarned
  BY WindowFields DEF Init, AllEarned, Earned, NewWindow, One
<1>2. AllEarned /\ [Next]_vars => AllEarned'
  <2>. SUFFICES ASSUME AllEarned, [Next]_vars
                PROVE  AllEarned'
    OBVIOUS
  <2>1. CASE UNCHANGED window
    BY <2>1 DEF AllEarned, Earned
  <2>2. ASSUME NEW w \in Windows,
               \/ StartWindow(w) \/ WakeOther(w) \/ TakeWindow(w) \/ InitWindow(w)
               \/ ShowProperty(w) \/ ximLaunchHandler(w) \/ ximTerminatedHandler(w)
               \/ Click(w) \/ reloadXimConfig(w) \/ CloseWindow(w)
        PROVE  AllEarned'
    <3>1. Earned(window[w])
      BY DEF AllEarned
    <3>2. CASE StartWindow(w)
      BY <3>1, <3>2, GoneKeeps, OneChanges DEF StartWindow
    <3>3. CASE WakeOther(w) \/ TakeWindow(w) \/ CloseWindow(w)
      <4>1. CASE WakeOther(w)
        BY <3>1, <4>1, GoneKeeps, OneChanges DEF WakeOther
      <4>2. CASE TakeWindow(w)
        <5>1. window' = [window EXCEPT ![w] = [window[w] EXCEPT !.pc = "first", !.UkGUIVisible = TRUE]]
          BY <4>2 DEF TakeWindow, AllEarned
        <5>. QED  BY <3>1, <4>2, <5>1, GoneKeeps, OneChanges DEF TakeWindow
      <4>3. CASE CloseWindow(w)
        <5>1. window' = [window EXCEPT ![w] = [window[w] EXCEPT !.pc = "gone", !.signals = {}]]
          BY <4>3 DEF CloseWindow, AllEarned
        <5>. QED  BY <3>1, <5>1, GoneKeeps, OneChanges
      <4>. QED  BY <3>3, <4>1, <4>2, <4>3
    <3>4. CASE InitWindow(w)
      <4>. DEFINE r == ShowCharset(fixSyncToUnikeyMethod(window[w]))
      <4>1. Earned(r) /\ r.pc = "first"
        BY <3>1, <3>4, ShowingKeeps DEF InitWindow
      <4>2. \E s : window' = [window EXCEPT ![w] = [[r EXCEPT !.pc = "up"] EXCEPT !.ChildPid = s, !.launches = @ + 1]]
        BY <3>4 DEF InitWindow, Forked
      <4>. QED  BY <4>1, <4>2, LaunchKeeps, OneChanges
    <3>5. CASE ShowProperty(w)
      BY <3>1, <3>5, ShowingKeeps, OneChanges DEF ShowProperty
    <3>6. CASE ximLaunchHandler(w)
      <4>1. PICK sig \in window[w].signals \cap {"USR1", "USR2"} :
              window' = [window EXCEPT ![w] = [Without(w, sig) EXCEPT !.XimLaunchOk = (sig = "USR1")]]
        BY <3>6 DEF ximLaunchHandler
      <4>2. Earned([Without(w, sig) EXCEPT !.XimLaunchOk = (sig = "USR1")])
        BY <3>1, <4>1, HeededKeeps DEF Without
      <4>. QED  BY <4>1, <4>2, OneChanges
    <3>7. CASE ximTerminatedHandler(w)
      <4>. DEFINE h == Without(w, "CHLD")
      <4>1. Earned(h) /\ h.XimLaunchOk = window[w].XimLaunchOk
        BY <3>1, <3>7, HeededKeeps DEF ximTerminatedHandler, Without
      <4>2. CASE window[w].XimLaunchOk
        <5>1. \E s : window' = [window EXCEPT ![w] = [[h EXCEPT !.XimLaunchOk = FALSE] EXCEPT !.ChildPid = s, !.launches = @ + 1]]
          BY <3>7, <4>2 DEF ximTerminatedHandler, Forked
        <5>. QED  BY <4>1, <4>2, <5>1, LaunchKeeps, OneChanges
      <4>3. CASE ~window[w].XimLaunchOk
        BY <3>7, <4>1, <4>3, OneChanges DEF ximTerminatedHandler
      <4>. QED  BY <4>2, <4>3
    <3>8. CASE Click(w) \/ reloadXimConfig(w)
      BY <2>1, <3>8 DEF Click, reloadXimConfig
    <3>. QED  BY <2>2, <3>2, <3>3, <3>4, <3>5, <3>6, <3>7, <3>8
  <2>3. ASSUME NEW s \in Servers,
               \/ StartServer(s) \/ EndRefused(s) \/ TakeServer(s) \/ Configure(s)
               \/ Report(s) \/ signalSetup(s) \/ HeedProperty(s) \/ ReadMethod(s)
               \/ UseMethod(s) \/ PressKey(s) \/ Signal(s)
        PROVE  AllEarned'
    <3>1. CASE StartServer(s) \/ EndRefused(s) \/ Signal(s)
      BY <2>1, <3>1, SignalledKeeps DEF StartServer, EndRefused, Signal, Ends
    <3>2. CASE Report(s)
      BY <3>2, ReportKeeps DEF Report, Signalled, AllEarned, Earned
    <3>. QED
      BY <2>1, <2>3, <3>1, <3>2
         DEF TakeServer, Configure, signalSetup, HeedProperty, ReadMethod, UseMethod, PressKey
  <2>4. CASE Crash
    <3>1. CASE \E s \in Servers : \E n \in Left(s) : Ends(s, n)
      BY <3>1, SignalledKeeps DEF Ends
    <3>2. ASSUME NEW w \in Windows, window' = [window EXCEPT ![w].pc = "gone", ![w].signals = {}]
          PROVE  AllEarned'
      BY <3>2, GoneKeeps, OneChanges DEF AllEarned
    <3>. QED  BY <2>4, <3>1, <3>2 DEF Crash
  <2>. QED
    BY <2>1, <2>2, <2>3, <2>4 DEF Next, ChangeProperty, AppChanges, vars
<1>3. AllEarned => LaunchesEarned
  BY DEF AllEarned, LaunchesEarned, Earned, One
<1>. QED  BY <1>1, <1>2, <1>3, PTL DEF Spec
-----------------------------------------------------------------------------
(* What a process shows or does, and the properties. *)

\* The properties there are.
Props == {"Method", "Using", "Charset", "Visible"}

\* What clients write into a property, and what they ask of X.
ValuesOf(a) ==
  IF a = "Visible" THEN BOOLEAN ELSE IF a = "Charset" THEN ToSet(Charsets) ELSE ToSet(Methods) \cup {"OFF"}
Requests == {r \in Props \X UNION {ValuesOf(a) : a \in Props} : r[2] \in ValuesOf(r[1])}

\* Is property a among the events q?  Is it among the requests o?
Has(q, a) == \E i \in 1 .. Len(q) : q[i] = a
Asks(o, a) == \E i \in 1 .. Len(o) : o[i][1] = a

\* UkGetPropValue with the properties p.
PropOf(p, a, default) == IF p[a] = None THEN default ELSE p[a]

\* A window that is up shows a property or is told of it.
Shown(r, q, p) ==
  /\ Has(q, "Charset") \/ r.UkActiveMode = PropOf(p, "Charset", "UTF8")
  /\ \/ Has(q, "Method")
     \/ LET v == PropOf(p, "Method", "TELEX")
        IN  r.UnikeyOn = (v # "OFF") /\ (v # "OFF" => r.UkActiveMethod = v)
  /\ Has(q, "Visible") \/ r.UkGUIVisible = PropOf(p, "Visible", FALSE)

\* A window r that is told of the properties q and asks for o, when they are p.  One that
\* is about to be set up has yet to be told of its own first request.
WindowOK(r, q, o, p) ==
  /\ DOMAIN r = DOMAIN NewWindow
  /\ r.UkActiveMethod \in ToSet(Methods) /\ r.UkActiveMode \in ToSet(Charsets)
  /\ r.pc = "first" => Has(q, "Visible") \/ Asks(o, "Visible")
  /\ r.pc = "up" => Shown(r, q, p)

\* A server that is set up does what a property says, is told of it or has asked to
\* change it; the method it has read and not used is the one there is, or it is told.
Heeds(r, q, o, p) ==
  /\ \/ Has(q, "Charset") \/ Asks(o, "Charset")
     \/ LET v == PropOf(p, "Charset", "UTF8") IN r.GlobalOpt.charset = v /\ r.imCharset = v
  /\ \/ Has(q, "Method") \/ Asks(o, "Method")
     \/ LET v == PropOf(p, "Method", "TELEX")
            opt == r.GlobalOpt
        IN  IF r.seen # None THEN r.seen = v
            ELSE /\ opt.enabled = (v # "OFF")
                 /\ v # "OFF" => /\ opt.method = v
                                 /\ r.imMethod = v \/ (v = "USER" /\ ~opt.usrMap)
  /\ Has(q, "Visible") \/ r.UkGUIVisible = PropOf(p, "Visible", FALSE)

\* A server r, likewise.
ServerOK(r, q, o, p) ==
  /\ DOMAIN r = DOMAIN NewServer /\ r.GlobalOpt \in Options
  /\ r.seen \in {None, "OFF"} \cup ToSet(Methods) /\ (r.seen # None => r.pc = "up")
  /\ r.pc \in {"ready", "reported", "up"} => Heeds(r, q, o, p)

\* What FilesAssumption says of a file.
FileOK(f) == \E opt \in Options : \A k \in DOMAIN f : k \in DOMAIN opt /\ f[k] = opt[k]

\* What requests, events and the option file hold.
TypesOK ==
  /\ DOMAIN prop = Props /\ \A a \in Props : prop[a] \in ValuesOf(a) \cup {None}
  /\ out \in [Clients -> Seq(Requests)]
  /\ events \in [Windows \cup Servers -> Seq(Props)]
  /\ DOMAIN window = Windows /\ DOMAIN server = Servers
  /\ FileOK(file)

\* The inductive invariant: all processes are in step with the properties, or are told,
\* or have asked, of what they are not in step with.
AllInStep ==
  /\ \A w \in Windows : WindowOK(window[w], events[w], out[w], prop)
  /\ \A s \in Servers : ServerOK(server[s], events[s], out[s], prop)

SessionInv == TypesOK /\ AllInStep

\* The names there are.
LEMMA NamesAre ==
  /\ ToSet(Methods) = {"TELEX", "VNI", "USER"} /\ ToSet(Charsets) = {"UTF8", "TCVN"}
  /\ \A a \in Props : a \in {"Method", "Using"} => ValuesOf(a) = {"TELEX", "VNI", "USER", "OFF"}
  /\ ValuesOf("Charset") = {"UTF8", "TCVN"} /\ ValuesOf("Visible") = BOOLEAN
<1>1. ToSet(Methods) = {"TELEX", "VNI", "USER"}
  <2>1. /\ DOMAIN Methods = 1 .. 3
        /\ Methods[1] = "TELEX" /\ Methods[2] = "VNI" /\ Methods[3] = "USER"
    BY DEF Methods
  <2>. QED  BY <2>1 DEF ToSet
<1>2. ToSet(Charsets) = {"UTF8", "TCVN"}
  <2>1. DOMAIN Charsets = 1 .. 2 /\ Charsets[1] = "UTF8" /\ Charsets[2] = "TCVN"
    BY DEF Charsets
  <2>. QED  BY <2>1 DEF ToSet
<1>. QED  BY <1>1, <1>2 DEF ValuesOf, Props

\* The next name of a list is one of the list.
LEMMA NextInList ==
  /\ \A m \in ToSet(Methods) : NextIn(Methods, m) \in ToSet(Methods)
  /\ \A c \in ToSet(Charsets) : NextIn(Charsets, c) \in ToSet(Charsets)
<1>1. ASSUME NEW m \in ToSet(Methods)  PROVE NextIn(Methods, m) \in ToSet(Methods)
  <2>. DEFINE i == CHOOSE j \in DOMAIN Methods : Methods[j] = m
  <2>1. DOMAIN Methods = 1 .. 3 /\ Len(Methods) = 3
    BY DEF Methods
  <2>2. \E j \in DOMAIN Methods : Methods[j] = m
    BY DEF ToSet
  <2>3. i \in 1 .. 3
    BY <2>1, <2>2
  <2>4. NextIn(Methods, m) = Methods[(i % 3) + 1]
    BY <2>1 DEF NextIn
  <2>. HIDE DEF i
  <2>5. (i % 3) + 1 \in 1 .. 3
    BY <2>3
  <2>. QED  BY <2>1, <2>4, <2>5 DEF ToSet
<1>2. ASSUME NEW c \in ToSet(Charsets)  PROVE NextIn(Charsets, c) \in ToSet(Charsets)
  <2>. DEFINE i == CHOOSE j \in DOMAIN Charsets : Charsets[j] = c
  <2>1. DOMAIN Charsets = 1 .. 2 /\ Len(Charsets) = 2
    BY DEF Charsets
  <2>2. \E j \in DOMAIN Charsets : Charsets[j] = c
    BY DEF ToSet
  <2>3. i \in 1 .. 2
    BY <2>1, <2>2
  <2>4. NextIn(Charsets, c) = Charsets[(i % 2) + 1]
    BY <2>1 DEF NextIn
  <2>. HIDE DEF i
  <2>5. (i % 2) + 1 \in 1 .. 2
    BY <2>3
  <2>. QED  BY <2>1, <2>4, <2>5 DEF ToSet
<1>. QED  BY <1>1, <1>2
-----------------------------------------------------------------------------
(* What is asked. *)

\* A request is one of a property for a value of it.
LEMMA RequestType ==
  ASSUME NEW a \in Props, NEW v \in ValuesOf(a)
  PROVE  <<a, v>> \in Requests
  BY DEF Requests

\* What two sequences of requests or events ask and say together.
LEMMA AsksBoth ==
  ASSUME NEW X, NEW p \in Seq(X), NEW q \in Seq(X), NEW a
  PROVE  /\ p \o q \in Seq(X)
         /\ Asks(p \o q, a) <=> Asks(p, a) \/ Asks(q, a)
         /\ Has(p \o q, a) <=> Has(p, a) \/ Has(q, a)
<1>. DEFINE u == Joined(p, q)
<1>1. /\ u \in Seq(X) /\ Len(u) = Len(p) + Len(q) /\ Len(p) \in Nat /\ Len(q) \in Nat
      /\ \A i \in 1 .. Len(p) + Len(q) : u[i] = IF i <= Len(p) THEN p[i] ELSE q[i - Len(p)]
  BY JoinedItems
<1>. HIDE DEF u
<1>2. \A i \in 1 .. Len(p) : i \in 1 .. Len(u) /\ u[i] = p[i]
  <2>1. \A i \in 1 .. Len(p) : i \in 1 .. Len(p) + Len(q) /\ i <= Len(p)
    BY <1>1
  <2>. QED  BY <1>1, <2>1
<1>3. \A i \in 1 .. Len(q) : Len(p) + i \in 1 .. Len(u) /\ u[Len(p) + i] = q[i]
  <2>1. \A i \in 1 .. Len(q) : /\ Len(p) + i \in 1 .. Len(p) + Len(q)
                               /\ ~(Len(p) + i <= Len(p)) /\ (Len(p) + i) - Len(p) = i
    BY <1>1
  <2>. QED  BY <1>1, <2>1
<1>4. \A i \in 1 .. Len(u) : \/ i \in 1 .. Len(p) /\ u[i] = p[i]
                             \/ i - Len(p) \in 1 .. Len(q) /\ u[i] = q[i - Len(p)]
  <2>1. \A i \in 1 .. Len(p) + Len(q) :
          IF i <= Len(p) THEN i \in 1 .. Len(p) ELSE i - Len(p) \in 1 .. Len(q)
    BY <1>1
  <2>. QED  BY <1>1, <2>1
<1>5. Asks(u, a) <=> Asks(p, a) \/ Asks(q, a)
  <2>1. ASSUME Asks(u, a)  PROVE Asks(p, a) \/ Asks(q, a)
    <3>1. PICK i \in 1 .. Len(u) : u[i][1] = a
      BY <2>1 DEF Asks
    <3>2. CASE i \in 1 .. Len(p) /\ u[i] = p[i]
      BY <3>1, <3>2 DEF Asks
    <3>3. CASE i - Len(p) \in 1 .. Len(q) /\ u[i] = q[i - Len(p)]
      BY <3>1, <3>3 DEF Asks
    <3>. QED  BY <1>4, <3>2, <3>3
  <2>2. ASSUME Asks(p, a)  PROVE Asks(u, a)
    <3>1. PICK i \in 1 .. Len(p) : p[i][1] = a
      BY <2>2 DEF Asks
    <3>2. i \in 1 .. Len(u) /\ u[i] = p[i]
      BY <1>2
    <3>. QED  BY <3>1, <3>2 DEF Asks
  <2>3. ASSUME Asks(q, a)  PROVE Asks(u, a)
    <3>1. PICK i \in 1 .. Len(q) : q[i][1] = a
      BY <2>3 DEF Asks
    <3>2. Len(p) + i \in 1 .. Len(u) /\ u[Len(p) + i] = q[i]
      BY <1>3
    <3>. QED  BY <3>1, <3>2 DEF Asks
  <2>. QED  BY <2>1, <2>2, <2>3
<1>6. Has(u, a) <=> Has(p, a) \/ Has(q, a)
  BY <1>2, <1>3, <1>4 DEF Has
<1>. QED  BY <1>1, <1>5, <1>6 DEF u, Joined

\* One request.
LEMMA OneRequest ==
  ASSUME NEW a \in Props, NEW v \in ValuesOf(a)
  PROVE  << <<a, v>> >> \in Seq(Requests) /\ Asks(<< <<a, v>> >>, a)
<1>. DEFINE o == << <<a, v>> >>
<1>1. o \in Seq(Requests) /\ Len(o) = 1 /\ o[1] = <<a, v>>
  BY RequestType, CountOne
<1>. HIDE DEF o
<1>2. Asks(o, a)
  BY <1>1 DEF Asks
<1>. QED  BY <1>1, <1>2 DEF o

\* The requests for a method, and those to be off.
LEMMA MethodRequests ==
  ASSUME NEW m \in ToSet(Methods)
  PROVE  /\ fixUnikeyToSyncMethod(m) \in Seq(Requests) /\ Asks(fixUnikeyToSyncMethod(m), "Method")
         /\ << <<"Method", m>>, <<"Using", m>> >> \in Seq(Requests)
         /\ OFF \in Seq(Requests) /\ Asks(OFF, "Method")
<1>1. /\ m \in ValuesOf("Method") /\ m \in ValuesOf("Using") /\ "OFF" \in ValuesOf("Method")
      /\ "Method" \in Props /\ "Using" \in Props
  BY DEF ValuesOf, Props
<1>2. <<"Using", m>> \in Requests /\ <<"Method", m>> \in Requests
  BY <1>1, RequestType
<1>. DEFINE o == << <<"Using", m>>, <<"Method", m>> >>
<1>3. o \in Seq(Requests) /\ Len(o) = 2 /\ o[2] = <<"Method", m>>
  BY <1>2
<1>4. << <<"Method", m>>, <<"Using", m>> >> \in Seq(Requests)
  BY <1>2
<1>. HIDE DEF o
<1>5. Asks(o, "Method")
  BY <1>3 DEF Asks
<1>6. OFF \in Seq(Requests) /\ Asks(OFF, "Method")
  BY <1>1, OneRequest DEF OFF
<1>. QED  BY <1>3, <1>4, <1>5, <1>6 DEF o, fixUnikeyToSyncMethod

\* reloadConfig asks for a charset and a method.
LEMMA ReloadRequests ==
  ASSUME NEW opt \in Options
  PROVE  /\ SyncProperties(opt) \in Seq(Requests)
         /\ Asks(SyncProperties(opt), "Charset") /\ Asks(SyncProperties(opt), "Method")
<1>. DEFINE c == << <<"Charset", opt.charset>> >>
            m == fixUnikeyToSyncMethod(opt.method)
            f == IF opt.enabled THEN <<>> ELSE OFF
            cm == c \o m
<1>1. c \in Seq(Requests) /\ Asks(c, "Charset")
  <2>1. "Charset" \in Props /\ opt.charset \in ValuesOf("Charset")
    BY DEF Props, ValuesOf, Options
  <2>. QED  BY <2>1, OneRequest
<1>2. m \in Seq(Requests) /\ Asks(m, "Method") /\ OFF \in Seq(Requests)
  BY MethodRequests DEF Options
<1>3. f \in Seq(Requests)
  BY <1>2, EmptySeq
<1>. HIDE DEF c, m, f
<1>4. cm \in Seq(Requests) /\ Asks(cm, "Charset") /\ Asks(cm, "Method")
  BY <1>1, <1>2, AsksBoth
<1>. HIDE DEF cm
<1>5. cm \o f \in Seq(Requests) /\ Asks(cm \o f, "Charset") /\ Asks(cm \o f, "Method")
  BY <1>3, <1>4, AsksBoth
<1>. QED  BY <1>5 DEF SyncProperties, c, m, f, cm
-----------------------------------------------------------------------------
(* What X changes, and tells of. *)

\* One request more: v is what the requests before it changed.
OneMore(done, v, n) == IF done[n][1] = "Using" THEN v ELSE Append(v, done[n][1])

\* g is the list of changes up to each of the first n requests.
IsChanged(g, done, n) == g = [i \in 0 .. n |-> IF i = 0 THEN <<>> ELSE OneMore(done, g[i - 1], i)]

\* Changed, without its recursion.
LEMMA ChangedMeans ==
  ASSUME NEW done
  PROVE  Changed(done) = CHOOSE g : IsChanged(g, done, Len(done))
  BY DEF Changed, IsChanged, OneMore

\* There is such a list: the least n without one would not be 0, and the list for n - 1
\* has a next element.
LEMMA ChangedExists ==
  ASSUME NEW done, NEW n \in Nat
  PROVE  \E g : IsChanged(g, done, n)
<1>. DEFINE T == {k \in Nat : ~(\E g : IsChanged(g, done, k))}
<1>1. SUFFICES ASSUME T # {}  PROVE FALSE
  OBVIOUS
<1>2. PICK k \in T : \A j \in T : k <= j
  <2>1. T \subseteq Nat
    OBVIOUS
  <2>. HIDE DEF T
  <2>. QED  BY <1>1, <2>1, LeastNumber
<1>3. CASE k = 0
  <2>. DEFINE g == [i \in 0 .. 0 |-> <<>>]
  <2>1. IsChanged(g, done, 0)
    BY DEF IsChanged
  <2>. QED  BY <1>3, <2>1
<1>4. CASE k # 0
  <2>1. k - 1 \in Nat /\ ~(k <= k - 1)
    BY <1>4
  <2>2. k - 1 \notin T
    BY <1>2, <2>1
  <2>3. PICK g : IsChanged(g, done, k - 1)
    BY <2>1, <2>2
  <2>. DEFINE h == [i \in 0 .. k |-> IF i = k THEN OneMore(done, g[k - 1], k) ELSE g[i]]
  <2>4. \A i \in 0 .. k - 1 : g[i] = IF i = 0 THEN <<>> ELSE OneMore(done, g[i - 1], i)
    BY <2>3 DEF IsChanged
  <2>5. ASSUME NEW i \in 0 .. k  PROVE h[i] = IF i = 0 THEN <<>> ELSE OneMore(done, h[i - 1], i)
    <3>1. CASE i = k
      <4>1. k - 1 \in 0 .. k /\ k - 1 # k
        BY <1>4
      <4>. QED  BY <1>4, <3>1, <4>1
    <3>2. CASE i # k
      <4>1. i \in 0 .. k - 1 /\ (i # 0 => i - 1 \in 0 .. k /\ i - 1 # k)
        BY <3>2
      <4>. QED  BY <2>4, <3>2, <4>1
    <3>. QED  BY <3>1, <3>2
  <2>6. IsChanged(h, done, k)
    <3>. DEFINE e == [i \in 0 .. k |-> IF i = 0 THEN <<>> ELSE OneMore(done, h[i - 1], i)]
    <3>1. \A i \in 0 .. k : h[i] = e[i]
      BY <2>5
    <3>2. DOMAIN h = 0 .. k /\ DOMAIN e = 0 .. k /\ h = [i \in 0 .. k |-> h[i]] /\ e = [i \in 0 .. k |-> e[i]]
      OBVIOUS
    <3>3. h = e
      BY <3>1, <3>2
    <3>. QED  BY <3>3 DEF IsChanged
  <2>. QED  BY <2>6
<1>. QED  BY <1>3, <1>4

\* So Changed is what its equations say.
LEMMA ChangedSteps ==
  ASSUME NEW done, Len(done) \in Nat
  PROVE  LET c == Changed(done)
         IN  \A i \in 0 .. Len(done) : c[i] = IF i = 0 THEN <<>> ELSE OneMore(done, c[i - 1], i)
<1>1. IsChanged(Changed(done), done, Len(done))
  BY ChangedMeans, ChangedExists
<1>. QED  BY <1>1 DEF IsChanged

\* The changes told of the first n requests are those of every property but AIMUsing.
LEMMA ChangedHolds ==
  ASSUME NEW done \in Seq(Requests), NEW n \in 0 .. Len(done)
  PROVE  /\ Changed(done)[n] \in Seq(Props)
         /\ \A a : a # "Using" /\ (\E i \in 1 .. n : done[i][1] = a) => Has(Changed(done)[n], a)
<1>. DEFINE c == Changed(done)
            Holds(k) == /\ c[k] \in Seq(Props)
                        /\ \A a : a # "Using" /\ (\E i \in 1 .. k : done[i][1] = a) => Has(c[k], a)
            T == {k \in 0 .. Len(done) : ~Holds(k)}
<1>0. Len(done) \in Nat
  BY LenProperties
<1>1. \A i \in 0 .. Len(done) : c[i] = IF i = 0 THEN <<>> ELSE OneMore(done, c[i - 1], i)
  BY <1>0, ChangedSteps
<1>. HIDE DEF c
<1>2. ASSUME T # {}  PROVE FALSE
  <2>1. PICK k \in T : \A j \in T : k <= j
    <3>1. T \subseteq Nat
      BY <1>0
    <3>. HIDE DEF T
    <3>. QED  BY <1>2, <3>1, LeastNumber
  <2>2. CASE k = 0
    <3>1. c[0] = <<>> /\ <<>> \in Seq(Props)
      BY <1>0, <1>1, EmptySeq
    <3>2. \A a : ~(\E i \in 1 .. 0 : done[i][1] = a)
      OBVIOUS
    <3>3. Holds(0)
      BY <3>1, <3>2
    <3>. QED  BY <2>1, <2>2, <3>3
  <2>3. CASE k # 0
    <3>1. k \in 0 .. Len(done) /\ k - 1 \in 0 .. Len(done) /\ k \in 1 .. Len(done) /\ ~(k <= k - 1)
      BY <1>0, <2>1, <2>3
    <3>2. Holds(k - 1)
      BY <2>1, <3>1
    <3>. DEFINE e == done[k][1]
                d == c[k - 1]
    <3>3. c[k] = IF e = "Using" THEN d ELSE Append(d, e)
      BY <1>1, <2>3, <3>1 DEF OneMore
    <3>4. e \in Props
      <4>1. done[k] \in Requests
        BY <3>1, ElementOfSeq
      <4>. QED  BY <4>1 DEF Requests
    <3>5. d \in Seq(Props)
      BY <3>2
    <3>6. \A i \in 1 .. k : i \in 1 .. k - 1 \/ i = k
      BY <3>1
    <3>7. \A a : (\E i \in 1 .. k : done[i][1] = a) => (\E i \in 1 .. k - 1 : done[i][1] = a) \/ e = a
      BY <3>6
    <3>8. \A a : a # "Using" /\ (\E i \in 1 .. k - 1 : done[i][1] = a) => Has(d, a)
      BY <3>2
    <3>. HIDE DEF e, d
    <3>9. CASE e = "Using"
      <4>1. c[k] \in Seq(Props)
        BY <3>3, <3>5, <3>9
      <4>2. \A a : a # "Using" /\ (\E i \in 1 .. k : done[i][1] = a) => Has(c[k], a)
        BY <3>3, <3>7, <3>8, <3>9
      <4>3. Holds(k)
        BY <4>1, <4>2
      <4>. QED  BY <2>1, <4>3
    <3>10. CASE e # "Using"
      <4>. DEFINE f == Append(d, e)
      <4>1. /\ f \in Seq(Props) /\ Len(f) = Len(d) + 1 /\ f[Len(f)] = e /\ Len(d) \in Nat
            /\ \A i \in 1 .. Len(d) : f[i] = d[i]
        BY <3>4, <3>5, AppendProperties, LenProperties
      <4>. HIDE DEF f
      <4>2. /\ Len(f) \in 1 .. Len(f) /\ \A i \in 1 .. Len(d) : i \in 1 .. Len(f)
        BY <4>1
      <4>3. Has(f, e) /\ \A a : Has(d, a) => Has(f, a)
        BY <4>1, <4>2 DEF Has
      <4>4. c[k] = f
        BY <3>3, <3>10 DEF f
      <4>5. \A a : a # "Using" /\ (\E i \in 1 .. k : done[i][1] = a) => Has(f, a)
        BY <3>7, <3>8, <4>3
      <4>6. Holds(k)
        BY <4>1, <4>4, <4>5
      <4>. QED  BY <2>1, <4>6
    <3>. QED  BY <3>9, <3>10
  <2>. QED  BY <2>2, <2>3
<1>3. T = {}
  BY <1>2
<1>4. Holds(n)
  BY <1>3
<1>. QED  BY <1>4 DEF c

\* The requests that are done and those that are left.
LEMMA DoneOrLeft ==
  ASSUME NEW o \in Seq(Requests), NEW n \in 1 .. Len(o)
  PROVE  LET done == SubSeq(o, 1, n)
             rest == SubSeq(o, n + 1, Len(o))
         IN  /\ done \in Seq(Requests) /\ Len(done) = n /\ rest \in Seq(Requests)
             /\ \A a : Asks(o, a) => Asks(rest, a) \/ \E i \in 1 .. n : done[i][1] = a
<1>. DEFINE done == SubSeq(o, 1, n)
            rest == SubSeq(o, n + 1, Len(o))
<1>1. Len(o) \in Nat /\ n \in Int /\ 1 \in Int /\ n + 1 \in Int /\ \A i \in 1 .. Len(o) : o[i] \in Requests
  BY LenProperties, ElementOfSeq
<1>2. /\ done \in Seq(Requests) /\ Len(done) = IF 1 <= n THEN n - 1 + 1 ELSE 0
      /\ \A i \in 1 .. n - 1 + 1 : done[i] = o[1 + i - 1]
  <2>1. \A i \in 1 .. n : o[i] \in Requests
    BY <1>1
  <2>. QED  BY <1>1, <2>1, SubSeqProperties
<1>3. /\ rest \in Seq(Requests)
      /\ Len(rest) = IF n + 1 <= Len(o) THEN Len(o) - (n + 1) + 1 ELSE 0
      /\ \A i \in 1 .. Len(o) - (n + 1) + 1 : rest[i] = o[n + 1 + i - 1]
  <2>1. \A i \in n + 1 .. Len(o) : o[i] \in Requests
    BY <1>1
  <2>. QED  BY <1>1, <2>1, SubSeqProperties
<1>. HIDE DEF done, rest
<1>4. Len(done) = n
  BY <1>1, <1>2
<1>5. ASSUME NEW a, Asks(o, a)
      PROVE  Asks(rest, a) \/ \E i \in 1 .. n : done[i][1] = a
  <2>1. PICK k \in 1 .. Len(o) : o[k][1] = a
    BY <1>5 DEF Asks
  <2>2. CASE k <= n
    <3>1. k \in 1 .. n /\ k \in 1 .. n - 1 + 1 /\ 1 + k - 1 = k
      BY <1>1, <2>2
    <3>2. done[k] = o[k]
      BY <1>2, <3>1
    <3>. QED  BY <2>1, <3>1, <3>2
  <2>3. CASE ~(k <= n)
    <3>1. /\ k - n \in 1 .. Len(o) - (n + 1) + 1 /\ n + 1 + (k - n) - 1 = k /\ k - n \in 1 .. Len(rest)
      BY <1>1, <1>3, <2>3
    <3>2. rest[k - n] = o[k]
      BY <1>3, <3>1
    <3>. QED  BY <2>1, <3>1, <3>2 DEF Asks
  <2>. QED  BY <2>2, <2>3
<1>. QED  BY <1>2, <1>3, <1>4, <1>5 DEF done, rest

\* A property keeps its value or is written a value of it.
LEMMA WrittenIs ==
  ASSUME NEW done \in Seq(Requests), NEW a \in Props, prop[a] \in ValuesOf(a) \cup {None}
  PROVE  /\ Written(done, a) \in ValuesOf(a) \cup {None}
         /\ ~(\E i \in 1 .. Len(done) : done[i][1] = a) => Written(done, a) = prop[a]
<1>. DEFINE W == {i \in 1 .. Len(done) : done[i][1] = a}
<1>1. Len(done) \in Nat
  BY LenProperties
<1>2. Written(done, a) = IF W = {} THEN prop[a] ELSE done[Max(W)][2]
  BY DEF Written
<1>3. ASSUME W # {}  PROVE done[Max(W)][2] \in ValuesOf(a)
  <2>. DEFINE D == {Len(done) - i : i \in W}
  <2>1. D \subseteq Nat /\ D # {}
    BY <1>1, <1>3
  <2>2. PICK d \in D : \A e \in D : d <= e
    <3>. HIDE DEF D
    <3>. QED  BY <2>1, LeastNumber
  <2>3. PICK x \in W : d = Len(done) - x
    BY <2>2
  <2>4. \A y \in W : x >= y
    <3>1. \A y \in W : d <= Len(done) - y
      BY <2>2
    <3>2. \A y \in W : y \in Int /\ x \in Int
      BY <1>1
    <3>. QED  BY <1>1, <2>3, <3>1, <3>2
  <2>5. Max(W) \in W
    <3>. HIDE DEF W
    <3>. QED  BY <2>3, <2>4 DEF Max
  <2>6. done[Max(W)] \in Requests /\ done[Max(W)][1] = a
    BY <2>5, ElementOfSeq
  <2>. QED  BY <2>6 DEF Requests
<1>4. ~(\E i \in 1 .. Len(done) : done[i][1] = a) => W = {}
  OBVIOUS
<1>. HIDE DEF W
<1>. QED  BY <1>2, <1>3, <1>4

\* The processes that X tells of changes, and the properties they heed.
Watchers == Windows \cup Servers
Heeded == Props \ {"Using"}

\* X tells all who watch of what it changes.
LEMMA XTells ==
  ASSUME TypesOK, NEW c \in Clients, ChangeProperty(c)
  PROVE  /\ TypesOK' /\ UNCHANGED <<window, server>>
         /\ \A l \in Watchers, a \in Heeded :
              /\ Has(events[l], a) => Has(events'[l], a)
              /\ Watching(l) => /\ prop'[a] = prop[a] \/ Has(events'[l], a)
                                /\ Asks(out[l], a) => Asks(out'[l], a) \/ Has(events'[l], a)
<1>1. out[c] \in Seq(Requests) /\ out[c] # <<>> /\ Len(out[c]) \in Nat \ {0}
  <2>1. out[c] \in Seq(Requests) /\ out[c] # <<>>
    BY DEF TypesOK, ChangeProperty
  <2>. QED  BY <2>1, LenProperties, EmptySeq
<1>2. PICK n \in Turn(c) :
        LET done == SubSeq(out[c], 1, n) IN
        /\ prop' = [a \in DOMAIN prop |-> Written(done, a)]
        /\ events' = [l \in DOMAIN events |->
                        IF Watching(l) THEN events[l] \o Changed(done)[n] ELSE events[l]]
        /\ out' = [out EXCEPT ![c] = SubSeq(@, n + 1, Len(@))]
  BY DEF ChangeProperty
<1>3. n \in 1 .. Len(out[c])
  BY <1>1 DEF Turn
<1>. DEFINE done == SubSeq(out[c], 1, n)
            rest == SubSeq(out[c], n + 1, Len(out[c]))
            told == Changed(done)[n]
<1>4. /\ done \in Seq(Requests) /\ Len(done) = n /\ rest \in Seq(Requests)
      /\ \A a : Asks(out[c], a) => Asks(rest, a) \/ \E i \in 1 .. n : done[i][1] = a
  BY <1>1, <1>3, DoneOrLeft
<1>5. /\ prop' = [a \in Props |-> Written(done, a)]
      /\ events' = [l \in Watchers |-> IF Watching(l) THEN events[l] \o told ELSE events[l]]
      /\ out' = [out EXCEPT ![c] = rest]
  BY <1>2 DEF TypesOK, Watchers
<1>. HIDE DEF done, rest
<1>6. n \in 0 .. Len(done)
  BY <1>1, <1>3, <1>4
<1>7. /\ told \in Seq(Props)
      /\ \A a : a # "Using" /\ (\E i \in 1 .. n : done[i][1] = a) => Has(told, a)
  BY <1>4, <1>6, ChangedHolds
<1>. HIDE DEF told
<1>8. \A a \in Props : /\ Written(done, a) \in ValuesOf(a) \cup {None}
                       /\ ~(\E i \in 1 .. n : done[i][1] = a) => Written(done, a) = prop[a]
  BY <1>4, WrittenIs DEF TypesOK
<1>9. \A l \in Watchers : /\ events[l] \in Seq(Props) /\ events[l] \o told \in Seq(Props)
                          /\ \A a : Has(events[l] \o told, a) <=> Has(events[l], a) \/ Has(told, a)
  <2>1. \A l \in Watchers : events[l] \in Seq(Props)
    BY DEF TypesOK, Watchers
  <2>. QED  BY <1>7, <2>1, AsksBoth
<1>10. UNCHANGED <<window, server, file>>
  BY DEF ChangeProperty
<1>11. TypesOK'
  <2>1. DOMAIN prop' = Props /\ \A a \in Props : prop'[a] \in ValuesOf(a) \cup {None}
    BY <1>5, <1>8
  <2>2. out' \in [Clients -> Seq(Requests)]
    BY <1>4, <1>5 DEF TypesOK
  <2>3. events' \in [Watchers -> Seq(Props)]
    BY <1>5, <1>9
  <2>. QED  BY <1>10, <2>1, <2>2, <2>3 DEF TypesOK, Watchers
<1>12. ASSUME NEW l \in Watchers, NEW a \in Heeded
       PROVE  /\ Has(events[l], a) => Has(events'[l], a)
              /\ Watching(l) => /\ prop'[a] = prop[a] \/ Has(events'[l], a)
                                /\ Asks(out[l], a) => Asks(out'[l], a) \/ Has(events'[l], a)
  <2>0. a \in Props /\ a # "Using" /\ l \in Clients
    BY DEF Heeded, Watchers, Clients
  <2>1. Has(events[l], a) => Has(events'[l], a)
    BY <1>5, <1>9
  <2>2. ASSUME Watching(l), \E i \in 1 .. n : done[i][1] = a  PROVE Has(events'[l], a)
    BY <1>5, <1>7, <1>9, <2>0, <2>2
  <2>3. ASSUME ~(\E i \in 1 .. n : done[i][1] = a)  PROVE prop'[a] = prop[a]
    BY <1>5, <1>8, <2>0, <2>3
  <2>4. ASSUME ~(\E i \in 1 .. n : done[i][1] = a), Asks(out[l], a)  PROVE Asks(out'[l], a)
    <3>1. CASE l = c
      BY <1>4, <1>5, <2>0, <2>4, <3>1 DEF TypesOK
    <3>2. CASE l # c
      BY <1>5, <2>0, <2>4, <3>2 DEF TypesOK
    <3>. QED  BY <3>1, <3>2
  <2>. QED  BY <2>1, <2>2, <2>3, <2>4
<1>. QED  BY <1>10, <1>11, <1>12

\* So a process stays in step with a property that changes.
LEMMA TellingKeeps ==
  ASSUME NEW r, NEW q, NEW o, NEW p, NEW q2, NEW o2, NEW p2,
         \A a \in Heeded : /\ Has(q, a) => Has(q2, a)
                           /\ p2[a] = p[a] \/ Has(q2, a)
                           /\ Asks(o, a) => Asks(o2, a) \/ Has(q2, a)
  PROVE  /\ WindowOK(r, q, o, p) => WindowOK(r, q2, o2, p2)
         /\ ServerOK(r, q, o, p) => ServerOK(r, q2, o2, p2)
<1>1. "Charset" \in Heeded /\ "Method" \in Heeded /\ "Visible" \in Heeded
  BY DEF Heeded, Props
<1>2. ASSUME NEW a \in Heeded, ~Has(q2, a)
      PROVE  ~Has(q, a) /\ (Asks(o, a) => Asks(o2, a)) /\ \A d : PropOf(p2, a, d) = PropOf(p, a, d)
  BY <1>2 DEF PropOf
<1>3. Shown(r, q, p) => Shown(r, q2, p2)
  BY <1>1, <1>2 DEF Shown
<1>4. Heeds(r, q, o, p) => Heeds(r, q2, o2, p2)
  <2>1. SUFFICES ASSUME Heeds(r, q, o, p)  PROVE Heeds(r, q2, o2, p2)
    OBVIOUS
  <2>2. ASSUME ~Has(q2, "Charset"), ~Asks(o2, "Charset")
        PROVE  LET v == PropOf(p2, "Charset", "UTF8") IN r.GlobalOpt.charset = v /\ r.imCharset = v
    BY <1>1, <1>2, <2>1, <2>2 DEF Heeds
  <2>3. ASSUME ~Has(q2, "Method"), ~Asks(o2, "Method")
        PROVE  LET v == PropOf(p2, "Method", "TELEX")
                   opt == r.GlobalOpt
               IN  IF r.seen # None THEN r.seen = v
                   ELSE /\ opt.enabled = (v # "OFF")
                        /\ v # "OFF" => /\ opt.method = v
                                        /\ r.imMethod = v \/ (v = "USER" /\ ~opt.usrMap)
    BY <1>1, <1>2, <2>1, <2>3 DEF Heeds
  <2>4. Has(q2, "Visible") \/ r.UkGUIVisible = PropOf(p2, "Visible", FALSE)
    BY <1>1, <1>2, <2>1 DEF Heeds
  <2>. QED  BY <2>2, <2>3, <2>4 DEF Heeds
<1>. QED  BY <1>1, <1>3, <1>4 DEF WindowOK, ServerOK

\* No step of X takes a process out of step.
LEMMA XStep ==
  ASSUME SessionInv, NEW c \in Clients, ChangeProperty(c)
  PROVE  SessionInv'
<1>1. /\ TypesOK' /\ UNCHANGED <<window, server>>
      /\ \A l \in Watchers, a \in Heeded :
           /\ Has(events[l], a) => Has(events'[l], a)
           /\ Watching(l) => /\ prop'[a] = prop[a] \/ Has(events'[l], a)
                             /\ Asks(out[l], a) => Asks(out'[l], a) \/ Has(events'[l], a)
  BY XTells DEF SessionInv
<1>2. ASSUME NEW w \in Windows  PROVE WindowOK(window[w], events[w], out[w], prop)'
  <2>1. WindowOK(window[w], events[w], out[w], prop) /\ w \in Watchers
    BY DEF SessionInv, AllInStep, Watchers
  <2>2. CASE Watching(w)
    <3>1. WindowOK(window[w], events'[w], out'[w], prop')
      BY <1>1, <2>1, <2>2, TellingKeeps
    <3>. QED  BY <1>1, <3>1
  <2>3. CASE ~Watching(w)
    <3>1. window[w].pc \notin {"first", "up"}
      BY <2>3 DEF Watching
    <3>. QED  BY <1>1, <2>1, <3>1 DEF WindowOK
  <2>. QED  BY <2>2, <2>3
<1>3. ASSUME NEW s \in Servers  PROVE ServerOK(server[s], events[s], out[s], prop)'
  <2>1. ServerOK(server[s], events[s], out[s], prop) /\ s \in Watchers
    BY DEF SessionInv, AllInStep, Watchers
  <2>2. CASE Watching(s)
    <3>1. ServerOK(server[s], events'[s], out'[s], prop')
      BY <1>1, <2>1, <2>2, TellingKeeps
    <3>. QED  BY <1>1, <3>1
  <2>3. CASE ~Watching(s)
    <3>1. server[s].pc \notin {"ready", "reported", "up"}
      BY <2>3 DEF Watching
    <3>. QED  BY <1>1, <2>1, <3>1 DEF ServerOK
  <2>. QED  BY <2>2, <2>3
<1>. QED  BY <1>1, <1>2, <1>3 DEF SessionInv, AllInStep
-----------------------------------------------------------------------------
(* Steps that leave the properties alone. *)

\* A window, or a server, of which other things change.
Like(r2, r) ==
  /\ DOMAIN r2 = DOMAIN NewWindow
  /\ r2.pc = r.pc /\ r2.UnikeyOn = r.UnikeyOn /\ r2.UkActiveMethod = r.UkActiveMethod
  /\ r2.UkActiveMode = r.UkActiveMode /\ r2.UkGUIVisible = r.UkGUIVisible
ServerLike(r2, r) ==
  /\ DOMAIN r2 = DOMAIN NewServer
  /\ r2.GlobalOpt = r.GlobalOpt /\ r2.imMethod = r.imMethod /\ r2.imCharset = r.imCharset
  /\ r2.UkGUIVisible = r.UkGUIVisible /\ r2.seen = r.seen
  /\ r2.pc = r.pc \/ (r.pc = "unused" /\ r2.pc = "forked")

\* It stays in step.
LEMMA LikeKeeps ==
  ASSUME NEW r, NEW r2, NEW q, NEW o, NEW p
  PROVE  /\ WindowOK(r, q, o, p) /\ Like(r2, r) => WindowOK(r2, q, o, p)
         /\ ServerOK(r, q, o, p) /\ ServerLike(r2, r) => ServerOK(r2, q, o, p)
<1>1. WindowOK(r, q, o, p) /\ Like(r2, r) => WindowOK(r2, q, o, p)
  BY DEF WindowOK, Like, Shown
<1>2. ASSUME ServerOK(r, q, o, p), ServerLike(r2, r)  PROVE ServerOK(r2, q, o, p)
  <2>1. Heeds(r, q, o, p) => Heeds(r2, q, o, p)
    BY <1>2 DEF Heeds, ServerLike
  <2>2. r2.seen # None => r2.pc = "up"
    BY <1>2 DEF ServerOK, ServerLike
  <2>. QED  BY <1>2, <2>1, <2>2 DEF ServerOK, ServerLike
<1>. QED  BY <1>1, <1>2

\* One process acts, and what it does to the others they do not mind.
LEMMA OneActs ==
  ASSUME SessionInv, TypesOK', UNCHANGED prop, NEW c,
         \A x \in Watchers : x # c => events'[x] = events[x] /\ out'[x] = out[x],
         \A w \in Windows : w # c => Like(window'[w], window[w]),
         \A s \in Servers : s # c => ServerLike(server'[s], server[s]),
         c \in Windows => WindowOK(window'[c], events'[c], out'[c], prop),
         c \in Servers => ServerOK(server'[c], events'[c], out'[c], prop)
  PROVE  SessionInv'
<1>1. ASSUME NEW w \in Windows  PROVE WindowOK(window'[w], events'[w], out'[w], prop')
  <2>1. WindowOK(window[w], events[w], out[w], prop) /\ w \in Watchers
    BY DEF SessionInv, AllInStep, Watchers
  <2>2. CASE w # c
    BY <2>1, <2>2, LikeKeeps
  <2>3. CASE w = c
    BY <2>3
  <2>. QED  BY <2>2, <2>3
<1>2. ASSUME NEW s \in Servers  PROVE ServerOK(server'[s], events'[s], out'[s], prop')
  <2>1. ServerOK(server[s], events[s], out[s], prop) /\ s \in Watchers
    BY DEF SessionInv, AllInStep, Watchers
  <2>2. CASE s # c
    BY <2>1, <2>2, LikeKeeps
  <2>3. CASE s = c
    BY <2>3
  <2>. QED  BY <2>2, <2>3
<1>. QED  BY <1>1, <1>2 DEF SessionInv, AllInStep

\* What one client asks.
LEMMA AskKeeps ==
  ASSUME TypesOK, NEW c \in Clients, NEW o \in Seq(Requests), Ask(c, o)
  PROVE  /\ out' \in [Clients -> Seq(Requests)]
         /\ \A x \in Clients : x # c => out'[x] = out[x]
         /\ \A a : (Asks(out[c], a) => Asks(out'[c], a)) /\ (Asks(o, a) => Asks(out'[c], a))
<1>1. out[c] \in Seq(Requests) /\ out' = [out EXCEPT ![c] = out[c] \o o]
  BY DEF TypesOK, Ask
<1>2. /\ out[c] \o o \in Seq(Requests)
      /\ \A a : Asks(out[c] \o o, a) <=> Asks(out[c], a) \/ Asks(o, a)
  BY <1>1, AsksBoth
<1>. DEFINE u == out[c] \o o
<1>. HIDE DEF u
<1>3. out' = [out EXCEPT ![c] = u] /\ u \in Seq(Requests)
  BY <1>1, <1>2 DEF u
<1>4. out'[c] = u /\ out' \in [Clients -> Seq(Requests)] /\ \A x \in Clients : x # c => out'[x] = out[x]
  BY <1>3 DEF TypesOK
<1>. QED  BY <1>2, <1>4 DEF u

\* An event that is taken.
LEMMA TakenKeeps ==
  ASSUME TypesOK, NEW c \in Watchers, events[c] # <<>>, Taken(c)
  PROVE  /\ events' \in [Watchers -> Seq(Props)]
         /\ \A x \in Watchers : x # c => events'[x] = events[x]
         /\ \A a : Has(events[c], a) => Has(events'[c], a) \/ Head(events[c]) = a
<1>. DEFINE q == events[c]
            t == Tail(q)
<1>1. q \in Seq(Props)
  BY DEF TypesOK, Watchers
<1>2. /\ t \in Seq(Props) /\ Len(t) = Len(q) - 1 /\ q[1] = Head(q) /\ Len(q) \in Nat
      /\ \A i \in 1 .. Len(t) : t[i] = q[i + 1]
  BY <1>1, HeadTailProperties, LenProperties
<1>3. events' = [events EXCEPT ![c] = t]
  BY DEF Taken
<1>. HIDE DEF t
<1>4. events' \in [Watchers -> Seq(Props)] /\ events'[c] = t /\ \A x \in Watchers : x # c => events'[x] = events[x]
  BY <1>2, <1>3 DEF TypesOK, Watchers
<1>5. ASSUME NEW a, Has(q, a), Head(q) # a  PROVE Has(t, a)
  <2>1. PICK i \in 1 .. Len(q) : q[i] = a
    BY <1>5 DEF Has
  <2>2. i # 1
    BY <1>2, <1>5, <2>1
  <2>3. i - 1 \in 1 .. Len(t) /\ (i - 1) + 1 = i
    BY <1>2, <2>2
  <2>4. t[i - 1] = a
    BY <1>2, <2>1, <2>3
  <2>. QED  BY <2>3, <2>4 DEF Has
<1>. QED  BY <1>4, <1>5

\* What is left of a process that goes.
LEMMA GoneLeaves ==
  ASSUME TypesOK, NEW c \in Watchers, NEW n \in 0 .. Len(out[c]), Gone(c, n)
  PROVE  /\ out' \in [Clients -> Seq(Requests)] /\ events' \in [Watchers -> Seq(Props)]
         /\ UNCHANGED prop
         /\ \A x \in Watchers : x # c => events'[x] = events[x] /\ out'[x] = out[x]
<1>1. out[c] \in Seq(Requests) /\ Watchers \subseteq Clients /\ c \in Clients
  BY DEF TypesOK, Watchers, Clients
<1>2. SubSeq(out[c], 1, n) \in Seq(Requests)
  <2>1. Len(out[c]) \in Nat /\ \A i \in 1 .. Len(out[c]) : out[c][i] \in Requests
    BY <1>1, LenProperties, ElementOfSeq
  <2>2. 1 \in Int /\ n \in Int /\ \A i \in 1 .. n : out[c][i] \in Requests
    BY <2>1
  <2>. QED  BY <1>1, <2>2, SubSeqProperties
<1>. DEFINE u == SubSeq(out[c], 1, n)
            e == <<>>
<1>3. out' = [out EXCEPT ![c] = u] /\ events' = [events EXCEPT ![c] = e] /\ e \in Seq(Props) /\ UNCHANGED prop
  BY EmptySeq DEF Gone
<1>. HIDE DEF u, e
<1>. QED  BY <1>1, <1>2, <1>3 DEF TypesOK, Watchers, u

\* The fields of a server.
LEMMA ServerFields ==
  /\ DOMAIN NewServer = {"pc", "parent", "GlobalOpt", "imMethod", "imCharset", "UkGUIVisible",
                         "signals", "seen"}
  /\ DefaultOpt \in Options
<1>1. DefaultOpt \in Options
  BY NamesAre DEF DefaultOpt, Options
<1>. QED  BY <1>1 DEF NewServer

\* A signal is nothing that must agree.
LEMMA SignalsKeep ==
  ASSUME SessionInv
  PROVE  /\ \A w \in Windows : Like(window[w], window[w])
         /\ \A s \in Servers : ServerLike(server[s], server[s])
         /\ \A w \in Windows : \A v : Like([window[w] EXCEPT !.signals = v], window[w])
         /\ \A s \in Servers : \A v : ServerLike([server[s] EXCEPT !.signals = v], server[s])
  BY WindowFields, ServerFields DEF SessionInv, AllInStep, WindowOK, ServerOK, Like, ServerLike

\* A signal to the parent of a server, or to a server.
LEMMA KillsKeep ==
  ASSUME SessionInv, NEW s, NEW sig
  PROVE  /\ DOMAIN Signalled(s, sig) = Windows
         /\ \A w \in Windows : Like(Signalled(s, sig)[w], window[w])
         /\ Kill(s, sig) => DOMAIN server' = Servers /\ \A t \in Servers : ServerLike(server'[t], server[t])
  BY SignalsKeep DEF Signalled, Kill

\* A process that is started has no part in anything yet.
LEMMA ForkKeeps ==
  ASSUME SessionInv, NEW w \in Windows, NEW r, MayFork, Forked(w, r)
  PROVE  /\ DOMAIN window' = Windows /\ DOMAIN server' = Servers
         /\ \A s \in Servers : ServerLike(server'[s], server[s])
         /\ \A x \in Windows : x # w => window'[x] = window[x]
         /\ \E s : window'[w] = [r EXCEPT !.ChildPid = s, !.launches = @ + 1]
<1>. DEFINE U == {t \in Servers : server[t].pc = "unused"}
            s == Min(U)
<1>1. s \in Servers /\ server[s].pc = "unused"
  <2>1. U # {} /\ U \subseteq Nat
    BY BoundsAssumption DEF MayFork, Servers
  <2>2. \E x \in U : \A y \in U : x <= y
    <3>. HIDE DEF U
    <3>. QED  BY <2>1, LeastNumber
  <2>3. Min(U) \in U
    <3>. HIDE DEF U
    <3>. QED  BY <2>2 DEF Min
  <2>. QED  BY <2>3
<1>2. /\ window' = [window EXCEPT ![w] = [r EXCEPT !.ChildPid = s, !.launches = @ + 1]]
      /\ server' = [server EXCEPT ![s].pc = "forked", ![s].parent = w]
  BY DEF Forked
<1>. HIDE DEF s
<1>3. /\ DOMAIN window = Windows /\ DOMAIN server = Servers
      /\ \A t \in Servers : DOMAIN server[t] = DOMAIN NewServer
  BY DEF SessionInv, TypesOK, AllInStep, ServerOK
<1>4. DOMAIN server' = Servers /\ \A t \in Servers : ServerLike(server'[t], server[t])
  BY <1>1, <1>2, <1>3, ServerFields DEF ServerLike
<1>. QED  BY <1>2, <1>3, <1>4

\* What a window reads is what there is, and it then shows that.
LEMMA ShowingIsInStep ==
  ASSUME TypesOK, NEW r, DOMAIN r = DOMAIN NewWindow,
         r.UkActiveMethod \in ToSet(Methods), r.UkActiveMode \in ToSet(Charsets)
  PROVE  /\ LET m == fixSyncToUnikeyMethod(r)
                v == PropOf(prop, "Method", "TELEX")
            IN  /\ DOMAIN m = DOMAIN NewWindow /\ m.pc = r.pc /\ m.UkActiveMode = r.UkActiveMode
                /\ m.UkGUIVisible = r.UkGUIVisible /\ m.UkActiveMethod \in ToSet(Methods)
                /\ m.UnikeyOn = (v # "OFF") /\ (v # "OFF" => m.UkActiveMethod = v)
         /\ LET c == ShowCharset(r)
            IN  /\ DOMAIN c = DOMAIN NewWindow /\ c.pc = r.pc /\ c.UkActiveMethod = r.UkActiveMethod
                /\ c.UkGUIVisible = r.UkGUIVisible /\ c.UnikeyOn = r.UnikeyOn
                /\ c.UkActiveMode = PropOf(prop, "Charset", "UTF8") /\ c.UkActiveMode \in ToSet(Charsets)
<1>1. /\ PropOf(prop, "Method", "TELEX") \in {"TELEX", "VNI", "USER", "OFF"}
      /\ PropOf(prop, "Using", "TELEX") \in {"TELEX", "VNI", "USER", "OFF"}
      /\ PropOf(prop, "Charset", "UTF8") \in ToSet(Charsets)
  BY NamesAre DEF TypesOK, PropOf, Props
<1>2. \A v \in {"TELEX", "VNI", "USER", "OFF"} :
        SyncToUnikeyMethod(v) \in ToSet(Methods) /\ (v # "OFF" => SyncToUnikeyMethod(v) = v)
  BY NamesAre DEF SyncToUnikeyMethod
<1>. QED  BY <1>1, <1>2, WindowFields DEF fixSyncToUnikeyMethod, ShowCharset, UkGetPropValue, PropOf

\* The values of the properties.
LEMMA PropTypes ==
  ASSUME TypesOK
  PROVE  /\ PropOf(prop, "Method", "TELEX") \in {"TELEX", "VNI", "USER", "OFF"}
         /\ PropOf(prop, "Charset", "UTF8") \in ToSet(Charsets)
         /\ PropOf(prop, "Visible", FALSE) \in BOOLEAN
  BY NamesAre DEF TypesOK, PropOf, Props

\* The steps of a window.
LEMMA WindowStep ==
  ASSUME SessionInv, NEW w \in Windows,
         \/ StartWindow(w) \/ WakeOther(w) \/ TakeWindow(w) \/ InitWindow(w)
         \/ ShowProperty(w) \/ ximLaunchHandler(w) \/ ximTerminatedHandler(w)
         \/ Click(w) \/ reloadXimConfig(w) \/ CloseWindow(w)
  PROVE  SessionInv'
<1>. DEFINE r == window[w]
<1>0. /\ TypesOK /\ w \in Watchers /\ w \in Clients /\ w \notin Servers
      /\ WindowOK(r, events[w], out[w], prop) /\ DOMAIN r = DOMAIN NewWindow
      /\ r.UkActiveMethod \in ToSet(Methods) /\ r.UkActiveMode \in ToSet(Charsets)
      /\ out[w] \in Seq(Requests) /\ out[w] = out[w] \o <<>> /\ events[w] \in Seq(Props)
      /\ Watchers \subseteq Clients
  <2>1. out[w] \in Seq(Requests) /\ events[w] \in Seq(Props)
    BY DEF SessionInv, TypesOK, Watchers, Clients
  <2>2. out[w] \o <<>> = out[w]
    BY <2>1, ConcatEmptySeq
  <2>. QED  BY <2>1, <2>2, NamesAssumption DEF SessionInv, AllInStep, WindowOK, Watchers, Clients
<1>1. /\ \A x \in Windows : Like(window[x], window[x])
      /\ \A s \in Servers : ServerLike(server[s], server[s])
      /\ \A x \in Windows : \A v : Like([window[x] EXCEPT !.signals = v], window[x])
  BY SignalsKeep
<1>2. ASSUME UNCHANGED prop, UNCHANGED file, DOMAIN window' = Windows, DOMAIN server' = Servers,
             out' \in [Clients -> Seq(Requests)], events' \in [Watchers -> Seq(Props)],
             \A x \in Watchers : x # w => events'[x] = events[x] /\ out'[x] = out[x],
             \A x \in Windows : x # w => Like(window'[x], window[x]),
             \A s \in Servers : ServerLike(server'[s], server[s]),
             WindowOK(window'[w], events'[w], out'[w], prop)
      PROVE  SessionInv'
  <2>1. TypesOK'
    BY <1>0, <1>2 DEF TypesOK, Watchers
  <2>. QED  BY <1>0, <1>2, <2>1, OneActs
<1>3. /\ out \in [Clients -> Seq(Requests)] /\ events \in [Watchers -> Seq(Props)]
      /\ DOMAIN window = Windows /\ DOMAIN server = Servers
  BY <1>0 DEF TypesOK, Watchers
<1>4. ASSUME NEW n, window' = [window EXCEPT ![w] = n], UNCHANGED <<prop, out, events, server, file>>,
             WindowOK(n, events[w], out[w], prop)
      PROVE  SessionInv'
  BY <1>1, <1>2, <1>3, <1>4
<1>5. CASE StartWindow(w)
  <2>1. \E pc \in {"free", "second"} : window' = [window EXCEPT ![w] = [r EXCEPT !.pc = pc]]
    BY <1>3, <1>5 DEF StartWindow
  <2>2. \A pc \in {"free", "second"} : WindowOK([r EXCEPT !.pc = pc], events[w], out[w], prop)
    BY <1>0, WindowFields DEF WindowOK
  <2>. QED  BY <1>4, <1>5, <2>1, <2>2 DEF StartWindow, shared
<1>6. CASE WakeOther(w)
  <2>. DEFINE n == [r EXCEPT !.pc = "gone"]
  <2>1. window' = [window EXCEPT ![w] = n] /\ UNCHANGED <<prop, events, server, file>>
    BY <1>3, <1>6 DEF WakeOther
  <2>2. \A o : WindowOK(n, events[w], o, prop)
    BY <1>0, WindowFields DEF WindowOK
  <2>3. out' \in [Clients -> Seq(Requests)] /\ \A x \in Clients : x # w => out'[x] = out[x]
    <3>1. << <<"Visible", TRUE>> >> \in Seq(Requests)
      BY NamesAre, OneRequest DEF Props
    <3>2. UNCHANGED out \/ Ask(w, << <<"Visible", TRUE>> >>)
      BY <1>6 DEF WakeOther
    <3>. QED  BY <1>0, <1>3, <3>1, <3>2, AskKeeps
  <2>. HIDE DEF n
  <2>. QED  BY <1>0, <1>1, <1>2, <1>3, <2>1, <2>2, <2>3
<1>7. CASE TakeWindow(w)
  <2>. DEFINE n == [r EXCEPT !.pc = "first", !.UkGUIVisible = TRUE]
              o == << <<"Visible", TRUE>> >>
  <2>1. window' = [window EXCEPT ![w] = n] /\ UNCHANGED <<prop, events, server, file>>
    BY <1>3, <1>7 DEF TakeWindow
  <2>2. o \in Seq(Requests) /\ Asks(o, "Visible") /\ Ask(w, o)
    BY <1>7, NamesAre, OneRequest DEF Props, TakeWindow
  <2>. HIDE DEF o
  <2>3. /\ out' \in [Clients -> Seq(Requests)] /\ \A x \in Clients : x # w => out'[x] = out[x]
        /\ Asks(out'[w], "Visible")
    BY <1>0, <2>2, AskKeeps
  <2>4. WindowOK(n, events[w], out'[w], prop)
    BY <1>0, <2>3, WindowFields DEF WindowOK
  <2>. HIDE DEF n
  <2>. QED  BY <1>0, <1>1, <1>2, <1>3, <2>1, <2>3, <2>4
<1>8. CASE InitWindow(w)
  <2>. DEFINE m == fixSyncToUnikeyMethod(r)
              c == ShowCharset(m)
              u == [c EXCEPT !.pc = "up"]
              v == PropOf(prop, "Method", "TELEX")
  <2>1. /\ DOMAIN m = DOMAIN NewWindow /\ m.pc = r.pc /\ m.UkActiveMode = r.UkActiveMode
        /\ m.UkGUIVisible = r.UkGUIVisible /\ m.UkActiveMethod \in ToSet(Methods)
        /\ m.UnikeyOn = (v # "OFF") /\ (v # "OFF" => m.UkActiveMethod = v)
    BY <1>0, ShowingIsInStep
  <2>. HIDE DEF m
  <2>2. /\ DOMAIN c = DOMAIN NewWindow /\ c.pc = m.pc /\ c.UkActiveMethod = m.UkActiveMethod
        /\ c.UkGUIVisible = m.UkGUIVisible /\ c.UnikeyOn = m.UnikeyOn
        /\ c.UkActiveMode = PropOf(prop, "Charset", "UTF8") /\ c.UkActiveMode \in ToSet(Charsets)
    BY <1>0, <2>1, ShowingIsInStep
  <2>. HIDE DEF c
  <2>3. Forked(w, u) /\ MayFork /\ r.pc = "first" /\ out[w] = <<>> /\ UNCHANGED <<prop, out, events, file>>
    BY <1>8 DEF InitWindow, MayRead, shared, c, m
  <2>4. Has(events[w], "Visible")
    BY <1>0, <2>3 DEF WindowOK, Asks
  <2>5. \A s : WindowOK([u EXCEPT !.ChildPid = s, !.launches = @ + 1], events[w], out[w], prop)
    BY <2>1, <2>2, <2>4, WindowFields DEF WindowOK, Shown
  <2>. HIDE DEF u
  <2>6. /\ DOMAIN window' = Windows /\ DOMAIN server' = Servers
        /\ \A s \in Servers : ServerLike(server'[s], server[s])
        /\ \A x \in Windows : x # w => window'[x] = window[x]
        /\ \E s : window'[w] = [u EXCEPT !.ChildPid = s, !.launches = @ + 1]
    BY <2>3, ForkKeeps
  <2>. QED  BY <1>1, <1>2, <1>3, <2>3, <2>5, <2>6
<1>9. CASE ShowProperty(w)
  <2>. DEFINE v == PropOf(prop, "Method", "TELEX")
              m == fixSyncToUnikeyMethod(r)
              c == ShowCharset(r)
              n == [r EXCEPT !.UkGUIVisible = UkGetPropValue("Visible", FALSE)]
  <2>1. events[w] # <<>> /\ Taken(w) /\ UNCHANGED <<prop, out, server, file>> /\ r.pc = "up"
    BY <1>9 DEF ShowProperty, Heads
  <2>2. /\ events' \in [Watchers -> Seq(Props)]
        /\ \A x \in Watchers : x # w => events'[x] = events[x]
        /\ \A a : Has(events[w], a) => Has(events'[w], a) \/ Head(events[w]) = a
    BY <1>0, <2>1, TakenKeeps
  <2>3. \/ Head(events[w]) = "Charset" /\ window' = [window EXCEPT ![w] = c]
        \/ Head(events[w]) = "Method" /\ window' = [window EXCEPT ![w] = m]
        \/ Head(events[w]) = "Visible" /\ window' = [window EXCEPT ![w] = n]
    BY <1>3, <1>9 DEF ShowProperty, Heads
  <2>4. /\ DOMAIN m = DOMAIN NewWindow /\ m.pc = r.pc /\ m.UkActiveMode = r.UkActiveMode
        /\ m.UkGUIVisible = r.UkGUIVisible /\ m.UkActiveMethod \in ToSet(Methods)
        /\ m.UnikeyOn = (v # "OFF") /\ (v # "OFF" => m.UkActiveMethod = v)
        /\ DOMAIN c = DOMAIN NewWindow /\ c.pc = r.pc /\ c.UkActiveMethod = r.UkActiveMethod
        /\ c.UkGUIVisible = r.UkGUIVisible /\ c.UnikeyOn = r.UnikeyOn
        /\ c.UkActiveMode = PropOf(prop, "Charset", "UTF8") /\ c.UkActiveMode \in ToSet(Charsets)
    BY <1>0, ShowingIsInStep
  <2>5. /\ DOMAIN n = DOMAIN NewWindow /\ n.pc = r.pc /\ n.UkActiveMethod = r.UkActiveMethod
        /\ n.UkActiveMode = r.UkActiveMode /\ n.UnikeyOn = r.UnikeyOn
        /\ n.UkGUIVisible = PropOf(prop, "Visible", FALSE)
    BY <1>0, WindowFields DEF UkGetPropValue, PropOf
  <2>. HIDE DEF m, c, n
  <2>6. Shown(r, events[w], prop)
    BY <1>0, <2>1 DEF WindowOK
  <2>7. /\ Head(events[w]) = "Charset" => WindowOK(c, events'[w], out[w], prop)
        /\ Head(events[w]) = "Method" => WindowOK(m, events'[w], out[w], prop)
        /\ Head(events[w]) = "Visible" => WindowOK(n, events'[w], out[w], prop)
    BY <1>0, <2>1, <2>2, <2>4, <2>5, <2>6 DEF WindowOK, Shown
  <2>. QED  BY <1>0, <1>1, <1>2, <1>3, <2>1, <2>2, <2>3, <2>7
<1>10. CASE ximLaunchHandler(w)
  <2>1. PICK sig : window' = [window EXCEPT ![w] = [Without(w, sig) EXCEPT !.XimLaunchOk = (sig = "USR1")]]
    BY <1>10 DEF ximLaunchHandler
  <2>. DEFINE n == [Without(w, sig) EXCEPT !.XimLaunchOk = (sig = "USR1")]
  <2>2. Like(n, r)
    BY <1>0, WindowFields DEF Like, Without
  <2>3. WindowOK(n, events[w], out[w], prop)
    BY <1>0, <2>2, LikeKeeps
  <2>. HIDE DEF n
  <2>. QED  BY <1>4, <1>10, <2>1, <2>3 DEF ximLaunchHandler, shared, n
<1>11. CASE ximTerminatedHandler(w)
  <2>. DEFINE h == Without(w, "CHLD")
              u == [h EXCEPT !.XimLaunchOk = FALSE]
  <2>0. UNCHANGED <<prop, out, events, file>>
    BY <1>11 DEF ximTerminatedHandler, shared
  <2>1. Like(h, r) /\ \A s : Like([u EXCEPT !.ChildPid = s, !.launches = @ + 1], r)
    BY <1>0, WindowFields DEF Like, Without
  <2>2. /\ WindowOK(h, events[w], out[w], prop)
        /\ \A s : WindowOK([u EXCEPT !.ChildPid = s, !.launches = @ + 1], events[w], out[w], prop)
    BY <1>0, <2>1, LikeKeeps
  <2>3. \/ window' = [window EXCEPT ![w] = h] /\ UNCHANGED server
        \/ MayFork /\ Forked(w, u)
    BY <1>11 DEF ximTerminatedHandler
  <2>. HIDE DEF h, u
  <2>4. CASE window' = [window EXCEPT ![w] = h] /\ UNCHANGED server
    BY <1>4, <2>0, <2>2, <2>4
  <2>5. CASE MayFork /\ Forked(w, u)
    <3>1. /\ DOMAIN window' = Windows /\ DOMAIN server' = Servers
          /\ \A s \in Servers : ServerLike(server'[s], server[s])
          /\ \A x \in Windows : x # w => window'[x] = window[x]
          /\ \E s : window'[w] = [u EXCEPT !.ChildPid = s, !.launches = @ + 1]
      BY <2>5, ForkKeeps
    <3>. QED  BY <1>1, <1>2, <1>3, <2>0, <2>2, <3>1
  <2>. QED  BY <2>3, <2>4, <2>5
<1>12. CASE Click(w)
  <2>1. UNCHANGED <<prop, events, window, server, file>>
    BY <1>12 DEF Click
  <2>2. PICK o \in Seq(Requests) : Ask(w, o)
    <3>1. NextIn(Methods, r.UkActiveMethod) \in ToSet(Methods)
      BY <1>0, NextInList
    <3>2. << <<"Charset", NextIn(Charsets, r.UkActiveMode)>> >> \in Seq(Requests)
      BY <1>0, NextInList, OneRequest DEF ValuesOf, Props
    <3>3. << <<"Visible", FALSE>> >> \in Seq(Requests)
      BY NamesAre, OneRequest DEF Props
    <3>4. /\ OFF \in Seq(Requests) /\ fixUnikeyToSyncMethod(r.UkActiveMethod) \in Seq(Requests)
          /\ fixUnikeyToSyncMethod(NextIn(Methods, r.UkActiveMethod)) \in Seq(Requests)
      BY <1>0, <3>1, MethodRequests
    <3>5. << <<"Charset", NextIn(Charsets, r.UkActiveMode)>> >>
            \o fixUnikeyToSyncMethod(r.UkActiveMethod) \in Seq(Requests)
      BY <3>2, <3>4, ConcatProperties
    <3>. QED  BY <1>12, <3>3, <3>4, <3>5, Zenon DEF Click
  <2>3. /\ out' \in [Clients -> Seq(Requests)] /\ \A x \in Clients : x # w => out'[x] = out[x]
        /\ \A a : Asks(out[w], a) => Asks(out'[w], a)
    BY <1>0, <2>2, AskKeeps
  <2>4. WindowOK(r, events[w], out'[w], prop)
    BY <1>0, <2>3 DEF WindowOK
  <2>. QED  BY <1>0, <1>1, <1>2, <1>3, <2>1, <2>3, <2>4
<1>13. CASE reloadXimConfig(w)
  <2>1. Kill(window[w].ChildPid, "USR1") /\ UNCHANGED <<prop, out, events, window, file>>
    BY <1>13 DEF reloadXimConfig, shared
  <2>2. DOMAIN server' = Servers /\ \A t \in Servers : ServerLike(server'[t], server[t])
    BY <2>1, KillsKeep
  <2>. QED  BY <1>0, <1>1, <1>2, <1>3, <2>1, <2>2
<1>14. CASE CloseWindow(w)
  <2>. DEFINE n == [r EXCEPT !.pc = "gone", !.signals = {}]
  <2>1. /\ window' = [window EXCEPT ![w] = n] /\ UNCHANGED file
        /\ Kill(window[w].ChildPid, "TERM") /\ Gone(w, Len(out[w]))
    BY <1>3, <1>14 DEF CloseWindow
  <2>2. DOMAIN server' = Servers /\ \A t \in Servers : ServerLike(server'[t], server[t])
    BY <2>1, KillsKeep
  <2>3. Len(out[w]) \in 0 .. Len(out[w])
    BY <1>0, LenProperties
  <2>4. /\ out' \in [Clients -> Seq(Requests)] /\ events' \in [Watchers -> Seq(Props)]
        /\ UNCHANGED prop
        /\ \A x \in Watchers : x # w => events'[x] = events[x] /\ out'[x] = out[x]
    BY <1>0, <2>1, <2>3, GoneLeaves
  <2>5. \A q, o : WindowOK(n, q, o, prop)
    BY <1>0, WindowFields DEF WindowOK
  <2>. HIDE DEF n
  <2>. QED  BY <1>1, <1>2, <1>3, <2>1, <2>2, <2>4, <2>5
<1>. QED
  BY <1>5, <1>6, <1>7, <1>8, <1>9, <1>10, <1>11, <1>12, <1>13, <1>14

\* UkParseOptFile and saveOptFile: options stay options.
LEMMA FilesKeep ==
  ASSUME FileOK(file), NEW opt \in Options
  PROVE  Parsed(opt) \in Options /\ FileOK(Saved(opt))
<1>1. PICK o \in Options : \A k \in DOMAIN file : k \in DOMAIN o /\ file[k] = o[k]
  BY DEF FileOK
<1>2. \A x \in Options : DOMAIN x = {"enabled", "method", "charset", "autoSave", "usrMap"}
  BY DEF Options
<1>. DEFINE n == Parsed(opt)
<1>3. /\ n = [k \in {"enabled", "method", "charset", "autoSave", "usrMap"} |-> n[k]]
      /\ \A k \in {"enabled", "method", "charset", "autoSave", "usrMap"} : n[k] = o[k] \/ n[k] = opt[k]
  BY <1>1, <1>2 DEF Parsed
<1>. HIDE DEF n
<1>4. n.enabled \in BOOLEAN /\ n.autoSave \in BOOLEAN /\ n.usrMap \in BOOLEAN
  BY <1>3 DEF Options
<1>5. n.method \in ToSet(Methods) /\ n.charset \in ToSet(Charsets)
  BY <1>3 DEF Options
<1>6. n \in Options
  BY <1>3, <1>4, <1>5 DEF Options
<1>7. FileOK(Saved(opt))
  <2>1. DOMAIN Saved(opt) \subseteq DOMAIN opt /\ \A k \in DOMAIN Saved(opt) : Saved(opt)[k] = opt[k]
    BY DEF Saved
  <2>. QED  BY <2>1 DEF FileOK
<1>. QED  BY <1>6, <1>7 DEF n

\* A server that reads the option file again asks for what it read.
LEMMA ReloadKeeps ==
  ASSUME TypesOK, NEW s \in Servers, NEW r, NEW q, reloadConfig(s, r),
         DOMAIN r = DOMAIN NewServer, r.GlobalOpt \in Options,
         r.seen \in {None, "OFF"} \cup ToSet(Methods), r.seen # None => r.pc = "up",
         Has(q, "Visible") \/ r.UkGUIVisible = PropOf(prop, "Visible", FALSE)
  PROVE  /\ ServerOK(server'[s], q, out'[s], prop) /\ DOMAIN server' = Servers
         /\ \A t \in Servers : t # s => server'[t] = server[t]
         /\ out' \in [Clients -> Seq(Requests)] /\ \A x \in Clients : x # s => out'[x] = out[x]
<1>. DEFINE opt == Parsed(r.GlobalOpt)
            n == [r EXCEPT !.GlobalOpt = opt]
<1>1. opt \in Options
  BY FilesKeep DEF TypesOK
<1>2. server' = [server EXCEPT ![s] = n] /\ Ask(s, SyncProperties(opt))
  BY DEF reloadConfig
<1>. HIDE DEF opt
<1>3. /\ DOMAIN n = DOMAIN NewServer /\ n.GlobalOpt = opt /\ n.seen = r.seen /\ n.pc = r.pc
      /\ n.UkGUIVisible = r.UkGUIVisible
  BY ServerFields
<1>. HIDE DEF n
<1>4. /\ SyncProperties(opt) \in Seq(Requests)
      /\ Asks(SyncProperties(opt), "Charset") /\ Asks(SyncProperties(opt), "Method")
  BY <1>1, ReloadRequests
<1>5. /\ out' \in [Clients -> Seq(Requests)] /\ \A x \in Clients : x # s => out'[x] = out[x]
      /\ Asks(out'[s], "Charset") /\ Asks(out'[s], "Method")
  <2>1. s \in Clients
    BY DEF Clients
  <2>. QED  BY <1>2, <1>4, <2>1, AskKeeps
<1>6. ServerOK(n, q, out'[s], prop)
  BY <1>1, <1>3, <1>5 DEF ServerOK, Heeds
<1>. QED  BY <1>2, <1>5, <1>6 DEF TypesOK

\* One server acts.
LEMMA ServerActs ==
  ASSUME SessionInv, NEW s \in Servers, UNCHANGED prop, FileOK(file'),
         DOMAIN window' = Windows, DOMAIN server' = Servers,
         out' \in [Clients -> Seq(Requests)], events' \in [Watchers -> Seq(Props)],
         \A x \in Watchers : x # s => events'[x] = events[x] /\ out'[x] = out[x],
         \A w \in Windows : Like(window'[w], window[w]),
         \A t \in Servers : t # s => ServerLike(server'[t], server[t]),
         ServerOK(server'[s], events'[s], out'[s], prop)
  PROVE  SessionInv'
<1>1. TypesOK'
  BY DEF SessionInv, TypesOK, Watchers
<1>2. s \notin Windows
  BY NamesAssumption
<1>. QED  BY <1>1, <1>2, OneActs

\* A server that ends.
LEMMA EndsKeeps ==
  ASSUME SessionInv, NEW s \in Servers, NEW n \in 0 .. Len(out[s]), Ends(s, n), FileOK(file')
  PROVE  SessionInv'
<1>. DEFINE d == [server[s] EXCEPT !.pc = "dead", !.signals = {}, !.seen = None]
<1>1. TypesOK /\ ServerOK(server[s], events[s], out[s], prop) /\ s \in Watchers
  BY DEF SessionInv, AllInStep, Watchers
<1>2. server' = [server EXCEPT ![s] = d] /\ window' = Signalled(s, "CHLD") /\ Gone(s, n)
  BY <1>1 DEF Ends, TypesOK
<1>3. \A q, o : ServerOK(d, q, o, prop)
  BY <1>1, ServerFields DEF ServerOK
<1>. HIDE DEF d
<1>4. /\ out' \in [Clients -> Seq(Requests)] /\ events' \in [Watchers -> Seq(Props)]
      /\ UNCHANGED prop
      /\ \A x \in Watchers : x # s => events'[x] = events[x] /\ out'[x] = out[x]
  BY <1>1, <1>2, GoneLeaves
<1>5. DOMAIN window' = Windows /\ \A w \in Windows : Like(window'[w], window[w])
  BY <1>2, KillsKeep
<1>6. /\ DOMAIN server' = Servers /\ server'[s] = d
      /\ \A t \in Servers : t # s => ServerLike(server'[t], server[t])
  BY <1>1, <1>2, SignalsKeep DEF TypesOK
<1>. QED  BY <1>3, <1>4, <1>5, <1>6, ServerActs

\* The steps of a server.
LEMMA ServerStep ==
  ASSUME SessionInv, NEW s \in Servers,
         \/ StartServer(s) \/ EndRefused(s) \/ TakeServer(s) \/ Configure(s)
         \/ Report(s) \/ signalSetup(s) \/ HeedProperty(s) \/ ReadMethod(s)
         \/ UseMethod(s) \/ PressKey(s) \/ Signal(s)
  PROVE  SessionInv'
<1>. DEFINE r == server[s]
<1>0. /\ TypesOK /\ s \in Watchers /\ s \in Clients /\ FileOK(file) /\ Watchers \subseteq Clients
      /\ ServerOK(r, events[s], out[s], prop) /\ DOMAIN r = DOMAIN NewServer
      /\ r.GlobalOpt \in Options /\ r.seen \in {None, "OFF"} \cup ToSet(Methods)
      /\ r.seen # None => r.pc = "up"
      /\ r.pc \in {"ready", "reported", "up"} => Heeds(r, events[s], out[s], prop)
      /\ out[s] \in Seq(Requests) /\ events[s] \in Seq(Props)
  BY DEF SessionInv, TypesOK, AllInStep, ServerOK, Watchers, Clients
<1>1. /\ \A x \in Windows : Like(window[x], window[x])
      /\ \A t \in Servers : ServerLike(server[t], server[t])
      /\ DOMAIN window = Windows /\ DOMAIN server = Servers
      /\ out \in [Clients -> Seq(Requests)] /\ events \in [Watchers -> Seq(Props)]
      /\ 0 \in 0 .. Len(out[s]) /\ Len(out[s]) \in 0 .. Len(out[s])
  BY <1>0, SignalsKeep, LenProperties DEF TypesOK, Watchers
<1>2. ASSUME NEW n, server' = [server EXCEPT ![s] = n], UNCHANGED <<prop, out, file>>,
             events' \in [Watchers -> Seq(Props)], \A x \in Watchers : x # s => events'[x] = events[x],
             DOMAIN window' = Windows, \A x \in Windows : Like(window'[x], window[x]),
             ServerOK(n, events'[s], out[s], prop)
      PROVE  SessionInv'
  BY <1>0, <1>1, <1>2, ServerActs
<1>3. ASSUME NEW n, server' = [server EXCEPT ![s] = n], UNCHANGED <<prop, out, events, window, file>>,
             ServerOK(n, events[s], out[s], prop)
      PROVE  SessionInv'
  BY <1>1, <1>2, <1>3
<1>4. CASE StartServer(s)
  <2>1. \E pc \in {"free", "refused"} : server' = [server EXCEPT ![s] = [r EXCEPT !.pc = pc]]
    BY <1>1, <1>4 DEF StartServer
  <2>2. r.pc = "forked" /\ UNCHANGED <<prop, out, events, file>>
    BY <1>4 DEF StartServer, shared
  <2>3. \A pc \in {"free", "refused"} : ServerOK([r EXCEPT !.pc = pc], events[s], out[s], prop)
    BY <1>0, <2>2, ServerFields DEF ServerOK
  <2>4. DOMAIN window' = Windows /\ \A x \in Windows : Like(window'[x], window[x])
    BY <1>1, <1>4, KillsKeep DEF StartServer
  <2>. QED  BY <1>1, <1>2, <2>1, <2>2, <2>3, <2>4
<1>5. CASE EndRefused(s)
  BY <1>0, <1>1, <1>5, EndsKeeps DEF EndRefused
<1>6. CASE TakeServer(s)
  <2>. DEFINE n == [r EXCEPT !.pc = "first"]
  <2>1. server' = [server EXCEPT ![s] = n] /\ r.pc = "free" /\ UNCHANGED <<prop, out, events, window, file>>
    BY <1>1, <1>6 DEF TakeServer, shared
  <2>2. ServerOK(n, events[s], out[s], prop)
    BY <1>0, <2>1, ServerFields DEF ServerOK
  <2>. HIDE DEF n
  <2>. QED  BY <1>3, <2>1, <2>2
<1>7. CASE Configure(s)
  <2>. DEFINE n == [r EXCEPT !.pc = "ready", !.GlobalOpt = DefaultOpt,
                             !.UkGUIVisible = UkGetPropValue("Visible", FALSE)]
  <2>1. reloadConfig(s, n) /\ r.pc = "first" /\ UNCHANGED <<prop, events, window, file>>
    BY <1>7 DEF Configure
  <2>2. /\ DOMAIN n = DOMAIN NewServer /\ n.GlobalOpt \in Options /\ n.seen = None
        /\ n.UkGUIVisible = PropOf(prop, "Visible", FALSE)
    BY <1>0, <2>1, ServerFields DEF UkGetPropValue, PropOf
  <2>. HIDE DEF n
  <2>3. /\ ServerOK(server'[s], events[s], out'[s], prop) /\ DOMAIN server' = Servers
        /\ \A t \in Servers : t # s => server'[t] = server[t]
        /\ out' \in [Clients -> Seq(Requests)] /\ \A x \in Clients : x # s => out'[x] = out[x]
    BY <1>0, <2>1, <2>2, ReloadKeeps
  <2>. QED  BY <1>0, <1>1, <2>1, <2>3, ServerActs
<1>8. CASE Report(s)
  <2>. DEFINE n == [r EXCEPT !.pc = "reported"]
  <2>1. server' = [server EXCEPT ![s] = n] /\ r.pc = "ready" /\ UNCHANGED <<prop, out, events, file>>
    BY <1>1, <1>8 DEF Report, shared
  <2>2. ServerOK(n, events[s], out[s], prop)
    BY <1>0, <2>1, ServerFields DEF ServerOK, Heeds
  <2>. HIDE DEF n
  <2>3. \A x \in Windows : Like([Signalled(s, "USR1")[x] EXCEPT !.reports = @ + 1], window[x])
    BY KillsKeep, WindowFields DEF Like
  <2>4. DOMAIN window' = Windows /\ \A x \in Windows : Like(window'[x], window[x])
    BY <1>1, <1>8, <2>3 DEF Report
  <2>. QED  BY <1>1, <1>2, <2>1, <2>2, <2>4
<1>9. CASE signalSetup(s)
  <2>. DEFINE n == [r EXCEPT !.pc = "up"]
  <2>1. server' = [server EXCEPT ![s] = n] /\ r.pc = "reported" /\ UNCHANGED <<prop, out, events, window, file>>
    BY <1>1, <1>9 DEF signalSetup, shared
  <2>2. ServerOK(n, events[s], out[s], prop)
    BY <1>0, <2>1, ServerFields DEF ServerOK, Heeds
  <2>. HIDE DEF n
  <2>. QED  BY <1>3, <2>1, <2>2
<1>10. CASE HeedProperty(s)
  <2>. DEFINE c == UkGetPropValue("Charset", "UTF8")
              t == UkGetPropValue("Visible", FALSE)
              nc == [r EXCEPT !.GlobalOpt = [r.GlobalOpt EXCEPT !.charset = c], !.imCharset = c]
              nt == [r EXCEPT !.UkGUIVisible = TRUE]
              nf == [r EXCEPT !.UkGUIVisible = FALSE]
  <2>1. /\ r.pc = "up" /\ r.seen = None /\ events[s] # <<>> /\ Taken(s) /\ UNCHANGED <<prop, window>>
        /\ \/ Head(events[s]) = "Charset" /\ server' = [server EXCEPT ![s] = nc] /\ UNCHANGED <<out, file>>
           \/ Head(events[s]) = "Visible" /\ t /\ reloadConfig(s, nt) /\ UNCHANGED file
           \/ /\ Head(events[s]) = "Visible" /\ ~t /\ server' = [server EXCEPT ![s] = nf] /\ UNCHANGED out
              /\ file' = file \/ file' = Saved(r.GlobalOpt)
    BY <1>1, <1>10 DEF HeedProperty, Heads
  <2>2. /\ events' \in [Watchers -> Seq(Props)]
        /\ \A x \in Watchers : x # s => events'[x] = events[x]
        /\ \A a : Has(events[s], a) => Has(events'[s], a) \/ Head(events[s]) = a
    BY <1>0, <2>1, TakenKeeps
  <2>3. /\ c = PropOf(prop, "Charset", "UTF8") /\ c \in ToSet(Charsets)
        /\ t = PropOf(prop, "Visible", FALSE) /\ t \in BOOLEAN
    BY <1>0, PropTypes DEF UkGetPropValue, PropOf
  <2>4. Heeds(r, events[s], out[s], prop)
    BY <1>0, <2>1
  <2>. HIDE DEF c, t
  <2>5. CASE Head(events[s]) = "Charset" /\ server' = [server EXCEPT ![s] = nc] /\ UNCHANGED <<out, file>>
    <3>1. /\ DOMAIN nc = DOMAIN NewServer /\ nc.GlobalOpt = [r.GlobalOpt EXCEPT !.charset = c]
          /\ nc.imCharset = c /\ nc.seen = r.seen /\ nc.imMethod = r.imMethod /\ nc.pc = r.pc
          /\ nc.UkGUIVisible = r.UkGUIVisible
      BY <1>0, ServerFields
    <3>. HIDE DEF nc
    <3>2. /\ nc.GlobalOpt \in Options /\ nc.GlobalOpt.charset = c
          /\ nc.GlobalOpt.enabled = r.GlobalOpt.enabled /\ nc.GlobalOpt.method = r.GlobalOpt.method
          /\ nc.GlobalOpt.usrMap = r.GlobalOpt.usrMap
      BY <1>0, <2>3, <3>1 DEF Options
    <3>3. ServerOK(nc, events'[s], out[s], prop)
      BY <2>1, <2>2, <2>3, <2>4, <2>5, <3>1, <3>2 DEF ServerOK, Heeds
    <3>. QED  BY <1>1, <1>2, <2>1, <2>2, <2>5, <3>3
  <2>6. CASE Head(events[s]) = "Visible" /\ t /\ reloadConfig(s, nt) /\ UNCHANGED file
    <3>1. /\ DOMAIN nt = DOMAIN NewServer /\ nt.GlobalOpt \in Options /\ nt.seen = None
          /\ nt.UkGUIVisible = PropOf(prop, "Visible", FALSE)
      BY <1>0, <2>1, <2>3, <2>6, ServerFields
    <3>. HIDE DEF nt
    <3>2. /\ ServerOK(server'[s], events'[s], out'[s], prop) /\ DOMAIN server' = Servers
          /\ \A x \in Servers : x # s => server'[x] = server[x]
          /\ out' \in [Clients -> Seq(Requests)] /\ \A x \in Clients : x # s => out'[x] = out[x]
      BY <1>0, <2>6, <3>1, ReloadKeeps
    <3>. QED  BY <1>0, <1>1, <2>1, <2>2, <2>6, <3>2, ServerActs
  <2>7. CASE /\ Head(events[s]) = "Visible" /\ ~t /\ server' = [server EXCEPT ![s] = nf] /\ UNCHANGED out
             /\ file' = file \/ file' = Saved(r.GlobalOpt)
    <3>1. /\ DOMAIN nf = DOMAIN NewServer /\ nf.GlobalOpt = r.GlobalOpt /\ nf.imCharset = r.imCharset
          /\ nf.seen = r.seen /\ nf.imMethod = r.imMethod /\ nf.pc = r.pc
          /\ nf.UkGUIVisible = PropOf(prop, "Visible", FALSE)
      BY <1>0, <2>3, <2>7, ServerFields
    <3>. HIDE DEF nf
    <3>2. ServerOK(nf, events'[s], out[s], prop)
      BY <1>0, <2>2, <2>4, <2>7, <3>1 DEF ServerOK, Heeds
    <3>3. FileOK(file')
      BY <1>0, <2>7, FilesKeep
    <3>. QED  BY <1>0, <1>1, <2>1, <2>2, <2>7, <3>2, <3>3, ServerActs
  <2>. QED  BY <2>1, <2>5, <2>6, <2>7
<1>11. CASE ReadMethod(s)
  <2>. DEFINE v == UkGetPropValue("Method", "TELEX")
              n == [r EXCEPT !.seen = v]
  <2>1. /\ r.pc = "up" /\ events[s] # <<>> /\ Head(events[s]) = "Method" /\ Taken(s)
        /\ UNCHANGED <<prop, out, window, file>> /\ server' = [server EXCEPT ![s] = n]
    BY <1>1, <1>11 DEF ReadMethod, Heads
  <2>2. /\ events' \in [Watchers -> Seq(Props)]
        /\ \A x \in Watchers : x # s => events'[x] = events[x]
        /\ \A a : Has(events[s], a) => Has(events'[s], a) \/ Head(events[s]) = a
    BY <1>0, <2>1, TakenKeeps
  <2>3. v = PropOf(prop, "Method", "TELEX") /\ v \in {"OFF"} \cup ToSet(Methods) /\ v # None
    BY <1>0, PropTypes, NamesAre, NamesAssumption DEF UkGetPropValue, PropOf
  <2>4. Heeds(r, events[s], out[s], prop)
    BY <1>0, <2>1
  <2>. HIDE DEF v
  <2>5. /\ DOMAIN n = DOMAIN NewServer /\ n.GlobalOpt = r.GlobalOpt /\ n.imCharset = r.imCharset
        /\ n.seen = v /\ n.imMethod = r.imMethod /\ n.pc = r.pc /\ n.UkGUIVisible = r.UkGUIVisible
    BY <1>0, ServerFields
  <2>. HIDE DEF n
  <2>6. ServerOK(n, events'[s], out[s], prop)
    BY <1>0, <2>1, <2>2, <2>3, <2>4, <2>5 DEF ServerOK, Heeds
  <2>. QED  BY <1>1, <1>2, <2>1, <2>2, <2>6
<1>12. CASE UseMethod(s)
  <2>. DEFINE v == r.seen
              m == IF v = "OFF" THEN r.GlobalOpt.method ELSE v
              opt == [r.GlobalOpt EXCEPT !.enabled = (v # "OFF"), !.method = m]
              im == IF v = "OFF" THEN r.imMethod ELSE UnikeySetInputMethod(r, m)
              n == [r EXCEPT !.seen = None, !.GlobalOpt = opt, !.imMethod = im]
  <2>1. /\ v # None /\ UNCHANGED <<prop, out, events, window, file>>
        /\ server' = [server EXCEPT ![s] = n]
    BY <1>1, <1>12 DEF UseMethod, shared
  <2>2. m \in ToSet(Methods) /\ (v # "OFF" => m = v)
    BY <1>0, <2>1 DEF Options
  <2>3. /\ opt \in Options /\ opt.enabled = (v # "OFF") /\ opt.method = m
        /\ opt.charset = r.GlobalOpt.charset /\ opt.usrMap = r.GlobalOpt.usrMap
    BY <1>0, <2>2 DEF Options
  <2>4. v # "OFF" => im = v \/ (v = "USER" /\ ~opt.usrMap)
    BY <2>2, <2>3 DEF UnikeySetInputMethod
  <2>. HIDE DEF m, opt, im
  <2>5. /\ DOMAIN n = DOMAIN NewServer /\ n.GlobalOpt = opt /\ n.imCharset = r.imCharset
        /\ n.seen = None /\ n.imMethod = im /\ n.pc = r.pc /\ n.UkGUIVisible = r.UkGUIVisible
    BY <1>0, ServerFields
  <2>6. Heeds(r, events[s], out[s], prop)
    BY <1>0, <2>1
  <2>. HIDE DEF n
  <2>7. Heeds(n, events[s], out[s], prop)
    BY <2>1, <2>2, <2>3, <2>4, <2>5, <2>6 DEF Heeds
  <2>8. ServerOK(n, events[s], out[s], prop)
    BY <2>3, <2>5, <2>7 DEF ServerOK
  <2>. QED  BY <1>3, <2>1, <2>8
<1>13. CASE PressKey(s)
  <2>. DEFINE opt == r.GlobalOpt
  <2>0. r.pc = "up" /\ UNCHANGED <<prop, events, window, file>> /\ Heeds(r, events[s], out[s], prop)
    BY <1>0, <1>13 DEF PressKey
  <2>1. (UNCHANGED server /\ \E o \in Seq(Requests) : Ask(s, o)) \/ reloadConfig(s, r)
    <3>1. OFF \in Seq(Requests) /\ \A m \in ToSet(Methods) : fixUnikeyToSyncMethod(m) \in Seq(Requests)
      BY <1>0, MethodRequests DEF Options
    <3>2. \A c \in ToSet(Charsets) : << <<"Charset", c>> >> \in Seq(Requests)
      BY OneRequest DEF ValuesOf, Props
    <3>3. opt.method \in ToSet(Methods)
      BY <1>0 DEF Options
    <3>4. \/ /\ Ask(s, IF opt.enabled THEN OFF ELSE fixUnikeyToSyncMethod(opt.method))
             /\ UNCHANGED server
          \/ \E c \in ToSet(Charsets) : Ask(s, << <<"Charset", c>> >>) /\ UNCHANGED server
          \/ \E m \in ToSet(Methods) : Ask(s, fixUnikeyToSyncMethod(m)) /\ UNCHANGED server
          \/ reloadConfig(s, r)
      BY <1>13, Zenon DEF PressKey
    <3>5. (IF opt.enabled THEN OFF ELSE fixUnikeyToSyncMethod(opt.method)) \in Seq(Requests)
      BY <3>1, <3>3
    <3>. QED  BY <3>1, <3>2, <3>4, <3>5, Zenon
  <2>2. CASE UNCHANGED server /\ \E o \in Seq(Requests) : Ask(s, o)
    <3>1. /\ out' \in [Clients -> Seq(Requests)] /\ \A x \in Clients : x # s => out'[x] = out[x]
          /\ \A a : Asks(out[s], a) => Asks(out'[s], a)
      BY <1>0, <2>2, AskKeeps
    <3>2. ServerOK(r, events[s], out'[s], prop)
      BY <1>0, <2>0, <3>1 DEF ServerOK, Heeds
    <3>. QED  BY <1>0, <1>1, <2>0, <2>2, <3>1, <3>2, ServerActs
  <2>3. CASE reloadConfig(s, r)
    <3>1. Has(events[s], "Visible") \/ r.UkGUIVisible = PropOf(prop, "Visible", FALSE)
      BY <2>0 DEF Heeds
    <3>2. /\ ServerOK(server'[s], events[s], out'[s], prop) /\ DOMAIN server' = Servers
          /\ \A t \in Servers : t # s => server'[t] = server[t]
          /\ out' \in [Clients -> Seq(Requests)] /\ \A x \in Clients : x # s => out'[x] = out[x]
      BY <1>0, <2>3, <3>1, ReloadKeeps
    <3>. QED  BY <1>0, <1>1, <2>0, <3>2, ServerActs
  <2>. QED  BY <2>1, <2>2, <2>3
<1>14. CASE Signal(s)
  <2>. DEFINE n(sig) == [r EXCEPT !.signals = @ \ {sig}]
  <2>1. PICK sig :
          \/ Ends(s, 0) /\ UNCHANGED file
          \/ r.pc = "up" /\ reloadConfig(s, n(sig)) /\ UNCHANGED <<prop, events, window, file>>
          \/ (file' = file \/ file' = Saved(r.GlobalOpt)) /\ Ends(s, Len(out[s]))
    BY <1>14 DEF Signal
  <2>2. CASE Ends(s, 0) /\ UNCHANGED file
    BY <1>0, <1>1, <2>2, EndsKeeps
  <2>3. CASE r.pc = "up" /\ reloadConfig(s, n(sig)) /\ UNCHANGED <<prop, events, window, file>>
    <3>. DEFINE m == n(sig)
    <3>1. /\ DOMAIN m = DOMAIN NewServer /\ m.GlobalOpt = r.GlobalOpt /\ m.seen = r.seen
          /\ m.pc = r.pc /\ m.UkGUIVisible = r.UkGUIVisible
      BY <1>0, ServerFields
    <3>2. reloadConfig(s, m)
      BY <2>3
    <3>. HIDE DEF m
    <3>3. Has(events[s], "Visible") \/ m.UkGUIVisible = PropOf(prop, "Visible", FALSE)
      BY <1>0, <2>3, <3>1 DEF Heeds
    <3>4. /\ ServerOK(server'[s], events[s], out'[s], prop) /\ DOMAIN server' = Servers
          /\ \A t \in Servers : t # s => server'[t] = server[t]
          /\ out' \in [Clients -> Seq(Requests)] /\ \A x \in Clients : x # s => out'[x] = out[x]
      BY <1>0, <3>1, <3>2, <3>3, ReloadKeeps
    <3>. QED  BY <1>0, <1>1, <2>3, <3>4, ServerActs
  <2>4. CASE (file' = file \/ file' = Saved(r.GlobalOpt)) /\ Ends(s, Len(out[s]))
    <3>1. FileOK(file')
      BY <1>0, <2>4, FilesKeep
    <3>. QED  BY <1>1, <2>4, <3>1, EndsKeeps
  <2>. QED  BY <2>1, <2>2, <2>3, <2>4
<1>. QED
  BY <1>4, <1>5, <1>6, <1>7, <1>8, <1>9, <1>10, <1>11, <1>12, <1>13, <1>14

\* The steps of a GTK program.
LEMMA AppStep ==
  ASSUME SessionInv, AppChanges
  PROVE  SessionInv'
<1>1. TypesOK /\ App \in Clients /\ App \notin Watchers
  BY NamesAssumption DEF SessionInv, Clients, Watchers
<1>2. UNCHANGED <<prop, events, window, server, file>>
  BY DEF AppChanges
<1>3. PICK o \in Seq(Requests) : Ask(App, o)
  <2>1. OFF \in Seq(Requests) /\ \A m \in ToSet(Methods) : << <<"Method", m>>, <<"Using", m>> >> \in Seq(Requests)
    <3>1. "TELEX" \in ToSet(Methods)
      BY NamesAre
    <3>. QED  BY <3>1, MethodRequests
  <2>2. \A c \in ToSet(Charsets) : << <<"Charset", c>> >> \in Seq(Requests)
    BY OneRequest DEF ValuesOf, Props
  <2>. QED  BY <2>1, <2>2, Zenon DEF AppChanges
<1>4. out' \in [Clients -> Seq(Requests)] /\ \A x \in Clients : x # App => out'[x] = out[x]
  BY <1>1, <1>3, AskKeeps
<1>5. \A x \in Watchers : x # App /\ x \in Clients
  BY <1>1 DEF Watchers, Clients
<1>6. TypesOK'
  BY <1>1, <1>2, <1>4 DEF TypesOK
<1>7. \A x \in Watchers : events'[x] = events[x] /\ out'[x] = out[x]
  BY <1>2, <1>4, <1>5
<1>8. App \notin Windows /\ App \notin Servers
  BY <1>1 DEF Watchers
<1>. QED  BY <1>2, <1>6, <1>7, <1>8, SignalsKeep, OneActs

\* A process that is killed.
LEMMA CrashStep ==
  ASSUME SessionInv, Crash
  PROVE  SessionInv'
<1>1. TypesOK /\ DOMAIN window = Windows /\ DOMAIN server = Servers /\ UNCHANGED file /\ FileOK(file')
  BY DEF SessionInv, TypesOK, Crash
<1>2. \A c \in Watchers : Left(c) \subseteq 0 .. Len(out[c])
  <2>1. \A c \in Watchers : Len(out[c]) \in Nat
    BY <1>1, LenProperties DEF TypesOK, Watchers, Clients
  <2>. QED  BY <2>1 DEF Left
<1>3. CASE \E s \in Servers : \E n \in Left(s) : Living(s) /\ Ends(s, n)
  BY <1>1, <1>2, <1>3, EndsKeeps DEF Watchers
<1>4. CASE \E w \in Windows : \E n \in Left(w) :
             /\ window[w].pc = "up" /\ Gone(w, n)
             /\ window' = [window EXCEPT ![w].pc = "gone", ![w].signals = {}]
             /\ UNCHANGED server
  <2>1. PICK w \in Windows : \E n \in Left(w) :
             /\ window[w].pc = "up" /\ Gone(w, n)
             /\ window' = [window EXCEPT ![w].pc = "gone", ![w].signals = {}]
             /\ UNCHANGED server
    BY <1>4
  <2>. DEFINE g == [window[w] EXCEPT !.pc = "gone", !.signals = {}]
  <2>2. PICK n \in 0 .. Len(out[w]) : Gone(w, n)
    BY <1>2, <2>1 DEF Watchers
  <2>3. window' = [window EXCEPT ![w] = g] /\ UNCHANGED server
    BY <1>1, <2>1
  <2>4. /\ out' \in [Clients -> Seq(Requests)] /\ events' \in [Watchers -> Seq(Props)]
        /\ UNCHANGED prop
        /\ \A x \in Watchers : x # w => events'[x] = events[x] /\ out'[x] = out[x]
    BY <1>1, <2>2, GoneLeaves DEF Watchers
  <2>5. WindowOK(window[w], events[w], out[w], prop) /\ w \notin Servers
    BY NamesAssumption DEF SessionInv, AllInStep
  <2>6. \A q, o : WindowOK(g, q, o, prop)
    BY <2>5, WindowFields DEF WindowOK
  <2>. HIDE DEF g
  <2>7. TypesOK'
    BY <1>1, <2>3, <2>4 DEF TypesOK, Watchers
  <2>8. DOMAIN window' = Windows /\ window'[w] = g /\ \A x \in Windows : x # w => Like(window'[x], window[x])
    BY <1>1, <2>3, SignalsKeep
  <2>9. \A s \in Servers : ServerLike(server'[s], server[s])
    BY <2>3, SignalsKeep
  <2>. QED  BY <2>4, <2>5, <2>6, <2>7, <2>8, <2>9, OneActs
<1>. QED  BY <1>3, <1>4 DEF Crash

\* At the start nobody is set up.
LEMMA InitInStep == Init => SessionInv
<1>1. SUFFICES ASSUME Init  PROVE SessionInv
  OBVIOUS
<1>2. TypesOK
  <2>1. DOMAIN prop = Props /\ \A a \in Props : prop[a] \in ValuesOf(a) \cup {None}
    BY <1>1 DEF Init, Props
  <2>2. out \in [Clients -> Seq(Requests)] /\ events \in [Watchers -> Seq(Props)]
    BY <1>1, EmptySeq DEF Init, Watchers
  <2>3. FileOK(file)
    BY <1>1, FilesAssumption DEF Init, FileOK
  <2>. QED  BY <1>1, <2>1, <2>2, <2>3 DEF Init, TypesOK, Watchers
<1>3. ASSUME NEW w \in Windows  PROVE WindowOK(window[w], events[w], out[w], prop)
  <2>1. window[w] = NewWindow
    BY <1>1 DEF Init
  <2>2. /\ NewWindow.pc = "unused" /\ NewWindow.UkActiveMethod = "TELEX" /\ NewWindow.UkActiveMode = "UTF8"
    BY DEF NewWindow
  <2>. QED  BY <2>1, <2>2, NamesAre DEF WindowOK
<1>4. ASSUME NEW s \in Servers  PROVE ServerOK(server[s], events[s], out[s], prop)
  <2>1. server[s] = NewServer
    BY <1>1 DEF Init
  <2>2. NewServer.pc = "unused" /\ NewServer.GlobalOpt = DefaultOpt /\ NewServer.seen = None
    BY DEF NewServer
  <2>. QED  BY <2>1, <2>2, ServerFields DEF ServerOK
<1>. QED  BY <1>2, <1>3, <1>4 DEF SessionInv, AllInStep

\* Every step keeps it.
LEMMA NextInStep == SessionInv /\ [Next]_vars => SessionInv'
<1>1. SUFFICES ASSUME SessionInv, [Next]_vars  PROVE SessionInv'
  OBVIOUS
<1>2. CASE \E c \in Clients : ChangeProperty(c)
  BY <1>1, <1>2, XStep
<1>3. CASE \E w \in Windows :
             \/ StartWindow(w) \/ WakeOther(w) \/ TakeWindow(w) \/ InitWindow(w)
             \/ ShowProperty(w) \/ ximLaunchHandler(w) \/ ximTerminatedHandler(w)
             \/ Click(w) \/ reloadXimConfig(w) \/ CloseWindow(w)
  BY <1>1, <1>3, WindowStep
<1>4. CASE \E s \in Servers :
             \/ StartServer(s) \/ EndRefused(s) \/ TakeServer(s) \/ Configure(s)
             \/ Report(s) \/ signalSetup(s) \/ HeedProperty(s) \/ ReadMethod(s)
             \/ UseMethod(s) \/ PressKey(s) \/ Signal(s)
  BY <1>1, <1>4, ServerStep
<1>5. CASE AppChanges
  BY <1>1, <1>5, AppStep
<1>6. CASE Crash
  BY <1>1, <1>6, CrashStep
<1>7. CASE UNCHANGED vars
  BY <1>1, <1>7 DEF vars, shared, bounds, SessionInv, TypesOK, AllInStep
<1>. QED  BY <1>1, <1>2, <1>3, <1>4, <1>5, <1>6, <1>7, Zenon DEF Next

\* When nobody has anything left to do, all that are up agree with the properties,
\* and so with each other.
LEMMA QuietAgrees == SessionInv => Agreed
<1>1. SUFFICES ASSUME SessionInv, Quiet, NEW w \in Windows, NEW s \in Servers,
                      window[w].pc = "up", server[s].pc = "up"
               PROVE  LET opt == server[s].GlobalOpt IN
                      /\ opt.enabled = window[w].UnikeyOn
                      /\ window[w].UkActiveMode = opt.charset /\ server[s].imCharset = opt.charset
                      /\ window[w].UkGUIVisible = server[s].UkGUIVisible
                      /\ opt.enabled => /\ opt.method = window[w].UkActiveMethod
                                        /\ server[s].imMethod = opt.method \/ (opt.method = "USER" /\ ~opt.usrMap)
  BY DEF Agreed
<1>2. \A a : ~Has(<<>>, a) /\ ~Asks(<<>>, a)
  BY DEF Has, Asks
<1>3. events[w] = <<>> /\ events[s] = <<>> /\ out[s] = <<>> /\ server[s].seen = None
  BY <1>1 DEF Quiet, Clients
<1>4. Shown(window[w], <<>>, prop) /\ Heeds(server[s], <<>>, <<>>, prop)
  BY <1>1, <1>3 DEF SessionInv, AllInStep, WindowOK, ServerOK
<1>. DEFINE v == PropOf(prop, "Method", "TELEX")
<1>5. /\ window[w].UkActiveMode = PropOf(prop, "Charset", "UTF8")
      /\ window[w].UnikeyOn = (v # "OFF") /\ (v # "OFF" => window[w].UkActiveMethod = v)
      /\ window[w].UkGUIVisible = PropOf(prop, "Visible", FALSE)
  BY <1>2, <1>4 DEF Shown
<1>6. /\ server[s].GlobalOpt.charset = PropOf(prop, "Charset", "UTF8")
      /\ server[s].imCharset = PropOf(prop, "Charset", "UTF8")
      /\ server[s].UkGUIVisible = PropOf(prop, "Visible", FALSE)
      /\ server[s].GlobalOpt.enabled = (v # "OFF")
      /\ v # "OFF" => /\ server[s].GlobalOpt.method = v
                      /\ server[s].imMethod = v \/ (v = "USER" /\ ~server[s].GlobalOpt.usrMap)
  BY <1>2, <1>3, <1>4 DEF Heeds
<1>. HIDE DEF v
<1>. QED  BY <1>5, <1>6

-----------------------------------------------------------------------------
\* When every request is done, every event handled and no signal waits, a window and a
\* server that are up agree on whether unikey is on, on the method, the charset and
\* whether the window is shown: for any number of starts, kills and users' changes, and
\* however the requests of clients interleave (gui/uksync.c, xim/uksync.c).
THEOREM AlwaysAgreed == Spec => []Agreed
<1>. QED  BY InitInStep, NextInStep, QuietAgrees, PTL DEF Spec
=============================================================================
