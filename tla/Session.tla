------------------------------ MODULE Session -------------------------------
(***************************************************************************)
(* The processes of a session and what they share.  The control window     *)
(* (gui/gui.c) starts the XIM server (xim/xim.c), is told by signals that  *)
(* it is ready or will not start, and starts it again when it dies.  Both  *)
(* keep the state of unikey, and agree on it through properties of the     *)
(* root window, which any client may change and which X tells of without   *)
(* the new value (gui/uksync.c, xim/uksync.c).  The server also keeps it   *)
(* in the option file.                                                     *)
(***************************************************************************)
EXTENDS FiniteSetsExt, SequencesExt, Integers

CONSTANTS Windows,      \* the starts of the program unikey
          App,          \* a program with the module for GTK
          None,
          MaxServers,   \* bound: starts of ukxim
          Files,        \* option files, each a function from names to values
          Limits        \* bounds: starts of unikey, what users do, processes
                        \* killed, and whether X splits the requests of a client

Servers == 1 .. MaxServers
Clients == Windows \cup Servers \cup {App}

Methods == <<"TELEX", "VNI", "USER">>       \* UkMethodList; VIQR is like VNI
Charsets == <<"UTF8", "TCVN">>              \* UkModeList, the first of its five

Options == [enabled : BOOLEAN, method : ToSet(Methods), charset : ToSet(Charsets),
            autoSave : BOOLEAN, usrMap : BOOLEAN]

ASSUME BoundsAssumption ==
  MaxServers \in Nat /\ Limits \subseteq [starts : Nat, acts : Nat, crashes : Nat, split : BOOLEAN]

ASSUME NamesAssumption ==
  /\ Windows \cap Servers = {} /\ App \notin Windows \cup Servers
  /\ None \notin ToSet(Methods) \cup {"OFF"}

\* UkParseOptFile knows no other names and values.
ASSUME FilesAssumption ==
  \A f \in Files : \E opt \in Options : \A k \in DOMAIN f : k \in DOMAIN opt /\ f[k] = opt[k]

VARIABLES
  prop,         \* the properties AIMMethod, AIMUsing, AIMCharset, AGUIVisible
  out,          \* what each client has asked of X and X has not done: <<property, value>>
  events,       \* the properties that each process is told have changed
  window,       \* the processes of the window
  server,       \* the processes of the server
  owner,        \* who holds the selection of each program
  file,         \* the option file
  limits,       \* which of the bounds this session has
  acts, crashes \* history: how many there were

shared == <<prop, out, events>>
bounds == <<limits, acts, crashes>>
vars == <<shared, window, server, owner, file, bounds>>

\* UkSetDefOptions.
DefaultOpt == [enabled |-> TRUE, method |-> "TELEX", charset |-> "UTF8",
               autoSave |-> TRUE, usrMap |-> FALSE]

NewWindow ==
  [pc |-> "unused", UnikeyOn |-> FALSE, UkActiveMethod |-> "TELEX",
   UkActiveMode |-> "UTF8", UkGUIVisible |-> TRUE, XimLaunchOk |-> FALSE,
   ChildPid |-> None, signals |-> {}, launches |-> 0, reports |-> 0]

\* imMethod and imCharset are what the engine works with; seen is a value of
\* AIMMethod that was read and not used yet.
NewServer ==
  [pc |-> "unused", parent |-> None, GlobalOpt |-> DefaultOpt, imMethod |-> "TELEX",
   imCharset |-> "UTF8", UkGUIVisible |-> FALSE, signals |-> {}, seen |-> None]

Init ==
  /\ prop = [a \in {"Method", "Using", "Charset", "Visible"} |-> None]
  /\ out = [c \in Clients |-> <<>>]
  /\ events = [c \in Windows \cup Servers |-> <<>>]
  /\ window = [w \in Windows |-> NewWindow]
  /\ server = [s \in Servers |-> NewServer]
  /\ owner = [p \in {"unikey", "ukxim"} |-> None]
  /\ file \in Files
  /\ limits \in Limits /\ acts = 0 /\ crashes = 0
-----------------------------------------------------------------------------
(* Properties of the root window. *)

UkGetPropValue(a, default) == IF prop[a] = None THEN default ELSE prop[a]

\* A client that reads waits for all it asked before.
MayRead(c) == out[c] = <<>>

Ask(c, writes) == out' = [out EXCEPT ![c] = @ \o writes]

\* fixUnikeyToSyncMethod, of the window and of the server.
fixUnikeyToSyncMethod(m) == << <<"Using", m>>, <<"Method", m>> >>

\* SyncToUnikeyMethod and SyncToUnikeyCharset of the names used here.
SyncToUnikeyMethod(v) == IF v = "OFF" THEN "TELEX" ELSE v

Watching(c) ==
  \/ c \in Windows /\ window[c].pc \in {"free", "first", "up"}
  \/ c \in Servers /\ server[c].pc \in {"first", "ready", "reported", "up"}

\* The value of property a after the requests done.
Written(done, a) ==
  LET writes == {i \in 1 .. Len(done) : done[i][1] = a}
  IN  IF writes = {} THEN prop[a] ELSE done[Max(writes)][2]

\* The properties changed by the first n requests of done.  Nobody heeds AIMUsing.
Changed(done) ==
  LET changed[n \in 0 .. Len(done)] ==
        IF n = 0 THEN <<>>
        ELSE IF done[n][1] = "Using" THEN changed[n - 1]
        ELSE Append(changed[n - 1], done[n][1])
  IN  changed

\* X carries out requests of one client, all it has or one and then perhaps
\* another's, and tells who watches.
Turn(c) == IF limits.split THEN {1} ELSE {Len(out[c])}
ChangeProperty(c) ==
  /\ out[c] # <<>>
  /\ \E n \in Turn(c) :
       LET done == SubSeq(out[c], 1, n) IN
       /\ prop' = [a \in DOMAIN prop |-> Written(done, a)]
       /\ events' = [l \in DOMAIN events |->
                       IF Watching(l) THEN events[l] \o Changed(done)[n] ELSE events[l]]
       /\ out' = [out EXCEPT ![c] = SubSeq(@, n + 1, Len(@))]
  /\ UNCHANGED <<window, server, owner, file, bounds>>

Taken(c) == events' = [events EXCEPT ![c] = Tail(@)]
Heads(c, a) == events[c] # <<>> /\ Head(events[c]) = a

\* What is left to X of a process that goes: n requests, and no selection.
Left(c) == {0, Len(out[c])} \cup (IF limits.split THEN 0 .. Len(out[c]) ELSE {})
Gone(c, n) ==
  /\ out' = [out EXCEPT ![c] = SubSeq(@, 1, n)]
  /\ events' = [events EXCEPT ![c] = <<>>]
  /\ owner' = [p \in DOMAIN owner |-> IF owner[p] = c THEN None ELSE owner[p]]
  /\ UNCHANGED prop
-----------------------------------------------------------------------------
(* Processes and signals. *)

\* childProcess.  The window w has the state r otherwise.
Forked(w, r) ==
  LET s == Min({t \in Servers : server[t].pc = "unused"}) IN
    /\ window' = [window EXCEPT ![w] = [r EXCEPT !.ChildPid = s, !.launches = @ + 1]]
    /\ server' = [server EXCEPT ![s].pc = "forked", ![s].parent = w]
MayFork == \E t \in Servers : server[t].pc = "unused"

\* kill: of the parent of s, if it still runs; of the process s.
Signalled(s, sig) ==
  [w \in Windows |-> IF w = server[s].parent /\ window[w].pc = "up"
                     THEN [window[w] EXCEPT !.signals = @ \cup {sig}] ELSE window[w]]
Living(s) == server[s].pc \notin {"unused", "dead"}
Kill(s, sig) ==
  server' = [t \in Servers |-> IF t = s /\ Living(t)
                               THEN [server[t] EXCEPT !.signals = @ \cup {sig}] ELSE server[t]]

\* The server s ends, and X has done or will do n of its requests.
Ends(s, n) ==
  /\ server' = [server EXCEPT ![s].pc = "dead", ![s].signals = {}, ![s].seen = None]
  /\ window' = Signalled(s, "CHLD")
  /\ Gone(s, n)
-----------------------------------------------------------------------------
(* The control window. *)

\* main up to singleLaunch, which first asks for the owner and then takes it.
StartWindow(w) ==
  /\ window[w].pc = "unused"
  /\ Cardinality({x \in Windows : window[x].pc # "unused"}) < limits.starts
  /\ window' = [window EXCEPT ![w].pc = IF owner["unikey"] = None THEN "free" ELSE "second"]
  /\ UNCHANGED <<shared, server, owner, file, bounds>>

\* There is another: it is to show itself, and this one ends.
WakeOther(w) ==
  /\ window[w].pc = "second"
  /\ window' = [window EXCEPT ![w].pc = "gone"]
  /\ IF UkGetPropValue("Visible", FALSE) THEN UNCHANGED out ELSE Ask(w, << <<"Visible", TRUE>> >>)
  /\ UNCHANGED <<prop, events, server, owner, file, bounds>>

TakeWindow(w) ==
  /\ window[w].pc = "free"
  /\ owner' = [owner EXCEPT !["unikey"] = w]
  /\ Ask(w, << <<"Visible", TRUE>> >>)
  /\ window' = [window EXCEPT ![w].pc = "first", ![w].UkGUIVisible = TRUE]
  /\ UNCHANGED <<prop, events, server, file, bounds>>

\* getInitSettings and the window's fixSyncToUnikeyMethod read alike.
fixSyncToUnikeyMethod(r) ==
  LET v == UkGetPropValue("Method", "TELEX")
      used == IF v # "OFF" THEN v ELSE UkGetPropValue("Using", "TELEX")
  IN [r EXCEPT !.UnikeyOn = (v # "OFF"), !.UkActiveMethod = SyncToUnikeyMethod(used)]
ShowCharset(r) == [r EXCEPT !.UkActiveMode = UkGetPropValue("Charset", "UTF8")]

\* The rest of main: the window is set up and the server started.
InitWindow(w) ==
  /\ window[w].pc = "first" /\ MayRead(w) /\ MayFork
  /\ Forked(w, [ShowCharset(fixSyncToUnikeyMethod(window[w])) EXCEPT !.pc = "up"])
  /\ UNCHANGED <<shared, owner, file, bounds>>

\* handlePropertyChanged of the window.
ShowProperty(w) ==
  /\ window[w].pc = "up" /\ MayRead(w)
  /\ \/ Heads(w, "Charset") /\ window' = [window EXCEPT ![w] = ShowCharset(@)]
     \/ Heads(w, "Method") /\ window' = [window EXCEPT ![w] = fixSyncToUnikeyMethod(@)]
     \/ Heads(w, "Visible") /\ window' = [window EXCEPT ![w].UkGUIVisible = UkGetPropValue("Visible", FALSE)]
  /\ Taken(w)
  /\ UNCHANGED <<prop, out, server, owner, file, bounds>>

Without(w, sig) == [window[w] EXCEPT !.signals = @ \ {sig}]

\* ximLaunchHandler.  Signals that wait together come in any order.
ximLaunchHandler(w) ==
  /\ \E sig \in window[w].signals \cap {"USR1", "USR2"} :
       window' = [window EXCEPT ![w] = [Without(w, sig) EXCEPT !.XimLaunchOk = (sig = "USR1")]]
  /\ UNCHANGED <<shared, server, owner, file, bounds>>

\* Mutant of ximTerminatedHandler: the report of one server counts for the next.
ximTerminatedTrusting(w) ==
  /\ "CHLD" \in window[w].signals
  /\ IF window[w].XimLaunchOk THEN MayFork /\ Forked(w, Without(w, "CHLD"))
     ELSE window' = [window EXCEPT ![w] = Without(w, "CHLD")] /\ UNCHANGED server
  /\ UNCHANGED <<shared, owner, file, bounds>>

\* The signal mask it sets is undone when the handler returns.
ximTerminatedHandler(w) ==
  /\ "CHLD" \in window[w].signals
  /\ IF window[w].XimLaunchOk
     THEN MayFork /\ Forked(w, [Without(w, "CHLD") EXCEPT !.XimLaunchOk = FALSE])
     ELSE window' = [window EXCEPT ![w] = Without(w, "CHLD")] /\ UNCHANGED server
  /\ UNCHANGED <<shared, owner, file, bounds>>
-----------------------------------------------------------------------------
(* What users do. *)

Act == acts < limits.acts /\ acts' = acts + 1 /\ UNCHANGED <<limits, crashes>>

NextIn(list, x) == LET i == CHOOSE j \in DOMAIN list : list[j] = x IN list[(i % Len(list)) + 1]
OFF == << <<"Method", "OFF">> >>

\* The clicks that write properties: switchUnikey, rotateUkMethod,
\* rotateUkMode, and the one that hides the window.
Click(w) ==
  /\ window[w].pc = "up" /\ window[w].UkGUIVisible /\ Act
  /\ LET r == window[w] IN
     \/ Ask(w, IF r.UnikeyOn THEN OFF ELSE fixUnikeyToSyncMethod(r.UkActiveMethod))
     \/ Ask(w, fixUnikeyToSyncMethod(NextIn(Methods, r.UkActiveMethod)))
     \/ Ask(w, << <<"Charset", NextIn(Charsets, r.UkActiveMode)>> >>
                 \o fixUnikeyToSyncMethod(r.UkActiveMethod))
     \/ Ask(w, << <<"Visible", FALSE>> >>)
  /\ UNCHANGED <<prop, events, window, server, owner, file>>

reloadXimConfig(w) ==
  /\ window[w].pc = "up" /\ window[w].UkGUIVisible /\ Act
  /\ Kill(window[w].ChildPid, "USR1")
  /\ UNCHANGED <<shared, window, owner, file>>

\* terminatedHandler of the window: cleanup ends its server.
CloseWindow(w) ==
  /\ window[w].pc = "up" /\ Act
  /\ window' = [window EXCEPT ![w].pc = "gone", ![w].signals = {}]
  /\ Kill(window[w].ChildPid, "TERM")
  /\ Gone(w, Len(out[w]))
  /\ UNCHANGED file

\* Shortcuts and the switch key in a GTK program: AIMMethod before AIMUsing.
AppChanges ==
  /\ Act
  /\ \/ \E m \in ToSet(Methods) : Ask(App, << <<"Method", m>>, <<"Using", m>> >>)
     \/ Ask(App, OFF)
     \/ \E c \in ToSet(Charsets) : Ask(App, << <<"Charset", c>> >>)
  /\ UNCHANGED <<prop, events, window, server, owner, file>>
-----------------------------------------------------------------------------
(* The XIM server. *)

\* main up to singleLaunch.  One that is not alone says so and ends.
StartServer(s) ==
  /\ server[s].pc = "forked"
  /\ IF owner["ukxim"] = None
     THEN server' = [server EXCEPT ![s].pc = "free"] /\ UNCHANGED window
     ELSE server' = [server EXCEPT ![s].pc = "refused"] /\ window' = Signalled(s, "USR2")
  /\ UNCHANGED <<shared, owner, file, bounds>>

EndRefused(s) ==
  /\ server[s].pc = "refused" /\ Ends(s, 0)
  /\ UNCHANGED <<file, bounds>>

TakeServer(s) ==
  /\ server[s].pc = "free"
  /\ owner' = [owner EXCEPT !["ukxim"] = s]
  /\ server' = [server EXCEPT ![s].pc = "first"]
  /\ UNCHANGED <<shared, window, file, bounds>>

\* UkParseOptFile: what the file does not name stays.
Parsed(opt) == [k \in DOMAIN opt |-> IF k \in DOMAIN file THEN file[k] ELSE opt[k]]

\* What reloadConfig asks of X.
SyncProperties(opt) ==
  << <<"Charset", opt.charset>> >> \o fixUnikeyToSyncMethod(opt.method)
    \o (IF opt.enabled THEN <<>> ELSE OFF)

\* reloadConfig of the server s, which has the state r otherwise.
reloadConfig(s, r) ==
  LET opt == Parsed(r.GlobalOpt) IN
    /\ server' = [server EXCEPT ![s] = [r EXCEPT !.GlobalOpt = opt]]
    /\ Ask(s, SyncProperties(opt))

\* initUnikey, which forgets what getSyncAtoms has read, reloadConfig, initXIM.
Configure(s) ==
  /\ server[s].pc = "first"
  /\ reloadConfig(s, [server[s] EXCEPT !.pc = "ready", !.GlobalOpt = DefaultOpt,
                                       !.UkGUIVisible = UkGetPropValue("Visible", FALSE)])
  /\ UNCHANGED <<prop, events, window, owner, file, bounds>>

\* It tells its parent, and only then heeds signals.
Report(s) ==
  /\ server[s].pc = "ready"
  /\ server' = [server EXCEPT ![s].pc = "reported"]
  /\ window' = [w \in Windows |->
       IF w = server[s].parent THEN [Signalled(s, "USR1")[w] EXCEPT !.reports = @ + 1]
       ELSE window[w]]
  /\ UNCHANGED <<shared, owner, file, bounds>>

signalSetup(s) ==
  /\ server[s].pc = "reported"
  /\ server' = [server EXCEPT ![s].pc = "up"]
  /\ UNCHANGED <<shared, window, owner, file, bounds>>

\* saveOptFile.
Saved(opt) == [k \in DOMAIN opt \ (IF opt.usrMap THEN {} ELSE {"usrMap"}) |-> opt[k]]

\* UnikeySetInputMethod: which method the engine has afterwards.
UnikeySetInputMethod(r, m) == IF m = "USER" /\ ~r.GlobalOpt.usrMap THEN r.imMethod ELSE m

\* handlePropertyChanged of the server, but for AIMMethod.
HeedProperty(s) ==
  /\ server[s].pc = "up" /\ server[s].seen = None /\ MayRead(s)
  /\ \/ /\ Heads(s, "Charset")
        /\ LET c == UkGetPropValue("Charset", "UTF8") IN
             server' = [server EXCEPT ![s].GlobalOpt.charset = c, ![s].imCharset = c]
        /\ UNCHANGED <<out, file>>
     \/ /\ Heads(s, "Visible") /\ UkGetPropValue("Visible", FALSE)
        /\ reloadConfig(s, [server[s] EXCEPT !.UkGUIVisible = TRUE])
        /\ UNCHANGED file
     \/ /\ Heads(s, "Visible") /\ ~UkGetPropValue("Visible", FALSE)
        /\ server' = [server EXCEPT ![s].UkGUIVisible = FALSE]
        /\ file' = IF server[s].GlobalOpt.autoSave THEN Saved(server[s].GlobalOpt) ELSE file
        /\ UNCHANGED out
  /\ Taken(s)
  /\ UNCHANGED <<prop, window, owner, bounds>>

\* fixSyncToUnikeyMethod of the server; a signal may come after it has read.
ReadMethod(s) ==
  /\ server[s].pc = "up" /\ server[s].seen = None /\ MayRead(s) /\ Heads(s, "Method")
  /\ server' = [server EXCEPT ![s].seen = UkGetPropValue("Method", "TELEX")]
  /\ Taken(s)
  /\ UNCHANGED <<prop, out, window, owner, file, bounds>>

\* Mutant of UseMethod: the engine is not told.
UseMethodUntold(s) ==
  /\ server[s].seen # None
  /\ LET v == server[s].seen
         m == IF v = "OFF" THEN server[s].GlobalOpt.method ELSE v
     IN server' = [server EXCEPT ![s].seen = None, ![s].GlobalOpt.enabled = (v # "OFF"),
                                 ![s].GlobalOpt.method = m]
  /\ UNCHANGED <<shared, window, owner, file, bounds>>

UseMethod(s) ==
  /\ server[s].seen # None
  /\ LET v == server[s].seen
         m == IF v = "OFF" THEN server[s].GlobalOpt.method ELSE v
     IN server' = [server EXCEPT ![s].seen = None, ![s].GlobalOpt.enabled = (v # "OFF"),
          ![s].GlobalOpt.method = m,
          ![s].imMethod = IF v = "OFF" THEN @ ELSE UnikeySetInputMethod(server[s], m)]
  /\ UNCHANGED <<shared, window, owner, file, bounds>>

\* Keys of the server, which heeds none while the window is hidden: isSwitchKey
\* and the shortcuts for a charset, a method and the option file.
PressKey(s) ==
  /\ server[s].pc = "up" /\ server[s].seen = None /\ server[s].UkGUIVisible /\ Act
  /\ LET opt == server[s].GlobalOpt IN
     \/ /\ Ask(s, IF opt.enabled THEN OFF ELSE fixUnikeyToSyncMethod(opt.method))
        /\ UNCHANGED server
     \/ \E c \in ToSet(Charsets) : Ask(s, << <<"Charset", c>> >>) /\ UNCHANGED server
     \/ \E m \in ToSet(Methods) : Ask(s, fixUnikeyToSyncMethod(m)) /\ UNCHANGED server
     \/ reloadConfig(s, server[s])
  /\ UNCHANGED <<prop, events, window, owner, file>>

\* A signal: reloadConfig and terminatedHandler, or the end of a server that
\* has not set them up.
Signal(s) ==
  \E sig \in server[s].signals :
    /\ IF server[s].pc # "up"
       THEN Ends(s, 0) /\ UNCHANGED file
       ELSE IF sig = "USR1"
       THEN /\ reloadConfig(s, [server[s] EXCEPT !.signals = @ \ {sig}])
            /\ UNCHANGED <<prop, events, window, owner, file>>
       ELSE /\ file' = IF server[s].GlobalOpt.autoSave THEN Saved(server[s].GlobalOpt) ELSE file
            /\ Ends(s, Len(out[s]))
    /\ UNCHANGED bounds

\* A process is killed, and with it what Xlib had not sent.
Crash ==
  /\ crashes < limits.crashes /\ crashes' = crashes + 1
  /\ \/ \E s \in Servers : \E n \in Left(s) : Living(s) /\ Ends(s, n)
     \/ \E w \in Windows : \E n \in Left(w) :
          /\ window[w].pc = "up" /\ Gone(w, n)
          /\ window' = [window EXCEPT ![w].pc = "gone", ![w].signals = {}]
          /\ UNCHANGED server
  /\ UNCHANGED <<file, limits, acts>>

Next ==
  \/ \E c \in Clients : ChangeProperty(c)
  \/ \E w \in Windows :
       \/ StartWindow(w) \/ WakeOther(w) \/ TakeWindow(w) \/ InitWindow(w)
       \/ ShowProperty(w) \/ ximLaunchHandler(w) \/ ximTerminatedHandler(w)
       \/ Click(w) \/ reloadXimConfig(w) \/ CloseWindow(w)
  \/ \E s \in Servers :
       \/ StartServer(s) \/ EndRefused(s) \/ TakeServer(s) \/ Configure(s)
       \/ Report(s) \/ signalSetup(s) \/ HeedProperty(s) \/ ReadMethod(s)
       \/ UseMethod(s) \/ PressKey(s) \/ Signal(s)
  \/ AppChanges
  \/ Crash

Spec == Init /\ [][Next]_vars
-----------------------------------------------------------------------------
(* What holds. *)

\* Nobody has anything left to do about what was asked.
Quiet ==
  /\ \A c \in Clients : out[c] = <<>>
  /\ \A w \in Windows : window[w].pc \in {"unused", "up", "gone"} /\ events[w] = <<>>
                        /\ window[w].signals = {}
  /\ \A s \in Servers : server[s].pc \in {"unused", "up", "dead"} /\ events[s] = <<>>
                        /\ server[s].signals = {} /\ server[s].seen = None

\* The window shows what the server does and the engine is set to: on or off,
\* the charset and, when on, the method, whoever changed them, in what order
\* and whichever process was started again meanwhile.  The exception is the
\* method of the user's own before a key map is loaded (ukinterface/unikey.cpp:54).
Agreed ==
  Quiet =>
    \A w \in Windows, s \in Servers :
      window[w].pc = "up" /\ server[s].pc = "up" =>
        LET opt == server[s].GlobalOpt IN
        /\ opt.enabled = window[w].UnikeyOn
        /\ window[w].UkActiveMode = opt.charset /\ server[s].imCharset = opt.charset
        /\ window[w].UkGUIVisible = server[s].UkGUIVisible
        /\ opt.enabled => /\ opt.method = window[w].UkActiveMethod
                          /\ server[s].imMethod = opt.method \/ (opt.method = "USER" /\ ~opt.usrMap)

\* A window starts its server again only after the one before had reported that
\* it runs: one that cannot start is not started for ever (gui/gui.c:816-829).
LaunchesEarned ==
  \A w \in Windows : window[w].launches <= window[w].reports + 1
=============================================================================
