------------------------------ MODULE OptFile ------------------------------
(***************************************************************************)
(* The option file of the XIM server and the GTK module (xim/optparse.c,   *)
(* ukopt.c): reading its lines and writing the options back.               *)
(*                                                                         *)
(* A line is a sequence of tokens: "#", "=", " " and words without spaces. *)
(* Names are compared without case, so words are written in one case, and  *)
(* a number is the word it is written with.                                *)
(***************************************************************************)
EXTENDS Integers, Sequences, SequencesExt

CONSTANT IntsPerLong        \* how many int fields a long covers: 1, or 2 with 64 bits
ASSUME IntsPerLongAssumption == IntsPerLong \in {1, 2}

\* UnikeyOptions, in the order of its fields, and the space after them.
UnikeyOptions == <<"freeMarking", "modernStyle", "macroEnabled", "useUnicodeClipboard", "alwaysMacro",
                   "strictSpellCheck", "useIME", "spellCheckEnabled", "autoNonVnRestore", "padding">>
Longs == {"inputMethod", "charset", "enabled", "xvnkbSync", "bellNotify", "commitMethod",
          "ximFlow", "autoSave", "posX", "posY", "gtkImAlone"}
Strings == {"macroFile", "ximLocales", "usrKeyMapFile"}
NULL == <<>>           \* no string; a string that was read is not empty
NONE == "none"

Opt(name, field, type) == [name |-> name, field |-> field, type |-> type]
UkXimOptList ==
  << Opt("AutoSave", "autoSave", "Bool"), Opt("InitState", "enabled", "State"),
     Opt("Input", "inputMethod", "Input"), Opt("Charset", "charset", "Charset"),
     Opt("FreeStyle", "freeMarking", "Bool"), Opt("ModernStyle", "modernStyle", "Bool"),
     Opt("XvnkbSync", "xvnkbSync", "Bool"), Opt("Bell", "bellNotify", "Bool"),
     Opt("CommitMethod", "commitMethod", "Commit"), Opt("XimFlow", "ximFlow", "XimFlow"),
     Opt("MacroFile", "macroFile", "Str"), Opt("XimLocales", "ximLocales", "Str"),
     Opt("GtkImAlone", "gtkImAlone", "Bool"), Opt("PosX", "posX", "Long"), Opt("PosY", "posY", "Long"),
     Opt("UsrKeyMapFile", "usrKeyMapFile", "Str"), Opt("EnableSpellCheck", "spellCheckEnabled", "Bool"),
     Opt("AutoRestoreNonVn", "autoNonVnRestore", "Bool") >>

\* The words of each lookup and of a Boolean, each with its value, in order.
Lookups == [
  Input |-> << <<"TELEX", "Telex">>, <<"VNI", "Vni">>, <<"VIQR", "Viqr">>, <<"VIQR*", "Viqr">>, <<"USER", "UsrIM">> >>,
  Charset |-> << <<"UNICODE", "XUTF8">>, <<"UTF8", "XUTF8">>, <<"UTF-8", "XUTF8">>, <<"TCVN", "TCVN3">>,
                 <<"VNI", "VNIWIN">>, <<"VIQR", "VIQR">>, <<"BK2", "BKHCM2">> >>,
  State |-> << <<"ON", 1>>, <<"OFF", 0>> >>,
  Commit |-> << <<"Send", "SendCommit">>, <<"Forward", "ForwardCommit">> >>,
  XimFlow |-> << <<"Static", "XimStatic">>, <<"Dynamic", "XimDynamic">> >>,
  Bool |-> << <<"Yes", 1>>, <<"True", 1>>, <<"1", 1>>, <<"No", 0>>, <<"False", 0>>, <<"0", 0>> >>]
Words(type) == {entry[1] : entry \in ToSet(Lookups[type])}
ValueOf(type, word) == (CHOOSE entry \in ToSet(Lookups[type]) : entry[1] = word)[2]
WordOf(type, value) == SelectSeq(Lookups[type], LAMBDA entry : entry[2] = value)[1][1]

UkSetDefOptions ==
  [f \in ToSet(UnikeyOptions) \cup Longs \cup Strings |->
     CASE f \in {"freeMarking", "spellCheckEnabled", "enabled", "bellNotify", "autoSave"} -> 1
       [] f = "inputMethod" -> "Telex"        [] f = "charset" -> "XUTF8"
       [] f = "commitMethod" -> "SendCommit"  [] f = "ximFlow" -> "XimStatic"
       [] f \in {"posX", "posY"} -> "-1"      [] f \in Strings -> NULL
       [] OTHER -> 0]
-----------------------------------------------------------------------------
\* The field that a long at an int field also covers.
Covered(f) ==
  IF IntsPerLong = 1 \/ f \notin ToSet(UnikeyOptions) \/ f = "padding" THEN NONE
  ELSE UnikeyOptions[1 + CHOOSE k \in DOMAIN UnikeyOptions : UnikeyOptions[k] = f]
\* Mutant of SetLong: ModernStyle with the offset of FreeStyle.
SetLongOffset(opts, f, v) ==
  [g \in DOMAIN opts |-> IF g = (IF f = "modernStyle" THEN "freeMarking" ELSE f) THEN v ELSE opts[g]]
SetLong(opts, f, v) ==
  [g \in DOMAIN opts |-> IF g = f THEN v ELSE IF g = Covered(f) THEN 0 ELSE opts[g]]
LongIsZero(opts, f) == opts[f] = 0 /\ (Covered(f) # NONE => opts[Covered(f)] = 0)

Strip(ts) ==
  LET words == {k \in DOMAIN ts : ts[k] # " "} IN
  IF words = {} THEN <<>> ELSE SubSeq(ts, Min(words), Max(words))
Before(ts, t) == IF t \in ToSet(ts) THEN SubSeq(ts, 1, SelectInSeq(ts, LAMBDA x : x = t) - 1) ELSE ts
After(ts, t) == IF t \in ToSet(ts) THEN SubSeq(ts, SelectInSeq(ts, LAMBDA x : x = t) + 1, Len(ts)) ELSE <<>>

\* parseLine: the name and the value; a name without "=" has what follows the
\* "#" of a comment for its value.
parseLine(line) ==
  LET text == Before(line, "#") IN
  IF Strip(text) = <<>> THEN [name |-> <<>>, value |-> <<>>]
  ELSE [name |-> Strip(Before(text, "=")),
        value |-> Strip(IF "=" \in ToSet(text) THEN After(text, "=") ELSE After(line, "#"))]

parseValue(opts, opt, value) ==
  CASE opt.type = "Str" -> [opts EXCEPT ![opt.field] = value]
    [] opt.type = "Long" -> SetLong(opts, opt.field, value[1])
    [] OTHER -> IF Len(value) = 1 /\ value[1] \in Words(opt.type)
                THEN SetLong(opts, opt.field, ValueOf(opt.type, value[1])) ELSE opts

ParseLineInto(opts, line) ==
  LET named(name) == SelectSeq(UkXimOptList, LAMBDA opt : <<opt.name>> = name)
      enter(found, value) == IF value = <<>> \/ found = <<>> THEN opts ELSE parseValue(opts, found[1], value)
  IN  enter(named(parseLine(line).name), parseLine(line).value)

\* "~" stands for the home directory, in the two options that are file names.
ParseExpandFileName(path) ==
  IF path # NULL /\ path[1] = "~" THEN <<"/home">> \o Tail(path) ELSE path
UkParseOptFile(opts, lines) ==
  LET expanded(parsed) ==
        [parsed EXCEPT !.macroFile = ParseExpandFileName(@), !.usrKeyMapFile = ParseExpandFileName(@)]
  IN  expanded(FoldLeft(ParseLineInto, opts, lines))

writeValue(opts, opt) ==
  LET line(value) == <<opt.name, " ", "=", " ">> \o value IN
  CASE opt.type = "Bool" -> line(<<IF LongIsZero(opts, opt.field) THEN "No" ELSE "Yes">>)
    [] opt.type = "Str" -> IF opts[opt.field] = NULL THEN <<"#">> \o line(<<>>) ELSE line(opts[opt.field])
    [] opt.type = "Long" -> line(<<opts[opt.field]>>)
    [] OTHER -> line(<<WordOf(opt.type, opts[opt.field])>>)
ParseWriteOptFile(opts) == [k \in DOMAIN UkXimOptList |-> writeValue(opts, UkXimOptList[k])]
=============================================================================
