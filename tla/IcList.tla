------------------------------- MODULE IcList -------------------------------
(***************************************************************************)
(* The input contexts of the XIM server (xim/IC.c): the list of those that *)
(* clients have, a list of those that were destroyed, whose memory is used *)
(* again, and what the clients have set on each; and the trigger keys,     *)
(* that act on one.  The values of attributes are abstract; "0" stands for *)
(* memory that nothing was written to.                                     *)
(***************************************************************************)
EXTENDS SequencesExt, Integers

CONSTANT IdCount        \* how many ids there are: 65536, they are a CARD16
ASSUME IdAssumption == IdCount \in Nat \ {0}

\* The attributes that are known, by the part of the context they belong to.
StatusAttributes ==
  {"area", "areaNeeded", "colorMap", "stdColorMap", "foreground", "background", "backgroundPixmap",
   "fontSet", "lineSpace", "cursor"}
AttributesOf ==
  [ic |-> {"inputStyle", "clientWindow", "focusWindow"},
   preedit |-> StatusAttributes \cup {"spotLocation"},
   status |-> StatusAttributes]
Parts == DOMAIN AttributesOf

\* Where an attribute is kept: both color maps have one place.
PlaceOf(name) == IF name = "stdColorMap" THEN "colorMap" ELSE name
Empty == [part \in Parts |-> [name \in {PlaceOf(n) : n \in AttributesOf[part]} |-> "0"]]

NoContexts == [list |-> <<>>, free |-> <<>>, last |-> 0]

\* Mutant of NewIC: memory that is used again is not cleared.
NewICUncleared(s) ==
  LET id == (s.last + 1) % IdCount IN
  [list |-> <<[id |-> id, has |-> IF s.free = <<>> THEN Empty ELSE Head(s.free).has]>> \o s.list,
   free |-> IF s.free = <<>> THEN <<>> ELSE Tail(s.free), last |-> id]

NewIC(s) ==
  LET id == (s.last + 1) % IdCount IN
  [list |-> <<[id |-> id, has |-> Empty]>> \o s.list,
   free |-> IF s.free = <<>> THEN <<>> ELSE Tail(s.free), last |-> id]

\* The place in the list of the first context with the id, 0 if there is none.
FindIC(s, icid) == SelectInSeq(s.list, LAMBDA rec : rec.id = icid)

\* A set of attributes, one after the other.  A font set is kept if the one that is
\* there is the name of the attribute, with which the code compares it.
Stored(fields, part, attrs) ==
  LET store(has, attr) ==
        IF \/ attr.name \notin AttributesOf[part]
           \/ attr.name = "fontSet" /\ has[attr.name] = attr.name
        THEN has ELSE [has EXCEPT ![PlaceOf(attr.name)] = attr.value]
  IN  FoldLeft(store, fields, attrs)
StoreIC(s, k, attrs) ==
  [s EXCEPT !.list[k].has = [part \in Parts |-> Stored(@[part], part, attrs[part])]]

CreateIC(s, attrs) == StoreIC(NewIC(s), 1, attrs)
SetIC(s, icid, attrs) == IF FindIC(s, icid) = 0 THEN s ELSE StoreIC(s, FindIC(s, icid), attrs)
DestroyIC(s, icid) ==
  LET k == FindIC(s, icid) IN
  IF k = 0 THEN s
  ELSE [s EXCEPT !.list = RemoveAt(s.list, k), !.free = <<s.list[k]>> \o s.free]

\* A client's request: MyCreateICHandler, MySetICValuesHandler, MyDestroyICHandler.
Handle(s, request) ==
  CASE request.call = "create" -> CreateIC(s, request.attrs)
    [] request.call = "set" -> SetIC(s, request.id, request.attrs)
    [] request.call = "destroy" -> DestroyIC(s, request.id)

\* What a client gets that asks for attributes: of each that is answered its value.
\* To ask for a font set that was never set would read a string that is not there.
Answered == {"area", "areaNeeded", "fontSet", "foreground", "background", "lineSpace"}
GetIC(s, icid) ==
  IF FindIC(s, icid) = 0 THEN [part \in Parts |-> <<>>]
  ELSE LET has == s.list[FindIC(s, icid)].has
           answer(part, name) == IF name = "lineSpace" THEN "18" ELSE has[part][name]
       IN  [ic |-> [name \in {"filterEvents"} |-> "KeyPressMask|KeyReleaseMask"],
            preedit |-> [name \in Answered \cup {"spotLocation"} |-> answer("preedit", name)],
            status |-> [name \in Answered |-> answer("status", name)]]
-----------------------------------------------------------------------------
(* A trigger key, which a client sends as its place in the list it was given. *)

\* Capital letters and small ones in turn, and then both Shift keys, with Ctrl and
\* with Alt.
Trigger_Keys ==
  [k \in 1 .. 56 |->
     IF k <= 52 THEN [key |-> (k + 1) \div 2, capital |-> k % 2 = 1, modifier |-> "none"]
     ELSE [key |-> IF k % 2 = 1 THEN "ShiftL" ELSE "ShiftR", capital |-> FALSE,
           modifier |-> IF k <= 54 THEN "Control" ELSE "Mod1"]]

\* MyTriggerNotifyHandler: the key event that stands for the trigger, and what is
\* done with it: ProcessKey, the shortcut, or its characters are committed.
TriggerEvent(has, keyIndex) ==
  LET trigger == Trigger_Keys[keyIndex + 1] IN
  [window |-> IF has.ic["focusWindow"] # "0" THEN has.ic["focusWindow"] ELSE has.ic["clientWindow"],
   key |-> trigger.key,
   state |-> IF keyIndex < 52 THEN (IF keyIndex % 2 = 0 THEN "Shift" ELSE "none") ELSE trigger.modifier]
MyTriggerNotifyHandler(s, icid, key_index, visible, enabled, isShortcut) ==
  IF FindIC(s, icid) = 0 THEN [done |-> "nothing"]
  ELSE [done |-> IF visible /\ enabled THEN "processed"
                 ELSE IF visible /\ isShortcut THEN "shortcut" ELSE "committed",
        event |-> TriggerEvent(s.list[FindIC(s, icid)].has, key_index \div 3)]
=============================================================================
