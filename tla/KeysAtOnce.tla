----------------------------- MODULE KeysAtOnce -----------------------------
(***************************************************************************)
(* What a front end promises to a typist: each key is taken once, and what *)
(* it does to the text, deleting some letters and inserting others, is one *)
(* step.                                                                   *)
(***************************************************************************)
EXTENDS ClientText

CONSTANTS Keys,         \* what can be typed, each key once
          MaxBacks,     \* bound: letters one key may delete
          MaxLetters    \* bound: letters one key may insert

VARIABLES inOrder,      \* are the keys taken in the order they were typed?
          waiting,      \* keys typed and not yet taken
          text          \* a letter is the number of the key that wrote it

vars == <<inOrder, waiting, text>>

Init == inOrder \in BOOLEAN /\ waiting = <<>> /\ text = <<>>

Type(n) ==
  /\ waiting' = Append(waiting, n)
  /\ UNCHANGED <<inOrder, text>>

Take(i) ==
  /\ inOrder => i = 1
  /\ waiting' = RemoveAt(waiting, i)
  /\ \E b \in 0 .. MaxBacks, c \in 0 .. MaxLetters :
       text' = Rewritten(text, b, Letters(waiting[i], c))
  /\ UNCHANGED inOrder

Next == (\E n \in Keys : Type(n)) \/ (\E i \in DOMAIN waiting : Take(i))

Spec == Init /\ [][Next]_vars
=============================================================================
