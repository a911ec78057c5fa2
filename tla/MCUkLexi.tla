------------------------------ MODULE MCUkLexi ------------------------------
(***************************************************************************)
(* The tables of UkLexi against what they are for.  The handlers follow    *)
(* withRoof, withHook and the sub-sequences without checking the syllable  *)
(* they arrive at; the three variables range over all syllables.           *)
(***************************************************************************)
EXTENDS UkLexi, TLC

VARIABLES onset, vowel, coda
vars == <<onset, vowel, coda>>

\* A syllable the engine holds, and those one table step away from it: a
\* letter of its vowel sequence marked or unmarked, or its last letter gone.

Roofed == VSeqList[vowel].withRoof
Hooked == VSeqList[vowel].withHook

Init == /\ onset \in CS \cup {Nil} /\ vowel \in VS /\ coda \in EndConsonants \cup {Nil}
        /\ isValidCVC(onset, vowel, coda)
Roof == Roofed # Nil /\ isValidCVC(onset, Roofed, coda) /\ vowel' = Roofed /\ UNCHANGED <<onset, coda>>
Hook == Hooked # Nil /\ isValidCVC(onset, Hooked, coda) /\ vowel' = Hooked /\ UNCHANGED <<onset, coda>>
Done == UNCHANGED vars
Next == Roof \/ Hook \/ Done
Spec == Init /\ [][Next]_vars

-----------------------------------------------------------------------------
Letter(i) == VSeqList[vowel].v[i]
Marked == {i \in DOMAIN VSeqList[vowel].v : Letter(i) # Root(Letter(i))}
UO == VSeqList[vowel].len > 1 /\ Root(Letter(1)) = "u" /\ Root(Letter(2)) = "o"

\* The letters that the marks RoofOf or HookOf (which replace one another)
\* can be put on, and what the sequence then is.
RoofOf == "a" :> "ar" @@ "e" :> "er" @@ "o" :> "or"
HookOf == "a" :> "ab" @@ "o" :> "oh" @@ "u" :> "uh"
With(i, sym) == lookupVSeq([VSeqList[vowel].v EXCEPT ![i] = sym])
Markable(mark) ==
  {i \in DOMAIN VSeqList[vowel].v :
     /\ Root(Letter(i)) \in DOMAIN mark /\ Letter(i) # mark[Root(Letter(i))]
     /\ With(i, mark[Root(Letter(i))]) # Nil}

\* withRoof is the one sequence that a roof makes of vowel, with roofPos the
\* letter that changes; it is nil, and processRoof looks for a roof to take
\* away, only when no letter takes one.
RoofTableExact ==
  IF Roofed = Nil THEN Markable(RoofOf) = {}
  ELSE LET pos == VSeqList[Roofed].roofPos + 1
       IN  Markable(RoofOf) = {pos} /\ Roofed = With(pos, RoofOf[Root(Letter(pos))])

\* withHook is likewise the sequence that a hook or bowl makes of vowel by its
\* first letter that takes one; but for uo, hookPos is the letter that changes.
HookTableExact ==
  IF Hooked = Nil THEN Markable(HookOf) = {}
  ELSE \E pos \in Markable(HookOf) :
         /\ \A i \in Markable(HookOf) : pos <= i
         /\ Hooked = With(pos, HookOf[Root(Letter(pos))])
         /\ UO \/ pos = VSeqList[Hooked].hookPos + 1

\* The two columns by which the handlers put marks on letters: the sequence that
\* follows is the one with that mark, and it is nil when there is none.
MarkTablesExact == RoofTableExact /\ HookTableExact

\* Taking away the mark at roofPos or hookPos, which the undo branches do
\* unchecked, leaves a syllable.  Not so of qu and u+, which only a key that
\* stands for u+ can bring together.
UnmarkedStaysValid ==
  \A pos \in {VSeqList[vowel].roofPos, VSeqList[vowel].hookPos} \ {-1} :
     LET plain == With(pos + 1, Root(Letter(pos + 1)))
     IN  \/ UO
         \/ onset = "qu" /\ Letter(1) = "uh"
         \/ plain # Nil /\ isValidCVC(onset, plain, coda)

\* Hooking uo and uo^ twice, as processHookWithUO does unchecked, and taking
\* both hooks away again leave a syllable.
HookedUOStaysValid ==
  (vowel \in {"uo", "uor", "uoi", "uori"}) =>
     LET once == VSeqList[Hooked] IN
     /\ once.withHook # Nil /\ isValidCVC(onset, once.withHook, coda)
     /\ isValidCVC(onset, lookupVSeq(<<"u", "o">> \o SubSeq(once.v, 3, once.len)), coda)

\* What a backspace leaves of a syllable is a syllable: the entries before
\* the deleted one keep the sequences they had.
PrefixStaysValid ==
  /\ coda # Nil => IF Len(CSeqList[coda]) = 1 THEN isValidCVC(onset, vowel, Nil)
                 ELSE isValidCVC(onset, vowel, lookupCSeq(SubSeq(CSeqList[coda], 1, Len(CSeqList[coda]) - 1)))
  /\ (coda = Nil /\ VSeqList[vowel].len > 1) =>
        /\ Sub(vowel, VSeqList[vowel].len - 1) # Nil
        /\ isValidCVC(onset, Sub(vowel, VSeqList[vowel].len - 1), Nil)

\* Every step that a handler takes without asking isValidCVC leads from one
\* syllable of the language to another: taking a mark back, hooking uo, and a
\* backspace (processRoof, processHookWithUO, processHook, processBackspace).
StepsStayValid == UnmarkedStaysValid /\ HookedUOStaysValid /\ PrefixStaysValid

\* The tone goes to a marked letter if there is one: to the last.
ToneOnMarkedLetter ==
  Marked # {} => \A terminated, modern \in BOOLEAN :
     LET pos == getTonePosition(vowel, terminated, modern) + 1
     IN  pos \in Marked /\ \A i \in Marked : i <= pos
=============================================================================
