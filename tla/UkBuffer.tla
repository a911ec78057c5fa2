------------------------------ MODULE UkBuffer ------------------------------
(***************************************************************************)
(* How full the two arrays of the engine are (ukengine.cpp): m_buffer, the *)
(* letters of the text being typed, and m_keyStrokes, the keys they were   *)
(* typed with.  What the letters are is left out, so that word breaks may  *)
(* be anywhere.  UkEngine implements this specification.                   *)
(***************************************************************************)
EXTENDS Integers

CONSTANTS BufSize,      \* m_bufSize     (MAX_UK_ENGINE)
          KeyBufSize,   \* m_keyBufSize  (MAX_UK_ENGINE)
          Slack         \* the 10 entries prepareBuffer wants available

ASSUME SizesAssumption ==
  /\ BufSize \in Nat /\ KeyBufSize \in Nat /\ Slack \in Nat
  /\ 2 <= Slack /\ Slack < BufSize /\ 3 <= KeyBufSize

VARIABLES current,      \* m_current, the last entry of m_buffer in use
          keyCurrent    \* m_keyCurrent
vars == <<current, keyCurrent>>

Init == current = -1 /\ keyCurrent = -1

\* Mutants of PreparedChars: one entry late; nothing dropped when there is no
\* word break.
PreparedLate ==
  IF current >= 0 /\ current + Slack > BufSize
  THEN {-1} \cup {current - (rid + 1) : rid \in current \div 2 .. current - 1} ELSE {current}
PreparedByWords ==
  IF current >= 0 /\ current + Slack >= BufSize
  THEN {current} \cup {current - (rid + 1) : rid \in current \div 2 .. current - 1} ELSE {current}

\* prepareBuffer, of m_buffer: the words before some word break rid go, or
\* everything when there is none in the younger half.
PreparedChars ==
  IF current >= 0 /\ current + Slack >= BufSize
  THEN {-1} \cup {current - (rid + 1) : rid \in current \div 2 .. current - 1}
  ELSE {current}

\* Mutant of PreparedKeys: one entry late.
PreparedKeysLate ==
  IF keyCurrent > 0 /\ keyCurrent >= KeyBufSize THEN keyCurrent - keyCurrent \div 2 ELSE keyCurrent

\* prepareBuffer, of m_keyStrokes: the older half goes.
PreparedKeys ==
  IF keyCurrent > 0 /\ keyCurrent + 1 >= KeyBufSize
  THEN keyCurrent - keyCurrent \div 2
  ELSE keyCurrent

\* process: the key marks the letters there are or is one more letter (two
\* for checkEscapeVIQR), and is recorded.
Type == \E p \in PreparedChars :
  /\ current' \in {p, p + 1, p + 2} /\ current' >= 0
  /\ keyCurrent' = PreparedKeys + 1

\* A key or a client resets the engine, or a macro was expanded.
Reset == current' = -1 /\ keyCurrent' = -1

\* processBackspace, with synchKeyStrokeBuffer.
Backspace ==
  /\ current >= 0
  /\ current' = current - 1
  /\ keyCurrent' \in -1 .. keyCurrent /\ (keyCurrent >= 0 => keyCurrent' < keyCurrent)

\* restoreKeyStrokes: the entries after some start, those of the last word,
\* make place for one entry for each of its n key strokes.
Replayed(last, lastKey) == {start + n : start \in -1 .. last, n \in 1 .. lastKey + 1}

RestoreKeyStrokes ==
  /\ current' \in Replayed(current, keyCurrent)
  /\ UNCHANGED keyCurrent

\* process, when the word break it types makes processWordEnd restore the word.
TypeAndRestore ==
  /\ \E p \in PreparedChars : \E last \in Replayed(p, PreparedKeys) : current' = last + 1
  /\ keyCurrent' = PreparedKeys + 1

\* UnikeyPutChar: pass appends the key, and may restore a word before it, but
\* does not call prepareBuffer.
PutChar ==
  /\ \E last \in {current} \cup Replayed(current, keyCurrent) : current' = last + 1
  /\ UNCHANGED keyCurrent

TypingNext == Type \/ Reset \/ Backspace
Next == TypingNext \/ RestoreKeyStrokes \/ TypeAndRestore \/ PutChar

\* The engine while only UnikeyFilter and UnikeyBackspacePress are called
\* and no key stroke is restored; and the engine.
TypingSpec == Init /\ [][TypingNext]_vars
Spec == Init /\ [][Next]_vars

-----------------------------------------------------------------------------
\* No call writes outside the arrays.
CharsInRange == current < BufSize
KeysInRange == keyCurrent < KeyBufSize

\* "make sure there are at least 10 entries available": whatever words
\* prepareBuffer drops, Slack entries are left for the call that follows.
RoomAfterPrepare == \A p \in PreparedChars : p + Slack < BufSize

\* When a word has to go, what stays is at most half of the text.
DropsHalf == current + Slack >= BufSize => \A p \in PreparedChars : 2 * p < BufSize
=============================================================================
