--------------------------- MODULE UkBufferProofs ---------------------------
(***************************************************************************)
(* The arrays of the engine are never overrun while keys are only typed    *)
(* and deleted, and the array of key strokes is never overrun at all.      *)
(***************************************************************************)
EXTENDS UkBuffer, TLAPS

\* Two more than what prepareBuffer leaves: the most one key press adds.
CharsBound == current \in -1 .. BufSize - Slack + 1
KeysBound == keyCurrent \in -1 .. KeyBufSize - 1

\* prepareBuffer leaves room in m_buffer for Slack entries.
LEMMA PreparedCharsBound ==
  ASSUME CharsBound
  PROVE  PreparedChars \subseteq -1 .. BufSize - Slack - 1
<1>1. CASE current >= 0 /\ current + Slack >= BufSize
  <2>1. SUFFICES ASSUME NEW rid \in current \div 2 .. current - 1
                 PROVE  current - (rid + 1) \in -1 .. BufSize - Slack - 1
    BY <1>1, SizesAssumption DEF PreparedChars
  <2>2. 2 * (current \div 2) >= current - 1
    BY <1>1 DEF CharsBound
  <2>3. rid \in Int /\ rid >= current \div 2 /\ rid <= current - 1
    BY <1>1 DEF CharsBound
  <2>. QED  BY <2>2, <2>3, <1>1, SizesAssumption DEF CharsBound
<1>2. CASE ~(current >= 0 /\ current + Slack >= BufSize)
  BY <1>2, SizesAssumption DEF PreparedChars, CharsBound
<1>. QED  BY <1>1, <1>2

\* prepareBuffer leaves room in m_keyStrokes for one more.
LEMMA PreparedKeysBound ==
  ASSUME KeysBound
  PROVE  PreparedKeys \in -1 .. KeyBufSize - 2
<1>1. CASE keyCurrent > 0 /\ keyCurrent + 1 >= KeyBufSize
  <2>1. keyCurrent \div 2 \in Int /\ 2 * (keyCurrent \div 2) >= keyCurrent - 1
                                  /\ 2 * (keyCurrent \div 2) <= keyCurrent
    BY <1>1 DEF KeysBound
  <2>. QED  BY <2>1, <1>1, SizesAssumption DEF PreparedKeys, KeysBound
<1>2. CASE ~(keyCurrent > 0 /\ keyCurrent + 1 >= KeyBufSize)
  BY <1>2, SizesAssumption DEF PreparedKeys, KeysBound
<1>. QED  BY <1>1, <1>2

-----------------------------------------------------------------------------
\* While keys are only typed and deleted, m_current never goes two past the
\* entries that prepareBuffer leaves available.
LEMMA TypingInduction == TypingSpec => [](CharsBound /\ KeysBound)
<1>1. Init => CharsBound /\ KeysBound
  BY SizesAssumption DEF Init, CharsBound, KeysBound
<1>2. CharsBound /\ KeysBound /\ [TypingNext]_vars => CharsBound' /\ KeysBound'
  <2>. SUFFICES ASSUME CharsBound, KeysBound, [TypingNext]_vars
                PROVE  CharsBound' /\ KeysBound'
    OBVIOUS
  <2>1. CASE Type
    <3>1. PICK p \in PreparedChars : current' \in {p, p + 1, p + 2} /\ current' >= 0
      BY <2>1 DEF Type
    <3>2. p \in -1 .. BufSize - Slack - 1
      BY <3>1, PreparedCharsBound
    <3>3. CharsBound'
      BY <3>1, <3>2, SizesAssumption DEF CharsBound
    <3>4. KeysBound'
      BY <2>1, PreparedKeysBound, SizesAssumption DEF Type, KeysBound
    <3>. QED  BY <3>3, <3>4
  <2>2. CASE Reset
    BY <2>2, SizesAssumption DEF Reset, CharsBound, KeysBound
  <2>3. CASE Backspace
    BY <2>3, SizesAssumption DEF Backspace, CharsBound, KeysBound
  <2>4. CASE UNCHANGED vars
    BY <2>4 DEF vars, CharsBound, KeysBound
  <2>. QED  BY <2>1, <2>2, <2>3, <2>4 DEF TypingNext
<1>. QED  BY <1>1, <1>2, PTL DEF TypingSpec

\* While keys are only typed and deleted, no call writes past m_buffer.
THEOREM TypingCharsInRange == TypingSpec => []CharsInRange
<1>1. CharsBound => CharsInRange
  BY SizesAssumption DEF CharsBound, CharsInRange
<1>. QED  BY <1>1, TypingInduction, PTL

\* While keys are only typed and deleted, prepareBuffer keeps its word: Slack
\* entries of m_buffer are available to every call.
THEOREM TypingRoomAfterPrepare == TypingSpec => []RoomAfterPrepare
<1>1. CharsBound => RoomAfterPrepare
  BY PreparedCharsBound, SizesAssumption DEF RoomAfterPrepare
<1>. QED  BY <1>1, TypingInduction, PTL

\* When m_buffer is cut, the words that stay fill less than half of it.
THEOREM TypingDropsHalf == TypingSpec => []DropsHalf
<1>1. CharsBound => DropsHalf
  <2>. SUFFICES ASSUME CharsBound, current + Slack >= BufSize, NEW p \in PreparedChars
                PROVE  2 * p < BufSize
    BY DEF DropsHalf
  <2>1. current >= 0
    BY SizesAssumption DEF CharsBound
  <2>2. p = -1 \/ \E rid \in current \div 2 .. current - 1 : p = current - (rid + 1)
    BY <2>1 DEF PreparedChars
  <2>3. CASE p = -1
    BY <2>3, SizesAssumption
  <2>4. ASSUME NEW rid \in current \div 2 .. current - 1, p = current - (rid + 1)
        PROVE  2 * p < BufSize
    <3>1. 2 * (current \div 2) >= current - 1 /\ current \div 2 \in Int
      BY <2>1 DEF CharsBound
    <3>. QED  BY <2>4, <3>1, SizesAssumption DEF CharsBound
  <2>. QED  BY <2>2, <2>3, <2>4
<1>. QED  BY <1>1, TypingInduction, PTL

\* Whatever is called, no call writes past m_keyStrokes: each one that adds a
\* key stroke makes room for it first.
THEOREM KeysAlwaysInRange == Spec => []KeysInRange
<1>1. Init => KeysBound
  BY SizesAssumption DEF Init, KeysBound
<1>2. KeysBound /\ [Next]_vars => KeysBound'
  <2>. SUFFICES ASSUME KeysBound, [Next]_vars
                PROVE  KeysBound'
    OBVIOUS
  <2>1. CASE Type \/ TypeAndRestore
    BY <2>1, PreparedKeysBound, SizesAssumption DEF Type, TypeAndRestore, KeysBound
  <2>2. CASE Reset
    BY <2>2, SizesAssumption DEF Reset, KeysBound
  <2>3. CASE Backspace
    BY <2>3, SizesAssumption DEF Backspace, KeysBound
  <2>4. CASE RestoreKeyStrokes \/ PutChar \/ UNCHANGED vars
    BY <2>4 DEF RestoreKeyStrokes, PutChar, vars, KeysBound
  <2>. QED  BY <2>1, <2>2, <2>3, <2>4 DEF Next, TypingNext
<1>3. KeysBound => KeysInRange
  BY SizesAssumption DEF KeysBound, KeysInRange
<1>. QED  BY <1>1, <1>2, <1>3, PTL DEF Spec
=============================================================================
