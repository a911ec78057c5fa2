------------------------------- MODULE ByteIO -------------------------------
(***************************************************************************)
(* The streams of bytes (byteio/byteio.cpp) that the converter reads and   *)
(* writes, as functions from a stream and a call to what the call returns  *)
(* and the stream after it.  bookmark, which nothing calls, is left out.   *)
(***************************************************************************)
EXTENDS Integers, Sequences, SequencesExt

\* What a call returns: whether it read something, what it read, the stream.
Did(ok, value, st) == [ok |-> ok, value |-> value, st |-> st]
Word(lo, hi) == lo + (256 * hi)
Beyond == -1          \* a byte after the end of the data, that could be anything
At(data, k) == IF k \in DOMAIN data THEN data[k] ELSE Beyond
WordAt(data, k) == IF k + 1 \in DOMAIN data THEN Word(data[k], data[k + 1]) ELSE Beyond

-----------------------------------------------------------------------------
(* StringBIStream, of a string whose length is given *)

StringBIStream(data) == [current |-> 1, left |-> Len(data), eos |-> data = <<>>]
Skip(st, n) ==
  [current |-> st.current + n, left |-> st.left - n, eos |-> st.left - n <= 0]
StringCall(data, st, call) ==
  IF st.eos THEN Did(FALSE, 0, st)
  ELSE CASE call = "getNext" -> Did(TRUE, At(data, st.current), Skip(st, 1))
         [] call = "peekNext" -> Did(TRUE, At(data, st.current), st)
         [] call = "getNextW" -> Did(TRUE, WordAt(data, st.current), Skip(st, 2))
         [] call = "peekNextW" -> Did(TRUE, WordAt(data, st.current), st)
         [] call = "getNextDW" ->
              Did(TRUE, <<WordAt(data, st.current), WordAt(data, st.current + 2)>>, Skip(st, 4))

-----------------------------------------------------------------------------
(* FileBIStream.  next is the place in the file; ungetc steps back and      *)
(* clears feof.  A byte that peekNextW read ahead is in readByte.           *)

FileBIStream ==
  [next |-> 1, feof |-> FALSE, readAhead |-> FALSE, readByte |-> 0, lastIsAhead |-> FALSE]
fgetc(data, st) ==
  IF st.next > Len(data) THEN Did(FALSE, 255, [st EXCEPT !.feof = TRUE])
  ELSE Did(TRUE, data[st.next], [st EXCEPT !.next = @ + 1])
Back(st) == [st EXCEPT !.next = @ - 1, !.feof = FALSE]
FileEos(st) == ~ st.readAhead /\ st.feof

fileGetNext(data, st) ==
  IF st.readAhead
  THEN Did(TRUE, st.readByte, [st EXCEPT !.readAhead = FALSE, !.lastIsAhead = TRUE])
  ELSE fgetc(data, [st EXCEPT !.lastIsAhead = FALSE])
filePeekNext(data, st) ==
  IF st.readAhead THEN Did(TRUE, st.readByte, st)
  ELSE LET got == fgetc(data, st) IN IF got.ok THEN [got EXCEPT !.st = Back(@)] ELSE got
unget(b, st) ==
  IF st.lastIsAhead THEN [st EXCEPT !.lastIsAhead = FALSE, !.readAhead = TRUE, !.readByte = b]
  ELSE Back(st)
fileGetNextW(data, st) ==
  LET lo == fileGetNext(data, st)
      hi == fileGetNext(data, lo.st)
  IN  IF ~ lo.ok THEN Did(FALSE, 0, lo.st)
      ELSE IF hi.ok THEN Did(TRUE, Word(lo.value, hi.value), hi.st) ELSE Did(FALSE, 0, hi.st)
Ahead(b, st) == [st EXCEPT !.readAhead = TRUE, !.readByte = b, !.lastIsAhead = FALSE]
\* Mutant of filePeekNextW: the second byte is not given back.
filePeekNextWKept(data, st) ==
  LET lo == fileGetNext(data, st)
      hi == fileGetNext(data, lo.st)
  IN  IF ~ lo.ok THEN Did(FALSE, 0, lo.st)
      ELSE IF hi.ok THEN Did(TRUE, Word(lo.value, hi.value), Ahead(lo.value, hi.st))
      ELSE Did(FALSE, 0, Ahead(lo.value, hi.st))
filePeekNextW(data, st) ==
  LET lo == fileGetNext(data, st)
      hi == fileGetNext(data, lo.st)
  IN  IF ~ lo.ok THEN Did(FALSE, 0, lo.st)
      ELSE IF hi.ok THEN Did(TRUE, Word(lo.value, hi.value), Ahead(lo.value, unget(hi.value, hi.st)))
      ELSE Did(FALSE, 0, Ahead(lo.value, hi.st))
fileGetNextDW(data, st) ==
  LET w1 == fileGetNextW(data, st)
      w2 == fileGetNextW(data, w1.st)
  IN  IF ~ w1.ok THEN w1
      ELSE IF w2.ok THEN Did(TRUE, <<w1.value, w2.value>>, w2.st) ELSE w2
FileCall(data, st, call) ==
  CASE call = "getNext" -> fileGetNext(data, st)
    [] call = "peekNext" -> filePeekNext(data, st)
    [] call = "getNextW" -> fileGetNextW(data, st)
    [] call = "peekNextW" -> filePeekNextW(data, st)
    [] call = "getNextDW" -> fileGetNextDW(data, st)

-----------------------------------------------------------------------------
(* StringBOStream, that has room for room bytes, and FileBOStream, on a     *)
(* disk with room for as many.  A call is [name, bytes].                    *)

BOStream(room) == [room |-> room, out |-> 0, bad |-> FALSE, written |-> <<>>]
Fitting(st, bytes) == SubSeq(bytes, 1, Min({Len(bytes), st.room - Len(st.written)}))
StringPut(st, call) ==
  LET n == st.out + Len(call.bytes)
      fits == ~ st.bad /\ n <= st.room
      kept == CASE fits -> call.bytes
                [] st.bad \/ call.name \in {"putB", "putW"} -> <<>>
                [] OTHER -> Fitting(st, call.bytes)                            \* puts
  IN  [st EXCEPT !.out = n, !.bad = ~ fits, !.written = @ \o kept]

\* Byte by byte: what does not fit on the disk fails and nothing comes after it.
FilePut(st, call) ==
  IF st.bad THEN st
  ELSE [st EXCEPT !.bad = Len(st.written) + Len(call.bytes) > st.room,
                  !.written = @ \o Fitting(st, call.bytes)]
=============================================================================
