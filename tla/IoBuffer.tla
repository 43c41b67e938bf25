------------------------------ MODULE IoBuffer ------------------------------
(***************************************************************************)
(* IoBuffer: a vector of bytes with a reading and a writing index, and     *)
(* space for a header in front.  Positions count from 0, as in the code.   *)
(*                                                                         *)
(* An operator takes and returns the whole object, as a member function    *)
(* changes it.                                                             *)
(***************************************************************************)
EXTENDS Integers, Sequences

CONSTANTS
  Reserved,    \* kReservedCapacity
  Initial,     \* kInitialCapacity
  Extra,       \* size of ReadFromFd's extra_buffer
  MinShrink,   \* what ShrinkWritableSpace finds too little (32)
  Span,        \* number of values of a size_t (2^64)
  Users,       \* ways to use a buffer: the member functions that are called
               \* and a bound on the bytes put in
  MaxLen,      \* bound on the bytes of a call
  MaxErrors    \* bound on failing recv calls in a ReadFromFd

CallNames == {"Append", "EnsureWritableSpace", "SetHeadContent",
              "RetrieveAString", "RetrieveAll", "RetrieveInt", "WriteToFd",
              "ShrinkWritableSpace", "ReadFromFd", "ReadLenFromFd"}

ASSUME IoBufferAssumption ==
  /\ {Reserved, Initial, Extra, MinShrink, MaxLen, MaxErrors} \subseteq Nat
  /\ Span \in Nat
  /\ \A u \in Users :
       /\ u.calls \subseteq CallNames /\ u.bytes \in Nat
       /\ Span > Reserved + Initial + 2 * u.bytes

VARIABLES
  io,      \* the object
  got,     \* the bytes that the last call returned or sent
  asked,   \* history: how many bytes the last call was to take out
  next,    \* the number of the next byte put in
  moved,   \* history: has the content been moved to the front?
  user     \* whose buffer it is

vars == <<io, got, asked, next, moved, user>>

\* What a byte is that nobody has written.
Junk == 0

Fresh(n) == [i \in 1..n |-> next + i - 1]

GetReadableBytes(b) == (b.writing_index - b.reading_index) % Span
GetWritableBytes(b) == (Len(b.buffer) - b.writing_index) % Span
GetReservedBytes(b) == b.reading_index

\* The bytes at positions lo, lo+1, ..., hi-1.
Bytes(buf, lo, hi) ==
  [i \in 1..(hi - lo) |-> IF lo + i \in DOMAIN buf THEN buf[lo + i] ELSE Junk]

Readable(b) == Bytes(b.buffer, b.reading_index, b.writing_index)

\* memcpy and memmove to position `at`.
Copy(buf, at, s) ==
  [i \in 1..Len(buf) |->
     IF i > at /\ i <= at + Len(s) THEN s[i - at] ELSE buf[i]]

\* vector::resize.
Resize(buf, n) == [i \in 1..n |-> IF i <= Len(buf) THEN buf[i] ELSE Junk]

NewBuffer ==
  [buffer |-> Resize(<<>>, Reserved + Initial),
   reading_index |-> Reserved, writing_index |-> Reserved]

RefreshRW(b) ==
  [b EXCEPT !.reading_index = Reserved, !.writing_index = Reserved]

RefreshW(b, n) == [b EXCEPT !.writing_index = @ + n]

\* A length beyond the content empties the buffer.
Refresh(b, n) ==
  IF n < GetReadableBytes(b) THEN [b EXCEPT !.reading_index = @ + n]
  ELSE RefreshRW(b)

\* The writable space and what lies in front of the content.
FreeBytes(b) == (GetWritableBytes(b) + GetReservedBytes(b) - Reserved) % Span

\* The content is moved to the front if that makes enough space.  The new
\* writing index is computed from the new reading index.
ReserveWritableSpace(b, n) ==
  IF FreeBytes(b) < n
  THEN [b EXCEPT !.buffer = Resize(@, b.writing_index + n)]
  ELSE LET front == [b EXCEPT !.buffer = Copy(@, Reserved, Readable(b)),
                              !.reading_index = Reserved]
       IN [front EXCEPT
             !.writing_index = front.reading_index + GetReadableBytes(front)]

EnsureWritableSpace(b, n) ==
  IF n > GetWritableBytes(b) THEN ReserveWritableSpace(b, n) ELSE b

Append_(b, s) ==
  LET e == EnsureWritableSpace(b, Len(s))
  IN RefreshW([e EXCEPT !.buffer = Copy(@, e.writing_index, s)], Len(s))

\* Mutant: the space for the header is not checked.
SetHeadContentUnchecked(b, s) ==
  [b EXCEPT !.buffer = Copy(@, b.reading_index - Len(s), s),
            !.reading_index = @ - Len(s)]

SetHeadContent(b, s) ==
  IF Len(s) > GetReservedBytes(b) THEN b
  ELSE [b EXCEPT !.buffer = Copy(@, b.reading_index - Len(s), s),
                 !.reading_index = @ - Len(s)]

ShrinkWritableSpace(b, n) ==
  IF n <= MinShrink THEN b
  ELSE Append_(EnsureWritableSpace(NewBuffer,
                                   Reserved + GetReadableBytes(b) + n),
               Readable(b))

\* Mutant: what the extra buffer holds is forgotten.
DiscreteReadShort(b, s) ==
  [b EXCEPT !.buffer = Copy(@, b.writing_index, s),
            !.writing_index =
               IF Len(s) <= GetWritableBytes(b) THEN @ + Len(s)
               ELSE Len(b.buffer)]

\* ReadFromFd(fd, errno): recvmsg fills the writable space, then the extra
\* buffer, which is appended.
DiscreteRead(b, s) ==
  LET room == GetWritableBytes(b)
      filled == [b EXCEPT !.buffer = Copy(@, b.writing_index, s)]
  IN IF Len(s) <= room THEN RefreshW(filled, Len(s))
     ELSE Append_([filled EXCEPT !.writing_index = Len(b.buffer)],
                  SubSeq(s, room + 1, Len(s)))

\* ReadFromFd(fd, n, errno): recv is called until n bytes are there, and its
\* -1 is added like a number of bytes.  `errors` calls fail before the bytes
\* in s come.
ReadLen(b, n, errors, s) ==
  LET e == EnsureWritableSpace(b, n)
      at == e.writing_index - errors
  IN [e EXCEPT !.buffer = Copy(@, at, s), !.writing_index = at + Len(s)]

-----------------------------------------------------------------------------

\* Does EnsureWritableSpace(b, n) move the content?
Moves(b, n) == n > GetWritableBytes(b) /\ FreeBytes(b) >= n

\* A call puts n new bytes in, and moves the content if m.  Bound: a content
\* that was moved, which may have grown and of which nothing is claimed, is
\* only read.
Put(f, n, m) ==
  /\ f \in user.calls /\ ~moved
  /\ next + n - 1 <= user.bytes
  /\ next' = next + n
  /\ got' = <<>> /\ asked' = 0
  /\ moved' = m
  /\ UNCHANGED user

CallAppend(n) == Put("Append", n, Moves(io, n)) /\ io' = Append_(io, Fresh(n))

\* A header that does not fit is refused.
SetHead(n) ==
  /\ io' = SetHeadContent(io, Fresh(n))
  /\ Put("SetHeadContent", GetReadableBytes(io') - GetReadableBytes(io),
         FALSE)

\* recvmsg returns at most what the buffers offered to it hold.
ReadFromFd(n) ==
  /\ \/ n <= GetWritableBytes(io)
     \/ GetWritableBytes(io) < Extra /\ n <= GetWritableBytes(io) + Extra
  /\ Put("ReadFromFd", n,
         Moves(RefreshW(io, GetWritableBytes(io)), n - GetWritableBytes(io)))
  /\ io' = DiscreteRead(io, Fresh(n))

ReadLenFromFd(n, errors) ==
  /\ Put("ReadLenFromFd", n + errors, Moves(io, n))
  /\ io' = ReadLen(io, n, errors, Fresh(n + errors))

\* A call returns n bytes and refreshes the indexes by m.
TakeOut(f, n, m) ==
  /\ f \in user.calls
  /\ got' = SubSeq(Readable(io), 1, n) /\ asked' = m
  /\ io' = Refresh(io, m)
  /\ UNCHANGED <<next, moved, user>>

\* RetrieveAString and RetrieveAByteArray refuse a length beyond the content.
Retrieve(n) == n <= GetReadableBytes(io) /\ TakeOut("RetrieveAString", n, n)

RetrieveAll ==
  TakeOut("RetrieveAll", GetReadableBytes(io), GetReadableBytes(io))

\* RetrieveInt8 to RetrieveInt64 return no bytes if there are too few, and
\* refresh the indexes all the same.
RetrieveInt(n) ==
  TakeOut("RetrieveInt", IF n > GetReadableBytes(io) THEN 0 ELSE n, n)

\* send takes n > 0 of the bytes offered to it.
WriteToFd(n) == n <= GetReadableBytes(io) /\ TakeOut("WriteToFd", n, n)

\* Calls that change the space only.
Ensure(n) ==
  /\ Put("EnsureWritableSpace", 0, Moves(io, n))
  /\ io' = EnsureWritableSpace(io, n)

Shrink(n) ==
  /\ Put("ShrinkWritableSpace", 0, FALSE)
  /\ io' = ShrinkWritableSpace(io, n)

Init ==
  /\ io = NewBuffer /\ got = <<>> /\ asked = 0
  /\ next = 1 /\ moved = FALSE /\ user \in Users

Next ==
  \E n \in 1..MaxLen :
    \/ CallAppend(n) \/ SetHead(n) \/ ReadFromFd(n)
    \/ \E errors \in 0..MaxErrors : ReadLenFromFd(n, errors)
    \/ Retrieve(n) \/ RetrieveInt(n) \/ WriteToFd(n) \/ Ensure(n) \/ Shrink(n)
    \/ RetrieveAll

Spec == Init /\ [][Next]_vars

-----------------------------------------------------------------------------

\* The calls that may leave a part of the content unread.
PartReads == {"RetrieveAString", "RetrieveInt", "WriteToFd"}

\* Until ReserveWritableSpace moves the content, the indexes are in order and
\* within the vector: no member function reads or writes outside of it.  It
\* never moves the content for a user who reads all of it at once.
IndexesInOrder ==
  /\ moved => PartReads \cap user.calls # {}
  /\ ~moved => /\ 0 <= io.reading_index
               /\ io.reading_index <= io.writing_index
               /\ io.writing_index <= Len(io.buffer)

Abstract == INSTANCE ByteQueue WITH queue <- Readable(io), intact <- ~moved

\* Until ReserveWritableSpace moves the content, the buffer is a queue of
\* bytes: whatever calls put bytes in, prepend a header, grow, shrink or take
\* bytes out, what is read is what was put in, in order, what was not read
\* stays, and only a call for more bytes than there are loses any (all of
\* IoBuffer).
ImplementsByteQueue == Abstract!Spec

-----------------------------------------------------------------------------
(***************************************************************************)
(* What the comments say and the code does not do.                         *)
(***************************************************************************)

\* io_buffer.h: "Ensure that there is enough space for writing".
EnsuresSpace ==
  [][\A n \in 1..MaxLen : Ensure(n) => GetWritableBytes(io') >= n]_vars
=============================================================================
