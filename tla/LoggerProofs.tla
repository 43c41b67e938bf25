---------------------------- MODULE LoggerProofs ----------------------------
(***************************************************************************)
(* Proofs about Logger, for any number of producers, any size of the ring  *)
(* and any number of records: types, the wakeups of the writer, the files, *)
(* how each step keeps the ring and the log in order, and the theorems     *)
(* about the ring.                                                         *)
(*                                                                         *)
(* What holds of the ring holds as long as END_LOG is not called while     *)
(* other threads log (~EndEarly): a logger that is started again resets    *)
(* the ring, and a producer with a position of before would write to a     *)
(* slot that is not its own.                                               *)
(***************************************************************************)
EXTENDS Logger, TLAPS

Data == Records \cup {Empty}

EndPcs == {"stop", "wake", "join", "close"}
StartPcs == {"idle", "check", "lock", "spawn"}
EnqueuePcs == {"load", "slot", "cas", "data", "publish", "count", "notify"}
WriterPcs == {"none", "test", "pending", "dequeue", "take", "release", "sub",
              "write", "flush", "lock", "recheck", "sleep", "waiting",
              "woken", "done"}

ThreadPcs == StartPcs \cup EnqueuePcs \cup EndPcs
Thread == [pc : ThreadPcs, pos : Nat, n : 0..MaxRecords]

Disk == [cur : Names, seq : Nat, bytes : Nat, open : BOOLEAN,
         opened : SUBSET Names, files : [Names -> Seq(Data)]]

ThreadOK ==
  /\ thread \in [Callers -> Thread]
  /\ thread[Main].pc \in StartPcs \cup EndPcs
  /\ \A p \in Producers :
       /\ thread[p].pc \in StartPcs \cup EnqueuePcs
       /\ thread[p].pc # "idle" => thread[p].n >= 1

TypeOK ==
  /\ is_initialized \in BOOLEAN /\ is_stopping \in BOOLEAN
  /\ write_index \in Nat /\ read_index \in Nat
  /\ pending \in 0..(Span - 1)
  /\ log_buffer \in [0..(Size - 1) -> [seq : Nat, data : Data]]
  /\ ThreadOK
  /\ writer \in [pc : WriterPcs, record : Data]
  /\ disk \in Disk
  /\ starts \in Nat
  /\ claimed \in Seq(Records) /\ written \in Seq(Data)

-----------------------------------------------------------------------------
\* Sequences.

\* The concatenation of two sequences.
LEMMA SeqConcat ==
  ASSUME NEW S, NEW s \in Seq(S), NEW t \in Seq(S)
  PROVE  /\ s \o t \in Seq(S) /\ Len(s \o t) = Len(s) + Len(t)
         /\ \A i \in 1..(Len(s) + Len(t)) :
              (s \o t)[i] = IF i <= Len(s) THEN s[i] ELSE t[i - Len(s)]
  OBVIOUS

\* A part of a sequence, by its first and its last index.
LEMMA SeqSub ==
  ASSUME NEW S, NEW s, NEW a \in Int, NEW b \in Int,
         \A i \in a..b : s[i] \in S
  PROVE  /\ SubSeq(s, a, b) \in Seq(S)
         /\ Len(SubSeq(s, a, b)) = IF a <= b THEN b - a + 1 ELSE 0
         /\ \A i \in 1..(b - a + 1) : SubSeq(s, a, b)[i] = s[a + i - 1]
  OBVIOUS

\* A sequence with one more element.
LEMMA SeqAppend ==
  ASSUME NEW S, NEW s \in Seq(S), NEW x \in S
  PROVE  /\ Append(s, x) \in Seq(S) /\ Len(Append(s, x)) = Len(s) + 1
         /\ \A i \in 1..Len(s) : Append(s, x)[i] = s[i]
         /\ Append(s, x)[Len(s) + 1] = x
  OBVIOUS

\* A sequence is a function on the indexes up to its length.
LEMMA SeqLen ==
  ASSUME NEW S, NEW s \in Seq(S)
  PROVE  Len(s) \in Nat /\ s \in [1..Len(s) -> S] /\ DOMAIN s = 1..Len(s)
  OBVIOUS

\* The elements of a sequence.
LEMMA SeqElement ==
  ASSUME NEW S, NEW s \in Seq(S), NEW i \in 1..Len(s) PROVE s[i] \in S
  OBVIOUS

\* The empty sequence, and a sequence that is not empty.
LEMMA SeqEmpty ==
  ASSUME NEW S
  PROVE  /\ <<>> \in Seq(S) /\ Len(<<>>) = 0
         /\ \A s \in Seq(S) : s # <<>> => Len(s) \in Nat \ {0}
  OBVIOUS

\* Two sequences with the same elements are the same.
LEMMA SeqSame ==
  ASSUME NEW S, NEW s \in Seq(S), NEW t \in Seq(S), Len(s) = Len(t),
         \A i \in 1..Len(s) : s[i] = t[i]
  PROVE  s = t
  OBVIOUS

\* To append is to concatenate.
LEMMA SeqAppendConcat ==
  ASSUME NEW S, NEW s \in Seq(S), NEW x \in S PROVE Append(s, x) = s \o <<x>>
  OBVIOUS

\* Concatenation is associative.
LEMMA SeqAssoc ==
  ASSUME NEW S, NEW s \in Seq(S), NEW t \in Seq(S), NEW u \in Seq(S)
  PROVE  (s \o t) \o u = s \o (t \o u)
  OBVIOUS

\* The empty sequence adds nothing.
LEMMA SeqConcatEmpty ==
  ASSUME NEW S, NEW s \in Seq(S) PROVE s \o <<>> = s /\ <<>> \o s = s
  OBVIOUS

-----------------------------------------------------------------------------
(***************************************************************************)
(* Arithmetic modulo the size of the ring.                                 *)
(***************************************************************************)

\* A remainder is determined by its range and by the difference being a
\* multiple.
LEMMA ModShift ==
  ASSUME NEW a \in Int, NEW k \in Int, NEW m \in Nat \ {0}
  PROVE  (a + k * m) % m = a % m
<1>1. a = m * (a \div m) + (a % m) /\ a % m \in 0..(m - 1) /\ a \div m \in Int
  OBVIOUS
<1>2. a + k * m = ((a \div m) + k) * m + (a % m)
  BY <1>1
<1>3. ASSUME NEW c \in Int, NEW q \in Int, NEW r \in 0..(m - 1), c = q * m + r
      PROVE  c % m = r
  BY <1>3
<1>4. a + k * m \in Int /\ (a \div m) + k \in Int
  BY <1>1
<1> QED
  BY Zenon, <1>1, <1>2, <1>3, <1>4

\* Every position below the top of a window as large as the ring has its slot
\* in common with a position of the window that is not before it.
LEMMA ModWindow ==
  ASSUME NEW low \in Nat, NEW pos \in Nat, NEW m \in Nat \ {0},
         pos < low + m
  PROVE  \E i \in Nat : /\ low <= i /\ i < low + m /\ pos <= i
                        /\ i % m = pos % m
<1> DEFINE d == (pos - low) % m
           k == 0 - ((pos - low) \div m)
           i == low + d
<1>1. d \in 0..(m - 1) /\ k \in Int
  OBVIOUS
<1>2. pos - low = m * ((pos - low) \div m) + d
  OBVIOUS
<1>3. i = pos + k * m
  BY <1>2
<1>4. i % m = pos % m
  <2> HIDE DEF k, i
  <2>1. pos \in Int
    OBVIOUS
  <2>2. (pos + k * m) % m = pos % m
    BY Zenon, <1>1, <2>1, ModShift
  <2> QED
    BY Zenon, <1>3, <2>2
<1>5. pos <= i
  <2>1. CASE pos < low
    BY <2>1, <1>1
  <2>2. CASE pos >= low
    BY <2>2
  <2> QED
    BY <2>1, <2>2
<1>6. i \in Nat /\ low <= i /\ i < low + m
  BY <1>1
<1> HIDE DEF i
<1> QED
  BY Zenon, <1>4, <1>5, <1>6

LEMMA ModStep ==
  ASSUME NEW a \in Int, NEW k \in Int, NEW m \in Nat \ {0}
  PROVE  ((a % m) + k) % m = (a + k) % m
<1> DEFINE r == a % m  q == a \div m
<1>1. a = m * q + r /\ r \in Int /\ q \in Int
  OBVIOUS
<1> HIDE DEF r, q
<1>2. a + k = (r + k) + q * m /\ r + k \in Int
  BY <1>1
<1>3. ((r + k) + q * m) % m = (r + k) % m
  BY Zenon, <1>1, <1>2, ModShift
<1> QED
  BY Zenon, <1>2, <1>3 DEF r

LEMMA Constants ==
  /\ Size \in Nat \ {0} /\ Size >= 2
  /\ Span \in Nat \ {0} /\ Span > Size
  /\ MaxRecords \in Nat /\ FileBytes \in Nat \ {0}
  /\ 0 \in 0..(Span - 1)
BY LoggerAssumption

LEMMA SlotRange ==
  ASSUME NEW pos \in Int
  PROVE  Slot(pos) \in 0..(Size - 1)
BY Constants DEF Slot

-----------------------------------------------------------------------------
(***************************************************************************)
(* What the helpers of the actions change.                                 *)
(***************************************************************************)

LEMMA GotoEffect ==
  ASSUME thread \in [Callers -> Thread],
         NEW t \in Callers, NEW pc \in ThreadPcs, Goto(t, pc)
  PROVE  /\ thread' \in [Callers -> Thread]
         /\ thread'[t].pc = pc /\ thread'[t].n = thread[t].n
         /\ pc # "idle" => thread'[t].pos = thread[t].pos
         /\ \A u \in Callers \ {t} : thread'[u] = thread[u]
BY Zenon DEF Goto, Thread

LEMMA GotoWithEffect ==
  ASSUME thread \in [Callers -> Thread],
         NEW t \in Callers, NEW pc \in ThreadPcs, NEW pos \in Nat,
         GotoWith(t, pc, pos)
  PROVE  /\ thread' \in [Callers -> Thread]
         /\ thread'[t].pc = pc /\ thread'[t].n = thread[t].n
         /\ thread'[t].pos = pos
         /\ \A u \in Callers \ {t} : thread'[u] = thread[u]
BY Zenon DEF GotoWith, Thread

LEMMA WriterGotoEffect ==
  ASSUME writer \in [pc : WriterPcs, record : Data],
         NEW pc \in WriterPcs, WriterGoto(pc)
  PROVE  /\ writer' \in [pc : WriterPcs, record : Data]
         /\ writer'.pc = pc /\ writer'.record = writer.record
BY Zenon DEF WriterGoto

LEMMA NotifyEffect ==
  ASSUME writer \in [pc : WriterPcs, record : Data], NotifyOne
  PROVE  /\ writer' \in [pc : WriterPcs, record : Data]
         /\ \/ writer' = writer /\ writer.pc # "waiting"
            \/ writer.pc = "waiting" /\ writer'.pc = "woken"
BY Zenon DEF NotifyOne, WriterPcs

LEMMA GotoType ==
  ASSUME ThreadOK, NEW t \in Callers, NEW pc \in ThreadPcs,
         t = Main => pc \in StartPcs \cup EndPcs,
         t # Main => pc \in StartPcs \cup EnqueuePcs /\ thread[t].pc # "idle",
         Goto(t, pc) \/ \E pos \in Nat : GotoWith(t, pc, pos)
  PROVE  ThreadOK'
<1>1. /\ thread' \in [Callers -> Thread]
      /\ thread'[t].pc = pc /\ thread'[t].n = thread[t].n
      /\ \A u \in Callers \ {t} : thread'[u] = thread[u]
  BY Zenon, GotoEffect, GotoWithEffect DEF ThreadOK
<1>2. thread'[Main].pc \in StartPcs \cup EndPcs
  BY Zenon, <1>1 DEF ThreadOK, Callers
<1>3. ASSUME NEW p \in Producers
      PROVE  /\ thread'[p].pc \in StartPcs \cup EnqueuePcs
             /\ thread'[p].pc # "idle" => thread'[p].n >= 1
  BY Zenon, <1>1, LoggerAssumption DEF ThreadOK, Callers
<1> QED
  BY Zenon, <1>1, <1>2, <1>3 DEF ThreadOK

LEMMA InitType == Init => TypeOK
<1> SUFFICES ASSUME Init PROVE TypeOK
  BY Zenon
<1> USE LoggerAssumption DEF Init, Empty
<1>1. disk \in Disk
  BY Zenon, SeqEmpty DEF Disk, Names
<1>2. thread \in [Callers -> Thread]
  BY DEF Thread, ThreadPcs, StartPcs
<1>3. log_buffer \in [0..(Size - 1) -> [seq : Nat, data : Data]]
  BY DEF Data
<1>4. writer \in [pc : WriterPcs, record : Data]
  BY Zenon DEF WriterPcs, Data
<1>5. claimed \in Seq(Records) /\ written \in Seq(Data)
  BY Zenon, SeqEmpty
<1>6. pending \in 0..(Span - 1)
  OBVIOUS
<1> QED
  BY Zenon, <1>1, <1>2, <1>3, <1>4, <1>5, <1>6
     DEF TypeOK, ThreadOK, Callers, StartPcs

LEMMA StartType ==
  ASSUME TypeOK, NEW t \in Callers, GetLogger(t) \/ Start(t)
  PROVE  TypeOK'
<1>b. ThreadOK
  BY Zenon DEF TypeOK
<1>a. /\ AfterStart(t) \in ThreadPcs
      /\ t = Main => AfterStart(t) \in StartPcs \cup EndPcs
      /\ t # Main => AfterStart(t) \in StartPcs \cup EnqueuePcs
  BY Zenon DEF AfterStart, ThreadPcs, EndPcs, EnqueuePcs
<1>1. CASE GetLogger(t)
  <2>1. thread \in [Callers -> Thread]
    BY Zenon, <1>b DEF ThreadOK
  <2>2. ThreadOK'
    <3>1. PICK n \in 0..MaxRecords :
            /\ thread' = [thread EXCEPT ![t].pc = "check", ![t].n = n]
            /\ t # Main => n >= 1
      <4>1. thread[t].n \in 0..MaxRecords
        BY Zenon, <2>1 DEF Thread
      <4>2. CASE t = Main
        BY Zenon, <1>1, <4>1, <4>2 DEF GetLogger
      <4>3. CASE t # Main
        <5>1. thread' = [thread EXCEPT ![t].pc = "check",
                                       ![t].n = thread[t].n + 1]
          BY Zenon, <1>1, <4>3 DEF GetLogger
        <5>2. thread[t].n < MaxRecords
          BY Zenon, <1>1, <4>3 DEF GetLogger
        <5>3. thread[t].n + 1 \in 0..MaxRecords /\ thread[t].n + 1 >= 1
          BY <4>1, <5>2, Constants
        <5> QED
          BY Zenon, <5>1, <5>3
      <4> QED
        BY Zenon, <4>2, <4>3
    <3>2. "check" \in ThreadPcs /\ "check" \in StartPcs
      BY Zenon DEF ThreadPcs, StartPcs
    <3>3. /\ thread' \in [Callers -> Thread]
          /\ thread'[t].pc = "check" /\ thread'[t].n = n
          /\ \A u \in Callers \ {t} : thread'[u] = thread[u]
      BY Zenon, <2>1, <3>1, <3>2 DEF Thread
    <3> QED
      BY <1>b, <3>1, <3>2, <3>3, LoggerAssumption DEF ThreadOK, Callers
  <2> QED
    BY Zenon, <1>1, <2>2 DEF TypeOK, GetLogger, ring, flags, history
<1>2. CASE CheckInitialized(t)
  <2>1. ThreadOK'
    <3>1. PICK pc \in {AfterStart(t), "lock"} : Goto(t, pc)
      BY Zenon, <1>2 DEF CheckInitialized
    <3> QED
      BY Zenon, <1>2, <1>a, <1>b, <3>1, GotoType
         DEF CheckInitialized, StartPcs, ThreadPcs
  <2> QED
    BY Zenon, <1>2, <2>1 DEF TypeOK, CheckInitialized, ring, flags, history
<1>3. CASE SpawnWriter(t)
  <2>1. ThreadOK'
    BY Zenon, <1>3, <1>a, <1>b, GotoType DEF SpawnWriter
  <2>2. writer' \in [pc : WriterPcs, record : Data]
    BY Zenon, <1>3 DEF TypeOK, SpawnWriter, WriterPcs
  <2> QED
    BY Zenon, <1>3, <2>1, <2>2 DEF TypeOK, SpawnWriter, ring, flags, history
<1>4. ASSUME NEW fails \in {FALSE, OpenFails}, StartLogger(t, fails)
      PROVE  TypeOK'
  <2>1. CASE is_initialized
    <3>1. ThreadOK'
      BY Zenon, <1>4, <1>a, <1>b, <2>1, GotoType DEF StartLogger
    <3> QED
      BY Zenon, <1>4, <2>1, <3>1 DEF TypeOK, StartLogger, ring, flags, history
  <2>2. CASE ~ is_initialized
    <3>1. ThreadOK'
      <4>1. "spawn" \in ThreadPcs /\ "spawn" \in StartPcs
        BY Zenon DEF ThreadPcs, StartPcs
      <4> QED
        BY Zenon, <1>4, <1>b, <2>2, <4>1, GotoType DEF StartLogger
    <3>2. disk' \in Disk
      <4>1. NthFile(disk.seq) \in Names /\ "base" \in Names
        BY Zenon DEF NthFile, Names
      <4>2. PICK name \in Names :
              disk' = [disk EXCEPT !.cur = name, !.files[name] = <<>>,
                                   !.opened = @ \cup {name}, !.open = TRUE]
        BY Zenon, <1>4, <2>2, <4>1 DEF StartLogger
      <4>3. <<>> \in Seq(Data)
        BY Zenon, SeqEmpty
      <4> QED
        BY Zenon, <4>2, <4>3 DEF TypeOK, Disk
    <3>3. log_buffer' \in [0..(Size - 1) -> [seq : Nat, data : Data]]
      BY <1>4, <2>2 DEF StartLogger, Data
    <3>4. claimed' \in Seq(Records) /\ written' \in Seq(Data)
      BY Zenon, <1>4, <2>2, SeqEmpty DEF StartLogger
    <3>5. /\ is_stopping' = FALSE /\ is_initialized' = TRUE
          /\ write_index' = 0 /\ read_index' = 0 /\ pending' = 0
          /\ starts' = starts + 1 /\ UNCHANGED writer
      BY Zenon, <1>4, <2>2 DEF StartLogger
    <3> QED
      <4>1. is_initialized' \in BOOLEAN /\ is_stopping' \in BOOLEAN
        BY Zenon, <3>5
      <4>2. /\ write_index' \in Nat /\ read_index' \in Nat /\ starts' \in Nat
            /\ pending' \in 0..(Span - 1)
        BY <3>5, Constants DEF TypeOK
      <4>3. writer' \in [pc : WriterPcs, record : Data]
        BY Zenon, <3>5 DEF TypeOK
      <4> QED
        BY Zenon, <3>1, <3>2, <3>3, <3>4, <4>1, <4>2, <4>3 DEF TypeOK
  <2> QED
    BY Zenon, <2>1, <2>2
<1> QED
  BY Zenon, <1>1, <1>2, <1>3, <1>4 DEF Start

LEMMA RecordType ==
  ASSUME ThreadOK, NEW p \in Producers, thread[p].pc # "idle"
  PROVE  Record(p) \in Records
BY DEF ThreadOK, Thread, Callers, Record, Records

LEMMA EnqueueType ==
  ASSUME TypeOK, NEW p \in Producers, Enqueue(p) \/ ClaimFails(p)
  PROVE  TypeOK'
<1>a. p \in Callers /\ p # Main /\ ThreadOK
  BY Zenon, LoggerAssumption DEF Callers, TypeOK
<1>b. thread[p].pos \in Nat /\ Slot(thread[p].pos) \in 0..(Size - 1)
  BY <1>a, SlotRange DEF ThreadOK, Thread
<1>c. EnqueuePcs \cup {"idle"} \subseteq ThreadPcs
      /\ EnqueuePcs \cup {"idle"} \subseteq StartPcs \cup EnqueuePcs
  BY Zenon DEF ThreadPcs, EnqueuePcs, StartPcs
<1>d. ASSUME NEW pc \in EnqueuePcs \cup {"idle"}, thread[p].pc # "idle",
             Goto(p, pc) \/ \E pos \in Nat : GotoWith(p, pc, pos)
      PROVE  ThreadOK'
  BY Zenon, <1>a, <1>c, <1>d, GotoType
<1>1. CASE LoadWriteIndex(p)
  <2>1. ThreadOK'
    BY Zenon, <1>1, <1>d DEF LoadWriteIndex, EnqueuePcs, TypeOK
  <2> QED
    BY Zenon, <1>1, <2>1 DEF LoadWriteIndex, TypeOK, ring, flags, history
<1>2. CASE LoadSlot(p)
  <2>1. ThreadOK'
    <3>1. PICK pc \in {"cas", "idle", "load"} : Goto(p, pc)
      BY Zenon, <1>2 DEF LoadSlot
    <3> QED
      BY Zenon, <1>2, <1>d, <3>1 DEF LoadSlot, EnqueuePcs
  <2> QED
    BY Zenon, <1>2, <2>1 DEF LoadSlot, TypeOK, ring, flags, history
<1>3. CASE Claim(p) \/ ClaimFails(p)
  <2>1. ThreadOK'
    <3>1. Goto(p, "data") \/ GotoWith(p, "slot", write_index)
      BY Zenon, <1>3 DEF Claim, ClaimFails
    <3> QED
      BY Zenon, <1>3, <1>d, <3>1 DEF Claim, ClaimFails, EnqueuePcs, TypeOK
  <2>2. write_index' \in Nat /\ claimed' \in Seq(Records)
    <3>1. Record(p) \in Records
      BY Zenon, <1>3, <1>a, RecordType DEF Claim, ClaimFails
    <3>2. Append(claimed, Record(p)) \in Seq(Records)
      BY Zenon, <3>1, SeqAppend DEF TypeOK
    <3>3. \/ write_index' = write_index + 1 /\ claimed' = Append(claimed, Record(p))
          \/ write_index' = write_index /\ claimed' = claimed
      BY Zenon, <1>3 DEF Claim, ClaimFails, ring, history
    <3>4. write_index \in Nat /\ claimed \in Seq(Records)
      BY Zenon DEF TypeOK
    <3> QED
      BY <3>2, <3>3, <3>4
  <2> QED
    BY Zenon, <1>3, <2>1, <2>2
       DEF Claim, ClaimFails, TypeOK, ring, flags, history
<1>4. CASE StoreData(p)
  <2>1. ThreadOK'
    BY Zenon, <1>4, <1>d DEF StoreData, EnqueuePcs
  <2>2. Record(p) \in Data
    BY Zenon, <1>4, <1>a, RecordType DEF StoreData, Data
  <2>3. log_buffer' \in [0..(Size - 1) -> [seq : Nat, data : Data]]
    BY Zenon, <1>4, <1>b, <2>2 DEF StoreData, TypeOK
  <2> QED
    BY Zenon, <1>4, <2>1, <2>3 DEF StoreData, TypeOK, flags, history
<1>5. CASE Publish(p)
  <2>1. ThreadOK'
    BY Zenon, <1>5, <1>d DEF Publish, EnqueuePcs
  <2>2. log_buffer' \in [0..(Size - 1) -> [seq : Nat, data : Data]]
    <3>1. thread[p].pos + 1 \in Nat
      BY <1>b
    <3> QED
      BY Zenon, <1>5, <1>b, <3>1 DEF Publish, TypeOK
  <2> QED
    BY Zenon, <1>5, <2>1, <2>2 DEF Publish, TypeOK, flags, history
<1>6. CASE Count(p)
  <2>1. ThreadOK'
    <3>1. PICK pc \in {"notify", "idle"} : Goto(p, pc)
      BY Zenon, <1>6 DEF Count
    <3> QED
      BY Zenon, <1>6, <1>d, <3>1 DEF Count, EnqueuePcs
  <2>2. pending' \in 0..(Span - 1)
    BY <1>6, Constants DEF Count, TypeOK
  <2> QED
    BY Zenon, <1>6, <2>1, <2>2 DEF Count, TypeOK, flags, history
<1>7. CASE Notify(p)
  <2>1. ThreadOK'
    BY Zenon, <1>7, <1>d DEF Notify
  <2>2. writer' \in [pc : WriterPcs, record : Data]
    BY Zenon, <1>7, NotifyEffect DEF Notify, TypeOK
  <2> QED
    BY Zenon, <1>7, <2>1, <2>2 DEF Notify, TypeOK, ring, flags, history
<1> QED
  BY Zenon, <1>1, <1>2, <1>3, <1>4, <1>5, <1>6, <1>7 DEF Enqueue

LEMMA EndType ==
  ASSUME TypeOK, EndLogger
  PROVE  TypeOK'
<1>a. Main \in Callers /\ ThreadOK
  BY Zenon DEF Callers, TypeOK
<1>b. ASSUME NEW pc \in {"wake", "join", "close", "idle"}, Goto(Main, pc)
      PROVE  ThreadOK'
  <2>1. pc \in ThreadPcs /\ pc \in StartPcs \cup EndPcs
    BY Zenon DEF ThreadPcs, StartPcs, EndPcs
  <2> QED
    BY Zenon, <1>a, <1>b, <2>1, GotoType
<1>1. CASE StoreStopping
  <2>1. ThreadOK'
    BY Zenon, <1>1, <1>b DEF StoreStopping
  <2> QED
    BY Zenon, <1>1, <2>1 DEF StoreStopping, TypeOK, ring, history
<1>2. CASE NotifyStopping
  <2>1. ThreadOK'
    BY Zenon, <1>2, <1>b DEF NotifyStopping
  <2>2. writer' \in [pc : WriterPcs, record : Data]
    BY Zenon, <1>2, NotifyEffect DEF NotifyStopping, TypeOK
  <2> QED
    BY Zenon, <1>2, <2>1, <2>2 DEF NotifyStopping, TypeOK, ring, flags, history
<1>3. CASE Join
  <2>1. ThreadOK'
    BY Zenon, <1>3, <1>b DEF Join
  <2>2. writer' \in [pc : WriterPcs, record : Data]
    BY Zenon, <1>3, WriterGotoEffect DEF Join, TypeOK, WriterPcs
  <2> QED
    BY Zenon, <1>3, <2>1, <2>2 DEF Join, TypeOK, ring, flags, history
<1>4. CASE CloseFile
  <2>1. ThreadOK'
    BY Zenon, <1>4, <1>b DEF CloseFile
  <2>2. disk' \in Disk
    BY Zenon, <1>4 DEF CloseFile, TypeOK, Disk
  <2> QED
    BY Zenon, <1>4, <2>1, <2>2 DEF CloseFile, TypeOK, ring, history
<1> QED
  BY Zenon, <1>1, <1>2, <1>3, <1>4 DEF EndLogger

LEMMA WriterType ==
   /\ TypeOK
   /\ WriteDownLogs \/ SpuriousWakeup
  => TypeOK'
<1>DiskType.
    ASSUME NEW cur \in Names, NEW seq \in Nat, NEW bytes \in Nat,
           NEW open \in BOOLEAN, NEW opened \in SUBSET Names,
           NEW files \in [Names -> Seq(Data)]
    PROVE  [cur |-> cur, seq |-> seq, bytes |-> bytes, open |-> open,
            opened |-> opened, files |-> files] \in Disk
  BY Zenon, <1>DiskType DEF Disk
<1> SUFFICES ASSUME TypeOK, WriteDownLogs \/ SpuriousWakeup
             PROVE  TypeOK'
  BY Zenon
<1>a. writer \in [pc : WriterPcs, record : Data]
  BY Zenon DEF TypeOK
<1>b. Slot(read_index - 1) \in 0..(Size - 1)
  <2>1. read_index - 1 \in Int
    BY DEF TypeOK
  <2> QED
    BY Zenon, <2>1, SlotRange
<1>c. log_buffer \in [0..(Size - 1) -> [seq : Nat, data : Data]]
  BY Zenon DEF TypeOK
<1>d. <<>> \in Data
  BY Zenon DEF Data, Empty
\* The steps that only move the writer.
<1>1. CASE \/ TestStopping \/ TestPending \/ Flush \/ LockToSleep
           \/ RecheckStopping \/ Sleep \/ SpuriousWakeup \/ WakeUp
  <2>1. PICK pc \in WriterPcs : WriterGoto(pc)
    BY Zenon, <1>1 DEF TestStopping, TestPending, Flush, LockToSleep,
         RecheckStopping, Sleep, SpuriousWakeup, WakeUp, WriterPcs
  <2>2. writer' \in [pc : WriterPcs, record : Data]
    BY Zenon, <1>a, <2>1, WriterGotoEffect
  <2>3. UNCHANGED <<ring, flags, thread, disk, history>>
    BY Zenon, <1>1 DEF TestStopping, TestPending, Flush, LockToSleep,
         RecheckStopping, Sleep, SpuriousWakeup, WakeUp
  <2> QED
    BY Zenon, <2>2, <2>3 DEF TypeOK, ThreadOK, ring, flags, history
<1>2. CASE Dequeue
  <2>1. PICK pc \in {"take", "flush"} : WriterGoto(pc)
    BY Zenon, <1>2 DEF Dequeue
  <2>2. writer' \in [pc : WriterPcs, record : Data]
    BY Zenon, <1>a, <2>1, WriterGotoEffect DEF WriterPcs
  <2>3. read_index' \in Nat
    BY <1>2 DEF Dequeue, TypeOK
  <2> QED
    BY Zenon, <1>2, <2>2, <2>3 DEF Dequeue, TypeOK, ThreadOK, flags, history
<1>3. CASE TakeData
  <2>1. writer' \in [pc : WriterPcs, record : Data]
    BY Zenon, <1>3, <1>b, <1>c DEF TakeData, WriterPcs
  <2>2. log_buffer' \in [0..(Size - 1) -> [seq : Nat, data : Data]]
    BY Zenon, <1>3, <1>b, <1>c, <1>d DEF TakeData, Empty
  <2> QED
    BY Zenon, <1>3, <2>1, <2>2 DEF TakeData, TypeOK, ThreadOK, flags, history
<1>4. CASE ReleaseSlot
  <2>1. writer' \in [pc : WriterPcs, record : Data]
    BY Zenon, <1>4, <1>a, WriterGotoEffect DEF ReleaseSlot, WriterPcs
  <2>2. read_index - 1 + Size \in Nat
    BY Constants DEF TypeOK
  <2>3. log_buffer' \in [0..(Size - 1) -> [seq : Nat, data : Data]]
    BY Zenon, <1>4, <1>b, <1>c, <2>2 DEF ReleaseSlot
  <2> QED
    BY Zenon, <1>4, <2>1, <2>3 DEF ReleaseSlot, TypeOK, ThreadOK, flags, history
<1>5. CASE Discount
  <2>1. writer' \in [pc : WriterPcs, record : Data]
    BY Zenon, <1>5, <1>a, WriterGotoEffect DEF Discount, WriterPcs
  <2>2. pending' \in 0..(Span - 1)
    BY <1>5, Constants DEF Discount, TypeOK
  <2> QED
    BY Zenon, <1>5, <2>1, <2>2 DEF Discount, TypeOK, ThreadOK, flags, history
<1>6. CASE WriteRecord
  <2>1. writer' \in [pc : WriterPcs, record : Data]
    BY Zenon, <1>6, <1>d DEF WriteRecord, WriterPcs, Empty
  <2>2. disk' \in Disk /\ written' \in Seq(Data)
    <3>1. CASE ~ disk.open
      BY Zenon, <1>6, <3>1 DEF WriteRecord, TypeOK
    <3>2. CASE disk.open
      <4> DEFINE d == Rotate(disk)
      <4>1. d \in Disk
        <5> DEFINE name == NthFile(disk.seq + 1)
        <5>1. name \in Names /\ <<>> \in Seq(Data) /\ disk \in Disk
          BY Zenon, SeqEmpty DEF NthFile, Names, TypeOK
        <5>2. \/ d = disk
              \/ d = [disk EXCEPT !.seq = @ + 1, !.cur = name, !.bytes = 0,
                                  !.opened = @ \cup {name},
                                  !.files[name] = <<>>]
          BY Zenon DEF Rotate
        <5> HIDE DEF name, d
        <5>3. /\ disk.seq + 1 \in Nat /\ disk.opened \cup {name} \subseteq Names
              /\ [disk.files EXCEPT ![name] = <<>>] \in [Names -> Seq(Data)]
          BY <5>1 DEF Disk
        <5>4. ASSUME d # disk
              PROVE  d = [cur |-> name, seq |-> disk.seq + 1, bytes |-> 0,
                          open |-> disk.open,
                          opened |-> disk.opened \cup {name},
                          files |-> [disk.files EXCEPT ![name] = <<>>]]
          BY Zenon, <5>1, <5>2, <5>4 DEF Disk
        <5>5. disk.open \in BOOLEAN /\ 0 \in Nat
          BY Zenon, <5>1 DEF Disk
        <5>6. CASE d # disk
          <6>1. disk.opened \cup {name} \in SUBSET Names
            BY Zenon, <5>3
          <6>2. [cur |-> name, seq |-> disk.seq + 1, bytes |-> 0,
                 open |-> disk.open, opened |-> disk.opened \cup {name},
                 files |-> [disk.files EXCEPT ![name] = <<>>]] \in Disk
            BY Zenon, <5>1, <5>3, <5>5, <6>1, <1>DiskType
          <6> QED
            BY Zenon, <5>4, <5>6, <6>2
        <5> QED
          BY Zenon, <5>1, <5>6
      <4>2. disk' = [d EXCEPT !.files[d.cur] = Append(@, writer.record),
                              !.bytes = @ + 1]
            /\ written' = Append(written, writer.record)
        BY Zenon, <1>6, <3>2 DEF WriteRecord
      <4> HIDE DEF d
      <4>3. d.cur \in Names /\ d.files[d.cur] \in Seq(Data)
        BY Zenon, <4>1 DEF Disk
      <4>4. writer.record \in Data
        BY Zenon, <1>a
      <4>5. /\ Append(d.files[d.cur], writer.record) \in Seq(Data)
            /\ Append(written, writer.record) \in Seq(Data)
        BY Zenon, <4>3, <4>4, SeqAppend DEF TypeOK
      <4>6. disk' \in Disk
        <5>1. d.bytes + 1 \in Nat
          BY <4>1 DEF Disk
        <5> QED
          BY Zenon, <4>1, <4>2, <4>3, <4>5, <5>1 DEF Disk
      <4> QED
        BY Zenon, <4>2, <4>5, <4>6
    <3> QED
      BY Zenon, <3>1, <3>2
  <2> QED
    BY Zenon, <1>6, <2>1, <2>2 DEF WriteRecord, TypeOK, ThreadOK, ring, flags
<1> QED
  BY Zenon, <1>1, <1>2, <1>3, <1>4, <1>5, <1>6 DEF WriteDownLogs

\* Every variable has its type (Logger): in particular pending_ stays a
\* size_t, and every sequence number a slot holds is a position.
THEOREM TypeCorrect == Spec => []TypeOK
<1>1. TypeOK /\ [Next]_vars => TypeOK'
  <2> SUFFICES ASSUME TypeOK, [Next]_vars PROVE TypeOK'
    BY Zenon
  <2>1. CASE UNCHANGED vars
    BY Zenon, <2>1 DEF TypeOK, ThreadOK, vars, ring, flags, history
  <2>2. CASE Next
    BY Zenon, <2>1, <2>2, StartType, EnqueueType, EndType, WriterType
       DEF Next, Terminated
  <2> QED
    BY Zenon, <2>1, <2>2
<1> QED
  BY <1>1, InitType, PTL DEF Spec

-----------------------------------------------------------------------------
(***************************************************************************)
(* A step of a caller leaves the other callers where they are.             *)
(***************************************************************************)

LEMMA StartOthers ==
  ASSUME ThreadOK, NEW t \in Callers, GetLogger(t) \/ Start(t)
  PROVE  \A u \in Callers \ {t} : thread'[u] = thread[u]
<1>1. CASE GetLogger(t)
  BY Zenon, <1>1 DEF GetLogger, ThreadOK
<1>2. ASSUME NEW pc, Goto(t, pc)
      PROVE  \A u \in Callers \ {t} : thread'[u] = thread[u]
  BY Zenon, <1>2 DEF Goto, ThreadOK
<1>3. CASE Start(t)
  <2>1. \E pc : Goto(t, pc)
    BY Zenon, <1>3 DEF Start, CheckInitialized, StartLogger, SpawnWriter
  <2> QED
    BY Zenon, <1>2, <2>1
<1> QED
  BY Zenon, <1>1, <1>3

LEMMA EnqueueOthers ==
  ASSUME ThreadOK, NEW p \in Producers, Enqueue(p) \/ ClaimFails(p)
  PROVE  \A u \in Callers \ {p} : thread'[u] = thread[u]
<1>1. ASSUME NEW pc, Goto(p, pc)
      PROVE  \A u \in Callers \ {p} : thread'[u] = thread[u]
  BY Zenon, <1>1 DEF Goto, ThreadOK
<1>2. ASSUME NEW pc, NEW pos, GotoWith(p, pc, pos)
      PROVE  \A u \in Callers \ {p} : thread'[u] = thread[u]
  BY Zenon, <1>2 DEF GotoWith, ThreadOK
<1>3. (\E pc : Goto(p, pc)) \/ (\E pc, pos : GotoWith(p, pc, pos))
  BY Zenon DEF Enqueue, LoadWriteIndex, LoadSlot, Claim, ClaimFails, StoreData,
         Publish, Count, Notify
<1> QED
  BY Zenon, <1>1, <1>2, <1>3

LEMMA EndOthers ==
  ASSUME ThreadOK, EndLogger
  PROVE  \A p \in Producers : thread'[p] = thread[p]
<1>1. ASSUME NEW pc, Goto(Main, pc)
      PROVE  \A p \in Producers : thread'[p] = thread[p]
  BY Zenon, <1>1, LoggerAssumption DEF Goto, ThreadOK, Callers
<1>2. \E pc : Goto(Main, pc)
  BY Zenon DEF EndLogger, StoreStopping, NotifyStopping, Join, CloseFile
<1> QED
  BY Zenon, <1>1, <1>2

-----------------------------------------------------------------------------
(***************************************************************************)
(* No wake-up is lost.                                                     *)
(***************************************************************************)

\* The writer is blocked with a positive count only while a producer is on
\* its way to notify it, however the steps of Enqueue and of WriteDownLogs
\* interleave and whenever END_LOG is called.
THEOREM NoLostWakeup == Spec => []SleepsOnlyWhenIdle
<1>1. Init => SleepsOnlyWhenIdle
  BY Zenon DEF Init, SleepsOnlyWhenIdle
<1>2. TypeOK /\ SleepsOnlyWhenIdle /\ [Next]_vars => SleepsOnlyWhenIdle'
  <2> SUFFICES ASSUME TypeOK, SleepsOnlyWhenIdle, [Next]_vars,
                      writer'.pc = "waiting", pending' # 0
               PROVE  \E p \in Producers : thread'[p].pc = "notify"
    BY Zenon DEF SleepsOnlyWhenIdle
  <2>a. ThreadOK /\ writer \in [pc : WriterPcs, record : Data]
        /\ Producers \subseteq Callers
    BY Zenon DEF TypeOK, Callers
  \* It is enough that the writer slept already, that the count was positive
  \* and that no producer has left Notify.
  <2>b. ASSUME writer.pc = "waiting", pending # 0,
               \A p \in Producers :
                 thread[p].pc = "notify" => thread'[p] = thread[p]
        PROVE  \E p \in Producers : thread'[p].pc = "notify"
    BY Zenon, <2>b DEF SleepsOnlyWhenIdle
  <2>1. ASSUME NEW t \in Callers, GetLogger(t) \/ Start(t)
        PROVE  \E p \in Producers : thread'[p].pc = "notify"
    <3>1. thread[t].pc # "notify"
      BY Zenon, <2>1 DEF GetLogger, Start, CheckInitialized, StartLogger, SpawnWriter
    <3>2. writer' = writer
      BY Zenon, <2>1, <2>a DEF GetLogger, Start, CheckInitialized, StartLogger,
                        SpawnWriter
    <3>3. pending' = pending \/ pending' = 0
      BY Zenon, <2>1 DEF GetLogger, Start, CheckInitialized, StartLogger,
                  SpawnWriter, ring
    <3> QED
      BY Zenon, <2>1, <2>a, <2>b, <3>1, <3>2, <3>3, StartOthers
  <2>2. ASSUME NEW p \in Producers, Enqueue(p) \/ ClaimFails(p)
        PROVE  \E q \in Producers : thread'[q].pc = "notify"
    <3>1. CASE Notify(p)
      BY Zenon, <2>a, <3>1, NotifyEffect DEF Notify
    <3>2. CASE Count(p)
      <4>1. CASE pending = 0
        BY Zenon, <2>a, <3>2, <4>1, GotoEffect DEF Count, ThreadOK, ThreadPcs,
                                            EnqueuePcs
      <4>2. CASE pending # 0
        <5>1. thread[p].pc # "notify" /\ writer' = writer
          BY Zenon, <3>2 DEF Count
        <5> QED
          BY Zenon, <2>2, <2>a, <2>b, <4>2, <5>1, EnqueueOthers
      <4> QED
        BY Zenon, <4>1, <4>2
    <3>3. CASE \/ LoadWriteIndex(p) \/ LoadSlot(p) \/ Claim(p)
               \/ StoreData(p) \/ Publish(p) \/ ClaimFails(p)
      <4>1. thread[p].pc # "notify" /\ writer' = writer /\ pending' = pending
        BY Zenon, <3>3 DEF LoadWriteIndex, LoadSlot, Claim, StoreData, Publish,
                    ClaimFails, ring
      <4> QED
        BY Zenon, <2>2, <2>a, <2>b, <4>1, EnqueueOthers
    <3> QED
      BY Zenon, <2>2, <3>1, <3>2, <3>3 DEF Enqueue
  <2>3. CASE EndLogger
    <3>1. writer.pc = "waiting" /\ pending' = pending
      BY Zenon, <2>3, <2>a, NotifyEffect, WriterGotoEffect
         DEF EndLogger, StoreStopping, NotifyStopping, Join, CloseFile, ring,
             WriterPcs
    <3> QED
      BY Zenon, <2>3, <2>a, <2>b, <3>1, EndOthers
  <2>4. CASE WriteDownLogs \/ SpuriousWakeup
    <3>1. CASE Sleep
      BY Zenon, <2>a, <3>1, WriterGotoEffect DEF Sleep, WriterPcs, ring
    <3>2. CASE TakeData \/ WriteRecord
      BY <3>2 DEF TakeData, WriteRecord
    <3>3. ASSUME NEW pc \in WriterPcs \ {"waiting"}, WriterGoto(pc)
          PROVE  FALSE
      BY Zenon, <2>a, <3>3, WriterGotoEffect
    <3> QED
      BY Zenon, <2>4, <3>1, <3>2, <3>3
         DEF WriteDownLogs, TestStopping, TestPending, Dequeue, ReleaseSlot,
             Discount, Flush, LockToSleep, RecheckStopping, WakeUp,
             SpuriousWakeup, WriterPcs
  <2>5. CASE UNCHANGED vars
    BY Zenon, <2>5 DEF vars, ring, SleepsOnlyWhenIdle
  <2> QED
    BY Zenon, <2>1, <2>2, <2>3, <2>4, <2>5 DEF Next, Terminated
<1> QED
  BY <1>1, <1>2, TypeCorrect, PTL DEF Spec

-----------------------------------------------------------------------------
(***************************************************************************)
(* The files.                                                              *)
(***************************************************************************)

\* The log so far ends with s.
EndsWith(s) == \E u \in Seq(Data) : written = u \o s

\* The files f and the current one have the end of the log.
KeptIn(f) ==
  LET kept == disk.files[f] \o disk.files[disk.cur]
  IN /\ EndsWith(kept)
     /\ kept = written \/ Len(kept) > FileBytes

\* The count of bytes is that of the current file, except that a restart does
\* not reset it; the file that comes next is never the current one.
DiskInv ==
  /\ disk.cur \in {"base", NthFile(disk.seq)}
  /\ written = disk.files[disk.cur] \/ Len(disk.files[disk.cur]) = disk.bytes
  /\ written = disk.files[disk.cur] \/ \E f \in Names \ {disk.cur} : KeptIn(f)

\* However often the log rotates and the logger is started again, the current
\* file and the one before it hold the end of the log: Rotate never empties
\* the file that was written last.
THEOREM RecentLogs ==
                      Spec => []RecentLogsKept
<1>DiskInvKeeps.
    TypeOK /\ DiskInv => RecentLogsKept
  <2> SUFFICES ASSUME TypeOK, NEW f \in Names \ {disk.cur}, KeptIn(f)
               PROVE  RecentLogsKept
    BY Zenon DEF DiskInv, RecentLogsKept
  <2> DEFINE s == disk.files[f] \o disk.files[disk.cur]
  <2>1. written \in Seq(Data) /\ s \in Seq(Data)
    BY Zenon, SeqConcat DEF TypeOK, Disk
  <2>2. PICK u \in Seq(Data) : written = u \o s
    BY Zenon DEF KeptIn, EndsWith
  <2>3. s = written \/ Len(s) > FileBytes
    BY Zenon DEF KeptIn
  <2> HIDE DEF s
  <2>4. /\ Len(s) \in Nat /\ Len(u) \in Nat /\ Len(written) = Len(u) + Len(s)
        /\ \A i \in 1..Len(written) :
             written[i] = IF i <= Len(u) THEN u[i] ELSE s[i - Len(u)]
    BY <2>1, <2>2, SeqConcat, SeqLen
  <2> DEFINE m == Len(written) - Len(s) + 1
             t == SubSeq(written, m, Len(written))
  <2>5. m \in Int /\ Len(written) \in Int /\ m = Len(u) + 1
    BY <2>4
  <2>6. \A i \in m..Len(written) : written[i] \in Data
    <3>1. \A i \in m..Len(written) : i \in 1..Len(written)
      BY <2>4, <2>5
    <3> QED
      BY Zenon, <3>1, <2>1, SeqElement
  <2>7. /\ t \in Seq(Data)
        /\ Len(t) = IF m <= Len(written) THEN Len(written) - m + 1 ELSE 0
        /\ \A i \in 1 .. Len(written) - m + 1 : t[i] = written[m + i - 1]
    BY <2>5, <2>6, SeqSub
  <2>8. Len(t) = Len(s)
    BY <2>4, <2>5, <2>7
  <2>9. ASSUME NEW i \in 1..Len(s)
        PROVE  s[i] = t[i]
    <3>1. i \in 1 .. Len(written) - m + 1 /\ m + i - 1 = Len(u) + i
      BY <2>4, <2>5
    <3>2. /\ Len(u) + i \in 1..Len(written) /\ ~ (Len(u) + i <= Len(u))
          /\ Len(u) + i - Len(u) = i
      BY <2>4
    <3>3. t[i] = written[Len(u) + i]
      BY Zenon, <2>7, <3>1
    <3>4. written[Len(u) + i] = s[Len(u) + i - Len(u)]
      BY <2>4, <3>2
    <3> QED
      BY Zenon, <3>2, <3>3, <3>4
  <2>10. s = t
    BY Zenon, <2>1, <2>7, <2>8, <2>9, SeqSame
  <2>11. Len(s) <= Len(written)
    BY <2>4
  <2> QED
    BY Zenon, <2>3, <2>10, <2>11 DEF s, RecentLogsKept
\* NthFile alternates.
<1>NextFileDiffers.
    ASSUME NEW n \in Nat
    PROVE  NthFile(n + 1) \notin {"base", NthFile(n)}
  BY <1>NextFileDiffers DEF NthFile
<1>EndsWithAppend.
    ASSUME TypeOK, NEW s \in Seq(Data), NEW x \in Data, EndsWith(s),
           written' = Append(written, x)
    PROVE  EndsWith(Append(s, x))'
  <2> USE <1>EndsWithAppend
  <2>1. PICK u \in Seq(Data) : written = u \o s
    BY Zenon DEF EndsWith
  <2>2. <<x>> \in Seq(Data)
    OBVIOUS
  <2>3. written' = (u \o s) \o <<x>> /\ Append(s, x) = s \o <<x>>
    BY Zenon, <2>1, SeqAppendConcat DEF TypeOK
  <2>4. written' = u \o Append(s, x)
    BY <2>2, <2>3, SeqAssoc
  <2> QED
    BY Zenon, <2>4 DEF EndsWith
\* A file that is the whole log so far, or has as many bytes as make it
\* full, holds the end of the log together with the file that follows it.
<1>WriteKeeps.
    ASSUME TypeOK, DiskInv, WriteRecord, disk.open
    PROVE  DiskInv'
  <2> USE <1>WriteKeeps
  <2> DEFINE d == Rotate(disk)
  <2>2. disk \in Disk /\ writer.record \in Data /\ written \in Seq(Data)
    BY Zenon DEF TypeOK
  <2>3. disk.cur \in Names /\ \A f \in Names : disk.files[f] \in Seq(Data)
    BY Zenon, <2>2 DEF Disk
  <2>x. PICK x \in Data : x = writer.record
    BY Zenon, <2>2
  <2>o. PICK old \in Seq(Data) : old = disk.files[disk.cur]
    BY Zenon, <2>3
  <2>1. /\ disk' = [d EXCEPT !.files[d.cur] = Append(@, x), !.bytes = @ + 1]
        /\ written' = Append(written, x)
    BY Zenon, <2>x DEF WriteRecord
  <2>4. /\ Append(old, x) \in Seq(Data) /\ Len(Append(old, x)) = Len(old) + 1
        /\ Append(old, x) = old \o <<x>> /\ <<x>> \in Seq(Data)
        /\ Len(old) \in Nat
    BY SeqAppend, SeqAppendConcat, SeqLen
  <2>5. CASE disk.bytes < FileBytes
    <3>1. d = disk
      BY Zenon, <2>5 DEF Rotate
    <3>2. /\ disk'.cur = disk.cur /\ disk'.seq = disk.seq
          /\ disk'.bytes = disk.bytes + 1
          /\ disk'.files[disk.cur] = Append(old, x)
          /\ \A f \in Names \ {disk.cur} : disk'.files[f] = disk.files[f]
      BY Zenon, <2>1, <2>2, <2>3, <2>o, <3>1 DEF Disk
    <3>3. written = old => written' = disk'.files[disk'.cur]
      BY Zenon, <2>1, <3>2
    <3>4. Len(old) = disk.bytes => Len(disk'.files[disk'.cur]) = disk'.bytes
      BY Zenon, <2>4, <3>2
    <3>5. ASSUME NEW f \in Names \ {disk.cur}, KeptIn(f)
          PROVE  KeptIn(f)'
      <4>f. PICK first \in Seq(Data) : first = disk.files[f]
        BY Zenon, <2>3
      <4>k. PICK kept \in Seq(Data) : kept = first \o old
        BY Zenon, SeqConcat
      <4>1. /\ Append(kept, x) = kept \o <<x>> /\ Len(kept) \in Nat
            /\ Len(Append(kept, x)) = Len(kept) + 1
        BY SeqAppend, SeqAppendConcat, SeqLen
      <4>2. first \o (old \o <<x>>) = kept \o <<x>>
        BY <2>4, <4>k, SeqAssoc
      <4>3. disk'.files[f] \o disk'.files[disk'.cur] = Append(kept, x)
        BY Zenon, <2>4, <3>2, <4>f, <4>1, <4>2
      <4>4. EndsWith(kept) /\ (kept = written \/ Len(kept) > FileBytes)
        BY Zenon, <2>o, <3>5, <4>f, <4>k DEF KeptIn
      <4>5. EndsWith(Append(kept, x))'
        BY Zenon, <2>1, <4>4, <1>EndsWithAppend
      <4>6. Append(kept, x) = written' \/ Len(Append(kept, x)) > FileBytes
        BY <2>1, <4>1, <4>4, Constants
      <4> QED
        BY Zenon, <4>3, <4>5, <4>6 DEF KeptIn, EndsWith
    <3> QED
      BY Zenon, <2>o, <3>2, <3>3, <3>4, <3>5 DEF DiskInv
  <2>6. CASE ~ disk.bytes < FileBytes
    <3> DEFINE name == NthFile(disk.seq + 1)
    <3>1. d = [disk EXCEPT !.seq = @ + 1, !.cur = name, !.bytes = 0,
                           !.opened = @ \cup {name}, !.files[name] = <<>>]
      BY Zenon, <2>6 DEF Rotate
    <3>2. name \in Names /\ name # disk.cur
      BY Zenon, <2>2, <1>NextFileDiffers DEF DiskInv, Disk, NthFile, Names
    <3> HIDE DEF name
    <3>3. /\ d.cur = name /\ d.seq = disk.seq + 1 /\ d.bytes = 0
          /\ d.files = [disk.files EXCEPT ![name] = <<>>]
      BY Zenon, <2>2, <3>1, <3>2 DEF Disk
    <3>4. /\ disk'.cur = name /\ disk'.seq = disk.seq + 1
          /\ disk'.bytes = 1
          /\ disk'.files = [d.files EXCEPT ![name] = Append(<<>>, x)]
      <4> HIDE DEF d
      <4>1. d.files[name] = <<>>
        BY Zenon, <2>2, <3>2, <3>3 DEF Disk
      <4>2. DOMAIN d = {"cur", "seq", "bytes", "open", "opened", "files"}
        BY Zenon, <2>2, <3>1 DEF d, Disk
      <4> QED
        BY <2>1, <3>3, <4>1, <4>2
    <3>5. Len(disk'.files[name]) = 1 /\ disk'.files[name] = <<x>>
          /\ disk'.files[disk.cur] = old
      BY <2>2, <2>3, <2>o, <3>2, <3>3, <3>4 DEF Disk
    <3>6. EndsWith(old) /\ (old = written \/ Len(old) >= FileBytes)
      <4>1. CASE written = old
        <5>1. written = <<>> \o old /\ <<>> \in Seq(Data)
          BY Zenon, <4>1, SeqConcatEmpty, SeqEmpty
        <5> QED
          BY Zenon, <4>1, <5>1 DEF EndsWith
      <4>2. CASE written # old
        <5>1. PICK f \in Names \ {disk.cur} : KeptIn(f)
          BY Zenon, <2>o, <4>2 DEF DiskInv
        <5>2. PICK first \in Seq(Data) : first = disk.files[f]
          BY Zenon, <2>3
        <5>3. PICK u \in Seq(Data) : written = u \o (first \o old)
          BY Zenon, <2>o, <5>1, <5>2 DEF KeptIn, EndsWith
        <5>4. written = (u \o first) \o old /\ u \o first \in Seq(Data)
          <6>1. u \o (first \o old) = (u \o first) \o old
            OBVIOUS
          <6>2. u \o first \in Seq(Data)
            BY Zenon, SeqConcat
          <6> QED
            BY Zenon, <5>3, <6>1, <6>2
        <5>5. Len(old) >= FileBytes
          BY <2>2, <2>6, <2>o, <4>2, Constants DEF DiskInv, Disk
        <5> QED
          BY Zenon, <5>4, <5>5 DEF EndsWith
      <4> QED
        BY Zenon, <4>1, <4>2
    <3>c. PICK c \in Names : c = disk.cur
      BY Zenon, <2>3
    <3>7. KeptIn(c)'
      <4>1. disk'.files[c] \o disk'.files[disk'.cur] = Append(old, x)
        BY Zenon, <2>4, <3>c, <3>4, <3>5
      <4>2. EndsWith(Append(old, x))'
        BY Zenon, <2>1, <3>6, <1>EndsWithAppend
      <4>3. Append(old, x) = written' \/ Len(Append(old, x)) > FileBytes
        BY <2>1, <2>4, <3>6, Constants
      <4> QED
        BY Zenon, <4>1, <4>2, <4>3 DEF KeptIn, EndsWith
    <3> QED
      BY Zenon, <3>c, <3>2, <3>4, <3>5, <3>7 DEF DiskInv, name
  <2> QED
    BY Zenon, <2>5, <2>6
<1>1. Init => DiskInv
  BY DEF Init, DiskInv, Names
<1>2. TypeOK /\ DiskInv /\ [Next]_vars => DiskInv'
  <2> SUFFICES ASSUME TypeOK, DiskInv, [Next]_vars PROVE DiskInv'
    BY Zenon
  <2>a. disk \in Disk
    BY Zenon DEF TypeOK
  <2>1. ASSUME UNCHANGED <<disk, written>> PROVE DiskInv'
    BY Zenon, <2>1 DEF DiskInv, KeptIn, EndsWith
  <2>2. ASSUME NEW t \in Callers, GetLogger(t) \/ Start(t) PROVE DiskInv'
    <3>1. CASE \/ GetLogger(t) \/ CheckInitialized(t) \/ SpawnWriter(t)
      BY Zenon, <2>1, <3>1 DEF GetLogger, CheckInitialized, SpawnWriter, history
    <3>2. ASSUME NEW fails \in {FALSE, OpenFails}, StartLogger(t, fails)
          PROVE  DiskInv'
      <4>1. CASE is_initialized
        BY Zenon, <2>1, <3>2, <4>1 DEF StartLogger, history
      <4>2. CASE ~ is_initialized
        <5>1. PICK name \in {"base", NthFile(disk.seq)} :
                disk' = [disk EXCEPT !.cur = name, !.files[name] = <<>>,
                                     !.opened = @ \cup {name}, !.open = TRUE]
          BY Zenon, <3>2, <4>2 DEF StartLogger
        <5>2. name \in Names
          BY Zenon DEF NthFile, Names
        <5>3. /\ disk'.cur = name /\ disk'.seq = disk.seq
              /\ disk'.files[name] = <<>>
          BY Zenon, <2>a, <5>1, <5>2 DEF Disk
        <5>4. written' = <<>>
          BY Zenon, <3>2, <4>2 DEF StartLogger
        <5> QED
          BY Zenon, <5>1, <5>3, <5>4 DEF DiskInv
      <4> QED
        BY Zenon, <4>1, <4>2
    <3> QED
      BY Zenon, <2>2, <3>1, <3>2 DEF Start
  <2>3. ASSUME NEW p \in Producers, Enqueue(p) \/ ClaimFails(p) PROVE DiskInv'
    BY Zenon, <2>1, <2>3
       DEF Enqueue, LoadWriteIndex, LoadSlot, Claim, StoreData, Publish,
           Count, Notify, ClaimFails, history
  <2>4. CASE StoreStopping \/ NotifyStopping \/ Join
    BY Zenon, <2>1, <2>4 DEF StoreStopping, NotifyStopping, Join, history
  <2>5. CASE CloseFile
    <3>1. /\ disk'.cur = disk.cur /\ disk'.seq = disk.seq
          /\ disk'.bytes = disk.bytes /\ disk'.files = disk.files
          /\ written' = written
      BY Zenon, <2>a, <2>5 DEF CloseFile, Disk, history
    <3> QED
      BY Zenon, <3>1 DEF DiskInv, KeptIn, EndsWith
  <2>6. CASE WriteRecord
    BY Zenon, <2>1, <2>6, <1>WriteKeeps DEF WriteRecord
  <2>7. CASE SpuriousWakeup \/ (WriteDownLogs /\ ~ WriteRecord)
    BY Zenon, <2>1, <2>7
       DEF SpuriousWakeup, WriteDownLogs, TestStopping, TestPending, Dequeue,
           TakeData, ReleaseSlot, Discount, Flush, LockToSleep,
           RecheckStopping, Sleep, WakeUp, history
  <2>8. CASE UNCHANGED vars
    BY Zenon, <2>1, <2>8 DEF vars, history
  <2> QED
    BY Zenon, <2>2, <2>3, <2>4, <2>5, <2>6, <2>7, <2>8
       DEF Next, Terminated, EndLogger
<1>3. TypeOK /\ DiskInv => RecentLogsKept
  BY Zenon, <1>DiskInvKeeps
<1> QED
  BY <1>1, <1>2, <1>3, TypeCorrect, PTL DEF Spec
-----------------------------------------------------------------------------
(***************************************************************************)
(* The inductive invariant.                                                *)
(***************************************************************************)

\* Who is where while the logger is started, runs and is ended.
Phase ==
  /\ thread[Main].pc # "idle" => \A p \in Producers : thread[p].pc = "idle"
  /\ ~ is_initialized =>
       /\ writer.pc = "none"
       /\ \A t \in Callers : thread[t].pc \in {"idle", "check", "lock"}
  /\ is_initialized => disk.open
  /\ \A t \in Callers :
       thread[t].pc = "spawn" =>
         /\ writer.pc = "none"
         /\ \A u \in Callers : thread[u].pc = "spawn" => u = t
  /\ is_initialized /\ writer.pc = "none" =>
       thread[Main].pc = "close" \/ \E t \in Callers : thread[t].pc = "spawn"
  /\ is_initialized /\ is_stopping =>
       thread[Main].pc \in {"wake", "join", "close"}
  /\ writer.pc \in {"pending", "done"} => is_stopping
  /\ thread[Main].pc = "close" => writer.pc = "none"

Storing(p) == thread[p].pc \in {"data", "publish"}
SlotOf(pos) == log_buffer[Slot(pos)]

\* The positions in use are Released .. write_index - 1, at most Size of them.
Window ==
  /\ read_index <= write_index
  /\ write_index <= Released + Size
  /\ writer.pc \in {"take", "release", "sub", "write"} => read_index >= 1
  /\ Len(claimed) = write_index

\* What a producer knows of the position it has loaded.
Position(p) ==
  /\ thread[p].pc \in {"slot", "cas"} => thread[p].pos <= write_index
  /\ thread[p].pc = "cas" /\ thread[p].pos = write_index =>
       write_index < Released + Size
  /\ Storing(p) =>
       /\ read_index <= thread[p].pos /\ thread[p].pos < write_index
       /\ claimed[thread[p].pos + 1] = Record(p)
       /\ SlotOf(thread[p].pos).seq = thread[p].pos
       /\ thread[p].pc = "publish" => SlotOf(thread[p].pos).data = Record(p)

PositionsDiffer ==
  \A p, q \in Producers :
    p # q /\ Storing(p) /\ Storing(q) => thread[p].pos # thread[q].pos

\* A claimed position is being stored, or its slot holds the record; the
\* slots of the positions to come are free.
Filled(i) ==
  \/ \E p \in Producers : Storing(p) /\ thread[p].pos = i
  \/ SlotOf(i).seq = i + 1 /\ SlotOf(i).data = claimed[i + 1]

Slots ==
  /\ \A i \in Nat : read_index <= i /\ i < write_index => Filled(i)
  /\ \A i \in Nat : write_index <= i /\ i < Released + Size =>
       SlotOf(i).seq = i

\* The position the writer has taken, and the record in its hands.
Taken ==
  /\ writer.pc \in {"take", "release"} =>
       SlotOf(read_index - 1).seq = read_index
  /\ writer.pc = "take" => SlotOf(read_index - 1).data = claimed[read_index]
  /\ writer.pc \in {"release", "sub", "write"} =>
       writer.record = claimed[read_index]

InHand == IF writer.pc \in {"take", "release", "sub", "write"} THEN 1 ELSE 0

\* The records the writer has finished with are in the log.
Logged ==
  /\ Len(written) = read_index - InHand
  /\ \A i \in 1..Len(written) : written[i] = claimed[i]

Ring ==
  /\ Window
  /\ \A p \in Producers : Position(p)
  /\ PositionsDiffer
  /\ Slots
  /\ Taken

-----------------------------------------------------------------------------
(***************************************************************************)
(* The phases of the logger.                                               *)
(***************************************************************************)

LEMMA StartPhase ==
  ASSUME EndEarly = FALSE, TypeOK, Phase, NEW t \in Callers,
         GetLogger(t) \/ Start(t)
  PROVE  Phase'
<1>a. ThreadOK /\ writer \in [pc : WriterPcs, record : Data] /\ disk \in Disk
  BY Zenon DEF TypeOK
<1>b. \A u \in Callers \ {t} : thread'[u] = thread[u]
  BY Zenon, <1>a, StartOthers
<1>c. Main \notin Producers
  BY Zenon, LoggerAssumption
<1>d. AfterStart(t) \in ThreadPcs /\ "lock" \in ThreadPcs
      /\ "spawn" \in ThreadPcs
  BY Zenon DEF AfterStart, ThreadPcs, EndPcs, EnqueuePcs, StartPcs
<1>e. ASSUME NEW pc \in ThreadPcs, Goto(t, pc) PROVE thread'[t].pc = pc
  BY Zenon, <1>a, <1>e, GotoEffect DEF ThreadOK
<1>1. CASE GetLogger(t)
  <2>1. thread[t].pc = "idle" /\ thread'[t].pc = "check"
    BY Zenon, <1>1, <1>a DEF GetLogger, ThreadOK, Thread
  <2>2. UNCHANGED <<is_initialized, is_stopping, writer, disk>>
    BY Zenon, <1>1 DEF GetLogger, flags
  <2>3. IF t = Main THEN \A p \in Producers : thread[p].pc = "idle"
        ELSE thread[Main].pc = "idle"
    BY Zenon, <1>1 DEF GetLogger
  <2> QED
    BY Zenon, <1>b, <1>c, <2>1, <2>2, <2>3 DEF Phase, Callers
<1>2. CASE CheckInitialized(t)
  <2>1. thread[t].pc = "check"
        /\ thread'[t].pc = IF is_initialized THEN AfterStart(t) ELSE "lock"
    BY Zenon, <1>2, <1>d, <1>e DEF CheckInitialized
  <2>2. UNCHANGED <<is_initialized, is_stopping, writer, disk>>
    BY Zenon, <1>2 DEF CheckInitialized, flags
  <2>3. /\ thread'[t].pc \in {"stop", "load", "lock"}
        /\ ~ is_initialized => thread'[t].pc = "lock"
    BY Zenon, <2>1 DEF AfterStart
  <2> QED
    BY Zenon, <1>b, <1>c, <2>1, <2>2, <2>3 DEF Phase, Callers
<1>3. CASE SpawnWriter(t)
  <2>1. thread[t].pc = "spawn" /\ thread'[t].pc = AfterStart(t)
    BY Zenon, <1>3, <1>d, <1>e DEF SpawnWriter
  <2>2. UNCHANGED <<is_initialized, is_stopping, disk>>
        /\ writer'.pc = "test"
    BY Zenon, <1>3, <1>a DEF SpawnWriter, flags
  <2>3. thread'[t].pc \in {"stop", "load"}
    BY Zenon, <2>1 DEF AfterStart
  <2> QED
    BY Zenon, <1>b, <1>c, <2>1, <2>2, <2>3 DEF Phase, Callers
<1>4. ASSUME NEW fails \in {FALSE, OpenFails}, StartLogger(t, fails)
      PROVE  Phase'
  <2>1. CASE is_initialized
    <3>1. thread[t].pc = "lock" /\ thread'[t].pc = AfterStart(t)
      BY Zenon, <1>4, <1>d, <1>e, <2>1 DEF StartLogger
    <3>2. UNCHANGED <<is_initialized, is_stopping, writer, disk>>
      BY Zenon, <1>4, <2>1 DEF StartLogger, flags
    <3> QED
      BY Zenon, <1>b, <1>c, <2>1, <3>1, <3>2 DEF Phase, Callers, AfterStart
  <2>2. CASE ~ is_initialized
    <3>1. thread[t].pc = "lock" /\ thread'[t].pc = "spawn"
      BY Zenon, <1>4, <1>d, <1>e, <2>2 DEF StartLogger
    <3>2. is_initialized' /\ ~ is_stopping' /\ writer' = writer /\ disk'.open
      <4>1. \E name : disk' = [disk EXCEPT !.cur = name, !.files[name] = <<>>,
                                 !.opened = @ \cup {name}, !.open = TRUE]
        BY Zenon, <1>4, <2>2 DEF StartLogger
      <4>2. disk'.open
        BY Zenon, <1>a, <4>1 DEF Disk
      <4> QED
        BY Zenon, <1>4, <2>2, <4>2 DEF StartLogger
    <3> QED
      BY <1>b, <1>c, <2>2, <3>1, <3>2 DEF Phase, Callers
  <2> QED
    BY Zenon, <2>1, <2>2
<1> QED
  BY Zenon, <1>1, <1>2, <1>3, <1>4 DEF Start

LEMMA EnqueuePhase ==
  ASSUME TypeOK, Phase, NEW p \in Producers, Enqueue(p) \/ ClaimFails(p)
  PROVE  Phase'
<1>a. ThreadOK /\ writer \in [pc : WriterPcs, record : Data] /\ p \in Callers
      /\ p # Main /\ Main \in Callers /\ Producers \subseteq Callers
  BY Zenon, LoggerAssumption DEF TypeOK, Callers
<1>b. \A u \in Callers \ {p} : thread'[u] = thread[u]
  BY Zenon, <1>a, EnqueueOthers
<1>c. thread[p].pc \in EnqueuePcs
  BY Zenon DEF Enqueue, ClaimFails, LoadWriteIndex, LoadSlot, Claim, StoreData,
         Publish, Count, Notify, EnqueuePcs
<1>d. thread'[p].pc \in EnqueuePcs \cup {"idle"}
  <2>1. \/ \E pc \in EnqueuePcs \cup {"idle"} : Goto(p, pc)
        \/ \E pc \in EnqueuePcs, pos \in Nat : GotoWith(p, pc, pos)
    BY Zenon DEF Enqueue, ClaimFails, LoadWriteIndex, LoadSlot, Claim, StoreData,
           Publish, Count, Notify, EnqueuePcs, TypeOK
  <2>2. EnqueuePcs \cup {"idle"} \subseteq ThreadPcs
    BY Zenon DEF ThreadPcs, EnqueuePcs, StartPcs
  <2> QED
    BY <1>a, <2>1, <2>2, GotoEffect, GotoWithEffect DEF ThreadOK
<1>e. UNCHANGED <<is_initialized, is_stopping, disk>>
  BY Zenon DEF Enqueue, ClaimFails, LoadWriteIndex, LoadSlot, Claim, StoreData,
         Publish, Count, Notify, flags
<1>f. writer' = writer \/ (writer.pc = "waiting" /\ writer'.pc = "woken")
  <2>1. writer' = writer \/ NotifyOne
    BY Zenon DEF Enqueue, ClaimFails, LoadWriteIndex, LoadSlot, Claim, StoreData,
           Publish, Count, Notify
  <2> QED
    BY Zenon, <1>a, <2>1, NotifyEffect
<1>g. is_initialized /\ thread[Main].pc = "idle"
  BY Zenon, <1>a, <1>c DEF Phase, EnqueuePcs
<1>h. \A u \in Callers : thread'[u].pc = "spawn" <=> thread[u].pc = "spawn"
  BY Zenon, <1>b, <1>c, <1>d DEF EnqueuePcs
<1> QED
  BY Zenon, <1>a, <1>b, <1>e, <1>f, <1>g, <1>h DEF Phase

LEMMA EndPhase ==
  ASSUME TypeOK, Phase, EndLogger
  PROVE  Phase'
<1>a. ThreadOK /\ writer \in [pc : WriterPcs, record : Data] /\ disk \in Disk
      /\ Main \in Callers
  BY Zenon DEF TypeOK, Callers
<1>b. \A p \in Producers : thread'[p] = thread[p]
  BY Zenon, <1>a, EndOthers
<1>c. {"wake", "join", "close", "idle"} \subseteq ThreadPcs
  BY Zenon DEF ThreadPcs, EndPcs, StartPcs
<1>d. ASSUME NEW pc \in {"wake", "join", "close", "idle"}, Goto(Main, pc)
      PROVE  thread'[Main].pc = pc
  BY Zenon, <1>a, <1>c, <1>d, GotoEffect DEF ThreadOK
<1>1. CASE StoreStopping
  <2>1. thread[Main].pc = "stop" /\ thread'[Main].pc = "wake" /\ is_stopping'
        /\ UNCHANGED <<is_initialized, writer, disk>>
    BY Zenon, <1>1, <1>d DEF StoreStopping
  <2> QED
    BY Zenon, <1>b, <2>1 DEF Phase, Callers
<1>2. CASE NotifyStopping
  <2>1. thread[Main].pc = "wake" /\ thread'[Main].pc = "join"
        /\ UNCHANGED <<is_initialized, is_stopping, disk>>
    BY Zenon, <1>2, <1>d DEF NotifyStopping, flags
  <2>2. writer' = writer \/ (writer.pc = "waiting" /\ writer'.pc = "woken")
    BY Zenon, <1>2, <1>a, NotifyEffect DEF NotifyStopping
  <2> QED
    BY Zenon, <1>b, <2>1, <2>2 DEF Phase, Callers
<1>3. CASE Join
  <2>1. thread[Main].pc = "join" /\ thread'[Main].pc = "close"
        /\ UNCHANGED <<is_initialized, is_stopping, disk>>
    BY Zenon, <1>3, <1>d DEF Join, flags
  <2>2. writer'.pc = "none"
    BY Zenon, <1>3, <1>a, WriterGotoEffect DEF Join, WriterPcs
  <2> QED
    BY Zenon, <1>b, <2>1, <2>2 DEF Phase, Callers
<1>4. CASE CloseFile
  <2>1. thread[Main].pc = "close" /\ thread'[Main].pc = "idle"
        /\ ~ is_initialized' /\ UNCHANGED writer
    BY Zenon, <1>4, <1>d DEF CloseFile
  <2> QED
    BY Zenon, <1>b, <2>1 DEF Phase, Callers
<1> QED
  BY Zenon, <1>1, <1>2, <1>3, <1>4 DEF EndLogger

LEMMA WriterPhase ==
  ASSUME TypeOK, Phase, WriteDownLogs \/ SpuriousWakeup
  PROVE  Phase'
<1>a. writer \in [pc : WriterPcs, record : Data] /\ disk \in Disk
  BY Zenon DEF TypeOK
<1>b. UNCHANGED <<thread, is_initialized, is_stopping>>
  BY Zenon DEF WriteDownLogs, TestStopping, TestPending, Dequeue, TakeData,
         ReleaseSlot, Discount, WriteRecord, Flush, LockToSleep,
         RecheckStopping, Sleep, WakeUp, SpuriousWakeup, flags
<1>c. writer.pc # "none"
  BY Zenon DEF WriteDownLogs, TestStopping, TestPending, Dequeue, TakeData,
         ReleaseSlot, Discount, WriteRecord, Flush, LockToSleep,
         RecheckStopping, Sleep, WakeUp, SpuriousWakeup
<1>d. /\ writer'.pc # "none"
      /\ writer'.pc \in {"pending", "done"} => is_stopping
  <2>1. CASE TakeData \/ WriteRecord
    BY <2>1 DEF TakeData, WriteRecord
  <2>2. CASE ~ TakeData /\ ~ WriteRecord
    <3>1. \E pc \in WriterPcs \ {"none"} :
            WriterGoto(pc) /\ (pc \in {"pending", "done"} => is_stopping)
      BY <2>2 DEF WriteDownLogs, TestStopping, TestPending, Dequeue,
           ReleaseSlot, Discount, Flush, LockToSleep, RecheckStopping, Sleep,
           WakeUp, SpuriousWakeup, WriterPcs, Phase
    <3> QED
      BY Zenon, <1>a, <3>1, WriterGotoEffect
  <2> QED
    BY Zenon, <2>1, <2>2
<1>e. disk'.open = disk.open
  <2>1. CASE WriteRecord /\ disk.open
    <3> DEFINE d == Rotate(disk)
    <3>1. "open" \in DOMAIN d /\ d.open = disk.open
      BY Zenon, <1>a DEF Rotate, Disk
    <3>2. disk' = [d EXCEPT !.files[d.cur] = Append(@, writer.record),
                            !.bytes = @ + 1]
      BY Zenon, <2>1 DEF WriteRecord
    <3> HIDE DEF d
    <3> QED
      BY Zenon, <3>1, <3>2
  <2>2. CASE ~ (WriteRecord /\ disk.open)
    BY Zenon, <2>2 DEF WriteDownLogs, TestStopping, TestPending, Dequeue, TakeData,
         ReleaseSlot, Discount, WriteRecord, Flush, LockToSleep,
         RecheckStopping, Sleep, WakeUp, SpuriousWakeup
  <2> QED
    BY Zenon, <2>1, <2>2
<1> QED
  BY Zenon, <1>b, <1>c, <1>d, <1>e DEF Phase

-----------------------------------------------------------------------------
(***************************************************************************)
(* The ring.                                                               *)
(***************************************************************************)

LEMMA SlotAgain ==
  ASSUME NEW i \in Int
  PROVE  Slot(i + Size) = Slot(i)
<1>1. PICK k \in Int : k = 1
  OBVIOUS
<1>2. (i + k * Size) % Size = i % Size
  BY Zenon, Constants, ModShift
<1>3. k * Size = Size
  BY <1>1, Constants
<1> QED
  BY Zenon, <1>2, <1>3 DEF Slot

\* The bounds of the window, as numbers.
LEMMA Bounds ==
  ASSUME TypeOK, Window
  PROVE  /\ read_index \in Nat /\ write_index \in Nat /\ Released \in Nat
         /\ Released <= read_index /\ read_index <= Released + 1
         /\ read_index <= write_index /\ write_index <= Released + Size
         /\ writer.pc \in {"take", "release"} => Released = read_index - 1
         /\ writer.pc \notin {"take", "release"} => Released = read_index
BY Constants DEF TypeOK, Window, Released

\* A step that neither touches the ring nor changes who has a position.
LEMMA RingFrame ==
  ASSUME TypeOK, Ring,
         UNCHANGED <<write_index, read_index, log_buffer, claimed>>,
         \/ writer' = writer
         \/ {writer.pc, writer'.pc} \cap {"take", "release", "sub", "write"}
              = {},
         \A p \in Producers :
           \/ thread'[p] = thread[p]
           \/ /\ ~ Storing(p)
              /\ thread'[p].pc \notin {"slot", "cas", "data", "publish"}
  PROVE  Ring'
<1>1. /\ Released' = Released
      /\ \A i : SlotOf(i)' = SlotOf(i)
  BY Zenon DEF Released, SlotOf
<1>2. Window'
  BY Zenon, <1>1 DEF Ring, Window
<1>3. \A p \in Producers : Storing(p)' => Storing(p) /\ thread'[p] = thread[p]
  BY Zenon DEF Storing
<1>4. \A p \in Producers : Storing(p) => Storing(p)' /\ thread'[p] = thread[p]
  BY Zenon DEF Storing
<1>5. ASSUME NEW p \in Producers PROVE Position(p)'
  <2>1. Position(p)
    BY Zenon DEF Ring
  <2>2. CASE thread'[p] = thread[p]
    BY Zenon, <1>1, <2>1, <2>2 DEF Position, Storing, Record, SlotOf
  <2>3. CASE thread'[p].pc \notin {"slot", "cas", "data", "publish"}
    BY Zenon, <2>3 DEF Position, Storing
  <2> QED
    BY Zenon, <2>2, <2>3
<1>6. PositionsDiffer'
  BY Zenon, <1>3 DEF Ring, PositionsDiffer
<1>7. Slots'
  <2>1. ASSUME NEW i \in Nat, Filled(i) PROVE Filled(i)'
    BY Zenon, <1>1, <1>4, <2>1 DEF Filled
  <2> QED
    BY Zenon, <1>1, <2>1 DEF Ring, Slots
<1>8. Taken'
  BY Zenon, <1>1 DEF Ring, Taken, SlotOf
<1> QED
  BY Zenon, <1>2, <1>5, <1>6, <1>7, <1>8 DEF Ring

\* Init, and StartLogger: all the slots are free.
EmptyRing ==
  /\ write_index = 0 /\ read_index = 0 /\ claimed = <<>>
  /\ log_buffer = [i \in 0..(Size - 1) |-> [seq |-> i, data |-> Empty]]
  /\ writer.pc = "none"
  /\ \A p \in Producers : thread[p].pc \in {"idle", "check", "lock", "spawn"}

LEMMA RingEmpty == EmptyRing => Ring
<1> SUFFICES ASSUME EmptyRing PROVE Ring
  BY Zenon
<1> USE DEF EmptyRing
<1>1. Window /\ Released = 0
  BY Constants, SeqEmpty DEF Window, Released
<1>2. \A p \in Producers : Position(p) /\ ~ Storing(p)
  BY Zenon DEF Position, Storing
<1>3. PositionsDiffer
  BY Zenon, <1>2 DEF PositionsDiffer
<1>4. Slots
  <2>1. ASSUME NEW i \in Nat, i < Size PROVE SlotOf(i).seq = i
    <3>1. Slot(i) = i
      BY <2>1, Constants DEF Slot
    <3> QED
      BY <2>1, <3>1, Constants DEF SlotOf
  <2> QED
    BY <1>1, <2>1, Constants DEF Slots
<1>5. Taken
  BY Zenon DEF Taken
<1> QED
  BY Zenon, <1>1, <1>2, <1>3, <1>4, <1>5 DEF Ring

\* The sequence number of a slot is that of the position in use, or one more.
LEMMA WindowSeq ==
  ASSUME TypeOK, Ring, NEW i \in Nat, Released <= i, i < Released + Size
  PROVE  SlotOf(i).seq \in {i, i + 1}
<1>a. Window /\ Taken /\ Slots /\ \A p \in Producers : Position(p)
  BY Zenon DEF Ring
<1>b. /\ read_index \in Nat /\ write_index \in Nat /\ Released \in Nat
      /\ writer.pc \in {"take", "release"} => Released = read_index - 1
      /\ writer.pc \notin {"take", "release"} => Released = read_index
  BY Zenon, <1>a, Bounds
<1>1. CASE i < read_index
  <2>1. i = read_index - 1 /\ writer.pc \in {"take", "release"}
    BY <1>1, <1>b
  <2> QED
    BY <2>1, <1>a, <1>b DEF Taken
<1>2. CASE read_index <= i /\ i < write_index
  <2>1. Filled(i)
    BY Zenon, <1>2, <1>a DEF Slots
  <2>2. ASSUME NEW p \in Producers, Storing(p), thread[p].pos = i
        PROVE  SlotOf(i).seq = i
    BY Zenon, <2>2, <1>a DEF Position
  <2> QED
    BY Zenon, <2>1, <2>2 DEF Filled
<1>3. CASE write_index <= i
  BY Zenon, <1>3, <1>a DEF Slots
<1> QED
  BY <1>b, <1>1, <1>2, <1>3

\* Positions in use have different slots.
LEMMA WindowSlots ==
  \A i, j \in Nat :
     /\ TypeOK
     /\ Window
     /\ i # j
     /\ Released <= i
     /\ i < Released + Size
     /\ Released <= j
     /\ j < Released + Size
    => Slot(i) # Slot(j)
\* Two positions that are less than the size apart have different slots.
<1>ModInjective.
    ASSUME NEW a \in Int, NEW b \in Int, NEW m \in Nat \ {0},
           a < b, b < a + m
    PROVE  a % m # b % m
  <2> USE <1>ModInjective
  <2> DEFINE qa == a \div m  qb == b \div m
  <2>1. a = m * qa + (a % m) /\ qa \in Int
    OBVIOUS
  <2>2. b = m * qb + (b % m) /\ qb \in Int
    OBVIOUS
  <2> SUFFICES ASSUME a % m = b % m PROVE FALSE
    BY Zenon
  <2> HIDE DEF qa, qb
  <2>3. b - a = m * (qb - qa)
    BY <2>1, <2>2
  <2>4. 0 < m * (qb - qa) /\ m * (qb - qa) < m
    BY <2>3
  <2>5. CASE qb - qa <= 0
    <3>1. m * (qb - qa) <= 0
      BY <2>5, <2>1, <2>2
    <3> QED
      BY <3>1, <2>1, <2>2, <2>4
  <2>6. CASE qb - qa >= 1
    <3>1. m * (qb - qa) >= m
      BY <2>6, <2>1, <2>2
    <3> QED
      BY <3>1, <2>1, <2>2, <2>4
  <2> QED
    BY <2>1, <2>2, <2>5, <2>6
<1>SlotsDiffer.
    ASSUME NEW i \in Int, NEW j \in Int, i # j, i < j + Size, j < i + Size
    PROVE  Slot(i) # Slot(j)
  <2> USE <1>SlotsDiffer
  <2>1. CASE i < j
    BY Zenon, <2>1, Constants, <1>ModInjective DEF Slot
  <2>2. CASE j < i
    BY Zenon, <2>2, Constants, <1>ModInjective DEF Slot
  <2> QED
    BY <2>1, <2>2
<1> SUFFICES ASSUME TypeOK, Window, NEW i \in Nat, NEW j \in Nat, i # j,
                    Released <= i, i < Released + Size,
                    Released <= j, j < Released + Size
             PROVE  Slot(i) # Slot(j)
  BY Zenon
<1>1. Released \in Nat /\ Size \in Nat
  BY Zenon, Bounds, Constants
<1>2. i < j + Size /\ j < i + Size
  BY <1>1
<1> QED
  BY <1>2, <1>SlotsDiffer

\* The slot of the position the writer has taken is nobody else's.
LEMMA TakenApart ==
  ASSUME TypeOK, Ring, writer.pc \in {"take", "release"}, NEW i \in Nat,
         read_index <= i, i < Released + Size
  PROVE  Slot(i) # Slot(read_index - 1)
<1>1. Window
  BY Zenon DEF Ring
<1>2. /\ read_index \in Nat /\ Released = read_index - 1 /\ Released \in Nat
  BY Zenon, <1>1, Bounds
<1>3. PICK r \in Nat : r = read_index - 1
  BY Zenon, <1>2
<1>4. Slot(i) # Slot(r)
  BY <1>1, <1>2, <1>3, Constants, WindowSlots
<1> QED
  BY Zenon, <1>3, <1>4

LEMMA StartRing ==
  ASSUME EndEarly = FALSE, TypeOK, Phase, Ring, NEW t \in Callers,
         GetLogger(t) \/ Start(t)
  PROVE  Ring'
<1>a. ThreadOK /\ writer \in [pc : WriterPcs, record : Data]
      /\ Producers \subseteq Callers
  BY Zenon DEF TypeOK, Callers
<1>b. \A u \in Callers \ {t} : thread'[u] = thread[u]
  BY Zenon, <1>a, StartOthers
<1>c. thread[t].pc \in {"idle", "check", "lock", "spawn"}
  BY Zenon DEF GetLogger, Start, CheckInitialized, StartLogger, SpawnWriter
<1>d. ASSUME t \in Producers
      PROVE  thread'[t].pc \in {"check", "load", "lock", "spawn"}
  <2>1. CASE GetLogger(t)
    BY Zenon, <2>1, <1>a DEF GetLogger, ThreadOK, Thread
  <2>2. CASE Start(t)
    <3>1. t # Main
      BY Zenon, <1>d, LoggerAssumption
    <3>2. \E pc \in {"load", "lock", "spawn"} : Goto(t, pc)
      BY Zenon, <2>2, <3>1 DEF Start, CheckInitialized, StartLogger, SpawnWriter,
                        AfterStart
    <3>3. {"load", "lock", "spawn"} \subseteq ThreadPcs
      BY Zenon DEF ThreadPcs, StartPcs, EnqueuePcs
    <3> QED
      BY Zenon, <1>a, <3>2, <3>3, GotoEffect DEF ThreadOK
  <2> QED
    BY Zenon, <2>1, <2>2
<1>1. CASE UNCHANGED <<write_index, read_index, log_buffer, claimed>>
  <2>1. \/ writer' = writer
        \/ {writer.pc, writer'.pc} \cap {"take", "release", "sub", "write"} = {}
    <3>1. CASE SpawnWriter(t)
      <4>1. writer.pc = "none" /\ writer'.pc = "test"
        BY Zenon, <3>1, <1>a DEF SpawnWriter, Phase
      <4> QED
        BY Zenon, <4>1
    <3>2. CASE ~ SpawnWriter(t)
      BY Zenon, <3>2 DEF GetLogger, Start, CheckInitialized, StartLogger
    <3> QED
      BY Zenon, <3>1, <3>2
  <2> QED
    BY Zenon, <1>1, <1>a, <1>b, <1>c, <1>d, <2>1, RingFrame DEF Storing
<1>2. ASSUME NEW fails, StartLogger(t, fails), ~ is_initialized
      PROVE  Ring'
  <2>1. writer'.pc = "none"
    BY Zenon, <1>2 DEF StartLogger, Phase
  <2>2. \A p \in Producers : thread'[p].pc \in {"idle", "check", "lock", "spawn"}
    <3>1. Goto(t, "spawn") /\ "spawn" \in ThreadPcs
      BY Zenon, <1>2 DEF StartLogger, ThreadPcs, StartPcs
    <3>2. thread'[t].pc = "spawn"
      BY Zenon, <1>a, <3>1, GotoEffect DEF ThreadOK
    <3> QED
      BY Zenon, <1>2, <1>a, <1>b, <3>2 DEF Phase
  <2>3. EmptyRing'
    BY Zenon, <1>2, <2>1, <2>2 DEF EmptyRing, StartLogger
  <2> QED
    BY <2>3, RingEmpty, PTL
<1>3. \/ UNCHANGED <<write_index, read_index, log_buffer, claimed>>
      \/ ~ is_initialized /\ \E fails \in {FALSE, OpenFails} : StartLogger(t, fails)
  BY Zenon DEF GetLogger, Start, CheckInitialized, StartLogger, SpawnWriter, ring,
         history
<1> QED
  BY Zenon, <1>1, <1>2, <1>3

LEMMA EnqueueRing ==
  \A p \in Producers :
     /\ TypeOK
     /\ Ring
     /\ Enqueue(p) \/ ClaimFails(p)
    => Ring'
<1>LoadRing.
    ASSUME TypeOK, Ring, NEW p \in Producers,
           UNCHANGED <<write_index, read_index, log_buffer, claimed, writer>>,
           ~ Storing(p), thread'[p].pc \in {"slot", "cas"},
           thread'[p].pos \in Nat, thread'[p].pos <= write_index,
           thread'[p].pc = "cas" /\ thread'[p].pos = write_index =>
             write_index < Released + Size,
           \A u \in Callers \ {p} : thread'[u] = thread[u]
    PROVE  Ring'
  <2> USE <1>LoadRing
  <2>1. /\ Released' = Released
        /\ \A i : SlotOf(i)' = SlotOf(i)
    BY Zenon DEF Released, SlotOf
  <2>2. Window' /\ Taken'
    BY Zenon, <2>1 DEF Ring, Window, Taken, SlotOf
  <2>3. \A q \in Producers :
          /\ Storing(q)' <=> Storing(q)
          /\ Storing(q) => thread'[q] = thread[q]
    BY Zenon DEF Storing, Callers
  <2>4. ASSUME NEW q \in Producers PROVE Position(q)'
    <3>1. CASE q = p
      BY Zenon, <2>1, <3>1 DEF Position, Storing
    <3>2. CASE q # p
      <4>1. Position(q) /\ thread'[q] = thread[q]
        BY Zenon, <3>2 DEF Ring, Callers
      <4> QED
        BY Zenon, <2>1, <4>1 DEF Position, Storing, Record, SlotOf
    <3> QED
      BY Zenon, <3>1, <3>2
  <2>5. PositionsDiffer'
    BY Zenon, <2>3 DEF Ring, PositionsDiffer
  <2>6. Slots'
    <3>1. ASSUME NEW i \in Nat, Filled(i) PROVE Filled(i)'
      BY Zenon, <2>1, <2>3, <3>1 DEF Filled
    <3> QED
      BY Zenon, <2>1, <3>1 DEF Ring, Slots
  <2> QED
    BY Zenon, <2>2, <2>4, <2>5, <2>6 DEF Ring
\* A full ring is never taken for a free one: it has two slots at least.
<1>FreeSlot.
    ASSUME TypeOK, Ring, SlotOf(write_index).seq = write_index
    PROVE  write_index < Released + Size
  <2> USE <1>FreeSlot
  <2>a. Window
    BY Zenon DEF Ring
  <2>1. /\ Released \in Nat /\ write_index \in Nat
        /\ write_index <= Released + Size /\ Size >= 2 /\ Size \in Nat
    BY Zenon, <2>a, Bounds, Constants
  <2> SUFFICES ASSUME write_index = Released + Size PROVE FALSE
    BY <2>1
  <2>2. Slot(write_index) = Slot(Released)
    BY <2>1, SlotAgain
  <2>3. SlotOf(Released).seq \in {Released, Released + 1}
    BY <2>1, WindowSeq
  <2>4. SlotOf(Released).seq = Released + Size
    BY Zenon, <2>2 DEF SlotOf
  <2> QED
    BY <2>1, <2>3, <2>4
<1>ClaimRing.
    ASSUME TypeOK, Ring, NEW p \in Producers,
           thread[p].pc = "cas", thread[p].pos = write_index,
           write_index' = write_index + 1,
           claimed' = Append(claimed, Record(p)),
           UNCHANGED <<read_index, log_buffer, writer>>,
           thread'[p].pc = "data", thread'[p].pos = thread[p].pos,
           thread'[p].n = thread[p].n,
           \A u \in Callers \ {p} : thread'[u] = thread[u]
    PROVE  Ring'
  <2> USE <1>ClaimRing
  <2>a. Window /\ Taken /\ Slots /\ PositionsDiffer
        /\ \A q \in Producers : Position(q)
    BY Zenon DEF Ring
  <2>b. /\ read_index \in Nat /\ write_index \in Nat /\ Released \in Nat
        /\ read_index <= write_index /\ Len(claimed) = write_index
        /\ write_index < Released + Size /\ claimed \in Seq(Records)
        /\ ThreadOK
    BY Zenon, <2>a, Bounds DEF Position, Window, TypeOK
  <2>c. Record(p) \in Records /\ Record(p)' = Record(p)
    BY Zenon, <2>b, RecordType DEF Record
  <2>d. /\ Len(claimed') = write_index + 1
        /\ \A i \in 1..write_index : claimed'[i] = claimed[i]
        /\ claimed'[write_index + 1] = Record(p)
    BY <2>b, <2>c, SeqAppend
  <2>1. /\ Released' = Released
        /\ \A i : SlotOf(i)' = SlotOf(i)
    BY Zenon DEF Released, SlotOf
  <2>2. Window'
    BY <2>1, <2>a, <2>b, <2>d, Constants DEF Window
  <2>3. ~ Storing(p) /\ Storing(p)'
        /\ \A q \in Producers \ {p} :
             (Storing(q)' <=> Storing(q)) /\ thread'[q] = thread[q]
    BY Zenon DEF Storing, Callers
  <2>4. ASSUME NEW q \in Producers PROVE Position(q)'
    <3>1. CASE q = p
      <4>1. PICK at \in Nat : at = write_index
        BY Zenon, <2>b
      <4>2. SlotOf(at).seq = at
        BY <2>a, <2>b, <4>1 DEF Slots
      <4>3. at < write_index' /\ at <= write_index'
        BY <2>b, <4>1
      <4>4. thread'[p].pos = at /\ claimed'[at + 1] = Record(p)
        BY Zenon, <2>d, <4>1
      <4>5. read_index' <= at /\ SlotOf(at)'.seq = at
        BY Zenon, <2>1, <2>b, <4>1, <4>2
      <4>6. thread'[p].pc \notin {"slot", "cas", "publish"}
        BY Zenon
      <4> QED
        BY Zenon, <3>1, <2>c, <4>3, <4>4, <4>5, <4>6 DEF Position, SlotOf
    <3>2. CASE q # p
      <4>1. Position(q) /\ thread'[q] = thread[q]
        BY Zenon, <3>2, <2>a, <2>3
      <4>2. PICK at \in Nat : at = thread[q].pos
        BY Zenon, <2>b DEF ThreadOK, Thread, Callers
      <4>3. Storing(q) => claimed'[at + 1] = claimed[at + 1]
        <5>1. Storing(q) => at < write_index
          BY Zenon, <4>1, <4>2 DEF Position
        <5>2. at < write_index => at + 1 \in 1..write_index
          BY <2>b
        <5> QED
          BY Zenon, <5>1, <5>2, <2>d
      <4>4. thread[q].pc \in {"slot", "cas"} => at <= write_index
        BY Zenon, <4>1, <4>2 DEF Position
      <4>5. at <= write_index => at <= write_index' /\ at # write_index'
        BY <2>b
      <4>6. at < write_index => at < write_index'
        BY <2>b
      <4> QED
        BY Zenon, <2>1, <4>1, <4>2, <4>3, <4>4, <4>5, <4>6
           DEF Position, Storing, Record, SlotOf
    <3> QED
      BY Zenon, <3>1, <3>2
  <2>5. PositionsDiffer'
    <3>1. \A q \in Producers \ {p} : Storing(q) => thread[q].pos # write_index
      <4>1. ASSUME NEW q \in Producers, Storing(q)
            PROVE  thread[q].pos # write_index
        <5>1. PICK at \in Nat : at = thread[q].pos
          BY Zenon, <2>b DEF ThreadOK, Thread, Callers
        <5>2. at < write_index
          BY Zenon, <2>a, <4>1, <5>1 DEF Position
        <5>3. at # write_index
          BY <2>b, <5>2
        <5> QED
          BY Zenon, <5>1, <5>3
      <4> QED
        BY Zenon, <4>1
    <3> QED
      BY <2>3, <2>a, <3>1 DEF PositionsDiffer
  <2>6. Slots'
    <3>1. ASSUME NEW i \in Nat, read_index <= i, i < write_index PROVE Filled(i)'
      <4>1. Filled(i) /\ claimed'[i + 1] = claimed[i + 1]
        BY <3>1, <2>a, <2>b, <2>d DEF Slots
      <4> QED
        BY Zenon, <2>1, <2>3, <4>1 DEF Filled
    <3>2. ASSUME NEW i \in Nat, i = write_index PROVE Filled(i)'
      BY Zenon, <2>3, <3>2 DEF Filled
    <3>3. ASSUME NEW i \in Nat, i < write_index'
          PROVE  i < write_index \/ i = write_index
      BY <2>b, <3>3
    <3>4. ASSUME NEW i \in Nat, write_index' <= i
          PROVE  write_index <= i
      BY <2>b, <3>4
    <3> QED
      BY Zenon, <2>1, <2>a, <3>1, <3>2, <3>3, <3>4 DEF Slots
  <2>7. Taken'
    <3>1. writer.pc \in {"take", "release", "sub", "write"} =>
            claimed'[read_index] = claimed[read_index]
      BY <2>a, <2>b, <2>d DEF Window
    <3> QED
      BY Zenon, <2>1, <2>a, <3>1 DEF Taken, SlotOf
  <2> QED
    BY Zenon, <2>2, <2>4, <2>5, <2>6, <2>7 DEF Ring
<1>StoreRing.
    ASSUME TypeOK, Ring, NEW p \in Producers, StoreData(p)
    PROVE  Ring'
  <2> USE <1>StoreRing
  <2>a. Window /\ Taken /\ Slots /\ PositionsDiffer
        /\ \A q \in Producers : Position(q)
    BY Zenon DEF Ring
  <2>b. ThreadOK /\ p \in Callers
    BY Zenon DEF TypeOK, Callers
  <2>c. /\ read_index \in Nat /\ write_index \in Nat /\ Released \in Nat
        /\ Released <= read_index /\ write_index <= Released + Size
        /\ read_index <= write_index
        /\ writer.pc \in {"take", "release"} => Released = read_index - 1
    BY Zenon, <2>a, Bounds
  <2>d. Size \in Nat \ {0}
    BY Zenon, Constants
  <2>e. PICK pos \in Nat : pos = thread[p].pos
    BY Zenon, <2>b DEF ThreadOK, Thread
  <2>f. /\ thread'[p].pc = "publish" /\ thread'[p].pos = pos
        /\ thread'[p].n = thread[p].n
        /\ \A u \in Callers \ {p} : thread'[u] = thread[u]
    <3>1. Goto(p, "publish") /\ "publish" \in ThreadPcs
      BY Zenon DEF StoreData, ThreadPcs, EnqueuePcs
    <3> QED
      BY Zenon, <2>b, <2>e, <3>1, GotoEffect DEF ThreadOK
  <2>g. PICK x : x = Record(p)
    BY Zenon
  <2>h. /\ SlotOf(pos)'.data = x
        /\ \A i \in Int : SlotOf(i)'.seq = SlotOf(i).seq
        /\ \A i \in Int : Slot(i) # Slot(pos) => SlotOf(i)' = SlotOf(i)
    <3>1. log_buffer' = [log_buffer EXCEPT ![Slot(pos)].data = x]
      BY Zenon, <2>e, <2>g DEF StoreData
    <3> QED
      BY <3>1, SlotRange DEF TypeOK, SlotOf
  <2>i. /\ Storing(p) /\ Storing(p)' /\ Record(p)' = x
        /\ \A q \in Producers \ {p} :
             (Storing(q)' <=> Storing(q)) /\ thread'[q] = thread[q]
    BY Zenon, <2>f, <2>g DEF StoreData, Storing, Callers, Record
  <2>j. /\ read_index <= pos /\ pos < write_index
        /\ claimed[pos + 1] = x /\ SlotOf(pos).seq = pos
    BY Zenon, <2>a, <2>e, <2>g, <2>i DEF Position
  <2>k. UNCHANGED <<write_index, read_index, claimed, writer>>
        /\ Released' = Released
    BY Zenon DEF StoreData, Released, history
  <2>l. \A i \in Nat : i # pos /\ Released <= i /\ i < Released + Size =>
          SlotOf(i)' = SlotOf(i)
    <3>1. Released <= pos /\ pos < Released + Size
      BY <2>c, <2>d, <2>j
    <3>2. ASSUME NEW i \in Nat, i # pos, Released <= i, i < Released + Size
          PROVE  Slot(i) # Slot(pos)
      BY Zenon, <2>a, <3>1, <3>2, WindowSlots
    <3>3. \A i \in Nat : i \in Int
      OBVIOUS
    <3> QED
      BY Zenon, <2>h, <3>2, <3>3
  <2>1. Window'
    BY Zenon, <2>a, <2>k DEF Window
  <2>2. ASSUME NEW q \in Producers PROVE Position(q)'
    <3>1. CASE q = p
      <4>1. SlotOf(pos)'.seq = pos
        BY <2>h, <2>j
      <4> QED
        BY Zenon, <3>1, <4>1, <2>f, <2>h, <2>i, <2>j, <2>k DEF Position, SlotOf
    <3>2. CASE q # p
      <4>1. Position(q) /\ thread'[q] = thread[q]
        BY Zenon, <3>2, <2>a, <2>i
      <4>2. PICK at \in Nat : at = thread[q].pos
        BY Zenon, <2>b DEF ThreadOK, Thread, Callers
      <4>3. Storing(q) => SlotOf(at)' = SlotOf(at)
        <5>1. Storing(q) => at # pos /\ read_index <= at /\ at < write_index
          BY Zenon, <3>2, <2>a, <2>e, <2>i, <4>1, <4>2
             DEF PositionsDiffer, Position
        <5> QED
          BY <5>1, <2>c, <2>d, <2>l
      <4> QED
        BY Zenon, <2>k, <4>1, <4>2, <4>3 DEF Position, Storing, Record, SlotOf
    <3> QED
      BY Zenon, <3>1, <3>2
  <2>3. PositionsDiffer'
    <3>1. \A q \in Producers :
            thread'[q].pos = thread[q].pos /\ (Storing(q)' <=> Storing(q))
      BY Zenon, <2>e, <2>f, <2>i
    <3> QED
      BY Zenon, <2>a, <3>1 DEF PositionsDiffer
  <2>4. Slots'
    <3>1. ASSUME NEW i \in Nat, read_index <= i, i < write_index PROVE Filled(i)'
      <4>1. CASE i = pos
        BY Zenon, <4>1, <2>f, <2>i DEF Filled
      <4>2. CASE i # pos
        <5>1. Filled(i) /\ SlotOf(i)' = SlotOf(i)
          BY <3>1, <4>2, <2>a, <2>c, <2>d, <2>l DEF Slots
        <5> QED
          BY Zenon, <5>1, <4>2, <2>e, <2>i, <2>k DEF Filled
      <4> QED
        BY Zenon, <4>1, <4>2
    <3> QED
      BY <3>1, <2>a, <2>h, <2>k DEF Slots
  <2>5. Taken'
    <3>1. PICK r \in Int : r = read_index - 1
      BY <2>c
    <3>2. writer.pc \in {"take", "release"} => SlotOf(r)' = SlotOf(r)
      BY <3>1, <2>c, <2>d, <2>j, <2>l
    <3> QED
      BY Zenon, <3>1, <3>2, <2>a, <2>k DEF Taken, SlotOf
  <2> QED
    BY Zenon, <2>1, <2>2, <2>3, <2>4, <2>5 DEF Ring
<1>PublishRing.
    ASSUME TypeOK, Ring, NEW p \in Producers, Publish(p)
    PROVE  Ring'
  <2> USE <1>PublishRing
  <2>a. Window /\ Taken /\ Slots /\ PositionsDiffer
        /\ \A q \in Producers : Position(q)
    BY Zenon DEF Ring
  <2>b. ThreadOK /\ p \in Callers
    BY Zenon DEF TypeOK, Callers
  <2>c. /\ read_index \in Nat /\ write_index \in Nat /\ Released \in Nat
        /\ Released <= read_index /\ write_index <= Released + Size
        /\ read_index <= write_index
        /\ writer.pc \in {"take", "release"} => Released = read_index - 1
    BY Zenon, <2>a, Bounds
  <2>d. Size \in Nat \ {0}
    BY Zenon, Constants
  <2>e. PICK pos \in Nat : pos = thread[p].pos
    BY Zenon, <2>b DEF ThreadOK, Thread
  <2>f. /\ thread'[p].pc = "count"
        /\ \A u \in Callers \ {p} : thread'[u] = thread[u]
    <3>1. Goto(p, "count") /\ "count" \in ThreadPcs
      BY Zenon DEF Publish, ThreadPcs, EnqueuePcs
    <3> QED
      BY Zenon, <2>b, <3>1, GotoEffect DEF ThreadOK
  <2>h. /\ SlotOf(pos)'.seq = pos + 1
        /\ \A i \in Int : SlotOf(i)'.data = SlotOf(i).data
        /\ \A i \in Int : Slot(i) # Slot(pos) => SlotOf(i)' = SlotOf(i)
    <3>1. log_buffer' = [log_buffer EXCEPT ![Slot(pos)].seq = pos + 1]
      BY Zenon, <2>e DEF Publish
    <3> QED
      BY <3>1, SlotRange DEF TypeOK, SlotOf
  <2>i. /\ Storing(p) /\ ~ Storing(p)'
        /\ \A q \in Producers \ {p} :
             (Storing(q)' <=> Storing(q)) /\ thread'[q] = thread[q]
    BY Zenon, <2>f DEF Publish, Storing, Callers
  <2>j. /\ read_index <= pos /\ pos < write_index
        /\ SlotOf(pos).data = claimed[pos + 1]
    BY Zenon, <2>a, <2>e, <2>i DEF Position, Publish
  <2>k. UNCHANGED <<write_index, read_index, claimed, writer>>
        /\ Released' = Released
    BY Zenon DEF Publish, Released, history
  <2>l. \A i \in Nat : i # pos /\ Released <= i /\ i < Released + Size =>
          SlotOf(i)' = SlotOf(i)
    <3>1. Released <= pos /\ pos < Released + Size
      BY <2>c, <2>d, <2>j
    <3>2. ASSUME NEW i \in Nat, i # pos, Released <= i, i < Released + Size
          PROVE  Slot(i) # Slot(pos)
      BY Zenon, <2>a, <3>1, <3>2, WindowSlots
    <3>3. \A i \in Nat : i \in Int
      OBVIOUS
    <3> QED
      BY Zenon, <2>h, <3>2, <3>3
  <2>1. Window'
    BY Zenon, <2>a, <2>k DEF Window
  <2>2. ASSUME NEW q \in Producers PROVE Position(q)'
    <3>1. CASE q = p
      BY Zenon, <3>1, <2>f, <2>i DEF Position
    <3>2. CASE q # p
      <4>1. Position(q) /\ thread'[q] = thread[q]
        BY Zenon, <3>2, <2>a, <2>i
      <4>2. PICK at \in Nat : at = thread[q].pos
        BY Zenon, <2>b DEF ThreadOK, Thread, Callers
      <4>3. Storing(q) => SlotOf(at)' = SlotOf(at)
        <5>1. Storing(q) => at # pos /\ read_index <= at /\ at < write_index
          BY Zenon, <3>2, <2>a, <2>e, <2>i, <4>1, <4>2
             DEF PositionsDiffer, Position
        <5> QED
          BY <5>1, <2>c, <2>d, <2>l
      <4> QED
        BY Zenon, <2>k, <4>1, <4>2, <4>3 DEF Position, Storing, Record, SlotOf
    <3> QED
      BY Zenon, <3>1, <3>2
  <2>3. PositionsDiffer'
    BY Zenon, <2>a, <2>i DEF PositionsDiffer
  <2>4. Slots'
    <3>1. ASSUME NEW i \in Nat, read_index <= i, i < write_index PROVE Filled(i)'
      <4>1. CASE i = pos
        BY <4>1, <2>h, <2>j, <2>k DEF Filled
      <4>2. CASE i # pos
        <5>1. Filled(i) /\ SlotOf(i)' = SlotOf(i)
          BY <3>1, <4>2, <2>a, <2>c, <2>d, <2>l DEF Slots
        <5> QED
          BY Zenon, <5>1, <4>2, <2>e, <2>i, <2>k DEF Filled
      <4> QED
        BY Zenon, <4>1, <4>2
    <3>2. ASSUME NEW i \in Nat, write_index <= i, i < Released + Size
          PROVE  SlotOf(i)'.seq = i
      BY <3>2, <2>a, <2>c, <2>j, <2>l DEF Slots
    <3> QED
      BY Zenon, <3>1, <3>2, <2>k DEF Slots
  <2>5. Taken'
    <3>1. PICK r \in Int : r = read_index - 1
      BY <2>c
    <3>2. writer.pc \in {"take", "release"} => SlotOf(r)' = SlotOf(r)
      BY <3>1, <2>c, <2>d, <2>j, <2>l
    <3> QED
      BY Zenon, <3>1, <3>2, <2>a, <2>k DEF Taken, SlotOf
  <2> QED
    BY Zenon, <2>1, <2>2, <2>3, <2>4, <2>5 DEF Ring
<1> SUFFICES ASSUME TypeOK, Ring, NEW p \in Producers, Enqueue(p) \/ ClaimFails(p)
             PROVE  Ring'
  BY Zenon
<1>a. ThreadOK /\ writer \in [pc : WriterPcs, record : Data] /\ p \in Callers
      /\ thread \in [Callers -> Thread] /\ Producers \subseteq Callers
  BY Zenon DEF TypeOK, Callers, ThreadOK
<1>b. \A u \in Callers \ {p} : thread'[u] = thread[u]
  BY Zenon, <1>a, EnqueueOthers
<1>c. {"idle", "slot", "cas", "load", "data", "notify"} \subseteq ThreadPcs
  BY Zenon DEF ThreadPcs, StartPcs, EnqueuePcs
<1>d. write_index \in Nat /\ thread[p].pos \in Nat
  BY Zenon, <1>a DEF TypeOK, Thread
\* A step out of Enqueue, or back to its beginning.
<1>e. ASSUME UNCHANGED <<write_index, read_index, log_buffer, claimed>>,
             ~ Storing(p), thread'[p].pc \in {"idle", "load", "notify"},
             \/ writer' = writer
             \/ writer.pc = "waiting" /\ writer'.pc = "woken"
      PROVE  Ring'
  <2>1. \/ writer' = writer
        \/ {writer.pc, writer'.pc} \cap {"take", "release", "sub", "write"} = {}
    BY Zenon, <1>e
  <2> QED
    BY Zenon, <1>a, <1>b, <1>e, <2>1, RingFrame
<1>1. ASSUME GotoWith(p, "slot", write_index), ~ Storing(p),
             UNCHANGED <<write_index, read_index, log_buffer, claimed, writer>>
      PROVE  Ring'
  <2>1. thread'[p].pc = "slot" /\ thread'[p].pos = write_index
    <3>1. PICK w \in Nat : w = write_index
      BY Zenon, <1>d
    <3> QED
      BY Zenon, <1>1, <1>a, <1>c, <3>1, GotoWithEffect
  <2>2. thread'[p].pos \in Nat /\ thread'[p].pos <= write_index
    BY <1>d, <2>1
  <2>3. thread'[p].pc \in {"slot", "cas"} /\ thread'[p].pc # "cas"
    BY Zenon, <2>1
  <2> QED
    BY Zenon, <1>1, <1>b, <2>2, <2>3, <1>LoadRing
<1>2. CASE LoadWriteIndex(p) \/ ClaimFails(p)
  BY Zenon, <1>1, <1>2 DEF LoadWriteIndex, ClaimFails, ring, history, Storing
<1>3. CASE LoadSlot(p)
  <2>1. UNCHANGED <<write_index, read_index, log_buffer, claimed, writer>>
        /\ thread[p].pc = "slot" /\ ~ Storing(p)
    BY Zenon, <1>3 DEF LoadSlot, ring, history, Storing
  <2>2. CASE Diff(p) = 0
    <3>1. Goto(p, "cas")
      BY Zenon, <1>3, <2>2 DEF LoadSlot
    <3>2. thread'[p].pc = "cas" /\ thread'[p].pos = thread[p].pos
      BY Zenon, <1>a, <1>c, <3>1, GotoEffect
    <3>3. thread[p].pos <= write_index
      BY Zenon, <2>1 DEF Ring, Position
    <3>4. PICK pos \in Nat : pos = thread[p].pos
      BY Zenon, <1>d
    <3>5. SlotOf(pos).seq = pos
      <4>1. SlotOf(pos).seq \in Int
        <5>1. Slot(pos) \in 0..(Size - 1)
          BY SlotRange
        <5> QED
          BY <5>1 DEF TypeOK, SlotOf
      <4>2. SlotOf(pos).seq - pos = 0
        BY Zenon, <2>2, <3>4 DEF Diff, SlotOf
      <4> QED
        BY <4>1, <4>2
    <3>6. thread[p].pos = write_index => write_index < Released + Size
      BY Zenon, <3>4, <3>5, <1>FreeSlot DEF SlotOf
    <3> QED
      BY Zenon, <1>b, <1>d, <2>1, <3>2, <3>3, <3>6, <1>LoadRing
  <2>3. CASE Diff(p) # 0
    <3>1. \E pc \in {"idle", "load"} : Goto(p, pc)
      BY Zenon, <1>3, <2>3 DEF LoadSlot
    <3>2. thread'[p].pc \in {"idle", "load"}
      BY <1>a, <1>c, <3>1, GotoEffect
    <3> QED
      BY Zenon, <1>e, <2>1, <3>2
  <2> QED
    BY Zenon, <2>2, <2>3
<1>4. CASE Claim(p)
  <2>1. CASE write_index # thread[p].pos
    BY Zenon, <2>1, <1>1, <1>4 DEF Claim, Storing
  <2>2. CASE write_index = thread[p].pos
    <3>1. /\ Goto(p, "data") /\ thread[p].pc = "cas"
          /\ write_index' = write_index + 1
          /\ claimed' = Append(claimed, Record(p))
          /\ UNCHANGED <<read_index, log_buffer, writer>>
      BY Zenon, <2>2, <1>4 DEF Claim
    <3>2. /\ thread'[p].pc = "data" /\ thread'[p].pos = thread[p].pos
          /\ thread'[p].n = thread[p].n
      BY Zenon, <1>a, <1>c, <3>1, GotoEffect
    <3> QED
      BY Zenon, <2>2, <1>b, <3>1, <3>2, <1>ClaimRing
  <2> QED
    BY Zenon, <2>1, <2>2
<1>5. CASE StoreData(p)
  BY Zenon, <1>5, <1>StoreRing
<1>6. CASE Publish(p)
  BY Zenon, <1>6, <1>PublishRing
<1>7. CASE Count(p)
  <2>1. \E pc \in {"idle", "notify"} : Goto(p, pc)
    BY Zenon, <1>7 DEF Count
  <2>2. thread'[p].pc \in {"idle", "notify"}
    BY Zenon, <1>a, <1>c, <2>1, GotoEffect
  <2> QED
    BY Zenon, <1>7, <1>e, <2>2 DEF Count, Storing, history
<1>8. CASE Notify(p)
  <2>1. Goto(p, "idle") /\ NotifyOne
    BY Zenon, <1>8 DEF Notify
  <2>2. thread'[p].pc = "idle"
    BY Zenon, <1>a, <1>c, <2>1, GotoEffect
  <2> QED
    BY Zenon, <1>8, <1>a, <1>e, <2>1, <2>2, NotifyEffect
       DEF Notify, Storing, ring, history
<1> QED
  BY Zenon, <1>2, <1>3, <1>4, <1>5, <1>6, <1>7, <1>8 DEF Enqueue

LEMMA EndRing ==
  ASSUME TypeOK, Ring, EndLogger
  PROVE  Ring'
<1>a. ThreadOK /\ writer \in [pc : WriterPcs, record : Data]
  BY Zenon DEF TypeOK
<1>1. UNCHANGED <<write_index, read_index, log_buffer, claimed>>
  BY Zenon DEF EndLogger, StoreStopping, NotifyStopping, Join, CloseFile, ring, history
<1>2. \/ writer' = writer
      \/ writer.pc \in {"waiting", "none", "done"} /\ writer'.pc \in {"woken", "none"}
  BY Zenon, <1>a, NotifyEffect, WriterGotoEffect
     DEF EndLogger, StoreStopping, NotifyStopping, Join, CloseFile, WriterPcs
<1>3. \/ writer' = writer
      \/ {writer.pc, writer'.pc} \cap {"take", "release", "sub", "write"} = {}
  BY Zenon, <1>2
<1> QED
  BY Zenon, <1>a, <1>1, <1>3, EndOthers, RingFrame

LEMMA WriterRing ==
   /\ TypeOK
   /\ Ring
   /\ WriteDownLogs \/ SpuriousWakeup
  => Ring'
<1>DequeueRing.
    ASSUME TypeOK, Ring, Dequeue
    PROVE  Ring'
  <2> USE <1>DequeueRing
  <2>a. Window /\ Taken /\ Slots /\ PositionsDiffer
        /\ \A q \in Producers : Position(q)
    BY Zenon DEF Ring
  <2>b. ThreadOK /\ writer \in [pc : WriterPcs, record : Data]
    BY Zenon DEF TypeOK
  <2>c. /\ read_index \in Nat /\ write_index \in Nat
        /\ Released = read_index
        /\ read_index <= write_index /\ write_index <= read_index + Size
    BY Zenon, <2>a, Bounds DEF Dequeue
  <2>d. Size \in Nat \ {0}
    BY Zenon, Constants
  <2>e. PICK r \in Nat : r = read_index
    BY Zenon, <2>c
  <2>f. UNCHANGED <<write_index, log_buffer, claimed, thread>>
        /\ \A i : SlotOf(i)' = SlotOf(i)
    BY Zenon DEF Dequeue, history, SlotOf
  <2>1. CASE SlotOf(r).seq # r + 1
    <3>1. WriterGoto("flush") /\ "flush" \in WriterPcs /\ read_index' = read_index
      BY Zenon, <2>1, <2>e DEF Dequeue, SlotOf, WriterPcs
    <3>2. writer'.pc = "flush"
      BY Zenon, <3>1, <2>b, WriterGotoEffect
    <3> QED
      BY Zenon, <3>1, <3>2, <2>f, RingFrame DEF Dequeue
  <2>2. CASE SlotOf(r).seq = r + 1
    <3>1. read_index' = r + 1 /\ WriterGoto("take") /\ "take" \in WriterPcs
      BY Zenon, <2>2, <2>e DEF Dequeue, SlotOf, WriterPcs
    <3>2. writer'.pc = "take"
      BY Zenon, <3>1, <2>b, WriterGotoEffect
    <3>3. Released' = Released
      BY <3>1, <3>2, <2>c, <2>e DEF Released
    <3>4. r < write_index
      BY <2>2, <2>a, <2>c, <2>d, <2>e DEF Slots
    <3>5. \A q \in Producers : Storing(q) => thread[q].pos # r
      BY <2>2, <2>a, <2>e DEF Position
    <3>6. SlotOf(r).data = claimed[r + 1]
      BY <3>4, <3>5, <2>a, <2>c, <2>e DEF Slots, Filled
    <3>7. \A q \in Producers : thread[q].pos \in Nat
      BY Zenon, <2>b DEF ThreadOK, Thread, Callers
    <3>8. Window'
      BY <3>1, <3>3, <3>4, <2>a, <2>c, <2>e, <2>f DEF Window
    <3>9. ASSUME NEW q \in Producers PROVE Position(q)'
      <4>1. PICK at \in Nat : at = thread[q].pos
        BY Zenon, <3>7
      <4>2. Storing(q) => r <= at /\ at # r
        BY Zenon, <3>5, <4>1, <2>a, <2>e DEF Position
      <4>3. Storing(q) => r + 1 <= at
        BY <4>2
      <4>4. Position(q) /\ thread'[q] = thread[q]
        BY Zenon, <2>a, <2>f
      <4> QED
        BY Zenon, <3>1, <3>3, <2>f, <4>1, <4>3, <4>4
           DEF Position, Storing, Record, SlotOf
    <3>10. PositionsDiffer'
      BY Zenon, <2>a, <2>f DEF PositionsDiffer, Storing
    <3>11. Slots'
      <4>1. ASSUME NEW i \in Nat, r + 1 <= i, i < write_index PROVE Filled(i)'
        <5>1. Filled(i)
          BY <4>1, <2>a, <2>e DEF Slots
        <5> QED
          BY Zenon, <5>1, <2>f DEF Filled, Storing
      <4> QED
        BY Zenon, <4>1, <3>1, <3>3, <2>a, <2>f DEF Slots
    <3>12. Taken'
      <4>1. read_index' - 1 = r
        BY <3>1
      <4> QED
        BY Zenon, <4>1, <2>2, <3>1, <3>2, <3>6, <2>f DEF Taken, SlotOf
    <3> QED
      BY Zenon, <3>8, <3>9, <3>10, <3>11, <3>12 DEF Ring
  <2> QED
    BY Zenon, <2>1, <2>2
<1>TakeRing.
    ASSUME TypeOK, Ring, TakeData
    PROVE  Ring'
  <2> USE <1>TakeRing
  <2>a. Window /\ Taken /\ Slots /\ PositionsDiffer
        /\ \A q \in Producers : Position(q)
    BY Zenon DEF Ring
  <2>b. ThreadOK
    BY Zenon DEF TypeOK
  <2>c. /\ read_index \in Nat /\ write_index \in Nat /\ Released \in Nat
        /\ Released = read_index - 1
        /\ read_index <= write_index /\ write_index <= Released + Size
    BY Zenon, <2>a, Bounds DEF TakeData
  <2>e. PICK r \in Nat : r = read_index - 1
    BY Zenon, <2>c
  <2>f. /\ UNCHANGED <<write_index, read_index, claimed, thread>>
        /\ writer'.pc = "release" /\ writer'.record = SlotOf(r).data
    BY Zenon, <2>e DEF TakeData, history, SlotOf
  <2>g. Released' = Released
    BY Zenon, <2>f DEF Released, TakeData
  <2>h. /\ \A i \in Int : SlotOf(i)'.seq = SlotOf(i).seq
        /\ \A i \in Int : Slot(i) # Slot(r) => SlotOf(i)' = SlotOf(i)
    <3>1. log_buffer' = [log_buffer EXCEPT ![Slot(r)].data = Empty]
      BY Zenon, <2>e DEF TakeData
    <3> QED
      BY Zenon, <3>1, SlotRange DEF TypeOK, SlotOf
  <2>i. \A i \in Nat : read_index <= i /\ i < Released + Size =>
          SlotOf(i)' = SlotOf(i)
    BY <2>e, <2>h, TakenApart DEF TakeData
  <2>1. Window'
    BY <2>a, <2>c, <2>f, <2>g DEF Window
  <2>2. ASSUME NEW q \in Producers PROVE Position(q)'
    <3>1. PICK at \in Nat : at = thread[q].pos
      BY Zenon, <2>b DEF ThreadOK, Thread, Callers
    <3>2. Storing(q) => SlotOf(at)' = SlotOf(at)
      BY <3>1, <2>a, <2>c, <2>i, Constants DEF Position
    <3> QED
      BY Zenon, <3>1, <3>2, <2>a, <2>f, <2>g DEF Position, Storing, Record, SlotOf
  <2>3. PositionsDiffer'
    BY Zenon, <2>a, <2>f DEF PositionsDiffer, Storing
  <2>4. Slots'
    <3>1. ASSUME NEW i \in Nat, read_index <= i, i < write_index PROVE Filled(i)'
      <4>1. Filled(i) /\ SlotOf(i)' = SlotOf(i)
        BY <3>1, <2>a, <2>c, <2>i, Constants DEF Slots
      <4> QED
        BY Zenon, <4>1, <2>f DEF Filled, Storing
    <3> QED
      BY <3>1, <2>a, <2>f, <2>g, <2>h DEF Slots
  <2>5. Taken'
    <3>1. SlotOf(r)'.seq = r + 1
      BY <2>a, <2>c, <2>e, <2>h DEF Taken, TakeData
    <3>2. SlotOf(r).data = claimed[r + 1]
      BY <2>a, <2>c, <2>e DEF Taken, TakeData
    <3> QED
      BY <3>1, <3>2, <2>c, <2>e, <2>f DEF Taken, SlotOf
  <2> QED
    BY Zenon, <2>1, <2>2, <2>3, <2>4, <2>5 DEF Ring
<1>ReleaseRing.
    ASSUME TypeOK, Ring, ReleaseSlot
    PROVE  Ring'
  <2> USE <1>ReleaseRing
  <2>a. Window /\ Taken /\ Slots /\ PositionsDiffer
        /\ \A q \in Producers : Position(q)
    BY Zenon DEF Ring
  <2>b. ThreadOK /\ writer \in [pc : WriterPcs, record : Data]
    BY Zenon DEF TypeOK
  <2>c. /\ read_index \in Nat /\ write_index \in Nat /\ Released \in Nat
        /\ Released = read_index - 1
        /\ read_index <= write_index /\ write_index <= Released + Size
    BY Zenon, <2>a, Bounds DEF ReleaseSlot
  <2>d. Size \in Nat \ {0}
    BY Zenon, Constants
  <2>e. PICK r \in Nat : r = read_index - 1
    BY Zenon, <2>c
  <2>f. /\ UNCHANGED <<write_index, read_index, claimed, thread>>
        /\ writer'.pc = "sub" /\ writer'.record = writer.record
    <3>1. WriterGoto("sub") /\ "sub" \in WriterPcs
      BY Zenon DEF ReleaseSlot, WriterPcs
    <3> QED
      BY Zenon, <3>1, <2>b, WriterGotoEffect DEF ReleaseSlot, history
  <2>g. Released' = r + 1 /\ Released = r /\ read_index = r + 1
    BY <2>c, <2>e, <2>f DEF Released
  <2>h. /\ SlotOf(r)'.seq = r + Size
        /\ \A i \in Int : Slot(i) # Slot(r) => SlotOf(i)' = SlotOf(i)
    <3>1. log_buffer' = [log_buffer EXCEPT ![Slot(r)].seq = r + Size]
      BY Zenon, <2>e DEF ReleaseSlot
    <3> QED
      BY <3>1, SlotRange DEF TypeOK, SlotOf
  <2>i. \A i \in Nat : read_index <= i /\ i < r + Size => SlotOf(i)' = SlotOf(i)
    BY <2>e, <2>g, <2>h, TakenApart DEF ReleaseSlot
  <2>j. SlotOf(r + Size)'.seq = r + Size
    BY <2>d, <2>h, SlotAgain DEF SlotOf
  <2>1. Window'
    BY <2>a, <2>c, <2>d, <2>f, <2>g DEF Window
  <2>2. ASSUME NEW q \in Producers PROVE Position(q)'
    <3>1. PICK at \in Nat : at = thread[q].pos
      BY Zenon, <2>b DEF ThreadOK, Thread, Callers
    <3>2. Storing(q) => SlotOf(at)' = SlotOf(at)
      <4>1. Storing(q) => read_index <= at /\ at < write_index
        BY Zenon, <3>1, <2>a DEF Position
      <4>2. at < write_index => at < r + Size
        BY <2>c, <2>d, <2>g
      <4> QED
        BY Zenon, <4>1, <4>2, <2>i
    <3>3. write_index < Released + Size => write_index < Released' + Size
      BY <2>c, <2>d, <2>g
    <3> QED
      BY Zenon, <3>1, <3>2, <3>3, <2>a, <2>f DEF Position, Storing, Record, SlotOf
  <2>3. PositionsDiffer'
    BY Zenon, <2>a, <2>f DEF PositionsDiffer, Storing
  <2>4. Slots'
    <3>1. ASSUME NEW i \in Nat, read_index <= i, i < write_index PROVE Filled(i)'
      <4>1. Filled(i) /\ SlotOf(i)' = SlotOf(i)
        BY <3>1, <2>a, <2>c, <2>d, <2>g, <2>i DEF Slots
      <4> QED
        BY Zenon, <4>1, <2>f DEF Filled, Storing
    <3>2. ASSUME NEW i \in Nat, write_index <= i, i < r + 1 + Size
          PROVE  SlotOf(i)'.seq = i
      <4>1. CASE i = r + Size
        BY Zenon, <4>1, <2>j
      <4>2. CASE i # r + Size
        BY <4>2, <3>2, <2>a, <2>c, <2>d, <2>g, <2>i DEF Slots
      <4> QED
        BY Zenon, <4>1, <4>2
    <3> QED
      BY Zenon, <3>1, <3>2, <2>f, <2>g DEF Slots
  <2>5. Taken'
    BY Zenon, <2>a, <2>f DEF Taken, ReleaseSlot
  <2> QED
    BY Zenon, <2>1, <2>2, <2>3, <2>4, <2>5 DEF Ring
\* Discount and WriteRecord: the slot has been released.
<1>DoneRing.
    ASSUME TypeOK, Ring,
           UNCHANGED <<write_index, read_index, log_buffer, claimed, thread>>,
           \/ writer.pc = "sub" /\ writer'.pc = "write"
              /\ writer'.record = writer.record
           \/ writer.pc = "write" /\ writer'.pc = "dequeue"
    PROVE  Ring'
  <2> USE <1>DoneRing
  <2>a. Window /\ Taken /\ Slots /\ PositionsDiffer
        /\ \A q \in Producers : Position(q)
    BY Zenon DEF Ring
  <2>1. /\ Released' = Released
        /\ \A i : SlotOf(i)' = SlotOf(i)
        /\ \A q : (Storing(q)' <=> Storing(q)) /\ Record(q)' = Record(q)
    BY Zenon DEF Released, SlotOf, Storing, Record
  <2>2. Window'
    BY Zenon, <2>1, <2>a DEF Window
  <2>3. \A q \in Producers : Position(q)'
    BY Zenon, <2>1, <2>a DEF Position, SlotOf
  <2>4. PositionsDiffer'
    BY Zenon, <2>1, <2>a DEF PositionsDiffer
  <2>5. Slots'
    BY Zenon, <2>1, <2>a DEF Slots, Filled
  <2>6. Taken'
    BY Zenon, <2>1, <2>a DEF Taken, SlotOf
  <2> QED
    BY Zenon, <2>2, <2>3, <2>4, <2>5, <2>6 DEF Ring
<1> SUFFICES ASSUME TypeOK, Ring, WriteDownLogs \/ SpuriousWakeup
             PROVE  Ring'
  BY Zenon
<1>a. writer \in [pc : WriterPcs, record : Data]
  BY Zenon DEF TypeOK
<1>1. CASE Dequeue \/ TakeData \/ ReleaseSlot
  BY Zenon, <1>1, <1>DequeueRing, <1>TakeRing, <1>ReleaseRing
<1>2. CASE Discount
  <2>1. WriterGoto("write") /\ "write" \in WriterPcs
    BY Zenon, <1>2 DEF Discount, WriterPcs
  <2>2. writer'.pc = "write" /\ writer'.record = writer.record
    BY Zenon, <1>a, <2>1, WriterGotoEffect
  <2> QED
    BY Zenon, <1>2, <2>2, <1>DoneRing DEF Discount, history
<1>3. CASE WriteRecord
  <2>1. writer'.pc = "dequeue"
    BY Zenon, <1>3 DEF WriteRecord
  <2> QED
    BY Zenon, <1>3, <2>1, <1>DoneRing DEF WriteRecord, ring
<1>4. CASE \/ TestStopping \/ TestPending \/ Flush \/ LockToSleep
           \/ RecheckStopping \/ Sleep \/ WakeUp \/ SpuriousWakeup
  <2> DEFINE Rest == {"test", "pending", "dequeue", "flush", "lock", "recheck",
                      "sleep", "waiting", "woken", "done"}
  <2>1. writer.pc \in Rest /\ \E pc \in Rest : WriterGoto(pc)
    BY Zenon, <1>4 DEF TestStopping, TestPending, Flush, LockToSleep,
                RecheckStopping, Sleep, WakeUp, SpuriousWakeup
  <2>2. Rest \subseteq WriterPcs
    BY Zenon DEF WriterPcs
  <2>3. writer'.pc \in Rest
    BY Zenon, <1>a, <2>1, <2>2, WriterGotoEffect
  <2>4. {writer.pc, writer'.pc} \cap {"take", "release", "sub", "write"} = {}
    BY Zenon, <2>1, <2>3
  <2>5. UNCHANGED <<write_index, read_index, log_buffer, claimed, thread>>
    BY Zenon, <1>4 DEF TestStopping, TestPending, Flush, LockToSleep,
                RecheckStopping, Sleep, WakeUp, SpuriousWakeup, ring, history
  <2> QED
    BY Zenon, <2>4, <2>5, RingFrame
<1> QED
  BY Zenon, <1>1, <1>2, <1>3, <1>4 DEF WriteDownLogs

-----------------------------------------------------------------------------
(***************************************************************************)
(* The log.                                                                *)
(***************************************************************************)

LEMMA LoggedFrame ==
  ASSUME TypeOK, Ring, Logged, written' = written,
         read_index' - InHand' = read_index - InHand,
         \/ claimed' = claimed
         \/ \E p \in Producers : Record(p) \in Records
                                 /\ claimed' = Append(claimed, Record(p))
  PROVE  Logged'
<1>1. /\ claimed \in Seq(Records) /\ written \in Seq(Data)
      /\ read_index \in Nat /\ write_index \in Nat
  BY Zenon DEF TypeOK
<1>2. Len(written) <= Len(claimed)
  BY <1>1 DEF Ring, Window, Logged, InHand
<1>3. \A i \in 1..Len(written) : claimed'[i] = claimed[i]
  <2>1. CASE claimed' = claimed
    BY Zenon, <2>1
  <2>2. ASSUME NEW p \in Producers, Record(p) \in Records,
               claimed' = Append(claimed, Record(p))
        PROVE  \A i \in 1..Len(written) : claimed'[i] = claimed[i]
    <3>1. \A i \in 1..Len(claimed) : claimed'[i] = claimed[i]
      BY <1>1, <2>2
    <3> QED
      BY <1>1, <1>2, <3>1
  <2> QED
    BY Zenon, <2>1, <2>2
<1> QED
  BY Zenon, <1>3 DEF Logged

LEMMA StartLogged ==
  ASSUME TypeOK, Phase, Ring, Logged, NEW t \in Callers, GetLogger(t) \/ Start(t)
  PROVE  Logged'
<1>a. writer \in [pc : WriterPcs, record : Data] /\ read_index \in Nat
  BY Zenon DEF TypeOK
<1>1. ASSUME NEW fails, StartLogger(t, fails), ~ is_initialized
      PROVE  Logged'
  <2>1. writer'.pc = "none"
    BY Zenon, <1>1 DEF StartLogger, Phase
  <2>2. read_index' = 0 /\ written' = <<>> /\ InHand' = 0
    BY Zenon, <1>1, <2>1 DEF StartLogger, InHand
  <2> QED
    BY <2>2, SeqEmpty DEF Logged
<1>2. CASE UNCHANGED <<read_index, written, claimed>>
  <2>1. InHand' = InHand
    <3>1. CASE SpawnWriter(t)
      <4>1. writer.pc = "none" /\ writer'.pc = "test"
        BY Zenon, <3>1, <1>a DEF SpawnWriter, Phase
      <4> QED
        BY Zenon, <4>1 DEF InHand
    <3>2. CASE ~ SpawnWriter(t)
      BY Zenon, <3>2 DEF GetLogger, Start, CheckInitialized, StartLogger, InHand
    <3> QED
      BY Zenon, <3>1, <3>2
  <2> QED
    BY Zenon, <1>2, <2>1, LoggedFrame
<1>3. \/ UNCHANGED <<read_index, written, claimed>>
      \/ ~ is_initialized /\ \E fails \in {FALSE, OpenFails} : StartLogger(t, fails)
  BY Zenon DEF GetLogger, Start, CheckInitialized, StartLogger, SpawnWriter, ring,
         history
<1> QED
  BY Zenon, <1>1, <1>2, <1>3

LEMMA EnqueueLogged ==
  ASSUME TypeOK, Ring, Logged, NEW p \in Producers, Enqueue(p) \/ ClaimFails(p)
  PROVE  Logged'
<1>a. writer \in [pc : WriterPcs, record : Data] /\ read_index \in Nat /\ ThreadOK
  BY Zenon DEF TypeOK
<1>1. read_index' = read_index /\ written' = written
  BY Zenon DEF Enqueue, ClaimFails, LoadWriteIndex, LoadSlot, Claim, StoreData,
         Publish, Count, Notify, ring, history
<1>2. InHand' = InHand
  BY Zenon, <1>a, NotifyEffect
     DEF Enqueue, ClaimFails, LoadWriteIndex, LoadSlot, Claim, StoreData,
         Publish, Count, Notify, InHand
<1>3. Record(p) \in Records
  <2>1. thread[p].pc # "idle"
    BY Zenon DEF Enqueue, ClaimFails, LoadWriteIndex, LoadSlot, Claim, StoreData,
           Publish, Count, Notify
  <2> QED
    BY Zenon, <1>a, <2>1, RecordType
<1>4. claimed' = claimed \/ claimed' = Append(claimed, Record(p))
  BY Zenon DEF Enqueue, ClaimFails, LoadWriteIndex, LoadSlot, Claim, StoreData,
         Publish, Count, Notify, history
<1> QED
  BY Zenon, <1>1, <1>2, <1>3, <1>4, LoggedFrame

LEMMA EndLogged ==
  ASSUME TypeOK, Ring, Logged, EndLogger
  PROVE  Logged'
<1>a. writer \in [pc : WriterPcs, record : Data] /\ read_index \in Nat
  BY Zenon DEF TypeOK
<1>1. UNCHANGED <<read_index, written, claimed>>
  BY Zenon DEF EndLogger, StoreStopping, NotifyStopping, Join, CloseFile, ring, history
<1>2. InHand' = InHand
  BY Zenon, <1>a, NotifyEffect, WriterGotoEffect
     DEF EndLogger, StoreStopping, NotifyStopping, Join, CloseFile, WriterPcs,
         InHand
<1> QED
  BY Zenon, <1>1, <1>2, LoggedFrame

LEMMA WriterLogged ==
  ASSUME TypeOK, Phase, Ring, Logged, WriteDownLogs \/ SpuriousWakeup
  PROVE  Logged'
<1>a. /\ writer \in [pc : WriterPcs, record : Data] /\ read_index \in Nat
      /\ written \in Seq(Data)
  BY Zenon DEF TypeOK
<1>1. CASE WriteRecord
  <2>1. disk.open
    BY Zenon, <1>1 DEF WriteRecord, Phase
  <2>2. /\ written' = Append(written, writer.record) /\ claimed' = claimed
        /\ read_index' = read_index /\ writer.pc = "write"
        /\ writer'.pc = "dequeue"
    BY Zenon, <1>1, <2>1 DEF WriteRecord, ring
  <2>3. writer.record = claimed[read_index]
    BY Zenon, <2>2 DEF Ring, Taken
  <2>4. Len(written) = read_index - 1
    BY Zenon, <2>2 DEF Logged, InHand
  <2>5. Len(written') = Len(written) + 1
        /\ \A i \in 1..Len(written) : written'[i] = written[i]
        /\ written'[Len(written) + 1] = writer.record
    BY <1>a, <2>2
  <2>6. InHand' = 0
    BY Zenon, <2>2 DEF InHand
  <2> QED
    BY <1>a, <2>2, <2>3, <2>4, <2>5, <2>6 DEF Logged
<1>2. CASE Dequeue
  <2>1. writer.pc = "dequeue" /\ written' = written /\ claimed' = claimed
    BY Zenon, <1>2 DEF Dequeue, history
  <2>2. \/ read_index' = read_index + 1 /\ writer'.pc = "take"
        \/ read_index' = read_index /\ writer'.pc = "flush"
    BY Zenon, <1>2, <1>a, WriterGotoEffect DEF Dequeue, WriterPcs
  <2>3. read_index' - InHand' = read_index - InHand
    BY <1>a, <2>1, <2>2 DEF InHand
  <2> QED
    BY Zenon, <2>1, <2>3, LoggedFrame
<1>3. CASE ~ WriteRecord /\ ~ Dequeue
  <2>1. UNCHANGED <<read_index, written, claimed>>
    BY Zenon, <1>3 DEF WriteDownLogs, TestStopping, TestPending, TakeData, ReleaseSlot,
         Discount, Flush, LockToSleep, RecheckStopping, Sleep, WakeUp,
         SpuriousWakeup, ring, history
  <2>2. InHand' = InHand
    BY <1>3, <1>a, WriterGotoEffect
       DEF WriteDownLogs, TestStopping, TestPending, TakeData, ReleaseSlot,
         Discount, Flush, LockToSleep, RecheckStopping, Sleep, WakeUp,
         SpuriousWakeup, WriterPcs, InHand
  <2> QED
    BY Zenon, <2>1, <2>2, LoggedFrame
<1> QED
  BY Zenon, <1>1, <1>2, <1>3

\* Nothing is left when the writer has ended.
Emptied ==
  writer.pc = "done" \/ thread[Main].pc = "close" => read_index = write_index

IInv == TypeOK /\ Phase /\ Ring /\ Logged /\ PendingCounts /\ Emptied

-----------------------------------------------------------------------------
(***************************************************************************)
(* The count.                                                              *)
(***************************************************************************)

\* The theorems about finite sets, instantiated here because only what follows
\* counts, with the operators they are about.
FST == INSTANCE FiniteSetTheorems

LEMMA SameFinite == \A S : FST!IsFiniteSet(S) <=> IsFiniteSet(S)
BY SMT DEF IsFiniteSet, FST!IsFiniteSet

LEMMA SameCardinality == \A S : FST!Cardinality(S) = Cardinality(S)
BY Zenon DEF Cardinality, FST!Cardinality

LEMMA CountEmpty == Cardinality({}) = 0
BY Zenon, SameCardinality, FST!FS_EmptySet

\* A finite set has a number of elements, and so have its subsets.
LEMMA CountType ==
  ASSUME NEW S, IsFiniteSet(S), NEW T \in SUBSET S
  PROVE  IsFiniteSet(T) /\ Cardinality(T) \in Nat
<1>1. FST!IsFiniteSet(T)
  BY Zenon, SameFinite, FST!FS_Subset
<1>2. FST!Cardinality(T) \in Nat
  BY Zenon, <1>1, FST!FS_CardinalityType
<1> QED
  BY Zenon, <1>1, <1>2, SameFinite, SameCardinality

\* One element more, or one less.
LEMMA CountStep ==
  ASSUME NEW S, NEW x, IsFiniteSet(S)
  PROVE  /\ x \notin S => Cardinality(S \cup {x}) = Cardinality(S) + 1
         /\ x \in S => Cardinality(S \ {x}) = Cardinality(S) - 1
<1>1. FST!IsFiniteSet(S)
  BY Zenon, SameFinite
<1>2. /\ x \notin S => FST!Cardinality(S \cup {x}) = FST!Cardinality(S) + 1
      /\ x \in S => FST!Cardinality(S \ {x}) = FST!Cardinality(S) - 1
  BY Zenon, <1>1, FST!FS_AddElement, FST!FS_RemoveElement
<1> QED
  BY Zenon, <1>2, SameCardinality

LEMMA UncountedFinite ==
  IsFiniteSet(Uncounted) /\ Cardinality(Uncounted) \in Nat
<1>1. IsFiniteSet(Producers) /\ Uncounted \subseteq Producers
  BY Zenon, LoggerAssumption DEF Uncounted
<1> QED
  BY Zenon, <1>1, CountType

LEMMA PendingFrame ==
  ASSUME PendingCounts, pending' = pending, write_index' = write_index,
         Uncounted' = Uncounted, Discounted' = Discounted
  PROVE  PendingCounts'
BY Zenon DEF PendingCounts

LEMMA StartPending ==
  ASSUME TypeOK, Phase, Ring, PendingCounts, NEW t \in Callers,
         GetLogger(t) \/ Start(t)
  PROVE  PendingCounts'
<1>a. ThreadOK /\ writer \in [pc : WriterPcs, record : Data]
      /\ Producers \subseteq Callers
  BY Zenon DEF TypeOK, Callers
<1>b. \A u \in Callers \ {t} : thread'[u] = thread[u]
  BY Zenon, <1>a, StartOthers
<1>c. thread[t].pc \in {"idle", "check", "lock", "spawn"}
  BY Zenon DEF GetLogger, Start, CheckInitialized, StartLogger, SpawnWriter
<1>d. thread'[t].pc \in {"check", "load", "stop", "lock", "spawn"}
  <2>1. CASE GetLogger(t)
    BY Zenon, <2>1, <1>a DEF GetLogger, ThreadOK, Thread
  <2>2. CASE Start(t)
    <3>1. \E pc \in {"load", "stop", "lock", "spawn"} : Goto(t, pc)
      BY Zenon, <2>2 DEF Start, CheckInitialized, StartLogger, SpawnWriter, AfterStart
    <3>2. {"load", "stop", "lock", "spawn"} \subseteq ThreadPcs
      BY Zenon DEF ThreadPcs, StartPcs, EnqueuePcs, EndPcs
    <3> QED
      BY <1>a, <3>1, <3>2, GotoEffect DEF ThreadOK
  <2> QED
    BY Zenon, <2>1, <2>2
<1>e. Uncounted' = Uncounted
  BY Zenon, <1>a, <1>b, <1>c, <1>d DEF Uncounted
<1>1. CASE UNCHANGED <<write_index, read_index, pending>>
  <2>1. Discounted' = Discounted
    <3>1. CASE SpawnWriter(t)
      <4>1. writer.pc = "none" /\ writer'.pc = "test"
        BY Zenon, <3>1, <1>a DEF SpawnWriter, Phase
      <4> QED
        BY Zenon, <4>1, <1>1 DEF Discounted
    <3>2. CASE ~ SpawnWriter(t)
      BY Zenon, <1>1, <3>2 DEF GetLogger, Start, CheckInitialized, StartLogger, Discounted
    <3> QED
      BY Zenon, <3>1, <3>2
  <2> QED
    BY Zenon, <1>1, <1>e, <2>1, PendingFrame
<1>2. ASSUME NEW fails, StartLogger(t, fails), ~ is_initialized
      PROVE  PendingCounts'
  <2>1. /\ writer'.pc = "none"
        /\ pending' = 0 /\ write_index' = 0 /\ read_index' = 0
    BY Zenon, <1>2 DEF StartLogger, Phase
  <2>2. Discounted' = 0
    <3>1. Discounted' = 0 - 0
      BY Zenon, <2>1 DEF Discounted
    <3> QED
      BY <3>1
  <2>3. Uncounted = {}
    BY Zenon, <1>a, <1>2 DEF Phase, Uncounted
  <2>4. Cardinality(Uncounted') = 0
    BY Zenon, <1>e, <2>3, CountEmpty
  <2>5. 0 % Span = 0
    BY Constants
  <2> QED
    BY <2>1, <2>2, <2>4, <2>5 DEF PendingCounts
<1>3. \/ UNCHANGED <<write_index, read_index, pending>>
      \/ ~ is_initialized /\ \E fails \in {FALSE, OpenFails} : StartLogger(t, fails)
  BY Zenon DEF GetLogger, Start, CheckInitialized, StartLogger, SpawnWriter, ring
<1> QED
  BY Zenon, <1>1, <1>2, <1>3

LEMMA EnqueuePending ==
  ASSUME TypeOK, Ring, PendingCounts, NEW p \in Producers,
         Enqueue(p) \/ ClaimFails(p)
  PROVE  PendingCounts'
<1>a. /\ ThreadOK /\ writer \in [pc : WriterPcs, record : Data]
      /\ thread \in [Callers -> Thread] /\ p \in Callers
      /\ Producers \subseteq Callers
      /\ write_index \in Nat /\ read_index \in Nat
  BY Zenon DEF TypeOK, Callers, ThreadOK
<1>b. \A q \in Producers \ {p} : thread'[q] = thread[q]
  BY Zenon, <1>a, EnqueueOthers
<1>c. {"idle", "slot", "cas", "load", "data", "publish", "count", "notify"}
        \subseteq ThreadPcs
  BY Zenon DEF ThreadPcs, StartPcs, EnqueuePcs
<1>d. Discounted' = Discounted /\ Discounted \in Int
  <2>1. read_index' = read_index
    BY Zenon DEF Enqueue, ClaimFails, LoadWriteIndex, LoadSlot, Claim, StoreData,
           Publish, Count, Notify, ring
  <2>2. writer' = writer \/ (writer.pc = "waiting" /\ writer'.pc = "woken")
    <3>1. CASE Notify(p)
      BY Zenon, <1>a, <3>1, NotifyEffect DEF Notify
    <3>2. CASE ~ Notify(p)
      BY Zenon, <3>2 DEF Enqueue, ClaimFails, LoadWriteIndex, LoadSlot, Claim,
                  StoreData, Publish, Count
    <3> QED
      BY Zenon, <3>1, <3>2
  <2> QED
    BY <1>a, <2>1, <2>2 DEF Discounted
<1>e. ASSUME NEW pc \in ThreadPcs, Goto(p, pc) PROVE thread'[p].pc = pc
  BY Zenon, <1>a, <1>e, GotoEffect
<1>1. ASSUME UNCHANGED <<pending, write_index>>,
             p \in Uncounted <=>
               thread'[p].pc \in {"data", "publish", "count"}
      PROVE  PendingCounts'
  <2>1. Uncounted' = Uncounted
    BY Zenon, <1>b, <1>1 DEF Uncounted
  <2> QED
    BY <1>1, <1>d, <2>1, PendingFrame
<1>2. ASSUME GotoWith(p, "slot", write_index), p \notin Uncounted,
             UNCHANGED <<pending, write_index>>
      PROVE  PendingCounts'
  <2>1. thread'[p].pc = "slot"
    BY Zenon, <1>a, <1>2 DEF GotoWith, Thread
  <2> QED
    BY Zenon, <1>1, <1>2, <2>1
<1>3. CASE LoadWriteIndex(p) \/ ClaimFails(p)
  BY Zenon, <1>2, <1>3 DEF LoadWriteIndex, ClaimFails, ring, Uncounted
<1>4. CASE LoadSlot(p)
  <2>1. \E pc \in {"idle", "load", "cas"} : Goto(p, pc)
    BY Zenon, <1>4 DEF LoadSlot
  <2>2. thread'[p].pc \in {"idle", "load", "cas"}
    BY Zenon, <1>c, <1>e, <2>1
  <2> QED
    BY Zenon, <1>1, <1>4, <2>2 DEF LoadSlot, ring, Uncounted
<1>5. CASE Claim(p)
  <2>1. CASE write_index # thread[p].pos
    BY Zenon, <2>1, <1>2, <1>5 DEF Claim, Uncounted
  <2>2. CASE write_index = thread[p].pos
    <3>1. /\ Goto(p, "data") /\ write_index' = write_index + 1
          /\ pending' = pending /\ thread[p].pc = "cas"
      BY Zenon, <1>5, <2>2 DEF Claim
    <3>2. thread'[p].pc = "data"
      BY Zenon, <1>c, <1>e, <3>1
    <3>3. p \notin Uncounted /\ Uncounted' = Uncounted \cup {p}
      BY Zenon, <1>b, <3>1, <3>2 DEF Uncounted
    <3>4. Cardinality(Uncounted') = Cardinality(Uncounted) + 1
      BY Zenon, <3>3, UncountedFinite, CountStep
    <3>5. write_index' - Cardinality(Uncounted') - Discounted'
            = write_index - Cardinality(Uncounted) - Discounted
      BY <1>a, <1>d, <3>1, <3>4, UncountedFinite
    <3> QED
      BY Zenon, <3>1, <3>5 DEF PendingCounts
  <2> QED
    BY Zenon, <2>1, <2>2
<1>6. CASE StoreData(p)
  <2>1. thread'[p].pc = "publish"
    BY Zenon, <1>c, <1>e, <1>6 DEF StoreData
  <2> QED
    BY Zenon, <1>1, <1>6, <2>1 DEF StoreData, Uncounted
<1>7. CASE Publish(p)
  <2>1. thread'[p].pc = "count"
    BY Zenon, <1>c, <1>e, <1>7 DEF Publish
  <2> QED
    BY Zenon, <1>1, <1>7, <2>1 DEF Publish, Uncounted
<1>8. CASE Count(p)
  <2>1. /\ pending' = (pending + 1) % Span /\ write_index' = write_index
        /\ thread[p].pc = "count"
    BY Zenon, <1>8 DEF Count
  <2>2. \E pc \in {"idle", "notify"} : Goto(p, pc)
    BY Zenon, <1>8 DEF Count
  <2>3. thread'[p].pc \in {"idle", "notify"}
    BY Zenon, <1>c, <1>e, <2>2
  <2>4. p \in Uncounted /\ Uncounted' = Uncounted \ {p}
    BY Zenon, <1>b, <2>1, <2>3 DEF Uncounted
  <2>5. Cardinality(Uncounted') = Cardinality(Uncounted) - 1
    BY Zenon, <2>4, UncountedFinite, CountStep
  <2>6. PICK n \in Int : n = write_index - Cardinality(Uncounted) - Discounted
    BY <1>a, <1>d, UncountedFinite
  <2>7. write_index' - Cardinality(Uncounted') - Discounted' = n + 1
    BY <1>a, <1>d, <2>1, <2>5, <2>6, UncountedFinite
  <2>8. pending = n % Span
    BY Zenon, <2>6 DEF PendingCounts
  <2>9. ((n % Span) + 1) % Span = (n + 1) % Span
    <3>1. PICK k \in Int : k = 1
      OBVIOUS
    <3>2. ((n % Span) + k) % Span = (n + k) % Span
      BY Zenon, Constants, ModStep
    <3> QED
      BY Zenon, <3>1, <3>2
  <2> QED
    BY Zenon, <2>1, <2>7, <2>8, <2>9 DEF PendingCounts
<1>9. CASE Notify(p)
  <2>1. thread'[p].pc = "idle"
    BY Zenon, <1>c, <1>e, <1>9 DEF Notify
  <2> QED
    BY Zenon, <1>1, <1>9, <2>1 DEF Notify, ring, Uncounted
<1> QED
  BY <1>3, <1>4, <1>5, <1>6, <1>7, <1>8, <1>9 DEF Enqueue

LEMMA EndPending ==
  ASSUME TypeOK, PendingCounts, EndLogger
  PROVE  PendingCounts'
<1>a. ThreadOK /\ writer \in [pc : WriterPcs, record : Data]
  BY Zenon DEF TypeOK
<1>1. UNCHANGED <<write_index, read_index, pending>>
  BY Zenon DEF EndLogger, StoreStopping, NotifyStopping, Join, CloseFile, ring
<1>2. Uncounted' = Uncounted
  BY Zenon, <1>a, EndOthers DEF Uncounted
<1>3. \/ writer' = writer
      \/ writer.pc \in {"waiting", "none", "done"} /\ writer'.pc \in {"woken", "none"}
  BY Zenon, <1>a, NotifyEffect, WriterGotoEffect
     DEF EndLogger, StoreStopping, NotifyStopping, Join, CloseFile, WriterPcs
<1>4. Discounted' = Discounted
  BY Zenon, <1>1, <1>3 DEF Discounted
<1> QED
  BY Zenon, <1>1, <1>2, <1>4, PendingFrame

LEMMA WriterPending ==
  ASSUME TypeOK, PendingCounts, WriteDownLogs \/ SpuriousWakeup
  PROVE  PendingCounts'
<1>a. /\ writer \in [pc : WriterPcs, record : Data]
      /\ write_index \in Nat /\ read_index \in Nat
  BY Zenon DEF TypeOK
<1>b. Uncounted' = Uncounted /\ write_index' = write_index
  BY Zenon DEF WriteDownLogs, TestStopping, TestPending, Dequeue, TakeData,
         ReleaseSlot, Discount, WriteRecord, Flush, LockToSleep,
         RecheckStopping, Sleep, WakeUp, SpuriousWakeup, ring, Uncounted
<1>1. CASE Discount
  <2>1. /\ writer.pc = "sub" /\ pending' = (pending - 1) % Span
        /\ read_index' = read_index
    BY Zenon, <1>1 DEF Discount
  <2>2. writer'.pc = "write"
    BY Zenon, <1>1, <1>a, WriterGotoEffect DEF Discount, WriterPcs
  <2>3. Discounted' = Discounted + 1 /\ Discounted \in Int
    BY <1>a, <2>1, <2>2 DEF Discounted
  <2>4. PICK n \in Int : n = write_index - Cardinality(Uncounted) - Discounted
    BY <1>a, <2>3, UncountedFinite
  <2>5. write_index' - Cardinality(Uncounted') - Discounted' = n - 1
    BY <1>a, <1>b, <2>3, <2>4, UncountedFinite
  <2>6. pending = n % Span
    BY Zenon, <2>4 DEF PendingCounts
  <2>7. ((n % Span) - 1) % Span = (n - 1) % Span
    <3>1. PICK k \in Int : k = -1
      OBVIOUS
    <3>2. ((n % Span) + k) % Span = (n + k) % Span
      BY Zenon, Constants, ModStep
    <3>3. n % Span \in Int
      BY Constants
    <3>4. (n % Span) + k = (n % Span) - 1 /\ n + k = n - 1
      BY Zenon, <3>1, <3>3
    <3> QED
      BY Zenon, <3>2, <3>4
  <2> QED
    BY Zenon, <2>1, <2>5, <2>6, <2>7 DEF PendingCounts
<1>2. CASE Dequeue
  <2>1. writer.pc = "dequeue" /\ pending' = pending
    BY Zenon, <1>2 DEF Dequeue
  <2>2. \/ read_index' = read_index + 1 /\ writer'.pc = "take"
        \/ read_index' = read_index /\ writer'.pc = "flush"
    BY Zenon, <1>2, <1>a, WriterGotoEffect DEF Dequeue, WriterPcs
  <2>3. Discounted' = Discounted
    BY <1>a, <2>1, <2>2 DEF Discounted
  <2> QED
    BY Zenon, <1>b, <2>1, <2>3, PendingFrame
<1>3. CASE ~ Discount /\ ~ Dequeue
  <2>1. UNCHANGED <<read_index, pending>>
    BY Zenon, <1>3 DEF WriteDownLogs, TestStopping, TestPending, TakeData, ReleaseSlot,
         WriteRecord, Flush, LockToSleep, RecheckStopping, Sleep, WakeUp,
         SpuriousWakeup, ring
  <2>2. Discounted' = Discounted
    BY <1>3, <1>a, <2>1, WriterGotoEffect
       DEF WriteDownLogs, TestStopping, TestPending, TakeData, ReleaseSlot,
         WriteRecord, Flush, LockToSleep, RecheckStopping, Sleep, WakeUp,
         SpuriousWakeup, WriterPcs, Discounted
  <2> QED
    BY Zenon, <1>b, <2>1, <2>2, PendingFrame
<1> QED
  BY Zenon, <1>1, <1>2, <1>3

-----------------------------------------------------------------------------
(***************************************************************************)
(* The end.                                                                *)
(***************************************************************************)

\* Nobody logs when the writer has ended.
LEMMA Quiet ==
  ASSUME TypeOK, Phase, writer.pc \in {"pending", "done"} \/ thread[Main].pc = "close"
  PROVE  \A p \in Producers : thread[p].pc = "idle"
<1>1. CASE thread[Main].pc = "close"
  BY Zenon, <1>1 DEF Phase
<1>2. CASE writer.pc \in {"pending", "done"}
  <2>1. is_initialized /\ is_stopping
    BY Zenon, <1>2 DEF Phase
  <2>2. thread[Main].pc # "idle"
    BY Zenon, <2>1 DEF Phase
  <2> QED
    BY Zenon, <2>2 DEF Phase
<1> QED
  BY Zenon, <1>1, <1>2

LEMMA StartEmptied ==
  ASSUME TypeOK, Phase, Emptied, NEW t \in Callers, GetLogger(t) \/ Start(t)
  PROVE  Emptied'
<1>a. ThreadOK /\ writer \in [pc : WriterPcs, record : Data] /\ Main \in Callers
  BY Zenon DEF TypeOK, Callers
<1>1. \/ UNCHANGED <<read_index, write_index>>
      \/ read_index' = 0 /\ write_index' = 0
  BY Zenon DEF GetLogger, Start, CheckInitialized, StartLogger, SpawnWriter, ring
<1>2. writer'.pc = "done" => writer.pc = "done"
  BY Zenon, <1>a DEF GetLogger, Start, CheckInitialized, StartLogger, SpawnWriter
<1>3. thread'[Main].pc = "close" => thread[Main].pc = "close"
  <2>1. CASE t # Main
    BY Zenon, <1>a, <2>1, StartOthers
  <2>2. CASE t = Main
    <3>1. CASE GetLogger(t)
      BY <2>2, <3>1, <1>a DEF GetLogger, ThreadOK, Thread
    <3>2. CASE Start(t)
      <4>1. \E pc \in {"load", "stop", "lock", "spawn"} : Goto(t, pc)
        BY Zenon, <3>2 DEF Start, CheckInitialized, StartLogger, SpawnWriter, AfterStart
      <4>2. {"load", "stop", "lock", "spawn"} \subseteq ThreadPcs
        BY Zenon DEF ThreadPcs, StartPcs, EnqueuePcs, EndPcs
      <4>3. thread'[t].pc \in {"load", "stop", "lock", "spawn"}
        BY Zenon, <1>a, <4>1, <4>2, GotoEffect DEF ThreadOK
      <4> QED
        BY Zenon, <2>2, <4>3
    <3> QED
      BY Zenon, <3>1, <3>2
  <2> QED
    BY Zenon, <2>1, <2>2
<1> QED
  BY Zenon, <1>1, <1>2, <1>3 DEF Emptied

LEMMA EnqueueEmptied ==
  ASSUME TypeOK, Phase, Emptied, NEW p \in Producers, Enqueue(p) \/ ClaimFails(p)
  PROVE  Emptied'
<1>a. ThreadOK /\ writer \in [pc : WriterPcs, record : Data]
      /\ Main \in Callers \ {p}
  BY Zenon, LoggerAssumption DEF TypeOK, Callers
<1>1. thread[p].pc # "idle"
  BY Zenon DEF Enqueue, ClaimFails, LoadWriteIndex, LoadSlot, Claim, StoreData,
         Publish, Count, Notify
<1>2. writer.pc # "done" /\ thread[Main].pc # "close"
  BY Zenon, <1>1, Quiet
<1>3. thread'[Main].pc # "close"
  BY Zenon, <1>2, <1>a, EnqueueOthers
<1>4. writer'.pc # "done"
  <2>1. CASE Notify(p)
    BY Zenon, <1>a, <1>2, <2>1, NotifyEffect DEF Notify
  <2>2. CASE ~ Notify(p)
    BY Zenon, <1>2, <2>2 DEF Enqueue, ClaimFails, LoadWriteIndex, LoadSlot, Claim,
                      StoreData, Publish, Count
  <2> QED
    BY Zenon, <2>1, <2>2
<1> QED
  BY Zenon, <1>3, <1>4 DEF Emptied

LEMMA EndEmptied ==
  ASSUME TypeOK, Phase, Emptied, EndLogger
  PROVE  Emptied'
<1>a. /\ thread \in [Callers -> Thread] /\ Main \in Callers
      /\ writer \in [pc : WriterPcs, record : Data]
  BY Zenon DEF TypeOK, ThreadOK, Callers
<1>b. {"wake", "join", "close", "idle"} \subseteq ThreadPcs
  BY Zenon DEF ThreadPcs, StartPcs, EndPcs
<1>1. UNCHANGED <<read_index, write_index>>
  BY Zenon DEF EndLogger, StoreStopping, NotifyStopping, Join, CloseFile, ring
<1>2. CASE Join
  <2>1. writer.pc = "done"
    <3>1. thread[Main].pc = "join" /\ writer.pc \in {"none", "done"}
      BY Zenon, <1>2 DEF Join
    <3>2. is_initialized
      BY Zenon, <3>1, <1>a DEF Phase
    <3>3. \A t \in Callers : thread[t].pc # "spawn"
      BY Zenon, <3>1 DEF Phase, Callers
    <3> QED
      BY Zenon, <3>1, <3>2, <3>3 DEF Phase
  <2> QED
    BY Zenon, <1>1, <2>1 DEF Emptied
<1>3. CASE StoreStopping \/ NotifyStopping \/ CloseFile
  <2>1. \E pc \in {"wake", "join", "idle"} : Goto(Main, pc)
    BY Zenon, <1>3 DEF StoreStopping, NotifyStopping, CloseFile
  <2>2. thread'[Main].pc # "close"
    BY <1>a, <1>b, <2>1, GotoEffect
  <2>3. writer'.pc = "done" => writer.pc = "done"
    BY Zenon, <1>3, <1>a, NotifyEffect DEF StoreStopping, NotifyStopping, CloseFile
  <2> QED
    BY Zenon, <1>1, <2>2, <2>3 DEF Emptied
<1> QED
  BY Zenon, <1>2, <1>3 DEF EndLogger

LEMMA WriterEmptied ==
   /\ TypeOK
   /\ Phase
   /\ Ring
   /\ PendingCounts
   /\ Emptied
   /\ WriteDownLogs \/ SpuriousWakeup
  => Emptied'
<1>CountedEmpty.
    ASSUME TypeOK, Phase, Ring, PendingCounts, writer.pc = "pending", pending = 0
    PROVE  read_index = write_index
  <2> USE <1>CountedEmpty
  <2>1. Uncounted = {}
    BY Zenon, Quiet DEF Uncounted
  <2>2. Cardinality(Uncounted) = 0 /\ Discounted = read_index - 0
    BY Zenon, <2>1, CountEmpty DEF Discounted
  <2>3. /\ read_index \in Nat /\ write_index \in Nat
        /\ read_index <= write_index /\ write_index <= read_index + Size
    BY Zenon, Bounds DEF Ring
  <2>4. (write_index - read_index) % Span = 0
    BY <2>2, <2>3 DEF PendingCounts
  <2>5. PICK d \in Nat : d = write_index - read_index
    BY <2>3
  <2>6. d < Span
    BY <2>3, <2>5, Constants
  <2>7. d % Span = d
    BY <2>6, Constants
  <2> QED
    BY <2>3, <2>4, <2>5, <2>7
<1> SUFFICES ASSUME TypeOK, Phase, Ring, PendingCounts, Emptied,
                    WriteDownLogs \/ SpuriousWakeup
             PROVE  Emptied'
  BY Zenon
<1>a. writer \in [pc : WriterPcs, record : Data]
  BY Zenon DEF TypeOK
<1>b. writer.pc \notin {"none", "done"} /\ thread' = thread
  BY Zenon DEF WriteDownLogs, TestStopping, TestPending, Dequeue, TakeData,
         ReleaseSlot, Discount, WriteRecord, Flush, LockToSleep,
         RecheckStopping, Sleep, WakeUp, SpuriousWakeup
<1>c. thread'[Main].pc # "close"
  BY Zenon, <1>b DEF Phase
<1>1. CASE TestPending
  <2>1. CASE pending = 0
    <3>1. UNCHANGED <<read_index, write_index>> /\ writer.pc = "pending"
      BY Zenon, <1>1 DEF TestPending, ring
    <3> QED
      BY Zenon, <2>1, <3>1, <1>CountedEmpty DEF Emptied
  <2>2. CASE pending # 0
    <3>1. WriterGoto("dequeue") /\ "dequeue" \in WriterPcs
      BY Zenon, <1>1, <2>2 DEF TestPending, WriterPcs
    <3>2. writer'.pc = "dequeue"
      BY Zenon, <1>a, <3>1, WriterGotoEffect
    <3> QED
      BY Zenon, <1>c, <3>2 DEF Emptied
  <2> QED
    BY Zenon, <2>1, <2>2
<1>2. CASE ~ TestPending
  <2>1. writer'.pc # "done"
    BY <1>2, <1>a, WriterGotoEffect
       DEF WriteDownLogs, TestStopping, Dequeue, TakeData, ReleaseSlot,
         Discount, WriteRecord, Flush, LockToSleep, RecheckStopping, Sleep,
         WakeUp, SpuriousWakeup, WriterPcs
  <2> QED
    BY Zenon, <1>c, <2>1 DEF Emptied
<1> QED
  BY Zenon, <1>1, <1>2

-----------------------------------------------------------------------------
(***************************************************************************)
(* The invariant, and what follows from it.                                *)
(***************************************************************************)

LEMMA InitIInv == Init => IInv
<1> SUFFICES ASSUME Init PROVE IInv
  BY Zenon
<1>1. TypeOK
  BY Zenon, InitType
<1>2. Phase
  BY Zenon, LoggerAssumption DEF Init, Phase, Callers
<1>3. Ring
  <2>1. EmptyRing
    BY Zenon DEF Init, EmptyRing, Callers
  <2> QED
    BY Zenon, <2>1, RingEmpty
<1>4. Logged
  <2>1. InHand = 0 /\ read_index = 0 /\ written = <<>>
    BY Zenon DEF Init, InHand
  <2> QED
    BY <2>1, SeqEmpty DEF Logged
<1>5. PendingCounts
  <2>1. Uncounted = {}
    BY Zenon DEF Init, Uncounted, Callers
  <2>2. Cardinality(Uncounted) = 0
    BY Zenon, <2>1, CountEmpty
  <2>3. pending = 0 /\ write_index = 0 /\ Discounted = 0 - 0
    BY Zenon DEF Init, Discounted
  <2>4. 0 % Span = 0
    BY Constants
  <2> QED
    BY <2>2, <2>3, <2>4 DEF PendingCounts
<1>6. Emptied
  BY Zenon DEF Init, Emptied
<1> QED
  BY Zenon, <1>1, <1>2, <1>3, <1>4, <1>5, <1>6 DEF IInv

LEMMA NextIInv ==
  ASSUME EndEarly = FALSE
  PROVE  IInv /\ [Next]_vars => IInv'
<1> SUFFICES ASSUME IInv, [Next]_vars PROVE IInv'
  BY Zenon
<1>a. TypeOK /\ Phase /\ Ring /\ Logged /\ PendingCounts /\ Emptied
  BY Zenon DEF IInv
<1>1. ASSUME NEW t \in Callers, GetLogger(t) \/ Start(t) PROVE IInv'
  <2>1. TypeOK' /\ Phase' /\ Ring'
    BY Zenon, <1>a, <1>1, StartType, StartPhase, StartRing
  <2>2. Logged' /\ PendingCounts' /\ Emptied'
    BY <1>a, <1>1, StartLogged, StartPending, StartEmptied
  <2> QED
    BY Zenon, <2>1, <2>2 DEF IInv
<1>2. ASSUME NEW p \in Producers, Enqueue(p) \/ ClaimFails(p) PROVE IInv'
  <2>1. TypeOK' /\ Phase' /\ Ring'
    BY <1>a, <1>2, EnqueueType, EnqueuePhase, EnqueueRing
  <2>2. Logged' /\ PendingCounts' /\ Emptied'
    BY <1>a, <1>2, EnqueueLogged, EnqueuePending, EnqueueEmptied
  <2> QED
    BY Zenon, <2>1, <2>2 DEF IInv
<1>3. CASE EndLogger
  <2>1. TypeOK' /\ Phase' /\ Ring'
    BY <1>a, <1>3, EndType, EndPhase, EndRing
  <2>2. Logged' /\ PendingCounts' /\ Emptied'
    BY <1>a, <1>3, EndLogged, EndPending, EndEmptied
  <2> QED
    BY Zenon, <2>1, <2>2 DEF IInv
<1>4. CASE WriteDownLogs \/ SpuriousWakeup
  <2>1. TypeOK' /\ Phase' /\ Ring'
    BY <1>a, <1>4, WriterType, WriterPhase, WriterRing
  <2>2. Logged' /\ PendingCounts' /\ Emptied'
    BY <1>a, <1>4, WriterLogged, WriterPending, WriterEmptied
  <2> QED
    BY Zenon, <2>1, <2>2 DEF IInv
<1>5. CASE UNCHANGED vars
  <2>1. UNCHANGED <<write_index, read_index, pending, log_buffer,
                    is_initialized, is_stopping, starts, thread, writer, disk,
                    claimed, written>>
    BY Zenon, <1>5 DEF vars, ring, flags, history
  <2>2. TypeOK'
    BY Zenon, <1>a, <2>1 DEF TypeOK, ThreadOK
  <2>3. Phase'
    BY Zenon, <1>a, <2>1 DEF Phase
  <2>4. Ring'
    BY Zenon, <1>a, <2>1, RingFrame
  <2>5. Logged'
    <3>1. InHand' = InHand
      BY Zenon, <2>1 DEF InHand
    <3> QED
      BY Zenon, <1>a, <2>1, <3>1 DEF Logged
  <2>6. PendingCounts'
    BY Zenon, <1>a, <2>1, PendingFrame DEF Uncounted, Discounted
  <2>7. Emptied'
    BY Zenon, <1>a, <2>1 DEF Emptied
  <2> QED
    BY <2>2, <2>3, <2>4, <2>5, <2>6, <2>7 DEF IInv
<1> QED
  BY <1>1, <1>2, <1>3, <1>4, <1>5 DEF Next, Terminated

\* The slots of the ring, the log, the count and the threads agree in every
\* state, as long as END_LOG is called when nobody logs (Enqueue, Dequeue,
\* StartLogger, EndLogger).
THEOREM RingInvariant ==
  ASSUME EndEarly = FALSE
  PROVE  Spec => []IInv
<1>1. IInv /\ [Next]_vars => IInv'
  BY Zenon, NextIInv
<1> QED
  BY <1>1, InitIInv, PTL DEF Spec

\* No slot's data is accessed by two threads at a time, however many
\* producers there are and however often the ring has gone round (the
\* sequence numbers of Enqueue and Dequeue).
THEOREM SlotsNeverShared ==
  ASSUME EndEarly = FALSE
  PROVE  Spec => []SlotExclusive
<1>1. IInv => SlotExclusive
  <2> SUFFICES ASSUME IInv PROVE SlotExclusive
    BY Zenon
  <2>a. TypeOK /\ Ring /\ Window /\ PositionsDiffer
        /\ \A p \in Producers : Position(p)
    BY Zenon DEF IInv, Ring
  <2>b. /\ read_index \in Nat /\ write_index \in Nat /\ Released \in Nat
        /\ Released <= read_index /\ write_index <= Released + Size
        /\ Size \in Nat
    BY Zenon, <2>a, Bounds, Constants
  <2>c. ASSUME NEW p \in Producers, Storing(p)
        PROVE  /\ thread[p].pos \in Nat /\ read_index <= thread[p].pos
               /\ thread[p].pos < Released + Size
    <3>1. thread[p].pos \in Nat
      BY Zenon, <2>a DEF TypeOK, ThreadOK, Thread, Callers
    <3>2. read_index <= thread[p].pos /\ thread[p].pos < write_index
      BY Zenon, <2>a, <2>c DEF Position
    <3> QED
      BY <2>b, <3>1, <3>2
  <2>1. ASSUME NEW p \in Producers, NEW q \in Producers, p # q,
               Storing(p), Storing(q)
        PROVE  Slot(thread[p].pos) # Slot(thread[q].pos)
    <3>1. thread[p].pos # thread[q].pos
      BY Zenon, <2>a, <2>1 DEF PositionsDiffer
    <3> QED
      BY <2>a, <2>b, <2>c, <2>1, <3>1, WindowSlots
  <2>2. ASSUME NEW p \in Producers, Storing(p),
               writer.pc \in {"take", "release"}
        PROVE  Slot(thread[p].pos) # Slot(read_index - 1)
    BY Zenon, <2>a, <2>c, <2>2, TakenApart
  <2> QED
    BY Zenon, <2>1, <2>2 DEF SlotExclusive, Storing
<1> QED
  BY <1>1, RingInvariant, PTL

\* The log is what the producers claimed, in the order of their positions,
\* up to the record the writer has in its hands (Enqueue, Dequeue).
THEOREM LogInOrder ==
  ASSUME EndEarly = FALSE
  PROVE  Spec => []WrittenInOrder
<1>1. IInv => WrittenInOrder
  <2> SUFFICES ASSUME IInv PROVE WrittenInOrder
    BY Zenon
  <2>1. TypeOK /\ Ring /\ Logged
    BY Zenon DEF IInv
  <2>2. /\ claimed \in Seq(Records) /\ written \in Seq(Data)
        /\ read_index \in Nat /\ write_index \in Nat
    BY Zenon, <2>1 DEF TypeOK
  <2>3. Len(written) <= Len(claimed)
    BY <2>1, <2>2 DEF Ring, Window, Logged, InHand
  <2>4. PICK n \in Nat : n = Len(written)
    BY <2>2
  <2>5. \A i \in 1..n : claimed[i] \in Data
    BY <2>2, <2>3, <2>4 DEF Data
  <2>6. /\ SubSeq(claimed, 1, n) \in Seq(Data)
        /\ Len(SubSeq(claimed, 1, n)) = n
        /\ \A i \in 1..n : SubSeq(claimed, 1, n)[i] = claimed[i]
    BY <2>5, SeqSub
  <2>7. \A i \in 1..n : written[i] = claimed[i]
    BY Zenon, <2>1, <2>4 DEF Logged
  <2>8. written = SubSeq(claimed, 1, n)
    BY Zenon, <2>2, <2>4, <2>6, <2>7, SeqSame
  <2> QED
    BY Zenon, <2>4, <2>8 DEF WrittenInOrder
<1> QED
  BY <1>1, RingInvariant, PTL

\* pending_ is the number of records in the ring that have been counted,
\* modulo the range of size_t (Enqueue, Dequeue).
THEOREM PendingIsCount ==
  ASSUME EndEarly = FALSE
  PROVE  Spec => []PendingCounts
<1>1. IInv => PendingCounts
  BY Zenon DEF IInv
<1> QED
  BY <1>1, RingInvariant, PTL

\* EndLogger closes the file when every record that was given a slot is in
\* the log (WriteDownLogs, EndLogger).
THEOREM EndLosesNothing == Spec => []EndWritesAll
<1>1. CASE EndEarly
  <2>1. EndWritesAll
    BY Zenon, <1>1 DEF EndWritesAll
  <2> QED
    BY <2>1, PTL
<1>2. CASE EndEarly = FALSE
  <2>1. IInv => EndWritesAll
    <3> SUFFICES ASSUME IInv, thread[Main].pc = "close"
                 PROVE  written = claimed
      BY Zenon DEF EndWritesAll
    <3>1. TypeOK /\ Phase /\ Ring /\ Logged /\ Emptied
      BY Zenon DEF IInv
    <3>2. /\ claimed \in Seq(Records) /\ written \in Seq(Data)
          /\ read_index \in Nat
      BY Zenon, <3>1 DEF TypeOK
    <3>3. writer.pc = "none" /\ read_index = write_index
      BY Zenon, <3>1 DEF Phase, Emptied
    <3>4. Len(written) = Len(claimed)
      BY <3>1, <3>2, <3>3 DEF Logged, Ring, Window, InHand
    <3>5. claimed \in Seq(Data)
      BY <3>2 DEF Data
    <3>6. \A i \in 1..Len(written) : written[i] = claimed[i]
      BY Zenon, <3>1 DEF Logged
    <3> QED
      BY <3>2, <3>4, <3>5, <3>6, SeqSame
  <2>2. Spec => []IInv
    BY Zenon, <1>2, RingInvariant
  <2> QED
    BY <2>1, <2>2, PTL
<1> QED
  BY Zenon, <1>1, <1>2, LoggerAssumption

\* Enqueue gives a record up only when all the slots are in use, whatever the
\* other producers and the writer have done since it loaded the index.
THEOREM DropsOnlyWhenFull ==
  ASSUME EndEarly = FALSE
  PROVE  Spec => DroppedOnlyWhenFull
<1> DEFINE Drops == \A p \in Producers :
                      thread[p].pc = "slot" /\ thread'[p].pc = "idle" =>
                        write_index - Released >= Size
<1>1. ASSUME IInv, [Next]_vars PROVE [Drops]_vars
  <2> SUFFICES ASSUME Next, NEW p \in Producers,
                      thread[p].pc = "slot", thread'[p].pc = "idle"
               PROVE  write_index - Released >= Size
    BY Zenon, <1>1
  <2>a. TypeOK /\ Ring /\ Window /\ ThreadOK /\ p \in Callers
        /\ thread \in [Callers -> Thread]
    BY Zenon, <1>1 DEF IInv, Ring, TypeOK, Callers, ThreadOK
  <2>b. /\ Released \in Nat /\ write_index \in Nat /\ Size \in Nat \ {0}
    BY Zenon, <2>a, Bounds, Constants
  <2>1. LoadSlot(p)
    <3>1. ASSUME NEW t \in Callers, GetLogger(t) \/ Start(t) PROVE FALSE
      <4>1. t # p
        BY Zenon, <3>1 DEF GetLogger, Start, CheckInitialized, StartLogger, SpawnWriter
      <4> QED
        BY Zenon, <2>a, <3>1, <4>1, StartOthers
    <3>2. ASSUME NEW q \in Producers, Enqueue(q) \/ ClaimFails(q)
          PROVE  q = p /\ LoadSlot(p)
      <4>1. q = p
        BY Zenon, <2>a, <3>2, EnqueueOthers
      <4> QED
        BY Zenon, <3>2, <4>1 DEF Enqueue, ClaimFails, LoadWriteIndex, Claim, StoreData,
                          Publish, Count, Notify
    <3>3. ASSUME EndLogger PROVE FALSE
      BY Zenon, <2>a, <3>3, EndOthers
    <3>4. ASSUME WriteDownLogs \/ SpuriousWakeup \/ Terminated PROVE FALSE
      <4>1. thread' = thread
        BY Zenon, <3>4 DEF WriteDownLogs, TestStopping, TestPending, Dequeue, TakeData,
             ReleaseSlot, Discount, WriteRecord, Flush, LockToSleep,
             RecheckStopping, Sleep, WakeUp, SpuriousWakeup, Terminated, vars
      <4> QED
        BY Zenon, <4>1
    <3> QED
      BY Zenon, <3>1, <3>2, <3>3, <3>4 DEF Next
  <2>2. Diff(p) < 0
    <3>1. {"cas", "idle", "load"} \subseteq ThreadPcs
      BY Zenon DEF ThreadPcs, StartPcs, EnqueuePcs
    <3>2. \A pc \in {"cas", "load"} : ~ Goto(p, pc)
      BY Zenon, <2>a, <3>1, GotoEffect
    <3> QED
      BY Zenon, <2>1, <3>2 DEF LoadSlot
  <2>3. PICK pos \in Nat : pos = thread[p].pos
    BY Zenon, <2>a DEF Thread
  <2>4. pos <= write_index
    BY Zenon, <2>a, <2>3 DEF Ring, Position
  <2>5. SlotOf(pos).seq \in Nat
    <3>1. Slot(pos) \in 0..(Size - 1)
      BY SlotRange
    <3> QED
      BY Zenon, <2>a, <3>1 DEF TypeOK, SlotOf
  <2>6. SlotOf(pos).seq < pos
    <3>1. SlotOf(pos).seq - pos < 0
      BY Zenon, <2>2, <2>3 DEF Diff, SlotOf
    <3> QED
      BY <2>5, <3>1
  <2>7. ASSUME write_index < Released + Size PROVE FALSE
    <3>1. PICK low \in Nat : low = Released
      BY Zenon, <2>b
    <3>2. PICK i \in Nat : /\ low <= i /\ i < low + Size /\ pos <= i
                           /\ i % Size = pos % Size
      <4>1. pos < low + Size
        BY <2>b, <2>4, <2>7, <3>1
      <4> QED
        BY Zenon, <2>b, <4>1, ModWindow
    <3>3. SlotOf(i).seq = SlotOf(pos).seq
      BY Zenon, <3>2 DEF SlotOf, Slot
    <3>4. SlotOf(i).seq \in {i, i + 1}
      BY Zenon, <2>a, <3>1, <3>2, WindowSeq
    <3> QED
      BY <2>6, <3>2, <3>3, <3>4
  <2> QED
    BY <2>b, <2>7
<1>2. Spec => []IInv
  BY Zenon, RingInvariant
<1>3. Spec => [][Next]_vars
  BY Zenon DEF Spec
<1>4. IInv /\ [Next]_vars => [Drops]_vars
  BY Zenon, <1>1
<1>5. Spec => [][Drops]_vars
  BY <1>2, <1>3, <1>4, PTL
<1> QED
  BY Zenon, <1>5 DEF DroppedOnlyWhenFull
=============================================================================
