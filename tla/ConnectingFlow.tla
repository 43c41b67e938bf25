--------------------------- MODULE ConnectingFlow ---------------------------
(***************************************************************************)
(* The invariant FlowInv, which accounts for every byte of a connection.   *)
(*                                                                         *)
(* ConnectingProofs shows that an operation with its completion function   *)
(* set belongs to the connection that has it in flight.  FlowInv adds the  *)
(* converse, and with it an account of every byte of a connection whose    *)
(* writes (reads) have not faulted.  It is shown to hold initially, to imply*)
(* the four properties, and to be kept by the kernel, the peers, the       *)
(* destruction of a connection and the operators handlers are made of.     *)
(***************************************************************************)
EXTENDS ConnectingProofs

-----------------------------------------------------------------------------
(***************************************************************************)
(* The inductive invariant, of a loop state s, a completion queue q and    *)
(* the sockets n.                                                          *)
(***************************************************************************)

\* A key names one request, one completion or one operation, and a request
\* that has completed is no longer in the ring.
KeysApart(s, q) ==
  /\ \A r \in s.ring : r.key < s.next_key
  /\ \A i \in 1..Len(q) : q[i].key < s.next_key
  /\ \A o \in s.ops : o.key < s.next_key
  /\ \A r, p \in s.ring : r.key = p.key => r = p
  /\ \A i, j \in 1..Len(q) : q[i].key = q[j].key => i = j
  /\ \A o, p \in s.ops : o.key = p.key => o = p
  /\ \A r \in s.ring, i \in 1..Len(q) : r.key # q[i].key

\* I/O in flight is an operation of ops_ whose completion function is set.
HasOp(s, c, type, key) ==
  \E o \in s.ops : /\ o.key = key
                   /\ o.type = type
                   /\ o.self = c
                   /\ o.completion
Flying(s, c) ==
  LET k == s.conn[c]
  IN /\ k.read_in_flight => HasOp(s, c, "kRead", k.read_cancel_key)
     /\ k.write_in_flight => HasOp(s, c, "kWrite", k.write_cancel_key)

\* A request of connection c is with the kernel.
Asked(R, c, type, key) ==
  \E r \in R : r.self = c /\ r.type = type /\ r.key = key

\* The number of the first byte that is not confirmed as written.
First(k) == k.accepted + 1 - Len(k.output) - Len(k.pending)

\* The bytes on the wire w and in the two output buffers, given the requests
\* R and the completions q.
Writes(k, c, R, q, w) ==
  /\ First(k) \in Nat /\ First(k) # 0
  /\ w = Interval(1, Len(w))
  /\ k.output = Interval(First(k), Len(k.output))
  /\ k.pending = Interval(First(k) + Len(k.output), Len(k.pending))
  /\ \A r \in R : r.self = c /\ r.type = "kWrite" =>
       /\ k.write_in_flight
       /\ r.key = k.write_cancel_key
       /\ r.data = k.output
  /\ \/ ~k.write_in_flight /\ Len(w) = First(k) - 1
     \/ /\ k.write_in_flight
        /\ Asked(R, c, "kWrite", k.write_cancel_key)
        /\ Len(w) = First(k) - 1
     \/ /\ k.write_in_flight
        /\ \E i \in 1..Len(q) :
             /\ q[i].key = k.write_cancel_key
             /\ q[i].res <= Len(k.output)
             /\ Len(w) = First(k) - 1 + (IF q[i].res > 0 THEN q[i].res ELSE 0)

\* The bytes of the input buffer; the next byte to read has number next.
Reads(k, c, R, q, next) ==
  /\ k.input = Interval(1, Len(k.input))
  /\ \A r \in R : r.self = c /\ r.type = "kRead" =>
       k.read_in_flight /\ r.key = k.read_cancel_key
  /\ \/ ~k.read_in_flight /\ next = Len(k.input) + 1
     \/ /\ k.read_in_flight
        /\ Asked(R, c, "kRead", k.read_cancel_key)
        /\ next = Len(k.input) + 1
     \/ /\ k.read_in_flight
        /\ \E i \in 1..Len(q) :
             /\ q[i].key = k.read_cancel_key
             /\ IF q[i].res > 0
                THEN q[i].lo = Len(k.input) + 1 /\ next = q[i].lo + q[i].res
                ELSE next = Len(k.input) + 1

\* Both directions of a connection, unless they have faulted.
Accounts(k, c, R, q, socket) ==
  /\ ~k.write_faulted => Writes(k, c, R, q, socket.wire)
  /\ ~k.read_faulted => Reads(k, c, R, q, socket.next)
Flows(s, c, q, n) ==
  s.conn[c].state # "Gone" => Accounts(s.conn[c], c, s.ring, q, n[c])

Flow(s, q, n) ==
  /\ KeysApart(s, q)
  /\ \A c \in Conns : /\ Flying(s, c)
                      /\ s.conn[c].state = "None" => s.conn[c] = Blank
                      /\ Flows(s, c, q, n)

\* Between handlers, bytes that are not written have a write in flight, and
\* a write in flight has bytes to write.
Flushed(k) ==
  ~k.write_faulted /\ k.state # "Gone" =>
    (k.write_in_flight <=> k.output # <<>>) /\
    (~k.write_in_flight => k.pending = <<>>)
\* Between handlers, an open connection is reading.
Listening(k) == OpenState(k) /\ ~k.read_faulted => k.read_in_flight

AllFlushed(s) == \A b \in Conns : Flushed(s.conn[b])

\* The state between handlers.
Settled(s, q, n) ==
  /\ Flow(s, q, n)
  /\ AllFlushed(s)
  /\ \A b \in Conns : Listening(s.conn[b])

FlowInv == IInv /\ Settled(Cur, cq, net)

-----------------------------------------------------------------------------
(***************************************************************************)
(* Intervals of byte numbers.                                              *)
(***************************************************************************)

\* An interval is a sequence of its length.
LEMMA IntervalIs ==
  ASSUME NEW lo \in Nat, NEW n \in Nat
  PROVE  /\ Interval(lo, n) \in Seq(Nat)
         /\ Len(Interval(lo, n)) = n
         /\ \A i \in 1..n : Interval(lo, n)[i] = lo + i - 1
  <1>1. \A i \in 1..n : lo + i - 1 \in Nat
    OBVIOUS
  <1>2. Interval(lo, n) \in [1..n -> Nat]
    BY Zenon, <1>1 DEF Interval
  <1>3. Interval(lo, n) \in Seq(Nat) /\ Len(Interval(lo, n)) = n
    BY <1>2, SeqLen, SeqIs
  <1> QED BY Zenon, <1>3 DEF Interval

\* A sequence with consecutive elements is an interval.
LEMMA IsInterval ==
  ASSUME NEW lo \in Nat, NEW n \in Nat, NEW q \in Seq(Nat), Len(q) = n,
         \A i \in 1..n : q[i] = lo + i - 1
  PROVE  q = Interval(lo, n)
  <1>1. /\ Interval(lo, n) \in Seq(Nat) /\ Len(Interval(lo, n)) = n
        /\ \A i \in 1..n : Interval(lo, n)[i] = lo + i - 1
    BY Zenon, IntervalIs
  <1>2. \A i \in 1..n : q[i] = Interval(lo, n)[i]
    BY Zenon, <1>1
  <1> QED BY Zenon, <1>1, <1>2, SeqSame

\* Adjacent intervals join (a message queued behind others).
LEMMA IntervalJoin ==
  ASSUME NEW lo \in Nat, NEW n \in Nat, NEW m \in Nat
  PROVE  Interval(lo, n) \o Interval(lo + n, m) = Interval(lo, n + m)
  <1> DEFINE a == Interval(lo, n)
             b == Interval(lo + n, m)
  <1>0. lo + n \in Nat /\ n + m \in Nat
    OBVIOUS
  <1>1. /\ a \in Seq(Nat) /\ Len(a) = n
        /\ \A i \in 1..n : a[i] = lo + i - 1
    BY Zenon, IntervalIs
  <1>2. /\ b \in Seq(Nat) /\ Len(b) = m
        /\ \A i \in 1..m : b[i] = (lo + n) + i - 1
    BY <1>0, IntervalIs, Zenon
  <1> HIDE DEF a, b
  <1>3. /\ a \o b \in Seq(Nat) /\ Len(a \o b) = n + m
        /\ \A i \in 1..(n + m) : (a \o b)[i] = IF i <= n THEN a[i] ELSE b[i - n]
    BY Zenon, <1>1, <1>2, SeqConcat
  <1>4. \A i \in 1..(n + m) : (a \o b)[i] = lo + i - 1
    BY <1>1, <1>2, <1>3
  <1> QED BY <1>0, <1>3, <1>4, IsInterval, Zenon DEF a, b

\* The end of an interval (what is left after a partial write).
LEMMA IntervalDrop ==
  ASSUME NEW lo \in Nat, NEW m \in Nat, NEW n \in Nat, n <= m
  PROVE  Drop(Interval(lo, m), n) = Interval(lo + n, m - n)
  <1> DEFINE a == Interval(lo, m)
             b == Drop(a, n)
  <1>1. /\ a \in Seq(Nat) /\ Len(a) = m
        /\ \A i \in 1..m : a[i] = lo + i - 1
    BY Zenon, IntervalIs
  <1>2. /\ b \in Seq(Nat) /\ Len(b) = m - n
        /\ \A i \in 1..(m - n) : b[i] = a[n + i]
    <2> HIDE DEF a
    <2>1. b = SubSeq(a, n + 1, m)
      BY Zenon, <1>1 DEF Drop
    <2>2. /\ n + 1 \in 1..(Len(a) + 1) /\ m \in (n + 1 - 1)..Len(a)
      BY <1>1
    <2>3. /\ SubSeq(a, n + 1, m) \in Seq(Nat)
          /\ Len(SubSeq(a, n + 1, m)) = m - n
          /\ \A i \in 1..(m - n) : SubSeq(a, n + 1, m)[i] = a[n + i]
      BY <1>1, <2>2, SeqSub
    <2> QED BY Zenon, <2>1, <2>3
  <1> HIDE DEF a, b
  <1>3. \A i \in 1..(m - n) : b[i] = lo + n + i - 1
    BY <1>1, <1>2
  <1> QED BY <1>2, <1>3, IsInterval DEF a, b

\* The beginning of an interval (what the kernel takes of a write).
LEMMA IntervalTake ==
  ASSUME NEW lo \in Nat, NEW m \in Nat, NEW n \in Nat, n <= m
  PROVE  SubSeq(Interval(lo, m), 1, n) = Interval(lo, n)
  <1> DEFINE a == Interval(lo, m)
             b == SubSeq(a, 1, n)
  <1>1. /\ a \in Seq(Nat) /\ Len(a) = m
        /\ \A i \in 1..m : a[i] = lo + i - 1
    BY Zenon, IntervalIs
  <1>2. /\ b \in Seq(Nat) /\ Len(b) = n
        /\ \A i \in 1..n : b[i] = a[i]
    <2> HIDE DEF a
    <2>1. \A i \in 1..n : a[i] \in Nat
      BY <1>1
    <2> QED BY <1>1, <2>1
  <1> HIDE DEF a, b
  <1>3. \A i \in 1..n : b[i] = lo + i - 1
    BY <1>1, <1>2
  <1> QED BY Zenon, <1>2, <1>3, IsInterval DEF a, b

\* The empty interval.
LEMMA IntervalEmpty ==
  ASSUME NEW lo \in Nat
  PROVE  Interval(lo, 0) = <<>>
  <1>1. Interval(lo, 0) \in Seq(Nat) /\ Len(Interval(lo, 0)) = 0
    BY Zenon, IntervalIs
  <1> QED BY Zenon, <1>1, SeqEmpty

-----------------------------------------------------------------------------
(***************************************************************************)
(* What a step leaves alone.                                               *)
(***************************************************************************)

\* R and P hold the same requests of connection c, apart from whether the
\* kernel has been asked to cancel them.
Alike(R, P, c, type) ==
  /\ \A r \in R : r.self = c /\ r.type = type =>
       \E x \in P : /\ x.self = c /\ x.type = type
                    /\ x.key = r.key /\ x.data = r.data
  /\ \A x \in P : x.self = c /\ x.type = type =>
       \E r \in R : /\ r.self = c /\ r.type = type
                    /\ x.key = r.key /\ x.data = r.data

\* A completion with the given key is in p if it is in q.
KeepsEntry(q, p, key) ==
  \A i \in 1..Len(q) : q[i].key = key => \E j \in 1..Len(p) : p[j] = q[i]

SameWrite(k, l) ==
  /\ l.accepted = k.accepted
  /\ l.output = k.output
  /\ l.pending = k.pending
  /\ l.write_in_flight = k.write_in_flight
  /\ l.write_cancel_key = k.write_cancel_key

SameRead(k, l) ==
  /\ l.input = k.input
  /\ l.read_in_flight = k.read_in_flight
  /\ l.read_cancel_key = k.read_cancel_key

\* The account of the output does not change with what it does not mention.
LEMMA WritesKeep ==
  ASSUME NEW k, NEW l, NEW c, NEW R, NEW P, NEW q, NEW p, NEW w,
         Writes(k, c, R, q, w), SameWrite(k, l), Alike(R, P, c, "kWrite"),
         k.write_in_flight => KeepsEntry(q, p, k.write_cancel_key)
  PROVE  Writes(l, c, P, p, w)
  <1>1. First(l) = First(k)
    BY Zenon DEF First, SameWrite
  <1>2. \A r \in P : r.self = c /\ r.type = "kWrite" =>
          /\ l.write_in_flight
          /\ r.key = l.write_cancel_key
          /\ r.data = l.output
    <2> SUFFICES ASSUME NEW x \in P, x.self = c, x.type = "kWrite"
                 PROVE  /\ l.write_in_flight
                        /\ x.key = l.write_cancel_key
                        /\ x.data = l.output
      BY Zenon
    <2>1. PICK r \in R : /\ r.self = c /\ r.type = "kWrite"
                         /\ x.key = r.key /\ x.data = r.data
      BY Zenon DEF Alike
    <2>2. /\ k.write_in_flight /\ r.key = k.write_cancel_key
          /\ r.data = k.output
      BY Zenon, <2>1 DEF Writes
    <2> QED BY Zenon, <2>1, <2>2 DEF SameWrite
  <1>3. Asked(R, c, "kWrite", k.write_cancel_key) =>
          Asked(P, c, "kWrite", l.write_cancel_key)
    <2> SUFFICES ASSUME Asked(R, c, "kWrite", k.write_cancel_key)
                 PROVE  Asked(P, c, "kWrite", l.write_cancel_key)
      BY Zenon
    <2>1. PICK r \in R : /\ r.self = c /\ r.type = "kWrite"
                         /\ r.key = k.write_cancel_key
      BY Zenon DEF Asked
    <2>2. PICK x \in P : x.self = c /\ x.type = "kWrite" /\ x.key = r.key
      BY Zenon, <2>1 DEF Alike
    <2> QED BY Zenon, <2>1, <2>2 DEF SameWrite, Asked
  <1>4. ASSUME k.write_in_flight, NEW i \in 1..Len(q),
               q[i].key = k.write_cancel_key
        PROVE  \E j \in 1..Len(p) : p[j] = q[i]
    BY Zenon, <1>4 DEF KeepsEntry
  <1>5. /\ First(l) \in Nat /\ First(l) # 0
        /\ w = Interval(1, Len(w))
        /\ l.output = Interval(First(l), Len(l.output))
        /\ l.pending = Interval(First(l) + Len(l.output), Len(l.pending))
    BY Zenon, <1>1 DEF Writes, SameWrite
  <1>6. \/ ~l.write_in_flight /\ Len(w) = First(l) - 1
        \/ /\ l.write_in_flight
           /\ Asked(P, c, "kWrite", l.write_cancel_key)
           /\ Len(w) = First(l) - 1
        \/ /\ l.write_in_flight
           /\ \E i \in 1..Len(p) :
                /\ p[i].key = l.write_cancel_key
                /\ p[i].res <= Len(l.output)
                /\ Len(w) = First(l) - 1
                            + (IF p[i].res > 0 THEN p[i].res ELSE 0)
    <2>1. CASE ~k.write_in_flight /\ Len(w) = First(k) - 1
      BY Zenon, <1>1, <2>1 DEF SameWrite
    <2>2. CASE /\ k.write_in_flight
               /\ Asked(R, c, "kWrite", k.write_cancel_key)
               /\ Len(w) = First(k) - 1
      BY Zenon, <1>1, <1>3, <2>2 DEF SameWrite
    <2>3. CASE /\ k.write_in_flight
               /\ \E i \in 1..Len(q) :
                    /\ q[i].key = k.write_cancel_key
                    /\ q[i].res <= Len(k.output)
                    /\ Len(w) = First(k) - 1
                                + (IF q[i].res > 0 THEN q[i].res ELSE 0)
      <3>1. PICK i \in 1..Len(q) :
                    /\ q[i].key = k.write_cancel_key
                    /\ q[i].res <= Len(k.output)
                    /\ Len(w) = First(k) - 1
                                + (IF q[i].res > 0 THEN q[i].res ELSE 0)
        BY Zenon, <2>3
      <3>2. PICK j \in 1..Len(p) : p[j] = q[i]
        BY Zenon, <1>4, <2>3, <3>1
      <3>3. /\ p[j].key = l.write_cancel_key
            /\ p[j].res <= Len(l.output)
            /\ Len(w) = First(l) - 1 + (IF p[j].res > 0 THEN p[j].res ELSE 0)
        BY Zenon, <1>1, <3>1, <3>2 DEF SameWrite
      <3> QED BY Zenon, <2>3, <3>3 DEF SameWrite
    <2> QED BY Zenon, <2>1, <2>2, <2>3 DEF Writes
  <1> QED BY Zenon, <1>2, <1>5, <1>6 DEF Writes

\* Nor does the account of the input.
LEMMA ReadsKeep ==
  ASSUME NEW k, NEW l, NEW c, NEW R, NEW P, NEW q, NEW p, NEW next,
         Reads(k, c, R, q, next), SameRead(k, l), Alike(R, P, c, "kRead"),
         k.read_in_flight => KeepsEntry(q, p, k.read_cancel_key)
  PROVE  Reads(l, c, P, p, next)
  <1>1. \A r \in P : r.self = c /\ r.type = "kRead" =>
          l.read_in_flight /\ r.key = l.read_cancel_key
    BY Zenon DEF Reads, SameRead, Alike
  <1>2. Asked(R, c, "kRead", k.read_cancel_key) =>
          Asked(P, c, "kRead", l.read_cancel_key)
    <2> SUFFICES ASSUME Asked(R, c, "kRead", k.read_cancel_key)
                 PROVE  Asked(P, c, "kRead", l.read_cancel_key)
      BY Zenon
    <2>1. PICK r \in R : /\ r.self = c /\ r.type = "kRead"
                         /\ r.key = k.read_cancel_key
      BY Zenon DEF Asked
    <2>2. PICK x \in P : x.self = c /\ x.type = "kRead" /\ x.key = r.key
      BY Zenon, <2>1 DEF Alike
    <2> QED BY Zenon, <2>1, <2>2 DEF SameRead, Asked
  <1>3. ASSUME k.read_in_flight, NEW i \in 1..Len(q),
               q[i].key = k.read_cancel_key
        PROVE  \E j \in 1..Len(p) : p[j] = q[i]
    BY Zenon, <1>3 DEF KeepsEntry
  <1>4. l.input = Interval(1, Len(l.input))
    BY Zenon DEF Reads, SameRead
  <1>5. \/ ~l.read_in_flight /\ next = Len(l.input) + 1
        \/ /\ l.read_in_flight
           /\ Asked(P, c, "kRead", l.read_cancel_key)
           /\ next = Len(l.input) + 1
        \/ /\ l.read_in_flight
           /\ \E i \in 1..Len(p) :
                /\ p[i].key = l.read_cancel_key
                /\ IF p[i].res > 0
                   THEN /\ p[i].lo = Len(l.input) + 1
                        /\ next = p[i].lo + p[i].res
                   ELSE next = Len(l.input) + 1
    <2>1. CASE ~k.read_in_flight /\ next = Len(k.input) + 1
      BY Zenon, <2>1 DEF SameRead
    <2>2. CASE /\ k.read_in_flight
               /\ Asked(R, c, "kRead", k.read_cancel_key)
               /\ next = Len(k.input) + 1
      BY Zenon, <1>2, <2>2 DEF SameRead
    <2>3. CASE /\ k.read_in_flight
               /\ \E i \in 1..Len(q) :
                    /\ q[i].key = k.read_cancel_key
                    /\ IF q[i].res > 0
                       THEN /\ q[i].lo = Len(k.input) + 1
                            /\ next = q[i].lo + q[i].res
                       ELSE next = Len(k.input) + 1
      <3>1. PICK i \in 1..Len(q) :
                    /\ q[i].key = k.read_cancel_key
                    /\ IF q[i].res > 0
                       THEN /\ q[i].lo = Len(k.input) + 1
                            /\ next = q[i].lo + q[i].res
                       ELSE next = Len(k.input) + 1
        BY Zenon, <2>3
      <3>2. PICK j \in 1..Len(p) : p[j] = q[i]
        BY Zenon, <1>3, <2>3, <3>1
      <3>3. /\ p[j].key = l.read_cancel_key
            /\ IF p[j].res > 0
               THEN p[j].lo = Len(l.input) + 1 /\ next = p[j].lo + p[j].res
               ELSE next = Len(l.input) + 1
        BY Zenon, <3>1, <3>2 DEF SameRead
      <3> QED BY Zenon, <2>3, <3>3 DEF SameRead
    <2> QED BY Zenon, <2>1, <2>2, <2>3 DEF Reads
  <1> QED BY Zenon, <1>1, <1>4, <1>5 DEF Reads

\* A step from (s, q) to (t, p) that does not concern connection b.
Undisturbed(s, t, q, p, b) ==
  /\ t.conn[b] = s.conn[b]
  /\ Alike(s.ring, t.ring, b, "kRead")
  /\ Alike(s.ring, t.ring, b, "kWrite")
  /\ \A type \in {"kRead", "kWrite"}, key \in Nat :
       HasOp(s, b, type, key) => HasOp(t, b, type, key)
                                 /\ KeepsEntry(q, p, key)

\* What Flow says of one connection.
FlowOf(s, c, q, n) ==
  /\ Flying(s, c)
  /\ s.conn[c].state = "None" => s.conn[c] = Blank
  /\ Flows(s, c, q, n)

\* Connections that a step does not concern keep their account.
LEMMA UndisturbedFlow ==
  ASSUME NEW s \in LoopState, NEW t, NEW q, NEW p, NEW n, NEW m,
         NEW b \in Conns, FlowOf(s, b, q, n), Undisturbed(s, t, q, p, b),
         m[b].wire = n[b].wire, m[b].next = n[b].next
  PROVE  FlowOf(t, b, p, m)
  <1> DEFINE k == s.conn[b]
  <1>1. /\ t.conn[b] = k
        /\ k.read_cancel_key \in Nat /\ k.write_cancel_key \in Nat
    BY Zenon DEF Undisturbed, LoopState, Connection
  <1>2. /\ k.read_in_flight => /\ HasOp(t, b, "kRead", k.read_cancel_key)
                               /\ KeepsEntry(q, p, k.read_cancel_key)
        /\ k.write_in_flight => /\ HasOp(t, b, "kWrite", k.write_cancel_key)
                                /\ KeepsEntry(q, p, k.write_cancel_key)
    BY Zenon, <1>1 DEF FlowOf, Flying, Undisturbed
  <1>3. Alike(s.ring, t.ring, b, "kRead") /\ Alike(s.ring, t.ring, b, "kWrite")
    BY Zenon DEF Undisturbed
  <1>4. SameWrite(k, k) /\ SameRead(k, k)
    BY Zenon DEF SameWrite, SameRead
  <1>5. ASSUME Accounts(k, b, s.ring, q, n[b])
        PROVE  Accounts(k, b, t.ring, p, m[b])
    <2>1. ~k.write_faulted => Writes(k, b, t.ring, p, n[b].wire)
      BY Zenon, <1>2, <1>3, <1>4, <1>5, WritesKeep DEF Accounts
    <2>2. ~k.read_faulted => Reads(k, b, t.ring, p, n[b].next)
      BY Zenon, <1>2, <1>3, <1>4, <1>5, ReadsKeep DEF Accounts
    <2> QED BY Zenon, <2>1, <2>2 DEF Accounts
  <1>7. Flying(t, b)
    BY Zenon, <1>1, <1>2 DEF Flying
  <1>8. Flows(t, b, p, m)
    BY Zenon, <1>1, <1>5 DEF FlowOf, Flows
  <1> QED BY Zenon, <1>1, <1>7, <1>8 DEF FlowOf

\* The requests of other connections are not affected by a new request.
LEMMA AlikeAdd ==
  ASSUME NEW R, NEW x, NEW b, NEW type, x.self # b \/ x.type # type
  PROVE  Alike(R, R \cup {x}, b, type)
  BY Zenon DEF Alike

\* Nor by the completion of a request.
LEMMA AlikeRemove ==
  ASSUME NEW R, NEW x, NEW b, NEW type, x.self # b \/ x.type # type
  PROVE  Alike(R, R \ {x}, b, type)
  BY Zenon DEF Alike

\* Requests are unaffected by a step that leaves the ring alone.
LEMMA AlikeSame ==
  ASSUME NEW R, NEW b, NEW type
  PROVE  Alike(R, R, b, type)
  BY Zenon DEF Alike

\* A queue keeps its own entries.
LEMMA KeepsEntrySame ==
  ASSUME NEW q, NEW key
  PROVE  KeepsEntry(q, q, key)
  BY Zenon DEF KeepsEntry

\* A step that concerns connection c only.
LEMMA AssembleFlow ==
  ASSUME NEW s \in LoopState, NEW t, NEW q, NEW p, NEW n, NEW c \in Conns,
         Flow(s, q, n), KeysApart(t, p), FlowOf(t, c, p, n),
         \A b \in Conns \ {c} : Undisturbed(s, t, q, p, b)
  PROVE  Flow(t, p, n)
  <1>1. ASSUME NEW b \in Conns PROVE FlowOf(t, b, p, n)
    <2>1. CASE b = c
      BY Zenon, <2>1
    <2>2. CASE b # c
      <3>1. FlowOf(s, b, q, n)
        BY Zenon DEF Flow, FlowOf
      <3>2. Undisturbed(s, t, q, p, b)
        BY Zenon, <2>2
      <3> QED BY Zenon, <3>1, <3>2, UndisturbedFlow
    <2> QED BY Zenon, <2>1, <2>2
  <1> QED BY Zenon, <1>1 DEF Flow, FlowOf

\* A step that concerns no connection.
LEMMA AssembleAll ==
  ASSUME NEW s \in LoopState, NEW t, NEW q, NEW p, NEW n, NEW m,
         Flow(s, q, n), KeysApart(t, p),
         \A b \in Conns : /\ Undisturbed(s, t, q, p, b)
                          /\ m[b].wire = n[b].wire
                          /\ m[b].next = n[b].next
  PROVE  Flow(t, p, m)
  <1>1. ASSUME NEW b \in Conns PROVE FlowOf(t, b, p, m)
    <2>1. FlowOf(s, b, q, n)
      BY Zenon DEF Flow, FlowOf
    <2> QED BY Zenon, <2>1, UndisturbedFlow
  <1> QED BY Zenon, <1>1 DEF Flow, FlowOf

\* A handler ends in the loop state it computes.
LEMMA LoopSettles ==
  ASSUME NEW s \in LoopState, Become(s), Settled(s, cq', net')
  PROVE  Settled(Cur, cq, net)'
  <1>1. Cur' = s
    BY Zenon, BecomeCur
  <1> QED BY Zenon, <1>1

-----------------------------------------------------------------------------
(***************************************************************************)
(* The kernel and the peers.                                               *)
(***************************************************************************)

\* The kernel takes request r out of the ring and appends completion e.
Completes(s, t, q, p, r, e) ==
  /\ t.conn = s.conn
  /\ t.ops = s.ops
  /\ t.next_key = s.next_key
  /\ t.ring = s.ring \ {r}
  /\ p = Append(q, e)

\* The requests P and the completions p, compared to R and q: completion e
\* has taken the place of request r.
Replaces(R, P, q, p, r, e) ==
  /\ r \in R
  /\ e.key = r.key
  /\ \A x \in P : x \in R /\ x.key # r.key
  /\ \A i \in 1..Len(q) : q[i].key # r.key
  /\ \E i \in 1..Len(p) : p[i] = e

\* What the kernel does with the bytes of request r that completes as e.
Serves(r, e, before, after) ==
  /\ r.type = "kRead" =>
       /\ after.wire = before.wire
       /\ IF e.res > 0
          THEN e.lo = before.next /\ after.next = before.next + e.res
          ELSE after.next = before.next
  /\ r.type = "kWrite" =>
       /\ after.next = before.next
       /\ e.res <= Len(r.data)
       /\ after.wire = IF e.res > 0
                       THEN before.wire \o SubSeq(r.data, 1, e.res)
                       ELSE before.wire

\* Every step of the kernel keeps the account.
LEMMA KernelFlow ==
  FlowInv /\ Kernel =>
    Settled(Cur, cq, net)'
  \* A queue with a new entry at its end.
  <1>AppendEntries.
      ASSUME NEW q \in Seq(Completion), NEW e \in Completion,
             NEW p, p = Append(q, e)
      PROVE  /\ p \in Seq(Completion) /\ Len(p) = Len(q) + 1
             /\ \A i \in 1..Len(q) : i \in 1..Len(p) /\ p[i] = q[i]
             /\ Len(p) \in 1..Len(p) /\ p[Len(p)] = e
             /\ \A i \in 1..Len(p) : i = Len(p) \/ i \in 1..Len(q)
    BY <1>AppendEntries
  \* A completion takes a request's place.
  <1>CompleteKeys.
      ASSUME NEW s \in LoopState, NEW t, NEW q \in Seq(Completion),
             KeysApart(s, q), NEW r \in s.ring, NEW e \in Completion,
             e.key = r.key, NEW p, Completes(s, t, q, p, r, e)
      PROVE  /\ KeysApart(t, p)
             /\ \A key : KeepsEntry(q, p, key)
             /\ Replaces(s.ring, t.ring, q, p, r, e)
    <2> USE <1>CompleteKeys
    <2>1. /\ p \in Seq(Completion) /\ Len(p) = Len(q) + 1
          /\ \A i \in 1..Len(q) : i \in 1..Len(p) /\ p[i] = q[i]
          /\ Len(p) \in 1..Len(p) /\ p[Len(p)] = e
          /\ \A i \in 1..Len(p) : i = Len(p) \/ i \in 1..Len(q)
      BY <1>AppendEntries DEF Completes
    <2>2. \A i \in 1..Len(q) : q[i].key # r.key
      BY Zenon DEF KeysApart
    <2>3. /\ \A x \in t.ring : x \in s.ring /\ x.key # r.key
          /\ t.ops = s.ops /\ t.next_key = s.next_key
      BY Zenon DEF KeysApart, Completes
    <2>4. ASSUME NEW i \in 1..Len(p)
          PROVE  p[i].key < t.next_key /\ \A x \in t.ring : x.key # p[i].key
      <3>1. CASE i = Len(p)
        BY Zenon, <2>1, <2>3, <3>1 DEF KeysApart
      <3>2. CASE i \in 1..Len(q)
        <4>1. p[i] = q[i]
          BY Zenon, <2>1, <3>2
        <4>2. q[i].key < t.next_key /\ \A x \in t.ring : x.key # q[i].key
          BY Zenon, <2>3, <3>2 DEF KeysApart
        <4> QED BY Zenon, <4>1, <4>2
      <3> QED BY Zenon, <2>1, <3>1, <3>2
    <2>5. ASSUME NEW i \in 1..Len(p), NEW j \in 1..Len(p), p[i].key = p[j].key
          PROVE  i = j
      <3>1. CASE i \in 1..Len(q) /\ j \in 1..Len(q)
        BY Zenon, <2>1, <2>5, <3>1 DEF KeysApart
      <3>2. CASE i = Len(p) /\ j \in 1..Len(q)
        BY Zenon, <2>1, <2>2, <2>5, <3>2
      <3>3. CASE i \in 1..Len(q) /\ j = Len(p)
        BY Zenon, <2>1, <2>2, <2>5, <3>3
      <3> QED BY Zenon, <2>1, <3>1, <3>2, <3>3
    <2>6. KeysApart(t, p)
      BY Zenon, <2>3, <2>4, <2>5 DEF KeysApart
    <2>7. ASSUME NEW key PROVE KeepsEntry(q, p, key)
      BY Zenon, <2>1 DEF KeepsEntry
    <2>8. Replaces(s.ring, t.ring, q, p, r, e)
      BY Zenon, <2>1, <2>2, <2>3 DEF Replaces
    <2> QED BY Zenon, <2>6, <2>7, <2>8
  \* The account of a read that the kernel has completed.
  <1>KernelReads.
      ASSUME NEW k, NEW c, NEW R, NEW P, NEW q, NEW p, NEW before, NEW after,
             Reads(k, c, R, q, before.next),
             NEW r, NEW e, r.self = c, r.type = "kRead",
             Replaces(R, P, q, p, r, e), Serves(r, e, before, after)
      PROVE  Reads(k, c, P, p, after.next)
    <2> USE <1>KernelReads
    <2>1. k.read_in_flight /\ r.key = k.read_cancel_key
      BY Zenon DEF Reads, Replaces
    <2>2. before.next = Len(k.input) + 1 /\ k.input = Interval(1, Len(k.input))
      BY Zenon, <2>1 DEF Reads, Replaces
    <2>3. \A x \in P : ~(x.self = c /\ x.type = "kRead")
      BY Zenon, <2>1 DEF Reads, Replaces
    <2>4. PICK i \in 1..Len(p) : p[i] = e
      BY Zenon DEF Replaces
    <2>5. /\ p[i].key = k.read_cancel_key
          /\ IF p[i].res > 0
             THEN p[i].lo = Len(k.input) + 1 /\ after.next = p[i].lo + p[i].res
             ELSE after.next = Len(k.input) + 1
      BY Zenon, <2>1, <2>2, <2>4 DEF Replaces, Serves
    <2> QED BY Zenon, <2>1, <2>2, <2>3, <2>5 DEF Reads
  \* The account of a write that the kernel has completed.
  <1>KernelWrites.
      ASSUME NEW k, NEW c, NEW R, NEW P, NEW q, NEW p, NEW before, NEW after,
             Writes(k, c, R, q, before.wire),
             NEW r, NEW e, r.self = c, r.type = "kWrite",
             Replaces(R, P, q, p, r, e), Serves(r, e, before, after),
             before.wire \in Seq(Nat), r.data \in Seq(Nat), e.res \in Int
      PROVE  Writes(k, c, P, p, after.wire)
    <2> USE <1>KernelWrites
    <2>0. PICK w \in Seq(Nat) : w = before.wire
      BY Zenon
    <2>v. PICK v : v = after.wire
      BY Zenon
    <2>1. k.write_in_flight /\ r.key = k.write_cancel_key /\ r.data = k.output
      BY Zenon DEF Writes, Replaces
    <2>2. /\ Len(w) = First(k) - 1 /\ w = Interval(1, Len(w))
          /\ First(k) \in Nat /\ First(k) # 0
          /\ k.output = Interval(First(k), Len(k.output))
          /\ k.pending = Interval(First(k) + Len(k.output), Len(k.pending))
      BY Zenon, <2>0, <2>1 DEF Writes, Replaces
    <2>3. \A x \in P : ~(x.self = c /\ x.type = "kWrite")
      BY Zenon, <2>1 DEF Writes, Replaces
    <2>4. /\ v = Interval(1, Len(v))
          /\ Len(v) = First(k) - 1 + (IF e.res > 0 THEN e.res ELSE 0)
      <3>1. PICK a \in Nat, f \in Nat, g \in Nat, res \in Int :
              /\ a = Len(k.output) /\ f = First(k) /\ g = Len(w) /\ res = e.res
        <4>1. Len(k.output) \in Nat /\ Len(w) \in Nat
          BY <2>1
        <4> QED BY Zenon, <2>2, <4>1
      <3>2. /\ g = f - 1 /\ w = Interval(1, g) /\ f # 0 /\ res <= a
            /\ r.data = Interval(f, a)
        BY Zenon, <2>1, <2>2, <3>1 DEF Serves
      <3>3. CASE res > 0
        <4>1. PICK b \in Nat, x \in Nat : b = res /\ x = g + b
          BY <3>3
        <4>2. f = 1 + g /\ b <= a /\ x = f - 1 + b
          BY <3>2, <4>1
        <4>3. SubSeq(Interval(f, a), 1, b) = Interval(f, b)
          <5>1. b <= a
            BY Zenon, <4>2
          <5> QED BY Zenon, <5>1, IntervalTake
        <4>4. Interval(1, g) \o Interval(1 + g, b) = Interval(1, g + b)
          <5>1. 1 \in Nat
            BY Zenon
          <5> QED BY Zenon, <5>1, IntervalJoin
        <4>5. v = w \o SubSeq(r.data, 1, b)
          BY Zenon, <2>0, <2>v, <3>1, <3>3, <4>1 DEF Serves
        <4>6. v = Interval(1, x)
          BY Zenon, <3>2, <4>1, <4>2, <4>3, <4>4, <4>5
        <4>7. Len(Interval(1, x)) = x
          BY Zenon, IntervalIs
        <4> QED BY Zenon, <3>1, <3>3, <4>1, <4>2, <4>6, <4>7
      <3>4. CASE ~(res > 0)
        <4>1. v = w
          BY Zenon, <2>0, <2>v, <3>1, <3>4 DEF Serves
        <4>2. f - 1 + 0 = f - 1
          OBVIOUS
        <4> QED BY Zenon, <3>1, <3>2, <3>4, <4>1, <4>2
      <3> QED BY Zenon, <3>3, <3>4
    <2>5. PICK i \in 1..Len(p) : p[i] = e
      BY Zenon DEF Replaces
    <2>6. /\ p[i].key = k.write_cancel_key /\ p[i].res <= Len(k.output)
          /\ Len(v) = First(k) - 1 + (IF p[i].res > 0 THEN p[i].res ELSE 0)
      BY Zenon, <2>1, <2>4, <2>5 DEF Replaces, Serves
    <2>7. Writes(k, c, P, p, v)
      BY Zenon, <2>1, <2>2, <2>3, <2>4, <2>6 DEF Writes
    <2> QED BY Zenon, <2>v, <2>7
  \* A connection that does not exist has no request with the kernel.
  <1>NoneAsks.
      ASSUME NEW s \in LoopState, NEW q, NEW n, Flow(s, q, n), NEW r \in s.ring
      PROVE  r.self \in Conns /\ r.type \in {"kRead", "kWrite"}
             /\ s.conn[r.self].state # "None"
    <2> USE <1>NoneAsks
    <2>1. r.self \in Conns /\ r.type \in {"kRead", "kWrite"}
      BY Zenon DEF LoopState, Request
    <2>2. SUFFICES ASSUME s.conn[r.self].state = "None" PROVE FALSE
      BY Zenon, <2>1
    <2>3. s.conn[r.self] = Blank /\ Accounts(Blank, r.self, s.ring, q, n[r.self])
      BY Zenon, <2>1, <2>2 DEF Flow, Flows
    <2>4. Unused(Blank)
      BY Zenon DEF Blank, Unused
    <2>5. /\ Writes(Blank, r.self, s.ring, q, n[r.self].wire)
          /\ Reads(Blank, r.self, s.ring, q, n[r.self].next)
      BY Zenon, <2>3, <2>4 DEF Accounts, Unused
    <2>6. CASE r.type = "kRead"
      BY Zenon, <2>4, <2>5, <2>6 DEF Reads, Unused
    <2>7. CASE r.type = "kWrite"
      BY Zenon, <2>4, <2>5, <2>7 DEF Writes, Unused
    <2> QED BY Zenon, <2>1, <2>6, <2>7
  \* A completed request keeps the account.
  <1>CompleteFlow.
      ASSUME NEW s \in LoopState, NEW t, NEW q \in Seq(Completion),
             NEW n \in [Conns -> Socket], NEW m, Settled(s, q, n),
             NEW r \in s.ring, NEW e \in Completion, e.key = r.key,
             NEW p, Completes(s, t, q, p, r, e),
             \A b \in Conns \ {r.self} : m[b] = n[b],
             IsAlive(s.conn[r.self]) => Serves(r, e, n[r.self], m[r.self])
      PROVE  Settled(t, p, m)
    <2> USE <1>CompleteFlow
    <2> DEFINE c == r.self
               k == s.conn[c]
    <2>1. Flow(s, q, n) /\ KeysApart(s, q)
      BY Zenon DEF Settled, Flow
    <2>2. c \in Conns /\ r.type \in {"kRead", "kWrite"} /\ k.state # "None"
      BY Zenon, <2>1, <1>NoneAsks
    <2>3. /\ KeysApart(t, p)
          /\ \A key : KeepsEntry(q, p, key)
          /\ Replaces(s.ring, t.ring, q, p, r, e)
      BY Zenon, <2>1, <1>CompleteKeys
    <2>0. t.conn = s.conn /\ t.ops = s.ops /\ t.ring = s.ring \ {r}
      BY Zenon DEF Completes
    <2>4. ASSUME NEW b \in Conns, NEW type, NEW key, HasOp(s, b, type, key)
          PROVE  HasOp(t, b, type, key)
      BY Zenon, <2>0, <2>4 DEF HasOp
    <2>5. ASSUME NEW b \in Conns \ {c} PROVE FlowOf(t, b, p, m)
      <3>1. Alike(s.ring, t.ring, b, "kRead") /\ Alike(s.ring, t.ring, b, "kWrite")
        <4>1. r.self # b
          BY Zenon
        <4>2. \A type : Alike(s.ring, s.ring \ {r}, b, type)
          BY Zenon, <4>1, AlikeRemove
        <4> QED BY Zenon, <2>0, <4>2
      <3>2. Undisturbed(s, t, q, p, b)
        BY Zenon, <2>0, <2>3, <2>4, <3>1 DEF Undisturbed
      <3>3. FlowOf(s, b, q, n)
        BY Zenon, <2>1 DEF Flow, FlowOf
      <3>4. m[b].wire = n[b].wire /\ m[b].next = n[b].next
        BY Zenon
      <3> QED BY Zenon, <3>2, <3>3, <3>4, UndisturbedFlow
    <2>6. Flying(t, c)
      <3>1. Flying(s, c) /\ t.conn[c] = k
        BY Zenon, <2>0, <2>1, <2>2 DEF Flow
      <3> QED BY Zenon, <2>2, <2>4, <3>1 DEF Flying
    <2>7. Flows(t, c, p, m)
      <3>1. SUFFICES ASSUME k.state # "Gone"
                     PROVE  Accounts(k, c, t.ring, p, m[c])
        BY Zenon, <2>0 DEF Flows
      <3>2. Accounts(k, c, s.ring, q, n[c]) /\ Serves(r, e, n[c], m[c])
        BY Zenon, <2>1, <2>2, <3>1 DEF Flow, Flows, IsAlive
      <3>3. /\ KeepsEntry(q, p, k.read_cancel_key)
            /\ KeepsEntry(q, p, k.write_cancel_key)
            /\ SameWrite(k, k) /\ SameRead(k, k)
        BY Zenon, <2>3 DEF SameWrite, SameRead
      <3>4. CASE r.type = "kRead"
        <4>1. Alike(s.ring, t.ring, c, "kWrite")
          <5>1. r.type # "kWrite"
            BY Zenon, <3>4
          <5>2. Alike(s.ring, s.ring \ {r}, c, "kWrite")
            BY Zenon, <5>1, AlikeRemove
          <5> QED BY Zenon, <2>0, <5>2
        <4>2. ~k.write_faulted => Writes(k, c, t.ring, p, n[c].wire)
          BY Zenon, <3>2, <3>3, <4>1, WritesKeep DEF Accounts
        <4>3. m[c].wire = n[c].wire
          BY Zenon, <3>2, <3>4 DEF Serves
        <4>4. ASSUME ~k.read_faulted PROVE Reads(k, c, t.ring, p, m[c].next)
          <5>1. Reads(k, c, s.ring, q, n[c].next)
            BY Zenon, <3>2, <4>4 DEF Accounts
          <5> QED BY Zenon, <2>3, <3>2, <3>4, <5>1, <1>KernelReads
        <4> QED BY Zenon, <4>2, <4>3, <4>4 DEF Accounts
      <3>5. CASE r.type = "kWrite"
        <4>1. Alike(s.ring, t.ring, c, "kRead")
          <5>1. r.type # "kRead"
            BY Zenon, <3>5
          <5>2. Alike(s.ring, s.ring \ {r}, c, "kRead")
            BY Zenon, <5>1, AlikeRemove
          <5> QED BY Zenon, <2>0, <5>2
        <4>2. ~k.read_faulted => Reads(k, c, t.ring, p, n[c].next)
          BY Zenon, <3>2, <3>3, <4>1, ReadsKeep DEF Accounts
        <4>3. m[c].next = n[c].next
          BY Zenon, <3>2, <3>5 DEF Serves
        <4>4. ASSUME ~k.write_faulted PROVE Writes(k, c, t.ring, p, m[c].wire)
          <5>1. Writes(k, c, s.ring, q, n[c].wire)
            BY Zenon, <3>2, <4>4 DEF Accounts
          <5>2. n[c].wire \in Seq(Nat) /\ r.data \in Seq(Nat) /\ e.res \in Int
            BY Zenon, <2>2 DEF Socket, LoopState, Request, Completion
          <5> QED BY Zenon, <2>3, <3>2, <3>5, <5>1, <5>2, <1>KernelWrites
        <4> QED BY Zenon, <4>2, <4>3, <4>4 DEF Accounts
      <3> QED BY Zenon, <2>2, <3>4, <3>5
    <2>8. FlowOf(t, c, p, m)
      BY Zenon, <2>0, <2>2, <2>6, <2>7 DEF FlowOf
    <2>9. Flow(t, p, m)
      <3>1. ASSUME NEW b \in Conns PROVE FlowOf(t, b, p, m)
        <4>1. CASE b = c
          BY Zenon, <2>8, <4>1
        <4>2. CASE b # c
          BY Zenon, <2>5, <4>2
        <4> QED BY Zenon, <4>1, <4>2
      <3> QED BY Zenon, <2>3, <3>1 DEF Flow, FlowOf
    <2> QED BY Zenon, <2>0, <2>9 DEF Settled, AllFlushed
  \* A completion that serves its request keeps the account.
  <1>CompletionFlow.
      ASSUME FlowInv, NEW r \in ring, NEW res \in Int, NEW lo \in Nat,
             Complete(r, res, lo),
             \A b \in Conns \ {r.self} : net'[b] = net[b],
             NEW e, e = [key |-> r.key, res |-> res, lo |-> lo],
             IsAlive(conn[r.self]) => Serves(r, e, net[r.self], net'[r.self])
      PROVE  Settled(Cur, cq, net)'
    <2> USE <1>CompletionFlow
    <2> DEFINE t == [Cur EXCEPT !.ring = ring \ {r}]
    <2>1. /\ Cur \in LoopState /\ cq \in Seq(Completion)
          /\ net \in [Conns -> Socket] /\ Settled(Cur, cq, net)
          /\ Cur.ring = ring /\ Cur.conn = conn
      BY Zenon DEF FlowInv, IInv, TypeOK, Cur
    <2>2. e \in Completion /\ e.key = r.key
      BY Zenon, <2>1 DEF LoopState, Request, Completion
    <2>3. /\ t.conn = Cur.conn /\ t.ops = Cur.ops /\ t.next_key = Cur.next_key
          /\ t.ring = ring \ {r} /\ t \in LoopState
      BY Zenon, <2>1 DEF Cur, LoopState
    <2>4. Become(t)
      BY Zenon DEF Become, Cur, Complete
    <2>5. cq' = Append(cq, e)
      BY Zenon DEF Complete
    <2> HIDE DEF t
    <2>6. Completes(Cur, t, cq, cq', r, e)
      BY Zenon, <2>1, <2>3, <2>5 DEF Completes
    <2>7. /\ r \in Cur.ring
          /\ IsAlive(Cur.conn[r.self]) => Serves(r, e, net[r.self], net'[r.self])
      BY Zenon, <2>1
    <2>8. Settled(t, cq', net')
      BY Zenon, <2>1, <2>2, <2>6, <2>7, <1>CompleteFlow
    <2> QED BY Zenon, <2>3, <2>4, <2>8, LoopSettles
  \* A request that fails, is cancelled or finds the end of the stream moves no
  \* byte.
  <1>FailedFlow.
      ASSUME FlowInv, NEW r \in ring, NEW res \in Int, res <= 0,
             Complete(r, res, 0), UNCHANGED net
      PROVE  Settled(Cur, cq, net)'
    <2> USE <1>FailedFlow
    <2>1. PICK e : e = [key |-> r.key, res |-> res, lo |-> 0]
      BY Zenon
    <2>2. e.res = res /\ ~(res > 0) /\ 0 \in Nat
      BY <2>1
    <2>3. r.data \in Seq(Nat)
      BY Zenon DEF FlowInv, IInv, TypeOK, Cur, LoopState, Request
    <2>4. e.res <= Len(r.data)
      BY <2>2, <2>3, SeqLen
    <2>5. Serves(r, e, net[r.self], net'[r.self])
      BY Zenon, <2>2, <2>4 DEF Serves
    <2> QED BY Zenon, <2>1, <2>2, <2>5, <1>CompletionFlow
  \* A read by the kernel keeps the account.
  <1>KernelReadFlow.
      ASSUME FlowInv, NEW r \in ring, NEW n \in Nat, KernelRead(r, n)
      PROVE  Settled(Cur, cq, net)'
    <2> USE <1>KernelReadFlow
    <2> DEFINE c == r.self
               k == net[c]
               l == [k EXCEPT !.avail = @ - n, !.next = @ + n]
    <2>1. c \in Conns /\ net \in [Conns -> Socket]
      BY Zenon DEF FlowInv, IInv, TypeOK, Cur, LoopState, Request
    <2>2. CASE /\ n \in 1..k.avail
               /\ Complete(r, n, k.next)
               /\ net' = [net EXCEPT ![c].avail = @ - n, ![c].next = @ + n]
      <3>1. net' = [net EXCEPT ![c] = l]
        BY Zenon, <2>1, <2>2
      <3>2. k \in Socket
        BY Zenon, <2>1
      <3>3. /\ n > 0 /\ n \in Int /\ k.next \in Nat
            /\ l.wire = k.wire /\ l.next = k.next + n
        BY <2>2, <3>2 DEF Socket
      <3> HIDE DEF l
      <3>4. /\ net'[c] = l
            /\ \A b \in Conns \ {c} : net'[b] = net[b]
        BY Zenon, <2>1, <3>1
      <3>5. PICK e : e = [key |-> r.key, res |-> n, lo |-> k.next]
        BY Zenon
      <3>6. e.res = n /\ e.lo = k.next /\ r.type # "kWrite"
        BY Zenon, <3>5 DEF KernelRead
      <3>7. Serves(r, e, k, net'[c])
        BY Zenon, <3>3, <3>4, <3>6 DEF Serves
      <3> QED BY Zenon, <2>2, <3>3, <3>4, <3>5, <3>7, <1>CompletionFlow
    <2>3. CASE Complete(r, 0, 0) /\ UNCHANGED net
      BY <2>3, <1>FailedFlow
    <2>4. CASE Complete(r, ECONNRESET, 0) /\ UNCHANGED net
      BY <2>4, <1>FailedFlow DEF ECONNRESET
    <2> QED BY Zenon, <2>2, <2>3, <2>4 DEF KernelRead
  \* A write by the kernel keeps the account.
  <1>KernelWriteFlow.
      ASSUME FlowInv, NEW r \in ring, NEW n \in Nat, KernelWrite(r, n)
      PROVE  Settled(Cur, cq, net)'
    <2> USE <1>KernelWriteFlow
    <2> DEFINE c == r.self
               k == net[c]
               sent == IF IsAlive(conn[c]) THEN SubSeq(r.data, 1, n)
                       ELSE [i \in 1..n |-> 0]
               l == [k EXCEPT !.wire = @ \o sent]
    <2>1. c \in Conns /\ net \in [Conns -> Socket]
      BY Zenon DEF FlowInv, IInv, TypeOK, Cur, LoopState, Request
    <2>2. CASE Complete(r, EOTHER, 0) /\ UNCHANGED net
      BY <2>2, <1>FailedFlow DEF EOTHER
    <2>3. CASE /\ n \in 1..Len(r.data)
               /\ Complete(r, n, 0)
               /\ net' = [net EXCEPT ![c].wire = @ \o sent]
      <3>1. net' = [net EXCEPT ![c] = l]
        BY Zenon, <2>1, <2>3
      <3>2. k \in Socket
        BY Zenon, <2>1
      <3>3. n > 0 /\ n \in Int /\ n <= Len(r.data) /\ 0 \in Nat
        BY <2>3
      <3>4. /\ l.next = k.next
            /\ IsAlive(conn[c]) => l.wire = k.wire \o SubSeq(r.data, 1, n)
        BY Zenon, <3>2 DEF Socket
      <3> HIDE DEF l, sent
      <3>5. /\ net'[c] = l
            /\ \A b \in Conns \ {c} : net'[b] = net[b]
        BY Zenon, <2>1, <3>1
      <3>6. PICK e : e = [key |-> r.key, res |-> n, lo |-> 0]
        BY Zenon
      <3>7. e.res = n /\ r.type # "kRead"
        BY Zenon, <3>6 DEF KernelWrite
      <3>8. IsAlive(conn[c]) => Serves(r, e, k, net'[c])
        BY Zenon, <3>3, <3>4, <3>5, <3>7 DEF Serves
      <3> QED BY Zenon, <2>3, <3>3, <3>5, <3>6, <3>8, <1>CompletionFlow
    <2> QED BY Zenon, <2>2, <2>3 DEF KernelWrite
  <1> SUFFICES ASSUME FlowInv, Kernel
               PROVE  Settled(Cur, cq, net)'
    BY Zenon
  <1>1. PICK r \in ring :
          \/ \E n \in 0..MaxRecv : KernelRead(r, n)
          \/ \E n \in 0..MaxSend : KernelWrite(r, n)
          \/ KernelCancel(r)
          \/ \E res \in {EAGAIN, EOTHER} : KernelFault(r, res)
    BY Zenon DEF Kernel
  <1>2. CASE \E n \in 0..MaxRecv : KernelRead(r, n)
    BY <1>2, <1>KernelReadFlow, BoundsAssumption
  <1>3. CASE \E n \in 0..MaxSend : KernelWrite(r, n)
    BY <1>3, <1>KernelWriteFlow, BoundsAssumption
  <1>4. CASE KernelCancel(r)
    BY <1>4, <1>FailedFlow DEF KernelCancel, ECANCELED
  <1>5. CASE \E res \in {EAGAIN, EOTHER} : KernelFault(r, res)
    BY <1>5, <1>FailedFlow DEF KernelFault, EAGAIN, EOTHER
  <1> QED BY Zenon, <1>1, <1>2, <1>3, <1>4, <1>5

\* Steps that change neither the loop state nor the bytes.
LEMMA IdleFlow ==
  ASSUME FlowInv, UNCHANGED <<loopVars, cq>>,
         \A b \in Conns : /\ net'[b].wire = net[b].wire
                          /\ net'[b].next = net[b].next
  PROVE  Settled(Cur, cq, net)'
  <1>1. Cur' = Cur /\ cq' = cq
    BY Zenon DEF Cur, loopVars
  <1>2. /\ Cur \in LoopState /\ Flow(Cur, cq, net) /\ KeysApart(Cur, cq)
        /\ AllFlushed(Cur) /\ \A b \in Conns : Listening(Cur.conn[b])
    BY Zenon DEF FlowInv, IInv, TypeOK, Settled, Flow
  <1>3. \A b \in Conns : Undisturbed(Cur, Cur, cq, cq, b)
    BY Zenon, AlikeSame, KeepsEntrySame DEF Undisturbed
  <1>4. Flow(Cur, cq, net')
    BY Zenon, <1>2, <1>3, AssembleAll
  <1>5. Settled(Cur, cq, net')
    BY Zenon, <1>2, <1>4 DEF Settled
  <1> QED BY Zenon, <1>1, <1>5

\* Every step of a peer keeps the account.
LEMMA PeerFlow ==
  ASSUME FlowInv, Peer
  PROVE  Settled(Cur, cq, net)'
  <1>1. net \in [Conns -> Socket]
    BY Zenon DEF FlowInv, IInv, TypeOK
  <1>2. PICK c \in Conns : PeerSend(c) \/ PeerClose(c) \/ PeerReset(c)
    BY Zenon DEF Peer
  <1>3. UNCHANGED <<loopVars, cq>>
    BY Zenon, <1>2 DEF PeerSend, PeerClose, PeerReset
  <1>4. ASSUME NEW b \in Conns
        PROVE  net'[b].wire = net[b].wire /\ net'[b].next = net[b].next
    <2>1. net[b] \in Socket
      BY Zenon, <1>1
    <2>2. \/ net'[b] = net[b]
          \/ net'[b] = [net[b] EXCEPT !.avail = @ + 1]
          \/ net'[b] = [net[b] EXCEPT !.eof = TRUE]
          \/ net'[b] = [net[b] EXCEPT !.reset = TRUE]
      BY Zenon, <1>1, <1>2 DEF PeerSend, PeerClose, PeerReset
    <2> QED BY Zenon, <2>1, <2>2 DEF Socket
  <1> QED BY Zenon, <1>3, <1>4, IdleFlow

-----------------------------------------------------------------------------
(***************************************************************************)
(* The destruction of closed connections.                                  *)
(***************************************************************************)

\* The ring and ops_ after the operations with keys in K were cancelled.
Marked(R, K) ==
  {IF r.key \in K THEN [r EXCEPT !.cancel = TRUE] ELSE r : r \in R}
Struck(O, K) ==
  {IF o.key \in K THEN [o EXCEPT !.eventer = NoAddr, !.completion = FALSE]
   ELSE o : o \in O}

\* An operation is of one connection and of one type.
LEMMA OneOp ==
  ASSUME NEW s, NEW q, KeysApart(s, q), NEW b, NEW c, NEW type, NEW other,
         NEW key, HasOp(s, b, type, key), HasOp(s, c, other, key)
  PROVE  b = c /\ type = other
  BY Zenon DEF HasOp, KeysApart

\* What cancelling the operations with keys in K (L: those of them that the
\* kernel is asked to cancel) does to the other operations.
LEMMA Strike ==
  \A s \in LoopState : \A t, q, K, L :
     /\ KeysApart(s, q)
     /\ t.ops = Struck(s.ops, K)
     /\ t.ring = Marked(s.ring, L)
     /\ t.next_key = s.next_key
    => /\ KeysApart(t, q)
       /\ \A b, type : Alike(s.ring, t.ring, b, type)
       /\ \A b, type, key :
            HasOp(s, b, type, key) /\ key \notin K => HasOp(t, b, type, key)
  \* Asking the kernel to cancel changes no request otherwise.
  <1>MarkedRing.
      ASSUME NEW R, R \subseteq Request, NEW K
      PROVE  /\ \A b, type : Alike(R, Marked(R, K), b, type)
             /\ \A x \in Marked(R, K) : \E r \in R : x.key = r.key
             /\ (\A r, p \in R : r.key = p.key => r = p) =>
                  \A x, y \in Marked(R, K) : x.key = y.key => x = y
    <2> USE <1>MarkedRing
    <2> DEFINE M(r) == IF r.key \in K THEN [r EXCEPT !.cancel = TRUE] ELSE r
    <2>1. ASSUME NEW r \in R
          PROVE  /\ M(r).key = r.key /\ M(r).self = r.self
                 /\ M(r).type = r.type /\ M(r).data = r.data
      <3>1. r \in Request
        BY Zenon
      <3>2. LET x == [r EXCEPT !.cancel = TRUE]
            IN /\ x.key = r.key /\ x.self = r.self
               /\ x.type = r.type /\ x.data = r.data
        BY Zenon, <3>1 DEF Request
      <3> QED BY Zenon, <3>2
    <2>2. Marked(R, K) = {M(r) : r \in R}
      BY Zenon DEF Marked
    <2> HIDE DEF M
    <2>3. /\ \A r \in R : M(r) \in Marked(R, K)
          /\ \A x \in Marked(R, K) : \E r \in R : x = M(r)
      BY Zenon, <2>2
    <2>4. ASSUME NEW b, NEW type PROVE Alike(R, Marked(R, K), b, type)
      <3>1. ASSUME NEW r \in R, r.self = b /\ r.type = type
            PROVE  \E x \in Marked(R, K) : /\ x.self = b /\ x.type = type
                                           /\ x.key = r.key /\ x.data = r.data
        BY Zenon, <2>1, <2>3, <3>1
      <3>2. ASSUME NEW x \in Marked(R, K), x.self = b /\ x.type = type
            PROVE  \E r \in R : /\ r.self = b /\ r.type = type
                                /\ x.key = r.key /\ x.data = r.data
        <4>1. PICK r \in R : x = M(r)
          BY Zenon, <2>3
        <4> QED BY Zenon, <2>1, <3>2, <4>1
      <3> QED BY Zenon, <3>1, <3>2 DEF Alike
    <2>5. ASSUME NEW x \in Marked(R, K) PROVE \E r \in R : x.key = r.key
      <3>1. PICK r \in R : x = M(r)
        BY Zenon, <2>3
      <3> QED BY Zenon, <2>1, <3>1
    <2>6. ASSUME \A r, p \in R : r.key = p.key => r = p,
                 NEW x \in Marked(R, K), NEW y \in Marked(R, K), x.key = y.key
          PROVE  x = y
      <3>1. PICK r \in R : x = M(r)
        BY Zenon, <2>3
      <3>2. PICK p \in R : y = M(p)
        BY Zenon, <2>3
      <3>3. r.key = p.key
        BY Zenon, <2>1, <2>6, <3>1, <3>2
      <3> QED BY Zenon, <2>6, <3>1, <3>2, <3>3
    <2> QED BY Zenon, <2>4, <2>5, <2>6
  \* Cancelling changes only the operations that are cancelled.
  <1>StruckOps.
      ASSUME NEW O, O \subseteq Op, NEW K
      PROVE  /\ \A o \in O : o.key \notin K => o \in Struck(O, K)
             /\ \A x \in Struck(O, K) : \E o \in O : x.key = o.key
             /\ (\A o, p \in O : o.key = p.key => o = p) =>
                  \A x, y \in Struck(O, K) : x.key = y.key => x = y
    <2> USE <1>StruckOps
    <2> DEFINE M(o) == IF o.key \in K
                       THEN [o EXCEPT !.eventer = NoAddr, !.completion = FALSE]
                       ELSE o
    <2>1. ASSUME NEW o \in O
          PROVE  M(o).key = o.key /\ (o.key \notin K => M(o) = o)
      <3>1. o \in Op
        BY Zenon
      <3>2. [o EXCEPT !.eventer = NoAddr, !.completion = FALSE].key = o.key
        BY Zenon, <3>1 DEF Op
      <3> QED BY Zenon, <3>2
    <2>2. Struck(O, K) = {M(o) : o \in O}
      BY Zenon DEF Struck
    <2> HIDE DEF M
    <2>3. /\ \A o \in O : M(o) \in Struck(O, K)
          /\ \A x \in Struck(O, K) : \E o \in O : x = M(o)
      BY Zenon, <2>2
    <2>4. ASSUME NEW x \in Struck(O, K) PROVE \E o \in O : x.key = o.key
      <3>1. PICK o \in O : x = M(o)
        BY Zenon, <2>3
      <3> QED BY <2>1, <3>1
    <2>5. ASSUME \A o, p \in O : o.key = p.key => o = p,
                 NEW x \in Struck(O, K), NEW y \in Struck(O, K), x.key = y.key
          PROVE  x = y
      <3>1. PICK o \in O : x = M(o)
        BY Zenon, <2>3
      <3>2. PICK p \in O : y = M(p)
        BY Zenon, <2>3
      <3>3. o.key = p.key
        BY Zenon, <2>1, <2>5, <3>1, <3>2
      <3> QED BY Zenon, <2>5, <3>1, <3>2, <3>3
    <2>6. ASSUME NEW o \in O, o.key \notin K PROVE o \in Struck(O, K)
      BY Zenon, <2>1, <2>3, <2>6
    <2> QED BY Zenon, <2>4, <2>5, <2>6
  <1> SUFFICES ASSUME NEW s \in LoopState, NEW t, NEW q, NEW K, NEW L, KeysApart(s, q),
                      t.ops = Struck(s.ops, K), t.ring = Marked(s.ring, L),
                      t.next_key = s.next_key
               PROVE  /\ KeysApart(t, q)
                      /\ \A b, type : Alike(s.ring, t.ring, b, type)
                      /\ \A b, type, key :
                           HasOp(s, b, type, key) /\ key \notin K => HasOp(t, b, type, key)
    OBVIOUS
  <1>1. s.ops \subseteq Op /\ s.ring \subseteq Request
    BY Zenon DEF LoopState
  <1>2. /\ \A b, type : Alike(s.ring, t.ring, b, type)
        /\ \A x \in t.ring : \E r \in s.ring : x.key = r.key
        /\ \A x, y \in t.ring : x.key = y.key => x = y
    <2>1. \A r, p \in s.ring : r.key = p.key => r = p
      BY Zenon DEF KeysApart
    <2>2. /\ \A b, type : Alike(s.ring, Marked(s.ring, L), b, type)
          /\ \A x \in Marked(s.ring, L) : \E r \in s.ring : x.key = r.key
          /\ \A x, y \in Marked(s.ring, L) : x.key = y.key => x = y
      BY Zenon, <1>1, <2>1, <1>MarkedRing
    <2> QED BY <2>2
  <1>3. /\ \A o \in s.ops : o.key \notin K => o \in t.ops
        /\ \A x \in t.ops : \E o \in s.ops : x.key = o.key
        /\ \A x, y \in t.ops : x.key = y.key => x = y
    <2>1. \A o, p \in s.ops : o.key = p.key => o = p
      BY Zenon DEF KeysApart
    <2>2. /\ \A o \in s.ops : o.key \notin K => o \in Struck(s.ops, K)
          /\ \A x \in Struck(s.ops, K) : \E o \in s.ops : x.key = o.key
          /\ \A x, y \in Struck(s.ops, K) : x.key = y.key => x = y
      BY Zenon, <1>1, <2>1, <1>StruckOps
    <2> QED BY <2>2
  <1>4. /\ \A x \in t.ring : x.key < t.next_key
        /\ \A x \in t.ring, i \in 1..Len(q) : x.key # q[i].key
    <2>1. ASSUME NEW x \in t.ring
          PROVE  x.key < t.next_key /\ \A i \in 1..Len(q) : x.key # q[i].key
      <3>1. PICK r \in s.ring : x.key = r.key
        BY Zenon, <1>2
      <3>2. r.key < t.next_key /\ \A i \in 1..Len(q) : r.key # q[i].key
        BY Zenon DEF KeysApart
      <3> QED BY Zenon, <3>1, <3>2
    <2> QED BY Zenon, <2>1
  <1>5. \A x \in t.ops : x.key < t.next_key
    <2>1. ASSUME NEW x \in t.ops
          PROVE  x.key < t.next_key
      <3>1. PICK o \in s.ops : x.key = o.key
        BY Zenon, <1>3
      <3>2. o.key < t.next_key
        BY Zenon DEF KeysApart
      <3> QED BY Zenon, <3>1, <3>2
    <2> QED BY Zenon, <2>1
  <1>6. KeysApart(t, q)
    BY Zenon, <1>2, <1>3, <1>4, <1>5 DEF KeysApart
  <1>7. ASSUME NEW b, NEW type, NEW key, HasOp(s, b, type, key), key \notin K
        PROVE  HasOp(t, b, type, key)
    <2>1. PICK o \in s.ops : /\ o.key = key /\ o.type = type
                             /\ o.self = b /\ o.completion
      BY Zenon, <1>7 DEF HasOp
    <2>2. o \in t.ops
      BY Zenon, <1>3, <1>7, <2>1
    <2> QED BY Zenon, <2>1, <2>2 DEF HasOp
  <1> QED BY Zenon, <1>2, <1>6, <1>7

\* A connection that DestroyClosedConnections has destroyed.
Destroyed(l) ==
  l.state = "Gone" /\ ~l.read_in_flight /\ ~l.write_in_flight

\* A connection that it leaves alone, or waits for.
Rests(k, l) ==
  /\ l.state = k.state
  /\ SameWrite(k, l) /\ SameRead(k, l)
  /\ l.write_faulted = k.write_faulted /\ l.read_faulted = k.read_faulted
  /\ l = k \/ k.state = "kDisconnected"

\* Key is that of an operation that connection k has in flight.
InFlight(k, key) ==
  \/ k.read_in_flight /\ key = k.read_cancel_key
  \/ k.write_in_flight /\ key = k.write_cancel_key

\* The destruction of the connections in dead, whose operations K are
\* cancelled.
Destroys(s, t, n, m, dead, K) ==
  /\ t.ops = Struck(s.ops, K)
  /\ t.ring = Marked(s.ring, K)
  /\ t.next_key = s.next_key
  /\ \A key \in K : \E b \in dead : InFlight(s.conn[b], key)
  /\ \A c \in dead : c \in Conns /\ Destroyed(t.conn[c])
  /\ \A c \in Conns \ dead : Rests(s.conn[c], t.conn[c]) /\ m[c] = n[c]

\* EventManager::DestroyClosedConnections destroys, and waits for,
\* connections that are closed.
LEMMA DestroyFlow ==
  FlowInv /\ DestroyClosedConnections =>
    Settled(Cur, cq, net)'
  \* What is in flight for a connection is not in flight for another.
  <1>NotCancelled.
      ASSUME NEW s, NEW q, NEW n, Flow(s, q, n), NEW b \in Conns, NEW c \in Conns,
             b # c, NEW type, NEW key, HasOp(s, c, type, key)
      PROVE  ~InFlight(s.conn[b], key)
    <2> USE <1>NotCancelled
    <2>1. KeysApart(s, q) /\ Flying(s, b)
      BY Zenon DEF Flow
    <2>2. ASSUME InFlight(s.conn[b], key) PROVE \E other : HasOp(s, b, other, key)
      BY Zenon, <2>1, <2>2 DEF InFlight, Flying
    <2>3. ASSUME NEW other, HasOp(s, b, other, key) PROVE FALSE
      BY Zenon, <2>1, <2>3, OneOp
    <2> QED BY Zenon, <2>2, <2>3
  \* A connection that is not destroyed keeps its account.
  <1>RestFlow.
      ASSUME NEW s \in LoopState, NEW t, NEW q, NEW n, NEW m, Flow(s, q, n),
             NEW dead, NEW K, Destroys(s, t, n, m, dead, K),
             NEW c \in Conns, c \notin dead,
             \A b, type : Alike(s.ring, t.ring, b, type),
             \A b, type, key :
               HasOp(s, b, type, key) /\ key \notin K => HasOp(t, b, type, key)
      PROVE  FlowOf(t, c, q, m)
    <2> USE <1>RestFlow
    <2> DEFINE k == s.conn[c]
               l == t.conn[c]
    <2>1. /\ Rests(k, l) /\ m[c] = n[c] /\ SameWrite(k, l) /\ SameRead(k, l)
      BY Zenon DEF Destroys, Rests
    <2>2. Flying(s, c) /\ (k.state = "None" => k = Blank) /\ Flows(s, c, q, n)
      BY Zenon DEF Flow
    <2>3. ASSUME NEW type, NEW key, HasOp(s, c, type, key)
          PROVE  HasOp(t, c, type, key)
      <3>1. ASSUME key \in K PROVE FALSE
        <4>1. PICK b \in dead : b \in Conns /\ InFlight(s.conn[b], key)
          BY Zenon, <3>1 DEF Destroys
        <4>2. b # c
          BY Zenon, <4>1
        <4> QED BY Zenon, <2>3, <4>1, <4>2, <1>NotCancelled
      <3> QED BY Zenon, <2>3, <3>1
    <2>4. Flying(t, c)
      BY Zenon, <2>1, <2>2, <2>3 DEF Flying, SameRead, SameWrite
    <2>5. l.state = "None" => l = Blank
      BY Zenon, <2>1, <2>2 DEF Rests
    <2>6. Flows(t, c, q, m)
      <3>1. SUFFICES ASSUME l.state # "Gone"
                     PROVE  Accounts(l, c, t.ring, q, m[c])
        BY Zenon DEF Flows
      <3>2. Accounts(k, c, s.ring, q, n[c])
        BY Zenon, <2>1, <2>2, <3>1 DEF Flows, Rests
      <3>3. \A key : KeepsEntry(q, q, key)
        BY Zenon, KeepsEntrySame
      <3> HIDE DEF k, l
      <3>4. ~l.write_faulted => Writes(l, c, t.ring, q, n[c].wire)
        BY Zenon, <2>1, <3>2, <3>3, WritesKeep DEF Accounts, Rests
      <3>5. ~l.read_faulted => Reads(l, c, t.ring, q, n[c].next)
        BY Zenon, <2>1, <3>2, <3>3, ReadsKeep DEF Accounts, Rests
      <3> QED BY Zenon, <2>1, <3>4, <3>5 DEF Accounts
    <2> QED BY Zenon, <2>4, <2>5, <2>6 DEF FlowOf
  \* The destruction of closed connections keeps the account of the others.
  <1>DestroyedFlow.
      ASSUME NEW s \in LoopState, NEW t, NEW q, NEW n, NEW m, Settled(s, q, n),
             NEW dead, NEW K, Destroys(s, t, n, m, dead, K)
      PROVE  Settled(t, q, m)
    <2> USE <1>DestroyedFlow
    <2>1. /\ Flow(s, q, n) /\ KeysApart(s, q) /\ AllFlushed(s)
          /\ \A b \in Conns : Listening(s.conn[b])
      BY Zenon DEF Settled, Flow
    <2>2. /\ KeysApart(t, q)
          /\ \A b, type : Alike(s.ring, t.ring, b, type)
          /\ \A b, type, key :
               HasOp(s, b, type, key) /\ key \notin K => HasOp(t, b, type, key)
      BY Zenon, <2>1, Strike DEF Destroys
    <2>3. ASSUME NEW c \in Conns
          PROVE  FlowOf(t, c, q, m) /\ Flushed(t.conn[c]) /\ Listening(t.conn[c])
      <3>1. CASE c \in dead
        <4>1. Destroyed(t.conn[c])
          BY Zenon, <3>1 DEF Destroys
        <4>2. Flying(t, c) /\ Flows(t, c, q, m) /\ t.conn[c].state # "None"
          BY Zenon, <4>1 DEF Flying, Flows, Destroyed
        <4>3. Flushed(t.conn[c]) /\ Listening(t.conn[c])
          BY Zenon, <4>1 DEF Flushed, Listening, OpenState, Destroyed
        <4> QED BY Zenon, <4>2, <4>3 DEF FlowOf
      <3>2. CASE c \notin dead
        <4>1. FlowOf(t, c, q, m)
          BY Zenon, <2>1, <2>2, <3>2, <1>RestFlow
        <4>2. Rests(s.conn[c], t.conn[c])
          BY Zenon, <3>2 DEF Destroys
        <4>3. Flushed(s.conn[c]) /\ Listening(s.conn[c])
          BY Zenon, <2>1 DEF AllFlushed
        <4>4. Flushed(t.conn[c])
          BY Zenon, <4>2, <4>3 DEF Flushed, Rests, SameWrite
        <4>5. Listening(t.conn[c])
          BY Zenon, <4>2, <4>3 DEF Listening, OpenState, Rests, SameRead
        <4> QED BY Zenon, <4>1, <4>4, <4>5
      <3> QED BY Zenon, <3>1, <3>2
    <2>4. Flow(t, q, m)
      BY Zenon, <2>2, <2>3 DEF Flow, FlowOf
    <2> QED BY Zenon, <2>3, <2>4 DEF Settled, AllFlushed
  <1> SUFFICES ASSUME FlowInv, DestroyClosedConnections
               PROVE  Settled(Cur, cq, net)'
    BY Zenon
  <1> DEFINE kept == {f \in Fds : Kept(f)}
             erased == {f \in Fds : Doomed(f)} \ kept
             waiting == {connection_map[f] : f \in kept}
             dead == {connection_map[f] : f \in erased}
             keys == {conn[c].read_cancel_key :
                        c \in {b \in dead : conn[b].read_in_flight}}
                     \cup {conn[c].write_cancel_key :
                             c \in {b \in dead : conn[b].write_in_flight}}
  <1>1. /\ conn' = [c \in Conns |->
             CASE c \in waiting -> BumpPendingIoWait(conn[c])
               [] c \in dead -> [Blank EXCEPT !.state = "Gone",
                                              !.told = conn[c].told]
               [] OTHER -> conn[c]]
        /\ ops' = Struck(ops, keys)
        /\ ring' = Marked(ring, keys)
        /\ net' = [c \in Conns |-> IF c \in dead THEN NewSocket ELSE net[c]]
        /\ next_key' = next_key /\ cq' = cq
    BY Zenon DEF DestroyClosedConnections, Struck, Marked
  <1>2. /\ Cur \in LoopState /\ conn \in [Conns -> Connection]
        /\ connection_map \in [Fds -> Conns \cup {NoConn}]
        /\ Settled(Cur, cq, net)
    BY Zenon DEF FlowInv, IInv, TypeOK, Cur, LoopState
  <1>3. \A f \in Fds : connection_map[f] # NoConn =>
          conn[connection_map[f]].fd = f
    BY Zenon DEF FlowInv, IInv, Good, GoodReg, Cur
  <1>4. \A f \in Fds : Doomed(f) => /\ connection_map[f] \in Conns
                                    /\ connection_map[f] # NoConn
                                    /\ IsDisconnected(conn[connection_map[f]])
    BY Zenon, <1>2 DEF Doomed
  <1>5. /\ \A c \in dead : c \in Conns /\ c \notin waiting
        /\ \A c \in waiting : IsDisconnected(conn[c])
    BY Zenon, <1>3, <1>4 DEF Kept
  <1>6. \A key \in keys : \E b \in dead : InFlight(conn[b], key)
    <2> HIDE DEF dead
    <2> QED BY Zenon DEF InFlight
  <1> HIDE DEF kept, erased, waiting, dead, keys
  <1>7. ASSUME NEW c \in dead PROVE c \in Conns /\ Destroyed(conn'[c])
    <2>1. conn'[c] = [Blank EXCEPT !.state = "Gone", !.told = conn[c].told]
      BY Zenon, <1>1, <1>5
    <2> QED BY <1>5, <2>1 DEF Blank, Destroyed
  <1>8. ASSUME NEW c \in Conns \ dead
        PROVE  Rests(conn[c], conn'[c]) /\ net'[c] = net[c]
    <2>1. net'[c] = net[c]
      BY Zenon, <1>1
    <2>2. PICK k \in Connection : k = conn[c]
      BY Zenon, <1>2
    <2>3. CASE c \in waiting
      <3>1. conn'[c] = BumpPendingIoWait(k) /\ IsDisconnected(k)
        BY Zenon, <1>1, <1>5, <2>2, <2>3
      <3> DEFINE l == [k EXCEPT !.retries = @ + 1]
      <3>2. /\ l.state = k.state
            /\ SameWrite(k, l) /\ SameRead(k, l)
            /\ l.write_faulted = k.write_faulted
            /\ l.read_faulted = k.read_faulted
        BY Zenon DEF Connection, SameWrite, SameRead
      <3>3. conn'[c] = l /\ k.state = "kDisconnected"
        BY Zenon, <3>1 DEF BumpPendingIoWait, IsDisconnected
      <3> HIDE DEF l
      <3>4. Rests(k, l)
        BY Zenon, <3>2, <3>3 DEF Rests
      <3> QED BY Zenon, <2>1, <2>2, <3>3, <3>4
    <2>4. CASE c \notin waiting
      <3>1. conn'[c] = k
        BY Zenon, <1>1, <2>2, <2>4
      <3>2. Rests(k, k)
        BY Zenon DEF Rests, SameWrite, SameRead
      <3> QED BY Zenon, <2>1, <2>2, <3>1, <3>2
    <2> QED BY Zenon, <2>3, <2>4
  <1>9. PICK t : t = Cur'
    BY Zenon
  <1>10. /\ t.conn = conn' /\ t.ops = ops' /\ t.ring = ring'
         /\ t.next_key = next_key' /\ Cur.conn = conn /\ Cur.ops = ops
         /\ Cur.ring = ring /\ Cur.next_key = next_key
    BY Zenon, <1>9 DEF Cur
  <1>11. Destroys(Cur, t, net, net', dead, keys)
    BY Zenon, <1>1, <1>6, <1>7, <1>8, <1>10 DEF Destroys
  <1>12. Settled(t, cq, net')
    BY Zenon, <1>2, <1>11, <1>DestroyedFlow
  <1> QED BY Zenon, <1>1, <1>9, <1>12

-----------------------------------------------------------------------------
(***************************************************************************)
(* The initial state, and what the invariant implies.                      *)
(***************************************************************************)

\* The account of the output when no write is in flight; g is the number of
\* the first byte that is not written.
LEMMA IdleWrites ==
  ASSUME NEW l, NEW c, NEW R, NEW q, NEW w, NEW g \in Nat, g # 0,
         NEW x \in Nat, NEW y \in Nat, First(l) = g,
         l.output = Interval(g, x), l.pending = Interval(g + x, y),
         ~l.write_in_flight, w = Interval(1, Len(w)), Len(w) = g - 1,
         \A r \in R : ~(r.self = c /\ r.type = "kWrite")
  PROVE  Writes(l, c, R, q, w)
  <1>1. Len(l.output) = x
    BY Zenon, IntervalIs
  <1>2. PICK z \in Nat : z = g + x
    OBVIOUS
  <1>3. Len(l.pending) = y
    BY Zenon, <1>2, IntervalIs
  <1> QED BY Zenon, <1>1, <1>3 DEF Writes

\* The invariant holds when EventManager::Start begins.
LEMMA InitFlow ==
  Init =>
    FlowInv
  \* A connection that does not exist has a balanced account.
  <1>BlankAccounts.
      ASSUME NEW c
      PROVE  Accounts(Blank, c, {}, <<>>, NewSocket)
    <2> USE <1>BlankAccounts
    <2>1. /\ Unused(Blank) /\ NewSocket.wire = <<>> /\ NewSocket.next = 1
      BY Zenon DEF Blank, Unused, NewSocket
    <2>2. PICK k, w : k = Blank /\ w = NewSocket.wire
      BY Zenon
    <2>3. /\ 1 \in Nat /\ 0 \in Nat /\ 1 # 0 /\ 1 + 0 = 1 /\ 1 - 1 = 0
          /\ Len(<<>>) = 0 /\ 0 + 1 = 1 /\ 0 + 1 - 0 - 0 = 1
      OBVIOUS
    <2>4. Interval(1, 0) = <<>>
      BY Zenon, <2>3, IntervalEmpty
    <2>5. First(k) = 1
      BY Zenon, <2>1, <2>2, <2>3 DEF First, Unused
    <2>6. /\ k.output = Interval(1, 0) /\ k.pending = Interval(1 + 0, 0)
          /\ ~k.write_in_flight /\ w = Interval(1, Len(w)) /\ Len(w) = 1 - 1
      BY Zenon, <2>1, <2>2, <2>3, <2>4 DEF Unused
    <2>7. Writes(k, c, {}, <<>>, w)
      BY Zenon, <2>3, <2>5, <2>6, IdleWrites
    <2>8. Reads(k, c, {}, <<>>, NewSocket.next)
      BY Zenon, <2>1, <2>2, <2>3, <2>4 DEF Reads, Unused
    <2> QED BY Zenon, <2>2, <2>7, <2>8 DEF Accounts
  <1> SUFFICES ASSUME Init
               PROVE  FlowInv
    BY Zenon
  <1>1. /\ Cur.ring = {} /\ Cur.ops = {} /\ cq = <<>>
        /\ \A c \in Conns : Cur.conn[c] = Blank /\ net[c] = NewSocket
    BY Zenon DEF Init, Cur
  <1>2. KeysApart(Cur, cq)
    BY <1>1 DEF KeysApart
  <1>3. /\ Unused(Blank) /\ Blank.state = "None"
    BY Zenon DEF Blank, Unused
  <1>4. Flushed(Blank) /\ Listening(Blank)
    BY Zenon, <1>3 DEF Flushed, Listening, OpenState, Unused
  <1>5. ASSUME NEW c \in Conns PROVE Flying(Cur, c) /\ Flows(Cur, c, cq, net)
    <2>1. Accounts(Blank, c, {}, <<>>, NewSocket)
      BY Zenon, <1>BlankAccounts
    <2>2. Flying(Cur, c)
      BY Zenon, <1>1, <1>3 DEF Flying, Unused
    <2> QED BY Zenon, <1>1, <2>1, <2>2 DEF Flows
  <1>6. Settled(Cur, cq, net)
    BY Zenon, <1>1, <1>2, <1>4, <1>5 DEF Settled, Flow, AllFlushed
  <1> QED BY Zenon, <1>6, InitIInv DEF FlowInv

\* What has arrived for a connection that is reading is at most the completion
\* of its read in flight.
Arrives(arrived, q, key) ==
  /\ arrived \subseteq 1..Len(q)
  /\ \A i \in 1..Len(q) : i \in arrived <=> q[i].key = key /\ q[i].res > 0
InputBalanced(k, q, next, arrived) ==
  /\ k.input = Interval(1, Len(k.input))
  /\ \/ arrived = {} /\ next = Len(k.input) + 1
     \/ \E i \in arrived :
          /\ arrived = {i}
          /\ q[i].lo = Len(k.input) + 1
          /\ next = q[i].lo + q[i].res

\* The invariant implies the four properties of the runs.
LEMMA FlowImplies ==
  FlowInv =>
    OutputConserved /\ NoStalledOutput /\ NeverDeaf /\ InputConserved
  \* The account of a live connection.
  <1>AliveAccount.
      ASSUME FlowInv, NEW c \in Conns, IsAlive(conn[c])
      PROVE  /\ Accounts(conn[c], c, ring, cq, net[c]) /\ Flushed(conn[c])
             /\ Listening(conn[c]) /\ conn[c] \in Connection
             /\ net[c].wire \in Seq(Nat)
    <2> USE <1>AliveAccount
    <2>1. Cur.conn = conn /\ Cur.ring = ring
      BY Zenon DEF Cur
    <2>2. conn[c] \in Connection /\ net[c].wire \in Seq(Nat)
      BY Zenon, <2>1 DEF FlowInv, IInv, TypeOK, LoopState, Socket
    <2>3. Accounts(conn[c], c, ring, cq, net[c])
      BY Zenon, <2>1 DEF FlowInv, Settled, Flow, Flows, IsAlive
    <2> QED BY Zenon, <2>1, <2>2, <2>3 DEF FlowInv, Settled, AllFlushed
  \* The two output buffers are one interval that ends with the last byte
  \* accepted.
  <1>WritesConserve.
      ASSUME NEW k \in Connection, NEW c, NEW R, NEW q \in Seq(Completion),
             NEW w \in Seq(Nat), Writes(k, c, R, q, w)
      PROVE  LET unconfirmed == k.output \o k.pending
             IN /\ w = Interval(1, Len(w))
                /\ unconfirmed = Interval(k.accepted - Len(unconfirmed) + 1,
                                          Len(unconfirmed))
                /\ Len(w) + Len(unconfirmed) >= k.accepted
    <2> USE <1>WritesConserve
    <2>1. PICK f \in Nat, a \in Nat, b \in Nat, accepted \in Nat, g \in Nat :
            /\ f = First(k) /\ a = Len(k.output) /\ b = Len(k.pending)
            /\ accepted = k.accepted /\ g = Len(w)
      BY Zenon, SeqLen DEF Writes, Connection
    <2>2. /\ k.output = Interval(f, a) /\ k.pending = Interval(f + a, b)
          /\ w = Interval(1, Len(w))
      BY Zenon, <2>1 DEF Writes
    <2>3. k.output \o k.pending = Interval(f, a + b)
      <3>1. Interval(f, a) \o Interval(f + a, b) = Interval(f, a + b)
        BY Zenon, IntervalJoin
      <3> QED BY Zenon, <2>2, <3>1
    <2>4. PICK u \in Nat : u = a + b
      OBVIOUS
    <2>5. Len(k.output \o k.pending) = u
      <3>1. Len(Interval(f, u)) = u
        BY Zenon, IntervalIs
      <3> QED BY Zenon, <2>3, <2>4, <3>1
    <2>6. f = accepted + 1 - a - b
      BY Zenon, <2>1 DEF First
    <2>7. accepted - u + 1 = f
      BY <2>4, <2>6
    <2>8. g >= f - 1
      <3>1. \/ g = f - 1
            \/ \E x \in 1..Len(q) :
                 g = f - 1 + (IF q[x].res > 0 THEN q[x].res ELSE 0)
        BY Zenon, <2>1 DEF Writes
      <3>2. ASSUME NEW x \in 1..Len(q) PROVE q[x].res \in Int
        <4>1. q[x] \in Completion
          OBVIOUS
        <4> QED BY Zenon, <4>1 DEF Completion
      <3> QED BY <3>1, <3>2
    <2>9. g + u >= accepted
      BY <2>4, <2>6, <2>8
    <2> QED BY Zenon, <2>1, <2>2, <2>3, <2>4, <2>5, <2>7, <2>9
  \* A read completion that will be delivered to a live connection is the one
  \* of its read in flight.
  <1>ReadArrives.
      ASSUME FlowInv, NEW c \in Conns, IsAlive(conn[c]), conn[c].read_in_flight,
             NEW i \in 1..Len(cq)
      PROVE  (\E o \in ops : /\ o.key = cq[i].key
                             /\ o.self = c /\ o.type = "kRead"
                             /\ Invoked(o) /\ cq[i].res > 0)
               <=> cq[i].key = conn[c].read_cancel_key /\ cq[i].res > 0
    <2> USE <1>ReadArrives
    <2>1. Cur.conn = conn /\ Cur.ops = ops
      BY Zenon DEF Cur
    <2>2. \A o \in ops : o.completion => Owned(Cur, o)
      BY Zenon, <2>1 DEF FlowInv, IInv, Good, GoodOps
    <2>3. ASSUME NEW o \in ops, o.self = c, o.type = "kRead", Invoked(o)
          PROVE  o.key = conn[c].read_cancel_key
      BY Zenon, <2>1, <2>2, <2>3 DEF Owned, Invoked
    <2>4. PICK o \in ops : /\ o.key = conn[c].read_cancel_key /\ o.type = "kRead"
                           /\ o.self = c /\ o.completion
      BY Zenon, <2>1 DEF FlowInv, Settled, Flow, Flying, HasOp
    <2>5. Invoked(o)
      <3>1. conn[c].addr = o.eventer
        BY Zenon, <2>1, <2>2, <2>4 DEF Owned
      <3>2. o.eventer \in states_
        BY Zenon, <3>1 DEF states_, Alive
      <3> QED BY Zenon, <2>4, <3>2 DEF Invoked
    <2> QED BY Zenon, <2>3, <2>4, <2>5
  <1>ReadsConserve.
      ASSUME NEW k, NEW c, NEW s, NEW q, NEW next, KeysApart(s, q),
             Reads(k, c, s.ring, q, next), k.read_in_flight,
             NEW arrived, Arrives(arrived, q, k.read_cancel_key)
      PROVE  InputBalanced(k, q, next, arrived)
    <2> USE <1>ReadsConserve
    <2>1. k.input = Interval(1, Len(k.input))
      BY Zenon DEF Reads
    <2>2. CASE /\ Asked(s.ring, c, "kRead", k.read_cancel_key)
               /\ next = Len(k.input) + 1
      <3>1. arrived = {}
        BY Zenon, <2>2 DEF Asked, KeysApart, Arrives
      <3> QED BY Zenon, <2>1, <2>2, <3>1 DEF InputBalanced
    <2>3. CASE \E i \in 1..Len(q) :
                 /\ q[i].key = k.read_cancel_key
                 /\ IF q[i].res > 0
                    THEN q[i].lo = Len(k.input) + 1 /\ next = q[i].lo + q[i].res
                    ELSE next = Len(k.input) + 1
      <3>1. PICK i \in 1..Len(q) :
              /\ q[i].key = k.read_cancel_key
              /\ IF q[i].res > 0
                 THEN q[i].lo = Len(k.input) + 1 /\ next = q[i].lo + q[i].res
                 ELSE next = Len(k.input) + 1
        BY Zenon, <2>3
      <3>2. \A j \in arrived : j = i /\ q[i].res > 0
        BY Zenon, <3>1 DEF KeysApart, Arrives
      <3>3. CASE q[i].res > 0
        <4>1. i \in arrived
          BY Zenon, <3>1, <3>3 DEF Arrives
        <4>2. arrived = {i}
          BY Zenon, <3>2, <4>1
        <4> QED BY Zenon, <2>1, <3>1, <3>3, <4>1, <4>2 DEF InputBalanced
      <3>4. CASE ~(q[i].res > 0)
        <4>1. arrived = {}
          BY Zenon, <3>2, <3>4
        <4> QED BY Zenon, <2>1, <3>1, <3>4, <4>1 DEF InputBalanced
      <3> QED BY Zenon, <3>3, <3>4
    <2> QED BY Zenon, <2>2, <2>3 DEF Reads
  <1> SUFFICES ASSUME FlowInv
               PROVE  OutputConserved /\ NoStalledOutput /\ NeverDeaf /\ InputConserved
    BY Zenon
  <1>1. OutputConserved
    <2>1. cq \in Seq(Completion)
      BY Zenon DEF FlowInv, IInv, TypeOK
    <2>2. ASSUME NEW c \in Conns, IsAlive(conn[c]), ~conn[c].write_faulted
          PROVE  LET k == conn[c]
                     unconfirmed == k.output \o k.pending
                 IN /\ net[c].wire = Interval(1, Len(net[c].wire))
                    /\ unconfirmed = Interval(k.accepted - Len(unconfirmed) + 1,
                                              Len(unconfirmed))
                    /\ Len(net[c].wire) + Len(unconfirmed) >= k.accepted
      <3>1. /\ conn[c] \in Connection /\ net[c].wire \in Seq(Nat)
            /\ Writes(conn[c], c, ring, cq, net[c].wire)
        BY Zenon, <2>2, <1>AliveAccount DEF Accounts
      <3> QED BY Zenon, <2>1, <3>1, <1>WritesConserve
    <2> QED BY Zenon, <2>2 DEF OutputConserved
  <1>2. ASSUME NEW c \in Conns, Open(c)
        PROVE  /\ IsAlive(conn[c]) /\ OpenState(conn[c])
               /\ conn[c].state # "Gone"
    BY Zenon, <1>2 DEF Open, IsAlive, OpenState
  <1>3. NoStalledOutput
    <2>1. ASSUME NEW c \in Conns, Open(c), ~conn[c].write_faulted,
                 conn[c].output # <<>> \/ conn[c].pending # <<>>
          PROVE  conn[c].write_in_flight
      <3>1. Flushed(conn[c]) /\ conn[c].state # "Gone"
        BY Zenon, <1>2, <2>1, <1>AliveAccount
      <3> QED BY Zenon, <2>1, <3>1 DEF Flushed
    <2> QED BY Zenon, <2>1 DEF NoStalledOutput
  <1>4. ASSUME NEW c \in Conns, Open(c), ~conn[c].read_faulted
        PROVE  conn[c].read_in_flight
    <2>1. Listening(conn[c]) /\ OpenState(conn[c])
      BY Zenon, <1>2, <1>4, <1>AliveAccount
    <2> QED BY Zenon, <1>4, <2>1 DEF Listening
  <1>5. NeverDeaf
    BY Zenon, <1>4 DEF NeverDeaf
  <1>6. ASSUME NEW c \in Conns, Open(c), ~conn[c].read_faulted
        PROVE  LET arrived == {i \in 1..Len(cq) :
                                 \E o \in ops : /\ o.key = cq[i].key
                                                /\ o.self = c /\ o.type = "kRead"
                                                /\ Invoked(o) /\ cq[i].res > 0}
               IN /\ conn[c].input = Interval(1, Len(conn[c].input))
                  /\ \/ arrived = {} /\ net[c].next = Len(conn[c].input) + 1
                     \/ \E i \in arrived :
                          /\ arrived = {i}
                          /\ cq[i].lo = Len(conn[c].input) + 1
                          /\ net[c].next = cq[i].lo + cq[i].res
    <2> DEFINE arrived == {i \in 1..Len(cq) :
                             \E o \in ops : /\ o.key = cq[i].key
                                            /\ o.self = c /\ o.type = "kRead"
                                            /\ Invoked(o) /\ cq[i].res > 0}
    <2>1. conn[c].read_in_flight /\ IsAlive(conn[c])
      BY Zenon, <1>2, <1>4, <1>6
    <2>2. Reads(conn[c], c, Cur.ring, cq, net[c].next) /\ KeysApart(Cur, cq)
      <3>1. Cur.ring = ring
        BY Zenon DEF Cur
      <3>2. Reads(conn[c], c, ring, cq, net[c].next)
        BY Zenon, <1>6, <2>1, <1>AliveAccount DEF Accounts
      <3> QED BY Zenon, <3>1, <3>2 DEF FlowInv, Settled, Flow
    <2>3. Arrives(arrived, cq, conn[c].read_cancel_key)
      BY Zenon, <2>1, <1>ReadArrives DEF Arrives
    <2> HIDE DEF arrived
    <2>4. InputBalanced(conn[c], cq, net[c].next, arrived)
      BY Zenon, <2>1, <2>2, <2>3, <1>ReadsConserve
    <2> QED BY Zenon, <2>4 DEF InputBalanced, arrived
  <1>7. InputConserved
    BY Zenon, <1>6 DEF InputConserved
  <1> QED BY Zenon, <1>1, <1>3, <1>5, <1>7

-----------------------------------------------------------------------------
(***************************************************************************)
(* The operators that the handlers are made of, as steps of a loop state in*)
(* which a call is made on one connection.                                 *)
(***************************************************************************)

\* A step on connection c that leaves the others alone.
Others(s, t, c) == \A b \in Conns \ {c} : t.conn[b] = s.conn[b]

\* Connection c is flushed, or listening, after the step if it was before.
Keeps(s, t, c) ==
  /\ Flushed(s.conn[c]) => Flushed(t.conn[c])
  /\ Listening(s.conn[c]) => Listening(t.conn[c])

\* A step on connection c that keeps the account of every byte.
FlowStep(s, t, q, n, c) ==
  /\ Flow(t, q, n)
  /\ Others(s, t, c)
  /\ Keeps(s, t, c)

\* A connection that SubmitWriteOnce can flush: the pending buffer is not
\* used while the other is empty.
Flushable(k) ==
  ~k.write_faulted =>
    /\ k.write_in_flight => k.output # <<>>
    /\ ~k.write_in_flight /\ k.output = <<>> => k.pending = <<>>

\* Replacing a connection by one with no other I/O in flight.
LEMMA PutFlow ==
  ASSUME NEW s \in LoopState, NEW q, NEW n, Flow(s, q, n), NEW c \in Conns,
         NEW l \in Connection, l.state \notin {"None", "Gone"},
         l.read_in_flight => /\ s.conn[c].read_in_flight
                             /\ l.read_cancel_key = s.conn[c].read_cancel_key,
         l.write_in_flight =>
           /\ s.conn[c].write_in_flight
           /\ l.write_cancel_key = s.conn[c].write_cancel_key,
         Accounts(l, c, s.ring, q, n[c])
  PROVE  Flow(Put(s, c, l), q, n)
  <1> DEFINE t == Put(s, c, l)
  <1>1. /\ t.conn[c] = l /\ t.ops = s.ops /\ t.ring = s.ring
        /\ t.next_key = s.next_key
        /\ \A b \in Conns \ {c} : t.conn[b] = s.conn[b]
    BY Zenon DEF Put, LoopState
  <1> HIDE DEF t
  <1>2. KeysApart(t, q)
    BY Zenon, <1>1 DEF Flow, KeysApart
  <1>3. ASSUME NEW b \in Conns, NEW type, NEW key, HasOp(s, b, type, key)
        PROVE  HasOp(t, b, type, key)
    BY Zenon, <1>1, <1>3 DEF HasOp
  <1>4. ASSUME NEW b \in Conns \ {c} PROVE Undisturbed(s, t, q, q, b)
    BY Zenon, <1>1, <1>3, AlikeSame, KeepsEntrySame DEF Undisturbed
  <1>5. Flying(t, c)
    <2>1. Flying(s, c)
      BY Zenon DEF Flow
    <2> QED BY Zenon, <1>1, <1>3, <2>1 DEF Flying
  <1>6. FlowOf(t, c, q, n)
    BY Zenon, <1>1, <1>5 DEF FlowOf, Flows
  <1> QED BY Zenon, <1>2, <1>4, <1>6, AssembleFlow DEF t

\* The operation and the request that SubmitOp adds.
NewOp(s, c, type) ==
  [key |-> s.next_key, type |-> type, self |-> c,
   eventer |-> s.conn[c].addr, completion |-> TRUE]
NewRequest(s, c, type, data) ==
  [key |-> s.next_key, type |-> type, self |-> c,
   data |-> data, cancel |-> FALSE]

\* SubmitReadOnce and SubmitWriteOnce keep the account of every connection.
LEMMA SubmitOnceFlow ==
  /\ \A s : \A q \in Seq(Completion) : \A n :
     \A c \in Conns, full \in BOOLEAN :
       GoodOps(s) /\ Flow(s, q, n) /\ IsAlive(s.conn[c]) =>
         /\ FlowStep(s, SubmitReadOnce(s, c, full), q, n, c)
         /\ Listening(SubmitReadOnce(s, c, full).conn[c])
  /\ \A s : \A q \in Seq(Completion) : \A n :
     \A c \in Conns, full \in BOOLEAN :
        /\ GoodOps(s)
        /\ Flow(s, q, n)
        /\ IsAlive(s.conn[c])
        /\ Flushable(s.conn[c])
       => /\ FlowStep(s, SubmitWriteOnce(s, c, full), q, n, c)
          /\ Flushed(SubmitWriteOnce(s, c, full).conn[c])
  \* The entries of the completion queue have keys and results.
  <1>EntryType.
      ASSUME NEW q \in Seq(Completion), NEW i \in 1..Len(q)
      PROVE  q[i].key \in Nat /\ q[i].res \in Int /\ q[i].lo \in Nat
    <2> USE <1>EntryType
    <2>1. q[i] \in Completion
      OBVIOUS
    <2> QED BY Zenon, <2>1 DEF Completion
  \* What SkipKey changes.
  <1>SkipKeyFields.
      ASSUME NEW s \in LoopState
      PROVE  /\ SkipKey(s) \in LoopState /\ SkipKey(s).conn = s.conn
             /\ SkipKey(s).ring = s.ring /\ SkipKey(s).ops = s.ops
             /\ SkipKey(s).next_key = s.next_key + 1
    BY <1>SkipKeyFields DEF SkipKey, LoopState
  \* A key that is used up for nothing.
  <1>SkipKeyFlow.
      ASSUME NEW s \in LoopState, NEW q \in Seq(Completion), NEW n, Flow(s, q, n)
      PROVE  Flow(SkipKey(s), q, n)
    <2> USE <1>SkipKeyFlow
    <2> DEFINE t == SkipKey(s)
    <2>1. /\ t.conn = s.conn /\ t.ops = s.ops /\ t.ring = s.ring
          /\ t.next_key = s.next_key + 1 /\ s.next_key \in Nat
          /\ s.ops \subseteq Op /\ s.ring \subseteq Request
      BY Zenon, <1>SkipKeyFields DEF LoopState
    <2> HIDE DEF t
    <2>2. /\ \A o \in s.ops : o.key \in Nat
          /\ \A r \in s.ring : r.key \in Nat
          /\ \A i \in 1..Len(q) : q[i].key \in Nat
      BY Zenon, <2>1, <1>EntryType DEF Op, Request
    <2>3. KeysApart(t, q)
      <3>1. \A x \in Nat : x < s.next_key => x < t.next_key
        BY <2>1
      <3> QED BY Zenon, <2>1, <2>2, <3>1 DEF Flow, KeysApart
    <2>4. ASSUME NEW b \in Conns
          PROVE  /\ Flying(t, b)
                 /\ t.conn[b].state = "None" => t.conn[b] = Blank
                 /\ Flows(t, b, q, n)
      <3>1. Flying(s, b) /\ Flows(s, b, q, n)
            /\ (s.conn[b].state = "None" => s.conn[b] = Blank)
        BY Zenon DEF Flow
      <3> QED BY Zenon, <2>1, <3>1 DEF Flying, HasOp, Flows
    <2> QED BY Zenon, <2>3, <2>4 DEF Flow, t
  \* What SubmitOp adds to the ring.
  <1>SubmitOpRing.
      ASSUME NEW s \in LoopState, NEW c \in Conns, NEW type \in {"kRead", "kWrite"},
             NEW data \in Seq(Nat)
      PROVE  SubmitOp(s, c, type, data).ring =
               s.ring \cup {NewRequest(s, c, type, data)}
    <2> USE <1>SubmitOpRing
    <2> DEFINE P == s.ops \cup {[key |-> s.next_key, type |-> type, self |-> c,
                                 eventer |-> s.conn[c].addr, completion |-> TRUE]}
               R == s.ring \cup {[key |-> s.next_key, type |-> type, self |-> c,
                                  data |-> data, cancel |-> FALSE]}
    <2>1. SubmitOp(s, c, type, data) =
            [s EXCEPT !.ops = P, !.ring = R, !.next_key = s.next_key + 1]
      BY Zenon DEF SubmitOp
    <2> HIDE DEF P, R
    <2>2. SubmitOp(s, c, type, data).ring = R
      BY Zenon, <2>1 DEF LoopState
    <2> QED BY Zenon, <2>2 DEF R, NewRequest
  <1>SubmitOpAdds.
      ASSUME NEW s \in LoopState, NEW c \in Conns,
             NEW type \in {"kRead", "kWrite"}, NEW data \in Seq(Nat)
      PROVE  /\ SubmitOp(s, c, type, data) \in LoopState
             /\ SubmitOp(s, c, type, data).conn = s.conn
             /\ SubmitOp(s, c, type, data).next_key = s.next_key + 1
             /\ SubmitOp(s, c, type, data).ops =
                  s.ops \cup {NewOp(s, c, type)}
    BY <1>SubmitOpAdds, SubmitOpFields DEF NewOp
  <1>LoopFields.
      ASSUME NEW s \in LoopState
      PROVE  s.ops \subseteq Op /\ s.ring \subseteq Request /\ s.next_key \in Nat
    BY Zenon, <1>LoopFields DEF LoopState
  \* Submitting an operation, with the update of the connection that goes with
  \* it.
  <1>SubmitFlow.
      ASSUME NEW s \in LoopState, NEW q \in Seq(Completion), NEW n, Flow(s, q, n),
             NEW c \in Conns, NEW type \in {"kRead", "kWrite"},
             NEW data \in Seq(Nat), NEW l \in Connection,
             l.state \notin {"None", "Gone"},
             OtherFlightSame(type, s.conn[c], l),
             type = "kRead" => l.read_cancel_key = s.next_key,
             type = "kWrite" => l.write_cancel_key = s.next_key,
             Accounts(l, c, SubmitOp(s, c, type, data).ring, q, n[c])
      PROVE  Flow(Put(SubmitOp(s, c, type, data), c, l), q, n)
    <2> DEFINE u == SubmitOp(s, c, type, data)
               t == Put(u, c, l)
               o == NewOp(s, c, type)
               r == NewRequest(s, c, type, data)
    <2>1. /\ u \in LoopState /\ u.conn = s.conn
          /\ u.next_key = s.next_key + 1 /\ u.ops = s.ops \cup {o}
          /\ u.ring = s.ring \cup {r}
      <3>1. /\ u \in LoopState /\ u.conn = s.conn
            /\ u.next_key = s.next_key + 1 /\ u.ops = s.ops \cup {o}
        BY <1>SubmitOpAdds
      <3>2. u.ring = s.ring \cup {r}
        BY <1>SubmitOpRing
      <3> QED BY Zenon, <3>1, <3>2
    <2> USE <1>SubmitFlow
    <2> HIDE DEF u
    <2>2. /\ t.conn[c] = l /\ t.ops = s.ops \cup {o} /\ t.ring = u.ring
          /\ t.ring = s.ring \cup {r} /\ t.next_key = s.next_key + 1
          /\ \A b \in Conns \ {c} : t.conn[b] = s.conn[b]
      BY Zenon, <2>1 DEF Put, LoopState
    <2>3. /\ o.key = s.next_key /\ o.type = type /\ o.self = c /\ o.completion
          /\ r.key = s.next_key /\ r.type = type /\ r.self = c
      BY Zenon DEF NewOp, NewRequest
    <2> HIDE DEF t, o, r
    <2>4. /\ s.next_key \in Nat
          /\ \A p \in s.ops : p.key \in Nat
          /\ \A p \in s.ring : p.key \in Nat
          /\ \A i \in 1..Len(q) : q[i].key \in Nat
      <3>1. s.ops \subseteq Op /\ s.ring \subseteq Request /\ s.next_key \in Nat
        BY Zenon, <1>LoopFields
      <3> QED BY Zenon, <3>1, <1>EntryType DEF Op, Request
    <2>5. KeysApart(t, q)
      <3>1. /\ s.next_key < t.next_key
            /\ \A x \in Nat : x < s.next_key => x < t.next_key /\ x # s.next_key
        BY <2>2, <2>4
      <3>2. KeysApart(s, q)
        BY Zenon DEF Flow
      <3>3. /\ \A x \in t.ring : x.key < t.next_key
            /\ \A x \in t.ops : x.key < t.next_key
            /\ \A i \in 1..Len(q) : q[i].key < t.next_key
        BY Zenon, <2>2, <2>3, <2>4, <3>1, <3>2 DEF KeysApart
      <3>4. /\ \A x \in s.ring : x.key # r.key
            /\ \A x \in s.ops : x.key # o.key
            /\ \A i \in 1..Len(q) : q[i].key # r.key
        BY Zenon, <2>3, <2>4, <3>1, <3>2 DEF KeysApart
      <3>5. \A x, y \in t.ring : x.key = y.key => x = y
        BY Zenon, <2>2, <3>2, <3>4 DEF KeysApart
      <3>6. \A x, y \in t.ops : x.key = y.key => x = y
        BY Zenon, <2>2, <3>2, <3>4 DEF KeysApart
      <3>7. \A x \in t.ring, i \in 1..Len(q) : x.key # q[i].key
        BY Zenon, <2>2, <3>2, <3>4 DEF KeysApart
      <3> QED BY Zenon, <3>2, <3>3, <3>5, <3>6, <3>7 DEF KeysApart
    <2>6. ASSUME NEW b \in Conns, NEW ty, NEW key, HasOp(s, b, ty, key)
          PROVE  HasOp(t, b, ty, key)
      BY Zenon, <2>2, <2>6 DEF HasOp
    <2>7. ASSUME NEW b \in Conns \ {c} PROVE Undisturbed(s, t, q, q, b)
      <3>1. /\ Alike(s.ring, t.ring, b, "kRead")
            /\ Alike(s.ring, t.ring, b, "kWrite")
        <4>1. r.self # b
          BY Zenon, <2>3
        <4>2. \A ty : Alike(s.ring, s.ring \cup {r}, b, ty)
          BY Zenon, <4>1, AlikeAdd
        <4> QED BY Zenon, <2>2, <4>2
      <3> QED BY Zenon, <2>2, <2>6, <3>1, KeepsEntrySame DEF Undisturbed
    <2>8. Flying(t, c)
      <3>1. Flying(s, c)
        BY Zenon DEF Flow
      <3>2. HasOp(t, c, type, s.next_key)
        BY Zenon, <2>2, <2>3 DEF HasOp
      <3>3. CASE type = "kRead"
        BY Zenon, <2>2, <2>6, <3>1, <3>2, <3>3 DEF Flying, OtherFlightSame
      <3>4. CASE type = "kWrite"
        BY Zenon, <2>2, <2>6, <3>1, <3>2, <3>4 DEF Flying, OtherFlightSame
      <3> QED BY Zenon, <3>3, <3>4
    <2>9. FlowOf(t, c, q, n)
      BY Zenon, <2>2, <2>8 DEF FlowOf, Flows, u
    <2> QED BY Zenon, <2>5, <2>7, <2>9, AssembleFlow DEF t, u
  \* SubmitReadOnce keeps the account and leaves the connection listening.
  <1>SubmitReadOnceFlow.
      ASSUME NEW s, GoodOps(s), NEW q \in Seq(Completion), NEW n, Flow(s, q, n),
             NEW c \in Conns, IsAlive(s.conn[c]), NEW full \in BOOLEAN
      PROVE  /\ FlowStep(s, SubmitReadOnce(s, c, full), q, n, c)
             /\ Listening(SubmitReadOnce(s, c, full).conn[c])
    <2> USE <1>SubmitReadOnceFlow
    <2> DEFINE k == s.conn[c]
    <2>1. s \in LoopState /\ k \in Connection /\ s.next_key \in Nat
      BY Zenon DEF GoodOps, LoopState
    <2>2. Accounts(k, c, s.ring, q, n[c]) /\ k.state \notin {"None", "Gone"}
      BY Zenon DEF Flow, Flows, IsAlive
    <2>3. CASE k.read_in_flight
      <3>1. SubmitReadOnce(s, c, full) = s
        BY Zenon, <2>3 DEF SubmitReadOnce
      <3> QED BY Zenon, <2>3, <3>1 DEF FlowStep, Others, Keeps, Listening
    <2>4. CASE ~k.read_in_flight /\ full
      <3> DEFINE l == [k EXCEPT !.read_cancel_key = 0, !.read_faulted = TRUE]
                 u == SkipKey(s)
                 t == Put(u, c, l)
      <3>1. SubmitReadOnce(s, c, full) = t
        BY Zenon, <2>4 DEF SubmitReadOnce
      <3>2. /\ l \in Connection /\ l.state = k.state /\ ~l.read_in_flight
            /\ l.read_faulted /\ SameWrite(k, l)
            /\ l.write_faulted = k.write_faulted
        BY Zenon, <2>1, <2>4 DEF Connection, SameWrite
      <3>3. /\ u \in LoopState /\ u.conn = s.conn /\ u.ring = s.ring
        BY Zenon, <2>1, <1>SkipKeyFields
      <3>4. Flow(u, q, n)
        BY Zenon, <2>1, <1>SkipKeyFlow
      <3> HIDE DEF l, u
      <3>5. t.conn[c] = l /\ Others(s, t, c)
        BY Zenon, <3>2, <3>3 DEF Put, LoopState, Others
      <3>6. Accounts(l, c, u.ring, q, n[c])
        <4>1. ~l.write_faulted => Writes(l, c, s.ring, q, n[c].wire)
          <5>1. Alike(s.ring, s.ring, c, "kWrite")
                /\ KeepsEntry(q, q, k.write_cancel_key)
            BY Zenon, AlikeSame, KeepsEntrySame
          <5> QED BY Zenon, <2>2, <3>2, <5>1, WritesKeep DEF Accounts
        <4> QED BY Zenon, <3>2, <3>3, <4>1 DEF Accounts
      <3>7. Flow(t, q, n)
        BY Zenon, <2>2, <3>2, <3>3, <3>4, <3>6, PutFlow DEF SameWrite
      <3>8. Keeps(s, t, c) /\ Listening(t.conn[c])
        BY Zenon, <3>2, <3>5 DEF Keeps, Flushed, Listening, SameWrite
      <3> QED BY Zenon, <3>1, <3>5, <3>7, <3>8 DEF FlowStep
    <2>5. CASE ~k.read_in_flight /\ ~full
      <3> DEFINE l == [k EXCEPT !.read_in_flight = TRUE,
                                !.read_cancel_key = s.next_key]
                 u == SubmitOp(s, c, "kRead", <<>>)
                 t == Put(u, c, l)
                 r == [key |-> s.next_key, type |-> "kRead", self |-> c,
                       data |-> <<>>, cancel |-> FALSE]
      <3>1. SubmitReadOnce(s, c, full) = t
        BY Zenon, <2>5 DEF SubmitReadOnce
      <3>2. /\ l \in Connection /\ l.state = k.state /\ l.read_in_flight
            /\ l.read_cancel_key = s.next_key /\ l.input = k.input
            /\ l.read_faulted = k.read_faulted /\ SameWrite(k, l)
            /\ l.write_faulted = k.write_faulted /\ l.addr = k.addr
        BY Zenon, <2>1 DEF Connection, SameWrite
      <3>3. u \in LoopState /\ u.conn = s.conn /\ u.ring = s.ring \cup {r}
        <4>1. <<>> \in Seq(Nat) /\ "kRead" \in {"kRead", "kWrite"}
          OBVIOUS
        <4>2. u \in LoopState /\ u.conn = s.conn
          BY Zenon, <2>1, <4>1, SubmitOpFields
        <4>3. u.ring = s.ring \cup {r}
          BY Zenon, <2>1, <4>1, <1>SubmitOpRing DEF NewRequest
        <4> QED BY Zenon, <4>2, <4>3
      <3>4. r.key = s.next_key /\ r.type = "kRead" /\ r.self = c
        BY Zenon
      <3> HIDE DEF l, u, r
      <3>5. t.conn[c] = l /\ Others(s, t, c)
        BY Zenon, <3>2, <3>3 DEF Put, LoopState, Others
      <3>6. ~l.write_faulted => Writes(l, c, u.ring, q, n[c].wire)
        <4>1. Alike(s.ring, u.ring, c, "kWrite")
          BY <3>3, <3>4, AlikeAdd
        <4>2. KeepsEntry(q, q, k.write_cancel_key)
          BY Zenon, KeepsEntrySame
        <4> QED BY Zenon, <2>2, <3>2, <4>1, <4>2, WritesKeep DEF Accounts
      <3>7. ~l.read_faulted => Reads(l, c, u.ring, q, n[c].next)
        <4> SUFFICES ASSUME ~k.read_faulted
                     PROVE  Reads(l, c, u.ring, q, n[c].next)
          BY Zenon, <3>2
        <4>1. Reads(k, c, s.ring, q, n[c].next)
          BY Zenon, <2>2 DEF Accounts
        <4>2. /\ \A x \in s.ring : ~(x.self = c /\ x.type = "kRead")
              /\ n[c].next = Len(k.input) + 1
              /\ k.input = Interval(1, Len(k.input))
          BY Zenon, <2>5, <4>1 DEF Reads
        <4>3. /\ Asked(u.ring, c, "kRead", l.read_cancel_key)
              /\ \A x \in u.ring : x.self = c /\ x.type = "kRead" =>
                   x.key = l.read_cancel_key
          BY Zenon, <3>2, <3>3, <3>4, <4>2 DEF Asked
        <4> QED BY Zenon, <3>2, <4>2, <4>3 DEF Reads
      <3>8. Accounts(l, c, u.ring, q, n[c])
        BY Zenon, <3>6, <3>7 DEF Accounts
      <3>9. Flow(t, q, n)
        <4>1. OtherFlightSame("kRead", k, l)
          BY Zenon, <3>2 DEF OtherFlightSame, SameWrite
        <4>2. <<>> \in Seq(Nat)
          OBVIOUS
        <4> QED BY Zenon, <2>1, <2>2, <3>2, <3>8, <4>1, <4>2, <1>SubmitFlow DEF u
      <3>10. Keeps(s, t, c) /\ Listening(t.conn[c])
        BY Zenon, <3>2, <3>5 DEF Keeps, Flushed, Listening, SameWrite
      <3> QED BY Zenon, <3>1, <3>5, <3>9, <3>10 DEF FlowStep
    <2> QED BY Zenon, <2>3, <2>4, <2>5
  \* SubmitWriteOnce keeps the account and leaves the connection flushed.
  <1>SubmitWriteOnceFlow.
      ASSUME NEW s, GoodOps(s), NEW q \in Seq(Completion), NEW n, Flow(s, q, n),
             NEW c \in Conns, IsAlive(s.conn[c]), NEW full \in BOOLEAN,
             Flushable(s.conn[c])
      PROVE  /\ FlowStep(s, SubmitWriteOnce(s, c, full), q, n, c)
             /\ Flushed(SubmitWriteOnce(s, c, full).conn[c])
    <2> USE <1>SubmitWriteOnceFlow
    <2> DEFINE k == s.conn[c]
    <2>1. s \in LoopState /\ k \in Connection /\ s.next_key \in Nat
          /\ k.output \in Seq(Nat)
      BY Zenon DEF GoodOps, LoopState, Connection
    <2>2. Accounts(k, c, s.ring, q, n[c]) /\ k.state \notin {"None", "Gone"}
      BY Zenon DEF Flow, Flows, IsAlive
    <2>3. CASE k.write_in_flight \/ k.output = <<>>
      <3>1. SubmitWriteOnce(s, c, full) = s
        BY Zenon, <2>3 DEF SubmitWriteOnce
      <3>2. Flushed(k)
        BY Zenon, <2>3 DEF Flushed, Flushable
      <3> QED BY Zenon, <3>1, <3>2 DEF FlowStep, Others, Keeps
    <2>4. CASE ~(k.write_in_flight \/ k.output = <<>>) /\ full
      <3> DEFINE l == [k EXCEPT !.write_cancel_key = 0, !.write_faulted = TRUE]
                 u == SkipKey(s)
                 t == Put(u, c, l)
      <3>1. SubmitWriteOnce(s, c, full) = t
        BY Zenon, <2>4 DEF SubmitWriteOnce
      <3>2. /\ l \in Connection /\ l.state = k.state /\ ~l.write_in_flight
            /\ l.write_faulted /\ SameRead(k, l)
            /\ l.read_faulted = k.read_faulted
        BY Zenon, <2>1, <2>4 DEF Connection, SameRead
      <3>3. /\ u \in LoopState /\ u.conn = s.conn /\ u.ring = s.ring
        BY Zenon, <2>1, <1>SkipKeyFields
      <3>4. Flow(u, q, n)
        BY Zenon, <2>1, <1>SkipKeyFlow
      <3> HIDE DEF l, u
      <3>5. t.conn[c] = l /\ Others(s, t, c)
        BY Zenon, <3>2, <3>3 DEF Put, LoopState, Others
      <3>6. Accounts(l, c, u.ring, q, n[c])
        <4>1. ~l.read_faulted => Reads(l, c, s.ring, q, n[c].next)
          <5>1. Alike(s.ring, s.ring, c, "kRead")
                /\ KeepsEntry(q, q, k.read_cancel_key)
            BY Zenon, AlikeSame, KeepsEntrySame
          <5> QED BY Zenon, <2>2, <3>2, <5>1, ReadsKeep DEF Accounts
        <4> QED BY Zenon, <3>2, <3>3, <4>1 DEF Accounts
      <3>7. Flow(t, q, n)
        BY Zenon, <2>2, <3>2, <3>3, <3>4, <3>6, PutFlow DEF SameRead
      <3>8. Keeps(s, t, c) /\ Flushed(t.conn[c])
        BY Zenon, <3>2, <3>5 DEF Keeps, Flushed, Listening, OpenState, SameRead
      <3> QED BY Zenon, <3>1, <3>5, <3>7, <3>8 DEF FlowStep
    <2>5. CASE ~(k.write_in_flight \/ k.output = <<>>) /\ ~full
      <3> DEFINE l == [k EXCEPT !.write_in_flight = TRUE,
                                !.write_cancel_key = s.next_key]
                 u == SubmitOp(s, c, "kWrite", k.output)
                 t == Put(u, c, l)
                 r == [key |-> s.next_key, type |-> "kWrite", self |-> c,
                       data |-> k.output, cancel |-> FALSE]
      <3>1. SubmitWriteOnce(s, c, full) = t
        BY Zenon, <2>5 DEF SubmitWriteOnce
      <3>2. /\ l \in Connection /\ l.state = k.state /\ l.write_in_flight
            /\ l.write_cancel_key = s.next_key /\ l.output = k.output
            /\ l.pending = k.pending /\ l.accepted = k.accepted
            /\ l.read_faulted = k.read_faulted /\ SameRead(k, l)
            /\ l.write_faulted = k.write_faulted /\ l.addr = k.addr
        BY Zenon, <2>1 DEF Connection, SameRead
      <3>3. u \in LoopState /\ u.conn = s.conn /\ u.ring = s.ring \cup {r}
        <4>1. "kWrite" \in {"kRead", "kWrite"}
          BY Zenon
        <4>2. u \in LoopState /\ u.conn = s.conn
          BY <2>1, <4>1, SubmitOpFields
        <4>3. u.ring = s.ring \cup {r}
          BY Zenon, <2>1, <4>1, <1>SubmitOpRing DEF NewRequest
        <4> QED BY Zenon, <4>2, <4>3
      <3>4. /\ r.key = s.next_key /\ r.type = "kWrite" /\ r.self = c
            /\ r.data = k.output
        BY Zenon
      <3> HIDE DEF l, u, r
      <3>5. t.conn[c] = l /\ Others(s, t, c)
        BY Zenon, <3>2, <3>3 DEF Put, LoopState, Others
      <3>6. ~l.read_faulted => Reads(l, c, u.ring, q, n[c].next)
        <4>1. Alike(s.ring, u.ring, c, "kRead")
          BY <3>3, <3>4, AlikeAdd
        <4>2. KeepsEntry(q, q, k.read_cancel_key)
          BY Zenon, KeepsEntrySame
        <4> QED BY Zenon, <2>2, <3>2, <4>1, <4>2, ReadsKeep DEF Accounts
      <3>7. ~l.write_faulted => Writes(l, c, u.ring, q, n[c].wire)
        <4> SUFFICES ASSUME ~k.write_faulted
                     PROVE  Writes(l, c, u.ring, q, n[c].wire)
          BY Zenon, <3>2
        <4> DEFINE w == n[c].wire
        <4>1. Writes(k, c, s.ring, q, w) /\ First(l) = First(k)
          BY Zenon, <2>2, <3>2 DEF Accounts, First
        <4>2. /\ \A x \in s.ring : ~(x.self = c /\ x.type = "kWrite")
              /\ First(l) \in Nat /\ First(l) # 0
              /\ w = Interval(1, Len(w))
              /\ l.output = Interval(First(l), Len(l.output))
              /\ l.pending = Interval(First(l) + Len(l.output), Len(l.pending))
              /\ Len(w) = First(l) - 1
          BY Zenon, <2>5, <3>2, <4>1 DEF Writes
        <4>3. /\ Asked(u.ring, c, "kWrite", l.write_cancel_key)
              /\ \A x \in u.ring : x.self = c /\ x.type = "kWrite" =>
                   x.key = l.write_cancel_key /\ x.data = l.output
          BY Zenon, <3>2, <3>3, <3>4, <4>2 DEF Asked
        <4> HIDE DEF w
        <4>4. Writes(l, c, u.ring, q, w)
          BY Zenon, <3>2, <4>2, <4>3 DEF Writes
        <4> QED BY Zenon, <4>4 DEF w
      <3>8. Accounts(l, c, u.ring, q, n[c])
        BY Zenon, <3>6, <3>7 DEF Accounts
      <3>9. Flow(t, q, n)
        <4>1. OtherFlightSame("kWrite", k, l)
          BY Zenon, <3>2 DEF OtherFlightSame, SameRead
        <4> QED BY Zenon, <2>1, <2>2, <3>2, <3>8, <4>1, <1>SubmitFlow DEF u
      <3>10. Keeps(s, t, c) /\ Flushed(t.conn[c])
        BY Zenon, <2>5, <3>2, <3>5
           DEF Keeps, Flushed, Listening, OpenState, SameRead
      <3> QED BY Zenon, <3>1, <3>5, <3>9, <3>10 DEF FlowStep
    <2> QED BY Zenon, <2>3, <2>4, <2>5
  <1> QED BY Zenon, <1>SubmitReadOnceFlow, <1>SubmitWriteOnceFlow

\* Steps on one connection compose.
LEMMA FlowStepTrans ==
  ASSUME NEW s, NEW t, NEW u, NEW q, NEW n, NEW c,
         FlowStep(s, t, q, n, c), FlowStep(t, u, q, n, c)
  PROVE  FlowStep(s, u, q, n, c)
  BY Zenon DEF FlowStep, Others, Keeps

\* CancelPendingIo keeps the account.
LEMMA CancelPendingIoFlow ==
  \A s, q, n : \A c \in Conns, full \in BOOLEAN :
    GoodOps(s) /\ Flow(s, q, n) /\ IsAlive(s.conn[c]) =>
      FlowStep(s, CancelPendingIo(s, c, full), q, n, c)
  \* What CancelOp does to ops_ and the ring.
  <1>CancelOpIs.
      ASSUME NEW s \in LoopState, NEW key, NEW full \in BOOLEAN
      PROVE  /\ CancelOp(s, key, full).ops = Struck(s.ops, {key})
             /\ CancelOp(s, key, full).ring =
                  Marked(s.ring, IF full THEN {} ELSE {key})
    <2> USE <1>CancelOpIs
    <2> DEFINE P == {IF o.key = key
                     THEN [o EXCEPT !.eventer = NoAddr, !.completion = FALSE]
                     ELSE o : o \in s.ops}
               R == {IF r.key = key /\ ~full THEN [r EXCEPT !.cancel = TRUE]
                     ELSE r : r \in s.ring}
    <2>1. CancelOp(s, key, full) = [s EXCEPT !.ops = P, !.ring = R]
      BY Zenon DEF CancelOp
    <2>2. P = Struck(s.ops, {key})
      BY Zenon DEF Struck
    <2>3. R = Marked(s.ring, IF full THEN {} ELSE {key})
      <3>1. \A r \in s.ring : (r.key = key /\ ~full) <=>
                                r.key \in (IF full THEN {} ELSE {key})
        BY Zenon
      <3> QED BY Zenon, <3>1 DEF Marked
    <2> HIDE DEF P, R
    <2>4. CancelOp(s, key, full).ops = P /\ CancelOp(s, key, full).ring = R
      BY Zenon, <2>1 DEF LoopState
    <2> QED BY Zenon, <2>2, <2>3, <2>4
  <1>CancelOpKeeps.
      ASSUME NEW s \in LoopState, NEW key \in Nat, NEW full \in BOOLEAN
      PROVE  /\ CancelOp(s, key, full) \in LoopState
             /\ CancelOp(s, key, full).conn = s.conn
             /\ CancelOp(s, key, full).next_key = s.next_key
    BY <1>CancelOpKeeps, CancelOpFields
  \* Cancelling an operation, with the update of the connection that goes with
  \* it: the cancelled direction has faulted, the other goes on.
  <1>CancelFlow.
      ASSUME NEW s \in LoopState, NEW q, NEW n, Flow(s, q, n), NEW c \in Conns,
             NEW full \in BOOLEAN, IsAlive(s.conn[c]),
             NEW type \in {"kRead", "kWrite"}, NEW key \in Nat,
             HasOp(s, c, type, key),
             NEW l \in Connection, l.state = s.conn[c].state,
             type = "kRead" => /\ ~l.read_in_flight /\ l.read_faulted
                               /\ SameWrite(s.conn[c], l)
                               /\ l.write_faulted = s.conn[c].write_faulted,
             type = "kWrite" => /\ ~l.write_in_flight /\ l.write_faulted
                                /\ SameRead(s.conn[c], l)
                                /\ l.read_faulted = s.conn[c].read_faulted
      PROVE  Flow(Put(CancelOp(s, key, full), c, l), q, n)
    <2> USE <1>CancelFlow
    <2> DEFINE u == CancelOp(s, key, full)
               t == Put(u, c, l)
               k == s.conn[c]
    <2>1. /\ u \in LoopState /\ u.conn = s.conn /\ u.next_key = s.next_key
          /\ u.ops = Struck(s.ops, {key})
          /\ u.ring = Marked(s.ring, IF full THEN {} ELSE {key})
      <3>1. u \in LoopState /\ u.conn = s.conn /\ u.next_key = s.next_key
        BY Zenon, <1>CancelOpKeeps
      <3>2. /\ u.ops = Struck(s.ops, {key})
            /\ u.ring = Marked(s.ring, IF full THEN {} ELSE {key})
        BY Zenon, <1>CancelOpIs
      <3> QED BY Zenon, <3>1, <3>2
    <2> HIDE DEF u
    <2>2. /\ t.conn[c] = l /\ t.next_key = s.next_key
          /\ t.ops = Struck(s.ops, {key})
          /\ t.ring = Marked(s.ring, IF full THEN {} ELSE {key})
          /\ \A b \in Conns \ {c} : t.conn[b] = s.conn[b]
      BY Zenon, <2>1 DEF Put, LoopState
    <2> HIDE DEF t
    <2>3. KeysApart(s, q)
      BY Zenon DEF Flow
    <2>4. /\ KeysApart(t, q)
          /\ \A b, ty : Alike(s.ring, t.ring, b, ty)
          /\ \A b, ty, x : HasOp(s, b, ty, x) /\ x \notin {key} =>
                             HasOp(t, b, ty, x)
      BY Zenon, <2>2, <2>3, Strike
    <2>5. ASSUME NEW b, NEW ty, NEW x, HasOp(s, b, ty, x), b # c \/ ty # type
          PROVE  HasOp(t, b, ty, x)
      <3>1. ASSUME x = key PROVE FALSE
        <4>1. HasOp(s, b, ty, key) /\ HasOp(s, c, type, key)
          BY Zenon, <2>5, <3>1
        <4>2. b = c /\ ty = type
          BY Zenon, <2>3, <4>1, OneOp
        <4> QED BY Zenon, <2>5, <4>2
      <3> QED BY Zenon, <2>4, <2>5, <3>1
    <2>6. ASSUME NEW b \in Conns \ {c} PROVE Undisturbed(s, t, q, q, b)
      <3>1. b # c
        BY Zenon
      <3> QED BY Zenon, <2>2, <2>4, <2>5, <3>1, KeepsEntrySame DEF Undisturbed
    <2>7. FlowOf(s, c, q, n) /\ k.state # "Gone" /\ k.state # "None"
      BY Zenon DEF Flow, FlowOf, IsAlive
    <2>8. Flying(t, c)
      <3>1. CASE type = "kRead"
        BY Zenon, <2>2, <2>5, <2>7, <3>1 DEF Flying, FlowOf, SameWrite
      <3>2. CASE type = "kWrite"
        BY Zenon, <2>2, <2>5, <2>7, <3>2 DEF Flying, FlowOf, SameRead
      <3> QED BY Zenon, <3>1, <3>2
    <2>9. Accounts(l, c, t.ring, q, n[c])
      <3>1. Accounts(k, c, s.ring, q, n[c])
        BY Zenon, <2>7 DEF FlowOf, Flows
      <3>2. Alike(s.ring, t.ring, c, "kRead") /\ Alike(s.ring, t.ring, c, "kWrite")
        BY Zenon, <2>4
      <3>3. ASSUME type = "kRead", ~l.write_faulted
            PROVE  Writes(l, c, t.ring, q, n[c].wire)
        <4>1. Writes(k, c, s.ring, q, n[c].wire) /\ SameWrite(k, l)
          BY Zenon, <3>1, <3>3 DEF Accounts
        <4>2. KeepsEntry(q, q, k.write_cancel_key)
          BY Zenon, KeepsEntrySame
        <4> QED BY Zenon, <3>2, <4>1, <4>2, WritesKeep
      <3>4. ASSUME type = "kWrite", ~l.read_faulted
            PROVE  Reads(l, c, t.ring, q, n[c].next)
        <4>1. Reads(k, c, s.ring, q, n[c].next) /\ SameRead(k, l)
          BY Zenon, <3>1, <3>4 DEF Accounts
        <4>2. KeepsEntry(q, q, k.read_cancel_key)
          BY Zenon, KeepsEntrySame
        <4> QED BY Zenon, <3>2, <4>1, <4>2, ReadsKeep
      <3> QED BY Zenon, <3>3, <3>4 DEF Accounts
    <2>10. FlowOf(t, c, q, n)
      BY Zenon, <2>2, <2>7, <2>8, <2>9 DEF FlowOf, Flows
    <2> QED BY Zenon, <2>4, <2>6, <2>10, AssembleFlow DEF t, u
  \* CancelRead keeps the account.
  <1>CancelReadFlow.
      ASSUME NEW s, GoodOps(s), NEW q, NEW n, Flow(s, q, n), NEW c \in Conns,
             IsAlive(s.conn[c]), NEW full \in BOOLEAN
      PROVE  FlowStep(s, CancelRead(s, c, full), q, n, c)
    <2> USE <1>CancelReadFlow
    <2> DEFINE k == s.conn[c]
               l == [k EXCEPT !.read_in_flight = FALSE, !.read_cancel_key = 0,
                              !.read_faulted = TRUE]
               t == Put(CancelOp(s, k.read_cancel_key, full), c, l)
    <2>1. s \in LoopState /\ k \in Connection /\ k.read_cancel_key \in Nat
      BY Zenon DEF GoodOps, LoopState, Connection
    <2>2. CASE ~k.read_in_flight
      <3>1. CancelRead(s, c, full) = s
        BY Zenon, <2>2 DEF CancelRead
      <3> QED BY Zenon, <3>1 DEF FlowStep, Others, Keeps
    <2>3. CASE k.read_in_flight
      <3>1. CancelRead(s, c, full) = t
        BY Zenon, <2>3 DEF CancelRead
      <3>2. /\ l \in Connection /\ l.state = k.state /\ ~l.read_in_flight
            /\ l.read_faulted /\ SameWrite(k, l)
            /\ l.write_faulted = k.write_faulted
        BY Zenon, <2>1 DEF Connection, SameWrite
      <3>3. HasOp(s, c, "kRead", k.read_cancel_key)
        BY Zenon, <2>3 DEF Flow, Flying
      <3>4. t.conn[c] = l /\ Others(s, t, c)
        <4>1. /\ CancelOp(s, k.read_cancel_key, full) \in LoopState
              /\ CancelOp(s, k.read_cancel_key, full).conn = s.conn
          BY <2>1, CancelOpFields
        <4> HIDE DEF l
        <4> QED BY Zenon, <3>2, <4>1 DEF Put, LoopState, Others
      <3> HIDE DEF l
      <3>5. Flow(t, q, n)
        BY Zenon, <2>1, <3>2, <3>3, <1>CancelFlow
      <3>6. Keeps(s, t, c)
        BY Zenon, <3>2, <3>4 DEF Keeps, Flushed, Listening, SameWrite
      <3> QED BY Zenon, <3>1, <3>4, <3>5, <3>6 DEF FlowStep
    <2> QED BY Zenon, <2>2, <2>3
  \* CancelWrite keeps the account.
  <1>CancelWriteFlow.
      ASSUME NEW s, GoodOps(s), NEW q, NEW n, Flow(s, q, n), NEW c \in Conns,
             IsAlive(s.conn[c]), NEW full \in BOOLEAN
      PROVE  FlowStep(s, CancelWrite(s, c, full), q, n, c)
    <2> USE <1>CancelWriteFlow
    <2> DEFINE k == s.conn[c]
               l == [k EXCEPT !.write_in_flight = FALSE, !.write_cancel_key = 0,
                              !.write_faulted = TRUE]
               t == Put(CancelOp(s, k.write_cancel_key, full), c, l)
    <2>1. s \in LoopState /\ k \in Connection /\ k.write_cancel_key \in Nat
      BY Zenon DEF GoodOps, LoopState, Connection
    <2>2. CASE ~k.write_in_flight
      <3>1. CancelWrite(s, c, full) = s
        BY Zenon, <2>2 DEF CancelWrite
      <3> QED BY Zenon, <3>1 DEF FlowStep, Others, Keeps
    <2>3. CASE k.write_in_flight
      <3>1. CancelWrite(s, c, full) = t
        BY Zenon, <2>3 DEF CancelWrite
      <3>2. /\ l \in Connection /\ l.state = k.state /\ ~l.write_in_flight
            /\ l.write_faulted /\ SameRead(k, l)
            /\ l.read_faulted = k.read_faulted
        BY Zenon, <2>1 DEF Connection, SameRead
      <3>3. HasOp(s, c, "kWrite", k.write_cancel_key)
        BY Zenon, <2>3 DEF Flow, Flying
      <3>4. t.conn[c] = l /\ Others(s, t, c)
        <4>1. /\ CancelOp(s, k.write_cancel_key, full) \in LoopState
              /\ CancelOp(s, k.write_cancel_key, full).conn = s.conn
          BY <2>1, CancelOpFields
        <4> HIDE DEF l
        <4> QED BY Zenon, <3>2, <4>1 DEF Put, LoopState, Others
      <3> HIDE DEF l
      <3>5. Flow(t, q, n)
        BY Zenon, <2>1, <3>2, <3>3, <1>CancelFlow
      <3>6. Keeps(s, t, c)
        BY Zenon, <3>2, <3>4 DEF Keeps, Flushed, Listening, OpenState, SameRead
      <3> QED BY Zenon, <3>1, <3>4, <3>5, <3>6 DEF FlowStep
    <2> QED BY Zenon, <2>2, <2>3
  <1> SUFFICES ASSUME NEW s, GoodOps(s), NEW q, NEW n, Flow(s, q, n), NEW c \in Conns,
                      IsAlive(s.conn[c]), NEW full \in BOOLEAN
               PROVE  FlowStep(s, CancelPendingIo(s, c, full), q, n, c)
    BY Zenon
  <1> DEFINE t == CancelRead(s, c, full)
  <1>1. GoodOps(t) /\ Frame(s, t)
    BY Zenon, CancelIoGood
  <1>2. FlowStep(s, t, q, n, c)
    BY Zenon, <1>CancelReadFlow
  <1>3. CancelPendingIo(s, c, full) = CancelWrite(t, c, full)
    BY Zenon DEF CancelPendingIo
  <1> HIDE DEF t
  <1>4. IsAlive(t.conn[c]) /\ Flow(t, q, n)
    BY Zenon, <1>1, <1>2, FrameAlive DEF FlowStep
  <1>5. FlowStep(t, CancelWrite(t, c, full), q, n, c)
    BY Zenon, <1>1, <1>4, <1>CancelWriteFlow
  <1> QED BY Zenon, <1>2, <1>3, <1>5, FlowStepTrans

\* A step that changes nothing the account mentions.
LEMMA SameFlow ==
  ASSUME NEW s, NEW t, NEW q, NEW n, Flow(s, q, n), t.conn = s.conn,
         t.ops = s.ops, t.ring = s.ring, t.next_key = s.next_key
  PROVE  Flow(t, q, n)
  <1>1. KeysApart(t, q)
    BY Zenon DEF Flow, KeysApart
  <1>2. ASSUME NEW b \in Conns
        PROVE  /\ Flying(t, b)
               /\ t.conn[b].state = "None" => t.conn[b] = Blank
               /\ Flows(t, b, q, n)
    <2>1. /\ Flying(s, b) /\ Flows(s, b, q, n)
          /\ s.conn[b].state = "None" => s.conn[b] = Blank
      BY Zenon DEF Flow
    <2> QED BY Zenon, <2>1 DEF Flying, HasOp, Flows
  <1> QED BY Zenon, <1>1, <1>2 DEF Flow

\* Replacing a connection by one with the same bytes and I/O.
LEMMA PutSameFlow ==
  ASSUME NEW s \in LoopState, NEW q, NEW n, Flow(s, q, n), NEW c \in Conns,
         IsAlive(s.conn[c]), NEW l \in Connection, IsAlive(l),
         SameWrite(s.conn[c], l), SameRead(s.conn[c], l),
         l.read_faulted = s.conn[c].read_faulted,
         l.write_faulted = s.conn[c].write_faulted,
         OpenState(l) => OpenState(s.conn[c])
  PROVE  FlowStep(s, Put(s, c, l), q, n, c)
  <1> DEFINE k == s.conn[c]
             t == Put(s, c, l)
  <1>1. t.conn[c] = l /\ Others(s, t, c)
    BY Zenon DEF Put, LoopState, Others
  <1>2. /\ Accounts(k, c, s.ring, q, n[c])
        /\ l.state \notin {"None", "Gone"} /\ k.state # "Gone"
    BY Zenon DEF Flow, Flows, IsAlive
  <1>3. Accounts(l, c, s.ring, q, n[c])
    <2>1. /\ Alike(s.ring, s.ring, c, "kRead")
          /\ Alike(s.ring, s.ring, c, "kWrite")
          /\ KeepsEntry(q, q, k.read_cancel_key)
          /\ KeepsEntry(q, q, k.write_cancel_key)
      BY Zenon, AlikeSame, KeepsEntrySame
    <2>2. ~l.write_faulted => Writes(l, c, s.ring, q, n[c].wire)
      BY Zenon, <1>2, <2>1, WritesKeep DEF Accounts
    <2>3. ~l.read_faulted => Reads(l, c, s.ring, q, n[c].next)
      BY Zenon, <1>2, <2>1, ReadsKeep DEF Accounts
    <2> QED BY Zenon, <2>2, <2>3 DEF Accounts
  <1>4. Flow(t, q, n)
    BY Zenon, <1>2, <1>3, PutFlow DEF SameRead, SameWrite
  <1>5. Keeps(s, t, c)
    BY Zenon, <1>1, <1>2
       DEF Keeps, Flushed, Listening, OpenState, SameRead, SameWrite
  <1> QED BY Zenon, <1>1, <1>4, <1>5 DEF FlowStep

\* DoClosing keeps the account and what was accepted.
LEMMA DoClosingFlow ==
  \A s, m, q, n : \A c \in Conns, full \in BOOLEAN :
    Good(s, m) /\ Flow(s, q, n) /\ IsAlive(s.conn[c]) =>
      /\ FlowStep(s, DoClosing(s, c, full), q, n, c)
      /\ DoClosing(s, c, full).conn[c].accepted = s.conn[c].accepted
  \* Cancelling does not change what was accepted.
  <1>CancelPendingIoAccepted.
      ASSUME NEW s, GoodOps(s), NEW c \in Conns, NEW full \in BOOLEAN
      PROVE  CancelPendingIo(s, c, full).conn[c].accepted = s.conn[c].accepted
    <2> USE <1>CancelPendingIoAccepted
    <2> DEFINE t == CancelRead(s, c, full)
               Forget(k) == [k EXCEPT !.read_in_flight = FALSE,
                                      !.read_cancel_key = 0,
                                      !.read_faulted = TRUE]
               Lose(k) == [k EXCEPT !.write_in_flight = FALSE,
                                     !.write_cancel_key = 0,
                                     !.write_faulted = TRUE]
    <2>1. GoodOps(t)
      BY Zenon, CancelIoGood
    <2>2. ASSUME NEW k \in Connection
          PROVE  /\ Forget(k) \in Connection /\ Lose(k) \in Connection
                 /\ Forget(k).accepted = k.accepted
                 /\ Lose(k).accepted = k.accepted
                 /\ k.read_cancel_key \in Nat /\ k.write_cancel_key \in Nat
      BY Zenon, <2>2 DEF Connection
    <2>3. ASSUME NEW u, GoodOps(u), NEW key \in Nat, NEW l \in Connection
          PROVE  Put(CancelOp(u, key, full), c, l).conn[c] = l
      <3>1. /\ CancelOp(u, key, full) \in LoopState
            /\ CancelOp(u, key, full).conn = u.conn
        BY <2>3, CancelOpFields DEF GoodOps
      <3> QED BY Zenon, <2>3, <3>1 DEF Put, LoopState
    <2>4. s.conn[c] \in Connection /\ t.conn[c] \in Connection
      BY Zenon, <2>1 DEF GoodOps, LoopState
    <2>5. t.conn[c].accepted = s.conn[c].accepted
      <3>1. CASE ~s.conn[c].read_in_flight
        BY Zenon, <3>1 DEF CancelRead
      <3>2. CASE s.conn[c].read_in_flight
        <4>1. t = Put(CancelOp(s, s.conn[c].read_cancel_key, full), c,
                      Forget(s.conn[c]))
          BY Zenon, <3>2 DEF CancelRead
        <4>2. /\ Forget(s.conn[c]) \in Connection
              /\ Forget(s.conn[c]).accepted = s.conn[c].accepted
              /\ s.conn[c].read_cancel_key \in Nat
          BY Zenon, <2>2, <2>4
        <4> HIDE DEF t, Forget
        <4>3. t.conn[c] = Forget(s.conn[c])
          BY Zenon, <2>3, <4>1, <4>2
        <4> QED BY Zenon, <4>2, <4>3
      <3> QED BY Zenon, <3>1, <3>2
    <2> HIDE DEF t
    <2>6. CancelWrite(t, c, full).conn[c].accepted = t.conn[c].accepted
      <3>1. CASE ~t.conn[c].write_in_flight
        BY Zenon, <3>1 DEF CancelWrite
      <3>2. CASE t.conn[c].write_in_flight
        <4>1. CancelWrite(t, c, full) =
                Put(CancelOp(t, t.conn[c].write_cancel_key, full), c,
                    Lose(t.conn[c]))
          BY Zenon, <3>2 DEF CancelWrite
        <4>2. /\ Lose(t.conn[c]) \in Connection
              /\ Lose(t.conn[c]).accepted = t.conn[c].accepted
              /\ t.conn[c].write_cancel_key \in Nat
          BY Zenon, <2>2, <2>4
        <4> HIDE DEF Lose
        <4>3. CancelWrite(t, c, full).conn[c] = Lose(t.conn[c])
          BY <2>1, <2>3, <4>1, <4>2
        <4> QED BY Zenon, <4>2, <4>3
      <3> QED BY Zenon, <3>1, <3>2
    <2> QED BY Zenon, <2>5, <2>6 DEF CancelPendingIo, t
  <1> SUFFICES ASSUME NEW s, NEW m, Good(s, m), NEW q, NEW n, Flow(s, q, n),
                      NEW c \in Conns, IsAlive(s.conn[c]), NEW full \in BOOLEAN
               PROVE  /\ FlowStep(s, DoClosing(s, c, full), q, n, c)
                      /\ DoClosing(s, c, full).conn[c].accepted = s.conn[c].accepted
    BY Zenon
  <1>1. CASE IsDisconnected(s.conn[c])
    <2>1. DoClosing(s, c, full) = s
      BY Zenon, <1>1 DEF DoClosing
    <2> QED BY Zenon, <2>1 DEF FlowStep, Others, Keeps
  <1>2. CASE ~IsDisconnected(s.conn[c])
    <2> DEFINE k == s.conn[c]
               g == k.told \o <<"down", "close">>
               l == [k EXCEPT !.state = "kDisconnected", !.told = g]
               t == SetDisconnected(s, c)
               u == CancelPendingIo(t, c, full)
               v == DeleteConnection(u, c)
    <2>1. DoClosing(s, c, full) = v /\ t = Put(s, c, l)
      BY Zenon, <1>2 DEF DoClosing, SetDisconnected
    <2>2. GoodOps(t)
      BY Zenon, <1>2, SetDisconnectedGood
    <2>3. s \in LoopState /\ k \in Connection /\ g \in Seq({"up", "down", "close"})
      <3>1. s \in LoopState /\ k \in Connection
        BY Zenon DEF Good, GoodOps, LoopState
      <3>2. k.told \in Seq({"up", "down", "close"})
        BY Zenon, <3>1 DEF Connection
      <3>3. <<"down", "close">> \in Seq({"up", "down", "close"})
        OBVIOUS
      <3> QED BY <3>1, <3>2, <3>3, SeqConcat
    <2> HIDE DEF g, t
    <2>4. /\ l \in Connection /\ l.state = "kDisconnected"
          /\ SameWrite(k, l) /\ SameRead(k, l)
          /\ l.read_faulted = k.read_faulted
          /\ l.write_faulted = k.write_faulted
      BY Zenon, <2>3 DEF Connection, States, SameRead, SameWrite
    <2> HIDE DEF l
    <2>5. FlowStep(s, t, q, n, c)
      BY Zenon, <2>1, <2>3, <2>4, PutSameFlow DEF IsAlive, OpenState
    <2>6. t.conn[c] = l
      BY Zenon, <2>1, <2>3, <2>4 DEF Put, LoopState
    <2>7. FlowStep(t, u, q, n, c) /\ u.conn[c].accepted = t.conn[c].accepted
      BY Zenon, <2>2, <2>4, <2>5, <2>6, CancelPendingIoFlow, <1>CancelPendingIoAccepted
         DEF FlowStep, IsAlive
    <2>8. u \in LoopState
      BY Zenon, <2>2, CancelIoGood DEF GoodOps
    <2> HIDE DEF u
    <2>9. /\ v.conn = u.conn /\ v.ops = u.ops /\ v.ring = u.ring
          /\ v.next_key = u.next_key
      BY Zenon, <2>8 DEF DeleteConnection, LoopState
    <2> HIDE DEF v
    <2>10. FlowStep(s, u, q, n, c)
      BY Zenon, <2>5, <2>7, FlowStepTrans
    <2>11. FlowStep(s, v, q, n, c)
      <3>1. Flow(v, q, n)
        BY Zenon, <2>9, <2>10, SameFlow DEF FlowStep
      <3> QED BY Zenon, <2>9, <2>10, <3>1 DEF FlowStep, Others, Keeps
    <2> QED BY Zenon, <2>1, <2>4, <2>6, <2>7, <2>9, <2>11 DEF SameWrite
  <1> QED BY Zenon, <1>1, <1>2

=============================================================================
