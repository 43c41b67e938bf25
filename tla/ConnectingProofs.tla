-------------------------- MODULE ConnectingProofs --------------------------
(***************************************************************************)
(* Invariants of Connecting, proved for any number of connections, memory  *)
(* blocks, descriptors, operations and faults.                             *)
(*                                                                         *)
(* The inductive invariant is a predicate Good on loop states.  Its first  *)
(* part shows that every operator of Connecting that a handler is made of  *)
(* preserves it, the second that every step does.                          *)
(***************************************************************************)
EXTENDS Connecting, TLAPS

-----------------------------------------------------------------------------
(***************************************************************************)
(* The inductive invariant, as predicates on loop states.                  *)
(***************************************************************************)

OpenState(k) == k.state \in {"kConnected", "kDisconnecting"}

\* An operation whose completion function is set belongs to a live connection
\* that has it in flight.
Owned(s, o) ==
  LET k == s.conn[o.self]
  IN /\ IsAlive(k)
     /\ k.addr = o.eventer
     /\ o.type = "kRead" => k.read_in_flight /\ k.read_cancel_key = o.key
     /\ o.type = "kWrite" => k.write_in_flight /\ k.write_cancel_key = o.key

\* A connection with I/O in flight knows the key to cancel it with.
Cancellable(k) ==
  /\ k.read_in_flight => k.read_cancel_key # 0
  /\ k.write_in_flight => k.write_cancel_key # 0

GoodOps(s) ==
  /\ s \in LoopState
  /\ s.next_key # 0
  /\ \A c \in Conns : Cancellable(s.conn[c])
  /\ \A o \in s.ops : o.completion => Owned(s, o)

\* Two states of a connection that the registry does not tell apart.
SameLife(k, l) ==
  /\ l.fd = k.fd
  /\ l.told = k.told
  /\ l.state = k.state \/ (OpenState(k) /\ OpenState(l))

Frame(s, t) ==
  /\ t.closed_fds = s.closed_fds
  /\ \A c \in Conns : SameLife(s.conn[c], t.conn[c])

\* What I/O in flight in k is the same in l.
SameFlight(k, l) ==
  /\ l.addr = k.addr
  /\ k.read_in_flight => l.read_in_flight /\ l.read_cancel_key = k.read_cancel_key
  /\ k.write_in_flight => l.write_in_flight /\ l.write_cancel_key = k.write_cancel_key

-----------------------------------------------------------------------------
\* Sequences.

\* The concatenation of two sequences.
LEMMA SeqConcat ==
  ASSUME NEW S, NEW s \in Seq(S), NEW t \in Seq(S)
  PROVE  /\ s \o t \in Seq(S) /\ Len(s \o t) = Len(s) + Len(t)
         /\ \A i \in 1..(Len(s) + Len(t)) :
              (s \o t)[i] = IF i <= Len(s) THEN s[i] ELSE t[i - Len(s)]
  OBVIOUS

\* A part of a sequence, by its first and its last index.
LEMMA SeqSub ==
  ASSUME NEW S, NEW s, NEW a \in Int, NEW b \in Int,
         \A i \in a..b : s[i] \in S
  PROVE  /\ SubSeq(s, a, b) \in Seq(S)
         /\ Len(SubSeq(s, a, b)) = IF a <= b THEN b - a + 1 ELSE 0
         /\ \A i \in 1..(b - a + 1) : SubSeq(s, a, b)[i] = s[a + i - 1]
  OBVIOUS

\* A sequence with one more element.
LEMMA SeqAppend ==
  ASSUME NEW S, NEW s \in Seq(S), NEW x \in S
  PROVE  /\ Append(s, x) \in Seq(S) /\ Len(Append(s, x)) = Len(s) + 1
         /\ \A i \in 1..Len(s) : Append(s, x)[i] = s[i]
         /\ Append(s, x)[Len(s) + 1] = x
  OBVIOUS

\* A sequence is a function on the indexes up to its length.
LEMMA SeqLen ==
  ASSUME NEW S, NEW s \in Seq(S)
  PROVE  Len(s) \in Nat /\ s \in [1..Len(s) -> S] /\ DOMAIN s = 1..Len(s)
  OBVIOUS

\* The empty sequence, and a sequence that is not empty.
LEMMA SeqEmpty ==
  ASSUME NEW S
  PROVE  /\ <<>> \in Seq(S) /\ Len(<<>>) = 0
         /\ \A s \in Seq(S) : s # <<>> => Len(s) \in Nat \ {0}
  OBVIOUS

\* Two sequences with the same elements are the same.
LEMMA SeqSame ==
  ASSUME NEW S, NEW s \in Seq(S), NEW t \in Seq(S), Len(s) = Len(t),
         \A i \in 1..Len(s) : s[i] = t[i]
  PROVE  s = t
  OBVIOUS

\* The first element of a sequence, and the others.
LEMMA SeqHeadTail ==
  ASSUME NEW S, NEW s \in Seq(S), s # <<>>
  PROVE  /\ Head(s) \in S /\ Tail(s) \in Seq(S) /\ Len(Tail(s)) = Len(s) - 1
         /\ \A i \in 1..Len(Tail(s)) : Tail(s)[i] = s[i + 1]
  OBVIOUS

\* The sequences are the functions on the indexes up to a length.
LEMMA SeqIs == \A S : Seq(S) = UNION {[1..n -> S] : n \in Nat}
  OBVIOUS

-----------------------------------------------------------------------------
(***************************************************************************)
(* The operators that the handlers are made of.                            *)
(***************************************************************************)

\* Replacing a connection by one with the same I/O in flight keeps every
\* operation owned.
LEMMA PutGood ==
  ASSUME NEW s, GoodOps(s), NEW c \in Conns, NEW k \in Connection,
         Cancellable(k), SameFlight(s.conn[c], k),
         IsAlive(s.conn[c]) => IsAlive(k)
  PROVE  GoodOps(Put(s, c, k))
  <1> DEFINE t == Put(s, c, k)
  <1>1. s \in LoopState BY Zenon DEF GoodOps
  <1>2. /\ t \in LoopState /\ t.conn[c] = k /\ t.ops = s.ops
        /\ t.next_key = s.next_key
        /\ \A d \in Conns \ {c} : t.conn[d] = s.conn[d]
    BY Zenon, <1>1 DEF Put, LoopState
  <1>3. ASSUME NEW d \in Conns PROVE Cancellable(t.conn[d])
    <2>1. CASE d = c BY Zenon, <1>2, <2>1
    <2>2. CASE d # c
      <3>1. t.conn[d] = s.conn[d] BY Zenon, <1>2, <2>2
      <3> QED BY Zenon, <3>1 DEF GoodOps
    <2> QED BY Zenon, <2>1, <2>2
  <1>4. ASSUME NEW o \in t.ops, o.completion PROVE Owned(t, o)
    <2>1. o \in s.ops /\ Owned(s, o) /\ o.self \in Conns
      BY Zenon, <1>1, <1>2, <1>4 DEF GoodOps, LoopState, Op
    <2>2. CASE o.self = c
      BY Zenon, <1>2, <2>1, <2>2 DEF Owned, SameFlight
    <2>3. CASE o.self # c
      BY Zenon, <1>2, <2>1, <2>3 DEF Owned
    <2> QED BY Zenon, <2>2, <2>3
  <1> QED BY Zenon, <1>2, <1>3, <1>4 DEF GoodOps

\* Replacing a connection by one of the same life changes nothing for the
\* registry.
LEMMA PutFrame ==
  ASSUME NEW s \in LoopState, NEW c \in Conns, NEW k \in Connection,
         SameLife(s.conn[c], k)
  PROVE  Frame(s, Put(s, c, k))
  <1> DEFINE t == Put(s, c, k)
  <1>1. /\ t.closed_fds = s.closed_fds /\ t.conn[c] = k
        /\ \A d \in Conns \ {c} : t.conn[d] = s.conn[d]
    BY Zenon DEF Put, LoopState
  <1>2. ASSUME NEW d \in Conns PROVE SameLife(s.conn[d], t.conn[d])
    <2>1. CASE d = c BY Zenon, <1>1, <2>1
    <2>2. CASE d # c
      <3>1. t.conn[d] = s.conn[d] BY Zenon, <1>1, <2>2
      <3> QED BY Zenon, <3>1 DEF SameLife
    <2> QED BY Zenon, <2>1, <2>2
  <1> QED BY Zenon, <1>1, <1>2 DEF Frame

\* Steps that change nothing for the registry compose.
LEMMA FrameTrans ==
  ASSUME NEW s, NEW t, NEW u, Frame(s, t), Frame(t, u)
  PROVE  Frame(s, u)
  BY Zenon DEF Frame, SameLife, OpenState

\* Doing nothing changes nothing for the registry.
LEMMA FrameRefl ==
  ASSUME NEW s
  PROVE  Frame(s, s)
  BY Zenon DEF Frame, SameLife

\* A step that changes nothing for the registry neither destroys nor creates.
LEMMA FrameAlive ==
  ASSUME NEW s, NEW t, Frame(s, t), NEW c \in Conns
  PROVE  /\ IsAlive(t.conn[c]) <=> IsAlive(s.conn[c])
         /\ IsDisconnected(t.conn[c]) <=> IsDisconnected(s.conn[c])
         /\ OpenState(t.conn[c]) <=> OpenState(s.conn[c])
  BY Zenon DEF Frame, SameLife, IsAlive, IsDisconnected, OpenState

\* SubmitOp and the update of the connection that goes with it.
LEMMA SubmitOpFields ==
  ASSUME NEW s \in LoopState, NEW c \in Conns, NEW type \in {"kRead", "kWrite"},
         NEW data \in Seq(Nat)
  PROVE  LET t == SubmitOp(s, c, type, data)
             o == [key |-> s.next_key, type |-> type, self |-> c,
                   eventer |-> s.conn[c].addr, completion |-> TRUE]
         IN /\ t \in LoopState
            /\ t.conn = s.conn
            /\ t.closed_fds = s.closed_fds
            /\ t.next_key = s.next_key + 1
            /\ t.ops = s.ops \cup {o}
  <1> DEFINE o == [key |-> s.next_key, type |-> type, self |-> c,
                   eventer |-> s.conn[c].addr, completion |-> TRUE]
             r == [key |-> s.next_key, type |-> type, self |-> c,
                   data |-> data, cancel |-> FALSE]
  <1>1. s.next_key \in Nat /\ s.conn[c].addr \in Addrs \cup {NoAddr}
    BY Zenon DEF LoopState, Connection
  <1>2. o \in Op BY Zenon, <1>1 DEF Op
  <1>3. r \in Request BY Zenon, <1>1 DEF Request
  <1>4. s.ops \cup {o} \in SUBSET Op /\ s.ring \cup {r} \in SUBSET Request
    BY Zenon, <1>2, <1>3 DEF LoopState
  <1> DEFINE P == s.ops \cup {o}
             R == s.ring \cup {r}
             t == SubmitOp(s, c, type, data)
  <1>5. t = [s EXCEPT !.ops = P, !.ring = R, !.next_key = s.next_key + 1]
    BY Zenon DEF SubmitOp
  <1>6. P \in SUBSET Op /\ R \in SUBSET Request
    BY Zenon, <1>4
  <1> HIDE DEF P, R, t
  <1>7. /\ t.conn = s.conn
        /\ t.closed_fds = s.closed_fds
        /\ t.delayed = s.delayed
        /\ t.next_key = s.next_key + 1
        /\ t.ops = P
        /\ t.ring = R
    BY Zenon, <1>5 DEF LoopState
  <1>8. t \in LoopState
    <2>1. s.next_key + 1 \in Nat BY <1>1
    <2> QED BY Zenon, <1>5, <1>6, <2>1 DEF LoopState
  <1> QED BY Zenon, <1>7, <1>8 DEF P, t

\* l is connection k after it has submitted, or cancelled, an operation of
\* the given type: the operations of the other type are not affected.
OtherFlightSame(type, k, l) ==
  /\ l.addr = k.addr
  /\ IF type = "kRead"
     THEN /\ l.write_in_flight = k.write_in_flight
          /\ l.write_cancel_key = k.write_cancel_key
     ELSE /\ l.read_in_flight = k.read_in_flight
          /\ l.read_cancel_key = k.read_cancel_key

\* What Poller::CancelOp changes, field by field.
LEMMA CancelOpFields ==
  ASSUME NEW s \in LoopState, NEW key \in Nat, NEW full \in BOOLEAN
  PROVE  LET t == CancelOp(s, key, full)
         IN /\ t \in LoopState
            /\ t.conn = s.conn
            /\ t.closed_fds = s.closed_fds
            /\ t.next_key = s.next_key
            /\ \A o \in t.ops : o.completion => o \in s.ops /\ o.key # key
  <1> DEFINE P == {IF o.key = key
                   THEN [o EXCEPT !.eventer = NoAddr, !.completion = FALSE]
                   ELSE o : o \in s.ops}
             R == {IF r.key = key /\ ~full THEN [r EXCEPT !.cancel = TRUE]
                   ELSE r : r \in s.ring}
             t == CancelOp(s, key, full)
  <1>1. ASSUME NEW o \in Op
        PROVE  LET n == [o EXCEPT !.eventer = NoAddr, !.completion = FALSE]
               IN n \in Op /\ n.completion = FALSE
    BY Zenon DEF Op
  <1>2. ASSUME NEW r \in Request PROVE [r EXCEPT !.cancel = TRUE] \in Request
    BY Zenon DEF Request
  <1>3. s.ops \subseteq Op /\ s.ring \subseteq Request
    BY Zenon DEF LoopState
  <1>4. P \in SUBSET Op
    BY Zenon, <1>1, <1>3
  <1>5. R \in SUBSET Request
    BY Zenon, <1>2, <1>3
  <1>6. \A o \in P : o.completion => o \in s.ops /\ o.key # key
    BY Zenon, <1>1, <1>3
  <1>7. t = [s EXCEPT !.ops = P, !.ring = R]
    BY Zenon DEF CancelOp
  <1> HIDE DEF P, R, t
  <1>8. t.ops = P /\ t.conn = s.conn /\ t.closed_fds = s.closed_fds
        /\ t.next_key = s.next_key
    BY Zenon, <1>7 DEF LoopState
  <1>9. t \in LoopState
    BY Zenon, <1>4, <1>5, <1>7 DEF LoopState
  <1> QED BY Zenon, <1>6, <1>8, <1>9 DEF t

\* SubmitReadOnce and SubmitWriteOnce keep every operation owned.
LEMMA SubmitOnceGood ==
  /\ \A s : \A c \in Conns, full \in BOOLEAN :
       GoodOps(s) /\ IsAlive(s.conn[c]) =>
         /\ GoodOps(SubmitReadOnce(s, c, full))
         /\ Frame(s, SubmitReadOnce(s, c, full))
  /\ \A s : \A c \in Conns, full \in BOOLEAN :
       GoodOps(s) /\ IsAlive(s.conn[c]) =>
         /\ GoodOps(SubmitWriteOnce(s, c, full))
         /\ Frame(s, SubmitWriteOnce(s, c, full))
  \* A refused submission (SubmitRead, SubmitWrite) only uses up a key.
  <1>SkipKeyGood.
      ASSUME NEW s, GoodOps(s)
      PROVE  GoodOps(SkipKey(s)) /\ SkipKey(s).conn = s.conn
             /\ SkipKey(s).closed_fds = s.closed_fds
    <2> USE <1>SkipKeyGood
    <2>1. /\ SkipKey(s) \in LoopState
          /\ SkipKey(s).next_key = s.next_key + 1
          /\ SkipKey(s).conn = s.conn
          /\ SkipKey(s).ops = s.ops
          /\ SkipKey(s).closed_fds = s.closed_fds
          /\ s.next_key \in Nat
      BY DEF SkipKey, GoodOps, LoopState
    <2> QED BY <2>1 DEF GoodOps, Owned
  \* A submitted operation is owned by the connection that records its key.
  <1>SubmitGood.
      ASSUME NEW s, GoodOps(s), NEW c \in Conns, IsAlive(s.conn[c]),
             NEW type \in {"kRead", "kWrite"}, NEW data \in Seq(Nat),
             NEW l \in Connection, IsAlive(l), Cancellable(l),
             OtherFlightSame(type, s.conn[c], l),
             type = "kRead" => /\ ~s.conn[c].read_in_flight
                               /\ l.read_in_flight
                               /\ l.read_cancel_key = s.next_key,
             type = "kWrite" => /\ ~s.conn[c].write_in_flight
                                /\ l.write_in_flight
                                /\ l.write_cancel_key = s.next_key
      PROVE  /\ GoodOps(Put(SubmitOp(s, c, type, data), c, l))
             /\ SameLife(s.conn[c], l) => Frame(s, Put(SubmitOp(s, c, type, data), c, l))
    <2> USE <1>SubmitGood
    <2> DEFINE u == SubmitOp(s, c, type, data)
               t == Put(u, c, l)
               o == [key |-> s.next_key, type |-> type, self |-> c,
                     eventer |-> s.conn[c].addr, completion |-> TRUE]
    <2>1. s \in LoopState /\ s.next_key \in Nat BY Zenon DEF GoodOps, LoopState
    <2>2. /\ u \in LoopState /\ u.conn = s.conn /\ u.closed_fds = s.closed_fds
          /\ u.next_key = s.next_key + 1 /\ u.ops = s.ops \cup {o}
      BY <2>1, SubmitOpFields
    <2> HIDE DEF u
    <2>3. /\ t \in LoopState /\ t.conn[c] = l /\ t.ops = s.ops \cup {o}
          /\ t.next_key = s.next_key + 1
          /\ t.closed_fds = s.closed_fds
          /\ \A d \in Conns \ {c} : t.conn[d] = s.conn[d]
      BY Zenon, <2>2 DEF Put, LoopState
    <2> HIDE DEF t
    <2>4. ASSUME NEW d \in Conns PROVE Cancellable(t.conn[d])
      <3>1. CASE d = c BY Zenon, <2>3, <3>1
      <3>2. CASE d # c
        <4>1. t.conn[d] = s.conn[d] BY Zenon, <2>3, <3>2
        <4> QED BY Zenon, <4>1 DEF GoodOps
      <3> QED BY Zenon, <3>1, <3>2
    <2>5. ASSUME NEW p \in t.ops, p.completion PROVE Owned(t, p)
      <3>1. CASE p = o
        BY Zenon, <2>3, <3>1 DEF Owned, OtherFlightSame
      <3>2. CASE p # o
        <4>1. p \in s.ops /\ Owned(s, p) /\ p.self \in Conns
              /\ p.type \in {"kRead", "kWrite"}
          BY Zenon, <2>1, <2>3, <2>5, <3>2 DEF GoodOps, LoopState, Op
        <4>2. CASE p.self = c
          BY Zenon, <2>3, <4>1, <4>2 DEF Owned, OtherFlightSame
        <4>3. CASE p.self # c
          BY Zenon, <2>3, <4>1, <4>3 DEF Owned
        <4> QED BY Zenon, <4>2, <4>3
      <3> QED BY Zenon, <3>1, <3>2
    <2>6. GoodOps(t)
      BY <2>1, <2>3, <2>4, <2>5 DEF GoodOps
    <2>7. ASSUME SameLife(s.conn[c], l) PROVE Frame(s, t)
      <3>1. ASSUME NEW d \in Conns PROVE SameLife(s.conn[d], t.conn[d])
        <4>1. CASE d = c BY Zenon, <2>3, <2>7, <4>1
        <4>2. CASE d # c
          <5>1. t.conn[d] = s.conn[d] BY Zenon, <2>3, <4>2
          <5> QED BY Zenon, <5>1 DEF SameLife
        <4> QED BY Zenon, <4>1, <4>2
      <3> QED BY Zenon, <2>3, <3>1 DEF Frame
    <2> QED BY Zenon, <2>6, <2>7 DEF t, u
  \* Connecting::SubmitReadOnce keeps every operation owned.
  <1>SubmitReadOnceGood.
      ASSUME NEW s, GoodOps(s), NEW c \in Conns, IsAlive(s.conn[c]),
             NEW full \in BOOLEAN
      PROVE  /\ GoodOps(SubmitReadOnce(s, c, full))
             /\ Frame(s, SubmitReadOnce(s, c, full))
    <2> USE <1>SubmitReadOnceGood
    <2> DEFINE k == s.conn[c]
               l == [k EXCEPT !.read_in_flight = TRUE,
                              !.read_cancel_key = s.next_key]
               h == [k EXCEPT !.read_cancel_key = 0, !.read_faulted = TRUE]
    <2>1. k \in Connection /\ s.next_key \in Nat /\ s.next_key # 0
          /\ Cancellable(k) /\ s \in LoopState
      BY Zenon DEF GoodOps, LoopState
    <2>2. CASE k.read_in_flight
      BY Zenon, <2>2, FrameRefl DEF SubmitReadOnce
    <2>3. CASE ~k.read_in_flight /\ full
      <3>1. SubmitReadOnce(s, c, full) = Put(SkipKey(s), c, h)
        BY Zenon, <2>3 DEF SubmitReadOnce
      <3>2. /\ h \in Connection /\ Cancellable(h) /\ SameFlight(k, h)
            /\ SameLife(k, h)
        BY Zenon, <2>1, <2>3 DEF Connection, Cancellable, SameFlight, SameLife
      <3>3. GoodOps(SkipKey(s)) /\ SkipKey(s).conn = s.conn
            /\ SkipKey(s).closed_fds = s.closed_fds
        BY Zenon, <1>SkipKeyGood
      <3>4. IsAlive(h) BY Zenon, <2>1 DEF IsAlive, Connection
      <3> HIDE DEF h
      <3>5. GoodOps(Put(SkipKey(s), c, h))
        BY Zenon, <3>2, <3>3, <3>4, PutGood
      <3>6. Frame(SkipKey(s), Put(SkipKey(s), c, h))
        BY Zenon, <3>2, <3>3, PutFrame DEF GoodOps
      <3>7. Frame(s, SkipKey(s))
        BY Zenon, <3>3 DEF Frame, SameLife
      <3> QED BY Zenon, <3>1, <3>5, <3>6, <3>7, FrameTrans
    <2>4. CASE ~k.read_in_flight /\ ~full
      <3>1. SubmitReadOnce(s, c, full) = Put(SubmitOp(s, c, "kRead", <<>>), c, l)
        BY Zenon, <2>4 DEF SubmitReadOnce
      <3>2. /\ l \in Connection /\ Cancellable(l) /\ SameLife(k, l)
            /\ IsAlive(l) /\ OtherFlightSame("kRead", k, l)
            /\ l.read_in_flight /\ l.read_cancel_key = s.next_key
        BY Zenon, <2>1, <2>4 DEF Connection, Cancellable, SameLife, IsAlive, OtherFlightSame
      <3>3. <<>> \in Seq(Nat) OBVIOUS
      <3> HIDE DEF l
      <3> QED BY Zenon, <2>4, <3>1, <3>2, <3>3, <1>SubmitGood
    <2> QED BY Zenon, <2>2, <2>3, <2>4
  \* Connecting::SubmitWriteOnce keeps every operation owned.
  <1>SubmitWriteOnceGood.
      ASSUME NEW s, GoodOps(s), NEW c \in Conns, IsAlive(s.conn[c]),
             NEW full \in BOOLEAN
      PROVE  /\ GoodOps(SubmitWriteOnce(s, c, full))
             /\ Frame(s, SubmitWriteOnce(s, c, full))
    <2> USE <1>SubmitWriteOnceGood
    <2> DEFINE k == s.conn[c]
               l == [k EXCEPT !.write_in_flight = TRUE,
                              !.write_cancel_key = s.next_key]
               h == [k EXCEPT !.write_cancel_key = 0, !.write_faulted = TRUE]
    <2>1. k \in Connection /\ s.next_key \in Nat /\ s.next_key # 0
          /\ Cancellable(k) /\ s \in LoopState
      BY Zenon DEF GoodOps, LoopState
    <2>2. CASE k.write_in_flight \/ k.output = <<>>
      BY Zenon, <2>2, FrameRefl DEF SubmitWriteOnce
    <2>3. CASE ~(k.write_in_flight \/ k.output = <<>>) /\ full
      <3>1. SubmitWriteOnce(s, c, full) = Put(SkipKey(s), c, h)
        BY Zenon, <2>3 DEF SubmitWriteOnce
      <3>2. /\ h \in Connection /\ Cancellable(h) /\ SameFlight(k, h)
            /\ SameLife(k, h)
        BY Zenon, <2>1, <2>3 DEF Connection, Cancellable, SameFlight, SameLife
      <3>3. GoodOps(SkipKey(s)) /\ SkipKey(s).conn = s.conn
            /\ SkipKey(s).closed_fds = s.closed_fds
        BY Zenon, <1>SkipKeyGood
      <3>4. IsAlive(h) BY Zenon, <2>1 DEF IsAlive, Connection
      <3> HIDE DEF h
      <3>5. GoodOps(Put(SkipKey(s), c, h))
        BY Zenon, <3>2, <3>3, <3>4, PutGood
      <3>6. Frame(SkipKey(s), Put(SkipKey(s), c, h))
        BY Zenon, <3>2, <3>3, PutFrame DEF GoodOps
      <3>7. Frame(s, SkipKey(s))
        BY Zenon, <3>3 DEF Frame, SameLife
      <3> QED BY Zenon, <3>1, <3>5, <3>6, <3>7, FrameTrans
    <2>4. CASE ~(k.write_in_flight \/ k.output = <<>>) /\ ~full
      <3>1. SubmitWriteOnce(s, c, full) =
              Put(SubmitOp(s, c, "kWrite", k.output), c, l)
        BY Zenon, <2>4 DEF SubmitWriteOnce
      <3>2. /\ l \in Connection /\ Cancellable(l) /\ SameLife(k, l)
            /\ IsAlive(l) /\ OtherFlightSame("kWrite", k, l)
            /\ l.write_in_flight /\ l.write_cancel_key = s.next_key
        BY Zenon, <2>1, <2>4 DEF Connection, Cancellable, SameLife, IsAlive, OtherFlightSame
      <3>3. k.output \in Seq(Nat) BY Zenon, <2>1 DEF Connection
      <3> HIDE DEF l
      <3> QED BY Zenon, <2>4, <3>1, <3>2, <3>3, <1>SubmitGood
    <2> QED BY Zenon, <2>2, <2>3, <2>4
  <1> QED BY Zenon, <1>SubmitReadOnceGood, <1>SubmitWriteOnceGood

\* CancelRead, CancelWrite and CancelPendingIo keep a loop state good.
LEMMA CancelIoGood ==
  /\ \A s : \A c \in Conns, full \in BOOLEAN :
       GoodOps(s) =>
         /\ GoodOps(CancelRead(s, c, full))
         /\ Frame(s, CancelRead(s, c, full))
  /\ \A s : \A c \in Conns, full \in BOOLEAN :
       GoodOps(s) =>
         /\ GoodOps(CancelPendingIo(s, c, full))
         /\ Frame(s, CancelPendingIo(s, c, full))
  \* After CancelOp the connection may forget the operation: it has lost its
  \* completion function.
  <1>CancelGood.
      ASSUME NEW s, GoodOps(s), NEW c \in Conns, NEW full \in BOOLEAN,
             NEW type \in {"kRead", "kWrite"}, NEW key \in Nat,
             key = (IF type = "kRead" THEN s.conn[c].read_cancel_key
                    ELSE s.conn[c].write_cancel_key),
             NEW l \in Connection, Cancellable(l), SameLife(s.conn[c], l),
             OtherFlightSame(type, s.conn[c], l)
      PROVE  /\ GoodOps(Put(CancelOp(s, key, full), c, l))
             /\ Frame(s, Put(CancelOp(s, key, full), c, l))
    <2> USE <1>CancelGood
    <2> DEFINE u == CancelOp(s, key, full)
               t == Put(u, c, l)
    <2>1. s \in LoopState BY Zenon DEF GoodOps
    <2>2. /\ u \in LoopState /\ u.conn = s.conn /\ u.closed_fds = s.closed_fds
          /\ u.next_key = s.next_key
          /\ \A o \in u.ops : o.completion => o \in s.ops /\ o.key # key
      BY <2>1, CancelOpFields
    <2> HIDE DEF u
    <2>3. /\ t \in LoopState /\ t.conn[c] = l /\ t.ops = u.ops
          /\ t.next_key = s.next_key
          /\ t.closed_fds = s.closed_fds
          /\ \A d \in Conns \ {c} : t.conn[d] = s.conn[d]
      BY Zenon, <2>2 DEF Put, LoopState
    <2> HIDE DEF t
    <2>4. ASSUME NEW d \in Conns PROVE Cancellable(t.conn[d])
      <3>1. CASE d = c BY Zenon, <2>3, <3>1
      <3>2. CASE d # c
        <4>1. t.conn[d] = s.conn[d] BY Zenon, <2>3, <3>2
        <4> QED BY Zenon, <4>1 DEF GoodOps
      <3> QED BY Zenon, <3>1, <3>2
    <2>5. ASSUME NEW d \in Conns PROVE SameLife(s.conn[d], t.conn[d])
      <3>1. CASE d = c BY Zenon, <2>3, <3>1
      <3>2. CASE d # c
        <4>1. t.conn[d] = s.conn[d] BY Zenon, <2>3, <3>2
        <4> QED BY Zenon, <4>1 DEF SameLife
      <3> QED BY Zenon, <3>1, <3>2
    <2>6. Frame(s, t)
      BY Zenon, <2>3, <2>5 DEF Frame
    <2>7. ASSUME NEW p \in t.ops, p.completion PROVE Owned(t, p)
      <3>1. p \in s.ops /\ p.key # key /\ Owned(s, p)
        BY Zenon, <2>2, <2>3, <2>7 DEF GoodOps
      <3>2. p.self \in Conns /\ p.type \in {"kRead", "kWrite"}
        BY Zenon, <2>1, <3>1 DEF LoopState, Op
      <3>3. CASE p.self = c
        <4>1. IsAlive(l) BY Zenon, <3>1, <3>3 DEF Owned, SameLife, IsAlive, OpenState
        <4> QED BY Zenon, <2>3, <3>1, <3>2, <3>3, <4>1 DEF Owned, OtherFlightSame
      <3>4. CASE p.self # c
        BY Zenon, <2>3, <3>1, <3>2, <3>4 DEF Owned
      <3> QED BY Zenon, <3>3, <3>4
    <2> QED BY Zenon, <2>3, <2>4, <2>6, <2>7 DEF GoodOps, t, u
  \* The read half of CancelPendingIo keeps every operation owned.
  <1>CancelReadGood.
      ASSUME NEW s, GoodOps(s), NEW c \in Conns, NEW full \in BOOLEAN
      PROVE  /\ GoodOps(CancelRead(s, c, full))
             /\ Frame(s, CancelRead(s, c, full))
    <2> USE <1>CancelReadGood
    <2> DEFINE k == s.conn[c]
               l == [k EXCEPT !.read_in_flight = FALSE, !.read_cancel_key = 0,
                              !.read_faulted = TRUE]
    <2>1. k \in Connection /\ Cancellable(k)
      BY Zenon DEF GoodOps, LoopState
    <2>2. CASE ~k.read_in_flight
      BY Zenon, <2>2, FrameRefl DEF CancelRead
    <2>3. CASE k.read_in_flight
      <3>1. CancelRead(s, c, full) = Put(CancelOp(s, k.read_cancel_key, full), c, l)
        BY Zenon, <2>3 DEF CancelRead
      <3>2. /\ l \in Connection /\ Cancellable(l) /\ SameLife(k, l)
            /\ OtherFlightSame("kRead", k, l) /\ k.read_cancel_key \in Nat
        BY Zenon, <2>1 DEF Connection, Cancellable, SameLife, OtherFlightSame
      <3> HIDE DEF l
      <3> QED BY Zenon, <3>1, <3>2, <1>CancelGood
    <2> QED BY Zenon, <2>2, <2>3
  \* The write half of CancelPendingIo keeps every operation owned.
  <1>CancelWriteGood.
      ASSUME NEW s, GoodOps(s), NEW c \in Conns, NEW full \in BOOLEAN
      PROVE  /\ GoodOps(CancelWrite(s, c, full))
             /\ Frame(s, CancelWrite(s, c, full))
    <2> USE <1>CancelWriteGood
    <2> DEFINE k == s.conn[c]
               l == [k EXCEPT !.write_in_flight = FALSE, !.write_cancel_key = 0,
                              !.write_faulted = TRUE]
    <2>1. k \in Connection /\ Cancellable(k)
      BY Zenon DEF GoodOps, LoopState
    <2>2. CASE ~k.write_in_flight
      BY Zenon, <2>2, FrameRefl DEF CancelWrite
    <2>3. CASE k.write_in_flight
      <3>1. CancelWrite(s, c, full) =
              Put(CancelOp(s, k.write_cancel_key, full), c, l)
        BY Zenon, <2>3 DEF CancelWrite
      <3>2. /\ l \in Connection /\ Cancellable(l) /\ SameLife(k, l)
            /\ OtherFlightSame("kWrite", k, l) /\ k.write_cancel_key \in Nat
        BY Zenon, <2>1 DEF Connection, Cancellable, SameLife, OtherFlightSame
      <3> HIDE DEF l
      <3> QED BY Zenon, <3>1, <3>2, <1>CancelGood
    <2> QED BY Zenon, <2>2, <2>3
  \* Connecting::CancelPendingIo keeps every operation owned.
  <1>CancelPendingIoGood.
      ASSUME NEW s, GoodOps(s), NEW c \in Conns, NEW full \in BOOLEAN
      PROVE  /\ GoodOps(CancelPendingIo(s, c, full))
             /\ Frame(s, CancelPendingIo(s, c, full))
    <2> USE <1>CancelPendingIoGood
    <2>1. GoodOps(CancelRead(s, c, full)) /\ Frame(s, CancelRead(s, c, full))
      BY Zenon, <1>CancelReadGood
    <2> DEFINE t == CancelRead(s, c, full)
    <2> HIDE DEF t
    <2>2. GoodOps(CancelWrite(t, c, full)) /\ Frame(t, CancelWrite(t, c, full))
      BY Zenon, <2>1, <1>CancelWriteGood DEF t
    <2>3. CancelPendingIo(s, c, full) = CancelWrite(t, c, full)
      BY Zenon DEF CancelPendingIo, t
    <2> QED BY Zenon, <2>1, <2>2, <2>3, FrameTrans DEF t
  <1> QED BY Zenon, <1>CancelReadGood, <1>CancelPendingIoGood

-----------------------------------------------------------------------------
(***************************************************************************)
(* The registry.                                                           *)
(***************************************************************************)

ToldRight(k) ==
  k.told = CASE k.state = "None" -> <<>>
             [] OpenState(k) -> <<"up">>
             [] OTHER -> <<"up", "down", "close">>

GoodReg(s, m) ==
  /\ m \in [Fds -> Conns \cup {NoConn}]
  /\ \A c \in Conns : s.conn[c].state # "kConnecting" /\ ToldRight(s.conn[c])
  /\ \A c \in Conns : IsAlive(s.conn[c]) =>
       s.conn[c].fd \in Fds /\ m[s.conn[c].fd] = c
  /\ \A f \in Fds : m[f] # NoConn =>
       /\ IsAlive(s.conn[m[f]])
       /\ s.conn[m[f]].fd = f
       /\ (f \in s.closed_fds) <=> IsDisconnected(s.conn[m[f]])
  /\ \A f \in s.closed_fds : m[f] # NoConn

StaysAlive(s, t) ==
  \A c \in Conns : IsAlive(s.conn[c]) => IsAlive(t.conn[c])

Good(s, m) == GoodOps(s) /\ GoodReg(s, m)

\* A step that changes nothing for the registry keeps it right.
LEMMA FrameReg ==
  ASSUME NEW s, NEW t, NEW m, GoodReg(s, m), Frame(s, t)
  PROVE  GoodReg(t, m)
  <1>1. ASSUME NEW c \in Conns
        PROVE  /\ t.conn[c].state # "kConnecting" /\ ToldRight(t.conn[c])
               /\ t.conn[c].fd = s.conn[c].fd
               /\ IsAlive(t.conn[c]) <=> IsAlive(s.conn[c])
               /\ IsDisconnected(t.conn[c]) <=> IsDisconnected(s.conn[c])
    <2>1. SameLife(s.conn[c], t.conn[c]) BY Zenon DEF Frame
    <2>2. s.conn[c].state # "kConnecting" /\ ToldRight(s.conn[c])
      BY Zenon DEF GoodReg
    <2> QED BY <2>1, <2>2 DEF SameLife, ToldRight, OpenState, IsAlive, IsDisconnected
  <1>2. m \in [Fds -> Conns \cup {NoConn}] /\ t.closed_fds = s.closed_fds
    BY Zenon DEF GoodReg, Frame
  <1>3. ASSUME NEW f \in Fds, m[f] # NoConn
        PROVE  /\ IsAlive(t.conn[m[f]])
               /\ t.conn[m[f]].fd = f
               /\ (f \in t.closed_fds) <=> IsDisconnected(t.conn[m[f]])
    <2>1. m[f] \in Conns BY Zenon, <1>2, <1>3
    <2>2. /\ IsAlive(s.conn[m[f]])
          /\ s.conn[m[f]].fd = f
          /\ (f \in s.closed_fds) <=> IsDisconnected(s.conn[m[f]])
      BY Zenon, <1>3 DEF GoodReg
    <2> QED BY Zenon, <1>1, <1>2, <2>1, <2>2
  <1>4. ASSUME NEW c \in Conns, IsAlive(t.conn[c])
        PROVE  t.conn[c].fd \in Fds /\ m[t.conn[c].fd] = c
    BY Zenon, <1>1, <1>4 DEF GoodReg
  <1> QED BY Zenon, <1>1, <1>2, <1>3, <1>4 DEF GoodReg

\* A step that changes nothing for the registry destroys no connection.
LEMMA FrameStaysAlive ==
  ASSUME NEW s, NEW t, Frame(s, t)
  PROVE  StaysAlive(s, t)
  BY Zenon, FrameAlive DEF StaysAlive

\* The first half of DoClosing: the state changes and the callbacks are made,
\* but closed_fds_ does not have the descriptor yet.
LEMMA SetDisconnectedGood ==
  \A s, m : \A c \in Conns :
    Good(s, m) /\ IsAlive(s.conn[c]) /\ ~IsDisconnected(s.conn[c]) =>
      LET t == SetDisconnected(s, c)
      IN /\ GoodOps(t)
         /\ t.closed_fds = s.closed_fds
         /\ \A d \in Conns \ {c} : t.conn[d] = s.conn[d]
         /\ t.conn[c].fd = s.conn[c].fd
         /\ t.conn[c].state = "kDisconnected"
         /\ t.conn[c].told = <<"up", "down", "close">>
  \* The callbacks of a connection that goes down.
  <1>DownAfterUp.
      <<"up">> \o <<"down", "close">> = <<"up", "down", "close">>
    <2> DEFINE p == <<"up">> \o <<"down", "close">>
               q == <<"up", "down", "close">>
               T == {"up", "down", "close"}
    <2>1. p[1] = q[1] /\ p[2] = q[2] /\ p[3] = q[3]
      OBVIOUS
    <2>2. p \in Seq(T) /\ q \in Seq(T) /\ Len(p) = 3 /\ Len(q) = 3
      OBVIOUS
    <2> HIDE DEF p, q
    <2>3. \A i \in 1..Len(p) : p[i] = q[i]
      <3>1. \A i \in 1..3 : i = 1 \/ i = 2 \/ i = 3
        OBVIOUS
      <3> QED BY Zenon, <2>1, <2>2, <3>1
    <2>4. p = q
      BY <2>2, <2>3, SeqSame, Zenon
    <2> QED BY Zenon, <2>4 DEF p, q
  <1> SUFFICES ASSUME NEW s, NEW m, Good(s, m), NEW c \in Conns, IsAlive(s.conn[c]),
                    ~IsDisconnected(s.conn[c])
             PROVE  LET t == SetDisconnected(s, c)
                    IN /\ GoodOps(t)
                       /\ t.closed_fds = s.closed_fds
                       /\ \A d \in Conns \ {c} : t.conn[d] = s.conn[d]
                       /\ t.conn[c].fd = s.conn[c].fd
                       /\ t.conn[c].state = "kDisconnected"
                       /\ t.conn[c].told = <<"up", "down", "close">>
    BY Zenon
  <1> DEFINE k == s.conn[c]
             l == [k EXCEPT !.state = "kDisconnected",
                            !.told = k.told \o <<"down", "close">>]
  <1>1. k \in Connection /\ Cancellable(k) /\ s \in LoopState
    BY Zenon DEF Good, GoodOps, LoopState
  <1>2. k.state \in {"kConnected", "kDisconnecting"} /\ k.told = <<"up">>
    BY Zenon, <1>1 DEF Good, GoodReg, ToldRight, OpenState, IsAlive, IsDisconnected,
                Connection, States
  <1>3. k.told \o <<"down", "close">> = <<"up", "down", "close">>
    BY Zenon, <1>2, <1>DownAfterUp
  <1>4. <<"up", "down", "close">> \in Seq({"up", "down", "close"})
    OBVIOUS
  <1>5. /\ l \in Connection /\ Cancellable(l) /\ SameFlight(k, l)
        /\ IsAlive(l) /\ l.fd = k.fd /\ l.state = "kDisconnected"
        /\ l.told = <<"up", "down", "close">>
    BY Zenon, <1>1, <1>3, <1>4
       DEF Connection, Cancellable, SameFlight, IsAlive, States
  <1>6. SetDisconnected(s, c) = Put(s, c, l)
    BY Zenon DEF SetDisconnected
  <1> HIDE DEF l
  <1>7. GoodOps(Put(s, c, l))
    BY Zenon, <1>5, PutGood DEF Good
  <1>8. /\ Put(s, c, l).closed_fds = s.closed_fds
        /\ Put(s, c, l).conn[c] = l
        /\ \A d \in Conns \ {c} : Put(s, c, l).conn[d] = s.conn[d]
    BY Zenon, <1>1, <1>5 DEF Put, LoopState
  <1> QED BY Zenon, <1>5, <1>6, <1>7, <1>8

\* Connecting::DoClosing (and ForceClose) preserves the invariant and destroys
\* nothing.
LEMMA DoClosingGood ==
  ASSUME NEW s, NEW m, Good(s, m), NEW c \in Conns, IsAlive(s.conn[c]),
         NEW full \in BOOLEAN
  PROVE  /\ Good(DoClosing(s, c, full), m)
         /\ StaysAlive(s, DoClosing(s, c, full))
  <1>1. CASE IsDisconnected(s.conn[c])
    BY Zenon, <1>1 DEF DoClosing, StaysAlive
  <1>2. CASE ~IsDisconnected(s.conn[c])
    <2> DEFINE t == SetDisconnected(s, c)
               u == CancelPendingIo(t, c, full)
               v == DeleteConnection(u, c)
    <2>1. DoClosing(s, c, full) = v
      BY Zenon, <1>2 DEF DoClosing
    <2>2. /\ GoodOps(t) /\ t.closed_fds = s.closed_fds
          /\ \A d \in Conns \ {c} : t.conn[d] = s.conn[d]
          /\ t.conn[c].fd = s.conn[c].fd
          /\ t.conn[c].state = "kDisconnected"
          /\ t.conn[c].told = <<"up", "down", "close">>
      BY Zenon, <1>2, SetDisconnectedGood
    <2> HIDE DEF t
    <2>3. GoodOps(u) /\ Frame(t, u)
      BY Zenon, <2>2, CancelIoGood
    <2> HIDE DEF u
    <2>4. /\ u.closed_fds = s.closed_fds
          /\ \A d \in Conns \ {c} : SameLife(s.conn[d], u.conn[d])
          /\ u.conn[c].fd = s.conn[c].fd
          /\ u.conn[c].state = "kDisconnected"
          /\ u.conn[c].told = <<"up", "down", "close">>
      BY <2>2, <2>3 DEF Frame, SameLife, OpenState
    <2>5. s.conn[c].fd \in Fds /\ m[s.conn[c].fd] = c
          /\ m \in [Fds -> Conns \cup {NoConn}]
      BY Zenon DEF Good, GoodReg
    <2>6. /\ v \in LoopState /\ v.conn = u.conn /\ v.ops = u.ops
          /\ v.next_key = u.next_key
          /\ v.closed_fds = s.closed_fds \cup {s.conn[c].fd}
      BY Zenon, <2>3, <2>4, <2>5 DEF DeleteConnection, GoodOps, LoopState
    <2> HIDE DEF v
    <2>7. GoodOps(v)
      BY <2>3, <2>6 DEF GoodOps, Owned
    <2>8. ASSUME NEW d \in Conns
          PROVE  /\ v.conn[d].state # "kConnecting" /\ ToldRight(v.conn[d])
                 /\ v.conn[d].fd = s.conn[d].fd
                 /\ IsAlive(v.conn[d]) <=> IsAlive(s.conn[d])
                 /\ IsDisconnected(v.conn[d]) <=>
                      (d = c \/ IsDisconnected(s.conn[d]))
      <3>1. s.conn[d].state # "kConnecting" /\ ToldRight(s.conn[d])
        BY Zenon DEF Good, GoodReg
      <3>2. CASE d = c
        BY Zenon, <2>4, <2>6, <3>2 DEF ToldRight, OpenState, IsAlive, IsDisconnected
      <3>3. CASE d # c
        <4>1. SameLife(s.conn[d], v.conn[d]) BY Zenon, <2>4, <2>6, <3>3
        <4> QED
          BY Zenon, <3>1, <3>3, <4>1 DEF SameLife, ToldRight, OpenState, IsAlive, IsDisconnected
      <3> QED BY Zenon, <3>2, <3>3
    <2>9. ASSUME NEW f \in Fds, m[f] # NoConn
          PROVE  /\ IsAlive(v.conn[m[f]])
                 /\ v.conn[m[f]].fd = f
                 /\ (f \in v.closed_fds) <=> IsDisconnected(v.conn[m[f]])
      <3>1. m[f] \in Conns BY Zenon, <2>5, <2>9
      <3>2. /\ IsAlive(s.conn[m[f]])
            /\ s.conn[m[f]].fd = f
            /\ (f \in s.closed_fds) <=> IsDisconnected(s.conn[m[f]])
        BY Zenon, <2>9 DEF Good, GoodReg
      <3>3. (f = s.conn[c].fd) <=> (m[f] = c)
        BY Zenon, <2>5, <3>2
      <3> QED BY Zenon, <2>6, <2>8, <3>1, <3>2, <3>3
    <2>10. ASSUME NEW d \in Conns, IsAlive(v.conn[d])
           PROVE  v.conn[d].fd \in Fds /\ m[v.conn[d].fd] = d
      BY Zenon, <2>8, <2>10 DEF Good, GoodReg
    <2>11. \A f \in v.closed_fds : m[f] # NoConn
      <3>1. c # NoConn BY Zenon, BoundsAssumption DEF NoConn
      <3> QED BY Zenon, <2>5, <2>6, <3>1 DEF Good, GoodReg
    <2>12. GoodReg(v, m)
      BY Zenon, <2>5, <2>8, <2>9, <2>10, <2>11 DEF GoodReg
    <2>13. StaysAlive(s, v)
      BY Zenon, <2>8 DEF StaysAlive
    <2> QED BY Zenon, <2>1, <2>7, <2>12, <2>13 DEF Good
  <1> QED BY Zenon, <1>1, <1>2

\* Replacing a connection by one that differs in neither its I/O in flight
\* nor its life.
LEMMA PutSame ==
  ASSUME NEW s, NEW m, Good(s, m), NEW c \in Conns, NEW k \in Connection,
         Cancellable(k), SameFlight(s.conn[c], k), SameLife(s.conn[c], k)
  PROVE  Good(Put(s, c, k), m) /\ StaysAlive(s, Put(s, c, k))
  <1>1. IsAlive(s.conn[c]) => IsAlive(k)
    BY Zenon DEF SameLife, IsAlive, OpenState
  <1>2. GoodOps(Put(s, c, k))
    BY Zenon, <1>1, PutGood DEF Good
  <1>3. Frame(s, Put(s, c, k))
    BY Zenon, PutFrame DEF Good, GoodOps
  <1> QED BY Zenon, <1>2, <1>3, FrameReg, FrameStaysAlive DEF Good

\* Owned operations and an unchanged registry make a good state.
LEMMA FrameGood ==
  ASSUME NEW s, NEW m, Good(s, m), NEW t, GoodOps(t), Frame(s, t)
  PROVE  Good(t, m) /\ StaysAlive(s, t)
  BY Zenon, FrameReg, FrameStaysAlive DEF Good

-----------------------------------------------------------------------------
(***************************************************************************)
(* The functions of Connecting.                                            *)
(***************************************************************************)

\* Consecutive bytes are a sequence of bytes.
LEMMA IntervalSeq ==
  ASSUME NEW lo \in Nat, NEW n \in Nat
  PROVE  Interval(lo, n) \in Seq(Nat)
  <1>1. \A i \in 1..n : lo + i - 1 \in Nat
    OBVIOUS
  <1> QED BY <1>1 DEF Interval

\* What is left after a partial write is a sequence of bytes.
LEMMA DropSeq ==
  ASSUME NEW q \in Seq(Nat), NEW n \in Nat
  PROVE  Drop(q, n) \in Seq(Nat)
  <1>1. \A i \in (n + 1)..Len(q) : q[i] \in Nat
    OBVIOUS
  <1>2. n + 1 \in Int /\ Len(q) \in Int
    OBVIOUS
  <1> QED BY Zenon, <1>1, <1>2, SeqSub DEF Drop

\* Every function of Connecting that the user can call preserves the invariant
\* and destroys nothing.
LEMMA CallGood ==
  \A s, m : \A d \in Conns : \A f : \A full \in BOOLEAN :
    Good(s, m) /\ IsAlive(s.conn[d]) /\ f[2] \in Nat =>
      Good(Call(s, d, f, full), m) /\ StaysAlive(s, Call(s, d, f, full))
  \* Steps that destroy no connection compose.
  <1>StaysAliveTrans.
      ASSUME NEW s, NEW t, NEW u, StaysAlive(s, t), StaysAlive(t, u)
      PROVE  StaysAlive(s, u)
    BY Zenon, <1>StaysAliveTrans DEF StaysAlive
  \* Connecting::Send, high-water-mark callback included, preserves the
  \* invariant.
  <1>SendGood.
      ASSUME NEW s, NEW m, Good(s, m), NEW c \in Conns, IsAlive(s.conn[c]),
             NEW n \in Nat, NEW full \in BOOLEAN
      PROVE  Good(Send(s, c, n, full), m) /\ StaysAlive(s, Send(s, c, n, full))
    <2> USE <1>SendGood
    <2> DEFINE queued == Len(s.conn[c].output) + Len(s.conn[c].pending)
               crossed == queued + n >= HighWaterMark /\ queued < HighWaterMark
               t == IF crossed /\ CloseOnHighWater THEN ForceClose(s, c, full) ELSE s
               h == t.conn[c]
               message == Interval(s.conn[c].accepted + 1, n)
               k == [h EXCEPT !.accepted = @ + n]
               k1 == [k EXCEPT !.pending = @ \o message]
               k2 == [k EXCEPT !.output = @ \o message]
    <2>1. CASE s.conn[c].state # "kConnected"
      BY Zenon, <2>1 DEF Send, StaysAlive
    <2>2. CASE s.conn[c].state = "kConnected"
      <3>1. Send(s, c, n, full) =
              IF k.write_in_flight THEN Put(t, c, k1)
              ELSE SubmitWriteOnce(Put(t, c, k2), c, full)
        BY Zenon, <2>2 DEF Send
      <3>2. Good(t, m) /\ StaysAlive(s, t)
        BY Zenon, DoClosingGood DEF ForceClose, StaysAlive
      <3>3. message \in Seq(Nat)
        <4>1. s.conn[c].accepted + 1 \in Nat
          BY DEF Good, GoodOps, LoopState, Connection
        <4> QED BY Zenon, <4>1, IntervalSeq
      <3> HIDE DEF message, t
      <3>4. h \in Connection /\ Cancellable(h) /\ IsAlive(h)
        BY Zenon, <3>2 DEF Good, GoodOps, LoopState, StaysAlive
      <3> HIDE DEF h
      <3>5. /\ k \in Connection /\ Cancellable(k) /\ SameFlight(h, k)
            /\ SameLife(h, k)
        <4>1. h.accepted + n \in Nat BY <3>4 DEF Connection
        <4>2. k \in Connection BY Zenon, <3>4, <4>1 DEF Connection
        <4>3. SameLife(h, k) BY Zenon, <3>4 DEF Connection, SameLife
        <4>4. SameFlight(h, k) BY Zenon, <3>4 DEF Connection, SameFlight
        <4>5. Cancellable(k) BY Zenon, <3>4 DEF Connection, Cancellable
        <4> QED BY Zenon, <4>2, <4>3, <4>4, <4>5
      <3> HIDE DEF k
      <3> DEFINE P == k.pending \o message
                 Q == k.output \o message
      <3>. P \in Seq(Nat) /\ Q \in Seq(Nat)
        BY <3>3, <3>5 DEF Connection
      <3> HIDE DEF P, Q
      <3>6. /\ k1 \in Connection /\ Cancellable(k1) /\ SameFlight(h, k1)
            /\ SameLife(h, k1)
        <4>1. k1 = [k EXCEPT !.pending = P] BY Zenon DEF P
        <4>2. k1 \in Connection BY Zenon, <3>5, <4>1 DEF Connection
        <4>3. SameLife(k, k1) BY Zenon, <3>5, <4>1 DEF Connection, SameLife
        <4>4. SameFlight(k, k1) BY Zenon, <3>5, <4>1 DEF Connection, SameFlight
        <4>5. Cancellable(k1) BY Zenon, <3>5, <4>1 DEF Connection, Cancellable
        <4> HIDE DEF k1
        <4> QED BY Zenon, <3>5, <4>2, <4>3, <4>4, <4>5
                DEF SameLife, SameFlight, OpenState
      <3>7. /\ k2 \in Connection /\ Cancellable(k2) /\ SameFlight(h, k2)
            /\ SameLife(h, k2)
        <4>1. k2 = [k EXCEPT !.output = Q] BY Zenon DEF Q
        <4>2. k2 \in Connection BY Zenon, <3>5, <4>1 DEF Connection
        <4>3. SameLife(k, k2) BY Zenon, <3>5, <4>1 DEF Connection, SameLife
        <4>4. SameFlight(k, k2) BY Zenon, <3>5, <4>1 DEF Connection, SameFlight
        <4>5. Cancellable(k2) BY Zenon, <3>5, <4>1 DEF Connection, Cancellable
        <4> HIDE DEF k2
        <4> QED BY Zenon, <3>5, <4>2, <4>3, <4>4, <4>5
                DEF SameLife, SameFlight, OpenState
      <3> DEFINE u == Put(t, c, k2)
                 w == SubmitWriteOnce(u, c, full)
      <3> HIDE DEF k1, k2
      <3>8. Good(Put(t, c, k1), m) /\ StaysAlive(t, Put(t, c, k1))
        BY Zenon, <3>2, <3>6, PutSame DEF h
      <3>9. Good(u, m) /\ StaysAlive(t, u)
        BY Zenon, <3>2, <3>7, PutSame DEF h
      <3> HIDE DEF u
      <3>10. GoodOps(w) /\ Frame(u, w)
        BY Zenon, <3>4, <3>9, SubmitOnceGood DEF Good, StaysAlive, h
      <3> HIDE DEF w
      <3>11. Good(w, m) /\ StaysAlive(u, w)
        BY Zenon, <3>9, <3>10, FrameGood
      <3>12. StaysAlive(s, w) /\ StaysAlive(s, Put(t, c, k1))
        BY Zenon, <3>2, <3>8, <3>9, <3>11, <1>StaysAliveTrans
      <3> QED BY Zenon, <3>1, <3>8, <3>11, <3>12 DEF w, u
    <2> QED BY Zenon, <2>1, <2>2
  \* Connecting::ShutDownWrite preserves the invariant.
  <1>ShutDownWriteGood.
      ASSUME NEW s, NEW m, Good(s, m), NEW c \in Conns
      PROVE  Good(ShutDownWrite(s, c), m) /\ StaysAlive(s, ShutDownWrite(s, c))
    <2> USE <1>ShutDownWriteGood
    <2> DEFINE k == s.conn[c]
               l == [k EXCEPT !.state = "kDisconnecting", !.shut = TRUE]
    <2>1. CASE k.state # "kConnected"
      BY Zenon, <2>1 DEF ShutDownWrite, StaysAlive
    <2>2. CASE k.state = "kConnected"
      <3>1. k \in Connection /\ Cancellable(k)
        BY Zenon DEF Good, GoodOps, LoopState
      <3>2. /\ l \in Connection /\ Cancellable(l) /\ SameFlight(k, l)
            /\ SameLife(k, l)
        BY Zenon, <2>2, <3>1
           DEF Connection, States, Cancellable, SameFlight, SameLife, OpenState
      <3>3. ShutDownWrite(s, c) = Put(s, c, l)
        BY Zenon, <2>2 DEF ShutDownWrite
      <3> HIDE DEF l
      <3> QED BY Zenon, <3>2, <3>3, PutSame
    <2> QED BY Zenon, <2>1, <2>2
  \* Connecting::ForceCloseAfter preserves the invariant.
  <1>ForceCloseAfterGood.
      ASSUME NEW s, NEW m, Good(s, m), NEW c \in Conns
      PROVE  Good(ForceCloseAfter(s, c), m) /\ StaysAlive(s, ForceCloseAfter(s, c))
    <2> USE <1>ForceCloseAfterGood
    <2>1. CASE IsDisconnected(s.conn[c])
      BY Zenon, <2>1 DEF ForceCloseAfter, StaysAlive
    <2>2. CASE ~IsDisconnected(s.conn[c])
      <3> DEFINE D == s.delayed \cup {<<c, s.conn[c].addr>>}
                 t == [s EXCEPT !.delayed = D]
      <3>1. s \in LoopState BY Zenon DEF Good, GoodOps
      <3>2. s.conn[c].addr \in Addrs \cup {NoAddr}
        BY Zenon, <3>1 DEF LoopState, Connection
      <3>3. D \in SUBSET (Conns \X (Addrs \cup {NoAddr}))
        BY <3>1, <3>2 DEF LoopState
      <3> HIDE DEF D
      <3>4. /\ t \in LoopState /\ t.conn = s.conn /\ t.ops = s.ops
            /\ t.next_key = s.next_key /\ t.closed_fds = s.closed_fds
        BY Zenon, <3>1, <3>3 DEF LoopState
      <3>5. ForceCloseAfter(s, c) = t
        BY Zenon, <2>2 DEF ForceCloseAfter, D
      <3> HIDE DEF t
      <3>6. GoodOps(t)
        BY <3>4 DEF Good, GoodOps, Owned
      <3>7. Frame(s, t)
        BY Zenon, <3>4 DEF Frame, SameLife
      <3> QED BY Zenon, <3>5, <3>6, <3>7, FrameGood
    <2> QED BY Zenon, <2>1, <2>2
  <1> SUFFICES ASSUME NEW s, NEW m, Good(s, m), NEW d \in Conns, IsAlive(s.conn[d]),
                    NEW f, f[2] \in Nat, NEW full \in BOOLEAN
             PROVE  Good(Call(s, d, f, full), m) /\ StaysAlive(s, Call(s, d, f, full))
    OBVIOUS
  <1>1. CASE f[1] = "Send"
    BY Zenon, <1>1, <1>SendGood DEF Call
  <1>2. CASE f[1] = "ShutDownWrite"
    BY Zenon, <1>2, <1>ShutDownWriteGood DEF Call
  <1>3. CASE f[1] = "ForceClose"
    BY Zenon, <1>3, DoClosingGood DEF Call, ForceClose
  <1>4. CASE f[1] = "ForceCloseAfter"
    BY Zenon, <1>4, <1>ForceCloseAfterGood DEF Call
  <1>5. CASE f[1] = "Stop"
    <2>1. Call(s, d, f, full) = CancelPendingIo(s, d, full)
      BY Zenon, <1>5 DEF Call
    <2> QED BY Zenon, <2>1, CancelIoGood, FrameGood DEF Good
  <1>6. CASE f[1] = "StartReading"
    <2>1. Call(s, d, f, full) = SubmitReadOnce(s, d, full)
      BY Zenon, <1>6 DEF Call
    <2> QED BY Zenon, <2>1, SubmitOnceGood, FrameGood DEF Good
  <1>7. CASE f[1] = "StartWriting"
    <2>1. Call(s, d, f, full) = SubmitWriteOnce(s, d, full)
      BY Zenon, <1>7 DEF Call
    <2> QED BY Zenon, <2>1, SubmitOnceGood, FrameGood DEF Good
  <1>8. CASE f[1] \notin ApiFunctions
    <2>1. Call(s, d, f, full) = s
      BY Zenon, <1>8 DEF Call, ApiFunctions
    <2> QED BY Zenon, <2>1 DEF StaysAlive
  <1> QED BY Zenon, <1>1, <1>2, <1>3, <1>4, <1>5, <1>6, <1>7, <1>8 DEF ApiFunctions

\* The size of a message is a natural number.
LEMMA CallsType ==
  ASSUME NEW f \in Calls
  PROVE  f[2] \in Nat
  BY BoundsAssumption DEF Calls, NoCall

\* A user callback preserves the invariant and destroys nothing.
LEMMA ReactGood ==
  ASSUME NEW s, NEW m, Good(s, m), NEW d \in Conns, NEW f \in Calls,
         f # NoCall => IsAlive(s.conn[d]), NEW full \in BOOLEAN
  PROVE  Good(React(s, d, f, full), m) /\ StaysAlive(s, React(s, d, f, full))
  <1>1. CASE f = NoCall
    BY Zenon, <1>1 DEF React, StaysAlive
  <1>2. CASE f # NoCall
    BY Zenon, <1>2, CallGood, CallsType DEF React
  <1> QED BY Zenon, <1>1, <1>2

-----------------------------------------------------------------------------
(***************************************************************************)
(* The completion handlers.                                                *)
(***************************************************************************)

\* SubmitReadOnce on a live connection preserves the invariant.
LEMMA SubmitReadOnceKeeps ==
  ASSUME NEW s, NEW m, Good(s, m), NEW c \in Conns, IsAlive(s.conn[c]),
         NEW full \in BOOLEAN
  PROVE  /\ Good(SubmitReadOnce(s, c, full), m)
         /\ StaysAlive(s, SubmitReadOnce(s, c, full))
  BY Zenon, SubmitOnceGood, FrameGood DEF Good

\* A callback followed by the next read (OnReadComplete, OnEstablishing).
LEMMA ReactThenRead ==
  ASSUME NEW s, NEW m, Good(s, m), NEW c \in Conns, IsAlive(s.conn[c]),
         NEW d \in Conns, NEW f \in Calls, f # NoCall => IsAlive(s.conn[d]),
         NEW full \in BOOLEAN
  PROVE  Good(SubmitReadOnce(React(s, d, f, full), c, full), m)
  <1> DEFINE t == React(s, d, f, full)
  <1>1. Good(t, m) /\ StaysAlive(s, t)
    BY Zenon, ReactGood
  <1> HIDE DEF t
  <1> QED BY Zenon, <1>1, SubmitReadOnceKeeps DEF StaysAlive, t

\* The state in which the handler of o finds the loop once o is out of ops_
\* and its flag is cleared.
LEMMA TakeOp ==
  \A s, m : \A o \in s.ops, k \in Connection :
     /\ Good(s, m)
     /\ o.completion
     /\ Cancellable(k)
     /\ SameLife(s.conn[o.self], k)
     /\ OtherFlightSame(o.type, s.conn[o.self], k)
    => LET t == Put([s EXCEPT !.ops = @ \ {o}], o.self, k)
       IN Good(t, m) /\ StaysAlive(s, t)
  \* Operations with equal fields are equal.
  <1>OpEqual.
      ASSUME NEW o \in Op, NEW p \in Op,
             p.key = o.key, p.type = o.type, p.self = o.self,
             p.eventer = o.eventer, p.completion = o.completion
      PROVE  p = o
    <2> USE <1>OpEqual
    <2>1. ASSUME NEW q \in Op
          PROVE  q = [key |-> q.key, type |-> q.type, self |-> q.self,
                      eventer |-> q.eventer, completion |-> q.completion]
      BY Zenon DEF Op
    <2> QED BY Zenon, <2>1
  <1> SUFFICES ASSUME NEW s, NEW m, Good(s, m), NEW o \in s.ops, o.completion,
                    NEW k \in Connection,
                    Cancellable(k), SameLife(s.conn[o.self], k),
                    OtherFlightSame(o.type, s.conn[o.self], k)
             PROVE  LET t == Put([s EXCEPT !.ops = @ \ {o}], o.self, k)
                    IN Good(t, m) /\ StaysAlive(s, t)
    OBVIOUS
  <1> DEFINE c == o.self
             P == s.ops \ {o}
             t == Put([s EXCEPT !.ops = P], c, k)
  <1>1. s \in LoopState /\ o \in Op /\ s.ops \subseteq Op
    BY Zenon DEF Good, GoodOps, LoopState
  <1>2. c \in Conns BY Zenon, <1>1 DEF Op
  <1>3. /\ t \in LoopState /\ t.conn[c] = k /\ t.ops = P
        /\ t.next_key = s.next_key
        /\ t.closed_fds = s.closed_fds
        /\ \A d \in Conns \ {c} : t.conn[d] = s.conn[d]
    BY Zenon, <1>1, <1>2 DEF Put, LoopState
  <1>4. Owned(s, o) BY Zenon DEF Good, GoodOps
  <1> HIDE DEF t
  <1>5. ASSUME NEW d \in Conns
        PROVE  Cancellable(t.conn[d]) /\ SameLife(s.conn[d], t.conn[d])
    <2>1. CASE d = c BY Zenon, <1>3, <2>1
    <2>2. CASE d # c
      <3>1. t.conn[d] = s.conn[d] BY Zenon, <1>3, <2>2
      <3> QED BY Zenon, <3>1 DEF Good, GoodOps, SameLife
    <2> QED BY Zenon, <2>1, <2>2
  <1>6. Frame(s, t)
    BY Zenon, <1>3, <1>5 DEF Frame
  <1>7. ASSUME NEW p \in t.ops, p.completion PROVE Owned(t, p)
    <2>1. p \in s.ops /\ p # o /\ Owned(s, p) /\ p \in Op
      BY Zenon, <1>1, <1>3, <1>7 DEF Good, GoodOps
    <2>2. CASE p.self # c
      BY Zenon, <1>3, <2>1, <2>2 DEF Owned, Op
    <2>3. CASE p.self = c
      <3>1. IsAlive(k)
        BY Zenon, <2>1, <2>3 DEF Owned, SameLife, IsAlive, OpenState
      <3>2. p.type # o.type
        <4>1. SUFFICES ASSUME p.type = o.type PROVE FALSE BY Zenon
        <4>2. /\ p.key = o.key /\ p.type = o.type /\ p.self = o.self
              /\ p.eventer = o.eventer /\ p.completion = o.completion
          BY Zenon, <1>1, <1>4, <1>7, <2>1, <2>3, <4>1 DEF Owned, Op
        <4> QED BY Zenon, <1>1, <2>1, <4>2, <1>OpEqual
      <3>3. t.conn[p.self] = k BY Zenon, <1>3, <2>3
      <3>4. /\ s.conn[c].addr = p.eventer /\ k.addr = s.conn[c].addr
            /\ p.type \in {"kRead", "kWrite"} /\ o.type \in {"kRead", "kWrite"}
        BY Zenon, <1>1, <2>1, <2>3 DEF Owned, Op, SameLife, OtherFlightSame
      <3>5. CASE p.type = "kRead"
        <4>1. o.type = "kWrite" BY Zenon, <3>2, <3>4, <3>5
        <4>2. /\ s.conn[c].read_in_flight /\ s.conn[c].read_cancel_key = p.key
          BY Zenon, <2>1, <2>3, <3>5 DEF Owned
        <4>3. k.read_in_flight /\ k.read_cancel_key = p.key
          BY Zenon, <4>1, <4>2 DEF OtherFlightSame
        <4> QED BY Zenon, <3>1, <3>3, <3>4, <3>5, <4>3 DEF Owned
      <3>6. CASE p.type = "kWrite"
        <4>1. o.type = "kRead" BY Zenon, <3>2, <3>4, <3>6
        <4>2. /\ s.conn[c].write_in_flight /\ s.conn[c].write_cancel_key = p.key
          BY Zenon, <2>1, <2>3, <3>6 DEF Owned
        <4>3. k.write_in_flight /\ k.write_cancel_key = p.key
          BY Zenon, <4>1, <4>2 DEF OtherFlightSame
        <4> QED BY Zenon, <3>1, <3>3, <3>4, <3>6, <4>3 DEF Owned
      <3> QED BY Zenon, <3>4, <3>5, <3>6
    <2> QED BY Zenon, <2>2, <2>3
  <1>8. GoodOps(t)
    BY Zenon, <1>3, <1>5, <1>7 DEF Good, GoodOps
  <1> QED BY Zenon, <1>6, <1>8, FrameGood, FrameAlive DEF t

\* Connecting::OnReadComplete preserves the invariant, whatever the message or
\* close callback calls and on whichever connection.
LEMMA OnReadCompleteGood ==
  ASSUME NEW s, NEW m, Good(s, m), NEW o \in s.ops, o.completion,
         o.type = "kRead", NEW e \in Completion,
         NEW d \in Conns, NEW f \in Calls, f # NoCall => IsAlive(s.conn[d]),
         NEW full \in BOOLEAN
  PROVE  Good(OnReadComplete([s EXCEPT !.ops = @ \ {o}], o.self, e, d, f, full), m)
  <1> DEFINE r == [s EXCEPT !.ops = @ \ {o}]
             c == o.self
             h == s.conn[c]
             k == [h EXCEPT !.read_in_flight = FALSE]
             message == Interval(e.lo, e.res)
             k1 == [k EXCEPT !.input = @ \o message]
             k2 == [k EXCEPT !.read_faulted = TRUE]
             t == Put(r, c, k)
             u == Put(r, c, k1)
             v == Put(r, c, k2)
             q == OnReadComplete(r, c, e, d, f, full)
  <1>1. s \in LoopState /\ o \in Op /\ Owned(s, o)
    BY Zenon DEF Good, GoodOps, LoopState
  <1>2. c \in Conns /\ IsAlive(h) BY Zenon, <1>1 DEF Op, Owned
  <1>3. h \in Connection /\ Cancellable(h) /\ r.conn = s.conn
    BY Zenon, <1>1, <1>2 DEF Good, GoodOps, LoopState
  <1>4. q = CASE e.res > 0 -> SubmitReadOnce(React(u, d, f, full), c, full)
              [] e.res \in {0, ECONNRESET} ->
                   React(DoClosing(t, c, full), d, f, full)
              [] e.res = EAGAIN -> SubmitReadOnce(t, c, full)
              [] OTHER -> v
    BY Zenon, <1>3 DEF OnReadComplete
  <1>5. /\ k \in Connection /\ Cancellable(k) /\ SameLife(h, k)
        /\ OtherFlightSame("kRead", h, k)
    <2> HIDE DEF h
    <2> QED BY Zenon, <1>3 DEF Connection, Cancellable, SameLife, OtherFlightSame
  <1> HIDE DEF k
  <1>6. /\ k2 \in Connection /\ Cancellable(k2) /\ SameLife(k, k2)
        /\ OtherFlightSame("kRead", k, k2)
    BY Zenon, <1>5 DEF Connection, Cancellable, SameLife, OtherFlightSame
  <1>7. Good(t, m) /\ StaysAlive(s, t)
    BY Zenon, <1>5, TakeOp
  <1>8. Good(v, m)
    <2>1. SameLife(h, k2) /\ OtherFlightSame("kRead", h, k2)
      BY Zenon, <1>5, <1>6 DEF SameLife, OtherFlightSame, OpenState
    <2> HIDE DEF k2
    <2> QED BY Zenon, <1>6, <2>1, TakeOp
  <1>9. CASE e.res > 0
    <2>1. message \in Seq(Nat)
      BY <1>9, IntervalSeq DEF Completion
    <2> DEFINE w == k.input \o message
    <2>2. w \in Seq(Nat) /\ k1 = [k EXCEPT !.input = w]
      BY <1>5, <2>1 DEF Connection
    <2> HIDE DEF w, message
    <2>3. /\ k1 \in Connection /\ Cancellable(k1) /\ SameLife(k, k1)
          /\ OtherFlightSame("kRead", k, k1)
      BY Zenon, <1>5, <2>2 DEF Connection, Cancellable, SameLife, OtherFlightSame
    <2>4. SameLife(h, k1) /\ OtherFlightSame("kRead", h, k1)
      BY Zenon, <1>5, <2>3 DEF SameLife, OtherFlightSame, OpenState
    <2> HIDE DEF k1
    <2>5. Good(u, m) /\ StaysAlive(s, u)
      BY Zenon, <2>3, <2>4, TakeOp
    <2> HIDE DEF u
    <2>6. q = SubmitReadOnce(React(u, d, f, full), c, full)
      BY <1>4, <1>9 DEF EAGAIN, ECONNRESET
    <2> HIDE DEF q
    <2>7. IsAlive(u.conn[c]) /\ (f # NoCall => IsAlive(u.conn[d]))
      BY Zenon, <1>2, <2>5 DEF StaysAlive
    <2>8. Good(q, m)
      BY Zenon, <1>2, <2>5, <2>6, <2>7, ReactThenRead
    <2> QED BY Zenon, <2>8 DEF q
  <1> HIDE DEF t, u, v, q
  <1>10. CASE e.res \in {0, ECONNRESET}
    <2> DEFINE w == DoClosing(t, c, full)
    <2>1. q = React(w, d, f, full)
      BY <1>4, <1>10 DEF EAGAIN, ECONNRESET
    <2>2. Good(w, m) /\ StaysAlive(t, w)
      BY Zenon, <1>2, <1>7, DoClosingGood DEF StaysAlive
    <2> HIDE DEF w
    <2>3. f # NoCall => IsAlive(w.conn[d])
      BY Zenon, <1>7, <2>2 DEF StaysAlive
    <2> QED BY Zenon, <2>1, <2>2, <2>3, ReactGood DEF q
  <1>11. CASE e.res = EAGAIN
    <2>1. q = SubmitReadOnce(t, c, full)
      BY <1>4, <1>11 DEF EAGAIN, ECONNRESET
    <2> QED BY Zenon, <1>2, <1>7, <2>1, SubmitReadOnceKeeps DEF StaysAlive, q
  <1>12. CASE ~(e.res > 0) /\ e.res \notin {0, ECONNRESET, EAGAIN}
    BY Zenon, <1>4, <1>8, <1>12 DEF q
  <1> QED BY Zenon, <1>9, <1>10, <1>11, <1>12 DEF q

\* Connecting::OnWriteComplete preserves the invariant.
LEMMA OnWriteCompleteGood ==
  \A s, m :
  \A o \in s.ops, e \in Completion, d \in Conns, f \in Calls, full \in BOOLEAN :
     /\ Good(s, m)
     /\ o.completion
     /\ o.type = "kWrite"
     /\ f # NoCall => IsAlive(s.conn[d])
    => Good(OnWriteComplete([s EXCEPT !.ops = @ \ {o}], o.self, e, d, f, full), m)
  \* SubmitWriteOnce on a live connection preserves the invariant.
  <1>SubmitWriteOnceKeeps.
      ASSUME NEW s, NEW m, Good(s, m), NEW c \in Conns, IsAlive(s.conn[c]),
             NEW full \in BOOLEAN
      PROVE  /\ Good(SubmitWriteOnce(s, c, full), m)
             /\ StaysAlive(s, SubmitWriteOnce(s, c, full))
    BY Zenon, <1>SubmitWriteOnceKeeps, SubmitOnceGood, FrameGood DEF Good
  \* The end of OnWriteComplete, with its callback, preserves the invariant.
  <1>AllWrittenGood.
      ASSUME NEW s, NEW m, Good(s, m), NEW c \in Conns,
             NEW d \in Conns, NEW f \in Calls, f # NoCall => IsAlive(s.conn[d]),
             NEW full \in BOOLEAN
      PROVE  Good(AllWritten(s, c, d, f, full), m)
    <2> USE <1>AllWrittenGood
    <2> DEFINE t == React(s, d, f, full)
               k == t.conn[c]
               l == [k EXCEPT !.shut = TRUE]
    <2>1. Good(t, m)
      BY Zenon, ReactGood
    <2>2. AllWritten(s, c, d, f, full) =
            IF k.state = "kDisconnecting" /\ k.output = <<>> /\ k.pending = <<>>
            THEN Put(t, c, l) ELSE t
      BY Zenon DEF AllWritten
    <2> HIDE DEF t
    <2>3. k \in Connection /\ Cancellable(k)
      BY Zenon, <2>1 DEF Good, GoodOps, LoopState
    <2>4. /\ l \in Connection /\ Cancellable(l) /\ SameFlight(k, l)
          /\ SameLife(k, l)
      <3> HIDE DEF k
      <3> QED BY Zenon, <2>3 DEF Connection, Cancellable, SameFlight, SameLife
    <2> HIDE DEF l
    <2>5. Good(Put(t, c, l), m)
      BY Zenon, <2>1, <2>4, PutSame
    <2> QED BY Zenon, <2>1, <2>2, <2>5
  <1> SUFFICES ASSUME NEW s, NEW m, Good(s, m), NEW o \in s.ops, o.completion,
                    o.type = "kWrite", NEW e \in Completion,
                    NEW d \in Conns, NEW f \in Calls, f # NoCall => IsAlive(s.conn[d]),
                    NEW full \in BOOLEAN
             PROVE  Good(OnWriteComplete([s EXCEPT !.ops = @ \ {o}], o.self, e, d, f, full), m)
    OBVIOUS
  <1> DEFINE r == [s EXCEPT !.ops = @ \ {o}]
             c == o.self
             h == s.conn[c]
             k == [h EXCEPT !.write_in_flight = FALSE]
             left == Drop(k.output, e.res)
             k1 == [k EXCEPT !.output = left]
             k2 == [k EXCEPT !.output = k.pending, !.pending = <<>>]
             k3 == [k EXCEPT !.output = <<>>]
             k4 == [k EXCEPT !.write_faulted = TRUE]
             q == OnWriteComplete(r, c, e, d, f, full)
  <1>1. s \in LoopState /\ o \in Op /\ Owned(s, o)
    BY Zenon DEF Good, GoodOps, LoopState
  <1>2. c \in Conns /\ IsAlive(h) BY Zenon, <1>1 DEF Op, Owned
  <1>3. h \in Connection /\ Cancellable(h) /\ r.conn = s.conn
    BY Zenon, <1>1, <1>2 DEF Good, GoodOps, LoopState
  <1>4. q = CASE e.res > 0 /\ left # <<>> ->
                   SubmitWriteOnce(Put(r, c, k1), c, full)
              [] e.res > 0 /\ left = <<>> /\ k.pending # <<>> ->
                   SubmitWriteOnce(Put(r, c, k2), c, full)
              [] e.res > 0 /\ left = <<>> /\ k.pending = <<>> ->
                   AllWritten(Put(r, c, k3), c, d, f, full)
              [] e.res = EAGAIN -> SubmitWriteOnce(Put(r, c, k), c, full)
              [] OTHER -> Put(r, c, k4)
    BY Zenon, <1>3 DEF OnWriteComplete
  <1>5. /\ k \in Connection /\ Cancellable(k) /\ SameLife(h, k)
        /\ OtherFlightSame("kWrite", h, k)
    <2> HIDE DEF h
    <2> QED BY Zenon, <1>3 DEF Connection, Cancellable, SameLife, OtherFlightSame
  <1> HIDE DEF k, left, q
  \* Whatever the handler has put into the output buffers so far.
  <1>6. ASSUME NEW l \in Connection, Cancellable(l), SameLife(k, l),
               OtherFlightSame("kWrite", k, l)
        PROVE  /\ Good(Put(r, c, l), m)
               /\ StaysAlive(s, Put(r, c, l))
               /\ Good(SubmitWriteOnce(Put(r, c, l), c, full), m)
    <2>1. SameLife(h, l) /\ OtherFlightSame("kWrite", h, l)
      BY Zenon, <1>5, <1>6 DEF SameLife, OtherFlightSame, OpenState
    <2> DEFINE t == Put(r, c, l)
    <2>2. Good(t, m) /\ StaysAlive(s, t)
      BY Zenon, <1>6, <2>1, TakeOp
    <2> HIDE DEF t
    <2>3. Good(SubmitWriteOnce(t, c, full), m)
      BY Zenon, <1>2, <2>2, <1>SubmitWriteOnceKeeps DEF StaysAlive
    <2> QED BY Zenon, <2>2, <2>3 DEF t
  <1>7. CASE e.res > 0 /\ left # <<>>
    <2>1. q = SubmitWriteOnce(Put(r, c, k1), c, full)
      BY <1>4, <1>7 DEF EAGAIN
    <2>2. left \in Seq(Nat)
      <3>1. k.output \in Seq(Nat) /\ e.res \in Int
        BY Zenon, <1>5 DEF Connection, Completion
      <3>2. e.res \in Nat BY <1>7, <3>1
      <3> QED BY Zenon, <3>1, <3>2, DropSeq DEF left
    <2>3. /\ k1 \in Connection /\ Cancellable(k1) /\ SameLife(k, k1)
          /\ OtherFlightSame("kWrite", k, k1)
      BY Zenon, <1>5, <2>2 DEF Connection, Cancellable, SameLife, OtherFlightSame
    <2> HIDE DEF k1
    <2> QED BY Zenon, <1>6, <2>1, <2>3 DEF q
  <1>8. CASE e.res > 0 /\ left = <<>> /\ k.pending # <<>>
    <2>1. q = SubmitWriteOnce(Put(r, c, k2), c, full)
      BY <1>4, <1>8 DEF EAGAIN
    <2>2. k.pending \in Seq(Nat) /\ <<>> \in Seq(Nat)
      BY <1>5 DEF Connection
    <2>3. /\ k2 \in Connection /\ Cancellable(k2) /\ SameLife(k, k2)
          /\ OtherFlightSame("kWrite", k, k2)
      BY Zenon, <1>5, <2>2 DEF Connection, Cancellable, SameLife, OtherFlightSame
    <2> HIDE DEF k2
    <2> QED BY Zenon, <1>6, <2>1, <2>3 DEF q
  <1>9. CASE e.res > 0 /\ left = <<>> /\ k.pending = <<>>
    <2>1. q = AllWritten(Put(r, c, k3), c, d, f, full)
      BY <1>4, <1>9 DEF EAGAIN
    <2>2. <<>> \in Seq(Nat) OBVIOUS
    <2>3. /\ k3 \in Connection /\ Cancellable(k3) /\ SameLife(k, k3)
          /\ OtherFlightSame("kWrite", k, k3)
      BY Zenon, <1>5, <2>2 DEF Connection, Cancellable, SameLife, OtherFlightSame
    <2> DEFINE t == Put(r, c, k3)
    <2> HIDE DEF k3
    <2>4. Good(t, m) /\ StaysAlive(s, t)
      BY Zenon, <1>6, <2>3
    <2> HIDE DEF t
    <2>5. Good(AllWritten(t, c, d, f, full), m)
      BY Zenon, <1>2, <2>4, <1>AllWrittenGood DEF StaysAlive
    <2> QED BY Zenon, <2>1, <2>5 DEF q, t
  <1>10. CASE e.res = EAGAIN
    <2>1. q = SubmitWriteOnce(Put(r, c, k), c, full)
      BY <1>4, <1>10 DEF EAGAIN
    <2>2. SameLife(k, k) /\ OtherFlightSame("kWrite", k, k)
      BY Zenon DEF SameLife, OtherFlightSame
    <2> QED BY Zenon, <1>5, <1>6, <2>1, <2>2 DEF q
  <1>11. CASE ~(e.res > 0) /\ e.res # EAGAIN
    <2>1. q = Put(r, c, k4)
      BY Zenon, <1>4, <1>11
    <2>2. /\ k4 \in Connection /\ Cancellable(k4) /\ SameLife(k, k4)
          /\ OtherFlightSame("kWrite", k, k4)
      BY Zenon, <1>5 DEF Connection, Cancellable, SameLife, OtherFlightSame
    <2> HIDE DEF k4
    <2> QED BY Zenon, <1>6, <2>1, <2>2 DEF q
  <1> QED BY Zenon, <1>7, <1>8, <1>9, <1>10, <1>11

-----------------------------------------------------------------------------
(***************************************************************************)
(* The steps.                                                              *)
(***************************************************************************)

\* The inductive invariant.
IInv == TypeOK /\ Good(Cur, connection_map)

\* The inductive invariant implies the safety properties.
LEMMA IInvImplies ==
  ASSUME IInv
  PROVE  CompletionTargetsLive /\ CallbackProtocol /\ Registered
  <1>1. Good(Cur, connection_map) /\ Cur.conn = conn /\ Cur.ops = ops
        /\ Cur.closed_fds = closed_fds
    BY Zenon DEF IInv, Cur
  <1>2. CompletionTargetsLive
    BY Zenon, <1>1 DEF Good, GoodOps, Owned, CompletionTargetsLive, Invoked
  <1>3. CallbackProtocol
    BY Zenon, <1>1 DEF Good, GoodReg, ToldRight, CallbackProtocol, OpenState, Open
  <1>4. Registered
    BY <1>1 DEF Good, GoodReg, Registered, Alive
  <1> QED BY Zenon, <1>2, <1>3, <1>4

\* A connection that does not exist is well typed.
LEMMA BlankType == Blank \in Connection
  <1>1. <<>> \in Seq(Nat) /\ <<>> \in Seq({"up", "down", "close"})
    OBVIOUS
  <1> QED BY Zenon, <1>1 DEF Blank, Connection, States, NoFd, NoAddr

\* The invariant holds when EventManager::Start begins.
LEMMA InitIInv ==
  ASSUME Init
  PROVE  IInv
  <1>1. Cur \in LoopState
    <2>1. conn \in [Conns -> Connection]
      BY Zenon, BlankType DEF Init
    <2> QED BY Zenon, <2>1 DEF Init, Cur, LoopState
  <1>2. TypeOK
    <2>1. net \in [Conns -> Socket]
      BY DEF Init, NewSocket, Socket
    <2>2. connection_map \in [Fds -> Conns \cup {NoConn}]
      BY Zenon DEF Init
    <2>3. cq \in Seq(Completion) BY DEF Init
    <2>4. phase \in Phases /\ should_quit \in BOOLEAN /\ faults \in Nat
      BY Zenon DEF Init, Phases
    <2> QED BY Zenon, <1>1, <2>1, <2>2, <2>3, <2>4 DEF TypeOK
  <1>3. \A c \in Conns : conn[c] = Blank
    BY Zenon DEF Init
  <1>4. /\ Cur.conn = conn /\ Cur.ops = {} /\ Cur.closed_fds = {}
        /\ Cur.next_key # 0
    BY DEF Init, Cur
  <1>5. /\ Cancellable(Blank) /\ ToldRight(Blank) /\ ~IsAlive(Blank)
        /\ Blank.state # "kConnecting"
    BY Zenon DEF Blank, Cancellable, ToldRight, IsAlive, OpenState
  <1>6. GoodOps(Cur)
    BY Zenon, <1>1, <1>3, <1>4, <1>5 DEF GoodOps
  <1>7. GoodReg(Cur, connection_map)
    BY Zenon, <1>3, <1>4, <1>5 DEF GoodReg, Init
  <1> QED BY Zenon, <1>2, <1>6, <1>7 DEF IInv, Good

\* A handler ends in the loop state it computes.
LEMMA BecomeCur ==
  ASSUME NEW s \in LoopState, Become(s)
  PROVE  Cur' = s
  <1>1. s = [conn |-> s.conn, closed_fds |-> s.closed_fds,
             delayed |-> s.delayed, ops |-> s.ops, next_key |-> s.next_key,
             ring |-> s.ring]
    BY Zenon DEF LoopState
  <1> QED BY Zenon, <1>1 DEF Become, Cur

\* The invariant does not depend on the ring or the time tasks, and survives
\* the removal of operations.
LEMMA SameGood ==
  ASSUME NEW s, NEW m, Good(s, m), NEW t \in LoopState, t.conn = s.conn,
         t.closed_fds = s.closed_fds, t.ops \subseteq s.ops,
         t.next_key = s.next_key
  PROVE  Good(t, m)
  <1>1. GoodOps(t)
    BY DEF Good, GoodOps, Owned
  <1>2. Frame(s, t)
    BY Zenon DEF Frame, SameLife
  <1> QED BY Zenon, <1>1, <1>2, FrameGood

-----------------------------------------------------------------------------
(***************************************************************************)
(* The loop's steps that run a handler.                                    *)
(***************************************************************************)

\* Taking a completion off the queue.
LEMMA TakeCqe ==
  ASSUME IInv, NEW o, NextCqe(o), cq' = Tail(cq)
  PROVE  Head(cq) \in Completion /\ cq' \in Seq(Completion)
  <1>1. cq \in Seq(Completion) /\ cq # <<>>
    BY Zenon DEF IInv, TypeOK, NextCqe
  <1> QED BY Zenon, <1>1, SeqHeadTail

\* The user calls functions of live connections only.
LEMMA CallableAlive ==
  ASSUME NEW d \in Conns, NEW f, MayCall(d, f, Alive)
  PROVE  f # NoCall => IsAlive(Cur.conn[d])
  BY Zenon DEF MayCall, Alive, Cur

-----------------------------------------------------------------------------
(***************************************************************************)
(* A new connection.                                                       *)
(***************************************************************************)

\* A connection that has sent and received nothing.
Unused(k) ==
  /\ k.output = <<>> /\ k.pending = <<>> /\ k.input = <<>>
  /\ k.accepted = 0
  /\ ~k.read_in_flight /\ k.read_cancel_key = 0
  /\ ~k.write_in_flight /\ k.write_cancel_key = 0
  /\ ~k.read_faulted /\ ~k.write_faulted

\* What EventManager::InsertNewConnection does: a new connection k, then the
\* callback and the first read.
LEMMA InsertedIs ==
  \A c \in Conns, a \in Addrs, d \in Conns, f \in Calls, full \in BOOLEAN :
    IInv /\ InsertNewConnection(c, a, d, f, full) =>
      \E k \in Connection :
        LET t == Put(Cur, c, k)
        IN /\ Unused(k) /\ k.state = "kConnected"
           /\ Good(t, connection_map')
           /\ connection_map' \in [Fds -> Conns \cup {NoConn}]
           /\ IsAlive(t.conn[c])
           /\ f # NoCall => IsAlive(t.conn[d])
           /\ Handled(SubmitReadOnce(React(t, d, f, full), c, full), full)
  \* A connection that did not exist takes a descriptor no live one has.
  <1>NewConnectionGood.
      ASSUME NEW s, NEW m, Good(s, m), NEW c \in Conns, s.conn[c].state = "None",
             NEW fd \in Fds, \A b \in Conns : IsAlive(s.conn[b]) => s.conn[b].fd # fd,
             NEW k \in Connection, k.state = "kConnected", k.fd = fd,
             k.told = <<"up">>, Cancellable(k)
      PROVE  Good(Put(s, c, k), [m EXCEPT ![fd] = c])
    <2> USE <1>NewConnectionGood
    <2> DEFINE t == Put(s, c, k)
               n == [m EXCEPT ![fd] = c]
    <2>1. s \in LoopState /\ m \in [Fds -> Conns \cup {NoConn}]
      BY Zenon DEF Good, GoodOps, GoodReg
    <2>2. /\ t \in LoopState /\ t.conn[c] = k /\ t.ops = s.ops
          /\ t.next_key = s.next_key /\ t.closed_fds = s.closed_fds
          /\ \A d \in Conns \ {c} : t.conn[d] = s.conn[d]
      BY Zenon, <2>1 DEF Put, LoopState
    <2>3. /\ n \in [Fds -> Conns \cup {NoConn}] /\ n[fd] = c
          /\ \A f \in Fds \ {fd} : n[f] = m[f]
      BY Zenon, <2>1
    <2>4. ~IsAlive(s.conn[c]) /\ c # NoConn
      BY Zenon, BoundsAssumption DEF IsAlive, NoConn
    <2>5. m[fd] = NoConn /\ fd \notin s.closed_fds
      <3>1. m[fd] \in Conns \cup {NoConn}
        BY Zenon, <2>1
      <3>2. m[fd] # NoConn => IsAlive(s.conn[m[fd]]) /\ s.conn[m[fd]].fd = fd
        BY Zenon DEF Good, GoodReg
      <3>3. m[fd] = NoConn
        BY Zenon, <3>1, <3>2
      <3> QED BY Zenon, <3>3 DEF Good, GoodReg
    <2> HIDE DEF t, n
    <2>6. GoodOps(t)
      <3>1. ASSUME NEW d \in Conns PROVE Cancellable(t.conn[d])
        <4>1. CASE d = c BY Zenon, <2>2, <4>1
        <4>2. CASE d # c
          <5>1. t.conn[d] = s.conn[d] BY Zenon, <2>2, <4>2
          <5> QED BY Zenon, <5>1 DEF Good, GoodOps
        <4> QED BY Zenon, <4>1, <4>2
      <3>2. ASSUME NEW o \in t.ops, o.completion PROVE Owned(t, o)
        <4>1. o \in s.ops /\ Owned(s, o) /\ o.self \in Conns
          BY Zenon, <2>1, <2>2, <3>2 DEF Good, GoodOps, LoopState, Op
        <4>2. o.self # c
          BY Zenon, <2>4, <4>1 DEF Owned
        <4>3. t.conn[o.self] = s.conn[o.self] BY Zenon, <2>2, <4>1, <4>2
        <4> QED BY Zenon, <4>1, <4>3 DEF Owned
      <3> QED BY Zenon, <2>2, <3>1, <3>2 DEF Good, GoodOps
    <2>7. GoodReg(t, n)
      <3>1. ASSUME NEW d \in Conns
            PROVE  /\ t.conn[d].state # "kConnecting" /\ ToldRight(t.conn[d])
                   /\ IsAlive(t.conn[d]) => /\ t.conn[d].fd \in Fds
                                            /\ n[t.conn[d].fd] = d
        <4>1. CASE d = c
          BY Zenon, <2>2, <2>3, <4>1 DEF ToldRight, OpenState
        <4>2. CASE d # c
          <5>1. t.conn[d] = s.conn[d] BY Zenon, <2>2, <4>2
          <5>2. /\ s.conn[d].state # "kConnecting" /\ ToldRight(s.conn[d])
                /\ IsAlive(s.conn[d]) => /\ s.conn[d].fd \in Fds
                                         /\ m[s.conn[d].fd] = d
                                         /\ s.conn[d].fd # fd
            BY Zenon DEF Good, GoodReg
          <5> QED BY Zenon, <2>3, <5>1, <5>2
        <4> QED BY Zenon, <4>1, <4>2
      <3>2. ASSUME NEW f \in Fds, n[f] # NoConn
            PROVE  /\ IsAlive(t.conn[n[f]])
                   /\ t.conn[n[f]].fd = f
                   /\ (f \in t.closed_fds) <=> IsDisconnected(t.conn[n[f]])
        <4>1. CASE f = fd
          BY Zenon, <2>2, <2>3, <2>5, <4>1 DEF IsAlive, IsDisconnected
        <4>2. CASE f # fd
          <5>1. /\ n[f] = m[f] /\ m[f] \in Conns
                /\ IsAlive(s.conn[m[f]]) /\ s.conn[m[f]].fd = f
                /\ (f \in s.closed_fds) <=> IsDisconnected(s.conn[m[f]])
            <6>1. n[f] = m[f] /\ m[f] \in Conns \cup {NoConn}
              BY Zenon, <2>1, <2>3, <4>2
            <6> QED
              BY Zenon, <3>2, <6>1 DEF Good, GoodReg
          <5>2. m[f] # c BY Zenon, <2>4, <5>1
          <5>3. t.conn[n[f]] = s.conn[m[f]] BY Zenon, <2>2, <5>1, <5>2
          <5> QED BY Zenon, <2>2, <5>1, <5>3
        <4> QED BY Zenon, <4>1, <4>2
      <3>3. ASSUME NEW f \in t.closed_fds PROVE n[f] # NoConn
        <4>1. f \in s.closed_fds /\ f \in Fds /\ m[f] # NoConn
          BY Zenon, <2>1, <2>2, <3>3 DEF Good, GoodReg, LoopState
        <4> QED BY Zenon, <2>3, <2>5, <4>1
      <3> QED BY Zenon, <2>3, <3>1, <3>2, <3>3 DEF GoodReg
    <2> QED BY Zenon, <2>6, <2>7 DEF Good, t, n
  <1> SUFFICES ASSUME IInv, NEW c \in Conns, NEW a \in Addrs, NEW d \in Conns,
                    NEW f \in Calls, NEW full \in BOOLEAN,
                    InsertNewConnection(c, a, d, f, full)
             PROVE  \E k \in Connection :
                      LET t == Put(Cur, c, k)
                      IN /\ Unused(k) /\ k.state = "kConnected"
                         /\ Good(t, connection_map')
                         /\ connection_map' \in [Fds -> Conns \cup {NoConn}]
                         /\ IsAlive(t.conn[c])
                         /\ f # NoCall => IsAlive(t.conn[d])
                         /\ Handled(SubmitReadOnce(React(t, d, f, full), c, full), full)
    OBVIOUS
  <1>1. PICK fd \in FreeFds :
          /\ Handled(OnEstablishing(Construct(c, fd, a), c, d, f, full), full)
          /\ connection_map' = [connection_map EXCEPT ![fd] = c]
    BY Zenon DEF InsertNewConnection
  <1> DEFINE k0 == [Blank EXCEPT !.state = "kConnecting", !.fd = fd, !.addr = a]
             k == [k0 EXCEPT !.state = "kConnected", !.told = Append(@, "up")]
             t == Put(Cur, c, k)
             n == [connection_map EXCEPT ![fd] = c]
             s == SubmitReadOnce(React(t, d, f, full), c, full)
  <1>2. Cur \in LoopState /\ Good(Cur, connection_map) /\ Cur.conn = conn
        /\ connection_map \in [Fds -> Conns \cup {NoConn}]
    BY Zenon DEF IInv, TypeOK, Cur
  <1>3. /\ fd \in Fds
        /\ \A b \in Conns : IsAlive(Cur.conn[b]) => Cur.conn[b].fd # fd
    BY Zenon, <1>2 DEF FreeFds, Alive
  <1>4. k0 \in Connection /\ k0.told = <<>>
    BY Zenon, <1>3, BlankType DEF Connection, Blank, States
  <1>5. /\ k \in Connection /\ k.state = "kConnected" /\ k.fd = fd
        /\ k.told = <<"up">> /\ Cancellable(k) /\ Unused(k)
    <2>1. Append(<<>>, "up") = <<"up">> /\ <<"up">> \in Seq({"up", "down", "close"})
      OBVIOUS
    <2>2. ~k0.read_in_flight /\ ~k0.write_in_flight /\ k0.fd = fd
      BY Zenon DEF Blank
    <2>0. Unused(k0)
      BY Zenon DEF Blank, Unused
    <2> HIDE DEF k0
    <2>3. k.told = <<"up">> /\ k.state = "kConnected" /\ k.fd = fd
      BY Zenon, <1>4, <2>1, <2>2 DEF Connection
    <2>4. k = [k0 EXCEPT !.state = "kConnected", !.told = <<"up">>]
      BY Zenon, <1>4, <2>1 DEF Connection
    <2>5. k \in Connection
      BY Zenon, <1>4, <2>1, <2>4 DEF Connection, States
    <2>6. Cancellable(k)
      BY Zenon, <1>4, <2>2 DEF Connection, Cancellable
    <2>7. Unused(k)
      BY Zenon, <1>4, <2>0 DEF Connection, Unused
    <2> QED BY Zenon, <2>3, <2>5, <2>6, <2>7
  <1>6. OnEstablishing(Construct(c, fd, a), c, d, f, full) = s
    <2>1. Construct(c, fd, a) = Put(Cur, c, k0) BY Zenon DEF Construct
    <2> HIDE DEF k0
    <2>2. /\ Put(Cur, c, k0).conn[c] = k0
          /\ \A l : Put(Put(Cur, c, k0), c, l) = Put(Cur, c, l)
      BY Zenon, <1>2 DEF Put, LoopState
    <2> QED BY Zenon, <2>1, <2>2 DEF OnEstablishing
  <1>7. Cur.conn[c].state = "None" BY Zenon, <1>2 DEF InsertNewConnection
  <1> HIDE DEF k0, k
  <1>8. Good(t, n)
    BY Zenon, <1>2, <1>3, <1>5, <1>7, <1>NewConnectionGood
  <1>9. t.conn[c] = k /\ \A b \in Conns \ {c} : t.conn[b] = conn[b]
    BY Zenon, <1>2 DEF Put, LoopState
  <1>10. IsAlive(t.conn[c]) BY Zenon, <1>5, <1>9 DEF IsAlive
  <1>11. f # NoCall => IsAlive(t.conn[d])
    <2>1. f # NoCall => d \in Alive \cup {c}
      BY Zenon DEF InsertNewConnection, MayCall
    <2> QED BY Zenon, <1>9, <1>10, <2>1 DEF Alive
  <1> HIDE DEF t, n
  <1>12. Handled(s, full) /\ connection_map' = n
    BY Zenon, <1>1, <1>6 DEF n
  <1> HIDE DEF s
  <1>13. connection_map' \in [Fds -> Conns \cup {NoConn}]
    BY Zenon, <1>2, <1>3, <1>12 DEF n
  <1> QED BY Zenon, <1>5, <1>8, <1>10, <1>11, <1>12, <1>13 DEF s, t

-----------------------------------------------------------------------------
\* Every step of the system preserves the invariant.
LEMMA NextIInv ==
  IInv /\ [Next]_vars =>
    IInv'
  \* A step that runs a handler on the loop state.
  <1>HandledIInv.
      ASSUME IInv, NEW s, NEW full \in BOOLEAN, Handled(s, full),
             connection_map' \in [Fds -> Conns \cup {NoConn}],
             Good(s, connection_map'), cq' \in Seq(Completion),
             UNCHANGED <<net, phase, should_quit>>
      PROVE  IInv'
    <2> USE <1>HandledIInv
    <2>1. s \in LoopState BY Zenon DEF Good, GoodOps
    <2>2. Cur' = s
      BY Zenon, <2>1, BecomeCur DEF Handled
    <2>3. faults' \in Nat
      BY DEF Handled, CountFault, IInv, TypeOK
    <2>4. TypeOK'
      BY Zenon, <2>1, <2>2, <2>3 DEF IInv, TypeOK
    <2>5. Good(Cur, connection_map)'
      BY Zenon, <2>2
    <2> QED BY Zenon, <2>4, <2>5 DEF IInv
  \* A read completion preserves the invariant.
  <1>ReadCompletesIInv.
      ASSUME IInv, NEW o \in ops, NEW d \in Conns, NEW f \in Calls,
             NEW full \in BOOLEAN, ReadCompletes(o, d, f, full)
      PROVE  IInv'
    <2> USE <1>ReadCompletesIInv
    <2> DEFINE s == OnReadComplete([Cur EXCEPT !.ops = @ \ {o}], o.self, Head(cq),
                                   d, f, full)
    <2>1. Head(cq) \in Completion /\ cq' \in Seq(Completion)
      BY Zenon, TakeCqe DEF ReadCompletes
    <2>2. f # NoCall => IsAlive(Cur.conn[d])
      BY Zenon, CallableAlive DEF ReadCompletes
    <2>3. /\ o \in Cur.ops /\ o.completion /\ o.type = "kRead"
          /\ Good(Cur, connection_map)
      BY Zenon DEF ReadCompletes, Invoked, IInv, Cur
    <2>4. Good(s, connection_map)
      BY Zenon, <2>1, <2>2, <2>3, OnReadCompleteGood
    <2>5. /\ Handled(s, full) /\ connection_map' = connection_map
          /\ UNCHANGED <<net, phase, should_quit>>
      BY Zenon DEF ReadCompletes, WithoutOp
    <2> HIDE DEF s
    <2>6. /\ connection_map' \in [Fds -> Conns \cup {NoConn}]
          /\ Good(s, connection_map')
      BY Zenon, <2>4, <2>5 DEF IInv, TypeOK
    <2> QED BY Zenon, <2>1, <2>5, <2>6, <1>HandledIInv
  \* A write completion preserves the invariant.
  <1>WriteCompletesIInv.
      ASSUME IInv, NEW o \in ops, NEW d \in Conns, NEW f \in Calls,
             NEW full \in BOOLEAN, WriteCompletes(o, d, f, full)
      PROVE  IInv'
    <2> USE <1>WriteCompletesIInv
    <2> DEFINE s == OnWriteComplete([Cur EXCEPT !.ops = @ \ {o}], o.self, Head(cq),
                                    d, f, full)
    <2>1. Head(cq) \in Completion /\ cq' \in Seq(Completion)
      BY Zenon, TakeCqe DEF WriteCompletes
    <2>2. f # NoCall => IsAlive(Cur.conn[d])
      BY Zenon, CallableAlive DEF WriteCompletes
    <2>3. /\ o \in Cur.ops /\ o.completion /\ o.type = "kWrite"
          /\ Good(Cur, connection_map)
      BY Zenon DEF WriteCompletes, Invoked, IInv, Cur
    <2>4. Good(s, connection_map)
      BY Zenon, <2>1, <2>2, <2>3, OnWriteCompleteGood
    <2>5. /\ Handled(s, full) /\ connection_map' = connection_map
          /\ UNCHANGED <<net, phase, should_quit>>
      BY Zenon DEF WriteCompletes, WithoutOp
    <2> HIDE DEF s
    <2>6. /\ connection_map' \in [Fds -> Conns \cup {NoConn}]
          /\ Good(s, connection_map')
      BY Zenon, <2>4, <2>5 DEF IInv, TypeOK
    <2> QED BY Zenon, <2>1, <2>5, <2>6, <1>HandledIInv
  \* A completion nobody waits for preserves the invariant.
  <1>StaleCompletionIInv.
      ASSUME IInv, NEW o \in ops, StaleCompletion(o)
      PROVE  IInv'
    <2> USE <1>StaleCompletionIInv
    <2> DEFINE s == WithoutOp(o)
    <2>1. cq' \in Seq(Completion)
      BY Zenon, TakeCqe DEF StaleCompletion
    <2>2. Cur \in LoopState /\ Good(Cur, connection_map) BY Zenon DEF IInv, TypeOK
    <2>3. /\ s \in LoopState /\ s.conn = Cur.conn /\ s.ops \subseteq Cur.ops
          /\ s.closed_fds = Cur.closed_fds /\ s.next_key = Cur.next_key
      BY Zenon, <2>2 DEF WithoutOp, LoopState
    <2>4. Good(s, connection_map)
      BY Zenon, <2>2, <2>3, SameGood
    <2>5. Become(s) BY Zenon DEF StaleCompletion
    <2> HIDE DEF s
    <2>6. Cur' = s BY Zenon, <2>3, <2>5, BecomeCur
    <2>7. UNCHANGED <<connection_map, net, phase, should_quit, faults>>
      BY Zenon DEF StaleCompletion
    <2>8. TypeOK'
      BY Zenon, <2>1, <2>3, <2>6, <2>7 DEF IInv, TypeOK
    <2>9. Good(Cur, connection_map)'
      BY Zenon, <2>4, <2>6, <2>7
    <2> QED BY Zenon, <2>8, <2>9 DEF IInv
  \* A handler run outside Poll: the other variables do not change.
  <1>TaskIInv.
      ASSUME IInv, NEW s, NEW full \in BOOLEAN, Handled(s, full),
             Good(s, connection_map),
             UNCHANGED <<connection_map, cq, net, phase, should_quit>>
      PROVE  IInv'
    <2> USE <1>TaskIInv
    <2>1. /\ connection_map' \in [Fds -> Conns \cup {NoConn}]
          /\ Good(s, connection_map') /\ cq' \in Seq(Completion)
      BY Zenon DEF IInv, TypeOK
    <2> QED BY Zenon, <2>1, <1>HandledIInv
  \* A time task of the user preserves the invariant.
  <1>UserTaskIInv.
      ASSUME IInv, NEW d \in Conns, NEW f \in Calls, NEW full \in BOOLEAN,
             UserTask(d, f, full)
      PROVE  IInv'
    <2> USE <1>UserTaskIInv
    <2> DEFINE s == Call(Cur, d, f, full)
    <2>1. IsAlive(Cur.conn[d])
      BY Zenon, CallableAlive DEF UserTask
    <2>2. Good(s, connection_map)
      BY Zenon, <2>1, CallGood, CallsType DEF IInv
    <2>3. /\ Handled(s, full)
          /\ UNCHANGED <<connection_map, cq, net, phase, should_quit>>
      BY Zenon DEF UserTask
    <2> HIDE DEF s
    <2> QED BY Zenon, <2>2, <2>3, <1>TaskIInv
  \* The task of ForceCloseAfter preserves the invariant, whichever connection is
  \* at its address.
  <1>DelayedCloseIInv.
      ASSUME IInv, NEW x \in delayed, NEW full \in BOOLEAN, DelayedClose(x, full)
      PROVE  IInv'
    <2> USE <1>DelayedCloseIInv
    <2> DEFINE s == [Cur EXCEPT !.delayed = @ \ {x}]
               there == {c \in Alive : conn[c].addr = x[2]}
    <2>1. Cur \in LoopState /\ Good(Cur, connection_map) BY Zenon DEF IInv, TypeOK
    <2>2. /\ s \in LoopState /\ s.conn = Cur.conn /\ s.ops \subseteq Cur.ops
          /\ s.closed_fds = Cur.closed_fds /\ s.next_key = Cur.next_key
      BY Zenon, <2>1 DEF LoopState
    <2>3. Good(s, connection_map)
      BY Zenon, <2>1, <2>2, SameGood
    <2>4. ASSUME NEW c \in there
          PROVE  c \in Conns /\ IsAlive(s.conn[c])
      BY Zenon, <2>2, <2>4 DEF Alive, Cur
    <2>5. /\ \/ Handled(s, full)
             \/ \E c \in there : Handled(ForceClose(s, c, full), full)
          /\ UNCHANGED <<connection_map, cq, net, phase, should_quit>>
      BY Zenon DEF DelayedClose
    <2> HIDE DEF s, there
    <2>6. CASE Handled(s, full)
      BY Zenon, <2>3, <2>5, <2>6, <1>TaskIInv
    <2>7. CASE \E c \in there : Handled(ForceClose(s, c, full), full)
      <3>1. PICK c \in there : Handled(ForceClose(s, c, full), full)
        BY Zenon, <2>7
      <3>2. Good(ForceClose(s, c, full), connection_map)
        BY Zenon, <2>3, <2>4, DoClosingGood DEF ForceClose
      <3> QED BY Zenon, <2>5, <3>1, <3>2, <1>TaskIInv
    <2> QED BY Zenon, <2>5, <2>6, <2>7
  \* The forced close of a connection after Quit preserves the invariant.
  <1>StopConnectionIInv.
      ASSUME IInv, NEW c \in Conns, NEW full \in BOOLEAN, StopConnection(c, full)
      PROVE  IInv'
    <2> USE <1>StopConnectionIInv
    <2>1. IsAlive(Cur.conn[c]) BY Zenon DEF StopConnection, Alive, Cur
    <2>2. Good(ForceClose(Cur, c, full), connection_map)
      BY Zenon, <2>1, DoClosingGood DEF ForceClose, IInv
    <2> QED BY Zenon, <2>2, <1>TaskIInv DEF StopConnection
  \* EventManager::InsertNewConnection preserves the invariant.
  <1>InsertNewConnectionIInv.
      ASSUME IInv, NEW c \in Conns, NEW a \in Addrs, NEW d \in Conns,
             NEW f \in Calls, NEW full \in BOOLEAN,
             InsertNewConnection(c, a, d, f, full)
      PROVE  IInv'
    <2> USE <1>InsertNewConnectionIInv
    <2> DEFINE Inserted(k) ==
                 LET t == Put(Cur, c, k)
                 IN /\ Good(t, connection_map')
                    /\ connection_map' \in [Fds -> Conns \cup {NoConn}]
                    /\ IsAlive(t.conn[c])
                    /\ f # NoCall => IsAlive(t.conn[d])
                    /\ Handled(SubmitReadOnce(React(t, d, f, full), c, full), full)
    <2>1. PICK k \in Connection : Inserted(k)
      BY Zenon, InsertedIs
    <2> DEFINE t == Put(Cur, c, k)
               s == SubmitReadOnce(React(t, d, f, full), c, full)
    <2>2. /\ Good(t, connection_map') /\ IsAlive(t.conn[c])
          /\ f # NoCall => IsAlive(t.conn[d])
          /\ Handled(s, full)
          /\ connection_map' \in [Fds -> Conns \cup {NoConn}]
      BY Zenon, <2>1
    <2> HIDE DEF t
    <2>3. Good(s, connection_map')
      BY Zenon, <2>2, ReactThenRead
    <2> HIDE DEF s
    <2>4. cq' \in Seq(Completion) /\ UNCHANGED <<net, phase, should_quit>>
      BY Zenon DEF InsertNewConnection, IInv, TypeOK
    <2> QED BY Zenon, <2>2, <2>3, <2>4, <1>HandledIInv
  \* EventManager::DestroyClosedConnections preserves the invariant: what it
  \* destroys leaves the map, and its operations lose their pointers.
  <1>DestroyIInv.
      ASSUME IInv, DestroyClosedConnections, phase' \in Phases
      PROVE  IInv'
    <2> USE <1>DestroyIInv
    <2> DEFINE kept == {f \in Fds : Kept(f)}
               erased == {f \in Fds : Doomed(f)} \ kept
               waiting == {connection_map[f] : f \in kept}
               dead == {connection_map[f] : f \in erased}
               keys == {conn[c].read_cancel_key :
                          c \in {b \in dead : conn[b].read_in_flight}}
                       \cup {conn[c].write_cancel_key :
                               c \in {b \in dead : conn[b].write_in_flight}}
    <2>1. /\ conn' = [c \in Conns |->
               CASE c \in waiting -> BumpPendingIoWait(conn[c])
                 [] c \in dead -> [Blank EXCEPT !.state = "Gone",
                                                !.told = conn[c].told]
                 [] OTHER -> conn[c]]
          /\ connection_map' = [f \in Fds |-> IF f \in erased THEN NoConn
                                              ELSE connection_map[f]]
          /\ closed_fds' = kept
          /\ ops' = {IF o.key \in keys
                     THEN [o EXCEPT !.eventer = NoAddr, !.completion = FALSE]
                     ELSE o : o \in ops}
          /\ ring' = {IF r.key \in keys THEN [r EXCEPT !.cancel = TRUE]
                      ELSE r : r \in ring}
          /\ net' = [c \in Conns |-> IF c \in dead THEN NewSocket ELSE net[c]]
          /\ UNCHANGED <<delayed, next_key, cq, should_quit, faults>>
      BY Zenon DEF DestroyClosedConnections
    <2>2. /\ conn \in [Conns -> Connection] /\ closed_fds \in SUBSET Fds
          /\ delayed \in SUBSET (Conns \X (Addrs \cup {NoAddr}))
          /\ ops \in SUBSET Op /\ next_key \in Nat /\ ring \in SUBSET Request
          /\ connection_map \in [Fds -> Conns \cup {NoConn}]
      BY Zenon DEF IInv, TypeOK, Cur, LoopState
    \* The invariant, on the variables.
    <2>3. /\ next_key # 0
          /\ \A c \in Conns : Cancellable(conn[c]) /\ ToldRight(conn[c])
                              /\ conn[c].state # "kConnecting"
          /\ \A c \in Conns : IsAlive(conn[c]) =>
               conn[c].fd \in Fds /\ connection_map[conn[c].fd] = c
          /\ \A f \in Fds : connection_map[f] # NoConn =>
               /\ IsAlive(conn[connection_map[f]])
               /\ conn[connection_map[f]].fd = f
               /\ (f \in closed_fds) <=> IsDisconnected(conn[connection_map[f]])
      BY Zenon DEF IInv, Good, GoodOps, GoodReg, Cur
    <2>4. ASSUME NEW o \in ops, o.completion
          PROVE  LET k == conn[o.self]
                 IN /\ o.self \in Conns /\ o.type \in {"kRead", "kWrite"}
                    /\ IsAlive(k)
                    /\ k.addr = o.eventer
                    /\ o.type = "kRead" => k.read_in_flight /\ k.read_cancel_key = o.key
                    /\ o.type = "kWrite" => k.write_in_flight /\ k.write_cancel_key = o.key
      <3>1. Owned(Cur, o) BY Zenon, <2>4 DEF IInv, Good, GoodOps, Cur
      <3> QED BY Zenon, <2>2, <3>1 DEF Owned, Cur, Op
    <2>5. /\ \A f \in kept : /\ connection_map[f] \in Conns
                             /\ connection_map[f] # NoConn
                             /\ IsDisconnected(conn[connection_map[f]])
                             /\ conn[connection_map[f]].fd = f
                             /\ f \in Fds
          /\ \A f \in erased : /\ connection_map[f] \in Conns
                               /\ IsDisconnected(conn[connection_map[f]])
                               /\ conn[connection_map[f]].fd = f
                               /\ f \in Fds /\ f \notin kept
      BY <2>2, <2>3 DEF Kept, Doomed
    <2>6. /\ waiting \subseteq Conns /\ dead \subseteq Conns
          /\ \A c \in waiting : IsDisconnected(conn[c]) /\ conn[c].fd \in kept
          /\ \A c \in dead : IsDisconnected(conn[c]) /\ conn[c].fd \in erased
      BY <2>5
    \* What becomes of a connection.
    <2>7. ASSUME NEW c \in Conns
          PROVE  /\ conn'[c] \in Connection /\ Cancellable(conn'[c])
                 /\ ToldRight(conn'[c]) /\ conn'[c].state # "kConnecting"
                 /\ c \in dead => ~IsAlive(conn'[c])
                 /\ c \notin dead =>
                      /\ conn'[c].state = conn[c].state
                      /\ conn'[c].fd = conn[c].fd /\ conn'[c].addr = conn[c].addr
                      /\ conn'[c].read_in_flight = conn[c].read_in_flight
                      /\ conn'[c].read_cancel_key = conn[c].read_cancel_key
                      /\ conn'[c].write_in_flight = conn[c].write_in_flight
                      /\ conn'[c].write_cancel_key = conn[c].write_cancel_key
      <3> DEFINE k == conn[c]
      <3>1. /\ k \in Connection /\ Cancellable(k) /\ ToldRight(k)
            /\ k.state # "kConnecting"
        BY Zenon, <2>2, <2>3
      <3>2. CASE c \in waiting
        <4>1. c \notin dead BY Zenon, <2>5, <2>6, <3>2
        <4> DEFINE n == k.retries + 1
                   l == [k EXCEPT !.retries = n]
        <4>2. conn'[c] = l
          <5> HIDE DEF waiting, dead, keys, erased, kept
          <5>1. conn'[c] = BumpPendingIoWait(conn[c]) BY Zenon, <2>1, <3>2, <4>1
          <5> QED BY Zenon, <5>1 DEF BumpPendingIoWait
        <4> HIDE DEF k
        <4>3. /\ l \in Connection /\ l.state = k.state /\ l.told = k.told
              /\ l.fd = k.fd /\ l.addr = k.addr
              /\ l.read_in_flight = k.read_in_flight
              /\ l.read_cancel_key = k.read_cancel_key
              /\ l.write_in_flight = k.write_in_flight
              /\ l.write_cancel_key = k.write_cancel_key
          <5>1. k \in Connection BY Zenon, <3>1
          <5>2. n \in Nat BY <5>1 DEF Connection
          <5> HIDE DEF n
          <5> QED BY Zenon, <5>1, <5>2 DEF Connection
        <4> HIDE DEF l
        <4>4. Cancellable(l) /\ ToldRight(l)
          BY Zenon, <3>1, <4>3 DEF Cancellable, ToldRight, OpenState
        <4> QED BY Zenon, <3>1, <4>1, <4>2, <4>3, <4>4 DEF k
      <3>3. CASE c \in dead
        <4>1. c \notin waiting BY Zenon, <2>5, <2>6, <3>3
        <4>2. conn'[c] = [Blank EXCEPT !.state = "Gone", !.told = k.told]
          BY Zenon, <2>1, <3>3, <4>1
        <4>3. k.told = <<"up", "down", "close">>
          BY Zenon, <2>6, <3>1, <3>3 DEF ToldRight, OpenState, IsDisconnected
        <4>4. k.told \in Seq({"up", "down", "close"}) BY Zenon, <3>1 DEF Connection
        <4> DEFINE l == [Blank EXCEPT !.state = "Gone", !.told = k.told]
        <4> HIDE DEF k
        <4>5. /\ l.state = "Gone" /\ l.told = k.told
              /\ ~l.read_in_flight /\ ~l.write_in_flight
          BY Zenon DEF Blank
        <4>6. l \in Connection
          <5> HIDE DEF Blank
          <5> QED BY Zenon, <4>4, BlankType DEF Connection, States
        <4> HIDE DEF l
        <4>7. Cancellable(l) /\ ToldRight(l) /\ ~IsAlive(l)
          BY Zenon, <4>3, <4>5 DEF Cancellable, ToldRight, OpenState, IsAlive
        <4>8. conn'[c] = l BY Zenon, <4>2 DEF l
        <4> QED BY Zenon, <3>3, <4>5, <4>6, <4>7, <4>8
      <3>4. CASE c \notin waiting /\ c \notin dead
        <4>1. conn'[c] = conn[c] BY Zenon, <2>1, <3>4
        <4> HIDE DEF dead, waiting
        <4> QED BY <3>1, <3>4, <4>1
      <3> QED BY Zenon, <3>2, <3>3, <3>4
    <2>8. Cur' \in LoopState
      <3>1. conn' \in [Conns -> Connection] BY Zenon, <2>1, <2>7
      <3>2. ops' \in SUBSET Op
        <4>1. ASSUME NEW o \in ops
              PROVE  /\ o \in Op
                     /\ [o EXCEPT !.eventer = NoAddr, !.completion = FALSE] \in Op
          BY Zenon, <2>2 DEF Op
        <4> HIDE DEF keys
        <4> QED BY Zenon, <2>1, <4>1
      <3>3. ring' \in SUBSET Request
        <4>1. ASSUME NEW r \in ring
              PROVE  r \in Request /\ [r EXCEPT !.cancel = TRUE] \in Request
          BY Zenon, <2>2 DEF Request
        <4> HIDE DEF keys
        <4> QED BY Zenon, <2>1, <4>1
      <3>4. closed_fds' \in SUBSET Fds BY Zenon, <2>1
      <3> QED BY Zenon, <2>1, <2>2, <3>1, <3>2, <3>3, <3>4 DEF LoopState, Cur
    \* The operations of a destroyed connection have lost their pointers.
    <2>9. ASSUME NEW p \in ops', p.completion PROVE Owned(Cur, p)'
      <3>1. p \in ops /\ p.key \notin keys
        <4>1. PICK o \in ops :
                p = IF o.key \in keys
                    THEN [o EXCEPT !.eventer = NoAddr, !.completion = FALSE]
                    ELSE o
          BY Zenon, <2>1
        <4>2. ~[o EXCEPT !.eventer = NoAddr, !.completion = FALSE].completion
          BY Zenon, <2>2 DEF Op
        <4> HIDE DEF keys
        <4> QED BY Zenon, <2>9, <4>1, <4>2
      <3> DEFINE c == p.self
                 k == conn[c]
      <3>2. /\ c \in Conns /\ p.type \in {"kRead", "kWrite"} /\ IsAlive(k)
            /\ k.addr = p.eventer
            /\ p.type = "kRead" => k.read_in_flight /\ k.read_cancel_key = p.key
            /\ p.type = "kWrite" => k.write_in_flight /\ k.write_cancel_key = p.key
        BY Zenon, <2>4, <2>9, <3>1
      <3>3. c \notin dead
        BY Zenon, <3>1, <3>2
      <3>4. /\ conn'[c].state = k.state /\ conn'[c].addr = k.addr
            /\ conn'[c].read_in_flight = k.read_in_flight
            /\ conn'[c].read_cancel_key = k.read_cancel_key
            /\ conn'[c].write_in_flight = k.write_in_flight
            /\ conn'[c].write_cancel_key = k.write_cancel_key
        BY Zenon, <2>7, <3>2, <3>3
      <3>5. Cur.conn' = conn' BY Zenon DEF Cur
      <3> QED BY Zenon, <3>2, <3>4, <3>5 DEF Owned, IsAlive
    <2>10. GoodOps(Cur)'
      BY Zenon, <2>1, <2>3, <2>7, <2>8, <2>9 DEF GoodOps, Cur
    <2>11. GoodReg(Cur, connection_map)'
      <3>1. connection_map' \in [Fds -> Conns \cup {NoConn}]
        BY Zenon, <2>1, <2>2
      <3>2. ASSUME NEW c \in Conns, IsAlive(conn'[c])
            PROVE  conn'[c].fd \in Fds /\ connection_map'[conn'[c].fd] = c
        <4>1. c \notin dead /\ conn'[c].fd = conn[c].fd /\ IsAlive(conn[c])
          BY Zenon, <2>7, <3>2 DEF IsAlive
        <4>2. conn[c].fd \in Fds /\ connection_map[conn[c].fd] = c
          BY Zenon, <2>3, <4>1
        <4>3. conn[c].fd \notin erased BY Zenon, <4>1, <4>2
        <4> QED BY Zenon, <2>1, <4>1, <4>2, <4>3
      <3>3. ASSUME NEW f \in Fds, connection_map'[f] # NoConn
            PROVE  LET k == conn'[connection_map'[f]]
                   IN /\ IsAlive(k)
                      /\ k.fd = f
                      /\ (f \in closed_fds') <=> IsDisconnected(k)
        <4> DEFINE c == connection_map[f]
        <4>1. f \notin erased /\ connection_map'[f] = c /\ c # NoConn
          BY Zenon, <2>1, <3>3
        <4>2. /\ c \in Conns /\ IsAlive(conn[c]) /\ conn[c].fd = f
              /\ (f \in closed_fds) <=> IsDisconnected(conn[c])
          BY Zenon, <2>2, <2>3, <4>1
        <4>3. c \notin dead BY Zenon, <2>6, <4>1, <4>2
        <4>4. conn'[c].state = conn[c].state /\ conn'[c].fd = f
          BY Zenon, <2>7, <4>2, <4>3
        <4>5. f \in kept <=> IsDisconnected(conn[c])
          <5>1. f \in kept => IsDisconnected(conn[c]) BY Zenon, <2>5
          <5>2. IsDisconnected(conn[c]) => Doomed(f)
            BY Zenon, <4>1, <4>2 DEF Doomed
          <5> QED BY Zenon, <4>1, <5>1, <5>2
        <4> QED BY Zenon, <2>1, <4>1, <4>2, <4>4, <4>5 DEF IsAlive, IsDisconnected
      <3>4. ASSUME NEW f \in closed_fds' PROVE connection_map'[f] # NoConn
        BY Zenon, <2>1, <2>5
      <3> QED BY Zenon, <2>7, <3>1, <3>2, <3>3, <3>4 DEF GoodReg, Cur
    <2>12. TypeOK'
      <3>1. net' \in [Conns -> Socket]
        <4>1. net \in [Conns -> Socket] BY Zenon DEF IInv, TypeOK
        <4>2. NewSocket \in Socket BY DEF NewSocket, Socket
        <4> QED BY Zenon, <2>1, <4>1, <4>2
      <3>2. connection_map' \in [Fds -> Conns \cup {NoConn}] BY Zenon, <2>1, <2>2
      <3>3. /\ cq' \in Seq(Completion) /\ should_quit' \in BOOLEAN
            /\ faults' \in Nat
        BY Zenon, <2>1 DEF IInv, TypeOK
      <3> QED BY Zenon, <2>8, <3>1, <3>2, <3>3 DEF TypeOK
    <2> QED BY Zenon, <2>10, <2>11, <2>12 DEF IInv, Good
  \* A completion posted by the kernel preserves the invariant.
  <1>CompleteIInv.
      ASSUME IInv, NEW r \in ring, NEW res \in Int, NEW lo \in Nat,
             Complete(r, res, lo), net' \in [Conns -> Socket], faults' \in Nat
      PROVE  IInv'
    <2> USE <1>CompleteIInv
    <2>1. Cur \in LoopState /\ Good(Cur, connection_map) BY Zenon DEF IInv, TypeOK
    <2>2. /\ Cur' \in LoopState /\ (Cur').conn = Cur.conn
          /\ (Cur').ops \subseteq Cur.ops
          /\ (Cur').closed_fds = Cur.closed_fds /\ (Cur').next_key = Cur.next_key
      BY Zenon, <2>1 DEF Complete, Cur, LoopState
    <2>3. Good(Cur', connection_map)
      BY Zenon, <2>1, <2>2, SameGood
    <2>4. Good(Cur, connection_map)'
      BY Zenon, <2>3 DEF Complete
    <2>5. [key |-> r.key, res |-> res, lo |-> lo] \in Completion
      BY Zenon, <2>1 DEF Cur, LoopState, Request, Completion
    <2>6. cq' \in Seq(Completion)
      BY Zenon, <2>5, SeqAppend DEF Complete, IInv, TypeOK
    <2>7. TypeOK'
      BY Zenon, <2>2, <2>6 DEF IInv, TypeOK, Complete
    <2> QED BY Zenon, <2>4, <2>7 DEF IInv
  \* A read by the kernel preserves the invariant.
  <1>KernelReadIInv.
      ASSUME IInv, NEW r \in ring, NEW n \in Nat, KernelRead(r, n)
      PROVE  IInv'
    <2> USE <1>KernelReadIInv
    <2> DEFINE k == net[r.self]
    <2>1. /\ r.self \in Conns /\ k \in Socket /\ net \in [Conns -> Socket]
          /\ faults' \in Nat
      BY Zenon DEF IInv, TypeOK, Cur, LoopState, Request, KernelRead
    <2>2. CASE /\ n \in 1..k.avail
               /\ Complete(r, n, k.next)
               /\ net' = [net EXCEPT ![r.self].avail = @ - n,
                                     ![r.self].next = @ + n]
      <3>1. /\ k.avail - n \in Nat /\ k.next + n \in Nat /\ k.next \in Nat
        BY <2>1, <2>2 DEF Socket
      <3>2. net' \in [Conns -> Socket]
        BY Zenon, <2>1, <2>2, <3>1 DEF Socket
      <3> QED BY <2>1, <2>2, <3>1, <3>2, <1>CompleteIInv
    <2>3. CASE Complete(r, 0, 0) /\ UNCHANGED net
      BY <2>1, <2>3, <1>CompleteIInv
    <2>4. CASE Complete(r, ECONNRESET, 0) /\ UNCHANGED net
      BY <2>1, <2>4, <1>CompleteIInv DEF ECONNRESET
    <2> QED BY Zenon, <2>2, <2>3, <2>4 DEF KernelRead
  \* A write by the kernel preserves the invariant.
  <1>KernelWriteIInv.
      ASSUME IInv, NEW r \in ring, NEW n \in Nat, KernelWrite(r, n)
      PROVE  IInv'
    <2> USE <1>KernelWriteIInv
    <2> DEFINE c == r.self
               sent == IF IsAlive(conn[c]) THEN SubSeq(r.data, 1, n)
                       ELSE [i \in 1..n |-> 0]
    <2>1. /\ c \in Conns /\ net[c] \in Socket /\ net \in [Conns -> Socket]
          /\ faults' \in Nat /\ r.data \in Seq(Nat)
      BY Zenon DEF IInv, TypeOK, Cur, LoopState, Request, KernelWrite
    <2>2. CASE Complete(r, EOTHER, 0) /\ UNCHANGED net
      BY <2>1, <2>2, <1>CompleteIInv DEF EOTHER
    <2>3. CASE /\ n \in 1..Len(r.data)
               /\ Complete(r, n, 0)
               /\ net' = [net EXCEPT ![c].wire = @ \o sent]
      <3>1. sent \in Seq(Nat)
        <4>1. SubSeq(r.data, 1, n) \in Seq(Nat)
          <5>1. \A i \in 1..n : r.data[i] \in Nat BY <2>1, <2>3
          <5>2. 1 \in Int /\ n \in Int OBVIOUS
          <5> QED BY Zenon, <5>1, <5>2, SeqSub
        <4>2. [i \in 1..n |-> 0] \in Seq(Nat) OBVIOUS
        <4> QED BY Zenon, <4>1, <4>2
      <3>2. net[c].wire \in Seq(Nat) BY Zenon, <2>1 DEF Socket
      <3>3. net[c].wire \o sent \in Seq(Nat)
        BY Zenon, <3>1, <3>2, SeqConcat
      <3> HIDE DEF sent
      <3>4. net' \in [Conns -> Socket]
        BY Zenon, <2>1, <2>3, <3>3 DEF Socket
      <3>5. Complete(r, n, 0) /\ faults' \in Nat /\ n \in Int BY <2>1, <2>3
      <3> QED BY Zenon, <3>4, <3>5, <1>CompleteIInv
    <2> QED BY Zenon, <2>2, <2>3 DEF KernelWrite
  \* Every step of the kernel preserves the invariant.
  <1>KernelIInv.
      ASSUME IInv, Kernel
      PROVE  IInv'
    <2> USE <1>KernelIInv
    <2>1. net \in [Conns -> Socket] /\ faults \in Nat BY Zenon DEF IInv, TypeOK
    <2>2. PICK r \in ring :
            \/ \E n \in 0..MaxRecv : KernelRead(r, n)
            \/ \E n \in 0..MaxSend : KernelWrite(r, n)
            \/ KernelCancel(r)
            \/ \E res \in {EAGAIN, EOTHER} : KernelFault(r, res)
      BY Zenon DEF Kernel
    <2>3. CASE \E n \in 0..MaxRecv : KernelRead(r, n)
      BY <2>3, <1>KernelReadIInv, BoundsAssumption
    <2>4. CASE \E n \in 0..MaxSend : KernelWrite(r, n)
      BY <2>4, <1>KernelWriteIInv, BoundsAssumption
    <2>5. CASE KernelCancel(r)
      BY <2>1, <2>5, <1>CompleteIInv DEF KernelCancel, ECANCELED
    <2>6. CASE \E res \in {EAGAIN, EOTHER} : KernelFault(r, res)
      BY <2>1, <2>6, <1>CompleteIInv DEF KernelFault, EAGAIN, EOTHER
    <2> QED BY Zenon, <2>2, <2>3, <2>4, <2>5, <2>6
  \* Steps that leave the loop state and the registry alone.
  <1>IdleIInv.
      ASSUME IInv, UNCHANGED <<loopVars, connection_map, cq>>,
             net' \in [Conns -> Socket], phase' \in Phases,
             should_quit' \in BOOLEAN, faults' \in Nat
      PROVE  IInv'
    <2> USE <1>IdleIInv
    <2>1. Cur' = Cur BY Zenon DEF Cur, loopVars
    <2>2. TypeOK' BY Zenon, <2>1 DEF IInv, TypeOK
    <2>3. Good(Cur, connection_map)' BY Zenon, <2>1 DEF IInv
    <2> QED BY Zenon, <2>2, <2>3 DEF IInv
  \* Every step of a peer preserves the invariant.
  <1>PeerIInv.
      ASSUME IInv, Peer
      PROVE  IInv'
    <2> USE <1>PeerIInv
    <2>1. /\ net \in [Conns -> Socket] /\ phase \in Phases
          /\ should_quit \in BOOLEAN /\ faults \in Nat
      BY Zenon DEF IInv, TypeOK
    <2>2. PICK c \in Conns : PeerSend(c) \/ PeerClose(c) \/ PeerReset(c)
      BY Zenon DEF Peer
    <2>3. net' \in [Conns -> Socket]
      <3>1. net[c] \in Socket BY Zenon, <2>1
      <3>2. CASE PeerSend(c)
        <4>1. net[c].avail + 1 \in Nat BY <3>1 DEF Socket
        <4> QED BY Zenon, <2>1, <3>2, <4>1 DEF PeerSend, Socket
      <3>3. CASE PeerClose(c)
        BY Zenon, <2>1, <3>3 DEF PeerClose, Socket
      <3>4. CASE PeerReset(c)
        BY Zenon, <2>1, <3>4 DEF PeerReset, Socket
      <3> QED BY Zenon, <2>2, <3>2, <3>3, <3>4
    <2>4. UNCHANGED <<loopVars, connection_map, cq, phase, should_quit, faults>>
      BY Zenon, <2>2 DEF PeerSend, PeerClose, PeerReset
    <2> QED BY Zenon, <2>1, <2>3, <2>4, <1>IdleIInv
  <1> SUFFICES ASSUME IInv, [Next]_vars
             PROVE  IInv'
    BY Zenon
  <1>1. /\ net \in [Conns -> Socket] /\ phase \in Phases
        /\ should_quit \in BOOLEAN /\ faults \in Nat
    BY Zenon DEF IInv, TypeOK
  <1>2. CASE HandleCqe
    <2>1. PICK o \in ops :
            \/ StaleCompletion(o)
            \/ \E d \in Conns, f \in Calls, full \in BOOLEAN :
                 \/ ReadCompletes(o, d, f, full)
                 \/ WriteCompletes(o, d, f, full)
      BY Zenon, <1>2 DEF HandleCqe
    <2> QED BY Zenon, <2>1, <1>StaleCompletionIInv, <1>ReadCompletesIInv, <1>WriteCompletesIInv
  <1>3. CASE EndPoll
    BY Zenon, <1>1, <1>3, <1>IdleIInv DEF EndPoll, Phases
  <1>4. CASE RunTimeTask
    BY Zenon, <1>4, <1>UserTaskIInv, <1>DelayedCloseIInv, <1>InsertNewConnectionIInv
       DEF RunTimeTask
  <1>5. CASE EndIteration
    BY Zenon, <1>5, <1>DestroyIInv DEF EndIteration, Phases
  <1>6. CASE StopAll
    BY Zenon, <1>6, <1>StopConnectionIInv DEF StopAll
  <1>7. CASE BeginDrain
    BY Zenon, <1>1, <1>7, <1>IdleIInv DEF BeginDrain, Phases
  <1>8. CASE DrainOnce
    BY Zenon, <1>1, <1>8, <1>DestroyIInv DEF DrainOnce
  <1>9. CASE Exit
    BY Zenon, <1>1, <1>9, <1>IdleIInv DEF Exit, Phases
  <1>10. CASE UNCHANGED vars
    BY Zenon, <1>1, <1>10, <1>IdleIInv DEF vars
  <1>11. CASE Quit
    BY Zenon, <1>1, <1>11, <1>IdleIInv DEF Quit
  <1>12. CASE Kernel
    BY Zenon, <1>12, <1>KernelIInv
  <1>13. CASE Peer
    BY Zenon, <1>13, <1>PeerIInv
  <1>14. CASE Terminated
    BY Zenon, <1>10, <1>14 DEF Terminated
  <1> QED
    BY Zenon, <1>2, <1>3, <1>4, <1>5, <1>6, <1>7, <1>8, <1>9, <1>10, <1>11, <1>12,
       <1>13, <1>14 DEF Next

\* The inductive invariant holds in every reachable state.
THEOREM Inductive == Spec => []IInv
  <1>1. Init => IInv BY Zenon, InitIInv
  <1>2. IInv /\ [Next]_vars => IInv' BY Zenon, NextIInv
  <1> QED BY <1>1, <1>2, PTL DEF Spec

\* Every variable keeps its type.
THEOREM TypeCorrect == Spec => []TypeOK
  <1>1. IInv => TypeOK BY Zenon DEF IInv
  <1> QED BY <1>1, Inductive, PTL

\* Poller::HandleCqe never calls the completion function of a destroyed
\* connection, of a new connection in a destroyed one's memory, or one whose
\* operation is not in flight, for any number of connections, memory blocks,
\* descriptors, operations and faults.
THEOREM CompletionSafety == Spec => []CompletionTargetsLive
  <1>1. IInv => CompletionTargetsLive BY Zenon, IInvImplies
  <1> QED BY <1>1, Inductive, PTL

\* The user hears of every connection once that it is up, then once that it
\* is down and closed.
THEOREM CallbackOrder == Spec => []CallbackProtocol
  <1>1. IInv => CallbackProtocol BY Zenon, IInvImplies
  <1> QED BY <1>1, Inductive, PTL

\* connection_map_ owns exactly the live connections, and closed_fds_ names
\* exactly the closed ones.
THEOREM Registry == Spec => []Registered
  <1>1. IInv => Registered BY Zenon, IInvImplies
  <1> QED BY <1>1, Inductive, PTL
=============================================================================
