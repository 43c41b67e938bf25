------------------------ MODULE ConnectingFlowProofs ------------------------
(***************************************************************************)
(* The bytes of a connection: OutputConserved, NoStalledOutput, NeverDeaf  *)
(* and InputConserved of Connecting hold for every number of connections   *)
(* and every bound.                                                        *)
(*                                                                         *)
(* Here the functions of Connecting and its handlers are shown to keep the *)
(* invariant FlowInv of module ConnectingFlow, then every step.            *)
(***************************************************************************)
EXTENDS ConnectingFlow

-----------------------------------------------------------------------------
(***************************************************************************)
(* The functions of Connecting and the completion handlers.                *)
(***************************************************************************)

\* Connections that listen go on listening.
Hears(s, t) ==
  \A b \in Conns : Listening(s.conn[b]) => Listening(t.conn[b])

\* Every function of Connecting that the user can call keeps the account.
LEMMA CallFlow ==
  \A s, m : \A q \in Seq(Completion) : \A n : \A d \in Conns : \A f :
  \A full \in BOOLEAN :
     /\ Good(s, m)
     /\ Flow(s, q, n)
     /\ IsAlive(s.conn[d])
     /\ Flushed(s.conn[d])
     /\ f[2] \in Nat
    => FlowStep(s, Call(s, d, f, full), q, n, d)
  \* The numbers of the bytes of a new message.
  <1>QueueSums.
      ASSUME NEW f \in Nat, NEW a \in Nat, NEW b \in Nat, NEW accepted \in Nat,
             NEW size \in Nat, f = accepted + 1 - a - b
      PROVE  /\ f + a \in Nat /\ a + size \in Nat /\ b + size \in Nat
             /\ accepted + 1 = (f + a) + b
             /\ (accepted + size) + 1 - a - (b + size) = f
             /\ b = 0 => /\ accepted + 1 = f + a
                         /\ (accepted + size) + 1 - (a + size) - 0 = f
             /\ f + (a + size) \in Nat
    BY <1>QueueSums
  \* A message that Send queues continues the bytes queued before.
  <1>QueueWrites.
      ASSUME NEW k \in Connection, NEW l \in Connection, NEW c, NEW R, NEW q,
             NEW w, Writes(k, c, R, q, w), NEW size \in Nat,
             l.accepted = k.accepted + size,
             l.write_in_flight = k.write_in_flight,
             l.write_cancel_key = k.write_cancel_key,
             \/ /\ l.output = k.output
                /\ l.pending = k.pending \o Interval(k.accepted + 1, size)
             \/ /\ ~k.write_in_flight
                /\ k.pending = <<>>
                /\ l.pending = <<>>
                /\ l.output = k.output \o Interval(k.accepted + 1, size)
      PROVE  Writes(l, c, R, q, w)
    <2> USE <1>QueueWrites
    <2>0. k.accepted \in Nat /\ k.output \in Seq(Nat) /\ k.pending \in Seq(Nat)
      BY Zenon DEF Connection
    <2>1. PICK a \in Nat, b \in Nat : a = Len(k.output) /\ b = Len(k.pending)
      BY <2>0
    <2>2. PICK f \in Nat : f = First(k)
      BY Zenon DEF Writes
    <2>3. /\ f = k.accepted + 1 - a - b /\ f # 0
          /\ k.output = Interval(f, a) /\ k.pending = Interval(f + a, b)
          /\ w = Interval(1, Len(w))
          /\ \A r \in R : r.self = c /\ r.type = "kWrite" =>
               /\ k.write_in_flight
               /\ r.key = k.write_cancel_key
               /\ r.data = k.output
      BY Zenon, <2>1, <2>2 DEF Writes, First
    <2>4. /\ f + a \in Nat /\ a + size \in Nat /\ b + size \in Nat
          /\ k.accepted + 1 = (f + a) + b
          /\ (k.accepted + size) + 1 - a - (b + size) = f
          /\ b = 0 => /\ k.accepted + 1 = f + a
                      /\ (k.accepted + size) + 1 - (a + size) - 0 = f
          /\ f + (a + size) \in Nat
      <3>1. PICK A \in Nat : A = k.accepted
        BY Zenon, <2>0
      <3>2. f = A + 1 - a - b
        BY Zenon, <2>3, <3>1
      <3>3. /\ f + a \in Nat /\ a + size \in Nat /\ b + size \in Nat
            /\ A + 1 = (f + a) + b
            /\ (A + size) + 1 - a - (b + size) = f
            /\ b = 0 => /\ A + 1 = f + a
                        /\ (A + size) + 1 - (a + size) - 0 = f
            /\ f + (a + size) \in Nat
        BY <3>2, <1>QueueSums
      <3> QED BY Zenon, <3>1, <3>3
    <2>5. CASE /\ l.output = k.output
               /\ l.pending = k.pending \o Interval(k.accepted + 1, size)
      <3>1. l.pending = Interval(f + a, b + size)
        <4>1. Interval(f + a, b) \o Interval((f + a) + b, size) =
                Interval(f + a, b + size)
          <5>1. PICK g \in Nat : g = f + a
            BY Zenon, <2>4
          <5>2. Interval(g, b) \o Interval(g + b, size) = Interval(g, b + size)
            BY Zenon, IntervalJoin
          <5> QED BY Zenon, <5>1, <5>2
        <4> QED BY Zenon, <2>3, <2>4, <2>5, <4>1
      <3>2. Len(l.pending) = b + size
        BY <2>4, <3>1, IntervalIs
      <3>3. First(l) = f
        <4>1. First(l) = (k.accepted + size) + 1 - a - (b + size)
          BY Zenon, <2>1, <2>5, <3>2 DEF First
        <4> QED BY Zenon, <2>4, <4>1
      <3> QED BY Zenon, <2>1, <2>2, <2>3, <2>5, <3>1, <3>2, <3>3 DEF Writes
    <2>6. CASE /\ ~k.write_in_flight
               /\ k.pending = <<>>
               /\ l.pending = <<>>
               /\ l.output = k.output \o Interval(k.accepted + 1, size)
      <3>1. b = 0 /\ Len(l.pending) = 0
        BY Zenon, <2>1, <2>6
      <3>2. k.accepted + 1 = f + a
        BY Zenon, <2>4, <3>1
      <3>3. l.output = Interval(f, a + size)
        <4>1. Interval(f, a) \o Interval(f + a, size) = Interval(f, a + size)
          BY Zenon, IntervalJoin
        <4> QED BY Zenon, <2>3, <2>6, <3>2, <4>1
      <3>4. Len(l.output) = a + size
        <4>1. a + size \in Nat
          BY Zenon, <2>4
        <4> QED BY Zenon, <3>3, <4>1, IntervalIs
      <3>5. First(l) = f
        <4>1. First(l) = (k.accepted + size) + 1 - (a + size) - 0
          BY Zenon, <3>1, <3>4 DEF First
        <4> QED BY Zenon, <2>4, <3>1, <4>1
      <3>6. l.pending = Interval(f + Len(l.output), Len(l.pending))
        <4>1. f + Len(l.output) \in Nat
          BY Zenon, <2>4, <3>4
        <4>2. Interval(f + Len(l.output), 0) = <<>>
          BY Zenon, <4>1, IntervalEmpty
        <4> QED BY Zenon, <2>6, <3>1, <4>2
      <3>7. Len(w) = First(l) - 1
        BY Zenon, <2>2, <2>6, <3>5 DEF Writes
      <3> QED BY Zenon, <2>3, <2>6, <3>3, <3>4, <3>5, <3>6, <3>7 DEF Writes
    <2> QED BY Zenon, <2>5, <2>6
  \* Send keeps the account, on a connection that is flushed.
  <1>SendFlow.
      ASSUME NEW s, NEW m, Good(s, m), NEW q \in Seq(Completion), NEW n,
             Flow(s, q, n), NEW c \in Conns, IsAlive(s.conn[c]),
             Flushed(s.conn[c]), NEW size \in Nat, NEW full \in BOOLEAN
      PROVE  FlowStep(s, Send(s, c, size, full), q, n, c)
    <2> USE <1>SendFlow
    <2> DEFINE queued == Len(s.conn[c].output) + Len(s.conn[c].pending)
               crossed == queued + size >= HighWaterMark /\ queued < HighWaterMark
               t == IF crossed /\ CloseOnHighWater THEN ForceClose(s, c, full)
                    ELSE s
               h == t.conn[c]
               message == Interval(s.conn[c].accepted + 1, size)
               a == h.accepted + size
               k == [h EXCEPT !.accepted = a]
    <2>1. CASE s.conn[c].state # "kConnected"
      <3>1. Send(s, c, size, full) = s
        BY Zenon, <2>1 DEF Send
      <3> QED BY Zenon, <3>1 DEF FlowStep, Others, Keeps
    <2>2. CASE s.conn[c].state = "kConnected"
      <3>1. Send(s, c, size, full) =
              IF k.write_in_flight
              THEN Put(t, c, [k EXCEPT !.pending = @ \o message])
              ELSE SubmitWriteOnce(Put(t, c, [k EXCEPT !.output = @ \o message]),
                                   c, full)
        BY Zenon, <2>2 DEF Send
      <3>2. /\ Good(t, m) /\ StaysAlive(s, t) /\ FlowStep(s, t, q, n, c)
            /\ h.accepted = s.conn[c].accepted
        <4>1. CASE crossed /\ CloseOnHighWater
          <5>1. t = DoClosing(s, c, full)
            BY Zenon, <4>1 DEF ForceClose
          <5> HIDE DEF t
          <5> QED BY Zenon, <5>1, DoClosingGood, DoClosingFlow
        <4>2. CASE ~(crossed /\ CloseOnHighWater)
          <5>1. t = s
            BY Zenon, <4>2
          <5> HIDE DEF t
          <5> QED BY Zenon, <5>1 DEF StaysAlive, FlowStep, Others, Keeps
        <4> QED BY Zenon, <4>1, <4>2
      <3> HIDE DEF t
      <3>3. /\ t \in LoopState /\ h \in Connection /\ Cancellable(h)
            /\ IsAlive(h) /\ Flushed(h) /\ Flow(t, q, n)
            /\ h.state \notin {"None", "Gone"}
        BY Zenon, <3>2 DEF Good, GoodOps, LoopState, StaysAlive, FlowStep, Keeps, IsAlive
      <3>4. Accounts(h, c, t.ring, q, n[c])
        BY Zenon, <3>3 DEF Flow, Flows
      <3>5. message = Interval(h.accepted + 1, size) /\ message \in Seq(Nat)
        <4>1. h.accepted + 1 \in Nat
          <5>1. PICK z : z = h.accepted /\ z \in Nat
            BY Zenon, <3>3 DEF Connection
          <5>2. z + 1 \in Nat
            BY <5>1
          <5> QED BY Zenon, <5>1, <5>2
        <4> QED BY Zenon, <3>2, <4>1, IntervalSeq
      <3> HIDE DEF h, message
      <3>6. a \in Nat /\ h.pending \in Seq(Nat) /\ h.output \in Seq(Nat)
        BY <3>3 DEF Connection
      <3> HIDE DEF a
      <3>7. /\ k \in Connection /\ k.write_in_flight = h.write_in_flight
            /\ k.pending = h.pending /\ k.output = h.output
        BY Zenon, <3>3, <3>6 DEF Connection
      <3> DEFINE P == h.pending \o message
                 Q == h.output \o message
                 k1 == [k EXCEPT !.pending = P]
                 k2 == [k EXCEPT !.output = Q]
      <3>8. P \in Seq(Nat) /\ Q \in Seq(Nat)
        BY <3>5, <3>6
      <3>9. Send(s, c, size, full) =
              IF h.write_in_flight THEN Put(t, c, k1)
              ELSE SubmitWriteOnce(Put(t, c, k2), c, full)
        BY Zenon, <3>1, <3>7
      <3> HIDE DEF P, Q
      <3>10. CASE h.write_in_flight
        <4>1. /\ k1 \in Connection /\ SameRead(h, k1) /\ k1.state = h.state
              /\ k1.read_faulted = h.read_faulted
              /\ k1.write_faulted = h.write_faulted
              /\ k1.write_in_flight = h.write_in_flight
              /\ k1.write_cancel_key = h.write_cancel_key
              /\ k1.accepted = a /\ k1.output = h.output /\ k1.pending = P
          BY Zenon, <3>3, <3>6, <3>8 DEF Connection, SameRead
        <4> HIDE DEF k1
        <4>2. Accounts(k1, c, t.ring, q, n[c])
          <5>1. ~k1.write_faulted => Writes(k1, c, t.ring, q, n[c].wire)
            BY Zenon, <3>3, <3>4, <3>5, <4>1, <1>QueueWrites DEF Accounts, P, a
          <5>2. ~k1.read_faulted => Reads(k1, c, t.ring, q, n[c].next)
            <6>1. Alike(t.ring, t.ring, c, "kRead")
                  /\ KeepsEntry(q, q, h.read_cancel_key)
              BY Zenon, AlikeSame, KeepsEntrySame
            <6> QED BY Zenon, <3>4, <4>1, <6>1, ReadsKeep DEF Accounts
          <5> QED BY Zenon, <5>1, <5>2 DEF Accounts
        <4>3. Flow(Put(t, c, k1), q, n)
          BY Zenon, <3>3, <4>1, <4>2, PutFlow DEF SameRead, h
        <4>4. Put(t, c, k1).conn[c] = k1 /\ Others(t, Put(t, c, k1), c)
          BY Zenon, <3>3, <4>1 DEF Put, LoopState, Others
        <4>5. Flushed(k1) /\ (Listening(h) => Listening(k1))
          BY Zenon, <3>3, <3>10, <4>1
             DEF Flushed, Listening, OpenState, SameRead
        <4>6. FlowStep(t, Put(t, c, k1), q, n, c)
          BY Zenon, <4>3, <4>4, <4>5 DEF FlowStep, Keeps, h
        <4> QED BY <3>2, <3>9, <3>10, <4>6, FlowStepTrans
      <3>11. CASE ~h.write_in_flight
        <4> DEFINE u == Put(t, c, k2)
        <4>1. /\ k2 \in Connection /\ SameRead(h, k2) /\ k2.state = h.state
              /\ k2.read_faulted = h.read_faulted
              /\ k2.write_faulted = h.write_faulted
              /\ k2.write_in_flight = h.write_in_flight
              /\ k2.write_cancel_key = h.write_cancel_key
              /\ k2.accepted = a /\ k2.output = Q /\ k2.pending = h.pending
              /\ k2.fd = h.fd /\ k2.told = h.told /\ k2.addr = h.addr
          BY Zenon, <3>3, <3>6, <3>8 DEF Connection, SameRead
        <4> HIDE DEF k2
        <4>2. Accounts(k2, c, t.ring, q, n[c])
          <5>1. ~k2.write_faulted => Writes(k2, c, t.ring, q, n[c].wire)
            <6>1. ~h.write_faulted => h.pending = <<>>
              BY Zenon, <3>3, <3>11 DEF Flushed
            <6> QED BY Zenon, <3>3, <3>4, <3>5, <3>11, <4>1, <6>1, <1>QueueWrites
                    DEF Accounts, Q, a
          <5>2. ~k2.read_faulted => Reads(k2, c, t.ring, q, n[c].next)
            <6>1. Alike(t.ring, t.ring, c, "kRead")
                  /\ KeepsEntry(q, q, h.read_cancel_key)
              BY Zenon, AlikeSame, KeepsEntrySame
            <6> QED BY Zenon, <3>4, <4>1, <6>1, ReadsKeep DEF Accounts
          <5> QED BY Zenon, <5>1, <5>2 DEF Accounts
        <4>3. Flow(u, q, n)
          BY Zenon, <3>3, <4>1, <4>2, PutFlow DEF SameRead, h
        <4>4. u.conn[c] = k2 /\ Others(t, u, c)
          BY Zenon, <3>3, <4>1 DEF Put, LoopState, Others
        <4>5. Flushable(k2) /\ (Listening(h) => Listening(k2))
          BY Zenon, <3>3, <3>11, <4>1
             DEF Flushed, Flushable, Listening, OpenState, SameRead
        <4>6. GoodOps(u)
          <5>1. SameFlight(h, k2) /\ Cancellable(k2) /\ SameLife(h, k2)
            BY Zenon, <3>3, <4>1
               DEF SameFlight, SameRead, Cancellable, SameLife
          <5> QED BY Zenon, <3>2, <4>1, <5>1, PutSame DEF Good, h
        <4>7. IsAlive(k2)
          BY Zenon, <3>3, <4>1 DEF IsAlive
        <4> DEFINE v == SubmitWriteOnce(u, c, full)
        <4> HIDE DEF u
        <4>8. FlowStep(u, v, q, n, c) /\ Flushed(v.conn[c])
          BY Zenon, <4>3, <4>4, <4>5, <4>6, <4>7, SubmitOnceFlow
        <4>9. FlowStep(t, v, q, n, c)
          BY Zenon, <4>4, <4>5, <4>8 DEF FlowStep, Others, Keeps, h
        <4>10. FlowStep(s, v, q, n, c)
          BY Zenon, <3>2, <4>9, FlowStepTrans
        <4> QED BY Zenon, <3>9, <3>11, <4>10 DEF u
      <3> QED BY Zenon, <3>10, <3>11
    <2> QED BY Zenon, <2>1, <2>2
  \* ShutDownWrite keeps the account.
  <1>ShutDownWriteFlow.
      ASSUME NEW s, NEW m, Good(s, m), NEW q, NEW n, Flow(s, q, n),
             NEW c \in Conns, IsAlive(s.conn[c])
      PROVE  FlowStep(s, ShutDownWrite(s, c), q, n, c)
    <2> USE <1>ShutDownWriteFlow
    <2> DEFINE k == s.conn[c]
               l == [k EXCEPT !.state = "kDisconnecting", !.shut = TRUE]
    <2>1. CASE k.state # "kConnected"
      <3>1. ShutDownWrite(s, c) = s
        BY Zenon, <2>1 DEF ShutDownWrite
      <3> QED BY Zenon, <3>1 DEF FlowStep, Others, Keeps
    <2>2. CASE k.state = "kConnected"
      <3>1. s \in LoopState /\ k \in Connection
        BY Zenon DEF Good, GoodOps, LoopState
      <3>2. /\ l \in Connection /\ l.state = "kDisconnecting"
            /\ SameWrite(k, l) /\ SameRead(k, l)
            /\ l.read_faulted = k.read_faulted
            /\ l.write_faulted = k.write_faulted
        BY Zenon, <3>1 DEF Connection, States, SameRead, SameWrite
      <3>3. ShutDownWrite(s, c) = Put(s, c, l)
        BY Zenon, <2>2 DEF ShutDownWrite
      <3> HIDE DEF l
      <3> QED BY Zenon, <2>2, <3>1, <3>2, <3>3, PutSameFlow DEF IsAlive, OpenState
    <2> QED BY Zenon, <2>1, <2>2
  \* ForceCloseAfter keeps the account.
  <1>ForceCloseAfterFlow.
      ASSUME NEW s, NEW m, Good(s, m), NEW q, NEW n, Flow(s, q, n), NEW c \in Conns
      PROVE  FlowStep(s, ForceCloseAfter(s, c), q, n, c)
    <2> USE <1>ForceCloseAfterFlow
    <2>1. CASE IsDisconnected(s.conn[c])
      <3>1. ForceCloseAfter(s, c) = s
        BY Zenon, <2>1 DEF ForceCloseAfter
      <3> QED BY Zenon, <3>1 DEF FlowStep, Others, Keeps
    <2>2. CASE ~IsDisconnected(s.conn[c])
      <3> DEFINE D == s.delayed \cup {<<c, s.conn[c].addr>>}
                 t == [s EXCEPT !.delayed = D]
      <3>1. ForceCloseAfter(s, c) = t
        BY Zenon, <2>2 DEF ForceCloseAfter
      <3> HIDE DEF D
      <3>2. /\ t.conn = s.conn /\ t.ops = s.ops /\ t.ring = s.ring
            /\ t.next_key = s.next_key
        BY Zenon DEF Good, GoodOps, LoopState
      <3> HIDE DEF t
      <3>3. Flow(t, q, n)
        BY Zenon, <3>2, SameFlow
      <3> QED BY Zenon, <3>1, <3>2, <3>3 DEF FlowStep, Others, Keeps
    <2> QED BY Zenon, <2>1, <2>2
  <1> SUFFICES ASSUME NEW s, NEW m, Good(s, m), NEW q \in Seq(Completion), NEW n,
                      Flow(s, q, n), NEW d \in Conns, IsAlive(s.conn[d]),
                      Flushed(s.conn[d]), NEW f, f[2] \in Nat, NEW full \in BOOLEAN
               PROVE  FlowStep(s, Call(s, d, f, full), q, n, d)
    OBVIOUS
  <1>0. GoodOps(s)
    BY Zenon DEF Good
  <1>1. CASE f[1] = "Send"
    <2>1. Call(s, d, f, full) = Send(s, d, f[2], full)
      BY Zenon, <1>1 DEF Call
    <2> QED BY Zenon, <2>1, <1>SendFlow
  <1>2. CASE f[1] = "ShutDownWrite"
    <2>1. Call(s, d, f, full) = ShutDownWrite(s, d)
      BY Zenon, <1>2 DEF Call
    <2> QED BY Zenon, <2>1, <1>ShutDownWriteFlow
  <1>3. CASE f[1] = "ForceClose"
    <2>1. Call(s, d, f, full) = DoClosing(s, d, full)
      BY Zenon, <1>3 DEF Call, ForceClose
    <2> QED BY Zenon, <2>1, DoClosingFlow
  <1>4. CASE f[1] = "ForceCloseAfter"
    <2>1. Call(s, d, f, full) = ForceCloseAfter(s, d)
      BY Zenon, <1>4 DEF Call
    <2> QED BY Zenon, <2>1, <1>ForceCloseAfterFlow
  <1>5. CASE f[1] = "Stop"
    <2>1. Call(s, d, f, full) = CancelPendingIo(s, d, full)
      BY Zenon, <1>5 DEF Call
    <2> QED BY Zenon, <1>0, <2>1, CancelPendingIoFlow
  <1>6. CASE f[1] = "StartReading"
    <2>1. Call(s, d, f, full) = SubmitReadOnce(s, d, full)
      BY Zenon, <1>6 DEF Call
    <2> QED BY Zenon, <1>0, <2>1, SubmitOnceFlow
  <1>7. CASE f[1] = "StartWriting"
    <2>1. Call(s, d, f, full) = SubmitWriteOnce(s, d, full)
      BY Zenon, <1>7 DEF Call
    <2>2. Flushable(s.conn[d])
      BY Zenon DEF Flushed, Flushable, IsAlive
    <2> QED BY Zenon, <1>0, <2>1, <2>2, SubmitOnceFlow
  <1>8. CASE f[1] \notin ApiFunctions
    <2>1. Call(s, d, f, full) = s
      BY Zenon, <1>8 DEF Call, ApiFunctions
    <2> QED BY Zenon, <2>1 DEF FlowStep, Others, Keeps
  <1> QED BY Zenon, <1>1, <1>2, <1>3, <1>4, <1>5, <1>6, <1>7, <1>8 DEF ApiFunctions

\* A step on one connection, as seen from all.
LEMMA FlowStepAll ==
  ASSUME NEW s, NEW t, NEW q, NEW n, NEW c \in Conns,
         FlowStep(s, t, q, n, c), AllFlushed(s)
  PROVE  Flow(t, q, n) /\ AllFlushed(t) /\ Hears(s, t)
  <1>1. ASSUME NEW b \in Conns
        PROVE  /\ Flushed(t.conn[b])
               /\ Listening(s.conn[b]) => Listening(t.conn[b])
    <2>1. CASE b = c
      BY Zenon, <2>1 DEF FlowStep, Keeps, AllFlushed
    <2>2. CASE b # c
      <3>1. t.conn[b] = s.conn[b]
        BY Zenon, <2>2 DEF FlowStep, Others
      <3> QED BY Zenon, <3>1 DEF AllFlushed
    <2> QED BY Zenon, <2>1, <2>2
  <1> QED BY Zenon, <1>1 DEF FlowStep, AllFlushed, Hears

\* A user callback keeps the account.
LEMMA ReactFlow ==
  ASSUME NEW s, NEW m, Good(s, m), NEW q \in Seq(Completion), NEW n,
         Flow(s, q, n), AllFlushed(s), NEW d \in Conns, NEW f \in Calls,
         f # NoCall => IsAlive(s.conn[d]), NEW full \in BOOLEAN
  PROVE  LET t == React(s, d, f, full)
         IN Flow(t, q, n) /\ AllFlushed(t) /\ Hears(s, t)
  <1>1. CASE f = NoCall
    BY Zenon, <1>1 DEF React, Hears
  <1>2. CASE f # NoCall
    <2>1. React(s, d, f, full) = Call(s, d, f, full) /\ Flushed(s.conn[d])
      BY Zenon, <1>2 DEF React, AllFlushed
    <2>2. FlowStep(s, Call(s, d, f, full), q, n, d)
      BY Zenon, <1>2, <2>1, CallFlow, CallsType
    <2> QED BY Zenon, <2>1, <2>2, FlowStepAll
  <1> QED BY Zenon, <1>1, <1>2

\* The entries of the rest of the queue.
LEMMA TailEntries ==
  ASSUME NEW q \in Seq(Completion), q # <<>>
  PROVE  /\ Tail(q) \in Seq(Completion) /\ Len(Tail(q)) = Len(q) - 1
         /\ \A i \in 1..Len(Tail(q)) :
              i + 1 \in 1..Len(q) /\ Tail(q)[i] = q[i + 1]
         /\ \A i \in 2..Len(q) :
              i - 1 \in 1..Len(Tail(q)) /\ Tail(q)[i - 1] = q[i]
         /\ 1 \in 1..Len(q) /\ Head(q) = q[1]
  OBVIOUS

\* The first completion is that of no request of the ring, and of no other
\* entry of the queue.
LEMMA HeadKeys ==
  ASSUME NEW s, NEW q \in Seq(Completion), q # <<>>, KeysApart(s, q),
         NEW key, key = Head(q).key
  PROVE  /\ \A r \in s.ring : r.key # key
         /\ \A i \in 1..Len(q) : q[i].key = key => q[i] = Head(q)
  <1>1. 1 \in 1..Len(q) /\ Head(q) = q[1]
    BY Zenon, TailEntries
  <1> QED BY Zenon, <1>1 DEF KeysApart

\* Taking the first completion and its operation, o.
LEMMA TakeKeys ==
  ASSUME NEW s, NEW t, NEW q \in Seq(Completion), q # <<>>, KeysApart(s, q),
         NEW o \in s.ops, o.key = Head(q).key,
         t.ops = s.ops \ {o}, t.ring = s.ring, t.next_key = s.next_key
  PROVE  /\ KeysApart(t, Tail(q))
         /\ \A b, type, key :
              HasOp(s, b, type, key)
                /\ ~(o.completion /\ o.self = b /\ o.type = type) =>
              HasOp(t, b, type, key) /\ KeepsEntry(q, Tail(q), key)
  <1> DEFINE p == Tail(q)
  <1>1. /\ Len(p) = Len(q) - 1
        /\ \A i \in 1..Len(p) : i + 1 \in 1..Len(q) /\ p[i] = q[i + 1]
        /\ \A i \in 2..Len(q) : i - 1 \in 1..Len(p) /\ p[i - 1] = q[i]
        /\ 1 \in 1..Len(q) /\ Head(q) = q[1]
    BY Zenon, TailEntries
  <1> HIDE DEF p
  <1>2. KeysApart(t, p)
    <2>1. \A i \in 1..Len(p) : p[i].key < t.next_key
      BY <1>1 DEF KeysApart
    <2>2. \A i, j \in 1..Len(p) : p[i].key = p[j].key => i = j
      <3> SUFFICES ASSUME NEW i \in 1..Len(p), NEW j \in 1..Len(p),
                          p[i].key = p[j].key
                   PROVE  i = j
        BY Zenon
      <3>1. i + 1 = j + 1
        BY <1>1 DEF KeysApart
      <3> QED BY <3>1
    <2>3. \A r \in t.ring, i \in 1..Len(p) : r.key # p[i].key
      BY <1>1 DEF KeysApart
    <2> QED BY Zenon, <2>1, <2>2, <2>3 DEF KeysApart
  <1>3. ASSUME NEW b, NEW type, NEW key, HasOp(s, b, type, key),
               ~(o.completion /\ o.self = b /\ o.type = type)
        PROVE  HasOp(t, b, type, key) /\ KeepsEntry(q, p, key)
    <2>1. PICK x \in s.ops : /\ x.key = key /\ x.type = type
                             /\ x.self = b /\ x.completion
      BY Zenon, <1>3 DEF HasOp
    <2>2. x # o
      BY Zenon, <1>3, <2>1
    <2>3. key # o.key
      BY Zenon, <2>1, <2>2 DEF KeysApart
    <2>4. x \in t.ops
      BY Zenon, <2>2
    <2>5. HasOp(t, b, type, key)
      BY Zenon, <2>1, <2>4 DEF HasOp
    <2>6. ASSUME NEW i \in 1..Len(q), q[i].key = key
          PROVE  \E j \in 1..Len(p) : p[j] = q[i]
      <3>1. i # 1
        BY Zenon, <1>1, <2>3, <2>6
      <3>2. i \in 2..Len(q)
        BY <3>1
      <3> QED BY Zenon, <1>1, <3>2
    <2> QED BY Zenon, <2>5, <2>6 DEF KeepsEntry
  <1> QED BY Zenon, <1>2, <1>3 DEF p

\* A completion that is taken by the handler of connection c = o.self, which
\* is left as k.
LEMMA TakeFlow ==
  ASSUME NEW s, GoodOps(s), NEW q \in Seq(Completion), q # <<>>, NEW n,
         Flow(s, q, n), NEW o \in s.ops, o.key = Head(q).key, o.completion,
         NEW k \in Connection, k.state = s.conn[o.self].state,
         o.type = "kRead" => /\ ~k.read_in_flight /\ SameWrite(s.conn[o.self], k)
                             /\ k.write_faulted = s.conn[o.self].write_faulted
                             /\ ~k.read_faulted =>
                                  Reads(k, o.self, s.ring, Tail(q),
                                        n[o.self].next),
         o.type = "kWrite" => /\ ~k.write_in_flight /\ SameRead(s.conn[o.self], k)
                              /\ k.read_faulted = s.conn[o.self].read_faulted
                              /\ ~k.write_faulted =>
                                   Writes(k, o.self, s.ring, Tail(q),
                                          n[o.self].wire)
  PROVE  Flow(Put([s EXCEPT !.ops = @ \ {o}], o.self, k), Tail(q), n)
  <1> DEFINE c == o.self
             h == s.conn[c]
             p == Tail(q)
             O == s.ops \ {o}
             u == [s EXCEPT !.ops = O]
             t == Put(u, c, k)
  <1>1. /\ s \in LoopState /\ o.self \in Conns /\ o.type \in {"kRead", "kWrite"}
        /\ O \in SUBSET Op
    <2>1. s \in LoopState /\ s.ops \subseteq Op
      BY Zenon DEF GoodOps, LoopState
    <2> QED BY Zenon, <2>1 DEF Op
  <1> HIDE DEF O
  <1>2. u \in LoopState /\ u.conn = s.conn /\ u.ring = s.ring
        /\ u.ops = O /\ u.next_key = s.next_key
    BY Zenon, <1>1 DEF LoopState
  <1> HIDE DEF u
  <1>3. /\ t.conn[c] = k /\ t.ring = s.ring /\ t.next_key = s.next_key
        /\ t.ops = s.ops \ {o}
        /\ \A b \in Conns \ {c} : t.conn[b] = s.conn[b]
    BY Zenon, <1>1, <1>2 DEF Put, LoopState, O
  <1> HIDE DEF t
  <1>4. KeysApart(s, q)
    BY Zenon DEF Flow
  <1>5. /\ KeysApart(t, p)
        /\ \A b, type, key :
             HasOp(s, b, type, key) /\ ~(o.self = b /\ o.type = type) =>
             HasOp(t, b, type, key) /\ KeepsEntry(q, p, key)
    <2>1. /\ KeysApart(t, Tail(q))
          /\ \A b, type, key :
               HasOp(s, b, type, key)
                 /\ ~(o.completion /\ o.self = b /\ o.type = type) =>
               HasOp(t, b, type, key) /\ KeepsEntry(q, Tail(q), key)
      BY <1>3, <1>4, TakeKeys
    <2> QED BY Zenon, <2>1
  <1>6. ASSUME NEW b \in Conns \ {c} PROVE Undisturbed(s, t, q, p, b)
    <2>1. b # c
      BY Zenon
    <2>2. /\ Alike(s.ring, t.ring, b, "kRead")
          /\ Alike(s.ring, t.ring, b, "kWrite")
      BY Zenon, <1>3, AlikeSame
    <2> QED BY Zenon, <1>3, <1>5, <2>1, <2>2 DEF Undisturbed
  <1>7. IsAlive(h) /\ FlowOf(s, c, q, n) /\ h.state \notin {"None", "Gone"}
    BY Zenon, <1>1 DEF GoodOps, Owned, Flow, FlowOf, IsAlive
  <1>8. Accounts(h, c, s.ring, q, n[c]) /\ Flying(s, c)
    BY Zenon, <1>7 DEF FlowOf, Flows
  <1>9. Alike(s.ring, s.ring, c, "kRead") /\ Alike(s.ring, s.ring, c, "kWrite")
    BY Zenon, AlikeSame
  <1> HIDE DEF p
  <1>10. Flying(t, c) /\ Accounts(k, c, t.ring, p, n[c])
    <2>1. CASE o.type = "kRead"
      <3>1. h.write_in_flight => /\ HasOp(t, c, "kWrite", h.write_cancel_key)
                                 /\ KeepsEntry(q, p, h.write_cancel_key)
        BY Zenon, <1>5, <1>8, <2>1 DEF Flying
      <3>2. ~k.write_faulted => Writes(k, c, s.ring, p, n[c].wire)
        BY Zenon, <1>8, <1>9, <2>1, <3>1, WritesKeep DEF Accounts
      <3>3. Flying(t, c)
        BY Zenon, <1>3, <2>1, <3>1 DEF Flying, SameWrite
      <3> QED BY Zenon, <1>3, <2>1, <3>2, <3>3 DEF Accounts, p
    <2>2. CASE o.type = "kWrite"
      <3>1. h.read_in_flight => /\ HasOp(t, c, "kRead", h.read_cancel_key)
                                /\ KeepsEntry(q, p, h.read_cancel_key)
        BY <1>5, <1>8, <2>2 DEF Flying
      <3>2. ~k.read_faulted => Reads(k, c, s.ring, p, n[c].next)
        BY Zenon, <1>8, <1>9, <2>2, <3>1, ReadsKeep DEF Accounts
      <3>3. Flying(t, c)
        BY Zenon, <1>3, <2>2, <3>1 DEF Flying, SameRead
      <3> QED BY Zenon, <1>3, <2>2, <3>2, <3>3 DEF Accounts, p
    <2> QED BY Zenon, <1>1, <2>1, <2>2
  <1>11. FlowOf(t, c, p, n)
    BY Zenon, <1>3, <1>7, <1>10 DEF FlowOf, Flows
  <1> QED BY Zenon, <1>1, <1>5, <1>6, <1>11, AssembleFlow DEF t, u, O, p

\* A step on connection c that leaves it flushed and listening.
LEMMA Settles ==
  ASSUME NEW s, NEW t, NEW q, NEW n, NEW c, FlowStep(s, t, q, n, c),
         \A b \in Conns \ {c} : Flushed(s.conn[b]) /\ Listening(s.conn[b]),
         Flushed(t.conn[c]), Listening(t.conn[c])
  PROVE  Settled(t, q, n)
  <1>1. ASSUME NEW b \in Conns PROVE Flushed(t.conn[b]) /\ Listening(t.conn[b])
    <2>1. CASE b = c
      BY Zenon, <2>1
    <2>2. CASE b # c
      <3>1. t.conn[b] = s.conn[b]
        BY Zenon, <2>2 DEF FlowStep, Others
      <3> QED BY Zenon, <2>2, <3>1
    <2> QED BY Zenon, <2>1, <2>2
  <1> QED BY Zenon, <1>1 DEF FlowStep, Settled, AllFlushed

\* A callback followed by the next read of connection c.
LEMMA ReactThenReadFlow ==
  ASSUME NEW s, NEW m, Good(s, m), NEW q \in Seq(Completion), NEW n,
         Flow(s, q, n), AllFlushed(s), NEW c \in Conns, IsAlive(s.conn[c]),
         \A b \in Conns \ {c} : Listening(s.conn[b]),
         NEW d \in Conns, NEW f \in Calls, f # NoCall => IsAlive(s.conn[d]),
         NEW full \in BOOLEAN
  PROVE  Settled(SubmitReadOnce(React(s, d, f, full), c, full), q, n)
  <1> DEFINE t == React(s, d, f, full)
             u == SubmitReadOnce(t, c, full)
  <1>1. Good(t, m) /\ StaysAlive(s, t)
    BY Zenon, ReactGood
  <1>2. Flow(t, q, n) /\ AllFlushed(t) /\ Hears(s, t)
    BY Zenon, ReactFlow
  <1> HIDE DEF t
  <1>3. GoodOps(t) /\ IsAlive(t.conn[c])
    BY Zenon, <1>1 DEF Good, StaysAlive
  <1>4. FlowStep(t, u, q, n, c) /\ Listening(u.conn[c])
    BY Zenon, <1>2, <1>3, SubmitOnceFlow
  <1> HIDE DEF u
  <1>5. Flushed(u.conn[c])
    BY Zenon, <1>2, <1>4 DEF FlowStep, Keeps, AllFlushed
  <1>6. \A b \in Conns \ {c} : Flushed(t.conn[b]) /\ Listening(t.conn[b])
    BY Zenon, <1>2 DEF AllFlushed, Hears
  <1> QED BY Zenon, <1>4, <1>5, <1>6, Settles DEF u, t

\* What taking an operation leaves of the loop state.
LEMMA TakeFields ==
  ASSUME NEW s \in LoopState, NEW o \in s.ops, NEW l \in Connection,
         NEW t, t = Put([s EXCEPT !.ops = @ \ {o}], o.self, l)
  PROVE  /\ o.self \in Conns
         /\ t.conn[o.self] = l
         /\ \A b \in Conns \ {o.self} : t.conn[b] = s.conn[b]
  <1> DEFINE O == s.ops \ {o}
             u == [s EXCEPT !.ops = O]
  <1>1. o.self \in Conns /\ O \in SUBSET Op
    BY Zenon DEF LoopState, Op
  <1> HIDE DEF O
  <1>2. u.conn = s.conn /\ u \in LoopState
    BY Zenon, <1>1 DEF LoopState
  <1>3. t = Put(u, o.self, l)
    BY Zenon DEF O
  <1> HIDE DEF u
  <1> QED BY <1>1, <1>2, <1>3 DEF Put, LoopState

\* A user callback between handlers.
LEMMA ReactSettled ==
  ASSUME NEW s, NEW m, Good(s, m), NEW q \in Seq(Completion), NEW n,
         Settled(s, q, n), NEW d \in Conns, NEW f \in Calls,
         f # NoCall => IsAlive(s.conn[d]), NEW full \in BOOLEAN
  PROVE  Settled(React(s, d, f, full), q, n)
  <1>1. Flow(s, q, n) /\ AllFlushed(s)
    BY Zenon DEF Settled
  <1> DEFINE t == React(s, d, f, full)
  <1>2. Flow(t, q, n) /\ AllFlushed(t) /\ Hears(s, t)
    BY Zenon, <1>1, ReactFlow
  <1> HIDE DEF t
  <1>3. Settled(t, q, n)
    BY Zenon, <1>2 DEF Settled, Hears
  <1> QED BY Zenon, <1>3 DEF t

\* What a completion e of a read says of the connection c, which is k: it has
\* the bytes after those in the input buffer, up to the next on the wire.
ReadTaken(k, c, e, R, next) ==
  /\ k.input = Interval(1, Len(k.input))
  /\ \A r \in R : ~(r.self = c /\ r.type = "kRead")
  /\ IF e.res > 0
     THEN e.lo = Len(k.input) + 1 /\ next = e.lo + e.res
     ELSE next = Len(k.input) + 1

\* What a completion e of a write says: the wire has the bytes before those in
\* the output buffer, and of these the ones that were written.
WriteTaken(k, c, e, R, wire) ==
  /\ First(k) \in Nat /\ First(k) # 0
  /\ wire = Interval(1, Len(wire))
  /\ k.output = Interval(First(k), Len(k.output))
  /\ k.pending = Interval(First(k) + Len(k.output), Len(k.pending))
  /\ \A r \in R : ~(r.self = c /\ r.type = "kWrite")
  /\ e.res <= Len(k.output)
  /\ Len(wire) = First(k) - 1 + (IF e.res > 0 THEN e.res ELSE 0)

\* Connecting::OnReadComplete keeps the account.
LEMMA OnReadCompleteFlow ==
  \A s, m : \A q \in Seq(Completion) : \A n : \A o \in s.ops : \A e :
  \A d \in Conns, f \in Calls, full \in BOOLEAN :
     /\ Good(s, m)
     /\ q # <<>>
     /\ Settled(s, q, n)
     /\ o.key = Head(q).key
     /\ o.completion
     /\ o.type = "kRead"
     /\ e = Head(q)
     /\ f # NoCall => IsAlive(s.conn[d])
    => Settled(OnReadComplete([s EXCEPT !.ops = @ \ {o}], o.self, e,
                              d, f, full), Tail(q), n)
  \* What the completion of a read says, if no read has faulted; once it is
  \* taken, no read of the connection is with the kernel.
  <1>ReadEntry.
      ASSUME NEW s, GoodOps(s), NEW q \in Seq(Completion), q # <<>>, NEW n,
             Flow(s, q, n), NEW o \in s.ops, o.key = Head(q).key, o.completion,
             o.type = "kRead", NEW c, c = o.self, NEW k, k = s.conn[c],
             ~k.read_faulted, NEW e, e = Head(q)
      PROVE  ReadTaken(k, c, e, s.ring, n[c].next)
    <2> USE <1>ReadEntry
    <2>1. c \in Conns /\ Owned(s, o)
      BY Zenon DEF GoodOps, LoopState, Op
    <2>2. k.state # "Gone" /\ k.read_in_flight /\ k.read_cancel_key = o.key
      BY Zenon, <2>1 DEF Owned, IsAlive
    <2>3. Reads(k, c, s.ring, q, n[c].next) /\ KeysApart(s, q)
      BY Zenon, <2>1, <2>2 DEF Flow, Flows, Accounts
    <2>4. /\ \A r \in s.ring : r.key # o.key
          /\ \A i \in 1..Len(q) : q[i].key = o.key => q[i] = Head(q)
      BY <2>3, HeadKeys
    <2>5. \A r \in s.ring : ~(r.self = c /\ r.type = "kRead")
      BY Zenon, <2>2, <2>3, <2>4 DEF Reads
    <2>6. ~Asked(s.ring, c, "kRead", k.read_cancel_key)
      BY Zenon, <2>5 DEF Asked
    <2>7. \E i \in 1..Len(q) :
            /\ q[i].key = k.read_cancel_key
            /\ IF q[i].res > 0
               THEN q[i].lo = Len(k.input) + 1 /\ n[c].next = q[i].lo + q[i].res
               ELSE n[c].next = Len(k.input) + 1
      BY Zenon, <2>2, <2>3, <2>6 DEF Reads
    <2>8. IF e.res > 0
          THEN e.lo = Len(k.input) + 1 /\ n[c].next = e.lo + e.res
          ELSE n[c].next = Len(k.input) + 1
      BY Zenon, <2>2, <2>4, <2>7
    <2>9. k.input = Interval(1, Len(k.input))
      BY Zenon, <2>3 DEF Reads
    <2> QED BY Zenon, <2>5, <2>8, <2>9 DEF ReadTaken
  \* The lengths that a read adds up.
  <1>ReadSums. /\ \A x \in Int : x > 0 => x \in Nat
               /\ \A x, y \in Nat : /\ 1 + x \in Nat /\ x + y \in Nat
                                    /\ x + 1 = 1 + x
                                    /\ (x + 1) + y = (x + y) + 1
    OBVIOUS
  \* The bytes of a read continue the input buffer.
  <1>ReadDone.
      ASSUME NEW s, GoodOps(s), NEW q \in Seq(Completion), q # <<>>, NEW n,
             Flow(s, q, n), NEW o \in s.ops, o.key = Head(q).key, o.completion,
             o.type = "kRead", ~s.conn[o.self].read_faulted,
             NEW l, ~l.read_in_flight,
             l.input = IF Head(q).res > 0
                       THEN s.conn[o.self].input \o Interval(Head(q).lo, Head(q).res)
                       ELSE s.conn[o.self].input
      PROVE  Reads(l, o.self, s.ring, Tail(q), n[o.self].next)
    <2> USE <1>ReadDone
    <2> DEFINE c == o.self
    <2>1. PICK k, e : k = s.conn[c] /\ e = Head(q)
      BY Zenon
    <2>2. c \in Conns /\ k \in Connection /\ e \in Completion
      BY <2>1 DEF GoodOps, LoopState, Op
    <2>3. k.input \in Seq(Nat) /\ e.res \in Int
      BY Zenon, <2>2 DEF Connection, Completion
    <2>4. /\ k.input = Interval(1, Len(k.input))
          /\ \A r \in s.ring : ~(r.self = c /\ r.type = "kRead")
          /\ IF e.res > 0 THEN e.lo = Len(k.input) + 1 /\ n[c].next = e.lo + e.res
             ELSE n[c].next = Len(k.input) + 1
      <3>1. ~k.read_faulted
        BY Zenon, <2>1
      <3>2. ReadTaken(k, c, e, s.ring, n[c].next)
        BY Zenon, <2>1, <3>1, <1>ReadEntry
      <3> QED BY Zenon, <3>2 DEF ReadTaken
    <2>5. PICK a \in Nat : a = Len(k.input)
      BY Zenon, <2>3, SeqLen
    <2>6. CASE e.res > 0
      <3>1. PICK b \in Nat : b = e.res
        BY Zenon, <2>3, <2>6, <1>ReadSums
      <3>2. PICK g \in Nat : g = 1 + a
        BY Zenon, <1>ReadSums
      <3>3. l.input = Interval(1, a) \o Interval(g, b)
        <4>1. e.lo = g
          BY Zenon, <2>4, <2>5, <2>6, <3>2, <1>ReadSums
        <4>2. l.input = k.input \o Interval(e.lo, e.res)
          BY Zenon, <2>1, <2>6
        <4> QED BY Zenon, <2>4, <2>5, <3>1, <4>1, <4>2
      <3>4. l.input = Interval(1, a + b)
        <4>1. 1 \in Nat
          BY Zenon
        <4>2. Interval(1, a) \o Interval(1 + a, b) = Interval(1, a + b)
          BY Zenon, <4>1, IntervalJoin
        <4> QED BY Zenon, <3>2, <3>3, <4>2
      <3>5. PICK x \in Nat : x = a + b
        BY Zenon, <1>ReadSums
      <3>6. l.input = Interval(1, x) /\ Len(l.input) = x
        <4>1. l.input = Interval(1, x)
          BY Zenon, <3>4, <3>5
        <4>2. Len(Interval(1, x)) = x
          BY Zenon, IntervalIs
        <4> QED BY Zenon, <4>1, <4>2
      <3>7. n[c].next = Len(l.input) + 1
        <4>1. n[c].next = e.lo + e.res /\ e.lo = Len(k.input) + 1
          BY Zenon, <2>4, <2>6
        <4>2. n[c].next = (a + 1) + b
          BY Zenon, <2>5, <3>1, <4>1
        <4>3. (a + 1) + b = x + 1
          BY Zenon, <3>5, <1>ReadSums
        <4> QED BY Zenon, <3>6, <4>2, <4>3
      <3>8. l.input = Interval(1, Len(l.input))
        BY Zenon, <3>6
      <3> QED BY Zenon, <2>4, <3>7, <3>8 DEF Reads
    <2>7. CASE ~(e.res > 0)
      <3>1. l.input = k.input /\ n[c].next = Len(k.input) + 1
        BY Zenon, <2>1, <2>4, <2>7
      <3> QED BY Zenon, <2>4, <3>1 DEF Reads
    <2> QED BY Zenon, <2>6, <2>7
  \* OnReadComplete, once the operation is taken and the connection is l.
  <1>AfterRead.
      ASSUME NEW s, NEW m, Good(s, m), NEW q \in Seq(Completion), q # <<>>, NEW n,
             Settled(s, q, n), NEW o \in s.ops, o.key = Head(q).key, o.completion,
             o.type = "kRead", NEW h, h = s.conn[o.self],
             NEW l \in Connection, Cancellable(l), l.state = h.state,
             SameLife(h, l), OtherFlightSame("kRead", h, l),
             SameWrite(h, l), l.write_faulted = h.write_faulted,
             ~l.read_in_flight,
             ~l.read_faulted =>
               /\ ~h.read_faulted
               /\ l.input = IF Head(q).res > 0
                            THEN h.input \o Interval(Head(q).lo, Head(q).res)
                            ELSE h.input,
             NEW t, t = Put([s EXCEPT !.ops = @ \ {o}], o.self, l)
      PROVE  /\ Good(t, m) /\ StaysAlive(s, t) /\ IsAlive(t.conn[o.self])
             /\ Flow(t, Tail(q), n)
             /\ AllFlushed(t)
             /\ \A b \in Conns \ {o.self} : Listening(t.conn[b])
             /\ o.self \in Conns /\ t.conn[o.self] = l
    <2> USE <1>AfterRead
    <2>1. /\ s \in LoopState /\ GoodOps(s) /\ Owned(s, o)
          /\ Flow(s, q, n) /\ AllFlushed(s)
      BY Zenon DEF Good, GoodOps, Settled
    <2>2. /\ o.self \in Conns /\ t.conn[o.self] = l
          /\ \A b \in Conns \ {o.self} : t.conn[b] = s.conn[b]
      BY <2>1, TakeFields
    <2>3. Good(t, m) /\ StaysAlive(s, t)
      BY Zenon, TakeOp
    <2>4. IsAlive(t.conn[o.self])
      BY Zenon, <2>1, <2>2, <2>3 DEF Owned, StaysAlive
    <2>5. Flow(t, Tail(q), n)
      <3>1. ~l.read_faulted =>
              Reads(l, o.self, s.ring, Tail(q), n[o.self].next)
        BY Zenon, <2>1, <1>ReadDone
      <3> QED BY Zenon, <2>1, <3>1, TakeFlow
    <2>6. AllFlushed(t)
      <3>1. ASSUME NEW b \in Conns PROVE Flushed(t.conn[b])
        <4>1. CASE b = o.self
          <5>1. Flushed(h)
            BY Zenon, <2>1, <2>2 DEF AllFlushed
          <5> QED BY Zenon, <2>2, <4>1, <5>1 DEF Flushed, SameWrite
        <4>2. CASE b # o.self
          BY Zenon, <2>1, <2>2, <4>2 DEF AllFlushed
        <4> QED BY Zenon, <4>1, <4>2
      <3> QED BY Zenon, <3>1 DEF AllFlushed
    <2>7. \A b \in Conns \ {o.self} : Listening(t.conn[b])
      BY Zenon, <2>2 DEF Settled
    <2> QED BY Zenon, <2>2, <2>3, <2>4, <2>5, <2>6, <2>7
  \* DoClosing leaves a connection that is no longer open.
  <1>DoClosingCloses.
      ASSUME NEW s, NEW m, Good(s, m), NEW c \in Conns, IsAlive(s.conn[c]),
             NEW full \in BOOLEAN
      PROVE  ~OpenState(DoClosing(s, c, full).conn[c])
    <2> USE <1>DoClosingCloses
    <2>1. CASE IsDisconnected(s.conn[c])
      BY Zenon, <2>1 DEF DoClosing, IsDisconnected, OpenState
    <2>2. CASE ~IsDisconnected(s.conn[c])
      <3> DEFINE t == SetDisconnected(s, c)
                 u == CancelPendingIo(t, c, full)
      <3>1. GoodOps(t)
        BY Zenon, <2>2, SetDisconnectedGood
      <3>2. t.conn[c].state = "kDisconnected"
        BY DEF SetDisconnected, Put, Good, GoodOps, LoopState, Connection
      <3>3. DoClosing(s, c, full) = DeleteConnection(u, c)
        BY Zenon, <2>2 DEF DoClosing
      <3> HIDE DEF t
      <3>4. GoodOps(u) /\ Frame(t, u)
        BY Zenon, <3>1, CancelIoGood
      <3> HIDE DEF u
      <3>5. u.conn[c].state = "kDisconnected"
        BY Zenon, <3>2, <3>4 DEF Frame, SameLife, OpenState
      <3>6. DeleteConnection(u, c).conn = u.conn
        BY Zenon, <3>4 DEF DeleteConnection, GoodOps, LoopState
      <3> QED BY <3>3, <3>5, <3>6 DEF OpenState
    <2> QED BY <2>1, <2>2
  <1> SUFFICES ASSUME NEW s, NEW m, Good(s, m), NEW q \in Seq(Completion), q # <<>>, NEW n,
                      Settled(s, q, n), NEW o \in s.ops, o.key = Head(q).key, o.completion,
                      o.type = "kRead", NEW e, e = Head(q),
                      NEW d \in Conns, NEW f \in Calls, f # NoCall => IsAlive(s.conn[d]),
                      NEW full \in BOOLEAN
               PROVE  Settled(OnReadComplete([s EXCEPT !.ops = @ \ {o}], o.self, e,
                                             d, f, full), Tail(q), n)
    OBVIOUS
  <1> DEFINE r == [s EXCEPT !.ops = @ \ {o}]
             c == o.self
             h == s.conn[c]
             k == [h EXCEPT !.read_in_flight = FALSE]
             message == Interval(e.lo, e.res)
             k1 == [k EXCEPT !.input = @ \o message]
             k2 == [k EXCEPT !.read_faulted = TRUE]
             p == Tail(q)
             v == OnReadComplete(r, c, e, d, f, full)
             \* what <1>AfterRead says of the state that t stands for
             Taken(t, l) ==
               /\ Good(t, m) /\ StaysAlive(s, t) /\ IsAlive(t.conn[c])
               /\ Flow(t, p, n)
               /\ AllFlushed(t)
               /\ \A b \in Conns \ {c} : Listening(t.conn[b])
               /\ t.conn[c] = l
  <1>1. s \in LoopState /\ GoodOps(s) /\ o \in Op /\ e \in Completion
    BY DEF Good, GoodOps, LoopState
  <1>2. c \in Conns /\ h \in Connection /\ Cancellable(h) /\ r.conn = s.conn
    BY Zenon, <1>1 DEF Op, GoodOps, LoopState
  <1>3. v = CASE e.res > 0 ->
                   SubmitReadOnce(React(Put(r, c, k1), d, f, full), c, full)
              [] e.res \in {0, ECONNRESET} ->
                   React(DoClosing(Put(r, c, k), c, full), d, f, full)
              [] e.res = EAGAIN -> SubmitReadOnce(Put(r, c, k), c, full)
              [] OTHER -> Put(r, c, k2)
    BY Zenon, <1>2 DEF OnReadComplete
  <1>4. p \in Seq(Completion) /\ e.res \in Int /\ e.lo \in Nat
    BY Zenon, <1>1, TailEntries DEF Completion
  <1> HIDE DEF v, p, r
  <1>5. /\ k \in Connection /\ Cancellable(k) /\ SameLife(h, k)
        /\ OtherFlightSame("kRead", h, k) /\ k.state = h.state
        /\ SameWrite(h, k) /\ k.write_faulted = h.write_faulted
        /\ ~k.read_in_flight
        /\ k.read_faulted = h.read_faulted /\ k.input = h.input
    <2> HIDE DEF h
    <2> QED BY Zenon, <1>2
            DEF Connection, Cancellable, SameLife, OtherFlightSame, SameWrite
  <1> HIDE DEF k
  <1>6. ASSUME NEW l \in Connection, Cancellable(l), SameLife(h, l),
               OtherFlightSame("kRead", h, l), l.state = h.state,
               SameWrite(h, l), l.write_faulted = h.write_faulted,
               ~l.read_in_flight,
               ~l.read_faulted =>
                 /\ ~h.read_faulted
                 /\ l.input = IF e.res > 0 THEN h.input \o message ELSE h.input
        PROVE  Taken(Put(r, c, l), l)
    <2>1. PICK t : t = Put(r, c, l)
      BY Zenon
    <2> HIDE DEF h
    <2>2. h = s.conn[o.self]
      BY Zenon DEF h
    <2>3. t = Put([s EXCEPT !.ops = @ \ {o}], o.self, l)
      BY Zenon, <2>1 DEF r
    <2>4. Taken(t, l)
      BY <1>6, <2>2, <2>3, <1>AfterRead DEF p
    <2> QED BY Zenon, <2>1, <2>4
  <1> HIDE DEF Taken, message
  <1>7. CASE e.res > 0
    <2> DEFINE w == k.input \o message
    <2>1. w \in Seq(Nat) /\ k1 = [k EXCEPT !.input = w]
      <3>1. e.res \in Nat /\ e.lo \in Nat
        BY <1>4, <1>7
      <3>2. message \in Seq(Nat)
        BY Zenon, <3>1, IntervalSeq DEF message
      <3> QED BY <1>5, <3>2 DEF Connection
    <2>2. w = h.input \o message
      BY Zenon, <1>5
    <2> HIDE DEF w
    <2>3. /\ k1 \in Connection /\ Cancellable(k1) /\ SameLife(k, k1)
          /\ OtherFlightSame("kRead", k, k1) /\ k1.state = k.state
          /\ SameWrite(k, k1) /\ k1.write_faulted = k.write_faulted
          /\ ~k1.read_in_flight /\ k1.read_faulted = k.read_faulted
          /\ k1.input = w
      BY Zenon, <1>5, <2>1
         DEF Connection, Cancellable, SameLife, OtherFlightSame, SameWrite
    <2> HIDE DEF k1
    <2>4. /\ SameLife(h, k1) /\ OtherFlightSame("kRead", h, k1)
          /\ SameWrite(h, k1)
      BY Zenon, <1>5, <2>3 DEF SameLife, OtherFlightSame, SameWrite, OpenState
    <2> DEFINE t == Put(r, c, k1)
    <2>5. Taken(t, k1)
      <3>1. ~k1.read_faulted => ~h.read_faulted /\ k1.input = h.input \o message
        BY Zenon, <1>5, <2>2, <2>3
      <3>2. k1.state = h.state /\ k1.write_faulted = h.write_faulted
        BY Zenon, <1>5, <2>3
      <3> HIDE DEF h
      <3> QED BY Zenon, <1>6, <1>7, <2>3, <2>4, <3>1, <3>2
    <2> HIDE DEF t
    <2>6. v = SubmitReadOnce(React(t, d, f, full), c, full)
      BY <1>3, <1>7 DEF EAGAIN, ECONNRESET, t
    <2>7. f # NoCall => IsAlive(t.conn[d])
      BY Zenon, <2>5 DEF Taken, StaysAlive
    <2>8. Settled(SubmitReadOnce(React(t, d, f, full), c, full), p, n)
      BY <1>2, <1>4, <2>5, <2>7, ReactThenReadFlow DEF Taken
    <2> QED BY Zenon, <2>6, <2>8 DEF v, r, p
  <1> DEFINE t == Put(r, c, k)
  <1>8. ASSUME ~(e.res > 0)
        PROVE  Taken(t, k)
    <2> HIDE DEF h
    <2> QED BY Zenon, <1>5, <1>6, <1>8
  <1> HIDE DEF t
  <1>9. CASE e.res \in {0, ECONNRESET}
    <2> DEFINE w == DoClosing(t, c, full)
    <2>1. v = React(w, d, f, full)
      BY <1>3, <1>9 DEF EAGAIN, ECONNRESET, t
    <2>2. Taken(t, k)
      BY <1>8, <1>9 DEF ECONNRESET
    <2>3. Good(w, m) /\ StaysAlive(t, w)
      BY <1>2, <2>2, DoClosingGood DEF Taken
    <2>4. FlowStep(t, w, p, n, c)
      BY Zenon, <1>2, <2>2, DoClosingFlow DEF Taken
    <2>5. ~OpenState(w.conn[c])
      BY <1>2, <2>2, <1>DoClosingCloses DEF Taken
    <2> HIDE DEF w
    <2>6. f # NoCall => IsAlive(w.conn[d])
      BY Zenon, <2>2, <2>3 DEF Taken, StaysAlive
    <2>7. Settled(w, p, n)
      <3>1. Flushed(w.conn[c])
        BY Zenon, <1>2, <2>2, <2>4 DEF Taken, FlowStep, Keeps, AllFlushed
      <3>2. \A b \in Conns \ {c} : Flushed(t.conn[b]) /\ Listening(t.conn[b])
        BY Zenon, <2>2 DEF Taken, AllFlushed
      <3>3. Listening(w.conn[c])
        BY Zenon, <2>5 DEF Listening
      <3> QED BY Zenon, <2>4, <3>1, <3>2, <3>3, Settles
    <2>8. Settled(React(w, d, f, full), p, n)
      BY <1>4, <2>3, <2>6, <2>7, ReactSettled
    <2> QED BY Zenon, <2>1, <2>8 DEF v, r, p
  <1>10. CASE e.res = EAGAIN
    <2> DEFINE w == SubmitReadOnce(t, c, full)
    <2>1. v = w
      BY <1>3, <1>10 DEF EAGAIN, ECONNRESET, t
    <2>2. Taken(t, k)
      BY <1>8, <1>10 DEF EAGAIN
    <2>3. GoodOps(t)
      BY Zenon, <2>2 DEF Taken, Good
    <2>4. FlowStep(t, w, p, n, c) /\ Listening(w.conn[c])
      BY Zenon, <1>2, <1>4, <2>2, <2>3, SubmitOnceFlow DEF Taken
    <2> HIDE DEF w
    <2>5. Flushed(w.conn[c])
      BY Zenon, <1>2, <2>2, <2>4 DEF Taken, FlowStep, Keeps, AllFlushed
    <2>6. \A b \in Conns \ {c} : Flushed(t.conn[b]) /\ Listening(t.conn[b])
      BY Zenon, <2>2 DEF Taken, AllFlushed
    <2>7. Settled(w, p, n)
      BY Zenon, <2>4, <2>5, <2>6, Settles
    <2> QED BY Zenon, <2>1, <2>7 DEF v, r, p
  <1>11. CASE ~(e.res > 0) /\ e.res \notin {0, ECONNRESET, EAGAIN}
    <2>1. v = Put(r, c, k2)
      BY Zenon, <1>3, <1>11
    <2>2. /\ k2 \in Connection /\ Cancellable(k2) /\ SameLife(k, k2)
          /\ OtherFlightSame("kRead", k, k2) /\ k2.state = k.state
          /\ SameWrite(k, k2) /\ k2.write_faulted = k.write_faulted
          /\ ~k2.read_in_flight /\ k2.read_faulted
      BY Zenon, <1>5
         DEF Connection, Cancellable, SameLife, OtherFlightSame, SameWrite
    <2> HIDE DEF k2
    <2>3. /\ SameLife(h, k2) /\ OtherFlightSame("kRead", h, k2)
          /\ SameWrite(h, k2)
      BY Zenon, <1>5, <2>2 DEF SameLife, OtherFlightSame, SameWrite, OpenState
    <2>4. Taken(Put(r, c, k2), k2)
      <3>1. k2.state = h.state /\ k2.write_faulted = h.write_faulted
        BY Zenon, <1>5, <2>2
      <3> HIDE DEF h
      <3> QED BY Zenon, <1>6, <2>2, <2>3, <3>1
    <2>5. ASSUME NEW b \in Conns PROVE Listening(v.conn[b])
      <3>1. CASE b = c
        <4>1. v.conn[b] = k2
          BY Zenon, <2>1, <2>4, <3>1 DEF Taken
        <4> QED BY Zenon, <2>2, <4>1 DEF Listening
      <3>2. CASE b # c
        BY Zenon, <2>1, <2>4, <3>2 DEF Taken
      <3> QED BY Zenon, <3>1, <3>2
    <2>6. Settled(v, p, n)
      BY Zenon, <2>1, <2>4, <2>5 DEF Settled, Taken
    <2> QED BY Zenon, <2>6 DEF v, r, p
  <1> QED BY <1>4, <1>7, <1>9, <1>10, <1>11

\* The output buffers of l are those of k after a write with result res.
WrittenOff(k, l, res) ==
  /\ ~l.write_in_flight
  /\ l.accepted = k.accepted
  /\ \/ /\ res > 0
        /\ l.output = Drop(k.output, res)
        /\ l.pending = k.pending
     \/ /\ res > 0
        /\ Drop(k.output, res) = <<>>
        /\ l.output = k.pending
        /\ l.pending = <<>>
     \/ /\ ~(res > 0)
        /\ l.output = k.output
        /\ l.pending = k.pending

\* Connecting::OnWriteComplete keeps the account.
LEMMA OnWriteCompleteFlow ==
  \A s, m : \A q \in Seq(Completion) : \A n : \A o \in s.ops : \A e :
  \A d \in Conns, f \in Calls, full \in BOOLEAN :
     /\ Good(s, m)
     /\ q # <<>>
     /\ Settled(s, q, n)
     /\ o.key = Head(q).key
     /\ o.completion
     /\ o.type = "kWrite"
     /\ e = Head(q)
     /\ f # NoCall => IsAlive(s.conn[d])
    => Settled(OnWriteComplete([s EXCEPT !.ops = @ \ {o}], o.self, e,
                               d, f, full), Tail(q), n)
  \* What the completion of a write says, if no write has faulted; once it is
  \* taken, no write of the connection is with the kernel.
  <1>WriteEntry.
      ASSUME NEW s, GoodOps(s), NEW q \in Seq(Completion), q # <<>>, NEW n,
             Flow(s, q, n), NEW o \in s.ops, o.key = Head(q).key, o.completion,
             o.type = "kWrite", NEW c, c = o.self, NEW k, k = s.conn[c],
             ~k.write_faulted, NEW e, e = Head(q)
      PROVE  WriteTaken(k, c, e, s.ring, n[c].wire)
    <2> USE <1>WriteEntry
    <2>1. c \in Conns /\ Owned(s, o)
      BY Zenon DEF GoodOps, LoopState, Op
    <2>2. k.state # "Gone" /\ k.write_in_flight /\ k.write_cancel_key = o.key
      BY Zenon, <2>1 DEF Owned, IsAlive
    <2>3. Writes(k, c, s.ring, q, n[c].wire) /\ KeysApart(s, q)
      BY Zenon, <2>1, <2>2 DEF Flow, Flows, Accounts
    <2>4. /\ \A r \in s.ring : r.key # o.key
          /\ \A i \in 1..Len(q) : q[i].key = o.key => q[i] = Head(q)
      BY <2>3, HeadKeys
    <2>5. \A r \in s.ring : ~(r.self = c /\ r.type = "kWrite")
      BY Zenon, <2>2, <2>3, <2>4 DEF Writes
    <2>6. ~Asked(s.ring, c, "kWrite", k.write_cancel_key)
      BY Zenon, <2>5 DEF Asked
    <2>7. \E i \in 1..Len(q) :
            /\ q[i].key = k.write_cancel_key
            /\ q[i].res <= Len(k.output)
            /\ Len(n[c].wire) =
                 First(k) - 1 + (IF q[i].res > 0 THEN q[i].res ELSE 0)
      BY Zenon, <2>2, <2>3, <2>6 DEF Writes
    <2>8. /\ e.res <= Len(k.output)
          /\ Len(n[c].wire) = First(k) - 1 + (IF e.res > 0 THEN e.res ELSE 0)
      BY Zenon, <2>2, <2>4, <2>7
    <2> QED BY Zenon, <2>3, <2>5, <2>8 DEF Writes, WriteTaken
  \* The arithmetic of a write of res bytes out of a, with b bytes pending.
  <1>WriteSums.
      ASSUME NEW accepted \in Nat, NEW a \in Nat, NEW b \in Nat, NEW res \in Int,
             NEW f \in Nat, f = accepted + 1 - a - b, f # 0, res > 0, res <= a
      PROVE  /\ res \in Nat /\ a - res \in Nat /\ f + res \in Nat /\ f + res # 0
             /\ accepted + 1 - (a - res) - b = f + res
             /\ (f + res) + (a - res) = f + a
             /\ f - 1 + res = (f + res) - 1
             /\ a - res = 0 => a = res /\ accepted + 1 - b - 0 = f + res
    BY <1>WriteSums
  \* What a write leaves is the continuation of what is on the wire.
  <1>WriteDone.
      ASSUME NEW s, GoodOps(s), NEW q \in Seq(Completion), q # <<>>, NEW n,
             Flow(s, q, n), NEW o \in s.ops, o.key = Head(q).key, o.completion,
             o.type = "kWrite", ~s.conn[o.self].write_faulted,
             NEW l, WrittenOff(s.conn[o.self], l, Head(q).res)
      PROVE  Writes(l, o.self, s.ring, Tail(q), n[o.self].wire)
    <2> USE <1>WriteDone
    <2> DEFINE c == o.self
    <2>0. PICK k, e : k = s.conn[c] /\ e = Head(q)
      BY Zenon
    <2>1. /\ c \in Conns /\ k \in Connection /\ e \in Completion
          /\ WrittenOff(k, l, e.res)
      BY <2>0 DEF GoodOps, LoopState, Op
    <2>2. /\ k.output \in Seq(Nat) /\ k.pending \in Seq(Nat) /\ e.res \in Int
          /\ k.accepted \in Nat
      BY Zenon, <2>1 DEF Connection, Completion
    <2>3. PICK A \in Nat, a \in Nat, b \in Nat, res \in Int :
            /\ A = k.accepted /\ a = Len(k.output) /\ b = Len(k.pending)
            /\ res = e.res
      <3>1. Len(k.output) \in Nat /\ Len(k.pending) \in Nat
        BY <2>2
      <3> QED BY Zenon, <2>2, <3>1
    <2>4. /\ First(k) \in Nat /\ First(k) # 0
          /\ n[c].wire = Interval(1, Len(n[c].wire))
          /\ k.output = Interval(First(k), Len(k.output))
          /\ k.pending = Interval(First(k) + Len(k.output), Len(k.pending))
          /\ \A r \in s.ring : ~(r.self = c /\ r.type = "kWrite")
          /\ e.res <= Len(k.output)
          /\ Len(n[c].wire) = First(k) - 1 + (IF e.res > 0 THEN e.res ELSE 0)
      <3>1. ~k.write_faulted
        BY Zenon, <2>0
      <3>2. WriteTaken(k, c, e, s.ring, n[c].wire)
        BY Zenon, <2>0, <3>1, <1>WriteEntry
      <3> QED BY Zenon, <3>2 DEF WriteTaken
    <2>5. PICK f \in Nat : f = First(k)
      BY Zenon, <2>4
    <2>w. PICK w : w = n[c].wire
      BY Zenon
    <2>6. /\ f # 0 /\ w = Interval(1, Len(w)) /\ f = A + 1 - a - b
          /\ k.output = Interval(f, a) /\ k.pending = Interval(f + a, b)
          /\ res <= a /\ Len(w) = f - 1 + (IF res > 0 THEN res ELSE 0)
      BY Zenon, <2>3, <2>4, <2>5, <2>w DEF First
    <2>7. ASSUME res > 0
          PROVE  /\ res \in Nat /\ a - res \in Nat /\ f + res \in Nat
                 /\ f + res # 0
                 /\ A + 1 - (a - res) - b = f + res
                 /\ (f + res) + (a - res) = f + a
                 /\ f - 1 + res = (f + res) - 1
                 /\ a - res = 0 => a = res /\ A + 1 - b - 0 = f + res
      BY <2>6, <2>7, <1>WriteSums
    <2>8. ASSUME res > 0
          PROVE  /\ Drop(k.output, res) = Interval(f + res, a - res)
                 /\ Len(Drop(k.output, res)) = a - res
                 /\ Len(w) = (f + res) - 1
      <3>1. Drop(Interval(f, a), res) = Interval(f + res, a - res)
        BY Zenon, <2>6, <2>7, <2>8, IntervalDrop
      <3>2. PICK g \in Nat, x \in Nat : g = f + res /\ x = a - res
        BY Zenon, <2>7, <2>8
      <3>3. Len(Interval(g, x)) = x
        BY Zenon, IntervalIs
      <3>4. Len(w) = f - 1 + res
        BY Zenon, <2>6, <2>8
      <3> QED BY Zenon, <2>6, <2>7, <2>8, <3>1, <3>2, <3>3, <3>4
    <2>9. CASE /\ e.res > 0
               /\ l.output = Drop(k.output, e.res)
               /\ l.pending = k.pending
      <3>1. res > 0
        BY <2>3, <2>9
      <3>2. PICK g \in Nat, x \in Nat : g = f + res /\ x = a - res
        BY <2>7, <3>1
      <3>3. g # 0 /\ l.output = Interval(g, x) /\ Len(l.output) = x
        BY Zenon, <2>3, <2>7, <2>8, <2>9, <3>1, <3>2
      <3>4. First(l) = g
        <4>1. First(l) = A + 1 - x - b
          BY Zenon, <2>1, <2>3, <2>9, <3>3 DEF First, WrittenOff
        <4> QED BY Zenon, <2>7, <3>1, <3>2, <4>1
      <3>5. l.pending = Interval(g + x, b)
        BY Zenon, <2>6, <2>7, <2>9, <3>1, <3>2
      <3>6. Len(w) = g - 1
        BY Zenon, <2>8, <3>1, <3>2
      <3>7. Writes(l, c, s.ring, Tail(q), w)
        BY Zenon, <2>1, <2>4, <2>6, <3>3, <3>4, <3>5, <3>6, IdleWrites DEF WrittenOff
      <3> QED BY Zenon, <2>w, <3>7
    <2>10. CASE /\ e.res > 0
                /\ Drop(k.output, e.res) = <<>>
                /\ l.output = k.pending
                /\ l.pending = <<>>
      <3>1. res > 0 /\ Len(<<>>) = 0
        BY <2>3, <2>10
      <3>2. a - res = 0
        BY Zenon, <2>3, <2>8, <2>10, <3>1
      <3>3. a = res /\ A + 1 - b - 0 = f + res
        BY Zenon, <2>7, <3>1, <3>2
      <3>4. PICK g \in Nat, z \in Nat : g = f + res /\ z = g + b
        BY <2>7, <3>1
      <3>5. g # 0 /\ l.output = Interval(g, b) /\ Len(w) = g - 1
        BY Zenon, <2>6, <2>7, <2>8, <2>10, <3>1, <3>3, <3>4
      <3>6. First(l) = g
        <4>1. Len(l.output) = b /\ Len(l.pending) = 0
          BY Zenon, <2>3, <2>10, <3>1
        <4>2. First(l) = A + 1 - b - 0
          BY Zenon, <2>1, <2>3, <4>1 DEF First, WrittenOff
        <4> QED BY Zenon, <3>3, <3>4, <4>2
      <3>7. l.pending = Interval(g + b, 0)
        <4>1. Interval(z, 0) = <<>>
          BY Zenon, IntervalEmpty
        <4> QED BY Zenon, <2>10, <3>4, <4>1
      <3>8. Writes(l, c, s.ring, Tail(q), w)
        BY Zenon, <2>1, <2>4, <2>6, <3>5, <3>6, <3>7, IdleWrites DEF WrittenOff
      <3> QED BY Zenon, <2>w, <3>8
    <2>11. CASE /\ ~(e.res > 0)
                /\ l.output = k.output
                /\ l.pending = k.pending
      <3>1. ~(res > 0)
        BY Zenon, <2>3, <2>11
      <3>2. Len(w) = f - 1
        <4>1. Len(w) = f - 1 + 0
          BY Zenon, <2>6, <3>1
        <4>2. f - 1 + 0 = f - 1
          OBVIOUS
        <4> QED BY Zenon, <4>1, <4>2
      <3>3. First(l) = f
        BY Zenon, <2>1, <2>5, <2>11 DEF First, WrittenOff
      <3>4. l.output = Interval(f, a) /\ l.pending = Interval(f + a, b)
        BY Zenon, <2>6, <2>11
      <3>5. Writes(l, c, s.ring, Tail(q), w)
        BY Zenon, <2>1, <2>4, <2>6, <3>2, <3>3, <3>4, IdleWrites DEF WrittenOff
      <3> QED BY Zenon, <2>w, <3>5
    <2> QED BY Zenon, <2>1, <2>9, <2>10, <2>11 DEF WrittenOff
  \* OnWriteComplete, once the operation is taken and the connection is l.
  <1>AfterWrite.
      ASSUME NEW s, NEW m, Good(s, m), NEW q \in Seq(Completion), q # <<>>, NEW n,
             Settled(s, q, n), NEW o \in s.ops, o.key = Head(q).key, o.completion,
             o.type = "kWrite", NEW h, h = s.conn[o.self],
             NEW l \in Connection, Cancellable(l), l.state = h.state,
             SameLife(h, l), OtherFlightSame("kWrite", h, l),
             SameRead(h, l), l.read_faulted = h.read_faulted,
             ~l.write_in_flight,
             ~l.write_faulted => /\ ~h.write_faulted
                                 /\ WrittenOff(h, l, Head(q).res),
             NEW t, t = Put([s EXCEPT !.ops = @ \ {o}], o.self, l)
      PROVE  /\ Good(t, m) /\ StaysAlive(s, t) /\ IsAlive(t.conn[o.self])
             /\ Flow(t, Tail(q), n)
             /\ \A b \in Conns \ {o.self} : Flushed(t.conn[b])
             /\ \A b \in Conns : Listening(t.conn[b])
             /\ o.self \in Conns /\ t.conn[o.self] = l
    <2> USE <1>AfterWrite
    <2>1. /\ s \in LoopState /\ GoodOps(s) /\ Owned(s, o) /\ Flow(s, q, n)
      BY Zenon DEF Good, GoodOps, Settled
    <2>2. /\ o.self \in Conns /\ t.conn[o.self] = l
          /\ \A b \in Conns \ {o.self} : t.conn[b] = s.conn[b]
      BY <2>1, TakeFields
    <2>3. Good(t, m) /\ StaysAlive(s, t)
      BY Zenon, TakeOp
    <2>4. IsAlive(t.conn[o.self])
      BY Zenon, <2>1, <2>2, <2>3 DEF Owned, StaysAlive
    <2>5. Flow(t, Tail(q), n)
      <3>1. ~l.write_faulted =>
              Writes(l, o.self, s.ring, Tail(q), n[o.self].wire)
        BY Zenon, <2>1, <1>WriteDone
      <3> QED BY Zenon, <2>1, <3>1, TakeFlow
    <2>6. \A b \in Conns \ {o.self} : Flushed(t.conn[b])
      BY Zenon, <2>2 DEF Settled, AllFlushed
    <2>7. ASSUME NEW b \in Conns PROVE Listening(t.conn[b])
      <3>1. CASE b = o.self
        <4>1. Listening(h)
          BY Zenon, <2>2 DEF Settled
        <4> QED BY Zenon, <2>2, <3>1, <4>1 DEF Listening, SameRead, OpenState
      <3>2. CASE b # o.self
        BY Zenon, <2>2, <3>2 DEF Settled
      <3> QED BY Zenon, <3>1, <3>2
    <2> QED BY Zenon, <2>2, <2>3, <2>4, <2>5, <2>6, <2>7
  \* The end of OnWriteComplete, with its callback, keeps the account.
  <1>AllWrittenFlow.
      ASSUME NEW s, NEW m, Good(s, m), NEW q \in Seq(Completion), NEW n,
             Settled(s, q, n), NEW c \in Conns,
             NEW d \in Conns, NEW f \in Calls, f # NoCall => IsAlive(s.conn[d]),
             NEW full \in BOOLEAN
      PROVE  Settled(AllWritten(s, c, d, f, full), q, n)
    <2> USE <1>AllWrittenFlow
    <2> DEFINE t == React(s, d, f, full)
               k == t.conn[c]
               l == [k EXCEPT !.shut = TRUE]
               u == Put(t, c, l)
    <2>1. Good(t, m)
      BY Zenon, ReactGood
    <2>2. Settled(t, q, n)
      BY Zenon, ReactSettled
    <2>3. AllWritten(s, c, d, f, full) =
            IF k.state = "kDisconnecting" /\ k.output = <<>> /\ k.pending = <<>>
            THEN u ELSE t
      BY Zenon DEF AllWritten
    <2> HIDE DEF t
    <2>4. k \in Connection /\ t \in LoopState
      BY Zenon, <2>1 DEF Good, GoodOps, LoopState
    <2>5. ASSUME k.state = "kDisconnecting"
          PROVE  Settled(u, q, n)
      <3>1. /\ l \in Connection /\ SameWrite(k, l) /\ SameRead(k, l)
            /\ l.read_faulted = k.read_faulted
            /\ l.write_faulted = k.write_faulted /\ l.state = k.state
        <4> HIDE DEF k
        <4> QED BY Zenon, <2>4 DEF Connection, SameWrite, SameRead
      <3> HIDE DEF l
      <3>2. IsAlive(k) /\ IsAlive(l)
        BY Zenon, <2>5, <3>1 DEF IsAlive
      <3>3. OpenState(l) => OpenState(k)
        BY Zenon, <3>1 DEF OpenState
      <3>4. FlowStep(t, u, q, n, c)
        BY <2>2, <2>4, <3>1, <3>2, <3>3, PutSameFlow DEF Settled
      <3> HIDE DEF u
      <3>5. Flow(u, q, n) /\ AllFlushed(u) /\ Hears(t, u)
        BY Zenon, <2>2, <3>4, FlowStepAll DEF Settled
      <3> QED BY Zenon, <2>2, <3>5 DEF Settled, Hears
    <2> HIDE DEF u
    <2> QED BY Zenon, <2>2, <2>3, <2>5
  <1> SUFFICES ASSUME NEW s, NEW m, Good(s, m), NEW q \in Seq(Completion), q # <<>>, NEW n,
                      Settled(s, q, n), NEW o \in s.ops, o.key = Head(q).key, o.completion,
                      o.type = "kWrite", NEW e, e = Head(q),
                      NEW d \in Conns, NEW f \in Calls, f # NoCall => IsAlive(s.conn[d]),
                      NEW full \in BOOLEAN
               PROVE  Settled(OnWriteComplete([s EXCEPT !.ops = @ \ {o}], o.self, e,
                                              d, f, full), Tail(q), n)
    OBVIOUS
  <1> DEFINE r == [s EXCEPT !.ops = @ \ {o}]
             c == o.self
             h == s.conn[c]
             k == [h EXCEPT !.write_in_flight = FALSE]
             left == Drop(k.output, e.res)
             k1 == [k EXCEPT !.output = left]
             k2 == [k EXCEPT !.output = k.pending, !.pending = <<>>]
             k3 == [k EXCEPT !.output = <<>>]
             k4 == [k EXCEPT !.write_faulted = TRUE]
             p == Tail(q)
             v == OnWriteComplete(r, c, e, d, f, full)
             \* what <1>AfterWrite says of the state that t stands for
             Taken(t, l) ==
               /\ Good(t, m) /\ StaysAlive(s, t) /\ IsAlive(t.conn[c])
               /\ Flow(t, p, n)
               /\ \A b \in Conns \ {c} : Flushed(t.conn[b])
               /\ \A b \in Conns : Listening(t.conn[b])
               /\ t.conn[c] = l
             \* what the record of the connection keeps
             Rest(l) ==
               /\ l \in Connection /\ Cancellable(l) /\ SameLife(k, l)
               /\ OtherFlightSame("kWrite", k, l) /\ l.state = k.state
               /\ SameRead(k, l) /\ l.read_faulted = k.read_faulted
               /\ ~l.write_in_flight /\ l.accepted = k.accepted
  <1>1. s \in LoopState /\ GoodOps(s) /\ o \in Op /\ e \in Completion
        /\ Owned(s, o)
    <2>1. GoodOps(s) /\ s \in LoopState /\ Owned(s, o)
      BY Zenon DEF Good, GoodOps
    <2>2. o \in Op /\ Head(q) \in Completion
      BY <2>1 DEF LoopState
    <2> QED BY Zenon, <2>1, <2>2
  <1>2. c \in Conns /\ h \in Connection /\ Cancellable(h) /\ r.conn = s.conn
        /\ h.write_in_flight /\ Flushed(h) /\ h.state # "Gone"
    <2>1. c \in Conns /\ h \in Connection /\ Cancellable(h) /\ r.conn = s.conn
      BY Zenon, <1>1 DEF Op, GoodOps, LoopState
    <2>2. h.write_in_flight /\ h.state # "Gone"
      BY Zenon, <1>1 DEF Owned, IsAlive
    <2> QED BY Zenon, <2>1, <2>2 DEF Settled, AllFlushed
  <1>3. v = CASE e.res > 0 /\ left # <<>> ->
                   SubmitWriteOnce(Put(r, c, k1), c, full)
              [] e.res > 0 /\ left = <<>> /\ k.pending # <<>> ->
                   SubmitWriteOnce(Put(r, c, k2), c, full)
              [] e.res > 0 /\ left = <<>> /\ k.pending = <<>> ->
                   AllWritten(Put(r, c, k3), c, d, f, full)
              [] e.res = EAGAIN -> SubmitWriteOnce(Put(r, c, k), c, full)
              [] OTHER -> Put(r, c, k4)
    BY <1>2 DEF OnWriteComplete
  <1>4. p \in Seq(Completion) /\ e.res \in Int
    BY Zenon, <1>1, TailEntries DEF Completion
  <1> HIDE DEF v, p, r
  <1>5. /\ k \in Connection /\ Cancellable(k) /\ SameLife(h, k)
        /\ OtherFlightSame("kWrite", h, k) /\ k.state = h.state
        /\ SameRead(h, k) /\ k.read_faulted = h.read_faulted
        /\ ~k.write_in_flight /\ k.accepted = h.accepted
        /\ k.output = h.output /\ k.pending = h.pending
        /\ k.write_faulted = h.write_faulted
    <2> HIDE DEF h
    <2> QED BY Zenon, <1>2
            DEF Connection, Cancellable, SameLife, OtherFlightSame, SameRead
  <1> HIDE DEF k, left
  <1>6. ASSUME NEW l, Rest(l),
               ~l.write_faulted =>
                 /\ ~k.write_faulted
                 /\ \/ /\ e.res > 0
                       /\ l.output = left
                       /\ l.pending = k.pending
                    \/ /\ e.res > 0
                       /\ left = <<>>
                       /\ l.output = k.pending
                       /\ l.pending = <<>>
                    \/ /\ ~(e.res > 0)
                       /\ l.output = k.output
                       /\ l.pending = k.pending
        PROVE  Taken(Put(r, c, l), l)
    <2>1. PICK t : t = Put(r, c, l)
      BY Zenon
    <2>2. SameLife(h, l) /\ OtherFlightSame("kWrite", h, l) /\ SameRead(h, l)
          /\ l.state = h.state /\ l.read_faulted = h.read_faulted
      BY Zenon, <1>5, <1>6 DEF SameLife, OtherFlightSame, SameRead, OpenState
    <2>3. ~l.write_faulted => ~h.write_faulted /\ WrittenOff(h, l, e.res)
      <3> HIDE DEF h
      <3> QED BY Zenon, <1>5, <1>6 DEF WrittenOff, left
    <2> HIDE DEF h
    <2>4. h = s.conn[o.self]
      BY Zenon DEF h
    <2>5. t = Put([s EXCEPT !.ops = @ \ {o}], o.self, l)
      BY Zenon, <2>1 DEF r
    <2>6. ~l.write_faulted => ~h.write_faulted /\ WrittenOff(h, l, Head(q).res)
      BY Zenon, <2>3
    <2>7. Taken(t, l)
      <3>1. l \in Connection /\ Cancellable(l) /\ ~l.write_in_flight
        BY Zenon, <1>6
      <3> QED BY <2>2, <2>4, <2>5, <2>6, <3>1, <1>AfterWrite DEF p
    <2> QED BY Zenon, <2>1, <2>7
  <1> HIDE DEF Taken
  \* The write of what is left, or again of what was not written.
  <1>7. ASSUME NEW l, Taken(Put(r, c, l), l), Flushable(l),
               v = SubmitWriteOnce(Put(r, c, l), c, full)
        PROVE  Settled(v, p, n)
    <2> DEFINE t == Put(r, c, l)
               w == SubmitWriteOnce(t, c, full)
    <2>1. GoodOps(t) /\ Flushable(t.conn[c]) /\ IsAlive(t.conn[c])
          /\ Flow(t, p, n)
      BY Zenon, <1>7 DEF Taken, Good
    <2> HIDE DEF t
    <2>2. FlowStep(t, w, p, n, c) /\ Flushed(w.conn[c])
      BY Zenon, <1>2, <1>4, <2>1, SubmitOnceFlow
    <2> HIDE DEF w
    <2>3. \A b \in Conns \ {c} : Flushed(t.conn[b]) /\ Listening(t.conn[b])
      BY Zenon, <1>7 DEF Taken, t
    <2>4. Listening(w.conn[c])
      BY Zenon, <1>2, <1>7, <2>2 DEF Taken, FlowStep, Keeps, t
    <2>5. Settled(w, p, n)
      BY Zenon, <2>2, <2>3, <2>4, Settles
    <2> QED BY Zenon, <1>7, <2>5 DEF w, t
  \* No write is in flight.
  <1>8. ASSUME NEW l, Taken(Put(r, c, l), l), Flushed(l)
        PROVE  Settled(Put(r, c, l), p, n)
    <2> DEFINE t == Put(r, c, l)
    <2> HIDE DEF t
    <2>1. ASSUME NEW b \in Conns PROVE Flushed(t.conn[b])
      <3>1. CASE b = c
        BY Zenon, <1>8, <3>1 DEF Taken, t
      <3>2. CASE b # c
        BY Zenon, <1>8, <3>2 DEF Taken, t
      <3> QED BY <3>1, <3>2
    <2>2. Settled(t, p, n)
      BY Zenon, <1>8, <2>1 DEF Taken, Settled, AllFlushed, t
    <2> QED BY Zenon, <2>2 DEF t
  <1>9. /\ k.output \in Seq(Nat) /\ k.pending \in Seq(Nat)
        /\ <<>> \in Seq(Nat)
        /\ e.res > 0 => left \in Seq(Nat)
    <2>1. k.output \in Seq(Nat) /\ k.pending \in Seq(Nat)
      BY Zenon, <1>5 DEF Connection
    <2>2. <<>> \in Seq(Nat)
      OBVIOUS
    <2>3. ASSUME e.res > 0 PROVE left \in Seq(Nat)
      <3>1. e.res \in Nat
        BY <1>4, <2>3
      <3> QED BY Zenon, <2>1, <3>1, DropSeq DEF left
    <2> QED BY Zenon, <2>1, <2>2, <2>3
  <1>10. CASE e.res > 0 /\ left # <<>>
    <2>1. v = SubmitWriteOnce(Put(r, c, k1), c, full)
      BY <1>3, <1>10 DEF EAGAIN
    <2>2. /\ Rest(k1) /\ k1.write_faulted = k.write_faulted
          /\ k1.output = left /\ k1.pending = k.pending
      BY Zenon, <1>5, <1>9, <1>10
         DEF Connection, Cancellable, SameLife, OtherFlightSame, SameRead
    <2> HIDE DEF k1
    <2>3. Taken(Put(r, c, k1), k1)
      <3> HIDE DEF Rest
      <3> QED BY Zenon, <1>6, <1>10, <2>2
    <2>4. Flushable(k1)
      BY Zenon, <1>10, <2>2 DEF Flushable
    <2> QED BY Zenon, <1>7, <2>1, <2>3, <2>4 DEF v, r, p
  <1>11. CASE e.res > 0 /\ left = <<>> /\ k.pending # <<>>
    <2>1. v = SubmitWriteOnce(Put(r, c, k2), c, full)
      BY <1>3, <1>11 DEF EAGAIN
    <2>2. /\ Rest(k2) /\ k2.write_faulted = k.write_faulted
          /\ k2.output = k.pending /\ k2.pending = <<>>
      BY Zenon, <1>5, <1>9
         DEF Connection, Cancellable, SameLife, OtherFlightSame, SameRead
    <2> HIDE DEF k2
    <2>3. Taken(Put(r, c, k2), k2)
      <3> HIDE DEF Rest
      <3> QED BY Zenon, <1>6, <1>11, <2>2
    <2>4. Flushable(k2)
      BY Zenon, <1>11, <2>2 DEF Flushable
    <2> QED BY Zenon, <1>7, <2>1, <2>3, <2>4 DEF v, r, p
  <1>12. CASE e.res > 0 /\ left = <<>> /\ k.pending = <<>>
    <2> DEFINE t == Put(r, c, k3)
    <2>1. v = AllWritten(t, c, d, f, full)
      BY <1>3, <1>12 DEF EAGAIN
    <2>2. /\ Rest(k3) /\ k3.write_faulted = k.write_faulted
          /\ k3.output = <<>> /\ k3.pending = k.pending
      BY Zenon, <1>5, <1>9
         DEF Connection, Cancellable, SameLife, OtherFlightSame, SameRead
    <2> HIDE DEF k3
    <2>3. Taken(t, k3)
      <3> HIDE DEF Rest
      <3> QED BY Zenon, <1>6, <1>12, <2>2
    <2>4. Flushed(k3)
      BY Zenon, <1>12, <2>2 DEF Flushed
    <2>5. Settled(t, p, n)
      BY Zenon, <1>8, <2>3, <2>4
    <2> HIDE DEF t
    <2>6. Good(t, m) /\ (f # NoCall => IsAlive(t.conn[d]))
      BY Zenon, <2>3 DEF Taken, StaysAlive
    <2>7. Settled(AllWritten(t, c, d, f, full), p, n)
      BY <1>2, <1>4, <2>5, <2>6, <1>AllWrittenFlow
    <2> QED BY Zenon, <2>1, <2>7 DEF v, r, p
  <1>13. CASE e.res = EAGAIN
    <2>1. v = SubmitWriteOnce(Put(r, c, k), c, full)
      BY <1>3, <1>13 DEF EAGAIN
    <2>2. Rest(k) /\ ~(e.res > 0)
      <3>1. ~(e.res > 0)
        BY <1>13 DEF EAGAIN
      <3> QED BY Zenon, <1>5, <3>1 DEF SameLife, OtherFlightSame, SameRead
    <2>3. Taken(Put(r, c, k), k)
      <3> HIDE DEF Rest
      <3> QED BY Zenon, <1>6, <2>2
    <2>4. Flushable(k)
      BY Zenon, <1>2, <1>5 DEF Flushable, Flushed
    <2> QED BY Zenon, <1>7, <2>1, <2>3, <2>4 DEF v, r, p
  <1>14. CASE ~(e.res > 0) /\ e.res # EAGAIN
    <2>1. v = Put(r, c, k4)
      BY <1>3, <1>14
    <2>2. Rest(k4) /\ k4.write_faulted
      BY Zenon, <1>5
         DEF Connection, Cancellable, SameLife, OtherFlightSame, SameRead
    <2> HIDE DEF k4
    <2>3. Taken(Put(r, c, k4), k4)
      <3> HIDE DEF Rest
      <3> QED BY Zenon, <1>6, <2>2
    <2>4. Flushed(k4)
      BY Zenon, <2>2 DEF Flushed
    <2> QED BY Zenon, <1>8, <2>1, <2>3, <2>4 DEF v, r, p
  <1> QED BY <1>4, <1>10, <1>11, <1>12, <1>13, <1>14

-----------------------------------------------------------------------------
(***************************************************************************)
(* The invariant is inductive.                                             *)
(***************************************************************************)

\* Every step of the system keeps the account.
LEMMA NextFlow ==
  FlowInv /\ [Next]_vars =>
    FlowInv'
  \* A read completion keeps the account.
  <1>ReadCompletesFlow.
      ASSUME FlowInv, NEW o \in ops, NEW d \in Conns, NEW f \in Calls,
             NEW full \in BOOLEAN, ReadCompletes(o, d, f, full)
      PROVE  Settled(Cur, cq, net)'
    <2> USE <1>ReadCompletesFlow
    <2> DEFINE s == OnReadComplete([Cur EXCEPT !.ops = @ \ {o}], o.self, Head(cq),
                                   d, f, full)
    <2>1. Head(cq) \in Completion /\ cq \in Seq(Completion) /\ cq # <<>>
      BY Zenon, TakeCqe DEF ReadCompletes, NextCqe, FlowInv, IInv, TypeOK
    <2>2. f # NoCall => IsAlive(Cur.conn[d])
      BY Zenon, CallableAlive DEF ReadCompletes
    <2>3. /\ o \in Cur.ops /\ o.completion /\ o.type = "kRead"
          /\ o.key = Head(cq).key
          /\ Good(Cur, connection_map) /\ Settled(Cur, cq, net)
      BY Zenon DEF ReadCompletes, NextCqe, Invoked, FlowInv, IInv, Cur
    <2>4. Good(s, connection_map)
      BY <2>1, <2>2, <2>3, OnReadCompleteGood
    <2>5. Settled(s, Tail(cq), net)
      BY Zenon, <2>1, <2>2, <2>3, OnReadCompleteFlow
    <2>6. Become(s) /\ cq' = Tail(cq) /\ net' = net
      BY Zenon DEF ReadCompletes, WithoutOp, Handled
    <2> HIDE DEF s
    <2>7. s \in LoopState /\ Settled(s, cq', net')
      BY Zenon, <2>4, <2>5, <2>6 DEF Good, GoodOps
    <2> QED BY <2>6, <2>7, LoopSettles
  \* A write completion keeps the account.
  <1>WriteCompletesFlow.
      ASSUME FlowInv, NEW o \in ops, NEW d \in Conns, NEW f \in Calls,
             NEW full \in BOOLEAN, WriteCompletes(o, d, f, full)
      PROVE  Settled(Cur, cq, net)'
    <2> USE <1>WriteCompletesFlow
    <2> DEFINE s == OnWriteComplete([Cur EXCEPT !.ops = @ \ {o}], o.self,
                                    Head(cq), d, f, full)
    <2>1. Head(cq) \in Completion /\ cq \in Seq(Completion) /\ cq # <<>>
      BY Zenon, TakeCqe DEF WriteCompletes, NextCqe, FlowInv, IInv, TypeOK
    <2>2. f # NoCall => IsAlive(Cur.conn[d])
      BY Zenon, CallableAlive DEF WriteCompletes
    <2>3. /\ o \in Cur.ops /\ o.completion /\ o.type = "kWrite"
          /\ o.key = Head(cq).key
          /\ Good(Cur, connection_map) /\ Settled(Cur, cq, net)
      BY Zenon DEF WriteCompletes, NextCqe, Invoked, FlowInv, IInv, Cur
    <2>4. Good(s, connection_map)
      BY Zenon, <2>1, <2>2, <2>3, OnWriteCompleteGood
    <2>5. Settled(s, Tail(cq), net)
      BY Zenon, <2>1, <2>2, <2>3, OnWriteCompleteFlow
    <2>6. Become(s) /\ cq' = Tail(cq) /\ net' = net
      BY DEF WriteCompletes, WithoutOp, Handled
    <2> HIDE DEF s
    <2>7. s \in LoopState /\ Settled(s, cq', net')
      BY Zenon, <2>4, <2>5, <2>6 DEF Good, GoodOps
    <2> QED BY Zenon, <2>6, <2>7, LoopSettles
  \* A completion whose operation has lost its completion function.
  <1>DropFlow.
      ASSUME NEW s \in LoopState, NEW q \in Seq(Completion), q # <<>>, NEW n,
             Settled(s, q, n), NEW o \in s.ops, o.key = Head(q).key, ~o.completion,
             NEW t, t.conn = s.conn, t.ops = s.ops \ {o}, t.ring = s.ring,
             t.next_key = s.next_key
      PROVE  Settled(t, Tail(q), n)
    <2> USE <1>DropFlow
    <2>1. Flow(s, q, n) /\ KeysApart(s, q)
      BY Zenon DEF Settled, Flow
    <2>2. /\ KeysApart(t, Tail(q))
          /\ \A b, type, key :
               HasOp(s, b, type, key)
                 /\ ~(o.completion /\ o.self = b /\ o.type = type) =>
               HasOp(t, b, type, key) /\ KeepsEntry(q, Tail(q), key)
      BY Zenon, <2>1, TakeKeys
    <2>3. ASSUME NEW b \in Conns PROVE Undisturbed(s, t, q, Tail(q), b)
      BY Zenon, <2>2, AlikeSame DEF Undisturbed
    <2>4. Flow(t, Tail(q), n)
      BY Zenon, <2>1, <2>2, <2>3, AssembleAll
    <2> QED BY Zenon, <2>4 DEF Settled, AllFlushed
  \* A completion nobody waits for keeps the account.
  <1>StaleCompletionFlow.
      ASSUME FlowInv, NEW o \in ops, StaleCompletion(o)
      PROVE  Settled(Cur, cq, net)'
    <2> USE <1>StaleCompletionFlow
    <2> DEFINE s == WithoutOp(o)
    <2>1. cq \in Seq(Completion) /\ cq # <<>> /\ o.key = Head(cq).key
      BY Zenon DEF StaleCompletion, NextCqe, FlowInv, IInv, TypeOK
    <2>2. Cur \in LoopState /\ GoodOps(Cur) /\ Settled(Cur, cq, net)
          /\ Cur.conn = conn /\ o \in Cur.ops
      BY Zenon DEF FlowInv, IInv, TypeOK, Good, Cur
    <2>3. ~o.completion
      <3>1. SUFFICES ASSUME o.completion PROVE FALSE
        BY Zenon
      <3>2. Owned(Cur, o) /\ o.self \in Conns
        BY <2>2, <3>1 DEF GoodOps, LoopState, Op
      <3>3. IsAlive(conn[o.self]) /\ conn[o.self].addr = o.eventer
        BY Zenon, <2>2, <3>2 DEF Owned
      <3>4. o.eventer \in states_
        BY Zenon, <3>2, <3>3 DEF states_, Alive
      <3> QED BY Zenon, <3>1, <3>4 DEF StaleCompletion, Invoked
    <2>4. /\ s \in LoopState /\ s.conn = Cur.conn /\ s.ops = Cur.ops \ {o}
          /\ s.ring = Cur.ring /\ s.next_key = Cur.next_key
      BY Zenon, <2>2 DEF WithoutOp, LoopState
    <2>5. Become(s) /\ cq' = Tail(cq) /\ net' = net
      BY Zenon DEF StaleCompletion
    <2> HIDE DEF s
    <2>6. Settled(s, Tail(cq), net)
      BY <2>1, <2>2, <2>3, <2>4, <1>DropFlow
    <2>7. Settled(s, cq', net')
      BY Zenon, <2>5, <2>6
    <2> QED BY <2>4, <2>5, <2>7, LoopSettles
  \* A step on one connection between handlers.
  <1>StepSettled.
      ASSUME NEW s, NEW t, NEW q, NEW n, NEW c \in Conns,
             FlowStep(s, t, q, n, c), Settled(s, q, n)
      PROVE  Settled(t, q, n)
    <2> USE <1>StepSettled
    <2>1. Flow(t, q, n) /\ AllFlushed(t) /\ Hears(s, t)
      BY Zenon, FlowStepAll DEF Settled
    <2> QED BY Zenon, <2>1 DEF Settled, Hears
  \* A handler run outside Poll.
  <1>TaskFlow.
      ASSUME FlowInv, NEW s, Good(s, connection_map), Settled(s, cq, net),
             NEW full, Handled(s, full), UNCHANGED <<cq, net>>
      PROVE  Settled(Cur, cq, net)'
    <2> USE <1>TaskFlow
    <2>1. s \in LoopState /\ Become(s)
      BY Zenon DEF Good, GoodOps, Handled
    <2>2. Settled(s, cq', net')
      BY Zenon
    <2> QED BY <2>1, <2>2, LoopSettles
  \* A time task of the user keeps the account.
  <1>UserTaskFlow.
      ASSUME FlowInv, NEW d \in Conns, NEW f \in Calls, NEW full \in BOOLEAN,
             UserTask(d, f, full)
      PROVE  Settled(Cur, cq, net)'
    <2> USE <1>UserTaskFlow
    <2> DEFINE s == Call(Cur, d, f, full)
    <2>1. /\ IsAlive(Cur.conn[d]) /\ f[2] \in Nat /\ cq \in Seq(Completion)
          /\ Good(Cur, connection_map) /\ Settled(Cur, cq, net)
      BY Zenon, CallableAlive, CallsType DEF UserTask, FlowInv, IInv, TypeOK
    <2>2. Good(s, connection_map)
      BY Zenon, <2>1, CallGood
    <2>3. Flow(Cur, cq, net) /\ Flushed(Cur.conn[d])
      BY Zenon, <2>1 DEF Settled, AllFlushed
    <2>4. FlowStep(Cur, s, cq, net, d)
      BY Zenon, <2>1, <2>3, CallFlow
    <2>5. Handled(s, full) /\ UNCHANGED <<cq, net>>
      BY Zenon DEF UserTask
    <2> HIDE DEF s
    <2>6. Settled(s, cq, net)
      BY Zenon, <2>1, <2>4, <1>StepSettled
    <2> QED BY <2>2, <2>5, <2>6, <1>TaskFlow
  \* A forced close between handlers.
  <1>ForceCloseFlow.
      ASSUME NEW s, NEW m, Good(s, m), NEW q, NEW n, Settled(s, q, n),
             NEW c \in Conns, IsAlive(s.conn[c]), NEW full \in BOOLEAN
      PROVE  Settled(ForceClose(s, c, full), q, n)
    <2> USE <1>ForceCloseFlow
    <2> DEFINE t == DoClosing(s, c, full)
    <2>1. ForceClose(s, c, full) = t
      BY Zenon DEF ForceClose
    <2>2. FlowStep(s, t, q, n, c)
      BY Zenon, DoClosingFlow DEF Settled
    <2> HIDE DEF t
    <2> QED BY Zenon, <2>1, <2>2, <1>StepSettled
  \* The task of ForceCloseAfter keeps the account.
  <1>DelayedCloseFlow.
      ASSUME FlowInv, NEW x \in delayed, NEW full \in BOOLEAN, DelayedClose(x, full)
      PROVE  Settled(Cur, cq, net)'
    <2> USE <1>DelayedCloseFlow
    <2> DEFINE s == [Cur EXCEPT !.delayed = @ \ {x}]
               there == {c \in Alive : conn[c].addr = x[2]}
    <2>1. /\ Cur \in LoopState /\ Good(Cur, connection_map) /\ Cur.conn = conn
          /\ Settled(Cur, cq, net)
      BY Zenon DEF FlowInv, IInv, TypeOK, Cur
    <2>2. /\ s \in LoopState /\ s.conn = Cur.conn /\ s.ops = Cur.ops
          /\ s.ops \subseteq Cur.ops /\ s.ring = Cur.ring
          /\ s.closed_fds = Cur.closed_fds /\ s.next_key = Cur.next_key
      BY Zenon, <2>1 DEF LoopState
    <2>3. Good(s, connection_map)
      BY Zenon, <2>1, <2>2, SameGood
    <2>4. Settled(s, cq, net)
      <3> HIDE DEF s
      <3>1. Flow(s, cq, net)
        BY Zenon, <2>1, <2>2, SameFlow DEF Settled
      <3> QED BY Zenon, <2>1, <2>2, <3>1 DEF Settled, AllFlushed
    <2>5. ASSUME NEW c \in there
          PROVE  c \in Conns /\ IsAlive(s.conn[c])
      BY <2>1, <2>2, <2>5 DEF Alive
    <2>6. /\ \/ Handled(s, full)
             \/ \E c \in there : Handled(ForceClose(s, c, full), full)
          /\ UNCHANGED <<cq, net>>
      BY Zenon DEF DelayedClose
    <2> HIDE DEF s, there
    <2>7. CASE Handled(s, full)
      BY <2>3, <2>4, <2>6, <2>7, <1>TaskFlow
    <2>8. CASE \E c \in there : Handled(ForceClose(s, c, full), full)
      <3>1. PICK c \in there : Handled(ForceClose(s, c, full), full)
        BY Zenon, <2>8
      <3>2. Good(ForceClose(s, c, full), connection_map)
        BY <2>3, <2>5, DoClosingGood DEF ForceClose
      <3>3. Settled(ForceClose(s, c, full), cq, net)
        BY <2>3, <2>4, <2>5, <1>ForceCloseFlow
      <3> QED BY <2>6, <3>1, <3>2, <3>3, <1>TaskFlow
    <2> QED BY <2>6, <2>7, <2>8
  \* The forced close of a connection after Quit keeps the account.
  <1>StopConnectionFlow.
      ASSUME FlowInv, NEW c \in Conns, NEW full \in BOOLEAN, StopConnection(c, full)
      PROVE  Settled(Cur, cq, net)'
    <2> USE <1>StopConnectionFlow
    <2>1. /\ IsAlive(Cur.conn[c]) /\ Good(Cur, connection_map)
          /\ Settled(Cur, cq, net)
      BY Zenon DEF StopConnection, Alive, Cur, FlowInv, IInv
    <2>2. Good(ForceClose(Cur, c, full), connection_map)
      BY Zenon, <2>1, DoClosingGood DEF ForceClose
    <2>3. Settled(ForceClose(Cur, c, full), cq, net)
      BY Zenon, <2>1, <1>ForceCloseFlow
    <2>4. Handled(ForceClose(Cur, c, full), full) /\ UNCHANGED <<cq, net>>
      BY Zenon DEF StopConnection
    <2> QED BY <2>2, <2>3, <2>4, <1>TaskFlow
  \* A new connection has the account of one that does not exist yet.
  <1>NewConnectionFlow.
      ASSUME NEW s \in LoopState, NEW q, NEW n, Settled(s, q, n),
             NEW c \in Conns, s.conn[c].state = "None",
             NEW k \in Connection, Unused(k), k.state = "kConnected"
      PROVE  LET t == Put(s, c, k)
             IN /\ Flow(t, q, n) /\ AllFlushed(t)
                /\ \A b \in Conns \ {c} : Listening(t.conn[b])
    <2> USE <1>NewConnectionFlow
    <2> DEFINE t == Put(s, c, k)
               h == s.conn[c]
    <2>1. /\ Flow(s, q, n) /\ h = Blank /\ Accounts(h, c, s.ring, q, n[c])
          /\ h.state = "None"
      BY Zenon DEF Settled, Flow, Flows
    <2>2. Unused(h)
      <3>1. Unused(Blank)
        BY Zenon DEF Blank, Unused
      <3> QED BY Zenon, <2>1, <3>1
    <2>3. SameWrite(h, k) /\ SameRead(h, k)
      <3> HIDE DEF h
      <3>1. /\ ~k.write_in_flight /\ ~h.write_in_flight
            /\ ~k.read_in_flight /\ ~h.read_in_flight
            /\ h.write_in_flight \in BOOLEAN /\ k.write_in_flight \in BOOLEAN
            /\ h.read_in_flight \in BOOLEAN /\ k.read_in_flight \in BOOLEAN
        BY Zenon, <2>1, <2>2, BlankType DEF Unused, Connection
      <3> QED BY Zenon, <2>2, <3>1 DEF Unused, SameWrite, SameRead
    <2>4. Accounts(k, c, s.ring, q, n[c])
      <3>1. /\ Alike(s.ring, s.ring, c, "kRead")
            /\ Alike(s.ring, s.ring, c, "kWrite")
            /\ KeepsEntry(q, q, h.read_cancel_key)
            /\ KeepsEntry(q, q, h.write_cancel_key)
        BY Zenon, AlikeSame, KeepsEntrySame
      <3>2. Writes(h, c, s.ring, q, n[c].wire) /\ Reads(h, c, s.ring, q, n[c].next)
        BY Zenon, <2>1, <2>2 DEF Accounts, Unused
      <3>3. Writes(k, c, s.ring, q, n[c].wire)
        BY Zenon, <2>3, <3>1, <3>2, WritesKeep
      <3>4. Reads(k, c, s.ring, q, n[c].next)
        BY Zenon, <2>3, <3>1, <3>2, ReadsKeep
      <3> QED BY Zenon, <3>3, <3>4 DEF Accounts
    <2>5. Flow(t, q, n)
      <3>1. ~k.read_in_flight /\ ~k.write_in_flight
            /\ k.state \notin {"None", "Gone"}
        BY Zenon DEF Unused
      <3> QED BY Zenon, <2>1, <2>4, <3>1, PutFlow
    <2>6. t.conn[c] = k /\ \A b \in Conns \ {c} : t.conn[b] = s.conn[b]
      BY Zenon DEF Put, LoopState
    <2> HIDE DEF t
    <2>7. ASSUME NEW b \in Conns PROVE Flushed(t.conn[b])
      <3>1. CASE b = c
        BY Zenon, <2>6, <3>1 DEF Flushed, Unused
      <3>2. CASE b # c
        BY Zenon, <2>6, <3>2 DEF Settled, AllFlushed
      <3> QED BY Zenon, <3>1, <3>2
    <2>8. \A b \in Conns \ {c} : Listening(t.conn[b])
      BY Zenon, <2>6 DEF Settled
    <2>9. AllFlushed(t)
      BY Zenon, <2>7 DEF AllFlushed
    <2> QED BY Zenon, <2>5, <2>8, <2>9 DEF t
  \* EventManager::InsertNewConnection keeps the account.
  <1>InsertNewConnectionFlow.
      ASSUME FlowInv, NEW c \in Conns, NEW a \in Addrs, NEW d \in Conns,
             NEW f \in Calls, NEW full \in BOOLEAN,
             InsertNewConnection(c, a, d, f, full)
      PROVE  Settled(Cur, cq, net)'
    <2> USE <1>InsertNewConnectionFlow
    <2> DEFINE Inserted(k) ==
                 LET t == Put(Cur, c, k)
                 IN /\ Unused(k) /\ k.state = "kConnected"
                    /\ Good(t, connection_map')
                    /\ IsAlive(t.conn[c])
                    /\ f # NoCall => IsAlive(t.conn[d])
                    /\ Handled(SubmitReadOnce(React(t, d, f, full), c, full), full)
    <2>1. IInv
      BY Zenon DEF FlowInv
    <2>2. PICK k \in Connection : Inserted(k)
      BY Zenon, <2>1, InsertedIs
    <2> DEFINE t == Put(Cur, c, k)
               s == SubmitReadOnce(React(t, d, f, full), c, full)
    <2>3. /\ Good(t, connection_map') /\ IsAlive(t.conn[c])
          /\ f # NoCall => IsAlive(t.conn[d])
          /\ Handled(s, full) /\ Unused(k) /\ k.state = "kConnected"
      BY Zenon, <2>2
    <2>4. /\ Cur \in LoopState /\ cq \in Seq(Completion) /\ Settled(Cur, cq, net)
          /\ Cur.conn[c].state = "None" /\ UNCHANGED <<cq, net>>
      BY Zenon DEF FlowInv, IInv, TypeOK, InsertNewConnection, Cur
    <2>5. /\ Flow(t, cq, net) /\ AllFlushed(t)
          /\ \A b \in Conns \ {c} : Listening(t.conn[b])
      BY Zenon, <2>3, <2>4, <1>NewConnectionFlow
    <2> HIDE DEF t
    <2>6. Good(s, connection_map')
      BY Zenon, <2>3, ReactThenRead
    <2>7. Settled(s, cq, net)
      BY Zenon, <2>3, <2>4, <2>5, ReactThenReadFlow
    <2> HIDE DEF s
    <2>8. s \in LoopState /\ Become(s)
      BY <2>3, <2>6 DEF Good, GoodOps, Handled
    <2>9. Settled(s, cq', net')
      BY Zenon, <2>4, <2>7
    <2> QED BY <2>8, <2>9, LoopSettles
  <1> SUFFICES ASSUME FlowInv, [Next]_vars
               PROVE  FlowInv'
    BY Zenon
  <1>1. IInv'
    BY Zenon, NextIInv DEF FlowInv
  <1>2. SUFFICES Settled(Cur, cq, net)'
    BY Zenon, <1>1 DEF FlowInv
  <1>3. CASE HandleCqe
    <2>1. PICK o \in ops :
            \/ StaleCompletion(o)
            \/ \E d \in Conns, f \in Calls, full \in BOOLEAN :
                 \/ ReadCompletes(o, d, f, full)
                 \/ WriteCompletes(o, d, f, full)
      BY Zenon, <1>3 DEF HandleCqe
    <2> QED BY Zenon, <2>1, <1>StaleCompletionFlow, <1>ReadCompletesFlow,
               <1>WriteCompletesFlow
  <1>4. CASE RunTimeTask
    BY Zenon, <1>4, <1>UserTaskFlow, <1>DelayedCloseFlow, <1>InsertNewConnectionFlow
       DEF RunTimeTask
  <1>5. CASE EndIteration
    BY Zenon, <1>5, DestroyFlow DEF EndIteration
  <1>6. CASE StopAll
    BY Zenon, <1>6, <1>StopConnectionFlow DEF StopAll
  <1>7. CASE DrainOnce
    BY Zenon, <1>7, DestroyFlow DEF DrainOnce
  <1>8. CASE EndPoll \/ BeginDrain \/ Exit \/ Quit \/ Terminated
             \/ UNCHANGED vars
    <2>1. UNCHANGED <<loopVars, cq, net>>
      BY Zenon, <1>8 DEF EndPoll, BeginDrain, Exit, Quit, Terminated, vars
    <2> QED BY Zenon, <2>1, IdleFlow
  <1>9. CASE Kernel
    BY Zenon, <1>9, KernelFlow
  <1>10. CASE Peer
    BY Zenon, <1>10, PeerFlow
  <1> QED BY Zenon, <1>3, <1>4, <1>5, <1>6, <1>7, <1>8, <1>9, <1>10 DEF Next

\* The account of every byte holds in every reachable state.
THEOREM FlowInductive == Spec => []FlowInv
  <1>1. Init => FlowInv
    BY Zenon, InitFlow
  <1>2. FlowInv /\ [Next]_vars => FlowInv'
    BY Zenon, NextFlow
  <1> QED BY <1>1, <1>2, PTL DEF Spec

\* Until a write fails, is refused or is cancelled, the peer of a connection
\* gets the bytes given to Send in order, none lost and none twice, and the
\* rest is in the two output buffers (Connecting::Send, OnWriteComplete), for
\* any number of connections, messages, short writes and faults elsewhere.
THEOREM SpecOutputConserved == Spec => []OutputConserved
  <1>1. FlowInv => OutputConserved
    BY FlowImplies
  <1> QED BY <1>1, FlowInductive, PTL

\* Bytes in an output buffer of an open connection have a write in flight
\* that will move them (Send, OnWriteComplete, SubmitWriteOnce).
THEOREM SpecNoStalledOutput == Spec => []NoStalledOutput
  <1>1. FlowInv => NoStalledOutput
    BY FlowImplies
  <1> QED BY <1>1, FlowInductive, PTL

\* An open connection has a read in flight, whatever was read before
\* (OnEstablishing, OnReadComplete, SubmitReadOnce).
THEOREM SpecNeverDeaf == Spec => []NeverDeaf
  <1>1. FlowInv => NeverDeaf
    BY FlowImplies
  <1> QED BY <1>1, FlowInductive, PTL

\* Every byte that the kernel has read for an open connection is in its input
\* buffer, in order, or in the one completion that will be delivered to it
\* (OnReadComplete, Poller::HandleCqe).
THEOREM SpecInputConserved == Spec => []InputConserved
  <1>1. FlowInv => InputConserved
    BY Zenon, FlowImplies
  <1> QED BY <1>1, FlowInductive, PTL

=============================================================================
