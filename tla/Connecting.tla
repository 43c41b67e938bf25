----------------------------- MODULE Connecting -----------------------------
(***************************************************************************)
(* The TCP connections of one event loop: class Connecting, the part of    *)
(* class Poller that owns their io_uring operations, and the part of class *)
(* EventManager that inserts and destroys them.                            *)
(*                                                                         *)
(* One thread runs the loop, so a completion handler or a time task is one *)
(* step; the kernel (which executes requests and posts completions) and    *)
(* the peers interleave with it freely.  The handlers are operators from a *)
(* loop state to a loop state (a record with the fields of LoopState), so  *)
(* that an action is the whole handler, user callback included.            *)
(*                                                                         *)
(* The read path is the one-shot readv: IORING_OP_RECV_MULTISHOT, which    *)
(* guards the multishot path, is not a macro of linux/io_uring.h.          *)
(***************************************************************************)
EXTENDS Integers, Sequences, FiniteSets

CONSTANTS
  Conns,                \* connections, one value per object ever constructed
  Addrs,                \* memory blocks a connection object can be built in
  Fds,                  \* file descriptors
  Api,                  \* the functions of Connecting that the user calls
  Env,                  \* the other events: Quit, PeerClose, PeerReset
  CloseOnHighWater,     \* does the high-water-mark callback force a close?
  HighWaterMark,        \* high_water_mark_, in bytes
  MaxPendingIoRetries,  \* kMaxPendingIoRetries
  MaxKey,               \* bound on the operation keys handed out
  MaxSend,              \* bound on the bytes the user sends per connection
  MaxMessage,           \* bound on the bytes of one Send
  MaxRecv,              \* bound on the bytes a peer sends per connection
  MaxFaults             \* bound on full submission queues and failed I/O

\* "Stop" is StopReading, StopWriting and StopReadingWriting, which are the
\* same function under three names.
ApiFunctions == {"Send", "ShutDownWrite", "ForceClose", "ForceCloseAfter",
                 "Stop", "StartReading", "StartWriting"}

ASSUME BoundsAssumption ==
  /\ Api \subseteq ApiFunctions
  /\ Env \subseteq {"Quit", "PeerClose", "PeerReset"}
  /\ {MaxPendingIoRetries, MaxKey, MaxSend, MaxMessage, MaxRecv, MaxFaults,
      HighWaterMark} \subseteq Nat
  /\ CloseOnHighWater \in BOOLEAN
  /\ 0 \notin Conns \cup Addrs \cup Fds

VARIABLES
  conn,          \* the Connecting objects
  connection_map,\* EventManager::connection_map_, fd -> connection or NoConn
  closed_fds,    \* EventManager::closed_fds_
  delayed,       \* time tasks of ForceCloseAfter, each holding a raw `this`
  ops,           \* Poller::ops_
  next_key,      \* Poller::next_key_
  ring,          \* requests the kernel has not completed
  cq,            \* completion queue
  net,           \* the socket and its peer, per connection
  phase,         \* where EventManager::Start is
  should_quit,   \* EventManager::should_quit_
  faults         \* faults injected so far

loopVars == <<conn, closed_fds, delayed, ops, next_key, ring>>
vars == <<loopVars, connection_map, cq, net, phase, should_quit, faults>>

NoConn == 0
NoAddr == 0
NoFd == 0
\* Results of a completion that are not byte counts: the three classes that
\* the handlers tell apart, and a cancelled request.
EAGAIN == -1
ECONNRESET == -2
EOTHER == -3
ECANCELED == -4

States == {"None", "kConnecting", "kConnected", "kDisconnecting",
           "kDisconnected", "Gone"}
Phases == {"Poll", "Tasks", "Stop", "Drain", "Exit"}

\* Byte i of what was handed to Send; byte 0 is the content of freed memory.
Interval(lo, n) == [i \in 1..n |-> lo + i - 1]
Drop(q, n) == SubSeq(q, n + 1, Len(q))

Connection ==
  [state : States, fd : Fds \cup {NoFd}, addr : Addrs \cup {NoAddr},
   read_in_flight : BOOLEAN, read_cancel_key : Nat,
   write_in_flight : BOOLEAN, write_cancel_key : Nat,
   output : Seq(Nat), pending : Seq(Nat), input : Seq(Nat),
   retries : Nat,
   accepted : Nat,       \* history: bytes Send has accepted
   told : Seq({"up", "down", "close"}), \* history: callbacks made
   shut : BOOLEAN,       \* history: ShutdownWrite was called
   read_faulted : BOOLEAN,  \* history: a read, or a write, was cancelled,
   write_faulted : BOOLEAN] \* refused for a full queue or failed for good

\* An object that does not exist, not yet or no longer.
Blank ==
  [state |-> "None", fd |-> NoFd, addr |-> NoAddr,
   read_in_flight |-> FALSE, read_cancel_key |-> 0,
   write_in_flight |-> FALSE, write_cancel_key |-> 0,
   output |-> <<>>, pending |-> <<>>, input |-> <<>>, retries |-> 0,
   accepted |-> 0, told |-> <<>>, shut |-> FALSE,
   read_faulted |-> FALSE, write_faulted |-> FALSE]

\* avail: bytes sent by the peer and not yet read, of which the first has
\* number next; wire: bytes the kernel has taken for sending.
Socket == [avail : Nat, next : Nat, eof : BOOLEAN, reset : BOOLEAN,
           wire : Seq(Nat)]
NewSocket == [avail |-> 0, next |-> 1, eof |-> FALSE, reset |-> FALSE,
              wire |-> <<>>]

Op == [key : Nat, type : {"kRead", "kWrite"}, self : Conns,
       eventer : Addrs \cup {NoAddr}, completion : BOOLEAN]
Request == [key : Nat, type : {"kRead", "kWrite"}, self : Conns,
            data : Seq(Nat), cancel : BOOLEAN]
Completion == [key : Nat, res : Int, lo : Nat]

LoopState ==
  [conn : [Conns -> Connection], closed_fds : SUBSET Fds,
   delayed : SUBSET (Conns \X (Addrs \cup {NoAddr})), ops : SUBSET Op,
   next_key : Nat,
   ring : SUBSET Request]

Cur == [conn |-> conn, closed_fds |-> closed_fds, delayed |-> delayed,
        ops |-> ops, next_key |-> next_key, ring |-> ring]

Become(s) ==
  /\ conn' = s.conn
  /\ closed_fds' = s.closed_fds
  /\ delayed' = s.delayed
  /\ ops' = s.ops
  /\ next_key' = s.next_key
  /\ ring' = s.ring

IsAlive(k) == k.state \notin {"None", "Gone"}
Alive == {c \in Conns : IsAlive(conn[c])}
IsDisconnected(k) == k.state = "kDisconnected"
HasPendingIo(k) == k.read_in_flight \/ k.write_in_flight

\* Loop state s with k in place of connection c.
Put(s, c, k) == [s EXCEPT !.conn[c] = k]

-----------------------------------------------------------------------------
(***************************************************************************)
(* Poller.  `full` says that io_uring_get_sqe finds no free entry while    *)
(* the handler runs.                                                       *)
(***************************************************************************)

\* The addresses of the registered eventers: an Eventer enters states_ when
\* it is constructed and leaves it when it is destroyed.
states_ == {conn[c].addr : c \in Alive}

\* SubmitRead and SubmitWrite after NormalizeKey: without and with a free
\* entry.
SkipKey(s) == [s EXCEPT !.next_key = @ + 1]
SubmitOp(s, c, type, data) ==
  [s EXCEPT
    !.ops = @ \cup {[key |-> s.next_key, type |-> type, self |-> c,
                     eventer |-> s.conn[c].addr, completion |-> TRUE]},
    !.ring = @ \cup {[key |-> s.next_key, type |-> type, self |-> c,
                      data |-> data, cancel |-> FALSE]},
    !.next_key = @ + 1]

\* Mutant: a cancelled operation keeps its pointers.
CancelOpKeepsPointers(s, key, full) ==
  [s EXCEPT !.ring = {IF r.key = key THEN [r EXCEPT !.cancel = TRUE]
                      ELSE r : r \in @}]

\* The operation stays in ops_ until its completion arrives, but without the
\* pointers into the connection.
CancelOp(s, key, full) ==
  [s EXCEPT
    !.ops = {IF o.key = key
             THEN [o EXCEPT !.eventer = NoAddr, !.completion = FALSE]
             ELSE o : o \in @},
    !.ring = {IF r.key = key /\ ~full THEN [r EXCEPT !.cancel = TRUE]
              ELSE r : r \in @}]

-----------------------------------------------------------------------------
(***************************************************************************)
(* Connecting.                                                             *)
(***************************************************************************)

\* Mutant: a refused read leaves an error code as its key.
SubmitReadErrorAsKey(s, c, full) ==
  LET k == s.conn[c]
  IN IF k.read_in_flight
     THEN s
     ELSE IF full
     THEN Put(SkipKey(s), c, [k EXCEPT !.read_cancel_key = -1])
     ELSE Put(SubmitOp(s, c, "kRead", <<>>), c,
              [k EXCEPT !.read_in_flight = TRUE,
                        !.read_cancel_key = s.next_key])

SubmitReadOnce(s, c, full) ==
  LET k == s.conn[c]
  IN IF k.read_in_flight
     THEN s
     ELSE IF full
     THEN Put(SkipKey(s), c, [k EXCEPT !.read_cancel_key = 0,
                                       !.read_faulted = TRUE])
     ELSE Put(SubmitOp(s, c, "kRead", <<>>), c,
              [k EXCEPT !.read_in_flight = TRUE,
                        !.read_cancel_key = s.next_key])

SubmitWriteOnce(s, c, full) ==
  LET k == s.conn[c]
  IN IF k.write_in_flight \/ k.output = <<>>
     THEN s
     ELSE IF full
     THEN Put(SkipKey(s), c, [k EXCEPT !.write_cancel_key = 0,
                                       !.write_faulted = TRUE])
     ELSE Put(SubmitOp(s, c, "kWrite", k.output), c,
              [k EXCEPT !.write_in_flight = TRUE,
                        !.write_cancel_key = s.next_key])

CancelRead(s, c, full) ==
  LET k == s.conn[c]
  IN IF k.read_in_flight
     THEN Put(CancelOp(s, k.read_cancel_key, full), c,
              [k EXCEPT !.read_in_flight = FALSE, !.read_cancel_key = 0,
                        !.read_faulted = TRUE])
     ELSE s

CancelWrite(s, c, full) ==
  LET k == s.conn[c]
  IN IF k.write_in_flight
     THEN Put(CancelOp(s, k.write_cancel_key, full), c,
              [k EXCEPT !.write_in_flight = FALSE, !.write_cancel_key = 0,
                        !.write_faulted = TRUE])
     ELSE s

CancelPendingIo(s, c, full) == CancelWrite(CancelRead(s, c, full), c, full)

SetDisconnected(s, c) ==
  Put(s, c, [s.conn[c] EXCEPT !.state = "kDisconnected",
                              !.told = @ \o <<"down", "close">>])
DeleteConnection(s, c) == [s EXCEPT !.closed_fds = @ \cup {s.conn[c].fd}]

\* Mutant: the test of kDisconnected is missing.
DoClosingAgain(s, c, full) ==
  DeleteConnection(CancelPendingIo(SetDisconnected(s, c), c, full), c)

\* The second CancelPendingIo of the code finds nothing left to cancel.  The
\* object stays in the map until DestroyClosedConnections.
DoClosing(s, c, full) ==
  IF IsDisconnected(s.conn[c])
  THEN s
  ELSE DeleteConnection(CancelPendingIo(SetDisconnected(s, c), c, full), c)

\* The state is kDisconnecting only until DoClosing replaces it.
ForceClose(s, c, full) == DoClosing(s, c, full)

\* HighWaterMarkCallback_ runs inside Send, before the message is queued.
Send(s, c, n, full) ==
  LET queued == Len(s.conn[c].output) + Len(s.conn[c].pending)
      crossed == queued + n >= HighWaterMark /\ queued < HighWaterMark
      t == IF crossed /\ CloseOnHighWater THEN ForceClose(s, c, full) ELSE s
      k == [t.conn[c] EXCEPT !.accepted = @ + n]
      message == Interval(s.conn[c].accepted + 1, n)
  IN IF s.conn[c].state # "kConnected"
     THEN s
     ELSE IF k.write_in_flight
     THEN Put(t, c, [k EXCEPT !.pending = @ \o message])
     ELSE SubmitWriteOnce(Put(t, c, [k EXCEPT !.output = @ \o message]),
                          c, full)

\* No connection ever enables write events on its eventer, so the test of
\* HasWriteEvents always finds them disabled.
ShutDownWrite(s, c) ==
  IF s.conn[c].state = "kConnected"
  THEN Put(s, c, [s.conn[c] EXCEPT !.state = "kDisconnecting", !.shut = TRUE])
  ELSE s

ForceCloseAfter(s, c) ==
  IF IsDisconnected(s.conn[c])
  THEN s
  ELSE [s EXCEPT !.delayed = @ \cup {<<c, s.conn[c].addr>>}]

\* A call of the user on connection c: <<function, bytes to send>>.
Call(s, c, f, full) ==
  CASE f[1] = "Send" -> Send(s, c, f[2], full)
    [] f[1] = "ShutDownWrite" -> ShutDownWrite(s, c)
    [] f[1] = "ForceClose" -> ForceClose(s, c, full)
    [] f[1] = "ForceCloseAfter" -> ForceCloseAfter(s, c)
    [] f[1] = "Stop" -> CancelPendingIo(s, c, full)
    [] f[1] = "StartReading" -> SubmitReadOnce(s, c, full)
    [] f[1] = "StartWriting" -> SubmitWriteOnce(s, c, full)
    [] OTHER -> s

NoCall == <<"none", 0>>
Calls == {NoCall} \cup ((Api \ {"Send"}) \X {0})
           \cup ((Api \cap {"Send"}) \X (1..MaxMessage))
MayCall(d, f, targets) ==
  f # NoCall => /\ d \in targets
                /\ f[1] = "Send" => conn[d].accepted + f[2] <= MaxSend

\* What a user callback does: one call, on its own or on another connection.
React(s, d, f, full) == IF f = NoCall THEN s ELSE Call(s, d, f, full)

\* Mutants: the next read is not submitted after a message; new input
\* replaces the old.
OnReadCompleteNoRearm(s, c, e, d, f, full) ==
  LET k == [s.conn[c] EXCEPT !.read_in_flight = FALSE]
      message == Interval(e.lo, e.res)
  IN IF e.res > 0
     THEN React(Put(s, c, [k EXCEPT !.input = @ \o message]), d, f, full)
     ELSE DoClosing(Put(s, c, k), c, full)
OnReadCompleteReplaces(s, c, e, d, f, full) ==
  LET k == [s.conn[c] EXCEPT !.read_in_flight = FALSE]
      t == Put(s, c, [k EXCEPT !.input = Interval(e.lo, e.res)])
  IN IF e.res > 0
     THEN SubmitReadOnce(React(t, d, f, full), c, full)
     ELSE DoClosing(Put(s, c, k), c, full)

\* The next read is submitted whatever the message callback has done to the
\* connection.  An error of no known class is only logged (DoWithError).
OnReadComplete(s, c, e, d, f, full) ==
  LET k == [s.conn[c] EXCEPT !.read_in_flight = FALSE]
      t == Put(s, c, k)
      message == Interval(e.lo, e.res)
      u == Put(s, c, [k EXCEPT !.input = @ \o message])
  IN CASE e.res > 0 -> SubmitReadOnce(React(u, d, f, full), c, full)
       [] e.res \in {0, ECONNRESET} -> React(DoClosing(t, c, full), d, f, full)
       [] e.res = EAGAIN -> SubmitReadOnce(t, c, full)
       [] OTHER -> Put(s, c, [k EXCEPT !.read_faulted = TRUE])

\* WriteCompleteCallback_ and the shutdown that was put off.
AllWritten(s, c, d, f, full) ==
  LET t == React(s, d, f, full)
      k == t.conn[c]
  IN IF k.state = "kDisconnecting" /\ k.output = <<>> /\ k.pending = <<>>
     THEN Put(t, c, [k EXCEPT !.shut = TRUE])
     ELSE t

\* Mutants: a partial write empties the buffer; the pending buffer is
\* forgotten.
OnWriteCompleteRefreshesAll(s, c, e, d, f, full) ==
  LET k == [s.conn[c] EXCEPT !.write_in_flight = FALSE, !.pending = <<>>]
      t == Put(s, c, [k EXCEPT !.output = s.conn[c].pending])
  IN IF e.res > 0 /\ s.conn[c].pending # <<>> THEN SubmitWriteOnce(t, c, full)
     ELSE AllWritten(t, c, d, f, full)
OnWriteCompleteNoSwap(s, c, e, d, f, full) ==
  LET k == [s.conn[c] EXCEPT !.write_in_flight = FALSE]
      t == Put(s, c, [k EXCEPT !.output = Drop(@, e.res)])
  IN CASE e.res > 0 /\ t.conn[c].output # <<>> -> SubmitWriteOnce(t, c, full)
       [] e.res > 0 /\ t.conn[c].output = <<>> -> AllWritten(t, c, d, f, full)
       [] OTHER -> Put(s, c, [k EXCEPT !.write_faulted = TRUE])

OnWriteComplete(s, c, e, d, f, full) ==
  LET k == [s.conn[c] EXCEPT !.write_in_flight = FALSE]
      left == Drop(k.output, e.res)
  IN CASE e.res > 0 /\ left # <<>> ->
            SubmitWriteOnce(Put(s, c, [k EXCEPT !.output = left]), c, full)
       [] e.res > 0 /\ left = <<>> /\ k.pending # <<>> ->
            SubmitWriteOnce(Put(s, c, [k EXCEPT !.output = k.pending,
                                                !.pending = <<>>]), c, full)
       [] e.res > 0 /\ left = <<>> /\ k.pending = <<>> ->
            AllWritten(Put(s, c, [k EXCEPT !.output = <<>>]), c, d, f, full)
       [] e.res = EAGAIN -> SubmitWriteOnce(Put(s, c, k), c, full)
       [] OTHER -> Put(s, c, [k EXCEPT !.write_faulted = TRUE])

OnEstablishing(s, c, d, f, full) ==
  LET t == Put(s, c, [s.conn[c] EXCEPT !.state = "kConnected",
                                       !.told = Append(@, "up")])
  IN SubmitReadOnce(React(t, d, f, full), c, full)

-----------------------------------------------------------------------------
(***************************************************************************)
(* The event loop.                                                         *)
(***************************************************************************)

CountFault(full) ==
  /\ full => faults < MaxFaults
  /\ faults' = faults + (IF full THEN 1 ELSE 0)

\* A handler ends in loop state s; next_key is bounded here.
Handled(s, full) ==
  /\ s.next_key <= MaxKey + 1
  /\ Become(s)
  /\ CountFault(full)

Polling ==
  \/ phase = "Poll"
  \/ /\ phase = "Drain"
     /\ \/ \E f \in Fds : connection_map[f] # NoConn
        \/ closed_fds # {}

\* HandleCqe calls the completion function only in this case.
Invoked(o) == o.completion /\ o.eventer \in states_

NextCqe(o) == cq # <<>> /\ o \in ops /\ o.key = Head(cq).key

\* LookupOp has taken the operation out of ops_.
WithoutOp(o) == [Cur EXCEPT !.ops = @ \ {o}]

ReadCompletes(o, d, f, full) ==
  /\ Polling
  /\ NextCqe(o)
  /\ Invoked(o)
  /\ o.type = "kRead"
  /\ f # NoCall => Head(cq).res >= 0 \/ Head(cq).res = ECONNRESET
  /\ MayCall(d, f, Alive)
  /\ Handled(OnReadComplete(WithoutOp(o), o.self, Head(cq), d, f, full), full)
  /\ cq' = Tail(cq)
  /\ UNCHANGED <<connection_map, net, phase, should_quit>>

WriteCompletes(o, d, f, full) ==
  /\ Polling
  /\ NextCqe(o)
  /\ Invoked(o)
  /\ o.type = "kWrite"
  /\ f # NoCall => /\ Head(cq).res >= Len(conn[o.self].output)
                   /\ conn[o.self].pending = <<>>
  /\ MayCall(d, f, Alive)
  /\ Handled(OnWriteComplete(WithoutOp(o), o.self, Head(cq), d, f, full), full)
  /\ cq' = Tail(cq)
  /\ UNCHANGED <<connection_map, net, phase, should_quit>>

\* A completion nobody waits for: the operation was cancelled or its eventer
\* is gone.
StaleCompletion(o) ==
  /\ Polling
  /\ NextCqe(o)
  /\ ~Invoked(o)
  /\ Become(WithoutOp(o))
  /\ cq' = Tail(cq)
  /\ UNCHANGED <<connection_map, net, phase, should_quit, faults>>

\* Poll returns: no completion left, or its batch limit, time budget or
\* timeout is reached.
EndPoll ==
  /\ phase = "Poll"
  /\ phase' = "Tasks"
  /\ UNCHANGED <<loopVars, connection_map, cq, net, should_quit, faults>>

FreeFds == {f \in Fds : \A c \in Alive : conn[c].fd # f}

Construct(c, fd, a) ==
  Put(Cur, c, [Blank EXCEPT !.state = "kConnecting", !.fd = fd, !.addr = a])

\* The task that AcceptNewConnectionCallback hands to the loop: the kernel
\* has given a free descriptor, the allocator a free block.
InsertNewConnection(c, a, d, f, full) ==
  /\ phase = "Tasks"
  /\ conn[c].state = "None"
  /\ a \notin states_
  /\ MayCall(d, f, Alive \cup {c})
  /\ \E fd \in FreeFds :
       /\ Handled(OnEstablishing(Construct(c, fd, a), c, d, f, full), full)
       /\ connection_map' = [connection_map EXCEPT ![fd] = c]
  /\ UNCHANGED <<cq, net, phase, should_quit>>

\* A time task of the user.
UserTask(d, f, full) ==
  /\ phase = "Tasks"
  /\ f # NoCall
  /\ MayCall(d, f, Alive)
  /\ Handled(Call(Cur, d, f, full), full)
  /\ UNCHANGED <<connection_map, cq, net, phase, should_quit>>

\* The task of ForceCloseAfter acts on whatever is at the address it holds;
\* the state_ of a freed block still reads kDisconnected.
DelayedClose(x, full) ==
  LET s == [Cur EXCEPT !.delayed = @ \ {x}]
      there == {c \in Alive : conn[c].addr = x[2]}
  IN /\ phase = "Tasks"
     /\ x \in delayed
     /\ IF there = {}
        THEN Handled(s, full)
        ELSE \E c \in there : Handled(ForceClose(s, c, full), full)
     /\ UNCHANGED <<connection_map, cq, net, phase, should_quit>>

Quit ==
  /\ "Quit" \in Env
  /\ ~should_quit
  /\ should_quit' = TRUE
  /\ UNCHANGED <<loopVars, connection_map, cq, net, phase, faults>>

\* Every descriptor of closed_fds_ is looked at once: a closed connection
\* with I/O pending is kept for another round, up to a limit; the others are
\* erased and destroyed, and ~Connecting cancels what is still pending.
Doomed(f) ==
  LET c == connection_map[f]
  IN /\ f \in closed_fds
     /\ c # NoConn
     /\ IsDisconnected(conn[c])
\* Mutant: the rounds are not counted.
BumpNothing(k) == k
BumpPendingIoWait(k) == [k EXCEPT !.retries = @ + 1]

Kept(f) ==
  LET c == connection_map[f]
  IN /\ Doomed(f)
     /\ HasPendingIo(conn[c])
     /\ conn[c].retries < MaxPendingIoRetries

\* Mutant: a descriptor that is waited for is dropped from closed_fds_.
DestroyDropsKept ==
  LET gone == {f \in Fds : Doomed(f) /\ ~Kept(f)}
      dead == {connection_map[f] : f \in gone}
  IN /\ conn' = [c \in Conns |->
          IF c \in dead
          THEN [Blank EXCEPT !.state = "Gone", !.told = conn[c].told]
          ELSE conn[c]]
     /\ connection_map' = [f \in Fds |-> IF f \in gone THEN NoConn
                                         ELSE connection_map[f]]
     /\ closed_fds' = {}
     /\ UNCHANGED <<ops, ring, delayed, next_key, cq, net, should_quit,
                    faults>>

DestroyClosedConnections ==
  LET kept == {f \in Fds : Kept(f)}
      erased == {f \in Fds : Doomed(f)} \ kept
      waiting == {connection_map[f] : f \in kept}
      dead == {connection_map[f] : f \in erased}
      \* the keys that ~Connecting passes to CancelOp
      keys == {conn[c].read_cancel_key :
                 c \in {b \in dead : conn[b].read_in_flight}}
              \cup {conn[c].write_cancel_key :
                      c \in {b \in dead : conn[b].write_in_flight}}
  IN /\ conn' = [c \in Conns |->
          CASE c \in waiting -> BumpPendingIoWait(conn[c])
            [] c \in dead -> [Blank EXCEPT !.state = "Gone",
                                           !.told = conn[c].told]
            [] OTHER -> conn[c]]
     /\ connection_map' = [f \in Fds |-> IF f \in erased THEN NoConn
                                         ELSE connection_map[f]]
     /\ closed_fds' = kept
     /\ ops' = {IF o.key \in keys
                THEN [o EXCEPT !.eventer = NoAddr, !.completion = FALSE]
                ELSE o : o \in ops}
     /\ ring' = {IF r.key \in keys THEN [r EXCEPT !.cancel = TRUE]
                 ELSE r : r \in ring}
     /\ net' = [c \in Conns |-> IF c \in dead THEN NewSocket ELSE net[c]]
     /\ UNCHANGED <<delayed, next_key, cq, should_quit, faults>>

\* The end of an iteration, and the test of should_quit_ at its top.
EndIteration ==
  /\ phase = "Tasks"
  /\ DestroyClosedConnections
  /\ phase' = IF should_quit THEN "Stop" ELSE "Poll"

\* Start, after its loop: force every connection closed, then poll and
\* destroy until none is left.
StopConnection(c, full) ==
  /\ phase = "Stop"
  /\ c \in Alive
  /\ ~IsDisconnected(conn[c])
  /\ Handled(ForceClose(Cur, c, full), full)
  /\ UNCHANGED <<connection_map, cq, net, phase, should_quit>>

BeginDrain ==
  /\ phase = "Stop"
  /\ \A c \in Alive : IsDisconnected(conn[c])
  /\ phase' = "Drain"
  /\ UNCHANGED <<loopVars, connection_map, cq, net, should_quit, faults>>

DrainOnce ==
  /\ phase = "Drain"
  /\ Polling
  /\ DestroyClosedConnections
  /\ UNCHANGED phase

Exit ==
  /\ phase = "Drain"
  /\ ~Polling
  /\ phase' = "Exit"
  /\ UNCHANGED <<loopVars, connection_map, cq, net, should_quit, faults>>

Terminated == phase = "Exit" /\ UNCHANGED vars

-----------------------------------------------------------------------------
(***************************************************************************)
(* The kernel and the peers (external).                                    *)
(***************************************************************************)

Complete(r, res, lo) ==
  /\ ring' = ring \ {r}
  /\ cq' = Append(cq, [key |-> r.key, res |-> res, lo |-> lo])
  /\ UNCHANGED <<conn, closed_fds, delayed, ops, next_key, connection_map,
                 phase, should_quit>>

\* Unread bytes come first, then the peer's close or reset.
KernelRead(r, n) ==
  LET k == net[r.self]
  IN /\ r \in ring
     /\ r.type = "kRead"
     /\ \/ /\ ~k.reset
           /\ n \in 1..k.avail
           /\ Complete(r, n, k.next)
           /\ net' = [net EXCEPT ![r.self].avail = @ - n,
                                 ![r.self].next = @ + n]
        \/ /\ k.eof /\ ~k.reset /\ k.avail = 0 /\ n = 0
           /\ Complete(r, 0, 0)
           /\ UNCHANGED net
        \/ /\ k.reset /\ n = 0
           /\ Complete(r, ECONNRESET, 0)
           /\ UNCHANGED net
     /\ UNCHANGED faults

\* A short write is possible.  A destroyed connection's buffer has been
\* freed: the kernel sends what it finds there.
KernelWrite(r, n) ==
  LET c == r.self
      sent == IF IsAlive(conn[c]) THEN SubSeq(r.data, 1, n)
              ELSE [i \in 1..n |-> 0]
  IN /\ r \in ring
     /\ r.type = "kWrite"
     /\ IF conn[c].shut \/ net[c].reset
        THEN /\ n = 0
             /\ Complete(r, EOTHER, 0)
             /\ UNCHANGED net
        ELSE /\ n \in 1..Len(r.data)
             /\ Complete(r, n, 0)
             /\ net' = [net EXCEPT ![c].wire = @ \o sent]
     /\ UNCHANGED faults

KernelCancel(r) ==
  /\ r \in ring
  /\ r.cancel
  /\ Complete(r, ECANCELED, 0)
  /\ UNCHANGED <<net, faults>>

KernelFault(r, res) ==
  /\ r \in ring
  /\ faults < MaxFaults
  /\ Complete(r, res, 0)
  /\ faults' = faults + 1
  /\ UNCHANGED net

PeerSend(c) ==
  /\ c \in Alive
  /\ ~net[c].eof /\ ~net[c].reset
  /\ net[c].next + net[c].avail <= MaxRecv
  /\ net' = [net EXCEPT ![c].avail = @ + 1]
  /\ UNCHANGED <<loopVars, connection_map, cq, phase, should_quit, faults>>

PeerClose(c) ==
  /\ "PeerClose" \in Env
  /\ c \in Alive
  /\ ~net[c].eof
  /\ net' = [net EXCEPT ![c].eof = TRUE]
  /\ UNCHANGED <<loopVars, connection_map, cq, phase, should_quit, faults>>

PeerReset(c) ==
  /\ "PeerReset" \in Env
  /\ c \in Alive
  /\ ~net[c].reset
  /\ net' = [net EXCEPT ![c].reset = TRUE]
  /\ UNCHANGED <<loopVars, connection_map, cq, phase, should_quit, faults>>

-----------------------------------------------------------------------------
Init ==
  /\ conn = [c \in Conns |-> Blank]
  /\ connection_map = [f \in Fds |-> NoConn]
  /\ closed_fds = {}
  /\ delayed = {}
  /\ ops = {}
  /\ next_key = 1
  /\ ring = {}
  /\ cq = <<>>
  /\ net = [c \in Conns |-> NewSocket]
  /\ phase = "Poll"
  /\ should_quit = FALSE
  /\ faults = 0

\* Poll hands one completion to HandleCqe.
HandleCqe ==
  \E o \in ops :
    \/ StaleCompletion(o)
    \/ \E d \in Conns, f \in Calls, full \in BOOLEAN :
         \/ ReadCompletes(o, d, f, full)
         \/ WriteCompletes(o, d, f, full)

RunTimeTask ==
  \E full \in BOOLEAN :
    \/ \E d \in Conns, f \in Calls : UserTask(d, f, full)
    \/ \E x \in delayed : DelayedClose(x, full)
    \/ \E c, d \in Conns, a \in Addrs, f \in Calls :
         InsertNewConnection(c, a, d, f, full)

StopAll == \E c \in Conns, full \in BOOLEAN : StopConnection(c, full)

Kernel ==
  \E r \in ring :
    \/ \E n \in 0..MaxRecv : KernelRead(r, n)
    \/ \E n \in 0..MaxSend : KernelWrite(r, n)
    \/ KernelCancel(r)
    \/ \E res \in {EAGAIN, EOTHER} : KernelFault(r, res)

Peer == \E c \in Conns : PeerSend(c) \/ PeerClose(c) \/ PeerReset(c)

Next ==
  \/ HandleCqe
  \/ EndPoll
  \/ RunTimeTask
  \/ EndIteration
  \/ StopAll
  \/ BeginDrain
  \/ DrainOnce
  \/ Exit
  \/ Terminated
  \/ Quit
  \/ Kernel
  \/ Peer

Spec == Init /\ [][Next]_vars

\* Poll always returns (its wait has a timeout, its batch a limit) and always
\* takes a completion that is there, and the loop goes on to its next
\* statement.  Nothing is assumed of the peers, of the user, of Quit, or of
\* when the kernel completes a read.
LoopFairness ==
  /\ SF_vars(HandleCqe)
  /\ WF_vars(EndPoll)
  /\ WF_vars(EndIteration)
  /\ WF_vars(StopAll)
  /\ WF_vars(BeginDrain)
  /\ WF_vars(DrainOnce)
  /\ WF_vars(Exit)

FairSpec == Spec /\ LoopFairness

-----------------------------------------------------------------------------
(***************************************************************************)
(* Properties.                                                             *)
(***************************************************************************)

\* Every variable has its type.
TypeOK ==
  /\ Cur \in LoopState
  /\ connection_map \in [Fds -> Conns \cup {NoConn}]
  /\ cq \in Seq(Completion)
  /\ net \in [Conns -> Socket]
  /\ phase \in Phases
  /\ should_quit \in BOOLEAN
  /\ faults \in Nat

Open(c) == conn[c].state \in {"kConnected", "kDisconnecting"}

\* Whenever HandleCqe would call the completion function of an operation
\* (Poller::HandleCqe checks only that some eventer is registered at the
\* operation's eventer address), the context's `self` is a live connection,
\* is the one at that address, and has exactly this operation in flight: no
\* completion is ever delivered to a destroyed connection, to a new
\* connection built in a destroyed one's memory, or twice.
CompletionTargetsLive ==
  \A o \in ops : Invoked(o) =>
    LET k == conn[o.self]
    IN /\ IsAlive(k)
       /\ k.addr = o.eventer
       /\ o.type = "kRead" => k.read_in_flight /\ k.read_cancel_key = o.key
       /\ o.type = "kWrite" => k.write_in_flight /\ k.write_cancel_key = o.key

\* The user hears of a connection exactly once that it is up and, after that,
\* exactly once that it is down and closed, whatever mix of peer events,
\* handlers and user calls closes it (OnEstablishing, DoClosing).
CallbackProtocol ==
  \A c \in Conns :
    conn[c].told = CASE conn[c].state = "None" -> <<>>
                     [] Open(c) -> <<"up">>
                     [] OTHER -> <<"up", "down", "close">>

\* As long as no write of a connection failed, was refused or was cancelled,
\* the peer gets the bytes given to Send in order, without loss or
\* duplication, and what is not yet on the wire is in the two output buffers
\* (Send's choice of buffer, the swap and the partial writes of
\* OnWriteComplete).
OutputConserved ==
  \A c \in Conns : IsAlive(conn[c]) /\ ~conn[c].write_faulted =>
    LET k == conn[c]
        unconfirmed == k.output \o k.pending
    IN /\ net[c].wire = Interval(1, Len(net[c].wire))
       /\ unconfirmed = Interval(k.accepted - Len(unconfirmed) + 1,
                                 Len(unconfirmed))
       /\ Len(net[c].wire) + Len(unconfirmed) >= k.accepted

\* An open connection with accepted bytes left has a write in flight for
\* them, unless a write failed, was refused or was cancelled: no byte waits
\* for a completion that will never come (Send, OnWriteComplete).
NoStalledOutput ==
  \A c \in Conns :
    /\ Open(c) /\ ~conn[c].write_faulted
    /\ conn[c].output # <<>> \/ conn[c].pending # <<>>
    => conn[c].write_in_flight

\* An open connection always has a read in flight, unless a read failed, was
\* refused or was cancelled: it never goes deaf (OnEstablishing,
\* OnReadComplete).
NeverDeaf ==
  \A c \in Conns : Open(c) /\ ~conn[c].read_faulted => conn[c].read_in_flight

\* Every byte the kernel has taken off the socket of an open connection is in
\* the input buffer, in order, or in a completion that will be delivered
\* (OnReadComplete).
InputConserved ==
  \A c \in Conns : Open(c) /\ ~conn[c].read_faulted =>
    LET arrived == {i \in 1..Len(cq) :
                      \E o \in ops : /\ o.key = cq[i].key
                                     /\ o.self = c /\ o.type = "kRead"
                                     /\ Invoked(o) /\ cq[i].res > 0}
    IN /\ conn[c].input = Interval(1, Len(conn[c].input))
       /\ \/ arrived = {} /\ net[c].next = Len(conn[c].input) + 1
          \/ \E i \in arrived :
               /\ arrived = {i}
               /\ cq[i].lo = Len(conn[c].input) + 1
               /\ net[c].next = cq[i].lo + cq[i].res

\* connection_map_ owns every live connection under its descriptor, so none
\* is leaked or replaced while alive; closed_fds_ has exactly the closed
\* ones, so each of them will be destroyed and no open one can be
\* (InsertNewConnection, DeleteConnection, DestroyClosedConnections).
Registered ==
  /\ \A c \in Alive : connection_map[conn[c].fd] = c
  /\ \A f \in Fds : connection_map[f] # NoConn =>
       /\ connection_map[f] \in Alive
       /\ conn[connection_map[f]].fd = f
       /\ (f \in closed_fds) <=> IsDisconnected(conn[connection_map[f]])
  /\ \A f \in closed_fds : connection_map[f] # NoConn

\* A closed connection is destroyed, however long the kernel keeps its I/O
\* pending (the retry limit of DestroyClosedConnections).
ClosedIsDestroyed ==
  \A c \in Conns : IsDisconnected(conn[c]) ~> conn[c].state = "Gone"

\* After Quit the loop closes and destroys every connection and Start
\* returns, whatever the peers do.
QuitTerminates == should_quit ~> phase = "Exit"
=============================================================================
