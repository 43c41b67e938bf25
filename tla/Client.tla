------------------------------- MODULE Client -------------------------------
(***************************************************************************)
(* The client side: Connector and ClientReactorManager, one pair for every *)
(* client, with the Eventers that watch the connecting sockets and the     *)
(* Poller and EventManager that several clients may share.                 *)
(*                                                                         *)
(* An Eventer is an object at an address, and addresses are reused.  A     *)
(* socket is numbered by its attempt, so that descriptors are not reused;  *)
(* where the code uses a descriptor after closing it, what it then refers  *)
(* to is a choice (KernelTakesSqe).  What happens to a connection once it  *)
(* is established is the subject of module Connecting: here it is open,    *)
(* closing, or gone.  should_retry_ and ClientReactorManager::can_connect_ *)
(* are written but never read, and left out, and so are Restart, which     *)
(* nothing calls, and the destructors: a client outlives its loop.         *)
(***************************************************************************)
EXTENDS Naturals, Sequences, FiniteSets, SequencesExt

CONSTANTS
  Clients,      \* clients of one event loop
  Addrs,        \* addresses of Eventer objects
  None,         \* the null pointer
  Api,          \* the functions of a client that are called
  Results,      \* what socket() and connect() may return
  MaxCalls,     \* bound on the calls of each function of a client
  MaxFiles,     \* bound on the sockets created
  MaxFailures,  \* bound on the attempts that fail
  MaxLate,      \* bound on the failures after which a retry may overtake
                \* requests that are still on their way
  MaxDelay      \* kMaxRetryDelayMicroseconds, in initial delays

ApiNames == {"Connect", "Disconnect"}
\* "none": socket() failed; "done", "progress": DoConnecting; "retry",
\* "fatal": the other two groups of errno of connect().
ResultNames == {"none", "done", "progress", "retry", "fatal"}

ASSUME ClientAssumption ==
  /\ None \notin Addrs
  /\ IsFiniteSet(Addrs) /\ Cardinality(Addrs) > Cardinality(Clients)
  /\ Api \subseteq ApiNames
  /\ Results \subseteq ResultNames /\ {"done", "progress"} \cap Results # {}
  /\ {MaxCalls, MaxFailures, MaxLate} \subseteq Nat
  /\ {MaxFiles, MaxDelay} \subseteq Nat \ {0}

VARIABLES
  connectors,  \* Connector and ClientReactorManager of each client
  eventers,    \* the memory of Eventer objects, with Poller::states_
  files,       \* sockets
  conns,       \* EventManager::connection_map_, by socket
  poller,      \* the rest of Poller and the io_uring behind it
  loop,        \* EventManager: tasks, active_events_ and where Start is
  calls,       \* how often the user called each function
  failures     \* failed attempts so far

vars == <<connectors, eventers, files, conns, poller, loop, calls, failures>>

Files == 1 .. MaxFiles

\* given_up: history, an attempt since the last call of Connect has failed in
\* a way that is not tried again.
Connector ==
  [state : {"kDisconnected", "kConnecting", "kConnected"},
   can_connect : BOOLEAN, delay : 1 .. MaxDelay,
   eventer : Addrs \cup {None}, connection : 0 .. MaxFiles,
   given_up : BOOLEAN]
\* held: is the object owned by eventer_ of its connector, or by a task?
\* known: is it in states_?  in: in_events_.
Eventer ==
  [held : {"free", "connector", "task"}, of : Clients \cup {None},
   file : 0 .. MaxFiles, known : BOOLEAN, mask : BOOLEAN, armed : BOOLEAN,
   key : Nat, in : {"", "OUT", "ERR"}]
File == [st : {"unused", "connecting", "ok", "self", "failed"}, open : BOOLEAN]
Connection == [st : {"gone", "open", "closing"}, of : Clients \cup {None}]
\* A time task: RunSoon's lambdas, and Start after a delay.
Task ==
  [what : {"Connect", "Start", "Disconnect"}, of : Clients, ev : {None}]
    \cup [what : {"Remove", "Release"}, of : Clients, ev : Addrs]
Op == [key : Nat, addr : Addrs, file : Files]
Sqe == [add : BOOLEAN, key : Nat, file : 0 .. MaxFiles]
Cqe == [key : Nat, res : {"OUT", "ERR", "error"}]

Cur == [connectors |-> connectors, eventers |-> eventers, files |-> files,
        conns |-> conns, poller |-> poller, loop |-> loop]

Become(s) ==
  /\ connectors' = s.connectors /\ eventers' = s.eventers
  /\ files' = s.files /\ conns' = s.conns
  /\ poller' = s.poller /\ loop' = s.loop

-----------------------------------------------------------------------------
(* Poller and Eventer. *)

\* A key that nothing refers to.  Keys are 64 bits wide and never repeat in
\* the code; what matters is that two requests in use differ.
NormalizeKey(p) ==
  LET used == {o.key : o \in p.ops}
                \cup {e.key : e \in ToSet(p.prepared) \cup ToSet(p.sq)}
  IN Min((1 .. Cardinality(used) + 1) \ used)

SubmitPoll(s, a) ==
  LET e == s.eventers[a]
      key == NormalizeKey(s.poller)
  IN IF ~ e.known \/ ~ e.mask \/ e.armed THEN s
     ELSE [s EXCEPT
            !.eventers[a].armed = TRUE,
            !.eventers[a].key = key,
            !.poller.ops = @ \cup {[key |-> key, addr |-> a, file |-> e.file]},
            !.poller.prepared =
              Append(@, [add |-> TRUE, key |-> key, file |-> e.file])]

CancelPoll(s, a) ==
  LET e == s.eventers[a] IN
  IF ~ e.known \/ ~ e.armed THEN s
  ELSE [s EXCEPT
         !.eventers[a].armed = FALSE,
         !.eventers[a].key = 0,
         !.poller.prepared =
           Append(@, [add |-> FALSE, key |-> e.key, file |-> 0])]

SubmitPending(s) ==
  [s EXCEPT !.poller.sq = @ \o s.poller.prepared, !.poller.prepared = <<>>]

UpdateEvents(s, a, mask) ==
  LET t == [s EXCEPT !.eventers[a].mask = mask, !.eventers[a].known = TRUE]
  IN SubmitPending(IF mask THEN SubmitPoll(t, a) ELSE CancelPoll(t, a))

RemoveMyself(s, a) ==
  [CancelPoll(s, a) EXCEPT !.eventers[a].known = FALSE,
                           !.eventers[a].mask = FALSE]

\* Memory without an Eventer.
NoEventer ==
  [held |-> "free", of |-> None, file |-> 0, known |-> FALSE, mask |-> FALSE,
   armed |-> FALSE, key |-> 0, in |-> ""]

\* ~Eventer and the return of the memory.
DeleteEventer(s, a) == [RemoveMyself(s, a) EXCEPT !.eventers[a] = NoEventer]

\* The constructor of Eventer at address a.
NewEventer(s, a, k, n) ==
  [s EXCEPT !.eventers[a] =
     [held |-> "connector", of |-> k, file |-> n, known |-> TRUE,
      mask |-> FALSE, armed |-> FALSE, key |-> 0, in |-> ""]]

-----------------------------------------------------------------------------
(* Connector and ClientReactorManager. *)

RunSoon(s, what, k, a) ==
  [s EXCEPT !.loop.tasks = Append(@, [what |-> what, of |-> k, ev |-> a])]

Close(s, n) == [s EXCEPT !.files[n].open = FALSE]

SetState(s, k, state) == [s EXCEPT !.connectors[k].state = state]

Start(s, k) ==
  RunSoon([s EXCEPT !.connectors[k].can_connect = TRUE], "Connect", k, None)

\* Mutants: the descriptor is not closed; there is only one retry; the delay
\* has no maximum.
DoRetryingOpen(s, k, n) ==
  LET t == SetState(s, k, "kDisconnected") IN
  IF t.connectors[k].can_connect THEN [t EXCEPT !.loop.later[k] = @ + 1] ELSE t
DoRetryingOnce(s, k, n) ==
  LET t == SetState(Close(s, n), k, "kDisconnected") IN
  IF t.connectors[k].delay = 1 /\ t.connectors[k].can_connect
  THEN [t EXCEPT !.loop.later[k] = @ + 1, !.connectors[k].delay = 2]
  ELSE t
DoRetryingUncapped(s, k, n) ==
  LET t == SetState(Close(s, n), k, "kDisconnected") IN
  IF ~ t.connectors[k].can_connect THEN t
  ELSE [t EXCEPT !.loop.later[k] = @ + 1, !.connectors[k].delay = 2 * @]

DoRetrying(s, k, n) ==
  LET t == SetState(Close(s, n), k, "kDisconnected")
      twice == 2 * t.connectors[k].delay
  IN IF ~ t.connectors[k].can_connect THEN t
     ELSE [t EXCEPT
            !.loop.later[k] = @ + 1,
            !.connectors[k].delay = Min({twice, MaxDelay})]

\* The Eventer goes with the task "Remove".  That task never runs: the task
\* that calls Stop quits the loop, and a loop that has quit runs no tasks.
Stop(s, k) ==
  LET t == [s EXCEPT !.connectors[k].can_connect = FALSE]
      a == s.connectors[k].eventer
      u == [SetState(t, k, "kDisconnected") EXCEPT
             !.connectors[k].eventer = None, !.eventers[a].held = "task"]
  IN IF s.connectors[k].state # "kConnecting" THEN t
     ELSE IF a = None THEN SetState(t, k, "kDisconnected")
     ELSE DoRetrying(RunSoon(u, "Remove", k, a), k, s.eventers[a].file)

DoConnecting(s, k, n, a) ==
  LET old == s.connectors[k].eventer
      t == NewEventer(SetState(s, k, "kConnecting"), a, k, n)
      u == IF old = None THEN t ELSE DeleteEventer(t, old)
  IN UpdateEvents([u EXCEPT !.connectors[k].eventer = a], a, TRUE)

GiveUp(s, k) == [s EXCEPT !.connectors[k].given_up = TRUE]

\* r: what the system calls return; n: the new socket; a: where the
\* allocator puts an Eventer.
Connect(s, k, r, n, a) ==
  LET t == [s EXCEPT !.files[n] =
              [st |-> IF r = "done" THEN "ok"
                      ELSE IF r = "progress" THEN "connecting" ELSE "failed",
               open |-> TRUE]]
  IN CASE r = "none" -> GiveUp(s, k)
       [] r \in {"done", "progress"} -> DoConnecting(t, k, n, a)
       [] r = "retry" -> DoRetrying(t, k, n)
       [] r = "fatal" -> GiveUp(Close(t, n), k)

\* Mutant: the Eventer is released at once, not by a task.
RemoveAndResetNow(s, k) ==
  LET a == s.connectors[k].eventer
  IN [DeleteEventer(UpdateEvents(s, a, FALSE), a) EXCEPT
        !.connectors[k].eventer = None]
\* Mutant: eventer_ keeps pointing to the Eventer.
RemoveAndResetKept(s, k) ==
  LET a == s.connectors[k].eventer
  IN RemoveMyself(UpdateEvents(s, a, FALSE), a)

RemoveAndReset(s, k) ==
  LET a == s.connectors[k].eventer
      t == RemoveMyself(UpdateEvents(s, a, FALSE), a)
  IN RunSoon([t EXCEPT !.connectors[k].eventer = None,
                       !.eventers[a].held = "task"], "Release", k, a)

LaunchNewConnectionCallback(s, k, n) ==
  [s EXCEPT !.conns[n] = [st |-> "open", of |-> k],
            !.connectors[k].connection = n]

DoWriting(s, k) ==
  LET c == s.connectors[k]
      n == s.eventers[c.eventer].file
      t == RemoveAndReset(s, k)
      u == SetState(t, k, "kConnected")
  IN IF c.eventer = None \/ c.state # "kConnecting" THEN s
     ELSE IF s.files[n].st \in {"failed", "self"} THEN DoRetrying(t, k, n)
     ELSE IF c.can_connect THEN LaunchNewConnectionCallback(u, k, n)
     ELSE Close(u, n)

DoWithError(s, k) ==
  LET c == s.connectors[k] IN
  IF c.eventer = None \/ c.state # "kConnecting" THEN s
  ELSE DoRetrying(RemoveAndReset(s, k), k, s.eventers[c.eventer].file)

\* Eventer::Work: the error callback comes first, and a refused connection
\* is an error and writable at the same time.
Work(s, a) ==
  LET e == s.eventers[a] IN
  DoWriting(IF e.in = "ERR" THEN DoWithError(s, e.of) ELSE s, e.of)

\* Connecting::ForceClose, as far as a client sees it: the callback that
\* LaunchNewConnectionCallback registers forgets the connection.
ForceClose(s, n) ==
  IF n = 0 \/ s.conns[n].st # "open" THEN s
  ELSE [s EXCEPT !.conns[n].st = "closing",
                 !.connectors[s.conns[n].of].connection = 0]

\* DisconnectInLoop and StopInLoop are the same code.
DisconnectInLoop(s, k) ==
  LET n == s.connectors[k].connection
      t == [Stop(s, k) EXCEPT !.connectors[k].connection = 0]
  IN [ForceClose(t, n) EXCEPT !.loop.quit = TRUE]

-----------------------------------------------------------------------------
(* Steps of the event loop. *)

Goto(s, phase) == [s EXCEPT !.loop.phase = phase]

\* Mutant: states_ is not asked.
HandleCqeUnchecked(ends) ==
  /\ loop.phase = "Poll" /\ poller.cq # <<>>
  /\ LET cqe == Head(poller.cq)
         op == CHOOSE o \in poller.ops : o.key = cqe.key
         a == op.addr
         s == [Cur EXCEPT !.poller.cq = Tail(@), !.poller.ops = @ \ {op},
                          !.eventers[a].armed = FALSE]
         u == [s EXCEPT !.eventers[a].in = cqe.res,
                        !.loop.active = Append(@, a)]
         v == SubmitPoll(IF cqe.res = "error" THEN s ELSE u, a)
     IN Become(IF ends THEN Goto(SubmitPending(v), "Active") ELSE v)
  /\ UNCHANGED <<calls, failures>>

\* A batch ends with the last completion, or early by its limits.
HandleCqe(ends) ==
  /\ loop.phase = "Poll" /\ poller.cq # <<>>
  /\ LET cqe == Head(poller.cq)
         op == CHOOSE o \in poller.ops : o.key = cqe.key
         a == op.addr
         s == [Cur EXCEPT !.poller.cq = Tail(@), !.poller.ops = @ \ {op}]
         t == [s EXCEPT !.eventers[a].armed = FALSE]
         u == [t EXCEPT !.eventers[a].in = cqe.res,
                        !.loop.active = Append(@, a)]
         v == IF ~ eventers[a].known THEN s
              ELSE SubmitPoll(IF cqe.res = "error" THEN t ELSE u, a)
     IN Become(IF ends THEN Goto(SubmitPending(v), "Active") ELSE v)
  /\ UNCHANGED <<calls, failures>>

\* No completion is left, or none came until the time-out or a wake-up.
PollReturns ==
  /\ loop.phase = "Poll" /\ poller.cq = <<>>
  /\ Become(Goto(SubmitPending(Cur), "Active"))
  /\ UNCHANGED <<calls, failures>>

DoWithActiveTasks ==
  /\ loop.phase = "Active" /\ loop.active # <<>>
  /\ Become([Work(Cur, Head(loop.active)) EXCEPT !.loop.active = Tail(@)])
  /\ UNCHANGED <<calls, failures>>

GetExpiredTimeTasks ==
  /\ loop.phase = "Active" /\ loop.active = <<>> /\ ~ loop.draining
  /\ Become([Cur EXCEPT !.loop.phase = "Tasks", !.loop.batch = loop.tasks,
                        !.loop.tasks = <<>>])
  /\ UNCHANGED <<calls, failures>>

\* The task at the head of the batch, which does what.
Runs(what) ==
  /\ loop.phase = "Tasks" /\ loop.batch # <<>>
  /\ Head(loop.batch).what = what

Popped == [Cur EXCEPT !.loop.batch = Tail(@)]

Unused == {n \in Files : files[n].st = "unused"}

RunConnect(r, n, a) ==
  /\ Runs("Connect")
  /\ n \in Unused /\ \A m \in Unused : n <= m
  /\ eventers[a].held = "free"
  /\ r \in {"retry", "fatal", "none"} => failures < MaxFailures
  /\ failures' = IF r \in {"retry", "fatal", "none"} THEN failures + 1
                 ELSE failures
  /\ Become(Connect(Popped, Head(loop.batch).of, r, n, a))
  /\ UNCHANGED calls

\* All the descriptors that the bound allows have been used: socket() fails.
RunConnectWithoutFile ==
  /\ Runs("Connect") /\ Unused = {}
  /\ Become(GiveUp(Popped, Head(loop.batch).of))
  /\ UNCHANGED <<calls, failures>>

RunStart ==
  /\ Runs("Start")
  /\ Become(Start(Popped, Head(loop.batch).of))
  /\ UNCHANGED <<calls, failures>>

RunDisconnect ==
  /\ Runs("Disconnect")
  /\ Become(DisconnectInLoop(Popped, Head(loop.batch).of))
  /\ UNCHANGED <<calls, failures>>

\* The empty lambda of RemoveAndReset.
RunRelease ==
  /\ Runs("Release")
  /\ Become(DeleteEventer(Popped, Head(loop.batch).ev))
  /\ UNCHANGED <<calls, failures>>

OpenConns(s) == {n \in Files : s.conns[n].st = "open"}
NoConnection(s) == \A n \in Files : s.conns[n].st = "gone"

\* The end of an iteration; the end of the loop closes every connection.
EndIteration ==
  /\ loop.phase = "Tasks" /\ loop.batch = <<>>
  /\ LET closed == FoldSet(LAMBDA n, s : ForceClose(s, n), Cur, OpenConns(Cur))
         s == [closed EXCEPT !.loop.draining = TRUE]
     IN Become(IF ~ loop.quit THEN Goto(Cur, "Poll")
               ELSE Goto(s, IF NoConnection(s) THEN "Exit" ELSE "Poll"))
  /\ UNCHANGED <<calls, failures>>

Drain ==
  /\ loop.phase = "Active" /\ loop.active = <<>> /\ loop.draining
  /\ Become(Goto(Cur, IF NoConnection(Cur) THEN "Exit" ELSE "Poll"))
  /\ UNCHANGED <<calls, failures>>

\* The last request of a closing connection completes and it is destroyed.
DestroyClosedConnection(n) ==
  /\ loop.phase = "Poll" /\ conns[n].st = "closing"
  /\ Become([Close(Cur, n) EXCEPT !.conns[n].st = "gone"])
  /\ UNCHANGED <<calls, failures>>

\* The requests and completions that the kernel or the loop has still to see.
Late == Len(poller.prepared) + Len(poller.sq) + Len(poller.cq)

\* The retry delay is over, whether or not the kernel and the loop have handled
\* what was submitted before it began.
DelayExpires(k) ==
  /\ loop.later[k] > 0 /\ (Late > 0 => failures <= MaxLate)
  /\ Become([RunSoon(Cur, "Start", k, None) EXCEPT !.loop.later[k] = @ - 1])
  /\ UNCHANGED <<calls, failures>>

-----------------------------------------------------------------------------
(* The user, the network and the kernel. *)

Called(k) == [Cur EXCEPT !.connectors[k].given_up = FALSE]

Call(k, f) ==
  /\ calls[k][f] < MaxCalls
  /\ loop.phase # "Exit"
  /\ Become(CASE f = "Connect" -> Start(Called(k), k)
              [] f = "Disconnect" -> RunSoon(Cur, "Disconnect", k, None))
  /\ calls' = [calls EXCEPT ![k][f] = @ + 1]
  /\ UNCHANGED failures

\* The peer closes an established connection and the loop handles it.
PeerCloses(n) ==
  /\ loop.phase = "Poll" /\ conns[n].st = "open" /\ files[n].st = "ok"
  /\ Become(ForceClose(Cur, n))
  /\ UNCHANGED <<calls, failures>>

\* The network answers a connection request.
Resolve(n, st) ==
  /\ files[n].st = "connecting"
  /\ files[n].open \/ \E r \in poller.polls : r.file = n
  /\ st # "ok" => failures < MaxFailures
  /\ failures' = IF st = "ok" THEN failures ELSE failures + 1
  /\ files' = [files EXCEPT ![n].st = st]
  /\ UNCHANGED <<connectors, eventers, conns, poller, loop, calls>>

Ready(n) == files[n].st # "connecting"
Events(n) == IF files[n].st = "failed" THEN "ERR" ELSE "OUT"

\* A descriptor that was closed is invalid, or that of another socket.
KernelTakesSqe ==
  /\ poller.sq # <<>>
  /\ LET e == Head(poller.sq)
         p == [poller EXCEPT !.sq = Tail(@)]
         Post(res) == [p EXCEPT !.cq = Append(@, [key |-> e.key, res |-> res])]
         r == [key |-> e.key, file |-> e.file]
     IN \/ /\ e.add /\ files[e.file].open /\ Ready(e.file)
           /\ poller' = Post(Events(e.file))
        \/ /\ e.add /\ files[e.file].open /\ ~ Ready(e.file)
           /\ poller' = [p EXCEPT !.polls = @ \cup {r}]
        \/ /\ e.add /\ ~ files[e.file].open
           /\ \E res \in {"error", "OUT"} : poller' = Post(res)
        \/ /\ ~ e.add /\ \E q \in poller.polls :
                /\ q.key = e.key
                /\ poller' = [Post("error") EXCEPT !.polls = @ \ {q}]
        \/ /\ ~ e.add /\ \A q \in poller.polls : q.key # e.key
           /\ poller' = p
  /\ UNCHANGED <<connectors, eventers, files, conns, loop, calls, failures>>

PollCompletes(r) ==
  /\ r \in poller.polls /\ Ready(r.file)
  /\ poller' = [poller EXCEPT
                  !.polls = @ \ {r},
                  !.cq = Append(@, [key |-> r.key, res |-> Events(r.file)])]
  /\ UNCHANGED <<connectors, eventers, files, conns, loop, calls, failures>>

Terminated == loop.phase = "Exit" /\ UNCHANGED vars

-----------------------------------------------------------------------------

Init ==
  /\ connectors = [k \in Clients |->
       [state |-> "kDisconnected", can_connect |-> FALSE, delay |-> 1,
        eventer |-> None, connection |-> 0,
        given_up |-> FALSE]]
  /\ eventers = [a \in Addrs |-> NoEventer]
  /\ files = [n \in Files |-> [st |-> "unused", open |-> FALSE]]
  /\ conns = [n \in Files |-> [st |-> "gone", of |-> None]]
  /\ poller = [ops |-> {}, prepared |-> <<>>, sq |-> <<>>, polls |-> {},
               cq |-> <<>>]
  /\ loop = [phase |-> "Poll", tasks |-> <<>>, batch |-> <<>>, active |-> <<>>,
             later |-> [k \in Clients |-> 0],
             quit |-> FALSE, draining |-> FALSE]
  /\ calls = [k \in Clients |-> [f \in ApiNames |-> 0]]
  /\ failures = 0

RunTask ==
  \/ \E r \in Results, n \in Files, a \in Addrs : RunConnect(r, n, a)
  \/ RunConnectWithoutFile
  \/ RunStart
  \/ RunDisconnect
  \/ RunRelease

LoopStep ==
  \/ \E ends \in BOOLEAN : HandleCqe(ends)
  \/ PollReturns
  \/ DoWithActiveTasks
  \/ GetExpiredTimeTasks
  \/ RunTask
  \/ EndIteration
  \/ Drain

Kernel ==
  \/ KernelTakesSqe
  \/ \E r \in poller.polls : PollCompletes(r)
  \/ \E n \in Files : DestroyClosedConnection(n)
  \/ \E k \in Clients : DelayExpires(k)

Environment ==
  \/ \E k \in Clients, f \in Api : Call(k, f)
  \/ \E n \in Files : PeerCloses(n)
  \/ \E n \in Files, st \in {"ok", "self", "failed"} : Resolve(n, st)

Next == LoopStep \/ Kernel \/ Environment \/ Terminated

Spec == Init /\ [][Next]_vars

\* The loop runs, the kernel completes what is ready, delays end, and the
\* network answers every request in the end (the kernel's own time-out is
\* an answer).
FairSpec ==
  /\ Spec
  /\ WF_vars(LoopStep)
  /\ WF_vars(KernelTakesSqe)
  /\ WF_vars(\E r \in poller.polls : PollCompletes(r))
  /\ \A k \in Clients : WF_vars(DelayExpires(k))
  /\ \A n \in Files :
       WF_vars(\E st \in {"ok", "self", "failed"} : Resolve(n, st))

-----------------------------------------------------------------------------
(* Properties. *)

\* Every variable has its type.
TypeOK ==
  /\ connectors \in [Clients -> Connector]
  /\ eventers \in [Addrs -> Eventer]
  /\ files \in [Files -> File]
  /\ conns \in [Files -> Connection]
  /\ poller.ops \subseteq Op
  /\ poller.prepared \in Seq(Sqe) /\ poller.sq \in Seq(Sqe)
  /\ poller.polls \subseteq [key : Nat, file : Files]
  /\ poller.cq \in Seq(Cqe)
  /\ loop.phase \in {"Poll", "Active", "Tasks", "Exit"}
  /\ loop.tasks \in Seq(Task) /\ loop.batch \in Seq(Task)
  /\ loop.active \in Seq(Addrs)
  /\ loop.later \in [Clients -> Nat]
  /\ {loop.quit, loop.draining} \subseteq BOOLEAN
  /\ calls \in [Clients -> [ApiNames -> 0 .. MaxCalls]]
  /\ failures \in 0 .. MaxFailures

Watched == {eventers[connectors[k].eventer].file :
              k \in {c \in Clients : connectors[c].eventer # None}}

\* No descriptor leaks and none is closed under its user: a socket is open
\* exactly as long as the Eventer of a connector watches it or it belongs to
\* a connection (Connector: every way out of DoWriting, DoWithError, Stop
\* and Connect closes the descriptor or hands it over).
SocketOwned ==
  \A n \in Files : files[n].open <=> n \in Watched \/ conns[n].st # "gone"

\* The ways in which a client may still get a connection, or has one.
Attempts(k) ==
  LET Pending(q) ==
        SelectSeq(q, LAMBDA t : t.of = k /\ t.what \in {"Connect", "Start"})
  IN Len(Pending(loop.tasks)) + Len(Pending(loop.batch)) + loop.later[k]
       + (IF connectors[k].eventer # None THEN 1 ELSE 0)
       + Cardinality({n \in Files : conns[n] = [st |-> "open", of |-> k]})

\* Every call of Connect is one attempt at a time: an event that reports an
\* error and writability together, or one that comes after Stop, does not
\* start a second one (DoWriting and DoWithError test eventer_ and state_).
OneAttempt == \A k \in Clients : Attempts(k) <= calls[k]["Connect"]

\* "If not in states_, eventer was removed - ignore this late CQE": an event
\* is only handed to an Eventer that exists, and that exists until its Work
\* is over, although the completion of a poll that was cancelled may come
\* after the Eventer is gone (Poller::HandleCqe, Connector::RemoveAndReset).
LateCqeIgnored ==
  \A i \in DOMAIN loop.active : eventers[loop.active[i]].held # "free"

\* An Eventer is never destroyed by its own Work, in which its destructor
\* would wait for ever (Eventer::~Eventer, Connector::RemoveAndReset).
OutlivesWork ==
  [][\A a \in Addrs :
       loop.phase = "Active" /\ loop.active # <<>> /\ a = Head(loop.active)
         => eventers'[a].held # "free"]_vars

\* A client whose user called Connect and not Disconnect gets a connection,
\* however often the network fails before it succeeds (DoRetrying), unless
\* the loop is told to quit or an error is one that Connect only logs.
ConnectsAtLast ==
  \A k \in Clients :
    (connectors[k].can_connect /\ Attempts(k) > 0) ~>
      \/ connectors[k].connection # 0
      \/ ~ connectors[k].can_connect \/ connectors[k].given_up \/ loop.quit
=============================================================================
