------------------------------- MODULE Server -------------------------------
(***************************************************************************)
(* The server side: the Acceptor in the main event loop, the Balancer that *)
(* picks an event loop for every accepted socket, and                      *)
(* ServerReactorManager, which has that loop insert the connection.        *)
(*                                                                         *)
(* Event loop 0 accepts; the others are the I/O threads.  A socket is      *)
(* named by the client at its other end.  Descriptors are limited, and the *)
(* limit is below kMaxEventAmount.  Loops do not quit here, and the        *)
(* submission queue has room (see modules EventLoop and Connecting).       *)
(***************************************************************************)
EXTENDS Integers, Sequences, FiniteSets

CONSTANTS
  Clients,    \* those who connect, each once
  N,          \* event_managers_->size()
  Strategies, \* those that a Balancer may be constructed with
  Limit,      \* descriptors that may be open
  MaxErrors   \* bound on the errors of accept() other than EMFILE

None == "none"
Idle == "idle_fd_"

ASSUME ServerAssumption ==
  /\ {None, Idle, "EMFILE", "error"} \cap Clients = {}
  /\ N \in Nat /\ N >= 2
  /\ Strategies \subseteq {"kRoundRobin", "kMinEvents"}
  /\ Limit \in Nat \ {0} /\ MaxErrors \in Nat

VARIABLES
  client,   \* where each client is
  fds,      \* open descriptors: idle_fd_ and those of accepted sockets
  request,  \* is an accept request in the kernel?
  cq,       \* completions of accept requests
  main,     \* where loop 0 is in OnAcceptComplete
  running,  \* the loops that have been started
  balancer, \* the Balancer: strategy_ and cursor_
  tasks,    \* of each loop, the clients whose connections are to be inserted
  conns,    \* connection_map_ of each loop
  handed,   \* history: how many connections each loop was given
  errors    \* errors of accept() so far

vars ==
  <<client, fds, request, cq, main, running, balancer, tasks, conns, handed,
    errors>>

Loops == 0 .. N - 1
IoThreads == 1 .. N - 1

\* pos, i and min are the local variables of PickOneEventManager.
AtPoll == [pc |-> "poll", who |-> None, more |-> FALSE,
           pos |-> 0, i |-> 0, min |-> 0]

-----------------------------------------------------------------------------
(* The kernel and the clients. *)

ConnectRequest(c) ==
  /\ client[c] = "idle"
  /\ client' = [client EXCEPT ![c] = "waiting"]
  /\ UNCHANGED <<fds, request, cq, main, running, balancer, tasks, conns,
                 handed, errors>>

\* Without F_MORE the request has ended, as it always has when it is not a
\* multishot one.
KernelAccepts(c, more) ==
  /\ request /\ client[c] = "waiting" /\ Cardinality(fds) < Limit
  /\ client' = [client EXCEPT ![c] = "accepted"]
  /\ fds' = fds \cup {c}
  /\ cq' = Append(cq, [res |-> c, more |-> more])
  /\ request' = more
  /\ UNCHANGED <<main, running, balancer, tasks, conns, handed, errors>>

Waiting == {c \in Clients : client[c] = "waiting"}

KernelLacksDescriptors ==
  /\ request /\ Cardinality(fds) >= Limit
  /\ cq' = Append(cq, [res |-> "EMFILE", more |-> FALSE])
  /\ request' = FALSE
  /\ UNCHANGED <<client, fds, main, running, balancer, tasks, conns, handed,
                 errors>>

KernelFails ==
  /\ request /\ errors < MaxErrors
  /\ cq' = Append(cq, [res |-> "error", more |-> FALSE])
  /\ request' = FALSE
  /\ errors' = errors + 1
  /\ UNCHANGED <<client, fds, main, running, balancer, tasks, conns, handed>>

-----------------------------------------------------------------------------
(* ServerReactorManager::Loop, once: the I/O threads in turn, then loop 0 in *)
(* the thread of Server::Start. *)

StartLoop(l) ==
  /\ l \notin running
  /\ (IF l = 0 THEN IoThreads ELSE 1 .. l - 1) \subseteq running
  /\ running' = running \cup {l}
  /\ UNCHANGED <<client, fds, request, cq, main, balancer, tasks, conns,
                 handed, errors>>

-----------------------------------------------------------------------------
(* Acceptor::OnAcceptComplete in loop 0. *)

MainPolls == 0 \in running /\ main.pc = "poll" /\ cq # <<>>

OnAcceptComplete ==
  /\ MainPolls /\ Head(cq).res \in Clients
  /\ main' = [AtPoll EXCEPT !.pc = "pick", !.who = Head(cq).res,
                            !.more = Head(cq).more]
  /\ cq' = Tail(cq)
  /\ UNCHANGED <<client, fds, request, running, balancer, tasks, conns, handed,
                 errors>>

\* EAGAIN, EINTR and the errors that are only logged.
OnAcceptError ==
  /\ MainPolls /\ Head(cq).res = "error"
  /\ main' = [AtPoll EXCEPT !.pc = "end", !.more = Head(cq).more]
  /\ cq' = Tail(cq)
  /\ UNCHANGED <<client, fds, request, running, balancer, tasks, conns, handed,
                 errors>>

\* Mutant: the accepted socket is not closed again.
OnAcceptEmfileKept ==
  /\ MainPolls /\ Head(cq).res = "EMFILE"
  /\ IF Waiting = {} THEN UNCHANGED <<client, fds>>
     ELSE \E c \in Waiting : /\ client' = [client EXCEPT ![c] = "dropped"]
                             /\ fds' = (fds \ {Idle}) \cup {c}
  /\ main' = [AtPoll EXCEPT !.pc = "end", !.more = Head(cq).more]
  /\ cq' = Tail(cq)
  /\ UNCHANGED <<request, running, balancer, tasks, conns, handed, errors>>
\* Mutant: the idle descriptor is not given up.
OnAcceptEmfileNothing ==
  /\ MainPolls /\ Head(cq).res = "EMFILE"
  /\ main' = [AtPoll EXCEPT !.pc = "end", !.more = Head(cq).more]
  /\ cq' = Tail(cq)
  /\ UNCHANGED <<client, fds, request, running, balancer, tasks, conns, handed,
                 errors>>

\* idle_fd_ makes room for one accept(), whose socket is closed at once, and
\* is opened again.
OnAcceptEmfile ==
  /\ MainPolls /\ Head(cq).res = "EMFILE"
  /\ \/ /\ Waiting = {}
        /\ UNCHANGED client
     \/ \E c \in Waiting : client' = [client EXCEPT ![c] = "dropped"]
  /\ main' = [AtPoll EXCEPT !.pc = "end", !.more = Head(cq).more]
  /\ cq' = Tail(cq)
  /\ UNCHANGED <<fds, request, running, balancer, tasks, conns, handed,
                 errors>>

\* Mutant: the request is renewed whether it has ended or not.
ResubmitAlways ==
  /\ main.pc = "end"
  /\ request' = TRUE
  /\ main' = AtPoll
  /\ UNCHANGED <<client, fds, cq, running, balancer, tasks, conns, handed,
                 errors>>

\* The submission queue has room.
SubmitAccept == request' = TRUE

\* is_listening_ is true from the constructors on.
SubmitAcceptOnce == SubmitAccept

\* The part of OnAcceptComplete after the callback.
Resubmit ==
  /\ main.pc = "end"
  /\ IF main.more THEN UNCHANGED request ELSE SubmitAcceptOnce
  /\ main' = AtPoll
  /\ UNCHANGED <<client, fds, cq, running, balancer, tasks, conns, handed,
                 errors>>

-----------------------------------------------------------------------------
(* Balancer::PickOneEventManager. *)

MoveCursor(pos) == balancer' = [balancer EXCEPT !.cursor = pos]

\* Mutant: the last I/O thread gets no turn.
PickRoundRobinShort ==
  /\ main.pc = "pick" /\ balancer.strategy = "kRoundRobin"
  /\ MoveCursor(IF balancer.cursor + 1 >= N - 1 THEN 1
                ELSE balancer.cursor + 1)
  /\ main' = [main EXCEPT !.pc = "hand"]
  /\ UNCHANGED <<client, fds, request, cq, tasks, conns, handed, running,
                 errors>>

PickRoundRobin ==
  /\ main.pc = "pick" /\ balancer.strategy = "kRoundRobin"
  /\ MoveCursor(IF balancer.cursor + 1 >= N THEN 1 ELSE balancer.cursor + 1)
  /\ main' = [main EXCEPT !.pc = "hand"]
  /\ UNCHANGED <<client, fds, request, cq, tasks, conns, handed, running,
                 errors>>

GetEventerAmount(l) == Cardinality(conns[l])

\* The for statement ends at N.
Next_i(i) == IF i < N THEN "compare" ELSE "hand"

PickFirst ==
  /\ main.pc = "pick" /\ balancer.strategy = "kMinEvents"
  /\ main' = [main EXCEPT !.pc = Next_i(2), !.pos = 1, !.i = 2,
                          !.min = GetEventerAmount(1)]
  /\ UNCHANGED <<client, fds, request, cq, running, balancer, tasks, conns,
                 handed, errors>>

PickCompare ==
  /\ main.pc = "compare"
  /\ IF GetEventerAmount(main.i) < main.min
     THEN /\ main' = [main EXCEPT !.pc = "again", !.pos = main.i]
          /\ UNCHANGED balancer
     ELSE /\ main' = [main EXCEPT !.pc = Next_i(main.i + 1), !.i = @ + 1]
          /\ MoveCursor(main.pos)
  /\ UNCHANGED <<client, fds, request, cq, tasks, conns, handed, running,
                 errors>>

\* The second call of GetEventerAmount, for min_evts.
PickAgain ==
  /\ main.pc = "again"
  /\ main' = [main EXCEPT !.pc = Next_i(main.i + 1), !.i = @ + 1,
                          !.min = GetEventerAmount(main.pos)]
  /\ MoveCursor(main.pos)
  /\ UNCHANGED <<client, fds, request, cq, tasks, conns, handed, running,
                 errors>>

-----------------------------------------------------------------------------
(* ServerReactorManager. *)

\* RunSoon of the chosen loop.
AcceptNewConnectionCallback ==
  /\ main.pc = "hand"
  /\ tasks' = [tasks EXCEPT ![balancer.cursor] = Append(@, main.who)]
  /\ client' = [client EXCEPT ![main.who] = "queued"]
  /\ handed' = [handed EXCEPT ![balancer.cursor] = @ + 1]
  /\ main' = [main EXCEPT !.pc = "end"]
  /\ UNCHANGED <<fds, request, cq, running, balancer, conns, errors>>

\* Mutant: the task stays in the queue.
InsertNewConnectionAgain(l) ==
  /\ l \in running /\ tasks[l] # <<>> /\ (l = 0 => main.pc = "poll")
  /\ conns' = [conns EXCEPT ![l] = @ \cup {Head(tasks[l])}]
  /\ client' = [client EXCEPT ![Head(tasks[l])] = "open"]
  /\ UNCHANGED <<fds, request, cq, main, running, balancer, tasks, handed,
                 errors>>

\* The lambda, in its own loop: InsertNewConnection and OnEstablishing.
\* Loop 0 runs tasks only when it is not in a completion.
InsertNewConnection(l) ==
  /\ l \in running /\ tasks[l] # <<>> /\ (l = 0 => main.pc = "poll")
  /\ tasks' = [tasks EXCEPT ![l] = Tail(@)]
  /\ conns' = [conns EXCEPT ![l] = @ \cup {Head(tasks[l])}]
  /\ client' = [client EXCEPT ![Head(tasks[l])] = "open"]
  /\ UNCHANGED <<fds, request, cq, main, running, balancer, handed, errors>>

\* A connection ends: Server::RemoveConnection, DestroyClosedConnections and
\* ~Connecting, which closes the descriptor.
RemoveConnection(l, c) ==
  /\ c \in conns[l] /\ (l = 0 => main.pc = "poll")
  /\ conns' = [conns EXCEPT ![l] = @ \ {c}]
  /\ client' = [client EXCEPT ![c] = "closed"]
  /\ fds' = fds \ {c}
  /\ UNCHANGED <<request, cq, main, running, balancer, tasks, handed, errors>>

-----------------------------------------------------------------------------

\* idle_fd_ is open, and Listen has submitted the first request.
Listening == fds = {Idle} /\ request = TRUE /\ cq = <<>>

\* After the constructors.
Init ==
  /\ client = [c \in Clients |-> "idle"]
  /\ Listening
  /\ main = AtPoll
  /\ running = {}
  /\ balancer \in [strategy : Strategies, cursor : {0}]
  /\ tasks = [l \in Loops |-> <<>>]
  /\ conns = [l \in Loops |-> {}]
  /\ handed = [l \in Loops |-> 0]
  /\ errors = 0

Kernel ==
  \/ \E c \in Clients, more \in BOOLEAN : KernelAccepts(c, more)
  \/ KernelLacksDescriptors
  \/ KernelFails

MainLoop ==
  \/ OnAcceptComplete
  \/ OnAcceptError
  \/ OnAcceptEmfile
  \/ PickRoundRobin
  \/ PickFirst
  \/ PickCompare
  \/ PickAgain
  \/ AcceptNewConnectionCallback
  \/ Resubmit

Terminated ==
  /\ \A c \in Clients : client[c] \in {"closed", "dropped"}
  /\ main.pc = "poll" /\ cq = <<>> /\ running = Loops
  /\ UNCHANGED vars

Next ==
  \/ \E l \in Loops : StartLoop(l)
  \/ \E c \in Clients : ConnectRequest(c)
  \/ Kernel
  \/ MainLoop
  \/ \E l \in Loops : InsertNewConnection(l)
  \/ \E l \in Loops, c \in Clients : RemoveConnection(l, c)
  \/ Terminated

Spec == Init /\ [][Next]_vars

\* The loops run and the kernel accepts, or reports why it cannot; nobody
\* has to connect or to close.
FairSpec ==
  /\ Spec
  /\ WF_vars(Kernel)
  /\ WF_vars(MainLoop)
  /\ \A l \in Loops : WF_vars(StartLoop(l)) /\ WF_vars(InsertNewConnection(l))

-----------------------------------------------------------------------------
(* Properties. *)

Ended == {i \in DOMAIN cq : ~ cq[i].more}

\* While the server listens there is exactly one accept request: in the
\* kernel, or ended with its last completion still to be handled
\* (Acceptor::OnAcceptComplete resubmits when F_MORE is not set).
OneAcceptRequest ==
  (IF request THEN 1 ELSE 0) + Cardinality(Ended)
    + (IF main.pc # "poll" /\ ~ main.more THEN 1 ELSE 0) = 1

\* A descriptor is open exactly while its socket is on its way to a loop or
\* in the connection map of one, and the idle descriptor always comes back.
DescriptorsAccounted ==
  fds = {Idle} \cup
          {c \in Clients : client[c] \in {"accepted", "queued", "open"}}

\* Every accepted socket is in one place: a completion, the hands of the main
\* loop, the tasks of one loop or the connections of one loop.
InOnePlace ==
  \A c \in Clients :
    Cardinality({i \in DOMAIN cq : cq[i].res = c})
      + (IF main.who = c /\ main.pc \notin {"poll", "end"} THEN 1 ELSE 0)
      + Cardinality(UNION {{l} \X {i \in DOMAIN tasks[l] : tasks[l][i] = c} :
                             l \in Loops})
      + Cardinality({l \in Loops : c \in conns[l]})
    = IF client[c] \in {"accepted", "queued", "open"} THEN 1 ELSE 0

\* "Get one EventManager in the least busy I/O thread": connections are never
\* handed to the loop that accepts, and round robin is even, so that no I/O
\* thread is given two connections more than another
\* (Balancer::PickOneEventManager).
HandedEvenly ==
  /\ handed[0] = 0
  /\ balancer.strategy = "kRoundRobin" =>
       \A l, m \in IoThreads : handed[l] <= handed[m] + 1

\* A client that connects is served, or is refused because descriptors are
\* exhausted, although nobody else hangs up (Acceptor::OnAcceptComplete).
EveryRequestAnswered ==
  \A c \in Clients :
    client[c] = "waiting" ~> client[c] \in {"open", "closed", "dropped"}
=============================================================================
