----------------------------- MODULE RpcChannel -----------------------------
(***************************************************************************)
(* One RPC connection, from the caller to the service and back             *)
(* (rpc_channel.cc, rpc_server.cc): a client's RpcAsyncChannel, driven by  *)
(* its event loop, or RpcSyncChannel, which blocks its caller, and the     *)
(* RpcAsyncChannel that RpcServer gives to the accepted connection.        *)
(*                                                                         *)
(* The two byte streams of the connection are delivered in order and in    *)
(* any pieces; an end may be closed, lose what its output buffer still     *)
(* held, or be reset at any time.  Connecting::Send is not protected, so   *)
(* CallMethod of an asynchronous channel is called on the thread of its    *)
(* event loop, in a callback or between two; a synchronous channel is used *)
(* by one thread.                                                          *)
(***************************************************************************)
EXTENDS RpcCodec, Functions

CONSTANTS
  Calls,         \* the calls the client may make
  Kinds,         \* which channels the client may build: "async", "sync"
  Targets,       \* what a request's service and method turn out to be
  RequestSizes, ResponseSizes,   \* payload sizes
  kInitialCapacity, ExtraSpace,  \* an input buffer's, and extra_buffer's size
  IdSpan         \* number of values of the 64-bit id_ (2^64 in the code)

ASSUME RpcAssumption ==
  /\ Kinds \subseteq {"async", "sync"}
  /\ Targets \subseteq
       {"NO_ERROR", "NO_SERVICE", "NO_METHOD", "INVALID_REQUEST"}
  /\ RequestSizes \cup ResponseSizes \subseteq Nat
  /\ {kInitialCapacity, ExtraSpace} \subseteq Nat
  /\ IdSpan \in Nat \ {0}

VARIABLES
  kind,                \* the client's channel
  id_,                 \* its last call id
  outstanding_calls_,  \* id -> call, the calls it waits for
  pc, request,         \* each CallMethod: its place, and what it sends
  result,              \* how each call's response and closure ended
  client_state, client_in, client_loop,   \* state_, input, inside OnMessage?
  server_state, server_in, server_loop,
  client_vec, server_vec,   \* the vectors that hold the unread input
  closures,            \* the requests whose `done` the services still hold
  executions,          \* how often each call reached its service
  up, down,            \* bytes sent and not yet received
  socket_error         \* has the connection been reset, is SO_ERROR read?

callVars == <<id_, outstanding_calls_, pc, request, result>>
clientVars == <<client_state, client_in, client_loop, client_vec>>
serverVars ==
  <<server_state, server_in, server_loop, server_vec, closures, executions>>
vars == <<kind, callVars, clientVars, serverVars, up, down, socket_error>>

Ids == 0..(IdSpan - 1)
Open == {"kConnected", "kDisconnecting"}
NoRequest == [type |-> "none"]

\* front: what was read, and lies in front of the unread input until all of
\* it is read; size: the size of the vector; moved: history, has
\* ReserveWritableSpace moved the unread input to the front?
NewVector == [front |-> << >>, size |-> kInitialCapacity, moved |-> FALSE]

Compacted == client_vec.moved \/ server_vec.moved

\* id_ is a std::atomic_int64_t that no constructor initialises: in C++17 its
\* first value is indeterminate.
NewChannel == id_ \in Ids /\ outstanding_calls_ = << >>

\* RpcSyncChannel's constructor may fail to connect: socket_fd_ is -100.
Connects ==
  client_state \in
    {"kConnected"} \cup (IF kind = "sync" THEN {"failed"} ELSE {})

\* RpcServer gives an accepted connection its channel.
ServerAccepts ==
  /\ server_state =
       IF client_state = "failed" THEN "destroyed" ELSE "kConnected"
  /\ closures = {}

Init ==
  /\ kind \in Kinds
  /\ NewChannel /\ Connects /\ ServerAccepts
  /\ pc = [c \in Calls |-> "idle"]
  /\ request = [c \in Calls |-> NoRequest]
  /\ result = [c \in Calls |-> "none"]
  /\ client_in = << >> /\ server_in = << >>
  /\ client_vec = NewVector /\ server_vec = NewVector
  /\ client_loop = FALSE /\ server_loop = FALSE
  /\ executions = [c \in Calls |-> 0]
  /\ up = << >> /\ down = << >>
  /\ socket_error = "none"

-----------------------------------------------------------------------------
\* Sending.

\* Connecting::Send: in any other state, or on a broken socket, the message
\* is given up without a word.
SendOn(state, stream, m) ==
  IF state = "kConnected" /\ socket_error = "none"
  THEN stream \o FillEmptyBuffer(m)
  ELSE stream

\* Bytes that the kernel has not taken yet die with the writing end.
Truncated(stream) == {SubSeq(stream, 1, n) : n \in 0..Len(stream)}

\* AsyncDefaultErrorCallback: IsConnected, then ShutDownWrite.
ShutDownState(state) ==
  IF state = "kConnected" THEN "kDisconnecting" ELSE state
ShutDownStream(state, stream) ==
  IF state = "kConnected" THEN Truncated(stream) ELSE {stream}

Remove(f, x) == Restrict(f, DOMAIN f \ {x})

-----------------------------------------------------------------------------
\* The caller's side.

\* Mutant: an id is handed out twice.
NextIdStuck == id_

NextId == (id_ + 1) % IdSpan

\* fetch_add, and the entry made under outstanding_calls_lock_.  The thread of
\* the channel makes one call at a time.
CallMethod(c, target, size) ==
  /\ pc[c] = "idle"
  /\ client_state # "destroyed"
  /\ \A d \in Calls : pc[d] \in {"idle", "over"}
  /\ id_' = NextId
  /\ outstanding_calls_' = [i \in DOMAIN outstanding_calls_ \cup {NextId} |->
                              IF i = NextId THEN c ELSE outstanding_calls_[i]]
  /\ request' = [request EXCEPT ![c] =
                   [type |-> "REQUEST", id |-> NextId, call |-> c,
                    error |-> target, size |-> size]]
  /\ pc' = [pc EXCEPT ![c] = "registered"]
  /\ UNCHANGED <<kind, result, clientVars, serverVars, up, down, socket_error>>

\* The end of RpcAsyncChannel::CallMethod.
AsyncSend(c) ==
  /\ kind = "async" /\ pc[c] = "registered"
  /\ pc' = [pc EXCEPT ![c] = "over"]
  /\ up' = SendOn(client_state, up, request[c])
  /\ UNCHANGED <<kind, id_, outstanding_calls_, request, result, clientVars,
                 serverVars, down, socket_error>>

\* The client's event loop is not inside CallMethod.
LoopRuns == kind = "async" /\ \A c \in Calls : pc[c] # "registered"

\* CheckSocketStatusValid: reading SO_ERROR clears it.
ReadError(e) == IF e = "pending" THEN "cleared" ELSE e

\* RpcCodec::Send(int).  Once SO_ERROR has been read, send() fails for ever and
\* the loop over it does not end.
SendAll(m) ==
  /\ socket_error # "cleared"
  /\ up' = SendOn(client_state, up, m)
  /\ socket_error' = ReadError(socket_error)

\* RpcSyncChannel::CallMethod.
SyncSend(c) ==
  /\ kind = "sync" /\ pc[c] = "registered"
  /\ IF client_state = "failed"
     THEN pc' = [pc EXCEPT ![c] = "over"] /\ UNCHANGED <<up, socket_error>>
     ELSE pc' = [pc EXCEPT ![c] = "check"] /\ SendAll(request[c])
  /\ UNCHANGED <<kind, id_, outstanding_calls_, request, result, clientVars,
                 serverVars, down>>

\* The test at the top of RpcCodec::OnMessage(int).
SyncCheck(c) ==
  /\ pc[c] = "check"
  /\ pc' = [pc EXCEPT ![c] =
               IF socket_error = "pending" THEN "over" ELSE "read"]
  /\ socket_error' = ReadError(socket_error)
  /\ UNCHANGED <<kind, id_, outstanding_calls_, request, result, clientVars,
                 serverVars, up, down>>

\* vector::resize, if the vector is shorter.
Resized(vec, size) ==
  [front |-> vec.front, size |-> IF size > vec.size THEN size ELSE vec.size,
   moved |-> vec.moved]

\* recv() inside ReadFromFd, which has made room before (nothing lies in front
\* of the input: a call leaves either no byte or a refused frame behind).  At
\* the end of the stream it returns 0 for ever and the caller stays where it is.
SyncRead(c) ==
  /\ pc[c] = "read"
  /\ \E n \in 1..Missing(client_in) :
       /\ n <= Len(down)
       /\ client_in' = client_in \o SubSeq(down, 1, n)
       /\ down' = SubSeq(down, n + 1, Len(down))
  /\ client_vec' = Resized(client_vec, Len(client_in) + Missing(client_in))
  /\ UNCHANGED <<kind, callVars, client_state, client_loop, serverVars, up,
                 socket_error>>

\* The RESPONSE branch of OnRpcMessage on the client: the entry of the id is
\* taken out under the lock, its response filled in, its closure run.  The
\* error field is not read: the caller finds the response empty.
OnResponse(m) ==
  IF m.id \in DOMAIN outstanding_calls_
  THEN LET c == outstanding_calls_[m.id]
       IN  /\ outstanding_calls_' = Remove(outstanding_calls_, m.id)
           /\ result' = [result EXCEPT ![c] =
                           IF m.error # "NO_ERROR" THEN "empty"
                           ELSE IF m.call = c THEN "replied" ELSE "mixed up"]
  ELSE UNCHANGED <<outstanding_calls_, result>>

\* RpcSyncChannel has the branch of its own, on the caller's thread.
OnSyncResponse(m) == OnResponse(m)

\* IoBuffer::Refresh by the frame at the front: what was read stays in the
\* vector until nothing is left.
Passed(vec, in) ==
  LET rest == Refresh(in)
  IN [front |-> IF rest = << >> THEN << >>
                ELSE vec.front \o SubSeq(in, 1, Len(in) - Len(rest)),
      size |-> vec.size, moved |-> vec.moved]

SyncDefaultErrorCallback == socket_error' = ReadError(socket_error)

\* The frame is there: one message per call.  A refused frame stays in
\* io_buffer_, where the next call finds it again.
SyncFrame(c) ==
  /\ pc[c] = "read"
  /\ Missing(client_in) = 0
  /\ pc' = [pc EXCEPT ![c] = "over"]
  /\ IF Acceptable(client_in)
     THEN /\ OnSyncResponse(Head(client_in).of)
          /\ client_in' = Refresh(client_in)
          /\ client_vec' = Passed(client_vec, client_in)
          /\ UNCHANGED socket_error
     ELSE /\ SyncDefaultErrorCallback
          /\ UNCHANGED <<outstanding_calls_, result, client_in, client_vec>>
  /\ UNCHANGED <<kind, id_, request, client_state, client_loop, serverVars, up,
                 down>>

-----------------------------------------------------------------------------
\* The event loops.  Bytes arrive and OnMessage runs until it breaks.

Room(vec, in) == vec.size - Len(vec.front) - Len(in)

\* SubmitReadOnce: readv into the writable space and, unless that is as long,
\* the extra buffer.  With more in the buffer than the vector holds, the
\* length underflows and the kernel refuses to read: no byte arrives again.
Arrives(vec, in, n) ==
  LET room == Room(vec, in)
  IN  /\ room >= 0
      /\ n <= (IF room < ExtraSpace THEN room + ExtraSpace ELSE room)

\* The rest of n bytes that does not fit is appended, and ReserveWritableSpace
\* makes room for it by moving the unread input over what was read.
Moves(vec, in, n) ==
  n > Room(vec, in) /\ n - Room(vec, in) <= Len(vec.front)

\* The move leaves writing_index_ where it was: as many bytes as were read are
\* there again, behind the input that was moved.  The rest is written behind
\* them, past the end of the vector; here it is found there again.
Input(vec, in, piece) ==
  LET room == Room(vec, in)
      full == in \o SubSeq(piece, 1, room)
      again == SubSeq(vec.front \o full, Len(full) + 1, vec.size)
  IN IF Moves(vec, in, Len(piece))
     THEN full \o again \o SubSeq(piece, room + 1, Len(piece))
     ELSE in \o piece

Vector(vec, in, n) ==
  IF Moves(vec, in, n)
  THEN [front |-> << >>, size |-> vec.size, moved |-> TRUE]
  ELSE Resized(vec, Len(vec.front) + Len(in) + n)

ClientReceive ==
  /\ LoopRuns /\ client_state \in Open /\ ~client_loop
  /\ \E n \in 1..Len(down) :
       /\ Arrives(client_vec, client_in, n)
       /\ client_in' = Input(client_vec, client_in, SubSeq(down, 1, n))
       /\ client_vec' = Vector(client_vec, client_in, n)
       /\ down' = SubSeq(down, n + 1, Len(down))
  /\ client_loop' = TRUE
  /\ UNCHANGED <<kind, callVars, client_state, serverVars, up, socket_error>>

ServerReceive ==
  /\ server_state \in Open /\ ~server_loop
  /\ \E n \in 1..Len(up) :
       /\ Arrives(server_vec, server_in, n)
       /\ server_in' = Input(server_vec, server_in, SubSeq(up, 1, n))
       /\ server_vec' = Vector(server_vec, server_in, n)
       /\ up' = SubSeq(up, n + 1, Len(up))
  /\ server_loop' = TRUE
  /\ UNCHANGED <<kind, callVars, clientVars, server_state, closures,
                 executions, down, socket_error>>

\* One turn of the loop in RpcCodec::OnMessage(Connecting&), on the client.
ClientOnMessage ==
  /\ LoopRuns /\ client_loop
  /\ IF Missing(client_in) > 0
     THEN /\ client_loop' = FALSE
          /\ UNCHANGED <<outstanding_calls_, result, client_state, client_in,
                         client_vec, up>>
     ELSE IF Acceptable(client_in)
     THEN /\ OnResponse(Head(client_in).of)
          /\ client_in' = Refresh(client_in)
          /\ client_vec' = Passed(client_vec, client_in)
          /\ UNCHANGED <<client_loop, client_state, up>>
     ELSE /\ client_loop' = FALSE
          /\ client_state' = ShutDownState(client_state)
          /\ up' \in ShutDownStream(client_state, up)
          /\ UNCHANGED <<outstanding_calls_, result, client_in, client_vec>>
  /\ UNCHANGED <<kind, id_, pc, request, serverVars, down, socket_error>>

\* An error reply, sent at once.
ErrorResponse(m) == [m EXCEPT !.type = "RESPONSE", !.size = 0]

\* The REQUEST branch of OnRpcMessage: the service gets the request and a
\* closure that will send the response, or the caller gets an error.
OnRequest(m) ==
  IF m.error = "NO_ERROR"
  THEN /\ executions' = [executions EXCEPT ![m.call] = @ + 1]
       /\ closures' = closures \cup {m}
       /\ UNCHANGED down
  ELSE /\ down' = SendOn(server_state, down, ErrorResponse(m))
       /\ UNCHANGED <<executions, closures>>

\* The same turn on the server.
ServerOnMessage ==
  /\ server_loop
  /\ IF Missing(server_in) > 0
     THEN /\ server_loop' = FALSE
          /\ UNCHANGED <<server_state, server_in, server_vec, closures,
                         executions, down>>
     ELSE IF Acceptable(server_in)
     THEN /\ OnRequest(Head(server_in).of)
          /\ server_in' = Refresh(server_in)
          /\ server_vec' = Passed(server_vec, server_in)
          /\ UNCHANGED <<server_loop, server_state>>
     ELSE /\ server_loop' = FALSE
          /\ server_state' = ShutDownState(server_state)
          /\ down' \in ShutDownStream(server_state, down)
          /\ UNCHANGED <<server_in, server_vec, closures, executions>>
  /\ UNCHANGED <<kind, callVars, clientVars, up, socket_error>>

\* A service runs its `done`, inside CallMethod or later and in any order.
\* The closure uses the channel and the connection by raw pointer: a service
\* must not run it once they are gone.
DoneCallback(m, size) ==
  /\ m \in closures
  /\ server_state # "destroyed"
  /\ closures' = closures \ {m}
  /\ down' = SendOn(server_state, down,
                    [m EXCEPT !.type = "RESPONSE", !.size = size])
  /\ UNCHANGED <<kind, callVars, clientVars, server_state, server_in,
                 server_loop, server_vec, executions, up, socket_error>>

-----------------------------------------------------------------------------
\* Closing.

\* Connecting::DoClosing on the client, for whatever reason, a closure that
\* closes the connection included: OnMessage goes on after it.
ClientCloses ==
  /\ LoopRuns /\ client_state \in Open
  /\ client_state' = "kDisconnected"
  /\ up' \in Truncated(up)
  /\ UNCHANGED <<kind, callVars, client_in, client_loop, client_vec, serverVars,
                 down, socket_error>>

\* ~RpcAsyncChannel frees the responses and the closures of the calls it still
\* waits for.
DestroyAsyncChannel ==
  /\ kind = "async" /\ client_state = "kDisconnected" /\ ~client_loop
  /\ \A c \in Calls : pc[c] \in {"idle", "over"}
  /\ client_state' = "destroyed"
  /\ result' = [c \in Calls |->
                  IF c \in Range(outstanding_calls_) THEN "dropped"
                                                     ELSE result[c]]
  /\ outstanding_calls_' = << >>
  /\ UNCHANGED <<kind, id_, pc, request, client_in, client_loop, client_vec,
                 serverVars, up, down, socket_error>>

\* ~RpcSyncChannel only closes the descriptor.
DestroySyncChannel ==
  /\ kind = "sync" /\ client_state = "kConnected"
  /\ \A c \in Calls : pc[c] \in {"idle", "over"}
  /\ client_state' = "destroyed"
  /\ UNCHANGED <<kind, callVars, client_in, client_loop, client_vec, serverVars,
                 up, down, socket_error>>

\* DoClosing on the server; RpcServer's callback resets the context.
ServerCloses ==
  /\ server_state \in Open
  /\ server_state' = "kDisconnected"
  /\ down' \in Truncated(down)
  /\ UNCHANGED <<kind, callVars, clientVars, server_in, server_loop, server_vec,
                 closures, executions, up, socket_error>>

\* The connection's message callback held the last reference to the channel.
ServerDestroys ==
  /\ server_state = "kDisconnected" /\ ~server_loop
  /\ server_state' = "destroyed"
  /\ UNCHANGED <<kind, callVars, clientVars, server_in, server_loop, server_vec,
                 closures, executions, up, down, socket_error>>

Reset ==
  /\ socket_error = "none" /\ client_state # "failed"
  /\ socket_error' = "pending"
  /\ up' = << >> /\ down' = << >>
  /\ UNCHANGED <<kind, callVars, clientVars, serverVars>>

-----------------------------------------------------------------------------
Loops ==
  \/ ClientReceive \/ ClientOnMessage
  \/ ServerReceive \/ ServerOnMessage

Caller(c) ==
  \/ AsyncSend(c)
  \/ SyncSend(c) \/ SyncCheck(c) \/ SyncRead(c) \/ SyncFrame(c)

Services == \E m \in closures, size \in ResponseSizes : DoneCallback(m, size)

Next ==
  \/ \E c \in Calls, target \in Targets, size \in RequestSizes :
       CallMethod(c, target, size)
  \/ \E c \in Calls : Caller(c)
  \/ Loops
  \/ Services
  \/ ClientCloses \/ DestroyAsyncChannel \/ DestroySyncChannel
  \/ ServerCloses \/ ServerDestroys
  \/ Reset

Spec == Init /\ [][Next]_vars

\* Threads that are not blocked run, bytes arrive, and a service answers what
\* it was asked.  Nobody has to call, to close or to reset.
FairSpec ==
  /\ Spec
  /\ WF_vars(ClientReceive) /\ WF_vars(ClientOnMessage)
  /\ WF_vars(ServerReceive) /\ WF_vars(ServerOnMessage)
  /\ WF_vars(Services)
  /\ \A c \in Calls : WF_vars(Caller(c))

-----------------------------------------------------------------------------
\* Properties.

\* As long as no input buffer was compacted, a call is executed at most once
\* and ends at most once: with the reply to this very call, with an untouched
\* response if it was never executed, or dropped by the channel's destructor
\* (outstanding_calls_ against responses in any order, frames cut anywhere,
\* vectors that grow, an indeterminate id_ that wraps around).
Call == INSTANCE RpcCall WITH
  intact <- ~Compacted,
  status <- [c \in Calls |->
               IF result[c] # "none" THEN result[c]
               ELSE IF pc[c] = "idle" THEN "new" ELSE "pending"]
ImplementsRpcCall == Call!Spec

\* Successive units belong together: the next unit of the same frame, or the
\* first of another after the last of this one.
Follows(u, v) ==
  IF u.at = kHeaderLength + MessageLength(u.of)
  THEN v.at = 1
  ELSE v = [u EXCEPT !.at = @ + 1]

Aligned(s) ==
  /\ s # << >> => s[1].at = 1
  /\ \A i \in 1..(Len(s) - 1) : Follows(s[i], s[i + 1])

Framed == Aligned(server_in \o up) /\ Aligned(client_in \o down)

\* Wherever the stream was cut and however often a vector grew, the unread
\* input of either end starts with a length field and is followed on the wire
\* by the rest of its last frame (OnMessage refreshes by whole frames or not
\* at all), until an input buffer is compacted.
FramesAligned == Compacted \/ Framed

\* A frame the client refuses blocks the synchronous channel for good, and a
\* compaction makes an end read what it has read before.
Healthy ==
  /\ ~Compacted
  /\ client_state = "kConnected" /\ server_state = "kConnected"
  /\ socket_error = "none"
  /\ Missing(client_in) = 0 => Acceptable(client_in)

\* While the connection is up at both ends and no frame was refused or read
\* twice, every call comes to its end: its response is found in
\* outstanding_calls_, and a synchronous caller gets out of
\* RpcCodec::OnMessage.
EveryCallEnds ==
  \A c \in Calls :
    pc[c] # "idle" ~> result[c] # "none" \/ ~Healthy
=============================================================================
