----------------------------- MODULE RpcProofs ------------------------------
(***************************************************************************)
(* The RPC channel implements RpcCall, for any number of calls that the    *)
(* ids can tell apart, any payload sizes and any way in which the streams  *)
(* are cut: the inductive invariant, why every step keeps it, and from it  *)
(* the refinement of module RpcCall and the alignment of frames.           *)
(***************************************************************************)
EXTENDS RpcChannel, TLAPS

-----------------------------------------------------------------------------
\* The inductive invariant.

Requests == [type : {"REQUEST"}, id : Ids, call : Calls, error : Targets,
             size : Nat]
Responses == [type : {"RESPONSE"}, id : Ids, call : Calls, error : Targets,
              size : Nat]
Units(messages) == [of : messages, at : Nat \ {0}]

\* What the two ends have still to read.
ToServer == server_in \o up
ToClient == client_in \o down

Places == {"idle", "registered", "check", "read", "over"}

TypeOK ==
  /\ id_ \in Ids
  /\ outstanding_calls_ \in [DOMAIN outstanding_calls_ -> Calls]
  /\ pc \in [Calls -> Places]
  /\ request \in [Calls -> Requests \cup {NoRequest}]
  /\ result \in [Calls -> {"none", "replied", "empty", "dropped"}]
  /\ executions \in [Calls -> {0, 1}]
  /\ server_in \in Seq(Units(Requests)) /\ up \in Seq(Units(Requests))
  /\ client_in \in Seq(Units(Responses)) /\ down \in Seq(Units(Responses))

Invoked == {c \in Calls : pc[c] # "idle"}

\* How many ids NextId has given since those of the calls made.
Ages == {(id_ - request[c].id) % IdSpan : c \in Invoked}

\* A call that was made has its request, with an id of its own: the ids of
\* the calls made are the last ones that NextId gave.
Requested ==
  /\ \A c \in Invoked : request[c] \in Requests /\ request[c].call = c
  /\ \A a \in Ages : 0..a \subseteq Ages
  /\ \A c, d \in Invoked : request[c].id = request[d].id => c = d

\* outstanding_calls_ has the calls that have not ended, by their ids.
Waiting ==
  /\ \A i \in DOMAIN outstanding_calls_ :
       LET c == outstanding_calls_[i]
       IN  c \in Invoked /\ request[c].id = i /\ result[c] = "none"
  /\ client_state # "destroyed" =>
       \A c \in Invoked :
         result[c] = "none" => request[c].id \in DOMAIN outstanding_calls_

\* What is on its way to the server are requests of calls that were sent,
\* each of them once, and not yet executed.
Asked(s) ==
  /\ \A i \in DOMAIN s :
       LET c == s[i].of.call
       IN  c \in Invoked /\ pc[c] # "registered" /\ s[i].of = request[c]
  /\ \A i \in DOMAIN s : s[i].at = 1 =>
       /\ executions[s[i].of.call] = 0
       /\ \A j \in DOMAIN s :
            s[j].at = 1 /\ s[j].of.call = s[i].of.call => i = j

\* m is the reply to a request that was executed, or its refusal.
Justified(m) ==
  /\ m.call \in Invoked
  /\ m.id = request[m.call].id /\ m.error = request[m.call].error
  /\ m.error = "NO_ERROR" => executions[m.call] = 1

Answered(s) == \A i \in DOMAIN s : Justified(s[i].of)

Executed ==
  /\ \A c \in Calls :
       /\ executions[c] = 1 => /\ c \in Invoked /\ pc[c] # "registered"
                               /\ request[c].error = "NO_ERROR"
       /\ result[c] # "none" => c \in Invoked
       /\ result[c] = "replied" => executions[c] = 1
       /\ result[c] = "empty" => request[c].error # "NO_ERROR"
  /\ \A m \in closures : m \in Requests /\ Justified(m)

\* The last frame is complete.
Complete(s) ==
  s # << >> => LET u == s[Len(s)]
               IN  u.at = kHeaderLength + MessageLength(u.of)

\* An end that can still send has cut no frame.
Whole ==
  /\ client_state = "kConnected" /\ socket_error = "none"
       => Complete(ToServer)
  /\ server_state = "kConnected" /\ socket_error = "none"
       => Complete(ToClient)

IInv ==
  /\ TypeOK /\ Requested /\ Waiting /\ Executed /\ Whole
  /\ Asked(ToServer) /\ Answered(ToClient)
  /\ Framed

-----------------------------------------------------------------------------
\* Streams.

\* t is what is left of s without its first k units and perhaps some of the
\* last.
Segment(t, s, k) ==
  /\ k \in Nat /\ Len(t) + k <= Len(s)
  /\ \A i \in 1..Len(t) : t[i] = s[i + k]

-----------------------------------------------------------------------------
\* Sequences.

\* The concatenation of two sequences.
LEMMA SeqConcat ==
  ASSUME NEW S, NEW s \in Seq(S), NEW t \in Seq(S)
  PROVE  /\ s \o t \in Seq(S) /\ Len(s \o t) = Len(s) + Len(t)
         /\ \A i \in 1..(Len(s) + Len(t)) :
              (s \o t)[i] = IF i <= Len(s) THEN s[i] ELSE t[i - Len(s)]
  OBVIOUS

\* A part of a sequence, by its first and its last index.
LEMMA SeqSub ==
  ASSUME NEW S, NEW s, NEW a \in Int, NEW b \in Int,
         \A i \in a..b : s[i] \in S
  PROVE  /\ SubSeq(s, a, b) \in Seq(S)
         /\ Len(SubSeq(s, a, b)) = IF a <= b THEN b - a + 1 ELSE 0
         /\ \A i \in 1..(b - a + 1) : SubSeq(s, a, b)[i] = s[a + i - 1]
  OBVIOUS

\* The first n elements.
LEMMA SeqPrefix ==
  ASSUME NEW S, NEW s \in Seq(S), NEW n \in 1..Len(s)
  PROVE  /\ SubSeq(s, 1, n) \in Seq(S) /\ Len(SubSeq(s, 1, n)) = n
         /\ \A i \in 1..n : SubSeq(s, 1, n)[i] = s[i]
  OBVIOUS

\* A sequence is a function on the indexes up to its length.
LEMMA SeqLen ==
  ASSUME NEW S, NEW s \in Seq(S)
  PROVE  Len(s) \in Nat /\ s \in [1..Len(s) -> S] /\ DOMAIN s = 1..Len(s)
  OBVIOUS

\* The elements of a sequence.
LEMMA SeqElement ==
  ASSUME NEW S, NEW s \in Seq(S), NEW i \in 1..Len(s) PROVE s[i] \in S
  OBVIOUS

\* Two sequences with the same elements are the same.
LEMMA SeqSame ==
  ASSUME NEW S, NEW s \in Seq(S), NEW t \in Seq(S), Len(s) = Len(t),
         \A i \in 1..Len(s) : s[i] = t[i]
  PROVE  s = t
  OBVIOUS

\* The first element of a sequence, and the others.
LEMMA SeqHeadTail ==
  ASSUME NEW S, NEW s \in Seq(S), s # <<>>
  PROVE  /\ Head(s) \in S /\ Tail(s) \in Seq(S) /\ Len(Tail(s)) = Len(s) - 1
         /\ \A i \in 1..Len(Tail(s)) : Tail(s)[i] = s[i + 1]
  OBVIOUS

\* The sequences are the functions on the indexes up to a length.
LEMMA SeqIs == \A S : Seq(S) = UNION {[1..n -> S] : n \in Nat}
  OBVIOUS

LEMMA Lengths ==
  ASSUME NEW m, m.size \in Nat
  PROVE  /\ MessageLength(m) \in Nat /\ MessageLength(m) >= 2
         /\ FillEmptyBuffer(m)
              = [i \in 1..(1 + MessageLength(m)) |-> [of |-> m, at |-> i]]
BY DEF MessageLength, FillEmptyBuffer, kHeaderLength, kTagLength,
       kChecksumLength

\* A frame is a sequence of units.
LEMMA FrameType ==
  ASSUME NEW M, NEW m \in M, m.size \in Nat
  PROVE  /\ FillEmptyBuffer(m) \in Seq(Units(M))
         /\ Len(FillEmptyBuffer(m)) = 1 + MessageLength(m)
         /\ \A i \in 1..(1 + MessageLength(m)) :
              FillEmptyBuffer(m)[i] = [of |-> m, at |-> i]
<1> DEFINE n == 1 + MessageLength(m)
           f == [i \in 1..n |-> [of |-> m, at |-> i]]
<1>1. n \in Nat /\ FillEmptyBuffer(m) = f
  BY Lengths
<1>2. \A i \in 1..n : [of |-> m, at |-> i] \in Units(M)
  BY DEF Units
<1>3. f \in [1..n -> Units(M)]
  BY Zenon, <1>2
<1> HIDE DEF n
<1>4. f \in Seq(Units(M)) /\ Len(f) = n
  BY <1>1, <1>3, SeqIs, SeqLen
<1> QED BY Zenon, <1>1, <1>4 DEF n

\* A stream is a segment of itself.
LEMMA SameSegment ==
  ASSUME NEW S, NEW s \in Seq(S)
  PROVE  Segment(s, s, 0)
BY DEF Segment

-----------------------------------------------------------------------------
\* Frame lemmas.

\* Types of the two streams, and of a unit in them.
LEMMA StreamTypes ==
  ASSUME TypeOK
  PROVE  ToServer \in Seq(Units(Requests)) /\ ToClient \in Seq(Units(Responses))
BY Zenon, SeqConcat DEF TypeOK, ToServer, ToClient

LEMMA RequestSize == \A m \in Requests : m.size \in Nat
BY Zenon DEF Requests

LEMMA ResponseSize == \A m \in Responses : m.size \in Nat
BY Zenon DEF Responses

\* No step forgets a call; the same calls are made before and after.
LEMMA SameInvoked ==
  ASSUME \A c \in Calls : pc'[c] = "idle" <=> pc[c] = "idle"
  PROVE  Invoked' = Invoked
BY Zenon DEF Invoked

\* The calls made keep their requests and ids when these do not change.
LEMMA SameRequested ==
  ASSUME Requested, Invoked' = Invoked, id_' = id_, request' = request
  PROVE  Requested'
<1>1. Ages' = Ages
  BY Zenon DEF Ages
<1> QED BY Zenon, <1>1 DEF Requested

-----------------------------------------------------------------------------
\* The steps of the channel, and what they are to the caller.

Status == [c \in Calls |->
             IF result[c] # "none" THEN result[c]
             ELSE IF pc[c] = "idle" THEN "new" ELSE "pending"]

\* The invariant is kept, and the step is one of RpcCall or none: this is
\* what every step does that compacts no input buffer.
Kept == IInv' /\ (Call!Step \/ UNCHANGED <<Status, executions>>)

-----------------------------------------------------------------------------
\* CallMethod.

\* There are no more calls than ids: of more calls than that, two are the
\* same one.
EnoughIds ==
  \A f \in [0..IdSpan -> Calls] :
    \E i, j \in 0..IdSpan : i # j /\ f[i] = f[j]

LEMMA InvokeKept ==
  \A c \in Calls, target \in Targets, size \in RequestSizes :
    EnoughIds /\ IInv /\ CallMethod(c, target, size) =>
      Kept
\* The remainder of a number within one span of zero.
<1>ModNear.
    ASSUME NEW x \in Int, NEW m \in Nat \ {0}, -m < x, x < m
    PROVE  x % m = IF x >= 0 THEN x ELSE x + m
  <2> USE <1>ModNear
  <2>1. ASSUME NEW q \in Int, NEW r \in 0..(m - 1), x = q * m + r
        PROVE  x % m = r
    BY <2>1
  <2>2. CASE x >= 0
    <3>1. x \in 0..(m - 1) /\ x = 0 * m + x
      BY <2>2
    <3> QED BY <2>1, <2>2, <3>1
  <2>3. CASE x < 0
    <3>1. x + m \in 0..(m - 1) /\ x = (-1) * m + (x + m)
      BY <2>3
    <3> QED BY <2>1, <2>3, <3>1
  <2> QED BY <2>2, <2>3
\* The next id is as far from an id in use as the last one and one more, and
\* it is none of the ids that are less than a whole span back.
<1>AgeStep.
    ASSUME NEW m \in Nat \ {0}, NEW a \in 0..(m - 1), NEW r \in 0..(m - 1),
           NEW b, b = (a + 1) % m, (a - r) % m < m - 1
    PROVE  /\ b \in 0..(m - 1) /\ b # r /\ (b - r) % m = ((a - r) % m) + 1
  <2> USE <1>AgeStep
  <2>1. b = IF a + 1 < m THEN a + 1 ELSE 0
    <3>1. CASE a + 1 < m
      <4>1. PICK x \in Int : x = a + 1
        OBVIOUS
      <4>2. -m < x /\ x < m /\ x >= 0
        BY <3>1, <4>1
      <4>3. x % m = x
        BY Zenon, <4>2, <1>ModNear
      <4> QED BY Zenon, <3>1, <4>1, <4>3
    <3>2. CASE a + 1 = m
      <4>1. (a + 1) % m = 0
        BY <3>2
      <4> QED BY <3>2, <4>1
    <3> QED BY <3>1, <3>2
  <2>2. (a - r) % m = IF a - r >= 0 THEN a - r ELSE (a - r) + m
    <3>1. a - r \in Int /\ -m < a - r /\ a - r < m
      OBVIOUS
    <3> QED BY Zenon, <3>1, <1>ModNear
  <2>3. b \in 0..(m - 1)
    BY <2>1
  <2>4. (b - r) % m = IF b - r >= 0 THEN b - r ELSE (b - r) + m
    <3>1. b - r \in Int /\ -m < b - r /\ b - r < m
      BY <2>3
    <3> QED BY Zenon, <3>1, <1>ModNear
  <2>5. PICK x, y : x = (a - r) % m /\ y = (b - r) % m
    BY Zenon
  <2>6. b # r /\ y = x + 1
    BY <2>1, <2>2, <2>4, <2>5
  <2> QED BY Zenon, <2>3, <2>5, <2>6
<1>AgeZero.
    ASSUME NEW m \in Nat \ {0}, NEW a \in 0..(m - 1)
    PROVE  (a - a) % m = 0 /\ (a + 1) % m \in 0..(m - 1)
  <2> USE <1>AgeZero
  <2>1. a - a = 0 /\ 0 \in Int /\ -m < 0 /\ 0 < m
    OBVIOUS
  <2> QED BY <2>1, <1>ModNear
\* fetch_add gives an id that no other call has.
<1>CallStep.
    ASSUME EnoughIds, IInv, NEW c \in Calls, NEW target \in Targets,
           NEW size \in RequestSizes, CallMethod(c, target, size)
    PROVE  IInv'
  <2> USE <1>CallStep
  <2> DEFINE m == [type |-> "REQUEST", id |-> NextId, call |-> c,
                   error |-> target, size |-> size]
             Age(d) == (id_ - request[d].id) % IdSpan
  <2>a. /\ TypeOK /\ Requested /\ Waiting /\ Executed /\ Whole
        /\ Asked(ToServer) /\ Answered(ToClient) /\ Framed
    BY Zenon DEF IInv
  <2>b. /\ pc[c] = "idle" /\ client_state # "destroyed" /\ id_' = NextId
        /\ outstanding_calls_' = [i \in DOMAIN outstanding_calls_ \cup {NextId} |->
                                    IF i = NextId THEN c
                                                  ELSE outstanding_calls_[i]]
        /\ request' = [request EXCEPT ![c] = m]
        /\ pc' = [pc EXCEPT ![c] = "registered"]
        /\ UNCHANGED <<result, client_state, client_in, server_state, server_in,
                       closures, executions, up, down, socket_error>>
    BY Zenon DEF CallMethod, clientVars, serverVars
  <2>c. IdSpan \in Nat \ {0} /\ id_ \in 0..(IdSpan - 1)
    BY Zenon, <2>a, RpcAssumption DEF TypeOK, Ids
  <2>d. Invoked' = Invoked \cup {c} /\ c \notin Invoked /\ Invoked \subseteq Calls
    BY Zenon, <2>a, <2>b DEF Invoked, TypeOK
  <2>e. \A d \in Invoked : /\ request[d] \in Requests /\ Age(d) \in Nat
                            /\ Age(d) < IdSpan - 1
    <3>1. \A d \in Invoked : request[d] \in Requests
      BY Zenon, <2>a DEF Requested
    <3>2. \A d \in Invoked : Age(d) \in 0..(IdSpan - 1)
      <4>1. \A d \in Invoked : request[d].id \in Int
        BY <3>1 DEF Requests, Ids
      <4> QED BY <4>1, <2>c
    <3>3. ASSUME NEW d \in Invoked, Age(d) = IdSpan - 1 PROVE FALSE
      <4> DEFINE f == [k \in 0..IdSpan |->
                         IF k = IdSpan THEN c
                                       ELSE CHOOSE e \in Invoked : Age(e) = k]
      <4>1. \A k \in 0..(IdSpan - 1) : \E e \in Invoked : Age(e) = k
        <5>1. 0..(IdSpan - 1) \subseteq Ages
          BY Zenon, <2>a, <3>3 DEF Requested, Ages
        <5> QED BY Zenon, <5>1 DEF Ages
      <4>2. \A k \in 0..(IdSpan - 1) : f[k] \in Invoked /\ Age(f[k]) = k
        <5>1. ASSUME NEW k \in 0..(IdSpan - 1)
              PROVE  k # IdSpan /\ k \in 0..IdSpan
          BY <2>c
        <5> QED BY Zenon, <4>1, <5>1
      <4>3. IdSpan \in 0..IdSpan /\ f[IdSpan] = c
        BY <2>c
      <4>4. \A k \in 0..IdSpan : k = IdSpan \/ k \in 0..(IdSpan - 1)
        BY <2>c
      <4> HIDE DEF f, Age
      <4>5. f \in [0..IdSpan -> Calls]
        <5>1. \A k \in 0..IdSpan : f[k] \in Calls
          BY Zenon, <2>d, <4>2, <4>3, <4>4
        <5> QED BY Zenon, <5>1 DEF f
      <4>6. PICK i \in 0..IdSpan : \E j \in 0..IdSpan : i # j /\ f[i] = f[j]
        BY Zenon, <4>5 DEF EnoughIds
      <4> QED BY Zenon, <2>d, <4>2, <4>3, <4>4, <4>6
    <3>4. \A d \in Invoked : Age(d) \in Nat /\ Age(d) < IdSpan - 1
      <4> HIDE DEF Age
      <4> QED BY <2>c, <3>2, <3>3
    <3> QED BY Zenon, <3>1, <3>4
  <2>f. ASSUME NEW d \in Invoked
        PROVE  /\ d # c /\ request'[d] = request[d] /\ pc'[d] = pc[d]
               /\ request[d] \in Requests /\ request[d].id # NextId
               /\ (NextId - request[d].id) % IdSpan = Age(d) + 1
    <3>1. d # c /\ d \in Calls /\ request'[d] = request[d] /\ pc'[d] = pc[d]
      BY Zenon, <2>a, <2>b, <2>d DEF TypeOK
    <3>2. request[d] \in Requests /\ Age(d) < IdSpan - 1
      BY Zenon, <2>e
    <3>3. PICK a, r, b : a = id_ /\ r = request[d].id /\ b = NextId
      BY Zenon
    <3>4. /\ r \in 0..(IdSpan - 1) /\ a \in 0..(IdSpan - 1)
          /\ b = (a + 1) % IdSpan
      BY Zenon, <3>2, <3>3, <2>c DEF Requests, Ids, NextId
    <3>5. (a - r) % IdSpan < IdSpan - 1
      BY Zenon, <3>2, <3>3
    <3>6. b # r /\ (b - r) % IdSpan = ((a - r) % IdSpan) + 1
      BY Zenon, <3>4, <3>5, <2>c, <1>AgeStep
    <3> QED BY Zenon, <3>1, <3>2, <3>3, <3>6
  <2>g. m \in Requests /\ m.id = NextId /\ m.call = c /\ request'[c] = m
        /\ NextId \in Ids /\ (NextId - NextId) % IdSpan = 0
    <3>1. PICK a, b : a = id_ /\ b = NextId
      BY Zenon
    <3>2. b \in 0..(IdSpan - 1)
      BY Zenon, <3>1, <2>c, <1>AgeZero DEF NextId
    <3>3. (b - b) % IdSpan = 0
      BY Zenon, <3>2, <2>c, <1>AgeZero
    <3>4. size \in Nat
      BY Zenon, RpcAssumption
    <3>5. m \in Requests
      BY Zenon, <3>1, <3>2, <3>4 DEF Requests, Ids
    <3>6. request'[c] = m
      BY Zenon, <2>a, <2>b DEF TypeOK
    <3> QED BY Zenon, <3>1, <3>2, <3>3, <3>5, <3>6 DEF Ids
  <2> HIDE DEF m
  <2>h. executions[c] = 0 /\ result[c] = "none"
    BY Zenon, <2>a, <2>d DEF Executed, TypeOK
  <2>1. TypeOK'
    <3>1. outstanding_calls_' \in [DOMAIN outstanding_calls_' -> Calls]
      BY Zenon, <2>a, <2>b DEF TypeOK
    <3>2. pc' \in [Calls -> Places] /\ request' \in [Calls -> Requests \cup {NoRequest}]
      BY Zenon, <2>a, <2>b, <2>g DEF TypeOK, Places
    <3> QED BY Zenon, <2>a, <2>b, <2>g, <3>1, <3>2 DEF TypeOK, Requests, Responses, Units
  <2>2. Requested'
    <3>1. \A d \in Invoked' : request'[d] \in Requests /\ request'[d].call = d
      BY Zenon, <2>a, <2>d, <2>f, <2>g DEF Requested
    <3>2. \A a \in Ages' : 0..a \subseteq Ages'
      <4> HIDE DEF Age
      <4>1. Ages' = {Age(d) + 1 : d \in Invoked} \cup {0}
        <5>1. Ages' = {(NextId - request'[d].id) % IdSpan : d \in Invoked \cup {c}}
          BY Zenon, <2>b, <2>d DEF Ages
        <5> QED BY <5>1, <2>f, <2>g
      <4>2. Ages = {Age(d) : d \in Invoked}
        BY Zenon DEF Ages, Age
      <4>3. ASSUME NEW d \in Invoked, NEW k \in 0..(Age(d) + 1)
            PROVE  k \in Ages'
        <5>1. CASE k = 0
          BY Zenon, <4>1, <5>1
        <5>2. CASE k # 0
          <6>1. k - 1 \in 0..Age(d) /\ k = (k - 1) + 1
            BY <5>2, <4>3, <2>e
          <6>2. 0..Age(d) \subseteq Ages
            BY Zenon, <2>a, <4>2 DEF Requested
          <6>3. PICK e \in Invoked : k - 1 = Age(e)
            BY Zenon, <6>1, <6>2, <4>2
          <6> QED BY Zenon, <6>1, <6>3, <4>1
        <5> QED BY Zenon, <5>1, <5>2
      <4>4. \A k \in 0..0 : k \in Ages'
        BY <4>1
      <4> QED BY Zenon, <4>1, <4>3, <4>4
    <3>3. \A d, e \in Invoked' : request'[d].id = request'[e].id => d = e
      BY <2>a, <2>d, <2>f, <2>g DEF Requested
    <3> QED BY Zenon, <3>1, <3>2, <3>3 DEF Requested
  <2>3. Waiting'
    <3>1. ASSUME NEW i \in DOMAIN outstanding_calls_'
          PROVE  /\ outstanding_calls_'[i] \in Invoked'
                 /\ request'[outstanding_calls_'[i]].id = i
                 /\ result'[outstanding_calls_'[i]] = "none"
      <4>1. CASE i = NextId
        BY Zenon, <4>1, <2>b, <2>d, <2>g, <2>h
      <4>2. CASE i # NextId
        <5>1. /\ i \in DOMAIN outstanding_calls_
              /\ outstanding_calls_'[i] = outstanding_calls_[i]
          BY Zenon, <4>2, <3>1, <2>b
        <5>2. PICK d : d = outstanding_calls_[i]
          BY Zenon
        <5>3. d \in Invoked /\ request[d].id = i /\ result[d] = "none"
          BY Zenon, <5>1, <5>2, <2>a DEF Waiting
        <5> QED BY Zenon, <5>1, <5>2, <5>3, <2>b, <2>d, <2>f
      <4> QED BY Zenon, <4>1, <4>2
    <3>2. ASSUME NEW d \in Invoked', result'[d] = "none"
          PROVE  request'[d].id \in DOMAIN outstanding_calls_'
      <4>1. DOMAIN outstanding_calls_' = DOMAIN outstanding_calls_ \cup {NextId}
        BY Zenon, <2>b
      <4>2. CASE d = c
        BY Zenon, <4>1, <4>2, <2>g
      <4>3. CASE d # c
        <5>1. d \in Invoked /\ result[d] = "none"
          BY Zenon, <3>2, <4>3, <2>b, <2>d
        <5>2. request[d].id \in DOMAIN outstanding_calls_
          BY Zenon, <5>1, <2>a, <2>b DEF Waiting
        <5> QED BY Zenon, <4>1, <5>1, <5>2, <2>f
      <4> QED BY Zenon, <4>2, <4>3
    <3> QED BY Zenon, <3>1, <3>2 DEF Waiting
  <2>4. Executed'
    <3>1. ASSUME NEW k \in closures' PROVE k \in Requests /\ Justified(k)'
      <4>1. k \in Requests /\ Justified(k)
        BY Zenon, <3>1, <2>a, <2>b DEF Executed
      <4>2. Justified(k)'
        BY Zenon, <4>1, <2>b, <2>d, <2>f DEF Justified
      <4> QED BY Zenon, <4>1, <4>2
    <3>2. ASSUME NEW d \in Calls
          PROVE  /\ executions'[d] = 1 =>
                      /\ d \in Invoked' /\ pc'[d] # "registered"
                      /\ request'[d].error = "NO_ERROR"
                 /\ result'[d] # "none" => d \in Invoked'
                 /\ result'[d] = "replied" => executions'[d] = 1
                 /\ result'[d] = "empty" => request'[d].error # "NO_ERROR"
      <4>1. CASE d = c
        BY <4>1, <2>b, <2>h
      <4>2. CASE d # c
        <5>1. request'[d] = request[d] /\ pc'[d] = pc[d]
          BY Zenon, <4>2, <2>a, <2>b DEF TypeOK
        <5> QED BY Zenon, <5>1, <2>a, <2>b, <2>d DEF Executed
      <4> QED BY Zenon, <4>1, <4>2
    <3> QED BY Zenon, <3>1, <3>2 DEF Executed, Requests
  <2>5. ToServer' = ToServer /\ ToClient' = ToClient
    BY Zenon, <2>b DEF ToServer, ToClient
  <2>6. Whole'
    BY Zenon, <2>a, <2>b, <2>5 DEF Whole, Complete
  <2>7. Asked(ToServer)'
    BY <2>a, <2>b, <2>d, <2>f, <2>5 DEF Asked
  <2>8. Answered(ToClient)'
    <3>1. ASSUME NEW i \in DOMAIN ToClient PROVE Justified(ToClient[i].of)'
      <4>1. PICK k : k = ToClient[i].of
        BY Zenon
      <4>2. Justified(k)
        BY Zenon, <4>1, <2>a DEF Answered
      <4>3. Justified(k)'
        BY Zenon, <4>2, <2>b, <2>d, <2>f DEF Justified
      <4> QED BY Zenon, <4>1, <4>3, <2>5 DEF Justified
    <3> QED BY Zenon, <3>1, <2>5 DEF Answered
  <2>9. Framed'
    BY Zenon, <2>a, <2>b DEF Framed
  <2> QED BY Zenon, <2>1, <2>2, <2>3, <2>4, <2>6, <2>7, <2>8, <2>9 DEF IInv
<1> SUFFICES ASSUME EnoughIds, IInv, NEW c \in Calls, NEW target \in Targets,
                    NEW size \in RequestSizes, CallMethod(c, target, size)
             PROVE  Kept
  BY Zenon
<1>1. IInv'
  BY Zenon, <1>CallStep
<1>2. /\ pc[c] = "idle" /\ result' = result /\ executions' = executions
      /\ pc' = [pc EXCEPT ![c] = "registered"] /\ result[c] = "none"
      /\ pc \in [Calls -> Places]
  BY Zenon DEF CallMethod, serverVars, IInv, Executed, Invoked, TypeOK
<1>3. Status[c] = "new" /\ Status' = [Status EXCEPT ![c] = "pending"]
  BY Zenon, <1>2 DEF Status
<1>4. Call!Invoke(c)
  BY Zenon, <1>2, <1>3 DEF Call!Invoke, Status
<1> QED BY Zenon, <1>1, <1>4 DEF Kept, Call!Step

-----------------------------------------------------------------------------
\* The quiet actions.

\* A step that neither makes, sends, executes nor ends a call: bytes move or
\* are lost, an end closes, an error is read.
Quiet ==
  /\ TypeOK' /\ Whole'
  /\ UNCHANGED <<id_, outstanding_calls_, request, result, executions>>
  /\ closures' \subseteq closures
  /\ \A c \in Calls : pc'[c] = "idle" <=> pc[c] = "idle"
  /\ \A c \in Calls : pc'[c] = "registered" => pc[c] = "registered"
  /\ client_state = "destroyed" => client_state' = "destroyed"
  /\ Segment(ToServer', ToServer, 0) /\ Segment(ToClient', ToClient, 0)

\* A part of a stream of requests is one.
LEMMA AskedSegment ==
  ASSUME NEW s \in Seq(Units(Requests)), NEW t \in Seq(Units(Requests)),
         NEW k, Segment(t, s, k), Asked(s),
         \A c \in Calls : /\ pc'[c] = "idle" <=> pc[c] = "idle"
                          /\ pc'[c] = "registered" => pc[c] = "registered",
         request' = request,
         \A i \in DOMAIN t :
           t[i].at = 1 => executions'[t[i].of.call] = executions[t[i].of.call]
  PROVE  Asked(t)'
<1>1. Invoked' = Invoked /\ Invoked \subseteq Calls
  BY Zenon, SameInvoked DEF Invoked
<1>2. /\ DOMAIN t = 1..Len(t) /\ DOMAIN s = 1..Len(s)
      /\ Len(s) \in Nat /\ Len(t) \in Nat /\ k \in Nat
  BY Zenon, SeqLen DEF Segment
<1>3. ASSUME NEW i \in DOMAIN t PROVE i + k \in DOMAIN s /\ t[i] = s[i + k]
  BY <1>2 DEF Segment
<1>4. ASSUME NEW i \in DOMAIN t
      PROVE  LET c == t[i].of.call
             IN  c \in Invoked' /\ pc'[c] # "registered" /\ t[i].of = request'[c]
  <2>1. i + k \in DOMAIN s /\ t[i] = s[i + k]
    BY Zenon, <1>3
  <2>2. LET c == s[i + k].of.call
        IN  c \in Invoked /\ pc[c] # "registered" /\ s[i + k].of = request[c]
    BY Zenon, <2>1 DEF Asked
  <2> QED BY Zenon, <2>1, <2>2, <1>1
<1>5. ASSUME NEW i \in DOMAIN t, t[i].at = 1,
             NEW j \in DOMAIN t, t[j].at = 1, t[j].of.call = t[i].of.call
      PROVE  i = j
  <2>1. i + k \in DOMAIN s /\ t[i] = s[i + k]
    BY Zenon, <1>3
  <2>2. j + k \in DOMAIN s /\ t[j] = s[j + k]
    BY Zenon, <1>3
  <2>3. i + k = j + k
    BY <2>1, <2>2, <1>5 DEF Asked
  <2> QED BY <2>3, <1>2
<1>6. ASSUME NEW i \in DOMAIN t, t[i].at = 1
      PROVE  executions'[t[i].of.call] = 0
  <2>1. i + k \in DOMAIN s /\ t[i] = s[i + k]
    BY Zenon, <1>3
  <2>2. executions[t[i].of.call] = 0
    BY <2>1, <1>6 DEF Asked
  <2> QED BY Zenon, <2>2, <1>6
<1> QED BY Zenon, <1>4, <1>5, <1>6 DEF Asked

LEMMA AnsweredSegment ==
  \A S : \A s, t \in Seq(S) : \A k :
     /\ Segment(t, s, k)
     /\ Answered(s)
     /\ Invoked \subseteq Invoked'
     /\ \A c \in Invoked : /\ request'[c] = request[c]
                           /\ executions[c] = 1 => executions'[c] = 1
    => Answered(t)'
\* An answer stays one as calls are made and executed.
<1>JustifiedFrame.
    ASSUME NEW m, Justified(m), Invoked \subseteq Invoked',
           \A c \in Invoked : /\ request'[c] = request[c]
                              /\ executions[c] = 1 => executions'[c] = 1
    PROVE  Justified(m)'
  BY Zenon, <1>JustifiedFrame DEF Justified
<1> SUFFICES ASSUME NEW S, NEW s \in Seq(S), NEW t \in Seq(S), NEW k,
                    Segment(t, s, k), Answered(s), Invoked \subseteq Invoked',
                    \A c \in Invoked : /\ request'[c] = request[c]
                                       /\ executions[c] = 1 => executions'[c] = 1
             PROVE  Answered(t)'
  BY Zenon
<1>1. /\ DOMAIN t = 1..Len(t) /\ DOMAIN s = 1..Len(s)
      /\ Len(s) \in Nat /\ Len(t) \in Nat /\ k \in Nat
  BY Zenon, SeqLen DEF Segment
<1>2. ASSUME NEW i \in DOMAIN t PROVE Justified(t[i].of)'
  <2>1. i + k \in DOMAIN s /\ t[i] = s[i + k]
    BY <1>1 DEF Segment
  <2>2. Justified(s[i + k].of)
    BY Zenon, <2>1 DEF Answered
  <2>3. PICK m : m = t[i].of
    BY Zenon
  <2>4. Justified(m)
    BY Zenon, <2>1, <2>2, <2>3
  <2>5. Justified(m)'
    BY Zenon, <2>4, <1>JustifiedFrame
  <2> QED BY Zenon, <2>3, <2>5
<1> QED BY Zenon, <1>2 DEF Answered

LEMMA QuietKept ==
  IInv /\ Quiet =>
    Kept
\* The front of an aligned stream is aligned.
<1>AlignedPrefix.
    ASSUME NEW S, NEW s \in Seq(S), NEW t \in Seq(S), Aligned(s),
           Segment(t, s, 0)
    PROVE  Aligned(t)
  <2> USE <1>AlignedPrefix
  <2>1. \A i \in 1..Len(t) : t[i] = s[i]
    BY DEF Segment
  <2>2. t # << >> => s # << >> /\ 1 \in 1..Len(t)
    BY DEF Segment
  <2>3. ASSUME NEW i \in 1..(Len(t) - 1) PROVE Follows(t[i], t[i + 1])
    <3>1. i \in 1..Len(t) /\ i + 1 \in 1..Len(t) /\ i \in 1..(Len(s) - 1)
      BY DEF Segment
    <3>2. Follows(s[i], s[i + 1])
      BY Zenon, <3>1 DEF Aligned
    <3>3. t[i] = s[i] /\ t[i + 1] = s[i + 1]
      BY Zenon, <2>1, <3>1
    <3> QED BY Zenon, <3>2, <3>3
  <2> QED BY Zenon, <2>1, <2>2, <2>3 DEF Aligned
<1>QuietStep.
    ASSUME IInv, Quiet
    PROVE  IInv'
  <2> USE <1>QuietStep
  <2>a. /\ TypeOK /\ Requested /\ Waiting /\ Executed
        /\ Asked(ToServer) /\ Answered(ToClient)
        /\ Aligned(ToServer) /\ Aligned(ToClient)
    BY Zenon DEF IInv, Framed, ToServer, ToClient
  <2>q. /\ TypeOK' /\ Whole'
        /\ UNCHANGED <<id_, outstanding_calls_, request, result, executions>>
        /\ closures' \subseteq closures
        /\ \A c \in Calls : pc'[c] = "idle" <=> pc[c] = "idle"
        /\ \A c \in Calls : pc'[c] = "registered" => pc[c] = "registered"
        /\ client_state = "destroyed" => client_state' = "destroyed"
        /\ Segment(ToServer', ToServer, 0) /\ Segment(ToClient', ToClient, 0)
    BY Zenon DEF Quiet
  <2>b. Invoked' = Invoked
    BY Zenon, <2>q, SameInvoked
  <2>c. PICK s, t, u, v : /\ s = ToServer /\ t = ToServer'
                          /\ u = ToClient /\ v = ToClient'
    BY Zenon
  <2>d. /\ s \in Seq(Units(Requests)) /\ t \in Seq(Units(Requests))
        /\ u \in Seq(Units(Responses)) /\ v \in Seq(Units(Responses))
    <3>1. ToServer \in Seq(Units(Requests)) /\ ToClient \in Seq(Units(Responses))
      BY Zenon, <2>a, StreamTypes
    <3>2. /\ ToServer' \in Seq(Units(Requests))
          /\ ToClient' \in Seq(Units(Responses))
      BY Zenon, <2>q, SeqConcat DEF TypeOK, ToServer, ToClient, Requests, Responses,
                              Units, Ids
    <3> QED BY Zenon, <3>1, <3>2, <2>c
  <2>1. Requested'
    BY Zenon, <2>a, <2>b, <2>q, SameRequested
  <2>2. Waiting'
    BY Zenon, <2>a, <2>b, <2>q DEF Waiting
  <2>3. Executed'
    <3>1. ASSUME NEW m \in closures' PROVE m \in Requests /\ Justified(m)'
      <4>1. m \in Requests /\ Justified(m)
        BY Zenon, <3>1, <2>a, <2>q DEF Executed
      <4> QED BY Zenon, <4>1, <2>b, <2>q DEF Justified
    <3>2. \A c \in Calls :
            /\ executions'[c] = 1 => /\ c \in Invoked' /\ pc'[c] # "registered"
                                     /\ request'[c].error = "NO_ERROR"
            /\ result'[c] # "none" => c \in Invoked'
            /\ result'[c] = "replied" => executions'[c] = 1
            /\ result'[c] = "empty" => request'[c].error # "NO_ERROR"
      BY Zenon, <2>a, <2>b, <2>q DEF Executed
    <3> QED BY Zenon, <3>1, <3>2 DEF Executed
  <2>4. Asked(t)'
    BY Zenon, <2>a, <2>c, <2>d, <2>q, AskedSegment
  <2>5. Answered(v)'
    BY Zenon, <2>a, <2>b, <2>c, <2>d, <2>q, AnsweredSegment
  <2>6. Aligned(t) /\ Aligned(v)
    BY Zenon, <2>a, <2>c, <2>d, <2>q, <1>AlignedPrefix
  <2>7. Framed'
    BY Zenon, <2>6, <2>c DEF Framed, ToServer, ToClient
  <2>8. Asked(ToServer)' /\ Answered(ToClient)'
    BY Zenon, <2>4, <2>5, <2>c DEF Asked, Answered
  <2> QED BY Zenon, <2>q, <2>1, <2>2, <2>3, <2>7, <2>8 DEF IInv
<1> SUFFICES ASSUME IInv, Quiet
             PROVE  Kept
  BY Zenon
<1>1. IInv'
  BY Zenon, <1>QuietStep
<1>2. UNCHANGED <<Status, executions>>
  BY Zenon DEF Quiet, Status
<1> QED BY Zenon, <1>1, <1>2 DEF Kept

\* Bytes that arrive, and callers that look: both streams stay what they are.
LEMMA SameStreams ==
  ASSUME IInv, ToServer' = ToServer, ToClient' = ToClient
  PROVE  /\ Segment(ToServer', ToServer, 0) /\ Segment(ToClient', ToClient, 0)
         /\ (/\ client_state' = "kConnected" /\ socket_error' = "none"
             => client_state = "kConnected" /\ socket_error = "none")
              /\ (/\ server_state' = "kConnected" /\ socket_error' = "none"
                  => server_state = "kConnected" /\ socket_error = "none")
              => Whole'
<1>1. PICK s, u : s = ToServer /\ u = ToClient
  BY Zenon
<1>2. s \in Seq(Units(Requests)) /\ u \in Seq(Units(Responses))
  BY Zenon, <1>1, StreamTypes DEF IInv
<1>3. Segment(s, s, 0) /\ Segment(u, u, 0)
  BY Zenon, <1>2, SameSegment
<1>4. /\ Segment(ToServer', ToServer, 0) /\ Segment(ToClient', ToClient, 0)
  BY Zenon, <1>1, <1>3
<1>5. Whole
  BY Zenon DEF IInv
<1> QED BY Zenon, <1>4, <1>5 DEF Whole, Complete

\* Steps that leave the streams alone.
LEMMA StreamsAlone ==
  ASSUME IInv, NEW p \in [Calls -> Places], pc' = p,
         \A c \in Calls : p[c] = "idle" <=> pc[c] = "idle",
         \A c \in Calls : p[c] = "registered" => pc[c] = "registered",
         UNCHANGED <<id_, outstanding_calls_, request, result, executions>>,
         UNCHANGED <<closures, server_in, up, client_in, down>>,
         client_state' \in {client_state, "destroyed"},
         server_state' \in {server_state, "destroyed"} \/
           (server_state # "kConnected" /\ server_state' # "kConnected"),
         socket_error' = "none" => socket_error = "none"
  PROVE  Quiet
<1>1. TypeOK
  BY Zenon DEF IInv
<1>2. TypeOK'
  BY Zenon, <1>1 DEF TypeOK, Requests, Responses, Units
<1>3. ToServer' = ToServer /\ ToClient' = ToClient
  BY Zenon DEF ToServer, ToClient
<1>4. /\ client_state' = "kConnected" => client_state = "kConnected"
      /\ server_state' = "kConnected" => server_state = "kConnected"
  BY Zenon
<1>6. Whole' /\ Segment(ToServer', ToServer, 0) /\ Segment(ToClient', ToClient, 0)
  BY Zenon, <1>3, <1>4, SameStreams
<1> QED BY Zenon, <1>2, <1>6 DEF Quiet

\* Bytes that arrive leave the stream as it was.
Arrived(S, in, wire, n) ==
  /\ in \o SubSeq(wire, 1, n) \in Seq(S)
  /\ SubSeq(wire, n + 1, Len(wire)) \in Seq(S)
  /\ (in \o SubSeq(wire, 1, n)) \o SubSeq(wire, n + 1, Len(wire)) = in \o wire

\* Bytes that arrive at the client or at the server change no stream.
LEMMA ReadsQuiet ==
  /\ \A n \in 1..Len(down) :
        /\ IInv
        /\ client_in' = client_in \o SubSeq(down, 1, n)
        /\ down' = SubSeq(down, n + 1, Len(down))
        /\ UNCHANGED <<kind, callVars, client_state, serverVars, up,
                       socket_error>>
       => Quiet
  /\ \A n \in 1..Len(up) :
        /\ IInv
        /\ server_in' = server_in \o SubSeq(up, 1, n)
        /\ up' = SubSeq(up, n + 1, Len(up))
        /\ UNCHANGED <<callVars, clientVars, server_state, closures,
                       executions, down, socket_error>>
       => Quiet
<1>Arrive.
    ASSUME NEW S, NEW in \in Seq(S), NEW wire \in Seq(S), NEW n \in 1..Len(wire)
    PROVE  Arrived(S, in, wire, n)
  <2> USE <1>Arrive
  <2>1. /\ Len(wire) \in Nat /\ Len(in) \in Nat
        /\ \A i \in 1..Len(wire) : wire[i] \in S
    BY SeqElement
  <2>2. PICK t, u, a, p, v :
          /\ t = SubSeq(wire, 1, n) /\ u = SubSeq(wire, n + 1, Len(wire))
          /\ a = in \o t /\ p = a \o u /\ v = in \o wire
    BY Zenon
  <2>3. t \in Seq(S) /\ Len(t) = n /\ \A i \in 1..n : t[i] = wire[i]
    BY Zenon, <2>2, SeqPrefix
  <2>4. /\ u \in Seq(S) /\ Len(u) = Len(wire) - n
        /\ \A i \in 1..(Len(wire) - n) : u[i] = wire[n + i]
    <3>1. \A i \in (n + 1)..Len(wire) : wire[i] \in S
      BY <2>1
    <3>2. /\ u \in Seq(S)
          /\ Len(u) = (IF n + 1 <= Len(wire) THEN Len(wire) - (n + 1) + 1 ELSE 0)
          /\ \A i \in 1..(Len(wire) - (n + 1) + 1) : u[i] = wire[(n + 1) + i - 1]
      BY <3>1, <2>1, <2>2, SeqSub
    <3>3. Len(wire) - (n + 1) + 1 = Len(wire) - n /\ Len(u) = Len(wire) - n
      BY <3>2, <2>1
    <3>4. \A i \in 1..(Len(wire) - n) : (n + 1) + i - 1 = n + i
      BY <2>1
    <3> QED BY Zenon, <3>2, <3>3, <3>4
  <2>5. /\ a \in Seq(S) /\ Len(a) = Len(in) + Len(t)
        /\ \A i \in 1..(Len(in) + Len(t)) :
             a[i] = IF i <= Len(in) THEN in[i] ELSE t[i - Len(in)]
    BY <2>2, <2>3, SeqConcat
  <2>6. /\ p \in Seq(S) /\ Len(p) = Len(a) + Len(u)
        /\ \A i \in 1..(Len(a) + Len(u)) :
             p[i] = IF i <= Len(a) THEN a[i] ELSE u[i - Len(a)]
    <3>1. p = a \o u /\ a \in Seq(S) /\ u \in Seq(S)
      BY Zenon, <2>2, <2>4, <2>5
    <3> QED BY Zenon, <3>1, SeqConcat
  <2>7. /\ v \in Seq(S) /\ Len(v) = Len(in) + Len(wire)
        /\ \A i \in 1..(Len(in) + Len(wire)) :
             v[i] = IF i <= Len(in) THEN in[i] ELSE wire[i - Len(in)]
    BY Zenon, <2>2, SeqConcat
  <2>8. Len(a) = Len(in) + n /\ Len(p) = Len(v)
    BY <2>1, <2>3, <2>4, <2>5, <2>6, <2>7
  <2>9. ASSUME NEW i \in 1..Len(p) PROVE p[i] = v[i]
    <3>1. i \in 1..(Len(in) + Len(wire)) /\ i \in 1..(Len(a) + Len(u))
      BY Zenon, <2>6, <2>7, <2>8
    <3>2. CASE i <= Len(in)
      <4>1. i <= Len(a) /\ i \in 1..(Len(in) + Len(t))
        BY <3>1, <3>2, <2>1, <2>3, <2>8
      <4>2. p[i] = a[i] /\ a[i] = in[i]
        BY Zenon, <4>1, <3>1, <3>2, <2>5, <2>6
      <4> QED BY Zenon, <4>2, <3>1, <3>2, <2>7
    <3>3. CASE Len(in) < i /\ i <= Len(a)
      <4>1. i - Len(in) \in 1..n
        BY <3>1, <3>3, <2>1, <2>8
      <4>2. p[i] = a[i] /\ a[i] = t[i - Len(in)]
        BY <3>1, <3>3, <2>1, <2>3, <2>5, <2>6, <2>8
      <4>3. v[i] = wire[i - Len(in)]
        BY <3>1, <3>3, <2>1, <2>7
      <4> QED BY Zenon, <4>1, <4>2, <4>3, <2>3
    <3>4. CASE i > Len(a)
      <4>1. i - Len(a) \in 1..(Len(wire) - n) /\ n + (i - Len(a)) = i - Len(in)
        BY <3>1, <3>4, <2>1, <2>4, <2>8
      <4>2. p[i] = u[i - Len(a)]
        BY <3>1, <3>4, <2>1, <2>6, <2>8
      <4>3. v[i] = wire[i - Len(in)]
        BY <3>1, <3>4, <2>1, <2>7, <2>8
      <4> QED BY Zenon, <4>1, <4>2, <4>3, <2>4
    <3> QED BY <3>1, <3>2, <3>3, <3>4, <2>1, <2>8
  <2>10. p = v
    BY Zenon, <2>6, <2>7, <2>8, <2>9, SeqSame
  <2> QED BY Zenon, <2>2, <2>3, <2>4, <2>5, <2>10 DEF Arrived
<1>ClientReads.
    ASSUME IInv, NEW n \in 1..Len(down),
           client_in' = client_in \o SubSeq(down, 1, n),
           down' = SubSeq(down, n + 1, Len(down)),
           UNCHANGED <<kind, callVars, client_state, serverVars, up,
                       socket_error>>
    PROVE  Quiet
  <2> USE <1>ClientReads
  <2>1. /\ TypeOK /\ client_in \in Seq(Units(Responses))
        /\ down \in Seq(Units(Responses))
    BY Zenon DEF IInv, TypeOK
  <2>2. PICK in, wire : in = client_in /\ wire = down
    BY Zenon
  <2>3. /\ client_in' \in Seq(Units(Responses)) /\ down' \in Seq(Units(Responses))
        /\ client_in' \o down' = client_in \o down
    <3>1. PICK S : S = Units(Responses)
      BY Zenon
    <3>2. in \in Seq(S) /\ wire \in Seq(S) /\ n \in 1..Len(wire)
      BY Zenon, <2>1, <2>2, <3>1
    <3>3. Arrived(S, in, wire, n)
      BY Zenon, <3>2, <1>Arrive
    <3> QED BY Zenon, <2>2, <3>1, <3>3 DEF Arrived
  <2>4. ToServer' = ToServer /\ ToClient' = ToClient
    BY Zenon, <2>3 DEF ToServer, ToClient, serverVars
  <2>5. TypeOK'
    BY Zenon, <2>1, <2>3
       DEF TypeOK, callVars, serverVars, Requests, Responses, Units
  <2>6. Whole' /\ Segment(ToServer', ToServer, 0) /\ Segment(ToClient', ToClient, 0)
    BY Zenon, <2>4, SameStreams DEF serverVars
  <2> QED BY Zenon, <2>5, <2>6 DEF Quiet, callVars, serverVars
<1>ServerReads.
    ASSUME IInv, NEW n \in 1..Len(up),
           server_in' = server_in \o SubSeq(up, 1, n),
           up' = SubSeq(up, n + 1, Len(up)),
           UNCHANGED <<callVars, clientVars, server_state, closures,
                       executions, down, socket_error>>
    PROVE  Quiet
  <2> USE <1>ServerReads
  <2>1. /\ TypeOK /\ server_in \in Seq(Units(Requests))
        /\ up \in Seq(Units(Requests))
    BY Zenon DEF IInv, TypeOK
  <2>2. PICK in, wire : in = server_in /\ wire = up
    BY Zenon
  <2>3. /\ server_in' \in Seq(Units(Requests)) /\ up' \in Seq(Units(Requests))
        /\ server_in' \o up' = server_in \o up
    <3>1. PICK S : S = Units(Requests)
      BY Zenon
    <3>2. in \in Seq(S) /\ wire \in Seq(S) /\ n \in 1..Len(wire)
      BY Zenon, <2>1, <2>2, <3>1
    <3>3. Arrived(S, in, wire, n)
      BY Zenon, <3>2, <1>Arrive
    <3> QED BY Zenon, <2>2, <3>1, <3>3 DEF Arrived
  <2>4. ToServer' = ToServer /\ ToClient' = ToClient
    BY Zenon, <2>3 DEF ToServer, ToClient, clientVars
  <2>5. TypeOK'
    BY Zenon, <2>1, <2>3
       DEF TypeOK, callVars, clientVars, Requests, Responses, Units
  <2>6. Whole' /\ Segment(ToServer', ToServer, 0) /\ Segment(ToClient', ToClient, 0)
    BY Zenon, <2>4, SameStreams DEF clientVars
  <2> QED BY Zenon, <2>5, <2>6 DEF Quiet, callVars, clientVars
<1> QED BY Zenon, <1>ClientReads, <1>ServerReads

\* An end that closes, and a reset, cut the streams and do nothing else.
LEMMA CutsQuiet ==
  /\ \A n \in 0..Len(up) :
        /\ IInv
        /\ up' = SubSeq(up, 1, n)
        /\ client_state # "destroyed"
        /\ client_state' # "kConnected"
        /\ UNCHANGED <<kind, callVars, client_in, serverVars, down, socket_error>>
       => Quiet
  /\ \A n \in 0..Len(down) :
        /\ IInv
        /\ down' = SubSeq(down, 1, n)
        /\ server_state' # "kConnected"
        /\ UNCHANGED <<callVars, clientVars, server_in, closures, executions, up,
                       socket_error>>
       => Quiet
  /\ IInv /\ Reset =>
       Quiet
\* Bytes that are lost leave the front of the stream.
<1>Cut.
    ASSUME NEW S, NEW in \in Seq(S), NEW wire \in Seq(S), NEW n \in 0..Len(wire)
    PROVE  /\ SubSeq(wire, 1, n) \in Seq(S)
           /\ in \o SubSeq(wire, 1, n) \in Seq(S)
           /\ Segment(in \o SubSeq(wire, 1, n), in \o wire, 0)
  <2> USE <1>Cut
  <2>1. Len(wire) \in Nat /\ \A i \in 1..Len(wire) : wire[i] \in S
    BY SeqElement
  <2>2. PICK t : t = SubSeq(wire, 1, n)
    BY Zenon
  <2>3. /\ t \in Seq(S) /\ Len(t) = (IF 1 <= n THEN n - 1 + 1 ELSE 0)
        /\ \A i \in 1..(n - 1 + 1) : t[i] = wire[1 + i - 1]
    BY <2>1, <2>2, SeqSub
  <2>4. Len(t) = n /\ \A i \in 1..n : t[i] = wire[i]
    BY <2>1, <2>3
  <2>5. PICK u, v : u = in \o t /\ v = in \o wire
    BY Zenon
  <2>6. /\ u \in Seq(S) /\ Len(u) = Len(in) + Len(t)
        /\ \A i \in 1..(Len(in) + Len(t)) :
             u[i] = IF i <= Len(in) THEN in[i] ELSE t[i - Len(in)]
    BY Zenon, <2>3, <2>5, SeqConcat
  <2>7. /\ v \in Seq(S) /\ Len(v) = Len(in) + Len(wire)
        /\ \A i \in 1..(Len(in) + Len(wire)) :
             v[i] = IF i <= Len(in) THEN in[i] ELSE wire[i - Len(in)]
    BY Zenon, <2>5, SeqConcat
  <2>8. ASSUME NEW i \in 1..Len(u) PROVE u[i] = v[i + 0]
    <3>1. /\ i + 0 = i /\ i \in 1..(Len(in) + Len(t)) /\ Len(in) \in Nat
          /\ i \in 1..(Len(in) + Len(wire))
      BY <2>1, <2>4, <2>6
    <3>2. i > Len(in) => i - Len(in) \in 1..n
      BY <3>1, <2>4
    <3>3. CASE i <= Len(in)
      BY Zenon, <3>1, <3>3, <2>6, <2>7
    <3>4. CASE ~ (i <= Len(in))
      <4>1. u[i] = t[i - Len(in)] /\ v[i] = wire[i - Len(in)]
        BY Zenon, <3>1, <3>4, <2>6, <2>7
      <4> QED BY <4>1, <3>1, <3>2, <3>4, <2>4
    <3> QED BY Zenon, <3>3, <3>4
  <2>9. 0 \in Nat /\ Len(u) + 0 <= Len(v)
    BY <2>1, <2>4, <2>6, <2>7
  <2> QED BY Zenon, <2>2, <2>3, <2>5, <2>6, <2>8, <2>9 DEF Segment
\* Steps that cut what an end has on the wire.
<1>ClientCuts.
    ASSUME IInv, NEW n \in 0..Len(up), up' = SubSeq(up, 1, n),
           client_state # "destroyed", client_state' # "kConnected",
           UNCHANGED <<kind, callVars, client_in, serverVars, down, socket_error>>
    PROVE  Quiet
  <2> USE <1>ClientCuts
  <2>1. /\ TypeOK /\ Whole /\ server_in \in Seq(Units(Requests))
        /\ up \in Seq(Units(Requests))
    BY Zenon DEF IInv, TypeOK
  <2>2. PICK in, wire : in = server_in /\ wire = up
    BY Zenon
  <2>3. /\ up' \in Seq(Units(Requests))
        /\ Segment(server_in \o up', server_in \o up, 0)
    BY Zenon, <2>1, <2>2, <1>Cut
  <2>4. Segment(ToServer', ToServer, 0) /\ ToClient' = ToClient
    BY Zenon, <2>3 DEF ToServer, ToClient, serverVars
  <2>5. TypeOK'
    BY Zenon, <2>1, <2>3 DEF TypeOK, callVars, serverVars, Requests, Responses, Units
  <2>6. Segment(ToClient', ToClient, 0)
    <3>1. PICK u : u = ToClient
      BY Zenon
    <3>2. u \in Seq(Units(Responses))
      BY Zenon, <3>1, <2>1, StreamTypes
    <3> QED BY Zenon, <3>1, <3>2, <2>4, SameSegment
  <2>7. Whole'
    BY Zenon, <2>1, <2>4 DEF Whole, Complete, serverVars
  <2> QED BY Zenon, <2>4, <2>5, <2>6, <2>7 DEF Quiet, callVars, serverVars
<1>ServerCuts.
    ASSUME IInv, NEW n \in 0..Len(down), down' = SubSeq(down, 1, n),
           server_state' # "kConnected",
           UNCHANGED <<callVars, clientVars, server_in, closures, executions, up,
                       socket_error>>
    PROVE  Quiet
  <2> USE <1>ServerCuts
  <2>1. /\ TypeOK /\ Whole /\ client_in \in Seq(Units(Responses))
        /\ down \in Seq(Units(Responses))
    BY Zenon DEF IInv, TypeOK
  <2>2. PICK in, wire : in = client_in /\ wire = down
    BY Zenon
  <2>3. /\ down' \in Seq(Units(Responses))
        /\ Segment(client_in \o down', client_in \o down, 0)
    BY Zenon, <2>1, <2>2, <1>Cut
  <2>4. Segment(ToClient', ToClient, 0) /\ ToServer' = ToServer
    BY Zenon, <2>3 DEF ToServer, ToClient, clientVars
  <2>5. TypeOK'
    BY Zenon, <2>1, <2>3 DEF TypeOK, callVars, clientVars, Requests, Responses, Units
  <2>6. Segment(ToServer', ToServer, 0)
    <3>1. PICK u : u = ToServer
      BY Zenon
    <3>2. u \in Seq(Units(Requests))
      BY Zenon, <3>1, <2>1, StreamTypes
    <3> QED BY Zenon, <3>1, <3>2, <2>4, SameSegment
  <2>7. Whole'
    BY Zenon, <2>1, <2>4 DEF Whole, Complete, clientVars
  <2> QED BY Zenon, <2>4, <2>5, <2>6, <2>7 DEF Quiet, callVars, clientVars
\* A reset loses what is on the wire, in both directions.
<1>ResetQuiet.
    ASSUME IInv, Reset
    PROVE  Quiet
  <2> USE <1>ResetQuiet
  <2>a. /\ TypeOK /\ socket_error' = "pending" /\ up' = << >> /\ down' = << >>
        /\ UNCHANGED <<id_, outstanding_calls_, pc, request, result, client_state,
                       client_in, server_in, closures, executions>>
    BY Zenon DEF IInv, Reset, callVars, clientVars, serverVars
  <2>b. /\ server_in \in Seq(Units(Requests)) /\ up \in Seq(Units(Requests))
        /\ client_in \in Seq(Units(Responses)) /\ down \in Seq(Units(Responses))
    BY Zenon, <2>a DEF TypeOK
  <2>1. ASSUME NEW S, NEW in \in Seq(S), NEW wire \in Seq(S)
        PROVE  Segment(in \o << >>, in \o wire, 0)
    <3>1. SubSeq(wire, 1, 0) = << >> /\ 0 \in 0..Len(wire)
      BY SeqLen
    <3>2. Segment(in \o SubSeq(wire, 1, 0), in \o wire, 0)
      BY Zenon, <3>1, <1>Cut
    <3> QED BY Zenon, <3>1, <3>2
  <2>2. PICK a, b, d, e : a = server_in /\ b = up /\ d = client_in /\ e = down
    BY Zenon
  <2>3. Segment(a \o << >>, a \o b, 0) /\ Segment(d \o << >>, d \o e, 0)
    BY Zenon, <2>1, <2>2, <2>b
  <2>4. Segment(ToServer', ToServer, 0) /\ Segment(ToClient', ToClient, 0)
    BY Zenon, <2>2, <2>3, <2>a DEF ToServer, ToClient
  <2>5. TypeOK'
    BY <2>a DEF TypeOK, Requests, Responses, Units
  <2>6. Whole'
    BY Zenon, <2>a DEF Whole
  <2> QED BY Zenon, <2>a, <2>4, <2>5, <2>6 DEF Quiet
<1> QED BY Zenon, <1>ClientCuts, <1>ServerCuts, <1>ResetQuiet

\* An end closes, is destroyed, or the connection is reset.
LEMMA CloseKept ==
   /\ IInv
   /\ \/ ClientCloses \/ DestroyAsyncChannel \/ DestroySyncChannel
      \/ ServerCloses \/ ServerDestroys
      \/ Reset
  => Kept
\* ~RpcAsyncChannel drops the calls that have not ended, and only those.
<1>DestroyStep.
    ASSUME IInv, DestroyAsyncChannel
    PROVE  /\ IInv'
           /\ result' = [c \in Calls |->
                           IF c \in Invoked /\ result[c] = "none" THEN "dropped"
                                                                  ELSE result[c]]
  <2> USE <1>DestroyStep
  <2>a. /\ TypeOK /\ Requested /\ Waiting /\ Executed /\ Whole
        /\ Asked(ToServer) /\ Answered(ToClient) /\ Framed
    BY Zenon DEF IInv
  <2>b. /\ UNCHANGED <<id_, pc, request, client_in, server_state, server_in,
                       closures, executions, up, down, socket_error>>
        /\ client_state = "kDisconnected" /\ client_state' = "destroyed"
        /\ outstanding_calls_' = << >> /\ Invoked' = Invoked
        /\ result' = [c \in Calls |->
                        IF c \in Range(outstanding_calls_) THEN "dropped"
                                                           ELSE result[c]]
    BY Zenon DEF DestroyAsyncChannel, serverVars, Invoked
  <2>1. ASSUME NEW c \in Calls
        PROVE  c \in Range(outstanding_calls_) <=>
                 c \in Invoked /\ result[c] = "none"
    <3>1. ASSUME c \in Range(outstanding_calls_)
          PROVE  c \in Invoked /\ result[c] = "none"
      BY <3>1, <2>a DEF Range, Waiting
    <3>2. ASSUME c \in Invoked, result[c] = "none"
          PROVE  c \in Range(outstanding_calls_)
      <4>1. PICK i \in DOMAIN outstanding_calls_ : i = request[c].id
        BY Zenon, <3>2, <2>a, <2>b DEF Waiting
      <4>2. PICK d : d = outstanding_calls_[i]
        BY Zenon
      <4>3. d \in Invoked /\ request[d].id = i
        BY Zenon, <4>2, <2>a DEF Waiting
      <4>4. d = c
        BY Zenon, <4>1, <4>3, <3>2, <2>a DEF Requested
      <4> QED BY Zenon, <4>2, <4>4 DEF Range
    <3> QED BY Zenon, <3>1, <3>2
  <2>2. result' = [c \in Calls |->
                     IF c \in Invoked /\ result[c] = "none" THEN "dropped"
                                                            ELSE result[c]]
    BY Zenon, <2>1, <2>b
  <2>3. result' \in [Calls -> {"none", "replied", "empty", "dropped"}]
    BY Zenon, <2>2, <2>a DEF TypeOK
  <2>4. TypeOK'
    <3>1. outstanding_calls_' \in [DOMAIN outstanding_calls_' -> Calls]
      BY <2>b
    <3> QED BY Zenon, <3>1, <2>3, <2>a, <2>b DEF TypeOK, Requests, Responses, Units
  <2>5. Waiting'
    <3>1. DOMAIN outstanding_calls_' = {} /\ client_state' = "destroyed"
      BY <2>b
    <3> QED BY Zenon, <3>1 DEF Waiting
  <2>6. Executed'
    <3>1. ASSUME NEW q \in closures' PROVE q \in Requests /\ Justified(q)'
      BY Zenon, <3>1, <2>a, <2>b DEF Executed, Justified
    <3>2. \A d \in Calls :
            /\ executions'[d] = 1 =>
                 /\ d \in Invoked' /\ pc'[d] # "registered"
                 /\ request'[d].error = "NO_ERROR"
            /\ result'[d] # "none" => d \in Invoked'
            /\ result'[d] = "replied" => executions'[d] = 1
            /\ result'[d] = "empty" => request'[d].error # "NO_ERROR"
      BY Zenon, <2>2, <2>a, <2>b DEF Executed
    <3> QED BY Zenon, <3>1, <3>2 DEF Executed, Requests
  <2>7. ToServer' = ToServer /\ ToClient' = ToClient
    BY Zenon, <2>b DEF ToServer, ToClient
  <2>8. Whole'
    BY Zenon, <2>7, <2>a, <2>b DEF Whole, Complete
  <2>9. Asked(ToServer)' /\ Answered(ToClient)'
    BY Zenon, <2>7, <2>a, <2>b DEF Asked, Answered, Justified
  <2>10. Framed' /\ Requested'
    BY Zenon, <2>a, <2>b, SameRequested DEF Framed
  <2> QED BY Zenon, <2>2, <2>4, <2>5, <2>6, <2>8, <2>9, <2>10 DEF IInv
<1> SUFFICES ASSUME IInv,
                    \/ ClientCloses \/ DestroyAsyncChannel \/ DestroySyncChannel
                    \/ ServerCloses \/ ServerDestroys
                    \/ Reset
             PROVE  Kept
  BY Zenon
<1>a. pc \in [Calls -> Places]
  BY Zenon DEF IInv, TypeOK
<1>b. PICK q : q = pc
  BY Zenon
<1>1. CASE ClientCloses
  <2>1. PICK n \in 0..Len(up) : up' = SubSeq(up, 1, n)
    BY Zenon, <1>1 DEF ClientCloses, Truncated
  <2>2. /\ client_state # "destroyed" /\ client_state' # "kConnected"
        /\ UNCHANGED <<kind, callVars, client_in, serverVars, down, socket_error>>
    BY Zenon, <1>1 DEF ClientCloses, Open
  <2>3. Quiet
    BY Zenon, <2>1, <2>2, CutsQuiet
  <2> QED BY Zenon, <2>3, QuietKept
<1>2. CASE DestroyAsyncChannel
  <2>1. /\ IInv'
        /\ result' = [c \in Calls |->
                        IF c \in Invoked /\ result[c] = "none" THEN "dropped"
                                                               ELSE result[c]]
    BY Zenon, <1>2, <1>DestroyStep
  <2>2. pc' = pc /\ executions' = executions
    BY Zenon, <1>2 DEF DestroyAsyncChannel, serverVars
  <2>3. Status' = [c \in Calls |->
                     IF Status[c] = "pending" THEN "dropped" ELSE Status[c]]
    <3>1. \A c \in Calls : /\ c \in Invoked <=> pc[c] # "idle"
                           /\ result[c] # "pending"
      BY Zenon DEF Invoked, IInv, TypeOK
    <3>2. \A c \in Calls :
            Status'[c] = IF Status[c] = "pending" THEN "dropped" ELSE Status[c]
      BY Zenon, <2>1, <2>2, <3>1 DEF Status
    <3> QED BY Zenon, <3>2 DEF Status
  <2>4. Call!DropAll
    BY Zenon, <2>2, <2>3 DEF Call!DropAll, Status
  <2> QED BY Zenon, <2>1, <2>4 DEF Kept, Call!Step
<1>3. CASE DestroySyncChannel \/ ServerDestroys
  <2>1. /\ UNCHANGED <<id_, outstanding_calls_, pc, request, result, executions>>
        /\ UNCHANGED <<closures, server_in, up, client_in, down, socket_error>>
        /\ client_state' \in {client_state, "destroyed"}
        /\ server_state' \in {server_state, "destroyed"}
    BY Zenon, <1>3 DEF DestroySyncChannel, ServerDestroys, callVars, clientVars,
                serverVars
  <2>2. Quiet
    BY Zenon, <2>1, <1>a, <1>b, StreamsAlone
  <2> QED BY Zenon, <2>2, QuietKept
<1>4. CASE ServerCloses
  <2>1. PICK n \in 0..Len(down) : down' = SubSeq(down, 1, n)
    BY Zenon, <1>4 DEF ServerCloses, Truncated
  <2>2. /\ server_state' # "kConnected"
        /\ UNCHANGED <<callVars, clientVars, server_in, closures, executions, up,
                       socket_error>>
    BY Zenon, <1>4 DEF ServerCloses
  <2>3. Quiet
    BY Zenon, <2>1, <2>2, CutsQuiet
  <2> QED BY Zenon, <2>3, QuietKept
<1>5. CASE Reset
  <2>1. Quiet
    BY Zenon, <1>5, CutsQuiet
  <2> QED BY Zenon, <2>1, QuietKept
<1> QED BY Zenon, <1>1, <1>2, <1>3, <1>4, <1>5

-----------------------------------------------------------------------------
\* Sending.

\* FillEmptyBuffer's frame may follow a stream whose last frame is complete.
LEMMA AlignedAppend ==
  ASSUME NEW M, NEW m \in M, m.size \in Nat, NEW s \in Seq(Units(M)),
         Aligned(s), Complete(s)
  PROVE  Aligned(s \o FillEmptyBuffer(m)) /\ Complete(s \o FillEmptyBuffer(m))
<1>1. PICK f, n : f = FillEmptyBuffer(m) /\ n = 1 + MessageLength(m)
  BY Zenon
<1>2. n \in Nat /\ n >= 3
  BY <1>1, Lengths
<1>3. /\ f \in Seq(Units(M)) /\ Len(f) = n
      /\ \A i \in 1..n : f[i] = [of |-> m, at |-> i]
  BY Zenon, <1>1, FrameType
<1>4. PICK t : t = s \o f
  BY Zenon
<1>5. /\ t \in Seq(Units(M)) /\ Len(t) = Len(s) + n
      /\ \A i \in 1..Len(s) : t[i] = s[i]
      /\ \A i \in 1..n : t[Len(s) + i] = f[i]
  <2>1. /\ t \in Seq(Units(M)) /\ Len(t) = Len(s) + n
        /\ \A i \in 1..(Len(s) + n) :
             t[i] = IF i <= Len(s) THEN s[i] ELSE f[i - Len(s)]
    BY Zenon, <1>3, <1>4, SeqConcat
  <2>2. \A i \in 1..n : /\ Len(s) + i \in 1..(Len(s) + n)
                        /\ ~ (Len(s) + i <= Len(s)) /\ (Len(s) + i) - Len(s) = i
    BY <1>2
  <2> QED BY <2>1, <2>2, <1>2
<1>6. t[1].at = 1
  <2>1. CASE s = << >>
    <3>1. Len(s) = 0 /\ 1 \in 1..n
      BY <2>1, <1>2
    <3>2. t[0 + 1] = f[1]
      BY Zenon, <1>5, <3>1
    <3> QED BY <3>1, <3>2, <1>3
  <2>2. CASE s # << >>
    <3>1. 1 \in 1..Len(s)
      BY <2>2
    <3> QED BY Zenon, <3>1, <2>2, <1>5 DEF Aligned
  <2> QED BY Zenon, <2>1, <2>2
<1>7. ASSUME NEW i \in 1..(Len(t) - 1) PROVE Follows(t[i], t[i + 1])
  <2>1. CASE i < Len(s)
    <3>1. i \in 1..Len(s) /\ i + 1 \in 1..Len(s) /\ i \in 1..(Len(s) - 1)
      BY <2>1, <1>5
    <3>2. Follows(s[i], s[i + 1])
      BY Zenon, <3>1 DEF Aligned
    <3> QED BY Zenon, <3>1, <3>2, <1>5
  <2>2. CASE i = Len(s)
    <3>1. 1 \in 1..n /\ i \in 1..Len(s) /\ s # << >>
      BY <2>2, <1>2
    <3>2. t[i + 1].at = 1
      BY <3>1, <2>2, <1>3, <1>5
    <3>3. t[i].at = kHeaderLength + MessageLength(t[i].of)
      BY Zenon, <3>1, <2>2, <1>5 DEF Complete
    <3> QED BY Zenon, <3>2, <3>3 DEF Follows
  <2>3. CASE i > Len(s)
    <3>1. PICK j \in 1..n : i = Len(s) + j /\ j + 1 \in 1..n
      <4>1. i - Len(s) \in 1..n /\ i = Len(s) + (i - Len(s))
            /\ (i - Len(s)) + 1 \in 1..n
        BY <2>3, <1>2, <1>5
      <4> QED BY Zenon, <4>1
    <3>2. t[i] = [of |-> m, at |-> j]
      BY Zenon, <3>1, <1>3, <1>5
    <3>3. i + 1 = Len(s) + (j + 1)
      BY <3>1
    <3>4. t[i + 1] = [of |-> m, at |-> j + 1]
      BY Zenon, <3>1, <3>3, <1>3, <1>5
    <3>5. t[i].at # kHeaderLength + MessageLength(t[i].of)
      BY <3>1, <3>2, <1>1, <1>2 DEF kHeaderLength
    <3>6. t[i + 1] = [t[i] EXCEPT !.at = @ + 1]
      BY <3>2, <3>4
    <3> QED BY Zenon, <3>5, <3>6 DEF Follows
  <2> QED BY <2>1, <2>2, <2>3, <1>5
<1>8. Complete(t)
  <2>1. n \in 1..n /\ t[Len(s) + n] = f[n]
    BY <1>2, <1>5
  <2>2. t[Len(t)] = [of |-> m, at |-> n]
    BY Zenon, <2>1, <1>3, <1>5
  <2> QED BY <2>2, <1>1 DEF Complete, kHeaderLength
<1> QED BY Zenon, <1>1, <1>4, <1>6, <1>7, <1>8 DEF Aligned

\* The end of CallMethod, on either channel.
LEMMA SendKept ==
  \A c \in Calls :
     /\ IInv
     /\ AsyncSend(c) \/ SyncSend(c)
    => Kept
\* A byte of a frame knows its message and its place.
<1>UnitOf.
    ASSUME NEW x, NEW y
    PROVE  [of |-> x, at |-> y].of = x /\ [of |-> x, at |-> y].at = y
  BY Zenon, <1>UnitOf
<1>ConcatConcat.
    ASSUME NEW S, NEW a \in Seq(S), NEW b \in Seq(S), NEW d \in Seq(S)
    PROVE  a \o (b \o d) = (a \o b) \o d
  BY <1>ConcatConcat
\* The request of a call goes out after the last frame.
<1>SendStep.
    ASSUME IInv, NEW c \in Calls, pc[c] = "registered",
           NEW p \in {"over", "check"}, pc' = [pc EXCEPT ![c] = p],
           client_state = "kConnected", socket_error = "none",
           up' = up \o FillEmptyBuffer(request[c]),
           UNCHANGED <<id_, outstanding_calls_, request, result, client_state,
                       client_in, server_state, server_in, closures, executions,
                       down, socket_error>>
    PROVE  IInv'
  <2> USE <1>SendStep
  <2>a. /\ TypeOK /\ Requested /\ Waiting /\ Executed /\ Whole
        /\ Asked(ToServer) /\ Answered(ToClient) /\ Framed
    BY Zenon DEF IInv
  <2>b. c \in Invoked /\ Invoked' = Invoked
    BY Zenon, <2>a DEF Invoked, TypeOK
  <2>c. PICK m, n, f, s, t : /\ m = request[c] /\ n = 1 + MessageLength(m)
                             /\ f = FillEmptyBuffer(m) /\ s = ToServer /\ t = s \o f
    BY Zenon
  <2>d. m \in Requests /\ m.call = c /\ m.size \in Nat
    BY Zenon, <2>a, <2>b, <2>c, RequestSize DEF Requested
  <2>e. n \in Nat /\ n >= 3
    <3>1. PICK k : k = MessageLength(m) /\ k \in Nat /\ k >= 2
      BY Zenon, <2>d, Lengths
    <3> QED BY <2>c, <3>1
  <2>f. /\ f \in Seq(Units(Requests)) /\ Len(f) = n
        /\ \A i \in 1..n : f[i] = [of |-> m, at |-> i]
    BY Zenon, <2>c, <2>d, FrameType
  <2>g. s \in Seq(Units(Requests)) /\ Asked(s) /\ Aligned(s) /\ Complete(s)
    <3>1. s \in Seq(Units(Requests)) /\ Asked(s)
      BY Zenon, <2>a, <2>c, StreamTypes
    <3>2. Aligned(s)
      BY Zenon, <2>a, <2>c DEF Framed, ToServer
    <3>3. Complete(s)
      BY Zenon, <2>a, <2>c DEF Whole
    <3> QED BY Zenon, <3>1, <3>2, <3>3
  <2>h. ToServer' = t /\ up' \in Seq(Units(Requests))
    <3>1. up \in Seq(Units(Requests)) /\ server_in \in Seq(Units(Requests))
      BY Zenon, <2>a DEF TypeOK
    <3>2. up' = up \o f
      BY Zenon, <2>c
    <3>3. up' \in Seq(Units(Requests))
      BY <3>1, <3>2, <2>f, SeqConcat
    <3>4. PICK a, b : a = server_in /\ b = up
      BY Zenon
    <3>5. a \o (b \o f) = (a \o b) \o f
      BY <3>1, <3>4, <2>f, <1>ConcatConcat
    <3> QED BY Zenon, <3>2, <3>3, <3>4, <3>5, <2>c DEF ToServer
  <2>i. /\ t \in Seq(Units(Requests)) /\ Len(t) = Len(s) + n
        /\ DOMAIN t = 1..(Len(s) + n) /\ DOMAIN s = 1..Len(s) /\ Len(s) \in Nat
        /\ \A i \in 1..(Len(s) + n) :
             t[i] = IF i <= Len(s) THEN s[i] ELSE f[i - Len(s)]
    <3>1. s \in Seq(Units(Requests)) /\ f \in Seq(Units(Requests)) /\ t = s \o f
      BY Zenon, <2>c, <2>f, <2>g
    <3>2. /\ t \in Seq(Units(Requests)) /\ Len(t) = Len(s) + Len(f)
          /\ \A i \in 1..(Len(s) + Len(f)) :
               t[i] = IF i <= Len(s) THEN s[i] ELSE f[i - Len(s)]
      BY Zenon, <3>1, SeqConcat
    <3> QED BY Zenon, <3>1, <3>2, <2>f, SeqLen
  <2>j. Aligned(t) /\ Complete(t)
    BY Zenon, <2>c, <2>d, <2>g, AlignedAppend
  <2>k. ASSUME NEW i \in DOMAIN t
        PROVE  \/ i \in DOMAIN s /\ t[i] = s[i]
               \/ i > Len(s) /\ t[i] = [of |-> m, at |-> i - Len(s)]
    <3>1. CASE i <= Len(s)
      BY <3>1, <2>i
    <3>2. CASE i > Len(s)
      <4>1. i - Len(s) \in 1..n /\ ~ (i <= Len(s)) /\ i \in 1..(Len(s) + n)
        BY <3>2, <2>e, <2>i
      <4>2. t[i] = f[i - Len(s)]
        BY Zenon, <4>1, <2>i
      <4> QED BY Zenon, <3>2, <4>1, <4>2, <2>f
    <3> QED BY <3>1, <3>2, <2>i
  <2>l. ASSUME NEW i \in DOMAIN s
        PROVE  /\ s[i].of.call \in Invoked /\ s[i].of.call # c
               /\ pc'[s[i].of.call] # "registered"
               /\ s[i].of = request[s[i].of.call]
               /\ s[i].at = 1 => executions[s[i].of.call] = 0
    <3>1. PICK d : d = s[i].of.call
      BY Zenon
    <3>2. /\ d \in Invoked /\ pc[d] # "registered" /\ s[i].of = request[d]
          /\ s[i].at = 1 => executions[d] = 0
      BY Zenon, <3>1, <2>g DEF Asked
    <3>3. d # c /\ d \in Calls /\ pc'[d] = pc[d]
      BY Zenon, <3>2, <2>a DEF Invoked, TypeOK
    <3> QED BY Zenon, <3>1, <3>2, <3>3
  <2>m. pc'[c] = p /\ executions[c] = 0
    BY Zenon, <2>a DEF TypeOK, Executed
  <2>1. TypeOK'
    BY Zenon, <2>a, <2>h DEF TypeOK, Requests, Responses, Units, Places
  <2>2. Requested' /\ Waiting'
    BY Zenon, <2>a, <2>b, SameRequested DEF Waiting
  <2>3. Executed'
    <3>1. ASSUME NEW k \in closures' PROVE k \in Requests /\ Justified(k)'
      BY Zenon, <3>1, <2>a, <2>b DEF Executed, Justified
    <3>2. \A d \in Calls : pc'[d] = "registered" => pc[d] = "registered"
      BY Zenon, <2>a DEF TypeOK
    <3>3. \A d \in Calls :
            /\ executions'[d] = 1 =>
                 /\ d \in Invoked' /\ pc'[d] # "registered"
                 /\ request'[d].error = "NO_ERROR"
            /\ result'[d] # "none" => d \in Invoked'
            /\ result'[d] = "replied" => executions'[d] = 1
            /\ result'[d] = "empty" => request'[d].error # "NO_ERROR"
      BY Zenon, <3>2, <2>a, <2>b DEF Executed
    <3> QED BY Zenon, <3>1, <3>3 DEF Executed
  <2>4. Asked(t)'
    <3>1. ASSUME NEW i \in DOMAIN t
          PROVE  /\ t[i].of.call \in Invoked' /\ pc'[t[i].of.call] # "registered"
                 /\ t[i].of = request'[t[i].of.call]
                 /\ t[i].at = 1 => executions'[t[i].of.call] = 0
      <4>1. CASE i \in DOMAIN s /\ t[i] = s[i]
        BY Zenon, <4>1, <2>b, <2>l
      <4>2. CASE i > Len(s) /\ t[i] = [of |-> m, at |-> i - Len(s)]
        <5>1. t[i].of = m
          BY Zenon, <4>2, <1>UnitOf
        <5>2. m.call = c /\ m = request'[c] /\ executions'[c] = 0
          BY Zenon, <2>c, <2>d, <2>m
        <5> QED BY Zenon, <5>1, <5>2, <2>b, <2>m
      <4> QED BY Zenon, <4>1, <4>2, <2>k
    <3>2. ASSUME NEW i \in DOMAIN t, t[i].at = 1,
                 NEW j \in DOMAIN t, t[j].at = 1, t[j].of.call = t[i].of.call
          PROVE  i = j
      <4>1. CASE i \in DOMAIN s /\ t[i] = s[i] /\ j \in DOMAIN s /\ t[j] = s[j]
        BY Zenon, <4>1, <3>2, <2>g DEF Asked
      <4>2. ASSUME NEW k \in DOMAIN t, k > Len(s),
                   t[k] = [of |-> m, at |-> k - Len(s)]
            PROVE  t[k].of.call = c /\ t[k].at = k - Len(s) /\ k \in Int
        BY <4>2, <2>d, <2>i
      <4>3. ASSUME NEW k \in DOMAIN s, t[k] = s[k] PROVE t[k].of.call # c
        BY Zenon, <4>3, <2>l
      <4>4. CASE t[i].of.call = c
        <5>1. i > Len(s) /\ t[i] = [of |-> m, at |-> i - Len(s)]
          BY Zenon, <4>4, <4>3, <2>k
        <5>2. j > Len(s) /\ t[j] = [of |-> m, at |-> j - Len(s)]
          BY Zenon, <4>4, <4>3, <3>2, <2>k
        <5>3. i - Len(s) = 1 /\ j - Len(s) = 1 /\ i \in Int /\ j \in Int
          BY Zenon, <4>2, <3>2, <5>1, <5>2
        <5> QED BY <5>3, <2>i
      <4>5. CASE t[i].of.call # c
        <5>1. i \in DOMAIN s /\ t[i] = s[i]
          BY Zenon, <4>5, <4>2, <2>k
        <5>2. j \in DOMAIN s /\ t[j] = s[j]
          BY Zenon, <4>5, <4>2, <3>2, <2>k
        <5> QED BY Zenon, <5>1, <5>2, <4>1
      <4> QED BY Zenon, <4>4, <4>5
    <3> QED BY Zenon, <3>1, <3>2 DEF Asked
  <2>5. ToClient' = ToClient
    BY Zenon DEF ToClient
  <2>6. Answered(ToClient)'
    BY Zenon, <2>a, <2>b, <2>5 DEF Answered, Justified
  <2>7. Whole'
    BY Zenon, <2>a, <2>h, <2>j, <2>5 DEF Whole, Complete
  <2>8. Framed'
    BY Zenon, <2>a, <2>h, <2>j DEF Framed, ToServer
  <2>9. Asked(ToServer)'
    BY Zenon, <2>4, <2>h DEF Asked
  <2> QED BY Zenon, <2>1, <2>2, <2>3, <2>6, <2>7, <2>8, <2>9 DEF IInv
<1> SUFFICES ASSUME IInv, NEW c \in Calls, AsyncSend(c) \/ SyncSend(c)
             PROVE  Kept
  BY Zenon
<1>a. pc[c] = "registered" /\ pc \in [Calls -> Places]
  BY Zenon DEF AsyncSend, SyncSend, IInv, TypeOK
<1>b. UNCHANGED <<id_, outstanding_calls_, request, result, client_state,
                  client_in, server_state, server_in, closures, executions,
                  down>>
  BY Zenon DEF AsyncSend, SyncSend, clientVars, serverVars
<1>c. /\ pc' = [pc EXCEPT ![c] = "over"] \/ pc' = [pc EXCEPT ![c] = "check"]
      /\ up' = up \/ (/\ client_state = "kConnected" /\ socket_error = "none"
                      /\ up' = up \o FillEmptyBuffer(request[c]))
      /\ socket_error' = "none" => socket_error = "none"
      /\ socket_error = "none" => socket_error' = socket_error
  BY Zenon DEF AsyncSend, SyncSend, SendAll, SendOn, ReadError
<1>1. PICK p \in {"over", "check"} : pc' = [pc EXCEPT ![c] = p]
  BY Zenon, <1>c
<1>2. CASE up' = up
  <2>1. PICK q : q = [pc EXCEPT ![c] = p]
    BY Zenon
  <2>2. /\ q \in [Calls -> Places]
        /\ \A d \in Calls : q[d] = "idle" <=> pc[d] = "idle"
        /\ \A d \in Calls : q[d] = "registered" => pc[d] = "registered"
    BY Zenon, <2>1, <1>a DEF Places
  <2>3. Quiet
    BY Zenon, <2>1, <2>2, <1>1, <1>2, <1>b, <1>c, StreamsAlone
  <2> QED BY Zenon, <2>3, QuietKept
<1>3. CASE /\ client_state = "kConnected" /\ socket_error = "none"
           /\ up' = up \o FillEmptyBuffer(request[c])
  <2>1. IInv'
    BY Zenon, <1>3, <1>1, <1>a, <1>b, <1>c, <1>SendStep
  <2>2. UNCHANGED <<Status, executions>>
    BY Zenon, <1>1, <1>a, <1>b DEF Status
  <2> QED BY Zenon, <2>1, <2>2 DEF Kept
<1> QED BY Zenon, <1>2, <1>3, <1>c

-----------------------------------------------------------------------------
\* Responses.

\* A step of a call's end: with the reply of this call, which was executed,
\* or with an error, and then it was not.
EndsCall(c) ==
  /\ c \in Invoked /\ result[c] = "none"
  /\ \/ executions[c] = 1 /\ result' = [result EXCEPT ![c] = "replied"]
     \/ executions[c] = 0 /\ result' = [result EXCEPT ![c] = "empty"]

\* A frame that the client or the server accepts is the first of its stream,
\* and the stream without it is aligned.
LEMMA FrameRead ==
  /\ /\ IInv
      /\ Missing(client_in) = 0
      /\ Acceptable(client_in)
      /\ client_in' = Refresh(client_in)
      /\ down' = down
     => /\ Justified(Head(client_in).of)
        /\ client_in' \in Seq(Units(Responses))
        /\ ToClient' \in Seq(Units(Responses)) /\ Aligned(ToClient')
        /\ Complete(ToClient) => Complete(ToClient')
        /\ \E k \in Nat : Segment(ToClient', ToClient, k)
  /\ /\ IInv
      /\ Missing(server_in) = 0
      /\ Acceptable(server_in)
      /\ server_in' = Refresh(server_in)
      /\ up' = up
     => /\ server_in' \in Seq(Units(Requests))
        /\ ToServer' \in Seq(Units(Requests)) /\ Aligned(ToServer')
        /\ Complete(ToServer) => Complete(ToServer')
        /\ \E k \in Nat : k >= 1 /\ Segment(ToServer', ToServer, k)
        /\ 1 \in DOMAIN ToServer /\ ToServer[1].at = 1
        /\ Head(server_in).of = ToServer[1].of
\* What OnMessage accepts is the whole first frame of an aligned stream, and
\* Refresh takes exactly that off.
<1>AcceptedFrame.
    ASSUME NEW M, \A m \in M : m.size \in Nat,
           NEW in \in Seq(Units(M)), NEW rest \in Seq(Units(M)),
           Aligned(in \o rest), Missing(in) = 0, Acceptable(in)
    PROVE  /\ Head(in) = in[1] /\ in[1].at = 1 /\ 1 \in 1..Len(in)
           /\ Refresh(in) \in Seq(Units(M))
           /\ \E k \in 1..Len(in) :
                /\ Refresh(in) = SubSeq(in, k + 1, Len(in))
                /\ in[k].at = kHeaderLength + MessageLength(in[k].of)
  <2> USE <1>AcceptedFrame
  <2>1. Len(in) \in Nat /\ Len(in) >= 3
    <3>1. Len(in) \in Nat
      OBVIOUS
    <3>2. ASSUME Len(in) < 3 PROVE FALSE
      <4>1. kHeaderLength = 1 /\ kMinMessageLength = 2
        BY DEF kHeaderLength, kMinMessageLength, kTagLength, kChecksumLength
      <4>2. Missing(in) = 1 + (2 - Len(in))
        BY <3>1, <3>2, <4>1 DEF Missing
      <4> QED BY <3>1, <3>2, <4>2
    <3> QED BY <3>1, <3>2
  <2>2. /\ Head(in) = in[1] /\ 1 \in 1..Len(in) /\ in[1] \in Units(M)
        /\ (in \o rest)[1] = in[1] /\ in \o rest # << >>
    <3>1. 1 \in 1..Len(in) /\ in # << >>
      BY <2>1
    <3>2. (in \o rest)[1] = in[1] /\ Len(in \o rest) # 0
      BY <3>1, <2>1, SeqConcat
    <3> QED BY <3>1, <3>2
  <2>3. in[1].at = 1
    BY Zenon, <2>2 DEF Aligned
  <2>4. PICK m, len : m = in[1].of /\ len = MessageLength(m)
    BY Zenon
  <2>5. m \in M /\ len \in Nat /\ len >= 2
    <3>1. m \in M
      BY Zenon, <2>2, <2>4 DEF Units
    <3> QED BY Zenon, <3>1, <2>4, Lengths
  <2>6. GetReadableInt32(in) = len
    BY Zenon, <2>2, <2>3, <2>4 DEF GetReadableInt32, kHeaderLength
  <2>7. ~ InvalidLength(len) /\ Len(in) >= 1 + len
    <3>1. ~ InvalidLength(len)
      BY Zenon, <2>6 DEF Acceptable
    <3>2. ~ (Len(in) < 1 + len)
      BY <3>1, <2>1, <2>5, <2>6 DEF Missing, kHeaderLength, kMinMessageLength,
                                    kTagLength, kChecksumLength
    <3> QED BY <3>1, <3>2, <2>1, <2>5
  <2>8. PICK body : body = SubSeq(in, 2, 1 + len)
    BY Zenon
  <2>9. /\ body \in Seq(Units(M)) /\ Len(body) = len
        /\ \A i \in 1..len : body[i] = in[i + 1]
    <3>1. \A i \in 2..(1 + len) : in[i] \in Units(M)
      BY <2>1, <2>5, <2>7, SeqElement
    <3>2. /\ body \in Seq(Units(M))
          /\ Len(body) = (IF 2 <= 1 + len THEN (1 + len) - 2 + 1 ELSE 0)
          /\ \A i \in 1..((1 + len) - 2 + 1) : body[i] = in[2 + i - 1]
      BY <3>1, <2>5, <2>8, SeqSub
    <3>3. (1 + len) - 2 + 1 = len /\ 2 <= 1 + len
      BY <2>5
    <3>4. \A i \in 1..len : 2 + i - 1 = i + 1
      OBVIOUS
    <3> QED BY <3>2, <3>3, <3>4
  <2>10. PICK last : last = body[len].of
    BY Zenon
  <2>11. last \in M /\ body = Tail(FillEmptyBuffer(last))
    <3>1. body[len] \in Units(M)
      BY <2>5, <2>9, SeqElement
    <3>2. ValidateChecksum(SubSeq(in, 2, 1 + len))
      BY <2>6 DEF Acceptable, kHeaderLength
    <3> QED BY Zenon, <3>1, <3>2, <2>8, <2>9, <2>10 DEF Units, ValidateChecksum
  <2>12. len = MessageLength(last) /\ body[len] = [of |-> last, at |-> 1 + len]
    <3>1. PICK f, n : f = FillEmptyBuffer(last) /\ n = MessageLength(last)
      BY Zenon
    <3>2. /\ n \in Nat /\ n >= 2
          /\ f \in Seq(Units(M)) /\ Len(f) = 1 + n
          /\ \A i \in 1..(1 + n) : f[i] = [of |-> last, at |-> i]
      BY Zenon, <3>1, <2>11, Lengths, FrameType
    <3>3. f # << >>
      BY <3>2
    <3>4. /\ Len(Tail(f)) = Len(f) - 1
          /\ \A i \in 1..Len(Tail(f)) : Tail(f)[i] = f[i + 1]
      BY <3>2, <3>3, SeqHeadTail
    <3>5. len = n
      BY <3>1, <3>2, <3>4, <2>9, <2>11
    <3>6. body[len] = f[len + 1] /\ len + 1 \in 1..(1 + n)
      BY <3>1, <3>2, <3>4, <3>5, <2>5, <2>9, <2>11
    <3> QED BY <3>1, <3>2, <3>5, <3>6
  <2>13. PICK k \in 1..Len(in) : k = 1 + len
    BY <2>1, <2>5, <2>7
  <2>14. in[k].at = kHeaderLength + MessageLength(in[k].of)
    <3>1. in[k] = body[len]
      BY <2>5, <2>9, <2>13
    <3> QED BY <3>1, <2>12, <2>13 DEF kHeaderLength
  <2>15. Refresh(in) = SubSeq(in, k + 1, Len(in))
    BY Zenon, <2>6, <2>13 DEF Refresh, kHeaderLength
  <2>16. SubSeq(in, k + 1, Len(in)) \in Seq(Units(M))
    <3>1. \A i \in (k + 1)..Len(in) : in[i] \in Units(M)
      BY <2>1, SeqElement
    <3> QED BY <3>1, <2>1, SeqSub
  <2> QED BY Zenon, <2>2, <2>3, <2>13, <2>14, <2>15, <2>16
\* What is behind the first k units is a segment of the stream.
<1>DropFront.
    ASSUME NEW S, NEW in \in Seq(S), NEW rest \in Seq(S), NEW k \in 1..Len(in)
    PROVE  /\ SubSeq(in, k + 1, Len(in)) \o rest \in Seq(S)
           /\ Len(SubSeq(in, k + 1, Len(in)) \o rest) + k = Len(in \o rest)
           /\ Segment(SubSeq(in, k + 1, Len(in)) \o rest, in \o rest, k)
  <2> USE <1>DropFront
  <2>1. PICK t, u, n : /\ t = SubSeq(in, k + 1, Len(in)) /\ u = t \o rest
                       /\ n = Len(in) - k
    BY Zenon
  <2>2. n \in Nat /\ Len(in) \in Nat /\ Len(rest) \in Nat
    BY <2>1
  <2>3. /\ t \in Seq(S) /\ Len(t) = n
        /\ \A i \in 1..n : t[i] = in[i + k]
    <3>1. \A i \in (k + 1)..Len(in) : in[i] \in S
      BY <2>2, SeqElement
    <3>2. /\ t \in Seq(S)
          /\ Len(t) = (IF k + 1 <= Len(in) THEN Len(in) - (k + 1) + 1 ELSE 0)
          /\ \A i \in 1..(Len(in) - (k + 1) + 1) : t[i] = in[(k + 1) + i - 1]
      BY <3>1, <2>1, <2>2, SeqSub
    <3>3. Len(in) - (k + 1) + 1 = n /\ Len(t) = n
      BY <3>2, <2>1, <2>2
    <3>4. \A i \in 1..n : (k + 1) + i - 1 = i + k
      BY <2>2
    <3> QED BY Zenon, <3>2, <3>3, <3>4
  <2>4. /\ u \in Seq(S) /\ Len(u) = n + Len(rest)
        /\ \A i \in 1..(n + Len(rest)) :
             u[i] = IF i <= n THEN t[i] ELSE rest[i - n]
    <3>1. /\ u \in Seq(S) /\ Len(u) = Len(t) + Len(rest)
          /\ \A i \in 1..(Len(t) + Len(rest)) :
               u[i] = IF i <= Len(t) THEN t[i] ELSE rest[i - Len(t)]
      BY <2>1, <2>3, SeqConcat
    <3> QED BY Zenon, <3>1, <2>3
  <2>5. /\ Len(in \o rest) = Len(in) + Len(rest)
        /\ \A i \in 1..(Len(in) + Len(rest)) :
             (in \o rest)[i] = IF i <= Len(in) THEN in[i] ELSE rest[i - Len(in)]
    BY Zenon, SeqConcat
  <2>6. ASSUME NEW i \in 1..Len(u) PROVE u[i] = (in \o rest)[i + k]
    <3>1. i + k \in 1..(Len(in) + Len(rest)) /\ (i + k) - Len(in) = i - n
          /\ (i <= n <=> i + k <= Len(in)) /\ i \in 1..(n + Len(rest))
      BY <2>1, <2>2, <2>4
    <3>2. CASE i <= n
      <4>1. u[i] = in[i + k]
        BY <3>1, <3>2, <2>3, <2>4
      <4> QED BY Zenon, <4>1, <3>1, <3>2, <2>5
    <3>3. CASE ~ (i <= n)
      BY Zenon, <3>1, <3>3, <2>4, <2>5
    <3> QED BY Zenon, <3>2, <3>3
  <2>7. k \in Nat /\ Len(u) + k = Len(in \o rest)
    BY <2>1, <2>2, <2>4, <2>5
  <2>8. Len(u) + k <= Len(in \o rest)
    BY <2>2, <2>5, <2>7
  <2>9. Segment(u, in \o rest, k)
    BY Zenon, <2>6, <2>7, <2>8 DEF Segment
  <2> QED BY Zenon, <2>1, <2>4, <2>7, <2>9
\* Behind an accepted frame the stream goes on with another.
<1>AlignedDrop.
    ASSUME NEW S, NEW s \in Seq(S), NEW t \in Seq(S), Aligned(s),
           NEW k \in 1..Len(s), Segment(t, s, k), Len(t) + k = Len(s),
           s[k].at = kHeaderLength + MessageLength(s[k].of)
    PROVE  Aligned(t) /\ (Complete(s) => Complete(t))
  <2> USE <1>AlignedDrop
  <2>1. Len(s) \in Nat /\ Len(t) \in Nat
    OBVIOUS
  <2>2. t # << >> => t[1].at = 1
    <3> SUFFICES ASSUME t # << >> PROVE t[1].at = 1
      BY Zenon
    <3>1. 1 \in 1..Len(t) /\ k \in 1..(Len(s) - 1)
      BY <2>1
    <3>2. t[1] = s[k + 1]
      BY <3>1 DEF Segment
    <3>3. Follows(s[k], s[k + 1])
      BY Zenon, <3>1 DEF Aligned
    <3> QED BY Zenon, <3>2, <3>3 DEF Follows
  <2>3. ASSUME NEW i \in 1..(Len(t) - 1) PROVE Follows(t[i], t[i + 1])
    <3>1. /\ i \in 1..Len(t) /\ i + 1 \in 1..Len(t)
          /\ i + k \in 1..(Len(s) - 1) /\ (i + 1) + k = (i + k) + 1
      BY <2>1
    <3>2. Follows(s[i + k], s[(i + k) + 1])
      BY Zenon, <3>1 DEF Aligned
    <3>3. t[i] = s[i + k] /\ t[i + 1] = s[(i + k) + 1]
      BY <3>1 DEF Segment
    <3> QED BY Zenon, <3>2, <3>3
  <2>4. ASSUME Complete(s), t # << >>
        PROVE  t[Len(t)].at = kHeaderLength + MessageLength(t[Len(t)].of)
    <3>1. Len(t) \in 1..Len(t) /\ s # << >>
      BY <2>1, <2>4
    <3>2. t[Len(t)] = s[Len(s)]
      BY Zenon, <3>1 DEF Segment
    <3> QED BY Zenon, <3>1, <3>2, <2>4 DEF Complete
  <2> QED BY Zenon, <2>2, <2>3, <2>4 DEF Aligned, Complete
\* A frame that OnMessage accepts is taken off whole.
<1>ClientFrame.
    ASSUME IInv, Missing(client_in) = 0, Acceptable(client_in),
           client_in' = Refresh(client_in), down' = down
    PROVE  /\ Justified(Head(client_in).of)
           /\ client_in' \in Seq(Units(Responses))
           /\ ToClient' \in Seq(Units(Responses)) /\ Aligned(ToClient')
           /\ Complete(ToClient) => Complete(ToClient')
           /\ \E k \in Nat : Segment(ToClient', ToClient, k)
  <2> USE <1>ClientFrame
  <2>a. TypeOK /\ Answered(ToClient) /\ Aligned(ToClient)
    BY Zenon DEF IInv, Framed, ToClient
  <2>1. PICK in, rest, s : in = client_in /\ rest = down /\ s = in \o rest
    BY Zenon
  <2>2. in \in Seq(Units(Responses)) /\ rest \in Seq(Units(Responses))
    BY Zenon, <2>1, <2>a DEF TypeOK
  <2>3. Aligned(s) /\ Answered(s)
    BY Zenon, <2>1, <2>a DEF ToClient
  <2>4. /\ Head(in) = in[1] /\ 1 \in 1..Len(in)
        /\ Refresh(in) \in Seq(Units(Responses))
        /\ \E k \in 1..Len(in) :
                /\ Refresh(in) = SubSeq(in, k + 1, Len(in))
                /\ in[k].at = kHeaderLength + MessageLength(in[k].of)
    BY Zenon, <2>1, <2>2, <2>3, <1>AcceptedFrame, ResponseSize
  <2>5. PICK k \in 1..Len(in) :
                /\ Refresh(in) = SubSeq(in, k + 1, Len(in))
                /\ in[k].at = kHeaderLength + MessageLength(in[k].of)
    BY Zenon, <2>4
  <2>6. PICK t : t = SubSeq(in, k + 1, Len(in)) \o rest
    BY Zenon
  <2>7. /\ t \in Seq(Units(Responses)) /\ Len(t) + k = Len(s) /\ Segment(t, s, k)
    BY <2>1, <2>2, <2>6, <1>DropFront
  <2>8. /\ s \in Seq(Units(Responses)) /\ Len(s) = Len(in) + Len(rest)
        /\ \A i \in 1..Len(in) : s[i] = in[i]
    <3>1. s \in Seq(Units(Responses)) /\ Len(s) = Len(in) + Len(rest)
      BY Zenon, <2>1, <2>2, SeqConcat
    <3>2. \A i \in 1..Len(in) : s[i] = in[i]
      BY <2>1, <2>2, SeqConcat
    <3> QED BY Zenon, <3>1, <3>2
  <2>9. k \in 1..Len(s) /\ s[k] = in[k] /\ 1 \in DOMAIN s /\ s[1] = in[1]
    <3>1. DOMAIN s = 1..Len(s) /\ 1..Len(in) \subseteq 1..Len(s)
      BY <2>2, <2>8
    <3> QED BY Zenon, <2>4, <2>8, <3>1
  <2>10. Aligned(t) /\ (Complete(s) => Complete(t))
    BY Zenon, <2>3, <2>5, <2>7, <2>8, <2>9, <1>AlignedDrop
  <2>11. Justified(in[1].of)
    <3>1. Justified(s[1].of)
      BY Zenon, <2>3, <2>9 DEF Answered
    <3> QED BY Zenon, <3>1, <2>9
  <2>12. ToClient' = t /\ ToClient = s
    BY Zenon, <2>1, <2>5, <2>6 DEF ToClient
  <2>13. Justified(Head(client_in).of)
    BY Zenon, <2>1, <2>4, <2>11
  <2>14. client_in' \in Seq(Units(Responses))
    BY Zenon, <2>1, <2>4
  <2>15. k \in Nat
    BY <2>2
  <2> QED BY Zenon, <2>7, <2>10, <2>12, <2>13, <2>14, <2>15
\* A frame that the server's OnMessage accepts is taken off whole, and it is
\* the request of a call that was not executed.
<1>ServerFrame.
    ASSUME IInv, Missing(server_in) = 0, Acceptable(server_in),
           server_in' = Refresh(server_in), up' = up
    PROVE  /\ server_in' \in Seq(Units(Requests))
           /\ ToServer' \in Seq(Units(Requests)) /\ Aligned(ToServer')
           /\ Complete(ToServer) => Complete(ToServer')
           /\ \E k \in Nat : k >= 1 /\ Segment(ToServer', ToServer, k)
           /\ 1 \in DOMAIN ToServer /\ ToServer[1].at = 1
           /\ Head(server_in).of = ToServer[1].of
  <2> USE <1>ServerFrame
  <2>a. TypeOK /\ Aligned(ToServer)
    BY Zenon DEF IInv, Framed, ToServer
  <2>1. PICK in, rest, s : in = server_in /\ rest = up /\ s = in \o rest
    BY Zenon
  <2>2. in \in Seq(Units(Requests)) /\ rest \in Seq(Units(Requests))
    BY Zenon, <2>1, <2>a DEF TypeOK
  <2>3. Aligned(s)
    BY Zenon, <2>1, <2>a DEF ToServer
  <2>4. /\ Head(in) = in[1] /\ in[1].at = 1 /\ 1 \in 1..Len(in)
        /\ Refresh(in) \in Seq(Units(Requests))
        /\ \E k \in 1..Len(in) :
                /\ Refresh(in) = SubSeq(in, k + 1, Len(in))
                /\ in[k].at = kHeaderLength + MessageLength(in[k].of)
    BY Zenon, <2>1, <2>2, <2>3, <1>AcceptedFrame, RequestSize
  <2>5. PICK k \in 1..Len(in) :
                /\ Refresh(in) = SubSeq(in, k + 1, Len(in))
                /\ in[k].at = kHeaderLength + MessageLength(in[k].of)
    BY Zenon, <2>4
  <2>6. PICK t : t = SubSeq(in, k + 1, Len(in)) \o rest
    BY Zenon
  <2>7. /\ t \in Seq(Units(Requests)) /\ Len(t) + k = Len(s) /\ Segment(t, s, k)
    BY <2>1, <2>2, <2>6, <1>DropFront
  <2>8. /\ s \in Seq(Units(Requests)) /\ Len(s) = Len(in) + Len(rest)
        /\ \A i \in 1..Len(in) : s[i] = in[i]
    <3>1. s \in Seq(Units(Requests)) /\ Len(s) = Len(in) + Len(rest)
      BY Zenon, <2>1, <2>2, SeqConcat
    <3>2. \A i \in 1..Len(in) : s[i] = in[i]
      BY <2>1, <2>2, SeqConcat
    <3> QED BY Zenon, <3>1, <3>2
  <2>9. k \in 1..Len(s) /\ s[k] = in[k] /\ 1 \in DOMAIN s /\ s[1] = in[1]
    <3>1. DOMAIN s = 1..Len(s) /\ 1..Len(in) \subseteq 1..Len(s)
      BY <2>2, <2>8
    <3> QED BY Zenon, <2>4, <2>8, <3>1
  <2>10. Aligned(t) /\ (Complete(s) => Complete(t))
    BY Zenon, <2>3, <2>5, <2>7, <2>8, <2>9, <1>AlignedDrop
  <2>11. ToServer' = t /\ ToServer = s
    BY Zenon, <2>1, <2>5, <2>6 DEF ToServer
  <2>12. server_in' \in Seq(Units(Requests)) /\ Head(server_in) = s[1]
    BY Zenon, <2>1, <2>4, <2>9
  <2>13. k \in Nat /\ k >= 1
    OBVIOUS
  <2> QED BY Zenon, <2>4, <2>7, <2>9, <2>10, <2>11, <2>12, <2>13
<1> QED BY Zenon, <1>ClientFrame, <1>ServerFrame

\* The RESPONSE branch, with the frame taken off the input.
LEMMA ResponseStep ==
   /\ IInv
   /\ Missing(client_in) = 0
   /\ Acceptable(client_in)
   /\ OnResponse(Head(client_in).of)
   /\ client_in' = Refresh(client_in)
   /\ pc' \in [Calls -> Places]
   /\ \A c \in Calls : pc'[c] = "idle" <=> pc[c] = "idle"
   /\ \A c \in Calls : pc'[c] = "registered" => pc[c] = "registered"
   /\ UNCHANGED <<id_, request, client_state, server_state, server_in,
                  closures, executions, up, down, socket_error>>
  => /\ IInv'
     /\ result' = result \/ \E c \in Calls : EndsCall(c)
\* The frame at the front of the client's input is the answer to the call
\* that its id finds.
<1>ResponseEnds.
    ASSUME IInv, NEW m, Justified(m), OnResponse(m)
    PROVE  \/ UNCHANGED <<outstanding_calls_, result>>
           \/ \E c \in Calls :
                /\ EndsCall(c) /\ request[c].id \in DOMAIN outstanding_calls_
                /\ outstanding_calls_' = Remove(outstanding_calls_, request[c].id)
                /\ result'[c] = "empty" => request[c].error # "NO_ERROR"
  <2> USE <1>ResponseEnds
  <2>a. TypeOK /\ Requested /\ Waiting /\ Executed
    BY Zenon DEF IInv
  <2> SUFFICES ASSUME m.id \in DOMAIN outstanding_calls_
               PROVE  \E c \in Calls :
                        /\ EndsCall(c) /\ request[c].id \in DOMAIN outstanding_calls_
                        /\ outstanding_calls_'
                             = Remove(outstanding_calls_, request[c].id)
                        /\ result'[c] = "empty" => request[c].error # "NO_ERROR"
    BY Zenon DEF OnResponse
  <2>1. PICK c : c = outstanding_calls_[m.id]
    BY Zenon
  <2>2. c \in Invoked /\ request[c].id = m.id /\ result[c] = "none"
    BY Zenon, <2>1, <2>a DEF Waiting
  <2>3. /\ m.call \in Invoked /\ m.id = request[m.call].id
        /\ m.error = request[m.call].error
        /\ m.error = "NO_ERROR" => executions[m.call] = 1
    BY Zenon DEF Justified
  <2>4. m.call = c
    BY <2>2, <2>3, <2>a DEF Requested
  <2>5. /\ outstanding_calls_' = Remove(outstanding_calls_, m.id)
        /\ result' = [result EXCEPT ![c] =
                        IF m.error # "NO_ERROR" THEN "empty" ELSE "replied"]
    BY Zenon, <2>1, <2>4 DEF OnResponse
  <2>6. /\ c \in Calls /\ executions[c] \in {0, 1}
        /\ result \in [Calls -> {"none", "replied", "empty", "dropped"}]
    BY Zenon, <2>2, <2>a DEF Invoked, TypeOK
  <2>7. CASE m.error = "NO_ERROR"
    <3>1. executions[c] = 1 /\ result' = [result EXCEPT ![c] = "replied"]
      BY Zenon, <2>3, <2>4, <2>5, <2>7
    <3>2. result'[c] = "replied"
      BY Zenon, <3>1, <2>6
    <3> QED BY Zenon, <2>2, <2>5, <2>6, <3>1, <3>2 DEF EndsCall
  <2>8. CASE m.error # "NO_ERROR"
    <3>1. request[c].error # "NO_ERROR" /\ result' = [result EXCEPT ![c] = "empty"]
      BY Zenon, <2>3, <2>4, <2>5, <2>8
    <3>2. executions[c] = 0
      BY Zenon, <3>1, <2>6, <2>a DEF Executed
    <3> QED BY Zenon, <2>2, <2>5, <2>6, <3>1, <3>2 DEF EndsCall
  <2> QED BY Zenon, <2>7, <2>8
<1> SUFFICES ASSUME IInv, Missing(client_in) = 0, Acceptable(client_in),
                    OnResponse(Head(client_in).of), client_in' = Refresh(client_in),
                    pc' \in [Calls -> Places],
                    \A c \in Calls : pc'[c] = "idle" <=> pc[c] = "idle",
                    \A c \in Calls : pc'[c] = "registered" => pc[c] = "registered",
                    UNCHANGED <<id_, request, client_state, server_state, server_in,
                                closures, executions, up, down, socket_error>>
             PROVE  /\ IInv'
                    /\ result' = result \/ \E c \in Calls : EndsCall(c)
  BY Zenon
<1>a. /\ TypeOK /\ Requested /\ Waiting /\ Executed /\ Whole
      /\ Asked(ToServer) /\ Answered(ToClient) /\ Aligned(ToServer)
  BY Zenon DEF IInv, Framed, ToServer
<1>b. Invoked' = Invoked
  BY Zenon, SameInvoked
<1>c. /\ Justified(Head(client_in).of)
      /\ client_in' \in Seq(Units(Responses))
      /\ ToClient' \in Seq(Units(Responses)) /\ Aligned(ToClient')
      /\ Complete(ToClient) => Complete(ToClient')
      /\ \E k \in Nat : Segment(ToClient', ToClient, k)
  BY Zenon, FrameRead
<1>d. ToServer' = ToServer
  BY Zenon DEF ToServer
<1>e. \/ UNCHANGED <<outstanding_calls_, result>>
      \/ \E c \in Calls :
              /\ EndsCall(c) /\ request[c].id \in DOMAIN outstanding_calls_
              /\ outstanding_calls_' = Remove(outstanding_calls_, request[c].id)
              /\ result'[c] = "empty" => request[c].error # "NO_ERROR"
  <2>1. PICK m : m = Head(client_in).of
    BY Zenon
  <2> QED BY Zenon, <2>1, <1>c, <1>ResponseEnds
<1>1. Requested'
  BY Zenon, <1>a, <1>b, SameRequested
<1>2. /\ Waiting'
      /\ outstanding_calls_' \in [DOMAIN outstanding_calls_' -> Calls]
      /\ result' \in [Calls -> {"none", "replied", "empty", "dropped"}]
      /\ \A d \in Calls :
           /\ result'[d] # "none" => d \in Invoked
           /\ result'[d] = "replied" => executions[d] = 1
           /\ result'[d] = "empty" => request[d].error # "NO_ERROR"
  <2>1. CASE UNCHANGED <<outstanding_calls_, result>>
    BY Zenon, <2>1, <1>a, <1>b DEF Waiting, TypeOK, Executed
  <2>2. ASSUME NEW c \in Calls, EndsCall(c),
               request[c].id \in DOMAIN outstanding_calls_,
               outstanding_calls_' = Remove(outstanding_calls_, request[c].id),
               result'[c] = "empty" => request[c].error # "NO_ERROR"
        PROVE  /\ Waiting'
               /\ outstanding_calls_' \in [DOMAIN outstanding_calls_' -> Calls]
               /\ result' \in [Calls -> {"none", "replied", "empty", "dropped"}]
               /\ \A d \in Calls :
                    /\ result'[d] # "none" => d \in Invoked
                    /\ result'[d] = "replied" => executions[d] = 1
                    /\ result'[d] = "empty" => request[d].error # "NO_ERROR"
    <3>1. PICK i : i = request[c].id
      BY Zenon
    <3>2. /\ DOMAIN outstanding_calls_' = DOMAIN outstanding_calls_ \ {i}
          /\ \A j \in DOMAIN outstanding_calls_ \ {i} :
               outstanding_calls_'[j] = outstanding_calls_[j]
          /\ outstanding_calls_' \in [DOMAIN outstanding_calls_' -> Calls]
      BY Zenon, <2>2, <3>1, <1>a DEF Remove, Restrict, TypeOK
    <3>3. /\ result' \in [Calls -> {"none", "replied", "empty", "dropped"}]
          /\ result'[c] \in {"replied", "empty"}
          /\ result'[c] = "replied" => executions[c] = 1
          /\ \A d \in Calls \ {c} : result'[d] = result[d]
          /\ c \in Invoked
      BY Zenon, <2>2, <1>a DEF EndsCall, TypeOK
    <3>4. ASSUME NEW j \in DOMAIN outstanding_calls_'
          PROVE  /\ outstanding_calls_'[j] \in Invoked'
                 /\ request'[outstanding_calls_'[j]].id = j
                 /\ result'[outstanding_calls_'[j]] = "none"
      <4>1. PICK d : d = outstanding_calls_[j]
        BY Zenon
      <4>2. /\ j \in DOMAIN outstanding_calls_ /\ j # i
            /\ outstanding_calls_'[j] = d
        BY Zenon, <3>2, <4>1
      <4>3. d \in Invoked /\ request[d].id = j /\ result[d] = "none"
        <5>1. /\ outstanding_calls_[j] \in Invoked
              /\ request[outstanding_calls_[j]].id = j
              /\ result[outstanding_calls_[j]] = "none"
          BY Zenon, <4>2, <1>a DEF Waiting
        <5> QED BY Zenon, <4>1, <5>1
      <4>4. d \in Calls /\ d # c
        BY Zenon, <4>2, <4>3, <3>1 DEF Invoked
      <4> QED BY Zenon, <4>2, <4>3, <4>4, <3>3, <1>b
    <3>5. ASSUME client_state # "destroyed", NEW d \in Invoked,
                 result'[d] = "none"
          PROVE  request[d].id \in DOMAIN outstanding_calls_'
      <4>1. d \in Calls /\ d # c
        BY Zenon, <3>5, <3>3 DEF Invoked
      <4>2. result[d] = "none"
        BY Zenon, <4>1, <3>3, <3>5
      <4>3. request[d].id \in DOMAIN outstanding_calls_
        BY Zenon, <4>2, <3>5, <1>a DEF Waiting
      <4>4. request[d].id # i
        BY Zenon, <4>1, <3>1, <3>3, <1>a DEF Requested
      <4> QED BY Zenon, <4>3, <4>4, <3>2
    <3>6. Waiting'
      BY Zenon, <3>4, <3>5, <1>b DEF Waiting
    <3>7. \A d \in Calls :
           /\ result'[d] # "none" => d \in Invoked
           /\ result'[d] = "replied" => executions[d] = 1
           /\ result'[d] = "empty" => request[d].error # "NO_ERROR"
      BY Zenon, <3>3, <2>2, <1>a DEF Executed
    <3> QED BY Zenon, <3>2, <3>3, <3>6, <3>7
  <2> QED BY Zenon, <1>e, <2>1, <2>2
<1>3. TypeOK'
  BY Zenon, <1>a, <1>c, <1>2 DEF TypeOK, Requests, Responses, Units
<1>4. Executed'
  <2>1. ASSUME NEW k \in closures' PROVE k \in Requests /\ Justified(k)'
    BY Zenon, <2>1, <1>a, <1>b DEF Executed, Justified
  <2>2. \A d \in Calls :
          executions'[d] = 1 => /\ d \in Invoked' /\ pc'[d] # "registered"
                                /\ request'[d].error = "NO_ERROR"
    BY Zenon, <1>a, <1>b DEF Executed
  <2> QED BY Zenon, <2>1, <2>2, <1>b, <1>2 DEF Executed
<1>5. Whole'
  BY Zenon, <1>a, <1>c, <1>d DEF Whole, Complete
<1>6. Asked(ToServer)'
  <2>1. PICK s : s = ToServer
    BY Zenon
  <2>2. s \in Seq(Units(Requests)) /\ Asked(s) /\ Segment(s, s, 0)
    BY Zenon, <2>1, <1>a, StreamTypes, SameSegment
  <2>3. Asked(s)'
    BY Zenon, <2>2, AskedSegment
  <2> QED BY Zenon, <2>1, <2>3, <1>d DEF Asked
<1>7. Answered(ToClient)'
  <2>1. PICK s, t, k : /\ s = ToClient /\ t = ToClient' /\ Segment(t, s, k)
    BY Zenon, <1>c
  <2>2. s \in Seq(Units(Responses)) /\ t \in Seq(Units(Responses)) /\ Answered(s)
    BY Zenon, <2>1, <1>a, <1>c, StreamTypes
  <2>3. Answered(t)'
    BY Zenon, <2>1, <2>2, <1>b, AnsweredSegment
  <2> QED BY Zenon, <2>1, <2>3 DEF Answered
<1>8. Framed'
  BY Zenon, <1>a, <1>c, <1>d DEF Framed, ToServer, ToClient
<1>9. result' = result \/ \E c \in Calls : EndsCall(c)
  BY Zenon, <1>e
<1> QED BY Zenon, <1>1, <1>2, <1>3, <1>4, <1>5, <1>6, <1>7, <1>8, <1>9 DEF IInv

\* A response that ends a call is a step of RpcCall.
LEMMA EndKept ==
  ASSUME IInv, IInv', executions' = executions,
         \A c \in Calls : pc'[c] = "idle" <=> pc[c] = "idle",
         result' = result \/ \E c \in Calls : EndsCall(c)
  PROVE  Kept
<1>1. CASE result' = result
  <2>1. UNCHANGED <<Status, executions>>
    BY Zenon, <1>1 DEF Status
  <2> QED BY Zenon, <2>1 DEF Kept
<1>2. ASSUME NEW c \in Calls, EndsCall(c) PROVE Kept
  <2>1. /\ result \in [Calls -> {"none", "replied", "empty", "dropped"}]
        /\ result[c] = "none" /\ pc[c] # "idle"
    BY Zenon, <1>2 DEF EndsCall, Invoked, IInv, TypeOK
  <2>2. Status[c] = "pending"
    BY Zenon, <2>1 DEF Status
  <2>3. CASE executions[c] = 1 /\ result' = [result EXCEPT ![c] = "replied"]
    <3>1. Status' = [Status EXCEPT ![c] = "replied"]
      BY Zenon, <2>1, <2>3 DEF Status
    <3>2. Call!Reply(c)
      BY Zenon, <2>2, <2>3, <3>1 DEF Call!Reply, Call!Ends, Status
    <3> QED BY Zenon, <3>2 DEF Kept, Call!Step
  <2>4. CASE executions[c] = 0 /\ result' = [result EXCEPT ![c] = "empty"]
    <3>1. Status' = [Status EXCEPT ![c] = "empty"]
      BY Zenon, <2>1, <2>4 DEF Status
    <3>2. Call!Refuse(c)
      BY Zenon, <2>2, <2>4, <3>1 DEF Call!Refuse, Call!Ends, Status
    <3> QED BY Zenon, <3>2 DEF Kept, Call!Step
  <2> QED BY Zenon, <1>2, <2>3, <2>4 DEF EndsCall
<1> QED BY Zenon, <1>1, <1>2

\* The rest of RpcSyncChannel::CallMethod.
LEMMA SyncKept ==
  ASSUME IInv, NEW c \in Calls, SyncCheck(c) \/ SyncRead(c) \/ SyncFrame(c)
  PROVE  Kept
<1>a. pc \in [Calls -> Places]
  BY Zenon DEF IInv, TypeOK
<1>1. CASE SyncCheck(c)
  <2>1. PICK q : q = pc'
    BY Zenon
  <2>2. /\ q \in [Calls -> Places]
        /\ \A d \in Calls : q[d] = "idle" <=> pc[d] = "idle"
        /\ \A d \in Calls : q[d] = "registered" => pc[d] = "registered"
    BY Zenon, <1>1, <1>a, <2>1 DEF SyncCheck, Places
  <2>3. Quiet
    BY Zenon, <1>1, <2>1, <2>2, StreamsAlone
       DEF SyncCheck, clientVars, serverVars, ReadError
  <2> QED BY Zenon, <2>3, QuietKept
<1>2. CASE SyncRead(c)
  <2>1. PICK n \in 1..Len(down) :
             /\ client_in' = client_in \o SubSeq(down, 1, n)
             /\ down' = SubSeq(down, n + 1, Len(down))
    <3>1. PICK n \in 1..Missing(client_in) :
             /\ n <= Len(down)
             /\ client_in' = client_in \o SubSeq(down, 1, n)
             /\ down' = SubSeq(down, n + 1, Len(down))
      BY Zenon, <1>2 DEF SyncRead
    <3>2. Len(down) \in Nat
      BY Zenon, SeqLen DEF IInv, TypeOK
    <3>3. n \in 1..Len(down)
      BY <3>1, <3>2
    <3> QED BY Zenon, <3>1, <3>3
  <2>2. Quiet
    BY Zenon, <1>2, <2>1, ReadsQuiet DEF SyncRead
  <2> QED BY Zenon, <2>2, QuietKept
<1>3. CASE SyncFrame(c)
  <2>1. /\ pc' \in [Calls -> Places]
        /\ \A d \in Calls : pc'[d] = "idle" <=> pc[d] = "idle"
        /\ \A d \in Calls : pc'[d] = "registered" => pc[d] = "registered"
    BY Zenon, <1>3, <1>a DEF SyncFrame, Places
  <2>2. UNCHANGED <<id_, request, client_state, server_state, server_in,
                    closures, executions, up, down>>
    BY Zenon, <1>3 DEF SyncFrame, serverVars
  <2>3. CASE Acceptable(client_in)
    <3>1. /\ Missing(client_in) = 0 /\ OnResponse(Head(client_in).of)
          /\ client_in' = Refresh(client_in) /\ socket_error' = socket_error
      BY Zenon, <1>3, <2>3 DEF SyncFrame, OnSyncResponse
    <3>2. IInv' /\ (result' = result \/ \E d \in Calls : EndsCall(d))
      BY Zenon, <2>1, <2>2, <2>3, <3>1, ResponseStep
    <3> QED BY Zenon, <2>1, <2>2, <3>2, EndKept
  <2>4. CASE ~ Acceptable(client_in)
    <3>1. /\ UNCHANGED <<outstanding_calls_, result, client_in>>
          /\ socket_error' = "none" => socket_error = "none"
      BY Zenon, <1>3, <2>4 DEF SyncFrame, SyncDefaultErrorCallback, ReadError
    <3>2. PICK q : q = pc'
      BY Zenon
    <3>3. Quiet
      BY Zenon, <2>1, <2>2, <3>1, <3>2, StreamsAlone
    <3> QED BY Zenon, <3>3, QuietKept
  <2> QED BY Zenon, <2>3, <2>4
<1> QED BY Zenon, <1>1, <1>2, <1>3

-----------------------------------------------------------------------------
\* Requests.

\* An answer is sent after the last frame, or given up.
LEMMA ReplySent ==
  ASSUME IInv, NEW r \in Responses, Justified(r),
         down' = SendOn(server_state, down, r),
         UNCHANGED <<pc, request, executions, client_in, server_state,
                     socket_error>>
  PROVE  /\ down' \in Seq(Units(Responses)) /\ Aligned(ToClient')
         /\ Answered(ToClient)'
         /\ server_state' = "kConnected" /\ socket_error' = "none"
              => Complete(ToClient')
<1>a. TypeOK /\ Whole /\ Answered(ToClient) /\ Aligned(ToClient)
  BY Zenon DEF IInv, Framed, ToClient
<1>b. client_in \in Seq(Units(Responses)) /\ down \in Seq(Units(Responses))
  BY Zenon, <1>a DEF TypeOK
<1>c. Invoked' = Invoked
  BY Zenon DEF Invoked
<1>1. CASE ~ (server_state = "kConnected" /\ socket_error = "none")
  <2>1. down' = down /\ ToClient' = ToClient
    BY Zenon, <1>1 DEF SendOn, ToClient
  <2> QED BY Zenon, <2>1, <1>1, <1>a, <1>b, <1>c DEF Answered, Justified
<1>2. CASE server_state = "kConnected" /\ socket_error = "none"
  <2>1. PICK a, b, f, s, t : /\ a = client_in /\ b = down /\ s = a \o b
                             /\ f = FillEmptyBuffer(r) /\ t = s \o f
    BY Zenon
  <2>2. r.size \in Nat
    BY Zenon, ResponseSize
  <2>3. /\ f \in Seq(Units(Responses)) /\ Len(f) = 1 + MessageLength(r)
        /\ \A i \in 1..(1 + MessageLength(r)) : f[i] = [of |-> r, at |-> i]
    BY Zenon, <2>1, <2>2, FrameType
  <2>4. a \in Seq(Units(Responses)) /\ b \in Seq(Units(Responses))
    BY Zenon, <2>1, <1>b
  <2>5. down' = b \o f /\ down' \in Seq(Units(Responses))
    BY Zenon, <2>1, <2>3, <2>4, <1>2, SeqConcat DEF SendOn
  <2>6. ToClient' = t /\ ToClient = s
    <3>1. f \in Seq(Units(Responses))
      BY Zenon, <2>3
    <3>2. a \o (b \o f) = (a \o b) \o f
      BY <3>1, <2>4
    <3> QED BY Zenon, <3>2, <2>1, <2>5 DEF ToClient
  <2>7. s \in Seq(Units(Responses)) /\ Aligned(s) /\ Complete(s) /\ Answered(s)
    BY Zenon, <2>1, <2>4, <2>6, <1>2, <1>a, SeqConcat DEF Whole
  <2>8. Aligned(t) /\ Complete(t)
    BY Zenon, <2>1, <2>2, <2>7, AlignedAppend
  <2>9. /\ DOMAIN t = 1..(Len(s) + Len(f)) /\ Len(s) \in Nat /\ Len(f) \in Nat
        /\ \A i \in 1..(Len(s) + Len(f)) :
             t[i] = IF i <= Len(s) THEN s[i] ELSE f[i - Len(s)]
    <3>1. /\ s \in Seq(Units(Responses)) /\ f \in Seq(Units(Responses))
          /\ t = s \o f
      BY Zenon, <2>1, <2>3, <2>7
    <3>2. Len(s) \in Nat /\ Len(f) \in Nat
      BY Zenon, <3>1, SeqLen
    <3>3. /\ t \in Seq(Units(Responses)) /\ Len(t) = Len(s) + Len(f)
          /\ \A i \in 1..(Len(s) + Len(f)) :
               t[i] = IF i <= Len(s) THEN s[i] ELSE f[i - Len(s)]
      BY Zenon, <3>1, SeqConcat
    <3>4. DOMAIN t = 1..Len(t)
      BY Zenon, <3>3, SeqLen
    <3> QED BY Zenon, <3>2, <3>3, <3>4
  <2>10. ASSUME NEW i \in DOMAIN t PROVE Justified(t[i].of)'
    <3>1. CASE i <= Len(s)
      <4>1. t[i] = s[i] /\ i \in DOMAIN s
        BY <3>1, <2>7, <2>9
      <4> QED BY Zenon, <4>1, <2>7, <1>c DEF Answered, Justified
    <3>2. CASE i > Len(s)
      <4>1. /\ i \in 1..(Len(s) + Len(f)) /\ ~ (i <= Len(s))
            /\ i - Len(s) \in 1..Len(f)
        BY <3>2, <2>9
      <4>2. t[i] = f[i - Len(s)]
        BY Zenon, <4>1, <2>9
      <4>3. f[i - Len(s)] = [of |-> r, at |-> i - Len(s)]
        BY Zenon, <4>1, <2>3
      <4>4. t[i].of = r
        BY <4>2, <4>3
      <4> QED BY Zenon, <4>4, <1>c DEF Justified
    <3>3. i \in Nat /\ Len(s) \in Nat
      BY <2>9
    <3> QED BY <3>1, <3>2, <3>3
  <2>11. Answered(ToClient)'
    BY Zenon, <2>6, <2>10 DEF Answered
  <2> QED BY Zenon, <2>5, <2>6, <2>8, <2>11
<1> QED BY Zenon, <1>1, <1>2

\* The event loops.
LEMMA LoopsKept ==
  IInv /\ Loops /\ ~ Compacted' =>
    Kept
\* How many bytes OnMessage waits for is a number.
<1>MissingType.
    ASSUME NEW M, \A m \in M : m.size \in Nat, NEW in \in Seq(Units(M)),
           ~ (Missing(in) > 0)
    PROVE  Missing(in) = 0
  <2> USE <1>MissingType
  <2>1. Len(in) \in Nat /\ kHeaderLength + kMinMessageLength = 3
    BY SeqLen DEF kHeaderLength, kMinMessageLength, kTagLength,
                         kChecksumLength
  <2>2. ASSUME Len(in) < 3 PROVE FALSE
    <3>1. Missing(in) = 3 - Len(in)
      BY <2>1, <2>2 DEF Missing, kHeaderLength, kMinMessageLength, kTagLength,
                        kChecksumLength
    <3> QED BY <3>1, <2>1, <2>2
  <2>3. 1 \in 1..Len(in) /\ in # << >>
    BY <2>1, <2>2
  <2>4. in[1] \in Units(M) /\ Head(in) = in[1]
    BY <2>3, SeqElement, SeqHeadTail
  <2>5. PICK m \in M : m = Head(in).of
    BY Zenon, <2>4 DEF Units
  <2>6. MessageLength(m) \in Nat
    BY Zenon, Lengths
  <2>7. PICK len \in Nat : len = GetReadableInt32(in)
    BY <2>5, <2>6, LengthAssumption DEF GetReadableInt32
  <2>8. Missing(in) = IF InvalidLength(len) THEN 0
                      ELSE IF Len(in) < 1 + len THEN (1 + len) - Len(in) ELSE 0
    BY <2>1, <2>2, <2>7 DEF Missing, kHeaderLength
  <2> QED BY <2>1, <2>7, <2>8
\* OnMessage's turn on the server, with a frame that it accepts: the service
\* gets the request, for the first time, or an error goes back.
<1>RequestStep.
    ASSUME IInv, Missing(server_in) = 0, Acceptable(server_in),
           OnRequest(Head(server_in).of), server_in' = Refresh(server_in),
           UNCHANGED <<callVars, clientVars, server_state, up, socket_error>>
    PROVE  /\ IInv'
           /\ \/ executions' = executions
              \/ \E c \in Invoked :
                   /\ executions[c] = 0 /\ request[c].error = "NO_ERROR"
                   /\ executions' = [executions EXCEPT ![c] = 1]
  <2> USE <1>RequestStep
  <2>a. /\ TypeOK /\ Requested /\ Waiting /\ Executed /\ Whole
        /\ Asked(ToServer) /\ Answered(ToClient) /\ Aligned(ToClient)
    BY Zenon DEF IInv, Framed, ToClient
  <2>b. UNCHANGED <<id_, outstanding_calls_, pc, request, result, client_state,
                    client_in>> /\ Invoked' = Invoked
    BY Zenon DEF callVars, clientVars, Invoked
  <2>c. /\ server_in' \in Seq(Units(Requests))
        /\ ToServer' \in Seq(Units(Requests)) /\ Aligned(ToServer')
        /\ Complete(ToServer) => Complete(ToServer')
        /\ \E k \in Nat : k >= 1 /\ Segment(ToServer', ToServer, k)
        /\ 1 \in DOMAIN ToServer /\ ToServer[1].at = 1
        /\ Head(server_in).of = ToServer[1].of
    BY Zenon, FrameRead
  <2>d. PICK s, t, k : /\ s = ToServer /\ t = ToServer' /\ k \in Nat /\ k >= 1
                       /\ Segment(t, s, k)
    BY Zenon, <2>c
  <2>e. PICK m, c : m = s[1].of /\ c = m.call
    BY Zenon
  <2>f. /\ s \in Seq(Units(Requests)) /\ t \in Seq(Units(Requests)) /\ Asked(s)
        /\ 1 \in DOMAIN s /\ s[1].at = 1
    BY Zenon, <2>a, <2>c, <2>d, StreamTypes
  <2>g. /\ c \in Invoked /\ c \in Calls /\ pc[c] # "registered"
        /\ m = request[c] /\ executions[c] = 0 /\ m \in Requests
    <3>1. c \in Invoked /\ pc[c] # "registered" /\ m = request[c] /\ executions[c] = 0
      BY Zenon, <2>e, <2>f DEF Asked
    <3> QED BY Zenon, <3>1, <2>a DEF Requested, Invoked
  <2>h. OnRequest(m)
    BY Zenon, <2>c, <2>d, <2>e
  <2>i. ASSUME NEW i \in DOMAIN t, t[i].at = 1 PROVE t[i].of.call # c
    <3>1. /\ DOMAIN t = 1..Len(t) /\ DOMAIN s = 1..Len(s)
          /\ Len(t) \in Nat /\ Len(s) \in Nat
      BY Zenon, <2>f, SeqLen
    <3>2. i + k \in DOMAIN s /\ t[i] = s[i + k] /\ i + k # 1
      BY <3>1, <2>d DEF Segment
    <3> QED BY Zenon, <3>2, <2>e, <2>f, <2>i DEF Asked
  <2>1. Requested' /\ Waiting'
    BY Zenon, <2>a, <2>b, SameRequested DEF Waiting
  <2>2. CASE m.error = "NO_ERROR"
    <3>1. /\ executions' = [executions EXCEPT ![c] = 1] /\ down' = down
          /\ closures' = closures \cup {m}
      <4>1. executions' = [executions EXCEPT ![c] = executions[c] + 1]
        BY Zenon, <2>2, <2>e, <2>h DEF OnRequest
      <4>2. down' = down /\ closures' = closures \cup {m}
        BY Zenon, <2>2, <2>h DEF OnRequest
      <4>3. executions[c] + 1 = 1
        BY <2>g
      <4> QED BY Zenon, <4>1, <4>2, <4>3
    <3>2. /\ executions' \in [Calls -> {0, 1}] /\ executions'[c] = 1
          /\ \A d \in Calls \ {c} : executions'[d] = executions[d]
      BY Zenon, <3>1, <2>a, <2>g DEF TypeOK
    <3>3. TypeOK'
      BY Zenon, <3>1, <3>2, <2>a, <2>b, <2>c
         DEF TypeOK, Requests, Responses, Units
    <3>4. \A d \in Calls : executions[d] = 1 => executions'[d] = 1
      BY Zenon, <3>2
    <3>5. ASSUME NEW q, Justified(q) PROVE Justified(q)'
      BY Zenon, <3>5, <3>4, <2>b DEF Justified, Invoked
    <3>6. Executed'
      <4>1. ASSUME NEW q \in closures' PROVE q \in Requests /\ Justified(q)'
        <5>1. CASE q = m
          <6>1. m.call = c /\ m.id = request'[c].id /\ m.error = request'[c].error
            BY Zenon, <2>b, <2>e, <2>g
          <6> QED BY Zenon, <5>1, <6>1, <3>2, <2>b, <2>g DEF Justified
        <5>2. CASE q # m
          BY Zenon, <5>2, <3>1, <3>5, <2>a DEF Executed
        <5> QED BY Zenon, <5>1, <5>2
      <4>2. ASSUME NEW d \in Calls
            PROVE  /\ executions'[d] = 1 =>
                        /\ d \in Invoked' /\ pc'[d] # "registered"
                        /\ request'[d].error = "NO_ERROR"
                   /\ result'[d] # "none" => d \in Invoked'
                   /\ result'[d] = "replied" => executions'[d] = 1
                   /\ result'[d] = "empty" => request'[d].error # "NO_ERROR"
        <5>1. CASE d = c
          BY Zenon, <5>1, <3>2, <2>2, <2>a, <2>b, <2>g DEF Executed
        <5>2. CASE d # c
          BY Zenon, <5>2, <3>2, <2>a, <2>b DEF Executed
        <5> QED BY Zenon, <5>1, <5>2
      <4> QED BY Zenon, <4>1, <4>2 DEF Executed, Requests
    <3>7. ToClient' = ToClient
      BY Zenon, <3>1, <2>b DEF ToClient
    <3>8. Whole'
      BY Zenon, <3>7, <2>a, <2>b, <2>c DEF Whole, Complete
    <3>9. Asked(ToServer)'
      <4>1. ASSUME NEW i \in DOMAIN t PROVE t[i].of.call \in Calls
        <5>1. t[i] \in Units(Requests)
          BY Zenon, <2>f, SeqElement, SeqLen
        <5>2. t[i].of \in Requests
          BY Zenon, <5>1 DEF Units
        <5> QED BY Zenon, <5>2 DEF Requests
      <4>2. \A i \in DOMAIN t :
              t[i].at = 1 => executions'[t[i].of.call] = executions[t[i].of.call]
        BY Zenon, <4>1, <3>2, <2>i
      <4>3. Asked(t)'
        BY Zenon, <4>2, <2>b, <2>d, <2>f, AskedSegment
      <4> QED BY Zenon, <4>3, <2>d DEF Asked
    <3>10. Answered(ToClient)'
      <4>1. PICK u : u = ToClient
        BY Zenon
      <4>2. u \in Seq(Units(Responses)) /\ Answered(u) /\ Segment(u, u, 0)
        BY Zenon, <4>1, <2>a, StreamTypes, SameSegment
      <4>3. \A d \in Invoked : /\ request'[d] = request[d]
                               /\ executions[d] = 1 => executions'[d] = 1
        BY Zenon, <3>4, <2>b DEF Invoked
      <4>4. Answered(u)'
        BY Zenon, <4>2, <4>3, <2>b, AnsweredSegment
      <4> QED BY Zenon, <4>1, <4>4, <3>7 DEF Answered
    <3>11. Framed'
      BY Zenon, <3>7, <2>a, <2>c DEF Framed, ToServer, ToClient
    <3> QED BY Zenon, <2>1, <2>2, <2>g, <3>1, <3>3, <3>6, <3>8, <3>9, <3>10,
               <3>11 DEF IInv
  <2>3. CASE m.error # "NO_ERROR"
    <3>1. /\ down' = SendOn(server_state, down, ErrorResponse(m))
          /\ executions' = executions /\ closures' = closures
      BY Zenon, <2>3, <2>h DEF OnRequest
    <3>2. PICK r : r = ErrorResponse(m)
      BY Zenon
    <3>3. r = [type |-> "RESPONSE", id |-> m.id, call |-> c, error |-> m.error,
               size |-> 0]
      BY Zenon, <3>2, <2>e, <2>g DEF ErrorResponse, Requests
    <3>4. r \in Responses
      BY Zenon, <3>3, <2>g DEF Responses, Requests
    <3>5. r.call = c /\ r.id = m.id /\ r.error = m.error
      BY Zenon, <3>3
    <3>6. Justified(r)
      BY Zenon, <3>5, <2>3, <2>g DEF Justified
    <3>7. /\ down' \in Seq(Units(Responses)) /\ Aligned(ToClient')
          /\ Answered(ToClient)'
          /\ server_state' = "kConnected" /\ socket_error' = "none"
                => Complete(ToClient')
      BY Zenon, <3>1, <3>2, <3>4, <3>6, <2>b, ReplySent
    <3>8. TypeOK'
      BY Zenon, <3>1, <3>7, <2>a, <2>b, <2>c
         DEF TypeOK, Requests, Responses, Units
    <3>9. Executed'
      <4>1. ASSUME NEW q \in closures' PROVE q \in Requests /\ Justified(q)'
        BY Zenon, <4>1, <3>1, <2>a, <2>b DEF Executed, Justified
      <4>2. \A d \in Calls :
              /\ executions'[d] = 1 =>
                   /\ d \in Invoked' /\ pc'[d] # "registered"
                   /\ request'[d].error = "NO_ERROR"
              /\ result'[d] # "none" => d \in Invoked'
              /\ result'[d] = "replied" => executions'[d] = 1
              /\ result'[d] = "empty" => request'[d].error # "NO_ERROR"
        BY Zenon, <3>1, <2>a, <2>b DEF Executed
      <4> QED BY Zenon, <4>1, <4>2 DEF Executed, Requests
    <3>10. Whole'
      BY Zenon, <3>7, <2>a, <2>b, <2>c DEF Whole, Complete
    <3>11. Asked(ToServer)'
      <4>1. Asked(t)'
        BY Zenon, <3>1, <2>b, <2>d, <2>f, AskedSegment
      <4> QED BY Zenon, <4>1, <2>d DEF Asked
    <3>12. Framed'
      BY Zenon, <3>7, <2>c DEF Framed, ToServer, ToClient
    <3> QED BY Zenon, <2>1, <3>1, <3>7, <3>8, <3>9, <3>10, <3>11, <3>12 DEF IInv
  <2> QED BY Zenon, <2>2, <2>3
<1> SUFFICES ASSUME IInv, Loops, ~ Compacted'
             PROVE  Kept
  BY Zenon
<1>a. pc \in [Calls -> Places]
  BY Zenon DEF IInv, TypeOK
<1>b. PICK q : q = pc
  BY Zenon
<1>1. CASE ClientReceive
  <2>1. PICK n \in 1..Len(down) :
          /\ client_in' = Input(client_vec, client_in, SubSeq(down, 1, n))
          /\ client_vec' = Vector(client_vec, client_in, n)
          /\ down' = SubSeq(down, n + 1, Len(down))
    BY Zenon, <1>1 DEF ClientReceive
  <2>2. ~ Moves(client_vec, client_in, n)
    BY Zenon, <2>1 DEF Vector, Compacted
  <2>3. Len(SubSeq(down, 1, n)) = n
    BY Zenon, SeqPrefix DEF IInv, TypeOK
  <2>4. client_in' = client_in \o SubSeq(down, 1, n)
    BY Zenon, <2>1, <2>2, <2>3 DEF Input
  <2>5. Quiet
    BY Zenon, <1>1, <2>1, <2>4, ReadsQuiet DEF ClientReceive
  <2> QED BY Zenon, <2>5, QuietKept
<1>2. CASE ServerReceive
  <2>1. PICK n \in 1..Len(up) :
          /\ server_in' = Input(server_vec, server_in, SubSeq(up, 1, n))
          /\ server_vec' = Vector(server_vec, server_in, n)
          /\ up' = SubSeq(up, n + 1, Len(up))
    BY Zenon, <1>2 DEF ServerReceive
  <2>2. ~ Moves(server_vec, server_in, n)
    BY Zenon, <2>1 DEF Vector, Compacted
  <2>3. Len(SubSeq(up, 1, n)) = n
    BY Zenon, SeqPrefix DEF IInv, TypeOK
  <2>4. server_in' = server_in \o SubSeq(up, 1, n)
    BY Zenon, <2>1, <2>2, <2>3 DEF Input
  <2>5. Quiet
    BY Zenon, <1>2, <2>1, <2>4, ReadsQuiet DEF ServerReceive
  <2> QED BY Zenon, <2>5, QuietKept
<1>3. CASE ClientOnMessage
  <2>1. /\ UNCHANGED <<kind, id_, pc, request, server_state, server_in, closures,
                       executions, down, socket_error>>
        /\ UNCHANGED <<kind, serverVars>>
    BY Zenon, <1>3 DEF ClientOnMessage, serverVars
  <2>2. CASE Missing(client_in) > 0
    <3>1. UNCHANGED <<outstanding_calls_, result, client_state, client_in, up>>
      BY Zenon, <1>3, <2>2 DEF ClientOnMessage
    <3>2. Quiet
      BY Zenon, <2>1, <3>1, <1>a, <1>b, StreamsAlone
    <3> QED BY Zenon, <3>2, QuietKept
  <2>3. CASE ~ (Missing(client_in) > 0) /\ Acceptable(client_in)
    <3>1. /\ OnResponse(Head(client_in).of) /\ client_in' = Refresh(client_in)
          /\ UNCHANGED <<client_state, up>>
      BY Zenon, <1>3, <2>3 DEF ClientOnMessage
    <3>2. Missing(client_in) = 0
      BY Zenon, <2>3, <1>MissingType, ResponseSize DEF IInv, TypeOK
    <3>3. IInv' /\ (result' = result \/ \E d \in Calls : EndsCall(d))
      BY Zenon, <1>a, <2>1, <2>3, <3>1, <3>2, ResponseStep
    <3> QED BY Zenon, <2>1, <3>3, EndKept
  <2>4. CASE ~ (Missing(client_in) > 0) /\ ~ Acceptable(client_in)
    <3>1. /\ client_state' = ShutDownState(client_state)
          /\ up' \in ShutDownStream(client_state, up)
          /\ UNCHANGED <<outstanding_calls_, result, client_in>>
      BY Zenon, <1>3, <2>4 DEF ClientOnMessage
    <3>2. CASE client_state = "kConnected"
      <4>1. PICK n \in 0..Len(up) : up' = SubSeq(up, 1, n)
        BY Zenon, <3>1, <3>2 DEF ShutDownStream, Truncated
      <4>2. client_state' # "kConnected"
        BY Zenon, <3>1, <3>2 DEF ShutDownState
      <4>3. Quiet
        BY Zenon, <4>1, <4>2, <2>1, <3>1, <3>2, CutsQuiet DEF callVars
      <4> QED BY Zenon, <4>3, QuietKept
    <3>3. CASE client_state # "kConnected"
      <4>1. up' = up /\ client_state' = client_state
        BY Zenon, <3>1, <3>3 DEF ShutDownStream, ShutDownState
      <4>2. Quiet
        BY Zenon, <4>1, <2>1, <3>1, <1>a, <1>b, StreamsAlone
      <4> QED BY Zenon, <4>2, QuietKept
    <3> QED BY Zenon, <3>2, <3>3
  <2> QED BY Zenon, <2>2, <2>3, <2>4
<1>4. CASE ServerOnMessage
  <2>1. /\ UNCHANGED <<callVars, clientVars, up, socket_error>>
        /\ UNCHANGED <<id_, outstanding_calls_, pc, request, result,
                       client_state, client_in>>
    BY Zenon, <1>4 DEF ServerOnMessage, callVars, clientVars
  <2>2. CASE Missing(server_in) > 0
    <3>1. UNCHANGED <<server_state, server_in, closures, executions, down>>
      BY Zenon, <1>4, <2>2 DEF ServerOnMessage
    <3>2. Quiet
      BY Zenon, <2>1, <3>1, <1>a, <1>b, StreamsAlone
    <3> QED BY Zenon, <3>2, QuietKept
  <2>3. CASE ~ (Missing(server_in) > 0) /\ Acceptable(server_in)
    <3>1. /\ OnRequest(Head(server_in).of) /\ server_in' = Refresh(server_in)
          /\ server_state' = server_state
      BY Zenon, <1>4, <2>3 DEF ServerOnMessage
    <3>2. Missing(server_in) = 0
      BY Zenon, <2>3, <1>MissingType, RequestSize DEF IInv, TypeOK
    <3>3. /\ IInv'
          /\ \/ executions' = executions
             \/ \E c \in Invoked :
                  /\ executions[c] = 0 /\ request[c].error = "NO_ERROR"
                  /\ executions' = [executions EXCEPT ![c] = 1]
      BY Zenon, <2>1, <2>3, <3>1, <3>2, <1>RequestStep
    <3>4. Status' = Status
      BY Zenon, <2>1 DEF Status
    <3>5. ASSUME NEW c \in Invoked, executions[c] = 0,
                 request[c].error = "NO_ERROR",
                 executions' = [executions EXCEPT ![c] = 1]
          PROVE  Call!Step
      <4>1. /\ c \in Calls /\ pc[c] # "idle"
            /\ result[c] \in {"none", "dropped"}
        BY <3>5 DEF Invoked, IInv, TypeOK, Executed
      <4>2. Status[c] \in {"pending", "dropped"}
        BY Zenon, <4>1 DEF Status
      <4>3. Call!Execute(c)
        BY Zenon, <3>4, <3>5, <4>2 DEF Call!Execute, Status
      <4> QED BY Zenon, <4>1, <4>3 DEF Call!Step
    <3> QED BY Zenon, <3>3, <3>4, <3>5 DEF Kept
  <2>4. CASE ~ (Missing(server_in) > 0) /\ ~ Acceptable(server_in)
    <3>1. /\ server_state' = ShutDownState(server_state)
          /\ down' \in ShutDownStream(server_state, down)
          /\ UNCHANGED <<server_in, closures, executions>>
      BY Zenon, <1>4, <2>4 DEF ServerOnMessage
    <3>2. CASE server_state = "kConnected"
      <4>1. PICK n \in 0..Len(down) : down' = SubSeq(down, 1, n)
        BY Zenon, <3>1, <3>2 DEF ShutDownStream, Truncated
      <4>2. server_state' # "kConnected"
        BY Zenon, <3>1, <3>2 DEF ShutDownState
      <4>3. Quiet
        BY Zenon, <4>1, <4>2, <2>1, <3>1, CutsQuiet
      <4> QED BY Zenon, <4>3, QuietKept
    <3>3. CASE server_state # "kConnected"
      <4>1. down' = down /\ server_state' = server_state
        BY Zenon, <3>1, <3>3 DEF ShutDownStream, ShutDownState
      <4>2. Quiet
        BY Zenon, <4>1, <2>1, <3>1, <1>a, <1>b, StreamsAlone
      <4> QED BY Zenon, <4>2, QuietKept
    <3> QED BY Zenon, <3>2, <3>3
  <2> QED BY Zenon, <2>2, <2>3, <2>4
<1> QED BY Zenon, <1>1, <1>2, <1>3, <1>4 DEF Loops

-----------------------------------------------------------------------------
\* The theorems.

LEMMA InitKept == Init => IInv /\ ~ Compacted /\ Call!Init
<1> SUFFICES ASSUME Init PROVE IInv /\ ~ Compacted /\ Call!Init
  BY Zenon
<1>1. Invoked = {} /\ ToServer = << >> /\ ToClient = << >>
  BY DEF Init, Invoked, ToServer, ToClient
<1>2. TypeOK
  BY DEF Init, NewChannel, TypeOK, Places
<1>3. Requested /\ Waiting
  BY <1>1 DEF Init, NewChannel, Requested, Ages, Waiting
<1>4. Executed
  BY DEF Init, ServerAccepts, Executed
<1>5. Whole /\ Asked(ToServer) /\ Answered(ToClient)
  BY <1>1 DEF Whole, Complete, Asked, Answered
<1>6. Framed
  BY <1>1 DEF Framed, Aligned, ToServer, ToClient
<1>7. ~ Compacted
  BY Zenon DEF Init, NewVector, Compacted
<1>8. Call!Init
  BY Zenon, <1>7 DEF Init, Call!Init
<1> QED BY Zenon, <1>2, <1>3, <1>4, <1>5, <1>6, <1>7, <1>8 DEF IInv

LEMMA NextKept ==
  EnoughIds /\ IInv /\ [Next]_vars /\ ~ Compacted' =>
    Kept
\* A service runs its closure: the response of the call goes out.
<1>DoneStep.
    ASSUME IInv, NEW m \in closures, NEW size \in ResponseSizes,
           DoneCallback(m, size)
    PROVE  IInv'
  <2> USE <1>DoneStep
  <2>a. /\ TypeOK /\ Requested /\ Waiting /\ Executed /\ Whole
        /\ Asked(ToServer) /\ Aligned(ToServer)
    BY Zenon DEF IInv, Framed, ToServer
  <2>b. /\ UNCHANGED <<id_, outstanding_calls_, pc, request, result, client_state,
                       client_in, server_state, server_in, executions, up,
                       socket_error>>
        /\ Invoked' = Invoked /\ closures' \subseteq closures
        /\ down' = SendOn(server_state, down,
                          [m EXCEPT !.type = "RESPONSE", !.size = size])
    BY Zenon DEF DoneCallback, callVars, clientVars, Invoked
  <2>c. m \in Requests /\ Justified(m)
    BY Zenon, <2>a DEF Executed
  <2>1. PICK r : r = [m EXCEPT !.type = "RESPONSE", !.size = size]
    BY Zenon
  <2>2. r = [type |-> "RESPONSE", id |-> m.id, call |-> m.call, error |-> m.error,
             size |-> size]
    BY Zenon, <2>1, <2>c DEF Requests
  <2>3. r \in Responses
    BY Zenon, <2>2, <2>c, RpcAssumption DEF Responses, Requests
  <2>4. Justified(r)
    <3>1. r.call = m.call /\ r.id = m.id /\ r.error = m.error
      BY Zenon, <2>2
    <3> QED BY Zenon, <3>1, <2>c DEF Justified
  <2>5. /\ down' \in Seq(Units(Responses)) /\ Aligned(ToClient')
        /\ Answered(ToClient)'
        /\ server_state' = "kConnected" /\ socket_error' = "none"
                => Complete(ToClient')
    BY Zenon, <2>1, <2>3, <2>4, <2>b, ReplySent
  <2>6. TypeOK'
    BY Zenon, <2>5, <2>a, <2>b DEF TypeOK, Requests, Responses, Units
  <2>7. Executed'
    <3>1. ASSUME NEW q \in closures' PROVE q \in Requests /\ Justified(q)'
      BY Zenon, <3>1, <2>a, <2>b DEF Executed, Justified
    <3>2. \A d \in Calls :
            /\ executions'[d] = 1 =>
                 /\ d \in Invoked' /\ pc'[d] # "registered"
                 /\ request'[d].error = "NO_ERROR"
            /\ result'[d] # "none" => d \in Invoked'
            /\ result'[d] = "replied" => executions'[d] = 1
            /\ result'[d] = "empty" => request'[d].error # "NO_ERROR"
      BY Zenon, <2>a, <2>b DEF Executed
    <3> QED BY Zenon, <3>1, <3>2 DEF Executed, Requests
  <2>8. ToServer' = ToServer
    BY Zenon, <2>b DEF ToServer
  <2>9. Whole'
    BY Zenon, <2>5, <2>8, <2>a, <2>b DEF Whole, Complete
  <2>10. Asked(ToServer)'
    BY Zenon, <2>8, <2>a, <2>b DEF Asked
  <2>11. Framed'
    BY Zenon, <2>5, <2>8, <2>a DEF Framed, ToServer, ToClient
  <2>12. Requested' /\ Waiting'
    BY Zenon, <2>a, <2>b, SameRequested DEF Waiting
  <2> QED BY Zenon, <2>5, <2>6, <2>7, <2>9, <2>10, <2>11, <2>12 DEF IInv
<1> SUFFICES ASSUME EnoughIds, IInv, [Next]_vars, ~ Compacted'
             PROVE  Kept
  BY Zenon
<1>1. CASE UNCHANGED vars
  <2>1. PICK q : q = pc
    BY Zenon
  <2>2. q \in [Calls -> Places]
    BY Zenon, <2>1 DEF IInv, TypeOK
  <2>3. Quiet
    BY Zenon, <1>1, <2>1, <2>2, StreamsAlone
       DEF vars, callVars, clientVars, serverVars
  <2> QED BY Zenon, <2>3, QuietKept
<1>2. ASSUME NEW c \in Calls, NEW target \in Targets, NEW size \in RequestSizes,
             CallMethod(c, target, size)
      PROVE  Kept
  BY Zenon, <1>2, InvokeKept
<1>3. ASSUME NEW c \in Calls, Caller(c) PROVE Kept
  BY Zenon, <1>3, SendKept, SyncKept DEF Caller
<1>4. CASE Loops
  BY Zenon, <1>4, LoopsKept
<1>5. CASE Services
  <2>1. PICK m \in closures, size \in ResponseSizes : DoneCallback(m, size)
    BY Zenon, <1>5 DEF Services
  <2>2. IInv'
    BY Zenon, <2>1, <1>DoneStep
  <2>3. UNCHANGED <<Status, executions>>
    BY Zenon, <2>1 DEF DoneCallback, callVars, Status
  <2> QED BY Zenon, <2>2, <2>3 DEF Kept
<1>6. CASE \/ ClientCloses \/ DestroyAsyncChannel \/ DestroySyncChannel
           \/ ServerCloses \/ ServerDestroys
           \/ Reset
  BY Zenon, <1>6, CloseKept
<1> QED BY Zenon, <1>1, <1>2, <1>3, <1>4, <1>5, <1>6 DEF Next

\* No step forgets that an input buffer was compacted.
LEMMA StaysCompacted ==
  ASSUME [Next]_vars, Compacted
  PROVE  Compacted'
<1>1. \A vec, in, n :
        vec.moved => /\ Resized(vec, n).moved /\ Passed(vec, in).moved
                     /\ Vector(vec, in, n).moved
  BY Zenon DEF Resized, Passed, Vector
<1>2. ASSUME UNCHANGED <<client_vec, server_vec>> PROVE Compacted'
  BY Zenon, <1>2 DEF Compacted
<1>3. ASSUME NEW c \in Calls, Caller(c) PROVE Compacted'
  <2>1. CASE AsyncSend(c) \/ SyncSend(c) \/ SyncCheck(c)
    BY Zenon, <2>1, <1>2 DEF AsyncSend, SyncSend, SyncCheck, clientVars, serverVars
  <2>2. CASE SyncRead(c)
    BY Zenon, <2>2, <1>1 DEF SyncRead, serverVars, Compacted
  <2>3. CASE SyncFrame(c)
    BY Zenon, <2>3, <1>1 DEF SyncFrame, serverVars, Compacted
  <2> QED BY Zenon, <1>3, <2>1, <2>2, <2>3 DEF Caller
<1>4. CASE Loops
  <2>1. CASE ClientReceive
    BY Zenon, <2>1, <1>1 DEF ClientReceive, serverVars, Compacted
  <2>2. CASE ClientOnMessage
    BY Zenon, <2>2, <1>1 DEF ClientOnMessage, serverVars, Compacted
  <2>3. CASE ServerReceive
    BY Zenon, <2>3, <1>1 DEF ServerReceive, clientVars, Compacted
  <2>4. CASE ServerOnMessage
    BY Zenon, <2>4, <1>1 DEF ServerOnMessage, clientVars, Compacted
  <2> QED BY Zenon, <1>4, <2>1, <2>2, <2>3, <2>4 DEF Loops
<1>5. CASE \/ ClientCloses \/ DestroyAsyncChannel \/ DestroySyncChannel
           \/ ServerCloses \/ ServerDestroys
           \/ Reset
  BY Zenon, <1>5, <1>2 DEF ClientCloses, DestroyAsyncChannel,
     DestroySyncChannel, ServerCloses, ServerDestroys, Reset, clientVars,
     serverVars
<1>6. CASE Services
  BY Zenon, <1>6, <1>2 DEF Services, DoneCallback, clientVars
<1>7. ASSUME NEW c \in Calls, NEW target \in Targets, NEW size \in RequestSizes,
             CallMethod(c, target, size)
      PROVE  Compacted'
  BY Zenon, <1>7, <1>2 DEF CallMethod, clientVars, serverVars
<1>8. CASE UNCHANGED vars
  BY Zenon, <1>8, <1>2 DEF vars, clientVars, serverVars
<1> QED BY Zenon, <1>3, <1>4, <1>5, <1>6, <1>7, <1>8 DEF Next

\* The invariant, until an input buffer is compacted.
Unbroken == Compacted \/ IInv

LEMMA UnbrokenKept ==
  ASSUME EnoughIds, Unbroken, [Next]_vars
  PROVE  /\ Unbroken'
         /\ ~ Compacted' => ~ Compacted /\ Kept
<1>1. CASE Compacted'
  BY Zenon, <1>1 DEF Unbroken
<1>2. CASE ~ Compacted'
  <2>1. ~ Compacted /\ IInv
    BY Zenon, <1>2, StaysCompacted DEF Unbroken
  <2>2. Kept
    BY Zenon, <1>2, <2>1, NextKept
  <2> QED BY Zenon, <2>1, <2>2 DEF Unbroken, Kept
<1> QED BY Zenon, <1>1, <1>2

\* Wherever the streams are cut, whichever end closes or is reset and however
\* the vectors grow, each end's unread input starts with a length field and
\* goes on with the rest of its frames, until a read overruns an input buffer
\* that was read in part and ReserveWritableSpace compacts it (FillEmptyBuffer
\* and OnMessage of RpcCodec, Connecting's reads).
THEOREM FramesNeverSlip ==
  ASSUME EnoughIds
  PROVE  Spec => []FramesAligned
<1>1. Init => Unbroken
  BY Zenon, InitKept DEF Unbroken
<1>2. Unbroken /\ [Next]_vars => Unbroken'
  BY Zenon, UnbrokenKept
<1>3. Unbroken => FramesAligned
  BY Zenon DEF Unbroken, IInv, FramesAligned
<1> QED BY <1>1, <1>2, <1>3, PTL DEF Spec

\* The channel implements RpcCall as long as no input buffer is compacted: a
\* call is executed at most once and ends at most once, with the reply to this
\* very call, with an empty response if it was never executed, or dropped by
\* ~RpcAsyncChannel, whatever value the uninitialised id_ starts from, as long
\* as there are no more calls than ids.
THEOREM CallsImplementRpcCall ==
  ASSUME EnoughIds
  PROVE  Spec => ImplementsRpcCall
<1>1. Init => Unbroken /\ Call!Init
  BY Zenon, InitKept DEF Unbroken
<1>2. Unbroken /\ [Next]_vars => Unbroken' /\ [Call!Next]_(Call!vars)
  <2> SUFFICES ASSUME Unbroken, [Next]_vars
               PROVE  Unbroken' /\ [Call!Next]_(Call!vars)
    BY Zenon
  <2>1. CASE Compacted'
    BY Zenon, <2>1, UnbrokenKept DEF Call!Next
  <2>2. CASE ~ Compacted'
    <3>1. Unbroken' /\ ~ Compacted /\ Kept
      BY Zenon, <2>2, UnbrokenKept
    <3> QED BY Zenon, <2>2, <3>1 DEF Kept, Status, Call!vars, Call!Next
  <2> QED BY Zenon, <2>1, <2>2
<1> QED BY <1>1, <1>2, PTL DEF Spec, ImplementsRpcCall, Call!Spec

=============================================================================
