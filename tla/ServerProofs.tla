---------------------------- MODULE ServerProofs ----------------------------
(***************************************************************************)
(* Proofs about Server, for any number of clients, of event loops and of   *)
(* descriptors.                                                            *)
(***************************************************************************)
EXTENDS Server, FiniteSetTheorems, TLAPS

Cqe == [res : Clients \cup {"EMFILE", "error"}, more : BOOLEAN]

PickPcs == {"pick", "compare", "again", "hand"}
Main == [pc : PickPcs \cup {"poll", "end"}, who : Clients \cup {None},
         more : BOOLEAN, pos : Nat, i : Nat, min : Nat]

ClientStates ==
  {"idle", "waiting", "accepted", "queued", "open", "closed", "dropped"}

TypeOK ==
  /\ client \in [Clients -> ClientStates]
  /\ request \in BOOLEAN
  /\ cq \in Seq(Cqe)
  /\ main \in Main
  /\ balancer \in [strategy : Strategies, cursor : Loops]
  /\ tasks \in [Loops -> Seq(Clients)]
  /\ conns \in [Loops -> SUBSET Clients]
  /\ \A l \in Loops : IsFiniteSet(conns[l])
  /\ handed \in [Loops -> Nat]

-----------------------------------------------------------------------------
(***************************************************************************)
(* The inductive invariant.                                                *)
(***************************************************************************)

\* The values of the local variables of PickOneEventManager.
Picking ==
  /\ main.pc \in PickPcs => main.who \in Clients
  /\ main.pc \in {"compare", "again"} =>
       /\ balancer.strategy = "kMinEvents"
       /\ {main.i, main.pos} \subseteq IoThreads

MainEnded == main.pc # "poll" /\ ~ main.more

\* The accept request: the completion that ended it is the last one.
Request ==
  /\ \A i \in DOMAIN cq :
       ~ cq[i].more => i = Len(cq) /\ ~ request /\ ~ MainEnded
  /\ MainEnded => ~ request
  /\ ~ request => MainEnded \/ \E i \in DOMAIN cq : ~ cq[i].more

InHand(c) == main.pc \in PickPcs /\ main.who = c

\* What a client's state says about where its socket is, and conversely.
Completed ==
  /\ \A i \in DOMAIN cq :
       cq[i].res \in Clients =>
         /\ client[cq[i].res] = "accepted"
         /\ ~ InHand(cq[i].res)
         /\ \A j \in DOMAIN cq : cq[j].res = cq[i].res => j = i
  /\ \A c \in Clients : InHand(c) => client[c] = "accepted"
  /\ \A c \in Clients :
       client[c] = "accepted" =>
         InHand(c) \/ \E i \in DOMAIN cq : cq[i].res = c

Queued ==
  /\ \A l \in Loops : \A i \in DOMAIN tasks[l] :
       /\ client[tasks[l][i]] = "queued"
       /\ \A m \in Loops : \A j \in DOMAIN tasks[m] :
            tasks[m][j] = tasks[l][i] => m = l /\ j = i
  /\ \A c \in Clients :
       client[c] = "queued" =>
         \E l \in Loops : \E i \in DOMAIN tasks[l] : tasks[l][i] = c

Opened ==
  /\ \A l \in Loops : \A c \in conns[l] :
       /\ client[c] = "open"
       /\ \A m \in Loops : c \in conns[m] => m = l
  /\ \A c \in Clients :
       client[c] = "open" => \E l \in Loops : c \in conns[l]

IInv ==
  /\ TypeOK /\ Picking
  /\ Request
  /\ Completed /\ Queued /\ Opened
  /\ DescriptorsAccounted

\* Round robin: the threads up to the k-th have been given one connection
\* more than the others.
Turn(l, k) == IF l <= k THEN 1 ELSE 0
Even(k) ==
  \A l, m \in IoThreads : handed[l] + Turn(m, k) = handed[m] + Turn(l, k)

Turns ==
  /\ handed[0] = 0
  /\ main.pc = "hand" => balancer.cursor \in IoThreads
  /\ balancer.strategy = "kRoundRobin" =>
       Even(IF main.pc = "hand" THEN balancer.cursor - 1 ELSE balancer.cursor)

-----------------------------------------------------------------------------
(***************************************************************************)
(* What the actions change.                                                *)
(***************************************************************************)

LEMMA Constants ==
  /\ N \in Nat /\ N >= 2 /\ 0 \in Loops /\ 1 \in Loops /\ 1 \in IoThreads
  /\ Loops \subseteq Nat /\ IoThreads \subseteq Loops
BY ServerAssumption DEF Loops, IoThreads

LEMMA Names ==
  /\ None \notin Clients /\ Idle \notin Clients
  /\ "EMFILE" \notin Clients /\ "error" \notin Clients
BY ServerAssumption

LEMMA AtPollType == AtPoll \in Main
BY DEF AtPoll, Main

\* The first completion is taken from the queue.
LEMMA TailCq ==
  ASSUME TypeOK, cq # <<>>, cq' = Tail(cq)
  PROVE  /\ cq' \in Seq(Cqe)
         /\ Head(cq) = cq[1] /\ Head(cq) \in Cqe /\ 1 \in DOMAIN cq
         /\ Len(cq') = Len(cq) - 1
         /\ \A i \in DOMAIN cq' : i + 1 \in DOMAIN cq /\ cq'[i] = cq[i + 1]
         /\ \A i \in DOMAIN cq : i # 1 => i - 1 \in DOMAIN cq' /\ cq'[i - 1] = cq[i]
BY DEF TypeOK

LEMMA AppendCq ==
  ASSUME TypeOK, NEW e \in Cqe, cq' = Append(cq, e)
  PROVE  /\ cq' \in Seq(Cqe) /\ Len(cq') = Len(cq) + 1
         /\ Len(cq') \in DOMAIN cq' /\ cq'[Len(cq')] = e
         /\ \A i \in DOMAIN cq : i \in DOMAIN cq' /\ cq'[i] = cq[i] /\ i # Len(cq')
         /\ \A i \in DOMAIN cq' : i \in DOMAIN cq \/ i = Len(cq')
BY DEF TypeOK

\* A step of PickOneEventManager, the callback, and the end of the handler.
LEMMA MainStep ==
  ASSUME TypeOK, Picking,
         \/ PickRoundRobin \/ PickFirst \/ PickCompare \/ PickAgain
         \/ AcceptNewConnectionCallback
  PROVE  /\ main' \in Main
         /\ main.pc \in PickPcs /\ main.who \in Clients
         /\ main'.who = main.who /\ main'.more = main.more
         /\ AcceptNewConnectionCallback => main.pc = "hand" /\ main'.pc = "end"
         /\ ~ AcceptNewConnectionCallback =>
              main.pc # "hand" /\ main'.pc \in PickPcs \ {"pick"}
<1>1. main \in Main /\ Strategies \subseteq {"kRoundRobin", "kMinEvents"}
  BY ServerAssumption DEF TypeOK
<1>2. \A l \in Loops : GetEventerAmount(l) \in Nat
  BY FS_CardinalityType DEF TypeOK, GetEventerAmount
<1>3. \A i : Next_i(i) \in {"compare", "hand"}
  BY DEF Next_i
<1>4. CASE PickRoundRobin
  BY <1>1, <1>4 DEF PickRoundRobin, Main, Picking, PickPcs,
                    AcceptNewConnectionCallback
<1>5. CASE PickFirst
  BY Zenon, <1>1, <1>2, <1>3, <1>5, Constants
     DEF PickFirst, Main, Picking, PickPcs, AcceptNewConnectionCallback
<1>6. CASE PickCompare
  <2>1. CASE GetEventerAmount(main.i) < main.min
    BY Zenon, <1>1, <1>3, <1>6, <2>1, Constants
       DEF PickCompare, Main, Picking, PickPcs, AcceptNewConnectionCallback
  <2>2. CASE ~ (GetEventerAmount(main.i) < main.min)
    <3>1. PICK pc \in {"compare", "hand"} : pc = Next_i(main.i + 1)
      BY <1>3
    <3>2. main' = [main EXCEPT !.pc = pc, !.i = @ + 1] /\ main.pc = "compare"
      BY <1>6, <2>2, <3>1 DEF PickCompare
    <3>3. main' \in Main
      <4>1. PICK k \in Nat : k = main.i + 1
        BY <1>1 DEF Main
      <4>2. main' = [main EXCEPT !.pc = pc, !.i = k]
        BY <3>2, <4>1
      <4> QED
        BY Zenon, <1>1, <4>2 DEF Main, PickPcs
    <3>4. main'.pc = pc /\ main'.who = main.who /\ main'.more = main.more
      BY <1>1, <3>2 DEF Main
    <3> QED
      BY <3>1, <3>2, <3>3, <3>4 DEF Picking, PickPcs, AcceptNewConnectionCallback
  <2> QED
    BY <2>1, <2>2
<1>7. CASE PickAgain
  <2>1. main.pos \in Loops
    BY <1>7, Constants DEF PickAgain, Picking
  <2> QED
    <3>1. PICK pc \in {"compare", "hand"} : pc = Next_i(main.i + 1)
      BY <1>3
    <3>2. PICK n \in Nat : n = GetEventerAmount(main.pos)
      BY <1>2, <2>1
    <3>3. /\ main' = [main EXCEPT !.pc = pc, !.i = @ + 1, !.min = n]
          /\ main.pc = "again"
      BY <1>7, <3>1, <3>2 DEF PickAgain
    <3>4. main' \in Main
      <4>1. PICK k \in Nat : k = main.i + 1
        BY <1>1 DEF Main
      <4>2. main' = [main EXCEPT !.pc = pc, !.i = k, !.min = n]
        BY <3>3, <4>1
      <4> QED
        BY Zenon, <1>1, <4>2 DEF Main, PickPcs
    <3>5. main'.pc = pc /\ main'.who = main.who /\ main'.more = main.more
      BY <1>1, <3>3 DEF Main
    <3> QED
      BY <3>1, <3>3, <3>4, <3>5 DEF Picking, PickPcs, AcceptNewConnectionCallback
<1>8. CASE AcceptNewConnectionCallback
  BY <1>1, <1>8 DEF AcceptNewConnectionCallback, Main, Picking, PickPcs
<1> QED
  BY <1>4, <1>5, <1>6, <1>7, <1>8

\* A completion is taken.
LEMMA AcceptStep ==
  ASSUME TypeOK, OnAcceptComplete \/ OnAcceptError \/ OnAcceptEmfile
  PROVE  /\ main.pc = "poll" /\ cq # <<>> /\ cq' = Tail(cq)
         /\ main' \in Main /\ main'.more = Head(cq).more
         /\ OnAcceptComplete =>
              /\ Head(cq).res \in Clients
              /\ main'.pc = "pick" /\ main'.who = Head(cq).res
         /\ ~ OnAcceptComplete => Head(cq).res \notin Clients /\ main'.pc = "end"
<1>1. /\ main.pc = "poll" /\ cq # <<>> /\ cq' = Tail(cq)
  BY DEF OnAcceptComplete, OnAcceptError, OnAcceptEmfile, MainPolls
<1>2. Head(cq) \in Cqe
  BY <1>1, TailCq
<1>3. CASE OnAcceptComplete
  BY Zenon, <1>1, <1>2, <1>3, AtPollType
     DEF OnAcceptComplete, AtPoll, Main, PickPcs, Cqe
<1>4. CASE OnAcceptError \/ OnAcceptEmfile
  <2>1. Head(cq).res \notin Clients
    BY <1>4, Names DEF OnAcceptError, OnAcceptEmfile
  <2> QED
    BY Zenon, <1>1, <1>2, <1>4, <2>1, AtPollType
       DEF OnAcceptComplete, OnAcceptError, OnAcceptEmfile, AtPoll, Main, Cqe
<1> QED
  BY <1>3, <1>4

-----------------------------------------------------------------------------
(***************************************************************************)
(* Types.                                                                  *)
(***************************************************************************)

LEMMA InitType == Init => TypeOK /\ Picking
<1> SUFFICES ASSUME Init PROVE TypeOK /\ Picking
  OBVIOUS
<1>1. main \in Main /\ main.pc = "poll"
  BY AtPollType DEF Init, AtPoll
<1>2. \A l \in Loops : IsFiniteSet(conns[l])
  BY FS_EmptySet DEF Init
<1>3. TypeOK
  BY <1>1, <1>2, Constants DEF Init, Listening, TypeOK, ClientStates
<1> QED
  BY <1>1, <1>3 DEF Picking, PickPcs

LEMMA PickType ==
  ASSUME TypeOK, Picking,
         \/ PickRoundRobin \/ PickFirst \/ PickCompare \/ PickAgain
  PROVE  TypeOK' /\ Picking'
<1>a. main \in Main /\ main' \in Main
  BY MainStep DEF TypeOK
<1>b. balancer \in [strategy : Strategies, cursor : Loops]
      /\ balancer.strategy \in {"kRoundRobin", "kMinEvents"}
  BY Zenon, ServerAssumption DEF TypeOK
<1>1. UNCHANGED <<client, request, cq, tasks, conns, handed>>
  BY DEF PickRoundRobin, PickFirst, PickCompare, PickAgain
<1>2. balancer' \in [strategy : Strategies, cursor : Loops]
      /\ balancer'.strategy = balancer.strategy
  <2>1. ASSUME NEW pos \in Loops, MoveCursor(pos)
        PROVE  balancer' \in [strategy : Strategies, cursor : Loops]
               /\ balancer'.strategy = balancer.strategy
    BY <1>b, <2>1 DEF MoveCursor
  <2>2. CASE PickRoundRobin
    <3>1. PICK pos \in Loops : pos = IF balancer.cursor + 1 >= N THEN 1
                                     ELSE balancer.cursor + 1
      BY <1>b, Constants DEF Loops
    <3> QED
      BY <2>1, <2>2, <3>1 DEF PickRoundRobin
  <2>3. CASE PickFirst
    BY <1>b, <2>3 DEF PickFirst
  <2>4. CASE PickCompare \/ PickAgain
    <3>1. main.pos \in Loops
      BY <2>4, Constants DEF PickCompare, PickAgain, Picking
    <3> QED
      BY <1>b, <2>1, <2>4, <3>1 DEF PickCompare, PickAgain
  <2> QED
    BY <2>2, <2>3, <2>4
<1>3. TypeOK'
  BY <1>a, <1>1, <1>2 DEF TypeOK
<1>4. main'.who \in Clients
  BY MainStep
<1>5. ASSUME main'.pc \in {"compare", "again"}
      PROVE  /\ balancer.strategy = "kMinEvents"
             /\ {main'.i, main'.pos} \subseteq IoThreads
  <2>1. CASE PickRoundRobin
    BY <1>5, <2>1, <1>a DEF PickRoundRobin, Main
  <2>2. CASE PickFirst
    <3>1. /\ main'.pc = Next_i(2) /\ main'.i = 2 /\ main'.pos = 1
          /\ balancer.strategy = "kMinEvents"
      BY <2>2, <1>a DEF PickFirst, Main
    <3> QED
      BY <1>5, <3>1, Constants DEF Next_i, IoThreads
  <2>3. CASE PickCompare
    <3>1. /\ balancer.strategy = "kMinEvents"
          /\ {main.i, main.pos} \subseteq IoThreads
      BY <2>3 DEF PickCompare, Picking
    <3>2. CASE GetEventerAmount(main.i) < main.min
      <4>1. main'.i = main.i /\ main'.pos = main.i
        BY Zenon, <2>3, <3>2, <1>a DEF PickCompare, Main
      <4> QED
        BY <3>1, <4>1
    <3>3. CASE ~ (GetEventerAmount(main.i) < main.min)
      <4>1. /\ main'.pc = Next_i(main.i + 1) /\ main'.i = main.i + 1
            /\ main'.pos = main.pos
        BY Zenon, <2>3, <3>3, <1>a DEF PickCompare, Main
      <4> QED
        BY <1>5, <3>1, <4>1, Constants DEF Next_i, IoThreads
    <3> QED
      BY <3>2, <3>3
  <2>4. CASE PickAgain
    <3>1. /\ balancer.strategy = "kMinEvents"
          /\ {main.i, main.pos} \subseteq IoThreads
      BY <2>4 DEF PickAgain, Picking
    <3>2. /\ main'.pc = Next_i(main.i + 1) /\ main'.i = main.i + 1
          /\ main'.pos = main.pos
      BY <2>4, <1>a DEF PickAgain, Main
    <3> QED
      BY <1>5, <3>1, <3>2, Constants DEF Next_i, IoThreads
  <2> QED
    BY <2>1, <2>2, <2>3, <2>4
<1> QED
  BY <1>2, <1>3, <1>4, <1>5 DEF Picking

LEMMA MainType ==
  ASSUME TypeOK, Picking, MainLoop
  PROVE  TypeOK' /\ Picking'
<1>1. CASE PickRoundRobin \/ PickFirst \/ PickCompare \/ PickAgain
  BY <1>1, PickType
<1>2. CASE OnAcceptComplete \/ OnAcceptError \/ OnAcceptEmfile
  <2>1. /\ main' \in Main /\ cq' \in Seq(Cqe)
        /\ main'.pc \in PickPcs => main'.pc = "pick" /\ main'.who \in Clients
    BY <1>2, AcceptStep, TailCq DEF PickPcs
  <2>2. client' \in [Clients -> ClientStates]
    BY Zenon, <1>2 DEF OnAcceptComplete, OnAcceptError, OnAcceptEmfile, TypeOK,
                ClientStates
  <2>3. UNCHANGED <<request, balancer, tasks, conns, handed>>
    BY <1>2 DEF OnAcceptComplete, OnAcceptError, OnAcceptEmfile
  <2> QED
    BY <2>1, <2>2, <2>3 DEF TypeOK, Picking, PickPcs
<1>3. CASE AcceptNewConnectionCallback
  <2>1. main' \in Main /\ main'.pc = "end" /\ main.who \in Clients
    BY <1>3, MainStep
  <2>2. /\ client' \in [Clients -> ClientStates]
        /\ tasks' \in [Loops -> Seq(Clients)]
        /\ handed' \in [Loops -> Nat]
    BY <1>3, <2>1 DEF AcceptNewConnectionCallback, TypeOK, ClientStates
  <2>3. UNCHANGED <<request, cq, balancer, conns>>
    BY <1>3 DEF AcceptNewConnectionCallback
  <2> QED
    BY <2>1, <2>2, <2>3 DEF TypeOK, Picking, PickPcs
<1>4. CASE Resubmit
  <2>1. request' \in BOOLEAN /\ main' \in Main /\ main'.pc = "poll"
    BY Zenon, <1>4, AtPollType
       DEF Resubmit, SubmitAcceptOnce, SubmitAccept, TypeOK, AtPoll
  <2>2. UNCHANGED <<client, cq, balancer, tasks, conns, handed>>
    BY <1>4 DEF Resubmit
  <2> QED
    BY <2>1, <2>2 DEF TypeOK, Picking, PickPcs
<1> QED
  BY <1>1, <1>2, <1>3, <1>4 DEF MainLoop

LEMMA KernelStep ==
  ASSUME Kernel
  PROVE  /\ request /\ UNCHANGED <<main, balancer, tasks, conns, handed>>
         /\ \E e \in Cqe : cq' = Append(cq, e) /\ request' = e.more
<1>1. request /\ UNCHANGED <<main, balancer, tasks, conns, handed>>
  BY Zenon DEF Kernel, KernelAccepts, KernelLacksDescriptors, KernelFails
<1>2. ASSUME NEW r \in Clients \cup {"EMFILE", "error"}, NEW more \in BOOLEAN,
             cq' = Append(cq, [res |-> r, more |-> more]), request' = more
      PROVE  \E e \in Cqe : cq' = Append(cq, e) /\ request' = e.more
  <2>1. [res |-> r, more |-> more] \in Cqe
    BY DEF Cqe
  <2> QED
    BY <1>2, <2>1
<1>3. ASSUME NEW c \in Clients, NEW more \in BOOLEAN, KernelAccepts(c, more)
      PROVE  \E e \in Cqe : cq' = Append(cq, e) /\ request' = e.more
  BY <1>2, <1>3 DEF KernelAccepts
<1>4. CASE KernelLacksDescriptors
  BY Zenon, <1>2, <1>4 DEF KernelLacksDescriptors
<1>5. CASE KernelFails
  BY Zenon, <1>2, <1>5 DEF KernelFails
<1> QED
  BY <1>1, <1>3, <1>4, <1>5 DEF Kernel

LEMMA KernelType ==
  ASSUME TypeOK, Picking, Kernel
  PROVE  TypeOK' /\ Picking'
<1>1. PICK e \in Cqe : cq' = Append(cq, e) /\ request' = e.more
  BY KernelStep
<1>2. cq' \in Seq(Cqe) /\ request' \in BOOLEAN
  BY Zenon, <1>1, AppendCq DEF Cqe
<1>3. client' \in [Clients -> ClientStates]
  BY Zenon DEF Kernel, KernelAccepts, KernelLacksDescriptors, KernelFails,
         TypeOK, ClientStates
<1> QED
  BY <1>2, <1>3, KernelStep DEF TypeOK, Picking

LEMMA InsertStep ==
  ASSUME TypeOK, NEW l \in Loops, InsertNewConnection(l)
  PROVE  /\ TypeOK' /\ UNCHANGED <<request, cq, main, balancer, handed>>
         /\ tasks[l] # <<>> /\ Head(tasks[l]) = tasks[l][1]
         /\ Head(tasks[l]) \in Clients /\ 1 \in DOMAIN tasks[l]
         /\ tasks'[l] = Tail(tasks[l])
         /\ conns'[l] = conns[l] \cup {Head(tasks[l])}
         /\ \A m \in Loops \ {l} : tasks'[m] = tasks[m] /\ conns'[m] = conns[m]
         /\ client'[Head(tasks[l])] = "open"
         /\ \A c \in Clients \ {Head(tasks[l])} : client'[c] = client[c]
<1>1. /\ tasks \in [Loops -> Seq(Clients)] /\ conns \in [Loops -> SUBSET Clients]
      /\ client \in [Clients -> ClientStates] /\ tasks[l] # <<>>
      /\ tasks[l] \in Seq(Clients)
      /\ \A m \in Loops : IsFiniteSet(conns[m])
  BY DEF TypeOK, InsertNewConnection
<1>2. PICK c \in Clients : c = Head(tasks[l])
  BY <1>1
<1>3. /\ tasks' = [tasks EXCEPT ![l] = Tail(@)]
      /\ conns' = [conns EXCEPT ![l] = @ \cup {c}]
      /\ client' = [client EXCEPT ![c] = "open"]
      /\ UNCHANGED <<request, cq, main, balancer, handed>>
  BY <1>2 DEF InsertNewConnection
<1>4. /\ tasks' \in [Loops -> Seq(Clients)] /\ conns' \in [Loops -> SUBSET Clients]
      /\ client' \in [Clients -> ClientStates]
  BY <1>1, <1>3 DEF ClientStates
<1>5. ASSUME NEW m \in Loops PROVE IsFiniteSet(conns'[m])
  <2>1. conns'[m] = conns[m] \/ conns'[m] = conns[m] \cup {c}
    BY <1>1, <1>3
  <2>2. IsFiniteSet(conns[m] \cup {c})
    BY Zenon, <1>1, FS_AddElement
  <2> QED
    BY Zenon, <1>1, <2>1, <2>2
<1>6. TypeOK'
  BY Zenon, <1>3, <1>4, <1>5 DEF TypeOK
<1> QED
  BY <1>1, <1>2, <1>3, <1>6

LEMMA RemoveStep ==
  ASSUME TypeOK, NEW l \in Loops, NEW c \in Clients, RemoveConnection(l, c)
  PROVE  /\ TypeOK' /\ UNCHANGED <<request, cq, main, balancer, tasks, handed>>
         /\ c \in conns[l] /\ conns'[l] = conns[l] \ {c}
         /\ \A m \in Loops \ {l} : conns'[m] = conns[m]
         /\ client'[c] = "closed"
         /\ \A d \in Clients \ {c} : client'[d] = client[d]
<1>1. /\ conns \in [Loops -> SUBSET Clients]
      /\ client \in [Clients -> ClientStates]
      /\ \A m \in Loops : IsFiniteSet(conns[m])
  BY DEF TypeOK
<1>2. /\ conns' = [conns EXCEPT ![l] = @ \ {c}] /\ c \in conns[l]
      /\ client' = [client EXCEPT ![c] = "closed"]
      /\ UNCHANGED <<request, cq, main, balancer, tasks, handed>>
  BY DEF RemoveConnection
<1>3. /\ conns' \in [Loops -> SUBSET Clients]
      /\ client' \in [Clients -> ClientStates]
  BY <1>1, <1>2 DEF ClientStates
<1>4. ASSUME NEW m \in Loops PROVE IsFiniteSet(conns'[m])
  <2>1. conns'[m] = conns[m] \/ conns'[m] = conns[m] \ {c}
    BY <1>1, <1>2
  <2>2. PICK S : S = conns[m]
    OBVIOUS
  <2>3. IsFiniteSet(S)
    BY Zenon, <1>1, <2>2
  <2>4. IsFiniteSet(S \ {c})
    BY Zenon, <2>3, FS_RemoveElement
  <2> QED
    BY Zenon, <2>1, <2>2, <2>3, <2>4
<1>5. TypeOK'
  BY Zenon, <1>2, <1>3, <1>4 DEF TypeOK
<1> QED
  BY <1>1, <1>2, <1>5

-----------------------------------------------------------------------------
(***************************************************************************)
(* The accept request.                                                     *)
(***************************************************************************)

LEMMA KernelRequest ==
  ASSUME TypeOK, Request, Kernel
  PROVE  Request'
<1>1. PICK e \in Cqe : cq' = Append(cq, e) /\ request' = e.more
  BY KernelStep
<1>2. \A i \in DOMAIN cq : cq[i].more
  BY KernelStep DEF Request
<1>3. ~ MainEnded /\ ~ MainEnded'
  BY KernelStep DEF Request, MainEnded
<1> QED
  BY <1>1, <1>2, <1>3, AppendCq DEF Request

LEMMA AcceptRequest ==
  ASSUME TypeOK, Request, OnAcceptComplete \/ OnAcceptError \/ OnAcceptEmfile
  PROVE  Request'
<1>1. request' = request
  BY DEF OnAcceptComplete, OnAcceptError, OnAcceptEmfile
<1>2. /\ ~ MainEnded
      /\ MainEnded' <=> ~ Head(cq).more
      /\ cq # <<>> /\ cq' = Tail(cq)
  BY AcceptStep DEF MainEnded
<1>3. cq \in Seq(Cqe)
  BY DEF TypeOK
<1>4. CASE Head(cq).more
  <2>1. ASSUME NEW i \in DOMAIN cq', ~ cq'[i].more
        PROVE  i = Len(cq') /\ ~ request
    <3>1. i + 1 \in DOMAIN cq /\ ~ cq[i + 1].more /\ Len(cq') = Len(cq) - 1
      BY <1>2, <2>1, TailCq
    <3>2. i + 1 = Len(cq) /\ ~ request
      BY <3>1 DEF Request
    <3>3. i \in Int /\ Len(cq) \in Nat
      BY <1>2, <1>3, <2>1, TailCq
    <3> QED
      BY <3>1, <3>2, <3>3
  <2>2. ASSUME ~ request PROVE \E i \in DOMAIN cq' : ~ cq'[i].more
    <3>1. PICK i \in DOMAIN cq : ~ cq[i].more
      BY <1>2, <2>2 DEF Request
    <3>2. i # 1
      BY <1>2, <1>4, <3>1, TailCq
    <3>3. i - 1 \in DOMAIN cq' /\ cq'[i - 1] = cq[i]
      BY <1>2, <3>1, <3>2, TailCq
    <3> QED
      BY Zenon, <3>1, <3>3
  <2> QED
    BY <1>1, <1>2, <1>4, <2>1, <2>2 DEF Request
<1>5. CASE ~ Head(cq).more
  <2>1. Len(cq) = 1 /\ ~ request
    BY <1>2, <1>5, TailCq DEF Request
  <2>2. DOMAIN cq' = {}
    BY <1>2, <1>3, <2>1, TailCq
  <2> QED
    BY <1>1, <1>2, <1>5, <2>1, <2>2 DEF Request
<1> QED
  BY <1>4, <1>5

LEMMA PickRequest ==
  ASSUME TypeOK, Picking, Request,
         \/ PickRoundRobin \/ PickFirst \/ PickCompare \/ PickAgain
         \/ AcceptNewConnectionCallback
  PROVE  Request'
<1>1. UNCHANGED <<request, cq>>
  BY DEF PickRoundRobin, PickFirst, PickCompare, PickAgain,
         AcceptNewConnectionCallback
<1>2. main.pc # "poll" /\ main'.pc # "poll" /\ main'.more = main.more
  BY MainStep DEF PickPcs
<1>3. MainEnded' <=> MainEnded
  BY <1>2 DEF MainEnded
<1> QED
  BY <1>1, <1>3 DEF Request

LEMMA ResubmitRequest ==
  ASSUME TypeOK, Request, Resubmit
  PROVE  Request'
<1>1. /\ cq' = cq /\ ~ MainEnded'
      /\ MainEnded <=> ~ main.more
      /\ request' = IF main.more THEN request ELSE TRUE
  BY Zenon DEF Resubmit, AtPoll, MainEnded, SubmitAcceptOnce, SubmitAccept
<1> QED
  BY <1>1 DEF Request

\* While the server listens there is one accept request, however completions,
\* errors and the handler of the main loop interleave
\* (Acceptor::OnAcceptComplete).
LEMMA RequestOne ==
  ASSUME TypeOK, Request
  PROVE  OneAcceptRequest
<1>1. Cardinality({}) = 0 /\ \A x : Cardinality({x}) = 1
  BY Zenon, FS_EmptySet, FS_Singleton
<1>2. CASE request
  <2>1. Ended = {} /\ ~ MainEnded
    BY <1>2 DEF Request, Ended
  <2> QED
    BY <1>1, <1>2, <2>1 DEF OneAcceptRequest, MainEnded
<1>3. CASE MainEnded
  <2>1. Ended = {} /\ ~ request
    BY <1>3 DEF Request, Ended
  <2> QED
    BY <1>1, <1>3, <2>1 DEF OneAcceptRequest, MainEnded
<1>4. CASE ~ request /\ ~ MainEnded
  <2>1. PICK i \in DOMAIN cq : ~ cq[i].more
    BY <1>4 DEF Request
  <2>2. Ended = {i}
    BY <2>1 DEF Request, Ended
  <2> QED
    BY <1>1, <1>4, <2>2 DEF OneAcceptRequest, MainEnded
<1> QED
  BY <1>2, <1>3, <1>4

-----------------------------------------------------------------------------
(***************************************************************************)
(* Where the sockets are.                                                  *)
(***************************************************************************)

Places == Completed /\ Queued /\ Opened /\ DescriptorsAccounted

\* Steps that move no socket from or to the place in question.
LEMMA CompletedFrame ==
  ASSUME Completed, cq' = cq,
         \A c \in Clients : (client'[c] = "accepted") = (client[c] = "accepted"),
         \A c \in Clients : InHand(c)' = InHand(c)
  PROVE  Completed'
BY DEF Completed

LEMMA QueuedFrame ==
  ASSUME TypeOK, Queued, tasks' = tasks,
         \A c \in Clients : (client'[c] = "queued") = (client[c] = "queued")
  PROVE  Queued'
<1>1. \A l \in Loops : \A i \in DOMAIN tasks[l] : tasks[l][i] \in Clients
  BY DEF TypeOK
<1> QED
  BY <1>1 DEF Queued

LEMMA OpenedFrame ==
  ASSUME TypeOK, Opened, conns' = conns,
         \A c \in Clients : (client'[c] = "open") = (client[c] = "open")
  PROVE  Opened'
<1>1. \A l \in Loops : conns[l] \subseteq Clients
  BY DEF TypeOK
<1> QED
  BY <1>1 DEF Opened

Active == {"accepted", "queued", "open"}

LEMMA DescriptorsFrame ==
  ASSUME DescriptorsAccounted, fds' = fds,
         \A c \in Clients : (client'[c] \in Active) = (client[c] \in Active)
  PROVE  DescriptorsAccounted'
BY DEF DescriptorsAccounted, Active

\* A client that is not known to the server changes its state.
LEMMA OutsideStep ==
  ASSUME TypeOK, Places, UNCHANGED <<fds, cq, main, tasks, conns>>,
         NEW c \in Clients, NEW s \in ClientStates \ Active,
         client[c] \notin Active, client' = [client EXCEPT ![c] = s]
  PROVE  Places'
<1>1. \A d \in Clients : \A a \in Active :
        (client'[d] = a) = (client[d] = a)
  BY DEF TypeOK, Active
<1>2. \A d \in Clients : InHand(d)' = InHand(d)
  BY DEF InHand
<1>3. Completed'
  BY <1>1, <1>2, CompletedFrame DEF Places, Active
<1>4. Queued'
  BY <1>1, QueuedFrame DEF Places, Active
<1>5. Opened'
  BY <1>1, OpenedFrame DEF Places, Active
<1>6. DescriptorsAccounted'
  BY <1>1, DescriptorsFrame DEF Places, Active
<1> QED
  BY <1>3, <1>4, <1>5, <1>6 DEF Places

LEMMA PlacesFrame ==
  ASSUME TypeOK, Places, UNCHANGED <<client, fds, cq, tasks, conns>>,
         \A c \in Clients : InHand(c)' = InHand(c)
  PROVE  Places'
BY CompletedFrame, QueuedFrame, OpenedFrame, DescriptorsFrame DEF Places

LEMMA KernelAcceptsPlaces ==
  ASSUME TypeOK, Places, NEW c \in Clients, NEW more \in BOOLEAN,
         KernelAccepts(c, more)
  PROVE  Places'
<1> DEFINE e == [res |-> c, more |-> more]
<1>1. e \in Cqe /\ e.res = c /\ cq' = Append(cq, e)
  BY DEF KernelAccepts, Cqe
<1>2. /\ client[c] = "waiting" /\ client'[c] = "accepted"
      /\ \A d \in Clients \ {c} : client'[d] = client[d]
  BY DEF KernelAccepts, TypeOK
<1>3. UNCHANGED <<main, tasks, conns>> /\ fds' = fds \cup {c}
  BY DEF KernelAccepts
<1> HIDE DEF e
<1>4. \A d \in Clients : InHand(d)' = InHand(d)
  BY <1>3 DEF InHand
<1>5. Completed'
  <2>1. ~ InHand(c) /\ \A i \in DOMAIN cq : cq[i].res # c
    BY <1>2 DEF Places, Completed
  <2>2. ASSUME NEW i \in DOMAIN cq', cq'[i].res \in Clients
        PROVE  /\ client'[cq'[i].res] = "accepted" /\ ~ InHand(cq'[i].res)
               /\ \A j \in DOMAIN cq' : cq'[j].res = cq'[i].res => j = i
    <3>1. CASE i \in DOMAIN cq
      BY <1>1, <1>2, <2>1, <2>2, <3>1, AppendCq DEF Places, Completed
    <3>2. CASE i = Len(cq')
      BY <1>1, <1>2, <2>1, <3>2, AppendCq
    <3> QED
      BY <1>1, <3>1, <3>2, AppendCq
  <2>3. ASSUME NEW d \in Clients, client'[d] = "accepted"
        PROVE  InHand(d) \/ \E i \in DOMAIN cq' : cq'[i].res = d
    <3>1. CASE d = c
      BY <1>1, <3>1, AppendCq
    <3>2. CASE d # c
      BY <1>1, <1>2, <2>3, <3>2, AppendCq DEF Places, Completed
    <3> QED
      BY <3>1, <3>2
  <2>4. \A d \in Clients : InHand(d) => client'[d] = "accepted"
    BY <1>2 DEF Places, Completed
  <2> QED
    BY <1>4, <2>2, <2>3, <2>4 DEF Completed
<1>6. Queued'
  BY <1>2, <1>3, QueuedFrame DEF Places
<1>7. Opened'
  BY <1>2, <1>3, OpenedFrame DEF Places
<1>8. DescriptorsAccounted'
  BY <1>2, <1>3 DEF Places, DescriptorsAccounted
<1> QED
  BY <1>5, <1>6, <1>7, <1>8 DEF Places

LEMMA KernelRefusesPlaces ==
  ASSUME TypeOK, Places, KernelLacksDescriptors \/ KernelFails
  PROVE  Places'
<1>1. UNCHANGED <<client, fds, main, tasks, conns>>
  BY DEF KernelLacksDescriptors, KernelFails
<1>2. PICK e \in Cqe : e.res \notin Clients /\ cq' = Append(cq, e)
  <2>1. ASSUME NEW r \in {"EMFILE", "error"},
               cq' = Append(cq, [res |-> r, more |-> FALSE])
        PROVE  \E e \in Cqe : e.res \notin Clients /\ cq' = Append(cq, e)
    <3>1. [res |-> r, more |-> FALSE] \in Cqe
      BY DEF Cqe
    <3> QED
      BY <2>1, <3>1, Names
  <2> QED
    BY <2>1 DEF KernelLacksDescriptors, KernelFails
<1>3. \A d \in Clients : InHand(d)' = InHand(d)
  BY <1>1 DEF InHand
<1>4. Completed'
  <2>1. ASSUME NEW i \in DOMAIN cq', cq'[i].res \in Clients
        PROVE  i \in DOMAIN cq /\ cq'[i] = cq[i]
    BY <1>2, <2>1, AppendCq
  <2>2. \A i \in DOMAIN cq : i \in DOMAIN cq' /\ cq'[i] = cq[i]
    BY <1>2, AppendCq
  <2>3. ASSUME NEW i \in DOMAIN cq', cq'[i].res \in Clients
        PROVE  /\ client[cq'[i].res] = "accepted" /\ ~ InHand(cq'[i].res)
               /\ \A j \in DOMAIN cq' : cq'[j].res = cq'[i].res => j = i
    BY <2>1, <2>3 DEF Places, Completed
  <2>4. ASSUME NEW d \in Clients, client[d] = "accepted"
        PROVE  InHand(d) \/ \E i \in DOMAIN cq' : cq'[i].res = d
    BY <2>2, <2>4 DEF Places, Completed
  <2> QED
    BY <1>1, <1>3, <2>3, <2>4 DEF Places, Completed
<1> QED
  BY <1>1, <1>4, QueuedFrame, OpenedFrame, DescriptorsFrame DEF Places

LEMMA TakePlaces ==
  ASSUME TypeOK, Places, OnAcceptComplete
  PROVE  Places'
<1>1. /\ main.pc = "poll" /\ cq # <<>> /\ cq' = Tail(cq)
      /\ Head(cq).res \in Clients
      /\ main'.pc = "pick" /\ main'.who = Head(cq).res
  BY AcceptStep
<1>2. UNCHANGED <<client, fds, tasks, conns>>
  BY DEF OnAcceptComplete
<1>3. PICK c \in Clients : c = cq[1].res /\ Head(cq) = cq[1] /\ 1 \in DOMAIN cq
  BY <1>1, TailCq
<1>4. \A d \in Clients : ~ InHand(d) /\ (InHand(d)' <=> d = c)
  BY <1>1, <1>3 DEF InHand, PickPcs
<1>5. Completed'
  <2>1. client[c] = "accepted" /\ \A j \in DOMAIN cq : cq[j].res = c => j = 1
    BY <1>3 DEF Places, Completed
  <2>2. ASSUME NEW i \in DOMAIN cq', cq'[i].res \in Clients
        PROVE  /\ client[cq'[i].res] = "accepted" /\ cq'[i].res # c
               /\ \A j \in DOMAIN cq' : cq'[j].res = cq'[i].res => j = i
    <3>1. /\ i + 1 \in DOMAIN cq /\ cq'[i] = cq[i + 1] /\ i \in Nat \ {0}
          /\ \A j \in DOMAIN cq' : /\ j + 1 \in DOMAIN cq /\ j \in Nat
                                   /\ cq'[j] = cq[j + 1]
      BY <1>1, TailCq DEF TypeOK
    <3>2. /\ client[cq[i + 1].res] = "accepted"
          /\ \A j \in DOMAIN cq : cq[j].res = cq[i + 1].res => j = i + 1
      BY <2>2, <3>1 DEF Places, Completed
    <3>3. \A j \in DOMAIN cq' : cq'[j].res = cq'[i].res => j + 1 = i + 1
      BY <3>1, <3>2
    <3>4. cq[i + 1].res # c
      BY <2>1, <3>1
    <3> QED
      BY <3>1, <3>2, <3>3, <3>4
  <2>3. ASSUME NEW d \in Clients, client[d] = "accepted", d # c
        PROVE  \E i \in DOMAIN cq' : cq'[i].res = d
    <3>1. PICK i \in DOMAIN cq : cq[i].res = d
      BY <1>4, <2>3 DEF Places, Completed
    <3> QED
      BY Zenon, <1>1, <1>3, <2>3, <3>1, TailCq
  <2> QED
    BY <1>2, <1>4, <2>1, <2>2, <2>3 DEF Completed
<1> QED
  BY <1>2, <1>5, QueuedFrame, OpenedFrame, DescriptorsFrame DEF Places

LEMMA RefusePlaces ==
  ASSUME TypeOK, Places, OnAcceptError \/ OnAcceptEmfile
  PROVE  Places'
<1>1. /\ main.pc = "poll" /\ cq # <<>> /\ cq' = Tail(cq)
      /\ Head(cq).res \notin Clients /\ main'.pc = "end"
  <2>1. ~ OnAcceptComplete
    BY Names DEF OnAcceptComplete, OnAcceptError, OnAcceptEmfile
  <2> QED
    BY <2>1, AcceptStep
<1>2. UNCHANGED <<fds, tasks, conns>>
  BY DEF OnAcceptError, OnAcceptEmfile
<1>3. \A d \in Clients : \A a \in Active : (client'[d] = a) = (client[d] = a)
  BY DEF OnAcceptError, OnAcceptEmfile, Waiting, TypeOK, Active
<1>4. \A d \in Clients : ~ InHand(d) /\ ~ InHand(d)'
  BY <1>1 DEF InHand, PickPcs
<1>5. Completed'
  <2>1. ASSUME NEW i \in DOMAIN cq', cq'[i].res \in Clients
        PROVE  /\ client[cq'[i].res] = "accepted"
               /\ \A j \in DOMAIN cq' : cq'[j].res = cq'[i].res => j = i
    <3>1. /\ i + 1 \in DOMAIN cq /\ cq'[i] = cq[i + 1] /\ i \in Nat
          /\ \A j \in DOMAIN cq' : /\ j + 1 \in DOMAIN cq /\ j \in Nat
                                   /\ cq'[j] = cq[j + 1]
      BY <1>1, TailCq DEF TypeOK
    <3>2. /\ client[cq[i + 1].res] = "accepted"
          /\ \A j \in DOMAIN cq : cq[j].res = cq[i + 1].res => j = i + 1
      BY <2>1, <3>1 DEF Places, Completed
    <3>3. \A j \in DOMAIN cq' : cq'[j].res = cq'[i].res => j + 1 = i + 1
      BY <3>1, <3>2
    <3> QED
      BY <3>1, <3>2, <3>3
  <2>2. ASSUME NEW d \in Clients, client[d] = "accepted"
        PROVE  \E i \in DOMAIN cq' : cq'[i].res = d
    <3>1. PICK i \in DOMAIN cq : cq[i].res = d
      BY <1>4, <2>2 DEF Places, Completed
    <3>2. i # 1
      BY <1>1, <3>1, TailCq
    <3> QED
      BY Zenon, <1>1, <3>1, <3>2, TailCq
  <2>3. "accepted" \in Active
    BY DEF Active
  <2> QED
    BY <1>3, <1>4, <2>1, <2>2, <2>3 DEF Completed
<1> QED
  BY <1>2, <1>3, <1>5, QueuedFrame, OpenedFrame, DescriptorsFrame
     DEF Places, Active

LEMMA PickPlaces ==
  ASSUME TypeOK, Picking, Places,
         \/ PickRoundRobin \/ PickFirst \/ PickCompare \/ PickAgain
  PROVE  Places'
<1>1. UNCHANGED <<client, fds, cq, tasks, conns>>
  BY DEF PickRoundRobin, PickFirst, PickCompare, PickAgain
<1>2. /\ main.pc \in PickPcs /\ main'.pc \in PickPcs /\ main'.who = main.who
  <2>1. ~ AcceptNewConnectionCallback
    BY DEF PickRoundRobin, PickFirst, PickCompare, PickAgain,
           AcceptNewConnectionCallback
  <2> QED
    BY <2>1, MainStep
<1>3. \A c \in Clients : InHand(c)' = InHand(c)
  BY <1>2 DEF InHand
<1> QED
  BY <1>1, <1>3, PlacesFrame

LEMMA ResubmitPlaces ==
  ASSUME TypeOK, Places, Resubmit
  PROVE  Places'
<1>1. UNCHANGED <<client, fds, cq, tasks, conns>>
  BY DEF Resubmit
<1>2. main.pc = "end" /\ main'.pc = "poll"
  BY DEF Resubmit, AtPoll
<1>3. \A c \in Clients : InHand(c)' = InHand(c)
  BY <1>2 DEF InHand, PickPcs
<1> QED
  BY <1>1, <1>3, PlacesFrame

LEMMA HandPlaces ==
  ASSUME TypeOK, Picking, Places, AcceptNewConnectionCallback
  PROVE  Places'
<1>1. /\ main.pc = "hand" /\ main'.pc = "end" /\ main.who \in Clients
      /\ main'.who = main.who
  BY MainStep
<1>2. PICK c \in Clients : c = main.who
  BY <1>1
<1>3. PICK l \in Loops : l = balancer.cursor
  BY DEF TypeOK
<1>4. /\ client \in [Clients -> ClientStates] /\ tasks \in [Loops -> Seq(Clients)]
      /\ tasks[l] \in Seq(Clients)
  BY DEF TypeOK
<1>5. /\ client' = [client EXCEPT ![c] = "queued"]
      /\ tasks' = [tasks EXCEPT ![l] = Append(@, c)]
      /\ UNCHANGED <<fds, cq, conns>>
  BY <1>2, <1>3 DEF AcceptNewConnectionCallback
<1>6. /\ client'[c] = "queued" /\ \A d \in Clients \ {c} : client'[d] = client[d]
      /\ client[c] = "accepted"
  <2>1. InHand(c)
    BY <1>1, <1>2 DEF InHand, PickPcs
  <2> QED
    BY <1>4, <1>5, <2>1 DEF Places, Completed
<1>7. \A d \in Clients : (InHand(d) <=> d = c) /\ ~ InHand(d)'
  BY <1>1, <1>2 DEF InHand, PickPcs
<1>8. Completed'
  <2>1. \A i \in DOMAIN cq : cq[i].res # c
    BY <1>7 DEF Places, Completed
  <2> QED
    BY <1>5, <1>6, <1>7, <2>1 DEF Places, Completed
<1>9. Queued'
  <2> DEFINE n == Len(tasks[l]) + 1
  <2>1. /\ n \in DOMAIN tasks'[l] /\ tasks'[l][n] = c /\ n \notin DOMAIN tasks[l]
        /\ DOMAIN tasks'[l] = DOMAIN tasks[l] \cup {n}
        /\ \A i \in DOMAIN tasks[l] : tasks'[l][i] = tasks[l][i]
        /\ \A m \in Loops \ {l} : tasks'[m] = tasks[m]
    BY <1>4, <1>5
  <2> HIDE DEF n
  <2>2. \A m \in Loops : \A i \in DOMAIN tasks[m] :
          /\ tasks[m][i] # c /\ tasks[m][i] \in Clients
          /\ i \in DOMAIN tasks'[m] /\ tasks'[m][i] = tasks[m][i]
    BY <1>4, <1>6, <2>1 DEF Places, Queued
  <2>3. ASSUME NEW m \in Loops, NEW i \in DOMAIN tasks'[m]
        PROVE  \/ m = l /\ i = n
               \/ i \in DOMAIN tasks[m]
    BY <2>1
  <2>4. ASSUME NEW m \in Loops, NEW i \in DOMAIN tasks'[m]
        PROVE  /\ client'[tasks'[m][i]] = "queued"
               /\ \A k \in Loops : \A j \in DOMAIN tasks'[k] :
                    tasks'[k][j] = tasks'[m][i] => k = m /\ j = i
    <3>1. CASE m = l /\ i = n
      BY <1>6, <2>1, <2>2, <2>3, <3>1
    <3>2. CASE i \in DOMAIN tasks[m]
      BY <1>6, <2>1, <2>2, <2>3, <3>2 DEF Places, Queued
    <3> QED
      BY <2>3, <3>1, <3>2
  <2>5. ASSUME NEW d \in Clients, client'[d] = "queued"
        PROVE  \E m \in Loops : \E i \in DOMAIN tasks'[m] : tasks'[m][i] = d
    <3>1. CASE d = c
      BY <2>1, <3>1
    <3>2. CASE d # c
      BY <1>6, <2>2, <2>5, <3>2 DEF Places, Queued
    <3> QED
      BY <3>1, <3>2
  <2> QED
    BY <2>4, <2>5 DEF Queued
<1>10. Opened'
  BY <1>5, <1>6, OpenedFrame DEF Places
<1>11. DescriptorsAccounted'
  BY <1>5, <1>6, DescriptorsFrame DEF Places, Active
<1> QED
  BY <1>8, <1>9, <1>10, <1>11 DEF Places

LEMMA InsertPlaces ==
  ASSUME TypeOK, Places, NEW l \in Loops, InsertNewConnection(l)
  PROVE  Places'
<1>1. /\ tasks[l] # <<>> /\ tasks[l] \in Seq(Clients) /\ 1 \in DOMAIN tasks[l]
      /\ tasks'[l] = Tail(tasks[l])
      /\ \A m \in Loops \ {l} : tasks'[m] = tasks[m] /\ conns'[m] = conns[m]
      /\ UNCHANGED <<cq, main>>
  BY InsertStep DEF TypeOK
<1>2. PICK c \in Clients : c = tasks[l][1] /\ c = Head(tasks[l])
  BY InsertStep
<1>3. /\ conns'[l] = conns[l] \cup {c}
      /\ client'[c] = "open" /\ \A d \in Clients \ {c} : client'[d] = client[d]
  BY <1>2, InsertStep
<1>4. /\ client[c] = "queued"
      /\ \A m \in Loops : \A j \in DOMAIN tasks[m] :
           tasks[m][j] = c => m = l /\ j = 1
  BY <1>1, <1>2 DEF Places, Queued
<1>5. \A d \in Clients : InHand(d)' = InHand(d)
  BY <1>1 DEF InHand
<1>6. Completed'
  BY <1>1, <1>3, <1>4, <1>5, CompletedFrame DEF Places
<1>7. Queued'
  <2>1. /\ \A i \in DOMAIN tasks'[l] : /\ i + 1 \in DOMAIN tasks[l] /\ i \in Nat \ {0}
                                       /\ tasks'[l][i] = tasks[l][i + 1]
        /\ \A i \in DOMAIN tasks[l] :
             i # 1 => i - 1 \in DOMAIN tasks'[l] /\ tasks'[l][i - 1] = tasks[l][i]
    BY <1>1
  <2> DEFINE At(m, i) == IF m = l THEN i + 1 ELSE i
  <2>2. ASSUME NEW m \in Loops, NEW i \in DOMAIN tasks'[m]
        PROVE  /\ At(m, i) \in DOMAIN tasks[m]
               /\ tasks'[m][i] = tasks[m][At(m, i)]
               /\ m = l => At(m, i) # 1 /\ i \in Nat
    <3>1. CASE m = l
      BY <2>1, <2>2, <3>1
    <3>2. CASE m # l
      BY <1>1, <2>2, <3>2
    <3> QED
      BY <3>1, <3>2
  <2>3. ASSUME NEW m \in Loops, NEW i \in DOMAIN tasks'[m]
        PROVE  tasks'[m][i] # c /\ client'[tasks'[m][i]] = "queued"
    <3>1. PICK k : k = At(m, i)
      OBVIOUS
    <3> HIDE DEF At
    <3>2. /\ k \in DOMAIN tasks[m] /\ tasks'[m][i] = tasks[m][k]
          /\ m = l => k # 1
      BY <2>2, <3>1
    <3>3. tasks[m][k] # c /\ client[tasks[m][k]] = "queued"
      BY <1>4, <3>2 DEF Places, Queued
    <3>4. tasks[m][k] \in Clients
      BY <3>2 DEF TypeOK
    <3> QED
      BY <1>3, <3>2, <3>3, <3>4
  <2>4. ASSUME NEW m \in Loops, NEW i \in DOMAIN tasks'[m],
               NEW k \in Loops, NEW j \in DOMAIN tasks'[k],
               tasks'[k][j] = tasks'[m][i]
        PROVE  k = m /\ j = i
    <3>1. PICK x, y : x = At(m, i) /\ y = At(k, j)
      OBVIOUS
    <3>2. k = m /\ x = y
      <4> HIDE DEF At
      <4>1. /\ x \in DOMAIN tasks[m] /\ tasks'[m][i] = tasks[m][x]
            /\ y \in DOMAIN tasks[k] /\ tasks'[k][j] = tasks[k][y]
        BY <2>2, <3>1
      <4> QED
        BY <2>4, <4>1 DEF Places, Queued
    <3>3. m = l => i \in Nat /\ j \in Nat
      BY <2>2, <3>2
    <3> QED
      BY <3>1, <3>2, <3>3
  <2>5. ASSUME NEW d \in Clients, client'[d] = "queued"
        PROVE  \E m \in Loops : \E i \in DOMAIN tasks'[m] : tasks'[m][i] = d
    <3>1. d # c /\ client[d] = "queued"
      BY <1>3, <2>5
    <3>2. PICK m \in Loops : \E i \in DOMAIN tasks[m] : tasks[m][i] = d
      BY <3>1 DEF Places, Queued
    <3>3. PICK i \in DOMAIN tasks[m] : tasks[m][i] = d
      BY <3>2
    <3>4. CASE m = l
      <4>1. i # 1
        BY <1>2, <3>1, <3>3, <3>4
      <4> QED
        BY <2>1, <3>3, <3>4, <4>1
    <3>5. CASE m # l
      BY <1>1, <3>3, <3>5
    <3> QED
      BY <3>4, <3>5
  <2> QED
    BY <2>3, <2>4, <2>5 DEF Queued
<1>8. Opened'
  <2>1. \A m \in Loops : c \notin conns[m] /\ conns[m] \subseteq Clients
    BY <1>4 DEF Places, Opened, TypeOK
  <2>2. ASSUME NEW m \in Loops, NEW d \in conns'[m]
        PROVE  /\ client'[d] = "open"
               /\ \A k \in Loops : d \in conns'[k] => k = m
    <3>1. CASE d = c
      BY <1>1, <1>3, <2>1, <2>2, <3>1
    <3>2. CASE d # c
      <4>1. /\ d \in conns[m] /\ \A k \in Loops : d \in conns'[k] => d \in conns[k]
        BY <1>1, <1>3, <2>2, <3>2
      <4> QED
        BY <1>3, <2>1, <3>2, <4>1 DEF Places, Opened
    <3> QED
      BY <3>1, <3>2
  <2>3. ASSUME NEW d \in Clients, client'[d] = "open"
        PROVE  \E m \in Loops : d \in conns'[m]
    <3>1. CASE d = c
      BY <1>3, <3>1
    <3>2. CASE d # c
      <4>1. PICK m \in Loops : d \in conns[m]
        BY <1>3, <2>3, <3>2 DEF Places, Opened
      <4> QED
        BY <1>1, <1>3, <4>1
    <3> QED
      BY <3>1, <3>2
  <2> QED
    BY <2>2, <2>3 DEF Opened
<1>9. DescriptorsAccounted'
  <2>1. fds' = fds
    BY DEF InsertNewConnection
  <2> QED
    BY <1>3, <1>4, <2>1, DescriptorsFrame DEF Places, Active
<1> QED
  BY <1>6, <1>7, <1>8, <1>9 DEF Places

LEMMA RemovePlaces ==
  ASSUME TypeOK, Places, NEW l \in Loops, NEW c \in Clients,
         RemoveConnection(l, c)
  PROVE  Places'
<1>1. /\ UNCHANGED <<cq, main, tasks>> /\ c \in conns[l]
      /\ conns'[l] = conns[l] \ {c}
      /\ \A m \in Loops \ {l} : conns'[m] = conns[m]
      /\ client'[c] = "closed"
      /\ \A d \in Clients \ {c} : client'[d] = client[d]
  BY RemoveStep
<1>2. client[c] = "open" /\ \A m \in Loops : c \in conns[m] => m = l
  BY <1>1 DEF Places, Opened
<1>3. \A d \in Clients : InHand(d)' = InHand(d)
  BY <1>1 DEF InHand
<1>4. Completed'
  BY <1>1, <1>2, <1>3, CompletedFrame DEF Places
<1>5. Queued'
  BY <1>1, <1>2, QueuedFrame DEF Places
<1>6. Opened'
  <2>1. \A m \in Loops : /\ conns'[m] \subseteq conns[m] /\ c \notin conns'[m]
                         /\ conns[m] \subseteq Clients
                         /\ \A d \in conns[m] : d # c => d \in conns'[m]
    BY Zenon, <1>1, <1>2 DEF TypeOK
  <2> QED
    BY <1>1, <2>1 DEF Places, Opened
<1>7. DescriptorsAccounted'
  <2>1. fds' = fds \ {c}
    BY DEF RemoveConnection
  <2> QED
    BY <1>1, <1>2, <2>1, Names DEF Places, DescriptorsAccounted
<1> QED
  BY <1>4, <1>5, <1>6, <1>7 DEF Places

-----------------------------------------------------------------------------
(***************************************************************************)
(* The invariant, and what follows from it.                                *)
(***************************************************************************)

LEMMA InitIInv == Init => IInv
<1> SUFFICES ASSUME Init PROVE IInv
  OBVIOUS
<1>1. TypeOK /\ Picking
  BY InitType
<1>2. /\ DOMAIN cq = {} /\ request /\ main.pc = "poll" /\ fds = {Idle}
      /\ \A c \in Clients : client[c] = "idle"
      /\ \A l \in Loops : DOMAIN tasks[l] = {} /\ conns[l] = {}
  BY DEF Init, Listening, AtPoll
<1>3. Request
  BY <1>2 DEF Request, MainEnded
<1>4. Completed /\ Queued /\ Opened
  BY <1>2 DEF Completed, Queued, Opened, InHand, PickPcs
<1>5. DescriptorsAccounted
  BY <1>2 DEF DescriptorsAccounted
<1> QED
  BY <1>1, <1>3, <1>4, <1>5 DEF IInv

LEMMA NextIInv == IInv /\ [Next]_vars => IInv'
<1> SUFFICES ASSUME IInv, [Next]_vars PROVE IInv'
  OBVIOUS
<1>a. TypeOK /\ Picking /\ Request /\ Places
  BY DEF IInv, Places
<1>b. TypeOK' /\ Picking' /\ Request' /\ Places' => IInv'
  BY DEF IInv, Places
<1>c. ASSUME UNCHANGED <<request, cq, main>> PROVE Request'
  BY <1>a, <1>c DEF Request, MainEnded
<1>1. CASE UNCHANGED <<client, fds, request, cq, main, balancer, tasks, conns,
                       handed>>
  <2>1. TypeOK' /\ Picking'
    BY <1>a, <1>1 DEF TypeOK, Picking
  <2>2. Places'
    BY <1>a, <1>1, PlacesFrame DEF InHand
  <2> QED
    BY <1>1, <1>b, <1>c, <2>1, <2>2
<1>2. ASSUME NEW c \in Clients, ConnectRequest(c) PROVE IInv'
  <2>1. /\ client[c] = "idle" /\ client' = [client EXCEPT ![c] = "waiting"]
        /\ UNCHANGED <<fds, request, cq, main, balancer, tasks, conns, handed>>
    BY <1>2 DEF ConnectRequest
  <2>2. TypeOK' /\ Picking'
    BY <1>a, <2>1 DEF TypeOK, Picking, ClientStates
  <2>3. "idle" \notin Active /\ "waiting" \in ClientStates \ Active
    BY DEF Active, ClientStates
  <2>4. Places'
    BY Zenon, <1>a, <2>1, <2>3, OutsideStep
  <2> QED
    BY <1>b, <1>c, <2>1, <2>2, <2>4
<1>3. CASE Kernel
  BY <1>a, <1>b, <1>3, KernelType, KernelRequest, KernelAcceptsPlaces,
     KernelRefusesPlaces DEF Kernel
<1>4. CASE MainLoop
  <2>1. TypeOK' /\ Picking'
    BY <1>a, <1>4, MainType
  <2>2. Request'
    BY <1>a, <1>4, AcceptRequest, PickRequest, ResubmitRequest DEF MainLoop
  <2>3. Places'
    BY <1>a, <1>4, TakePlaces, RefusePlaces, PickPlaces, HandPlaces,
       ResubmitPlaces DEF MainLoop
  <2> QED
    BY <1>b, <2>1, <2>2, <2>3
<1>5. ASSUME NEW l \in Loops, InsertNewConnection(l) PROVE IInv'
  <2>1. TypeOK' /\ UNCHANGED <<request, cq, main, balancer>>
    BY <1>a, <1>5, InsertStep
  <2>2. Picking'
    BY <1>a, <2>1 DEF Picking
  <2> QED
    BY <1>a, <1>b, <1>c, <1>5, <2>1, <2>2, InsertPlaces
<1>6. ASSUME NEW l \in Loops, NEW c \in Clients, RemoveConnection(l, c) PROVE IInv'
  <2>1. TypeOK' /\ UNCHANGED <<request, cq, main, balancer>>
    BY <1>a, <1>6, RemoveStep
  <2>2. Picking'
    BY <1>a, <2>1 DEF Picking
  <2> QED
    BY <1>a, <1>b, <1>c, <1>6, <2>1, <2>2, RemovePlaces
<1>7. CASE \E l \in Loops : StartLoop(l)
  BY <1>1, <1>7 DEF StartLoop
<1>8. CASE UNCHANGED vars
  BY <1>1, <1>8 DEF vars
<1> QED
  BY <1>2, <1>3, <1>4, <1>5, <1>6, <1>7, <1>8 DEF Next, Terminated

\* The accept request, the completions, the tasks, the connections and the
\* descriptors agree in every state (Acceptor, ServerReactorManager).
THEOREM ServerInvariant == Spec => []IInv
BY InitIInv, NextIInv, PTL DEF Spec

\* While the server listens there is one accept request, however the kernel
\* and the handler of the main loop interleave (Acceptor::OnAcceptComplete).
THEOREM ListensOnce == Spec => []OneAcceptRequest
<1>1. IInv => OneAcceptRequest
  BY RequestOne DEF IInv
<1> QED
  BY <1>1, ServerInvariant, PTL

\* No descriptor is leaked or closed early, and idle_fd_ always comes back
\* (Acceptor::OnAcceptComplete, ~Connecting).
THEOREM NoDescriptorLeak == Spec => []DescriptorsAccounted
<1>1. IInv => DescriptorsAccounted
  BY DEF IInv
<1> QED
  BY <1>1, ServerInvariant, PTL

\* An accepted socket is never lost, and never handed to two loops
\* (AcceptNewConnectionCallback, InsertNewConnection).
THEOREM SocketInOnePlace == Spec => []InOnePlace
<1>1. IInv => InOnePlace
  <2> DEFINE A(c) == {i \in DOMAIN cq : cq[i].res = c}
             H(c) == main.who = c /\ main.pc \notin {"poll", "end"}
             T(c) == UNION {{l} \X {i \in DOMAIN tasks[l] : tasks[l][i] = c} :
                              l \in Loops}
             O(c) == {l \in Loops : c \in conns[l]}
             Total(c) == Cardinality(A(c)) + (IF H(c) THEN 1 ELSE 0)
                           + Cardinality(T(c)) + Cardinality(O(c))
  <2> SUFFICES ASSUME IInv, NEW c \in Clients
               PROVE  Total(c) = IF client[c] \in {"accepted", "queued", "open"}
                                 THEN 1 ELSE 0
    BY DEF InOnePlace
  <2>a. TypeOK /\ Completed /\ Queued /\ Opened
    BY DEF IInv
  <2>b. H(c) <=> InHand(c)
    BY <2>a DEF TypeOK, Main, PickPcs, InHand
  <2>c. Cardinality({}) = 0 /\ \A x : Cardinality({x}) = 1
    BY FS_EmptySet, FS_Singleton
  <2>1. client[c] # "accepted" => A(c) = {} /\ ~ H(c)
    BY <2>a, <2>b DEF Completed
  <2>2. client[c] # "queued" => T(c) = {}
    BY <2>a DEF Queued
  <2>3. client[c] # "open" => O(c) = {}
    BY <2>a DEF Opened
  <2>4. CASE client[c] = "accepted"
    <3>1. T(c) = {} /\ O(c) = {}
      BY <2>2, <2>3, <2>4
    <3>2. CASE InHand(c)
      <4>1. A(c) = {}
        BY <2>a, <3>2 DEF Completed
      <4> QED
        <5> HIDE DEF A, H, T, O
        <5> QED
          BY <2>b, <2>c, <2>4, <3>1, <3>2, <4>1
    <3>3. CASE ~ InHand(c)
      <4>1. PICK i \in DOMAIN cq : cq[i].res = c
        BY <2>a, <2>4, <3>3 DEF Completed
      <4>2. A(c) = {i}
        BY <2>a, <4>1 DEF Completed
      <4> QED
        <5> HIDE DEF A, H, T, O
        <5> QED
          BY <2>b, <2>c, <2>4, <3>1, <3>3, <4>2
    <3> QED
      BY <3>2, <3>3
  <2>5. CASE client[c] = "queued"
    <3>1. A(c) = {} /\ ~ H(c) /\ O(c) = {}
      BY <2>1, <2>3, <2>5
    <3>2. PICK l \in Loops : \E i \in DOMAIN tasks[l] : tasks[l][i] = c
      BY <2>a, <2>5 DEF Queued
    <3>3. PICK i \in DOMAIN tasks[l] : tasks[l][i] = c
      BY <3>2
    <3>4. Cardinality(T(c)) = 1
      <4>1. T(c) = {<<l, i>>}
        BY <2>a, <3>3 DEF Queued
      <4>2. Cardinality({<<l, i>>}) = 1
        BY Zenon, <2>c
      <4> QED
        BY <4>1, <4>2
    <3> QED
      <4> HIDE DEF A, H, T, O
      <4> QED
        BY <2>c, <2>5, <3>1, <3>4
  <2>6. CASE client[c] = "open"
    <3>1. A(c) = {} /\ ~ H(c) /\ T(c) = {}
      BY <2>1, <2>2, <2>6
    <3>2. PICK l \in Loops : c \in conns[l]
      BY <2>a, <2>6 DEF Opened
    <3>3. O(c) = {l}
      BY <2>a, <3>2 DEF Opened
    <3> QED
      <4> HIDE DEF A, H, T, O
      <4> QED
        BY <2>c, <2>6, <3>1, <3>3
  <2>7. CASE client[c] \notin {"accepted", "queued", "open"}
    <3> HIDE DEF A, H, T, O
    <3> QED
      BY <2>c, <2>1, <2>2, <2>3, <2>7
  <2> QED
    BY <2>4, <2>5, <2>6, <2>7
<1> QED
  BY <1>1, ServerInvariant, PTL

\* Balancer::PickOneEventManager never picks the loop that accepts, and round
\* robin is even, for any number of I/O threads.  With one I/O thread only,
\* kMinEvents leaves cursor_ at its initial value: hence the hypothesis.
THEOREM BalancerEven ==
  ASSUME N >= 3 \/ "kMinEvents" \notin Strategies
  PROVE  Spec => []HandedEvenly
<1>a. N \in Nat /\ N >= 2
  BY Constants
<1>1. Init => Turns
  BY Constants DEF Init, Turns, AtPoll, Even, IoThreads, Loops, Turn
<1>2. IInv /\ Turns /\ [Next]_vars => Turns'
  <2> SUFFICES ASSUME IInv, Turns, [Next]_vars PROVE Turns'
    OBVIOUS
  <2>a. /\ TypeOK /\ Picking
        /\ balancer \in [strategy : Strategies, cursor : Loops]
        /\ handed \in [Loops -> Nat] /\ main \in Main
        /\ \A l \in IoThreads : handed[l] \in Nat
    BY Constants DEF IInv, TypeOK
  <2>1. ASSUME UNCHANGED <<balancer, handed>>,
               main'.pc # "hand" /\ main.pc # "hand"
        PROVE  Turns'
    BY <2>1 DEF Turns, Even
  <2>2. ASSUME UNCHANGED <<main, balancer, handed>> PROVE Turns'
    BY <2>2 DEF Turns, Even
  <2>3. CASE PickRoundRobin
    <3>1. main.pc = "pick" /\ main'.pc = "hand" /\ handed' = handed
      BY <2>3, <2>a DEF PickRoundRobin, Main
    <3>2. PICK k \in Loops : k = balancer.cursor
      BY <2>a
    <3>3. PICK pos \in IoThreads : pos = IF k + 1 >= N THEN 1 ELSE k + 1
      BY <1>a DEF IoThreads, Loops
    <3>4. balancer'.cursor = pos /\ balancer'.strategy = "kRoundRobin"
          /\ balancer.strategy = "kRoundRobin"
      BY <2>3, <2>a, <3>2, <3>3 DEF PickRoundRobin, MoveCursor
    <3>5. Even(k)
      BY <3>1, <3>2, <3>4 DEF Turns
    <3>6. Even(pos - 1)
      <4>1. CASE k + 1 < N
        BY <1>a, <3>3, <3>5, <4>1 DEF Loops
      <4>2. CASE k + 1 >= N
        <5>1. \A l \in IoThreads : Turn(l, k) = 1 /\ Turn(l, 0) = 0
          BY <1>a, <4>2 DEF IoThreads, Loops, Turn
        <5>2. \A l, m \in IoThreads : handed[l] + 1 = handed[m] + 1
          BY <3>5, <5>1 DEF Even
        <5>3. pos - 1 = 0
          BY <1>a, <3>3, <4>2 DEF Loops
        <5> QED
          BY <2>a, <5>1, <5>2, <5>3 DEF Even
      <4> QED
        BY <1>a, <4>1, <4>2 DEF Loops
    <3> QED
      BY <3>1, <3>4, <3>6 DEF Turns, Even
  <2>4. CASE PickFirst \/ PickCompare \/ PickAgain
    <3>1. balancer.strategy = "kMinEvents" /\ handed' = handed
      BY <2>4, <2>a DEF PickFirst, PickCompare, PickAgain, Picking
    <3>2. N >= 3
      BY <2>a, <3>1
    <3>3. balancer'.strategy = "kMinEvents"
      BY <2>4, <2>a, <3>1 DEF PickFirst, PickCompare, PickAgain, MoveCursor
    <3>4. main'.pc = "hand" => balancer'.cursor \in IoThreads
      <4>1. CASE PickFirst
        BY <1>a, <2>a, <3>2, <4>1 DEF PickFirst, Next_i, Main
      <4>2. ASSUME NEW pos \in IoThreads, MoveCursor(pos)
            PROVE  balancer'.cursor \in IoThreads
        BY <2>a, <4>2 DEF MoveCursor
      <4>3. CASE PickCompare
        BY Zenon, <2>a, <4>2, <4>3 DEF PickCompare, Picking, Main
      <4>4. CASE PickAgain
        BY <2>a, <4>2, <4>4 DEF PickAgain, Picking
      <4> QED
        BY <2>4, <4>1, <4>3, <4>4
    <3> QED
      BY <3>1, <3>3, <3>4 DEF Turns
  <2>5. CASE AcceptNewConnectionCallback
    <3>1. main.pc = "hand" /\ main'.pc = "end" /\ balancer' = balancer
      BY <2>5, <2>a, MainStep DEF AcceptNewConnectionCallback
    <3>2. PICK k \in IoThreads : k = balancer.cursor
      BY <3>1 DEF Turns
    <3>3. handed' = [handed EXCEPT ![k] = @ + 1]
      BY <2>5, <3>2 DEF AcceptNewConnectionCallback
    <3>4. /\ handed'[k] = handed[k] + 1 /\ handed'[0] = handed[0]
          /\ \A l \in IoThreads \ {k} : handed'[l] = handed[l]
      BY <2>a, <3>3, Constants DEF IoThreads
    <3>5. ASSUME Even(k - 1) PROVE Even(k)'
      <4>1. \A l \in IoThreads :
              Turn(l, k) = IF l = k THEN Turn(l, k - 1) + 1 ELSE Turn(l, k - 1)
        BY DEF IoThreads, Turn
      <4>2. \A l \in IoThreads : Turn(l, k) \in Nat /\ Turn(l, k - 1) \in Nat
        BY DEF Turn
      <4>3. ASSUME NEW l \in IoThreads, NEW m \in IoThreads
            PROVE  handed'[l] + Turn(m, k) = handed'[m] + Turn(l, k)
        <5>1. handed[l] + Turn(m, k - 1) = handed[m] + Turn(l, k - 1)
          BY <3>5 DEF Even
        <5>2. handed[l] \in Nat /\ handed[m] \in Nat
          BY <2>a
        <5> QED
          BY <3>4, <4>1, <4>2, <5>1, <5>2
      <4> QED
        BY <4>3 DEF Even
    <3> QED
      BY <3>1, <3>2, <3>4, <3>5 DEF Turns
  <2>6. CASE OnAcceptComplete \/ OnAcceptError \/ OnAcceptEmfile
    <3>1. main'.pc # "hand" /\ main.pc # "hand"
      BY <2>6, <2>a, AcceptStep
    <3>2. UNCHANGED <<balancer, handed>>
      BY <2>6 DEF OnAcceptComplete, OnAcceptError, OnAcceptEmfile
    <3> QED
      BY <2>1, <3>1, <3>2
  <2>7. CASE Resubmit
    BY <2>1, <2>7 DEF Resubmit, AtPoll
  <2>8. CASE \/ \E l \in Loops : StartLoop(l)
             \/ \E c \in Clients : ConnectRequest(c)
             \/ Kernel
             \/ \E l \in Loops : InsertNewConnection(l)
             \/ \E l \in Loops, c \in Clients : RemoveConnection(l, c)
             \/ UNCHANGED vars
    <3>1. UNCHANGED <<main, balancer, handed>>
      BY Zenon, <2>8 DEF StartLoop, ConnectRequest, Kernel, KernelAccepts,
           KernelLacksDescriptors, KernelFails, InsertNewConnection,
           RemoveConnection, vars
    <3> QED
      BY <2>2, <3>1
  <2> QED
    BY <2>3, <2>4, <2>5, <2>6, <2>7, <2>8 DEF Next, MainLoop, Terminated
<1>3. IInv /\ Turns => HandedEvenly
  <2> SUFFICES ASSUME IInv, Turns, balancer.strategy = "kRoundRobin",
                      NEW l \in IoThreads, NEW m \in IoThreads
               PROVE  handed[l] <= handed[m] + 1
    BY DEF Turns, HandedEvenly
  <2>1. PICK k : Even(k)
    BY DEF Turns
  <2>2. handed[l] + Turn(m, k) = handed[m] + Turn(l, k)
    BY <2>1 DEF Even
  <2>3. handed[l] \in Nat /\ handed[m] \in Nat
    BY Constants DEF IInv, TypeOK
  <2>4. {Turn(m, k), Turn(l, k)} \subseteq {0, 1}
    BY DEF Turn
  <2> QED
    BY <2>2, <2>3, <2>4
<1> QED
  BY <1>1, <1>2, <1>3, ServerInvariant, PTL DEF Spec
=============================================================================
