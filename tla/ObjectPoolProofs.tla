-------------------------- MODULE ObjectPoolProofs --------------------------
(***************************************************************************)
(* What ObjectPool keeps for any number of threads and any first malloc:   *)
(* the spin lock is held by one thread at a time, so the steps of Allocate *)
(* and Deallocate never mix; the free list runs through exactly the blocks *)
(* that no thread has (BlocksConserved); and a block with an object in it  *)
(* is written by nobody (ObjectsIntact).                                   *)
(***************************************************************************)
EXTENDS ObjectPool, WellFoundedInduction, TLAPS

-----------------------------------------------------------------------------
\* The inductive invariant.

\* The places a thread passes with the lock held.
Inside == {"allocate", "pop", "construct", "destruct", "push", "unlock"}

\* The places at which the block in a thread's hands is on no list and in
\* no EventManager.
InHand == {"construct", "delete", "destruct", "push"}

Owned == Held \cup {block[t] : t \in {u \in Threads : pc[u] \in InHand}}
Free == Blocks \ Owned

\* The words of m mallocs.
Nodes(m) == {n \in (1..m) \X Nat : n[2] <= Size(n[1])}

TypeOK ==
  /\ value_ \in BOOLEAN
  /\ malloc_time_ \in Nat
  /\ memory \in [Nodes(malloc_time_) ->
                   [next_node_ : Nodes(malloc_time_) \cup {Null},
                    object : Threads \cup {None}]]
  /\ pc \in [Threads -> Inside \cup {"idle", "new", "delete"}]
  /\ block \in [Threads -> Blocks \cup {Null}]
  /\ objects \in [Threads -> SUBSET Blocks]

\* The lock lets one thread in at a time.
Exclusion ==
  \A t \in Threads : pc[t] \in Inside =>
    /\ ~ value_
    /\ \A u \in Threads : pc[u] \in Inside => u = t

\* What a thread has in its hands.
Hands ==
  \A t \in Threads :
    /\ pc[t] \in {"idle", "new", "allocate"} => block[t] = Null
    /\ pc[t] = "pop" => block[t] = free_list_head_ /\ block[t] # Null
    /\ pc[t] \in InHand => block[t] \in Blocks \ Held
    /\ pc[t] = "push" => memory[block[t]].next_node_ = free_list_head_

\* No block is two threads'.
Apart ==
  \A t, u \in Threads : t # u =>
    /\ objects[t] \cap objects[u] = {}
    /\ pc[t] \in InHand /\ pc[u] \in InHand => block[t] # block[u]

\* The pointers nx make one list of the blocks F, from h to Null.
IsList(h, F, nx) ==
  /\ h \in F \cup {Null}
  /\ \A b \in F : nx[b] \in (F \cup {Null}) \ {h}
  /\ \A a, b \in F : nx[a] = nx[b] => a = b
  /\ \A S \in SUBSET (F \cup {Null}) :
       h \in S /\ (\A b \in S \cap F : nx[b] \in S) => F \cup {Null} = S

Links == [b \in DOMAIN memory |-> memory[b].next_node_]

FreeLinked == IsList(free_list_head_, Free, Links)

\* The mallocs are linked from the last to the first, and the destructor
\* has returned those before list_head_.
Mallocs ==
  /\ \E j \in 0..malloc_time_ :
       /\ list_head_ = Header(j)
       /\ freed = {Header(k) : k \in (j + 1)..malloc_time_}
  /\ \A k \in 1..malloc_time_ : memory[Header(k)].next_node_ = Header(k - 1)
  /\ freed # {} => \A t \in Threads : pc[t] = "idle"

IInv ==
  /\ TypeOK /\ Exclusion /\ Hands /\ Apart /\ FreeLinked /\ Mallocs
  /\ ObjectsIntact

-----------------------------------------------------------------------------
\* Lists of blocks.

\* A nonempty set of naturals has a least element.
LEMMA Least ==
  ASSUME NEW T, T \subseteq Nat, T # {}
  PROVE  \E x \in T : \A y \in T : x <= y
<1> DEFINE R == OpToRel(<, Nat)
<1>1. IsWellFoundedOn(R, Nat)
  BY Zenon, NatLessThanWellFounded
<1>2. PICK x \in T : \A y \in T : ~ (<<y, x>> \in R)
  <2> HIDE DEF R
  <2> QED BY Zenon, <1>1, WFMin
<1>3. ASSUME NEW y \in T PROVE x <= y
  <2>1. <<y, x>> \notin R
    BY Zenon, <1>2
  <2>2. x \in Nat /\ y \in Nat
    OBVIOUS
  <2>3. y < x => <<y, x>> \in R
    BY <2>2 DEF OpToRel
  <2> HIDE DEF R
  <2> QED BY <2>1, <2>2, <2>3
<1> QED BY <1>3

\* A set with 0 and every successor has all of the naturals.
LEMMA Induct ==
  ASSUME NEW S, 0 \in S, \A n \in Nat : n \in S => n + 1 \in S
  PROVE  Nat \subseteq S
<1> SUFFICES ASSUME Nat \ S # {} PROVE FALSE
  OBVIOUS
<1>1. PICK x \in Nat \ S : \A y \in Nat \ S : x <= y
  BY Zenon, Least
<1>2. x # 0
  OBVIOUS
<1>3. x - 1 \in Nat /\ x - 1 \in S
  BY <1>1, <1>2
<1> QED BY <1>3

\* A list with no first block has none.
LEMMA ListEmpty ==
  ASSUME NEW F, NEW nx, Null \notin F, IsList(Null, F, nx)
  PROVE  F = {}
<1>1. {Null} \in SUBSET (F \cup {Null}) /\ {Null} \cap F = {}
  OBVIOUS
<1>2. F \cup {Null} = {Null}
  BY Zenon, <1>1 DEF IsList
<1> QED BY <1>2

\* Words off the list can be written.
LEMMA ListFrame ==
  ASSUME NEW h, NEW F, NEW nx, NEW ny, IsList(h, F, nx),
         \A b \in F : ny[b] = nx[b]
  PROVE  IsList(h, F, ny)
<1>1. ASSUME NEW S \in SUBSET (F \cup {Null}), h \in S,
             \A b \in S \cap F : ny[b] \in S
      PROVE  F \cup {Null} = S
  <2>1. \A b \in S \cap F : nx[b] \in S
    BY <1>1
  <2> QED BY <1>1, <2>1 DEF IsList
<1>2. /\ h \in F \cup {Null}
      /\ \A b \in F : ny[b] \in (F \cup {Null}) \ {h}
      /\ \A a, b \in F : ny[a] = ny[b] => a = b
  BY DEF IsList
<1> QED BY <1>1, <1>2 DEF IsList

\* The rest of Allocate: the list goes on behind its first block.
LEMMA ListPop ==
  ASSUME NEW h, NEW F, NEW nx, Null \notin F, IsList(h, F, nx), h # Null
  PROVE  IsList(nx[h], F \ {h}, nx)
<1>1. h \in F /\ nx[h] \in (F \ {h}) \cup {Null}
  BY DEF IsList
<1>2. \A b \in F \ {h} : nx[b] \in ((F \ {h}) \cup {Null}) \ {nx[h]}
  BY <1>1 DEF IsList
<1>3. \A a, b \in F \ {h} : nx[a] = nx[b] => a = b
  BY DEF IsList
<1>4. ASSUME NEW S \in SUBSET ((F \ {h}) \cup {Null}), nx[h] \in S,
             \A b \in S \cap (F \ {h}) : nx[b] \in S
      PROVE  (F \ {h}) \cup {Null} = S
  <2>1. S \cup {h} \in SUBSET (F \cup {Null}) /\ h \in S \cup {h}
    BY <1>1
  <2>2. \A b \in (S \cup {h}) \cap F : nx[b] \in S \cup {h}
    BY <1>4
  <2>3. F \cup {Null} = S \cup {h}
    BY Zenon, <2>1, <2>2 DEF IsList
  <2>4. h \notin S
    BY <1>1, <1>4
  <2> QED BY <2>3, <2>4
<1> QED BY <1>1, <1>2, <1>3, <1>4 DEF IsList

\* Deallocate: a block linked to the first becomes the first.
LEMMA ListPush ==
  ASSUME NEW h, NEW F, NEW nx, NEW b, Null \notin F, IsList(h, F, nx),
         b \notin F, b # Null, nx[b] = h
  PROVE  IsList(b, F \cup {b}, nx)
<1>1. \A a \in F \cup {b} : nx[a] \in ((F \cup {b}) \cup {Null}) \ {b}
  BY DEF IsList
<1>2. \A a, c \in F \cup {b} : nx[a] = nx[c] => a = c
  BY DEF IsList
<1>3. ASSUME NEW S \in SUBSET ((F \cup {b}) \cup {Null}), b \in S,
             \A a \in S \cap (F \cup {b}) : nx[a] \in S
      PROVE  (F \cup {b}) \cup {Null} = S
  <2>1. S \ {b} \in SUBSET (F \cup {Null})
    BY <1>3
  <2>2. h \in S \ {b}
    BY <1>3 DEF IsList
  <2>3. \A a \in (S \ {b}) \cap F : nx[a] \in S \ {b}
    BY <1>3 DEF IsList
  <2>4. F \cup {Null} = S \ {b}
    BY Zenon, <2>1, <2>2, <2>3 DEF IsList
  <2> QED BY <1>3, <2>4
<1> QED BY <1>1, <1>2, <1>3 DEF IsList

\* Allocate on an empty list: the n blocks of a malloc, linked from the last
\* to the first.
LEMMA ListGrown ==
  ASSUME NEW k \in Nat \ {0}, NEW n \in Nat \ {0}, NEW nx,
         NEW F, F = {k} \X (1..n),
         nx[<<k, 1>>] = Null,
         \A i \in 2..n : nx[<<k, i>>] = <<k, i - 1>>
  PROVE  IsList(<<k, n>>, F, nx)
<1>1. \A i \in 1..n : <<k, i>> \in F
  OBVIOUS
<1>2. \A b \in F : \E i \in 1..n : b = <<k, i>>
  OBVIOUS
<1>3. \A i \in Nat : <<k, i>> # Null
  BY DEF Null
<1>4. \A b \in F : nx[b] \in (F \cup {Null}) \ {<<k, n>>}
  <2> SUFFICES ASSUME NEW b \in F
               PROVE  nx[b] \in (F \cup {Null}) \ {<<k, n>>}
    OBVIOUS
  <2>1. PICK i \in 1..n : b = <<k, i>>
    BY <1>2
  <2>2. CASE i = 1
    BY <2>1, <2>2, <1>3
  <2>3. CASE i # 1
    <3>1. i \in 2..n /\ i - 1 \in 1..n /\ i - 1 # n
      BY <2>3
    <3>2. <<k, i - 1>> \in F /\ <<k, i - 1>> # <<k, n>>
      BY <3>1, <1>1
    <3> QED BY <3>1, <3>2, <2>1
  <2> QED BY <2>2, <2>3
<1>5. \A a, b \in F : nx[a] = nx[b] => a = b
  <2> SUFFICES ASSUME NEW a \in F, NEW b \in F, nx[a] = nx[b] PROVE a = b
    OBVIOUS
  <2>1. PICK i \in 1..n : a = <<k, i>>
    BY <1>2
  <2>2. PICK j \in 1..n : b = <<k, j>>
    BY <1>2
  <2>3. CASE i = 1 \/ j = 1
    <3>1. i # 1 => i \in 2..n /\ i - 1 \in Nat
      OBVIOUS
    <3>2. j # 1 => j \in 2..n /\ j - 1 \in Nat
      OBVIOUS
    <3>3. i # 1 => nx[a] # Null
      BY <3>1, <2>1, <1>3
    <3>4. j # 1 => nx[b] # Null
      BY <3>2, <2>2, <1>3
    <3>5. i = 1 /\ j = 1
      BY <3>3, <3>4, <2>1, <2>2, <2>3
    <3> QED BY <3>5, <2>1, <2>2
  <2>4. CASE i # 1 /\ j # 1
    <3>1. i \in 2..n /\ j \in 2..n
      BY <2>4
    <3>2. <<k, i - 1>> = <<k, j - 1>>
      BY <3>1, <2>1, <2>2
    <3>3. i - 1 = j - 1
      BY <3>2
    <3> QED BY <3>1, <3>3, <2>1, <2>2
  <2> QED BY <2>3, <2>4
<1>6. ASSUME NEW S \in SUBSET (F \cup {Null}), <<k, n>> \in S,
             \A b \in S \cap F : nx[b] \in S
      PROVE  F \cup {Null} = S
  <2> DEFINE T == {i \in Nat : i < n => <<k, n - i>> \in S}
  <2>1. 0 \in T
    <3>1. n - 0 = n
      OBVIOUS
    <3> QED BY <1>6, <3>1
  <2>2. ASSUME NEW i \in Nat, i \in T PROVE i + 1 \in T
    <3> SUFFICES ASSUME i + 1 < n PROVE <<k, n - (i + 1)>> \in S
      OBVIOUS
    <3>1. n - i \in 2..n /\ (n - i) - 1 = n - (i + 1) /\ i < n
      OBVIOUS
    <3>2. <<k, n - i>> \in S \cap F
      BY <2>2, <3>1, <1>1
    <3>3. nx[<<k, n - i>>] = <<k, (n - i) - 1>>
      BY <3>1
    <3> QED BY <3>1, <3>2, <3>3, <1>6
  <2>3. Nat \subseteq T
    <3> HIDE DEF T
    <3> QED BY <2>1, <2>2, Induct
  <2>4. \A i \in 1..n : <<k, i>> \in S
    <3> SUFFICES ASSUME NEW i \in 1..n PROVE <<k, i>> \in S
      OBVIOUS
    <3>1. n - i \in Nat /\ n - i < n /\ n - (n - i) = i
      OBVIOUS
    <3>2. n - i \in T
      BY <2>3, <3>1
    <3> QED BY <3>1, <3>2
  <2>5. F \subseteq S
    BY <2>4, <1>2
  <2>6. Null \in S
    <3>1. 1 \in 1..n
      OBVIOUS
    <3>2. <<k, 1>> \in S \cap F
      BY <3>1, <2>4, <1>1
    <3> QED BY <3>2, <1>6
  <2> QED BY <2>5, <2>6
<1>7. <<k, n>> \in F
  OBVIOUS
<1> QED BY <1>4, <1>5, <1>6, <1>7 DEF IsList

-----------------------------------------------------------------------------
\* The words of the pool.

BlocksOf(m) == {n \in Nodes(m) : n[2] # 0}
Shape == malloc_time_ \in Nat /\ DOMAIN memory = Nodes(malloc_time_)
AllBlocks == Blocks = BlocksOf(malloc_time_)

LEMMA Constants == kInitialMallocSize \in Nat \ {0} /\ None \notin Threads
BY PoolAssumption

\* Blocks, which reads the domain of memory, is all words but the headers.
LEMMA BlocksAre == Shape => AllBlocks
<1> SUFFICES ASSUME Shape PROVE Blocks = BlocksOf(malloc_time_)
  BY DEF AllBlocks
<1>1. malloc_time_ \in Nat /\ DOMAIN memory = Nodes(malloc_time_)
  BY DEF Shape
<1> DEFINE A == {<<k, i>> : k \in 1..malloc_time_, i \in 1..Size(malloc_time_)}
<1>2. ASSUME NEW n \in BlocksOf(malloc_time_) PROVE n \in A
  <2>1. n \in (1..malloc_time_) \X Nat /\ n[2] <= Size(n[1]) /\ n[2] # 0
    BY DEF BlocksOf, Nodes
  <2>2. PICK k \in 1..malloc_time_, i \in Nat : n = <<k, i>>
    BY <2>1
  <2>3. i <= Size(k) /\ i # 0
    BY <2>1, <2>2
  <2>4. i \in 1..Size(malloc_time_)
    BY <2>3, <1>1, Constants DEF Size
  <2> QED BY <2>2, <2>4
<1>3. \A n \in A : n[2] # 0
  OBVIOUS
<1>4. Blocks = A \cap Nodes(malloc_time_)
  BY <1>1 DEF Blocks
<1> HIDE DEF A
<1> QED BY <1>2, <1>3, <1>4 DEF BlocksOf

\* Null and the headers are no blocks.
LEMMA Words ==
  TypeOK => /\ Null \notin DOMAIN memory /\ Null \notin Blocks
            /\ Blocks \subseteq DOMAIN memory
            /\ \A k \in 1..malloc_time_ :
                 Header(k) \in DOMAIN memory /\ Header(k) \notin Blocks
<1> SUFFICES ASSUME TypeOK
             PROVE  /\ Null \notin DOMAIN memory /\ Null \notin Blocks
                    /\ Blocks \subseteq DOMAIN memory
                    /\ \A k \in 1..malloc_time_ :
                         Header(k) \in DOMAIN memory /\ Header(k) \notin Blocks
  OBVIOUS
<1>1. malloc_time_ \in Nat /\ DOMAIN memory = Nodes(malloc_time_)
  BY DEF TypeOK
<1>2. Blocks = BlocksOf(malloc_time_)
  BY <1>1, BlocksAre DEF Shape, AllBlocks
<1>3. Null \notin Nodes(malloc_time_)
  BY DEF Null, Nodes
<1>4. ASSUME NEW k \in 1..malloc_time_
      PROVE  Header(k) \in Nodes(malloc_time_) /\ Header(k)[2] = 0
  BY <1>1, Constants DEF Header, Nodes, Size
<1> QED BY <1>1, <1>2, <1>3, <1>4 DEF BlocksOf

\* A step that neither mallocs nor writes the headers.
LEMMA SameBlocks ==
  ASSUME malloc_time_' = malloc_time_, DOMAIN memory' = DOMAIN memory
  PROVE  Blocks' = Blocks
BY DEF Blocks, Size

\* The steps that leave the pool's own words alone.
LEMMA MallocsFrame ==
  ASSUME Mallocs, UNCHANGED <<list_head_, malloc_time_, freed>>,
         \A k \in 1..malloc_time_ : memory'[Header(k)] = memory[Header(k)],
         freed = {}
  PROVE  Mallocs'
BY DEF Mallocs, Header

\* A thread under the lock finds nothing returned yet.
LEMMA NothingFreed ==
  ASSUME Mallocs, NEW t \in Threads, pc[t] # "idle"
  PROVE  freed = {}
BY DEF Mallocs

\* One thread goes from a place to another.
LEMMA MoveExclusion ==
  ASSUME Exclusion, pc \in [Threads -> Inside \cup {"idle", "new", "delete"}],
         NEW t \in Threads, NEW p,
         pc' = [pc EXCEPT ![t] = p], value_' = value_,
         p \in Inside => pc[t] \in Inside
  PROVE  Exclusion'
BY DEF Exclusion

\* As long as the blocks and their owners are the same, so are the free ones.
LEMMA FreeFrame ==
  ASSUME FreeLinked, TypeOK, Blocks' = Blocks, Owned' = Owned,
         free_list_head_' = free_list_head_,
         DOMAIN memory' = DOMAIN memory,
         \A b \in Free : memory'[b] = memory[b]
  PROVE  FreeLinked'
<1>1. Free' = Free /\ Free \subseteq DOMAIN memory
  BY Words DEF Free
<1>2. PICK h, F, nx : h = free_list_head_ /\ F = Free /\ nx = Links
  OBVIOUS
<1>3. PICK ny : ny = Links'
  OBVIOUS
<1>4. \A b \in F : ny[b] = nx[b]
  BY <1>1, <1>2, <1>3 DEF Links
<1>5. IsList(h, F, ny)
  BY <1>2, <1>4, ListFrame DEF FreeLinked
<1> QED BY <1>1, <1>2, <1>3, <1>5 DEF FreeLinked

-----------------------------------------------------------------------------
\* One lemma per action: it preserves the inductive invariant.

LEMMA InitInvariant == Init => IInv
<1> SUFFICES ASSUME Init PROVE IInv
  OBVIOUS
<1>1. Nodes(0) = {} /\ DOMAIN memory = {} /\ malloc_time_ = 0
  BY DEF Init, Nodes
<1>2. Blocks = {}
  BY <1>1 DEF Blocks
<1>3. TypeOK
  BY <1>1, <1>2 DEF Init, TypeOK, Inside
<1>4. Exclusion /\ Hands /\ Apart /\ ObjectsIntact
  BY DEF Init, Exclusion, Hands, Apart, ObjectsIntact, Inside, InHand
<1>5. Free = {} /\ free_list_head_ = Null
  BY <1>2 DEF Init, Free
<1>6. FreeLinked
  BY <1>5 DEF FreeLinked, IsList
<1>7. Mallocs
  <2>1. list_head_ = Header(0)
    BY DEF Init, Header, Null
  <2>2. freed = {Header(k) : k \in 1..0}
    BY DEF Init
  <2> QED BY <1>1, <2>1, <2>2 DEF Init, Mallocs
<1> QED BY <1>3, <1>4, <1>6, <1>7 DEF IInv

LEMMA CreateInvariant ==
  ASSUME IInv, NEW t \in Threads, Create(t)
  PROVE  IInv'
<1>a. /\ pc[t] = "idle" /\ pc' = [pc EXCEPT ![t] = "new"] /\ freed = {}
      /\ UNCHANGED <<value_, free_list_head_, list_head_, malloc_time_,
                     memory, freed, block, objects>>
  BY DEF Create, Go, poolVars
<1>b. TypeOK /\ Exclusion /\ Hands /\ Apart /\ FreeLinked /\ Mallocs
      /\ ObjectsIntact
  BY DEF IInv
<1>c. pc \in [Threads -> Inside \cup {"idle", "new", "delete"}]
  BY <1>b DEF TypeOK
<1>d. Blocks' = Blocks /\ Held' = Held
  BY <1>a, SameBlocks DEF Held
<1>1. TypeOK'
  BY <1>a, <1>b, <1>d DEF TypeOK
<1>2. Exclusion'
  BY Zenon, <1>a, <1>b, <1>c, MoveExclusion DEF Inside
<1>3. Hands'
  BY <1>a, <1>b, <1>c, <1>d DEF Hands, InHand
<1>4. Apart'
  BY <1>a, <1>b, <1>c DEF Apart, InHand
<1>5. Owned' = Owned
  BY <1>a, <1>c, <1>d DEF Owned, InHand
<1>6. FreeLinked'
  BY <1>a, <1>b, <1>d, <1>5, FreeFrame
<1>7. Mallocs'
  BY <1>a, <1>b, MallocsFrame
<1>8. ObjectsIntact'
  BY <1>a, <1>b DEF ObjectsIntact
<1> QED BY <1>1, <1>2, <1>3, <1>4, <1>6, <1>7, <1>8 DEF IInv

LEMMA DestroyInvariant ==
  ASSUME IInv, NEW t \in Threads, NEW b \in objects[t], Destroy(t, b)
  PROVE  IInv'
<1>a. /\ pc[t] = "idle" /\ pc' = [pc EXCEPT ![t] = "delete"] /\ freed = {}
      /\ objects' = [objects EXCEPT ![t] = @ \ {b}]
      /\ block' = [block EXCEPT ![t] = b]
      /\ UNCHANGED <<value_, free_list_head_, list_head_, malloc_time_,
                     memory, freed>>
  BY DEF Destroy, Go, poolVars
<1>b. TypeOK /\ Exclusion /\ Hands /\ Apart /\ FreeLinked /\ Mallocs
      /\ ObjectsIntact
  BY DEF IInv
<1>c. /\ pc \in [Threads -> Inside \cup {"idle", "new", "delete"}]
      /\ block \in [Threads -> Blocks \cup {Null}]
      /\ objects \in [Threads -> SUBSET Blocks]
  BY <1>b DEF TypeOK
<1>d. Blocks' = Blocks
  BY <1>a, SameBlocks
<1>e. b \in Blocks /\ Held' = Held \ {b}
  BY <1>a, <1>b, <1>c DEF Held, Apart
<1>1. TypeOK'
  BY <1>a, <1>b, <1>c, <1>d, <1>e DEF TypeOK
<1>2. Exclusion'
  BY Zenon, <1>a, <1>b, <1>c, MoveExclusion DEF Inside
<1>3. Hands'
  BY <1>a, <1>b, <1>c, <1>d, <1>e DEF Hands, InHand
<1>4. Apart'
  <2>1. \A u \in Threads : pc[u] \in InHand => block[u] # b
    BY <1>b, <1>c DEF Hands, Held
  <2> QED BY <2>1, <1>a, <1>b, <1>c DEF Apart, InHand
<1>5. Owned' = Owned
  <2>1. b \in Held
    BY DEF Held
  <2>2. {block[u] : u \in {v \in Threads : pc[v] \in InHand}}'
          = {block[u] : u \in {v \in Threads : pc[v] \in InHand}} \cup {b}
    BY <1>a, <1>c DEF InHand
  <2> QED BY <2>1, <2>2, <1>e DEF Owned
<1>6. FreeLinked'
  BY <1>a, <1>b, <1>d, <1>5, FreeFrame
<1>7. Mallocs'
  BY <1>a, <1>b, MallocsFrame
<1>8. ObjectsIntact'
  BY <1>a, <1>b, <1>c DEF ObjectsIntact, Object
<1> QED BY <1>1, <1>2, <1>3, <1>4, <1>6, <1>7, <1>8 DEF IInv

LEMMA LockInvariant ==
  ASSUME IInv, NEW t \in Threads, Lock(t)
  PROVE  IInv'
<1>a. /\ pc[t] \in {"new", "delete"} /\ value_ /\ value_' = FALSE
      /\ pc' = [pc EXCEPT ![t] = IF pc[t] = "new" THEN "allocate"
                                                  ELSE "destruct"]
      /\ UNCHANGED <<free_list_head_, list_head_, malloc_time_, memory,
                     freed, block, objects>>
  BY DEF Lock, Take, Go, poolVars
<1>b. TypeOK /\ Exclusion /\ Hands /\ Apart /\ FreeLinked /\ Mallocs
      /\ ObjectsIntact
  BY DEF IInv
<1>c. pc \in [Threads -> Inside \cup {"idle", "new", "delete"}]
  BY <1>b DEF TypeOK
<1>d. Blocks' = Blocks /\ Held' = Held
  BY <1>a, SameBlocks DEF Held
<1>1. TypeOK'
  BY Zenon, <1>a, <1>b, <1>d DEF TypeOK, Inside
<1>2. Exclusion'
  <2>1. \A u \in Threads : pc[u] \notin Inside
    BY <1>a, <1>b DEF Exclusion
  <2>2. \A u \in Threads : u # t => pc'[u] = pc[u]
    BY <1>a, <1>c
  <2> QED BY <2>1, <2>2, <1>a DEF Exclusion
<1>3. Hands'
  BY <1>a, <1>b, <1>c, <1>d DEF Hands, InHand
<1>4. Apart'
  BY <1>a, <1>b, <1>c DEF Apart, InHand
<1>5. Owned' = Owned
  <2>1. \A u \in Threads : pc'[u] \in InHand <=> pc[u] \in InHand
    BY <1>a, <1>c DEF InHand
  <2> QED BY <2>1, <1>a, <1>d DEF Owned
<1>6. FreeLinked'
  BY <1>a, <1>b, <1>d, <1>5, FreeFrame
<1>7. Mallocs'
  BY <1>a, <1>b, MallocsFrame, NothingFreed
<1>8. ObjectsIntact'
  BY <1>a, <1>b DEF ObjectsIntact
<1> QED BY <1>1, <1>2, <1>3, <1>4, <1>6, <1>7, <1>8 DEF IInv

LEMMA ReadHeadInvariant ==
  ASSUME IInv, NEW t \in Threads, ReadHead(t)
  PROVE  IInv'
<1>a. /\ pc[t] = "allocate" /\ pc' = [pc EXCEPT ![t] = "pop"]
      /\ free_list_head_ # Null
      /\ block' = [block EXCEPT ![t] = free_list_head_]
      /\ UNCHANGED <<value_, free_list_head_, list_head_, malloc_time_,
                     memory, freed, objects>>
  BY DEF ReadHead, Go, poolVars
<1>b. TypeOK /\ Exclusion /\ Hands /\ Apart /\ FreeLinked /\ Mallocs
      /\ ObjectsIntact
  BY DEF IInv
<1>c. /\ pc \in [Threads -> Inside \cup {"idle", "new", "delete"}]
      /\ block \in [Threads -> Blocks \cup {Null}]
  BY <1>b DEF TypeOK
<1>d. Blocks' = Blocks /\ Held' = Held
  BY <1>a, SameBlocks DEF Held
<1>e. free_list_head_ \in Blocks
  BY <1>a, <1>b DEF FreeLinked, IsList, Free
<1>1. TypeOK'
  BY <1>a, <1>b, <1>c, <1>d, <1>e DEF TypeOK, Inside
<1>2. Exclusion'
  BY Zenon, <1>a, <1>b, <1>c, MoveExclusion DEF Inside
<1>3. Hands'
  BY <1>a, <1>b, <1>c, <1>d DEF Hands, InHand
<1>4. Apart'
  BY <1>a, <1>b, <1>c DEF Apart, InHand
<1>5. Owned' = Owned
  <2>1. \A u \in Threads : pc'[u] \in InHand <=> pc[u] \in InHand
    BY <1>a, <1>c DEF InHand
  <2>2. \A u \in Threads : pc[u] \in InHand => block'[u] = block[u]
    BY <1>a, <1>c DEF InHand
  <2> QED BY <2>1, <2>2, <1>d DEF Owned
<1>6. FreeLinked'
  BY <1>a, <1>b, <1>d, <1>5, FreeFrame
<1>7. Mallocs'
  BY <1>a, <1>b, MallocsFrame, NothingFreed
<1>8. ObjectsIntact'
  BY <1>a, <1>b DEF ObjectsIntact
<1> QED BY <1>1, <1>2, <1>3, <1>4, <1>6, <1>7, <1>8 DEF IInv

LEMMA PopInvariant ==
  ASSUME IInv, NEW t \in Threads, Pop(t)
  PROVE  IInv'
<1>a. /\ pc[t] = "pop" /\ pc' = [pc EXCEPT ![t] = "construct"]
      /\ free_list_head_' = memory[free_list_head_].next_node_
      /\ UNCHANGED <<value_, list_head_, malloc_time_, memory, freed, block,
                     objects>>
  BY DEF Pop, Go
<1>b. TypeOK /\ Exclusion /\ Hands /\ Apart /\ FreeLinked /\ Mallocs
      /\ ObjectsIntact
  BY DEF IInv
<1>c. /\ pc \in [Threads -> Inside \cup {"idle", "new", "delete"}]
      /\ Blocks \subseteq DOMAIN memory /\ Null \notin Blocks
  BY <1>b, Words DEF TypeOK
<1>d. Blocks' = Blocks /\ Held' = Held
  BY <1>a, SameBlocks DEF Held
<1>e. /\ block[t] = free_list_head_ /\ free_list_head_ # Null
      /\ free_list_head_ \in Free
  BY <1>a, <1>b DEF Hands, FreeLinked, IsList
<1>f. \A u \in Threads : u # t => pc'[u] = pc[u] /\ pc[u] \notin Inside
  BY <1>a, <1>b, <1>c DEF Exclusion, Inside
<1>1. TypeOK'
  BY <1>a, <1>b, <1>d DEF TypeOK, Inside
<1>2. Exclusion'
  BY Zenon, <1>a, <1>b, <1>c, MoveExclusion DEF Inside
<1>3. Hands'
  BY <1>a, <1>b, <1>c, <1>d, <1>e, <1>f DEF Hands, InHand, Inside, Free, Owned
<1>4. Apart'
  <2>1. \A u \in Threads : pc[u] \in InHand => block[u] # block[t]
    BY <1>e DEF Free, Owned
  <2> QED BY <2>1, <1>a, <1>b, <1>c DEF Apart, InHand
<1>5. Free' = Free \ {free_list_head_}
  <2>1. \A u \in Threads : pc'[u] \in InHand <=> pc[u] \in InHand \/ u = t
    BY <1>a, <1>c DEF InHand
  <2>2. Owned' = Owned \cup {free_list_head_}
    BY <2>1, <1>a, <1>d, <1>e DEF Owned
  <2> QED BY <2>2, <1>d DEF Free
<1>6. FreeLinked'
  <2>1. PICK h, F, nx : h = free_list_head_ /\ F = Free /\ nx = Links
    OBVIOUS
  <2>2. Links' = nx /\ free_list_head_' = nx[h]
    BY <2>1, <1>a, <1>c, <1>e DEF Links, Free
  <2>3. IsList(nx[h], F \ {h}, nx)
    BY <2>1, <1>b, <1>c, <1>e, ListPop DEF FreeLinked, Free
  <2> QED BY <2>1, <2>2, <2>3, <1>5 DEF FreeLinked
<1>7. Mallocs'
  BY <1>a, <1>b, MallocsFrame, NothingFreed
<1>8. ObjectsIntact'
  BY <1>a, <1>b DEF ObjectsIntact
<1> QED BY <1>1, <1>2, <1>3, <1>4, <1>6, <1>7, <1>8 DEF IInv

LEMMA ConstructInvariant ==
  ASSUME IInv, NEW t \in Threads, Construct(t)
  PROVE  IInv'
<1>a. /\ pc[t] = "construct" /\ pc' = [pc EXCEPT ![t] = "unlock"]
      /\ memory' = [memory EXCEPT ![block[t]] = Object(t)]
      /\ objects' = [objects EXCEPT ![t] = @ \cup {block[t]}]
      /\ UNCHANGED <<value_, free_list_head_, list_head_, malloc_time_,
                     freed, block>>
  BY DEF Construct, Go
<1>b. TypeOK /\ Exclusion /\ Hands /\ Apart /\ FreeLinked /\ Mallocs
      /\ ObjectsIntact
  BY DEF IInv
<1>c. /\ pc \in [Threads -> Inside \cup {"idle", "new", "delete"}]
      /\ block \in [Threads -> Blocks \cup {Null}]
      /\ objects \in [Threads -> SUBSET Blocks]
      /\ Blocks \subseteq DOMAIN memory
  BY <1>b, Words DEF TypeOK
<1>d. Blocks' = Blocks /\ DOMAIN memory' = DOMAIN memory
  BY <1>a, SameBlocks
<1>e. block[t] \in Blocks \ Held
  BY <1>a, <1>b DEF Hands, InHand
<1>f. Held' = Held \cup {block[t]}
  BY <1>a, <1>c DEF Held
<1>g. \A u \in Threads : u # t => pc'[u] = pc[u] /\ pc[u] \notin Inside
  BY <1>a, <1>b, <1>c DEF Exclusion, Inside
<1>h. \A u \in Threads : u # t /\ pc[u] \in InHand => block[u] # block[t]
  BY <1>a, <1>b DEF Apart, InHand
<1>1. TypeOK'
  <2>1. Object(t) \in [next_node_ : Nodes(malloc_time_) \cup {Null},
                       object : Threads \cup {None}]
    BY DEF Object
  <2>2. memory' \in [Nodes(malloc_time_) ->
                       [next_node_ : Nodes(malloc_time_) \cup {Null},
                        object : Threads \cup {None}]]
    BY Zenon, <2>1, <1>a, <1>b DEF TypeOK
  <2>3. objects' \in [Threads -> SUBSET Blocks]
    BY <1>a, <1>c, <1>e
  <2>4. pc' \in [Threads -> Inside \cup {"idle", "new", "delete"}]
    BY <1>a, <1>c DEF Inside
  <2> QED BY <2>2, <2>3, <2>4, <1>a, <1>b, <1>d DEF TypeOK
<1>2. Exclusion'
  BY Zenon, <1>a, <1>b, <1>c, MoveExclusion DEF Inside
<1>3. Hands'
  BY <1>a, <1>b, <1>c, <1>d, <1>f, <1>g, <1>h DEF Hands, InHand, Inside
<1>4. Apart'
  <2>1. \A u, v \in Threads : u # v => objects'[u] \cap objects'[v] = {}
    BY <1>a, <1>b, <1>c, <1>e DEF Apart, Held
  <2> QED BY <2>1, <1>a, <1>b, <1>c DEF Apart, InHand
<1>5. Owned' = Owned
  <2>1. \A u \in Threads : pc'[u] \in InHand <=> pc[u] \in InHand /\ u # t
    BY <1>a, <1>c DEF InHand
  <2>2. block[t] \in Owned
    BY <1>a DEF Owned, InHand
  <2> QED BY <2>1, <2>2, <1>a, <1>f DEF Owned
<1>6. FreeLinked'
  <2>1. block[t] \notin Free
    BY <1>a DEF Free, Owned, InHand
  <2>2. \A b \in Free : memory'[b] = memory[b]
    BY <2>1, <1>a, <1>c DEF Free
  <2> QED BY <2>2, <1>a, <1>b, <1>d, <1>5, FreeFrame
<1>7. Mallocs'
  <2>1. \A k \in 1..malloc_time_ : memory'[Header(k)] = memory[Header(k)]
    BY <1>a, <1>b, <1>e, Words
  <2> QED BY <2>1, <1>a, <1>b, MallocsFrame, NothingFreed
<1>8. ObjectsIntact'
  BY <1>a, <1>b, <1>c, <1>e DEF ObjectsIntact, Object, Held
<1> QED BY <1>1, <1>2, <1>3, <1>4, <1>6, <1>7, <1>8 DEF IInv

LEMMA LinkInvariant ==
  ASSUME IInv, NEW t \in Threads, Link(t)
  PROVE  IInv'
<1>a. /\ pc[t] = "destruct" /\ pc' = [pc EXCEPT ![t] = "push"]
      /\ memory' = [memory EXCEPT ![block[t]] = Pointer(free_list_head_)]
      /\ UNCHANGED <<value_, free_list_head_, list_head_, malloc_time_,
                     freed, block, objects>>
  BY DEF Link, Deallocate, Go
<1>b. TypeOK /\ Exclusion /\ Hands /\ Apart /\ FreeLinked /\ Mallocs
      /\ ObjectsIntact
  BY DEF IInv
<1>c. /\ pc \in [Threads -> Inside \cup {"idle", "new", "delete"}]
      /\ objects \in [Threads -> SUBSET Blocks]
      /\ Blocks \subseteq DOMAIN memory
  BY <1>b, Words DEF TypeOK
<1>d. Blocks' = Blocks /\ DOMAIN memory' = DOMAIN memory /\ Held' = Held
  BY <1>a, SameBlocks DEF Held
<1>e. block[t] \in Blocks \ Held
  BY <1>a, <1>b DEF Hands, InHand
<1>f. free_list_head_ \in Nodes(malloc_time_) \cup {Null}
  <2>1. free_list_head_ \in Blocks \cup {Null}
    BY <1>b DEF FreeLinked, IsList, Free
  <2>2. DOMAIN memory = Nodes(malloc_time_)
    BY <1>b DEF TypeOK
  <2> QED BY <2>1, <2>2, <1>c
<1>g. \A u \in Threads : u # t => pc'[u] = pc[u] /\ pc[u] \notin Inside
  BY <1>a, <1>b, <1>c DEF Exclusion, Inside
<1>1. TypeOK'
  <2>1. Pointer(free_list_head_)
          \in [next_node_ : Nodes(malloc_time_) \cup {Null},
               object : Threads \cup {None}]
    BY <1>f DEF Pointer
  <2>2. memory' \in [Nodes(malloc_time_) ->
                       [next_node_ : Nodes(malloc_time_) \cup {Null},
                        object : Threads \cup {None}]]
    BY Zenon, <2>1, <1>a, <1>b DEF TypeOK
  <2>3. pc' \in [Threads -> Inside \cup {"idle", "new", "delete"}]
    BY <1>a, <1>c DEF Inside
  <2> QED BY <2>2, <2>3, <1>a, <1>b, <1>d DEF TypeOK
<1>2. Exclusion'
  BY Zenon, <1>a, <1>b, <1>c, MoveExclusion DEF Inside
<1>3. Hands'
  <2>1. memory'[block[t]].next_node_ = free_list_head_
    BY <1>a, <1>c, <1>e DEF Pointer
  <2> QED BY <2>1, <1>a, <1>b, <1>c, <1>d, <1>g DEF Hands, InHand, Inside
<1>4. Apart'
  BY <1>a, <1>b, <1>c DEF Apart, InHand
<1>5. Owned' = Owned
  <2>1. \A u \in Threads : pc'[u] \in InHand <=> pc[u] \in InHand
    BY <1>a, <1>c DEF InHand
  <2> QED BY <2>1, <1>a, <1>d DEF Owned
<1>6. FreeLinked'
  <2>1. block[t] \notin Free
    BY <1>a DEF Free, Owned, InHand
  <2>2. \A b \in Free : memory'[b] = memory[b]
    BY <2>1, <1>a, <1>c DEF Free
  <2> QED BY <2>2, <1>a, <1>b, <1>d, <1>5, FreeFrame
<1>7. Mallocs'
  <2>1. \A k \in 1..malloc_time_ : memory'[Header(k)] = memory[Header(k)]
    BY <1>a, <1>b, <1>e, Words
  <2> QED BY <2>1, <1>a, <1>b, MallocsFrame, NothingFreed
<1>8. ObjectsIntact'
  BY <1>a, <1>b, <1>c, <1>e DEF ObjectsIntact, Object, Held
<1> QED BY <1>1, <1>2, <1>3, <1>4, <1>6, <1>7, <1>8 DEF IInv

LEMMA PushInvariant ==
  ASSUME IInv, NEW t \in Threads, Push(t)
  PROVE  IInv'
<1>a. /\ pc[t] = "push" /\ pc' = [pc EXCEPT ![t] = "unlock"]
      /\ free_list_head_' = block[t]
      /\ UNCHANGED <<value_, list_head_, malloc_time_, memory, freed, block,
                     objects>>
  BY DEF Push, Go
<1>b. TypeOK /\ Exclusion /\ Hands /\ Apart /\ FreeLinked /\ Mallocs
      /\ ObjectsIntact
  BY DEF IInv
<1>c. /\ pc \in [Threads -> Inside \cup {"idle", "new", "delete"}]
      /\ Blocks \subseteq DOMAIN memory /\ Null \notin Blocks
  BY <1>b, Words DEF TypeOK
<1>d. Blocks' = Blocks /\ Held' = Held
  BY <1>a, SameBlocks DEF Held
<1>e. /\ block[t] \in Blocks \ Held
      /\ memory[block[t]].next_node_ = free_list_head_
  BY <1>a, <1>b DEF Hands, InHand
<1>f. \A u \in Threads : u # t => pc'[u] = pc[u] /\ pc[u] \notin Inside
  BY <1>a, <1>b, <1>c DEF Exclusion, Inside
<1>g. \A u \in Threads : u # t /\ pc[u] \in InHand => block[u] # block[t]
  BY <1>a, <1>b DEF Apart, InHand
<1>1. TypeOK'
  BY <1>a, <1>b, <1>d DEF TypeOK, Inside
<1>2. Exclusion'
  BY Zenon, <1>a, <1>b, <1>c, MoveExclusion DEF Inside
<1>3. Hands'
  BY <1>a, <1>b, <1>c, <1>d, <1>f DEF Hands, InHand, Inside
<1>4. Apart'
  BY <1>a, <1>b, <1>c DEF Apart, InHand
<1>5. Free' = Free \cup {block[t]}
  <2>1. \A u \in Threads : pc'[u] \in InHand <=> pc[u] \in InHand /\ u # t
    BY <1>a, <1>c DEF InHand
  <2>2. Owned' = Owned \ {block[t]}
    BY <2>1, <1>a, <1>d, <1>e, <1>g DEF Owned
  <2> QED BY <2>2, <1>d, <1>e DEF Free
<1>6. FreeLinked'
  <2>1. PICK h, F, nx, b :
          h = free_list_head_ /\ F = Free /\ nx = Links /\ b = block[t]
    OBVIOUS
  <2>2. Links' = nx /\ nx[b] = h
    BY <2>1, <1>a, <1>c, <1>e DEF Links
  <2>3. b \notin F /\ b # Null /\ Null \notin F
    BY <2>1, <1>a, <1>c, <1>e DEF Free, Owned, InHand
  <2>4. IsList(h, F, nx)
    BY <2>1, <1>b DEF FreeLinked
  <2>5. IsList(b, F \cup {b}, nx)
    BY <2>2, <2>3, <2>4, ListPush
  <2> QED BY <2>1, <2>2, <2>5, <1>a, <1>5 DEF FreeLinked
<1>7. Mallocs'
  BY <1>a, <1>b, MallocsFrame, NothingFreed
<1>8. ObjectsIntact'
  BY <1>a, <1>b DEF ObjectsIntact
<1> QED BY <1>1, <1>2, <1>3, <1>4, <1>6, <1>7, <1>8 DEF IInv

LEMMA UnlockInvariant ==
  ASSUME IInv, NEW t \in Threads, Unlock(t)
  PROVE  IInv'
<1>a. /\ pc[t] = "unlock" /\ pc' = [pc EXCEPT ![t] = "idle"]
      /\ value_' = TRUE /\ block' = [block EXCEPT ![t] = Null]
      /\ UNCHANGED <<free_list_head_, list_head_, malloc_time_, memory,
                     freed, objects>>
  BY DEF Unlock, Go, poolVars
<1>b. TypeOK /\ Exclusion /\ Hands /\ Apart /\ FreeLinked /\ Mallocs
      /\ ObjectsIntact
  BY DEF IInv
<1>c. /\ pc \in [Threads -> Inside \cup {"idle", "new", "delete"}]
      /\ block \in [Threads -> Blocks \cup {Null}]
  BY <1>b DEF TypeOK
<1>d. Blocks' = Blocks /\ Held' = Held
  BY <1>a, SameBlocks DEF Held
<1>1. TypeOK'
  BY <1>a, <1>b, <1>c, <1>d DEF TypeOK
<1>2. Exclusion'
  BY <1>a, <1>b, <1>c DEF Exclusion, Inside
<1>3. Hands'
  BY <1>a, <1>b, <1>c, <1>d DEF Hands, InHand
<1>4. Apart'
  BY <1>a, <1>b, <1>c DEF Apart, InHand
<1>5. Owned' = Owned
  <2>1. \A u \in Threads : pc'[u] \in InHand <=> pc[u] \in InHand
    BY <1>a, <1>c DEF InHand
  <2>2. \A u \in Threads : pc[u] \in InHand => block'[u] = block[u]
    BY <1>a, <1>c DEF InHand
  <2> QED BY <2>1, <2>2, <1>d DEF Owned
<1>6. FreeLinked'
  BY <1>a, <1>b, <1>d, <1>5, FreeFrame
<1>7. Mallocs'
  BY <1>a, <1>b, MallocsFrame, NothingFreed
<1>8. ObjectsIntact'
  BY <1>a, <1>b DEF ObjectsIntact
<1> QED BY <1>1, <1>2, <1>3, <1>4, <1>6, <1>7, <1>8 DEF IInv

\* One malloc more: its header and its blocks.
LEMMA MoreNodes ==
  ASSUME NEW m \in Nat, NEW k, k = m + 1
  PROVE  /\ Nodes(k) = Nodes(m) \cup {<<k, i>> : i \in 0..Size(k)}
         /\ BlocksOf(k) = BlocksOf(m) \cup ({k} \X (1..Size(k)))
         /\ \A n \in Nodes(m) : n[1] # k
         /\ Nodes(m) \subseteq Nodes(k)
         /\ Size(k) \in Nat \ {0}
<1>1. Size(k) \in Nat \ {0}
  BY Constants DEF Size
<1>2. ASSUME NEW n PROVE n \in Nodes(k) <=> n \in Nodes(m)
                           \/ n \in {<<k, i>> : i \in 0..Size(k)}
  <2>1. CASE n \in (1..k) \X Nat
    <3>1. PICK j \in 1..k, i \in Nat : n = <<j, i>>
      BY <2>1
    <3>2. n \in Nodes(k) <=> i <= Size(j)
      BY <3>1 DEF Nodes
    <3>3. n \in Nodes(m) <=> j # k /\ i <= Size(j)
      BY <3>1 DEF Nodes
    <3>4. n \in {<<k, a>> : a \in 0..Size(k)} <=> j = k /\ i <= Size(j)
      BY <3>1, <1>1
    <3> QED BY <3>2, <3>3, <3>4
  <2>2. CASE n \notin (1..k) \X Nat
    <3>1. n \notin Nodes(k) /\ n \notin Nodes(m)
      BY <2>2 DEF Nodes
    <3>2. n \notin {<<k, a>> : a \in 0..Size(k)}
      BY <2>2, <1>1
    <3> QED BY <3>1, <3>2
  <2> QED BY <2>1, <2>2
<1>3. \A n \in {<<k, i>> : i \in 0..Size(k)} :
        n[2] # 0 <=> n \in {k} \X (1..Size(k))
  BY <1>1
<1>4. \A n \in {k} \X (1..Size(k)) : n \in {<<k, i>> : i \in 0..Size(k)}
  BY <1>1
<1>5. BlocksOf(k) = BlocksOf(m) \cup ({k} \X (1..Size(k)))
  BY <1>2, <1>3, <1>4 DEF BlocksOf
<1>6. \A n \in Nodes(m) : n[1] # k
  BY DEF Nodes
<1> QED BY <1>1, <1>2, <1>5, <1>6

LEMMA GrowInvariant ==
  ASSUME IInv, NEW t \in Threads, Grow(t)
  PROVE  IInv'
<1>k. PICK m, k : m = malloc_time_ /\ k = malloc_time_ + 1
  OBVIOUS
<1>a. /\ pc[t] = "allocate" /\ free_list_head_ = Null
      /\ memory' =
           [n \in DOMAIN memory \cup {<<k, i>> : i \in 0..Size(k)} |->
              IF n \in DOMAIN memory THEN memory[n]
              ELSE IF n = Header(k) THEN Pointer(list_head_)
              ELSE IF n[2] = 1 THEN Pointer(free_list_head_)
              ELSE Pointer(<<k, n[2] - 1>>)]
      /\ list_head_' = Header(k) /\ malloc_time_' = k
      /\ free_list_head_' = <<k, Size(k)>>
      /\ UNCHANGED <<value_, pc, block, objects, freed>>
  BY <1>k DEF Grow
<1>b. TypeOK /\ Exclusion /\ Hands /\ Apart /\ FreeLinked /\ Mallocs
      /\ ObjectsIntact
  BY DEF IInv
<1>c. /\ m \in Nat /\ DOMAIN memory = Nodes(m) /\ malloc_time_ = m
      /\ k = m + 1 /\ k \in Nat \ {0}
      /\ block \in [Threads -> Blocks \cup {Null}]
      /\ objects \in [Threads -> SUBSET Blocks]
      /\ memory \in [Nodes(m) -> [next_node_ : Nodes(m) \cup {Null},
                                  object : Threads \cup {None}]]
  BY <1>k, <1>b DEF TypeOK
<1>d. /\ Nodes(k) = Nodes(m) \cup {<<k, i>> : i \in 0..Size(k)}
      /\ BlocksOf(k) = BlocksOf(m) \cup ({k} \X (1..Size(k)))
      /\ \A n \in Nodes(m) : n[1] # k
      /\ Nodes(m) \subseteq Nodes(k)
      /\ Size(k) \in Nat \ {0}
  BY <1>c, MoreNodes
<1>e. DOMAIN memory' = Nodes(k) /\ \A n \in Nodes(m) : memory'[n] = memory[n]
  BY <1>a, <1>c, <1>d
<1>f. freed = {} /\ list_head_ = Header(m)
  <2>1. freed = {}
    BY Zenon, <1>a, <1>b, NothingFreed
  <2>2. PICK j \in 0..m : /\ list_head_ = Header(j)
                          /\ freed = {Header(i) : i \in (j + 1)..m}
    BY <1>b, <1>c DEF Mallocs
  <2>3. m \notin (j + 1)..m
    BY <2>1, <2>2
  <2>4. j = m
    BY <2>3, <1>c
  <2> QED BY <2>1, <2>2, <2>4
<1>g. /\ memory'[Header(k)] = Pointer(Header(m))
      /\ memory'[<<k, 1>>] = Pointer(Null)
      /\ \A i \in 2..Size(k) : memory'[<<k, i>>] = Pointer(<<k, i - 1>>)
  <2>1. \A i \in 0..Size(k) : <<k, i>> \notin DOMAIN memory
    BY <1>c, <1>d
  <2>2. 0 \in 0..Size(k) /\ 1 \in 0..Size(k)
    BY <1>d
  <2>3. memory'[Header(k)] = Pointer(Header(m))
    BY <2>1, <2>2, <1>a, <1>f DEF Header
  <2>4. memory'[<<k, 1>>] = Pointer(Null)
    BY <2>1, <2>2, <1>a DEF Header
  <2>5. ASSUME NEW i \in 2..Size(k)
        PROVE  memory'[<<k, i>>] = Pointer(<<k, i - 1>>)
    <3>1. i \in 0..Size(k) /\ i # 0 /\ i # 1
      BY <1>d
    <3> QED BY <3>1, <2>1, <1>a DEF Header
  <2> QED BY <2>3, <2>4, <2>5
<1>h. Blocks = BlocksOf(m) /\ Blocks' = BlocksOf(k)
  <2>1. Shape /\ Shape'
    BY <1>a, <1>c, <1>e DEF Shape
  <2>2. AllBlocks /\ AllBlocks'
    BY <2>1, BlocksAre, PTL
  <2> QED BY <2>2, <1>a, <1>c DEF AllBlocks
<1>i. Held' = Held /\ Owned' = Owned
  BY <1>a DEF Held, Owned
<1>j. Null \notin Blocks
  BY <1>b, Words
<1>l. Free' = {k} \X (1..Size(k))
  <2>1. Free = {}
    <3>1. PICK F, nx : F = Free /\ nx = Links
      OBVIOUS
    <3>2. IsList(Null, F, nx) /\ Null \notin F
      BY <3>1, <1>a, <1>b, <1>j DEF FreeLinked, Free
    <3> QED BY <3>1, <3>2, ListEmpty
  <2>2. Owned \subseteq Blocks
    BY <1>b, <1>c DEF Owned, Held, Hands
  <2>3. Blocks = Owned
    BY <2>1, <2>2 DEF Free
  <2>4. \A n \in {k} \X (1..Size(k)) : n \notin Blocks
    BY <1>d, <1>h DEF BlocksOf
  <2> QED BY Zenon, <2>3, <2>4, <1>d, <1>h, <1>i DEF Free
<1>1. TypeOK'
  <2> DEFINE W == [next_node_ : Nodes(k) \cup {Null},
                   object : Threads \cup {None}]
  <2>1. ASSUME NEW n \in Nodes(k) PROVE memory'[n] \in W
    <3>1. CASE n \in Nodes(m)
      BY <3>1, <1>c, <1>d, <1>e
    <3>2. CASE n \notin Nodes(m)
      <4>1. PICK i \in 0..Size(k) : n = <<k, i>>
        BY <3>2, <1>d
      <4>2. ASSUME NEW x \in Nodes(k) \cup {Null} PROVE Pointer(x) \in W
        BY DEF Pointer
      <4>3. CASE i = 0
        <5>1. Header(m) \in Nodes(k) \cup {Null}
          <6>1. CASE m = 0
            BY <6>1 DEF Header, Null
          <6>2. CASE m # 0
            BY <6>2, <1>b, <1>c, <1>d, Words
          <6> QED BY <6>1, <6>2
        <5> QED BY <5>1, <4>1, <4>2, <4>3, <1>g DEF Header
      <4>4. CASE i = 1
        BY <4>1, <4>2, <4>4, <1>g
      <4>5. CASE i # 0 /\ i # 1
        <5>1. i \in 2..Size(k) /\ i - 1 \in 0..Size(k)
          BY <4>5, <1>d
        <5>2. <<k, i - 1>> \in Nodes(k)
          BY <5>1, <1>d
        <5> QED BY <5>1, <5>2, <4>1, <4>2, <1>g
      <4> QED BY <4>3, <4>4, <4>5
    <3> QED BY <3>1, <3>2
  <2>2. memory' \in [Nodes(k) -> W]
    BY Zenon, <2>1, <1>a, <1>c, <1>d
  <2>3. Blocks \subseteq Blocks'
    BY <1>d, <1>h
  <2>4. /\ block' \in [Threads -> Blocks' \cup {Null}]
        /\ objects' \in [Threads -> SUBSET (Blocks')]
    BY <2>3, <1>a, <1>c
  <2> QED BY Zenon, <2>2, <2>4, <1>a, <1>b, <1>c DEF TypeOK
<1>2. Exclusion'
  BY <1>a, <1>b DEF Exclusion
<1>3. Hands'
  <2>1. Blocks \subseteq Blocks'
    BY <1>d, <1>h
  <2>2. \A u \in Threads : pc[u] \notin {"pop", "push"}
    BY <1>a, <1>b DEF Exclusion, Inside
  <2> QED BY <2>1, <2>2, <1>a, <1>b, <1>i DEF Hands
<1>4. Apart'
  BY <1>a, <1>b DEF Apart
<1>6. FreeLinked'
  <2>1. PICK h, F, nx, n : /\ h = free_list_head_' /\ F = Free' /\ nx = Links'
                           /\ n = Size(k)
    OBVIOUS
  <2>2. \A i \in 0..n : <<k, i>> \in DOMAIN memory'
    BY <2>1, <1>d, <1>e
  <2>3. nx[<<k, 1>>] = Null
    <3>1. 1 \in 0..n
      BY <2>1, <1>d
    <3> QED BY <3>1, <2>1, <2>2, <1>g DEF Links, Pointer
  <2>4. \A i \in 2..n : nx[<<k, i>>] = <<k, i - 1>>
    <3> SUFFICES ASSUME NEW i \in 2..n PROVE nx[<<k, i>>] = <<k, i - 1>>
      OBVIOUS
    <3>1. i \in 0..n
      BY <2>1, <1>d
    <3>2. <<k, i>> \in DOMAIN memory'
      BY <2>2, <3>1
    <3>3. memory'[<<k, i>>] = Pointer(<<k, i - 1>>)
      BY <2>1, <1>g
    <3> QED BY <2>1, <3>2, <3>3 DEF Links, Pointer
  <2>5. IsList(<<k, n>>, F, nx)
    BY <2>1, <2>3, <2>4, <1>c, <1>d, <1>l, ListGrown
  <2> QED BY <2>1, <2>5, <1>a DEF FreeLinked
<1>7. Mallocs'
  <2>1. k \in 0..k /\ freed' = {Header(i) : i \in (k + 1)..k}
    BY <1>a, <1>c, <1>f
  <2>2. ASSUME NEW j \in 1..k PROVE memory'[Header(j)].next_node_ = Header(j - 1)
    <3>1. CASE j = k
      BY <3>1, <1>c, <1>g DEF Pointer
    <3>2. CASE j # k
      <4>1. j \in 1..m
        BY <3>2, <1>c
      <4>2. Header(j) \in Nodes(m)
        BY <4>1, <1>b, <1>c, Words
      <4> QED BY <4>1, <4>2, <1>b, <1>c, <1>e DEF Mallocs
    <3> QED BY <3>1, <3>2
  <2> QED BY <2>1, <2>2, <1>a, <1>f DEF Mallocs
<1>8. ObjectsIntact'
  <2>1. Blocks \subseteq Nodes(m)
    BY <1>h DEF BlocksOf
  <2> QED BY <2>1, <1>a, <1>b, <1>c, <1>e DEF ObjectsIntact, Object
<1> QED BY <1>1, <1>2, <1>3, <1>4, <1>6, <1>7, <1>8 DEF IInv

LEMMA ReleaseInvariant ==
  ASSUME IInv, Release
  PROVE  IInv'
<1>a. /\ \A t \in Threads : pc[t] = "idle"
      /\ list_head_ # Null
      /\ freed' = freed \cup {list_head_}
      /\ list_head_' = memory[list_head_].next_node_
      /\ UNCHANGED <<value_, free_list_head_, malloc_time_, memory, pc,
                     block, objects>>
  BY DEF Release
<1>b. TypeOK /\ Exclusion /\ Hands /\ Apart /\ FreeLinked /\ Mallocs
      /\ ObjectsIntact
  BY DEF IInv
<1>c. Blocks' = Blocks /\ Held' = Held /\ Owned' = Owned
  BY <1>a, SameBlocks DEF Held, Owned
<1>1. TypeOK'
  BY <1>a, <1>b, <1>c DEF TypeOK
<1>2. Exclusion' /\ Apart' /\ ObjectsIntact'
  BY <1>a, <1>b DEF Exclusion, Apart, ObjectsIntact
<1>3. Hands'
  BY <1>a, <1>b, <1>c DEF Hands
<1>4. FreeLinked'
  BY <1>a, <1>b, <1>c, FreeFrame
<1>5. Mallocs'
  <2>1. malloc_time_ \in Nat
    BY <1>b DEF TypeOK
  <2>2. PICK j \in 0..malloc_time_ :
          /\ list_head_ = Header(j)
          /\ freed = {Header(k) : k \in (j + 1)..malloc_time_}
    BY <1>b DEF Mallocs
  <2>3. j \in 1..malloc_time_ /\ j - 1 \in 0..malloc_time_
    BY <2>1, <2>2, <1>a DEF Header, Null
  <2>4. list_head_' = Header(j - 1)
    BY Zenon, <2>2, <2>3, <1>a, <1>b DEF Mallocs
  <2>5. ((j - 1) + 1)..malloc_time_ = ((j + 1)..malloc_time_) \cup {j}
    BY <2>1, <2>3
  <2>6. freed' = {Header(k) : k \in ((j - 1) + 1)..malloc_time_}
    BY <2>2, <2>5, <1>a
  <2>7. \A k \in 1..malloc_time_ : memory'[Header(k)].next_node_ = Header(k - 1)
    BY <1>a, <1>b DEF Mallocs
  <2> QED BY <2>3, <2>4, <2>6, <2>7, <1>a DEF Mallocs
<1> QED BY <1>1, <1>2, <1>3, <1>4, <1>5 DEF IInv

LEMMA StutterInvariant ==
  ASSUME IInv, UNCHANGED vars
  PROVE  IInv'
<1>a. UNCHANGED <<value_, free_list_head_, list_head_, malloc_time_, memory,
                  freed, pc, block, objects>>
  BY DEF vars, poolVars
<1>b. Blocks' = Blocks /\ Held' = Held /\ Owned' = Owned
  BY <1>a, SameBlocks DEF Held, Owned
<1>c. TypeOK /\ Exclusion /\ Hands /\ Apart /\ FreeLinked /\ Mallocs
      /\ ObjectsIntact
  BY DEF IInv
<1>1. TypeOK'
  BY <1>a, <1>b, <1>c DEF TypeOK
<1>2. Exclusion' /\ Apart' /\ ObjectsIntact'
  BY <1>a, <1>c DEF Exclusion, Apart, ObjectsIntact
<1>3. Hands' /\ Mallocs'
  BY <1>a, <1>b, <1>c DEF Hands, Mallocs
<1>4. FreeLinked'
  BY <1>a, <1>b, <1>c, FreeFrame
<1> QED BY <1>1, <1>2, <1>3, <1>4 DEF IInv

\* Under the invariant the free list, as BlocksConserved reads it, is what
\* nobody owns.
LEMMA FreeListIs == IInv => FreeList = Free \cup {Null}
<1> SUFFICES ASSUME IInv PROVE FreeList = Free \cup {Null}
  OBVIOUS
<1>a. TypeOK /\ FreeLinked
  BY DEF IInv
<1>b. /\ Null \notin Blocks /\ Blocks \subseteq DOMAIN memory
      /\ Free \subseteq Blocks
  BY <1>a, Words DEF Free
<1>c. /\ free_list_head_ \in Free \cup {Null}
      /\ \A b \in Free : memory[b].next_node_ \in Free \cup {Null}
      /\ \A S \in SUBSET (Free \cup {Null}) :
           free_list_head_ \in S
             /\ (\A b \in S \cap Free : memory[b].next_node_ \in S)
           => Free \cup {Null} = S
  <2>1. \A b \in Free : Links[b] = memory[b].next_node_
    BY <1>b DEF Links
  <2> HIDE DEF Free, Links
  <2> QED BY <2>1, <1>a DEF FreeLinked, IsList
<1>1. FreeList \subseteq Free \cup {Null}
  <2>1. Closed(Free \cup {Null})
    BY <1>b, <1>c DEF Closed
  <2>2. Free \cup {Null} \in SUBSET (Blocks \cup {Null})
    BY <1>b
  <2> QED BY <2>1, <2>2 DEF FreeList
<1>2. ASSUME NEW S \in SUBSET (Blocks \cup {Null}), Closed(S)
      PROVE  Free \cup {Null} \subseteq S
  <2>1. PICK T : T = S \cap (Free \cup {Null})
    BY Zenon
  <2>2. T \in SUBSET (Free \cup {Null}) /\ free_list_head_ \in T
    BY <2>1, <1>2, <1>c DEF Closed
  <2>3. \A b \in T \cap Free : memory[b].next_node_ \in T
    BY <2>1, <1>2, <1>b, <1>c DEF Closed
  <2>4. Free \cup {Null} = T
    BY <2>2, <2>3, <1>c
  <2> QED BY <2>1, <2>4
<1>3. Free \cup {Null} \subseteq FreeList
  BY <1>2, <1>b DEF FreeList
<1> QED BY <1>1, <1>3

-----------------------------------------------------------------------------
\* The theorems.

\* Every reachable state satisfies the inductive invariant: whatever the
\* threads do around the spin lock (LockGuard, spin_lock.h), the pool's
\* words are consistent between any two steps of Allocate and Deallocate.
THEOREM PoolInvariant == Spec => []IInv
<1>1. IInv /\ [Next]_vars => IInv'
  <2> SUFFICES ASSUME IInv, [Next]_vars PROVE IInv'
    OBVIOUS
  <2>1. ASSUME NEW t \in Threads,
               \/ Create(t) \/ \E b \in objects[t] : Destroy(t, b)
               \/ Lock(t) \/ Grow(t) \/ ReadHead(t) \/ Pop(t)
               \/ Construct(t) \/ Link(t) \/ Push(t) \/ Unlock(t)
        PROVE  IInv'
    BY Zenon, <2>1, CreateInvariant, DestroyInvariant, LockInvariant,
       GrowInvariant, ReadHeadInvariant, PopInvariant, ConstructInvariant,
       LinkInvariant, PushInvariant, UnlockInvariant
  <2>2. CASE Release
    BY <2>2, ReleaseInvariant
  <2>3. CASE UNCHANGED vars
    BY <2>3, StutterInvariant
  <2> QED BY <2>1, <2>2, <2>3 DEF Next
<1> QED BY InitInvariant, <1>1, PTL DEF Spec

\* With the lock free, MemoryPool's list runs through exactly the blocks
\* that no thread has, no block is two threads', and ~MemoryPool returns
\* every malloc: for any number of threads, of mallocs and of connections.
THEOREM NoBlockLost == Spec => []BlocksConserved
<1>1. IInv => BlocksConserved
  <2> SUFFICES ASSUME IInv, value_ PROVE BlocksConserved
    BY DEF BlocksConserved
  <2> DEFINE taken == {block[t] : t \in Threads} \ {Null}
             hands == {block[t] : t \in {u \in Threads : pc[u] \in InHand}}
  <2>a. TypeOK /\ Exclusion /\ Hands /\ Apart /\ FreeLinked /\ Mallocs
    BY DEF IInv
  <2>b. /\ pc \in [Threads -> Inside \cup {"idle", "new", "delete"}]
        /\ objects \in [Threads -> SUBSET Blocks]
        /\ memory \in [Nodes(malloc_time_) ->
                         [next_node_ : Nodes(malloc_time_) \cup {Null},
                          object : Threads \cup {None}]]
        /\ malloc_time_ \in Nat
        /\ Null \notin Blocks /\ Blocks \subseteq DOMAIN memory
    BY <2>a, Words DEF TypeOK
  <2>1. taken = hands
    <3>1. ASSUME NEW t \in Threads
          PROVE  IF pc[t] = "delete" THEN block[t] # Null ELSE block[t] = Null
      <4>1. pc[t] \in {"idle", "new", "delete"}
        BY <2>a, <2>b DEF Exclusion
      <4> QED BY <4>1, <2>a, <2>b DEF Hands, InHand
    <3>2. \A t \in Threads : pc[t] \in InHand <=> pc[t] = "delete"
      BY <2>a, <2>b DEF Exclusion, Inside, InHand
    <3> QED BY <3>1, <3>2
  <2>2. Owned = Held \cup taken
    BY <2>1 DEF Owned
  <2>3. FreeList = (Blocks \ (Held \cup taken)) \cup {Null}
    BY <2>2, FreeListIs DEF Free
  <2>4. Held \cup taken \subseteq Blocks
    <3>1. Held \subseteq Blocks
      BY <2>b DEF Held
    <3>2. hands \subseteq Blocks
      BY <2>a DEF Hands
    <3> QED BY <3>1, <3>2, <2>1
  <2>5. Closed(FreeList)
    <3>1. \A b \in Free : memory[b].next_node_ \in Free \cup {Null}
      BY Zenon, <2>a, <2>b DEF FreeLinked, IsList, Free, Links
    <3>2. (Free \cup {Null}) \cap Blocks = Free
      BY <2>b DEF Free
    <3>3. free_list_head_ \in Free \cup {Null}
      BY <2>a DEF FreeLinked, IsList
    <3> QED BY <3>1, <3>2, <3>3, FreeListIs DEF Closed
  <2>6. list_head_ = Null => freed = {Header(k) : k \in 1..malloc_time_}
    <3>1. PICK j \in 0..malloc_time_ :
            /\ list_head_ = Header(j)
            /\ freed = {Header(k) : k \in (j + 1)..malloc_time_}
      BY <2>a DEF Mallocs
    <3>2. list_head_ = Null => j = 0
      BY <3>1 DEF Header, Null
    <3> QED BY <3>1, <3>2
  <2>7. \A t, u \in Threads : t # u => objects[t] \cap objects[u] = {}
    BY <2>a DEF Apart
  <2> HIDE DEF taken
  <2>8. FreeList \cap (Held \cup taken) = {} /\ Null \in FreeList
    BY <2>3, <2>4, <2>b
  <2>9. FreeList \cup Held \cup taken = Blocks \cup {Null}
    BY <2>3, <2>4
  <2> USE DEF taken
  <2> QED BY <2>5, <2>6, <2>7, <2>8, <2>9 DEF BlocksConserved
<1> QED BY PoolInvariant, <1>1, PTL

\* What a thread built in a block is there until the thread destroys it
\* (ObjectPool::New and Delete): for any number of threads.
THEOREM NoObjectOverwritten == Spec => []ObjectsIntact
<1>1. IInv => ObjectsIntact
  BY DEF IInv
<1> QED BY PoolInvariant, <1>1, PTL
=============================================================================
