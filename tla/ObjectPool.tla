----------------------------- MODULE ObjectPool -----------------------------
(***************************************************************************)
(* The pool the server's connections live in (object_pool.h, memory_pool.h)*)
(* and the spin lock that the I/O threads share it under (spin_lock.h,     *)
(* ServerReactorManager in reactor_manager.h).                             *)
(*                                                                         *)
(* A free block holds the pointer to the next one in the very bytes an     *)
(* object would occupy (MemoryBlockNode is a union), so `memory` gives a   *)
(* block either a pointer or the object built in it: a block that is       *)
(* linked while an object lives in it loses the object, and one that is    *)
(* overwritten while it is linked loses the list.                          *)
(***************************************************************************)
EXTENDS Integers, FiniteSets

CONSTANTS
  Threads,             \* the I/O threads
  kInitialMallocSize,  \* blocks of the first malloc (40 in the code)
  MaxObjects,          \* bound on the connections alive or being built
  None                 \* no thread

ASSUME PoolAssumption ==
  /\ kInitialMallocSize \in Nat \ {0}
  /\ MaxObjects \in Nat
  /\ None \notin Threads

VARIABLES
  value_,              \* MutexLock: TRUE when it can be taken
  free_list_head_, list_head_, malloc_time_,
  memory,              \* every word the pool has obtained
  pc, block,           \* each thread: its place, the block in its hands
  objects,             \* the connections each thread's EventManager holds
  freed                \* what the pool's destructor has returned

poolVars == <<free_list_head_, list_head_, malloc_time_, memory, freed>>
vars == <<value_, poolVars, pc, block, objects>>

\* Node 0 of a malloc links the mallocs; the blocks follow it.
Null == <<0, 0>>
Header(k) == <<k, 0>>
Size(k) == kInitialMallocSize + k - 1
Blocks == {<<k, i>> : k \in 1..malloc_time_, i \in 1..Size(malloc_time_)}
            \cap DOMAIN memory

Pointer(node) == [next_node_ |-> node, object |-> None]
Object(t) == [next_node_ |-> Null, object |-> t]

Init ==
  /\ value_ = TRUE
  /\ free_list_head_ = Null /\ list_head_ = Null /\ malloc_time_ = 0
  /\ memory = << >>
  /\ pc = [t \in Threads |-> "idle"]
  /\ block = [t \in Threads |-> Null]
  /\ objects = [t \in Threads |-> {}]
  /\ freed = {}

Held == UNION {objects[t] : t \in Threads}
Building == {"new", "allocate", "pop", "construct"}

Go(t, place) == pc' = [pc EXCEPT ![t] = place]

-----------------------------------------------------------------------------
\* A thread wants a connection built, or one of its own destroyed.
Create(t) ==
  /\ pc[t] = "idle" /\ freed = {}
  /\ Cardinality(Held) + Cardinality({u \in Threads : pc[u] \in Building})
       < MaxObjects
  /\ Go(t, "new")
  /\ UNCHANGED <<value_, poolVars, block, objects>>

Destroy(t, b) ==
  /\ pc[t] = "idle" /\ freed = {}
  /\ b \in objects[t]
  /\ objects' = [objects EXCEPT ![t] = @ \ {b}]
  /\ block' = [block EXCEPT ![t] = b]
  /\ Go(t, "delete")
  /\ UNCHANGED <<value_, poolVars>>

\* Mutant: the lock is set without having been tested.
TakeUntested == value_' = FALSE

\* compare_exchange_weak from true to false; a failure only tries again.
Take == value_ /\ value_' = FALSE

\* The LockGuard of NewOneConnecting... or DeleteOneConnectingFromObjectPool.
Lock(t) ==
  /\ pc[t] \in {"new", "delete"}
  /\ Take
  /\ Go(t, IF pc[t] = "new" THEN "allocate" ELSE "destruct")
  /\ UNCHANGED <<poolVars, block, objects>>

\* MemoryPool::Allocate on an empty list: one malloc, all of it linked.
Grow(t) ==
  LET k == malloc_time_ + 1
  IN  /\ pc[t] = "allocate"
      /\ free_list_head_ = Null
      /\ memory' =
           [n \in DOMAIN memory \cup {<<k, i>> : i \in 0..Size(k)} |->
              IF n \in DOMAIN memory THEN memory[n]
              ELSE IF n = Header(k) THEN Pointer(list_head_)
              ELSE IF n[2] = 1 THEN Pointer(free_list_head_)
              ELSE Pointer(<<k, n[2] - 1>>)]
      /\ list_head_' = Header(k)
      /\ free_list_head_' = <<k, Size(k)>>
      /\ malloc_time_' = k
      /\ UNCHANGED <<value_, pc, block, objects, freed>>

\* The rest of Allocate: the head is read, then the list goes on behind it.
ReadHead(t) ==
  /\ pc[t] = "allocate" /\ free_list_head_ # Null
  /\ block' = [block EXCEPT ![t] = free_list_head_]
  /\ Go(t, "pop")
  /\ UNCHANGED <<value_, poolVars, objects>>

Pop(t) ==
  /\ pc[t] = "pop"
  /\ free_list_head_' = memory[free_list_head_].next_node_
  /\ Go(t, "construct")
  /\ UNCHANGED <<value_, list_head_, malloc_time_, memory, freed, block,
                 objects>>

\* Placement new.
Construct(t) ==
  /\ pc[t] = "construct"
  /\ memory' = [memory EXCEPT ![block[t]] = Object(t)]
  /\ Go(t, "unlock")
  /\ objects' = [objects EXCEPT ![t] = @ \cup {block[t]}]
  /\ UNCHANGED <<value_, free_list_head_, list_head_, malloc_time_, freed,
                 block>>

\* The first half of MemoryPool::Deallocate.
Deallocate(b) == memory' = [memory EXCEPT ![b] = Pointer(free_list_head_)]

\* Mutant: the list is cut behind the block.
LinkSkipped(t) ==
  /\ pc[t] = "destruct"
  /\ memory' = [memory EXCEPT ![block[t]] = Pointer(Null)]
  /\ Go(t, "push")
  /\ UNCHANGED <<value_, free_list_head_, list_head_, malloc_time_, freed,
                 block, objects>>

\* ObjectPool::Delete: the destructor runs, and the block is given back.
Link(t) ==
  /\ pc[t] = "destruct"
  /\ Deallocate(block[t])
  /\ Go(t, "push")
  /\ UNCHANGED <<value_, free_list_head_, list_head_, malloc_time_, freed,
                 block, objects>>

Push(t) ==
  /\ pc[t] = "push"
  /\ free_list_head_' = block[t]
  /\ Go(t, "unlock")
  /\ UNCHANGED <<value_, list_head_, malloc_time_, memory, freed, block,
                 objects>>

Unlock(t) ==
  /\ pc[t] = "unlock"
  /\ value_' = TRUE
  /\ block' = [block EXCEPT ![t] = Null]
  /\ Go(t, "idle")
  /\ UNCHANGED <<poolVars, objects>>

\* One turn of ~MemoryPool's loop; no thread uses the pool any more.
Release ==
  /\ \A t \in Threads : pc[t] = "idle"
  /\ list_head_ # Null
  /\ freed' = freed \cup {list_head_}
  /\ list_head_' = memory[list_head_].next_node_
  /\ UNCHANGED <<value_, free_list_head_, malloc_time_, memory, pc, block,
                 objects>>

Next ==
  \/ \E t \in Threads :
       \/ Create(t) \/ \E b \in objects[t] : Destroy(t, b)
       \/ Lock(t) \/ Grow(t) \/ ReadHead(t) \/ Pop(t) \/ Construct(t)
       \/ Link(t) \/ Push(t) \/ Unlock(t)
  \/ Release

Spec == Init /\ [][Next]_vars

-----------------------------------------------------------------------------
\* Properties.

\* The free list is the least set that has its head and goes on behind every
\* block of it.
Closed(S) ==
  /\ free_list_head_ \in S
  /\ \A b \in S \cap Blocks : memory[b].next_node_ \in S

FreeList ==
  {n \in Blocks \cup {Null} :
     \A S \in SUBSET (Blocks \cup {Null}) : Closed(S) => n \in S}

\* Whenever the lock is free, every block is on the free list, which ends, or
\* is the place of exactly one thread's connection (Allocate and Deallocate
\* neither lose a block nor hand one out twice), and the destructor's walk
\* over list_head_ returns every malloc.
BlocksConserved ==
  value_ =>
    LET taken == {block[t] : t \in Threads} \ {Null}
    IN  /\ Closed(FreeList) /\ Null \in FreeList
        /\ FreeList \cap (Held \cup taken) = {}
        /\ FreeList \cup Held \cup taken = Blocks \cup {Null}
        /\ \A t, u \in Threads : t # u => objects[t] \cap objects[u] = {}
        /\ list_head_ = Null => freed = {Header(k) : k \in 1..malloc_time_}

\* A connection's bytes stay what its own thread's constructor made of them
\* until that thread destroys it (two threads never pop one block, and the
\* list is never linked through a block in use).
ObjectsIntact ==
  \A t \in Threads : \A b \in objects[t] : memory[b] = Object(t)
=============================================================================
