-------------------------- MODULE EventLoopProofs ---------------------------
(***************************************************************************)
(* Invariants of EventLoop, proved for any number of threads and tasks,    *)
(* any delays and any width of int: tasks are conserved, none is           *)
(* overtaken, and the loop does not sleep past a task or a Quit.           *)
(***************************************************************************)
EXTENDS EventLoop, FiniteSetTheorems, TLAPS

Task == [id : Nat, time : Nat, context : Nat]
Caller ==
  [stage : {"idle", "min", "compare", "wake"}, task : Task, min : Nat]
Pcs == {"Before", "Starting", "Test", "Timeout", "Wait", "Batch", "Active",
        "Expired", "Run", "Exit"}

TypeOK ==
  /\ pc \in Pcs
  /\ {should_quit, quitting, readable, active} \subseteq BOOLEAN
  /\ {time_points, expired, added} \subseteq Seq(Task)
  /\ ran \in Seq(Nat)
  /\ {timeout, wake_at, return_time, now, faults} \subseteq Nat
  /\ poll \in {"none", "sq", "kernel", "cq"}
  /\ caller \in [Threads -> Caller]

-----------------------------------------------------------------------------
(***************************************************************************)
(* The timer, as a predicate on the expired tasks ex, the waiting tasks    *)
(* tp, the registered tasks ad and the ids rn of those that were run.      *)
(***************************************************************************)

Sorted(q) == \A i, j \in 1..Len(q) : i <= j => q[i].time <= q[j].time

Distinct(q) == \A i, j \in 1..Len(q) : q[i].id = q[j].id => i = j

Apart(p, q) == \A i \in 1..Len(p), j \in 1..Len(q) : p[i].id # q[j].id

\* Task t must not run before the one-shot task u.
Precedes(u, t) ==
  u.context = 0 /\ t.context = 0 /\ u.id < t.id /\ u.time <= t.time

Stable(q) == \A i, j \in 1..Len(q) : Precedes(q[i], q[j]) => i < j

Ahead(p, q) == \A i \in 1..Len(p), j \in 1..Len(q) : ~ Precedes(q[j], p[i])

\* A task is as it was registered; a periodic one has a new time.
Registered(e, ad) ==
  /\ e.id \in 1..Len(ad)
  /\ e.context = ad[e.id].context
  /\ e.context = 0 => e = ad[e.id]

Known(q, ad) == \A i \in 1..Len(q) : Registered(q[i], ad)

In(id, q) == \E i \in 1..Len(q) : q[i].id = id

Ran(id, rn) == \E i \in 1..Len(rn) : rn[i] = id

Past(ex, tp, ad, rn) ==
  /\ \A i, j \in 1..Len(rn) : rn[i] = rn[j] => i = j
  /\ \A i \in 1..Len(rn) :
       /\ rn[i] \in 1..Len(ad) /\ ad[rn[i]].context = 0
       /\ ~ In(rn[i], ex) /\ ~ In(rn[i], tp)

Conserved(ex, tp, ad, rn) ==
  \A i \in 1..Len(ad) :
    ad[i].context = 0 => In(i, ex) \/ In(i, tp) \/ Ran(i, rn)

InOrder(ad, rn) ==
  \A i, j \in 1..Len(ad) : Precedes(ad[i], ad[j]) /\ Ran(j, rn) => Ran(i, rn)

\* What a task that is nowhere does not disturb.
Part(ex, tp, ad, rn) ==
  /\ Sorted(tp)
  /\ Distinct(ex) /\ Distinct(tp) /\ Apart(ex, tp)
  /\ Stable(ex) /\ Stable(tp) /\ Ahead(ex, tp)
  /\ Known(ex, ad) /\ Known(tp, ad)
  /\ \A i \in 1..Len(ad) : ad[i].id = i
  /\ Past(ex, tp, ad, rn)
  /\ InOrder(ad, rn)

Timer(ex, tp, ad, rn) == Part(ex, tp, ad, rn) /\ Conserved(ex, tp, ad, rn)

TimerInv ==
  /\ Timer(expired, time_points, added, ran)
  /\ pc # "Run" => expired = <<>>

-----------------------------------------------------------------------------
(***************************************************************************)
(* The wait.                                                               *)
(***************************************************************************)

\* The number of negative values of an int.
Half == IntSpan \div 2

\* No task of a loop that runs for at most this long is overdue by more
\* milliseconds than an int can count.
ShortRun == GetMillisecond(MaxTime) - GetMillisecond(Epoch) <= Half

Clocked ==
  /\ now >= Epoch /\ (now <= MaxTime \/ now = Epoch)
  /\ \A i \in 1..Len(time_points) : time_points[i].time >= Epoch
  /\ pc \in {"Active", "Expired", "Run"} => return_time >= Epoch

\* Unless a request was refused, the eventfd is polled during every wait.
Armed ==
  faults = 0 => poll \in {"kernel", "cq"} \/ (pc = "Batch" /\ poll = "sq")

\* A loop that has not seen a Quit is woken, or the thread that called it is
\* about to wake it.
QuitSeen ==
  pc \in {"Timeout", "Wait"} /\ should_quit /\ faults = 0 /\ ~ WakeUpComing =>
    \E th \in Threads : caller[th].stage = "wake"

Limited ==
  pc = "Wait" => /\ timeout < IntSpan - Half
                 /\ wake_at <= GetMillisecond(now) + timeout

\* Thread th has registered the first task and will find that it has to wake
\* the loop.
Responsible(th) ==
  /\ caller[th].stage # "idle"
  /\ caller[th].task = time_points[1]
  /\ caller[th].stage = "compare" =>
       caller[th].min >= GetMillisecond(time_points[1].time)
                           - GetMillisecond(now)

\* A wait that is too long for the first task is going to be ended by the
\* thread that registered it.
TooLong ==
  /\ pc = "Wait" /\ timeout # 0 /\ faults = 0 /\ ~ WakeUpComing
  /\ time_points # <<>>
  /\ GetMillisecond(time_points[1].time) < wake_at
Covered == TooLong => \E th \in Threads : Responsible(th)

WaitInv == Clocked /\ Armed /\ QuitSeen /\ Limited /\ Covered

\* The inductive invariants: of the timer, and of the loop.
TypedTimer == TypeOK /\ TimerInv
IInv == TypedTimer /\ WaitInv

-----------------------------------------------------------------------------
(***************************************************************************)
(* Sequences.                                                              *)
(***************************************************************************)

\* The concatenation of two sequences.
LEMMA SeqConcat ==
  ASSUME NEW S, NEW s \in Seq(S), NEW t \in Seq(S)
  PROVE  /\ s \o t \in Seq(S) /\ Len(s \o t) = Len(s) + Len(t)
         /\ \A i \in 1..(Len(s) + Len(t)) :
              (s \o t)[i] = IF i <= Len(s) THEN s[i] ELSE t[i - Len(s)]
  OBVIOUS

\* A part of a sequence, by its first and its last index.
LEMMA SeqSub ==
  ASSUME NEW S, NEW s, NEW a \in Int, NEW b \in Int,
         \A i \in a..b : s[i] \in S
  PROVE  /\ SubSeq(s, a, b) \in Seq(S)
         /\ Len(SubSeq(s, a, b)) = IF a <= b THEN b - a + 1 ELSE 0
         /\ \A i \in 1..(b - a + 1) : SubSeq(s, a, b)[i] = s[a + i - 1]
  OBVIOUS

\* A sequence is a function on the indexes up to its length.
LEMMA SeqLen ==
  ASSUME NEW S, NEW s \in Seq(S)
  PROVE  Len(s) \in Nat /\ s \in [1..Len(s) -> S] /\ DOMAIN s = 1..Len(s)
  OBVIOUS

\* The first element of a sequence, and the others.
LEMMA SeqHeadTail ==
  ASSUME NEW S, NEW s \in Seq(S), s # <<>>
  PROVE  /\ Head(s) \in S /\ Tail(s) \in Seq(S) /\ Len(Tail(s)) = Len(s) - 1
         /\ \A i \in 1..Len(Tail(s)) : Tail(s)[i] = s[i + 1]
  OBVIOUS

-----------------------------------------------------------------------------
(***************************************************************************)
(* The multimap.                                                           *)
(***************************************************************************)

\* r is q with t after its first n tasks, which are those not later than t.
Inserted(q, n, t, r) ==
  /\ r \in Seq(Task) /\ Len(r) = Len(q) + 1 /\ n \in 0..Len(q)
  /\ \A i \in 1..n : r[i] = q[i] /\ q[i].time <= t.time
  /\ r[n + 1] = t
  /\ \A i \in (n + 1)..Len(q) : r[i + 1] = q[i] /\ t.time < q[i].time

\* The tasks of a sorted sequence that are not later than x are its first n.
LEMMA Count ==
  ASSUME NEW q \in Seq(Task), Sorted(q), NEW x \in Nat
  PROVE  \E n \in 0..Len(q) :
           /\ Cardinality({i \in 1..Len(q) : q[i].time <= x}) = n
           /\ \A i \in 1..Len(q) : q[i].time <= x <=> i <= n
<1> DEFINE A == {i \in 1..Len(q) : q[i].time <= x}
<1>1. Len(q) \in Nat /\ \A i \in 1..Len(q) : q[i].time \in Nat
  <2>1. Len(q) \in Nat /\ \A i \in 1..Len(q) : q[i] \in Task
    BY Zenon, SeqLen
  <2> QED
    BY Zenon, <2>1 DEF Task
<1>2. ASSUME NEW i \in A, NEW j \in 1..i
      PROVE  j \in A
  <2>1. j \in 1..Len(q) /\ i \in 1..Len(q) /\ j <= i /\ q[i].time <= x
    BY <1>1
  <2>2. q[j].time <= q[i].time
    BY Zenon, <2>1 DEF Sorted
  <2>3. q[j].time <= x
    BY <1>1, <2>1, <2>2
  <2> QED
    BY Zenon, <2>1, <2>3
<1>3. PICK n : n = Cardinality(A)
  BY Zenon
<1>4. IsFiniteSet(1..Len(q)) /\ Cardinality(1..Len(q)) = Len(q)
  <2>1. 1 \in Int /\ Len(q) \in Int
    BY <1>1
  <2>2. /\ IsFiniteSet(1..Len(q))
        /\ Cardinality(1..Len(q)) = IF 1 > Len(q) THEN 0 ELSE Len(q) - 1 + 1
    BY Zenon, <2>1, FS_Interval
  <2> QED
    BY <1>1, <2>2
<1>5. A \in SUBSET (1..Len(q))
  BY Zenon
<1> HIDE DEF A
<1>6. IsFiniteSet(A) /\ n \in Nat /\ n <= Len(q)
  <2>1. IsFiniteSet(A) /\ Cardinality(A) <= Cardinality(1..Len(q))
    BY Zenon, <1>4, <1>5, FS_Subset
  <2>2. Cardinality(A) \in Nat
    BY Zenon, <2>1, FS_CardinalityType
  <2> QED
    BY Zenon, <1>3, <1>4, <2>1, <2>2
<1>7. ASSUME NEW i \in A PROVE i <= n
  <2>1. i \in Nat \ {0} /\ i \in Int
    BY <1>5, <1>1
  <2>2. IsFiniteSet(1..i) /\ Cardinality(1..i) = i
    BY <2>1, FS_Interval
  <2>3. (1..i) \in SUBSET A
    BY Zenon, <1>2, <1>7
  <2>4. Cardinality(1..i) <= Cardinality(A)
    BY Zenon, <1>6, <2>3, FS_Subset
  <2> QED
    BY Zenon, <1>3, <2>2, <2>4
<1>8. IsFiniteSet(1..n) /\ Cardinality(1..n) = n
  BY <1>6, FS_Interval
<1>9. A \in SUBSET (1..n)
  <2>1. ASSUME NEW i \in A PROVE i \in 1..n
    BY <1>1, <1>5, <1>6, <1>7, <2>1
  <2> QED
    BY Zenon, <2>1
<1>10. A = 1..n
  BY Zenon, <1>3, <1>8, <1>9, FS_Subset
<1>11. ASSUME NEW i \in 1..Len(q) PROVE q[i].time <= x <=> i <= n
  <2>1. q[i].time <= x <=> i \in A
    BY Zenon DEF A
  <2> QED
    BY <1>1, <1>6, <1>10, <2>1
<1>12. n \in 0..Len(q)
  BY <1>1, <1>6
<1> QED
  BY Zenon, <1>3, <1>11, <1>12 DEF A

\* The parts of a sequence that is cut after its first n elements.
LEMMA CutSeq ==
  ASSUME NEW q \in Seq(Task), NEW n \in 0..Len(q)
  PROVE  /\ SubSeq(q, 1, n) \in Seq(Task) /\ Len(SubSeq(q, 1, n)) = n
         /\ \A i \in 1..n : SubSeq(q, 1, n)[i] = q[i]
         /\ SubSeq(q, n + 1, Len(q)) \in Seq(Task)
         /\ Len(SubSeq(q, n + 1, Len(q))) = Len(q) - n
         /\ \A i \in 1..(Len(q) - n) : SubSeq(q, n + 1, Len(q))[i] = q[n + i]
<1>1. Len(q) \in Nat /\ \A i \in 1..Len(q) : q[i] \in Task
  BY Zenon, SeqLen
<1>2. \A i \in 1..n : q[i] \in Task
  BY <1>1
<1>3. \A i \in (n + 1)..Len(q) : q[i] \in Task
  BY <1>1
<1>4. /\ SubSeq(q, 1, n) \in Seq(Task)
      /\ Len(SubSeq(q, 1, n)) = IF 1 <= n THEN n - 1 + 1 ELSE 0
      /\ \A i \in 1..(n - 1 + 1) : SubSeq(q, 1, n)[i] = q[1 + i - 1]
  BY <1>2, SeqSub
<1>5. /\ SubSeq(q, n + 1, Len(q)) \in Seq(Task)
      /\ Len(SubSeq(q, n + 1, Len(q)))
           = IF n + 1 <= Len(q) THEN Len(q) - (n + 1) + 1 ELSE 0
      /\ \A i \in 1..(Len(q) - (n + 1) + 1) :
           SubSeq(q, n + 1, Len(q))[i] = q[(n + 1) + i - 1]
  BY <1>1, <1>3, SeqSub
<1>6. /\ n - 1 + 1 = n /\ Len(q) - (n + 1) + 1 = Len(q) - n
      /\ (IF 1 <= n THEN n - 1 + 1 ELSE 0) = n
      /\ (IF n + 1 <= Len(q) THEN Len(q) - (n + 1) + 1 ELSE 0) = Len(q) - n
      /\ \A i \in Int : 1 + i - 1 = i /\ (n + 1) + i - 1 = n + i
  BY <1>1
<1>7. \A i \in 1..n : i \in Int
  OBVIOUS
<1>8. \A i \in 1..(Len(q) - n) : i \in Int
  OBVIOUS
<1> QED
  BY Zenon, <1>4, <1>5, <1>6, <1>7, <1>8

\* u is s followed by t.
Joined(s, t, u) ==
  /\ u \in Seq(Task) /\ Len(u) = Len(s) + Len(t)
  /\ \A i \in 1..Len(s) : u[i] = s[i]
  /\ \A i \in 1..Len(t) : u[Len(s) + i] = t[i]

LEMMA Join ==
  ASSUME NEW s \in Seq(Task), NEW t \in Seq(Task)
  PROVE  Joined(s, t, s \o t)
<1>1. Len(s) \in Nat /\ Len(t) \in Nat
  BY Zenon, SeqLen
<1>2. PICK u : u = s \o t
  BY Zenon
<1>3. /\ u \in Seq(Task) /\ Len(u) = Len(s) + Len(t)
      /\ \A i \in 1..(Len(s) + Len(t)) :
           u[i] = IF i <= Len(s) THEN s[i] ELSE t[i - Len(s)]
  BY Zenon, <1>2, SeqConcat
<1>4. \A i \in 1..Len(s) : i \in 1..(Len(s) + Len(t)) /\ i <= Len(s)
  BY <1>1
<1>5. \A i \in 1..Len(t) :
        /\ Len(s) + i \in 1..(Len(s) + Len(t)) /\ ~ (Len(s) + i <= Len(s))
        /\ (Len(s) + i) - Len(s) = i
  BY <1>1
<1>6. \A i \in 1..Len(s) : u[i] = s[i]
  BY Zenon, <1>3, <1>4
<1>7. \A i \in 1..Len(t) : u[Len(s) + i] = t[i]
  BY Zenon, <1>3, <1>5
<1> QED
  BY Zenon, <1>2, <1>3, <1>6, <1>7 DEF Joined

\* AddTimeTask keeps what is there and its order.
LEMMA AddInserts ==
  ASSUME NEW q \in Seq(Task), Sorted(q), NEW t \in Task
  PROVE  \E n : Inserted(q, n, t, AddTimeTask(q, t))
<1>1. t.time \in Nat
  BY Zenon DEF Task
<1>2. PICK n \in 0..Len(q) :
        /\ Cardinality({i \in 1..Len(q) : q[i].time <= t.time}) = n
        /\ \A i \in 1..Len(q) : q[i].time <= t.time <=> i <= n
  BY Zenon, <1>1, Count
<1> DEFINE a == SubSeq(q, 1, n)
           b == SubSeq(q, n + 1, Len(q))
           r == (a \o <<t>>) \o b
<1>3. AddTimeTask(q, t) = r
  BY Zenon, <1>2 DEF AddTimeTask
<1>4. /\ a \in Seq(Task) /\ Len(a) = n
      /\ \A i \in 1..n : a[i] = q[i]
      /\ b \in Seq(Task) /\ Len(b) = Len(q) - n
      /\ \A i \in 1..(Len(q) - n) : b[i] = q[n + i]
  BY Zenon, <1>2, CutSeq
<1>5. Len(q) \in Nat /\ \A i \in 1..Len(q) : q[i].time \in Nat
  <2>1. Len(q) \in Nat /\ \A i \in 1..Len(q) : q[i] \in Task
    BY Zenon, SeqLen
  <2> QED
    BY Zenon, <2>1 DEF Task
<1> HIDE DEF a, b
<1>6. <<t>> \in Seq(Task) /\ Len(<<t>>) = 1 /\ <<t>>[1] = t
  OBVIOUS
<1>7. PICK c : c = a \o <<t>>
  BY Zenon
<1>8. /\ c \in Seq(Task) /\ Len(c) = n + 1
      /\ \A i \in 1..n : c[i] = q[i]
      /\ c[n + 1] = t
  <2>1. Joined(a, <<t>>, c)
    BY Zenon, <1>4, <1>6, <1>7, Join
  <2>2. 1 \in 1..Len(<<t>>) /\ Len(a) = n
    BY <1>4, <1>6
  <2> QED
    BY Zenon, <1>4, <1>6, <2>1, <2>2 DEF Joined
<1>9. r = c \o b
  BY Zenon, <1>7
<1> HIDE DEF r
<1>10. /\ r \in Seq(Task) /\ Len(r) = Len(q) + 1
       /\ \A i \in 1..(n + 1) : r[i] = c[i]
       /\ \A i \in 1..(Len(q) - n) : r[(n + 1) + i] = q[n + i]
  <2>1. Joined(c, b, r)
    BY Zenon, <1>4, <1>8, <1>9, Join
  <2>2. (n + 1) + (Len(q) - n) = Len(q) + 1
    BY <1>2, <1>5
  <2>3. r \in Seq(Task) /\ \A i \in 1..(n + 1) : r[i] = c[i]
    BY Zenon, <1>8, <2>1 DEF Joined
  <2>4. Len(r) = Len(q) + 1
    <3>1. Len(r) = Len(c) + Len(b)
      BY Zenon, <2>1 DEF Joined
    <3> QED
      BY Zenon, <1>4, <1>8, <2>2, <3>1
  <2>5. ASSUME NEW i \in 1..(Len(q) - n) PROVE r[(n + 1) + i] = q[n + i]
    <3>1. r[Len(c) + i] = b[i]
      BY Zenon, <1>4, <2>1, <2>5 DEF Joined
    <3> QED
      BY Zenon, <1>4, <1>8, <2>5, <3>1
  <2> QED
    BY Zenon, <2>3, <2>4, <2>5
<1>11. ASSUME NEW i \in 1..n PROVE r[i] = q[i] /\ q[i].time <= t.time
  <2>1. i \in 1..(n + 1) /\ i \in 1..Len(q) /\ i <= n
    BY <1>2, <1>5
  <2> QED
    BY Zenon, <1>2, <1>8, <1>10, <2>1
<1>12. r[n + 1] = t
  <2>1. n + 1 \in 1..(n + 1)
    BY <1>2
  <2> QED
    BY Zenon, <1>8, <1>10, <2>1
<1>13. ASSUME NEW i \in (n + 1)..Len(q)
       PROVE  r[i + 1] = q[i] /\ t.time < q[i].time
  <2>1. /\ i - n \in 1..(Len(q) - n)
        /\ n + (i - n) = i /\ (n + 1) + (i - n) = i + 1
        /\ i \in 1..Len(q) /\ ~ (i <= n)
    BY <1>2, <1>5
  <2>2. r[i + 1] = q[i]
    BY Zenon, <1>10, <2>1
  <2>3. q[i].time \in Nat /\ ~ (q[i].time <= t.time)
    BY Zenon, <1>2, <1>5, <2>1
  <2> QED
    BY <1>1, <2>2, <2>3
<1>14. Inserted(q, n, t, r)
  BY Zenon, <1>2, <1>10, <1>11, <1>12, <1>13 DEF Inserted
<1> QED
  BY Zenon, <1>3, <1>14

\* Where the j-th of the old tasks is after an insertion behind the n-th.
Place(n, j) == IF j <= n THEN j ELSE j + 1

Placed(q, n, t, r) ==
  /\ \A i \in 1..Len(r) :
       \/ i = n + 1 /\ r[i] = t
       \/ \E j \in 1..Len(q) : i = Place(n, j) /\ r[i] = q[j]
  /\ \A j \in 1..Len(q) :
       /\ Place(n, j) \in 1..Len(r) /\ r[Place(n, j)] = q[j]
       /\ j <= n <=> q[j].time <= t.time
  /\ n + 1 \in 1..Len(r) /\ r[n + 1] = t

LEMMA Places ==
  ASSUME NEW q \in Seq(Task), NEW t \in Task, NEW n, NEW r,
         Inserted(q, n, t, r)
  PROVE  Placed(q, n, t, r)
<1>1. /\ Len(q) \in Nat /\ n \in 0..Len(q) /\ Len(r) = Len(q) + 1
      /\ t.time \in Nat /\ \A i \in 1..Len(q) : q[i].time \in Nat
  <2>1. Len(q) \in Nat /\ \A i \in 1..Len(q) : q[i] \in Task
    BY Zenon, SeqLen
  <2> QED
    BY Zenon, <2>1 DEF Inserted, Task
<1>2. /\ \A i \in 1..n : r[i] = q[i] /\ q[i].time <= t.time
      /\ r[n + 1] = t
      /\ \A i \in (n + 1)..Len(q) : r[i + 1] = q[i] /\ t.time < q[i].time
  BY Zenon DEF Inserted
<1>3. ASSUME NEW j \in 1..Len(q)
      PROVE  /\ Place(n, j) \in 1..Len(r) /\ r[Place(n, j)] = q[j]
             /\ j <= n <=> q[j].time <= t.time
  <2>1. CASE j <= n
    <3>1. j \in 1..n /\ Place(n, j) = j /\ j \in 1..Len(r)
      BY <1>1, <2>1 DEF Place
    <3> QED
      BY Zenon, <1>2, <2>1, <3>1
  <2>2. CASE ~ (j <= n)
    <3>1. /\ j \in (n + 1)..Len(q) /\ Place(n, j) = j + 1
          /\ j + 1 \in 1..Len(r)
      BY <1>1, <2>2 DEF Place
    <3>2. r[j + 1] = q[j] /\ t.time < q[j].time
      BY Zenon, <1>2, <3>1
    <3>3. ~ (q[j].time <= t.time)
      BY <1>1, <3>2
    <3> QED
      BY Zenon, <2>2, <3>1, <3>2, <3>3
  <2> QED
    BY Zenon, <2>1, <2>2
<1>4. ASSUME NEW i \in 1..Len(r), i # n + 1
      PROVE  \E j \in 1..Len(q) : i = Place(n, j) /\ r[i] = q[j]
  <2>1. CASE i <= n
    <3>1. i \in 1..Len(q) /\ Place(n, i) = i
      BY <1>1, <1>4, <2>1 DEF Place
    <3> QED
      BY Zenon, <1>3, <3>1
  <2>2. CASE ~ (i <= n)
    <3>1. i - 1 \in 1..Len(q) /\ Place(n, i - 1) = i
      BY <1>1, <1>4, <2>2 DEF Place
    <3> QED
      BY Zenon, <1>3, <3>1
  <2> QED
    BY Zenon, <2>1, <2>2
<1>5. n + 1 \in 1..Len(r)
  BY <1>1
<1> QED
  BY Zenon, <1>2, <1>3, <1>4, <1>5 DEF Placed

LEMMA PlaceOrder ==
  ASSUME NEW n \in Nat, NEW j \in Nat, NEW k \in Nat
  PROVE  /\ Place(n, j) = Place(n, k) <=> j = k
         /\ Place(n, j) <= Place(n, k) <=> j <= k
         /\ Place(n, j) < Place(n, k) <=> j < k
         /\ Place(n, j) # n + 1
         /\ Place(n, j) < n + 1 <=> j <= n
         /\ Place(n, j) <= n + 1 <=> j <= n
         /\ n + 1 <= Place(n, j) <=> ~ (j <= n)
         /\ n + 1 < Place(n, j) <=> ~ (j <= n)
BY DEF Place

\* An insertion adds the new task and nothing else.
LEMMA InsertIn ==
  ASSUME NEW q \in Seq(Task), NEW t \in Task, NEW n, NEW r,
         Inserted(q, n, t, r), NEW x
  PROVE  In(x, r) <=> In(x, q) \/ x = t.id
<1>0. Placed(q, n, t, r)
  BY Zenon, Places
<1>1. ASSUME In(x, r) PROVE In(x, q) \/ x = t.id
  <2>1. PICK i \in 1..Len(r) : r[i].id = x
    BY Zenon, <1>1 DEF In
  <2>2. \/ i = n + 1 /\ r[i] = t
        \/ \E j \in 1..Len(q) : i = Place(n, j) /\ r[i] = q[j]
    BY Zenon, <1>0 DEF Placed
  <2> QED
    BY Zenon, <2>1, <2>2 DEF In
<1>2. ASSUME In(x, q) PROVE In(x, r)
  <2>1. PICK j \in 1..Len(q) : q[j].id = x
    BY Zenon, <1>2 DEF In
  <2>2. Place(n, j) \in 1..Len(r) /\ r[Place(n, j)] = q[j]
    BY Zenon, <1>0 DEF Placed
  <2> QED
    BY Zenon, <2>1, <2>2 DEF In
<1>3. ASSUME x = t.id PROVE In(x, r)
  <2>1. n + 1 \in 1..Len(r) /\ r[n + 1] = t
    BY Zenon, <1>0 DEF Placed
  <2> QED
    BY Zenon, <1>3, <2>1 DEF In
<1> QED
  BY Zenon, <1>1, <1>2, <1>3

\* An insertion keeps the order: of the times, and of what was there.  The
\* new task comes after all those that it must not overtake.
LEMMA InsertOrder ==
  ASSUME NEW q \in Seq(Task), NEW t \in Task, NEW n, NEW r,
         Inserted(q, n, t, r), Sorted(q), Distinct(q), Stable(q),
         ~ In(t.id, q), \A i \in 1..Len(q) : ~ Precedes(t, q[i])
  PROVE  Sorted(r) /\ Distinct(r) /\ Stable(r)
<1>0. Placed(q, n, t, r)
  BY Zenon, Places
<1>1. /\ n \in Nat /\ \A i \in 1..Len(q) : i \in Nat /\ q[i].time \in Nat
      /\ t.time \in Nat /\ t.id \in Nat
  <2>1. Len(q) \in Nat /\ \A i \in 1..Len(q) : q[i] \in Task
    BY Zenon, SeqLen
  <2>2. n \in 0..Len(q)
    BY Zenon DEF Inserted
  <2>3. t.time \in Nat /\ t.id \in Nat
    BY Zenon DEF Task
  <2>4. \A i \in 1..Len(q) : q[i].time \in Nat
    BY Zenon, <2>1 DEF Task
  <2>5. n \in Nat /\ \A i \in 1..Len(q) : i \in Nat
    BY <2>1, <2>2
  <2> QED
    BY Zenon, <2>3, <2>4, <2>5
<1>2. \A j, k \in 1..Len(q) :
        /\ Place(n, j) = Place(n, k) <=> j = k
        /\ Place(n, j) <= Place(n, k) <=> j <= k
        /\ Place(n, j) < Place(n, k) <=> j < k
  BY <1>1 DEF Place
<1>3. \A j \in 1..Len(q) :
        /\ Place(n, j) # n + 1
        /\ Place(n, j) < n + 1 <=> j <= n
        /\ n + 1 <= Place(n, j) <=> ~ (j <= n)
  BY Zenon, <1>1, PlaceOrder
<1> SUFFICES ASSUME NEW i \in 1..Len(r), NEW l \in 1..Len(r)
             PROVE  /\ i <= l => r[i].time <= r[l].time
                    /\ r[i].id = r[l].id => i = l
                    /\ Precedes(r[i], r[l]) => i < l
  BY Zenon DEF Sorted, Distinct, Stable
<1>4. CASE i = n + 1 /\ l = n + 1
  <2>1. r[i] = t /\ r[l] = t
    BY Zenon, <1>0, <1>4 DEF Placed
  <2>2. t.time <= t.time /\ ~ (t.id < t.id)
    BY <1>1
  <2> QED
    BY Zenon, <1>4, <2>1, <2>2 DEF Precedes
<1>5. CASE i # n + 1 /\ l = n + 1
  <2>1. r[l] = t
    BY Zenon, <1>0, <1>5 DEF Placed
  <2>2. PICK j \in 1..Len(q) : i = Place(n, j) /\ r[i] = q[j]
    BY Zenon, <1>0, <1>5 DEF Placed
  <2>3. q[j].id # t.id
    BY Zenon DEF In
  <2>4. j <= n <=> q[j].time <= t.time
    BY Zenon, <1>0 DEF Placed
  <2>5. (i <= l => j <= n) /\ (i < l <=> j <= n)
    <3>1. i <= l => j <= n
      BY Zenon, <1>1, <1>5, <2>2, PlaceOrder
    <3> QED
      BY Zenon, <1>3, <1>5, <2>2, <3>1
  <2> QED
    BY Zenon, <2>1, <2>2, <2>3, <2>4, <2>5 DEF Precedes
<1>6. CASE i = n + 1 /\ l # n + 1
  <2>1. r[i] = t
    BY Zenon, <1>0, <1>6 DEF Placed
  <2>2. PICK k \in 1..Len(q) : l = Place(n, k) /\ r[l] = q[k]
    BY Zenon, <1>0, <1>6 DEF Placed
  <2>3. q[k].id # t.id /\ ~ Precedes(t, q[k])
    BY Zenon DEF In
  <2>4. ~ (k <= n) => t.time <= q[k].time
    <3>1. k <= n <=> q[k].time <= t.time
      BY Zenon, <1>0 DEF Placed
    <3> QED
      BY <1>1, <3>1
  <2>5. i <= l => ~ (k <= n)
    BY Zenon, <1>3, <1>6, <2>2
  <2> QED
    BY Zenon, <2>1, <2>2, <2>3, <2>4, <2>5
<1>7. CASE i # n + 1 /\ l # n + 1
  <2>1. PICK j \in 1..Len(q) : i = Place(n, j) /\ r[i] = q[j]
    BY Zenon, <1>0, <1>7 DEF Placed
  <2>2. PICK k \in 1..Len(q) : l = Place(n, k) /\ r[l] = q[k]
    BY Zenon, <1>0, <1>7 DEF Placed
  <2>3. /\ i = l <=> j = k
        /\ i <= l <=> j <= k
        /\ i < l <=> j < k
    BY Zenon, <1>2, <2>1, <2>2
  <2>4. /\ j <= k => q[j].time <= q[k].time
        /\ q[j].id = q[k].id => j = k
        /\ Precedes(q[j], q[k]) => j < k
    BY Zenon DEF Sorted, Distinct, Stable
  <2> QED
    BY Zenon, <2>1, <2>2, <2>3, <2>4
<1> QED
  BY Zenon, <1>4, <1>5, <1>6, <1>7

-----------------------------------------------------------------------------
(***************************************************************************)
(* The timer's operations.                                                 *)
(***************************************************************************)

\* A task that is nowhere, and that precedes none of the others, is added.
LEMMA InsertPart ==
  ASSUME NEW ex \in Seq(Task), NEW tp \in Seq(Task), NEW ad, NEW rn,
         NEW t \in Task, NEW n, NEW r,
         Part(ex, tp, ad, rn), Inserted(tp, n, t, r), Registered(t, ad),
         ~ In(t.id, ex), ~ In(t.id, tp), ~ Ran(t.id, rn),
         \A i \in 1..Len(ex) : ~ Precedes(t, ex[i]),
         \A i \in 1..Len(tp) : ~ Precedes(t, tp[i])
  PROVE  Part(ex, r, ad, rn)
<1>1. \A i \in 1..Len(r) : r[i] = t \/ \E j \in 1..Len(tp) : r[i] = tp[j]
  <2>1. Placed(tp, n, t, r)
    BY Zenon, Places
  <2> QED
    BY Zenon, <2>1 DEF Placed
<1>2. Sorted(r) /\ Distinct(r) /\ Stable(r)
  BY Zenon, InsertOrder DEF Part
<1>3. Apart(ex, r)
  BY Zenon, <1>1 DEF Part, Apart, In
<1>4. Ahead(ex, r)
  BY Zenon, <1>1 DEF Part, Ahead
<1>5. Known(r, ad)
  BY Zenon, <1>1 DEF Part, Known
<1>6. Past(ex, r, ad, rn)
  <2>1. \A x : In(x, r) <=> In(x, tp) \/ x = t.id
    BY Zenon, InsertIn
  <2> QED
    BY Zenon, <2>1 DEF Part, Past, Ran
<1> QED
  BY Zenon, <1>2, <1>3, <1>4, <1>5, <1>6 DEF Part

\* RunAt and the functions built on it: a new task is added.
LEMMA AddFresh ==
  ASSUME NEW ex \in Seq(Task), NEW tp \in Seq(Task), NEW ad \in Seq(Task),
         NEW rn \in Seq(Nat), NEW t \in Task,
         Timer(ex, tp, ad, rn), t.id = Len(ad) + 1
  PROVE  Timer(ex, AddTimeTask(tp, t), Append(ad, t), rn)
<1>1. PICK bd : bd = Append(ad, t)
  BY Zenon
<1>2. PICK m : m = Len(ad)
  BY Zenon
<1>3. /\ m \in Nat /\ bd \in Seq(Task) /\ Len(bd) = m + 1
      /\ \A i \in 1..m : bd[i] = ad[i]
      /\ bd[m + 1] = t
  BY <1>1, <1>2
<1>4. \A i \in 1..(m + 1) : i = m + 1 \/ i \in 1..m
  BY <1>3
<1>5. \A i \in 1..m : i \in 1..(m + 1) /\ i # m + 1 /\ ~ (m + 1 < i)
  BY <1>3
<1>6. t.id \notin 1..m /\ t.id = m + 1 /\ m + 1 \in 1..(m + 1)
  BY <1>2, <1>3
<1>7. Known(ex, ad) /\ Known(tp, ad)
  BY Zenon DEF Timer, Part
<1>8. Known(ex, bd) /\ Known(tp, bd)
  BY Zenon, <1>2, <1>3, <1>5, <1>7 DEF Known, Registered
<1>9. /\ ~ In(t.id, ex) /\ ~ In(t.id, tp)
      /\ \A i \in 1..Len(ex) : ex[i].id \in 1..m
      /\ \A i \in 1..Len(tp) : tp[i].id \in 1..m
  BY Zenon, <1>2, <1>6, <1>7 DEF Known, Registered, In
<1>10. ~ Ran(t.id, rn)
  BY Zenon, <1>2, <1>6 DEF Timer, Part, Past, Ran
<1>11. /\ \A i \in 1..Len(ex) : ~ Precedes(t, ex[i])
       /\ \A i \in 1..Len(tp) : ~ Precedes(t, tp[i])
  BY Zenon, <1>5, <1>6, <1>9 DEF Precedes
<1>12. Past(ex, tp, bd, rn)
  BY Zenon, <1>2, <1>3, <1>5 DEF Timer, Part, Past
<1>13. \A i \in 1..(m + 1) : bd[i].id = i
  BY Zenon, <1>2, <1>3, <1>4, <1>6 DEF Timer, Part
<1>14. InOrder(bd, rn)
  <2> SUFFICES ASSUME NEW i \in 1..(m + 1), NEW j \in 1..(m + 1),
                      Precedes(bd[i], bd[j]), Ran(j, rn)
               PROVE  Ran(i, rn)
    BY Zenon, <1>3 DEF InOrder
  <2>1. j \in 1..m
    BY Zenon, <1>4, <1>6, <1>10
  <2>2. i \in 1..m
    BY Zenon, <1>4, <1>5, <1>13, <2>1 DEF Precedes
  <2> QED
    BY Zenon, <1>2, <1>3, <2>1, <2>2 DEF Timer, Part, InOrder
<1>15. Part(ex, tp, bd, rn)
  BY Zenon, <1>3, <1>8, <1>12, <1>13, <1>14 DEF Timer, Part
<1>16. Registered(t, bd)
  BY Zenon, <1>3, <1>6 DEF Registered
<1>17. PICK r : r = AddTimeTask(tp, t)
  BY Zenon
<1>18. PICK n : Inserted(tp, n, t, r)
  BY Zenon, <1>17, AddInserts DEF Timer, Part
<1>19. Part(ex, r, bd, rn)
  BY Zenon, <1>9, <1>10, <1>11, <1>15, <1>16, <1>18, InsertPart
<1>20. Conserved(ex, r, bd, rn)
  <2>1. \A x : In(x, r) <=> In(x, tp) \/ x = t.id
    BY Zenon, <1>18, InsertIn
  <2> QED
    BY Zenon, <1>2, <1>3, <1>4, <1>6, <2>1 DEF Timer, Conserved
<1> QED
  BY Zenon, <1>1, <1>17, <1>19, <1>20 DEF Timer

\* RunEveryUntil: a periodic task that has been run is added again.
LEMMA AddAgain ==
  ASSUME NEW ex \in Seq(Task), NEW tp \in Seq(Task), NEW ad, NEW rn,
         NEW t \in Task, Timer(ex, tp, ad, rn), Registered(t, ad),
         t.context # 0, ~ In(t.id, ex), ~ In(t.id, tp)
  PROVE  Timer(ex, AddTimeTask(tp, t), ad, rn)
<1>1. PICK r : r = AddTimeTask(tp, t)
  BY Zenon
<1>2. PICK n : Inserted(tp, n, t, r)
  BY Zenon, <1>1, AddInserts DEF Timer, Part
<1>3. ~ Ran(t.id, rn)
  BY Zenon DEF Timer, Part, Past, Ran, Registered
<1>4. Part(ex, r, ad, rn)
  <2>1. /\ \A i \in 1..Len(ex) : ~ Precedes(t, ex[i])
        /\ \A i \in 1..Len(tp) : ~ Precedes(t, tp[i])
    BY Zenon DEF Precedes
  <2> QED
    BY Zenon, <1>2, <1>3, <2>1, InsertPart DEF Timer
<1>5. Conserved(ex, r, ad, rn)
  <2>1. \A x : In(x, r) <=> In(x, tp) \/ x = t.id
    BY Zenon, <1>2, InsertIn
  <2> QED
    BY Zenon, <2>1 DEF Timer, Conserved
<1> QED
  BY Zenon, <1>1, <1>4, <1>5 DEF Timer

\* GetExpiredTimeTasks: the first n tasks become the expired ones.
LEMMA Expire ==
  ASSUME NEW tp \in Seq(Task), NEW ad, NEW rn, NEW n \in 0..Len(tp),
         Timer(<<>>, tp, ad, rn)
  PROVE  Timer(SubSeq(tp, 1, n), SubSeq(tp, n + 1, Len(tp)), ad, rn)
<1>1. PICK a : a = SubSeq(tp, 1, n)
  BY Zenon
<1>2. PICK b : b = SubSeq(tp, n + 1, Len(tp))
  BY Zenon
<1>3. PICK m : m = Len(tp) - n
  BY Zenon
<1>4. /\ a \in Seq(Task) /\ Len(a) = n /\ b \in Seq(Task) /\ Len(b) = m
      /\ \A i \in 1..n : a[i] = tp[i]
      /\ \A i \in 1..m : b[i] = tp[n + i]
  BY Zenon, <1>1, <1>2, <1>3, CutSeq
<1>5. /\ Len(tp) \in Nat /\ m \in Nat /\ n \in Nat /\ Len(tp) = n + m
  <2>1. Len(tp) \in Nat
    BY Zenon, SeqLen
  <2> QED
    BY <1>3, <2>1
<1>6. /\ \A i \in 1..n : i \in 1..Len(tp)
      /\ \A i \in 1..m : n + i \in 1..Len(tp)
      /\ \A i \in 1..n, j \in 1..m : n + j # i /\ ~ (n + j < i)
      /\ \A i, j \in 1..m : /\ n + i = n + j => i = j
                            /\ i <= j => n + i <= n + j
                            /\ n + i < n + j => i < j
  BY <1>5
<1>7. \A i \in 1..Len(tp) : i \in 1..n \/ \E j \in 1..m : i = n + j
  <2> SUFFICES ASSUME NEW i \in 1..Len(tp), i \notin 1..n
               PROVE  \E j \in 1..m : i = n + j
    BY Zenon
  <2>1. i - n \in 1..m /\ i = n + (i - n)
    BY <1>5
  <2> QED
    BY Zenon, <2>1
<1>8. \A x : In(x, tp) <=> In(x, a) \/ In(x, b)
  <2>1. ASSUME NEW x, In(x, tp) PROVE In(x, a) \/ In(x, b)
    BY <1>4, <1>7, <2>1 DEF In
  <2>2. ASSUME NEW x, In(x, a) PROVE In(x, tp)
    BY Zenon, <1>4, <1>6, <2>2 DEF In
  <2>3. ASSUME NEW x, In(x, b) PROVE In(x, tp)
    <3>1. PICK i \in 1..Len(b) : b[i].id = x
      BY Zenon, <2>3 DEF In
    <3>2. n + i \in 1..Len(tp) /\ tp[n + i].id = x
      BY Zenon, <1>4, <1>6, <3>1
    <3> QED
      BY Zenon, <3>2 DEF In
  <2> QED
    BY Zenon, <2>1, <2>2, <2>3
<1>9. \A x : ~ In(x, <<>>)
  BY DEF In
<1>10. /\ Sorted(tp) /\ Distinct(tp) /\ Stable(tp) /\ Known(tp, ad)
       /\ Past(<<>>, tp, ad, rn) /\ Conserved(<<>>, tp, ad, rn)
  BY Zenon DEF Timer, Part
<1>11. Sorted(b)
  <2> SUFFICES ASSUME NEW i \in 1..m, NEW j \in 1..m, i <= j
               PROVE  b[i].time <= b[j].time
    BY Zenon, <1>4 DEF Sorted
  <2>1. tp[n + i].time <= tp[n + j].time
    BY Zenon, <1>6, <1>10 DEF Sorted
  <2> QED
    BY Zenon, <1>4, <2>1
<1>12. Distinct(a) /\ Distinct(b) /\ Apart(a, b)
  <2>1. Distinct(a)
    BY Zenon, <1>4, <1>6, <1>10 DEF Distinct
  <2>2. Distinct(b)
    BY <1>4, <1>6, <1>10 DEF Distinct
  <2>3. Apart(a, b)
    BY <1>4, <1>6, <1>10 DEF Distinct, Apart
  <2> QED
    BY Zenon, <2>1, <2>2, <2>3
<1>13. Stable(a) /\ Stable(b) /\ Ahead(a, b)
  <2>1. Stable(a)
    BY Zenon, <1>4, <1>6, <1>10 DEF Stable
  <2>2. Stable(b)
    BY Zenon, <1>4, <1>6, <1>10 DEF Stable
  <2>3. Ahead(a, b)
    BY Zenon, <1>4, <1>6, <1>10 DEF Stable, Ahead
  <2> QED
    BY Zenon, <2>1, <2>2, <2>3
<1>14. Known(a, ad) /\ Known(b, ad)
  BY Zenon, <1>4, <1>6, <1>10 DEF Known
<1>15. Past(a, b, ad, rn)
  BY Zenon, <1>8, <1>10 DEF Past
<1>16. Conserved(a, b, ad, rn)
  BY Zenon, <1>8, <1>9, <1>10 DEF Conserved
<1>17. Part(a, b, ad, rn)
  BY Zenon, <1>11, <1>12, <1>13, <1>14, <1>15 DEF Timer, Part
<1> QED
  BY Zenon, <1>1, <1>2, <1>16, <1>17 DEF Timer

\* What is left of the expired tasks ex when e has been taken out.
Taken(ex, e, f, tp, ad, rn) ==
  /\ f \in Seq(Task) /\ e \in Task
  /\ Part(f, tp, ad, rn)
  /\ Registered(e, ad)
  /\ ~ In(e.id, f) /\ ~ In(e.id, tp)
  /\ \A x : In(x, ex) <=> In(x, f) \/ x = e.id
  /\ \A i \in 1..Len(f) : ~ Precedes(f[i], e)

\* DoExpiredTimeTasks takes the expired tasks one by one.
LEMMA Take ==
  ASSUME NEW ex \in Seq(Task), ex # <<>>, NEW tp \in Seq(Task),
         NEW ad, NEW rn, Timer(ex, tp, ad, rn)
  PROVE  Taken(ex, Head(ex), Tail(ex), tp, ad, rn)
<1>1. PICK e : e = Head(ex)
  BY Zenon
<1>2. PICK f : f = Tail(ex)
  BY Zenon
<1>3. PICK m : m = Len(f)
  BY Zenon
<1>4. /\ f \in Seq(Task) /\ e \in Task /\ m \in Nat /\ Len(ex) = m + 1
      /\ e = ex[1] /\ \A i \in 1..m : f[i] = ex[i + 1]
  BY <1>1, <1>2, <1>3, SeqHeadTail, SeqLen
<1>5. /\ 1 \in 1..(m + 1)
      /\ \A i \in 1..m : /\ i + 1 \in 1..(m + 1) /\ i + 1 # 1
                         /\ ~ (i + 1 < 1)
      /\ \A i, j \in 1..m : /\ i + 1 = j + 1 => i = j
                            /\ i + 1 < j + 1 => i < j
  BY <1>4
<1>6. \A i \in 1..(m + 1) : i = 1 \/ \E j \in 1..m : i = j + 1
  <2> SUFFICES ASSUME NEW i \in 1..(m + 1), i # 1
               PROVE  \E j \in 1..m : i = j + 1
    BY Zenon
  <2>1. i - 1 \in 1..m /\ i = (i - 1) + 1
    BY <1>4
  <2> QED
    BY Zenon, <2>1
<1>7. /\ Distinct(ex) /\ Stable(ex) /\ Apart(ex, tp) /\ Ahead(ex, tp)
      /\ Known(ex, ad) /\ Past(ex, tp, ad, rn)
  BY Zenon DEF Timer, Part
<1>8. \A x : In(x, ex) <=> In(x, f) \/ x = e.id
  <2>1. ASSUME NEW x, In(x, ex) PROVE In(x, f) \/ x = e.id
    BY <1>3, <1>4, <1>6, <2>1 DEF In
  <2>2. ASSUME NEW x, In(x, f) PROVE In(x, ex)
    BY <1>3, <1>4, <1>5, <2>2 DEF In
  <2>3. In(e.id, ex)
    BY Zenon, <1>4, <1>5 DEF In
  <2> QED
    BY Zenon, <2>1, <2>2, <2>3
<1>9. /\ Registered(e, ad) /\ ~ In(e.id, f) /\ ~ In(e.id, tp)
      /\ \A i \in 1..m : ~ Precedes(f[i], e)
  <2>1. Registered(e, ad)
    BY Zenon, <1>4, <1>5, <1>7 DEF Known
  <2>2. ~ In(e.id, f)
    BY Zenon, <1>3, <1>4, <1>5, <1>7 DEF Distinct, In
  <2>3. ~ In(e.id, tp)
    BY Zenon, <1>4, <1>5, <1>7 DEF Apart, In
  <2>4. \A i \in 1..m : ~ Precedes(f[i], e)
    BY Zenon, <1>4, <1>5, <1>7 DEF Stable
  <2> QED
    BY Zenon, <2>1, <2>2, <2>3, <2>4
<1>10. Distinct(f) /\ Stable(f)
  <2>1. Distinct(f)
    BY <1>3, <1>4, <1>5, <1>7 DEF Distinct
  <2>2. Stable(f)
    BY Zenon, <1>3, <1>4, <1>5, <1>7 DEF Stable
  <2> QED
    BY Zenon, <2>1, <2>2
<1>11. Apart(f, tp) /\ Ahead(f, tp) /\ Known(f, ad)
  <2>1. Apart(f, tp)
    <3> SUFFICES ASSUME NEW i \in 1..m, NEW j \in 1..Len(tp)
                 PROVE  f[i].id # tp[j].id
      BY Zenon, <1>3 DEF Apart
    <3>1. ex[i + 1].id # tp[j].id
      BY Zenon, <1>4, <1>5, <1>7 DEF Apart
    <3> QED
      BY Zenon, <1>4, <3>1
  <2>2. Ahead(f, tp)
    BY Zenon, <1>3, <1>4, <1>5, <1>7 DEF Ahead
  <2>3. Known(f, ad)
    BY Zenon, <1>3, <1>4, <1>5, <1>7 DEF Known
  <2> QED
    BY Zenon, <2>1, <2>2, <2>3
<1>12. Past(f, tp, ad, rn)
  BY Zenon, <1>7, <1>8 DEF Past
<1>13. Part(f, tp, ad, rn)
  BY Zenon, <1>10, <1>11, <1>12 DEF Timer, Part
<1> QED
  BY Zenon, <1>1, <1>2, <1>3, <1>4, <1>8, <1>9, <1>13 DEF Taken

\* A one-shot task is run.
LEMMA RunOnce ==
  ASSUME NEW ex \in Seq(Task), ex # <<>>, NEW tp \in Seq(Task),
         NEW ad \in Seq(Task), NEW rn \in Seq(Nat), Timer(ex, tp, ad, rn),
         Head(ex).context = 0
  PROVE  Timer(Tail(ex), tp, ad, Append(rn, Head(ex).id))
<1>1. PICK e : e = Head(ex)
  BY Zenon
<1>2. PICK f : f = Tail(ex)
  BY Zenon
<1>3. Taken(ex, e, f, tp, ad, rn)
  BY Zenon, <1>1, <1>2, Take
<1>4. PICK m : m = Len(rn)
  BY Zenon
<1>5. PICK sn : sn = Append(rn, e.id)
  BY Zenon
<1>6. e.id \in Nat
  BY Zenon, <1>3 DEF Taken, Task
<1>7. /\ m \in Nat /\ Len(sn) = m + 1 /\ \A i \in 1..m : sn[i] = rn[i]
      /\ sn[m + 1] = e.id
  BY <1>4, <1>5, <1>6
<1>8. /\ \A i \in 1..(m + 1) : i = m + 1 \/ i \in 1..m
      /\ \A i \in 1..m : i \in 1..(m + 1)
      /\ m + 1 \in 1..(m + 1)
  BY <1>7
<1>9. \A x : Ran(x, sn) <=> Ran(x, rn) \/ x = e.id
  <2>1. ASSUME NEW x, Ran(x, sn) PROVE Ran(x, rn) \/ x = e.id
    BY Zenon, <1>4, <1>7, <1>8, <2>1 DEF Ran
  <2>2. ASSUME NEW x, Ran(x, rn) PROVE Ran(x, sn)
    BY Zenon, <1>4, <1>7, <1>8, <2>2 DEF Ran
  <2>3. Ran(e.id, sn)
    BY Zenon, <1>7, <1>8 DEF Ran
  <2> QED
    BY Zenon, <2>1, <2>2, <2>3
<1>10. e.context = 0 /\ e.id \in 1..Len(ad) /\ ad[e.id] = e /\ In(e.id, ex)
  BY Zenon, <1>1, <1>3 DEF Taken, Registered
<1>11. /\ Past(ex, tp, ad, rn) /\ Past(f, tp, ad, rn)
       /\ Conserved(ex, tp, ad, rn)
       /\ Ahead(ex, tp) /\ Known(f, ad) /\ Known(tp, ad) /\ InOrder(ad, rn)
       /\ \A i \in 1..Len(ad) : ad[i].id = i
  BY Zenon, <1>3 DEF Timer, Part, Taken
<1>12. Past(f, tp, ad, sn)
  <2>1. ~ Ran(e.id, rn)
    BY Zenon, <1>10, <1>11 DEF Past, Ran
  <2>2. ASSUME NEW i \in 1..(m + 1), NEW j \in 1..(m + 1), sn[i] = sn[j]
        PROVE  i = j
    <3>1. CASE i \in 1..m /\ j \in 1..m
      <4>1. rn[i] = rn[j]
        BY Zenon, <1>7, <2>2, <3>1
      <4> QED
        BY Zenon, <1>4, <1>11, <3>1, <4>1 DEF Past
    <3>2. CASE i = m + 1 /\ j \in 1..m
      <4>1. rn[j] = e.id
        BY Zenon, <1>7, <2>2, <3>2
      <4> QED
        BY Zenon, <1>4, <2>1, <3>2, <4>1 DEF Ran
    <3>3. CASE i \in 1..m /\ j = m + 1
      <4>1. rn[i] = e.id
        BY Zenon, <1>7, <2>2, <3>3
      <4> QED
        BY Zenon, <1>4, <2>1, <3>3, <4>1 DEF Ran
    <3> QED
      BY Zenon, <1>8, <3>1, <3>2, <3>3
  <2>3. ASSUME NEW i \in 1..(m + 1)
        PROVE  /\ sn[i] \in 1..Len(ad) /\ ad[sn[i]].context = 0
               /\ ~ In(sn[i], f) /\ ~ In(sn[i], tp)
    <3>1. CASE i = m + 1
      BY Zenon, <1>3, <1>7, <1>10, <3>1 DEF Taken
    <3>2. CASE i \in 1..m
      BY Zenon, <1>4, <1>7, <1>11, <3>2 DEF Past
    <3> QED
      BY Zenon, <1>8, <3>1, <3>2
  <2> QED
    BY Zenon, <1>7, <2>2, <2>3 DEF Past
<1>13. Conserved(f, tp, ad, sn)
  <2>1. \A x : In(x, ex) <=> In(x, f) \/ x = e.id
    BY Zenon, <1>3 DEF Taken
  <2> QED
    BY Zenon, <1>9, <1>11, <2>1 DEF Conserved
<1>14. InOrder(ad, sn)
  <2> SUFFICES ASSUME NEW i \in 1..Len(ad), NEW j \in 1..Len(ad),
                      Precedes(ad[i], ad[j]), Ran(j, sn)
               PROVE  Ran(i, sn)
    BY Zenon DEF InOrder
  <2>1. CASE Ran(j, rn)
    BY Zenon, <1>9, <1>11, <2>1 DEF InOrder
  <2>2. CASE j = e.id
    <3>1. Precedes(ad[i], e)
      BY Zenon, <1>10, <2>2
    <3>2. ~ In(i, f)
      <4> SUFFICES ASSUME NEW k \in 1..Len(f), f[k].id = i PROVE FALSE
        BY Zenon DEF In
      <4>1. Registered(f[k], ad) /\ ~ Precedes(f[k], e)
        BY Zenon, <1>3, <1>11 DEF Known, Taken
      <4>2. f[k].context = 0
        BY Zenon, <3>1, <4>1 DEF Registered, Precedes
      <4> QED
        BY Zenon, <3>1, <4>1, <4>2 DEF Registered
    <3>3. ~ In(i, tp)
      <4> SUFFICES ASSUME NEW k \in 1..Len(tp), tp[k].id = i PROVE FALSE
        BY Zenon DEF In
      <4>1. Registered(tp[k], ad)
        BY Zenon, <1>11 DEF Known
      <4>2. tp[k] = ad[i]
        BY Zenon, <3>1, <4>1 DEF Registered, Precedes
      <4>3. PICK l \in 1..Len(ex) : ex[l].id = e.id
        BY Zenon, <1>10 DEF In
      <4>4. ex[l] = e
        <5>1. Registered(ex[l], ad)
          BY Zenon DEF Timer, Part, Known
        <5> QED
          BY Zenon, <1>10, <4>3, <5>1 DEF Registered
      <4> QED
        BY Zenon, <1>11, <3>1, <4>2, <4>4 DEF Ahead
    <3>4. In(i, f) \/ i = e.id \/ Ran(i, rn)
      <4>1. ad[i].context = 0
        BY Zenon, <3>1 DEF Precedes
      <4> QED
        BY Zenon, <1>3, <1>11, <3>3, <4>1 DEF Conserved, Taken
    <3> QED
      BY Zenon, <1>9, <3>2, <3>4
  <2> QED
    BY Zenon, <1>9, <2>1, <2>2
<1>15. Part(f, tp, ad, sn)
  BY Zenon, <1>3, <1>12, <1>14 DEF Taken, Part
<1> QED
  BY Zenon, <1>1, <1>2, <1>5, <1>13, <1>15 DEF Timer

\* A periodic task is run, and is in the timer no more.
LEMMA RunPeriodic ==
  ASSUME NEW ex \in Seq(Task), ex # <<>>, NEW tp \in Seq(Task), NEW ad,
         NEW rn, Timer(ex, tp, ad, rn), Head(ex).context # 0
  PROVE  Timer(Tail(ex), tp, ad, rn)
<1>1. PICK e : e = Head(ex)
  BY Zenon
<1>2. PICK f : f = Tail(ex)
  BY Zenon
<1>3. Taken(ex, e, f, tp, ad, rn)
  BY Zenon, <1>1, <1>2, Take
<1>4. Conserved(f, tp, ad, rn)
  BY Zenon, <1>1, <1>3 DEF Timer, Taken, Registered, Conserved
<1> QED
  BY Zenon, <1>2, <1>3, <1>4 DEF Timer, Taken

-----------------------------------------------------------------------------
(***************************************************************************)
(* Types, and the timer's invariant.                                       *)
(***************************************************************************)

LEMMA AddType ==
  ASSUME NEW q \in Seq(Task), Sorted(q), NEW t \in Task
  PROVE  AddTimeTask(q, t) \in Seq(Task)
BY Zenon, AddInserts DEF Inserted

LEMMA NewTaskType ==
  ASSUME TypeOK, NEW call, NEW d \in Delays \cup {0}, MayRegister(call, d)
  PROVE  /\ NewTask(call, d) \in Task
         /\ NewTask(call, d).id = Len(added) + 1
         /\ NewTask(call, d).time >= now
<1>1. now \in Nat /\ Len(added) \in Nat
  BY Zenon, SeqLen DEF TypeOK
<1>2. d \in Nat
  BY ParametersAssumption
<1>3. call \in {"RunSoon", "RunAfter", "RunEveryFrom", "RunEvery"}
  BY Zenon, ParametersAssumption DEF MayRegister, CallNames
<1> QED
  BY <1>1, <1>2, <1>3 DEF NewTask, Task

LEMMA MillisecondType ==
  ASSUME NEW x \in Nat
  PROVE  GetMillisecond(x) \in Nat
<1>1. Milli \in Nat \ {0}
  BY Zenon, ParametersAssumption
<1> QED
  BY <1>1 DEF GetMillisecond

LEMMA Monotone ==
  ASSUME NEW x \in Nat, NEW y \in Nat, x <= y
  PROVE  GetMillisecond(x) <= GetMillisecond(y)
<1>1. PICK m : m = Milli /\ m \in Nat \ {0}
  BY Zenon, ParametersAssumption
<1>2. PICK a \in Nat : a = x \div m /\ m * a <= x
  BY <1>1
<1>3. PICK b \in Nat : b = y \div m /\ y < m * (b + 1)
  BY <1>1
<1>4. SUFFICES ASSUME b + 1 <= a PROVE FALSE
  BY <1>1, <1>2, <1>3 DEF GetMillisecond
<1>5. m * (b + 1) <= m * a
  BY <1>1, <1>2, <1>3, <1>4
<1> QED
  BY <1>1, <1>2, <1>3, <1>5

LEMMA HalfType ==
  /\ Half \in Nat /\ IntSpan \in Nat /\ Half < IntSpan
  /\ DefaultWait \in Nat /\ DefaultWait < IntSpan - Half
BY ParametersAssumption DEF Half

LEMMA IntType ==
  ASSUME NEW n \in Int
  PROVE  /\ ToInt(n) \in Int /\ ToInt(n) < IntSpan - Half
         /\ n >= -Half => ToInt(n) <= n
         /\ 0 <= n /\ n < IntSpan - Half => ToInt(n) = n
<1>1. PICK s : s = IntSpan /\ s \in Nat \ {0}
  BY Zenon, ParametersAssumption
<1>2. PICK h : h = Half /\ h \in Nat /\ h < s
  BY Zenon, <1>1, HalfType
<1>3. ToInt(n) = ((n + h) % s) - h
  BY Zenon, <1>1, <1>2 DEF ToInt, Half
<1>4. PICK k : k = n + h /\ k \in Int
  BY <1>2
<1>5. (k % s) \in 0..(s - 1)
  BY <1>1, <1>4
<1>6. k >= 0 => k % s <= k
  BY <1>1, <1>4
<1>7. k >= 0 /\ k < s => k % s = k
  BY <1>1, <1>4
<1> QED
  BY <1>1, <1>2, <1>3, <1>4, <1>5, <1>6, <1>7

LEMMA DurationType ==
  ASSUME NEW q \in Seq(Task), NEW x \in Nat
  PROVE  /\ GetMinTimeDuration(q, x) \in Nat
         /\ GetMinTimeDuration(q, x) < IntSpan - Half
<1>1. CASE q = <<>>
  BY Zenon, <1>1, HalfType DEF GetMinTimeDuration
<1>2. CASE q # <<>>
  <2>1. q[1] \in Task
    BY <1>2
  <2>2. PICK n : n = GetMillisecond(q[1].time) - GetMillisecond(x)
    BY Zenon
  <2>3. n \in Int
    <3>1. q[1].time \in Nat
      BY Zenon, <2>1 DEF Task
    <3>2. GetMillisecond(q[1].time) \in Nat /\ GetMillisecond(x) \in Nat
      BY Zenon, <3>1, MillisecondType
    <3> QED
      BY <2>2, <3>2
  <2>4. ToInt(n) \in Int /\ ToInt(n) < IntSpan - Half
    BY Zenon, <2>3, IntType
  <2>5. GetMinTimeDuration(q, x) = IF ToInt(n) > 0 THEN ToInt(n) ELSE 0
    BY Zenon, <1>2, <2>2 DEF GetMinTimeDuration
  <2> QED
    BY <2>4, <2>5, HalfType
<1> QED
  BY Zenon, <1>1, <1>2

\* The timer in a state.
TimerOK(ex, tp, ad, rn) ==
  /\ {tp, ex, ad} \subseteq Seq(Task) /\ rn \in Seq(Nat)
  /\ Timer(ex, tp, ad, rn)

LEMMA RegisterTimer ==
  ASSUME TypeOK, NEW call, NEW d \in Delays \cup {0}, MayRegister(call, d),
         NEW ex, NEW tp, NEW rn, TimerOK(ex, tp, added, rn)
  PROVE  TimerOK(ex, AddTimeTask(tp, NewTask(call, d)),
                 Append(added, NewTask(call, d)), rn)
<1>1. PICK t : t = NewTask(call, d)
  BY Zenon
<1>2. t \in Task /\ t.id = Len(added) + 1
  BY Zenon, <1>1, NewTaskType
<1>3. /\ ex \in Seq(Task) /\ tp \in Seq(Task) /\ added \in Seq(Task)
      /\ rn \in Seq(Nat) /\ Timer(ex, tp, added, rn)
  BY Zenon DEF TimerOK
<1>4. Timer(ex, AddTimeTask(tp, t), Append(added, t), rn)
  BY Zenon, <1>2, <1>3, AddFresh
<1>5. AddTimeTask(tp, t) \in Seq(Task)
  BY Zenon, <1>2, <1>3, AddType DEF Timer, Part
<1>6. Append(added, t) \in Seq(Task)
  BY <1>2, <1>3
<1> QED
  BY Zenon, <1>1, <1>3, <1>4, <1>5, <1>6 DEF TimerOK

LEMMA RunTimer ==
  ASSUME TypeOK, TimerOK(expired, time_points, added, ran),
         NEW call, NEW d \in Delays \cup {0}, NEW again,
         RunTask(call, d, again)
  PROVE  TimerOK(expired, time_points, added, ran)'
<1> DEFINE e == Head(expired)
           t == NewTask(call, d)
           q == IF MayRegister(call, d)
                THEN AddTimeTask(time_points, t) ELSE time_points
           next == [e EXCEPT !.time = return_time + e.context]
           repeat == e.context # 0 /\ again
           rn == IF e.context = 0 THEN Append(ran, e.id) ELSE ran
           ad == IF MayRegister(call, d) THEN Append(added, t) ELSE added
<1>1. /\ expired \in Seq(Task) /\ time_points \in Seq(Task)
      /\ added \in Seq(Task) /\ ran \in Seq(Nat)
      /\ Timer(expired, time_points, added, ran)
  BY Zenon DEF TimerOK
<1>2. /\ expired # <<>>
      /\ expired' = Tail(expired)
      /\ time_points' = IF repeat THEN AddTimeTask(q, next) ELSE q
      /\ ran' = rn
      /\ added' = ad
  BY Zenon DEF RunTask
<1>3. Taken(expired, e, Tail(expired), time_points, added, ran)
  BY Zenon, <1>1, <1>2, Take
<1>4. e \in Task /\ Tail(expired) \in Seq(Task)
  BY Zenon, <1>3 DEF Taken
<1>5. e.id \in Nat /\ e.context \in Nat
  BY Zenon, <1>4 DEF Task
<1>6. rn \in Seq(Nat)
  BY <1>1, <1>5
<1>7. Timer(Tail(expired), time_points, added, rn)
  <2>1. CASE e.context = 0
    BY Zenon, <1>1, <1>2, <2>1, RunOnce
  <2>2. CASE e.context # 0
    BY Zenon, <1>1, <1>2, <2>2, RunPeriodic
  <2> QED
    BY Zenon, <2>1, <2>2
<1>8. TimerOK(Tail(expired), time_points, added, rn)
  BY Zenon, <1>1, <1>4, <1>6, <1>7 DEF TimerOK
<1> HIDE DEF rn
<1>9. TimerOK(Tail(expired), q, ad, rn)
  <2>1. CASE MayRegister(call, d)
    BY Zenon, <1>8, <2>1, RegisterTimer
  <2>2. CASE ~ MayRegister(call, d)
    BY Zenon, <1>8, <2>2
  <2> QED
    BY Zenon, <2>1, <2>2
<1>10. ~ In(e.id, Tail(expired)) /\ ~ In(e.id, q) /\ Registered(e, ad)
  <2>1. /\ ~ In(e.id, Tail(expired)) /\ ~ In(e.id, time_points)
        /\ Registered(e, added)
    BY Zenon, <1>3 DEF Taken
  <2>2. CASE MayRegister(call, d)
    <3>1. t \in Task /\ t.id = Len(added) + 1
      BY Zenon, <2>2, NewTaskType
    <3>2. PICK n : Inserted(time_points, n, t, q)
      BY Zenon, <1>1, <2>2, <3>1, AddInserts DEF Timer, Part
    <3>3. In(e.id, q) <=> In(e.id, time_points) \/ e.id = t.id
      BY Zenon, <1>1, <3>1, <3>2, InsertIn
    <3>4. e.id \in 1..Len(added) /\ Len(added) \in Nat
      BY Zenon, <1>1, <2>1, SeqLen DEF Registered
    <3>5. e.id # t.id
      BY <3>1, <3>4
    <3>6. /\ Len(ad) = Len(added) + 1 /\ ad[e.id] = added[e.id]
      BY <1>1, <2>2, <3>1, <3>4
    <3>7. e.id \in 1..Len(ad)
      BY <3>4, <3>6
    <3>8. Registered(e, ad)
      BY Zenon, <2>1, <3>6, <3>7 DEF Registered
    <3> QED
      BY Zenon, <2>1, <3>3, <3>5, <3>8
  <2>3. CASE ~ MayRegister(call, d)
    BY Zenon, <2>1, <2>3
  <2> QED
    BY Zenon, <2>2, <2>3
<1>11. CASE ~ repeat
  BY Zenon, <1>2, <1>9, <1>11
<1>12. CASE repeat
  <2> HIDE DEF e
  <2>1. return_time \in Nat
    BY Zenon DEF TypeOK
  <2>2. /\ next \in Task /\ next.id = e.id /\ next.context = e.context
        /\ next.context # 0
    <3>1. PICK z \in Nat : z = return_time + e.context
      BY <1>5, <2>1
    <3>2. next = [e EXCEPT !.time = z] /\ e.context # 0
      BY Zenon, <1>12, <3>1
    <3> HIDE DEF next
    <3> QED
      BY Zenon, <1>4, <3>2 DEF Task
  <2> HIDE DEF q, ad, next
  <2>3. Registered(next, ad)
    BY Zenon, <1>10, <2>2 DEF Registered
  <2>4. /\ q \in Seq(Task) /\ Timer(Tail(expired), q, ad, rn)
        /\ ad \in Seq(Task)
    BY Zenon, <1>9 DEF TimerOK
  <2>5. Timer(Tail(expired), AddTimeTask(q, next), ad, rn)
    BY Zenon, <1>4, <1>10, <2>2, <2>3, <2>4, AddAgain
  <2>6. AddTimeTask(q, next) \in Seq(Task)
    BY Zenon, <2>2, <2>4, AddType DEF Timer, Part
  <2>7. TimerOK(Tail(expired), AddTimeTask(q, next), ad, rn)
    BY Zenon, <1>4, <1>9, <2>4, <2>5, <2>6 DEF TimerOK
  <2> QED
    BY Zenon, <1>2, <1>12, <2>7
<1> QED
  BY Zenon, <1>11, <1>12

\* The part of the types that is not the timer's.
LoopTypeOK ==
  /\ pc \in Pcs
  /\ {should_quit, quitting, readable, active} \subseteq BOOLEAN
  /\ {timeout, wake_at, return_time, now, faults} \subseteq Nat
  /\ poll \in {"none", "sq", "kernel", "cq"}
  /\ caller \in [Threads -> Caller]

LEMMA Assemble ==
  /\ TypedTimer <=> /\ LoopTypeOK
                    /\ TimerOK(expired, time_points, added, ran)
                    /\ pc # "Run" => expired = <<>>
  /\ TypedTimer' <=> /\ LoopTypeOK'
                     /\ TimerOK(expired, time_points, added, ran)'
                     /\ (pc # "Run" => expired = <<>>)'
<1>1. TypedTimer <=> /\ LoopTypeOK
                     /\ TimerOK(expired, time_points, added, ran)
                     /\ pc # "Run" => expired = <<>>
  BY Zenon DEF TypedTimer, TypeOK, LoopTypeOK, TimerInv, TimerOK
<1>2. TypedTimer' <=> /\ LoopTypeOK'
                      /\ TimerOK(expired, time_points, added, ran)'
                      /\ (pc # "Run" => expired = <<>>)'
  BY Zenon DEF TypedTimer, TypeOK, LoopTypeOK, TimerInv, TimerOK
<1> QED
  BY Zenon, <1>1, <1>2

LEMMA InitTimer ==
  ASSUME Init
  PROVE  TypedTimer
<1>1. /\ <<>> \in Seq(Task) /\ <<>> \in Seq(Nat) /\ Len(<<>>) = 0
      /\ \A i \in 1..0 : FALSE
  OBVIOUS
<1>2. Timer(<<>>, <<>>, <<>>, <<>>)
  <2>1. Part(<<>>, <<>>, <<>>, <<>>)
    BY Zenon, <1>1
       DEF Part, Sorted, Distinct, Apart, Stable, Ahead, Known, Past, InOrder
  <2> QED
    BY Zenon, <1>1, <2>1 DEF Timer, Conserved
<1>3. TimerOK(expired, time_points, added, ran)
  BY Zenon, <1>1, <1>2 DEF Init, TimerOK
<1>4. LoopTypeOK
  <2>1. 0 \in Nat /\ Epoch \in Nat /\ {TRUE, FALSE} \subseteq BOOLEAN
    BY Zenon, ParametersAssumption
  <2>2. Idle \in Caller
    BY Zenon DEF Idle, NoTask, Caller, Task
  <2>3. caller \in [Threads -> Caller]
    BY Zenon, <2>2 DEF Init
  <2> QED
    BY Zenon, <2>1, <2>3 DEF Init, LoopTypeOK, Pcs
<1> QED
  BY Zenon, <1>3, <1>4, Assemble DEF Init

\* Every step other than a registration, the start of a run and a run leaves
\* the timer alone.
Elsewhere ==
  \/ \E th \in Threads : Quit(th) \/ Finish(th)
  \/ Loop \/ Start \/ TestQuit \/ BeginPoll
  \/ WaitTimesOut \/ WokenUp \/ OtherCompletion
  \/ \E full \in BOOLEAN : HandlePollCqe(full)
  \/ EndPoll \/ DoWithActiveTasks \/ EndIteration \/ PollCompletes
  \/ Tick \/ Terminated \/ UNCHANGED vars

LEMMA ElsewhereTimer ==
  ASSUME TypeOK, Elsewhere
  PROVE  /\ LoopTypeOK'
         /\ UNCHANGED timerVars
         /\ pc' = "Run" => pc = "Run"
         /\ pc = "Run" => pc' = "Run" \/ expired = <<>>
<1> DEFINE Goal == /\ LoopTypeOK'
                   /\ UNCHANGED timerVars
                   /\ pc' = "Run" => pc = "Run"
                   /\ pc = "Run" => pc' = "Run" \/ expired = <<>>
<1>1. LoopTypeOK /\ time_points \in Seq(Task)
  BY Zenon DEF TypeOK, LoopTypeOK
<1>2. ASSUME NEW th \in Threads, Quit(th) PROVE Goal
  <2>1. caller' \in [Threads -> Caller]
    BY Zenon, <1>1, <1>2 DEF LoopTypeOK, Caller, Quit
  <2> QED
    BY Zenon, <1>1, <1>2, <2>1 DEF LoopTypeOK, Quit, timerVars, waitVars, wakeVars
<1>3. ASSUME NEW th \in Threads, ReadMin(th) PROVE Goal
  <2>1. GetMinTimeDuration(time_points, now) \in Nat
    BY Zenon, <1>1, DurationType DEF LoopTypeOK
  <2>2. caller' \in [Threads -> Caller]
    BY Zenon, <1>1, <1>3, <2>1 DEF LoopTypeOK, Caller, ReadMin
  <2> QED
    BY Zenon, <1>1, <1>3, <2>2 DEF LoopTypeOK, ReadMin, timerVars, waitVars, wakeVars
<1>4. ASSUME NEW th \in Threads, Compare(th) \/ WakeUp(th) PROVE Goal
  <2>1. Idle \in Caller
    BY Zenon DEF Idle, NoTask, Caller, Task
  <2>2. caller' \in [Threads -> Caller]
    BY Zenon, <1>1, <1>4, <2>1 DEF LoopTypeOK, Compare, WakeUp
  <2>3. readable' \in BOOLEAN
    BY Zenon, <1>1, <1>4 DEF LoopTypeOK, Compare, WakeUp
  <2> QED
    BY Zenon, <1>1, <1>4, <2>2, <2>3
       DEF LoopTypeOK, Compare, WakeUp, timerVars, waitVars
<1>5. CASE Loop \/ Start \/ TestQuit
  BY Zenon, <1>1, <1>5
     DEF LoopTypeOK, Loop, Start, TestQuit, timerVars, waitVars, wakeVars, Pcs
<1>6. CASE BeginPoll
  <2>1. GetMinTimeDuration(time_points, now) \in Nat
    BY Zenon, <1>1, DurationType DEF LoopTypeOK
  <2>2. GetMillisecond(now) \in Nat
    BY Zenon, <1>1, MillisecondType DEF LoopTypeOK
  <2>3. timeout' \in Nat /\ wake_at' \in Nat
    BY <1>6, <2>1, <2>2 DEF BeginPoll
  <2> QED
    BY Zenon, <1>1, <1>6, <2>3 DEF LoopTypeOK, BeginPoll, timerVars, wakeVars, Pcs
<1>7. CASE WaitTimesOut
  BY <1>1, <1>7 DEF LoopTypeOK, WaitTimesOut, SubmitPending, timerVars, Pcs
<1>8. CASE WokenUp \/ OtherCompletion
  BY <1>1, <1>8
     DEF LoopTypeOK, WokenUp, OtherCompletion, EndWait, timerVars, wakeVars, Pcs
<1>9. CASE \E full \in BOOLEAN : HandlePollCqe(full)
  BY <1>1, <1>9
     DEF LoopTypeOK, HandlePollCqe, SubmitPoll, timerVars, waitVars
<1>10. CASE EndPoll \/ DoWithActiveTasks
  BY Zenon, <1>1, <1>10
     DEF LoopTypeOK, EndPoll, SubmitPending, DoWithActiveTasks, DrainEventfd,
         timerVars, waitVars, Pcs
<1>11. CASE EndIteration \/ PollCompletes
  BY <1>1, <1>11
     DEF LoopTypeOK, EndIteration, PollCompletes, timerVars, waitVars, wakeVars,
         Pcs
<1>12. CASE Tick \/ Terminated \/ UNCHANGED vars
  BY <1>1, <1>12
     DEF LoopTypeOK, Tick, Terminated, vars, timerVars, waitVars, wakeVars
<1> QED
  BY Zenon, <1>2, <1>3, <1>4, <1>5, <1>6, <1>7, <1>8, <1>9, <1>10, <1>11, <1>12
     DEF Elsewhere, Finish

LEMMA NextTimer ==
  ASSUME TypedTimer, [Next]_vars
  PROVE  TypedTimer'
<1>1. /\ TypeOK /\ LoopTypeOK /\ TimerOK(expired, time_points, added, ran)
      /\ pc # "Run" => expired = <<>>
  BY Zenon, Assemble DEF TypedTimer
<1>2. CASE Elsewhere
  <2>1. /\ LoopTypeOK' /\ UNCHANGED timerVars
        /\ pc' = "Run" => pc = "Run"
        /\ pc = "Run" => pc' = "Run" \/ expired = <<>>
    BY Zenon, <1>1, <1>2, ElsewhereTimer
  <2>2. /\ expired' = expired /\ time_points' = time_points
        /\ added' = added /\ ran' = ran
    BY Zenon, <2>1 DEF timerVars
  <2>3. TimerOK(expired, time_points, added, ran)'
    BY Zenon, <1>1, <2>2
  <2>4. (pc # "Run" => expired = <<>>)'
    BY Zenon, <1>1, <2>1, <2>2
  <2> QED
    BY Zenon, <2>1, <2>3, <2>4, Assemble
<1>3. ASSUME NEW th \in Threads, NEW call \in Calls,
             NEW d \in Delays \cup {0}, Register(th, call, d)
      PROVE  TypedTimer'
  <2>1. /\ MayRegister(call, d)
        /\ expired' = expired /\ ran' = ran /\ pc' = pc
        /\ time_points' = AddTimeTask(time_points, NewTask(call, d))
        /\ added' = Append(added, NewTask(call, d))
    BY Zenon, <1>3 DEF Register
  <2>2. TimerOK(expired, AddTimeTask(time_points, NewTask(call, d)),
                Append(added, NewTask(call, d)), ran)
    BY Zenon, <1>1, <2>1, RegisterTimer
  <2>3. NewTask(call, d) \in Task
    BY Zenon, <1>1, <2>1, NewTaskType
  <2>4. caller' \in [Threads -> Caller]
    <3>1. PICK t \in Task : t = NewTask(call, d)
      BY Zenon, <2>3
    <3>2. [stage |-> IF call = "RunSoon" THEN "wake" ELSE "min",
           task |-> t, min |-> 0] \in Caller
      BY Zenon DEF Caller
    <3>3. caller' = [caller EXCEPT ![th] =
                       [stage |-> IF call = "RunSoon" THEN "wake" ELSE "min",
                        task |-> t, min |-> 0]]
      BY Zenon, <1>3, <3>1 DEF Register
    <3> QED
      BY Zenon, <1>1, <3>2, <3>3 DEF LoopTypeOK
  <2>5. LoopTypeOK'
    BY Zenon, <1>1, <1>3, <2>4 DEF LoopTypeOK, Register, waitVars, wakeVars
  <2>6. TimerOK(expired, time_points, added, ran)'
    BY Zenon, <2>1, <2>2
  <2>7. (pc # "Run" => expired = <<>>)'
    BY Zenon, <1>1, <2>1
  <2> QED
    BY Zenon, <2>5, <2>6, <2>7, Assemble
<1>4. CASE GetExpiredTimeTasks
  <2>1. /\ time_points \in Seq(Task) /\ now \in Nat /\ Sorted(time_points)
        /\ Timer(expired, time_points, added, ran)
    BY Zenon, <1>1 DEF TypeOK, TimerOK, Timer, Part
  <2>2. PICK n \in 0..Len(time_points) :
          /\ Cardinality({i \in 1..Len(time_points) :
                            time_points[i].time <= now}) = n
          /\ \A i \in 1..Len(time_points) : time_points[i].time <= now <=> i <= n
    BY Zenon, <2>1, Count
  <2>3. /\ pc = "Expired" /\ pc' = "Run" /\ added' = added /\ ran' = ran
        /\ expired' = SubSeq(time_points, 1, n)
        /\ time_points' = SubSeq(time_points, n + 1, Len(time_points))
    BY Zenon, <1>4, <2>2 DEF GetExpiredTimeTasks, IsExpired
  <2>4. expired = <<>>
    BY Zenon, <1>1, <2>3
  <2>5. Timer(<<>>, time_points, added, ran)
    BY Zenon, <2>1, <2>4
  <2>6. Timer(expired', time_points', added, ran)
    BY Zenon, <2>1, <2>3, <2>5, Expire
  <2>7. expired' \in Seq(Task) /\ time_points' \in Seq(Task)
    BY Zenon, <2>1, <2>3, CutSeq
  <2>8. TimerOK(expired, time_points, added, ran)'
    BY Zenon, <1>1, <2>3, <2>6, <2>7 DEF TimerOK
  <2>9. LoopTypeOK'
    BY Zenon, <1>1, <1>4 DEF LoopTypeOK, GetExpiredTimeTasks, waitVars, wakeVars, Pcs
  <2> QED
    BY Zenon, <2>3, <2>8, <2>9, Assemble
<1>5. ASSUME NEW call \in Calls \cup {"none"}, NEW d \in Delays \cup {0},
             NEW again \in BOOLEAN, RunTask(call, d, again)
      PROVE  TypedTimer'
  <2>1. TimerOK(expired, time_points, added, ran)'
    BY Zenon, <1>1, <1>5, RunTimer
  <2>2. pc = "Run" /\ pc' = pc
    BY Zenon, <1>5 DEF RunTask
  <2>3. {should_quit', quitting', readable'} \subseteq BOOLEAN
    BY Zenon, <1>1, <1>5 DEF LoopTypeOK, RunTask
  <2>4. LoopTypeOK'
    BY Zenon, <1>1, <1>5, <2>3 DEF LoopTypeOK, RunTask, waitVars
  <2> QED
    BY Zenon, <2>1, <2>2, <2>4, Assemble
<1> QED
  BY Zenon, <1>2, <1>3, <1>4, <1>5 DEF Next, Elsewhere, RunOne

-----------------------------------------------------------------------------
(***************************************************************************)
(* What the timer's invariant implies.                                     *)
(***************************************************************************)

\* Distinct values are as many as their indexes.
Values(f, m) == {f[i] : i \in 1..m}
HasValues(f, m) == IsFiniteSet(Values(f, m)) /\ Cardinality(Values(f, m)) = m

LEMMA Counted ==
  ASSUME NEW m \in Nat, NEW V, NEW f \in [1..m -> V],
         \A i, j \in 1..m : f[i] = f[j] => i = j
  PROVE  HasValues(f, m)
<1> DEFINE T == Values(f, m)
<1>1. IsFiniteSet(1..m) /\ Cardinality(1..m) = m
  <2>1. /\ IsFiniteSet(1..m)
        /\ Cardinality(1..m) = IF 1 > m THEN 0 ELSE m - 1 + 1
    <3>1. 1 \in Int /\ m \in Int
      OBVIOUS
    <3> QED
      BY Zenon, <3>1, FS_Interval
  <2> QED
    BY <2>1
<1>2. f \in [1..m -> T]
  <2>1. \A i \in 1..m : f[i] \in T
    BY Zenon DEF Values
  <2> QED
    BY Zenon, <2>1
<1>3. f \in Surjection(1..m, T)
  BY Zenon, <1>2 DEF Surjection, Values
<1>4. f \in Injection(1..m, T)
  BY Zenon, <1>2 DEF Injection, IsInjective
<1> HIDE DEF T
<1>5. IsFiniteSet(T) /\ Cardinality(T) = Cardinality(1..m)
  BY Zenon, <1>1, <1>3, <1>4, FS_Surjection
<1> QED
  BY Zenon, <1>1, <1>5 DEF T, HasValues

LEMMA IdsCounted ==
  ASSUME NEW q \in Seq(Task), Distinct(q)
  PROVE  IsFiniteSet(Ids(q)) /\ Cardinality(Ids(q)) = Len(q)
<1>1. PICK m \in Nat : m = Len(q)
  BY Zenon, SeqLen
<1>2. PICK f : f = [i \in 1..m |-> q[i].id]
  BY Zenon
<1>3. \A i \in 1..m : f[i] = q[i].id
  BY Zenon, <1>2
<1>4. f \in [1..m -> {q[i].id : i \in 1..m}]
  BY Zenon, <1>2
<1>5. \A i, j \in 1..m : f[i] = f[j] => i = j
  BY Zenon, <1>1, <1>3 DEF Distinct
<1>6. Ids(q) = Values(f, m)
  BY Zenon, <1>1, <1>3 DEF Ids, Values
<1>7. HasValues(f, m)
  BY Zenon, <1>4, <1>5, Counted
<1> QED
  BY Zenon, <1>1, <1>6, <1>7 DEF HasValues

LEMMA InIds ==
  ASSUME NEW q, NEW x
  PROVE  x \in Ids(q) <=> In(x, q)
BY Zenon DEF Ids, In

LEMMA TypedTimerConserves ==
  ASSUME TypedTimer
  PROVE  TasksConserved /\ NeverOvertaken
<1>1. /\ time_points \in Seq(Task) /\ expired \in Seq(Task)
      /\ added \in Seq(Task) /\ ran \in Seq(Nat)
      /\ Part(expired, time_points, added, ran)
      /\ Conserved(expired, time_points, added, ran)
  BY Zenon DEF TypedTimer, TypeOK, TimerInv, Timer
<1>2. \A x : x \in RanIds <=> Ran(x, ran)
  BY Zenon DEF RanIds, Ran
<1>3. \A i \in 1..Len(added) : added[i].id = i
  BY Zenon, <1>1 DEF Part
<1>4. Cardinality(RanIds) = Len(ran)
  <2>1. PICK m \in Nat : m = Len(ran)
    BY Zenon, <1>1, SeqLen
  <2>2. ran \in [1..m -> Nat]
    BY Zenon, <1>1, <2>1, SeqLen
  <2>3. \A i, j \in 1..m : ran[i] = ran[j] => i = j
    BY Zenon, <1>1, <2>1 DEF Part, Past
  <2>4. HasValues(ran, m)
    BY Zenon, <2>2, <2>3, Counted
  <2> QED
    BY Zenon, <2>1, <2>4 DEF RanIds, Values, HasValues
<1>5. Cardinality(Ids(time_points) \cup Ids(expired))
        = Len(time_points) + Len(expired)
  <2>1. /\ IsFiniteSet(Ids(time_points)) /\ IsFiniteSet(Ids(expired))
        /\ Cardinality(Ids(time_points)) = Len(time_points)
        /\ Cardinality(Ids(expired)) = Len(expired)
    BY Zenon, <1>1, IdsCounted DEF Part
  <2>2. Ids(time_points) \cap Ids(expired) = {}
    <3> SUFFICES ASSUME NEW x, In(x, time_points), In(x, expired) PROVE FALSE
      BY Zenon, InIds
    <3>1. PICK i \in 1..Len(time_points) : time_points[i].id = x
      BY Zenon DEF In
    <3>2. PICK j \in 1..Len(expired) : expired[j].id = x
      BY Zenon DEF In
    <3> QED
      BY Zenon, <1>1, <3>1, <3>2 DEF Part, Apart
  <2>3. Cardinality(Ids(time_points) \cup Ids(expired))
          = Cardinality(Ids(time_points)) + Cardinality(Ids(expired))
              - Cardinality(Ids(time_points) \cap Ids(expired))
    BY Zenon, <2>1, FS_Union
  <2>4. Cardinality(Ids(time_points) \cap Ids(expired)) = 0
    BY Zenon, <2>2, FS_EmptySet
  <2>5. Len(time_points) \in Nat /\ Len(expired) \in Nat
    BY Zenon, <1>1, SeqLen
  <2> QED
    BY <2>1, <2>3, <2>4, <2>5
<1>6. (Ids(time_points) \cup Ids(expired)) \cap RanIds = {}
  <2> SUFFICES ASSUME NEW x, In(x, time_points) \/ In(x, expired),
                      Ran(x, ran)
               PROVE  FALSE
    BY Zenon, <1>2, InIds
  <2>1. PICK i \in 1..Len(ran) : ran[i] = x
    BY Zenon DEF Ran
  <2> QED
    BY Zenon, <1>1, <2>1 DEF Part, Past
<1>7. \A i \in 1..Len(added) : added[i].context = 0 =>
        added[i].id \in Ids(time_points) \cup Ids(expired) \cup RanIds
  BY Zenon, <1>1, <1>2, <1>3, InIds DEF Conserved
<1>8. NeverOvertaken
  <2> SUFFICES ASSUME NEW i \in 1..Len(added), NEW j \in 1..Len(added),
                      i < j, added[i].time <= added[j].time,
                      added[i].context = 0, added[j].id \in RanIds
               PROVE  added[i].id \in RanIds
    BY Zenon DEF NeverOvertaken
  <2>1. Ran(j, ran)
    BY Zenon, <1>2, <1>3
  <2>2. added[j].context = 0
    BY Zenon, <1>1, <2>1 DEF Part, Past, Ran
  <2>3. Precedes(added[i], added[j])
    BY Zenon, <1>3, <2>2 DEF Precedes
  <2> QED
    BY Zenon, <1>1, <1>2, <1>3, <2>1, <2>3 DEF Part, InOrder
<1> QED
  BY Zenon, <1>4, <1>5, <1>6, <1>7, <1>8 DEF TasksConserved

\* A one-shot task is at every moment in exactly one of time_points_, the
\* expired tasks of DoExpiredTimeTasks and the past: no interleaving of
\* AddTimeTask with GetExpiredTimeTasks loses a task or runs it twice.
THEOREM SpecTasksConserved == Spec => []TasksConserved
<1>1. Init => TypedTimer
  BY Zenon, InitTimer
<1>2. TypedTimer /\ [Next]_vars => TypedTimer'
  BY Zenon, NextTimer
<1>3. TypedTimer => TasksConserved
  BY Zenon, TypedTimerConserves
<1> QED
  BY <1>1, <1>2, <1>3, PTL DEF Spec

\* A one-shot task is never overtaken by one that was registered after it and
\* is not due before it: the multimap's order, with equal keys in the order
\* of insertion, is the order of the runs.
THEOREM SpecNeverOvertaken == Spec => []NeverOvertaken
<1>1. Init => TypedTimer
  BY Zenon, InitTimer
<1>2. TypedTimer /\ [Next]_vars => TypedTimer'
  BY Zenon, NextTimer
<1>3. TypedTimer => NeverOvertaken
  BY Zenon, TypedTimerConserves
<1> QED
  BY <1>1, <1>2, <1>3, PTL DEF Spec

-----------------------------------------------------------------------------
(***************************************************************************)
(* The wait.                                                               *)
(***************************************************************************)

Added(q, t, r) ==
  /\ r[1] = t \/ (q # <<>> /\ r[1] = q[1])
  /\ \A i \in 1..Len(r) : r[i] = t \/ \E j \in 1..Len(q) : r[i] = q[j]

LEMMA AddHead ==
  ASSUME NEW q \in Seq(Task), Sorted(q), NEW t \in Task
  PROVE  Added(q, t, AddTimeTask(q, t))
<1>0. PICK r : r = AddTimeTask(q, t)
  BY Zenon
<1>1. PICK n : Inserted(q, n, t, r)
  BY Zenon, <1>0, AddInserts
<1>2. Placed(q, n, t, r)
  BY Zenon, <1>1, Places
<1>3. \A i \in 1..Len(r) : r[i] = t \/ \E j \in 1..Len(q) : r[i] = q[j]
  BY Zenon, <1>2 DEF Placed
<1>4. n \in 0..Len(q) /\ Len(q) \in Nat
  BY Zenon, <1>1, SeqLen DEF Inserted
<1>5. CASE n = 0
  <2>1. r[0 + 1] = t
    BY Zenon, <1>1, <1>5 DEF Inserted
  <2> QED
    BY <1>0, <1>3, <2>1 DEF Added
<1>6. CASE n # 0
  <2>1. 1 \in 1..n /\ q # <<>>
    BY <1>4, <1>6
  <2>2. r[1] = q[1]
    BY Zenon, <1>1, <2>1 DEF Inserted
  <2> QED
    BY Zenon, <1>0, <1>3, <2>1, <2>2 DEF Added
<1> QED
  BY Zenon, <1>5, <1>6

\* A new time point is not before the start of the loop.
LEMMA AddTimes ==
  ASSUME NEW q \in Seq(Task), Sorted(q), NEW t \in Task, t.time >= Epoch,
         \A i \in 1..Len(q) : q[i].time >= Epoch
  PROVE  \A i \in 1..Len(AddTimeTask(q, t)) :
           AddTimeTask(q, t)[i].time >= Epoch
<1>1. PICK r : r = AddTimeTask(q, t)
  BY Zenon
<1>2. \A i \in 1..Len(r) : r[i] = t \/ \E j \in 1..Len(q) : r[i] = q[j]
  BY Zenon, <1>1, AddHead DEF Added
<1>3. \A i \in 1..Len(r) : r[i].time >= Epoch
  BY Zenon, <1>2
<1> QED
  BY Zenon, <1>1, <1>3

LEMMA ClockedStep ==
  ASSUME TypedTimer, Clocked, [Next]_vars
  PROVE  Clocked'
<1>1. /\ now \in Nat /\ Epoch \in Nat /\ MaxTime \in Nat
      /\ time_points \in Seq(Task) /\ Sorted(time_points) /\ TypeOK
      /\ return_time \in Nat /\ now >= Epoch
      /\ \A i \in 1..Len(time_points) : time_points[i].time >= Epoch
  BY Zenon, ParametersAssumption
     DEF TypedTimer, TypeOK, TimerInv, Timer, Part, Clocked
<1>2. CASE Tick
  BY <1>1, <1>2 DEF Tick, Clocked, timerVars, waitVars
<1>3. CASE Loop \/ Start \/ TestQuit \/ BeginPoll \/ WaitTimesOut
  BY Zenon, <1>1, <1>3
     DEF Loop, Start, TestQuit, BeginPoll, WaitTimesOut, Clocked, timerVars,
         waitVars
<1>4. CASE \/ WokenUp \/ OtherCompletion \/ EndPoll \/ DoWithActiveTasks
           \/ EndIteration
  BY Zenon, <1>1, <1>4
     DEF WokenUp, OtherCompletion, EndWait, EndPoll, DoWithActiveTasks,
         EndIteration, Clocked, timerVars, waitVars
<1>5. CASE \/ \E full \in BOOLEAN : HandlePollCqe(full)
           \/ PollCompletes \/ Terminated \/ UNCHANGED vars
  BY Zenon, <1>1, <1>5
     DEF HandlePollCqe, PollCompletes, Terminated, vars, Clocked, timerVars,
         waitVars
<1>6. ASSUME NEW th \in Threads, Quit(th) \/ Finish(th)
      PROVE  Clocked'
  BY Zenon, <1>1, <1>6
     DEF Quit, Finish, ReadMin, Compare, WakeUp, Clocked, timerVars, waitVars
<1>7. ASSUME NEW th \in Threads, NEW call \in Calls,
             NEW d \in Delays \cup {0}, Register(th, call, d)
      PROVE  Clocked'
  <2>1. MayRegister(call, d)
    BY Zenon, <1>7 DEF Register
  <2>2. PICK t : t = NewTask(call, d)
    BY Zenon
  <2>3. t \in Task /\ t.time >= now
    BY Zenon, <1>1, <2>1, <2>2, NewTaskType
  <2>4. t.time >= Epoch
    <3>1. t.time \in Nat
      BY Zenon, <2>3 DEF Task
    <3> QED
      BY <1>1, <2>3, <3>1
  <2>5. /\ time_points' = AddTimeTask(time_points, t)
        /\ pc' = pc /\ now' = now /\ return_time' = return_time
    BY Zenon, <1>7, <2>2 DEF Register, waitVars
  <2>6. \A i \in 1..Len(time_points') : time_points'[i].time >= Epoch
    BY Zenon, <1>1, <2>3, <2>4, <2>5, AddTimes
  <2> QED
    BY Zenon, <2>5, <2>6 DEF Clocked
<1>8. CASE GetExpiredTimeTasks
  <2>1. PICK n \in 0..Len(time_points) :
          /\ Cardinality({i \in 1..Len(time_points) :
                            time_points[i].time <= now}) = n
          /\ \A i \in 1..Len(time_points) : time_points[i].time <= now <=> i <= n
    BY Zenon, <1>1, Count
  <2>2. /\ pc = "Expired" /\ now' = now /\ return_time' = return_time
        /\ time_points' = SubSeq(time_points, n + 1, Len(time_points))
    BY Zenon, <1>8, <2>1 DEF GetExpiredTimeTasks, IsExpired, waitVars
  <2>3. PICK m : m = Len(time_points) - n
    BY Zenon
  <2>4. /\ Len(time_points') = m
        /\ \A i \in 1..m : time_points'[i] = time_points[n + i]
    BY Zenon, <1>1, <2>1, <2>2, <2>3, CutSeq
  <2>5. \A i \in 1..m : n + i \in 1..Len(time_points)
    <3>1. Len(time_points) \in Nat
      BY Zenon, <1>1, SeqLen
    <3> QED
      BY <2>1, <2>3, <3>1
  <2>6. \A i \in 1..Len(time_points') : time_points'[i].time >= Epoch
    BY Zenon, <1>1, <2>4, <2>5
  <2>7. return_time' >= Epoch
    BY Zenon, <2>2 DEF Clocked
  <2> QED
    BY Zenon, <2>2, <2>6, <2>7 DEF Clocked
<1>9. ASSUME NEW call \in Calls \cup {"none"}, NEW d \in Delays \cup {0},
             NEW again \in BOOLEAN, RunTask(call, d, again)
      PROVE  Clocked'
  <2> DEFINE e == Head(expired)
             t == NewTask(call, d)
             q == IF MayRegister(call, d)
                  THEN AddTimeTask(time_points, t) ELSE time_points
             next == [e EXCEPT !.time = return_time + e.context]
             repeat == e.context # 0 /\ again
  <2>1. /\ pc = "Run" /\ pc' = pc /\ now' = now /\ return_time' = return_time
        /\ expired # <<>>
        /\ time_points' = IF repeat THEN AddTimeTask(q, next) ELSE q
    BY Zenon, <1>9 DEF RunTask, waitVars
  <2>2. /\ q \in Seq(Task) /\ Sorted(q)
        /\ \A i \in 1..Len(q) : q[i].time >= Epoch
    <3>1. CASE MayRegister(call, d)
      <4>1. t \in Task /\ t.time >= now
        BY Zenon, <1>1, <3>1, NewTaskType
      <4>2. t.time >= Epoch
        <5>1. t.time \in Nat
          BY Zenon, <4>1 DEF Task
        <5> HIDE DEF t
        <5> QED
          BY <1>1, <4>1, <5>1
      <4>3. \A i \in 1..Len(q) : q[i].time >= Epoch
        BY Zenon, <1>1, <3>1, <4>1, <4>2, AddTimes
      <4>4. TimerOK(expired, q, Append(added, t), ran)
        BY Zenon, <1>1, <3>1, RegisterTimer, Assemble
      <4> QED
        BY Zenon, <4>3, <4>4 DEF TimerOK, Timer, Part
    <3>2. CASE ~ MayRegister(call, d)
      BY Zenon, <1>1, <3>2
    <3> QED
      BY Zenon, <3>1, <3>2
  <2>3. \A i \in 1..Len(time_points') : time_points'[i].time >= Epoch
    <3>1. CASE ~ repeat
      BY Zenon, <2>1, <2>2, <3>1
    <3>2. CASE repeat
      <4>1. e \in Task /\ return_time >= Epoch
        <5>1. expired \in Seq(Task)
          BY Zenon, <1>1 DEF TypeOK
        <5> QED
          BY <2>1, <5>1 DEF Clocked
      <4> HIDE DEF e
      <4>2. e.context \in Nat
        BY Zenon, <4>1 DEF Task
      <4>3. PICK z \in Nat : z = return_time + e.context /\ z >= Epoch
        BY <1>1, <4>1, <4>2
      <4>4. next = [e EXCEPT !.time = z]
        BY Zenon, <4>3
      <4> HIDE DEF next
      <4>5. next \in Task /\ next.time >= Epoch
        BY <4>1, <4>3, <4>4 DEF Task
      <4> HIDE DEF q
      <4> QED
        BY Zenon, <2>1, <2>2, <3>2, <4>5, AddTimes
    <3> QED
      BY Zenon, <3>1, <3>2
  <2> QED
    BY Zenon, <2>1, <2>3 DEF Clocked
<1> QED
  BY Zenon, <1>2, <1>3, <1>4, <1>5, <1>6, <1>7, <1>8, <1>9 DEF Next, RunOne

LEMMA ArmedStep ==
  ASSUME TypeOK, Armed, [Next]_vars
  PROVE  Armed'
<1>1. faults \in Nat
  BY Zenon DEF TypeOK
<1>2. CASE Elsewhere
  <2>1. CASE \/ Loop \/ Start \/ TestQuit \/ BeginPoll \/ WokenUp
             \/ OtherCompletion \/ EndIteration
    BY Zenon, <2>1
       DEF Loop, Start, TestQuit, BeginPoll, WokenUp, OtherCompletion, EndWait,
           EndIteration, Armed, wakeVars
  <2>2. CASE WaitTimesOut \/ EndPoll \/ DoWithActiveTasks \/ PollCompletes
    BY Zenon, <2>2
       DEF WaitTimesOut, EndPoll, SubmitPending, DoWithActiveTasks,
           PollCompletes, Armed
  <2>3. CASE \E full \in BOOLEAN : HandlePollCqe(full)
    BY <1>1, <2>3 DEF HandlePollCqe, SubmitPoll, Armed
  <2>4. CASE Tick \/ Terminated \/ UNCHANGED vars
    BY Zenon, <2>4 DEF Tick, Terminated, vars, wakeVars, Armed
  <2>5. ASSUME NEW th \in Threads, Quit(th) \/ Finish(th) PROVE Armed'
    BY Zenon, <2>5 DEF Quit, Finish, ReadMin, Compare, WakeUp, wakeVars, Armed
  <2> QED
    BY Zenon, <1>2, <2>1, <2>2, <2>3, <2>4, <2>5 DEF Elsewhere
<1>3. ASSUME NEW th \in Threads, NEW call \in Calls,
             NEW d \in Delays \cup {0}, Register(th, call, d)
      PROVE  Armed'
  <2>1. pc' = pc /\ poll' = poll /\ faults' = faults
    BY Zenon, <1>3 DEF Register, wakeVars
  <2> QED
    BY Zenon, <2>1 DEF Armed
<1>4. CASE GetExpiredTimeTasks
  <2>1. pc = "Expired" /\ pc' = "Run" /\ poll' = poll /\ faults' = faults
    BY Zenon, <1>4 DEF GetExpiredTimeTasks, wakeVars
  <2> QED
    BY Zenon, <2>1 DEF Armed
<1>5. ASSUME NEW call \in Calls \cup {"none"}, NEW d \in Delays \cup {0},
             NEW again \in BOOLEAN, RunTask(call, d, again)
      PROVE  Armed'
  <2>1. pc' = pc /\ poll' = poll /\ faults' = faults
    BY Zenon, <1>5 DEF RunTask
  <2> QED
    BY Zenon, <2>1 DEF Armed
<1> QED
  BY Zenon, <1>2, <1>3, <1>4, <1>5 DEF Next, Elsewhere, RunOne

\* The steps after which the loop does not wait.
LEMMA NotWaiting ==
  ASSUME \/ Loop \/ Start \/ TestQuit \/ WaitTimesOut \/ WokenUp
         \/ OtherCompletion \/ \E full \in BOOLEAN : HandlePollCqe(full)
         \/ EndPoll \/ DoWithActiveTasks \/ GetExpiredTimeTasks \/ RunOne
         \/ EndIteration \/ Terminated
  PROVE  /\ pc' # "Wait"
         /\ pc' = "Timeout" => should_quit' = FALSE
<1>1. CASE \/ Loop \/ Start \/ TestQuit \/ WaitTimesOut \/ WokenUp
           \/ OtherCompletion \/ EndPoll \/ DoWithActiveTasks
  BY <1>1
     DEF Loop, Start, TestQuit, WaitTimesOut, WokenUp, OtherCompletion, EndWait,
         EndPoll, DoWithActiveTasks
<1>2. CASE GetExpiredTimeTasks \/ RunOne \/ EndIteration
  <2>1. pc' = "Run" \/ pc' = "Test"
    BY Zenon, <1>2 DEF GetExpiredTimeTasks, RunOne, RunTask, EndIteration
  <2> QED
    BY Zenon, <2>1
<1>3. CASE \/ \E full \in BOOLEAN : HandlePollCqe(full)
           \/ Terminated
  <2>1. pc' = "Batch" \/ pc' = "Exit"
    BY Zenon, <1>3 DEF HandlePollCqe, Terminated, vars
  <2> QED
    BY Zenon, <2>1
<1> QED
  BY Zenon, <1>1, <1>2, <1>3

LEMMA QuitSeenStep ==
  ASSUME TypeOK, Armed, QuitSeen, [Next]_vars
  PROVE  QuitSeen'
<1>1. /\ caller \in [Threads -> Caller] /\ readable \in BOOLEAN
      /\ should_quit \in BOOLEAN
  BY Zenon DEF TypeOK
<1>2. CASE \/ Loop \/ Start \/ TestQuit \/ WaitTimesOut \/ WokenUp
           \/ OtherCompletion \/ \E full \in BOOLEAN : HandlePollCqe(full)
           \/ EndPoll \/ DoWithActiveTasks \/ GetExpiredTimeTasks \/ RunOne
           \/ EndIteration \/ Terminated
  <2>1. pc' # "Wait" /\ (pc' = "Timeout" => should_quit' = FALSE)
    BY Zenon, <1>2, NotWaiting
  <2> QED
    BY Zenon, <2>1 DEF QuitSeen
<1>3. CASE BeginPoll \/ Tick \/ UNCHANGED vars
  <2>1. /\ caller' = caller /\ readable' = readable /\ poll' = poll
        /\ faults' = faults /\ should_quit' = should_quit
    BY Zenon, <1>3 DEF BeginPoll, Tick, vars, wakeVars
  <2>2. pc' \in {"Timeout", "Wait"} => pc \in {"Timeout", "Wait"}
    BY Zenon, <1>3 DEF BeginPoll, Tick, vars
  <2>3. WakeUpComing' = WakeUpComing
    BY Zenon, <2>1 DEF WakeUpComing
  <2> QED
    BY Zenon, <2>1, <2>2, <2>3 DEF QuitSeen
<1>4. CASE PollCompletes
  BY Zenon, <1>4 DEF PollCompletes, QuitSeen, WakeUpComing
<1>5. ASSUME NEW th \in Threads, Quit(th) PROVE QuitSeen'
  <2>1. caller'[th].stage = "wake"
    BY Zenon, <1>1, <1>5 DEF Quit, Caller
  <2> QED
    BY Zenon, <2>1 DEF QuitSeen
<1>6. ASSUME NEW th \in Threads, WakeUp(th) PROVE QuitSeen'
  <2>1. readable' = TRUE /\ poll' = poll /\ faults' = faults /\ pc' = pc
    BY Zenon, <1>6 DEF WakeUp
  <2> QED
    BY Zenon, <2>1 DEF QuitSeen, WakeUpComing, Armed
<1>7. ASSUME NEW th \in Threads, caller[th].stage # "wake",
             \A o \in Threads \ {th} : caller'[o] = caller[o],
             pc' = pc, should_quit' = should_quit, faults' = faults,
             poll' = poll, readable => readable'
      PROVE  QuitSeen'
  <2>1. WakeUpComing => WakeUpComing'
    BY Zenon, <1>7 DEF WakeUpComing
  <2> QED
    BY Zenon, <1>7, <2>1 DEF QuitSeen
<1>8. ASSUME NEW th \in Threads, ReadMin(th) PROVE QuitSeen'
  <2>1. \A o \in Threads \ {th} : caller'[o] = caller[o]
    BY Zenon, <1>1, <1>8 DEF ReadMin
  <2>2. caller[th].stage # "wake"
    BY Zenon, <1>8 DEF ReadMin
  <2>3. /\ pc' = pc /\ should_quit' = should_quit /\ faults' = faults
        /\ poll' = poll /\ readable' = readable
    BY Zenon, <1>8 DEF ReadMin, wakeVars
  <2> QED
    BY Zenon, <1>7, <2>1, <2>2, <2>3
<1>9. ASSUME NEW th \in Threads, Compare(th) PROVE QuitSeen'
  <2>1. \A o \in Threads \ {th} : caller'[o] = caller[o]
    BY Zenon, <1>1, <1>9 DEF Compare
  <2>2. caller[th].stage # "wake"
    BY Zenon, <1>9 DEF Compare
  <2>3. /\ pc' = pc /\ should_quit' = should_quit /\ faults' = faults
        /\ poll' = poll /\ (readable => readable')
    BY Zenon, <1>9 DEF Compare
  <2> QED
    BY Zenon, <1>7, <2>1, <2>2, <2>3
<1>10. ASSUME NEW th \in Threads, NEW call \in Calls,
              NEW d \in Delays \cup {0}, Register(th, call, d)
       PROVE  QuitSeen'
  <2>1. \A o \in Threads \ {th} : caller'[o] = caller[o]
    <3>1. PICK x : caller' = [caller EXCEPT ![th] = x]
      BY Zenon, <1>10 DEF Register
    <3> QED
      BY Zenon, <1>1, <3>1
  <2>2. caller[th].stage # "wake"
    <3>1. caller[th].stage = "idle"
      BY Zenon, <1>10 DEF Register
    <3> QED
      BY Zenon, <3>1
  <2>3. /\ pc' = pc /\ should_quit' = should_quit /\ faults' = faults
        /\ poll' = poll /\ readable' = readable
    BY Zenon, <1>10 DEF Register, wakeVars
  <2> QED
    BY Zenon, <1>7, <2>1, <2>2, <2>3
<1> QED
  BY Zenon, <1>2, <1>3, <1>4, <1>5, <1>6, <1>8, <1>9, <1>10
     DEF Next, Finish

\* The steps of a wait.
LEMMA WaitSteps ==
  ASSUME [Next]_vars, pc' = "Wait"
  PROVE  \/ BeginPoll \/ PollCompletes \/ Tick \/ UNCHANGED vars
         \/ \E th \in Threads :
              \/ Quit(th) \/ Finish(th)
              \/ \E call \in Calls, d \in Delays \cup {0} :
                   Register(th, call, d)
BY Zenon, NotWaiting DEF Next

LEMMA LimitedStep ==
  ASSUME TypeOK, Limited, [Next]_vars
  PROVE  Limited'
<1> SUFFICES ASSUME pc' = "Wait"
             PROVE  /\ timeout' < IntSpan - Half
                    /\ wake_at' <= GetMillisecond(now') + timeout'
  BY Zenon DEF Limited, GetMillisecond
<1>1. /\ now \in Nat /\ timeout \in Nat /\ wake_at \in Nat
      /\ time_points \in Seq(Task) /\ MaxTime \in Nat
  BY Zenon, ParametersAssumption DEF TypeOK
<1>2. GetMillisecond(now) \in Nat
  BY Zenon, <1>1, MillisecondType
<1>3. CASE BeginPoll
  <2>1. PICK x \in Nat : x = GetMinTimeDuration(time_points, now)
                         /\ x < IntSpan - Half
    BY Zenon, <1>1, DurationType
  <2>2. timeout' = x /\ wake_at' = GetMillisecond(now) + x /\ now' = now
    BY Zenon, <1>3, <2>1 DEF BeginPoll
  <2>3. wake_at' <= GetMillisecond(now) + timeout'
    BY <1>2, <2>1, <2>2
  <2> QED
    BY Zenon, <2>1, <2>2, <2>3
<1>4. CASE Tick
  <2>1. now' = now + 1 /\ timeout' = timeout /\ wake_at' = wake_at /\ pc' = pc
    BY Zenon, <1>4 DEF Tick, waitVars
  <2>2. now' \in Nat /\ now <= now'
    BY <1>1, <2>1
  <2>3. GetMillisecond(now) <= GetMillisecond(now')
    BY Zenon, <1>1, <2>2, Monotone
  <2>4. GetMillisecond(now') \in Nat
    BY Zenon, <2>2, MillisecondType
  <2>5. timeout < IntSpan - Half /\ wake_at <= GetMillisecond(now) + timeout
    BY Zenon, <2>1 DEF Limited
  <2> QED
    BY <1>1, <1>2, <2>1, <2>3, <2>4, <2>5
<1>5. CASE pc' = pc /\ timeout' = timeout /\ wake_at' = wake_at /\ now' = now
  BY Zenon, <1>5 DEF Limited
<1>6. CASE PollCompletes \/ UNCHANGED vars
  BY Zenon, <1>5, <1>6 DEF PollCompletes, vars, waitVars
<1>7. ASSUME NEW th \in Threads, Quit(th) \/ Finish(th)
      PROVE  pc' = pc /\ timeout' = timeout /\ wake_at' = wake_at /\ now' = now
  BY Zenon, <1>7 DEF Quit, Finish, ReadMin, Compare, WakeUp, waitVars
<1>8. ASSUME NEW th \in Threads, NEW call \in Calls,
             NEW d \in Delays \cup {0}, Register(th, call, d)
      PROVE  pc' = pc /\ timeout' = timeout /\ wake_at' = wake_at /\ now' = now
  BY Zenon, <1>8 DEF Register, waitVars
<1> QED
  BY Zenon, <1>3, <1>4, <1>5, <1>6, <1>7, <1>8, WaitSteps

\* The milliseconds until the first task: not beyond what an int can count.
LEMMA FirstTask ==
  ASSUME ShortRun, TypeOK, Clocked, time_points # <<>>
  PROVE  /\ time_points[1].time \in Nat
         /\ GetMillisecond(time_points[1].time) \in Nat
         /\ GetMillisecond(now) \in Nat
         /\ GetMillisecond(time_points[1].time) - GetMillisecond(now) >= -Half
<1>1. /\ now \in Nat /\ Epoch \in Nat /\ MaxTime \in Nat
      /\ time_points \in Seq(Task)
  BY Zenon, ParametersAssumption DEF TypeOK
<1>2. time_points[1] \in Task /\ 1 \in 1..Len(time_points)
  BY <1>1
<1>3. time_points[1].time \in Nat
  BY Zenon, <1>2 DEF Task
<1>4. Epoch <= time_points[1].time
  <2>1. time_points[1].time >= Epoch
    BY Zenon, <1>2 DEF Clocked
  <2> QED
    BY Zenon, <1>1, <1>3, <2>1
<1>5. GetMillisecond(Epoch) <= GetMillisecond(time_points[1].time)
  BY Zenon, <1>1, <1>3, <1>4, Monotone
<1>6. /\ GetMillisecond(Epoch) \in Nat /\ GetMillisecond(MaxTime) \in Nat
      /\ GetMillisecond(now) \in Nat
      /\ GetMillisecond(time_points[1].time) \in Nat
  BY Zenon, <1>1, <1>3, MillisecondType
<1>7. GetMillisecond(now) - GetMillisecond(Epoch) <= Half
  <2>1. CASE now = Epoch
    BY <1>6, <2>1, HalfType
  <2>2. CASE now <= MaxTime
    <3>1. GetMillisecond(now) <= GetMillisecond(MaxTime)
      BY Zenon, <1>1, <2>2, Monotone
    <3> QED
      BY <1>6, <3>1, HalfType DEF ShortRun
  <2> QED
    BY Zenon, <2>1, <2>2 DEF Clocked
<1> QED
  BY <1>3, <1>5, <1>6, <1>7, HalfType

\* GetMinTimeDuration is never longer than the time until the first task,
\* and as long if that is less than an int can count.
LEMMA FirstDuration ==
  ASSUME ShortRun, TypeOK, Clocked, time_points # <<>>,
         NEW x, x = GetMillisecond(time_points[1].time) - GetMillisecond(now)
  PROVE  /\ x \in Int /\ ToInt(x) \in Int /\ ToInt(x) <= x
         /\ GetMinTimeDuration(time_points, now) # 0 =>
              GetMinTimeDuration(time_points, now) <= x
         /\ x < IntSpan - Half => GetMinTimeDuration(time_points, now) >= x
<1>1. x \in Int /\ x >= -Half
  BY FirstTask
<1>2. /\ ToInt(x) \in Int /\ ToInt(x) <= x
      /\ 0 <= x /\ x < IntSpan - Half => ToInt(x) = x
  BY Zenon, <1>1, IntType
<1>3. GetMinTimeDuration(time_points, now) = IF ToInt(x) > 0 THEN ToInt(x) ELSE 0
  BY Zenon DEF GetMinTimeDuration
<1>4. GetMinTimeDuration(time_points, now) # 0 =>
        GetMinTimeDuration(time_points, now) <= x
  BY Zenon, <1>1, <1>2, <1>3
<1>5. x < IntSpan - Half => GetMinTimeDuration(time_points, now) >= x
  BY <1>1, <1>2, <1>3
<1> QED
  BY Zenon, <1>1, <1>2, <1>4, <1>5

LEMMA CoveredStep ==
  ASSUME ShortRun, TypedTimer, Clocked, Armed, Limited, Covered, [Next]_vars
  PROVE  Covered'
<1> SUFFICES ASSUME TooLong'
             PROVE  (\E th \in Threads : Responsible(th))'
  BY Zenon DEF Covered
<1>1. /\ TypeOK /\ caller \in [Threads -> Caller] /\ readable \in BOOLEAN
      /\ time_points \in Seq(Task) /\ Sorted(time_points)
      /\ now \in Nat /\ timeout \in Nat /\ wake_at \in Nat
  BY Zenon DEF TypedTimer, TypeOK, TimerInv, Timer, Part
<1>2. /\ pc' = "Wait" /\ timeout' # 0 /\ faults' = 0 /\ ~ WakeUpComing'
      /\ time_points' # <<>>
      /\ GetMillisecond(time_points'[1].time) < wake_at'
  BY Zenon DEF TooLong, GetMillisecond
<1>3. ASSUME NEW o \in Threads, Responsible(o), caller'[o] = caller[o],
             time_points'[1] = time_points[1], now' = now
      PROVE  Responsible(o)'
  BY Zenon, <1>3 DEF Responsible, GetMillisecond
\* A step that leaves the wait and the timer as they are.
<1>4. ASSUME pc' = pc, timeout' = timeout, wake_at' = wake_at,
             faults' = faults, poll' = poll, readable => readable',
             time_points # <<>>, time_points'[1] = time_points[1]
      PROVE  TooLong /\ \E o \in Threads : Responsible(o)
  <2>1. ~ WakeUpComing
    BY Zenon, <1>2, <1>4 DEF WakeUpComing
  <2>2. TooLong
    BY Zenon, <1>2, <1>4, <2>1 DEF TooLong
  <2> QED
    BY Zenon, <2>2 DEF Covered
<1>5. CASE BeginPoll
  <2>1. /\ time_points' = time_points /\ now' = now
        /\ timeout' = GetMinTimeDuration(time_points, now)
        /\ wake_at' = GetMillisecond(now) + timeout'
    BY Zenon, <1>5 DEF BeginPoll, timerVars
  <2>2. PICK x : x = GetMillisecond(time_points[1].time) - GetMillisecond(now)
    BY Zenon
  <2>3. x \in Int /\ timeout' <= x
    BY Zenon, <1>1, <1>2, <2>1, <2>2, FirstDuration
  <2>4. /\ GetMillisecond(time_points[1].time) \in Nat
        /\ GetMillisecond(now) \in Nat
    BY Zenon, <1>1, <1>2, <2>1, FirstTask
  <2>5. timeout' \in Nat
    BY Zenon, <1>1, <2>1, DurationType
  <2>6. ~ (GetMillisecond(time_points[1].time) < wake_at')
    BY <2>1, <2>2, <2>3, <2>4, <2>5
  <2> QED
    BY Zenon, <1>2, <2>1, <2>6
<1>6. CASE PollCompletes
  <2>1. poll' = "cq"
    BY Zenon, <1>6 DEF PollCompletes
  <2> QED
    BY Zenon, <1>2, <2>1 DEF WakeUpComing
<1>7. CASE UNCHANGED vars
  <2>1. /\ pc' = pc /\ timeout' = timeout /\ wake_at' = wake_at
        /\ faults' = faults /\ poll' = poll /\ readable' = readable
        /\ time_points' = time_points /\ caller' = caller /\ now' = now
    BY Zenon, <1>7 DEF vars, waitVars, wakeVars, timerVars
  <2> QED
    BY Zenon, <1>2, <1>3, <1>4, <2>1
<1>8. CASE Tick
  <2>1. /\ pc' = pc /\ timeout' = timeout /\ wake_at' = wake_at
        /\ faults' = faults /\ poll' = poll /\ readable' = readable
        /\ time_points' = time_points /\ caller' = caller /\ now' = now + 1
    BY Zenon, <1>8 DEF Tick, waitVars, wakeVars, timerVars
  <2>2. PICK o \in Threads : Responsible(o)
    BY Zenon, <1>2, <1>4, <2>1
  <2>3. time_points # <<>>
    BY Zenon, <1>2, <2>1
  <2>4. /\ GetMillisecond(time_points[1].time) \in Nat
        /\ GetMillisecond(now) \in Nat
    BY Zenon, <1>1, <2>3, FirstTask
  <2>5. now' \in Nat /\ now <= now'
    BY <1>1, <2>1
  <2>6. GetMillisecond(now') \in Nat /\ GetMillisecond(now) <= GetMillisecond(now')
    BY Zenon, <1>1, <2>5, Monotone, MillisecondType
  <2>7. caller[o].min \in Nat
    BY Zenon, <1>1 DEF Caller
  <2>8. caller[o].stage = "compare" =>
          caller[o].min >= GetMillisecond(time_points[1].time)
                             - GetMillisecond(now')
    <3>1. caller[o].stage = "compare" =>
            caller[o].min >= GetMillisecond(time_points[1].time)
                               - GetMillisecond(now)
      BY Zenon, <2>2 DEF Responsible
    <3> QED
      BY <2>4, <2>6, <2>7, <3>1
  <2>9. Responsible(o)'
    BY Zenon, <2>1, <2>2, <2>8 DEF Responsible, GetMillisecond
  <2> QED
    BY Zenon, <2>9
<1>9. ASSUME NEW th \in Threads, Quit(th)
      PROVE  (\E o \in Threads : Responsible(o))'
  <2>1. /\ pc' = pc /\ timeout' = timeout /\ wake_at' = wake_at
        /\ faults' = faults /\ poll' = poll /\ readable' = readable
        /\ time_points' = time_points /\ now' = now
        /\ caller[th].stage = "idle"
    BY Zenon, <1>9 DEF Quit, waitVars, wakeVars, timerVars
  <2>2. PICK o \in Threads : Responsible(o)
    BY Zenon, <1>2, <1>4, <2>1
  <2>3. o # th
    BY Zenon, <2>1, <2>2 DEF Responsible
  <2>4. caller'[o] = caller[o]
    BY Zenon, <1>1, <1>9, <2>3 DEF Quit
  <2> QED
    BY Zenon, <1>3, <2>1, <2>2, <2>4
<1>10. ASSUME NEW th \in Threads, ReadMin(th)
       PROVE  (\E o \in Threads : Responsible(o))'
  <2>1. /\ pc' = pc /\ timeout' = timeout /\ wake_at' = wake_at
        /\ faults' = faults /\ poll' = poll /\ readable' = readable
        /\ time_points' = time_points /\ now' = now
    BY Zenon, <1>10 DEF ReadMin, waitVars, wakeVars, timerVars
  <2>2. TooLong
    BY Zenon, <1>2, <1>4, <2>1
  <2>3. PICK o \in Threads : Responsible(o)
    BY Zenon, <2>2 DEF Covered
  <2>4. CASE o # th
    <3>1. caller'[o] = caller[o]
      BY Zenon, <1>1, <1>10, <2>4 DEF ReadMin
    <3> QED
      BY Zenon, <1>3, <2>1, <2>3, <3>1
  <2>5. CASE o = th
    <3>1. PICK x : x = GetMillisecond(time_points[1].time) - GetMillisecond(now)
      BY Zenon
    <3>2. PICK y : y = GetMinTimeDuration(time_points, now)
      BY Zenon
    <3>3. time_points # <<>> /\ GetMillisecond(time_points[1].time) < wake_at
          /\ wake_at <= GetMillisecond(now) + timeout /\ timeout < IntSpan - Half
      BY Zenon, <2>2 DEF TooLong, Limited
    <3>4. /\ GetMillisecond(time_points[1].time) \in Nat
          /\ GetMillisecond(now) \in Nat
      BY Zenon, <1>1, <3>3, FirstTask
    <3>5. x < IntSpan - Half
      BY <1>1, <3>1, <3>3, <3>4, HalfType
    <3>6. y >= x
      BY Zenon, <1>1, <3>1, <3>2, <3>3, <3>5, FirstDuration
    <3>7. /\ caller'[o].stage = "compare" /\ caller'[o].min = y
          /\ caller'[o].task = caller[o].task
      BY <1>1, <1>10, <2>5, <3>2 DEF ReadMin, Caller
    <3>8. caller'[o].stage # "idle"
      BY Zenon, <3>7
    <3>9. Responsible(o)'
      BY Zenon, <2>1, <2>3, <3>1, <3>6, <3>7, <3>8
         DEF Responsible, GetMillisecond
    <3> QED
      BY Zenon, <3>9
  <2> QED
    BY Zenon, <2>4, <2>5
<1>11. ASSUME NEW th \in Threads, Compare(th)
       PROVE  (\E o \in Threads : Responsible(o))'
  <2>1. /\ pc' = pc /\ timeout' = timeout /\ wake_at' = wake_at
        /\ faults' = faults /\ poll' = poll /\ (readable => readable')
        /\ time_points' = time_points /\ now' = now
        /\ caller[th].stage = "compare"
    BY Zenon, <1>11 DEF Compare, waitVars, timerVars
  <2>2. TooLong
    BY Zenon, <1>2, <1>4, <2>1
  <2>3. PICK o \in Threads : Responsible(o)
    BY Zenon, <2>2 DEF Covered
  <2>4. CASE o # th
    <3>1. caller'[o] = caller[o]
      BY Zenon, <1>1, <1>11, <2>4 DEF Compare
    <3> QED
      BY Zenon, <1>3, <2>1, <2>3, <3>1
  <2>5. CASE o = th
    <3>1. PICK x : x = GetMillisecond(time_points[1].time) - GetMillisecond(now)
      BY Zenon
    <3>2. time_points # <<>>
      BY Zenon, <2>2 DEF TooLong
    <3>3. x \in Int /\ ToInt(x) \in Int /\ ToInt(x) <= x
      BY Zenon, <1>1, <3>1, <3>2, FirstDuration
    <3>4. caller[th].task = time_points[1] /\ caller[th].min >= x
      BY Zenon, <2>1, <2>3, <2>5, <3>1 DEF Responsible
    <3>5. Until(caller[th].task, now) = ToInt(x)
      BY Zenon, <3>1, <3>4 DEF Until
    <3>6. caller[th].min \in Nat
      BY Zenon, <1>1 DEF Caller
    <3>7. caller[th].min >= Until(caller[th].task, now)
      BY <3>3, <3>4, <3>5, <3>6
    <3>8. readable'
      BY Zenon, <1>11, <3>7 DEF Compare
    <3>9. poll' \in {"kernel", "cq"}
      BY Zenon, <1>2, <2>1 DEF Armed
    <3> QED
      BY <1>2, <3>8, <3>9 DEF WakeUpComing
  <2> QED
    BY Zenon, <2>4, <2>5
<1>12. ASSUME NEW th \in Threads, WakeUp(th) PROVE FALSE
  <2>1. readable' = TRUE /\ pc' = pc /\ poll' = poll /\ faults' = faults
    BY Zenon, <1>12 DEF WakeUp
  <2> QED
    BY Zenon, <1>2, <2>1 DEF WakeUpComing, Armed
<1>13. ASSUME NEW th \in Threads, NEW call \in Calls,
              NEW d \in Delays \cup {0}, Register(th, call, d)
       PROVE  (\E o \in Threads : Responsible(o))'
  <2>1. PICK t : t = NewTask(call, d)
    BY Zenon
  <2>2. /\ pc' = pc /\ timeout' = timeout /\ wake_at' = wake_at
        /\ faults' = faults /\ poll' = poll /\ readable' = readable
        /\ now' = now /\ caller[th].stage = "idle" /\ MayRegister(call, d)
        /\ time_points' = AddTimeTask(time_points, t)
        /\ caller' = [caller EXCEPT ![th] =
             [stage |-> IF call = "RunSoon" THEN "wake" ELSE "min",
              task |-> t, min |-> 0]]
    BY Zenon, <1>13, <2>1 DEF Register, waitVars, wakeVars
  <2>3. t \in Task
    BY Zenon, <1>1, <2>1, <2>2, NewTaskType
  <2>4. \/ time_points'[1] = t
        \/ time_points # <<>> /\ time_points'[1] = time_points[1]
    BY Zenon, <1>1, <2>2, <2>3, AddHead DEF Added
  <2>5. CASE time_points'[1] = t
    <3>1. /\ caller'[th].stage \in {"wake", "min"} /\ caller'[th].task = t
      BY Zenon, <1>1, <2>2
    <3>2. caller'[th].stage # "idle" /\ caller'[th].stage # "compare"
      BY Zenon, <3>1
    <3>3. Responsible(th)'
      BY Zenon, <2>5, <3>1, <3>2 DEF Responsible
    <3> QED
      BY Zenon, <3>3
  <2>6. CASE time_points # <<>> /\ time_points'[1] = time_points[1]
    <3>1. PICK o \in Threads : Responsible(o)
      BY Zenon, <1>2, <1>4, <2>2, <2>6
    <3>2. o # th
      BY Zenon, <2>2, <3>1 DEF Responsible
    <3>3. caller'[o] = caller[o]
      BY Zenon, <1>1, <2>2, <3>2
    <3> QED
      BY Zenon, <1>3, <2>2, <2>6, <3>1, <3>3
  <2> QED
    BY Zenon, <2>4, <2>5, <2>6
<1> QED
  BY Zenon, <1>2, <1>5, <1>6, <1>7, <1>8, <1>9, <1>10, <1>11, <1>12, <1>13,
     WaitSteps DEF Finish

LEMMA InitWait ==
  ASSUME Init
  PROVE  WaitInv
<1>1. Epoch \in Nat
  BY Zenon, ParametersAssumption
<1>2. Clocked
  BY <1>1 DEF Init, Clocked
<1>3. Armed /\ QuitSeen /\ Limited /\ Covered
  BY Zenon DEF Init, Armed, QuitSeen, Limited, Covered, TooLong
<1> QED
  BY Zenon, <1>2, <1>3 DEF WaitInv

LEMMA NextIInv ==
  ASSUME ShortRun, IInv, [Next]_vars
  PROVE  IInv'
<1>1. TypeOK /\ TypedTimer /\ Clocked /\ Armed /\ QuitSeen /\ Limited /\ Covered
  BY Zenon DEF IInv, TypedTimer, WaitInv
<1>2. TypedTimer'
  BY Zenon, <1>1, NextTimer
<1>3. Clocked' /\ Armed' /\ QuitSeen' /\ Limited' /\ Covered'
  BY Zenon, <1>1, ClockedStep, ArmedStep, QuitSeenStep, LimitedStep, CoveredStep
<1> QED
  BY Zenon, <1>2, <1>3 DEF IInv, WaitInv

LEMMA IInvWakes ==
  ASSUME IInv
  PROVE  NeverOversleeps
<1> SUFFICES ASSUME pc = "Wait", AllIdle, faults = 0, ~ WakeUpComing
             PROVE  /\ ~ should_quit
                    /\ timeout # 0 => \A i \in 1..Len(time_points) :
                         wake_at <= GetMillisecond(time_points[i].time)
  BY Zenon DEF NeverOversleeps
<1>1. \A th \in Threads : caller[th].stage = "idle"
  BY Zenon DEF AllIdle
<1>2. ~ should_quit
  BY Zenon, <1>1 DEF IInv, WaitInv, QuitSeen
<1>3. ASSUME timeout # 0, NEW i \in 1..Len(time_points)
      PROVE  wake_at <= GetMillisecond(time_points[i].time)
  <2>1. /\ time_points \in Seq(Task) /\ Sorted(time_points) /\ wake_at \in Nat
    BY Zenon DEF IInv, TypedTimer, TypeOK, TimerInv, Timer, Part
  <2>2. /\ 1 \in 1..Len(time_points) /\ 1 <= i /\ time_points # <<>>
        /\ time_points[1] \in Task /\ time_points[i] \in Task
    BY <2>1
  <2>3. time_points[1].time <= time_points[i].time
    BY Zenon, <2>1, <2>2 DEF Sorted
  <2>4. time_points[1].time \in Nat /\ time_points[i].time \in Nat
    BY Zenon, <2>2 DEF Task
  <2>5. /\ GetMillisecond(time_points[1].time)
             <= GetMillisecond(time_points[i].time)
        /\ GetMillisecond(time_points[1].time) \in Nat
        /\ GetMillisecond(time_points[i].time) \in Nat
    BY Zenon, <2>3, <2>4, Monotone, MillisecondType
  <2>6. ~ TooLong
    BY Zenon, <1>1 DEF IInv, WaitInv, Covered, Responsible
  <2>7. ~ (GetMillisecond(time_points[1].time) < wake_at)
    BY Zenon, <1>3, <2>2, <2>6 DEF TooLong
  <2> QED
    BY <2>1, <2>5, <2>7
<1> QED
  BY Zenon, <1>2, <1>3

\* The loop never sleeps past a task or a Quit, whatever the number of
\* threads that register tasks and of tasks, their delays, the width of int
\* and the order in which the threads add, read the minimum, compare and wake,
\* provided no task is overdue by more milliseconds than an int can count.
THEOREM SpecNeverOversleeps ==
  ASSUME ShortRun
  PROVE  Spec => []NeverOversleeps
<1>1. Init => IInv
  BY Zenon, InitTimer, InitWait DEF IInv
<1>2. IInv /\ [Next]_vars => IInv'
  BY Zenon, NextIInv
<1>3. IInv => NeverOversleeps
  BY Zenon, IInvWakes
<1> QED
  BY <1>1, <1>2, <1>3, PTL DEF Spec

=============================================================================
