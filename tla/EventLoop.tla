----------------------------- MODULE EventLoop ------------------------------
(***************************************************************************)
(* EventManager::Start and the threads that call it: time tasks (Timer),   *)
(* the wake-up eventfd with its one-shot poll request (Poller, Eventer),   *)
(* and Quit.                                                               *)
(*                                                                         *)
(* Time is counted in ticks of 1/Milli milliseconds.  The connections of   *)
(* the loop are the subject of module Connecting; here their completions   *)
(* only end a wait early.                                                  *)
(***************************************************************************)
EXTENDS Integers, Sequences, FiniteSets

CONSTANTS
  Threads,      \* threads other than the loop's
  MaxTasks,     \* bound on the tasks registered
  Calls,        \* the functions of EventManager that are called
  Delays,       \* delays and intervals, in ticks
  Milli,        \* ticks in a millisecond
  DefaultWait,  \* the wait without any task, in milliseconds (10000)
  IntSpan,      \* number of values of an int (2^32)
  Epoch,        \* the clock at the start
  MaxTime,      \* bound on the clock
  MaxFaults     \* bound on refused poll requests

CallNames == {"RunSoon", "RunAfter", "RunEvery", "RunEveryFrom", "Quit"}

ASSUME ParametersAssumption ==
  /\ Calls \subseteq CallNames
  /\ Delays \subseteq Nat
  /\ {Milli, IntSpan} \subseteq Nat \ {0}
  /\ {DefaultWait, Epoch, MaxTime, MaxTasks, MaxFaults} \subseteq Nat
  /\ 2 * DefaultWait < IntSpan

VARIABLES
  pc,           \* where the loop thread is in Start
  should_quit,  \* should_quit_
  time_points,  \* Timer::time_points_, in the order of the multimap
  expired,      \* what GetExpiredTimeTasks returned and is not yet run
  timeout,      \* the argument of Poll in milliseconds, during the wait
  wake_at,      \* history: the millisecond that timeout aims at
  return_time,  \* what Poll returned, until the end of the iteration
  readable,     \* is the counter of the wake-up eventfd positive?
  poll,         \* the poll request on the eventfd: "none", "sq" (prepared),
                \* "kernel" (armed) or "cq" (completed)
  active,       \* is the wake-up eventer in active_events_?
  caller,       \* where each of the other threads is
  now,          \* the clock
  added,        \* history: tasks in the order of their registration
  ran,          \* history: one-shot tasks in the order they were run
  quitting,     \* history: has Quit been called?
  faults        \* refused poll requests

timerVars == <<time_points, expired, added, ran>>
waitVars == <<timeout, wake_at, return_time>>
wakeVars == <<readable, poll, active, faults>>
vars == <<pc, should_quit, timerVars, waitVars, wakeVars, caller, now, quitting>>

\* Tasks are numbered in the order of their registration.
NoTask == [id |-> 0, time |-> 0, context |-> 0]
\* stage: the next step of the call; min: the duration it has read.
Idle == [stage |-> "idle", task |-> NoTask, min |-> 0]

-----------------------------------------------------------------------------
(***************************************************************************)
(* TimePoint and Timer.                                                    *)
(***************************************************************************)

GetMillisecond(t) == t \div Milli

\* static_cast<int>, two's complement.
ToInt(n) == ((n + IntSpan \div 2) % IntSpan) - IntSpan \div 2

\* Mutant: a task goes before the others of the same time.
AddTimeTaskFirst(q, t) ==
  LET n == Cardinality({i \in 1..Len(q) : q[i].time < t.time})
  IN SubSeq(q, 1, n) \o <<t>> \o SubSeq(q, n + 1, Len(q))

\* multimap::insert puts a new element after those with an equal key.
AddTimeTask(q, t) ==
  LET n == Cardinality({i \in 1..Len(q) : q[i].time <= t.time})
  IN SubSeq(q, 1, n) \o <<t>> \o SubSeq(q, n + 1, Len(q))

\* Mutant: a negative duration is returned as it is.
GetMinTimeDurationSigned(q, clock) ==
  IF q = <<>> THEN DefaultWait
  ELSE ToInt(GetMillisecond(q[1].time) - GetMillisecond(clock))

GetMinTimeDuration(q, clock) ==
  IF q = <<>> THEN DefaultWait
  ELSE LET duration == ToInt(GetMillisecond(q[1].time) - GetMillisecond(clock))
       IN IF duration > 0 THEN duration ELSE 0

Until(t, clock) == ToInt(GetMillisecond(t.time) - GetMillisecond(clock))

IsExpired(t) == t.time <= now

\* The time points that the three Run functions compute; the start of
\* "RunEvery" is the default argument TimePoint(TimePoint::FNow()), whose
\* parameter is a duration from now.
NewTask(call, d) ==
  [id |-> Len(added) + 1,
   time |-> CASE call = "RunSoon" -> now
              [] call \in {"RunAfter", "RunEveryFrom"} -> now + d
              [] call = "RunEvery" -> (now + now) + d,
   context |-> IF call \in {"RunEvery", "RunEveryFrom"} THEN d ELSE 0]

\* An interval is positive.
MayRegister(call, d) ==
  /\ call \in Calls \ {"Quit"}
  /\ Len(added) < MaxTasks
  /\ call = "RunSoon" => d = 0
  /\ call \in {"RunEvery", "RunEveryFrom"} => d > 0

-----------------------------------------------------------------------------
(***************************************************************************)
(* The other threads.  A call of RunAt, RunAfter or RunEveryUntil takes    *)
(* the timer's lock twice and then reads the clock again, so it is three   *)
(* steps; RunSoon and Quit are two.                                        *)
(***************************************************************************)

Register(th, call, d) ==
  LET t == NewTask(call, d)
  IN /\ caller[th].stage = "idle"
     /\ MayRegister(call, d)
     /\ time_points' = AddTimeTask(time_points, t)
     /\ added' = Append(added, t)
     /\ caller' = [caller EXCEPT ![th] =
          [stage |-> IF call = "RunSoon" THEN "wake" ELSE "min",
           task |-> t, min |-> 0]]
     /\ UNCHANGED <<pc, should_quit, expired, ran, waitVars, wakeVars, now,
                    quitting>>

ReadMin(th) ==
  /\ caller[th].stage = "min"
  /\ caller' = [caller EXCEPT ![th].stage = "compare",
                              ![th].min = GetMinTimeDuration(time_points, now)]
  /\ UNCHANGED <<pc, should_quit, timerVars, waitVars, wakeVars, now, quitting>>

\* Mutant: only a strictly earlier task wakes the loop.
CompareStrictly(th) ==
  /\ caller[th].stage = "compare"
  /\ readable' = (readable \/ caller[th].min > Until(caller[th].task, now))
  /\ caller' = [caller EXCEPT ![th] = Idle]
  /\ UNCHANGED <<pc, should_quit, timerVars, waitVars, poll, active, faults,
                 now, quitting>>

Compare(th) ==
  /\ caller[th].stage = "compare"
  /\ readable' = (readable \/ caller[th].min >= Until(caller[th].task, now))
  /\ caller' = [caller EXCEPT ![th] = Idle]
  /\ UNCHANGED <<pc, should_quit, timerVars, waitVars, poll, active, faults,
                 now, quitting>>

WakeUp(th) ==
  /\ caller[th].stage = "wake"
  /\ readable' = TRUE
  /\ caller' = [caller EXCEPT ![th] = Idle]
  /\ UNCHANGED <<pc, should_quit, timerVars, waitVars, poll, active, faults,
                 now, quitting>>

Quit(th) ==
  /\ "Quit" \in Calls
  /\ caller[th].stage = "idle"
  /\ ~quitting
  /\ should_quit' = TRUE
  /\ quitting' = TRUE
  /\ caller' = [caller EXCEPT ![th].stage = "wake"]
  /\ UNCHANGED <<pc, timerVars, waitVars, wakeVars, now>>

\* Loop: the thread is created.
Loop ==
  /\ pc = "Before"
  /\ pc' = "Starting"
  /\ UNCHANGED <<should_quit, timerVars, waitVars, wakeVars, caller, now,
                 quitting>>

-----------------------------------------------------------------------------
(***************************************************************************)
(* The loop thread: Start.                                                 *)
(***************************************************************************)

Start ==
  /\ pc = "Starting"
  /\ pc' = "Test"
  /\ should_quit' = FALSE
  /\ UNCHANGED <<timerVars, waitVars, wakeVars, caller, now, quitting>>

TestQuit ==
  /\ pc = "Test"
  /\ pc' = IF should_quit THEN "Exit" ELSE "Timeout"
  /\ UNCHANGED <<should_quit, timerVars, waitVars, wakeVars, caller, now,
                 quitting>>

\* The argument of Poll is computed.
BeginPoll ==
  /\ pc = "Timeout"
  /\ pc' = "Wait"
  /\ timeout' = GetMinTimeDuration(time_points, now)
  /\ wake_at' = GetMillisecond(now) + timeout'
  /\ UNCHANGED <<should_quit, timerVars, return_time, wakeVars, caller, now,
                 quitting>>

\* SubmitPending hands a prepared request to the kernel.
SubmitPending == poll' = IF poll = "sq" THEN "kernel" ELSE poll

\* io_uring_wait_cqe_timeout returns -ETIME.  Without a limit on the wait
\* (a negative timeout) it never does.  The bound on the clock counts as the
\* end of any wait.
WaitTimesOut ==
  /\ pc = "Wait"
  /\ timeout >= 0
  /\ GetMillisecond(now) >= wake_at \/ now = MaxTime
  /\ pc' = "Active"
  /\ SubmitPending
  /\ return_time' = now
  /\ timeout' = 0 /\ wake_at' = 0
  /\ UNCHANGED <<should_quit, timerVars, readable, active, faults, caller, now,
                 quitting>>

\* The wait ends with a completion: of the eventfd's poll request, or of some
\* other I/O of the loop.
EndWait ==
  /\ pc = "Wait"
  /\ pc' = "Batch"
  /\ timeout' = 0 /\ wake_at' = 0
  /\ UNCHANGED <<should_quit, timerVars, return_time, wakeVars, caller, now,
                 quitting>>
WokenUp == poll = "cq" /\ EndWait
OtherCompletion == EndWait

\* Unless the submission queue is full, the one-shot request is prepared
\* again.
SubmitPoll(full) == poll' = IF full THEN "none" ELSE "sq"

\* HandleCqe: the wake-up eventer is active.
HandlePollCqe(full) ==
  /\ pc = "Batch"
  /\ poll = "cq"
  /\ full => faults < MaxFaults
  /\ faults' = faults + (IF full THEN 1 ELSE 0)
  /\ SubmitPoll(full)
  /\ active' = TRUE
  /\ UNCHANGED <<pc, should_quit, timerVars, waitVars, readable, caller, now,
                 quitting>>

\* Poll returns, at its batch limit or time budget possibly before the
\* eventfd's completion is taken.
EndPoll ==
  /\ pc = "Batch"
  /\ pc' = "Active"
  /\ SubmitPending
  /\ return_time' = now
  /\ UNCHANGED <<should_quit, timerVars, timeout, wake_at, readable, active,
                 faults, caller, now, quitting>>

\* The read callback of the wake-up eventer reads until there is nothing left.
DrainEventfd == readable' = FALSE

DoWithActiveTasks ==
  /\ pc = "Active"
  /\ pc' = "Expired"
  /\ IF active THEN DrainEventfd ELSE UNCHANGED readable
  /\ active' = FALSE
  /\ UNCHANGED <<should_quit, timerVars, waitVars, poll, faults, caller, now,
                 quitting>>

\* Mutant: the element that ends the search is erased too.
GetExpiredTimeTasksInclusive ==
  LET n == Cardinality({i \in 1..Len(time_points) : IsExpired(time_points[i])})
  IN /\ pc = "Expired"
     /\ pc' = "Run"
     /\ expired' = SubSeq(time_points, 1, n)
     /\ time_points' = SubSeq(time_points, n + 2, Len(time_points))
     /\ UNCHANGED <<should_quit, added, ran, waitVars, wakeVars, caller, now,
                    quitting>>

GetExpiredTimeTasks ==
  LET n == Cardinality({i \in 1..Len(time_points) : IsExpired(time_points[i])})
  IN /\ pc = "Expired"
     /\ pc' = "Run"
     /\ expired' = SubSeq(time_points, 1, n)
     /\ time_points' = SubSeq(time_points, n + 1, Len(time_points))
     /\ UNCHANGED <<should_quit, added, ran, waitVars, wakeVars, caller, now,
                    quitting>>

\* One turn of the loop of DoExpiredTimeTasks: the callback, which may itself
\* register a task or quit, and then, for a periodic task, IsContinue (again)
\* and RunEveryUntil.  The loop is awake, so other threads cannot tell these
\* steps apart.
RunTask(call, d, again) ==
  LET e == Head(expired)
      t == NewTask(call, d)
      q == IF MayRegister(call, d)
           THEN AddTimeTask(time_points, t) ELSE time_points
      next == [e EXCEPT !.time = return_time + e.context]
      repeat == e.context # 0 /\ again
      r == IF repeat THEN AddTimeTask(q, next) ELSE q
  IN /\ pc = "Run"
     /\ expired # <<>>
     /\ \/ MayRegister(call, d)
        \/ call = "Quit" /\ call \in Calls /\ ~quitting
        \/ call = "none"
     /\ expired' = Tail(expired)
     /\ time_points' = r
     /\ ran' = IF e.context = 0 THEN Append(ran, e.id) ELSE ran
     /\ added' = IF MayRegister(call, d) THEN Append(added, t) ELSE added
     /\ should_quit' = (should_quit \/ call = "Quit")
     /\ quitting' = (quitting \/ call = "Quit")
     /\ readable' =
          \/ readable
          \/ call \in {"RunSoon", "Quit"}
          \/ /\ MayRegister(call, d)
             /\ GetMinTimeDuration(q, now) >= Until(t, now)
          \/ repeat /\ GetMinTimeDuration(r, now) >= Until(next, now)
     /\ UNCHANGED <<pc, waitVars, poll, active, faults, caller, now>>

\* The end of the iteration (DestroyClosedConnections has nothing to do).
EndIteration ==
  /\ pc = "Run"
  /\ expired = <<>>
  /\ pc' = "Test"
  /\ return_time' = 0
  /\ UNCHANGED <<should_quit, timerVars, timeout, wake_at, wakeVars, caller, now,
                 quitting>>

-----------------------------------------------------------------------------
\* The kernel completes the poll request once the eventfd is readable.
PollCompletes ==
  /\ poll = "kernel"
  /\ readable
  /\ poll' = "cq"
  /\ UNCHANGED <<pc, should_quit, timerVars, waitVars, readable, active, faults,
                 caller, now, quitting>>

Tick ==
  /\ now < MaxTime
  /\ now' = now + 1
  /\ UNCHANGED <<pc, should_quit, timerVars, waitVars, wakeVars, caller,
                 quitting>>

Terminated == pc = "Exit" /\ UNCHANGED vars

\* The constructor has armed the poll request.
Init ==
  /\ pc = "Before"
  /\ should_quit = FALSE
  /\ time_points = <<>>
  /\ expired = <<>>
  /\ timeout = 0
  /\ wake_at = 0
  /\ return_time = 0
  /\ readable = FALSE
  /\ poll = "kernel"
  /\ active = FALSE
  /\ caller = [th \in Threads |-> Idle]
  /\ now = Epoch
  /\ added = <<>>
  /\ ran = <<>>
  /\ quitting = FALSE
  /\ faults = 0

Finish(th) == ReadMin(th) \/ Compare(th) \/ WakeUp(th)

RunOne ==
  \E d \in Delays \cup {0}, again \in BOOLEAN,
     call \in Calls \cup {"none"} : RunTask(call, d, again)

Next ==
  \/ \E th \in Threads :
       \/ \E call \in Calls, d \in Delays \cup {0} :
            Register(th, call, d)
       \/ Quit(th)
       \/ Finish(th)
  \/ Loop
  \/ Start
  \/ TestQuit
  \/ BeginPoll
  \/ WaitTimesOut
  \/ WokenUp
  \/ OtherCompletion
  \/ \E full \in BOOLEAN : HandlePollCqe(full)
  \/ EndPoll
  \/ DoWithActiveTasks
  \/ GetExpiredTimeTasks
  \/ RunOne
  \/ EndIteration
  \/ PollCompletes
  \/ Tick
  \/ Terminated

Spec == Init /\ [][Next]_vars

\* Every thread takes its next statement, waits end at their timeout or with
\* a completion, the kernel completes a request that is ready, and time
\* passes.  Nothing makes a thread call, or another completion arrive.
Fairness ==
  /\ \A th \in Threads : WF_vars(Finish(th))
  /\ WF_vars(Start)
  /\ WF_vars(TestQuit)
  /\ WF_vars(BeginPoll)
  /\ WF_vars(WaitTimesOut)
  /\ WF_vars(WokenUp)
  /\ WF_vars(EndPoll)
  /\ WF_vars(DoWithActiveTasks)
  /\ WF_vars(GetExpiredTimeTasks)
  /\ WF_vars(RunOne)
  /\ WF_vars(EndIteration)
  /\ WF_vars(PollCompletes)
  /\ WF_vars(Tick)

FairSpec == Spec /\ Fairness

-----------------------------------------------------------------------------
(***************************************************************************)
(* Properties.                                                             *)
(***************************************************************************)

\* The loop will be woken: the eventfd's request has completed, or will.
WakeUpComing == poll = "cq" \/ (poll = "kernel" /\ readable)

AllIdle == \A th \in Threads : caller[th].stage = "idle"

\* The loop never sleeps past a task or a Quit: once no call is under way, a
\* loop that waits and is not about to be woken has not been told to quit,
\* and waits no longer than until the millisecond of every registered task,
\* whatever the order in which threads added tasks, read the clock and woke
\* it (RunAt, RunAfter, RunEveryUntil, RunSoon, Quit, GetMinTimeDuration, the
\* int conversion, the drained eventfd and its re-armed poll request).
\* Excepted is a request refused for a full submission queue.
NeverOversleeps ==
  pc = "Wait" /\ AllIdle /\ faults = 0 /\ ~WakeUpComing =>
    /\ ~should_quit
    /\ timeout # 0 => \A i \in 1..Len(time_points) :
                        wake_at <= GetMillisecond(time_points[i].time)

Ids(q) == {q[i].id : i \in 1..Len(q)}
RanIds == {ran[i] : i \in 1..Len(ran)}

\* A one-shot task is run once or waits to be: after its registration it is
\* in exactly one of time_points_, the expired tasks and the past
\* (AddTimeTask, GetExpiredTimeTasks, DoExpiredTimeTasks).
TasksConserved ==
  /\ Cardinality(RanIds) = Len(ran)
  /\ Cardinality(Ids(time_points) \cup Ids(expired))
       = Len(time_points) + Len(expired)
  /\ (Ids(time_points) \cup Ids(expired)) \cap RanIds = {}
  /\ \A i \in 1..Len(added) : added[i].context = 0 =>
       added[i].id \in Ids(time_points) \cup Ids(expired) \cup RanIds

\* One-shot tasks run in the order of their time points, and those of one
\* time point in the order of their registration: a task that was registered
\* first and is not due later is never overtaken.
NeverOvertaken ==
  \A i, j \in 1..Len(added) :
    i < j /\ added[i].time <= added[j].time /\ added[i].context = 0 =>
      (added[j].id \in RanIds => added[i].id \in RanIds)

\* Every one-shot task of a loop that nobody quits is run once it is due.
DueTasksRun ==
  \A i \in 1..MaxTasks :
    /\ pc # "Before"
    /\ i \in DOMAIN added
    /\ added[i].context = 0 /\ added[i].time <= MaxTime
    ~> i \in RanIds \/ quitting

\* A loop that runs when Quit is called ends, even if its poll request was
\* refused: every wait has a limit.
QuitStopsLoop ==
  should_quit /\ pc \notin {"Before", "Starting"} ~> pc = "Exit"
=============================================================================
