------------------------------- MODULE Logger -------------------------------
(***************************************************************************)
(* The logger: threads put records into a ring of slots (Enqueue), one     *)
(* thread takes them out and writes them to the log files (WriteDownLogs,  *)
(* Dequeue), and EndLogger stops that thread.  A step of the model is one  *)
(* access to shared memory.  Memory is sequentially consistent here; what  *)
(* the code needs of its weaker orders is that a slot's data is visible    *)
(* before its sequence number, which release and acquire give.             *)
(*                                                                         *)
(* A record is <<producer, number>> and counts for one byte.               *)
(***************************************************************************)
EXTENDS Integers, Sequences, FiniteSets

CONSTANTS
  Producers,    \* threads that log
  Main,         \* the thread that calls END_LOG
  Size,         \* kLogBufferSize
  FileBytes,    \* kStandardLogFileByte
  Span,         \* number of values of a size_t (2^64)
  MaxRecords,   \* bound on the records of each producer
  MaxStarts,    \* bound on the times the logger is started
  OpenFails,    \* may fopen refuse the name the user gave?
  EndEarly      \* may END_LOG be called while other threads log?

ASSUME LoggerAssumption ==
  /\ Main \notin Producers /\ IsFiniteSet(Producers)
  /\ FileBytes \in Nat \ {0}
  /\ Size \in Nat /\ Size >= 2
  /\ {MaxRecords, MaxStarts} \subseteq Nat
  /\ Span \in Nat /\ Span > Size + MaxRecords
  /\ {OpenFails, EndEarly} \subseteq BOOLEAN

VARIABLES
  is_initialized,
  is_stopping,
  write_index,
  read_index,
  pending,
  log_buffer,    \* the slots: [seq, data]
  thread,        \* pc, position and number of records of each caller
  writer,        \* pc and record of the thread that runs WriteDownLogs
  log_mutex,     \* the thread that holds it, or Nobody
  disk,          \* the log files: current, sequence, bytes and contents
  starts,        \* history: how often the logger has been started
  claimed,       \* history: records in the order of their positions, and
  written        \* in the order they were written, since the last start

ring == <<write_index, read_index, pending, log_buffer>>
flags == <<is_initialized, is_stopping, starts>>
history == <<claimed, written>>
vars == <<ring, flags, thread, writer, log_mutex, disk, history>>

Nobody == "nobody"
Empty == <<>>
Callers == Producers \cup {Main}
Names == {"base", "n0", "n1"}
Records == Producers \X (1..MaxRecords)

Slot(pos) == pos % Size
NthFile(n) == IF n % 2 = 0 THEN "n0" ELSE "n1"

\* The position means nothing once the call has ended.
Goto(t, pc) ==
  thread' = [thread EXCEPT ![t].pc = pc, ![t].pos = IF pc = "idle" THEN 0 ELSE @]
GotoWith(t, pc, pos) ==
  thread' = [thread EXCEPT ![t].pc = pc, ![t].pos = pos]
Record(t) == <<t, thread[t].n>>

\* condition_variable::notify_one: only the writer ever waits.
NotifyOne ==
  writer' = IF writer.pc = "waiting" THEN [writer EXCEPT !.pc = "woken"]
            ELSE writer

-----------------------------------------------------------------------------
(***************************************************************************)
(* Starting.  LOG and END_LOG call GetLogger(true), which calls            *)
(* StartLogger.                                                            *)
(***************************************************************************)

\* Unless END_LOG may come early, it is called when no other thread logs, as
\* in the tests.
GetLogger(t) ==
  /\ thread[t].pc = "idle"
  /\ is_initialized \/ starts < MaxStarts
  /\ IF t = Main
     THEN EndEarly \/ \A p \in Producers : thread[p].pc = "idle"
     ELSE /\ thread[t].n < MaxRecords
          /\ EndEarly \/ thread[Main].pc = "idle"
  /\ thread' = [thread EXCEPT ![t].pc = "check",
                              ![t].n = IF t = Main THEN @ ELSE @ + 1]
  /\ UNCHANGED <<ring, flags, writer, log_mutex, disk, history>>

\* Where a thread goes on after StartLogger: EndLogger or Enqueue.
AfterStart(t) == IF t = Main THEN "stop" ELSE "load"

\* The first test of is_initialized, without the mutex.
CheckInitialized(t) ==
  /\ thread[t].pc = "check"
  /\ Goto(t, IF is_initialized THEN AfterStart(t) ELSE "lock")
  /\ UNCHANGED <<ring, flags, writer, log_mutex, disk, history>>

\* The second one, with it, and the initialisation.
StartLogger(t, fails) ==
  /\ thread[t].pc = "lock"
  /\ log_mutex = Nobody
  /\ IF is_initialized
     THEN /\ Goto(t, AfterStart(t))
          /\ UNCHANGED <<ring, flags, log_mutex, disk, history>>
     ELSE /\ starts < MaxStarts
          /\ log_mutex' = t
          /\ is_stopping' = FALSE
          /\ write_index' = 0
          /\ read_index' = 0
          /\ pending' = 0
          /\ log_buffer' = [i \in 0..(Size - 1) |-> [seq |-> i, data |-> Empty]]
          /\ LET name == IF fails THEN NthFile(disk.seq) ELSE "base"
             IN disk' = [disk EXCEPT !.cur = name, !.files[name] = <<>>,
                                     !.opened = @ \cup {name}, !.open = TRUE]
          /\ is_initialized' = TRUE
          /\ starts' = starts + 1
          /\ claimed' = <<>>
          /\ written' = <<>>
          /\ Goto(t, "spawn")
  /\ UNCHANGED writer

\* The last statement of the initialisation: the thread is created, and the
\* mutex released.
SpawnWriter(t) ==
  /\ thread[t].pc = "spawn"
  /\ writer' = [writer EXCEPT !.pc = "test"]
  /\ log_mutex' = Nobody
  /\ Goto(t, AfterStart(t))
  /\ UNCHANGED <<ring, flags, disk, history>>

-----------------------------------------------------------------------------
(***************************************************************************)
(* Enqueue, called by a producer for one record.                           *)
(***************************************************************************)

LoadWriteIndex(p) ==
  /\ thread[p].pc = "load"
  /\ GotoWith(p, "slot", write_index)
  /\ UNCHANGED <<ring, flags, writer, log_mutex, disk, history>>

Diff(p) == log_buffer[Slot(thread[p].pos)].seq - thread[p].pos

\* The slot is free, still full (the record is dropped), or taken by another
\* producer since the index was loaded.
LoadSlot(p) ==
  /\ thread[p].pc = "slot"
  /\ Goto(p, IF Diff(p) = 0 THEN "cas"
             ELSE IF Diff(p) < 0 THEN "idle" ELSE "load")
  /\ UNCHANGED <<ring, flags, writer, log_mutex, disk, history>>

\* Mutant: the position is taken with a plain store.
ClaimWithStore(p) ==
  /\ thread[p].pc = "cas"
  /\ write_index' = thread[p].pos + 1
  /\ claimed' = Append(claimed, Record(p))
  /\ Goto(p, "data")
  /\ UNCHANGED <<read_index, pending, log_buffer, flags, writer, log_mutex,
                 disk, written>>

\* compare_exchange_weak: on failure the position is reloaded.
Claim(p) ==
  /\ thread[p].pc = "cas"
  /\ \/ /\ write_index = thread[p].pos
        /\ write_index' = write_index + 1
        /\ claimed' = Append(claimed, Record(p))
        /\ Goto(p, "data")
     \/ /\ write_index # thread[p].pos
        /\ GotoWith(p, "slot", write_index)
        /\ UNCHANGED <<write_index, claimed>>
  /\ UNCHANGED <<read_index, pending, log_buffer, flags, writer, log_mutex,
                 disk, written>>

\* The weak form may also fail with the expected value in place.
ClaimFails(p) ==
  /\ thread[p].pc = "cas"
  /\ GotoWith(p, "slot", write_index)
  /\ UNCHANGED <<ring, flags, writer, log_mutex, disk, history>>

StoreData(p) ==
  /\ thread[p].pc = "data"
  /\ log_buffer' = [log_buffer EXCEPT ![Slot(thread[p].pos)].data = Record(p)]
  /\ Goto(p, "publish")
  /\ UNCHANGED <<write_index, read_index, pending, flags, writer, log_mutex,
                 disk, history>>

Publish(p) ==
  /\ thread[p].pc = "publish"
  /\ log_buffer' = [log_buffer EXCEPT
                      ![Slot(thread[p].pos)].seq = thread[p].pos + 1]
  /\ Goto(p, "count")
  /\ UNCHANGED <<write_index, read_index, pending, flags, writer, log_mutex,
                 disk, history>>

Count(p) ==
  /\ thread[p].pc = "count"
  /\ pending' = (pending + 1) % Span
  /\ Goto(p, IF pending = 0 THEN "notify" ELSE "idle")
  /\ UNCHANGED <<write_index, read_index, log_buffer, flags, writer,
                 log_mutex, disk, history>>

\* With the mutex, which guards nothing but this call.
Notify(p) ==
  /\ thread[p].pc = "notify"
  /\ log_mutex = Nobody
  /\ NotifyOne
  /\ Goto(p, "idle")
  /\ UNCHANGED <<ring, flags, log_mutex, disk, history>>

-----------------------------------------------------------------------------
(***************************************************************************)
(* WriteDownLogs, the writer's thread.                                     *)
(***************************************************************************)

WriterGoto(pc) == writer' = [writer EXCEPT !.pc = pc]

\* The two loads of the condition of the outer loop.
TestStopping ==
  /\ writer.pc = "test"
  /\ WriterGoto(IF is_stopping THEN "pending" ELSE "dequeue")
  /\ UNCHANGED <<ring, flags, thread, log_mutex, disk, history>>

\* Mutant: the writer stops without looking for records left.
TestPendingIgnored ==
  /\ writer.pc = "pending"
  /\ WriterGoto("done")
  /\ UNCHANGED <<ring, flags, thread, log_mutex, disk, history>>

TestPending ==
  /\ writer.pc = "pending"
  /\ WriterGoto(IF pending # 0 THEN "dequeue" ELSE "done")
  /\ UNCHANGED <<ring, flags, thread, log_mutex, disk, history>>

\* Dequeue, up to its compare-and-exchange: no other thread takes records.
Dequeue ==
  /\ writer.pc = "dequeue"
  /\ IF log_buffer[Slot(read_index)].seq = read_index + 1
     THEN /\ read_index' = read_index + 1
          /\ WriterGoto("take")
     ELSE /\ WriterGoto("flush")
          /\ UNCHANGED read_index
  /\ UNCHANGED <<write_index, pending, log_buffer, flags, thread, log_mutex,
                 disk, history>>

\* Mutant: the index of the slot is computed from the new read_index_.
TakeDataNext ==
  /\ writer.pc = "take"
  /\ LET i == Slot(read_index)
     IN /\ writer' = [pc |-> "release", record |-> log_buffer[i].data]
        /\ log_buffer' = [log_buffer EXCEPT ![i].data = Empty]
  /\ UNCHANGED <<write_index, read_index, pending, flags, thread, log_mutex,
                 disk, history>>

TakeData ==
  /\ writer.pc = "take"
  /\ LET i == Slot(read_index - 1)
     IN /\ writer' = [pc |-> "release", record |-> log_buffer[i].data]
        /\ log_buffer' = [log_buffer EXCEPT ![i].data = Empty]
  /\ UNCHANGED <<write_index, read_index, pending, flags, thread, log_mutex,
                 disk, history>>

\* Mutant: the slot is released one position too early.
ReleaseSlotEarly ==
  /\ writer.pc = "release"
  /\ log_buffer' = [log_buffer EXCEPT
                      ![Slot(read_index - 1)].seq = read_index - 2 + Size]
  /\ WriterGoto("sub")
  /\ UNCHANGED <<write_index, read_index, pending, flags, thread, log_mutex,
                 disk, history>>

ReleaseSlot ==
  /\ writer.pc = "release"
  /\ log_buffer' = [log_buffer EXCEPT
                      ![Slot(read_index - 1)].seq = read_index - 1 + Size]
  /\ WriterGoto("sub")
  /\ UNCHANGED <<write_index, read_index, pending, flags, thread, log_mutex,
                 disk, history>>

\* Mutant: the count stops at zero.
DiscountToZero ==
  /\ writer.pc = "sub"
  /\ pending' = IF pending = 0 THEN 0 ELSE pending - 1
  /\ WriterGoto("write")
  /\ UNCHANGED <<write_index, read_index, log_buffer, flags, thread, log_mutex,
                 disk, history>>

\* The count may be taken before the producer has added it: it wraps.
Discount ==
  /\ writer.pc = "sub"
  /\ pending' = (pending - 1) % Span
  /\ WriterGoto("write")
  /\ UNCHANGED <<write_index, read_index, log_buffer, flags, thread, log_mutex,
                 disk, history>>

\* Mutant: the new file always has the same name.
RotateInPlace(d) ==
  IF d.bytes < FileBytes THEN d
  ELSE [d EXCEPT !.seq = @ + 1, !.cur = "n0", !.bytes = 0,
                 !.opened = @ \cup {"n0"}, !.files["n0"] = <<>>]

\* A full file is closed and the next one opened, which empties it.
Rotate(d) ==
  IF d.bytes < FileBytes THEN d
  ELSE LET name == NthFile(d.seq + 1)
       IN [d EXCEPT !.seq = @ + 1, !.cur = name, !.bytes = 0,
                    !.opened = @ \cup {name}, !.files[name] = <<>>]

\* What is written to a closed file (see Join) is lost.
WriteRecord ==
  /\ writer.pc = "write"
  /\ IF disk.open
     THEN /\ LET d == Rotate(disk)
             IN disk' = [d EXCEPT !.files[d.cur] = Append(@, writer.record),
                                  !.bytes = @ + 1]
          /\ written' = Append(written, writer.record)
     ELSE UNCHANGED <<disk, written>>
  /\ writer' = [pc |-> "dequeue", record |-> Empty]
  /\ UNCHANGED <<ring, flags, thread, log_mutex, claimed>>

\* After fflush: the writer blocks if the count is zero.
Flush ==
  /\ writer.pc = "flush"
  /\ WriterGoto(IF pending = 0 THEN "lock" ELSE "test")
  /\ UNCHANGED <<ring, flags, thread, log_mutex, disk, history>>

LockToSleep ==
  /\ writer.pc = "lock"
  /\ log_mutex = Nobody
  /\ log_mutex' = "writer"
  /\ WriterGoto("recheck")
  /\ UNCHANGED <<ring, flags, thread, disk, history>>

RecheckStopping ==
  /\ writer.pc = "recheck"
  /\ WriterGoto(IF is_stopping THEN "test" ELSE "sleep")
  /\ log_mutex' = IF is_stopping THEN Nobody ELSE log_mutex
  /\ UNCHANGED <<ring, flags, thread, disk, history>>

\* Mutant: the count is not read again under the mutex.
SleepUnchecked ==
  /\ writer.pc = "sleep"
  /\ WriterGoto("waiting")
  /\ log_mutex' = Nobody
  /\ UNCHANGED <<ring, flags, thread, disk, history>>

\* The second load under the mutex, and wait(), which releases it.
Sleep ==
  /\ writer.pc = "sleep"
  /\ WriterGoto(IF pending = 0 THEN "waiting" ELSE "test")
  /\ log_mutex' = Nobody
  /\ UNCHANGED <<ring, flags, thread, disk, history>>

SpuriousWakeup ==
  /\ writer.pc = "waiting"
  /\ WriterGoto("woken")
  /\ UNCHANGED <<ring, flags, thread, log_mutex, disk, history>>

\* wait() takes the mutex again before it returns, and the block ends.
WakeUp ==
  /\ writer.pc = "woken"
  /\ log_mutex = Nobody
  /\ WriterGoto("test")
  /\ UNCHANGED <<ring, flags, thread, log_mutex, disk, history>>

-----------------------------------------------------------------------------
(***************************************************************************)
(* EndLogger.                                                              *)
(***************************************************************************)

StoreStopping ==
  /\ thread[Main].pc = "stop"
  /\ is_stopping' = TRUE
  /\ Goto(Main, "wake")
  /\ UNCHANGED <<ring, is_initialized, starts, writer, log_mutex, disk, history>>

\* Without the mutex.
NotifyStopping ==
  /\ thread[Main].pc = "wake"
  /\ NotifyOne
  /\ Goto(Main, "join")
  /\ UNCHANGED <<ring, flags, log_mutex, disk, history>>

\* The thread is joined if it has been created: the logger counts as
\* initialised a moment before that.
Join ==
  /\ thread[Main].pc = "join"
  /\ writer.pc \in {"none", "done"}
  /\ WriterGoto("none")
  /\ Goto(Main, "close")
  /\ UNCHANGED <<ring, flags, log_mutex, disk, history>>

CloseFile ==
  /\ thread[Main].pc = "close"
  /\ disk' = [disk EXCEPT !.open = FALSE]
  /\ is_initialized' = FALSE
  /\ Goto(Main, "idle")
  /\ UNCHANGED <<ring, is_stopping, starts, writer, log_mutex, history>>

-----------------------------------------------------------------------------

\* The constructor of the static object.
Init ==
  /\ is_initialized = FALSE
  /\ is_stopping = FALSE
  /\ write_index = 0
  /\ read_index = 0
  /\ pending = 0
  /\ log_buffer = [i \in 0..(Size - 1) |-> [seq |-> i, data |-> Empty]]
  /\ thread = [t \in Callers |-> [pc |-> "idle", pos |-> 0, n |-> 0]]
  /\ writer = [pc |-> "none", record |-> Empty]
  /\ log_mutex = Nobody
  /\ disk = [cur |-> "base", seq |-> 0, bytes |-> 0, open |-> FALSE,
             opened |-> {}, files |-> [f \in Names |-> <<>>]]
  /\ starts = 0
  /\ claimed = <<>>
  /\ written = <<>>

Enqueue(p) ==
  \/ LoadWriteIndex(p) \/ LoadSlot(p) \/ Claim(p) \/ StoreData(p)
  \/ Publish(p) \/ Count(p) \/ Notify(p)

Start(t) ==
  \/ CheckInitialized(t)
  \/ \E fails \in {FALSE, OpenFails} : StartLogger(t, fails)
  \/ SpawnWriter(t)

EndLogger == StoreStopping \/ NotifyStopping \/ Join \/ CloseFile

WriteDownLogs ==
  \/ TestStopping \/ TestPending
  \/ Dequeue \/ TakeData \/ ReleaseSlot \/ Discount \/ WriteRecord
  \/ Flush \/ LockToSleep \/ RecheckStopping \/ Sleep \/ WakeUp

\* Nobody logs any more, or only a start beyond the bound is left.
Terminated ==
  /\ \A t \in Callers :
       \/ thread[t].pc = "idle"
       \/ thread[t].pc = "lock" /\ ~is_initialized /\ starts = MaxStarts
  /\ UNCHANGED vars

Next ==
  \/ \E t \in Callers : GetLogger(t) \/ Start(t)
  \/ \E p \in Producers : Enqueue(p) \/ ClaimFails(p)
  \/ EndLogger
  \/ WriteDownLogs
  \/ SpuriousWakeup
  \/ Terminated

Spec == Init /\ [][Next]_vars

\* Every thread that can take a step of a call it has begun does so in the
\* end; a mutex that is free again and again is obtained, and a
\* compare-and-exchange that is tried again and again succeeds.  Nobody has
\* to log, and no wake-up has to be spurious.
Fairness ==
  /\ \A t \in Callers : SF_vars(Start(t))
  /\ \A p \in Producers : /\ WF_vars(Enqueue(p))
                          /\ SF_vars(Claim(p))
                          /\ SF_vars(Notify(p))
  /\ WF_vars(EndLogger)
  /\ SF_vars(WriteDownLogs)

FairSpec == Spec /\ Fairness

-----------------------------------------------------------------------------

\* Records reach the log in the order in which Enqueue gave them their
\* positions, none twice and none left out (Enqueue, Dequeue).
WrittenInOrder == written = SubSeq(claimed, 1, Len(written))

\* The data of a slot is accessed by one thread at a time: the producer that
\* has claimed its position or the writer that has taken it (the sequence
\* numbers of Enqueue and Dequeue).
SlotExclusive ==
  LET storing == {p \in Producers : thread[p].pc \in {"data", "publish"}}
      At(p) == Slot(thread[p].pos)
  IN /\ \A p, q \in storing : p # q => At(p) # At(q)
     /\ writer.pc \in {"take", "release"} =>
          \A p \in storing : At(p) # Slot(read_index - 1)

Uncounted == {p \in Producers : thread[p].pc \in {"data", "publish", "count"}}
Discounted ==
  read_index - IF writer.pc \in {"take", "release", "sub"} THEN 1 ELSE 0

\* pending_ is the number of records claimed, less the ones whose producer
\* has not counted them yet and the ones taken out, even while it has wrapped
\* because the writer was faster than the producer's fetch_add.
PendingCounts ==
  pending = (write_index - Cardinality(Uncounted) - Discounted) % Span

\* The writer sleeps with a positive count only if a producer is about to
\* notify it: no wake-up is lost between its tests and its wait (Enqueue,
\* WriteDownLogs).
SleepsOnlyWhenIdle ==
  writer.pc = "waiting" /\ pending # 0 =>
    \E p \in Producers : thread[p].pc = "notify"

\* logger_test.cc, MultiThreadedLoggingDoesNotLoseLogs: when EndLogger has
\* joined the writer, every record that was given a slot is in the files.
EndWritesAll ==
  thread[Main].pc = "close" /\ ~EndEarly => written = claimed

Released == read_index - IF writer.pc \in {"take", "release"} THEN 1 ELSE 0

\* A record is dropped only if all the slots are in use (Enqueue).
DroppedOnlyWhenFull ==
  [][\A p \in Producers :
       thread[p].pc = "slot" /\ thread'[p].pc = "idle" =>
         write_index - Released >= Size]_vars

\* Rotation never empties the file before the current one: what is in these
\* two is the end of the log, at least a whole file of it if there was one
\* (WriteDownLogs).
RecentLogsKept ==
  LET Kept(f) == disk.files[f] \o disk.files[disk.cur]
      IsEnd(s) == s = SubSeq(written, Len(written) - Len(s) + 1, Len(written))
  IN \/ written = disk.files[disk.cur]
     \/ \E f \in Names \ {disk.cur} :
          /\ Len(Kept(f)) <= Len(written) /\ IsEnd(Kept(f))
          /\ Kept(f) = written \/ Len(Kept(f)) > FileBytes

-----------------------------------------------------------------------------
(***************************************************************************)
(* What the comments say and the code does not do.                         *)
(***************************************************************************)

\* logger.h: "End the unique logger".  A call of END_LOG ends.
EndReturns == thread[Main].pc = "stop" ~> thread[Main].pc = "close"
=============================================================================
