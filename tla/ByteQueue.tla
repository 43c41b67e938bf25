----------------------------- MODULE ByteQueue ------------------------------
(***************************************************************************)
(* What a buffer between a socket and its user promises: a queue of bytes. *)
(* Bytes are numbered in the order in which they are put in, so that none  *)
(* can be mistaken for another.                                            *)
(***************************************************************************)
EXTENDS Integers, Sequences

VARIABLES
  queue,   \* the bytes that can be read
  got,     \* the bytes that the last step took out
  asked,   \* the bytes that the last step was to take out
  next,    \* the number of the next byte
  intact   \* does the promise still hold?

vars == <<queue, got, asked, next, intact>>

Init == queue = <<>> /\ got = <<>> /\ asked = 0 /\ next = 1 /\ intact = TRUE

\* What the next step puts in, if anything.
Fresh == [i \in 1..(next' - next) |-> next + i - 1]

Put == queue' = queue \o Fresh /\ got' = <<>> /\ asked' = 0 /\ next' >= next

\* A header in front of what is in the queue.
PutFront ==
  queue' = Fresh \o queue /\ got' = <<>> /\ asked' = 0 /\ next' >= next

Take ==
  /\ asked' \in 0..Len(queue)
  /\ got' = SubSeq(queue, 1, asked')
  /\ queue' = SubSeq(queue, asked' + 1, Len(queue))
  /\ UNCHANGED next

\* An attempt to take more than there is discards the rest.
Discard ==
  asked' > Len(queue) /\ queue' = <<>> /\ got' = <<>> /\ UNCHANGED next

\* Once the promise is broken nothing is said any more.
Next ==
  \/ intact /\ UNCHANGED intact /\ (Put \/ PutFront \/ Take \/ Discard)
  \/ intact' = FALSE

Spec == Init /\ [][Next]_vars
=============================================================================
