------------------------------- MODULE RpcCall -------------------------------
(***************************************************************************)
(* What an RPC channel promises its callers: a call is executed at most    *)
(* once, and it ends at most once, with the reply to this very call, empty *)
(* if it was never executed, or dropped with its channel.                  *)
(***************************************************************************)
EXTENDS Naturals

CONSTANT Calls

VARIABLES
  status,       \* what the caller knows of each call
  executions,   \* how often the service ran each call
  intact        \* does the promise still hold?

vars == <<status, executions, intact>>

Init ==
  /\ status = [c \in Calls |-> "new"]
  /\ executions = [c \in Calls |-> 0]
  /\ intact = TRUE

Ends(c, how) ==
  /\ status[c] = "pending"
  /\ status' = [status EXCEPT ![c] = how]
  /\ UNCHANGED executions

Invoke(c) ==
  /\ status[c] = "new"
  /\ status' = [status EXCEPT ![c] = "pending"]
  /\ UNCHANGED executions

Execute(c) ==
  /\ status[c] \in {"pending", "dropped"}
  /\ executions[c] = 0
  /\ executions' = [executions EXCEPT ![c] = 1]
  /\ UNCHANGED status

Reply(c) == executions[c] = 1 /\ Ends(c, "replied")

\* An error reply: the caller gets a response that nobody has filled in.
Refuse(c) == executions[c] = 0 /\ Ends(c, "empty")

\* A channel is destroyed with all the calls it still waits for.
DropAll ==
  /\ status' = [c \in Calls |->
                  IF status[c] = "pending" THEN "dropped" ELSE status[c]]
  /\ UNCHANGED executions

Step ==
  \/ DropAll
  \/ \E c \in Calls : Invoke(c) \/ Execute(c) \/ Reply(c) \/ Refuse(c)

\* Once the promise is broken nothing is said any more.
Next ==
  \/ intact /\ UNCHANGED intact /\ Step
  \/ intact' = FALSE

Spec == Init /\ [][Next]_vars
=============================================================================
