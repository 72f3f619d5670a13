--------------------------- MODULE CommandContract ---------------------------
(***************************************************************************)
(* What a command promises to whoever reads its row, apart from processes, *)
(* broker and time: the life cycle drawn in ADR 0014, tied to the only     *)
(* physical fact that matters, whether the device ran the command.  The    *)
(* device keeps what it did in its RAM only, and not for ever: a refusal   *)
(* is not always the truth.                                                *)
(***************************************************************************)
CONSTANT Commands

VARIABLES
  status,     \* the status a reader of the row sees
  answer,     \* the device's answer the row keeps: "none" while there is none
  timely,     \* that answer dates from the time the device remembers c for
  ran,        \* the device has executed the command at least once
  restarted   \* the device has restarted, and forgotten what it ran or refused

vars == <<status, answer, timely, ran, restarted>>

Refusals == {"rejected", "expired"}
Open == {"PENDING", "SENT"}

Init ==
  /\ status = [c \in Commands |-> "ABSENT"]
  /\ answer = [c \in Commands |-> "none"]
  /\ timely = [c \in Commands |-> TRUE]
  /\ ran = [c \in Commands |-> FALSE]
  /\ restarted = [c \in Commands |-> FALSE]

Becomes(c, s) == status' = [status EXCEPT ![c] = s]

Accept(c) ==
  /\ status[c] = "ABSENT"
  /\ Becomes(c, "PENDING")
  /\ UNCHANGED <<answer, timely, ran, restarted>>

Send(c) ==
  /\ status[c] = "PENDING"
  /\ Becomes(c, "SENT")
  /\ UNCHANGED <<answer, timely, ran, restarted>>

(* Nothing left: the only failure without an answer, and only of a command *)
(* that never ran. *)
Withdraw(c) ==
  /\ status[c] = "PENDING"
  /\ ~ran[c]
  /\ Becomes(c, "FAILED")
  /\ UNCHANGED <<answer, timely, ran, restarted>>

Withdrawn(c) == status[c] = "FAILED" /\ answer[c] = "none"

(* The device may run any command that was accepted and not withdrawn, but *)
(* none that the backend has already given up.  It runs again, or after a  *)
(* refusal, only what a restart made it forget. *)
Run(c) ==
  /\ status[c] \notin {"ABSENT", "TIMEOUT"}
  /\ ~Withdrawn(c)
  /\ ran[c] \/ answer[c] \in Refusals => restarted[c]
  /\ ran' = [ran EXCEPT ![c] = TRUE]
  /\ UNCHANGED <<status, answer, timely, restarted>>

(* The devices of some commands restart. *)
Restart(C) ==
  /\ restarted' = [c \in Commands |-> restarted[c] \/ c \in C]
  /\ UNCHANGED <<status, answer, timely, ran>>

AnsweredExecuted(c) ==
  /\ ran[c]
  /\ answer' = [answer EXCEPT ![c] = "executed"]
  /\ UNCHANGED timely

(* A command that ran is refused if it comes again once forgotten. *)
AnsweredRefused(c) ==
  \E a \in Refusals, inTime \in BOOLEAN :
    /\ inTime /\ ~restarted[c] => ~ran[c]
    /\ answer' = [answer EXCEPT ![c] = a]
    /\ timely' = [timely EXCEPT ![c] = inTime]

Acknowledge(c) ==
  /\ status[c] \in Open
  /\ AnsweredExecuted(c)
  /\ Becomes(c, "ACKNOWLEDGED")
  /\ UNCHANGED <<ran, restarted>>

Refuse(c) ==
  /\ status[c] \in Open
  /\ AnsweredRefused(c)
  /\ Becomes(c, "FAILED")
  /\ UNCHANGED <<ran, restarted>>

TimeOut(c) ==
  /\ status[c] \in Open
  /\ Becomes(c, "TIMEOUT")
  /\ UNCHANGED <<answer, timely, ran, restarted>>

(* The late answer completes a TIMEOUT once, without changing its status.  *)
AnswerLate(c) ==
  /\ status[c] = "TIMEOUT"
  /\ answer[c] = "none"
  /\ AnsweredExecuted(c) \/ AnsweredRefused(c)
  /\ UNCHANGED <<status, ran, restarted>>

Next ==
  \/ \E C \in SUBSET Commands : Restart(C)
  \/ \E c \in Commands :
       Accept(c) \/ Send(c) \/ Withdraw(c) \/ Run(c) \/ Acknowledge(c) \/ Refuse(c)
         \/ TimeOut(c) \/ AnswerLate(c)

Spec == Init /\ [][Next]_vars
=============================================================================
