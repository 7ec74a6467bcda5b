------------------------------ MODULE TurnLog ------------------------------
(***************************************************************************)
(* What the conversation store promises the rest of the application: a     *)
(* conversation is an append-only log of turns.  A turn opens with a       *)
(* question at the end of the log, only when no other turn of the same     *)
(* conversation is running, and settles once; a turn that ends with an     *)
(* answer puts it directly after its own question.  RagRuns shows that     *)
(* the transactions of rag_run_repository.py implement this log.           *)
(***************************************************************************)
EXTENDS Naturals

CONSTANTS Requests,         \* one turn per public chat request
          Conversations,    \* conversation ids
          NoConversation    \* the conversation of a turn that has not opened

VARIABLES home,       \* home[r]: the conversation of turn r
          status,     \* status[r]: "absent", "running" or how the turn ended
          question,   \* question[r]: position of the question, 0 when there is none
          answer      \* answer[r]: position of the answer, 0 when there is none

logVars == <<home, status, question, answer>>

Answering == {"completed", "clarification"}
Endings == Answering \union {"no_context", "failed", "cancelled"}

Turns(c) == {r \in Requests : home[r] = c}

Positions(c) == ({question[r] : r \in Turns(c)} \union {answer[r] : r \in Turns(c)}) \ {0}

LogInit ==
  /\ home = [r \in Requests |-> NoConversation]
  /\ status = [r \in Requests |-> "absent"]
  /\ question = [r \in Requests |-> 0]
  /\ answer = [r \in Requests |-> 0]

Open(r, c) ==
  /\ status[r] = "absent"
  /\ \A q \in Turns(c) : status[q] # "running"
  /\ \E last \in Positions(c) \union {0} :
       /\ \A n \in Positions(c) : n <= last
       /\ question' = [question EXCEPT ![r] = last + 1]
  /\ home' = [home EXCEPT ![r] = c]
  /\ status' = [status EXCEPT ![r] = "running"]
  /\ UNCHANGED answer

Settle(r, ending) ==
  /\ status[r] = "running"
  /\ status' = [status EXCEPT ![r] = ending]
  /\ answer' = IF ending \in Answering
               THEN [answer EXCEPT ![r] = question[r] + 1]
               ELSE answer
  /\ UNCHANGED <<home, question>>

LogNext ==
  \E r \in Requests :
    \/ \E c \in Conversations : Open(r, c)
    \/ \E ending \in Endings : Settle(r, ending)

LogSpec == LogInit /\ [][LogNext]_logVars
=============================================================================
