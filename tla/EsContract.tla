----------------------------- MODULE EsContract ------------------------------
(***************************************************************************)
(* What Endpoint Security asks of a client, without saying how: every      *)
(* authorization message handed to the client is answered once, with no    *)
(* more than the process asked for, and the client is deleted only when    *)
(* nothing is left to answer.                                              *)
(***************************************************************************)
EXTENDS Naturals, Sequences

CONSTANTS
  Message,          \* the AUTH_OPEN messages of a behaviour
  Flag,             \* the FFLAGS that can be authorized
  Requested         \* the flags a message asks for, [Message -> SUBSET Flag]

VARIABLES
  owed,             \* the messages the client has yet to answer
  reply,            \* the answers: the flags each authorizes
  deleted           \* es_delete_client has returned

vars == <<owed, reply, deleted>>

Init ==
  /\ owed = {}
  /\ reply = [m \in Message |-> <<>>]
  /\ deleted = FALSE

\* The kernel hands over a message.
Deliver(m) ==
  /\ ~deleted
  /\ m \notin owed /\ reply[m] = <<>>
  /\ owed' = owed \union {m}
  /\ UNCHANGED <<reply, deleted>>

\* A message may be refused as it is handed over.
Refuse(m) ==
  /\ ~deleted
  /\ m \notin owed /\ reply[m] = <<>>
  /\ reply' = [reply EXCEPT ![m] = <<{}>>]
  /\ UNCHANGED <<owed, deleted>>

Reply(m, flags) ==
  /\ ~deleted
  /\ m \in owed
  /\ flags \subseteq Requested[m]
  /\ owed' = owed \ {m}
  /\ reply' = [reply EXCEPT ![m] = <<flags>>]
  /\ UNCHANGED deleted

Delete ==
  /\ owed = {}
  /\ deleted' = TRUE
  /\ UNCHANGED <<owed, reply>>

Next ==
  \/ \E m \in Message : Deliver(m) \/ Refuse(m)
  \/ \E m \in Message, flags \in SUBSET Flag : Reply(m, flags)
  \/ Delete

Spec == Init /\ [][Next]_vars
=============================================================================
