------------------------------- MODULE Fifo --------------------------------
(***************************************************************************)
(* What a message queue promises: messages are kept in the order they were *)
(* accepted, never more than there is room for, and each is given to one   *)
(* task.                                                                   *)
(***************************************************************************)
EXTENDS Sequences, Naturals

CONSTANTS Users, Messages, Room
VARIABLES
  open,     \* does the queue exist?
  queue,
  inbox     \* the message a user was given last

Give(u, mail) == inbox' = [inbox EXCEPT ![u] = mail]

Create == ~open /\ open' = TRUE /\ UNCHANGED <<queue, inbox>>
Delete == open /\ open' = FALSE /\ queue' = <<>> /\ UNCHANGED inbox

HasRoom == open /\ Len(queue) < Room
Send(mail) == HasRoom /\ queue' = Append(queue, mail) /\ UNCHANGED <<open, inbox>>
Receive(u) == queue # <<>> /\ Give(u, Head(queue)) /\ queue' = Tail(queue) /\ UNCHANGED open
\* A message is accepted and the oldest one goes to a user that waits.
Pass(u, mail) ==
  LET all == Append(queue, mail)
  IN HasRoom /\ Give(u, Head(all)) /\ queue' = Tail(all) /\ UNCHANGED open

Next ==
  \/ Create \/ Delete
  \/ \E mail \in Messages : Send(mail)
  \/ \E u \in Users : Receive(u) \/ \E mail \in Messages : Pass(u, mail)

Spec == ~open /\ queue = <<>> /\ [][Next]_<<open, queue, inbox>>
=============================================================================
