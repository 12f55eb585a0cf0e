------------------------------ MODULE Mailbox -------------------------------
(***************************************************************************)
(* What tcp_session promises to db_adjudicator: the client's messages, in  *)
(* the order they were sent and each once.  When the connection breaks,    *)
(* the last ones on their way may be lost, and the end of the session is   *)
(* announced behind those that are left, once, with nothing after it.      *)
(***************************************************************************)
EXTENDS Integers, Sequences

CONSTANTS MaxSent, SocketError

VARIABLES
  inTransit,   \* messages on their way to the adjudicator
  delivered,   \* messages the adjudicator has taken
  connection   \* "open", "broken", or "announced" as broken

mailboxVars == <<inTransit, delivered, connection>>

MailboxInit ==
  /\ inTransit = <<>>
  /\ delivered = <<>>
  /\ connection = "open"

Posted == Len(delivered) + Len(inTransit)

\* The client's next message, numbered.
Post ==
  /\ connection = "open" /\ Posted < MaxSent
  /\ inTransit' = Append(inTransit, Posted + 1)
  /\ UNCHANGED <<delivered, connection>>

Break ==
  /\ connection = "open"
  /\ connection' = "broken"
  /\ \E n \in 0 .. Len(inTransit) : inTransit' = SubSeq(inTransit, 1, n)
  /\ UNCHANGED delivered

Announce ==
  /\ connection = "broken"
  /\ connection' = "announced"
  /\ inTransit' = Append(inTransit, SocketError)
  /\ UNCHANGED delivered

Deliver ==
  /\ inTransit # <<>>
  /\ delivered' = Append(delivered, Head(inTransit))
  /\ inTransit' = Tail(inTransit)
  /\ UNCHANGED connection

MailboxNext == Post \/ Break \/ Announce \/ Deliver

MailboxSpec == MailboxInit /\ [][MailboxNext]_mailboxVars
=============================================================================
