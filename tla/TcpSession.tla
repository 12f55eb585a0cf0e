----------------------------- MODULE TcpSession -----------------------------
(***************************************************************************)
(* tcp_session's mailbox: an io_service thread reads the client's messages *)
(* and pushes them onto msg_q; the pool thread of process_request takes    *)
(* them in get_client_msg.  Only the pool thread locks tcp_sess_mx, so     *)
(* push and notify can fall between the test of the wait's predicate and   *)
(* the moment the thread is on the condition variable.                     *)
(***************************************************************************)
EXTENDS Integers, Sequences

CONSTANTS
  MaxSent,   \* bound: how many messages the client sends
  Window     \* messages a client sends without having the answer

ASSUME TcpSessionAssumption == MaxSent \in Nat /\ Window \in Nat \ {0}

\* Mistake: the error's code is pushed.
SocketErrorCode == -1

\* The message action_msg_received pushes when a read fails.
SocketError == 0

VARIABLES
  sent,      \* number of messages the client has sent: 1, 2, ...
  broken,    \* the connection is broken or closed by the client
  buffered,  \* m_request: messages received and not consumed yet
  msgQ,      \* msg_q
  handler,   \* the io thread: in async_read_until, or at a step of its handler
  getter,    \* the pool thread in get_client_msg, or at work on a message
  taken      \* messages get_client_msg has returned

vars == <<sent, broken, buffered, msgQ, handler, getter, taken>>

TypeOK ==
  /\ sent \in 0 .. MaxSent
  /\ broken \in BOOLEAN
  /\ buffered \in Seq(1 .. MaxSent)
  /\ msgQ \in Seq(0 .. MaxSent)
  /\ handler \in {"reading", "pushed", "stopping", "stopped"}
  /\ getter \in {"test", "waiting", "asleep", "busy", "done"}
  /\ taken \in Seq(0 .. MaxSent)

Init ==
  /\ sent = 0
  /\ broken = FALSE
  /\ buffered = <<>>
  /\ msgQ = <<>>
  /\ handler = "reading"
  /\ getter = "test"
  /\ taken = <<>>

-----------------------------------------------------------------------------
(* The client.                                                             *)

\* Answered messages: all the getter took, but for the one it works on.
Answered == IF getter = "busy" THEN Len(taken) - 1 ELSE Len(taken)

ClientSends ==
  /\ sent < MaxSent /\ sent - Answered < Window /\ ~broken
  /\ sent' = sent + 1
  /\ buffered' = Append(buffered, sent + 1)
  /\ UNCHANGED <<broken, msgQ, handler, getter, taken>>

\* The client closes or the network fails; unread bytes may be lost with it.
ConnectionBreaks ==
  /\ ~broken
  /\ broken' = TRUE
  /\ \E n \in 0 .. Len(buffered) : buffered' = SubSeq(buffered, 1, n)
  /\ UNCHANGED <<sent, msgQ, handler, getter, taken>>

-----------------------------------------------------------------------------
(* action_msg_received, on a thread of tcp_server's io_service.            *)

\* Mistake: m_request.consume is forgotten, the bytes are read again.
ConsumeForgotten(b) == b

Consume(b) == Tail(b)

\* Mistake: the error is logged and not pushed.
PushErrorLogged(q) == q

\* Mistake: the error takes the place of the messages that wait.
PushErrorAlone(q) == <<SocketError>>

PushError(q) == Append(q, SocketError)

PushMessage ==
  /\ handler = "reading" /\ buffered # <<>>
  /\ msgQ' = Append(msgQ, Head(buffered))
  /\ buffered' = Consume(buffered)
  /\ handler' = "pushed"
  /\ UNCHANGED <<sent, broken, getter, taken>>

\* The read failed: the adjudicator gets SOCKET_ERROR, nothing more is read.
PushSocketError ==
  /\ handler = "reading" /\ buffered = <<>> /\ broken
  /\ msgQ' = PushError(msgQ)
  /\ handler' = "stopping"
  /\ UNCHANGED <<sent, broken, buffered, getter, taken>>

\* cv_sess.notify_one reaches a thread that is on the condition variable.
Notify ==
  /\ handler \in {"pushed", "stopping"}
  /\ handler' = IF handler = "pushed" THEN "reading" ELSE "stopped"
  /\ getter' = IF getter = "asleep" THEN "test" ELSE getter
  /\ UNCHANGED <<sent, broken, buffered, msgQ, taken>>

-----------------------------------------------------------------------------
(* get_client_msg, on the slot's pool thread.                              *)

TakeMessage ==
  /\ getter = "test" /\ msgQ # <<>>
  /\ taken' = Append(taken, Head(msgQ))
  /\ msgQ' = Tail(msgQ)
  /\ getter' = "busy"
  /\ UNCHANGED <<sent, broken, buffered, handler>>

\* The predicate of cv_sess.wait was false.
FindEmpty ==
  /\ getter = "test" /\ msgQ = <<>>
  /\ getter' = "waiting"
  /\ UNCHANGED <<sent, broken, buffered, msgQ, handler, taken>>

FallAsleep ==
  /\ getter = "waiting"
  /\ getter' = "asleep"
  /\ UNCHANGED <<sent, broken, buffered, msgQ, handler, taken>>

\* A condition variable may wake without a reason; it need not.
WakeSpuriously ==
  /\ getter = "asleep"
  /\ getter' = "test"
  /\ UNCHANGED <<sent, broken, buffered, msgQ, handler, taken>>

\* process_request answers and asks for the next message, or returns: after a
\* SOCKET_ERROR always, else when the message was DISCONNECT.
FinishMessage ==
  /\ getter = "busy"
  /\ getter' \in IF taken[Len(taken)] = SocketError THEN {"done"} ELSE {"test", "done"}
  /\ UNCHANGED <<sent, broken, buffered, msgQ, handler, taken>>

-----------------------------------------------------------------------------
Reader == PushMessage \/ PushSocketError \/ Notify

Getter == TakeMessage \/ FindEmpty \/ FallAsleep \/ FinishMessage

Next == ClientSends \/ ConnectionBreaks \/ Reader \/ Getter \/ WakeSpuriously

Spec == Init /\ [][Next]_vars

\* Both threads run; the client and spurious wakeups owe nothing.
FairSpec == Spec /\ WF_vars(Reader) /\ WF_vars(Getter)

-----------------------------------------------------------------------------
\* DeliveredInOrder: what get_client_msg has returned, followed by what is
\* queued and buffered, are the client's messages from the first on, each
\* once, with nothing behind the SOCKET_ERROR that ends them: the adjudicator
\* never sees a request twice, out of order, or after the end of its session.
DeliveredInOrder ==
  LET all == taken \o msgQ \o buffered IN
  \A i \in 1 .. Len(all) : all[i] = i \/ (all[i] = SocketError /\ i = Len(all))

\* ErrorNotForgotten: once the handler has stopped reading, a SOCKET_ERROR is
\* queued, or was taken: the adjudicator can still learn that it must roll back.
ErrorNotForgotten ==
  handler \in {"stopping", "stopped"} =>
    \E i \in 1 .. Len(taken \o msgQ) : (taken \o msgQ)[i] = SocketError

\* What is on its way: queued, or still behind the socket.
Underway == msgQ \o buffered

Connection ==
  IF handler \in {"stopping", "stopped"} THEN "announced"
  ELSE IF broken THEN "broken" ELSE "open"

Promised == INSTANCE Mailbox
              WITH inTransit <- Underway, delivered <- taken, connection <- Connection

\* ImplementsMailbox: whatever the two threads do between the socket and msg_q,
\* the adjudicator sees a channel that loses messages only when the connection
\* breaks, only from its end, and announces that behind what is left.
ImplementsMailbox == Promised!MailboxSpec

\* ContinuallyRead: the mailbox is "continually read until the request has
\* been finalised" (tcp_session.cpp): a queued message is taken, unless
\* process_request has returned.
ContinuallyRead == msgQ # <<>> ~> (msgQ = <<>> \/ getter = "done")
=============================================================================
