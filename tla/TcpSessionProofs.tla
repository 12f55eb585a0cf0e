-------------------------- MODULE TcpSessionProofs --------------------------
(***************************************************************************)
(* The mailbox of tcp_session delivers in order and never forgets that the *)
(* connection failed, for any number of messages and any window.           *)
(***************************************************************************)
EXTENDS TcpSession, DataLemmas

Codes == 0 .. MaxSent

\* Every message on its way to the adjudicator or already with it.
Mail == taken \o msgQ \o buffered

\* DeliveredInOrder says this of the mail.
InOrder(s) == \A i \in 1 .. Len(s) : s[i] = i \/ (s[i] = SocketError /\ i = Len(s))

HasError(s) == \E i \in 1 .. Len(s) : s[i] = SocketError

Reading == handler \in {"reading", "pushed"}

\* As long as the handler reads, there is no SOCKET_ERROR anywhere, and nothing
\* is lost of what the client sent; when it has stopped, nothing is buffered.
IInv ==
  /\ TypeOK
  /\ InOrder(Mail)
  /\ Reading => ~HasError(Mail)
  /\ ~broken => Reading /\ Len(Mail) = sent
  /\ ~Reading => buffered = <<>> /\ HasError(taken \o msgQ)

-----------------------------------------------------------------------------
\* The three parts of the mail as sequences over the same codes.
LEMMA MailTypes ==
  ASSUME TypeOK
  PROVE  /\ taken \in Seq(Codes) /\ msgQ \in Seq(Codes) /\ buffered \in Seq(Codes)
         /\ taken \o msgQ \in Seq(Codes) /\ Mail \in Seq(Codes)
         /\ Len(taken \o msgQ) = Len(taken) + Len(msgQ)
         /\ Len(Mail) = Len(taken \o msgQ) + Len(buffered)
         /\ Len(Mail) \in Nat /\ Len(taken \o msgQ) \in Nat /\ Len(buffered) \in Nat
<1>1. taken \in Seq(Codes) /\ msgQ \in Seq(Codes)
  BY DEF TypeOK, Codes
<1>2. buffered \in Seq(Codes)
  <2>1. buffered \in Seq(1 .. MaxSent) /\ 1 .. MaxSent \subseteq Codes
    BY DEF TypeOK, Codes
  <2> QED BY <2>1, SeqMonotonic
<1>3. taken \o msgQ \in Seq(Codes) /\ Len(taken \o msgQ) = Len(taken) + Len(msgQ)
  BY <1>1, ConcatProperties
<1>4. Mail \in Seq(Codes) /\ Len(Mail) = Len(taken \o msgQ) + Len(buffered)
  BY <1>2, <1>3, ConcatProperties DEF Mail
<1> QED BY <1>1, <1>2, <1>3, <1>4, LenProperties

\* The mailbox is empty at first.
LEMMA InitTypes == Init => TypeOK
<1> SUFFICES ASSUME Init PROVE TypeOK
  OBVIOUS
<1>1. buffered \in Seq(1 .. MaxSent) /\ msgQ \in Seq(0 .. MaxSent) /\ taken \in Seq(0 .. MaxSent)
  BY EmptySeq DEF Init
<1>2. sent \in 0 .. MaxSent
  BY TcpSessionAssumption DEF Init
<1> QED BY <1>1, <1>2 DEF Init, TypeOK

\* Every step keeps the types, whatever the order of the messages.
LEMMA StepTypes ==
  ASSUME TypeOK, [Next]_vars
  PROVE  TypeOK'
<1> USE TcpSessionAssumption DEF TypeOK, SocketError
<1>1. CASE ClientSends
  BY <1>1, AppendProperties DEF ClientSends
<1>2. CASE ConnectionBreaks
  <2>1. PICK n \in 0 .. Len(buffered) : buffered' = SubSeq(buffered, 1, n)
    BY <1>2 DEF ConnectionBreaks
  <2>2. \A i \in 1 .. n : buffered[i] \in 1 .. MaxSent
    BY <2>1, ElementOfSeq, LenProperties
  <2>3. SubSeq(buffered, 1, n) \in Seq(1 .. MaxSent)
    BY <2>1, <2>2, LenProperties, SubSeqProperties
  <2> QED BY <1>2, <2>1, <2>3 DEF ConnectionBreaks
<1>3. CASE PushMessage
  <2>1. Head(buffered) \in 1 .. MaxSent /\ Tail(buffered) \in Seq(1 .. MaxSent)
    BY <1>3, HeadTailProperties DEF PushMessage
  <2>2. Append(msgQ, Head(buffered)) \in Seq(0 .. MaxSent)
    BY <2>1, AppendProperties
  <2> QED BY <1>3, <2>1, <2>2 DEF PushMessage, Consume
<1>4. CASE PushSocketError
  <2>1. Append(msgQ, 0) \in Seq(0 .. MaxSent)
    BY AppendProperties
  <2> QED BY <1>4, <2>1 DEF PushSocketError, PushError
<1>5. CASE Notify
  BY <1>5 DEF Notify
<1>6. CASE TakeMessage
  <2>1. Head(msgQ) \in 0 .. MaxSent /\ Tail(msgQ) \in Seq(0 .. MaxSent)
    BY <1>6, HeadTailProperties DEF TakeMessage
  <2>2. Append(taken, Head(msgQ)) \in Seq(0 .. MaxSent)
    BY <2>1, AppendProperties
  <2> QED BY <1>6, <2>1, <2>2 DEF TakeMessage
<1>7. CASE FindEmpty \/ FallAsleep \/ WakeSpuriously \/ FinishMessage
  BY <1>7 DEF FindEmpty, FallAsleep, WakeSpuriously, FinishMessage
<1>8. CASE UNCHANGED vars
  BY <1>8 DEF vars
<1> QED BY <1>1, <1>2, <1>3, <1>4, <1>5, <1>6, <1>7, <1>8 DEF Next, Reader, Getter

\* Type correctness of the mailbox: what is buffered, queued and taken are
\* codes of messages, SOCKET_ERROR only behind the socket.
THEOREM TypeCorrect == Spec => []TypeOK
<1>1. Init => TypeOK
  BY InitTypes
<1>2. TypeOK /\ [Next]_vars => TypeOK'
  BY StepTypes
<1> QED BY <1>1, <1>2, PTL DEF Spec

-----------------------------------------------------------------------------
\* Steps that only hand a message on leave the mail as it is.
LEMMA SameMail ==
  ASSUME TypeOK, PushMessage \/ TakeMessage
  PROVE  Mail' = Mail
<1> USE MailTypes
<1>1. CASE PushMessage
  <2>1. Head(buffered) \in Codes /\ buffered # <<>>
    BY <1>1, HeadTailProperties DEF PushMessage
  <2>2. taken \o Append(msgQ, Head(buffered)) = Append(taken \o msgQ, Head(buffered))
    BY <2>1, AppendConcat
  <2>3. Append(taken \o msgQ, Head(buffered)) \o Tail(buffered) = (taken \o msgQ) \o buffered
    BY <2>1, Handover
  <2> QED BY <1>1, <2>2, <2>3 DEF PushMessage, Consume, Mail
<1>2. CASE TakeMessage
  <2>1. Append(taken, Head(msgQ)) \o Tail(msgQ) = taken \o msgQ
    BY <1>2, Handover DEF TakeMessage
  <2> QED BY <1>2, <2>1 DEF TakeMessage, Mail
<1> QED BY <1>1, <1>2

\* Nothing else than the mail and what is known of the connection matters to
\* the invariant when the handler reads.
LEMMA ReadingStep ==
  ASSUME IInv, TypeOK', Reading, Reading', Mail' = Mail, UNCHANGED <<sent, broken>>
  PROVE  IInv'
  BY DEF IInv, InOrder, HasError

\* The client sends: the mail was everything sent so far, and is again.
LEMMA SendStep ==
  ASSUME IInv, TypeOK', ClientSends
  PROVE  IInv'
<1> USE MailTypes, TcpSessionAssumption
<1>0. TypeOK /\ Reading /\ Reading' /\ Len(Mail) = sent /\ sent + 1 \in Codes
  BY DEF IInv, ClientSends, Reading, TypeOK, Codes
<1>1. Mail' = Append(Mail, sent + 1)
  <2>1. Mail' = (taken \o msgQ) \o Append(buffered, sent + 1)
    BY DEF ClientSends, Mail
  <2> QED BY <1>0, <2>1, AppendConcat DEF Mail
<1>2. /\ Len(Mail') = Len(Mail) + 1
      /\ \A i \in 1 .. Len(Mail) : Mail'[i] = Mail[i]
      /\ Mail'[Len(Mail) + 1] = sent + 1
  BY <1>0, <1>1, AppendProperties
<1>3. \A i \in 1 .. Len(Mail) : Mail[i] = i
  BY <1>0 DEF IInv, InOrder, HasError
<1>4. \A i \in 1 .. Len(Mail') : Mail'[i] = i
  BY <1>0, <1>2, <1>3
<1>5. InOrder(Mail') /\ ~HasError(Mail')
  BY <1>0, <1>2, <1>4 DEF InOrder, HasError, SocketError
<1>6. sent' = sent + 1 /\ ~broken'
  BY DEF ClientSends
<1> QED BY <1>0, <1>2, <1>5, <1>6 DEF IInv

\* The connection breaks: what is left of the mail is a prefix of it.
LEMMA BreakStep ==
  ASSUME IInv, TypeOK', ConnectionBreaks
  PROVE  IInv'
<1> USE MailTypes
<1>0. TypeOK /\ Reading /\ Reading' /\ broken' /\ UNCHANGED <<taken, msgQ>>
  BY DEF IInv, ConnectionBreaks, Reading
<1>1. PICK n \in 0 .. Len(buffered) : buffered' = SubSeq(buffered, 1, n)
  BY DEF ConnectionBreaks
<1>2. /\ buffered' \in Seq(Codes) /\ Len(buffered') = n
      /\ \A i \in 1 .. n : buffered'[i] = buffered[i]
  <2>1. \A i \in 1 .. n : buffered[i] \in Codes
    BY <1>0, ElementOfSeq
  <2> QED BY <1>0, <1>1, <2>1, SubSeqProperties
<1>3. Len(Mail') = Len(taken \o msgQ) + n /\ Len(Mail') \in 0 .. Len(Mail)
  <2>1. Mail' = (taken \o msgQ) \o buffered'
    BY <1>0 DEF Mail
  <2>2. Len((taken \o msgQ) \o buffered') = Len(taken \o msgQ) + n
    BY <1>0, <1>2, ConcatProperties
  <2> QED BY <1>0, <2>1, <2>2
<1>4. \A i \in 1 .. Len(Mail') : Mail'[i] = Mail[i]
  <2> TAKE i \in 1 .. Len(Mail')
  <2>1. Mail[i] = IF i <= Len(taken \o msgQ) THEN (taken \o msgQ)[i]
                  ELSE buffered[i - Len(taken \o msgQ)]
    BY <1>0, <1>3, ConcatProperties DEF Mail
  <2>2. Mail'[i] = IF i <= Len(taken \o msgQ) THEN (taken \o msgQ)[i]
                   ELSE buffered'[i - Len(taken \o msgQ)]
    BY <1>0, <1>2, <1>3, ConcatProperties DEF Mail
  <2>3. i > Len(taken \o msgQ) => i - Len(taken \o msgQ) \in 1 .. n
    BY <1>0, <1>3
  <2> QED BY <2>1, <2>2, <2>3, <1>2
<1>5. InOrder(Mail') /\ ~HasError(Mail')
  <2>1. \A i \in 1 .. Len(Mail) : Mail[i] = i /\ Mail[i] # SocketError
    BY <1>0 DEF IInv, InOrder, HasError
  <2>2. \A i \in 1 .. Len(Mail') : i \in 1 .. Len(Mail)
    BY <1>0, <1>3
  <2> QED BY <2>1, <2>2, <1>4 DEF InOrder, HasError
<1> QED BY <1>0, <1>5 DEF IInv

\* A read fails: nothing is buffered, and SOCKET_ERROR becomes the last mail.
LEMMA ErrorStep ==
  ASSUME IInv, TypeOK', PushSocketError
  PROVE  IInv'
<1> USE MailTypes
<1>0. /\ TypeOK /\ Reading /\ ~Reading' /\ broken' /\ buffered = <<>> /\ buffered' = <<>>
      /\ 0 \in Codes
  BY TcpSessionAssumption DEF IInv, PushSocketError, Reading, Codes
<1>1. (taken \o msgQ)' = Append(taken \o msgQ, 0)
  BY <1>0, AppendConcat DEF PushSocketError, PushError, SocketError
<1>2. Mail = taken \o msgQ /\ Mail' = (taken \o msgQ)'
  BY <1>0, ConcatEmptySeq DEF Mail
<1>3. /\ Len(Mail') = Len(Mail) + 1 /\ \A i \in 1 .. Len(Mail) : Mail'[i] = Mail[i]
      /\ Mail'[Len(Mail) + 1] = 0
  BY <1>0, <1>1, <1>2, AppendProperties
<1>4. HasError((taken \o msgQ))'
  BY <1>0, <1>2, <1>3 DEF HasError, SocketError
<1>5. InOrder(Mail')
  BY <1>0, <1>3 DEF IInv, InOrder, HasError, SocketError
<1> QED BY <1>0, <1>4, <1>5 DEF IInv

\* The invariant of the mailbox.
THEOREM Invariance == Spec => []IInv
<1>1. Init => IInv
  <2> SUFFICES ASSUME Init PROVE IInv
    OBVIOUS
  <2>1. TypeOK
    BY InitTypes
  <2>2. Mail = <<>> /\ Len(Mail) = 0
    BY ConcatEmptySeq, EmptySeq DEF Init, Mail
  <2> QED BY <2>1, <2>2 DEF Init, IInv, InOrder, HasError, Reading
<1>2. IInv /\ [Next]_vars => IInv'
  <2> SUFFICES ASSUME IInv, [Next]_vars PROVE IInv'
    OBVIOUS
  <2>0. TypeOK /\ TypeOK'
    BY StepTypes DEF IInv
  <2>1. CASE ClientSends
    BY <2>0, <2>1, SendStep
  <2>2. CASE ConnectionBreaks
    BY <2>0, <2>2, BreakStep
  <2>3. CASE PushMessage
    BY <2>0, <2>3, SameMail, ReadingStep DEF PushMessage, Reading
  <2>4. CASE PushSocketError
    BY <2>0, <2>4, ErrorStep
  <2>5. CASE TakeMessage
    <3>1. Mail' = Mail /\ UNCHANGED <<sent, broken, handler, buffered>>
      BY <2>0, <2>5, SameMail DEF TakeMessage
    <3>2. (taken \o msgQ)' = taken \o msgQ
      BY <2>0, <2>5, MailTypes, Handover DEF TakeMessage
    <3> QED BY <2>0, <3>1, <3>2 DEF IInv, InOrder, HasError, Reading
  <2>6. CASE Notify \/ FindEmpty \/ FallAsleep \/ WakeSpuriously \/ FinishMessage
            \/ UNCHANGED vars
    <3>1. UNCHANGED <<sent, broken, buffered, msgQ, taken>> /\ Reading' = Reading
      BY <2>6 DEF Notify, FindEmpty, FallAsleep, WakeSpuriously, FinishMessage, vars, Reading
    <3> QED BY <2>0, <3>1 DEF IInv, InOrder, HasError, Mail
  <2> QED BY <2>1, <2>2, <2>3, <2>4, <2>5, <2>6 DEF Next, Reader, Getter
<1> QED BY <1>1, <1>2, PTL DEF Spec

\* The adjudicator gets the client's messages once, in order, and nothing after
\* the SOCKET_ERROR (action_msg_received, get_client_msg).
THEOREM DeliveredInOrderCorrect == Spec => []DeliveredInOrder
<1>1. IInv => DeliveredInOrder
  BY DEF IInv, InOrder, DeliveredInOrder, Mail
<1> QED BY <1>1, Invariance, PTL

\* A handler that has stopped reading has left a SOCKET_ERROR for the adjudicator
\* (action_msg_received).
THEOREM ErrorNotForgottenCorrect == Spec => []ErrorNotForgotten
<1>1. IInv => ErrorNotForgotten
  BY DEF IInv, ErrorNotForgotten, HasError, Reading
<1> QED BY <1>1, Invariance, PTL

-----------------------------------------------------------------------------
(* The abstract mailbox.                                                   *)

\* The mail is what was delivered and what is on its way.
LEMMA MailParts ==
  ASSUME TypeOK
  PROVE  /\ Underway \in Seq(Codes) /\ Mail = taken \o Underway
         /\ Len(Mail) = Len(taken) + Len(Underway)
         /\ Len(Underway) = Len(msgQ) + Len(buffered)
         /\ Len(msgQ) \in Nat /\ Len(buffered) \in Nat /\ Len(Underway) \in Nat
<1> USE MailTypes
<1>1. Underway \in Seq(Codes) /\ Len(Underway) = Len(msgQ) + Len(buffered)
  BY ConcatProperties DEF Underway
<1>2. Mail = taken \o Underway
  BY ConcatAssociative DEF Mail, Underway
<1>3. Len(Mail) = Len(taken) + Len(Underway)
  BY <1>1, <1>2, ConcatProperties
<1> QED BY <1>1, <1>2, <1>3, LenProperties

\* A message handed over from the socket to msg_q stays on its way, one taken
\* from msg_q is the first that was.
LEMMA HandedOver ==
  ASSUME TypeOK
  PROVE  /\ PushMessage => Underway' = Underway
         /\ TakeMessage =>
              Underway # <<>> /\ Head(msgQ) = Head(Underway) /\ Underway' = Tail(Underway)
<1> USE MailTypes
<1>1. ASSUME PushMessage PROVE Underway' = Underway
  <2>1. Append(msgQ, Head(buffered)) \o Tail(buffered) = msgQ \o buffered
    BY <1>1, Handover DEF PushMessage
  <2> QED BY <1>1, <2>1 DEF PushMessage, Consume, Underway
<1>2. ASSUME TakeMessage
      PROVE  Underway # <<>> /\ Head(msgQ) = Head(Underway) /\ Underway' = Tail(Underway)
  <2>1. /\ msgQ \o buffered # <<>> /\ Head(msgQ \o buffered) = Head(msgQ)
        /\ Tail(msgQ \o buffered) = Tail(msgQ) \o buffered
    BY <1>2, FirstOfConcat DEF TakeMessage
  <2> QED BY <1>2, <2>1 DEF TakeMessage, Underway
<1> QED BY <1>1, <1>2

\* When the connection breaks, what is left on its way is a prefix of what was.
LEMMA CutBehind ==
  ASSUME TypeOK, ConnectionBreaks
  PROVE  \E n \in 0 .. Len(Underway) : Underway' = SubSeq(Underway, 1, n)
<1> USE MailTypes, MailParts
<1>1. PICK n \in 0 .. Len(buffered) : buffered' = SubSeq(buffered, 1, n)
  BY DEF ConnectionBreaks
<1>2. msgQ \o SubSeq(buffered, 1, n) = SubSeq(Underway, 1, Len(msgQ) + n)
  BY PrefixBehind DEF Underway
<1>3. Underway' = SubSeq(Underway, 1, Len(msgQ) + n)
  BY <1>1, <1>2 DEF ConnectionBreaks, Underway
<1>4. Len(msgQ) + n \in 0 .. Len(Underway)
  OBVIOUS
<1> QED BY <1>3, <1>4

\* Every step of the client, the network and the two threads is a step of the
\* abstract mailbox or is not seen there.
LEMMA MailboxStep ==
  ASSUME IInv, [Next]_vars
  PROVE  [Promised!MailboxNext]_(Promised!mailboxVars)
<1> USE MailTypes, MailParts DEF Promised!MailboxNext, Promised!mailboxVars
<1>0. TypeOK /\ (Reading <=> handler \notin {"stopping", "stopped"})
  BY DEF IInv, TypeOK, Reading
<1>1. CASE ClientSends
  <2>1. Underway' = Append(Underway, sent + 1)
    <3>1. sent + 1 \in Codes
      BY <1>0, <1>1, TcpSessionAssumption DEF ClientSends, TypeOK, Codes
    <3> QED BY <1>0, <1>1, <3>1, AppendConcat DEF ClientSends, Underway
  <2>2. sent = Len(taken) + Len(Underway) /\ sent < MaxSent /\ Reading
    BY <1>0, <1>1 DEF IInv, ClientSends
  <2>3. Connection = "open" /\ UNCHANGED <<taken, Connection>>
    BY <1>0, <1>1, <2>2 DEF ClientSends, Connection
  <2> QED BY <2>1, <2>2, <2>3 DEF Promised!Post, Promised!Posted
<1>2. CASE ConnectionBreaks
  <2>1. Reading /\ Connection = "open" /\ Connection' = "broken" /\ UNCHANGED taken
    BY <1>0, <1>2 DEF IInv, ConnectionBreaks, Connection
  <2> QED BY <1>0, <1>2, <2>1, CutBehind DEF Promised!Break
<1>3. CASE PushMessage
  <2>1. UNCHANGED <<taken, Connection>>
    BY <1>3 DEF PushMessage, Connection
  <2> QED BY <1>0, <1>3, <2>1, HandedOver
<1>4. CASE PushSocketError
  <2>1. Connection = "broken" /\ Connection' = "announced" /\ UNCHANGED taken
    BY <1>4 DEF PushSocketError, Connection
  <2>2. Underway' = Append(Underway, SocketError)
    BY <1>0, <1>4, ConcatEmptySeq DEF PushSocketError, PushError, Underway
  <2> QED BY <2>1, <2>2 DEF Promised!Announce
<1>5. CASE TakeMessage
  <2>1. taken' = Append(taken, Head(msgQ)) /\ UNCHANGED Connection
    BY <1>5 DEF TakeMessage, Connection
  <2> QED BY <1>0, <1>5, <2>1, HandedOver DEF Promised!Deliver
<1>6. CASE Notify \/ FindEmpty \/ FallAsleep \/ WakeSpuriously \/ FinishMessage \/ UNCHANGED vars
  <2>1. UNCHANGED <<broken, buffered, msgQ, taken>> /\ Connection' = Connection
    BY <1>0, <1>6 DEF Notify, FindEmpty, FallAsleep, WakeSpuriously, FinishMessage, vars,
                      Connection
  <2> QED BY <2>1 DEF Underway
<1> QED BY <1>1, <1>2, <1>3, <1>4, <1>5, <1>6 DEF Next, Reader, Getter

\* The mailbox between the io_service's thread and the adjudicator's is a
\* channel that keeps everything it has received (action_msg_received,
\* get_client_msg): it loses only what breaks off behind, and says so once.
THEOREM MailboxImplemented == Spec => ImplementsMailbox
<1>1. Init => Promised!MailboxInit
  BY ConcatEmptySeq, EmptySeq DEF Init, Promised!MailboxInit, Underway, Connection
<1>2. IInv /\ [Next]_vars => [Promised!MailboxNext]_(Promised!mailboxVars)
  BY MailboxStep
<1> QED BY <1>1, <1>2, Invariance, PTL DEF Spec, ImplementsMailbox, Promised!MailboxSpec
=============================================================================
