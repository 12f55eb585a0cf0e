--------------------------- MODULE SessionService ---------------------------
(***************************************************************************)
(* What db_service promises to the clients that tcp_acceptor accepts: they *)
(* wait in one line, are served in the order of the line, each once, and   *)
(* each with a place of its own.  A place whose job failed is not used     *)
(* again.  When the service closes, those at the end of the line are sent  *)
(* away; nobody joins it any more.                                         *)
(***************************************************************************)
EXTENDS Integers, Sequences

CONSTANTS Clients, Places, Servers, Nobody

VARIABLES
  arrived,   \* the clients that have come
  line,      \* the clients that wait to be served
  serving,   \* whom each server serves, and with which place
  spoiled,   \* places not used again
  open       \* whether the service takes clients

serviceVars == <<arrived, line, serving, spoiled, open>>

ServiceInit ==
  /\ arrived = {}
  /\ line = <<>>
  /\ serving = [t \in Servers |-> Nobody]
  /\ spoiled = {}
  /\ open = TRUE

Arrive(c) ==
  /\ c \notin arrived
  /\ arrived' = arrived \cup {c}
  /\ line' = IF open THEN Append(line, c) ELSE line
  /\ UNCHANGED <<serving, spoiled, open>>

InUse(p) == \E t \in Servers : serving[t] # Nobody /\ serving[t].place = p

Serve(t, p) ==
  /\ serving[t] = Nobody /\ line # <<>>
  /\ p \notin spoiled /\ ~InUse(p)
  /\ serving' = [serving EXCEPT ![t] = [client |-> Head(line), place |-> p]]
  /\ line' = Tail(line)
  /\ UNCHANGED <<arrived, spoiled, open>>

Leave(t) ==
  /\ serving[t] # Nobody
  /\ serving' = [serving EXCEPT ![t] = Nobody]
  /\ UNCHANGED <<arrived, line, spoiled, open>>

Fail(t) ==
  /\ serving[t] # Nobody
  /\ serving' = [serving EXCEPT ![t] = Nobody]
  /\ spoiled' = spoiled \cup {serving[t].place}
  /\ UNCHANGED <<arrived, line, open>>

Close ==
  /\ open' = FALSE
  /\ \E n \in 0 .. Len(line) : line' = SubSeq(line, 1, n)
  /\ UNCHANGED <<arrived, serving, spoiled>>

ServiceNext ==
  \/ \E c \in Clients : Arrive(c)
  \/ \E t \in Servers : Leave(t) \/ Fail(t) \/ \E p \in Places : Serve(t, p)
  \/ Close

ServiceSpec == ServiceInit /\ [][ServiceNext]_serviceVars
=============================================================================
