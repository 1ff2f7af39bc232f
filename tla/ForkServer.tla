------------------------------ MODULE ForkServer -------------------------------
(***************************************************************************)
(* exam/tcpserver.cpp and exam/tcpclient.cpp: a server that forks a child    *)
(* for every connection and collects dead children in a signal handler, and  *)
(* clients that read one answer.  The handler runs between any two steps of  *)
(* the parent and holds it up.  Signals of several children may become one.  *)
(***************************************************************************)
EXTENDS Integers, Sequences

CONSTANTS Clients, BACKLOG    \* see ProgramBounds

VARIABLE s    \* pc: parent (setup, accept, fork, close, exit); fd: the client
              \* of new_fd; backlog: connections not yet accepted; handler:
              \* sigchld_handler runs; pending: SIGCHLD waits for delivery
              \* child[c]: none, born, sent, zombie, reaped; closed[c]: the
              \* parent has closed c; sent[c]: the answer is on its way
              \* client[c]: start, connected, text, end, failed

Starts ==
  {[program |-> "fork", pc |-> "setup", fd |-> "none", backlog |-> <<>>, handler |-> FALSE,
    pending |-> FALSE, child |-> [c \in Clients |-> "none"],
    closed |-> [c \in Clients |-> FALSE], sent |-> [c \in Clients |-> FALSE],
    client |-> [c \in Clients |-> "start"]]}

Running == s.program = "fork"
At(pc) == Running /\ s.pc = pc /\ ~s.handler

(* socket, setsockopt, bind, listen and sigaction: each one may fail, and    *)
(* then main exits.                                                          *)
SetUp == At("setup") /\ \E pc \in {"accept", "exit"} : s' = [s EXCEPT !.pc = pc]

(* After an error of accept the loop goes on, which changes nothing.         *)
Accept ==
  /\ At("accept") /\ s.backlog # <<>>
  /\ s' = [s EXCEPT !.pc = "fork", !.fd = Head(s.backlog), !.backlog = Tail(@)]

(* A failed fork returns -1, which the parent takes for a child.             *)
Fork ==
  /\ At("fork")
  /\ \E state \in {"born", "none"} : s' = [s EXCEPT !.pc = "close", !.child[s.fd] = state]

CloseNew ==
  At("close") /\ s' = [s EXCEPT !.pc = "accept", !.fd = "none", !.closed[s.fd] = TRUE]

(* SIGCHLD interrupts the parent wherever it is, and SA_RESTART takes it     *)
(* back there.  It is blocked while its handler runs.                        *)
Deliver ==
  Running /\ s.pending /\ ~s.handler /\ s' = [s EXCEPT !.handler = TRUE, !.pending = FALSE]

(* A turn of the handler's loop: wait collects one, blocks while all         *)
(* children live, and fails when there is none.                              *)
sigchld_handler ==
  /\ Running /\ s.handler
  /\ \/ \E c \in Clients :
          /\ s.child[c] = "zombie"
          /\ s' = [s EXCEPT !.child[c] = "reaped"]
     \/ /\ \A c \in Clients : s.child[c] \in {"none", "reaped"}
        /\ s' = [s EXCEPT !.handler = FALSE]

Parent == SetUp \/ Accept \/ Fork \/ CloseNew \/ Deliver \/ sigchld_handler

(* send fails once the client is gone; the child closes and exits anyway.    *)
Send(c) ==
  /\ Running /\ s.child[c] = "born"
  /\ s' = [s EXCEPT !.child[c] = "sent", !.sent[c] = s.client[c] = "connected"]

Exit(c) ==
  /\ Running /\ s.child[c] = "sent"
  /\ s' = [s EXCEPT !.child[c] = "zombie", !.pending = TRUE]

Child(c) == Send(c) \/ Exit(c)

-------------------------------------------------------------------------------
(* connect is done when the connection is in the backlog.                    *)
Connect(c) ==
  /\ Running /\ s.client[c] = "start"
  /\ s.pc \notin {"setup", "exit"} /\ Len(s.backlog) < BACKLOG
  /\ s' = [s EXCEPT !.client[c] = "connected", !.backlog = Append(@, c)]

(* connect or recv fails: nobody listens, or the network is down.            *)
ClientFails(c) ==
  /\ Running /\ s.client[c] \in {"start", "connected"}
  /\ s' = [s EXCEPT !.client[c] = "failed"]

(* TCP: the end of the stream, once parent and child have closed it.         *)
AtEnd(c) == s.closed[c] /\ s.child[c] \notin {"born", "sent"}

(* One recv, which returns the answer or the end of the stream.              *)
Recv(c) ==
  /\ Running /\ s.client[c] = "connected"
  /\ \/ s.sent[c] /\ s' = [s EXCEPT !.client[c] = "text"]
     \/ ~s.sent[c] /\ AtEnd(c) /\ s' = [s EXCEPT !.client[c] = "end"]

(* All clients are done, and the server has ended or waits in accept.        *)
Ended ==
  /\ Running /\ s.pc \in {"accept", "exit"} /\ ~s.handler /\ ~s.pending /\ UNCHANGED s
  /\ \A c \in Clients : /\ s.client[c] \in {"text", "end", "failed"}
                         /\ s.child[c] \in {"none", "reaped"}

Next ==
  \/ Parent \/ Ended
  \/ \E c \in Clients : Child(c) \/ Connect(c) \/ ClientFails(c) \/ Recv(c)

(* Parent, children and clients are processes of their own, and none is left *)
(* without the processor for ever.                                           *)
Fairness == WF_s(Parent) /\ \A c \in Clients : WF_s(Child(c)) /\ WF_s(Recv(c))
-------------------------------------------------------------------------------
(* No dead child is forgotten, although signals of several children become   *)
(* one: while one is left, the handler runs or will be called.               *)
ZombiesNoticed ==
  (\E c \in Clients : s.child[c] = "zombie") => s.pending \/ s.handler

(* A client that connected and sees the end of the stream without an answer  *)
(* is one for which fork failed.                                             *)
EndMeansNoChild == \A c \in Clients : s.client[c] = "end" => s.child[c] = "none"

(* A client waits for its answer or the end of the stream, or its child is   *)
(* dead and not collected: what must not last for ever.                      *)
Pending(c) == Running /\ (s.child[c] = "zombie" \/ s.client[c] = "connected")
===============================================================================
