-------------------------------- MODULE EvEcho --------------------------------
(***************************************************************************)
(* example/exam/echo_server_ev.cpp and echo_client_ev.cpp.  libev calls      *)
(* accept_cb when a connection waits and read_cb when a client's socket can  *)
(* be read, again and again while that is so, in any order.  read_cb sends   *)
(* back what one recv gave.  When the client is gone it frees the watcher,   *)
(* but nobody ever closes the descriptor.  A message is Chunk bytes.         *)
(***************************************************************************)
EXTENDS ProgramBounds, Sequences, FiniteSets

VARIABLE s    \* server: up, watchers, total_clients, opened (descriptors); backlog;
              \* per client pc, asks (messages left), in and out (bytes on the way
              \* to the server and back), reset (none, set: a reset came, or seen);
              \* history: got (bytes the client received), rude (one left at a
              \* time when bytes were on the way)

Starts ==
  {[program |-> "evecho", up |-> TRUE, watchers |-> {}, total_clients |-> 0, opened |-> 0,
    backlog |-> << >>, pc |-> [c \in Clients |-> "start"], asks |-> [c \in Clients |-> MaxAsks],
    in |-> [c \in Clients |-> 0], out |-> [c \in Clients |-> 0], got |-> [c \in Clients |-> 0],
    reset |-> [c \in Clients |-> "none"], rude |-> FALSE]}

Running == s.program = "evecho"
-------------------------------------------------------------------------------
Accept ==
  /\ s.backlog # << >> /\ s.opened < MaxFds
  /\ s' = [s EXCEPT !.backlog = Tail(@), !.watchers = @ \cup {Head(s.backlog)},
                    !.total_clients = @ + 1, !.opened = @ + 1]

(* accept fails for want of a descriptor; the connection stays where it is.  *)
AcceptFails == s.backlog # << >> /\ s.opened = MaxFds /\ UNCHANGED s

accept_cb == s.up /\ (Accept \/ AcceptFails)

(* What is sent to a client that is gone comes back as a reset, sooner or    *)
(* later.  After the reset send fails, which nobody looks at, or it raises   *)
(* SIGPIPE and the process ends.                                             *)
Sent(c, n) ==
  CASE s.reset[c] # "none" -> {[s EXCEPT !.up = FALSE],
                               [s EXCEPT !.reset[c] = "seen", !.in[c] = @ - n]}
    [] s.pc[c] = "gone"    -> {[s EXCEPT !.reset[c] = r, !.in[c] = @ - n] : r \in {"none", "set"}}
    [] OTHER               -> {[s EXCEPT !.out[c] = @ + n, !.in[c] = @ - n]}

Echo(c) == s.in[c] > 0 /\ \E n \in 1..s.in[c] : s' \in Sent(c, n)

(* recv reports a reset once, if it does; then it gives 0.                   *)
ReadFails(c) == s.in[c] = 0 /\ s.reset[c] = "set" /\ s' = [s EXCEPT !.reset[c] = "seen"]

Closing(c) ==
  /\ s.in[c] = 0 /\ s.pc[c] = "gone"
  /\ s' = [s EXCEPT !.watchers = @ \ {c}, !.total_clients = @ - 1]

read_cb(c) == s.up /\ c \in s.watchers /\ (Echo(c) \/ ReadFails(c) \/ Closing(c))
-------------------------------------------------------------------------------
Connect(c) ==
  /\ s.up /\ s.pc[c] = "start" /\ Len(s.backlog) < BACKLOG
  /\ s' = [s EXCEPT !.pc[c] = "input", !.backlog = Append(@, c)]

Ask(c) ==
  /\ s.up /\ s.pc[c] = "input" /\ s.asks[c] > 0
  /\ s' = [s EXCEPT !.pc[c] = "wait", !.asks[c] = @ - 1, !.in[c] = @ + Chunk]

(* One recv, whatever it gives; the rest is left for the next one.           *)
Recv(c) ==
  /\ s.pc[c] = "wait" /\ s.out[c] > 0
  /\ \E n \in 1..s.out[c] : s' = [s EXCEPT !.pc[c] = "input", !.out[c] = @ - n, !.got[c] = @ + n]

(* The client ends or is killed.  With an echo unread it resets the          *)
(* connection; it also ends when the server is gone.                         *)
Leave(c) ==
  /\ s.pc[c] \in {"input", "wait"} \/ (s.pc[c] = "start" /\ ~s.up)
  /\ s' = [s EXCEPT !.pc[c] = "gone", !.out[c] = 0, !.rude = @ \/ s.in[c] + s.out[c] > 0,
                    !.reset[c] = IF s.out[c] > 0 THEN "set" ELSE @]

Client(c) == Connect(c) \/ Ask(c) \/ Recv(c) \/ Leave(c)

Idle ==
  /\ \A c \in Clients : s.pc[c] = "gone"
  /\ ~s.up \/ (s.backlog = << >> /\ s.watchers = {})
  /\ UNCHANGED s

Next == Running /\ (accept_cb \/ Idle \/ \E c \in Clients : read_cb(c) \/ Client(c))

Fairness ==
  /\ WF_s(Running /\ accept_cb)
  /\ \A c \in Clients : WF_s(Running /\ read_cb(c)) /\ WF_s(Running /\ Recv(c))
-------------------------------------------------------------------------------
(* total_clients is the number of watchers, and these are the clients that   *)
(* were accepted and whose end was not yet read, also after an error of      *)
(* recv; there is a descriptor for each, and for every one that has ended.   *)
ClientsCounted ==
  /\ s.total_clients = Cardinality(s.watchers) /\ s.total_clients <= s.opened
  /\ s.up => \A c \in Clients : s.pc[c] \in {"input", "wait"} =>
               c \in s.watchers \/ \E i \in DOMAIN s.backlog : s.backlog[i] = c

(* A client gets back every byte it sent, or it is still on the way; only a  *)
(* client that left at such a time can end the server.                       *)
EchoExact ==
  /\ \A c \in Clients : s.pc[c] # "gone" =>
       s.got[c] + s.in[c] + s.out[c] = Chunk * (MaxAsks - s.asks[c])
  /\ ~s.up => s.rude

(* A client waits for its echo, though the server runs and has accepted it,  *)
(* or has a descriptor left to: what must not last for ever.  A client that  *)
(* comes when all are used up, since none is ever closed, does wait for ever. *)
Pending(c) ==
  Running /\ s.pc[c] = "wait" /\ s.up /\ (c \in s.watchers \/ s.opened < MaxFds)
===============================================================================
