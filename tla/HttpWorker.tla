------------------------------ MODULE HttpWorker ------------------------------
(***************************************************************************)
(* exam/log_server.cpp: http_workers that share one acceptor and one thread. *)
(* A worker accepts a connection, reads one request, writes one response and *)
(* accepts again; a timer closes its socket when the request takes too long. *)
(* An asynchronous operation first completes (its result waits in the        *)
(* io_context) and then its handler runs, so a handler can find that the     *)
(* socket was closed or the deadline moved in between.  Time is kept as the  *)
(* time left until the deadline.                                             *)
(***************************************************************************)
EXTENDS Naturals, FiniteSets

CONSTANTS Workers, Clients,
          Limit,    \* the 60 seconds
          Never,    \* time_point::max()
          None

ASSUME WorkerAssumption ==
  Limit \in Nat \ {0} /\ Never \notin 0..Limit /\ None \notin Clients

Methods == {"get", "post", "other"}

VARIABLES op,        \* worker: the outstanding operation: accept, read, write
          result,    \* worker: its queued result: none, ok, error
          sock,      \* worker: the client on socket_, None when closed
          left,      \* worker: time until request_deadline_ expires, or Never
          waits,     \* worker: async_wait calls on the timer not yet completed
          fired,     \* worker: completed ones whose handler has not run
          request,   \* worker: method of the request in parser_
          response,  \* worker: the response being written
          age,       \* history, worker: time since the connection was accepted
          conn,      \* client: idle, backlog, open, closed
          method,    \* client: method of its request
          reply      \* client: what it received

vars == <<op, result, sock, left, waits, fired, request, response, age, conn, method, reply>>
timer == <<left, waits, fired, age>>

(* start(): accept() and the first check_deadline().                         *)
Init ==
  /\ op = [w \in Workers |-> "accept"] /\ result = [w \in Workers |-> "none"]
  /\ request = [w \in Workers |-> "none"]
  /\ sock = [w \in Workers |-> None] /\ response = [w \in Workers |-> "none"]
  /\ left = [w \in Workers |-> Never] /\ waits = [w \in Workers |-> 1]
  /\ fired = [w \in Workers |-> 0] /\ age = [w \in Workers |-> 0]
  /\ conn = [c \in Clients |-> "idle"] /\ reply = [c \in Clients |-> "none"]
  /\ method \in [Clients -> Methods]

(* The client at the other end sees the socket close.                        *)
Closed(w) == [c \in Clients |-> IF sock[w] = c THEN "closed" ELSE conn[c]]

(* expires_after and expires_at cancel the outstanding waits, whose handlers *)
(* then run with an error that check_deadline does not look at.              *)
Expires(w, t) ==
  /\ left' = [left EXCEPT ![w] = t]
  /\ fired' = [fired EXCEPT ![w] = @ + waits[w]]
  /\ waits' = [waits EXCEPT ![w] = 0]

(* The connection is dropped but the socket is not closed by accept().       *)
accept_KeepsSocket(w) ==
  /\ UNCHANGED <<sock, conn>>
  /\ op' = [op EXCEPT ![w] = "accept"] /\ result' = [result EXCEPT ![w] = "none"]

(* accept(): close the socket and wait for the next connection.              *)
accept(w) ==
  /\ sock' = [sock EXCEPT ![w] = None] /\ conn' = Closed(w)
  /\ op' = [op EXCEPT ![w] = "accept"] /\ result' = [result EXCEPT ![w] = "none"]

-------------------------------------------------------------------------------
Connect(c) ==
  /\ conn[c] = "idle" /\ conn' = [conn EXCEPT ![c] = "backlog"]
  /\ UNCHANGED <<op, result, sock, timer, request, response, method, reply>>

(* The deadline of the previous request is left in force.                    *)
Accepted_KeepsDeadline(w, c) ==
  /\ op[w] = "accept" /\ conn[c] = "backlog"
  /\ sock' = [sock EXCEPT ![w] = c] /\ conn' = [conn EXCEPT ![c] = "open"]
  /\ op' = [op EXCEPT ![w] = "read"] /\ age' = [age EXCEPT ![w] = 0]
  /\ UNCHANGED <<result, left, waits, fired, request, response, method, reply>>

(* Every accepted connection starts a wait of its own.                       *)
Accepted_StartsWait(w, c) ==
  /\ op[w] = "accept" /\ conn[c] = "backlog"
  /\ sock' = [sock EXCEPT ![w] = c] /\ conn' = [conn EXCEPT ![c] = "open"]
  /\ op' = [op EXCEPT ![w] = "read"] /\ age' = [age EXCEPT ![w] = 0]
  /\ left' = [left EXCEPT ![w] = Limit] /\ waits' = [waits EXCEPT ![w] = @ + 1]
  /\ UNCHANGED <<result, fired, request, response, method, reply>>

(* The completion of async_accept opens socket_ and runs the handler at once:*)
(* a new deadline, then async_read.                                          *)
Accepted(w, c) ==
  /\ op[w] = "accept" /\ conn[c] = "backlog"
  /\ sock' = [sock EXCEPT ![w] = c] /\ conn' = [conn EXCEPT ![c] = "open"]
  /\ op' = [op EXCEPT ![w] = "read"] /\ age' = [age EXCEPT ![w] = 0]
  /\ Expires(w, Limit)
  /\ UNCHANGED <<result, request, response, method, reply>>

(* The connection was aborted in the backlog: the handler accepts again.     *)
AcceptFails(w, c) ==
  /\ op[w] = "accept" /\ conn[c] = "backlog"
  /\ conn' = [conn EXCEPT ![c] = "closed"]
  /\ UNCHANGED <<op, result, sock, timer, request, response, method, reply>>

(* The outstanding read of an open socket completes: the client sent a       *)
(* request, or it broke the connection or sent something else.               *)
ReadDone_OldParser(w, r) ==
  /\ op[w] = "read" /\ result[w] = "none" /\ sock[w] # None
  /\ result' = [result EXCEPT ![w] = r]
  /\ request' = IF r = "ok" /\ request[w] = "none"
                THEN [request EXCEPT ![w] = method[sock[w]]] ELSE request
  /\ UNCHANGED <<op, sock, timer, response, conn, method, reply>>

ReadDone(w, r) ==
  /\ op[w] = "read" /\ result[w] = "none" /\ sock[w] # None
  /\ result' = [result EXCEPT ![w] = r]
  /\ request' = IF r = "ok" THEN [request EXCEPT ![w] = method[sock[w]]] ELSE request
  /\ UNCHANGED <<op, sock, timer, response, conn, method, reply>>

(* process_request: what is answered to which method.                        *)
Answers(m) ==
  CASE m = "get"  -> {"ok", "not_found"}
    [] m = "post" -> {"ok"}
    [] OTHER      -> {"bad_request"}

(* The handler of async_read starts the write, which fails at once when the  *)
(* deadline has closed the socket since the read completed.                  *)
ReadHandler(w) ==
  /\ op[w] = "read" /\ result[w] # "none"
  /\ \/ /\ result[w] = "ok"
        /\ \E a \in Answers(request[w]) : response' = [response EXCEPT ![w] = a]
        /\ op' = [op EXCEPT ![w] = "write"]
        /\ result' = [result EXCEPT ![w] = IF sock[w] = None THEN "error" ELSE "none"]
        /\ UNCHANGED <<sock, conn>>
     \/ result[w] = "error" /\ accept(w) /\ UNCHANGED response
  /\ UNCHANGED <<timer, request, method, reply>>

WriteDone(w, r) ==
  /\ op[w] = "write" /\ result[w] = "none" /\ sock[w] # None
  /\ result' = [result EXCEPT ![w] = r]
  /\ reply' = IF r = "ok" THEN [reply EXCEPT ![sock[w]] = response[w]] ELSE reply
  /\ UNCHANGED <<op, sock, timer, request, response, conn, method>>

(* The handler of async_write, with or without an error.                     *)
WriteHandler(w) ==
  /\ op[w] = "write" /\ result[w] # "none"
  /\ accept(w) /\ response' = [response EXCEPT ![w] = "none"]
  /\ UNCHANGED <<timer, request, method, reply>>

TimerFires(w) ==
  /\ waits[w] > 0 /\ left[w] = 0
  /\ fired' = [fired EXCEPT ![w] = @ + waits[w]] /\ waits' = [waits EXCEPT ![w] = 0]
  /\ UNCHANGED <<op, result, sock, left, age, request, response, conn, method, reply>>

(* socket_.close() makes an outstanding read or write complete with an       *)
(* error; an outstanding accept does not use socket_ yet.                    *)
CloseSocket(w) ==
  /\ sock' = [sock EXCEPT ![w] = None] /\ conn' = Closed(w)
  /\ result' = [result EXCEPT ![w] =
                  IF op[w] # "accept" /\ @ = "none" THEN "error" ELSE @]

(* The handler closes the socket without looking at the deadline.            *)
check_deadline_Trusts(w) ==
  /\ fired[w] > 0
  /\ CloseSocket(w) /\ left' = [left EXCEPT ![w] = Never]
  /\ fired' = [fired EXCEPT ![w] = @ - 1] /\ waits' = [waits EXCEPT ![w] = @ + 1]
  /\ UNCHANGED <<op, age, request, response, method, reply>>

(* check_deadline: expires_at cancels what still waits; async_wait starts    *)
(* the next wait in either case.                                             *)
check_deadline(w) ==
  /\ fired[w] > 0
  /\ \/ /\ left[w] = 0 /\ CloseSocket(w) /\ left' = [left EXCEPT ![w] = Never]
        /\ fired' = [fired EXCEPT ![w] = @ - 1 + waits[w]]
        /\ waits' = [waits EXCEPT ![w] = 1]
     \/ /\ left[w] # 0 /\ UNCHANGED <<sock, conn, result, left>>
        /\ fired' = [fired EXCEPT ![w] = @ - 1] /\ waits' = [waits EXCEPT ![w] = @ + 1]
  /\ UNCHANGED <<op, age, request, response, method, reply>>

Tick ==
  /\ left' = [w \in Workers |-> IF left[w] \in {Never, 0} THEN left[w] ELSE left[w] - 1]
  /\ age' = [w \in Workers |-> IF age[w] < Limit THEN age[w] + 1 ELSE age[w]]
  /\ UNCHANGED <<op, result, sock, waits, fired, request, response, conn, method, reply>>

-------------------------------------------------------------------------------
Handler(w) == ReadHandler(w) \/ WriteHandler(w) \/ check_deadline(w) \/ TimerFires(w)

Next ==
  \/ Tick
  \/ \E c \in Clients : Connect(c)
  \/ \E w \in Workers : Handler(w)
  \/ \E w \in Workers, c \in Clients : Accepted(w, c) \/ AcceptFails(w, c)
  \/ \E w \in Workers, r \in {"ok", "error"} : ReadDone(w, r) \/ WriteDone(w, r)

(* The io_context runs every handler that is ready, and time goes on; what   *)
(* the clients do is up to them.                                             *)
Spec ==
  /\ Init /\ [][Next]_vars /\ WF_vars(Tick)
  /\ \A w \in Workers :
       /\ WF_vars(ReadHandler(w)) /\ WF_vars(WriteHandler(w))
       /\ WF_vars(check_deadline(w)) /\ WF_vars(TimerFires(w))
       /\ \A c \in Clients : WF_vars(Accepted(w, c))
-------------------------------------------------------------------------------
TypeOK ==
  /\ op \in [Workers -> {"accept", "read", "write"}]
  /\ result \in [Workers -> {"none", "ok", "error"}]
  /\ sock \in [Workers -> Clients \cup {None}]
  /\ left \in [Workers -> 0..Limit \cup {Never}] /\ age \in [Workers -> 0..Limit]
  /\ waits \in [Workers -> Nat] /\ fired \in [Workers -> Nat]
  /\ request \in [Workers -> Methods \cup {"none"}]
  /\ response \in [Workers -> {"none", "ok", "not_found", "bad_request"}]
  /\ conn \in [Clients -> {"idle", "backlog", "open", "closed"}]
  /\ method \in [Clients -> Methods]
  /\ reply \in [Clients -> {"none", "ok", "not_found", "bad_request"}]

(* The timer of a worker is watched by exactly one wait, however accepts,    *)
(* expiry and cancelled waits interleave: no worker loses its deadline, and  *)
(* none checks it twice.                                                     *)
OneWait == \A w \in Workers : waits[w] + fired[w] = 1

(* An open connection belongs to one worker that is reading or writing, and  *)
(* a worker waits for a connection only with its socket closed; a worker     *)
(* that lost its socket to the deadline has a result that leads it back.     *)
SocketAgrees ==
  /\ \A c \in Clients : conn[c] = "open" <=> \E w \in Workers : sock[w] = c
  /\ \A v, w \in Workers : sock[v] = sock[w] /\ sock[v] # None => v = w
  /\ \A w \in Workers :
       /\ op[w] = "accept" => sock[w] = None /\ result[w] = "none"
       /\ op[w] # "accept" /\ sock[w] = None => result[w] # "none"

(* Every reply answers the request of the client that gets it, also when a   *)
(* worker went through other requests before.                                *)
RepliesMatch ==
  \A c \in Clients :
    /\ reply[c] = "bad_request" => method[c] = "other"
    /\ reply[c] = "not_found" => method[c] = "get"
    /\ reply[c] = "ok" => method[c] # "other"

(* "The deadline may have moved, so check it has really passed": the timer   *)
(* never closes a connection before its own time is up.                      *)
NotClosedEarly ==
  [][\A w \in Workers :
       check_deadline(w) /\ sock[w] # None /\ sock'[w] = None => age[w] = Limit]_vars

(* "Request must be fully processed within 60 seconds": every client in the  *)
(* backlog gets its turn and its connection ends, even if the clients before *)
(* it, or the client itself, never say anything.                             *)
EveryoneAccepted == \A c \in Clients : conn[c] = "backlog" ~> conn[c] = "closed"
===============================================================================
