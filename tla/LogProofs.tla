------------------------------ MODULE LogProofs -------------------------------
(***************************************************************************)
(* The log server, for any number of workers and clients and any time limit: *)
(* one wait per timer, one worker per connection, replies that answer their  *)
(* own request, and no connection closed before its time.                    *)
(*                                                                           *)
(* The logger, for any number of clients and messages: the file is written   *)
(* in the order in which log() accepted the messages, and a destructor that  *)
(* gets the mutex before the worker has left its loop never returns.         *)
(***************************************************************************)
EXTENDS HttpWorker, Logger, SequenceTheorems, TLAPS

SafeSpec == Init /\ [][Next]_vars

(* While a worker has a socket, its request and response are those of the    *)
(* client at the other end.                                                  *)
OwnRequest ==
  \A w \in Workers : sock[w] # None =>
    /\ op[w] = "read" /\ result[w] = "ok" => request[w] = method[sock[w]]
    /\ op[w] = "write" => response[w] \in Answers(method[sock[w]])

(* The deadline of an open connection is that of this connection.            *)
OwnDeadline ==
  \A w \in Workers : sock[w] # None => left[w] \in 0..Limit /\ left[w] + age[w] = Limit

LEMMA AnswersTypes ==
  \A m \in Methods \cup {"none"} : Answers(m) \subseteq {"ok", "not_found", "bad_request"}
BY DEF Methods, Answers

LEMMA InitTypes == Init => TypeOK
BY WorkerAssumption DEF Init, TypeOK, Methods

LEMMA NextTypes == TypeOK /\ [Next]_vars => TypeOK'
<1>. SUFFICES ASSUME TypeOK, [Next]_vars PROVE TypeOK' OBVIOUS
<1>. USE WorkerAssumption DEF TypeOK, Methods
<1>1. CASE Tick
  <2>1. \A x \in 0..Limit \cup {Never} : x \notin {Never, 0} => x - 1 \in 0..Limit OBVIOUS
  <2>2. \A x \in 0..Limit : x < Limit => x + 1 \in 0..Limit OBVIOUS
  <2>. QED BY <1>1, <2>1, <2>2 DEF Tick
<1>2. CASE \E c \in Clients : Connect(c) BY <1>2 DEF Connect, timer
<1>3. ASSUME NEW w \in Workers, Handler(w) PROVE TypeOK'
  <2>1. CASE ReadHandler(w)
    BY <2>1, AnswersTypes DEF ReadHandler, accept, Closed, timer
  <2>2. CASE WriteHandler(w) BY <2>2 DEF WriteHandler, accept, Closed, timer
  <2>3. CASE TimerFires(w) BY <2>3 DEF TimerFires
  <2>4. CASE check_deadline(w)
    <3>1. fired[w] - 1 \in Nat /\ fired[w] - 1 + waits[w] \in Nat BY <2>4 DEF check_deadline
    <3>. QED BY <2>4, <3>1 DEF check_deadline, CloseSocket, Closed
  <2>. QED BY <1>3, <2>1, <2>2, <2>3, <2>4 DEF Handler
<1>4. ASSUME NEW w \in Workers, NEW c \in Clients, Accepted(w, c) \/ AcceptFails(w, c) PROVE TypeOK'
  BY <1>4 DEF Accepted, AcceptFails, Expires, timer
<1>5. ASSUME NEW w \in Workers, NEW r \in {"ok", "error"}, ReadDone(w, r) \/ WriteDone(w, r)
      PROVE  TypeOK'
  BY <1>5 DEF ReadDone, WriteDone, timer
<1>6. CASE UNCHANGED vars BY <1>6 DEF vars
<1>. QED BY <1>1, <1>2, <1>3, <1>4, <1>5, <1>6 DEF Next

LEMMA NextOneWait == TypeOK /\ OneWait /\ [Next]_vars => OneWait'
<1>. SUFFICES ASSUME TypeOK, OneWait, [Next]_vars PROVE OneWait' OBVIOUS
<1>0. /\ waits \in [Workers -> Nat] /\ fired \in [Workers -> Nat]
      /\ \A w \in Workers : waits[w] + fired[w] = 1
  BY DEF TypeOK, OneWait
<1>1. CASE UNCHANGED <<waits, fired>> BY <1>1 DEF OneWait
<1>2. ASSUME NEW w \in Workers, TimerFires(w) \/ check_deadline(w) PROVE OneWait'
  <2>1. CASE TimerFires(w) BY <1>0, <2>1 DEF TimerFires, OneWait
  <2>2. CASE check_deadline(w)
    <3>1. fired[w] = 1 /\ waits[w] = 0 BY <1>0, <2>2 DEF check_deadline
    <3>2. fired' = [fired EXCEPT ![w] = 0] /\ waits' = [waits EXCEPT ![w] = 1]
      BY <1>0, <2>2, <3>1 DEF check_deadline
    <3>. QED BY <1>0, <3>2 DEF OneWait
  <2>. QED BY <1>2, <2>1, <2>2
<1>3. ASSUME NEW w \in Workers, NEW c \in Clients, Accepted(w, c) PROVE OneWait'
  BY <1>0, <1>3 DEF Accepted, Expires, OneWait
<1>. QED
  BY <1>1, <1>2, <1>3 DEF Next, Handler, Tick, Connect, ReadHandler, WriteHandler, AcceptFails,
       ReadDone, WriteDone, timer, vars

(* A worker lets go of its client, which sees the connection close: in       *)
(* accept() with the operation replaced, and when the deadline closes the    *)
(* socket with a result for the outstanding operation.                       *)
LEMMA LetsGo ==
  ASSUME TypeOK, SocketAgrees, NEW w \in Workers,
         sock' = [sock EXCEPT ![w] = None], conn' = Closed(w),
         \/ op' = [op EXCEPT ![w] = "accept"] /\ result' = [result EXCEPT ![w] = "none"]
         \/ UNCHANGED op /\ result' = [result EXCEPT ![w] =
                              IF op[w] # "accept" /\ @ = "none" THEN "error" ELSE @]
  PROVE  SocketAgrees'
<1>1. ASSUME NEW c \in Clients PROVE (conn[c] = "open" <=> \E v \in Workers : sock[v] = c)'
  BY WorkerAssumption DEF TypeOK, SocketAgrees, Closed
<1>2. ASSUME NEW v \in Workers, NEW u \in Workers, sock'[v] = sock'[u], sock'[v] # None PROVE v = u
  BY <1>2 DEF TypeOK, SocketAgrees
<1>3. ASSUME NEW v \in Workers
      PROVE  (/\ op[v] = "accept" => sock[v] = None /\ result[v] = "none"
              /\ op[v] # "accept" /\ sock[v] = None => result[v] # "none")'
  BY DEF TypeOK, SocketAgrees
<1>. QED BY <1>1, <1>2, <1>3 DEF SocketAgrees

LEMMA NextSocketAgrees == TypeOK /\ SocketAgrees /\ [Next]_vars => SocketAgrees'
<1>. SUFFICES ASSUME TypeOK, SocketAgrees, [Next]_vars PROVE SocketAgrees' OBVIOUS
<1>1. CASE UNCHANGED <<op, result, sock, conn>> BY <1>1 DEF SocketAgrees
<1>2. ASSUME NEW c \in Clients, Connect(c) PROVE SocketAgrees'
  BY <1>2 DEF Connect, SocketAgrees, TypeOK
<1>3. ASSUME NEW w \in Workers, Handler(w) PROVE SocketAgrees'
  <2>1. CASE ReadHandler(w) /\ result[w] = "ok"
    BY <2>1 DEF ReadHandler, SocketAgrees, TypeOK
  <2>2. CASE ReadHandler(w) /\ result[w] # "ok" BY <2>2, LetsGo DEF ReadHandler, accept
  <2>3. CASE WriteHandler(w) BY <2>3, LetsGo DEF WriteHandler, accept
  <2>4. CASE TimerFires(w) BY <1>1, <2>4 DEF TimerFires
  <2>5. CASE check_deadline(w) BY <1>1, <2>5, LetsGo DEF check_deadline, CloseSocket
  <2>. QED BY <1>3, <2>1, <2>2, <2>3, <2>4, <2>5 DEF Handler
<1>4. ASSUME NEW w \in Workers, NEW c \in Clients, Accepted(w, c) PROVE SocketAgrees'
  BY <1>4, WorkerAssumption DEF Accepted, SocketAgrees, TypeOK
<1>5. ASSUME NEW w \in Workers, NEW c \in Clients, AcceptFails(w, c) PROVE SocketAgrees'
  BY <1>5 DEF AcceptFails, SocketAgrees, TypeOK
<1>6. ASSUME NEW w \in Workers, NEW r \in {"ok", "error"}, ReadDone(w, r) \/ WriteDone(w, r)
      PROVE  SocketAgrees'
  BY <1>6 DEF ReadDone, WriteDone, SocketAgrees, TypeOK
<1>7. CASE Tick \/ UNCHANGED vars BY <1>1, <1>7 DEF Tick, vars
<1>. QED BY <1>2, <1>3, <1>4, <1>5, <1>6, <1>7 DEF Next

LEMMA NextOwnRequest ==
  TypeOK /\ SocketAgrees /\ OwnRequest /\ [Next]_vars => OwnRequest' /\ UNCHANGED method
<1>. SUFFICES ASSUME TypeOK, SocketAgrees, OwnRequest, [Next]_vars
              PROVE  OwnRequest' /\ UNCHANGED method
  OBVIOUS
<1>0. UNCHANGED method
  BY DEF Next, Handler, Tick, Connect, ReadHandler, WriteHandler, TimerFires, check_deadline,
       Accepted, AcceptFails, ReadDone, WriteDone, vars
<1>1. CASE UNCHANGED <<op, result, sock, request, response>> BY <1>0, <1>1 DEF OwnRequest
<1>2. ASSUME NEW w \in Workers, Handler(w) PROVE OwnRequest'
  <2>1. CASE ReadHandler(w) BY <1>0, <2>1 DEF ReadHandler, accept, OwnRequest, TypeOK
  <2>2. CASE WriteHandler(w) BY <1>0, <2>2 DEF WriteHandler, accept, OwnRequest, TypeOK
  <2>3. CASE TimerFires(w) BY <1>1, <2>3 DEF TimerFires
  <2>4. CASE check_deadline(w)
    BY <1>0, <1>1, <2>4 DEF check_deadline, CloseSocket, OwnRequest, TypeOK
  <2>. QED BY <1>2, <2>1, <2>2, <2>3, <2>4 DEF Handler
<1>3. ASSUME NEW w \in Workers, NEW c \in Clients, Accepted(w, c) PROVE OwnRequest'
  BY <1>0, <1>3 DEF Accepted, SocketAgrees, OwnRequest, TypeOK
<1>4. ASSUME NEW w \in Workers, NEW r \in {"ok", "error"}, ReadDone(w, r) \/ WriteDone(w, r)
      PROVE  OwnRequest'
  BY <1>0, <1>4 DEF ReadDone, WriteDone, OwnRequest, TypeOK
<1>5. CASE Tick \/ UNCHANGED vars BY <1>1, <1>5 DEF Tick, vars
<1>6. ASSUME NEW c \in Clients, Connect(c) PROVE OwnRequest' BY <1>1, <1>6 DEF Connect
<1>7. ASSUME NEW w \in Workers, NEW c \in Clients, AcceptFails(w, c) PROVE OwnRequest'
  BY <1>1, <1>7 DEF AcceptFails
<1>. QED BY <1>0, <1>2, <1>3, <1>4, <1>5, <1>6, <1>7 DEF Next

LEMMA NextRepliesMatch ==
  TypeOK /\ OwnRequest /\ RepliesMatch /\ UNCHANGED method /\ [Next]_vars => RepliesMatch'
<1>. SUFFICES ASSUME TypeOK, OwnRequest, RepliesMatch, UNCHANGED method, [Next]_vars
              PROVE  RepliesMatch'
  OBVIOUS
<1>1. CASE UNCHANGED reply BY <1>1 DEF RepliesMatch
<1>2. ASSUME NEW w \in Workers, NEW r \in {"ok", "error"}, WriteDone(w, r), r = "ok"
      PROVE  RepliesMatch'
  <2>1. sock[w] \in Clients /\ response[w] \in Answers(method[sock[w]])
    BY <1>2 DEF WriteDone, OwnRequest, TypeOK
  <2>2. reply' = [reply EXCEPT ![sock[w]] = response[w]] BY <1>2 DEF WriteDone
  <2>. QED BY <2>1, <2>2 DEF RepliesMatch, Answers, Methods, TypeOK
<1>. QED
  BY <1>1, <1>2 DEF Next, Handler, Tick, Connect, ReadHandler, WriteHandler, TimerFires,
       check_deadline, Accepted, AcceptFails, ReadDone, WriteDone, vars

LEMMA NextOwnDeadline == TypeOK /\ OwnDeadline /\ [Next]_vars => OwnDeadline'
<1>. SUFFICES ASSUME TypeOK, OwnDeadline, [Next]_vars PROVE OwnDeadline' OBVIOUS
<1>1. CASE /\ UNCHANGED <<left, age>>
           /\ \A w \in Workers : sock'[w] = sock[w] \/ sock'[w] = None
  BY <1>1 DEF OwnDeadline
<1>2. CASE Tick
  <2>1. ASSUME NEW w \in Workers, sock[w] # None
        PROVE  left'[w] \in 0..Limit /\ left'[w] + age'[w] = Limit
    <3>1. /\ left[w] \in 0..Limit /\ age[w] \in 0..Limit /\ left[w] + age[w] = Limit
          /\ Never \notin 0..Limit /\ Limit \in Nat
      BY <2>1, WorkerAssumption DEF OwnDeadline, TypeOK
    <3>2. CASE left[w] = 0 BY <1>2, <3>1, <3>2 DEF Tick
    <3>3. CASE left[w] # 0
      <4>1. left'[w] = left[w] - 1 /\ age'[w] = age[w] + 1 BY <1>2, <3>1, <3>3 DEF Tick
      <4>. QED BY <3>1, <3>3, <4>1
    <3>. QED BY <3>2, <3>3
  <2>. QED BY <1>2, <2>1 DEF OwnDeadline, Tick
<1>3. ASSUME NEW w \in Workers, check_deadline(w) PROVE OwnDeadline'
  BY <1>1, <1>3 DEF check_deadline, CloseSocket, OwnDeadline, TypeOK
<1>4. ASSUME NEW w \in Workers, NEW c \in Clients, Accepted(w, c) PROVE OwnDeadline'
  BY <1>4, WorkerAssumption DEF Accepted, Expires, OwnDeadline, TypeOK
<1>5. ASSUME NEW w \in Workers, ReadHandler(w) \/ WriteHandler(w) PROVE OwnDeadline'
  BY <1>1, <1>5 DEF ReadHandler, WriteHandler, accept, timer, TypeOK
<1>. QED
  BY <1>1, <1>2, <1>3, <1>4, <1>5 DEF Next, Handler, Connect, TimerFires, AcceptFails, ReadDone,
       WriteDone, timer, vars

IndInv == TypeOK /\ OneWait /\ SocketAgrees /\ OwnRequest /\ RepliesMatch /\ OwnDeadline

LEMMA InitInd == Init => IndInv
BY InitTypes, WorkerAssumption DEF Init, IndInv, OneWait, SocketAgrees, OwnRequest, RepliesMatch,
     OwnDeadline

LEMMA NextInd == IndInv /\ [Next]_vars => IndInv'
BY NextTypes, NextOneWait, NextSocketAgrees, NextOwnRequest, NextRepliesMatch, NextOwnDeadline
   DEF IndInv

(* The timer of a worker is watched by exactly one wait, for any number of   *)
(* workers and clients.                                                      *)
THEOREM AlwaysOneWait == SafeSpec => []OneWait
BY InitInd, NextInd, PTL DEF SafeSpec, IndInv

(* Workers that share an acceptor never share a connection, and none is left *)
(* without a next step when the deadline takes its socket.                   *)
THEOREM SocketsAgree == SafeSpec => []SocketAgrees
BY InitInd, NextInd, PTL DEF SafeSpec, IndInv

(* Every reply answers the request of the client that gets it.               *)
THEOREM RepliesToRequests == SafeSpec => []RepliesMatch
BY InitInd, NextInd, PTL DEF SafeSpec, IndInv

(* check_deadline never closes a connection before its own time is up, also  *)
(* when it runs for a wait that was cancelled.                               *)
THEOREM DeadlineHolds == SafeSpec => NotClosedEarly
<1>1. ASSUME IndInv, [Next]_vars, NEW w \in Workers,
             check_deadline(w), sock[w] # None, sock'[w] = None
      PROVE  age[w] = Limit
  <2>1. left[w] = 0 BY <1>1 DEF check_deadline
  <2>2. left[w] + age[w] = Limit /\ age[w] \in 0..Limit /\ Limit \in Nat
    BY <1>1, WorkerAssumption DEF IndInv, OwnDeadline, TypeOK
  <2>. QED BY <2>1, <2>2
<1>2. IndInv /\ [Next]_vars =>
        [\A w \in Workers :
           check_deadline(w) /\ sock[w] # None /\ sock'[w] = None => age[w] = Limit]_vars
  BY <1>1
<1>. QED BY <1>2, InitInd, NextInd, PTL DEF SafeSpec, NotClosedEarly
-------------------------------------------------------------------------------
LogInv == LoggerTypeOK /\ WrittenInOrder

(* The numbers of the messages accepted so far.                              *)
Numbers(n) == [i \in 1..n |-> i]

LEMMA NumbersNext ==
  ASSUME NEW n \in Nat PROVE Append(Numbers(n), n + 1) = Numbers(n + 1)
<1>1. /\ Numbers(n) \in Seq(Nat) /\ Len(Numbers(n)) = n
      /\ Numbers(n + 1) \in Seq(Nat) /\ Len(Numbers(n + 1)) = n + 1
  BY DEF Numbers
<1>2. /\ Append(Numbers(n), n + 1) \in Seq(Nat) /\ Len(Append(Numbers(n), n + 1)) = n + 1
      /\ \A i \in 1..n : Append(Numbers(n), n + 1)[i] = Numbers(n)[i]
      /\ Append(Numbers(n), n + 1)[n + 1] = n + 1
  BY <1>1, AppendProperties
<1>3. ASSUME NEW i \in 1..(n + 1) PROVE Append(Numbers(n), n + 1)[i] = Numbers(n + 1)[i]
  <2>1. i \in 1..n \/ i = n + 1 OBVIOUS
  <2>2. Numbers(n + 1)[i] = i BY DEF Numbers
  <2>3. CASE i \in 1..n BY <1>2, <2>2, <2>3 DEF Numbers
  <2>4. CASE i = n + 1 BY <1>2, <2>2, <2>4
  <2>. QED BY <2>1, <2>3, <2>4, Zenon
<1>. QED BY <1>1, <1>2, <1>3, SeqEqual

LEMMA AppendToLast ==
  ASSUME NEW f \in Seq(Nat), NEW m \in Seq(Nat), NEW l \in Seq(Nat), NEW x \in Nat
  PROVE  f \o m \o Append(l, x) = Append(f \o m \o l, x)
<1>1. PICK p \in Seq(Nat) : p = f \o m BY ConcatProperties, Zenon
<1>2. PICK a \in Seq(Nat) : a = Append(l, x) BY AppendProperties, Zenon
<1>3. PICK c \in Seq(Nat) : c = p \o l BY ConcatProperties, Zenon
<1>0. Len(p) \in Nat /\ Len(l) \in Nat BY LenProperties
<1>4. /\ Len(a) = Len(l) + 1 /\ a[Len(l) + 1] = x
      /\ \A i \in 1..Len(l) : a[i] = l[i]
  BY <1>2, AppendProperties
<1>5. /\ Len(c) = Len(p) + Len(l)
      /\ \A i \in 1..(Len(p) + Len(l)) : c[i] = IF i <= Len(p) THEN p[i] ELSE l[i - Len(p)]
  BY <1>3, ConcatProperties
<1>6. /\ p \o a \in Seq(Nat) /\ Len(p \o a) = Len(p) + Len(a)
      /\ \A i \in 1..(Len(p) + Len(a)) : (p \o a)[i] = IF i <= Len(p) THEN p[i] ELSE a[i - Len(p)]
  BY ConcatProperties
<1>7. /\ Append(c, x) \in Seq(Nat) /\ Len(Append(c, x)) = Len(c) + 1
      /\ \A i \in 1..Len(c) : Append(c, x)[i] = c[i]
      /\ Append(c, x)[Len(c) + 1] = x
  BY AppendProperties
<1>8. ASSUME NEW i \in 1..(Len(p) + Len(l) + 1) PROVE (p \o a)[i] = Append(c, x)[i]
  <2>0. i <= Len(p) \/ (i > Len(p) /\ i <= Len(p) + Len(l)) \/ i = Len(p) + Len(l) + 1
    <3>1. \A j, k \in Nat : \A n \in 1..(j + k + 1) :
            n <= j \/ (n > j /\ n <= j + k) \/ n = j + k + 1
      OBVIOUS
    <3>. QED BY <1>0, <3>1, Zenon
  <2>1. CASE i <= Len(p)
    <3>1. i \in 1..(Len(p) + Len(l)) BY <1>0, <2>1
    <3>2. (p \o a)[i] = p[i] BY <1>4, <1>6, <2>1
    <3>3. Append(c, x)[i] = p[i] BY <1>5, <1>7, <2>1, <3>1
    <3>. QED BY <3>2, <3>3
  <2>2. CASE i > Len(p) /\ i <= Len(p) + Len(l)
    <3>1. i - Len(p) \in 1..Len(l) BY <2>2
    <3>2. (p \o a)[i] = a[i - Len(p)] BY <1>4, <1>6, <2>2
    <3>3. Append(c, x)[i] = l[i - Len(p)] BY <1>5, <1>7, <2>2
    <3>. QED BY <1>4, <3>1, <3>2, <3>3
  <2>3. CASE i = Len(p) + Len(l) + 1
    <3>1. (p \o a)[i] = a[Len(l) + 1] BY <1>4, <1>6, <2>3
    <3>2. Append(c, x)[i] = x BY <1>5, <1>7, <2>3
    <3>. QED BY <1>4, <3>1, <3>2
  <2>. QED BY <2>0, <2>1, <2>2, <2>3, Zenon
<1>9. p \o a = Append(c, x)
  <2>1. PICK y \in Seq(Nat) : y = p \o a BY <1>6, Zenon
  <2>2. PICK z \in Seq(Nat) : z = Append(c, x) BY <1>7, Zenon
  <2>3. Len(y) = Len(p) + Len(l) + 1 /\ Len(z) = Len(p) + Len(l) + 1
    BY <1>0, <1>4, <1>5, <1>6, <1>7, <2>1, <2>2
  <2>4. \A i \in 1..Len(y) : y[i] = z[i] BY <1>8, <2>1, <2>2, <2>3, Zenon
  <2>. QED BY <2>1, <2>2, <2>3, <2>4, SeqEqual, Zenon
<1>. QED BY <1>1, <1>2, <1>3, <1>9, Zenon

LEMMA MoveHead ==
  ASSUME NEW f \in Seq(Nat), NEW m \in Seq(Nat), NEW l \in Seq(Nat), m # <<>>
  PROVE  Append(f, Head(m)) \o Tail(m) \o l = f \o m \o l
<1>1. /\ Head(m) \in Nat /\ Head(m) = m[1] /\ Tail(m) \in Seq(Nat) /\ Len(Tail(m)) = Len(m) - 1
      /\ \A i \in 1..Len(Tail(m)) : Tail(m)[i] = m[i + 1]
  BY HeadTailProperties
<1>2. /\ Append(f, Head(m)) \in Seq(Nat) /\ Len(Append(f, Head(m))) = Len(f) + 1
      /\ \A i \in 1..Len(f) : Append(f, Head(m))[i] = f[i]
      /\ Append(f, Head(m))[Len(f) + 1] = Head(m)
  BY <1>1, AppendProperties
<1>3. /\ Append(f, Head(m)) \o Tail(m) \in Seq(Nat)
      /\ Len(Append(f, Head(m)) \o Tail(m)) = Len(f) + Len(m)
      /\ \A i \in 1..(Len(f) + Len(m)) : (Append(f, Head(m)) \o Tail(m))[i] =
           IF i <= Len(f) + 1 THEN Append(f, Head(m))[i] ELSE Tail(m)[i - (Len(f) + 1)]
  BY <1>1, <1>2, ConcatProperties
<1>4. /\ f \o m \in Seq(Nat) /\ Len(f \o m) = Len(f) + Len(m)
      /\ \A i \in 1..(Len(f) + Len(m)) : (f \o m)[i] = IF i <= Len(f) THEN f[i] ELSE m[i - Len(f)]
  BY ConcatProperties
<1>5. ASSUME NEW i \in 1..(Len(f) + Len(m))
      PROVE  (Append(f, Head(m)) \o Tail(m))[i] = (f \o m)[i]
  <2>1. CASE i <= Len(f) BY <1>2, <1>3, <1>4, <2>1
  <2>2. CASE i = Len(f) + 1 BY <1>1, <1>2, <1>3, <1>4, <2>2
  <2>3. CASE i > Len(f) + 1
    <3>. DEFINE k == i - (Len(f) + 1)
    <3>1. k \in 1..Len(Tail(m)) /\ k + 1 = i - Len(f) BY <1>1, <2>3
    <3>2. Tail(m)[k] = m[i - Len(f)] BY <1>1, <3>1
    <3>. QED BY <1>3, <1>4, <2>3, <3>2
  <2>. QED BY <2>1, <2>2, <2>3
<1>6. Append(f, Head(m)) \o Tail(m) = f \o m BY <1>3, <1>4, <1>5, SeqEqual
<1>. QED BY <1>6, Zenon

LEMMA LogInit == LoggerInit => LogInv
<1>. SUFFICES ASSUME LoggerInit PROVE LogInv OBVIOUS
<1>1. LoggerTypeOK BY EmptySeq, LoggerAssumption DEF LoggerInit, LoggerTypeOK
<1>2. WrittenInOrder
  <2>1. <<>> \o <<>> \o <<>> = <<>> OBVIOUS
  <2>2. [i \in 1..0 |-> i] = <<>> OBVIOUS
  <2>. QED BY <2>1, <2>2 DEF LoggerInit, WrittenInOrder
<1>. QED BY <1>1, <1>2 DEF LogInv

(* What a step does to the messages.                                         *)
Logs == /\ queue' = Append(queue, logged + 1) /\ logged' = logged + 1
        /\ UNCHANGED <<local, written>>
Drains == /\ written' = written \o queue /\ queue' = <<>>
          /\ local = <<>> /\ UNCHANGED <<local, logged>>
Swaps == /\ local = <<>> /\ local' = queue /\ queue' = <<>> /\ UNCHANGED <<logged, written>>
Writes == /\ local # <<>> /\ written' = Append(written, Head(local)) /\ local' = Tail(local)
          /\ UNCHANGED <<queue, logged>>

LEMMA DataSteps ==
  ASSUME LoggerTypeOK, [LoggerNext]_loggerVars
  PROVE  Logs \/ Drains \/ Swaps \/ Writes \/ UNCHANGED <<queue, local, logged, written>>
<1>1. CASE \E c \in Writers : Log(c) BY <1>1 DEF Log, Logs
<1>2. CASE Worker
  BY <1>2 DEF LoggerTypeOK, Worker, WorkerOpen, WorkerWait, WorkerExit,
              WorkerSwap, WorkerWrite, WorkerWritten, Drains, Swaps, Writes
<1>3. CASE SpuriousWakeup \/ Owner
  BY <1>3 DEF SpuriousWakeup, Owner, OwnerStop, OwnerJoinsClients,
              OwnerDestroys, OwnerJoinsWorker
<1>4. CASE UNCHANGED loggerVars BY <1>4 DEF loggerVars
<1>. QED BY <1>1, <1>2, <1>3, <1>4 DEF LoggerNext

LEMMA ControlTypes ==
  ASSUME LoggerTypeOK, [LoggerNext]_loggerVars
  PROVE  /\ stopped' \in BOOLEAN /\ unlogged' \in [Writers -> Nat]
         /\ wpc' \in {"open", "lock", "waiting", "awake", "writing", "exited"}
         /\ opc' \in {"run", "stopped", "joined", "join", "gone"}
         /\ local' # <<>> => wpc' = "writing"
<1>1. ASSUME NEW c \in Writers, Log(c) PROVE unlogged' \in [Writers -> Nat]
  <2>1. unlogged[c] - 1 \in Nat BY <1>1 DEF Log, LoggerTypeOK
  <2>. QED BY <1>1, <2>1 DEF Log, LoggerTypeOK
<1>2. CASE \E c \in Writers : Log(c) BY <1>1, <1>2 DEF Log, Notified, LoggerTypeOK
<1>3. CASE Worker
  BY <1>3 DEF LoggerTypeOK, Worker, WorkerOpen, WorkerWait, WorkerExit,
              WorkerSwap, WorkerWrite, WorkerWritten
<1>4. CASE SpuriousWakeup \/ Owner
  BY <1>4 DEF LoggerTypeOK, SpuriousWakeup, Owner, OwnerStop, OwnerJoinsClients,
              OwnerDestroys, OwnerJoinsWorker, Notified
<1>5. CASE UNCHANGED loggerVars BY <1>5 DEF LoggerTypeOK, loggerVars
<1>. QED BY <1>2, <1>3, <1>4, <1>5 DEF LoggerNext

LEMMA LogNext == LogInv /\ [LoggerNext]_loggerVars => LogInv'
<1>. SUFFICES ASSUME LogInv, [LoggerNext]_loggerVars PROVE LogInv' OBVIOUS
<1>0. /\ queue \in Seq(Nat) /\ local \in Seq(Nat) /\ written \in Seq(Nat) /\ logged \in Nat
      /\ written \o local \o queue = Numbers(logged)
  BY DEF LogInv, LoggerTypeOK, WrittenInOrder, Numbers
<1>1. /\ queue' \in Seq(Nat) /\ local' \in Seq(Nat) /\ written' \in Seq(Nat) /\ logged' \in Nat
      /\ written' \o local' \o queue' = Numbers(logged')
  <2>1. CASE Logs
    <3>1. written \o local \o Append(queue, logged + 1)
            = Append(written \o local \o queue, logged + 1)
      BY <1>0, AppendToLast, logged + 1 \in Nat, Zenon
    <3>2. Append(Numbers(logged), logged + 1) = Numbers(logged + 1) BY <1>0, NumbersNext, Zenon
    <3>3. written' \o local' \o queue' = Numbers(logged') BY <1>0, <2>1, <3>1, <3>2, Zenon DEF Logs
    <3>4. Append(queue, logged + 1) \in Seq(Nat) /\ logged + 1 \in Nat BY <1>0, AppendProperties
    <3>. QED BY <1>0, <2>1, <3>3, <3>4, Zenon DEF Logs
  <2>2. CASE Drains
    <3>1. (written \o queue) \o <<>> \o <<>> = written \o <<>> \o queue BY <1>0
    <3>. QED BY <1>0, <2>2, <3>1 DEF Drains
  <2>3. CASE Swaps
    <3>1. written \o queue \o <<>> = written \o <<>> \o queue BY <1>0
    <3>. QED BY <1>0, <2>3, <3>1 DEF Swaps
  <2>4. CASE Writes
    <3>1. Append(written, Head(local)) \o Tail(local) \o queue = written \o local \o queue
      BY <1>0, <2>4, MoveHead DEF Writes
    <3>2. Append(written, Head(local)) \in Seq(Nat) /\ Tail(local) \in Seq(Nat)
      BY <1>0, <2>4 DEF Writes
    <3>. QED BY <1>0, <2>4, <3>1, <3>2 DEF Writes
  <2>5. CASE UNCHANGED <<queue, local, logged, written>> BY <1>0, <2>5
  <2>. QED BY <2>1, <2>2, <2>3, <2>4, <2>5, DataSteps DEF LogInv
<1>2. LoggerTypeOK' BY <1>1, ControlTypes DEF LogInv, LoggerTypeOK
<1>. QED BY <1>1, <1>2 DEF LogInv, WrittenInOrder, Numbers

(* The file, what the worker holds and m_queue are together the messages in  *)
(* the order in which log() accepted them, for any writers and messages.     *)
THEOREM FileInOrder == LoggerSafeSpec => []WrittenInOrder
BY LogInit, LogNext, PTL DEF LoggerSafeSpec, LogInv

(* The destructor holds the mutex and the worker is still in its loop.       *)
Stuck == opc = "join" /\ wpc \notin {"open", "exited"}

LEMMA StuckStays == Stuck /\ [LoggerNext]_loggerVars => Stuck'
<1>. SUFFICES ASSUME Stuck, [LoggerNext]_loggerVars PROVE Stuck' OBVIOUS
<1>1. CASE Worker
  BY <1>1 DEF Stuck, MutexFree, Worker, WorkerOpen, WorkerWait, WorkerExit,
              WorkerSwap, WorkerWrite, WorkerWritten
<1>2. CASE SpuriousWakeup \/ Owner
  BY <1>2 DEF Stuck, MutexFree, SpuriousWakeup, Owner, OwnerStop,
              OwnerJoinsClients, OwnerDestroys, OwnerJoinsWorker
<1>3. CASE \E c \in Writers : Log(c) BY <1>3 DEF Stuck, MutexFree, Log
<1>4. CASE UNCHANGED loggerVars BY <1>4 DEF Stuck, loggerVars
<1>. QED BY <1>1, <1>2, <1>3, <1>4 DEF LoggerNext

(* ~Logger that gets m_mutex while the worker still has to take it waits for *)
(* ever in join: no schedule and no spurious wakeup gets it out.             *)
THEOREM JoinHangs == LoggerSafeSpec => JoinUnderLockIsFinal
<1>1. Stuck => opc = "join" BY DEF Stuck
<1>2. LoggerSafeSpec => [](Stuck => [](opc = "join"))
  BY <1>1, StuckStays, PTL DEF LoggerSafeSpec
<1>. QED BY <1>2 DEF Stuck, JoinUnderLockIsFinal
===============================================================================
