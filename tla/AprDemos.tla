------------------------------- MODULE AprDemos -------------------------------
(***************************************************************************)
(* The APR demos with two threads: the shared counters and the socket echo.  *)
(***************************************************************************)
EXTENDS Integers, Sequences, FiniteSets

CONSTANTS t1, t2, Rounds, Size    \* see ProgramBounds

VARIABLE s    \* "counter": demo, counter, mutex (who holds it), mpc and verdict of main; per
              \* thread wpc, reg (the loaded value) and left (rounds);
              \* history: touched (a thread used what was out of scope)
              \* "echo": main: mpc, buf; client: cpc, rv (status at exit), echo; link
              \* (none, pending in the backlog, open); up, down: bytes on the
              \* way to main, to the client; closed: by the client
-------------------------------------------------------------------------------
(***************************************************************************)
(* apr/04_thread.cpp and 07_atomic_shm.cpp: main creates two threads that    *)
(* increment a shared counter and joins them.  The first demo increments     *)
(* with a load and a store under an APR mutex, the second with one atomic    *)
(* instruction on shared memory.  When a call of main fails, check_apr       *)
(* throws: the counter, and the pool with the mutex or the memory, go out of *)
(* scope while threads may still run, until main returns.                    *)
(***************************************************************************)
Threads == {t1, t2}

CounterStarts ==
  {[program |-> "counter", demo |-> d, counter |-> 0, mutex |-> {}, mpc |-> "create1",
    verdict |-> "none", touched |-> FALSE, wpc |-> [t \in Threads |-> "none"],
    reg |-> [t \in Threads |-> 0], left |-> [t \in Threads |-> Rounds]] :
   d \in {"mutex", "atomic"}}

Counting == s.program = "counter"

Create(t, from, to) == s.mpc = from /\ s' = [s EXCEPT !.mpc = to, !.wpc[t] = "loop"]

Joinable(t) == s.wpc[t] = "exited"

Join(t, from, to) == s.mpc = from /\ Joinable(t) /\ s' = [s EXCEPT !.mpc = to]

Report ==
  /\ s.mpc = "report"
  /\ s' = [s EXCEPT !.mpc = "unwound",
                    !.verdict = IF s.counter = 2 * Rounds THEN "ok" ELSE "mismatch"]

(* check_apr throws at one of the calls; report holds apr_shm_destroy.       *)
Throw ==
  /\ s.mpc \in {"create1", "create2", "join1", "join2"} \/ (s.mpc = "report" /\ s.demo = "atomic")
  /\ s' = [s EXCEPT !.mpc = "unwound", !.verdict = "error"]

(* The process ends, and its threads with it.                                *)
Return == s.mpc = "unwound" /\ s' = [s EXCEPT !.mpc = "ended"]

CounterMain ==
  \/ Create(t1, "create1", "create2") \/ Create(t2, "create2", "join1")
  \/ Join(t1, "join1", "join2") \/ Join(t2, "join2", "report")
  \/ Report \/ Throw \/ Return

Free == s.mutex = {}

Lock(t) ==
  /\ s.demo = "mutex" /\ s.wpc[t] = "loop" /\ s.left[t] > 0 /\ Free
  /\ s' = [s EXCEPT !.mutex = {t}, !.wpc[t] = "load"]

Load(t) == s.wpc[t] = "load" /\ s' = [s EXCEPT !.reg[t] = s.counter, !.wpc[t] = "store"]

Store(t) == s.wpc[t] = "store" /\ s' = [s EXCEPT !.counter = s.reg[t] + 1, !.wpc[t] = "unlock"]

Unlock(t) ==
  /\ s.wpc[t] = "unlock"
  /\ s' = [s EXCEPT !.mutex = {}, !.wpc[t] = "loop", !.left[t] = @ - 1]

bump(t) ==
  /\ s.demo = "atomic" /\ s.wpc[t] = "loop" /\ s.left[t] > 0
  /\ s' = [s EXCEPT !.counter = @ + 1, !.left[t] = @ - 1]

Exit(t) == s.wpc[t] = "loop" /\ s.left[t] = 0 /\ s' = [s EXCEPT !.wpc[t] = "exited"]

(* A thread goes on with what main has let go (its own apr_thread_t is in    *)
(* the pool too); nothing is known about it from then on.                    *)
Stray(t) ==
  /\ s.mpc = "unwound" /\ s.wpc[t] \notin {"none", "exited", "lost"}
  /\ s' = [s EXCEPT !.wpc[t] = "lost", !.touched = TRUE]

Worker(t) ==
  \/ /\ s.mpc \notin {"unwound", "ended"}
     /\ Lock(t) \/ Load(t) \/ Store(t) \/ Unlock(t) \/ bump(t) \/ Exit(t)
  \/ Stray(t)

CounterEnded == s.mpc = "ended" /\ UNCHANGED s

CounterNext == Counting /\ (CounterMain \/ CounterEnded \/ \E t \in Threads : Worker(t))
-------------------------------------------------------------------------------
(* No increment is lost: the counter is at any time, until main lets go of   *)
(* it under a running thread, the number of increments that were stored.     *)
NoLostIncrement ==
  ~s.touched =>
  s.counter + s.left[t1] + s.left[t2] =
    2 * Rounds + Cardinality({t \in Threads : s.wpc[t] = "unlock"})

(* Unless a call failed, both threads are done with the counter when main    *)
(* prints it and lets it go, and it is complete.  Only a failed call leaves  *)
(* a thread running on what is out of scope, and never if it was the first.  *)
SharedOutlivesThreads ==
  /\ s.verdict \in {"ok", "mismatch"} => s.verdict = "ok" /\ \A t \in Threads : s.wpc[t] = "exited"
  /\ s.touched => s.verdict = "error" /\ s.wpc[t1] # "none"
-------------------------------------------------------------------------------
(***************************************************************************)
(* apr/05_socket.cpp: main listens, starts a client thread, accepts one      *)
(* connection, receives up to Size bytes, sends back what it got and joins   *)
(* the client.  TCP hands over any non-empty part of what was sent; recv     *)
(* gives up after five seconds; accept waits for ever.  Bytes are numbered.  *)
(***************************************************************************)
ping == [i \in 1..Size |-> i]

EchoStarts ==
  {[program |-> "echo", mpc |-> "accept", buf |-> <<>>, cpc |-> "start", rv |-> "success",
    echo |-> <<>>, link |-> "none", up |-> <<>>, down |-> <<>>, closed |-> FALSE]}

Echoing == s.program = "echo"

(* A stream hands over some non-empty prefix of what was sent.               *)
Parts(b) == {SubSeq(b, 1, k) : k \in 1..Len(b)}
After(b, part) == SubSeq(b, Len(part) + 1, Len(b))

-------------------------------------------------------------------------------
Connect == s.cpc = "start" /\ s' = [s EXCEPT !.cpc = "send", !.link = "pending"]

(* The pool, the address, the socket or the connection fails.                *)
ConnectFails == s.cpc = "start" /\ s' = [s EXCEPT !.cpc = "exited", !.rv = "error"]

(* The number of bytes that were really sent is not looked at.               *)
ClientSend ==
  /\ s.cpc = "send"
  /\ \E part \in Parts(ping) : s' = [s EXCEPT !.up = @ \o part, !.cpc = "recv"]

ClientSendFails == s.cpc = "send" /\ s' = [s EXCEPT !.cpc = "close", !.rv = "error"]

ClientRecv ==
  /\ s.cpc = "recv"
  /\ \E part \in Parts(s.down) :
       s' = [s EXCEPT !.echo = part, !.down = After(@, part), !.cpc = "close"]

(* End of file, a reset connection, or five seconds without a byte.          *)
OnNoBytes == "close"
ClientRecvFails ==
  s.cpc = "recv" /\ s.down = <<>> /\ s' = [s EXCEPT !.cpc = OnNoBytes, !.rv = "error"]

ClientClose == s.cpc = "close" /\ s' = [s EXCEPT !.cpc = "exited", !.closed = TRUE]

Client ==
  /\ Echoing /\ s.mpc \notin {"ok", "failed"}
  /\ \/ ConnectFails \/ Connect \/ ClientSend \/ ClientSendFails
     \/ ClientRecv \/ ClientRecvFails \/ ClientClose

-------------------------------------------------------------------------------
Accept == s.mpc = "accept" /\ s.link = "pending" /\ s' = [s EXCEPT !.link = "open", !.mpc = "recv"]

AcceptFails == s.mpc = "accept" /\ s' = [s EXCEPT !.mpc = "failed"]

ServerRecv ==
  /\ s.mpc = "recv"
  /\ \E part \in Parts(s.up) : s' = [s EXCEPT !.buf = part, !.up = After(@, part), !.mpc = "send"]

(* check_apr throws: main returns 1 and the process ends with its threads.   *)
ServerRecvFails == s.mpc = "recv" /\ s.up = <<>> /\ s' = [s EXCEPT !.mpc = "failed"]

ToSend == s.buf

ServerSend ==
  /\ s.mpc = "send"
  /\ \E part \in Parts(ToSend) : s' = [s EXCEPT !.down = @ \o part, !.mpc = "close"]

ServerSendFails == s.mpc = "send" /\ s.closed /\ s' = [s EXCEPT !.mpc = "failed"]

(* Closing a socket with unread bytes resets the connection, and what the    *)
(* client has not read yet may be lost.                                      *)
ServerClose ==
  /\ s.mpc = "close"
  /\ \E kept \in {s.down} \cup (IF s.up # <<>> THEN {<<>>} ELSE {}) :
       s' = [s EXCEPT !.down = kept, !.mpc = "join"]

Verdict == IF s.rv = "success" THEN "ok" ELSE "failed"

EchoJoin == s.mpc = "join" /\ s.cpc = "exited" /\ s' = [s EXCEPT !.mpc = Verdict]

EchoMain ==
  /\ Echoing
  /\ \/ Accept \/ AcceptFails \/ ServerRecv \/ ServerRecvFails \/ ServerSend \/ ServerSendFails
     \/ ServerClose \/ EchoJoin

EchoEnded ==
  /\ Echoing /\ UNCHANGED s
  /\ s.mpc \in {"ok", "failed"} \/ (s.cpc = "exited" /\ s.link = "none")

EchoNext == EchoMain \/ Client \/ EchoEnded

EchoFairness == WF_s(EchoMain) /\ WF_s(Client)
-------------------------------------------------------------------------------
(* Whatever main received and the client got back is a piece of the message  *)
(* in its place: main never sends bytes it did not receive.                  *)
EchoIsPrefix == \A b \in {s.buf, s.echo, s.echo \o s.down} : b \in Parts(ping) \cup {<<>>}

(* main prints ok only when some of the message came back.                   *)
OkMeansEcho == s.mpc = "ok" => s.echo \in Parts(s.buf)

(* main comes to an end, unless the client failed before it connected: then  *)
(* accept, which has no timeout, waits for ever.                             *)
MainEnds ==
  Echoing => s.mpc \in {"ok", "failed"} \/ (s.cpc = "exited" /\ s.link = "none")
===============================================================================
