--------------------------- MODULE ComplaintServer ----------------------------
(***************************************************************************)
(* example/test/complaint-server.cpp and complaint-client.cpp.  The server   *)
(* is one thread around select: it answers the requests of its clients from  *)
(* a circular list of complaints that is known by its tail.  A client sends  *)
(* one request at a time and waits for the answer.  Descriptor 0 stands for  *)
(* the listening socket.  A request is one piece on a Unix socket.  Left     *)
(* out: a set-up call that fails, before there is a client.                  *)
(***************************************************************************)
EXTENDS ProgramBounds, Sequences, FiniteSetsExt

VARIABLE s    \* most, inputs (see Start); server: pc, fds, readfds, fdmax and the
              \* list: tail (0 is NULL), next, apt, accessed of every complaint,
              \* added (their number);
              \* per client cpc, fd (0: not accepted, -1: closed), req and reply
              \* (what its socket holds), asked; backlog (of the listener);
              \* history: live (not deleted), since[x] (handed out since x was
              \* logged or handed out), deserted (one was killed while waiting),
              \* failed (a system call or malloc failed in the loop)

Ids == 1..MaxComplaints
NoMessage == [op |-> "none", apt |-> "none", id |-> 0]

Request ==
  {[op |-> o, apt |-> a, id |-> 0] : o \in {"log", "give", "resolve"}, a \in Apartments}
    \cup {[op |-> o, apt |-> "none", id |-> 0] : o \in {"next", "quit"}}

(* The clients of users run; among them they log at most so many complaints  *)
(* and make no other requests than inputs.                                   *)
Start(users, most, inputs) ==
   [program |-> "complaints", most |-> most, inputs |-> inputs,
    pc |-> "select", fds |-> {0}, readfds |-> {}, fdmax |-> 0,
    tail |-> 0, next |-> [i \in Ids |-> 0], apt |-> [i \in Ids |-> "none"],
    accessed |-> [i \in Ids |-> FALSE], added |-> 0, backlog |-> << >>,
    cpc |-> [c \in Clients |-> IF c \in users THEN "start" ELSE "gone"],
    fd |-> [c \in Clients |-> IF c \in users THEN 0 ELSE -1],
    req |-> [c \in Clients |-> NoMessage], reply |-> [c \in Clients |-> NoMessage],
    asked |-> [c \in Clients |-> NoMessage], live |-> {},
    since |-> [i \in Ids |-> {}], deserted |-> FALSE, failed |-> FALSE]

(* One client that does everything, two that share the complaints of one     *)
(* apartment, and all clients that come and go, for the connections.         *)
Starts ==
  LET first  == CHOOSE c \in Clients : TRUE
      second == CHOOSE c \in Clients : c # first
      home   == CHOOSE a \in Apartments : TRUE
      shared == {r \in Request : r.apt \in {home, "none"} /\ r.op # "give"}
  IN  {Start({first}, MaxComplaints, Request), Start({first, second}, 2, shared),
       Start(Clients, 0, {r \in Request : r.op = "quit"})}

Running == s.program = "complaints"
-------------------------------------------------------------------------------
(* The list, from the head tail->next on until tail is met.                  *)
Order(q) ==
  LET at[i \in Ids] == IF i = 1 THEN q.next[q.tail] ELSE q.next[at[i - 1]]
  IN  IF q.tail = 0 THEN << >>
      ELSE [i \in 1..Min({j \in Ids : at[j] = q.tail}) |-> at[i]]

(* The place of the first complaint of an apartment, none if there is none.  *)
Matches(q, a) == {i \in DOMAIN Order(q) : q.apt[Order(q)[i]] = a}

Answer(op, a, i) == [op |-> op, apt |-> a, id |-> i]

(* The tail is set only when there was none: the newest becomes the head.    *)
Last_Kept(q, ptr) == IF q.tail = 0 THEN ptr ELSE q.tail
Last(q, ptr) == ptr

(* Every operation gives the new state of the list and the answer.           *)
add_to_complaint_q(q, a) ==
  LET ptr   == q.added + 1
      first == IF q.tail = 0 THEN ptr ELSE q.next[q.tail]
      old   == IF q.tail = 0 THEN q.next ELSE [q.next EXCEPT ![q.tail] = ptr]
  IN  [list |-> [q EXCEPT !.next = [old EXCEPT ![ptr] = first], !.apt[ptr] = a,
                          !.accessed[ptr] = FALSE, !.tail = Last(q, ptr), !.added = ptr,
                          !.live = @ \cup {ptr}],
       answer |-> Answer("added", a, 0)]

NewTail(q, ptr, prev) ==
  IF ptr # q.tail THEN q.tail ELSE IF ptr = prev THEN 0 ELSE prev

(* Nothing is kept of a complaint once it is freed.                          *)
Freed(ptr, q) ==
  [q EXCEPT !.next[ptr] = 0, !.apt[ptr] = "none", !.accessed[ptr] = FALSE,
            !.live = @ \ {ptr}, !.since = [i \in Ids |-> IF i = ptr THEN {} ELSE @[i] \ {ptr}]]

del_complaint(q, a) ==
  IF Matches(q, a) = {} THEN [list |-> q, answer |-> Answer("none4apt", a, 0)]
  ELSE LET k    == Min(Matches(q, a))
           ptr  == Order(q)[k]
           prev == IF k = 1 THEN q.tail ELSE Order(q)[k - 1]
       IN  [list |-> Freed(ptr, [q EXCEPT !.tail = NewTail(q, ptr, prev),
                                          !.next[prev] = q.next[ptr]]),
            answer |-> Answer("deleted", a, 0)]

reset_accessed_all(q) ==
  [i \in Ids |-> q.accessed[i] /\ i \notin {Order(q)[k] : k \in DOMAIN Order(q)}]

give_next_complaint(q) ==
  IF q.tail = 0 THEN [list |-> q, answer |-> Answer("nomore", "none", 0)]
  ELSE LET all   == \A k \in DOMAIN Order(q) : q.accessed[Order(q)[k]]
           seen  == IF all THEN reset_accessed_all(q) ELSE q.accessed
           ptr   == Order(q)[Min({k \in DOMAIN Order(q) : ~seen[Order(q)[k]]})]
       IN  [list |-> [q EXCEPT !.accessed = [seen EXCEPT ![ptr] = TRUE],
                               !.since = [i \in Ids |-> IF i \in q.live \ {ptr}
                                                        THEN @[i] \cup {ptr} ELSE {}]],
            answer |-> Answer("complaint", q.apt[ptr], ptr)]

give_complaint(q, a) ==
  [list |-> q, answer |-> IF Matches(q, a) = {} THEN Answer("none4apt", a, 0)
                          ELSE Answer("complaint", a, Order(q)[Min(Matches(q, a))])]

Serve(q, r) ==
  CASE r.op = "log"     -> add_to_complaint_q(q, r.apt)
    [] r.op = "next"    -> give_next_complaint(q)
    [] r.op = "give"    -> give_complaint(q, r.apt)
    [] r.op = "resolve" -> del_complaint(q, r.apt)
-------------------------------------------------------------------------------
OpenFds == {0} \cup ({s.fd[c] : c \in Clients} \ {-1})

Readable(f) ==
  \/ f = 0 /\ s.backlog # << >>
  \/ f # 0 /\ \E c \in Clients : s.fd[c] = f /\ (s.req[c] # NoMessage \/ s.cpc[c] = "gone")

Select ==
  /\ s.pc = "select"
  /\ LET ready == {f \in s.fds : f <= s.fdmax /\ Readable(f)}
     IN  ready # {} /\ s' = [s EXCEPT !.readfds = ready, !.pc = "pass"]

(* The loop goes up through the descriptors; fd is the one it is at.         *)
At(f) == s.pc = "pass" /\ s.readfds # {} /\ f = Min(s.readfds)
Passed(f) == s.readfds \ {f}

Accept ==
  /\ At(0)
  /\ LET c   == Head(s.backlog)
         new == Min((1..Cardinality(Clients)) \ OpenFds)
     IN  s' = [s EXCEPT !.readfds = Passed(0), !.backlog = Tail(@), !.fd[c] = new,
                        !.fds = @ \cup {new}, !.fdmax = Max({@, new})]

(* The descriptor stays in fds when it is closed.                            *)
Cleared_Not(f) == s.fds
Cleared(f) == s.fds \ {f}

(* A client that went without reading its answer makes read fail.            *)
Close(c) ==
  /\ s.fd[c] > 0 /\ At(s.fd[c])
  /\ s.req[c] = NoMessage \/ s.req[c].op = "quit"
  /\ s' = [s EXCEPT !.readfds = Passed(s.fd[c]), !.fds = Cleared(s.fd[c]),
                    !.fd[c] = -1, !.req[c] = NoMessage,
                    !.pc = IF s.reply[c] = NoMessage THEN "pass" ELSE "dead"]

(* The answer to a client that is gone raises SIGPIPE.                       *)
Handle(c) ==
  /\ s.fd[c] > 0 /\ At(s.fd[c]) /\ s.req[c].op \notin {"none", "quit"}
  /\ LET served == Serve(s, s.req[c])
     IN  s' = [served.list EXCEPT
                 !.req[c] = NoMessage, !.readfds = Passed(s.fd[c]),
                 !.reply[c] = IF s.cpc[c] = "gone" THEN NoMessage ELSE served.answer,
                 !.pc = IF s.cpc[c] = "gone" THEN "dead" ELSE "pass"]

Again == s.pc = "pass" /\ s.readfds = {} /\ s' = [s EXCEPT !.pc = "select"]

(* select, or for a descriptor that is ready accept, read, malloc, write or  *)
(* close, fails for a reason of its own: error ends the process, and with it *)
(* the list.                                                                 *)
error ==
  /\ s.pc = "select" \/ (s.pc = "pass" /\ s.readfds # {})
  /\ s' = [s EXCEPT !.pc = "dead", !.failed = TRUE]

Server == Select \/ Accept \/ Again \/ error \/ \E c \in Clients : Close(c) \/ Handle(c)
-------------------------------------------------------------------------------
Connect(c) ==
  /\ s.cpc[c] = "start" /\ s.pc # "dead" /\ Len(s.backlog) < BACKLOG
  /\ s' = [s EXCEPT !.cpc[c] = "input", !.backlog = Append(@, c)]

get_input(c) ==
  /\ s.cpc[c] = "input" /\ s.pc # "dead"
  /\ \E r \in s.inputs :
       /\ r.op = "log" => s.added + Cardinality({d \in Clients : s.req[d].op = "log"}) < s.most
       /\ s' = [s EXCEPT !.cpc[c] = "wait", !.req[c] = r, !.asked[c] = r]

Receive(c) ==
  /\ s.cpc[c] = "wait" /\ s.reply[c] # NoMessage
  /\ s' = [s EXCEPT !.cpc[c] = "input", !.reply[c] = NoMessage, !.asked[c] = NoMessage]

(* read gives 0 and leaves the message zero, which is QUIT.                  *)
Over(c) ==
  /\ s.cpc[c] = "wait" /\ s.reply[c] = NoMessage /\ (s.fd[c] = -1 \/ s.pc = "dead")
  /\ s' = [s EXCEPT !.cpc[c] = "gone", !.asked[c] = NoMessage]

(* Killed, or at the end of its input, or a write or connect that fails.     *)
Leave(c) ==
  /\ s.cpc[c] \in {"start", "input", "wait"} /\ (s.cpc[c] = "start" => s.pc = "dead")
  /\ s' = [s EXCEPT !.cpc[c] = "gone",
                    !.deserted = @ \/ s.cpc[c] = "wait"]

Client(c) == Connect(c) \/ get_input(c) \/ Receive(c) \/ Over(c) \/ Leave(c)

Idle ==
  /\ \A c \in Clients : s.cpc[c] = "gone"
  /\ s.pc = "dead" \/ (s.pc = "select" /\ s.fds = {0} /\ s.backlog = << >>)
  /\ UNCHANGED s

Next == Running /\ (Server \/ Idle \/ \E c \in Clients : Client(c))

Fairness ==
  /\ WF_s(Running /\ Server)
  /\ \A c \in Clients : WF_s(Running /\ (Receive(c) \/ Over(c)))
-------------------------------------------------------------------------------
(* The list is one circle that ends in tail: from the head on it holds all   *)
(* complaints that were logged and not resolved, in the order of logging.    *)
(* The complaints already handed out in this round come first.               *)
OneCircle ==
  LET o == Order(s)
  IN  /\ {o[k] : k \in DOMAIN o} = s.live
      /\ \A j, k \in DOMAIN o : j < k => o[j] < o[k] /\ (s.accessed[o[k]] => s.accessed[o[j]])

(* The server watches exactly the descriptors it has open; one that a pass   *)
(* of select found ready is still open when its turn comes, and no two       *)
(* clients have the same.                                                    *)
Watched ==
  /\ s.fds = OpenFds /\ s.readfds \subseteq s.fds /\ s.fdmax >= Max(s.fds)
  /\ \A c, d \in Clients : c # d /\ s.fd[c] > 0 => s.fd[c] # s.fd[d]

(* An answer is of the kind its own client asked for, and of its apartment.  *)
(* As long as no call fails for another reason, only a client that went      *)
(* while it waited for an answer ends the server.                            *)
AnswersMatch ==
  /\ \A c \in Clients : s.reply[c] # NoMessage =>
       /\ s.reply[c].op \in CASE s.asked[c].op = "log"     -> {"added"}
                              [] s.asked[c].op = "next"    -> {"complaint", "nomore"}
                              [] s.asked[c].op = "give"    -> {"complaint", "none4apt"}
                              [] s.asked[c].op = "resolve" -> {"deleted", "none4apt"}
                              [] OTHER                     -> {}
       /\ s.asked[c].op # "next" => s.reply[c].apt = s.asked[c].apt
  /\ s.pc = "dead" => s.deserted \/ s.failed

(* The complaints of an apartment are given and resolved oldest first, and   *)
(* denied only if there is none; while a complaint waits for its turn to be  *)
(* handed out, no other gets two turns, though complaints come and go.       *)
ServedInTurn ==
  \A c \in Clients : s'.reply[c] # s.reply[c] /\ s'.reply[c] # NoMessage =>
    LET r    == s.asked[c]
        a    == s'.reply[c]
        mine == {i \in s.live : s.apt[i] = r.apt}
    IN  /\ r.op = "next" /\ a.op = "complaint" => 
             a.id \in s.live /\ \A i \in s.live \ {a.id} : a.id \notin s.since[i]
        /\ r.op = "give" => a.id = (IF mine = {} THEN 0 ELSE Min(mine))
        /\ r.op = "resolve" => s'.live = s.live \ (IF mine = {} THEN {} ELSE {Min(mine)})
        /\ a.op = "nomore" => s.live = {}

(* A client waits for its answer: what must not last for ever.               *)
Pending(c) == Running /\ s.cpc[c] = "wait"
===============================================================================
