------------------------------ MODULE TinyServer ------------------------------
(***************************************************************************)
(* run() of util/TinyServer.cpp: a select loop that answers every line with  *)
(* its rot13.  A round is a select, at most one accept, and one visit of     *)
(* every ready descriptor in ascending order; clients act in between.  recv  *)
(* is called until it has nothing left, so one visit takes all that waits;   *)
(* send may take any part of the rest of the line.  The check of accept's    *)
(* descriptor lets FD_SETSIZE through, for which the table has no slot.      *)
(***************************************************************************)
EXTENDS Naturals, Sequences, FiniteSets, SequencesExt

CONSTANTS Fds,        \* descriptors accept can return
          FD_SETSIZE,
          MAX_LINE,   \* size of buffer
          Bytes,      \* what clients send
          Talkers,    \* bounds: bytes a client sends on one connection, MaxSend
          MaxSend,    \* on these descriptors and one end of line on the others
          Null

FdState == [buffer : Seq({"a", "n", "nl"}), writing : BOOLEAN, n_written : Nat, write_upto : Nat]

ASSUME ServerAssumption ==
  /\ Fds \subseteq Nat /\ Fds # {} /\ FD_SETSIZE \in Nat
  /\ MAX_LINE \in Nat \ {0} /\ Bytes \subseteq {"a", "n", "nl"}
  /\ Talkers \subseteq Fds /\ MaxSend \in Nat
  /\ Null \notin FdState

Slots == {fd \in Fds : fd < FD_SETSIZE}

VARIABLES state,     \* the array of run(): slot -> fd_state or Null
          pc,        \* where run() is: select, accept, visit, or astray
          readset, writeset,
          listening, \* FD_ISSET(listener, &readset)
          backlog,   \* a connection waits for accept
          link,      \* descriptor: free, up, eof (client closed), reset
          in,        \* slot: bytes that wait for recv
          out,       \* slot: bytes sent back on the open connection
          got,       \* history, slot: bytes received on the open connection
          dropped    \* history, slot: a byte found the buffer full

vars == <<state, pc, readset, writeset, listening, backlog, link, in, out, got, dropped>>
loop == <<pc, readset, writeset, listening>>
history == <<got, dropped>>

rot13_char(c) == CASE c = "a" -> "n" [] c = "n" -> "a" [] OTHER -> c

alloc_fd_state == [buffer |-> <<>>, writing |-> FALSE, n_written |-> 0, write_upto |-> 0]

Init ==
  /\ state = [fd \in Slots |-> Null] /\ pc = "select"
  /\ readset = {} /\ writeset = {} /\ listening = FALSE /\ backlog = FALSE
  /\ link = [fd \in Fds |-> "free"] /\ in = [fd \in Slots |-> <<>>]
  /\ out = [fd \in Slots |-> <<>>] /\ got = [fd \in Slots |-> <<>>]
  /\ dropped = [fd \in Slots |-> FALSE]

-------------------------------------------------------------------------------
(* Clients act on slots only: what one does on a descriptor without a slot   *)
(* run() never sees.                                                         *)
Connect ==
  /\ ~backlog /\ backlog' = TRUE
  /\ UNCHANGED <<state, loop, link, in, out, history>>

Send(fd, c) ==
  /\ link[fd] = "up" /\ Len(got[fd]) + Len(in[fd]) < (IF fd \in Talkers THEN MaxSend ELSE 1)
  /\ fd \in Talkers \/ c = "nl"
  /\ in' = [in EXCEPT ![fd] = Append(@, c)]
  /\ UNCHANGED <<state, loop, backlog, link, out, history>>

(* A reset also discards what the server has not received.                   *)
Hangup(fd, how) ==
  /\ link[fd] = "up" /\ link' = [link EXCEPT ![fd] = how]
  /\ in' = IF how = "reset" THEN [in EXCEPT ![fd] = <<>>] ELSE in
  /\ UNCHANGED <<state, loop, backlog, out, history>>

-------------------------------------------------------------------------------
Readable == {fd \in Slots : state[fd] # Null /\ (in[fd] # <<>> \/ link[fd] # "up")}
Writing == {fd \in Slots : state[fd] # Null /\ state[fd].writing}

(* select blocks until something is ready.  Which of the sockets with a line *)
(* to send have room for it is up to the network.                            *)
Select(ws) ==
  /\ pc = "select" /\ ws \subseteq Writing
  /\ backlog \/ Readable # {} \/ ws # {}
  /\ readset' = Readable /\ writeset' = ws /\ listening' = backlog
  /\ pc' = "accept"
  /\ UNCHANGED <<state, backlog, link, in, out, history>>

FreeFd == CHOOSE fd \in Fds :
  link[fd] = "free" /\ \A g \in Fds : link[g] = "free" => fd <= g

(* accept fails (the connection is gone, or there is no descriptor for it).  *)
AcceptFails ==
  /\ pc = "accept" /\ listening /\ pc' = "visit"
  /\ backlog' = FALSE
  /\ UNCHANGED <<state, readset, writeset, listening, link, in, out, history>>

Accept ==
  /\ pc = "accept" /\ listening /\ \E fd \in Fds : link[fd] = "free"
  /\ FreeFd < FD_SETSIZE
  /\ pc' = "visit" /\ backlog' = FALSE
  /\ LET fd == FreeFd IN
     state' = [state EXCEPT ![fd] = alloc_fd_state] /\ link' = [link EXCEPT ![fd] = "up"]
  /\ UNCHANGED <<readset, writeset, listening, in, out, history>>

(* state[FD_SETSIZE] lies past the array.  The store may hit nothing that    *)
(* run() uses, or any local variable; what run() does then is not followed.  *)
AcceptPastEnd ==
  /\ pc = "accept" /\ listening /\ \E fd \in Fds : link[fd] = "free"
  /\ FreeFd = FD_SETSIZE
  /\ pc' \in {"visit", "astray"} /\ backlog' = FALSE
  /\ link' = [link EXCEPT ![FreeFd] = "up"]
  /\ UNCHANGED <<state, readset, writeset, listening, in, out, history>>

(* accept's descriptor is closed at once.                                    *)
Refuse ==
  /\ pc = "accept" /\ listening /\ \E fd \in Fds : link[fd] = "free"
  /\ FreeFd > FD_SETSIZE
  /\ pc' = "visit" /\ backlog' = FALSE
  /\ UNCHANGED <<state, readset, writeset, listening, link, in, out, history>>

NoAccept ==
  /\ pc = "accept" /\ ~listening /\ pc' = "visit"
  /\ UNCHANGED <<state, readset, writeset, listening, backlog, link, in, out, history>>

-------------------------------------------------------------------------------
(* The end of the answer is noted before the end of line is stored.          *)
Store_UptoFirst(s, c) ==
  LET t == IF c = "nl" THEN [s EXCEPT !.writing = TRUE, !.write_upto = Len(s.buffer)] ELSE s
  IN IF Len(t.buffer) < MAX_LINE THEN [t EXCEPT !.buffer = Append(@, rot13_char(c))] ELSE t

(* One byte of do_read: a byte that finds the buffer full is lost, but an    *)
(* end of line still starts the answer.                                      *)
Store(s, c) ==
  LET t == IF Len(s.buffer) < MAX_LINE
           THEN [s EXCEPT !.buffer = Append(@, rot13_char(c))] ELSE s
  IN IF c = "nl" THEN [t EXCEPT !.writing = TRUE, !.write_upto = Len(t.buffer)] ELSE t

(* The fd_state after each byte of w: the inner loop of do_read.             *)
Stored(s, w) ==
  LET after[i \in 0..Len(w)] == IF i = 0 THEN s ELSE Store(after[i - 1], w[i])
  IN  after

do_read(fd) == Stored(state[fd], in[fd])[Len(in[fd])]

(* writing is cleared only together with the buffer.                         *)
Sent_KeepsWriting(s, k) ==
  IF s.n_written + k = Len(s.buffer) THEN alloc_fd_state
  ELSE [s EXCEPT !.n_written = @ + k]

(* do_write forgets the unfinished line behind the one it has sent.          *)
Sent_ForgetsRest(s, k) ==
  IF s.n_written + k = s.write_upto THEN alloc_fd_state
  ELSE [s EXCEPT !.n_written = @ + k]

(* do_write after send has taken k bytes: it gives up until the next round   *)
(* unless all is written, and empties the buffer if that was all it held.    *)
Sent(s, k) ==
  CASE s.n_written + k < s.write_upto -> [s EXCEPT !.n_written = @ + k]
    [] s.n_written + k = Len(s.buffer) -> alloc_fd_state
    [] OTHER -> [s EXCEPT !.n_written = @ + k, !.writing = FALSE]

Visiting(fd) ==
  /\ pc = "visit" /\ fd \in readset \cup writeset
  /\ \A g \in readset \cup writeset : fd <= g
  /\ readset' = readset \ {fd} /\ writeset' = writeset \ {fd}
  /\ UNCHANGED <<pc, listening, backlog>>

(* What the visit finds in the socket: nothing unless it was readable.       *)
Received(fd) == IF fd \in readset THEN in[fd] ELSE <<>>

(* The visit of a descriptor that stays open: do_read returns 0, then        *)
(* do_write sends k bytes.                                                   *)
Serve(fd, k) ==
  /\ Visiting(fd) /\ link[fd] # "reset" /\ (fd \in readset => link[fd] = "up")
  /\ LET s == IF fd \in readset THEN do_read(fd) ELSE state[fd] IN
     /\ k \in 0..(IF fd \in writeset THEN s.write_upto - s.n_written ELSE 0)
     /\ state' = [state EXCEPT ![fd] = IF fd \in writeset THEN Sent(s, k) ELSE s]
     /\ out' = [out EXCEPT ![fd] = @ \o SubSeq(s.buffer, s.n_written + 1, s.n_written + k)]
  /\ got' = [got EXCEPT ![fd] = @ \o Received(fd)]
  /\ dropped' = [dropped EXCEPT ![fd] = @ \/
                  Len(state[fd].buffer) + Len(Received(fd)) > MAX_LINE]
  /\ in' = IF fd \in readset THEN [in EXCEPT ![fd] = <<>>] ELSE in
  /\ UNCHANGED link

Closed(fd) ==
  /\ link' = [link EXCEPT ![fd] = "free"] /\ in' = [in EXCEPT ![fd] = <<>>]
  /\ out' = [out EXCEPT ![fd] = <<>>] /\ got' = [got EXCEPT ![fd] = <<>>]
  /\ dropped' = [dropped EXCEPT ![fd] = FALSE]

(* The descriptor is closed but the array still holds its state.             *)
Drop_KeepsState(fd) ==
  /\ Visiting(fd) /\ link[fd] # "up"
  /\ fd \in readset \/ link[fd] = "reset"
  /\ Closed(fd) /\ UNCHANGED state

(* The visit of a descriptor whose client is gone: do_read or do_write       *)
(* returns non-zero, and what the buffer holds is given up.                  *)
Drop(fd) ==
  /\ Visiting(fd) /\ link[fd] # "up"
  /\ fd \in readset \/ link[fd] = "reset"
  /\ Closed(fd) /\ state' = [state EXCEPT ![fd] = Null]

NextRound ==
  /\ pc = "visit" /\ readset \cup writeset = {} /\ pc' = "select"
  /\ UNCHANGED <<state, readset, writeset, listening, backlog, link, in, out, history>>

Round ==
  \/ \E ws \in SUBSET Slots : Select(ws)
  \/ Accept \/ AcceptPastEnd \/ Refuse \/ AcceptFails \/ NoAccept \/ NextRound
  \/ \E fd \in Slots : Drop(fd) \/ \E k \in 0..MAX_LINE : Serve(fd, k)

Clients ==
  \/ Connect
  \/ \E fd \in Slots : \/ \E c \in Bytes : Send(fd, c)
                       \/ \E how \in {"eof", "reset"} : Hangup(fd, how)

Next == Round \/ (pc # "astray" /\ Clients)

(* The loop runs on, and a client that stays takes what is sent to it: a     *)
(* socket with a line to send is writable again and again.                   *)
Spec ==
  /\ Init /\ [][Next]_vars /\ WF_vars(Round)
  /\ \A fd \in Slots :
       /\ SF_vars(\E ws \in SUBSET Slots : fd \in ws /\ Select(ws))
       /\ SF_vars(\E k \in 1..MAX_LINE : Serve(fd, k))
-------------------------------------------------------------------------------
(* The counters of an fd_state never pass one another; run() visits only     *)
(* descriptors it holds a state for, and holds one for exactly the open      *)
(* connections below FD_SETSIZE, so none is read, written or closed twice.   *)
(* A descriptor above FD_SETSIZE is not kept open.  FD_SETSIZE itself is the *)
(* exception: its connection is open without a slot.                         *)
StatesMatch ==
  /\ \A fd \in Slots : state[fd] # Null =>
       /\ state[fd].n_written <= state[fd].write_upto
       /\ state[fd].write_upto <= Len(state[fd].buffer)
       /\ Len(state[fd].buffer) <= MAX_LINE
  /\ \A fd \in readset \cup writeset : fd \in Slots /\ state[fd] # Null
  /\ \A fd \in Slots : state[fd] = Null <=> link[fd] = "free"
  /\ \A fd \in Fds : fd > FD_SETSIZE => link[fd] = "free"

Rot13(s) == [j \in DOMAIN s |-> IF s[j] = "a" THEN "n" ELSE IF s[j] = "n" THEN "a" ELSE s[j]]

(* As long as the buffer has not overflowed a client gets the rot13 of its   *)
(* own bytes, in order, none twice and none of an earlier owner of the       *)
(* descriptor, however sends are cut.                                        *)
AnswerIsPrefix == \A fd \in Slots : ~dropped[fd] => IsPrefix(out[fd], Rot13(got[fd]))

(* A connection with nothing left to write has been answered up to the last  *)
(* end of line received, and no further.                                     *)
QuietIsAnswered ==
  \A fd \in Slots : state[fd] # Null /\ ~state[fd].writing /\ ~dropped[fd] =>
    \/ out[fd] = <<>> /\ \A j \in DOMAIN got[fd] : got[fd][j] # "nl"
    \/ out[fd] # <<>> /\ Last(out[fd]) = "nl"
       /\ \A j \in Len(out[fd]) + 1..Len(got[fd]) : got[fd][j] # "nl"

(* A line that was received is answered unless its client goes, also with a  *)
(* full buffer and other clients to serve, as long as run() has not gone     *)
(* astray: no descriptor stays in Writing for ever.                          *)
LinesAnswered == \A fd \in Slots : []<>(fd \notin Writing \/ pc = "astray")
===============================================================================
