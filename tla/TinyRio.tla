-------------------------------- MODULE TinyRio --------------------------------
(***************************************************************************)
(* util/TinyRio.cpp: robust reading and writing on a descriptor whose read   *)
(* and write may be interrupted (EINTR), may fail, and may move fewer bytes  *)
(* than asked for.  A step is one read or write, or the hand-over of bytes   *)
(* from the internal buffer.  A descriptor is read either through the buffer *)
(* (rio_readnb, rio_readlineb) or directly (rio_readn).                      *)
(***************************************************************************)
EXTENDS ProgramBounds, SequencesExt

VARIABLE s    \* stream: all bytes, "x" and "nl"; in: those not yet read; buf:
              \* rio_buf from rio_bufptr on; op, want: the call and its size;
              \* usr: bytes put into usrbuf, or written; ret: running, ok,
              \* error; count: what was returned; buffered: how the descriptor
              \* is used; history: given, the bytes earlier calls returned, lost, the
              \* number of those in usrbuf when a call failed

Starts ==
  {[program |-> "rio", stream |-> b, in |-> b, buf |-> <<>>, buffered |-> mode, given |-> <<>>, lost |-> 0,
    op |-> "none", want |-> 0, usr |-> <<>>, ret |-> "ok", count |-> 0] :
      b \in UNION {[1..n -> {"x", "nl"}] : n \in 0..MaxStream}, mode \in BOOLEAN}

Running == s.program = "rio"
InCall(op) == s.op = op /\ s.ret = "running"

Ops == IF s.buffered THEN {"readnb", "readline", "writen"} ELSE {"readn", "writen"}

Call(op, n) ==
  /\ s.ret # "running" /\ op \in Ops /\ (op = "readline" => n > 0)
  /\ s' = [s EXCEPT !.op = op, !.want = n, !.ret = "running", !.count = 0, !.usr = <<>>,
                    !.given = IF s.op # "writen" /\ s.ret = "ok" THEN @ \o s.usr ELSE @,
                    !.lost = IF s.op # "writen" /\ s.ret = "error" THEN @ + Len(s.usr) ELSE @]

Returns(n) == s' = [s EXCEPT !.ret = "ok", !.count = n]

(* The call needs another byte, and the next thing it does is read or write. *)
AtSyscall ==
  /\ s.ret = "running" /\ Len(s.usr) + (IF s.op = "readline" THEN 1 ELSE 0) < s.want
  /\ s.op \in {"readnb", "readline"} => s.buf = <<>>

(* An error other than EINTR ends every loop.  After EINTR they try again,   *)
(* which changes nothing and is a stuttering step.                           *)
Fails == AtSyscall /\ s' = [s EXCEPT !.ret = "error"]

Rest(b, k) == SubSeq(b, k + 1, Len(b))
AtEOF == s.buf = <<>> /\ s.in = <<>>

Wanted == s.want - Len(s.usr)

(* One read, or the return at n bytes or at the end of the stream.           *)
rio_readn ==
  /\ InCall("readn")
  /\ \/ \E k \in 1..Min({Wanted, Len(s.in)}) :
          s' = [s EXCEPT !.usr = @ \o SubSeq(s.in, 1, k), !.in = Rest(@, k)]
     \/ (Wanted = 0 \/ s.in = <<>>) /\ Returns(Len(s.usr))

rio_writen ==
  /\ InCall("writen")
  /\ \/ \E k \in 1..Wanted : s' = [s EXCEPT !.usr = @ \o [j \in 1..k |-> "x"]]
     \/ Wanted = 0 /\ Returns(s.want)

(* rio_read fills its empty buffer with one read.                            *)
Refill ==
  /\ s.op \in {"readnb", "readline"} /\ AtSyscall
  /\ \E k \in 1..Min({RIO_BUFSIZE, Len(s.in)}) :
       s' = [s EXCEPT !.buf = SubSeq(s.in, 1, k), !.in = Rest(@, k)]

Left(k) == Rest(s.buf, k)

Take(k) == [s EXCEPT !.usr = @ \o SubSeq(s.buf, 1, k), !.buf = Left(k)]

Ends == Wanted = 0 \/ AtEOF

(* rio_read hands over min(n, rio_cnt) bytes.                                *)
rio_readnb ==
  /\ InCall("readnb")
  /\ \/ Wanted > 0 /\ s.buf # <<>> /\ s' = Take(Min({Wanted, Len(s.buf)}))
     \/ Ends /\ Returns(Len(s.usr))

EndsLine(c) == c = "nl"

(* n counts from 1 while n < maxlen.  A line that ends with its end-of-line  *)
(* returns its length; one that ends with the stream or with the space for   *)
(* it returns one more.                                                      *)
rio_readlineb ==
  /\ InCall("readline")
  /\ \/ /\ Wanted > 1 /\ s.buf # <<>>
        /\ s' = IF EndsLine(Head(s.buf))
                THEN [Take(1) EXCEPT !.ret = "ok", !.count = Len(s.usr) + 1] ELSE Take(1)
     \/ Wanted <= 1 /\ Returns(Len(s.usr) + 1)
     \/ Wanted > 1 /\ AtEOF /\ Returns(IF s.usr = <<>> THEN 0 ELSE Len(s.usr) + 1)

Progress == Running /\ (rio_readn \/ rio_writen \/ Refill \/ rio_readnb \/ rio_readlineb)

Next ==
  \/ Progress
  \/ Running /\ (Fails \/ \E op \in Ops, n \in 0..MaxWant : Call(op, n))

(* Signals do not interrupt every system call for ever.                      *)
Fairness == WF_s(Progress)
-------------------------------------------------------------------------------
(* Every call goes on in the stream where the one before it stopped: what    *)
(* it has stored, what the buffer holds and what is unread are the rest of   *)
(* the stream, so that callers get the stream without a gap until a call     *)
(* fails.  One that fails returns -1 only, and costs its caller what it has  *)
(* stored, but no byte of the buffer.                                        *)
BytesInOrder ==
  LET before == Len(s.given) + s.lost
  IN  /\ (IF s.op = "writen" THEN <<>> ELSE s.usr) \o s.buf \o s.in = Rest(s.stream, before)
      /\ s.lost = 0 => s.given = SubSeq(s.stream, 1, before)

(* rio_readn and rio_readnb return the number of bytes they stored, and      *)
(* fewer than asked for only at the end of the stream; rio_writen returns n  *)
(* only when all n bytes are written.                                        *)
CountsRight ==
  s.ret = "ok" =>
    /\ s.op \in {"readn", "readnb"} => s.count = Len(s.usr) /\ (s.count < s.want => AtEOF)
    /\ s.op = "writen" => s.count = s.want /\ Len(s.usr) = s.want

(* A line ends at the first end of line, at the end of the stream or when    *)
(* maxlen - 1 bytes are stored, leaving space for the terminating zero; 0 is *)
(* returned only when nothing is left.                                       *)
LinesRight ==
  s.ret = "ok" /\ s.op = "readline" =>
    /\ Len(s.usr) < s.want
    /\ \A j \in 1..(Len(s.usr) - 1) : s.usr[j] # "nl"
    /\ \/ s.usr # <<>> /\ Last(s.usr) = "nl" /\ s.count = Len(s.usr)
       \/ (AtEOF \/ Len(s.usr) = s.want - 1) /\ s.count \in {0, Len(s.usr) + 1}
    /\ s.count = 0 => s.usr = <<>> /\ AtEOF
===============================================================================
