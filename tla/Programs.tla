------------------------------- MODULE Programs -------------------------------
(***************************************************************************)
(* The repository's small programs: the demos, the other servers, and the    *)
(* classes and the functions of the utilities as a program calls them.  They *)
(* share nothing.                                                            *)
(***************************************************************************)
EXTENDS Demos

Pat    == INSTANCE Patterns
Compl  == INSTANCE ComplaintServer
Ev     == INSTANCE EvEcho
Class  == INSTANCE ExamClasses
Rio    == INSTANCE TinyRio
Codec  == INSTANCE Codecs
String == INSTANCE StringUtil

Init ==
  \/ DemoInit \/ s \in Pat!RangeStarts \/ s \in Pat!TaskStarts \/ s \in Compl!Starts
  \/ s \in Ev!Starts \/ s \in Class!CommandStarts \/ s \in Class!BankStarts
  \/ s \in Rio!Starts \/ s \in Codec!Starts \/ s \in String!Starts

Next ==
  \/ DemoNext \/ Pat!RangeNext \/ Pat!TaskNext \/ Compl!Next \/ Ev!Next \/ Class!Next
  \/ Rio!Next \/ Codec!Next \/ String!Next

(* The threads of the queue demos, main and client of the echo demo, the     *)
(* processes of the servers (a client only while it waits for an answer) and *)
(* a running call of a utility are never left waiting for the processor for  *)
(* ever; libev calls a callback whose event stays.                           *)
Spec ==
  /\ Init /\ [][Next]_s
  /\ Queues!Fairness /\ Apr!EchoFairness /\ Rio!Fairness
  /\ Codec!Fairness /\ String!Fairness /\ Forks!Fairness
  /\ Compl!Fairness /\ Ev!Fairness
-------------------------------------------------------------------------------
(* TimeRangeQueue holds an unbroken run of the newest items, also when the   *)
(* wall clock is set back, and push leaves an expired item only if it was,   *)
(* and only behind a fresh one.  Unless it was, getRange gives exactly the   *)
(* items of the interval as far as the length allows.                        *)
RangeHolds ==
  /\ [](Pat!Ranging => Pat!HoldsNewest /\ Pat!RangeIsComplete)
  /\ [][Pat!Ranging => Pat!FreshAfterPush]_s


(* The complaint server keeps its list one circle in the order of logging,   *)
(* watches the descriptors it has open, gives every client an answer to its  *)
(* own request, and ends only through a client that left while it waited or  *)
(* a call that failed.                                                       *)
(* The libev server counts the clients it watches, also after errors, and    *)
(* every byte a client sent comes back or is on the way.                     *)
ServersKeepTrack ==
  /\ Compl!Running => Compl!OneCircle /\ Compl!Watched /\ Compl!AnswersMatch
  /\ Ev!Running => Ev!ClientsCounted /\ Ev!EchoExact

(* The complaints of an apartment are given and resolved oldest first; while *)
(* a complaint waits to be handed out, no other is handed out twice.         *)
ComplaintsInTurn == [][Compl!Running => Compl!ServedInTurn]_s

(* Through any copies, moves and assignments an array of a Command has one   *)
(* owner and holds the data that was set, assigned or moved into it, unless  *)
(* that came through the copy constructor.  The counts of WordBank are those *)
(* of the text, and the rank of a word is its place in the list.  The task   *)
(* controller's factory keeps one object per state, with the use counts that *)
(* fit its owners; a task is stopped only after it was started.              *)
ObjectsRight ==
  /\ Pat!Tasking => Pat!CountsMatch /\ Pat!StoppedWasStarted
  /\ Class!Commands => Class!OneOwner
  /\ Class!Banks => Class!CountsRight /\ Class!RankIsPlace

(* What a program owes to a client c, or in a call of rio.                   *)
Pending(c) ==
  \/ Forks!Pending(c) \/ Compl!Pending(c) \/ Ev!Pending(c)
  \/ Rio!Running /\ s.ret = "running"

(* Nothing goes on or waits for ever: both queue demos get to print, main of *)
(* the APR echo demo ends unless the client failed before it connected, all  *)
(* calls of the utilities return, those made after another one too, and the  *)
(* forking server collects every dead child and answers every client, though *)
(* its handler holds up accept until no child is left.  Every client of the  *)
(* complaint server that waits is answered, and of the libev server too      *)
(* unless its descriptors were used up before it was accepted.               *)
ProgramsEnd ==
  /\ []<>(Queues!DemoEnds /\ Apr!MainEnds /\ (Codec!Running \/ String!Running => s.pc = "done"))
  /\ \A c \in Clients : []<>~Pending(c)
===============================================================================
