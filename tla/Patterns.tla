------------------------------- MODULE Patterns -------------------------------
(***************************************************************************)
(* The two programs of pattern/ that keep state: the time-range queue and    *)
(* the states of a task.                                                     *)
(***************************************************************************)
EXTENDS ProgramBounds, Sequences, FiniteSetsExt

VARIABLE s    \* "range": now, q; history: pushed (every item, in order), setBack
              \* "task": alive (the controller exists), mState (its name), mStates (the
              \* names in the factory's map), the use counts of the factory and
              \* of every state object; history: wasStarted
-------------------------------------------------------------------------------
(***************************************************************************)
(* pattern/time_range_queue.cpp: a queue of time-stamped items that forgets  *)
(* items older than time_range and keeps at most max_length of them.  Stale  *)
(* items are dropped by push only, and only from the front.  The time is the *)
(* wall clock, which may be set back.                                        *)
(***************************************************************************)
RangeStarts == {[program |-> "range", now |-> 0, q |-> <<>>, pushed |-> <<>>, setBack |-> FALSE]}

Ranging == s.program = "range"

Expired(item) == s.now - item.time >= time_range

(* What the loop of push leaves: the first item that has not expired and     *)
(* everything behind it.  Mutated: an if instead of the loop.                *)
Remaining_OnlyFirst == IF s.q # <<>> /\ Expired(Head(s.q)) THEN Tail(s.q) ELSE s.q
Remaining ==
  LET fresh == {i \in DOMAIN s.q : ~Expired(s.q[i])} \cup {Len(s.q) + 1}
  IN  SubSeq(s.q, Min(fresh), Len(s.q))

Truncated(q) == IF Len(q) > max_length THEN Tail(q) ELSE q

push ==
  LET item == [data |-> Len(s.pushed) + 1, time |-> s.now]
  IN  /\ Len(s.pushed) < MaxPushes
      /\ s' = [s EXCEPT !.q = Truncated(Append(Remaining, item)), !.pushed = Append(@, item)]

getRange(range_start, range_end) ==
  SelectSeq(s.q, LAMBDA item : item.time \in (s.now - range_start)..(s.now - range_end))

Tick == s.now < MaxClock /\ s' = [s EXCEPT !.now = @ + 1]

SetClockBack == \E t \in 0..(s.now - 1) : s' = [s EXCEPT !.now = t, !.setBack = TRUE]

RangeNext == Ranging /\ (push \/ Tick \/ SetClockBack)
-------------------------------------------------------------------------------
Newest(n) == SubSeq(s.pushed, Len(s.pushed) - Min({n, Len(s.pushed)}) + 1, Len(s.pushed))

(* Whatever the clock does, the queue is an unbroken run of the newest items *)
(* and no longer than max_length: expiry and the limit leave no hole.        *)
HoldsNewest == Len(s.q) <= max_length /\ s.q = Newest(Len(s.q))

(* Unless the clock was set back, getRange over less than time_range answers *)
(* with exactly the items pushed in that interval, as far as they are among  *)
(* the last max_length ones.                                                 *)
RangeIsComplete ==
  ~s.setBack => \A a \in 0..(time_range - 1), b \in 0..(time_range - 1) :
    getRange(a, b) =
      SelectSeq(Newest(max_length), LAMBDA item : item.time \in (s.now - a)..(s.now - b))

(* Whatever the clock did, an item as old as time_range that push leaves     *)
(* stood behind a fresh one, where the loop stops: only items stamped before *)
(* the clock was set back can keep one.  With a clock that only goes on,     *)
(* push leaves fresh items alone, as the comment in push says; main's        *)
(* comment on its second print, after 11 seconds, keeps four expired ones.   *)
FreshAfterPush ==
  s'.pushed # s.pushed =>
    \A i \in DOMAIN s'.q : Expired(s'.q[i]) =>
      s.setBack /\ \E j \in DOMAIN s.q : ~Expired(s.q[j]) /\ s.q[j].data < s'.q[i].data
-------------------------------------------------------------------------------
(***************************************************************************)
(* pattern/state_pattern.{h,cpp}: the states of a task as objects that a     *)
(* factory creates on first use and keeps.  Every state object holds a       *)
(* shared_ptr to the factory, and the factory one to every state, so the     *)
(* use counts are part of the model.                                         *)
(***************************************************************************)
Names == {"NONE", "PLANED", "STARTED", "STOPPED"}
Actions == {"HOLD", "PLAN", "START", "STOP"}

(* onAction of the four classes; a pair that is not listed gives nullptr.    *)
Transitions ==
  { <<"NONE", "PLAN", "PLANED">>,     <<"NONE", "START", "STARTED">>,
    <<"PLANED", "STOP", "NONE">>,     <<"PLANED", "START", "STARTED">>,
    <<"STARTED", "STOP", "STOPPED">>,
    <<"STOPPED", "PLAN", "PLANED">>,  <<"STOPPED", "START", "STARTED">> }

onAction(from, a) == {n \in Names : <<from, a, n>> \in Transitions}

(* The constructor makes the factory and the first state.                    *)
TaskStarts ==
  {[program |-> "task", alive |-> TRUE, mState |-> "NONE", mStates |-> {"NONE"},
    factoryCount |-> 2, wasStarted |-> FALSE,
    stateCount |-> [n \in Names |-> IF n = "NONE" THEN 2 ELSE 0]]}

Tasking == s.program = "task"

(* A state that is not in the map is created, entered and given the factory. *)
makeTaskState(n) ==
  IF n \in s.mStates THEN s
  ELSE [s EXCEPT !.mStates = @ \cup {n}, !.factoryCount = @ + 1, !.stateCount[n] = @ + 1]

(* mState moves to the new state, if onAction has an answer.                 *)
dispatch(a) ==
  /\ s.alive
  /\ \/ \E n \in onAction(s.mState, a) :
          s' = [makeTaskState(n) EXCEPT
                  !.stateCount = [@ EXCEPT ![s.mState] = @ - 1, ![n] = @ + 1],
                  !.mState = n, !.wasStarted = @ \/ n = "STARTED"]
     \/ onAction(s.mState, a) = {} /\ UNCHANGED s

(* The members of the controller are released, mState before the factory.    *)
destroy ==
  /\ s.alive
  /\ s' = [s EXCEPT !.alive = FALSE, !.stateCount[s.mState] = @ - 1, !.factoryCount = @ - 1]

TaskEnded == ~s.alive /\ UNCHANGED s

TaskNext == Tasking /\ (destroy \/ TaskEnded \/ \E a \in Actions : dispatch(a))
-------------------------------------------------------------------------------
(* There is one object per state however often it is entered, owned by the   *)
(* factory's map and, if it is the current one, by the controller; the       *)
(* factory is owned by the controller and by every state object.             *)
CountsMatch ==
  s.alive => /\ s.factoryCount = Cardinality(s.mStates) + 1
             /\ \A n \in Names : s.stateCount[n] =
                   (IF n \in s.mStates THEN 1 ELSE 0) + (IF n = s.mState THEN 1 ELSE 0)

(* Only a task that was started can be stopped, whatever actions were        *)
(* dispatched before.                                                        *)
StoppedWasStarted == "STOPPED" \in s.mStates => s.wasStarted
===============================================================================
