----------------------------- MODULE ProgramBounds ----------------------------
(***************************************************************************)
(* The parameters and bounds of the small programs.  Every program is a      *)
(* module whose state is one record s: s.program names the program, Starts   *)
(* is the set of its initial states and Next its steps.  Programs puts them  *)
(* together.                                                                 *)
(***************************************************************************)
EXTENDS Integers, FiniteSets

CONSTANTS Capacity, Rate, Second,    \* of a bucket; ticks per second (1000)
          Half,                      \* 2^31: int is -Half .. Half-1
          Requests,                  \* arguments of a bucket's request
          MaxGap, MaxTime,           \* ticks between two requests; the clock
          max_length, time_range,    \* of a TimeRangeQueue
          MaxClock, MaxPushes,       \* its clock and the calls of push
          Producers, Consumers,      \* threads of the lock-free queue demo
          iterations,                \* values every producer pushes
          Items,                     \* numbers the other queue demo pushes (100)
          t1, t2, Rounds,            \* APR threads and their increments (10000)
          Size,                      \* strlen("ping")
          MaxStream, MaxWant,        \* bytes of a stream; size a call asks for
          RIO_BUFSIZE,
          Bytes, MaxBytes, Rooms,    \* byte values, their number; sizes of a buffer
          MAX_PRINT_STRING_LEN,      \* of the hex buffer (1024)
          MaxString,                 \* length of a string
          Clients, BACKLOG,          \* of the servers
          Apartments, MaxComplaints, \* of the complaint server
          MaxFds, MaxAsks, Chunk,    \* of the libev echo server: descriptors,
                                     \* messages of a client and their length
          MaxBlocks, MaxWords        \* arrays of Command objects; words of a text

ASSUME BucketAssumption ==
  /\ Capacity \in Nat /\ Rate \in Nat /\ Second \in Nat \ {0} /\ Half \in Nat \ {0}
  /\ Requests \subseteq Nat /\ MaxTime \in Nat /\ MaxGap \in Nat

ASSUME RangeAssumption ==
  max_length \in Nat /\ time_range \in Int /\ MaxClock \in Nat /\ MaxPushes \in Nat

ASSUME DemoAssumption ==
  /\ IsFiniteSet(Producers) /\ Consumers # {} /\ iterations \in Nat /\ Items \in Nat
  /\ Rounds \in Nat /\ t1 # t2 /\ Size \in Nat \ {0}

ASSUME RioAssumption == MaxStream \in Nat /\ RIO_BUFSIZE \in Nat \ {0} /\ MaxWant \in Nat

ASSUME CodecAssumption ==
  /\ Bytes \subseteq 0..255 /\ MaxBytes \in Nat /\ Rooms \subseteq Nat
  /\ MAX_PRINT_STRING_LEN \in Nat \ {0} /\ MAX_PRINT_STRING_LEN % 2 = 0
  /\ MaxString \in Nat

ASSUME ServerAssumption == BACKLOG \in Nat \ {0} /\ "none" \notin Clients /\ MaxComplaints \in Nat
                           /\ MaxFds \in Nat /\ MaxAsks \in Nat /\ Chunk \in Nat \ {0}

ASSUME ClassAssumption == MaxBlocks \in Nat /\ MaxWords \in Nat
===============================================================================
