-------------------------------- MODULE Codecs ---------------------------------
(***************************************************************************)
(* The conversions of util/TinyUtil.cpp: base64_encode and base64_decode,    *)
(* octet_string_hex_string and hex_string_to_octet_string.  A Base64 or hex  *)
(* character is the value it stands for; PAD is '=', and OTHER_CHAR any      *)
(* character outside the alphabet.  A step is a turn of a loop; the caller   *)
(* may convert a result back.  The terminating zero is not part of out, nor  *)
(* of the room either Base64 function asks for.                              *)
(***************************************************************************)
EXTENDS ProgramBounds, SequencesExt

VARIABLE s    \* fn, in, room: the call, its input and nOutLen or len; i: the
              \* next place of in; nInLen: the length base64_decode is told;
              \* out: what was written, behind the room included; acc, space:
              \* lByteBuffer and lByteBufferSpace; pc: running or done; ret:
              \* the value returned; history: data, what the caller encoded

PAD == 64
OTHER_CHAR == 255

Call(fn, data, in, room) ==
  [program |-> "codec", fn |-> fn, data |-> data, in |-> in, room |-> room, nInLen |-> Len(in),
   i |-> 1, out |-> <<>>, acc |-> 0, space |-> 4, pc |-> "running", ret |-> 0]

(* base64_decode is told a length and reads up to the terminating zero.      *)
Decode(data, in, room, nInLen) ==
  [Call("base64_decode", data, in, room) EXCEPT !.nInLen = nInLen]

Strings(S, n) == UNION {[1..m -> S] : m \in 0..n}

Starts ==
  {Call("base64_encode", b, b, room) : b \in Strings(Bytes, MaxBytes), room \in Rooms}
  \cup {Decode(<<>>, t, room, n) :
          t \in Strings({21, 62, OTHER_CHAR}, MaxBytes), room \in Rooms, n \in 0..MaxBytes}
  \cup {Call("hex_string", b, b, Len(b)) : b \in Strings(Bytes, MaxBytes)}
  \cup {Call("octet_string", <<>>, t, len) :
          t \in Strings({0, 10, OTHER_CHAR}, MaxBytes), len \in 0..MaxBytes}

Running == s.program = "codec"
InCall(fn) == s.fn = fn /\ s.pc = "running"
Returned(fn) == s.fn = fn /\ s.pc = "done"
Left == Len(s.in) - s.i + 1

-------------------------------------------------------------------------------
Sextets(b1, b2, b3) ==
  <<b1 \div 4, (b1 % 4) * 16 + b2 \div 16, (b2 % 16) * 4 + b3 \div 64, b3 % 64>>

nNeededLen == ((Len(s.in) + 2) \div 3) * 4

(* The switch after the loop, on the one or two bytes that are left.         *)
Tail1 == <<s.in[s.i] \div 4, (s.in[s.i] % 4) * 16, PAD, PAD>>
Tail2 == SubSeq(Sextets(s.in[s.i], s.in[s.i + 1], 0), 1, 3) \o <<PAD>>

Return(n) == s' = [s EXCEPT !.pc = "done", !.ret = n]
Finish(out) == s' = [s EXCEPT !.pc = "done", !.out = out, !.ret = Len(out)]

base64_encode ==
  /\ InCall("base64_encode")
  /\ \/ s.in = <<>> /\ Finish(<<>>)
     \/ s.room < nNeededLen /\ Return(-1)
     \/ /\ s.room >= nNeededLen /\ Left >= 3
        /\ s' = [s EXCEPT !.i = @ + 3,
                          !.out = @ \o Sextets(s.in[s.i], s.in[s.i + 1], s.in[s.i + 2])]
     \/ /\ s.in # <<>> /\ s.room >= nNeededLen /\ Left < 3
        /\ Finish(s.out \o CASE Left = 0 -> <<>> [] Left = 1 -> Tail1 [] Left = 2 -> Tail2)

(* The room that base64_decode asks for.  No case is made for remainder 1,   *)
(* which leaves the remainder itself.                                        *)
nTotal(n) ==
  CASE n % 4 = 0 -> (n * 3) \div 4
    [] n % 4 = 1 -> 1
    [] n % 4 = 2 -> (n * 3) \div 4 + 1
    [] n % 4 = 3 -> (n * 3) \div 4 + 2

(* BASE64_DECODE_TABLE gives 255 for what is outside the alphabet.           *)
Decodes(c) == c \in 0..63

(* The bytes of a buffer that holds 3, 2 or 1 of them, the highest first.    *)
BytesOf(acc, n) == [k \in 1..n |-> (acc \div 256^(n - k)) % 256]

(* The switch after the loop: 18 or 12 bits are left of 3 or 2 characters.   *)
Remainder ==
  CASE s.space = 1 -> BytesOf(s.acc \div 4, 2)
    [] s.space = 2 -> BytesOf(s.acc \div 16, 1)
    [] OTHER -> <<>>

Shift(c) ==
  LET acc == s.acc * 64 + c IN
  IF s.space > 1 THEN [s EXCEPT !.i = @ + 1, !.acc = acc, !.space = @ - 1]
  ELSE [s EXCEPT !.i = @ + 1, !.acc = 0, !.space = 4, !.out = @ \o BytesOf(acc, 3)]

base64_decode ==
  /\ InCall("base64_decode")
  /\ \/ nTotal(s.nInLen) > s.room /\ Return(-1)
     \/ /\ nTotal(s.nInLen) <= s.room /\ Left > 0
        /\ s' = IF Decodes(s.in[s.i]) THEN Shift(s.in[s.i]) ELSE [s EXCEPT !.i = @ + 1]
     \/ /\ nTotal(s.nInLen) <= s.room /\ Left = 0
        /\ Finish(s.out \o Remainder)

-------------------------------------------------------------------------------
(* length is doubled and cut; the loop writes two characters per turn.       *)
Limit ==
  IF 2 * s.room > MAX_PRINT_STRING_LEN THEN MAX_PRINT_STRING_LEN - 1 ELSE 2 * s.room

octet_string_hex_string ==
  /\ InCall("hex_string")
  /\ IF Len(s.out) < Limit
     THEN s' = [s EXCEPT !.i = @ + 1, !.out = @ \o <<s.in[s.i] \div 16, s.in[s.i] % 16>>]
     ELSE Finish(s.out)

(* hex_char_to_nibble is -1 for what is no hex digit, and for the zero that  *)
(* ends the string.                                                          *)
hex_char_to_nibble(k) == IF k <= Len(s.in) /\ s.in[k] \in 0..15 THEN s.in[k] ELSE -1

(* hex_len is s.i - 1: it counts characters, two for an octet.               *)
hex_string_to_octet_string ==
  LET high == hex_char_to_nibble(s.i)
      low == hex_char_to_nibble(s.i + 1)
  IN  /\ InCall("octet_string")
      /\ \/ (s.i > s.room \/ high = -1) /\ Return(s.i - 1)
         \/ s.i <= s.room /\ high # -1 /\ low = -1 /\ Return(s.i)
         \/ /\ s.i <= s.room /\ high # -1 /\ low # -1
            /\ s' = [s EXCEPT !.i = @ + 2, !.out = Append(@, high * 16 + low)]

(* The caller converts back what it got, which may have been broken into     *)
(* lines on its way.  The length it tells is that of the text or, as the     *)
(* test does, of the buffer; len is a number of characters or of octets.     *)
Broken(text) == {text} \cup {InsertAt(text, k, OTHER_CHAR) : k \in 1..Len(text)}

ConvertBack ==
  \/ /\ Returned("base64_encode") /\ s.ret # -1
     /\ \E text \in Broken(s.out), room \in Rooms : \E n \in {Len(text), room} :
          s' = Decode(s.data, text, room, n)
  \/ /\ Returned("hex_string")
     /\ \E len \in {Len(s.out), Len(s.out) \div 2} :
          s' = Call("octet_string", s.data, s.out, len)

Progress ==
  Running /\ (base64_encode \/ base64_decode \/ octet_string_hex_string
               \/ hex_string_to_octet_string)

Ended == s.pc = "done" /\ UNCHANGED s

Next == Progress \/ (Running /\ (ConvertBack \/ Ended))

(* The functions run on one thread and wait for nothing.                     *)
Fairness == WF_s(Progress)
-------------------------------------------------------------------------------
(* Bit j, from 0, of characters of six bits each.                            *)
Bit(letters, j) == (letters[j \div 6 + 1] \div 2^(5 - (j % 6))) % 2

(* Byte k, from 1, of the bits of such characters.                           *)
Octet(letters, k) ==
  FoldLeft(LAMBDA x, y : 2 * x + y, 0, [m \in 1..8 |-> Bit(letters, 8 * (k - 1) + m - 1)])

(* The room was checked for the length told, not for the text that is read:  *)
(* a shorter length lets the loop write behind the room.                     *)
WithinRoom == Len(s.out) <= s.room

(* base64_decode returns the whole bytes among the bits of the characters    *)
(* of the alphabet, wherever other characters are in between.  It writes no  *)
(* more than it was given room for, if it is told at least the length of the *)
(* text, and one without remainder 1, for which it asks for one byte only.   *)
DecodesBits ==
  /\ Returned("base64_decode") /\ s.ret # -1 /\ WithinRoom =>
       LET letters == SelectSeq(s.in, Decodes)
       IN  /\ s.out = [k \in 1..((6 * Len(letters)) \div 8) |-> Octet(letters, k)]
           /\ s.ret = Len(s.out)
  /\ s.fn = "base64_decode" /\ s.nInLen >= Len(s.in) /\ s.nInLen % 4 # 1 => WithinRoom

(* What was encoded and decoded again is what it was, also when the text was *)
(* broken into lines; told a length of whole groups of four, base64_decode   *)
(* refuses only when there is no room for three bytes per group.             *)
RoundTrip ==
  /\ Returned("base64_encode") => (s.ret = -1) = (s.room < 4 * ((Len(s.data) + 2) \div 3))
  /\ Returned("base64_decode") /\ s.data # <<>> /\ s.ret # -1 /\ WithinRoom => s.out = s.data
  /\ Returned("base64_decode") /\ s.ret = -1 /\ s.nInLen % 4 = 0 => s.room < 3 * (s.nInLen \div 4)

(* A hex string is the octets, cut to what the static buffer holds, and      *)
(* converted back with its whole length gives them again; of any string      *)
(* hex_string_to_octet_string takes the longest part of hex digits up to     *)
(* len, returns its length, one more than asked for if len is odd, and       *)
(* stores an octet for every whole pair.  len is thus a number of digits:    *)
(* with one of octets, as the comment above the function has it, only the    *)
(* first half is converted.                                                  *)
HexRight ==
  Returned("octet_string") =>
    /\ s.ret \in 0..(s.room + (s.room % 2)) /\ Len(s.out) = s.ret \div 2
    /\ \A k \in 1..s.ret : hex_char_to_nibble(k) # -1
    /\ s.ret < s.room => hex_char_to_nibble(s.ret + 1) = -1
    /\ \A k \in 1..Len(s.out) : s.out[k] = 16 * s.in[2 * k - 1] + s.in[2 * k]
    /\ s.data # <<>> /\ s.room = Len(s.in) =>
         s.out = SubSeq(s.data, 1, Min({Len(s.data), MAX_PRINT_STRING_LEN \div 2}))
===============================================================================
