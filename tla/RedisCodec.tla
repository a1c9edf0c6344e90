------------------------------ MODULE RedisCodec ------------------------------
(***************************************************************************)
(* RedisProtocol (redis_protocol.py): what each set_ method writes and     *)
(* each get_ method reads.  A byte is a string of one character, CR or LF; *)
(* a line or a word is a sequence of bytes.  Refused stands for the Result *)
(* that holds RedisProtocolFormatError; no count and no size is negative.  *)
(***************************************************************************)
EXTENDS Integers, Sequences, SequencesExt

CR == "CR"
LF == "LF"
CR_LF == <<CR, LF>>

Refused == -1

(* What set_binary refuses although a server method may return it: None,   *)
(* a bool or a float.                                                      *)
Unwritable == <<"Unwritable">>

DigitBytes == <<"0", "1", "2", "3", "4", "5", "6", "7", "8", "9">>

(* The text of a natural number. *)
Decimal[n \in Nat] ==
    IF n < 10 THEN <<DigitBytes[n + 1]>> ELSE Append(Decimal[n \div 10], DigitBytes[(n % 10) + 1])

(* The text of an integer. *)
Text(n) == IF n < 0 THEN <<"-">> \o Decimal[-n] ELSE Decimal[n]

(* What a digit stands for. *)
DigitOf(b) == CHOOSE d \in 0 .. 9 : DigitBytes[d + 1] = b

(* The number that digits stand for, as Python's int() reads it. *)
NumberOf(digits) ==
    LET upTo[i \in 0 .. Len(digits)] ==
            IF i = 0 THEN 0 ELSE 10 * upTo[i - 1] + DigitOf(digits[i])
    IN upTo[Len(digits)]

-----------------------------------------------------------------------------
(* Writing *)

set_nil == <<"$", "-", "1">> \o CR_LF

set_integer(n) == <<":">> \o Text(n) \o CR_LF

set_ok(reason) == <<"+">> \o reason \o CR_LF

set_err(reason) == <<"-">> \o reason \o CR_LF

set_count(n) == <<"*">> \o Decimal[n] \o CR_LF

(* The length of the word in bytes, not in characters, comes first. *)
set_binary(word) == <<"$">> \o Decimal[Len(word)] \o CR_LF \o word \o CR_LF

-----------------------------------------------------------------------------
(* Reading *)

(* A line: LF ends it, and there is no other in it. *)
IsLine(b) == b # <<>> /\ Last(b) = LF /\ \A i \in 1 .. Len(b) - 1 : b[i] # LF

(* A header line: its mark, digits only and at least one of them, CR LF. *)
get_header(mark, line) ==
    LET digits == SubSeq(line, 2, Len(line) - 2)
    IN IF /\ Len(line) > 3
          /\ Head(line) = mark
          /\ SubSeq(line, Len(line) - 1, Len(line)) = CR_LF
          /\ ToSet(digits) \subseteq ToSet(DigitBytes)
       THEN NumberOf(digits)
       ELSE Refused

get_count(line) == get_header("*", line)

get_binary_size(line) == get_header("$", line)

=============================================================================
