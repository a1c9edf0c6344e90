---------------------------- MODULE MCRedisStream ----------------------------
(***************************************************************************)
(* Instances of RedisStream for TLC.                                       *)
(***************************************************************************)
EXTENDS RedisStream, TLC

SomeBytes == ToSet(DigitBytes) \cup {CR, LF, "*", "$", "+", "-", ":", "E", "G", "K", "O", "P", "a", "d", "s", "t"}

(* One word; an empty word; words that look like the protocol itself; and  *)
(* a word whose size has two digits.                                       *)
SomeRequests ==
    {<< <<"P">> >>,
     << <<"G">>, <<>> >>,
     << <<"*">> \o CR_LF, <<"$", "1">> \o CR_LF >>,
     << [i \in 1 .. 10 |-> "a"] >>}

(* An inline command, an empty request, a bare LF, a negative count, a     *)
(* size of nil, and a request without its last word.                       *)
SomeGarbage ==
    {[header |-> h, words |-> <<>>, rest |-> <<>>] :
        h \in {<<"P">> \o CR_LF, <<"*", "0">> \o CR_LF, <<"*", "1", LF>>, <<"*", "-", "1">> \o CR_LF}}
    \cup
    {[header |-> <<"*", "1">> \o CR_LF, words |-> <<>>, rest |-> <<"$", "-", "1">> \o CR_LF],
     [header |-> <<"*", "2">> \o CR_LF, words |-> << <<"a">> >>, rest |-> <<>>]}

ping == << <<"P">> >>
Reply(kind, value) == [to |-> ping, kind |-> kind, value |-> value]

(* A reply of each kind; words with CR LF and with what looks like a       *)
(* reply; no key, one, two, and keys and words of arrays of which one      *)
(* cannot be written.  All of them answer the shortest request, and the    *)
(* others are answered OK.                                                 *)
SomeReplies ==
    {[to |-> r, kind |-> "ok", value |-> <<"O", "K">>] : r \in SomeRequests} \cup
    {Reply("err", <<"E">>), Reply("nil", <<>>), Reply("int", -1), Reply("int", 10),
     Reply("word", <<>>), Reply("word", CR_LF \o <<"+">> \o CR_LF),
     Reply("array", << <<"d">>, <<"2">> >>), Reply("array", << <<"d">>, Unwritable >>),
     Reply("KEYS", <<>>), Reply("KEYS", << <<"s">>, CR_LF >>),
     Reply("KEYS", << <<"s">>, Unwritable >>), Reply("KEYS", << Unwritable, <<"s">> >>),
     Reply("SCAN", <<>>), Reply("SCAN", << <<"s">>, <<"t">> >>)}

=============================================================================
