----------------------------- MODULE RedisStream -----------------------------
(***************************************************************************)
(* The bytes of one redis connection: RedisTaskNode.create, which cuts     *)
(* requests out of a stream that arrives in any pieces and may end         *)
(* anywhere, and RedisTaskNode.write_result, which writes their replies    *)
(* (redis_task_node.py).  What the commands mean is RedisConnection's and  *)
(* SocketServer's concern: here a request is a sequence of words, and      *)
(* each of them has its Replies.                                           *)
(***************************************************************************)
EXTENDS RedisReader

CONSTANTS
    Byte,           \* the bytes, those that the protocol uses among them
    Requests,       \* the requests the client sends, sequences of words
    Garbage,        \* messages that are none
    Replies,        \* what the server may answer, and to which request
    MaxSent         \* bound: messages that the client sends on the connection

(* A message of the client: a line that counts its words, words as         *)
(* set_binary writes them, and bytes that no word begins with.  It is a    *)
(* request if the count is right.                                          *)
Request(r) == [header |-> set_count(Len(r)), words |-> r, rest |-> <<>>]

Messages == {Request(r) : r \in Requests} \cup Garbage

IsRequest(m) == m.words # <<>> /\ get_count(m.header) = Len(m.words)

WordsOf(words) == FlattenSeq([i \in DOMAIN words |-> set_binary(words[i])])

Encoding == [m \in Messages |-> m.header \o WordsOf(m.words) \o m.rest]

(* Garbage is what breaks the protocol before a word ends: a first line    *)
(* that counts no words, or fewer words than the line counts, and after    *)
(* them another message or a line that is no size.                         *)
Breaks(m) ==
    \/ get_count(m.header) \in {Refused, 0}
    \/ /\ get_count(m.header) > Len(m.words)
       /\ \/ m.rest = <<>>
          \/ \E n \in 1 .. Len(m.rest) :
                /\ IsLine(SubSeq(m.rest, 1, n))
                /\ get_binary_size(SubSeq(m.rest, 1, n)) = Refused

(* A reply is a line, an error, nil, an integer or a word; a value of      *)
(* several words, written at once (CONFIG); or the keys of KEYS or SCAN,   *)
(* written one by one.  Some words of an array, and some keys, may not be  *)
(* writable.  The texts of lines are the library's own and have no CR.     *)
IsReply(r) ==
    \/ r.kind \in {"ok", "err"} /\ r.value \in Seq(Byte) /\ CR \notin ToSet(r.value)
    \/ r.kind = "nil"
    \/ r.kind = "int" /\ r.value \in Int
    \/ r.kind = "word" /\ r.value \in Seq(Byte)
    \/ r.kind \in {"array", "KEYS", "SCAN"} /\ r.value \in Seq(Seq(Byte) \cup {Unwritable})

ASSUME StreamAssumption ==
    /\ ToSet(DigitBytes) \cup {CR, LF, "*", "$", "+", "-", ":"} \subseteq Byte
    /\ \A r \in Requests : r \in Seq(Seq(Byte)) /\ r # <<>>
    /\ \A m \in Garbage :
          /\ m \in [header : Seq(Byte), words : Seq(Seq(Byte)), rest : Seq(Byte)]
          /\ IsLine(m.header) /\ get_binary_size(m.header) = Refused
          /\ Breaks(m)
    /\ \A r \in Replies : r.to \in Requests /\ IsReply(r)
    /\ MaxSent \in Nat

VARIABLES
    sent,           \* messages of the client
    stream,         \* their bytes
    arrived,        \* how many of these are in the StreamReader or were read
    pos,            \* how many were read
    ended,          \* the stream ends after the bytes that have arrived
    pc,             \* the await handle_stream is at
    words,          \* the words of the request that is being read
    wanted,         \* how many it has
    size,           \* the size of its next word
    received,       \* the requests that were dispatched
    replies,        \* the replies that were begun
    keysLeft,       \* the keys of the last one that are still to be written
    out,            \* the bytes that were written
    reason          \* why the connection was closed

vars == <<sent, stream, arrived, pos, ended, pc, words, wanted, size, received, replies,
          keysLeft, out, reason>>

clientVars == <<sent, stream, arrived, ended>>
parserVars == <<pos, words, wanted, size, received>>
replyVars == <<replies, keysLeft, out>>

-----------------------------------------------------------------------------
(* What the StreamReader holds. *)
buffer == SubSeq(stream, pos + 1, arrived)

(* What readline() returns: up to the first LF, or all there is at the end. *)
line ==
    LET lf == SelectInSeq(buffer, LAMBDA b : b = LF)
    IN IF lf = 0 THEN buffer ELSE SubSeq(buffer, 1, lf)

LineReady == ended \/ SelectInSeq(buffer, LAMBDA b : b = LF) # 0

Init ==
    /\ sent = <<>> /\ stream = <<>> /\ arrived = 0 /\ ended = FALSE
    /\ pc = "count"
    /\ pos = 0 /\ words = <<>> /\ wanted = 0 /\ size = 0 /\ received = <<>>
    /\ replies = <<>> /\ keysLeft = <<>> /\ out = <<>>
    /\ reason = "none"

-----------------------------------------------------------------------------
(* The client and the network *)

(* The client does not wait for replies. *)
Send(m) ==
    /\ ~ended
    /\ Len(sent) < MaxSent
    /\ sent' = Append(sent, m)
    /\ stream' = stream \o Encoding[m]
    /\ UNCHANGED <<arrived, ended, pc, parserVars, replyVars, reason>>

(* Bytes arrive in pieces of any length, in order. *)
Deliver(n) ==
    /\ ~ended
    /\ arrived + n <= Len(stream)
    /\ arrived' = arrived + n
    /\ UNCHANGED <<sent, stream, ended, pc, parserVars, replyVars, reason>>

(* The client closes, or the connection is lost with what is under way. *)
EndOfStream ==
    /\ ~ended
    /\ ended' = TRUE
    /\ UNCHANGED <<sent, stream, arrived, pc, parserVars, replyVars, reason>>

-----------------------------------------------------------------------------
(* RedisTaskNode.create *)

Close(why) == pc' = "closed" /\ reason' = why

(* Mutant: readline() returns the line without its CR LF, which is skipped then. *)
Mut_TakeLine ==
    /\ LineReady
    /\ pos' = pos + Len(line) + 2

(* readline() took a line. *)
TakeLine ==
    /\ LineReady
    /\ pos' = pos + Len(line)

(* The number of words; an empty request is refused here, since the loop   *)
(* over its words does nothing.                                            *)
ReadCount ==
    /\ pc = "count"
    /\ TakeLine
    /\ LET count == get_count(line)
       IN \/ /\ line = <<>>
             /\ Close("eof")
             /\ UNCHANGED <<words, wanted>>
          \/ /\ line # <<>>
             /\ count \in {Refused, 0}
             /\ Close("format")
             /\ UNCHANGED <<words, wanted>>
          \/ /\ count \notin {Refused, 0}
             /\ pc' = "size"
             /\ words' = <<>>
             /\ wanted' = count
             /\ UNCHANGED reason
    /\ UNCHANGED <<clientVars, size, received, replyVars>>

ReadSize ==
    /\ pc = "size"
    /\ TakeLine
    /\ IF get_binary_size(line) = Refused
       THEN Close("format") /\ UNCHANGED size
       ELSE /\ pc' = "word"
            /\ size' = get_binary_size(line)
            /\ UNCHANGED reason
    /\ UNCHANGED <<clientVars, words, wanted, received, replyVars>>

(* Mutant: the word is read without the CR LF that ends it, which is left  *)
(* for the next readline().                                                *)
Mut_ReadWord ==
    /\ pc = "word"
    /\ Len(buffer) >= size
    /\ pos' = pos + size
    /\ words' = Append(words, SubSeq(buffer, 1, size))
    /\ IF Len(words') = wanted
       THEN pc' = "call" /\ received' = Append(received, words')
       ELSE pc' = "size" /\ UNCHANGED received
    /\ UNCHANGED <<clientVars, wanted, size, replyVars, reason>>

(* readexactly() took a word and the two bytes after it, which nobody      *)
(* looks at.  With its last word the request is dispatched.                *)
ReadWord ==
    /\ pc = "word"
    /\ Len(buffer) >= size + 2
    /\ pos' = pos + size + 2
    /\ words' = Append(words, SubSeq(buffer, 1, size))
    /\ IF Len(words') = wanted
       THEN pc' = "call" /\ received' = Append(received, words')
       ELSE pc' = "size" /\ UNCHANGED received
    /\ UNCHANGED <<clientVars, wanted, size, replyVars, reason>>

(* Mutant: at the end of the stream the word is what there is, as read()   *)
(* would return it.                                                        *)
Mut_WordIsCutOff ==
    /\ pc = "word"
    /\ ended
    /\ Len(buffer) < size + 2
    /\ received' = Append(received, Append(words, SubSeq(buffer, 1, Len(buffer) - 2)))
    /\ pc' = "call"
    /\ UNCHANGED <<clientVars, pos, words, wanted, size, replyVars, reason>>

(* readexactly() raises IncompleteReadError. *)
WordIsCutOff ==
    /\ pc = "word"
    /\ ended
    /\ Len(buffer) < size + 2
    /\ Close("eof")
    /\ UNCHANGED <<clientVars, parserVars, replyVars>>

(* Each of the three reads is under wait_for(IDLE_TIMEOUT). *)
ReadTimesOut ==
    /\ \/ pc \in {"count", "size"} /\ ~LineReady
       \/ pc = "word" /\ ~ended /\ Len(buffer) < size + 2
    /\ Close("timeout")
    /\ UNCHANGED <<clientVars, parserVars, replyVars>>

-----------------------------------------------------------------------------
(* RedisTaskNode.write_result *)

(* RedisTaskNode.write: the bytes go to the transport. *)
Write(bytes) == out' = out \o bytes

(* The words of an array before the first that cannot be written. *)
Writable(r) ==
    LET bad == SelectInSeq(r.value, LAMBDA w : w = Unwritable)
    IN IF bad = 0 THEN r.value ELSE SubSeq(r.value, 1, bad - 1)

(* A reply that is written without an await in between; of an array, what  *)
(* is written by the time unwrap() raises, if there is such a word.        *)
WholeReply(r) ==
    CASE r.kind = "ok" -> set_ok(r.value)
      [] r.kind = "err" -> set_err(r.value)
      [] r.kind = "nil" -> set_nil
      [] r.kind = "int" -> set_integer(r.value)
      [] r.kind = "word" -> set_binary(r.value)
      [] r.kind = "array" -> set_count(Len(r.value)) \o WordsOf(Writable(r))

(* SCAN answers with the cursor 0 and then the keys, KEYS with the keys. *)
KeysHeader(r) ==
    (IF r.kind = "SCAN" THEN set_count(2) \o set_binary(Text(0)) ELSE <<>>) \o set_count(Len(r.value))

(* Mutant: a key that cannot be written is left out of the reply. *)
Mut_WriteKeys(before, keys) ==
    /\ Write(IF keys = <<>> \/ Head(keys) = Unwritable THEN before ELSE before \o set_binary(Head(keys)))
    /\ keysLeft' = IF keys = <<>> THEN <<>> ELSE Tail(keys)
    /\ pc' = "drain"
    /\ UNCHANGED reason

(* Up to the drain() after the next key.  What is there of the reply is    *)
(* written by the time a key turns out not to be writable: unwrap() raises *)
(* and handle_stream closes the connection.                                *)
WriteKeys(before, keys) ==
    IF keys # <<>> /\ Head(keys) = Unwritable
    THEN /\ Write(before)
         /\ keysLeft' = <<>>
         /\ Close("write")
    ELSE /\ Write(IF keys = <<>> THEN before ELSE before \o set_binary(Head(keys)))
         /\ keysLeft' = IF keys = <<>> THEN <<>> ELSE Tail(keys)
         /\ pc' = "drain"
         /\ UNCHANGED reason

(* The server method has returned; its result is written up to a drain(),  *)
(* or up to a word of an array that cannot be written: unwrap() raises.    *)
Answer(r) ==
    /\ pc = "call"
    /\ r.to = Last(received)
    /\ replies' = Append(replies, r)
    /\ IF r.kind \in {"KEYS", "SCAN"}
       THEN WriteKeys(KeysHeader(r), r.value)
       ELSE /\ Write(WholeReply(r))
            /\ IF r.kind = "array" /\ Unwritable \in ToSet(r.value)
               THEN Close("write")
               ELSE pc' = "drain" /\ UNCHANGED reason
            /\ UNCHANGED keysLeft
    /\ UNCHANGED <<clientVars, parserVars>>

(* The next key, or the next request. *)
DrainReturns ==
    /\ pc = "drain"
    /\ IF keysLeft = <<>>
       THEN pc' = "count" /\ UNCHANGED <<keysLeft, out, reason>>
       ELSE WriteKeys(<<>>, keysLeft)
    /\ UNCHANGED <<clientVars, parserVars, replies>>

(* The client is gone, or IDLE_TIMEOUT has passed, which is for all of the *)
(* reply: the rest of it is not written.                                   *)
DrainFails ==
    /\ pc = "drain"
    /\ Close("write")
    /\ UNCHANGED <<clientVars, parserVars, replyVars>>

-----------------------------------------------------------------------------
Next ==
    \/ \E m \in Messages : Send(m)
    \/ \E n \in 1 .. Len(stream) : Deliver(n)
    \/ EndOfStream
    \/ ReadCount
    \/ ReadSize
    \/ ReadWord
    \/ WordIsCutOff
    \/ ReadTimesOut
    \/ \E r \in Replies : Answer(r)
    \/ DrainReturns
    \/ DrainFails

(* The network delivers, the event loop runs what is ready and the server  *)
(* methods return.  Timeouts and the end of the stream may happen or not.  *)
Fairness ==
    /\ WF_vars(Deliver(1))
    /\ WF_vars(ReadCount \/ ReadSize \/ ReadWord \/ WordIsCutOff)
    /\ WF_vars(\E r \in Replies : Answer(r))
    /\ WF_vars(DrainReturns)

Spec == Init /\ [][Next]_vars
FairSpec == Spec /\ Fairness

-----------------------------------------------------------------------------
(* Type invariant: what was read has arrived, and what has arrived was sent. *)
TypeOK ==
    /\ ToSet(sent) \subseteq Messages
    /\ pos \in 0 .. arrived /\ arrived \in 0 .. Len(stream)
    /\ ended \in BOOLEAN
    /\ pc \in {"count", "size", "word", "call", "drain", "closed"}
    /\ wanted \in Nat /\ size \in Nat
    /\ ToSet(replies) \subseteq Replies
    /\ reason \in {"none", "eof", "format", "timeout", "write"}

(* The requests before the first message that is none. *)
WellFormed ==
    LET bad == SelectInSeq(sent, LAMBDA m : ~IsRequest(m))
        good == IF bad = 0 THEN sent ELSE SubSeq(sent, 1, bad - 1)
    IN [i \in DOMAIN good |-> good[i].words]

(* create() dispatches the requests that were sent, word for word and in   *)
(* their order, whatever bytes their words have, in whatever pieces they   *)
(* arrive and wherever the stream ends; and nothing after garbage.         *)
RequestsIntact == IsPrefix(received, WellFormed)

(* What a client is to read of a reply. *)
Keys(r) == << <<"*", Len(r.value)>> >> \o [i \in DOMAIN r.value |-> <<"$", r.value[i]>>]

Meaning(r) ==
    CASE r.kind = "ok" -> << <<"+", r.value>> >>
      [] r.kind = "err" -> << <<"-", r.value>> >>
      [] r.kind = "nil" -> << <<"nil", <<>>>> >>
      [] r.kind = "int" -> << <<":", r.value>> >>
      [] r.kind = "word" -> << <<"$", r.value>> >>
      [] r.kind \in {"array", "KEYS"} -> Keys(r)
      [] r.kind = "SCAN" -> << <<"*", 2>>, <<"$", Text(0)>> >> \o Keys(r)

(* A client reads from what write_result has written the replies to its    *)
(* requests, in their order, each only when all of it is there: no word    *)
(* that looks like the protocol, no key that cannot be written and no      *)
(* failed drain() between two keys makes it take one reply for another.    *)
RepliesReadable ==
    LET meant == [i \in DOMAIN replies |-> Meaning(replies[i])]
        read == ReadAll(out)
    IN /\ IsPrefix(read, meant)
       /\ Len(read) + 1 >= Len(meant)
       /\ pc \in {"count", "size", "word", "call"} => Len(read) = Len(meant)
       /\ Len(replies) <= Len(received)

(* A request that has been sent is dispatched if the client stays, all     *)
(* before it were requests and no await runs into its timeout: the reader  *)
(* never waits for bytes that are not part of the request.                 *)
RequestsServed ==
    \A k \in 1 .. MaxSent :
        Len(WellFormed) >= k ~> Len(received) >= k \/ ended \/ reason \in {"timeout", "write"}

=============================================================================
