-------------------------- MODULE RedisStreamProofs --------------------------
(***************************************************************************)
(* Theorems about RedisStream, for any requests, garbage and replies,      *)
(* however many are sent, whatever pieces they arrive in and wherever the  *)
(* stream ends: create() reads the requests that were sent, and a client   *)
(* reads the replies that were meant.                                      *)
(***************************************************************************)
EXTENDS RedisStream, RedisCodecProofs

-----------------------------------------------------------------------------
(* Messages *)

(* The bytes that the protocol uses are bytes. *)
LEMMA BytesAreMarks == Marks \subseteq Byte
BY StreamAssumption DEF Marks, Digits

(* What the assumptions on Requests and Garbage come to: a message is a    *)
(* request with nothing after its words, or it breaks the protocol; and    *)
(* its first line is not the size of a word.                               *)
LEMMA MessageLemma ==
    ASSUME NEW m \in Messages
    PROVE  /\ m.header \in Seq(Byte) /\ m.words \in Seq(Seq(Byte)) /\ m.rest \in Seq(Byte)
           /\ IsLine(m.header) /\ get_binary_size(m.header) = Refused
           /\ IF IsRequest(m) THEN m.rest = <<>> ELSE Breaks(m)
<1>1. CASE m \in Garbage
  <2>1. /\ m \in [header : Seq(Byte), words : Seq(Seq(Byte)), rest : Seq(Byte)]
        /\ IsLine(m.header) /\ get_binary_size(m.header) = Refused
        /\ Breaks(m)
    BY <1>1, StreamAssumption
  <2>2. ~ IsRequest(m)
    BY <2>1 DEF IsRequest, Breaks, Refused
  <2> QED BY <2>1, <2>2
<1>2. ASSUME NEW r \in Requests, m = Request(r)
      PROVE  /\ m.header \in Seq(Byte) /\ m.words \in Seq(Seq(Byte)) /\ m.rest \in Seq(Byte)
             /\ IsLine(m.header) /\ get_binary_size(m.header) = Refused
             /\ IF IsRequest(m) THEN m.rest = <<>> ELSE Breaks(m)
  <2>1. r \in Seq(Seq(Byte)) /\ r # <<>> /\ Len(r) \in Nat
    BY StreamAssumption
  <2>2. Marks \subseteq Byte
    BY BytesAreMarks
  <2>3. "*" \in Byte /\ "*" # LF /\ "*" # "$"
    BY <2>2, MarksDiffer DEF Marks
  <2>4. PICK l : l = HeaderLine("*", Decimal[Len(r)])
    OBVIOUS
  <2>5. l \in Seq(Byte) /\ IsLine(l) /\ l[1] = "*" /\ get_count(l) = Len(r)
    BY <2>1, <2>2, <2>3, <2>4, HeaderIsRead DEF get_count
  <2>6. get_binary_size(l) = Refused
    BY <2>3, <2>5, HeaderRefused DEF get_binary_size
  <2>7. m.header = l /\ m.words = r /\ m.rest = <<>>
    BY <1>2, <2>4 DEF Request, set_count, HeaderLine
  <2>8. IsRequest(m)
    BY <2>1, <2>5, <2>7 DEF IsRequest
  <2> QED BY <2>1, <2>5, <2>6, <2>7, <2>8
<1> QED BY <1>1, <1>2 DEF Messages

(* A word: its size, its bytes, CR LF. *)
LEMMA WordLemma ==
    ASSUME NEW w \in Seq(Byte)
    PROVE  LET l == HeaderLine("$", Decimal[Len(w)])
           IN  /\ set_binary(w) \in Seq(Byte)
               /\ l \in Seq(Byte) /\ IsLine(l) /\ get_binary_size(l) = Len(w)
               /\ At(set_binary(w), 0, l)
               /\ At(set_binary(w), Len(l), w)
               /\ Len(set_binary(w)) = Len(l) + Len(w) + 2
BY BytesAreMarks, WordParts

(* Several words: one stands behind those before it. *)
LEMMA WordsLemma ==
    ASSUME NEW ws \in Seq(Seq(Byte))
    PROVE  /\ WordsOf(ws) \in Seq(Byte)
           /\ WordsOf(<<>>) = <<>>
           /\ \A n \in 0 .. Len(ws) - 1 :
                /\ WordsOf(SubSeq(ws, 1, n)) \in Seq(Byte)
                /\ WordsOf(SubSeq(ws, 1, n + 1)) = WordsOf(SubSeq(ws, 1, n)) \o set_binary(ws[n + 1])
                /\ At(WordsOf(ws), Len(WordsOf(SubSeq(ws, 1, n))), set_binary(ws[n + 1]))
<1>1. PICK s : s = [i \in DOMAIN ws |-> set_binary(ws[i])]
  OBVIOUS
<1>2. s \in Seq(Seq(Byte)) /\ Len(s) = Len(ws) /\ \A i \in 1 .. Len(ws) : s[i] = set_binary(ws[i])
  <2>1. \A i \in 1 .. Len(ws) : ws[i] \in Seq(Byte)
    OBVIOUS
  <2>2. \A i \in 1 .. Len(ws) : set_binary(ws[i]) \in Seq(Byte)
    BY <2>1, WordLemma
  <2>3. s = [i \in 1 .. Len(ws) |-> set_binary(ws[i])]
    BY <1>1
  <2> QED BY <2>2, <2>3
<1>3. ASSUME NEW n \in 0 .. Len(ws) PROVE WordsOf(SubSeq(ws, 1, n)) = FlattenSeq(SubSeq(s, 1, n))
  <2>1. PICK u : u = SubSeq(ws, 1, n)
    OBVIOUS
  <2>2. u \in Seq(Seq(Byte)) /\ Len(u) = n /\ \A i \in 1 .. n : u[i] = ws[i]
    BY <2>1
  <2>3. PICK t : t = [i \in DOMAIN u |-> set_binary(u[i])]
    OBVIOUS
  <2>4. t = [i \in 1 .. n |-> s[i]]
    BY <1>2, <2>2, <2>3
  <2>5. SubSeq(s, 1, n) = [i \in 1 .. n |-> s[i]]
    BY <1>2
  <2> QED BY <2>1, <2>3, <2>4, <2>5 DEF WordsOf
<1>4. WordsOf(ws) = FlattenSeq(s)
  BY <1>1 DEF WordsOf
<1>5. WordsOf(ws) \in Seq(Byte)
  BY <1>2, <1>4, FlattenType
<1>6. WordsOf(<<>>) = <<>>
  BY DEF WordsOf, FlattenSeq
<1>7. ASSUME NEW n \in 0 .. Len(ws) - 1
      PROVE  /\ WordsOf(SubSeq(ws, 1, n)) \in Seq(Byte)
             /\ WordsOf(SubSeq(ws, 1, n + 1)) = WordsOf(SubSeq(ws, 1, n)) \o set_binary(ws[n + 1])
             /\ At(WordsOf(ws), Len(WordsOf(SubSeq(ws, 1, n))), set_binary(ws[n + 1]))
  <2>1. n \in 0 .. Len(ws) /\ n + 1 \in 0 .. Len(ws) /\ n + 1 \in 1 .. Len(s) /\ (n + 1) - 1 = n
    BY <1>2
  <2>2. /\ FlattenSeq(SubSeq(s, 1, n)) \in Seq(Byte)
        /\ FlattenSeq(SubSeq(s, 1, n + 1)) = FlattenSeq(SubSeq(s, 1, n)) \o s[n + 1]
    BY <1>2, <2>1, FlattenPrefix
  <2>3. At(FlattenSeq(s), Len(FlattenSeq(SubSeq(s, 1, n))), s[n + 1])
    BY <1>2, <2>1, FlattenAt
  <2>4. s[n + 1] = set_binary(ws[n + 1])
    BY <1>2, <2>1
  <2> QED BY <1>3, <1>4, <2>1, <2>2, <2>3, <2>4
<1> QED BY <1>5, <1>6, <1>7

(* Where the first n words of a message end, from the message's begin. *)
EndOfWords(m, n) == Len(m.header) + Len(WordsOf(SubSeq(m.words, 1, n)))

(* A message: its first line, one word after the other, and its rest. *)
LEMMA EncodingLemma ==
    ASSUME NEW m \in Messages
    PROVE  /\ Encoding[m] \in Seq(Byte)
           /\ At(Encoding[m], 0, m.header)
           /\ EndOfWords(m, 0) = Len(m.header)
           /\ \A n \in 0 .. Len(m.words) - 1 :
                /\ EndOfWords(m, n) \in Nat
                /\ EndOfWords(m, n + 1) = EndOfWords(m, n) + Len(set_binary(m.words[n + 1]))
                /\ At(Encoding[m], EndOfWords(m, n), set_binary(m.words[n + 1]))
           /\ At(Encoding[m], EndOfWords(m, Len(m.words)), m.rest)
           /\ Len(Encoding[m]) = EndOfWords(m, Len(m.words)) + Len(m.rest)
<1>1. PICK h \in Seq(Byte), ws \in Seq(Seq(Byte)), r \in Seq(Byte) :
          h = m.header /\ ws = m.words /\ r = m.rest
  BY MessageLemma
<1>2. PICK w \in Seq(Byte) : w = WordsOf(ws)
  BY WordsLemma
<1>3. PICK b : b = h \o w \o r /\ b = Encoding[m]
  BY <1>1, <1>2 DEF Encoding
<1>4. h \o w \in Seq(Byte) /\ Len(h \o w) = Len(h) + Len(w)
  OBVIOUS
<1>5. PICK a \in Seq(Byte) : a = h \o w /\ Len(a) = Len(h) + Len(w)
  BY <1>4
<1>6. b = a \o r /\ b \in Seq(Byte) /\ Len(b) = Len(a) + Len(r)
  <2>1. a \o r \in Seq(Byte) /\ Len(a \o r) = Len(a) + Len(r)
    OBVIOUS
  <2> QED BY <2>1, <1>3, <1>5
<1>7. At(b, 0, h)
  <2>1. At(h, 0, h)
    BY DEF At
  <2>2. At(a, 0, h)
    BY <2>1, <1>5, AtExtended
  <2> QED BY <2>2, <1>6, AtExtended
<1>8. At(b, Len(h), w)
  <2>1. At(a, Len(h), w)
    BY <1>5, AtEnd
  <2> QED BY <2>1, <1>6, AtExtended
<1>9. EndOfWords(m, 0) = Len(h)
  <2>1. SubSeq(ws, 1, 0) = <<>> /\ Len(<<>>) = 0
    OBVIOUS
  <2>2. WordsOf(SubSeq(ws, 1, 0)) = <<>>
    BY <2>1, WordsLemma
  <2>3. EndOfWords(m, 0) = Len(h) + Len(WordsOf(SubSeq(ws, 1, 0)))
    BY <1>1 DEF EndOfWords
  <2>4. EndOfWords(m, 0) = Len(h) + Len(<<>>)
    BY <2>2, <2>3
  <2> HIDE DEF EndOfWords
  <2> QED BY <2>1, <2>4
<1>10. EndOfWords(m, Len(ws)) = Len(a)
  <2>1. SubSeq(ws, 1, Len(ws)) = ws
    OBVIOUS
  <2> QED BY <2>1, <1>1, <1>2, <1>5 DEF EndOfWords
<1>11. ASSUME NEW n \in 0 .. Len(ws) - 1
       PROVE  /\ EndOfWords(m, n) \in Nat
              /\ EndOfWords(m, n + 1) = EndOfWords(m, n) + Len(set_binary(ws[n + 1]))
              /\ At(b, EndOfWords(m, n), set_binary(ws[n + 1]))
  <2>1. PICK e \in Seq(Byte) : e = set_binary(ws[n + 1])
    <3>1. ws[n + 1] \in Seq(Byte)
      OBVIOUS
    <3> QED BY <3>1, WordLemma
  <2>2. PICK u \in Seq(Byte) : u = WordsOf(SubSeq(ws, 1, n))
    BY WordsLemma
  <2>3. WordsOf(SubSeq(ws, 1, n + 1)) = u \o e /\ At(w, Len(u), e)
    BY <2>1, <2>2, <1>2, WordsLemma
  <2>4. Len(u \o e) = Len(u) + Len(e)
    OBVIOUS
  <2>5. At(b, Len(h) + Len(u), e)
    BY <2>3, <1>6, <1>8, AtInside
  <2>6. EndOfWords(m, n) = Len(h) + Len(u) /\ EndOfWords(m, n + 1) = Len(h) + Len(u \o e)
    BY <2>2, <2>3, <1>1 DEF EndOfWords
  <2> QED BY <2>1, <2>4, <2>5, <2>6
<1>12. At(b, Len(a), r)
  BY <1>6, AtEnd
<1> QED BY <1>1, <1>3, <1>6, <1>7, <1>9, <1>10, <1>11, <1>12

-----------------------------------------------------------------------------
(* The stream *)

(* The messages in bytes, one by one. *)
PartsOf(s) == [i \in DOMAIN s |-> Encoding[s[i]]]

(* Where the first k of the messages s end. *)
Start(s, k) == Len(FlattenSeq(SubSeq(PartsOf(s), 1, k)))

(* The encoded messages are sequences of bytes. *)
LEMMA PartsType ==
    ASSUME NEW s \in Seq(Messages)
    PROVE  /\ PartsOf(s) \in Seq(Seq(Byte)) /\ Len(PartsOf(s)) = Len(s)
           /\ \A k \in 1 .. Len(s) : s[k] \in Messages /\ PartsOf(s)[k] = Encoding[s[k]]
<1>1. \A k \in 1 .. Len(s) : s[k] \in Messages
  OBVIOUS
<1>2. \A k \in 1 .. Len(s) : Encoding[s[k]] \in Seq(Byte)
  BY <1>1, EncodingLemma
<1>3. PartsOf(s) = [k \in 1 .. Len(s) |-> Encoding[s[k]]]
  BY DEF PartsOf
<1> QED BY <1>1, <1>2, <1>3

(* The stream of some messages: one after the other. *)
LEMMA StreamLemma ==
    ASSUME NEW s \in Seq(Messages)
    PROVE  /\ FlattenSeq(PartsOf(s)) \in Seq(Byte)
           /\ Start(s, 0) = 0
           /\ Start(s, Len(s)) = Len(FlattenSeq(PartsOf(s)))
           /\ \A k \in 0 .. Len(s) - 1 :
                /\ Start(s, k) \in Nat
                /\ Start(s, k + 1) = Start(s, k) + Len(Encoding[s[k + 1]])
                /\ At(FlattenSeq(PartsOf(s)), Start(s, k), Encoding[s[k + 1]])
<1>1. PICK p \in Seq(Seq(Byte)) :
          p = PartsOf(s) /\ Len(p) = Len(s) /\ \A k \in 1 .. Len(s) : p[k] = Encoding[s[k]]
  BY PartsType
<1>2. FlattenSeq(p) \in Seq(Byte)
  BY FlattenType
<1>3. SubSeq(p, 1, 0) = <<>> /\ SubSeq(p, 1, Len(p)) = p
  OBVIOUS
<1>4. FlattenSeq(<<>>) = <<>> /\ Len(<<>>) = 0
  BY DEF FlattenSeq
<1>5. Start(s, 0) = 0 /\ Start(s, Len(s)) = Len(FlattenSeq(p))
  BY <1>1, <1>3, <1>4 DEF Start
<1>6. ASSUME NEW k \in 0 .. Len(s) - 1
      PROVE  /\ Start(s, k) \in Nat
             /\ Start(s, k + 1) = Start(s, k) + Len(Encoding[s[k + 1]])
             /\ At(FlattenSeq(p), Start(s, k), Encoding[s[k + 1]])
  <2>1. k + 1 \in 1 .. Len(p) /\ k + 1 \in 1 .. Len(s) /\ (k + 1) - 1 = k
    BY <1>1
  <2>2. PICK e \in Seq(Byte) : e = p[k + 1] /\ e = Encoding[s[k + 1]]
    BY <2>1, <1>1
  <2>3. PICK u \in Seq(Byte) :
            u = FlattenSeq(SubSeq(p, 1, k)) /\ FlattenSeq(SubSeq(p, 1, k + 1)) = u \o e
    BY <2>1, <2>2, FlattenPrefix
  <2>4. Len(u \o e) = Len(u) + Len(e)
    OBVIOUS
  <2>5. At(FlattenSeq(p), Len(u), e)
    BY <2>1, <2>2, <2>3, FlattenAt
  <2>6. Start(s, k) = Len(u) /\ Start(s, k + 1) = Len(u \o e)
    BY <1>1, <2>3 DEF Start
  <2> QED BY <2>2, <2>4, <2>5, <2>6
<1> QED BY <1>1, <1>2, <1>5, <1>6

(* One more message is at the end, and moves none of the others. *)
LEMMA SentLemma ==
    ASSUME NEW s \in Seq(Messages), NEW m \in Messages
    PROVE  /\ FlattenSeq(PartsOf(Append(s, m))) = FlattenSeq(PartsOf(s)) \o Encoding[m]
           /\ \A k \in 0 .. Len(s) : Start(Append(s, m), k) = Start(s, k)
<1>0. PICK t : t = Append(s, m)
  OBVIOUS
<1>1. /\ t \in Seq(Messages) /\ Len(t) = Len(s) + 1
      /\ t[Len(t)] = m /\ \A k \in 1 .. Len(s) : t[k] = s[k]
  BY <1>0
<1>2. PICK p \in Seq(Seq(Byte)) :
          p = PartsOf(s) /\ Len(p) = Len(s) /\ \A k \in 1 .. Len(s) : p[k] = Encoding[s[k]]
  BY PartsType
<1>3. PICK q \in Seq(Seq(Byte)) :
          q = PartsOf(t) /\ Len(q) = Len(t) /\ \A k \in 1 .. Len(t) : q[k] = Encoding[t[k]]
  BY <1>1, PartsType
<1>4. PICK e \in Seq(Byte) : e = Encoding[m]
  BY EncodingLemma
<1>5. ASSUME NEW k \in 1 .. Len(s) PROVE q[k] = p[k]
  <2>1. k \in 1 .. Len(t) /\ t[k] = s[k]
    BY <1>1
  <2> QED BY <2>1, <1>2, <1>3
<1>6. q[Len(q)] = e /\ Len(q) = Len(p) + 1
  <2>1. Len(t) \in 1 .. Len(t)
    BY <1>1
  <2> QED BY <2>1, <1>1, <1>2, <1>3, <1>4
<1>7. q = Append(p, e)
  BY <1>2, <1>5, <1>6, SeqEqual
<1>8. FlattenSeq(q) = FlattenSeq(p) \o e
  BY <1>7, FlattenAppend
<1>9. ASSUME NEW k \in 0 .. Len(s) PROVE Start(t, k) = Start(s, k)
  <2>1. SubSeq(q, 1, k) = SubSeq(p, 1, k)
    BY <1>2, <1>5, <1>6
  <2> QED BY <2>1, <1>2, <1>3 DEF Start
<1> QED BY <1>0, <1>2, <1>3, <1>4, <1>8, <1>9

-----------------------------------------------------------------------------
(* Reading *)

(* The bytes are bytes, and what was read has arrived. *)
BytesOK ==
    /\ stream \in Seq(Byte)
    /\ arrived \in 0 .. Len(stream) /\ pos \in 0 .. arrived

(* What the StreamReader holds stands in the stream. *)
LEMMA BufferLemma ==
    ASSUME BytesOK
    PROVE  /\ buffer \in Seq(Byte) /\ Len(buffer) = arrived - pos
           /\ \A i \in 1 .. Len(buffer) : buffer[i] = stream[pos + i]
<1>1. PICK b \in Seq(Byte), p \in Nat, a \in Nat :
          b = stream /\ p = pos /\ a = arrived /\ p <= a /\ a <= Len(b)
  BY DEF BytesOK
<1>2. /\ SubSeq(b, p + 1, a) \in Seq(Byte) /\ Len(SubSeq(b, p + 1, a)) = a - p
      /\ \A i \in 1 .. a - p : SubSeq(b, p + 1, a)[i] = b[p + i]
  BY <1>1
<1> QED BY <1>1, <1>2 DEF buffer

(* What readline() returns stands in the stream; it has no LF before its   *)
(* end, and none at its end only if there is nothing more.                 *)
LEMMA LineLemma ==
    ASSUME BytesOK, LineReady
    PROVE  /\ line \in Seq(Byte) /\ pos + Len(line) \in 0 .. arrived
           /\ At(stream, pos, line)
           /\ \A i \in 1 .. Len(line) - 1 : line[i] # LF
<1>1. PICK b : b = buffer
  OBVIOUS
<1>2. b \in Seq(Byte) /\ Len(b) = arrived - pos /\ \A i \in 1 .. Len(b) : b[i] = stream[pos + i]
  BY <1>1, BufferLemma
<1> DEFINE I == {i \in 1 .. Len(b) : b[i] = LF}
<1>3. PICK lf : /\ lf = IF I # {} THEN Min(I) ELSE 0
                /\ line = IF lf = 0 THEN b ELSE SubSeq(b, 1, lf)
  BY <1>1 DEF line, SelectInSeq
<1>4. arrived \in Nat /\ pos \in Nat /\ arrived <= Len(stream) /\ pos <= arrived /\ Len(stream) \in Nat
  BY DEF BytesOK
<1>5. CASE I = {}
  <2>1. line = b
    BY <1>3, <1>5
  <2>2. \A i \in 1 .. Len(line) : line[i] # LF
    BY <1>5, <2>1
  <2> HIDE DEF I
  <2>3. At(stream, pos, line)
    BY <1>2, <1>4, <2>1 DEF At
  <2>4. \A i \in 1 .. Len(line) - 1 : line[i] # LF
    BY <1>2, <2>1, <2>2
  <2> QED BY <1>2, <1>4, <2>1, <2>3, <2>4
<1>6. CASE I # {}
  <2>1. Min(I) \in I /\ \A i \in I : Min(I) <= i
    <3>1. I \subseteq Nat
      OBVIOUS
    <3> HIDE DEF I
    <3>2. \E x \in I : \A y \in I : x <= y
      BY <3>1, <1>6, NatMin
    <3> QED BY <3>2 DEF Min
  <2>2. PICK n \in 1 .. Len(b) : n = Min(I) /\ b[n] = LF /\ \A i \in 1 .. n - 1 : b[i] # LF
    <3>1. Min(I) \in 1 .. Len(b) /\ b[Min(I)] = LF
      BY <2>1
    <3>2. ASSUME NEW i \in 1 .. Min(I) - 1 PROVE b[i] # LF
      <4>1. i \in 1 .. Len(b) /\ ~ (Min(I) <= i)
        BY <3>1, <1>2
      <4> QED BY <4>1, <2>1
    <3> QED BY <3>1, <3>2
  <2>3. line = SubSeq(b, 1, n)
    <3>1. lf = n
      <4> HIDE DEF I
      <4> QED BY <1>3, <1>6, <2>2
    <3>2. lf # 0
      BY <2>2, <3>1
    <3> QED BY <1>3, <3>1, <3>2
  <2> HIDE DEF I
  <2>4. line \in Seq(Byte) /\ Len(line) = n /\ \A i \in 1 .. n : line[i] = b[i]
    BY <1>2, <2>3
  <2>5. At(stream, pos, line)
    BY <1>2, <1>4, <2>4 DEF At
  <2>6. \A i \in 1 .. Len(line) - 1 : line[i] # LF
    BY <2>2, <2>4
  <2> QED BY <1>2, <1>4, <2>4, <2>5, <2>6
<1> QED BY <1>5, <1>6

(* A line that stands where readline() reads is what it returns, or        *)
(* readline() returns the begin of it, which is not a header.              *)
LEMMA LineIs ==
    ASSUME BytesOK, LineReady, NEW l \in Seq(Byte), IsLine(l), At(stream, pos, l)
    PROVE  line = l \/ \A mark : get_header(mark, line) = Refused
<1>1. /\ line \in Seq(Byte) /\ pos + Len(line) <= Len(stream)
      /\ \A i \in 1 .. Len(line) : stream[pos + i] = line[i]
      /\ \A i \in 1 .. Len(line) - 1 : line[i] # LF
  BY LineLemma DEF BytesOK, At
<1>2. /\ l # <<>> /\ l[Len(l)] = LF /\ \A i \in 1 .. Len(l) - 1 : l[i] # LF
      /\ \A i \in 1 .. Len(l) : stream[pos + i] = l[i]
  BY DEF IsLine, Last, At
<1>3. CASE line = <<>> \/ line[Len(line)] # LF
  BY <1>1, <1>3, HeaderRefused
<1>4. CASE line # <<>> /\ line[Len(line)] = LF
  <2>1. Len(line) = Len(l)
    <3>1. PICK a \in Nat, b \in Nat : a = Len(line) /\ b = Len(l) /\ a # 0 /\ b # 0
      BY <1>1, <1>2, <1>4
    <3>2. ~ (a < b)
      BY <3>1, <1>1, <1>2, <1>4
    <3>3. ~ (b < a)
      BY <3>1, <1>1, <1>2, <1>4, SMTT(30)
    <3> QED BY <3>1, <3>2, <3>3
  <2>2. \A i \in 1 .. Len(line) : line[i] = l[i]
    BY <2>1, <1>1, <1>2
  <2> QED BY <1>1, <2>1, <2>2, SeqEqual
<1> QED BY <1>3, <1>4

(* At the end of the stream readline() returns nothing. *)
LEMMA NoLine ==
    ASSUME BytesOK, LineReady, pos = Len(stream)
    PROVE  line = <<>> /\ \A mark : get_header(mark, line) = Refused
<1>1. line \in Seq(Byte) /\ line = <<>>
  BY LineLemma DEF BytesOK
<1> QED BY <1>1, HeaderRefused

-----------------------------------------------------------------------------
(* The inductive invariant: where create() is in what the client sent. *)

(* The sequences have the elements that they should. *)
SequencesOK ==
    /\ sent \in Seq(Messages) /\ stream \in Seq(Byte)
    /\ words \in Seq(Seq(Byte)) /\ received \in Seq(Seq(Seq(Byte)))
    /\ replies \in Seq(Replies)

(* The message that follows those that were read, and where it begins. *)
Current == sent[Len(received) + 1]
Begin == Start(sent, Len(received))

(* The stream is the messages, one after the other. *)
StreamInv == stream = FlattenSeq(PartsOf(sent))

(* What was dispatched are the first messages, and they are requests. *)
ReceivedInv ==
    /\ Len(received) <= Len(sent)
    /\ \A i \in 1 .. Len(received) : IsRequest(sent[i]) /\ received[i] = sent[i].words

(* Between two requests the next byte is the first one of a message. *)
BetweenInv == pc \in {"count", "call", "drain"} => pos = Begin

(* Inside of a request some words of the current message were read. *)
InsideInv ==
    pc \in {"size", "word"} =>
        /\ Len(received) < Len(sent)
        /\ Len(words) <= Len(Current.words)
        /\ words = SubSeq(Current.words, 1, Len(words))
        /\ wanted = get_count(Current.header) /\ wanted > Len(words)

(* Before a size it stands behind the words that it has read. *)
SizeInv == pc = "size" => pos = Begin + EndOfWords(Current, Len(words))

(* Before a word it has read the size of that word, which the current      *)
(* message has.                                                            *)
WordInv ==
    pc = "word" =>
        /\ Len(words) < Len(Current.words)
        /\ size = Len(Current.words[Len(words) + 1])
        /\ pos = Begin + EndOfWords(Current, Len(words)) + Len(HeaderLine("$", Decimal[size]))

(* All of it; with the types it is inductive. *)
ReaderInv == ReceivedInv /\ BetweenInv /\ InsideInv /\ SizeInv /\ WordInv

IInv == TypeOK /\ SequencesOK /\ StreamInv /\ ReaderInv

(* The types that the lemmas about reading need. *)
LEMMA BytesLemma == IInv => BytesOK
BY DEF IInv, TypeOK, SequencesOK, BytesOK

(* The current message stands in the stream from its begin on. *)
LEMMA CurrentLemma ==
    ASSUME IInv, Len(received) < Len(sent)
    PROVE  /\ Current \in Messages /\ Begin \in Nat
           /\ stream \in Seq(Byte) /\ Encoding[Current] \in Seq(Byte)
           /\ At(stream, Begin, Encoding[Current])
           /\ Start(sent, Len(received) + 1) = Begin + Len(Encoding[Current])
<1>1. PICK n \in 0 .. Len(sent) - 1 : n = Len(received)
  BY DEF IInv, SequencesOK
<1>2. sent \in Seq(Messages) /\ stream = FlattenSeq(PartsOf(sent))
  BY DEF IInv, SequencesOK, StreamInv
<1>3. /\ Start(sent, n) \in Nat
      /\ Start(sent, n + 1) = Start(sent, n) + Len(Encoding[sent[n + 1]])
      /\ At(FlattenSeq(PartsOf(sent)), Start(sent, n), Encoding[sent[n + 1]])
  BY <1>2, StreamLemma
<1>4. sent[n + 1] \in Messages
  BY <1>2
<1>5. FlattenSeq(PartsOf(sent)) \in Seq(Byte) /\ Encoding[sent[n + 1]] \in Seq(Byte)
  BY <1>2, <1>4, StreamLemma, EncodingLemma
<1> QED BY <1>1, <1>2, <1>3, <1>4, <1>5 DEF Current, Begin

(* What stands in the current message stands in the stream. *)
LEMMA CurrentAt ==
    ASSUME IInv, Len(received) < Len(sent), NEW p, NEW e \in Seq(Byte), At(Encoding[Current], p, e)
    PROVE  At(stream, Begin + p, e)
BY CurrentLemma, AtInside

(* After all messages the stream ends. *)
LEMMA StreamEnds ==
    ASSUME IInv, Len(received) = Len(sent)
    PROVE  Begin = Len(stream)
<1>1. sent \in Seq(Messages) /\ stream = FlattenSeq(PartsOf(sent))
  BY DEF IInv, SequencesOK, StreamInv
<1> QED BY <1>1, StreamLemma DEF Begin

(* The line after the first k messages is no size of a word. *)
LEMMA NoSizeBetween ==
    ASSUME IInv, LineReady, NEW k \in 0 .. Len(sent), pos = Start(sent, k)
    PROVE  get_binary_size(line) = Refused
<1>1. sent \in Seq(Messages) /\ stream = FlattenSeq(PartsOf(sent)) /\ BytesOK
  BY BytesLemma DEF IInv, SequencesOK, StreamInv
<1>2. CASE k = Len(sent)
  <2>1. pos = Len(stream)
    BY <1>1, <1>2, StreamLemma
  <2> QED BY <1>1, <2>1, NoLine DEF get_binary_size
<1>3. CASE k < Len(sent)
  <2>1. PICK m \in Messages : m = sent[k + 1]
    BY <1>1, <1>3
  <2>2. At(stream, pos, Encoding[m])
    BY <1>1, <1>3, <2>1, StreamLemma
  <2>3. /\ Encoding[m] \in Seq(Byte) /\ At(Encoding[m], 0, m.header)
        /\ m.header \in Seq(Byte) /\ IsLine(m.header) /\ get_binary_size(m.header) = Refused
    BY EncodingLemma, MessageLemma
  <2>4. At(stream, pos + 0, m.header)
    BY <1>1, <2>2, <2>3, AtInside DEF BytesOK
  <2>5. At(stream, pos, m.header)
    BY <1>1, <2>4 DEF BytesOK
  <2> QED BY <1>1, <2>3, <2>5, LineIs DEF get_binary_size
<1> QED BY <1>2, <1>3

-----------------------------------------------------------------------------
(* A line that counts words is the first line of the current message. *)
LEMMA CountIsRead ==
    ASSUME IInv, pc = "count", LineReady, get_count(line) \notin {Refused, 0}
    PROVE  /\ Len(received) < Len(sent) /\ line = Current.header
           /\ get_count(line) \in Nat \ {0}
           /\ pos + Len(line) = Begin + EndOfWords(Current, 0)
<1>1. BytesOK /\ pos = Begin /\ Len(received) <= Len(sent)
  BY BytesLemma DEF IInv, ReaderInv, BetweenInv, ReceivedInv
<1>2. Len(received) # Len(sent)
  BY <1>1, StreamEnds, NoLine DEF get_count
<1>3. Len(received) < Len(sent)
  <2>1. Len(received) \in Nat /\ Len(sent) \in Nat
    BY DEF IInv, SequencesOK
  <2> QED BY <2>1, <1>1, <1>2
<1>4. PICK m \in Messages : m = Current
  BY <1>3, CurrentLemma
<1>5. m.header \in Seq(Byte) /\ IsLine(m.header) /\ At(Encoding[m], 0, m.header)
  BY MessageLemma, EncodingLemma
<1>6. At(stream, pos, m.header)
  <2>1. At(stream, Begin + 0, m.header)
    BY <1>3, <1>4, <1>5, CurrentAt
  <2>2. Begin \in Nat
    BY <1>3, CurrentLemma
  <2> QED BY <2>1, <2>2, <1>1
<1>7. line = m.header
  BY <1>1, <1>5, <1>6, LineIs DEF get_count
<1>8. get_count(line) \in Nat
  BY <1>5, <1>7, HeaderType DEF get_count
<1>9. EndOfWords(m, 0) = Len(m.header)
  BY EncodingLemma
<1> QED BY <1>1, <1>3, <1>4, <1>7, <1>8, <1>9

(* A line that is a size is that of the next word of the current message:  *)
(* what follows the last word, of a request or of garbage, is none.        *)
LEMMA SizeIsRead ==
    ASSUME IInv, pc = "size", LineReady, get_binary_size(line) # Refused
    PROVE  /\ Len(words) < Len(Current.words)
           /\ get_binary_size(line) = Len(Current.words[Len(words) + 1])
           /\ line = HeaderLine("$", Decimal[get_binary_size(line)])
<1>1. BytesOK /\ words \in Seq(Seq(Byte)) /\ sent \in Seq(Messages) /\ received \in Seq(Seq(Seq(Byte)))
  BY BytesLemma DEF IInv, SequencesOK
<1>2. /\ Len(received) < Len(sent) /\ Len(words) <= Len(Current.words)
      /\ get_count(Current.header) > Len(words)
      /\ pos = Begin + EndOfWords(Current, Len(words))
  BY DEF IInv, ReaderInv, InsideInv, SizeInv
<1>3. PICK m \in Messages : m = Current
  BY <1>2, CurrentLemma
<1>4. m.words \in Seq(Seq(Byte)) /\ Len(words) \in Nat
  BY <1>1, MessageLemma
<1>5. CASE Len(words) < Len(m.words)
  <2>1. PICK n \in 0 .. Len(m.words) - 1 : n = Len(words)
    BY <1>4, <1>5
  <2>2. PICK w \in Seq(Byte) : w = m.words[n + 1]
    BY <1>4
  <2>3. PICK l \in Seq(Byte) : /\ l = HeaderLine("$", Decimal[Len(w)])
                               /\ IsLine(l) /\ get_binary_size(l) = Len(w)
                               /\ At(set_binary(w), 0, l)
    BY WordLemma
  <2>4. set_binary(w) \in Seq(Byte)
    BY WordLemma
  <2>5. EndOfWords(m, n) \in Nat /\ At(Encoding[m], EndOfWords(m, n), set_binary(w))
    BY <2>2, EncodingLemma
  <2>6. At(stream, pos, set_binary(w))
    BY <1>2, <1>3, <2>1, <2>4, <2>5, CurrentAt
  <2>7. At(stream, pos + 0, l)
    BY <1>1, <2>3, <2>4, <2>6, AtInside DEF BytesOK
  <2>8. At(stream, pos, l)
    BY <1>1, <2>7 DEF BytesOK
  <2>9. line = l
    BY <1>1, <2>3, <2>8, LineIs DEF get_binary_size
  <2> QED BY <1>3, <1>5, <2>1, <2>2, <2>3, <2>9
<1>6. CASE Len(words) = Len(m.words)
  <2> SUFFICES get_binary_size(line) = Refused
    OBVIOUS
  <2>1. m.rest \in Seq(Byte) /\ At(Encoding[m], EndOfWords(m, Len(m.words)), m.rest)
    BY MessageLemma, EncodingLemma
  <2>2. Breaks(m) /\ get_count(m.header) > Len(m.words)
    BY <1>2, <1>3, <1>4, <1>6, MessageLemma DEF IsRequest
  <2>3. CASE m.rest = <<>>
    <3>1. Len(Encoding[m]) = EndOfWords(m, Len(m.words)) + Len(m.rest)
      BY EncodingLemma
    <3>2. Start(sent, Len(received) + 1) = Begin + Len(Encoding[m]) /\ Begin \in Nat
      BY <1>2, <1>3, CurrentLemma
    <3>3. EndOfWords(m, Len(m.words)) \in Nat
      BY <2>1 DEF At
    <3>4. pos = Start(sent, Len(received) + 1)
      BY <1>2, <1>3, <1>6, <2>3, <3>1, <3>2, <3>3
    <3>5. Len(received) + 1 \in 0 .. Len(sent)
      BY <1>1, <1>2
    <3> QED BY <3>4, <3>5, NoSizeBetween
  <2>4. CASE m.rest # <<>>
    <3>0. PICK r \in Seq(Byte) : r = m.rest
      BY <2>1
    <3>1. PICK n \in 1 .. Len(r) : IsLine(SubSeq(r, 1, n)) /\ get_binary_size(SubSeq(r, 1, n)) = Refused
      BY <1>4, <2>2, <2>4, <3>0 DEF Breaks, Refused
    <3>2. SubSeq(r, 1, n) \in Seq(Byte) /\ At(r, 0, SubSeq(r, 1, n))
      BY DEF At
    <3>3. PICK l \in Seq(Byte) : l = SubSeq(r, 1, n) /\ At(m.rest, 0, l)
      BY <3>0, <3>2
    <3>4. At(stream, pos, m.rest)
      BY <1>2, <1>3, <1>6, <2>1, CurrentAt
    <3>5. At(stream, pos + 0, l)
      BY <1>1, <2>1, <3>3, <3>4, AtInside DEF BytesOK
    <3>6. At(stream, pos, l)
      BY <1>1, <3>5 DEF BytesOK
    <3> QED BY <1>1, <3>1, <3>3, <3>6, LineIs DEF get_binary_size
  <2> QED BY <2>3, <2>4
<1> QED BY <1>2, <1>3, <1>4, <1>5, <1>6

(* readexactly() takes the next word of the current message, no more and   *)
(* no less.                                                                *)
LEMMA WordIsRead ==
    ASSUME IInv, pc = "word", Len(buffer) >= size + 2
    PROVE  /\ pos + size + 2 \in 0 .. arrived
           /\ Len(words) < Len(Current.words)
           /\ SubSeq(buffer, 1, size) \in Seq(Byte)
           /\ Append(words, SubSeq(buffer, 1, size)) = SubSeq(Current.words, 1, Len(words) + 1)
           /\ pos + size + 2 = Begin + EndOfWords(Current, Len(words) + 1)
<1>1. BytesOK /\ words \in Seq(Seq(Byte)) /\ size \in Nat
  BY BytesLemma DEF IInv, SequencesOK, TypeOK
<1>2. /\ Len(received) < Len(sent) /\ Len(words) < Len(Current.words)
      /\ words = SubSeq(Current.words, 1, Len(words))
      /\ size = Len(Current.words[Len(words) + 1])
      /\ pos = Begin + EndOfWords(Current, Len(words)) + Len(HeaderLine("$", Decimal[size]))
  BY DEF IInv, ReaderInv, InsideInv, WordInv
<1>3. PICK m \in Messages, ws \in Seq(Seq(Byte)) : m = Current /\ ws = m.words /\ Begin \in Nat
  BY <1>2, CurrentLemma, MessageLemma
<1>4. PICK n \in 0 .. Len(ws) - 1 : n = Len(words)
  <2>1. Len(words) \in Nat /\ Len(ws) \in Nat
    BY <1>1
  <2>2. Len(words) < Len(ws)
    BY <1>2, <1>3
  <2> QED BY <2>1, <2>2, SMTT(30)
<1>5. PICK w \in Seq(Byte) : w = ws[n + 1] /\ size = Len(w)
  <2>1. ws[n + 1] \in Seq(Byte)
    BY <1>3, <1>4
  <2>2. size = Len(ws[n + 1])
    BY <1>2, <1>3, <1>4, Zenon
  <2> QED BY <2>1, <2>2, Zenon
<1>6. PICK l \in Seq(Byte), e \in Seq(Byte) :
          /\ l = HeaderLine("$", Decimal[size]) /\ e = set_binary(w)
          /\ At(e, Len(l), w) /\ Len(e) = Len(l) + Len(w) + 2
  BY <1>5, WordLemma
<1>7. /\ EndOfWords(m, n) \in Nat /\ At(Encoding[m], EndOfWords(m, n), e)
      /\ EndOfWords(m, n + 1) = EndOfWords(m, n) + Len(e)
  BY <1>3, <1>5, <1>6, EncodingLemma
<1>8. pos + size + 2 = Begin + EndOfWords(m, n + 1)
  <2>1. pos = Begin + EndOfWords(m, n) + Len(l)
    BY <1>2, <1>3, <1>4, <1>6
  <2>2. Len(l) \in Nat /\ Len(w) \in Nat /\ Len(e) \in Nat
    OBVIOUS
  <2>3. PICK b \in Nat, x \in Nat, y \in Nat, z \in Nat :
            b = Begin /\ x = EndOfWords(m, n) /\ y = Len(l) /\ z = Len(w)
    BY <2>2, <1>3, <1>7
  <2>4. EndOfWords(m, n + 1) = x + (y + z + 2)
    BY <2>3, <1>6, <1>7
  <2>5. pos = b + x + y /\ size = z
    BY <2>1, <2>3, <1>5
  <2>6. pos + size + 2 = b + x + y + z + 2
    BY <2>5
  <2>7. b + x + y + z + 2 = b + (x + (y + z + 2))
    OBVIOUS
  <2>8. Begin + EndOfWords(m, n + 1) = b + (x + (y + z + 2))
    BY <2>3, <2>4
  <2> QED BY <2>6, <2>7, <2>8
<1>9. At(stream, pos, w)
  <2>1. At(stream, Begin + EndOfWords(m, n), e)
    BY <1>2, <1>3, <1>6, <1>7, CurrentAt
  <2>2. At(stream, Begin + EndOfWords(m, n) + Len(l), w)
    BY <1>1, <1>6, <2>1, AtInside DEF BytesOK
  <2> QED BY <1>2, <1>3, <1>4, <1>6, <2>2
<1>10. PICK b \in Seq(Byte) :
           b = buffer /\ Len(b) = arrived - pos /\ \A i \in 1 .. Len(b) : b[i] = stream[pos + i]
  BY <1>1, BufferLemma
<1>11. SubSeq(buffer, 1, size) = w
  <2>1. SubSeq(b, 1, size) \in Seq(Byte) /\ Len(SubSeq(b, 1, size)) = size
    BY <1>1, <1>10, SMTT(30)
  <2>2. ASSUME NEW i \in 1 .. size PROVE SubSeq(b, 1, size)[i] = w[i]
    <3>1. SubSeq(b, 1, size)[i] = b[i] /\ i \in 1 .. Len(b)
      BY <1>1, <1>10
    <3> QED BY <3>1, <1>5, <1>9, <1>10 DEF At
  <2> QED BY <1>5, <1>10, <2>1, <2>2, SeqEqual
<1>12. Append(words, w) = SubSeq(ws, 1, n + 1)
  <2>1. Append(words, w) \in Seq(Seq(Byte)) /\ Len(Append(words, w)) = n + 1
    BY <1>1, <1>4
  <2>2. SubSeq(ws, 1, n + 1) \in Seq(Seq(Byte)) /\ Len(SubSeq(ws, 1, n + 1)) = n + 1
    OBVIOUS
  <2>3. ASSUME NEW i \in 1 .. n + 1 PROVE Append(words, w)[i] = SubSeq(ws, 1, n + 1)[i]
    <3>1. SubSeq(ws, 1, n + 1)[i] = ws[i]
      BY SMTT(30)
    <3>2. CASE i = n + 1
      BY <3>1, <3>2, <1>1, <1>4, <1>5
    <3>3. CASE i # n + 1
      <4>0. i \in 1 .. n /\ n <= Len(ws) /\ n \in Nat
        BY <3>3
      <4>1. Append(words, w)[i] = words[i]
        BY <4>0, <1>1, <1>4
      <4>2. SubSeq(ws, 1, n)[i] = ws[i]
        BY <4>0
      <4> QED BY <3>1, <4>1, <4>2, <1>2, <1>3, <1>4
    <3> QED BY <3>2, <3>3
  <2> QED BY <2>1, <2>2, <2>3, SeqEqual
<1>13. pos + size + 2 \in 0 .. arrived
  BY <1>1, <1>10 DEF BytesOK
<1> QED BY <1>2, <1>3, <1>4, <1>5, <1>8, <1>11, <1>12, <1>13

(* A message that has as many words as it says is a request, and the next  *)
(* message follows its last word.                                          *)
LEMMA RequestIsRead ==
    ASSUME IInv, Len(received) < Len(sent),
           get_count(Current.header) \in 1 .. Len(Current.words)
    PROVE  /\ IsRequest(Current) /\ get_count(Current.header) = Len(Current.words)
           /\ Start(sent, Len(received) + 1) = Begin + EndOfWords(Current, Len(Current.words))
<1>1. PICK m \in Messages : m = Current /\ Begin \in Nat
  BY CurrentLemma
<1>2. Len(m.words) \in Nat
  BY MessageLemma
<1>3. ~ Breaks(m)
  BY <1>1, <1>2 DEF Breaks, Refused
<1>4. IsRequest(m) /\ m.rest = <<>>
  BY <1>3, MessageLemma
<1>5. Len(Encoding[m]) = EndOfWords(m, Len(m.words))
  <2>1. Len(Encoding[m]) = EndOfWords(m, Len(m.words)) + Len(m.rest)
    BY EncodingLemma
  <2>2. EndOfWords(m, Len(m.words)) \in Nat
    BY EncodingLemma DEF At
  <2> QED BY <1>4, <2>1, <2>2
<1>6. get_count(m.header) = Len(m.words)
  BY <1>4 DEF IsRequest
<1> QED BY <1>1, <1>4, <1>5, <1>6, CurrentLemma

-----------------------------------------------------------------------------
(* The steps *)

(* At the start nothing was sent and nothing read. *)
LEMMA InitLemma == Init => IInv
<1> SUFFICES ASSUME Init PROVE IInv
  OBVIOUS
<1> USE DEF Init
<1>1. PartsOf(sent) = <<>> /\ FlattenSeq(<<>>) = <<>> /\ Len(<<>>) = 0
  BY DEF PartsOf, FlattenSeq
<1>2. TypeOK
  <2>1. ToSet(<<>>) = {}
    BY DEF ToSet
  <2>2. ToSet(sent) \subseteq Messages /\ ToSet(replies) \subseteq Replies
    BY <2>1
  <2>3. pos \in 0 .. arrived /\ arrived \in 0 .. Len(stream)
    BY <1>1
  <2> QED BY <2>2, <2>3 DEF TypeOK
<1>3. SequencesOK
  BY DEF SequencesOK
<1>4. StreamInv
  BY <1>1 DEF StreamInv
<1>5. ReaderInv
  <2>1. sent \in Seq(Messages) /\ Len(received) = 0
    OBVIOUS
  <2>2. Begin = 0
    BY <2>1, StreamLemma DEF Begin
  <2>3. ReceivedInv /\ BetweenInv
    BY <2>1, <2>2 DEF ReceivedInv, BetweenInv
  <2> QED BY <2>3 DEF ReaderInv, InsideInv, SizeInv, WordInv
<1> QED BY <1>2, <1>3, <1>4, <1>5 DEF IInv

(* A step that reads nothing keeps the reader where it is, if it is        *)
(* between two requests before and after the step, or closed then.         *)
LEMMA StayLemma ==
    ASSUME IInv, UNCHANGED <<sent, stream, pos, words, wanted, size, received>>,
           \/ pc' = pc
           \/ pc' = "closed"
           \/ {pc, pc'} \subseteq {"count", "call", "drain"}
    PROVE  StreamInv' /\ ReaderInv'
<1> USE DEF IInv, ReaderInv
<1>1. StreamInv'
  BY DEF StreamInv
<1>2. Current' = Current /\ Begin' = Begin
  BY DEF Current, Begin
<1>3. ReceivedInv'
  BY DEF ReceivedInv
<1>4. BetweenInv'
  BY <1>2 DEF BetweenInv
<1>5. InsideInv'
  BY <1>2 DEF InsideInv
<1>6. SizeInv'
  BY <1>2 DEF SizeInv
<1>7. WordInv'
  BY <1>2 DEF WordInv
<1> QED BY <1>1, <1>3, <1>4, <1>5, <1>6, <1>7

(* What the client sends moves nothing of what it has sent before. *)
LEMMA SendLemma ==
    ASSUME IInv, NEW m \in Messages, Send(m)
    PROVE  IInv'
<1> USE DEF Send, parserVars, replyVars
<1>1. sent \in Seq(Messages) /\ stream \in Seq(Byte) /\ Encoding[m] \in Seq(Byte)
  BY EncodingLemma DEF IInv, SequencesOK
<1>2. /\ sent' \in Seq(Messages) /\ Len(sent') = Len(sent) + 1
      /\ \A i \in 1 .. Len(sent) : sent'[i] = sent[i]
  BY <1>1
<1>3. stream' \in Seq(Byte) /\ Len(stream') = Len(stream) + Len(Encoding[m])
  BY <1>1
<1>4. SequencesOK'
  BY <1>2, <1>3 DEF IInv, SequencesOK
<1>5. TypeOK'
  <2>1. ToSet(sent') \subseteq Messages
    BY <1>2 DEF ToSet
  <2>2. arrived' \in 0 .. Len(stream') /\ pos' \in 0 .. arrived'
    BY <1>1, <1>3 DEF IInv, TypeOK
  <2> QED BY <2>1, <2>2 DEF IInv, TypeOK
<1>6. /\ FlattenSeq(PartsOf(sent')) = FlattenSeq(PartsOf(sent)) \o Encoding[m]
      /\ \A k \in 0 .. Len(sent) : Start(sent', k) = Start(sent, k)
  BY <1>1, SentLemma
<1>7. StreamInv'
  BY <1>6 DEF IInv, StreamInv
<1>8. Len(received) \in 0 .. Len(sent) /\ received' = received /\ Begin' = Begin
  <2>1. Len(received) \in 0 .. Len(sent)
    BY <1>1 DEF IInv, SequencesOK, ReaderInv, ReceivedInv
  <2> QED BY <2>1, <1>6 DEF Begin
<1>9. Len(received) < Len(sent) => Current' = Current
  BY <1>2, <1>8 DEF Current
<1>10. ReceivedInv'
  BY <1>1, <1>2, <1>8 DEF IInv, ReaderInv, ReceivedInv
<1>11. BetweenInv'
  BY <1>8 DEF IInv, ReaderInv, BetweenInv
<1>12. InsideInv'
  BY <1>1, <1>2, <1>8, <1>9 DEF IInv, ReaderInv, InsideInv
<1>13. SizeInv'
  BY <1>8, <1>9 DEF IInv, ReaderInv, InsideInv, SizeInv
<1>14. WordInv'
  BY <1>8, <1>9 DEF IInv, ReaderInv, InsideInv, WordInv
<1> QED BY <1>4, <1>5, <1>7, <1>10, <1>11, <1>12, <1>13, <1>14 DEF IInv, ReaderInv

(* More bytes arrive, or no more will. *)
LEMMA NetworkLemma ==
    ASSUME IInv, (\E n \in 1 .. Len(stream) : Deliver(n)) \/ EndOfStream
    PROVE  IInv'
<1> USE DEF Deliver, EndOfStream, parserVars, replyVars
<1>1. SequencesOK'
  BY DEF IInv, SequencesOK
<1>2. TypeOK'
  <2>1. Len(stream) \in Nat
    BY DEF IInv, SequencesOK
  <2>2. pos \in 0 .. arrived /\ arrived \in 0 .. Len(stream) /\ pos' = pos /\ stream' = stream
    BY DEF IInv, TypeOK
  <2>3. arrived' \in Nat /\ arrived <= arrived' /\ arrived' <= Len(stream) /\ ended' \in BOOLEAN
    <3>1. CASE \E n \in 1 .. Len(stream) : Deliver(n)
      BY <2>1, <2>2, <3>1 DEF IInv, TypeOK
    <3>2. CASE EndOfStream
      BY <2>1, <2>2, <3>2
    <3> QED BY <3>1, <3>2
  <2>4. arrived' \in 0 .. Len(stream') /\ pos' \in 0 .. arrived'
    BY <2>1, <2>2, <2>3
  <2> QED BY <2>3, <2>4 DEF IInv, TypeOK
<1>3. StreamInv' /\ ReaderInv'
  BY StayLemma
<1> QED BY <1>1, <1>2, <1>3 DEF IInv

(* A step that takes a line takes no more than has arrived. *)
LEMMA TakeLineLemma ==
    ASSUME IInv, TakeLine, arrived' = arrived
    PROVE  pos' \in 0 .. arrived'
BY BytesLemma, LineLemma DEF TakeLine

(* When the connection is closed the reader's position does not matter. *)
LEMMA CloseLemma ==
    ASSUME IInv, UNCHANGED <<sent, stream, received>>, pc' = "closed"
    PROVE  StreamInv' /\ ReaderInv'
<1>1. StreamInv' /\ ReceivedInv'
  BY DEF IInv, ReaderInv, StreamInv, ReceivedInv
<1> QED BY <1>1 DEF ReaderInv, BetweenInv, InsideInv, SizeInv, WordInv

(* create() reads how many words there are. *)
LEMMA ReadCountLemma ==
    ASSUME IInv, ReadCount
    PROVE  IInv'
<1> USE DEF ReadCount, Close, clientVars, replyVars
<1>1. pos' \in 0 .. arrived' /\ LineReady /\ pos' = pos + Len(line)
  BY TakeLineLemma DEF TakeLine
<1>2. CASE pc' = "closed" /\ UNCHANGED <<words, wanted>>
  <2>1. TypeOK' /\ SequencesOK'
    BY <1>1, <1>2 DEF IInv, TypeOK, SequencesOK
  <2> QED BY <1>2, <2>1, CloseLemma DEF IInv
<1>3. CASE /\ get_count(line) \notin {Refused, 0}
           /\ pc' = "size" /\ words' = <<>> /\ wanted' = get_count(line)
  <2>1. /\ Len(received) < Len(sent) /\ line = Current.header
        /\ get_count(line) \in Nat \ {0}
        /\ pos' = Begin + EndOfWords(Current, 0)
    BY <1>1, <1>3, CountIsRead
  <2>2. Current' = Current /\ Begin' = Begin
    BY DEF Current, Begin
  <2>3. TypeOK' /\ SequencesOK'
    BY <1>1, <1>3, <2>1 DEF IInv, TypeOK, SequencesOK
  <2>4. StreamInv' /\ ReceivedInv'
    BY DEF IInv, ReaderInv, StreamInv, ReceivedInv
  <2>5. InsideInv' /\ SizeInv'
    <3>1. Current.words \in Seq(Seq(Byte))
      BY <2>1, CurrentLemma, MessageLemma
    <3>2. Len(words') = 0 /\ words' = SubSeq(Current.words, 1, 0) /\ Len(Current.words) \in Nat
      BY <1>3, <3>1
    <3> QED BY <1>3, <2>1, <2>2, <3>2 DEF InsideInv, SizeInv
  <2>6. BetweenInv' /\ WordInv'
    BY <1>3 DEF BetweenInv, WordInv
  <2> QED BY <2>3, <2>4, <2>5, <2>6 DEF IInv, ReaderInv
<1> QED BY <1>2, <1>3

(* create() reads the size of the next word. *)
LEMMA ReadSizeLemma ==
    ASSUME IInv, ReadSize
    PROVE  IInv'
<1> USE DEF ReadSize, Close, clientVars, replyVars
<1>1. pos' \in 0 .. arrived' /\ LineReady /\ pos' = pos + Len(line)
  BY TakeLineLemma DEF TakeLine
<1>2. CASE pc' = "closed" /\ UNCHANGED size
  <2>1. TypeOK' /\ SequencesOK'
    BY <1>1, <1>2 DEF IInv, TypeOK, SequencesOK
  <2> QED BY <1>2, <2>1, CloseLemma DEF IInv
<1>3. CASE /\ get_binary_size(line) # Refused
           /\ pc' = "word" /\ size' = get_binary_size(line) /\ UNCHANGED reason
  <2>1. /\ Len(words) < Len(Current.words)
        /\ size' = Len(Current.words[Len(words) + 1])
        /\ line = HeaderLine("$", Decimal[size'])
    BY <1>1, <1>3, SizeIsRead
  <2>2. Current' = Current /\ Begin' = Begin
    BY DEF Current, Begin
  <2>3. size' \in Nat
    <3>1. line \in Seq(Byte)
      BY <1>1, BytesLemma, LineLemma
    <3>2. get_binary_size(line) \in Nat \cup {Refused}
      BY <3>1, HeaderType DEF get_binary_size
    <3> QED BY <1>3, <3>2
  <2>4. TypeOK' /\ SequencesOK'
    BY <1>1, <1>3, <2>3 DEF IInv, TypeOK, SequencesOK
  <2>5. StreamInv' /\ ReceivedInv'
    BY DEF IInv, ReaderInv, StreamInv, ReceivedInv
  <2>6. InsideInv'
    BY <1>3, <2>2 DEF IInv, ReaderInv, InsideInv
  <2>7. WordInv'
    <3>1. pos' = Begin + EndOfWords(Current, Len(words)) + Len(line)
      BY <1>1 DEF IInv, ReaderInv, SizeInv
    <3> QED BY <1>3, <2>1, <2>2, <3>1 DEF WordInv
  <2>8. BetweenInv' /\ SizeInv'
    BY <1>3 DEF BetweenInv, SizeInv
  <2> QED BY <2>4, <2>5, <2>6, <2>7, <2>8 DEF IInv, ReaderInv
<1> QED BY <1>2, <1>3

(* create() reads the next word; with the last one the request is          *)
(* dispatched.                                                             *)
LEMMA ReadWordLemma ==
    ASSUME IInv, ReadWord
    PROVE  IInv'
<1> USE DEF ReadWord, clientVars, replyVars
<1>1. PICK w \in Seq(Byte) :
          /\ w = SubSeq(buffer, 1, size) /\ words' = Append(words, w)
          /\ words' = SubSeq(Current.words, 1, Len(words) + 1)
          /\ Len(words) < Len(Current.words)
          /\ pos' \in 0 .. arrived'
          /\ pos' = Begin + EndOfWords(Current, Len(words) + 1)
  BY WordIsRead
<1>2. /\ words \in Seq(Seq(Byte)) /\ sent \in Seq(Messages) /\ received \in Seq(Seq(Seq(Byte)))
      /\ Len(received) \in Nat /\ Len(sent) \in Nat /\ Len(words) \in Nat
  BY DEF IInv, SequencesOK
<1>3. words' \in Seq(Seq(Byte)) /\ Len(words') = Len(words) + 1
  BY <1>1, <1>2
<1>4. /\ Len(received) < Len(sent)
      /\ wanted = get_count(Current.header) /\ wanted > Len(words) /\ wanted \in Nat
  BY DEF IInv, ReaderInv, InsideInv, TypeOK
<1>5. PICK m \in Messages : m = Current /\ m.words \in Seq(Seq(Byte)) /\ Len(m.words) \in Nat
  <2>1. Current \in Messages /\ Current.words \in Seq(Seq(Byte))
    BY <1>4, CurrentLemma, MessageLemma
  <2> QED BY <2>1
<1>6. StreamInv'
  BY DEF IInv, StreamInv
<1>7. CASE /\ Len(words') = wanted
           /\ pc' = "call" /\ received' = Append(received, words')
  <2>1. wanted \in 1 .. Len(m.words)
    BY <1>1, <1>2, <1>3, <1>4, <1>5, <1>7
  <2>2. /\ IsRequest(m) /\ wanted = Len(m.words)
        /\ Start(sent, Len(received) + 1) = Begin + EndOfWords(m, Len(m.words))
    BY <1>4, <1>5, <2>1, RequestIsRead
  <2>3. words' = m.words
    <3>1. words' = SubSeq(m.words, 1, Len(m.words))
      BY <1>1, <1>3, <1>5, <1>7, <2>2
    <3>2. PICK ws \in Seq(Seq(Byte)) : ws = m.words
      BY <1>5
    <3>3. SubSeq(ws, 1, Len(ws)) = ws
      OBVIOUS
    <3> QED BY <3>1, <3>2, <3>3
  <2>4. /\ received' \in Seq(Seq(Seq(Byte))) /\ Len(received') = Len(received) + 1
        /\ received'[Len(received) + 1] = words'
        /\ \A i \in 1 .. Len(received) : received'[i] = received[i]
    <3>1. PICK R, ws : R = Seq(Seq(Byte)) /\ ws = words' /\ ws \in R /\ received \in Seq(R)
      BY <1>2, <1>3
    <3>2. /\ Append(received, ws) \in Seq(R) /\ Len(Append(received, ws)) = Len(received) + 1
          /\ Append(received, ws)[Len(received) + 1] = ws
          /\ \A i \in 1 .. Len(received) : Append(received, ws)[i] = received[i]
      BY <3>1, SMTT(30)
    <3> QED BY <3>1, <3>2, <1>7, Zenon
  <2>5. TypeOK' /\ SequencesOK'
    BY <1>1, <1>3, <1>7, <2>4 DEF IInv, TypeOK, SequencesOK
  <2>6. ReceivedInv'
    <3>1. Len(received') <= Len(sent')
      BY <1>2, <1>4, <2>4
    <3>2. ASSUME NEW i \in 1 .. Len(received') PROVE IsRequest(sent'[i]) /\ received'[i] = sent'[i].words
      <4>1. CASE i = Len(received) + 1
        BY <4>1, <1>5, <2>2, <2>3, <2>4 DEF Current
      <4>2. CASE i # Len(received) + 1
        <5>1. i \in 1 .. Len(received)
          BY <4>2, <1>2, <2>4
        <5> QED BY <5>1, <2>4 DEF IInv, ReaderInv, ReceivedInv
      <4> QED BY <4>1, <4>2
    <3> QED BY <3>1, <3>2 DEF ReceivedInv
  <2>7. BetweenInv'
    <3>1. pos' = Start(sent, Len(received) + 1)
      BY <1>1, <1>3, <1>5, <1>7, <2>2
    <3> QED BY <2>4, <3>1 DEF BetweenInv, Begin
  <2> QED BY <1>6, <1>7, <2>5, <2>6, <2>7 DEF IInv, ReaderInv, InsideInv, SizeInv, WordInv
<1>8. CASE /\ Len(words') # wanted
           /\ pc' = "size" /\ UNCHANGED received
  <2>1. Current' = Current /\ Begin' = Begin
    BY <1>8 DEF Current, Begin
  <2>2. TypeOK' /\ SequencesOK'
    BY <1>1, <1>3, <1>8 DEF IInv, TypeOK, SequencesOK
  <2>3. ReceivedInv'
    BY <1>8 DEF IInv, ReaderInv, ReceivedInv
  <2>4. Len(words') <= Len(m.words) /\ wanted > Len(words')
    <3>1. /\ Len(words) \in Nat /\ Len(m.words) \in Nat /\ Len(words') = Len(words) + 1
          /\ wanted \in Nat /\ Len(words) < Len(m.words) /\ wanted > Len(words)
      BY <1>1, <1>2, <1>3, <1>4, <1>5
    <3> QED BY <1>8, <3>1
  <2>5. InsideInv'
    BY <1>1, <1>3, <1>4, <1>5, <1>8, <2>1, <2>4 DEF InsideInv
  <2>6. SizeInv'
    BY <1>1, <1>3, <2>1 DEF SizeInv
  <2> QED BY <1>6, <1>8, <2>2, <2>3, <2>5, <2>6 DEF IInv, ReaderInv, BetweenInv, WordInv
<1> QED BY <1>7, <1>8

(* The connection is closed instead: the word is cut off, or the timeout   *)
(* has passed, here or in drain().                                         *)
LEMMA GiveUpLemma ==
    ASSUME IInv, WordIsCutOff \/ ReadTimesOut \/ DrainFails
    PROVE  IInv'
<1> USE DEF WordIsCutOff, ReadTimesOut, DrainFails, Close, clientVars, parserVars, replyVars
<1>1. TypeOK' /\ SequencesOK'
  BY DEF IInv, TypeOK, SequencesOK
<1>2. StreamInv' /\ ReaderInv'
  BY CloseLemma
<1> QED BY <1>1, <1>2 DEF IInv

(* Writing keys leaves the connection at a drain(), or closed.             *)
LEMMA WriteKeysLemma ==
    ASSUME TypeOK, NEW before, NEW keys, WriteKeys(before, keys)
    PROVE  /\ pc' \in {"drain", "closed"}
           /\ reason' \in {"none", "eof", "format", "timeout", "write"}
BY DEF TypeOK, WriteKeys, Close

(* What is written changes nothing of what is read. *)
LEMMA ReplyLemma ==
    ASSUME IInv, (\E r \in Replies : Answer(r)) \/ DrainReturns
    PROVE  IInv'
<1> USE DEF clientVars, parserVars
<1>1. /\ UNCHANGED <<clientVars, parserVars>> /\ pc \in {"call", "drain"}
      /\ replies' \in Seq(Replies) /\ pc' \in {"count", "drain", "closed"}
      /\ reason' \in {"none", "eof", "format", "timeout", "write"}
  <2>1. TypeOK /\ replies \in Seq(Replies)
    BY DEF IInv, SequencesOK
  <2>2. ASSUME NEW r \in Replies, Answer(r)
        PROVE  /\ UNCHANGED <<clientVars, parserVars>> /\ pc = "call"
               /\ replies' \in Seq(Replies) /\ pc' \in {"drain", "closed"}
               /\ reason' \in {"none", "eof", "format", "timeout", "write"}
    <3>1. replies' \in Seq(Replies)
      BY <2>1, <2>2 DEF Answer
    <3>2. pc' \in {"drain", "closed"} /\ reason' \in {"none", "eof", "format", "timeout", "write"}
      <4>1. CASE r.kind \in {"KEYS", "SCAN"}
        BY <2>1, <2>2, <4>1, WriteKeysLemma DEF Answer
      <4>2. CASE r.kind \notin {"KEYS", "SCAN"}
        BY <2>1, <2>2, <4>2 DEF Answer, Close, TypeOK
      <4> QED BY <4>1, <4>2
    <3> QED BY <2>2, <3>1, <3>2 DEF Answer
  <2>3. ASSUME DrainReturns
        PROVE  /\ UNCHANGED <<clientVars, parserVars, replies>> /\ pc = "drain"
               /\ pc' \in {"count", "drain", "closed"}
               /\ reason' \in {"none", "eof", "format", "timeout", "write"}
    <3>1. CASE keysLeft = <<>>
      BY <2>1, <2>3, <3>1 DEF DrainReturns, TypeOK
    <3>2. CASE keysLeft # <<>>
      BY <2>1, <2>3, <3>2, WriteKeysLemma DEF DrainReturns
    <3> QED BY <3>1, <3>2
  <2> QED BY <2>1, <2>2, <2>3
<1>2. TypeOK' /\ SequencesOK'
  <2>1. ToSet(replies') \subseteq Replies
    BY <1>1 DEF ToSet
  <2> QED BY <1>1, <2>1 DEF IInv, TypeOK, SequencesOK
<1>3. StreamInv' /\ ReaderInv'
  BY <1>1, StayLemma
<1> QED BY <1>2, <1>3 DEF IInv

(* Every step keeps the invariant. *)
LEMMA NextLemma == IInv /\ [Next]_vars => IInv'
<1> SUFFICES ASSUME IInv, [Next]_vars PROVE IInv'
  OBVIOUS
<1>1. CASE UNCHANGED vars
  <2>1. TypeOK' /\ SequencesOK'
    BY <1>1 DEF vars, IInv, TypeOK, SequencesOK
  <2>2. StreamInv' /\ ReaderInv'
    BY <1>1, StayLemma DEF vars
  <2> QED BY <2>1, <2>2 DEF IInv
<1>2. CASE Next
  BY <1>2, SendLemma, NetworkLemma, ReadCountLemma, ReadSizeLemma, ReadWordLemma, GiveUpLemma,
     ReplyLemma DEF Next
<1> QED BY <1>1, <1>2

(* The inductive invariant holds in every reachable state. *)
LEMMA Invariance == Spec => []IInv
BY InitLemma, NextLemma, PTL DEF Spec

-----------------------------------------------------------------------------
(* What was read has arrived, what has arrived was sent, and counts and    *)
(* sizes are natural numbers.                                              *)
THEOREM TypeCorrect == Spec => []TypeOK
BY Invariance, PTL DEF IInv

(* What was dispatched is what was sent, up to the first message that is   *)
(* none.                                                                   *)
LEMMA IntactLemma == IInv => RequestsIntact
<1> SUFFICES ASSUME IInv PROVE RequestsIntact
  OBVIOUS
<1> DEFINE I == {i \in 1 .. Len(sent) : ~ IsRequest(sent[i])}
<1>1. /\ sent \in Seq(Messages) /\ received \in Seq(Seq(Seq(Byte)))
      /\ Len(received) \in Nat /\ Len(sent) \in Nat /\ Len(received) <= Len(sent)
      /\ \A i \in 1 .. Len(received) : IsRequest(sent[i]) /\ received[i] = sent[i].words
  BY DEF IInv, SequencesOK, ReaderInv, ReceivedInv
<1>2. PICK good : /\ good = IF I = {} THEN sent ELSE SubSeq(sent, 1, Min(I) - 1)
                  /\ WellFormed = [i \in DOMAIN good |-> good[i].words]
  <2>1. I # {} => Min(I) # 0
    <3>1. I # {} => Min(I) \in I
      <4>1. I \subseteq Nat
        OBVIOUS
      <4> HIDE DEF I
      <4> QED BY <4>1, NatMin DEF Min
    <3> QED BY <3>1
  <2> QED BY <2>1 DEF WellFormed, SelectInSeq
<1>3. /\ good \in Seq(Messages) /\ Len(received) <= Len(good) /\ Len(good) \in Nat
      /\ \A i \in 1 .. Len(good) : good[i] = sent[i]
  <2>1. CASE I = {}
    BY <1>1, <1>2, <2>1
  <2>2. CASE I # {}
    <3>1. Min(I) \in I
      <4>1. I \subseteq Nat
        OBVIOUS
      <4> HIDE DEF I
      <4> QED BY <2>2, <4>1, NatMin DEF Min
    <3>2. PICK n \in 1 .. Len(sent) : n = Min(I) /\ ~ IsRequest(sent[n])
      BY <3>1
    <3> HIDE DEF I
    <3>3. Len(received) < n
      <4>1. ~ (n \in 1 .. Len(received))
        BY <1>1, <3>2
      <4> QED BY <1>1, <4>1
    <3>4. good = SubSeq(sent, 1, n - 1) /\ n - 1 \in 0 .. Len(sent)
      BY <1>2, <2>2, <3>2
    <3>5. /\ good \in Seq(Messages) /\ Len(good) = n - 1
          /\ \A i \in 1 .. n - 1 : good[i] = sent[i]
      BY <1>1, <3>4
    <3> QED BY <1>1, <3>3, <3>5
  <2> QED BY <2>1, <2>2
<1>4. WellFormed = [i \in 1 .. Len(good) |-> good[i].words]
  <2>1. DOMAIN good = 1 .. Len(good)
    BY <1>3
  <2> HIDE DEF I
  <2> QED BY <1>2, <2>1
<1> HIDE DEF I
<1>5. PICK wf \in Seq(Seq(Seq(Byte))) :
          wf = WellFormed /\ Len(wf) = Len(good) /\ \A i \in 1 .. Len(good) : wf[i] = sent[i].words
  <2>1. \A i \in 1 .. Len(good) : good[i].words \in Seq(Seq(Byte))
    <3>1. \A i \in 1 .. Len(good) : good[i] \in Messages
      BY <1>3
    <3> QED BY <3>1, MessageLemma
  <2>2. PICK n, wf : n \in Nat /\ n = Len(good) /\ wf = WellFormed
    BY <1>3
  <2>3. wf = [i \in 1 .. n |-> good[i].words] /\ \A i \in 1 .. n : good[i].words \in Seq(Seq(Byte))
    BY <1>4, <2>1, <2>2
  <2>4. wf \in Seq(Seq(Seq(Byte))) /\ Len(wf) = n
    BY <2>2, <2>3
  <2>5. \A i \in 1 .. n : wf[i] = sent[i].words
    BY <1>3, <2>2, <2>3
  <2> QED BY <2>2, <2>4, <2>5
<1>6. SubSeq(received, 1, Len(received)) = SubSeq(wf, 1, Len(received))
  BY <1>1, <1>3, <1>5
<1> QED BY <1>1, <1>3, <1>5, <1>6 DEF RequestsIntact, IsPrefix

(* create() dispatches what was sent, word for word and in its order,      *)
(* whatever the words are and in whatever pieces they arrive, and nothing  *)
(* after garbage.                                                          *)
THEOREM RequestsAreIntact == Spec => []RequestsIntact
BY Invariance, IntactLemma, PTL

-----------------------------------------------------------------------------
(* What a client reads of the replies *)

(* A token: its mark and what it stands for. *)
Token == {"+", "-", "nil", ":", "$", "*"} \X (Int \cup Seq(Byte) \cup {Unwritable})

(* The tokens of words, and of keys. *)
WordTokens(ws) == [i \in DOMAIN ws |-> <<"$", ws[i]>>]

(* In b a client has read values, and nothing after them. *)
Idle(b, values) ==
    Reads(Byte, b, [next |-> Len(b), values |-> values, tokens |-> <<>>, owed |-> 0])

(* In b a client has read values and the tokens of another one, of which   *)
(* owed are still to come.                                                 *)
Within(b, values, tokens, owed) ==
    IF owed = 0 THEN Idle(b, Append(values, tokens))
    ELSE Reads(Byte, b, [next |-> Len(b), values |-> values, tokens |-> tokens, owed |-> owed])

(* In b a client has read values, and of the value m all but the keys.     *)
Lacks(b, values, m, keys) ==
    \E tokens \in Seq(Token) : Within(b, values, tokens, Len(keys)) /\ m = tokens \o WordTokens(keys)

(* What a client reads is bytes. *)
LEMMA IdleIsBytes ==
    ASSUME NEW b, NEW values, Idle(b, values)
    PROVE  b \in Seq(Byte)
BY DEF Idle, Reads, ReadsBy

(* So it is within a value. *)
LEMMA WithinIsBytes ==
    ASSUME NEW b, NEW values, NEW tokens, NEW owed, Within(b, values, tokens, owed)
    PROVE  b \in Seq(Byte)
BY IdleIsBytes DEF Within, Reads, ReadsBy

(* The first token of a value. *)
LEMMA FirstToken ==
    ASSUME NEW b, NEW values, Idle(b, values), NEW e, NEW t \in Token, Spells(Byte, e, t),
           NEW owed \in Nat, owed = IF t[1] = "*" THEN t[2] ELSE 0
    PROVE  Within(b \o e, values, <<t>>, owed)
<1>1. PICK s : /\ s = [next |-> Len(b), values |-> values, tokens |-> <<>>, owed |-> 0]
               /\ Reads(Byte, b, s)
  BY DEF Idle
<1>2. PICK c, s2 : c = b \o e /\ s2 = Take(s, t, Len(c)) /\ Reads(Byte, c, s2)
  BY <1>1, ReadsMore
<1>3. Append(s.tokens, t) = <<t>>
  BY <1>1
<1>4. 0 + owed = owed
  OBVIOUS
<1>5. s2 = IF owed = 0
           THEN [next |-> Len(c), values |-> Append(values, <<t>>), tokens |-> <<>>, owed |-> 0]
           ELSE [next |-> Len(c), values |-> values, tokens |-> <<t>>, owed |-> owed]
  BY <1>1, <1>2, <1>3, <1>4 DEF Take
<1> QED BY <1>2, <1>5 DEF Within, Idle

(* The next token of a value. *)
LEMMA NextToken ==
    ASSUME NEW b, NEW values, NEW tokens \in Seq(Token), NEW n \in Nat \ {0},
           Within(b, values, tokens, n),
           NEW e, NEW t \in Token, Spells(Byte, e, t),
           NEW owed \in Nat, owed = n - 1 + (IF t[1] = "*" THEN t[2] ELSE 0)
    PROVE  Within(b \o e, values, Append(tokens, t), owed)
<1>1. PICK s : /\ s = [next |-> Len(b), values |-> values, tokens |-> tokens, owed |-> n]
               /\ Reads(Byte, b, s)
  BY DEF Within
<1>2. PICK c, s2 : c = b \o e /\ s2 = Take(s, t, Len(c)) /\ Reads(Byte, c, s2)
  BY <1>1, ReadsMore
<1>3. s.owed = n /\ n # 0 /\ s.tokens = tokens /\ s.values = values
  BY <1>1
<1>5. s2 = IF owed = 0
           THEN [next |-> Len(c), values |-> Append(values, Append(tokens, t)), tokens |-> <<>>, owed |-> 0]
           ELSE [next |-> Len(c), values |-> values, tokens |-> Append(tokens, t), owed |-> owed]
  BY <1>2, <1>3 DEF Take
<1> QED BY <1>2, <1>5 DEF Within, Idle

(* One more word of a value. *)
LEMMA NextWord ==
    ASSUME NEW b, NEW values, NEW tokens \in Seq(Token), NEW n \in Nat \ {0},
           Within(b, values, tokens, n), NEW w \in Seq(Byte)
    PROVE  Within(b \o set_binary(w), values, Append(tokens, <<"$", w>>), n - 1)
<1>1. PICK t \in Token : t = <<"$", w>>
  BY DEF Token
<1>2. Spells(Byte, set_binary(w), t)
  BY <1>1, BytesAreMarks, WordSpells
<1>3. n - 1 \in Nat /\ n - 1 = n - 1 + (IF t[1] = "*" THEN t[2] ELSE 0)
  BY <1>1
<1> QED BY <1>1, <1>2, <1>3, NextToken

(* They are tokens, and those of the first key come first. *)
LEMMA WordTokensType ==
    ASSUME NEW ws \in Seq(Seq(Byte) \cup {Unwritable})
    PROVE  /\ WordTokens(ws) \in Seq(Token) /\ Len(WordTokens(ws)) = Len(ws)
           /\ \A i \in 1 .. Len(ws) : WordTokens(ws)[i] = <<"$", ws[i]>>
           /\ ws # <<>> => WordTokens(ws) = << <<"$", Head(ws)>> >> \o WordTokens(Tail(ws))
<1>1. \A i \in 1 .. Len(ws) : <<"$", ws[i]>> \in Token
  BY DEF Token
<1>2. WordTokens(ws) = [i \in 1 .. Len(ws) |-> <<"$", ws[i]>>]
  BY DEF WordTokens
<1>3. WordTokens(ws) \in Seq(Token) /\ Len(WordTokens(ws)) = Len(ws)
  BY <1>1, <1>2
<1>4. ASSUME ws # <<>> PROVE WordTokens(ws) = << <<"$", Head(ws)>> >> \o WordTokens(Tail(ws))
  <2>1. PICK n \in Nat : Len(ws) = n + 1
    <3>1. Len(ws) - 1 \in Nat /\ Len(ws) = (Len(ws) - 1) + 1
      BY <1>4
    <3> QED BY <3>1
  <2>2. PICK h \in Seq(Byte) \cup {Unwritable}, r \in Seq(Seq(Byte) \cup {Unwritable}) :
            h = ws[1] /\ h = Head(ws) /\ r = Tail(ws) /\ Len(r) = n /\ \A i \in 1 .. n : r[i] = ws[i + 1]
    <3>1. ws[1] \in Seq(Byte) \cup {Unwritable} /\ ws[1] = Head(ws)
      BY <1>4, <2>1
    <3>2. /\ Tail(ws) \in Seq(Seq(Byte) \cup {Unwritable}) /\ Len(Tail(ws)) = n
          /\ \A i \in 1 .. n : Tail(ws)[i] = ws[i + 1]
      BY <1>4, <2>1
    <3> QED BY <3>1, <3>2
  <2>3. PICK t \in Token : t = <<"$", h>>
    BY <2>2 DEF Token
  <2>4. PICK v : v = WordTokens(r)
    OBVIOUS
  <2>5. v = [i \in 1 .. n |-> <<"$", r[i]>>]
    BY <2>2, <2>4 DEF WordTokens
  <2>6. \A i \in 1 .. n : <<"$", r[i]>> \in Token
    BY <2>2 DEF Token
  <2>7. v \in Seq(Token) /\ Len(v) = n /\ \A i \in 1 .. n : v[i] = <<"$", ws[i + 1]>>
    BY <2>2, <2>5, <2>6
  <2>8. PICK u \in Seq(Token) : u = <<t>> \o v
    <3>0. <<t>> \in Seq(Token)
      OBVIOUS
    <3>1. PICK x \in Seq(Token), y \in Seq(Token) : x = <<t>> /\ y = v
      BY <2>7, <3>0
    <3>2. x \o y \in Seq(Token)
      OBVIOUS
    <3> QED BY <3>1, <3>2
  <2>9. Len(u) = n + 1 /\ u[1] = t /\ \A i \in 1 .. n : u[i + 1] = v[i]
    BY <2>7, <2>8
  <2>10. ASSUME NEW i \in 1 .. n + 1 PROVE u[i] = WordTokens(ws)[i]
    <3>1. CASE i = 1
      BY <3>1, <1>2, <2>1, <2>2, <2>3, <2>9
    <3>2. CASE i # 1
      <4>1. i - 1 \in 1 .. n /\ (i - 1) + 1 = i
        BY <3>2
      <4>2. u[i] = v[i - 1]
        BY <4>1, <2>9
      <4>3. v[i - 1] = <<"$", ws[i]>>
        BY <4>1, <2>7
      <4>4. WordTokens(ws)[i] = <<"$", ws[i]>>
        BY <1>2, <2>1
      <4> QED BY <4>2, <4>3, <4>4
    <3> QED BY <3>1, <3>2
  <2>11. u = WordTokens(ws)
    BY <1>3, <2>1, <2>9, <2>10, SeqEqual
  <2> QED BY <2>2, <2>3, <2>4, <2>8, <2>11, SMTT(30)
<1> QED BY <1>2, <1>3, <1>4

(* Words that are written at once are read one after the other, and what   *)
(* is owed besides them stays owed.                                        *)
LEMMA WordsAreRead ==
    ASSUME NEW b, NEW values, NEW tokens \in Seq(Token), NEW ws \in Seq(Seq(Byte)),
           NEW owed \in Nat, Len(ws) <= owed, Within(b, values, tokens, owed)
    PROVE  Within(b \o WordsOf(ws), values, tokens \o WordTokens(ws), owed - Len(ws))
<1>1. b \in Seq(Byte)
  BY WithinIsBytes
<1>2. PICK N \in Nat : N = Len(ws)
  OBVIOUS
<1>3. ws \in Seq(Seq(Byte) \cup {Unwritable})
  OBVIOUS
<1>4. PICK v \in Seq(Token) : v = WordTokens(ws) /\ Len(v) = N /\ \A i \in 1 .. N : v[i] = <<"$", ws[i]>>
  BY <1>2, <1>3, WordTokensType
<1> DEFINE After(n) == Within(b \o WordsOf(SubSeq(ws, 1, n)), values, tokens \o SubSeq(v, 1, n), owed - n)
           T == {n \in Nat : n <= N => After(n)}
<1>5. 0 \in T
  <2>1. WordsOf(SubSeq(ws, 1, 0)) = <<>>
    <3>1. SubSeq(ws, 1, 0) = <<>>
      OBVIOUS
    <3> QED BY <3>1, WordsLemma
  <2>2. b \o <<>> = b /\ SubSeq(v, 1, 0) = <<>> /\ tokens \o <<>> = tokens /\ owed - 0 = owed
    BY <1>1
  <2>3. After(0)
    BY <1>2, <2>1, <2>2
  <2> QED BY <2>3
<1>6. ASSUME NEW n \in Nat, n \in T PROVE n + 1 \in T
  <2> SUFFICES ASSUME n + 1 <= N PROVE After(n + 1)
    OBVIOUS
  <2>1. n \in 0 .. Len(ws) - 1
    BY <1>2
  <2>2. PICK w \in Seq(Byte) : w = ws[n + 1]
    BY <2>1
  <2>3. PICK u \in Seq(Byte) : /\ u = WordsOf(SubSeq(ws, 1, n))
                               /\ WordsOf(SubSeq(ws, 1, n + 1)) = u \o set_binary(w)
    BY <2>1, <2>2, WordsLemma
  <2>4. PICK e \in Seq(Byte) : e = set_binary(w)
    BY WordLemma
  <2>5. b \o (u \o e) = (b \o u) \o e
    <3>1. PICK q \in Seq(Byte), p \in Seq(Byte) : q = u \o e /\ p = b \o u
      <4>1. u \o e \in Seq(Byte) /\ b \o u \in Seq(Byte)
        BY <1>1
      <4> QED BY <4>1
    <3>2. PICK a : a = b \o q
      OBVIOUS
    <3>3. Joins(p, b, u) /\ Joins(q, u, e) /\ Joins(a, b, q)
      BY <3>1, <3>2 DEF Joins
    <3>4. Joins(a, p, e)
      BY <1>1, <3>3, JoinsLeft
    <3> QED BY <3>1, <3>2, <3>4 DEF Joins
  <2>6. PICK y \in Seq(Token), x \in Token :
            /\ y = SubSeq(v, 1, n) /\ x = v[n + 1] /\ x = <<"$", w>>
            /\ SubSeq(v, 1, n + 1) = Append(y, x)
    <3>1. n \in 0 .. Len(v) - 1 /\ n + 1 \in 1 .. N
      BY <1>2, <1>4, <2>1
    <3>2. v[n + 1] = <<"$", w>>
      BY <1>4, <2>2, <3>1
    <3> QED BY <3>1, <3>2, BeginGrows
  <2>7. PICK t \in Seq(Token) : t = tokens \o y /\ tokens \o Append(y, x) = Append(t, x)
    <3>1. tokens \o y \in Seq(Token) /\ tokens \o Append(y, x) = Append(tokens \o y, x)
      OBVIOUS
    <3> QED BY <3>1
  <2>8. Within(b \o u, values, t, owed - n) /\ owed - n \in Nat \ {0} /\ (owed - n) - 1 = owed - (n + 1)
    BY <1>2, <1>6, <2>3, <2>6, <2>7
  <2>9. Within((b \o u) \o e, values, Append(t, <<"$", w>>), (owed - n) - 1)
    BY <2>4, <2>8, NextWord
  <2> QED BY <2>3, <2>4, <2>5, <2>6, <2>7, <2>8, <2>9
<1>7. After(N)
  <2>1. Nat \subseteq T
    <3> HIDE DEF T
    <3> QED BY <1>5, <1>6, SetInduction
  <2> QED BY <2>1
<1>8. SubSeq(ws, 1, N) = ws /\ SubSeq(v, 1, N) = v
  BY <1>2, <1>4
<1> QED BY <1>2, <1>4, <1>7, <1>8

(* The line that counts the elements of an array. *)
LEMMA CountSpells ==
    ASSUME NEW n \in Nat
    PROVE  <<"*", n>> \in Token /\ Spells(Byte, set_count(n), <<"*", n>>)
<1>1. Text(n) = Decimal[n] /\ n \in Int
  BY TextIsRead
<1>2. set_count(n) = HeaderLine("*", Text(n))
  BY <1>1 DEF set_count, HeaderLine
<1>3. Spells(Byte, HeaderLine("*", Text(n)), <<"*", n>>)
  BY <1>1, BytesAreMarks, IntSpells
<1> QED BY <1>1, <1>2, <1>3 DEF Token

(* A value of one token. *)
LEMMA OneToken ==
    ASSUME NEW b, NEW values, Idle(b, values), NEW e, NEW t \in Token, Spells(Byte, e, t), t[1] # "*"
    PROVE  Lacks(b \o e, values, <<t>>, <<>>)
<1>1. Within(b \o e, values, <<t>>, 0)
  BY FirstToken
<1>2. PICK ts \in Seq(Token) : ts = <<t>>
  <2>1. <<t>> \in Seq(Token)
    OBVIOUS
  <2> QED BY <2>1
<1>3. WordTokens(<<>>) = <<>> /\ ts \o <<>> = ts /\ Len(<<>>) = 0
  BY DEF WordTokens
<1> QED BY <1>1, <1>2, <1>3 DEF Lacks

(* The first words of an array leave the others owed. *)
LEMMA ArrayBeginIsRead ==
    ASSUME NEW b, NEW values, Idle(b, values), NEW n \in Nat,
           NEW ws \in Seq(Seq(Byte)), Len(ws) <= n
    PROVE  Within(b \o (set_count(n) \o WordsOf(ws)), values, << <<"*", n>> >> \o WordTokens(ws),
                  n - Len(ws))
<1>1. PICK h, e : h = set_count(n) /\ e = WordsOf(ws)
  OBVIOUS
<1>2. PICK t \in Token : t = <<"*", n>> /\ Spells(Byte, h, t)
  BY <1>1, CountSpells
<1>3. b \in Seq(Byte) /\ h \in Seq(Byte) /\ e \in Seq(Byte)
  BY <1>1, <1>2, IdleIsBytes, WordsLemma DEF Spells
<1>4. Within(b \o h, values, <<t>>, n)
  <2>1. n = IF t[1] = "*" THEN t[2] ELSE 0
    BY <1>2
  <2> QED BY <1>2, <2>1, FirstToken
<1>5. PICK ts \in Seq(Token) : ts = <<t>>
  <2>1. <<t>> \in Seq(Token)
    OBVIOUS
  <2> QED BY <2>1
<1>6. Within((b \o h) \o e, values, ts \o WordTokens(ws), n - Len(ws))
  BY <1>1, <1>4, <1>5, WordsAreRead
<1>7. (b \o h) \o e = b \o (h \o e)
  <2>1. PICK p \in Seq(Byte), q \in Seq(Byte) : p = b \o h /\ q = h \o e
    <3>1. b \o h \in Seq(Byte) /\ h \o e \in Seq(Byte)
      BY <1>3
    <3> QED BY <3>1
  <2>2. PICK a : a = p \o e
    OBVIOUS
  <2>3. Joins(p, b, h) /\ Joins(q, h, e) /\ Joins(a, p, e)
    BY <2>1, <2>2 DEF Joins
  <2>4. Joins(a, b, q)
    BY <1>3, <2>3, JoinsRight
  <2> QED BY <2>1, <2>2, <2>4 DEF Joins
<1> QED BY <1>1, <1>2, <1>5, <1>6, <1>7

(* A reply in which a word cannot be written. *)
CutShort(r) == r.kind = "array" /\ Unwritable \in ToSet(r.value)

(* The words of an array up to there. *)
LEMMA WritableLemma ==
    ASSUME NEW r \in Replies, r.kind = "array"
    PROVE  /\ Writable(r) \in Seq(Seq(Byte)) /\ Len(r.value) \in Nat
           /\ IF CutShort(r) THEN Len(Writable(r)) < Len(r.value) ELSE Writable(r) = r.value
<1>1. IsReply(r)
  BY StreamAssumption
<1>2. PICK ws \in Seq(Seq(Byte) \cup {Unwritable}), n \in Nat : ws = r.value /\ n = Len(ws)
  <2>1. r.value \in Seq(Seq(Byte) \cup {Unwritable})
    BY <1>1 DEF IsReply
  <2>2. Len(r.value) \in Nat
    BY <2>1
  <2> QED BY <2>1, <2>2
<1> DEFINE I == {i \in 1 .. n : ws[i] = Unwritable}
<1>3. I # {} => Min(I) \in I /\ \A j \in I : Min(I) <= j
  <2>1. I \subseteq Nat
    OBVIOUS
  <2> HIDE DEF I
  <2> QED BY <2>1, NatMin DEF Min
<1>4. Writable(r) = IF I = {} THEN ws ELSE SubSeq(ws, 1, Min(I) - 1)
  <2>1. I # {} => Min(I) # 0
    BY <1>3
  <2> QED BY <1>2, <2>1 DEF Writable, SelectInSeq
<1>5. CutShort(r) <=> I # {}
  BY <1>2 DEF CutShort, ToSet
<1>6. CASE I = {}
  <2>1. \A i \in 1 .. n : ws[i] \in Seq(Byte)
    BY <1>2, <1>6
  <2>2. ws \in Seq(Seq(Byte))
    BY <1>2, <2>1
  <2> QED BY <1>2, <1>4, <1>5, <1>6, <2>2
<1>7. CASE I # {}
  <2>1. PICK k \in 0 .. n : k < n /\ k = Min(I) - 1 /\ \A i \in 1 .. k : i \notin I
    <3>1. PICK m \in 1 .. n : m = Min(I) /\ \A j \in I : m <= j
      BY <1>3, <1>7
    <3> HIDE DEF I
    <3>2. m - 1 \in 0 .. n /\ m - 1 < n
      OBVIOUS
    <3>3. ASSUME NEW i \in 1 .. m - 1 PROVE i \notin I
      BY <3>1
    <3> QED BY <3>1, <3>2, <3>3
  <2>2. \A i \in 1 .. k : ws[i] \in Seq(Byte)
    BY <1>2, <2>1
  <2>3. PICK v \in Seq(Seq(Byte) \cup {Unwritable}) :
            v = SubSeq(ws, 1, k) /\ Len(v) = k /\ \A i \in 1 .. k : v[i] = ws[i]
    <3>1. k \in 0 .. Len(ws)
      BY <1>2
    <3> HIDE DEF I
    <3>2. /\ SubSeq(ws, 1, k) \in Seq(Seq(Byte) \cup {Unwritable}) /\ Len(SubSeq(ws, 1, k)) = k
          /\ \A i \in 1 .. k : SubSeq(ws, 1, k)[i] = ws[i]
      BY <3>1
    <3> QED BY <3>2
  <2>4. v \in Seq(Seq(Byte))
    BY <2>2, <2>3
  <2> HIDE DEF I
  <2> QED BY <1>2, <1>4, <1>5, <1>7, <2>1, <2>3, <2>4
<1> QED BY <1>6, <1>7

(* A reply that is written at once is read as what it means, and nothing   *)
(* is read of one that is cut short.                                       *)
LEMMA WholeReplyIsRead ==
    ASSUME NEW b, NEW values, Idle(b, values), NEW r \in Replies, r.kind \notin {"KEYS", "SCAN"}
    PROVE  IF CutShort(r) THEN ReadAll(b \o WholeReply(r)) = values
           ELSE Lacks(b \o WholeReply(r), values, Meaning(r), <<>>)
<1>0. CutShort(r) => r.kind = "array"
  BY DEF CutShort
<1>1. IsReply(r) /\ Marks \subseteq Byte
  BY StreamAssumption, BytesAreMarks
<1>2. CASE r.kind \in {"ok", "err"}
  <2>1. PICK x \in Seq(Byte) : x = r.value /\ CR \notin ToSet(x)
    BY <1>1, <1>2 DEF IsReply
  <2>2. NoCR(x)
    BY <2>1 DEF NoCR, ToSet
  <2>3. CASE r.kind = "ok"
    <3>1. WholeReply(r) = HeaderLine("+", x) /\ Meaning(r) = << <<"+", x>> >>
      BY <2>1, <2>3 DEF WholeReply, Meaning, set_ok, HeaderLine
    <3>2. PICK t \in Token : t = <<"+", x>>
      BY DEF Token
    <3>3. Spells(Byte, HeaderLine("+", x), t)
      BY <1>1, <2>2, <3>2, TextSpells
    <3>4. t[1] # "*"
      BY <3>2
    <3> QED BY <1>0, <1>2, <3>1, <3>2, <3>3, <3>4, OneToken
  <2>4. CASE r.kind = "err"
    <3>1. WholeReply(r) = HeaderLine("-", x) /\ Meaning(r) = << <<"-", x>> >>
      BY <2>1, <2>4 DEF WholeReply, Meaning, set_err, HeaderLine
    <3>2. PICK t \in Token : t = <<"-", x>>
      BY DEF Token
    <3>3. Spells(Byte, HeaderLine("-", x), t)
      BY <1>1, <2>2, <3>2, TextSpells
    <3>4. t[1] # "*"
      BY <3>2
    <3> QED BY <1>0, <1>2, <3>1, <3>2, <3>3, <3>4, OneToken
  <2> QED BY <1>2, <2>3, <2>4
<1>3. CASE r.kind = "nil"
  <2>1. WholeReply(r) = set_nil /\ Meaning(r) = << <<"nil", <<>>>> >>
    BY <1>3 DEF WholeReply, Meaning
  <2>2. PICK t \in Token : t = <<"nil", <<>>>>
    <3>1. <<>> \in Seq(Byte)
      OBVIOUS
    <3> QED BY <3>1 DEF Token
  <2>3. Spells(Byte, set_nil, t)
    BY <1>1, <2>2, NilSpells
  <2>4. t[1] # "*"
    BY <2>2
  <2> QED BY <1>0, <1>3, <2>1, <2>2, <2>3, <2>4, OneToken
<1>4. CASE r.kind = "int"
  <2>1. PICK n \in Int : n = r.value
    BY <1>1, <1>4 DEF IsReply
  <2>2. WholeReply(r) = HeaderLine(":", Text(n)) /\ Meaning(r) = << <<":", n>> >>
    BY <1>4, <2>1 DEF WholeReply, Meaning, set_integer, HeaderLine
  <2>3. PICK t \in Token : t = <<":", n>>
    BY DEF Token
  <2>4. Spells(Byte, HeaderLine(":", Text(n)), t)
    BY <1>1, <2>3, IntSpells
  <2>5. t[1] # "*"
    BY <2>3
  <2> QED BY <1>0, <1>4, <2>2, <2>3, <2>4, <2>5, OneToken
<1>5. CASE r.kind = "word"
  <2>1. PICK w \in Seq(Byte) : w = r.value
    BY <1>1, <1>5 DEF IsReply
  <2>2. WholeReply(r) = set_binary(w) /\ Meaning(r) = << <<"$", w>> >>
    BY <1>5, <2>1 DEF WholeReply, Meaning
  <2>3. PICK t \in Token : t = <<"$", w>>
    BY DEF Token
  <2>4. Spells(Byte, set_binary(w), t)
    BY <1>1, <2>3, WordSpells
  <2>5. t[1] # "*"
    BY <2>3
  <2> QED BY <1>0, <1>5, <2>2, <2>3, <2>4, <2>5, OneToken
<1>6. CASE r.kind = "array"
  <2>1. PICK n \in Nat, ws \in Seq(Seq(Byte)) : n = Len(r.value) /\ ws = Writable(r)
    BY <1>6, WritableLemma
  <2>2. IF CutShort(r) THEN Len(ws) < n ELSE ws = r.value
    BY <1>6, <2>1, WritableLemma
  <2>3. PICK a : a = b \o WholeReply(r) /\ a = b \o (set_count(n) \o WordsOf(ws))
    BY <1>6, <2>1 DEF WholeReply
  <2>4. PICK one \in Seq(Token), v \in Seq(Token) : one = << <<"*", n>> >> /\ v = WordTokens(ws)
    <3>1. ws \in Seq(Seq(Byte) \cup {Unwritable})
      OBVIOUS
    <3>2. PICK t \in Token : t = <<"*", n>>
      BY CountSpells
    <3>3. <<t>> \in Seq(Token)
      OBVIOUS
    <3> QED BY <3>1, <3>2, <3>3, WordTokensType
  <2>5. Within(a, values, one \o v, n - Len(ws))
    <3>1. Len(ws) <= n
      BY <2>1, <2>2
    <3> QED BY <2>3, <2>4, <3>1, ArrayBeginIsRead
  <2>6. CASE CutShort(r)
    <3>1. n - Len(ws) # 0
      BY <2>2, <2>6
    <3>2. PICK s : Reads(Byte, a, s) /\ s.values = values
      BY <2>5, <3>1 DEF Within
    <3> QED BY <2>3, <2>6, <3>2, ReadsAll
  <2>7. CASE ~CutShort(r)
    <3>1. n - Len(ws) = 0 /\ ws = r.value
      BY <2>1, <2>2, <2>7
    <3>2. Meaning(r) = one \o v
      BY <1>6, <2>1, <2>4, <3>1 DEF Meaning, Keys, WordTokens
    <3>3. PICK m \in Seq(Token) : m = one \o v
      <4>1. one \o v \in Seq(Token)
        OBVIOUS
      <4> QED BY <4>1
    <3>4. WordTokens(<<>>) = <<>> /\ m \o <<>> = m /\ Len(<<>>) = 0
      BY DEF WordTokens
    <3> QED BY <2>3, <2>5, <2>7, <3>1, <3>2, <3>3, <3>4 DEF Lacks
  <2> QED BY <2>6, <2>7
<1> QED BY <1>1, <1>2, <1>3, <1>4, <1>5, <1>6 DEF IsReply

(* After the header of KEYS or SCAN only the keys are left. *)
LEMMA KeysHeaderIsRead ==
    ASSUME NEW b, NEW values, Idle(b, values), NEW r \in Replies, r.kind \in {"KEYS", "SCAN"}
    PROVE  Lacks(b \o KeysHeader(r), values, Meaning(r), r.value)
<1>1. PICK ks \in Seq(Seq(Byte) \cup {Unwritable}), n \in Nat : ks = r.value /\ n = Len(ks)
  <2>1. IsReply(r)
    BY StreamAssumption
  <2>2. r.value \in Seq(Seq(Byte) \cup {Unwritable})
    BY <2>1 DEF IsReply
  <2>3. Len(r.value) \in Nat
    BY <2>2
  <2> QED BY <2>2, <2>3
<1>2. PICK t \in Token : t = <<"*", n>>
  BY CountSpells
<1>3. PICK h : h = set_count(n) /\ Spells(Byte, h, t)
  BY <1>2, CountSpells
<1>4. h \in Seq(Byte) /\ b \in Seq(Byte)
  BY <1>3, IdleIsBytes DEF Spells
<1>5. PICK ts \in Seq(Token) : ts = <<t>>
  <2>1. <<t>> \in Seq(Token)
    OBVIOUS
  <2> QED BY <2>1
<1>6. PICK v \in Seq(Token) : v = WordTokens(ks)
  BY WordTokensType
<1>7. Keys(r) = ts \o v
  BY <1>1, <1>2, <1>5, <1>6 DEF Keys, WordTokens
<1>8. CASE r.kind = "KEYS"
  <2>1. Within(b \o h, values, ts, n)
    <3>1. n = IF t[1] = "*" THEN t[2] ELSE 0
      BY <1>2
    <3> QED BY <1>3, <1>5, <3>1, FirstToken
  <2>2. KeysHeader(r) = h
    <3>1. <<>> \o h = h
      BY <1>4
    <3> QED BY <1>1, <1>3, <1>8, <3>1 DEF KeysHeader
  <2>3. Meaning(r) = ts \o v
    BY <1>7, <1>8 DEF Meaning
  <2> QED BY <1>1, <1>6, <2>1, <2>2, <2>3 DEF Lacks
<1>9. CASE r.kind = "SCAN"
  <2>1. PICK two \in Token : two = <<"*", 2>>
    BY CountSpells
  <2>2. PICK a \in Seq(Byte) : a = set_count(2) /\ Spells(Byte, a, two)
    BY <2>1, CountSpells DEF Spells
  <2>3. PICK cursor \in Seq(Byte) : cursor = Text(0)
    <3>1. Text(0) \in Seq(Digits \cup {"-"})
      BY TextIsRead
    <3>2. Digits \cup {"-"} \subseteq Byte
      BY BytesAreMarks DEF Marks
    <3> QED BY <3>1, <3>2
  <2>4. PICK e \in Seq(Byte) : e = set_binary(cursor)
    BY WordLemma
  <2>5. PICK zero \in Token : zero = <<"$", cursor>>
    BY DEF Token
  <2>6. PICK t1 \in Seq(Token) : t1 = <<two>>
    <3>1. <<two>> \in Seq(Token)
      OBVIOUS
    <3> QED BY <3>1
  <2>7. Within(b \o a, values, t1, 2)
    <3>1. 2 = IF two[1] = "*" THEN two[2] ELSE 0
      BY <2>1
    <3> QED BY <2>2, <2>6, <3>1, FirstToken
  <2>8. PICK t2 \in Seq(Token) : t2 = Append(t1, zero)
    <3>1. Append(t1, zero) \in Seq(Token)
      OBVIOUS
    <3> QED BY <3>1
  <2>9. Within((b \o a) \o e, values, t2, 1)
    <3>1. 2 \in Nat \ {0} /\ 2 - 1 = 1
      OBVIOUS
    <3>2. Within((b \o a) \o set_binary(cursor), values, Append(t1, <<"$", cursor>>), 2 - 1)
      BY <2>7, <3>1, NextWord
    <3> QED BY <2>4, <2>5, <2>8, <3>1, <3>2
  <2>10. PICK t3 \in Seq(Token) : t3 = Append(t2, t)
    <3>1. Append(t2, t) \in Seq(Token)
      OBVIOUS
    <3> QED BY <3>1
  <2>11. Within(((b \o a) \o e) \o h, values, t3, n)
    <3>1. 1 \in Nat \ {0} /\ n = 1 - 1 + (IF t[1] = "*" THEN t[2] ELSE 0)
      BY <1>2
    <3> QED BY <1>3, <2>9, <2>10, <3>1, NextToken
  <2>12. b \o KeysHeader(r) = ((b \o a) \o e) \o h
    <3>1. KeysHeader(r) = (a \o e) \o h
      BY <1>1, <1>3, <1>9, <2>2, <2>3, <2>4 DEF KeysHeader
    <3>2. PICK x \in Seq(Byte) : x = a \o e /\ Joins(x, a, e)
      <4>1. a \o e \in Seq(Byte)
        OBVIOUS
      <4> QED BY <4>1 DEF Joins
    <3>3. PICK b1 \in Seq(Byte) : b1 = b \o a /\ Joins(b1, b, a)
      <4>1. b \o a \in Seq(Byte)
        BY <1>4
      <4> QED BY <4>1 DEF Joins
    <3>4. PICK b2 \in Seq(Byte) : b2 = b1 \o e /\ Joins(b2, b1, e)
      <4>1. b1 \o e \in Seq(Byte)
        OBVIOUS
      <4> QED BY <4>1 DEF Joins
    <3>5. PICK x2 \in Seq(Byte) : x2 = x \o h /\ Joins(x2, x, h)
      <4>1. x \o h \in Seq(Byte)
        BY <1>4
      <4> QED BY <4>1 DEF Joins
    <3>6. Joins(b2, b, x)
      <4>1. Joins(b1, b, a) /\ Joins(x, a, e) /\ Joins(b2, b1, e) /\ b \in Seq(Byte)
        BY <1>4, <3>2, <3>3, <3>4
      <4> QED BY <4>1, JoinsRight, SMTT(30)
    <3>7. PICK b3 : b3 = b2 \o h /\ Joins(b3, b2, h)
      BY DEF Joins
    <3>8. Joins(b3, b, x2)
      <4>1. Joins(b2, b, x) /\ Joins(x2, x, h) /\ Joins(b3, b2, h) /\ b \in Seq(Byte) /\ h \in Seq(Byte)
        BY <1>4, <3>5, <3>6, <3>7
      <4> QED BY <4>1, JoinsRight, SMTT(30)
    <3> QED BY <3>1, <3>2, <3>3, <3>4, <3>5, <3>7, <3>8 DEF Joins
  <2>13. Meaning(r) = t3 \o v
    <3>1. Meaning(r) = <<two, zero>> \o (ts \o v)
      BY <1>7, <1>9, <2>1, <2>3, <2>5 DEF Meaning
    <3>2. <<two, zero>> = t2
      BY <2>6, <2>8
    <3>3. Joins(t3, t2, ts)
      BY <1>5, <2>10, Appended
    <3>4. PICK q \in Seq(Token) : q = ts \o v /\ Joins(q, ts, v)
      <4>1. ts \o v \in Seq(Token)
        OBVIOUS
      <4> QED BY <4>1 DEF Joins
    <3>5. PICK m : m = t3 \o v /\ Joins(m, t3, v)
      BY DEF Joins
    <3>6. Joins(m, t2, q)
      <4>1. Joins(t3, t2, ts) /\ Joins(q, ts, v) /\ Joins(m, t3, v)
        BY <3>3, <3>4, <3>5
      <4> QED BY <4>1, JoinsRight
    <3> QED BY <3>1, <3>2, <3>4, <3>5, <3>6 DEF Joins
  <2> QED BY <1>1, <1>6, <2>11, <2>12, <2>13 DEF Lacks
<1> QED BY <1>8, <1>9

(* With one more key written it lacks one less. *)
LEMMA KeyIsRead ==
    ASSUME NEW b, NEW values, NEW m, NEW keys \in Seq(Seq(Byte) \cup {Unwritable}), keys # <<>>,
           Lacks(b, values, m, keys), Head(keys) # Unwritable
    PROVE  Lacks(b \o set_binary(Head(keys)), values, m, Tail(keys))
<1>1. PICK ts \in Seq(Token) : Within(b, values, ts, Len(keys)) /\ m = ts \o WordTokens(keys)
  BY DEF Lacks
<1>2. PICK w \in Seq(Byte) : w = Head(keys)
  <2>1. Head(keys) \in Seq(Byte) \cup {Unwritable}
    OBVIOUS
  <2> QED BY <2>1
<1>3. PICK rest \in Seq(Seq(Byte) \cup {Unwritable}) : rest = Tail(keys) /\ Len(rest) = Len(keys) - 1
  <2>1. Tail(keys) \in Seq(Seq(Byte) \cup {Unwritable}) /\ Len(Tail(keys)) = Len(keys) - 1
    OBVIOUS
  <2> QED BY <2>1
<1>4. PICK v \in Seq(Token) : v = WordTokens(rest) /\ WordTokens(keys) = << <<"$", w>> >> \o v
  BY <1>2, <1>3, WordTokensType
<1>5. PICK t \in Token, one \in Seq(Token) : t = <<"$", w>> /\ one = <<t>>
  <2>1. PICK t \in Token : t = <<"$", w>>
    BY DEF Token
  <2>2. <<t>> \in Seq(Token)
    OBVIOUS
  <2> QED BY <2>1, <2>2
<1>6. PICK ts2 \in Seq(Token) : ts2 = Append(ts, t)
  <2>1. Append(ts, t) \in Seq(Token)
    OBVIOUS
  <2> QED BY <2>1
<1>7. m = ts2 \o v
  <2>1. Joins(ts2, ts, one)
    BY <1>5, <1>6, Appended
  <2>2. PICK q \in Seq(Token) : q = one \o v /\ Joins(q, one, v)
    <3>1. one \o v \in Seq(Token)
      OBVIOUS
    <3> QED BY <3>1 DEF Joins
  <2>3. m = ts \o q /\ Joins(m, ts, q)
    BY <1>1, <1>4, <1>5, <2>2 DEF Joins
  <2>4. Joins(m, ts2, v)
    <3>1. Joins(ts2, ts, one) /\ Joins(q, one, v) /\ Joins(m, ts, q)
      BY <2>1, <2>2, <2>3
    <3> QED BY <3>1, JoinsLeft
  <2> QED BY <2>4 DEF Joins
<1>8. Len(keys) \in Nat \ {0}
  OBVIOUS
<1>9. Within(b \o set_binary(w), values, ts2, Len(keys) - 1)
  BY <1>1, <1>5, <1>6, <1>8, NextWord
<1> QED BY <1>2, <1>3, <1>4, <1>7, <1>9 DEF Lacks

(* What a client has read: the values before m, and m if nothing of it is  *)
(* missing.                                                                *)
LEMMA LacksReads ==
    ASSUME NEW b, NEW values, NEW m, NEW keys \in Seq(Seq(Byte) \cup {Unwritable}),
           Lacks(b, values, m, keys)
    PROVE  IF keys = <<>> THEN Idle(b, Append(values, m)) ELSE ReadAll(b) = values
<1>1. PICK ts \in Seq(Token) : Within(b, values, ts, Len(keys)) /\ m = ts \o WordTokens(keys)
  BY DEF Lacks
<1>2. CASE keys = <<>>
  <2>1. WordTokens(<<>>) = <<>> /\ ts \o <<>> = ts /\ Len(<<>>) = 0
    BY DEF WordTokens
  <2> QED BY <1>1, <1>2, <2>1 DEF Within
<1>3. CASE keys # <<>>
  <2>1. Len(keys) # 0
    BY <1>3
  <2>2. PICK s : Reads(Byte, b, s) /\ s.values = values
    BY <1>1, <2>1 DEF Within
  <2> QED BY <1>3, <2>2, ReadsAll
<1> QED BY <1>2, <1>3

(* Between two values a client has read those before. *)
LEMMA IdleReads ==
    ASSUME NEW b, NEW values, Idle(b, values)
    PROVE  ReadAll(b) = values
<1>1. PICK s : Reads(Byte, b, s) /\ s.values = values
  BY DEF Idle
<1> QED BY <1>1, ReadsAll

-----------------------------------------------------------------------------
(* The inductive invariant of write_result: how much of the replies is     *)
(* written.                                                                *)

(* What a server method may return for a key. *)
Key == Seq(Byte) \cup {Unwritable}

(* The values that a client is to read of some replies. *)
MeaningsOf(s) == [i \in DOMAIN s |-> Meaning(s[i])]

(* What RepliesReadable says of what was written so far. *)
Readable ==
    /\ IsPrefix(ReadAll(out), MeaningsOf(replies))
    /\ Len(ReadAll(out)) + 1 >= Len(MeaningsOf(replies))

(* Between two replies a client has read all of them, and in a reply all   *)
(* but its last keys.                                                      *)
WritingInv ==
    /\ pc \in {"count", "size", "word", "call"} => keysLeft = <<>> /\ Idle(out, MeaningsOf(replies))
    /\ pc = "drain" =>
          /\ keysLeft \in Seq(Key)
          /\ \E s \in Seq(Replies), r \in Replies :
                replies = Append(s, r) /\ Lacks(out, MeaningsOf(s), Meaning(r), keysLeft)
    /\ pc = "closed" => Readable
    /\ Len(replies) <= Len(received)
    /\ pc = "call" => Len(replies) < Len(received)

(* One more reply has one more meaning. *)
LEMMA MeaningsLemma ==
    ASSUME NEW s \in Seq(Replies)
    PROVE  /\ IsPrefix(MeaningsOf(s), MeaningsOf(s)) /\ Len(MeaningsOf(s)) = Len(s)
           /\ \A r \in Replies :
                /\ MeaningsOf(Append(s, r)) = Append(MeaningsOf(s), Meaning(r))
                /\ IsPrefix(MeaningsOf(s), MeaningsOf(Append(s, r)))
<1>1. PICK S : S = {Meaning(r) : r \in Replies}
  OBVIOUS
<1>2. ASSUME NEW t \in Seq(Replies)
      PROVE  /\ MeaningsOf(t) \in Seq(S) /\ Len(MeaningsOf(t)) = Len(t)
             /\ \A i \in 1 .. Len(t) : MeaningsOf(t)[i] = Meaning(t[i])
  <2>1. MeaningsOf(t) = [i \in 1 .. Len(t) |-> Meaning(t[i])]
    BY DEF MeaningsOf
  <2>2. \A i \in 1 .. Len(t) : Meaning(t[i]) \in S
    <3>1. \A i \in 1 .. Len(t) : t[i] \in Replies
      OBVIOUS
    <3> QED BY <1>1, <3>1
  <2> QED BY <2>1, <2>2
<1>3. PICK v \in Seq(S) : /\ v = MeaningsOf(s) /\ Len(v) = Len(s)
                          /\ \A i \in 1 .. Len(s) : v[i] = Meaning(s[i])
  BY <1>2
<1>4. ASSUME NEW r \in Replies
      PROVE  MeaningsOf(Append(s, r)) = Append(v, Meaning(r)) /\ IsPrefix(v, Append(v, Meaning(r)))
  <2>1. PICK t \in Seq(Replies) : /\ t = Append(s, r) /\ Len(t) = Len(s) + 1 /\ t[Len(s) + 1] = r
                                  /\ \A i \in 1 .. Len(s) : t[i] = s[i]
    <3>1. /\ Append(s, r) \in Seq(Replies) /\ Len(Append(s, r)) = Len(s) + 1
          /\ Append(s, r)[Len(s) + 1] = r /\ \A i \in 1 .. Len(s) : Append(s, r)[i] = s[i]
      OBVIOUS
    <3> QED BY <3>1
  <2>2. PICK w \in Seq(S) : /\ w = MeaningsOf(t) /\ Len(w) = Len(s) + 1
                            /\ \A i \in 1 .. Len(s) + 1 : w[i] = Meaning(t[i])
    BY <1>2, <2>1
  <2>3. PICK m \in S : m = Meaning(r)
    BY <1>1
  <2>4. PICK u \in Seq(S) : /\ u = Append(v, m) /\ Len(u) = Len(s) + 1 /\ u[Len(s) + 1] = m
                            /\ \A i \in 1 .. Len(s) : u[i] = v[i]
    <3>1. /\ Append(v, m) \in Seq(S) /\ Len(Append(v, m)) = Len(s) + 1
          /\ Append(v, m)[Len(s) + 1] = m /\ \A i \in 1 .. Len(s) : Append(v, m)[i] = v[i]
      BY <1>3
    <3> QED BY <3>1
  <2>5. ASSUME NEW i \in 1 .. Len(s) + 1 PROVE w[i] = u[i]
    <3>1. i \in 1 .. Len(s) \/ i = Len(s) + 1
      OBVIOUS
    <3> QED BY <1>3, <2>1, <2>2, <2>3, <2>4, <3>1
  <2>6. w = u
    BY <2>2, <2>4, <2>5, SeqEqual
  <2>7. SubSeq(v, 1, Len(v)) = SubSeq(u, 1, Len(v)) /\ Len(v) <= Len(u)
    BY <1>3, <2>4
  <2> QED BY <2>1, <2>2, <2>3, <2>4, <2>6, <2>7 DEF IsPrefix
<1>5. IsPrefix(v, v)
  BY DEF IsPrefix
<1> QED BY <1>3, <1>4, <1>5

(* Whenever the connection is closed, what was written is readable. *)
LEMMA ReadableLemma ==
    ASSUME WritingInv, replies \in Seq(Replies),
           pc \in {"count", "size", "word", "call", "drain", "closed"}
    PROVE  /\ Readable
           /\ pc \in {"count", "size", "word", "call"} => ReadAll(out) = MeaningsOf(replies)
<1>1. CASE pc \in {"count", "size", "word", "call"}
  <2>1. ReadAll(out) = MeaningsOf(replies)
    BY <1>1, IdleReads DEF WritingInv
  <2>2. Len(MeaningsOf(replies)) \in Nat
    BY MeaningsLemma
  <2> QED BY <2>1, <2>2, MeaningsLemma DEF Readable
<1>2. CASE pc = "drain"
  <2>1. PICK s \in Seq(Replies), r \in Replies :
            replies = Append(s, r) /\ Lacks(out, MeaningsOf(s), Meaning(r), keysLeft)
    BY <1>2 DEF WritingInv
  <2>2. keysLeft \in Seq(Seq(Byte) \cup {Unwritable})
    BY <1>2 DEF WritingInv, Key
  <2>3. ReadAll(out) = MeaningsOf(replies) \/ ReadAll(out) = MeaningsOf(s)
    <3>1. CASE keysLeft = <<>>
      <4>1. Idle(out, Append(MeaningsOf(s), Meaning(r)))
        BY <2>1, <2>2, <3>1, LacksReads
      <4> QED BY <2>1, <4>1, IdleReads, MeaningsLemma
    <3>2. CASE keysLeft # <<>>
      BY <2>1, <2>2, <3>2, LacksReads
    <3> QED BY <3>1, <3>2
  <2>4. Len(MeaningsOf(s)) = Len(s) /\ Len(MeaningsOf(replies)) = Len(replies)
    BY MeaningsLemma
  <2>5. Len(replies) = Len(s) + 1 /\ Len(s) \in Nat
    BY <2>1
  <2>6. IsPrefix(MeaningsOf(s), MeaningsOf(replies)) /\ IsPrefix(MeaningsOf(replies), MeaningsOf(replies))
    BY <2>1, MeaningsLemma
  <2> QED BY <1>2, <2>3, <2>4, <2>5, <2>6 DEF Readable
<1>3. CASE pc = "closed"
  BY <1>3 DEF WritingInv
<1> QED BY <1>1, <1>2, <1>3

(* At the start nothing is written. *)
LEMMA WritingInit == Init => WritingInv
<1> SUFFICES ASSUME Init PROVE WritingInv
  OBVIOUS
<1>1. MeaningsOf(<<>>) = <<>>
  BY DEF MeaningsOf
<1>2. Idle(<<>>, <<>>)
  <2>1. Nothing = [next |-> Len(<<>>), values |-> <<>>, tokens |-> <<>>, owed |-> 0]
    BY DEF Nothing
  <2> QED BY <2>1, ReadsNothing DEF Idle
<1> QED BY <1>1, <1>2 DEF Init, WritingInv

(* A step that writes nothing. *)
LEMMA WritingStays ==
    ASSUME IInv, WritingInv, UNCHANGED replyVars,
           \/ UNCHANGED <<pc, received>>
           \/ pc' = "closed" /\ UNCHANGED received
           \/ {pc, pc'} \subseteq {"count", "size", "word"} /\ UNCHANGED received
           \/ pc = "word" /\ pc' = "call" /\ received' = Append(received, words')
    PROVE  WritingInv'
<1> USE DEF replyVars
<1>1. /\ replies \in Seq(Replies) /\ received \in Seq(Seq(Seq(Byte)))
      /\ pc \in {"count", "size", "word", "call", "drain", "closed"}
  BY DEF IInv, SequencesOK, TypeOK
<1>2. Readable' = Readable /\ MeaningsOf(replies)' = MeaningsOf(replies)
  BY DEF Readable, MeaningsOf
<1>3. Readable
  BY <1>1, ReadableLemma
<1>4. CASE UNCHANGED <<pc, received>>
  BY <1>2, <1>4 DEF WritingInv
<1>5. CASE pc' = "closed" /\ UNCHANGED received
  BY <1>2, <1>3, <1>5 DEF WritingInv
<1>6. CASE {pc, pc'} \subseteq {"count", "size", "word"} /\ UNCHANGED received
  <2>1. pc \in {"count", "size", "word"} /\ pc' \in {"count", "size", "word"}
    BY <1>6
  <2> QED BY <1>2, <1>6, <2>1 DEF WritingInv
<1>7. CASE pc = "word" /\ pc' = "call" /\ received' = Append(received, words')
  <2>1. Len(received') = Len(received) + 1 /\ Len(received) \in Nat /\ Len(replies) \in Nat
    BY <1>1, <1>7
  <2> QED BY <1>2, <1>7, <2>1 DEF WritingInv
<1> QED BY <1>4, <1>5, <1>6, <1>7

(* A reply of which a client reads nothing leaves what was written readable. *)
LEMMA CutReads ==
    ASSUME NEW s \in Seq(Replies), NEW r \in Replies, replies' = Append(s, r),
           ReadAll(out') = MeaningsOf(s)
    PROVE  Readable'
<1>1. IsPrefix(MeaningsOf(s), MeaningsOf(Append(s, r)))
  BY MeaningsLemma
<1>2. Append(s, r) \in Seq(Replies) /\ Len(Append(s, r)) = Len(s) + 1
  OBVIOUS
<1>3. Len(MeaningsOf(s)) = Len(s) /\ Len(MeaningsOf(Append(s, r))) = Len(s) + 1
  BY <1>2, MeaningsLemma
<1>4. Readable' <=> /\ IsPrefix(ReadAll(out'), MeaningsOf(replies'))
                    /\ Len(ReadAll(out')) + 1 >= Len(MeaningsOf(replies'))
  BY DEF Readable, MeaningsOf
<1>5. Len(s) + 1 >= Len(s) + 1
  OBVIOUS
<1> QED BY <1>1, <1>3, <1>4, <1>5

(* Writing keys goes on where the reply was left off. *)
LEMMA WriteKeysReads ==
    ASSUME NEW before \in Seq(Byte), NEW keys \in Seq(Key), WriteKeys(before, keys), out \in Seq(Byte),
           NEW s \in Seq(Replies), NEW r \in Replies, replies' = Append(s, r),
           Lacks(out \o before, MeaningsOf(s), Meaning(r), keys)
    PROVE  \/ /\ pc' = "drain" /\ keysLeft' \in Seq(Key)
              /\ Lacks(out', MeaningsOf(s), Meaning(r), keysLeft')
           \/ pc' = "closed" /\ Readable'
<1>1. keys \in Seq(Seq(Byte) \cup {Unwritable})
  BY DEF Key
<1>2. PICK b \in Seq(Byte) : b = out \o before
  <2>1. out \o before \in Seq(Byte)
    OBVIOUS
  <2> QED BY <2>1
<1>3. CASE keys = <<>>
  <2>1. pc' = "drain" /\ keysLeft' = <<>> /\ out' = b
    BY <1>2, <1>3 DEF WriteKeys, Write
  <2> QED BY <1>2, <1>3, <2>1
<1>4. CASE keys # <<>> /\ Head(keys) = Unwritable
  <2>1. pc' = "closed" /\ out' = b
    BY <1>2, <1>4 DEF WriteKeys, Write, Close
  <2>2. ReadAll(b) = MeaningsOf(s)
    BY <1>1, <1>2, <1>4, LacksReads
  <2> QED BY <2>1, <2>2, CutReads
<1>5. CASE keys # <<>> /\ Head(keys) # Unwritable
  <2>1. PICK w \in Seq(Byte) : w = Head(keys)
    <3>1. Head(keys) \in Seq(Byte) \cup {Unwritable}
      BY <1>1, <1>5
    <3> QED BY <1>5, <3>1
  <2>2. PICK e \in Seq(Byte) : e = set_binary(w)
    BY WordLemma
  <2>3. PICK x \in Seq(Byte) : x = before \o e /\ Joins(x, before, e)
    <3>1. before \o e \in Seq(Byte)
      OBVIOUS
    <3> QED BY <3>1 DEF Joins
  <2>4. pc' = "drain" /\ keysLeft' = Tail(keys) /\ out' = out \o x
    BY <1>5, <2>1, <2>2, <2>3 DEF WriteKeys, Write
  <2>5. Lacks(b \o e, MeaningsOf(s), Meaning(r), Tail(keys))
    BY <1>1, <1>2, <1>5, <2>1, <2>2, KeyIsRead
  <2>6. out' = b \o e
    <3>1. Joins(b, out, before) /\ Joins(x, before, e) /\ Joins(out', out, x)
      BY <1>2, <2>3, <2>4 DEF Joins
    <3>2. PICK o2 : o2 = out'
      OBVIOUS
    <3>3. Joins(o2, out, x)
      BY <3>1, <3>2
    <3>4. Joins(o2, b, e)
      BY <3>1, <3>3, JoinsLeft
    <3> QED BY <3>2, <3>4 DEF Joins
  <2>7. Tail(keys) \in Seq(Key)
    BY <1>5
  <2> QED BY <2>4, <2>5, <2>6, <2>7
<1> QED BY <1>3, <1>4, <1>5

(* The header of KEYS or SCAN is bytes. *)
LEMMA KeysHeaderType ==
    ASSUME NEW r \in Replies, r.kind \in {"KEYS", "SCAN"}
    PROVE  KeysHeader(r) \in Seq(Byte) /\ r.value \in Seq(Key)
<1>1. IsReply(r)
  BY StreamAssumption
<1>2. r.value \in Seq(Key) /\ Len(r.value) \in Nat
  <2>1. r.value \in Seq(Key)
    BY <1>1 DEF IsReply, Key
  <2> QED BY <2>1
<1>3. PICK h \in Seq(Byte) : h = set_count(Len(r.value))
  BY <1>2, CountSpells DEF Spells
<1>4. PICK a \in Seq(Byte) : a = set_count(2)
  BY CountSpells DEF Spells
<1>5. PICK e \in Seq(Byte) : e = set_binary(Text(0))
  <2>1. Text(0) \in Seq(Digits \cup {"-"})
    BY TextIsRead
  <2>2. Digits \cup {"-"} \subseteq Byte
    BY BytesAreMarks DEF Marks
  <2>3. Text(0) \in Seq(Byte)
    BY <2>1, <2>2
  <2> QED BY <2>3, WordLemma
<1>6. PICK p \in Seq(Byte) : p = IF r.kind = "SCAN" THEN a \o e ELSE <<>>
  <2>1. a \o e \in Seq(Byte) /\ <<>> \in Seq(Byte)
    OBVIOUS
  <2> QED BY <2>1
<1>7. KeysHeader(r) = p \o h
  BY <1>3, <1>4, <1>5, <1>6 DEF KeysHeader
<1>8. p \o h \in Seq(Byte)
  OBVIOUS
<1> QED BY <1>2, <1>7, <1>8

(* A reply is begun. *)
LEMMA WritingAnswer ==
    ASSUME IInv, WritingInv, NEW r \in Replies, Answer(r)
    PROVE  WritingInv'
<1> USE DEF Answer, parserVars
<1>1. /\ replies \in Seq(Replies) /\ received \in Seq(Seq(Seq(Byte)))
      /\ replies' = Append(replies, r) /\ received' = received
  BY DEF IInv, SequencesOK
<1>2. keysLeft = <<>> /\ Idle(out, MeaningsOf(replies)) /\ Len(replies) < Len(received)
  BY DEF WritingInv
<1>3. out \in Seq(Byte)
  BY <1>2, IdleIsBytes
<1>4. Len(replies') <= Len(received')
  <2>1. Len(replies') = Len(replies) + 1 /\ Len(replies) \in Nat /\ Len(received) \in Nat
    BY <1>1
  <2> QED BY <1>1, <1>2, <2>1
<1>5. CASE r.kind \in {"KEYS", "SCAN"}
  <2>1. PICK h \in Seq(Byte), ks \in Seq(Key) : h = KeysHeader(r) /\ ks = r.value
    BY <1>5, KeysHeaderType
  <2>2. Lacks(out \o h, MeaningsOf(replies), Meaning(r), ks)
    BY <1>2, <1>5, <2>1, KeysHeaderIsRead
  <2>3. WriteKeys(h, ks)
    BY <1>5, <2>1
  <2>4. \/ /\ pc' = "drain" /\ keysLeft' \in Seq(Key)
           /\ Lacks(out', MeaningsOf(replies), Meaning(r), keysLeft')
        \/ pc' = "closed" /\ Readable'
    BY <1>1, <1>3, <2>2, <2>3, WriteKeysReads
  <2> QED BY <1>1, <1>4, <2>4 DEF WritingInv
<1>6. CASE r.kind \notin {"KEYS", "SCAN"}
  <2>1. out' = out \o WholeReply(r) /\ keysLeft' = <<>> /\ keysLeft' \in Seq(Key)
    <3>1. out' = out \o WholeReply(r) /\ keysLeft' = <<>>
      BY <1>2, <1>6 DEF Write
    <3> QED BY <3>1
  <2>2. CASE CutShort(r)
    <3>1. pc' = "closed"
      BY <1>6, <2>2 DEF CutShort, Close
    <3>2. ReadAll(out') = MeaningsOf(replies)
      BY <1>2, <1>6, <2>1, <2>2, WholeReplyIsRead
    <3>3. Readable'
      BY <1>1, <3>2, CutReads
    <3> QED BY <1>4, <3>1, <3>3 DEF WritingInv
  <2>3. CASE ~CutShort(r)
    <3>1. pc' = "drain"
      BY <1>6, <2>3 DEF CutShort
    <3>2. Lacks(out', MeaningsOf(replies), Meaning(r), keysLeft')
      BY <1>2, <1>6, <2>1, <2>3, WholeReplyIsRead
    <3> QED BY <1>1, <1>4, <2>1, <3>1, <3>2 DEF WritingInv
  <2> QED BY <2>2, <2>3
<1> QED BY <1>5, <1>6

(* A reply is continued, or the next request is read. *)
LEMMA WritingGoesOn ==
    ASSUME IInv, WritingInv, DrainReturns
    PROVE  WritingInv'
<1> USE DEF DrainReturns, parserVars
<1>1. PICK s \in Seq(Replies), r \in Replies :
          replies = Append(s, r) /\ Lacks(out, MeaningsOf(s), Meaning(r), keysLeft)
  BY DEF WritingInv
<1>2. /\ keysLeft \in Seq(Key) /\ Len(replies) <= Len(received)
      /\ replies' = replies /\ received' = received
  BY DEF WritingInv
<1>3. CASE keysLeft = <<>>
  <2>1. keysLeft \in Seq(Seq(Byte) \cup {Unwritable})
    BY <1>2 DEF Key
  <2>2. Idle(out, Append(MeaningsOf(s), Meaning(r)))
    BY <1>1, <1>3, <2>1, LacksReads
  <2>3. Idle(out, MeaningsOf(replies))
    BY <1>1, <2>2, MeaningsLemma
  <2>4. Idle(out', MeaningsOf(replies'))
    BY <1>2, <1>3, <2>3
  <2> QED BY <1>2, <1>3, <2>4 DEF WritingInv
<1>4. CASE keysLeft # <<>>
  <2>1. WriteKeys(<<>>, keysLeft)
    BY <1>4
  <2>2. out \in Seq(Byte)
    BY <1>1, WithinIsBytes DEF Lacks
  <2>3. PICK none \in Seq(Byte) : none = <<>>
    <3>1. <<>> \in Seq(Byte)
      OBVIOUS
    <3> QED BY <3>1
  <2>4. out \o none = out
    BY <2>2, <2>3
  <2>5. Lacks(out \o none, MeaningsOf(s), Meaning(r), keysLeft) /\ WriteKeys(none, keysLeft)
    BY <1>1, <2>1, <2>3, <2>4
  <2>6. \/ /\ pc' = "drain" /\ keysLeft' \in Seq(Key)
           /\ Lacks(out', MeaningsOf(s), Meaning(r), keysLeft')
        \/ pc' = "closed" /\ Readable'
    BY <1>1, <1>2, <2>2, <2>5, WriteKeysReads
  <2> QED BY <1>1, <1>2, <2>6 DEF WritingInv
<1> QED BY <1>3, <1>4

(* Every step keeps it. *)
LEMMA WritingNext == IInv /\ WritingInv /\ [Next]_vars => WritingInv'
<1> SUFFICES ASSUME IInv, WritingInv, [Next]_vars PROVE WritingInv'
  OBVIOUS
<1> USE DEF clientVars, parserVars, replyVars
<1>1. ASSUME UNCHANGED <<pc, received, replyVars>> PROVE WritingInv'
  BY <1>1, WritingStays
<1>2. ASSUME NEW m \in Messages, Send(m) PROVE WritingInv'
  BY <1>1, <1>2 DEF Send
<1>3. ASSUME NEW n \in 1 .. Len(stream), Deliver(n) PROVE WritingInv'
  BY <1>1, <1>3 DEF Deliver
<1>4. CASE EndOfStream
  BY <1>1, <1>4 DEF EndOfStream
<1>5. CASE ReadCount
  BY <1>5, WritingStays DEF ReadCount, Close
<1>6. CASE ReadSize
  BY <1>6, WritingStays DEF ReadSize, Close
<1>7. CASE ReadWord
  BY <1>7, WritingStays DEF ReadWord
<1>8. CASE WordIsCutOff \/ ReadTimesOut \/ DrainFails
  BY <1>8, WritingStays DEF WordIsCutOff, ReadTimesOut, DrainFails, Close
<1>9. CASE UNCHANGED vars
  BY <1>1, <1>9 DEF vars
<1> QED BY <1>2, <1>3, <1>4, <1>5, <1>6, <1>7, <1>8, <1>9, WritingAnswer, WritingGoesOn DEF Next

(* It holds in every reachable state. *)
LEMMA Writing == Spec => []WritingInv
BY Invariance, WritingInit, WritingNext, PTL DEF Spec

(* What it says of the replies. *)
LEMMA RepliesLemma == IInv /\ WritingInv => RepliesReadable
<1> SUFFICES ASSUME IInv, WritingInv PROVE RepliesReadable
  OBVIOUS
<1>1. replies \in Seq(Replies) /\ pc \in {"count", "size", "word", "call", "drain", "closed"}
  BY DEF IInv, SequencesOK, TypeOK
<1>2. Readable /\ (pc \in {"count", "size", "word", "call"} => ReadAll(out) = MeaningsOf(replies))
  BY <1>1, ReadableLemma
<1> QED BY <1>2 DEF RepliesReadable, Readable, MeaningsOf, WritingInv

(* What is written is read by a client as the replies to its requests, in  *)
(* their order, and each only when all of it is there, whatever the words  *)
(* in them are, with keys that cannot be written and with connections that *)
(* fail between two keys.                                                  *)
THEOREM RepliesAreReadable == Spec => []RepliesReadable
BY Invariance, Writing, RepliesLemma, PTL

=============================================================================
