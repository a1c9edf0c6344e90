----------------------------- MODULE RedisReader -----------------------------
(***************************************************************************)
(* How a redis client reads what a node answers: token by token, each a    *)
(* pair of its mark and what it stands for.  A value is given by its       *)
(* tokens: an array is its length and then the tokens of its elements.     *)
(***************************************************************************)
EXTENDS RedisCodec

(* What the text of an integer stands for. *)
IntOf(text) == IF text # <<>> /\ text[1] = "-" THEN -NumberOf(Tail(text)) ELSE NumberOf(text)

(* The CRs before an LF, behind the first p bytes of b. *)
LineEnds(b, p) == {i \in p + 1 .. Len(b) - 1 : b[i] = CR /\ b[i + 1] = LF}

Incomplete == [whole |-> FALSE]
Whole(token, next) == [whole |-> TRUE, token |-> token, next |-> next]

(* The token after the first p bytes, and the number of bytes up to its    *)
(* end; or there is not all of it yet.                                     *)
ReadToken(b, p) ==
    IF LineEnds(b, p) = {} THEN Incomplete
    ELSE LET cr == Min(LineEnds(b, p))
             mark == b[p + 1]
             text == SubSeq(b, p + 2, cr - 1)
         IN CASE mark \in {"+", "-"} -> Whole(<<mark, text>>, cr + 1)
              [] mark \in {":", "*"} -> Whole(<<mark, IntOf(text)>>, cr + 1)
              [] mark = "$" ->
                   LET end == cr + 1 + IntOf(text)
                   IN IF IntOf(text) < 0 THEN Whole(<<"nil", <<>>>>, cr + 1)
                      ELSE IF end + 2 > Len(b) THEN Incomplete
                      ELSE Whole(<<"$", SubSeq(b, cr + 2, end)>>, end + 2)
              [] OTHER -> Incomplete

(* A reader has read up to next, and whole values; of another one it has   *)
(* some tokens, and owed elements of arrays are still to come.             *)
Nothing == [next |-> 0, values |-> <<>>, tokens |-> <<>>, owed |-> 0]

Take(s, token, next) ==
    LET tokens == Append(s.tokens, token)
        owed == (IF s.owed = 0 THEN 0 ELSE s.owed - 1) + (IF token[1] = "*" THEN token[2] ELSE 0)
    IN [next |-> next,
        values |-> IF owed = 0 THEN Append(s.values, tokens) ELSE s.values,
        tokens |-> IF owed = 0 THEN <<>> ELSE tokens,
        owed |-> owed]

ReadStep(b, s) ==
    LET t == ReadToken(b, s.next) IN IF t.whole THEN Take(s, t.token, t.next) ELSE s

(* The values in b, of which not all need have arrived.  No token is       *)
(* shorter than three bytes.                                               *)
ReadAll(b) ==
    LET after[n \in 0 .. Len(b) \div 3] == IF n = 0 THEN Nothing ELSE ReadStep(b, after[n - 1])
    IN after[Len(b) \div 3].values

=============================================================================
