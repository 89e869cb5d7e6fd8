---------------------------- MODULE ProtocolProofs ----------------------------
(***************************************************************************)
(* Proofs about the answers: with one statement to a query, and none that  *)
(* the grammar does not accept, what a client reads is the answer to its   *)
(* own query, and a query reported as done was done, for any number of     *)
(* queries and of rows, wherever either side stops.  At the end, proofs    *)
(* about the bytes that carry them.                                        *)
(***************************************************************************)
EXTENDS Protocol, Stream, SequenceTheorems, TLAPS

\* What the passing run assumes too.  With other queries the statements are false.
OneEach == \A line \in Lines :
  line = <<>> \/ \E s \in Statements \ {"garbled"} : line = <<s>>

-----------------------------------------------------------------------------
(* Answers, as they are read: without what follows the token at which the  *)
(* call that reads them returns.                                           *)

Short(q) == <<Tok("Status", OK, q), Tok("$$", 0, q)>>
Table(n, last, q) == TableHead(q) \o Rows(n, q) \o <<last>>

\* The call returns OK at the last token of a good answer, an error at that of a bad one.
GoodAnswers(q) == {Short(q)} \cup {Table(n, Tok("END", 0, q), q) : n \in 0 .. MaxRows}
BadAnswers(q) == {<<Tok("Status", v, q)>> : v \in Errors} \cup
                 {Table(n, Tok("Status", v, q), q) : n \in 0 .. MaxRows, v \in Errors}
RowsIn(A) == IF Len(A) = 2 THEN 0 ELSE Len(A) - 8

\* Where a client is that is about to read the k-th token of its answer.
At(p, x, k) ==
  /\ p = CASE k <= 3 -> "header" [] k = 4 -> "tabheader" [] k \in {5, 6} -> "columns"
           [] k = 7 -> "tabdata" [] OTHER -> "rows"
  /\ (k < 3 => x.body = FALSE) /\ (k >= 3 => x.body = TRUE)
  /\ x.columnsz = IF k >= 6 THEN 1 ELSE 0
  /\ x.rows = IF k >= 8 THEN k - 8 ELSE 0

-----------------------------------------------------------------------------
(* The inductive invariant.                                                *)

\* What is on its way to the client.
Coming == toClient \o sbuf \o out

\* The stream r is the rest of A from its k-th token on, as far as it has got; what
\* comes behind A in it are flushes and, after a bad answer, more of the query q.
Follows(r, A, k, bad, q) ==
  \A i \in 1 .. Len(r) : IF i <= Len(A) - k + 1 THEN r[i] = A[k + i - 1]
                         ELSE r[i] = FLUSH \/ (bad /\ r[i].q = q)

EOL(q) == [stmt |-> "EOL", q |-> q]

\* From the d-th on, the requests in w are those of the query q, none of them read.
Ahead(w, d, q) ==
  \/ Len(w) = d /\ w[d] = EOL(q)
  \/ Len(w) = d + 1 /\ w[d].stmt \in Statements \ {"garbled"} /\ w[d].q = q /\ w[d + 1] = EOL(q)

\* The one request of w is the end of the query q.
Ending(w, q) == Len(w) = 1 /\ w[1] = EOL(q)

\* A statement of the query q is executed, and what is left of it is its end.
Behind(w, ran, q) == IF ran THEN Ending(w, q) ELSE w = <<>>

Empty(r) == \A i \in 1 .. Len(r) : r[i] = FLUSH

\* The worker has not come to the query: it may have the end of the one before to read.
Unanswered ==
  /\ At(cpc, conn, 1) /\ Empty(Coming)
  /\ \/ srv = "ended"
     \/ /\ asked = 0 /\ srv \in {"none", "header"} /\ ~inBody
        /\ toWorker = <<[stmt |-> "header", q |-> 0]>>
     \/ /\ asked > 0 /\ srv = "queries" /\ truth[asked] = <<>>
        /\ IF inBody THEN toWorker[1] = EOL(asked - 1) /\ Ahead(toWorker, 2, asked)
           ELSE Ahead(toWorker, 1, asked)

AnsweredWell ==
  /\ \E A \in GoodAnswers(asked) : \E k \in 1 .. Len(A) :
       /\ At(cpc, conn, k) /\ Follows(Coming, A, k, FALSE, asked)
       /\ asked > 0 => \A i \in DOMAIN truth[asked] :
            truth[asked][i].status = OK /\ truth[asked][i].rows = RowsIn(A)
  /\ srv = "ended" \/ (srv = "queries" /\ Behind(toWorker, inBody, asked))

AnsweredBadly ==
  /\ \E A \in BadAnswers(asked) : \E k \in 1 .. Len(A) :
       At(cpc, conn, k) /\ Follows(Coming, A, k, TRUE, asked)
  /\ \/ srv \in {"closing", "ended"}
     \/ srv = "queries" /\ Behind(toWorker, inBody, asked)
     \/ srv = "recovery" /\ (toWorker = <<>> \/ Ending(toWorker, asked))

\* The answer is read, and was good.
Settled ==
  /\ cpc = "idle" /\ Empty(Coming)
  /\ srv = "ended" \/ (srv = "queries" /\ Behind(toWorker, inBody, asked))

Places == {"start", "header", "tabheader", "columns", "tabdata", "rows", "idle", "exit"}
Kinds == {"Status", "Body", "$$", "TABHEADER", "ROW", "END", "TABDATA"}
Contents == Nat \cup {OK, "column"} \cup Errors
Tokens == [t : Kinds \cup {"flush"}, v : Contents, q : Nat]
Conns == [status : {OK} \cup Errors \cup ClientErrors, body : BOOLEAN, columnsz : {0, 1},
          rows : 0 .. MaxRows]

\* Requests and tokens of the queries up to n.
Requests(n) == [stmt : (Statements \ {"garbled"}) \cup {"header", "EOL"}, q : 0 .. n]
Upto(n) == {x \in Tokens : x.q \in 0 .. n}

Types ==
  /\ cpc \in Places /\ conn \in Conns /\ asked \in 0 .. MaxQueries
  /\ srv \in {"none", "header", "queries", "recovery", "closing", "ended"} /\ inBody \in BOOLEAN
  /\ toWorker \in Seq(Requests(asked))
  /\ toClient \in Seq(Upto(asked) \ {FLUSH}) /\ sbuf \in Seq(Upto(asked) \ {FLUSH})
  /\ out \in Seq(Upto(asked))
  /\ DOMAIN truth = 1 .. MaxQueries
  /\ \A q \in 1 .. MaxQueries : asked < q => truth[q] = <<>>

Starting ==
  /\ conn = [status |-> OK, body |-> FALSE, columnsz |-> 0, rows |-> 0]
  /\ asked = 0 /\ srv = "none" /\ ~inBody
  /\ toWorker = <<>> /\ toClient = <<>> /\ sbuf = <<>> /\ out = <<>>

\* Where the connection stands while the client uses it.
Phase == Unanswered \/ AnsweredWell \/ AnsweredBadly \/ Settled

IInv ==
  /\ Types
  /\ conn.status # OK => cpc \in {"idle", "exit"}
  /\ cpc = "start" => Starting
  /\ cpc \notin {"start", "exit"} /\ conn.status = OK => Phase

-----------------------------------------------------------------------------
(* Sequences of tokens.                                                    *)

LEMMA Concat ==
  ASSUME NEW S, NEW a \in Seq(S), NEW b \in Seq(S), NEW c \in Seq(S)
  PROVE  /\ a \o b \o c \in Seq(S) /\ Len(a \o b \o c) = Len(a) + Len(b) + Len(c)
         /\ a \o b \in Seq(S) /\ Len(a \o b) = Len(a) + Len(b)
         /\ Len(a) \in Nat /\ Len(b) \in Nat /\ Len(c) \in Nat
         /\ \A i \in 1 .. Len(a) : (a \o b \o c)[i] = a[i]
         /\ \A i \in 1 .. Len(b) : (a \o b \o c)[Len(a) + i] = b[i]
         /\ \A i \in 1 .. Len(c) : (a \o b \o c)[Len(a) + Len(b) + i] = c[i]
<1>1. /\ a \o b \in Seq(S) /\ Len(a \o b) = Len(a) + Len(b) /\ Len(a) \in Nat /\ Len(b) \in Nat
      /\ \A i \in 1 .. Len(a) : (a \o b)[i] = a[i]
      /\ \A i \in 1 .. Len(b) : (a \o b)[Len(a) + i] = b[i]
  BY ConcatProperties, LenProperties
<1>2. /\ (a \o b) \o c \in Seq(S) /\ Len((a \o b) \o c) = Len(a \o b) + Len(c) /\ Len(c) \in Nat
      /\ \A i \in 1 .. Len(a \o b) : ((a \o b) \o c)[i] = (a \o b)[i]
      /\ \A i \in 1 .. Len(c) : ((a \o b) \o c)[Len(a \o b) + i] = c[i]
  BY <1>1, ConcatProperties, LenProperties
<1> QED BY <1>1, <1>2

-----------------------------------------------------------------------------
(* Answers.                                                                *)

LEMMA Toked ==
  ASSUME NEW t \in Kinds, NEW v \in Contents, NEW q \in Nat
  PROVE  /\ Tok(t, v, q) \in Tokens /\ Tok(t, v, q) # FLUSH
         /\ Tok(t, v, q).t = t /\ Tok(t, v, q).v = v /\ Tok(t, v, q).q = q
<1>1. Tok(t, v, q) \in Tokens /\ Tok(t, v, q).t = t /\ Tok(t, v, q).v = v /\ Tok(t, v, q).q = q
  BY DEF Tok, Tokens, Kinds
<1>2. t # "flush" /\ FLUSH.t = "flush"
  BY DEF Kinds, FLUSH
<1> QED BY <1>1, <1>2

LEMMA FlushToken == FLUSH \in Tokens /\ FLUSH.q = 0 /\ FLUSH.t = "flush"
BY DEF FLUSH, Tokens, Contents

\* A token of the query q.
IsToken(x, q) == x \in Tokens /\ x # FLUSH /\ x.q = q

LEMMA Tokened ==
  ASSUME NEW q \in Nat
  PROVE  /\ \A v \in {OK} \cup Errors : IsToken(Tok("Status", v, q), q)
         /\ \A t \in {"Body", "$$", "TABHEADER", "END", "TABDATA"} : IsToken(Tok(t, 0, q), q)
         /\ IsToken(Tok("ROW", "column", q), q)
         /\ \A i \in Nat : IsToken(Tok("ROW", i, q), q)
<1>1. /\ \A v \in {OK} \cup Errors : v \in Contents
      /\ "column" \in Contents /\ \A i \in Nat : i \in Contents
  BY DEF Contents
<1>2. /\ "Status" \in Kinds /\ "ROW" \in Kinds
      /\ \A t \in {"Body", "$$", "TABHEADER", "END", "TABDATA"} : t \in Kinds
  BY DEF Kinds
<1>3. ASSUME NEW t \in Kinds, NEW v \in Contents PROVE IsToken(Tok(t, v, q), q)
  BY <1>3, Toked DEF IsToken
<1>4. 0 \in Contents
  BY <1>1
<1> QED BY <1>1, <1>2, <1>3, <1>4

LEMMA HeadShape ==
  ASSUME NEW q \in Nat
  PROVE  /\ TableHead(q) \in Seq(Tokens) /\ Len(TableHead(q)) = 7
         /\ TableHead(q)[1] = Tok("Status", OK, q) /\ TableHead(q)[2] = Tok("Body", 0, q)
         /\ TableHead(q)[3] = Tok("$$", 0, q) /\ TableHead(q)[4] = Tok("TABHEADER", 0, q)
         /\ TableHead(q)[5] = Tok("ROW", "column", q) /\ TableHead(q)[6] = Tok("END", 0, q)
         /\ TableHead(q)[7] = Tok("TABDATA", 0, q)
<1>1. /\ Tok("Status", OK, q) \in Tokens /\ Tok("Body", 0, q) \in Tokens /\ Tok("$$", 0, q) \in Tokens
      /\ Tok("TABHEADER", 0, q) \in Tokens /\ Tok("ROW", "column", q) \in Tokens
      /\ Tok("END", 0, q) \in Tokens /\ Tok("TABDATA", 0, q) \in Tokens
  BY Tokened DEF IsToken
<1> QED BY <1>1 DEF TableHead

\* A sequence begins with a table's head and n rows.
IsTable(r, n, q) ==
  /\ r \in Seq(Tokens) /\ Len(r) >= n + 7
  /\ r[1] = Tok("Status", OK, q) /\ r[2] = Tok("Body", 0, q) /\ r[3] = Tok("$$", 0, q)
  /\ r[4] = Tok("TABHEADER", 0, q) /\ r[5] = Tok("ROW", "column", q)
  /\ r[6] = Tok("END", 0, q) /\ r[7] = Tok("TABDATA", 0, q)
  /\ \A i \in 8 .. n + 7 : r[i] = Tok("ROW", i - 7, q)

LEMMA TableThen ==
  ASSUME NEW n \in Nat, NEW q \in Nat, NEW rest \in Seq(Tokens)
  PROVE  /\ IsTable(TableHead(q) \o Rows(n, q) \o rest, n, q)
         /\ Len(TableHead(q) \o Rows(n, q) \o rest) = 7 + n + Len(rest)
         /\ \A i \in 1 .. Len(rest) : (TableHead(q) \o Rows(n, q) \o rest)[n + 7 + i] = rest[i]
<1> DEFINE h == TableHead(q)
           m == Rows(n, q)
           r == h \o m \o rest
<1>1. /\ h \in Seq(Tokens) /\ Len(h) = 7
      /\ h[1] = Tok("Status", OK, q) /\ h[2] = Tok("Body", 0, q) /\ h[3] = Tok("$$", 0, q)
      /\ h[4] = Tok("TABHEADER", 0, q) /\ h[5] = Tok("ROW", "column", q)
      /\ h[6] = Tok("END", 0, q) /\ h[7] = Tok("TABDATA", 0, q)
  BY HeadShape
<1>2. m \in Seq(Tokens) /\ Len(m) = n /\ \A i \in 1 .. n : m[i] = Tok("ROW", i, q)
  <2>1. \A i \in 1 .. n : Tok("ROW", i, q) \in Tokens
    BY Tokened DEF IsToken
  <2>2. m \in [1 .. n -> Tokens]
    BY <2>1 DEF Rows
  <2> QED BY <2>2, SeqDef, LenProperties DEF Rows
<1> HIDE DEF h, m
<1>0. /\ r \in Seq(Tokens) /\ Len(r) = Len(h) + Len(m) + Len(rest) /\ Len(rest) \in Nat
      /\ \A i \in 1 .. Len(h) : r[i] = h[i]
      /\ \A i \in 1 .. Len(m) : r[Len(h) + i] = m[i]
      /\ \A i \in 1 .. Len(rest) : r[Len(h) + Len(m) + i] = rest[i]
  <2>1. h \in Seq(Tokens) /\ m \in Seq(Tokens)
    BY <1>1, <1>2
  <2> QED BY ONLY <2>1, rest \in Seq(Tokens), Concat DEF r
<1> HIDE DEF r
<1>3. /\ r \in Seq(Tokens) /\ Len(r) = 7 + n + Len(rest) /\ Len(rest) \in Nat
      /\ \A i \in 1 .. 7 : r[i] = h[i]
      /\ \A i \in 1 .. n : r[7 + i] = m[i]
      /\ \A i \in 1 .. Len(rest) : r[7 + n + i] = rest[i]
  BY <1>0, <1>1, <1>2
<1>4. \A i \in 8 .. n + 7 : r[i] = Tok("ROW", i - 7, q)
  <2> TAKE i \in 8 .. n + 7
  <2>1. i - 7 \in 1 .. n /\ 7 + (i - 7) = i
    OBVIOUS
  <2> QED BY <1>2, <1>3, <2>1
<1>5. \A i \in 1 .. Len(rest) : r[n + 7 + i] = rest[i]
  BY <1>3
<1>6. /\ r \in Seq(Tokens) /\ Len(r) = 7 + n + Len(rest) /\ Len(rest) \in Nat
      /\ r[1] = Tok("Status", OK, q) /\ r[2] = Tok("Body", 0, q) /\ r[3] = Tok("$$", 0, q)
      /\ r[4] = Tok("TABHEADER", 0, q) /\ r[5] = Tok("ROW", "column", q)
      /\ r[6] = Tok("END", 0, q) /\ r[7] = Tok("TABDATA", 0, q)
  BY <1>1, <1>3
<1>7. IsTable(r, n, q)
  BY <1>3, <1>4, <1>6 DEF IsTable
<1> QED BY <1>5, <1>6, <1>7 DEF r, h, m

LEMMA TableShape ==
  ASSUME NEW n \in Nat, NEW q \in Nat, NEW last \in Tokens
  PROVE  /\ IsTable(Table(n, last, q), n, q)
         /\ Len(Table(n, last, q)) = 8 + n /\ Table(n, last, q)[8 + n] = last
<1> DEFINE one == <<last>>
<1>1. one \in Seq(Tokens) /\ Len(one) = 1 /\ one[1] = last
  OBVIOUS
<1> DEFINE A == TableHead(q) \o Rows(n, q) \o one
<1>2. Table(n, last, q) = A
  BY DEF Table
<1> HIDE DEF one
<1>3. IsTable(A, n, q) /\ Len(A) = 7 + n + Len(one) /\ \A i \in 1 .. Len(one) : A[n + 7 + i] = one[i]
  BY <1>1, TableThen
<1> HIDE DEF A
<1>4. Len(A) = 8 + n /\ A[8 + n] = last
  <2>1. 1 \in 1 .. Len(one) /\ n + 7 + 1 = 8 + n
    BY <1>1
  <2> QED BY <1>1, <1>3, <2>1
<1> QED BY <1>2, <1>3, <1>4

\* Every token of an answer is one of its query.
Sound(A, q) == /\ A \in Seq(Tokens) /\ Len(A) \in Nat \ {0}
               /\ \A i \in 1 .. Len(A) : IsToken(A[i], q)

LEMMA TableSound ==
  ASSUME NEW n \in Nat, NEW q \in Nat, NEW last, IsToken(last, q)
  PROVE  Sound(Table(n, last, q), q)
<1> DEFINE A == Table(n, last, q)
<1>1. \A i \in 1 .. 8 + n : i = 1 \/ i = 2 \/ i = 3 \/ i = 4 \/ i = 5 \/ i = 6 \/ i = 7
                            \/ i \in 8 .. n + 7 \/ i = 8 + n
  OBVIOUS
<1>2. IsTable(A, n, q) /\ Len(A) = 8 + n /\ A[8 + n] = last
  BY TableShape DEF IsToken
<1> HIDE DEF A
<1>4. /\ IsToken(A[1], q) /\ IsToken(A[2], q) /\ IsToken(A[3], q) /\ IsToken(A[4], q)
      /\ IsToken(A[5], q) /\ IsToken(A[6], q) /\ IsToken(A[7], q)
  BY <1>2, Tokened DEF IsTable
<1>5. \A i \in 8 .. n + 7 : IsToken(A[i], q)
  <2>1. \A i \in 8 .. n + 7 : i - 7 \in Nat
    OBVIOUS
  <2> QED BY <1>2, <2>1, Tokened DEF IsTable
<1>6. \A i \in 1 .. 8 + n : IsToken(A[i], q)
  BY <1>1, <1>2, <1>4, <1>5
<1>7. Sound(A, q)
  BY <1>2, <1>6 DEF Sound, IsTable
<1> QED BY <1>7 DEF A

LEMMA AnswersSound ==
  ASSUME NEW q \in Nat, NEW A \in GoodAnswers(q) \cup BadAnswers(q)
  PROVE  Sound(A, q)
<1>0. /\ \A v \in {OK} \cup Errors : IsToken(Tok("Status", v, q), q)
      /\ IsToken(Tok("END", 0, q), q) /\ IsToken(Tok("$$", 0, q), q)
      /\ 0 .. MaxRows \subseteq Nat
  <2>1. \A v \in {OK} \cup Errors : IsToken(Tok("Status", v, q), q)
    BY Tokened
  <2>2. \A t \in {"Body", "$$", "TABHEADER", "END", "TABDATA"} : IsToken(Tok(t, 0, q), q)
    BY Tokened
  <2>3. 0 .. MaxRows \subseteq Nat
    BY ProtocolAssumption
  <2> QED BY <2>1, <2>2, <2>3
<1>1. CASE A = Short(q)
  <2> DEFINE a == Tok("Status", OK, q)
             b == Tok("$$", 0, q)
  <2>1. A = <<a, b>> /\ IsToken(a, q) /\ IsToken(b, q) /\ a \in Tokens /\ b \in Tokens
    BY <1>0, <1>1 DEF Short, IsToken
  <2> HIDE DEF a, b
  <2> QED BY <2>1 DEF Sound
<1>2. ASSUME NEW v \in Errors, A = <<Tok("Status", v, q)>> PROVE Sound(A, q)
  <2> DEFINE a == Tok("Status", v, q)
  <2>1. A = <<a>> /\ IsToken(a, q) /\ a \in Tokens
    BY <1>0, <1>2 DEF IsToken
  <2> HIDE DEF a
  <2> QED BY <2>1 DEF Sound
<1>3. ASSUME NEW n \in 0 .. MaxRows, A = Table(n, Tok("END", 0, q), q) PROVE Sound(A, q)
  BY <1>0, <1>3, TableSound
<1>4. ASSUME NEW n \in 0 .. MaxRows, NEW v \in Errors, A = Table(n, Tok("Status", v, q), q)
      PROVE  Sound(A, q)
  BY <1>0, <1>4, TableSound
<1> QED BY <1>1, <1>2, <1>3, <1>4 DEF GoodAnswers, BadAnswers

\* The answer the worker begins to send.
LEMMA Replied ==
  ASSUME NEW v \in {OK} \cup Errors, NEW q \in Nat
  PROVE  /\ Reply(v, q) \in Seq(Tokens) /\ Len(Reply(v, q)) = 3
         /\ Reply(v, q)[1] = Tok("Status", v, q) /\ Reply(v, q)[2] = Tok("$$", 0, q)
         /\ Reply(v, q)[3] = FLUSH
<1>1. Tok("Status", v, q) \in Tokens /\ Tok("$$", 0, q) \in Tokens /\ FLUSH \in Tokens
  BY Tokened, FlushToken DEF IsToken
<1> QED BY <1>1 DEF Reply

\* Tokens of one query, and flushes.
AllOf(r, q) == r \in Seq(Tokens) /\ \A i \in 1 .. Len(r) : r[i] = FLUSH \/ r[i].q = q

LEMMA AllOfConcat ==
  ASSUME NEW q, NEW r1, NEW r2, AllOf(r1, q), AllOf(r2, q)
  PROVE  /\ AllOf(r1 \o r2, q) /\ Len(r1 \o r2) = Len(r1) + Len(r2)
         /\ \A i \in 1 .. Len(r1) : (r1 \o r2)[i] = r1[i]
<1> DEFINE r == r1 \o r2
<1>1. /\ r \in Seq(Tokens) /\ Len(r) = Len(r1) + Len(r2) /\ Len(r1) \in Nat /\ Len(r2) \in Nat
      /\ \A i \in 1 .. Len(r1) : r[i] = r1[i]
      /\ \A i \in 1 .. Len(r2) : r[Len(r1) + i] = r2[i]
  BY ConcatProperties, LenProperties DEF AllOf
<1> HIDE DEF r
<1>2. \A i \in 1 .. Len(r) : i \in 1 .. Len(r1) \/ (i - Len(r1) \in 1 .. Len(r2) /\ Len(r1) + (i - Len(r1)) = i)
  BY <1>1
<1>3. AllOf(r, q)
  BY <1>1, <1>2 DEF AllOf
<1> QED BY <1>1, <1>3 DEF r

LEMMA ReplyOf ==
  ASSUME NEW v \in {OK} \cup Errors, NEW q \in Nat
  PROVE  AllOf(Reply(v, q), q)
<1>1. Tok("Status", v, q).q = q /\ Tok("$$", 0, q).q = q
  BY Tokened DEF IsToken
<1>2. \A i \in 1 .. 3 : i = 1 \/ i = 2 \/ i = 3
  OBVIOUS
<1> QED BY <1>1, <1>2, Replied DEF AllOf

LEMMA TableAll ==
  ASSUME NEW n \in Nat, NEW q \in Nat, NEW r, IsTable(r, n, q),
         \A i \in n + 8 .. Len(r) : r[i] = FLUSH \/ r[i].q = q
  PROVE  AllOf(r, q)
<1>1. Len(r) \in Nat /\ \A i \in 1 .. Len(r) :
        i = 1 \/ i = 2 \/ i = 3 \/ i = 4 \/ i = 5 \/ i = 6 \/ i = 7 \/ i \in 8 .. n + 7 \/ i \in n + 8 .. Len(r)
  BY LenProperties DEF IsTable
<1>4. /\ r[1].q = q /\ r[2].q = q /\ r[3].q = q /\ r[4].q = q
      /\ r[5].q = q /\ r[6].q = q /\ r[7].q = q
  BY Tokened DEF IsTable, IsToken
<1>5. \A i \in 8 .. n + 7 : r[i].q = q
  <2> TAKE i \in 8 .. n + 7
  <2>1. i - 7 \in Nat
    OBVIOUS
  <2>2. IsToken(Tok("ROW", i - 7, q), q)
    BY <2>1, Tokened
  <2> QED BY <2>2 DEF IsTable, IsToken
<1>6. r \in Seq(Tokens)
  BY DEF IsTable
<1> QED BY <1>1, <1>4, <1>5, <1>6 DEF AllOf

\* A table, and then a status.
LEMMA TableReply ==
  ASSUME NEW n \in Nat, NEW q \in Nat, NEW rest, AllOf(rest, q), Len(rest) > 0
  PROVE  AllOf(TableHead(q) \o Rows(n, q) \o rest, q)
<1> DEFINE r == TableHead(q) \o Rows(n, q) \o rest
<1>1. rest \in Seq(Tokens) /\ Len(rest) \in Nat
  BY LenProperties DEF AllOf
<1>2. /\ IsTable(r, n, q) /\ Len(r) = 7 + n + Len(rest)
      /\ \A i \in 1 .. Len(rest) : r[n + 7 + i] = rest[i]
  BY <1>1, TableThen
<1> HIDE DEF r
<1> DEFINE lr == Len(r)
           lt == Len(rest)
<1> HIDE DEF lr, lt
<1>0. lt \in Nat /\ lr = 7 + n + lt
  BY <1>1, <1>2 DEF lr, lt
<1>6. \A i \in n + 8 .. lr : i - n - 7 \in 1 .. lt /\ n + 7 + (i - n - 7) = i
  BY ONLY <1>0, n \in Nat
<1>3. \A i \in n + 8 .. Len(r) : i - n - 7 \in 1 .. Len(rest) /\ n + 7 + (i - n - 7) = i
  BY <1>6 DEF lr, lt
<1>4. \A i \in n + 8 .. Len(r) : r[i] = FLUSH \/ r[i].q = q
  BY <1>2, <1>3 DEF AllOf
<1>5. AllOf(r, q)
  BY <1>2, <1>4, TableAll
<1> QED BY <1>5 DEF r

LEMMA TablePrefix ==
  ASSUME NEW n \in Nat, NEW q \in Nat, NEW r, IsTable(r, n, q), NEW s \in Seq(Tokens),
         Len(s) >= Len(r), \A i \in 1 .. Len(r) : s[i] = r[i]
  PROVE  IsTable(s, n, q)
<1>1. Len(r) \in Nat /\ Len(s) \in Nat /\ Len(r) >= 7 /\ \A i \in 8 .. n + 7 : i \in 1 .. Len(r)
  BY LenProperties DEF IsTable
<1>2. Len(s) >= n + 7
  BY <1>1 DEF IsTable
<1>3. s[1] = r[1] /\ s[2] = r[2] /\ s[3] = r[3] /\ s[4] = r[4] /\ s[5] = r[5] /\ s[6] = r[6] /\ s[7] = r[7]
  BY <1>1
<1> QED BY <1>1, <1>2, <1>3 DEF IsTable

-----------------------------------------------------------------------------
(* What an execution sends is a good answer or a bad one.                  *)

LEMMA BadNow ==
  ASSUME NEW q \in Nat, NEW r, AllOf(r, q), NEW v \in Errors, r[1] = Tok("Status", v, q)
  PROVE  \E A \in BadAnswers(q) : Follows(r, A, 1, TRUE, q)
<1> DEFINE A == <<Tok("Status", v, q)>>
<1>1. A \in BadAnswers(q)
  BY DEF BadAnswers
<1>2. Len(A) = 1 /\ A[1] = r[1]
  OBVIOUS
<1> HIDE DEF A
<1>3. Len(r) \in Nat
  BY LenProperties DEF AllOf
<1>4. Follows(r, A, 1, TRUE, q)
  BY <1>2, <1>3 DEF Follows, AllOf
<1> QED BY <1>1, <1>4

\* Two sequences begin with the same table.
LEMMA SameTable ==
  ASSUME NEW n \in Nat, NEW q \in Nat, NEW r, NEW A, IsTable(r, n, q), IsTable(A, n, q)
  PROVE  \A i \in 1 .. n + 7 : r[i] = A[i]
<1>1. \A i \in 1 .. n + 7 :
        i = 1 \/ i = 2 \/ i = 3 \/ i = 4 \/ i = 5 \/ i = 6 \/ i = 7 \/ i \in 8 .. n + 7
  OBVIOUS
<1>2. /\ r[1] = A[1] /\ r[2] = A[2] /\ r[3] = A[3] /\ r[4] = A[4] /\ r[5] = A[5] /\ r[6] = A[6] /\ r[7] = A[7]
      /\ \A i \in 8 .. n + 7 : r[i] = A[i]
  BY DEF IsTable
<1> QED BY <1>1, <1>2

LEMMA BadLater ==
  ASSUME NEW q \in Nat, NEW r, AllOf(r, q), NEW n \in 0 .. MaxRows, IsTable(r, n, q),
         NEW v \in Errors, r[n + 8] = Tok("Status", v, q)
  PROVE  \E A \in BadAnswers(q) : Follows(r, A, 1, TRUE, q)
<1> DEFINE last == Tok("Status", v, q)
           A == Table(n, last, q)
<1>0. n \in Nat /\ last \in Tokens
  <2>1. n \in Nat
    BY ProtocolAssumption
  <2>2. IsToken(last, q)
    BY Tokened
  <2> QED BY <2>1, <2>2 DEF IsToken
<1>1. A \in BadAnswers(q)
  BY DEF BadAnswers
<1>2. IsTable(A, n, q) /\ Len(A) = 8 + n /\ A[8 + n] = last
  BY <1>0, TableShape
<1> HIDE DEF A
<1>3. \A i \in 1 .. n + 7 : r[i] = A[i]
  BY <1>0, <1>2, SameTable
<1>4. \A i \in 1 .. n + 8 : r[i] = A[i]
  <2>1. \A i \in 1 .. n + 8 : i \in 1 .. n + 7 \/ i = n + 8
    BY <1>0
  <2>2. 8 + n = n + 8
    BY <1>0
  <2>3. A[n + 8] = last /\ r[n + 8] = last
    BY <1>2, <2>2
  <2> HIDE DEF last
  <2> QED BY <1>3, <2>1, <2>3
<1>5. Len(r) \in Nat
  BY LenProperties DEF AllOf
<1>6. \A i \in 1 .. Len(r) : i <= Len(A) - 1 + 1 <=> i \in 1 .. n + 8
  BY <1>0, <1>2, <1>5
<1>8. ASSUME NEW i \in 1 .. Len(r)
      PROVE  IF i <= Len(A) - 1 + 1 THEN r[i] = A[1 + i - 1] ELSE r[i] = FLUSH \/ (TRUE /\ r[i].q = q)
  <2>1. CASE i \in 1 .. n + 8
    <3>1. 1 + i - 1 = i
      BY <1>0, <2>1
    <3> QED BY <1>4, <1>6, <2>1, <3>1
  <2>2. CASE i \notin 1 .. n + 8
    BY <1>6, <2>2 DEF AllOf
  <2> QED BY <2>1, <2>2
<1>9. Follows(r, A, 1, TRUE, q)
  BY <1>8 DEF Follows
<1> QED BY <1>1, <1>9

\* What an execution sends for the query q: a good answer that shows n rows, or a bad one.
Well(r, n, q) == /\ AllOf(r, q)
                 /\ \E A \in GoodAnswers(q) : Follows(r, A, 1, FALSE, q) /\ n = RowsIn(A)
Badly(r, q) == /\ AllOf(r, q)
               /\ \E A \in BadAnswers(q) : Follows(r, A, 1, TRUE, q)

LEMMA ReplyGood ==
  ASSUME NEW q \in Nat
  PROVE  Follows(Reply(OK, q), Short(q), 1, FALSE, q) /\ RowsIn(Short(q)) = 0 /\ Len(Short(q)) = 2
<1>1. Len(Short(q)) = 2 /\ Short(q)[1] = Tok("Status", OK, q) /\ Short(q)[2] = Tok("$$", 0, q)
  BY DEF Short
<1>2. \A i \in 1 .. 3 : i = 1 \/ i = 2 \/ i = 3
  OBVIOUS
<1>3. /\ Len(Reply(OK, q)) = 3 /\ Reply(OK, q)[1] = Short(q)[1]
      /\ Reply(OK, q)[2] = Short(q)[2] /\ Reply(OK, q)[3] = FLUSH
  BY <1>1, Replied
<1> QED BY <1>1, <1>2, <1>3 DEF Follows, RowsIn

LEMMA ReplyWell ==
  ASSUME NEW q \in Nat
  PROVE  Well(Reply(OK, q), 0, q)
<1>1. AllOf(Reply(OK, q), q)
  BY ReplyOf
<1>2. Short(q) \in GoodAnswers(q)
  BY DEF GoodAnswers
<1>3. Follows(Reply(OK, q), Short(q), 1, FALSE, q) /\ 0 = RowsIn(Short(q))
  BY ReplyGood
<1> QED BY <1>1, <1>2, <1>3 DEF Well

LEMMA ReplyBadly ==
  ASSUME NEW q \in Nat, NEW v \in Errors
  PROVE  /\ Badly(Reply(v, q), q)
         /\ \A rest : AllOf(rest, q) => Badly(Reply(v, q) \o rest, q)
<1> DEFINE a == Reply(v, q)
<1>1. AllOf(a, q) /\ Len(a) = 3 /\ a[1] = Tok("Status", v, q)
  BY ReplyOf, Replied
<1> HIDE DEF a
<1>2. Badly(a, q)
  BY <1>1, BadNow DEF Badly
<1>3. ASSUME NEW rest, AllOf(rest, q) PROVE Badly(a \o rest, q)
  <2> DEFINE c == a \o rest
  <2>0. AllOf(c, q) /\ Len(c) = Len(a) + Len(rest) /\ \A i \in 1 .. Len(a) : c[i] = a[i]
    <3>1. AllOf(a, q)
      BY <1>1
    <3>2. AllOf(rest, q)
      BY <1>3
    <3> QED BY <3>1, <3>2, AllOfConcat
  <2> HIDE DEF c
  <2>1. AllOf(c, q) /\ c[1] = Tok("Status", v, q)
    <3>1. 1 \in 1 .. Len(a)
      BY <1>1
    <3> QED BY <1>1, <2>0, <3>1
  <2>2. Badly(c, q)
    BY <2>1, BadNow DEF Badly
  <2> QED BY <2>2 DEF c
<1> QED BY <1>2, <1>3 DEF a

LEMMA FoundWell ==
  ASSUME NEW q \in Nat, NEW n \in 0 .. MaxRows
  PROVE  Well(TableHead(q) \o Rows(n, q) \o <<Tok("END", 0, q), FLUSH>>, n, q)
<1> DEFINE end == Tok("END", 0, q)
           rest == <<end, FLUSH>>
           r == TableHead(q) \o Rows(n, q) \o rest
           A == Table(n, end, q)
<1>0. n \in Nat
  BY ProtocolAssumption
<1>1. IsToken(end, q) /\ FLUSH \in Tokens
  BY Tokened, FlushToken
<1>3. A \in GoodAnswers(q)
  BY DEF GoodAnswers
<1> HIDE DEF end
<1>4. rest \in Seq(Tokens) /\ Len(rest) = 2 /\ rest[1] = end /\ rest[2] = FLUSH
  BY <1>1 DEF IsToken
<1>5. AllOf(rest, q)
  <2>1. \A i \in 1 .. 2 : i = 1 \/ i = 2
    OBVIOUS
  <2> QED BY <1>1, <1>4, <2>1 DEF AllOf, IsToken
<1>6. IsTable(A, n, q) /\ Len(A) = 8 + n /\ A[8 + n] = end
  BY <1>0, <1>1, TableShape DEF IsToken
<1> HIDE DEF rest
<1>b. /\ AllOf(r, q) /\ IsTable(r, n, q) /\ Len(r) = 7 + n + Len(rest)
      /\ \A i \in 1 .. Len(rest) : r[n + 7 + i] = rest[i]
  <2>1. Len(rest) > 0
    BY <1>4
  <2>2. AllOf(r, q)
    BY <1>0, <1>5, <2>1, TableReply
  <2>3. rest \in Seq(Tokens)
    BY <1>5 DEF AllOf
  <2>4. /\ IsTable(r, n, q) /\ Len(r) = 7 + n + Len(rest)
        /\ \A i \in 1 .. Len(rest) : r[n + 7 + i] = rest[i]
    BY <1>0, <2>3, TableThen
  <2> QED BY <2>2, <2>4
<1> HIDE DEF A, r
<1>7. /\ AllOf(r, q) /\ IsTable(r, n, q) /\ r[n + 8] = end /\ Len(r) = 9 + n
      /\ r[n + 9] = FLUSH
  <2>1. 1 \in 1 .. Len(rest) /\ n + 7 + 1 = n + 8 /\ r[n + 7 + 1] = rest[1]
    BY <1>0, <1>4, <1>b
  <2>2. 2 \in 1 .. Len(rest) /\ r[n + 7 + 2] = rest[2]
    BY <1>4, <1>b
  <2>3. n + 7 + 2 = n + 9 /\ 7 + n + 2 = 9 + n
    BY <1>0
  <2> QED BY <1>4, <1>b, <2>1, <2>2, <2>3
<1>8. \A i \in 1 .. n + 7 : r[i] = A[i]
  BY <1>0, <1>6, <1>7, SameTable
<1>9. 8 + n = n + 8 /\ A[n + 8] = end
  BY <1>0, <1>6
<1>10. ASSUME NEW i \in 1 .. Len(r)
       PROVE  IF i <= Len(A) - 1 + 1 THEN r[i] = A[1 + i - 1] ELSE r[i] = FLUSH \/ (FALSE /\ r[i].q = q)
  <2>1. CASE i \in 1 .. n + 8
    <3>1. 1 + i - 1 = i /\ i <= Len(A) - 1 + 1 /\ (i \in 1 .. n + 7 \/ i = n + 8)
      BY <1>0, <1>6, <2>1
    <3> QED BY <1>7, <1>8, <1>9, <3>1
  <2>2. CASE i \notin 1 .. n + 8
    <3>1. i = n + 9 /\ ~(i <= Len(A) - 1 + 1)
      BY <1>0, <1>6, <1>7, <2>2
    <3> QED BY <1>7, <3>1
  <2> QED BY <2>1, <2>2
<1>11. Follows(r, A, 1, FALSE, q)
  BY <1>10 DEF Follows
<1>12. n = RowsIn(A)
  BY <1>0, <1>6 DEF RowsIn
<1>13. Well(r, n, q)
  BY <1>3, <1>7, <1>11, <1>12 DEF Well
<1> QED BY <1>13 DEF r, rest, end

\* y2parse fails: behind the answer so far, one more.
LEMMA HeadBadly ==
  ASSUME NEW q \in Nat, NEW v \in Errors
  PROVE  Badly(TableHead(q) \o Reply(v, q), q)
<1> DEFINE h == TableHead(q)
           last == Reply(v, q)
           s == Tok("Status", v, q)
           c == h \o last
<1>1. AllOf(last, q) /\ Len(last) = 3 /\ last[1] = s /\ last \in Seq(Tokens)
  BY ReplyOf, Replied
<1>2. h \in Seq(Tokens) /\ Len(h) = 7
  BY HeadShape
<1> HIDE DEF h, last, s
<1>4. /\ c \in Seq(Tokens) /\ Len(c) = 10
      /\ \A i \in 1 .. 7 : c[i] = h[i]
      /\ \A i \in 1 .. 3 : c[7 + i] = last[i]
  <2>1. /\ c \in Seq(Tokens) /\ Len(c) = Len(h) + Len(last)
        /\ \A i \in 1 .. Len(h) : c[i] = h[i]
        /\ \A i \in 1 .. Len(last) : c[Len(h) + i] = last[i]
    <3>1. h \in Seq(Tokens) /\ last \in Seq(Tokens)
      BY <1>1, <1>2
    <3> QED BY <3>1, ConcatProperties
  <2> HIDE DEF c
  <2>2. \A i \in 1 .. 7 : i \in 1 .. Len(h)
    BY <1>2
  <2>3. \A i \in 1 .. 3 : i \in 1 .. Len(last)
    BY <1>1
  <2>4. Len(c) = 10 /\ Len(h) = 7
    BY <1>1, <1>2, <2>1
  <2> QED BY <2>1, <2>2, <2>3, <2>4
<1> HIDE DEF c
<1>5. IsTable(c, 0, q)
  <2>1. c[1] = h[1] /\ c[2] = h[2] /\ c[3] = h[3] /\ c[4] = h[4] /\ c[5] = h[5]
        /\ c[6] = h[6] /\ c[7] = h[7]
    BY <1>4
  <2>2. /\ c[1] = Tok("Status", OK, q) /\ c[2] = Tok("Body", 0, q) /\ c[3] = Tok("$$", 0, q)
        /\ c[4] = Tok("TABHEADER", 0, q) /\ c[5] = Tok("ROW", "column", q)
        /\ c[6] = Tok("END", 0, q) /\ c[7] = Tok("TABDATA", 0, q)
    BY <2>1, HeadShape DEF h
  <2>3. Len(c) >= 0 + 7 /\ \A i \in 8 .. 0 + 7 : FALSE
    BY <1>4
  <2> QED BY <1>4, <2>2, <2>3 DEF IsTable
<1>6. \A i \in 0 + 8 .. Len(c) : c[i] = FLUSH \/ c[i].q = q
  <2> TAKE i \in 0 + 8 .. Len(c)
  <2>1. i - 7 \in 1 .. 3 /\ 7 + (i - 7) = i
    BY <1>4
  <2>2. i - 7 \in 1 .. Len(last) /\ c[i] = last[i - 7]
    BY <1>1, <1>4, <2>1
  <2> QED BY <1>1, <2>2 DEF AllOf
<1>7. AllOf(c, q)
  BY <1>5, <1>6, TableAll
<1>8. 0 \in 0 .. MaxRows /\ c[0 + 8] = s
  <2>1. 1 \in 1 .. 3 /\ 7 + 1 = 0 + 8 /\ 0 \in 0 .. MaxRows
    BY ProtocolAssumption
  <2> QED BY <1>1, <1>4, <2>1
<1>9. \E A \in BadAnswers(q) : Follows(c, A, 1, TRUE, q)
  BY <1>5, <1>7, <1>8, BadLater DEF s
<1>10. Badly(c, q)
  BY <1>7, <1>9 DEF Badly
<1> QED BY <1>10 DEF c, h, last

LEMMA RowsBadly ==
  ASSUME NEW q \in Nat, NEW v \in Errors, NEW n \in 0 .. MaxRows, NEW b, AllOf(b, q)
  PROVE  Badly((TableHead(q) \o Rows(n, q) \o Reply(v, q)) \o b, q)
<1> DEFINE rest == Reply(v, q)
           toks == TableHead(q) \o Rows(n, q) \o rest
           c == toks \o b
<1>0. n \in Nat
  BY ProtocolAssumption
<1>1. AllOf(rest, q) /\ Len(rest) = 3 /\ rest[1] = Tok("Status", v, q)
  BY ReplyOf, Replied
<1> HIDE DEF rest
<1>2. /\ AllOf(toks, q) /\ IsTable(toks, n, q) /\ Len(toks) = 7 + n + Len(rest)
      /\ \A i \in 1 .. Len(rest) : toks[n + 7 + i] = rest[i]
  <2>1. Len(rest) > 0
    BY <1>1
  <2>2. AllOf(rest, q)
    BY <1>1
  <2>3. AllOf(toks, q)
    BY <1>0, <2>1, <2>2, TableReply
  <2>4. rest \in Seq(Tokens)
    BY <2>2 DEF AllOf
  <2>5. /\ IsTable(toks, n, q) /\ Len(toks) = 7 + n + Len(rest)
        /\ \A i \in 1 .. Len(rest) : toks[n + 7 + i] = rest[i]
    BY <1>0, <2>4, TableThen
  <2> QED BY <2>3, <2>5
<1> HIDE DEF toks
<1>3. toks[n + 8] = Tok("Status", v, q) /\ Len(toks) = 7 + n + 3
  <2>1. 1 \in 1 .. Len(rest) /\ n + 7 + 1 = n + 8
    BY <1>0, <1>1
  <2> QED BY <1>1, <1>2, <2>1
<1>4. AllOf(c, q) /\ Len(c) = Len(toks) + Len(b) /\ \A i \in 1 .. Len(toks) : c[i] = toks[i]
  BY <1>2, AllOfConcat
<1> HIDE DEF c
<1>6. IsTable(c, n, q)
  <2>1. Len(c) >= Len(toks) /\ c \in Seq(Tokens)
    <3>1. Len(b) \in Nat /\ Len(toks) \in Nat
      BY <1>0, <1>3, LenProperties DEF AllOf
    <3> QED BY <1>4, <3>1 DEF AllOf
  <2> QED BY <1>0, <1>2, <1>4, <2>1, TablePrefix
<1>7. c[n + 8] = Tok("Status", v, q)
  <2>1. n + 8 \in 1 .. Len(toks)
    BY <1>0, <1>3
  <2> QED BY <1>3, <1>4, <2>1
<1>8. \E A \in BadAnswers(q) : Follows(c, A, 1, TRUE, q)
  BY <1>4, <1>6, <1>7, BadLater
<1>9. Badly(c, q)
  BY <1>4, <1>8 DEF Badly
<1> QED BY <1>9 DEF c, toks, rest

LEMMA AbortBadly ==
  ASSUME NEW q \in Nat, NEW toks,
         \/ toks = <<>>
         \/ \E v \in Errors : toks = Reply(v, q)
         \/ toks = TableHead(q)
         \/ \E n \in 0 .. MaxRows, v \in Errors : toks = TableHead(q) \o Rows(n, q) \o Reply(v, q)
  PROVE  Badly(toks \o Reply("parser_error", q), q)
<1> DEFINE last == Reply("parser_error", q)
<1>1. "parser_error" \in Errors
  BY DEF Errors
<1>2. AllOf(last, q) /\ last \in Seq(Tokens) /\ Badly(last, q)
  BY <1>1, ReplyOf, Replied, ReplyBadly
<1>3. ASSUME toks = TableHead(q) PROVE Badly(toks \o last, q)
  BY <1>1, <1>3, HeadBadly
<1>4. ASSUME toks = <<>> PROVE Badly(toks \o last, q)
  <2> HIDE DEF last
  <2>1. <<>> \o last = last
    BY <1>2, ConcatEmptySeq
  <2> QED BY <1>2, <1>4, <2>1
<1>5. ASSUME NEW v \in Errors, toks = Reply(v, q) PROVE Badly(toks \o last, q)
  <2> HIDE DEF last
  <2> QED BY <1>2, <1>5, ReplyBadly
<1>6. ASSUME NEW n \in 0 .. MaxRows, NEW v \in Errors, toks = TableHead(q) \o Rows(n, q) \o Reply(v, q)
      PROVE  Badly(toks \o last, q)
  BY <1>2, <1>6, RowsBadly
<1> HIDE DEF last
<1>7. Badly(toks \o last, q)
  BY <1>3, <1>4, <1>5, <1>6
<1> QED BY <1>7 DEF last

\* What an execution e of a statement for the query q comes to.
Good(e, q) == e.abort = FALSE /\ e.status = OK /\ Well(e.toks, e.rows, q)
Bad(e, q) == e.abort \in BOOLEAN /\ Badly(e.toks, q)

LEMMA Doing ==
  ASSUME NEW q, NEW toks, NEW status, NEW rows
  PROVE  /\ status = OK /\ Well(toks, rows, q) => Good(Done(toks, status, rows), q)
         /\ Badly(toks, q) => Bad(Done(toks, status, rows), q)
<1>1. /\ Done(toks, status, rows).toks = toks /\ Done(toks, status, rows).status = status
      /\ Done(toks, status, rows).rows = rows /\ Done(toks, status, rows).abort = FALSE
  BY DEF Done
<1> QED BY <1>1 DEF Good, Bad

LEMMA Aborting ==
  ASSUME NEW q, NEW toks, NEW status, Badly(toks \o Reply("parser_error", q), q)
  PROVE  Bad(Abort(toks, status, q), q)
<1> DEFINE c == toks \o Reply("parser_error", q)
<1>1. /\ Abort(toks, status, q).toks = c
      /\ Abort(toks, status, q).abort = TRUE
  BY DEF Abort
<1>2. Badly(c, q)
  OBVIOUS
<1> HIDE DEF c
<1> QED BY <1>1, <1>2 DEF Bad

LEMMA Executed ==
  ASSUME NEW q \in Nat, NEW stmt, NEW e \in Executions(stmt, q)
  PROVE  stmt \in Statements \ {"garbled"} /\ (Good(e, q) \/ Bad(e, q))
<1>0. "refused" \in Errors /\ "mismatch" \in Errors
  BY DEF Errors
<1>1. Good(Done(Reply(OK, q), OK, 0), q)
  BY ReplyWell, Doing
<1>2. Bad(Done(Reply("refused", q), "refused", 0), q)
  BY <1>0, ReplyBadly, Doing
<1>3. Bad(Done(Reply("refused", q) \o Reply(OK, q), "refused", 0), q)
  <2>1. AllOf(Reply(OK, q), q)
    BY ReplyOf
  <2>2. Badly(Reply("refused", q) \o Reply(OK, q), q)
    BY <1>0, <2>1, ReplyBadly
  <2> QED BY <2>2, Doing
<1>4. Bad(Done(Reply("refused", q) \o <<Tok("END", 0, q), FLUSH>>, "refused", 0), q)
  <2> DEFINE rest == <<Tok("END", 0, q), FLUSH>>
  <2>1. AllOf(rest, q)
    <3> DEFINE end == Tok("END", 0, q)
    <3>1. end \in Tokens /\ end.q = q /\ FLUSH \in Tokens
      BY Tokened, FlushToken DEF IsToken
    <3> HIDE DEF end
    <3>2. <<end, FLUSH>> \in Seq(Tokens) /\ Len(<<end, FLUSH>>) = 2
          /\ <<end, FLUSH>>[1] = end /\ <<end, FLUSH>>[2] = FLUSH
      BY <3>1
    <3>3. \A i \in 1 .. 2 : i = 1 \/ i = 2
      OBVIOUS
    <3>4. AllOf(<<end, FLUSH>>, q)
      BY <3>1, <3>2, <3>3 DEF AllOf
    <3> QED BY <3>4 DEF end
  <2> HIDE DEF rest
  <2>2. Badly(Reply("refused", q) \o rest, q)
    BY <1>0, <2>1, ReplyBadly
  <2>3. Bad(Done(Reply("refused", q) \o rest, "refused", 0), q)
    BY <2>2, Doing
  <2> QED BY <2>3 DEF rest
<1>5. \A n \in 0 .. MaxRows : Good(Found(n, q), q)
  <2> TAKE n \in 0 .. MaxRows
  <2> DEFINE r == TableHead(q) \o Rows(n, q) \o <<Tok("END", 0, q), FLUSH>>
  <2>1. Well(r, n, q)
    BY FoundWell
  <2>2. Found(n, q) = Done(r, OK, n)
    BY DEF Found
  <2> HIDE DEF r
  <2> QED BY <2>1, <2>2, Doing
<1>6. \A v \in Errors : \A status : Bad(Abort(Reply(v, q), status, q), q)
  BY AbortBadly, Aborting
<1>7. \A status : Bad(Abort(<<>>, status, q), q)
  BY AbortBadly, Aborting
<1>8. \A status : Bad(Abort(TableHead(q), status, q), q)
  BY AbortBadly, Aborting
<1>9. \A n \in 0 .. MaxRows : \A status :
        Bad(Abort(TableHead(q) \o Rows(n, q) \o Reply("mismatch", q), status, q), q)
  BY <1>0, AbortBadly, Aborting
<1>10. CASE stmt = "command" /\ e \in Command(q)
  BY <1>1, <1>2, <1>7, <1>10 DEF Command, Statements
<1>11. CASE stmt = "delete" /\ e \in Delete(q)
  BY <1>0, <1>1, <1>3, <1>6, <1>11 DEF Delete, Statements
<1>12. CASE stmt = "delete_where" /\ e \in DeleteWhere(q)
  BY <1>0, <1>1, <1>6, <1>7, <1>12 DEF DeleteWhere, Statements
<1>13. CASE stmt = "select" /\ e \in Select(q)
  BY <1>4, <1>5, <1>13 DEF Select, Statements
<1>14. CASE stmt = "select_where" /\ e \in SelectWhere(q)
  BY <1>0, <1>5, <1>6, <1>8, <1>9, <1>14 DEF SelectWhere, Statements
<1> QED BY <1>10, <1>11, <1>12, <1>13, <1>14 DEF Executions

-----------------------------------------------------------------------------
(* Reading an answer.                                                      *)

\* The k-th token of an answer, when it is not its last.
Inside(x, k) ==
  /\ k = 1 => x.t = "Status" /\ x.v = OK
  /\ k = 2 => x.t = "Body"
  /\ k = 3 => x.t = "$$"
  /\ k = 4 => x.t = "TABHEADER"
  /\ k = 5 => x.t = "ROW"
  /\ k = 6 => x.t = "END"
  /\ k = 7 => x.t = "TABDATA"
  /\ k >= 8 => x.t = "ROW"

LastGood(x, k) == (k = 2 /\ x.t = "$$") \/ (k >= 8 /\ x.t = "END")
LastBad(x, k) == (k = 1 \/ k >= 8) /\ x.t = "Status" /\ x.v \in Errors

LEMMA TableInside ==
  ASSUME NEW n \in Nat, NEW q \in Nat, NEW A, IsTable(A, n, q), NEW k \in 1 .. n + 7
  PROVE  Inside(A[k], k)
<1>1. k = 1 \/ k = 2 \/ k = 3 \/ k = 4 \/ k = 5 \/ k = 6 \/ k = 7 \/ k \in 8 .. n + 7
  OBVIOUS
<1>2. \A t, v : Tok(t, v, q).t = t /\ Tok(t, v, q).v = v
  BY DEF Tok
<1>3. CASE k \in 8 .. n + 7
  <2>1. A[k].t = "ROW"
    BY <1>2, <1>3 DEF IsTable
  <2> QED BY <1>3, <2>1 DEF Inside
<1>4. ASSUME k = 1 PROVE Inside(A[k], k)
  BY <1>2, <1>4 DEF IsTable, Inside
<1>5. ASSUME k = 2 PROVE Inside(A[k], k)
  BY <1>2, <1>5 DEF IsTable, Inside
<1>6. ASSUME k = 3 PROVE Inside(A[k], k)
  BY <1>2, <1>6 DEF IsTable, Inside
<1>7. ASSUME k = 4 PROVE Inside(A[k], k)
  BY <1>2, <1>7 DEF IsTable, Inside
<1>8. ASSUME k = 5 PROVE Inside(A[k], k)
  BY <1>2, <1>8 DEF IsTable, Inside
<1>9. ASSUME k = 6 PROVE Inside(A[k], k)
  BY <1>2, <1>9 DEF IsTable, Inside
<1>10. ASSUME k = 7 PROVE Inside(A[k], k)
  BY <1>2, <1>10 DEF IsTable, Inside
<1> QED BY <1>1, <1>3, <1>4, <1>5, <1>6, <1>7, <1>8, <1>9, <1>10

LEMMA GoodShape ==
  ASSUME NEW q \in Nat, NEW A \in GoodAnswers(q), NEW k \in 1 .. Len(A)
  PROVE  /\ Len(A) \in 1 .. MaxRows + 8 /\ RowsIn(A) = IF Len(A) = 2 THEN 0 ELSE Len(A) - 8
         /\ IF k < Len(A) THEN Inside(A[k], k) ELSE LastGood(A[k], k)
<1>0. \A t, v : Tok(t, v, q).t = t /\ Tok(t, v, q).v = v
  BY DEF Tok
<1>1. CASE A = Short(q)
  <2>1. Len(A) = 2 /\ A[1] = Tok("Status", OK, q) /\ A[2] = Tok("$$", 0, q)
    BY <1>1 DEF Short
  <2>2. A[1].t = "Status" /\ A[1].v = OK /\ A[2].t = "$$"
    BY <1>0, <2>1
  <2>3. k = 1 \/ k = 2
    BY <2>1
  <2>4. ASSUME k = 1 PROVE Inside(A[k], k) /\ k < Len(A)
    BY <2>1, <2>2, <2>4 DEF Inside
  <2>5. ASSUME k = 2 PROVE LastGood(A[k], k) /\ ~(k < Len(A))
    BY <2>1, <2>2, <2>5 DEF LastGood
  <2>6. Len(A) \in 1 .. MaxRows + 8
    BY <2>1, ProtocolAssumption
  <2> QED BY <2>3, <2>4, <2>5, <2>6 DEF RowsIn
<1>2. ASSUME NEW n \in 0 .. MaxRows, A = Table(n, Tok("END", 0, q), q)
      PROVE  /\ Len(A) \in 1 .. MaxRows + 8
             /\ IF k < Len(A) THEN Inside(A[k], k) ELSE LastGood(A[k], k)
  <2> DEFINE last == Tok("END", 0, q)
  <2>0. n \in Nat /\ last.t = "END"
    BY <1>0, ProtocolAssumption
  <2>1. last \in Tokens /\ A = Table(n, last, q)
    BY <1>2, Tokened DEF IsToken
  <2> HIDE DEF last
  <2>2. IsTable(A, n, q) /\ Len(A) = 8 + n /\ A[8 + n] = last
    BY <2>0, <2>1, TableShape
  <2>3. Len(A) \in 1 .. MaxRows + 8
    BY <2>0, <2>2, ProtocolAssumption
  <2>4. CASE k < Len(A)
    <3>1. k \in 1 .. n + 7
      BY <2>0, <2>2, <2>4
    <3> QED BY <2>0, <2>2, <2>3, <2>4, <3>1, TableInside
  <2>5. CASE ~(k < Len(A))
    <3>1. k = 8 + n /\ k >= 8
      BY <2>0, <2>2, <2>5
    <3> QED BY <2>0, <2>2, <2>3, <2>5, <3>1 DEF LastGood
  <2> QED BY <2>4, <2>5
<1> QED BY <1>1, <1>2 DEF GoodAnswers, RowsIn

LEMMA BadShape ==
  ASSUME NEW q \in Nat, NEW A \in BadAnswers(q), NEW k \in 1 .. Len(A)
  PROVE  /\ Len(A) \in 1 .. MaxRows + 8
         /\ IF k < Len(A) THEN Inside(A[k], k) ELSE LastBad(A[k], k)
<1>0. \A t, v : Tok(t, v, q).t = t /\ Tok(t, v, q).v = v
  BY DEF Tok
<1>1. ASSUME NEW v \in Errors, A = <<Tok("Status", v, q)>>
      PROVE  /\ Len(A) \in 1 .. MaxRows + 8
             /\ IF k < Len(A) THEN Inside(A[k], k) ELSE LastBad(A[k], k)
  <2> DEFINE s == Tok("Status", v, q)
  <2>1. s.t = "Status" /\ s.v = v /\ A = <<s>>
    BY <1>0, <1>1
  <2> HIDE DEF s
  <2>2. Len(A) = 1 /\ A[1] = s
    BY <2>1
  <2>3. k = 1 /\ ~(k < Len(A)) /\ Len(A) \in 1 .. MaxRows + 8
    BY <2>2, ProtocolAssumption
  <2>4. LastBad(A[k], k)
    BY <2>1, <2>2, <2>3 DEF LastBad
  <2> QED BY <2>3, <2>4
<1>2. ASSUME NEW n \in 0 .. MaxRows, NEW v \in Errors, A = Table(n, Tok("Status", v, q), q)
      PROVE  /\ Len(A) \in 1 .. MaxRows + 8
             /\ IF k < Len(A) THEN Inside(A[k], k) ELSE LastBad(A[k], k)
  <2> DEFINE last == Tok("Status", v, q)
  <2>0. n \in Nat /\ last.t = "Status" /\ last.v = v
    BY <1>0, ProtocolAssumption
  <2>1. last \in Tokens /\ A = Table(n, last, q)
    BY <1>2, Tokened DEF IsToken
  <2> HIDE DEF last
  <2>2. IsTable(A, n, q) /\ Len(A) = 8 + n /\ A[8 + n] = last
    BY <2>0, <2>1, TableShape
  <2>3. Len(A) \in 1 .. MaxRows + 8
    BY <2>0, <2>2, ProtocolAssumption
  <2>4. CASE k < Len(A)
    <3>1. k \in 1 .. n + 7
      BY <2>0, <2>2, <2>4
    <3> QED BY <2>0, <2>2, <2>3, <2>4, <3>1, TableInside
  <2>5. CASE ~(k < Len(A))
    <3>1. k = 8 + n /\ k >= 8
      BY <2>0, <2>2, <2>5
    <3> QED BY <2>0, <2>2, <2>3, <2>5, <3>1 DEF LastBad
  <2> QED BY <2>4, <2>5
<1> QED BY <1>1, <1>2 DEF BadAnswers

LEMMA ReadInside ==
  ASSUME NEW k \in 1 .. MaxRows + 7, At(cpc, conn, k), conn \in Conns, Inside(Top, k), Receive
  PROVE  At(cpc', conn', k + 1) /\ conn' \in Conns /\ conn'.status = conn.status
<1>0. MaxRows \in Nat
  BY ProtocolAssumption
<1>1. k = 1 \/ k = 2 \/ k = 3 \/ k = 4 \/ k = 5 \/ k = 6 \/ k = 7 \/ k >= 8
  BY <1>0
<1>2. CASE k = 1
  BY <1>2 DEF At, Inside, Receive, RecvHeader, RecvCmd, RecvColumn, RecvRow, Go
<1>3. CASE k = 2
  <2>1. cpc = "header" /\ conn.columnsz = 0 /\ conn.rows = 0 /\ Top.t = "Body"
    BY <1>3 DEF At, Inside
  <2>2. conn' = [conn EXCEPT !.body = TRUE] /\ cpc' = "header"
    BY <2>1 DEF Receive, RecvHeader, RecvCmd, RecvColumn, RecvRow
  <2>3. conn'.body = TRUE /\ conn'.columnsz = 0 /\ conn'.rows = 0 /\ conn' \in Conns
        /\ conn'.status = conn.status
    BY <2>1, <2>2 DEF Conns
  <2> QED BY <1>3, <2>2, <2>3 DEF At
<1>4. CASE k = 3
  <2>1. cpc = "header" /\ conn.columnsz = 0 /\ conn.rows = 0 /\ Top.t = "$$"
    BY <1>4 DEF At, Inside
  <2>2. conn.body = TRUE
    BY <1>4 DEF At
  <2>3. conn' = conn /\ cpc' = "tabheader"
    BY <2>1, <2>2 DEF Receive, RecvHeader, RecvCmd, RecvColumn, RecvRow, Go
  <2> QED BY <1>4, <2>1, <2>2, <2>3 DEF At
<1>5. CASE k = 4
  BY <1>5 DEF At, Inside, Receive, RecvHeader, RecvCmd, RecvColumn, RecvRow, Go
<1>6. CASE k = 5
  BY <1>6 DEF At, Inside, Receive, RecvHeader, RecvCmd, RecvColumn, RecvRow, Go, Conns
<1>7. CASE k = 6
  BY <1>7 DEF At, Inside, Receive, RecvHeader, RecvCmd, RecvColumn, RecvRow, Go
<1>8. CASE k = 7
  BY <1>8 DEF At, Inside, Receive, RecvHeader, RecvCmd, RecvColumn, RecvRow, Go
<1>9. CASE k >= 8
  <2>1. cpc = "rows" /\ conn.rows = k - 8 /\ conn.body = TRUE /\ conn.columnsz = 1 /\ Top.t = "ROW"
    BY <1>0, <1>9 DEF At, Inside
  <2>2. conn' = [conn EXCEPT !.rows = @ + 1] /\ cpc' = "rows"
    BY <2>1 DEF Receive, RecvHeader, RecvCmd, RecvColumn, RecvRow
  <2>3. conn'.rows = k - 7 /\ conn'.body = TRUE /\ conn'.columnsz = 1 /\ conn' \in Conns
        /\ conn'.status = conn.status
    BY <1>0, <1>9, <2>1, <2>2 DEF Conns
  <2> QED BY <1>0, <1>9, <2>2, <2>3 DEF At
<1> QED BY <1>1, <1>2, <1>3, <1>4, <1>5, <1>6, <1>7, <1>8, <1>9

LEMMA ReadLast ==
  ASSUME NEW k \in Nat, At(cpc, conn, k), conn \in Conns, Receive
  PROVE  /\ LastGood(Top, k) => cpc' = "idle" /\ conn' \in Conns /\ conn'.status = OK
         /\ LastBad(Top, k) => cpc' \in {"idle", "exit"} /\ conn' \in Conns /\ conn'.status # OK
<1>1. ASSUME LastGood(Top, k), k = 2
      PROVE  cpc' = "idle" /\ conn' \in Conns /\ conn'.status = OK
  BY <1>1 DEF LastGood, At, Receive, RecvHeader, RecvCmd, RecvColumn, RecvRow, Return, Conns, OK
<1>2. ASSUME LastGood(Top, k), k >= 8
      PROVE  cpc' = "idle" /\ conn' \in Conns /\ conn'.status = OK
  BY <1>2 DEF LastGood, At, Receive, RecvHeader, RecvCmd, RecvColumn, RecvRow, Return, Conns, OK
<1>3. ASSUME LastBad(Top, k), k = 1
      PROVE  cpc' \in {"idle", "exit"} /\ conn' \in Conns /\ conn'.status # OK
  BY <1>3 DEF LastBad, At, Receive, RecvHeader, RecvCmd, RecvColumn, RecvRow, Return, Go, Conns, Errors, OK
<1>4. ASSUME LastBad(Top, k), k >= 8
      PROVE  cpc' \in {"idle", "exit"} /\ conn' \in Conns /\ conn'.status # OK
  BY <1>4 DEF LastBad, At, Receive, RecvHeader, RecvCmd, RecvColumn, RecvRow, Return, Misread, Text,
              Conns, ClientErrors, OK
<1> QED BY <1>1, <1>2, <1>3, <1>4 DEF LastGood, LastBad

-----------------------------------------------------------------------------
(* The stream between the worker and the client.                           *)

LEMMA FollowsTail ==
  ASSUME NEW r \in Seq(Tokens), NEW r2 \in Seq(Tokens), Len(r) >= 1, Len(r2) = Len(r) - 1,
         \A i \in 1 .. Len(r2) : r2[i] = r[i + 1],
         NEW A, NEW q, Sound(A, q), NEW k \in 1 .. Len(A), NEW bad \in BOOLEAN, Follows(r, A, k, bad, q)
  PROVE  /\ r[1] = A[k]
         /\ k < Len(A) => Follows(r2, A, k + 1, bad, q)
         /\ k = Len(A) /\ bad = FALSE => Empty(r2)
<1>0. Len(r) \in Nat /\ Len(r2) \in Nat /\ Len(A) \in Nat
  BY LenProperties DEF Sound
<1>1. r[1] = A[k]
  <2>1. 1 \in 1 .. Len(r) /\ 1 <= Len(A) - k + 1 /\ k + 1 - 1 = k
    BY <1>0
  <2> QED BY <2>1 DEF Follows
<1>2. ASSUME NEW i \in 1 .. Len(r2)
      PROVE  IF i <= Len(A) - k THEN r2[i] = A[k + i] ELSE r2[i] = FLUSH \/ (bad /\ r2[i].q = q)
  <2>1. i + 1 \in 1 .. Len(r) /\ k + (i + 1) - 1 = k + i /\ (i + 1 <= Len(A) - k + 1 <=> i <= Len(A) - k)
    BY <1>0
  <2>2. r2[i] = r[i + 1]
    OBVIOUS
  <2> HIDE DEF Sound
  <2>3. IF i + 1 <= Len(A) - k + 1 THEN r[i + 1] = A[k + (i + 1) - 1]
        ELSE r[i + 1] = FLUSH \/ (bad /\ r[i + 1].q = q)
    BY <2>1 DEF Follows
  <2> QED BY <2>1, <2>2, <2>3
<1>3. ASSUME k < Len(A) PROVE Follows(r2, A, k + 1, bad, q)
  <2>1. \A i \in 1 .. Len(r2) : (i <= Len(A) - (k + 1) + 1 <=> i <= Len(A) - k) /\ (k + 1) + i - 1 = k + i
    BY <1>0
  <2> QED BY <1>2, <2>1 DEF Follows
<1>4. ASSUME k = Len(A), bad = FALSE PROVE Empty(r2)
  <2>1. \A i \in 1 .. Len(r2) : ~(i <= Len(A) - k)
    BY <1>0, <1>4
  <2> QED BY <1>2, <1>4, <2>1 DEF Empty
<1> QED BY <1>1, <1>3, <1>4

\* A flush is taken out of the stream.
LEMMA Dropped ==
  ASSUME NEW r \in Seq(Tokens), NEW r2 \in Seq(Tokens), NEW p \in 1 .. Len(r), r[p] = FLUSH,
         Len(r2) = Len(r) - 1, \A i \in 1 .. Len(r2) : r2[i] = IF i < p THEN r[i] ELSE r[i + 1]
  PROVE  /\ Empty(r) => Empty(r2)
         /\ \A A, q, bad : \A k \in 1 .. Len(A) :
              Sound(A, q) /\ Follows(r, A, k, bad, q) => Follows(r2, A, k, bad, q)
<1>0. Len(r) \in Nat /\ Len(r2) \in Nat
  BY LenProperties
<1>1. \A i \in 1 .. Len(r2) : i \in 1 .. Len(r) /\ i + 1 \in 1 .. Len(r)
  BY <1>0
<1>2. Empty(r) => Empty(r2)
  <2> SUFFICES ASSUME Empty(r), NEW i \in 1 .. Len(r2) PROVE r2[i] = FLUSH
    BY DEF Empty
  <2>1. r[i] = FLUSH /\ r[i + 1] = FLUSH
    BY <1>1 DEF Empty
  <2>2. r2[i] = IF i < p THEN r[i] ELSE r[i + 1]
    OBVIOUS
  <2> QED BY <2>1, <2>2
<1>3. ASSUME NEW A, NEW q, NEW bad, NEW k \in 1 .. Len(A), Sound(A, q), Follows(r, A, k, bad, q)
      PROVE  Follows(r2, A, k, bad, q)
  <2>0. Len(A) \in Nat
    BY <1>3 DEF Sound
  <2>1. \A i \in 1 .. Len(r) : IF i <= Len(A) - k + 1 THEN r[i] = A[k + i - 1]
                               ELSE r[i] = FLUSH \/ (bad /\ r[i].q = q)
    BY <1>3 DEF Follows
  <2>2. ~(p <= Len(A) - k + 1)
    <3>1. SUFFICES ASSUME p <= Len(A) - k + 1 PROVE FALSE
      OBVIOUS
    <3>2. k + p - 1 \in 1 .. Len(A)
      BY <1>0, <2>0, <3>1
    <3>3. IsToken(A[k + p - 1], q)
      BY <1>3, <3>2 DEF Sound
    <3>4. r[p] = A[k + p - 1]
      BY <2>1, <3>1
    <3> QED BY <3>3, <3>4 DEF IsToken
  <2>3. ASSUME NEW i \in 1 .. Len(r2)
        PROVE  IF i <= Len(A) - k + 1 THEN r2[i] = A[k + i - 1]
               ELSE r2[i] = FLUSH \/ (bad /\ r2[i].q = q)
    <3>1. CASE i < p
      <4>1. r2[i] = r[i]
        BY <3>1
      <4> QED BY <1>1, <2>1, <4>1
    <3>2. CASE ~(i < p)
      <4>1. r2[i] = r[i + 1]
        BY <3>2
      <4>2. ~(i <= Len(A) - k + 1) /\ ~(i + 1 <= Len(A) - k + 1)
        BY <1>0, <2>0, <2>2, <3>2
      <4>3. r[i + 1] = FLUSH \/ (bad /\ r[i + 1].q = q)
        BY <1>1, <2>1, <4>2
      <4> QED BY <4>1, <4>2, <4>3
    <3> QED BY <3>1, <3>2
  <2> QED BY <2>3 DEF Follows
<1> QED BY <1>2, <1>3

\* The end of the stream is lost.
LEMMA Shortened ==
  ASSUME NEW r \in Seq(Tokens), NEW r2 \in Seq(Tokens), Len(r2) <= Len(r),
         \A i \in 1 .. Len(r2) : r2[i] = r[i]
  PROVE  /\ Empty(r) => Empty(r2)
         /\ \A A, q, bad, k : Follows(r, A, k, bad, q) => Follows(r2, A, k, bad, q)
<1>0. \A i \in 1 .. Len(r2) : i \in 1 .. Len(r)
  BY LenProperties
<1>1. Empty(r) => Empty(r2)
  BY <1>0 DEF Empty
<1>2. ASSUME NEW A, NEW q, NEW bad, NEW k, Follows(r, A, k, bad, q) PROVE Follows(r2, A, k, bad, q)
  BY <1>0, <1>2 DEF Follows
<1> QED BY <1>1, <1>2

LEMMA UptoTokens ==
  ASSUME NEW n \in Nat
  PROVE  /\ \A s \in Seq(Upto(n)) : s \in Seq(Tokens)
         /\ \A s \in Seq(Upto(n) \ {FLUSH}) :
              s \in Seq(Tokens) /\ s \in Seq(Upto(n)) /\ \A i \in 1 .. Len(s) : s[i] # FLUSH
<1>1. Upto(n) \subseteq Tokens /\ Upto(n) \ {FLUSH} \subseteq Upto(n)
  BY DEF Upto
<1>2. \A s \in Seq(Upto(n)) : s \in Seq(Tokens)
  BY <1>1, SeqMonotonic
<1>3. \A s \in Seq(Upto(n) \ {FLUSH}) : s \in Seq(Upto(n))
  BY <1>1, SeqMonotonic
<1>4. ASSUME NEW s \in Seq(Upto(n) \ {FLUSH}), NEW i \in 1 .. Len(s) PROVE s[i] # FLUSH
  BY ElementOfSeq
<1> QED BY <1>2, <1>3, <1>4

LEMMA AllOfUpto ==
  ASSUME NEW n \in Nat, NEW q \in 0 .. n, NEW r, AllOf(r, q)
  PROVE  r \in Seq(Upto(n))
<1>1. r \in Seq(Tokens) /\ Len(r) \in Nat /\ r \in [1 .. Len(r) -> Tokens]
  BY LenProperties DEF AllOf
<1>2. \A i \in 1 .. Len(r) : r[i] \in Upto(n)
  BY <1>1, FlushToken DEF AllOf, Upto
<1>3. r \in [1 .. Len(r) -> Upto(n)]
  BY <1>1, <1>2
<1> QED BY <1>1, <1>3, SeqDef

LEMMA Streams ==
  ASSUME Types
  PROVE  /\ toClient \in Seq(Tokens) /\ sbuf \in Seq(Tokens) /\ out \in Seq(Tokens)
         /\ \A i \in 1 .. Len(toClient) : toClient[i] # FLUSH
         /\ \A i \in 1 .. Len(sbuf) : sbuf[i] # FLUSH
         /\ asked \in Nat
<1>1. asked \in Nat
  BY ProtocolAssumption DEF Types
<1> QED BY <1>1, UptoTokens DEF Types

\* With nothing but flushes coming, and the answer out of the parser, nothing is coming.
LEMMA Nothing ==
  ASSUME Types, out = <<>>, Empty(Coming)
  PROVE  /\ toClient = <<>> /\ sbuf = <<>>
         /\ \A o \in Seq(Tokens) : toClient \o sbuf \o o = o
<1> DEFINE c == toClient \o sbuf \o out
<1>1. toClient \in Seq(Tokens) /\ sbuf \in Seq(Tokens) /\ out \in Seq(Tokens)
  BY Streams
<1>2. /\ Len(c) = Len(toClient) + Len(sbuf) + Len(out)
      /\ Len(toClient) \in Nat /\ Len(sbuf) \in Nat /\ Len(out) \in Nat
      /\ \A i \in 1 .. Len(toClient) : c[i] = toClient[i]
      /\ \A i \in 1 .. Len(sbuf) : c[Len(toClient) + i] = sbuf[i]
  BY <1>1, Concat
<1>3. Empty(c)
  BY DEF Coming
<1> HIDE DEF c
<1>4. Len(toClient) = 0
  <2>1. SUFFICES ASSUME Len(toClient) # 0 PROVE FALSE
    OBVIOUS
  <2>2. 1 \in 1 .. Len(toClient) /\ 1 \in 1 .. Len(c)
    BY <1>2, <2>1
  <2> QED BY <1>2, <1>3, <2>2, Streams DEF Empty
<1>5. Len(sbuf) = 0
  <2>1. SUFFICES ASSUME Len(sbuf) # 0 PROVE FALSE
    OBVIOUS
  <2>2. 1 \in 1 .. Len(sbuf) /\ Len(toClient) + 1 \in 1 .. Len(c)
    BY <1>2, <2>1
  <2> QED BY <1>2, <1>3, <2>2, Streams DEF Empty
<1>6. toClient = <<>> /\ sbuf = <<>>
  BY <1>1, <1>4, <1>5, EmptySeq
<1>7. <<>> \o <<>> = <<>> /\ \A o \in Seq(Tokens) : <<>> \o o = o
  BY ConcatEmptySeq, EmptySeq
<1> QED BY <1>6, <1>7

-----------------------------------------------------------------------------
(* The steps of the worker.                                                *)

Live == cpc \notin {"start", "exit"} /\ conn.status = OK

LEMMA Worked ==
  ASSUME IInv, cpc # "start", UNCHANGED <<cpc, conn>>, Types', Live => Phase'
  PROVE  IInv'
<1>1. cpc' = cpc /\ conn' = conn
  OBVIOUS
<1> QED BY <1>1 DEF IInv, Live

\* A stream that lost a flush or its end still follows the answer.
LEMMA Fewer ==
  ASSUME Types, Phase, asked \in Nat,
         UNCHANGED <<cpc, conn, asked, truth>>,
         Empty(Coming) => Empty(Coming'),
         \A A, q, bad : \A k \in 1 .. Len(A) :
           Sound(A, q) /\ Follows(Coming, A, k, bad, q) => Follows(Coming', A, k, bad, q),
         srv' = "ended" \/ UNCHANGED <<srv, inBody, toWorker>>
  PROVE  Phase'
<1>0. /\ cpc' = cpc /\ conn' = conn /\ asked' = asked /\ truth' = truth
      /\ srv' = "ended" \/ (srv' = srv /\ inBody' = inBody /\ toWorker' = toWorker)
  OBVIOUS
<1>1. ASSUME Unanswered PROVE Unanswered'
  BY <1>0, <1>1 DEF Unanswered
<1>2. ASSUME AnsweredWell PROVE AnsweredWell'
  <2>1. PICK A \in GoodAnswers(asked) : \E k \in 1 .. Len(A) :
          /\ At(cpc, conn, k) /\ Follows(Coming, A, k, FALSE, asked)
          /\ asked > 0 => \A i \in DOMAIN truth[asked] :
               truth[asked][i].status = OK /\ truth[asked][i].rows = RowsIn(A)
    BY <1>2 DEF AnsweredWell
  <2>2. PICK k \in 1 .. Len(A) :
          /\ At(cpc, conn, k) /\ Follows(Coming, A, k, FALSE, asked)
          /\ asked > 0 => \A i \in DOMAIN truth[asked] :
               truth[asked][i].status = OK /\ truth[asked][i].rows = RowsIn(A)
    BY <2>1
  <2>3. Sound(A, asked)
    BY AnswersSound
  <2>4. Follows(Coming', A, k, FALSE, asked)
    BY <2>2, <2>3
  <2>5. \E B \in GoodAnswers(asked') : \E j \in 1 .. Len(B) :
          /\ At(cpc', conn', j) /\ Follows(Coming', B, j, FALSE, asked')
          /\ asked' > 0 => \A i \in DOMAIN truth'[asked'] :
               truth'[asked'][i].status = OK /\ truth'[asked'][i].rows = RowsIn(B)
    BY <1>0, <2>2, <2>4
  <2>6. srv' = "ended" \/ (srv' = "queries" /\ Behind(toWorker', inBody', asked'))
    BY <1>0, <1>2 DEF AnsweredWell
  <2> QED BY <2>5, <2>6 DEF AnsweredWell
<1>3. ASSUME AnsweredBadly PROVE AnsweredBadly'
  <2>1. PICK A \in BadAnswers(asked) : \E k \in 1 .. Len(A) :
          At(cpc, conn, k) /\ Follows(Coming, A, k, TRUE, asked)
    BY <1>3 DEF AnsweredBadly
  <2>2. PICK k \in 1 .. Len(A) : At(cpc, conn, k) /\ Follows(Coming, A, k, TRUE, asked)
    BY <2>1
  <2>3. Sound(A, asked)
    BY AnswersSound
  <2>4. Follows(Coming', A, k, TRUE, asked)
    BY <2>2, <2>3
  <2>5. \E B \in BadAnswers(asked') : \E j \in 1 .. Len(B) :
          At(cpc', conn', j) /\ Follows(Coming', B, j, TRUE, asked')
    BY <1>0, <2>2, <2>4
  <2>6. \/ srv' \in {"closing", "ended"}
        \/ srv' = "queries" /\ Behind(toWorker', inBody', asked')
        \/ srv' = "recovery" /\ (toWorker' = <<>> \/ Ending(toWorker', asked'))
    BY <1>0, <1>3 DEF AnsweredBadly
  <2> QED BY <2>5, <2>6 DEF AnsweredBadly
<1>4. ASSUME Settled PROVE Settled'
  BY <1>0, <1>4 DEF Settled
<1> QED BY <1>1, <1>2, <1>3, <1>4 DEF Phase

LEMMA SendStep ==
  ASSUME IInv, Send
  PROVE  IInv'
<1>1. Types /\ cpc # "start"
  BY DEF IInv, Starting, Send, Working
<1>2. /\ toClient \in Seq(Tokens) /\ sbuf \in Seq(Tokens) /\ out \in Seq(Tokens) /\ out # <<>>
      /\ asked \in Nat
  BY <1>1, Streams DEF Send
<1>3. /\ out' = Tail(out) /\ UNCHANGED <<cpc, conn, asked, toWorker, srv, inBody, truth>>
  BY DEF Send, clientVars
<1> DEFINE S == Upto(asked)
           W == S \ {FLUSH}
           h == Head(out)
<1>4. toClient \in Seq(W) /\ sbuf \in Seq(W) /\ out \in Seq(S)
  BY <1>1 DEF Types
<1>5. h \in S /\ Tail(out) \in Seq(S) /\ h \in Tokens /\ Tail(out) \in Seq(Tokens)
      /\ Len(Tail(out)) = Len(out) - 1 /\ \A i \in 1 .. Len(Tail(out)) : Tail(out)[i] = out[i + 1]
  BY <1>2, <1>4, HeadTailProperties
<1>6. CASE h = FLUSH
  <2>1. toClient' = toClient \o sbuf /\ sbuf' = <<>>
    BY <1>6 DEF Send
  <2>2. toClient' \in Seq(W) /\ sbuf' \in Seq(W)
    BY <1>4, <2>1, ConcatProperties, EmptySeq
  <2>3. Types'
    BY <1>1, <1>3, <1>5, <2>2 DEF Types
  <2> DEFINE r == toClient \o sbuf \o out
             r2 == (toClient \o sbuf) \o <<>> \o Tail(out)
             p == Len(toClient) + Len(sbuf) + 1
  <2>4. Coming = r /\ Coming' = r2
    BY <1>3, <2>1 DEF Coming
  <2>5. /\ r \in Seq(Tokens) /\ Len(r) = Len(toClient) + Len(sbuf) + Len(out)
        /\ Len(toClient) \in Nat /\ Len(sbuf) \in Nat /\ Len(out) \in Nat
        /\ \A i \in 1 .. Len(out) : r[Len(toClient) + Len(sbuf) + i] = out[i]
        /\ toClient \o sbuf \in Seq(Tokens) /\ Len(toClient \o sbuf) = Len(toClient) + Len(sbuf)
    <3>1. toClient \in Seq(Tokens) /\ sbuf \in Seq(Tokens) /\ out \in Seq(Tokens)
      BY <1>2
    <3> QED BY <3>1, Concat
  <2>6. \A i \in 1 .. Len(toClient \o sbuf) : r[i] = (toClient \o sbuf)[i]
    <3>1. toClient \o sbuf \in Seq(Tokens)
      BY <2>5
    <3> QED BY <1>2, <3>1, ConcatProperties
  <2>7. /\ r2 \in Seq(Tokens) /\ Len(r2) = Len(toClient \o sbuf) + Len(Tail(out))
        /\ \A i \in 1 .. Len(toClient \o sbuf) : r2[i] = (toClient \o sbuf)[i]
        /\ \A i \in 1 .. Len(Tail(out)) : r2[Len(toClient \o sbuf) + i] = Tail(out)[i]
    <3> DEFINE a == toClient \o sbuf
    <3>1. a \in Seq(Tokens)
      BY <2>5
    <3> HIDE DEF a
    <3>2. a \o <<>> = a
      BY <3>1, ConcatEmptySeq
    <3>3. Tail(out) \in Seq(Tokens)
      BY <1>5
    <3>4. /\ a \o Tail(out) \in Seq(Tokens) /\ Len(a \o Tail(out)) = Len(a) + Len(Tail(out))
          /\ Len(a) \in Nat /\ Len(Tail(out)) \in Nat
          /\ \A i \in 1 .. Len(a) : (a \o Tail(out))[i] = a[i]
          /\ \A i \in 1 .. Len(Tail(out)) : (a \o Tail(out))[Len(a) + i] = Tail(out)[i]
      BY <3>1, <3>3, ConcatProperties, LenProperties
    <3> QED BY <3>2, <3>4 DEF a
  <2> HIDE DEF r, r2
  <2>8. p \in 1 .. Len(r) /\ Len(r2) = Len(r) - 1 /\ Len(out) >= 1
    BY <1>2, <1>5, <2>5, <2>7, EmptySeq
  <2>9. r[p] = FLUSH
    <3>1. 1 \in 1 .. Len(out) /\ out[1] = h
      BY <2>8
    <3>2. r[Len(toClient) + Len(sbuf) + 1] = out[1]
      BY <2>5, <3>1
    <3> QED BY <1>6, <3>1, <3>2
  <2>10. \A i \in 1 .. Len(r2) : r2[i] = IF i < p THEN r[i] ELSE r[i + 1]
    <3> TAKE i \in 1 .. Len(r2)
    <3>1. CASE i < p
      <4>1. i \in 1 .. Len(toClient \o sbuf)
        BY <2>5, <3>1
      <4> QED BY <2>6, <2>7, <3>1, <4>1
    <3>2. CASE ~(i < p)
      <4> DEFINE j == i - Len(toClient) - Len(sbuf)
      <4>1. /\ j \in 1 .. Len(Tail(out)) /\ j + 1 \in 1 .. Len(out)
            /\ i = Len(toClient \o sbuf) + j /\ i + 1 = Len(toClient) + Len(sbuf) + (j + 1)
        <5>1. /\ Len(r2) = Len(toClient) + Len(sbuf) + Len(Tail(out))
              /\ Len(toClient \o sbuf) = Len(toClient) + Len(sbuf)
          BY <2>5, <2>7
        <5>2. /\ Len(toClient) \in Nat /\ Len(sbuf) \in Nat /\ Len(out) \in Nat
              /\ Len(Tail(out)) = Len(out) - 1
          BY <1>5, <2>5
        <5>3. i \in 1 .. Len(toClient) + Len(sbuf) + Len(Tail(out)) /\ ~(i < Len(toClient) + Len(sbuf) + 1)
          BY <3>2, <5>1
        <5>4. \A x, y, o \in Nat : i \in 1 .. x + y + (o - 1) /\ ~(i < x + y + 1) =>
                 /\ i - x - y \in 1 .. o - 1 /\ (i - x - y) + 1 \in 1 .. o
                 /\ i = x + y + (i - x - y) /\ i + 1 = x + y + ((i - x - y) + 1)
          OBVIOUS
        <5>5. /\ j \in 1 .. Len(out) - 1 /\ j + 1 \in 1 .. Len(out)
              /\ i = Len(toClient) + Len(sbuf) + j /\ i + 1 = Len(toClient) + Len(sbuf) + (j + 1)
          BY <5>2, <5>3, <5>4
        <5> QED BY <5>1, <5>2, <5>5
      <4> HIDE DEF j
      <4>2. r2[i] = Tail(out)[j] /\ r[i + 1] = out[j + 1]
        BY <2>5, <2>7, <4>1
      <4>3. Tail(out)[j] = out[j + 1]
        BY <1>5, <4>1
      <4> QED BY <3>2, <4>2, <4>3
    <3> QED BY <3>1, <3>2
  <2>11. /\ Empty(r) => Empty(r2)
         /\ \A A, q, bad : \A k \in 1 .. Len(A) :
              Sound(A, q) /\ Follows(r, A, k, bad, q) => Follows(r2, A, k, bad, q)
    <3>1. r \in Seq(Tokens) /\ r2 \in Seq(Tokens)
      BY <2>5, <2>7
    <3> HIDE DEF p
    <3> QED BY <2>8, <2>9, <2>10, <3>1, Dropped
  <2>12. Live => Phase'
    <3>1. Live => Phase
      BY DEF IInv, Live
    <3> QED BY <1>1, <1>2, <1>3, <2>4, <2>11, <3>1, Fewer
  <2> QED BY <1>1, <1>3, <2>3, <2>12, Worked
<1>7. CASE h # FLUSH
  <2>1. \/ sbuf' = Append(sbuf, h) /\ toClient' = toClient
        \/ toClient' = Append(toClient \o sbuf, h) /\ sbuf' = <<>>
    BY <1>7 DEF Send
  <2>2. h \in W
    BY <1>5, <1>7
  <2>3. toClient' \in Seq(W) /\ sbuf' \in Seq(W)
    <3>1. toClient \o sbuf \in Seq(W) /\ <<>> \in Seq(W)
      BY <1>4, ConcatProperties, EmptySeq
    <3>2. Append(sbuf, h) \in Seq(W) /\ Append(toClient \o sbuf, h) \in Seq(W)
      BY <1>4, <2>2, <3>1, AppendProperties
    <3> QED BY <1>4, <2>1, <3>1, <3>2
  <2>4. Types'
    BY <1>1, <1>3, <1>5, <2>3 DEF Types
  <2>5. <<h>> \in Seq(Tokens) /\ out = <<h>> \o Tail(out)
    <3>1. <<h>> \in Seq(Tokens) /\ Len(<<h>>) = 1 /\ <<h>>[1] = h
      BY <1>5
    <3> DEFINE s == <<h>>
    <3> HIDE DEF h, s
    <3>2. s \in Seq(Tokens) /\ Len(s) = 1 /\ s[1] = h
      BY <3>1 DEF s
    <3>3. /\ s \o Tail(out) \in Seq(Tokens) /\ Len(s \o Tail(out)) = 1 + Len(Tail(out))
          /\ Len(Tail(out)) \in Nat /\ Len(out) \in Nat
          /\ \A i \in 1 .. Len(s) : (s \o Tail(out))[i] = s[i]
          /\ \A i \in 1 .. Len(Tail(out)) : (s \o Tail(out))[Len(s) + i] = Tail(out)[i]
      <4>1. s \in Seq(Tokens) /\ Tail(out) \in Seq(Tokens)
        BY <1>5, <3>2
      <4>2. /\ s \o Tail(out) \in Seq(Tokens) /\ Len(s \o Tail(out)) = Len(s) + Len(Tail(out))
            /\ Len(Tail(out)) \in Nat /\ Len(s) \in Nat
            /\ \A i \in 1 .. Len(s) : (s \o Tail(out))[i] = s[i]
            /\ \A i \in 1 .. Len(Tail(out)) : (s \o Tail(out))[Len(s) + i] = Tail(out)[i]
        BY <4>1, ConcatProperties, LenProperties
      <4>3. Len(out) \in Nat
        BY <1>2, LenProperties
      <4> QED BY <3>2, <4>2, <4>3
    <3> DEFINE t == s \o Tail(out)
    <3>4. t \in Seq(Tokens) /\ Len(t) = Len(out) /\ \A i \in 1 .. Len(out) : t[i] = out[i]
      <4> HIDE DEF t
      <4>1. t[1] = h /\ Len(t) = Len(out) /\ \A i \in 1 .. Len(Tail(out)) : t[1 + i] = out[i + 1]
        BY <1>5, <3>2, <3>3 DEF t
      <4>2. out[1] = h
        BY <1>2 DEF h
      <4>3. \A i \in 1 .. Len(out) : i = 1 \/ (i - 1 \in 1 .. Len(Tail(out)) /\ 1 + (i - 1) = i /\ (i - 1) + 1 = i)
        BY <1>5, <3>3
      <4>4. t \in Seq(Tokens)
        BY <3>3 DEF t
      <4> QED BY <4>1, <4>2, <4>3, <4>4
    <3> HIDE DEF t
    <3>5. t = out
      BY <1>2, <3>4, SeqEqual
    <3> QED BY <3>1, <3>5 DEF s, t
  <2>6. Coming' = Coming
    <3> DEFINE s == <<h>>
               a == toClient \o sbuf
               o == Tail(out)
    <3>0. s \in Seq(Tokens) /\ o \in Seq(Tokens) /\ out = s \o o
          /\ Append(sbuf, h) = sbuf \o s /\ a \in Seq(Tokens) /\ Append(a, h) = a \o s
      <4>1. a \in Seq(Tokens)
        BY <1>2, ConcatProperties
      <4>2. Append(sbuf, h) = sbuf \o s /\ Append(a, h) = a \o s
        <5> HIDE DEF h, a
        <5> QED BY <1>2, <1>5, <4>1, AppendIsConcat
      <4> QED BY <1>5, <2>5, <4>1, <4>2
    <3> HIDE DEF s, o, h
    <3>1. toClient \o (sbuf \o s) = a \o s /\ (a \o s) \o o = a \o (s \o o) /\ (a \o s) \in Seq(Tokens)
      <4>1. toClient \o (sbuf \o s) = a \o s
        <5>1. toClient \in Seq(Tokens) /\ sbuf \in Seq(Tokens) /\ s \in Seq(Tokens)
          BY <1>2, <3>0
        <5> QED BY <5>1, ConcatAssociative
      <4> HIDE DEF a
      <4> QED BY <3>0, <4>1, ConcatAssociative, ConcatProperties
    <3>2. (a \o s) \o <<>> = a \o s
      <4> DEFINE b == a \o s
      <4>1. b \in Seq(Tokens)
        BY <3>1
      <4> HIDE DEF b
      <4>2. b \o <<>> = b
        BY <4>1, ConcatEmptySeq
      <4> QED BY <4>2 DEF b
    <3>3. Coming = a \o out
      BY DEF Coming
    <3>4. CASE sbuf' = Append(sbuf, h) /\ toClient' = toClient
      <4>1. Coming' = (toClient \o (sbuf \o s)) \o o
        BY <1>3, <3>0, <3>4 DEF Coming, o
      <4> HIDE DEF a
      <4> QED BY <3>0, <3>1, <3>3, <4>1
    <3>5. CASE toClient' = Append(toClient \o sbuf, h) /\ sbuf' = <<>>
      <4>1. Coming' = ((a \o s) \o <<>>) \o o
        BY <1>3, <3>0, <3>5 DEF Coming, o
      <4> HIDE DEF a
      <4> QED BY <3>0, <3>1, <3>2, <3>3, <4>1
    <3> QED BY <2>1, <3>4, <3>5
  <2>7. Live => Phase'
    <3>1. Live => Phase
      BY DEF IInv, Live
    <3> QED BY <1>1, <1>2, <1>3, <2>6, <3>1, Fewer
  <2> QED BY <1>1, <1>3, <2>4, <2>7, Worked
<1> QED BY <1>6, <1>7

LEMMA DeathStep ==
  ASSUME IInv, WorkerDies
  PROVE  IInv'
<1>1. Types /\ cpc # "start"
  BY DEF IInv, Starting, WorkerDies, Working
<1>2. /\ srv' = "ended" /\ out' = <<>> /\ sbuf' = <<>>
      /\ UNCHANGED <<cpc, conn, asked, toWorker, toClient, inBody, truth>>
  BY DEF WorkerDies, clientVars
<1>3. Types'
  BY <1>1, <1>2, EmptySeq DEF Types
<1> DEFINE r == toClient \o sbuf \o out
<1>4. toClient \in Seq(Tokens) /\ sbuf \in Seq(Tokens) /\ out \in Seq(Tokens) /\ asked \in Nat
  BY <1>1, Streams
<1>5. /\ r \in Seq(Tokens) /\ Len(toClient) <= Len(r)
      /\ \A i \in 1 .. Len(toClient) : r[i] = toClient[i]
  BY <1>4, Concat
<1>6. Coming = r /\ Coming' = toClient
  <2>1. toClient \o <<>> = toClient
    BY <1>4, ConcatEmptySeq
  <2>2. Coming' = toClient \o <<>> \o <<>>
    BY <1>2 DEF Coming
  <2> QED BY <2>1, <2>2 DEF Coming
<1> HIDE DEF r
<1>7. /\ Empty(r) => Empty(toClient)
      /\ \A A, q, bad, k : Follows(r, A, k, bad, q) => Follows(toClient, A, k, bad, q)
  BY <1>4, <1>5, Shortened
<1>8. Live => Phase'
  <2>1. Live => Phase
    BY DEF IInv, Live
  <2>2. /\ Empty(Coming) => Empty(Coming')
        /\ \A A, q, bad : \A k \in 1 .. Len(A) :
             Sound(A, q) /\ Follows(Coming, A, k, bad, q) => Follows(Coming', A, k, bad, q)
    BY <1>6, <1>7
  <2> QED BY <1>1, <1>2, <1>4, <2>1, <2>2, Fewer
<1> QED BY <1>1, <1>2, <1>3, <1>8, Worked

LEMMA AcceptStep ==
  ASSUME IInv, Accept
  PROVE  IInv'
<1>1. Types /\ cpc # "start" /\ srv = "none"
  BY DEF IInv, Accept
<1>2. /\ srv' \in {"header", "ended"}
      /\ UNCHANGED <<cpc, conn, asked, toWorker, toClient, inBody, out, sbuf, truth>>
  BY DEF Accept, clientVars
<1>3. Types'
  BY <1>1, <1>2 DEF Types
<1>4. Coming' = Coming
  BY <1>2 DEF Coming
<1>5. Live => Phase'
  <2>1. SUFFICES ASSUME Live PROVE Phase'
    OBVIOUS
  <2>2. Unanswered
    BY <1>1, <2>1 DEF IInv, Live, Phase, AnsweredWell, AnsweredBadly, Settled
  <2>3. Unanswered'
    BY <1>1, <1>2, <1>4, <2>2 DEF Unanswered
  <2> QED BY <2>3 DEF Phase
<1> QED BY <1>1, <1>2, <1>3, <1>5, Worked

LEMMA SessionStep ==
  ASSUME IInv, SessionEnds
  PROVE  IInv'
<1>1. Types /\ cpc # "start" /\ (srv = "closing" \/ cpc = "exit")
  BY DEF IInv, Starting, SessionEnds, Working
<1>2. /\ srv' = "ended"
      /\ UNCHANGED <<cpc, conn, asked, toWorker, toClient, inBody, out, sbuf, truth>>
  BY DEF SessionEnds, clientVars
<1>3. Types'
  BY <1>1, <1>2 DEF Types
<1>4. Coming' = Coming
  BY <1>2 DEF Coming
<1>5. Live => Phase'
  <2>1. SUFFICES ASSUME Live PROVE Phase'
    OBVIOUS
  <2>2. AnsweredBadly
    BY <1>1, <2>1 DEF IInv, Live, Phase, Unanswered, AnsweredWell, Settled
  <2>3. AnsweredBadly'
    BY <1>2, <1>4, <2>2 DEF AnsweredBadly
  <2> QED BY <2>3 DEF Phase
<1> QED BY <1>1, <1>2, <1>3, <1>5, Worked

\* What a request that the worker reads leaves to be read.
LEMMA Consumed ==
  ASSUME Types, toWorker # <<>>, Consume
  PROVE  /\ asked \in Nat /\ In = toWorker[1] /\ In \in Requests(asked)
         /\ toWorker' \in Seq(Requests(asked)) /\ Len(toWorker) \in Nat /\ Len(toWorker) >= 1
         /\ Len(toWorker') = Len(toWorker) - 1
         /\ \A i \in 1 .. Len(toWorker') : toWorker'[i] = toWorker[i + 1]
         /\ Len(toWorker) = 1 => toWorker' = <<>>
<1>1. asked \in Nat /\ toWorker \in Seq(Requests(asked))
  BY ProtocolAssumption DEF Types
<1>2. /\ In = toWorker[1] /\ In \in Requests(asked)
      /\ toWorker' \in Seq(Requests(asked)) /\ Len(toWorker) \in Nat /\ Len(toWorker) >= 1
      /\ Len(toWorker') = Len(toWorker) - 1
      /\ \A i \in 1 .. Len(toWorker') : toWorker'[i] = toWorker[i + 1]
  BY <1>1, HeadTailProperties, EmptySeq DEF In, Consume
<1>3. Len(toWorker) = 1 => toWorker' = <<>>
  BY <1>2, EmptySeq
<1> QED BY <1>1, <1>2, <1>3

\* The worker answers a client that awaits the answer, with nothing before it.
LEMMA First ==
  ASSUME NEW q \in Nat, NEW A \in GoodAnswers(q) \cup BadAnswers(q)
  PROVE  1 \in 1 .. Len(A)
BY AnswersSound DEF Sound

LEMMA AnsweringBadly ==
  ASSUME NEW q \in Nat, NEW p, NEW x, At(p, x, 1), NEW r, Badly(r, q)
  PROVE  \E A \in BadAnswers(q) : \E k \in 1 .. Len(A) : At(p, x, k) /\ Follows(r, A, k, TRUE, q)
<1>1. \A A \in BadAnswers(q) : 1 \in 1 .. Len(A)
  BY AnswersSound DEF Sound
<1> QED BY <1>1 DEF Badly

LEMMA HeaderStep ==
  ASSUME IInv, Header
  PROVE  IInv'
<1>1. Types /\ cpc # "start" /\ srv = "header" /\ out = <<>> /\ toWorker # <<>>
  BY DEF IInv, Starting, Header
<1>2. /\ Consume /\ UNCHANGED <<cpc, conn, asked, toClient, inBody, sbuf, truth>>
      /\ \/ out' = Reply(OK, 0) /\ srv' = "queries"
         \/ out' = Reply("refused", 0) \o Reply(OK, 0) /\ srv' = "queries"
         \/ out' = Reply("parser_error", 0) /\ srv' = "closing"
  BY DEF Header, clientVars
<1>3. \/ Well(out', 0, 0) /\ srv' = "queries"
      \/ Badly(out', 0) /\ srv' \in {"queries", "closing"}
  <2>1. Well(Reply(OK, 0), 0, 0)
    BY ReplyWell
  <2>2. AllOf(Reply(OK, 0), 0)
    BY ReplyOf
  <2>3. Badly(Reply("refused", 0) \o Reply(OK, 0), 0)
    BY <2>2, ReplyBadly DEF Errors
  <2>4. Badly(Reply("parser_error", 0), 0)
    BY ReplyBadly DEF Errors
  <2> QED BY <1>2, <2>1, <2>3, <2>4
<1>4. AllOf(out', 0)
  BY <1>3 DEF Well, Badly
<1>5. asked \in Nat /\ toWorker' \in Seq(Requests(asked))
  BY <1>1, <1>2, Consumed
<1>6. out' \in Seq(Upto(asked))
  BY <1>4, <1>5, AllOfUpto
<1>7. Types'
  BY <1>1, <1>2, <1>3, <1>5, <1>6 DEF Types
<1>8. Live => Phase'
  <2>1. SUFFICES ASSUME Live PROVE Phase'
    OBVIOUS
  <2>2. Unanswered
    BY <1>1, <2>1 DEF IInv, Live, Phase, AnsweredWell, AnsweredBadly, Settled
  <2>3. /\ asked = 0 /\ ~inBody /\ toWorker = <<[stmt |-> "header", q |-> 0]>>
        /\ At(cpc, conn, 1) /\ Empty(Coming)
    BY <1>1, <2>2 DEF Unanswered
  <2>4. Coming' = out'
    <3>1. out' \in Seq(Tokens)
      BY <1>4 DEF AllOf
    <3>2. Coming' = toClient \o sbuf \o out'
      BY <1>2 DEF Coming
    <3> QED BY <1>1, <2>3, <3>1, <3>2, Nothing
  <2>5. toWorker' = <<>>
    BY <1>1, <1>2, <2>3, Consumed
  <2>6. Behind(toWorker', inBody', asked')
    BY <1>2, <2>3, <2>5 DEF Behind
  <2>7. At(cpc', conn', 1) /\ asked' = 0
    BY <1>2, <2>3
  <2>8. CASE Well(out', 0, 0) /\ srv' = "queries"
    <3>1. PICK A \in GoodAnswers(0) : Follows(out', A, 1, FALSE, 0)
      BY <2>8 DEF Well
    <3>2. Follows(Coming', A, 1, FALSE, asked') /\ 1 \in 1 .. Len(A) /\ A \in GoodAnswers(asked')
          /\ ~(asked' > 0)
      <4>1. 1 \in 1 .. Len(A)
        BY First
      <4>2. Follows(Coming', A, 1, FALSE, asked') /\ A \in GoodAnswers(asked')
        BY <2>4, <2>7, <3>1
      <4>3. ~(asked' > 0)
        BY <2>7
      <4> QED BY <4>1, <4>2, <4>3
    <3>3. AnsweredWell'
      BY <1>2, <2>6, <2>7, <2>8, <3>2 DEF AnsweredWell
    <3> QED BY <3>3 DEF Phase
  <2>9. CASE Badly(out', 0) /\ srv' \in {"queries", "closing"}
    <3>1. \E A \in BadAnswers(0) : \E k \in 1 .. Len(A) :
            At(cpc', conn', k) /\ Follows(out', A, k, TRUE, 0)
      BY <2>7, <2>9, AnsweringBadly
    <3>2. AnsweredBadly'
      BY <1>2, <2>4, <2>6, <2>7, <2>9, <3>1 DEF AnsweredBadly
    <3> QED BY <3>2 DEF Phase
  <2> QED BY <1>3, <2>8, <2>9
<1> QED BY <1>1, <1>2, <1>7, <1>8, Worked

\* The worker reads a statement of a query in use only where it begins with it.
LEMMA Stated ==
  ASSUME IInv, Live, srv = "queries", toWorker # <<>>, toWorker[1].stmt # "EOL"
  PROVE  /\ Unanswered /\ asked > 0 /\ truth[asked] = <<>> /\ ~inBody /\ Len(toWorker) = 2
         /\ toWorker[1].stmt \in Statements \ {"garbled"}
         /\ toWorker[1].q = asked /\ toWorker[2] = EOL(asked)
<1>1. \A q : toWorker[1] # EOL(q)
  BY DEF EOL
<1>2. Unanswered
  BY <1>1 DEF IInv, Live, Phase, AnsweredWell, AnsweredBadly, Settled, Behind, Ending
<1>3. ~inBody /\ asked > 0 /\ truth[asked] = <<>> /\ Ahead(toWorker, 1, asked)
  BY <1>1, <1>2 DEF Unanswered
<1> QED BY <1>1, <1>2, <1>3 DEF Ahead

LEMMA ExecuteStep ==
  ASSUME IInv, Execute
  PROVE  IInv'
<1>1. Types /\ cpc # "start" /\ srv = "queries" /\ out = <<>> /\ toWorker # <<>> /\ Consume
  BY DEF IInv, Types, Starting, Execute, Ready
<1>2. PICK e \in Executions(In.stmt, In.q) :
        /\ out' = e.toks
        /\ truth' = [truth EXCEPT ![In.q] = Append(@, [status |-> e.status, rows |-> e.rows])]
        /\ srv' = IF e.abort THEN "recovery" ELSE "queries"
        /\ inBody' = ~e.abort
  BY <1>1 DEF Execute
<1>3. UNCHANGED <<cpc, conn, asked, toClient, sbuf>>
  BY DEF Execute, clientVars
<1>4. /\ asked \in Nat /\ In = toWorker[1] /\ In.q \in 0 .. asked
      /\ toWorker' \in Seq(Requests(asked))
      /\ Len(toWorker') = Len(toWorker) - 1
      /\ \A i \in 1 .. Len(toWorker') : toWorker'[i] = toWorker[i + 1]
  <2>1. In \in Requests(asked)
    BY <1>1, Consumed
  <2> QED BY <1>1, <2>1, Consumed DEF Requests
<1>5. In.stmt \in Statements \ {"garbled"} /\ (Good(e, In.q) \/ Bad(e, In.q))
  BY <1>4, Executed
<1>6. AllOf(out', In.q) /\ e.abort \in BOOLEAN
  BY <1>2, <1>5 DEF Good, Bad, Well, Badly
<1>7. Types'
  <2>1. out' \in Seq(Upto(asked))
    BY <1>4, <1>6, AllOfUpto
  <2>2. DOMAIN truth' = 1 .. MaxQueries
    BY <1>1, <1>2 DEF Types
  <2>3. \A q \in 1 .. MaxQueries : asked < q => truth'[q] = <<>>
    <3> TAKE q \in 1 .. MaxQueries
    <3>1. asked < q => q # In.q
      BY <1>4
    <3>2. asked < q => truth'[q] = truth[q]
      BY <1>1, <1>2, <3>1 DEF Types
    <3> QED BY <1>1, <3>2 DEF Types
  <2>4. srv' \in {"none", "header", "queries", "recovery", "closing", "ended"} /\ inBody' \in BOOLEAN
    BY <1>2
  <2> QED BY <1>1, <1>3, <1>4, <2>1, <2>2, <2>3, <2>4 DEF Types
<1>8. Live => Phase'
  <2>1. SUFFICES ASSUME Live PROVE Phase'
    OBVIOUS
  <2>2. In.stmt # "EOL"
    BY <1>5 DEF Statements
  <2>3. /\ Unanswered /\ asked > 0 /\ truth[asked] = <<>> /\ Len(toWorker) = 2
        /\ In.q = asked /\ toWorker[2] = EOL(asked)
    BY <1>1, <1>4, <2>1, <2>2, Stated
  <2>4. Coming' = e.toks
    <3>1. out' \in Seq(Tokens)
      BY <1>6 DEF AllOf
    <3>2. Coming' = toClient \o sbuf \o out'
      BY <1>3 DEF Coming
    <3>3. Empty(Coming)
      BY <2>3 DEF Unanswered
    <3> QED BY <1>1, <1>2, <3>1, <3>2, <3>3, Nothing
  <2>5. Ending(toWorker', asked)
    BY <1>4, <2>3 DEF Ending
  <2>6. At(cpc', conn', 1) /\ asked' = asked
    BY <1>3, <2>3 DEF Unanswered
  <2>7. CASE Good(e, In.q)
    <3>1. srv' = "queries" /\ inBody' = TRUE /\ e.status = OK
      BY <1>2, <2>7 DEF Good
    <3>2. Behind(toWorker', inBody', asked')
      BY <2>5, <2>6, <3>1 DEF Behind
    <3>3. \E A \in GoodAnswers(asked) : \E k \in 1 .. Len(A) :
            At(cpc', conn', k) /\ Follows(e.toks, A, k, FALSE, asked) /\ e.rows = RowsIn(A)
      <4>1. Well(e.toks, e.rows, asked)
        BY <2>3, <2>7 DEF Good
      <4>2. PICK A \in GoodAnswers(asked) : Follows(e.toks, A, 1, FALSE, asked) /\ e.rows = RowsIn(A)
        BY <4>1 DEF Well
      <4>3. 1 \in 1 .. Len(A)
        BY <1>4, First
      <4> QED BY <2>6, <4>2, <4>3
    <3>4. \A i \in DOMAIN truth'[asked] : truth'[asked][i].status = OK /\ truth'[asked][i].rows = e.rows
      <4> DEFINE o == [status |-> e.status, rows |-> e.rows]
      <4>1. asked \in DOMAIN truth
        BY <1>1, <1>4, <2>3 DEF Types
      <4>2. truth'[asked] = Append(<<>>, o)
        BY <1>2, <2>3, <4>1
      <4>3. o.status = OK /\ o.rows = e.rows
        BY <3>1
      <4> HIDE DEF o
      <4>4. Append(<<>>, o) = <<o>>
        OBVIOUS
      <4>5. DOMAIN <<o>> = {1} /\ <<o>>[1] = o
        OBVIOUS
      <4> QED BY <4>2, <4>3, <4>4, <4>5
    <3>5. AnsweredWell'
      BY <2>4, <2>6, <3>1, <3>2, <3>3, <3>4 DEF AnsweredWell
    <3> QED BY <3>5 DEF Phase
  <2>8. CASE Bad(e, In.q)
    <3>1. \E A \in BadAnswers(asked) : \E k \in 1 .. Len(A) :
            At(cpc', conn', k) /\ Follows(e.toks, A, k, TRUE, asked)
      <4>1. Badly(e.toks, asked)
        BY <2>3, <2>8 DEF Bad
      <4> QED BY <1>4, <2>6, <4>1, AnsweringBadly
    <3>2. \/ srv' = "queries" /\ Behind(toWorker', inBody', asked')
          \/ srv' = "recovery" /\ Ending(toWorker', asked')
      BY <1>2, <1>6, <2>5, <2>6 DEF Behind
    <3>3. AnsweredBadly'
      BY <2>4, <2>6, <3>1, <3>2 DEF AnsweredBadly
    <3> QED BY <3>3 DEF Phase
  <2> QED BY <1>5, <2>7, <2>8
<1> QED BY <1>1, <1>3, <1>7, <1>8, Worked

\* No statement is garbled.
LEMMA GarbledStep ==
  ASSUME IInv, Garbled
  PROVE  FALSE
<1>1. toWorker # <<>> /\ In = toWorker[1] /\ In \in Requests(asked)
  <2>1. toWorker # <<>> /\ toWorker \in Seq(Requests(asked))
    BY DEF IInv, Types, Garbled
  <2> QED BY <2>1, HeadTailProperties, EmptySeq, ElementOfSeq DEF In
<1> QED BY <1>1 DEF Requests, Garbled

LEMMA EndStep ==
  ASSUME IInv, EndOfQuery
  PROVE  IInv'
<1>1. /\ Types /\ cpc # "start" /\ srv = "queries" /\ out = <<>> /\ toWorker # <<>> /\ Consume
      /\ In.stmt = "EOL"
  BY DEF IInv, Types, Starting, EndOfQuery, Ready
<1>2. /\ out' = IF inBody THEN <<>> ELSE Reply(OK, In.q)
      /\ inBody' = FALSE
      /\ UNCHANGED <<cpc, conn, asked, toClient, srv, sbuf, truth>>
  BY DEF EndOfQuery, clientVars
<1>3. /\ asked \in Nat /\ In = toWorker[1] /\ In.q \in 0 .. asked
      /\ toWorker' \in Seq(Requests(asked)) /\ Len(toWorker) \in Nat
      /\ Len(toWorker') = Len(toWorker) - 1
      /\ \A i \in 1 .. Len(toWorker') : toWorker'[i] = toWorker[i + 1]
      /\ Len(toWorker) = 1 => toWorker' = <<>>
  <2>1. In \in Requests(asked)
    BY <1>1, Consumed
  <2> QED BY <1>1, <2>1, Consumed DEF Requests
<1>4. Types'
  <2>0. In.q \in Nat /\ OK \in {OK} \cup Errors
    BY <1>3
  <2>1. AllOf(Reply(OK, In.q), In.q)
    BY <2>0, ReplyOf
  <2>2. Reply(OK, In.q) \in Seq(Upto(asked))
    BY <1>3, <2>1, AllOfUpto
  <2>3. out' \in Seq(Upto(asked))
    BY <1>2, <2>2, EmptySeq
  <2> QED BY <1>1, <1>2, <1>3, <2>3 DEF Types
<1>5. ASSUME inBody PROVE Coming' = Coming
  BY <1>1, <1>2, <1>5 DEF Coming
<1>6. ASSUME inBody, Behind(toWorker, inBody, asked)
      PROVE  Behind(toWorker', inBody', asked')
  BY <1>2, <1>3, <1>6 DEF Behind, Ending
<1>7. ASSUME Behind(toWorker, inBody, asked) PROVE inBody
  BY <1>1, <1>7 DEF Behind
<1>8. Live => Phase'
  <2>1. SUFFICES ASSUME Live PROVE Phase'
    OBVIOUS
  <2>2. CASE AnsweredWell
    <3>1. Behind(toWorker, inBody, asked)
      BY <1>1, <2>2 DEF AnsweredWell
    <3>2. AnsweredWell'
      BY <1>1, <1>2, <1>5, <1>6, <1>7, <2>2, <3>1 DEF AnsweredWell
    <3> QED BY <3>2 DEF Phase
  <2>3. CASE AnsweredBadly
    <3>1. Behind(toWorker, inBody, asked)
      BY <1>1, <2>3 DEF AnsweredBadly
    <3>2. AnsweredBadly'
      BY <1>1, <1>2, <1>5, <1>6, <1>7, <2>3, <3>1 DEF AnsweredBadly
    <3> QED BY <3>2 DEF Phase
  <2>4. CASE Settled
    <3>1. Behind(toWorker, inBody, asked)
      BY <1>1, <2>4 DEF Settled
    <3>2. Settled'
      BY <1>1, <1>2, <1>5, <1>6, <1>7, <2>4, <3>1 DEF Settled
    <3> QED BY <3>2 DEF Phase
  <2>5. CASE Unanswered
    <3>1. /\ asked > 0 /\ truth[asked] = <<>> /\ At(cpc, conn, 1) /\ Empty(Coming)
          /\ IF inBody THEN toWorker[1] = EOL(asked - 1) /\ Ahead(toWorker, 2, asked)
             ELSE Ahead(toWorker, 1, asked)
      BY <1>1, <2>5 DEF Unanswered
    <3>2. CASE inBody
      <4>1. Ahead(toWorker', 1, asked)
        BY <1>3, <3>1, <3>2 DEF Ahead
      <4>2. Unanswered'
        BY <1>1, <1>2, <1>5, <3>1, <3>2, <4>1 DEF Unanswered
      <4> QED BY <4>2 DEF Phase
    <3>3. CASE ~inBody
      <4>1. Len(toWorker) = 1 /\ In = EOL(asked) /\ In.q = asked
        BY <1>1, <1>3, <3>1, <3>3 DEF Ahead, EOL, Statements
      <4>2. out' = Reply(OK, asked)
        BY <1>2, <3>3, <4>1
      <4>3. Well(out', 0, asked)
        BY <1>3, <4>2, ReplyWell
      <4>4. Coming' = out'
        <5>1. out' \in Seq(Tokens)
          BY <4>3 DEF Well, AllOf
        <5>2. Coming' = toClient \o sbuf \o out'
          BY <1>2 DEF Coming
        <5> QED BY <1>1, <3>1, <5>1, <5>2, Nothing
      <4>5. At(cpc', conn', 1) /\ asked' = asked /\ truth'[asked] = <<>>
        BY <1>2, <3>1
      <4>6. PICK A \in GoodAnswers(asked) : Follows(out', A, 1, FALSE, asked)
        BY <4>3 DEF Well
      <4>10. 1 \in 1 .. Len(A)
        BY <1>3, First
      <4>7. Behind(toWorker', inBody', asked') /\ srv' = "queries"
        BY <1>1, <1>2, <1>3, <4>1 DEF Behind
      <4>8. \A i \in DOMAIN truth'[asked] : FALSE
        BY <4>5
      <4>9. AnsweredWell'
        BY <4>4, <4>5, <4>6, <4>7, <4>8, <4>10 DEF AnsweredWell
      <4> QED BY <4>9 DEF Phase
    <3> QED BY <3>2, <3>3
  <2> QED BY <2>1, <2>2, <2>3, <2>4, <2>5 DEF IInv, Live, Phase
<1> QED BY <1>1, <1>2, <1>4, <1>8, Worked

LEMMA RecoverStep ==
  ASSUME IInv, Recover
  PROVE  IInv'
<1>1. /\ Types /\ cpc # "start" /\ srv = "recovery" /\ toWorker # <<>> /\ Consume
  BY DEF IInv, Starting, Recover
<1>2. /\ IF In.stmt = "EOL" THEN srv' = srv /\ inBody' = inBody ELSE srv' = "queries" /\ inBody' = TRUE
      /\ UNCHANGED <<cpc, conn, asked, toClient, out, sbuf, truth>>
  BY DEF Recover, clientVars
<1>3. /\ asked \in Nat /\ In = toWorker[1] /\ toWorker' \in Seq(Requests(asked))
      /\ Len(toWorker) = 1 => toWorker' = <<>>
  BY <1>1, Consumed
<1>4. Types'
  BY <1>1, <1>2, <1>3 DEF Types
<1>5. Live => Phase'
  <2>1. SUFFICES ASSUME Live PROVE Phase'
    OBVIOUS
  <2>2. AnsweredBadly /\ Ending(toWorker, asked)
    BY <1>1, <2>1 DEF IInv, Live, Phase, Unanswered, AnsweredWell, AnsweredBadly, Settled
  <2>3. srv' = "recovery" /\ toWorker' = <<>>
    BY <1>1, <1>2, <1>3, <2>2 DEF Ending, EOL
  <2>4. Coming' = Coming
    BY <1>2 DEF Coming
  <2>5. AnsweredBadly'
    BY <1>2, <2>2, <2>3, <2>4 DEF AnsweredBadly
  <2> QED BY <2>5 DEF Phase
<1> QED BY <1>1, <1>2, <1>4, <1>5, Worked

-----------------------------------------------------------------------------
(* The steps of the client.                                                *)

LEMMA ConnectStep ==
  ASSUME IInv, Connect
  PROVE  IInv'
<1>1. Types /\ Starting
  BY DEF IInv, Connect
<1>2. /\ cpc' = "header" /\ toWorker' = <<[stmt |-> "header", q |-> 0]>>
      /\ UNCHANGED <<conn, asked, toClient, srv, inBody, out, sbuf, truth>>
  BY DEF Connect, workerVars
<1>3. Types'
  <2> DEFINE r == [stmt |-> "header", q |-> 0]
  <2>1. r \in Requests(asked)
    BY <1>1 DEF Requests, Starting
  <2> HIDE DEF r
  <2>2. <<r>> \in Seq(Requests(asked))
    BY <2>1
  <2>3. toWorker' \in Seq(Requests(asked))
    BY <1>2, <2>2 DEF r
  <2> QED BY <1>1, <1>2, <2>3 DEF Types, Places
<1>4. At(cpc', conn', 1)
  BY <1>1, <1>2 DEF At, Starting
<1>5. Empty(Coming')
  <2>1. Coming' = <<>> \o <<>> \o <<>> /\ <<>> \o <<>> = <<>>
    BY <1>1, <1>2, ConcatEmptySeq, EmptySeq DEF Coming, Starting
  <2>2. Len(<<>>) = 0
    BY EmptySeq
  <2>3. Coming' = <<>>
    BY <2>1
  <2> QED BY <2>2, <2>3 DEF Empty
<1>6. Unanswered'
  BY <1>1, <1>2, <1>4, <1>5 DEF Unanswered, Starting
<1> QED BY <1>1, <1>2, <1>3, <1>6 DEF IInv, Phase, Starting

LEMMA GoneStep ==
  ASSUME IInv, Leave \/ ClientDies
  PROVE  IInv'
<1>1. /\ Types /\ cpc' = "exit"
      /\ UNCHANGED <<conn, asked, toWorker, toClient, srv, inBody, out, sbuf, truth>>
  BY DEF IInv, Leave, ClientDies, workerVars
<1>2. Types'
  BY <1>1 DEF Types, Places
<1> QED BY <1>1, <1>2 DEF IInv

\* What the client sends for a line of at most one statement.
LEMMA Asked ==
  ASSUME NEW n \in Nat, NEW w \in Seq(Requests(n)), NEW line,
         line = <<>> \/ \E s \in Statements \ {"garbled"} : line = <<s>>
  PROVE  LET w2 == w \o [i \in 1 .. Len(line) |-> [stmt |-> line[i], q |-> n + 1]] \o <<EOL(n + 1)>>
         IN  /\ w2 \in Seq(Requests(n + 1))
             /\ Ahead(w2, Len(w) + 1, n + 1)
             /\ \A i \in 1 .. Len(w) : w2[i] = w[i]
<1> DEFINE m == [i \in 1 .. Len(line) |-> [stmt |-> line[i], q |-> n + 1]]
           last == <<EOL(n + 1)>>
           S == Requests(n + 1)
           w2 == w \o m \o last
<1>1. w \in Seq(S)
  <2>1. Requests(n) \subseteq S
    BY DEF Requests
  <2> HIDE DEF S
  <2> QED BY <2>1, SeqMonotonic
<1>2. last \in Seq(S) /\ Len(last) = 1 /\ last[1] = EOL(n + 1)
  <2> DEFINE e == EOL(n + 1)
  <2>1. e \in S
    BY DEF EOL, Requests
  <2> HIDE DEF e, S
  <2>2. <<e>> \in Seq(S) /\ Len(<<e>>) = 1 /\ <<e>>[1] = e
    BY <2>1
  <2> QED BY <2>2 DEF e
<1>3. /\ m \in Seq(S) /\ Len(m) \in {0, 1}
      /\ Len(m) = 1 => m[1].stmt \in Statements \ {"garbled"} /\ m[1].q = n + 1
  <2>1. CASE line = <<>>
    <3>1. Len(line) = 0
      BY <2>1, EmptySeq
    <3>2. m \in [1 .. 0 -> S] /\ DOMAIN m = 1 .. 0
      BY <3>1
    <3>3. m \in Seq(S)
      BY <3>2, SeqDef
    <3>4. Len(m) = 0
      <4>1. Len(m) \in Nat /\ 1 .. Len(m) = 1 .. 0
        BY <3>2, <3>3, LenProperties
      <4>2. 1 \in 1 .. Len(m) <=> 1 \in 1 .. 0
        BY <4>1
      <4> QED BY <4>1, <4>2
    <3> QED BY <3>3, <3>4
  <2>2. ASSUME NEW s \in Statements \ {"garbled"}, line = <<s>>
        PROVE  m \in Seq(S) /\ Len(m) = 1 /\ m[1].stmt \in Statements \ {"garbled"} /\ m[1].q = n + 1
    <3>1. Len(line) = 1 /\ line[1] = s
      BY <2>2
    <3>2. [stmt |-> s, q |-> n + 1] \in S
      BY DEF Requests
    <3>3. m \in [1 .. 1 -> S] /\ DOMAIN m = 1 .. 1
      BY <3>1, <3>2
    <3>4. m \in Seq(S)
      BY <3>3, SeqDef
    <3>5. Len(m) = 1
      BY <3>3, <3>4, LenProperties
    <3>6. m[1] = [stmt |-> s, q |-> n + 1]
      BY <3>1
    <3> QED BY <3>4, <3>5, <3>6
  <2> QED BY <2>1, <2>2
<1> HIDE DEF m, last, S
<1>4. /\ w2 \in Seq(S) /\ Len(w2) = Len(w) + Len(m) + Len(last) /\ Len(w) \in Nat
      /\ \A i \in 1 .. Len(w) : w2[i] = w[i]
      /\ \A i \in 1 .. Len(m) : w2[Len(w) + i] = m[i]
      /\ \A i \in 1 .. Len(last) : w2[Len(w) + Len(m) + i] = last[i]
  <2>1. m \in Seq(S) /\ last \in Seq(S)
    BY <1>2, <1>3
  <2> QED BY <1>1, <2>1, Concat
<1> HIDE DEF w2
<1>5. w2[Len(w) + Len(m) + 1] = EOL(n + 1) /\ Len(w2) = Len(w) + Len(m) + 1
  BY <1>2, <1>4
<1>6. Ahead(w2, Len(w) + 1, n + 1)
  <2>1. CASE Len(m) = 0
    <3>1. Len(w) + Len(m) + 1 = Len(w) + 1
      BY <1>4, <2>1
    <3> QED BY <1>5, <3>1 DEF Ahead
  <2>2. CASE Len(m) = 1
    <3>1. Len(w) + Len(m) + 1 = (Len(w) + 1) + 1 /\ 1 \in 1 .. Len(m)
      BY <1>4, <2>2
    <3>2. w2[Len(w) + 1] = m[1]
      BY <1>4, <3>1
    <3> QED BY <1>3, <1>5, <2>2, <3>1, <3>2 DEF Ahead
  <2> QED BY <1>3, <2>1, <2>2
<1> QED BY <1>4, <1>6 DEF w2, m, last, S

LEMMA AskStep ==
  ASSUME OneEach, IInv, NEW line \in Lines, Ask(line)
  PROVE  IInv'
<1> DEFINE w2 == toWorker \o [i \in 1 .. Len(line) |-> [stmt |-> line[i], q |-> asked + 1]]
                   \o <<EOL(asked + 1)>>
<1>1. /\ Types /\ Live /\ cpc = "idle" /\ asked < MaxQueries
      /\ asked \in Nat /\ MaxQueries \in Nat
  BY ProtocolAssumption DEF IInv, Types, Ask, Live
<1>2. /\ asked' = asked + 1 /\ cpc' = "header"
      /\ conn' = [conn EXCEPT !.body = FALSE, !.columnsz = 0, !.rows = 0]
      /\ UNCHANGED <<toClient, srv, inBody, out, sbuf, truth>>
  BY DEF Ask, workerVars
<1>3. toWorker' = w2
  BY DEF Ask, EOL
<1>4. /\ w2 \in Seq(Requests(asked + 1))
      /\ Ahead(w2, Len(toWorker) + 1, asked + 1)
      /\ \A i \in 1 .. Len(toWorker) : w2[i] = toWorker[i]
  <2>1. toWorker \in Seq(Requests(asked))
    BY <1>1 DEF Types
  <2>2. line = <<>> \/ \E s \in Statements \ {"garbled"} : line = <<s>>
    BY DEF OneEach
  <2> QED BY <1>1, <2>1, <2>2, Asked
<1> HIDE DEF w2
<1>5. Settled
  BY <1>1 DEF IInv, Live, Phase, Unanswered, AnsweredWell, AnsweredBadly, At
<1>6. conn' \in Conns /\ conn'.status = OK /\ At(cpc', conn', 1)
  <2>1. /\ conn' \in Conns /\ conn'.status = OK /\ conn'.body = FALSE
        /\ conn'.columnsz = 0 /\ conn'.rows = 0
    <3>1. conn \in Conns /\ conn.status = OK /\ 0 \in 0 .. MaxRows
      BY <1>1, ProtocolAssumption DEF Types, Live
    <3> QED BY <1>2, <3>1 DEF Conns
  <2> QED BY <1>2, <2>1 DEF At
<1>7. Types'
  <2>1. /\ Upto(asked) \subseteq Upto(asked')
        /\ Upto(asked) \ {FLUSH} \subseteq Upto(asked') \ {FLUSH}
    BY <1>1, <1>2 DEF Upto
  <2>2. /\ toClient' \in Seq(Upto(asked') \ {FLUSH}) /\ sbuf' \in Seq(Upto(asked') \ {FLUSH})
        /\ out' \in Seq(Upto(asked'))
    BY <1>1, <1>2, <2>1, SeqMonotonic DEF Types
  <2>3. asked' \in 0 .. MaxQueries /\ toWorker' \in Seq(Requests(asked')) /\ cpc' \in Places
    BY <1>1, <1>2, <1>3, <1>4 DEF Places
  <2>4. \A q \in 1 .. MaxQueries : asked' < q => truth'[q] = <<>>
    BY <1>1, <1>2 DEF Types
  <2> QED BY <1>1, <1>2, <1>6, <2>2, <2>3, <2>4 DEF Types
<1>8. Unanswered'
  <2>1. Empty(Coming')
    BY <1>2, <1>5 DEF Coming, Settled
  <2>2. truth'[asked'] = <<>>
    BY <1>1, <1>2 DEF Types
  <2>3. srv = "queries" => IF inBody THEN w2[1] = EOL(asked) /\ Ahead(w2, 2, asked + 1)
                           ELSE Ahead(w2, 1, asked + 1)
    <3>1. CASE srv = "queries" /\ inBody
      <4>1. Len(toWorker) = 1 /\ toWorker[1] = EOL(asked)
        BY <1>5, <3>1 DEF Settled, Behind, Ending
      <4>2. 1 \in 1 .. Len(toWorker) /\ Len(toWorker) + 1 = 2
        BY <4>1
      <4> QED BY <1>4, <3>1, <4>1, <4>2
    <3>2. CASE srv = "queries" /\ ~inBody
      <4>1. Len(toWorker) = 0
        BY <1>5, <3>2, EmptySeq DEF Settled, Behind
      <4> QED BY <1>4, <3>2, <4>1
    <3> QED BY <3>1, <3>2
  <2>4. asked' > 0 /\ asked' - 1 = asked
    BY <1>1, <1>2
  <2>5. srv' = "ended" \/ (srv' = "queries" /\
          IF inBody' THEN toWorker'[1] = EOL(asked' - 1) /\ Ahead(toWorker', 2, asked')
          ELSE Ahead(toWorker', 1, asked'))
    BY <1>2, <1>3, <1>5, <2>3, <2>4 DEF Settled
  <2> QED BY <1>6, <2>1, <2>2, <2>4, <2>5 DEF Unanswered
<1> QED BY <1>2, <1>6, <1>7, <1>8 DEF IInv, Phase

\* What a client that awaits an answer finds first is the next token of the answer.
LEMMA Awaiting ==
  ASSUME IInv, Reading, toClient # <<>>
  PROVE  /\ Types /\ Live /\ asked \in Nat
         /\ Coming \in Seq(Tokens) /\ Len(Coming) >= 1 /\ Coming[1] = Top
         /\ \/ AnsweredWell /\ \E A \in GoodAnswers(asked) : \E k \in 1 .. Len(A) :
                 /\ At(cpc, conn, k) /\ Follows(Coming, A, k, FALSE, asked) /\ Top = A[k]
                 /\ asked > 0 => \A i \in DOMAIN truth[asked] :
                      truth[asked][i].status = OK /\ truth[asked][i].rows = RowsIn(A)
            \/ AnsweredBadly /\ \E A \in BadAnswers(asked) : \E k \in 1 .. Len(A) :
                 At(cpc, conn, k) /\ Follows(Coming, A, k, TRUE, asked) /\ Top = A[k]
<1>1. Types /\ Live /\ asked \in Nat
  <2>1. cpc \notin {"start", "exit", "idle"}
    BY DEF Reading
  <2> QED BY <2>1, ProtocolAssumption DEF IInv, Live, Types
<1> DEFINE c == toClient \o sbuf \o out
<1>2. toClient \in Seq(Tokens) /\ sbuf \in Seq(Tokens) /\ out \in Seq(Tokens)
  BY <1>1, Streams
<1>3. /\ c \in Seq(Tokens) /\ Len(c) = Len(toClient) + Len(sbuf) + Len(out)
      /\ Len(toClient) \in Nat /\ Len(sbuf) \in Nat /\ Len(out) \in Nat
      /\ \A i \in 1 .. Len(toClient) : c[i] = toClient[i]
  BY <1>2, Concat
<1>4. c = Coming
  BY DEF Coming
<1> HIDE DEF c
<1>5. 1 \in 1 .. Len(toClient) /\ 1 \in 1 .. Len(c)
  BY <1>2, <1>3, EmptySeq
<1>6. c[1] = Top /\ Top # FLUSH
  BY <1>1, <1>3, <1>5, Streams DEF Top
<1>7. ~Empty(Coming)
  BY <1>4, <1>5, <1>6 DEF Empty
<1>8. AnsweredWell \/ AnsweredBadly
  BY <1>1, <1>7 DEF IInv, Live, Phase, Unanswered, Settled
<1>9. Coming \in Seq(Tokens) /\ Len(Coming) >= 1 /\ Coming[1] = Top
  BY <1>3, <1>4, <1>5, <1>6
<1>10. ASSUME NEW A \in GoodAnswers(asked) \cup BadAnswers(asked), NEW k \in 1 .. Len(A),
              NEW bad \in BOOLEAN, Follows(Coming, A, k, bad, asked)
       PROVE  Top = A[k]
  <2>1. Sound(A, asked)
    BY <1>1, AnswersSound
  <2>2. Len(A) \in Nat /\ 1 <= Len(A) - k + 1 /\ k + 1 - 1 = k
    BY <2>1 DEF Sound
  <2>3. 1 \in 1 .. Len(Coming)
    BY <1>4, <1>5
  <2> QED BY <1>9, <1>10, <2>2, <2>3 DEF Follows
<1>11. CASE AnsweredWell
  <2>1. PICK A \in GoodAnswers(asked) : \E k \in 1 .. Len(A) :
          /\ At(cpc, conn, k) /\ Follows(Coming, A, k, FALSE, asked)
          /\ asked > 0 => \A i \in DOMAIN truth[asked] :
               truth[asked][i].status = OK /\ truth[asked][i].rows = RowsIn(A)
    BY <1>11 DEF AnsweredWell
  <2>2. \A k \in 1 .. Len(A) : Follows(Coming, A, k, FALSE, asked) => Top = A[k]
    BY <1>10
  <2> QED BY <1>1, <1>9, <1>11, <2>1, <2>2
<1>12. CASE AnsweredBadly
  <2>1. PICK A \in BadAnswers(asked) : \E k \in 1 .. Len(A) :
          At(cpc, conn, k) /\ Follows(Coming, A, k, TRUE, asked)
    BY <1>12 DEF AnsweredBadly
  <2>2. \A k \in 1 .. Len(A) : Follows(Coming, A, k, TRUE, asked) => Top = A[k]
    BY <1>10
  <2> QED BY <1>1, <1>9, <1>12, <2>1, <2>2
<1> QED BY <1>8, <1>11, <1>12

\* How an answer is read on: to its next token, or to its end.
LEMMA Reads ==
  ASSUME IInv, Receive
  PROVE  /\ cpc' \in Places /\ conn' \in Conns /\ (conn'.status # OK => cpc' \in {"idle", "exit"})
         /\ cpc' # "start"
         /\ conn'.status = OK => Phase'
         /\ cpc' = "idle" /\ conn'.status = OK /\ asked > 0 =>
              \A i \in DOMAIN truth[asked] :
                truth[asked][i].status = OK /\ conn.rows = truth[asked][i].rows
<1>1. /\ Reading /\ toClient # <<>> /\ toClient' = Tail(toClient)
      /\ UNCHANGED <<asked, toWorker, srv, inBody, out, sbuf, truth>>
  BY DEF Receive, workerVars
<1>2. /\ Types /\ Live /\ asked \in Nat
      /\ Coming \in Seq(Tokens) /\ Len(Coming) >= 1 /\ Coming[1] = Top
  BY <1>1, Awaiting
<1>3. conn \in Conns /\ conn.status = OK /\ MaxRows \in Nat
  BY <1>2, ProtocolAssumption DEF Types, Live
<1>4. /\ Coming' \in Seq(Tokens) /\ Len(Coming') = Len(Coming) - 1
      /\ \A i \in 1 .. Len(Coming') : Coming'[i] = Coming[i + 1]
  <2> DEFINE t == Tail(toClient)
             r == toClient \o sbuf \o out
             r2 == t \o sbuf \o out
  <2>1. toClient \in Seq(Tokens) /\ sbuf \in Seq(Tokens) /\ out \in Seq(Tokens)
    BY <1>2, Streams
  <2>2. /\ t \in Seq(Tokens) /\ Len(t) = Len(toClient) - 1
        /\ \A i \in 1 .. Len(t) : t[i] = toClient[i + 1]
    BY <1>1, <2>1, HeadTailProperties
  <2>3. Coming = r /\ Coming' = r2
    BY <1>1 DEF Coming
  <2>4. /\ r \in Seq(Tokens) /\ Len(r) = Len(toClient) + Len(sbuf) + Len(out)
        /\ Len(toClient) \in Nat /\ Len(sbuf) \in Nat /\ Len(out) \in Nat
        /\ \A i \in 1 .. Len(toClient) : r[i] = toClient[i]
        /\ \A i \in 1 .. Len(sbuf) : r[Len(toClient) + i] = sbuf[i]
        /\ \A i \in 1 .. Len(out) : r[Len(toClient) + Len(sbuf) + i] = out[i]
    <3>1. /\ r \in Seq(Tokens) /\ Len(r) = Len(toClient) + Len(sbuf) + Len(out)
          /\ Len(toClient) \in Nat /\ Len(sbuf) \in Nat /\ Len(out) \in Nat
      BY <2>1, Concat
    <3>2. \A i \in 1 .. Len(toClient) : r[i] = toClient[i]
      BY <2>1, Concat
    <3>3. \A i \in 1 .. Len(sbuf) : r[Len(toClient) + i] = sbuf[i]
      BY <2>1, Concat
    <3>4. \A i \in 1 .. Len(out) : r[Len(toClient) + Len(sbuf) + i] = out[i]
      BY <2>1, Concat
    <3> QED BY <3>1, <3>2, <3>3, <3>4
  <2> HIDE DEF t
  <2>5. /\ r2 \in Seq(Tokens) /\ Len(r2) = Len(t) + Len(sbuf) + Len(out)
        /\ \A i \in 1 .. Len(t) : r2[i] = t[i]
        /\ \A i \in 1 .. Len(sbuf) : r2[Len(t) + i] = sbuf[i]
        /\ \A i \in 1 .. Len(out) : r2[Len(t) + Len(sbuf) + i] = out[i]
    <3>1. t \in Seq(Tokens)
      BY <2>2
    <3>2. r2 \in Seq(Tokens) /\ Len(r2) = Len(t) + Len(sbuf) + Len(out)
      BY <2>1, <3>1, Concat
    <3>3. \A i \in 1 .. Len(t) : r2[i] = t[i]
      BY <2>1, <3>1, Concat
    <3>4. \A i \in 1 .. Len(sbuf) : r2[Len(t) + i] = sbuf[i]
      BY <2>1, <3>1, Concat
    <3>5. \A i \in 1 .. Len(out) : r2[Len(t) + Len(sbuf) + i] = out[i]
      BY <2>1, <3>1, Concat
    <3> QED BY <3>2, <3>3, <3>4, <3>5
  <2> HIDE DEF r, r2
  <2>6. ASSUME NEW i \in 1 .. Len(r2) PROVE r2[i] = r[i + 1]
    <3> DEFINE a == i - Len(t)
               b == i - Len(t) - Len(sbuf)
    <3>1. CASE i <= Len(t)
      <4>1. i \in 1 .. Len(t) /\ i + 1 \in 1 .. Len(toClient)
        BY <2>2, <2>4, <3>1
      <4>2. r2[i] = t[i] /\ t[i] = toClient[i + 1] /\ r[i + 1] = toClient[i + 1]
        BY <2>2, <2>4, <2>5, <4>1
      <4> QED BY <4>2
    <3>2. CASE ~(i <= Len(t)) /\ i <= Len(t) + Len(sbuf)
      <4>1. a \in 1 .. Len(sbuf) /\ i = Len(t) + a /\ i + 1 = Len(toClient) + a
        BY <2>2, <2>4, <3>2
      <4> HIDE DEF a
      <4>2. r2[i] = sbuf[a] /\ r[i + 1] = sbuf[a]
        BY <2>4, <2>5, <4>1
      <4> QED BY <4>2
    <3>3. CASE ~(i <= Len(t) + Len(sbuf))
      <4>1. b \in 1 .. Len(out) /\ i = Len(t) + Len(sbuf) + b /\ i + 1 = Len(toClient) + Len(sbuf) + b
        BY <2>2, <2>4, <2>5, <3>3
      <4> HIDE DEF b
      <4>2. r2[i] = out[b] /\ r[i + 1] = out[b]
        BY <2>4, <2>5, <4>1
      <4> QED BY <4>2
    <3> QED BY <3>1, <3>2, <3>3
  <2>7. Len(r2) = Len(r) - 1
    BY <2>2, <2>4, <2>5
  <2> QED BY <2>3, <2>5, <2>6, <2>7
<1>5. ASSUME NEW p \in Nat, At(cpc', conn', p)
      PROVE  cpc' \in {"header", "tabheader", "columns", "tabdata", "rows"}
  BY <1>5 DEF At
<1>6. ASSUME AnsweredWell, NEW A \in GoodAnswers(asked), NEW k \in 1 .. Len(A),
             At(cpc, conn, k), Follows(Coming, A, k, FALSE, asked), Top = A[k],
             asked > 0 => \A i \in DOMAIN truth[asked] :
               truth[asked][i].status = OK /\ truth[asked][i].rows = RowsIn(A)
      PROVE  /\ cpc' \in Places /\ conn' \in Conns /\ cpc' # "start"
             /\ conn'.status = OK /\ Phase'
             /\ cpc' = "idle" /\ asked > 0 => \A i \in DOMAIN truth[asked] :
                  truth[asked][i].status = OK /\ conn.rows = truth[asked][i].rows
  <2>0. Sound(A, asked)
    BY <1>2, AnswersSound
  <2>1. /\ k < Len(A) => Follows(Coming', A, k + 1, FALSE, asked)
        /\ k = Len(A) => Empty(Coming')
    BY <1>2, <1>4, <1>6, <2>0, FollowsTail
  <2>2. /\ Len(A) \in 1 .. MaxRows + 8 /\ RowsIn(A) = IF Len(A) = 2 THEN 0 ELSE Len(A) - 8
        /\ IF k < Len(A) THEN Inside(Top, k) ELSE LastGood(Top, k)
    BY <1>2, <1>6, GoodShape
  <2>3. srv = "ended" \/ (srv = "queries" /\ Behind(toWorker, inBody, asked))
    BY <1>6 DEF AnsweredWell
  <2>4. CASE k < Len(A)
    <3>1. k \in 1 .. MaxRows + 7 /\ k + 1 \in 1 .. Len(A) /\ k + 1 \in Nat
      BY <1>3, <2>2, <2>4
    <3>2. At(cpc', conn', k + 1) /\ conn' \in Conns /\ conn'.status = OK
      BY <1>3, <1>6, <2>2, <2>4, <3>1, ReadInside
    <3>3. AnsweredWell'
      <4>1. \E j \in 1 .. Len(A) :
              /\ At(cpc', conn', j) /\ Follows(Coming', A, j, FALSE, asked)
              /\ asked > 0 => \A i \in DOMAIN truth[asked] :
                   truth[asked][i].status = OK /\ truth[asked][i].rows = RowsIn(A)
        BY <1>6, <2>1, <2>4, <3>1, <3>2
      <4> QED BY <1>1, <2>3, <4>1 DEF AnsweredWell
    <3>4. cpc' \in {"header", "tabheader", "columns", "tabdata", "rows"}
      BY <1>5, <3>1, <3>2
    <3> QED BY <3>2, <3>3, <3>4 DEF Phase, Places
  <2>5. CASE ~(k < Len(A))
    <3>1. k = Len(A) /\ k \in Nat
      BY <2>2, <2>5
    <3>2. cpc' = "idle" /\ conn' \in Conns /\ conn'.status = OK
      BY <1>3, <1>6, <2>2, <2>5, <3>1, ReadLast
    <3>3. Settled'
      BY <1>1, <2>1, <2>3, <3>1, <3>2 DEF Settled
    <3>4. conn.rows = RowsIn(A)
      <4>1. k = 2 \/ k >= 8
        BY <2>2, <2>5 DEF LastGood
      <4>2. CASE k = 2
        BY <1>6, <2>2, <3>1, <4>2 DEF At
      <4>3. CASE k >= 8
        BY <1>6, <2>2, <3>1, <4>3 DEF At
      <4> QED BY <4>1, <4>2, <4>3
    <3> QED BY <1>6, <3>2, <3>3, <3>4 DEF Phase, Places
  <2> QED BY <2>4, <2>5
<1>7. ASSUME AnsweredBadly, NEW A \in BadAnswers(asked), NEW k \in 1 .. Len(A),
             At(cpc, conn, k), Follows(Coming, A, k, TRUE, asked), Top = A[k]
      PROVE  /\ cpc' \in Places /\ conn' \in Conns /\ cpc' # "start"
             /\ \/ conn'.status = OK /\ Phase' /\ cpc' # "idle"
                \/ conn'.status # OK /\ cpc' \in {"idle", "exit"}
  <2>0. Sound(A, asked)
    BY <1>2, AnswersSound
  <2>1. k < Len(A) => Follows(Coming', A, k + 1, TRUE, asked)
    BY <1>2, <1>4, <1>7, <2>0, FollowsTail
  <2>2. /\ Len(A) \in 1 .. MaxRows + 8
        /\ IF k < Len(A) THEN Inside(Top, k) ELSE LastBad(Top, k)
    BY <1>2, <1>7, BadShape
  <2>3. \/ srv \in {"closing", "ended"}
        \/ srv = "queries" /\ Behind(toWorker, inBody, asked)
        \/ srv = "recovery" /\ (toWorker = <<>> \/ Ending(toWorker, asked))
    BY <1>7 DEF AnsweredBadly
  <2>4. CASE k < Len(A)
    <3>1. k \in 1 .. MaxRows + 7 /\ k + 1 \in 1 .. Len(A) /\ k + 1 \in Nat
      BY <1>3, <2>2, <2>4
    <3>2. At(cpc', conn', k + 1) /\ conn' \in Conns /\ conn'.status = OK
      BY <1>3, <1>7, <2>2, <2>4, <3>1, ReadInside
    <3>3. AnsweredBadly'
      <4>1. \E j \in 1 .. Len(A) : At(cpc', conn', j) /\ Follows(Coming', A, j, TRUE, asked)
        BY <2>1, <2>4, <3>1, <3>2
      <4> QED BY <1>1, <2>3, <4>1 DEF AnsweredBadly
    <3>4. cpc' \in {"header", "tabheader", "columns", "tabdata", "rows"}
      BY <1>5, <3>1, <3>2
    <3> QED BY <3>2, <3>3, <3>4 DEF Phase, Places
  <2>5. CASE ~(k < Len(A))
    <3>1. k \in Nat
      BY <2>2
    <3>2. cpc' \in {"idle", "exit"} /\ conn' \in Conns /\ conn'.status # OK
      BY <1>3, <1>7, <2>2, <2>5, <3>1, ReadLast
    <3> QED BY <3>2 DEF Places
  <2> QED BY <2>4, <2>5
<1> QED BY <1>1, <1>6, <1>7, Awaiting

LEMMA ReceiveStep ==
  ASSUME IInv, Receive
  PROVE  IInv'
<1>1. /\ toClient # <<>> /\ toClient' = Tail(toClient) /\ Types
      /\ UNCHANGED <<asked, toWorker, srv, inBody, out, sbuf, truth>>
  BY DEF IInv, Receive, workerVars
<1>2. toClient' \in Seq(Upto(asked) \ {FLUSH})
  <2>1. toClient \in Seq(Upto(asked) \ {FLUSH})
    BY <1>1 DEF Types
  <2> QED BY <1>1, <2>1, HeadTailProperties
<1>3. cpc' \in Places /\ conn' \in Conns
  BY Reads
<1>4. Types'
  BY <1>1, <1>2, <1>3 DEF Types
<1> QED BY <1>4, Reads DEF IInv

LEMMA ClosedStep ==
  ASSUME IInv, RecvClosed
  PROVE  IInv' /\ conn'.status # OK
<1>1. /\ Types /\ cpc' \in {"idle", "exit"}
      /\ conn' = [conn EXCEPT !.status = IF cpc \in {"columns", "rows"} THEN "unknown_command"
                                         ELSE "connection_closed"]
      /\ UNCHANGED <<asked, toWorker, toClient, srv, inBody, out, sbuf, truth>>
  BY DEF IInv, RecvClosed, Return, workerVars
<1>2. conn' \in Conns /\ conn'.status # OK
  BY <1>1 DEF Types, Conns, ClientErrors, OK
<1>3. Types'
  BY <1>1, <1>2 DEF Types, Places
<1> QED BY <1>1, <1>2, <1>3 DEF IInv

-----------------------------------------------------------------------------
(* The theorems.                                                           *)

LEMMA InitIInv == Init => IInv
<1> SUFFICES ASSUME Init PROVE IInv
  OBVIOUS
<1>1. Starting /\ cpc = "start"
  BY DEF Init, Starting
<1>2. conn \in Conns
  BY <1>1, ProtocolAssumption DEF Starting, Conns
<1>3. \A S : <<>> \in Seq(S)
  BY EmptySeq
<1>4. DOMAIN truth = 1 .. MaxQueries /\ \A q \in 1 .. MaxQueries : truth[q] = <<>>
  BY DEF Init
<1>5. Types
  <2>1. /\ toWorker \in Seq(Requests(asked)) /\ toClient \in Seq(Upto(asked) \ {FLUSH})
        /\ sbuf \in Seq(Upto(asked) \ {FLUSH}) /\ out \in Seq(Upto(asked))
    BY <1>1, <1>3 DEF Starting
  <2>2. /\ cpc \in Places /\ asked \in 0 .. MaxQueries /\ inBody \in BOOLEAN
        /\ srv \in {"none", "header", "queries", "recovery", "closing", "ended"}
    <3>1. cpc = "start" /\ asked = 0 /\ srv = "none" /\ inBody = FALSE
      BY DEF Init
    <3>2. 0 \in 0 .. MaxQueries
      BY ProtocolAssumption
    <3> QED BY <3>1, <3>2 DEF Places
  <2> QED BY <1>2, <1>4, <2>1, <2>2 DEF Types
<1> QED BY <1>1, <1>5 DEF IInv, Starting

LEMMA NextIInv == OneEach /\ IInv /\ [Next]_vars => IInv'
<1> SUFFICES ASSUME OneEach, IInv, [Next]_vars PROVE IInv'
  OBVIOUS
<1>1. CASE Worker
  BY <1>1, AcceptStep, HeaderStep, ExecuteStep, GarbledStep, EndStep, RecoverStep, SendStep, SessionStep
     DEF Worker
<1>2. CASE WorkerDies
  BY <1>2, DeathStep
<1>3. CASE Client
  BY <1>3, ConnectStep, ReceiveStep, ClosedStep, GoneStep DEF Client
<1>4. CASE Leave \/ ClientDies
  BY <1>4, GoneStep
<1>5. ASSUME NEW line \in Lines, Ask(line) PROVE IInv'
  BY <1>5, AskStep
<1>6. CASE UNCHANGED vars
  <2>1. UNCHANGED <<cpc, conn, asked, toWorker, toClient, srv, inBody, out, sbuf, truth>>
    BY <1>6 DEF vars, clientVars, workerVars
  <2>2. Coming' = Coming
    BY <2>1 DEF Coming
  <2>3. Types' /\ (cpc' = "start" => Starting') /\ (conn'.status # OK => cpc' \in {"idle", "exit"})
    BY <2>1 DEF IInv, Types, Starting
  <2>4. Phase => Phase'
    BY <2>1, <2>2 DEF Phase, Unanswered, AnsweredWell, AnsweredBadly, Settled
  <2> QED BY <2>1, <2>3, <2>4 DEF IInv
<1> QED BY <1>1, <1>2, <1>3, <1>4, <1>5, <1>6 DEF Next

LEMMA Invariance == ASSUME OneEach PROVE Spec => []IInv
<1>1. IInv /\ [Next]_vars => IInv'
  BY NextIInv
<1> QED BY <1>1, InitIInv, PTL DEF Spec

\* The client parses a header only where the worker sent one (recv_header's text parser
\* never meets the binary commands of a table), counts no more columns and rows than an
\* answer has, and reads nothing of a query that it has not sent.
THEOREM ProtocolTypeOK == ASSUME OneEach PROVE Spec => []TypeOK
<1>1. IInv => TypeOK
  <2> SUFFICES ASSUME IInv PROVE TypeOK
    OBVIOUS
  <2>1. Types
    BY DEF IInv
  <2>2. \A i \in DOMAIN toClient : toClient[i].q \in 0 .. asked
    <3>1. toClient \in Seq(Upto(asked) \ {FLUSH})
      BY <2>1 DEF Types
    <3>2. DOMAIN toClient = 1 .. Len(toClient)
      BY <3>1, LenProperties
    <3>3. \A i \in 1 .. Len(toClient) : toClient[i] \in Upto(asked)
      BY <3>1, ElementOfSeq
    <3> QED BY <3>2, <3>3 DEF Upto
  <2>3. ASSUME cpc = "header", toClient # <<>> PROVE Text
    <3>1. Reading
      BY <2>3 DEF Reading
    <3>2. asked \in Nat
      BY <2>3, <3>1, Awaiting
    <3>3. ASSUME NEW k \in Nat, At(cpc, conn, k) PROVE k <= 3
      BY <2>3, <3>3 DEF At
    <3>4. ASSUME NEW A \in GoodAnswers(asked), NEW k \in 1 .. Len(A), At(cpc, conn, k), Top = A[k]
          PROVE  Text
      <4>1. IF k < Len(A) THEN Inside(Top, k) ELSE LastGood(Top, k)
        BY <3>2, <3>4, GoodShape
      <4>2. k \in Nat /\ (k = 1 \/ k = 2 \/ k = 3)
        BY <3>3, <3>4
      <4> QED BY <4>1, <4>2 DEF Inside, LastGood, Text
    <3>5. ASSUME NEW A \in BadAnswers(asked), NEW k \in 1 .. Len(A), At(cpc, conn, k), Top = A[k]
          PROVE  Text
      <4>1. IF k < Len(A) THEN Inside(Top, k) ELSE LastBad(Top, k)
        BY <3>2, <3>5, BadShape
      <4>2. k \in Nat /\ (k = 1 \/ k = 2 \/ k = 3)
        BY <3>3, <3>5
      <4> QED BY <4>1, <4>2 DEF Inside, LastBad, Text
    <3> QED BY <2>3, <3>1, <3>4, <3>5, Awaiting
  <2> QED BY <2>1, <2>2, <2>3 DEF Types, Places, Conns, TypeOK
<1> QED BY <1>1, Invariance, PTL

\* scrc_query sends a query and receives its answer: whatever a client that awaits an
\* answer reads belongs to the query it sent last, though what the worker sends for a
\* statement may hold two answers, or break off.
THEOREM ProtocolAnswersOwn == ASSUME OneEach PROVE Spec => []AnswersOwn
<1>1. IInv => AnswersOwn
  <2> SUFFICES ASSUME IInv, Reading, toClient # <<>> PROVE Top.q = asked
    BY DEF AnswersOwn
  <2>1. asked \in Nat
    BY Awaiting
  <2>2. ASSUME NEW A \in GoodAnswers(asked) \cup BadAnswers(asked), NEW k \in 1 .. Len(A), Top = A[k]
        PROVE  Top.q = asked
    BY <2>1, <2>2, AnswersSound DEF Sound, IsToken
  <2> QED BY <2>2, Awaiting
<1> QED BY <1>1, Invariance, PTL

\* A query that scrc_query returns with SCRC_OK, and whose rows are then read to the end,
\* was executed with success, and the rows read are all the rows that were found.
THEOREM ProtocolReportedIsDone == ASSUME OneEach PROVE Spec => ReportedIsDone
<1> DEFINE Told == Reading /\ cpc' = "idle" /\ conn'.status = OK /\ asked > 0
                   => \A i \in DOMAIN truth[asked] : /\ truth[asked][i].status = OK
                                                     /\ conn.rows = truth[asked][i].rows
<1>1. IInv /\ [Next]_vars => [Told]_vars
  <2> SUFFICES ASSUME IInv, Next, Reading, cpc' = "idle", conn'.status = OK, asked > 0
               PROVE  \A i \in DOMAIN truth[asked] : /\ truth[asked][i].status = OK
                                                     /\ conn.rows = truth[asked][i].rows
    OBVIOUS
  <2>1. cpc' # cpc /\ cpc # "idle" /\ cpc # "start"
    BY DEF Reading
  <2>2. Receive \/ RecvClosed
    <3>1. ~Worker /\ ~WorkerDies
      BY <2>1 DEF Worker, WorkerDies, Accept, Header, Execute, Garbled, EndOfQuery, Recover, Send,
                  SessionEnds, clientVars
    <3>2. ~Connect /\ ~Leave /\ ~ClientDies /\ \A line : ~Ask(line)
      BY <2>1 DEF Connect, Leave, ClientDies, Ask
    <3> QED BY <3>1, <3>2 DEF Next, Client
  <2>3. Receive
    BY <2>2, ClosedStep
  <2> QED BY <2>3, Reads
<1> QED BY <1>1, Invariance, PTL DEF Spec, ReportedIsDone

-----------------------------------------------------------------------------
(* Runs of bytes.                                                          *)

\* s carries the k bytes behind byte number n.
Run(s, n, k) == /\ s \in Seq(Nat) /\ n \in Nat /\ k \in Nat /\ Len(s) = k
                /\ \A i \in 1 .. k : s[i] = n + i

LEMMA RunOfBytes == ASSUME NEW n \in Nat, NEW k \in Nat PROVE Run(Bytes(n + 1, k), n, k)
<1> DEFINE e(i) == n + 1 + i - 1
<1>1. \A i \in 1 .. k : e(i) \in Nat
  OBVIOUS
<1> HIDE DEF e
<1>2. [i \in 1 .. k |-> e(i)] \in Seq(Nat)
  BY <1>1, IsASeq
<1>3. Bytes(n + 1, k) = [i \in 1 .. k |-> e(i)]
  BY DEF Bytes, e
<1>4. DOMAIN Bytes(n + 1, k) = 1 .. k
  BY DEF Bytes
<1>5. Len(Bytes(n + 1, k)) = k
  BY <1>2, <1>3, <1>4, LenProperties
<1>6. \A i \in 1 .. k : Bytes(n + 1, k)[i] = n + i
  BY DEF Bytes
<1> QED BY <1>2, <1>3, <1>5, <1>6 DEF Run

LEMMA RunIsBytes == ASSUME NEW s, NEW n, NEW k, Run(s, n, k) PROVE s = Bytes(n + 1, k)
<1>1. Run(Bytes(n + 1, k), n, k)
  BY RunOfBytes DEF Run
<1> QED BY <1>1, SeqEqual DEF Run

LEMMA RunCat ==
  ASSUME NEW s, NEW t, NEW n, NEW j, NEW k, Run(s, n, j), Run(t, n + j, k)
  PROVE  Run(s \o t, n, j + k)
<1>1. /\ s \o t \in Seq(Nat) /\ Len(s \o t) = Len(s) + Len(t)
      /\ \A i \in 1 .. Len(s) + Len(t) : (s \o t)[i] =
           IF i <= Len(s) THEN s[i] ELSE t[i - Len(s)]
  BY ConcatProperties DEF Run
<1>2. n \in Nat /\ j \in Nat /\ k \in Nat /\ Len(s) = j /\ Len(t) = k
  BY DEF Run
<1>3. \A i \in 1 .. j + k : (s \o t)[i] = n + i
  <2> TAKE i \in 1 .. j + k
  <2>1. CASE i <= j
    BY <1>1, <1>2, <2>1 DEF Run
  <2>2. CASE ~ i <= j
    <3>1. i - j \in 1 .. k
      BY <1>2, <2>2
    <3> QED BY <1>1, <1>2, <2>2, <3>1 DEF Run
  <2> QED BY <2>1, <2>2
<1> QED BY <1>1, <1>2, <1>3 DEF Run

\* A part of a sequence.
LEMMA Cut ==
  ASSUME NEW S, NEW s \in Seq(S), NEW a \in Nat, NEW b \in Nat, a <= b, b <= Len(s)
  PROVE  /\ SubSeq(s, a + 1, b) \in Seq(S) /\ Len(SubSeq(s, a + 1, b)) = b - a
         /\ \A i \in 1 .. b - a : SubSeq(s, a + 1, b)[i] = s[a + i]
<1>1. \A i \in a + 1 .. b : s[i] \in S
  BY ElementOfSeq
<1>2. /\ SubSeq(s, a + 1, b) \in Seq(S)
      /\ Len(SubSeq(s, a + 1, b)) = IF a + 1 <= b THEN b - (a + 1) + 1 ELSE 0
      /\ \A i \in 1 .. b - (a + 1) + 1 : SubSeq(s, a + 1, b)[i] = s[a + 1 + i - 1]
  <2>1. a + 1 \in Int /\ b \in Int
    OBVIOUS
  <2> QED BY <1>1, <2>1, SubSeqProperties
<1> QED BY <1>2

LEMMA RunPart ==
  ASSUME NEW s, NEW n, NEW k, Run(s, n, k), NEW a \in Nat, NEW b \in Nat, a <= b, b <= k
  PROVE  Run(SubSeq(s, a + 1, b), n + a, b - a)
<1>1. s \in Seq(Nat) /\ n \in Nat /\ k \in Nat /\ Len(s) = k /\ \A i \in 1 .. k : s[i] = n + i
  BY DEF Run
<1>2. /\ SubSeq(s, a + 1, b) \in Seq(Nat) /\ Len(SubSeq(s, a + 1, b)) = b - a
      /\ \A i \in 1 .. b - a : SubSeq(s, a + 1, b)[i] = s[a + i]
  <2>1. PICK N : N = Nat
    OBVIOUS
  <2>2. s \in Seq(N) /\ a \in Nat /\ b \in Nat /\ a <= b /\ b <= Len(s)
    BY <1>1, <2>1
  <2>3. /\ SubSeq(s, a + 1, b) \in Seq(N) /\ Len(SubSeq(s, a + 1, b)) = b - a
        /\ \A i \in 1 .. b - a : SubSeq(s, a + 1, b)[i] = s[a + i]
    BY <2>2, Cut, SMTT(30)
  <2> QED BY <2>1, <2>3
<1>3. \A i \in 1 .. b - a : SubSeq(s, a + 1, b)[i] = n + a + i
  BY <1>1, <1>2
<1> QED BY <1>1, <1>2, <1>3 DEF Run

LEMMA RunNone == ASSUME NEW n \in Nat PROVE Run(<<>>, n, 0)
BY EmptySeq DEF Run

LEMMA Divides ==
  ASSUME NEW a \in Nat, NEW b \in Nat \ {0}
  PROVE  /\ (a \div b) * b \in Nat /\ (a % b) \in 0 .. b - 1
         /\ (a \div b) * b + (a % b) = a
<1>1. (a % b) \in 0 .. b - 1 /\ a \div b \in Nat /\ a = b * (a \div b) + (a % b)
  OBVIOUS
<1>2. \A x \in Nat : x * b \in Nat /\ x * b = b * x
  OBVIOUS
<1> QED BY <1>1, <1>2

-----------------------------------------------------------------------------
(* The invariant.                                                          *)

Asks == [kind : {"line", "block"}, from : Nat, len : Nat \ {0}]

\* The pieces that are not received: they follow one another from the last
\* received one to the last sent one, and a line is read from the first.
Outstanding ==
  /\ todo \in Seq(Asks)
  /\ IF todo = <<>> THEN made = taken ELSE todo[1].from = taken + 1
  /\ \A i \in 1 .. Len(todo) :
       LET next == todo[i].from + todo[i].len
       IN  next <= made + 1 /\ IF i = Len(todo) THEN next = made + 1 ELSE todo[i + 1].from = next
  /\ got > 0 => todo # <<>> /\ Want.kind = "line" /\ got < Want.len

\* The number of the last byte the client has read, and of the last one that has
\* come as far as the socket; what waits behind the bytes being sent.
Front == taken + got
Sent == Front + Valid + Len(wire)
Buffered == IF unsent = <<>> THEN send_buf ELSE after

Received ==
  ~skipped => /\ \A i \in 0 .. Valid - 1 : rbuf[rpos + i] = Front + 1 + i
              /\ Run(wire, Front + Valid, Len(wire))

Sending ==
  /\ ~alive => unsent = <<>>
  /\ alive /\ ~skipped => /\ Run(unsent, Sent, Len(unsent))
                          /\ Run(Buffered, Sent + Len(unsent), Len(Buffered))
                          /\ made = Sent + Len(unsent) + Len(Buffered)

\* The line that is being read stands behind begin.
LineThere ==
  ~skipped /\ ~torn /\ got > 0 =>
    begin + got = rpos /\ \A i \in 0 .. got - 1 : rbuf[begin + i] = taken + 1 + i

StreamInv ==
  StreamTypeOK /\ Outstanding /\ Received /\ Sending /\ LineThere /\ PiecesIntact

-----------------------------------------------------------------------------
\* The invariant says what is promised.
LEMMA RunsInOrder == StreamInv => InOrder
<1> SUFFICES ASSUME StreamInv, alive, ~skipped
             PROVE  Shown(rpos, Valid) \o wire \o unsent \o Buffered
                      = Bytes(taken + got + 1, made - taken - got)
  BY DEF InOrder, Buffered
<1> DEFINE s == Shown(rpos, Valid)
<1>1. /\ taken \in Nat /\ got \in Nat /\ rpos \in Nat /\ rlen \in Nat /\ rpos <= rlen
      /\ rlen <= FULLSZ /\ rbuf \in [0 .. FULLSZ - 1 -> Nat] /\ FULLSZ \in Nat
  BY StreamAssumption DEF StreamInv, StreamTypeOK, FULLSZ, RESERVESZ, HEADER_MAX
<1>2. Valid \in Nat /\ Front \in Nat
  BY <1>1 DEF Valid, Front
<1>3. Run(s, Front, Valid)
  <2>1. \A i \in 1 .. Valid : s[i] = Front + i
    <3> TAKE i \in 1 .. Valid
    <3>1. i - 1 \in 0 .. Valid - 1 /\ rpos + (i - 1) = rpos + i - 1 /\ rpos + i - 1 \in DOMAIN rbuf
      BY <1>1 DEF Valid
    <3>2. rbuf[rpos + (i - 1)] = Front + 1 + (i - 1)
      BY <3>1 DEF StreamInv, Received
    <3>3. s[i] = rbuf[rpos + i - 1]
      BY <3>1 DEF Shown
    <3> QED BY <1>2, <3>1, <3>2, <3>3
  <2>2. s = Bytes(Front + 1, Valid)
    <3>1. \A i \in 1 .. Valid : Front + 1 + i - 1 = Front + i
      BY <1>2
    <3>2. s = [i \in 1 .. Valid |-> s[i]]
      BY DEF Shown
    <3> HIDE DEF s
    <3> QED BY <2>1, <3>1, <3>2 DEF Bytes
  <2> QED BY <1>2, <2>2, RunOfBytes
<1> HIDE DEF s
<1>4. Run(wire, Front + Valid, Len(wire))
  BY DEF StreamInv, Received
<1>5. /\ Run(unsent, Front + Valid + Len(wire), Len(unsent))
      /\ Run(Buffered, Front + Valid + Len(wire) + Len(unsent), Len(Buffered))
      /\ made = Front + Valid + Len(wire) + Len(unsent) + Len(Buffered)
  BY DEF StreamInv, Sending, Sent
<1>6. Len(wire) \in Nat /\ Len(unsent) \in Nat /\ Len(Buffered) \in Nat
  BY <1>4, <1>5 DEF Run
<1> HIDE DEF StreamInv
<1>7. Run(s \o wire, Front, Valid + Len(wire))
  BY <1>3, <1>4, RunCat
<1>8. Run((s \o wire) \o unsent, Front, Valid + Len(wire) + Len(unsent))
  <2>1. Front + Valid + Len(wire) = Front + (Valid + Len(wire))
    BY <1>2, <1>6
  <2> QED BY <1>5, <1>7, <2>1, RunCat
<1>9. Run(((s \o wire) \o unsent) \o Buffered, Front,
          Valid + Len(wire) + Len(unsent) + Len(Buffered))
  <2>1. Front + Valid + Len(wire) + Len(unsent) = Front + (Valid + Len(wire) + Len(unsent))
    BY <1>2, <1>6
  <2> QED BY <1>5, <1>8, <2>1, RunCat
<1>10. Valid + Len(wire) + Len(unsent) + Len(Buffered) = made - taken - got
  BY <1>1, <1>2, <1>5, <1>6 DEF Front
<1> QED BY <1>9, <1>10, RunIsBytes DEF Front, s

-----------------------------------------------------------------------------
(* What the parts say, one by one.                                         *)

LEMMA StreamSizes ==
  /\ SENDBUFSZ \in Nat \ {0} /\ BUFSZ \in Nat \ {0} /\ SocketCap \in Nat \ {0}
  /\ MaxBytes \in Nat \ {0}
  /\ FULLSZ \in Nat \ {0} /\ FULLSZ = BUFSZ + BUFSZ
  /\ HEADER_MAX \in Nat /\ HEADER_MAX >= 1
<1>1. /\ {SENDBUFSZ, BUFSZ, SocketCap, MaxBytes} \subseteq Nat \ {0} /\ BUFSZ > 1
  BY StreamAssumption
<1>2. BUFSZ \div 2 \in Nat /\ BUFSZ \div 2 >= 1
  BY <1>1
<1> QED BY <1>1, <1>2 DEF FULLSZ, RESERVESZ, HEADER_MAX

LEMMA StreamTypes ==
  ASSUME StreamTypeOK
  PROVE  /\ send_buf \in Seq(1 .. MaxBytes) /\ unsent \in Seq(1 .. MaxBytes)
         /\ after \in Seq(1 .. MaxBytes) /\ wire \in Seq(1 .. MaxBytes)
         /\ rpos \in Nat /\ rlen \in Nat /\ rpos <= rlen /\ rlen <= FULLSZ
         /\ Valid \in Nat /\ rpos + Valid = rlen
         /\ begin \in Nat /\ got \in Nat /\ made \in Nat /\ taken \in Nat /\ Front \in Nat
BY StreamSizes DEF StreamTypeOK, Valid, Front

LEMMA SeqLen == ASSUME NEW S, NEW s \in Seq(S) PROVE Len(s) \in Nat /\ DOMAIN s = 1 .. Len(s)
BY LenProperties

LEMMA SeqOf == ASSUME NEW S, NEW T, NEW s \in Seq(S), \A i \in 1 .. Len(s) : s[i] \in T
               PROVE  s \in Seq(T)
<1> DEFINE e(i) == s[i]
<1>1. \A i \in 1 .. Len(s) : e(i) \in T
  OBVIOUS
<1>2. Len(s) \in Nat /\ DOMAIN s = 1 .. Len(s)
  BY SeqLen
<1> HIDE DEF e
<1>3. [i \in 1 .. Len(s) |-> e(i)] \in Seq(T)
  BY <1>1, <1>2, IsASeq
<1>4. s = [i \in 1 .. Len(s) |-> e(i)]
  <2>1. s = [i \in 1 .. Len(s) |-> s[i]]
    BY <1>2
  <2> QED BY <2>1 DEF e
<1> QED BY <1>3, <1>4

\* Bytes that have numbers up to MaxBytes.
LEMMA RunSeq ==
  ASSUME NEW s, NEW n, NEW k, Run(s, n, k), n + k <= MaxBytes
  PROVE  s \in Seq(1 .. MaxBytes)
<1>1. s \in Seq(Nat) /\ n \in Nat /\ k \in Nat /\ Len(s) = k /\ \A i \in 1 .. k : s[i] = n + i
  BY DEF Run
<1>2. \A i \in 1 .. Len(s) : s[i] \in 1 .. MaxBytes
  BY <1>1, StreamSizes
<1> QED BY <1>1, <1>2, SeqOf

LEMMA CutIn ==
  ASSUME NEW S, NEW s \in Seq(S), NEW m \in Nat, m <= Len(s)
  PROVE  /\ SubSeq(s, 1, m) \in Seq(S) /\ Len(SubSeq(s, 1, m)) = m
         /\ SubSeq(s, m + 1, Len(s)) \in Seq(S) /\ Len(SubSeq(s, m + 1, Len(s))) = Len(s) - m
<1>1. Len(s) \in Nat /\ 0 + 1 = 1 /\ 0 <= m /\ m - 0 = m /\ 0 \in Nat
  BY SeqLen
<1>2. SubSeq(s, 0 + 1, m) \in Seq(S) /\ Len(SubSeq(s, 0 + 1, m)) = m - 0
  BY <1>1, Cut
<1>3. SubSeq(s, m + 1, Len(s)) \in Seq(S) /\ Len(SubSeq(s, m + 1, Len(s))) = Len(s) - m
  BY <1>1, Cut
<1> QED BY <1>1, <1>2, <1>3

LEMMA RunSplit ==
  ASSUME NEW s, NEW n, NEW k, Run(s, n, k), NEW m \in Nat, m <= k
  PROVE  /\ Run(SubSeq(s, 1, m), n, m) /\ Run(SubSeq(s, m + 1, k), n + m, k - m)
<1>1. n \in Nat /\ k \in Nat
  BY DEF Run
<1>2. 0 + 1 = 1 /\ 0 <= m /\ m - 0 = m /\ n + 0 = n /\ 0 \in Nat /\ k <= k
  BY <1>1
<1>3. Run(SubSeq(s, 0 + 1, m), n + 0, m - 0)
  BY <1>2, RunPart
<1>4. Run(SubSeq(s, m + 1, k), n + m, k - m)
  BY <1>1, <1>2, RunPart
<1> QED BY <1>2, <1>3, <1>4

-----------------------------------------------------------------------------
(* session_send.                                                           *)

\* What session_send gives away of data that the buffer has no room for.
Room == SENDBUFSZ - Len(send_buf)
Direct(data) == ((Len(data) - Room) \div SENDBUFSZ) * SENDBUFSZ
Kept(data) == (Len(data) - Room) % SENDBUFSZ
More(data) == IF Len(send_buf) > 0 THEN SubSeq(data, Room + 1, Len(data)) ELSE data

LEMMA Rooms ==
  ASSUME StreamTypeOK, NEW data \in Seq(Nat), Len(send_buf) + Len(data) >= SENDBUFSZ
  PROVE  /\ Len(send_buf) \in Nat /\ Len(data) \in Nat
         /\ Room \in Nat /\ Room <= Len(data) /\ Len(send_buf) + Room = SENDBUFSZ
         /\ Direct(data) \in Nat /\ Kept(data) \in Nat /\ Kept(data) < SENDBUFSZ
         /\ Direct(data) + Kept(data) = Len(data) - Room
<1>1. Len(send_buf) \in Nat /\ Len(data) \in Nat /\ Len(send_buf) < SENDBUFSZ
  BY StreamTypes, SeqLen DEF StreamTypeOK
<1>2. Room \in Nat /\ Room <= Len(data) /\ Len(send_buf) + Room = SENDBUFSZ
  BY <1>1, StreamSizes DEF Room
<1>3. Len(data) - Room \in Nat
  BY <1>1, <1>2
<1>4. /\ Direct(data) \in Nat /\ Kept(data) \in 0 .. SENDBUFSZ - 1
      /\ Direct(data) + Kept(data) = Len(data) - Room
  BY <1>3, StreamSizes, Divides DEF Direct, Kept
<1> QED BY <1>1, <1>2, <1>4, StreamSizes

LEMMA OverfullIs ==
  ASSUME NEW data, Overfull(data)
  PROVE  /\ unsent' = (IF Len(send_buf) > 0 THEN send_buf \o SubSeq(data, 1, Room) ELSE <<>>)
                      \o SubSeq(More(data), 1, Direct(data))
         /\ after' = SubSeq(More(data), Direct(data) + 1, Direct(data) + Kept(data))
         /\ send_buf' = IF unsent' = <<>> THEN after' ELSE send_buf
         /\ skipped' = (skipped \/ Len(send_buf) = 0)
BY DEF Overfull, Room, Direct, Kept, More

LEMMA OverfullTypes ==
  ASSUME StreamTypeOK, NEW data \in Seq(1 .. MaxBytes), Overfull(data),
         Len(send_buf) + Len(data) >= SENDBUFSZ
  PROVE  /\ unsent' \in Seq(1 .. MaxBytes)
         /\ after' \in Seq(1 .. MaxBytes) /\ Len(after') < SENDBUFSZ
         /\ send_buf' \in Seq(1 .. MaxBytes) /\ Len(send_buf') < SENDBUFSZ
<1> DEFINE S == 1 .. MaxBytes
           b == Len(send_buf)
           d == Len(data)
           m == More(data)
           f == Direct(data)
           k == Kept(data)
<1>1. data \in Seq(Nat)
  <2>1. \A i \in 1 .. Len(data) : data[i] \in Nat
    BY ElementOfSeq, StreamSizes
  <2> QED BY <2>1, SeqOf
<1>2. /\ b \in Nat /\ d \in Nat /\ Room \in Nat /\ Room <= d /\ f \in Nat /\ k \in Nat
      /\ k < SENDBUFSZ /\ f + k = d - Room
  BY <1>1, Rooms
<1>3. send_buf \in Seq(S) /\ b < SENDBUFSZ /\ SENDBUFSZ \in Nat
  BY StreamTypes, StreamSizes DEF StreamTypeOK
<1>4. SubSeq(data, 1, Room) \in Seq(S) /\ SubSeq(data, Room + 1, d) \in Seq(S)
      /\ Len(SubSeq(data, Room + 1, d)) = d - Room
  BY <1>2, CutIn
<1>5. m \in Seq(S) /\ Len(m) \in Nat /\ f + k <= Len(m)
  <2>1. CASE b > 0
    BY <2>1, <1>2, <1>4 DEF More
  <2>2. CASE ~ b > 0
    BY <2>2, <1>2 DEF More
  <2> QED BY <2>1, <2>2
<1> HIDE DEF S, b, d, m, f, k
<1>6. SubSeq(m, 1, f) \in Seq(S)
  <2>1. f <= Len(m)
    BY <1>2, <1>5
  <2> QED BY <1>2, <1>5, <2>1, CutIn
<1>7. SubSeq(m, f + 1, f + k) \in Seq(S) /\ Len(SubSeq(m, f + 1, f + k)) = k
  <2>1. f + k \in Nat /\ f <= f + k /\ f + k - f = k
    BY <1>2
  <2> QED BY <1>2, <1>5, <2>1, Cut
<1>8. send_buf \o SubSeq(data, 1, Room) \in Seq(S) /\ <<>> \in Seq(S)
  BY <1>3, <1>4, ConcatProperties, EmptySeq
<1>9. unsent' \in Seq(S)
  <2>1. \A s, t \in Seq(S) : s \o t \in Seq(S)
    BY ConcatProperties
  <2>2. (IF b > 0 THEN send_buf \o SubSeq(data, 1, Room) ELSE <<>>) \in Seq(S)
    BY <1>8
  <2> QED BY <1>6, <2>1, <2>2, OverfullIs DEF b, m, f
<1>10. after' \in Seq(S) /\ Len(after') < SENDBUFSZ
  BY <1>2, <1>7, OverfullIs DEF m, f, k
<1>11. send_buf' \in Seq(S) /\ Len(send_buf') < SENDBUFSZ
  BY <1>3, <1>10, OverfullIs DEF b
<1> QED BY <1>9, <1>10, <1>11 DEF S

LEMMA OverfullRuns ==
  ASSUME StreamTypeOK, NEW data, NEW n, Overfull(data), Len(send_buf) > 0,
         Run(send_buf, n, Len(send_buf)), Run(data, n + Len(send_buf), Len(data)),
         Len(send_buf) + Len(data) >= SENDBUFSZ
  PROVE  /\ Run(unsent', n, Len(unsent')) /\ Run(after', n + Len(unsent'), Len(after'))
         /\ Len(unsent') + Len(after') = Len(send_buf) + Len(data)
<1> DEFINE b == Len(send_buf)
           d == Len(data)
           r == Room
           m == More(data)
           f == Direct(data)
           k == Kept(data)
<1>1. data \in Seq(Nat) /\ n \in Nat
  BY DEF Run
<1>2. /\ b \in Nat /\ d \in Nat /\ r \in Nat /\ r <= d /\ f \in Nat /\ k \in Nat
      /\ f + k = d - r
  BY <1>1, Rooms
<1>3. Run(send_buf, n, b) /\ Run(data, n + b, d)
  OBVIOUS
<1>4. unsent' = (send_buf \o SubSeq(data, 1, r)) \o SubSeq(m, 1, f)
  BY OverfullIs
<1>5. after' = SubSeq(m, f + 1, f + k)
  BY OverfullIs
<1>6. m = SubSeq(data, r + 1, d)
  BY DEF More
<1> HIDE DEF b, d, r, m, f, k
<1>7. Run(SubSeq(data, 1, r), n + b, r) /\ Run(m, n + b + r, d - r)
  BY <1>2, <1>3, <1>6, RunSplit
<1>8. f <= d - r /\ d - r - f = k /\ d - r = f + k
  BY <1>2
<1>9. Run(SubSeq(m, 1, f), n + b + r, f) /\ Run(SubSeq(m, f + 1, f + k), n + b + r + f, k)
  BY <1>2, <1>7, <1>8, RunSplit
<1>10. Run(send_buf \o SubSeq(data, 1, r), n, b + r)
  BY <1>3, <1>7, RunCat
<1>11. Run(unsent', n, b + r + f)
  <2>1. n + (b + r) = n + b + r
    BY <1>1, <1>2
  <2> QED BY <1>4, <1>9, <1>10, <2>1, RunCat
<1>12. Len(unsent') = b + r + f /\ Len(after') = k
  BY <1>5, <1>9, <1>11 DEF Run
<1>13. n + b + r + f = n + Len(unsent') /\ Len(unsent') + Len(after') = b + d
  BY <1>1, <1>2, <1>12
<1> QED BY <1>5, <1>9, <1>11, <1>12, <1>13 DEF b, d

\* The pieces of the code, and where one ends.
EndOf(t, i) == t[i].from + t[i].len

LEMMA OutstandingIs ==
  ASSUME StreamTypeOK, Outstanding
  PROVE  /\ Len(todo) \in Nat /\ todo \in Seq(Asks)
         /\ todo = <<>> <=> Len(todo) = 0
         /\ todo = <<>> => made = taken
         /\ todo # <<>> => todo[1].from = taken + 1 /\ Want = todo[1] /\ Want \in Asks
         /\ \A i \in 1 .. Len(todo) :
              /\ todo[i] \in Asks /\ EndOf(todo, i) <= made + 1
              /\ i = Len(todo) => EndOf(todo, i) = made + 1
              /\ i # Len(todo) => todo[i + 1].from = EndOf(todo, i)
<1>1. todo \in Seq(Asks)
  BY DEF Outstanding
<1>2. Len(todo) \in Nat /\ \A i \in 1 .. Len(todo) : todo[i] \in Asks
  BY <1>1, SeqLen, ElementOfSeq
<1>3. todo = <<>> <=> Len(todo) = 0
  BY <1>1, EmptySeq
<1>4. todo # <<>> => Want = todo[1] /\ Want \in Asks
  BY <1>2, <1>3 DEF Want
<1> QED BY <1>1, <1>2, <1>3, <1>4 DEF Outstanding, EndOf

\* One piece more.
LEMMA OutstandingMore ==
  ASSUME StreamTypeOK, Outstanding, NEW x \in Asks, x.from = made + 1,
         todo' = Append(todo, x), made' = made + x.len, UNCHANGED <<taken, got>>
  PROVE  Outstanding'
<1> DEFINE n == Len(todo)
<1>1. /\ n \in Nat /\ todo \in Seq(Asks)
      /\ todo = <<>> <=> n = 0
      /\ todo = <<>> => made = taken
      /\ todo # <<>> => todo[1].from = taken + 1 /\ Want = todo[1] /\ Want \in Asks
      /\ \A i \in 1 .. n :
           /\ todo[i] \in Asks /\ EndOf(todo, i) <= made + 1
           /\ i = n => EndOf(todo, i) = made + 1
           /\ i # n => todo[i + 1].from = EndOf(todo, i)
  BY OutstandingIs
<1>2. /\ todo' \in Seq(Asks) /\ Len(todo') = n + 1 /\ todo'[n + 1] = x
      /\ \A i \in 1 .. n : todo'[i] = todo[i]
  BY <1>1, AppendProperties
<1>3. x.from \in Nat /\ x.len \in Nat \ {0} /\ made \in Nat /\ taken \in Nat
  BY StreamTypes DEF Asks
<1>4. todo' # <<>> /\ todo'[1].from = taken' + 1
  <2>1. CASE n = 0
    BY <2>1, <1>1, <1>2, EmptySeq
  <2>2. CASE n # 0
    BY <2>2, <1>1, <1>2, EmptySeq
  <2> QED BY <2>1, <2>2
<1>5. \A i \in 1 .. n + 1 :
        /\ EndOf(todo', i) <= made' + 1
        /\ i = n + 1 => EndOf(todo', i) = made' + 1
        /\ i # n + 1 => todo'[i + 1].from = EndOf(todo', i)
  <2> TAKE i \in 1 .. n + 1
  <2>1. CASE i = n + 1
    BY <2>1, <1>2, <1>3 DEF EndOf
  <2>2. CASE i = n /\ n # 0
    <3>1. i \in 1 .. n /\ EndOf(todo', i) = EndOf(todo, i) /\ EndOf(todo, i) = made + 1
      BY <2>2, <1>1, <1>2 DEF EndOf
    <3> QED BY <2>2, <3>1, <1>1, <1>2, <1>3
  <2>3. CASE i < n
    <3>1. /\ i \in 1 .. n /\ i + 1 \in 1 .. n /\ EndOf(todo', i) = EndOf(todo, i)
          /\ todo'[i + 1] = todo[i + 1]
      BY <2>3, <1>1, <1>2 DEF EndOf
    <3>2. EndOf(todo, i) <= made + 1 /\ todo[i + 1].from = EndOf(todo, i)
      BY <2>3, <3>1, <1>1
    <3>3. EndOf(todo, i) \in Nat
      BY <3>1, <1>1 DEF EndOf, Asks
    <3> QED BY <2>3, <3>1, <3>2, <3>3, <1>1, <1>3
  <2> QED BY <2>1, <2>2, <2>3, <1>1
<1>6. got' > 0 => Want'.kind = "line" /\ got' < Want'.len
  <2> SUFFICES ASSUME got > 0 PROVE Want'.kind = "line" /\ got < Want'.len
    OBVIOUS
  <2>1. todo # <<>> /\ Want.kind = "line" /\ got < Want.len
    BY DEF Outstanding
  <2>2. Want' = todo'[1] /\ todo'[1] = todo[1]
    BY <2>1, <1>1, <1>2, <1>4 DEF Want
  <2> QED BY <2>1, <2>2, <1>1
<1> QED BY <1>2, <1>4, <1>5, <1>6 DEF Outstanding, EndOf

\* What the worker leaves alone.
LEMMA ClientKept ==
  ASSUME StreamInv, UNCHANGED client, skipped => skipped'
  PROVE  LineThere' /\ PiecesIntact' /\ Front' = Front /\ Valid' = Valid
         /\ (UNCHANGED wire => Received' /\ Sent' = Sent)
<1>1. UNCHANGED <<rbuf, rlen, rpos, begin, got, taken, wrong, torn, ended>>
  BY DEF client
<1>2. Front' = Front /\ Valid' = Valid
  BY <1>1 DEF Front, Valid
<1>3. LineThere' /\ PiecesIntact'
  BY <1>1 DEF StreamInv, LineThere, PiecesIntact
<1>4. UNCHANGED wire => Received' /\ Sent' = Sent
  BY <1>1, <1>2 DEF StreamInv, Received, Sent
<1> QED BY <1>2, <1>3, <1>4

LEMMA SessionSendStep ==
  ASSUME StreamInv, NEW p \in Pieces, session_send(p)
  PROVE  StreamInv'
<1> DEFINE data == Bytes(made + 1, p.len)
           b == Len(send_buf)
           L == p.len
           x == [kind |-> p.kind, from |-> made + 1, len |-> L]
<1>1. /\ unsent = <<>> /\ alive /\ made + L <= MaxBytes
      /\ made' = made + L /\ todo' = Append(todo, x)
      /\ UNCHANGED <<alive, flushed, wire>> /\ UNCHANGED client
  BY DEF session_send
<1>2. StreamTypeOK /\ Outstanding /\ Sending
  BY DEF StreamInv
<1>3. p \in [kind : {"line", "block"}, len : Nat \ {0}] /\ L \in Nat \ {0}
  BY StreamAssumption
<1>4. made \in Nat /\ taken \in Nat /\ b \in Nat /\ send_buf \in Seq(1 .. MaxBytes)
  BY <1>2, StreamTypes, SeqLen
<1>5. Run(data, made, L) /\ Len(data) = L
  BY <1>3, <1>4, RunOfBytes DEF Run
<1>6. data \in Seq(1 .. MaxBytes)
  BY <1>1, <1>5, RunSeq
<1>7. IF b + L >= SENDBUFSZ THEN Overfull(data)
      ELSE send_buf' = send_buf \o data /\ UNCHANGED <<unsent, after, skipped>>
  BY DEF session_send
<1>8. UNCHANGED <<rbuf, rlen, rpos, begin, got, taken, wrong, torn, ended>>
  BY <1>1 DEF client
<1>9. x \in Asks /\ x.from = made + 1 /\ x.len = L
  BY <1>3, <1>4 DEF Asks
<1> HIDE DEF data, b, L, x
<1>10. Outstanding'
  BY <1>1, <1>2, <1>8, <1>9, OutstandingMore
<1>11. /\ send_buf' \in Seq(1 .. MaxBytes) /\ unsent' \in Seq(1 .. MaxBytes)
       /\ after' \in Seq(1 .. MaxBytes)
       /\ Len(send_buf') < SENDBUFSZ /\ Len(after') < SENDBUFSZ
       /\ skipped' \in BOOLEAN /\ (skipped => skipped')
  <2>1. CASE b + L >= SENDBUFSZ
    <3>1. Overfull(data)
      BY <1>7, <2>1
    <3>2. skipped' = (skipped \/ b = 0)
      BY <3>1, OverfullIs DEF b
    <3>3. Len(send_buf) + Len(data) >= SENDBUFSZ
      BY <2>1, <1>5 DEF b
    <3> QED BY <1>2, <1>6, <3>1, <3>2, <3>3, OverfullTypes DEF StreamTypeOK
  <2>2. CASE ~ b + L >= SENDBUFSZ
    <3>1. send_buf' = send_buf \o data /\ UNCHANGED <<unsent, after, skipped>>
      BY <1>7, <2>2
    <3>2. send_buf' \in Seq(1 .. MaxBytes) /\ Len(send_buf') = b + L
      BY <1>4, <1>5, <1>6, <3>1, ConcatProperties DEF b
    <3>3. b + L < SENDBUFSZ
      BY <1>3, <1>4, <2>2, StreamSizes
    <3> QED BY <1>2, <3>1, <3>2, <3>3 DEF StreamTypeOK
  <2> QED BY <2>1, <2>2
<1>12. StreamTypeOK'
  <2>1. made' \in 0 .. MaxBytes
    BY <1>1, <1>3, <1>4, StreamSizes
  <2> QED BY <1>1, <1>2, <1>8, <1>11, <2>1 DEF StreamTypeOK
<1>13. LineThere' /\ PiecesIntact' /\ Received' /\ Sent' = Sent
  BY <1>1, <1>11, ClientKept
<1>14. Sending'
  <2> SUFFICES ASSUME ~skipped'
               PROVE  /\ Run(unsent', Sent, Len(unsent'))
                      /\ Run(Buffered', Sent + Len(unsent'), Len(Buffered'))
                      /\ made + L = Sent + Len(unsent') + Len(Buffered')
    BY <1>1, <1>13 DEF Sending
  <2>1. Run(send_buf, Sent, b) /\ made = Sent + b /\ Sent \in Nat
    <3>1. Run(unsent, Sent, Len(unsent)) /\ Run(Buffered, Sent + Len(unsent), Len(Buffered))
          /\ made = Sent + Len(unsent) + Len(Buffered)
      BY <1>1, <1>2, <1>11 DEF Sending
    <3>2. Buffered = send_buf /\ Len(unsent) = 0
      BY <1>1, EmptySeq DEF Buffered
    <3>3. Sent \in Nat
      BY <3>1 DEF Run
    <3> QED BY <3>1, <3>2, <3>3 DEF b
  <2>2. CASE b + L >= SENDBUFSZ
    <3>1. Overfull(data)
      BY <1>7, <2>2
    <3>2. skipped' = (skipped \/ b = 0) /\ (send_buf' = IF unsent' = <<>> THEN after' ELSE send_buf)
      BY <3>1, OverfullIs DEF b
    <3>3. Len(send_buf) + Len(data) >= SENDBUFSZ /\ Len(send_buf) > 0
      <4>1. b # 0
        BY <3>2
      <4>2. b > 0 /\ b + Len(data) >= SENDBUFSZ
        BY <2>2, <1>4, <1>5, <4>1
      <4> QED BY <4>2 DEF b
    <3>4. Run(data, Sent + Len(send_buf), Len(data)) /\ Run(send_buf, Sent, Len(send_buf))
      BY <1>5, <2>1 DEF b
    <3>5. /\ Run(unsent', Sent, Len(unsent')) /\ Run(after', Sent + Len(unsent'), Len(after'))
          /\ Len(unsent') + Len(after') = Len(send_buf) + Len(data)
      BY <1>2, <3>1, <3>3, <3>4, OverfullRuns
    <3>6. Buffered' = after'
      BY <3>2 DEF Buffered
    <3>7. made + L = Sent + Len(unsent') + Len(after')
      <4>1. Len(unsent') \in Nat /\ Len(after') \in Nat
        BY <3>5 DEF Run
      <4> QED BY <4>1, <3>5, <2>1, <1>3, <1>4, <1>5 DEF b
    <3> QED BY <3>5, <3>6, <3>7
  <2>3. CASE ~ b + L >= SENDBUFSZ
    <3>1. send_buf' = send_buf \o data /\ unsent' = <<>>
      BY <1>1, <1>7, <2>3
    <3>2. Run(send_buf', Sent, b + L) /\ Buffered' = send_buf' /\ Len(unsent') = 0
      <4>1. Run(data, Sent + b, L)
        BY <2>1, <1>5
      <4> QED BY <2>1, <3>1, <4>1, RunCat, EmptySeq DEF Buffered
    <3>3. Run(unsent', Sent, 0)
      BY <2>1, <3>1, RunNone
    <3>4. Len(send_buf') = b + L /\ Sent + 0 = Sent
      BY <2>1, <3>2 DEF Run
    <3> QED BY <1>3, <1>4, <2>1, <3>2, <3>3, <3>4
  <2> QED BY <2>2, <2>3
<1> QED BY <1>10, <1>12, <1>13, <1>14 DEF StreamInv

-----------------------------------------------------------------------------
(* The rest of the worker.                                                 *)

\* The pieces stay as they are.
LEMMA OutstandingKept ==
  ASSUME Outstanding, UNCHANGED <<todo, made, taken, got>>
  PROVE  Outstanding'
BY DEF Outstanding, Want

LEMMA FlushStep ==
  ASSUME StreamInv, session_flush
  PROVE  StreamInv'
<1>1. /\ unsent = <<>> /\ alive /\ unsent' = send_buf /\ after' = <<>> /\ flushed' = made
      /\ UNCHANGED <<send_buf, alive, made, skipped, wire, todo>> /\ UNCHANGED client
  BY DEF session_flush
<1>2. StreamTypeOK /\ Outstanding /\ Sending
  BY DEF StreamInv
<1>3. UNCHANGED <<rbuf, rlen, rpos, begin, got, taken, wrong, torn, ended>>
  BY <1>1 DEF client
<1>4. <<>> \in Seq(1 .. MaxBytes) /\ Len(<<>>) = 0
  BY EmptySeq
<1>5. StreamTypeOK'
  <2>1. Len(after') < SENDBUFSZ
    BY <1>1, <1>4, StreamSizes
  <2> QED BY <1>1, <1>2, <1>3, <1>4, <2>1 DEF StreamTypeOK
<1>6. Outstanding'
  BY <1>1, <1>2, <1>3, OutstandingKept
<1>7. LineThere' /\ PiecesIntact' /\ Received' /\ Sent' = Sent
  BY <1>1, ClientKept
<1>8. Sending'
  <2> SUFFICES ASSUME ~skipped
               PROVE  /\ Run(unsent', Sent, Len(unsent'))
                      /\ Run(Buffered', Sent + Len(unsent'), Len(Buffered'))
                      /\ made = Sent + Len(unsent') + Len(Buffered')
    BY <1>1, <1>7 DEF Sending
  <2>1. /\ Run(unsent, Sent, Len(unsent)) /\ Run(Buffered, Sent + Len(unsent), Len(Buffered))
        /\ made = Sent + Len(unsent) + Len(Buffered)
    BY <1>1, <1>2 DEF Sending
  <2>2. Buffered = send_buf /\ Len(unsent) = 0
    BY <1>1, <1>4 DEF Buffered
  <2>3. Sent \in Nat /\ Len(send_buf) \in Nat /\ Sent + 0 = Sent
    BY <2>1, <2>2 DEF Run
  <2>4. Run(send_buf, Sent, Len(send_buf)) /\ made = Sent + Len(send_buf)
    BY <2>1, <2>2, <2>3
  <2>5. Buffered' = <<>>
    BY <1>1 DEF Buffered
  <2>6. Run(<<>>, Sent + Len(send_buf), 0)
    BY <2>3, RunNone
  <2> QED BY <1>1, <1>4, <2>3, <2>4, <2>5, <2>6
<1> QED BY <1>5, <1>6, <1>7, <1>8 DEF StreamInv

LEMMA BlockStep ==
  ASSUME StreamInv, send_block
  PROVE  StreamInv'
<1>1. PICK n \in 1 .. Least(Len(unsent), SocketCap - Len(wire)) :
        /\ wire' = wire \o SubSeq(unsent, 1, n)
        /\ unsent' = SubSeq(unsent, n + 1, Len(unsent))
        /\ send_buf' = IF unsent' = <<>> THEN after ELSE send_buf
        /\ UNCHANGED <<after, alive, made, flushed, skipped, todo>> /\ UNCHANGED client
  BY DEF send_block
<1>2. StreamTypeOK /\ Outstanding /\ Sending /\ Received
  BY DEF StreamInv
<1>3. UNCHANGED <<rbuf, rlen, rpos, begin, got, taken, wrong, torn, ended>>
  BY <1>1 DEF client
<1>4. /\ unsent \in Seq(1 .. MaxBytes) /\ wire \in Seq(1 .. MaxBytes)
      /\ Len(unsent) \in Nat /\ Len(wire) \in Nat /\ Len(wire) <= SocketCap
  BY <1>2, StreamTypes, SeqLen DEF StreamTypeOK
<1>5. n \in Nat /\ n >= 1 /\ n <= Len(unsent) /\ Len(wire) + n <= SocketCap
  BY <1>4, StreamSizes DEF Least
<1>6. /\ SubSeq(unsent, 1, n) \in Seq(1 .. MaxBytes) /\ Len(SubSeq(unsent, 1, n)) = n
      /\ unsent' \in Seq(1 .. MaxBytes) /\ Len(unsent') = Len(unsent) - n
  <2>1. n \in Nat /\ n <= Len(unsent)
    BY <1>5
  <2>2. /\ SubSeq(unsent, 1, n) \in Seq(1 .. MaxBytes) /\ Len(SubSeq(unsent, 1, n)) = n
        /\ SubSeq(unsent, n + 1, Len(unsent)) \in Seq(1 .. MaxBytes)
        /\ Len(SubSeq(unsent, n + 1, Len(unsent))) = Len(unsent) - n
    BY <1>4, <2>1, CutIn
  <2> QED BY <1>1, <2>2
<1>7. wire' \in Seq(1 .. MaxBytes) /\ Len(wire') = Len(wire) + n
  BY <1>1, <1>4, <1>6, ConcatProperties
<1>8. unsent # <<>>
  BY <1>4, <1>5, EmptySeq
<1>9. alive
  BY <1>2, <1>8 DEF Sending
<1>10. StreamTypeOK'
  <2>1. Len(wire') <= SocketCap
    BY <1>5, <1>7
  <2>2. {send_buf', after'} \subseteq Seq(1 .. MaxBytes) /\ Len(send_buf') < SENDBUFSZ
        /\ Len(after') < SENDBUFSZ
    BY <1>1, <1>2 DEF StreamTypeOK
  <2> QED BY <1>1, <1>2, <1>3, <1>6, <1>7, <2>1, <2>2 DEF StreamTypeOK
<1>11. Outstanding'
  BY <1>1, <1>2, <1>3, OutstandingKept
<1>12. LineThere' /\ PiecesIntact' /\ Front' = Front /\ Valid' = Valid
  BY <1>1, ClientKept
<1>13. Front \in Nat /\ Valid \in Nat
  BY <1>2, StreamTypes
<1>14. Sent \in Nat /\ Sent = Front + Valid + Len(wire) /\ Sent' = Sent + n
  BY <1>4, <1>5, <1>7, <1>12, <1>13 DEF Sent
<1>15. ~skipped => /\ Run(unsent, Sent, Len(unsent))
                   /\ Run(after, Sent + Len(unsent), Len(after))
                   /\ made = Sent + Len(unsent) + Len(after)
  BY <1>2, <1>8, <1>9 DEF Sending, Buffered
<1>16. ~skipped => Run(SubSeq(unsent, 1, n), Sent, n) /\ Run(unsent', Sent', Len(unsent'))
  <2> SUFFICES ASSUME ~skipped
               PROVE  Run(SubSeq(unsent, 1, n), Sent, n) /\ Run(unsent', Sent', Len(unsent'))
    OBVIOUS
  <2>1. Run(unsent, Sent, Len(unsent))
    BY <1>15
  <2> QED BY <1>1, <1>5, <1>6, <1>14, <2>1, RunSplit
<1>17. Received'
  <2> SUFFICES ASSUME ~skipped
               PROVE  /\ \A i \in 0 .. Valid - 1 : rbuf[rpos + i] = Front + 1 + i
                      /\ Run(wire', Front + Valid, Len(wire'))
    BY <1>1, <1>3, <1>12 DEF Received
  <2>1. /\ \A i \in 0 .. Valid - 1 : rbuf[rpos + i] = Front + 1 + i
        /\ Run(wire, Front + Valid, Len(wire))
    BY <1>2 DEF Received
  <2>2. Run(SubSeq(unsent, 1, n), Front + Valid + Len(wire), n)
    BY <1>14, <1>16
  <2> QED BY <1>1, <1>7, <2>1, <2>2, RunCat
<1>18. Sending'
  <2> SUFFICES ASSUME ~skipped
               PROVE  /\ Run(unsent', Sent', Len(unsent'))
                      /\ Run(Buffered', Sent' + Len(unsent'), Len(Buffered'))
                      /\ made = Sent' + Len(unsent') + Len(Buffered')
    BY <1>1, <1>9 DEF Sending
  <2>1. Buffered' = after
    BY <1>1 DEF Buffered
  <2>2. Sent' + Len(unsent') = Sent + Len(unsent)
    BY <1>4, <1>5, <1>6, <1>14
  <2> QED BY <1>15, <1>16, <2>1, <2>2
<1> QED BY <1>10, <1>11, <1>12, <1>17, <1>18 DEF StreamInv

LEMMA SendFailsStep ==
  ASSUME StreamInv, SendFails
  PROVE  StreamInv'
<1>1. /\ ~alive' /\ alive' = FALSE /\ unsent' = <<>>
      /\ UNCHANGED <<send_buf, after, made, flushed, skipped, wire, todo>> /\ UNCHANGED client
  BY DEF SendFails
<1>2. StreamTypeOK /\ Outstanding
  BY DEF StreamInv
<1>3. UNCHANGED <<rbuf, rlen, rpos, begin, got, taken, wrong, torn, ended>>
  BY <1>1 DEF client
<1>4. StreamTypeOK'
  <2>1. unsent' \in Seq(1 .. MaxBytes)
    BY <1>1, EmptySeq
  <2> QED BY <1>1, <1>2, <1>3, <2>1 DEF StreamTypeOK
<1>5. Outstanding'
  BY <1>1, <1>2, <1>3, OutstandingKept
<1>6. LineThere' /\ PiecesIntact' /\ Received'
  BY <1>1, ClientKept
<1>7. Sending'
  BY <1>1 DEF Sending
<1> QED BY <1>4, <1>5, <1>6, <1>7 DEF StreamInv

-----------------------------------------------------------------------------
(* The client.                                                             *)

\* The first piece is there.
LEMMA OutstandingLess ==
  ASSUME StreamTypeOK, Outstanding, todo # <<>>, todo' = Tail(todo), taken' = taken + Want.len,
         made' = made, got' = 0
  PROVE  /\ Outstanding' /\ taken + Want.len <= made
         /\ Want.from = taken + 1 /\ Want.len \in Nat \ {0}
<1> DEFINE n == Len(todo)
<1>1. /\ n \in Nat /\ todo \in Seq(Asks) /\ n # 0
      /\ todo[1].from = taken + 1 /\ Want = todo[1] /\ Want \in Asks
      /\ \A i \in 1 .. n :
           /\ todo[i] \in Asks /\ EndOf(todo, i) <= made + 1
           /\ i = n => EndOf(todo, i) = made + 1
           /\ i # n => todo[i + 1].from = EndOf(todo, i)
  BY OutstandingIs
<1>2. /\ todo' \in Seq(Asks) /\ Len(todo') = n - 1
      /\ \A i \in 1 .. n - 1 : todo'[i] = todo[i + 1]
  BY <1>1, HeadTailProperties
<1> HIDE DEF n
<1>3. Want.len \in Nat \ {0} /\ made \in Nat /\ taken \in Nat
  BY <1>1, StreamTypes DEF Asks
<1>4. EndOf(todo, 1) = taken + 1 + Want.len
  BY <1>1 DEF EndOf
<1>5. taken + Want.len <= made
  <2>1. EndOf(todo, 1) <= made + 1
    BY <1>1
  <2> QED BY <2>1, <1>3, <1>4
<1>6. todo' = <<>> <=> n = 1
  <2>1. todo' = <<>> <=> Len(todo') = 0
    BY <1>2, EmptySeq
  <2> QED BY <2>1, <1>1, <1>2
<1>7. IF todo' = <<>> THEN made = taken' ELSE todo'[1].from = taken' + 1
  <2>1. CASE n = 1
    <3>1. EndOf(todo, 1) = made + 1
      BY <2>1, <1>1
    <3> QED BY <2>1, <3>1, <1>3, <1>4, <1>6
  <2>2. CASE n # 1
    <3>1. todo'[1] = todo[1 + 1] /\ todo[1 + 1].from = EndOf(todo, 1)
      BY <2>2, <1>1, <1>2
    <3>2. todo' # <<>>
      BY <2>2, <1>6
    <3>3. todo'[1].from = taken + 1 + Want.len
      BY <3>1, <1>4
    <3>4. taken' + 1 = taken + 1 + Want.len
      <4>1. \A w \in Nat : taken + w + 1 = taken + 1 + w
        BY <1>3
      <4> QED BY <4>1, <1>3
    <3> QED BY <3>2, <3>3, <3>4
  <2> QED BY <2>1, <2>2
<1>8. \A i \in 1 .. n - 1 :
        /\ EndOf(todo', i) <= made + 1
        /\ i = n - 1 => EndOf(todo', i) = made + 1
        /\ i # n - 1 => todo'[i + 1].from = EndOf(todo', i)
  <2> TAKE i \in 1 .. n - 1
  <2>1. i + 1 \in 1 .. n /\ todo'[i] = todo[i + 1] /\ (i = n - 1 <=> i + 1 = n)
    BY <1>1, <1>2
  <2>2. EndOf(todo', i) = EndOf(todo, i + 1)
    BY <2>1 DEF EndOf
  <2>3. /\ EndOf(todo, i + 1) <= made + 1
        /\ i + 1 = n => EndOf(todo, i + 1) = made + 1
        /\ i + 1 # n => todo[i + 1 + 1].from = EndOf(todo, i + 1)
    BY <1>1, <2>1
  <2>4. i # n - 1 => todo'[i + 1] = todo[i + 1 + 1]
    BY <1>1, <1>2
  <2> QED BY <2>1, <2>2, <2>3, <2>4
<1>9. ~ got' > 0
  OBVIOUS
<1>10. Outstanding'
  BY <1>2, <1>7, <1>8, <1>9 DEF Outstanding, EndOf
<1> QED BY <1>1, <1>3, <1>5, <1>10

\* What the client leaves alone: all that the worker holds.
LEMMA WorkerKept ==
  ASSUME StreamInv, UNCHANGED server, Sent' = Sent
  PROVE  Sending'
<1>1. UNCHANGED <<send_buf, unsent, after, alive, made, skipped>>
  BY DEF server
<1>2. Buffered' = Buffered
  BY <1>1 DEF Buffered
<1> QED BY <1>1, <1>2 DEF StreamInv, Sending

\* A pointer shows the bytes that lie behind it.
LEMMA ShownIs ==
  ASSUME StreamTypeOK, NEW p \in Nat, NEW n \in Nat, NEW m \in Nat, p + n <= FULLSZ,
         \A i \in 0 .. n - 1 : rbuf[p + i] = m + 1 + i
  PROVE  Shown(p, n) = Bytes(m + 1, n)
<1>1. DOMAIN rbuf = 0 .. FULLSZ - 1
  BY DEF StreamTypeOK
<1>2. \A i \in 1 .. n : (IF p + i - 1 \in DOMAIN rbuf THEN rbuf[p + i - 1] ELSE 0) = m + 1 + i - 1
  <2> TAKE i \in 1 .. n
  <2>1. i - 1 \in 0 .. n - 1 /\ p + (i - 1) = p + i - 1 /\ p + i - 1 \in DOMAIN rbuf
    BY <1>1, StreamSizes
  <2>2. rbuf[p + (i - 1)] = m + 1 + (i - 1)
    BY <2>1
  <2> QED BY <2>1, <2>2
<1> QED BY <1>2 DEF Shown, Bytes

LEMMA RecvBlockStep ==
  ASSUME StreamInv, recv_block
  PROVE  StreamInv'
<1> DEFINE L == Want.len
<1>1. /\ todo # <<>> /\ Want.kind = "block" /\ Valid >= L
      /\ rpos' = rpos + L /\ todo' = Tail(todo) /\ taken' = taken + L
      /\ wrong' = (wrong \/ Shown(rpos, L) # Bytes(Want.from, L))
      /\ UNCHANGED server /\ UNCHANGED <<wire, rbuf, rlen, begin, got, torn, ended>>
  BY DEF recv_block, Expecting, Complete, Need
<1>2. StreamTypeOK /\ Outstanding /\ Received
  BY DEF StreamInv
<1>3. UNCHANGED <<send_buf, unsent, after, alive, made, flushed, skipped>>
  BY <1>1 DEF server
<1>4. /\ rpos \in Nat /\ rlen \in Nat /\ rpos <= rlen /\ rlen <= FULLSZ
      /\ Valid \in Nat /\ rpos + Valid = rlen /\ got \in Nat
      /\ begin \in Nat /\ made \in Nat /\ taken \in Nat /\ Front \in Nat
  BY <1>2, StreamTypes
<1>5. got = 0 /\ got' = 0
  BY <1>1, <1>2, <1>4 DEF Outstanding
<1>6. Outstanding' /\ taken + L <= made /\ Want.from = taken + 1 /\ L \in Nat \ {0}
  BY <1>1, <1>2, <1>3, <1>5, OutstandingLess
<1> HIDE DEF L
<1>7. Valid' = Valid - L /\ Front' = Front + L /\ Front = taken
  BY <1>1, <1>4, <1>5, <1>6 DEF Valid, Front
<1>8. StreamTypeOK'
  <2>1. rpos' \in 0 .. rlen
    BY <1>1, <1>4, <1>6
  <2>2. taken' \in 0 .. MaxBytes
    <3>1. made <= MaxBytes
      BY <1>2 DEF StreamTypeOK
    <3> QED BY <3>1, <1>1, <1>4, <1>6, StreamSizes
  <2>3. wrong' \in BOOLEAN
    BY <1>1, <1>2 DEF StreamTypeOK
  <2> QED BY <1>1, <1>2, <1>3, <2>1, <2>2, <2>3 DEF StreamTypeOK
<1>9. Received'
  <2> SUFFICES ASSUME ~skipped
               PROVE  /\ \A i \in 0 .. Valid' - 1 : rbuf[rpos' + i] = Front' + 1 + i
                      /\ Run(wire, Front' + Valid', Len(wire))
    BY <1>1, <1>3 DEF Received
  <2>1. /\ \A i \in 0 .. Valid - 1 : rbuf[rpos + i] = Front + 1 + i
        /\ Run(wire, Front + Valid, Len(wire))
    BY <1>2 DEF Received
  <2>2. Front' + Valid' = Front + Valid
    BY <1>4, <1>6, <1>7
  <2>3. ASSUME NEW i \in 0 .. Valid' - 1 PROVE rbuf[rpos' + i] = Front' + 1 + i
    <3>1. L + i \in 0 .. Valid - 1 /\ rpos + (L + i) = rpos' + i /\ Front + 1 + (L + i) = Front' + 1 + i
      BY <1>1, <1>4, <1>6, <1>7
    <3>2. rbuf[rpos + (L + i)] = Front + 1 + (L + i)
      BY <2>1, <3>1
    <3> QED BY <3>1, <3>2
  <2> QED BY <2>1, <2>2, <2>3
<1>10. Sending'
  <2>1. Len(wire) \in Nat
    BY <1>2, StreamTypes, SeqLen
  <2>2. Sent' = Sent
    BY <1>1, <1>4, <1>6, <1>7, <2>1 DEF Sent
  <2> QED BY <1>1, <2>2, WorkerKept
<1>11. LineThere'
  BY <1>5 DEF LineThere
<1>12. PiecesIntact'
  <2>1. CASE skipped
    BY <1>3, <2>1 DEF PiecesIntact
  <2>2. CASE ~skipped
    <3>1. \A i \in 0 .. L - 1 : rbuf[rpos + i] = taken + 1 + i
      <4> TAKE i \in 0 .. L - 1
      <4>1. i \in 0 .. Valid - 1
        BY <1>1, <1>4, <1>6
      <4> QED BY <4>1, <1>2, <1>7, <2>2 DEF Received
    <3>2. rpos + L <= FULLSZ
      BY <1>1, <1>4, <1>6, StreamSizes
    <3>3. Shown(rpos, L) = Bytes(Want.from, L)
      <4>1. L \in Nat
        BY <1>6
      <4>2. StreamTypeOK /\ rpos \in Nat /\ taken \in Nat
        BY <1>2, <1>4
      <4>3. Shown(rpos, L) = Bytes(taken + 1, L)
        BY ONLY <3>1, <3>2, <4>1, <4>2, ShownIs
      <4> QED BY <1>6, <4>3
    <3>4. wrong' = wrong
      BY <1>1, <1>2, <3>3 DEF StreamTypeOK
    <3> QED BY <1>1, <1>3, <3>4 DEF StreamInv, PiecesIntact
  <2> QED BY <2>1, <2>2
<1> QED BY <1>6, <1>8, <1>9, <1>10, <1>11, <1>12 DEF StreamInv

\* One byte of a line: where it stands, and that the bytes before it do.
LEMMA LineByte ==
  ASSUME StreamInv, recv_header_line
  PROVE  /\ todo # <<>> /\ Want.kind = "line" /\ Valid >= 1 /\ got < Want.len /\ got + 1 <= HEADER_MAX
         /\ rpos' = rpos + 1 /\ begin' = (IF got = 0 THEN rpos ELSE begin)
         /\ UNCHANGED server /\ UNCHANGED <<wire, rbuf, rlen, torn, ended>>
         /\ UNCHANGED <<send_buf, unsent, after, alive, made, flushed, skipped>>
         /\ begin' \in 0 .. FULLSZ - 1
         /\ ~skipped /\ ~torn =>
              begin' + got = rpos /\ \A i \in 0 .. got : rbuf[begin' + i] = taken + 1 + i
<1>1. /\ todo # <<>> /\ Want.kind = "line" /\ Valid >= 1 /\ ~TooLarge
      /\ rpos' = rpos + 1 /\ begin' = (IF got = 0 THEN rpos ELSE begin)
      /\ UNCHANGED server /\ UNCHANGED <<wire, rbuf, rlen, torn, ended>>
  BY DEF recv_header_line, Expecting
<1>2. UNCHANGED <<send_buf, unsent, after, alive, made, flushed, skipped>>
  BY <1>1 DEF server
<1>3. StreamTypeOK /\ Outstanding /\ Received /\ LineThere
  BY DEF StreamInv
<1>4. /\ rpos \in Nat /\ rlen \in Nat /\ rpos <= rlen /\ rlen <= FULLSZ
      /\ Valid \in Nat /\ rpos + Valid = rlen /\ got \in Nat
      /\ begin \in Nat /\ taken \in Nat /\ Front \in Nat
  BY <1>3, StreamTypes
<1>5. Want.len \in Nat \ {0}
  BY <1>1, <1>3, OutstandingIs DEF Asks
<1>6. got < Want.len
  <2>1. CASE got = 0
    BY <2>1, <1>5
  <2>2. CASE got # 0
    BY <2>2, <1>3, <1>4 DEF Outstanding
  <2> QED BY <2>1, <2>2
<1>7. got + 1 <= HEADER_MAX
  BY <1>1, <1>4, StreamSizes DEF TooLarge
<1>8. begin' \in 0 .. FULLSZ - 1
  <2>1. CASE got = 0
    BY <2>1, <1>1, <1>4, StreamSizes
  <2>2. CASE got # 0
    BY <2>2, <1>1, <1>3 DEF StreamTypeOK
  <2> QED BY <2>1, <2>2
<1>9. ASSUME ~skipped, ~torn
      PROVE  begin' + got = rpos /\ \A i \in 0 .. got : rbuf[begin' + i] = taken + 1 + i
  <2>1. begin' + got = rpos /\ \A i \in 0 .. got - 1 : rbuf[begin' + i] = taken + 1 + i
    <3>1. CASE got = 0
      BY <3>1, <1>1, <1>4
    <3>2. CASE got # 0
      BY <3>2, <1>1, <1>3, <1>4, <1>9 DEF LineThere
    <3> QED BY <3>1, <3>2
  <2>2. rbuf[begin' + got] = taken + 1 + got
    <3>1. 0 \in 0 .. Valid - 1 /\ rpos + 0 = rpos /\ Front + 1 + 0 = taken + 1 + got
      BY <1>1, <1>4 DEF Front
    <3>2. rbuf[rpos + 0] = Front + 1 + 0
      BY <1>3, <1>9, <3>1 DEF Received
    <3> QED BY <2>1, <3>1, <3>2
  <2>3. ASSUME NEW i \in 0 .. got PROVE rbuf[begin' + i] = taken + 1 + i
    <3>1. CASE i = got
      BY <2>2, <3>1
    <3>2. CASE i # got
      <4>1. i \in 0 .. got - 1
        BY <1>4, <3>2
      <4> QED BY <2>1, <4>1
    <3> QED BY <3>1, <3>2
  <2> QED BY <2>1, <2>3
<1> QED BY <1>1, <1>2, <1>6, <1>7, <1>8, <1>9

\* The client is one byte on.
LEMMA OneOn ==
  ASSUME StreamInv, recv_header_line, Front' = Front + 1
  PROVE  Received' /\ Sending'
<1>1. /\ Valid >= 1 /\ rpos' = rpos + 1 /\ UNCHANGED server /\ UNCHANGED <<wire, rbuf, rlen, skipped>>
  BY LineByte
<1>2. StreamTypeOK /\ Received
  BY DEF StreamInv
<1>3. /\ rpos \in Nat /\ rlen \in Nat /\ Valid \in Nat /\ rpos + Valid = rlen /\ Front \in Nat
  BY <1>2, StreamTypes
<1>4. Valid' = Valid - 1
  BY <1>1, <1>3 DEF Valid
<1>5. Front' + Valid' = Front + Valid
  BY <1>3, <1>4
<1>6. Received'
  <2> SUFFICES ASSUME ~skipped
               PROVE  /\ \A i \in 0 .. Valid' - 1 : rbuf[rpos' + i] = Front' + 1 + i
                      /\ Run(wire, Front' + Valid', Len(wire))
    BY <1>1 DEF Received
  <2>1. /\ \A i \in 0 .. Valid - 1 : rbuf[rpos + i] = Front + 1 + i
        /\ Run(wire, Front + Valid, Len(wire))
    BY <1>2 DEF Received
  <2>2. ASSUME NEW i \in 0 .. Valid' - 1 PROVE rbuf[rpos' + i] = Front' + 1 + i
    <3>1. 1 + i \in 0 .. Valid - 1 /\ rpos + (1 + i) = rpos' + i /\ Front + 1 + (1 + i) = Front' + 1 + i
      BY <1>1, <1>3, <1>4
    <3>2. rbuf[rpos + (1 + i)] = Front + 1 + (1 + i)
      BY <2>1, <3>1
    <3> QED BY <3>1, <3>2
  <2> QED BY <2>1, <1>5, <2>2
<1>7. Sent' = Sent
  BY <1>1, <1>5 DEF Sent
<1>8. Sending'
  BY <1>1, <1>7, WorkerKept
<1> QED BY <1>6, <1>8

LEMMA LineStep ==
  ASSUME StreamInv, recv_header_line
  PROVE  StreamInv'
<1> DEFINE L == Want.len
<1>1. /\ todo # <<>> /\ Want.kind = "line" /\ Valid >= 1 /\ got < L /\ got + 1 <= HEADER_MAX
      /\ rpos' = rpos + 1
      /\ UNCHANGED server /\ UNCHANGED <<wire, rbuf, rlen, torn, ended>>
      /\ UNCHANGED <<send_buf, unsent, after, alive, made, flushed, skipped>>
      /\ begin' \in 0 .. FULLSZ - 1
  BY LineByte
<1>2. ~skipped /\ ~torn =>
        begin' + got = rpos /\ \A i \in 0 .. got : rbuf[begin' + i] = taken + 1 + i
  BY LineByte
<1>3. StreamTypeOK /\ Outstanding
  BY DEF StreamInv
<1>4. /\ rpos \in Nat /\ rlen \in Nat /\ rpos <= rlen /\ rlen <= FULLSZ
      /\ Valid \in Nat /\ rpos + Valid = rlen /\ got \in Nat
      /\ begin \in Nat /\ made \in Nat /\ taken \in Nat /\ Front \in Nat
  BY <1>3, StreamTypes
<1>5. L \in Nat \ {0} /\ Want.from = taken + 1
  BY <1>1, <1>3, OutstandingIs DEF Asks
<1>6. rpos' \in 0 .. rlen
  BY <1>1, <1>4
<1>7. IF got + 1 = L
      THEN got' = 0 /\ Complete(begin')
      ELSE got' = got + 1 /\ UNCHANGED <<todo, taken, wrong>>
  BY DEF recv_header_line
<1>8. CASE got + 1 = L
  <2>1. /\ got' = 0 /\ todo' = Tail(todo) /\ taken' = taken + L
        /\ wrong' = (wrong \/ Shown(begin', L) # Bytes(Want.from, L))
    BY <1>7, <1>8 DEF Complete
  <2>2. Outstanding' /\ taken + L <= made
    BY <1>1, <1>3, <2>1, OutstandingLess
  <2> HIDE DEF L
  <2>3. Front' = Front + 1
    BY <1>4, <1>5, <1>8, <2>1 DEF Front
  <2>4. Received' /\ Sending'
    BY <2>3, OneOn
  <2>5. StreamTypeOK'
    <3>1. taken' \in 0 .. MaxBytes
      <4>1. made <= MaxBytes
        BY <1>3 DEF StreamTypeOK
      <4> QED BY <4>1, <1>4, <1>5, <2>1, <2>2, StreamSizes
    <3>2. wrong' \in BOOLEAN
      BY <2>1, <1>3 DEF StreamTypeOK
    <3>3. got' \in 0 .. HEADER_MAX
      BY <2>1, StreamSizes
    <3> QED BY <1>1, <1>3, <1>6, <3>1, <3>2, <3>3 DEF StreamTypeOK
  <2>6. LineThere'
    BY <2>1 DEF LineThere
  <2>7. PiecesIntact'
    <3>1. CASE skipped \/ torn
      BY <1>1, <3>1 DEF PiecesIntact
    <3>2. CASE ~skipped /\ ~torn
      <4>1. \A i \in 0 .. L - 1 : rbuf[begin' + i] = taken + 1 + i
        BY <1>2, <1>4, <1>8, <3>2
      <4>2. begin' \in Nat /\ L \in Nat /\ begin' + L <= FULLSZ
        <5>1. begin' \in Nat
          BY <1>1, StreamSizes
        <5>2. begin' + got = rpos
          BY <1>2, <3>2
        <5>3. rpos + 1 <= FULLSZ
          BY <1>1, <1>4, StreamSizes
        <5>4. begin' + L = begin' + got + 1
          BY <1>4, <1>8, <5>1
        <5> QED BY <1>4, <1>5, <5>1, <5>2, <5>3, <5>4
      <4>3. Shown(begin', L) = Bytes(taken + 1, L)
        <5>1. StreamTypeOK /\ taken \in Nat
          BY <1>3, <1>4
        <5> QED BY ONLY <4>1, <4>2, <5>1, ShownIs
      <4>4. wrong' = wrong
        BY <4>3, <1>3, <1>5, <2>1 DEF StreamTypeOK
      <4> QED BY <4>4, <1>1 DEF StreamInv, PiecesIntact
    <3> QED BY <3>1, <3>2
  <2> QED BY <2>2, <2>4, <2>5, <2>6, <2>7 DEF StreamInv
<1>9. CASE got + 1 # L
  <2>1. got' = got + 1 /\ UNCHANGED <<todo, taken, wrong>>
    BY <1>7, <1>9
  <2>2. got' < L
    BY <1>1, <1>4, <1>5, <1>9, <2>1
  <2>3. Outstanding'
    BY <1>1, <1>3, <2>1, <2>2 DEF Outstanding, Want
  <2> HIDE DEF L
  <2>4. Front' = Front + 1
    BY <1>4, <2>1 DEF Front
  <2>5. Received' /\ Sending'
    BY <2>4, OneOn
  <2>6. StreamTypeOK'
    <3>1. got' \in 0 .. HEADER_MAX
      BY <1>1, <1>4, <2>1, StreamSizes
    <3> QED BY <1>1, <1>3, <1>6, <2>1, <3>1 DEF StreamTypeOK
  <2>7. LineThere'
    <3> SUFFICES ASSUME ~skipped, ~torn
                 PROVE  begin' + got' = rpos' /\ \A i \in 0 .. got' - 1 : rbuf[begin' + i] = taken + 1 + i
      BY <1>1, <2>1 DEF LineThere
    <3>1. begin' + got = rpos /\ \A i \in 0 .. got : rbuf[begin' + i] = taken + 1 + i
      BY <1>2
    <3>2. got' - 1 = got /\ begin' \in Nat
      BY <1>1, <1>4, <2>1, StreamSizes
    <3>3. begin' + got' = rpos'
      <4>1. begin' + got = rpos /\ got' = got + 1 /\ rpos' = rpos + 1
        BY <1>1, <2>1, <3>1
      <4>2. begin' \in Nat /\ got \in Nat
        BY <1>4, <3>2
      <4> QED BY ONLY <4>1, <4>2
    <3>4. \A i \in 0 .. got' - 1 : rbuf[begin' + i] = taken + 1 + i
      BY <3>1, <3>2
    <3> QED BY <3>3, <3>4
  <2>8. PiecesIntact'
    BY <1>1, <2>1 DEF StreamInv, PiecesIntact
  <2> QED BY <2>3, <2>5, <2>6, <2>7, <2>8 DEF StreamInv
<1> QED BY <1>8, <1>9

\* What recv_refill leaves in the buffer: the valid bytes from b on, where they
\* are put, and n of the wire behind them.
LEMMA Refilled ==
  ASSUME StreamInv, recv_refill
  PROVE  \E n \in Nat \ {0} :
           /\ n <= Len(wire) /\ rlen' = rpos' + Valid + n /\ rpos' \in Nat /\ rlen' <= FULLSZ
           /\ rbuf' \in [0 .. FULLSZ - 1 -> 0 .. MaxBytes]
           /\ \A i \in 0 .. Valid - 1 : rbuf'[rpos' + i] = rbuf[rpos + i]
           /\ \A i \in 1 .. n : rbuf'[rpos' + Valid + (i - 1)] = wire[i]
           /\ wire' = SubSeq(wire, n + 1, Len(wire))
           /\ torn \in BOOLEAN /\ torn' \in BOOLEAN /\ (torn => torn')
           /\ got > 0 /\ ~torn' => rpos' = rpos /\ \A i \in 0 .. rpos - 1 : rbuf'[i] = rbuf[i]
<1> DEFINE compact == FULLSZ - rlen < RESERVESZ
           b == IF compact THEN Compacted ELSE [buf |-> rbuf, len |-> rlen]
           S == 0 .. FULLSZ - 1
<1>1. PICK n \in 1 .. Least(FULLSZ - b.len, Len(wire)) :
        /\ rbuf' = [i \in DOMAIN rbuf |-> IF i \in b.len .. b.len + n - 1
                                          THEN wire[i - b.len + 1] ELSE b.buf[i]]
        /\ rlen' = b.len + n
        /\ rpos' = IF compact THEN 0 ELSE rpos
        /\ wire' = SubSeq(wire, n + 1, Len(wire))
        /\ torn' = (torn \/ (compact /\ got > 0))
  BY DEF recv_refill
<1>2. StreamTypeOK
  BY DEF StreamInv
<1>3. /\ rpos \in Nat /\ rlen \in Nat /\ rpos <= rlen /\ rlen <= FULLSZ
      /\ Valid \in Nat /\ rpos + Valid = rlen /\ got \in Nat
      /\ wire \in Seq(1 .. MaxBytes) /\ Len(wire) \in Nat
  BY <1>2, StreamTypes, SeqLen
<1>4. rbuf \in [S -> 0 .. MaxBytes] /\ DOMAIN rbuf = S /\ torn \in BOOLEAN
  BY <1>2 DEF StreamTypeOK
<1>5. FULLSZ \in Nat /\ MaxBytes \in Nat
  BY StreamSizes
<1>6. CASE compact
  <2>1. b.len = Valid /\ b.buf = [i \in S |-> IF i < Valid THEN rbuf[rpos + i] ELSE rbuf[i]]
    BY <1>4, <1>6 DEF Compacted
  <2>2. n \in Nat \ {0} /\ n <= Len(wire) /\ Valid + n <= FULLSZ
    <3>1. PICK m \in Nat : m = FULLSZ - Valid
      BY <1>3, <1>5
    <3>2. n \in 1 .. IF m < Len(wire) THEN m ELSE Len(wire)
      BY <2>1, <3>1 DEF Least
    <3>3. n \in Nat \ {0} /\ n <= Len(wire) /\ n <= m
      BY <1>3, <3>2
    <3> QED BY <1>3, <1>5, <3>1, <3>3
  <2>3. rpos' = 0 /\ rlen' = Valid + n
    BY <1>1, <1>6, <2>1
  <2>4. rbuf' = [i \in S |-> IF i \in Valid .. Valid + n - 1 THEN wire[i - Valid + 1]
                             ELSE IF i < Valid THEN rbuf[rpos + i] ELSE rbuf[i]]
    BY <1>1, <1>4, <2>1
  <2> HIDE DEF b, compact
  <2>5. \A i \in 1 .. n : wire[i] \in 0 .. MaxBytes
    <3> TAKE i \in 1 .. n
    <3>1. wire[i] \in 1 .. MaxBytes
      <4>1. i \in 1 .. Len(wire)
        BY <1>3, <2>2
      <4> QED BY <1>3, <4>1, ElementOfSeq
    <3> QED BY <3>1, <1>5
  <2>6. rbuf' \in [S -> 0 .. MaxBytes]
    <3>1. ASSUME NEW i \in S
          PROVE  (IF i \in Valid .. Valid + n - 1 THEN wire[i - Valid + 1]
                  ELSE IF i < Valid THEN rbuf[rpos + i] ELSE rbuf[i]) \in 0 .. MaxBytes
      <4>1. CASE i \in Valid .. Valid + n - 1
        <5>1. i - Valid + 1 \in 1 .. n
          BY <4>1, <1>3, <2>2
        <5> QED BY <4>1, <5>1, <2>5
      <4>2. CASE i < Valid
        <5>1. rpos + i \in S /\ i \notin Valid .. Valid + n - 1
          BY <4>2, <1>3, <1>5
        <5> QED BY <4>2, <5>1, <1>4
      <4>3. CASE i \notin Valid .. Valid + n - 1 /\ ~ i < Valid
        BY <4>3, <1>4
      <4> QED BY <4>1, <4>2, <4>3
    <3> QED BY <2>4, <3>1
  <2>7. ASSUME NEW i \in 0 .. Valid - 1 PROVE rbuf'[rpos' + i] = rbuf[rpos + i]
    <3>1. i \in S /\ i < Valid /\ i \notin Valid .. Valid + n - 1 /\ rpos' + i = i
      BY <1>3, <1>5, <2>3
    <3> QED BY <2>4, <3>1
  <2>8. ASSUME NEW i \in 1 .. n PROVE rbuf'[rpos' + Valid + (i - 1)] = wire[i]
    <3>1. PICK j \in S : j = Valid + (i - 1)
      BY <1>3, <1>5, <2>2
    <3>2. j \in Valid .. Valid + n - 1 /\ j - Valid + 1 = i /\ rpos' + Valid + (i - 1) = j
      BY <1>3, <2>2, <2>3, <3>1
    <3>3. rbuf'[j] = wire[j - Valid + 1]
      BY <2>4, <3>2
    <3> QED BY <3>2, <3>3
  <2>9. torn' \in BOOLEAN /\ (torn => torn') /\ ~(got > 0 /\ ~torn')
    BY <1>1, <1>4, <1>6
  <2>10. rlen' = rpos' + Valid + n /\ rpos' \in Nat /\ rlen' <= FULLSZ
    BY <1>3, <2>2, <2>3
  <2> QED BY <1>1, <1>4, <2>2, <2>6, <2>7, <2>8, <2>9, <2>10
<1>7. CASE ~compact
  <2>1. b.len = rlen /\ b.buf = rbuf
    BY <1>7
  <2>2. n \in Nat \ {0} /\ n <= Len(wire) /\ rlen + n <= FULLSZ
    BY <1>3, <1>5, <2>1 DEF Least
  <2>3. rpos' = rpos /\ rlen' = rlen + n
    BY <1>1, <1>7, <2>1
  <2>4. rbuf' = [i \in S |-> IF i \in rlen .. rlen + n - 1 THEN wire[i - rlen + 1] ELSE rbuf[i]]
    BY <1>1, <1>4, <2>1
  <2> HIDE DEF b, compact
  <2>5. \A i \in 1 .. n : wire[i] \in 0 .. MaxBytes
    <3> TAKE i \in 1 .. n
    <3>1. wire[i] \in 1 .. MaxBytes
      <4>1. i \in 1 .. Len(wire)
        BY <1>3, <2>2
      <4> QED BY <1>3, <4>1, ElementOfSeq
    <3> QED BY <3>1, <1>5
  <2>6. rbuf' \in [S -> 0 .. MaxBytes]
    <3>1. ASSUME NEW i \in S
          PROVE  (IF i \in rlen .. rlen + n - 1 THEN wire[i - rlen + 1] ELSE rbuf[i]) \in 0 .. MaxBytes
      <4>1. CASE i \in rlen .. rlen + n - 1
        <5>1. i - rlen + 1 \in 1 .. n
          BY <4>1, <1>3, <2>2
        <5> QED BY <4>1, <5>1, <2>5
      <4>2. CASE i \notin rlen .. rlen + n - 1
        BY <4>2, <1>4
      <4> QED BY <4>1, <4>2
    <3> QED BY <2>4, <3>1
  <2>7. \A i \in 0 .. rlen - 1 : rbuf'[i] = rbuf[i]
    <3> TAKE i \in 0 .. rlen - 1
    <3>1. i \in S /\ i \notin rlen .. rlen + n - 1
      BY <1>3, <1>5
    <3> QED BY <2>4, <3>1
  <2>8. ASSUME NEW i \in 0 .. Valid - 1 PROVE rbuf'[rpos' + i] = rbuf[rpos + i]
    <3>1. rpos + i \in 0 .. rlen - 1
      BY <1>3
    <3> QED BY <2>3, <2>7, <3>1
  <2>9. ASSUME NEW i \in 1 .. n PROVE rbuf'[rpos' + Valid + (i - 1)] = wire[i]
    <3>1. PICK j \in S : j = rlen + (i - 1)
      BY <1>3, <1>5, <2>2
    <3>2. j \in rlen .. rlen + n - 1 /\ j - rlen + 1 = i /\ rpos' + Valid + (i - 1) = j
      BY <1>3, <2>2, <2>3, <3>1
    <3>3. rbuf'[j] = wire[j - rlen + 1]
      BY <2>4, <3>2
    <3> QED BY <3>2, <3>3
  <2>10. torn' = torn
    BY <1>1, <1>4, <1>7
  <2>11. rlen' = rpos' + Valid + n /\ rpos' \in Nat /\ rlen' <= FULLSZ
    BY <1>3, <2>2, <2>3
  <2>12. \A i \in 0 .. rpos - 1 : rbuf'[i] = rbuf[i]
    BY <1>3, <2>7
  <2> QED BY <1>1, <1>4, <2>2, <2>3, <2>6, <2>8, <2>9, <2>10, <2>11, <2>12
<1> QED BY <1>6, <1>7

LEMMA RefillStep ==
  ASSUME StreamInv, recv_refill
  PROVE  StreamInv'
<1>1. PICK n \in Nat \ {0} :
           /\ n <= Len(wire) /\ rlen' = rpos' + Valid + n /\ rpos' \in Nat /\ rlen' <= FULLSZ
           /\ rbuf' \in [0 .. FULLSZ - 1 -> 0 .. MaxBytes]
           /\ \A i \in 0 .. Valid - 1 : rbuf'[rpos' + i] = rbuf[rpos + i]
           /\ \A i \in 1 .. n : rbuf'[rpos' + Valid + (i - 1)] = wire[i]
           /\ wire' = SubSeq(wire, n + 1, Len(wire))
           /\ torn \in BOOLEAN /\ torn' \in BOOLEAN /\ (torn => torn')
           /\ got > 0 /\ ~torn' => rpos' = rpos /\ \A i \in 0 .. rpos - 1 : rbuf'[i] = rbuf[i]
  BY Refilled
<1>2. UNCHANGED server /\ UNCHANGED <<todo, begin, got, taken, wrong, ended>>
  BY DEF recv_refill
<1>3. UNCHANGED <<send_buf, unsent, after, alive, made, flushed, skipped>>
  BY <1>2 DEF server
<1>4. StreamTypeOK /\ Outstanding /\ Received /\ LineThere /\ PiecesIntact
  BY DEF StreamInv
<1>5. /\ rpos \in Nat /\ rlen \in Nat /\ rpos <= rlen /\ rlen <= FULLSZ
      /\ Valid \in Nat /\ rpos + Valid = rlen /\ got \in Nat
      /\ begin \in Nat /\ taken \in Nat /\ Front \in Nat
      /\ wire \in Seq(1 .. MaxBytes) /\ Len(wire) \in Nat
  BY <1>4, StreamTypes, SeqLen
<1>6. wire' \in Seq(1 .. MaxBytes) /\ Len(wire') = Len(wire) - n
  <2>1. n \in Nat /\ n <= Len(wire) /\ wire' = SubSeq(wire, n + 1, Len(wire))
    BY <1>1
  <2>2. /\ SubSeq(wire, n + 1, Len(wire)) \in Seq(1 .. MaxBytes)
        /\ Len(SubSeq(wire, n + 1, Len(wire))) = Len(wire) - n
    <3>1. PICK T : T = 1 .. MaxBytes
      OBVIOUS
    <3>2. wire \in Seq(T)
      BY <1>5, <3>1
    <3>3. /\ SubSeq(wire, n + 1, Len(wire)) \in Seq(T)
          /\ Len(SubSeq(wire, n + 1, Len(wire))) = Len(wire) - n
      BY <2>1, <3>2, CutIn
    <3> QED BY <3>1, <3>3
  <2> QED BY <2>1, <2>2
<1>14. n \in Nat \ {0} /\ n <= Len(wire) /\ rlen' = rpos' + Valid + n /\ rpos' \in Nat /\ rlen' <= FULLSZ
  BY <1>1
<1>15. PICK r \in Nat : r = rpos'
  BY <1>14
<1>16. PICK l \in Nat : l = rlen'
  <2>1. r + Valid + n \in Nat
    BY <1>5, <1>14
  <2> QED BY <2>1, <1>14, <1>15
<1>17. l = r + Valid + n /\ l <= FULLSZ
  BY <1>14, <1>15, <1>16
<1>7. Front' = Front /\ Valid' = Valid + n
  <2>1. Valid' = l - r /\ Front' = Front
    BY <1>2, <1>15, <1>16 DEF Valid, Front
  <2>2. l - r = Valid + n
    BY <1>5, <1>17
  <2> QED BY <2>1, <2>2
<1>8. StreamTypeOK'
  <2>1. rpos' \in 0 .. rlen' /\ rlen' \in 0 .. FULLSZ
    <3>1. r \in 0 .. l /\ l \in 0 .. FULLSZ
      BY <1>5, <1>17, StreamSizes
    <3> QED BY <3>1, <1>15, <1>16
  <2>2. Len(wire') <= SocketCap
    <3>1. Len(wire) <= SocketCap
      BY <1>4 DEF StreamTypeOK
    <3> QED BY <3>1, <1>1, <1>5, <1>6, StreamSizes
  <2> QED BY <1>1, <1>2, <1>3, <1>4, <1>6, <2>1, <2>2 DEF StreamTypeOK
<1>9. Outstanding'
  BY <1>2, <1>3, <1>4, OutstandingKept
<1>10. Received'
  <2> SUFFICES ASSUME ~skipped
               PROVE  /\ \A i \in 0 .. Valid' - 1 : rbuf'[rpos' + i] = Front + 1 + i
                      /\ Run(wire', Front + Valid', Len(wire'))
    BY <1>3, <1>7 DEF Received
  <2>1. /\ \A i \in 0 .. Valid - 1 : rbuf[rpos + i] = Front + 1 + i
        /\ Run(wire, Front + Valid, Len(wire))
    BY <1>4 DEF Received
  <2>2. Run(wire', Front + Valid + n, Len(wire) - n)
    BY <1>1, <2>1, RunSplit
  <2>3. Front + Valid + n = Front + Valid'
    BY <1>5, <1>7
  <2>4. ASSUME NEW i \in 0 .. Valid' - 1 PROVE rbuf'[rpos' + i] = Front + 1 + i
    <3>1. CASE i < Valid
      <4>1. i \in 0 .. Valid - 1
        BY <1>5, <3>1
      <4> QED BY <4>1, <1>1, <2>1
    <3>2. CASE ~ i < Valid
      <4>1. PICK j \in 1 .. n : j = i - Valid + 1
        BY <1>5, <1>7, <3>2
      <4>2. rpos' + Valid + (j - 1) = rpos' + i /\ j \in 1 .. Len(wire)
            /\ Front + Valid + j = Front + 1 + i
        BY <1>1, <1>5, <3>2, <4>1
      <4>3. wire[j] = Front + Valid + j
        BY <2>1, <4>2 DEF Run
      <4>4. rbuf'[rpos' + Valid + (j - 1)] = wire[j]
        BY <1>1
      <4> QED BY <4>2, <4>3, <4>4
    <3> QED BY <3>1, <3>2
  <2> QED BY <1>6, <2>2, <2>3, <2>4
<1>11. Sending'
  <2>1. Sent' = Sent
    BY <1>5, <1>6, <1>7, <1>14 DEF Sent
  <2> QED BY <1>2, <2>1, WorkerKept
<1>12. LineThere'
  <2> SUFFICES ASSUME ~skipped, ~torn', got > 0
               PROVE  begin + got = rpos' /\ \A i \in 0 .. got - 1 : rbuf'[begin + i] = taken + 1 + i
    BY <1>2, <1>3 DEF LineThere
  <2>1. rpos' = rpos /\ \A i \in 0 .. rpos - 1 : rbuf'[i] = rbuf[i]
    BY <1>1
  <2>2. begin + got = rpos /\ \A i \in 0 .. got - 1 : rbuf[begin + i] = taken + 1 + i
    BY <1>1, <1>4 DEF LineThere
  <2>3. \A i \in 0 .. got - 1 : begin + i \in 0 .. rpos - 1
    BY <1>5, <2>2
  <2> QED BY <2>1, <2>2, <2>3
<1>13. PiecesIntact'
  BY <1>1, <1>2, <1>3, <1>4 DEF PiecesIntact
<1> QED BY <1>8, <1>9, <1>10, <1>11, <1>12, <1>13 DEF StreamInv

LEMMA RecvFailsStep ==
  ASSUME StreamInv, RecvFails
  PROVE  StreamInv'
<1>1. /\ ended' = TRUE /\ UNCHANGED server
      /\ UNCHANGED <<wire, todo, rbuf, rlen, rpos, begin, got, taken, wrong, torn>>
  BY DEF RecvFails
<1>2. UNCHANGED <<send_buf, unsent, after, alive, made, flushed, skipped>>
  BY <1>1 DEF server
<1>3. StreamTypeOK'
  BY <1>1, <1>2 DEF StreamInv, StreamTypeOK
<1>4. Outstanding'
  BY <1>1, <1>2, OutstandingKept DEF StreamInv
<1>5. Front' = Front /\ Valid' = Valid /\ Sent' = Sent
  BY <1>1 DEF Front, Valid, Sent
<1>6. Received' /\ LineThere' /\ PiecesIntact'
  BY <1>1, <1>2, <1>5 DEF StreamInv, Received, LineThere, PiecesIntact
<1>7. Sending'
  BY <1>1, <1>5, WorkerKept
<1> QED BY <1>3, <1>4, <1>6, <1>7 DEF StreamInv

LEMMA StreamStutter ==
  ASSUME StreamInv, UNCHANGED streamvars
  PROVE  StreamInv'
<1>1. UNCHANGED server /\ UNCHANGED client /\ UNCHANGED <<wire, todo>>
  BY DEF streamvars
<1>2. /\ UNCHANGED <<send_buf, unsent, after, alive, made, flushed, skipped>>
      /\ UNCHANGED <<rbuf, rlen, rpos, begin, got, taken, wrong, torn, ended>>
  BY <1>1 DEF server, client
<1>3. StreamTypeOK'
  BY <1>1, <1>2 DEF StreamInv, StreamTypeOK
<1>4. Outstanding'
  BY <1>1, <1>2, OutstandingKept DEF StreamInv
<1>5. Received' /\ LineThere' /\ PiecesIntact' /\ Sent' = Sent
  BY <1>1, <1>2, ClientKept
<1>6. Sending'
  BY <1>1, <1>5, WorkerKept
<1> QED BY <1>3, <1>4, <1>5, <1>6 DEF StreamInv

LEMMA StreamStarts == StreamInit => StreamInv
<1> SUFFICES ASSUME StreamInit PROVE StreamInv
  OBVIOUS
<1>1. /\ send_buf = <<>> /\ unsent = <<>> /\ after = <<>> /\ alive = TRUE
      /\ made = 0 /\ flushed = 0 /\ skipped = FALSE /\ wire = <<>> /\ todo = <<>>
      /\ rbuf = [i \in 0 .. FULLSZ - 1 |-> 0] /\ rlen = 0 /\ rpos = 0
      /\ begin = 0 /\ got = 0 /\ taken = 0 /\ wrong = FALSE /\ torn = FALSE /\ ended = FALSE
  BY DEF StreamInit
<1>2. \A S : <<>> \in Seq(S) /\ Len(<<>>) = 0
  BY EmptySeq
<1>3. Run(<<>>, 0, 0)
  BY RunNone
<1>4. StreamTypeOK
  BY <1>1, <1>2, StreamSizes, SMTT(30) DEF StreamTypeOK
<1>5. Outstanding
  BY <1>1, <1>2 DEF Outstanding
<1>6. Front = 0 /\ Valid = 0 /\ Sent = 0 /\ Buffered = <<>>
  BY <1>1, <1>2 DEF Front, Valid, Sent, Buffered
<1>7. Received /\ Sending
  BY <1>1, <1>2, <1>3, <1>6 DEF Received, Sending
<1>8. LineThere /\ PiecesIntact
  BY <1>1 DEF LineThere, PiecesIntact
<1> QED BY <1>4, <1>5, <1>7, <1>8 DEF StreamInv

\* No byte is lost, doubled or moved on its way through the buffers of session.c
\* and scrc.c, and every piece shows the client what was sent for it, but for
\* what session_send leaves out and what recv_refill tears: for buffers, sockets
\* and pieces of any size.
THEOREM StreamBytesIntact == StreamSpec => []BytesIntact
<1>1. StreamInit => StreamInv
  BY StreamStarts
<1>2. StreamInv /\ [StreamNext]_streamvars => StreamInv'
  <2> SUFFICES ASSUME StreamInv, [StreamNext]_streamvars PROVE StreamInv'
    OBVIOUS
  <2>1. ASSUME NEW p \in Pieces, session_send(p) PROVE StreamInv'
    BY <2>1, SessionSendStep
  <2>2. CASE session_flush
    BY <2>2, FlushStep
  <2>3. CASE send_block
    BY <2>3, BlockStep
  <2>4. CASE SendFails
    BY <2>4, SendFailsStep
  <2>5. CASE recv_refill
    BY <2>5, RefillStep
  <2>6. CASE recv_block
    BY <2>6, RecvBlockStep
  <2>7. CASE recv_header_line
    BY <2>7, LineStep
  <2>8. CASE RecvFails
    BY <2>8, RecvFailsStep
  <2>9. CASE UNCHANGED streamvars
    BY <2>9, StreamStutter
  <2> QED BY <2>1, <2>2, <2>3, <2>4, <2>5, <2>6, <2>7, <2>8, <2>9 DEF StreamNext, Recv
<1>3. StreamInv => BytesIntact
  BY RunsInOrder DEF StreamInv, BytesIntact
<1> QED BY <1>1, <1>2, <1>3, PTL DEF StreamSpec

=============================================================================
