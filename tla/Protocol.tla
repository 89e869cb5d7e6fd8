------------------------------- MODULE Protocol -------------------------------
(***************************************************************************)
(* One client and its worker: the console client (src/scrc/main.c) with    *)
(* the library below it (scrc.c), and the worker's two parsers (hquery.y   *)
(* for the stream of queries, execute.y for one statement) with the        *)
(* answers they send.  What is sent is a sequence of tokens: the header    *)
(* lines "Status", "Body" and "$$", and the binary commands of a table.    *)
(* That tokens arrive whole and in order is the subject of Stream.         *)
(***************************************************************************)
EXTENDS Integers, Sequences

CONSTANTS Lines,       \* the queries: sequences of statements ended by ';'
          MaxQueries,  \* bound on the queries of a connection
          MaxRows      \* bound on the rows a SELECT finds

\* A statement is told by how it is answered: "command" stands for CREATE,
\* START TRANSACTION, COMMIT, ROLLBACK and INSERT, "garbled" for one the
\* grammar does not accept.
Statements == {"command", "delete", "delete_where", "select", "select_where", "garbled"}

ASSUME ProtocolAssumption == /\ Lines \subseteq Seq(Statements)
                             /\ MaxQueries \in Nat /\ MaxRows \in Nat

VARIABLES
  mode,    \* the client reads queries from a "script" or is "interactive"
  cpc,     \* what the client does
  conn,    \* ScrcConnection: status, body, columnsz, and the rows read since
  asked,   \* the number of the query asked last; 0 is the handshake
  toWorker, toClient,  \* the two directions of the socket
  srv,     \* what the worker does
  inBody,  \* hquery.y has reduced a body since the line began
  out,     \* what the statement still has to send
  sbuf,    \* sent but not flushed
  truth    \* per query, the outcomes of the statements executed for it

clientVars == <<mode, cpc, conn, asked>>
workerVars == <<srv, inBody, out, sbuf, truth>>
vars == <<clientVars, workerVars, toWorker, toClient>>

OK == "ok"
Errors == {"refused", "mismatch", "parser_error"}               \* from the worker
ClientErrors == {"connection_closed", "protocol_error", "unknown_command"}

Tok(t, v, q) == [t |-> t, v |-> v, q |-> q]
FLUSH == [t |-> "flush", v |-> 0, q |-> 0]

Init == /\ mode \in {"script", "interactive"}
        /\ cpc = "start" /\ conn = [status |-> OK, body |-> FALSE, columnsz |-> 0, rows |-> 0]
        /\ asked = 0
        /\ toWorker = <<>> /\ toClient = <<>>
        /\ srv = "none" /\ inBody = FALSE /\ out = <<>> /\ sbuf = <<>>
        /\ truth = [q \in 1 .. MaxQueries |-> <<>>]

-----------------------------------------------------------------------------
(* What the worker sends.                                                  *)

\* session_send_status
Reply(v, q) == <<Tok("Status", v, q), Tok("$$", 0, q), FLUSH>>

\* The header of a SELECT that found its table, and the table's own header.
TableHead(q) == << Tok("Status", OK, q), Tok("Body", 0, q), Tok("$$", 0, q),
                   Tok("TABHEADER", 0, q), Tok("ROW", "column", q), Tok("END", 0, q),
                   Tok("TABDATA", 0, q) >>
Rows(n, q) == [i \in 1 .. n |-> Tok("ROW", i, q)]

\* An execution: what it sends, what it found, and whether y2parse fails, so
\* that execute_cmd answers once more and the query parser goes into recovery.
Done(toks, status, rows) == [toks |-> toks, status |-> status, rows |-> rows, abort |-> FALSE]
Abort(toks, status, q) ==
  [toks |-> toks \o Reply("parser_error", q), status |-> status, rows |-> 0, abort |-> TRUE]

\* CREATE SCHEMA and CREATE TABLE without a catalog are left without bytecode, or
\* with a part of it, and y2parse fails.
Command(q) == {Done(Reply(v, q), v, 0) : v \in {OK, "refused"}} \cup
              {Abort(<<>>, "parser_error", q)}

\* A DELETE whose table is not found says so and then goes on to answer OK.
Delete(q) == {Done(Reply(OK, q), OK, 0), Done(Reply("refused", q) \o Reply(OK, q), "refused", 0),
              Abort(Reply("refused", q), "refused", q)}

\* The loop of a WHERE over no row at all is skipped, but the grammar asks for
\* one expression: y2parse fails also when the table is found and is empty.
DeleteWhere(q) == {Done(Reply(OK, q), OK, 0), Abort(<<>>, "parser_error", q),
                   Abort(Reply("refused", q), "refused", q),
                   Abort(Reply("mismatch", q), "mismatch", q)}

\* Mutant: the rows are not followed by END.
Found_endless(n, q) == Done(TableHead(q) \o Rows(n, q) \o <<FLUSH>>, OK, n)

Found(n, q) == Done(TableHead(q) \o Rows(n, q) \o <<Tok("END", 0, q), FLUSH>>, OK, n)

\* A SELECT whose table is not found ends a table it did not begin.
Select(q) == {Found(n, q) : n \in 0 .. MaxRows} \cup
             {Done(Reply("refused", q) \o <<Tok("END", 0, q), FLUSH>>, "refused", 0)}

SelectWhere(q) ==
  {Found(n, q) : n \in 0 .. MaxRows} \cup
  {Abort(Reply("refused", q), "refused", q), Abort(TableHead(q), "parser_error", q)} \cup
  {Abort(TableHead(q) \o Rows(n, q) \o Reply("mismatch", q), "mismatch", q) : n \in 0 .. MaxRows}

Executions(stmt, q) == CASE stmt = "command" -> Command(q)
                         [] stmt = "delete" -> Delete(q)
                         [] stmt = "delete_where" -> DeleteWhere(q)
                         [] stmt = "select" -> Select(q)
                         [] stmt = "select_where" -> SelectWhere(q)
                         [] OTHER -> {}

\* What is executed when the bytecode of a garbled statement is still before that of
\* the next: the first of them, if that is a whole command, and then y2parse fails,
\* or bc_prepare does, which is answered in the same way.  The two make a command
\* only where the second has no bytecode.
Leftovers(q) ==
  LET first == UNION {Executions(s, q) : s \in Statements}
  IN  {Abort(<<>>, "parser_error", q)} \cup
      {[e EXCEPT !.status = "parser_error"] : e \in first} \cup
      {Abort(e.toks, "parser_error", q) : e \in {x \in first : ~x.abort}}

-----------------------------------------------------------------------------
(* The worker.  Its tokens from the client are statements and EOL, which   *)
(* the scanner makes of the "$$" after a query.                            *)

Working == srv \notin {"none", "ended"}
In == Head(toWorker)
Consume == toWorker' = Tail(toWorker)

\* accept and fork; a failure of either closes the connection.
Accept == /\ srv = "none" /\ cpc # "start"
          /\ srv' \in {"header", "ended"}
          /\ UNCHANGED <<clientVars, toWorker, toClient, inBody, out, sbuf, truth>>

\* header: the catalog is looked up before the end of the header is read, and
\* an unknown one is answered twice.  A name the scanner does not take is a syntax
\* error, for which there is no rule: y1parse fails, session_run answers and ends.
\* A user is always named by this client.
Header == /\ srv = "header" /\ out = <<>> /\ toWorker # <<>>
          /\ \/ out' = Reply(OK, 0) /\ srv' = "queries"
             \/ out' = Reply("refused", 0) \o Reply(OK, 0) /\ srv' = "queries"
             \/ out' = Reply("parser_error", 0) /\ srv' = "closing"
          /\ Consume
          /\ UNCHANGED <<clientVars, toClient, inBody, sbuf, truth>>

\* With bytecode of a garbled statement left over, or without.
Ready == srv \in {"queries", "leftover"}

\* body: cmd ';' -- execute_cmd, cmd_reset, and YYERROR when the first fails.
Execute ==
  /\ Ready /\ out = <<>> /\ toWorker # <<>> /\ In.stmt \notin {"garbled", "EOL"}
  /\ \E e \in IF srv = "leftover" THEN Leftovers(In.q) ELSE Executions(In.stmt, In.q) :
       /\ out' = e.toks
       /\ truth' = [truth EXCEPT ![In.q] = Append(@, [status |-> e.status, rows |-> e.rows])]
       /\ srv' = IF e.abort THEN "recovery" ELSE "queries"
       /\ inBody' = ~e.abort
  /\ Consume
  /\ UNCHANGED <<clientVars, toClient, sbuf>>

\* body: error ';' -- a statement with a syntax error is passed over.  What mid-rule
\* actions and whole commands had put in the bytecode before the error stays there.
Garbled == /\ Ready /\ out = <<>> /\ toWorker # <<>> /\ In.stmt = "garbled"
           /\ srv' \in {srv, "leftover"}
           /\ inBody' = TRUE /\ Consume
           /\ truth' = [truth EXCEPT ![In.q] = Append(@, [status |-> "parser_error", rows |-> 0])]
           /\ UNCHANGED <<clientVars, toClient, out, sbuf>>

\* query: '\n' | body '\n' -- only a query without statements is answered.
EndOfQuery == /\ Ready /\ out = <<>> /\ toWorker # <<>> /\ In.stmt = "EOL"
              /\ out' = IF inBody THEN <<>> ELSE Reply(OK, In.q)
              /\ inBody' = FALSE /\ Consume
              /\ UNCHANGED <<clientVars, toClient, srv, sbuf, truth>>

\* After YYERROR the parser drops what it reads up to the next ';': the end of
\* this query, and the first statement after it.
Recover == /\ srv = "recovery" /\ out = <<>> /\ toWorker # <<>>
           /\ IF In.stmt = "EOL" THEN UNCHANGED <<srv, inBody>>
              ELSE srv' = "queries" /\ inBody' = TRUE
           /\ Consume
           /\ UNCHANGED <<clientVars, toClient, out, sbuf, truth>>

\* session_send and session_flush; a full buffer is sent before it is flushed.
Send == /\ Working /\ out # <<>>
        /\ out' = Tail(out)
        /\ IF Head(out) = FLUSH
           THEN toClient' = toClient \o sbuf /\ sbuf' = <<>>
           ELSE \/ sbuf' = Append(sbuf, Head(out)) /\ UNCHANGED toClient
                \/ toClient' = Append(toClient \o sbuf, Head(out)) /\ sbuf' = <<>>
        /\ UNCHANGED <<clientVars, toWorker, srv, inBody, truth>>

\* Mutant: the end of input is not noticed in recovery.
SessionEnds_ready ==
  /\ srv \in {"header", "queries", "leftover", "closing"} /\ out = <<>>
  /\ srv = "closing" \/ (toWorker = <<>> /\ cpc = "exit")
  /\ srv' = "ended"
  /\ UNCHANGED <<clientVars, toWorker, toClient, inBody, out, sbuf, truth>>

\* The client has closed the connection: the parser reads the end of input,
\* session_run sends a last status to nobody and returns.  Or the header was refused.
SessionEnds == /\ Working /\ out = <<>>
               /\ srv = "closing" \/ (toWorker = <<>> /\ cpc = "exit")
               /\ srv' = "ended"
               /\ UNCHANGED <<clientVars, toWorker, toClient, inBody, out, sbuf, truth>>

Worker == Accept \/ Header \/ Execute \/ Garbled \/ EndOfQuery \/ Recover \/ Send \/ SessionEnds

\* The worker is killed, or the socket breaks: what is not flushed is lost.
WorkerDies == /\ Working
              /\ srv' = "ended" /\ out' = <<>> /\ sbuf' = <<>>
              /\ UNCHANGED <<clientVars, toWorker, toClient, inBody, truth>>

-----------------------------------------------------------------------------
(* The client.                                                             *)

\* scrc_connect: the header goes out, its answer is awaited.
Connect == /\ cpc = "start"
           /\ cpc' = "header"
           /\ toWorker' = <<[stmt |-> "header", q |-> 0]>>
           /\ UNCHANGED <<mode, conn, asked, toClient, workerVars>>

\* Mutant: the columns of the answer before are kept.
Ask_columns(line) ==
  /\ cpc = "idle" /\ conn.status = OK /\ asked < MaxQueries
  /\ asked' = asked + 1
  /\ toWorker' = toWorker \o [i \in 1 .. Len(line) |-> [stmt |-> line[i], q |-> asked + 1]]
                   \o <<[stmt |-> "EOL", q |-> asked + 1]>>
  /\ conn' = [conn EXCEPT !.body = FALSE, !.rows = 0]
  /\ cpc' = "header"
  /\ UNCHANGED <<mode, toClient, workerVars>>

\* Mutant: scrc_query does not look at the status it was left with.
Ask_anyway(line) ==
  /\ cpc = "idle" /\ asked < MaxQueries
  /\ asked' = asked + 1
  /\ toWorker' = toWorker \o [i \in 1 .. Len(line) |-> [stmt |-> line[i], q |-> asked + 1]]
                   \o <<[stmt |-> "EOL", q |-> asked + 1]>>
  /\ conn' = [status |-> OK, body |-> FALSE, columnsz |-> 0, rows |-> 0]
  /\ cpc' = "header"
  /\ UNCHANGED <<mode, toClient, workerVars>>

\* scrc_query, up to the end of send_query.  A connection whose status is not
\* OK is not used any more: the call returns the status at once, after which
\* the interactive client goes on and the script ends.
Ask(line) ==
  /\ cpc = "idle" /\ conn.status = OK /\ asked < MaxQueries
  /\ asked' = asked + 1
  /\ toWorker' = toWorker \o [i \in 1 .. Len(line) |-> [stmt |-> line[i], q |-> asked + 1]]
                   \o <<[stmt |-> "EOL", q |-> asked + 1]>>
  /\ conn' = [conn EXCEPT !.body = FALSE, !.columnsz = 0, !.rows = 0]
  /\ cpc' = "header"
  /\ UNCHANGED <<mode, toClient, workerVars>>

GiveUp == cpc = "idle" /\ conn.status # OK /\ mode = "script"
Leave == /\ cpc = "idle"
         /\ cpc' = "exit"
         /\ UNCHANGED <<mode, conn, asked, toWorker, toClient, workerVars>>

\* The client is killed.
ClientDies == /\ cpc \notin {"start", "exit"}
              /\ cpc' = "exit"
              /\ UNCHANGED <<mode, conn, asked, toWorker, toClient, workerVars>>

Reading == cpc \in {"header", "tabheader", "columns", "tabdata", "rows"}
Top == Head(toClient)
Text == Top.t \in {"Status", "Body", "$$"}

\* Where a call returns its status to the console client.  A failed handshake
\* ends it.
Return(status) == /\ conn' = [conn EXCEPT !.status = status]
                  /\ cpc' = IF asked = 0 /\ status # OK THEN "exit" ELSE "idle"

Go(place) == cpc' = place /\ UNCHANGED conn

\* Mutant: a status that is not OK is read over.
RecvHeader_over ==
  /\ cpc = "header"
  /\ \/ Top.t = "Status" /\ Go("header")
     \/ Top.t = "Body" /\ conn' = [conn EXCEPT !.body = TRUE] /\ UNCHANGED cpc
     \/ Top.t = "$$" /\ conn.body /\ Go("tabheader")
     \/ Top.t = "$$" /\ ~conn.body /\ Return(OK)

\* recv_header.  It returns at the first status that is not OK and leaves the
\* rest of the header unread.
RecvHeader ==
  /\ cpc = "header"
  /\ \/ Top.t = "Status" /\ Top.v # OK /\ Return(Top.v)
     \/ Top.t = "Status" /\ Top.v = OK /\ Go("header")
     \/ Top.t = "Body" /\ conn' = [conn EXCEPT !.body = TRUE] /\ UNCHANGED cpc
     \/ Top.t = "$$" /\ conn.body /\ Go("tabheader")
     \/ Top.t = "$$" /\ ~conn.body /\ Return(OK)

\* What recv_cmd and recv_row make of a command out of place, or of the text
\* of a header read as a command.
Misread == Return(IF Text THEN "unknown_command" ELSE "protocol_error")

RecvCmd(place, t, next) == /\ cpc = place
                           /\ IF Top.t = t THEN Go(next) ELSE Misread

RecvColumn == /\ cpc = "columns"
              /\ CASE Top.t = "ROW" -> conn' = [conn EXCEPT !.columnsz = @ + 1] /\ UNCHANGED cpc
                   [] Top.t = "END" -> Go("tabdata")
                   [] OTHER -> Misread

\* scrc_fetch_row, called by print_response_body until a row is NULL.
RecvRow == /\ cpc = "rows"
           /\ CASE Top.t = "ROW" -> conn' = [conn EXCEPT !.rows = @ + 1] /\ UNCHANGED cpc
                [] Top.t = "END" -> Return(OK)
                [] OTHER -> Misread

Receive == /\ Reading /\ toClient # <<>>
           /\ RecvHeader \/ RecvCmd("tabheader", "TABHEADER", "columns") \/ RecvColumn
              \/ RecvCmd("tabdata", "TABDATA", "rows") \/ RecvRow
           /\ toClient' = Tail(toClient)
           /\ UNCHANGED <<mode, asked, toWorker, workerVars>>

\* The connection is closed and drained.  recv_row does not look at what
\* recv_cmd returns, and takes the command it did not get for an unknown one.
RecvClosed ==
  /\ Reading /\ toClient = <<>> /\ srv = "ended"
  /\ Return(IF cpc \in {"columns", "rows"} THEN "unknown_command" ELSE "connection_closed")
  /\ UNCHANGED <<mode, asked, toWorker, toClient, workerVars>>

Client == Connect \/ Receive \/ RecvClosed \/ (GiveUp /\ Leave)

Next == \/ Worker \/ WorkerDies
        \/ Client \/ Leave \/ ClientDies
        \/ \E line \in Lines : Ask(line)

\* The worker runs while it has input or output, the client while it awaits an
\* answer.  What a user asks, and faults, are left out.
Fairness == WF_vars(Worker) /\ WF_vars(Client)

Spec == Init /\ [][Next]_vars /\ Fairness

-----------------------------------------------------------------------------

\* Among the rest: a header is read where the worker sent one, and the text parser
\* of recv_header never meets binary data.
TypeOK ==
  /\ cpc \in {"start", "header", "tabheader", "columns", "tabdata", "rows", "idle", "exit"}
  /\ conn \in [status : {OK} \cup Errors \cup ClientErrors, body : BOOLEAN,
             columnsz : {0, 1}, rows : 0 .. MaxRows]
  /\ asked \in 0 .. MaxQueries
  /\ srv \in {"none", "header", "queries", "leftover", "recovery", "closing", "ended"}
  /\ inBody \in BOOLEAN
  /\ \A i \in DOMAIN toClient : toClient[i].q \in 0 .. asked
  /\ cpc = "header" /\ toClient # <<>> => Text
  /\ \A q \in 1 .. MaxQueries : asked < q => truth[q] = <<>>

\* scrc.h: scrc_query sends a query and receives its answer.  What a client
\* reads while it awaits the answer to a query belongs to that query, whatever
\* doubled or broken answers came before.
AnswersOwn == Reading /\ toClient # <<>> => Top.q = asked

\* A query that the client reports as done is one whose statements were all
\* executed with success, and the rows printed are all that were found.
ReportedIsDone ==
  [][ /\ Reading /\ cpc' = "idle" /\ conn'.status = OK /\ asked > 0
      => \A i \in DOMAIN truth[asked] : /\ truth[asked][i].status = OK
                                        /\ conn.rows = truth[asked][i].rows ]_vars

\* Every query is answered, or the connection is reported as broken.
QueryAnswered == Reading ~> ~Reading

\* A worker ends when its client has gone.
WorkerEnds == cpc = "exit" ~> srv = "ended"
=============================================================================
