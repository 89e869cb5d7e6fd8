-------------------------------- MODULE Stream --------------------------------
(***************************************************************************)
(* The bytes between a worker and a client: the send buffer of session.c,  *)
(* the socket, and the receive buffer of scrc.c.  Bytes are numbered in    *)
(* the order in which the worker hands them to session_send.  A piece is   *)
(* what one call sends and one call receives: a header line, which the     *)
(* client reads byte by byte, or a block it reads at once.                 *)
(***************************************************************************)
EXTENDS Integers, Sequences, FiniteSets

CONSTANTS SENDBUFSZ,   \* session.h
          BUFSZ,       \* scrc.c; the receive buffer holds twice as much
          SocketCap,   \* bytes the socket takes before send() blocks
          Pieces,      \* the pieces a worker may send
          MaxBytes     \* bound on the bytes of a run

RESERVESZ == BUFSZ
FULLSZ == BUFSZ + RESERVESZ
HEADER_MAX == BUFSZ \div 2

\* What is assumed of them; a header line may have a byte at least.
ASSUME StreamAssumption ==
  /\ {SENDBUFSZ, BUFSZ, SocketCap, MaxBytes} \subseteq Nat \ {0} /\ BUFSZ > 1
  /\ Pieces \subseteq [kind : {"line", "block"}, len : Nat \ {0}]

VARIABLES
  send_buf,  \* session->send_buf up to send_buf_idx
  unsent,    \* the bytes send_block still has to give to the socket
  after,     \* what the send buffer holds once those are sent
  alive,     \* no send() has failed; a socket that failed once stays so
  wire,      \* in the socket
  rbuf, rlen, rpos,  \* the fields of ScrcConnection
  begin, got,        \* recv_header_line: where the line begins, bytes read
  todo,      \* the pieces sent and not yet received, in order
  made,      \* bytes handed to session_send
  flushed,   \* bytes a flush has promised
  taken,     \* bytes the client has received as part of a piece
  wrong,     \* some piece did not hold its bytes when it was complete
  skipped,   \* session_send has left bytes out
  torn,      \* the receive buffer was compacted within a header line
  ended      \* the client has given up on the connection

server == <<send_buf, unsent, after, alive, made, flushed, skipped>>
client == <<rbuf, rlen, rpos, begin, got, taken, wrong, torn, ended>>
streamvars == <<server, client, wire, todo>>

Bytes(from, n) == [i \in 1 .. n |-> from + i - 1]
Least(a, b) == IF a < b THEN a ELSE b

StreamInit == /\ send_buf = <<>> /\ unsent = <<>> /\ after = <<>> /\ alive = TRUE
        /\ made = 0 /\ flushed = 0 /\ skipped = FALSE
        /\ wire = <<>> /\ todo = <<>>
        /\ rbuf = [i \in 0 .. FULLSZ - 1 |-> 0] /\ rlen = 0 /\ rpos = 0
        /\ begin = 0 /\ got = 0 /\ taken = 0
        /\ wrong = FALSE /\ torn = FALSE /\ ended = FALSE

-----------------------------------------------------------------------------
(* The worker.  It calls session_send and session_flush one after the      *)
(* other; either returns when send_block has given all bytes away.         *)

\* Mutant: the whole block is sent although its head went with the buffer.
Overfull_twice(data) ==
  LET idx == Len(send_buf)
      full == ((Len(data) - (SENDBUFSZ - idx)) \div SENDBUFSZ) * SENDBUFSZ
      tail == (Len(data) - (SENDBUFSZ - idx)) % SENDBUFSZ
      more == data
  IN /\ unsent' = (IF idx > 0 THEN send_buf \o SubSeq(data, 1, SENDBUFSZ - idx) ELSE <<>>)
                 \o SubSeq(more, 1, full)
     /\ after' = SubSeq(more, full + 1, full + tail)
     /\ send_buf' = IF unsent' = <<>> THEN after' ELSE send_buf
     /\ skipped' = (skipped \/ idx = 0)

\* session_send of data the buffer has no room for.  The head that fills the
\* buffer is counted in any case, but buf moves past it only when the buffer
\* was not empty: else the last SENDBUFSZ bytes of data are left out.
Overfull(data) ==
  LET idx == Len(send_buf)
      full == ((Len(data) - (SENDBUFSZ - idx)) \div SENDBUFSZ) * SENDBUFSZ
      tail == (Len(data) - (SENDBUFSZ - idx)) % SENDBUFSZ
      more == IF idx > 0 THEN SubSeq(data, SENDBUFSZ - idx + 1, Len(data)) ELSE data
  IN /\ unsent' = (IF idx > 0 THEN send_buf \o SubSeq(data, 1, SENDBUFSZ - idx) ELSE <<>>)
                 \o SubSeq(more, 1, full)
     /\ after' = SubSeq(more, full + 1, full + tail)
     /\ send_buf' = IF unsent' = <<>> THEN after' ELSE send_buf
     /\ skipped' = (skipped \/ idx = 0)

session_send(p) ==
  LET data == Bytes(made + 1, p.len)
  IN /\ unsent = <<>> /\ alive /\ made + p.len <= MaxBytes
     /\ IF Len(send_buf) + p.len >= SENDBUFSZ
        THEN Overfull(data)
        ELSE send_buf' = send_buf \o data /\ UNCHANGED <<unsent, after, skipped>>
     /\ made' = made + p.len
     /\ todo' = Append(todo, [kind |-> p.kind, from |-> made + 1, len |-> p.len])
     /\ UNCHANGED <<alive, flushed, wire, client>>

\* Mutant: a flush of less than half a buffer is put off.
session_flush_late ==
  /\ unsent = <<>> /\ alive /\ flushed # made
  /\ IF 2 * Len(send_buf) < SENDBUFSZ THEN UNCHANGED <<unsent, after>>
     ELSE unsent' = send_buf /\ after' = <<>>
  /\ flushed' = made
  /\ UNCHANGED <<send_buf, alive, made, skipped, wire, todo, client>>

session_flush ==
  /\ unsent = <<>> /\ alive /\ flushed # made
  /\ unsent' = send_buf /\ after' = <<>>
  /\ flushed' = made
  /\ UNCHANGED <<send_buf, alive, made, skipped, wire, todo, client>>

\* One round of send_block's loop: send() takes some of the bytes.  An
\* interrupted call (EINTR) takes none and is made again.
send_block ==
  \E n \in 1 .. Least(Len(unsent), SocketCap - Len(wire)) :
    /\ wire' = wire \o SubSeq(unsent, 1, n)
    /\ unsent' = SubSeq(unsent, n + 1, Len(unsent))
    /\ send_buf' = IF unsent' = <<>> THEN after ELSE send_buf
    /\ UNCHANGED <<after, alive, made, flushed, skipped, todo, client>>

\* send() fails, or the connection is closed: the call returns at once and
\* leaves the buffer and its index as they were.
SendFails == /\ unsent # <<>> /\ alive
             /\ alive' = FALSE /\ unsent' = <<>>
             /\ UNCHANGED <<send_buf, after, made, flushed, skipped, wire, todo, client>>

-----------------------------------------------------------------------------
(* The client, which asks for the pieces in order.                         *)

Want == Head(todo)
Need == IF Want.kind = "line" THEN 1 ELSE Want.len
Expecting == ~ended /\ todo # <<>>
Valid == rlen - rpos

\* recv_block refuses more than BUFSZ, recv_header_line a line of HEADER_MAX.
TooLarge == IF Want.kind = "line" THEN got > 0 /\ got + 1 >= HEADER_MAX
            ELSE Want.len > BUFSZ

\* recv_refill: when it cannot read RESERVESZ bytes behind the valid ones it
\* moves these to the beginning.
Compacted == [buf |-> [i \in DOMAIN rbuf |-> IF i < Valid THEN rbuf[rpos + i] ELSE rbuf[i]],
              len |-> Valid]

recv_refill ==
  /\ Expecting /\ ~TooLarge /\ Valid < Need /\ wire # <<>>
  /\ LET compact == FULLSZ - rlen < RESERVESZ
         b == IF compact THEN Compacted ELSE [buf |-> rbuf, len |-> rlen]
     IN \E n \in 1 .. Least(FULLSZ - b.len, Len(wire)) :
          /\ rbuf' = [i \in DOMAIN rbuf |-> IF i \in b.len .. b.len + n - 1
                                            THEN wire[i - b.len + 1] ELSE b.buf[i]]
          /\ rlen' = b.len + n
          /\ rpos' = IF compact THEN 0 ELSE rpos
          /\ wire' = SubSeq(wire, n + 1, Len(wire))
          /\ torn' = (torn \/ (compact /\ got > 0))
  /\ UNCHANGED <<server, todo, begin, got, taken, wrong, ended>>

\* The bytes a pointer into the buffer shows.
Shown(p, n) == [i \in 1 .. n |-> IF p + i - 1 \in DOMAIN rbuf THEN rbuf[p + i - 1] ELSE 0]

Complete(p) == /\ todo' = Tail(todo)
               /\ taken' = taken + Want.len
               /\ wrong' = (wrong \/ Shown(p, Want.len) # Bytes(Want.from, Want.len))

recv_block == /\ Expecting /\ Want.kind = "block" /\ ~TooLarge /\ Valid >= Need
              /\ rpos' = rpos + Want.len
              /\ Complete(rpos)
              /\ UNCHANGED <<server, wire, rbuf, rlen, begin, got, torn, ended>>

\* One byte of a header line.  begin stays a pointer into the buffer across
\* the refills that the following bytes may need.
recv_header_line ==
  /\ Expecting /\ Want.kind = "line" /\ ~TooLarge /\ Valid >= 1
  /\ begin' = IF got = 0 THEN rpos ELSE begin
  /\ rpos' = rpos + 1
  /\ IF got + 1 = Want.len THEN got' = 0 /\ Complete(begin')
     ELSE got' = got + 1 /\ UNCHANGED <<todo, taken, wrong>>
  /\ UNCHANGED <<server, wire, rbuf, rlen, torn, ended>>

\* The client returns an error: the piece is too large, or the connection is
\* closed and drained.
RecvFails == /\ Expecting
             /\ TooLarge \/ (Valid < Need /\ wire = <<>> /\ ~alive /\ unsent = <<>>)
             /\ ended' = TRUE
             /\ UNCHANGED <<server, wire, todo, rbuf, rlen, rpos, begin, got, taken,
                            wrong, torn>>

Recv == recv_refill \/ recv_block \/ recv_header_line \/ RecvFails

StreamNext == \/ \E p \in Pieces : session_send(p)
              \/ session_flush \/ send_block \/ SendFails
              \/ Recv

\* The worker's send loop goes on while the socket takes bytes, the client's
\* reading while it has a piece to read.  Nothing makes a worker send more,
\* and nothing makes a socket fail.
StreamFairness == WF_streamvars(send_block) /\ WF_streamvars(Recv)

StreamSpec == StreamInit /\ [][StreamNext]_streamvars /\ StreamFairness

-----------------------------------------------------------------------------

StreamTypeOK ==
  /\ {send_buf, unsent, after, wire} \subseteq Seq(1 .. MaxBytes)
  /\ Len(send_buf) < SENDBUFSZ /\ Len(after) < SENDBUFSZ /\ Len(wire) <= SocketCap
  /\ {alive, wrong, skipped, torn, ended} \subseteq BOOLEAN
  /\ rbuf \in [0 .. FULLSZ - 1 -> 0 .. MaxBytes]
  /\ rpos \in 0 .. rlen /\ rlen \in 0 .. FULLSZ
  /\ begin \in 0 .. FULLSZ - 1 /\ got \in 0 .. HEADER_MAX
  /\ {made, flushed, taken} \subseteq 0 .. MaxBytes

\* session.c, scrc.c: no byte is lost, doubled or moved before another on its
\* way through the send buffer, direct sends, the socket, refills and
\* compactions, except those session_send leaves out.
InOrder ==
  alive /\ ~skipped =>
    Shown(rpos, Valid) \o wire \o unsent \o (IF unsent = <<>> THEN send_buf ELSE after)
      = Bytes(taken + got + 1, made - taken - got)

\* A block or header line shows the client the bytes that were sent for it
\* when the call that reads it returns.  Only a header line during which the
\* receive buffer is compacted does not: its beginning is left behind.
PiecesIntact == wrong => torn \/ skipped

\* What Stream states: bytes arrive in order and in the pieces they were sent
\* in, but for what session_send leaves out and what a compaction tears.
BytesIntact == StreamTypeOK /\ InOrder /\ PiecesIntact

\* What a flush has promised the client receives in the end, unless the
\* connection breaks or the client refuses a piece.
FlushArrives == \A n \in 1 .. MaxBytes :
                  flushed >= n ~> taken >= n \/ ~alive \/ ended \/ skipped
=============================================================================
