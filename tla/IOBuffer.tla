------------------------------ MODULE IOBuffer ------------------------------
(***************************************************************************)
(* IOBuffer, ReadBuffer and WriteBuffer (mio/mio_buffer.cpp and .h): a ring*)
(* of pieces, a read and a write position, and per piece the size up to    *)
(* which it is in use.  One buffer is modelled in the role it has in a     *)
(* stream: a client's or a server's writebuf, filled by SendToServer or    *)
(* SendMessage with one packet at a time (the header is written last, into *)
(* the piece before the body, and that piece is truncated to it) and       *)
(* emptied by writev; or readbuf, filled by readv and emptied by the       *)
(* parsers.                                                                *)
(*                                                                         *)
(* The bytes are numbered modulo ByteIds in the order in which the peer    *)
(* must see them; a cell whose byte was consumed holds Stale.              *)
(***************************************************************************)
EXTENDS Integers, Sequences, SequencesExt

CONSTANTS MAX_BUFFER_PIECES, DEFAULT_BUFFER_SIZE, MAX_HEADER_SIZE,
          HeaderSizes,    \* lengths of a serialized header
          BodySizes,      \* lengths of a serialized message
          ByteIds         \* the numbers of bytes repeat after so many

ASSUME IOBufferAssumption ==
  /\ MAX_BUFFER_PIECES \in Nat \ {0, 1} /\ DEFAULT_BUFFER_SIZE \in Nat \ {0}
  /\ MAX_HEADER_SIZE \in 1 .. DEFAULT_BUFFER_SIZE
  /\ HeaderSizes \subseteq 1 .. MAX_HEADER_SIZE - 1 /\ BodySizes \subseteq Nat
  /\ ByteIds \in Nat /\ ByteIds > MAX_BUFFER_PIECES * DEFAULT_BUFFER_SIZE

VARIABLES role,       \* "client", "server" (its writebuf) or "recv" (a readbuf)
          buffer,     \* the cells
          size,       \* BufferPieces::size
          readpos, writepos,
          owed,       \* the bytes put in and not yet taken out, in order
          count,      \* the number of the next byte
          content_length,  \* of the last packet: announced and real
          pending,    \* ServerConnect::pending holds an unsent response
          closing,    \* the server's _close_when_empty: it has answered an error
          sound       \* no packet so far was larger than the free pieces, backed
                      \* up into a short piece or spoiled an unsent header, no
                      \* error header was cut off, no readv took all the room

bvars == <<role, buffer, size, readpos, writepos, owed, count, content_length,
           pending, closing, sound>>

Pieces == 0 .. MAX_BUFFER_PIECES - 1
Cells == Pieces \X (0 .. DEFAULT_BUFFER_SIZE - 1)
Stale == ByteIds
Positions == [idx : Pieces, pos : 0 .. DEFAULT_BUFFER_SIZE]

MOD_PIECES(x) == x % MAX_BUFFER_PIECES
Iterator(i, p) == [idx |-> i, pos |-> p]
NextPiece(it) == Iterator(MOD_PIECES(it.idx + 1), 0)

\* The pieces strictly between two indices, in ring order; all others when the
\* indices are equal.
Between(i, j) ==
  [k \in 1 .. (j - i - 1 + MAX_BUFFER_PIECES) % MAX_BUFFER_PIECES |-> MOD_PIECES(i + k)]

\* The cells of piece i from p up to, not including, q.
Stretch(i, p, q) == [k \in 1 .. q - p |-> <<i, p + k - 1>>]

BInit ==
  /\ role \in {"client", "server", "recv"}
  /\ buffer = [c \in Cells |-> Stale]
  /\ size = [i \in Pieces |-> DEFAULT_BUFFER_SIZE]
  /\ readpos = Iterator(0, 0) /\ writepos = Iterator(0, 0)
  /\ owed = <<>> /\ count = 0 /\ content_length = <<0, 0>>
  /\ pending = FALSE /\ closing = FALSE /\ sound = TRUE
-----------------------------------------------------------------------------
(* Iterator arithmetic, with the sizes sz.                                 *)

\* operator+=: across as many pieces as it takes.
Plus(sz, it, n) ==
  LET walk[k \in Nat] ==
        IF k = 0 THEN Iterator(it.idx, it.pos + n)
        ELSE LET w == walk[k - 1]
             IN IF w.pos >= sz[w.idx]
                THEN Iterator(MOD_PIECES(w.idx + 1), w.pos - sz[w.idx]) ELSE w
  IN walk[2 * MAX_BUFFER_PIECES]

\* operator-=: it adds the size of the piece it leaves, not of the one it
\* enters.
Minus(sz, it, n) ==
  LET walk[k \in Nat] ==
        IF k = 0 THEN Iterator(it.idx, it.pos - n)
        ELSE LET w == walk[k - 1]
             IN IF w.pos < 0
                THEN Iterator(MOD_PIECES(w.idx - 1 + MAX_BUFFER_PIECES), w.pos + sz[w.idx]) ELSE w
  IN walk[2 * MAX_BUFFER_PIECES]

Total(s) == FoldSeq(LAMBDA x, y : x + y, 0, s)

\* operator-: the bytes from it to end.
Difference(sz, end, it) ==
  IF end.idx = it.idx /\ it.pos <= end.pos THEN end.pos - it.pos
  ELSE sz[it.idx] - it.pos + end.pos +
         Total([k \in DOMAIN Between(it.idx, end.idx) |-> sz[Between(it.idx, end.idx)[k]]])

\* The cells the iovecs of GetSendBuffer and GetReciveBuffer cover.
Vectors(sz, from, to) ==
  IF from.idx = to.idx /\ from.pos < to.pos THEN Stretch(from.idx, from.pos, to.pos)
  ELSE Stretch(from.idx, from.pos, sz[from.idx])
         \o FlattenSeq([k \in DOMAIN Between(from.idx, to.idx) |->
                          Stretch(Between(from.idx, to.idx)[k], 0, sz[Between(from.idx, to.idx)[k]])])
         \o Stretch(to.idx, 0, to.pos)

isFull(wp) == wp.idx = readpos.idx /\ wp.pos + 1 = readpos.pos
isEmpty == readpos = writepos

\* A server writes its next packet when the last is sent, and none to a stream
\* that is closed: when an error was answered and the buffer is empty.  (A client
\* has one call in flight; it may write at any time here.)
MayWrite == \/ role = "client"
            \/ role = "server" /\ ~pending /\ (closing => ~isEmpty)

\* Cells s filled with the bytes whose numbers start at first.
Filled(b, s, first) ==
  [c \in Cells |-> IF \E k \in DOMAIN s : s[k] = c
                   THEN (first + (CHOOSE k \in DOMAIN s : s[k] = c) - 1) % ByteIds ELSE b[c]]

\* n bytes leave the buffer for good.
Consume(n) ==
  /\ owed' = SubSeq(owed, n + 1, Len(owed))
  /\ buffer' = [c \in Cells |->
                  IF \E k \in 1 .. n : Vectors(size, readpos, writepos)[k] = c
                  THEN Stale ELSE buffer[c]]
-----------------------------------------------------------------------------
(* writebuf.                                                               *)

\* Reset leaves every size as it is when the free part lies inside one piece.
ResetReturns == writepos.idx = readpos.idx /\ writepos.pos < readpos.pos

\* The pieces Reset gives their full size again; the one being read is one of
\* them, whatever is left to be read of it.
ResetSet == Range(Between(writepos.idx, readpos.idx)) \cup {readpos.idx}

SizesReset ==
  [i \in Pieces |-> IF ~ResetReturns /\ i \in ResetSet THEN DEFAULT_BUFFER_SIZE ELSE size[i]]

\* Reset changes the size of a piece of which bytes are still to be sent.
Spoils == ~isEmpty /\ SizesReset[readpos.idx] # size[readpos.idx] /\ readpos.idx # writepos.idx

\* Reserve: start a new piece when the rest of this one is too short.
MustMove(sz) == sz[writepos.idx] - writepos.pos < MAX_HEADER_SIZE

\* One call of WriteBuffer::Next at position wp: the cells it hands out and
\* the position after it; no cells when it returns false.
WriteNext(sz, wp) ==
  CASE isFull(wp) -> [ok |-> FALSE, cells |-> <<>>, wp |-> wp]
    [] ~isFull(wp) /\ readpos.idx = wp.idx /\ wp.pos < readpos.pos - 1 ->
         [ok |-> TRUE, cells |-> Stretch(wp.idx, wp.pos, readpos.pos - 1),
          wp |-> Iterator(wp.idx, readpos.pos - 1)]
    [] OTHER ->
         [ok |-> TRUE, cells |-> Stretch(wp.idx, wp.pos, sz[wp.idx]), wp |-> NextPiece(wp)]

\* SerializeToZeroCopyStream of n bytes (protobuf): Next once and then as often
\* as bytes are left, each handed-out stretch filled in order.
SerializeTo(sz, start, n) ==
  LET call[k \in Nat] ==
        IF k = 0 THEN [ok |-> TRUE, cells |-> <<>>, wp |-> start]
        ELSE LET c == call[k - 1]
                 x == WriteNext(sz, c.wp)
             IN IF ~c.ok \/ (k > 1 /\ Len(c.cells) >= n) THEN c
                ELSE [ok |-> x.ok, cells |-> c.cells \o x.cells, wp |-> x.wp]
  IN call[2 * MAX_BUFFER_PIECES]

BackUp_Forgotten(sz, wp, n) == wp

\* BackUp of what the last Next handed out and the message did not need.
BackUp(sz, wp, n) == Minus(sz, wp, n)

\* How many pieces the write position may enter before it meets readpos.
Ahead == LET d == (readpos.idx - writepos.idx + MAX_BUFFER_PIECES) % MAX_BUFFER_PIECES
         IN IF ResetReturns THEN 0 ELSE IF d = 0 THEN MAX_BUFFER_PIECES ELSE d

\* SerializeHeader(packetStart) truncates the piece to the end of the header.
HeaderEnd(sz, it, h) == [sz EXCEPT ![it.idx] = it.pos + h]

\* SendToServer and SendMessage: Reset, Reserve, AlignWritePos, the body, then
\* the header in front of it.
SendPacket(h, n) ==
  /\ sound /\ MayWrite /\ pending' = (role = "server")
  /\ ~ResetReturns                                      \* Reserve succeeds
  /\ LET move == MustMove(SizesReset)
         start == IF move THEN NextPiece(writepos) ELSE writepos
         sz == IF move THEN [SizesReset EXCEPT ![writepos.idx] = writepos.pos] ELSE SizesReset
         body == NextPiece(start)
         put == SerializeTo(sz, body, n)
         wp == BackUp(sz, put.wp, Len(put.cells) - n)
         entered == (IF move THEN 2 ELSE 1) + n \div DEFAULT_BUFFER_SIZE
         fits == entered < Ahead
         back == Len(put.cells) > n => sz[put.wp.idx] = DEFAULT_BUFFER_SIZE
     IN /\ put.ok /\ Len(put.cells) >= n
        /\ writepos' = wp
        /\ size' = HeaderEnd(sz, start, h)
        /\ buffer' = Filled(Filled(buffer, Stretch(start.idx, start.pos, start.pos + h), count),
                            SubSeq(put.cells, 1, n), count + h)
        /\ owed' = owed \o [k \in 1 .. h + n |-> (count + k - 1) % ByteIds]
        /\ count' = (count + h + n) % ByteIds
        /\ content_length' = <<Difference(sz, wp, body), n>>
        /\ sound' = (fits /\ back /\ ~Spoils)
  /\ UNCHANGED <<role, readpos, closing>>

\* The free part is too short: Next returns false and the write position is
\* rolled back; what Reset and Reserve did to the sizes stays.
SendPacketFails(n) ==
  /\ sound /\ MayWrite /\ pending' = (role = "server")
  /\ ~ResetReturns
  /\ LET move == MustMove(SizesReset)
         start == IF move THEN NextPiece(writepos) ELSE writepos
         sz == IF move THEN [SizesReset EXCEPT ![writepos.idx] = writepos.pos] ELSE SizesReset
     IN /\ ~SerializeTo(sz, NextPiece(start), n).ok
        /\ writepos' = start /\ size' = sz
        /\ sound' = ~Spoils
  /\ UNCHANGED <<role, buffer, readpos, owed, count, content_length, closing>>

\* ServerConnect::OnMessageError appends a packet that is only a header, with
\* neither Reset nor Reserve; a header that does not fit in the rest of the
\* piece is cut off and leaves its size alone.
SendError(h) ==
  /\ role = "server" /\ sound /\ (closing => ~isEmpty) /\ closing' = TRUE
  /\ LET left == size[writepos.idx] - writepos.pos
         fits == h < left /\ Ahead > 1
         text == IF h < left THEN h ELSE left
     IN /\ size' = IF h < left THEN HeaderEnd(size, writepos, h) ELSE size
        /\ buffer' = Filled(buffer, Stretch(writepos.idx, writepos.pos, writepos.pos + text), count)
        /\ sound' = fits
  /\ owed' = owed \o [k \in 1 .. h |-> (count + k - 1) % ByteIds]
  /\ count' = (count + h) % ByteIds
  /\ writepos' = NextPiece(writepos)
  /\ content_length' = <<0, 0>>
  /\ UNCHANGED <<role, readpos, pending>>

\* OnWriteable: GetSendBuffer, writev takes n bytes, MoveSendPtr(n).
Writev(n) ==
  /\ role \in {"client", "server"} /\ sound /\ ~isEmpty
  /\ n <= Len(Vectors(size, readpos, writepos))
  /\ Consume(n)
  /\ readpos' = Plus(size, readpos, n)
  /\ pending' = (pending /\ (closing \/ readpos' # writepos))
  /\ UNCHANGED <<role, size, writepos, count, content_length, closing, sound>>
-----------------------------------------------------------------------------
(* readbuf.                                                                *)

\* GetReciveBuffer.
Room == IF isFull(writepos) THEN <<>> ELSE Vectors(size, writepos, readpos)

\* OnReadable: readv puts n bytes, MoveRecivePtr(n).  When it fills all the
\* room it was given, the write position meets the read position and the
\* buffer looks empty.
Readv(n) ==
  /\ role = "recv" /\ sound
  /\ n <= Len(Room)
  /\ buffer' = Filled(buffer, SubSeq(Room, 1, n), count)
  /\ owed' = owed \o [k \in 1 .. n |-> (count + k - 1) % ByteIds]
  /\ count' = (count + n) % ByteIds
  /\ writepos' = Plus(size, writepos, n)
  /\ sound' = (n < Len(Room))
  /\ UNCHANGED <<role, size, readpos, content_length, pending, closing>>

\* ParserHeader takes one byte with ++begin.
TakeByte ==
  /\ role = "recv" /\ sound /\ ~isEmpty
  /\ Consume(1)
  /\ readpos' = IF readpos.pos + 1 < size[readpos.idx] THEN Iterator(readpos.idx, readpos.pos + 1)
                ELSE NextPiece(readpos)
  /\ UNCHANGED <<role, size, writepos, count, content_length, pending, closing, sound>>

\* ParseFromZeroCopyStream: ReadBuffer::Next, and BackUp of the k bytes the
\* message did not take.
TakeNext(k) ==
  /\ role = "recv" /\ sound /\ ~isEmpty
  /\ LET same == readpos.idx = writepos.idx /\ readpos.pos < writepos.pos
         n == (IF same THEN writepos.pos ELSE size[readpos.idx]) - readpos.pos
         after == IF same THEN Iterator(readpos.idx, writepos.pos) ELSE NextPiece(readpos)
     IN /\ k < n
        /\ Consume(n - k)
        /\ readpos' = Minus(size, after, k)
  /\ UNCHANGED <<role, size, writepos, count, content_length, pending, closing, sound>>

\* Skip, for a field the message does not know.
TakeSkip(n) ==
  /\ role = "recv" /\ sound
  /\ n <= Len(owed)
  /\ Consume(n)
  /\ readpos' = Plus(size, readpos, n)
  /\ UNCHANGED <<role, size, writepos, count, content_length, pending, closing, sound>>
-----------------------------------------------------------------------------
Counts == 1 .. MAX_BUFFER_PIECES * DEFAULT_BUFFER_SIZE

BNext ==
  \/ \E h \in HeaderSizes, n \in BodySizes : SendPacket(h, n)
  \/ \E n \in BodySizes : SendPacketFails(n)
  \/ \E h \in HeaderSizes : SendError(h)
  \/ \E n \in Counts : Writev(n) \/ Readv(n) \/ TakeSkip(n)
  \/ TakeByte
  \/ \E k \in 0 .. DEFAULT_BUFFER_SIZE : TakeNext(k)

BSpec == BInit /\ [][BNext]_bvars
-----------------------------------------------------------------------------
(* Properties.                                                             *)

\* The types of IOBuffer's state; no size exceeds a piece and no position leaves
\* one.
BTypeOK ==
  /\ role \in {"client", "server", "recv"}
  /\ buffer \in [Cells -> 0 .. ByteIds]
  /\ size \in [Pieces -> 0 .. DEFAULT_BUFFER_SIZE]
  /\ readpos \in Positions /\ writepos \in Positions
  /\ count \in 0 .. ByteIds - 1

\* What GetSendBuffer hands to writev, and what the parsers find between
\* readpos and writepos, is exactly what was put in and not yet taken out, in
\* order: a header before its body, no byte of a piece beyond the size it was
\* truncated to, across any partial writev or readv.  GetBufferUsed and the
\* sizes the streams compute with operator- agree with it.
BufferIsFifo ==
  sound =>
    LET out == IF isEmpty THEN <<>> ELSE Vectors(size, readpos, writepos)
    IN /\ [k \in DOMAIN out |-> buffer[out[k]]] = owed
       /\ Difference(size, writepos, readpos) = Len(owed)

\* The Content-Length SendToServer and SendMessage announce is the length of
\* the body they serialized, although BackUp adds the size of the wrong piece.
ContentLengthIsBody == sound => content_length[1] = content_length[2]

\* A stream's buffer delivers what was put in, and announces it truly.
BufferDelivers == BTypeOK /\ BufferIsFifo /\ ContentLengthIsBody
=============================================================================
