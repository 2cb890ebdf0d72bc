------------------------------ MODULE Framing ------------------------------
(***************************************************************************)
(* How readLoop (src/protocol/controller.go) cuts the stream of bytes of a *)
(* connection into messages, which the handlers decode.  The network       *)
(* delivers bytes in pieces of any size; bufio.Reader asks it for bytes    *)
(* only when its buffer is empty.                                          *)
(***************************************************************************)
EXTENDS Codec

CONSTANTS
  BufferSize,     \* the size of a bufio.Reader: 4096
  Streams         \* bound: the sequences of messages one end may write, with
                  \* whether the handlers of the other expect request ids

ASSUME FramingAssumption ==
  /\ BufferSize \in Nat \ {0}
  /\ \A s \in Streams :
       /\ s.wantsId \in BOOLEAN /\ s.messages \in Seq(Range(s.messages))
       /\ \A k \in DOMAIN s.messages :
            /\ Sendable(s.messages[k])
            /\ "id" \in DOMAIN s.messages[k] => (s.wantsId <=> s.messages[k].id # << >>)

VARIABLES
  stream,      \* the member of Streams that is being written
  written,     \* the messages that were handed to Write
  network,     \* bytes under way
  buffer,      \* bytes in the reader's buffer
  header,      \* the header read, << >> before
  body,        \* the bytes of the body read so far
  handled,     \* the messages the handlers were given, decoded
  connected,
  short        \* history: a header came in two pieces
frameVars == <<stream, written, network, buffer, header, body, handled, connected, short>>

FrameInit ==
  /\ stream \in Streams
  /\ written = << >> /\ network = << >> /\ buffer = << >>
  /\ header = << >> /\ body = << >> /\ handled = << >>
  /\ connected = TRUE /\ short = FALSE

\* The writer of the other end: messages go out whole and in order.
WriteStream ==
  /\ Len(written) < Len(stream.messages)
  /\ LET m == stream.messages[Len(written) + 1] IN
       /\ written' = Append(written, m)
       /\ \E data \in Encodings(m) : network' = network \o data
  /\ UNCHANGED <<stream, buffer, header, body, handled, connected, short>>

Smaller(a, b) == IF a < b THEN a ELSE b

\* The bytes a read of n bytes yields: what is buffered, if that is less.
Available(n) == Smaller(n, Len(buffer))

\* Mutant: the length in the header is taken to count the header.
MissingHeaderCounted ==
  IF header = << >> THEN HeaderLength ELSE WordAt(header, 2) + HeaderLength - Len(body)

\* What the reader still has to read of the header or of the body.
Missing == IF header = << >> THEN HeaderLength ELSE WordAt(header, 2) - Len(body)

\* An empty buffer is filled by one read of the connection.  (A read of more
\* than the buffer holds goes past it: the same bytes in other pieces.)
Fill ==
  /\ connected
  /\ buffer = << >>
  /\ Missing > 0
  /\ \E n \in 1 .. Smaller(BufferSize, Len(network)) :
       /\ buffer' = Part(network, 0, n)
       /\ network' = From(network, n)
  /\ UNCHANGED <<stream, written, header, body, handled, connected, short>>

\* reader.Read(header): fewer bytes than a header are an error, which closes
\* the connection.
ReadHeader ==
  /\ connected
  /\ header = << >>
  /\ buffer # << >>
  /\ LET n == Available(HeaderLength) IN
       /\ buffer' = From(buffer, n)
       /\ IF n = HeaderLength
          THEN header' = Part(buffer, 0, n) /\ UNCHANGED <<connected, short>>
          ELSE connected' = FALSE /\ short' = TRUE /\ UNCHANGED header
  /\ UNCHANGED <<stream, written, network, body, handled>>

BodyRead == Missing = 0

\* io.ReadFull.
ReadBody ==
  /\ connected
  /\ header # << >>
  /\ ~BodyRead
  /\ buffer # << >>
  /\ body' = body \o Part(buffer, 0, Available(Missing))
  /\ buffer' = From(buffer, Available(Missing))
  /\ UNCHANGED <<stream, written, network, header, handled, connected, short>>

\* The handler of the type; its error closes the connection.
Handle ==
  /\ connected
  /\ header # << >>
  /\ BodyRead
  /\ LET message == Decoded(header \o body, stream.wantsId) IN
       IF message # Fail THEN handled' = handled \o message /\ UNCHANGED connected
                         ELSE connected' = FALSE /\ UNCHANGED handled
  /\ header' = << >>
  /\ body' = << >>
  /\ UNCHANGED <<stream, written, network, buffer, short>>

Read == Fill \/ ReadHeader \/ ReadBody \/ Handle

FrameNext == WriteStream \/ Read

FrameSpec == FrameInit /\ [][FrameNext]_frameVars /\ WF_frameVars(Read)

-----------------------------------------------------------------------------
\* However the bytes arrive, the handlers see the messages that were written,
\* in order and whole, up to some point: each Decode function returns what its
\* Encode function was given, but for scores and the parameters of a game, which
\* may be negative and come out modulo 2^32.
HandledInOrder == IsPrefix(handled, [k \in DOMAIN written |-> Narrowed(written[k])])

\* A successful AuthResponse: its length counts the success byte of "Success +
\* playerID + nameLen + name" (mines_protocol.go:356), which is not written.
ByteShort(m) == m.kind = "AuthResponse" /\ m.Success

\* Everything written is handled at last, but for two reasons.  A header came
\* in two pieces, and the connection is given up.  Or a successful AuthResponse
\* waits for the byte it lacks; when that is the first one of the next message,
\* the connection is given up as well.  Nothing else is refused by its handler.
AllHandled ==
  <>[]( \/ Len(handled) = Len(written)
        \/ ~connected /\ short
        \/ ByteShort(Last(written))
        \/ ~connected /\ \E k \in 1 .. Len(written) - 1 : ByteShort(written[k]) )
=============================================================================
