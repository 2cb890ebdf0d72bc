----------------------------- MODULE Connection -----------------------------
(***************************************************************************)
(* A ConnectionController (src/protocol/controller.go) and the connections *)
(* it has one after another: SendMessage and its channel, the writer       *)
(* goroutine, the reader that notices a loss and dials again, and the      *)
(* other end, which takes what arrives.  A message is its number.          *)
(***************************************************************************)
EXTENDS Integers, Sequences, Functions

CONSTANTS
  Kinds,             \* which of the three kinds of controllers to look at
  ChanCap,           \* the capacity of messageChannel: 64
  MaxAttempts,       \* maxReconnectAttempts: 100
  MaxMessages,       \* bound: calls of SendMessage
  MaxConns           \* bound: connections made

\* The code has them for connections that a server accepted, for the client's
\* connection to a game server, and for those to a matchmaking server or a
\* launcher, which alone have AttemptReconnect set.
ASSUME ConnectionAssumption ==
  /\ Kinds \subseteq {"accepted", "dialed", "reconnecting"}
  /\ ChanCap \in Nat \ {0} /\ MaxAttempts \in Nat \ {0}
  /\ MaxMessages \in Nat /\ MaxConns \in Nat

VARIABLES
  kind,
  messageChannel,
  Connected,
  server,       \* the number of the connection the controller holds; 0 is nil
  conn,         \* per connection made: "up", "broken" (not noticed yet), "closed"
  wire,         \* per connection: messages under way
  alive,        \* whether the writer goroutine lives
  writing,      \* the message it is about to write, as a sequence
  reader,       \* the goroutine in Connect or ReadServerResponse
  calls,        \* calls of SendMessage so far
  refused,      \* the messages it returned an error for
  received,     \* per connection: the messages the other end has read
  gone          \* history: messages in writes that failed or did not arrive

vars == <<kind, messageChannel, Connected, server, conn, wire, alive, writing, reader, calls,
          refused, received, gone>>

readerVars == <<Connected, server, conn, wire, reader, received, gone>>
writerVars == <<kind, messageChannel, alive, writing, calls, refused>>

Conns == DOMAIN conn

Init ==
  /\ kind \in Kinds
  /\ messageChannel = << >>
  /\ Connected = FALSE
  /\ server = 0
  /\ conn = << >> /\ wire = << >> /\ received = << >>
  /\ alive = TRUE
  /\ writing = << >>
  /\ reader = [pc |-> "start"]
  /\ calls = 0
  /\ refused = {} /\ gone = {}

(***************************************************************************)
(* SendMessage and the writer goroutine.                                   *)
(***************************************************************************)
\* Mutant: the caller is not told.
RefuseSilently(m) == refused

Refuse(m) == refused \cup {m}

\* Users of the controller send once it has been connected; while it is
\* reconnecting they go on.
SendMessage ==
  /\ server # 0
  /\ calls < MaxMessages
  /\ calls' = calls + 1
  /\ IF Len(messageChannel) < ChanCap
     THEN messageChannel' = Append(messageChannel, calls') /\ UNCHANGED refused
     ELSE refused' = Refuse(calls') /\ UNCHANGED messageChannel
  /\ UNCHANGED <<readerVars, kind, alive, writing>>

\* Mutant: the writer waits until it is connected.
MayTakeConnected == Connected

MayTake == TRUE

TakeMessage ==
  /\ alive
  /\ writing = << >>
  /\ MayTake
  /\ messageChannel # << >>
  /\ writing' = <<Head(messageChannel)>>
  /\ messageChannel' = Tail(messageChannel)
  /\ UNCHANGED <<readerVars, kind, alive, calls, refused>>

\* Mutant: the message is put back into the channel.
ChannelPutBack == messageChannel \o writing

ChannelAfterError == messageChannel

Arrive ==
  /\ conn[server] = "up"
  /\ wire' = [wire EXCEPT ![server] = @ \o writing]
  /\ UNCHANGED <<alive, messageChannel, gone>>

\* The system takes the bytes before it knows that they cannot arrive.
Vanish ==
  /\ conn[server] = "broken"
  /\ gone' = gone \cup Range(writing)
  /\ UNCHANGED <<alive, messageChannel, wire>>

\* The error ends the goroutine; StartWriter is called nowhere but in
\* CreateConnectionController.
WriteFails ==
  /\ conn[server] # "up"
  /\ gone' = gone \cup Range(writing)
  /\ alive' = FALSE
  /\ messageChannel' = ChannelAfterError
  /\ UNCHANGED wire

\* The writer does not look at Connected, but for a line it prints.
WriteMessage ==
  /\ writing # << >>
  /\ writing' = << >>
  /\ Arrive \/ Vanish \/ WriteFails
  /\ UNCHANGED <<kind, Connected, server, conn, reader, calls, refused, received>>

(***************************************************************************)
(* The other end and the network.                                          *)
(***************************************************************************)
Receive(n) ==
  /\ wire[n] # << >>
  /\ received' = [received EXCEPT ![n] = Append(@, Head(wire[n]))]
  /\ wire' = [wire EXCEPT ![n] = Tail(@)]
  /\ UNCHANGED <<Connected, server, conn, reader, gone, writerVars>>

Lose(n) ==
  /\ wire' = [wire EXCEPT ![n] = << >>]
  /\ gone' = gone \cup Range(wire[n])

\* The other end closes, or the network fails, with what is under way.
Break(n) ==
  /\ conn[n] = "up"
  /\ conn' = [conn EXCEPT ![n] = "broken"]
  /\ Lose(n)
  /\ UNCHANGED <<Connected, server, reader, received, writerVars>>

(***************************************************************************)
(* Connect, ReadServerResponse, SetConnection.                             *)
(***************************************************************************)
Dial(from) == [pc |-> "dial", from |-> from, attempts |-> 0]

Connect ==
  /\ kind # "accepted"
  /\ reader.pc \in {"start", "ended"}
  /\ reader' = Dial("Connect")
  /\ UNCHANGED <<Connected, server, conn, wire, received, gone, writerVars>>

NewConn ==
  /\ Len(conn) < MaxConns
  /\ conn' = Append(conn, "up")
  /\ wire' = Append(wire, << >>)
  /\ received' = Append(received, << >>)

SetConnection ==
  /\ kind = "accepted"
  /\ reader.pc = "start"
  /\ ~Connected
  /\ NewConn
  /\ server' = Len(conn')
  /\ Connected' = TRUE
  /\ reader' = [pc |-> "read"]
  /\ UNCHANGED <<gone, writerVars>>

\* connect: Connected is set before server.
DialSucceeds ==
  /\ reader.pc = "dial"
  /\ ~Connected
  /\ NewConn
  /\ Connected' = TRUE
  /\ reader' = [pc |-> "assign", conn |-> Len(conn')]
  /\ UNCHANGED <<server, gone, writerVars>>

AssignServer ==
  /\ reader.pc = "assign"
  /\ server' = reader.conn
  /\ reader' = [pc |-> "read"]
  /\ UNCHANGED <<Connected, conn, wire, received, gone, writerVars>>

\* After the last attempt Connect returns an error, and its caller may try
\* again; ReadServerResponse ignores it and reads the closed connection,
\* which makes it dial again.
DialFails ==
  /\ reader.pc = "dial"
  /\ reader' = IF reader.attempts + 1 < MaxAttempts
               THEN [reader EXCEPT !.attempts = @ + 1]
               ELSE [pc |-> IF reader.from = "Connect" THEN "ended" ELSE "read"]
  /\ UNCHANGED <<Connected, server, conn, wire, received, gone, writerVars>>

\* readLoop returns: the connection is broken or closed, or a handler failed.
ReadFails ==
  /\ reader.pc = "read"
  /\ reader' = [pc |-> "clear"]
  /\ UNCHANGED <<Connected, server, conn, wire, received, gone, writerVars>>

ClearConnected ==
  /\ reader.pc = "clear"
  /\ Connected' = FALSE
  /\ reader' = [pc |-> "close"]
  /\ UNCHANGED <<server, conn, wire, received, gone, writerVars>>

\* What was written before arrives: Close does not take it back.
CloseServer ==
  /\ reader.pc = "close"
  /\ conn' = [conn EXCEPT ![server] = "closed"]
  /\ reader' = IF kind = "reconnecting" THEN Dial("ReadServerResponse") ELSE [pc |-> "ended"]
  /\ UNCHANGED <<Connected, server, wire, received, gone, writerVars>>

Write == TakeMessage \/ WriteMessage
Lost == server # 0 /\ conn[server] # "up"
Reconnecting == AssignServer \/ ClearConnected \/ CloseServer

Next ==
  \/ SendMessage \/ Write \/ (\E n \in Conns : Receive(n) \/ Break(n))
  \/ Connect \/ SetConnection \/ DialSucceeds \/ DialFails \/ ReadFails \/ Reconnecting

Spec ==
  /\ Init /\ [][Next]_vars
  /\ WF_vars(Write) /\ WF_vars(Reconnecting) /\ WF_vars(Lost /\ ReadFails)
  /\ \A n \in 1 .. MaxConns : WF_vars(n \in Conns /\ Receive(n))

-----------------------------------------------------------------------------
(***************************************************************************)
(* Properties.                                                             *)
(***************************************************************************)
Statuses == {"up", "broken", "closed"}

Readers ==
  [pc : {"start", "read", "clear", "close", "ended"}]
    \cup [pc : {"dial"}, from : {"Connect", "ReadServerResponse"}, attempts : 0 .. MaxAttempts - 1]
    \cup [pc : {"assign"}, conn : Conns]

TypeOK ==
  /\ kind \in Kinds
  /\ messageChannel \in Seq(1 .. calls) /\ Len(messageChannel) <= ChanCap
  /\ writing \in Seq(1 .. calls) /\ Len(writing) <= 1
  /\ Connected \in BOOLEAN /\ alive \in BOOLEAN
  /\ conn \in Seq(Statuses) /\ Len(conn) <= MaxConns
  /\ server \in Conns \cup {0}
  /\ wire \in [Conns -> Seq(1 .. calls)] /\ received \in [Conns -> Seq(1 .. calls)]
  /\ reader \in Readers
  /\ calls \in 0 .. MaxMessages
  /\ refused \subseteq 1 .. calls /\ gone \subseteq 1 .. calls

Pending == writing \o messageChannel

\* What has arrived at the other end of connection n, and what is under way.
Line(n) == received[n] \o wire[n]

Increasing(s) == \A i, j \in DOMAIN s : i < j => s[i] < s[j]
Before(s, t) == \A i \in DOMAIN s, j \in DOMAIN t : s[i] < t[j]

\* In whatever state the connections are, the messages SendMessage took keep
\* their order, within a connection and from one to the next, and none is
\* written twice.
InOrder ==
  /\ Increasing(Pending)
  /\ \A n \in Conns : Increasing(Line(n)) /\ Before(Line(n), Pending)
  /\ \A m, n \in Conns : m < n => Before(Line(m), Line(n))

\* A message SendMessage took is received, under way, waiting, or was in a
\* write on a connection that was lost: the change of connections loses
\* nothing that waits in the channel.
NothingElseLost ==
  1 .. calls =
    (UNION {Range(Line(n)) : n \in Conns}) \cup Range(Pending) \cup refused \cup gone

\* The writer lets nothing lie in the channel for ever, as long as it lives.
ChannelDrains == <>[](~alive \/ messageChannel = << >>)

\* Once it is connected again for good ("Attempting to reconnect...",
\* controller.go:180) the controller sends what it is given.
SpeaksAgain ==
  <>[](reader.pc = "read" /\ conn[server] = "up") => []<>(messageChannel = << >>)
=============================================================================
