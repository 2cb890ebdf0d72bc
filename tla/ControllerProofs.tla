-------------------------- MODULE ControllerProofs --------------------------
(***************************************************************************)
(* The safety properties of modules Connection and Framing, which model    *)
(* the two sides of src/protocol/controller.go: for any number of messages *)
(* and connections and a channel of any capacity; and for bytes of any     *)
(* size and messages of any length, cut by the network in any way.         *)
(* The parts: Connection; recursion and numbers; fields of a message; a    *)
(* pair of lemmas per Encode and Decode function; the stream; its reader.  *)
(***************************************************************************)
EXTENDS Connection, Framing, SequenceTheorems, FiniteSetTheorems, FunctionTheorems,
        WellFoundedInduction, TLAPS

-----------------------------------------------------------------------------
(***************************************************************************)
(* Types.                                                                  *)
(***************************************************************************)
\* What was handed in before a step is among what was handed in after it.
LEMMA MessagesGrow ==
  ASSUME calls \in Nat, calls' \in Nat, calls <= calls'
  PROVE  \A s \in Seq(1 .. calls) : s \in Seq((1 .. calls)')
<1> SUFFICES ASSUME NEW s \in Seq(1 .. calls) PROVE s \in Seq((1 .. calls)')
  OBVIOUS
<1>1. 1 .. calls \subseteq (1 .. calls)'
  OBVIOUS
<1>2. QED
  BY <1>1, SeqMonotonic

LEMMA InitTyped == Init => TypeOK
<1> SUFFICES ASSUME Init PROVE TypeOK
  OBVIOUS
<1> USE ConnectionAssumption DEF Init
<1>1. conn \in Seq(Statuses) /\ Len(conn) = 0 /\ Conns = {}
  BY DEF Conns
<1>2. << >> \in Seq(Seq(1 .. calls)) /\ << >> \in [{} -> Seq(1 .. calls)]
  OBVIOUS
<1>3. /\ messageChannel \in Seq(1 .. calls) /\ writing \in Seq(1 .. calls)
      /\ Len(messageChannel) = 0 /\ Len(writing) = 0
  OBVIOUS
<1>4. calls \in 0 .. MaxMessages /\ reader \in Readers
  BY DEF Readers
<1>5. QED
  <2>1. /\ Len(messageChannel) <= ChanCap /\ Len(writing) <= 1 /\ Len(conn) <= MaxConns
    <3> HIDE DEF Init
    <3>1. QED
      BY <1>1, <1>3
  <2>2. wire \in [Conns -> Seq(1 .. calls)] /\ received \in [Conns -> Seq(1 .. calls)]
    BY <1>1, <1>2
  <2>3. refused \subseteq 1 .. calls /\ gone \subseteq 1 .. calls
    OBVIOUS
  <2>4. QED
    BY <1>1, <1>3, <1>4, <2>1, <2>2, <2>3 DEF TypeOK

LEMMA SendTyped == TypeOK /\ SendMessage => TypeOK'
<1> SUFFICES ASSUME TypeOK, SendMessage PROVE TypeOK'
  OBVIOUS
<1> USE ConnectionAssumption DEF TypeOK, SendMessage, readerVars
<1>1. calls \in Nat /\ calls' = calls + 1 /\ calls' \in 0 .. MaxMessages
  OBVIOUS
<1>2. \A s \in Seq(1 .. calls) : s \in Seq((1 .. calls)')
  BY <1>1, MessagesGrow
<1>3. Conns' = Conns /\ Readers' = Readers
  BY DEF Conns, Readers
<1>4. writing' \in Seq((1 .. calls)') /\ Len(writing') <= 1
  BY <1>2
<1>5. wire' \in [Conns' -> Seq((1 .. calls)')] /\ received' \in [Conns' -> Seq((1 .. calls)')]
  BY <1>2, <1>3
<1>6. /\ messageChannel' \in Seq((1 .. calls)') /\ Len(messageChannel') <= ChanCap
      /\ refused' \subseteq (1 .. calls)'
  <2>1. CASE Len(messageChannel) < ChanCap
    <3>1. messageChannel \in Seq((1 .. calls)') /\ calls' \in (1 .. calls)'
      BY <1>1, <1>2
    <3>2. /\ Append(messageChannel, calls') \in Seq((1 .. calls)')
          /\ Len(Append(messageChannel, calls')) = Len(messageChannel) + 1
      BY <3>1, AppendProperties
    <3>3. Len(messageChannel) \in Nat
      OBVIOUS
    <3>4. QED
      <4>1. messageChannel' = Append(messageChannel, calls') /\ refused' = refused
        BY <2>1
      <4>2. Len(messageChannel') <= ChanCap
        BY <2>1, <3>2, <3>3, <4>1
      <4>3. refused' \subseteq (1 .. calls)'
        BY <1>1, <4>1
      <4>4. QED
        BY <3>2, <4>1, <4>2, <4>3
  <2>2. CASE ~(Len(messageChannel) < ChanCap)
    <3>1. messageChannel' = messageChannel /\ refused' = refused \cup {calls'}
      BY <2>2 DEF Refuse
    <3>2. QED
      BY <3>1, <1>1, <1>2
  <2>3. QED
    BY <2>1, <2>2
<1>7. gone' \subseteq (1 .. calls)'
  BY <1>1
<1>8. QED
  BY <1>1, <1>3, <1>4, <1>5, <1>6, <1>7

LEMMA WriterTyped == TypeOK /\ (TakeMessage \/ WriteMessage) => TypeOK'
<1> SUFFICES ASSUME TypeOK, TakeMessage \/ WriteMessage PROVE TypeOK'
  OBVIOUS
<1> USE ConnectionAssumption DEF TypeOK, readerVars
<1>1. CASE TakeMessage
  <2>1. Head(messageChannel) \in 1 .. calls
    BY <1>1 DEF TakeMessage
  <2>2. <<Head(messageChannel)>> \in Seq(1 .. calls) /\ Len(<<Head(messageChannel)>>) <= 1
    BY <2>1
  <2>3. Tail(messageChannel) \in Seq(1 .. calls) /\ Len(Tail(messageChannel)) <= ChanCap
    BY <1>1, HeadTailProperties DEF TakeMessage
  <2>4. QED
    BY <1>1, <2>2, <2>3 DEF TakeMessage, Conns, Readers
<1>2. CASE WriteMessage
  <2>1. Range(writing) \subseteq 1 .. calls
    BY RangeOfSeq
  <2>2. /\ wire' \in [Conns -> Seq(1 .. calls)] /\ gone' \subseteq 1 .. calls
        /\ alive' \in BOOLEAN /\ messageChannel' = messageChannel
    <3>1. CASE Arrive
      <4>1. \A s \in Seq(1 .. calls) : s \o writing \in Seq(1 .. calls)
        BY ConcatProperties
      <4>2. QED
        BY <1>2, <3>1, <4>1 DEF Arrive
    <3>2. CASE Vanish
      BY <1>2, <2>1, <3>2 DEF Vanish
    <3>3. CASE WriteFails
      BY <1>2, <2>1, <3>3 DEF WriteFails, ChannelAfterError
    <3>4. QED
      BY <1>2, <3>1, <3>2, <3>3 DEF WriteMessage
  <2>3. QED
    BY <1>2, <2>2 DEF WriteMessage, Conns, Readers
<1>3. QED
  BY <1>1, <1>2

LEMMA NetworkTyped ==
  ASSUME TypeOK, NEW n \in Conns, Receive(n) \/ Break(n)
  PROVE  TypeOK'
<1> USE ConnectionAssumption DEF TypeOK, writerVars
<1>1. CASE Receive(n)
  <2>1. Head(wire[n]) \in 1 .. calls /\ Tail(wire[n]) \in Seq(1 .. calls)
    BY <1>1, HeadTailProperties DEF Receive
  <2>2. Append(received[n], Head(wire[n])) \in Seq(1 .. calls)
    BY <2>1
  <2>3. QED
    BY <1>1, <2>1, <2>2 DEF Receive, Conns, Readers
<1>2. CASE Break(n)
  <2>1. Range(wire[n]) \subseteq 1 .. calls
    BY RangeOfSeq
  <2>2. conn' \in Seq(Statuses) /\ Len(conn') = Len(conn) /\ DOMAIN conn' = DOMAIN conn
    BY <1>2 DEF Break, Conns, Statuses
  <2>3. << >> \in Seq(1 .. calls)
    OBVIOUS
  <2>4. wire' \in [Conns -> Seq(1 .. calls)] /\ gone' \subseteq 1 .. calls
    BY <1>2, <2>1, <2>3 DEF Break, Lose
  <2>5. QED
    BY <1>2, <2>2, <2>4 DEF Break, Conns, Readers
<1>3. QED
  BY <1>1, <1>2

\* A new connection has the next number, and nothing is on it.
LEMMA NewConnTyped ==
  ASSUME TypeOK, NewConn
  PROVE  /\ conn' \in Seq(Statuses) /\ Len(conn') = Len(conn) + 1 /\ Len(conn') <= MaxConns
         /\ Conns = 1 .. Len(conn) /\ Conns' = 1 .. Len(conn) + 1
         /\ wire' \in [Conns' -> Seq(1 .. calls)] /\ received' \in [Conns' -> Seq(1 .. calls)]
         /\ \A n \in Conns : wire'[n] = wire[n] /\ received'[n] = received[n]
         /\ wire'[Len(conn')] = << >> /\ received'[Len(conn')] = << >>
<1> USE ConnectionAssumption DEF TypeOK, NewConn, Conns, Statuses
<1>1. /\ Conns = 1 .. Len(conn) /\ Len(conn) \in Nat
      /\ conn' \in Seq(Statuses) /\ Len(conn') = Len(conn) + 1 /\ Len(conn') <= MaxConns
      /\ Conns' = 1 .. Len(conn) + 1
  OBVIOUS
<1>2. << >> \in Seq(1 .. calls)
  OBVIOUS
<1>3. \A f \in [1 .. Len(conn) -> Seq(1 .. calls)] :
        f \in Seq(Seq(1 .. calls)) /\ Len(f) = Len(conn)
  <2>1. Len(conn) \in Nat
    BY <1>1
  <2>2. SUFFICES ASSUME NEW f \in [1 .. Len(conn) -> Seq(1 .. calls)]
                 PROVE  f \in Seq(Seq(1 .. calls)) /\ Len(f) = Len(conn)
    OBVIOUS
  <2>3. f \in Seq(Seq(1 .. calls))
    <3>1. Seq(Seq(1 .. calls)) = UNION {[1 .. n -> Seq(1 .. calls)] : n \in Nat}
      BY SeqDef
    <3>2. QED
      BY <2>1, <3>1, Zenon
  <2>4. Len(f) = Len(conn)
    BY <2>1, <2>3, LenProperties
  <2>5. QED
    BY <2>3, <2>4
<1>4. /\ wire' \in Seq(Seq(1 .. calls)) /\ Len(wire') = Len(conn) + 1
      /\ \A n \in 1 .. Len(conn) : wire'[n] = wire[n]
      /\ wire'[Len(conn) + 1] = << >>
  BY <1>2, <1>3, AppendProperties
<1>5. /\ received' \in Seq(Seq(1 .. calls)) /\ Len(received') = Len(conn) + 1
      /\ \A n \in 1 .. Len(conn) : received'[n] = received[n]
      /\ received'[Len(conn) + 1] = << >>
  BY <1>2, <1>3, AppendProperties
<1>6. wire' \in [Conns' -> Seq(1 .. calls)] /\ received' \in [Conns' -> Seq(1 .. calls)]
  BY <1>1, <1>4, <1>5, LenProperties
<1>7. QED
  BY <1>1, <1>4, <1>5, <1>6

LEMMA ReaderTyped ==
  ASSUME TypeOK,
         \/ Connect \/ SetConnection \/ DialSucceeds \/ DialFails \/ ReadFails \/ Reconnecting
  PROVE  TypeOK'
<1> USE ConnectionAssumption DEF TypeOK, writerVars
<1>1. CASE Connect
  BY <1>1 DEF Connect, Dial, Conns, Readers
<1>2. CASE SetConnection
  <2>1. reader' \in Readers' /\ server' \in Conns'
    BY <1>2, NewConnTyped DEF SetConnection, Readers
  <2>2. QED
    BY <1>2, <2>1, NewConnTyped DEF SetConnection
<1>3. CASE DialSucceeds
  <2>1. Len(conn') \in Conns' /\ server' \in Conns' \cup {0}
    BY <1>3, NewConnTyped DEF DialSucceeds
  <2>2. reader' \in Readers'
    BY <1>3, <2>1 DEF DialSucceeds, Readers
  <2>3. QED
    BY <1>3, <2>1, <2>2, NewConnTyped DEF DialSucceeds
<1>4. CASE DialFails
  <2>1. PICK f \in {"Connect", "ReadServerResponse"}, a \in 0 .. MaxAttempts - 1 :
          reader = [pc |-> "dial", from |-> f, attempts |-> a]
    BY <1>4 DEF DialFails, Readers
  <2>2. reader' \in Readers
    <3>1. CASE a + 1 < MaxAttempts
      <4>1. reader' = [pc |-> "dial", from |-> f, attempts |-> a + 1]
        BY <1>4, <2>1, <3>1 DEF DialFails
      <4>2. a + 1 \in 0 .. MaxAttempts - 1
        BY <3>1
      <4>3. QED
        BY <4>1, <4>2 DEF Readers
    <3>2. CASE ~(a + 1 < MaxAttempts)
      BY <1>4, <2>1, <3>2 DEF DialFails, Readers
    <3>3. QED
      BY <3>1, <3>2
  <2>3. QED
    BY <1>4, <2>2 DEF DialFails, Conns, Readers
<1>5. CASE ReadFails
  BY <1>5 DEF ReadFails, Conns, Readers
<1>6. CASE AssignServer
  <2>1. reader.conn \in Conns
    BY <1>6 DEF AssignServer, Readers
  <2>2. QED
    BY <1>6, <2>1 DEF AssignServer, Conns, Readers
<1>7. CASE ClearConnected
  BY <1>7 DEF ClearConnected, Conns, Readers
<1>8. CASE CloseServer
  <2>1. conn' \in Seq(Statuses) /\ Len(conn') = Len(conn) /\ DOMAIN conn' = DOMAIN conn
    <3>1. CASE server = 0
      <4>1. conn' = conn
        BY <1>8, <3>1 DEF CloseServer, Conns
      <4>2. QED
        BY <4>1
    <3>2. CASE server \in Conns
      <4>1. conn' = [conn EXCEPT ![server] = "closed"] /\ server \in 1 .. Len(conn)
        BY <1>8, <3>2 DEF CloseServer, Conns
      <4>2. conn' \in Seq(Statuses) /\ Len(conn') = Len(conn)
        BY <4>1, ExceptSeq DEF Statuses
      <4>3. QED
        BY <4>2
    <3>3. QED
      BY <3>1, <3>2
  <2>2. reader' \in Readers
    BY <1>8 DEF CloseServer, Readers, Dial
  <2>3. QED
    BY <1>8, <2>1, <2>2 DEF CloseServer, Conns, Readers
<1>9. QED
  BY <1>1, <1>2, <1>3, <1>4, <1>5, <1>6, <1>7, <1>8 DEF Reconnecting

LEMMA NextTyped == TypeOK /\ [Next]_vars => TypeOK'
<1> SUFFICES ASSUME TypeOK, [Next]_vars PROVE TypeOK'
  OBVIOUS
<1>1. CASE UNCHANGED vars
  BY <1>1 DEF vars, TypeOK, Conns, Readers
<1>2. CASE Next
  BY <1>2, SendTyped, WriterTyped, NetworkTyped, ReaderTyped DEF Next, Write
<1>3. QED
  BY <1>1, <1>2

\* The connections, the writer and the channel keep their types, and every
\* message anywhere is one that SendMessage was called with.
THEOREM TypeCorrect == Spec => []TypeOK
  BY InitTyped, NextTyped, PTL DEF Spec

-----------------------------------------------------------------------------
(***************************************************************************)
(* Sequences in order.                                                     *)
(***************************************************************************)
LEMMA OrderOfEmpty == Increasing(<< >>) /\ \A s : Before(s, << >>) /\ Before(<< >>, s)
  BY DEF Increasing, Before

LEMMA OrderOfOne ==
  ASSUME NEW e \in Nat
  PROVE  Increasing(<<e>>)
  BY DEF Increasing

\* A concatenation increases when its parts do and are in order.
LEMMA OrderOfConcat ==
  ASSUME NEW s \in Seq(Nat), NEW t \in Seq(Nat)
  PROVE  Increasing(s \o t) <=> Increasing(s) /\ Increasing(t) /\ Before(s, t)
<1> DEFINE c == s \o t
<1>1. /\ c \in Seq(Nat) /\ Len(c) = Len(s) + Len(t) /\ Len(s) \in Nat /\ Len(t) \in Nat
      /\ DOMAIN c = 1 .. Len(s) + Len(t) /\ DOMAIN s = 1 .. Len(s) /\ DOMAIN t = 1 .. Len(t)
  BY ConcatProperties
<1>2. /\ \A i \in DOMAIN s : i \in DOMAIN c /\ c[i] = s[i] /\ s[i] \in Nat
      /\ \A i \in DOMAIN t : Len(s) + i \in DOMAIN c /\ c[Len(s) + i] = t[i] /\ t[i] \in Nat
  BY <1>1, ConcatProperties
<1>3. \A i \in DOMAIN c : \/ i \in DOMAIN s /\ c[i] = s[i]
                          \/ i - Len(s) \in DOMAIN t /\ c[i] = t[i - Len(s)] /\ i > Len(s)
  BY <1>1, ConcatProperties
<1> HIDE DEF c
<1>4. ASSUME Increasing(c) PROVE Increasing(s) /\ Increasing(t) /\ Before(s, t)
  <2>1. Increasing(s)
    BY <1>1, <1>2, <1>4 DEF Increasing
  <2>2. Increasing(t)
    <3> SUFFICES ASSUME NEW i \in DOMAIN t, NEW j \in DOMAIN t, i < j PROVE t[i] < t[j]
      BY DEF Increasing
    <3>1. Len(s) + i < Len(s) + j
      BY <1>1
    <3>2. QED
      BY <1>2, <1>4, <3>1 DEF Increasing
  <2>3. Before(s, t)
    <3> SUFFICES ASSUME NEW i \in DOMAIN s, NEW j \in DOMAIN t PROVE s[i] < t[j]
      BY DEF Before
    <3>1. i < Len(s) + j
      BY <1>1
    <3>2. QED
      BY <1>2, <1>4, <3>1 DEF Increasing
  <2>4. QED
    BY <2>1, <2>2, <2>3
<1>5. ASSUME Increasing(s), Increasing(t), Before(s, t) PROVE Increasing(c)
  <2> SUFFICES ASSUME NEW i \in DOMAIN c, NEW j \in DOMAIN c, i < j PROVE c[i] < c[j]
    BY DEF Increasing
  <2>1. CASE i \in DOMAIN s /\ c[i] = s[i]
    <3>1. CASE j \in DOMAIN s /\ c[j] = s[j]
      BY <1>5, <2>1, <3>1 DEF Increasing
    <3>2. CASE j - Len(s) \in DOMAIN t /\ c[j] = t[j - Len(s)]
      BY <1>5, <2>1, <3>2 DEF Before
    <3>3. QED
      BY <1>3, <3>1, <3>2
  <2>2. CASE i - Len(s) \in DOMAIN t /\ c[i] = t[i - Len(s)] /\ i > Len(s)
    <3>1. j - Len(s) \in DOMAIN t /\ c[j] = t[j - Len(s)]
      BY <1>1, <1>3, <2>2
    <3>2. i - Len(s) < j - Len(s)
      BY <1>1
    <3>3. QED
      BY <1>5, <2>2, <3>1, <3>2 DEF Increasing
  <2>3. QED
    BY <1>3, <2>1, <2>2
<1>6. QED
  BY <1>4, <1>5 DEF c

LEMMA BeforeConcat ==
  ASSUME NEW s \in Seq(Nat), NEW t \in Seq(Nat), NEW u \in Seq(Nat)
  PROVE  /\ Before(u, s \o t) <=> Before(u, s) /\ Before(u, t)
         /\ Before(s \o t, u) <=> Before(s, u) /\ Before(t, u)
<1> DEFINE c == s \o t
<1>1. /\ c \in Seq(Nat) /\ Len(c) = Len(s) + Len(t) /\ Len(s) \in Nat /\ Len(t) \in Nat
      /\ DOMAIN c = 1 .. Len(s) + Len(t) /\ DOMAIN s = 1 .. Len(s) /\ DOMAIN t = 1 .. Len(t)
  BY ConcatProperties
<1>2. /\ \A i \in DOMAIN s : i \in DOMAIN c /\ c[i] = s[i]
      /\ \A i \in DOMAIN t : Len(s) + i \in DOMAIN c /\ c[Len(s) + i] = t[i]
  BY <1>1, ConcatProperties
<1>3. \A i \in DOMAIN c : \/ i \in DOMAIN s /\ c[i] = s[i]
                          \/ i - Len(s) \in DOMAIN t /\ c[i] = t[i - Len(s)]
  BY <1>1, ConcatProperties
<1> HIDE DEF c
<1>4. ASSUME Before(u, c) PROVE Before(u, s) /\ Before(u, t)
  BY <1>2, <1>4 DEF Before
<1>5. ASSUME Before(c, u) PROVE Before(s, u) /\ Before(t, u)
  BY <1>2, <1>5 DEF Before
<1>6. ASSUME Before(u, s), Before(u, t) PROVE Before(u, c)
  BY <1>3, <1>6 DEF Before
<1>7. ASSUME Before(s, u), Before(t, u) PROVE Before(c, u)
  BY <1>3, <1>7 DEF Before
<1>8. QED
  BY <1>4, <1>5, <1>6, <1>7 DEF c

-----------------------------------------------------------------------------
(***************************************************************************)
(* Where messages may be: nothing was ever written to a connection the     *)
(* controller does not hold yet, and nothing was sent before it held one.  *)
(***************************************************************************)
Placed ==
  /\ reader.pc = "assign" => reader.conn = Len(conn)
  /\ \A n \in Conns : n > server => received[n] = << >> /\ wire[n] = << >>
  /\ server = 0 => calls = 0 /\ messageChannel = << >> /\ writing = << >>

LEMMA InitPlaced == Init => Placed
  BY DEF Init, Placed, Conns

LEMMA NextPlaced == TypeOK /\ Placed /\ [Next]_vars => Placed'
<1> SUFFICES ASSUME TypeOK, Placed, [Next]_vars PROVE Placed'
  OBVIOUS
<1> USE DEF Placed, readerVars, writerVars
<1>0. Len(conn) \in Nat /\ Conns = 1 .. Len(conn) /\ server \in 0 .. Len(conn) /\ server \in Nat
  BY DEF TypeOK, Conns
<1>1. CASE SendMessage
  BY <1>1 DEF SendMessage, Conns
<1>2. CASE TakeMessage
  BY <1>2 DEF TakeMessage, Conns
<1>3. CASE WriteMessage
  <2>1. server # 0
    BY <1>3 DEF WriteMessage
  <2>2. \A n \in Conns : n > server => wire'[n] = wire[n]
    BY <1>0, <1>3 DEF WriteMessage, Arrive, Vanish, WriteFails, TypeOK
  <2>3. QED
    BY <1>3, <2>1, <2>2 DEF WriteMessage, Conns
<1>4. ASSUME NEW n \in Conns, Receive(n) PROVE Placed'
  BY <1>4 DEF Receive, Conns, TypeOK
<1>5. ASSUME NEW n \in Conns, Break(n) PROVE Placed'
  <2>1. Len(conn') = Len(conn) /\ Conns' = Conns
    BY <1>5 DEF Break, Conns, TypeOK
  <2>2. \A k \in Conns : wire'[k] \in {wire[k], << >>}
    BY <1>5 DEF Break, Lose, TypeOK
  <2>3. QED
    BY <1>5, <2>1, <2>2 DEF Break
<1>6. CASE Connect
  BY <1>6 DEF Connect, Dial, Conns
<1>7. CASE SetConnection \/ DialSucceeds
  <2>0. /\ Len(conn') = Len(conn) + 1 /\ Conns' = 1 .. Len(conn) + 1
        /\ \A n \in Conns : wire'[n] = wire[n] /\ received'[n] = received[n]
        /\ wire'[Len(conn')] = << >> /\ received'[Len(conn')] = << >>
    BY <1>7, NewConnTyped DEF SetConnection, DialSucceeds
  <2>1. CASE SetConnection
    BY <1>0, <2>0, <2>1 DEF SetConnection
  <2>2. CASE DialSucceeds
    <3>1. server' = server /\ reader'.conn = Len(conn')
      BY <2>2 DEF DialSucceeds
    <3>2. \A n \in Conns' : n > server => received'[n] = << >> /\ wire'[n] = << >>
      BY <1>0, <2>0
    <3>3. QED
      BY <2>2, <3>1, <3>2 DEF DialSucceeds
  <2>3. QED
    BY <1>7, <2>1, <2>2
<1>8. CASE DialFails
  <2>1. reader'.pc # "assign"
    <3>1. PICK f \in {"Connect", "ReadServerResponse"}, a \in 0 .. MaxAttempts - 1 :
            reader = [pc |-> "dial", from |-> f, attempts |-> a]
      BY <1>8 DEF DialFails, Readers, TypeOK
    <3>2. QED
      BY <1>8, <3>1 DEF DialFails
  <2>2. QED
    BY <1>8, <2>1 DEF DialFails, Conns
<1>9. CASE ReadFails
  BY <1>9 DEF ReadFails, Conns
<1>10. CASE AssignServer
  <2>1. server' = Len(conn) /\ Conns' = Conns /\ Len(conn) # 0
    BY <1>10 DEF AssignServer, Conns, TypeOK, Readers
  <2>2. QED
    BY <1>0, <1>10, <2>1 DEF AssignServer
<1>11. CASE ClearConnected
  BY <1>11 DEF ClearConnected, Conns
<1>12. CASE CloseServer
  <2>1. Len(conn') = Len(conn) /\ Conns' = Conns
    BY <1>12 DEF CloseServer, Conns, TypeOK
  <2>2. reader'.pc # "assign"
    BY <1>12 DEF CloseServer, Dial
  <2>3. QED
    BY <1>12, <2>1, <2>2 DEF CloseServer
<1>13. CASE UNCHANGED vars
  BY <1>13 DEF vars, Conns
<1>14. QED
  BY <1>1, <1>2, <1>3, <1>4, <1>5, <1>6, <1>7, <1>8, <1>9, <1>10, <1>11, <1>12, <1>13
     DEF Next, Write, Reconnecting

-----------------------------------------------------------------------------
(***************************************************************************)
(* What a step does to what is under way and to what waits.                *)
(***************************************************************************)
SameLines == Conns' = Conns /\ \A n \in Conns : Line(n)' = Line(n)

Keeps == SameLines /\ Pending' = Pending /\ UNCHANGED <<calls, refused, gone>>

Accepts ==
  /\ SameLines
  /\ calls' = calls + 1
  /\ \/ Pending' = Pending \o <<calls + 1>> /\ UNCHANGED refused
     \/ Pending' = Pending /\ refused' = refused \cup {calls + 1}
  /\ UNCHANGED gone

Delivers ==
  /\ server \in Conns
  /\ Conns' = Conns
  /\ Line(server)' = Line(server) \o writing
  /\ \A n \in Conns \ {server} : Line(n)' = Line(n)
  /\ Pending' = messageChannel
  /\ UNCHANGED <<server, calls, refused, gone>>

LosesWrite ==
  /\ SameLines
  /\ Pending' = messageChannel
  /\ gone' = gone \cup Range(writing)
  /\ UNCHANGED <<calls, refused>>

LosesWire(n) ==
  /\ Conns' = Conns
  /\ Line(n)' = received[n]
  /\ \A k \in Conns \ {n} : Line(k)' = Line(k)
  /\ Pending' = Pending
  /\ gone' = gone \cup Range(wire[n])
  /\ UNCHANGED <<calls, refused>>

Opens ==
  /\ Conns = 1 .. Len(conn) /\ Conns' = 1 .. Len(conn) + 1
  /\ \A n \in Conns : Line(n)' = Line(n)
  /\ Len(conn) \in Nat /\ \A n \in Conns' \ Conns : Line(n)' = << >>
  /\ Pending' = Pending
  /\ UNCHANGED <<calls, refused, gone>>

LEMMA LinesTyped ==
  ASSUME TypeOK
  PROVE  /\ \A n \in Conns : Line(n) \in Seq(Nat) /\ received[n] \in Seq(Nat) /\ wire[n] \in Seq(Nat)
         /\ Pending \in Seq(Nat) /\ writing \in Seq(Nat) /\ messageChannel \in Seq(Nat)
         /\ calls \in Nat
<1>1. calls \in Nat
  BY ConnectionAssumption DEF TypeOK
<1>2. \A s \in Seq(1 .. calls) : s \in Seq(Nat)
  <2> SUFFICES ASSUME NEW s \in Seq(1 .. calls) PROVE s \in Seq(Nat)
    OBVIOUS
  <2>1. 1 .. calls \subseteq Nat
    BY <1>1
  <2>2. QED
    BY <2>1, SeqMonotonic
<1>3. writing \in Seq(Nat) /\ messageChannel \in Seq(Nat)
  BY <1>2 DEF TypeOK
<1>4. \A n \in Conns : received[n] \in Seq(Nat) /\ wire[n] \in Seq(Nat)
  BY <1>2 DEF TypeOK
<1>5. QED
  BY <1>1, <1>3, <1>4, ConcatProperties DEF Line, Pending

LEMMA Regroup ==
  ASSUME NEW s \in Seq(Nat), NEW t \in Seq(Nat), NEW u \in Seq(Nat)
  PROVE  (s \o t) \o u = s \o (t \o u)
  BY ConcatAssociative

LEMMA SendEffect == TypeOK /\ SendMessage => Accepts
<1> SUFFICES ASSUME TypeOK, SendMessage PROVE Accepts
  OBVIOUS
<1>1. SameLines /\ calls' = calls + 1 /\ UNCHANGED gone
  BY DEF SendMessage, SameLines, Line, readerVars, Conns
<1>2. CASE messageChannel' = Append(messageChannel, calls') /\ UNCHANGED refused
  <2>1. Append(messageChannel, calls + 1) = messageChannel \o <<calls + 1>>
    BY LinesTyped, AppendIsConcat
  <2>2. writing \o (messageChannel \o <<calls + 1>>) = (writing \o messageChannel) \o <<calls + 1>>
    <3>1. <<calls + 1>> \in Seq(Nat)
      BY LinesTyped
    <3>2. QED
      BY <3>1, LinesTyped, Regroup
  <2>3. Pending' = Pending \o <<calls + 1>>
    BY <1>1, <1>2, <2>1, <2>2 DEF Pending, SendMessage
  <2>4. QED
    BY <1>1, <1>2, <2>3 DEF Accepts
<1>3. CASE refused' = Refuse(calls') /\ UNCHANGED messageChannel
  BY <1>1, <1>3 DEF Accepts, Pending, Refuse, SendMessage
<1>4. QED
  BY <1>2, <1>3 DEF SendMessage

LEMMA TakeEffect == TypeOK /\ TakeMessage => Keeps
<1> SUFFICES ASSUME TypeOK, TakeMessage PROVE Keeps
  OBVIOUS
<1>1. SameLines
  BY DEF TakeMessage, SameLines, Line, readerVars, Conns
<1>2. <<Head(messageChannel)>> \o Tail(messageChannel) = messageChannel
  BY LinesTyped DEF TakeMessage
<1>3. Pending' = messageChannel
  BY <1>2 DEF TakeMessage, Pending
<1>4. Pending = messageChannel
  BY LinesTyped, ConcatEmptySeq DEF TakeMessage, Pending
<1>5. QED
  BY <1>1, <1>3, <1>4 DEF Keeps, TakeMessage, readerVars

LEMMA WriteEffect == TypeOK /\ Placed /\ WriteMessage => Delivers \/ LosesWrite
<1> SUFFICES ASSUME TypeOK, Placed, WriteMessage PROVE Delivers \/ LosesWrite
  OBVIOUS
<1>1. messageChannel' = messageChannel /\ Pending' = messageChannel
  <2>1. messageChannel' = messageChannel /\ writing' = << >>
    BY DEF WriteMessage, Arrive, Vanish, WriteFails, ChannelAfterError
  <2>2. QED
    BY <2>1, LinesTyped, ConcatEmptySeq DEF Pending
<1>2. server \in Conns /\ Conns' = Conns
  BY DEF TypeOK, Placed, WriteMessage, Conns
<1>3. CASE Arrive
  <2>1. /\ wire'[server] = wire[server] \o writing
        /\ \A n \in Conns \ {server} : wire'[n] = wire[n]
    BY <1>2, <1>3 DEF Arrive, TypeOK
  <2>2. Line(server)' = Line(server) \o writing
    <3>1. received[server] \in Seq(Nat) /\ wire[server] \in Seq(Nat) /\ writing \in Seq(Nat)
      BY <1>2, LinesTyped
    <3>2. (received[server] \o wire[server]) \o writing = received[server] \o (wire[server] \o writing)
      BY <3>1, Regroup, Zenon
    <3>3. Line(server)' = received[server] \o (wire[server] \o writing)
      BY <2>1 DEF Line, WriteMessage
    <3>4. QED
      BY <3>2, <3>3 DEF Line
  <2>3. QED
    BY <1>1, <1>2, <1>3, <2>1, <2>2 DEF Delivers, Line, WriteMessage, Arrive
<1>4. CASE Vanish \/ WriteFails
  BY <1>1, <1>2, <1>4 DEF LosesWrite, SameLines, Line, WriteMessage, Vanish, WriteFails
<1>5. QED
  BY <1>3, <1>4 DEF WriteMessage

LEMMA ReceiveEffect ==
  ASSUME TypeOK, NEW n \in Conns, Receive(n)
  PROVE  Keeps
<1>1. /\ received'[n] = Append(received[n], Head(wire[n])) /\ wire'[n] = Tail(wire[n])
      /\ \A k \in Conns \ {n} : received'[k] = received[k] /\ wire'[k] = wire[k]
  BY DEF Receive, TypeOK
<1>2. /\ Head(wire[n]) \in Nat /\ Tail(wire[n]) \in Seq(Nat) /\ <<Head(wire[n])>> \in Seq(Nat)
      /\ wire[n] = <<Head(wire[n])>> \o Tail(wire[n])
  BY LinesTyped DEF Receive
<1>3. Append(received[n], Head(wire[n])) = received[n] \o <<Head(wire[n])>>
  BY <1>2, LinesTyped, AppendIsConcat
<1>4. (received[n] \o <<Head(wire[n])>>) \o Tail(wire[n]) = received[n] \o wire[n]
  <2>1. received[n] \in Seq(Nat)
    BY LinesTyped
  <2>2. (received[n] \o <<Head(wire[n])>>) \o Tail(wire[n])
          = received[n] \o (<<Head(wire[n])>> \o Tail(wire[n]))
    <3>1. /\ Tail(wire[n]) \in Seq(Nat) /\ <<Head(wire[n])>> \in Seq(Nat)
      BY <1>2
    <3>2. QED
      BY <2>1, <3>1, Regroup, Zenon
  <2>3. QED
    BY <1>2, <2>2
<1>5. Line(n)' = Line(n)
  BY <1>1, <1>3, <1>4 DEF Line
<1>6. QED
  BY <1>1, <1>5 DEF Keeps, SameLines, Line, Pending, Receive, writerVars, Conns

LEMMA BreakEffect ==
  ASSUME TypeOK, NEW n \in Conns, Break(n)
  PROVE  LosesWire(n)
<1>1. Conns' = Conns
  BY DEF Break, TypeOK, Conns
<1>2. wire'[n] = << >> /\ \A k \in Conns \ {n} : wire'[k] = wire[k]
  BY DEF Break, Lose, TypeOK
<1>3. Line(n)' = received[n]
  BY <1>2, LinesTyped, ConcatEmptySeq DEF Line, Break
<1>4. QED
  BY <1>1, <1>2, <1>3 DEF LosesWire, Line, Pending, Break, Lose, writerVars

LEMMA OpenEffect == TypeOK /\ (SetConnection \/ DialSucceeds) => Opens
<1> SUFFICES ASSUME TypeOK, SetConnection \/ DialSucceeds PROVE Opens
  OBVIOUS
<1>1. /\ NewConn /\ Pending' = Pending /\ UNCHANGED <<calls, refused, gone>>
  BY DEF SetConnection, DialSucceeds, Pending, writerVars
<1>2. << >> \o << >> = << >>
  BY ConcatEmptySeq, EmptySeq
<1>3. /\ Len(conn) \in Nat /\ Len(conn') = Len(conn) + 1
      /\ Conns = 1 .. Len(conn) /\ Conns' = 1 .. Len(conn) + 1
  BY <1>1, NewConnTyped DEF TypeOK
<1>4. ASSUME NEW n \in Conns' \ Conns PROVE Line(n)' = << >>
  <2>1. n = Len(conn')
    BY <1>3
  <2>2. wire'[n] = << >> /\ received'[n] = << >>
    BY <1>1, <2>1, NewConnTyped
  <2>3. QED
    BY <1>2, <2>2 DEF Line
<1>5. QED
  <2>1. \A n \in Conns : Line(n)' = Line(n)
    BY <1>1, NewConnTyped DEF Line
  <2>2. QED
    BY <1>1, <1>3, <1>4, <2>1 DEF Opens

LEMMA ReaderEffect ==
  ASSUME TypeOK, Connect \/ DialFails \/ ReadFails \/ Reconnecting
  PROVE  Keeps
<1>1. Conns' = Conns
  BY DEF TypeOK, Conns, Connect, DialFails, ReadFails, Reconnecting, AssignServer,
         ClearConnected, CloseServer
<1>2. QED
  BY <1>1 DEF Keeps, SameLines, Line, Pending, Connect, DialFails, ReadFails, Reconnecting,
              AssignServer, ClearConnected, CloseServer, writerVars

Effect ==
  \/ Keeps \/ Accepts \/ Delivers \/ LosesWrite \/ Opens
  \/ \E n \in Conns : LosesWire(n)

LEMMA NextEffect == TypeOK /\ Placed /\ [Next]_vars => Effect
<1> SUFFICES ASSUME TypeOK, Placed, [Next]_vars PROVE Effect
  OBVIOUS
<1>1. CASE UNCHANGED vars
  BY <1>1 DEF vars, Effect, Keeps, SameLines, Line, Pending, Conns
<1>2. CASE Next
  <2>1. CASE \E n \in Conns : Receive(n) \/ Break(n)
    BY <2>1, ReceiveEffect, BreakEffect DEF Effect
  <2>2. CASE SendMessage \/ Write
    BY <2>2, SendEffect, TakeEffect, WriteEffect DEF Effect, Write
  <2>3. CASE SetConnection \/ DialSucceeds
    BY <2>3, OpenEffect DEF Effect
  <2>4. CASE Connect \/ DialFails \/ ReadFails \/ Reconnecting
    BY <2>4, ReaderEffect DEF Effect
  <2>5. QED
    BY <1>2, <2>1, <2>2, <2>3, <2>4 DEF Next
<1>3. QED
  BY <1>1, <1>2

-----------------------------------------------------------------------------
(***************************************************************************)
(* Nothing else is lost.                                                   *)
(***************************************************************************)
LEMMA RangeOfConcat ==
  ASSUME NEW s \in Seq(Nat), NEW t \in Seq(Nat)
  PROVE  Range(s \o t) = Range(s) \cup Range(t)
  BY RangeConcatenation

LEMMA RangeOfFew == Range(<< >>) = {} /\ \A e : Range(<<e>>) = {e}
  BY DEF Range

\* Where the message may be.
Somewhere(m) ==
  \/ \E n \in Conns : m \in Range(Line(n))
  \/ m \in Range(Pending)
  \/ m \in refused
  \/ m \in gone

LEMMA LostMeans == NothingElseLost <=> \A m : m \in 1 .. calls <=> Somewhere(m)
<1> DEFINE lines == UNION {Range(Line(n)) : n \in Conns}
<1> DEFINE all == lines \cup Range(Pending) \cup refused \cup gone
<1>1. \A m : m \in lines <=> \E n \in Conns : m \in Range(Line(n))
  OBVIOUS
<1>2. NothingElseLost = (1 .. calls = all)
  BY DEF NothingElseLost
<1> HIDE DEF lines
<1>3. \A m : m \in all <=> Somewhere(m)
  BY <1>1 DEF Somewhere
<1> HIDE DEF all
<1>4. 1 .. calls = all <=> \A m : m \in 1 .. calls <=> m \in all
  OBVIOUS
<1>5. QED
  BY <1>2, <1>3, <1>4

LEMMA InitLost == Init => NothingElseLost
<1> SUFFICES ASSUME Init PROVE NothingElseLost
  OBVIOUS
<1>1. Conns = {} /\ 1 .. calls = {} /\ refused = {} /\ gone = {}
  BY DEF Init, Conns
<1>2. Pending = << >>
  BY DEF Init, Pending
<1>3. QED
  BY <1>1, <1>2, RangeOfFew DEF NothingElseLost

LEMMA NextLost ==
  ASSUME TypeOK, Placed, NothingElseLost, [Next]_vars
  PROVE  NothingElseLost'
<1>0. Effect
  BY NextEffect
<1>1. calls \in Nat /\ \A m : m \in 1 .. calls <=> Somewhere(m)
  BY LinesTyped, LostMeans
<1>2. SUFFICES ASSUME NEW m PROVE m \in (1 .. calls)' <=> Somewhere(m)'
  <2>1. (\A m : m \in 1 .. calls <=> Somewhere(m))' => NothingElseLost'
    BY LostMeans, PTL
  <2>2. QED
    BY <2>1
<1>3. CASE Keeps
  BY <1>1, <1>3 DEF Keeps, SameLines, Somewhere
<1>4. CASE Accepts
  <2>1. m \in (1 .. calls)' <=> m \in 1 .. calls \/ m = calls + 1
    BY <1>1, <1>4 DEF Accepts
  <2>2. Range(Pending \o <<calls + 1>>) = Range(Pending) \cup {calls + 1}
    <3>1. <<calls + 1>> \in Seq(Nat)
      BY <1>1
    <3>2. Range(Pending \o <<calls + 1>>) = Range(Pending) \cup Range(<<calls + 1>>)
      BY <3>1, LinesTyped, RangeOfConcat
    <3>3. Range(<<calls + 1>>) = {calls + 1}
      BY RangeOfFew
    <3>4. QED
      BY <3>2, <3>3
  <2>3. Somewhere(m)' <=> Somewhere(m) \/ m = calls + 1
    BY <1>4, <2>2 DEF Accepts, SameLines, Somewhere
  <2>4. QED
    BY <1>1, <2>1, <2>3
<1>5. CASE Delivers
  <2>1. /\ Range(Line(server) \o writing) = Range(Line(server)) \cup Range(writing)
        /\ Range(Pending) = Range(writing) \cup Range(messageChannel)
    BY <1>5, LinesTyped, RangeOfConcat DEF Delivers, Pending
  <2>2. Somewhere(m)' <=> Somewhere(m)
    BY <1>5, <2>1 DEF Delivers, Somewhere
  <2>3. QED
    BY <1>1, <1>5, <2>2 DEF Delivers
<1>6. CASE LosesWrite
  <2>1. Range(Pending) = Range(writing) \cup Range(messageChannel)
    BY LinesTyped, RangeOfConcat DEF Pending
  <2>2. Somewhere(m)' <=> Somewhere(m)
    BY <1>6, <2>1 DEF LosesWrite, SameLines, Somewhere
  <2>3. QED
    BY <1>1, <1>6, <2>2 DEF LosesWrite
<1>7. ASSUME NEW n \in Conns, LosesWire(n) PROVE m \in (1 .. calls)' <=> Somewhere(m)'
  <2>1. Range(Line(n)) = Range(received[n]) \cup Range(wire[n])
    BY LinesTyped, RangeOfConcat DEF Line
  <2>2. Somewhere(m)' <=> Somewhere(m)
    BY <1>7, <2>1 DEF LosesWire, Somewhere
  <2>3. QED
    BY <1>1, <1>7, <2>2 DEF LosesWire
<1>8. CASE Opens
  <2>1. /\ Conns \subseteq Conns'
        /\ \A n \in Conns' : n \notin Conns => Line(n)' = << >>
    BY <1>8 DEF Opens
  <2>2. Somewhere(m)' <=> Somewhere(m)
    BY <1>8, <2>1, RangeOfFew DEF Opens, Somewhere
  <2>3. QED
    BY <1>1, <1>8, <2>2 DEF Opens
<1>9. QED
  BY <1>0, <1>3, <1>4, <1>5, <1>6, <1>7, <1>8 DEF Effect

\* A message SendMessage took is received, under way, waiting, refused or was
\* in a write on a connection that was lost, however often connections change.
THEOREM LossCorrect == Spec => []NothingElseLost
  BY InitTyped, NextTyped, InitPlaced, NextPlaced, InitLost, NextLost, PTL DEF Spec

-----------------------------------------------------------------------------
(***************************************************************************)
(* The order.                                                              *)
(***************************************************************************)
LEMMA InitInOrder == Init => InOrder
<1> SUFFICES ASSUME Init PROVE InOrder
  OBVIOUS
<1>1. Conns = {} /\ Pending = << >>
  BY DEF Init, Conns, Pending
<1>2. QED
  BY <1>1, OrderOfEmpty DEF InOrder

\* The next message's number is greater than every other's.
LEMMA LastIsNew ==
  ASSUME TypeOK, NothingElseLost
  PROVE  /\ Before(Pending, <<calls + 1>>)
         /\ \A n \in Conns : Before(Line(n), <<calls + 1>>)
<1>1. calls \in Nat /\ Range(Pending) \subseteq 1 .. calls
      /\ \A n \in Conns : Range(Line(n)) \subseteq 1 .. calls
  BY LinesTyped, LostMeans DEF Somewhere
<1>2. ASSUME NEW s \in Seq(Nat), Range(s) \subseteq 1 .. calls PROVE Before(s, <<calls + 1>>)
  <2> SUFFICES ASSUME NEW i \in DOMAIN s PROVE s[i] < calls + 1
    BY DEF Before
  <2>1. s[i] \in 1 .. calls
    BY <1>2 DEF Range
  <2>2. QED
    BY <1>1, <2>1
<1>3. QED
  BY <1>1, <1>2, LinesTyped

LEMMA NextInOrder ==
  ASSUME TypeOK, Placed, NothingElseLost, InOrder, [Next]_vars
  PROVE  InOrder'
<1>0. Effect
  BY NextEffect
<1>1. CASE Keeps
  BY <1>1 DEF Keeps, SameLines, InOrder
<1>2. CASE Accepts
  <2>1. CASE Pending' = Pending
    BY <1>2, <2>1 DEF Accepts, SameLines, InOrder
  <2>2. CASE Pending' = Pending \o <<calls + 1>>
    <3>1. <<calls + 1>> \in Seq(Nat) /\ Increasing(<<calls + 1>>) /\ Pending \in Seq(Nat)
        <4>1. calls + 1 \in Nat
        BY LinesTyped
      <4>2. <<calls + 1>> \in Seq(Nat)
        BY <4>1
      <4>3. QED
        BY <4>1, <4>2, LinesTyped, OrderOfOne
    <3>2. Increasing(Pending')
      BY <2>2, <3>1, OrderOfConcat, LastIsNew DEF InOrder
    <3>3. \A n \in Conns : Before(Line(n), Pending')
      BY <2>2, <3>1, LinesTyped, BeforeConcat, LastIsNew DEF InOrder
    <3>4. QED
      BY <1>2, <3>2, <3>3 DEF Accepts, SameLines, InOrder
  <2>3. QED
    BY <1>2, <2>1, <2>2 DEF Accepts
<1>3. /\ writing \in Seq(Nat) /\ messageChannel \in Seq(Nat)
      /\ Increasing(writing) /\ Increasing(messageChannel) /\ Before(writing, messageChannel)
      /\ \A n \in Conns : Before(Line(n), writing) /\ Before(Line(n), messageChannel)
  BY LinesTyped, OrderOfConcat, BeforeConcat DEF InOrder, Pending
<1>4. CASE Delivers
  <2>1. /\ Line(server) \in Seq(Nat) /\ server \in Conns /\ Conns' = Conns
        /\ Line(server)' = Line(server) \o writing
    BY <1>4, LinesTyped DEF Delivers
  <2>2. Increasing(Line(server)') /\ Before(Line(server)', messageChannel)
    BY <1>3, <2>1, OrderOfConcat, BeforeConcat DEF InOrder
  <2>3. \A n \in Conns : Increasing(Line(n)') /\ Before(Line(n)', messageChannel)
    BY <1>3, <1>4, <2>1, <2>2 DEF Delivers, InOrder
  <2>4. ASSUME NEW k \in Conns, NEW n \in Conns, k < n PROVE Before(Line(k)', Line(n)')
    <3>1. k # n /\ Before(Line(k), Line(n))
      BY <2>4 DEF InOrder, Conns, TypeOK
    <3>2. CASE n = server
      <4>1. Line(k)' = Line(k) /\ Line(n)' = Line(n) \o writing
        BY <1>4, <3>1, <3>2 DEF Delivers
      <4>2. QED
        BY <1>3, <3>1, <4>1, LinesTyped, BeforeConcat
    <3>3. CASE k = server
      <4>1. Line(n) = << >>
        BY <2>1, <2>4, <3>3, EmptySeq, ConcatEmptySeq DEF Placed, Line
      <4>2. Line(n)' = << >>
        BY <1>4, <3>1, <3>3, <4>1 DEF Delivers
      <4>3. QED
        BY <4>2, OrderOfEmpty
    <3>4. CASE n # server /\ k # server
      BY <1>4, <3>1, <3>4 DEF Delivers
    <3>5. QED
      BY <3>2, <3>3, <3>4
  <2>5. QED
    BY <1>3, <1>4, <2>1, <2>3, <2>4 DEF Delivers, InOrder
<1>5. CASE LosesWrite
  BY <1>3, <1>5 DEF LosesWrite, SameLines, InOrder
<1>6. ASSUME NEW n \in Conns, LosesWire(n) PROVE InOrder'
  <2>1. /\ received[n] \in Seq(Nat) /\ wire[n] \in Seq(Nat)
        /\ Increasing(received[n]) /\ Before(received[n], Pending)
    BY LinesTyped, OrderOfConcat, BeforeConcat DEF InOrder, Line
  <2>2. ASSUME NEW k \in Conns
        PROVE  /\ k < n => Before(Line(k), received[n])
               /\ n < k => Before(received[n], Line(k))
    <3>1. Line(k) \in Seq(Nat) /\ Line(n) = received[n] \o wire[n]
      BY LinesTyped DEF Line
    <3>2. /\ k < n => Before(Line(k), received[n] \o wire[n])
          /\ n < k => Before(received[n] \o wire[n], Line(k))
      BY <3>1 DEF InOrder
    <3>3. QED
      BY <2>1, <3>1, <3>2, BeforeConcat
  <2>3. \A k \in Conns : Increasing(Line(k)') /\ Before(Line(k)', Pending)
    BY <1>6, <2>1 DEF LosesWire, InOrder
  <2>4. ASSUME NEW j \in Conns, NEW k \in Conns, j < k PROVE Before(Line(j)', Line(k)')
    <3>1. j # k /\ Before(Line(j), Line(k))
      BY <2>4 DEF InOrder, Conns, TypeOK
    <3>2. QED
      BY <1>6, <2>2, <2>4, <3>1 DEF LosesWire
  <2>5. QED
    BY <1>6, <2>3, <2>4 DEF LosesWire, InOrder
<1>7. CASE Opens
  <2>1. \A n \in Conns' : IF n \in Conns THEN Line(n)' = Line(n) ELSE Line(n)' = << >>
    BY <1>7 DEF Opens
  <2>2. \A n \in Conns' : Increasing(Line(n)') /\ Before(Line(n)', Pending)
    BY <2>1, OrderOfEmpty DEF InOrder
  <2>3. ASSUME NEW j \in Conns', NEW k \in Conns', j < k PROVE Before(Line(j)', Line(k)')
    BY <2>1, <2>3, OrderOfEmpty DEF InOrder
  <2>4. QED
    BY <1>7, <2>2, <2>3 DEF Opens, InOrder
<1>8. QED
  BY <1>0, <1>1, <1>2, <1>4, <1>5, <1>6, <1>7 DEF Effect

\* The messages that are received, under way and waiting are in the order
\* SendMessage was called in, within a connection and from one to the next.
THEOREM OrderCorrect == Spec => []InOrder
  BY InitTyped, NextTyped, InitPlaced, NextPlaced, InitLost, NextLost, InitInOrder, NextInOrder,
     PTL DEF Spec

-----------------------------------------------------------------------------
(***************************************************************************)
(* Recursion and numbers.                                                  *)
(***************************************************************************)
\* A set of natural numbers has a least one: the form of induction used here.
LEMMA Least ==
  ASSUME NEW T \in SUBSET Nat, T # {}
  PROVE  \E x \in T : \A y \in T : x <= y
<1>1. PICK x \in T : \A y \in T : ~ (<<y, x>> \in OpToRel(<,Nat))
  BY NatLessThanWellFounded, WFMin, Zenon
<1>2. ASSUME NEW y \in T PROVE x <= y
  <2>1. ~ (<<y, x>> \in OpToRel(<,Nat))
    BY <1>1, Zenon
  <2>2. ~(y < x)
    BY <2>1 DEF OpToRel
  <2>3. QED
    BY <2>2
<1>3. QED
  BY <1>2, Zenon

\* f begins with a and goes on by the function step.
Follows(f, S, a, step) ==
  f \in [Nat -> S] /\ f[0] = a /\ \A k \in Nat : f[k + 1] = step[k + 1][f[k]]

\* There is a function defined by recursion over the natural numbers.
LEMMA RecursionExists ==
  ASSUME NEW S, NEW a \in S, NEW step \in [Nat -> [S -> S]]
  PROVE  \E f : Follows(f, S, a, step)
<1> DEFINE Starts(n, f) == /\ f \in [0 .. n -> S] /\ f[0] = a
                           /\ \A k \in 0 .. n - 1 : f[k + 1] = step[k + 1][f[k]]
           Bad == {n \in Nat : \A f : ~Starts(n, f)}
<1>1. Bad = {}
  <2>1. SUFFICES ASSUME NEW n \in Bad, \A k \in Bad : n <= k PROVE FALSE
    BY Least
  <2>2. CASE n = 0
    <3>1. Starts(0, [k \in 0 .. 0 |-> a])
      OBVIOUS
    <3> HIDE DEF Starts
    <3>2. QED
      BY <2>1, <2>2, <3>1
  <2>3. CASE n # 0
    <3>1. n - 1 \in Nat /\ ~(n <= n - 1)
      BY <2>3
    <3>2. PICK f : Starts(n - 1, f)
      BY <2>1, <3>1
    <3> DEFINE g == [k \in 0 .. n |-> IF k = n THEN step[n][f[n - 1]] ELSE f[k]]
    <3>3. f[n - 1] \in S
      BY <3>1, <3>2
    <3>4. step[n][f[n - 1]] \in S
      BY <3>1, <3>3
    <3>5. g \in [0 .. n -> S]
      BY <3>1, <3>2, <3>4
    <3>6. g[0] = a
      BY <2>3, <3>2
    <3>7. ASSUME NEW k \in 0 .. n - 1 PROVE g[k + 1] = step[k + 1][g[k]]
      <4>1. g[k] = f[k]
        BY <3>7
      <4>2. CASE k = n - 1
        <5>1. g[n] = step[n][f[n - 1]]
          OBVIOUS
        <5> HIDE DEF g
        <5>2. QED
          BY <3>1, <4>1, <4>2, <5>1
      <4>3. CASE k # n - 1
        <5>1. g[k + 1] = f[k + 1] /\ k \in 0 .. (n - 1) - 1
          BY <3>1, <3>7, <4>3
        <5>2. QED
          BY <3>2, <4>1, <5>1
      <4>4. QED
        BY <4>2, <4>3
    <3> HIDE DEF g
    <3>8. Starts(n, g)
      BY <3>5, <3>6, <3>7
    <3> HIDE DEF Starts
    <3>9. QED
      BY <2>1, <3>8
  <2>4. QED
    BY <2>2, <2>3
<1>2. ASSUME NEW n \in Nat, NEW m \in Nat, NEW f, NEW g, Starts(n, f), Starts(m, g),
             NEW k \in Nat, k <= n, k <= m
      PROVE  f[k] = g[k]
  <2> DEFINE Differ == {i \in Nat : i <= n /\ i <= m /\ f[i] # g[i]}
  <2>1. Differ = {}
    <3>1. SUFFICES ASSUME NEW i \in Differ, \A j \in Differ : i <= j PROVE FALSE
      BY Least
    <3>2. i # 0
      BY <1>2, <3>1
    <3>3. i - 1 \in Nat /\ ~(i <= i - 1) /\ i - 1 \in 0 .. n - 1 /\ i - 1 \in 0 .. m - 1
      BY <3>1, <3>2
    <3>4. f[i - 1] = g[i - 1]
      BY <3>1, <3>3
    <3>5. f[(i - 1) + 1] = g[(i - 1) + 1]
      BY <1>2, <3>3, <3>4
    <3>6. QED
      BY <3>1, <3>5
  <2>2. QED
    BY <1>2, <2>1
<1> DEFINE start(n) == CHOOSE f : Starts(n, f)
           F == [n \in Nat |-> start(n)[n]]
<1>3. ASSUME NEW n \in Nat PROVE Starts(n, start(n))
  <2> HIDE DEF Starts
  <2>1. \E f : Starts(n, f)
    BY <1>1, <1>3
  <2>2. QED
    BY <2>1, Zenon
<1> HIDE DEF start
<1>4. ASSUME NEW n \in Nat PROVE F[n] \in S
  BY <1>3, <1>4
<1>5. F[0] = a
  BY <1>3
<1>6. ASSUME NEW k \in Nat PROVE F[k + 1] = step[k + 1][F[k]]
  <2>1. start(k)[k] = start(k + 1)[k]
    <3>1. Starts(k, start(k)) /\ Starts(k + 1, start(k + 1))
      BY <1>3, <1>6
    <3> HIDE DEF Starts
    <3>2. QED
      BY <1>2, <1>6, <3>1
  <2>2. start(k + 1)[k + 1] = step[k + 1][start(k + 1)[k]]
    BY <1>3, <1>6
  <2>3. F[k + 1] = start(k + 1)[k + 1] /\ F[k] = start(k)[k]
    BY <1>6
  <2>4. QED
    BY <2>1, <2>2, <2>3
<1>7. F \in [Nat -> S]
  BY <1>4
<1> HIDE DEF F
<1>8. QED
  BY <1>5, <1>6, <1>7 DEF Follows

\* Powers of the base are positive and multiply.
LEMMA PowerStep ==
  /\ Power[0] = 1
  /\ \A n \in Nat : Power[n] \in Nat /\ Power[n] > 0 /\ Power[n + 1] = Base * Power[n]
<1> DEFINE step == [k \in Nat |-> [p \in Nat |-> Base * p]]
<1> USE CodecAssumption
<1>1. step \in [Nat -> [Nat -> Nat]] /\ \A k, p \in Nat : step[k][p] = Base * p
  OBVIOUS
<1> HIDE DEF step
<1>2. 1 \in Nat
  OBVIOUS
<1>3. PICK f : Follows(f, Nat, 1, step)
  BY <1>1, <1>2, RecursionExists
<1>31. f \in [Nat -> Nat] /\ f[0] = 1 /\ \A k \in Nat : f[k + 1] = Base * f[k]
  <2>1. f \in [Nat -> Nat] /\ f[0] = 1
    BY <1>3 DEF Follows
  <2>2. ASSUME NEW k \in Nat PROVE f[k + 1] = Base * f[k]
    <3>1. f[k + 1] = step[k + 1][f[k]]
      BY <1>3 DEF Follows
    <3>2. k + 1 \in Nat /\ f[k] \in Nat
      BY <2>1
    <3>3. QED
      BY <1>1, <3>1, <3>2
  <2>3. QED
    BY <2>1, <2>2
<1>4. f = [n \in Nat |-> IF n = 0 THEN 1 ELSE Base * f[n - 1]]
  <2>1. ASSUME NEW n \in Nat, n # 0 PROVE f[n] = Base * f[n - 1]
    <3>1. n - 1 \in Nat /\ (n - 1) + 1 = n
      BY <2>1
    <3>2. QED
      BY <1>31, <3>1
  <2>2. QED
    BY <1>31, <2>1
<1>5. Power = [n \in Nat |-> IF n = 0 THEN 1 ELSE Base * Power[n - 1]]
  BY <1>4 DEF Power
<1>6. Power[0] = 1
  BY <1>5
<1>7. \A n \in Nat : Power[n + 1] = Base * Power[n]
  BY <1>5
<1>8. ASSUME NEW n \in Nat PROVE Power[n] \in Nat /\ Power[n] > 0
  <2> DEFINE Bad == {k \in Nat : ~(Power[k] \in Nat /\ Power[k] > 0)}
  <2>1. SUFFICES Bad = {}
    OBVIOUS
  <2>2. SUFFICES ASSUME NEW k \in Bad, \A j \in Bad : k <= j PROVE FALSE
    BY Least
  <2>3. k # 0
    BY <1>6
  <2>4. k - 1 \in Nat /\ (k - 1) + 1 = k /\ ~(k <= k - 1)
    BY <2>3
  <2>5. Power[k - 1] \in Nat /\ Power[k - 1] > 0
    BY <2>2, <2>4
  <2>6. Power[k] = Base * Power[k - 1]
    BY <1>7, <2>4
  <2>7. Base * Power[k - 1] \in Nat /\ Base * Power[k - 1] > 0
    BY <2>5
  <2>8. QED
    BY <2>6, <2>7
<1>9. QED
  BY <1>6, <1>7, <1>8

\* Quotient and remainder are the only ones.
LEMMA DivMod ==
  ASSUME NEW a \in Int, NEW d \in Nat, d > 0
  PROVE  /\ a \div d \in Int /\ a % d \in 0 .. d - 1
         /\ a = d * (a \div d) + (a % d)
OBVIOUS

LEMMA DivUnique ==
  ASSUME NEW d \in Nat, d > 0, NEW q \in Int, NEW r \in 0 .. d - 1
  PROVE  (d * q + r) \div d = q /\ (d * q + r) % d = r
<1> DEFINE a == d * q + r
<1>1. a \in Int
  OBVIOUS
<1>2. a \div d \in Int /\ a % d \in 0 .. d - 1 /\ a = d * (a \div d) + (a % d)
  BY <1>1, DivMod
<1>3. d * (q - (a \div d)) = (a % d) - r
  BY <1>2
<1>4. q - (a \div d) = 0
  <2> DEFINE e == q - (a \div d)
  <2>1. e \in Int /\ d * e = (a % d) - r
    BY <1>2, <1>3
  <2>2. -d < d * e /\ d * e < d
    BY <1>2, <2>1
  <2> HIDE DEF e
  <2>3. e <= -1 => d * e <= -d
    BY <2>1
  <2>4. e >= 1 => d * e >= d
    BY <2>1
  <2>5. e = 0
    BY <2>1, <2>2, <2>3, <2>4
  <2>6. QED
    BY <2>5 DEF e
<1>5. QED
  BY <1>2, <1>4

\* Cutting off the last digit, and what the digits in front of it are worth.
LEMMA Digits ==
  ASSUME NEW n \in Int, NEW b \in Nat, b > 0, NEW p \in Nat, p > 0
  PROVE  /\ (n \div p) \div b = n \div (b * p)
         /\ (n % (b * p)) = b * ((n \div b) % p) + (n % b)
<1>1. b * p \in Nat /\ b * p > 0
  OBVIOUS
<1>2. (n \div p) \div b = n \div (b * p)
  <2> DEFINE q == n \div p
             c == q \div b
             s == q % b
             r == n % p
  <2>1. q \in Int /\ r \in 0 .. p - 1 /\ n = p * q + r
    BY DivMod
  <2>2. c \in Int /\ s \in 0 .. b - 1 /\ q = b * c + s
    BY <2>1, DivMod
  <2> HIDE DEF q, c, s, r
  <2>3. n = (b * p) * c + (p * s + r)
    <3>1. p * q = p * (b * c) + p * s
      BY <2>1, <2>2
    <3>2. p * (b * c) = (b * p) * c
      BY <2>2
    <3>3. QED
      BY <2>1, <2>2, <3>1, <3>2
  <2>4. p * s + r \in 0 .. b * p - 1
    <3>1. p * s <= p * (b - 1)
      BY <2>2
    <3>2. p * (b - 1) = b * p - p
      OBVIOUS
    <3>3. p * s >= 0 /\ p * s \in Int
      BY <2>2
    <3>4. QED
      BY <2>1, <1>1, <3>1, <3>2, <3>3
  <2>5. n \div (b * p) = c
    BY <1>1, <2>2, <2>3, <2>4, DivUnique
  <2>6. QED
    BY <2>5 DEF q, c
<1>3. (n % (b * p)) = b * ((n \div b) % p) + (n % b)
  <2> DEFINE q == n \div b
             c == q \div p
             s == q % p
             r == n % b
  <2>1. q \in Int /\ r \in 0 .. b - 1 /\ n = b * q + r
    BY DivMod
  <2>2. c \in Int /\ s \in 0 .. p - 1 /\ q = p * c + s
    BY <2>1, DivMod
  <2> HIDE DEF q, c, s, r
  <2>3. n = (b * p) * c + (b * s + r)
    <3>1. b * q = b * (p * c) + b * s
      BY <2>1, <2>2
    <3>2. b * (p * c) = (b * p) * c
      BY <2>2
    <3>3. QED
      BY <2>1, <2>2, <3>1, <3>2
  <2>4. b * s + r \in 0 .. b * p - 1
    <3>1. b * s <= b * (p - 1)
      BY <2>2
    <3>2. b * (p - 1) = b * p - b
      OBVIOUS
    <3>3. b * s >= 0 /\ b * s \in Int
      BY <2>2
    <3>4. QED
      BY <2>1, <1>1, <3>1, <3>2, <3>3
  <2>5. n % (b * p) = b * s + r
    BY <1>1, <2>2, <2>3, <2>4, DivUnique
  <2>6. QED
    BY <2>5 DEF q, s, r
<1>4. QED
  BY <1>2, <1>3

FollowsTo(f, S, a, step, n) ==
  f \in [0 .. n -> S] /\ f[0] = a /\ \A k \in 1 .. n : f[k] = step[k][f[k - 1]]

\* The same up to a bound, in the form of a recursive definition.
LEMMA BoundedRecursion ==
  ASSUME NEW S, NEW a \in S, NEW step \in [Nat -> [S -> S]], NEW n \in Nat
  PROVE  \E f : FollowsTo(f, S, a, step, n)
<1>1. PICK g : Follows(g, S, a, step)
  BY RecursionExists
<1> DEFINE f == [k \in 0 .. n |-> g[k]]
<1>2. f \in [0 .. n -> S] /\ f[0] = a
  BY <1>1 DEF Follows
<1>3. ASSUME NEW k \in 1 .. n PROVE f[k] = step[k][f[k - 1]]
  <2>1. k - 1 \in Nat /\ (k - 1) + 1 = k /\ f[k] = g[k] /\ f[k - 1] = g[k - 1]
    OBVIOUS
  <2>2. g[(k - 1) + 1] = step[(k - 1) + 1][g[k - 1]]
    BY <1>1, <2>1 DEF Follows
  <2>3. QED
    BY <2>1, <2>2
<1> HIDE DEF f
<1>4. QED
  BY <1>2, <1>3 DEF FollowsTo

\* What Number adds up, digit by digit.
Adds(value, bytes) ==
  /\ value \in [0 .. Len(bytes) -> Nat] /\ value[0] = 0
  /\ \A k \in 1 .. Len(bytes) : value[k] = value[k - 1] * Base + bytes[k]

LEMMA NumberAdds ==
  ASSUME NEW bytes \in Seq(Octets)
  PROVE  \E value : Adds(value, bytes) /\ Number(bytes) = value[Len(bytes)]
<1> USE CodecAssumption
<1> DEFINE n == Len(bytes)
           step == [k \in Nat |-> [v \in Nat |-> v * Base + (IF k \in 1 .. n THEN bytes[k] ELSE 0)]]
           Sums(f) == f = [k \in 0 .. Len(bytes) |-> IF k = 0 THEN 0 ELSE f[k - 1] * Base + bytes[k]]
<1>1. n \in Nat /\ \A k \in 1 .. n : bytes[k] \in Nat
  BY DEF Octets
<1>2. /\ step \in [Nat -> [Nat -> Nat]]
      /\ \A k \in 1 .. n : \A v \in Nat : step[k][v] = v * Base + bytes[k]
  <2>1. ASSUME NEW k \in Nat, NEW v \in Nat
        PROVE  v * Base + (IF k \in 1 .. n THEN bytes[k] ELSE 0) \in Nat
    <3>1. v * Base \in Nat
      OBVIOUS
    <3>2. (IF k \in 1 .. n THEN bytes[k] ELSE 0) \in Nat
      BY <1>1
    <3>3. QED
      BY <3>1, <3>2
  <2>2. step \in [Nat -> [Nat -> Nat]]
    BY <2>1
  <2>3. ASSUME NEW k \in 1 .. n, NEW v \in Nat PROVE step[k][v] = v * Base + bytes[k]
    <3>1. k \in Nat
      BY <1>1
    <3>2. step[k][v] = v * Base + (IF k \in 1 .. n THEN bytes[k] ELSE 0)
      BY <3>1
    <3>3. QED
      BY <3>2
  <2>4. QED
    BY <2>2, <2>3
<1> HIDE DEF step
<1>30. PICK f : FollowsTo(f, Nat, 0, step, n)
  <2>1. 0 \in Nat
    OBVIOUS
  <2> HIDE DEF n
  <2>2. QED
    BY <1>1, <1>2, <2>1, BoundedRecursion
<1>3. f \in [0 .. n -> Nat] /\ f[0] = 0
  BY <1>30 DEF FollowsTo
<1>4. ASSUME NEW k \in 1 .. n PROVE f[k] = f[k - 1] * Base + bytes[k]
  <2>1. f[k] = step[k][f[k - 1]]
    BY <1>30 DEF FollowsTo
  <2>2. k - 1 \in 0 .. n /\ f[k - 1] \in Nat
    <3>1. k - 1 \in 0 .. n
      BY <1>1
    <3> HIDE DEF n
    <3>2. QED
      BY <1>3, <3>1
  <2>3. QED
    BY <1>2, <2>1, <2>2
<1>5. Sums(f)
  BY <1>1, <1>3, <1>4
<1> DEFINE g == CHOOSE g : Sums(g)
<1>6. Sums(g)
  <2> HIDE DEF Sums
  <2>1. QED
    BY <1>5, Zenon
<1>7. Number(bytes) = g[n]
  BY Zenon DEF Number
<1> HIDE DEF g
<1>8. g[0] = 0 /\ \A k \in 1 .. n : g[k] = g[k - 1] * Base + bytes[k]
  <2>1. 0 \in 0 .. n /\ \A k \in 1 .. n : k \in 0 .. n /\ k # 0
    BY <1>1
  <2>2. g = [k \in 0 .. n |-> IF k = 0 THEN 0 ELSE g[k - 1] * Base + bytes[k]]
    BY <1>6
  <2> HIDE DEF n
  <2>3. \A k \in 0 .. n : g[k] = IF k = 0 THEN 0 ELSE g[k - 1] * Base + bytes[k]
    BY <2>2
  <2>4. QED
    BY <2>1, <2>3
<1>9. \A k \in 0 .. n : g[k] = f[k]
  <2> DEFINE Bad == {k \in 0 .. n : g[k] # f[k]}
  <2>1. SUFFICES Bad = {}
    OBVIOUS
  <2>2. SUFFICES ASSUME NEW k \in Bad, \A j \in Bad : k <= j PROVE FALSE
    <3>1. Bad \in SUBSET Nat
      OBVIOUS
    <3>2. QED
      BY <3>1, Least
  <2>3. k # 0
    BY <1>3, <1>8
  <2>4. k \in 1 .. n /\ k - 1 \in 0 .. n /\ ~(k <= k - 1)
    BY <1>1, <2>3
  <2>5. g[k - 1] = f[k - 1]
    BY <2>2, <2>4
  <2>6. QED
    BY <1>4, <1>8, <2>4, <2>5
<1>10. Adds(g, bytes)
  <2>1. g \in [0 .. n -> Nat]
    BY <1>1, <1>3, <1>6, <1>9
  <2>2. QED
    BY <1>8, <2>1 DEF Adds
<1>11. QED
  BY <1>7, <1>10

LEMMA NumberIsNat ==
  ASSUME NEW bytes \in Seq(Octets) PROVE Number(bytes) \in Nat
<1>1. PICK value : Adds(value, bytes) /\ Number(bytes) = value[Len(bytes)]
  BY NumberAdds
<1>2. QED
  BY <1>1 DEF Adds

LEMMA BytesType ==
  ASSUME NEW n \in Int, NEW width \in Nat
  PROVE  /\ Bytes(n, width) \in Seq(Octets) /\ Len(Bytes(n, width)) = width
         /\ \A k \in 1 .. width : Bytes(n, width)[k] = (n \div Power[width - k]) % Base
<1> USE CodecAssumption
<1>1. ASSUME NEW k \in 1 .. width PROVE (n \div Power[width - k]) % Base \in Octets
  <2>1. Power[width - k] \in Nat /\ Power[width - k] > 0
    BY PowerStep
  <2>2. n \div Power[width - k] \in Int
    BY <2>1, DivMod
  <2>3. QED
    BY <2>2 DEF Octets
<1>2. Bytes(n, width) \in [1 .. width -> Octets]
  BY <1>1 DEF Bytes
<1>3. QED
  BY <1>2 DEF Bytes

\* Reading the bytes of a number gives the number, cut to its width.
LEMMA NumberOfBytes ==
  ASSUME NEW n \in Int, NEW width \in Nat
  PROVE  Number(Bytes(n, width)) = n % Power[width]
<1> USE CodecAssumption
<1> DEFINE b == Bytes(n, width)
<1>1. /\ b \in Seq(Octets) /\ Len(b) = width
      /\ \A k \in 1 .. width : b[k] = (n \div Power[width - k]) % Base
  BY BytesType
<1> HIDE DEF b
<1>2. PICK value : Adds(value, b) /\ Number(b) = value[Len(b)]
  BY <1>1, NumberAdds
<1>3. ASSUME NEW k \in Nat PROVE Power[k] \in Nat /\ Power[k] > 0 /\ Power[k + 1] = Base * Power[k]
  BY PowerStep
<1> DEFINE Right(k) == value[k] = (n \div Power[width - k]) % Power[k]
           Bad == {k \in 0 .. width : ~Right(k)}
<1>4. Bad = {}
  <2>1. SUFFICES ASSUME NEW k \in Bad, \A j \in Bad : k <= j PROVE FALSE
    <3>1. Bad \in SUBSET Nat
      OBVIOUS
    <3> HIDE DEF Bad
    <3>2. QED
      BY <3>1, Least
  <2>2. k # 0
    <3>1. Power[0] = 1 /\ Power[width] \in Nat /\ Power[width] > 0 /\ width - 0 = width
      BY PowerStep
    <3>2. n \div Power[width] \in Int
      BY <3>1, DivMod
    <3>3. (n \div Power[width]) % 1 = 0
      BY <3>2
    <3>4. Right(0)
      BY <1>1, <1>2, <3>1, <3>3 DEF Adds
    <3>5. QED
      BY <2>1, <3>4
  <2>3. k \in 1 .. width /\ k - 1 \in 0 .. width /\ ~(k <= k - 1)
    BY <2>1, <2>2
  <2> HIDE DEF Right
  <2>4. Right(k - 1)
    BY <2>1, <2>3
  <2> USE DEF Right
  <2> DEFINE q == n \div Power[width - k]
             low == Power[k - 1]
             p == Power[width - k]
  <2>5. p \in Nat /\ p > 0 /\ low \in Nat /\ low > 0
    BY <1>3, <2>3
  <2>6. Power[width - (k - 1)] = Base * p /\ Power[k] = Base * low
    <3>1. (width - k) \in Nat /\ (width - k) + 1 = width - (k - 1) /\ k - 1 \in Nat /\ (k - 1) + 1 = k
      BY <2>3
    <3>2. QED
      BY <1>3, <3>1
  <2>7. q \in Int
    BY <2>5, DivMod
  <2>8. value[k - 1] = (q \div Base) % low
    <3>1. (n \div p) \div Base = n \div (Base * p)
      BY <2>5, Digits
    <3>2. QED
      BY <2>4, <2>6, <3>1
  <2>9. value[k] = value[k - 1] * Base + (q % Base)
    BY <1>1, <1>2, <2>3 DEF Adds
  <2>10. q % (Base * low) = Base * ((q \div Base) % low) + (q % Base)
    <3> HIDE DEF q, low
    <3>1. QED
      BY <2>5, <2>7, Digits
  <2>11. (q \div Base) % low \in Int
    <3>1. q \div Base \in Int
      BY <2>7
    <3> HIDE DEF q, low
    <3>2. QED
      BY <2>5, <3>1
  <2>12. value[k] = q % (Base * low)
    <3> HIDE DEF q, low
    <3>1. QED
      BY <2>8, <2>9, <2>10, <2>11
  <2>13. QED
    BY <2>1, <2>6, <2>12
<1>5. value[width] = (n \div Power[width - width]) % Power[width]
  BY <1>4
<1>6. n \div Power[width - width] = n
  <2>1. width - width = 0 /\ Power[0] = 1 /\ n \div 1 = n
    BY PowerStep
  <2>2. QED
    BY <2>1
<1>7. QED
  BY <1>1, <1>2, <1>5, <1>6 DEF b

-----------------------------------------------------------------------------
(***************************************************************************)
(* Pieces of a byte string.                                                *)
(***************************************************************************)
\* piece stands in data behind the first at bytes.
Holds(data, at, piece) ==
  at + Len(piece) <= Len(data) /\ \A i \in 1 .. Len(piece) : data[at + i] = piece[i]

LEMMA PartHeld ==
  ASSUME NEW S, NEW data \in Seq(S), NEW at \in Nat, NEW T, NEW piece \in Seq(T),
         Holds(data, at, piece)
  PROVE  Part(data, at, at + Len(piece)) = piece
<1>1. \A i \in at + 1 .. at + Len(piece) : data[i] \in S
  BY DEF Holds
<1>2. /\ SubSeq(data, at + 1, at + Len(piece)) \in Seq(S)
      /\ Len(SubSeq(data, at + 1, at + Len(piece))) = Len(piece)
      /\ \A i \in 1 .. Len(piece) : SubSeq(data, at + 1, at + Len(piece))[i] = data[at + i]
  <2>1. at + 1 \in Int /\ at + Len(piece) \in Int
    OBVIOUS
  <2>2. /\ SubSeq(data, at + 1, at + Len(piece)) \in Seq(S)
        /\ Len(SubSeq(data, at + 1, at + Len(piece))) =
             IF at + 1 <= at + Len(piece) THEN (at + Len(piece)) - (at + 1) + 1 ELSE 0
        /\ \A i \in 1 .. (at + Len(piece)) - (at + 1) + 1 :
             SubSeq(data, at + 1, at + Len(piece))[i] = data[(at + 1) + i - 1]
    BY <1>1, <2>1, SubSeqProperties
  <2>3. QED
    BY <2>2
<1>3. \A i \in 1 .. Len(piece) : SubSeq(data, at + 1, at + Len(piece))[i] = piece[i]
  BY <1>2 DEF Holds
<1>4. SubSeq(data, at + 1, at + Len(piece)) = piece
  <2>1. SubSeq(data, at + 1, at + Len(piece)) \in Seq(S \cup T) /\ piece \in Seq(S \cup T)
    BY <1>2, SeqMonotonic
  <2>2. QED
    BY <1>2, <1>3, <2>1, SeqEqual
<1>5. QED
  BY <1>4 DEF Part

LEMMA PartOf ==
  ASSUME NEW S, NEW data \in Seq(S), NEW from \in Nat, NEW to \in Nat, from <= to, to <= Len(data)
  PROVE  /\ Part(data, from, to) \in Seq(S) /\ Len(Part(data, from, to)) = to - from
         /\ \A i \in 1 .. to - from : Part(data, from, to)[i] = data[from + i]
<1>1. \A i \in from + 1 .. to : data[i] \in S
  OBVIOUS
<1>2. from + 1 \in Int /\ to \in Int
  OBVIOUS
<1>3. /\ SubSeq(data, from + 1, to) \in Seq(S)
      /\ Len(SubSeq(data, from + 1, to)) = IF from + 1 <= to THEN to - (from + 1) + 1 ELSE 0
      /\ \A i \in 1 .. to - (from + 1) + 1 : SubSeq(data, from + 1, to)[i] = data[(from + 1) + i - 1]
  BY <1>1, <1>2, SubSeqProperties
<1>4. QED
  BY <1>3 DEF Part

LEMMA HoldsWhole ==
  ASSUME NEW S, NEW data \in Seq(S) PROVE Holds(data, 0, data)
BY DEF Holds

\* Of two pieces side by side each is held.
LEMMA HoldsBoth ==
  ASSUME NEW S, NEW data \in Seq(S), NEW at \in Nat, NEW T, NEW a \in Seq(T), NEW b \in Seq(T),
         Holds(data, at, a \o b)
  PROVE  Holds(data, at, a) /\ Holds(data, at + Len(a), b)
<1>1. Len(a \o b) = Len(a) + Len(b)
      /\ \A i \in 1 .. Len(a) + Len(b) : (a \o b)[i] = IF i <= Len(a) THEN a[i] ELSE b[i - Len(a)]
  BY ConcatProperties
<1>2. Holds(data, at, a)
  <2>1. at + Len(a) <= Len(data)
    BY <1>1 DEF Holds
  <2>2. ASSUME NEW i \in 1 .. Len(a) PROVE data[at + i] = a[i]
    <3>1. i \in 1 .. Len(a) + Len(b) /\ i <= Len(a)
      OBVIOUS
    <3>2. data[at + i] = (a \o b)[i]
      BY <1>1, <3>1 DEF Holds
    <3>3. QED
      BY <1>1, <3>1, <3>2
  <2>3. QED
    BY <2>1, <2>2 DEF Holds
<1>3. ASSUME NEW i \in 1 .. Len(b) PROVE data[(at + Len(a)) + i] = b[i]
  <2>1. Len(a) + i \in 1 .. Len(a) + Len(b) /\ ~(Len(a) + i <= Len(a)) /\ (Len(a) + i) - Len(a) = i
    OBVIOUS
  <2>2. data[at + (Len(a) + i)] = (a \o b)[Len(a) + i]
    BY <1>1, <2>1 DEF Holds
  <2>3. QED
    BY <1>1, <2>1, <2>2
<1>4. QED
  BY <1>1, <1>2, <1>3 DEF Holds

\* A piece of a piece.
LEMMA HoldsInner ==
  ASSUME NEW S, NEW data \in Seq(S), NEW at \in Nat, NEW T, NEW a \in Seq(T), NEW in \in Nat,
         NEW U, NEW b \in Seq(U), Holds(data, at, a), Holds(a, in, b)
  PROVE  Holds(data, at + in, b)
<1>1. ASSUME NEW i \in 1 .. Len(b) PROVE data[(at + in) + i] = b[i]
  <2>1. in + i \in 1 .. Len(a)
    BY DEF Holds
  <2>2. data[at + (in + i)] = a[in + i]
    BY <2>1 DEF Holds
  <2>3. QED
    BY <2>2 DEF Holds
<1>2. QED
  BY <1>1 DEF Holds

-----------------------------------------------------------------------------
(***************************************************************************)
(* Concat: where each of its parts lies.                                   *)
(***************************************************************************)
\* The offsets of the parts in what Concat puts together.
Places(offset, parts, data) ==
  /\ offset \in [0 .. Len(parts) -> Nat] /\ offset[0] = 0
  /\ Len(data) = offset[Len(parts)]
  /\ \A k \in 1 .. Len(parts) :
       offset[k] = offset[k - 1] + Len(parts[k]) /\ Holds(data, offset[k - 1], parts[k])

LEMMA ConcatPlaces ==
  ASSUME NEW S, NEW parts \in Seq(Seq(S))
  PROVE  Concat(parts) \in Seq(S) /\ \E offset : Places(offset, parts, Concat(parts))
<1> DEFINE n == Len(parts)
           step == [k \in Nat |-> [s \in Seq(S) |-> IF k \in 1 .. n THEN s \o parts[k] ELSE s]]
           Joins(f) == f = [k \in 0 .. Len(parts) |-> IF k = 0 THEN << >> ELSE f[k - 1] \o parts[k]]
<1>1. n \in Nat /\ \A k \in 1 .. n : parts[k] \in Seq(S)
  OBVIOUS
<1>2. step \in [Nat -> [Seq(S) -> Seq(S)]]
  BY <1>1
<1>3. ASSUME NEW k \in 1 .. n, NEW s \in Seq(S) PROVE step[k][s] = s \o parts[k]
  <2>1. k \in Nat
    BY <1>1
  <2>2. step[k] = [t \in Seq(S) |-> IF k \in 1 .. n THEN t \o parts[k] ELSE t]
    BY <2>1
  <2> HIDE DEF step, n
  <2>3. QED
    BY <2>2
<1> HIDE DEF step
<1>4. PICK f : FollowsTo(f, Seq(S), << >>, step, n)
  <2>1. << >> \in Seq(S)
    OBVIOUS
  <2> HIDE DEF n
  <2>2. QED
    BY <1>1, <1>2, <2>1, BoundedRecursion
<1>5. f \in [0 .. n -> Seq(S)] /\ f[0] = << >>
  BY <1>4 DEF FollowsTo
<1>6. ASSUME NEW k \in 1 .. n PROVE k - 1 \in 0 .. n /\ f[k] = f[k - 1] \o parts[k]
  <2>1. f[k] = step[k][f[k - 1]]
    BY <1>4 DEF FollowsTo
  <2>2. k - 1 \in 0 .. n
    BY <1>1
  <2> HIDE DEF n
  <2>3. QED
    BY <1>3, <1>5, <2>1, <2>2
<1>7. Joins(f)
  <2>1. f = [k \in 0 .. n |-> f[k]]
    BY <1>5
  <2>2. ASSUME NEW k \in 0 .. n PROVE f[k] = IF k = 0 THEN << >> ELSE f[k - 1] \o parts[k]
    <3>1. CASE k = 0
      BY <1>5, <3>1
    <3>2. CASE k # 0
      <4>1. k \in 1 .. n
        BY <1>1, <3>2
      <4>2. QED
        BY <1>6, <3>2, <4>1
    <3>3. QED
      BY <3>1, <3>2
  <2>3. QED
    BY <2>1, <2>2
<1> DEFINE g == CHOOSE g : Joins(g)
<1>8. Joins(g)
  <2> HIDE DEF Joins
  <2>1. QED
    BY <1>7, Zenon
<1>9. Concat(parts) = g[n]
  BY Zenon DEF Concat
<1> HIDE DEF g
<1>10. g[0] = << >> /\ \A k \in 1 .. n : g[k] = g[k - 1] \o parts[k]
  <2>1. ASSUME NEW k \in 0 .. n PROVE g[k] = IF k = 0 THEN << >> ELSE g[k - 1] \o parts[k]
    <3>1. g = [i \in 0 .. n |-> IF i = 0 THEN << >> ELSE g[i - 1] \o parts[i]]
      BY <1>8
    <3> HIDE DEF n
    <3>2. QED
      BY <3>1
  <2>2. 0 \in 0 .. n /\ \A k \in 1 .. n : k \in 0 .. n /\ k # 0
    BY <1>1
  <2> HIDE DEF n
  <2>3. QED
    BY <2>1, <2>2
<1>11. \A k \in 0 .. n : g[k] = f[k]
  <2> DEFINE Bad == {k \in 0 .. n : g[k] # f[k]}
  <2>1. SUFFICES Bad = {}
    OBVIOUS
  <2>2. SUFFICES ASSUME NEW k \in Bad, \A j \in Bad : k <= j PROVE FALSE
    <3>1. Bad \in SUBSET Nat
      OBVIOUS
    <3>2. QED
      BY <3>1, Least
  <2>3. k # 0
    BY <1>5, <1>10
  <2>4. k \in 1 .. n /\ k - 1 \in 0 .. n /\ ~(k <= k - 1)
    BY <1>1, <2>3
  <2>5. g[k - 1] = f[k - 1]
    BY <2>2, <2>4
  <2>6. QED
    BY <1>6, <1>10, <2>4, <2>5
<1>12. Concat(parts) = f[n]
  BY <1>1, <1>9, <1>11
<1> DEFINE offset == [k \in 0 .. n |-> Len(f[k])]
<1>13. offset \in [0 .. n -> Nat] /\ offset[0] = 0
  BY <1>1, <1>5
<1>14. ASSUME NEW k \in 1 .. n PROVE offset[k] = offset[k - 1] + Len(parts[k])
  <2>1. f[k] = f[k - 1] \o parts[k] /\ f[k - 1] \in Seq(S) /\ parts[k] \in Seq(S)
    BY <1>1, <1>5, <1>6
  <2>2. Len(f[k]) = Len(f[k - 1]) + Len(parts[k])
    BY <2>1, ConcatProperties
  <2>3. k \in 0 .. n /\ k - 1 \in 0 .. n
    BY <1>1
  <2> HIDE DEF n
  <2>4. QED
    BY <2>2, <2>3
<1> DEFINE Right(k) == \A j \in 1 .. k : Holds(f[k], Len(f[j - 1]), parts[j])
           Bad == {k \in 0 .. n : ~Right(k)}
<1>15. Bad = {}
  <2>1. SUFFICES ASSUME NEW k \in Bad, \A j \in Bad : k <= j PROVE FALSE
    <3>1. Bad \in SUBSET Nat
      OBVIOUS
    <3> HIDE DEF Bad
    <3>2. QED
      BY <3>1, Least
  <2>2. k # 0
    <3>1. Right(0)
      OBVIOUS
    <3>2. QED
      BY <2>1, <3>1
  <2>3. k \in 1 .. n /\ k - 1 \in 0 .. n /\ ~(k <= k - 1)
    BY <1>1, <2>1, <2>2
  <2>4. Right(k - 1)
    <3> HIDE DEF Right
    <3>1. QED
      BY <2>1, <2>3
  <2>5. f[k] = f[k - 1] \o parts[k] /\ f[k - 1] \in Seq(S) /\ parts[k] \in Seq(S) /\ f[k] \in Seq(S)
    BY <1>1, <1>5, <1>6, <2>3
  <2>6. Holds(f[k], 0, f[k - 1]) /\ Holds(f[k], 0 + Len(f[k - 1]), parts[k])
    <3>1. Holds(f[k], 0, f[k - 1] \o parts[k])
      BY <2>5, HoldsWhole
    <3>2. 0 \in Nat
      OBVIOUS
    <3>3. QED
      BY <2>5, <3>1, <3>2, HoldsBoth
  <2>7. ASSUME NEW j \in 1 .. k PROVE Holds(f[k], Len(f[j - 1]), parts[j])
    <3>1. CASE j = k
      <4>1. Len(f[k - 1]) \in Nat /\ 0 + Len(f[k - 1]) = Len(f[k - 1])
        BY <2>5
      <4>2. QED
        BY <2>6, <3>1, <4>1
    <3>2. CASE j # k
      <4>1. j \in 1 .. k - 1 /\ j \in 1 .. n /\ j - 1 \in 0 .. n
        BY <1>1, <2>3, <3>2
      <4>2. Holds(f[k - 1], Len(f[j - 1]), parts[j])
        BY <2>4, <4>1
      <4>3. Len(f[j - 1]) \in Nat /\ parts[j] \in Seq(S) /\ 0 \in Nat
            /\ 0 + Len(f[j - 1]) = Len(f[j - 1])
        BY <1>1, <1>5, <4>1
      <4>4. Holds(f[k], 0 + Len(f[j - 1]), parts[j])
        BY <2>5, <2>6, <4>2, <4>3, HoldsInner
      <4>5. QED
        BY <4>3, <4>4
    <3>3. QED
      BY <3>1, <3>2
  <2>8. QED
    BY <2>1, <2>7
<1>16. ASSUME NEW k \in 1 .. n PROVE Holds(Concat(parts), offset[k - 1], parts[k])
  <2>1. Right(n)
    <3>1. n \in 0 .. n
      BY <1>1
    <3> HIDE DEF Right, n
    <3>2. QED
      BY <1>15, <3>1
  <2>2. offset[k - 1] = Len(f[k - 1])
    BY <1>6
  <2>3. QED
    BY <1>12, <2>1, <2>2
<1>17. Len(Concat(parts)) = offset[n]
  BY <1>1, <1>12
<1> HIDE DEF offset
<1>18. Places(offset, parts, Concat(parts))
  BY <1>13, <1>14, <1>16, <1>17 DEF Places
<1>19. QED
  BY <1>1, <1>5, <1>12, <1>18

LEMMA Times ==
  ASSUME NEW w \in Nat, w > 0, NEW n \in Nat
  PROVE  n * w \in Nat /\ (n * w) \div w = n /\ (n * w) % w = 0 /\ (n + 1) * w = n * w + w
<1>1. n * w \in Nat /\ (n + 1) * w = n * w + w /\ n * w = w * n + 0
  OBVIOUS
<1>2. n \in Int /\ 0 \in 0 .. w - 1
  OBVIOUS
<1>3. (w * n + 0) \div w = n /\ (w * n + 0) % w = 0
  BY <1>2, DivUnique
<1>4. QED
  BY <1>1, <1>3

\* Parts of one width are found again by Split.
LEMMA SplitConcat ==
  ASSUME NEW S, NEW w \in Nat, w > 0, NEW parts \in Seq(Seq(S)),
         \A k \in 1 .. Len(parts) : Len(parts[k]) = w
  PROVE  /\ Concat(parts) \in Seq(S) /\ Len(Concat(parts)) = Len(parts) * w
         /\ Len(Concat(parts)) % w = 0 /\ Split(Concat(parts), w) = parts
<1> DEFINE n == Len(parts)
           data == Concat(parts)
<1>1. data \in Seq(S)
  BY ConcatPlaces
<1>2. PICK offset : Places(offset, parts, data)
  BY ConcatPlaces
<1>3. n \in Nat /\ \A k \in 1 .. n : parts[k] \in Seq(S) /\ Len(parts[k]) = w
  OBVIOUS
<1> HIDE DEF data
<1>4. /\ offset[0] = 0 /\ Len(data) = offset[n]
      /\ \A k \in 1 .. n : offset[k] = offset[k - 1] + w /\ Holds(data, offset[k - 1], parts[k])
  BY <1>2, <1>3 DEF Places
<1> HIDE DEF n
<1> DEFINE Right(k) == offset[k] = k * w
           Bad == {k \in 0 .. n : ~Right(k)}
<1>5. Bad = {}
  <2>1. SUFFICES ASSUME NEW k \in Bad, \A j \in Bad : k <= j PROVE FALSE
    <3>1. Bad \in SUBSET Nat
      OBVIOUS
    <3> HIDE DEF Bad
    <3>2. QED
      BY <3>1, Least
  <2>2. k # 0
    <3>1. Right(0)
      BY <1>4
    <3>2. QED
      BY <2>1, <3>1
  <2>3. k \in 1 .. n /\ k - 1 \in 0 .. n /\ ~(k <= k - 1) /\ k - 1 \in Nat /\ (k - 1) + 1 = k
    BY <1>3, <2>1, <2>2
  <2>4. Right(k - 1)
    <3> HIDE DEF Right
    <3>1. QED
      BY <2>1, <2>3
  <2>5. ((k - 1) + 1) * w = (k - 1) * w + w
    BY <2>3, Times
  <2>6. offset[k] = offset[k - 1] + w
    BY <1>4, <2>3
  <2>7. offset[k] = k * w
    BY <2>3, <2>4, <2>5, <2>6
  <2>8. QED
    BY <2>1, <2>7
<1>6. \A k \in 0 .. n : offset[k] = k * w
  BY <1>5
<1>7. Len(data) = n * w
  BY <1>3, <1>4, <1>6
<1>8. Len(data) \div w = n /\ Len(data) % w = 0
  BY <1>3, <1>7, Times
<1>9. ASSUME NEW k \in 1 .. n PROVE Part(data, (k - 1) * w, k * w) = parts[k]
  <2>1. k - 1 \in 0 .. n /\ k - 1 \in Nat /\ (k - 1) + 1 = k
    BY <1>3
  <2>2. offset[k - 1] = (k - 1) * w /\ (k - 1) * w \in Nat /\ k * w = (k - 1) * w + w
    <3>1. ((k - 1) + 1) * w = (k - 1) * w + w /\ (k - 1) * w \in Nat
      BY <2>1, Times
    <3>2. QED
      BY <1>6, <2>1, <3>1
  <2>3. Holds(data, (k - 1) * w, parts[k]) /\ Len(parts[k]) = w /\ parts[k] \in Seq(S)
    BY <1>3, <1>4, <2>2
  <2>4. PICK at \in Nat : at = (k - 1) * w
    BY <2>2
  <2>5. Holds(data, at, parts[k])
    BY <2>3, <2>4
  <2>6. Part(data, at, at + Len(parts[k])) = parts[k]
    BY <1>1, <2>3, <2>5, PartHeld
  <2>7. QED
    BY <2>2, <2>3, <2>4, <2>6
<1>10. Split(data, w) = parts
  <2>1. Split(data, w) = [k \in 1 .. n |-> Part(data, (k - 1) * w, k * w)]
    BY <1>8 DEF Split
  <2>2. Split(data, w) = [k \in 1 .. n |-> parts[k]]
    BY <1>9, <2>1
  <2>3. QED
    BY <2>2 DEF n
<1>11. QED
  BY <1>1, <1>7, <1>8, <1>10 DEF data, n

-----------------------------------------------------------------------------
(***************************************************************************)
(* Fields.                                                                 *)
(***************************************************************************)
LEMMA Widths ==
  /\ WordBytes \in Nat /\ WordBytes > 0 /\ HalfBytes \in Nat /\ HalfBytes > 0
  /\ LongBytes \in Nat /\ LongBytes > 0 /\ NonceBytes \in Nat /\ NonceBytes > 0
  /\ SignatureBytes \in Nat /\ SignatureBytes > 0
BY CodecAssumption

LEMMA Small ==
  ASSUME NEW x \in Int, NEW p \in Nat, p > 0
  PROVE  /\ x \in 0 .. p - 1 => x % p = x
         /\ x \in -p .. -1 => x % p = x + p
<1>1. ASSUME x \in 0 .. p - 1 PROVE x % p = x
  <2>1. x = p * 0 + x /\ 0 \in Int
    BY <1>1
  <2>2. (p * 0 + x) % p = x
    BY <1>1, <2>1, DivUnique
  <2>3. QED
    BY <2>1, <2>2
<1>2. ASSUME x \in -p .. -1 PROVE x % p = x + p
  <2>1. x + p \in 0 .. p - 1 /\ x = p * (-1) + (x + p) /\ -1 \in Int
    BY <1>2
  <2>2. (p * (-1) + (x + p)) % p = x + p
    BY <2>1, DivUnique
  <2>3. QED
    BY <2>1, <2>2
<1>3. QED
  BY <1>1, <1>2

\* A number that fits into its field is read as it was.
LEMMA NumberHeld ==
  ASSUME NEW S, NEW data \in Seq(S), NEW at \in Nat, NEW n \in Int, NEW width \in Nat,
         Holds(data, at, Bytes(n, width))
  PROVE  /\ Number(Part(data, at, at + width)) = n % Power[width]
         /\ n \in Unsigned(width) => Number(Part(data, at, at + width)) = n
         /\ n \in SignedInts(width) => Signed(Number(Part(data, at, at + width)), width) = n
<1>1. Bytes(n, width) \in Seq(Octets) /\ Len(Bytes(n, width)) = width
  BY BytesType
<1>2. Part(data, at, at + Len(Bytes(n, width))) = Bytes(n, width)
  BY <1>1, PartHeld
<1>3. Number(Part(data, at, at + width)) = n % Power[width]
  BY <1>1, <1>2, NumberOfBytes
<1> DEFINE p == Power[width]
<1>4. p \in Nat /\ p > 0
  BY PowerStep
<1>5. ASSUME n \in Unsigned(width) PROVE n % p = n
  <2>1. n \in 0 .. p - 1
    BY <1>5 DEF Unsigned
  <2> HIDE DEF p
  <2>2. QED
    BY <1>4, <2>1, Small
<1>6. ASSUME n \in SignedInts(width) PROVE Signed(n % p, width) = n
  <2> DEFINE h == p \div 2
  <2>1. h \in Nat /\ (p = 2 * h \/ p = 2 * h + 1)
    BY <1>4
  <2>2. n \in h - p .. h - 1
    BY <1>6 DEF SignedInts
  <2>3. Signed(n % p, width) = IF n % p >= h THEN (n % p) - p ELSE n % p
    BY DEF Signed
  <2> HIDE DEF h, p
  <2>4. n \in 0 .. p - 1 => n % p = n
    BY <1>4, Small
  <2>5. n \in -p .. -1 => n % p = n + p
    BY <1>4, Small
  <2>6. CASE n >= 0
    BY <1>4, <2>1, <2>2, <2>3, <2>4, <2>6
  <2>7. CASE n < 0
    BY <1>4, <2>1, <2>2, <2>3, <2>5, <2>7
  <2>8. QED
    BY <2>2, <2>6, <2>7, <1>4, <2>1
<1>7. QED
  BY <1>3, <1>5, <1>6

LEMMA WordType ==
  ASSUME NEW n \in Int
  PROVE  /\ Word(n) \in Seq(Octets) /\ Len(Word(n)) = WordBytes
         /\ Half(n) \in Seq(Octets) /\ Len(Half(n)) = HalfBytes
         /\ Long(n) \in Seq(Octets) /\ Len(Long(n)) = LongBytes
BY Widths, BytesType DEF Word, Half, Long

LEMMA WordHeld ==
  ASSUME NEW S, NEW data \in Seq(S), NEW at \in Nat, NEW n \in Int, Holds(data, at, Word(n))
  PROVE  /\ WordAt(data, at) = n % Power[WordBytes]
         /\ n \in Words => WordAt(data, at) = n
         /\ n \in SignedInts(WordBytes) => Signed(WordAt(data, at), WordBytes) = n
BY Widths, NumberHeld DEF Word, WordAt, Words

LEMMA NumberTypes ==
  /\ Words \subseteq Nat /\ Halves \subseteq Nat /\ Octets \subseteq Nat
  /\ SignedInts(WordBytes) \subseteq Int /\ SignedInts(LongBytes) \subseteq Int
<1>1. \A k \in Nat : Power[k] \in Nat /\ Power[k] > 0
  BY PowerStep
<1>2. QED
  BY <1>1, Widths, CodecAssumption DEF Words, Halves, Octets, Unsigned, SignedInts

LEMMA TextType ==
  ASSUME NEW s \in Seq(Octets)
  PROVE  Text(s) \in Seq(Octets) /\ Len(Text(s)) = WordBytes + Len(s)
<1>1. Len(s) \in Int
  OBVIOUS
<1>2. Word(Len(s)) \in Seq(Octets) /\ Len(Word(Len(s))) = WordBytes
  BY <1>1, WordType
<1>3. QED
  BY <1>2, ConcatProperties DEF Text

\* A text is found behind its length.
LEMMA TextHeld ==
  ASSUME NEW S, NEW data \in Seq(S), NEW at \in Nat, NEW s \in Texts, Holds(data, at, Text(s))
  PROVE  TextEnd(data, at) = at + Len(Text(s)) /\ TextAt(data, at) = s
<1>1. s \in Seq(Octets) /\ Len(s) \in Nat /\ Len(s) < Power[WordBytes] \div 2
  BY DEF Texts
<1>2. Word(Len(s)) \in Seq(Octets) /\ Len(Word(Len(s))) = WordBytes /\ WordBytes \in Nat
  BY <1>1, WordType, Widths
<1>3. Holds(data, at, Word(Len(s)) \o s)
  BY DEF Text
<1>4. Holds(data, at, Word(Len(s))) /\ Holds(data, at + Len(Word(Len(s))), s)
  BY <1>1, <1>2, <1>3, HoldsBoth
<1>5. Len(s) \in SignedInts(WordBytes)
  <2>1. Power[WordBytes] \in Nat /\ Power[WordBytes] > 0
    BY PowerStep, Widths
  <2>2. QED
    BY <1>1, <2>1 DEF SignedInts
<1>6. Signed(WordAt(data, at), WordBytes) = Len(s)
  <2>1. Len(s) \in Int
    BY <1>1
  <2>2. QED
    BY <1>4, <1>5, <2>1, WordHeld
<1>7. TextEnd(data, at) = at + WordBytes + Len(s)
  BY <1>6 DEF TextEnd
<1>8. Part(data, at + WordBytes, (at + WordBytes) + Len(s)) = s
  <2>1. at + WordBytes \in Nat /\ Holds(data, at + WordBytes, s)
    BY <1>2, <1>4
  <2>2. QED
    BY <1>1, <2>1, PartHeld
<1>9. TextAt(data, at) = s
  BY <1>7, <1>8 DEF TextAt
<1>10. at + WordBytes + Len(s) = at + Len(Text(s))
  <2>1. Len(Text(s)) = WordBytes + Len(s)
    BY <1>1, TextType
  <2>2. QED
    BY <1>1, <1>2, <2>1
<1>11. QED
  BY <1>7, <1>9, <1>10

\* What goes over the wire: bytes, and the first byte of a message.
Tags ==
  {"MoveCommand", "StartGame", "GameEnd", "TextMessage", "Board", "CellUpdate", "GamemodeInfo",
   "SpawnServerRequest", "GetGameServers", "ServerSpawned", "SendGameServers",
   "RegisterPlayerRequest", "AuthRequest", "AuthWithMMToken", "ConnectToGameRequest",
   "ConnectToGameResponse", "AuthResponse"}
Wire == Octets \cup Tags

LEMMA OnWire ==
  ASSUME NEW s \in Seq(Octets) PROVE s \in Seq(Wire)
BY SeqMonotonic DEF Wire

-----------------------------------------------------------------------------
(***************************************************************************)
(* Several fields in a row.                                                *)
(***************************************************************************)
LEMMA Two ==
  ASSUME NEW S, NEW a \in Seq(S), NEW b \in Seq(S)
  PROVE  /\ a \o b \in Seq(S) /\ Len(a \o b) = Len(a) + Len(b)
         /\ Holds(a \o b, 0, a) /\ Holds(a \o b, Len(a), b)
<1>1. a \o b \in Seq(S) /\ Len(a \o b) = Len(a) + Len(b)
  BY ConcatProperties
<1>2. Holds(a \o b, 0, a \o b) /\ 0 \in Nat
  BY <1>1, HoldsWhole
<1>3. Holds(a \o b, 0, a) /\ Holds(a \o b, 0 + Len(a), b)
  BY <1>1, <1>2, HoldsBoth
<1>4. 0 + Len(a) = Len(a)
  OBVIOUS
<1>5. QED
  BY <1>1, <1>3, <1>4

\* A further field leaves the ones in front of it where they are.
LEMMA StillHolds ==
  ASSUME NEW S, NEW a \in Seq(S), NEW b \in Seq(S), NEW at \in Nat, NEW T, NEW c \in Seq(T),
         Holds(a, at, c)
  PROVE  Holds(a \o b, at, c)
<1>1. a \o b \in Seq(S) /\ Holds(a \o b, 0, a) /\ 0 \in Nat /\ 0 + at = at
  BY Two
<1>2. Holds(a \o b, 0 + at, c)
  BY <1>1, HoldsInner
<1>3. QED
  BY <1>1, <1>2

LEMMA Three ==
  ASSUME NEW S, NEW a \in Seq(S), NEW b \in Seq(S), NEW c \in Seq(S)
  PROVE  /\ a \o b \o c \in Seq(S) /\ Len(a \o b \o c) = Len(a) + Len(b) + Len(c)
         /\ Holds(a \o b \o c, 0, a) /\ Holds(a \o b \o c, Len(a), b)
         /\ Holds(a \o b \o c, Len(a) + Len(b), c)
<1>1. a \o b \in Seq(S) /\ Len(a \o b) = Len(a) + Len(b)
      /\ Holds(a \o b, 0, a) /\ Holds(a \o b, Len(a), b)
  BY Two
<1>2. /\ (a \o b) \o c \in Seq(S) /\ Len((a \o b) \o c) = Len(a \o b) + Len(c)
      /\ Holds((a \o b) \o c, Len(a \o b), c)
  BY <1>1, Two
<1>3. 0 \in Nat /\ Len(a) \in Nat
  OBVIOUS
<1>4. Holds((a \o b) \o c, 0, a)
  BY <1>1, <1>3, StillHolds
<1>5. Holds((a \o b) \o c, Len(a), b)
  BY <1>1, <1>3, StillHolds
<1>6. QED
  BY <1>1, <1>2, <1>4, <1>5

LEMMA Four ==
  ASSUME NEW S, NEW a \in Seq(S), NEW b \in Seq(S), NEW c \in Seq(S), NEW d \in Seq(S)
  PROVE  /\ a \o b \o c \o d \in Seq(S)
         /\ Len(a \o b \o c \o d) = Len(a) + Len(b) + Len(c) + Len(d)
         /\ Holds(a \o b \o c \o d, 0, a) /\ Holds(a \o b \o c \o d, Len(a), b)
         /\ Holds(a \o b \o c \o d, Len(a) + Len(b), c)
         /\ Holds(a \o b \o c \o d, Len(a) + Len(b) + Len(c), d)
<1>1. /\ a \o b \o c \in Seq(S) /\ Len(a \o b \o c) = Len(a) + Len(b) + Len(c)
      /\ Holds(a \o b \o c, 0, a) /\ Holds(a \o b \o c, Len(a), b)
      /\ Holds(a \o b \o c, Len(a) + Len(b), c)
  BY Three
<1>2. /\ (a \o b \o c) \o d \in Seq(S) /\ Len((a \o b \o c) \o d) = Len(a \o b \o c) + Len(d)
      /\ Holds((a \o b \o c) \o d, Len(a \o b \o c), d)
  BY <1>1, Two
<1>3. 0 \in Nat /\ Len(a) \in Nat /\ Len(a) + Len(b) \in Nat
  OBVIOUS
<1>4. Holds((a \o b \o c) \o d, 0, a)
  BY <1>1, <1>3, StillHolds
<1>5. Holds((a \o b \o c) \o d, Len(a), b)
  BY <1>1, <1>3, StillHolds
<1>6. Holds((a \o b \o c) \o d, Len(a) + Len(b), c)
  BY <1>1, <1>3, StillHolds
<1>7. QED
  BY <1>1, <1>2, <1>4, <1>5, <1>6

LEMMA Five ==
  ASSUME NEW S, NEW a \in Seq(S), NEW b \in Seq(S), NEW c \in Seq(S), NEW d \in Seq(S),
         NEW e \in Seq(S)
  PROVE  /\ a \o b \o c \o d \o e \in Seq(S)
         /\ Len(a \o b \o c \o d \o e) = Len(a) + Len(b) + Len(c) + Len(d) + Len(e)
         /\ Holds(a \o b \o c \o d \o e, 0, a) /\ Holds(a \o b \o c \o d \o e, Len(a), b)
         /\ Holds(a \o b \o c \o d \o e, Len(a) + Len(b), c)
         /\ Holds(a \o b \o c \o d \o e, Len(a) + Len(b) + Len(c), d)
         /\ Holds(a \o b \o c \o d \o e, Len(a) + Len(b) + Len(c) + Len(d), e)
<1>1. /\ a \o b \o c \o d \in Seq(S)
      /\ Len(a \o b \o c \o d) = Len(a) + Len(b) + Len(c) + Len(d)
      /\ Holds(a \o b \o c \o d, 0, a) /\ Holds(a \o b \o c \o d, Len(a), b)
      /\ Holds(a \o b \o c \o d, Len(a) + Len(b), c)
      /\ Holds(a \o b \o c \o d, Len(a) + Len(b) + Len(c), d)
  BY Four
<1>2. /\ (a \o b \o c \o d) \o e \in Seq(S)
      /\ Len((a \o b \o c \o d) \o e) = Len(a \o b \o c \o d) + Len(e)
      /\ Holds((a \o b \o c \o d) \o e, Len(a \o b \o c \o d), e)
  BY <1>1, Two
<1>3. 0 \in Nat /\ Len(a) \in Nat /\ Len(a) + Len(b) \in Nat /\ Len(a) + Len(b) + Len(c) \in Nat
  OBVIOUS
<1>4. Holds((a \o b \o c \o d) \o e, 0, a)
  BY <1>1, <1>3, StillHolds
<1>5. Holds((a \o b \o c \o d) \o e, Len(a), b)
  BY <1>1, <1>3, StillHolds
<1>6. Holds((a \o b \o c \o d) \o e, Len(a) + Len(b), c)
  BY <1>1, <1>3, StillHolds
<1>7. Holds((a \o b \o c \o d) \o e, Len(a) + Len(b) + Len(c), d)
  BY <1>1, <1>3, StillHolds
<1>8. QED
  BY <1>1, <1>2, <1>4, <1>5, <1>6, <1>7

-----------------------------------------------------------------------------
\* A message as it goes over the wire, with any number for its length.
Packet(tag, flags, n, payload) == <<tag, flags>> \o Word(n) \o payload

\* The header of a message and what follows it.
LEMMA HeaderHeld ==
  ASSUME NEW tag \in Tags, NEW flags \in Octets, NEW n \in Words, NEW payload \in Seq(Octets)
  PROVE  LET data == Packet(tag, flags, n, payload) IN
         /\ data \in Seq(Wire) /\ Len(data) = HeaderLength + Len(payload)
         /\ data[1] = tag /\ data[2] = flags /\ WordAt(data, 2) = n
         /\ Holds(data, HeaderLength, payload)
<1> DEFINE two == <<tag, flags>>
           data == Packet(tag, flags, n, payload)
<1>1. two \in Seq(Wire) /\ Len(two) = 2 /\ two[1] = tag /\ two[2] = flags
  <2>1. tag \in Wire /\ flags \in Wire
    BY DEF Wire
  <2>2. QED
    BY <2>1
<1>2. n \in Int
  BY NumberTypes
<1>3. Word(n) \in Seq(Octets) /\ Word(n) \in Seq(Wire) /\ Len(Word(n)) = WordBytes /\ WordBytes \in Nat
  BY <1>2, WordType, OnWire, Widths
<1>4. payload \in Seq(Wire) /\ Len(payload) \in Nat
  BY OnWire
<1> HIDE DEF two
<1>5. /\ two \o Word(n) \o payload \in Seq(Wire)
      /\ Len(two \o Word(n) \o payload) = Len(two) + Len(Word(n)) + Len(payload)
      /\ Holds(two \o Word(n) \o payload, 0, two)
      /\ Holds(two \o Word(n) \o payload, Len(two), Word(n))
      /\ Holds(two \o Word(n) \o payload, Len(two) + Len(Word(n)), payload)
  <2>1. \A a, b, c \in Seq(Wire) :
          /\ a \o b \o c \in Seq(Wire) /\ Len(a \o b \o c) = Len(a) + Len(b) + Len(c)
          /\ Holds(a \o b \o c, 0, a) /\ Holds(a \o b \o c, Len(a), b)
          /\ Holds(a \o b \o c, Len(a) + Len(b), c)
    BY Three
  <2>2. two \in Seq(Wire) /\ Word(n) \in Seq(Wire) /\ payload \in Seq(Wire)
    BY <1>1, <1>3, <1>4
  <2>3. QED
    BY <2>1, <2>2, Zenon
<1>6. data = two \o Word(n) \o payload
  BY DEF Packet, two
<1> HIDE DEF data
<1>7. /\ data \in Seq(Wire) /\ Len(data) = HeaderLength + Len(payload)
      /\ Holds(data, HeaderLength, payload) /\ Holds(data, 2, Word(n)) /\ Holds(data, 0, two)
  BY <1>1, <1>3, <1>4, <1>5, <1>6 DEF HeaderLength
<1>8. data[1] = tag /\ data[2] = flags
  <2>1. 1 \in 1 .. Len(two) /\ 2 \in 1 .. Len(two) /\ 0 + 1 = 1 /\ 0 + 2 = 2
    BY <1>1
  <2>2. data[0 + 1] = two[1] /\ data[0 + 2] = two[2]
    BY <1>7, <2>1 DEF Holds
  <2>3. QED
    BY <1>1, <2>1, <2>2
<1>9. WordAt(data, 2) = n
  <2>1. 2 \in Nat
    OBVIOUS
  <2>2. QED
    BY <1>2, <1>7, <2>1, WordHeld
<1>10. QED
  BY <1>7, <1>8, <1>9 DEF data

\* A frame is well formed, and its payload is found again.
LEMMA FrameHeld ==
  ASSUME NEW tag \in Tags, NEW flags \in Octets, NEW payload \in Seq(Octets),
         Len(payload) \in Words
  PROVE  LET data == Frame(tag, flags, payload) IN
         /\ data \in Seq(Wire) /\ Len(data) = HeaderLength + Len(payload)
         /\ data[1] = tag /\ data[2] = flags /\ WordAt(data, 2) = Len(payload)
         /\ WellFormed(data, tag) /\ Payload(data) = payload /\ Holds(data, HeaderLength, payload)
<1> DEFINE data == Frame(tag, flags, payload)
<1>1. data = Packet(tag, flags, Len(payload), payload)
  BY DEF Frame, Packet
<1> HIDE DEF data
<1>2. /\ data \in Seq(Wire) /\ Len(data) = HeaderLength + Len(payload)
      /\ data[1] = tag /\ data[2] = flags /\ WordAt(data, 2) = Len(payload)
      /\ Holds(data, HeaderLength, payload)
  BY <1>1, HeaderHeld
<1>3. HeaderLength \in Nat /\ Len(payload) \in Nat
  BY Widths DEF HeaderLength
<1>4. Part(data, HeaderLength, HeaderLength + Len(payload)) = payload
  BY <1>2, <1>3, PartHeld
<1>5. Payload(data) = payload
  BY <1>2, <1>4 DEF Payload, From
<1>6. WellFormed(data, tag)
  <2>1. Len(data) >= HeaderLength /\ Len(data) - HeaderLength = Len(payload)
    BY <1>2, <1>3
  <2>2. QED
    BY <1>2, <2>1 DEF WellFormed
<1>7. QED
  BY <1>2, <1>5, <1>6 DEF data

\* The same for the fields of a payload.
LEMMA TwoFields ==
  \A a, b \in Seq(Octets) :
    /\ a \o b \in Seq(Octets) /\ Len(a \o b) = Len(a) + Len(b)
    /\ Holds(a \o b, 0, a) /\ Holds(a \o b, Len(a), b)
BY Two

LEMMA ThreeFields ==
  \A a, b, c \in Seq(Octets) :
    /\ a \o b \o c \in Seq(Octets) /\ Len(a \o b \o c) = Len(a) + Len(b) + Len(c)
    /\ Holds(a \o b \o c, 0, a) /\ Holds(a \o b \o c, Len(a), b)
    /\ Holds(a \o b \o c, Len(a) + Len(b), c)
BY Three

LEMMA FourFields ==
  \A a, b, c, d \in Seq(Octets) :
    /\ a \o b \o c \o d \in Seq(Octets)
    /\ Len(a \o b \o c \o d) = Len(a) + Len(b) + Len(c) + Len(d)
    /\ Holds(a \o b \o c \o d, 0, a) /\ Holds(a \o b \o c \o d, Len(a), b)
    /\ Holds(a \o b \o c \o d, Len(a) + Len(b), c)
    /\ Holds(a \o b \o c \o d, Len(a) + Len(b) + Len(c), d)
BY Four

LEMMA FiveFields ==
  \A a, b, c, d, e \in Seq(Octets) :
    /\ a \o b \o c \o d \o e \in Seq(Octets)
    /\ Len(a \o b \o c \o d \o e) = Len(a) + Len(b) + Len(c) + Len(d) + Len(e)
    /\ Holds(a \o b \o c \o d \o e, 0, a) /\ Holds(a \o b \o c \o d \o e, Len(a), b)
    /\ Holds(a \o b \o c \o d \o e, Len(a) + Len(b), c)
    /\ Holds(a \o b \o c \o d \o e, Len(a) + Len(b) + Len(c), d)
    /\ Holds(a \o b \o c \o d \o e, Len(a) + Len(b) + Len(c) + Len(d), e)
BY Five

LEMMA ByteType ==
  ASSUME NEW x \in Octets PROVE <<x>> \in Seq(Octets) /\ Len(<<x>>) = 1
OBVIOUS

LEMMA ByteHeld ==
  ASSUME NEW data, NEW at \in Nat, NEW x, Holds(data, at, <<x>>)
  PROVE  data[at + 1] = x
<1>1. Len(<<x>>) = 1 /\ 1 \in 1 .. 1 /\ <<x>>[1] = x
  OBVIOUS
<1>2. QED
  BY <1>1 DEF Holds

\* A word of a payload.
LEMMA WordIn ==
  ASSUME NEW p \in Seq(Octets), NEW at \in Nat, NEW n \in Words, Holds(p, at, Word(n))
  PROVE  WordAt(p, at) = n
<1>1. n \in Int
  BY NumberTypes
<1>2. QED
  BY <1>1, WordHeld

LEMMA HalfIn ==
  ASSUME NEW S, NEW p \in Seq(S), NEW at \in Nat, NEW n \in Halves, Holds(p, at, Half(n))
  PROVE  Number(Part(p, at, at + HalfBytes)) = n
<1>1. n \in Int
  BY NumberTypes
<1>2. QED
  BY <1>1, NumberHeld, Widths DEF Half, Halves

LEMMA FieldType ==
  ASSUME NEW n \in Words
  PROVE  Word(n) \in Seq(Octets) /\ Len(Word(n)) = WordBytes /\ WordBytes \in Nat
<1>1. n \in Int
  BY NumberTypes
<1>2. QED
  BY <1>1, WordType, Widths

LEMMA FrameLength ==
  ASSUME NEW tag \in Tags, NEW flags \in Octets, NEW n \in Int, NEW payload \in Seq(Octets)
  PROVE  Len(Packet(tag, flags, n, payload)) = HeaderLength + Len(payload)
<1> DEFINE two == <<tag, flags>>
<1>1. two \in Seq(Wire) /\ Len(two) = 2
  <2>1. tag \in Wire /\ flags \in Wire
    BY DEF Wire
  <2>2. QED
    BY <2>1
<1>2. Word(n) \in Seq(Wire) /\ Len(Word(n)) = WordBytes /\ WordBytes \in Nat
  BY WordType, OnWire, Widths
<1>3. payload \in Seq(Wire) /\ Len(payload) \in Nat
  BY OnWire
<1> HIDE DEF two
<1>4. \A a, b, c \in Seq(Wire) : Len(a \o b \o c) = Len(a) + Len(b) + Len(c)
  BY Three
<1>5. Len(two \o Word(n) \o payload) = Len(two) + Len(Word(n)) + Len(payload)
  BY <1>1, <1>2, <1>3, <1>4
<1>6. Packet(tag, flags, n, payload) = two \o Word(n) \o payload
  BY DEF Packet, two
<1>7. QED
  BY <1>1, <1>2, <1>3, <1>5, <1>6 DEF HeaderLength

\* What is known of the frame of a message that can be sent.
Framed(data, tag, flags, payload) ==
  /\ Len(payload) \in Words
  /\ data \in Seq(Wire) /\ Len(data) = HeaderLength + Len(payload)
  /\ data[1] = tag /\ data[2] = flags /\ WordAt(data, 2) = Len(payload)
  /\ WellFormed(data, tag) /\ Payload(data) = payload /\ Holds(data, HeaderLength, payload)

LEMMA FrameSent ==
  ASSUME NEW m, Sendable(m), NEW data \in Encodings(m),
         NEW tag \in Tags, NEW flags \in Octets, NEW payload \in Seq(Octets),
         data = Frame(tag, flags, payload)
  PROVE  Framed(data, tag, flags, payload)
<1>1. Len(payload) \in Nat /\ HeaderLength \in Nat
  BY Widths DEF HeaderLength
<1>2. Len(data) = HeaderLength + Len(payload)
  <2>1. data = Packet(tag, flags, Len(payload), payload)
    BY DEF Frame, Packet
  <2>2. Len(payload) \in Int
    BY <1>1
  <2>3. QED
    BY <2>1, <2>2, FrameLength
<1>3. Len(payload) + 1 \in Words
  <2>1. Len(data) + 1 - HeaderLength \in Words
    BY DEF Sendable
  <2>2. Len(data) + 1 - HeaderLength = Len(payload) + 1
    BY <1>1, <1>2
  <2>3. QED
    BY <2>1, <2>2
<1>4. Len(payload) \in Words
  <2>1. Power[WordBytes] \in Nat
    BY PowerStep, Widths
  <2>2. QED
    BY <1>1, <1>3, <2>1 DEF Words, Unsigned
<1>5. QED
  BY <1>4, FrameHeld DEF Framed

\* The message comes back: the frame is cut off at its length and decoded.
Back(m, data, wanted) ==
  /\ data \in Seq(Wire) /\ Len(data) >= HeaderLength
  /\ WordAt(data, 2) = Len(data) - HeaderLength
  /\ Decoded(data, wanted) = Got(Narrowed(m))

LEMMA BackOf ==
  ASSUME NEW m, NEW data, NEW wanted, NEW tag, NEW flags, NEW payload \in Seq(Octets),
         Framed(data, tag, flags, payload), Decoded(data, wanted) = Got(Narrowed(m))
  PROVE  Back(m, data, wanted)
<1>1. HeaderLength \in Nat /\ Len(payload) \in Nat
  BY Widths DEF HeaderLength
<1>2. QED
  BY <1>1 DEF Framed, Back

-----------------------------------------------------------------------------
(***************************************************************************)
(* Every kind of message comes back.                                       *)
(***************************************************************************)
LEMMA MoveBack ==
  ASSUME NEW m, m.kind = "MoveCommand", Sendable(m), NEW data \in Encodings(m), NEW wanted
  PROVE  Back(m, data, wanted)
<1> DEFINE payload == <<m.type>> \o Word(m.X) \o Word(m.Y) \o Word(m.PlayerId)
<1>1. m \in [kind : {"MoveCommand"}, type : Octets, X : Words, Y : Words, PlayerId : Words]
  BY DEF Sendable, HasType
<1>2. m.type \in Octets /\ m.X \in Words /\ m.Y \in Words /\ m.PlayerId \in Words
  BY <1>1
<1>3. /\ <<m.type>> \in Seq(Octets) /\ Len(<<m.type>>) = 1
      /\ Word(m.X) \in Seq(Octets) /\ Len(Word(m.X)) = WordBytes
      /\ Word(m.Y) \in Seq(Octets) /\ Len(Word(m.Y)) = WordBytes
      /\ Word(m.PlayerId) \in Seq(Octets) /\ Len(Word(m.PlayerId)) = WordBytes
      /\ WordBytes \in Nat
  BY <1>2, FieldType, ByteType
<1>4. /\ payload \in Seq(Octets)
      /\ Holds(payload, 0, <<m.type>>) /\ Holds(payload, 1, Word(m.X))
      /\ Holds(payload, 1 + WordBytes, Word(m.Y))
      /\ Holds(payload, 1 + 2 * WordBytes, Word(m.PlayerId))
  <2>1. 1 + WordBytes + WordBytes = 1 + 2 * WordBytes
    BY <1>3
  <2>2. /\ payload \in Seq(Octets)
        /\ Holds(payload, 0, <<m.type>>) /\ Holds(payload, Len(<<m.type>>), Word(m.X))
        /\ Holds(payload, Len(<<m.type>>) + Len(Word(m.X)), Word(m.Y))
        /\ Holds(payload, Len(<<m.type>>) + Len(Word(m.X)) + Len(Word(m.Y)), Word(m.PlayerId))
    BY <1>3, FourFields, Zenon
  <2> HIDE DEF payload
  <2>3. QED
    BY <1>3, <2>1, <2>2
<1>5. data = Frame("MoveCommand", 0, payload)
  BY DEF Encodings, EncodeMove
<1> HIDE DEF payload
<1>6. Framed(data, "MoveCommand", 0, payload)
  <2>1. "MoveCommand" \in Tags /\ 0 \in Octets
    BY CodecAssumption DEF Tags, Octets
  <2>2. QED
    BY <1>4, <1>5, <2>1, FrameSent
<1>7. /\ payload[1] = m.type /\ WordAt(payload, 1) = m.X
      /\ WordAt(payload, 1 + WordBytes) = m.Y /\ WordAt(payload, 1 + 2 * WordBytes) = m.PlayerId
  <2>1. payload[0 + 1] = m.type /\ 0 + 1 = 1
    BY <1>4, ByteHeld
  <2>2. 1 \in Nat /\ 1 + WordBytes \in Nat /\ 1 + 2 * WordBytes \in Nat
    BY <1>3
  <2>3. QED
    BY <1>2, <1>4, <2>1, <2>2, WordIn
<1>8. DecodeMove(data) =
        Got([kind |-> "MoveCommand", type |-> m.type, X |-> m.X, Y |-> m.Y, PlayerId |-> m.PlayerId])
  BY <1>6, <1>7 DEF DecodeMove, Framed, When
<1>9. m = [kind |-> "MoveCommand", type |-> m.type, X |-> m.X, Y |-> m.Y, PlayerId |-> m.PlayerId]
  BY <1>1
<1>10. Decoded(data, wanted) = DecodeMove(data)
  BY <1>6 DEF Decoded, Framed
<1>11. Narrowed(m) = m
  BY DEF Narrowed
<1>12. QED
  BY <1>4, <1>6, <1>8, <1>9, <1>10, <1>11, BackOf

LEMMA StartBack ==
  ASSUME NEW m, m.kind = "StartGame", Sendable(m), NEW data \in Encodings(m), NEW wanted
  PROVE  Back(m, data, wanted)
<1> DEFINE payload == Word(m.Width) \o Word(m.Height) \o Word(m.Mines) \o <<m.GameMode>>
<1>1. m \in [kind : {"StartGame"}, Width : Int, Height : Int, Mines : Int, GameMode : Octets]
  BY DEF Sendable, HasType
<1>2. m.Width \in Int /\ m.Height \in Int /\ m.Mines \in Int /\ m.GameMode \in Octets
  BY <1>1
<1>3. /\ <<m.GameMode>> \in Seq(Octets) /\ Len(<<m.GameMode>>) = 1
      /\ Word(m.Width) \in Seq(Octets) /\ Len(Word(m.Width)) = WordBytes
      /\ Word(m.Height) \in Seq(Octets) /\ Len(Word(m.Height)) = WordBytes
      /\ Word(m.Mines) \in Seq(Octets) /\ Len(Word(m.Mines)) = WordBytes
      /\ WordBytes \in Nat
  BY <1>2, Widths, WordType, ByteType
<1>4. /\ payload \in Seq(Octets) /\ Len(payload) = 3 * WordBytes + 1
      /\ Holds(payload, 0, Word(m.Width)) /\ Holds(payload, WordBytes, Word(m.Height))
      /\ Holds(payload, 2 * WordBytes, Word(m.Mines))
      /\ Holds(payload, 3 * WordBytes, <<m.GameMode>>)
  <2>1. /\ WordBytes + WordBytes = 2 * WordBytes
        /\ WordBytes + WordBytes + WordBytes = 3 * WordBytes
    BY <1>3
  <2>2. /\ payload \in Seq(Octets)
        /\ Len(payload) = Len(Word(m.Width)) + Len(Word(m.Height)) + Len(Word(m.Mines))
                          + Len(<<m.GameMode>>)
        /\ Holds(payload, 0, Word(m.Width)) /\ Holds(payload, Len(Word(m.Width)), Word(m.Height))
        /\ Holds(payload, Len(Word(m.Width)) + Len(Word(m.Height)), Word(m.Mines))
        /\ Holds(payload, Len(Word(m.Width)) + Len(Word(m.Height)) + Len(Word(m.Mines)),
                 <<m.GameMode>>)
    BY <1>3, FourFields, Zenon
  <2> HIDE DEF payload
  <2>3. QED
    BY <1>3, <2>1, <2>2
<1>5. data = Frame("StartGame", 0, payload)
  BY DEF Encodings, EncodeGameStart
<1> HIDE DEF payload
<1>6. Framed(data, "StartGame", 0, payload)
  <2>1. "StartGame" \in Tags /\ 0 \in Octets
    BY CodecAssumption DEF Tags, Octets
  <2>2. QED
    BY <1>4, <1>5, <2>1, FrameSent
<1> DEFINE top == Power[WordBytes]
           w == m.Width % top
           h == m.Height % top
           n == m.Mines % top
<1>7. /\ WordAt(payload, 0) = w /\ WordAt(payload, WordBytes) = h
      /\ WordAt(payload, 2 * WordBytes) = n /\ payload[3 * WordBytes + 1] = m.GameMode
  <2>1. 0 \in Nat /\ WordBytes \in Nat /\ 2 * WordBytes \in Nat /\ 3 * WordBytes \in Nat
    BY <1>3
  <2>2. payload[3 * WordBytes + 1] = m.GameMode
    BY <1>4, <2>1, ByteHeld
  <2>3. QED
    BY <1>2, <1>4, <2>1, <2>2, WordHeld
<1> HIDE DEF w, h, n
<1>8. DecodeGameStart(data) =
        Got([kind |-> "StartGame", Width |-> w, Height |-> h, Mines |-> n, GameMode |-> m.GameMode])
  BY <1>4, <1>6, <1>7 DEF DecodeGameStart, Framed, When
<1>9. Narrowed(m) = [m EXCEPT !.Width = w, !.Height = h, !.Mines = n]
  BY DEF Narrowed, w, h, n
<1>10. Narrowed(m) = [kind |-> "StartGame", Width |-> w, Height |-> h, Mines |-> n,
                      GameMode |-> m.GameMode]
  BY <1>1, <1>9
<1>11. Decoded(data, wanted) = DecodeGameStart(data)
  BY <1>6 DEF Decoded, Framed
<1>12. QED
  BY <1>4, <1>6, <1>8, <1>10, <1>11, BackOf

LEMMA EndBack ==
  ASSUME NEW m, m.kind = "GameEnd", Sendable(m), NEW data \in Encodings(m), NEW wanted
  PROVE  Back(m, data, wanted)
<1>1. m \in [kind : {"GameEnd"}, type : Octets]
  BY DEF Sendable, HasType
<1>2. <<m.type>> \in Seq(Octets)
  BY <1>1, ByteType
<1>3. data = Frame("GameEnd", 0, <<m.type>>)
  BY DEF Encodings, EncodeGameEnd
<1>4. Framed(data, "GameEnd", 0, <<m.type>>)
  <2>1. "GameEnd" \in Tags /\ 0 \in Octets
    BY CodecAssumption DEF Tags, Octets
  <2>2. QED
    BY <1>2, <1>3, <2>1, FrameSent
<1>5. DecodeGameEnd(data) = Got([kind |-> "GameEnd", type |-> m.type])
  BY <1>4 DEF DecodeGameEnd, Framed, When
<1>6. m = [kind |-> "GameEnd", type |-> m.type]
  BY <1>1
<1>7. Decoded(data, wanted) = DecodeGameEnd(data)
  BY <1>4 DEF Decoded, Framed
<1>8. Narrowed(m) = m
  BY DEF Narrowed
<1>9. QED
  BY <1>2, <1>4, <1>5, <1>6, <1>7, <1>8, BackOf

LEMMA TextMessageBack ==
  ASSUME NEW m, m.kind = "TextMessage", Sendable(m), NEW data \in Encodings(m), NEW wanted
  PROVE  Back(m, data, wanted)
<1>1. m \in [kind : {"TextMessage"}, text : Seq(Octets)]
  BY DEF Sendable, HasType
<1>2. m.text \in Seq(Octets)
  BY <1>1
<1>3. data = Frame("TextMessage", 0, m.text)
  BY DEF Encodings, EncodeTextMessage
<1>4. Framed(data, "TextMessage", 0, m.text)
  <2>1. "TextMessage" \in Tags /\ 0 \in Octets
    BY CodecAssumption DEF Tags, Octets
  <2>2. QED
    BY <1>2, <1>3, <2>1, FrameSent
<1>5. DecodeTextMessage(data) = Got([kind |-> "TextMessage", text |-> m.text])
  BY <1>4 DEF DecodeTextMessage, Framed, When
<1>6. m = [kind |-> "TextMessage", text |-> m.text]
  BY <1>1
<1>7. Decoded(data, wanted) = DecodeTextMessage(data)
  BY <1>4 DEF Decoded, Framed
<1>8. Narrowed(m) = m
  BY DEF Narrowed
<1>9. QED
  BY <1>2, <1>4, <1>5, <1>6, <1>7, <1>8, BackOf

\* A field of the payload is a field of the frame.
LEMMA InFrame ==
  ASSUME NEW data, NEW tag, NEW flags, NEW payload \in Seq(Octets),
         Framed(data, tag, flags, payload),
         NEW at \in Nat, NEW piece \in Seq(Octets), Holds(payload, at, piece)
  PROVE  Holds(data, HeaderLength + at, piece)
<1>1. HeaderLength \in Nat
  BY Widths DEF HeaderLength
<1>2. data \in Seq(Wire) /\ Holds(data, HeaderLength, payload)
  BY DEF Framed
<1>3. QED
  BY <1>1, <1>2, HoldsInner

LEMMA ConnectRequestBack ==
  ASSUME NEW m, m.kind = "ConnectToGameRequest", Sendable(m), NEW data \in Encodings(m), NEW wanted
  PROVE  Back(m, data, wanted)
<1>1. m \in [kind : {"ConnectToGameRequest"}, server : Words]
  BY DEF Sendable, HasType
<1>2. m.server \in Words /\ m.server \in Int
  <2>1. m.server \in Words
    BY <1>1
  <2>2. m.server \in Nat
    BY <2>1, NumberTypes
  <2>3. QED
    BY <2>1, <2>2
<1>3. Word(m.server) \in Seq(Octets) /\ Len(Word(m.server)) = WordBytes
  BY <1>2, FieldType
<1>4. data = Frame("ConnectToGameRequest", 0, Word(m.server))
  BY DEF Encodings, EncodeConnectToGameRequest
<1>5. Framed(data, "ConnectToGameRequest", 0, Word(m.server))
  <2>1. "ConnectToGameRequest" \in Tags /\ 0 \in Octets
    BY CodecAssumption DEF Tags, Octets
  <2>2. QED
    BY <1>3, <1>4, <2>1, FrameSent
<1>6. WordAt(data, HeaderLength) = m.server
  <2>1. HeaderLength \in Nat
    BY Widths DEF HeaderLength
  <2>2. data \in Seq(Wire) /\ Holds(data, HeaderLength, Word(m.server))
    BY <1>5 DEF Framed
  <2>3. QED
    BY <1>2, <2>1, <2>2, WordHeld
<1>7. DecodeConnectToGameRequest(data) = Got([kind |-> "ConnectToGameRequest", server |-> m.server])
  BY <1>3, <1>5, <1>6 DEF DecodeConnectToGameRequest, Framed, When
<1>8. m = [kind |-> "ConnectToGameRequest", server |-> m.server]
  BY <1>1
<1>9. Decoded(data, wanted) = DecodeConnectToGameRequest(data)
  BY <1>5 DEF Decoded, Framed
<1>10. Narrowed(m) = m
  BY DEF Narrowed
<1>11. QED
  BY <1>3, <1>5, <1>7, <1>8, <1>9, <1>10, BackOf

LEMMA ParamsBack ==
  ASSUME NEW m, m.kind \in {"RegisterPlayerRequest", "AuthRequest"}, Sendable(m),
         NEW data \in Encodings(m), NEW wanted
  PROVE  Back(m, data, wanted)
<1> DEFINE payload == Word(Len(m.Name)) \o m.Name \o m.Password
<1>1. m \in [kind : {m.kind}, Name : Seq(Octets), Password : Seq(Octets)]
  BY DEF Sendable, HasType
<1>2. m.Name \in Seq(Octets) /\ m.Password \in Seq(Octets) /\ Len(m.Name) \in Int
      /\ Len(m.Name) \in Nat /\ Len(m.Password) \in Nat
  BY <1>1
<1>3. Word(Len(m.Name)) \in Seq(Octets) /\ Len(Word(Len(m.Name))) = WordBytes /\ WordBytes \in Nat
  BY <1>2, WordType, Widths
<1>4. /\ payload \in Seq(Octets) /\ Len(payload) = WordBytes + Len(m.Name) + Len(m.Password)
      /\ Holds(payload, 0, Word(Len(m.Name))) /\ Holds(payload, WordBytes, m.Name)
      /\ Holds(payload, WordBytes + Len(m.Name), m.Password)
  <2>1. /\ payload \in Seq(Octets)
        /\ Len(payload) = Len(Word(Len(m.Name))) + Len(m.Name) + Len(m.Password)
        /\ Holds(payload, 0, Word(Len(m.Name)))
        /\ Holds(payload, Len(Word(Len(m.Name))), m.Name)
        /\ Holds(payload, Len(Word(Len(m.Name))) + Len(m.Name), m.Password)
    BY <1>2, <1>3, ThreeFields, Zenon
  <2> HIDE DEF payload
  <2>2. QED
    BY <1>3, <2>1
<1>5. data = Frame(m.kind, 0, payload)
  BY DEF Encodings, EncodePlayerParams
<1> HIDE DEF payload
<1>6. Framed(data, m.kind, 0, payload)
  <2>1. m.kind \in Tags /\ 0 \in Octets
    BY CodecAssumption DEF Tags, Octets
  <2>2. QED
    BY <1>4, <1>5, <2>1, FrameSent
<1>7. WordAt(payload, 0) = Len(m.Name)
  <2>1. Len(m.Name) \in Words
    <3>1. Power[WordBytes] \in Nat
      BY PowerStep, Widths
    <3>2. Len(payload) \in 0 .. Power[WordBytes] - 1
      BY <1>6 DEF Framed, Words, Unsigned
    <3>3. Len(m.Name) \in 0 .. Power[WordBytes] - 1
      <4>1. Len(payload) = WordBytes + Len(m.Name) + Len(m.Password)
        BY <1>4
      <4>2. Len(m.Name) \in Nat /\ Len(m.Password) \in Nat /\ WordBytes \in Nat
        BY <1>2, <1>3
      <4>3. \A a, b, c, p \in Nat : a + b + c \in 0 .. p - 1 => b \in 0 .. p - 1
        OBVIOUS
      <4>4. WordBytes + Len(m.Name) + Len(m.Password) \in 0 .. Power[WordBytes] - 1
        BY <3>2, <4>1
      <4>5. QED
        BY <3>1, <4>2, <4>3, <4>4, Zenon
    <3>4. QED
      BY <3>3 DEF Words, Unsigned
  <2>2. 0 \in Nat
    OBVIOUS
  <2>3. QED
    BY <1>4, <2>1, <2>2, WordIn
<1>8. Part(payload, WordBytes, WordBytes + Len(m.Name)) = m.Name
  <2>1. m.Name \in Seq(Octets) /\ WordBytes \in Nat
    BY <1>2, <1>3
  <2>2. QED
    BY <1>4, <2>1, PartHeld
<1>9. From(payload, WordBytes + Len(m.Name)) = m.Password
  <2>1. WordBytes + Len(m.Name) \in Nat
    BY <1>2, <1>3
  <2>2. Part(payload, WordBytes + Len(m.Name), (WordBytes + Len(m.Name)) + Len(m.Password)) =
          m.Password
    BY <1>2, <1>4, <2>1, PartHeld
  <2>3. QED
    BY <1>4, <2>2 DEF From
<1>10. DecodePlayerParams(data, m.kind) =
         Got([kind |-> m.kind, Name |-> m.Name, Password |-> m.Password])
  BY <1>6, <1>7, <1>8, <1>9 DEF DecodePlayerParams, Framed, When
<1>11. m = [kind |-> m.kind, Name |-> m.Name, Password |-> m.Password]
  BY <1>1
<1>12. Decoded(data, wanted) = DecodePlayerParams(data, m.kind)
  BY <1>6 DEF Decoded, Framed
<1>13. Narrowed(m) = m
  BY DEF Narrowed
<1>14. QED
  BY <1>4, <1>6, <1>10, <1>11, <1>12, <1>13, BackOf

LEMMA Ints ==
  /\ \A n \in Words : n \in Int /\ n \in Nat
  /\ \A n \in Halves : n \in Int /\ n \in Nat
  /\ \A n \in Octets : n \in Int /\ n \in Nat
  /\ \A n \in SignedInts(WordBytes) : n \in Int
  /\ \A n \in SignedInts(LongBytes) : n \in Int
BY NumberTypes

LEMMA IdType ==
  ASSUME NEW id \in RequestIds
  PROVE  /\ IdBytes(id) \in Seq(Octets) /\ IdFlag(id) \in Octets
         /\ Len(IdBytes(id)) = IF id # << >> THEN WordBytes ELSE 0
<1>1. CASE id = << >>
  BY <1>1, CodecAssumption DEF IdBytes, IdFlag, Octets
<1>2. CASE id # << >>
  <2>1. PICK n \in Words : id = <<n>>
    BY <1>2 DEF RequestIds
  <2>2. IdBytes(id) = Word(n) /\ IdFlag(id) = 1
    BY <2>1, <1>2 DEF IdBytes, IdFlag
  <2>3. QED
    BY <2>2, <1>2, FieldType, CodecAssumption DEF Octets
<1>3. QED
  BY <1>1, <1>2

\* The request id in front of a payload, and what follows it.
LEMMA IdHeld ==
  ASSUME NEW id \in RequestIds, NEW wanted \in BOOLEAN, wanted <=> id # << >>,
         NEW rest \in Seq(Octets), NEW data, NEW tag,
         Framed(data, tag, IdFlag(id), IdBytes(id) \o rest)
  PROVE  /\ wanted => HasId(data)
         /\ IdOf(data, wanted) = id
         /\ AfterId(wanted) \in Nat /\ Len(data) = AfterId(wanted) + Len(rest)
         /\ From(data, AfterId(wanted)) = rest /\ Holds(data, AfterId(wanted), rest)
<1> DEFINE payload == IdBytes(id) \o rest
<1>1. IdBytes(id) \in Seq(Octets) /\ Len(IdBytes(id)) = IF id # << >> THEN WordBytes ELSE 0
  BY IdType
<1>2. /\ payload \in Seq(Octets) /\ Len(payload) = Len(IdBytes(id)) + Len(rest)
      /\ Holds(payload, 0, IdBytes(id)) /\ Holds(payload, Len(IdBytes(id)), rest)
  BY <1>1, TwoFields, Zenon
<1> HIDE DEF payload
<1>3. Framed(data, tag, IdFlag(id), payload)
  BY DEF payload
<1>4. /\ data \in Seq(Wire) /\ Len(data) = HeaderLength + Len(payload) /\ data[2] = IdFlag(id)
      /\ HeaderLength \in Nat /\ WordBytes \in Nat /\ Len(rest) \in Nat
  BY <1>3, Widths DEF Framed, HeaderLength
<1>5. AfterId(wanted) = HeaderLength + Len(IdBytes(id))
  BY <1>1, <1>4 DEF AfterId
<1>6. AfterId(wanted) \in Nat /\ Len(data) = AfterId(wanted) + Len(rest)
  BY <1>1, <1>2, <1>4, <1>5
<1>7. Holds(data, AfterId(wanted), rest)
  <2>1. Len(IdBytes(id)) \in Nat
    BY <1>1, <1>4
  <2>2. QED
    BY <1>2, <1>3, <1>5, <2>1, InFrame
<1>8. From(data, AfterId(wanted)) = rest
  BY <1>4, <1>6, <1>7, PartHeld DEF From
<1>9. ASSUME wanted PROVE HasId(data) /\ IdOf(data, wanted) = id
  <2>1. PICK n \in Words : id = <<n>>
    BY <1>9 DEF RequestIds
  <2>2. IdBytes(id) = Word(n) /\ IdFlag(id) = 1 /\ n \in Int
    BY <1>9, <2>1, NumberTypes DEF IdBytes, IdFlag
  <2>3. Holds(data, HeaderLength, Word(n))
    <3>1. 0 \in Nat /\ HeaderLength + 0 = HeaderLength
      BY <1>4
    <3>2. QED
      BY <1>1, <1>2, <1>3, <2>2, <3>1, InFrame
  <2>4. WordAt(data, HeaderLength) = n
    BY <1>4, <2>2, <2>3, WordHeld
  <2>5. HasId(data)
    <3>1. Len(data) >= HeaderLength + WordBytes
      BY <1>1, <1>2, <1>4, <1>9
    <3>2. QED
      BY <1>4, <2>2, <3>1 DEF HasId
  <2>6. QED
    BY <1>9, <2>1, <2>4, <2>5 DEF IdOf
<1>10. ASSUME ~wanted PROVE IdOf(data, wanted) = id
  BY <1>10 DEF IdOf
<1>11. QED
  BY <1>6, <1>7, <1>8, <1>9, <1>10

\* Whether a message has a request id is what its receiver expects.
IdExpected(m, wanted) == wanted \in BOOLEAN /\ (wanted <=> m.id # << >>)

LEMMA GetServersBack ==
  ASSUME NEW m, m.kind = "GetGameServers", Sendable(m), NEW data \in Encodings(m),
         NEW wanted, IdExpected(m, wanted)
  PROVE  Back(m, data, wanted)
<1>1. m \in [kind : {"GetGameServers"}, id : RequestIds]
  BY DEF Sendable, HasType
<1>2. m.id \in RequestIds
  BY <1>1
<1>3. IdBytes(m.id) \in Seq(Octets) /\ IdFlag(m.id) \in Octets
  BY <1>2, IdType
<1>4. data = Frame("GetGameServers", IdFlag(m.id), IdBytes(m.id))
  BY DEF Encodings, EncodeGetGameServers
<1>5. Framed(data, "GetGameServers", IdFlag(m.id), IdBytes(m.id))
  <2>1. "GetGameServers" \in Tags
    BY DEF Tags
  <2>2. QED
    BY <1>3, <1>4, <2>1, FrameSent
<1>6. (wanted => HasId(data)) /\ IdOf(data, wanted) = m.id
  <2>1. << >> \in Seq(Octets) /\ IdBytes(m.id) \o << >> = IdBytes(m.id)
    BY <1>3, ConcatEmptySeq
  <2>2. Framed(data, "GetGameServers", IdFlag(m.id), IdBytes(m.id) \o << >>)
    BY <1>5, <2>1
  <2>3. QED
    BY <1>2, <2>1, <2>2, IdHeld DEF IdExpected
<1>7. DecodeGetGameServers(data, wanted) = Got([kind |-> "GetGameServers", id |-> m.id])
  BY <1>5, <1>6 DEF DecodeGetGameServers, Framed, When
<1>8. m = [kind |-> "GetGameServers", id |-> m.id]
  BY <1>1
<1>9. Decoded(data, wanted) = DecodeGetGameServers(data, wanted)
  BY <1>5 DEF Decoded, Framed
<1>10. Narrowed(m) = m
  BY DEF Narrowed
<1>11. QED
  BY <1>3, <1>5, <1>7, <1>8, <1>9, <1>10, BackOf

LEMMA SpawnBack ==
  ASSUME NEW m, m.kind = "SpawnServerRequest", Sendable(m), NEW data \in Encodings(m),
         NEW wanted, IdExpected(m, wanted)
  PROVE  Back(m, data, wanted)
<1> DEFINE payload == IdBytes(m.id) \o m.name
<1>1. m \in [kind : {"SpawnServerRequest"}, id : RequestIds, name : Seq(Octets)]
  BY DEF Sendable, HasType
<1>2. m.id \in RequestIds /\ m.name \in Seq(Octets)
  BY <1>1
<1>3. IdBytes(m.id) \in Seq(Octets) /\ IdFlag(m.id) \in Octets
  BY <1>2, IdType
<1>4. payload \in Seq(Octets)
  BY <1>2, <1>3, TwoFields, Zenon
<1>5. data = Frame("SpawnServerRequest", IdFlag(m.id), payload)
  BY DEF Encodings, EncodeSpawnServerRequest
<1>6. Framed(data, "SpawnServerRequest", IdFlag(m.id), payload)
  <2>1. "SpawnServerRequest" \in Tags
    BY DEF Tags
  <2> HIDE DEF payload
  <2>2. QED
    BY <1>3, <1>4, <1>5, <2>1, FrameSent
<1>7. /\ (wanted => HasId(data)) /\ IdOf(data, wanted) = m.id
      /\ From(data, AfterId(wanted)) = m.name
  BY <1>2, <1>6, IdHeld DEF IdExpected
<1> HIDE DEF payload
<1>8. DecodeSpawnServerRequest(data, wanted) =
        Got([kind |-> "SpawnServerRequest", id |-> m.id, name |-> m.name])
  BY <1>6, <1>7 DEF DecodeSpawnServerRequest, Framed, When
<1>9. m = [kind |-> "SpawnServerRequest", id |-> m.id, name |-> m.name]
  BY <1>1
<1>10. Decoded(data, wanted) = DecodeSpawnServerRequest(data, wanted)
  BY <1>6 DEF Decoded, Framed
<1>11. Narrowed(m) = m
  BY DEF Narrowed
<1>12. QED
  BY <1>4, <1>6, <1>8, <1>9, <1>10, <1>11, BackOf

-----------------------------------------------------------------------------
\* The record of a game server is as long as its fields, and not empty.
LEMMA ServerType ==
  ASSUME NEW s \in GameServerInfo
  PROVE  /\ EncodeGameServer(s) \in Seq(Octets)
         /\ Len(EncodeGameServer(s)) = Len(Text(s.Name)) + Len(Text(s.Host)) + HalfBytes + WordBytes
         /\ Len(EncodeGameServer(s)) > 0
         /\ Holds(EncodeGameServer(s), 0, Text(s.Name))
         /\ Holds(EncodeGameServer(s), Len(Text(s.Name)), Text(s.Host))
         /\ Holds(EncodeGameServer(s), Len(Text(s.Name)) + Len(Text(s.Host)), Half(s.Port))
         /\ Holds(EncodeGameServer(s), Len(Text(s.Name)) + Len(Text(s.Host)) + HalfBytes,
                  Word(s.PlayerCount))
<1>1. s.Name \in Texts /\ s.Host \in Texts /\ s.Port \in Halves /\ s.PlayerCount \in SignedInts(WordBytes)
  BY DEF GameServerInfo
<1>2. s.Name \in Seq(Octets) /\ s.Host \in Seq(Octets)
  BY <1>1 DEF Texts
<1>3. Text(s.Name) \in Seq(Octets) /\ Text(s.Host) \in Seq(Octets)
  BY <1>2, TextType
<1>4. s.Port \in Int /\ s.PlayerCount \in Int
  BY <1>1, Ints, Zenon
<1>5. /\ Half(s.Port) \in Seq(Octets) /\ Len(Half(s.Port)) = HalfBytes
      /\ Word(s.PlayerCount) \in Seq(Octets) /\ Len(Word(s.PlayerCount)) = WordBytes
  BY <1>4, WordType
<1>6. EncodeGameServer(s) = Text(s.Name) \o Text(s.Host) \o Half(s.Port) \o Word(s.PlayerCount)
  BY DEF EncodeGameServer
<1>7. /\ EncodeGameServer(s) \in Seq(Octets)
      /\ Len(EncodeGameServer(s)) = Len(Text(s.Name)) + Len(Text(s.Host)) + Len(Half(s.Port))
                                    + Len(Word(s.PlayerCount))
      /\ Holds(EncodeGameServer(s), 0, Text(s.Name))
      /\ Holds(EncodeGameServer(s), Len(Text(s.Name)), Text(s.Host))
      /\ Holds(EncodeGameServer(s), Len(Text(s.Name)) + Len(Text(s.Host)), Half(s.Port))
      /\ Holds(EncodeGameServer(s), Len(Text(s.Name)) + Len(Text(s.Host)) + Len(Half(s.Port)),
               Word(s.PlayerCount))
  <2> DEFINE e == Text(s.Name) \o Text(s.Host) \o Half(s.Port) \o Word(s.PlayerCount)
  <2>1. /\ e \in Seq(Octets)
        /\ Len(e) = Len(Text(s.Name)) + Len(Text(s.Host)) + Len(Half(s.Port))
                    + Len(Word(s.PlayerCount))
        /\ Holds(e, 0, Text(s.Name)) /\ Holds(e, Len(Text(s.Name)), Text(s.Host))
        /\ Holds(e, Len(Text(s.Name)) + Len(Text(s.Host)), Half(s.Port))
        /\ Holds(e, Len(Text(s.Name)) + Len(Text(s.Host)) + Len(Half(s.Port)), Word(s.PlayerCount))
    BY <1>3, <1>5, FourFields, Zenon
  <2>2. e = EncodeGameServer(s)
    BY <1>6
  <2> HIDE DEF e
  <2>3. QED
    BY <2>1, <2>2
<1>8. Len(Text(s.Name)) \in Nat /\ Len(Text(s.Host)) \in Nat
  BY <1>3
<1>9. QED
  BY <1>5, <1>7, <1>8, Widths

LEMMA ServerHeld ==
  ASSUME NEW S, NEW data \in Seq(S), NEW at \in Nat, NEW s \in GameServerInfo,
         Holds(data, at, EncodeGameServer(s))
  PROVE  GameServerEnd(data, at) = at + Len(EncodeGameServer(s)) /\ GameServerAt(data, at) = s
<1> DEFINE e == EncodeGameServer(s)
           name == Len(Text(s.Name))
           host == Len(Text(s.Host))
<1>1. s.Name \in Texts /\ s.Host \in Texts /\ s.Port \in Halves /\ s.PlayerCount \in SignedInts(WordBytes)
  BY DEF GameServerInfo
<1>2. s.Name \in Seq(Octets) /\ s.Host \in Seq(Octets)
  BY <1>1 DEF Texts
<1>3. Text(s.Name) \in Seq(Octets) /\ Text(s.Host) \in Seq(Octets)
  BY <1>2, TextType
<1>4. name \in Nat /\ host \in Nat /\ name + host \in Nat /\ name + host + HalfBytes \in Nat
  BY <1>3, Widths
<1>5. s.Port \in Int /\ s.PlayerCount \in Int
  BY <1>1, Ints, Zenon
<1>6. Half(s.Port) \in Seq(Octets) /\ Word(s.PlayerCount) \in Seq(Octets)
  BY <1>5, WordType
<1>7. /\ e \in Seq(Octets) /\ Len(e) = name + host + HalfBytes + WordBytes
      /\ Holds(e, 0, Text(s.Name)) /\ Holds(e, name, Text(s.Host))
      /\ Holds(e, name + host, Half(s.Port)) /\ Holds(e, name + host + HalfBytes, Word(s.PlayerCount))
  BY ServerType
<1> HIDE DEF e, name, host
<1>8. Holds(data, at, e)
  BY DEF e
<1>9. Holds(data, at, Text(s.Name))
  <2>1. 0 \in Nat /\ at + 0 = at
    OBVIOUS
  <2>2. Holds(data, at + 0, Text(s.Name))
    BY <1>3, <1>7, <1>8, <2>1, HoldsInner
  <2>3. QED
    BY <2>1, <2>2
<1>10. Holds(data, at + name, Text(s.Host))
  BY <1>3, <1>4, <1>7, <1>8, HoldsInner
<1>11. Holds(data, at + (name + host), Half(s.Port))
  BY <1>4, <1>6, <1>7, <1>8, HoldsInner
<1>12. Holds(data, at + (name + host + HalfBytes), Word(s.PlayerCount))
  BY <1>4, <1>6, <1>7, <1>8, HoldsInner
<1>13. TextEnd(data, at) = at + name /\ TextAt(data, at) = s.Name
  BY <1>1, <1>9, TextHeld DEF name
<1>14. TextEnd(data, at + name) = (at + name) + host /\ TextAt(data, at + name) = s.Host
  <2>1. at + name \in Nat
    BY <1>4
  <2>2. QED
    BY <1>1, <1>10, <2>1, TextHeld DEF host
<1>15. Number(Part(data, at + (name + host), at + (name + host) + HalfBytes)) = s.Port
  <2>1. at + (name + host) \in Nat
    BY <1>4
  <2>2. QED
    BY <1>1, <1>11, <2>1, HalfIn
<1>16. Signed(WordAt(data, at + (name + host + HalfBytes)), WordBytes) = s.PlayerCount
  <2>1. at + (name + host + HalfBytes) \in Nat
    BY <1>4
  <2>2. QED
    BY <1>1, <1>5, <1>12, <2>1, WordHeld
<1>17. /\ (at + name) + host = at + (name + host) /\ HalfBytes \in Nat /\ WordBytes \in Nat
       /\ at + (name + host) + HalfBytes = at + (name + host + HalfBytes)
       /\ at + (name + host) + HalfBytes + WordBytes = at + (name + host + HalfBytes + WordBytes)
  BY <1>4, Widths
<1>18. TextEnd(data, TextEnd(data, at)) = at + (name + host)
  BY <1>13, <1>14, <1>17
<1>19. GameServerEnd(data, at) = at + Len(e)
  BY <1>7, <1>17, <1>18 DEF GameServerEnd
<1>20. GameServerAt(data, at) =
         [Name |-> s.Name, Host |-> s.Host, Port |-> s.Port, PlayerCount |-> s.PlayerCount]
  BY <1>13, <1>14, <1>15, <1>16, <1>17, <1>18 DEF GameServerAt
<1>21. s = [Name |-> s.Name, Host |-> s.Host, Port |-> s.Port, PlayerCount |-> s.PlayerCount]
  BY DEF GameServerInfo
<1>22. QED
  BY <1>19, <1>20, <1>21 DEF e

LEMMA SpawnedBack ==
  ASSUME NEW m, m.kind = "ServerSpawned", Sendable(m), NEW data \in Encodings(m),
         NEW wanted, IdExpected(m, wanted)
  PROVE  Back(m, data, wanted)
<1> DEFINE payload == IdBytes(m.id) \o EncodeGameServer(m.server)
<1>1. m \in [kind : {"ServerSpawned"}, id : RequestIds, server : GameServerInfo]
  BY DEF Sendable, HasType
<1>2. m.id \in RequestIds /\ m.server \in GameServerInfo
  BY <1>1
<1>3. IdBytes(m.id) \in Seq(Octets) /\ IdFlag(m.id) \in Octets /\ EncodeGameServer(m.server) \in Seq(Octets)
  BY <1>2, IdType, ServerType
<1>4. payload \in Seq(Octets)
  BY <1>3, TwoFields, Zenon
<1>5. data = Frame("ServerSpawned", IdFlag(m.id), payload)
  BY DEF Encodings, EncodeServerSpawned
<1>6. Framed(data, "ServerSpawned", IdFlag(m.id), payload)
  <2>1. "ServerSpawned" \in Tags
    BY DEF Tags
  <2> HIDE DEF payload
  <2>2. QED
    BY <1>3, <1>4, <1>5, <2>1, FrameSent
<1>7. /\ (wanted => HasId(data)) /\ IdOf(data, wanted) = m.id /\ AfterId(wanted) \in Nat
      /\ Holds(data, AfterId(wanted), EncodeGameServer(m.server))
  BY <1>2, <1>3, <1>6, IdHeld DEF IdExpected
<1> HIDE DEF payload
<1>8. GameServerAt(data, AfterId(wanted)) = m.server
  <2>1. data \in Seq(Wire)
    BY <1>6 DEF Framed
  <2>2. QED
    BY <1>2, <1>7, <2>1, ServerHeld
<1>9. DecodeServerSpawned(data, wanted) =
        Got([kind |-> "ServerSpawned", id |-> m.id, server |-> m.server])
  BY <1>6, <1>7, <1>8 DEF DecodeServerSpawned, Framed, When
<1>10. m = [kind |-> "ServerSpawned", id |-> m.id, server |-> m.server]
  BY <1>1
<1>11. Decoded(data, wanted) = DecodeServerSpawned(data, wanted)
  BY <1>6 DEF Decoded, Framed
<1>12. Narrowed(m) = m
  BY DEF Narrowed
<1>13. QED
  BY <1>4, <1>6, <1>9, <1>10, <1>11, <1>12, BackOf

\* Offsets of parts that are not empty grow.
LEMMA PlacesGrow ==
  ASSUME NEW S, NEW parts \in Seq(Seq(S)), NEW data, NEW offset, Places(offset, parts, data),
         \A k \in 1 .. Len(parts) : Len(parts[k]) > 0
  PROVE  \A j \in 0 .. Len(parts) : \A k \in 0 .. j : offset[k] + (j - k) <= offset[j]
<1> DEFINE n == Len(parts)
           Right(j) == \A k \in 0 .. j : offset[k] + (j - k) <= offset[j]
           Bad == {j \in 0 .. n : ~Right(j)}
<1>1. SUFFICES Bad = {}
  OBVIOUS
<1>2. SUFFICES ASSUME NEW j \in Bad, \A i \in Bad : j <= i PROVE FALSE
  <2>1. Bad \in SUBSET Nat
    OBVIOUS
  <2> HIDE DEF Bad
  <2>2. QED
    BY <2>1, Least
<1>3. \A k \in 0 .. n : offset[k] \in Nat
  BY DEF Places
<1>4. CASE j = 0
  <2>1. Right(0)
    BY <1>3, <1>4
  <2>2. QED
    BY <1>2, <1>4, <2>1
<1>5. CASE j # 0
  <2>1. j \in 1 .. n /\ j - 1 \in 0 .. n /\ ~(j <= j - 1)
    BY <1>2, <1>5
  <2>2. Right(j - 1)
    <3> HIDE DEF Right
    <3>1. QED
      BY <1>2, <2>1
  <2>3. offset[j] = offset[j - 1] + Len(parts[j]) /\ Len(parts[j]) \in Nat /\ Len(parts[j]) > 0
    BY <2>1 DEF Places
  <2>4. offset[j - 1] + 1 <= offset[j]
    <3>1. offset[j - 1] \in Nat /\ offset[j] \in Nat
      BY <1>3, <2>1
    <3> HIDE DEF n
    <3>2. QED
      BY <2>3, <3>1
  <2>5. ASSUME NEW k \in 0 .. j PROVE offset[k] + (j - k) <= offset[j]
    <3>1. CASE k = j
      BY <1>3, <2>1, <3>1
    <3>2. CASE k # j
      <4>1. k \in 0 .. j - 1 /\ k \in 0 .. n
        BY <2>1, <3>2
      <4>2. offset[k] + ((j - 1) - k) <= offset[j - 1]
        BY <2>2, <4>1
      <4>3. offset[k] \in Nat /\ offset[j] \in Nat /\ offset[j - 1] \in Nat
        BY <1>3, <2>1, <4>1
      <4>4. k \in Nat /\ j \in Nat
        BY <2>1, <4>1
      <4> HIDE DEF n
      <4>5. QED
        BY <2>4, <4>2, <4>3, <4>4
    <3>3. QED
      BY <3>1, <3>2
  <2>6. QED
    BY <1>2, <2>5
<1>6. QED
  BY <1>4, <1>5

LEMMA ServersBack ==
  ASSUME NEW m, m.kind = "SendGameServers", Sendable(m), NEW data \in Encodings(m),
         NEW wanted, IdExpected(m, wanted)
  PROVE  Back(m, data, wanted)
<1> DEFINE parts == [k \in DOMAIN m.servers |-> EncodeGameServer(m.servers[k])]
           joined == Concat(parts)
           payload == IdBytes(m.id) \o joined
           n == Len(m.servers)
<1>1. m \in [kind : {"SendGameServers"}, id : RequestIds, servers : Seq(GameServerInfo)]
  BY DEF Sendable, HasType
<1>2. m.id \in RequestIds /\ m.servers \in Seq(GameServerInfo)
  BY <1>1
<1>3. n \in Nat /\ DOMAIN m.servers = 1 .. n /\ \A k \in 1 .. n : m.servers[k] \in GameServerInfo
  BY <1>2
<1>4. ASSUME NEW k \in 1 .. n
      PROVE  EncodeGameServer(m.servers[k]) \in Seq(Octets) /\ Len(EncodeGameServer(m.servers[k])) > 0
  BY <1>3, ServerType
<1>5. /\ parts \in Seq(Seq(Octets)) /\ Len(parts) = n
      /\ \A k \in 1 .. n : parts[k] = EncodeGameServer(m.servers[k]) /\ Len(parts[k]) > 0
  <2>1. parts \in [1 .. n -> Seq(Octets)]
    BY <1>3, <1>4
  <2>2. QED
    BY <1>3, <1>4, <2>1
<1> HIDE DEF parts
<1>6. joined \in Seq(Octets) /\ \E offset : Places(offset, parts, joined)
  BY <1>5, ConcatPlaces
<1>7. PICK o : Places(o, parts, joined)
  BY <1>6
<1>8. IdBytes(m.id) \in Seq(Octets) /\ IdFlag(m.id) \in Octets
  BY <1>2, IdType
<1> HIDE DEF joined
<1>9. payload \in Seq(Octets)
  BY <1>6, <1>8, TwoFields, Zenon
<1>10. data = Frame("SendGameServers", IdFlag(m.id), payload)
  BY DEF Encodings, EncodeSendGameServers, parts, joined
<1>11. Framed(data, "SendGameServers", IdFlag(m.id), payload)
  <2>1. "SendGameServers" \in Tags
    BY DEF Tags
  <2> HIDE DEF payload
  <2>2. QED
    BY <1>8, <1>9, <1>10, <2>1, FrameSent
<1> DEFINE start == AfterId(wanted)
<1>12. /\ (wanted => HasId(data)) /\ IdOf(data, wanted) = m.id /\ start \in Nat
       /\ Len(data) = start + Len(joined) /\ Holds(data, start, joined)
  BY <1>2, <1>6, <1>11, IdHeld DEF IdExpected
<1>13. data \in Seq(Wire) /\ Len(data) \in Nat
  <2>1. data \in Seq(Wire)
    BY <1>11 DEF Framed
  <2>2. QED
    BY <2>1
<1> HIDE DEF payload, start, n
<1>14. /\ o \in [0 .. n -> Nat] /\ o[0] = 0 /\ Len(joined) = o[n]
       /\ \A k \in 1 .. n : o[k] = o[k - 1] + Len(parts[k]) /\ Holds(joined, o[k - 1], parts[k])
  BY <1>5, <1>7 DEF Places
<1>15. \A j \in 0 .. n : \A k \in 0 .. j : o[k] + (j - k) <= o[j]
  BY <1>5, <1>7, PlacesGrow
<1>16. n <= Len(data)
  <2>1. 0 \in 0 .. n /\ n \in 0 .. n
    BY <1>3
  <2>2. o[0] + (n - 0) <= o[n]
    BY <1>15, <2>1
  <2>3. o[n] \in Nat
    BY <1>14, <2>1
  <2>4. QED
    BY <1>3, <1>12, <1>14, <2>2, <2>3
<1>17. ASSUME NEW k \in 0 .. n, k # n PROVE start + o[k] < Len(data)
  <2>1. n \in 0 .. n
    BY <1>3
  <2>2. o[k] + (n - k) <= o[n] /\ o[k] \in Nat /\ o[n] \in Nat
    BY <1>14, <1>15, <2>1
  <2>3. QED
    BY <1>3, <1>12, <1>14, <1>17, <2>2
<1>18. ASSUME NEW k \in 1 .. n
       PROVE  /\ k - 1 \in 0 .. n /\ start + o[k - 1] \in Nat
              /\ GameServerEnd(data, start + o[k - 1]) = start + o[k]
              /\ GameServerAt(data, start + o[k - 1]) = m.servers[k]
  <2>1. k - 1 \in 0 .. n /\ o[k - 1] \in Nat /\ k \in 0 .. n /\ o[k] \in Nat
    BY <1>3, <1>14
  <2>2. start + o[k - 1] \in Nat
    BY <1>12, <2>1
  <2>3. Holds(data, start + o[k - 1], EncodeGameServer(m.servers[k]))
    <3>1. Holds(joined, o[k - 1], EncodeGameServer(m.servers[k]))
      BY <1>5, <1>14
    <3>2. EncodeGameServer(m.servers[k]) \in Seq(Octets)
      BY <1>4
    <3>3. QED
      BY <1>6, <1>12, <1>13, <2>1, <3>1, <3>2, HoldsInner
  <2>4. m.servers[k] \in GameServerInfo
    BY <1>3
  <2>5. /\ GameServerEnd(data, start + o[k - 1]) =
             (start + o[k - 1]) + Len(EncodeGameServer(m.servers[k]))
        /\ GameServerAt(data, start + o[k - 1]) = m.servers[k]
    BY <1>13, <2>2, <2>3, <2>4, ServerHeld
  <2>6. (start + o[k - 1]) + Len(EncodeGameServer(m.servers[k])) = start + o[k]
    <3>1. Len(EncodeGameServer(m.servers[k])) \in Nat
      BY <1>4
    <3>2. o[k] = o[k - 1] + Len(EncodeGameServer(m.servers[k]))
      BY <1>5, <1>14
    <3>3. QED
      BY <1>12, <2>1, <3>1, <3>2
  <2>7. QED
    BY <2>1, <2>2, <2>5, <2>6
<1> DEFINE after == [at \in Nat |-> IF at < Len(data) THEN GameServerEnd(data, at) ELSE at]
           Steps(f) == f = [k \in 0 .. Len(data) |->
                              IF k = 0 THEN AfterId(wanted) ELSE after[f[k - 1]]]
           want == [k \in 0 .. Len(data) |-> IF k <= n THEN start + o[k] ELSE Len(data)]
           offset == CHOOSE f : Steps(f)
           serverAt == [at \in Nat |-> GameServerAt(data, at)]
           count == Cardinality({k \in DOMAIN offset : offset[k] < Len(data)})
<1>19. \A at \in Nat : after[at] = IF at < Len(data) THEN GameServerEnd(data, at) ELSE at
  OBVIOUS
<1>20. DecodeSendGameServers(data, wanted) =
         When(WellFormed(data, "SendGameServers") /\ (wanted => HasId(data)),
              [kind |-> "SendGameServers", id |-> IdOf(data, wanted),
               servers |-> [k \in 1 .. count |-> serverAt[offset[k - 1]]]])
  BY Zenon DEF DecodeSendGameServers
<1>21. \A at \in Nat : serverAt[at] = GameServerAt(data, at)
  OBVIOUS
<1> HIDE DEF after, serverAt
<1>22. \A k \in 0 .. Len(data) : want[k] = IF k <= n THEN start + o[k] ELSE Len(data)
  OBVIOUS
<1>23. want[0] = AfterId(wanted)
  <2>1. 0 \in 0 .. Len(data) /\ 0 <= n
    BY <1>3, <1>13
  <2>2. want[0] = start + o[0]
    BY <1>22, <2>1
  <2>3. QED
    BY <1>12, <1>14, <2>2 DEF start
<1>24. ASSUME NEW k \in 1 .. Len(data)
       PROVE  k - 1 \in 0 .. Len(data) /\ k \in 0 .. Len(data) /\ want[k] = after[want[k - 1]]
  <2>1. k - 1 \in 0 .. Len(data) /\ k \in 0 .. Len(data) /\ k \in Nat
    BY <1>13
  <2>2. CASE k <= n
    <3>1. k \in 1 .. n /\ k - 1 # n /\ k - 1 <= n
      BY <1>3, <2>1, <2>2
    <3>2. want[k - 1] = start + o[k - 1] /\ want[k] = start + o[k]
      BY <1>22, <2>1, <2>2, <3>1
    <3>3. start + o[k - 1] < Len(data) /\ start + o[k - 1] \in Nat
      BY <1>17, <1>18, <3>1
    <3>4. QED
      BY <1>18, <1>19, <2>1, <3>1, <3>2, <3>3
  <2>3. CASE ~(k <= n)
    <3>1. want[k] = Len(data)
      BY <1>22, <2>1, <2>3
    <3>2. want[k - 1] = Len(data)
      <4>1. CASE k - 1 <= n
        <5>1. k - 1 = n
          BY <1>3, <2>1, <2>3, <4>1
        <5>2. want[k - 1] = start + o[n]
          BY <1>22, <2>1, <4>1, <5>1
        <5>3. QED
          BY <1>12, <1>14, <5>2
      <4>2. CASE ~(k - 1 <= n)
        BY <1>22, <2>1, <4>2
      <4>3. QED
        BY <4>1, <4>2
    <3>3. after[Len(data)] = Len(data)
      BY <1>13, <1>19
    <3>4. QED
      BY <2>1, <3>1, <3>2, <3>3
  <2>4. QED
    BY <2>2, <2>3
<1>25. Steps(want)
  <2>1. want = [k \in 0 .. Len(data) |-> want[k]]
    OBVIOUS
  <2> HIDE DEF want
  <2>2. ASSUME NEW k \in 0 .. Len(data)
        PROVE  want[k] = IF k = 0 THEN AfterId(wanted) ELSE after[want[k - 1]]
    <3>1. CASE k = 0
      BY <1>23, <3>1
    <3>2. CASE k # 0
      <4>1. k \in 1 .. Len(data)
        BY <1>13, <3>2
      <4>2. QED
        BY <1>24, <3>2, <4>1
    <3>3. QED
      BY <3>1, <3>2
  <2>3. QED
    BY <2>1, <2>2
<1> HIDE DEF want
<1>26. Steps(offset)
  <2> HIDE DEF Steps
  <2>1. QED
    BY <1>25, Zenon
<1> HIDE DEF offset
<1>27. /\ DOMAIN offset = 0 .. Len(data) /\ offset[0] = AfterId(wanted)
       /\ \A k \in 1 .. Len(data) : offset[k] = after[offset[k - 1]]
  <2>1. offset = [k \in 0 .. Len(data) |-> IF k = 0 THEN AfterId(wanted) ELSE after[offset[k - 1]]]
    BY <1>26
  <2>2. ASSUME NEW k \in 0 .. Len(data)
        PROVE  offset[k] = IF k = 0 THEN AfterId(wanted) ELSE after[offset[k - 1]]
    BY <2>1
  <2>3. 0 \in 0 .. Len(data) /\ \A k \in 1 .. Len(data) : k \in 0 .. Len(data) /\ k # 0
    BY <1>13
  <2>4. QED
    BY <2>1, <2>2, <2>3
<1>28. \A k \in 0 .. Len(data) : offset[k] = want[k]
  <2> DEFINE Bad == {k \in 0 .. Len(data) : offset[k] # want[k]}
  <2>1. SUFFICES Bad = {}
    OBVIOUS
  <2>2. SUFFICES ASSUME NEW k \in Bad, \A j \in Bad : k <= j PROVE FALSE
    <3>1. Bad \in SUBSET Nat
      BY <1>13
    <3>2. QED
      BY <3>1, Least
  <2>3. k # 0
    BY <1>23, <1>27
  <2>4. k \in 1 .. Len(data) /\ k - 1 \in 0 .. Len(data) /\ ~(k <= k - 1)
    BY <1>13, <2>3
  <2>5. offset[k - 1] = want[k - 1]
    BY <2>2, <2>4
  <2>6. QED
    BY <1>24, <1>27, <2>4, <2>5
<1>29. count = n
  <2>1. ASSUME NEW k \in 0 .. Len(data) PROVE offset[k] < Len(data) <=> k \in 0 .. n - 1
    <3>1. offset[k] = IF k <= n THEN start + o[k] ELSE Len(data)
      BY <1>22, <1>28
    <3>2. CASE k \in 0 .. n - 1
      <4>1. k \in 0 .. n /\ k # n /\ k <= n
        BY <1>3, <3>2
      <4>2. QED
        BY <1>17, <3>1, <3>2, <4>1
    <3>3. CASE k \notin 0 .. n - 1
      <4>1. offset[k] = Len(data)
        <5>1. CASE k <= n
          <6>1. k = n
            BY <1>3, <1>13, <3>3, <5>1
          <6>2. QED
            BY <1>12, <1>14, <3>1, <5>1, <6>1
        <5>2. CASE ~(k <= n)
          BY <3>1, <5>2
        <5>3. QED
          BY <5>1, <5>2
      <4>2. QED
        BY <1>13, <3>3, <4>1
    <3>4. QED
      BY <3>2, <3>3
  <2>2. 0 .. n - 1 \subseteq 0 .. Len(data)
    BY <1>3, <1>13, <1>16
  <2>3. {k \in DOMAIN offset : offset[k] < Len(data)} = 0 .. n - 1
    BY <1>27, <2>1, <2>2
  <2>4. Cardinality(0 .. n - 1) = n
    <3>1. 0 \in Int /\ n - 1 \in Int
      BY <1>3
    <3>2. Cardinality(0 .. n - 1) = IF 0 > n - 1 THEN 0 ELSE (n - 1) - 0 + 1
      BY <3>1, FS_Interval
    <3>3. QED
      BY <1>3, <3>2
  <2>5. QED
    BY <2>3, <2>4
<1>30. [k \in 1 .. count |-> serverAt[offset[k - 1]]] = m.servers
  <2>1. ASSUME NEW k \in 1 .. n PROVE serverAt[offset[k - 1]] = m.servers[k]
    <3>1. k - 1 \in 0 .. Len(data) /\ k - 1 <= n
      BY <1>3, <1>13, <1>16
    <3>2. offset[k - 1] = start + o[k - 1]
      BY <1>22, <1>28, <3>1
    <3>3. QED
      BY <1>18, <1>21, <3>2
  <2>2. m.servers = [k \in 1 .. n |-> m.servers[k]]
    BY <1>2, <1>3
  <2> HIDE DEF count
  <2>3. QED
    BY <1>29, <2>1, <2>2
<1> HIDE DEF count
<1>31. DecodeSendGameServers(data, wanted) =
         Got([kind |-> "SendGameServers", id |-> m.id, servers |-> m.servers])
  BY <1>11, <1>12, <1>20, <1>30 DEF Framed, When
<1>32. m = [kind |-> "SendGameServers", id |-> m.id, servers |-> m.servers]
  BY <1>1
<1>33. Decoded(data, wanted) = DecodeSendGameServers(data, wanted)
  BY <1>11 DEF Decoded, Framed
<1>34. Narrowed(m) = m
  BY DEF Narrowed
<1>35. QED
  BY <1>9, <1>11, <1>31, <1>32, <1>33, <1>34, BackOf

\* A token is as long as it says, and comes back.
LEMMA TokenBack ==
  ASSUME NEW t \in AuthToken
  PROVE  /\ encodeAuthToken(t) \in Seq(Octets) /\ Len(encodeAuthToken(t)) = AuthTokenLength
         /\ decodeAuthToken(encodeAuthToken(t)) = Got(t)
<1> DEFINE d == Word(t.PlayerID) \o Word(t.ServerID) \o Long(t.Expiry) \o t.Nonce \o t.Signature
           W == WordBytes
<1>1. /\ t.PlayerID \in Words /\ t.ServerID \in Words /\ t.Expiry \in SignedInts(LongBytes)
      /\ t.Nonce \in [1 .. NonceBytes -> Octets] /\ t.Signature \in [1 .. SignatureBytes -> Octets]
  BY DEF AuthToken
<1>2. /\ t.Nonce \in Seq(Octets) /\ Len(t.Nonce) = NonceBytes
      /\ t.Signature \in Seq(Octets) /\ Len(t.Signature) = SignatureBytes
  BY <1>1, Widths
<1>3. t.PlayerID \in Int /\ t.ServerID \in Int /\ t.Expiry \in Int
  BY <1>1, Ints, Zenon
<1>4. /\ Word(t.PlayerID) \in Seq(Octets) /\ Len(Word(t.PlayerID)) = W
      /\ Word(t.ServerID) \in Seq(Octets) /\ Len(Word(t.ServerID)) = W
      /\ Long(t.Expiry) \in Seq(Octets) /\ Len(Long(t.Expiry)) = LongBytes
  BY <1>3, WordType
<1>5. /\ d \in Seq(Octets)
      /\ Len(d) = Len(Word(t.PlayerID)) + Len(Word(t.ServerID)) + Len(Long(t.Expiry))
                  + Len(t.Nonce) + Len(t.Signature)
      /\ Holds(d, 0, Word(t.PlayerID)) /\ Holds(d, Len(Word(t.PlayerID)), Word(t.ServerID))
      /\ Holds(d, Len(Word(t.PlayerID)) + Len(Word(t.ServerID)), Long(t.Expiry))
      /\ Holds(d, Len(Word(t.PlayerID)) + Len(Word(t.ServerID)) + Len(Long(t.Expiry)), t.Nonce)
      /\ Holds(d, Len(Word(t.PlayerID)) + Len(Word(t.ServerID)) + Len(Long(t.Expiry))
                  + Len(t.Nonce), t.Signature)
  <2>1. /\ Word(t.PlayerID) \in Seq(Octets) /\ Word(t.ServerID) \in Seq(Octets)
        /\ Long(t.Expiry) \in Seq(Octets) /\ t.Nonce \in Seq(Octets)
        /\ t.Signature \in Seq(Octets)
    BY <1>2, <1>4
  <2>2. QED
    <3>1. \A a, b, c, e, f \in Seq(Octets) :
            a \o b \o c \o e \o f \in Seq(Octets)
      BY FiveFields
    <3>2. d \in Seq(Octets)
      BY <2>1, <3>1, Zenon
    <3>4. Len(d) = Len(Word(t.PlayerID)) + Len(Word(t.ServerID)) + Len(Long(t.Expiry))
                   + Len(t.Nonce) + Len(t.Signature)
      <4> DEFINE four == Word(t.PlayerID) \o Word(t.ServerID) \o Long(t.Expiry) \o t.Nonce
      <4>1. /\ four \in Seq(Octets)
            /\ Len(four) = Len(Word(t.PlayerID)) + Len(Word(t.ServerID)) + Len(Long(t.Expiry))
                           + Len(t.Nonce)
        <5>1. /\ Word(t.PlayerID) \in Seq(Octets) /\ Word(t.ServerID) \in Seq(Octets)
              /\ Long(t.Expiry) \in Seq(Octets) /\ t.Nonce \in Seq(Octets)
          BY <2>1
        <5>2. QED
          BY <5>1, FourFields
      <4>2. d = four \o t.Signature
        OBVIOUS
      <4> HIDE DEF four, d
      <4>3. Len(four \o t.Signature) = Len(four) + Len(t.Signature)
        BY <2>1, <4>1, TwoFields
      <4>4. QED
        BY <4>1, <4>2, <4>3
    <3>5. \A a, b, c, e, f \in Seq(Octets) :
            /\ Holds(a \o b \o c \o e \o f, 0, a) /\ Holds(a \o b \o c \o e \o f, Len(a), b)
            /\ Holds(a \o b \o c \o e \o f, Len(a) + Len(b), c)
      BY FiveFields
    <3>6. /\ Holds(d, 0, Word(t.PlayerID)) /\ Holds(d, Len(Word(t.PlayerID)), Word(t.ServerID))
          /\ Holds(d, Len(Word(t.PlayerID)) + Len(Word(t.ServerID)), Long(t.Expiry))
      BY <2>1, <3>5, Zenon
    <3>7. \A a, b, c, e, f \in Seq(Octets) :
            /\ Holds(a \o b \o c \o e \o f, Len(a) + Len(b) + Len(c), e)
            /\ Holds(a \o b \o c \o e \o f, Len(a) + Len(b) + Len(c) + Len(e), f)
      BY FiveFields
    <3>8. /\ Holds(d, Len(Word(t.PlayerID)) + Len(Word(t.ServerID)) + Len(Long(t.Expiry)), t.Nonce)
          /\ Holds(d, Len(Word(t.PlayerID)) + Len(Word(t.ServerID)) + Len(Long(t.Expiry))
                      + Len(t.Nonce), t.Signature)
      BY <2>1, <3>7, Zenon
    <3> HIDE DEF d
    <3>9. QED
      BY <3>2, <3>4, <3>6, <3>8
<1>6. encodeAuthToken(t) = d
  BY DEF encodeAuthToken
<1> HIDE DEF d
<1> DEFINE expiry == 2 * W
           nonce == expiry + LongBytes
           signature == nonce + NonceBytes
<1>7. /\ W \in Nat /\ expiry \in Nat /\ nonce \in Nat /\ signature \in Nat
      /\ W + W = expiry /\ W + W + LongBytes = nonce /\ W + W + LongBytes + NonceBytes = signature
      /\ signature + SignatureBytes = AuthTokenLength
  BY Widths DEF AuthTokenLength
<1> HIDE DEF expiry, nonce, signature, W
<1>8. /\ Holds(d, 0, Word(t.PlayerID)) /\ Holds(d, W, Word(t.ServerID))
      /\ Holds(d, expiry, Long(t.Expiry)) /\ Holds(d, nonce, t.Nonce)
      /\ Holds(d, signature, t.Signature)
  BY <1>2, <1>4, <1>5, <1>7
<1>9. Len(d) = signature + SignatureBytes
  BY <1>2, <1>4, <1>5, <1>7
<1>10. WordAt(d, 0) = t.PlayerID /\ WordAt(d, W) = t.ServerID
  <2>1. 0 \in Nat
    OBVIOUS
  <2>2. QED
    BY <1>1, <1>5, <1>7, <1>8, <2>1, WordIn
<1>11. Signed(Number(Part(d, expiry, nonce)), LongBytes) = t.Expiry
  <2>1. Holds(d, expiry, Bytes(t.Expiry, LongBytes)) /\ LongBytes \in Nat
    BY <1>8, Widths DEF Long
  <2>2. Signed(Number(Part(d, expiry, expiry + LongBytes)), LongBytes) = t.Expiry
    BY <1>1, <1>3, <1>5, <1>7, <2>1, NumberHeld
  <2>3. QED
    BY <2>2 DEF nonce
<1>12. Part(d, nonce, signature) = t.Nonce
  <2>1. Part(d, nonce, nonce + Len(t.Nonce)) = t.Nonce
    BY <1>2, <1>5, <1>7, <1>8, PartHeld
  <2>2. QED
    BY <1>2, <2>1 DEF signature
<1>13. From(d, signature) = t.Signature
  <2>1. Part(d, signature, signature + Len(t.Signature)) = t.Signature
    BY <1>2, <1>5, <1>7, <1>8, PartHeld
  <2>2. QED
    BY <1>2, <1>9, <2>1 DEF From
<1>14. t = [PlayerID |-> t.PlayerID, ServerID |-> t.ServerID, Expiry |-> t.Expiry,
            Nonce |-> t.Nonce, Signature |-> t.Signature]
  BY DEF AuthToken
<1>15. decodeAuthToken(d) =
         When(Len(d) = AuthTokenLength,
              [PlayerID |-> WordAt(d, 0), ServerID |-> WordAt(d, W),
               Expiry |-> Signed(Number(Part(d, expiry, nonce)), LongBytes),
               Nonce |-> Part(d, nonce, signature), Signature |-> From(d, signature)])
  BY Zenon DEF decodeAuthToken, expiry, nonce, signature, W
<1>16. decodeAuthToken(d) = Got(t)
  BY <1>7, <1>9, <1>10, <1>11, <1>12, <1>13, <1>14, <1>15 DEF When
<1>17. QED
  BY <1>5, <1>6, <1>7, <1>9, <1>16

LEMMA AuthWithTokenBack ==
  ASSUME NEW m, m.kind = "AuthWithMMToken", Sendable(m), NEW data \in Encodings(m), NEW wanted
  PROVE  Back(m, data, wanted)
<1>1. m \in [kind : {"AuthWithMMToken"}, token : AuthToken]
  BY DEF Sendable, HasType
<1>2. m.token \in AuthToken
  BY <1>1
<1>3. /\ encodeAuthToken(m.token) \in Seq(Octets)
      /\ decodeAuthToken(encodeAuthToken(m.token)) = Got(m.token)
  BY <1>2, TokenBack
<1>4. data = Frame("AuthWithMMToken", 0, encodeAuthToken(m.token))
  BY DEF Encodings, EncodeAuthWithMMToken
<1>5. Framed(data, "AuthWithMMToken", 0, encodeAuthToken(m.token))
  <2>1. "AuthWithMMToken" \in Tags /\ 0 \in Octets
    BY CodecAssumption DEF Tags, Octets
  <2>2. QED
    BY <1>3, <1>4, <2>1, FrameSent
<1>6. DecodeAuthWithMMToken(data) = Got([kind |-> "AuthWithMMToken", token |-> m.token])
  <2>1. decodeAuthToken(Payload(data)) = <<m.token>> /\ <<m.token>> # << >> /\ <<m.token>>[1] = m.token
    BY <1>3, <1>5 DEF Framed, Got
  <2>2. QED
    BY <1>5, <2>1 DEF DecodeAuthWithMMToken, Framed, Fail
<1>7. m = [kind |-> "AuthWithMMToken", token |-> m.token]
  BY <1>1
<1>8. Decoded(data, wanted) = DecodeAuthWithMMToken(data)
  BY <1>5 DEF Decoded, Framed
<1>9. Narrowed(m) = m
  BY DEF Narrowed
<1>10. QED
  BY <1>3, <1>5, <1>6, <1>7, <1>8, <1>9, BackOf

LEMMA RefusalBack ==
  ASSUME NEW m, m.kind = "ConnectToGameResponse", Sendable(m), NEW data \in Encodings(m), NEW wanted,
         m.Success = FALSE
  PROVE  Back(m, data, wanted)
<1>1. m \in [kind : {"ConnectToGameResponse"}, Success : {FALSE}]
  <2>1. \/ m \in [kind : {"ConnectToGameResponse"}, Success : {FALSE}]
        \/ m \in [kind : {"ConnectToGameResponse"}, Success : {TRUE}, Token : AuthToken,
                  Host : Texts \ {<< >>}, Port : Halves]
    BY DEF Sendable, HasType
  <2>2. QED
    BY <2>1
<1>2. 0 \in Octets /\ <<0>> \in Seq(Octets)
  BY CodecAssumption DEF Octets
<1>3. data = Frame("ConnectToGameResponse", 0, <<0>>)
  BY DEF Encodings, EncodeConnectToGameResponse
<1>4. Framed(data, "ConnectToGameResponse", 0, <<0>>)
  <2>1. "ConnectToGameResponse" \in Tags
    BY DEF Tags
  <2>2. QED
    BY <1>2, <1>3, <2>1, FrameSent
<1>5. DecodeConnectToGameResponse(data) = Got([kind |-> "ConnectToGameResponse", Success |-> FALSE])
  <2>1. <<0>> # << >> /\ <<0>>[1] # 1 /\ Len(<<0>>) = 1
    OBVIOUS
  <2>2. QED
    BY <1>4, <2>1 DEF DecodeConnectToGameResponse, Framed, When
<1>6. m = [kind |-> "ConnectToGameResponse", Success |-> FALSE]
  BY <1>1
<1>7. Decoded(data, wanted) = DecodeConnectToGameResponse(data)
  BY <1>4 DEF Decoded, Framed
<1>8. Narrowed(m) = m
  BY DEF Narrowed
<1>9. QED
  BY <1>2, <1>4, <1>5, <1>6, <1>7, <1>8, BackOf

LEMMA AdmissionBack ==
  ASSUME NEW m, m.kind = "ConnectToGameResponse", Sendable(m), NEW data \in Encodings(m), NEW wanted,
         m.Success = TRUE
  PROVE  Back(m, data, wanted)
<1> DEFINE token == encodeAuthToken(m.Token)
           payload == <<1>> \o token \o Text(m.Host) \o Half(m.Port)
           info == 1 + AuthTokenLength
<1>1. m \in [kind : {"ConnectToGameResponse"}, Success : {TRUE}, Token : AuthToken,
             Host : Texts \ {<< >>}, Port : Halves]
  <2>1. \/ m \in [kind : {"ConnectToGameResponse"}, Success : {FALSE}]
        \/ m \in [kind : {"ConnectToGameResponse"}, Success : {TRUE}, Token : AuthToken,
                  Host : Texts \ {<< >>}, Port : Halves]
    BY DEF Sendable, HasType
  <2>2. QED
    BY <2>1
<1>2. m.Token \in AuthToken /\ m.Host \in Texts /\ m.Host # << >> /\ m.Port \in Halves
  BY <1>1
<1>3. /\ token \in Seq(Octets) /\ Len(token) = AuthTokenLength
      /\ decodeAuthToken(token) = Got(m.Token)
  BY <1>2, TokenBack
<1>4. m.Host \in Seq(Octets) /\ Len(m.Host) \in Nat /\ Len(m.Host) > 0
  <2>1. m.Host \in Seq(Octets)
    BY <1>2 DEF Texts
  <2>2. QED
    BY <1>2, <2>1, EmptySeq
<1>5. Text(m.Host) \in Seq(Octets) /\ Len(Text(m.Host)) = WordBytes + Len(m.Host)
  BY <1>4, TextType
<1>6. Half(m.Port) \in Seq(Octets) /\ Len(Half(m.Port)) = HalfBytes
  <2>1. m.Port \in Int
    BY <1>2, Ints, Zenon
  <2>2. QED
    BY <2>1, WordType
<1>7. 1 \in Octets /\ <<1>> \in Seq(Octets) /\ Len(<<1>>) = 1
  BY CodecAssumption DEF Octets
<1> HIDE DEF token
<1>8. /\ payload \in Seq(Octets)
      /\ Len(payload) = Len(<<1>>) + Len(token) + Len(Text(m.Host)) + Len(Half(m.Port))
      /\ Holds(payload, 0, <<1>>) /\ Holds(payload, Len(<<1>>), token)
      /\ Holds(payload, Len(<<1>>) + Len(token), Text(m.Host))
      /\ Holds(payload, Len(<<1>>) + Len(token) + Len(Text(m.Host)), Half(m.Port))
  <2>1. /\ <<1>> \in Seq(Octets) /\ token \in Seq(Octets) /\ Text(m.Host) \in Seq(Octets)
        /\ Half(m.Port) \in Seq(Octets)
    BY <1>3, <1>5, <1>6, <1>7
  <2>2. QED
    BY <2>1, FourFields, ZenonT(60)
<1>9. data = Frame("ConnectToGameResponse", 0, payload)
  BY DEF Encodings, EncodeConnectToGameResponse, token
<1> HIDE DEF payload
<1>10. Framed(data, "ConnectToGameResponse", 0, payload)
  <2>1. "ConnectToGameResponse" \in Tags /\ 0 \in Octets
    BY CodecAssumption DEF Tags, Octets
  <2>2. QED
    BY <1>8, <1>9, <2>1, FrameSent
<1>11. /\ AuthTokenLength \in Nat /\ info \in Nat /\ WordBytes \in Nat /\ HalfBytes \in Nat
       /\ info + WordBytes + Len(m.Host) \in Nat
  <2>1. AuthTokenLength \in Nat /\ info \in Nat /\ WordBytes \in Nat /\ HalfBytes \in Nat
    BY Widths DEF AuthTokenLength
  <2> HIDE DEF info
  <2>2. \A i, w, n \in Nat : i + w + n \in Nat
    OBVIOUS
  <2>3. QED
    BY <1>4, <2>1, <2>2, Zenon
<1> HIDE DEF info
<1>12. /\ Len(payload) = info + WordBytes + Len(m.Host) + HalfBytes
       /\ Holds(payload, 0, <<1>>) /\ Holds(payload, 1, token) /\ Holds(payload, info, Text(m.Host))
       /\ Holds(payload, info + Len(Text(m.Host)), Half(m.Port))
  <2>1. info = 1 + AuthTokenLength
    BY DEF info
  <2>2. /\ Len(<<1>>) = 1 /\ Len(token) = AuthTokenLength /\ Len(Half(m.Port)) = HalfBytes
        /\ Len(Text(m.Host)) = WordBytes + Len(m.Host)
    BY <1>3, <1>5, <1>6, <1>7
  <2>3. Len(payload) = 1 + AuthTokenLength + (WordBytes + Len(m.Host)) + HalfBytes
    BY <1>8, <2>2
  <2>4. Len(m.Host) \in Nat
    BY <1>4
  <2>5. Len(payload) = info + WordBytes + Len(m.Host) + HalfBytes
    <3>1. \A i, w, n, h \in Nat : i + (w + n) + h = i + w + n + h
      OBVIOUS
    <3>2. info + (WordBytes + Len(m.Host)) + HalfBytes = info + WordBytes + Len(m.Host) + HalfBytes
      <4>1. PICK h \in Nat : h = Len(m.Host)
        BY <2>4
      <4>2. info + (WordBytes + h) + HalfBytes = info + WordBytes + h + HalfBytes
        BY <1>11, <3>1
      <4>3. QED
        BY <4>1, <4>2
    <3>3. QED
      BY <2>1, <2>3, <3>2
  <2>6. QED
    BY <1>8, <2>1, <2>2, <2>5
<1>13. payload[1] = 1
  <2>1. 0 \in Nat /\ 0 + 1 = 1
    OBVIOUS
  <2>2. QED
    BY <1>12, <2>1, ByteHeld
<1>14. Part(payload, 1, info) = token
  <2>1. 1 \in Nat
    OBVIOUS
  <2>2. Part(payload, 1, 1 + Len(token)) = token
    BY <1>3, <1>8, <1>12, <2>1, PartHeld
  <2>3. QED
    BY <1>3, <2>2 DEF info
<1>15. TextEnd(payload, info) = info + Len(Text(m.Host)) /\ TextAt(payload, info) = m.Host
  BY <1>2, <1>8, <1>11, <1>12, TextHeld
<1>16. Number(Part(payload, info + Len(Text(m.Host)), info + Len(Text(m.Host)) + HalfBytes)) = m.Port
  <2>1. info + Len(Text(m.Host)) \in Nat
    BY <1>4, <1>5, <1>11
  <2>2. QED
    BY <1>2, <1>8, <1>12, <2>1, HalfIn
<1>17. payload # << >> /\ ~(Len(payload) < info + WordBytes + 1 + HalfBytes)
  <2>1. ~(Len(payload) < info + WordBytes + 1 + HalfBytes)
    <3>1. /\ info \in Nat /\ WordBytes \in Nat /\ HalfBytes \in Nat
          /\ Len(m.Host) \in Nat /\ Len(m.Host) > 0
      BY <1>4, <1>11
    <3>2. \A i, w, h, n \in Nat : n > 0 => ~(i + w + n + h < i + w + 1 + h)
      OBVIOUS
    <3>3. ~(info + WordBytes + Len(m.Host) + HalfBytes < info + WordBytes + 1 + HalfBytes)
      BY <3>1, <3>2, Zenon
    <3>4. QED
      BY <1>12, <3>3
  <2>2. payload # << >>
    <3>1. 1 \in 1 .. Len(<<1>>)
      BY <1>7
    <3>2. QED
      BY <1>8, <3>1 DEF Holds
  <2>3. QED
    BY <2>1, <2>2
<1>18. decodeAuthToken(Part(payload, 1, info))[1] = m.Token
  BY <1>3, <1>14 DEF Got
<1>19. DecodeConnectToGameResponse(data) =
         Got([kind |-> "ConnectToGameResponse", Success |-> TRUE, Token |-> m.Token,
              Host |-> m.Host, Port |-> m.Port])
  <2>1. Payload(data) = payload /\ WellFormed(data, "ConnectToGameResponse")
    BY <1>10 DEF Framed
  <2>2. DecodeConnectToGameResponse(data) =
          Got([kind |-> "ConnectToGameResponse", Success |-> TRUE,
               Token |-> decodeAuthToken(Part(payload, 1, info))[1], Host |-> TextAt(payload, info),
               Port |-> Number(Part(payload, TextEnd(payload, info),
                                    TextEnd(payload, info) + HalfBytes))])
    BY <1>13, <1>17, <2>1 DEF DecodeConnectToGameResponse, info
  <2>3. QED
    BY <1>15, <1>16, <1>18, <2>2
<1>20. m = [kind |-> "ConnectToGameResponse", Success |-> TRUE, Token |-> m.Token,
            Host |-> m.Host, Port |-> m.Port]
  BY <1>1
<1>21. Decoded(data, wanted) = DecodeConnectToGameResponse(data)
  BY <1>10 DEF Decoded, Framed
<1>22. Narrowed(m) = m
  BY DEF Narrowed
<1>23. QED
  BY <1>8, <1>10, <1>19, <1>20, <1>21, <1>22, BackOf

LEMMA LoginRefusedBack ==
  ASSUME NEW m, m.kind = "AuthResponse", Sendable(m), NEW data \in Encodings(m), NEW wanted,
         m.Success = FALSE
  PROVE  Back(m, data, wanted)
<1>1. m \in [kind : {"AuthResponse"}, Success : {FALSE}]
  <2>1. \/ m \in [kind : {"AuthResponse"}, Success : {FALSE}]
        \/ m \in [kind : {"AuthResponse"}, Success : {TRUE}, ID : Unsigned(WordBytes - 1), Name : Texts]
    BY DEF Sendable, HasType
  <2>2. QED
    BY <2>1
<1>2. 0 \in Octets /\ <<0>> \in Seq(Octets)
  BY CodecAssumption DEF Octets
<1>3. data = Frame("AuthResponse", 0, <<0>>)
  BY DEF Encodings, EncodeAuthResponse
<1>4. Framed(data, "AuthResponse", 0, <<0>>)
  <2>1. "AuthResponse" \in Tags
    BY DEF Tags
  <2>2. QED
    BY <1>2, <1>3, <2>1, FrameSent
<1>5. DecodeAuthResponse(data) = Got([kind |-> "AuthResponse", Success |-> FALSE])
  <2>1. <<0>> # << >> /\ <<0>>[1] # 1 /\ Len(<<0>>) = 1
    OBVIOUS
  <2>2. QED
    BY <1>4, <2>1 DEF DecodeAuthResponse, Framed, When
<1>6. m = [kind |-> "AuthResponse", Success |-> FALSE]
  BY <1>1
<1>7. Decoded(data, wanted) = DecodeAuthResponse(data)
  BY <1>4 DEF Decoded, Framed
<1>8. Narrowed(m) = m
  BY DEF Narrowed
<1>9. QED
  BY <1>2, <1>4, <1>5, <1>6, <1>7, <1>8, BackOf

\* A successful login is one byte shorter than its header says; whatever that
\* byte is, the message is refused: the first byte of a small id is not 1.
LEMMA LoginSent ==
  ASSUME NEW m, m.kind = "AuthResponse", Sendable(m), NEW data \in Encodings(m), m.Success = TRUE
  PROVE  /\ data \in Seq(Wire) /\ Len(data) >= HeaderLength
         /\ WordAt(data, 2) = Len(data) + 1 - HeaderLength
         /\ \A d \in Seq(Wire), wanted \in BOOLEAN :
              Len(d) = Len(data) + 1 /\ Holds(d, 0, data) => Decoded(d, wanted) = Fail
<1> DEFINE payload == Word(m.ID) \o Text(m.Name)
           n == 1 + 2 * WordBytes + Len(m.Name)
<1>1. m \in [kind : {"AuthResponse"}, Success : {TRUE}, ID : Unsigned(WordBytes - 1), Name : Texts]
  <2>1. \/ m \in [kind : {"AuthResponse"}, Success : {FALSE}]
        \/ m \in [kind : {"AuthResponse"}, Success : {TRUE}, ID : Unsigned(WordBytes - 1), Name : Texts]
    BY DEF Sendable, HasType
  <2>2. QED
    BY <2>1
<1>2. m.ID \in Unsigned(WordBytes - 1) /\ m.Name \in Seq(Octets) /\ Len(m.Name) \in Nat
  <2>1. m.ID \in Unsigned(WordBytes - 1) /\ m.Name \in Seq(Octets)
    BY <1>1 DEF Texts
  <2>2. QED
    BY <2>1
<1>3. PICK low \in Nat : low = Power[WordBytes - 1] /\ low > 0
  <2>1. WordBytes - 1 \in Nat
    BY Widths
  <2>2. QED
    BY <2>1, PowerStep
<1>4. m.ID \in 0 .. low - 1
  BY <1>2, <1>3 DEF Unsigned
<1>5. /\ Word(m.ID) \in Seq(Octets) /\ Len(Word(m.ID)) = WordBytes /\ WordBytes \in Nat
      /\ WordBytes > 0 /\ Word(m.ID)[1] = 0
  <2>1. m.ID \in Int
    BY <1>4
  <2>2. \A k \in 1 .. WordBytes : Word(m.ID)[k] = (m.ID \div Power[WordBytes - k]) % Base
    BY <2>1, BytesType, Widths DEF Word
  <2>3. Word(m.ID)[1] = (m.ID \div low) % Base
    BY <1>3, <2>2, Widths
  <2>4. m.ID \div low = 0
    <3>1. m.ID = low * 0 + m.ID /\ 0 \in Int
      BY <1>3, <1>4
    <3>2. (low * 0 + m.ID) \div low = 0
      BY <1>3, <1>4, <3>1, DivUnique
    <3>3. QED
      BY <3>1, <3>2
  <2>5. 0 % Base = 0
    BY CodecAssumption
  <2>6. QED
    BY <2>1, <2>3, <2>4, <2>5, WordType, Widths
<1>6. Text(m.Name) \in Seq(Octets) /\ Len(Text(m.Name)) = WordBytes + Len(m.Name)
  BY <1>2, TextType
<1>7. /\ payload \in Seq(Octets) /\ Len(payload) = Len(Word(m.ID)) + Len(Text(m.Name))
      /\ Holds(payload, 0, Word(m.ID))
  BY <1>5, <1>6, TwoFields, Zenon
<1>8. data = Packet("AuthResponse", 0, n, payload)
  <2>1. data = <<"AuthResponse", 0>> \o Word(n) \o Word(m.ID) \o Text(m.Name)
    BY DEF Encodings, EncodeAuthResponse
  <2>2. Word(n) \in Seq(Octets)
    <3>1. n \in Int
      BY <1>2, Widths
    <3> HIDE DEF n
    <3>2. QED
      BY <3>1, WordType
  <2> HIDE DEF n
  <2>3. <<"AuthResponse", 0>> \o Word(n) \in Seq(Wire)
    <3>1. "AuthResponse" \in Wire /\ 0 \in Wire
      BY CodecAssumption DEF Wire, Tags, Octets
    <3>2. <<"AuthResponse", 0>> \in Seq(Wire) /\ Word(n) \in Seq(Wire)
      BY <2>2, <3>1, OnWire
    <3>3. QED
      BY <3>2, ConcatProperties
  <2>4. Word(m.ID) \in Seq(Wire) /\ Text(m.Name) \in Seq(Wire)
    BY <1>5, <1>6, OnWire
  <2>5. (<<"AuthResponse", 0>> \o Word(n)) \o Word(m.ID) \o Text(m.Name) =
          (<<"AuthResponse", 0>> \o Word(n)) \o (Word(m.ID) \o Text(m.Name))
    BY <2>3, <2>4, ConcatAssociative
  <2>6. QED
    BY <2>1, <2>5 DEF Packet
<1> HIDE DEF payload
<1>9. n = Len(payload) + 1 /\ n \in Int /\ Len(payload) \in Nat /\ Len(payload) > 0
  <2>1. PICK l \in Nat : l = Len(m.Name)
    BY <1>2
  <2>2. Len(payload) = WordBytes + (WordBytes + l)
    BY <1>5, <1>6, <1>7, <2>1
  <2>3. n = 1 + 2 * WordBytes + l
    BY <2>1
  <2>4. PICK w \in Nat : w = WordBytes /\ w > 0
    BY <1>5
  <2> HIDE DEF n
  <2>5. Len(payload) = w + (w + l) /\ n = 1 + 2 * w + l
    BY <2>2, <2>3, <2>4
  <2>6. QED
    BY <2>4, <2>5
<1> HIDE DEF n
<1>10. "AuthResponse" \in Tags /\ 0 \in Octets
  BY CodecAssumption DEF Tags, Octets
<1>11. Len(data) = HeaderLength + Len(payload)
  BY <1>7, <1>8, <1>9, <1>10, FrameLength
<1>12. HeaderLength \in Nat
  BY Widths DEF HeaderLength
<1>13. n \in Words
  <2>1. Len(data) + 1 - HeaderLength \in Words
    BY DEF Sendable
  <2>2. QED
    BY <1>9, <1>11, <1>12, <2>1
<1>14. /\ data \in Seq(Wire) /\ data[1] = "AuthResponse" /\ WordAt(data, 2) = n
       /\ Holds(data, HeaderLength, payload)
  BY <1>7, <1>8, <1>10, <1>13, HeaderHeld
<1>15. ASSUME NEW d \in Seq(Wire), NEW wanted \in BOOLEAN, Len(d) = Len(data) + 1, Holds(d, 0, data)
       PROVE  Decoded(d, wanted) = Fail
  <2>1. d[1] = "AuthResponse"
    <3>1. 1 \in 1 .. Len(data) /\ 0 + 1 = 1
      BY <1>9, <1>11, <1>12
    <3>2. d[0 + 1] = data[1]
      BY <1>15, <3>1 DEF Holds
    <3>3. QED
      BY <1>14, <3>1, <3>2
  <2>2. Decoded(d, wanted) = DecodeAuthResponse(d)
    BY <2>1 DEF Decoded
  <2>3. /\ Payload(d) = Part(d, HeaderLength, Len(d)) /\ Len(Payload(d)) = Len(payload) + 1
        /\ Payload(d)[1] = d[HeaderLength + 1]
    <3>1. Payload(d) = Part(d, HeaderLength, Len(d))
      BY DEF Payload, From
    <3>2. Len(d) \in Nat /\ HeaderLength <= Len(d) /\ Len(d) <= Len(d)
          /\ Len(d) - HeaderLength = Len(payload) + 1 /\ 1 \in 1 .. Len(d) - HeaderLength
      BY <1>9, <1>11, <1>12, <1>15
    <3>3. /\ Len(Part(d, HeaderLength, Len(d))) = Len(d) - HeaderLength
          /\ \A i \in 1 .. Len(d) - HeaderLength :
               Part(d, HeaderLength, Len(d))[i] = d[HeaderLength + i]
      <4>1. PICK to \in Nat : to = Len(d)
        BY <3>2
      <4>2. d \in Seq(Wire) /\ HeaderLength <= to /\ to <= Len(d)
        BY <1>15, <3>2, <4>1
      <4>3. /\ Len(Part(d, HeaderLength, to)) = to - HeaderLength
            /\ \A i \in 1 .. to - HeaderLength :
                 Part(d, HeaderLength, to)[i] = d[HeaderLength + i]
        <5>1. HeaderLength \in Nat /\ to \in Nat
          BY <1>12
        <5>2. ASSUME NEW s \in Seq(Wire), NEW from \in Nat, NEW end \in Nat, from <= end,
                     end <= Len(s)
              PROVE  /\ Len(Part(s, from, end)) = end - from
                     /\ \A i \in 1 .. end - from : Part(s, from, end)[i] = s[from + i]
          BY <5>2, PartOf
        <5>3. QED
          BY <4>2, <5>1, <5>2, Zenon
      <4>4. QED
        BY <4>1, <4>3, Zenon
    <3>4. QED
      BY <3>1, <3>2, <3>3
  <2>4. d[HeaderLength + 1] = 0
    <3>1. Holds(d, 0 + HeaderLength, payload)
      <4>1. 0 \in Nat
        OBVIOUS
      <4>2. QED
        BY <1>7, <1>12, <1>14, <1>15, <4>1, HoldsInner
    <3>2. Holds(d, HeaderLength, payload) /\ 1 \in 1 .. Len(payload)
      BY <1>9, <1>12, <3>1
    <3>3. d[HeaderLength + 1] = payload[1]
      BY <3>2 DEF Holds
    <3>4. payload[1] = Word(m.ID)[1]
      <4>1. 1 \in 1 .. Len(Word(m.ID)) /\ 0 + 1 = 1
        BY <1>5
      <4>2. payload[0 + 1] = Word(m.ID)[1]
        BY <1>7, <4>1 DEF Holds
      <4>3. QED
        BY <4>1, <4>2
    <3>5. QED
      BY <1>5, <3>3, <3>4
  <2>5. Payload(d)[1] # 1 /\ Len(Payload(d)) # 1
    BY <1>9, <2>3, <2>4
  <2>6. DecodeAuthResponse(d) = Fail
    BY <2>5, Zenon DEF DecodeAuthResponse, When
  <2>7. QED
    BY <2>2, <2>6
<1>16. Len(data) >= HeaderLength /\ Len(data) + 1 - HeaderLength = n
  BY <1>9, <1>11, <1>12
<1>17. QED
  BY <1>14, <1>15, <1>16

\* The bytes of a cell, of a board or of an update.
LEMMA CellBytes ==
  ASSUME NEW x \in Words, NEW y \in Words, NEW v \in Octets
  PROVE  LET bytes == Word(x) \o Word(y) \o <<v>> IN
         /\ bytes \in Seq(Octets) /\ Len(bytes) = CellByteLength
         /\ WordAt(bytes, 0) = x /\ WordAt(bytes, WordBytes) = y /\ bytes[CellByteLength] = v
<1> DEFINE bytes == Word(x) \o Word(y) \o <<v>>
<1>1. /\ <<v>> \in Seq(Octets) /\ Len(<<v>>) = 1
      /\ Word(x) \in Seq(Octets) /\ Len(Word(x)) = WordBytes
      /\ Word(y) \in Seq(Octets) /\ Len(Word(y)) = WordBytes /\ WordBytes \in Nat
  BY FieldType, ByteType
<1>2. /\ bytes \in Seq(Octets) /\ Len(bytes) = Len(Word(x)) + Len(Word(y)) + Len(<<v>>)
      /\ Holds(bytes, 0, Word(x)) /\ Holds(bytes, Len(Word(x)), Word(y))
      /\ Holds(bytes, Len(Word(x)) + Len(Word(y)), <<v>>)
  BY <1>1, ThreeFields, Zenon
<1> HIDE DEF bytes
<1>3. /\ Len(bytes) = CellByteLength /\ Holds(bytes, WordBytes, Word(y))
      /\ Holds(bytes, 2 * WordBytes, <<v>>) /\ 2 * WordBytes \in Nat /\ 0 \in Nat
  BY <1>1, <1>2 DEF CellByteLength
<1>4. WordAt(bytes, 0) = x /\ WordAt(bytes, WordBytes) = y
  BY <1>1, <1>2, <1>3, WordIn
<1>5. bytes[2 * WordBytes + 1] = v
  BY <1>3, ByteHeld
<1>6. QED
  BY <1>2, <1>3, <1>4, <1>5 DEF CellByteLength, bytes

LEMMA CellLength == CellByteLength \in Nat /\ CellByteLength > 0
BY Widths DEF CellByteLength

LEMMA CellUpdatesBack ==
  ASSUME NEW m, m.kind = "CellUpdate", Sendable(m), NEW data \in Encodings(m), NEW wanted
  PROVE  Back(m, data, wanted)
<1> DEFINE bytes(k) == Word(m.cells[k].X) \o Word(m.cells[k].Y) \o <<m.cells[k].Value>>
           parts == [k \in DOMAIN m.cells |-> bytes(k)]
           payload == Concat(parts)
           n == Len(m.cells)
<1>1. m \in [kind : {"CellUpdate"}, cells : Seq(CellUpdate)]
  BY DEF Sendable, HasType
<1>2. /\ m.cells \in Seq(CellUpdate) /\ n \in Nat /\ DOMAIN m.cells = 1 .. n
      /\ \A k \in 1 .. n : m.cells[k] \in CellUpdate
  BY <1>1
<1>3. ASSUME NEW k \in 1 .. n
      PROVE  /\ bytes(k) \in Seq(Octets) /\ Len(bytes(k)) = CellByteLength
             /\ WordAt(bytes(k), 0) = m.cells[k].X /\ WordAt(bytes(k), WordBytes) = m.cells[k].Y
             /\ bytes(k)[CellByteLength] = m.cells[k].Value
  <2>1. m.cells[k].X \in Words /\ m.cells[k].Y \in Words /\ m.cells[k].Value \in Octets
    BY <1>2 DEF CellUpdate
  <2>2. QED
    BY <2>1, CellBytes
<1> HIDE DEF bytes
<1>4. /\ parts \in Seq(Seq(Octets)) /\ Len(parts) = n
      /\ \A k \in 1 .. n : parts[k] = bytes(k)
      /\ DOMAIN parts = 1 .. n
  <2>1. parts \in [1 .. n -> Seq(Octets)]
    BY <1>2, <1>3
  <2>2. QED
    BY <1>2, <2>1
<1> HIDE DEF parts, n
<1>5. /\ payload \in Seq(Octets) /\ Len(payload) % CellByteLength = 0
      /\ Split(payload, CellByteLength) = parts
  <2>1. \A k \in 1 .. Len(parts) : Len(parts[k]) = CellByteLength
    BY <1>3, <1>4
  <2>2. QED
    BY <1>4, <2>1, CellLength, SplitConcat
<1>6. data = Frame("CellUpdate", 0, payload)
  BY DEF Encodings, EncodeCellUpdates, parts, bytes
<1> HIDE DEF payload
<1>7. Framed(data, "CellUpdate", 0, payload)
  <2>1. "CellUpdate" \in Tags /\ 0 \in Octets
    BY CodecAssumption DEF Tags, Octets
  <2>2. QED
    BY <1>5, <1>6, <2>1, FrameSent
<1> DEFINE cells == [k \in DOMAIN parts |->
              [X |-> WordAt(parts[k], 0), Y |-> WordAt(parts[k], WordBytes),
               Value |-> parts[k][CellByteLength]]]
<1>8. cells = m.cells
  <2>1. ASSUME NEW k \in 1 .. n
        PROVE  [X |-> WordAt(parts[k], 0), Y |-> WordAt(parts[k], WordBytes),
                Value |-> parts[k][CellByteLength]] = m.cells[k]
    <3>1. m.cells[k] = [X |-> m.cells[k].X, Y |-> m.cells[k].Y, Value |-> m.cells[k].Value]
      BY <1>2 DEF CellUpdate
    <3>2. QED
      BY <1>3, <1>4, <3>1
  <2>2. m.cells = [k \in 1 .. n |-> m.cells[k]]
    BY <1>2
  <2>3. QED
    BY <1>4, <2>1, <2>2
<1>9. DecodeCellUpdates(data) =
        When(WellFormed(data, "CellUpdate") /\ Len(payload) % CellByteLength = 0,
             [kind |-> "CellUpdate", cells |-> cells])
  BY <1>5, <1>7, Zenon DEF DecodeCellUpdates, Framed
<1> HIDE DEF cells
<1>10. DecodeCellUpdates(data) = Got([kind |-> "CellUpdate", cells |-> m.cells])
  BY <1>5, <1>7, <1>8, <1>9 DEF Framed, When
<1>11. m = [kind |-> "CellUpdate", cells |-> m.cells]
  BY <1>1
<1>12. Decoded(data, wanted) = DecodeCellUpdates(data)
  BY <1>7 DEF Decoded, Framed
<1>13. Narrowed(m) = m
  BY DEF Narrowed
<1>14. QED
  BY <1>5, <1>7, <1>10, <1>11, <1>12, <1>13, BackOf

LEMMA CellBack ==
  ASSUME NEW cell \in Cell
  PROVE  CellFlags(cell) \in Octets /\ FlagsCell(CellFlags(cell)) = cell
<1>1. /\ cell.Mine \in BOOLEAN /\ cell.Revealed \in BOOLEAN /\ cell.Flagged \in BOOLEAN
      /\ cell = [Mine |-> cell.Mine, Revealed |-> cell.Revealed, Flagged |-> cell.Flagged]
  BY DEF Cell
<1>2. ASSUME NEW a \in {0, 1}, NEW b \in {0, 2}, NEW c \in {0, 4}
      PROVE  /\ a + b + c \in 0 .. 7 /\ ((a + b + c) % 2 = 1 <=> a = 1)
             /\ (((a + b + c) \div 2) % 2 = 1 <=> b = 2)
             /\ (((a + b + c) \div 4) % 2 = 1 <=> c = 4)
  OBVIOUS
<1> DEFINE a == IF cell.Mine THEN 1 ELSE 0
           b == IF cell.Revealed THEN 2 ELSE 0
           c == IF cell.Flagged THEN 4 ELSE 0
<1>3. /\ a \in {0, 1} /\ b \in {0, 2} /\ c \in {0, 4}
      /\ (a = 1 <=> cell.Mine) /\ (b = 2 <=> cell.Revealed) /\ (c = 4 <=> cell.Flagged)
  BY <1>1
<1>4. CellFlags(cell) = a + b + c
  BY DEF CellFlags
<1> HIDE DEF a, b, c
<1>5. /\ a + b + c \in 0 .. 7 /\ ((a + b + c) % 2 = 1 <=> cell.Mine)
      /\ (((a + b + c) \div 2) % 2 = 1 <=> cell.Revealed)
      /\ (((a + b + c) \div 4) % 2 = 1 <=> cell.Flagged)
  BY <1>2, <1>3
<1>6. CellFlags(cell) \in Octets
  BY <1>4, <1>5, CodecAssumption DEF Octets
<1>7. FlagsCell(CellFlags(cell)) =
        [Mine |-> cell.Mine, Revealed |-> cell.Revealed, Flagged |-> cell.Flagged]
  BY <1>1, <1>4, <1>5 DEF FlagsCell
<1>8. QED
  BY <1>1, <1>6, <1>7

\* The cells of a board, row by row: each one once.
LEMMA RowByRow ==
  ASSUME NEW W \in Nat, NEW H \in Nat
  PROVE  /\ W * H \in Nat
         /\ \A k \in 1 .. W * H : /\ (k - 1) % W \in 0 .. W - 1 /\ (k - 1) \div W \in 0 .. H - 1
                                  /\ k = W * ((k - 1) \div W) + ((k - 1) % W) + 1
         /\ \A x \in 0 .. W - 1, y \in 0 .. H - 1 :
              \E k \in 1 .. W * H : (k - 1) % W = x /\ (k - 1) \div W = y
<1>1. W * H \in Nat /\ (W = 0 => W * H = 0)
  OBVIOUS
<1>2. ASSUME NEW k \in 1 .. W * H
      PROVE  /\ (k - 1) % W \in 0 .. W - 1 /\ (k - 1) \div W \in 0 .. H - 1
             /\ k = W * ((k - 1) \div W) + ((k - 1) % W) + 1
  <2>1. PICK p \in Nat : p = W * H
    BY <1>1
  <2>2. W > 0 /\ k \in 1 .. p /\ k - 1 \in Int /\ k - 1 \in Nat
    BY <1>1, <2>1
  <2>3. PICK q \in Int, r \in 0 .. W - 1 :
          q = (k - 1) \div W /\ r = (k - 1) % W /\ k - 1 = W * q + r
    BY <2>2, DivMod
  <2>4. q >= 0
    <3>1. SUFFICES ASSUME q + 1 <= 0 PROVE FALSE
      BY <2>3
    <3>2. PICK t \in Nat : q = -(t + 1)
      <4>1. -(q + 1) \in Nat /\ q = -(-(q + 1) + 1)
        BY <2>3, <3>1
      <4>2. QED
        BY <4>1
    <3>3. W * q = -(W * t) - W /\ W * t \in Nat
      BY <3>2
    <3>4. QED
      BY <2>2, <2>3, <3>3
  <2>5. q < H
    <3>1. SUFFICES ASSUME q >= H PROVE FALSE
      BY <2>3
    <3>2. PICK t \in Nat : q = H + t
      <4>1. q - H \in Nat /\ q = H + (q - H)
        BY <2>3, <3>1
      <4>2. QED
        BY <4>1
    <3>3. W * q = W * H + W * t /\ W * t \in Nat
      BY <3>2
    <3>4. QED
      BY <2>1, <2>2, <2>3, <3>3
  <2>6. k = W * q + r + 1
    <3>1. W * q \in Int
      BY <2>3
    <3>2. QED
      BY <2>3, <3>1
  <2>7. QED
    BY <2>3, <2>4, <2>5, <2>6
<1>3. ASSUME NEW x \in 0 .. W - 1, NEW y \in 0 .. H - 1
      PROVE  \E k \in 1 .. W * H : (k - 1) % W = x /\ (k - 1) \div W = y
  <2> DEFINE k == (W * y + x) + 1
  <2>1. W > 0 /\ y \in Int
    OBVIOUS
  <2>2. PICK v \in Nat : v = W * y
    OBVIOUS
  <2>3. k \in Nat /\ k >= 1 /\ k - 1 = W * y + x
    BY <2>2
  <2>4. k <= W * H
    <3>1. PICK t \in Nat : H = y + 1 + t
      <4>1. H - y - 1 \in Nat /\ H = y + 1 + (H - y - 1)
        OBVIOUS
      <4>2. QED
        BY <4>1
    <3>2. W * H = W * y + W + W * t /\ W * t \in Nat
      BY <3>1
    <3>3. QED
      BY <2>2, <3>2
  <2>5. (W * y + x) \div W = y /\ (W * y + x) % W = x
    BY <2>1, DivUnique
  <2> HIDE DEF k
  <2>6. k \in 1 .. W * H
    BY <1>1, <2>3, <2>4
  <2>7. QED
    BY <2>3, <2>5, <2>6
<1>4. QED
  BY <1>1, <1>2, <1>3

LEMMA BoardBack ==
  ASSUME NEW m, m.kind = "Board", Sendable(m), NEW data \in Encodings(m), NEW wanted
  PROVE  Back(m, data, wanted)
<1> DEFINE W == m.Width
           H == m.Height
           x(k) == (k - 1) % W
           y(k) == (k - 1) \div W
           bytes(k) == Word(x(k)) \o Word(y(k)) \o <<CellFlags(m.Cells[<<x(k), y(k)>>])>>
           n == W * H
           parts == [k \in 1 .. n |-> bytes(k)]
           cells == Concat(parts)
           payload == Word(H) \o Word(W) \o cells
           places == (0 .. W - 1) \X (0 .. H - 1)
<1>1. /\ m \in [kind : {"Board"}, Width : Words, Height : Words, Cells : {m.Cells}]
      /\ m.Cells \in [(0 .. m.Width - 1) \X (0 .. m.Height - 1) -> Cell]
  BY DEF Sendable, HasType
<1>2. W \in Words /\ H \in Words /\ m.Cells \in [places -> Cell]
  BY <1>1
<1>3. W \in Nat /\ H \in Nat /\ \A k \in 0 .. W - 1 : k \in Words
  <2>1. W \in Nat /\ H \in Nat
    BY <1>2, Ints
  <2>2. Power[WordBytes] \in Nat
    BY PowerStep, Widths
  <2>3. W \in 0 .. Power[WordBytes] - 1
    BY <1>2 DEF Words, Unsigned
  <2>4. \A k \in 0 .. W - 1 : k \in 0 .. Power[WordBytes] - 1
    BY <2>1, <2>2, <2>3
  <2>5. QED
    BY <2>1, <2>4 DEF Words, Unsigned
<1>4. \A k \in 0 .. H - 1 : k \in Words
  <2>1. Power[WordBytes] \in Nat
    BY PowerStep, Widths
  <2>2. H \in 0 .. Power[WordBytes] - 1
    BY <1>2 DEF Words, Unsigned
  <2>3. \A k \in 0 .. H - 1 : k \in 0 .. Power[WordBytes] - 1
    BY <1>3, <2>1, <2>2
  <2>4. QED
    BY <2>3 DEF Words, Unsigned
<1> HIDE DEF W, H
<1>5. /\ n \in Nat
      /\ \A k \in 1 .. n : x(k) \in 0 .. W - 1 /\ y(k) \in 0 .. H - 1 /\ k = W * y(k) + x(k) + 1
      /\ \A a \in 0 .. W - 1, b \in 0 .. H - 1 : \E k \in 1 .. n : x(k) = a /\ y(k) = b
  BY <1>3, RowByRow
<1> HIDE DEF x, y, n
<1>6. ASSUME NEW k \in 1 .. n
      PROVE  /\ x(k) \in Words /\ y(k) \in Words /\ <<x(k), y(k)>> \in places
             /\ m.Cells[<<x(k), y(k)>>] \in Cell
             /\ CellFlags(m.Cells[<<x(k), y(k)>>]) \in Octets
             /\ FlagsCell(CellFlags(m.Cells[<<x(k), y(k)>>])) = m.Cells[<<x(k), y(k)>>]
  <2>1. x(k) \in Words /\ y(k) \in Words /\ <<x(k), y(k)>> \in places
    BY <1>3, <1>4, <1>5
  <2>2. m.Cells[<<x(k), y(k)>>] \in Cell
    BY <1>2, <2>1
  <2>3. QED
    BY <2>1, <2>2, CellBack
<1>7. ASSUME NEW k \in 1 .. n
      PROVE  /\ bytes(k) \in Seq(Octets) /\ Len(bytes(k)) = CellByteLength
             /\ WordAt(bytes(k), 0) = x(k) /\ WordAt(bytes(k), WordBytes) = y(k)
             /\ FlagsCell(bytes(k)[CellByteLength]) = m.Cells[<<x(k), y(k)>>]
  <2>1. PICK v \in Octets : v = CellFlags(m.Cells[<<x(k), y(k)>>])
    BY <1>6, Zenon
  <2>2. FlagsCell(v) = m.Cells[<<x(k), y(k)>>]
    BY <1>6, <2>1, Zenon
  <2>3. bytes(k) = Word(x(k)) \o Word(y(k)) \o <<v>>
    BY <2>1, Zenon
  <2> HIDE DEF bytes
  <2>4. /\ bytes(k) \in Seq(Octets) /\ Len(bytes(k)) = CellByteLength
        /\ WordAt(bytes(k), 0) = x(k) /\ WordAt(bytes(k), WordBytes) = y(k)
        /\ bytes(k)[CellByteLength] = v
    <3>1. PICK a \in Words, b \in Words : a = x(k) /\ b = y(k)
      BY <1>6, Zenon
    <3>2. bytes(k) = Word(a) \o Word(b) \o <<v>>
      BY <2>3, <3>1, Zenon
    <3>3. LET s == Word(a) \o Word(b) \o <<v>> IN
          /\ s \in Seq(Octets) /\ Len(s) = CellByteLength
          /\ WordAt(s, 0) = a /\ WordAt(s, WordBytes) = b /\ s[CellByteLength] = v
      BY CellBytes
    <3>4. QED
      BY <3>1, <3>2, <3>3, Zenon
  <2>5. QED
    BY <2>2, <2>4, Zenon
<1> HIDE DEF bytes
<1>8. /\ parts \in Seq(Seq(Octets)) /\ Len(parts) = n /\ DOMAIN parts = 1 .. n
      /\ \A k \in 1 .. n : parts[k] = bytes(k)
  <2>1. parts \in [1 .. n -> Seq(Octets)]
    BY <1>7
  <2>2. QED
    BY <1>5, <2>1
<1> HIDE DEF parts
<1>9. /\ cells \in Seq(Octets) /\ Len(cells) % CellByteLength = 0
      /\ Split(cells, CellByteLength) = parts
  <2>1. \A k \in 1 .. Len(parts) : Len(parts[k]) = CellByteLength
    BY <1>7, <1>8
  <2>2. QED
    BY <1>8, <2>1, CellLength, SplitConcat
<1>10. data = Frame("Board", 0, payload)
  <2>1. parts = [k \in 1 .. m.Width * m.Height |->
                  Word(CellOrder(m)[k][1]) \o Word(CellOrder(m)[k][2])
                  \o <<CellFlags(m.Cells[CellOrder(m)[k]])>>]
    <3>1. \A k \in 1 .. n : CellOrder(m)[k] = <<x(k), y(k)>>
      BY DEF CellOrder, n, W, H, x, y
    <3>2. QED
      BY <3>1 DEF n, W, H, parts, bytes
  <2>2. QED
    BY <2>1 DEF Encodings, EncodeBoard, W, H
<1> HIDE DEF cells
<1>11. /\ Word(H) \in Seq(Octets) /\ Len(Word(H)) = WordBytes
       /\ Word(W) \in Seq(Octets) /\ Len(Word(W)) = WordBytes /\ WordBytes \in Nat
  BY <1>2, FieldType DEF W, H
<1>12. /\ payload \in Seq(Octets) /\ Len(payload) = Len(Word(H)) + Len(Word(W)) + Len(cells)
       /\ Holds(payload, 0, Word(H)) /\ Holds(payload, Len(Word(H)), Word(W))
       /\ Holds(payload, Len(Word(H)) + Len(Word(W)), cells)
  BY <1>9, <1>11, ThreeFields, Zenon
<1> HIDE DEF payload
<1>13. Framed(data, "Board", 0, payload)
  <2>1. "Board" \in Tags /\ 0 \in Octets
    BY CodecAssumption DEF Tags, Octets
  <2>2. QED
    BY <1>10, <1>12, <2>1, FrameSent
<1>14. /\ WordAt(payload, 0) = H /\ WordAt(payload, WordBytes) = W
       /\ From(payload, 2 * WordBytes) = cells /\ Len(payload) >= 2 * WordBytes
  <2>1. 2 * WordBytes \in Nat /\ WordBytes + WordBytes = 2 * WordBytes /\ 0 \in Nat
    BY <1>11
  <2>2. Holds(payload, WordBytes, Word(W)) /\ Holds(payload, 2 * WordBytes, cells)
    BY <1>11, <1>12, <2>1
  <2>3. WordAt(payload, 0) = H /\ WordAt(payload, WordBytes) = W
    BY <1>2, <1>11, <1>12, <2>1, <2>2, WordIn DEF W, H
  <2>4. Part(payload, 2 * WordBytes, (2 * WordBytes) + Len(cells)) = cells
    BY <1>9, <1>12, <2>1, <2>2, PartHeld
  <2>5. Len(payload) = (2 * WordBytes) + Len(cells) /\ Len(cells) \in Nat
    BY <1>9, <1>11, <1>12
  <2>6. QED
    BY <2>1, <2>3, <2>4, <2>5 DEF From
<1> DEFINE at(k) == <<WordAt(parts[k], 0), WordAt(parts[k], WordBytes)>>
           all == {at(k) : k \in DOMAIN parts}
           read == [c \in all |->
              FlagsCell(parts[CHOOSE k \in DOMAIN parts : at(k) = c][CellByteLength])]
<1>15. \A k \in 1 .. n : at(k) = <<x(k), y(k)>>
  BY <1>7, <1>8
<1> HIDE DEF at
<1>16. all = places
  <2>1. all \subseteq places
    BY <1>6, <1>8, <1>15
  <2>2. places \subseteq all
    <3>1. ASSUME NEW a \in 0 .. W - 1, NEW b \in 0 .. H - 1 PROVE <<a, b>> \in all
      <4>1. PICK k \in 1 .. n : x(k) = a /\ y(k) = b
        BY <1>5
      <4>2. QED
        BY <1>8, <1>15, <4>1
    <3>2. QED
      BY <3>1
  <2>3. QED
    BY <2>1, <2>2
<1>17. ASSUME NEW j \in 1 .. n, NEW k \in 1 .. n, at(j) = at(k) PROVE j = k
  <2>1. x(j) = x(k) /\ y(j) = y(k)
    BY <1>15, <1>17
  <2>2. QED
    BY <1>5, <2>1
<1>18. IsInjective([k \in DOMAIN parts |-> at(k)])
  BY <1>8, <1>17 DEF IsInjective
<1>19. Len(parts) = H * W
  BY <1>3, <1>8 DEF n
<1>20. read = m.Cells
  <2>1. ASSUME NEW c \in places
        PROVE  FlagsCell(parts[CHOOSE k \in DOMAIN parts : at(k) = c][CellByteLength]) = m.Cells[c]
    <3> DEFINE k == CHOOSE k \in DOMAIN parts : at(k) = c
    <3>1. k \in 1 .. n /\ at(k) = c
      <4>1. c \in all
        BY <1>16, Zenon
      <4>2. \E j \in DOMAIN parts : at(j) = c
        BY <4>1
      <4>3. k \in DOMAIN parts /\ at(k) = c
        BY <4>2, Zenon
      <4>4. QED
        BY <1>8, <4>3, Zenon
    <3> HIDE DEF k
    <3>2. c = <<x(k), y(k)>> /\ parts[k] = bytes(k)
      BY <1>8, <1>15, <3>1
    <3>3. FlagsCell(parts[k][CellByteLength]) = m.Cells[c]
      BY <1>7, <3>1, <3>2
    <3>4. QED
      BY <3>3 DEF k
  <2>2. m.Cells = [c \in places |-> m.Cells[c]]
    BY <1>2
  <2>3. read = [c \in places |-> m.Cells[c]]
    <3> HIDE DEF all, places
    <3>1. QED
      BY <1>16, <2>1, Zenon
  <2>4. QED
    BY <2>2, <2>3
<1>21. DecodeBoard(data) =
         When(/\ WellFormed(data, "Board") /\ Len(payload) >= 2 * WordBytes
              /\ Len(cells) % CellByteLength = 0 /\ Len(parts) = H * W
              /\ all \subseteq (0 .. W - 1) \X (0 .. H - 1)
              /\ IsInjective([k \in DOMAIN parts |-> at(k)]),
              [kind |-> "Board", Width |-> W, Height |-> H, Cells |-> read])
  <2> DEFINE Result(p, hh, ww, cc, pp) ==
        LET where(k) == <<WordAt(pp[k], 0), WordAt(pp[k], WordBytes)>>
            found == {where(k) : k \in DOMAIN pp}
        IN  When(/\ WellFormed(data, "Board") /\ Len(p) >= 2 * WordBytes
                 /\ Len(cc) % CellByteLength = 0 /\ Len(pp) = hh * ww
                 /\ found \subseteq (0 .. ww - 1) \X (0 .. hh - 1)
                 /\ IsInjective([k \in DOMAIN pp |-> where(k)]),
                 [kind |-> "Board", Width |-> ww, Height |-> hh,
                  Cells |-> [c \in found |->
                    FlagsCell(pp[CHOOSE k \in DOMAIN pp : where(k) = c][CellByteLength])]])
  <2>1. Payload(data) = payload
    BY <1>13 DEF Framed
  <2>2. DecodeBoard(data) =
          Result(Payload(data), WordAt(Payload(data), 0), WordAt(Payload(data), WordBytes),
                 From(Payload(data), 2 * WordBytes),
                 Split(From(Payload(data), 2 * WordBytes), CellByteLength))
    BY Zenon DEF DecodeBoard
  <2> HIDE DEF Result
  <2>3. DecodeBoard(data) = Result(payload, H, W, cells, parts)
    BY <1>9, <1>14, <2>1, <2>2, Zenon
  <2>4. QED
    BY <2>3, Zenon DEF Result, at
<1> HIDE DEF all, read
<1>22. DecodeBoard(data) = Got([kind |-> "Board", Width |-> W, Height |-> H, Cells |-> m.Cells])
  <2>1. WellFormed(data, "Board")
    BY <1>13 DEF Framed
  <2>2. all \subseteq (0 .. W - 1) \X (0 .. H - 1)
    BY <1>16
  <2>3. QED
    BY <1>9, <1>14, <1>18, <1>19, <1>20, <1>21, <2>1, <2>2 DEF When
<1>23. m = [kind |-> "Board", Width |-> W, Height |-> H, Cells |-> m.Cells]
  BY <1>1 DEF W, H
<1>24. Decoded(data, wanted) = DecodeBoard(data)
  BY <1>13 DEF Decoded, Framed
<1>25. Narrowed(m) = m
  BY DEF Narrowed
<1>26. QED
  BY <1>12, <1>13, <1>22, <1>23, <1>24, <1>25, BackOf

\* The bytes of a player's score and of a change of marks.
LEMMA ScoreBytes ==
  ASSUME NEW id \in Words, NEW score \in Int
  PROVE  LET bytes == Word(id) \o EncodeScore(score) IN
         /\ bytes \in Seq(Octets) /\ Len(bytes) = 2 * WordBytes
         /\ WordAt(bytes, 0) = id /\ WordAt(bytes, WordBytes) = score % Power[WordBytes]
<1> DEFINE bytes == Word(id) \o Word(score)
<1>1. /\ Word(id) \in Seq(Octets) /\ Len(Word(id)) = WordBytes
      /\ Word(score) \in Seq(Octets) /\ Len(Word(score)) = WordBytes /\ WordBytes \in Nat
  BY FieldType, WordType
<1>2. /\ bytes \in Seq(Octets) /\ Len(bytes) = Len(Word(id)) + Len(Word(score))
      /\ Holds(bytes, 0, Word(id)) /\ Holds(bytes, Len(Word(id)), Word(score))
  BY <1>1, TwoFields, Zenon
<1> HIDE DEF bytes
<1>3. WordAt(bytes, 0) = id
  BY <1>2, WordIn
<1>4. WordAt(bytes, WordBytes) = score % Power[WordBytes]
  BY <1>1, <1>2, WordHeld
<1>5. Len(bytes) = 2 * WordBytes
  BY <1>1, <1>2
<1>6. QED
  BY <1>2, <1>3, <1>4, <1>5 DEF bytes, EncodeScore

LEMMA MarkBytes ==
  ASSUME NEW x \in Words, NEW y \in Words, NEW p \in Words
  PROVE  LET bytes == Word(x) \o Word(y) \o Word(p) IN
         /\ bytes \in Seq(Octets) /\ Len(bytes) = 3 * WordBytes
         /\ WordAt(bytes, 0) = x /\ WordAt(bytes, WordBytes) = y
         /\ WordAt(bytes, 2 * WordBytes) = p
<1> DEFINE bytes == Word(x) \o Word(y) \o Word(p)
<1>1. /\ Word(x) \in Seq(Octets) /\ Len(Word(x)) = WordBytes
      /\ Word(y) \in Seq(Octets) /\ Len(Word(y)) = WordBytes
      /\ Word(p) \in Seq(Octets) /\ Len(Word(p)) = WordBytes /\ WordBytes \in Nat
  BY FieldType
<1>2. /\ bytes \in Seq(Octets) /\ Len(bytes) = Len(Word(x)) + Len(Word(y)) + Len(Word(p))
      /\ Holds(bytes, 0, Word(x)) /\ Holds(bytes, Len(Word(x)), Word(y))
      /\ Holds(bytes, Len(Word(x)) + Len(Word(y)), Word(p))
  BY <1>1, ThreeFields, Zenon
<1> HIDE DEF bytes
<1>3. /\ Len(bytes) = 3 * WordBytes /\ Holds(bytes, WordBytes, Word(y))
      /\ Holds(bytes, 2 * WordBytes, Word(p)) /\ 2 * WordBytes \in Nat /\ 0 \in Nat
  BY <1>1, <1>2
<1>4. WordAt(bytes, 0) = x /\ WordAt(bytes, WordBytes) = y /\ WordAt(bytes, 2 * WordBytes) = p
  BY <1>1, <1>2, <1>3, WordIn
<1>5. QED
  BY <1>2, <1>3, <1>4 DEF bytes

\* A map of scores is written in some order, each player once.
LEMMA Orders ==
  ASSUME NEW ids \in SUBSET Words, NEW order \in SetToSeqs(ids)
  PROVE  LET c == Cardinality(ids) IN
         /\ c \in Nat /\ \A k \in 1 .. c : order[k] \in ids
         /\ \A j, k \in 1 .. c : order[j] = order[k] => j = k
         /\ \A i \in ids : \E k \in 1 .. c : order[k] = i
<1> DEFINE c == Cardinality(ids)
<1>1. IsFiniteSet(ids) /\ c \in Nat
  <2>1. Power[WordBytes] \in Nat
    BY PowerStep, Widths
  <2>2. 0 \in Int /\ Power[WordBytes] - 1 \in Int
    BY <2>1
  <2>3. IsFiniteSet(Words)
    BY <2>2, FS_Interval DEF Words, Unsigned
  <2>4. IsFiniteSet(ids)
    BY <2>3, FS_Subset
  <2>5. QED
    BY <2>4, FS_CardinalityType
<1>2. order \in [1 .. c -> ids] /\ \A j, k \in 1 .. c : order[j] = order[k] => j = k
  BY DEF SetToSeqs
<1>3. Cardinality(1 .. c) = c
  <2>1. 1 \in Int /\ c \in Int
    BY <1>1
  <2>2. Cardinality(1 .. c) = IF 1 > c THEN 0 ELSE c - 1 + 1
    BY <2>1, FS_Interval
  <2>3. QED
    BY <1>1, <2>2
<1> HIDE DEF c
<1>4. order \in Injection(1 .. c, ids)
  BY <1>2 DEF Injection, IsInjective
<1>5. order \in Surjection(1 .. c, ids)
  <2>1. Cardinality(1 .. c) = Cardinality(ids)
    BY <1>3 DEF c
  <2>2. QED
    BY <1>1, <1>4, <2>1, FS_Injection
<1>6. \A i \in ids : \E k \in 1 .. c : order[k] = i
  BY <1>5 DEF Surjection
<1>7. QED
  BY <1>1, <1>2, <1>6 DEF c

LEMMA GamemodeInfoBack ==
  ASSUME NEW m, m.kind = "GamemodeInfo", Sendable(m), NEW data \in Encodings(m), NEW wanted
  PROVE  Back(m, data, wanted)
<1> DEFINE ids == DOMAIN m.PlayerScores
           P == Power[WordBytes]
           n == Len(m.MarksChange)
           mark(k) == Word(m.MarksChange[k].X) \o Word(m.MarksChange[k].Y)
                      \o Word(m.MarksChange[k].PlayerId)
           markParts == [k \in DOMAIN m.MarksChange |-> mark(k)]
           marks == Concat(markParts)
<1>1. /\ m \in [kind : {"GamemodeInfo"}, GameMode : {ModeCoop}, MarksChange : Seq(PlayerMarkChange),
                PlayerScores : {m.PlayerScores}]
      /\ ids \in SUBSET Words /\ Cardinality(ids) \in Halves /\ m.PlayerScores \in [ids -> Int]
  BY DEF Sendable, HasType
<1>2. PICK order \in SetToSeqs(ids) :
        data = Frame("GamemodeInfo", 0,
                     <<ModeCoop>> \o Half(Cardinality(ids))
                     \o Concat([k \in DOMAIN order |->
                                  Word(order[k]) \o EncodeScore(m.PlayerScores[order[k]])])
                     \o marks)
  <2>1. data \in EncodeGamemodeInfo(m)
    BY DEF Encodings
  <2>2. QED
    BY <2>1, Zenon DEF EncodeGamemodeInfo
<1> DEFINE c == Cardinality(ids)
           pair(k) == Word(order[k]) \o EncodeScore(m.PlayerScores[order[k]])
           pairParts == [k \in DOMAIN order |-> pair(k)]
           pairs == Concat(pairParts)
           payload == <<ModeCoop>> \o Half(c) \o pairs \o marks
<1>3. /\ c \in Nat /\ c \in Halves /\ \A k \in 1 .. c : order[k] \in ids
      /\ \A j, k \in 1 .. c : order[j] = order[k] => j = k
      /\ \A i \in ids : \E k \in 1 .. c : order[k] = i
      /\ DOMAIN order = 1 .. c
  BY <1>1, Orders DEF SetToSeqs
<1>4. /\ m.MarksChange \in Seq(PlayerMarkChange) /\ n \in Nat /\ DOMAIN m.MarksChange = 1 .. n
      /\ \A k \in 1 .. n : m.MarksChange[k] \in PlayerMarkChange
  BY <1>1
<1>5. data = Frame("GamemodeInfo", 0, payload)
  BY <1>2
<1> HIDE DEF c, n, ids
<1>6. ASSUME NEW k \in 1 .. c
      PROVE  /\ order[k] \in Words /\ pair(k) \in Seq(Octets) /\ Len(pair(k)) = 2 * WordBytes
             /\ WordAt(pair(k), 0) = order[k]
             /\ WordAt(pair(k), WordBytes) = m.PlayerScores[order[k]] % P
  <2>1. PICK i \in Words : i = order[k] /\ i \in ids
    BY <1>1, <1>3
  <2>2. PICK s \in Int : s = m.PlayerScores[i]
    BY <1>1, <2>1
  <2>3. pair(k) = Word(i) \o EncodeScore(s)
    BY <2>1, <2>2
  <2> HIDE DEF pair
  <2>4. LET bytes == Word(i) \o EncodeScore(s) IN
        /\ bytes \in Seq(Octets) /\ Len(bytes) = 2 * WordBytes
        /\ WordAt(bytes, 0) = i /\ WordAt(bytes, WordBytes) = s % Power[WordBytes]
    BY ScoreBytes
  <2>5. QED
    BY <2>1, <2>2, <2>3, <2>4
<1>7. ASSUME NEW k \in 1 .. n
      PROVE  /\ mark(k) \in Seq(Octets) /\ Len(mark(k)) = 3 * WordBytes
             /\ WordAt(mark(k), 0) = m.MarksChange[k].X
             /\ WordAt(mark(k), WordBytes) = m.MarksChange[k].Y
             /\ WordAt(mark(k), 2 * WordBytes) = m.MarksChange[k].PlayerId
  <2>1. PICK x \in Words, y \in Words, p \in Words :
          /\ x = m.MarksChange[k].X /\ y = m.MarksChange[k].Y /\ p = m.MarksChange[k].PlayerId
    BY <1>4 DEF PlayerMarkChange
  <2>2. mark(k) = Word(x) \o Word(y) \o Word(p)
    BY <2>1
  <2> HIDE DEF mark
  <2>3. LET bytes == Word(x) \o Word(y) \o Word(p) IN
        /\ bytes \in Seq(Octets) /\ Len(bytes) = 3 * WordBytes
        /\ WordAt(bytes, 0) = x /\ WordAt(bytes, WordBytes) = y
        /\ WordAt(bytes, 2 * WordBytes) = p
    BY MarkBytes
  <2>4. QED
    BY <2>1, <2>2, <2>3
<1> HIDE DEF pair, mark
<1>8. /\ pairParts \in Seq(Seq(Octets)) /\ Len(pairParts) = c /\ DOMAIN pairParts = 1 .. c
      /\ \A k \in 1 .. c : pairParts[k] = pair(k)
  <2>1. pairParts \in [1 .. c -> Seq(Octets)]
    BY <1>3, <1>6
  <2>2. QED
    BY <1>3, <2>1
<1>9. /\ markParts \in Seq(Seq(Octets)) /\ Len(markParts) = n /\ DOMAIN markParts = 1 .. n
      /\ \A k \in 1 .. n : markParts[k] = mark(k)
  <2>1. markParts \in [1 .. n -> Seq(Octets)]
    BY <1>4, <1>7
  <2>2. QED
    BY <1>4, <2>1
<1> HIDE DEF pairParts, markParts
<1>10. /\ pairs \in Seq(Octets) /\ Len(pairs) = c * (2 * WordBytes)
       /\ Split(pairs, 2 * WordBytes) = pairParts
  <2>1. \A k \in 1 .. Len(pairParts) : Len(pairParts[k]) = 2 * WordBytes
    BY <1>6, <1>8
  <2>2. 2 * WordBytes \in Nat /\ 2 * WordBytes > 0
    BY Widths
  <2>3. QED
    BY <1>8, <2>1, <2>2, SplitConcat
<1>11. marks \in Seq(Octets) /\ Split(marks, 3 * WordBytes) = markParts
  <2>1. \A k \in 1 .. Len(markParts) : Len(markParts[k]) = 3 * WordBytes
    BY <1>7, <1>9
  <2>2. 3 * WordBytes \in Nat /\ 3 * WordBytes > 0
    BY Widths
  <2>3. QED
    BY <1>9, <2>1, <2>2, SplitConcat
<1> HIDE DEF pairs, marks
<1>12. /\ <<ModeCoop>> \in Seq(Octets) /\ Len(<<ModeCoop>>) = 1
       /\ Half(c) \in Seq(Octets) /\ Len(Half(c)) = HalfBytes /\ HalfBytes \in Nat
  <2>1. ModeCoop \in Octets
    BY CodecAssumption DEF ModeCoop, Octets
  <2>2. c \in Int
    BY <1>3
  <2>3. QED
    BY <2>1, <2>2, ByteType, WordType, Widths
<1>13. /\ payload \in Seq(Octets)
       /\ Len(payload) = Len(<<ModeCoop>>) + Len(Half(c)) + Len(pairs) + Len(marks)
       /\ Holds(payload, 0, <<ModeCoop>>) /\ Holds(payload, Len(<<ModeCoop>>), Half(c))
       /\ Holds(payload, Len(<<ModeCoop>>) + Len(Half(c)), pairs)
       /\ Holds(payload, Len(<<ModeCoop>>) + Len(Half(c)) + Len(pairs), marks)
  BY <1>10, <1>11, <1>12, FourFields, Zenon
<1> HIDE DEF payload
<1>14. Framed(data, "GamemodeInfo", 0, payload)
  <2>1. "GamemodeInfo" \in Tags /\ 0 \in Octets
    BY CodecAssumption DEF Tags, Octets
  <2>2. QED
    BY <1>5, <1>13, <2>1, FrameSent
<1> DEFINE start == 1 + HalfBytes
           end == start + c * 2 * WordBytes
<1>15. /\ payload[1] = ModeCoop /\ Number(Part(payload, 1, 1 + HalfBytes)) = c
       /\ Part(payload, start, end) = pairs /\ From(payload, end) = marks
  <2>1. payload[0 + 1] = ModeCoop /\ 0 + 1 = 1
    <3>1. Holds(payload, 0, <<ModeCoop>>) /\ 0 \in Nat
      BY <1>13
    <3>2. QED
      BY <3>1, ByteHeld
  <2>2. Number(Part(payload, 1, 1 + HalfBytes)) = c
    <3>1. 1 \in Nat /\ Holds(payload, 1, Half(c))
      BY <1>12, <1>13
    <3>2. QED
      BY <1>3, <1>13, <3>1, HalfIn
  <2>3. PICK w \in Nat, h \in Nat : w = WordBytes /\ h = HalfBytes
    BY Widths
  <2>4. c * (2 * w) = c * 2 * w /\ c * 2 * w \in Nat
    BY <1>3
  <2>5. Len(pairs) = c * 2 * w /\ end = (1 + h) + c * 2 * w /\ start = 1 + h /\ Len(pairs) \in Nat
    BY <1>10, <2>3, <2>4
  <2> HIDE DEF start, end
  <2>6. start \in Nat /\ end \in Nat /\ end = start + Len(pairs)
    BY <2>4, <2>5
  <2>7. Holds(payload, start, pairs) /\ Holds(payload, end, marks)
    <3>1. Len(<<ModeCoop>>) + Len(Half(c)) = start
      BY <1>12, <2>3, <2>5
    <3>2. QED
      BY <1>13, <2>6, <3>1
  <2>8. Part(payload, start, start + Len(pairs)) = pairs
    BY <1>10, <1>13, <2>6, <2>7, PartHeld
  <2>9. Part(payload, end, end + Len(marks)) = marks
    BY <1>11, <1>13, <2>6, <2>7, PartHeld
  <2>10. Len(payload) = end + Len(marks)
    <3>1. Len(marks) \in Nat
      BY <1>11
    <3>2. QED
      BY <1>12, <1>13, <2>3, <2>4, <2>5, <3>1
  <2>11. QED
    BY <2>1, <2>2, <2>6, <2>8, <2>9, <2>10 DEF From
<1> HIDE DEF start, end
<1> DEFINE found == {WordAt(pairParts[k], 0) : k \in DOMAIN pairParts}
           scores == [i \in found |->
             WordAt(pairParts[CHOOSE k \in DOMAIN pairParts : WordAt(pairParts[k], 0) = i], WordBytes)]
           changes == [k \in DOMAIN markParts |->
             [X |-> WordAt(markParts[k], 0), Y |-> WordAt(markParts[k], WordBytes),
              PlayerId |-> WordAt(markParts[k], 2 * WordBytes)]]
<1>16. \A k \in 1 .. c : WordAt(pairParts[k], 0) = order[k]
                         /\ WordAt(pairParts[k], WordBytes) = m.PlayerScores[order[k]] % P
  BY <1>6, <1>8
<1>17. found = ids
  <2>1. ASSUME NEW k \in DOMAIN pairParts PROVE WordAt(pairParts[k], 0) \in ids
    BY <1>3, <1>8, <1>16
  <2>2. ASSUME NEW i \in ids PROVE i \in found
    <3>1. PICK k \in 1 .. c : order[k] = i
      BY <1>3
    <3>2. k \in DOMAIN pairParts /\ WordAt(pairParts[k], 0) = i
      BY <1>8, <1>16, <3>1
    <3>3. QED
      BY <3>2
  <2>3. QED
    BY <2>1, <2>2
<1>18. scores = [i \in ids |-> m.PlayerScores[i] % P]
  <2>1. ASSUME NEW i \in ids
        PROVE  WordAt(pairParts[CHOOSE k \in DOMAIN pairParts : WordAt(pairParts[k], 0) = i], WordBytes)
                 = m.PlayerScores[i] % P
    <3> DEFINE k == CHOOSE k \in DOMAIN pairParts : WordAt(pairParts[k], 0) = i
    <3>1. \E j \in DOMAIN pairParts : WordAt(pairParts[j], 0) = i
      BY <1>3, <1>8, <1>16
    <3>2. k \in DOMAIN pairParts /\ WordAt(pairParts[k], 0) = i
      BY <3>1, Zenon
    <3> HIDE DEF k
    <3>3. k \in 1 .. c /\ order[k] = i
      BY <1>8, <1>16, <3>2
    <3>4. WordAt(pairParts[k], WordBytes) = m.PlayerScores[i] % P
      BY <1>16, <3>3
    <3>5. QED
      BY <3>4 DEF k
  <2>2. scores = [i \in ids |->
          WordAt(pairParts[CHOOSE k \in DOMAIN pairParts : WordAt(pairParts[k], 0) = i], WordBytes)]
    <3> HIDE DEF found
    <3>1. QED
      BY <1>17, Zenon
  <2> DEFINE value(i) ==
        WordAt(pairParts[CHOOSE k \in DOMAIN pairParts : WordAt(pairParts[k], 0) = i], WordBytes)
  <2>3. scores = [i \in ids |-> value(i)]
    BY <2>2
  <2>4. \A i \in ids : value(i) = m.PlayerScores[i] % P
    BY <2>1
  <2> HIDE DEF scores, value
  <2>5. QED
    BY <2>3, <2>4
<1>19. changes = m.MarksChange
  <2>1. ASSUME NEW k \in 1 .. n
        PROVE  [X |-> WordAt(markParts[k], 0), Y |-> WordAt(markParts[k], WordBytes),
                PlayerId |-> WordAt(markParts[k], 2 * WordBytes)] = m.MarksChange[k]
    <3>1. m.MarksChange[k] = [X |-> m.MarksChange[k].X, Y |-> m.MarksChange[k].Y,
                              PlayerId |-> m.MarksChange[k].PlayerId]
      BY <1>4 DEF PlayerMarkChange
    <3>2. QED
      BY <1>7, <1>9, <3>1
  <2>2. m.MarksChange = [k \in 1 .. n |-> m.MarksChange[k]]
    BY <1>4 DEF n
  <2>3. QED
    BY <1>9, <2>1, <2>2
<1>20. DecodeGamemodeInfo(data) =
         When(WellFormed(data, "GamemodeInfo") /\ payload[1] = ModeCoop,
              [kind |-> "GamemodeInfo", GameMode |-> payload[1], PlayerScores |-> scores,
               MarksChange |-> changes])
  <2> DEFINE Result(p, pp, mm) ==
        LET found2 == {WordAt(pp[k], 0) : k \in DOMAIN pp} IN
        When(WellFormed(data, "GamemodeInfo") /\ p[1] = ModeCoop,
             [kind |-> "GamemodeInfo", GameMode |-> p[1],
              PlayerScores |-> [i \in found2 |->
                WordAt(pp[CHOOSE k \in DOMAIN pp : WordAt(pp[k], 0) = i], WordBytes)],
              MarksChange |-> [k \in DOMAIN mm |->
                [X |-> WordAt(mm[k], 0), Y |-> WordAt(mm[k], WordBytes),
                 PlayerId |-> WordAt(mm[k], 2 * WordBytes)]]])
         Count(p) == Number(Part(p, 1, 1 + HalfBytes))
         Behind(p) == (1 + HalfBytes) + Count(p) * 2 * WordBytes
  <2>1. Payload(data) = payload
    BY <1>14 DEF Framed
  <2>2. DecodeGamemodeInfo(data) =
          Result(Payload(data),
                 Split(Part(Payload(data), 1 + HalfBytes, Behind(Payload(data))), 2 * WordBytes),
                 Split(From(Payload(data), Behind(Payload(data))), 3 * WordBytes))
    BY Zenon DEF DecodeGamemodeInfo
  <2>3. Behind(payload) = end
    BY <1>15 DEF start, end
  <2> HIDE DEF Result, Behind
  <2>4. DecodeGamemodeInfo(data) = Result(payload, pairParts, markParts)
    BY <1>10, <1>11, <1>15, <2>1, <2>2, <2>3, Zenon DEF start
  <2>5. QED
    BY <2>4, Zenon DEF Result
<1> HIDE DEF found, scores, changes
<1>21. DecodeGamemodeInfo(data) =
         Got([kind |-> "GamemodeInfo", GameMode |-> ModeCoop,
              PlayerScores |-> [i \in ids |-> m.PlayerScores[i] % P], MarksChange |-> m.MarksChange])
  <2>1. WellFormed(data, "GamemodeInfo")
    BY <1>14 DEF Framed
  <2>2. QED
    BY <1>15, <1>18, <1>19, <1>20, <2>1, Zenon DEF When
<1>22. Narrowed(m) =
         [kind |-> "GamemodeInfo", GameMode |-> ModeCoop,
          PlayerScores |-> [i \in ids |-> m.PlayerScores[i] % P], MarksChange |-> m.MarksChange]
  <2> DEFINE cut == [i \in DOMAIN m.PlayerScores |-> m.PlayerScores[i] % P]
  <2>1. Narrowed(m) = [m EXCEPT !.PlayerScores = cut]
    BY DEF Narrowed
  <2> HIDE DEF cut
  <2>2. [m EXCEPT !.PlayerScores = cut] =
          [kind |-> "GamemodeInfo", GameMode |-> ModeCoop, PlayerScores |-> cut,
           MarksChange |-> m.MarksChange]
    BY <1>1
  <2>3. QED
    BY <2>1, <2>2 DEF cut, ids
<1>23. Decoded(data, wanted) = DecodeGamemodeInfo(data)
  BY <1>14 DEF Decoded, Framed
<1>24. QED
  BY <1>13, <1>14, <1>21, <1>22, <1>23, BackOf

\* Decoding inverts encoding (the Encode and Decode functions of
\* mines_protocol.go): every message that can be sent comes back whole, scores
\* and parameters modulo 2^32, but for a successful login, of which LoginSent
\* says what it is to the reader.
THEOREM RoundTrips ==
  ASSUME NEW m, Sendable(m), NEW data \in Encodings(m), NEW wanted \in BOOLEAN,
         "id" \in DOMAIN m => (wanted <=> m.id # << >>),
         ~(m.kind = "AuthResponse" /\ m.Success)
  PROVE  Back(m, data, wanted)
<1>1. m.kind \in Tags /\ HasType(m)
  BY Zenon DEF Sendable, HasType, Tags
<1>2. CASE m.kind \in {"GetGameServers", "SpawnServerRequest", "ServerSpawned", "SendGameServers"}
  <2>1. "id" \in DOMAIN m
    BY <1>1, <1>2 DEF HasType
  <2>2. IdExpected(m, wanted)
    BY <2>1 DEF IdExpected
  <2>3. QED
    BY <1>2, <2>2, GetServersBack, SpawnBack, SpawnedBack, ServersBack
<1>3. CASE m.kind = "ConnectToGameResponse"
  <2>1. m.Success = TRUE \/ m.Success = FALSE
    BY <1>1, <1>3 DEF HasType
  <2>2. QED
    BY <1>3, <2>1, AdmissionBack, RefusalBack
<1>4. CASE m.kind = "AuthResponse"
  <2>1. m.Success = TRUE \/ m.Success = FALSE
    BY <1>1, <1>4 DEF HasType
  <2>2. QED
    BY <1>4, <2>1, LoginRefusedBack
<1>5. CASE m.kind \in {"RegisterPlayerRequest", "AuthRequest"}
  BY <1>5, ParamsBack
<1>6. CASE m.kind \in {"MoveCommand", "StartGame", "GameEnd", "TextMessage"}
  BY <1>6, MoveBack, StartBack, EndBack, TextMessageBack
<1>7. CASE m.kind \in {"Board", "CellUpdate", "GamemodeInfo"}
  BY <1>7, BoardBack, CellUpdatesBack, GamemodeInfoBack
<1>8. CASE m.kind \in {"AuthWithMMToken", "ConnectToGameRequest"}
  BY <1>8, AuthWithTokenBack, ConnectRequestBack
<1>9. QED
  BY <1>1, <1>2, <1>3, <1>4, <1>5, <1>6, <1>7, <1>8 DEF Tags

-----------------------------------------------------------------------------
(***************************************************************************)
(* The stream is cut into what was written.                                *)
(***************************************************************************)
\* An encoding of m lies at a in data and ends at b.
Lies(data, a, b, m) ==
  \E piece \in Encodings(m) : piece \in Seq(Wire) /\ b = a + Len(piece) /\ Holds(data, a, piece)

\* data consists of encodings of the messages after the first h of w; cut is
\* where they end.
Cuts(cut, data, h, w) ==
  /\ cut \in [h .. Len(w) -> Nat] /\ cut[h] = 0 /\ cut[Len(w)] = Len(data)
  /\ \A i, j \in h .. Len(w) : i <= j => cut[i] <= cut[j]
  /\ \A j \in h + 1 .. Len(w) : Lies(data, cut[j - 1], cut[j], w[j])

\* The messages of a stream, with the ids the other end expects.
Proper(m, wanted) == Sendable(m) /\ ("id" \in DOMAIN m => (wanted <=> m.id # << >>))

\* What an encoding is to the reader.
LEMMA Piece ==
  ASSUME NEW m, NEW wanted \in BOOLEAN, Proper(m, wanted), NEW piece \in Encodings(m)
  PROVE  /\ piece \in Seq(Wire) /\ Len(piece) >= HeaderLength
         /\ ~ByteShort(m) => /\ WordAt(piece, 2) = Len(piece) - HeaderLength
                             /\ Decoded(piece, wanted) = Got(Narrowed(m))
         /\ ByteShort(m) => /\ WordAt(piece, 2) = Len(piece) + 1 - HeaderLength
                            /\ \A d \in Seq(Wire) : Len(d) = Len(piece) + 1 /\ Holds(d, 0, piece)
                                                    => Decoded(d, wanted) = Fail
<1>1. CASE ~ByteShort(m)
  <2>1. Back(m, piece, wanted)
    BY <1>1, RoundTrips DEF Proper, ByteShort
  <2>2. QED
    BY <1>1, <2>1 DEF Back
<1>2. CASE ByteShort(m)
  <2>1. m.kind = "AuthResponse" /\ m.Success /\ HasType(m)
    BY <1>2 DEF ByteShort, Proper, Sendable
  <2>2. m.Success = TRUE
    BY <2>1 DEF HasType
  <2>3. /\ piece \in Seq(Wire) /\ Len(piece) >= HeaderLength
        /\ WordAt(piece, 2) = Len(piece) + 1 - HeaderLength
        /\ \A d \in Seq(Wire), x \in BOOLEAN :
             Len(d) = Len(piece) + 1 /\ Holds(d, 0, piece) => Decoded(d, x) = Fail
    BY <2>1, <2>2, LoginSent DEF Proper
  <2>4. QED
    BY <1>2, <2>3
<1>3. QED
  BY <1>1, <1>2

\* One more message is written.
LEMMA CutsWritten ==
  ASSUME NEW data \in Seq(Wire), NEW w, NEW W, w \in Seq(W), NEW h \in 0 .. Len(w), NEW cut,
         Cuts(cut, data, h, w), NEW m \in W, NEW piece \in Encodings(m), piece \in Seq(Wire)
  PROVE  data \o piece \in Seq(Wire) /\ \E c : Cuts(c, data \o piece, h, Append(w, m))
<1> DEFINE n == Len(w)
           all == data \o piece
           more == Append(w, m)
           c == [j \in h .. n + 1 |-> IF j <= n THEN cut[j] ELSE Len(all)]
<1>1. n \in Nat /\ h \in Nat /\ h <= n
  OBVIOUS
<1>2. Len(more) = n + 1 /\ more[n + 1] = m /\ \A j \in 1 .. n : more[j] = w[j]
  OBVIOUS
<1>3. /\ all \in Seq(Wire) /\ Len(all) = Len(data) + Len(piece)
      /\ Holds(all, Len(data), piece) /\ Len(data) \in Nat /\ Len(piece) \in Nat
  BY Two
<1> HIDE DEF n, all, more
<1>4. /\ cut \in [h .. n -> Nat] /\ cut[h] = 0 /\ cut[n] = Len(data)
      /\ \A i, j \in h .. n : i <= j => cut[i] <= cut[j]
      /\ \A j \in h + 1 .. n : Lies(data, cut[j - 1], cut[j], w[j])
  BY DEF Cuts, n
<1>5. /\ \A j \in h .. n : j \in h .. n + 1 /\ c[j] = cut[j] /\ cut[j] \in Nat /\ cut[j] <= Len(data)
      /\ n + 1 \in h .. n + 1 /\ c[n + 1] = Len(all) /\ Len(all) \in Nat
  <2>1. n \in h .. n /\ \A j \in h .. n : j <= n /\ j \in h .. n + 1
    BY <1>1
  <2>2. \A j \in h .. n : cut[j] \in Nat /\ cut[j] <= Len(data)
    BY <1>4, <2>1
  <2>3. n + 1 \in h .. n + 1 /\ ~(n + 1 <= n)
    BY <1>1
  <2>4. QED
    BY <1>3, <2>1, <2>2, <2>3
<1>6. \A j \in h .. n + 1 : j \in h .. n \/ j = n + 1
  BY <1>1
<1> HIDE DEF c
<1>7. c \in [h .. n + 1 -> Nat]
  <2>1. DOMAIN c = h .. n + 1 /\ c = [j \in h .. n + 1 |-> c[j]]
    BY DEF c
  <2>2. \A j \in h .. n + 1 : c[j] \in Nat
    BY <1>5, <1>6
  <2>3. QED
    BY <2>1, <2>2
<1>8. c[h] = 0 /\ c[n + 1] = Len(all)
  <2>1. h \in h .. n
    BY <1>1
  <2>2. QED
    BY <1>4, <1>5, <2>1
<1>9. ASSUME NEW i \in h .. n + 1, NEW j \in h .. n + 1, i <= j PROVE c[i] <= c[j]
  <2>1. CASE i = n + 1
    <3>1. j = n + 1
      BY <1>1, <1>9, <2>1
    <3>2. QED
      BY <1>5, <2>1, <3>1
  <2>2. CASE i \in h .. n /\ j = n + 1
    BY <1>3, <1>5, <2>2
  <2>3. CASE i \in h .. n /\ j \in h .. n
    BY <1>4, <1>5, <1>9, <2>3
  <2>4. QED
    BY <1>6, <2>1, <2>2, <2>3
<1>10. ASSUME NEW j \in h + 1 .. n + 1 PROVE Lies(all, c[j - 1], c[j], more[j])
  <2>1. CASE j = n + 1
    <3>1. j - 1 = n /\ n \in h .. n
      BY <1>1, <2>1
    <3>2. c[j - 1] = Len(data) /\ c[j] = Len(data) + Len(piece) /\ more[j] = m
      BY <1>2, <1>3, <1>4, <1>5, <2>1, <3>1
    <3>3. QED
      BY <1>3, <3>2 DEF Lies
  <2>2. CASE j # n + 1
    <3>1. j \in h + 1 .. n /\ j \in h .. n /\ j - 1 \in h .. n /\ j \in 1 .. n
      BY <1>1, <2>2
    <3>2. c[j - 1] = cut[j - 1] /\ c[j] = cut[j] /\ more[j] = w[j] /\ cut[j - 1] \in Nat
      BY <1>2, <1>5, <3>1
    <3>3. PICK p \in Encodings(w[j]) :
            p \in Seq(Wire) /\ cut[j] = cut[j - 1] + Len(p) /\ Holds(data, cut[j - 1], p)
      BY <1>4, <3>1 DEF Lies
    <3>4. Holds(all, cut[j - 1], p)
      BY <3>2, <3>3, StillHolds DEF all
    <3>5. QED
      BY <3>2, <3>3, <3>4 DEF Lies
  <2>3. QED
    BY <2>1, <2>2
<1>11. Cuts(c, all, h, more)
  BY <1>2, <1>7, <1>8, <1>9, <1>10 DEF Cuts
<1>12. QED
  BY <1>3, <1>11 DEF all, more

\* One more message is handled: its bytes are taken off the front.
LEMMA CutsHandled ==
  ASSUME NEW front \in Seq(Wire), NEW data \in Seq(Wire), NEW w, NEW h \in Nat, NEW cut,
         h < Len(w), Len(w) \in Nat, Cuts(cut, front \o data, h, w), cut[h + 1] = Len(front)
  PROVE  \E c : Cuts(c, data, h + 1, w)
<1> DEFINE n == Len(w)
           all == front \o data
           l == Len(front)
           c == [j \in h + 1 .. n |-> cut[j] - l]
<1>1. /\ n \in Nat /\ h < n /\ h + 1 \in h .. n /\ n \in h .. n /\ l \in Nat
      /\ \A j \in h + 1 .. n : j \in h .. n /\ h + 1 <= j
  OBVIOUS
<1>2. all \in Seq(Wire) /\ Len(all) = l + Len(data) /\ Holds(all, l, data) /\ Len(data) \in Nat
  BY Two
<1> HIDE DEF n, all, l
<1>3. /\ cut \in [h .. n -> Nat] /\ cut[n] = Len(all) /\ cut[h + 1] = l
      /\ \A i, j \in h .. n : i <= j => cut[i] <= cut[j]
      /\ \A j \in h + 1 .. n : Lies(all, cut[j - 1], cut[j], w[j])
  BY DEF Cuts, n, all, l
<1>4. \A j \in h + 1 .. n : cut[j] \in Nat /\ l <= cut[j] /\ c[j] = cut[j] - l
  BY <1>1, <1>3
<1>5. \A j \in h + 1 .. n : c[j] \in Nat /\ cut[j] = l + c[j]
  BY <1>1, <1>4
<1>6. c \in [h + 1 .. n -> Nat]
  <2>1. DOMAIN c = h + 1 .. n /\ c = [j \in h + 1 .. n |-> c[j]]
    OBVIOUS
  <2> HIDE DEF c
  <2>2. QED
    BY <1>5, <2>1
<1> HIDE DEF c
<1>7. c[h + 1] = 0 /\ c[n] = Len(data)
  <2>1. h + 1 \in h + 1 .. n /\ n \in h + 1 .. n
    BY <1>1
  <2>2. QED
    BY <1>1, <1>2, <1>3, <1>4, <2>1
<1>8. ASSUME NEW i \in h + 1 .. n, NEW j \in h + 1 .. n, i <= j PROVE c[i] <= c[j]
  <2>1. cut[i] <= cut[j]
    BY <1>1, <1>3, <1>8
  <2>2. QED
    BY <1>1, <1>5, <2>1
<1>9. ASSUME NEW j \in (h + 1) + 1 .. n PROVE Lies(data, c[j - 1], c[j], w[j])
  <2>1. j \in h + 1 .. n /\ j - 1 \in h + 1 .. n
    BY <1>1
  <2>2. PICK p \in Encodings(w[j]) :
          p \in Seq(Wire) /\ cut[j] = cut[j - 1] + Len(p) /\ Holds(all, cut[j - 1], p)
    BY <1>3, <2>1 DEF Lies
  <2>3. /\ c[j - 1] \in Nat /\ c[j] \in Nat /\ Len(p) \in Nat
        /\ cut[j - 1] = l + c[j - 1] /\ cut[j] = l + c[j]
    BY <1>5, <2>1, <2>2
  <2>4. c[j] = c[j - 1] + Len(p)
    <3>1. PICK a \in Nat, b \in Nat, e \in Nat : a = c[j - 1] /\ b = c[j] /\ e = Len(p)
      BY <2>3
    <3>2. l + b = (l + a) + e
      BY <2>2, <2>3, <3>1
    <3>3. b = a + e
      <4>1. l \in Nat
        BY <1>1
      <4>2. QED
        BY <3>2, <4>1
    <3>4. QED
      BY <3>1, <3>3
  <2>5. Holds(data, c[j - 1], p)
    <3>1. c[j - 1] + Len(p) <= Len(data)
      <4>1. cut[j - 1] + Len(p) <= Len(all)
        BY <2>2 DEF Holds
      <4>2. QED
        BY <1>1, <1>2, <2>3, <4>1
    <3>2. ASSUME NEW i \in 1 .. Len(p) PROVE data[c[j - 1] + i] = p[i]
      <4>1. all[cut[j - 1] + i] = p[i]
        BY <2>2 DEF Holds
      <4>2. c[j - 1] + i \in 1 .. Len(data)
        <5>1. PICK a \in Nat, b \in Nat, e \in Nat : a = c[j - 1] /\ b = Len(p) /\ e = Len(data)
          BY <1>2, <2>3
        <5>2. a + b <= e /\ i \in 1 .. b
          BY <3>1, <5>1
        <5>3. a + i \in 1 .. e
          BY <5>2
        <5>4. QED
          BY <5>1, <5>3
      <4>3. all[l + (c[j - 1] + i)] = data[c[j - 1] + i]
        BY <1>2, <4>2 DEF Holds
      <4>4. cut[j - 1] + i = l + (c[j - 1] + i)
        BY <1>1, <2>3
      <4>5. QED
        BY <4>1, <4>3, <4>4
    <3>3. QED
      BY <3>1, <3>2 DEF Holds
  <2>6. QED
    BY <2>2, <2>4, <2>5 DEF Lies
<1>10. Cuts(c, data, h + 1, w)
  BY <1>6, <1>7, <1>8, <1>9 DEF Cuts, n
<1>11. QED
  BY <1>10

-----------------------------------------------------------------------------
(***************************************************************************)
(* The invariant of the reader.                                            *)
(***************************************************************************)
\* What was written and is not handled yet, wherever it is.
Rest == header \o body \o buffer \o network

StreamInv ==
  /\ stream \in Streams
  /\ written \in Seq(Range(stream.messages)) /\ Len(written) <= Len(stream.messages)
  /\ \A k \in 1 .. Len(written) : written[k] = stream.messages[k]

HandledInv ==
  /\ Len(handled) \in 0 .. Len(written)
  /\ handled = [k \in 1 .. Len(handled) |-> Narrowed(written[k])]

ReaderInv ==
  /\ header \in Seq(Wire) /\ body \in Seq(Wire) /\ buffer \in Seq(Wire) /\ network \in Seq(Wire)
  /\ header = << >> => body = << >>
  /\ header # << >> => Len(header) = HeaderLength /\ Len(body) <= WordAt(header, 2)
  /\ \E cut : Cuts(cut, Rest, Len(handled), written)

FrameInv == StreamInv /\ HandledInv /\ (connected => ReaderInv)

\* A byte string cut in two.
LEMMA Halved ==
  ASSUME NEW S, NEW s \in Seq(S), NEW k \in 0 .. Len(s)
  PROVE  /\ Part(s, 0, k) \in Seq(S) /\ Len(Part(s, 0, k)) = k
         /\ From(s, k) \in Seq(S) /\ Len(From(s, k)) = Len(s) - k
         /\ Part(s, 0, k) \o From(s, k) = s
<1> DEFINE a == Part(s, 0, k)
           b == From(s, k)
<1>1. k \in Nat /\ k <= Len(s) /\ Len(s) \in Nat /\ 0 \in Nat /\ 0 <= k
  OBVIOUS
<1>2. a \in Seq(S) /\ Len(a) = k /\ \A i \in 1 .. k : a[i] = s[i]
  <2>1. /\ a \in Seq(S) /\ Len(a) = k - 0
        /\ \A i \in 1 .. k - 0 : a[i] = s[0 + i]
    BY <1>1, PartOf
  <2> HIDE DEF a
  <2>2. QED
    BY <1>1, <2>1
<1>3. b \in Seq(S) /\ Len(b) = Len(s) - k /\ \A i \in 1 .. Len(s) - k : b[i] = s[k + i]
  <2>1. PICK l \in Nat : l = Len(s)
    BY <1>1
  <2>2. /\ Part(s, k, l) \in Seq(S) /\ Len(Part(s, k, l)) = l - k
        /\ \A i \in 1 .. l - k : Part(s, k, l)[i] = s[k + i]
    <3>1. k <= l /\ l <= Len(s)
      BY <1>1, <2>1
    <3>2. QED
      BY <1>1, <3>1, PartOf
  <2>3. b = Part(s, k, l)
    BY <2>1 DEF From
  <2> HIDE DEF b
  <2>4. QED
    BY <2>1, <2>2, <2>3
<1> HIDE DEF a, b
<1>4. /\ a \o b \in Seq(S) /\ Len(a \o b) = Len(s)
      /\ \A i \in 1 .. Len(s) : (a \o b)[i] = IF i <= Len(a) THEN a[i] ELSE b[i - Len(a)]
  <2>1. Len(a) + Len(b) = Len(s)
    BY <1>1, <1>2, <1>3
  <2>2. QED
    BY <1>2, <1>3, <2>1, ConcatProperties
<1>5. \A i \in 1 .. Len(s) : (a \o b)[i] = s[i]
  <2>1. ASSUME NEW i \in 1 .. Len(s) PROVE (a \o b)[i] = s[i]
    <3>1. CASE i <= k
      BY <1>1, <1>2, <1>4, <3>1
    <3>2. CASE ~(i <= k)
      <4>1. i - k \in 1 .. Len(s) - k /\ k + (i - k) = i
        BY <1>1, <3>2
      <4>2. b[i - k] = s[i]
        BY <1>3, <4>1
      <4>3. QED
        BY <1>2, <1>4, <3>2, <4>2
    <3>3. QED
      BY <3>1, <3>2
  <2>2. QED
    BY <2>1
<1>6. a \o b = s
  BY <1>4, <1>5, SeqEqual
<1>7. QED
  BY <1>2, <1>3, <1>6 DEF a, b

\* The bytes of a header that hold a length.
LEMMA LengthBytes ==
  ASSUME NEW S, NEW s \in Seq(S), Len(s) >= HeaderLength
  PROVE  /\ WordAt(s, 2) = Number(Part(s, 2, HeaderLength))
         /\ Part(s, 2, HeaderLength) \in Seq(S) /\ Len(Part(s, 2, HeaderLength)) = WordBytes
         /\ \A i \in 1 .. WordBytes : Part(s, 2, HeaderLength)[i] = s[2 + i]
<1>1. PICK w \in Nat : w = WordBytes
  BY Widths
<1>2. PICK f \in Nat, e \in Nat : f = 2 /\ e = f + w
  OBVIOUS
<1>3. HeaderLength = e /\ e - f = w /\ f <= e
  BY <1>1, <1>2 DEF HeaderLength
<1>4. e <= Len(s)
  BY <1>3
<1>5. /\ Part(s, f, e) \in Seq(S) /\ Len(Part(s, f, e)) = e - f
      /\ \A i \in 1 .. e - f : Part(s, f, e)[i] = s[f + i]
  <2>1. f \in Nat /\ e \in Nat /\ f <= e
    BY <1>2, <1>3
  <2>2. QED
    BY <1>4, <2>1, PartOf
<1>6. WordAt(s, 2) = Number(Part(s, f, e))
  BY <1>1, <1>2 DEF WordAt
<1>7. QED
  BY <1>1, <1>2, <1>3, <1>5, <1>6

\* The length in a header is that of the byte string it begins.
LEMMA SameHeader ==
  ASSUME NEW S, NEW a \in Seq(S), NEW b \in Seq(S),
         Len(a) >= HeaderLength, Len(b) >= HeaderLength,
         \A i \in 1 .. HeaderLength : a[i] = b[i]
  PROVE  WordAt(a, 2) = WordAt(b, 2)
<1> DEFINE A == Part(a, 2, HeaderLength)
           B == Part(b, 2, HeaderLength)
<1>1. /\ WordAt(a, 2) = Number(A) /\ A \in Seq(S) /\ Len(A) = WordBytes
      /\ \A i \in 1 .. WordBytes : A[i] = a[2 + i]
  BY LengthBytes
<1>2. /\ WordAt(b, 2) = Number(B) /\ B \in Seq(S) /\ Len(B) = WordBytes
      /\ \A i \in 1 .. WordBytes : B[i] = b[2 + i]
  BY LengthBytes
<1> HIDE DEF A, B
<1>3. \A i \in 1 .. WordBytes : A[i] = B[i]
  <2>1. \A i \in 1 .. WordBytes : 2 + i \in 1 .. HeaderLength
    BY Widths DEF HeaderLength
  <2>2. QED
    BY <1>1, <1>2, <2>1
<1>4. A = B
  BY <1>1, <1>2, <1>3, SeqEqual
<1>5. QED
  BY <1>1, <1>2, <1>4

LEMMA HeaderSize == HeaderLength \in Nat /\ HeaderLength > 0
BY Widths DEF HeaderLength

LEMMA RestType ==
  ASSUME ReaderInv
  PROVE  /\ header \in Seq(Wire) /\ body \in Seq(Wire) /\ buffer \in Seq(Wire) /\ network \in Seq(Wire)
         /\ header \o body \in Seq(Wire) /\ buffer \o network \in Seq(Wire) /\ Rest \in Seq(Wire)
         /\ Rest = (header \o body) \o (buffer \o network)
         /\ Len(header \o body) = Len(header) + Len(body)
         /\ Len(Rest) = Len(header \o body) + Len(buffer \o network)
         /\ Len(buffer \o network) = Len(buffer) + Len(network)
         /\ \A i \in 1 .. Len(header) : (header \o body)[i] = header[i]
         /\ \A i \in 1 .. Len(header \o body) : Rest[i] = (header \o body)[i]
<1>1. header \in Seq(Wire) /\ body \in Seq(Wire) /\ buffer \in Seq(Wire) /\ network \in Seq(Wire)
  BY DEF ReaderInv
<1>2. header \o body \in Seq(Wire) /\ Len(header \o body) = Len(header) + Len(body)
      /\ Holds(header \o body, 0, header)
  BY <1>1, Two
<1>3. buffer \o network \in Seq(Wire) /\ Len(buffer \o network) = Len(buffer) + Len(network)
  BY <1>1, Two
<1>4. Rest = (header \o body) \o (buffer \o network)
  <2>1. ((header \o body) \o buffer) \o network = (header \o body) \o (buffer \o network)
    <3> DEFINE f == header \o body
    <3>1. f \in Seq(Wire) /\ buffer \in Seq(Wire) /\ network \in Seq(Wire)
      BY <1>1, <1>2
    <3> HIDE DEF f
    <3>2. (f \o buffer) \o network = f \o (buffer \o network)
      BY <3>1, ConcatAssociative
    <3>3. QED
      BY <3>2 DEF f
  <2>2. QED
    BY <2>1 DEF Rest
<1> DEFINE front == header \o body
           back == buffer \o network
<1>5. front \in Seq(Wire) /\ back \in Seq(Wire) /\ Rest = front \o back
  BY <1>2, <1>3, <1>4
<1> HIDE DEF front, back
<1>6. Rest \in Seq(Wire) /\ Len(Rest) = Len(front) + Len(back) /\ Holds(Rest, 0, front)
  BY <1>5, Two
<1>7. \A i \in 1 .. Len(front) : Rest[i] = front[i]
  BY <1>6 DEF Holds
<1>8. \A i \in 1 .. Len(header) : (header \o body)[i] = header[i]
  BY <1>2 DEF Holds
<1>9. QED
  BY <1>1, <1>2, <1>3, <1>4, <1>6, <1>7, <1>8 DEF front, back

\* The messages written are such as FramingAssumption has them.
LEMMA WrittenProper ==
  ASSUME StreamInv
  PROVE  stream.wantsId \in BOOLEAN
         /\ \A k \in 1 .. Len(written) : Proper(written[k], stream.wantsId)
<1>1. stream \in Streams /\ Len(written) <= Len(stream.messages) /\ Len(written) \in Nat
      /\ \A k \in 1 .. Len(written) : written[k] = stream.messages[k]
  BY DEF StreamInv
<1>2. /\ stream.wantsId \in BOOLEAN /\ stream.messages \in Seq(Range(stream.messages))
      /\ \A k \in DOMAIN stream.messages :
           /\ Sendable(stream.messages[k])
           /\ "id" \in DOMAIN stream.messages[k] => (stream.wantsId <=> stream.messages[k].id # << >>)
  BY <1>1, FramingAssumption
<1>3. \A k \in 1 .. Len(written) : k \in DOMAIN stream.messages
  <2>1. DOMAIN stream.messages = 1 .. Len(stream.messages) /\ Len(stream.messages) \in Nat
    BY <1>2
  <2>2. QED
    BY <1>1, <2>1
<1>4. ASSUME NEW k \in 1 .. Len(written) PROVE Proper(written[k], stream.wantsId)
  BY <1>1, <1>2, <1>3 DEF Proper
<1>5. QED
  BY <1>2, <1>4

\* Behind what is handled there is an encoding of the next message.
LEMMA NextPiece ==
  ASSUME StreamInv, HandledInv, ReaderInv, Len(Rest) > 0
  PROVE  LET h == Len(handled) IN
         /\ h \in Nat /\ h + 1 \in 1 .. Len(written)
         /\ \E cut : /\ Cuts(cut, Rest, h, written)
                     /\ \E piece \in Encodings(written[h + 1]) :
                          /\ piece \in Seq(Wire) /\ cut[h + 1] = Len(piece) /\ Holds(Rest, 0, piece)
<1> DEFINE h == Len(handled)
           n == Len(written)
<1>1. h \in Nat /\ n \in Nat /\ h <= n
  BY DEF HandledInv, StreamInv
<1>2. PICK cut : Cuts(cut, Rest, h, written)
  BY DEF ReaderInv
<1> HIDE DEF h, n
<1>3. /\ cut[h] = 0 /\ cut[n] = Len(Rest)
      /\ \A j \in h + 1 .. n : Lies(Rest, cut[j - 1], cut[j], written[j])
  BY <1>2 DEF Cuts, n
<1>4. h # n
  BY <1>3
<1>5. h + 1 \in h + 1 .. n /\ (h + 1) - 1 = h /\ h + 1 \in 1 .. n
  BY <1>1, <1>4
<1>6. PICK piece \in Encodings(written[h + 1]) :
        piece \in Seq(Wire) /\ cut[h + 1] = 0 + Len(piece) /\ Holds(Rest, 0, piece)
  BY <1>3, <1>5 DEF Lies
<1>7. cut[h + 1] = Len(piece)
  BY <1>6
<1>8. QED
  BY <1>1, <1>2, <1>5, <1>6, <1>7 DEF h, n

\* What a header says, once all of it has been read.
LEMMA HeaderSays ==
  ASSUME StreamInv, HandledInv, ReaderInv, Len(Rest) >= HeaderLength,
         NEW head \in Seq(Wire), Len(head) = HeaderLength, \A i \in 1 .. HeaderLength : head[i] = Rest[i]
  PROVE  WordAt(head, 2) \in Nat
<1> DEFINE h == Len(handled)
           m == written[h + 1]
<1>1. Rest \in Seq(Wire)
  BY RestType
<1>2. Len(Rest) > 0
  <2>1. Len(Rest) \in Nat
    BY <1>1
  <2>2. QED
    BY <2>1, HeaderSize
<1>3. PICK piece \in Encodings(m) : piece \in Seq(Wire) /\ Holds(Rest, 0, piece)
  BY <1>2, NextPiece
<1>4. Proper(m, stream.wantsId) /\ stream.wantsId \in BOOLEAN
  BY <1>2, NextPiece, WrittenProper
<1>5. /\ Len(piece) >= HeaderLength /\ Len(piece) \in Nat
      /\ WordAt(piece, 2) \in {Len(piece) - HeaderLength, Len(piece) + 1 - HeaderLength}
  <2> HIDE DEF m
  <2>1. QED
    BY <1>3, <1>4, Piece
<1>6. WordAt(piece, 2) \in Nat
  BY <1>5, HeaderSize
<1>7. \A i \in 1 .. HeaderLength : head[i] = piece[i]
  <2>1. ASSUME NEW i \in 1 .. HeaderLength PROVE head[i] = piece[i]
    <3>1. i \in 1 .. Len(piece) /\ 0 + i = i
      BY <1>5, HeaderSize
    <3>2. Rest[0 + i] = piece[i]
      BY <1>3, <3>1 DEF Holds
    <3>3. QED
      BY <3>1, <3>2
  <2>2. QED
    BY <2>1
<1>8. WordAt(head, 2) = WordAt(piece, 2)
  <2>1. Len(head) >= HeaderLength
    BY HeaderSize
  <2>2. QED
    BY <1>3, <1>5, <1>7, <2>1, SameHeader
<1>9. QED
  BY <1>6, <1>8

LEMMA FrameInitCorrect == FrameInit => FrameInv
<1> SUFFICES ASSUME FrameInit PROVE FrameInv
  OBVIOUS
<1> USE DEF FrameInit
<1>1. StreamInv
  <2>1. Len(stream.messages) \in Nat
    BY FramingAssumption
  <2>2. QED
    BY <2>1 DEF StreamInv
<1>2. HandledInv
  <2>1. Len(<< >>) = 0 /\ << >> = [k \in 1 .. 0 |-> Narrowed(written[k])]
    OBVIOUS
  <2>2. QED
    BY <2>1 DEF HandledInv
<1>3. ReaderInv
  <2>1. << >> \in Seq(Wire) /\ Len(<< >>) = 0
    OBVIOUS
  <2>2. Rest = << >>
    BY DEF Rest
  <2> DEFINE cut == [j \in 0 .. 0 |-> 0]
  <2>3. Cuts(cut, << >>, 0, << >>)
    BY DEF Cuts
  <2>4. QED
    BY <2>1, <2>2, <2>3 DEF ReaderInv
<1>4. QED
  BY <1>1, <1>2, <1>3 DEF FrameInv

\* What the reader does leaves what was written alone.
LEMMA StreamKept ==
  ASSUME StreamInv, UNCHANGED <<stream, written>> PROVE StreamInv'
BY DEF StreamInv

LEMMA HandledKept ==
  ASSUME HandledInv, UNCHANGED <<written, handled>> PROVE HandledInv'
BY DEF HandledInv

LEMMA WriteCorrect == FrameInv /\ WriteStream => FrameInv'
<1> SUFFICES ASSUME FrameInv, WriteStream PROVE FrameInv'
  OBVIOUS
<1> DEFINE n == Len(written)
           m == stream.messages[n + 1]
           W == Range(stream.messages)
<1>1. /\ stream \in Streams /\ written \in Seq(W) /\ n <= Len(stream.messages) /\ n \in Nat
      /\ \A k \in 1 .. n : written[k] = stream.messages[k]
  BY DEF FrameInv, StreamInv
<1>2. n < Len(stream.messages) /\ written' = Append(written, m)
  BY DEF WriteStream
<1>3. PICK data \in Encodings(m) : network' = network \o data
  BY DEF WriteStream
<1>4. UNCHANGED <<stream, buffer, header, body, handled, connected, short>>
  BY DEF WriteStream
<1>5. stream.messages \in Seq(W) /\ Len(stream.messages) \in Nat /\ n + 1 \in DOMAIN stream.messages
      /\ m \in W
  <2>1. stream.messages \in Seq(W)
    BY <1>1, FramingAssumption
  <2>2. DOMAIN stream.messages = 1 .. Len(stream.messages) /\ Len(stream.messages) \in Nat
    BY <2>1
  <2>3. n + 1 \in 1 .. Len(stream.messages)
    BY <1>1, <1>2, <2>2
  <2>4. m \in W
    BY <2>2, <2>3 DEF Range
  <2>5. QED
    BY <2>1, <2>2, <2>3, <2>4
<1>6. Proper(m, stream.wantsId) /\ stream.wantsId \in BOOLEAN
  BY <1>1, <1>5, FramingAssumption DEF Proper
<1> HIDE DEF m, W
<1>7. data \in Seq(Wire)
  BY <1>3, <1>6, Piece
<1>8. /\ written' \in Seq(W) /\ Len(written') = n + 1 /\ written'[n + 1] = m
      /\ \A k \in 1 .. n : written'[k] = written[k]
  BY <1>1, <1>2, <1>5
<1>9. StreamInv'
  <2>1. \A k \in 1 .. n + 1 : written'[k] = stream.messages[k]
    <3>1. ASSUME NEW k \in 1 .. n + 1 PROVE written'[k] = stream.messages[k]
      <4>1. CASE k = n + 1
        BY <1>8, <4>1 DEF m
      <4>2. CASE k # n + 1
        <5>1. k \in 1 .. n
          BY <1>1, <4>2
        <5>2. QED
          BY <1>1, <1>8, <5>1
      <4>3. QED
        BY <4>1, <4>2
    <3>2. QED
      BY <3>1
  <2>2. n + 1 <= Len(stream.messages)
    BY <1>1, <1>2, <1>5
  <2>3. QED
    BY <1>1, <1>4, <1>8, <2>1, <2>2 DEF StreamInv, W
<1>10. HandledInv'
  <2> DEFINE h == Len(handled)
  <2>1. h \in 0 .. n /\ handled = [k \in 1 .. h |-> Narrowed(written[k])]
    BY DEF FrameInv, HandledInv
  <2> HIDE DEF h
  <2>2. h \in 0 .. n + 1 /\ \A k \in 1 .. h : k \in 1 .. n
    BY <1>1, <2>1
  <2>3. handled = [k \in 1 .. h |-> Narrowed(written'[k])]
    BY <1>8, <2>1, <2>2
  <2>4. QED
    BY <1>4, <1>8, <2>2, <2>3 DEF HandledInv, h
<1>11. ASSUME connected' PROVE ReaderInv'
  <2>1. ReaderInv
    BY <1>4, <1>11 DEF FrameInv
  <2> DEFINE h == Len(handled)
  <2>2. PICK cut : Cuts(cut, Rest, h, written)
    BY <2>1 DEF ReaderInv
  <2>3. h \in 0 .. Len(written)
    BY DEF FrameInv, HandledInv
  <2>4. Rest \in Seq(Wire) /\ network \in Seq(Wire)
    BY <2>1, RestType
  <2>5. \E c : Cuts(c, Rest \o data, h, Append(written, m))
    <3> HIDE DEF h
    <3>1. QED
      BY <1>1, <1>3, <1>5, <1>7, <2>2, <2>3, <2>4, CutsWritten
  <2>6. Rest' = Rest \o data
    <3> DEFINE f == header \o body \o buffer
    <3>1. header \o body \in Seq(Wire) /\ buffer \in Seq(Wire)
      BY <2>1, RestType
    <3>2. f \in Seq(Wire) /\ network \in Seq(Wire) /\ data \in Seq(Wire)
      BY <1>7, <2>4, <3>1, ConcatProperties
    <3>3. Rest = f \o network /\ Rest' = f \o (network \o data)
      BY <1>3, <1>4 DEF Rest
    <3> HIDE DEF f
    <3>4. (f \o network) \o data = f \o (network \o data)
      BY <3>2, ConcatAssociative
    <3>5. QED
      BY <3>3, <3>4
  <2>7. network' \in Seq(Wire)
    BY <1>3, <1>7, <2>4, ConcatProperties
  <2>8. QED
    BY <1>2, <1>4, <2>1, <2>5, <2>6, <2>7 DEF ReaderInv
<1>12. QED
  BY <1>9, <1>10, <1>11 DEF FrameInv

LEMMA FillCorrect == FrameInv /\ Fill => FrameInv'
<1> SUFFICES ASSUME FrameInv, Fill PROVE FrameInv'
  OBVIOUS
<1>1. StreamInv /\ HandledInv /\ ReaderInv
  BY DEF FrameInv, Fill
<1>2. /\ buffer = << >>
      /\ UNCHANGED <<stream, written, header, body, handled, connected, short>>
  BY DEF Fill
<1>3. PICK k \in 1 .. Smaller(BufferSize, Len(network)) :
        buffer' = Part(network, 0, k) /\ network' = From(network, k)
  BY DEF Fill
<1>4. /\ header \o body \in Seq(Wire) /\ network \in Seq(Wire) /\ Rest = (header \o body) \o (buffer \o network)
  BY <1>1, RestType
<1>5. k \in 0 .. Len(network)
  BY <1>4, FramingAssumption DEF Smaller
<1>6. buffer' \in Seq(Wire) /\ network' \in Seq(Wire) /\ buffer' \o network' = network
  BY <1>3, <1>4, <1>5, Halved
<1>7. Rest' = Rest
  <2> DEFINE f == header \o body
  <2>1. Rest = f \o (buffer \o network) /\ Rest' = (f \o buffer') \o network'
    BY <1>2, <1>4 DEF Rest
  <2>2. f \in Seq(Wire) /\ buffer' \in Seq(Wire) /\ network' \in Seq(Wire)
    BY <1>4, <1>6
  <2> HIDE DEF f
  <2>3. Rest' = f \o network
    <3>1. (f \o buffer') \o network' = f \o (buffer' \o network')
      BY <2>2, ConcatAssociative
    <3>2. QED
      BY <1>6, <2>1, <3>1
  <2>4. << >> \o network = network
    BY <1>4, ConcatEmptySeq
  <2>5. Rest = f \o network
    BY <1>2, <2>1, <2>4
  <2>6. QED
    BY <2>3, <2>5
<1>8. ReaderInv'
  BY <1>1, <1>2, <1>6, <1>7 DEF ReaderInv
<1>9. QED
  BY <1>1, <1>2, <1>8, StreamKept, HandledKept DEF FrameInv

LEMMA ReadHeaderCorrect == FrameInv /\ ReadHeader => FrameInv'
<1> SUFFICES ASSUME FrameInv, ReadHeader PROVE FrameInv'
  OBVIOUS
<1>1. StreamInv /\ HandledInv /\ ReaderInv /\ connected
  BY DEF FrameInv, ReadHeader
<1>2. header = << >> /\ body = << >> /\ UNCHANGED <<stream, written, network, body, handled>>
  BY <1>1 DEF ReadHeader, ReaderInv
<1>3. ASSUME connected' PROVE ReaderInv'
  <2>1. /\ Available(HeaderLength) = HeaderLength /\ buffer' = From(buffer, HeaderLength)
        /\ header' = Part(buffer, 0, HeaderLength)
    BY <1>3 DEF ReadHeader
  <2>2. buffer \in Seq(Wire) /\ network \in Seq(Wire) /\ Rest \in Seq(Wire)
        /\ Rest = (header \o body) \o (buffer \o network)
        /\ buffer \o network \in Seq(Wire)
    BY <1>1, RestType
  <2>3. HeaderLength \in 0 .. Len(buffer)
    BY <2>1, <2>2, HeaderSize DEF Available, Smaller
  <2>4. /\ header' \in Seq(Wire) /\ Len(header') = HeaderLength
        /\ buffer' \in Seq(Wire) /\ header' \o buffer' = buffer
    BY <2>1, <2>2, <2>3, Halved
  <2> DEFINE F == header'
             B == buffer'
  <2>5. F \in Seq(Wire) /\ B \in Seq(Wire) /\ network \in Seq(Wire)
    BY <2>2, <2>4
  <2>6. Rest = buffer \o network
    <3>1. << >> \o << >> = << >> /\ << >> \o (buffer \o network) = buffer \o network
      BY <2>2, ConcatEmptySeq
    <3>2. QED
      BY <1>2, <2>2, <3>1
  <2>7. Rest = (F \o B) \o network /\ Rest' = ((F \o << >>) \o B) \o network
    BY <1>2, <2>4, <2>6 DEF Rest
  <2> HIDE DEF F, B
  <2>8. (F \o B) \o network = F \o (B \o network) /\ B \o network \in Seq(Wire) /\ F \o << >> = F
    BY <2>5, ConcatAssociative, ConcatProperties, ConcatEmptySeq
  <2>9. Rest' = Rest
    BY <2>7, <2>8
  <2>10. Holds(Rest, 0, F) /\ Len(Rest) = Len(F) + Len(B \o network)
    <3>1. Rest = F \o (B \o network)
      BY <2>7, <2>8
    <3>2. QED
      BY <2>5, <2>8, <3>1, Two
  <2>11. WordAt(F, 2) \in Nat
    <3>1. Len(F) = HeaderLength
      BY <2>4 DEF F
    <3>2. Len(Rest) >= HeaderLength
      BY <2>8, <2>10, <3>1, HeaderSize
    <3>3. \A i \in 1 .. HeaderLength : F[i] = Rest[i]
      BY <2>10, <3>1 DEF Holds
    <3>4. QED
      BY <1>1, <2>5, <3>1, <3>2, <3>3, HeaderSays
  <2>12. body' = << >> /\ Len(body') <= WordAt(header', 2) /\ Len(header') = HeaderLength
    BY <1>2, <2>4, <2>11 DEF F
  <2>13. \E cut : Cuts(cut, Rest', Len(handled'), written')
    BY <1>1, <1>2, <2>9 DEF ReaderInv
  <2>14. body' \in Seq(Wire)
    BY <2>12
  <2>15. network' \in Seq(Wire)
    BY <1>2, <2>2
  <2>16. QED
    BY <2>4, <2>12, <2>13, <2>14, <2>15 DEF ReaderInv
<1>4. QED
  BY <1>1, <1>2, <1>3, StreamKept, HandledKept DEF FrameInv

\* The header says how much of the body is missing.
LEMMA MissingType ==
  ASSUME StreamInv, HandledInv, ReaderInv, header # << >>
  PROVE  /\ WordAt(header, 2) \in Nat /\ Len(body) \in Nat /\ Missing \in Nat
         /\ Missing = WordAt(header, 2) - Len(body)
<1>1. /\ header \in Seq(Wire) /\ body \in Seq(Wire) /\ Len(header) = HeaderLength
      /\ Len(body) <= WordAt(header, 2)
  BY DEF ReaderInv
<1>2. /\ Len(header \o body) = Len(header) + Len(body)
      /\ Len(Rest) = Len(header \o body) + Len(buffer \o network)
      /\ buffer \o network \in Seq(Wire)
      /\ \A i \in 1 .. Len(header) : (header \o body)[i] = header[i]
      /\ \A i \in 1 .. Len(header \o body) : Rest[i] = (header \o body)[i]
  BY RestType
<1>3. Len(body) \in Nat /\ Len(buffer \o network) \in Nat
  BY <1>1, <1>2
<1>4. Len(Rest) >= HeaderLength
  BY <1>1, <1>2, <1>3, HeaderSize
<1>5. \A i \in 1 .. HeaderLength : header[i] = Rest[i]
  <2>1. \A i \in 1 .. HeaderLength : i \in 1 .. Len(header) /\ i \in 1 .. Len(header \o body)
    BY <1>1, <1>2, <1>3, HeaderSize
  <2>2. QED
    BY <1>2, <2>1
<1>6. WordAt(header, 2) \in Nat
  BY <1>1, <1>4, <1>5, HeaderSays
<1>7. Missing = WordAt(header, 2) - Len(body)
  BY DEF Missing
<1>8. QED
  BY <1>1, <1>3, <1>6, <1>7

\* Byte strings put one after the other.
LEMMA Assoc ==
  \A a, b, c : a \in Seq(Wire) /\ b \in Seq(Wire) /\ c \in Seq(Wire) => (a \o b) \o c = a \o (b \o c)
<1>1. ASSUME NEW a, NEW b, NEW c, a \in Seq(Wire) /\ b \in Seq(Wire) /\ c \in Seq(Wire)
      PROVE  (a \o b) \o c = a \o (b \o c)
  BY <1>1, ConcatAssociative
<1>2. QED
  BY <1>1

LEMMA Grouped ==
  ASSUME NEW f, NEW p, NEW s, NEW g, f \in Seq(Wire), p \in Seq(Wire), s \in Seq(Wire), g = f \o p
  PROVE  g \o s = f \o (p \o s)
<1>1. (f \o p) \o s = f \o (p \o s)
  BY Assoc
<1>2. QED
  BY Zenon, <1>1

\* Where the parts are cut makes no difference.
Regroups(f, p, r, n) == ((f \o p) \o r) \o n = f \o ((p \o r) \o n)

LEMMA Regrouped ==
  \A f, p, r, n :
    f \in Seq(Wire) /\ p \in Seq(Wire) /\ r \in Seq(Wire) /\ n \in Seq(Wire)
      => Regroups(f, p, r, n)
<1>1. ASSUME NEW f, NEW p, NEW r, NEW n,
             f \in Seq(Wire) /\ p \in Seq(Wire) /\ r \in Seq(Wire) /\ n \in Seq(Wire)
      PROVE  Regroups(f, p, r, n)
  <2>1. PICK g, s : g \in Seq(Wire) /\ s \in Seq(Wire) /\ g = f \o p /\ s = r \o n
    BY <1>1, ConcatProperties
  <2>2. (g \o r) \o n = g \o s
    BY <1>1, <2>1, Grouped
  <2>3. g \o s = f \o (p \o s)
    BY <1>1, <2>1, Grouped
  <2>4. (p \o r) \o n = p \o s
    BY <1>1, <2>1, Grouped
  <2>5. QED
    BY Zenon, <2>1, <2>2, <2>3, <2>4 DEF Regroups
<1>2. QED
  BY Zenon, <1>1

\* Bytes that go from the buffer to the body keep their place in the stream.
Moves(h, b, p, r, n) == ((h \o (b \o p)) \o r) \o n = (h \o b) \o ((p \o r) \o n)

LEMMA Moved ==
  ASSUME NEW h, NEW b, NEW p, NEW r, NEW n,
         h \in Seq(Wire), b \in Seq(Wire), p \in Seq(Wire), r \in Seq(Wire), n \in Seq(Wire)
  PROVE  Moves(h, b, p, r, n)
<1>1. PICK f : /\ f \in Seq(Wire) /\ p \in Seq(Wire) /\ r \in Seq(Wire) /\ n \in Seq(Wire)
               /\ f = h \o b
  BY ConcatProperties
<1>2. f \o p = h \o (b \o p)
  BY <1>1, Grouped
<1>3. Regroups(f, p, r, n)
  BY Zenon, <1>1, Regrouped
<1>4. QED
  BY Zenon, <1>1, <1>2, <1>3 DEF Regroups, Moves

LEMMA ReadBodyCorrect == FrameInv /\ ReadBody => FrameInv'
<1> SUFFICES ASSUME FrameInv, ReadBody PROVE FrameInv'
  OBVIOUS
<1>1. StreamInv /\ HandledInv /\ ReaderInv /\ header # << >>
  BY DEF FrameInv, ReadBody
<1>2. /\ body' = body \o Part(buffer, 0, Available(Missing)) /\ buffer' = From(buffer, Available(Missing))
      /\ UNCHANGED <<stream, written, network, header, handled, connected, short>>
  BY DEF ReadBody
<1>3. /\ header \in Seq(Wire) /\ body \in Seq(Wire) /\ buffer \in Seq(Wire) /\ network \in Seq(Wire)
      /\ header \o body \in Seq(Wire) /\ Rest = (header \o body) \o (buffer \o network)
  BY <1>1, RestType
<1>4. /\ WordAt(header, 2) \in Nat /\ Len(body) \in Nat /\ Missing \in Nat
      /\ Missing = WordAt(header, 2) - Len(body)
  BY <1>1, MissingType
<1> DEFINE a == Available(Missing)
           P == Part(buffer, 0, a)
           B == From(buffer, a)
<1>5. a \in 0 .. Len(buffer) /\ a <= Missing
  BY <1>3, <1>4 DEF Available, Smaller
<1> HIDE DEF a
<1>6. P \in Seq(Wire) /\ Len(P) = a /\ B \in Seq(Wire) /\ P \o B = buffer
  BY <1>3, <1>5, Halved
<1>7. body' = body \o P /\ buffer' = B
  BY <1>2 DEF a
<1> HIDE DEF P, B
<1>8. body' \in Seq(Wire) /\ Len(body') = Len(body) + a
  BY <1>3, <1>6, <1>7, ConcatProperties
<1>9. Len(body') <= WordAt(header, 2)
  BY <1>4, <1>5, <1>8
<1>10. Rest' = Rest
  <2>1. Rest' = ((header \o (body \o P)) \o B) \o network
    BY <1>2, <1>7 DEF Rest
  <2>2. Rest = (header \o body) \o ((P \o B) \o network)
    BY <1>3, <1>6
  <2>3. P \in Seq(Wire) /\ B \in Seq(Wire)
    BY <1>6
  <2>4. header \in Seq(Wire) /\ body \in Seq(Wire) /\ network \in Seq(Wire)
    BY <1>3
  <2>5. Moves(header, body, P, B, network)
    BY <2>3, <2>4, Moved
  <2>6. QED
    BY Zenon, <2>1, <2>2, <2>5 DEF Moves
<1>11. ReaderInv'
  <2>1. \E cut : Cuts(cut, Rest', Len(handled'), written')
    BY <1>1, <1>2, <1>10 DEF ReaderInv
  <2>2. Len(header) = HeaderLength
    BY <1>1 DEF ReaderInv
  <2>3. buffer' \in Seq(Wire) /\ network' \in Seq(Wire) /\ header' = header
    BY <1>2, <1>3, <1>6, <1>7
  <2>4. QED
    BY <1>1, <1>3, <1>8, <1>9, <2>1, <2>2, <2>3 DEF ReaderInv
<1>12. QED
  BY <1>1, <1>2, <1>11, StreamKept, HandledKept DEF FrameInv

\* A message that was read goes to its handler.
LEMMA HandledOne ==
  ASSUME HandledInv, UNCHANGED written,
         Len(handled) + 1 \in 1 .. Len(written),
         handled' = handled \o <<Narrowed(written[Len(handled) + 1])>>
  PROVE  HandledInv' /\ Len(handled') = Len(handled) + 1
<1> DEFINE h == Len(handled)
           v == Narrowed(written[h + 1])
           f == [k \in 1 .. h |-> Narrowed(written[k])]
           g == [k \in 1 .. h + 1 |-> Narrowed(written[k])]
<1>1. h \in 0 .. Len(written) /\ handled = f /\ h + 1 \in 1 .. Len(written) /\ handled' = handled \o <<v>>
  BY DEF HandledInv
<1>2. h \in Nat
  BY <1>1
<1> HIDE DEF h
<1> DEFINE S == {Narrowed(written[k]) : k \in 1 .. h + 1}
<1>3. f \in Seq(S) /\ Len(f) = h /\ g \in Seq(S) /\ Len(g) = h + 1 /\ v \in S
  <2>1. \A k \in 1 .. h + 1 : Narrowed(written[k]) \in S
    OBVIOUS
  <2>2. h + 1 \in Nat /\ h + 1 \in 1 .. h + 1 /\ \A k \in 1 .. h : k \in 1 .. h + 1
    BY <1>2
  <2> HIDE DEF S
  <2>3. f \in [1 .. h -> S] /\ g \in [1 .. h + 1 -> S] /\ v \in S
    BY <2>1, <2>2
  <2> HIDE DEF f, g
  <2>4. f \in Seq(S) /\ Len(f) = h
    BY <1>2, <2>3
  <2>5. g \in Seq(S) /\ Len(g) = h + 1
    <3>1. PICK l \in Nat : l = h + 1
      BY <2>2
    <3>2. g \in [1 .. l -> S]
      BY <2>3, <3>1
    <3>3. g \in Seq(S) /\ Len(g) = l
      BY <3>2
    <3>4. QED
      BY <3>1, <3>3
  <2>6. QED
    BY <2>3, <2>4, <2>5
<1>4. \A k \in 1 .. h : f[k] = g[k]
  BY <1>2
<1>5. g[h + 1] = v
  BY <1>2
<1> HIDE DEF f, g, v, S
<1>6. f \o <<v>> = g
  <2>1. <<v>> \in Seq(S) /\ Len(<<v>>) = 1 /\ <<v>>[1] = v
    BY <1>3
  <2>2. /\ f \o <<v>> \in Seq(S) /\ Len(f \o <<v>>) = h + 1
        /\ \A k \in 1 .. h + 1 : (f \o <<v>>)[k] = IF k <= h THEN f[k] ELSE <<v>>[k - h]
    BY <1>2, <1>3, <2>1, ConcatProperties
  <2>3. ASSUME NEW k \in 1 .. h + 1 PROVE (f \o <<v>>)[k] = g[k]
    <3>1. CASE k <= h
      BY <1>2, <1>4, <2>2, <3>1
    <3>2. CASE ~(k <= h)
      <4>1. k = h + 1 /\ k - h = 1
        BY <1>2, <3>2
      <4>2. QED
        BY <1>5, <2>1, <2>2, <3>2, <4>1
    <3>3. QED
      BY <3>1, <3>2
  <2>4. QED
    BY <1>3, <2>2, <2>3, SeqEqual
<1>7. handled' = g
  BY <1>1, <1>6
<1>8. Len(handled') = h + 1
  BY <1>3, <1>7
<1>9. handled' = [k \in 1 .. Len(handled') |-> Narrowed(written'[k])]
  BY <1>7, <1>8 DEF g
<1>10. Len(handled') \in 0 .. Len(written')
  BY <1>1, <1>2, <1>8
<1>11. QED
  BY <1>8, <1>9, <1>10 DEF HandledInv, h

LEMMA HandleCorrect == FrameInv /\ Handle => FrameInv'
<1> SUFFICES ASSUME FrameInv, Handle PROVE FrameInv'
  OBVIOUS
<1> DEFINE h == Len(handled)
           m == written[h + 1]
           F == header \o body
           D == buffer \o network
<1>1. StreamInv /\ HandledInv /\ ReaderInv /\ connected /\ header # << >> /\ Missing = 0
  BY DEF FrameInv, Handle, BodyRead
<1>2. /\ header' = << >> /\ body' = << >>
      /\ UNCHANGED <<stream, written, network, buffer, short>>
  BY DEF Handle
<1>3. LET message == Decoded(F, stream.wantsId) IN
        IF message # Fail THEN handled' = handled \o message /\ UNCHANGED connected
                          ELSE connected' = FALSE /\ UNCHANGED handled
  BY DEF Handle
<1>4. /\ header \in Seq(Wire) /\ body \in Seq(Wire) /\ buffer \in Seq(Wire) /\ network \in Seq(Wire)
      /\ F \in Seq(Wire) /\ D \in Seq(Wire) /\ Rest \in Seq(Wire) /\ Rest = F \o D
      /\ Len(F) = Len(header) + Len(body) /\ Len(Rest) = Len(F) + Len(D)
      /\ \A i \in 1 .. Len(header) : F[i] = header[i]
      /\ \A i \in 1 .. Len(F) : Rest[i] = F[i]
  BY <1>1, RestType
<1>5. Len(header) = HeaderLength
  BY <1>1 DEF ReaderInv
<1> HIDE DEF F, D
<1>6. /\ Len(body) = WordAt(header, 2) /\ Len(body) \in Nat /\ Len(D) \in Nat
      /\ Len(F) = HeaderLength + WordAt(header, 2) /\ Len(F) \in Nat
      /\ Len(F) >= HeaderLength /\ Len(Rest) >= Len(F)
  <2>1. WordAt(header, 2) \in Nat /\ 0 = WordAt(header, 2) - Len(body)
    BY <1>1, MissingType
  <2>2. Len(body) \in Nat /\ Len(D) \in Nat /\ Len(F) \in Nat
    BY <1>4
  <2>3. PICK a \in Nat, b \in Nat, d \in Nat, w \in Nat :
          a = HeaderLength /\ b = Len(body) /\ d = Len(D) /\ w = WordAt(header, 2)
    BY <2>1, <2>2, HeaderSize
  <2>4. 0 = w - b /\ Len(F) = a + b /\ Len(Rest) = (a + b) + d
    BY <1>4, <1>5, <2>1, <2>3
  <2>5. b = w /\ a + b >= a /\ (a + b) + d >= a + b
    BY <2>4
  <2>6. QED
    BY <2>2, <2>3, <2>4, <2>5
<1>7. Len(Rest) > 0
  BY <1>4, <1>6, HeaderSize
<1>8. h \in Nat /\ h + 1 \in 1 .. Len(written)
  BY <1>1, <1>7, NextPiece
<1>9. PICK cut : /\ Cuts(cut, Rest, h, written)
                 /\ \E piece \in Encodings(m) :
                      piece \in Seq(Wire) /\ cut[h + 1] = Len(piece) /\ Holds(Rest, 0, piece)
  BY <1>1, <1>7, NextPiece
<1>10. PICK piece \in Encodings(m) :
         piece \in Seq(Wire) /\ cut[h + 1] = Len(piece) /\ Holds(Rest, 0, piece)
  BY <1>9
<1>11. Proper(m, stream.wantsId) /\ stream.wantsId \in BOOLEAN
  BY <1>1, <1>8, WrittenProper
<1> HIDE DEF m, h
<1>12. /\ Len(piece) >= HeaderLength /\ Len(piece) \in Nat
       /\ ~ByteShort(m) => /\ WordAt(piece, 2) = Len(piece) - HeaderLength
                           /\ Decoded(piece, stream.wantsId) = Got(Narrowed(m))
       /\ ByteShort(m) => /\ WordAt(piece, 2) = Len(piece) + 1 - HeaderLength
                          /\ \A d \in Seq(Wire) : Len(d) = Len(piece) + 1 /\ Holds(d, 0, piece)
                                                  => Decoded(d, stream.wantsId) = Fail
  BY <1>10, <1>11, Piece
<1>13. \A i \in 1 .. Len(piece) : Rest[i] = piece[i]
  <2>1. \A i \in 1 .. Len(piece) : 0 + i = i
    OBVIOUS
  <2>2. QED
    BY <1>10, <2>1 DEF Holds
<1>14. WordAt(header, 2) = WordAt(piece, 2)
  <2>1. ASSUME NEW i \in 1 .. HeaderLength PROVE header[i] = piece[i]
    <3>1. i \in 1 .. Len(header) /\ i \in 1 .. Len(F) /\ i \in 1 .. Len(piece)
      BY <1>5, <1>6, <1>12, HeaderSize
    <3>2. QED
      BY <1>4, <1>13, <3>1
  <2>2. Len(header) >= HeaderLength
    BY <1>5, HeaderSize
  <2>3. header \in Seq(Wire) /\ piece \in Seq(Wire) /\ Len(piece) >= HeaderLength
    BY <1>4, <1>10, <1>12
  <2>4. QED
    BY <2>1, <2>2, <2>3, SameHeader
<1>15. CASE ByteShort(m)
  <2>1. Len(F) = Len(piece) + 1
    BY <1>6, <1>12, <1>14, <1>15, HeaderSize
  <2>2. Holds(F, 0, piece)
    <3>1. \A i \in 1 .. Len(piece) : i \in 1 .. Len(F) /\ 0 + i = i
      BY <1>12, <2>1
    <3>2. \A i \in 1 .. Len(piece) : F[0 + i] = piece[i]
      BY <1>4, <1>13, <3>1
    <3>3. 0 + Len(piece) <= Len(F)
      BY <1>12, <2>1
    <3>4. QED
      BY <3>2, <3>3 DEF Holds
  <2>3. Decoded(F, stream.wantsId) = Fail
    BY <1>4, <1>12, <1>15, <2>1, <2>2
  <2>4. connected' = FALSE /\ UNCHANGED handled
    BY <1>3, <2>3
  <2>5. QED
    BY <1>1, <1>2, <2>4, StreamKept, HandledKept DEF FrameInv
<1>16. CASE ~ByteShort(m)
  <2>1. Len(F) = Len(piece)
    BY <1>6, <1>12, <1>14, <1>16, HeaderSize
  <2>2. F = piece
    <3>1. \A i \in 1 .. Len(F) : F[i] = piece[i]
      BY <1>4, <1>13, <2>1
    <3>2. QED
      BY <1>4, <1>10, <2>1, <3>1, SeqEqual
  <2>3. Decoded(F, stream.wantsId) = Got(Narrowed(m))
    BY <1>12, <1>16, <2>2
  <2>4. Got(Narrowed(m)) # Fail /\ Got(Narrowed(m)) = <<Narrowed(m)>>
    BY DEF Got, Fail
  <2>5. handled' = handled \o <<Narrowed(m)>> /\ UNCHANGED connected
    BY <1>3, <2>3, <2>4
  <2>6. HandledInv' /\ Len(handled') = h + 1
    BY <1>1, <1>2, <1>8, <2>5, HandledOne DEF m, h
  <2>7. Rest' = D
    <3>1. << >> \o << >> = << >>
      OBVIOUS
    <3>2. Rest' = << >> \o << >> \o buffer \o network
      BY <1>2 DEF Rest
    <3>3. << >> \o buffer = buffer
      BY <1>4, ConcatEmptySeq
    <3>4. QED
      BY <3>1, <3>2, <3>3 DEF D
  <2>8. \E c : Cuts(c, D, h + 1, written)
    <3>1. Cuts(cut, F \o D, h, written) /\ cut[h + 1] = Len(F)
      BY <1>4, <1>9, <1>10, <2>1
    <3>2. h < Len(written) /\ Len(written) \in Nat
      BY <1>1, <1>8 DEF StreamInv
    <3>3. F \in Seq(Wire) /\ D \in Seq(Wire) /\ h \in Nat
      BY <1>4, <1>8
    <3>4. QED
      BY <3>1, <3>2, <3>3, CutsHandled
  <2>9. \E c : Cuts(c, Rest', Len(handled'), written')
    BY <1>2, <2>6, <2>7, <2>8
  <2>10. ReaderInv'
    <3>1. header' = << >> /\ body' = << >> /\ buffer' = buffer /\ network' = network
      BY <1>2
    <3>2. << >> \in Seq(Wire)
      OBVIOUS
    <3>3. QED
      BY <1>4, <2>9, <3>1, <3>2 DEF ReaderInv
  <2>11. QED
    BY <1>1, <1>2, <2>6, <2>10, StreamKept DEF FrameInv
<1>17. QED
  BY <1>15, <1>16

\* Steps that change nothing.
LEMMA FrameStutter == FrameInv /\ UNCHANGED frameVars => FrameInv'
BY DEF FrameInv, StreamInv, HandledInv, ReaderInv, Rest, frameVars

LEMMA FrameStep == FrameInv /\ [FrameNext]_frameVars => FrameInv'
BY WriteCorrect, FillCorrect, ReadHeaderCorrect, ReadBodyCorrect, HandleCorrect, FrameStutter
   DEF FrameNext, Read

LEMMA FrameInvImplies == FrameInv => HandledInOrder
<1> SUFFICES ASSUME FrameInv PROVE HandledInOrder
  OBVIOUS
<1> DEFINE f == [k \in DOMAIN written |-> Narrowed(written[k])]
           n == Len(written)
           h == Len(handled)
<1>1. h \in 0 .. n /\ handled = [k \in 1 .. h |-> Narrowed(written[k])]
  BY DEF FrameInv, HandledInv
<1>2. n \in Nat /\ DOMAIN written = 1 .. n
  BY DEF FrameInv, StreamInv
<1> DEFINE S == {Narrowed(written[k]) : k \in 1 .. n}
<1>3. f \in Seq(S) /\ Len(f) = n /\ handled \in Seq(S)
  <2>1. \A k \in 1 .. n : Narrowed(written[k]) \in S
    OBVIOUS
  <2>2. h \in Nat /\ \A k \in 1 .. h : k \in 1 .. n
    BY <1>1, <1>2
  <2> HIDE DEF S, h, n
  <2>3. f \in [1 .. n -> S] /\ handled \in [1 .. h -> S]
    BY <1>1, <1>2, <2>1, <2>2
  <2> HIDE DEF f
  <2>4. f \in Seq(S) /\ Len(f) = n
    BY <1>2, <2>3
  <2>5. handled \in Seq(S)
    BY <2>2, <2>3
  <2>6. QED
    BY <2>4, <2>5
<1>4. \A k \in 1 .. h : handled[k] = f[k]
  BY <1>1, <1>2
<1> HIDE DEF f, S, n
<1>5. SubSeq(handled, 1, h) = handled
  BY <1>3, SubSeqProperties
<1>6. SubSeq(f, 1, h) = handled
  BY <1>1, <1>2, <1>3, <1>4, SubSeqProperties, SeqEqual
<1>7. QED
  BY <1>1, <1>2, <1>3, <1>5, <1>6 DEF HandledInOrder, IsPrefix, f

\* What the reader rests on (readLoop in controller.go): while the connection
\* lasts, the bytes between the writer and the handlers are the encodings of the
\* messages that are not handled yet, whole and in order, and a header that was
\* read says how long the body is.
THEOREM ReaderCorrect == FrameSpec => []FrameInv
BY FrameInitCorrect, FrameStep, PTL DEF FrameSpec

\* HandledInOrder (Framing): however the network cuts the stream, the handlers
\* are given what the other end wrote, in order, each message once, decoded to
\* what was encoded, until the connection is given up (readLoop in controller.go
\* and the Encode and Decode functions of mines_protocol.go).
THEOREM HandledCorrect == FrameSpec => []HandledInOrder
BY ReaderCorrect, FrameInvImplies, PTL
=============================================================================
