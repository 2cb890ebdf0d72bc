------------------------------- MODULE Codec -------------------------------
(***************************************************************************)
(* The wire format (src/protocol/mines_protocol.go): each Encode function  *)
(* as the bytes it returns, each Decode function as the value it returns,  *)
(* or Fail.  A message is a record with a kind, the name of its            *)
(* MessageType, which stands for the first byte on the wire; id is << >>   *)
(* where the code has a nil requestId.  Byte strings are sequences.        *)
(***************************************************************************)
EXTENDS Integers, Sequences, SequencesExt, FiniteSetsExt, Functions

CONSTANTS
  Base,           \* the values of a byte: 256
  WordBytes,      \* the bytes of an int32: 4
  HalfBytes,      \* ... of a uint16: 2
  LongBytes,      \* ... of an int64: 8
  NonceBytes, SignatureBytes    \* ... of those fields of a token: 16 and 32

ASSUME CodecAssumption ==
  /\ Base \in Nat /\ Base >= 8
  /\ {WordBytes, HalfBytes, LongBytes, NonceBytes, SignatureBytes} \subseteq Nat \ {0}

HeaderLength == 2 + WordBytes
AuthTokenLength == 2 * WordBytes + LongBytes + NonceBytes + SignatureBytes

Fail == << >>
Got(v) == <<v>>
When(ok, v) == IF ok THEN Got(v) ELSE Fail

(***************************************************************************)
(* Numbers are big endian and cut to their width: a negative int becomes   *)
(* its two's complement, and bytesToInt reads every number as unsigned.    *)
(***************************************************************************)
\* Base ^ n.
Power[n \in Nat] == IF n = 0 THEN 1 ELSE Base * Power[n - 1]

Bytes(n, width) == [k \in 1 .. width |-> (n \div Power[width - k]) % Base]

Number(bytes) ==
  LET value[k \in 0 .. Len(bytes)] == IF k = 0 THEN 0 ELSE value[k - 1] * Base + bytes[k]
  IN  value[Len(bytes)]

Word(n) == Bytes(n, WordBytes)
Half(n) == Bytes(n, HalfBytes)
Long(n) == Bytes(n, LongBytes)

\* The Go slice data[from:to].
Part(data, from, to) == SubSeq(data, from + 1, to)
From(data, from) == Part(data, from, Len(data))

WordAt(data, at) == Number(Part(data, at, at + WordBytes))

\* Mutant: the number is not taken for a signed one.
SignedNever(n, width) == n

\* binary.Read into an int32, and the conversion of an Expiry to int64.
Signed(n, width) == IF n >= Power[width] \div 2 THEN n - Power[width] ELSE n

\* writeStringWithLength and readStringWithLength.
Text(s) == Word(Len(s)) \o s
TextEnd(data, at) == at + WordBytes + Signed(WordAt(data, at), WordBytes)
TextAt(data, at) == Part(data, at + WordBytes, TextEnd(data, at))

Frame(kind, flags, payload) == <<kind, flags>> \o Word(Len(payload)) \o payload

\* checkAndDecodeLength.
WellFormed(data, kind) ==
  Len(data) >= HeaderLength /\ data[1] = kind /\ WordAt(data, 2) = Len(data) - HeaderLength

Payload(data) == From(data, HeaderLength)

\* HasIdFlag, and the request id in front of the payload.
IdFlag(id) == Len(id)
IdBytes(id) == IF id = << >> THEN << >> ELSE Word(id[1])

\* GetRequestId, and the offset of what follows.
HasId(data) == data[2] % 2 = 1 /\ Len(data) >= HeaderLength + WordBytes
IdOf(data, wanted) == IF wanted THEN <<WordAt(data, HeaderLength)>> ELSE << >>
AfterId(wanted) == IF wanted THEN HeaderLength + WordBytes ELSE HeaderLength

Concat(parts) ==
  LET joined[k \in 0 .. Len(parts)] == IF k = 0 THEN << >> ELSE joined[k - 1] \o parts[k]
  IN  joined[Len(parts)]

\* The fields of width bytes each that fill data, in order.
Split(data, width) == [k \in 1 .. Len(data) \div width |-> Part(data, (k - 1) * width, k * width)]

(***************************************************************************)
(* The game: moves, starts, ends, boards, updates.                         *)
(***************************************************************************)
EncodeMove(m) ==
  Frame("MoveCommand", 0, <<m.type>> \o Word(m.X) \o Word(m.Y) \o Word(m.PlayerId))

DecodeMove(data) ==
  LET p == Payload(data) IN
  When(WellFormed(data, "MoveCommand"),
       [kind |-> "MoveCommand", type |-> p[1], X |-> WordAt(p, 1), Y |-> WordAt(p, 1 + WordBytes),
        PlayerId |-> WordAt(p, 1 + 2 * WordBytes)])

EncodeGameStart(m) ==
  Frame("StartGame", 0, Word(m.Width) \o Word(m.Height) \o Word(m.Mines) \o <<m.GameMode>>)

DecodeGameStart(data) ==
  LET p == Payload(data) IN
  When(WellFormed(data, "StartGame") /\ Len(p) = 3 * WordBytes + 1,
       [kind |-> "StartGame", Width |-> WordAt(p, 0), Height |-> WordAt(p, WordBytes),
        Mines |-> WordAt(p, 2 * WordBytes), GameMode |-> p[3 * WordBytes + 1]])

EncodeGameEnd(m) == Frame("GameEnd", 0, <<m.type>>)

DecodeGameEnd(data) ==
  When(WellFormed(data, "GameEnd"), [kind |-> "GameEnd", type |-> Payload(data)[1]])

EncodeTextMessage(m) == Frame("TextMessage", 0, m.text)

DecodeTextMessage(data) ==
  When(WellFormed(data, "TextMessage"), [kind |-> "TextMessage", text |-> Payload(data)])

CellFlags(cell) ==
  (IF cell.Mine THEN 1 ELSE 0) + (IF cell.Revealed THEN 2 ELSE 0) + (IF cell.Flagged THEN 4 ELSE 0)
FlagsCell(flags) ==
  [Mine |-> flags % 2 = 1, Revealed |-> (flags \div 2) % 2 = 1, Flagged |-> (flags \div 4) % 2 = 1]

CellByteLength == 2 * WordBytes + 1

\* The cells row by row.
CellOrder(m) ==
  [k \in 1 .. m.Width * m.Height |-> <<(k - 1) % m.Width, (k - 1) \div m.Width>>]

EncodeBoard(m) ==
  LET encodeCell(c) == Word(c[1]) \o Word(c[2]) \o <<CellFlags(m.Cells[c])>> IN
  Frame("Board", 0, Word(m.Height) \o Word(m.Width)
                    \o Concat([k \in 1 .. m.Width * m.Height |-> encodeCell(CellOrder(m)[k])]))

DecodeBoard(data) ==
  LET p == Payload(data)
      Height == WordAt(p, 0)
      Width == WordAt(p, WordBytes)
      cells == From(p, 2 * WordBytes)
      parts == Split(cells, CellByteLength)
      at(k) == <<WordAt(parts[k], 0), WordAt(parts[k], WordBytes)>>
      all == {at(k) : k \in DOMAIN parts}
  IN  When(/\ WellFormed(data, "Board") /\ Len(p) >= 2 * WordBytes
           /\ Len(cells) % CellByteLength = 0 /\ Len(parts) = Height * Width
           /\ all \subseteq (0 .. Width - 1) \X (0 .. Height - 1)
           /\ IsInjective([k \in DOMAIN parts |-> at(k)]),
           [kind |-> "Board", Width |-> Width, Height |-> Height,
            Cells |-> [c \in all |->
              FlagsCell(parts[CHOOSE k \in DOMAIN parts : at(k) = c][CellByteLength])]])

EncodeCellUpdates(m) ==
  Frame("CellUpdate", 0,
        Concat([k \in DOMAIN m.cells |->
                  Word(m.cells[k].X) \o Word(m.cells[k].Y) \o <<m.cells[k].Value>>]))

DecodeCellUpdates(data) ==
  LET p == Payload(data)
      parts == Split(p, CellByteLength)
  IN  When(WellFormed(data, "CellUpdate") /\ Len(p) % CellByteLength = 0,
           [kind |-> "CellUpdate", cells |-> [k \in DOMAIN parts |->
              [X |-> WordAt(parts[k], 0), Y |-> WordAt(parts[k], WordBytes),
               Value |-> parts[k][CellByteLength]]]])

EncodeScore(n) == Word(n)

ModeCoop == 1

\* EncodeCoopInfoUpdate ranges over the map of scores in any order.
EncodeGamemodeInfo(m) ==
  LET ids == DOMAIN m.PlayerScores
      marks == Concat([k \in DOMAIN m.MarksChange |->
                 Word(m.MarksChange[k].X) \o Word(m.MarksChange[k].Y)
                 \o Word(m.MarksChange[k].PlayerId)])
  IN  {Frame("GamemodeInfo", 0,
             <<ModeCoop>> \o Half(Cardinality(ids))
             \o Concat([k \in DOMAIN order |->
                          Word(order[k]) \o EncodeScore(m.PlayerScores[order[k]])])
             \o marks) : order \in SetToSeqs(ids)}

\* DecodeGamemodeInfo and DecodeCoopInfoUpdate, for the mode ModeCoop.
DecodeGamemodeInfo(data) ==
  LET p == Payload(data)
      count == Number(Part(p, 1, 1 + HalfBytes))
      start == 1 + HalfBytes
      end == start + count * 2 * WordBytes
      pairs == Split(Part(p, start, end), 2 * WordBytes)
      marks == Split(From(p, end), 3 * WordBytes)
      ids == {WordAt(pairs[k], 0) : k \in DOMAIN pairs}
  IN  When(WellFormed(data, "GamemodeInfo") /\ p[1] = ModeCoop,
           [kind |-> "GamemodeInfo", GameMode |-> p[1],
            PlayerScores |-> [i \in ids |->
              WordAt(pairs[CHOOSE k \in DOMAIN pairs : WordAt(pairs[k], 0) = i], WordBytes)],
            MarksChange |-> [k \in DOMAIN marks |->
              [X |-> WordAt(marks[k], 0), Y |-> WordAt(marks[k], WordBytes),
               PlayerId |-> WordAt(marks[k], 2 * WordBytes)]]])

(***************************************************************************)
(* Matchmaking: game servers, with or without a request id.                *)
(***************************************************************************)
EncodeSpawnServerRequest(m) ==
  Frame("SpawnServerRequest", IdFlag(m.id), IdBytes(m.id) \o m.name)

\* A missing id is not reported: the name comes out empty.
DecodeSpawnServerRequest(data, wanted) ==
  When(WellFormed(data, "SpawnServerRequest"),
       IF wanted /\ ~HasId(data) THEN [kind |-> "SpawnServerRequest", id |-> <<0>>, name |-> << >>]
       ELSE [kind |-> "SpawnServerRequest", id |-> IdOf(data, wanted),
             name |-> From(data, AfterId(wanted))])

EncodeGetGameServers(m) == Frame("GetGameServers", IdFlag(m.id), IdBytes(m.id))

DecodeGetGameServers(data, wanted) ==
  When(WellFormed(data, "GetGameServers") /\ (wanted => HasId(data)),
       [kind |-> "GetGameServers", id |-> IdOf(data, wanted)])

EncodeGameServer(s) == Text(s.Name) \o Text(s.Host) \o Half(s.Port) \o Word(s.PlayerCount)

\* DecodeGameServer: the server at an offset, and the offset behind it.
GameServerEnd(data, at) == TextEnd(data, TextEnd(data, at)) + HalfBytes + WordBytes
GameServerAt(data, at) ==
  LET port == TextEnd(data, TextEnd(data, at)) IN
  [Name |-> TextAt(data, at), Host |-> TextAt(data, TextEnd(data, at)),
   Port |-> Number(Part(data, port, port + HalfBytes)),
   PlayerCount |-> Signed(WordAt(data, port + HalfBytes), WordBytes)]

EncodeServerSpawned(m) ==
  Frame("ServerSpawned", IdFlag(m.id), IdBytes(m.id) \o EncodeGameServer(m.server))

DecodeServerSpawned(data, wanted) ==
  When(WellFormed(data, "ServerSpawned") /\ (wanted => HasId(data)),
       [kind |-> "ServerSpawned", id |-> IdOf(data, wanted),
        server |-> GameServerAt(data, AfterId(wanted))])

EncodeSendGameServers(m) ==
  Frame("SendGameServers", IdFlag(m.id),
        IdBytes(m.id) \o Concat([k \in DOMAIN m.servers |-> EncodeGameServer(m.servers[k])]))

\* The loop reads servers until nothing is left.
DecodeSendGameServers(data, wanted) ==
  LET after == [at \in Nat |-> IF at < Len(data) THEN GameServerEnd(data, at) ELSE at]
      offset[k \in 0 .. Len(data)] == IF k = 0 THEN AfterId(wanted) ELSE after[offset[k - 1]]
      server == [at \in Nat |-> GameServerAt(data, at)]
      count == Cardinality({k \in DOMAIN offset : offset[k] < Len(data)})
  IN  When(WellFormed(data, "SendGameServers") /\ (wanted => HasId(data)),
           [kind |-> "SendGameServers", id |-> IdOf(data, wanted),
            servers |-> [k \in 1 .. count |-> server[offset[k - 1]]]])

(***************************************************************************)
(* Accounts and tokens.                                                    *)
(***************************************************************************)
\* encodeAuthPlayerParamsMessage, for RegisterPlayerRequest and AuthRequest.
EncodePlayerParams(m) == Frame(m.kind, 0, Word(Len(m.Name)) \o m.Name \o m.Password)

DecodePlayerParams(data, kind) ==
  LET p == Payload(data)
      passwordOffset == WordBytes + WordAt(p, 0)
  IN  When(WellFormed(data, kind),
           [kind |-> kind, Name |-> Part(p, WordBytes, passwordOffset),
            Password |-> From(p, passwordOffset)])

encodeAuthToken(t) ==
  Word(t.PlayerID) \o Word(t.ServerID) \o Long(t.Expiry) \o t.Nonce \o t.Signature

decodeAuthToken(d) ==
  LET expiry == 2 * WordBytes
      nonce == expiry + LongBytes
      signature == nonce + NonceBytes
  IN  When(Len(d) = AuthTokenLength,
           [PlayerID |-> WordAt(d, 0), ServerID |-> WordAt(d, WordBytes),
            Expiry |-> Signed(Number(Part(d, expiry, nonce)), LongBytes),
            Nonce |-> Part(d, nonce, signature), Signature |-> From(d, signature)])

EncodeAuthWithMMToken(m) == Frame("AuthWithMMToken", 0, encodeAuthToken(m.token))

DecodeAuthWithMMToken(data) ==
  LET token == decodeAuthToken(Payload(data)) IN
  IF WellFormed(data, "AuthWithMMToken") /\ token # Fail
  THEN Got([kind |-> "AuthWithMMToken", token |-> token[1]]) ELSE Fail

EncodeConnectToGameRequest(m) == Frame("ConnectToGameRequest", 0, Word(m.server))

DecodeConnectToGameRequest(data) ==
  When(WellFormed(data, "ConnectToGameRequest") /\ Len(Payload(data)) = WordBytes,
       [kind |-> "ConnectToGameRequest", server |-> WordAt(data, HeaderLength)])

EncodeConnectToGameResponse(m) ==
  Frame("ConnectToGameResponse", 0,
        IF m.Success THEN <<1>> \o encodeAuthToken(m.Token) \o Text(m.Host) \o Half(m.Port)
                     ELSE <<0>>)

DecodeConnectToGameResponse(data) ==
  LET p == Payload(data)
      info == 1 + AuthTokenLength
      port == TextEnd(p, info)
  IN  IF ~WellFormed(data, "ConnectToGameResponse") \/ p = << >> THEN Fail
      ELSE IF p[1] # 1
      THEN When(Len(p) = 1, [kind |-> "ConnectToGameResponse", Success |-> FALSE])
      ELSE IF Len(p) < info + WordBytes + 1 + HalfBytes THEN Fail
      ELSE Got([kind |-> "ConnectToGameResponse", Success |-> TRUE,
                Token |-> decodeAuthToken(Part(p, 1, info))[1], Host |-> TextAt(p, info),
                Port |-> Number(Part(p, port, port + HalfBytes))])

\* The length of a success counts a success byte, which is not written.
EncodeAuthResponse(m) ==
  IF m.Success
  THEN <<"AuthResponse", 0>> \o Word(1 + 2 * WordBytes + Len(m.Name)) \o Word(m.ID) \o Text(m.Name)
  ELSE Frame("AuthResponse", 0, <<0>>)

DecodeAuthResponse(data) ==
  LET p == Payload(data) IN
  IF ~WellFormed(data, "AuthResponse") \/ p = << >> THEN Fail
  ELSE IF p[1] # 1 THEN When(Len(p) = 1, [kind |-> "AuthResponse", Success |-> FALSE])
  ELSE IF Len(p) < 2 + 2 * WordBytes THEN Fail
  ELSE Got([kind |-> "AuthResponse", Success |-> TRUE, ID |-> WordAt(p, 1),
            Name |-> TextAt(p, 1 + WordBytes)])

-----------------------------------------------------------------------------
Encodings(m) ==
  CASE m.kind = "MoveCommand" -> {EncodeMove(m)}
    [] m.kind = "StartGame" -> {EncodeGameStart(m)}
    [] m.kind = "GameEnd" -> {EncodeGameEnd(m)}
    [] m.kind = "TextMessage" -> {EncodeTextMessage(m)}
    [] m.kind = "Board" -> {EncodeBoard(m)}
    [] m.kind = "CellUpdate" -> {EncodeCellUpdates(m)}
    [] m.kind = "GamemodeInfo" -> EncodeGamemodeInfo(m)
    [] m.kind = "SpawnServerRequest" -> {EncodeSpawnServerRequest(m)}
    [] m.kind = "GetGameServers" -> {EncodeGetGameServers(m)}
    [] m.kind = "ServerSpawned" -> {EncodeServerSpawned(m)}
    [] m.kind = "SendGameServers" -> {EncodeSendGameServers(m)}
    [] m.kind \in {"RegisterPlayerRequest", "AuthRequest"} -> {EncodePlayerParams(m)}
    [] m.kind = "AuthWithMMToken" -> {EncodeAuthWithMMToken(m)}
    [] m.kind = "ConnectToGameRequest" -> {EncodeConnectToGameRequest(m)}
    [] m.kind = "ConnectToGameResponse" -> {EncodeConnectToGameResponse(m)}
    [] m.kind = "AuthResponse" -> {EncodeAuthResponse(m)}

\* What the handler of a message's type decodes; wanted: it passes a pointer
\* for the request id.
Decoded(data, wanted) ==
  LET kind == data[1] IN
  CASE kind = "MoveCommand" -> DecodeMove(data)
    [] kind = "StartGame" -> DecodeGameStart(data)
    [] kind = "GameEnd" -> DecodeGameEnd(data)
    [] kind = "TextMessage" -> DecodeTextMessage(data)
    [] kind = "Board" -> DecodeBoard(data)
    [] kind = "CellUpdate" -> DecodeCellUpdates(data)
    [] kind = "GamemodeInfo" -> DecodeGamemodeInfo(data)
    [] kind = "SpawnServerRequest" -> DecodeSpawnServerRequest(data, wanted)
    [] kind = "GetGameServers" -> DecodeGetGameServers(data, wanted)
    [] kind = "ServerSpawned" -> DecodeServerSpawned(data, wanted)
    [] kind = "SendGameServers" -> DecodeSendGameServers(data, wanted)
    [] kind \in {"RegisterPlayerRequest", "AuthRequest"} -> DecodePlayerParams(data, kind)
    [] kind = "AuthWithMMToken" -> DecodeAuthWithMMToken(data)
    [] kind = "ConnectToGameRequest" -> DecodeConnectToGameRequest(data)
    [] kind = "ConnectToGameResponse" -> DecodeConnectToGameResponse(data)
    [] kind = "AuthResponse" -> DecodeAuthResponse(data)

(***************************************************************************)
(* The messages that the Encode functions are given: numbers fit into      *)
(* their fields, but for parameters and scores; a text is shorter than the *)
(* largest int32.                                                          *)
(***************************************************************************)
Octets == 0 .. Base - 1
Unsigned(width) == 0 .. Power[width] - 1
SignedInts(width) == Power[width] \div 2 - Power[width] .. Power[width] \div 2 - 1
Words == Unsigned(WordBytes)
Halves == Unsigned(HalfBytes)
Texts == {s \in Seq(Octets) : Len(s) < Power[WordBytes] \div 2}
RequestIds == {<< >>} \cup {<<n>> : n \in Words}

Cell == [Mine : BOOLEAN, Revealed : BOOLEAN, Flagged : BOOLEAN]
CellUpdate == [X : Words, Y : Words, Value : Octets]
PlayerMarkChange == [X : Words, Y : Words, PlayerId : Words]
GameServerInfo == [Name : Texts, Host : Texts, Port : Halves, PlayerCount : SignedInts(WordBytes)]
AuthToken ==
  [PlayerID : Words, ServerID : Words, Expiry : SignedInts(LongBytes),
   Nonce : [1 .. NonceBytes -> Octets], Signature : [1 .. SignatureBytes -> Octets]]

\* Two kinds of messages carry a map.  A host is never empty: it is the address
\* of a launcher.  The first byte of a player's id is not 1.
HasType(m) ==
  CASE m.kind = "MoveCommand" ->
         m \in [kind : {m.kind}, type : Octets, X : Words, Y : Words, PlayerId : Words]
    [] m.kind = "StartGame" ->
         m \in [kind : {m.kind}, Width : Int, Height : Int, Mines : Int, GameMode : Octets]
    [] m.kind = "GameEnd" -> m \in [kind : {m.kind}, type : Octets]
    [] m.kind = "TextMessage" -> m \in [kind : {m.kind}, text : Seq(Octets)]
    [] m.kind = "Board" ->
         /\ m \in [kind : {m.kind}, Width : Words, Height : Words, Cells : {m.Cells}]
         /\ m.Cells \in [(0 .. m.Width - 1) \X (0 .. m.Height - 1) -> Cell]
    [] m.kind = "CellUpdate" -> m \in [kind : {m.kind}, cells : Seq(CellUpdate)]
    [] m.kind = "GamemodeInfo" ->
         /\ m \in [kind : {m.kind}, GameMode : {ModeCoop}, MarksChange : Seq(PlayerMarkChange),
                   PlayerScores : {m.PlayerScores}]
         /\ DOMAIN m.PlayerScores \in SUBSET Words
         /\ Cardinality(DOMAIN m.PlayerScores) \in Halves
         /\ m.PlayerScores \in [DOMAIN m.PlayerScores -> Int]
    [] m.kind = "SpawnServerRequest" -> m \in [kind : {m.kind}, id : RequestIds, name : Seq(Octets)]
    [] m.kind = "GetGameServers" -> m \in [kind : {m.kind}, id : RequestIds]
    [] m.kind = "ServerSpawned" -> m \in [kind : {m.kind}, id : RequestIds, server : GameServerInfo]
    [] m.kind = "SendGameServers" ->
         m \in [kind : {m.kind}, id : RequestIds, servers : Seq(GameServerInfo)]
    [] m.kind \in {"RegisterPlayerRequest", "AuthRequest"} ->
         m \in [kind : {m.kind}, Name : Seq(Octets), Password : Seq(Octets)]
    [] m.kind = "AuthWithMMToken" -> m \in [kind : {m.kind}, token : AuthToken]
    [] m.kind = "ConnectToGameRequest" -> m \in [kind : {m.kind}, server : Words]
    [] m.kind = "ConnectToGameResponse" ->
         \/ m \in [kind : {m.kind}, Success : {FALSE}]
         \/ m \in [kind : {m.kind}, Success : {TRUE}, Token : AuthToken,
                   Host : Texts \ {<< >>}, Port : Halves]
    [] m.kind = "AuthResponse" ->
         \/ m \in [kind : {m.kind}, Success : {FALSE}]
         \/ m \in [kind : {m.kind}, Success : {TRUE}, ID : Unsigned(WordBytes - 1), Name : Texts]
    [] OTHER -> FALSE

\* The length in the header is one a uint32 holds.
Sendable(m) ==
  HasType(m) /\ \A data \in Encodings(m) : Len(data) + 1 - HeaderLength \in Words

\* What the receiver ought to get: the message, of which scores and typed in
\* parameters, ints that can be negative, come out as uint32.
Narrowed(m) ==
  CASE m.kind = "StartGame" ->
         [m EXCEPT !.Width = @ % Power[WordBytes], !.Height = @ % Power[WordBytes],
                   !.Mines = @ % Power[WordBytes]]
    [] m.kind = "GamemodeInfo" ->
         [m EXCEPT !.PlayerScores = [i \in DOMAIN @ |-> @[i] % Power[WordBytes]]]
    [] OTHER -> m
=============================================================================
