----------------------------- MODULE MCFraming -----------------------------
EXTENDS Framing

\* A byte has 8 values, a word 2 bytes: numbers of one and of two bytes, ints
\* around the ends of their range, strings of no, one and two bytes.
Numbers == {0, 7, 8, 63}
Signs == {-32, -1, 0, 31}
Strings == {<< >>, <<7>>, <<0, 1>>}
Names == Strings \ {<< >>}
Ids == {<< >>, <<0>>, <<63>>}

Cells == [{<<0, 0>>, <<1, 0>>, <<0, 1>>, <<1, 1>>, <<0, 2>>, <<1, 2>>} ->
            {[Mine |-> TRUE, Revealed |-> FALSE, Flagged |-> TRUE],
             [Mine |-> FALSE, Revealed |-> TRUE, Flagged |-> FALSE]}]
Updates == [X : {0, 63}, Y : {1}, Value : {0, 7}]
Marks == [X : {0, 63}, Y : {1}, PlayerId : {9}]
Servers == [Name : Strings, Host : {<< >>, <<5>>}, Port : {0, 7}, PlayerCount : Signs]
SomeServers == {s \in Servers : s.PlayerCount = 31 /\ s.Port = 7}
Tokens == [PlayerID : {0, 63}, ServerID : {8}, Expiry : {-1, 100, 2047},
           Nonce : {<<3>>}, Signature : {<<4, 5>>}]

Game ==
  [kind : {"MoveCommand"}, type : {1, 2}, X : Numbers, Y : Numbers, PlayerId : Numbers]
  \cup [kind : {"StartGame"}, Width : {-1, 0, 63}, Height : Numbers, Mines : {-1, 7, 64}, GameMode : {0, 1}]
  \cup [kind : {"GameEnd"}, type : 1 .. 3]
  \cup [kind : {"TextMessage"}, text : Strings]
  \cup [kind : {"Board"}, Width : {2}, Height : {3}, Cells : Cells]
  \cup [kind : {"CellUpdate"}, cells : UNION {[1 .. n -> Updates] : n \in 0 .. 2}]
  \cup [kind : {"GamemodeInfo"}, GameMode : {ModeCoop},
        MarksChange : UNION {[1 .. n -> Marks] : n \in 0 .. 2},
        PlayerScores : UNION {[I -> {-1, 0, 31}] : I \in {{}, {1}, {1, 63}}}]

Matchmaking ==
  [kind : {"SpawnServerRequest"}, id : Ids, name : Strings]
  \cup [kind : {"GetGameServers"}, id : Ids]
  \cup [kind : {"ServerSpawned"}, id : Ids, server : Servers]
  \cup [kind : {"SendGameServers"}, id : Ids,
        servers : UNION {[1 .. n -> SomeServers] : n \in 0 .. 2}]

Refused == [kind : {"AuthResponse"}, Success : {FALSE}]
LoggedIn == [kind : {"AuthResponse"}, Success : {TRUE}, ID : {3}, Name : Names]

Accounts ==
  [kind : {"RegisterPlayerRequest", "AuthRequest"}, Name : Strings, Password : Strings]
  \cup [kind : {"AuthWithMMToken"}, token : Tokens]
  \cup [kind : {"ConnectToGameRequest"}, server : Numbers]
  \cup [kind : {"ConnectToGameResponse"}, Success : {FALSE}]
  \cup [kind : {"ConnectToGameResponse"}, Success : {TRUE}, Token : Tokens,
        Host : Names, Port : {0, 7}]
  \cup Refused

Messages == Game \cup Matchmaking \cup Accounts

\* Only between launcher and matchmaking server do requests have ids.
Numbered(m) == "id" \in DOMAIN m /\ m.id # << >>

Alone(m) == [wantsId |-> Numbered(m), messages |-> <<m>>]

\* An empty body, one shorter and one longer than a header.
SomeMessages ==
  {[kind |-> "GetGameServers", id |-> << >>],
   [kind |-> "SpawnServerRequest", id |-> << >>, name |-> <<3>>],
   [kind |-> "MoveCommand", type |-> 1, X |-> 0, Y |-> 9, PlayerId |-> 2]}

\* Every message by itself, any three of SomeMessages in a row, and one of
\* them after a successful login of a player with a small id.
AllStreams ==
  {Alone(m) : m \in Messages}
  \cup [wantsId : {FALSE}, messages : [1 .. 3 -> SomeMessages]]
  \cup [wantsId : {FALSE}, messages : {<<l, m>> : l \in LoggedIn, m \in SomeMessages}]
=============================================================================
