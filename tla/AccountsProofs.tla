--------------------------- MODULE AccountsProofs ---------------------------
(***************************************************************************)
(* The safety properties of module Accounts, for any connections, names    *)
(* and passwords, and any number of requests, failures and setups.  The    *)
(* inductive invariants:                                                   *)
(*   Typed        types of the variables and of what handlers hold;        *)
(*   SetupInv     what of the schema was executed before the place where   *)
(*                cmd/db is;                                               *)
(*   Few          each row was asked for by a message of its own, so that  *)
(*                ids do not wrap;                                         *)
(*   BooksInv     names are unique, registrations and logins are backed by *)
(*                rows, and handlers hold rows as they are;                *)
(*   IdentityInv  the last success among the answers sent on a connection  *)
(*                names the player the server takes it for.                *)
(***************************************************************************)
EXTENDS Accounts, FiniteSetTheorems, TLAPS

-----------------------------------------------------------------------------
(***************************************************************************)
(* Types.                                                                  *)
(***************************************************************************)
RowType == [name : Names, password : Passwords]
AnswerType == [success : BOOLEAN, player : PlayerType]

Registering == [pc : {"hash", "insert"}, name : Names, password : Passwords]
Finding     == [pc : {"find"}, name : Names, password : Passwords, due : BOOLEAN]
Comparing   == [pc : {"compare"}, name : Names, password : Passwords, due : BOOLEAN,
                id : Nat \ {0}, row : RowType]
Answering   == [pc : {"answer"}, due : BOOLEAN, answer : AnswerType]

Handlers == {Idle} \cup Registering \cup Finding \cup Comparing \cup Answering

Requests == [messages : Nat, failures : Nat, setups : Nat]

StoreTyped ==
  /\ rows \in Seq(RowType)
  /\ registered \subseteq Names \X Passwords
  /\ loggedIn \subseteq [name : Names, password : Passwords, id : Nat]
  /\ requests \in Requests

PlayersTyped ==
  /\ serving \in BOOLEAN
  /\ connected \in [Players -> BOOLEAN] /\ authenticated \in [Players -> BOOLEAN]
  /\ info \in [Players -> PlayerType] /\ half \in [Players -> PlayerType]
  /\ handler \in [Players -> Handlers]
  /\ out \in [Players -> Seq(AnswerType)]
  /\ \A p \in Players : Len(out[p]) <= ChanCap

Typed == StoreTyped /\ PlayersTyped

LEMMA HandlerFields ==
  ASSUME NEW h \in Handlers
  PROVE  /\ h.pc \in {"hash", "insert"} => h \in Registering
         /\ h.pc = "find" => h \in Finding
         /\ h.pc = "compare" => h \in Comparing
         /\ h.pc = "answer" => h \in Answering
         /\ h.pc \in {"idle", "hash", "insert", "find", "compare", "answer"}
         /\ h = Idle <=> h.pc = "idle"
BY DEF Handlers, Idle, Registering, Finding, Comparing, Answering

LEMMA NoPlayerTyped == NoPlayer \in PlayerType
BY AccountsAssumption DEF NoPlayer, PlayerType

LEMMA CountTyped ==
  ASSUME requests \in Requests, NEW kind \in {"messages", "failures", "setups"}, NEW bound,
         Count(kind, bound)
  PROVE  /\ requests' \in Requests
         /\ kind # "messages" => requests'.messages = requests.messages
         /\ kind = "messages" => /\ requests.messages < bound
                                 /\ requests'.messages = requests.messages + 1
BY DEF Count, Requests

LEMMA InitTyped == Init => Typed
<1> SUFFICES ASSUME Init PROVE Typed
  OBVIOUS
<1>1. StoreTyped
  BY DEF Init, StoreTyped, Requests
<1>2. /\ serving \in BOOLEAN
      /\ connected \in [Players -> BOOLEAN] /\ authenticated \in [Players -> BOOLEAN]
      /\ info \in [Players -> PlayerType] /\ half \in [Players -> PlayerType]
      /\ handler \in [Players -> Handlers]
  BY NoPlayerTyped DEF Init, Handlers
<1>3. out \in [Players -> Seq(AnswerType)] /\ \A p \in Players : Len(out[p]) <= ChanCap
  BY AccountsAssumption DEF Init
<1>4. QED
  BY <1>1, <1>2, <1>3 DEF Typed, PlayersTyped

\* The steps outside the handlers.
LEMMA ServerTyped ==
  ASSUME Typed, SetupStart \/ CreateTable \/ InsertGamemodes \/ SetupCut
                  \/ ServerStart \/ ServerStop
  PROVE  Typed'
<1> USE DEF Typed, players, store, history
<1>1. CASE ServerStop
  <2>1. StoreTyped'
    BY <1>1 DEF ServerStop, StoreTyped
  <2>2. /\ out' = [p \in Players |-> << >>] /\ << >> \in Seq(AnswerType)
        /\ Len(<< >>) <= ChanCap
    BY <1>1, AccountsAssumption DEF ServerStop
  <2>3. PlayersTyped'
    BY <1>1, <2>2, NoPlayerTyped DEF ServerStop, PlayersTyped, Handlers
  <2>4. QED
    BY <2>1, <2>3
<1>2. CASE ServerStart
  BY <1>2 DEF ServerStart, StoreTyped, PlayersTyped
<1>3. CASE SetupStart
  <2>1. requests' \in Requests
    BY <1>3, CountTyped DEF SetupStart, StoreTyped
  <2>2. QED
    BY <1>3, <2>1 DEF SetupStart, StoreTyped, PlayersTyped
<1>4. CASE CreateTable \/ InsertGamemodes \/ SetupCut
  BY <1>4 DEF CreateTable, InsertGamemodes, SetupCut, StoreTyped, PlayersTyped
<1>5. QED
  BY <1>1, <1>2, <1>3, <1>4

LEMMA ConnTyped ==
  ASSUME Typed, NEW p \in Players, Accept(p) \/ Leave(p) \/ Receive(p)
  PROVE  Typed'
<1>1. StoreTyped'
  BY DEF Accept, Leave, Receive, store, history, Typed, StoreTyped
<1>2. CASE Accept(p)
  <2>1. << >> \in Seq(AnswerType) /\ Len(<< >>) <= ChanCap
    BY AccountsAssumption
  <2>2. PlayersTyped'
    BY <1>2, <2>1, NoPlayerTyped DEF Accept, Typed, PlayersTyped
  <2>3. QED
    BY <1>1, <2>2 DEF Typed
<1>3. CASE Leave(p)
  BY <1>1, <1>3 DEF Leave, Typed, PlayersTyped
<1>4. CASE Receive(p)
  <2>1. out[p] \in Seq(AnswerType) /\ out[p] # << >> /\ Len(out[p]) <= ChanCap
    BY <1>4 DEF Receive, Typed, PlayersTyped
  <2>2. /\ Head(out[p]) \in AnswerType /\ Tail(out[p]) \in Seq(AnswerType)
        /\ Len(Tail(out[p])) <= ChanCap
    BY <2>1, AccountsAssumption
  <2>3. Head(out[p]).player \in PlayerType
    BY <2>2 DEF AnswerType
  <2>4. PlayersTyped'
    BY <1>4, <2>2, <2>3 DEF Receive, Typed, PlayersTyped
  <2>5. QED
    BY <1>1, <2>4 DEF Typed
<1>5. QED
  BY <1>2, <1>3, <1>4

\* A step that changes the handler of p, and may end its connection.
LEMMA GotoTyped ==
  ASSUME PlayersTyped, NEW p \in Players, NEW h \in Handlers, Goto(p, h),
         \/ connected' = connected
         \/ connected' = [connected EXCEPT ![p] = FALSE],
         UNCHANGED <<serving, authenticated, info, out, half>>
  PROVE  PlayersTyped'
BY DEF PlayersTyped, Goto

LEMMA ReadTyped ==
  ASSUME Typed, NEW p \in Players, ReadRegister(p) \/ ReadLogin(p)
  PROVE  Typed'
<1>1. StoreTyped'
  <2>1. requests' \in Requests
    BY CountTyped DEF ReadRegister, ReadLogin, Typed, StoreTyped
  <2>2. QED
    BY <2>1 DEF ReadRegister, ReadLogin, store, history, Typed, StoreTyped
<1>2. \A name \in Names, password \in Passwords :
        /\ [pc |-> "hash", name |-> name, password |-> password] \in Handlers
        /\ \A due \in BOOLEAN :
             [pc |-> "find", name |-> name, password |-> password, due |-> due] \in Handlers
  BY DEF Handlers, Registering, Finding
<1>3. PICK h \in Handlers : Goto(p, h)
  <2>1. CASE ReadRegister(p)
    <3>1. PICK name \in Names, password \in Passwords :
            Goto(p, [pc |-> "hash", name |-> name, password |-> password])
      BY <2>1 DEF ReadRegister
    <3>2. QED
      BY <1>2, <3>1
  <2>2. CASE ReadLogin(p)
    <3>1. PICK name \in Names, password \in Passwords :
            Goto(p, [pc |-> "find", name |-> name, password |-> password,
                     due |-> <<name, password>> \in registered])
      BY <2>2 DEF ReadLogin
    <3>2. (<<name, password>> \in registered) \in BOOLEAN
      OBVIOUS
    <3>3. QED
      BY <1>2, <3>1, <3>2
  <2>3. QED
    BY <2>1, <2>2
<1>4. PlayersTyped'
  BY <1>3, GotoTyped DEF ReadRegister, ReadLogin, Typed
<1>5. QED
  BY <1>1, <1>4 DEF Typed

LEMMA RegisterTyped ==
  ASSUME Typed, NEW p \in Players, HashPassword(p) \/ Insert(p) \/ InsertFails(p)
  PROVE  Typed'
<1>1. handler[p] \in Registering
  BY HandlerFields DEF HashPassword, Insert, InsertFails, Typed, PlayersTyped
<1>2. PICK h \in Handlers : Goto(p, h)
  BY <1>1 DEF HashPassword, Insert, InsertFails, Fails, Handlers, Registering
<1>3. PlayersTyped'
  BY <1>2, GotoTyped DEF HashPassword, Insert, InsertFails, Fails, Typed
<1>4. CASE Insert(p)
  <2>1. /\ Row(handler[p]) \in RowType
        /\ <<handler[p].name, handler[p].password>> \in Names \X Passwords
    BY <1>1 DEF Row, RowType, Registering
  <2>2. rows' = Append(rows, Row(handler[p])) /\ rows \in Seq(RowType)
    BY <1>4 DEF Insert, CreatePlayer, Typed, StoreTyped
  <2>3. rows' \in Seq(RowType)
    BY <2>1, <2>2
  <2>4. StoreTyped'
    BY <1>4, <2>1, <2>3 DEF Insert, Typed, StoreTyped
  <2>5. QED
    BY <1>3, <2>4 DEF Typed
<1>5. CASE HashPassword(p) \/ InsertFails(p)
  <2>1. requests' \in Requests
    BY <1>5, CountTyped DEF HashPassword, InsertFails, Typed, StoreTyped
  <2>2. StoreTyped'
    BY <1>5, <2>1 DEF HashPassword, InsertFails, store, history, Typed, StoreTyped
  <2>3. QED
    BY <1>3, <2>2 DEF Typed
<1>6. QED
  BY <1>4, <1>5

LEMMA RowsOfIndex ==
  ASSUME StoreTyped, NEW name, NEW i \in RowsOf(name)
  PROVE  i \in Nat \ {0} /\ i \in DOMAIN rows /\ rows[i] \in RowType /\ rows[i].name = name
BY DEF RowsOf, StoreTyped

LEMMA PlayerOfTyped ==
  ASSUME NEW h \in Comparing
  PROVE  PlayerOf(h) \in PlayerType /\ PlayerOf(h).id \in Nat
<1>1. h.id \in Nat /\ IdSpace \in Nat /\ IdSpace > 0
  BY AccountsAssumption DEF Comparing
<1>2. h.id % IdSpace \in 0 .. IdSpace - 1
  BY <1>1
<1>3. h.row.name \in Names
  BY DEF Comparing, RowType
<1>4. QED
  BY <1>2, <1>3 DEF PlayerOf, PlayerId, PlayerType

LEMMA LoginTyped ==
  ASSUME Typed, NEW p \in Players, Find(p) \/ FindFails(p) \/ Compare(p) \/ SendAnswer(p)
  PROVE  Typed'
<1>1. handler[p] \in Handlers
  BY DEF Typed, PlayersTyped
<1>2. \A due \in BOOLEAN :
        [pc |-> "answer", due |-> due, answer |-> Answer(FALSE, NoPlayer)] \in Handlers
  BY NoPlayerTyped DEF Handlers, Answering, Answer, AnswerType
<1>3. CASE Find(p) \/ FindFails(p)
  <2>1. handler[p] \in Finding
    BY <1>1, <1>3, HandlerFields DEF Find, FindFails
  <2>2. \A i \in RowsOf(handler[p].name) :
          [pc |-> "compare", name |-> handler[p].name, password |-> handler[p].password,
           due |-> handler[p].due, id |-> i, row |-> rows[i]] \in Handlers
    BY <2>1, RowsOfIndex DEF Finding, Comparing, Handlers, Typed
  <2>3. PICK h \in Handlers : Goto(p, h)
    BY <1>2, <1>3, <2>1, <2>2 DEF Find, FindFails, Finding
  <2>4. PlayersTyped'
    BY <1>3, <2>3, GotoTyped DEF Find, FindFails, Typed
  <2>5. requests' \in Requests
    BY <1>3, CountTyped DEF Find, FindFails, Typed, StoreTyped
  <2>6. StoreTyped'
    BY <1>3, <2>5 DEF Find, FindFails, store, history, Typed, StoreTyped
  <2>7. QED
    BY <2>4, <2>6 DEF Typed
<1>4. CASE Compare(p)
  <2> DEFINE h == handler[p]
  <2>1. h \in Comparing
    BY <1>1, <1>4, HandlerFields DEF Compare
  <2>2. PlayerOf(h) \in PlayerType /\ PlayerOf(h).id \in Nat
    BY <2>1, PlayerOfTyped
  <2>3. RightPassword(h) \in BOOLEAN
    BY DEF RightPassword
  <2>4. [pc |-> "answer", due |-> h.due,
         answer |-> IF RightPassword(h) THEN Answer(TRUE, PlayerOf(h))
                                        ELSE Answer(FALSE, NoPlayer)] \in Handlers
    BY <2>1, <2>2, NoPlayerTyped DEF Comparing, Handlers, Answering, Answer, AnswerType
  <2>5. StoreTyped'
    BY <1>4, <2>1, <2>2 DEF Compare, store, Typed, StoreTyped, Comparing
  <2>6. PlayersTyped'
    BY <1>4, <2>2, <2>3, <2>4 DEF Compare, Goto, InfoAfter, Typed, PlayersTyped
  <2>7. QED
    BY <2>5, <2>6 DEF Typed
<1>5. CASE SendAnswer(p)
  <2>1. handler[p].answer \in AnswerType
    BY <1>1, <1>5, HandlerFields DEF SendAnswer, Answering
  <2>2. StoreTyped'
    BY <1>5 DEF SendAnswer, store, history, Typed, StoreTyped
  <2>3. CASE Room(p)
    <3>1. Append(out[p], handler[p].answer) \in Seq(AnswerType)
      BY <2>1 DEF Typed, PlayersTyped
    <3>2. Len(Append(out[p], handler[p].answer)) <= ChanCap
      BY <2>1, <2>3, AccountsAssumption DEF Room, Typed, PlayersTyped
    <3>3. PlayersTyped'
      BY <1>5, <2>3, <3>1, <3>2 DEF SendAnswer, Goto, Typed, PlayersTyped, Handlers
    <3>4. QED
      BY <2>2, <3>3 DEF Typed
  <2>4. CASE ~Room(p)
    <3>1. PlayersTyped'
      BY <1>5, <2>4, GotoTyped DEF SendAnswer, Fails, Typed, Handlers
    <3>2. QED
      BY <2>2, <3>1 DEF Typed
  <2>5. QED
    BY <2>3, <2>4
<1>6. QED
  BY <1>3, <1>4, <1>5

LEMMA NextTyped == Typed /\ [Next]_vars => Typed'
<1> SUFFICES ASSUME Typed, [Next]_vars PROVE Typed'
  OBVIOUS
<1>1. CASE UNCHANGED vars
  BY <1>1 DEF vars, store, players, history, Typed, StoreTyped, PlayersTyped
<1>2. CASE Next
  BY <1>2, ServerTyped, ConnTyped, ReadTyped, RegisterTyped, LoginTyped DEF Next, Handle
<1>3. QED
  BY <1>1, <1>2
-----------------------------------------------------------------------------
(***************************************************************************)
(* The creation of the tables.                                             *)
(***************************************************************************)
\* What was executed before setup.todo, and before setup.left, is there.
Creating ==
  \/ setup.todo = Ddl
  \/ setup.todo = <<"matches", "gamemodes", "match_players">> /\ "players" \in tables
  \/ setup.todo = <<"gamemodes", "match_players">> /\ {"players", "matches"} \subseteq tables
  \/ setup.todo = <<"match_players">> /\ {"players", "matches", "gamemodes"} \subseteq tables

DdlTables == {"players", "matches", "gamemodes", "match_players"}

SetupInv ==
  /\ setup.pc \in {"off", "create", "modes", "done"}
  /\ tables \subseteq DdlTables /\ modes \subseteq GameModes
  /\ setup.pc = "create" => setup = [pc |-> "create", todo |-> setup.todo] /\ Creating
  /\ setup.pc = "modes" =>
       /\ setup = [pc |-> "modes", left |-> setup.left]
       /\ tables = DdlTables
       /\ setup.left # {} /\ setup.left \subseteq GameModes
       /\ GameModes \ setup.left \subseteq modes
  /\ setup.pc = "done" => tables = DdlTables /\ modes = GameModes

LEMMA AllTables == ToSet(Ddl) = DdlTables
BY DEF ToSet, Ddl, DdlTables

LEMMA InitSetup == Init => SetupInv
BY DEF Init, SetupInv, DdlTables, GameModes

LEMMA CreateTableSetup == SetupInv /\ CreateTable => SetupInv'
<1> SUFFICES ASSUME SetupInv, CreateTable PROVE SetupInv'
  OBVIOUS
<1>1. /\ setup.pc = "create" /\ setup = [pc |-> "create", todo |-> setup.todo] /\ Creating
      /\ tables \subseteq DdlTables /\ modes \subseteq GameModes /\ modes' = modes
  BY DEF SetupInv, CreateTable
<1> DEFINE table == Head(setup.todo)
<1>2. CASE table \in tables
  <2>1. setup' = [pc |-> "off"] /\ tables' = tables
    BY <1>2 DEF CreateTable, AfterError, Fatal
  <2>2. QED
    BY <1>1, <2>1 DEF SetupInv
<1>3. CASE table \notin tables
  <2>1. /\ tables' = tables \cup {table}
        /\ setup' = IF Len(setup.todo) > 1 THEN [setup EXCEPT !.todo = Tail(@)]
                                           ELSE [pc |-> "modes", left |-> GameModes]
    BY <1>3 DEF CreateTable
  <2>2. CASE setup.todo = Ddl
    <3>1. /\ table = "players" /\ Len(setup.todo) > 1
          /\ Tail(setup.todo) = <<"matches", "gamemodes", "match_players">>
      BY <2>2 DEF Ddl
    <3>2. setup' = [pc |-> "create", todo |-> <<"matches", "gamemodes", "match_players">>]
      BY <1>1, <2>1, <3>1
    <3>3. QED
      BY <1>1, <2>1, <3>1, <3>2 DEF SetupInv, Creating, DdlTables
  <2>3. CASE setup.todo = <<"matches", "gamemodes", "match_players">> /\ "players" \in tables
    <3>1. /\ table = "matches" /\ Len(setup.todo) > 1
          /\ Tail(setup.todo) = <<"gamemodes", "match_players">>
      BY <2>3
    <3>2. setup' = [pc |-> "create", todo |-> <<"gamemodes", "match_players">>]
      BY <1>1, <2>1, <3>1
    <3>3. QED
      BY <1>1, <2>1, <2>3, <3>1, <3>2 DEF SetupInv, Creating, DdlTables
  <2>4. CASE /\ setup.todo = <<"gamemodes", "match_players">>
             /\ {"players", "matches"} \subseteq tables
    <3>1. /\ table = "gamemodes" /\ Len(setup.todo) > 1
          /\ Tail(setup.todo) = <<"match_players">>
      BY <2>4
    <3>2. setup' = [pc |-> "create", todo |-> <<"match_players">>]
      BY <1>1, <2>1, <3>1
    <3>3. QED
      BY <1>1, <2>1, <2>4, <3>1, <3>2 DEF SetupInv, Creating, DdlTables
  <2>5. CASE /\ setup.todo = <<"match_players">>
             /\ {"players", "matches", "gamemodes"} \subseteq tables
    <3>1. table = "match_players" /\ ~(Len(setup.todo) > 1)
      BY <2>5
    <3>2. setup' = [pc |-> "modes", left |-> GameModes]
      BY <2>1, <3>1
    <3>3. QED
      BY <1>1, <2>1, <2>5, <3>1, <3>2 DEF SetupInv, DdlTables, GameModes
  <2>6. QED
    BY <1>1, <2>2, <2>3, <2>4, <2>5 DEF Creating
<1>4. QED
  BY <1>2, <1>3

LEMMA InsertSetup == SetupInv /\ InsertGamemodes => SetupInv'
<1> SUFFICES ASSUME SetupInv, InsertGamemodes PROVE SetupInv'
  OBVIOUS
<1>1. /\ setup.pc = "modes" /\ setup = [pc |-> "modes", left |-> setup.left]
      /\ tables = DdlTables /\ tables' = tables
      /\ setup.left \subseteq GameModes /\ GameModes \ setup.left \subseteq modes
      /\ modes \subseteq GameModes
  BY DEF SetupInv, InsertGamemodes
<1>2. PICK mode \in setup.left :
        /\ modes' = modes \cup {mode}
        /\ setup' = IF setup.left = {mode} THEN [pc |-> "done"]
                                           ELSE [setup EXCEPT !.left = @ \ {mode}]
  BY <1>1 DEF InsertGamemodes, DdlTables
<1>3. CASE setup.left = {mode}
  BY <1>1, <1>2, <1>3 DEF SetupInv
<1>4. CASE setup.left # {mode}
  <2>1. setup' = [pc |-> "modes", left |-> setup.left \ {mode}]
    BY <1>1, <1>2, <1>4
  <2>2. QED
    BY <1>1, <1>2, <1>4, <2>1 DEF SetupInv
<1>5. QED
  BY <1>3, <1>4

LEMMA NextSetup == SetupInv /\ [Next]_vars => SetupInv'
<1> SUFFICES ASSUME SetupInv, [Next]_vars PROVE SetupInv'
  OBVIOUS
<1>1. CASE UNCHANGED <<setup, tables, modes>>
  BY <1>1 DEF SetupInv, Creating
<1>2. CASE SetupStart
  <2>1. setup' = [pc |-> "create", todo |-> Ddl] /\ UNCHANGED <<tables, modes>>
    BY <1>2 DEF SetupStart, store
  <2>2. QED
    BY <2>1 DEF SetupInv, Creating
<1>3. CASE SetupCut
  BY <1>3 DEF SetupCut, Fatal, store, SetupInv
<1>4. CASE CreateTable
  BY <1>4, CreateTableSetup
<1>5. CASE InsertGamemodes
  BY <1>5, InsertSetup
<1>6. CASE ServerStart \/ ServerStop
  BY <1>1, <1>6 DEF ServerStart, ServerStop, store
<1>7. ASSUME NEW p \in Players,
             Accept(p) \/ Leave(p) \/ Receive(p) \/ ReadRegister(p) \/ ReadLogin(p) \/ Handle(p)
      PROVE  SetupInv'
  BY <1>1, <1>7 DEF Accept, Leave, Receive, ReadRegister, ReadLogin, Handle, HashPassword, Insert,
                    InsertFails, Find, FindFails, Compare, SendAnswer, store
<1>8. QED
  BY <1>1, <1>2, <1>3, <1>4, <1>5, <1>6, <1>7 DEF Next, vars, store

\* cmd/db reports success only for a database that is complete, whatever
\* became of its earlier runs.
THEOREM SetupCorrect == Spec => []SetupHonest
<1>1. SetupInv => SetupHonest
  BY AllTables DEF SetupInv, SetupHonest
<1>2. QED
  BY <1>1, InitSetup, NextSetup, PTL DEF Spec

\* Every variable keeps its type.
THEOREM TypeCorrect == Spec => []TypeOK
<1>1. Typed /\ SetupInv => TypeOK
  <2> SUFFICES ASSUME Typed, SetupInv PROVE TypeOK
    OBVIOUS
  <2>1. \A p \in Players :
          handler[p].pc \in {"idle", "hash", "insert", "find", "compare", "answer"}
    BY HandlerFields DEF Typed, PlayersTyped
  <2>2. QED
    BY <2>1, AllTables DEF Typed, StoreTyped, PlayersTyped, SetupInv, RowType, TypeOK
<1>2. QED
  BY <1>1, InitTyped, NextTyped, InitSetup, NextSetup, PTL DEF Spec
-----------------------------------------------------------------------------
(***************************************************************************)
(* The players' ids: every row was asked for by a message of its own, so   *)
(* there are fewer rows than ids, and PlayerId does not wrap.              *)
(***************************************************************************)
Pending == {p \in Players : handler[p].pc \in {"hash", "insert"}}

Few ==
  /\ IsFiniteSet(Pending)
  /\ Len(rows) + Cardinality(Pending) <= requests.messages
  /\ requests.messages <= MaxRequests

LEMMA InitFew == Init => Few
<1> SUFFICES ASSUME Init PROVE Few
  OBVIOUS
<1>1. Pending = {}
  BY DEF Init, Pending, Idle
<1>2. QED
  BY <1>1, FS_EmptySet, AccountsAssumption DEF Init, Few

\* Fewer handlers may come to insert a row, and more messages were read.
LEMMA FewerPending ==
  ASSUME Typed, Few, Pending' \subseteq Pending, UNCHANGED rows,
         requests.messages = requests'.messages
  PROVE  Few'
<1>1. IsFiniteSet(Pending') /\ Cardinality(Pending') <= Cardinality(Pending)
  BY FS_Subset DEF Few
<1>2. Cardinality(Pending) \in Nat /\ Cardinality(Pending') \in Nat
  BY <1>1, FS_CardinalityType DEF Few
<1>3. Len(rows) \in Nat /\ requests.messages \in Nat
  BY DEF Typed, StoreTyped, Requests
<1>4. QED
  BY <1>1, <1>2, <1>3 DEF Few

LEMMA NextFew == Typed /\ Few /\ [Next]_vars => Few'
<1> SUFFICES ASSUME Typed, Few, [Next]_vars PROVE Few'
  OBVIOUS
<1> USE DEF store, players, history
<1>0. /\ IsFiniteSet(Pending) /\ Cardinality(Pending) \in Nat
      /\ rows \in Seq(RowType) /\ Len(rows) \in Nat
      /\ requests \in Requests /\ requests.messages \in Nat
      /\ MaxRequests \in Nat
      /\ handler \in [Players -> Handlers]
  BY FS_CardinalityType, AccountsAssumption DEF Few, Typed, StoreTyped, PlayersTyped, Requests
<1>1. CASE UNCHANGED <<rows, requests, handler>>
  <2>1. Pending' = Pending
    BY <1>1 DEF Pending
  <2>2. QED
    BY <1>1, <2>1, FewerPending
<1>2. CASE SetupStart
  <2>1. requests'.messages = requests.messages
    BY <1>0, <1>2, CountTyped DEF SetupStart
  <2>2. Pending' = Pending /\ UNCHANGED rows
    BY <1>2 DEF SetupStart, Pending
  <2>3. QED
    BY <2>1, <2>2, FewerPending
<1>3. CASE ServerStop
  <2>1. Pending' = {} /\ UNCHANGED <<rows, requests>>
    BY <1>3 DEF ServerStop, Pending, Idle
  <2>2. QED
    BY <2>1, FewerPending
<1>4. CASE CreateTable \/ InsertGamemodes \/ SetupCut \/ ServerStart
  BY <1>1, <1>4 DEF CreateTable, InsertGamemodes, SetupCut, ServerStart
<1>5. ASSUME NEW p \in Players, Accept(p) \/ Leave(p) \/ Receive(p)
      PROVE  Few'
  BY <1>1, <1>5 DEF Accept, Leave, Receive
<1>6. ASSUME NEW p \in Players, ReadRegister(p) PROVE Few'
  <2>1. /\ requests.messages < MaxRequests
        /\ requests'.messages = requests.messages + 1
    BY <1>0, <1>6, CountTyped DEF ReadRegister
  <2>2. p \notin Pending
    BY <1>6 DEF ReadRegister, Pending, Idle
  <2>3. Pending' = Pending \cup {p}
    BY <1>0, <1>6 DEF ReadRegister, Goto, Pending
  <2>4. IsFiniteSet(Pending') /\ Cardinality(Pending') = Cardinality(Pending) + 1
    BY <1>0, <2>2, <2>3, FS_AddElement
  <2>5. rows' = rows
    BY <1>6 DEF ReadRegister
  <2>6. QED
    BY <1>0, <2>1, <2>4, <2>5 DEF Few
<1>7. ASSUME NEW p \in Players, ReadLogin(p) PROVE Few'
  <2>1. /\ requests.messages < MaxRequests
        /\ requests'.messages = requests.messages + 1
    BY <1>0, <1>7, CountTyped DEF ReadLogin
  <2>2. Pending' = Pending /\ rows' = rows
    BY <1>0, <1>7 DEF ReadLogin, Goto, Pending, Idle
  <2>3. QED
    BY <1>0, <2>1, <2>2 DEF Few
<1>8. ASSUME NEW p \in Players, Insert(p) PROVE Few'
  <2>1. p \in Pending
    BY <1>8 DEF Insert, Pending
  <2>2. Pending' = Pending \ {p}
    BY <1>0, <1>8 DEF Insert, Goto, Pending, Idle
  <2>3. IsFiniteSet(Pending') /\ Cardinality(Pending') = Cardinality(Pending) - 1
    BY <1>0, <2>1, <2>2, FS_RemoveElement
  <2>4. rows' = Append(rows, Row(handler[p])) /\ requests' = requests
    BY <1>8 DEF Insert, CreatePlayer
  <2>5. Len(rows') = Len(rows) + 1
    BY <1>0, <2>4
  <2>6. QED
    BY <1>0, <2>3, <2>4, <2>5 DEF Few
<1>9. ASSUME NEW p \in Players,
             \/ HashPassword(p) \/ InsertFails(p) \/ Find(p) \/ FindFails(p)
             \/ Compare(p) \/ SendAnswer(p)
      PROVE  Few'
  <2>1. Pending' \subseteq Pending
    <3>1. CASE p \in Pending
      <4>1. \A q \in Players \ {p} : handler'[q] = handler[q]
        BY <1>0, <1>9 DEF HashPassword, InsertFails, Find, FindFails, Compare, SendAnswer,
                          Fails, Goto
      <4>2. QED
        BY <3>1, <4>1 DEF Pending
    <3>2. CASE p \notin Pending
      <4>1. ~HashPassword(p)
        BY <3>2 DEF HashPassword, Pending
      <4>2. PICK h : Goto(p, h) /\ h.pc \in {"idle", "compare", "answer"}
        <5>1. CASE InsertFails(p) \/ SendAnswer(p)
          BY <5>1 DEF InsertFails, SendAnswer, Fails, Idle
        <5>2. CASE Find(p)
          <6>1. CASE \E i \in RowsOf(handler[p].name) :
                  Goto(p, [pc |-> "compare", name |-> handler[p].name,
                           password |-> handler[p].password, due |-> handler[p].due,
                           id |-> i, row |-> rows[i]])
            BY <6>1
          <6>2. CASE Goto(p, [pc |-> "answer", due |-> handler[p].due,
                              answer |-> Answer(FALSE, NoPlayer)])
            BY <6>2
          <6>3. QED
            BY <5>2, <6>1, <6>2 DEF Find
        <5>3. CASE FindFails(p)
          BY <5>3 DEF FindFails
        <5>4. CASE Compare(p)
          BY <5>4 DEF Compare
        <5>5. QED
          BY <1>9, <4>1, <5>1, <5>2, <5>3, <5>4
      <4>3. QED
        BY <1>0, <4>2 DEF Goto, Pending
    <3>3. QED
      BY <3>1, <3>2
  <2>2. UNCHANGED rows
    BY <1>9 DEF HashPassword, InsertFails, Find, FindFails, Compare, SendAnswer
  <2>3. requests'.messages = requests.messages
    BY <1>0, <1>9, CountTyped
    DEF HashPassword, InsertFails, Find, FindFails, Compare, SendAnswer
  <2>4. QED
    BY <2>1, <2>2, <2>3, FewerPending
<1>10. QED
  BY <1>1, <1>2, <1>3, <1>4, <1>5, <1>6, <1>7, <1>8, <1>9 DEF Next, Handle, vars

LEMMA IdsFit ==
  ASSUME Typed, Few, NEW i \in DOMAIN rows
  PROVE  PlayerId(i) = i /\ i > 0
<1>1. /\ rows \in Seq(RowType) /\ Len(rows) \in Nat /\ requests.messages \in Nat
      /\ Cardinality(Pending) \in Nat
  BY FS_CardinalityType DEF Few, Typed, StoreTyped, Requests
<1>2. i \in Nat /\ i > 0 /\ i < IdSpace /\ IdSpace \in Nat
  BY <1>1, AccountsAssumption DEF Few
<1>3. i % IdSpace = i
  BY <1>2
<1>4. QED
  BY <1>2, <1>3 DEF PlayerId
-----------------------------------------------------------------------------
(***************************************************************************)
(* The rows and what the histories say of them.                            *)
(***************************************************************************)
Account(name, password) == [name |-> name, password |-> password]

Books ==
  /\ rows # << >> => "players" \in tables
  /\ \A i, j \in DOMAIN rows : rows[i].name = rows[j].name => i = j
  /\ \A name \in Names, password \in Passwords :
       <<name, password>> \in registered => \E i \in DOMAIN rows : rows[i] = Account(name, password)
  /\ \A x \in loggedIn : x.id \in DOMAIN rows /\ rows[x.id] = Account(x.name, x.password)

\* What a login has found out before it compares the passwords.
Lookup(p) ==
  LET h == handler[p] IN
  /\ h.pc = "find" => (h.due => <<h.name, h.password>> \in registered)
  /\ h.pc = "compare" =>
       /\ h.id \in DOMAIN rows /\ h.row = rows[h.id] /\ h.row.name = h.name
       /\ h.due => <<h.name, h.password>> \in registered
  /\ h.pc = "answer" => (h.due => h.answer.success)

BooksInv == Books /\ \A p \in Players : Lookup(p)

LEMMA InitBooks == Init => BooksInv
BY DEF Init, BooksInv, Books, Lookup, Idle

LEMMA BooksKept ==
  ASSUME Books, UNCHANGED <<rows, registered, loggedIn>>, tables \subseteq tables'
  PROVE  Books'
BY DEF Books, Account

\* The handlers of the others still have what they found.
LEMMA LookupKept ==
  ASSUME Typed, NEW q \in Players, Lookup(q), handler'[q] = handler[q],
         registered \subseteq registered',
         \A i \in DOMAIN rows : i \in DOMAIN rows' /\ rows'[i] = rows[i]
  PROVE  Lookup(q)'
BY DEF Lookup

LEMMA InsertBooks ==
  ASSUME Typed, BooksInv, NEW p \in Players, Insert(p)
  PROVE  BooksInv'
<1> DEFINE h == handler[p]
<1>1. h \in Registering /\ h.name \in Names /\ h.password \in Passwords
  BY HandlerFields DEF Insert, Typed, PlayersTyped, Registering
<1>2. /\ "players" \in tables /\ tables' = tables /\ loggedIn' = loggedIn
      /\ RowsOf(h.name) = {} /\ rows' = Append(rows, Row(h))
      /\ registered' = registered \cup {<<h.name, h.password>>}
      /\ handler' = [handler EXCEPT ![p] = Idle]
  BY DEF Insert, CreatePlayer, Goto
<1>3. /\ rows \in Seq(RowType) /\ Len(rows) \in Nat
      /\ handler \in [Players -> Handlers]
      /\ loggedIn \subseteq [name : Names, password : Passwords, id : Nat]
  BY DEF Typed, StoreTyped, PlayersTyped
<1>4. Row(h) \in RowType /\ Row(h).name = h.name /\ Row(h) = Account(h.name, h.password)
  BY <1>1 DEF Row, RowType, Account
<1>5. /\ DOMAIN rows' = DOMAIN rows \cup {Len(rows) + 1}
      /\ \A i \in DOMAIN rows : rows'[i] = rows[i]
      /\ rows'[Len(rows) + 1] = Row(h)
      /\ Len(rows) + 1 \notin DOMAIN rows
  BY <1>2, <1>3, <1>4
<1>6. \A i \in DOMAIN rows : rows[i].name # h.name
  BY <1>2 DEF RowsOf
<1>7. Books'
  <2>1. \A i, j \in DOMAIN rows' : rows'[i].name = rows'[j].name => i = j
    BY <1>4, <1>5, <1>6 DEF BooksInv, Books
  <2>2. \A name \in Names, password \in Passwords :
          <<name, password>> \in registered' =>
            \E i \in DOMAIN rows' : rows'[i] = Account(name, password)
    <3> SUFFICES ASSUME NEW name \in Names, NEW password \in Passwords,
                        <<name, password>> \in registered'
                 PROVE  \E i \in DOMAIN rows' : rows'[i] = Account(name, password)
      OBVIOUS
    <3>1. CASE <<name, password>> \in registered
      <4>1. PICK i \in DOMAIN rows : rows[i] = Account(name, password)
        BY <3>1 DEF BooksInv, Books
      <4>2. QED
        BY <1>5, <4>1
    <3>2. CASE name = h.name /\ password = h.password
      BY <1>4, <1>5, <3>2
    <3>3. QED
      BY <1>2, <3>1, <3>2
  <2>3. \A x \in loggedIn' : x.id \in DOMAIN rows' /\ rows'[x.id] = Account(x.name, x.password)
    BY <1>2, <1>5 DEF BooksInv, Books
  <2>4. QED
    BY <1>2, <2>1, <2>2, <2>3 DEF Books, Account
<1>8. \A q \in Players : Lookup(q)'
  <2> SUFFICES ASSUME NEW q \in Players PROVE Lookup(q)'
    OBVIOUS
  <2>1. CASE q = p
    <3>1. handler'[q] = Idle
      BY <1>2, <1>3, <2>1
    <3>2. QED
      BY <3>1 DEF Lookup, Idle
  <2>2. CASE q # p
    <3>1. handler'[q] = handler[q] /\ registered \subseteq registered'
      BY <1>2, <1>3, <2>2
    <3>2. QED
      BY <1>5, <3>1, LookupKept DEF BooksInv
  <2>3. QED
    BY <2>1, <2>2
<1>9. QED
  BY <1>7, <1>8 DEF BooksInv

\* A step of p's handler that changes no row.
LEMMA HandlerBooks ==
  ASSUME Typed, BooksInv, NEW p \in Players, NEW h, Goto(p, h),
         UNCHANGED <<tables, rows, registered>>, Books', Lookup(p)'
  PROVE  BooksInv'
<1>1. ASSUME NEW q \in Players, q # p PROVE Lookup(q)'
  <2>1. handler'[q] = handler[q]
    BY <1>1 DEF Goto, Typed, PlayersTyped
  <2>2. QED
    BY <2>1, LookupKept DEF BooksInv
<1>2. QED
  BY <1>1 DEF BooksInv

LEMMA FindBooks ==
  ASSUME Typed, BooksInv, NEW p \in Players, Find(p)
  PROVE  BooksInv'
<1> DEFINE h == handler[p]
           found == IF "players" \in tables THEN RowsOf(h.name) ELSE {}
<1>1. h \in Finding /\ h.name \in Names /\ h.password \in Passwords
  BY HandlerFields DEF Find, Typed, PlayersTyped, Finding
<1>2. UNCHANGED <<tables, rows, registered, loggedIn>> /\ handler \in [Players -> Handlers]
  BY DEF Find, store, history, Typed, PlayersTyped
<1>3. Books'
  BY <1>2, BooksKept DEF BooksInv
<1>4. h.due => <<h.name, h.password>> \in registered
  BY DEF BooksInv, Lookup, Find
<1>5. ASSUME NEW i \in found,
             Goto(p, [pc |-> "compare", name |-> h.name, password |-> h.password,
                      due |-> h.due, id |-> i, row |-> rows[i]])
      PROVE  BooksInv'
  <2>1. i \in DOMAIN rows /\ rows[i].name = h.name
    BY <1>5 DEF RowsOf
  <2>2. handler'[p] = [pc |-> "compare", name |-> h.name, password |-> h.password,
                       due |-> h.due, id |-> i, row |-> rows[i]]
    BY <1>2, <1>5 DEF Goto
  <2>3. Lookup(p)'
    BY <1>2, <1>4, <2>1, <2>2 DEF Lookup
  <2>4. QED
    BY <1>2, <1>3, <1>5, <2>3, HandlerBooks
<1>6. ASSUME found = {},
             Goto(p, [pc |-> "answer", due |-> h.due, answer |-> Answer(FALSE, NoPlayer)])
      PROVE  BooksInv'
  <2>1. ~h.due
    <3> SUFFICES ASSUME h.due PROVE FALSE
      OBVIOUS
    <3>1. PICK i \in DOMAIN rows : rows[i] = Account(h.name, h.password)
      BY <1>1, <1>4 DEF BooksInv, Books
    <3>2. rows # << >>
      BY <3>1
    <3>3. i \in found
      BY <3>1, <3>2 DEF BooksInv, Books, RowsOf, Account
    <3>4. QED
      BY <1>6, <3>3
  <2>2. handler'[p] = [pc |-> "answer", due |-> h.due, answer |-> Answer(FALSE, NoPlayer)]
    BY <1>2, <1>6 DEF Goto
  <2>3. h.due = FALSE
    BY <1>1, <2>1 DEF Finding
  <2>4. handler'[p].pc = "answer" /\ handler'[p].due = FALSE
    BY <2>2, <2>3
  <2>5. Lookup(p)'
    BY <2>4 DEF Lookup
  <2>6. QED
    BY <1>2, <1>3, <1>6, <2>5, HandlerBooks
<1>7. QED
  BY <1>5, <1>6 DEF Find

LEMMA CompareBooks ==
  ASSUME Typed, Few, BooksInv, NEW p \in Players, Compare(p)
  PROVE  BooksInv'
<1> DEFINE h == handler[p]
           answer == IF RightPassword(h) THEN Answer(TRUE, PlayerOf(h)) ELSE Answer(FALSE, NoPlayer)
<1>1. h \in Comparing /\ h.name \in Names /\ h.password \in Passwords
  BY HandlerFields DEF Compare, Typed, PlayersTyped, Comparing
<1>2. /\ UNCHANGED <<tables, rows, registered>> /\ handler \in [Players -> Handlers]
      /\ Goto(p, [pc |-> "answer", due |-> h.due, answer |-> answer])
  BY DEF Compare, store, Typed, PlayersTyped
<1>3. /\ h.id \in DOMAIN rows /\ h.row = rows[h.id] /\ h.row.name = h.name
      /\ h.due => <<h.name, h.password>> \in registered
  BY DEF BooksInv, Lookup, Compare
<1>4. PlayerOf(h).id = h.id
  BY <1>3, IdsFit DEF PlayerOf
<1>5. h.due => RightPassword(h)
  <2> SUFFICES ASSUME h.due PROVE RightPassword(h)
    OBVIOUS
  <2>1. PICK i \in DOMAIN rows : rows[i] = Account(h.name, h.password)
    BY <1>1, <1>3 DEF BooksInv, Books
  <2>2. i = h.id
    BY <1>3, <2>1 DEF BooksInv, Books, Account
  <2>3. QED
    BY <1>3, <2>1, <2>2 DEF RightPassword, Account
<1>6. Books'
  <2>1. CASE ~RightPassword(h)
    <3>1. loggedIn' = loggedIn
      BY <2>1 DEF Compare
    <3>2. QED
      BY <1>2, <3>1, BooksKept DEF BooksInv
  <2>2. CASE RightPassword(h)
    <3> DEFINE new == [name |-> h.name, password |-> h.password, id |-> PlayerOf(h).id]
    <3>1. loggedIn' = loggedIn \cup {new}
      BY <2>2 DEF Compare
    <3>2. h.row \in RowType
      BY <1>1 DEF Comparing
    <3>3. rows[h.id] = Account(h.name, h.password)
      BY <1>3, <2>2, <3>2 DEF RightPassword, RowType, Account
    <3>4. new.id \in DOMAIN rows /\ rows[new.id] = Account(new.name, new.password)
      BY <1>3, <1>4, <3>3
    <3>5. \A x \in loggedIn' : x.id \in DOMAIN rows /\ rows[x.id] = Account(x.name, x.password)
      BY <3>1, <3>4 DEF BooksInv, Books
    <3>6. QED
      BY <1>2, <3>5 DEF BooksInv, Books, Account
  <2>3. QED
    BY <2>1, <2>2
<1>7. Lookup(p)'
  <2>1. handler'[p] = [pc |-> "answer", due |-> h.due, answer |-> answer]
    BY <1>2 DEF Goto
  <2>2. QED
    BY <1>5, <2>1 DEF Lookup, Answer
<1>8. QED
  BY <1>2, <1>6, <1>7, HandlerBooks

LEMMA NextBooks == Typed /\ Few /\ BooksInv /\ [Next]_vars => BooksInv'
<1> SUFFICES ASSUME Typed, Few, BooksInv, [Next]_vars PROVE BooksInv'
  OBVIOUS
<1> USE DEF store, players, history
<1>0. handler \in [Players -> Handlers]
  BY DEF Typed, PlayersTyped
<1>1. CASE UNCHANGED <<rows, registered, loggedIn, handler>> /\ tables \subseteq tables'
  <2>1. Books'
    BY <1>1, BooksKept DEF BooksInv
  <2>2. QED
    BY <1>1, <2>1, LookupKept DEF BooksInv
<1>2. CASE SetupStart \/ CreateTable \/ InsertGamemodes \/ SetupCut \/ ServerStart
  BY <1>1, <1>2 DEF SetupStart, CreateTable, InsertGamemodes, SetupCut, ServerStart
<1>3. CASE ServerStop
  <2>1. Books'
    BY <1>3, BooksKept DEF BooksInv, ServerStop
  <2>2. \A p \in Players : handler'[p] = Idle
    BY <1>3 DEF ServerStop
  <2>3. QED
    BY <2>1, <2>2 DEF BooksInv, Lookup, Idle
<1>4. ASSUME NEW p \in Players, Accept(p) \/ Leave(p) \/ Receive(p)
      PROVE  BooksInv'
  BY <1>1, <1>4 DEF Accept, Leave, Receive
<1>5. ASSUME NEW p \in Players,
             \/ ReadRegister(p) \/ ReadLogin(p) \/ HashPassword(p) \/ InsertFails(p)
             \/ FindFails(p) \/ SendAnswer(p)
      PROVE  BooksInv'
  <2>1. UNCHANGED <<tables, rows, registered, loggedIn>>
    BY <1>5 DEF ReadRegister, ReadLogin, HashPassword, InsertFails, FindFails, SendAnswer
  <2>2. Books'
    BY <2>1, BooksKept DEF BooksInv
  <2>3. CASE ReadRegister(p)
    <3>1. PICK name \in Names, password \in Passwords :
            Goto(p, [pc |-> "hash", name |-> name, password |-> password])
      BY <2>3 DEF ReadRegister
    <3>2. Lookup(p)'
      BY <1>0, <3>1 DEF Goto, Lookup
    <3>3. QED
      BY <2>1, <2>2, <3>1, <3>2, HandlerBooks
  <2>4. CASE ReadLogin(p)
    <3>1. PICK name \in Names, password \in Passwords :
            Goto(p, [pc |-> "find", name |-> name, password |-> password,
                     due |-> <<name, password>> \in registered])
      BY <2>4 DEF ReadLogin
    <3>2. Lookup(p)'
      BY <1>0, <2>1, <3>1 DEF Goto, Lookup
    <3>3. QED
      BY <2>1, <2>2, <3>1, <3>2, HandlerBooks
  <2>5. CASE FindFails(p)
    <3>1. Goto(p, [pc |-> "answer", due |-> FALSE, answer |-> Answer(FALSE, NoPlayer)])
      BY <2>5 DEF FindFails
    <3>2. Lookup(p)'
      BY <1>0, <3>1 DEF Goto, Lookup
    <3>3. QED
      BY <2>1, <2>2, <3>1, <3>2, HandlerBooks
  <2>6. CASE HashPassword(p) /\ ~Goto(p, Idle)
    <3> DEFINE new == [handler[p] EXCEPT !.pc = "insert"]
    <3>1. Goto(p, new)
      BY <2>6 DEF HashPassword, Fails
    <3>2. handler[p] \in Registering
      BY <1>0, <2>6, HandlerFields DEF HashPassword
    <3>3. new.pc = "insert"
      BY <3>2 DEF Registering
    <3>4. Lookup(p)'
      BY <1>0, <3>1, <3>3 DEF Goto, Lookup
    <3>5. QED
      BY <2>1, <2>2, <3>1, <3>4, HandlerBooks
  <2>7. CASE Goto(p, Idle)
    <3>1. Lookup(p)'
      BY <1>0, <2>7 DEF Goto, Lookup, Idle
    <3>2. QED
      BY <2>1, <2>2, <2>7, <3>1, HandlerBooks
  <2>8. InsertFails(p) \/ SendAnswer(p) => Goto(p, Idle)
    BY DEF InsertFails, SendAnswer, Fails
  <2>9. QED
    BY <1>5, <2>3, <2>4, <2>5, <2>6, <2>7, <2>8
<1>6. QED
  BY <1>1, <1>2, <1>3, <1>4, <1>5, InsertBooks, FindBooks, CompareBooks DEF Next, Handle, vars

\* However registrations and logins interleave, fail and are cut off: a name
\* logs in with one password and under one id.
THEOREM OnePlayerCorrect == Spec => []OnePlayerPerName
<1>1. BooksInv => OnePlayerPerName
  <2> SUFFICES ASSUME BooksInv, NEW x \in loggedIn, NEW y \in loggedIn
               PROVE  /\ x.name = y.name <=> x.id = y.id
                      /\ x.name = y.name => x.password = y.password
    BY DEF OnePlayerPerName
  <2>1. /\ x.id \in DOMAIN rows /\ rows[x.id] = Account(x.name, x.password)
        /\ y.id \in DOMAIN rows /\ rows[y.id] = Account(y.name, y.password)
    BY DEF BooksInv, Books
  <2>2. /\ rows[x.id].name = x.name /\ rows[x.id].password = x.password
        /\ rows[y.id].name = y.name /\ rows[y.id].password = y.password
    BY <2>1 DEF Account
  <2>3. x.name = y.name => x.id = y.id
    BY <2>1, <2>2 DEF BooksInv, Books
  <2>4. QED
    BY <2>2, <2>3
<1>2. QED
  BY <1>1, InitTyped, NextTyped, InitFew, NextFew, InitBooks, NextBooks, PTL DEF Spec

\* Who registered is let in, unless the lookup fails.
THEOREM LoginCorrect == Spec => []RegisteredCanLogin
<1>1. BooksInv => RegisteredCanLogin
  BY DEF BooksInv, Lookup, RegisteredCanLogin
<1>2. QED
  BY <1>1, InitTyped, NextTyped, InitFew, NextFew, InitBooks, NextBooks, PTL DEF Spec
-----------------------------------------------------------------------------
(***************************************************************************)
(* Who the player of a connection is: the server knows it from the last    *)
(* login that succeeded, of which the answer may still be under way.       *)
(***************************************************************************)
\* x is the player of the last success among the answers s, and t without one.
Ends(s, t, x) ==
  \/ x = t /\ \A k \in DOMAIN s : ~s[k].success
  \/ \E k \in DOMAIN s :
       /\ s[k].success /\ s[k].player = x
       /\ \A j \in DOMAIN s : j > k => ~s[j].success

LEMMA EndsEmpty == \A t, x : Ends(<< >>, t, x) <=> x = t
BY DEF Ends

LEMMA EndsAppend ==
  ASSUME NEW s \in Seq(AnswerType), NEW a \in AnswerType, NEW t, NEW x
  PROVE  /\ a.success /\ a.player = x => Ends(Append(s, a), t, x)
         /\ ~a.success /\ Ends(s, t, x) => Ends(Append(s, a), t, x)
<1> DEFINE u == Append(s, a)
<1>1. /\ Len(s) \in Nat /\ DOMAIN s = 1 .. Len(s) /\ DOMAIN u = 1 .. Len(s) + 1
      /\ \A k \in 1 .. Len(s) : u[k] = s[k]
      /\ u[Len(s) + 1] = a
  OBVIOUS
<1> HIDE DEF u
<1>2. ASSUME a.success, a.player = x PROVE Ends(u, t, x)
  <2>1. /\ Len(s) + 1 \in DOMAIN u /\ u[Len(s) + 1].success /\ u[Len(s) + 1].player = x
        /\ \A j \in DOMAIN u : ~(j > Len(s) + 1)
    BY <1>1, <1>2
  <2>2. QED
    BY <2>1 DEF Ends
<1>3. ASSUME ~a.success, Ends(s, t, x) PROVE Ends(u, t, x)
  <2>1. CASE x = t /\ \A k \in DOMAIN s : ~s[k].success
    <3>1. \A k \in DOMAIN u : ~u[k].success
      BY <1>1, <1>3, <2>1
    <3>2. QED
      BY <2>1, <3>1 DEF Ends
  <2>2. ASSUME NEW k \in DOMAIN s, s[k].success, s[k].player = x,
               \A j \in DOMAIN s : j > k => ~s[j].success
        PROVE  Ends(u, t, x)
    <3>1. k \in DOMAIN u /\ u[k].success /\ u[k].player = x
      BY <1>1, <2>2
    <3>2. \A j \in DOMAIN u : j > k => ~u[j].success
      BY <1>1, <1>3, <2>2
    <3>3. QED
      BY <3>1, <3>2 DEF Ends
  <2>3. QED
    BY <1>3, <2>1, <2>2 DEF Ends
<1>4. QED
  BY <1>2, <1>3 DEF u

LEMMA EndsTail ==
  ASSUME NEW s \in Seq(AnswerType), s # << >>, NEW t, NEW x, Ends(s, t, x)
  PROVE  Ends(Tail(s), IF Head(s).success THEN Head(s).player ELSE t, x)
<1> DEFINE u == Tail(s)
           n == Len(s)
           v == IF s[1].success THEN s[1].player ELSE t
<1>1. /\ n \in Nat /\ n > 0 /\ DOMAIN s = 1 .. n /\ DOMAIN u = 1 .. n - 1
      /\ \A k \in 1 .. n - 1 : u[k] = s[k + 1]
      /\ Head(s) = s[1]
  OBVIOUS
<1> HIDE DEF u, n
<1>2. CASE x = t /\ \A k \in DOMAIN s : ~s[k].success
  <2>1. v = t
    BY <1>1, <1>2
  <2>2. \A k \in DOMAIN u : ~u[k].success
    BY <1>1, <1>2
  <2>3. Ends(u, v, x)
    BY <1>2, <2>1, <2>2 DEF Ends
  <2>4. QED
    BY <1>1, <2>3 DEF u
<1>3. ASSUME NEW k \in DOMAIN s, s[k].success, s[k].player = x,
             \A j \in DOMAIN s : j > k => ~s[j].success
      PROVE  Ends(u, v, x)
  <2>1. CASE k = 1
    <3>1. v = x
      BY <1>3, <2>1
    <3>2. \A j \in DOMAIN u : ~u[j].success
      BY <1>1, <1>3, <2>1
    <3>3. QED
      BY <3>1, <3>2 DEF Ends
  <2>2. CASE k # 1
    <3>1. k - 1 \in DOMAIN u /\ u[k - 1] = s[k]
      BY <1>1, <1>3, <2>2
    <3>2. ASSUME NEW j \in DOMAIN u, j > k - 1 PROVE ~u[j].success
      <4>1. j + 1 \in DOMAIN s /\ j + 1 > k /\ u[j] = s[j + 1]
        BY <1>1, <1>3, <3>2
      <4>2. QED
        BY <1>3, <4>1
    <3>3. QED
      BY <1>3, <3>1, <3>2 DEF Ends
  <2>3. QED
    BY <2>1, <2>2
<1>4. QED
  BY <1>1, <1>2, <1>3 DEF Ends, u

Identity(p) ==
  connected[p] =>
    /\ IF handler[p].pc = "answer" /\ handler[p].answer.success
       THEN info[p] = handler[p].answer.player
       ELSE Ends(out[p], half[p], info[p])
    /\ authenticated[p] <=> info[p] # NoPlayer

IdentityInv == \A p \in Players : Identity(p)

LEMMA InitIdentity == Init => IdentityInv
BY DEF Init, IdentityInv, Identity

\* Nothing of the connection of q changes, or it is closed.
LEMMA IdentityKept ==
  ASSUME NEW q \in Players, Identity(q), connected'[q] => connected[q],
         connected'[q] => /\ handler'[q] = handler[q] /\ info'[q] = info[q] /\ out'[q] = out[q]
                          /\ half'[q] = half[q] /\ authenticated'[q] = authenticated[q]
  PROVE  Identity(q)'
BY DEF Identity

LEMMA OthersIdentity ==
  ASSUME Typed, NEW p \in Players, NEW q \in Players, q # p, Identity(q),
         \/ Accept(p) \/ Leave(p) \/ Receive(p) \/ ReadRegister(p) \/ ReadLogin(p) \/ Handle(p)
  PROVE  Identity(q)'
<1>1. /\ connected'[q] = connected[q] /\ handler'[q] = handler[q] /\ info'[q] = info[q]
      /\ out'[q] = out[q] /\ half'[q] = half[q] /\ authenticated'[q] = authenticated[q]
  <2> USE DEF Typed, PlayersTyped, Goto, Fails
  <2>1. CASE Accept(p) \/ Leave(p) \/ Receive(p)
    BY <2>1 DEF Accept, Leave, Receive
  <2>2. CASE ReadRegister(p) \/ ReadLogin(p)
    BY <2>2 DEF ReadRegister, ReadLogin
  <2>3. CASE HashPassword(p) \/ Insert(p) \/ InsertFails(p)
    BY <2>3 DEF HashPassword, Insert, InsertFails
  <2>4. CASE Find(p) \/ FindFails(p)
    BY <2>4 DEF Find, FindFails
  <2>5. CASE Compare(p) \/ SendAnswer(p)
    BY <2>5 DEF Compare, SendAnswer
  <2>6. QED
    BY <2>1, <2>2, <2>3, <2>4, <2>5 DEF Handle
<1>2. QED
  BY <1>1, IdentityKept

\* A step of the handler of p between two places that hold no success.
LEMMA GotoIdentity ==
  ASSUME Typed, NEW p \in Players, Identity(p), NEW h, Goto(p, h),
         handler[p].pc # "answer",
         h.pc = "answer" => ~h.answer.success,
         UNCHANGED <<authenticated, info, out, half>>,
         connected' = connected \/ connected' = [connected EXCEPT ![p] = FALSE]
  PROVE  Identity(p)'
<1>1. handler'[p] = h /\ (connected'[p] => connected[p])
  BY DEF Goto, Typed, PlayersTyped
<1>2. QED
  BY <1>1 DEF Identity

\* A whole answer, or the first that is a byte short.
LEMMA ReceiveIdentity ==
  ASSUME Typed, NEW p \in Players, Identity(p), Receive(p), half[p] = NoPlayer
  PROVE  Identity(p)'
<1>1. /\ connected[p] /\ connected'[p] /\ out[p] \in Seq(AnswerType) /\ out[p] # << >>
      /\ out'[p] = Tail(out[p])
      /\ half'[p] = IF Head(out[p]).success THEN Head(out[p]).player ELSE half[p]
      /\ UNCHANGED <<handler, authenticated, info>>
  BY DEF Receive, Typed, PlayersTyped
<1>2. CASE handler[p].pc = "answer" /\ handler[p].answer.success
  BY <1>1, <1>2 DEF Identity
<1>3. CASE ~(handler[p].pc = "answer" /\ handler[p].answer.success)
  <2>1. Ends(out[p], half[p], info[p])
    BY <1>1, <1>3 DEF Identity
  <2>2. Ends(out'[p], half'[p], info[p])
    BY <1>1, <2>1, EndsTail
  <2>3. QED
    BY <1>1, <1>3, <2>2 DEF Identity
<1>4. QED
  BY <1>2, <1>3

LEMMA ConnIdentity ==
  ASSUME Typed, NEW p \in Players, Identity(p), Accept(p) \/ Leave(p) \/ Receive(p)
  PROVE  Identity(p)'
<1> USE DEF Typed, PlayersTyped
<1>1. CASE Accept(p)
  <2>1. /\ handler'[p].pc = "idle" /\ info'[p] = NoPlayer /\ half'[p] = NoPlayer
        /\ out'[p] = << >> /\ authenticated'[p] = FALSE
    BY <1>1 DEF Accept, Idle
  <2>2. Ends(<< >>, NoPlayer, NoPlayer)
    BY EndsEmpty
  <2>3. QED
    BY <2>1, <2>2 DEF Identity
<1>2. CASE Leave(p)
  BY <1>2 DEF Leave, Identity
<1>3. CASE Receive(p)
  <2>1. CASE half[p] # NoPlayer
    BY <1>3, <2>1 DEF Receive, Identity
  <2>2. CASE half[p] = NoPlayer
    BY <1>3, <2>2, ReceiveIdentity
  <2>3. QED
    BY <2>1, <2>2
<1>4. QED
  BY <1>1, <1>2, <1>3

LEMMA CompareIdentity ==
  ASSUME Typed, Few, BooksInv, NEW p \in Players, Identity(p), Compare(p)
  PROVE  Identity(p)'
<1> DEFINE h == handler[p]
<1>1. handler[p].pc = "compare" /\ connected' = connected /\ out' = out /\ half' = half
  BY DEF Compare
<1>2. CASE RightPassword(h)
  <2>1. h.id \in DOMAIN rows
    BY <1>1 DEF BooksInv, Lookup
  <2>2. PlayerOf(h).id > 0
    BY <2>1, IdsFit DEF PlayerOf
  <2>3. PlayerOf(h) # NoPlayer
    BY <2>2 DEF PlayerOf, NoPlayer
  <2>4. /\ info'[p] = PlayerOf(h) /\ authenticated'[p] = TRUE
        /\ handler'[p] = [pc |-> "answer", due |-> h.due, answer |-> Answer(TRUE, PlayerOf(h))]
    BY <1>2 DEF Compare, InfoAfter, Goto, Typed, PlayersTyped
  <2>5. /\ handler'[p].pc = "answer" /\ handler'[p].answer.success = TRUE
        /\ handler'[p].answer.player = PlayerOf(h)
    BY <2>4 DEF Answer
  <2>6. QED
    BY <2>3, <2>4, <2>5 DEF Identity
<1>3. CASE ~RightPassword(h)
  <2>1. info'[p] = info[p] /\ authenticated'[p] = authenticated[p]
    BY <1>3 DEF Compare, InfoAfter, Typed, PlayersTyped
  <2>2. handler'[p] = [pc |-> "answer", due |-> h.due, answer |-> Answer(FALSE, NoPlayer)]
    BY <1>3 DEF Compare, Goto, Typed, PlayersTyped
  <2>3. handler'[p].answer.success = FALSE
    BY <2>2 DEF Answer
  <2>4. QED
    BY <1>1, <2>1, <2>3 DEF Identity
<1>4. QED
  BY <1>2, <1>3

LEMMA SendIdentity ==
  ASSUME Typed, NEW p \in Players, Identity(p), SendAnswer(p)
  PROVE  Identity(p)'
<1> DEFINE a == handler[p].answer
<1>1. a \in AnswerType /\ out[p] \in Seq(AnswerType)
  BY HandlerFields DEF SendAnswer, Answering, Typed, PlayersTyped
<1>2. CASE Room(p)
  <2>1. /\ out'[p] = Append(out[p], a) /\ handler'[p].pc = "idle"
        /\ UNCHANGED <<connected, authenticated, info, half>>
    BY <1>2 DEF SendAnswer, Goto, Idle, Typed, PlayersTyped
  <2>2. handler[p].pc = "answer"
    BY DEF SendAnswer
  <2>3. CASE connected[p]
    <3>1. Ends(Append(out[p], a), half[p], info[p])
      BY <1>1, <2>2, <2>3, EndsAppend DEF Identity
    <3>2. QED
      BY <2>1, <2>3, <3>1 DEF Identity
  <2>4. CASE ~connected[p]
    BY <2>1, <2>4 DEF Identity
  <2>5. QED
    BY <2>3, <2>4
<1>3. CASE ~Room(p)
  <2>1. ~connected'[p]
    BY <1>3 DEF SendAnswer, Fails, Typed, PlayersTyped
  <2>2. QED
    BY <2>1 DEF Identity
<1>4. QED
  BY <1>2, <1>3

LEMMA OwnIdentity ==
  ASSUME Typed, Few, BooksInv, NEW p \in Players, Identity(p),
         \/ Accept(p) \/ Leave(p) \/ Receive(p) \/ ReadRegister(p) \/ ReadLogin(p) \/ Handle(p)
  PROVE  Identity(p)'
<1> DEFINE refusal(due) == [pc |-> "answer", due |-> due, answer |-> Answer(FALSE, NoPlayer)]
<1>1. CASE ReadRegister(p)
  <2>1. PICK name \in Names, password \in Passwords :
          Goto(p, [pc |-> "hash", name |-> name, password |-> password])
    BY <1>1 DEF ReadRegister
  <2>2. handler[p].pc # "answer" /\ UNCHANGED <<connected, authenticated, info, out, half>>
    BY <1>1 DEF ReadRegister, Idle
  <2>3. QED
    BY <2>1, <2>2, GotoIdentity
<1>2. CASE ReadLogin(p)
  <2>1. PICK name \in Names, password \in Passwords :
          Goto(p, [pc |-> "find", name |-> name, password |-> password,
                   due |-> <<name, password>> \in registered])
    BY <1>2 DEF ReadLogin
  <2>2. handler[p].pc # "answer" /\ UNCHANGED <<connected, authenticated, info, out, half>>
    BY <1>2 DEF ReadLogin, Idle
  <2>3. QED
    BY <2>1, <2>2, GotoIdentity
<1>3. CASE HashPassword(p)
  <2>1. handler[p] \in Registering
    BY <1>3, HandlerFields DEF HashPassword, Typed, PlayersTyped
  <2>2. [handler[p] EXCEPT !.pc = "insert"].pc = "insert" /\ Idle.pc = "idle"
    BY <2>1 DEF Registering, Idle
  <2>3. \/ Goto(p, Idle) /\ connected' = [connected EXCEPT ![p] = FALSE]
        \/ Goto(p, [handler[p] EXCEPT !.pc = "insert"]) /\ connected' = connected
    BY <1>3 DEF HashPassword, Fails
  <2>4. handler[p].pc # "answer" /\ UNCHANGED <<authenticated, info, out, half>>
    BY <1>3 DEF HashPassword
  <2>5. QED
    BY <2>2, <2>3, <2>4, GotoIdentity
<1>4. CASE Insert(p) \/ InsertFails(p)
  <2>1. /\ Goto(p, Idle) /\ Idle.pc = "idle"
        /\ connected' = connected \/ connected' = [connected EXCEPT ![p] = FALSE]
        /\ handler[p].pc # "answer" /\ UNCHANGED <<authenticated, info, out, half>>
    BY <1>4 DEF Insert, InsertFails, Fails, Idle
  <2>2. QED
    BY <2>1, GotoIdentity
<1>5. CASE Find(p)
  <2>1. handler[p].pc # "answer" /\ UNCHANGED <<connected, authenticated, info, out, half>>
    BY <1>5 DEF Find
  <2>2. ASSUME NEW i, Goto(p, [pc |-> "compare", name |-> handler[p].name,
                               password |-> handler[p].password, due |-> handler[p].due,
                               id |-> i, row |-> rows[i]])
        PROVE  Identity(p)'
    BY <2>1, <2>2, GotoIdentity
  <2>3. ASSUME Goto(p, refusal(handler[p].due)) PROVE Identity(p)'
    <3>1. refusal(handler[p].due).answer.success = FALSE
      BY DEF Answer
    <3>2. QED
      BY <2>1, <2>3, <3>1, GotoIdentity
  <2>4. QED
    BY <1>5, <2>2, <2>3 DEF Find
<1>6. CASE FindFails(p)
  <2>1. /\ handler[p].pc # "answer" /\ UNCHANGED <<connected, authenticated, info, out, half>>
        /\ Goto(p, refusal(FALSE))
    BY <1>6 DEF FindFails
  <2>2. refusal(FALSE).answer.success = FALSE
    BY DEF Answer
  <2>3. QED
    BY <2>1, <2>2, GotoIdentity
<1>7. QED
  BY <1>1, <1>2, <1>3, <1>4, <1>5, <1>6, ConnIdentity, CompareIdentity, SendIdentity DEF Handle

LEMMA NextIdentity == Typed /\ Few /\ BooksInv /\ IdentityInv /\ [Next]_vars => IdentityInv'
<1> SUFFICES ASSUME Typed, Few, BooksInv, IdentityInv, [Next]_vars, NEW q \in Players
             PROVE  Identity(q)'
  BY DEF IdentityInv
<1>1. CASE UNCHANGED players
  BY <1>1, IdentityKept DEF players, IdentityInv
<1>2. CASE SetupStart \/ CreateTable \/ InsertGamemodes \/ SetupCut \/ ServerStart
  BY <1>1, <1>2 DEF SetupStart, CreateTable, InsertGamemodes, SetupCut, ServerStart
<1>3. CASE ServerStop
  BY <1>3 DEF ServerStop, Identity
<1>4. ASSUME NEW p \in Players,
             Accept(p) \/ Leave(p) \/ Receive(p) \/ ReadRegister(p) \/ ReadLogin(p) \/ Handle(p)
      PROVE  Identity(q)'
  <2>1. CASE q = p
    BY <1>4, <2>1, OwnIdentity DEF IdentityInv
  <2>2. CASE q # p
    BY <1>4, <2>2, OthersIdentity DEF IdentityInv
  <2>3. QED
    BY <2>1, <2>2
<1>5. QED
  BY <1>1, <1>2, <1>3, <1>4 DEF Next, vars

\* When nothing is on its way, the server holds the player whose answer hangs at
\* the other end, or nobody: no failed login, refused statement or answer that
\* could not be sent leaves a login behind.
THEOREM HeldCorrect == Spec => []HeldAsSent
<1>1. IdentityInv => HeldAsSent
  BY EndsEmpty DEF IdentityInv, Identity, HeldAsSent, Idle
<1>2. QED
  BY <1>1, InitTyped, NextTyped, InitFew, NextFew, InitBooks, NextBooks, InitIdentity,
     NextIdentity, PTL DEF Spec
=============================================================================
