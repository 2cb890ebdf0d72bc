------------------------------ MODULE Accounts ------------------------------
(***************************************************************************)
(* Accounts: the database (src/db), the program that creates its tables    *)
(* (src/cmd/db), players.Service, and the two handlers of the matchmaking  *)
(* server that register players and log them in                            *)
(* (src/matchmaking/matchmaking.go:85-120).                                *)
(*                                                                         *)
(* The reader goroutines of the connections run their handlers side by     *)
(* side; each statement is atomic and durable.  The program that creates   *)
(* the tables can be cut off between two statements, the server at any     *)
(* moment; a statement can fail, because another process holds the lock of *)
(* the database file or for any other reason.                              *)
(***************************************************************************)
EXTENDS Integers, Sequences, FiniteSets, SequencesExt

CONSTANTS
  Players,       \* connections of players to the matchmaking server
  Names, Passwords,
  TooLong,       \* the passwords bcrypt refuses
  ChanCap,       \* the capacity of a connection's channel; 64 in the code
  IdSpace,       \* 2^32: the player ids there are
  MaxRequests,   \* bound: messages the server reads
  MaxFailures,   \* bound: statements that fail for no reason of their own
  MaxSetups      \* bound: times the tables are created

ASSUME AccountsAssumption ==
  /\ TooLong \subseteq Passwords
  /\ ChanCap \in Nat \ {0}
  /\ MaxRequests \in Nat /\ MaxFailures \in Nat /\ MaxSetups \in Nat
  /\ IdSpace \in Nat /\ IdSpace > MaxRequests

VARIABLES
  tables,        \* the tables that exist
  modes,         \* the rows of the table gamemodes
  rows,          \* the rows of the table players: the row with id i is rows[i]
  setup,         \* the program cmd/db
  serving,       \* the matchmaking server runs
  connected,     \* per connection: it is open
  handler,       \* per connection: the handler its reader is in
  authenticated, \* player.authenticated
  info,          \* player.info
  out,           \* per connection: answers on their way
  half,          \* per connection: the player of the answer its reader has but for a byte
  requests,      \* how many messages, failures and setups there were so far
  registered,    \* history: the names and passwords Register was content with
  loggedIn       \* history: the names, passwords and ids Login was content with

players == <<connected, handler, authenticated, info, out, half>>
store   == <<tables, modes, rows>>
history == <<registered, loggedIn>>
vars == <<store, setup, serving, players, requests, history>>

Ddl == <<"players", "matches", "gamemodes", "match_players">>
GameModes == {"Classic", "Coop"}

Idle == [pc |-> "idle"]
NoPlayer == [id |-> 0, name |-> "none"]

Init ==
  /\ tables = {} /\ modes = {} /\ rows = << >>
  /\ setup = [pc |-> "off"]
  /\ serving = FALSE
  /\ connected = [p \in Players |-> FALSE]
  /\ handler = [p \in Players |-> Idle]
  /\ authenticated = [p \in Players |-> FALSE]
  /\ info = [p \in Players |-> NoPlayer]
  /\ out = [p \in Players |-> << >>]
  /\ half = [p \in Players |-> NoPlayer]
  /\ requests = [messages |-> 0, failures |-> 0, setups |-> 0]
  /\ registered = {} /\ loggedIn = {}

\* One more of a kind, within its bound.
Count(kind, bound) ==
  /\ requests[kind] < bound
  /\ requests' = [requests EXCEPT ![kind] = @ + 1]

(***************************************************************************)
(* cmd/db: InitStore, then InitializeTables and InsertGamemodes.           *)
(***************************************************************************)
SetupStart ==
  /\ setup.pc \in {"off", "done"}
  /\ Count("setups", MaxSetups)
  /\ setup' = [pc |-> "create", todo |-> Ddl]
  /\ UNCHANGED <<store, serving, players, history>>

\* log.Fatalf.
Fatal == [pc |-> "off"]

\* What comes after the schema could not be executed; mutant: the next step.
GoOn == [pc |-> "modes", left |-> GameModes]
AfterError == Fatal

\* db.Exec runs the statements of the schema one by one, without a
\* transaction, and stops at the first error: a table that exists is one.
CreateTable ==
  /\ setup.pc = "create"
  /\ LET table == Head(setup.todo) IN
     IF table \in tables
     THEN setup' = AfterError /\ UNCHANGED tables
     ELSE /\ tables' = tables \cup {table}
          /\ setup' = IF Len(setup.todo) > 1 THEN [setup EXCEPT !.todo = Tail(@)]
                                             ELSE [pc |-> "modes", left |-> GameModes]
  /\ UNCHANGED <<modes, rows, serving, players, requests, history>>

InsertGamemodes ==
  /\ setup.pc = "modes"
  /\ \E mode \in setup.left :
       IF "gamemodes" \in tables
       THEN /\ modes' = modes \cup {mode}
            /\ setup' = IF setup.left = {mode} THEN [pc |-> "done"]
                                               ELSE [setup EXCEPT !.left = @ \ {mode}]
       ELSE setup' = Fatal /\ UNCHANGED modes
  /\ UNCHANGED <<tables, rows, serving, players, requests, history>>

\* The program is stopped, or one of its statements fails.
SetupCut ==
  /\ setup.pc \in {"create", "modes"}
  /\ setup' = Fatal
  /\ UNCHANGED <<store, serving, players, requests, history>>

(***************************************************************************)
(* The matchmaking server and its connections.                             *)
(***************************************************************************)
\* CreateMatchMakingServer looks at no table.
ServerStart ==
  /\ ~serving
  /\ serving' = TRUE
  /\ UNCHANGED <<store, setup, players, requests, history>>

ServerStop ==
  /\ serving
  /\ serving' = FALSE
  /\ connected' = [p \in Players |-> FALSE]
  /\ handler' = [p \in Players |-> Idle]
  /\ authenticated' = [p \in Players |-> FALSE]
  /\ info' = [p \in Players |-> NoPlayer]
  /\ out' = [p \in Players |-> << >>]
  /\ half' = [p \in Players |-> NoPlayer]
  /\ UNCHANGED <<store, setup, requests, history>>

\* Run: a new Player for the connection.
Accept(p) ==
  /\ serving /\ ~connected[p] /\ handler[p] = Idle
  /\ connected' = [connected EXCEPT ![p] = TRUE]
  /\ authenticated' = [authenticated EXCEPT ![p] = FALSE]
  /\ info' = [info EXCEPT ![p] = NoPlayer]
  /\ out' = [out EXCEPT ![p] = << >>]
  /\ half' = [half EXCEPT ![p] = NoPlayer]
  /\ UNCHANGED <<store, setup, serving, handler, requests, history>>

\* The connection ends: the player leaves, or a handler returned an error.
Leave(p) ==
  /\ connected[p]
  /\ connected' = [connected EXCEPT ![p] = FALSE]
  /\ UNCHANGED <<store, setup, serving, handler, authenticated, info, out, half, requests, history>>

Goto(p, h) == handler' = [handler EXCEPT ![p] = h]

Fails(p) ==
  /\ Goto(p, Idle)
  /\ connected' = [connected EXCEPT ![p] = FALSE]

(***************************************************************************)
(* RegisterPlayerRequest: it is not answered; an error ends the connection.*)
(***************************************************************************)
ReadRegister(p) ==
  /\ connected[p] /\ handler[p] = Idle
  /\ Count("messages", MaxRequests)
  /\ \E name \in Names, password \in Passwords :
       Goto(p, [pc |-> "hash", name |-> name, password |-> password])
  /\ UNCHANGED <<store, setup, serving, connected, authenticated, info, out, half, history>>

HashPassword(p) ==
  /\ handler[p].pc = "hash"
  /\ IF handler[p].password \in TooLong
     THEN Fails(p)
     ELSE Goto(p, [handler[p] EXCEPT !.pc = "insert"]) /\ UNCHANGED connected
  /\ UNCHANGED <<store, setup, serving, authenticated, info, out, half, requests, history>>

\* The row of a name.
RowsOf(name) == {i \in DOMAIN rows : rows[i].name = name}

Row(h) == [name |-> h.name, password |-> h.password]

\* The statement CreatePlayer, username being UNIQUE; mutants: the password is
\* replaced, or a name that is taken is no error.
Overwrite(h) ==
  /\ "players" \in tables
  /\ rows' = IF RowsOf(h.name) = {} THEN Append(rows, Row(h))
             ELSE [i \in DOMAIN rows |-> IF i \in RowsOf(h.name) THEN Row(h) ELSE rows[i]]
Ignore(h) ==
  /\ "players" \in tables
  /\ rows' = IF RowsOf(h.name) = {} THEN Append(rows, Row(h)) ELSE rows
CreatePlayer(h) ==
  /\ "players" \in tables
  /\ RowsOf(h.name) = {}
  /\ rows' = Append(rows, Row(h))

Insert(p) ==
  /\ handler[p].pc = "insert"
  /\ CreatePlayer(handler[p])
  /\ registered' = registered \cup {<<handler[p].name, handler[p].password>>}
  /\ Goto(p, Idle)
  /\ UNCHANGED <<tables, modes, setup, serving, connected, authenticated, info, out, half,
                 requests, loggedIn>>

\* The table is missing, the name taken, or the statement fails.
InsertFails(p) ==
  /\ handler[p].pc = "insert"
  /\ IF "players" \in tables /\ RowsOf(handler[p].name) = {}
     THEN Count("failures", MaxFailures)
     ELSE UNCHANGED requests
  /\ Fails(p)
  /\ UNCHANGED <<store, setup, serving, authenticated, info, out, half, history>>

(***************************************************************************)
(* AuthRequest.                                                            *)
(***************************************************************************)
\* due: the account exists already, so nothing but a failing statement should
\* refuse it.
ReadLogin(p) ==
  /\ connected[p] /\ handler[p] = Idle
  /\ Count("messages", MaxRequests)
  /\ \E name \in Names, password \in Passwords :
       Goto(p, [pc |-> "find", name |-> name, password |-> password,
                due |-> <<name, password>> \in registered])
  /\ UNCHANGED <<store, setup, serving, connected, authenticated, info, out, half, history>>

Answer(success, player) == [success |-> success, player |-> player]

\* Service.Login: FindPlayerByName.
Find(p) ==
  LET h == handler[p]
      found == IF "players" \in tables THEN RowsOf(h.name) ELSE {}
  IN
  /\ h.pc = "find"
  /\ \/ \E i \in found : Goto(p, [pc |-> "compare", name |-> h.name, password |-> h.password,
                                   due |-> h.due, id |-> i, row |-> rows[i]])
     \/ /\ found = {}
        /\ Goto(p, [pc |-> "answer", due |-> h.due, answer |-> Answer(FALSE, NoPlayer)])
  /\ UNCHANGED <<store, setup, serving, connected, authenticated, info, out, half, requests, history>>

\* Every error of the lookup counts as wrong credentials.
FindFails(p) ==
  /\ handler[p].pc = "find"
  /\ Count("failures", MaxFailures)
  /\ Goto(p, [pc |-> "answer", due |-> FALSE, answer |-> Answer(FALSE, NoPlayer)])
  /\ UNCHANGED <<store, setup, serving, connected, authenticated, info, out, half, history>>

\* checkPasswordHash.
RightPassword(h) == h.password = h.row.password

\* uint32(p.ID).
PlayerId(id) == id % IdSpace

\* The player an account is answered with.
PlayerOf(h) == [id |-> PlayerId(h.id), name |-> h.row.name]

\* What of the Player a login changes; mutant: its info even if it fails.
InfoAlways(old, h) == PlayerOf(h)
InfoAfter(old, h) == IF RightPassword(h) THEN PlayerOf(h) ELSE old

\* A failed login leaves the player authenticated as before.
Compare(p) ==
  LET h == handler[p] IN
  /\ h.pc = "compare"
  /\ info' = [info EXCEPT ![p] = InfoAfter(@, h)]
  /\ authenticated' = [authenticated EXCEPT ![p] = @ \/ RightPassword(h)]
  /\ Goto(p, [pc |-> "answer", due |-> h.due,
              answer |-> IF RightPassword(h) THEN Answer(TRUE, PlayerOf(h))
                                             ELSE Answer(FALSE, NoPlayer)])
  /\ loggedIn' = IF RightPassword(h)
                 THEN loggedIn \cup {[name |-> h.name, password |-> h.password, id |-> PlayerOf(h).id]}
                 ELSE loggedIn
  /\ UNCHANGED <<store, setup, serving, connected, out, half, requests, registered>>

\* The channel can take an answer.
Room(p) == Len(out[p]) < ChanCap

\* SendMessage; the handler returns the error if the channel is full.
SendAnswer(p) ==
  /\ handler[p].pc = "answer"
  /\ IF Room(p)
     THEN /\ out' = [out EXCEPT ![p] = Append(@, handler[p].answer)]
          /\ Goto(p, Idle)
          /\ UNCHANGED connected
     ELSE Fails(p) /\ UNCHANGED out
  /\ UNCHANGED <<store, setup, serving, authenticated, info, half, requests, history>>

\* The player's reader.  A failure is read whole.  A successful AuthResponse
\* is a byte shorter than its header says: ReadFull waits for the rest, takes it
\* from the next message, and what it has then is no answer (module Framing,
\* for ids below 2^24), so that the connection ends.  No player ever decodes a
\* success.
Receive(p) ==
  /\ connected[p] /\ out[p] # << >>
  /\ IF half[p] = NoPlayer
     THEN /\ half' = [half EXCEPT ![p] = IF Head(out[p]).success THEN Head(out[p]).player ELSE @]
          /\ out' = [out EXCEPT ![p] = Tail(@)]
          /\ UNCHANGED connected
     ELSE /\ connected' = [connected EXCEPT ![p] = FALSE]
          /\ UNCHANGED <<half, out>>
  /\ UNCHANGED <<store, setup, serving, handler, authenticated, info, requests, history>>

Handle(p) ==
  \/ HashPassword(p) \/ Insert(p) \/ InsertFails(p)
  \/ Find(p) \/ FindFails(p) \/ Compare(p) \/ SendAnswer(p)

Next ==
  \/ SetupStart \/ CreateTable \/ InsertGamemodes \/ SetupCut
  \/ ServerStart \/ ServerStop
  \/ \E p \in Players : \/ Accept(p) \/ Leave(p) \/ Receive(p)
                        \/ ReadRegister(p) \/ ReadLogin(p) \/ Handle(p)

Spec == Init /\ [][Next]_vars

-----------------------------------------------------------------------------
(***************************************************************************)
(* Properties.                                                             *)
(***************************************************************************)
PlayerType == [id : 0 .. IdSpace - 1, name : Names \cup {"none"}]

\* Every variable has its type.
TypeOK ==
  /\ tables \subseteq ToSet(Ddl) /\ modes \subseteq GameModes
  /\ rows \in Seq([name : Names, password : Passwords])
  /\ serving \in BOOLEAN
  /\ setup.pc \in {"off", "create", "modes", "done"}
  /\ connected \in [Players -> BOOLEAN] /\ authenticated \in [Players -> BOOLEAN]
  /\ info \in [Players -> PlayerType] /\ half \in [Players -> PlayerType]
  /\ \A p \in Players :
       /\ handler[p].pc \in {"idle", "hash", "insert", "find", "compare", "answer"}
       /\ Len(out[p]) <= ChanCap

\* However registrations and logins interleave, fail and are cut off by
\* restarts: there is one password with which a name ever logged in, it has
\* one id, and no other name has that id.
OnePlayerPerName ==
  \A x, y \in loggedIn :
    /\ x.name = y.name <=> x.id = y.id
    /\ x.name = y.name => x.password = y.password

\* A login that is read after Register accepted the same name and password, on
\* whatever connection and before whatever restart, is answered with success,
\* unless its own lookup failed.
RegisteredCanLogin ==
  \A p \in Players : handler[p].pc = "answer" /\ handler[p].due => handler[p].answer.success

\* When nothing is on its way on a connection, the server takes its player for
\* the one whose answer the player's reader cannot finish, and for nobody if
\* there is none: whoever was told of failures only is nobody to the server,
\* and a login is held exactly where its answer hangs.
HeldAsSent ==
  \A p \in Players :
    connected[p] /\ handler[p] = Idle /\ out[p] = << >> =>
      /\ info[p] = half[p]
      /\ authenticated[p] <=> half[p] # NoPlayer

\* cmd/db reports "Tables created" only when every table and every game mode
\* is there, whenever it, or an earlier run of it, was cut off.
SetupHonest == setup.pc = "done" => tables = ToSet(Ddl) /\ modes = GameModes
=============================================================================
