# Minesweeper for several players: models, checks and proofs

This directory models the repository's Go programs in TLA+, checks the models
with TLC on small instances and proves the central ones with TLAPS. Every
definition is translated from the source; `PROJECT.json` says for each of them
which lines it stands for. There is no design document in the repository apart
from `TODO.md`, so the code and its tests are the reference.

## The system

Four programs talk over TCP in messages of a 6-byte header (type, flags,
length) and a payload:

    client --- game server          one game for all players connected to it
       \
        matchmaking server --- game launcher --- starts game servers
               |                                 inside its own process
            database (accounts)

Within a process every connection has a reader goroutine, which runs the handler
of a message to its end before it reads the next one, and a writer goroutine fed
by a channel of 64 messages. Handlers of different connections run at the same
time; there are three mutexes: `moveMux` in the game server, `requestIdMux` in the
matchmaking server, `boardMutex` in the client, where a goroutine per click on
Connect runs beside the one of the window.

| component | state | operations | what makes it correct | module |
|---|---|---|---|---|
| board and moves `mines/mines.go` | cells (mine, revealed, flagged), `RevealedCells` | `Reveal`, `Flag`, `makeMove`, flood fill, `CreateCellUpdates` | counter and cells agree; a game is won exactly when the last safe cell is uncovered; the flood is complete, uncovers no mine, respects flags | `Mines`, `CascadeSearch`, `Game` |
| game modes `mines/gamemode_*.go` | marks per cell, score per player | `OnMove` | marks and scores follow the cells, whoever moves | `Mines`, `Game` |
| game server `server/` | `game`, `gameRunning`, `players`, `moveMux`, the handlers of each connection | accept, token handshake, `sendInitialMessages`, `StartGame`, `Move`, `broadcast` | all clients show the same game; a game ends once; concurrent moves are as good as successive ones; who is not authenticated does not play | `GameServer` |
| client `client/mines_client.go` | grid, colours, screen, rows of the server browser; connection, `menu`, `manager` | handlers of the messages; connect, draw, click | shows what the server has; one goroutine per connection; screens follow the connection; no panic | `GameServer`, `Matchmaking`, `Client` |
| game launcher `gamelauncher/` | `GameServers`, `nextServerId`; the `players` of its game servers | `SpawnServerRequest`, `GetGameServers` | ids are unique and contiguous; announced servers stay | `Launcher`, `ServerDirectory` |
| matchmaking server `matchmaking/` | `pendingRequests`, `currentRequestId`, `GameLaunchers` | pass a request on under its own id, pass the answer back | answers reach their asker; nothing stays on file | `Matchmaking` |
| connection controller `protocol/controller.go` | channel, `Connected`, `server`, goroutines | `SendMessage`, writer, reader, (re)connect | order, no silent loss; messages are cut right | `Connection`, `Framing` |
| wire format `protocol/mines_protocol.go` | none | `Encode...`, `Decode...` | decoding inverts encoding | `Codec`, `Framing` |
| accounts `players/`, database `db/` | tables and rows; `authenticated` and `info` of a connection | create the tables, `Register`, `Login` | one password and one id per name; who registered can log in; the server takes nobody for a player it did not let in | `Accounts` |
| tokens `players/` | none | `ValidateAuthToken` | layout; expiry and signature are tested | `GameServer`, `Codec` |
| programs `cmd/` | none | start the above | | in the `Init` and actions of `Launcher`, `Matchmaking`, `Accounts`, `Client` |

What is hard to test here: handlers of several players inside the game server;
a player who joins while a game runs; starting a game while another one ends;
messages dropped for a slow client; a token that comes when its time is up; two
matchmaking servers at one launcher; a launcher lost while requests are on their
way; request ids that come up again; a connection that breaks with messages in
the channel; bytes that arrive in odd pieces; several clicks on Connect; a program
that is stopped between two statements; counters kept beside the data they count. `PROJECT.json` lists them under `hazards`, each at its line,
with the properties that would notice.

## The modules

Properties are stated at the end of each module. A definition whose comment
starts with "Mutant:" (or ends with "mutant: ...") is a deliberately wrong
version of the definition below it, used to show that a property can fail.

**`Mines`** holds constant operators only. A board is a record whose matrix of
cells became three sets of positions: those with `Mine`, `Revealed`, `Flagged`.
`CreateBoard` is the set of boards `rand.Shuffle` can produce. `Cascade` defines
what the flood fill uncovers as a least closed set; it does not mention
recursion.
**`Game`** makes the moves actions: `Move` is `Game.MakeMove`, the board's part
followed by `OnMove` of the mode. **`CascadeSearch`** is `Game` with the recursion of
the code: `stack` has the open calls of `cascade`, `updatedCells` the list they
thread; a step looks at one neighbour (`Visit`), returns from a call, or ends the
move, which counts and pays the cells of the list. It implements `Game`
(`ImplementsGame`): `flooded` is the board the recursion writes to, and `board`, as in
`Game`, the one that the last finished move left. **`MinesProofs`** and **`GameProofs`** prove
what `Game` promises; `GameServerProofs`, `MatchmakingProofs`, `LauncherProofs`,
`AccountsProofs` and `ClientProofs` do the same for the modules they are named after,
`ControllerProofs` for `Connection` and `Framing`, the two sides of `controller.go`.

**`GameServer`** puts games behind a server with connections. A handler is split
at every access to what handlers share: `HandleStartGame`, `StartCreate`,
`StartRun` and `HandleMove`, `MoveBoard` (takes `moveMux`), `MoveMode` (releases
it), `MoveEncode`, `MoveStop`; a broadcast is `BeginCast` and one `SendTo` per
player; a join is the seven steps from `Accept` to `JoinSendCells`. Messages carry
what the client needs: `Start`, `Cells`, `Info`, `End`. `games` keeps every `Game`
object created, because a handler may still use one that was replaced. `MapRace`
and `HandlersRace` are what the Go runtime does about unsynchronised map accesses; if a
launcher runs the server (`Launched`), it may count the players at any moment, which is one.
`overlap` records which kinds of activity ever ran at the same time, so that a
property can say under which concurrency it holds: several hold only without, and
the code gives no more. `MovesAtomic` relates the server to `Game`: seen through
`GameOf`, which completes the move that is inside `moveMux`, each of its games
takes only steps of `Game`, however handlers interleave.

With `requiresAuth` a connection begins with a handler for tokens only, and
`handleNewConnection` waits for its result or five seconds (`ReadToken`,
`AuthAnswer`, `AuthTimeout`, `SwapHandlers`). The channel between the two has no
buffer, so a handler that answers too late waits for ever (`Stuck`); until
`SwapHandlers`, and for a token after it, a message finds no handler (`NoHandler`).
A connection is in `players` from the start, and gets all broadcasts while it waits,
but is told of the running game only when it is let in: `Agreement`, `ScreensAgree` and
`RevealsConverge` are about connections that were (`LetIn`).
No code sets `requiresAuth`; the module takes its values from `AuthModes`.

**`ServerDirectory`** says in three actions what a launcher promises.
**`Launcher`** is the launcher itself, split at each access to `nextServerId` and
`GameServers`. Both of its handlers ask game servers for their number of players
(`GetServerInfo`, `FillInfos`), that is, range over a map that players who join write:
`joining` has the servers where one is about to (`PlayerConnects`, `PlayerJoins`), and
`MapRace` stops the process. `fault` says what did, if anything: an index out of
range, two handlers in the map `GameServers`, such a count, or a game server
by itself, since it runs in the same process (`GameServerDies`). The launcher implements `ServerDirectory` (`ImplementsDirectory`, with
`running <- Range(GameServers)`) until a spawn runs beside another handler, which
takes two matchmaking servers; with one, always.

**`Matchmaking`** has the players' handlers, split inside `GetNextRequestId` and
between filing and sending; the launchers' connections, with writer, loss and
reconnection; the launchers, each as one step per request, which is what
`ServerDirectory` allows; and the clients' browser. The field `by` of a message
is a history variable. Request ids are taken modulo `IdSpace`, so that ids of
requests that leaked, and ids still in use, come up again; `reused` records the
latter, under which an answer can go astray.

**`Client`** has the goroutines of the graphical client: that of the window, which
connects to the matchmaking server, draws and handles clicks, and one per click on
Connect, with `connect` split at each access to `Connected` and `server`, the
reader, and the three assignments and the locked grid of a new game. `raced`,
`stale` and `grew` record the circumstances in which properties do not hold:
clicks that met, a click on an outdated screen, a game that starts while the board
is drawn.

**`Accounts`** has the database, each statement atomic and durable; `cmd/db`, which
executes the schema statement by statement and can be cut off; and the handlers of
`RegisterPlayerRequest` and `AuthRequest`, split between hashing, statement,
comparison and answer, on connections of a server that restarts. `Receive` is the
player's reader: it hangs on the answer of a successful login, which lacks a byte
(`half`), and gives the connection up at the next message.

**`Codec`** has a definition per `Encode` and `Decode` function, over sequences of
bytes. The kind of a message stands for the byte of its `MessageType`.
**`Framing`** sends the bytes of encoded messages through a network that cuts
them anywhere, and models `readLoop`, one `Read` for the header and `ReadFull`
for the body, and the decoding in the handlers. `ByteShort` singles out the one
message whose length is wrong, a successful `AuthResponse`. `Sendable` says what the
`Encode` functions are given: a record with the fields of the Go struct, whose numbers fit
into the fields on the wire. Scores and the parameters of a game, which a player types in, may be
any integers, and come out modulo 2^32 (`Narrowed`). Three bounds are there because the formats need
them: texts with a length before them are shorter than 2^31, which an int32 holds;
a host is not empty; and ids of players are below 2^24, since the missing byte
of a successful `AuthResponse` makes the decoder test the first byte of the id instead.

**`Connection`** is a controller with all connections it has in its life: the
channel, the writer (which takes a message, then writes it), the reader
(`ReadFails`, `ClearConnected`, `CloseServer`, then `Dial...`), the other end.
`kind` distinguishes the accepted, the dialled and the reconnecting controllers.

### Abstractions

* In `GameServer` the queue `out` stands for channel, writer and TCP together; a
  client reads it in order. `Connection` and `Framing` look inside.
* A connection is a player: two connections of one account would share an id. A
  player who comes back is a new player. The server never removes one.
* A client's request is issued and read in one step. What a client sends depends
  on what it shows, and it may show a state as old as its queue is long (`MaxLag`).
* A range over a Go map takes its keys in any order and may or may not meet a
  key added meanwhile.
* `LoadAndDelete` and the `SendMessage` after it are one step in `Matchmaking`:
  nothing else touches the entry, and the channel is the player's own.
* Passwords and tokens are compared as values; a token is a record of the two things
  `ValidateAuthToken` tests.
* In `Client` a message is a start or the end of a game: the others change what
  `GameServer` models. A click on Start sends a message and changes nothing here.
* `HasInfo` in `GameServer` says whether `player.info` is set. `FALSE` is the code
  as it is, where the first move of a running game stops the server. All other
  questions about moves are asked with `TRUE`: the read succeeds and yields the
  player's id.

## The runs

| run | shows |
|---|---|
| `game` | `CascadeSearch`: the counter, flags, marks, scores and the win agree with the cells; what one move may uncover; the updates it reports keep a display up to date; the recursion comes to an end, lists each cell once, forgets none, and implements `Game`, so that it uncovers exactly `Cascade`. Two players; both modes; boards with floods that have a rim and flags in their way, without a mine, of mines only; refused parameters; moves beside the board and of unknown type |
| `server_racing` | with two goroutines at work, on one game of two cells or two games of one: revealed cells converge on all clients, a game is won once, each game is a `Game`; and unless a start met something, or a move a join, no client is shown a cell it has no grid for |
| `server_turns` | one handler at a time: all clients that lost no message agree with the server on cells, colours and screens, late joiners, stale moves and refused starts included |
| `server_finish` | with and without authentication: every handler and join ends, every message is handled, but for a token nobody waits for; only who sent a valid token in time gets into the game |
| `server_nil_info` | **violated**: the server survives the first move |
| `launcher` | two matchmaking servers: without a spawn beside another handler the launcher implements `ServerDirectory`, no list indexes its slice out of range and nothing is overwritten; each request is answered or its connection closed, unless the process stops: by a fault of a game server, or by counting the players of one that is joined |
| `matchmaking` | with ids that wrap after two: an answer has its asker on file and reaches only that player, unless its id was taken again under way; every request is answered at last, and `pendingRequests` keeps only those of which a message was lost; the browser of each player shows every server it should, once |
| `framing` | messages of every kind come out as they were encoded, in order, however the bytes are cut; only a header in two pieces, and the message after a successful login, which lacks a byte, end a connection; everything is handled unless that happens |
| `connection` | order within and across connections; nothing that waits in the channel is lost by a change of connections; the channel is emptied while the writer lives |
| `client` | two clicks on Connect: unless they meet in `connect`, one goroutine reads, the connection it dialled; the screen follows the connection; what can crash the client; no goroutine hangs and drawing keeps no game from starting |
| `accounts` | two connections, two names: a name has one password and one id for ever, who registered can log in, the server holds a player as logged in exactly where the answer hangs at that player's reader, `cmd/db` reports success only when everything is there; with failing statements, restarts, a setup cut off |
| `connection_again` | **violated**: a controller that is connected again sends what it is given |

Deadlock is checked in the run `game`, where a step is always possible. In
the others the bounded requests run out, and the system may stop.

What the code does wrong and no run shows as a violation, because a property
states it as its exception or because no document promises otherwise:

* With two launchers the client replaces the rows of the first list by the second
  (`mines_client.go:396`); `BrowserComplete` is stated for one launcher, as many as
  `cmd/matchmaking` connects.
* Two matchmaking servers that spawn at the same time can be given one id, and one of
  the two servers is lost (`overlap` in `Launcher`).
* Every list of game servers and every announcement counts the players of a server
  without a lock (`mines_server.go:49`), while a player who joins is written into that
  map (`mines_server.go:272`): the Go runtime may stop the launcher with all its game
  servers, with one matchmaking server and no spawn under way (`MapRace` in `Launcher`
  and in `GameServer`). A join beside a broadcast or another join can do the same, and so can
  the scores of a game that are encoded while the next move changes them.
* A successful `AuthResponse` announces a byte more than it has, so that the next
  message ends the connection (`ByteShort` in `Framing`). No client ever learns that it
  is logged in, while the server holds it as logged in until then (`HeldAsSent` in `Accounts`).
* A player who joins while a move is broadcast can be sent cells before the game they
  belong to, as can one who is still told of a new game when others move in it: the
  client indexes a grid it does not have and dies (`ClientsSurvive`).
* A start with refused parameters shows the running game as aborted (`misled`); moves
  at the same time can leave flags different on two clients, and a start beside a
  move can revive a finished game (`overlap` in `GameServer`).
* A token that comes too late blocks the reader of its connection, which stays open, in
  `players`, and receives the broadcasts (`Stuck`).
* Every error of the lookup is reported to the player as wrong credentials, and a
  database whose creation was cut off cannot be completed (`Accounts`).
* A second click on Connect can close the first one's connection or share its reader;
  New game, clicked as the connection is lost, leads to a menu without a way back; a
  larger game that starts while the board is drawn is a panic (`Client`).

### Bounds

* *Boards*: 4 cells at most in `Game`, 3 in `GameServer`. The
  proofs of `Game` hold for all boards; the server runs need boards only to tell
  reveal, flood, loss and win apart, and a second, smaller one on which moves made
  for the first are out of range.
* `MaxScore` cuts scores at -3..3: two players who go on flagging and unflagging. A
  flood begins only if its player can be paid for all hidden safe cells (`Payable`),
  so that no bound stops a flood half-way.
* `MaxGames`, `MaxCells` (of all boards asked for), `MaxMoves`, `MaxLeaves`: two
  starts and two moves are what it takes to replace a game under a move, to end a
  game twice, or to revive one. `MaxTokens`: two tokens, of which one is late, of no
  use, or sent twice. `MaxRequests` bounds all these together, at the four it takes for
  a start and two moves with a client that leaves, or two starts and two moves.
* `MaxBusy`: goroutines in a handler or accepting at the same time. Races here are
  races of two; 1 gives the sequential server.
* `MaxLag`: how many messages a client may be behind when the server steps.
  Handling a message commutes with the server's steps except the requests of that
  client, so a smaller bound loses only requests from staler screens.
* `ChanCap`: 1, so that a channel (of 64 messages in the code) is full at once; in
  `GameServer` for the connections in `Slow`, one of which is enough to lose messages.
* In `Matchmaking` three requests of two players to one launcher and one lost
  connection: ids are taken at the same time, answers overtake requests, a list
  follows a spawn. In `Launcher` two requests of each of two matchmaking servers,
  and one server at a time that a player is joining (`MaxJoins`), which is what a count meets.
* `Streams` in `Framing`: every message by itself, three short ones in a row.
* `IdSpace` stands for 2^32. In `Matchmaking` it is 2, less than `MaxRequests`, so
  that both a leaked id and one under way come up again. In `Accounts`, where rows are
  numbered by the database, no run comes near it, and an assumption says so.
* In `Client` two clicks on Connect (clicks that meet are two), boards of 1x2 and 2x1,
  each of which exceeds the other in one direction. In `Accounts` four messages of two
  connections, one statement that fails, two runs of `cmd/db`.
* `Base = 8` and 2-byte words in `Codec`: all code paths treat bytes alike, and small
  bases make every boundary (largest unsigned, smallest signed) reachable.
* `MaxAttempts = 2` stands for 100 attempts to dial; `MaxConns = 2` connections: one
  that breaks and the one after.

### Fairness

`GameServer`, `Launcher`, `Matchmaking`: weak fairness of each goroutine inside a
handler, of the writers, and of clients handling what arrives: the Go scheduler
runs what can run, and no step needs another one to be repeatedly enabled. Nobody
is obliged to send a request, to connect or to leave, and a lost connection need
not come back. `Connection`: the writer, the reader's steps after a loss, and the
delivery of what is under way; dialling may fail for ever. `Framing`: the reader,
which includes that the network delivers. `Client`: weak fairness of the window and
of each goroutine, and strong fairness of `InitializeGrid`, which waits for
`boardMutex` while the window takes and releases it frame after frame: a
`sync.Mutex` hands itself to a goroutine that has waited for a millisecond.
`Accounts` states no liveness.

## The proofs

`PROJECT.json` lists the theorems with the properties they state. Each module of
proofs assumes nothing but the named assumptions on the constants of the module it
is about; bounds such as `MaxRequests` are any natural numbers.

**`Game`**, for any `PlayerIds`, `Params`, `MaxCoord`, `MaxScore` (players' ids are
positive; parameters are records of integers and a mode). The inductive invariant
`IInv` is the conjunction of `TypeOK` (with `IsBoard`: the sets lie on the board,
`mines` counts the mines), `Counted` (`RevealedCells` counts the revealed safe
cells), flagged and revealed cells disjoint, and `MarksMatch`. `Counted` by itself
is not inductive: that a flood adds as many to the counter as to the cells needs
that the flood takes only hidden cells, and none with a mine. `MinesProofs` proves
the latter without following the flood: the hidden safe cells within `Hidden(b)`
form a closed set, because a cell that touches no mine has only safe neighbours,
and `Cascade` is contained in every closed set. The same argument gives that the
flood itself is closed (`FloodComplete`). `WonIffCleared` follows from `Counted`
before and after the move by counting the cells of the board. `FieldsCorrect` adds
that a move changes flags or revealed cells, never both. (`FlaggedHidden`, like the
`TypeOK` of the launcher, is proved and no run checks it.) `UpdatesSuffice` compares
values before and after: what is shown of a cell depends on its flag, on whether it is revealed, and on mines that
never move, and a move changes the former two only where it reports.
`ScoresAddUp` needs sums over functions, which the library defines by recursion over
subsets. `Least` replaces the induction theorems, which take an operator: a set of
natural numbers that is not empty has a least element, so an induction is a proof
that the set of counterexamples is empty. With it `SumExists` and `SumFollows` show
that the sum exists and changes by what one of its terms changes by, and
`ReportedTurn` that the cells a move reports are those that become marked or cease to be.

**`CascadeSearch`**, for the same constants. `SearchInv` says of a flood under way that its
list has the uncovered cells, each once (`ListIsFlood`), all of them in `Cascade`;
that a loop runs only in a call for a cell that touches no mine (`Calls`); and that what such a cell
still has to uncover is to come in an open loop (`NothingForgotten`). When the first call
is through nothing is to come, so the uncovered cells form a closed set, and are
`Cascade`, the least one. That makes the end of a flood a move of `Game`, and all
other steps of it stutters (`SearchCorrect`). `FloodOnTrack`, which the run checks, is
the conjunction of the two. `DescendsCorrect` is the proof that the recursion ends: hidden
cells, open calls and the rest of the innermost loop decrease lexicographically.

**`Client`**, for any number of clicks on Connect and any boards. `Typed` adds to
`TypeOK` that a window without a matchmaking server gets no further (`GivesUp`);
`Alone` says that, while no clicks met (`raced`), at most one goroutine is past the
test of `Connected`, and which connection it holds at each of its steps;
`ScreenFits` relates the screen to the place of that goroutine; `BoardFits` relates
the parameters, the grid and what is drawn. `OneReader` is not inductive without
the places before the reader, which is what `Alone` adds.

**`Launcher`**, for any number of matchmaking servers. While no spawn ran beside
another handler (`overlap`), `Serial` says that a spawn excludes all other handlers
(`Exclusive`) and that the ids are `0 .. nextServerId - 1`, with or without the one
that is being entered (`Contiguous`); `Truthful` says that announced servers are in
the map, each server under one id, and `InOrder` that each link's requests are
answered in order, each at most once. That gives `NoPanic`, which is about the launcher's own
doing and names the faults it leaves to its game servers and to players who join them,
`AnnouncedStay` and the refinement: under `running <- Range(GameServers)`
and the replies as they are, each step is one of `ServerDirectory` or changes
nothing of it.

**`Accounts`**, for any connections, names, passwords, capacity of the channels and
number of failures, restarts and setups, with fewer messages than there are ids.
`SetupInv` says what of the schema was executed before the place where `cmd/db` is.
`Few` counts: each row was asked for by a message of its own, which a handler that
has yet to insert still stands for, so ids do not wrap. `BooksInv` says that names
are unique, that each registration and each login is backed by a row, and that
what a handler read from a row still holds, since rows never change. `IdentityInv`,
for `HeldAsSent`, follows the answers under way: the last success among them, or the one
the player's reader hangs on if there is none, names the player `info` does.

**`Connection`**, for any number of messages and connections and any capacity of the
channel. `TypeOK` is inductive by itself. `Placed` says where no message can be: on
a connection newer than the one the controller writes to, or anywhere before there
is one. With it each step has one of a few effects on the messages of a connection
(`Line`) and those not yet written (`Pending`): it moves them on, adds one, opens a
connection, or takes some to `refused` or `gone`. Of each effect it is shown that it keeps
`NothingElseLost`, whose two directions are proved together, and `InOrder`, which
needs the former: that a new message comes last is known because those before it
are numbered up to `calls`.

**`Matchmaking`**, for any players, launchers, ids and channels. `Typed` is `TypeOK` with
`Exclusive`: at most one handler is between reading and storing the counter.
`Filed`, for `PendingMatches`, is about everything a request can be: a handler about
to send, a message in one of the three queues of a launcher, an answer in the
player's channel. `Backed` says that each of these is filed under its asker,
`Distinct` that no two of them carry the same id (an id that two carried would be deleted
with the first answer), and `Delivered` that what reached a player was its own. `Distinct` has
to be stated over the three queues as one (`Pipe`), since messages move between them.
`Browsed`, for `BrowserComplete`, follows one launcher's servers on their way to
one player, while nothing was lost and no id came twice. `Chain` puts the rows of the browser, the player's channel and the
launcher's answers in one order: a list holds every server that comes before it, an
announcement one that is newer than all of them, so that no list takes away a row and
no announcement adds one twice. `Covered` says where the servers of the map are seen: in a list that is still to be
made, in one under way that holds them all, or, with none under way, in the browser.
That `GameLaunchers` is finite, without which its cardinality says nothing, is a part of the
invariant.

**`GameServer`**, for any connections, parameters and bounds. `Typed` is `TypeOK` with
the records of `Mines`, `Game` and the handlers, and with the facts that survive from one step of a
handler to the next: the game it moves in exists, the cells it updates lie on that
board, a handler holds the lock exactly while it is inside `MakeMove`.
`Recorded` says that a reader at work beside a join, or two handlers at
work at once, have left their trace in `overlap`; this is what the second half of `EndsOnce`
rests on, and every other property about runs in which little overlapped.
`Gate`, for `AuthGate`, adds the answer under way from the handler of a valid token
to the goroutine that waits for it, and that one who was refused is not connected.
`Ends`, for `EndsOnce`, counts: a game that was won, or that a handler is about to
declare won, has its board cleared (`Wins`), a cleared board yields no second
`GameWon` because a further move fails or reveals nothing (`Once`), and a handler
between the end of its game and clearing `gameRunning` excludes others as
long as nothing overlapped (`Apart`).
`MovesAtomic` relates each step to a step of another module. `Completed` is a function of
`games` and of the one handler inside `MakeMove` (`InsideOne`, from mutual exclusion),
so `MoveBoard` is a whole move of `Game`, `MoveMode` changes nothing of it, and all other
steps leave both alone. `Game` limits scores to `MaxScore`, here `MaxMoves * MaxCells`; that the limit is
never what refuses a move needs the invariant `Room`: each score is at most `MaxCells`
for each move that was made (`Budget`), which are those requested less those that still wait for the lock.

`Showing`, for `ScreensAgree` and `Agreement`, says what every connection will show.
`Leads(v, q, x)` is that the view `v` becomes `x` when the messages of `q` are
handled, witnessed by the sequence of views in between, since an induction over the
queue is not available; `LeadsOn` and `LeadsFurther` take the first message off and put one
behind. `Expected` is what is to be shown of a game that runs, was called aborted, or
is over, for a connection that joined early or late. `Told`, which is inductive only while
nothing overlapped, says of each connection `d` that hears the server: with at
most one handler at work, what `d` shows, then the messages in its queue, then those
that handler still owes it (`Owed`), lead to what is expected of the game as it will
be when the handler is through (`Story`). So a move may have changed the board
long before its cells, its marks and its end are sent, one by one and player by player. The
lemmas `CellsExpected`, `InfoExpected`, `EndExpected`, `StartExpected`,
`JoinExpected` and `AbortExpected` say what one message does to such a view; that the cells a
move reports are enough (`MoveFollows`) is the lemma behind `UpdatesSuffice`.
`Newcomers` and `Phase` are about a connection that is being let in, which has
nothing yet, or the part of the running game that its join has come to. When everything
is handled no handler owes anything, and the view is the expected one.

`Spreading`, for `RevealsConverge`, is the same question with any number of handlers
and joins at work, as long as only moves and joins overlap (`Mild`). `Told` is false
there: two handlers may send flags and counts in the other order than they read them. What
stays true holds cell by cell (`Catching`). After the messages in its queue, a
connection either is still to be told of a new game (`Renewed`), or shows no wrong
cell, and each revealed cell it lacks is in what some handler is about to send to it, or in
the cells its join has encoded (`Reached`); `Proper` and `Fitting` say that what
handlers and joins hold is right and about the running game. It is inductive
because a revealed cell keeps its value, so that an update is as right late as in
time, and because a late flag hides no revealed cell (`Honest`). Each step is then
one of a few effects, `Passes` of a handler and what is put behind a queue, and
never takes away the last promise of a cell.

**`Codec`**, for bytes, fields and messages of any size. `RoundTrips` follows every kind of
message through its pair of functions. Numbers, lists of parts and lists of
servers are functions defined by recursion over their length, so the proofs begin with what recursion over
the natural numbers is (`RecursionExists`, `BoundedRecursion`, from `Least` as above).
`Holds(data, at, piece)` is that a byte string has a piece at a place; `PartHeld` that
a slice there gives it back; `ConcatPlaces` that each part of a list lies where the
ones before it end. On these rest the lemmas about fields (a number is what its bytes say, modulo the
width; a text ends where the next field begins) and about frames (`FrameSent`). Boards
need that the cells come in an order in which each comes once, scores that they are
written in some order of a map and make the same map in any. `LoginSent` is for the
successful `AuthResponse`: its frame is a byte short, and with any byte after it, decoding fails.

**`Framing`**, for messages that are `Sendable`, in streams where requests carry an id exactly
when the other end's handlers expect one, and any buffer. `Rest` is what lies between
the writer and the handlers: header, body, buffer and network, one after the
other. `FrameInv` says that `Rest` can be cut, at places `Cuts` names, into
encodings of the messages that are not handled yet, in order; that a header is read whole, and the
body no further than the header says; and that what was handled is what was written, decoded.
`HandledInOrder` alone is not inductive: it says nothing of the bytes on the way.
Filling the buffer and reading a body leave `Rest` as it is (associativity, `Moved`), writing puts
a piece behind it (`CutsWritten`), and a handled message is its first piece
(`NextPiece`, `CutsHandled`), since its length is in the header (`SameHeader`). After a login that
is a byte short the handler fails and the connection is given up, so that nothing is
claimed of the bytes any more.

Only model-checked: all liveness (`AllHandled` among it), which the prover cannot do
under fairness; and `ClientsSurvive`.

## Not modelled

* `bcrypt`, HMAC and the clock: `checkPasswordHash` and `ValidateAuthToken` are
  comparisons. `GenerateAuthToken`, `CreateMatch`, `GetPlayerByID`: called by tests only
  or by nothing. `player.authenticated` in the game server is set and never read, as are
  the map `Players` and `messageChannel` of the matchmaking server.
* `RegisterPlayerResponse`: encoded and decoded by no program. Its decoder tests for
  the type `ServerSpawned` and can accept no message its encoder makes.
* Layout, colours and editors of the client (`browser.go`, most of
  `mines_client.go`): drawing changes nothing but what it is given. Its data races on
  single words are taken as atomic accesses.
* `ProcessTextCommand`, `Print`, `PrintRevaled`, `RemainingCells`: called by nothing.
* `sendTextMessage`, `broadcastTextMessage`: all calls are commented out.

## The plan

Done: `Mines`, `CascadeSearch`, `Game` and their proofs; `GameServer` with
authentication and its relation to `Game`; `Launcher` with `ServerDirectory`;
`Matchmaking`; `Codec`, `Framing`; `Connection`; `Client`; `Accounts`.

Every part that changes state is modelled. A composition of `Matchmaking` with
`Launcher` instead of `ServerDirectory`'s step would add nothing with one matchmaking
server, for which the refinement holds, and with two nothing holds.

The safety of every module is proved except for the properties listed as only
model-checked. What is left is to shorten the proofs of `GameServer`, where the lemmas about
`Told` and about `Catching` go through the same handlers.
