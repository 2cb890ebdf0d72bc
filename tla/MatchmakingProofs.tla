------------------------- MODULE MatchmakingProofs --------------------------
(***************************************************************************)
(* The safety properties of module Matchmaking, for any players, launchers,*)
(* number of requests and space of request ids.                            *)
(***************************************************************************)
EXTENDS Matchmaking, FiniteSetTheorems, SequenceTheorems, TLAPS

USE MatchmakingAssumption

-----------------------------------------------------------------------------
(***************************************************************************)
(* The handlers.                                                           *)
(***************************************************************************)
\* What a handler has, by where it is.
LEMMA HandlerFields ==
  ASSUME NEW h \in Handlers
  PROVE  /\ h.pc \in {"idle", "choose", "lock", "next", "increment", "store", "send"}
         /\ h.pc = "idle" <=> h = Idle
         /\ h.pc # "idle" => h.kind \in Asked /\ h.todo \in SUBSET Launchers
         /\ h.pc \notin {"idle", "choose"} => h.to \in Launchers
         /\ h.pc \in {"increment", "store", "send"} => h.id \in RequestIds
         /\ h.pc = "choose" => h = [pc |-> "choose", kind |-> h.kind, todo |-> h.todo]
         /\ h.pc \in {"lock", "next"} =>
              h = [pc |-> h.pc, kind |-> h.kind, todo |-> h.todo, to |-> h.to]
         /\ h.pc \in {"increment", "store", "send"} =>
              h = [pc |-> h.pc, kind |-> h.kind, todo |-> h.todo, to |-> h.to, id |-> h.id]
<1>1. CASE h = Idle
  BY <1>1 DEF Idle
<1>2. CASE h \in [pc : {"choose"}, kind : Asked, todo : SUBSET Launchers]
  BY <1>2 DEF Idle
<1>3. CASE h \in [pc : {"lock", "next"}, kind : Asked, todo : SUBSET Launchers, to : Launchers]
  BY <1>3 DEF Idle
<1>4. CASE h \in [pc : {"increment", "store", "send"}, kind : Asked, todo : SUBSET Launchers,
                  to : Launchers, id : RequestIds]
  BY <1>4 DEF Idle
<1>5. QED
  BY <1>1, <1>2, <1>3, <1>4 DEF Handlers

LEMMA HandlerIs ==
  ASSUME NEW k \in Asked, NEW todo \in SUBSET Launchers, NEW l \in Launchers, NEW i \in RequestIds
  PROVE  /\ [pc |-> "choose", kind |-> k, todo |-> todo] \in Handlers
         /\ \A c \in {"lock", "next"} :
              [pc |-> c, kind |-> k, todo |-> todo, to |-> l] \in Handlers
         /\ \A c \in {"increment", "store", "send"} :
              [pc |-> c, kind |-> k, todo |-> todo, to |-> l, id |-> i] \in Handlers
  BY DEF Handlers

\* Only the place changes.
LEMMA Advance ==
  ASSUME NEW h \in Handlers
  PROVE  /\ h.pc = "lock" => /\ [h EXCEPT !.pc = "next"] \in Handlers
                             /\ [h EXCEPT !.pc = "next"].pc = "next"
         /\ h.pc = "increment" => /\ [h EXCEPT !.pc = "store"] \in Handlers
                                  /\ [h EXCEPT !.pc = "store"].pc = "store"
         /\ h.pc = "store" => /\ [h EXCEPT !.pc = "send"] \in Handlers
                              /\ [h EXCEPT !.pc = "send"].pc = "send"
                              /\ [h EXCEPT !.pc = "send"].id = h.id
                              /\ [h EXCEPT !.pc = "send"].kind = h.kind
<1>1. ASSUME h.pc = "lock"
      PROVE  [h EXCEPT !.pc = "next"] \in Handlers /\ [h EXCEPT !.pc = "next"].pc = "next"
  <2>1. PICK k \in Asked, t \in SUBSET Launchers, l \in Launchers :
          h = [pc |-> "lock", kind |-> k, todo |-> t, to |-> l]
    BY <1>1, HandlerFields
  <2>2. [h EXCEPT !.pc = "next"] = [pc |-> "next", kind |-> k, todo |-> t, to |-> l]
    BY <2>1
  <2>3. QED
    BY <2>2 DEF Handlers
<1>2. ASSUME NEW c \in {"store", "send"}, h.pc \in {"increment", "store"}
      PROVE  /\ [h EXCEPT !.pc = c] \in Handlers /\ [h EXCEPT !.pc = c].pc = c
             /\ [h EXCEPT !.pc = c].id = h.id /\ [h EXCEPT !.pc = c].kind = h.kind
  <2>1. PICK k \in Asked, t \in SUBSET Launchers, l \in Launchers, i \in RequestIds :
          h = [pc |-> h.pc, kind |-> k, todo |-> t, to |-> l, id |-> i]
    BY <1>2, HandlerFields
  <2>2. [h EXCEPT !.pc = c] = [pc |-> c, kind |-> k, todo |-> t, to |-> l, id |-> i]
    BY <2>1
  <2>3. h.kind = k /\ h.id = i
    BY <2>1
  <2>4. QED
    BY <2>2, <2>3 DEF Handlers
<1>3. QED
  BY <1>1, <1>2

\* A step of p's handler leaves the others where they are.
LEMMA GotoOnly ==
  ASSUME TypeOK, NEW p \in Players, NEW h \in Handlers, Goto(p, h)
  PROVE  /\ reader' \in [Players -> Handlers]
         /\ reader'[p] = h
         /\ \A q \in Players \ {p} : reader'[q] = reader[q]
  BY DEF TypeOK, Goto

\* One handler at a time is inside GetNextRequestId.
Exclusive == \A p, q \in requestIdMux : p = q

Typed == TypeOK /\ Exclusive

LEMMA InitTyped == Init => Typed
<1> SUFFICES ASSUME Init PROVE Typed
  OBVIOUS
<1> USE DEF Init
<1>1. /\ currentRequestId \in RequestIds
      /\ DOMAIN pendingRequests \subseteq RequestIds
      /\ pendingRequests \in [DOMAIN pendingRequests -> Players]
  BY DEF RequestIds
<1>2. reader \in [Players -> Handlers] /\ \A p \in Players : reader[p].pc = "idle"
  BY DEF Handlers, Idle
<1>3. /\ toLauncher \in [Launchers -> Seq(Requests)] /\ requests \in [Launchers -> Seq(Requests)]
      /\ answers \in [Launchers -> Seq(Answers)] /\ toPlayer \in [Players -> Seq(Answers)]
      /\ browser \in [Players -> Seq(Rows)]
  OBVIOUS
<1>4. /\ \A l \in Launchers : Len(toLauncher[l]) <= ChanCap
      /\ \A p \in Players : Len(toPlayer[p]) <= ChanCap
  OBVIOUS
<1>5. requestIdMux = {p \in Players : reader[p].pc \in {"next", "increment"}}
  BY <1>2
<1>6. /\ open \in [Players -> BOOLEAN] /\ asked \in [Players -> Nat]
      /\ link \in [Launchers -> {"absent", "store", "up", "down"}]
      /\ writer \in [Launchers -> BOOLEAN] /\ servers \in [Launchers -> Nat]
      /\ known \in [Players -> SUBSET Rows]
      /\ lost \subseteq RequestIds /\ losses \in 0 .. MaxLosses
      /\ reused \in BOOLEAN /\ crashed \in BOOLEAN
  <2>1. open \in [Players -> BOOLEAN] /\ asked \in [Players -> Nat]
    OBVIOUS
  <2>2. /\ link \in [Launchers -> {"absent", "store", "up", "down"}]
        /\ writer \in [Launchers -> BOOLEAN] /\ servers \in [Launchers -> Nat]
    OBVIOUS
  <2>3. known \in [Players -> SUBSET Rows] /\ lost \subseteq RequestIds
    OBVIOUS
  <2>4. losses \in 0 .. MaxLosses
    OBVIOUS
  <2>5. reused \in BOOLEAN /\ crashed \in BOOLEAN
    OBVIOUS
  <2>6. QED
    BY <2>1, <2>2, <2>3, <2>4, <2>5
<1>7. \A l \in Launchers : requests[l] = << >> /\ answers[l] = << >>
  OBVIOUS
<1> HIDE DEF Init
<1>8. TypeOK
  BY <1>1, <1>2, <1>3, <1>4, <1>5, <1>6, <1>7 DEF TypeOK
<1>9. QED
  BY <1>8 DEF Typed, Exclusive, Init

\* A step of p's handler outside GetNextRequestId keeps the mutex.
LEMMA OutsideMutex ==
  ASSUME Typed, NEW p \in Players, NEW h \in Handlers, Goto(p, h), UNCHANGED requestIdMux,
         reader[p].pc \in {"next", "increment"} <=> h.pc \in {"next", "increment"}
  PROVE  /\ requestIdMux' = {q \in Players : reader'[q].pc \in {"next", "increment"}}
         /\ Exclusive'
<1>1. \A q \in Players :
        reader'[q].pc \in {"next", "increment"} <=> reader[q].pc \in {"next", "increment"}
  BY GotoOnly DEF Typed
<1>2. QED
  BY <1>1 DEF Typed, TypeOK, Exclusive

LEMMA ReadTyped ==
  ASSUME Typed, NEW p \in Players, ReadSpawnServerRequest(p) \/ ReadGetGameServers(p)
  PROVE  Typed'
<1> USE DEF Typed, TypeOK, idVars, linkVars, wireVars, clientVars
<1>1. GameLaunchers \in SUBSET Launchers
  BY DEF GameLaunchers
<1>2. PICK h \in Handlers : ReadRequest(p, h) /\ h.pc = "choose"
  <2>1. CASE ReadSpawnServerRequest(p)
    <3>1. [pc |-> "choose", kind |-> "spawn", todo |-> {}] \in Handlers
      BY DEF Handlers, Asked
    <3>2. QED
      BY <2>1, <3>1 DEF ReadSpawnServerRequest
  <2>2. CASE ReadGetGameServers(p)
    <3>1. [pc |-> "choose", kind |-> "list", todo |-> GameLaunchers] \in Handlers
      BY <1>1 DEF Handlers, Asked
    <3>2. QED
      BY <2>2, <3>1 DEF ReadGetGameServers
  <2>3. QED
    BY <2>1, <2>2
<1>3. asked' \in [Players -> Nat]
  <2>1. asked' = [asked EXCEPT ![p] = @ + 1]
    BY <1>2 DEF ReadRequest
  <2>2. QED
    BY <2>1
<1>4. reader' \in [Players -> Handlers]
  BY <1>2, GotoOnly DEF ReadRequest
<1>5. requestIdMux' = {q \in Players : reader'[q].pc \in {"next", "increment"}} /\ Exclusive'
  <2>1. Goto(p, h) /\ UNCHANGED requestIdMux /\ reader[p].pc = "idle"
    BY <1>2 DEF ReadRequest, Idle
  <2>2. QED
    BY <1>2, <2>1, OutsideMutex
<1>6. known' \in [Players -> SUBSET Rows] /\ UNCHANGED <<toPlayer, browser>>
  <2>1. UNION {Running(l) : l \in GameLaunchers} \subseteq Rows
    BY <1>1 DEF Running, Rows
  <2>2. QED
    <3>1. CASE ReadSpawnServerRequest(p)
      BY <3>1 DEF ReadSpawnServerRequest
    <3>2. CASE ReadGetGameServers(p)
      <4>1. /\ known' = [known EXCEPT ![p] = UNION {Running(l) : l \in GameLaunchers}]
            /\ UNCHANGED <<toPlayer, browser>>
        BY <3>2 DEF ReadGetGameServers
      <4>2. QED
        BY <2>1, <4>1
    <3>3. QED
      BY <3>1, <3>2
<1>7. QED
  BY <1>2, <1>3, <1>4, <1>5, <1>6 DEF ReadRequest

LEMMA ChooseTyped ==
  ASSUME Typed, NEW p \in Players, ChooseGameLauncher(p) \/ NextLauncher(p)
  PROVE  Typed'
<1> USE DEF Typed, TypeOK, idVars, linkVars, wireVars, clientVars
<1>0. reader[p] \in Handlers /\ Idle \in Handlers /\ Idle.pc = "idle"
  BY DEF Handlers, Idle
<1>1. \E h \in Handlers : Goto(p, h) /\ h.pc \in {"idle", "lock"}
  <2>1. CASE ChooseGameLauncher(p)
    <3>1. \A l \in GameLaunchers :
            [pc |-> "lock", kind |-> "spawn", todo |-> {}, to |-> l] \in Handlers
      BY DEF GameLaunchers, Handlers, Asked
    <3>2. QED
      BY <2>1, <3>1, <1>0 DEF ChooseGameLauncher
  <2>2. CASE NextLauncher(p)
    <3>1. CASE reader[p].todo = {} /\ Goto(p, Idle)
      BY <1>0, <3>1
    <3>2. CASE \E l \in reader[p].todo :
                 Goto(p, [pc |-> "lock", kind |-> "list", todo |-> reader[p].todo \ {l}, to |-> l])
      <4>1. PICK l \in reader[p].todo :
              Goto(p, [pc |-> "lock", kind |-> "list", todo |-> reader[p].todo \ {l}, to |-> l])
        BY <3>2
      <4>2. reader[p].todo \in SUBSET Launchers
        BY <1>0, <2>2, HandlerFields DEF NextLauncher
      <4>3. [pc |-> "lock", kind |-> "list", todo |-> reader[p].todo \ {l}, to |-> l] \in Handlers
        BY <4>1, <4>2 DEF Handlers, Asked
      <4>4. QED
        BY <4>1, <4>3
    <3>3. QED
      BY <2>2, <3>1, <3>2 DEF NextLauncher
  <2>3. QED
    BY <2>1, <2>2
<1>2. PICK h \in Handlers : Goto(p, h) /\ h.pc \in {"idle", "lock"}
  BY <1>1
<1>3. reader' \in [Players -> Handlers]
  BY <1>2, GotoOnly
<1>4. reader[p].pc = "choose" /\ UNCHANGED requestIdMux
  BY DEF ChooseGameLauncher, NextLauncher
<1>5. requestIdMux' = {q \in Players : reader'[q].pc \in {"next", "increment"}} /\ Exclusive'
  BY <1>2, <1>4, OutsideMutex
<1>6. open' \in [Players -> BOOLEAN]
  BY DEF ChooseGameLauncher, NextLauncher
<1>7. QED
  BY <1>3, <1>5, <1>6 DEF ChooseGameLauncher, NextLauncher

LEMMA LockTyped ==
  ASSUME Typed, NEW p \in Players, LockIds(p)
  PROVE  Typed'
<1> USE DEF Typed, TypeOK, linkVars, wireVars, clientVars
<1>1. reader[p] \in Handlers /\ reader[p].pc = "lock"
  BY DEF LockIds
<1>2. PICK h \in Handlers : h = [reader[p] EXCEPT !.pc = "next"] /\ h.pc = "next"
  BY <1>1, Advance
<1>3. Goto(p, h)
  BY <1>2 DEF LockIds
<1>4. /\ reader' \in [Players -> Handlers]
      /\ requestIdMux' = {q \in Players : reader'[q].pc \in {"next", "increment"}}
      /\ Exclusive'
  <2>1. \A q \in Players : reader[q].pc \notin {"next", "increment"}
    BY DEF LockIds, LockFree
  <2>2. requestIdMux' = {p}
    BY DEF LockIds
  <2>3. /\ reader' \in [Players -> Handlers] /\ reader'[p] = h
        /\ \A q \in Players \ {p} : reader'[q] = reader[q]
    BY <1>3, GotoOnly
  <2>4. requestIdMux' = {q \in Players : reader'[q].pc \in {"next", "increment"}}
    BY <1>2, <2>1, <2>2, <2>3
  <2>5. QED
    BY <2>2, <2>3, <2>4 DEF Exclusive
<1>5. QED
  BY <1>4 DEF LockIds

LEMMA LoadTyped ==
  ASSUME Typed, NEW p \in Players, LoadId(p)
  PROVE  Typed'
<1> USE DEF Typed, TypeOK, idVars, linkVars, wireVars, clientVars
<1>1. reader[p] \in Handlers /\ reader[p].pc = "next"
  BY DEF LoadId
<1>2. PICK h \in Handlers : Goto(p, h) /\ h.pc = "increment"
  <2>1. /\ reader[p].kind \in Asked /\ reader[p].todo \in SUBSET Launchers
        /\ reader[p].to \in Launchers /\ currentRequestId \in RequestIds
    BY <1>1, HandlerFields
  <2>2. [pc |-> "increment", kind |-> reader[p].kind, todo |-> reader[p].todo,
         to |-> reader[p].to, id |-> currentRequestId] \in Handlers
    BY <2>1 DEF Handlers
  <2>3. QED
    BY <2>2 DEF LoadId
<1>3. requestIdMux' = {q \in Players : reader'[q].pc \in {"next", "increment"}} /\ Exclusive'
  BY <1>1, <1>2, OutsideMutex DEF LoadId
<1>4. reader' \in [Players -> Handlers]
  BY <1>2, GotoOnly
<1>5. QED
  BY <1>3, <1>4 DEF LoadId

LEMMA StoreIdTyped ==
  ASSUME Typed, NEW p \in Players, StoreId(p)
  PROVE  Typed'
<1> USE DEF Typed, TypeOK, linkVars, wireVars, clientVars
<1>1. reader[p] \in Handlers /\ reader[p].pc = "increment" /\ reader[p].id \in RequestIds
  BY HandlerFields DEF StoreId
<1>2. PICK h \in Handlers : h = [reader[p] EXCEPT !.pc = "store"] /\ h.pc = "store"
  BY <1>1, Advance
<1>3. Goto(p, h)
  BY <1>2 DEF StoreId
<1>4. /\ reader' \in [Players -> Handlers]
      /\ requestIdMux' = {q \in Players : reader'[q].pc \in {"next", "increment"}}
      /\ Exclusive'
  <2>1. \A q \in Players \ {p} : reader[q].pc \notin {"next", "increment"}
    BY <1>1 DEF Exclusive
  <2>2. requestIdMux' = {}
    BY DEF StoreId
  <2>3. /\ reader' \in [Players -> Handlers] /\ reader'[p] = h
        /\ \A q \in Players \ {p} : reader'[q] = reader[q]
    BY <1>3, GotoOnly
  <2>4. requestIdMux' = {q \in Players : reader'[q].pc \in {"next", "increment"}}
    BY <1>2, <2>1, <2>2, <2>3
  <2>5. QED
    BY <2>2, <2>3, <2>4 DEF Exclusive
<1>5. currentRequestId' \in RequestIds
  BY <1>1 DEF StoreId, RequestIds
<1>6. QED
  BY <1>4, <1>5 DEF StoreId

LEMMA StorePendingTyped ==
  ASSUME Typed, NEW p \in Players, StorePending(p)
  PROVE  Typed'
<1> USE DEF Typed, TypeOK, linkVars, wireVars, clientVars
<1>1. reader[p] \in Handlers /\ reader[p].pc = "store" /\ reader[p].id \in RequestIds
  BY HandlerFields DEF StorePending
<1>2. PICK h \in Handlers : Goto(p, h) /\ h.pc = "send"
  BY <1>1, Advance DEF StorePending
<1>3. requestIdMux' = {q \in Players : reader'[q].pc \in {"next", "increment"}} /\ Exclusive'
  BY <1>1, <1>2, OutsideMutex DEF StorePending
<1>4. reader' \in [Players -> Handlers]
  BY <1>2, GotoOnly
<1>5. /\ DOMAIN pendingRequests' \subseteq RequestIds
      /\ pendingRequests' \in [DOMAIN pendingRequests' -> Players]
  BY <1>1 DEF StorePending, FileUnder
<1>6. reused' \in BOOLEAN
  BY DEF StorePending
<1>7. QED
  BY <1>3, <1>4, <1>5, <1>6 DEF StorePending

LEMMA SendTyped ==
  ASSUME Typed, NEW p \in Players, SendRequest(p)
  PROVE  Typed'
<1> USE DEF Typed, TypeOK, idVars, linkVars, wireVars, clientVars
<1>1. /\ reader[p] \in Handlers /\ reader[p].pc = "send" /\ reader[p].id \in RequestIds
      /\ reader[p].to \in Launchers /\ reader[p].kind \in Asked
      /\ reader[p].todo \in SUBSET Launchers
  BY HandlerFields DEF SendRequest
<1>2. PICK h \in Handlers : Goto(p, h) /\ h.pc \in {"idle", "choose"}
  <2>1. AfterSend(reader[p]) \in Handlers /\ AfterSend(reader[p]).pc \in {"idle", "choose"}
    BY <1>1 DEF AfterSend, Handlers, Idle, Asked
  <2>2. QED
    BY <2>1 DEF SendRequest
<1>3. requestIdMux' = {q \in Players : reader'[q].pc \in {"next", "increment"}} /\ Exclusive'
  BY <1>1, <1>2, OutsideMutex DEF SendRequest
<1>4. reader' \in [Players -> Handlers]
  BY <1>2, GotoOnly
<1>5. lost' \subseteq RequestIds
  BY <1>1 DEF SendRequest
<1>6. /\ toLauncher' \in [Launchers -> Seq(Requests)]
      /\ \A l \in Launchers : Len(toLauncher'[l]) <= ChanCap
  <2> DEFINE m == [kind |-> reader[p].kind, id |-> reader[p].id, by |-> p]
             to == reader[p].to
  <2>1. m \in Requests
    BY <1>1 DEF Requests
  <2> HIDE DEF m
  <2>2. CASE Room(toLauncher[to])
    <3>1. toLauncher' = [toLauncher EXCEPT ![to] = Append(@, m)]
      BY <2>2 DEF SendRequest, m
    <3>2. Append(toLauncher[to], m) \in Seq(Requests) /\ Len(Append(toLauncher[to], m)) <= ChanCap
      BY <1>1, <2>1, <2>2, AppendProperties DEF Room
    <3>3. QED
      BY <1>1, <3>1, <3>2
  <2>3. CASE ~Room(toLauncher[to])
    BY <2>3 DEF SendRequest
  <2>4. QED
    BY <2>2, <2>3
<1>7. QED
  BY <1>3, <1>4, <1>5, <1>6 DEF SendRequest

LEMMA IdsAreIds ==
  /\ \A s \in Seq(Requests) : Ids(s) \subseteq RequestIds
  /\ \A s \in Seq(Answers) : Ids(s) \subseteq RequestIds
<1>1. ASSUME NEW s \in Seq(Requests) PROVE Ids(s) \subseteq RequestIds
  <2>1. Range(s) \subseteq Requests
    BY DEF Range
  <2>2. QED
    BY <2>1 DEF Ids, Requests
<1>2. ASSUME NEW s \in Seq(Answers) PROVE Ids(s) \subseteq RequestIds
  <2>1. Range(s) \subseteq Answers
    BY DEF Range
  <2>2. QED
    BY <2>1 DEF Ids, Answers
<1>3. QED
  BY <1>1, <1>2

\* The connections of the launchers.
LEMMA LinkTyped ==
  ASSUME Typed, NEW l \in Launchers, Connect(l) \/ LoseLauncher(l) \/ ReconnectLauncher(l)
  PROVE  Typed'
<1> USE DEF Typed, TypeOK, Exclusive, idVars, playerVars, wireVars, clientVars
<1>1. CASE Connect(l)
  BY <1>1 DEF Connect
<1>2. CASE LoseLauncher(l)
  <2>1. Ids(requests[l]) \subseteq RequestIds /\ Ids(answers[l]) \subseteq RequestIds
    BY IdsAreIds
  <2>2. lost' \subseteq RequestIds
    BY <1>2, <2>1 DEF LoseLauncher, Cut
  <2>3. /\ link' \in [Launchers -> {"absent", "store", "up", "down"}]
        /\ requests' \in [Launchers -> Seq(Requests)] /\ answers' \in [Launchers -> Seq(Answers)]
    <3>1. << >> \in Seq(Requests) /\ << >> \in Seq(Answers)
      OBVIOUS
    <3>2. QED
      BY <1>2, <3>1 DEF LoseLauncher, Cut
  <2>4. losses' \in 0 .. MaxLosses
    BY <1>2 DEF LoseLauncher
  <2>5. \A k \in Launchers : link'[k] # "up" => requests'[k] = << >> /\ answers'[k] = << >>
    BY <1>2 DEF LoseLauncher, Cut
  <2>6. QED
    BY <1>2, <2>2, <2>3, <2>4, <2>5 DEF LoseLauncher
<1>3. CASE ReconnectLauncher(l)
  BY <1>3 DEF ReconnectLauncher
<1>4. QED
  BY <1>1, <1>2, <1>3

LEMMA StoreLauncherTyped ==
  ASSUME Typed, NEW l \in Launchers, StoreLauncher(l)
  PROVE  Typed'
<1> USE DEF Typed, TypeOK, idVars, wireVars, clientVars
<1>1. PICK S \in SUBSET {p \in Players : reader[p] # Idle /\ reader[p].kind = "list"} :
        reader' = [p \in Players |-> IF p \in S THEN [reader[p] EXCEPT !.todo = @ \cup {l}]
                                                ELSE reader[p]]
  BY DEF StoreLauncher
<1>2. ASSUME NEW p \in Players PROVE reader'[p] \in Handlers /\ reader'[p].pc = reader[p].pc
  <2>1. CASE p \in S
    <3>1. reader'[p] = [reader[p] EXCEPT !.todo = @ \cup {l}] /\ reader[p] # Idle
      BY <1>1, <2>1
    <3>2. reader[p] \in Handlers /\ reader[p].pc # "idle"
      BY <3>1, HandlerFields
    <3>3. reader[p].kind \in Asked /\ reader[p].todo \cup {l} \in SUBSET Launchers
      BY <3>2, HandlerFields
    <3>4. CASE reader[p].pc = "choose"
      BY <3>1, <3>2, <3>3, <3>4 DEF Handlers, Idle
    <3>5. CASE reader[p].pc \in {"lock", "next"}
      BY <3>1, <3>2, <3>3, <3>5 DEF Handlers, Idle
    <3>6. CASE reader[p].pc \in {"increment", "store", "send"}
      BY <3>1, <3>2, <3>3, <3>6 DEF Handlers, Idle
    <3>7. QED
      BY <3>2, <3>4, <3>5, <3>6, HandlerFields
  <2>2. CASE p \notin S
    BY <1>1, <2>2
  <2>3. QED
    BY <2>1, <2>2
<1>3. reader' \in [Players -> Handlers]
  BY <1>1, <1>2
<1>4. requestIdMux' = {p \in Players : reader'[p].pc \in {"next", "increment"}} /\ Exclusive'
  BY <1>2 DEF StoreLauncher, Exclusive
<1>5. QED
  BY <1>3, <1>4 DEF StoreLauncher

LEMMA WriteTyped ==
  ASSUME Typed, NEW l \in Launchers, WriteRequest(l)
  PROVE  Typed'
<1> USE DEF Typed, TypeOK, Exclusive, idVars, playerVars, wireVars, clientVars
<1>1. /\ Head(toLauncher[l]) \in Requests /\ Tail(toLauncher[l]) \in Seq(Requests)
      /\ Len(Tail(toLauncher[l])) <= ChanCap
  BY HeadTailProperties DEF WriteRequest
<1>2. /\ toLauncher' \in [Launchers -> Seq(Requests)]
      /\ \A k \in Launchers : Len(toLauncher'[k]) <= ChanCap
  BY <1>1 DEF WriteRequest
<1>3. /\ requests' \in [Launchers -> Seq(Requests)]
      /\ \A k \in Launchers : link[k] # "up" => requests'[k] = << >>
  <2>1. CASE link[l] = "up"
    <3>1. requests' = [requests EXCEPT ![l] = Append(@, Head(toLauncher[l]))]
      BY <2>1 DEF WriteRequest
    <3>2. Append(requests[l], Head(toLauncher[l])) \in Seq(Requests)
      BY <1>1
    <3>3. QED
      BY <2>1, <3>1, <3>2
  <2>2. CASE link[l] # "up"
    BY <2>2 DEF WriteRequest
  <2>3. QED
    BY <2>1, <2>2
<1>4. writer' \in [Launchers -> BOOLEAN]
  BY DEF WriteRequest
<1>5. lost' \subseteq RequestIds
  <2>1. Ids(toLauncher[l]) \subseteq RequestIds
    BY IdsAreIds
  <2>2. QED
    BY <2>1 DEF WriteRequest
<1>6. QED
  BY <1>2, <1>3, <1>4, <1>5 DEF WriteRequest

LEMMA RunningRows ==
  ASSUME NEW l \in Launchers, servers[l] \in Nat
  PROVE  Running(l) \in {S \in SUBSET Rows : IsFiniteSet(S)}
<1>1. Running(l) \subseteq Rows
  BY DEF Running, Rows
<1>2. IsFiniteSet(Running(l))
  <2>1. IsFiniteSet(1 .. servers[l])
    BY FS_Interval
  <2>2. IsFiniteSet({<<l, i>> : i \in 1 .. servers[l]})
    <3> DEFINE f == [i \in 1 .. servers[l] |-> <<l, i>>]
               T == {<<l, i>> : i \in 1 .. servers[l]}
    <3>1. f \in Surjection(1 .. servers[l], T)
      BY DEF Surjection
    <3>2. QED
      BY <2>1, <3>1, FS_Surjection
  <2>3. QED
    BY <2>2 DEF Running
<1>3. QED
  BY <1>1, <1>2

LEMMA ServeTyped ==
  ASSUME Typed, NEW l \in Launchers, Serve(l)
  PROVE  /\ Typed'
         /\ \E S : /\ answers' = [answers EXCEPT ![l] = Append(@,
                        [kind |-> Head(requests[l]).kind, id |-> Head(requests[l]).id,
                         by |-> Head(requests[l]).by, servers |-> S])]
                   /\ S \in {T \in SUBSET Rows : IsFiniteSet(T)}
<1> USE DEF Typed, TypeOK, Exclusive, idVars, playerVars, linkVars, clientVars
<1> DEFINE m == Head(requests[l])
           S == IF m.kind = "spawn" THEN {<<l, servers'[l]>>} ELSE Running(l)
<1>1. m \in Requests /\ Tail(requests[l]) \in Seq(Requests)
  BY HeadTailProperties DEF Serve
<1>2. servers' \in [Launchers -> Nat] /\ servers'[l] \in Nat
  BY DEF Serve
<1>3. S \in {T \in SUBSET Rows : IsFiniteSet(T)}
  <2>1. CASE m.kind = "spawn"
    <3>1. <<l, servers'[l]>> \in Rows
      BY <1>2 DEF Rows
    <3>2. QED
      BY <2>1, <3>1, FS_Singleton
  <2>2. CASE m.kind # "spawn"
    BY <2>2, RunningRows
  <2>3. QED
    BY <2>1, <2>2
<1>4. answers' = [answers EXCEPT ![l] = Append(@,
                    [kind |-> m.kind, id |-> m.id, by |-> m.by, servers |-> S])]
  BY DEF Serve
<1> HIDE DEF S
<1>5. [kind |-> m.kind, id |-> m.id, by |-> m.by, servers |-> S] \in Answers
  BY <1>1, <1>3 DEF Requests, Answers
<1> HIDE DEF m
<1>6. answers' \in [Launchers -> Seq(Answers)]
  <2>1. Append(answers[l], [kind |-> m.kind, id |-> m.id, by |-> m.by, servers |-> S])
          \in Seq(Answers)
    BY <1>5
  <2>2. QED
    BY <1>4, <2>1
<1>7. requests' \in [Launchers -> Seq(Requests)]
  BY <1>1 DEF Serve
<1>8. \A k \in Launchers : link[k] # "up" => requests'[k] = << >> /\ answers'[k] = << >>
  BY <1>4 DEF Serve
<1>9. Typed'
  BY <1>2, <1>6, <1>7, <1>8 DEF Serve
<1>10. QED
  BY <1>3, <1>4, <1>9 DEF m

LEMMA AnswerTyped ==
  ASSUME Typed, NEW l \in Launchers, ReceiveAnswer(l)
  PROVE  Typed'
<1> USE DEF Typed, TypeOK, Exclusive, playerVars
<1> DEFINE m == Head(answers[l])
           p == pendingRequests[m.id]
<1>1. m \in Answers /\ m.id \in RequestIds /\ Tail(answers[l]) \in Seq(Answers)
  <2>1. answers[l] \in Seq(Answers) /\ answers[l] # << >>
    BY DEF ReceiveAnswer
  <2>2. m \in Answers /\ Tail(answers[l]) \in Seq(Answers)
    BY <2>1, HeadTailProperties
  <2>3. QED
    BY <2>2 DEF Answers
<1>2. UNCHANGED <<currentRequestId, requestIdMux, reused, reader, open, asked, writer, losses,
                  crashed, toLauncher, servers, browser, known>>
  BY DEF ReceiveAnswer
<1>3. CASE m.id \in DOMAIN pendingRequests
  <2>1. /\ pendingRequests' = LoadAndDelete(m.id)
        /\ IF Room(toPlayer[p])
           THEN toPlayer' = [toPlayer EXCEPT ![p] = Append(@, m)] /\ UNCHANGED lost
           ELSE lost' = lost \cup {m.id} /\ UNCHANGED toPlayer
        /\ answers' = [answers EXCEPT ![l] = Tail(@)]
        /\ UNCHANGED <<link, requests>>
    BY <1>3 DEF ReceiveAnswer
  <2>2. p \in Players
    BY <1>3
  <2> HIDE DEF m, p
  <2>3. /\ DOMAIN pendingRequests' \subseteq RequestIds
        /\ pendingRequests' \in [DOMAIN pendingRequests' -> Players]
    BY <2>1 DEF LoadAndDelete
  <2>4. /\ answers' \in [Launchers -> Seq(Answers)]
        /\ \A k \in Launchers : link'[k] # "up" => requests'[k] = << >> /\ answers'[k] = << >>
    BY <1>1, <2>1 DEF ReceiveAnswer
  <2>5. /\ toPlayer' \in [Players -> Seq(Answers)] /\ lost' \subseteq RequestIds
        /\ \A q \in Players : Len(toPlayer'[q]) <= ChanCap
    <3>1. CASE Room(toPlayer[p])
      <4>1. Append(toPlayer[p], m) \in Seq(Answers) /\ Len(Append(toPlayer[p], m)) <= ChanCap
        BY <1>1, <2>2, <3>1, AppendProperties DEF Room
      <4>2. QED
        BY <2>1, <2>2, <3>1, <4>1
    <3>2. CASE ~Room(toPlayer[p])
      BY <1>1, <2>1, <3>2
    <3>3. QED
      BY <3>1, <3>2
  <2>6. QED
    BY <1>2, <2>1, <2>3, <2>4, <2>5
<1>4. CASE m.id \notin DOMAIN pendingRequests
  <2>1. Cut(l) /\ UNCHANGED <<pendingRequests, toPlayer>>
    BY <1>4 DEF ReceiveAnswer
  <2>2. Ids(requests[l]) \subseteq RequestIds /\ Ids(answers[l]) \subseteq RequestIds
    BY IdsAreIds
  <2>3. lost' \subseteq RequestIds
    BY <2>1, <2>2 DEF Cut
  <2>4. /\ link' \in [Launchers -> {"absent", "store", "up", "down"}]
        /\ requests' \in [Launchers -> Seq(Requests)] /\ answers' \in [Launchers -> Seq(Answers)]
    <3>1. << >> \in Seq(Requests) /\ << >> \in Seq(Answers)
      OBVIOUS
    <3>2. QED
      BY <2>1, <3>1 DEF Cut
  <2>5. \A k \in Launchers : link'[k] # "up" => requests'[k] = << >> /\ answers'[k] = << >>
    BY <2>1 DEF Cut
  <2>6. QED
    BY <1>2, <2>1, <2>3, <2>4, <2>5
<1>5. QED
  BY <1>3, <1>4

\* A list of what is in a finite set, each once.
LEMMA ListOfSet ==
  ASSUME NEW S, IsFiniteSet(S)
  PROVE  /\ SetToSeq(S) \in [1 .. Cardinality(S) -> S] /\ IsInjective(SetToSeq(S))
         /\ SetToSeq(S) \in Seq(S) /\ Cardinality(S) \in Nat
         /\ \A s \in S : \E i \in 1 .. Cardinality(S) : SetToSeq(S)[i] = s
<1>1. Cardinality(S) \in Nat
  BY FS_CardinalityType
<1>2. PICK f \in Bijection(1 .. Cardinality(S), S) : TRUE
  BY FS_CardinalityType DEF ExistsBijection
<1>3. f \in [1 .. Cardinality(S) -> S] /\ IsInjective(f)
  BY <1>2 DEF Bijection, Injection, IsInjective
<1>4. SetToSeq(S) \in [1 .. Cardinality(S) -> S] /\ IsInjective(SetToSeq(S))
  BY <1>3 DEF SetToSeq
<1>5. SetToSeq(S) \in Seq(S)
  BY <1>1, <1>4
<1>6. \A s \in S : \E i \in 1 .. Cardinality(S) : SetToSeq(S)[i] = s
  <2> DEFINE g == SetToSeq(S)
  <2>1. g \in Injection(1 .. Cardinality(S), S)
    BY <1>4 DEF Injection, IsInjective
  <2>2. IsFiniteSet(1 .. Cardinality(S)) /\ Cardinality(1 .. Cardinality(S)) = Cardinality(S)
    BY <1>1, FS_Interval
  <2>3. g \in Surjection(1 .. Cardinality(S), S)
    BY <2>1, <2>2, FS_Injection
  <2>4. QED
    BY <2>3 DEF Surjection
<1>7. QED
  BY <1>1, <1>4, <1>5, <1>6

LEMMA PlayerTyped ==
  ASSUME Typed, NEW p \in Players, LosePlayer(p) \/ ClientReceive(p)
  PROVE  Typed'
<1> USE DEF Typed, TypeOK, Exclusive, idVars, linkVars, playerVars, wireVars, clientVars
<1>1. CASE LosePlayer(p)
  <2>1. losses' \in 0 .. MaxLosses
    BY <1>1 DEF LosePlayer
  <2>2. open' \in [Players -> BOOLEAN]
    BY <1>1 DEF LosePlayer
  <2>3. QED
    BY <1>1, <2>1, <2>2 DEF LosePlayer
<1>2. CASE ClientReceive(p)
  <2> DEFINE m == Head(toPlayer[p])
  <2>1. m \in Answers /\ Tail(toPlayer[p]) \in Seq(Answers) /\ Len(Tail(toPlayer[p])) <= ChanCap
    <3>1. toPlayer[p] \in Seq(Answers) /\ toPlayer[p] # << >>
      BY <1>2 DEF ClientReceive
    <3>2. QED
      BY <3>1, HeadTailProperties
  <2>2. m.servers \in SUBSET Rows /\ IsFiniteSet(m.servers)
    BY <2>1 DEF Answers
  <2>3. SetToSeq(m.servers) \in Seq(Rows)
    <3>1. SetToSeq(m.servers) \in Seq(m.servers)
      BY <2>2, ListOfSet
    <3>2. QED
      BY <2>2, <3>1, SeqMonotonic
  <2>4. /\ \/ browser' = [browser EXCEPT ![p] = @ \o SetToSeq(m.servers)]
           \/ browser' = [browser EXCEPT ![p] = SetToSeq(m.servers)]
        /\ \/ known' = [known EXCEPT ![p] = @ \cup m.servers]
           \/ known' = known
    BY <1>2 DEF ClientReceive, RowsSpawned, RowsListed
  <2>5. toPlayer' = [toPlayer EXCEPT ![p] = Tail(@)]
    BY <1>2 DEF ClientReceive
  <2> HIDE DEF m
  <2>6. browser' \in [Players -> Seq(Rows)]
    <3>1. browser[p] \o SetToSeq(m.servers) \in Seq(Rows)
      BY <2>3, ConcatProperties
    <3>2. QED
      BY <2>3, <2>4, <3>1
  <2>7. known' \in [Players -> SUBSET Rows]
    <3>1. known[p] \cup m.servers \in SUBSET Rows
      BY <2>2
    <3>2. CASE known' = [known EXCEPT ![p] = @ \cup m.servers]
      BY <3>1, <3>2
    <3>3. CASE known' = known
      BY <3>3
    <3>4. QED
      BY <2>4, <3>2, <3>3
  <2>8. toPlayer' \in [Players -> Seq(Answers)] /\ \A q \in Players : Len(toPlayer'[q]) <= ChanCap
    BY <2>1, <2>5 DEF m
  <2>9. QED
    BY <1>2, <2>6, <2>7, <2>8 DEF ClientReceive
<1>3. QED
  BY <1>1, <1>2

LEMMA NextTyped == Typed /\ [Next]_vars => Typed'
<1> SUFFICES ASSUME Typed, [Next]_vars PROVE Typed'
  OBVIOUS
<1>1. CASE UNCHANGED vars
  BY <1>1 DEF vars, idVars, playerVars, linkVars, wireVars, clientVars, Typed, TypeOK, Exclusive
<1>2. ASSUME NEW p \in Players, Handle(p) PROVE Typed'
  BY <1>2, ChooseTyped, LockTyped, LoadTyped, StoreIdTyped, StorePendingTyped, SendTyped DEF Handle
<1>3. ASSUME NEW p \in Players,
             \/ ReadSpawnServerRequest(p) \/ ReadGetGameServers(p)
             \/ LosePlayer(p) \/ ClientReceive(p)
      PROVE  Typed'
  BY <1>3, ReadTyped, PlayerTyped
<1>4. ASSUME NEW l \in Launchers,
             \/ Connect(l) \/ StoreLauncher(l) \/ WriteRequest(l) \/ LoseLauncher(l)
             \/ ReconnectLauncher(l) \/ Serve(l) \/ ReceiveAnswer(l)
      PROVE  Typed'
  BY <1>4, LinkTyped, StoreLauncherTyped, WriteTyped, ServeTyped, AnswerTyped
<1>5. CASE MapRace
  BY <1>5 DEF MapRace, idVars, playerVars, wireVars, clientVars, Typed, TypeOK, Exclusive
<1>6. QED
  BY <1>1, <1>2, <1>3, <1>4, <1>5 DEF Next

\* Requests, answers and handlers keep their types, and the handler that holds
\* requestIdMux is the one that is inside GetNextRequestId.
THEOREM TypeCorrect == Spec => []TypeOK
<1>1. Typed => TypeOK
  BY DEF Typed
<1>2. QED
  BY <1>1, InitTyped, NextTyped, PTL DEF Spec

\* Two handlers are never inside GetNextRequestId together.
THEOREM MutexCorrect == Spec => []Exclusive
<1>1. Typed => Exclusive
  BY DEF Typed
<1>2. QED
  BY <1>1, InitTyped, NextTyped, PTL DEF Spec

-----------------------------------------------------------------------------
(***************************************************************************)
(* What is under way between a launcher and the matchmaking server: the    *)
(* answers, then the requests, then what the writer has not taken.         *)
(***************************************************************************)
Pipe(l) == (answers[l] \o requests[l]) \o toLauncher[l]

Messages == Requests \cup Answers

LEMMA PipeParts ==
  ASSUME TypeOK, NEW l \in Launchers
  PROVE  /\ answers[l] \in Seq(Messages) /\ requests[l] \in Seq(Messages)
         /\ toLauncher[l] \in Seq(Messages)
         /\ answers[l] \o requests[l] \in Seq(Messages)
         /\ Pipe(l) \in Seq(Messages) /\ Len(Pipe(l)) \in Nat
         /\ DOMAIN Pipe(l) = 1 .. Len(Pipe(l))
         /\ Len(Pipe(l)) = Len(answers[l]) + Len(requests[l]) + Len(toLauncher[l])
         /\ Len(answers[l]) \in Nat /\ Len(requests[l]) \in Nat /\ Len(toLauncher[l]) \in Nat
         /\ Len(answers[l]) + Len(requests[l]) \in Nat
<1>1. /\ answers[l] \in Seq(Messages) /\ requests[l] \in Seq(Messages)
      /\ toLauncher[l] \in Seq(Messages)
  <2>1. /\ answers[l] \in Seq(Answers)
        /\ requests[l] \in Seq(Requests) /\ toLauncher[l] \in Seq(Requests)
    BY DEF TypeOK
  <2>2. QED
    BY <2>1, SeqMonotonic DEF Messages
<1>2. /\ answers[l] \o requests[l] \in Seq(Messages)
      /\ Len(answers[l] \o requests[l]) = Len(answers[l]) + Len(requests[l])
  BY <1>1, ConcatProperties
<1>3. /\ Pipe(l) \in Seq(Messages)
      /\ Len(Pipe(l)) = Len(answers[l] \o requests[l]) + Len(toLauncher[l])
  BY <1>1, <1>2, ConcatProperties DEF Pipe
<1>4. QED
  BY <1>1, <1>2, <1>3, LenProperties

\* Where the parts of the pipe are.
LEMMA PipeIndex ==
  ASSUME TypeOK, NEW l \in Launchers
  PROVE  /\ \A i \in 1 .. Len(answers[l]) : i \in DOMAIN Pipe(l) /\ Pipe(l)[i] = answers[l][i]
         /\ \A i \in 1 .. Len(requests[l]) :
              /\ Len(answers[l]) + i \in DOMAIN Pipe(l)
              /\ Pipe(l)[Len(answers[l]) + i] = requests[l][i]
         /\ \A i \in 1 .. Len(toLauncher[l]) :
              /\ Len(answers[l]) + Len(requests[l]) + i \in DOMAIN Pipe(l)
              /\ Pipe(l)[Len(answers[l]) + Len(requests[l]) + i] = toLauncher[l][i]
<1> DEFINE a == answers[l]
           r == requests[l]
           t == toLauncher[l]
<1>1. /\ a \in Seq(Messages) /\ r \in Seq(Messages) /\ t \in Seq(Messages)
      /\ a \o r \in Seq(Messages)
      /\ Len(a) \in Nat /\ Len(r) \in Nat /\ Len(t) \in Nat
      /\ DOMAIN Pipe(l) = 1 .. Len(a) + Len(r) + Len(t)
  BY PipeParts
<1>2. Pipe(l) = (a \o r) \o t
  BY DEF Pipe
<1> HIDE DEF a, r, t
<1>3. /\ Len(a \o r) = Len(a) + Len(r)
      /\ \A i \in 1 .. Len(a) + Len(r) :
           (a \o r)[i] = IF i <= Len(a) THEN a[i] ELSE r[i - Len(a)]
  BY <1>1, ConcatProperties
<1>4. \A i \in 1 .. Len(a) + Len(r) + Len(t) :
        Pipe(l)[i] = IF i <= Len(a) + Len(r) THEN (a \o r)[i] ELSE t[i - (Len(a) + Len(r))]
  <2>1. \A i \in 1 .. Len(a \o r) + Len(t) :
          ((a \o r) \o t)[i] = IF i <= Len(a \o r) THEN (a \o r)[i] ELSE t[i - Len(a \o r)]
    BY <1>1, ConcatProperties
  <2>2. QED
    BY <1>2, <1>3, <2>1
<1>5. \A i \in 1 .. Len(a) : i \in DOMAIN Pipe(l) /\ Pipe(l)[i] = a[i]
  BY <1>1, <1>3, <1>4
<1>6. \A i \in 1 .. Len(r) : Len(a) + i \in DOMAIN Pipe(l) /\ Pipe(l)[Len(a) + i] = r[i]
  <2> SUFFICES ASSUME NEW i \in 1 .. Len(r)
               PROVE  Len(a) + i \in DOMAIN Pipe(l) /\ Pipe(l)[Len(a) + i] = r[i]
    OBVIOUS
  <2>1. /\ Len(a) + i \in 1 .. Len(a) + Len(r) /\ ~(Len(a) + i <= Len(a))
        /\ Len(a) + i - Len(a) = i /\ Len(a) + i \in 1 .. Len(a) + Len(r) + Len(t)
        /\ Len(a) + i <= Len(a) + Len(r)
    BY <1>1
  <2>2. QED
    BY <1>1, <1>3, <1>4, <2>1
<1>7. \A i \in 1 .. Len(t) : /\ Len(a) + Len(r) + i \in DOMAIN Pipe(l)
                             /\ Pipe(l)[Len(a) + Len(r) + i] = t[i]
  <2> SUFFICES ASSUME NEW i \in 1 .. Len(t)
               PROVE  /\ Len(a) + Len(r) + i \in DOMAIN Pipe(l)
                      /\ Pipe(l)[Len(a) + Len(r) + i] = t[i]
    OBVIOUS
  <2>1. /\ Len(a) + Len(r) + i \in 1 .. Len(a) + Len(r) + Len(t)
        /\ ~(Len(a) + Len(r) + i <= Len(a) + Len(r))
        /\ Len(a) + Len(r) + i - (Len(a) + Len(r)) = i
    BY <1>1
  <2>2. QED
    BY <1>1, <1>4, <2>1
<1>8. QED
  BY <1>5, <1>6, <1>7 DEF a, r, t

\* Every place of the pipe is in one of the parts.
LEMMA PipeWhere ==
  ASSUME TypeOK, NEW l \in Launchers, NEW i \in DOMAIN Pipe(l)
  PROVE  \/ i \in 1 .. Len(answers[l])
         \/ \E j \in 1 .. Len(requests[l]) : i = Len(answers[l]) + j
         \/ \E j \in 1 .. Len(toLauncher[l]) : i = Len(answers[l]) + Len(requests[l]) + j
<1> DEFINE a == Len(answers[l])
           r == Len(requests[l])
           t == Len(toLauncher[l])
<1>1. a \in Nat /\ r \in Nat /\ t \in Nat /\ i \in 1 .. a + r + t
  <2>1. Len(Pipe(l)) = a + r + t /\ DOMAIN Pipe(l) = 1 .. Len(Pipe(l))
    BY PipeParts
  <2>2. a \in Nat /\ r \in Nat /\ t \in Nat
    BY PipeParts
  <2>3. QED
    BY <2>1, <2>2
<1> HIDE DEF a, r, t
<1>2. CASE i > a /\ i <= a + r
  <2>1. i - a \in 1 .. r /\ i = a + (i - a)
    BY <1>1, <1>2
  <2>2. QED
    BY <2>1 DEF a, r, t
<1>3. CASE i > a + r
  <2>1. i - (a + r) \in 1 .. t /\ i = a + r + (i - (a + r))
    BY <1>1, <1>3
  <2>2. QED
    BY <2>1 DEF a, r, t
<1>4. CASE i <= a
  <2>1. i \in 1 .. a
    BY <1>1, <1>4
  <2>2. QED
    BY <2>1 DEF a
<1>5. (i > a /\ i <= a + r) \/ i > a + r \/ i <= a
  BY <1>1
<1>6. QED
  BY <1>2, <1>3, <1>4, <1>5

LEMMA SentIsPipe ==
  ASSUME TypeOK, NEW l \in Launchers
  PROVE  /\ \A m \in Sent(l) : \E i \in DOMAIN Pipe(l) : Pipe(l)[i] = m
         /\ \A i \in DOMAIN Pipe(l) : Pipe(l)[i] \in Sent(l)
<1>1. /\ DOMAIN answers[l] = 1 .. Len(answers[l]) /\ DOMAIN requests[l] = 1 .. Len(requests[l])
      /\ DOMAIN toLauncher[l] = 1 .. Len(toLauncher[l])
  BY PipeParts, LenProperties
<1>2. ASSUME NEW m \in Sent(l) PROVE \E i \in DOMAIN Pipe(l) : Pipe(l)[i] = m
  <2>1. CASE m \in Range(answers[l])
    <3>1. PICK i \in 1 .. Len(answers[l]) : answers[l][i] = m
      BY <1>1, <2>1 DEF Range
    <3>2. QED
      BY <3>1, PipeIndex
  <2>2. CASE m \in Range(requests[l])
    <3>1. PICK i \in 1 .. Len(requests[l]) : requests[l][i] = m
      BY <1>1, <2>2 DEF Range
    <3>2. QED
      BY <3>1, PipeIndex
  <2>3. CASE m \in Range(toLauncher[l])
    <3>1. PICK i \in 1 .. Len(toLauncher[l]) : toLauncher[l][i] = m
      BY <1>1, <2>3 DEF Range
    <3>2. QED
      BY <3>1, PipeIndex
  <2>4. QED
    BY <1>2, <2>1, <2>2, <2>3 DEF Sent
<1>3. ASSUME NEW i \in DOMAIN Pipe(l) PROVE Pipe(l)[i] \in Sent(l)
  <2>1. CASE i \in 1 .. Len(answers[l])
    BY <1>1, <2>1, PipeIndex DEF Range, Sent
  <2>2. CASE \E j \in 1 .. Len(requests[l]) : i = Len(answers[l]) + j
    <3>1. PICK j \in 1 .. Len(requests[l]) : i = Len(answers[l]) + j
      BY <2>2
    <3>2. Pipe(l)[i] = requests[l][j]
      BY <3>1, PipeIndex
    <3>3. QED
      BY <1>1, <3>1, <3>2 DEF Range, Sent
  <2>3. CASE \E j \in 1 .. Len(toLauncher[l]) : i = Len(answers[l]) + Len(requests[l]) + j
    <3>1. PICK j \in 1 .. Len(toLauncher[l]) : i = Len(answers[l]) + Len(requests[l]) + j
      BY <2>3
    <3>2. Pipe(l)[i] = toLauncher[l][j]
      BY <3>1, PipeIndex
    <3>3. QED
      BY <1>1, <3>1, <3>2 DEF Range, Sent
  <2>4. QED
    BY <2>1, <2>2, <2>3, PipeWhere
<1>4. QED
  BY <1>2, <1>3

-----------------------------------------------------------------------------
(***************************************************************************)
(* What a step does to the pipe of a launcher.                             *)
(***************************************************************************)
\* n messages leave it, from the front; the others keep their ids and askers.
Drains(l, n) ==
  /\ Len(Pipe(l))' + n = Len(Pipe(l))
  /\ \A i \in 1 .. Len(Pipe(l))' :
       /\ Pipe(l)'[i].id = Pipe(l)[i + n].id
       /\ Pipe(l)'[i].by = Pipe(l)[i + n].by

LEMMA SamePipe ==
  ASSUME TypeOK, NEW l \in Launchers,
         answers'[l] = answers[l], requests'[l] = requests[l], toLauncher'[l] = toLauncher[l]
  PROVE  Drains(l, 0)
<1>1. Pipe(l)' = Pipe(l) /\ Len(Pipe(l)) \in Nat
  BY PipeParts DEF Pipe
<1>2. QED
  BY <1>1 DEF Drains

\* The pipe of a connection that is lost keeps what the writer has not taken.
LEMMA CutDrains ==
  ASSUME TypeOK, TypeOK', NEW l \in Launchers,
         answers'[l] = << >>, requests'[l] = << >>, toLauncher'[l] = toLauncher[l]
  PROVE  Drains(l, Len(answers[l]) + Len(requests[l]))
<1> DEFINE t == toLauncher[l]
           n == Len(answers[l]) + Len(requests[l])
<1>1. n \in Nat /\ Len(t) \in Nat /\ Len(Pipe(l)) = n + Len(t)
  BY PipeParts, Zenon
<1>2. Pipe(l)' = t
  <2>1. t \in Seq(Messages)
    BY PipeParts
  <2>2. (<< >> \o << >>) \o t = t
    BY <2>1, ConcatEmptySeq
  <2>3. QED
    BY <2>2 DEF Pipe
<1>3. \A i \in 1 .. Len(t) : Pipe(l)[n + i] = t[i]
  BY PipeIndex
<1>4. Len(Pipe(l))' = Len(t)
  BY <1>2
<1> HIDE DEF t, n
<1>5. \A i \in 1 .. Len(t) : n + i = i + n
  BY <1>1
<1>6. Drains(l, n)
  BY <1>1, <1>2, <1>3, <1>4, <1>5 DEF Drains
<1>7. QED
  BY <1>6 DEF n

LEMMA WriteDrains ==
  ASSUME TypeOK, TypeOK', NEW l \in Launchers, WriteRequest(l)
  PROVE  \E n \in Nat : Drains(l, n)
<1> DEFINE a == answers[l]
           r == requests[l]
           t == toLauncher[l]
<1>1. /\ t \in Seq(Messages) /\ t # << >> /\ toLauncher'[l] = Tail(t)
      /\ a \in Seq(Messages) /\ r \in Seq(Messages) /\ a \o r \in Seq(Messages)
  BY PipeParts DEF WriteRequest, TypeOK
<1>2. /\ t = <<Head(t)>> \o Tail(t) /\ <<Head(t)>> \in Seq(Messages) /\ Tail(t) \in Seq(Messages)
  <2>1. Head(t) \in Messages /\ Tail(t) \in Seq(Messages)
    BY <1>1, HeadTailProperties
  <2>2. QED
    BY <1>1, <2>1
<1>3. CASE link[l] = "up"
  <2>1. requests'[l] = r \o <<Head(t)>> /\ answers'[l] = a
    <3>1. requests'[l] = Append(r, Head(t)) /\ answers'[l] = a
      BY <1>3 DEF WriteRequest, TypeOK
    <3>2. QED
      BY <1>1, <1>2, <3>1, AppendIsConcat
  <2> HIDE DEF a, r, t
  <2>2. a \o (r \o <<Head(t)>>) = (a \o r) \o <<Head(t)>>
    BY <1>1, <1>2, ConcatAssociative
  <2>3. ((a \o r) \o <<Head(t)>>) \o Tail(t) = (a \o r) \o (<<Head(t)>> \o Tail(t))
    BY <1>1, <1>2, ConcatAssociative
  <2>4. Pipe(l)' = Pipe(l)
    BY <1>1, <1>2, <2>1, <2>2, <2>3 DEF Pipe, a, r, t
  <2>5. Drains(l, 0)
    BY <2>4, PipeParts DEF Drains
  <2>6. QED
    BY <2>5
<1>4. CASE link[l] # "up"
  <2>1. a = << >> /\ r = << >> /\ answers'[l] = << >> /\ requests'[l] = << >>
    BY <1>4 DEF WriteRequest, TypeOK
  <2>2. Pipe(l) = t /\ Pipe(l)' = Tail(t)
    <3>1. \A s \in Seq(Messages) : (<< >> \o << >>) \o s = s
      BY ConcatEmptySeq
    <3>2. QED
      BY <1>1, <1>2, <2>1, <3>1 DEF Pipe
  <2>3. Len(Tail(t)) + 1 = Len(t) /\ \A i \in 1 .. Len(Tail(t)) : Tail(t)[i] = t[i + 1]
    BY <1>1, HeadTailProperties
  <2>4. Drains(l, 1)
    BY <2>2, <2>3 DEF Drains
  <2>5. QED
    BY <2>4
<1>5. QED
  BY <1>3, <1>4

\* A message is answered in its place.
LEMMA Answered ==
  ASSUME NEW a \in Seq(Messages), NEW r \in Seq(Messages), NEW t \in Seq(Messages), r # << >>,
         NEW m \in Messages, m.id = Head(r).id, m.by = Head(r).by
  PROVE  /\ Len((Append(a, m) \o Tail(r)) \o t) = Len((a \o r) \o t)
         /\ Len((a \o r) \o t) \in Nat
         /\ \A i \in 1 .. Len((a \o r) \o t) :
              /\ ((Append(a, m) \o Tail(r)) \o t)[i].id = ((a \o r) \o t)[i].id
              /\ ((Append(a, m) \o Tail(r)) \o t)[i].by = ((a \o r) \o t)[i].by
<1> DEFINE b == Append(a, m)
           u == Tail(r)
           p == (a \o r) \o t
           q == (b \o u) \o t
<1>1. /\ b \in Seq(Messages) /\ Len(b) = Len(a) + 1 /\ Len(a) \in Nat /\ Len(t) \in Nat
      /\ \A i \in 1 .. Len(a) : b[i] = a[i]
      /\ b[Len(a) + 1] = m
  BY AppendProperties, LenProperties
<1>2. /\ u \in Seq(Messages) /\ Len(u) = Len(r) - 1 /\ Len(r) \in Nat \ {0} /\ Head(r) = r[1]
      /\ \A i \in 1 .. Len(u) : u[i] = r[i + 1]
  BY HeadTailProperties, EmptySeq
<1>3. /\ a \o r \in Seq(Messages) /\ Len(a \o r) = Len(a) + Len(r)
      /\ \A i \in 1 .. Len(a) + Len(r) : (a \o r)[i] = IF i <= Len(a) THEN a[i] ELSE r[i - Len(a)]
  BY ConcatProperties
<1>4. /\ Len(p) = Len(a \o r) + Len(t)
      /\ \A i \in 1 .. Len(a \o r) + Len(t) :
           p[i] = IF i <= Len(a \o r) THEN (a \o r)[i] ELSE t[i - Len(a \o r)]
  BY <1>3, ConcatProperties
<1> HIDE DEF b, u
<1>5. /\ b \o u \in Seq(Messages) /\ Len(b \o u) = Len(b) + Len(u)
      /\ \A i \in 1 .. Len(b) + Len(u) : (b \o u)[i] = IF i <= Len(b) THEN b[i] ELSE u[i - Len(b)]
  BY <1>1, <1>2, ConcatProperties
<1>6. /\ Len(q) = Len(b \o u) + Len(t)
      /\ \A i \in 1 .. Len(b \o u) + Len(t) :
           q[i] = IF i <= Len(b \o u) THEN (b \o u)[i] ELSE t[i - Len(b \o u)]
  BY <1>5, ConcatProperties
<1> HIDE DEF p, q
<1> DEFINE la == Len(a)
           lr == Len(r)
           lt == Len(t)
<1>7. /\ la \in Nat /\ lr \in Nat \ {0} /\ lt \in Nat
      /\ Len(b) = la + 1 /\ Len(u) = lr - 1 /\ Len(a \o r) = la + lr /\ Len(b \o u) = la + lr
      /\ Len(p) = la + lr + lt /\ Len(q) = la + lr + lt
  BY <1>1, <1>2, <1>3, <1>4, <1>5, <1>6
<1>8. /\ \A i \in 1 .. la + lr + lt :
           p[i] = IF i <= la + lr THEN (a \o r)[i] ELSE t[i - (la + lr)]
      /\ \A i \in 1 .. la + lr : (a \o r)[i] = IF i <= la THEN a[i] ELSE r[i - la]
  BY <1>3, <1>4, <1>7
<1>9. /\ \A i \in 1 .. la + lr + lt :
           q[i] = IF i <= la + lr THEN (b \o u)[i] ELSE t[i - (la + lr)]
      /\ \A i \in 1 .. la + lr : (b \o u)[i] = IF i <= la + 1 THEN b[i] ELSE u[i - (la + 1)]
  <2>1. Len(b) + Len(u) = la + lr
    BY <1>7
  <2>2. QED
    BY <1>5, <1>6, <1>7, <2>1
<1>10. /\ \A i \in 1 .. la : b[i] = a[i]
       /\ b[la + 1] = m /\ \A i \in 1 .. lr - 1 : u[i] = r[i + 1]
  BY <1>1, <1>2, <1>7
<1> HIDE DEF la, lr, lt
<1>11. ASSUME NEW i \in 1 .. la + lr + lt PROVE q[i].id = p[i].id /\ q[i].by = p[i].by
  <2>1. CASE i <= la
    <3>1. i \in 1 .. la + lr /\ i \in 1 .. la /\ i <= la + 1 /\ i <= la + lr
      BY <1>7, <2>1
    <3>2. p[i] = a[i] /\ q[i] = a[i]
      BY <1>8, <1>9, <1>10, <2>1, <3>1
    <3>3. QED
      BY <3>2
  <2>2. CASE i = la + 1
    <3>1. /\ i \in 1 .. la + lr /\ i <= la + lr /\ ~(i <= la) /\ i <= la + 1 /\ i - la = 1
      BY <1>7, <2>2
    <3>2. p[i] = r[1] /\ q[i] = m
      BY <1>8, <1>9, <1>10, <2>2, <3>1
    <3>3. QED
      BY <1>2, <3>2
  <2>3. CASE i > la + 1 /\ i <= la + lr
    <3>1. /\ i \in 1 .. la + lr /\ ~(i <= la) /\ ~(i <= la + 1)
          /\ i - (la + 1) \in 1 .. lr - 1 /\ i - (la + 1) + 1 = i - la
      BY <1>7, <2>3
    <3>2. p[i] = r[i - la] /\ q[i] = u[i - (la + 1)]
      BY <1>8, <1>9, <2>3, <3>1
    <3>3. QED
      BY <1>10, <3>1, <3>2
  <2>4. CASE i > la + lr
    <3>1. ~(i <= la + lr)
      BY <1>7, <2>4
    <3>2. p[i] = q[i]
      BY <1>8, <1>9, <3>1
    <3>3. QED
      BY <3>2
  <2>5. QED
    BY <1>7, <2>1, <2>2, <2>3, <2>4
<1>12. Len(q) = Len(p) /\ Len(p) \in Nat /\ 1 .. Len(p) = 1 .. la + lr + lt
  BY <1>7
<1>13. /\ Len(q) = Len(p) /\ Len(p) \in Nat
       /\ \A i \in 1 .. Len(p) : q[i].id = p[i].id /\ q[i].by = p[i].by
  BY <1>11, <1>12
<1>14. QED
  BY <1>13 DEF b, u, p, q

LEMMA ServeDrains ==
  ASSUME Typed, NEW l \in Launchers, Serve(l)
  PROVE  Drains(l, 0)
<1> USE DEF Typed
<1>1. PICK S : /\ answers' = [answers EXCEPT ![l] = Append(@,
                    [kind |-> Head(requests[l]).kind, id |-> Head(requests[l]).id,
                     by |-> Head(requests[l]).by, servers |-> S])]
               /\ S \in {T \in SUBSET Rows : IsFiniteSet(T)}
  BY ServeTyped
<1> DEFINE m == [kind |-> Head(requests[l]).kind, id |-> Head(requests[l]).id,
                 by |-> Head(requests[l]).by, servers |-> S]
<1>2. requests[l] \in Seq(Requests) /\ requests[l] # << >> /\ Head(requests[l]) \in Requests
  BY HeadTailProperties DEF Serve, TypeOK
<1>3. m \in Messages /\ m.id = Head(requests[l]).id /\ m.by = Head(requests[l]).by
  BY <1>1, <1>2 DEF Messages, Requests, Answers
<1>4. /\ answers'[l] = Append(answers[l], m) /\ requests'[l] = Tail(requests[l])
      /\ toLauncher'[l] = toLauncher[l]
  BY <1>1 DEF Serve, TypeOK
<1> HIDE DEF m
<1>5. /\ Pipe(l) = (answers[l] \o requests[l]) \o toLauncher[l]
      /\ Pipe(l)' = (Append(answers[l], m) \o Tail(requests[l])) \o toLauncher[l]
  BY <1>4 DEF Pipe
<1>6. /\ answers[l] \in Seq(Messages) /\ requests[l] \in Seq(Messages)
      /\ toLauncher[l] \in Seq(Messages)
  BY PipeParts
<1>7. /\ Len(Pipe(l))' = Len(Pipe(l)) /\ Len(Pipe(l)) \in Nat
      /\ \A i \in 1 .. Len(Pipe(l)) :
           /\ Pipe(l)'[i].id = Pipe(l)[i].id
           /\ Pipe(l)'[i].by = Pipe(l)[i].by
  <2> DEFINE a == answers[l]
             r == requests[l]
             t == toLauncher[l]
             q == (Append(a, m) \o Tail(r)) \o t
             p == (a \o r) \o t
  <2>0. /\ a \in Seq(Messages) /\ r \in Seq(Messages) /\ t \in Seq(Messages) /\ r # << >>
        /\ m \in Messages /\ m.id = Head(r).id /\ m.by = Head(r).by
    BY <1>2, <1>3, <1>6
  <2> HIDE DEF a, r, t
  <2>1. /\ Len(q) = Len(p) /\ Len(p) \in Nat
        /\ \A i \in 1 .. Len(p) : q[i].id = p[i].id /\ q[i].by = p[i].by
    BY <2>0, Answered
  <2> HIDE DEF p, q
  <2>2. Pipe(l) = p /\ Pipe(l)' = q
    BY <1>5 DEF a, r, t, p, q
  <2>3. QED
    BY <2>1, <2>2
<1>8. QED
  BY <1>7 DEF Drains

LEMMA Regroup ==
  ASSUME NEW s \in Seq(Messages), NEW t \in Seq(Messages), NEW u \in Seq(Messages)
  PROVE  (s \o t) \o u = s \o (t \o u)
  BY ConcatAssociative

LEMMA FirstLeaves ==
  ASSUME NEW h \in Messages, NEW q \in Seq(Messages)
  PROVE  /\ Len(<<h>> \o q) = Len(q) + 1 /\ Len(q) \in Nat
         /\ (<<h>> \o q)[1] = h /\ 1 \in DOMAIN (<<h>> \o q)
         /\ \A i \in 1 .. Len(q) : (<<h>> \o q)[i + 1] = q[i]
<1> DEFINE p == <<h>> \o q
<1>1. /\ Len(p) = 1 + Len(q) /\ DOMAIN p = 1 .. 1 + Len(q) /\ Len(q) \in Nat
      /\ \A i \in 1 .. 1 + Len(q) : p[i] = IF i <= 1 THEN h ELSE q[i - 1]
  <2>1. <<h>> \in Seq(Messages) /\ Len(<<h>>) = 1 /\ <<h>>[1] = h /\ Len(q) \in Nat
    BY LenProperties
  <2> DEFINE g == <<h>>
  <2> HIDE DEF g
  <2>2. g \in Seq(Messages) /\ Len(g) = 1 /\ g[1] = h
    BY <2>1 DEF g
  <2>3. /\ g \o q \in Seq(Messages) /\ Len(g \o q) = 1 + Len(q)
        /\ \A i \in 1 .. 1 + Len(q) : (g \o q)[i] = IF i <= 1 THEN g[i] ELSE q[i - 1]
    <3>1. /\ g \o q \in Seq(Messages) /\ Len(g \o q) = Len(g) + Len(q)
          /\ \A i \in 1 .. Len(g) + Len(q) :
               (g \o q)[i] = IF i <= Len(g) THEN g[i] ELSE q[i - Len(g)]
      BY <2>2, ConcatProperties, Zenon
    <3>2. QED
      BY <2>2, <3>1
  <2>4. DOMAIN (g \o q) = 1 .. 1 + Len(q)
    BY <2>3, LenProperties
  <2>5. p = g \o q
    BY DEF g
  <2>6. \A i \in 1 .. 1 + Len(q) : i <= 1 => i = 1
    BY <2>1
  <2>7. QED
    BY <2>1, <2>2, <2>3, <2>4, <2>5, <2>6
<1> HIDE DEF p
<1>2. \A i \in 1 .. Len(q) : i + 1 \in 1 .. 1 + Len(q) /\ ~(i + 1 <= 1) /\ i + 1 - 1 = i
  BY <1>1
<1>3. 1 \in 1 .. 1 + Len(q)
  BY <1>1
<1>4. QED
  BY <1>1, <1>2, <1>3 DEF p

\* The first answer leaves the pipe.
LEMMA AnswerDrains ==
  ASSUME TypeOK, NEW l \in Launchers, answers[l] # << >>,
         answers'[l] = Tail(answers[l]), requests'[l] = requests[l], toLauncher'[l] = toLauncher[l]
  PROVE  Drains(l, 1) /\ 1 \in DOMAIN Pipe(l) /\ Pipe(l)[1] = Head(answers[l])
<1> DEFINE a == answers[l]
           r == requests[l]
           t == toLauncher[l]
           u == Tail(a)
           h == Head(a)
           q == (u \o r) \o t
<1>1. a \in Seq(Messages) /\ r \in Seq(Messages) /\ t \in Seq(Messages) /\ a # << >>
  BY PipeParts
<1>2. Pipe(l) = (a \o r) \o t /\ Pipe(l)' = q
  BY DEF Pipe
<1>3. h = Head(answers[l])
  OBVIOUS
<1> HIDE DEF a, r, t
<1>4. u \in Seq(Messages) /\ h \in Messages
  BY <1>1, HeadTailProperties
<1>5. a = <<h>> \o u /\ <<h>> \in Seq(Messages)
  BY <1>1, <1>4
<1> HIDE DEF h, u
<1> DEFINE g == <<h>>
<1>6. g \in Seq(Messages) /\ a = g \o u
  BY <1>5
<1> HIDE DEF g
<1>7. u \o r \in Seq(Messages) /\ q \in Seq(Messages)
  BY <1>1, <1>4, ConcatProperties
<1>8. (g \o u) \o r = g \o (u \o r)
  BY <1>1, <1>4, <1>6, Regroup, Zenon
<1>9. (g \o (u \o r)) \o t = g \o ((u \o r) \o t)
  BY <1>1, <1>6, <1>7, Regroup, Zenon
<1>10. Pipe(l) = g \o q
  BY <1>2, <1>6, <1>8, <1>9, Zenon
<1> HIDE DEF q
<1>11. Pipe(l) = <<h>> \o q
  BY <1>10 DEF g
<1>12. /\ Len(Pipe(l)) = Len(q) + 1 /\ Len(q) \in Nat
       /\ Pipe(l)[1] = h /\ 1 \in DOMAIN Pipe(l)
       /\ \A i \in 1 .. Len(q) : Pipe(l)[i + 1] = q[i]
  <2>1. /\ Len(<<h>> \o q) = Len(q) + 1 /\ Len(q) \in Nat
        /\ (<<h>> \o q)[1] = h /\ 1 \in DOMAIN (<<h>> \o q)
        /\ \A i \in 1 .. Len(q) : (<<h>> \o q)[i + 1] = q[i]
    BY <1>4, <1>7, FirstLeaves
  <2>2. QED
    BY <1>11, <2>1
<1>13. Drains(l, 1)
  BY <1>2, <1>12 DEF Drains
<1>14. QED
  BY <1>3, <1>12, <1>13

\* m is put at the end of the pipe.
Grows(l, m) ==
  /\ Len(Pipe(l))' = Len(Pipe(l)) + 1
  /\ \A i \in 1 .. Len(Pipe(l)) : Pipe(l)'[i] = Pipe(l)[i]
  /\ Pipe(l)'[Len(Pipe(l)) + 1] = m

LEMMA SendGrows ==
  ASSUME TypeOK, NEW l \in Launchers, NEW m \in Messages,
         answers'[l] = answers[l], requests'[l] = requests[l],
         toLauncher'[l] = Append(toLauncher[l], m)
  PROVE  Grows(l, m)
<1> DEFINE s == answers[l] \o requests[l]
           t == toLauncher[l]
<1>1. s \in Seq(Messages) /\ t \in Seq(Messages)
  BY PipeParts
<1>2. Pipe(l) = s \o t /\ Pipe(l)' = s \o Append(t, m)
  BY DEF Pipe
<1> HIDE DEF s, t
<1>3. <<m>> \in Seq(Messages) /\ Append(t, m) = t \o <<m>>
  BY <1>1, AppendIsConcat
<1>4. s \o (t \o <<m>>) = (s \o t) \o <<m>>
  BY <1>1, <1>3, ConcatAssociative
<1> DEFINE p == s \o t
<1>5. p \in Seq(Messages) /\ Pipe(l)' = p \o <<m>> /\ Pipe(l) = p
  BY <1>1, <1>2, <1>3, <1>4, ConcatProperties
<1> HIDE DEF p
<1>6. p \o <<m>> = Append(p, m)
  BY <1>5, AppendIsConcat
<1>7. QED
  BY <1>5, <1>6, AppendProperties DEF Grows

-----------------------------------------------------------------------------
(***************************************************************************)
(* As long as no id is taken that a message carries, no two messages carry *)
(* one id, and every one that is carried is on file for who asked.         *)
(***************************************************************************)
OnFile(m) == m.id \in DOMAIN pendingRequests /\ pendingRequests[m.id] = m.by

Backed ==
  /\ \A l \in Launchers : \A i \in DOMAIN Pipe(l) : OnFile(Pipe(l)[i])
  /\ \A p \in Sending : reader[p].id \in DOMAIN pendingRequests /\ pendingRequests[reader[p].id] = p

Distinct ==
  /\ \A k, l \in Launchers : \A i \in DOMAIN Pipe(k), j \in DOMAIN Pipe(l) :
       Pipe(k)[i].id = Pipe(l)[j].id => k = l /\ i = j
  /\ \A p \in Sending, l \in Launchers : \A i \in DOMAIN Pipe(l) : Pipe(l)[i].id # reader[p].id

Delivered == \A p \in Players : \A m \in Range(toPlayer[p]) : m.by = p

Filed == ~reused => Backed /\ Distinct /\ Delivered

LEMMA FiledMatches == TypeOK /\ Filed => PendingMatches
<1> SUFFICES ASSUME TypeOK, Backed, Delivered PROVE PendingMatches
  BY DEF Filed, PendingMatches
<1>1. ASSUME NEW l \in Launchers, NEW m \in Sent(l)
      PROVE  m.id \in DOMAIN pendingRequests /\ pendingRequests[m.id] = m.by
  BY SentIsPipe DEF Backed, OnFile
<1>2. QED
  BY <1>1 DEF PendingMatches, Delivered

LEMMA InitFiled == Init => Filed
<1> SUFFICES ASSUME Init PROVE Filed
  OBVIOUS
<1>1. \A l \in Launchers : DOMAIN Pipe(l) = {}
  <2>1. (<< >> \o << >>) \o << >> = << >>
    BY ConcatEmptySeq, EmptySeq
  <2>2. QED
    BY <2>1 DEF Init, Pipe
<1>2. Sending = {}
  BY DEF Init, Sending, Idle
<1>3. Delivered
  BY DEF Init, Delivered, Range
<1>4. QED
  BY <1>1, <1>2, <1>3 DEF Filed, Backed, Distinct

\* Messages leave pipes, and requests leave handlers: nothing new is carried.
Quieter ==
  /\ \A l \in Launchers : \E n \in Nat : Drains(l, n)
  /\ \A p \in Sending' : p \in Sending /\ reader'[p].id = reader[p].id

PipesNumbered == \A l \in Launchers : DOMAIN Pipe(l) = 1 .. Len(Pipe(l)) /\ Len(Pipe(l)) \in Nat

LEMMA PipeShape == TypeOK => PipesNumbered
  BY PipeParts DEF PipesNumbered

LEMMA Remaining ==
  ASSUME TypeOK, TypeOK', Quieter, NEW l \in Launchers
  PROVE  \E n \in Nat : \A i \in DOMAIN Pipe(l)' :
           /\ i + n \in DOMAIN Pipe(l)
           /\ Pipe(l)'[i].id = Pipe(l)[i + n].id
           /\ Pipe(l)'[i].by = Pipe(l)[i + n].by
<1>1. PipesNumbered'
  BY PipeShape, PTL
<1>2. /\ DOMAIN Pipe(l) = 1 .. Len(Pipe(l)) /\ Len(Pipe(l)) \in Nat
      /\ DOMAIN Pipe(l)' = 1 .. Len(Pipe(l))' /\ Len(Pipe(l))' \in Nat
  BY <1>1, PipeShape DEF PipesNumbered
<1>3. PICK n \in Nat : Drains(l, n)
  BY DEF Quieter
<1>4. \A i \in DOMAIN Pipe(l)' : i + n \in DOMAIN Pipe(l)
  BY <1>2, <1>3 DEF Drains
<1>5. QED
  BY <1>2, <1>3, <1>4 DEF Drains

LEMMA QuieterDistinct ==
  ASSUME TypeOK, TypeOK', Distinct, Quieter
  PROVE  Distinct'
<1>1. ASSUME NEW k \in Launchers, NEW l \in Launchers,
             NEW i \in DOMAIN Pipe(k)', NEW j \in DOMAIN Pipe(l)',
             Pipe(k)'[i].id = Pipe(l)'[j].id
      PROVE  k = l /\ i = j
  <2>1. PICK n \in Nat : \A x \in DOMAIN Pipe(k)' :
          x + n \in DOMAIN Pipe(k) /\ Pipe(k)'[x].id = Pipe(k)[x + n].id
    BY Remaining
  <2>2. PICK m \in Nat : \A x \in DOMAIN Pipe(l)' :
          x + m \in DOMAIN Pipe(l) /\ Pipe(l)'[x].id = Pipe(l)[x + m].id
    BY Remaining
  <2>3. k = l
    BY <1>1, <2>1, <2>2 DEF Distinct
  <2>4. i + n = j + n
    BY <1>1, <2>1, <2>3 DEF Distinct
  <2>5. i \in Int /\ j \in Int
    <3>1. PipesNumbered'
      BY PipeShape, PTL
    <3>2. QED
      BY <3>1 DEF PipesNumbered
  <2>6. i = j
    BY <2>1, <2>4, <2>5
  <2>7. QED
    BY <2>3, <2>6
<1>2. ASSUME NEW p \in Sending', NEW l \in Launchers, NEW i \in DOMAIN Pipe(l)'
      PROVE  Pipe(l)'[i].id # reader'[p].id
  <2>1. PICK n \in Nat : \A x \in DOMAIN Pipe(l)' :
          x + n \in DOMAIN Pipe(l) /\ Pipe(l)'[x].id = Pipe(l)[x + n].id
    BY Remaining
  <2>2. p \in Sending /\ reader'[p].id = reader[p].id
    BY DEF Quieter
  <2>3. QED
    BY <2>1, <2>2 DEF Distinct
<1>3. QED
  BY <1>1, <1>2 DEF Distinct

LEMMA QuieterBacked ==
  ASSUME TypeOK, TypeOK', Backed, Quieter, UNCHANGED pendingRequests
  PROVE  Backed'
<1>1. ASSUME NEW l \in Launchers, NEW i \in DOMAIN Pipe(l)'
      PROVE  OnFile(Pipe(l)[i])'
  <2>1. PICK n \in Nat : \A x \in DOMAIN Pipe(l)' :
          /\ x + n \in DOMAIN Pipe(l)
          /\ Pipe(l)'[x].id = Pipe(l)[x + n].id /\ Pipe(l)'[x].by = Pipe(l)[x + n].by
    BY Remaining
  <2>2. OnFile(Pipe(l)[i + n])
    BY <2>1 DEF Backed
  <2>3. QED
    BY <2>1, <2>2 DEF OnFile
<1>2. ASSUME NEW p \in Sending'
      PROVE  reader'[p].id \in DOMAIN pendingRequests' /\ pendingRequests'[reader'[p].id] = p
  BY DEF Quieter, Backed
<1>3. QED
  BY <1>1, <1>2 DEF Backed

\* No player's handler starts to send.
NoneStarts == \A q \in Sending' : q \in Sending /\ reader'[q].id = reader[q].id

LEMMA OnePipe ==
  ASSUME TypeOK, NoneStarts, NEW l \in Launchers, \E n \in Nat : Drains(l, n),
         \A k \in Launchers \ {l} : /\ answers'[k] = answers[k] /\ requests'[k] = requests[k]
                                    /\ toLauncher'[k] = toLauncher[k]
  PROVE  Quieter
<1>1. ASSUME NEW k \in Launchers \ {l} PROVE Drains(k, 0)
  BY <1>1, SamePipe
<1>2. QED
  BY <1>1 DEF Quieter, NoneStarts

LEMMA NoPipe ==
  ASSUME TypeOK, NoneStarts, UNCHANGED <<answers, requests, toLauncher>>
  PROVE  Quieter
<1>1. ASSUME NEW k \in Launchers PROVE Drains(k, 0)
  BY <1>1, SamePipe
<1>2. QED
  BY <1>1 DEF Quieter, NoneStarts

LEMMA GotoNotSending ==
  ASSUME TypeOK, NEW p \in Players, NEW h, Goto(p, h), h.pc # "send"
  PROVE  NoneStarts
<1>1. \A q \in Sending' : q # p /\ reader'[q] = reader[q] /\ q \in Players
  BY DEF TypeOK, Goto, Sending
<1>2. QED
  BY <1>1 DEF NoneStarts, Sending

LEMMA QuietFiled ==
  ASSUME TypeOK, TypeOK', Filed, Quieter, UNCHANGED <<pendingRequests, reused>>,
         Delivered => Delivered'
  PROVE  Filed'
  BY QuieterDistinct, QuieterBacked DEF Filed

\* A step that only moves handlers that do not start to send.
LEMMA HandlerFiled ==
  ASSUME TypeOK, TypeOK', Filed, NoneStarts,
         UNCHANGED <<pendingRequests, reused, answers, requests, toLauncher, toPlayer>>
  PROVE  Filed'
<1>1. Delivered => Delivered'
  BY DEF Delivered
<1>2. QED
  BY <1>1, NoPipe, QuietFiled

LEMMA ReadFiled ==
  ASSUME Typed, TypeOK', Filed, NEW p \in Players,
         ReadSpawnServerRequest(p) \/ ReadGetGameServers(p)
  PROVE  Filed'
<1>1. PICK h : ReadRequest(p, h) /\ h.pc = "choose"
  BY DEF ReadSpawnServerRequest, ReadGetGameServers
<1>2. NoneStarts
  BY <1>1, GotoNotSending DEF ReadRequest, Typed
<1>3. UNCHANGED <<pendingRequests, reused, answers, requests, toLauncher>>
  BY <1>1 DEF ReadRequest, idVars, wireVars
<1>4. UNCHANGED toPlayer
  BY DEF ReadSpawnServerRequest, ReadGetGameServers, clientVars
<1>5. QED
  BY <1>2, <1>3, <1>4, HandlerFiled DEF Typed

LEMMA ChooseFiled ==
  ASSUME Typed, TypeOK', Filed, NEW p \in Players, ChooseGameLauncher(p) \/ NextLauncher(p)
  PROVE  Filed'
<1>1. \E h : Goto(p, h) /\ h.pc \in {"idle", "lock"}
  <2>1. CASE ChooseGameLauncher(p)
    <3>1. CASE GameLaunchers = {}
      BY <2>1, <3>1 DEF ChooseGameLauncher, Idle
    <3>2. CASE GameLaunchers # {}
      <4>1. PICK l \in GameLaunchers :
              Goto(p, [pc |-> "lock", kind |-> "spawn", todo |-> {}, to |-> l])
        BY <2>1, <3>2 DEF ChooseGameLauncher
      <4>2. QED
        BY <4>1
    <3>3. QED
      BY <3>1, <3>2
  <2>2. CASE NextLauncher(p)
    <3>1. CASE Goto(p, Idle)
      BY <3>1 DEF Idle
    <3>2. CASE ~Goto(p, Idle)
      <4>1. PICK l \in reader[p].todo :
              Goto(p, [pc |-> "lock", kind |-> "list", todo |-> reader[p].todo \ {l}, to |-> l])
        BY <2>2, <3>2 DEF NextLauncher
      <4>2. QED
        BY <4>1
    <3>3. QED
      BY <3>1, <3>2
  <2>3. QED
    BY <2>1, <2>2
<1>2. NoneStarts
  BY <1>1, GotoNotSending DEF Typed
<1>3. UNCHANGED <<pendingRequests, reused, answers, requests, toLauncher, toPlayer>>
  BY DEF ChooseGameLauncher, NextLauncher, idVars, wireVars, clientVars
<1>4. QED
  BY <1>2, <1>3, HandlerFiled DEF Typed

\* GetNextRequestId.
LEMMA NextIdFiled ==
  ASSUME Typed, TypeOK', Filed, NEW p \in Players, LockIds(p) \/ LoadId(p) \/ StoreId(p)
  PROVE  Filed'
<1>0. reader[p] \in Handlers
  BY DEF Typed, TypeOK
<1>1. \E h : Goto(p, h) /\ h.pc \in {"next", "increment", "store"}
  <2>1. CASE LockIds(p)
    BY <1>0, <2>1, Advance DEF LockIds
  <2>2. CASE LoadId(p)
    BY <2>2 DEF LoadId
  <2>3. CASE StoreId(p)
    BY <1>0, <2>3, Advance DEF StoreId
  <2>4. QED
    BY <2>1, <2>2, <2>3
<1>2. NoneStarts
  BY <1>1, GotoNotSending DEF Typed
<1>3. UNCHANGED <<pendingRequests, reused, answers, requests, toLauncher, toPlayer>>
  BY DEF LockIds, LoadId, StoreId, idVars, wireVars, clientVars
<1>4. QED
  BY <1>2, <1>3, HandlerFiled DEF Typed

\* Connections that come, and those of players that go.
LEMMA ConnectFiled ==
  ASSUME Typed, TypeOK', Filed,
         \/ MapRace
         \/ \E l \in Launchers : Connect(l) \/ ReconnectLauncher(l)
         \/ \E p \in Players : LosePlayer(p)
  PROVE  Filed'
<1>1. UNCHANGED <<pendingRequests, reused, answers, requests, toLauncher, toPlayer, reader>>
  BY DEF MapRace, Connect, ReconnectLauncher, LosePlayer, idVars, playerVars, wireVars, clientVars
<1>2. NoneStarts
  BY <1>1 DEF NoneStarts, Sending
<1>3. QED
  BY <1>1, <1>2, HandlerFiled DEF Typed

LEMMA StoreLauncherFiled ==
  ASSUME Typed, TypeOK', Filed, NEW l \in Launchers, StoreLauncher(l)
  PROVE  Filed'
<1> USE DEF Typed
<1>1. PICK S \in SUBSET {p \in Players : reader[p] # Idle /\ reader[p].kind = "list"} :
        reader' = [p \in Players |-> IF p \in S THEN [reader[p] EXCEPT !.todo = @ \cup {l}]
                                                ELSE reader[p]]
  BY DEF StoreLauncher
<1>2. ASSUME NEW p \in Sending' PROVE p \in Sending /\ reader'[p].id = reader[p].id
  <2>0. p \in Players /\ reader[p] \in Handlers /\ reader'[p].pc = "send"
    BY DEF Sending, TypeOK
  <2>1. CASE p \in S
    <3>1. reader'[p] = [reader[p] EXCEPT !.todo = @ \cup {l}] /\ reader[p] # Idle
      BY <1>1, <2>1
    <3>2. reader[p].pc = "send"
      <4>1. reader[p].pc # "idle"
        BY <2>0, <3>1, HandlerFields
      <4>2. CASE reader[p].pc = "choose"
        <5>1. PICK k \in Asked, t \in SUBSET Launchers :
                reader[p] = [pc |-> "choose", kind |-> k, todo |-> t]
          BY <2>0, <4>2, HandlerFields
        <5>2. QED
          BY <2>0, <3>1, <5>1
      <4>3. CASE reader[p].pc \in {"lock", "next"}
        <5>1. PICK k \in Asked, t \in SUBSET Launchers, to \in Launchers :
                reader[p] = [pc |-> reader[p].pc, kind |-> k, todo |-> t, to |-> to]
          BY <2>0, <4>3, HandlerFields
        <5>2. QED
          BY <2>0, <3>1, <4>3, <5>1
      <4>4. CASE reader[p].pc \in {"increment", "store"}
        <5>1. PICK k \in Asked, t \in SUBSET Launchers, to \in Launchers, i \in RequestIds :
                reader[p] = [pc |-> reader[p].pc, kind |-> k, todo |-> t, to |-> to, id |-> i]
          BY <2>0, <4>4, HandlerFields
        <5>2. QED
          BY <2>0, <3>1, <4>4, <5>1
      <4>5. QED
        BY <2>0, <4>1, <4>2, <4>3, <4>4, HandlerFields
    <3>3. PICK k \in Asked, t \in SUBSET Launchers, to \in Launchers, i \in RequestIds :
            reader[p] = [pc |-> "send", kind |-> k, todo |-> t, to |-> to, id |-> i]
      <4>1. /\ reader[p].kind \in Asked /\ reader[p].todo \in SUBSET Launchers
            /\ reader[p].to \in Launchers /\ reader[p].id \in RequestIds
            /\ reader[p] = [pc |-> "send", kind |-> reader[p].kind, todo |-> reader[p].todo,
                            to |-> reader[p].to, id |-> reader[p].id]
        BY <2>0, <3>2, HandlerFields
      <4>2. QED
        BY <4>1, Zenon
    <3>4. reader'[p].id = reader[p].id
      BY <3>1, <3>3
    <3>5. QED
      BY <2>0, <3>2, <3>4 DEF Sending
  <2>2. CASE p \notin S
    BY <1>1, <2>0, <2>2 DEF Sending
  <2>3. QED
    BY <2>1, <2>2
<1>3. NoneStarts
  BY <1>2 DEF NoneStarts
<1>4. UNCHANGED <<pendingRequests, reused, answers, requests, toLauncher, toPlayer>>
  BY DEF StoreLauncher, idVars, wireVars, clientVars
<1>5. QED
  BY <1>3, <1>4, HandlerFiled

LEMMA ClientFiled ==
  ASSUME Typed, TypeOK', Filed, NEW p \in Players, ClientReceive(p)
  PROVE  Filed'
<1> USE DEF Typed
<1>1. UNCHANGED <<pendingRequests, reused, answers, requests, toLauncher, reader>>
  BY DEF ClientReceive, idVars, playerVars, wireVars
<1>2. NoneStarts
  BY <1>1 DEF NoneStarts, Sending
<1>3. Delivered => Delivered'
  <2>1. /\ toPlayer[p] \in Seq(Answers) /\ toPlayer[p] # << >>
        /\ toPlayer' = [toPlayer EXCEPT ![p] = Tail(@)] /\ toPlayer \in [Players -> Seq(Answers)]
    BY DEF ClientReceive, TypeOK
  <2>2. Range(Tail(toPlayer[p])) \subseteq Range(toPlayer[p])
    <3>1. /\ Tail(toPlayer[p]) \in Seq(Answers) /\ Len(Tail(toPlayer[p])) = Len(toPlayer[p]) - 1
          /\ \A i \in 1 .. Len(Tail(toPlayer[p])) : Tail(toPlayer[p])[i] = toPlayer[p][i + 1]
      BY <2>1, HeadTailProperties
    <3>2. /\ DOMAIN Tail(toPlayer[p]) = 1 .. Len(toPlayer[p]) - 1
          /\ DOMAIN toPlayer[p] = 1 .. Len(toPlayer[p]) /\ Len(toPlayer[p]) \in Nat
      BY <2>1, <3>1, LenProperties
    <3>3. \A i \in DOMAIN Tail(toPlayer[p]) : i + 1 \in DOMAIN toPlayer[p]
      BY <3>2
    <3>4. QED
      BY <3>1, <3>2, <3>3 DEF Range
  <2>3. QED
    BY <2>1, <2>2 DEF Delivered
<1>4. QED
  BY <1>1, <1>2, <1>3, NoPipe, QuietFiled

\* The writer goroutine and the launcher.
LEMMA WriteFiled ==
  ASSUME Typed, TypeOK', Filed, NEW l \in Launchers, WriteRequest(l) \/ Serve(l)
  PROVE  Filed'
<1> USE DEF Typed
<1>1. UNCHANGED <<pendingRequests, reused, reader, toPlayer>>
  BY DEF WriteRequest, Serve, idVars, playerVars, clientVars
<1>2. NoneStarts
  BY <1>1 DEF NoneStarts, Sending
<1>3. Delivered => Delivered'
  BY <1>1 DEF Delivered
<1>4. \E n \in Nat : Drains(l, n)
  BY WriteDrains, ServeDrains
<1>5. \A k \in Launchers \ {l} : /\ answers'[k] = answers[k] /\ requests'[k] = requests[k]
                                 /\ toLauncher'[k] = toLauncher[k]
  <2>1. CASE WriteRequest(l)
    BY <2>1 DEF WriteRequest, TypeOK
  <2>2. CASE Serve(l)
    BY <2>2 DEF Serve, TypeOK
  <2>3. QED
    BY <2>1, <2>2
<1>6. Quieter
  BY <1>2, <1>4, <1>5, OnePipe
<1>7. QED
  BY <1>1, <1>3, <1>6, QuietFiled

LEMMA CutQuiet ==
  ASSUME TypeOK, TypeOK', NoneStarts, NEW l \in Launchers, Cut(l), UNCHANGED toLauncher
  PROVE  Quieter
<1>1. answers'[l] = << >> /\ requests'[l] = << >> /\ toLauncher'[l] = toLauncher[l]
  BY DEF Cut, TypeOK
<1>2. Drains(l, Len(answers[l]) + Len(requests[l])) /\ Len(answers[l]) + Len(requests[l]) \in Nat
  BY <1>1, CutDrains, PipeParts
<1>3. \A k \in Launchers \ {l} : /\ answers'[k] = answers[k] /\ requests'[k] = requests[k]
                                 /\ toLauncher'[k] = toLauncher[k]
  BY DEF Cut, TypeOK
<1>4. QED
  BY <1>2, <1>3, OnePipe

LEMMA LoseFiled ==
  ASSUME Typed, TypeOK', Filed, NEW l \in Launchers, LoseLauncher(l)
  PROVE  Filed'
<1> USE DEF Typed
<1>1. UNCHANGED <<pendingRequests, reused, reader, toPlayer, toLauncher>> /\ Cut(l)
  BY DEF LoseLauncher, idVars, playerVars, clientVars
<1>2. NoneStarts
  BY <1>1 DEF NoneStarts, Sending
<1>3. Delivered => Delivered'
  BY <1>1 DEF Delivered
<1>4. Quieter
  BY <1>1, <1>2, CutQuiet
<1>5. QED
  BY <1>1, <1>3, <1>4, QuietFiled

LEMMA StorePendingFiled ==
  ASSUME Typed, TypeOK', Filed, NEW p \in Players, StorePending(p)
  PROVE  Filed'
<1> USE DEF Typed
<1> DEFINE n == reader[p].id
<1> SUFFICES ASSUME ~reused' PROVE (Backed /\ Distinct /\ Delivered)'
  BY DEF Filed
<1>1. ~reused /\ n \notin InFlight /\ Backed /\ Distinct /\ Delivered
  BY DEF StorePending, Filed
<1>2. /\ pendingRequests' = [i \in DOMAIN pendingRequests \cup {n} |->
                               IF i = n THEN p ELSE pendingRequests[i]]
      /\ UNCHANGED <<answers, requests, toLauncher, toPlayer>>
      /\ Goto(p, [reader[p] EXCEPT !.pc = "send"]) /\ reader[p].pc = "store"
  BY DEF StorePending, FileUnder, wireVars, clientVars
<1>3. \A l \in Launchers : Pipe(l)' = Pipe(l)
  BY <1>2 DEF Pipe
<1>4. \A l \in Launchers : \A i \in DOMAIN Pipe(l) : Pipe(l)[i].id # n
  BY <1>1, SentIsPipe DEF InFlight
<1>5. \A q \in Sending : reader[q].id # n
  BY <1>1 DEF InFlight
<1>6. reader'[p].id = n /\ \A q \in Players \ {p} : reader'[q] = reader[q]
  <2>1. reader[p] \in Handlers
    BY DEF TypeOK
  <2>2. [reader[p] EXCEPT !.pc = "send"] \in Handlers /\ [reader[p] EXCEPT !.pc = "send"].id = n
    BY <1>2, <2>1, Advance
  <2>3. QED
    BY <1>2, <2>2, GotoOnly
<1>7. \A q \in Sending' : q = p \/ (q # p /\ q \in Sending /\ reader'[q].id = reader[q].id)
  BY <1>6 DEF Sending
<1> HIDE DEF n
<1>8. \A i \in DOMAIN pendingRequests :
        i # n => i \in DOMAIN pendingRequests' /\ pendingRequests'[i] = pendingRequests[i]
  BY <1>2
<1>9. n \in DOMAIN pendingRequests' /\ pendingRequests'[n] = p
  BY <1>2
<1>10. Backed'
  <2>1. ASSUME NEW l \in Launchers, NEW i \in DOMAIN Pipe(l)' PROVE OnFile(Pipe(l)[i])'
    <3>1. OnFile(Pipe(l)[i]) /\ Pipe(l)[i].id # n /\ Pipe(l)' = Pipe(l)
      BY <1>1, <1>3, <1>4 DEF Backed
    <3>2. QED
      BY <1>8, <3>1 DEF OnFile
  <2>2. ASSUME NEW q \in Sending'
        PROVE  reader'[q].id \in DOMAIN pendingRequests' /\ pendingRequests'[reader'[q].id] = q
    <3>1. CASE q = p
      BY <1>6, <1>9, <3>1
    <3>2. CASE q # p
      BY <1>1, <1>5, <1>7, <1>8, <3>2 DEF Backed
    <3>3. QED
      BY <3>1, <3>2
  <2>3. QED
    BY <2>1, <2>2 DEF Backed
<1>11. Distinct'
  <2>1. ASSUME NEW q \in Sending', NEW l \in Launchers, NEW i \in DOMAIN Pipe(l)'
        PROVE  Pipe(l)'[i].id # reader'[q].id
    BY <1>1, <1>3, <1>4, <1>6, <1>7 DEF Distinct
  <2>2. ASSUME NEW k \in Launchers, NEW l \in Launchers,
               NEW i \in DOMAIN Pipe(k)', NEW j \in DOMAIN Pipe(l)',
               Pipe(k)'[i].id = Pipe(l)'[j].id
        PROVE  k = l /\ i = j
    BY <1>1, <1>3, <2>2 DEF Distinct
  <2>3. QED
    BY <2>1, <2>2 DEF Distinct
<1>12. Delivered'
  BY <1>1, <1>2 DEF Delivered
<1>13. QED
  BY <1>10, <1>11, <1>12

LEMMA SendFiled ==
  ASSUME Typed, TypeOK', Filed, NEW p \in Players, SendRequest(p)
  PROVE  Filed'
<1> USE DEF Typed
<1>1. /\ UNCHANGED <<pendingRequests, reused, answers, requests, toPlayer>>
      /\ Goto(p, AfterSend(reader[p]))
  BY DEF SendRequest, idVars, wireVars, clientVars
<1>2. reader[p] \in Handlers /\ reader[p].pc = "send" /\ p \in Sending
  BY DEF SendRequest, TypeOK, Sending
<1>3. PICK to \in Launchers, m \in Messages :
        /\ to = reader[p].to
        /\ m = [kind |-> reader[p].kind, id |-> reader[p].id, by |-> p]
  <2>1. /\ reader[p].to \in Launchers
        /\ [kind |-> reader[p].kind, id |-> reader[p].id, by |-> p] \in Requests
    BY <1>2, HandlerFields DEF Requests
  <2>2. QED
    BY <2>1 DEF Messages
<1>4. AfterSend(reader[p]).pc # "send"
  BY DEF AfterSend, Idle
<1>5. \A q \in Sending' : q # p /\ q \in Sending /\ reader'[q].id = reader[q].id
  BY <1>1, <1>4 DEF Goto, TypeOK, Sending
<1>6. NoneStarts
  BY <1>5 DEF NoneStarts
<1>7. CASE ~Room(toLauncher[to])
  <2>1. UNCHANGED toLauncher
    BY <1>7, <1>3 DEF SendRequest
  <2>2. QED
    BY <1>1, <1>6, <2>1, HandlerFiled
<1>8. CASE Room(toLauncher[to])
  <2>1. toLauncher' = [toLauncher EXCEPT ![to] = Append(@, m)]
    BY <1>8, <1>3 DEF SendRequest
  <2>2. /\ toLauncher'[to] = Append(toLauncher[to], m)
        /\ \A k \in Launchers \ {to} : toLauncher'[k] = toLauncher[k]
    BY <1>2, <2>1 DEF TypeOK
  <2>3. m.id = reader[p].id /\ m.by = p
    BY <1>3
  <2>4. Grows(to, m)
    BY <1>1, <1>2, <2>2, SendGrows
  <2>5. \A k \in Launchers \ {to} : Pipe(k)' = Pipe(k)
    BY <1>1, <2>2 DEF Pipe
  <2> SUFFICES ASSUME ~reused' PROVE (Backed /\ Distinct /\ Delivered)'
    BY DEF Filed
  <2>6. Backed /\ Distinct /\ Delivered
    BY <1>1 DEF Filed
  <2>7. /\ DOMAIN Pipe(to) = 1 .. Len(Pipe(to)) /\ Len(Pipe(to)) \in Nat
        /\ DOMAIN Pipe(to)' = 1 .. Len(Pipe(to)) + 1
    <3>1. PipesNumbered'
      BY PipeShape, PTL
    <3>2. QED
      BY <1>2, <2>4, <3>1, PipeShape DEF PipesNumbered, Grows
  \* A place of a pipe is an old one or the new one.
  <2>8. ASSUME NEW k \in Launchers, NEW i \in DOMAIN Pipe(k)'
        PROVE  \/ i \in DOMAIN Pipe(k) /\ Pipe(k)'[i] = Pipe(k)[i]
               \/ k = to /\ i = Len(Pipe(to)) + 1 /\ Pipe(k)'[i] = m
    <3>1. CASE k = to
      <4> DEFINE n == Len(Pipe(to))
      <4>1. Pipe(k)' = Pipe(to)' /\ Pipe(k) = Pipe(to)
        BY <3>1 DEF Pipe
      <4>2. n \in Nat /\ i \in 1 .. n + 1 /\ DOMAIN Pipe(to) = 1 .. n
        BY <2>7, <4>1
      <4>3. /\ \A j \in 1 .. n : Pipe(to)'[j] = Pipe(to)[j]
            /\ Pipe(to)'[n + 1] = m
        BY <2>4 DEF Grows
      <4> HIDE DEF n
      <4>4. i \in 1 .. n \/ i = n + 1
        BY <4>2
      <4>5. CASE i \in 1 .. n
        BY <4>1, <4>2, <4>3, <4>5
      <4>6. CASE i = n + 1
        BY <3>1, <4>1, <4>3, <4>6 DEF n
      <4>7. QED
        BY <4>4, <4>5, <4>6
    <3>2. CASE k # to
      BY <2>5, <3>2
    <3>3. QED
      BY <3>1, <3>2
  <2>9. OnFile(m) /\ \A k \in Launchers : \A i \in DOMAIN Pipe(k) : Pipe(k)[i].id # m.id
    BY <1>2, <2>6, <2>3 DEF Backed, Distinct, OnFile
  <2>10. Backed'
    <3>1. ASSUME NEW k \in Launchers, NEW i \in DOMAIN Pipe(k)' PROVE OnFile(Pipe(k)[i])'
      <4>1. OnFile(Pipe(k)'[i])
        BY <2>6, <2>8, <2>9 DEF Backed
      <4>2. QED
        BY <1>1, <4>1 DEF OnFile
    <3>2. ASSUME NEW q \in Sending'
          PROVE  reader'[q].id \in DOMAIN pendingRequests' /\ pendingRequests'[reader'[q].id] = q
      BY <1>1, <1>5, <2>6 DEF Backed
    <3>3. QED
      BY <3>1, <3>2 DEF Backed
  <2>11. Distinct'
    <3>1. ASSUME NEW q \in Sending', NEW k \in Launchers, NEW i \in DOMAIN Pipe(k)'
          PROVE  Pipe(k)'[i].id # reader'[q].id
      <4>1. q # p /\ q \in Sending /\ reader'[q].id = reader[q].id
        BY <1>5
      <4>2. reader[q].id # m.id
        BY <1>2, <2>6, <2>3, <4>1 DEF Backed
      <4>3. \A j \in DOMAIN Pipe(k) : Pipe(k)[j].id # reader[q].id
        BY <2>6, <4>1 DEF Distinct
      <4>4. QED
        BY <2>8, <4>1, <4>2, <4>3
    <3>2. ASSUME NEW k \in Launchers, NEW l \in Launchers,
                 NEW i \in DOMAIN Pipe(k)', NEW j \in DOMAIN Pipe(l)',
                 Pipe(k)'[i].id = Pipe(l)'[j].id
          PROVE  k = l /\ i = j
      <4>1. CASE /\ i \in DOMAIN Pipe(k) /\ Pipe(k)'[i] = Pipe(k)[i]
                 /\ j \in DOMAIN Pipe(l) /\ Pipe(l)'[j] = Pipe(l)[j]
        BY <2>6, <3>2, <4>1 DEF Distinct
      <4>2. CASE Pipe(k)'[i] = m /\ Pipe(l)'[j] = m /\ k = to /\ l = to /\ i = j
        BY <4>2
      <4>3. QED
        BY <2>8, <2>9, <3>2, <4>1, <4>2
    <3>3. QED
      BY <3>1, <3>2 DEF Distinct
  <2>12. Delivered'
    BY <1>1, <2>6 DEF Delivered
  <2>13. QED
    BY <2>10, <2>11, <2>12
<1>9. QED
  BY <1>7, <1>8

LEMMA RangeOfTail ==
  ASSUME NEW T, NEW s \in Seq(T), s # << >>
  PROVE  /\ Head(s) \in Range(s) /\ Range(s) = {Head(s)} \cup Range(Tail(s))
         /\ Head(s) \in T /\ Tail(s) \in Seq(T)
<1>1. /\ Len(s) \in Nat /\ Len(s) >= 1 /\ DOMAIN s = 1 .. Len(s)
      /\ Head(s) = s[1] /\ Tail(s) \in Seq(T) /\ Len(Tail(s)) = Len(s) - 1
      /\ DOMAIN Tail(s) = 1 .. Len(s) - 1
      /\ \A i \in 1 .. Len(s) - 1 : Tail(s)[i] = s[i + 1]
  BY HeadTailProperties, EmptySeq, LenProperties
<1>2. 1 \in 1 .. Len(s)
  BY <1>1
<1>3. Head(s) \in Range(s)
  BY <1>1, <1>2 DEF Range
<1>4. ASSUME NEW x \in Range(Tail(s)) PROVE x \in Range(s)
  <2>1. PICK i \in 1 .. Len(s) - 1 : x = Tail(s)[i]
    BY <1>1 DEF Range
  <2>2. i + 1 \in 1 .. Len(s)
    BY <1>1
  <2>3. QED
    BY <1>1, <2>1, <2>2 DEF Range
<1>5. ASSUME NEW x \in Range(s), x # Head(s) PROVE x \in Range(Tail(s))
  <2>1. PICK i \in 1 .. Len(s) : x = s[i]
    BY <1>1 DEF Range
  <2>2. i # 1
    BY <1>1, <1>5, <2>1
  <2>3. i - 1 \in 1 .. Len(s) - 1 /\ (i - 1) + 1 = i
    BY <1>1, <2>2
  <2>4. x = Tail(s)[i - 1]
    BY <1>1, <2>1, <2>3
  <2>5. QED
    BY <1>1, <2>3, <2>4 DEF Range
<1>6. s[1] \in T
  BY <1>1, <1>2
<1>7. QED
  BY <1>1, <1>3, <1>4, <1>5, <1>6

LEMMA RangeOfAppend ==
  ASSUME NEW T, NEW s \in Seq(T), NEW m \in T
  PROVE  Range(Append(s, m)) = Range(s) \cup {m}
<1>1. /\ Append(s, m) \in Seq(T) /\ Len(Append(s, m)) = Len(s) + 1 /\ Len(s) \in Nat
      /\ \A i \in 1 .. Len(s) : Append(s, m)[i] = s[i]
      /\ Append(s, m)[Len(s) + 1] = m
  BY AppendProperties, LenProperties
<1>2. DOMAIN s = 1 .. Len(s) /\ DOMAIN Append(s, m) = 1 .. Len(s) + 1
  BY <1>1, LenProperties
<1>3. \A i \in 1 .. Len(s) + 1 : i \in 1 .. Len(s) \/ i = Len(s) + 1
  BY <1>1
<1>4. \A i \in 1 .. Len(s) : i \in 1 .. Len(s) + 1
  BY <1>1
<1>5. Len(s) + 1 \in 1 .. Len(s) + 1
  BY <1>1
<1>6. QED
  BY <1>1, <1>2, <1>3, <1>4, <1>5 DEF Range

LEMMA AnswerFiled ==
  ASSUME Typed, TypeOK', Filed, NEW l \in Launchers, ReceiveAnswer(l)
  PROVE  Filed'
<1> USE DEF Typed
<1> DEFINE m == Head(answers[l])
           p == pendingRequests[m.id]
<1> SUFFICES ASSUME ~reused' PROVE (Backed /\ Distinct /\ Delivered)'
  BY DEF Filed
<1>1. /\ answers[l] # << >> /\ answers[l] \in Seq(Answers) /\ Backed /\ Distinct /\ Delivered
      /\ UNCHANGED <<reader, toLauncher>>
  BY DEF ReceiveAnswer, Filed, playerVars, TypeOK
<1>2. /\ 1 \in DOMAIN Pipe(l) /\ Pipe(l)[1] = m
  <2>1. 1 \in 1 .. Len(answers[l]) /\ m = answers[l][1]
    BY <1>1, EmptySeq, LenProperties, HeadTailProperties
  <2>2. QED
    BY <2>1, PipeIndex
<1>3. m.id \in DOMAIN pendingRequests /\ p = m.by
  BY <1>1, <1>2 DEF Backed, OnFile
<1>4. /\ pendingRequests' = LoadAndDelete(m.id)
      /\ \/ toPlayer' = [toPlayer EXCEPT ![p] = Append(@, m)]
         \/ UNCHANGED toPlayer
      /\ answers' = [answers EXCEPT ![l] = Tail(@)]
      /\ UNCHANGED requests
  BY <1>3 DEF ReceiveAnswer
<1>5. Drains(l, 1)
  BY <1>1, <1>4, AnswerDrains DEF TypeOK
<1>6. ASSUME NEW k \in Launchers, k # l PROVE Pipe(k)' = Pipe(k)
  BY <1>1, <1>4, <1>6 DEF Pipe, TypeOK
<1>7. Quieter
  <2>1. NoneStarts
    BY <1>1 DEF NoneStarts, Sending
  <2>2. \A k \in Launchers \ {l} : /\ answers'[k] = answers[k] /\ requests'[k] = requests[k]
                                   /\ toLauncher'[k] = toLauncher[k]
    BY <1>1, <1>4 DEF TypeOK
  <2>3. QED
    BY <1>5, <2>1, <2>2, OnePipe
<1> HIDE DEF m
<1>8. Distinct'
  BY <1>1, <1>7, QuieterDistinct
<1>9. \A i \in DOMAIN pendingRequests :
        i # m.id => i \in DOMAIN pendingRequests' /\ pendingRequests'[i] = pendingRequests[i]
  BY <1>4 DEF LoadAndDelete
\* What is left in a pipe was there before, and is not the answer.
<1>10. ASSUME NEW k \in Launchers, NEW i \in DOMAIN Pipe(k)'
       PROVE  \E j \in DOMAIN Pipe(k) :
                /\ Pipe(k)[j].id # m.id
                /\ Pipe(k)'[i].id = Pipe(k)[j].id /\ Pipe(k)'[i].by = Pipe(k)[j].by
  <2>1. CASE k # l
    BY <1>1, <1>2, <1>6, <2>1 DEF Distinct
  <2>2. CASE k = l
    <3>1. PipesNumbered'
      BY PipeShape, PTL
    <3>2. i \in 1 .. Len(Pipe(l))' /\ DOMAIN Pipe(l) = 1 .. Len(Pipe(l)) /\ Len(Pipe(l))' \in Nat
      BY <2>2, <3>1, PipeShape DEF PipesNumbered
    <3>3. i + 1 \in DOMAIN Pipe(l) /\ i + 1 # 1
      BY <1>5, <3>2 DEF Drains
    <3>4. Pipe(l)'[i].id = Pipe(l)[i + 1].id /\ Pipe(l)'[i].by = Pipe(l)[i + 1].by
      BY <1>5, <3>2 DEF Drains
    <3>5. Pipe(l)[i + 1].id # m.id
      BY <1>1, <1>2, <3>3 DEF Distinct
    <3>6. QED
      BY <2>2, <3>3, <3>4, <3>5
  <2>3. QED
    BY <2>1, <2>2
<1>11. Backed'
  <2>1. ASSUME NEW k \in Launchers, NEW i \in DOMAIN Pipe(k)' PROVE OnFile(Pipe(k)[i])'
    <3>1. PICK j \in DOMAIN Pipe(k) :
            /\ Pipe(k)[j].id # m.id
            /\ Pipe(k)'[i].id = Pipe(k)[j].id /\ Pipe(k)'[i].by = Pipe(k)[j].by
      BY <1>10
    <3>2. OnFile(Pipe(k)[j])
      BY <1>1 DEF Backed
    <3>3. QED
      BY <1>9, <3>1, <3>2 DEF OnFile
  <2>2. ASSUME NEW q \in Sending'
        PROVE  reader'[q].id \in DOMAIN pendingRequests' /\ pendingRequests'[reader'[q].id] = q
    <3>1. q \in Sending /\ reader'[q].id = reader[q].id
      BY <1>7 DEF Quieter
    <3>2. reader[q].id # m.id
      BY <1>1, <1>2, <3>1 DEF Distinct
    <3>3. QED
      BY <1>1, <1>9, <3>1, <3>2 DEF Backed
  <2>3. QED
    BY <2>1, <2>2 DEF Backed
<1>12. Delivered'
  <2>1. CASE UNCHANGED toPlayer
    BY <1>1, <2>1 DEF Delivered
  <2>2. CASE toPlayer' = [toPlayer EXCEPT ![p] = Append(@, m)]
    <3>0. p \in Players /\ toPlayer[p] \in Seq(Answers)
      BY <1>3 DEF TypeOK
    <3>1. m \in Answers
      BY <1>1, HeadTailProperties DEF m
    <3>2. Range(Append(toPlayer[p], m)) = Range(toPlayer[p]) \cup {m}
      BY <3>0, <3>1, RangeOfAppend
    <3> HIDE DEF p
    <3>3. \A q \in Players : toPlayer'[q] = IF q = p THEN Append(toPlayer[p], m) ELSE toPlayer[q]
      BY <2>2 DEF TypeOK
    <3>4. m.by = p
      BY <1>3
    <3>5. QED
      BY <1>1, <3>0, <3>2, <3>3, <3>4 DEF Delivered
  <2>3. QED
    BY <1>4, <2>1, <2>2
<1>13. QED
  BY <1>8, <1>11, <1>12

LEMMA NextFiled == Typed /\ TypeOK' /\ Filed /\ [Next]_vars => Filed'
<1> SUFFICES ASSUME Typed, TypeOK', Filed, [Next]_vars PROVE Filed'
  OBVIOUS
<1>1. CASE UNCHANGED vars
  <2>1. UNCHANGED <<pendingRequests, reused, answers, requests, toLauncher, toPlayer, reader>>
    BY <1>1 DEF vars, idVars, playerVars, linkVars, wireVars, clientVars
  <2>2. NoneStarts
    BY <2>1 DEF NoneStarts, Sending
  <2>3. QED
    BY <2>1, <2>2, HandlerFiled DEF Typed
<1>2. ASSUME NEW p \in Players, Handle(p) PROVE Filed'
  BY <1>2, ChooseFiled, NextIdFiled, StorePendingFiled, SendFiled DEF Handle
<1>3. ASSUME NEW p \in Players,
             \/ ReadSpawnServerRequest(p) \/ ReadGetGameServers(p)
             \/ LosePlayer(p) \/ ClientReceive(p)
      PROVE  Filed'
  BY <1>3, ReadFiled, ConnectFiled, ClientFiled
<1>4. ASSUME NEW l \in Launchers,
             \/ Connect(l) \/ StoreLauncher(l) \/ WriteRequest(l) \/ LoseLauncher(l)
             \/ ReconnectLauncher(l) \/ Serve(l) \/ ReceiveAnswer(l)
      PROVE  Filed'
  BY <1>4, ConnectFiled, StoreLauncherFiled, WriteFiled, LoseFiled, AnswerFiled
<1>5. CASE MapRace
  BY <1>5, ConnectFiled
<1>6. QED
  BY <1>1, <1>2, <1>3, <1>4, <1>5 DEF Next

\* As long as no id is taken that a message still carries, a request on its way
\* and its answer have their asker on file, and an answer is put into the
\* channel of the player who asked.
THEOREM PendingCorrect == Spec => []PendingMatches
<1>1. Typed => TypeOK
  BY DEF Typed
<1>2. QED
  BY <1>1, InitTyped, NextTyped, InitFiled, NextFiled, FiledMatches, PTL DEF Spec

-----------------------------------------------------------------------------
(***************************************************************************)
(* The rows of a browser.  With one launcher everything the launcher says  *)
(* comes in order: first what the browser shows, then the channel of the   *)
(* player, then the answers.  A spawned server is newer than all before,   *)
(* a list has all before.                                                  *)
(***************************************************************************)
After(S, m) == IF m.kind = "spawn" THEN \A x \in S, y \in m.servers : x[2] < y[2]
                                   ELSE S \subseteq m.servers

Ordered(s) == \A i, j \in DOMAIN s : i < j => After(s[i].servers, s[j])

LEMMA OrderedTail ==
  ASSUME NEW T, NEW s \in Seq(T), s # << >>, Ordered(s)
  PROVE  Ordered(Tail(s)) /\ \A n \in Range(Tail(s)) : After(Head(s).servers, n)
<1>1. /\ Len(s) \in Nat /\ Len(s) >= 1 /\ DOMAIN s = 1 .. Len(s)
      /\ Head(s) = s[1] /\ Tail(s) \in Seq(T) /\ Len(Tail(s)) = Len(s) - 1
      /\ DOMAIN Tail(s) = 1 .. Len(s) - 1
      /\ \A i \in 1 .. Len(s) - 1 : Tail(s)[i] = s[i + 1]
  BY HeadTailProperties, EmptySeq, LenProperties
<1>2. ASSUME NEW i \in 1 .. Len(s) - 1, NEW j \in 1 .. Len(s) - 1, i < j
      PROVE  After(Tail(s)[i].servers, Tail(s)[j])
  <2>1. i + 1 \in 1 .. Len(s) /\ j + 1 \in 1 .. Len(s) /\ i + 1 < j + 1
    BY <1>1, <1>2
  <2>2. After(s[i + 1].servers, s[j + 1])
    BY <1>1, <2>1 DEF Ordered
  <2>3. QED
    BY <1>1, <2>2
<1>3. ASSUME NEW n \in Range(Tail(s)) PROVE After(Head(s).servers, n)
  <2>1. PICK i \in 1 .. Len(s) - 1 : n = Tail(s)[i]
    BY <1>1 DEF Range
  <2>2. i + 1 \in 1 .. Len(s) /\ 1 \in 1 .. Len(s) /\ 1 < i + 1
    BY <1>1
  <2>3. After(s[1].servers, s[i + 1])
    BY <1>1, <2>2 DEF Ordered
  <2>4. QED
    BY <1>1, <2>1, <2>3
<1>4. QED
  BY <1>1, <1>2, <1>3 DEF Ordered

LEMMA OrderedAppend ==
  ASSUME NEW T, NEW s \in Seq(T), NEW m \in T, Ordered(s),
         \A n \in Range(s) : After(n.servers, m)
  PROVE  Ordered(Append(s, m))
<1>1. /\ Append(s, m) \in Seq(T) /\ Len(Append(s, m)) = Len(s) + 1 /\ Len(s) \in Nat
      /\ \A i \in 1 .. Len(s) : Append(s, m)[i] = s[i]
      /\ Append(s, m)[Len(s) + 1] = m
  BY AppendProperties, LenProperties
<1>2. DOMAIN s = 1 .. Len(s) /\ DOMAIN Append(s, m) = 1 .. Len(s) + 1
  BY <1>1, LenProperties
<1> DEFINE t == Append(s, m)
<1>3. ASSUME NEW i \in 1 .. Len(s) + 1, NEW j \in 1 .. Len(s) + 1, i < j
      PROVE  After(t[i].servers, t[j])
  <2>1. i \in 1 .. Len(s) /\ (j \in 1 .. Len(s) \/ j = Len(s) + 1)
    BY <1>1, <1>3
  <2>2. CASE j \in 1 .. Len(s)
    <3>1. After(s[i].servers, s[j])
      BY <1>2, <1>3, <2>1, <2>2 DEF Ordered
    <3>2. QED
      BY <1>1, <2>1, <2>2, <3>1
  <2>3. CASE j = Len(s) + 1
    <3>1. s[i] \in Range(s)
      BY <1>2, <2>1 DEF Range
    <3>2. QED
      BY <1>1, <2>1, <2>3, <3>1
  <2>4. QED
    BY <2>1, <2>2, <2>3
<1>4. QED
  BY <1>2, <1>3 DEF Ordered

\* The rows after a list, and after servers were spawned.
LEMMA RowsShown ==
  ASSUME NEW rows \in Seq(Rows), NEW S \in SUBSET Rows, IsFiniteSet(S)
  PROVE  /\ Range(RowsListed(rows, S)) = S /\ IsInjective(RowsListed(rows, S))
         /\ Range(RowsSpawned(rows, S)) = Range(rows) \cup S
         /\ IsInjective(rows) /\ Range(rows) \cap S = {} => IsInjective(RowsSpawned(rows, S))
<1> DEFINE t == SetToSeq(S)
<1>1. /\ t \in [1 .. Cardinality(S) -> S] /\ IsInjective(t) /\ t \in Seq(S)
      /\ Cardinality(S) \in Nat /\ \A s \in S : \E i \in 1 .. Cardinality(S) : t[i] = s
  BY ListOfSet
<1>2. t \in Seq(Rows)
  BY <1>1, SeqMonotonic
<1>3. Range(t) = S
  BY <1>1 DEF Range
<1>4. RowsListed(rows, S) = t /\ RowsSpawned(rows, S) = rows \o t
  BY DEF RowsListed, RowsSpawned
<1> HIDE DEF t
<1>5. /\ rows \o t \in Seq(Rows) /\ Len(rows \o t) = Len(rows) + Len(t)
      /\ Len(rows) \in Nat /\ Len(t) \in Nat
      /\ \A i \in 1 .. Len(rows) + Len(t) :
           (rows \o t)[i] = IF i <= Len(rows) THEN rows[i] ELSE t[i - Len(rows)]
  BY <1>2, ConcatProperties, LenProperties
<1>6. /\ DOMAIN rows = 1 .. Len(rows) /\ DOMAIN t = 1 .. Len(t)
      /\ DOMAIN (rows \o t) = 1 .. Len(rows) + Len(t)
  BY <1>2, <1>5, LenProperties
<1>7. ASSUME NEW i \in 1 .. Len(rows) + Len(t)
      PROVE  \/ i \in DOMAIN rows /\ (rows \o t)[i] = rows[i]
             \/ i > Len(rows) /\ i - Len(rows) \in DOMAIN t /\ (rows \o t)[i] = t[i - Len(rows)]
  <2>1. CASE i <= Len(rows)
    <3>1. i \in DOMAIN rows
      BY <1>5, <1>6, <2>1
    <3>2. QED
      BY <1>5, <2>1, <3>1
  <2>2. CASE i > Len(rows)
    <3>1. i - Len(rows) \in DOMAIN t /\ ~(i <= Len(rows))
      BY <1>5, <1>6, <2>2
    <3>2. QED
      BY <1>5, <2>2, <3>1
  <2>3. QED
    BY <1>5, <2>1, <2>2
<1>8. Range(rows \o t) = Range(rows) \cup S
  BY <1>2, <1>3, RangeConcatenation
<1>9. ASSUME IsInjective(rows), Range(rows) \cap S = {} PROVE IsInjective(rows \o t)
  <2>1. ASSUME NEW i \in 1 .. Len(rows) + Len(t), NEW j \in 1 .. Len(rows) + Len(t),
               (rows \o t)[i] = (rows \o t)[j]
        PROVE  i = j
    <3>1. \A k \in DOMAIN rows : rows[k] \in Range(rows)
      BY DEF Range
    <3>2. \A k \in DOMAIN t : t[k] \in S
      BY <1>3 DEF Range
    <3>3. CASE i \in DOMAIN rows /\ (rows \o t)[i] = rows[i]
      <4>1. j \in DOMAIN rows /\ (rows \o t)[j] = rows[j]
        BY <1>7, <1>9, <2>1, <3>1, <3>2, <3>3
      <4>2. QED
        BY <1>9, <2>1, <3>3, <4>1 DEF IsInjective
    <3>4. CASE i > Len(rows) /\ i - Len(rows) \in DOMAIN t /\ (rows \o t)[i] = t[i - Len(rows)]
      <4>1. j > Len(rows) /\ j - Len(rows) \in DOMAIN t /\ (rows \o t)[j] = t[j - Len(rows)]
        BY <1>7, <1>9, <2>1, <3>1, <3>2, <3>4
      <4>2. i - Len(rows) = j - Len(rows)
        BY <1>1, <2>1, <3>4, <4>1 DEF IsInjective
      <4>3. QED
        BY <1>5, <4>2
    <3>5. QED
      BY <1>7, <3>3, <3>4
  <2>2. QED
    BY <1>6, <2>1 DEF IsInjective
<1>10. QED
  BY <1>1, <1>3, <1>4, <1>8, <1>9

-----------------------------------------------------------------------------
(***************************************************************************)
(* Who has to do with which launchers, and which servers are known of.     *)
(***************************************************************************)
AllRunning == UNION {Running(l) : l \in GameLaunchers}

Aims(h) ==
  h.pc # "idle" => /\ h.todo \subseteq GameLaunchers
                   /\ h.pc # "choose" => h.to \in GameLaunchers

Targets ==
  /\ \A p \in Players : Aims(reader[p])
  /\ \A l \in Launchers : toLauncher[l] # << >> => l \in GameLaunchers

Seen ==
  /\ \A p \in Players :
       /\ known[p] \subseteq AllRunning /\ Range(browser[p]) \subseteq AllRunning
       /\ \A m \in Range(toPlayer[p]) : m.servers \subseteq AllRunning
  /\ \A l \in Launchers : \A m \in Range(answers[l]) : m.servers \subseteq AllRunning

\* Launchers stay in the map and servers go on running.
Growing == GameLaunchers \subseteq GameLaunchers' /\ AllRunning \subseteq AllRunning'

\* A step changes the state of one link, or the servers of one launcher.
LEMMA OneAtATime ==
  [Next]_vars =>
    /\ \/ UNCHANGED link
       \/ \E l \in Launchers, k \in {"store", "up", "down"} :
            link' = [link EXCEPT ![l] = k] /\ (k = "store" => link[l] = "absent")
    /\ UNCHANGED servers \/ \E l \in Launchers : servers' = [servers EXCEPT ![l] = @ + 1]
<1> DEFINE Links == \/ UNCHANGED link
                    \/ \E l \in Launchers, k \in {"store", "up", "down"} :
                         link' = [link EXCEPT ![l] = k] /\ (k = "store" => link[l] = "absent")
<1> SUFFICES ASSUME [Next]_vars
             PROVE  /\ Links
                    /\ \/ UNCHANGED servers
                       \/ \E l \in Launchers : servers' = [servers EXCEPT ![l] = @ + 1]
  OBVIOUS
<1> USE DEF idVars, playerVars, linkVars, wireVars, clientVars
<1>1. CASE UNCHANGED vars \/ MapRace
  BY <1>1 DEF vars, MapRace
<1>2. ASSUME NEW p \in Players, Handle(p) PROVE UNCHANGED <<link, servers>>
  BY <1>2 DEF Handle, ChooseGameLauncher, NextLauncher, LockIds, LoadId, StoreId, StorePending,
              SendRequest
<1>3. ASSUME NEW p \in Players, \/ ReadSpawnServerRequest(p) \/ ReadGetGameServers(p)
                                \/ LosePlayer(p) \/ ClientReceive(p)
      PROVE  UNCHANGED <<link, servers>>
  BY <1>3 DEF ReadSpawnServerRequest, ReadGetGameServers, ReadRequest, LosePlayer, ClientReceive
<1>4. ASSUME NEW l \in Launchers, \/ Connect(l) \/ StoreLauncher(l) \/ WriteRequest(l)
                                  \/ LoseLauncher(l) \/ ReconnectLauncher(l) \/ ReceiveAnswer(l)
      PROVE  UNCHANGED servers /\ Links
  BY <1>4 DEF Connect, StoreLauncher, WriteRequest, LoseLauncher, ReconnectLauncher,
              ReceiveAnswer, Cut
<1>5. ASSUME NEW l \in Launchers, Serve(l)
      PROVE  UNCHANGED link /\ (servers' = [servers EXCEPT ![l] = @ + 1] \/ UNCHANGED servers)
  BY <1>5 DEF Serve
<1>6. QED
  BY <1>1, <1>2, <1>3, <1>4, <1>5 DEF Next

LEMMA NextGrowing == TypeOK /\ TypeOK' /\ [Next]_vars => Growing
<1> SUFFICES ASSUME TypeOK, TypeOK', [Next]_vars PROVE Growing
  OBVIOUS
<1>1. link \in [Launchers -> {"absent", "store", "up", "down"}] /\ servers \in [Launchers -> Nat]
  BY DEF TypeOK
<1>2. \A l \in Launchers : /\ link[l] \in {"up", "down"} => link'[l] \in {"up", "down"}
                           /\ servers[l] <= servers'[l]
  BY <1>1, OneAtATime
<1>3. GameLaunchers \subseteq GameLaunchers'
  BY <1>2 DEF GameLaunchers
<1>4. \A l \in Launchers : Running(l) \subseteq Running(l)'
  BY <1>2 DEF Running, TypeOK
<1>5. ASSUME NEW x \in AllRunning PROVE x \in AllRunning'
  <2>1. PICK l \in GameLaunchers : x \in Running(l)
    BY DEF AllRunning
  <2>2. l \in Launchers /\ l \in GameLaunchers' /\ x \in Running(l)'
    BY <1>3, <1>4, <2>1 DEF GameLaunchers
  <2>3. QED
    BY <2>2 DEF AllRunning
<1>6. QED
  BY <1>3, <1>5 DEF Growing

LEMMA FewLaunchers ==
  TypeOK /\ IsFiniteSet(GameLaunchers) /\ [Next]_vars => IsFiniteSet(GameLaunchers')
<1> SUFFICES ASSUME TypeOK, IsFiniteSet(GameLaunchers), [Next]_vars
             PROVE  IsFiniteSet(GameLaunchers')
  OBVIOUS
<1>1. link \in [Launchers -> {"absent", "store", "up", "down"}]
  BY DEF TypeOK
<1>2. PICK l : GameLaunchers' \subseteq GameLaunchers \cup {l}
  BY <1>1, OneAtATime DEF GameLaunchers
<1>3. IsFiniteSet(GameLaunchers \cup {l})
  BY FS_AddElement
<1>4. QED
  BY <1>2, <1>3, FS_Subset

\* A list the handler has yet to ask launcher l for.
Listing(h, l) ==
  h.pc # "idle" /\ h.kind = "list" /\ IF h.pc = "choose" THEN l \in h.todo ELSE h.to = l

\* Only the place changes.
LEMMA SameAim ==
  ASSUME NEW h \in Handlers, h.pc \in {"lock", "increment", "store"},
         NEW c \in {"next", "store", "send"}
  PROVE  /\ [h EXCEPT !.pc = c].pc = c /\ [h EXCEPT !.pc = c].kind = h.kind
         /\ [h EXCEPT !.pc = c].todo = h.todo /\ [h EXCEPT !.pc = c].to = h.to
<1>1. CASE h.pc = "lock"
  <2>1. PICK k \in Asked, t \in SUBSET Launchers, l \in Launchers :
          h = [pc |-> "lock", kind |-> k, todo |-> t, to |-> l]
    BY <1>1, HandlerFields
  <2>2. QED
    BY <2>1
<1>2. CASE h.pc \in {"increment", "store"}
  <2>1. PICK k \in Asked, t \in SUBSET Launchers, l \in Launchers, i \in RequestIds :
          h = [pc |-> h.pc, kind |-> k, todo |-> t, to |-> l, id |-> i]
    BY <1>2, HandlerFields
  <2>2. QED
    BY <2>1
<1>3. QED
  BY <1>1, <1>2

\* What the handlers do with the launchers they have to do with.
LEMMA HandlerAims ==
  ASSUME TypeOK, Targets, NEW p \in Players, Handle(p)
  PROVE  /\ Aims(reader'[p])
         /\ \A q \in Players \ {p} : reader'[q] = reader[q]
         /\ SendRequest(p) \/
              \A l : GameLaunchers \subseteq {l} /\ Listing(reader[p], l) => Listing(reader'[p], l)
<1> DEFINE h == reader[p]
<1>0. reader \in [Players -> Handlers] /\ h \in Handlers /\ Aims(h)
  BY DEF TypeOK, Targets
<1> HIDE DEF h
<1>1. CASE ChooseGameLauncher(p)
  <2>1. /\ h.kind = "spawn"
        /\ \/ reader' = [reader EXCEPT ![p] = Idle]
           \/ \E l \in GameLaunchers :
                reader' = [reader EXCEPT ![p] = [pc |-> "lock", kind |-> "spawn", todo |-> {},
                                                 to |-> l]]
    BY <1>1 DEF ChooseGameLauncher, Goto, h
  <2>2. QED
    BY <1>0, <2>1 DEF Aims, Listing, Idle, h
<1>2. CASE NextLauncher(p)
  <2>1. /\ h.pc = "choose" /\ h.kind = "list" /\ h.todo \subseteq GameLaunchers
        /\ \/ h.todo = {} /\ reader' = [reader EXCEPT ![p] = Idle]
           \/ \E l \in h.todo :
                reader' = [reader EXCEPT ![p] = [pc |-> "lock", kind |-> "list",
                                                 todo |-> h.todo \ {l}, to |-> l]]
    BY <1>0, <1>2 DEF NextLauncher, Goto, Aims, h
  <2>2. QED
    BY <1>0, <2>1 DEF Aims, Listing, Idle, h
<1>3. CASE LockIds(p) \/ StoreId(p) \/ StorePending(p)
  <2>1. PICK c \in {"next", "store", "send"} :
          /\ h.pc \in {"lock", "increment", "store"}
          /\ reader' = [reader EXCEPT ![p] = [h EXCEPT !.pc = c]]
    BY <1>3 DEF LockIds, StoreId, StorePending, Goto, h
  <2>2. PICK k : k = [h EXCEPT !.pc = c]
    OBVIOUS
  <2>3. k.pc = c /\ k.kind = h.kind /\ k.todo = h.todo /\ k.to = h.to
    BY <1>0, <2>1, <2>2, SameAim
  <2>4. reader'[p] = k /\ \A q \in Players \ {p} : reader'[q] = reader[q]
    BY <1>0, <2>1, <2>2
  <2>5. QED
    BY <1>0, <2>1, <2>3, <2>4 DEF Aims, Listing, h
<1>4. CASE LoadId(p)
  <2>1. /\ h.pc = "next"
        /\ reader' = [reader EXCEPT ![p] = [pc |-> "increment", kind |-> h.kind, todo |-> h.todo,
                                            to |-> h.to, id |-> currentRequestId]]
    BY <1>4 DEF LoadId, Goto, h
  <2>2. QED
    BY <1>0, <2>1 DEF Aims, Listing, h
<1>5. CASE SendRequest(p)
  <2>1. /\ h.pc = "send"
        /\ \/ reader' = [reader EXCEPT ![p] = Idle]
           \/ reader' = [reader EXCEPT ![p] = [pc |-> "choose", kind |-> "list", todo |-> h.todo]]
    BY <1>5 DEF SendRequest, AfterSend, Goto, h
  <2>2. QED
    BY <1>0, <1>5, <2>1 DEF Aims, Idle, h
<1>6. QED
  BY <1>1, <1>2, <1>3, <1>4, <1>5 DEF Handle

\* A launcher more to be asked.
LEMMA AddTodo ==
  ASSUME NEW h \in Handlers, h.pc # "idle", NEW l
  PROVE  LET k == [h EXCEPT !.todo = @ \cup {l}] IN
         /\ k.pc = h.pc /\ k.kind = h.kind /\ k.todo = h.todo \cup {l}
         /\ h.pc # "choose" => k.to = h.to
<1>1. CASE h.pc = "choose"
  <2>1. PICK k, t : h = [pc |-> "choose", kind |-> k, todo |-> t]
    BY <1>1, HandlerFields
  <2>2. QED
    BY <2>1
<1>2. CASE h.pc \in {"lock", "next"}
  <2>1. PICK k, t, n : h = [pc |-> h.pc, kind |-> k, todo |-> t, to |-> n]
    BY <1>2, HandlerFields
  <2>2. QED
    BY <2>1
<1>3. CASE h.pc \in {"increment", "store", "send"}
  <2>1. PICK k, t, n, i : h = [pc |-> h.pc, kind |-> k, todo |-> t, to |-> n, id |-> i]
    BY <1>3, HandlerFields
  <2>2. QED
    BY <2>1
<1>4. QED
  BY <1>1, <1>2, <1>3, HandlerFields

LEMMA TargetsStay ==
  ASSUME Targets, Growing,
         \A p \in Players : reader'[p] = reader[p] \/ Aims(reader'[p]),
         \A l \in Launchers : toLauncher'[l] # << >> => toLauncher[l] # << >> \/ l \in GameLaunchers
  PROVE  Targets'
<1>1. ASSUME NEW p \in Players PROVE Aims(reader[p])'
  <2>1. Aims(reader'[p])
    BY DEF Targets
  <2>2. QED
    BY <2>1 DEF Aims, Growing
<1>2. QED
  BY <1>1 DEF Targets, Growing

LEMMA NextTargets == TypeOK /\ TypeOK' /\ Targets /\ [Next]_vars => Targets'
<1> SUFFICES ASSUME TypeOK, TypeOK', Targets, [Next]_vars PROVE Targets'
  OBVIOUS
<1> USE DEF idVars, playerVars, linkVars, wireVars, clientVars
<1>0. /\ reader \in [Players -> Handlers] /\ toLauncher \in [Launchers -> Seq(Requests)]
      /\ Growing
  BY NextGrowing DEF TypeOK
<1>1. CASE UNCHANGED vars
  BY <1>0, <1>1, TargetsStay DEF vars
<1>2. ASSUME NEW p \in Players, Handle(p) PROVE Targets'
  <2>1. \A q \in Players : reader'[q] = reader[q] \/ Aims(reader'[q])
    BY <1>2, HandlerAims
  <2>2. CASE SendRequest(p)
    <3>1. reader[p].to \in GameLaunchers
      <4>1. Aims(reader[p]) /\ reader[p].pc = "send"
        BY <2>2 DEF Targets, SendRequest
      <4>2. QED
        BY <4>1 DEF Aims
    <3>2. \A l \in Launchers : l # reader[p].to => toLauncher'[l] = toLauncher[l]
      BY <1>0, <2>2 DEF SendRequest
    <3>3. QED
      BY <1>0, <2>1, <3>1, <3>2, TargetsStay
  <2>3. CASE ~SendRequest(p)
    <3>1. UNCHANGED toLauncher
      BY <1>2, <2>3 DEF Handle, ChooseGameLauncher, NextLauncher, LockIds, LoadId, StoreId,
                        StorePending
    <3>2. QED
      BY <1>0, <2>1, <3>1, TargetsStay
  <2>4. QED
    BY <2>2, <2>3
<1>3. ASSUME NEW p \in Players, ReadSpawnServerRequest(p) \/ ReadGetGameServers(p) PROVE Targets'
  <2>1. /\ UNCHANGED toLauncher
        /\ \E k, t : /\ t \subseteq GameLaunchers
                     /\ reader' = [reader EXCEPT ![p] = [pc |-> "choose", kind |-> k, todo |-> t]]
    BY <1>3 DEF ReadSpawnServerRequest, ReadGetGameServers, ReadRequest, Goto
  <2>2. \A q \in Players : reader'[q] = reader[q] \/ Aims(reader'[q])
    BY <1>0, <2>1 DEF Aims
  <2>3. QED
    BY <1>0, <2>1, <2>2, TargetsStay
<1>4. ASSUME NEW p \in Players, LosePlayer(p) \/ ClientReceive(p) PROVE Targets'
  <2>1. UNCHANGED <<reader, toLauncher>>
    BY <1>4 DEF LosePlayer, ClientReceive
  <2>2. QED
    BY <1>0, <2>1, TargetsStay
<1>5. ASSUME NEW l \in Launchers,
             Connect(l) \/ LoseLauncher(l) \/ ReconnectLauncher(l) \/ Serve(l) \/ ReceiveAnswer(l)
      PROVE  Targets'
  <2>1. UNCHANGED <<reader, toLauncher>>
    BY <1>5 DEF Connect, LoseLauncher, ReconnectLauncher, Serve, ReceiveAnswer
  <2>2. QED
    BY <1>0, <2>1, TargetsStay
<1>6. ASSUME NEW l \in Launchers, StoreLauncher(l) PROVE Targets'
  <2>1. UNCHANGED toLauncher /\ l \in GameLaunchers'
    <3>1. link' = [link EXCEPT ![l] = "up"] /\ UNCHANGED toLauncher
      BY <1>6 DEF StoreLauncher
    <3>2. link \in [Launchers -> {"absent", "store", "up", "down"}]
      BY DEF TypeOK
    <3>3. QED
      BY <3>1, <3>2 DEF GameLaunchers
  <2>2. ASSUME NEW q \in Players PROVE Aims(reader[q])'
    <3>1. Aims(reader[q]) /\ reader[q] \in Handlers
      BY <1>0 DEF Targets
    <3>2. CASE reader'[q] = reader[q]
      BY <1>0, <3>1, <3>2 DEF Aims, Growing
    <3>3. CASE reader'[q] # reader[q]
      <4>1. reader[q] # Idle /\ reader'[q] = [reader[q] EXCEPT !.todo = @ \cup {l}]
        BY <1>6, <3>3 DEF StoreLauncher
      <4>2. PICK k : k = [reader[q] EXCEPT !.todo = @ \cup {l}]
        OBVIOUS
      <4>3. /\ k.pc = reader[q].pc /\ k.todo = reader[q].todo \cup {l}
            /\ k.pc # "choose" => k.to = reader[q].to
        <5>1. reader[q].pc # "idle"
          BY <3>1, <4>1, HandlerFields
        <5>2. QED
          BY <3>1, <4>2, <5>1, AddTodo
      <4>4. QED
        BY <1>0, <2>1, <3>1, <4>1, <4>2, <4>3 DEF Aims, Growing
    <3>4. QED
      BY <3>2, <3>3
  <2>3. QED
    BY <1>0, <2>1, <2>2 DEF Targets, Growing
<1>7. ASSUME NEW l \in Launchers, WriteRequest(l) PROVE Targets'
  <2>1. /\ UNCHANGED reader /\ toLauncher[l] # << >>
        /\ \A k \in Launchers \ {l} : toLauncher'[k] = toLauncher[k]
    BY <1>0, <1>7 DEF WriteRequest
  <2>2. QED
    BY <1>0, <2>1, TargetsStay
<1>8. CASE MapRace
  <2>1. UNCHANGED <<reader, toLauncher>>
    BY <1>8 DEF MapRace
  <2>2. QED
    BY <1>0, <2>1, TargetsStay
<1>9. QED
  BY <1>1, <1>2, <1>3, <1>4, <1>5, <1>6, <1>7, <1>8 DEF Next

\* An answer lists what runs, or the newest.
LEMMA ServeAnswers ==
  ASSUME Typed, TypeOK', NEW l \in Launchers, Serve(l)
  PROVE  \E m \in Answers :
           /\ answers' = [answers EXCEPT ![l] = Append(@, m)]
           /\ requests' = [requests EXCEPT ![l] = Tail(@)] /\ requests[l] # << >>
           /\ m.kind = Head(requests[l]).kind /\ m.by = Head(requests[l]).by
           /\ l \in GameLaunchers /\ l \in GameLaunchers'
           /\ m.servers \subseteq Running(l)'
           /\ \A S \in SUBSET Running(l) : After(S, m)
<1>1. /\ requests[l] # << >> /\ requests[l] \in Seq(Requests)
      /\ requests' = [requests EXCEPT ![l] = Tail(@)] /\ UNCHANGED link
      /\ servers[l] \in Nat /\ servers \in [Launchers -> Nat]
  BY DEF Serve, Typed, TypeOK, linkVars
<1>2. link[l] = "up" /\ l \in GameLaunchers /\ l \in GameLaunchers'
  BY <1>1 DEF Typed, TypeOK, GameLaunchers
<1>3. PICK q : q = Head(requests[l])
  OBVIOUS
<1>4. q \in Requests
  BY <1>1, <1>3, HeadTailProperties
<1>5. PICK S : S = IF q.kind = "spawn" THEN {<<l, servers'[l]>>} ELSE Running(l)
  OBVIOUS
<1>6. PICK m : m = [kind |-> q.kind, id |-> q.id, by |-> q.by, servers |-> S]
  OBVIOUS
<1>7. answers' = [answers EXCEPT ![l] = Append(@, m)]
  BY <1>3, <1>5, <1>6 DEF Serve
<1>8. m.kind = q.kind /\ m.by = q.by /\ m.servers = S
  BY <1>6
<1>9. servers' = IF q.kind = "spawn" THEN [servers EXCEPT ![l] = @ + 1] ELSE servers
  BY <1>3 DEF Serve
<1>10. S \subseteq Running(l)' /\ \A R \in SUBSET Running(l) : After(R, m)
  <2>1. CASE q.kind = "spawn"
    <3>1. S = {<<l, servers[l] + 1>>} /\ servers'[l] = servers[l] + 1
      BY <1>1, <1>5, <1>9, <2>1
    <3>2. <<l, servers[l] + 1>> \in Running(l)'
      BY <1>1, <3>1 DEF Running
    <3>3. \A x \in Running(l) : x[2] < servers[l] + 1
      BY <1>1 DEF Running
    <3>4. QED
      BY <1>8, <2>1, <3>1, <3>2, <3>3 DEF After
  <2>2. CASE q.kind # "spawn"
    <3>1. S = Running(l) /\ Running(l)' = Running(l)
      BY <1>1, <1>5, <1>9, <2>2 DEF Running
    <3>2. QED
      BY <1>8, <2>2, <3>1 DEF After
  <2>3. QED
    BY <2>1, <2>2
<1>11. m \in Answers
  <2>1. S \in {T \in SUBSET Rows : IsFiniteSet(T)}
    <3>1. CASE q.kind = "spawn"
      <4>1. <<l, servers'[l]>> \in Rows
        BY <1>1, <1>9 DEF Rows
      <4>2. QED
        BY <1>5, <3>1, <4>1, FS_Singleton
    <3>2. CASE q.kind # "spawn"
      BY <1>1, <1>5, <3>2, RunningRows
    <3>3. QED
      BY <3>1, <3>2
  <2>2. QED
    BY <1>4, <1>6, <2>1 DEF Requests, Answers
<1>12. QED
  BY <1>1, <1>2, <1>3, <1>7, <1>8, <1>10, <1>11

\* What a client does with an answer.
LEMMA ClientTakes ==
  ASSUME TypeOK, NEW p \in Players, ClientReceive(p)
  PROVE  \E m \in Answers :
           /\ m = Head(toPlayer[p]) /\ toPlayer[p] # << >> /\ toPlayer[p] \in Seq(Answers)
           /\ toPlayer' = [toPlayer EXCEPT ![p] = Tail(@)]
           /\ browser'[p] = IF m.kind = "spawn" THEN RowsSpawned(browser[p], m.servers)
                                                ELSE RowsListed(browser[p], m.servers)
           /\ known'[p] = IF m.kind = "spawn" THEN known[p] \cup m.servers ELSE known[p]
           /\ \A q \in Players \ {p} : browser'[q] = browser[q] /\ known'[q] = known[q]
           /\ m.servers \in SUBSET Rows /\ IsFiniteSet(m.servers)
<1>1. /\ toPlayer[p] # << >> /\ toPlayer[p] \in Seq(Answers)
      /\ browser \in [Players -> Seq(Rows)] /\ known \in [Players -> SUBSET Rows]
  BY DEF ClientReceive, TypeOK
<1>2. PICK m : m = Head(toPlayer[p])
  OBVIOUS
<1>3. m \in Answers
  BY <1>1, <1>2, HeadTailProperties
<1>4. /\ toPlayer' = [toPlayer EXCEPT ![p] = Tail(@)]
      /\ m.kind = "spawn" => /\ browser' = [browser EXCEPT ![p] = RowsSpawned(@, m.servers)]
                             /\ known' = [known EXCEPT ![p] = @ \cup m.servers]
      /\ m.kind # "spawn" => /\ browser' = [browser EXCEPT ![p] = RowsListed(@, m.servers)]
                             /\ known' = known
  BY <1>2 DEF ClientReceive
<1>5. m.servers \in SUBSET Rows /\ IsFiniteSet(m.servers)
  BY <1>3 DEF Answers
<1>6. QED
  <2>1. CASE m.kind = "spawn"
    BY <1>1, <1>2, <1>3, <1>4, <1>5, <2>1
  <2>2. CASE m.kind # "spawn"
    BY <1>1, <1>2, <1>3, <1>4, <1>5, <2>2
  <2>3. QED
    BY <2>1, <2>2

\* An answer goes on to the player it is filed under, or is dropped, or ends
\* the connection.
LEMMA AnswerGoes ==
  ASSUME TypeOK, NEW l \in Launchers, ReceiveAnswer(l)
  PROVE  \E m \in Answers :
           /\ m = Head(answers[l]) /\ answers[l] # << >> /\ answers[l] \in Seq(Answers)
           /\ \/ /\ m.id \in DOMAIN pendingRequests /\ pendingRequests[m.id] \in Players
                 /\ answers' = [answers EXCEPT ![l] = Tail(@)] /\ requests' = requests
                 /\ \/ toPlayer' = [toPlayer EXCEPT ![pendingRequests[m.id]] = Append(@, m)]
                    \/ toPlayer' = toPlayer /\ lost' # {}
              \/ /\ m.id \notin DOMAIN pendingRequests
                 /\ answers' = [answers EXCEPT ![l] = << >>] /\ toPlayer' = toPlayer
<1>1. answers[l] # << >> /\ answers[l] \in Seq(Answers)
  BY DEF ReceiveAnswer, TypeOK
<1>2. PICK m : m = Head(answers[l])
  OBVIOUS
<1>3. m \in Answers
  BY <1>1, <1>2, HeadTailProperties
<1>4. CASE m.id \in DOMAIN pendingRequests
  <2>1. PICK p : p = pendingRequests[m.id]
    OBVIOUS
  <2>2. p \in Players
    BY <1>4, <2>1 DEF TypeOK
  <2>3. /\ answers' = [answers EXCEPT ![l] = Tail(@)] /\ requests' = requests
        /\ \/ toPlayer' = [toPlayer EXCEPT ![p] = Append(@, m)]
           \/ toPlayer' = toPlayer /\ lost' = lost \cup {m.id}
    BY <1>2, <1>4, <2>1 DEF ReceiveAnswer
  <2>4. QED
    BY <1>1, <1>2, <1>3, <1>4, <2>1, <2>2, <2>3
<1>5. CASE m.id \notin DOMAIN pendingRequests
  <2>1. answers' = [answers EXCEPT ![l] = << >>] /\ toPlayer' = toPlayer
    BY <1>2, <1>5 DEF ReceiveAnswer, Cut
  <2>2. QED
    BY <1>1, <1>2, <1>3, <1>5, <2>1
<1>6. QED
  BY <1>4, <1>5

LEMMA SeenStays ==
  ASSUME Seen, Growing, UNCHANGED clientVars,
         \A l \in Launchers : Range(answers'[l]) \subseteq Range(answers[l])
  PROVE  Seen'
  BY DEF Seen, Growing, clientVars

\* A step of a handler, or one of a launcher that leaves the answers.
Aside ==
  \/ \E p \in Players : Handle(p) \/ ReadSpawnServerRequest(p) \/ LosePlayer(p)
  \/ \E l \in Launchers : Connect(l) \/ StoreLauncher(l) \/ WriteRequest(l) \/ ReconnectLauncher(l)
  \/ MapRace
  \/ UNCHANGED vars

LEMMA AsideLeaves == Aside => UNCHANGED <<clientVars, answers>>
<1> SUFFICES ASSUME Aside PROVE UNCHANGED <<clientVars, answers>>
  OBVIOUS
<1> USE DEF idVars, playerVars, linkVars, wireVars, vars
<1>1. ASSUME NEW p \in Players, Handle(p) PROVE UNCHANGED <<clientVars, answers>>
  BY <1>1 DEF Handle, ChooseGameLauncher, NextLauncher, LockIds, LoadId, StoreId, StorePending,
              SendRequest
<1>2. ASSUME NEW p \in Players, ReadSpawnServerRequest(p) \/ LosePlayer(p)
      PROVE  UNCHANGED <<clientVars, answers>>
  BY <1>2 DEF ReadSpawnServerRequest, ReadRequest, LosePlayer
<1>3. ASSUME NEW l \in Launchers,
             Connect(l) \/ StoreLauncher(l) \/ WriteRequest(l) \/ ReconnectLauncher(l)
      PROVE  UNCHANGED <<clientVars, answers>>
  BY <1>3 DEF Connect, StoreLauncher, WriteRequest, ReconnectLauncher
<1>4. QED
  BY <1>1, <1>2, <1>3 DEF Aside, MapRace

LEMMA NextSeen == Typed /\ TypeOK' /\ Seen /\ [Next]_vars => Seen'
<1> SUFFICES ASSUME Typed, TypeOK', Seen, [Next]_vars PROVE Seen'
  OBVIOUS
<1>0. /\ TypeOK /\ Growing /\ answers \in [Launchers -> Seq(Answers)]
      /\ known \in [Players -> SUBSET Rows] /\ browser \in [Players -> Seq(Rows)]
      /\ toPlayer \in [Players -> Seq(Answers)]
  BY NextGrowing DEF Typed, TypeOK
<1>1. CASE Aside
  BY <1>0, <1>1, AsideLeaves, SeenStays
<1>2. ASSUME NEW p \in Players, ReadGetGameServers(p) PROVE Seen'
  <2>1. /\ known' = [known EXCEPT ![p] = AllRunning] /\ UNCHANGED <<toPlayer, browser, answers>>
    BY <1>2 DEF ReadGetGameServers, ReadRequest, wireVars, AllRunning
  <2>2. QED
    BY <1>0, <2>1 DEF Seen, Growing
<1>3. ASSUME NEW p \in Players, ClientReceive(p) PROVE Seen'
  <2>1. PICK m \in Answers :
           /\ m = Head(toPlayer[p]) /\ toPlayer[p] # << >> /\ toPlayer[p] \in Seq(Answers)
           /\ toPlayer' = [toPlayer EXCEPT ![p] = Tail(@)]
           /\ browser'[p] = IF m.kind = "spawn" THEN RowsSpawned(browser[p], m.servers)
                                                ELSE RowsListed(browser[p], m.servers)
           /\ known'[p] = IF m.kind = "spawn" THEN known[p] \cup m.servers ELSE known[p]
           /\ \A q \in Players \ {p} : browser'[q] = browser[q] /\ known'[q] = known[q]
           /\ m.servers \in SUBSET Rows /\ IsFiniteSet(m.servers)
    BY <1>0, <1>3, ClientTakes
  <2>2. UNCHANGED answers
    BY <1>3 DEF ClientReceive, wireVars
  <2>3. m \in Range(toPlayer[p]) /\ Range(Tail(toPlayer[p])) \subseteq Range(toPlayer[p])
    BY <2>1, RangeOfTail
  <2>4. m.servers \subseteq AllRunning
    BY <2>3 DEF Seen
  <2>5. Range(browser'[p]) \subseteq Range(browser[p]) \cup m.servers
    <3>1. browser[p] \in Seq(Rows) /\ m.servers \in SUBSET Rows /\ IsFiniteSet(m.servers)
      BY <1>0, <2>1
    <3>2. /\ Range(RowsListed(browser[p], m.servers)) = m.servers
          /\ Range(RowsSpawned(browser[p], m.servers)) = Range(browser[p]) \cup m.servers
      BY <3>1, RowsShown
    <3>3. QED
      BY <2>1, <3>2
  <2>6. ASSUME NEW q \in Players
        PROVE  /\ known'[q] \subseteq AllRunning /\ Range(browser'[q]) \subseteq AllRunning
               /\ Range(toPlayer'[q]) \subseteq Range(toPlayer[q])
    <3>1. CASE q = p
      BY <1>0, <2>1, <2>3, <2>4, <2>5, <3>1 DEF Seen
    <3>2. CASE q # p
      BY <1>0, <2>1, <3>2 DEF Seen
    <3>3. QED
      BY <3>1, <3>2
  <2>7. QED
    BY <1>0, <2>2, <2>6 DEF Seen, Growing
<1>4. ASSUME NEW l \in Launchers, LoseLauncher(l) PROVE Seen'
  <2>1. answers' = [answers EXCEPT ![l] = << >>] /\ UNCHANGED clientVars
    BY <1>4 DEF LoseLauncher, Cut
  <2>2. Range(<< >>) = {}
    BY DEF Range
  <2>3. QED
    BY <1>0, <2>1, <2>2, SeenStays
<1>5. ASSUME NEW l \in Launchers, Serve(l) PROVE Seen'
  <2>1. PICK m \in Answers :
           /\ answers' = [answers EXCEPT ![l] = Append(@, m)]
           /\ l \in GameLaunchers' /\ m.servers \subseteq Running(l)'
    BY <1>0, <1>5, ServeAnswers
  <2>2. UNCHANGED clientVars
    BY <1>5 DEF Serve
  <2>3. m.servers \subseteq AllRunning'
    BY <2>1 DEF AllRunning
  <2>4. \A k \in Launchers : \A n \in Range(answers'[k]) : n \in Range(answers[k]) \/ n = m
    BY <1>0, <2>1, RangeOfAppend
  <2>5. QED
    BY <1>0, <2>2, <2>3, <2>4 DEF Seen, Growing, clientVars
<1>6. ASSUME NEW l \in Launchers, ReceiveAnswer(l) PROVE Seen'
  <2>0. UNCHANGED <<browser, known>>
    BY <1>6 DEF ReceiveAnswer
  <2>1. PICK m \in Answers :
           /\ m = Head(answers[l]) /\ answers[l] # << >> /\ answers[l] \in Seq(Answers)
           /\ \/ /\ m.id \in DOMAIN pendingRequests /\ pendingRequests[m.id] \in Players
                 /\ answers' = [answers EXCEPT ![l] = Tail(@)] /\ requests' = requests
                 /\ \/ toPlayer' = [toPlayer EXCEPT ![pendingRequests[m.id]] = Append(@, m)]
                    \/ toPlayer' = toPlayer /\ lost' # {}
              \/ /\ m.id \notin DOMAIN pendingRequests
                 /\ answers' = [answers EXCEPT ![l] = << >>] /\ toPlayer' = toPlayer
    BY <1>0, <1>6, AnswerGoes
  <2>2. m \in Range(answers[l]) /\ Range(Tail(answers[l])) \subseteq Range(answers[l])
    BY <2>1, RangeOfTail
  <2>3. m.servers \subseteq AllRunning
    BY <2>2 DEF Seen
  <2>4. Range(<< >>) = {}
    BY DEF Range
  <2>5. \A k \in Launchers : Range(answers'[k]) \subseteq Range(answers[k])
    BY <1>0, <2>1, <2>2, <2>4
  <2>6. \A q \in Players : \A n \in Range(toPlayer'[q]) : n \in Range(toPlayer[q]) \/ n = m
    <3>1. CASE toPlayer' = toPlayer
      BY <3>1
    <3>2. ASSUME NEW p \in Players, toPlayer' = [toPlayer EXCEPT ![p] = Append(@, m)]
          PROVE  \A q \in Players : \A n \in Range(toPlayer'[q]) : n \in Range(toPlayer[q]) \/ n = m
      BY <1>0, <3>2, RangeOfAppend
    <3>3. QED
      BY <2>1, <3>1, <3>2
  <2>7. QED
    BY <1>0, <2>0, <2>3, <2>5, <2>6 DEF Seen, Growing
<1>7. QED
  BY <1>1, <1>2, <1>3, <1>4, <1>5, <1>6 DEF Next, Aside

-----------------------------------------------------------------------------
(***************************************************************************)
(* What a player is shown.                                                 *)
(***************************************************************************)
Chain(p, l) ==
  /\ Ordered(toPlayer[p]) /\ Ordered(answers[l])
  /\ \A m \in Range(toPlayer[p]), n \in Range(answers[l]) : After(m.servers, n)
  /\ \A m \in Range(toPlayer[p]) \cup Range(answers[l]) : After(Range(browser[p]), m)

\* A list for the player is still to be made.
ToCome(p, l) ==
  \/ \E m \in Range(requests[l]) \cup Range(toLauncher[l]) : m.by = p /\ m.kind = "list"
  \/ Listing(reader[p], l)

\* The lists on their way to the player.
Coming(p, l) == {m \in Range(toPlayer[p]) \cup Range(answers[l]) : m.by = p /\ m.kind = "list"}

\* Where the known servers are or will be seen.
Covered(p, l) ==
  \/ ToCome(p, l)
  \/ \E m \in Coming(p, l) : known[p] \subseteq m.servers
  \/ Coming(p, l) = {} /\ known[p] \subseteq Range(browser[p])

Shown(p, l) == Chain(p, l) /\ IsInjective(browser[p]) /\ Covered(p, l)

\* There is no other launcher, and nothing was lost.
Sole(l) == GameLaunchers \subseteq {l} /\ lost = {} /\ ~reused

Shows == \A l \in Launchers : Sole(l) => \A p \in Players : Shown(p, l)

LEMMA InitShows == Init => Targets /\ Seen /\ Shows
<1> SUFFICES ASSUME Init PROVE Targets /\ Seen /\ Shows
  OBVIOUS
<1>1. Range(<< >>) = {} /\ Ordered(<< >>) /\ IsInjective(<< >>)
  BY DEF Range, Ordered, IsInjective
<1>2. Targets
  BY DEF Init, Targets, Aims, Idle
<1>3. Seen
  BY <1>1 DEF Init, Seen
<1>4. ASSUME NEW p \in Players, NEW l \in Launchers PROVE Shown(p, l)
  BY <1>1 DEF Init, Shown, Chain, Covered, Coming
<1>5. QED
  BY <1>2, <1>3, <1>4 DEF Shows

LEMMA LossesStay == TypeOK /\ [Next]_vars => lost \subseteq lost' /\ (reused => reused')
<1> SUFFICES ASSUME TypeOK, [Next]_vars PROVE lost \subseteq lost' /\ (reused => reused')
  OBVIOUS
<1>0. reused \in BOOLEAN
  BY DEF TypeOK
<1> USE DEF idVars, playerVars, linkVars, wireVars, clientVars
<1>1. ASSUME NEW p \in Players, Handle(p) PROVE lost \subseteq lost' /\ (reused => reused')
  <2>1. CASE StorePending(p)
    <3>1. UNCHANGED lost /\ reused' = (reused \/ reader[p].id \in InFlight)
      BY <2>1 DEF StorePending
    <3>2. QED
      BY <1>0, <3>1
  <2>2. CASE SendRequest(p)
    BY <2>2 DEF SendRequest
  <2>3. QED
    BY <1>1, <2>1, <2>2 DEF Handle, ChooseGameLauncher, NextLauncher, LockIds, LoadId, StoreId
<1>2. ASSUME NEW p \in Players, \/ ReadSpawnServerRequest(p) \/ ReadGetGameServers(p)
                                \/ LosePlayer(p) \/ ClientReceive(p)
      PROVE  lost \subseteq lost' /\ (reused => reused')
  BY <1>2 DEF ReadSpawnServerRequest, ReadGetGameServers, ReadRequest, LosePlayer, ClientReceive
<1>3. ASSUME NEW l \in Launchers,
             \/ Connect(l) \/ StoreLauncher(l) \/ WriteRequest(l) \/ LoseLauncher(l)
             \/ ReconnectLauncher(l) \/ Serve(l) \/ ReceiveAnswer(l)
      PROVE  lost \subseteq lost' /\ (reused => reused')
  BY <1>3 DEF Connect, StoreLauncher, WriteRequest, LoseLauncher, ReconnectLauncher, Serve,
              ReceiveAnswer, Cut
<1>4. QED
  BY <1>1, <1>2, <1>3 DEF Next, MapRace, vars

LEMMA SoleBefore ==
  TypeOK /\ TypeOK' /\ [Next]_vars => \A l \in Launchers : Sole(l)' => Sole(l)
  BY NextGrowing, LossesStay DEF Growing, Sole

LEMMA AsideToCome ==
  ASSUME TypeOK, Targets, Aside, NEW l \in Launchers, Sole(l), Sole(l)', NEW p \in Players,
         ToCome(p, l)
  PROVE  ToCome(p, l)'
<1> USE DEF idVars, playerVars, linkVars, wireVars, clientVars
<1>0. /\ reader \in [Players -> Handlers] /\ lost' = {} /\ GameLaunchers \subseteq {l}
      /\ toLauncher \in [Launchers -> Seq(Requests)] /\ requests \in [Launchers -> Seq(Requests)]
  BY DEF TypeOK, Sole
<1>1. ASSUME /\ Range(requests[l]) \cup Range(toLauncher[l])
                  \subseteq Range(requests'[l]) \cup Range(toLauncher'[l])
             /\ Listing(reader[p], l) => Listing(reader'[p], l)
      PROVE  ToCome(p, l)'
  BY <1>1 DEF ToCome, Listing
<1>2. ASSUME UNCHANGED <<reader, requests, toLauncher>> PROVE ToCome(p, l)'
  BY <1>1, <1>2
<1>3. ASSUME NEW q \in Players, Handle(q), ~SendRequest(q) PROVE ToCome(p, l)'
  <2>1. UNCHANGED <<requests, toLauncher>>
    BY <1>3 DEF Handle, ChooseGameLauncher, NextLauncher, LockIds, LoadId, StoreId, StorePending
  <2>2. Listing(reader[p], l) => Listing(reader'[p], l)
    BY <1>0, <1>3, HandlerAims
  <2>3. QED
    BY <1>1, <2>1, <2>2
<1>4. ASSUME NEW q \in Players, SendRequest(q) PROVE ToCome(p, l)'
  <2>1. Aims(reader[q]) /\ reader[q].pc = "send" /\ reader[q] \in Handlers
    BY <1>0, <1>4 DEF Targets, SendRequest
  <2>2. reader[q].to = l
    BY <1>0, <2>1 DEF Aims
  <2>3. PICK m : m = [kind |-> reader[q].kind, id |-> reader[q].id, by |-> q]
    OBVIOUS
  <2>4. m \in Requests
    BY <2>1, <2>3, HandlerFields DEF Requests
  <2>5. toLauncher' = [toLauncher EXCEPT ![l] = Append(@, m)] /\ UNCHANGED requests
    BY <1>0, <1>4, <2>2, <2>3 DEF SendRequest
  <2>6. Range(toLauncher'[l]) = Range(toLauncher[l]) \cup {m}
    BY <1>0, <2>4, <2>5, RangeOfAppend
  <2>7. CASE q = p /\ Listing(reader[p], l)
    BY <2>3, <2>6, <2>7 DEF ToCome, Listing
  <2>8. CASE q # p
    <3>1. reader'[p] = reader[p]
      BY <1>0, <1>4, <2>8 DEF SendRequest, Goto
    <3>2. QED
      BY <1>1, <2>5, <2>6, <3>1
  <2>9. CASE ~Listing(reader[p], l)
    BY <1>1, <2>5, <2>6, <2>9
  <2>10. QED
    BY <2>7, <2>8, <2>9
<1>5. ASSUME NEW q \in Players, ReadSpawnServerRequest(q) PROVE ToCome(p, l)'
  <2>1. /\ UNCHANGED <<requests, toLauncher>> /\ reader[q] = Idle
        /\ \A r \in Players \ {q} : reader'[r] = reader[r]
    BY <1>0, <1>5 DEF ReadSpawnServerRequest, ReadRequest, Goto
  <2>2. QED
    BY <1>1, <2>1 DEF Listing, Idle
<1>6. ASSUME NEW k \in Launchers, StoreLauncher(k) PROVE ToCome(p, l)'
  <2>1. UNCHANGED <<requests, toLauncher>>
    BY <1>6 DEF StoreLauncher
  <2>2. ASSUME Listing(reader[p], l), reader'[p] # reader[p] PROVE Listing(reader'[p], l)
    <3>1. reader'[p] = [reader[p] EXCEPT !.todo = @ \cup {k}] /\ reader[p] \in Handlers
      BY <1>0, <1>6, <2>2 DEF StoreLauncher
    <3>2. PICK h : h = [reader[p] EXCEPT !.todo = @ \cup {k}]
      OBVIOUS
    <3>3. /\ reader[p].pc # "idle" /\ h.pc = reader[p].pc /\ h.kind = reader[p].kind
          /\ h.todo = reader[p].todo \cup {k}
          /\ reader[p].pc # "choose" => h.to = reader[p].to
      BY <2>2, <3>1, <3>2, AddTodo DEF Listing
    <3>4. reader'[p] = h
      BY <3>1, <3>2
    <3>5. reader[p].kind = "list"
          /\ IF reader[p].pc = "choose" THEN l \in reader[p].todo ELSE reader[p].to = l
      BY <2>2 DEF Listing
    <3>6. Listing(h, l)
      BY <3>3, <3>5 DEF Listing
    <3>7. QED
      BY <3>4, <3>6
  <2>3. QED
    BY <1>1, <2>1, <2>2
<1>7. ASSUME NEW k \in Launchers, WriteRequest(k) PROVE ToCome(p, l)'
  <2>1. PICK m : m = Head(toLauncher[k])
    OBVIOUS
  <2>2. /\ m \in Requests /\ m \in Range(toLauncher[k])
        /\ Range(toLauncher[k]) = {m} \cup Range(Tail(toLauncher[k]))
    BY <1>0, <1>7, <2>1, RangeOfTail DEF WriteRequest
  <2>3. link[k] = "up"
    <3>1. m.id \in Ids(toLauncher[k])
      BY <2>2 DEF Ids
    <3>2. link[k] # "up" => lost' = lost \cup Ids(toLauncher[k])
      BY <1>7 DEF WriteRequest
    <3>3. QED
      BY <1>0, <3>1, <3>2
  <2>4. /\ toLauncher' = [toLauncher EXCEPT ![k] = Tail(@)]
        /\ requests' = [requests EXCEPT ![k] = Append(@, m)] /\ UNCHANGED reader
    BY <1>7, <2>1, <2>3 DEF WriteRequest
  <2>5. Range(Append(requests[k], m)) = Range(requests[k]) \cup {m}
    BY <1>0, <2>2, RangeOfAppend
  <2>6. Range(requests[l]) \cup Range(toLauncher[l])
          \subseteq Range(requests'[l]) \cup Range(toLauncher'[l])
    BY <1>0, <2>2, <2>4, <2>5
  <2>7. QED
    BY <1>1, <2>4, <2>6
<1>8. ASSUME \/ \E q \in Players : LosePlayer(q)
             \/ \E k \in Launchers : Connect(k) \/ ReconnectLauncher(k)
             \/ MapRace \/ UNCHANGED vars
      PROVE  ToCome(p, l)'
  BY <1>2, <1>8 DEF LosePlayer, Connect, ReconnectLauncher, MapRace, vars
<1>9. QED
  BY <1>3, <1>4, <1>5, <1>6, <1>7, <1>8 DEF Aside

LEMMA AsideShown ==
  ASSUME TypeOK, Targets, Aside, NEW l \in Launchers, Sole(l), Sole(l)', NEW p \in Players,
         Shown(p, l)
  PROVE  Shown(p, l)'
<1>1. UNCHANGED <<toPlayer, browser, known, answers>>
  BY AsideLeaves DEF clientVars
<1>2. ToCome(p, l) => ToCome(p, l)'
  BY AsideToCome
<1>3. QED
  BY <1>1, <1>2 DEF Shown, Chain, Covered, Coming

LEMMA GetShown ==
  ASSUME TypeOK, NEW q \in Players, ReadGetGameServers(q),
         NEW l \in Launchers, Sole(l), NEW p \in Players, Shown(p, l)
  PROVE  Shown(p, l)'
<1>1. /\ UNCHANGED <<toPlayer, browser, answers, requests, toLauncher>>
      /\ known' = [known EXCEPT ![q] = AllRunning]
      /\ reader' = [reader EXCEPT ![q] = [pc |-> "choose", kind |-> "list",
                                          todo |-> GameLaunchers]]
  BY DEF ReadGetGameServers, ReadRequest, Goto, wireVars, AllRunning
<1>2. known \in [Players -> SUBSET Rows] /\ reader \in [Players -> Handlers]
  BY DEF TypeOK
<1>3. Chain(p, l)' /\ IsInjective(browser'[p]) /\ Coming(p, l)' = Coming(p, l)
  BY <1>1 DEF Shown, Chain, Coming
<1>4. Covered(p, l)'
  <2>1. CASE p # q
    <3>1. known'[p] = known[p] /\ reader'[p] = reader[p]
      BY <1>1, <1>2, <2>1
    <3>2. QED
      BY <1>1, <1>3, <3>1 DEF Shown, Covered, ToCome
  <2>2. CASE p = q /\ GameLaunchers = {}
    <3>1. known'[p] = {}
      BY <1>1, <1>2, <2>2 DEF AllRunning
    <3>2. QED
      BY <3>1 DEF Covered
  <2>3. CASE p = q /\ GameLaunchers # {}
    <3>1. l \in GameLaunchers
      BY <2>3 DEF Sole
    <3>2. Listing(reader'[p], l)
      BY <1>1, <1>2, <2>3, <3>1 DEF Listing
    <3>3. QED
      BY <3>2 DEF Covered, ToCome, Listing
  <2>4. QED
    BY <2>1, <2>2, <2>3
<1>5. QED
  BY <1>3, <1>4 DEF Shown

LEMMA LoseShown ==
  ASSUME TypeOK, NEW k \in Launchers, LoseLauncher(k),
         NEW l \in Launchers, Sole(l)', NEW p \in Players, Shown(p, l)
  PROVE  Shown(p, l)'
<1>1. /\ UNCHANGED <<toPlayer, browser, known, reader, toLauncher>>
      /\ requests' = [requests EXCEPT ![k] = << >>] /\ answers' = [answers EXCEPT ![k] = << >>]
      /\ lost' = lost \cup Ids(requests[k]) \cup Ids(answers[k])
  BY DEF LoseLauncher, Cut, playerVars, clientVars
<1>2. /\ requests \in [Launchers -> Seq(Requests)] /\ answers \in [Launchers -> Seq(Answers)]
      /\ lost' = {}
  BY DEF TypeOK, Sole
<1>3. requests[k] = << >>
  <2>1. ASSUME requests[k] # << >> PROVE FALSE
    <3>1. Head(requests[k]) \in Range(requests[k])
      BY <1>2, <2>1, RangeOfTail
    <3>2. Head(requests[k]).id \in Ids(requests[k])
      BY <3>1 DEF Ids
    <3>3. QED
      BY <1>1, <1>2, <3>2
  <2>2. QED
    BY <2>1
<1>4. answers[k] = << >>
  <2>1. ASSUME answers[k] # << >> PROVE FALSE
    <3>1. Head(answers[k]) \in Range(answers[k])
      BY <1>2, <2>1, RangeOfTail
    <3>2. Head(answers[k]).id \in Ids(answers[k])
      BY <3>1 DEF Ids
    <3>3. QED
      BY <1>1, <1>2, <3>2
  <2>2. QED
    BY <2>1
<1>5. UNCHANGED <<requests, answers>>
  BY <1>1, <1>2, <1>3, <1>4
<1>6. QED
  BY <1>1, <1>5 DEF Shown, Chain, Covered, Coming, ToCome

LEMMA ServeShown ==
  ASSUME Typed, TypeOK', Seen, NEW k \in Launchers, Serve(k),
         NEW l \in Launchers, Sole(l), NEW p \in Players, Shown(p, l)
  PROVE  Shown(p, l)'
<1>1. PICK m \in Answers :
           /\ answers' = [answers EXCEPT ![k] = Append(@, m)]
           /\ requests' = [requests EXCEPT ![k] = Tail(@)] /\ requests[k] # << >>
           /\ m.kind = Head(requests[k]).kind /\ m.by = Head(requests[k]).by
           /\ k \in GameLaunchers /\ k \in GameLaunchers'
           /\ m.servers \subseteq Running(k)'
           /\ \A S \in SUBSET Running(k) : After(S, m)
  BY ServeAnswers DEF Typed
<1>2. UNCHANGED <<toPlayer, browser, known, reader, toLauncher>>
  BY DEF Serve, playerVars, clientVars
<1>3. k = l /\ AllRunning = Running(l)
  BY <1>1 DEF Sole, AllRunning
<1>4. /\ requests[l] \in Seq(Requests) /\ answers[l] \in Seq(Answers)
      /\ requests'[l] = Tail(requests[l]) /\ answers'[l] = Append(answers[l], m)
  BY <1>1, <1>3 DEF Typed, TypeOK
<1>5. /\ Range(answers'[l]) = Range(answers[l]) \cup {m}
      /\ Range(requests[l]) = {Head(requests[l])} \cup Range(requests'[l])
  BY <1>1, <1>3, <1>4, RangeOfAppend, RangeOfTail
<1>6. /\ \A n \in Range(toPlayer[p]) \cup Range(answers[l]) : After(n.servers, m)
      /\ After(Range(browser[p]), m) /\ known[p] \subseteq Running(l)
  BY <1>1, <1>3 DEF Seen
<1>7. Chain(p, l)'
  <2>1. Ordered(answers'[l])
    BY <1>4, <1>6, OrderedAppend DEF Shown, Chain
  <2>2. QED
    BY <1>2, <1>5, <1>6, <2>1 DEF Shown, Chain
<1>8. Covered(p, l)'
  <2>1. CASE m.by = p /\ m.kind = "list"
    <3>1. After(Running(l), m)
      BY <1>1, <1>3
    <3>2. Running(l) \subseteq m.servers
      BY <2>1, <3>1 DEF After
    <3>3. m \in Coming(p, l)'
      BY <1>5, <2>1 DEF Coming
    <3>4. QED
      BY <1>2, <1>6, <3>2, <3>3 DEF Covered
  <2>2. CASE ~(m.by = p /\ m.kind = "list")
    <3>1. Coming(p, l)' = Coming(p, l)
      BY <1>2, <1>5, <2>2 DEF Coming
    <3>2. ToCome(p, l) => ToCome(p, l)'
      BY <1>1, <1>2, <1>3, <1>5, <2>2 DEF ToCome, Listing
    <3>3. QED
      BY <1>2, <3>1, <3>2 DEF Shown, Covered
  <2>3. QED
    BY <2>1, <2>2
<1>9. QED
  BY <1>2, <1>7, <1>8 DEF Shown

\* The answer goes from the one queue to the other.
LEMMA AnswerShown ==
  ASSUME Typed, TypeOK', Filed, NEW k \in Launchers, ReceiveAnswer(k),
         NEW l \in Launchers, Sole(l), Sole(l)', NEW p \in Players, Shown(p, l)
  PROVE  Shown(p, l)'
<1>0. /\ TypeOK /\ toPlayer \in [Players -> Seq(Answers)]
      /\ answers \in [Launchers -> Seq(Answers)]
  BY DEF Typed, TypeOK
<1>1. PICK m \in Answers :
           /\ m = Head(answers[k]) /\ answers[k] # << >> /\ answers[k] \in Seq(Answers)
           /\ \/ /\ m.id \in DOMAIN pendingRequests /\ pendingRequests[m.id] \in Players
                 /\ answers' = [answers EXCEPT ![k] = Tail(@)] /\ requests' = requests
                 /\ \/ toPlayer' = [toPlayer EXCEPT ![pendingRequests[m.id]] = Append(@, m)]
                    \/ toPlayer' = toPlayer /\ lost' # {}
              \/ /\ m.id \notin DOMAIN pendingRequests
                 /\ answers' = [answers EXCEPT ![k] = << >>] /\ toPlayer' = toPlayer
  BY <1>0, AnswerGoes
<1>2. k = l
  <2>1. link[k] = "up"
    BY <1>1 DEF Typed, TypeOK
  <2>2. QED
    BY <2>1 DEF Sole, GameLaunchers
<1>3. UNCHANGED <<browser, known, reader, toLauncher>>
  BY DEF ReceiveAnswer, playerVars
<1>4. /\ m \in Range(answers[l]) /\ Range(answers[l]) = {m} \cup Range(Tail(answers[l]))
      /\ answers[l] # << >> /\ answers[l] \in Seq(Answers) /\ m = Head(answers[l])
  BY <1>1, <1>2, RangeOfTail
<1>5. m.id \in DOMAIN pendingRequests /\ pendingRequests[m.id] = m.by
  <2>1. PendingMatches /\ ~reused
    BY <1>0, FiledMatches DEF Sole
  <2>2. m \in Sent(l)
    BY <1>4 DEF Sent
  <2>3. QED
    BY <2>1, <2>2 DEF PendingMatches
<1>6. /\ answers' = [answers EXCEPT ![l] = Tail(@)] /\ requests' = requests
      /\ toPlayer' = [toPlayer EXCEPT ![m.by] = Append(@, m)] /\ m.by \in Players
  BY <1>1, <1>2, <1>5 DEF Sole
<1>7. /\ answers'[l] = Tail(answers[l]) /\ Range(answers'[l]) \subseteq Range(answers[l])
      /\ Ordered(answers'[l]) /\ \A n \in Range(answers'[l]) : After(m.servers, n)
  BY <1>0, <1>4, <1>6, OrderedTail DEF Shown, Chain
<1>8. ToCome(p, l)' <=> ToCome(p, l)
  BY <1>3, <1>6 DEF ToCome, Listing
<1>9. CASE p = m.by
  <2>1. toPlayer'[p] = Append(toPlayer[p], m) /\ toPlayer[p] \in Seq(Answers)
    BY <1>0, <1>6, <1>9
  <2>2. Range(toPlayer'[p]) = Range(toPlayer[p]) \cup {m}
    BY <2>1, RangeOfAppend
  <2>3. Range(toPlayer'[p]) \cup Range(answers'[l]) = Range(toPlayer[p]) \cup Range(answers[l])
    BY <1>4, <1>7, <2>2
  <2>4. Ordered(toPlayer'[p])
    <3>1. Ordered(toPlayer[p]) /\ \A n \in Range(toPlayer[p]) : After(n.servers, m)
      BY <1>4 DEF Shown, Chain
    <3>2. QED
      BY <2>1, <3>1, OrderedAppend
  <2>5. Chain(p, l)'
    BY <1>3, <1>7, <2>2, <2>3, <2>4 DEF Shown, Chain
  <2>6. Coming(p, l)' = Coming(p, l)
    BY <2>3 DEF Coming
  <2>7. QED
    BY <1>3, <1>8, <2>5, <2>6 DEF Shown, Covered
<1>10. CASE p # m.by
  <2>1. toPlayer'[p] = toPlayer[p]
    BY <1>0, <1>6, <1>10
  <2>2. Chain(p, l)'
    BY <1>3, <1>7, <2>1 DEF Shown, Chain
  <2>3. Coming(p, l)' = Coming(p, l)
    BY <1>4, <1>7, <1>10, <2>1 DEF Coming
  <2>4. QED
    BY <1>3, <1>8, <2>2, <2>3 DEF Shown, Covered
<1>11. QED
  BY <1>9, <1>10

\* What is shown changes with the first answer of the channel.
LEMMA ClientShown ==
  ASSUME Typed, Filed, NEW q \in Players, ClientReceive(q),
         NEW l \in Launchers, Sole(l), NEW p \in Players, Shown(p, l)
  PROVE  Shown(p, l)'
<1>0. /\ TypeOK /\ toPlayer \in [Players -> Seq(Answers)]
      /\ browser \in [Players -> Seq(Rows)] /\ known \in [Players -> SUBSET Rows]
  BY DEF Typed, TypeOK
<1>1. PICK m \in Answers :
           /\ m = Head(toPlayer[q]) /\ toPlayer[q] # << >> /\ toPlayer[q] \in Seq(Answers)
           /\ toPlayer' = [toPlayer EXCEPT ![q] = Tail(@)]
           /\ browser'[q] = IF m.kind = "spawn" THEN RowsSpawned(browser[q], m.servers)
                                                ELSE RowsListed(browser[q], m.servers)
           /\ known'[q] = IF m.kind = "spawn" THEN known[q] \cup m.servers ELSE known[q]
           /\ \A r \in Players \ {q} : browser'[r] = browser[r] /\ known'[r] = known[r]
           /\ m.servers \in SUBSET Rows /\ IsFiniteSet(m.servers)
  BY <1>0, ClientTakes
<1>2. UNCHANGED <<reader, answers, requests, toLauncher>>
  BY DEF ClientReceive, playerVars, wireVars
<1>3. ToCome(p, l)' <=> ToCome(p, l)
  BY <1>2 DEF ToCome, Listing
<1>4. CASE p # q
  <2>1. toPlayer'[p] = toPlayer[p] /\ browser'[p] = browser[p] /\ known'[p] = known[p]
    BY <1>0, <1>1, <1>4
  <2>2. QED
    BY <1>2, <1>3, <2>1 DEF Shown, Chain, Covered, Coming
<1>5. CASE p = q
  <2>1. /\ toPlayer'[p] = Tail(toPlayer[p]) /\ m \in Range(toPlayer[p])
        /\ Range(toPlayer[p]) = {m} \cup Range(toPlayer'[p])
    BY <1>0, <1>1, <1>5, RangeOfTail
  <2>2. /\ Ordered(toPlayer'[p]) /\ \A n \in Range(toPlayer'[p]) : After(m.servers, n)
    BY <1>0, <1>1, <1>5, <2>1, OrderedTail DEF Shown, Chain
  <2>3. \A n \in Range(toPlayer'[p]) \cup Range(answers'[l]) :
          After(m.servers, n) /\ After(Range(browser[p]), n)
    BY <1>2, <2>1, <2>2 DEF Shown, Chain
  <2>4. After(Range(browser[p]), m) /\ IsInjective(browser[p])
    BY <2>1 DEF Shown, Chain
  <2>5. /\ Range(RowsListed(browser[p], m.servers)) = m.servers
        /\ IsInjective(RowsListed(browser[p], m.servers))
        /\ Range(RowsSpawned(browser[p], m.servers)) = Range(browser[p]) \cup m.servers
        /\ Range(browser[p]) \cap m.servers = {} => IsInjective(RowsSpawned(browser[p], m.servers))
    <3>1. browser[p] \in Seq(Rows) /\ m.servers \in SUBSET Rows /\ IsFiniteSet(m.servers)
      BY <1>0, <1>1
    <3>2. QED
      BY <2>4, <3>1, RowsShown
  <2>6. CASE m.kind = "spawn"
    <3>1. Range(browser[p]) \cap m.servers = {}
      <4>1. \A x \in Rows : x[2] \in Nat
        BY DEF Rows
      <4>2. \A x \in Range(browser[p]), y \in m.servers : x[2] < y[2]
        BY <2>4, <2>6 DEF After
      <4>3. QED
        BY <1>1, <4>1, <4>2
    <3>2. /\ Range(browser'[p]) = Range(browser[p]) \cup m.servers /\ IsInjective(browser'[p])
          /\ known'[p] = known[p] \cup m.servers
      BY <1>1, <1>5, <2>5, <2>6, <3>1
    <3>3. \A n \in Range(toPlayer'[p]) \cup Range(answers'[l]) : After(Range(browser'[p]), n)
      BY <2>3, <3>2 DEF After
    <3>4. Chain(p, l)'
      BY <1>2, <2>1, <2>2, <3>3 DEF Shown, Chain
    <3>5. Coming(p, l)' = Coming(p, l)
      BY <1>2, <2>1, <2>6 DEF Coming
    <3>6. ASSUME NEW n \in Coming(p, l), known[p] \subseteq n.servers
          PROVE  known'[p] \subseteq n.servers
      <4>1. After(m.servers, n) /\ n.kind # "spawn"
        BY <1>2, <2>3, <3>5, <3>6 DEF Coming
      <4>2. QED
        BY <3>2, <3>6, <4>1 DEF After
    <3>7. Covered(p, l)'
      BY <1>3, <3>2, <3>5, <3>6 DEF Shown, Covered
    <3>8. QED
      BY <3>2, <3>4, <3>7 DEF Shown
  <2>7. CASE m.kind # "spawn"
    <3>1. /\ Range(browser'[p]) = m.servers /\ IsInjective(browser'[p]) /\ known'[p] = known[p]
      BY <1>1, <1>5, <2>5, <2>7
    <3>2. \A n \in Range(toPlayer'[p]) \cup Range(answers'[l]) : After(Range(browser'[p]), n)
      BY <2>3, <3>1
    <3>3. Chain(p, l)'
      BY <1>2, <2>1, <2>2, <3>2 DEF Shown, Chain
    <3>4. m \in Coming(p, l) /\ \A n \in Coming(p, l) : n = m \/ n \in Coming(p, l)'
      <4>1. m.by = p
        BY <2>1 DEF Filed, Delivered, Sole
      <4>2. m.kind = "list"
        BY <2>7 DEF Answers, Asked
      <4>3. QED
        BY <1>2, <2>1, <4>1, <4>2 DEF Coming
    <3>5. ASSUME NEW n \in Coming(p, l)' PROVE m.servers \subseteq n.servers
      <4>1. After(m.servers, n) /\ n.kind # "spawn"
        BY <2>3 DEF Coming
      <4>2. QED
        BY <4>1 DEF After
    <3>6. Covered(p, l)'
      <4>1. CASE ToCome(p, l)
        BY <1>3, <4>1 DEF Covered
      <4>2. ASSUME NEW n \in Coming(p, l), known[p] \subseteq n.servers PROVE Covered(p, l)'
        <5>1. CASE n \in Coming(p, l)'
          BY <3>1, <4>2, <5>1 DEF Covered
        <5>2. CASE n = m /\ Coming(p, l)' = {}
          BY <3>1, <4>2, <5>2 DEF Covered
        <5>3. CASE n = m /\ Coming(p, l)' # {}
          BY <3>1, <3>5, <4>2, <5>3 DEF Covered
        <5>4. QED
          BY <3>4, <5>1, <5>2, <5>3
      <4>3. QED
        BY <3>4, <4>1, <4>2 DEF Shown, Covered
    <3>7. QED
      BY <3>1, <3>3, <3>6 DEF Shown
  <2>8. QED
    BY <2>6, <2>7
<1>6. QED
  BY <1>4, <1>5

Browsed == IsFiniteSet(GameLaunchers) /\ Targets /\ Seen /\ Shows

LEMMA NextBrowsed ==
  Typed /\ TypeOK' /\ Filed /\ Browsed /\ [Next]_vars => Browsed'
<1> SUFFICES ASSUME Typed, TypeOK', Filed, Browsed, [Next]_vars PROVE Browsed'
  OBVIOUS
<1>1. TypeOK /\ Targets /\ Seen /\ Shows
  BY DEF Typed, Browsed
<1>2. IsFiniteSet(GameLaunchers') /\ Targets' /\ Seen'
  BY <1>1, FewLaunchers, NextTargets, NextSeen DEF Browsed
<1>3. ASSUME NEW l \in Launchers, Sole(l)', NEW p \in Players PROVE Shown(p, l)'
  <2>1. Sole(l) /\ Shown(p, l)
    BY <1>1, <1>3, SoleBefore DEF Shows
  <2>2. CASE Aside
    BY <1>1, <1>3, <2>1, <2>2, AsideShown
  <2>3. ASSUME NEW q \in Players, ReadGetGameServers(q) \/ ClientReceive(q) PROVE Shown(p, l)'
    BY <1>1, <2>1, <2>3, GetShown, ClientShown
  <2>4. ASSUME NEW k \in Launchers, LoseLauncher(k) \/ Serve(k) \/ ReceiveAnswer(k)
        PROVE  Shown(p, l)'
    BY <1>1, <1>3, <2>1, <2>4, LoseShown, ServeShown, AnswerShown
  <2>5. QED
    BY <2>2, <2>3, <2>4 DEF Next, Aside
<1>4. Shows'
  BY <1>3 DEF Shows, Sole
<1>5. QED
  BY <1>2, <1>4 DEF Browsed

LEMMA BrowsedComplete == Typed /\ Browsed => BrowserComplete
<1> SUFFICES ASSUME Typed, Browsed,
                    NEW p \in Players, Cardinality(GameLaunchers) = 1, lost = {}, ~reused, Quiet(p),
                    NEW s \in known[p]
             PROVE  Cardinality({i \in DOMAIN browser[p] : browser[p][i] = s}) = 1
  BY DEF BrowserComplete
<1>1. PICK l \in GameLaunchers : GameLaunchers = {l}
  <2>1. \E x : GameLaunchers = {x}
    BY FS_Singleton DEF Browsed
  <2>2. QED
    BY <2>1
<1>2. l \in Launchers /\ Sole(l) /\ Shown(p, l)
  BY <1>1 DEF Browsed, Shows, Sole, GameLaunchers
<1>3. ~ToCome(p, l)
  BY <1>2 DEF Quiet, ToCome, Listing, Idle, Sent
<1>4. Coming(p, l) = {}
  <2>1. Range(<< >>) = {}
    BY DEF Range
  <2>2. QED
    BY <1>2, <2>1 DEF Quiet, Coming, Sent
<1>5. s \in Range(browser[p]) /\ IsInjective(browser[p])
  BY <1>2, <1>3, <1>4 DEF Shown, Covered
<1>6. PICK i \in DOMAIN browser[p] : browser[p][i] = s
  BY <1>5 DEF Range
<1>7. {j \in DOMAIN browser[p] : browser[p][j] = s} = {i}
  BY <1>5, <1>6 DEF IsInjective
<1>8. QED
  BY <1>7, FS_Singleton

\* With one launcher, and nothing lost on the way, a browser that waits for no
\* answer shows each server it should, once: whatever requests of other players
\* went between, and however many of its own were on their way at once.
THEOREM BrowserCorrect == Spec => []BrowserComplete
<1>1. Typed => TypeOK
  BY DEF Typed
<1>2. Init => Browsed
  <2>1. Init => GameLaunchers = {}
    BY DEF Init, GameLaunchers
  <2>2. QED
    BY <2>1, InitShows, FS_EmptySet DEF Browsed
<1>3. QED
  BY <1>1, <1>2, InitTyped, NextTyped, InitFiled, NextFiled, NextBrowsed, BrowsedComplete, PTL
     DEF Spec
=============================================================================
