------------------------------- MODULE Lobby -------------------------------
(* The server between a connection and a match: the sessions of              *)
(* server/src/gameHandler.ts over the matchmaking queue, the hosted games    *)
(* and the rooms of server/src/matchCoordinator.ts, against clients that     *)
(* send any packet at any time or lose their connection.                     *)
(*                                                                           *)
(* Each handler runs to its end before the next one starts (one Node.js      *)
(* event loop, no await inside), so a handler is an operator from the        *)
(* server's state to the state it leaves, and an action applies one of them. *)
(* What a socket was last told stands for the packets on their way to it:    *)
(* they arrive in order or not at all.  Left out: the list of user names     *)
(* (broadcastUsers), which no handler reads; what happens inside a room,     *)
(* which is MatchRun's; and the heartbeat, which is Process's: what it finds *)
(* gone is Closed here.                                                      *)
EXTENDS Naturals, Sequences, FiniteSets, SequencesExt

CONSTANTS
    Sockets,      \* the connections; an id is never given out again
    Accounts,     \* the accounts of the signed-in players
    accountOf,    \* the account behind each socket, or Guest
    Guest,
    Codes,        \* the join codes createJoinCode draws from
    NoCode,
    Variants,     \* the variants of the game: one queue serves them all
    OnePurpose,   \* a client that hosts a game neither queues nor joins another
    MaxRooms      \* the bound on the rooms that are made

ASSUME LobbyAssumption ==
    /\ Guest \notin Accounts /\ NoCode \notin Codes
    /\ accountOf \in [Sockets -> Accounts \cup {Guest}]
    /\ IsFiniteSet(Sockets)
    /\ OnePurpose \in BOOLEAN /\ MaxRooms \in Nat

\* session.roomId: undefined, 'lobby', or the id of a match room, drawn in order
NoRoom == 0
LOBBY_ROOM == 1
RoomIds == LOBBY_ROOM + 1 .. LOBBY_ROOM + MaxRooms

VARIABLE hub      \* the server

vars == hub

-----------------------------------------------------------------------------
(* The state.                                                                *)

newSession == [state |-> "none", named |-> FALSE, roomId |-> NoRoom]

newTold == [games |-> <<>>, room |-> NoRoom]

\* told: the last LOBBY_LIST that a subscriber was sent, and the last news of a
\* match that each socket was sent
newHub ==
    [sessions    |-> [s \in Sockets |-> newSession],
     subscribers |-> {},
     queue       |-> <<>>,
     games       |-> <<>>,
     hosting     |-> [s \in Sockets |-> NoCode],
     rooms       |-> {},
     roomOf      |-> [s \in Sockets |-> NoRoom],
     made        |-> LOBBY_ROOM,
     told        |-> [s \in Sockets |-> newTold]]

isOpen(h, s) == h.sessions[s].state = "open"
\* sessionsById has the session until its close event; a socket that is closing
\* still delivers packets but drops what is sent to it
hasSession(h, s) == h.sessions[s].state \in {"open", "closing"}

\* send, for the two kinds of packets that are followed here
sendList(h, s, games) == IF isOpen(h, s) THEN [h EXCEPT !.told[s].games = games] ELSE h
sendRoom(h, s, room)  == IF isOpen(h, s) THEN [h EXCEPT !.told[s].room = room] ELSE h

unsubscribed(h, s) == [h EXCEPT !.subscribers = @ \ {s}, !.told[s].games = <<>>]

\* a ProtocolError, caught in handleMessage
refuse(h, s) == [h EXCEPT !.sessions[s].state = "closing"]

sameAccount(s, t) == accountOf[s] # Guest /\ accountOf[s] = accountOf[t]

-----------------------------------------------------------------------------
(* Hosted games, in the order they were created.                             *)

\* Map.delete, of the entry at one of places, if there is one
removed(entries, places) ==
    IF places = {} THEN entries ELSE RemoveAt(entries, CHOOSE i \in places : TRUE)

without(games, c) == removed(games, {i \in DOMAIN games : games[i].code = c})

listPublicGames(games) ==
    LET public == SelectSeq(games, LAMBDA g : ~g.private)
    IN  [i \in DOMAIN public |-> public[i].code]

broadcastLobbyList(h) ==
    [h EXCEPT !.told = [s \in Sockets |->
        IF s \in h.subscribers /\ isOpen(h, s)
        THEN [@[s] EXCEPT !.games = listPublicGames(h.games)] ELSE @[s]]]

cancelPendingGame(h, s) ==
    [h EXCEPT !.games = without(@, h.hosting[s]), !.hosting[s] = NoCode]

\* fault: the game leaves the list and no subscriber is told
unlisted_Untold(h, s) == IF h.hosting[s] = NoCode THEN h ELSE cancelPendingGame(h, s)

\* cancelPendingGame and the broadcast that follows when there was one to cancel
unlisted(h, s) ==
    IF h.hosting[s] = NoCode THEN h ELSE broadcastLobbyList(cancelPendingGame(h, s))

-----------------------------------------------------------------------------
(* Quick Match.                                                              *)

dequeued(queue, s) == removed(queue, {i \in DOMAIN queue : queue[i].socket = s})

cancelQuickMatch(h, s) == [h EXCEPT !.queue = dequeued(@, s)]

\* Map.set: a socket that is queued already keeps its place
queued(queue, s, v) ==
    LET entry == [socket |-> s, variant |-> v]
    IN  IF \E i \in DOMAIN queue : queue[i].socket = s
        THEN [i \in DOMAIN queue |-> IF queue[i].socket = s THEN entry ELSE queue[i]]
        ELSE Append(queue, entry)

compatible(e, f) == ~sameAccount(e.socket, f.socket) /\ e.variant = f.variant

\* fault: only the head of the queue is offered an opponent
pairs_HeadOnly(queue) ==
    {p \in (DOMAIN queue) \X (DOMAIN queue) :
        p[1] = 1 /\ p[1] < p[2] /\ compatible(queue[p[1]], queue[p[2]])}

pairs(queue) ==
    {p \in (DOMAIN queue) \X (DOMAIN queue) :
        p[1] < p[2] /\ compatible(queue[p[1]], queue[p[2]])}

\* the earliest first, then the earliest second
compatiblePair(queue) ==
    CHOOSE p \in pairs(queue) : \A q \in pairs(queue) :
        p[1] < q[1] \/ (p[1] = q[1] /\ p[2] <= q[2])

-----------------------------------------------------------------------------
(* Rooms.                                                                    *)

\* what announceMatch does for one player of a new room
entersRoom(h, s, room) ==
    IF hasSession(h, s)
    THEN sendRoom([unsubscribed(h, s) EXCEPT !.sessions[s].roomId = room], s, room)
    ELSE h

\* createRoom and announceMatch; a room that roomOf held before is forgotten
matched(h, s, t) ==
    LET room == h.made + 1
        made == [h EXCEPT !.made = room,
                          !.rooms = @ \cup {[id |-> room, members |-> {s, t}]},
                          !.roomOf[s] = room, !.roomOf[t] = room]
    IN  entersRoom(entersRoom(made, s, room), t, room)

enqueueQuickMatch(h, s, v) ==
    LET queue   == queued(h.queue, s, v)
        best    == compatiblePair(queue)
        first   == queue[best[1]].socket
        second  == queue[best[2]].socket
        entered == [h EXCEPT !.queue = queue]
    IN  IF h.roomOf[s] # NoRoom THEN h
        ELSE IF pairs(queue) = {} THEN entered
        ELSE matched(cancelQuickMatch(cancelQuickMatch(entered, first), second),
                     first, second)

\* fault: the game of the host is matched and stays in the list
claimed_StillListed(h, s, g) == [cancelQuickMatch(h, s) EXCEPT !.hosting[g.host] = NoCode]

\* fault: the joiner keeps its place in the queue
claimed_StillQueued(h, s, g) ==
    [h EXCEPT !.games = without(@, g.code), !.hosting[g.host] = NoCode]

\* joinPendingGame takes the game of the list and the joiner out of the queue
claimed(h, s, g) ==
    [cancelQuickMatch(h, s) EXCEPT !.games = without(@, g.code), !.hosting[g.host] = NoCode]

\* createPendingGame leaves the queue
hosted(h, s, c, private) ==
    [cancelQuickMatch(h, s) EXCEPT
        !.games = Append(@, [code |-> c, host |-> s, private |-> private]),
        !.hosting[s] = c]

\* fault: the handler still counts the player into the room that is gone
leftBehind_StillInRoom(h, others) ==
    [h EXCEPT !.told = [s \in Sockets |->
        IF s \in others /\ isOpen(h, s) THEN [@[s] EXCEPT !.room = NoRoom] ELSE @[s]]]

\* fault: the player is not told
leftBehind_Untold(h, others) ==
    [h EXCEPT !.sessions = [s \in Sockets |->
        IF s \in others /\ hasSession(h, s) THEN [@[s] EXCEPT !.roomId = NoRoom] ELSE @[s]]]

\* the players who are left when one abandons their room
leftBehind(h, others) ==
    [h EXCEPT
        !.sessions = [s \in Sockets |->
            IF s \in others /\ hasSession(h, s) THEN [@[s] EXCEPT !.roomId = NoRoom] ELSE @[s]],
        !.told = [s \in Sockets |->
            IF s \in others /\ isOpen(h, s) THEN [@[s] EXCEPT !.room = NoRoom] ELSE @[s]]]

\* abandon, with what detachFromRoom does next
abandoned(h, s) ==
    LET members == UNION {r.members : r \in {x \in h.rooms : x.id = h.roomOf[s]}}
        gone    == [h EXCEPT
                      !.rooms = {r \in @ : r.id # h.roomOf[s]},
                      !.roomOf = [u \in Sockets |-> IF u \in members THEN NoRoom ELSE @[u]]]
    IN  leftBehind(gone, members \ {s})

detachFromRoom(h, s) ==
    LET waiting == unsubscribed(cancelQuickMatch(h, s), s)
        left    == [unlisted(waiting, s) EXCEPT !.sessions[s].roomId = NoRoom]
    IN  IF h.sessions[s].roomId \in {NoRoom, LOBBY_ROOM} THEN left ELSE abandoned(left, s)

\* remove: the session is deleted before its player leaves the room
remove(h, s) ==
    [detachFromRoom([h EXCEPT !.sessions[s].state = "gone"], s) EXCEPT
        !.sessions[s] = [newSession EXCEPT !.state = "gone"],
        !.told[s] = newTold]

-----------------------------------------------------------------------------
(* The packets of route.                                                     *)

inLobby(s) == hub.sessions[s].named /\ hub.sessions[s].roomId = LOBBY_ROOM

\* a packet of s reaches the server
arrives(s) == hasSession(hub, s)

UserInfo(s) ==
    /\ arrives(s)
    /\ hub' = [hub EXCEPT !.sessions[s].named = TRUE]

JoinLobby(s) ==
    /\ arrives(s)
    /\ hub.sessions[s].named /\ hub.sessions[s].roomId = NoRoom
    /\ hub' = [hub EXCEPT !.sessions[s].roomId = LOBBY_ROOM]

\* the response tells the client that it is out
LeaveRoom(s) ==
    /\ arrives(s)
    /\ hub.sessions[s].roomId # NoRoom
    /\ hub' = sendRoom(detachFromRoom(hub, s), s, NoRoom)

\* outside the lobby it is ignored
Search(s, v) ==
    /\ arrives(s)
    /\ inLobby(s)
    /\ OnePurpose => hub.hosting[s] = NoCode
    /\ hub.made < LOBBY_ROOM + MaxRooms
    /\ hub' = enqueueQuickMatch(hub, s, v)

CancelSearch(s) ==
    /\ arrives(s)
    /\ hub' = cancelQuickMatch(hub, s)

LobbyCreate(s, private) ==
    /\ arrives(s)
    /\ \/ ~inLobby(s) /\ hub' = refuse(hub, s)
       \/ /\ inLobby(s)
          /\ hub.roomOf[s] = NoRoom /\ hub.hosting[s] = NoCode
          /\ \E c \in Codes \ {hub.games[i].code : i \in DOMAIN hub.games} :
                hub' = broadcastLobbyList(hosted(hub, s, c, private))

LobbyJoin(s, c) ==
    /\ arrives(s)
    /\ OnePurpose => hub.hosting[s] = NoCode
    /\ \/ ~inLobby(s) /\ hub' = refuse(hub, s)
       \/ /\ inLobby(s)
          /\ hub.made < LOBBY_ROOM + MaxRooms
          /\ hub.roomOf[s] = NoRoom
          /\ \E i \in DOMAIN hub.games :
                LET g == hub.games[i]
                IN  /\ g.code = c /\ g.host # s /\ ~sameAccount(g.host, s)
                    /\ hub' = broadcastLobbyList(matched(claimed(hub, s, g), g.host, s))

LobbyCancel(s) ==
    /\ arrives(s)
    /\ hub' = unlisted(hub, s)

LobbySubscribe(s, subscribed) ==
    /\ arrives(s)
    /\ hub' = IF subscribed
              THEN sendList([hub EXCEPT !.subscribers = @ \cup {s}], s, listPublicGames(hub.games))
              ELSE unsubscribed(hub, s)

-----------------------------------------------------------------------------
(* Connections.                                                              *)

\* add; a signed-in player has a name from the start
Connect(s) ==
    /\ hub.sessions[s].state = "none"
    /\ hub' = [hub EXCEPT !.sessions[s] =
                [newSession EXCEPT !.state = "open", !.named = accountOf[s] # Guest]]

\* the client closes the connection, or the network resets it
Close(s) ==
    /\ isOpen(hub, s)
    /\ hub' = remove(hub, s)

\* the close event of a connection the server has closed or terminated
Closed(s) ==
    /\ hub.sessions[s].state = "closing"
    /\ hub' = remove(hub, s)

-----------------------------------------------------------------------------
Init == hub = newHub

\* READY_STATE outside a room; a frame that is not binary or does not decode,
\* or one more than the rate limit allows
Violation(s) ==
    /\ arrives(s)
    /\ hub' = refuse(hub, s)

Packet(s) ==
    \/ UserInfo(s) \/ JoinLobby(s) \/ LeaveRoom(s)
    \/ \E v \in Variants : Search(s, v)
    \/ CancelSearch(s)
    \/ \E private \in BOOLEAN : LobbyCreate(s, private)
    \/ \E c \in Codes : LobbyJoin(s, c)
    \/ LobbyCancel(s) \/ Violation(s)
    \/ \E subscribed \in BOOLEAN : LobbySubscribe(s, subscribed)

Next == \E s \in Sockets : Packet(s) \/ Connect(s) \/ Close(s) \/ Closed(s)

Spec == Init /\ [][Next]_vars

-----------------------------------------------------------------------------
(* Properties.                                                               *)

RoomOrNone == RoomIds \cup {NoRoom}
Session ==
    [state : {"none", "open", "closing", "gone"}, named : BOOLEAN,
     roomId : RoomOrNone \cup {LOBBY_ROOM}]
Game  == [code : Codes, host : Sockets, private : BOOLEAN]
Entry == [socket : Sockets, variant : Variants]

\* The server's state has its type.
TypeOK ==
    /\ hub.sessions \in [Sockets -> Session]
    /\ hub.subscribers \subseteq Sockets
    /\ hub.queue \in Seq(Entry) /\ hub.games \in Seq(Game)
    /\ hub.hosting \in [Sockets -> Codes \cup {NoCode}]
    /\ hub.rooms \subseteq [id : RoomIds, members : SUBSET Sockets]
    /\ hub.roomOf \in [Sockets -> RoomOrNone]
    /\ hub.made \in RoomIds \cup {LOBBY_ROOM}
    /\ \A s \in Sockets : hub.told[s].games \in Seq(Codes) /\ hub.told[s].room \in RoomOrNone

\* The three places that say who plays with whom agree: the rooms, the
\* coordinator's index of them and the handler's sessions.  A room has two
\* connected members, of two accounts, for as long as it exists.
RoomsAgree ==
    /\ \A r \in hub.rooms :
        /\ Cardinality(r.members) = 2
        /\ \A s, t \in r.members : s # t => ~sameAccount(s, t)
        /\ \A s \in r.members :
            hasSession(hub, s) /\ hub.roomOf[s] = r.id /\ hub.sessions[s].roomId = r.id
    /\ \A s \in Sockets :
        /\ hub.roomOf[s] # NoRoom =>
            \E r \in hub.rooms : r.id = hub.roomOf[s] /\ s \in r.members
        /\ hub.sessions[s].roomId \in RoomIds => hub.roomOf[s] = hub.sessions[s].roomId

\* Whoever waits in the queue is connected, in the lobby and hosts no game, and
\* no two players who could play each other are left waiting.
QueueSound ==
    \A i \in DOMAIN hub.queue :
        LET s == hub.queue[i].socket
        IN  /\ hasSession(hub, s) /\ hub.sessions[s].roomId = LOBBY_ROOM
            /\ hub.hosting[s] = NoCode
            /\ \A j \in 1 .. i - 1 :
                /\ hub.queue[j].socket # s
                /\ ~compatible(hub.queue[i], hub.queue[j])

\* Every listed game has one host, who is connected, waits in the lobby and is
\* indexed under that game's code, and no host is indexed without a game.
GamesSound ==
    /\ \A i \in DOMAIN hub.games :
        LET g == hub.games[i]
        IN  /\ hasSession(hub, g.host) /\ hub.sessions[g.host].roomId = LOBBY_ROOM
            /\ hub.hosting[g.host] = g.code
            /\ \A j \in DOMAIN hub.games : hub.games[j].code = g.code => i = j
    /\ \A s \in Sockets :
        hub.hosting[s] # NoCode => \E i \in DOMAIN hub.games : hub.games[i].host = s

\* Whoever waits for a match, in the queue or with a game in the list, can get one.
WaitersSound == QueueSound /\ GamesSound

\* The last list a subscriber was sent is the list of the games it can join; and
\* a player was told of the match it is in, and of the end of every other.
NewsFresh ==
    /\ \A s \in hub.subscribers :
        /\ hasSession(hub, s)
        /\ isOpen(hub, s) => hub.told[s].games = listPublicGames(hub.games)
    /\ \A s \in Sockets : isOpen(hub, s) => hub.told[s].room = hub.roomOf[s]

\* Where a socket stands, read off the session, the queue, the list and the rooms.
placeOf(s) ==
    CASE hub.sessions[s].roomId = NoRoom                          -> "out"
      [] hub.sessions[s].roomId \in RoomIds                       -> "room"
      [] hub.hosting[s] # NoCode                                  -> "hosting"
      [] \E i \in DOMAIN hub.queue : hub.queue[i].socket = s      -> "queued"
      [] OTHER                                                    -> "lobby"

ConnectionOf(s) ==
    INSTANCE Connection WITH conn <- [state |-> hub.sessions[s].state, at |-> placeOf(s)]

\* Whatever the other players send, one connection moves only as Connection
\* says: it is matched only while it waits for it, it loses its place only by a
\* packet of its own or the end of its room.
\* (\A s : ConnectionOf(s)!Spec, in the form that TLC takes.)
ImplementsConnections ==
    /\ \A s \in Sockets : ConnectionOf(s)!Init
    /\ [][\A s \in Sockets :
            \/ UNCHANGED <<hub.sessions[s], hub.hosting[s], hub.queue>>   \* so is its place
            \/ ConnectionOf(s)!Step]_hub

\* useLobbyBrowser.ts:11: a player who asks to join a game while in a match is
\* told so.  The match goes on.
JoinKeepsMatch ==
    [][\A s \in Sockets, c \in Codes :
        LobbyJoin(s, c) /\ hub.roomOf[s] # NoRoom => hub'.sessions[s] = hub.sessions[s]]_vars
=============================================================================
