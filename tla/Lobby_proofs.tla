---------------------------- MODULE Lobby_proofs ----------------------------
(* Proofs about the server between a connection and a match, for any number  *)
(* of sockets, accounts, codes, variants and rooms: that its sessions,       *)
(* rooms, queue, hosted games and what its clients were told agree, and that *)
(* each socket lives as one Connection.  All of it assumes OnePurpose, which *)
(* Pages_proofs shows of the web client.                                     *)
EXTENDS Lobby, WellFoundedInduction, FiniteSetTheorems, TLAPS

\* A set of numbers that is not empty has a first.
LEMMA FirstOf ==
    ASSUME NEW T, T \subseteq Nat, T # {}
    PROVE  \E m \in T : \A k \in T : m <= k
<1>1. \E m \in T : \A k \in T : ~(<<k, m>> \in OpToRel(<, Nat))
  BY NatLessThanWellFounded, WFMin
<1>2. \A k, m \in Nat : ~(<<k, m>> \in OpToRel(<, Nat)) => m <= k
  BY DEF OpToRel
<1> QED BY <1>1, <1>2

USE LobbyAssumption

-----------------------------------------------------------------------------

(* The inductive invariant.                                                  *)

\* What a list of public games can be.
Lists == {<<>>} \cup {listPublicGames(games) : games \in Seq(Game)}

Told == [games : Lists, room : RoomOrNone]

Hub ==
    [sessions    : [Sockets -> Session],
     subscribers : SUBSET Sockets,
     queue       : Seq(Entry),
     games       : Seq(Game),
     hosting     : [Sockets -> Codes \cup {NoCode}],
     rooms       : SUBSET [id : RoomIds, members : SUBSET Sockets],
     roomOf      : [Sockets -> RoomOrNone],
     made        : LOBBY_ROOM .. LOBBY_ROOM + MaxRooms,
     told        : [Sockets -> Told]]

\* A room has an id of its own and two members, of two accounts, who are connected and
\* indexed under it.
RoomSound(h, r) ==
    /\ r.id <= h.made
    /\ \A q \in h.rooms : q.id = r.id => q = r
    /\ \E s, t \in Sockets : r.members = {s, t} /\ s # t /\ ~sameAccount(s, t)
    /\ \A s \in r.members :
        hasSession(h, s) /\ h.roomOf[s] = r.id /\ h.sessions[s].roomId = r.id

\* Nobody is indexed under a room it is not in.
InRoom(h, s) ==
    /\ h.roomOf[s] # NoRoom => \E r \in h.rooms : r.id = h.roomOf[s] /\ s \in r.members
    /\ h.sessions[s].roomId \in RoomIds => h.roomOf[s] = h.sessions[s].roomId

RoomsSound(h) ==
    /\ \A r \in h.rooms : RoomSound(h, r)
    /\ \A s \in Sockets : InRoom(h, s)

inLobbyOf(h, s) == hasSession(h, s) /\ h.sessions[s].roomId = LOBBY_ROOM

\* The queue: whoever is in it waits in the lobby, once, hosts no game, and has no opponent.
Waits(h, s) == inLobbyOf(h, s) /\ h.hosting[s] = NoCode
Distinct(queue) ==
    \A i, j \in DOMAIN queue : queue[i].socket = queue[j].socket => i = j
Unmatched(queue) ==
    \A i, j \in DOMAIN queue : i < j => ~compatible(queue[i], queue[j])
QueueOf(h) ==
    /\ \A i \in DOMAIN h.queue : Waits(h, h.queue[i].socket)
    /\ Distinct(h.queue) /\ Unmatched(h.queue)

\* The list: every game under a code of its own, with a host in the lobby who hosts it.
UniqueCodes(games) ==
    \A i, j \in DOMAIN games : games[i].code = games[j].code => i = j
GamesOf(h) ==
    /\ \A i \in DOMAIN h.games :
        /\ inLobbyOf(h, h.games[i].host)
        /\ h.hosting[h.games[i].host] = h.games[i].code
    /\ UniqueCodes(h.games)
    /\ \A s \in Sockets :
        h.hosting[s] # NoCode => \E i \in DOMAIN h.games : h.games[i].host = s

\* The news: subscribers are connected, and what an open socket was told is so.
SubscribersPresent(h) == \A s \in h.subscribers : hasSession(h, s)
ListsFresh(h) ==
    \A s \in h.subscribers : isOpen(h, s) => h.told[s].games = listPublicGames(h.games)
RoomsTold(h) == \A s \in Sockets : isOpen(h, s) => h.told[s].room = h.roomOf[s]

\* A socket that is yet to connect has left no trace.
Unborn(h) ==
    \A s \in Sockets :
        h.sessions[s].state = "none" => h.sessions[s] = newSession /\ h.told[s].room = NoRoom

LobbyInv(h) ==
    /\ h \in Hub
    /\ RoomsSound(h) /\ QueueOf(h) /\ GamesOf(h)
    /\ SubscribersPresent(h) /\ ListsFresh(h) /\ RoomsTold(h) /\ Unborn(h)

-----------------------------------------------------------------------------

(* Deletions from the queue and the list.                                    *)

\* What is left of entries when the one at p is taken out, and where it stood.
Without(r, entries, places) ==
    \E f \in [DOMAIN r -> DOMAIN entries] :
        /\ \A i \in DOMAIN r : r[i] = entries[f[i]] /\ f[i] \notin places
        /\ \A i, j \in DOMAIN r : i < j => f[i] < f[j]
        /\ \A j \in DOMAIN entries \ places : \E i \in DOMAIN r : f[i] = j

\* RemoveAt leaves the entries before p where they are, and moves those after it up.
LEMMA RemovedAt ==
    ASSUME NEW T, NEW entries \in Seq(T), NEW p \in DOMAIN entries
    PROVE  /\ RemoveAt(entries, p) \in Seq(T)
           /\ Len(RemoveAt(entries, p)) = Len(entries) - 1
           /\ \A i \in 1 .. Len(entries) - 1 :
                RemoveAt(entries, p)[i] = entries[IF i < p THEN i ELSE i + 1]
<1> DEFINE a == SubSeq(entries, 1, p - 1)  b == SubSeq(entries, p + 1, Len(entries))
<1>1. /\ a \in Seq(T) /\ Len(a) = p - 1 /\ \A i \in 1 .. p - 1 : a[i] = entries[i]
      /\ b \in Seq(T) /\ Len(b) = Len(entries) - p
      /\ \A i \in 1 .. Len(entries) - p : b[i] = entries[p + i]
  OBVIOUS
<1>2. RemoveAt(entries, p) = a \o b
  BY DEF RemoveAt
<1>3. p \in 1 .. Len(entries) /\ Len(entries) \in Nat
  OBVIOUS
<1> HIDE DEF a, b
<1>4. /\ a \o b \in Seq(T) /\ Len(a \o b) = Len(entries) - 1
      /\ \A i \in 1 .. Len(entries) - 1 :
            (a \o b)[i] = IF i <= p - 1 THEN a[i] ELSE b[i - (p - 1)]
  <2>1. \A c, d \in Seq(T) :
            /\ c \o d \in Seq(T) /\ Len(c \o d) = Len(c) + Len(d)
            /\ \A i \in 1 .. Len(c) + Len(d) :
                (c \o d)[i] = IF i <= Len(c) THEN c[i] ELSE d[i - Len(c)]
    OBVIOUS
  <2>2. /\ a \o b \in Seq(T) /\ Len(a \o b) = Len(a) + Len(b)
        /\ \A i \in 1 .. Len(a) + Len(b) :
            (a \o b)[i] = IF i <= Len(a) THEN a[i] ELSE b[i - Len(a)]
    BY <1>1, <2>1
  <2>3. Len(a) + Len(b) = Len(entries) - 1 /\ Len(a) = p - 1
    BY <1>1, <1>3
  <2> QED BY <2>2, <2>3
<1>5. ASSUME NEW i \in 1 .. Len(entries) - 1
      PROVE  (a \o b)[i] = entries[IF i < p THEN i ELSE i + 1]
  <2>1. CASE i < p
    BY <2>1, <1>1, <1>3, <1>4
  <2>2. CASE ~(i < p)
    <3>1. i - (p - 1) \in 1 .. Len(entries) - p /\ p + (i - (p - 1)) = i + 1
      BY <2>2, <1>3
    <3>2. (a \o b)[i] = b[i - (p - 1)]
      BY <2>2, <1>3, <1>4
    <3> QED BY <2>2, <3>1, <3>2, <1>1
  <2> QED BY <2>1, <2>2
<1> QED BY <1>2, <1>4, <1>5

\* Map.delete takes out the one entry there is, or none, and keeps the order of the others.
LEMMA Removed ==
    ASSUME NEW T, NEW entries \in Seq(T), NEW places, places \subseteq DOMAIN entries,
           \A i, j \in places : i = j
    PROVE  /\ removed(entries, places) \in Seq(T)
           /\ Without(removed(entries, places), entries, places)
<1>1. CASE places = {}
  <2>1. removed(entries, places) = entries
    BY <1>1 DEF removed
  <2> DEFINE f == [i \in DOMAIN entries |-> i]
  <2>2. /\ f \in [DOMAIN entries -> DOMAIN entries]
        /\ \A i \in DOMAIN entries : f[i] = i
    OBVIOUS
  <2> HIDE DEF f
  <2>3. Without(entries, entries, places)
    BY <1>1, <2>2 DEF Without
  <2> QED BY <2>1, <2>3
<1>2. CASE places # {}
  <2> DEFINE p == CHOOSE i \in places : TRUE
             r == removed(entries, places)
             f == [i \in DOMAIN r |-> IF i < p THEN i ELSE i + 1]
  <2>1. p \in places /\ places = {p} /\ p \in DOMAIN entries
    BY <1>2
  <2>2. r = RemoveAt(entries, p)
    BY <1>2 DEF removed
  <2> HIDE DEF p, r
  <2>3. /\ r \in Seq(T) /\ Len(r) = Len(entries) - 1
        /\ \A i \in 1 .. Len(entries) - 1 : r[i] = entries[IF i < p THEN i ELSE i + 1]
    BY <2>1, <2>2, RemovedAt
  <2>4. /\ DOMAIN r = 1 .. Len(entries) - 1 /\ DOMAIN entries = 1 .. Len(entries)
        /\ Len(entries) \in Nat /\ p \in 1 .. Len(entries)
    BY <2>1, <2>3
  <2>5. /\ f \in [DOMAIN r -> DOMAIN entries]
        /\ \A i \in DOMAIN r : r[i] = entries[f[i]] /\ f[i] # p
        /\ \A i, j \in DOMAIN r : i < j => f[i] < f[j]
    BY <2>3, <2>4
  <2>6. ASSUME NEW j \in DOMAIN entries \ places
        PROVE  \E i \in DOMAIN r : f[i] = j
    <3>1. CASE j < p
      <4>1. j \in DOMAIN r /\ f[j] = j
        BY <3>1, <2>4
      <4> QED BY <4>1
    <3>2. CASE j > p
      <4>1. j - 1 \in DOMAIN r /\ f[j - 1] = j
        BY <3>2, <2>4
      <4> QED BY <4>1
    <3> QED BY <3>1, <3>2, <2>1, <2>4
  <2> HIDE DEF f
  <2>7. Without(r, entries, places)
    BY <2>1, <2>5, <2>6 DEF Without
  <2> QED BY <2>3, <2>7 DEF r
<1> QED BY <1>1, <1>2

\* The queue without a socket: the others keep their order.
LEMMA QueueCancelled ==
    ASSUME NEW q \in Seq(Entry), Distinct(q), NEW s
    PROVE  /\ dequeued(q, s) \in Seq(Entry) /\ Distinct(dequeued(q, s))
           /\ Unmatched(q) => Unmatched(dequeued(q, s))
           /\ \A i \in DOMAIN dequeued(q, s) :
                dequeued(q, s)[i].socket # s /\ \E j \in DOMAIN q : dequeued(q, s)[i] = q[j]
           /\ \A j \in DOMAIN q :
                q[j].socket # s => \E i \in DOMAIN dequeued(q, s) : dequeued(q, s)[i] = q[j]
<1> DEFINE places == {i \in DOMAIN q : q[i].socket = s}
           r == dequeued(q, s)
<1>1. r \in Seq(Entry) /\ Without(r, q, places)
  <2>1. places \subseteq DOMAIN q /\ \A i, j \in places : i = j
    BY DEF Distinct
  <2> QED BY <2>1, Removed DEF dequeued
<1> HIDE DEF r
<1>2. PICK f \in [DOMAIN r -> DOMAIN q] :
        /\ \A i \in DOMAIN r : r[i] = q[f[i]] /\ f[i] \notin places
        /\ \A i, j \in DOMAIN r : i < j => f[i] < f[j]
        /\ \A j \in DOMAIN q \ places : \E i \in DOMAIN r : f[i] = j
  BY <1>1 DEF Without
<1>3. Distinct(r)
  <2> SUFFICES ASSUME NEW i \in DOMAIN r, NEW j \in DOMAIN r, r[i].socket = r[j].socket
               PROVE  i = j
    BY DEF Distinct
  <2>1. f[i] = f[j]
    BY <1>2 DEF Distinct
  <2>2. ~(i < j) /\ ~(j < i)
    <3>1. f[i] \in Nat
      BY <1>2
    <3> QED BY <3>1, <2>1, <1>2
  <2>3. i \in Nat /\ j \in Nat
    BY <1>1
  <2> QED BY <2>2, <2>3
<1>4. Unmatched(q) => Unmatched(r)
  BY <1>2 DEF Unmatched
<1>5. \A i \in DOMAIN r : r[i].socket # s /\ \E j \in DOMAIN q : r[i] = q[j]
  BY <1>2
<1>6. ASSUME NEW j \in DOMAIN q, q[j].socket # s
      PROVE  \E i \in DOMAIN r : r[i] = q[j]
  <2>1. j \in DOMAIN q \ places
    BY <1>6
  <2>2. PICK i \in DOMAIN r : f[i] = j
    BY <2>1, <1>2
  <2> QED BY <2>2, <1>2
<1> QED BY <1>1, <1>3, <1>4, <1>5, <1>6 DEF r

\* The list without a code.
LEMMA GameCancelled ==
    ASSUME NEW games \in Seq(Game), UniqueCodes(games), NEW c
    PROVE  /\ without(games, c) \in Seq(Game) /\ UniqueCodes(without(games, c))
           /\ \A i \in DOMAIN without(games, c) :
                without(games, c)[i].code # c
                /\ \E j \in DOMAIN games : without(games, c)[i] = games[j]
           /\ \A j \in DOMAIN games :
                games[j].code # c => \E i \in DOMAIN without(games, c) : without(games, c)[i] = games[j]
<1> DEFINE places == {i \in DOMAIN games : games[i].code = c}
           r == without(games, c)
<1>1. r \in Seq(Game) /\ Without(r, games, places)
  <2>1. places \subseteq DOMAIN games /\ \A i, j \in places : i = j
    BY DEF UniqueCodes
  <2> QED BY <2>1, Removed DEF without
<1> HIDE DEF r
<1>2. PICK f \in [DOMAIN r -> DOMAIN games] :
        /\ \A i \in DOMAIN r : r[i] = games[f[i]] /\ f[i] \notin places
        /\ \A i, j \in DOMAIN r : i < j => f[i] < f[j]
        /\ \A j \in DOMAIN games \ places : \E i \in DOMAIN r : f[i] = j
  BY <1>1 DEF Without
<1>3. UniqueCodes(r)
  <2> SUFFICES ASSUME NEW i \in DOMAIN r, NEW j \in DOMAIN r, r[i].code = r[j].code
               PROVE  i = j
    BY DEF UniqueCodes
  <2>1. f[i] = f[j]
    BY <1>2 DEF UniqueCodes
  <2>2. ~(i < j) /\ ~(j < i)
    <3>1. f[i] \in Nat
      BY <1>2
    <3> QED BY <3>1, <2>1, <1>2
  <2>3. i \in Nat /\ j \in Nat
    BY <1>1
  <2> QED BY <2>2, <2>3
<1> QED BY <1>1, <1>2, <1>3 DEF r

-----------------------------------------------------------------------------

(* Pairing.                                                                  *)

\* Whether two may play does not depend on who came first.
LEMMA CompatibleBothWays ==
    ASSUME NEW e, NEW f
    PROVE  compatible(e, f) <=> compatible(f, e)
BY DEF compatible, sameAccount

\* The pair that is chosen is a pair: among those there are, one is the earliest.
LEMMA PairChosen ==
    ASSUME NEW q \in Seq(Entry), pairs(q) # {}
    PROVE  compatiblePair(q) \in pairs(q)
<1> DEFINE firsts == {p[1] : p \in pairs(q)}
<1>1. \A p \in pairs(q) : p = <<p[1], p[2]>> /\ p[1] \in Nat /\ p[2] \in Nat
  BY DEF pairs
<1>2. PICK m \in firsts : \A k \in firsts : m <= k
  <2>1. firsts \subseteq Nat /\ firsts # {}
    BY <1>1
  <2> HIDE DEF firsts
  <2> QED BY <2>1, FirstOf
<1> DEFINE seconds == {p[2] : p \in {x \in pairs(q) : x[1] = m}}
<1>3. PICK n \in seconds : \A k \in seconds : n <= k
  <2>1. seconds \subseteq Nat /\ seconds # {}
    BY <1>1, <1>2
  <2> HIDE DEF seconds
  <2> QED BY <2>1, FirstOf
<1>4. PICK p \in pairs(q) : p[1] = m /\ p[2] = n
  BY <1>3
<1>5. \A x \in pairs(q) : p[1] < x[1] \/ (p[1] = x[1] /\ p[2] <= x[2])
  <2> TAKE x \in pairs(q)
  <2>1. m <= x[1] /\ m \in Nat /\ x[1] \in Nat
    BY <1>1, <1>2
  <2>2. CASE x[1] = m
    <3>1. x[2] \in seconds
      BY <2>2
    <3> QED BY <3>1, <2>2, <1>3, <1>4
  <2> QED BY <2>1, <2>2, <1>4
<1> QED BY <1>4, <1>5 DEF compatiblePair

\* A socket that asks to be matched takes its place in the queue; only it may have an
\* opponent there.
LEMMA QueueEntered ==
    ASSUME NEW q \in Seq(Entry), Distinct(q), Unmatched(q), NEW s \in Sockets, NEW v \in Variants
    PROVE  /\ queued(q, s, v) \in Seq(Entry) /\ Distinct(queued(q, s, v))
           /\ \A i \in DOMAIN queued(q, s, v) :
                \/ queued(q, s, v)[i].socket = s
                \/ \E j \in DOMAIN q : queued(q, s, v)[i] = q[j]
           /\ \A j \in DOMAIN q : \E i \in DOMAIN queued(q, s, v) :
                queued(q, s, v)[i].socket = q[j].socket
           /\ \E i \in DOMAIN queued(q, s, v) : queued(q, s, v)[i].socket = s
           /\ \A i, j \in DOMAIN queued(q, s, v) :
                /\ i < j /\ queued(q, s, v)[i].socket # s /\ queued(q, s, v)[j].socket # s
                => ~compatible(queued(q, s, v)[i], queued(q, s, v)[j])
<1> DEFINE e == [socket |-> s, variant |-> v]
           r == queued(q, s, v)
<1>1. e \in Entry /\ e.socket = s
  BY DEF Entry
<1> HIDE DEF e
<1>2. CASE \E i \in DOMAIN q : q[i].socket = s
  <2>1. r = [i \in DOMAIN q |-> IF q[i].socket = s THEN e ELSE q[i]]
    BY <1>2 DEF queued, e
  <2> HIDE DEF r
  <2>2. r \in Seq(Entry) /\ DOMAIN r = DOMAIN q
    BY <2>1, <1>1
  <2>3. \A i \in DOMAIN q : r[i].socket = q[i].socket /\ (q[i].socket # s => r[i] = q[i])
    BY <2>1, <1>1
  <2>4. Distinct(r)
    BY <2>2, <2>3 DEF Distinct
  <2>5. \A i, j \in DOMAIN r :
            i < j /\ r[i].socket # s /\ r[j].socket # s => ~compatible(r[i], r[j])
    BY <2>2, <2>3 DEF Unmatched
  <2> QED BY <1>2, <2>2, <2>3, <2>4, <2>5 DEF r
<1>3. CASE ~ \E i \in DOMAIN q : q[i].socket = s
  <2>1. r = Append(q, e)
    BY <1>3 DEF queued, e
  <2> HIDE DEF r
  <2>2. /\ r \in Seq(Entry) /\ DOMAIN r = 1 .. Len(q) + 1 /\ DOMAIN q = 1 .. Len(q)
        /\ Len(q) \in Nat
    BY <2>1, <1>1
  <2>3. r[Len(q) + 1] = e /\ \A i \in 1 .. Len(q) : r[i] = q[i]
    BY <2>1, <1>1
  <2>4. Distinct(r)
    BY <1>1, <1>3, <2>2, <2>3 DEF Distinct
  <2>5. \A i, j \in DOMAIN r :
            i < j /\ r[i].socket # s /\ r[j].socket # s => ~compatible(r[i], r[j])
    BY <1>1, <2>2, <2>3 DEF Unmatched
  <2>6. \A i \in DOMAIN r : r[i].socket = s \/ \E j \in DOMAIN q : r[i] = q[j]
    BY <1>1, <2>2, <2>3
  <2>7. Len(q) + 1 \in DOMAIN r /\ \A j \in DOMAIN q : j \in DOMAIN r /\ r[j].socket = q[j].socket
    BY <2>2, <2>3
  <2> QED BY <1>1, <2>2, <2>3, <2>4, <2>5, <2>6, <2>7 DEF r
<1> QED BY <1>2, <1>3

-----------------------------------------------------------------------------

(* What the handlers do, field by field.                                     *)

\* The ids of rooms are neither NoRoom nor that of the lobby.
LEMMA Numbers ==
    /\ NoRoom \notin RoomIds /\ LOBBY_ROOM \notin RoomIds /\ NoRoom # LOBBY_ROOM
    /\ \A room \in RoomIds : room \in Nat /\ room # NoRoom /\ room # LOBBY_ROOM
BY DEF NoRoom, LOBBY_ROOM, RoomIds

\* The types of what the hub has for one socket.
LEMMA HubFields ==
    ASSUME NEW h \in Hub, NEW s \in Sockets
    PROVE  /\ h.sessions[s] \in Session
           /\ h.told[s] \in Told
           /\ h.roomOf[s] \in RoomOrNone /\ h.made \in Nat
           /\ h.hosting[s] \in Codes \cup {NoCode}
           /\ DOMAIN h.told = Sockets
BY DEF Hub, LOBBY_ROOM

\* told stays well typed when one socket learns something.
LEMMA Retold ==
    ASSUME NEW h \in Hub, NEW s \in Sockets, NEW news \in Told
    PROVE  [h.told EXCEPT ![s] = news] \in [Sockets -> Told]
BY DEF Hub, Told

\* So does the hub, when told or the subscribers change.
LEMMA HubTold ==
    ASSUME NEW h \in Hub, NEW told \in [Sockets -> Told], NEW subscribers \in SUBSET Sockets,
           NEW k, \/ k = [h EXCEPT !.told = told]
                  \/ k = [h EXCEPT !.subscribers = subscribers, !.told = told]
    PROVE  k \in Hub
BY DEF Hub, Told

\* The types of the entries of the queue and of the list.
LEMMA HubEntries ==
    ASSUME NEW h \in Hub
    PROVE  /\ \A i \in DOMAIN h.queue : h.queue[i] \in Entry /\ h.queue[i].socket \in Sockets
           /\ \A i \in DOMAIN h.games : h.games[i] \in Game /\ h.games[i].host \in Sockets
           /\ h.queue \in Seq(Entry) /\ h.games \in Seq(Game)
<1>1. h.queue \in Seq(Entry) /\ h.games \in Seq(Game)
  BY DEF Hub
<1>2. \A i \in DOMAIN h.queue : h.queue[i] \in Entry
  BY <1>1
<1>3. \A i \in DOMAIN h.games : h.games[i] \in Game
  BY <1>1
<1> QED BY <1>1, <1>2, <1>3 DEF Entry, Game

\* Nothing but the queue, the list and who hosts differs.
SamePlayers(k, h) ==
    /\ k.sessions = h.sessions /\ k.subscribers = h.subscribers
    /\ k.rooms = h.rooms /\ k.roomOf = h.roomOf /\ k.made = h.made

SameWaiters(k, h) == k.queue = h.queue /\ k.games = h.games /\ k.hosting = h.hosting

\* A socket leaves the subscribers of the list.
Muted(k, h, s) ==
    /\ k.sessions = h.sessions /\ k.rooms = h.rooms /\ k.roomOf = h.roomOf
    /\ k.made = h.made /\ SameWaiters(k, h)
    /\ k.subscribers = h.subscribers \ {s}
    /\ k.told = [h.told EXCEPT ![s] = [games |-> <<>>, room |-> h.told[s].room]]

\* unsubscribed does so, and nothing else.
LEMMA Unsubscribed ==
    ASSUME NEW h \in Hub, NEW s \in Sockets, NEW k, k = unsubscribed(h, s)
    PROVE  k \in Hub /\ Muted(k, h, s)
<1> DEFINE news == [games |-> <<>>, room |-> h.told[s].room]
<1>1. <<>> \in Lists
  BY DEF Lists
<1>2. [h.told[s] EXCEPT !.games = <<>>] = news /\ news \in Told
  BY <1>1, HubFields DEF Told
<1>3. k = [h EXCEPT !.subscribers = h.subscribers \ {s}, !.told = [h.told EXCEPT ![s] = news]]
  <2>1. k = [h EXCEPT !.subscribers = h.subscribers \ {s},
                      !.told = [h.told EXCEPT ![s] = [h.told[s] EXCEPT !.games = <<>>]]]
    BY DEF unsubscribed, Hub
  <2> QED BY <2>1, <1>2
<1> HIDE DEF news
<1>4. k \in Hub /\ k.told = [h.told EXCEPT ![s] = news] /\ k.subscribers = h.subscribers \ {s}
  <2> DEFINE told == [h.told EXCEPT ![s] = news]  rest == h.subscribers \ {s}
  <2>1. told \in [Sockets -> Told]
    BY <1>2, Retold
  <2>2. rest \in SUBSET Sockets
    BY DEF Hub
  <2>3. k = [h EXCEPT !.subscribers = rest, !.told = told]
    BY <1>3
  <2> HIDE DEF told, rest
  <2>4. k \in Hub
    BY <2>1, <2>2, <2>3, HubTold
  <2>5. k.told = told /\ k.subscribers = rest
    BY <2>3 DEF Hub
  <2> QED BY <2>4, <2>5 DEF told, rest
<1>5. /\ k.sessions = h.sessions /\ k.rooms = h.rooms /\ k.roomOf = h.roomOf
      /\ k.made = h.made /\ SameWaiters(k, h)
  BY <1>3 DEF Hub, SameWaiters
<1> QED BY <1>4, <1>5 DEF news, Muted

\* A player enters a room: it leaves the list and learns of the room.
Inside(k, h, s, room) ==
    /\ k.rooms = h.rooms /\ k.roomOf = h.roomOf /\ k.made = h.made /\ SameWaiters(k, h)
    /\ k.subscribers = h.subscribers \ {s}
    /\ k.sessions = [h.sessions EXCEPT ![s] = [h.sessions[s] EXCEPT !.roomId = room]]
    /\ k.told = [h.told EXCEPT ![s] =
            [games |-> <<>>, room |-> IF isOpen(h, s) THEN room ELSE h.told[s].room]]

\* entersRoom does so for a player that still has a session.
LEMMA Entered ==
    ASSUME NEW h \in Hub, NEW s \in Sockets, hasSession(h, s), NEW room \in RoomIds,
           NEW k, k = entersRoom(h, s, room)
    PROVE  k \in Hub /\ Inside(k, h, s, room)
<1> DEFINE u == unsubscribed(h, s)
           session == [h.sessions[s] EXCEPT !.roomId = room]
           e == [u EXCEPT !.sessions[s].roomId = room]
           mute == [games |-> <<>>, room |-> h.told[s].room]
           news == [games |-> <<>>, room |-> room]
<1>1. /\ u \in Hub
      /\ u.sessions = h.sessions /\ u.rooms = h.rooms /\ u.roomOf = h.roomOf
      /\ u.made = h.made /\ SameWaiters(u, h)
      /\ u.subscribers = h.subscribers \ {s}
      /\ u.told = [h.told EXCEPT ![s] = mute]
  BY Unsubscribed DEF Muted
<1> HIDE DEF u
<1>2. k = sendRoom(e, s, room)
  BY DEF entersRoom, u
<1>3. session \in Session /\ session.state = h.sessions[s].state
  BY HubFields DEF Session, RoomOrNone
<1>4. e = [u EXCEPT !.sessions = [h.sessions EXCEPT ![s] = session]]
  BY <1>1 DEF Hub
<1> HIDE DEF session, e
<1>5. /\ e \in Hub /\ e.sessions = [h.sessions EXCEPT ![s] = session]
      /\ e.rooms = h.rooms /\ e.roomOf = h.roomOf /\ e.made = h.made /\ SameWaiters(e, h)
      /\ e.subscribers = h.subscribers \ {s}
      /\ e.told = [h.told EXCEPT ![s] = mute]
  BY <1>1, <1>3, <1>4 DEF Hub, SameWaiters
<1>6. isOpen(e, s) <=> isOpen(h, s)
  BY <1>3, <1>5 DEF isOpen, Hub
<1>7. CASE ~isOpen(h, s)
  BY <1>2, <1>5, <1>6, <1>7 DEF sendRoom, session, Inside
<1>8. CASE isOpen(h, s)
  <2>1. mute \in Told /\ news \in Told
        /\ [mute EXCEPT !.room = room] = news
    BY HubFields DEF Lists, RoomOrNone, Told
  <2>2. k = [e EXCEPT !.told[s].room = room]
    BY <1>2, <1>6, <1>8 DEF sendRoom
  <2>3. e.told[s] = mute /\ [e.told EXCEPT ![s] = news] = [h.told EXCEPT ![s] = news]
    BY <1>5 DEF Hub
  <2>4. k = [e EXCEPT !.told = [e.told EXCEPT ![s] = [e.told[s] EXCEPT !.room = room]]]
    BY <2>2, <1>5 DEF Hub
  <2>5. k = [e EXCEPT !.told = [h.told EXCEPT ![s] = news]]
    BY <2>1, <2>3, <2>4
  <2> HIDE DEF mute, news
  <2>6. k \in Hub /\ k.told = [h.told EXCEPT ![s] = news]
    <3> DEFINE told == [h.told EXCEPT ![s] = news]
    <3>1. told \in [Sockets -> Told]
      BY <2>1, Retold
    <3>2. k = [e EXCEPT !.told = told]
      BY <2>5
    <3> HIDE DEF told
    <3>3. k \in Hub /\ k.told = told
      <4>1. k \in Hub
        BY <1>5, <3>1, <3>2, HubTold
      <4> QED BY <1>5, <3>2, <4>1 DEF Hub
    <3> QED BY <3>3 DEF told
  <2>7. /\ k.sessions = e.sessions /\ k.rooms = e.rooms /\ k.roomOf = e.roomOf
        /\ k.made = e.made /\ SameWaiters(k, e) /\ k.subscribers = e.subscribers
    BY <1>5, <2>5 DEF Hub, SameWaiters
  <2> QED BY <1>5, <1>8, <2>6, <2>7 DEF news, session, SameWaiters, Inside
<1> QED BY <1>7, <1>8

\* A room is made for s and t, who leave the list and learn of it.
Met(k, h, s, t) ==
    /\ k.made = h.made + 1
    /\ k.rooms = h.rooms \cup {[id |-> k.made, members |-> {s, t}]}
    /\ k.subscribers = h.subscribers \ {s, t}
    /\ \A u \in Sockets :
        IF u \in {s, t}
        THEN /\ k.roomOf[u] = k.made
             /\ k.sessions[u] = [h.sessions[u] EXCEPT !.roomId = k.made]
             /\ isOpen(h, u) => k.told[u].room = k.made
        ELSE /\ k.roomOf[u] = h.roomOf[u]
             /\ k.sessions[u] = h.sessions[u] /\ k.told[u] = h.told[u]

\* createRoom and announceMatch do so.
LEMMA MatchMade ==
    ASSUME NEW h \in Hub, NEW s \in Sockets, NEW t \in Sockets, s # t,
           hasSession(h, s), hasSession(h, t), h.made < LOBBY_ROOM + MaxRooms,
           NEW k, k = matched(h, s, t)
    PROVE  k \in Hub /\ SameWaiters(k, h) /\ Met(k, h, s, t)
<1> DEFINE room == h.made + 1
           new == [id |-> room, members |-> {s, t}]
           index == [h.roomOf EXCEPT ![s] = room, ![t] = room]
           m == [h EXCEPT !.made = room, !.rooms = h.rooms \cup {new}, !.roomOf = index]
           e == entersRoom(m, s, room)
<1>1. room \in RoomIds /\ room \in LOBBY_ROOM .. LOBBY_ROOM + MaxRooms /\ room \in Nat
  BY DEF Hub, RoomIds, LOBBY_ROOM
<1>2. new \in [id : RoomIds, members : SUBSET Sockets]
  BY <1>1
<1>3. /\ index \in [Sockets -> RoomOrNone]
      /\ \A u \in Sockets : index[u] = IF u \in {s, t} THEN room ELSE h.roomOf[u]
  BY <1>1 DEF Hub, RoomOrNone
<1>4. m = [h EXCEPT !.made = room, !.rooms = @ \cup {new}, !.roomOf[s] = room, !.roomOf[t] = room]
  BY DEF Hub
<1>5. k = entersRoom(e, t, room)
  BY <1>4 DEF matched
<1> HIDE DEF room, new, index, m
<1>6. /\ m \in Hub
      /\ m.sessions = h.sessions /\ m.subscribers = h.subscribers /\ m.told = h.told
      /\ SameWaiters(m, h)
      /\ m.made = room /\ m.rooms = h.rooms \cup {new} /\ m.roomOf = index
  <2>1. /\ m.sessions = h.sessions /\ m.subscribers = h.subscribers /\ m.told = h.told
        /\ SameWaiters(m, h)
        /\ m.made = room /\ m.rooms = h.rooms \cup {new} /\ m.roomOf = index
    BY DEF Hub, SameWaiters, m
  <2>2. m \in Hub
    BY <1>1, <1>2, <1>3 DEF Hub, m
  <2> QED BY <2>1, <2>2
<1>7. hasSession(m, s) /\ (isOpen(m, s) <=> isOpen(h, s))
  BY <1>6 DEF hasSession, isOpen
<1> HIDE DEF e
<1> DEFINE told(u) == [games |-> <<>>, room |-> IF isOpen(h, u) THEN room ELSE h.told[u].room]
           inside(u) == [h.sessions[u] EXCEPT !.roomId = room]
<1>8. /\ e \in Hub
      /\ e.rooms = m.rooms /\ e.roomOf = index /\ e.made = room /\ SameWaiters(e, h)
      /\ e.subscribers = h.subscribers \ {s}
      /\ e.sessions = [h.sessions EXCEPT ![s] = inside(s)]
      /\ e.told = [h.told EXCEPT ![s] = told(s)]
  <2>1. e \in Hub /\ Inside(e, m, s, room)
    BY <1>1, <1>6, <1>7, Entered DEF e
  <2> QED BY <2>1, <1>6, <1>7 DEF SameWaiters, Inside
<1>9. e.sessions[t] = h.sessions[t] /\ e.told[t] = h.told[t]
  BY <1>8 DEF Hub
<1>10. hasSession(e, t) /\ (isOpen(e, t) <=> isOpen(h, t))
  BY <1>9 DEF hasSession, isOpen
<1>11. /\ k \in Hub
       /\ k.rooms = m.rooms /\ k.roomOf = index /\ k.made = room /\ SameWaiters(k, h)
       /\ k.subscribers = (h.subscribers \ {s}) \ {t}
       /\ k.sessions = [e.sessions EXCEPT ![t] = inside(t)]
       /\ k.told = [e.told EXCEPT ![t] = told(t)]
  <2>1. k \in Hub /\ Inside(k, e, t, room)
    BY <1>1, <1>5, <1>8, <1>10, Entered
  <2> QED BY <2>1, <1>8, <1>9, <1>10 DEF SameWaiters, Inside
<1>12. \A u \in {s, t} : told(u).room = IF isOpen(h, u) THEN room ELSE h.told[u].room
  OBVIOUS
<1> HIDE DEF told, inside
<1>13. \A u \in Sockets :
        IF u \in {s, t} THEN k.sessions[u] = inside(u) /\ k.told[u] = told(u)
        ELSE k.sessions[u] = h.sessions[u] /\ k.told[u] = h.told[u]
  BY <1>8, <1>11 DEF Hub
<1>14. \A u \in Sockets :
        IF u \in {s, t}
        THEN /\ k.roomOf[u] = k.made
             /\ k.sessions[u] = [h.sessions[u] EXCEPT !.roomId = k.made]
             /\ isOpen(h, u) => k.told[u].room = k.made
        ELSE /\ k.roomOf[u] = h.roomOf[u]
             /\ k.sessions[u] = h.sessions[u] /\ k.told[u] = h.told[u]
  <2> TAKE u \in Sockets
  <2>1. k.made = room /\ k.roomOf[u] = IF u \in {s, t} THEN room ELSE h.roomOf[u]
    BY <1>3, <1>11
  <2>2. CASE u \in {s, t}
    BY <1>12, <1>13, <2>1, <2>2 DEF inside
  <2>3. CASE u \notin {s, t}
    BY <1>13, <2>1, <2>3
  <2> QED BY <2>2, <2>3
<1>15. /\ k.made = h.made + 1 /\ k.subscribers = h.subscribers \ {s, t}
       /\ k.rooms = h.rooms \cup {[id |-> k.made, members |-> {s, t}]}
  BY <1>6, <1>11 DEF room, new
<1> QED BY <1>11, <1>14, <1>15 DEF Met

\* broadcastLobbyList changes nothing but what the subscribers know of the list.
LEMMA Broadcast ==
    ASSUME NEW h \in Hub, NEW k, k = broadcastLobbyList(h)
    PROVE  /\ k \in Hub /\ SamePlayers(k, h) /\ SameWaiters(k, h)
           /\ \A u \in Sockets : k.told[u].room = h.told[u].room
           /\ ListsFresh(k)
<1> DEFINE told == [s \in Sockets |->
                        IF s \in h.subscribers /\ isOpen(h, s)
                        THEN [h.told[s] EXCEPT !.games = listPublicGames(h.games)]
                        ELSE h.told[s]]
<1>1. k = [h EXCEPT !.told = told]
  BY DEF broadcastLobbyList, Hub
<1>2. listPublicGames(h.games) \in Lists
  BY DEF Hub, Lists
<1>3. \A u \in Sockets : told[u] \in Told /\ told[u].room = h.told[u].room
  BY <1>2, HubFields DEF Told
<1>4. \A u \in Sockets :
        u \in h.subscribers /\ isOpen(h, u) => told[u].games = listPublicGames(h.games)
  BY HubFields DEF Told
<1>5. told = [s \in Sockets |-> told[s]]
  OBVIOUS
<1> HIDE DEF told
<1>6. told \in [Sockets -> Told]
  BY <1>3, <1>5
<1>7. k \in Hub
  BY <1>1, <1>6, HubTold DEF Hub
<1>8. k.told = told /\ SamePlayers(k, h) /\ SameWaiters(k, h)
  BY <1>1 DEF Hub, SamePlayers, SameWaiters
<1>9. ListsFresh(k)
  <2>1. \A u \in Sockets : isOpen(k, u) <=> isOpen(h, u)
    BY <1>8 DEF isOpen, SamePlayers
  <2>2. h.subscribers \subseteq Sockets
    BY DEF Hub
  <2> QED BY <1>4, <1>8, <2>1, <2>2 DEF ListsFresh, SamePlayers, SameWaiters
<1> QED BY <1>3, <1>7, <1>8, <1>9

\* cancelQuickMatch changes nothing but the queue.
LEMMA Cancelled ==
    ASSUME NEW h \in Hub, Distinct(h.queue), NEW s \in Sockets, NEW k, k = cancelQuickMatch(h, s)
    PROVE  /\ k \in Hub /\ SamePlayers(k, h) /\ k.told = h.told
           /\ k.games = h.games /\ k.hosting = h.hosting
           /\ k.queue = dequeued(h.queue, s)
<1> DEFINE r == dequeued(h.queue, s)
<1>1. h.queue \in Seq(Entry)
  BY DEF Hub
<1>2. r \in Seq(Entry)
  BY <1>1, QueueCancelled
<1>3. k = [h EXCEPT !.queue = r]
  BY DEF cancelQuickMatch, Hub
<1> HIDE DEF r
<1>4. k \in Hub /\ SamePlayers(k, h) /\ k.told = h.told /\ k.games = h.games
      /\ k.hosting = h.hosting /\ k.queue = r
  BY <1>2, <1>3 DEF Hub, SamePlayers
<1> QED BY <1>4 DEF r

\* A host takes its game out of the list, and the subscribers are told.
Delisted(k, h, s) ==
    /\ SamePlayers(k, h) /\ k.queue = h.queue
    /\ k.hosting = [h.hosting EXCEPT ![s] = NoCode]
    /\ k.games = IF h.hosting[s] = NoCode THEN h.games ELSE without(h.games, h.hosting[s])
    /\ \A u \in Sockets : k.told[u].room = h.told[u].room
    /\ \A u \in h.subscribers :
        isOpen(h, u) => k.told[u].games =
            IF h.hosting[s] = NoCode THEN h.told[u].games ELSE listPublicGames(k.games)

\* unlisted does so, and does nothing to a socket that hosts no game.
LEMMA Unlisted ==
    ASSUME NEW h \in Hub, UniqueCodes(h.games), NEW s \in Sockets, NEW k, k = unlisted(h, s)
    PROVE  k \in Hub /\ Delisted(k, h, s)
<1>1. CASE h.hosting[s] = NoCode
  <2>1. k = h
    BY <1>1 DEF unlisted
  <2>2. h.hosting = [h.hosting EXCEPT ![s] = NoCode]
    BY <1>1 DEF Hub
  <2> QED BY <1>1, <2>1, <2>2 DEF Delisted, SamePlayers
<1>2. CASE h.hosting[s] # NoCode
  <2> DEFINE left == without(h.games, h.hosting[s])
             none == [h.hosting EXCEPT ![s] = NoCode]
             c == cancelPendingGame(h, s)
  <2>1. left \in Seq(Game)
    <3>1. h.games \in Seq(Game)
      BY DEF Hub
    <3> QED BY <3>1, GameCancelled
  <2>2. none \in [Sockets -> Codes \cup {NoCode}]
    BY DEF Hub
  <2>3. c = [h EXCEPT !.games = left, !.hosting = none]
    BY DEF cancelPendingGame, Hub
  <2>4. k = broadcastLobbyList(c)
    BY <1>2 DEF unlisted
  <2> HIDE DEF left, none, c
  <2>5. /\ c \in Hub /\ SamePlayers(c, h) /\ c.queue = h.queue /\ c.told = h.told
        /\ c.games = left /\ c.hosting = none
    BY <2>1, <2>2, <2>3 DEF Hub, SamePlayers
  <2>6. /\ k \in Hub /\ SamePlayers(k, c) /\ SameWaiters(k, c) /\ ListsFresh(k)
        /\ \A u \in Sockets : k.told[u].room = c.told[u].room
    BY <2>4, <2>5, Broadcast
  <2>7. \A u : isOpen(k, u) <=> isOpen(h, u)
    BY <2>5, <2>6 DEF isOpen, SamePlayers
  <2> QED BY <1>2, <2>5, <2>6, <2>7 DEF Delisted, ListsFresh, SamePlayers, SameWaiters, left, none
<1> QED BY <1>1, <1>2

\* Who is in the room of s.
crew(h, s) == UNION {r.members : r \in {x \in h.rooms : x.id = h.roomOf[s]}}

inMatch(h, s) == h.sessions[s].roomId \notin {NoRoom, LOBBY_ROOM}

\* A socket leaves everything it was in: the queue, the list, the subscribers, and a room,
\* which ends for whoever else is in it.
Departed(k, h, s) ==
    /\ k.made = h.made
    /\ k.rooms = IF inMatch(h, s) THEN {r \in h.rooms : r.id # h.roomOf[s]} ELSE h.rooms
    /\ k.subscribers = h.subscribers \ {s}
    /\ k.queue = dequeued(h.queue, s)
    /\ k.hosting = [h.hosting EXCEPT ![s] = NoCode]
    /\ k.games = IF h.hosting[s] = NoCode THEN h.games ELSE without(h.games, h.hosting[s])
    /\ \A u \in Sockets :
        k.roomOf[u] = IF inMatch(h, s) /\ u \in crew(h, s) THEN NoRoom ELSE h.roomOf[u]
    /\ k.sessions[s].roomId = NoRoom
    /\ \A u \in Sockets \ {s} :
        IF inMatch(h, s) /\ u \in crew(h, s)
        THEN /\ k.sessions[u] = [h.sessions[u] EXCEPT !.roomId = NoRoom]
             /\ isOpen(h, u) => k.told[u].room = NoRoom
             /\ ~isOpen(h, u) => k.told[u].room = h.told[u].room
        ELSE k.sessions[u] = h.sessions[u] /\ k.told[u].room = h.told[u].room
    /\ \A u \in h.subscribers \ {s} :
        isOpen(h, u) => k.told[u].games =
            IF h.hosting[s] = NoCode THEN h.told[u].games ELSE listPublicGames(k.games)

\* The room of s ends.
RoomEnded(k, h, s) ==
    /\ SameWaiters(k, h) /\ k.made = h.made /\ k.subscribers = h.subscribers
    /\ k.rooms = {r \in h.rooms : r.id # h.roomOf[s]}
    /\ \A u \in Sockets :
        /\ k.roomOf[u] = IF u \in crew(h, s) THEN NoRoom ELSE h.roomOf[u]
        /\ k.sessions[u] = IF u \in crew(h, s) \ {s}
                           THEN [h.sessions[u] EXCEPT !.roomId = NoRoom] ELSE h.sessions[u]
        /\ k.told[u].games = h.told[u].games
        /\ k.told[u].room = IF u \in crew(h, s) \ {s} /\ isOpen(h, u) THEN NoRoom
                            ELSE h.told[u].room

\* abandon ends the room of s for all who are in it.
LEMMA Abandoned ==
    ASSUME NEW h \in Hub, NEW s \in Sockets, NEW k, k = abandoned(h, s),
           \A u \in crew(h, s) \ {s} : hasSession(h, u)
    PROVE  k \in Hub /\ RoomEnded(k, h, s)
<1> DEFINE members == crew(h, s)
           rooms == {r \in h.rooms : r.id # h.roomOf[s]}
           index == [u \in Sockets |-> IF u \in members THEN NoRoom ELSE h.roomOf[u]]
           g == [h EXCEPT !.rooms = rooms, !.roomOf = index]
           others == members \ {s}
           sessions == [u \in Sockets |-> IF u \in others /\ hasSession(g, u)
                            THEN [g.sessions[u] EXCEPT !.roomId = NoRoom] ELSE g.sessions[u]]
           told == [u \in Sockets |-> IF u \in others /\ isOpen(g, u)
                            THEN [g.told[u] EXCEPT !.room = NoRoom] ELSE g.told[u]]
<1>1. k = [g EXCEPT !.sessions = sessions, !.told = told]
  <2>1. k = leftBehind(g, others)
    BY DEF abandoned, crew, Hub
  <2> QED BY <2>1 DEF leftBehind, Hub
<1>2. rooms \in SUBSET [id : RoomIds, members : SUBSET Sockets]
  BY DEF Hub
<1>3. /\ index \in [Sockets -> RoomOrNone]
      /\ \A u \in Sockets : index[u] = IF u \in members THEN NoRoom ELSE h.roomOf[u]
  BY DEF Hub, RoomOrNone
<1> HIDE DEF rooms, index
<1>4. /\ g \in Hub /\ g.sessions = h.sessions /\ g.told = h.told /\ SameWaiters(g, h)
      /\ g.made = h.made /\ g.subscribers = h.subscribers /\ g.rooms = rooms /\ g.roomOf = index
  <2>1. /\ g.sessions = h.sessions /\ g.told = h.told /\ SameWaiters(g, h)
        /\ g.made = h.made /\ g.subscribers = h.subscribers /\ g.rooms = rooms /\ g.roomOf = index
    BY DEF Hub, SameWaiters
  <2>2. g \in Hub
    BY <1>2, <1>3 DEF Hub
  <2> QED BY <2>1, <2>2
<1> HIDE DEF g
<1>5. \A u \in Sockets : (isOpen(g, u) <=> isOpen(h, u)) /\ (hasSession(g, u) <=> hasSession(h, u))
  BY <1>4 DEF isOpen, hasSession
<1>6. \A u \in Sockets : sessions[u] = IF u \in others THEN [h.sessions[u] EXCEPT !.roomId = NoRoom]
                                       ELSE h.sessions[u]
  BY <1>4, <1>5
<1>7. sessions \in [Sockets -> Session]
  <2>1. \A u \in Sockets : sessions[u] \in Session
    <3> TAKE u \in Sockets
    <3>1. h.sessions[u] \in Session
      BY HubFields
    <3>2. [h.sessions[u] EXCEPT !.roomId = NoRoom] \in Session
      BY <3>1 DEF Session, RoomOrNone
    <3> QED BY <1>6, <3>1, <3>2
  <2> QED BY <2>1
<1>8. \A u \in Sockets :
        /\ told[u].games = h.told[u].games
        /\ told[u].room = IF u \in others /\ isOpen(h, u) THEN NoRoom ELSE h.told[u].room
  BY <1>4, <1>5, HubFields DEF Told
<1>9. told \in [Sockets -> Told]
  <2>1. \A u \in Sockets : told[u] \in Told
    BY <1>4, HubFields DEF Told, RoomOrNone
  <2> QED BY <2>1
<1> HIDE DEF sessions, told
<1>10. /\ k \in Hub /\ k.sessions = sessions /\ k.told = told /\ SameWaiters(k, g)
       /\ k.made = g.made /\ k.subscribers = g.subscribers /\ k.rooms = g.rooms /\ k.roomOf = g.roomOf
  <2>1. /\ k.sessions = sessions /\ k.told = told /\ SameWaiters(k, g)
        /\ k.made = g.made /\ k.subscribers = g.subscribers /\ k.rooms = g.rooms
        /\ k.roomOf = g.roomOf
    BY <1>1, <1>4 DEF Hub, SameWaiters
  <2>2. k \in Hub
    BY <1>1, <1>4, <1>7, <1>9 DEF Hub, Told
  <2> QED BY <2>1, <2>2
<1> QED BY <1>3, <1>4, <1>6, <1>8, <1>10 DEF SameWaiters, rooms, RoomEnded

\* detachFromRoom does so, in the room, in the lobby or in neither.
LEMMA Detached ==
    ASSUME NEW h \in Hub, NEW s \in Sockets, Distinct(h.queue), UniqueCodes(h.games),
           inMatch(h, s) => \A u \in crew(h, s) \ {s} : hasSession(h, u),
           NEW k, k = detachFromRoom(h, s)
    PROVE  /\ k \in Hub /\ Departed(k, h, s)
           /\ k.sessions[s] = [h.sessions[s] EXCEPT !.roomId = NoRoom]
<1> DEFINE c == cancelQuickMatch(h, s)
           w == unsubscribed(c, s)
           d == unlisted(w, s)
           l == [d EXCEPT !.sessions[s].roomId = NoRoom]
           out == [h.sessions[s] EXCEPT !.roomId = NoRoom]
           queue == dequeued(h.queue, s)
           hosting == [h.hosting EXCEPT ![s] = NoCode]
           games == IF h.hosting[s] = NoCode THEN h.games ELSE without(h.games, h.hosting[s])
           mute == [games |-> <<>>, room |-> h.told[s].room]
<1>1. k = IF inMatch(h, s) THEN abandoned(l, s) ELSE l
  BY DEF detachFromRoom, inMatch
<1>2. /\ c \in Hub /\ SamePlayers(c, h) /\ c.told = h.told
      /\ c.games = h.games /\ c.hosting = h.hosting /\ c.queue = queue
  BY Cancelled
<1> HIDE DEF queue, c
<1>3. /\ w \in Hub
      /\ w.sessions = h.sessions /\ w.rooms = h.rooms /\ w.roomOf = h.roomOf
      /\ w.made = h.made /\ w.games = h.games /\ w.hosting = h.hosting /\ w.queue = queue
      /\ w.subscribers = h.subscribers \ {s}
      /\ w.told = [h.told EXCEPT ![s] = mute]
  <2>1. w \in Hub /\ Muted(w, c, s)
    BY <1>2, Unsubscribed
  <2> QED BY <2>1, <1>2 DEF Muted, SamePlayers, SameWaiters
<1>4. /\ \A u \in Sockets : w.told[u].room = h.told[u].room
      /\ \A u \in Sockets \ {s} : w.told[u] = h.told[u]
  BY <1>3 DEF Hub
<1> HIDE DEF w, mute
<1>5. d \in Hub /\ Delisted(d, w, s)
  BY <1>3, Unlisted
<1> HIDE DEF d
<1>6. \A u \in Sockets : (isOpen(w, u) <=> isOpen(h, u)) /\ (hasSession(w, u) <=> hasSession(h, u))
  BY <1>3 DEF isOpen, hasSession
<1>7. /\ d.sessions = h.sessions /\ d.rooms = h.rooms /\ d.roomOf = h.roomOf /\ d.made = h.made
      /\ d.subscribers = h.subscribers \ {s} /\ d.queue = queue /\ d.hosting = hosting
      /\ d.games = games
      /\ \A u \in Sockets : d.told[u].room = h.told[u].room
  BY <1>3, <1>4, <1>5 DEF Delisted, SamePlayers
<1>8. \A u \in h.subscribers \ {s} :
        isOpen(h, u) => d.told[u].games =
            IF h.hosting[s] = NoCode THEN h.told[u].games ELSE listPublicGames(d.games)
  <2>1. h.subscribers \subseteq Sockets
    BY DEF Hub
  <2> QED BY <2>1, <1>3, <1>4, <1>5, <1>6 DEF Delisted
<1>9. out \in Session /\ out.state = h.sessions[s].state /\ out.roomId = NoRoom
  BY HubFields DEF Session, RoomOrNone
<1>10. l = [d EXCEPT !.sessions = [h.sessions EXCEPT ![s] = out]]
  BY <1>5, <1>7 DEF Hub
<1> HIDE DEF l, out, hosting, games
<1>11. /\ l \in Hub /\ l.sessions = [h.sessions EXCEPT ![s] = out]
       /\ l.rooms = h.rooms /\ l.roomOf = h.roomOf /\ l.made = h.made
       /\ l.subscribers = h.subscribers \ {s} /\ l.queue = queue /\ l.hosting = hosting
       /\ l.games = games /\ l.told = d.told
  <2> DEFINE sessions == [h.sessions EXCEPT ![s] = out]
  <2>1. sessions \in [Sockets -> Session] /\ l = [d EXCEPT !.sessions = sessions]
    BY <1>9, <1>10 DEF Hub
  <2> HIDE DEF sessions
  <2>2. l \in Hub /\ l.sessions = sessions
    BY <1>5, <2>1 DEF Hub
  <2>3. /\ l.rooms = d.rooms /\ l.roomOf = d.roomOf /\ l.made = d.made
        /\ l.subscribers = d.subscribers /\ l.queue = d.queue /\ l.hosting = d.hosting
        /\ l.games = d.games /\ l.told = d.told
    BY <1>5, <2>1 DEF Hub
  <2> QED BY <1>7, <2>2, <2>3 DEF sessions
<1>12. /\ l.sessions[s] = out
       /\ \A u \in Sockets \ {s} : l.sessions[u] = h.sessions[u]
  BY <1>11 DEF Hub
<1>13. \A u \in Sockets : (isOpen(l, u) <=> isOpen(h, u)) /\ (hasSession(l, u) <=> hasSession(h, u))
  BY <1>9, <1>12 DEF isOpen, hasSession
<1>14. CASE ~inMatch(h, s)
  <2>1. k = l
    BY <1>1, <1>14
  <2>2. Departed(k, h, s)
    BY <2>1, <1>7, <1>8, <1>9, <1>11, <1>12, <1>14 DEF Departed, queue, hosting, games
  <2> QED BY <2>1, <2>2, <1>11, <1>12 DEF out
<1>15. CASE inMatch(h, s)
  <2>1. crew(l, s) = crew(h, s)
    BY <1>11 DEF crew
  <2>2. k = abandoned(l, s)
    BY <1>1, <1>15
  <2>3. \A u \in crew(l, s) \ {s} : hasSession(l, u)
    <3>1. crew(h, s) \subseteq Sockets
      BY DEF crew, Hub
    <3> QED BY <1>13, <1>15, <2>1, <3>1
  <2>4. k \in Hub /\ RoomEnded(k, l, s)
    BY <1>11, <2>2, <2>3, Abandoned
  <2>5. k.sessions[s] = out
    BY <2>4, <1>12 DEF RoomEnded
  <2>6. \A u \in Sockets \ {s} :
            IF u \in crew(h, s)
            THEN /\ k.sessions[u] = [h.sessions[u] EXCEPT !.roomId = NoRoom]
                 /\ isOpen(h, u) => k.told[u].room = NoRoom
                 /\ ~isOpen(h, u) => k.told[u].room = h.told[u].room
            ELSE k.sessions[u] = h.sessions[u] /\ k.told[u].room = h.told[u].room
    BY <2>1, <2>4, <1>7, <1>11, <1>12, <1>13 DEF RoomEnded
  <2>7. \A u \in h.subscribers \ {s} : k.told[u].games = d.told[u].games
    <3>1. h.subscribers \subseteq Sockets
      BY DEF Hub
    <3> QED BY <3>1, <2>4, <1>11 DEF RoomEnded
  <2>8. /\ k.made = h.made /\ k.subscribers = h.subscribers \ {s} /\ k.queue = queue
        /\ k.hosting = hosting /\ k.games = games
        /\ k.rooms = {r \in h.rooms : r.id # h.roomOf[s]}
        /\ \A u \in Sockets : k.roomOf[u] = IF u \in crew(h, s) THEN NoRoom ELSE h.roomOf[u]
    <3>1. /\ k.made = l.made /\ k.subscribers = l.subscribers /\ SameWaiters(k, l)
          /\ k.rooms = {r \in l.rooms : r.id # l.roomOf[s]}
          /\ \A u \in Sockets : k.roomOf[u] = IF u \in crew(l, s) THEN NoRoom ELSE l.roomOf[u]
      BY <2>4 DEF RoomEnded
    <3> QED BY <3>1, <2>1, <1>11 DEF SameWaiters
  <2>9. \A u \in h.subscribers \ {s} :
        isOpen(h, u) => k.told[u].games =
            IF h.hosting[s] = NoCode THEN h.told[u].games ELSE listPublicGames(k.games)
    BY <2>7, <2>8, <1>7, <1>8
  <2>10. Departed(k, h, s)
    BY <2>5, <2>6, <2>8, <2>9, <1>9, <1>15 DEF Departed, queue, hosting, games
  <2> QED BY <2>4, <2>5, <2>10 DEF out
<1> QED BY <1>14, <1>15

-----------------------------------------------------------------------------

(* The rooms, and who is told of them.                                       *)

RoomSide(h) == RoomsSound(h) /\ SubscribersPresent(h) /\ RoomsTold(h) /\ Unborn(h)

\* The three places that say who is in a room agree.
LEMMA Crewed ==
    ASSUME NEW h \in Hub, RoomsSound(h), NEW s \in Sockets
    PROVE  /\ inMatch(h, s) <=> h.roomOf[s] # NoRoom
           /\ inMatch(h, s) => h.roomOf[s] = h.sessions[s].roomId /\ s \in crew(h, s)
           /\ \A u \in crew(h, s) :
                /\ u \in Sockets /\ hasSession(h, u)
                /\ h.roomOf[u] = h.roomOf[s] /\ h.sessions[u].roomId = h.roomOf[s]
           /\ \A u \in Sockets :
                h.roomOf[s] # NoRoom /\ h.roomOf[u] = h.roomOf[s] => u \in crew(h, s)
<1>1. h.sessions[s].roomId \in RoomIds \cup {NoRoom, LOBBY_ROOM}
  BY HubFields DEF Session, RoomOrNone
<1>2. \A r \in h.rooms : r.id \in RoomIds /\ r.members \subseteq Sockets
  BY DEF Hub
<1>3. \A u \in crew(h, s) :
        /\ u \in Sockets /\ hasSession(h, u)
        /\ h.roomOf[u] = h.roomOf[s] /\ h.sessions[u].roomId = h.roomOf[s]
  BY <1>2 DEF crew, RoomsSound, RoomSound
<1>4. \A u \in Sockets :
        h.roomOf[s] # NoRoom /\ h.roomOf[u] = h.roomOf[s] => u \in crew(h, s)
  BY DEF crew, RoomsSound, InRoom
<1>5. h.roomOf[s] # NoRoom =>
        h.sessions[s].roomId = h.roomOf[s] /\ h.roomOf[s] \in RoomIds
  BY <1>3, <1>4, HubFields DEF RoomOrNone
<1>6. h.sessions[s].roomId \in RoomIds => h.roomOf[s] = h.sessions[s].roomId
  BY DEF RoomsSound, InRoom
<1>7. inMatch(h, s) <=> h.sessions[s].roomId \in RoomIds
  BY <1>1, Numbers DEF inMatch
<1> QED BY <1>3, <1>4, <1>5, <1>6, <1>7, Numbers

\* A session that moves keeps its state and its name.
LEMMA Moved ==
    ASSUME NEW e \in Session, NEW room
    PROVE  /\ [e EXCEPT !.roomId = room].state = e.state
           /\ [e EXCEPT !.roomId = room].named = e.named
           /\ [e EXCEPT !.roomId = room].roomId = room
BY DEF Session

\* A match moves its two players and disconnects nobody.
LEMMA MetSessions ==
    ASSUME NEW h \in Hub, NEW k \in Hub, NEW s \in Sockets, NEW t \in Sockets, Met(k, h, s, t)
    PROVE  \A u \in Sockets :
            /\ k.sessions[u].state = h.sessions[u].state
            /\ k.sessions[u].roomId = IF u \in {s, t} THEN k.made ELSE h.sessions[u].roomId
            /\ hasSession(k, u) <=> hasSession(h, u)
            /\ isOpen(k, u) <=> isOpen(h, u)
<1>1. \A u \in Sockets :
        /\ k.sessions[u].state = h.sessions[u].state
        /\ k.sessions[u].roomId = IF u \in {s, t} THEN k.made ELSE h.sessions[u].roomId
  <2> TAKE u \in Sockets
  <2>1. k.sessions[u] = IF u \in {s, t} THEN [h.sessions[u] EXCEPT !.roomId = k.made]
                        ELSE h.sessions[u]
    BY DEF Met
  <2>2. h.sessions[u] \in Session
    BY HubFields
  <2> QED BY <2>1, <2>2, Moved
<1> QED BY <1>1 DEF hasSession, isOpen

\* A room for two players who are in none.
LEMMA MetKeeps ==
    ASSUME NEW h \in Hub, NEW k \in Hub, NEW s \in Sockets, NEW t \in Sockets, Met(k, h, s, t),
           RoomSide(h), s # t, ~sameAccount(s, t), hasSession(h, s), hasSession(h, t),
           h.roomOf[s] = NoRoom, h.roomOf[t] = NoRoom
    PROVE  RoomSide(k)
<1> DEFINE new == [id |-> k.made, members |-> {s, t}]
<1>1. \A u \in Sockets :
        /\ k.sessions[u].state = h.sessions[u].state
        /\ k.sessions[u].roomId = IF u \in {s, t} THEN k.made ELSE h.sessions[u].roomId
        /\ hasSession(k, u) <=> hasSession(h, u)
        /\ isOpen(k, u) <=> isOpen(h, u)
  BY MetSessions
<1>2. \A u \in Sockets : k.roomOf[u] = IF u \in {s, t} THEN k.made ELSE h.roomOf[u]
  BY DEF Met
<1>3. /\ k.made = h.made + 1 /\ h.made \in Nat /\ k.made \in Nat
      /\ k.rooms = h.rooms \cup {new}
  BY HubFields DEF Met
<1>4. new.id = k.made /\ new.members = {s, t}
  OBVIOUS
<1> HIDE DEF new
<1>5. \A r \in h.rooms : r.id \in Nat /\ r.id <= h.made /\ r.id # NoRoom /\ r.members \subseteq Sockets
                         /\ s \notin r.members /\ t \notin r.members
  <2>1. \A r \in h.rooms : r.id \in RoomIds /\ r.members \subseteq Sockets
    BY DEF Hub
  <2>2. \A r \in h.rooms : r.id <= h.made
    BY DEF RoomSide, RoomsSound, RoomSound
  <2>3. \A r \in h.rooms : \A u \in r.members : h.roomOf[u] = r.id
    BY DEF RoomSide, RoomsSound, RoomSound
  <2> QED BY <2>1, <2>2, <2>3, Numbers
<1>6. \A r \in h.rooms : r.id # k.made
  BY <1>3, <1>5
<1>7. \A r \in h.rooms : RoomSound(k, r)
  <2> TAKE r \in h.rooms
  <2>1. RoomSound(h, r)
    BY DEF RoomSide, RoomsSound
  <2>2. r.id <= k.made
    BY <1>3, <1>5
  <2>3. \A q \in k.rooms : q.id = r.id => q = r
    BY <2>1, <1>3, <1>4, <1>6 DEF RoomSound
  <2>4. \A u \in r.members : hasSession(k, u) /\ k.roomOf[u] = r.id /\ k.sessions[u].roomId = r.id
    BY <2>1, <1>1, <1>2, <1>5 DEF RoomSound
  <2> QED BY <2>1, <2>2, <2>3, <2>4 DEF RoomSound
<1>8. RoomSound(k, new)
  <2>1. \A q \in k.rooms : q.id = new.id => q = new
    BY <1>3, <1>4, <1>6
  <2>2. new.id <= k.made
    BY <1>3, <1>4
  <2>3. \A u \in new.members :
            hasSession(k, u) /\ k.roomOf[u] = new.id /\ k.sessions[u].roomId = new.id
    BY <1>1, <1>2, <1>4
  <2>4. \E x, y \in Sockets : new.members = {x, y} /\ x # y /\ ~sameAccount(x, y)
    BY <1>4
  <2> QED BY <2>1, <2>2, <2>3, <2>4 DEF RoomSound
<1>9. \A u \in Sockets : InRoom(k, u)
  <2> TAKE u \in Sockets
  <2>1. CASE u \in {s, t}
    BY <2>1, <1>1, <1>2, <1>3, <1>4 DEF InRoom
  <2>2. CASE u \notin {s, t}
    <3>1. InRoom(h, u)
      BY DEF RoomSide, RoomsSound
    <3> QED BY <3>1, <2>2, <1>1, <1>2, <1>3 DEF InRoom
  <2> QED BY <2>1, <2>2
<1>10. RoomsSound(k)
  BY <1>3, <1>7, <1>8, <1>9 DEF RoomsSound
<1>11. SubscribersPresent(k)
  <2>1. k.subscribers \subseteq h.subscribers /\ h.subscribers \subseteq Sockets
    BY DEF Met, Hub
  <2> QED BY <2>1, <1>1 DEF SubscribersPresent, RoomSide
<1>12. RoomsTold(k)
  <2> SUFFICES ASSUME NEW u \in Sockets, isOpen(k, u) PROVE k.told[u].room = k.roomOf[u]
    BY DEF RoomsTold
  <2>1. isOpen(h, u)
    BY <1>1
  <2> QED BY <2>1, <1>2 DEF Met, RoomSide, RoomsTold
<1>13. Unborn(k)
  <2> SUFFICES ASSUME NEW u \in Sockets, k.sessions[u].state = "none"
               PROVE  k.sessions[u] = newSession /\ k.told[u].room = NoRoom
    BY DEF Unborn
  <2>1. u \notin {s, t}
    BY <1>1 DEF hasSession
  <2> QED BY <2>1, <1>1 DEF Met, RoomSide, Unborn
<1> QED BY <1>10, <1>11, <1>12, <1>13 DEF RoomSide

\* The departure of s moves nobody but who was in its room, and disconnects nobody else.
LEMMA DepartedSessions ==
    ASSUME NEW h \in Hub, NEW k \in Hub, NEW s \in Sockets, Departed(k, h, s)
    PROVE  \A u \in Sockets \ {s} :
            /\ k.sessions[u].state = h.sessions[u].state
            /\ hasSession(k, u) <=> hasSession(h, u)
            /\ isOpen(k, u) <=> isOpen(h, u)
            /\ k.sessions[u].roomId = IF inMatch(h, s) /\ u \in crew(h, s) THEN NoRoom
                                      ELSE h.sessions[u].roomId
<1>1. \A u \in Sockets \ {s} :
        /\ k.sessions[u].state = h.sessions[u].state
        /\ k.sessions[u].roomId = IF inMatch(h, s) /\ u \in crew(h, s) THEN NoRoom
                                  ELSE h.sessions[u].roomId
  <2> TAKE u \in Sockets \ {s}
  <2>1. k.sessions[u] = IF inMatch(h, s) /\ u \in crew(h, s)
                        THEN [h.sessions[u] EXCEPT !.roomId = NoRoom] ELSE h.sessions[u]
    BY DEF Departed
  <2>2. h.sessions[u] \in Session
    BY HubFields
  <2> QED BY <2>1, <2>2, Moved
<1> QED BY <1>1 DEF hasSession, isOpen

\* A room ends with the departure of one of its members, and no other does.
LEMMA DepartedKeeps ==
    ASSUME NEW h \in Hub, NEW k \in Hub, NEW s \in Sockets, Departed(k, h, s), RoomSide(h),
           k.sessions[s].state # "none", isOpen(k, s) => k.told[s].room = NoRoom
    PROVE  RoomSide(k)
<1>1. \A u \in Sockets \ {s} :
        /\ k.sessions[u].state = h.sessions[u].state
        /\ hasSession(k, u) <=> hasSession(h, u)
        /\ isOpen(k, u) <=> isOpen(h, u)
        /\ k.sessions[u].roomId = IF inMatch(h, s) /\ u \in crew(h, s) THEN NoRoom
                                  ELSE h.sessions[u].roomId
  BY DepartedSessions
<1>2. /\ k.made = h.made /\ k.sessions[s].roomId = NoRoom
      /\ k.rooms = IF inMatch(h, s) THEN {r \in h.rooms : r.id # h.roomOf[s]} ELSE h.rooms
      /\ \A u \in Sockets :
            k.roomOf[u] = IF inMatch(h, s) /\ u \in crew(h, s) THEN NoRoom ELSE h.roomOf[u]
  BY DEF Departed
<1>3. /\ inMatch(h, s) <=> h.roomOf[s] # NoRoom
      /\ inMatch(h, s) => h.roomOf[s] = h.sessions[s].roomId /\ s \in crew(h, s)
      /\ \A u \in crew(h, s) :
            /\ u \in Sockets /\ hasSession(h, u)
            /\ h.roomOf[u] = h.roomOf[s] /\ h.sessions[u].roomId = h.roomOf[s]
      /\ \A u \in Sockets :
            h.roomOf[s] # NoRoom /\ h.roomOf[u] = h.roomOf[s] => u \in crew(h, s)
  BY Crewed DEF RoomSide
<1>4. k.roomOf[s] = NoRoom
  BY <1>2, <1>3
<1>5. \A r \in k.rooms : r \in h.rooms /\ RoomSound(h, r) /\ r.members \subseteq Sockets
                         /\ r.id \in RoomIds /\ \A u \in r.members : ~(inMatch(h, s) /\ u \in crew(h, s))
  <2> TAKE r \in k.rooms
  <2>1. r \in h.rooms /\ (inMatch(h, s) => r.id # h.roomOf[s])
    BY <1>2
  <2>2. RoomSound(h, r)
    BY <2>1 DEF RoomSide, RoomsSound
  <2>3. r.members \subseteq Sockets /\ r.id \in RoomIds
    BY <2>1 DEF Hub
  <2> QED BY <2>1, <2>2, <2>3, <1>3 DEF RoomSound
<1>6. \A r \in k.rooms : s \notin r.members
  <2> TAKE r \in k.rooms
  <2>1. CASE inMatch(h, s)
    BY <2>1, <1>3, <1>5
  <2>2. CASE ~inMatch(h, s)
    BY <2>2, <1>3, <1>5, Numbers DEF RoomSound
  <2> QED BY <2>1, <2>2
<1>7. \A r \in k.rooms : RoomSound(k, r)
  <2> TAKE r \in k.rooms
  <2>1. \A u \in r.members : hasSession(k, u) /\ k.roomOf[u] = r.id /\ k.sessions[u].roomId = r.id
    <3> TAKE u \in r.members
    <3>1. u \in Sockets \ {s} /\ ~(inMatch(h, s) /\ u \in crew(h, s))
      BY <1>5, <1>6
    <3>2. hasSession(h, u) /\ h.roomOf[u] = r.id /\ h.sessions[u].roomId = r.id
      BY <1>5 DEF RoomSound
    <3> QED BY <3>1, <3>2, <1>1, <1>2
  <2> QED BY <2>1, <1>2, <1>5 DEF RoomSound
<1>8. \A u \in Sockets : InRoom(k, u)
  <2> TAKE u \in Sockets
  <2>1. CASE u = s \/ (inMatch(h, s) /\ u \in crew(h, s))
    BY <2>1, <1>1, <1>2, <1>4, Numbers DEF InRoom
  <2>2. CASE u # s /\ ~(inMatch(h, s) /\ u \in crew(h, s))
    <3>1. InRoom(h, u)
      BY DEF RoomSide, RoomsSound
    <3>2. k.roomOf[u] = h.roomOf[u] /\ k.sessions[u].roomId = h.sessions[u].roomId
      BY <2>2, <1>1, <1>2
    <3>3. \A r \in h.rooms : u \in r.members /\ r.id = h.roomOf[u] /\ h.roomOf[u] # NoRoom => r \in k.rooms
      BY <2>2, <1>2, <1>3
    <3> QED BY <3>1, <3>2, <3>3 DEF InRoom
  <2> QED BY <2>1, <2>2
<1>9. SubscribersPresent(k)
  <2>1. k.subscribers = h.subscribers \ {s} /\ h.subscribers \subseteq Sockets
    BY DEF Departed, Hub
  <2> QED BY <2>1, <1>1 DEF SubscribersPresent, RoomSide
<1>10. RoomsTold(k)
  <2> SUFFICES ASSUME NEW u \in Sockets, isOpen(k, u) PROVE k.told[u].room = k.roomOf[u]
    BY DEF RoomsTold
  <2>1. CASE u = s
    BY <2>1, <1>4
  <2>2. CASE u # s
    <3>1. isOpen(h, u)
      BY <2>2, <1>1
    <3> QED BY <3>1, <2>2, <1>2 DEF Departed, RoomSide, RoomsTold
  <2> QED BY <2>1, <2>2
<1>11. Unborn(k)
  <2> SUFFICES ASSUME NEW u \in Sockets, k.sessions[u].state = "none"
               PROVE  k.sessions[u] = newSession /\ k.told[u].room = NoRoom
    BY DEF Unborn
  <2>1. u # s /\ h.sessions[u].state = "none"
    BY <1>1
  <2>2. ~(inMatch(h, s) /\ u \in crew(h, s))
    BY <2>1, <1>3 DEF hasSession
  <2>3. k.sessions[u] = h.sessions[u] /\ k.told[u].room = h.told[u].room
    BY <2>1, <2>2 DEF Departed
  <2> QED BY <2>1, <2>3 DEF RoomSide, Unborn
<1> QED BY <1>2, <1>7, <1>8, <1>9, <1>10, <1>11 DEF RoomSide, RoomsSound

-----------------------------------------------------------------------------

(* The queue, the list, and what is known of it.                             *)

WaitSide(h) == QueueOf(h) /\ GamesOf(h) /\ ListsFresh(h)

\* The invariant in two halves: the rooms, and whoever waits for one.
LEMMA Sides ==
    ASSUME NEW h
    PROVE  LobbyInv(h) <=> h \in Hub /\ RoomSide(h) /\ WaitSide(h)
BY DEF LobbyInv, RoomSide, WaitSide

\* Every host hosts one game.
LEMMA OneGame ==
    ASSUME NEW h \in Hub, GamesOf(h)
    PROVE  /\ \A i \in DOMAIN h.games :
                /\ h.games[i].host \in Sockets /\ h.games[i].code \in Codes
                /\ h.hosting[h.games[i].host] = h.games[i].code
                /\ h.hosting[h.games[i].host] # NoCode
           /\ \A s \in Sockets : h.hosting[s] # NoCode =>
                \E i \in DOMAIN h.games : h.games[i].host = s /\ h.games[i].code = h.hosting[s]
<1>1. \A i \in DOMAIN h.games : h.games[i] \in Game
  BY DEF Hub
<1> QED BY <1>1 DEF GamesOf, Game

\* The list without the game of s: what is left is hosted as before.
LEMMA GamesWithout ==
    ASSUME NEW h \in Hub, GamesOf(h), NEW s \in Sockets, h.hosting[s] # NoCode,
           NEW games, games = without(h.games, h.hosting[s])
    PROVE  /\ games \in Seq(Game) /\ UniqueCodes(games)
           /\ \A i \in DOMAIN games :
                games[i].host # s /\ \E j \in DOMAIN h.games : games[i] = h.games[j]
           /\ \A j \in DOMAIN h.games :
                h.games[j].host # s => \E i \in DOMAIN games : games[i] = h.games[j]
<1>1. h.games \in Seq(Game) /\ UniqueCodes(h.games)
  BY DEF Hub, GamesOf
<1>2. /\ games \in Seq(Game) /\ UniqueCodes(games)
      /\ \A i \in DOMAIN games :
            games[i].code # h.hosting[s] /\ \E j \in DOMAIN h.games : games[i] = h.games[j]
      /\ \A j \in DOMAIN h.games :
            h.games[j].code # h.hosting[s] => \E i \in DOMAIN games : games[i] = h.games[j]
  BY <1>1, GameCancelled
<1>3. ASSUME NEW i \in DOMAIN games PROVE games[i].host # s
  <2>1. PICK j \in DOMAIN h.games : games[i] = h.games[j]
    BY <1>2
  <2> QED BY <2>1, <1>2, OneGame
<1>4. ASSUME NEW j \in DOMAIN h.games, h.games[j].host # s
      PROVE  h.games[j].code # h.hosting[s]
  <2>1. PICK i \in DOMAIN h.games : h.games[i].host = s /\ h.games[i].code = h.hosting[s]
    BY OneGame
  <2> QED BY <1>4, <2>1, <1>1 DEF UniqueCodes
<1> QED BY <1>2, <1>3, <1>4

\* The list without the game of s, if it hosts one.
LEMMA WithoutGame ==
    ASSUME NEW h \in Hub, NEW k \in Hub, NEW s \in Sockets, GamesOf(h),
           k.games = IF h.hosting[s] = NoCode THEN h.games ELSE without(h.games, h.hosting[s]),
           k.hosting = [h.hosting EXCEPT ![s] = NoCode],
           \A u \in Sockets \ {s} :
                inLobbyOf(h, u) /\ h.hosting[u] # NoCode => inLobbyOf(k, u)
    PROVE  GamesOf(k)
<1>1. k.hosting[s] = NoCode /\ \A u \in Sockets \ {s} : k.hosting[u] = h.hosting[u]
  BY DEF Hub
<1>2. /\ k.games \in Seq(Game) /\ UniqueCodes(k.games)
      /\ \A i \in DOMAIN k.games :
            k.games[i].host # s /\ \E j \in DOMAIN h.games : k.games[i] = h.games[j]
      /\ \A j \in DOMAIN h.games :
            h.games[j].host # s => \E i \in DOMAIN k.games : k.games[i] = h.games[j]
  <2>1. CASE h.hosting[s] = NoCode
    <3>1. k.games = h.games
      BY <2>1
    <3>2. \A i \in DOMAIN h.games : h.games[i].host # s
      BY <2>1, OneGame
    <3>3. h.games \in Seq(Game) /\ UniqueCodes(h.games)
      BY HubEntries DEF GamesOf
    <3> QED BY <3>1, <3>2, <3>3
  <2>2. CASE h.hosting[s] # NoCode
    BY <2>2, GamesWithout
  <2> QED BY <2>1, <2>2
<1>3. ASSUME NEW i \in DOMAIN k.games
      PROVE  inLobbyOf(k, k.games[i].host) /\ k.hosting[k.games[i].host] = k.games[i].code
  <2>1. PICK j \in DOMAIN h.games : k.games[i] = h.games[j]
    BY <1>2
  <2>2. k.games[i].host \in Sockets \ {s} /\ h.hosting[k.games[i].host] # NoCode
    <3>1. h.games[j].host \in Sockets /\ h.hosting[h.games[j].host] # NoCode
      BY OneGame
    <3> QED BY <3>1, <2>1, <1>2
  <2>3. inLobbyOf(h, k.games[i].host) /\ h.hosting[k.games[i].host] = k.games[i].code
    BY <2>1 DEF GamesOf
  <2> QED BY <2>2, <2>3, <1>1
<1>4. ASSUME NEW u \in Sockets, k.hosting[u] # NoCode
      PROVE  \E i \in DOMAIN k.games : k.games[i].host = u
  <2>1. u # s /\ h.hosting[u] # NoCode
    BY <1>1, <1>4
  <2>2. PICK j \in DOMAIN h.games : h.games[j].host = u
    BY <2>1 DEF GamesOf
  <2> QED BY <2>1, <2>2, <1>2
<1> QED BY <1>2, <1>3, <1>4 DEF GamesOf

\* Who departs leaves the queue and the list, and its subscribers know.
LEMMA DepartedWaiters ==
    ASSUME NEW h \in Hub, NEW k \in Hub, NEW s \in Sockets, Departed(k, h, s), LobbyInv(h)
    PROVE  WaitSide(k)
<1>1. \A u \in Sockets \ {s} :
        /\ hasSession(k, u) <=> hasSession(h, u)
        /\ isOpen(k, u) <=> isOpen(h, u)
        /\ k.sessions[u].roomId = IF inMatch(h, s) /\ u \in crew(h, s) THEN NoRoom
                                  ELSE h.sessions[u].roomId
  BY DepartedSessions
<1>2. \A u \in Sockets \ {s} : inLobbyOf(h, u) => inLobbyOf(k, u)
  <2> SUFFICES ASSUME NEW u \in Sockets \ {s}, inLobbyOf(h, u) PROVE inLobbyOf(k, u)
    OBVIOUS
  <2>1. ~(inMatch(h, s) /\ u \in crew(h, s))
    <3>1. RoomsSound(h)
      BY DEF LobbyInv
    <3>2. \A x \in crew(h, s) : h.sessions[x].roomId = h.roomOf[s]
      BY <3>1, Crewed
    <3>3. inMatch(h, s) => h.roomOf[s] # LOBBY_ROOM
      BY <3>1, Crewed, HubFields, Numbers DEF RoomOrNone
    <3> QED BY <3>2, <3>3 DEF inLobbyOf
  <2> QED BY <2>1, <1>1 DEF inLobbyOf
<1>3. /\ k.queue = dequeued(h.queue, s)
      /\ k.games = IF h.hosting[s] = NoCode THEN h.games ELSE without(h.games, h.hosting[s])
      /\ k.subscribers = h.subscribers \ {s} /\ h.subscribers \subseteq Sockets
      /\ k.hosting[s] = NoCode /\ \A u \in Sockets \ {s} : k.hosting[u] = h.hosting[u]
  BY DEF Departed, Hub
<1>4. QueueOf(h) /\ GamesOf(h) /\ ListsFresh(h)
  BY DEF LobbyInv
<1>5. QueueOf(k)
  <2>1. h.queue \in Seq(Entry) /\ Distinct(h.queue) /\ Unmatched(h.queue)
    BY <1>4 DEF QueueOf, Hub
  <2>2. /\ Distinct(k.queue) /\ Unmatched(k.queue)
        /\ \A i \in DOMAIN k.queue :
            k.queue[i].socket # s /\ \E j \in DOMAIN h.queue : k.queue[i] = h.queue[j]
    BY <2>1, <1>3, QueueCancelled
  <2>3. ASSUME NEW i \in DOMAIN k.queue PROVE Waits(k, k.queue[i].socket)
    <3>1. PICK j \in DOMAIN h.queue : k.queue[i] = h.queue[j]
      BY <2>2
    <3>2. Waits(h, k.queue[i].socket) /\ k.queue[i].socket \in Sockets \ {s}
      <4>1. h.queue[j] \in Entry
        BY <2>1
      <4> QED BY <3>1, <4>1, <1>4, <2>2 DEF QueueOf, Entry
    <3> QED BY <3>2, <1>2, <1>3 DEF Waits
  <2> QED BY <2>2, <2>3 DEF QueueOf
<1>7. GamesOf(k)
  BY <1>2, <1>4, WithoutGame DEF Departed
<1>8. ListsFresh(k)
  <2> SUFFICES ASSUME NEW u \in k.subscribers, isOpen(k, u)
               PROVE  k.told[u].games = listPublicGames(k.games)
    BY DEF ListsFresh
  <2>1. u \in h.subscribers \ {s} /\ isOpen(h, u)
    BY <1>1, <1>3
  <2> QED BY <2>1, <1>3, <1>4 DEF Departed, ListsFresh
<1> QED BY <1>5, <1>7, <1>8 DEF WaitSide

-----------------------------------------------------------------------------

(* The packets and the events of connections: each keeps the invariant.      *)

\* Only the session of s differs: its name, a place in the lobby, or that it is closing.
Adjusted(k, h, s) ==
    /\ k.subscribers = h.subscribers /\ SameWaiters(k, h) /\ k.told = h.told
    /\ k.rooms = h.rooms /\ k.roomOf = h.roomOf /\ k.made = h.made
    /\ \A u \in Sockets \ {s} : k.sessions[u] = h.sessions[u]
    /\ hasSession(h, s) /\ hasSession(k, s) /\ (isOpen(k, s) => isOpen(h, s))
    /\ \/ k.sessions[s].roomId = h.sessions[s].roomId
       \/ h.sessions[s].roomId = NoRoom /\ k.sessions[s].roomId = LOBBY_ROOM

\* A socket that takes a name, enters the lobby or is refused disturbs nothing.
LEMMA AdjustedKeeps ==
    ASSUME NEW h \in Hub, NEW k \in Hub, NEW s \in Sockets, Adjusted(k, h, s), LobbyInv(h)
    PROVE  LobbyInv(k)
<1>1. \A u \in Sockets : /\ hasSession(k, u) <=> hasSession(h, u)
                         /\ isOpen(k, u) => isOpen(h, u)
                         /\ k.sessions[u].state = "none" => k.sessions[u] = h.sessions[u]
  BY DEF Adjusted, hasSession, isOpen
<1>2. \A u \in Sockets : k.sessions[u].roomId = h.sessions[u].roomId
                         \/ (h.sessions[u].roomId = NoRoom /\ k.sessions[u].roomId = LOBBY_ROOM)
  BY DEF Adjusted
<1>3. \A u \in Sockets : inLobbyOf(h, u) => inLobbyOf(k, u)
  BY <1>1, <1>2, Numbers DEF inLobbyOf
<1>4. RoomsSound(k)
  <2>1. \A r \in h.rooms : RoomSound(k, r)
    <3> TAKE r \in h.rooms
    <3>1. RoomSound(h, r) /\ r.members \subseteq Sockets /\ r.id # NoRoom
      BY Numbers DEF LobbyInv, RoomsSound, Hub
    <3> QED BY <3>1, <1>1, <1>2 DEF RoomSound, Adjusted
  <2>2. \A u \in Sockets : InRoom(k, u)
    <3> TAKE u \in Sockets
    <3>1. InRoom(h, u)
      BY DEF LobbyInv, RoomsSound
    <3> QED BY <3>1, <1>2, Numbers DEF InRoom, Adjusted
  <2> QED BY <2>1, <2>2 DEF RoomsSound, Adjusted
<1>5. RoomSide(k)
  <2>1. h.subscribers \subseteq Sockets
    BY DEF Hub
  <2> QED BY <2>1, <1>1, <1>4
          DEF LobbyInv, RoomSide, SubscribersPresent, RoomsTold, Unborn, Adjusted
<1>6. QueueOf(k)
  <2>1. \A i \in DOMAIN h.queue : h.queue[i].socket \in Sockets
    BY HubEntries
  <2> QED BY <2>1, <1>3 DEF LobbyInv, QueueOf, Waits, Adjusted, SameWaiters
<1>7. GamesOf(k)
  <2>1. \A i \in DOMAIN h.games : h.games[i].host \in Sockets
    BY OneGame DEF LobbyInv
  <2> QED BY <2>1, <1>3 DEF LobbyInv, GamesOf, Adjusted, SameWaiters
<1>8. ListsFresh(k)
  <2>1. h.subscribers \subseteq Sockets
    BY DEF Hub
  <2> QED BY <2>1, <1>1 DEF LobbyInv, ListsFresh, Adjusted, SameWaiters
<1> QED BY <1>5, <1>6, <1>7, <1>8, Sides DEF WaitSide

\* A new value of one session is such a change, if it neither opens nor moves it elsewhere.
LEMMA AdjustedSession ==
    ASSUME NEW h \in Hub, NEW s \in Sockets, NEW session \in Session, hasSession(h, s),
           session.state \in {"open", "closing"}, session.state = "open" => isOpen(h, s),
           \/ session.roomId = h.sessions[s].roomId
           \/ h.sessions[s].roomId = NoRoom /\ session.roomId = LOBBY_ROOM,
           NEW k, k = [h EXCEPT !.sessions = [h.sessions EXCEPT ![s] = session]]
    PROVE  k \in Hub /\ Adjusted(k, h, s)
<1> DEFINE sessions == [h.sessions EXCEPT ![s] = session]
<1>1. /\ sessions \in [Sockets -> Session] /\ k = [h EXCEPT !.sessions = sessions]
      /\ sessions[s] = session /\ \A u \in Sockets \ {s} : sessions[u] = h.sessions[u]
  BY DEF Hub
<1> HIDE DEF sessions
<1>2. /\ k.sessions = sessions /\ k.subscribers = h.subscribers /\ SameWaiters(k, h)
      /\ k.told = h.told /\ k.rooms = h.rooms /\ k.roomOf = h.roomOf /\ k.made = h.made
  BY <1>1 DEF Hub, SameWaiters
<1>3. k \in Hub
  BY <1>1 DEF Hub
<1> QED BY <1>1, <1>2, <1>3 DEF Adjusted, hasSession, isOpen

\* refuse closes the connection, and does nothing else.
LEMMA Refused ==
    ASSUME NEW h \in Hub, NEW s \in Sockets, hasSession(h, s), NEW k, k = refuse(h, s)
    PROVE  /\ k \in Hub /\ Adjusted(k, h, s)
           /\ k.sessions[s] = [h.sessions[s] EXCEPT !.state = "closing"]
<1> DEFINE session == [h.sessions[s] EXCEPT !.state = "closing"]
<1>1. session \in Session /\ session.state = "closing" /\ session.roomId = h.sessions[s].roomId
  BY HubFields DEF Session
<1>2. k = [h EXCEPT !.sessions = [h.sessions EXCEPT ![s] = session]]
  BY DEF refuse, Hub
<1> HIDE DEF session
<1>3. k \in Hub /\ Adjusted(k, h, s)
  BY <1>1, <1>2, AdjustedSession
<1>4. k.sessions[s] = session
  BY <1>2 DEF Hub
<1> QED BY <1>3, <1>4 DEF session

\* UserInfo names the player, and does nothing else.
LEMMA UserInfoMade ==
    ASSUME hub \in Hub, NEW s \in Sockets, UserInfo(s)
    PROVE  /\ hub' \in Hub /\ Adjusted(hub', hub, s)
           /\ hub'.sessions[s] = [hub.sessions[s] EXCEPT !.named = TRUE]
<1> DEFINE session == [hub.sessions[s] EXCEPT !.named = TRUE]
<1>1. /\ session \in Session /\ session.state = hub.sessions[s].state
      /\ session.roomId = hub.sessions[s].roomId
  <2>1. hub.sessions[s] \in Session
    BY HubFields
  <2> QED BY <2>1 DEF Session, RoomOrNone
<1>2. hub' = [hub EXCEPT !.sessions = [hub.sessions EXCEPT ![s] = session]]
  BY DEF UserInfo, Hub
<1> HIDE DEF session
<1>3. hasSession(hub, s)
  BY DEF UserInfo, arrives
<1>4. hub' \in Hub /\ Adjusted(hub', hub, s)
  BY <1>1, <1>2, <1>3, AdjustedSession DEF hasSession, isOpen
<1>5. hub'.sessions[s] = session
  BY <1>2 DEF Hub
<1> QED BY <1>4, <1>5 DEF session

\* JoinLobby moves the player to the lobby, and does nothing else.
LEMMA JoinLobbyMade ==
    ASSUME hub \in Hub, NEW s \in Sockets, JoinLobby(s)
    PROVE  /\ hub' \in Hub /\ Adjusted(hub', hub, s)
           /\ hub'.sessions[s] = [hub.sessions[s] EXCEPT !.roomId = LOBBY_ROOM]
<1> DEFINE session == [hub.sessions[s] EXCEPT !.roomId = LOBBY_ROOM]
<1>1. /\ session \in Session /\ session.state = hub.sessions[s].state
      /\ session.roomId = LOBBY_ROOM
  <2>1. hub.sessions[s] \in Session
    BY HubFields
  <2> QED BY <2>1 DEF Session, RoomOrNone
<1>2. hub' = [hub EXCEPT !.sessions = [hub.sessions EXCEPT ![s] = session]]
  BY DEF JoinLobby, Hub
<1> HIDE DEF session
<1>3. hasSession(hub, s) /\ hub.sessions[s].roomId = NoRoom
  BY DEF JoinLobby, arrives
<1>4. hub' \in Hub /\ Adjusted(hub', hub, s)
  BY <1>1, <1>2, <1>3, AdjustedSession DEF hasSession, isOpen
<1>5. hub'.sessions[s] = session
  BY <1>2 DEF Hub
<1> QED BY <1>4, <1>5 DEF session

\* A socket opens.
LEMMA ConnectKeeps ==
    ASSUME LobbyInv(hub), NEW s \in Sockets, Connect(s)
    PROVE  LobbyInv(hub')
<1> DEFINE session == [newSession EXCEPT !.state = "open", !.named = accountOf[s] # Guest]
           sessions == [hub.sessions EXCEPT ![s] = session]
<1>1. /\ session \in Session /\ session.state = "open" /\ session.roomId = NoRoom
      /\ hub \in Hub
  BY DEF newSession, Session, RoomOrNone, LobbyInv
<1>2. hub' = [hub EXCEPT !.sessions = sessions]
  BY <1>1 DEF Connect, Hub
<1>3. /\ sessions \in [Sockets -> Session] /\ sessions[s] = session
      /\ \A u \in Sockets \ {s} : sessions[u] = hub.sessions[u]
  BY <1>1 DEF Hub
<1> HIDE DEF session, sessions
<1>4. /\ hub'.subscribers = hub.subscribers /\ SameWaiters(hub', hub) /\ hub'.told = hub.told
      /\ hub'.rooms = hub.rooms /\ hub'.roomOf = hub.roomOf /\ hub'.made = hub.made
      /\ hub'.sessions = sessions
  BY <1>1, <1>2 DEF Hub, SameWaiters
<1>5. hub' \in Hub
  BY <1>1, <1>2, <1>3 DEF Hub
<1>6. ~hasSession(hub, s) /\ hub.told[s].room = NoRoom
  BY DEF Connect, LobbyInv, Unborn, hasSession
<1>7. hub.roomOf[s] = NoRoom
  BY <1>1, <1>6, Crewed DEF LobbyInv
<1>8. \A u \in Sockets \ {s} : /\ hasSession(hub', u) <=> hasSession(hub, u)
                               /\ isOpen(hub', u) <=> isOpen(hub, u)
                               /\ inLobbyOf(hub', u) <=> inLobbyOf(hub, u)
                               /\ hub'.sessions[u] = hub.sessions[u]
  BY <1>3, <1>4 DEF hasSession, isOpen, inLobbyOf
<1>9. hasSession(hub', s) /\ hub'.sessions[s].roomId = NoRoom /\ hub'.sessions[s].state = "open"
  BY <1>1, <1>3, <1>4 DEF hasSession
<1>10. RoomsSound(hub')
  <2>1. \A r \in hub.rooms : RoomSound(hub', r)
    <3> TAKE r \in hub.rooms
    <3>1. RoomSound(hub, r) /\ r.members \subseteq Sockets
      BY <1>1 DEF LobbyInv, RoomsSound, Hub
    <3>2. s \notin r.members
      BY <3>1, <1>6 DEF RoomSound
    <3> QED BY <3>1, <3>2, <1>4, <1>8 DEF RoomSound
  <2>2. \A u \in Sockets : InRoom(hub', u)
    <3> TAKE u \in Sockets
    <3>1. InRoom(hub, u)
      BY DEF LobbyInv, RoomsSound
    <3> QED BY <3>1, <1>4, <1>7, <1>8, <1>9, Numbers DEF InRoom
  <2> QED BY <2>1, <2>2, <1>4 DEF RoomsSound
<1>11. s \notin hub.subscribers /\ hub.subscribers \subseteq Sockets
  BY <1>1, <1>6 DEF LobbyInv, SubscribersPresent, Hub
<1>12. RoomSide(hub')
  BY <1>4, <1>6, <1>7, <1>8, <1>9, <1>10, <1>11
     DEF LobbyInv, RoomSide, SubscribersPresent, RoomsTold, Unborn
<1>13. QueueOf(hub')
  <2>1. \A i \in DOMAIN hub.queue : hub.queue[i].socket \in Sockets /\ Waits(hub, hub.queue[i].socket)
    BY <1>1, HubEntries DEF LobbyInv, QueueOf
  <2>2. \A i \in DOMAIN hub.queue : hub.queue[i].socket # s
    BY <2>1, <1>6 DEF Waits, inLobbyOf
  <2> QED BY <2>1, <2>2, <1>4, <1>8 DEF LobbyInv, QueueOf, Waits, SameWaiters
<1>14. GamesOf(hub')
  <2>1. \A i \in DOMAIN hub.games : hub.games[i].host \in Sockets
    BY <1>1, OneGame DEF LobbyInv
  <2>2. \A i \in DOMAIN hub.games : hub.games[i].host # s
    BY <1>6 DEF LobbyInv, GamesOf, inLobbyOf
  <2> QED BY <2>1, <2>2, <1>4, <1>8 DEF LobbyInv, GamesOf, SameWaiters
<1>15. ListsFresh(hub')
  BY <1>4, <1>8, <1>11 DEF LobbyInv, ListsFresh, SameWaiters
<1> QED BY <1>5, <1>12, <1>13, <1>14, <1>15, Sides DEF WaitSide

\* A player leaves its room, or the lobby, and stays connected.
LEMMA LeaveRoomMade ==
    ASSUME LobbyInv(hub), NEW s \in Sockets, LeaveRoom(s)
    PROVE  /\ hub' \in Hub /\ Departed(hub', hub, s)
           /\ hub'.sessions[s] = [hub.sessions[s] EXCEPT !.roomId = NoRoom]
           /\ isOpen(hub', s) => hub'.told[s].room = NoRoom
<1> DEFINE d == detachFromRoom(hub, s)
           news == [d.told[s] EXCEPT !.room = NoRoom]
           told == [d.told EXCEPT ![s] = news]
<1>1. hub \in Hub /\ Distinct(hub.queue) /\ UniqueCodes(hub.games) /\ RoomsSound(hub)
  BY DEF LobbyInv, QueueOf, GamesOf
<1>2. \A u \in crew(hub, s) \ {s} : hasSession(hub, u)
  BY <1>1, Crewed
<1>3. /\ d \in Hub /\ Departed(d, hub, s)
      /\ d.sessions[s] = [hub.sessions[s] EXCEPT !.roomId = NoRoom]
  BY <1>1, <1>2, Detached
<1>4. hub' = sendRoom(d, s, NoRoom)
  BY DEF LeaveRoom
<1> HIDE DEF d
<1>5. CASE ~isOpen(d, s)
  BY <1>3, <1>4, <1>5 DEF sendRoom
<1>6. CASE isOpen(d, s)
  <2>1. hub' = [d EXCEPT !.told = told]
    BY <1>3, <1>4, <1>6 DEF sendRoom, Hub
  <2>2. news \in Told /\ news.room = NoRoom
    BY <1>3, HubFields DEF Told, RoomOrNone
  <2> HIDE DEF news
  <2>3. told \in [Sockets -> Told]
    BY <1>3, <2>2, Retold
  <2>4. told[s] = news /\ \A u \in Sockets \ {s} : told[u] = d.told[u]
    BY <1>3 DEF Hub
  <2> HIDE DEF told
  <2>5. hub' \in Hub
    BY <1>3, <2>1, <2>3, HubTold DEF Hub
  <2>6. /\ hub'.told = told
        /\ hub'.sessions = d.sessions /\ hub'.subscribers = d.subscribers /\ SameWaiters(hub', d)
        /\ hub'.rooms = d.rooms /\ hub'.roomOf = d.roomOf /\ hub'.made = d.made
    BY <1>3, <2>1 DEF Hub, SameWaiters
  <2>7. Departed(hub', hub, s)
    <3>1. hub.subscribers \subseteq Sockets
      BY <1>1 DEF Hub
    <3>2. /\ hub'.made = hub.made
          /\ hub'.rooms = IF inMatch(hub, s) THEN {r \in hub.rooms : r.id # hub.roomOf[s]}
                          ELSE hub.rooms
          /\ hub'.subscribers = hub.subscribers \ {s}
          /\ hub'.queue = dequeued(hub.queue, s)
          /\ hub'.hosting = [hub.hosting EXCEPT ![s] = NoCode]
          /\ hub'.games = IF hub.hosting[s] = NoCode THEN hub.games
                          ELSE without(hub.games, hub.hosting[s])
          /\ \A u \in Sockets :
                hub'.roomOf[u] = IF inMatch(hub, s) /\ u \in crew(hub, s) THEN NoRoom
                                 ELSE hub.roomOf[u]
          /\ hub'.sessions[s].roomId = NoRoom
      BY <1>3, <2>6 DEF Departed, SameWaiters
    <3>3. \A u \in Sockets \ {s} :
            IF inMatch(hub, s) /\ u \in crew(hub, s)
            THEN /\ hub'.sessions[u] = [hub.sessions[u] EXCEPT !.roomId = NoRoom]
                 /\ isOpen(hub, u) => hub'.told[u].room = NoRoom
                 /\ ~isOpen(hub, u) => hub'.told[u].room = hub.told[u].room
            ELSE hub'.sessions[u] = hub.sessions[u] /\ hub'.told[u].room = hub.told[u].room
      BY <1>3, <2>4, <2>6 DEF Departed
    <3>4. \A u \in hub.subscribers \ {s} :
            isOpen(hub, u) => hub'.told[u].games =
                IF hub.hosting[s] = NoCode THEN hub.told[u].games ELSE listPublicGames(hub'.games)
      BY <3>1, <1>3, <2>4, <2>6 DEF Departed, SameWaiters
    <3> QED BY <3>2, <3>3, <3>4 DEF Departed
  <2> QED BY <1>3, <2>2, <2>4, <2>5, <2>6, <2>7
<1> QED BY <1>5, <1>6

\* A connection closes.
LEMMA RemoveMade ==
    ASSUME LobbyInv(hub), NEW s \in Sockets, hub' = remove(hub, s)
    PROVE  /\ hub' \in Hub /\ Departed(hub', hub, s)
           /\ hub'.sessions[s] = [newSession EXCEPT !.state = "gone"]
<1> DEFINE deleted == [hub.sessions EXCEPT ![s] = [hub.sessions[s] EXCEPT !.state = "gone"]]
           g == [hub EXCEPT !.sessions = deleted]
           d == detachFromRoom(g, s)
           gone == [newSession EXCEPT !.state = "gone"]
           told == [d.told EXCEPT ![s] = newTold]
           sessions == [d.sessions EXCEPT ![s] = gone]
<1>1. hub \in Hub /\ Distinct(hub.queue) /\ UniqueCodes(hub.games) /\ RoomsSound(hub)
  BY DEF LobbyInv, QueueOf, GamesOf
<1>2. /\ deleted \in [Sockets -> Session] /\ deleted[s].roomId = hub.sessions[s].roomId
      /\ \A u \in Sockets \ {s} : deleted[u] = hub.sessions[u]
  <2>1. [hub.sessions[s] EXCEPT !.state = "gone"] \in Session
        /\ [hub.sessions[s] EXCEPT !.state = "gone"].roomId = hub.sessions[s].roomId
    BY <1>1, HubFields DEF Session
  <2> QED BY <2>1, <1>1 DEF Hub
<1>3. hub' = [d EXCEPT !.sessions[s] = gone, !.told[s] = newTold]
  <2>1. g = [hub EXCEPT !.sessions[s].state = "gone"]
    BY <1>1 DEF Hub
  <2> QED BY <2>1 DEF remove
<1> HIDE DEF deleted
<1>4. /\ g \in Hub /\ g.sessions = deleted /\ g.subscribers = hub.subscribers
      /\ SameWaiters(g, hub) /\ g.told = hub.told
      /\ g.rooms = hub.rooms /\ g.roomOf = hub.roomOf /\ g.made = hub.made
  <2>1. /\ g.sessions = deleted /\ g.subscribers = hub.subscribers
        /\ SameWaiters(g, hub) /\ g.told = hub.told
        /\ g.rooms = hub.rooms /\ g.roomOf = hub.roomOf /\ g.made = hub.made
    BY <1>1 DEF Hub, SameWaiters
  <2>2. g \in Hub
    BY <1>1, <1>2 DEF Hub
  <2> QED BY <2>1, <2>2
<1> HIDE DEF g
<1>5. crew(g, s) = crew(hub, s) /\ (inMatch(g, s) <=> inMatch(hub, s))
  BY <1>2, <1>4 DEF crew, inMatch
<1>6. crew(hub, s) \subseteq Sockets /\ \A u \in crew(hub, s) : hasSession(hub, u)
  BY <1>1, Crewed
<1>7. \A u \in Sockets \ {s} : /\ g.sessions[u] = hub.sessions[u]
                               /\ hasSession(g, u) <=> hasSession(hub, u)
                               /\ isOpen(g, u) <=> isOpen(hub, u)
  BY <1>2, <1>4 DEF hasSession, isOpen
<1>8. d \in Hub /\ Departed(d, g, s)
  <2>1. Distinct(g.queue) /\ UniqueCodes(g.games)
    BY <1>1, <1>4 DEF SameWaiters
  <2>2. \A u \in crew(g, s) \ {s} : hasSession(g, u)
    BY <1>5, <1>6, <1>7
  <2> QED BY <2>1, <2>2, <1>4, Detached
<1> HIDE DEF d
<1>9. gone \in Session /\ gone.roomId = NoRoom /\ newTold \in Told
  BY DEF newSession, newTold, Session, Told, Lists, RoomOrNone
<1>10. hub' = [d EXCEPT !.sessions = sessions, !.told = told]
  BY <1>3, <1>8 DEF Hub
<1> HIDE DEF gone
<1>11. /\ sessions \in [Sockets -> Session] /\ sessions[s] = gone
       /\ \A u \in Sockets \ {s} : sessions[u] = d.sessions[u]
  BY <1>8, <1>9 DEF Hub
<1>12. told \in [Sockets -> Told] /\ \A u \in Sockets \ {s} : told[u] = d.told[u]
  <2>1. told \in [Sockets -> Told]
    BY <1>8, <1>9, Retold
  <2> QED BY <2>1, <1>8 DEF Hub
<1> HIDE DEF sessions, told
<1>13. /\ hub'.sessions = sessions /\ hub'.told = told
       /\ hub'.subscribers = d.subscribers /\ SameWaiters(hub', d)
       /\ hub'.rooms = d.rooms /\ hub'.roomOf = d.roomOf /\ hub'.made = d.made
  BY <1>8, <1>10 DEF Hub, SameWaiters
<1>14. hub' \in Hub
  BY <1>8, <1>10, <1>11, <1>12 DEF Hub, Told
<1>15. Departed(hub', hub, s)
  <2>1. hub.subscribers \subseteq Sockets
    BY <1>1 DEF Hub
  <2>2. /\ hub'.made = hub.made
        /\ hub'.rooms = IF inMatch(hub, s) THEN {r \in hub.rooms : r.id # hub.roomOf[s]} ELSE hub.rooms
        /\ hub'.subscribers = hub.subscribers \ {s}
        /\ hub'.queue = dequeued(hub.queue, s)
        /\ hub'.hosting = [hub.hosting EXCEPT ![s] = NoCode]
        /\ hub'.games = IF hub.hosting[s] = NoCode THEN hub.games
                        ELSE without(hub.games, hub.hosting[s])
    BY <1>4, <1>5, <1>8, <1>13 DEF Departed, SameWaiters
  <2>3. \A u \in Sockets :
            hub'.roomOf[u] = IF inMatch(hub, s) /\ u \in crew(hub, s) THEN NoRoom ELSE hub.roomOf[u]
    BY <1>4, <1>5, <1>8, <1>13 DEF Departed
  <2>4. \A u \in Sockets \ {s} :
            IF inMatch(hub, s) /\ u \in crew(hub, s)
            THEN /\ hub'.sessions[u] = [hub.sessions[u] EXCEPT !.roomId = NoRoom]
                 /\ isOpen(hub, u) => hub'.told[u].room = NoRoom
                 /\ ~isOpen(hub, u) => hub'.told[u].room = hub.told[u].room
            ELSE hub'.sessions[u] = hub.sessions[u] /\ hub'.told[u].room = hub.told[u].room
    <3> TAKE u \in Sockets \ {s}
    <3>1. /\ hub'.sessions[u] = d.sessions[u] /\ hub'.told[u] = d.told[u]
          /\ g.sessions[u] = hub.sessions[u] /\ g.told[u] = hub.told[u]
          /\ isOpen(g, u) <=> isOpen(hub, u)
      BY <1>4, <1>7, <1>11, <1>12, <1>13
    <3>2. IF inMatch(g, s) /\ u \in crew(g, s)
          THEN /\ d.sessions[u] = [g.sessions[u] EXCEPT !.roomId = NoRoom]
               /\ isOpen(g, u) => d.told[u].room = NoRoom
               /\ ~isOpen(g, u) => d.told[u].room = g.told[u].room
          ELSE d.sessions[u] = g.sessions[u] /\ d.told[u].room = g.told[u].room
      BY <1>8 DEF Departed
    <3> QED BY <3>1, <3>2, <1>5
  <2>5. \A u \in hub.subscribers \ {s} :
            isOpen(hub, u) => hub'.told[u].games =
                IF hub.hosting[s] = NoCode THEN hub.told[u].games ELSE listPublicGames(hub'.games)
    BY <2>1, <1>4, <1>7, <1>8, <1>12, <1>13 DEF Departed, SameWaiters
  <2> QED BY <2>2, <2>3, <2>4, <2>5, <1>9, <1>11, <1>13 DEF Departed
<1> QED BY <1>11, <1>13, <1>14, <1>15 DEF gone

\* LeaveRoom and the end of a connection keep the invariant.
LEMMA DeparturesKeep ==
    ASSUME LobbyInv(hub), NEW s \in Sockets, LeaveRoom(s) \/ Close(s) \/ Closed(s)
    PROVE  LobbyInv(hub')
<1>1. /\ hub' \in Hub /\ Departed(hub', hub, s)
      /\ hub'.sessions[s].state # "none"
      /\ isOpen(hub', s) => hub'.told[s].room = NoRoom
  <2>1. CASE LeaveRoom(s)
    <3>1. hub.sessions[s] \in Session /\ hub.sessions[s].state # "none"
      BY <2>1, HubFields DEF LobbyInv, LeaveRoom, arrives, hasSession
    <3>2. /\ hub' \in Hub /\ Departed(hub', hub, s)
          /\ hub'.sessions[s] = [hub.sessions[s] EXCEPT !.roomId = NoRoom]
          /\ isOpen(hub', s) => hub'.told[s].room = NoRoom
      BY <2>1, LeaveRoomMade
    <3>3. [hub.sessions[s] EXCEPT !.roomId = NoRoom].state # "none"
      BY <3>1, Moved
    <3> QED BY <3>2, <3>3
  <2>2. CASE Close(s) \/ Closed(s)
    <3>1. /\ hub' \in Hub /\ Departed(hub', hub, s)
          /\ hub'.sessions[s] = [newSession EXCEPT !.state = "gone"]
      BY <2>2, RemoveMade DEF Close, Closed
    <3> QED BY <3>1 DEF newSession, isOpen
  <2> QED BY <2>1, <2>2
<1>2. hub \in Hub /\ RoomSide(hub)
  BY Sides
<1>3. RoomSide(hub')
  BY <1>1, <1>2, DepartedKeeps
<1>4. WaitSide(hub')
  BY <1>1, <1>2, DepartedWaiters
<1> QED BY <1>1, <1>3, <1>4, Sides

\* Where nobody moves, the rooms stay as they are.
LEMMA RoomsUnmoved ==
    ASSUME NEW h \in Hub, NEW k \in Hub, SamePlayers(k, h), RoomSide(h),
           \A u \in Sockets : k.told[u].room = h.told[u].room
    PROVE  RoomSide(k)
<1>1. k.sessions = h.sessions /\ k.subscribers = h.subscribers /\ k.rooms = h.rooms
      /\ k.roomOf = h.roomOf /\ k.made = h.made
  BY DEF SamePlayers
<1>2. RoomsSound(k)
  BY <1>1 DEF RoomSide, RoomsSound, RoomSound, InRoom, hasSession
<1>3. SubscribersPresent(k) /\ RoomsTold(k) /\ Unborn(k)
  BY <1>1 DEF RoomSide, SubscribersPresent, RoomsTold, Unborn, hasSession, isOpen
<1> QED BY <1>2, <1>3 DEF RoomSide

\* Who is connected, and in the lobby, is read off the sessions.
LEMMA SameSessions ==
    ASSUME NEW h, NEW k, k.sessions = h.sessions
    PROVE  \A u : /\ inLobbyOf(k, u) <=> inLobbyOf(h, u)
                  /\ isOpen(k, u) <=> isOpen(h, u)
                  /\ hasSession(k, u) <=> hasSession(h, u)
BY DEF inLobbyOf, isOpen, hasSession

\* CancelSearch keeps the invariant.
LEMMA CancelSearchKeeps ==
    ASSUME LobbyInv(hub), NEW s \in Sockets, CancelSearch(s)
    PROVE  LobbyInv(hub')
<1>1. hub \in Hub /\ RoomSide(hub) /\ WaitSide(hub) /\ Distinct(hub.queue)
  BY Sides DEF WaitSide, QueueOf
<1>2. /\ hub' \in Hub /\ SamePlayers(hub', hub) /\ hub'.told = hub.told
      /\ hub'.games = hub.games /\ hub'.hosting = hub.hosting
      /\ hub'.queue = dequeued(hub.queue, s)
  BY <1>1, Cancelled DEF CancelSearch
<1>3. RoomSide(hub')
  BY <1>1, <1>2, RoomsUnmoved
<1>4. \A u : /\ inLobbyOf(hub', u) <=> inLobbyOf(hub, u)
             /\ isOpen(hub', u) <=> isOpen(hub, u)
  BY <1>2, SameSessions DEF SamePlayers
<1>5. QueueOf(hub')
  <2>1. hub.queue \in Seq(Entry) /\ Unmatched(hub.queue)
    BY <1>1, HubEntries DEF WaitSide, QueueOf
  <2>2. /\ Distinct(hub'.queue) /\ Unmatched(hub'.queue)
        /\ \A i \in DOMAIN hub'.queue : \E j \in DOMAIN hub.queue : hub'.queue[i] = hub.queue[j]
    BY <1>1, <1>2, <2>1, QueueCancelled
  <2> QED BY <2>2, <1>1, <1>2, <1>4 DEF WaitSide, QueueOf, Waits
<1>6. GamesOf(hub') /\ ListsFresh(hub')
  BY <1>1, <1>2, <1>4 DEF WaitSide, GamesOf, ListsFresh, SamePlayers
<1> QED BY <1>2, <1>3, <1>5, <1>6, Sides DEF WaitSide

\* LobbyCancel keeps the invariant.
LEMMA LobbyCancelKeeps ==
    ASSUME LobbyInv(hub), NEW s \in Sockets, LobbyCancel(s)
    PROVE  LobbyInv(hub')
<1>1. hub \in Hub /\ RoomSide(hub) /\ WaitSide(hub) /\ UniqueCodes(hub.games) /\ GamesOf(hub)
  BY Sides DEF WaitSide, GamesOf
<1>2. hub' \in Hub /\ Delisted(hub', hub, s)
  BY <1>1, Unlisted DEF LobbyCancel
<1>3. RoomSide(hub')
  BY <1>1, <1>2, RoomsUnmoved DEF Delisted
<1>4. \A u : /\ inLobbyOf(hub', u) <=> inLobbyOf(hub, u)
             /\ isOpen(hub', u) <=> isOpen(hub, u)
  BY <1>2, SameSessions DEF Delisted, SamePlayers
<1>5. QueueOf(hub')
  <2>1. \A u \in Sockets : hub.hosting[u] = NoCode => hub'.hosting[u] = NoCode
    BY <1>1, <1>2 DEF Delisted, Hub
  <2>2. hub'.queue = hub.queue /\ \A i \in DOMAIN hub.queue : hub.queue[i].socket \in Sockets
    BY <1>1, <1>2, HubEntries DEF Delisted
  <2> QED BY <2>1, <2>2, <1>1, <1>4 DEF WaitSide, QueueOf, Waits
<1>6. GamesOf(hub')
  BY <1>1, <1>2, <1>4, WithoutGame DEF Delisted
<1>7. ListsFresh(hub')
  BY <1>1, <1>2, <1>4 DEF Delisted, WaitSide, ListsFresh, SamePlayers
<1> QED BY <1>2, <1>3, <1>5, <1>6, <1>7, Sides DEF WaitSide

\* A socket asks for the list, or no longer.
Heard(k, h, s) ==
    /\ k.sessions = h.sessions /\ k.rooms = h.rooms /\ k.roomOf = h.roomOf /\ k.made = h.made
    /\ SameWaiters(k, h) /\ k.subscribers \subseteq h.subscribers \cup {s}
    /\ \A u \in Sockets : k.told[u].room = h.told[u].room
    /\ \A u \in Sockets \ {s} : k.told[u] = h.told[u]
    /\ s \in k.subscribers /\ isOpen(h, s) => k.told[s].games = listPublicGames(h.games)

\* LobbySubscribe does so, and a new subscriber is sent the list as it is.
LEMMA LobbySubscribeMade ==
    ASSUME hub \in Hub, NEW s \in Sockets, NEW subscribed \in BOOLEAN, LobbySubscribe(s, subscribed)
    PROVE  hub' \in Hub /\ Heard(hub', hub, s)
<1>1. CASE ~subscribed
  <2>1. hub' \in Hub /\ Muted(hub', hub, s)
    BY <1>1, Unsubscribed DEF LobbySubscribe
  <2> QED BY <2>1 DEF Muted, Heard, Hub
<1>2. CASE subscribed
  <2> DEFINE more == hub.subscribers \cup {s}
             list == listPublicGames(hub.games)
             m == [hub EXCEPT !.subscribers = more]
             news == [hub.told[s] EXCEPT !.games = list]
             told == [hub.told EXCEPT ![s] = news]
  <2>1. more \in SUBSET Sockets /\ list \in Lists
    BY DEF Hub, Lists
  <2>2. hub' = sendList(m, s, list)
    BY <1>2 DEF LobbySubscribe
  <2>3. news \in Told /\ news.games = list /\ news.room = hub.told[s].room
    BY <2>1, HubFields DEF Told
  <2> HIDE DEF more, list, news
  <2>4. /\ m \in Hub /\ SameWaiters(m, hub) /\ m.told = hub.told /\ m.subscribers = more
        /\ m.sessions = hub.sessions /\ m.rooms = hub.rooms /\ m.roomOf = hub.roomOf
        /\ m.made = hub.made
    BY <2>1 DEF Hub, SameWaiters
  <2> HIDE DEF m
  <2>5. isOpen(m, s) <=> isOpen(hub, s)
    BY <2>4 DEF isOpen
  <2>6. CASE ~isOpen(hub, s)
    <3>1. hub' = m
      BY <2>2, <2>5, <2>6 DEF sendList
    <3> QED BY <3>1, <2>4, <2>6 DEF Heard, more
  <2>7. CASE isOpen(hub, s)
    <3>1. hub' = [m EXCEPT !.told = told]
      BY <2>2, <2>4, <2>5, <2>7 DEF sendList, Hub, news
    <3>2. told \in [Sockets -> Told]
      BY <2>3, Retold
    <3>3. told[s] = news /\ \A u \in Sockets \ {s} : told[u] = hub.told[u]
      BY DEF Hub
    <3> HIDE DEF told
    <3>4. hub' \in Hub
      BY <2>4, <3>1, <3>2, HubTold DEF Hub
    <3>5. /\ hub'.told = told /\ SameWaiters(hub', m) /\ hub'.subscribers = more
          /\ hub'.sessions = m.sessions /\ hub'.rooms = m.rooms /\ hub'.roomOf = m.roomOf
          /\ hub'.made = m.made
      BY <2>4, <3>1 DEF Hub, SameWaiters
    <3>6. \A u \in Sockets : hub'.told[u].room = hub.told[u].room
      BY <2>3, <3>3, <3>5
    <3> QED BY <2>3, <2>4, <3>3, <3>4, <3>5, <3>6 DEF Heard, more, list, SameWaiters
  <2> QED BY <2>6, <2>7
<1> QED BY <1>1, <1>2

\* LobbySubscribe keeps the invariant.
LEMMA LobbySubscribeKeeps ==
    ASSUME LobbyInv(hub), NEW s \in Sockets, NEW subscribed \in BOOLEAN,
           LobbySubscribe(s, subscribed)
    PROVE  LobbyInv(hub')
<1>1. hub \in Hub /\ RoomSide(hub) /\ WaitSide(hub) /\ hasSession(hub, s)
  BY Sides DEF LobbySubscribe, arrives
<1>2. hub' \in Hub /\ Heard(hub', hub, s)
  BY <1>1, LobbySubscribeMade
<1>3. \A u : /\ inLobbyOf(hub', u) <=> inLobbyOf(hub, u)
             /\ isOpen(hub', u) <=> isOpen(hub, u)
             /\ hasSession(hub', u) <=> hasSession(hub, u)
  BY <1>2, SameSessions DEF Heard
<1>4. RoomSide(hub')
  <2>1. RoomsSound(hub')
    BY <1>1, <1>2, <1>3 DEF Heard, RoomSide, RoomsSound, RoomSound, InRoom
  <2>2. SubscribersPresent(hub') /\ RoomsTold(hub') /\ Unborn(hub')
    BY <1>1, <1>2, <1>3 DEF Heard, RoomSide, SubscribersPresent, RoomsTold, Unborn
  <2> QED BY <2>1, <2>2 DEF RoomSide
<1>5. QueueOf(hub') /\ GamesOf(hub')
  BY <1>1, <1>2, <1>3 DEF Heard, SameWaiters, WaitSide, QueueOf, GamesOf, Waits
<1>6. ListsFresh(hub')
  <2> SUFFICES ASSUME NEW u \in hub'.subscribers, isOpen(hub', u)
               PROVE  hub'.told[u].games = listPublicGames(hub'.games)
    BY DEF ListsFresh
  <2>1. u \in Sockets /\ isOpen(hub, u) /\ hub'.games = hub.games
    BY <1>2, <1>3 DEF Hub, Heard, SameWaiters
  <2>2. CASE u = s
    BY <2>1, <2>2, <1>2 DEF Heard
  <2>3. CASE u # s
    BY <2>1, <2>3, <1>1, <1>2 DEF Heard, WaitSide, ListsFresh
  <2> QED BY <2>2, <2>3
<1> QED BY <1>2, <1>4, <1>5, <1>6, Sides DEF WaitSide

\* A player in the lobby puts a game into the list, and leaves the queue for it.
LEMMA LobbyCreateMade ==
    ASSUME LobbyInv(hub), NEW s \in Sockets, NEW private \in BOOLEAN, NEW c \in Codes,
           hub' = broadcastLobbyList(hosted(hub, s, c, private))
    PROVE  /\ hub' \in Hub /\ SamePlayers(hub', hub) /\ ListsFresh(hub')
           /\ \A u \in Sockets : hub'.told[u].room = hub.told[u].room
           /\ hub'.queue = dequeued(hub.queue, s)
           /\ hub'.games = Append(hub.games, [code |-> c, host |-> s, private |-> private])
           /\ hub'.hosting[s] = c /\ \A u \in Sockets \ {s} : hub'.hosting[u] = hub.hosting[u]
<1> DEFINE q == cancelQuickMatch(hub, s)
           g == [code |-> c, host |-> s, private |-> private]
           games == Append(hub.games, g)
           hosting == [hub.hosting EXCEPT ![s] = c]
           m == hosted(hub, s, c, private)
<1>1. hub \in Hub /\ Distinct(hub.queue)
  BY DEF LobbyInv, QueueOf
<1>2. /\ q \in Hub /\ SamePlayers(q, hub) /\ q.told = hub.told
      /\ q.games = hub.games /\ q.hosting = hub.hosting
      /\ q.queue = dequeued(hub.queue, s)
  BY <1>1, Cancelled
<1> HIDE DEF q
<1>3. m = [q EXCEPT !.games = games, !.hosting = hosting]
  BY <1>2 DEF hosted, q, Hub
<1>4. games \in Seq(Game)
  <2>1. g \in Game /\ hub.games \in Seq(Game)
    BY <1>1, HubEntries DEF Game
  <2> HIDE DEF g
  <2> QED BY <2>1
<1>5. /\ hosting \in [Sockets -> Codes \cup {NoCode}]
      /\ hosting[s] = c /\ \A u \in Sockets \ {s} : hosting[u] = hub.hosting[u]
  BY <1>1 DEF Hub
<1> HIDE DEF games, hosting, m
<1>6. /\ m \in Hub /\ SamePlayers(m, hub) /\ m.told = hub.told
      /\ m.queue = dequeued(hub.queue, s) /\ m.games = games /\ m.hosting = hosting
  <2>1. /\ SamePlayers(m, q) /\ m.told = q.told /\ m.queue = q.queue
        /\ m.games = games /\ m.hosting = hosting
    BY <1>2, <1>3 DEF Hub, SamePlayers
  <2>2. m \in Hub
    BY <1>2, <1>3, <1>4, <1>5 DEF Hub
  <2> QED BY <2>1, <2>2, <1>2 DEF SamePlayers
<1>7. hub' = broadcastLobbyList(m)
  BY DEF m
<1>8. /\ hub' \in Hub /\ SamePlayers(hub', m) /\ SameWaiters(hub', m) /\ ListsFresh(hub')
      /\ \A u \in Sockets : hub'.told[u].room = m.told[u].room
  BY <1>6, <1>7, Broadcast
<1> QED BY <1>5, <1>6, <1>8 DEF SamePlayers, SameWaiters, games

\* LobbyCreate keeps the invariant.
LEMMA LobbyCreateKeeps ==
    ASSUME LobbyInv(hub), NEW s \in Sockets, NEW private \in BOOLEAN, inLobby(s), arrives(s),
           NEW c \in Codes \ {hub.games[i].code : i \in DOMAIN hub.games}, hub.hosting[s] = NoCode,
           hub' = broadcastLobbyList(hosted(hub, s, c, private))
    PROVE  LobbyInv(hub')
<1> DEFINE g == [code |-> c, host |-> s, private |-> private]
<1>1. hub \in Hub /\ RoomSide(hub) /\ WaitSide(hub) /\ inLobbyOf(hub, s) /\ GamesOf(hub)
  BY Sides DEF inLobbyOf, inLobby, arrives, WaitSide
<1>2. /\ hub' \in Hub /\ SamePlayers(hub', hub) /\ ListsFresh(hub')
      /\ \A u \in Sockets : hub'.told[u].room = hub.told[u].room
      /\ hub'.queue = dequeued(hub.queue, s)
      /\ hub'.games = Append(hub.games, g)
      /\ hub'.hosting[s] = c /\ \A u \in Sockets \ {s} : hub'.hosting[u] = hub.hosting[u]
  BY LobbyCreateMade
<1>3. RoomSide(hub')
  BY <1>1, <1>2, RoomsUnmoved
<1>4. \A u : inLobbyOf(hub', u) <=> inLobbyOf(hub, u)
  BY <1>2, SameSessions DEF SamePlayers
<1>5. QueueOf(hub')
  <2>1. hub.queue \in Seq(Entry) /\ Unmatched(hub.queue) /\ Distinct(hub.queue)
    BY <1>1, HubEntries DEF WaitSide, QueueOf
  <2>2. /\ Distinct(hub'.queue) /\ Unmatched(hub'.queue)
        /\ \A i \in DOMAIN hub'.queue :
            hub'.queue[i].socket # s /\ \E j \in DOMAIN hub.queue : hub'.queue[i] = hub.queue[j]
    BY <1>2, <2>1, QueueCancelled
  <2>3. \A i \in DOMAIN hub.queue : hub.queue[i].socket \in Sockets /\ Waits(hub, hub.queue[i].socket)
    BY <1>1, HubEntries DEF WaitSide, QueueOf
  <2> QED BY <2>2, <2>3, <1>2, <1>4 DEF QueueOf, Waits
<1>6. GamesOf(hub')
  <2>1. g.code = c /\ g.host = s
    OBVIOUS
  <2> HIDE DEF g
  <2>2. /\ DOMAIN hub'.games = 1 .. Len(hub.games) + 1 /\ DOMAIN hub.games = 1 .. Len(hub.games)
        /\ Len(hub.games) \in Nat
        /\ hub'.games[Len(hub.games) + 1] = g
        /\ \A i \in 1 .. Len(hub.games) : hub'.games[i] = hub.games[i]
    <3>1. hub.games \in Seq(Game)
      BY <1>1, HubEntries
    <3> QED BY <3>1, <1>2
  <2>3. \A i \in DOMAIN hub.games : /\ hub.games[i].host \in Sockets \ {s}
                                    /\ hub.games[i].code # c
    BY <1>1, OneGame
  <2>4. \A i \in DOMAIN hub'.games :
            /\ inLobbyOf(hub', hub'.games[i].host)
            /\ hub'.hosting[hub'.games[i].host] = hub'.games[i].code
    BY <2>1, <2>2, <2>3, <1>1, <1>2, <1>4 DEF GamesOf
  <2>5. UniqueCodes(hub'.games)
    <3> SUFFICES ASSUME NEW i \in DOMAIN hub'.games, NEW j \in DOMAIN hub'.games,
                        hub'.games[i].code = hub'.games[j].code
                 PROVE  i = j
      BY DEF UniqueCodes
    <3>1. \A x \in DOMAIN hub'.games : x \in DOMAIN hub.games \/ x = Len(hub.games) + 1
      BY <2>2
    <3>2. \A x \in DOMAIN hub.games : hub'.games[x].code = hub.games[x].code
      BY <2>2
    <3>3. \A x, y \in DOMAIN hub.games : hub.games[x].code = hub.games[y].code => x = y
      BY <1>1 DEF GamesOf, UniqueCodes
    <3>4. hub'.games[Len(hub.games) + 1].code = c
      BY <2>1, <2>2
    <3> QED BY <2>3, <3>1, <3>2, <3>3, <3>4
  <2>6. ASSUME NEW u \in Sockets, hub'.hosting[u] # NoCode
        PROVE  \E i \in DOMAIN hub'.games : hub'.games[i].host = u
    <3>1. CASE u = s
      BY <3>1, <2>1, <2>2
    <3>2. CASE u # s
      <4>1. PICK i \in DOMAIN hub.games : hub.games[i].host = u
        BY <2>6, <3>2, <1>1, <1>2 DEF GamesOf
      <4> QED BY <4>1, <2>2
    <3> QED BY <3>1, <3>2
  <2> QED BY <2>4, <2>5, <2>6 DEF GamesOf
<1> QED BY <1>2, <1>3, <1>5, <1>6, Sides DEF WaitSide

\* In the queue q only s may have an opponent; in r are others of q.
OnlyFor(q, s) ==
    \A i, j \in DOMAIN q :
        i < j /\ q[i].socket # s /\ q[j].socket # s => ~compatible(q[i], q[j])
OthersOf(r, q, s) ==
    \A i \in DOMAIN r : r[i].socket # s /\ \E j \in DOMAIN q : r[i] = q[j]

\* Who was left without an opponent still is when fewer are left.
LEMMA StillUnmatched ==
    ASSUME NEW q \in Seq(Entry), NEW r \in Seq(Entry), NEW s, Distinct(r),
           OnlyFor(q, s), OthersOf(r, q, s)
    PROVE  Unmatched(r)
<1> SUFFICES ASSUME NEW i \in DOMAIN r, NEW j \in DOMAIN r, i < j
             PROVE  ~compatible(r[i], r[j])
  BY DEF Unmatched
<1>1. PICK a \in DOMAIN q, b \in DOMAIN q : r[i] = q[a] /\ r[j] = q[b]
  BY DEF OthersOf
<1>2. a # b
  BY <1>1 DEF Distinct
<1>3. a < b \/ b < a
  BY <1>2
<1>4. q[a].socket # s /\ q[b].socket # s
  BY <1>1 DEF OthersOf
<1>5. ~compatible(q[a], q[b]) \/ ~compatible(q[b], q[a])
  BY <1>3, <1>4 DEF OnlyFor
<1> QED BY <1>1, <1>5, CompatibleBothWays

\* s waits in the queue, and nobody there can play it.
Queued(k, h, s) ==
    /\ SamePlayers(k, h) /\ k.told = h.told /\ k.games = h.games /\ k.hosting = h.hosting
    /\ Distinct(k.queue) /\ Unmatched(k.queue)
    /\ \E i \in DOMAIN k.queue : k.queue[i].socket = s
    /\ \A i \in DOMAIN k.queue :
        k.queue[i].socket = s \/ \E j \in DOMAIN h.queue : k.queue[i] = h.queue[j]
    /\ \A j \in DOMAIN h.queue : \E i \in DOMAIN k.queue : k.queue[i].socket = h.queue[j].socket

\* x and y, s and one who waited for it, leave the queue for a room.
Paired(k, h, s, x, y) ==
    /\ x # y /\ s \in {x, y} /\ ~sameAccount(x, y)
    /\ \A u \in {x, y} : u = s \/ \E i \in DOMAIN h.queue : h.queue[i].socket = u
    /\ Met(k, h, x, y) /\ k.games = h.games /\ k.hosting = h.hosting
    /\ Distinct(k.queue) /\ Unmatched(k.queue)
    /\ \A i \in DOMAIN k.queue :
        k.queue[i].socket \notin {x, y} /\ \E j \in DOMAIN h.queue : k.queue[i] = h.queue[j]
    /\ \A j \in DOMAIN h.queue :
        \/ h.queue[j].socket \in {x, y}
        \/ \E i \in DOMAIN k.queue : k.queue[i].socket = h.queue[j].socket

\* Search does one or the other.
LEMMA SearchMade ==
    ASSUME LobbyInv(hub), NEW s \in Sockets, NEW v \in Variants, Search(s, v)
    PROVE  /\ hub' \in Hub
           /\ Queued(hub', hub, s) \/ \E x, y \in Sockets : Paired(hub', hub, s, x, y)
<1> DEFINE q == queued(hub.queue, s, v)
           e == [hub EXCEPT !.queue = q]
           best == compatiblePair(q)
           x == q[best[1]].socket
           y == q[best[2]].socket
           cx == cancelQuickMatch(e, x)
           cy == cancelQuickMatch(cx, y)
<1>1. /\ hub \in Hub /\ RoomsSound(hub) /\ QueueOf(hub) /\ hasSession(hub, s)
      /\ hub.sessions[s].roomId = LOBBY_ROOM /\ hub.made < LOBBY_ROOM + MaxRooms
  BY DEF LobbyInv, Search, arrives, inLobby
<1>2. hub.queue \in Seq(Entry) /\ Distinct(hub.queue) /\ Unmatched(hub.queue)
  BY <1>1, HubEntries DEF QueueOf
<1>3. hub.roomOf[s] = NoRoom
  BY <1>1, Crewed DEF inMatch
<1>4. hub' = IF pairs(q) = {} THEN e ELSE matched(cy, x, y)
  BY <1>3 DEF Search, enqueueQuickMatch
<1>5. /\ q \in Seq(Entry) /\ Distinct(q)
      /\ \A i \in DOMAIN q : q[i].socket = s \/ \E j \in DOMAIN hub.queue : q[i] = hub.queue[j]
      /\ \A j \in DOMAIN hub.queue : \E i \in DOMAIN q : q[i].socket = hub.queue[j].socket
      /\ \E i \in DOMAIN q : q[i].socket = s
      /\ \A i, j \in DOMAIN q :
            i < j /\ q[i].socket # s /\ q[j].socket # s => ~compatible(q[i], q[j])
  BY <1>2, QueueEntered
<1> HIDE DEF q
<1>6. /\ e \in Hub /\ SamePlayers(e, hub) /\ e.told = hub.told /\ e.games = hub.games
      /\ e.hosting = hub.hosting /\ e.queue = q
  <2>1. e \in Hub
    BY <1>1, <1>5 DEF Hub
  <2>2. /\ SamePlayers(e, hub) /\ e.told = hub.told /\ e.games = hub.games
        /\ e.hosting = hub.hosting /\ e.queue = q
    BY <1>1 DEF Hub, SamePlayers
  <2> QED BY <2>1, <2>2
<1> HIDE DEF e
<1>7. CASE pairs(q) = {}
  <2>1. hub' = e
    BY <1>4, <1>7
  <2>2. Unmatched(q)
    <3> SUFFICES ASSUME NEW i \in DOMAIN q, NEW j \in DOMAIN q, i < j, compatible(q[i], q[j])
                 PROVE  FALSE
      BY DEF Unmatched
    <3>1. <<i, j>> \in pairs(q)
      BY DEF pairs
    <3> QED BY <3>1, <1>7
  <2>3. Queued(e, hub, s)
    BY <2>2, <1>5, <1>6 DEF Queued
  <2> QED BY <2>1, <2>3, <1>6
<1>8. CASE pairs(q) # {}
  <2>1. /\ best[1] \in DOMAIN q /\ best[2] \in DOMAIN q /\ best[1] < best[2]
        /\ compatible(q[best[1]], q[best[2]])
    BY <1>5, <1>8, PairChosen DEF pairs
  <2> HIDE DEF best
  <2>2. x \in Sockets /\ y \in Sockets
    <3>1. \A i \in DOMAIN q : q[i] \in Entry
      BY <1>5
    <3> QED BY <3>1, <2>1 DEF Entry
  <2>3. x # y
    BY <1>5, <2>1 DEF Distinct
  <2>4. ~sameAccount(x, y)
    BY <2>1 DEF compatible
  <2>5. x = s \/ y = s
    BY <1>5, <2>1
  <2>6. \A u \in {x, y} : u = s \/ \E i \in DOMAIN hub.queue : hub.queue[i].socket = u
    BY <1>5, <2>1
  <2> HIDE DEF x, y
  <2>7. \A u \in {x, y} : hasSession(hub, u)
    BY <2>6, <1>1 DEF QueueOf, Waits, inLobbyOf
  <2>8. /\ cx \in Hub /\ SamePlayers(cx, e) /\ cx.told = e.told /\ cx.games = e.games
        /\ cx.hosting = e.hosting /\ cx.queue = dequeued(q, x)
    BY <2>2, <1>5, <1>6, Cancelled
  <2> DEFINE qx == dequeued(q, x)  qy == dequeued(qx, y)
  <2>9. /\ qx \in Seq(Entry) /\ Distinct(qx)
        /\ \A i \in DOMAIN qx : qx[i].socket # x /\ \E j \in DOMAIN q : qx[i] = q[j]
        /\ \A j \in DOMAIN q : q[j].socket # x => \E i \in DOMAIN qx : qx[i] = q[j]
    BY <1>5, QueueCancelled
  <2> HIDE DEF qx, cx
  <2>10. /\ cy \in Hub /\ SamePlayers(cy, cx) /\ cy.told = cx.told /\ cy.games = cx.games
         /\ cy.hosting = cx.hosting /\ cy.queue = qy
    BY <2>2, <2>8, <2>9, Cancelled DEF qx
  <2>11. /\ qy \in Seq(Entry) /\ Distinct(qy)
         /\ \A i \in DOMAIN qy : qy[i].socket # y /\ \E j \in DOMAIN qx : qy[i] = qx[j]
         /\ \A j \in DOMAIN qx : qx[j].socket # y => \E i \in DOMAIN qy : qy[i] = qx[j]
    BY <2>9, QueueCancelled
  <2> HIDE DEF qy, cy
  <2>12. /\ SamePlayers(cy, hub) /\ cy.told = hub.told /\ cy.games = hub.games
         /\ cy.hosting = hub.hosting
    BY <1>6, <2>8, <2>10 DEF SamePlayers
  <2>13. /\ hub' \in Hub /\ SameWaiters(hub', cy) /\ Met(hub', cy, x, y)
    <3>1. hub' = matched(cy, x, y)
      BY <1>4, <1>8 DEF x, y, cx, cy
    <3>2. hasSession(cy, x) /\ hasSession(cy, y) /\ cy.made < LOBBY_ROOM + MaxRooms
      BY <2>7, <2>12, <1>1 DEF SamePlayers, hasSession
    <3> QED BY <3>1, <3>2, <2>2, <2>3, <2>10, MatchMade
  <2>14. Met(hub', hub, x, y)
    BY <2>12, <2>13 DEF Met, SamePlayers, isOpen
  <2>15. \A i \in DOMAIN qy : qy[i].socket \notin {x, y} /\ \E j \in DOMAIN q : qy[i] = q[j]
    BY <2>9, <2>11
  <2>16. \A i \in DOMAIN qy : \E j \in DOMAIN hub.queue : qy[i] = hub.queue[j]
    <3> TAKE i \in DOMAIN qy
    <3>1. PICK j \in DOMAIN q : qy[i] = q[j]
      BY <2>15
    <3>2. q[j].socket # s
      BY <3>1, <2>5, <2>15
    <3> QED BY <3>1, <3>2, <1>5
  <2>17. Unmatched(qy)
    <3>1. OthersOf(qy, q, s)
      BY <2>5, <2>15 DEF OthersOf
    <3>2. qy \in Seq(Entry) /\ Distinct(qy) /\ q \in Seq(Entry)
      BY <2>11, <1>5
    <3>3. OnlyFor(q, s)
      BY <1>5 DEF OnlyFor
    <3> QED BY <3>1, <3>2, <3>3, StillUnmatched
  <2>18. ASSUME NEW j \in DOMAIN hub.queue, hub.queue[j].socket \notin {x, y}
         PROVE  \E i \in DOMAIN qy : qy[i].socket = hub.queue[j].socket
    <3>1. PICK a \in DOMAIN q : q[a].socket = hub.queue[j].socket
      BY <1>5
    <3>2. PICK b \in DOMAIN qx : qx[b] = q[a]
      BY <3>1, <2>9, <2>18
    <3>3. PICK i \in DOMAIN qy : qy[i] = qx[b]
      BY <3>1, <3>2, <2>11, <2>18
    <3> QED BY <3>1, <3>2, <3>3
  <2>19. Paired(hub', hub, s, x, y)
    <3>1. hub'.queue = qy /\ hub'.games = hub.games /\ hub'.hosting = hub.hosting
      BY <2>10, <2>12, <2>13 DEF SameWaiters
    <3> QED BY <3>1, <2>3, <2>4, <2>5, <2>6, <2>11, <2>14, <2>15, <2>16, <2>17, <2>18 DEF Paired
  <2> QED BY <2>2, <2>13, <2>19
<1> QED BY <1>7, <1>8

\* After a room is made for x and y, the rest of the lobby is as it was.
LEMMA MetOthers ==
    ASSUME NEW h \in Hub, NEW k \in Hub, NEW x \in Sockets, NEW y \in Sockets, Met(k, h, x, y)
    PROVE  /\ \A u \in Sockets \ {x, y} : inLobbyOf(k, u) <=> inLobbyOf(h, u)
           /\ \A u \in k.subscribers : /\ u \in h.subscribers /\ u \in Sockets \ {x, y}
                                       /\ isOpen(k, u) <=> isOpen(h, u)
                                       /\ k.told[u] = h.told[u]
<1>1. \A u \in Sockets : /\ k.sessions[u].roomId = IF u \in {x, y} THEN k.made
                                                   ELSE h.sessions[u].roomId
                         /\ hasSession(k, u) <=> hasSession(h, u)
                         /\ isOpen(k, u) <=> isOpen(h, u)
  BY MetSessions
<1>2. k.subscribers = h.subscribers \ {x, y} /\ h.subscribers \subseteq Sockets
  BY DEF Met, Hub
<1>3. \A u \in Sockets \ {x, y} : k.told[u] = h.told[u]
  BY DEF Met
<1> QED BY <1>1, <1>2, <1>3 DEF inLobbyOf

\* Search keeps the invariant.
LEMMA SearchKeeps ==
    ASSUME LobbyInv(hub), NEW s \in Sockets, NEW v \in Variants, Search(s, v),
           hub.hosting[s] = NoCode
    PROVE  LobbyInv(hub')
<1>1. hub \in Hub /\ RoomSide(hub) /\ WaitSide(hub) /\ Waits(hub, s)
  BY Sides DEF Search, arrives, inLobby, Waits, inLobbyOf
<1>2. hub' \in Hub
  BY SearchMade
<1>3. \A i \in DOMAIN hub.queue : hub.queue[i].socket \in Sockets /\ Waits(hub, hub.queue[i].socket)
  BY <1>1, HubEntries DEF WaitSide, QueueOf
<1>4. CASE Queued(hub', hub, s)
  <2>1. RoomSide(hub')
    BY <1>1, <1>2, <1>4, RoomsUnmoved DEF Queued
  <2>2. \A u : /\ inLobbyOf(hub', u) <=> inLobbyOf(hub, u)
               /\ isOpen(hub', u) <=> isOpen(hub, u)
    BY <1>4, SameSessions DEF Queued, SamePlayers
  <2>3. QueueOf(hub')
    <3>1. \A i \in DOMAIN hub'.queue : Waits(hub, hub'.queue[i].socket)
      BY <1>1, <1>3, <1>4 DEF Queued
    <3> QED BY <3>1, <2>2, <1>4 DEF Queued, QueueOf, Waits
  <2>4. GamesOf(hub') /\ ListsFresh(hub')
    BY <2>2, <1>1, <1>4 DEF Queued, WaitSide, GamesOf, ListsFresh, SamePlayers
  <2> QED BY <1>2, <2>1, <2>3, <2>4, Sides DEF WaitSide
<1>5. CASE \E x, y \in Sockets : Paired(hub', hub, s, x, y)
  <2>1. PICK x \in Sockets, y \in Sockets : Paired(hub', hub, s, x, y)
    BY <1>5
  <2>2. \A u \in {x, y} : Waits(hub, u)
    BY <2>1, <1>1, <1>3 DEF Paired
  <2>3. \A u \in {x, y} : hasSession(hub, u) /\ hub.roomOf[u] = NoRoom
    <3> TAKE u \in {x, y}
    <3>1. inLobbyOf(hub, u)
      BY <2>2 DEF Waits
    <3>2. ~inMatch(hub, u)
      BY <3>1 DEF inMatch, inLobbyOf
    <3> QED BY <3>1, <3>2, <1>1, Crewed DEF inLobbyOf, RoomSide
  <2>4. RoomSide(hub')
    BY <2>1, <2>3, <1>1, <1>2, MetKeeps DEF Paired
  <2>5. /\ \A u \in Sockets \ {x, y} : inLobbyOf(hub', u) <=> inLobbyOf(hub, u)
        /\ \A u \in hub'.subscribers : /\ u \in hub.subscribers /\ u \in Sockets \ {x, y}
                                       /\ isOpen(hub', u) <=> isOpen(hub, u)
                                       /\ hub'.told[u] = hub.told[u]
    BY <2>1, <1>1, <1>2, MetOthers DEF Paired
  <2>6. QueueOf(hub')
    <3>1. ASSUME NEW i \in DOMAIN hub'.queue
          PROVE  Waits(hub', hub'.queue[i].socket)
      <4>1. PICK j \in DOMAIN hub.queue : hub'.queue[i] = hub.queue[j]
        BY <2>1 DEF Paired
      <4>2. hub'.queue[i].socket \in Sockets \ {x, y} /\ Waits(hub, hub'.queue[i].socket)
        BY <4>1, <2>1, <1>3 DEF Paired
      <4> QED BY <4>2, <2>1, <2>5 DEF Paired, Waits
    <3> QED BY <3>1, <2>1 DEF Paired, QueueOf
  <2>7. GamesOf(hub')
    <3>1. ASSUME NEW i \in DOMAIN hub.games
          PROVE  hub.games[i].host \in Sockets \ {x, y} /\ inLobbyOf(hub, hub.games[i].host)
      <4>1. hub.games[i].host \in Sockets /\ hub.hosting[hub.games[i].host] # NoCode
        BY <1>1, OneGame DEF WaitSide
      <4>2. inLobbyOf(hub, hub.games[i].host)
        BY <1>1 DEF WaitSide, GamesOf
      <4> QED BY <4>1, <4>2, <2>2 DEF Waits
    <3>2. hub'.games = hub.games /\ hub'.hosting = hub.hosting
      BY <2>1 DEF Paired
    <3> QED BY <3>1, <3>2, <2>5, <1>1 DEF GamesOf, WaitSide
  <2>8. ListsFresh(hub')
    <3>1. hub'.games = hub.games
      BY <2>1 DEF Paired
    <3> QED BY <3>1, <2>5, <1>1 DEF WaitSide, ListsFresh
  <2> QED BY <1>2, <2>4, <2>6, <2>7, <2>8, Sides DEF WaitSide
<1> QED BY <1>4, <1>5, SearchMade

\* s, who hosts nothing, joins the game that t hosts.
Joined(k, h, s, t) ==
    /\ t # s /\ h.hosting[t] # NoCode
    /\ \A u \in Sockets :
        k.sessions[u] = IF u \in {s, t} THEN [h.sessions[u] EXCEPT !.roomId = k.made]
                        ELSE h.sessions[u]
    /\ k.made \in RoomIds
    /\ k.queue = dequeued(h.queue, s)
    /\ k.games = without(h.games, h.hosting[t])
    /\ k.hosting = [h.hosting EXCEPT ![t] = NoCode]

\* What LobbyJoin does for a joiner in the lobby.
Joins(s, i) ==
    /\ arrives(s) /\ inLobby(s)
    /\ hub.made < LOBBY_ROOM + MaxRooms /\ hub.roomOf[s] = NoRoom
    /\ hub.games[i].host # s /\ ~sameAccount(hub.games[i].host, s)
    /\ hub' = broadcastLobbyList(
                matched(claimed(hub, s, hub.games[i]), hub.games[i].host, s))

\* LobbyJoin does so: a room for the two, and the news for the others.
LEMMA JoinMade ==
    ASSUME LobbyInv(hub), NEW s \in Sockets, NEW i \in DOMAIN hub.games, Joins(s, i)
    PROVE  /\ hub' \in Hub /\ RoomSide(hub') /\ ListsFresh(hub')
           /\ hub.games[i].host \in Sockets /\ inLobbyOf(hub, hub.games[i].host)
           /\ Joined(hub', hub, s, hub.games[i].host)
<1> DEFINE t == hub.games[i].host
           q == cancelQuickMatch(hub, s)
           games == without(hub.games, hub.hosting[t])
           hosting == [hub.hosting EXCEPT ![t] = NoCode]
           m == claimed(hub, s, hub.games[i])
           r == matched(m, t, s)
<1>1. /\ hub \in Hub /\ RoomSide(hub) /\ QueueOf(hub) /\ GamesOf(hub)
      /\ hasSession(hub, s) /\ hub.made < LOBBY_ROOM + MaxRooms /\ hub.roomOf[s] = NoRoom
  BY Sides DEF WaitSide, Joins, arrives
<1>2. /\ t \in Sockets /\ inLobbyOf(hub, t) /\ hub.hosting[t] = hub.games[i].code
      /\ hub.hosting[t] # NoCode
  <2>1. t \in Sockets /\ hub.hosting[t] # NoCode
    BY <1>1, OneGame
  <2>2. inLobbyOf(hub, t) /\ hub.hosting[t] = hub.games[i].code
    BY <1>1 DEF GamesOf
  <2> QED BY <2>1, <2>2
<1>3. t # s /\ ~sameAccount(t, s)
  BY DEF Joins
<1>4. hub.roomOf[t] = NoRoom /\ hasSession(hub, t)
  <2>1. ~inMatch(hub, t) /\ hasSession(hub, t)
    BY <1>2 DEF inMatch, inLobbyOf
  <2> QED BY <2>1, <1>1, <1>2, Crewed DEF RoomSide
<1>5. /\ q \in Hub /\ SamePlayers(q, hub) /\ q.told = hub.told
      /\ q.games = hub.games /\ q.hosting = hub.hosting /\ q.queue = dequeued(hub.queue, s)
  BY <1>1, Cancelled DEF QueueOf
<1>6. hub' = broadcastLobbyList(r)
  BY DEF Joins
<1>7. m = [q EXCEPT !.games = games, !.hosting = hosting]
  BY <1>2, <1>5 DEF claimed
<1>8. games \in Seq(Game)
  BY <1>1, <1>2, GamesWithout
<1>9. hosting \in [Sockets -> Codes \cup {NoCode}]
  BY <1>1 DEF Hub
<1> HIDE DEF q, t, games, hosting, m
<1>10. /\ m \in Hub /\ SamePlayers(m, hub) /\ m.told = hub.told
       /\ m.queue = dequeued(hub.queue, s) /\ m.games = games /\ m.hosting = hosting
  <2>1. /\ SamePlayers(m, q) /\ m.told = q.told /\ m.queue = q.queue
        /\ m.games = games /\ m.hosting = hosting
    BY <1>5, <1>7 DEF Hub, SamePlayers
  <2>2. m \in Hub
    BY <1>5, <1>7, <1>8, <1>9 DEF Hub
  <2> QED BY <2>1, <2>2, <1>5 DEF SamePlayers
<1>11. RoomSide(m) /\ m.roomOf[t] = NoRoom /\ m.roomOf[s] = NoRoom
  <2>1. RoomSide(m)
    BY <1>1, <1>10, RoomsUnmoved
  <2> QED BY <2>1, <1>1, <1>4, <1>10 DEF SamePlayers
<1>12. hasSession(m, t) /\ hasSession(m, s) /\ m.made < LOBBY_ROOM + MaxRooms
  BY <1>1, <1>4, <1>10 DEF SamePlayers, hasSession
<1>13. r \in Hub /\ SameWaiters(r, m) /\ Met(r, m, t, s)
  BY <1>2, <1>3, <1>10, <1>12, MatchMade
<1> HIDE DEF r
<1>14. RoomSide(r)
  BY <1>2, <1>3, <1>10, <1>11, <1>12, <1>13, MetKeeps
<1>15. /\ hub' \in Hub /\ SamePlayers(hub', r) /\ SameWaiters(hub', r) /\ ListsFresh(hub')
       /\ \A u \in Sockets : hub'.told[u].room = r.told[u].room
  BY <1>6, <1>13, Broadcast
<1>16. RoomSide(hub')
  BY <1>13, <1>14, <1>15, RoomsUnmoved
<1>17. Joined(hub', hub, s, t)
  <2>1. /\ hub'.queue = dequeued(hub.queue, s) /\ hub'.games = games /\ hub'.hosting = hosting
    BY <1>10, <1>13, <1>15 DEF SameWaiters
  <2>2. \A u \in Sockets :
            hub'.sessions[u] = IF u \in {s, t} THEN [hub.sessions[u] EXCEPT !.roomId = hub'.made]
                               ELSE hub.sessions[u]
    BY <1>10, <1>13, <1>15 DEF Met, SamePlayers
  <2>3. hub'.made \in RoomIds
    <3>1. hub'.made = hub.made + 1 /\ hub.made \in LOBBY_ROOM .. LOBBY_ROOM + MaxRooms
      BY <1>1, <1>10, <1>13, <1>15 DEF Met, SamePlayers, Hub
    <3> QED BY <3>1, <1>1 DEF RoomIds, LOBBY_ROOM
  <2> QED BY <2>1, <2>2, <2>3, <1>2, <1>3 DEF Joined, games, hosting
<1> QED BY <1>2, <1>15, <1>16, <1>17 DEF t

\* LobbyJoin keeps the invariant.
LEMMA JoinKeeps ==
    ASSUME LobbyInv(hub), NEW s \in Sockets, NEW i \in DOMAIN hub.games, Joins(s, i),
           hub.hosting[s] = NoCode
    PROVE  LobbyInv(hub')
<1> DEFINE t == hub.games[i].host
<1>1. /\ hub' \in Hub /\ RoomSide(hub') /\ ListsFresh(hub')
      /\ t \in Sockets /\ Joined(hub', hub, s, t)
  BY JoinMade
<1> HIDE DEF t
<1>2. hub \in Hub /\ WaitSide(hub)
  BY Sides
<1>3. /\ hub'.queue = dequeued(hub.queue, s)
      /\ hub'.games = without(hub.games, hub.hosting[t])
      /\ hub'.hosting = [hub.hosting EXCEPT ![t] = NoCode]
      /\ hub.hosting[t] # NoCode /\ t # s
  BY <1>1 DEF Joined
<1>4. \A u \in Sockets \ {s, t} : inLobbyOf(hub, u) => inLobbyOf(hub', u)
  BY <1>1 DEF Joined, inLobbyOf, hasSession
<1>5. QueueOf(hub')
  <2>1. hub.queue \in Seq(Entry) /\ Distinct(hub.queue) /\ Unmatched(hub.queue)
    BY <1>2, HubEntries DEF WaitSide, QueueOf
  <2>2. /\ Distinct(hub'.queue) /\ Unmatched(hub'.queue)
        /\ \A j \in DOMAIN hub'.queue :
            hub'.queue[j].socket # s /\ \E n \in DOMAIN hub.queue : hub'.queue[j] = hub.queue[n]
    BY <1>3, <2>1, QueueCancelled
  <2>3. \A j \in DOMAIN hub.queue : hub.queue[j].socket \in Sockets /\ Waits(hub, hub.queue[j].socket)
    BY <1>2, HubEntries DEF WaitSide, QueueOf
  <2>4. ASSUME NEW j \in DOMAIN hub'.queue PROVE Waits(hub', hub'.queue[j].socket)
    <3> DEFINE u == hub'.queue[j].socket
    <3>1. u \in Sockets \ {s} /\ Waits(hub, u)
      BY <2>2, <2>3
    <3> HIDE DEF u
    <3>2. u # t
      BY <3>1, <1>3 DEF Waits
    <3>3. hub'.hosting[u] = hub.hosting[u]
      BY <3>1, <3>2, <1>2, <1>3 DEF Hub
    <3>4. Waits(hub', u)
      BY <3>1, <3>2, <3>3, <1>4 DEF Waits
    <3> QED BY <3>4 DEF u
  <2> QED BY <2>2, <2>4 DEF QueueOf
<1>6. GamesOf(hub')
  <2>1. GamesOf(hub)
    BY <1>2 DEF WaitSide
  <2>2. hub'.games = IF hub.hosting[t] = NoCode THEN hub.games
                     ELSE without(hub.games, hub.hosting[t])
    BY <1>3
  <2>3. \A u \in Sockets \ {t} :
            inLobbyOf(hub, u) /\ hub.hosting[u] # NoCode => inLobbyOf(hub', u)
    BY <1>4
  <2> QED BY <1>1, <1>2, <1>3, <2>1, <2>2, <2>3, WithoutGame
<1> QED BY <1>1, <1>5, <1>6, Sides DEF WaitSide

-----------------------------------------------------------------------------

(* The invariant.                                                            *)

\* The server starts with nobody connected.
LEMMA InitInv == Init => LobbyInv(hub)
<1> SUFFICES ASSUME Init PROVE LobbyInv(hub)
  OBVIOUS
<1>1. newSession \in Session /\ newTold \in Told /\ newTold.room = NoRoom
  BY DEF newSession, newTold, Session, Told, Lists, RoomOrNone
<1>2. /\ \A s \in Sockets : hub.sessions[s] = newSession /\ hub.hosting[s] = NoCode
                            /\ hub.roomOf[s] = NoRoom /\ hub.told[s] = newTold
      /\ hub.subscribers = {} /\ hub.queue = <<>> /\ hub.games = <<>> /\ hub.rooms = {}
      /\ hub.made = LOBBY_ROOM
  BY DEF Init, newHub
<1>3. hub \in Hub
  <2>1. /\ [s \in Sockets |-> newSession] \in [Sockets -> Session]
        /\ [s \in Sockets |-> newTold] \in [Sockets -> Told]
        /\ [s \in Sockets |-> NoCode] \in [Sockets -> Codes \cup {NoCode}]
        /\ [s \in Sockets |-> NoRoom] \in [Sockets -> RoomOrNone]
        /\ LOBBY_ROOM \in LOBBY_ROOM .. LOBBY_ROOM + MaxRooms
    BY <1>1 DEF RoomOrNone, LOBBY_ROOM
  <2> QED BY <2>1 DEF Init, newHub, Hub
<1>4. newSession.state = "none" /\ newSession.roomId = NoRoom
  BY DEF newSession
<1>5. RoomsSound(hub)
  BY <1>2, <1>4, Numbers DEF RoomsSound, InRoom
<1>6. QueueOf(hub) /\ GamesOf(hub)
  BY <1>2 DEF QueueOf, Distinct, Unmatched, GamesOf, UniqueCodes
<1>7. SubscribersPresent(hub) /\ ListsFresh(hub) /\ RoomsTold(hub) /\ Unborn(hub)
  BY <1>1, <1>2 DEF SubscribersPresent, ListsFresh, RoomsTold, Unborn
<1> QED BY <1>3, <1>5, <1>6, <1>7 DEF LobbyInv

\* The packets of a client that hosts a game neither queue it nor join it elsewhere.
LEMMA PacketKeeps ==
    ASSUME OnePurpose, LobbyInv(hub), NEW s \in Sockets, Packet(s)
    PROVE  LobbyInv(hub')
<1>1. hub \in Hub
  BY DEF LobbyInv
<1>2. CASE UserInfo(s) \/ JoinLobby(s)
  BY <1>1, <1>2, UserInfoMade, JoinLobbyMade, AdjustedKeeps
<1>3. CASE LeaveRoom(s)
  BY <1>3, DeparturesKeep
<1>4. CASE \E v \in Variants : Search(s, v)
  <2>1. PICK v \in Variants : Search(s, v)
    BY <1>4
  <2>2. hub.hosting[s] = NoCode
    BY <2>1 DEF Search
  <2> QED BY <2>1, <2>2, SearchKeeps
<1>5. CASE CancelSearch(s)
  BY <1>5, CancelSearchKeeps
<1>6. ASSUME hasSession(hub, s), hub' = refuse(hub, s) PROVE LobbyInv(hub')
  BY <1>1, <1>6, Refused, AdjustedKeeps
<1>7. CASE \E private \in BOOLEAN : LobbyCreate(s, private)
  <2>1. PICK private \in BOOLEAN : LobbyCreate(s, private)
    BY <1>7
  <2>2. CASE hub' = refuse(hub, s)
    BY <2>1, <2>2, <1>6 DEF LobbyCreate, arrives
  <2>3. CASE hub' # refuse(hub, s)
    <3>1. /\ arrives(s) /\ inLobby(s) /\ hub.hosting[s] = NoCode
          /\ \E c \in Codes \ {hub.games[i].code : i \in DOMAIN hub.games} :
                hub' = broadcastLobbyList(hosted(hub, s, c, private))
      BY <2>1, <2>3 DEF LobbyCreate
    <3> QED BY <3>1, LobbyCreateKeeps
  <2> QED BY <2>2, <2>3
<1>8. CASE \E c \in Codes : LobbyJoin(s, c)
  <2>1. PICK c \in Codes : LobbyJoin(s, c)
    BY <1>8
  <2>2. CASE hub' = refuse(hub, s)
    BY <2>1, <2>2, <1>6 DEF LobbyJoin, arrives
  <2>3. CASE hub' # refuse(hub, s)
    <3>1. PICK i \in DOMAIN hub.games : Joins(s, i)
      BY <2>1, <2>3 DEF LobbyJoin, Joins
    <3>2. hub.hosting[s] = NoCode
      BY <2>1 DEF LobbyJoin
    <3> QED BY <3>1, <3>2, JoinKeeps
  <2> QED BY <2>2, <2>3
<1>9. CASE LobbyCancel(s)
  BY <1>9, LobbyCancelKeeps
<1>10. CASE Violation(s)
  BY <1>6, <1>10 DEF Violation, arrives
<1>11. CASE \E subscribed \in BOOLEAN : LobbySubscribe(s, subscribed)
  BY <1>11, LobbySubscribeKeeps
<1> QED BY <1>2, <1>3, <1>4, <1>5, <1>7, <1>8, <1>9, <1>10, <1>11 DEF Packet

\* Every step keeps the invariant.
LEMMA NextKeeps ==
    ASSUME OnePurpose, LobbyInv(hub), [Next]_vars
    PROVE  LobbyInv(hub')
<1>1. CASE Next
  <2>1. PICK s \in Sockets : Packet(s) \/ Connect(s) \/ Close(s) \/ Closed(s)
    BY <1>1 DEF Next
  <2> QED BY <2>1, PacketKeeps, ConnectKeeps, DeparturesKeep
<1>2. CASE UNCHANGED vars
  BY <1>2 DEF vars
<1> QED BY <1>1, <1>2

\* The invariant holds throughout.
LEMMA LobbyInvariant ==
    ASSUME OnePurpose
    PROVE  Spec => []LobbyInv(hub)
<1>1. LobbyInv(hub) /\ [Next]_vars => LobbyInv(hub)'
  BY NextKeeps
<1> QED BY <1>1, InitInv, PTL DEF Spec

-----------------------------------------------------------------------------

(* What the invariant gives.                                                 *)

\* The invariant gives RoomsAgree: two different members make a room of two.
LEMMA RoomsAgreeAt == LobbyInv(hub) => RoomsAgree
<1> SUFFICES ASSUME LobbyInv(hub) PROVE RoomsAgree
  OBVIOUS
<1>1. RoomsSound(hub)
  BY DEF LobbyInv
<1>2. ASSUME NEW r \in hub.rooms
      PROVE  /\ Cardinality(r.members) = 2
             /\ \A s, t \in r.members : s # t => ~sameAccount(s, t)
             /\ \A s \in r.members :
                hasSession(hub, s) /\ hub.roomOf[s] = r.id /\ hub.sessions[s].roomId = r.id
  <2>1. RoomSound(hub, r)
    BY <1>1 DEF RoomsSound
  <2>2. PICK x \in Sockets, y \in Sockets : r.members = {x, y} /\ x # y /\ ~sameAccount(x, y)
    BY <2>1 DEF RoomSound
  <2>3. Cardinality(r.members) = 2
    <3> DEFINE one == {x}
    <3>1. IsFiniteSet(one) /\ Cardinality(one) = 1
      BY FS_Singleton
    <3>2. y \notin one /\ one \cup {y} = r.members
      BY <2>2
    <3> HIDE DEF one
    <3>3. Cardinality(one \cup {y}) = Cardinality(one) + 1
      BY <3>1, <3>2, FS_AddElement
    <3> QED BY <3>1, <3>2, <3>3
  <2>4. ~sameAccount(y, x)
    BY <2>2 DEF sameAccount
  <2> QED BY <2>1, <2>2, <2>3, <2>4 DEF RoomSound
<1>3. \A s \in Sockets : InRoom(hub, s)
  BY <1>1 DEF RoomsSound
<1> QED BY <1>2, <1>3 DEF RoomsAgree, InRoom

\* The invariant gives WaitersSound.
LEMMA WaitersSoundAt == LobbyInv(hub) => WaitersSound
<1> SUFFICES ASSUME LobbyInv(hub) PROVE QueueSound /\ GamesSound
  BY DEF WaitersSound
<1>1. hub \in Hub /\ QueueOf(hub) /\ GamesOf(hub)
  BY DEF LobbyInv
<1>2. QueueSound
  <2> SUFFICES ASSUME NEW i \in DOMAIN hub.queue
               PROVE  /\ Waits(hub, hub.queue[i].socket)
                      /\ \A j \in 1 .. i - 1 :
                            /\ hub.queue[j].socket # hub.queue[i].socket
                            /\ ~compatible(hub.queue[i], hub.queue[j])
    BY DEF QueueSound, Waits, inLobbyOf
  <2>1. Waits(hub, hub.queue[i].socket)
    BY <1>1 DEF QueueOf
  <2>2. \A j \in 1 .. i - 1 : j \in DOMAIN hub.queue /\ j # i /\ j < i
    <3>1. hub.queue \in Seq(Entry)
      BY <1>1, HubEntries
    <3> QED BY <3>1
  <2>3. \A j \in 1 .. i - 1 :
            /\ hub.queue[j].socket # hub.queue[i].socket
            /\ ~compatible(hub.queue[j], hub.queue[i])
    BY <2>2, <1>1 DEF QueueOf, Distinct, Unmatched
  <2> QED BY <2>1, <2>3, CompatibleBothWays
<1>3. GamesSound
  BY <1>1 DEF GamesOf, UniqueCodes, GamesSound, inLobbyOf
<1> QED BY <1>2, <1>3

\* The invariant gives NewsFresh.
LEMMA NewsFreshAt == LobbyInv(hub) => NewsFresh
BY DEF LobbyInv, NewsFresh, SubscribersPresent, ListsFresh, RoomsTold

\* The rooms, the coordinator's index of them and the handler's sessions agree: a room has
\* two connected members, of two accounts, as long as it exists, and nobody is indexed
\* under or counted into a room that is gone (matchCoordinator.ts, gameHandler.ts).
THEOREM RoomsAlwaysAgree ==
    ASSUME OnePurpose
    PROVE  Spec => []RoomsAgree
BY LobbyInvariant, RoomsAgreeAt, PTL

\* Whoever waits for a match, in the queue or with a game in the list, is connected, waits
\* in the lobby and in one place only; and no two players in the queue could play each other
\* (enqueueQuickMatch, createPendingGame, joinPendingGame, cancelPendingGame).
THEOREM WaitersAlwaysSound ==
    ASSUME OnePurpose
    PROVE  Spec => []WaitersSound
BY LobbyInvariant, WaitersSoundAt, PTL

\* What an open socket was last told is so: a subscriber knows the games it can join, and a
\* player the room it is in, or that it is in none (broadcastLobbyList, announceMatch,
\* detachFromRoom).
THEOREM NewsAlwaysFresh ==
    ASSUME OnePurpose
    PROVE  Spec => []NewsFresh
BY LobbyInvariant, NewsFreshAt, PTL

-----------------------------------------------------------------------------

(* Each socket lives as one Connection.                                      *)

InQueue(h, s) == \E i \in DOMAIN h.queue : h.queue[i].socket = s

\* placeOf, in the hub h.
PlaceIn(h, s) ==
    CASE h.sessions[s].roomId = NoRoom       -> "out"
      [] h.sessions[s].roomId \in RoomIds    -> "room"
      [] h.hosting[s] # NoCode               -> "hosting"
      [] InQueue(h, s)                       -> "queued"
      [] OTHER                               -> "lobby"

\* The places between which one step takes a connection that stays up.
Moves ==
    {<<"out", "lobby">>,
     <<"lobby", "queued">>, <<"queued", "lobby">>,
     <<"lobby", "hosting">>, <<"queued", "hosting">>, <<"hosting", "lobby">>,
     <<"lobby", "room">>, <<"queued", "room">>, <<"hosting", "room">>}

\* The steps of Connection, between two values of the hub.
Lives(k, h, s) ==
    LET was == h.sessions[s].state
        is  == k.sessions[s].state
    IN  \/ is = was /\ PlaceIn(k, s) = PlaceIn(h, s)
        \/ was = "none" /\ PlaceIn(h, s) = "out" /\ is = "open" /\ PlaceIn(k, s) = "out"
        \/ /\ was \in {"open", "closing"}
           /\ \/ is = "closing" /\ PlaceIn(k, s) = PlaceIn(h, s)
              \/ is = "gone" /\ PlaceIn(k, s) = "out"
              \/ is = was /\ PlaceIn(k, s) = "out"
              \/ is = was /\ <<PlaceIn(h, s), PlaceIn(k, s)>> \in Moves

\* Only one alternative of PlaceIn applies.
LEMMA Placed ==
    ASSUME NEW h, LobbyInv(h), NEW s \in Sockets
    PROVE  /\ h.sessions[s].roomId \in RoomIds \cup {NoRoom, LOBBY_ROOM}
           /\ h.sessions[s].roomId = NoRoom => PlaceIn(h, s) = "out"
           /\ h.sessions[s].roomId \in RoomIds => PlaceIn(h, s) = "room"
           /\ h.sessions[s].roomId = LOBBY_ROOM =>
                /\ h.hosting[s] # NoCode => PlaceIn(h, s) = "hosting"
                /\ h.hosting[s] = NoCode /\ InQueue(h, s) => PlaceIn(h, s) = "queued"
                /\ h.hosting[s] = NoCode /\ ~InQueue(h, s) => PlaceIn(h, s) = "lobby"
<1>1. h.sessions[s].roomId \in RoomIds \cup {NoRoom, LOBBY_ROOM}
  BY HubFields DEF LobbyInv, Session, RoomOrNone
<1>2. h.hosting[s] # NoCode => h.sessions[s].roomId = LOBBY_ROOM
  <2> SUFFICES ASSUME h.hosting[s] # NoCode PROVE h.sessions[s].roomId = LOBBY_ROOM
    OBVIOUS
  <2>1. PICK i \in DOMAIN h.games : h.games[i].host = s
    BY DEF LobbyInv, GamesOf
  <2> QED BY <2>1 DEF LobbyInv, GamesOf, inLobbyOf
<1>3. InQueue(h, s) => h.sessions[s].roomId = LOBBY_ROOM /\ h.hosting[s] = NoCode
  BY DEF InQueue, LobbyInv, QueueOf, Waits, inLobbyOf
<1>4. CASE h.sessions[s].roomId = NoRoom
  BY <1>1, <1>2, <1>3, <1>4, Numbers DEF PlaceIn
<1>5. CASE h.sessions[s].roomId \in RoomIds
  BY <1>1, <1>2, <1>3, <1>5, Numbers DEF PlaceIn
<1>6. CASE h.sessions[s].roomId = LOBBY_ROOM
  <2>1. CASE h.hosting[s] # NoCode
    BY <1>1, <1>3, <1>6, <2>1, Numbers DEF PlaceIn
  <2>2. CASE h.hosting[s] = NoCode /\ InQueue(h, s)
    BY <1>1, <1>6, <2>2, Numbers DEF PlaceIn
  <2>3. CASE h.hosting[s] = NoCode /\ ~InQueue(h, s)
    BY <1>1, <1>6, <2>3, Numbers DEF PlaceIn
  <2> QED BY <1>1, <1>6, <2>1, <2>2, <2>3, Numbers
<1> QED BY <1>1, <1>4, <1>5, <1>6

\* These are steps of Connection: of a packet, of the network or of another player.
LEMMA Lived ==
    ASSUME NEW s \in Sockets, Lives(hub', hub, s)
    PROVE  ConnectionOf(s)!Step
<1> DEFINE was == hub.sessions[s].state
           is == hub'.sessions[s].state
           at == PlaceIn(hub, s)
           then == PlaceIn(hub', s)
<1>1. placeOf(s) = at /\ placeOf(s)' = then
  BY DEF placeOf, PlaceIn, InQueue
<1>2. \/ is = was /\ then = at
      \/ was = "none" /\ at = "out" /\ is = "open" /\ then = "out"
      \/ /\ was \in {"open", "closing"}
         /\ \/ is = "closing" /\ then = at
            \/ is = "gone" /\ then = "out"
            \/ is = was /\ then = "out"
            \/ is = was /\ <<at, then>> \in Moves
  BY DEF Lives
<1> HIDE DEF was, is, at, then
<1>3. hub.sessions[s].state = was /\ hub'.sessions[s].state = is
  BY DEF was, is
<1>4. CASE is = was /\ then = at
  BY <1>1, <1>3, <1>4 DEF ConnectionOf!Step
<1>5. CASE was = "none" /\ at = "out" /\ is = "open" /\ then = "out"
  BY <1>1, <1>3, <1>5 DEF ConnectionOf!Step, ConnectionOf!Next, ConnectionOf!Opens, ConnectionOf!fresh
<1>6. CASE was \in {"open", "closing"} /\ is = "closing" /\ then = at
  BY <1>1, <1>3, <1>6 DEF ConnectionOf!Step, ConnectionOf!Next, ConnectionOf!Violates, ConnectionOf!served
<1>7. CASE was \in {"open", "closing"} /\ is = "gone" /\ then = "out"
  BY <1>1, <1>3, <1>7 DEF ConnectionOf!Step, ConnectionOf!Next, ConnectionOf!Ends, ConnectionOf!served, ConnectionOf!fresh
<1>8. CASE was \in {"open", "closing"} /\ is = was /\ (then = "out" \/ <<at, then>> \in Moves)
  <2>1. ASSUME NEW packet \in ConnectionOf(s)!Packets,
               ConnectionOf(s)!onePurpose(packet, at), ~ConnectionOf(s)!refused(packet, at),
               then \in ConnectionOf(s)!handled(packet, at)
        PROVE  ConnectionOf(s)!Step
    BY <1>1, <1>3, <1>8, <2>1
       DEF ConnectionOf!Step, ConnectionOf!Next, ConnectionOf!Handle, ConnectionOf!served
  <2>2. CASE then = "out"
    <3>1. "leave" \in ConnectionOf(s)!Packets /\ ConnectionOf(s)!onePurpose("leave", at)
          /\ ~ConnectionOf(s)!refused("leave", at)
      BY DEF ConnectionOf!Packets, ConnectionOf!onePurpose, ConnectionOf!refused
    <3>2. then \in ConnectionOf(s)!handled("leave", at)
      BY <2>2 DEF ConnectionOf!handled
    <3> QED BY <3>1, <3>2, <2>1
  <2>3. CASE <<at, then>> = <<"out", "lobby">>
    BY <2>1, <2>3 DEF ConnectionOf!Packets, ConnectionOf!onePurpose, ConnectionOf!refused, ConnectionOf!handled
  <2>4. CASE <<at, then>> \in {<<"lobby", "queued">>, <<"lobby", "room">>, <<"queued", "room">>}
    <3>1. at \in {"lobby", "queued"} /\ then \in {"queued", "room"}
      BY <2>4
    <3>2. "search" \in ConnectionOf(s)!Packets /\ ConnectionOf(s)!onePurpose("search", at)
          /\ ~ConnectionOf(s)!refused("search", at)
      BY <3>1 DEF ConnectionOf!Packets, ConnectionOf!onePurpose, ConnectionOf!refused
    <3>3. then \in ConnectionOf(s)!handled("search", at)
      BY <3>1 DEF ConnectionOf!handled, ConnectionOf!waiting
    <3> QED BY <3>2, <3>3, <2>1
  <2>5. CASE <<at, then>> = <<"queued", "lobby">>
    BY <2>1, <2>5 DEF ConnectionOf!Packets, ConnectionOf!onePurpose, ConnectionOf!refused, ConnectionOf!handled, ConnectionOf!waiting
  <2>6. CASE <<at, then>> \in {<<"lobby", "hosting">>, <<"queued", "hosting">>}
    <3>1. at \in {"lobby", "queued"} /\ then = "hosting"
      BY <2>6
    <3>2. "create" \in ConnectionOf(s)!Packets /\ ConnectionOf(s)!onePurpose("create", at)
          /\ ~ConnectionOf(s)!refused("create", at)
      BY <3>1 DEF ConnectionOf!Packets, ConnectionOf!onePurpose, ConnectionOf!refused
    <3>3. then \in ConnectionOf(s)!handled("create", at)
      BY <3>1 DEF ConnectionOf!handled, ConnectionOf!waiting
    <3> QED BY <3>2, <3>3, <2>1
  <2>7. CASE <<at, then>> = <<"hosting", "lobby">>
    BY <2>1, <2>7 DEF ConnectionOf!Packets, ConnectionOf!onePurpose, ConnectionOf!refused, ConnectionOf!handled, ConnectionOf!waiting
  <2>8. CASE <<at, then>> = <<"hosting", "room">>
    BY <1>1, <1>3, <1>8, <2>8
       DEF ConnectionOf!Step, ConnectionOf!Next, ConnectionOf!Matched, ConnectionOf!served
  <2> QED BY <1>8, <2>2, <2>3, <2>4, <2>5, <2>6, <2>7, <2>8 DEF Moves
<1> QED BY <1>2, <1>4, <1>5, <1>6, <1>7, <1>8

\* The place of a socket is read off its room, the list and the queue.
LEMMA SamePlace ==
    ASSUME NEW h, LobbyInv(h), NEW k, LobbyInv(k), NEW s \in Sockets,
           k.sessions[s].roomId = h.sessions[s].roomId, k.hosting[s] = h.hosting[s],
           InQueue(k, s) <=> InQueue(h, s)
    PROVE  PlaceIn(k, s) = PlaceIn(h, s)
<1>1. /\ h.sessions[s].roomId \in RoomIds \cup {NoRoom, LOBBY_ROOM}
      /\ h.sessions[s].roomId = NoRoom => PlaceIn(h, s) = "out"
      /\ h.sessions[s].roomId \in RoomIds => PlaceIn(h, s) = "room"
      /\ h.sessions[s].roomId = LOBBY_ROOM =>
            /\ h.hosting[s] # NoCode => PlaceIn(h, s) = "hosting"
            /\ h.hosting[s] = NoCode /\ InQueue(h, s) => PlaceIn(h, s) = "queued"
            /\ h.hosting[s] = NoCode /\ ~InQueue(h, s) => PlaceIn(h, s) = "lobby"
  BY Placed
<1>2. /\ k.sessions[s].roomId = NoRoom => PlaceIn(k, s) = "out"
      /\ k.sessions[s].roomId \in RoomIds => PlaceIn(k, s) = "room"
      /\ k.sessions[s].roomId = LOBBY_ROOM =>
            /\ k.hosting[s] # NoCode => PlaceIn(k, s) = "hosting"
            /\ k.hosting[s] = NoCode /\ InQueue(k, s) => PlaceIn(k, s) = "queued"
            /\ k.hosting[s] = NoCode /\ ~InQueue(k, s) => PlaceIn(k, s) = "lobby"
  BY Placed
<1> QED BY <1>1, <1>2

\* Who hosts or waits is in the lobby; who is elsewhere does neither.
LEMMA Elsewhere ==
    ASSUME NEW h, LobbyInv(h), NEW s \in Sockets, h.sessions[s].roomId # LOBBY_ROOM
    PROVE  h.hosting[s] = NoCode /\ ~InQueue(h, s)
<1>1. h.hosting[s] = NoCode
  BY DEF LobbyInv, GamesOf, inLobbyOf
<1>2. ~InQueue(h, s)
  BY DEF InQueue, LobbyInv, QueueOf, Waits, inLobbyOf
<1> QED BY <1>1, <1>2

\* UserInfo, JoinLobby and a refusal are steps of one Connection and none of the others.
LEMMA AdjustedLives ==
    ASSUME LobbyInv(hub), LobbyInv(hub'), NEW s \in Sockets, Adjusted(hub', hub, s),
           \/ hub'.sessions[s].state = hub.sessions[s].state
           \/ /\ hub'.sessions[s].state = "closing"
              /\ hub'.sessions[s].roomId = hub.sessions[s].roomId
    PROVE  \A u \in Sockets : Lives(hub', hub, u)
<1> TAKE u \in Sockets
<1>1. \A x : (InQueue(hub', x) <=> InQueue(hub, x)) /\ hub'.hosting[x] = hub.hosting[x]
  BY DEF Adjusted, SameWaiters, InQueue
<1>2. hub.sessions[s].state \in {"open", "closing"}
  BY DEF Adjusted, hasSession
<1>3. CASE hub'.sessions[u].roomId = hub.sessions[u].roomId
  <2>1. PlaceIn(hub', u) = PlaceIn(hub, u)
    BY <1>1, <1>3, SamePlace
  <2>2. CASE u # s
    <3>1. hub'.sessions[u] = hub.sessions[u]
      BY <2>2 DEF Adjusted
    <3> QED BY <2>1, <3>1 DEF Lives
  <2>3. CASE u = s
    BY <1>2, <2>1, <2>3 DEF Lives
  <2> QED BY <2>2, <2>3
<1>4. CASE hub'.sessions[u].roomId # hub.sessions[u].roomId
  <2>1. u = s /\ hub.sessions[s].roomId = NoRoom /\ hub'.sessions[s].roomId = LOBBY_ROOM
    BY <1>4 DEF Adjusted
  <2>2. hub'.sessions[s].state = hub.sessions[s].state
    BY <1>4, <2>1
  <2>3. hub'.hosting[s] = NoCode /\ ~InQueue(hub', s)
    BY <1>1, <2>1, Elsewhere, Numbers
  <2>4. PlaceIn(hub, s) = "out" /\ PlaceIn(hub', s) = "lobby"
    BY <2>1, <2>3, Placed
  <2> QED BY <1>2, <2>1, <2>2, <2>4 DEF Lives, Moves
<1> QED BY <1>3, <1>4

\* A departure is a step of s, and LeftBehind for whoever was in its room.
LEMMA DepartedLives ==
    ASSUME LobbyInv(hub), LobbyInv(hub'), NEW s \in Sockets, Departed(hub', hub, s),
           hasSession(hub, s),
           hub'.sessions[s].state \in {hub.sessions[s].state, "gone"}
    PROVE  \A u \in Sockets : Lives(hub', hub, u)
<1> TAKE u \in Sockets
<1>1. hub \in Hub /\ hub' \in Hub /\ RoomsSound(hub) /\ QueueOf(hub)
  BY DEF LobbyInv
<1>2. CASE u = s
  <2>1. hub'.sessions[s].roomId = NoRoom
    BY DEF Departed
  <2>2. PlaceIn(hub', s) = "out"
    BY <2>1, Placed
  <2> QED BY <1>2, <2>2 DEF Lives, hasSession
<1>3. CASE u # s /\ inMatch(hub, s) /\ u \in crew(hub, s)
  <2>1. hasSession(hub, u) /\ hub.sessions[u].roomId = hub.roomOf[s] /\ hub.roomOf[s] \in RoomIds
    BY <1>1, <1>3, Crewed, HubFields DEF RoomOrNone
  <2>2. hub'.sessions[u].roomId = NoRoom /\ hub'.sessions[u].state = hub.sessions[u].state
    BY <1>1, <1>3, DepartedSessions
  <2>3. PlaceIn(hub', u) = "out"
    BY <2>2, Placed
  <2> QED BY <2>1, <2>2, <2>3 DEF Lives, hasSession
<1>4. CASE u # s /\ ~(inMatch(hub, s) /\ u \in crew(hub, s))
  <2>1. hub'.sessions[u] = hub.sessions[u]
    BY <1>4 DEF Departed
  <2>2. hub'.hosting[u] = hub.hosting[u]
    BY <1>1, <1>4 DEF Departed, Hub
  <2>3. InQueue(hub', u) <=> InQueue(hub, u)
    <3>1. hub.queue \in Seq(Entry) /\ Distinct(hub.queue) /\ hub'.queue = dequeued(hub.queue, s)
      BY <1>1, HubEntries DEF QueueOf, Departed
    <3> QED BY <1>4, <3>1, QueueCancelled DEF InQueue
  <2>4. PlaceIn(hub', u) = PlaceIn(hub, u)
    BY <2>1, <2>2, <2>3, SamePlace
  <2> QED BY <2>1, <2>4 DEF Lives
<1> QED BY <1>2, <1>3, <1>4

\* Whose session, game and place in the queue stay the same takes no step.
LEMMA StayLives ==
    ASSUME LobbyInv(hub), LobbyInv(hub'), NEW u \in Sockets,
           hub'.sessions[u] = hub.sessions[u], hub'.hosting[u] = hub.hosting[u],
           InQueue(hub', u) <=> InQueue(hub, u)
    PROVE  Lives(hub', hub, u)
<1>1. PlaceIn(hub', u) = PlaceIn(hub, u)
  BY SamePlace
<1> QED BY <1>1 DEF Lives

\* The moves of a connection out of the lobby or the queue.
LEMMA WaiterLives ==
    ASSUME LobbyInv(hub), LobbyInv(hub'), NEW u \in Sockets, Waits(hub, u),
           hub'.sessions[u].state = hub.sessions[u].state,
           \/ hub'.sessions[u].roomId \in RoomIds
           \/ hub'.sessions[u].roomId = LOBBY_ROOM
    PROVE  Lives(hub', hub, u)
<1>1. hub.sessions[u].state \in {"open", "closing"}
  BY DEF Waits, inLobbyOf, hasSession
<1>2. PlaceIn(hub, u) \in {"lobby", "queued"}
  <2>1. hub.sessions[u].roomId = LOBBY_ROOM /\ hub.hosting[u] = NoCode
    BY DEF Waits, inLobbyOf
  <2> QED BY <2>1, Placed
<1>3. PlaceIn(hub', u) \in {"lobby", "queued", "hosting", "room"}
  BY Placed
<1> QED BY <1>1, <1>2, <1>3 DEF Lives, Moves

\* The moves of a connection that hosts a game.
LEMMA HostLives ==
    ASSUME LobbyInv(hub), LobbyInv(hub'), NEW u \in Sockets, hub.hosting[u] # NoCode,
           hub'.sessions[u].state = hub.sessions[u].state,
           \/ hub'.sessions[u].roomId \in RoomIds
           \/ hub'.sessions[u].roomId = LOBBY_ROOM /\ hub'.hosting[u] = NoCode /\ ~InQueue(hub', u)
    PROVE  Lives(hub', hub, u)
<1>1. inLobbyOf(hub, u)
  BY DEF LobbyInv, GamesOf
<1>2. PlaceIn(hub, u) = "hosting" /\ hub.sessions[u].state \in {"open", "closing"}
  BY <1>1, Placed DEF inLobbyOf, hasSession
<1>3. PlaceIn(hub', u) \in {"lobby", "room"}
  BY Placed
<1> QED BY <1>2, <1>3 DEF Lives, Moves

\* Connect is Opens.
LEMMA ConnectLives ==
    ASSUME LobbyInv(hub), LobbyInv(hub'), NEW s \in Sockets, Connect(s)
    PROVE  \A u \in Sockets : Lives(hub', hub, u)
<1> TAKE u \in Sockets
<1>1. hub \in Hub
  BY DEF LobbyInv
<1>2. /\ SameWaiters(hub', hub)
      /\ \A x \in Sockets \ {s} : hub'.sessions[x] = hub.sessions[x]
      /\ hub'.sessions[s].state = "open" /\ hub'.sessions[s].roomId = NoRoom
  BY <1>1 DEF Connect, Hub, SameWaiters, newSession
<1>3. CASE u = s
  <2>1. hub.sessions[s].state = "none" /\ hub.sessions[s].roomId = NoRoom
    BY DEF Connect, LobbyInv, Unborn, newSession
  <2>2. PlaceIn(hub, s) = "out" /\ PlaceIn(hub', s) = "out"
    BY <1>2, <2>1, Placed
  <2> QED BY <1>2, <1>3, <2>1, <2>2 DEF Lives
<1>4. CASE u # s
  BY <1>2, <1>4, StayLives DEF SameWaiters, InQueue
<1> QED BY <1>3, <1>4

\* Search queues s, or is a match for s and Matched for one that waited.
LEMMA SearchLives ==
    ASSUME LobbyInv(hub), LobbyInv(hub'), NEW s \in Sockets, NEW v \in Variants, Search(s, v),
           hub.hosting[s] = NoCode
    PROVE  \A u \in Sockets : Lives(hub', hub, u)
<1>1. hub \in Hub /\ hub' \in Hub /\ Waits(hub, s)
  BY DEF LobbyInv, Search, arrives, inLobby, Waits, inLobbyOf
<1>2. CASE Queued(hub', hub, s)
  <2> TAKE u \in Sockets
  <2>1. hub'.sessions = hub.sessions /\ hub'.hosting = hub.hosting
    BY <1>2 DEF Queued, SamePlayers
  <2>2. CASE u = s
    BY <1>1, <2>1, <2>2, WaiterLives DEF Waits, inLobbyOf
  <2>3. CASE u # s
    <3>1. InQueue(hub', u) <=> InQueue(hub, u)
      BY <1>2, <2>3 DEF Queued, InQueue
    <3> QED BY <2>1, <3>1, StayLives
  <2> QED BY <2>2, <2>3
<1>3. CASE \E x, y \in Sockets : Paired(hub', hub, s, x, y)
  <2> TAKE u \in Sockets
  <2>1. PICK x \in Sockets, y \in Sockets : Paired(hub', hub, s, x, y)
    BY <1>3
  <2>2. \A w \in {x, y} : Waits(hub, w)
    BY <1>1, <2>1 DEF Paired, LobbyInv, QueueOf
  <2>3. \A w \in Sockets : /\ hub'.sessions[w].state = hub.sessions[w].state
                           /\ hub'.sessions[w].roomId = IF w \in {x, y} THEN hub'.made
                                                        ELSE hub.sessions[w].roomId
    BY <1>1, <2>1, MetSessions DEF Paired
  <2>4. CASE u \in {x, y}
    <3>1. hub'.made \in RoomIds
      <4>1. hub'.made = hub.made + 1 /\ hub.made \in LOBBY_ROOM .. LOBBY_ROOM + MaxRooms
            /\ hub.made < LOBBY_ROOM + MaxRooms
        BY <1>1, <2>1 DEF Paired, Met, Hub, Search
      <4> QED BY <4>1 DEF RoomIds, LOBBY_ROOM
    <3> QED BY <2>2, <2>3, <2>4, <3>1, WaiterLives
  <2>5. CASE u \notin {x, y}
    <3>1. hub'.sessions[u] = hub.sessions[u] /\ hub'.hosting[u] = hub.hosting[u]
      BY <2>1, <2>5 DEF Paired, Met
    <3>2. InQueue(hub', u) <=> InQueue(hub, u)
      BY <2>1, <2>5 DEF Paired, InQueue
    <3> QED BY <3>1, <3>2, StayLives
  <2> QED BY <2>4, <2>5
<1> QED BY <1>2, <1>3, SearchMade

\* Where only the queue, the list and who hosts change, all others stay where they were.
LEMMA OthersStay ==
    ASSUME LobbyInv(hub), LobbyInv(hub'), NEW s \in Sockets, NEW u \in Sockets, u # s,
           hub'.sessions[u] = hub.sessions[u], hub'.hosting[u] = hub.hosting[u],
           hub'.queue = dequeued(hub.queue, s)
    PROVE  Lives(hub', hub, u)
<1>1. hub.queue \in Seq(Entry) /\ Distinct(hub.queue)
  BY HubEntries DEF LobbyInv, QueueOf
<1>2. InQueue(hub', u) <=> InQueue(hub, u)
  BY <1>1, QueueCancelled DEF InQueue
<1> QED BY <1>2, StayLives

\* CancelSearch takes s, if it waits, back to the lobby.
LEMMA CancelSearchLives ==
    ASSUME LobbyInv(hub), LobbyInv(hub'), NEW s \in Sockets, CancelSearch(s)
    PROVE  \A u \in Sockets : Lives(hub', hub, u)
<1> TAKE u \in Sockets
<1>1. /\ hub'.sessions = hub.sessions /\ hub'.hosting = hub.hosting
      /\ hub'.queue = dequeued(hub.queue, s)
  <2>1. hub \in Hub /\ Distinct(hub.queue)
    BY DEF LobbyInv, QueueOf
  <2> QED BY <2>1, Cancelled DEF CancelSearch, SamePlayers
<1>2. CASE u # s
  BY <1>1, <1>2, OthersStay
<1>3. CASE u = s /\ Waits(hub, s)
  BY <1>1, <1>3, WaiterLives DEF Waits, inLobbyOf
<1>4. CASE u = s /\ ~Waits(hub, s)
  <2>1. ~InQueue(hub, s) /\ ~InQueue(hub', s)
    BY <1>1, <1>4 DEF InQueue, LobbyInv, QueueOf, Waits, inLobbyOf, hasSession
  <2> QED BY <1>1, <1>4, <2>1, StayLives
<1> QED BY <1>2, <1>3, <1>4

\* LobbyCreate makes s a host.
LEMMA LobbyCreateLives ==
    ASSUME LobbyInv(hub), LobbyInv(hub'), NEW s \in Sockets, NEW private \in BOOLEAN,
           inLobby(s), arrives(s), NEW c \in Codes, hub.hosting[s] = NoCode,
           hub' = broadcastLobbyList(hosted(hub, s, c, private))
    PROVE  \A u \in Sockets : Lives(hub', hub, u)
<1> TAKE u \in Sockets
<1>1. /\ hub'.sessions = hub.sessions /\ hub'.queue = dequeued(hub.queue, s)
      /\ \A x \in Sockets \ {s} : hub'.hosting[x] = hub.hosting[x]
  BY LobbyCreateMade DEF SamePlayers
<1>2. CASE u # s
  BY <1>1, <1>2, OthersStay
<1>3. CASE u = s
  BY <1>1, <1>3, WaiterLives DEF Waits, inLobbyOf, inLobby, arrives
<1> QED BY <1>2, <1>3

\* LobbyJoin is a match for s and Matched for the host.
LEMMA JoinLives ==
    ASSUME LobbyInv(hub), LobbyInv(hub'), NEW s \in Sockets, NEW i \in DOMAIN hub.games,
           Joins(s, i), hub.hosting[s] = NoCode
    PROVE  \A u \in Sockets : Lives(hub', hub, u)
<1> DEFINE t == hub.games[i].host
<1> TAKE u \in Sockets
<1>1. t \in Sockets /\ Joined(hub', hub, s, t)
  BY JoinMade
<1> HIDE DEF t
<1>2. hub \in Hub
  BY DEF LobbyInv
<1>3. CASE u \in {s, t}
  <2>1. hub'.sessions[u].state = hub.sessions[u].state /\ hub'.sessions[u].roomId \in RoomIds
    <3>1. /\ hub'.sessions[u] = [hub.sessions[u] EXCEPT !.roomId = hub'.made]
          /\ hub'.made \in RoomIds
      BY <1>1, <1>3 DEF Joined
    <3>2. hub.sessions[u] \in Session
      BY <1>2, HubFields
    <3> QED BY <3>1, <3>2, Moved
  <2>2. CASE u = s
    BY <2>1, <2>2, WaiterLives DEF Joins, arrives, inLobby, Waits, inLobbyOf
  <2>3. CASE u = t
    BY <1>1, <2>1, <2>3, HostLives DEF Joined
  <2> QED BY <1>3, <2>2, <2>3
<1>4. CASE u \notin {s, t}
  <2>1. /\ hub'.sessions[u] = hub.sessions[u] /\ hub'.queue = dequeued(hub.queue, s)
        /\ hub'.hosting[u] = hub.hosting[u]
    BY <1>1, <1>2, <1>4 DEF Joined, Hub
  <2> QED BY <1>4, <2>1, OthersStay
<1> QED BY <1>3, <1>4

\* LobbyCancel takes s, if it hosts, back to the lobby.
LEMMA LobbyCancelLives ==
    ASSUME LobbyInv(hub), LobbyInv(hub'), NEW s \in Sockets, LobbyCancel(s)
    PROVE  \A u \in Sockets : Lives(hub', hub, u)
<1> TAKE u \in Sockets
<1>1. hub \in Hub /\ UniqueCodes(hub.games)
  BY DEF LobbyInv, GamesOf
<1>2. /\ hub'.sessions = hub.sessions /\ hub'.queue = hub.queue
      /\ hub'.hosting[s] = NoCode /\ \A x \in Sockets \ {s} : hub'.hosting[x] = hub.hosting[x]
  <2>1. Delisted(hub', hub, s)
    BY <1>1, Unlisted DEF LobbyCancel
  <2> QED BY <1>1, <2>1 DEF Delisted, SamePlayers, Hub
<1>3. CASE u # s \/ hub.hosting[s] = NoCode
  BY <1>2, <1>3, StayLives DEF InQueue
<1>4. CASE u = s /\ hub.hosting[s] # NoCode
  <2>1. inLobbyOf(hub, s) /\ ~InQueue(hub, s)
    BY <1>4 DEF LobbyInv, GamesOf, InQueue, QueueOf, Waits
  <2> QED BY <1>2, <1>4, <2>1, HostLives DEF InQueue, inLobbyOf
<1> QED BY <1>3, <1>4

\* Each packet of s is a step, or none, of every Connection.
LEMMA PacketLives ==
    ASSUME OnePurpose, LobbyInv(hub), LobbyInv(hub'), NEW s \in Sockets, Packet(s)
    PROVE  \A u \in Sockets : Lives(hub', hub, u)
<1>1. hub \in Hub
  BY DEF LobbyInv
<1>2. CASE UserInfo(s)
  <2>1. Adjusted(hub', hub, s) /\ hub'.sessions[s] = [hub.sessions[s] EXCEPT !.named = TRUE]
    BY <1>1, <1>2, UserInfoMade
  <2>2. hub'.sessions[s].state = hub.sessions[s].state
    BY <1>1, <2>1, HubFields DEF Session
  <2> QED BY <2>1, <2>2, AdjustedLives
<1>3. CASE JoinLobby(s)
  <2>1. Adjusted(hub', hub, s) /\ hub'.sessions[s] = [hub.sessions[s] EXCEPT !.roomId = LOBBY_ROOM]
    BY <1>1, <1>3, JoinLobbyMade
  <2>2. hub'.sessions[s].state = hub.sessions[s].state
    BY <1>1, <2>1, HubFields, Moved
  <2> QED BY <2>1, <2>2, AdjustedLives
<1>4. CASE LeaveRoom(s)
  <2>1. Departed(hub', hub, s) /\ hub'.sessions[s] = [hub.sessions[s] EXCEPT !.roomId = NoRoom]
    BY <1>4, LeaveRoomMade
  <2>2. hub'.sessions[s].state = hub.sessions[s].state /\ hasSession(hub, s)
    BY <1>1, <1>4, <2>1, HubFields, Moved DEF LeaveRoom, arrives
  <2> QED BY <2>1, <2>2, DepartedLives
<1>5. CASE \E v \in Variants : Search(s, v)
  <2>1. PICK v \in Variants : Search(s, v)
    BY <1>5
  <2>2. hub.hosting[s] = NoCode
    BY <2>1 DEF Search
  <2> QED BY <2>1, <2>2, SearchLives
<1>6. CASE CancelSearch(s)
  BY <1>6, CancelSearchLives
<1>7. ASSUME hasSession(hub, s), hub' = refuse(hub, s)
      PROVE  \A u \in Sockets : Lives(hub', hub, u)
  <2>1. /\ Adjusted(hub', hub, s)
        /\ hub'.sessions[s] = [hub.sessions[s] EXCEPT !.state = "closing"]
    BY <1>1, <1>7, Refused
  <2>2. hub'.sessions[s].state = "closing" /\ hub'.sessions[s].roomId = hub.sessions[s].roomId
    BY <1>1, <2>1, HubFields DEF Session
  <2> QED BY <2>1, <2>2, AdjustedLives
<1>8. CASE \E private \in BOOLEAN : LobbyCreate(s, private)
  <2>1. PICK private \in BOOLEAN : LobbyCreate(s, private)
    BY <1>8
  <2>2. CASE hub' = refuse(hub, s)
    BY <2>1, <2>2, <1>7 DEF LobbyCreate, arrives
  <2>3. CASE hub' # refuse(hub, s)
    <3>1. /\ arrives(s) /\ inLobby(s) /\ hub.hosting[s] = NoCode
          /\ \E c \in Codes : hub' = broadcastLobbyList(hosted(hub, s, c, private))
      BY <2>1, <2>3 DEF LobbyCreate
    <3> QED BY <3>1, LobbyCreateLives
  <2> QED BY <2>2, <2>3
<1>9. CASE \E c \in Codes : LobbyJoin(s, c)
  <2>1. PICK c \in Codes : LobbyJoin(s, c)
    BY <1>9
  <2>2. CASE hub' = refuse(hub, s)
    BY <2>1, <2>2, <1>7 DEF LobbyJoin, arrives
  <2>3. CASE hub' # refuse(hub, s)
    <3>1. PICK i \in DOMAIN hub.games : Joins(s, i)
      BY <2>1, <2>3 DEF LobbyJoin, Joins
    <3>2. hub.hosting[s] = NoCode
      BY <2>1 DEF LobbyJoin
    <3> QED BY <3>1, <3>2, JoinLives
  <2> QED BY <2>2, <2>3
<1>10. CASE LobbyCancel(s)
  BY <1>10, LobbyCancelLives
<1>11. CASE Violation(s)
  BY <1>7, <1>11 DEF Violation, arrives
<1>12. CASE \E subscribed \in BOOLEAN : LobbySubscribe(s, subscribed)
  <2>1. Heard(hub', hub, s)
    BY <1>1, <1>12, LobbySubscribeMade
  <2> QED BY <2>1, StayLives DEF Heard, SameWaiters, InQueue
<1> QED BY <1>2, <1>3, <1>4, <1>5, <1>6, <1>8, <1>9, <1>10, <1>11, <1>12 DEF Packet

\* So is every step of the server.
LEMMA NextLives ==
    ASSUME OnePurpose, LobbyInv(hub), LobbyInv(hub'), [Next]_vars
    PROVE  \A u \in Sockets : Lives(hub', hub, u)
<1>1. CASE Next
  <2>1. PICK s \in Sockets : Packet(s) \/ Connect(s) \/ Close(s) \/ Closed(s)
    BY <1>1 DEF Next
  <2>2. CASE Packet(s)
    BY <2>2, PacketLives
  <2>3. CASE Connect(s)
    BY <2>3, ConnectLives
  <2>4. CASE Close(s) \/ Closed(s)
    <3>1. /\ Departed(hub', hub, s) /\ hub'.sessions[s] = [newSession EXCEPT !.state = "gone"]
      BY <2>4, RemoveMade DEF Close, Closed
    <3>2. hasSession(hub, s) /\ hub'.sessions[s].state = "gone"
      BY <2>4, <3>1 DEF Close, Closed, isOpen, hasSession, newSession
    <3> QED BY <3>1, <3>2, DepartedLives
  <2> QED BY <2>1, <2>2, <2>3, <2>4
<1>2. CASE UNCHANGED vars
  BY <1>2 DEF vars, Lives
<1> QED BY <1>1, <1>2

\* Every connection starts as Connection does.
LEMMA ConnectionsStart ==
    ASSUME Init, NEW s \in Sockets
    PROVE  ConnectionOf(s)!Init
<1>1. LobbyInv(hub)
  BY InitInv
<1>2. hub.sessions[s] = newSession
  BY DEF Init, newHub
<1>3. PlaceIn(hub, s) = "out"
  BY <1>1, <1>2, Placed DEF newSession
<1>4. placeOf(s) = "out"
  BY <1>3 DEF placeOf, PlaceIn, InQueue
<1> QED BY <1>2, <1>4 DEF ConnectionOf!Init, ConnectionOf!fresh, newSession

\* Whatever the other players send, each connection moves only as Connection says: it is
\* matched only while it waits for it, and it loses its place only by a packet of its own or
\* the end of its room (every handler of gameHandler.ts).
THEOREM ConnectionsImplemented ==
    ASSUME OnePurpose
    PROVE  Spec => ImplementsConnections
<1>1. Init => \A s \in Sockets : ConnectionOf(s)!Init
  BY ConnectionsStart
<1>2. LobbyInv(hub) /\ LobbyInv(hub)' /\ [Next]_vars =>
        [\A s \in Sockets :
            \/ UNCHANGED <<hub.sessions[s], hub.hosting[s], hub.queue>>
            \/ ConnectionOf(s)!Step]_hub
  <2> SUFFICES ASSUME LobbyInv(hub), LobbyInv(hub'), [Next]_vars, NEW s \in Sockets
               PROVE  ConnectionOf(s)!Step
    OBVIOUS
  <2>1. Lives(hub', hub, s)
    BY NextLives
  <2> QED BY <2>1, Lived
<1> QED BY <1>1, <1>2, LobbyInvariant, PTL DEF Spec, ImplementsConnections

\* The same as a refinement: the lobby implements Connection for each of its sockets.
THEOREM RefinesConnection ==
    ASSUME OnePurpose, NEW s \in Sockets
    PROVE  Spec => ConnectionOf(s)!Spec
<1> DEFINE of == [state |-> hub.sessions[s].state, at |-> placeOf(s)]
<1>1. Init => ConnectionOf(s)!Init
  BY ConnectionsStart
<1>2. LobbyInv(hub) /\ LobbyInv(hub)' /\ [Next]_vars => [ConnectionOf(s)!Next]_of
  <2> SUFFICES ASSUME LobbyInv(hub), LobbyInv(hub'), [Next]_vars
               PROVE  [ConnectionOf(s)!Next]_of
    OBVIOUS
  <2>1. ConnectionOf(s)!Step
    BY NextLives, Lived
  <2> QED BY <2>1 DEF ConnectionOf!Step
<1> QED BY <1>1, <1>2, LobbyInvariant, PTL DEF Spec, ConnectionOf!Spec
=============================================================================
