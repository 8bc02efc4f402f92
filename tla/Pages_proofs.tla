---------------------------- MODULE Pages_proofs ----------------------------
(* Proofs about the browser on its way into a match, for any number of      *)
(* sockets and of packets on their way: which sockets stay open, what each   *)
(* is used for, and what the screens say of the server.                      *)
EXTENDS Pages, WellFoundedInduction, TLAPS

\* A set of numbers that is not empty has a first.
LEMMA FirstOf ==
    ASSUME NEW T, T \subseteq Nat, T # {}
    PROVE  \E m \in T : \A k \in T : m <= k
<1>1. \E m \in T : \A k \in T : ~(<<k, m>> \in OpToRel(<, Nat))
  BY NatLessThanWellFounded, WFMin
<1>2. \A k, m \in Nat : ~(<<k, m>> \in OpToRel(<, Nat)) => m <= k
  BY DEF OpToRel
<1> QED BY <1>1, <1>2

USE PagesAssumption

-----------------------------------------------------------------------------
(* Types.                                                                    *)

Screens ==
    {"intro", "mode-select", "menu", "account", "matchmaking", "create", "find", "ready",
     "match", "results", "disconnected", "sync-lost", "history"}

News == {"named", "joined", "created", "found", "start", "over", "left", "bye"}
Flows == {"quick", "host", "find"}

Exceptions == {"loss", "mark", "opponent", "leak", "countdown"}

Page ==
    [screen : Screens, returnTo : Screens, client : Sockets \cup {NoSocket},
     manual : BOOLEAN, match : BOOLEAN, authority : Sockets \cup {NoSocket},
     counting : BOOLEAN, readyLocked : BOOLEAN, started : BOOLEAN, code : BOOLEAN,
     login : BOOLEAN, behind : SUBSET Sockets, blind : SUBSET Exceptions]

Socket ==
    [ws : {"none", "connecting", "open", "aborting", "failed", "closing", "closed"},
     flow : Flows \cup {"none"},
     step : {"none", "connect", "name", "lobby", "done", "rejected", "failed"},
     up : Seq(Packets), down : Seq(News), state : {"none", "open", "closing", "gone"},
     at : At, phase : {"idle", "ready", "playing", "over"}]

-----------------------------------------------------------------------------
(* What a socket is used for, and what is on its way.                        *)

live(s) == s.ws \in {"connecting", "open"}

\* The packets a flow sends, and where they lead.
packetsOf(flow) ==
    {"name", "join", "ready"} \cup
    (CASE flow = "quick" -> {"search"} [] flow = "host" -> {"create"}
       [] flow = "find" -> {"subscribe", "enter"} [] OTHER -> {})

placesOf(flow) ==
    {"out", "lobby", "room"} \cup
    (CASE flow = "quick" -> {"queued"} [] flow = "host" -> {"hosting"} [] OTHER -> {})

Purposeful(s) ==
    /\ live(s) => s.flow \in Flows
    /\ Range(s.up) \subseteq packetsOf(s.flow)
    /\ s.at \in placesOf(s.flow)
    /\ s.ws # "open" => s.up = <<>> /\ s.down = <<>> /\ s.at = "out"
    /\ s.ws = "connecting" => s.step = "connect"
    /\ s.ws = "open" => s.step \notin {"none", "connect"}

Once(x, q) == \A i, j \in 1 .. Len(q) : q[i] = x /\ q[j] = x => i = j
Foremost(x, q) == \A i \in 2 .. Len(q) : q[i] # x
Final(x, q) == \A i \in 1 .. Len(q) - 1 : q[i] # x

\* The packets of a flow go up in their order and once, each after the answer to
\* the one before.
Asked(s) ==
    LET up == Range(s.up) down == Range(s.down)
    IN  /\ "name" \in up \/ "join" \in up \/ "named" \in down =>
              s.at = "out" /\ up \cap {"search", "create", "subscribe"} = {}
        /\ "name" \in up => "join" \notin up
        /\ "name" \in up \/ "join" \in up => s.down = <<>> /\ s.step # "done"
        /\ "named" \in down => s.down = <<"named">>
        /\ s.step = "name" => "name" \in up \/ "named" \in down
        /\ s.step = "lobby" => "join" \in up \/ "joined" \in down
        /\ up \cap {"search", "create"} # {} => s.at = "lobby" /\ s.down = <<>>
        /\ \A x \in {"name", "join", "search", "create"} : Once(x, s.up)

\* The news of a game: that it is created, and that a match is found, come before the
\* place is another; a match that is left is the last that is told.
Told(s) ==
    LET up == Range(s.up) down == Range(s.down)
    IN  /\ "joined" \in down =>
              /\ s.step # "done"
              /\ up \cap {"search", "create", "subscribe"} = {}
              /\ s.at = "lobby" \/ "found" \in down
              /\ s.flow # "find" => s.at = "lobby" /\ s.down = <<"joined">>
        /\ "created" \in down => s.flow = "host" /\ (s.at = "hosting" \/ "found" \in down)
        /\ Foremost("joined", s.down) /\ Foremost("created", s.down)
        /\ down \cap {"found", "start", "over"} # {} => s.at = "room" \/ "left" \in down
        /\ "left" \in down => s.at = "out"
        /\ Final("left", s.down)

\* A socket that the server is about to close, or has lost, says so last of all:
\* what it still does meanwhile no page sees.
SocketSound(s) ==
    /\ s \in Socket
    /\ Purposeful(s)
    /\ s.ws = "open" => "bye" \in Range(s.down) \/ (s.state = "open" /\ Asked(s) /\ Told(s))

-----------------------------------------------------------------------------
(* The page and its current client.                                          *)

\* the screen under the match history
shown(p) == IF p.screen = "history" THEN p.returnTo ELSE p.screen

\* the screens from which a flow starts
Calm(p) ==
    \/ shown(p) \in {"intro", "mode-select", "menu", "account"}
    \/ shown(p) = "create" /\ ~p.started

\* The places shown, with the news on their way that will move the page.
Fits(p, s) ==
    \/ s.step = "rejected"
    \/ "bye" \in Range(s.down)
    \/ /\ shown(p) \in {"ready", "match", "results"} => s.at = "room" \/ "left" \in Range(s.down)
       /\ shown(p) = "matchmaking" =>
            /\ s.flow = "quick"
            /\ \/ s.step # "done" \/ "search" \in Range(s.up)
               \/ s.at = "queued" \/ "found" \in Range(s.down)
       /\ shown(p) = "find" =>
            /\ s.flow = "find"
            /\ s.step # "done" \/ s.at = "lobby" \/ "found" \in Range(s.down)
       /\ shown(p) = "create" /\ p.code =>
            /\ s.flow = "host"
            /\ s.at = "hosting" \/ "found" \in Range(s.down)
       /\ shown(p) = "disconnected" =>
            /\ s.at = "out" /\ "join" \notin Range(s.up)
            /\ s.step \notin {"none", "connect", "name", "lobby"}

client(p, s) == IF p.client = NoSocket THEN closedSocket ELSE s[p.client]

\* A current client that is not live has been lost: its flow is about to be told, or
\* its page was.
Current(s) == live(s) \/ s.ws = "closed" \/ (s.ws = "failed" /\ s.step = "rejected")

\* No socket is live but those that the page knows of.
Owned(p, s) ==
    \A k \in Sockets : live(s[k]) =>
        /\ k = p.client \/ k \in p.behind
        /\ Calm(p) => k \in p.behind

\* A match that is followed, or counted down to, is the page's, over its client.
Followed(p) ==
    /\ p.counting => p.authority # NoSocket
    /\ p.authority # NoSocket => p.match /\ p.client # NoSocket

PageSound(p) ==
    /\ p \in Page
    /\ p.returnTo \notin {"history", "matchmaking", "ready", "match", "results"}
    /\ p.screen \in {"match", "results"} => p.match
    /\ Followed(p)

ClientSound(p, s) ==
    LET c == client(p, s)
    IN  /\ Current(c)
        /\ shown(p) = "find" /\ live(c) => c.flow = "find"
        /\ p.blind = {} => Fits(p, c)

Sound(p, s) ==
    /\ PageSound(p)
    /\ s \in [Sockets -> Socket] /\ \A k \in Sockets : SocketSound(s[k])
    /\ Owned(p, s)
    /\ ClientSound(p, s)

PagesInv == Sound(page, socks)
-----------------------------------------------------------------------------
(* Packets on their way.                                                     *)

\* Nothing is on an empty way.
LEMMA NothingSent == Range(<<>>) = {}
BY DEF Range

\* A packet more at the end.
LEMMA Sent ==
    ASSUME NEW S, NEW q \in Seq(S), NEW x \in S
    PROVE  /\ Append(q, x) \in Seq(S)
           /\ Range(Append(q, x)) = Range(q) \cup {x}
           /\ Append(q, x) # <<>>
<1> DEFINE a == Append(q, x)
           n == Len(q) + 1
<1>1. a \in Seq(S) /\ DOMAIN a = DOMAIN q \cup {n} /\ a[n] = x /\ a # <<>>
  OBVIOUS
<1>2. \A i \in DOMAIN q : a[i] = q[i]
  OBVIOUS
<1> HIDE DEF a, n
<1> QED BY <1>1, <1>2 DEF Range, a

\* It is there once if it was not there, and nothing else is there more often.
LEMMA SentOnce ==
    ASSUME NEW S, NEW q \in Seq(S), NEW x \in S, NEW y, Once(y, q), y = x => y \notin Range(q)
    PROVE  Once(y, Append(q, x))
<1> DEFINE a == Append(q, x)
           n == Len(q)
<1>1. n \in Nat /\ Len(a) = n + 1 /\ a[n + 1] = x /\ \A i \in 1 .. n : a[i] = q[i]
  OBVIOUS
<1>2. \A i \in 1 .. n : q[i] \in Range(q)
  BY DEF Range
<1> HIDE DEF a
<1>3. ASSUME NEW i \in 1 .. n + 1, NEW j \in 1 .. n + 1, a[i] = y, a[j] = y PROVE i = j
  BY <1>1, <1>2, <1>3 DEF Once
<1> QED BY <1>1, <1>3 DEF Once, a

\* It is not foremost, unless it is alone.
LEMMA SentForemost ==
    ASSUME NEW S, NEW q \in Seq(S), NEW x \in S, NEW y, Foremost(y, q), y # x \/ q = <<>>
    PROVE  Foremost(y, Append(q, x))
<1> DEFINE a == Append(q, x)
           n == Len(q)
<1>1. n \in Nat /\ Len(a) = n + 1 /\ a[n + 1] = x /\ \A i \in 1 .. n : a[i] = q[i]
  OBVIOUS
<1>2. q = <<>> => n = 0
  OBVIOUS
<1> HIDE DEF a
<1> QED BY <1>1, <1>2 DEF Foremost, a

\* What was there is before it.
LEMMA SentFinal ==
    ASSUME NEW S, NEW q \in Seq(S), NEW x \in S, NEW y, y \notin Range(q)
    PROVE  Final(y, Append(q, x))
<1> DEFINE a == Append(q, x)
           n == Len(q)
<1>1. n \in Nat /\ Len(a) = n + 1 /\ \A i \in 1 .. n : a[i] = q[i]
  OBVIOUS
<1>2. \A i \in 1 .. n : q[i] \in Range(q)
  BY DEF Range
<1> HIDE DEF a
<1> QED BY <1>1, <1>2 DEF Final, a

\* One packet on its way.
LEMMA Alone ==
    ASSUME NEW x
    PROVE  /\ Range(<<x>>) = {x} /\ <<x>> # <<>> /\ Head(<<x>>) = x /\ Tail(<<x>>) = <<>>
           /\ \A y : Once(y, <<x>>) /\ Foremost(y, <<x>>) /\ Final(y, <<x>>)
<1>1. DOMAIN <<x>> = {1} /\ Len(<<x>>) = 1 /\ <<x>>[1] = x
  OBVIOUS
<1>2. Range(<<x>>) = {x}
  BY <1>1 DEF Range
<1> QED BY <1>1, <1>2 DEF Once, Foremost, Final

\* None on its way.
LEMMA NoneSent == \A y : Once(y, <<>>) /\ Foremost(y, <<>>) /\ Final(y, <<>>)
<1>1. Len(<<>>) = 0
  OBVIOUS
<1> QED BY <1>1 DEF Once, Foremost, Final

\* The first arrives.
LEMMA Arrived ==
    ASSUME NEW S, NEW q \in Seq(S), q # <<>>
    PROVE  /\ Head(q) \in S /\ Tail(q) \in Seq(S)
           /\ Range(q) = Range(Tail(q)) \cup {Head(q)}
<1> DEFINE t == Tail(q)
           n == Len(q)
<1>1. n \in Nat \ {0} /\ DOMAIN q = 1 .. n /\ DOMAIN t = 1 .. n - 1 /\ q[1] = Head(q)
  OBVIOUS
<1>2. \A i \in 1 .. n - 1 : t[i] = q[i + 1]
  OBVIOUS
<1>3. \A i \in 2 .. n : i - 1 \in 1 .. n - 1 /\ q[i] = t[i - 1]
  BY <1>1, <1>2
<1>4. Head(q) \in S /\ t \in Seq(S)
  OBVIOUS
<1> HIDE DEF t, n
<1>5. Range(t) \subseteq Range(q)
  BY <1>1, <1>2 DEF Range
<1>6. Range(q) \subseteq Range(t) \cup {q[1]}
  <2>1. ASSUME NEW i \in 1 .. n PROVE q[i] \in Range(t) \cup {q[1]}
    BY <1>1, <1>3 DEF Range
  <2> QED BY <2>1, <1>1 DEF Range
<1>7. q[1] \in Range(q)
  BY <1>1 DEF Range
<1> QED BY <1>1, <1>4, <1>5, <1>6, <1>7 DEF t

\* What was there once stays so, and is gone when it has arrived.
LEMMA ArrivedOnce ==
    ASSUME NEW S, NEW q \in Seq(S), q # <<>>, NEW y, Once(y, q)
    PROVE  Once(y, Tail(q)) /\ (y = Head(q) => y \notin Range(Tail(q)))
<1> DEFINE t == Tail(q)
           n == Len(q)
<1>1. n \in Nat \ {0} /\ DOMAIN t = 1 .. n - 1 /\ Len(t) = n - 1 /\ q[1] = Head(q)
  OBVIOUS
<1>2. \A i \in 1 .. n - 1 : i + 1 \in 1 .. n /\ t[i] = q[i + 1]
  OBVIOUS
<1> HIDE DEF t
<1>3. ASSUME NEW i \in 1 .. n - 1, NEW j \in 1 .. n - 1, t[i] = y, t[j] = y PROVE i = j
  BY <1>1, <1>2, <1>3 DEF Once
<1>4. ASSUME y = q[1], NEW i \in 1 .. n - 1, t[i] = y PROVE FALSE
  BY <1>1, <1>2, <1>4 DEF Once
<1> QED BY <1>1, <1>3, <1>4 DEF Once, Range, t

\* Behind the first nothing is foremost.
LEMMA ArrivedForemost ==
    ASSUME NEW S, NEW q \in Seq(S), q # <<>>, NEW y, Foremost(y, q)
    PROVE  Foremost(y, Tail(q)) /\ y \notin Range(Tail(q))
<1> DEFINE t == Tail(q)
           n == Len(q)
<1>1. n \in Nat \ {0} /\ DOMAIN t = 1 .. n - 1 /\ Len(t) = n - 1
  OBVIOUS
<1>2. \A i \in 1 .. n - 1 : i + 1 \in 2 .. n /\ t[i] = q[i + 1]
  OBVIOUS
<1> HIDE DEF t
<1>3. \A i \in 1 .. n - 1 : t[i] # y
  BY <1>1, <1>2 DEF Foremost
<1> QED BY <1>1, <1>3 DEF Foremost, Range, t

\* Nothing follows the final one.
LEMMA ArrivedFinal ==
    ASSUME NEW S, NEW q \in Seq(S), q # <<>>, NEW y, Final(y, q)
    PROVE  Final(y, Tail(q)) /\ (y = Head(q) => Tail(q) = <<>>)
<1> DEFINE t == Tail(q)
           n == Len(q)
<1>1. n \in Nat \ {0} /\ DOMAIN t = 1 .. n - 1 /\ Len(t) = n - 1 /\ q[1] = Head(q)
  OBVIOUS
<1>2. \A i \in 1 .. n - 1 : i + 1 \in 2 .. n /\ t[i] = q[i + 1]
  OBVIOUS
<1>3. n = 1 => t = <<>>
  <2>1. t \in Seq(S) /\ \A u \in Seq(S) : Len(u) = 0 => u = <<>>
    OBVIOUS
  <2> HIDE DEF t
  <2> QED BY <1>1, <2>1
<1> HIDE DEF t
<1>4. Final(y, t)
  BY <1>1, <1>2 DEF Final
<1>5. y = q[1] => n = 1
  BY <1>1 DEF Final
<1> QED BY <1>1, <1>3, <1>4, <1>5 DEF t
-----------------------------------------------------------------------------
(* What the server does with a socket.                                       *)

\* An open socket that is not dismissed yet.
Served(s) ==
    /\ SocketSound(s) /\ s.ws = "open" /\ "bye" \notin Range(s.down)

\* A socket as the server may leave it: its page sees the same flow at the same step.
Same(s, t) ==
    /\ t \in Socket /\ t.ws = "open" /\ t.flow = s.flow /\ t.step = s.step
    /\ Range(t.up) \subseteq Range(s.up) /\ t.at \in placesOf(s.flow)

\* What is known of a socket that is served.
LEMMA ServedSound ==
    ASSUME NEW s, Served(s)
    PROVE  /\ s \in Socket /\ Purposeful(s) /\ s.ws = "open" /\ s.state = "open"
           /\ Asked(s) /\ Told(s) /\ live(s) /\ s.flow \in Flows
           /\ s.up \in Seq(Packets) /\ s.down \in Seq(News)
BY DEF Served, SocketSound, Socket, Purposeful, live

\* Once it is dismissed nothing more is asked of a socket.
LEMMA Dismissed ==
    ASSUME NEW s, SocketSound(s), s.ws = "open", NEW t, Same(s, t), "bye" \in Range(t.down)
    PROVE  SocketSound(t) /\ \A p : Fits(p, t)
<1>1. Purposeful(t)
  BY DEF SocketSound, Same, Purposeful, live
<1> QED BY <1>1 DEF SocketSound, Same, Fits

\* Its packets are those of its flow.
LEMMA FlowPackets ==
    ASSUME NEW s, SocketSound(s)
    PROVE  /\ "search" \in Range(s.up) => s.flow = "quick"
           /\ "create" \in Range(s.up) => s.flow = "host"
           /\ "subscribe" \in Range(s.up) \/ "enter" \in Range(s.up) => s.flow = "find"
           /\ Range(s.up) \subseteq
                {"name", "join", "ready", "search", "create", "subscribe", "enter"}
           /\ s.at = "queued" => s.flow = "quick"
           /\ s.at = "hosting" => s.flow = "host"
BY DEF SocketSound, Purposeful, packetsOf, placesOf, Socket, Flows

\* A packet that the server only takes leaves what is said of the others.
LEMMA TakenSound ==
    ASSUME NEW s, Served(s), s.up # <<>>, Head(s.up) \in {"enter", "ready", "subscribe"},
           NEW t, Same(s, t), t.state = "open", t.up = Tail(s.up), t.down = s.down, t.at = s.at
    PROVE  SocketSound(t) /\ \A p : Fits(p, s) => Fits(p, t)
<1>1. /\ Range(s.up) = Range(t.up) \cup {Head(s.up)}
      /\ \A x \in {"name", "join", "search", "create"} :
            (x \in Range(t.up) <=> x \in Range(s.up)) /\ (Once(x, s.up) => Once(x, t.up))
  BY ServedSound, Arrived, ArrivedOnce
<1>2. Asked(t)
  BY <1>1, ServedSound DEF Asked, Same
<1>3. Told(t)
  BY <1>1, ServedSound DEF Told, Same
<1>4. Purposeful(t)
  BY ServedSound DEF Same, Purposeful, live
<1>5. \A p : Fits(p, s) => Fits(p, t)
  BY <1>1, ServedSound DEF Fits, Same
<1> QED BY <1>2, <1>3, <1>4, <1>5 DEF SocketSound, Same

\* A player without a name yet is named.
LEMMA NamedSound ==
    ASSUME NEW s, Served(s), s.up # <<>>, Head(s.up) = "name",
           NEW t, Same(s, t), t.state = "open", t.up = Tail(s.up),
           t.down = Append(s.down, "named"), t.at = s.at
    PROVE  SocketSound(t) /\ \A p : Fits(p, s) => Fits(p, t)
<1>1. /\ Range(s.up) = Range(t.up) \cup {Head(s.up)} /\ "name" \notin Range(t.up)
      /\ \A x \in {"name", "join", "search", "create"} : Once(x, s.up) => Once(x, t.up)
  BY ServedSound, Arrived, ArrivedOnce DEF Asked
<1>2. s.down = <<>> /\ s.step # "done" /\ "join" \notin Range(s.up) /\ s.at = "out"
      /\ Range(s.up) \cap {"search", "create", "subscribe"} = {}
  BY <1>1, ServedSound DEF Asked
<1>3. t.down = <<"named">>
  BY <1>2
<1>4. Range(t.down) = {"named"} /\ Foremost("joined", t.down) /\ Foremost("created", t.down)
      /\ Final("left", t.down)
  BY <1>3, Alone
<1>5. Range(s.down) = {}
  BY <1>2, NothingSent
<1>6. Asked(t)
  BY <1>1, <1>2, <1>3, <1>4, <1>5, ServedSound DEF Asked, Same
<1>7. Told(t)
  BY <1>4, ServedSound DEF Told, Same
<1>8. Purposeful(t)
  BY ServedSound DEF Same, Purposeful, live
<1>9. \A p : Fits(p, s) => Fits(p, t)
  BY <1>1, <1>2, <1>4, <1>5, ServedSound DEF Fits, Same
<1> QED BY <1>6, <1>7, <1>8, <1>9 DEF SocketSound, Same
\* A named player joins the lobby.
LEMMA JoinedSound ==
    ASSUME NEW s, Served(s), s.up # <<>>, Head(s.up) = "join",
           NEW t, Same(s, t), t.state = "open", t.up = Tail(s.up),
           t.down = Append(s.down, "joined"), t.at = "lobby"
    PROVE  SocketSound(t) /\ \A p : Fits(p, s) => Fits(p, t)
<1>1. /\ Range(s.up) = Range(t.up) \cup {Head(s.up)} /\ "join" \notin Range(t.up)
      /\ \A x \in {"name", "join", "search", "create"} : Once(x, s.up) => Once(x, t.up)
  BY ServedSound, Arrived, ArrivedOnce DEF Asked
<1>2. s.down = <<>> /\ s.step # "done" /\ "name" \notin Range(s.up) /\ s.at = "out"
      /\ Range(s.up) \cap {"search", "create", "subscribe"} = {}
  BY <1>1, ServedSound DEF Asked
<1>3. t.down = <<"joined">>
  BY <1>2
<1>4. Range(t.down) = {"joined"} /\ Foremost("joined", t.down) /\ Foremost("created", t.down)
      /\ Final("left", t.down)
  BY <1>3, Alone
<1>5. Range(s.down) = {}
  BY <1>2, NothingSent
<1>6. Asked(t)
  BY <1>1, <1>2, <1>3, <1>4, <1>5, ServedSound DEF Asked, Same
<1>7. Told(t)
  BY <1>1, <1>2, <1>3, <1>4, ServedSound DEF Told, Same
<1>8. Purposeful(t)
  BY ServedSound DEF Same, Purposeful, live
<1>9. \A p : Fits(p, s) => Fits(p, t)
  BY <1>1, <1>2, <1>4, <1>5, ServedSound DEF Fits, Same
<1> QED BY <1>6, <1>7, <1>8, <1>9 DEF SocketSound, Same

\* A match is found for one who waits for it.
LEMMA FoundSound ==
    ASSUME NEW s, Served(s), s.at \in {"lobby", "queued", "hosting"},
           "joined" \in Range(s.down) => s.flow = "find",
           NEW t, Same(s, t), t.state = "open", t.down = Append(s.down, "found"),
           t.at = "room", Range(t.up) \cap {"search", "create"} = {},
           \A x \in {"name", "join", "search", "create"} : Once(x, t.up)
    PROVE  SocketSound(t) /\ \A p : Fits(p, s) => Fits(p, t)
<1>1. Range(t.down) = Range(s.down) \cup {"found"}
  BY ServedSound, Sent DEF News
<1>2. Range(s.up) \cap {"name", "join"} = {} /\ Range(t.up) \cap {"name", "join"} = {}
      /\ Range(s.down) \cap {"named", "left"} = {}
  BY ServedSound DEF Asked, Told, Same
<1>3. Foremost("joined", t.down) /\ Foremost("created", t.down) /\ Final("left", t.down)
  BY <1>2, ServedSound, SentForemost, SentFinal DEF Told, News
<1>4. Asked(t)
  BY <1>1, <1>2, ServedSound DEF Asked, Same
<1>5. Told(t)
  BY <1>1, <1>2, <1>3, ServedSound DEF Told, Same
<1>6. Purposeful(t)
  BY ServedSound DEF Same, Purposeful, live
<1>7. \A p : Fits(p, s) => Fits(p, t)
  BY <1>1, ServedSound DEF Fits, Same
<1> QED BY <1>4, <1>5, <1>6, <1>7 DEF SocketSound, Same

\* A player queues, and nobody is there yet.
LEMMA QueuedSound ==
    ASSUME NEW s, Served(s), s.up # <<>>, Head(s.up) = "search",
           NEW t, Same(s, t), t.state = "open", t.up = Tail(s.up), t.down = s.down,
           t.at = "queued"
    PROVE  SocketSound(t) /\ \A p : Fits(p, s) => Fits(p, t)
<1>1. /\ Range(s.up) = Range(t.up) \cup {Head(s.up)} /\ "search" \notin Range(t.up)
      /\ \A x \in {"name", "join", "search", "create"} : Once(x, s.up) => Once(x, t.up)
  BY ServedSound, Arrived, ArrivedOnce DEF Asked
<1>2. s.down = <<>> /\ s.at = "lobby" /\ s.flow = "quick" /\ "create" \notin Range(s.up)
  BY <1>1, ServedSound, FlowPackets DEF Asked, Served
<1>3. Range(s.down) = {} /\ Range(s.up) \cap {"name", "join"} = {}
  BY <1>1, <1>2, NothingSent, ServedSound DEF Asked
<1>4. Asked(t)
  BY <1>1, <1>2, <1>3, ServedSound DEF Asked, Same
<1>5. Told(t)
  BY <1>1, <1>2, <1>3, ServedSound DEF Told, Same
<1>6. Purposeful(t)
  BY ServedSound DEF Same, Purposeful, live
<1>7. \A p : Fits(p, s) => Fits(p, t)
  BY <1>1, <1>2, <1>3, ServedSound DEF Fits, Same
<1> QED BY <1>4, <1>5, <1>6, <1>7 DEF SocketSound, Same

\* A player's game is put on the list.
LEMMA CreatedSound ==
    ASSUME NEW s, Served(s), s.up # <<>>, Head(s.up) = "create",
           NEW t, Same(s, t), t.state = "open", t.up = Tail(s.up),
           t.down = Append(s.down, "created"), t.at = "hosting"
    PROVE  SocketSound(t) /\ \A p : Fits(p, s) => Fits(p, t)
<1>1. /\ Range(s.up) = Range(t.up) \cup {Head(s.up)} /\ "create" \notin Range(t.up)
      /\ \A x \in {"name", "join", "search", "create"} : Once(x, s.up) => Once(x, t.up)
  BY ServedSound, Arrived, ArrivedOnce DEF Asked
<1>2. s.down = <<>> /\ s.at = "lobby" /\ s.flow = "host" /\ "search" \notin Range(s.up)
  BY <1>1, ServedSound, FlowPackets DEF Asked, Served
<1>3. t.down = <<"created">>
  BY <1>2
<1>4. Range(t.down) = {"created"} /\ Foremost("joined", t.down) /\ Foremost("created", t.down)
      /\ Final("left", t.down)
  BY <1>3, Alone
<1>5. Range(s.down) = {} /\ Range(s.up) \cap {"name", "join"} = {}
  BY <1>1, <1>2, NothingSent, ServedSound DEF Asked
<1>6. Asked(t)
  BY <1>1, <1>2, <1>4, <1>5, ServedSound DEF Asked, Same
<1>7. Told(t)
  BY <1>1, <1>2, <1>4, <1>5, ServedSound DEF Told, Same
<1>8. Purposeful(t)
  BY ServedSound DEF Same, Purposeful, live
<1>9. \A p : Fits(p, s) => Fits(p, t)
  BY <1>1, <1>2, <1>4, <1>5, ServedSound DEF Fits, Same
<1> QED BY <1>6, <1>7, <1>8, <1>9 DEF SocketSound, Same

\* A match goes on: it starts, ends, or is left by the opponent.
LEMMA PlayedSound ==
    ASSUME NEW s, Served(s), s.at = "room", NEW x \in {"start", "over", "left"},
           NEW t, Same(s, t), t.state = "open", t.up = s.up, t.down = Append(s.down, x),
           t.at = IF x = "left" THEN "out" ELSE "room"
    PROVE  SocketSound(t) /\ \A p : Fits(p, s) => Fits(p, t)
<1>1. Range(t.down) = Range(s.down) \cup {x}
  BY ServedSound, Sent DEF News
<1>2. Range(s.up) \cap {"name", "join", "search", "create"} = {}
      /\ Range(s.down) \cap {"named", "left"} = {}
  BY ServedSound DEF Asked, Told, Same
<1>3. Foremost("joined", t.down) /\ Foremost("created", t.down) /\ Final("left", t.down)
  BY <1>2, ServedSound, SentForemost, SentFinal DEF Told, News
<1>4. "joined" \in Range(s.down) => s.flow = "find" /\ "found" \in Range(s.down)
  BY ServedSound DEF Told
<1>5. Asked(t)
  BY <1>1, <1>2, ServedSound DEF Asked, Same
<1>6. Told(t)
  BY <1>1, <1>2, <1>3, <1>4, ServedSound DEF Told, Same
<1>7. Purposeful(t)
  BY ServedSound DEF Same, Purposeful, live
<1>8. \A p : Fits(p, s) => Fits(p, t)
  BY <1>1, ServedSound DEF Fits, Same
<1> QED BY <1>5, <1>6, <1>7, <1>8 DEF SocketSound, Same
\* What is told to a socket is the last of what is on its way to it, or lost.
LEMMA ToldFields ==
    ASSUME NEW s \in Socket, NEW x \in News
    PROVE  LET t == told(s, x)
           IN  /\ t \in Socket /\ t.ws = s.ws /\ t.flow = s.flow /\ t.step = s.step
               /\ t.up = s.up /\ t.state = s.state /\ t.at = s.at /\ t.phase = s.phase
               /\ Range(s.down) \subseteq Range(t.down)
               /\ s.state = "open" => /\ t.down = Append(s.down, x)
                                      /\ x \in Range(t.down)
<1>1. s.down \in Seq(News)
  BY DEF Socket
<1> DEFINE d == Append(s.down, x)
<1>2. d \in Seq(News) /\ Range(d) = Range(s.down) \cup {x}
  BY <1>1, Sent
<1> HIDE DEF d
<1>3. told(s, x) = IF s.state = "open" THEN [s EXCEPT !.down = d] ELSE s
  BY DEF told, d
<1> QED BY <1>2, <1>3 DEF Socket, d

\* The answer to the first packet on its way up.
packet(s) == Head(s.up)
taken(s) == [s EXCEPT !.up = Tail(s.up)]
placed(s, at) == [reply(packet(s), taken(s), at) EXCEPT !.at = at]

\* What is left of a socket when its first packet is taken.
LEMMA TakenFields ==
    ASSUME NEW s \in Socket, s.up # <<>>
    PROVE  LET t == taken(s)
           IN  /\ t \in Socket /\ t.ws = s.ws /\ t.flow = s.flow /\ t.step = s.step
               /\ t.up = Tail(s.up) /\ t.state = s.state /\ t.at = s.at /\ t.phase = s.phase
               /\ t.down = s.down /\ packet(s) \in Packets /\ packet(s) \in Range(s.up)
               /\ Range(t.up) \subseteq Range(s.up)
<1>1. s.up \in Seq(Packets)
  BY DEF Socket
<1> DEFINE u == Tail(s.up)
<1>2. u \in Seq(Packets) /\ Range(s.up) = Range(u) \cup {packet(s)} /\ packet(s) \in Packets
  BY <1>1, Arrived DEF packet
<1> HIDE DEF u
<1>3. taken(s) = [s EXCEPT !.up = u]
  BY DEF taken, u
<1> QED BY <1>2, <1>3 DEF Socket, u

\* An answer moves a socket within its flow.
LEMMA PlacesHandled ==
    ASSUME NEW s, SocketSound(s), s.up # <<>>, NEW at \in handled(packet(s), s.at)
    PROVE  at \in placesOf(s.flow) /\ at \in At
<1>1. s \in Socket /\ s.at \in placesOf(s.flow) /\ packet(s) \in Range(s.up)
  BY TakenFields DEF SocketSound, Purposeful
<1>2. packet(s) = "search" => s.flow = "quick"
  BY <1>1, FlowPackets
<1>3. packet(s) = "create" => s.flow = "host"
  BY <1>1, FlowPackets
<1>4. packet(s) \in {"name", "join", "ready", "search", "create", "subscribe", "enter"}
  BY <1>1, FlowPackets
<1> QED BY <1>1, <1>2, <1>3, <1>4 DEF handled, placesOf, waiting, At, Socket

\* What a socket is told besides: only where it is told of changes with the phase.
phased(s, x) == [s EXCEPT !.phase = x]

\* A phase changes nothing else.
LEMMA PhaseFields ==
    ASSUME NEW s \in Socket, NEW x \in {"idle", "ready", "playing", "over"}
    PROVE  LET t == phased(s, x)
           IN  /\ t \in Socket /\ t.ws = s.ws /\ t.flow = s.flow /\ t.step = s.step
               /\ t.up = s.up /\ t.down = s.down /\ t.state = s.state /\ t.at = s.at
BY DEF Socket, phased

\* The fields of an answer.
LEMMA PlacedFields ==
    ASSUME NEW s, SocketSound(s), s.ws = "open", s.up # <<>>,
           NEW at \in handled(packet(s), s.at)
    PROVE  LET t == placed(s, at)
               says(x) == s.state = "open" => t.down = Append(s.down, x)
           IN  /\ Same(s, t) /\ t.up = Tail(s.up) /\ t.state = s.state /\ t.at = at
               /\ Range(s.down) \subseteq Range(t.down)
               /\ packet(s) = "name" => says("named")
               /\ packet(s) = "join" /\ at = "lobby" => says("joined")
               /\ packet(s) = "create" /\ s.at # at => says("created")
               /\ packet(s) \notin {"name", "join", "create"} =>
                    IF at = "room" /\ s.at # at THEN says("found") ELSE t.down = s.down
<1> DEFINE u == taken(s)
           r == reply(packet(s), u, at)
           t == placed(s, at)
<1>1. /\ s \in Socket /\ u \in Socket /\ u.ws = "open" /\ u.flow = s.flow /\ u.step = s.step
      /\ u.up = Tail(s.up) /\ u.state = s.state /\ u.at = s.at /\ u.down = s.down
      /\ Range(u.up) \subseteq Range(s.up)
  BY TakenFields DEF SocketSound
<1>2. at \in placesOf(s.flow) /\ at \in At
  BY PlacesHandled
<1>21. /\ packet(s) \in {"name", "ready"} => at = s.at
       /\ packet(s) = "create" => at \in {"hosting", s.at}
  BY DEF handled
<1> DEFINE Kept(v) == /\ v \in Socket /\ v.ws = u.ws /\ v.flow = u.flow /\ v.step = u.step
                      /\ v.up = u.up /\ v.state = u.state
                      /\ Range(u.down) \subseteq Range(v.down)
           Says(v, x) == u.state = "open" => v.down = Append(u.down, x)
<1>3. ASSUME NEW v, Kept(v), r = v
      PROVE  Same(s, t) /\ t.up = Tail(s.up) /\ t.state = s.state /\ t.at = at
             /\ Range(s.down) \subseteq Range(t.down) /\ t.down = v.down
  <2>1. t = [v EXCEPT !.at = at]
    BY <1>3 DEF placed, u
  <2> HIDE DEF u, t
  <2>2. Kept(t) /\ t.at = at /\ t.down = v.down
    BY <1>2, <1>3, <2>1 DEF Socket
  <2> QED BY <1>1, <1>2, <2>2 DEF Same
<1> HIDE DEF u, t
<1>4. ASSUME NEW x \in News
      PROVE  LET v == told(u, x) IN Kept(v) /\ Says(v, x)
  BY <1>1, <1>4, ToldFields
<1>5. ASSUME NEW x \in News
      PROVE  LET v == phased(told(u, x), "idle") IN Kept(v) /\ Says(v, x)
  BY <1>4, PhaseFields
<1>6. Kept(u) /\ Kept(phased(u, "ready")) /\ phased(u, "ready").down = u.down
  BY <1>1, PhaseFields
<1> HIDE DEF Kept, Says
<1>7. CASE packet(s) = "name"
  <2>1. r = told(u, "named")
    BY <1>1, <1>21, <1>7 DEF reply, phased
  <2>2. Kept(told(u, "named")) /\ Says(told(u, "named"), "named")
    BY <1>4 DEF News
  <2> QED BY <1>1, <1>3, <1>7, <2>1, <2>2 DEF Says, t
<1>8. CASE packet(s) = "join" /\ at = "lobby"
  <2>1. r = told(u, "joined")
    BY <1>8 DEF reply, phased
  <2>2. Kept(told(u, "joined")) /\ Says(told(u, "joined"), "joined")
    BY <1>4 DEF News
  <2> QED BY <1>1, <1>3, <1>8, <2>1, <2>2 DEF Says, t
<1>9. CASE packet(s) = "create" /\ s.at # at
  <2>1. r = told(u, "created")
    BY <1>1, <1>21, <1>9 DEF reply, phased
  <2>2. Kept(told(u, "created")) /\ Says(told(u, "created"), "created")
    BY <1>4 DEF News
  <2> QED BY <1>1, <1>3, <1>9, <2>1, <2>2 DEF Says, t
<1>10. CASE packet(s) \notin {"name", "join", "create"} /\ at = "room" /\ s.at # at
  <2> DEFINE v == phased(told(u, "found"), "idle")
  <2>1. r = v
    BY <1>1, <1>21, <1>10 DEF reply, phased
  <2>2. Kept(v) /\ Says(v, "found")
    BY <1>5 DEF News
  <2> HIDE DEF v
  <2> QED BY <1>1, <1>3, <1>10, <2>1, <2>2 DEF Says, t
<1>11. CASE packet(s) \notin {"name", "join", "create"} /\ ~(at = "room" /\ s.at # at)
  <2>1. r \in {u, phased(u, "ready")}
    BY <1>1, <1>11 DEF reply, phased
  <2>2. PICK v \in {u, phased(u, "ready")} : r = v
    BY <2>1
  <2>3. Kept(v) /\ v.down = u.down
    BY <1>6
  <2> QED BY <1>1, <1>3, <1>11, <2>2, <2>3 DEF t
<1>12. CASE (packet(s) = "join" /\ at # "lobby") \/ (packet(s) = "create" /\ s.at = at)
  <2> DEFINE f == phased(told(u, "found"), "idle")
             g == phased(u, "ready")
  <2>1. r \in {f, g, u}
    BY <1>1, <1>12 DEF reply, phased
  <2>2. Kept(f) /\ Kept(g) /\ Kept(u)
    BY <1>5, <1>6 DEF News
  <2> HIDE DEF f, g
  <2>3. PICK v \in {f, g, u} : r = v
    BY <2>1
  <2> QED BY <1>1, <1>3, <1>12, <2>2, <2>3 DEF t
<1>13. \/ packet(s) = "name"
       \/ packet(s) = "join" /\ at = "lobby"
       \/ packet(s) = "create" /\ s.at # at
       \/ packet(s) \notin {"name", "join", "create"} /\ at = "room" /\ s.at # at
       \/ packet(s) \notin {"name", "join", "create"} /\ ~(at = "room" /\ s.at # at)
       \/ (packet(s) = "join" /\ at # "lobby") \/ (packet(s) = "create" /\ s.at = at)
  OBVIOUS
<1> QED
  <2> HIDE DEF r
  <2> QED BY <1>7, <1>8, <1>9, <1>10, <1>11, <1>12, <1>13 DEF t
\* What the server alone knows of a socket, changed.
LEMMA ClosingFields ==
    ASSUME NEW s \in Socket
    PROVE  LET t == [s EXCEPT !.state = "closing"]
           IN  /\ t \in Socket /\ t.ws = s.ws /\ t.flow = s.flow /\ t.step = s.step
               /\ t.up = s.up /\ t.down = s.down /\ t.at = s.at
BY DEF Socket

Phases == {"idle", "playing", "over"}

moved(s, at, phase) == [s EXCEPT !.at = at, !.phase = phase]

\* A place and a phase change nothing else.
LEMMA PlaceFields ==
    ASSUME NEW s \in Socket, NEW at \in At, NEW phase \in Phases
    PROVE  LET t == moved(s, at, phase)
           IN  /\ t \in Socket /\ t.ws = s.ws /\ t.flow = s.flow /\ t.step = s.step
               /\ t.up = s.up /\ t.down = s.down /\ t.at = at /\ t.state = s.state
BY DEF Socket, Phases, moved

\* A packet in the wrong place: the socket is closed.
LEMMA RefusedSound ==
    ASSUME NEW s, SocketSound(s), s.ws = "open", s.up # <<>>,
           s.state = "open" \/ "bye" \in Range(s.down)
    PROVE  LET t == refusedSocket(taken(s))
           IN  SocketSound(t) /\ t.ws = "open" /\ t.flow = s.flow /\ \A p : Fits(p, t)
<1> DEFINE u == taken(s)
           v == told(u, "bye")
           t == refusedSocket(u)
<1>1. /\ s \in Socket /\ u \in Socket /\ u.ws = "open" /\ u.flow = s.flow /\ u.step = s.step
      /\ u.state = s.state /\ u.at = s.at /\ u.down = s.down
      /\ Range(u.up) \subseteq Range(s.up)
  BY TakenFields DEF SocketSound
<1> HIDE DEF u
<1>2. /\ v \in Socket /\ v.ws = u.ws /\ v.flow = u.flow /\ v.step = u.step
      /\ v.up = u.up /\ v.at = u.at /\ "bye" \in Range(v.down)
  <2>1. "bye" \in News
    BY DEF News
  <2>2. /\ v \in Socket /\ v.ws = u.ws /\ v.flow = u.flow /\ v.step = u.step
        /\ v.up = u.up /\ v.at = u.at /\ Range(u.down) \subseteq Range(v.down)
        /\ u.state = "open" => "bye" \in Range(v.down)
    BY <1>1, <2>1, ToldFields
  <2> HIDE DEF v
  <2> QED BY <1>1, <2>2
<1>3. t = [v EXCEPT !.state = "closing"]
  BY DEF refusedSocket
<1> HIDE DEF v, t
<1>4. /\ t \in Socket /\ t.ws = "open" /\ t.flow = s.flow /\ t.step = s.step
      /\ t.up = u.up /\ t.at = s.at /\ t.down = v.down
  BY <1>1, <1>2, <1>3, ClosingFields
<1>5. Same(s, t)
  BY <1>1, <1>4 DEF Same, SocketSound, Purposeful
<1> QED BY <1>2, <1>4, <1>5, Dismissed DEF t, u

\* Whatever packet the server answers, it answers soundly.
LEMMA PlacedSound ==
    ASSUME NEW s, SocketSound(s), s.ws = "open", s.up # <<>>, ~refused(packet(s), s.at),
           NEW at \in handled(packet(s), s.at)
    PROVE  LET t == placed(s, at)
           IN  SocketSound(t) /\ t.ws = "open" /\ t.flow = s.flow
               /\ \A p : Fits(p, s) => Fits(p, t)
<1> DEFINE t == placed(s, at)
<1> HIDE DEF t
<1>1. /\ Same(s, t) /\ t.up = Tail(s.up) /\ t.state = s.state /\ t.at = at
      /\ Range(s.down) \subseteq Range(t.down)
  BY PlacedFields DEF t
<1>2. CASE "bye" \in Range(s.down)
  BY <1>1, <1>2, Dismissed DEF Same, t
<1>3. CASE "bye" \notin Range(s.down)
  <2>1. Served(s)
    BY <1>3 DEF Served
  <2>2. s.state = "open" /\ t.state = "open" /\ packet(s) \in Range(s.up) /\ s \in Socket
    BY <1>1, <2>1, ServedSound, TakenFields
  <2>3. CASE packet(s) = "name"
    <3>1. t.down = Append(s.down, "named") /\ t.at = s.at
      BY <1>1, <2>2, <2>3, PlacedFields DEF t, handled
    <3> QED BY <1>1, <2>1, <2>2, <2>3, <3>1, NamedSound DEF Same, packet, t
  <2>4. CASE packet(s) = "join"
    <3>1. s.at = "out"
      BY <2>1, <2>2, <2>4, ServedSound DEF Asked
    <3>2. at = "lobby"
      BY <2>4, <3>1 DEF handled
    <3>3. t.down = Append(s.down, "joined")
      BY <2>2, <2>4, <3>2, PlacedFields DEF t
    <3> QED BY <1>1, <2>1, <2>2, <2>4, <3>2, <3>3, JoinedSound DEF Same, packet, t
  <2>5. CASE packet(s) = "create"
    <3>1. s.at = "lobby"
      BY <2>1, <2>2, <2>5, ServedSound DEF Asked
    <3>2. at = "hosting"
      BY <2>5, <3>1 DEF handled, waiting
    <3>3. t.down = Append(s.down, "created")
      BY <2>2, <2>5, <3>1, <3>2, PlacedFields DEF t
    <3> QED BY <1>1, <2>1, <2>2, <2>5, <3>2, <3>3, CreatedSound DEF Same, packet, t
  <2>6. CASE packet(s) = "search"
    <3>1. s.at = "lobby" /\ s.down = <<>> /\ s.flow = "quick"
      BY <2>1, <2>2, <2>6, ServedSound, FlowPackets DEF Asked, Served
    <3>2. at \in {"queued", "room"}
      BY <2>6, <3>1 DEF handled, waiting
    <3>3. IF at = "room" THEN t.down = Append(s.down, "found") ELSE t.down = s.down
      BY <2>2, <2>6, <3>1, <3>2, PlacedFields DEF t
    <3>4. CASE at = "queued"
      BY <1>1, <2>1, <2>2, <2>6, <3>3, <3>4, QueuedSound DEF Same, packet, t
    <3>5. CASE at = "room"
      <4>1. "joined" \notin Range(s.down)
        BY <3>1, NothingSent
      <4>2. /\ Range(s.up) = Range(t.up) \cup {"search"} /\ "search" \notin Range(t.up)
            /\ \A x \in {"name", "join", "search", "create"} : Once(x, t.up)
        BY <1>1, <2>1, <2>6, ServedSound, Arrived, ArrivedOnce DEF Asked, packet
      <4>3. "create" \notin Range(s.up)
        BY <2>1, <3>1, FlowPackets DEF Served
      <4>4. Range(t.up) \cap {"search", "create"} = {}
        BY <4>2, <4>3
      <4>5. SocketSound(t) /\ \A p : Fits(p, s) => Fits(p, t)
        BY <1>1, <2>1, <2>2, <3>1, <3>3, <3>5, <4>1, <4>2, <4>4, FoundSound
      <4> QED BY <1>1, <4>5 DEF Same, t
    <3> QED BY <3>2, <3>4, <3>5
  <2>7. CASE packet(s) = "enter"
    <3>1. s.at \in {"lobby", "queued", "hosting"} /\ s.flow = "find"
      BY <2>1, <2>2, <2>7, FlowPackets DEF Served, Socket, At, refused
    <3>2. s.at = "lobby"
      BY <2>1, <3>1, FlowPackets DEF Served
    <3>3. at \in {"lobby", "room"}
      BY <2>7, <3>2 DEF handled, waiting
    <3>4. IF at = "room" THEN t.down = Append(s.down, "found") ELSE t.down = s.down
      BY <2>2, <2>7, <3>2, <3>3, PlacedFields DEF t
    <3>5. CASE at = "lobby"
      BY <1>1, <2>1, <2>2, <2>7, <3>2, <3>4, <3>5, TakenSound DEF Same, packet, t
    <3>6. CASE at = "room"
      <4>1. /\ Range(t.up) \subseteq Range(s.up)
            /\ \A x \in {"name", "join", "search", "create"} : Once(x, t.up)
        BY <1>1, <2>1, ServedSound, ArrivedOnce DEF Asked, Same
      <4>2. Range(s.up) \cap {"search", "create"} = {}
        BY <2>1, <3>1, FlowPackets DEF Served
      <4> QED BY <1>1, <2>1, <2>2, <3>1, <3>2, <3>4, <3>6, <4>1, <4>2, FoundSound DEF Same, t
    <3> QED BY <3>3, <3>5, <3>6
  <2>8. CASE packet(s) \in {"ready", "subscribe"}
    <3>1. at = s.at
      BY <2>8 DEF handled
    <3>2. t.down = s.down
      BY <2>8, <3>1, PlacedFields DEF t
    <3> QED BY <1>1, <2>1, <2>2, <2>8, <3>1, <3>2, TakenSound DEF Same, packet, t
  <2> QED BY <2>1, <2>2, <2>3, <2>4, <2>5, <2>6, <2>7, <2>8, FlowPackets DEF Served
<1> QED BY <1>2, <1>3

\* What happens to a match: found, started, over, left by the opponent.
LEMMA ProgressedSound ==
    ASSUME NEW s, SocketSound(s), s.ws = "open", NEW x \in {"found", "start", "over", "left"},
           IF x = "found" THEN s.at \in {"queued", "hosting"} ELSE s.at = "room",
           NEW t \in Socket, t.ws = s.ws, t.flow = s.flow, t.step = s.step, t.up = s.up,
           t.state = s.state, t.down = told(s, x).down,
           t.at = IF x = "left" THEN "out" ELSE "room"
    PROVE  SocketSound(t) /\ \A p : Fits(p, s) => Fits(p, t)
<1>1. s \in Socket /\ x \in News
  BY DEF SocketSound, News
<1>2. /\ Range(s.down) \subseteq Range(t.down)
      /\ s.state = "open" => t.down = Append(s.down, x)
  BY <1>1, ToldFields
<1>3. Same(s, t)
  BY <1>1 DEF Same, placesOf
<1>4. CASE "bye" \in Range(s.down)
  BY <1>2, <1>3, <1>4, Dismissed
<1>5. CASE "bye" \notin Range(s.down)
  <2>1. Served(s)
    BY <1>5 DEF Served
  <2>2. s.state = "open" /\ t.down = Append(s.down, x)
    BY <1>2, <2>1, ServedSound
  <2>3. CASE x = "found"
    <3>1. /\ Range(s.up) \cap {"search", "create"} = {}
          /\ \A y \in {"name", "join", "search", "create"} : Once(y, s.up)
          /\ "joined" \in Range(s.down) => s.flow = "find"
      BY <2>1, <2>3, ServedSound DEF Asked, Told
    <3> QED BY <1>3, <2>1, <2>2, <2>3, <3>1, FoundSound
  <2>4. CASE x # "found"
    BY <1>3, <2>1, <2>2, <2>4, PlayedSound
  <2> QED BY <2>3, <2>4
<1> QED BY <1>4, <1>5

-----------------------------------------------------------------------------
(* What the page does with a socket.                                         *)

\* A socket that is not open carries nothing and stands nowhere.
LEMMA RestSound ==
    ASSUME NEW s \in Socket, s.ws # "open", live(s) => s.flow \in Flows,
           s.ws = "connecting" => s.step = "connect",
           s.up = <<>>, s.down = <<>>, s.at = "out"
    PROVE  SocketSound(s)
<1>1. s.at \in placesOf(s.flow) /\ Range(s.up) = {}
  BY NothingSent DEF placesOf
<1> QED BY <1>1 DEF SocketSound, Purposeful

Steps == {"none", "connect", "name", "lobby", "done", "rejected", "failed"}

\* A socket that is not made yet, and one that is gone.
LEMMA Absent ==
    /\ newSocket \in Socket /\ newSocket.up = <<>> /\ newSocket.down = <<>>
    /\ newSocket.at = "out" /\ newSocket.ws = "none" /\ SocketSound(newSocket)
    /\ LET t == closedSocket
       IN  /\ t \in Socket /\ SocketSound(t) /\ ~live(t) /\ t.ws = "closed" /\ t.step = "none"
           /\ t.flow = "none" /\ t.up = <<>> /\ t.down = <<>> /\ t.at = "out"
<1> DEFINE s == newSocket
           t == closedSocket
<1>1. s \in Socket /\ s.up = <<>> /\ s.down = <<>> /\ s.at = "out" /\ s.ws = "none"
      /\ s.flow = "none" /\ s.step = "none"
  BY DEF newSocket, Socket, At
<1>2. t = [s EXCEPT !.ws = "closed", !.state = "gone"]
  BY DEF closedSocket
<1> HIDE DEF s, t
<1>3. /\ t \in Socket /\ t.ws = "closed" /\ t.step = "none" /\ t.flow = "none"
      /\ t.up = <<>> /\ t.down = <<>> /\ t.at = "out"
  BY <1>1, <1>2 DEF Socket
<1>4. SocketSound(s) /\ SocketSound(t) /\ ~live(t)
  BY <1>1, <1>3, RestSound DEF live
<1> QED BY <1>1, <1>3, <1>4 DEF s, t

\* A socket that is closed.
shutSocket(ws, step) == [closedSocket EXCEPT !.ws = ws, !.step = step]

\* It is sound, and not live.
LEMMA ShutSound ==
    ASSUME NEW ws \in {"closing", "closed"}, NEW step \in Steps
    PROVE  LET t == shutSocket(ws, step)
           IN  SocketSound(t) /\ ~live(t) /\ t.ws = ws /\ t.step = step /\ t.flow = "none"
               /\ t.up = <<>> /\ t.down = <<>> /\ t.at = "out"
<1> DEFINE t == shutSocket(ws, step)
           c == closedSocket
<1>1. c \in Socket /\ c.up = <<>> /\ c.down = <<>> /\ c.at = "out" /\ c.flow = "none"
  BY Absent
<1>2. t = [c EXCEPT !.ws = ws, !.step = step]
  BY DEF shutSocket
<1> HIDE DEF t, c
<1>3. /\ t \in Socket /\ t.ws = ws /\ t.step = step /\ t.up = <<>> /\ t.down = <<>>
      /\ t.at = "out" /\ t.flow = "none"
  BY <1>1, <1>2 DEF Socket, Steps
<1> QED BY <1>3, RestSound DEF t, live

\* A socket as it is made.
connecting(flow) == [newSocket EXCEPT !.ws = "connecting", !.flow = flow, !.step = "connect"]

\* It is sound, and live.
LEMMA MadeSound ==
    ASSUME NEW flow \in Flows
    PROVE  LET t == connecting(flow)
           IN  /\ SocketSound(t) /\ live(t) /\ t.flow = flow /\ t.step = "connect"
               /\ t.down = <<>> /\ t.ws = "connecting"
<1> DEFINE t == connecting(flow)
           n == newSocket
<1>1. n \in Socket /\ n.up = <<>> /\ n.down = <<>> /\ n.at = "out"
  BY Absent
<1>2. t = [n EXCEPT !.ws = "connecting", !.flow = flow, !.step = "connect"]
  BY DEF connecting
<1> HIDE DEF t, n
<1>3. /\ t \in Socket /\ t.ws = "connecting" /\ t.step = "connect" /\ t.flow = flow
      /\ t.up = <<>> /\ t.down = <<>> /\ t.at = "out"
  BY <1>1, <1>2 DEF Socket
<1> QED BY <1>3, RestSound DEF t, live

\* A socket that opens sends the name.
opened(s) == [s EXCEPT !.ws = "open", !.step = "name", !.up = <<"name">>, !.state = "open"]

\* It is sound, and fits whatever screen it did.
LEMMA OpenedSound ==
    ASSUME NEW s, SocketSound(s), s.ws = "connecting"
    PROVE  LET t == opened(s)
           IN  SocketSound(t) /\ live(t) /\ t.flow = s.flow /\ t.step = "name"
               /\ t.at = "out" /\ \A p : Fits(p, s) => Fits(p, t)
<1> DEFINE t == opened(s)
           q == <<"name">>
<1>1. s \in Socket /\ s.flow \in Flows /\ s.down = <<>> /\ s.at = "out" /\ s.step = "connect"
      /\ s.up = <<>>
  BY DEF SocketSound, Purposeful, live
<1>2. q \in Seq(Packets) /\ Range(q) = {"name"} /\ \A y : Once(y, q)
  BY Alone DEF Packets
<1> HIDE DEF q
<1>3. t = [s EXCEPT !.ws = "open", !.step = "name", !.up = q, !.state = "open"]
  BY DEF opened, q
<1> HIDE DEF t
<1>4. /\ t \in Socket /\ t.ws = "open" /\ t.flow = s.flow /\ t.step = "name"
      /\ t.up = q /\ t.down = <<>> /\ t.state = "open" /\ t.at = "out"
  BY <1>1, <1>2, <1>3 DEF Socket
<1>5. Range(t.down) = {} /\ \A y : Foremost(y, t.down) /\ Final(y, t.down)
  BY <1>4, NothingSent, NoneSent
<1>6. Asked(t)
  BY <1>2, <1>4, <1>5 DEF Asked
<1>7. Told(t)
  BY <1>4, <1>5 DEF Told
<1>8. Purposeful(t) /\ live(t)
  BY <1>1, <1>2, <1>4 DEF Purposeful, live, packetsOf, placesOf
<1>9. \A p : Fits(p, s) => Fits(p, t)
  BY <1>1, <1>4, <1>5, NothingSent DEF Fits
<1> QED BY <1>4, <1>6, <1>7, <1>8, <1>9 DEF SocketSound, t

\* A flow that is over leaves its socket as it is.
stepped(s, step) == [s EXCEPT !.step = step]

\* A step changes nothing else.
LEMMA StepFields ==
    ASSUME NEW s \in Socket, NEW step \in Steps
    PROVE  LET t == stepped(s, step)
           IN  /\ t \in Socket /\ t.ws = s.ws /\ t.flow = s.flow /\ t.step = step /\ t.at = s.at
               /\ t.up = s.up /\ t.down = s.down /\ t.state = s.state /\ t.phase = s.phase
BY DEF Socket, Steps, stepped

\* It is sound as it was.
LEMMA SteppedSound ==
    ASSUME NEW s, SocketSound(s), s.ws # "connecting", NEW step \in {"rejected", "failed"}
    PROVE  LET t == stepped(s, step)
           IN  SocketSound(t) /\ t.ws = s.ws /\ t.flow = s.flow /\ t.step = step
<1> DEFINE t == stepped(s, step)
<1>1. step \in Steps /\ s \in Socket
  BY DEF Steps, SocketSound
<1>2. /\ t \in Socket /\ t.ws = s.ws /\ t.flow = s.flow /\ t.step = step /\ t.at = s.at
      /\ t.up = s.up /\ t.down = s.down /\ t.state = s.state
  BY <1>1, StepFields
<1> HIDE DEF t
<1>3. Purposeful(t)
  BY <1>2 DEF SocketSound, Purposeful, live
<1>4. Asked(s) /\ Told(s) => Asked(t) /\ Told(t)
  BY <1>2 DEF Asked, Told
<1> QED BY <1>2, <1>3, <1>4 DEF SocketSound, t

\* An attempt to connect that fails.
failing(s) == [s EXCEPT !.ws = "failed", !.step = "rejected"]
aborting(s) == [s EXCEPT !.ws = "aborting"]

\* A socket that fails to connect, or is closed meanwhile, is sound and not live.
LEMMA FailingSound ==
    ASSUME NEW s, SocketSound(s), s.ws \in {"connecting", "aborting"}
    PROVE  /\ LET t == failing(s)
              IN  SocketSound(t) /\ ~live(t) /\ t.ws = "failed" /\ t.step = "rejected"
           /\ LET t == aborting(s) IN SocketSound(t) /\ ~live(t) /\ t.ws = "aborting"
<1>1. s \in Socket /\ s.up = <<>> /\ s.down = <<>> /\ s.at = "out"
  BY DEF SocketSound, Purposeful
<1> DEFINE t == failing(s)
           u == aborting(s)
<1>2. /\ t \in Socket /\ t.ws = "failed" /\ t.step = "rejected"
      /\ t.up = <<>> /\ t.down = <<>> /\ t.at = "out"
  BY <1>1 DEF Socket, failing
<1>3. u \in Socket /\ u.ws = "aborting" /\ u.up = <<>> /\ u.down = <<>> /\ u.at = "out"
  BY <1>1 DEF Socket, aborting
<1> HIDE DEF t, u
<1>4. ~live(t) /\ ~live(u)
  BY <1>2, <1>3 DEF live
<1> QED BY <1>2, <1>3, <1>4, RestSound DEF t, u

\* The server is gone: the close is all that is on its way.
dead(s) == [s EXCEPT !.state = "gone", !.at = "out", !.phase = "idle", !.up = <<>>,
                     !.down = <<"bye">>]

\* It is sound, and fits any screen.
LEMMA DeadSound ==
    ASSUME NEW s, SocketSound(s), s.ws = "open"
    PROVE  LET t == dead(s)
           IN  SocketSound(t) /\ t.ws = "open" /\ t.flow = s.flow /\ \A p : Fits(p, t)
<1> DEFINE t == dead(s)
           q == <<"bye">>
           none == <<>>
<1>1. s \in Socket
  BY DEF SocketSound
<1>2. q \in Seq(News) /\ Range(q) = {"bye"} /\ none \in Seq(Packets)
  BY Alone DEF News
<1> HIDE DEF q, none
<1>3. t = [s EXCEPT !.state = "gone", !.at = "out", !.phase = "idle", !.up = none, !.down = q]
  BY DEF dead, q, none
<1> HIDE DEF t
<1>4. /\ t \in Socket /\ t.ws = "open" /\ t.flow = s.flow /\ t.step = s.step
      /\ t.up = none /\ t.down = q /\ t.at = "out"
  BY <1>1, <1>2, <1>3 DEF Socket, At
<1>5. Same(s, t)
  BY <1>4, NothingSent DEF Same, placesOf, none
<1> QED BY <1>2, <1>4, <1>5, Dismissed DEF t
\* A packet sent.
sending(s, x) == [s EXCEPT !.up = Append(@, x)]

\* What is on its way up when one packet more is sent, and nothing else changes.
LEMMA SendingFields ==
    ASSUME NEW s \in Socket, NEW x \in Packets
    PROVE  LET t == sending(s, x)
           IN  /\ t \in Socket /\ t.ws = s.ws /\ t.flow = s.flow /\ t.step = s.step /\ t.at = s.at
               /\ t.up = Append(s.up, x) /\ Range(t.up) = Range(s.up) \cup {x}
               /\ t.down = s.down /\ t.state = s.state
               /\ \A y : Once(y, s.up) /\ (y = x => y \notin Range(s.up)) => Once(y, t.up)
<1> DEFINE q == Append(s.up, x)
<1>1. s.up \in Seq(Packets)
  BY DEF Socket
<1>2. q \in Seq(Packets) /\ Range(q) = Range(s.up) \cup {x}
  BY <1>1, Sent
<1>3. \A y : Once(y, s.up) /\ (y = x => y \notin Range(s.up)) => Once(y, q)
  BY <1>1, SentOnce
<1> HIDE DEF q
<1>4. sending(s, x) = [s EXCEPT !.up = q]
  BY DEF sending, q
<1> DEFINE t == sending(s, x)
<1> HIDE DEF t
<1>5. /\ t \in Socket /\ t.ws = s.ws /\ t.flow = s.flow /\ t.step = s.step /\ t.at = s.at
      /\ t.up = q /\ t.down = s.down /\ t.state = s.state
  BY <1>2, <1>4 DEF Socket, t
<1> QED BY <1>2, <1>3, <1>5 DEF q, t

\* The player's packets come in no order: a row is chosen on the page of the list, and
\* the button is there for whatever match is found.
LEMMA PlayerSends ==
    ASSUME NEW s, SocketSound(s), s.ws = "open", NEW x \in {"ready", "enter"},
           x = "enter" => s.flow = "find"
    PROVE  LET t == sending(s, x)
           IN  SocketSound(t) /\ t.ws = "open" /\ t.flow = s.flow
               /\ \A p : Fits(p, s) => Fits(p, t)
<1> DEFINE t == sending(s, x)
<1>1. s \in Socket /\ x \in Packets /\ x \in packetsOf(s.flow)
  BY DEF SocketSound, Packets, packetsOf
<1>2. /\ t \in Socket /\ t.ws = "open" /\ t.flow = s.flow /\ t.step = s.step /\ t.at = s.at
      /\ Range(t.up) = Range(s.up) \cup {x} /\ t.down = s.down /\ t.state = s.state
      /\ \A y \in {"name", "join", "search", "create"} : Once(y, s.up) => Once(y, t.up)
  BY <1>1, SendingFields
<1> HIDE DEF t
<1>3. Purposeful(t)
  BY <1>1, <1>2 DEF SocketSound, Purposeful, live
<1>4. Asked(s) /\ Told(s) => Asked(t) /\ Told(t)
  <2>1. Asked(s) => Asked(t)
    BY <1>2 DEF Asked
  <2>2. Told(s) => Told(t)
    BY <1>2 DEF Told
  <2> QED BY <2>1, <2>2
<1>5. \A p : Fits(p, s) => Fits(p, t)
  BY <1>2 DEF Fits
<1> QED BY <1>2, <1>3, <1>4, <1>5 DEF SocketSound, t

\* News that arrives.
heard(s) == [s EXCEPT !.down = Tail(@)]

\* What is on its way down when the first of the news has arrived.
LEMMA HeardFields ==
    ASSUME NEW s \in Socket, s.down # <<>>
    PROVE  LET t == heard(s)
           IN  /\ t \in Socket /\ t.ws = s.ws /\ t.flow = s.flow /\ t.step = s.step /\ t.at = s.at
               /\ t.up = s.up /\ t.down = Tail(s.down) /\ t.state = s.state
               /\ Range(s.down) = Range(t.down) \cup {Head(s.down)} /\ Head(s.down) \in News
<1> DEFINE q == Tail(s.down)
<1>1. s.down \in Seq(News)
  BY DEF Socket
<1>2. q \in Seq(News) /\ Range(s.down) = Range(q) \cup {Head(s.down)} /\ Head(s.down) \in News
  BY <1>1, Arrived
<1> HIDE DEF q
<1>3. heard(s) = [s EXCEPT !.down = q]
  BY DEF heard, q
<1> QED BY <1>2, <1>3 DEF Socket, q

\* What the first news says of the place of a socket that is not dismissed.
LEMMA NewsTrue ==
    ASSUME NEW s, Served(s), s.down # <<>>
    PROVE  LET t == heard(s) x == Head(s.down) down == Range(t.down)
           IN  /\ x = "named" => t.down = <<>> /\ Range(s.up) \cap {"name", "join"} = {}
               /\ x = "joined" => /\ s.at = "lobby" \/ "found" \in down
                                  /\ s.flow # "find" => s.at = "lobby" /\ t.down = <<>>
                                  /\ Range(s.up) \cap {"search", "create", "subscribe"} = {}
                                  /\ s.step # "done"
               /\ x = "created" => s.flow = "host" /\ (s.at = "hosting" \/ "found" \in down)
               /\ x \in {"found", "start", "over"} => s.at = "room" \/ "left" \in down
               /\ x # "named" => s.step # "name"
               /\ s.step = "lobby" => x = "joined"
               /\ Range(s.up) \cap {"name", "join", "search", "create"} = {}
               /\ "named" \notin down /\ "joined" \notin down
<1> DEFINE t == heard(s)
           x == Head(s.down)
<1>1. /\ Asked(s) /\ Told(s) /\ t.down = Tail(s.down) /\ Range(s.down) = Range(t.down) \cup {x}
      /\ s.down \in Seq(News)
  BY ServedSound, HeardFields
<1>2. Foremost("joined", s.down) /\ s.down # <<>>
  BY <1>1 DEF Told
<1>3. "joined" \notin Range(t.down)
  BY <1>1, <1>2, ArrivedForemost
<1>4. s.down = <<"named">> => t.down = <<>> /\ x = "named"
  BY <1>1, Alone
<1>5. s.down = <<"joined">> => t.down = <<>>
  BY <1>1, Alone
<1>6. Range(<<>>) = {}
  BY NothingSent
<1>7. "named" \in Range(s.down) => t.down = <<>> /\ x = "named"
  BY <1>1, <1>4 DEF Asked
<1> HIDE DEF t, x
<1>8. Range(s.up) \cap {"name", "join", "search", "create"} = {}
  BY <1>1, <1>2 DEF Asked
<1>9. "named" \notin Range(t.down)
  BY <1>1, <1>6, <1>7
<1>10. x = "named" => t.down = <<>> /\ Range(s.up) \cap {"name", "join"} = {}
  BY <1>1, <1>7, <1>8
<1>11. x = "joined" => /\ s.at = "lobby" \/ "found" \in Range(t.down)
                       /\ s.flow # "find" => s.at = "lobby" /\ t.down = <<>>
                       /\ Range(s.up) \cap {"search", "create", "subscribe"} = {}
                       /\ s.step # "done"
  BY <1>1, <1>5 DEF Told
<1>12. x = "created" => s.flow = "host" /\ (s.at = "hosting" \/ "found" \in Range(t.down))
  BY <1>1 DEF Told
<1>13. x \in {"found", "start", "over"} => s.at = "room" \/ "left" \in Range(t.down)
  BY <1>1 DEF Told
<1>14. (x # "named" => s.step # "name") /\ (s.step = "lobby" => x = "joined")
  BY <1>1, <1>3, <1>8, <1>9 DEF Asked
<1> QED BY <1>3, <1>8, <1>9, <1>10, <1>11, <1>12, <1>13, <1>14 DEF t, x

\* News leaves what is said of the rest, unless the flow waits for it.
LEMMA HeardSound ==
    ASSUME NEW s, SocketSound(s), s.ws = "open", s.down # <<>>, Head(s.down) # "bye",
           ~(Head(s.down) = "named" /\ s.step = "name"),
           ~(Head(s.down) = "joined" /\ s.step = "lobby")
    PROVE  LET t == heard(s) IN SocketSound(t) /\ t.ws = "open" /\ t.flow = s.flow
<1> DEFINE t == heard(s)
           x == Head(s.down)
<1>1. /\ s \in Socket /\ t \in Socket /\ t.ws = "open" /\ t.flow = s.flow /\ t.step = s.step
      /\ t.at = s.at /\ t.up = s.up /\ t.down = Tail(s.down) /\ t.state = s.state
      /\ Range(s.down) = Range(t.down) \cup {x}
  BY HeardFields DEF SocketSound
<1>2. CASE "bye" \in Range(s.down)
  <2>1. "bye" \in Range(t.down)
    BY <1>1, <1>2
  <2>2. Same(s, t)
    BY <1>1 DEF Same, SocketSound, Purposeful
  <2> QED BY <1>1, <2>1, <2>2, Dismissed DEF t
<1>3. CASE "bye" \notin Range(s.down)
  <2>1. Served(s)
    BY <1>3 DEF Served
  <2> DEFINE down == Range(t.down)
  <2>2. /\ x = "named" => t.down = <<>> /\ Range(s.up) \cap {"name", "join"} = {}
        /\ x = "created" => s.flow = "host" /\ (s.at = "hosting" \/ "found" \in down)
        /\ x \in {"found", "start", "over"} => s.at = "room" \/ "left" \in down
        /\ x # "named" => s.step # "name"
        /\ s.step = "lobby" => x = "joined"
        /\ Range(s.up) \cap {"name", "join", "search", "create"} = {}
        /\ "named" \notin down /\ "joined" \notin down
    BY <2>1, NewsTrue
  <2>3. /\ Asked(s) /\ Told(s) /\ s.state = "open" /\ s.down \in Seq(News) /\ Purposeful(s)
    BY <2>1, ServedSound
  <2>4. /\ Foremost("joined", s.down) /\ Foremost("created", s.down) /\ Final("left", s.down)
    BY <2>3 DEF Told
  <2>5. /\ Foremost("joined", t.down) /\ Foremost("created", t.down) /\ Final("left", t.down)
        /\ x = "left" => t.down = <<>>
        /\ "created" \notin down
    BY <1>1, <2>3, <2>4, ArrivedForemost, ArrivedFinal
  <2>6. t.down = <<>> => down = {}
    BY NothingSent
  <2> HIDE DEF t, x, down
  <2>7. s.step # "name" /\ s.step # "lobby"
    BY <2>2 DEF x
  <2>8. Asked(t)
    BY <1>1, <2>2, <2>3, <2>7 DEF Asked, down
  <2>9. Told(t)
    BY <1>1, <2>2, <2>3, <2>5, <2>6 DEF Told, down
  <2>10. Purposeful(t)
    BY <1>1, <2>3 DEF Purposeful, live
  <2> QED BY <1>1, <2>3, <2>8, <2>9, <2>10 DEF SocketSound, t
<1> QED BY <1>2, <1>3
\* The flow goes on: the answer it waited for arrives, and its next packet is sent.
answered(s, step, x) == sending(stepped(heard(s), step), x)

Answers(s, t, step, x) ==
    /\ t \in Socket /\ t.ws = s.ws /\ t.flow = s.flow /\ t.step = step /\ t.at = s.at
    /\ Range(t.up) = Range(s.up) \cup {x} /\ t.down = Tail(s.down)
    /\ Range(s.down) = Range(t.down) \cup {Head(s.down)}
    /\ t.down = heard(s).down /\ t.state = s.state
    /\ \A y \in Packets :
            Once(y, s.up) /\ (y = x => y \notin Range(s.up)) => Once(y, t.up)

\* An answer heard changes the step and what is on its way, and nothing else.
LEMMA AnsweredFields ==
    ASSUME NEW s, SocketSound(s), s.down # <<>>, NEW step \in Steps, NEW x \in Packets
    PROVE  Answers(s, answered(s, step, x), step, x)
<1> DEFINE u == heard(s)
           v == stepped(u, step)
           t == sending(v, x)
<1>1. /\ u \in Socket /\ u.ws = s.ws /\ u.flow = s.flow /\ u.step = s.step /\ u.at = s.at
      /\ u.up = s.up /\ u.down = Tail(s.down) /\ u.state = s.state
      /\ Range(s.down) = Range(u.down) \cup {Head(s.down)}
  BY HeardFields DEF SocketSound
<1>2. /\ v \in Socket /\ v.ws = u.ws /\ v.flow = u.flow /\ v.step = step /\ v.at = u.at
      /\ v.up = u.up /\ v.down = u.down /\ v.state = u.state
  BY <1>1, StepFields
<1> HIDE DEF u, v
<1>3. /\ t \in Socket /\ t.ws = v.ws /\ t.flow = v.flow /\ t.step = v.step /\ t.at = v.at
      /\ Range(t.up) = Range(v.up) \cup {x} /\ t.down = v.down /\ t.state = v.state
      /\ \A y : Once(y, v.up) /\ (y = x => y \notin Range(v.up)) => Once(y, t.up)
  BY <1>2, SendingFields
<1>4. t = answered(s, step, x)
  BY DEF answered, u, v
<1> HIDE DEF t
<1> QED BY <1>1, <1>2, <1>3, <1>4 DEF u, Answers

\* Named, the player asks for the lobby.
LEMMA AskedToJoin ==
    ASSUME NEW s, SocketSound(s), s.ws = "open", s.down # <<>>, Head(s.down) = "named",
           s.step = "name"
    PROVE  LET t == answered(s, "lobby", "join")
           IN  SocketSound(t) /\ t.ws = "open" /\ t.flow = s.flow
               /\ \A p : Fits(p, s) => Fits(p, t)
<1> DEFINE t == answered(s, "lobby", "join")
<1>1. /\ t \in Socket /\ t.ws = s.ws /\ t.flow = s.flow /\ t.step = "lobby" /\ t.at = s.at
      /\ Range(t.up) = Range(s.up) \cup {"join"}
      /\ Range(s.down) = Range(t.down) \cup {Head(s.down)}
      /\ t.down = heard(s).down /\ t.state = s.state
      /\ \A y \in Packets :
            Once(y, s.up) /\ (y = "join" => y \notin Range(s.up)) => Once(y, t.up)
  <2>1. "lobby" \in Steps /\ "join" \in Packets
    BY DEF Steps, Packets
  <2>2. Answers(s, t, "lobby", "join")
    BY <2>1, AnsweredFields
  <2> HIDE DEF t
  <2> QED BY <2>2 DEF Answers
<1> HIDE DEF t
<1>2. Purposeful(t)
  <2>1. "join" \in packetsOf(s.flow)
    BY DEF packetsOf
  <2> QED BY <1>1, <2>1 DEF SocketSound, Purposeful, live
<1>3. CASE "bye" \in Range(s.down)
  BY <1>1, <1>2, <1>3 DEF SocketSound, Fits, t
<1>4. CASE "bye" \notin Range(s.down)
  <2>1. Served(s)
    BY <1>4 DEF Served
  <2>2. t.down = <<>> /\ Range(s.up) \cap {"name", "join", "search", "create"} = {}
    BY <1>1, <2>1, NewsTrue
  <2>3. Asked(s) /\ s.state = "open"
    BY <2>1, ServedSound
  <2>4. s.at = "out" /\ Range(s.up) \cap {"search", "create", "subscribe"} = {}
    BY <1>1, <2>3 DEF Asked
  <2>5. Range(t.down) = {} /\ \A y : Foremost(y, t.down) /\ Final(y, t.down)
    BY <2>2, NothingSent, NoneSent
  <2>6. \A y \in {"name", "join", "search", "create"} : Once(y, t.up)
    BY <1>1, <2>2, <2>3 DEF Asked, Packets
  <2>7. Asked(t)
    BY <1>1, <2>2, <2>4, <2>5, <2>6 DEF Asked
  <2>8. Told(t)
    BY <2>5 DEF Told
  <2>9. \A p : Fits(p, s) => Fits(p, t)
    BY <1>1, <1>4, <2>4, <2>5 DEF Fits
  <2> QED BY <1>1, <1>2, <2>3, <2>7, <2>8, <2>9 DEF SocketSound, t
<1> QED BY <1>3, <1>4

\* In the lobby, the flow sends what it is there for.
LEMMA AskedForMore ==
    ASSUME NEW s, SocketSound(s), s.ws = "open", s.down # <<>>, Head(s.down) = "joined",
           s.step = "lobby"
    PROVE  LET t == answered(s, "done", lastPacket(s.flow))
           IN  SocketSound(t) /\ t.ws = "open" /\ t.flow = s.flow
               /\ \A p : Fits(p, s) => Fits(p, t)
<1> DEFINE x == lastPacket(s.flow)
           t == answered(s, "done", x)
<1>1. /\ s.flow \in Flows /\ s \in Socket
      /\ x = CASE s.flow = "quick" -> "search" [] s.flow = "host" -> "create"
               [] s.flow = "find" -> "subscribe"
  BY DEF SocketSound, Purposeful, live, lastPacket
<1>2. x \in Packets /\ x \in packetsOf(s.flow) /\ x \in {"search", "create", "subscribe"}
      /\ (s.flow = "quick" <=> x = "search") /\ (s.flow = "find" <=> x = "subscribe")
  BY <1>1 DEF Packets, packetsOf, Flows
<1> HIDE DEF x
<1>3. /\ t \in Socket /\ t.ws = s.ws /\ t.flow = s.flow /\ t.step = "done" /\ t.at = s.at
      /\ Range(t.up) = Range(s.up) \cup {x}
      /\ Range(s.down) = Range(t.down) \cup {Head(s.down)}
      /\ t.down = heard(s).down /\ t.down = Tail(s.down) /\ t.state = s.state
      /\ \A y \in Packets :
            Once(y, s.up) /\ (y = x => y \notin Range(s.up)) => Once(y, t.up)
  <2>1. "done" \in Steps /\ x \in Packets
    BY <1>2 DEF Steps
  <2>2. Answers(s, t, "done", x)
    BY <2>1, AnsweredFields
  <2> HIDE DEF t
  <2> QED BY <2>2 DEF Answers
<1> HIDE DEF t
<1>4. Purposeful(t)
  BY <1>2, <1>3 DEF SocketSound, Purposeful, live
<1>5. CASE "bye" \in Range(s.down)
  BY <1>3, <1>4, <1>5 DEF SocketSound, Fits, t, x
<1>6. CASE "bye" \notin Range(s.down)
  <2>1. Served(s)
    BY <1>6 DEF Served
  <2>2. /\ Range(s.up) \cap {"name", "join", "search", "create"} = {}
        /\ "named" \notin Range(t.down) /\ "joined" \notin Range(t.down)
        /\ s.at = "lobby" \/ "found" \in Range(t.down)
        /\ s.flow # "find" => s.at = "lobby" /\ t.down = <<>>
        /\ Range(s.up) \cap {"search", "create", "subscribe"} = {}
    BY <1>3, <2>1, NewsTrue
  <2>3. Asked(s) /\ Told(s) /\ s.state = "open" /\ s.down \in Seq(News)
    BY <2>1, ServedSound
  <2>4. /\ Foremost("joined", t.down) /\ Foremost("created", t.down) /\ Final("left", t.down)
    BY <1>3, <2>3, ArrivedForemost, ArrivedFinal DEF Told
  <2>5. \A y \in {"name", "join", "search", "create"} : Once(y, t.up)
    BY <1>3, <2>2, <2>3 DEF Asked, Packets
  <2>6. t.down = <<>> => Range(t.down) = {}
    BY NothingSent
  <2>7. Asked(t)
    BY <1>2, <1>3, <2>2, <2>5 DEF Asked
  <2>8. Told(t)
    BY <1>2, <1>3, <2>2, <2>3, <2>4 DEF Told
  <2>9. ASSUME NEW p, Fits(p, s) PROVE Fits(p, t)
    <3>1. "found" \in Range(s.down) <=> "found" \in Range(t.down)
      BY <1>3
    <3>2. "left" \in Range(s.down) <=> "left" \in Range(t.down)
      BY <1>3
    <3>3. s.flow = "quick" => "search" \in Range(t.up)
      BY <1>2, <1>3
    <3> QED BY <1>3, <1>6, <2>2, <2>9, <3>1, <3>2, <3>3 DEF Fits
  <2> QED BY <1>3, <1>4, <2>3, <2>7, <2>8, <2>9 DEF SocketSound, t, x
<1> QED BY <1>5, <1>6
-----------------------------------------------------------------------------
(* The page and its sockets together.                                        *)

World == [page : Page, socks : [Sockets -> Socket]]

Socketed(w) == w \in World /\ \A k \in Sockets : SocketSound(w.socks[k])

\* The screen under the history is forgotten when the history is left.
Returns(p, q) ==
    /\ q.returnTo \in {p.returnTo, "intro"}
    /\ q.screen = "history" => q.returnTo = p.returnTo

\* What closing the current client makes of w: no socket is live but those left behind.
Relinquished(w, v) ==
    /\ Socketed(v)
    /\ \A k \in Sockets : live(v.socks[k]) => live(w.socks[k]) /\ k # w.page.client
    /\ v.page.client = NoSocket /\ v.page.behind = w.page.behind
    /\ v.page.returnTo \in {w.page.returnTo, "intro"}
    /\ Followed(w.page) => Followed(v.page)

\* A world has its parts.
LEMMA WorldParts ==
    ASSUME NEW w \in World
    PROVE  /\ w.page \in Page /\ w.socks \in [Sockets -> Socket]
           /\ w.page.client \in Sockets \cup {NoSocket} /\ w.page.behind \in SUBSET Sockets
           /\ w = [page |-> w.page, socks |-> w.socks]
BY DEF World, Page

\* The number of no socket is none of theirs.
LEMMA NoSocketApart == NoSocket \notin Sockets
BY DEF NoSocket, Sockets

\* One socket of a world, changed.
LEMMA PutFields ==
    ASSUME NEW w \in World, NEW k \in Sockets, NEW t \in Socket
    PROVE  LET v == [w EXCEPT !.socks[k] = t]
           IN  v \in World /\ v.page = w.page /\ v.socks = [w.socks EXCEPT ![k] = t]
BY DEF World

\* If it is sound, the sockets are as sound as they were.
LEMMA OneSocket ==
    ASSUME NEW w, Socketed(w), NEW k \in Sockets, NEW t, SocketSound(t)
    PROVE  LET v == [w EXCEPT !.socks[k] = t]
           IN  /\ Socketed(v) /\ v.page = w.page /\ v.socks[k] = t
               /\ v.socks = [w.socks EXCEPT ![k] = t]
               /\ \A j \in Sockets : j # k => v.socks[j] = w.socks[j]
<1> DEFINE v == [w EXCEPT !.socks[k] = t]
<1>1. t \in Socket /\ w \in World
  BY DEF Socketed, SocketSound
<1>2. v \in World /\ v.page = w.page /\ v.socks = [w.socks EXCEPT ![k] = t]
  BY <1>1 DEF World
<1>3. v.socks[k] = t /\ \A j \in Sockets : j # k => v.socks[j] = w.socks[j]
  BY <1>1, <1>2, WorldParts
<1> HIDE DEF v
<1>4. Socketed(v)
  BY <1>2, <1>3 DEF Socketed
<1> QED BY <1>2, <1>3, <1>4 DEF v

\* A socket that is shut is not live, and nothing else moves.
LEMMA ShutEffect ==
    ASSUME NEW w, Socketed(w), NEW k \in Sockets
    PROVE  LET v == shut(w, k)
           IN  /\ Socketed(v) /\ v.page = w.page /\ ~live(v.socks[k])
               /\ \A j \in Sockets : j # k => v.socks[j] = w.socks[j]
<1> DEFINE s == w.socks[k]
           pending == IF s.step \in answersDue THEN "rejected" ELSE s.step
           a == [w EXCEPT !.socks[k] = shutSocket("closing", pending)]
           b == [w EXCEPT !.socks[k] = aborting(s)]
<1>1. s \in Socket /\ SocketSound(s) /\ pending \in Steps
  BY WorldParts DEF Socketed, Socket, Steps
<1>2. SocketSound(shutSocket("closing", pending)) /\ ~live(shutSocket("closing", pending))
  BY <1>1, ShutSound
<1>3. CASE s.ws = "open"
  <2>1. shut(w, k) = a
    BY <1>3 DEF shut, shutSocket
  <2>2. Socketed(a) /\ a.page = w.page /\ a.socks[k] = shutSocket("closing", pending)
        /\ \A j \in Sockets : j # k => a.socks[j] = w.socks[j]
    BY <1>2, OneSocket
  <2> HIDE DEF a
  <2> QED BY <1>2, <2>1, <2>2
<1>4. CASE s.ws = "connecting"
  <2>1. b = [w EXCEPT !.socks[k].ws = "aborting"]
    BY DEF aborting
  <2>2. shut(w, k) = b
    BY <1>4, <2>1 DEF shut
  <2>3. SocketSound(aborting(s)) /\ ~live(aborting(s))
    BY <1>1, <1>4, FailingSound
  <2>4. Socketed(b) /\ b.page = w.page /\ b.socks[k] = aborting(s)
        /\ \A j \in Sockets : j # k => b.socks[j] = w.socks[j]
    BY <2>3, OneSocket
  <2> HIDE DEF b
  <2> QED BY <2>2, <2>3, <2>4
<1>5. CASE s.ws \notin {"open", "connecting"}
  <2>1. shut(w, k) = w
    BY <1>5 DEF shut
  <2>2. ~live(s)
    BY <1>5 DEF live
  <2> QED BY <2>1, <2>2
<1> QED BY <1>3, <1>4, <1>5

\* The current client is closed and forgotten.
LEMMA CloseEffect ==
    ASSUME NEW w, Socketed(w)
    PROVE  LET v == closeClient(w)
           IN  /\ Relinquished(w, v)
               /\ v.page \in Page /\ v.page.screen = w.page.screen
               /\ v.page.started = w.page.started /\ v.page.code = w.page.code
               /\ v.page.returnTo = w.page.returnTo
<1> DEFINE k == w.page.client
           u == shut(w, k)
           v == closeClient(w)
<1>1. w \in World /\ w.page \in Page /\ k \in Sockets \cup {NoSocket}
  BY WorldParts DEF Socketed
<1>2. CASE k = NoSocket
  <2>1. v = w
    BY <1>2 DEF closeClient
  <2>2. \A j \in Sockets : j # k
    BY <1>2, NoSocketApart
  <2> HIDE DEF k, v
  <2> QED BY <1>1, <1>2, <2>1, <2>2 DEF Relinquished, k, v
<1>3. CASE k # NoSocket
  <2>1. /\ Socketed(u) /\ u.page = w.page /\ ~live(u.socks[k]) /\ k \in Sockets
        /\ \A j \in Sockets : j # k => u.socks[j] = w.socks[j]
    BY <1>1, <1>3, ShutEffect
  <2>2. v = [u EXCEPT !.page.authority = NoSocket, !.page.counting = FALSE,
                      !.page.manual = TRUE, !.page.client = NoSocket]
    BY <1>3 DEF closeClient, unfollowed
  <2> DEFINE q == [w.page EXCEPT !.authority = NoSocket, !.counting = FALSE,
                                 !.manual = TRUE, !.client = NoSocket]
  <2>3. /\ q \in Page /\ q.client = NoSocket /\ q.behind = w.page.behind
        /\ q.returnTo = w.page.returnTo /\ q.screen = w.page.screen
        /\ q.started = w.page.started /\ q.code = w.page.code
        /\ q.authority = NoSocket /\ q.counting = FALSE
    BY <1>1 DEF Page
  <2>4. u \in World /\ u = [page |-> u.page, socks |-> u.socks]
    BY <2>1, WorldParts DEF Socketed
  <2> HIDE DEF u, v, k
  <2>5. v.page = q /\ v.socks = u.socks /\ v = [page |-> v.page, socks |-> v.socks]
    BY <2>1, <2>2, <2>4
  <2> HIDE DEF q
  <2>6. v \in World
    BY <2>3, <2>4, <2>5 DEF World
  <2>7. Socketed(v)
    BY <2>1, <2>5, <2>6 DEF Socketed
  <2>8. Relinquished(w, v)
    BY <2>1, <2>3, <2>5, <2>7 DEF Relinquished, Followed, k
  <2> QED BY <2>3, <2>5, <2>8 DEF v
<1> QED BY <1>2, <1>3
\* Another page over the same sockets.
turned(w, q) == [w EXCEPT !.page = q]

\* The page is the one given, and the sockets are the same.
LEMMA TurnedFields ==
    ASSUME NEW w \in World, NEW q \in Page
    PROVE  LET v == turned(w, q) IN v \in World /\ v.page = q /\ v.socks = w.socks
BY DEF World, turned

\* The page, gone to another screen.
going(p, screen) ==
    [p EXCEPT !.screen = screen,
              !.returnTo = IF screen = "history" THEN p.returnTo ELSE "intro"]

\* That changes nothing else.
LEMMA GoingFields ==
    ASSUME NEW p \in Page, NEW x \in Screens
    PROVE  LET q == going(p, x)
           IN  /\ q \in Page /\ q.screen = x /\ Returns(p, q)
               /\ x # "history" => q.returnTo = "intro"
               /\ q.client = p.client /\ q.match = p.match /\ q.authority = p.authority
               /\ q.counting = p.counting /\ q.started = p.started /\ q.code = p.code
               /\ q.behind = p.behind /\ q.blind = p.blind
<1> DEFINE r == IF x = "history" THEN p.returnTo ELSE "intro"
           q == going(p, x)
<1>1. r \in Screens /\ r \in {p.returnTo, "intro"} /\ (x = "history" => r = p.returnTo)
      /\ (x # "history" => r = "intro")
  BY DEF Page, Screens
<1>2. q = [p EXCEPT !.screen = x, !.returnTo = r]
  BY DEF going
<1> HIDE DEF r, q
<1>3. /\ q \in Page /\ q.screen = x /\ q.returnTo = r
      /\ q.client = p.client /\ q.match = p.match /\ q.authority = p.authority
      /\ q.counting = p.counting /\ q.started = p.started /\ q.code = p.code
      /\ q.behind = p.behind /\ q.blind = p.blind
  BY <1>1, <1>2 DEF Page
<1> QED BY <1>1, <1>3 DEF Returns, q

\* The same of a world.
LEMMA GoesTurned ==
    ASSUME NEW w \in World, NEW x
    PROVE  goes(w, x) = turned(w, going(w.page, x))
BY DEF goes, going, turned, World, Page

\* A world turned twice is turned.
LEMMA TurnedTwice ==
    ASSUME NEW w \in World, NEW q \in Page, NEW r
    PROVE  turned(turned(w, q), r) = turned(w, r)
BY DEF turned, World

\* The page may be turned when the client is closed.
LEMMA RelinquishedPage ==
    ASSUME NEW w, NEW v, Relinquished(w, v), NEW q \in Page, q.client = v.page.client,
           q.behind = v.page.behind, q.returnTo \in {v.page.returnTo, "intro"},
           Followed(v.page) => Followed(q)
    PROVE  Relinquished(w, turned(v, q))
<1> DEFINE u == turned(v, q)
<1>1. u \in World /\ u.page = q /\ u.socks = v.socks
  BY TurnedFields DEF Relinquished, Socketed
<1> HIDE DEF u
<1> QED BY <1>1 DEF Relinquished, Socketed, u

\* The screens that wait for nothing, and to which a closed client leads.
Home == {"intro", "mode-select", "menu", "account"}

\* A page that is turned to one of them over the sockets left behind is sound.
LEMMA Homeward ==
    ASSUME NEW w, NEW v, Owned(w.page, w.socks), Followed(w.page), Relinquished(w, v),
           v.page.returnTo \notin {"history", "matchmaking", "ready", "match", "results"},
           v.page.screen \in Home
    PROVE  Sound(v.page, v.socks)
<1> DEFINE p == v.page
           s == v.socks
<1>1. p \in Page /\ s \in [Sockets -> Socket] /\ \A k \in Sockets : SocketSound(s[k])
  BY WorldParts DEF Relinquished, Socketed
<1>2. p.client = NoSocket /\ p.screen \in Home /\ Followed(p)
      /\ p.returnTo \notin {"history", "matchmaking", "ready", "match", "results"}
  BY DEF Relinquished
<1>3. \A k \in Sockets : live(s[k]) => k \in p.behind
  BY DEF Relinquished, Owned
<1> HIDE DEF p, s
<1>4. PageSound(p)
  BY <1>1, <1>2 DEF PageSound, Home
<1>5. Owned(p, s)
  BY <1>3 DEF Owned
<1>6. client(p, s) = closedSocket
  BY <1>2 DEF client
<1>7. shown(p) \in Home
  BY <1>2 DEF shown, Home
<1> DEFINE c == closedSocket
<1>8. ~live(c) /\ c.ws = "closed"
  BY Absent
<1> HIDE DEF c
<1>9. Current(c) /\ Fits(p, c)
  BY <1>7, <1>8 DEF Current, Fits, Home
<1>10. ClientSound(p, s)
  BY <1>6, <1>7, <1>8, <1>9 DEF ClientSound, Home, c
<1> QED BY <1>1, <1>4, <1>5, <1>10 DEF Sound, p, s

\* An event of a socket moves it, and the page with it: to no screen from which a flow
\* starts, with the same client, and no socket forgotten but one that is closed.
Moved == {"ready", "match", "results", "disconnected", "sync-lost"}

\* So moved, the page and its sockets stay sound.
LEMMA Moves ==
    ASSUME NEW p, NEW s, Sound(p, s), NEW k \in Sockets, NEW t, SocketSound(t),
           live(t) => live(s[k]) /\ t.flow = s[k].flow,
           NEW q, PageSound(q), q.client = p.client, q.started = p.started,
           q.screen = p.screen \/ q.screen \in Moved,
           q.screen = "history" => q.returnTo = p.returnTo,
           q.behind = p.behind \/ (~live(t) /\ q.behind = p.behind \ {k}),
           k = p.client => Current(t),
           q.blind = {} => /\ k = p.client => Fits(q, t)
                           /\ k # p.client => Fits(q, client(p, s))
    PROVE  Sound(q, [s EXCEPT ![k] = t])
<1> DEFINE u == [s EXCEPT ![k] = t]
           c == client(p, s)
           d == client(q, u)
<1>1. s \in [Sockets -> Socket] /\ t \in Socket /\ p \in Page /\ q \in Page
  BY DEF Sound, SocketSound, PageSound
<1>2. u \in [Sockets -> Socket] /\ u[k] = t /\ \A j \in Sockets : j # k => u[j] = s[j]
  BY <1>1
<1> HIDE DEF u
<1>3. \A j \in Sockets : SocketSound(u[j])
  BY <1>2 DEF Sound
<1>4. shown(q) = shown(p) \/ (shown(q) \in Moved /\ q.screen = shown(q))
  BY DEF shown, Moved
<1>5. Calm(q) => Calm(p)
  BY <1>4 DEF Calm, Moved
<1>6. \A j \in Sockets : live(u[j]) => live(s[j]) /\ (j \in p.behind => j \in q.behind)
  BY <1>2
<1>7. Owned(q, u)
  BY <1>5, <1>6 DEF Sound, Owned
<1>8. p.client \in Sockets \cup {NoSocket} /\ NoSocket \notin Sockets
  BY <1>1, NoSocketApart DEF Page
<1>9. k = p.client => d = t /\ c = s[k]
  BY <1>2, <1>8 DEF client
<1>10. k # p.client => d = c
  BY <1>2, <1>8 DEF client
<1>11. ClientSound(p, s)
  BY DEF Sound
<1> HIDE DEF c, d
<1>12. Current(d)
  BY <1>9, <1>10, <1>11 DEF ClientSound, c
<1>13. shown(q) = "find" => shown(p) = "find"
  BY <1>4 DEF Moved
<1>14. shown(q) = "find" /\ live(d) => d.flow = "find"
  BY <1>9, <1>10, <1>11, <1>13 DEF ClientSound, c
<1>15. q.blind = {} => Fits(q, d)
  BY <1>9, <1>10 DEF c
<1>16. ClientSound(q, u)
  BY <1>12, <1>14, <1>15 DEF ClientSound, d
<1> QED BY <1>2, <1>3, <1>7, <1>16 DEF Sound, u

\* The page stays as it is.
LEMMA Stays ==
    ASSUME NEW p, NEW s, Sound(p, s), NEW k \in Sockets, NEW t, SocketSound(t),
           live(t) => live(s[k]) /\ t.flow = s[k].flow,
           k = p.client => Current(t) /\ (Fits(p, s[k]) => Fits(p, t))
    PROVE  Sound(p, [s EXCEPT ![k] = t])
<1>1. PageSound(p) /\ ClientSound(p, s)
  BY DEF Sound
<1>2. k = p.client => client(p, s) = s[k]
  BY NoSocketApart DEF client
<1>3. p.blind = {} => /\ k = p.client => Fits(p, t)
                      /\ k # p.client => Fits(p, client(p, s))
  BY <1>1, <1>2 DEF ClientSound
<1> QED BY <1>1, <1>3, Moves
-----------------------------------------------------------------------------
(* The server's steps.                                                       *)

\* Whatever the server does with an open socket, the page stays sound.
LEMMA ServerStays ==
    ASSUME NEW k \in Sockets, PagesInv, socks[k].ws = "open", NEW t, SocketSound(t),
           t.ws = "open", t.flow = socks[k].flow, \A p : Fits(p, socks[k]) => Fits(p, t),
           socks' = [socks EXCEPT ![k] = t], page' = page
    PROVE  PagesInv'
<1>1. live(t) /\ live(socks[k]) /\ Current(t)
  BY DEF live, Current
<1>2. Sound(page, [socks EXCEPT ![k] = t])
  BY <1>1, Stays DEF PagesInv
<1> QED BY <1>2 DEF PagesInv

\* The server takes a packet, and refuses it or answers.
LEMMA HandlePreserves ==
    ASSUME NEW k \in Sockets, PagesInv, Handle(k)
    PROVE  PagesInv'
<1> DEFINE s == socks[k]
<1>1. SocketSound(s) /\ s.ws = "open" /\ s.up # <<>> /\ page' = page
  BY DEF PagesInv, Sound, Handle, serves
<1>2. taken(s) = [s EXCEPT !.up = Tail(@)] /\ packet(s) = Head(s.up) /\ taken(s).at = s.at
  BY <1>1, TakenFields DEF taken, packet, SocketSound
<1>3. CASE refused(packet(s), s.at)
  <2> DEFINE t == refusedSocket(taken(s))
  <2>1. socks' = [socks EXCEPT ![k] = t]
    BY <1>2, <1>3 DEF Handle
  <2>2. s.state = "open" \/ "bye" \in Range(s.down)
    BY <1>1 DEF SocketSound
  <2>3. SocketSound(t) /\ t.ws = "open" /\ t.flow = s.flow /\ \A p : Fits(p, t)
    BY <1>1, <2>2, RefusedSound
  <2> HIDE DEF t
  <2> QED BY <1>1, <2>1, <2>3, ServerStays
<1>4. CASE ~refused(packet(s), s.at)
  <2>1. PICK at \in handled(packet(s), s.at) : socks' = [socks EXCEPT ![k] = placed(s, at)]
    BY <1>2, <1>4 DEF Handle, placed
  <2> DEFINE t == placed(s, at)
  <2>2. SocketSound(t) /\ t.ws = "open" /\ t.flow = s.flow /\ \A p : Fits(p, s) => Fits(p, t)
    BY <1>1, <1>4, PlacedSound
  <2> HIDE DEF t
  <2> QED BY <1>1, <2>1, <2>2, ServerStays DEF t
<1> QED BY <1>3, <1>4

Progresses(s, x, t) ==
    LET v == told(s, x)
    IN  /\ t \in Socket /\ t.ws = v.ws /\ t.flow = v.flow /\ t.step = v.step /\ t.up = v.up
        /\ t.state = v.state /\ t.down = v.down
        /\ t.at = IF x = "left" THEN "out" ELSE "room"

\* A match is found, starts, ends, or is left by the opponent.
LEMMA MatchPreserves ==
    ASSUME NEW k \in Sockets, PagesInv, Matched(k) \/ Start(k) \/ Over(k) \/ LeftBehind(k)
    PROVE  PagesInv'
<1> DEFINE s == socks[k]
<1>1. SocketSound(s) /\ s.ws = "open" /\ page' = page /\ s \in Socket
  BY DEF PagesInv, Sound, Matched, Start, Over, LeftBehind, serves
<1>2. ASSUME NEW x \in {"found", "start", "over", "left"},
             IF x = "found" THEN s.at \in {"queued", "hosting"} ELSE s.at = "room",
             NEW t, Progresses(s, x, t), socks' = [socks EXCEPT ![k] = t]
      PROVE  PagesInv'
  <2>1. x \in News
    BY DEF News
  <2>2. /\ t.ws = "open" /\ t.flow = s.flow /\ t.step = s.step /\ t.up = s.up
        /\ t.state = s.state
    BY <1>1, <1>2, <2>1, ToldFields DEF Progresses
  <2>3. SocketSound(t) /\ \A p : Fits(p, s) => Fits(p, t)
    BY <1>1, <1>2, <2>2, ProgressedSound DEF Progresses
  <2> QED BY <1>1, <1>2, <2>2, <2>3, ServerStays
<1>3. ASSUME NEW x \in {"found", "start", "over", "left"}
      PROVE  told(s, x) \in Socket /\ told(s, x).at = s.at
  BY <1>1, ToldFields DEF News
<1>4. CASE Matched(k)
  <2> DEFINE v == told(s, "found")
             t == moved(v, "room", "idle")
  <2>1. socks' = [socks EXCEPT ![k] = t] /\ s.at \in {"queued", "hosting"}
    BY <1>4 DEF Matched, moved
  <2>2. "room" \in At /\ "idle" \in Phases /\ v \in Socket
    BY <1>3 DEF At, Phases
  <2>3. Progresses(s, "found", t)
    <3> HIDE DEF v
    <3> QED BY <2>2, PlaceFields DEF Progresses, v
  <2> HIDE DEF t
  <2> QED BY <1>2, <2>1, <2>3
<1>5. CASE LeftBehind(k)
  <2> DEFINE v == told(s, "left")
             t == moved(v, "out", "idle")
  <2>1. socks' = [socks EXCEPT ![k] = t] /\ s.at = "room"
    BY <1>5 DEF LeftBehind, moved
  <2>2. "out" \in At /\ "idle" \in Phases /\ v \in Socket
    BY <1>3 DEF At, Phases
  <2>3. Progresses(s, "left", t)
    <3> HIDE DEF v
    <3> QED BY <2>2, PlaceFields DEF Progresses, v
  <2> HIDE DEF t
  <2> QED BY <1>2, <2>1, <2>3
<1>6. CASE Start(k)
  <2> DEFINE v == told(s, "start")
             t == phased(v, "playing")
  <2>1. socks' = [socks EXCEPT ![k] = t] /\ s.at = "room" /\ v \in Socket /\ v.at = s.at
    BY <1>3, <1>6 DEF Start, phased
  <2>2. Progresses(s, "start", t)
    <3> HIDE DEF v
    <3> QED BY <2>1, PhaseFields DEF Progresses, v
  <2> HIDE DEF t
  <2> QED BY <1>2, <2>1, <2>2
<1>7. CASE Over(k)
  <2> DEFINE v == told(s, "over")
             t == phased(v, "over")
  <2>1. socks' = [socks EXCEPT ![k] = t] /\ s.at = "room" /\ v \in Socket /\ v.at = s.at
    BY <1>3, <1>7 DEF Over, phased
  <2>2. Progresses(s, "over", t)
    <3> HIDE DEF v
    <3> QED BY <2>1, PhaseFields DEF Progresses, v
  <2> HIDE DEF t
  <2> QED BY <1>2, <2>1, <2>2
<1> QED BY <1>4, <1>5, <1>6, <1>7

\* The connection is lost at the server.
LEMMA LostPreserves ==
    ASSUME NEW k \in Sockets, PagesInv, Lost(k)
    PROVE  PagesInv'
<1> DEFINE s == socks[k]
           t == dead(s)
<1>1. SocketSound(s) /\ s.ws = "open" /\ page' = page
      /\ socks' = [socks EXCEPT ![k] = t]
  BY DEF PagesInv, Sound, Lost, serves, dead
<1>2. SocketSound(t) /\ t.ws = "open" /\ t.flow = s.flow /\ \A p : Fits(p, t)
  BY <1>1, DeadSound
<1> HIDE DEF t
<1> QED BY <1>1, <1>2, ServerStays
-----------------------------------------------------------------------------
(* Events of a socket.                                                       *)

\* The world as it is.
LEMMA Now ==
    ASSUME PagesInv
    PROVE  /\ now.page = page /\ now.socks = socks /\ Socketed(now)
           /\ page \in Page /\ socks \in [Sockets -> Socket] /\ PageSound(page)
           /\ \A k \in Sockets : SocketSound(socks[k])
BY DEF PagesInv, Sound, PageSound, now, Socketed, World

\* A socket that is closed and its flow told.
LEMMA GoneSound ==
    ASSUME NEW step \in Steps
    PROVE  LET t == stepped(closedSocket, step)
           IN  SocketSound(t) /\ ~live(t) /\ Current(t)
<1> DEFINE c == closedSocket
           t == stepped(c, step)
<1>1. c \in Socket /\ c.up = <<>> /\ c.down = <<>> /\ c.at = "out" /\ c.ws = "closed"
  BY Absent
<1> HIDE DEF c
<1>2. /\ t \in Socket /\ t.ws = "closed" /\ t.up = <<>> /\ t.down = <<>> /\ t.at = "out"
  BY <1>1, StepFields
<1> HIDE DEF t
<1> QED BY <1>2, RestSound DEF live, Current, t, c

\* The pages an event of a socket may lead to.
Turned(p, q) ==
    /\ q \in Page /\ q.client = p.client /\ q.started = p.started /\ Returns(p, q)
    /\ q.screen = p.screen \/ q.screen \in Moved
    /\ Followed(p) => Followed(q)
    /\ q.screen \in {"match", "results"} => q.match \/ (q.screen = p.screen /\ q.match = p.match)
    /\ q.blind = {} => p.blind = {}

\* A page like another, but for the screen under the history or a reason to be untrue.
Like(p, q) ==
    /\ q \in Page /\ q.client = p.client /\ q.started = p.started /\ q.returnTo = p.returnTo
    /\ q.screen = p.screen /\ q.match = p.match /\ q.authority = p.authority
    /\ q.counting = p.counting /\ q.code = p.code

\* Such a page is one that an event may lead to.
LEMMA LikeTurned ==
    ASSUME NEW p, NEW q, Like(p, q), q.blind = {} => p.blind = {}
    PROVE  Turned(p, q)
BY DEF Like, Turned, Returns, Followed

\* The screen of a world may be untrue from now on, and nothing else changes.
LEMMA BlindedEffect ==
    ASSUME NEW w \in World, NEW why \in Exceptions
    PROVE  LET v == blinded(w, why)
           IN  /\ v \in World /\ v.socks = w.socks /\ Like(w.page, v.page)
               /\ v.page.behind = w.page.behind /\ v.page.blind # {}
               /\ v = turned(w, v.page)
<1> DEFINE q == [w.page EXCEPT !.blind = @ \cup {why}]
<1>1. w.page \in Page /\ blinded(w, why) = turned(w, q)
  BY WorldParts DEF blinded, turned, World, Page
<1>2. Like(w.page, q) /\ q.behind = w.page.behind /\ q.blind = w.page.blind \cup {why}
  BY <1>1 DEF Page, Like
<1> HIDE DEF q
<1>3. turned(w, q) \in World /\ turned(w, q).page = q /\ turned(w, q).socks = w.socks
  BY <1>2, TurnedFields DEF Like
<1> QED BY <1>1, <1>2, <1>3

\* An event of a socket left behind is noted.
LEMMA NotedEffect ==
    ASSUME NEW w \in World, NEW k \in Sockets
    PROVE  LET v == noted(w, k)
           IN  /\ v \in World /\ v.socks = w.socks /\ Turned(w.page, v.page)
               /\ Like(w.page, v.page) /\ v.page.behind = w.page.behind
               /\ v.page.blind = {} => w.page.client = k
<1>1. w.page \in Page
  BY WorldParts
<1>2. CASE w.page.client = k
  <2>1. noted(w, k) = w /\ Like(w.page, w.page)
    BY <1>1, <1>2 DEF noted, Like
  <2> QED BY <1>2, <2>1, LikeTurned
<1>3. CASE w.page.client # k
  <2>1. noted(w, k) = blinded(w, "leak")
    BY <1>3 DEF noted
  <2> QED BY <2>1, BlindedEffect, LikeTurned DEF Exceptions
<1> QED BY <1>2, <1>3

\* The end of a connection: unless it is taken for the page's own, the page says so.
LEMMA CloseEventEffect ==
    ASSUME NEW w \in World, NEW unexpected \in BOOLEAN
    PROVE  LET v == closeEvent(w, unexpected)
           IN  /\ v \in World /\ v.socks = w.socks /\ Turned(w.page, v.page)
               /\ v.page.behind = w.page.behind /\ v.page.code = w.page.code
               /\ v.page.blind = {} =>
                    IF unexpected THEN v.page.screen \in {"disconnected", "sync-lost"}
                    ELSE v.page.screen = w.page.screen
<1> DEFINE p == w.page
           v == closeEvent(w, unexpected)
           a == [p EXCEPT !.manual = FALSE]
           b == going(p, "disconnected")
           ignored == turned(w, a)
           onward == turned(w, b)
<1>1. p \in Page /\ w \in World
  BY WorldParts
<1>2. CASE p.manual \/ p.screen = "intro"
  <2>1. v = IF unexpected THEN blinded(ignored, "loss") ELSE ignored
    BY <1>1, <1>2 DEF closeEvent, turned, World, Page
  <2>2. Like(p, a) /\ a.behind = p.behind /\ a.blind = p.blind
    BY <1>1 DEF Page, Like
  <2> HIDE DEF a
  <2>3. ignored \in World /\ ignored.page = a /\ ignored.socks = w.socks
    BY <2>2, TurnedFields DEF Like
  <2> HIDE DEF ignored, v, p
  <2>4. CASE ~unexpected
    BY <2>1, <2>2, <2>3, <2>4, LikeTurned DEF Like, p, v
  <2>5. CASE unexpected
    <3>1. /\ v \in World /\ v.socks = w.socks /\ Like(a, v.page)
          /\ v.page.behind = a.behind /\ v.page.blind # {}
      BY <2>1, <2>3, <2>5, BlindedEffect DEF Exceptions
    <3>2. Like(p, v.page)
      BY <2>2, <3>1 DEF Like
    <3> QED BY <2>2, <2>5, <3>1, <3>2, LikeTurned DEF Like, p, v
  <2> QED BY <2>4, <2>5
<1>3. CASE ~(p.manual \/ p.screen = "intro") /\ isTerminal(p.screen)
  <2>1. v = w /\ Like(p, p)
    BY <1>1, <1>3 DEF closeEvent, Like
  <2> QED BY <1>1, <1>3, <2>1, LikeTurned DEF isTerminal
<1>4. CASE ~(p.manual \/ p.screen = "intro") /\ ~isTerminal(p.screen)
  <2>1. v = IF unexpected THEN onward ELSE blinded(onward, "mark")
    BY <1>1, <1>4, GoesTurned DEF closeEvent
  <2>2. /\ b \in Page /\ b.screen = "disconnected" /\ Returns(p, b) /\ b.client = p.client
        /\ b.match = p.match /\ b.authority = p.authority /\ b.counting = p.counting
        /\ b.started = p.started /\ b.code = p.code /\ b.behind = p.behind
        /\ b.blind = p.blind
    BY <1>1, GoingFields DEF Screens
  <2> HIDE DEF b
  <2>3. Turned(p, b)
    BY <2>2 DEF Turned, Moved, Followed
  <2>4. onward \in World /\ onward.page = b /\ onward.socks = w.socks
    BY <2>2, TurnedFields
  <2> HIDE DEF onward, v, p
  <2>5. CASE unexpected
    BY <2>1, <2>2, <2>3, <2>4, <2>5 DEF p, v
  <2>6. CASE ~unexpected
    <3>1. /\ v \in World /\ v.socks = w.socks /\ Like(b, v.page)
          /\ v.page.behind = b.behind /\ v.page.blind # {}
      BY <2>1, <2>4, <2>6, BlindedEffect DEF Exceptions
    <3>2. Turned(p, v.page)
      BY <2>2, <2>3, <3>1 DEF Turned, Like, Returns, Followed
    <3> QED BY <2>2, <2>6, <3>1, <3>2 DEF Like, p, v
  <2> QED BY <2>5, <2>6
<1> QED BY <1>2, <1>3, <1>4

\* The socket is closed, and what its flow awaits is rejected.
gone(s) ==
    stepped(closedSocket, IF s.step \in answersDue THEN "rejected" ELSE "done")

\* It is sound, and no longer among those left behind.
LEMMA EndedEffect ==
    ASSUME NEW w \in World, NEW k \in Sockets
    PROVE  LET v == ended(w, k) t == gone(w.socks[k])
           IN  /\ v \in World /\ v.socks = [w.socks EXCEPT ![k] = t]
               /\ SocketSound(t) /\ ~live(t) /\ Current(t)
               /\ v.page.behind = w.page.behind \ {k} /\ Turned(w.page, v.page)
               /\ Like(w.page, v.page) /\ v.page.blind = w.page.blind
<1> DEFINE t == gone(w.socks[k])
           u == [w EXCEPT !.socks[k] = t]
           v == ended(w, k)
           q == [w.page EXCEPT !.behind = @ \ {k}]
<1>1. SocketSound(t) /\ ~live(t) /\ Current(t)
  BY GoneSound DEF gone, Steps
<1>2. u \in World /\ u.page = w.page /\ u.socks = [w.socks EXCEPT ![k] = t]
  BY <1>1, PutFields DEF SocketSound
<1>3. w \in World /\ w.page \in Page
  BY WorldParts
<1>4. v = turned(u, q)
  BY <1>3 DEF ended, gone, stepped, turned, World
<1>5. Like(w.page, q) /\ q.behind = w.page.behind \ {k} /\ q.blind = w.page.blind
  BY <1>3 DEF Page, Like
<1> HIDE DEF t, u, q, v
<1>6. v \in World /\ v.page = q /\ v.socks = u.socks
  BY <1>2, <1>4, <1>5, TurnedFields DEF Like
<1> QED BY <1>1, <1>2, <1>5, <1>6, LikeTurned DEF t, v

\* The current client is neither one that failed and was told so, nor closing.
LEMMA NotCurrent ==
    ASSUME PagesInv, NEW k \in Sockets,
           socks[k].ws \in {"closing", "aborting"}
             \/ (socks[k].ws = "failed" /\ socks[k].step # "rejected")
    PROVE  k # page.client
<1> SUFFICES ASSUME k = page.client PROVE FALSE
  OBVIOUS
<1>1. client(page, socks) = socks[k]
  BY NoSocketApart DEF client
<1>2. Current(socks[k])
  BY <1>1 DEF PagesInv, Sound, ClientSound
<1> QED BY <1>2 DEF Current, live

\* A page turned twice is turned.
LEMMA TurnedTurned ==
    ASSUME NEW p, NEW q, NEW r, Turned(p, q), Turned(q, r)
    PROVE  Turned(p, r)
<1>1. r.screen = "history" => q.screen = "history" /\ r.returnTo = p.returnTo
  BY DEF Turned, Moved, Returns
<1>2. Returns(p, r)
  BY <1>1 DEF Turned, Returns
<1>3. r.screen \in {"match", "results"} => r.match \/ (r.screen = p.screen /\ r.match = p.match)
  BY DEF Turned
<1> QED BY <1>2, <1>3 DEF Turned

\* A page that was turned stays sound.
LEMMA TurnedSound ==
    ASSUME NEW p, NEW q, PageSound(p), Turned(p, q)
    PROVE  PageSound(q)
BY DEF PageSound, Turned, Returns

\* What fits a screen fits it while it stays.
LEMMA FitsAlike ==
    ASSUME NEW p, NEW q, NEW s, Fits(p, s), q.code = p.code, q.screen = p.screen,
           q.screen = "history" => q.returnTo = p.returnTo
    PROVE  Fits(q, s)
BY DEF Fits, shown

\* The close event of a socket that failed to connect, or that the page has closed.
LEMMA EndingPreserves ==
    ASSUME PagesInv, NEW k \in Sockets, FailedClose(k) \/ CloseEvent(k)
    PROVE  PagesInv'
<1> DEFINE t == gone(socks[k])
           a == IF FailedClose(k) THEN noted(now, k) ELSE now
           b == ended(a, k)
           v == closeEvent(b, FALSE)
           s == socks[k]
<1>1. page' = v.page /\ socks' = v.socks
  BY DEF FailedClose, CloseEvent, becomes
<1>2. k # page.client
  BY NotCurrent DEF FailedClose, CloseEvent
<1>3. /\ a \in World /\ a.socks = socks /\ Turned(page, a.page) /\ a.page.behind = page.behind
      /\ Like(page, a.page)
  BY Now, NotedEffect, LikeTurned DEF Like, Socketed
<1> HIDE DEF a
<1>4. /\ b \in World /\ b.socks = [socks EXCEPT ![k] = t] /\ SocketSound(t) /\ ~live(t)
      /\ b.page.behind = page.behind \ {k} /\ Turned(a.page, b.page)
      /\ b.page.screen = page.screen /\ b.page.code = page.code
  BY <1>3, EndedEffect DEF Like
<1> HIDE DEF b, t
<1>5. /\ v \in World /\ v.socks = b.socks /\ Turned(b.page, v.page)
      /\ v.page.behind = page.behind \ {k} /\ v.page.code = page.code
      /\ v.page.blind = {} => v.page.screen = page.screen
  BY <1>4, CloseEventEffect
<1> HIDE DEF v
<1>6. Turned(page, v.page)
  BY <1>3, <1>4, <1>5, TurnedTurned
<1>7. PageSound(v.page) /\ PageSound(page)
  BY <1>6, Now, TurnedSound
<1>8. v.page.blind = {} => Fits(v.page, client(page, socks))
  BY <1>5, <1>6, FitsAlike DEF PagesInv, Sound, ClientSound, Turned, Returns
<1>9. Sound(v.page, [socks EXCEPT ![k] = t])
  BY <1>2, <1>4, <1>5, <1>6, <1>7, <1>8, Moves DEF PagesInv, Turned, Returns
<1> QED BY <1>1, <1>4, <1>5, <1>9 DEF PagesInv

\* A socket opens or fails to, and the time for an answer runs out.
LEMMA OpeningPreserves ==
    ASSUME PagesInv, NEW k \in Sockets, Opened(k) \/ ConnectFails(k) \/ Expire(k)
    PROVE  PagesInv'
<1> DEFINE s == socks[k]
<1>1. SocketSound(s) /\ page' = page /\ s \in Socket
  BY DEF PagesInv, Sound, Opened, ConnectFails, Expire
<1>2. k = page.client => Current(s)
  <2> SUFFICES ASSUME k = page.client PROVE Current(s)
    OBVIOUS
  <2>1. client(page, socks) = s
    BY NoSocketApart DEF client
  <2> QED BY <2>1 DEF PagesInv, Sound, ClientSound
<1>3. ASSUME NEW t, SocketSound(t), live(t) => live(s) /\ t.flow = s.flow,
             k = page.client => Current(t) /\ (Fits(page, s) => Fits(page, t)),
             socks' = [socks EXCEPT ![k] = t]
      PROVE  PagesInv'
  <2>1. Sound(page, [socks EXCEPT ![k] = t])
    BY <1>3, Stays DEF PagesInv
  <2> QED BY <1>1, <1>3, <2>1 DEF PagesInv
<1>4. CASE Opened(k)
  <2> DEFINE t == opened(s)
  <2>1. socks' = [socks EXCEPT ![k] = t] /\ s.ws = "connecting" /\ live(s)
    BY <1>4 DEF Opened, opened, live
  <2>2. SocketSound(t) /\ live(t) /\ t.flow = s.flow /\ \A p : Fits(p, s) => Fits(p, t)
    BY <1>1, <2>1, OpenedSound
  <2> HIDE DEF t
  <2> QED BY <1>3, <2>1, <2>2 DEF Current
<1>5. CASE ConnectFails(k)
  <2> DEFINE t == failing(s)
  <2>1. socks' = [socks EXCEPT ![k] = t] /\ s.ws \in {"connecting", "aborting"}
    BY <1>5 DEF ConnectFails, failing
  <2>2. SocketSound(t) /\ ~live(t) /\ t.ws = "failed" /\ t.step = "rejected"
    BY <1>1, <2>1, FailingSound
  <2> HIDE DEF t
  <2> QED BY <1>3, <2>1, <2>2 DEF Current, Fits
<1>6. CASE Expire(k)
  <2> DEFINE t == stepped(s, "rejected")
  <2>1. socks' = [socks EXCEPT ![k] = t] /\ s.step \in answersDue
    BY <1>6 DEF Expire, stepped
  <2>2. s.ws # "connecting"
    BY <1>1, <2>1 DEF SocketSound, Purposeful, answersDue
  <2>3. SocketSound(t) /\ t.ws = s.ws /\ t.flow = s.flow /\ t.step = "rejected"
    BY <1>1, <2>2, SteppedSound
  <2> HIDE DEF t
  <2>4. (live(t) <=> live(s)) /\ (Current(s) => Current(t)) /\ \A p : Fits(p, t)
    BY <2>3 DEF live, Current, Fits
  <2> QED BY <1>2, <1>3, <2>1, <2>3, <2>4
<1> QED BY <1>4, <1>5, <1>6
\* A page that says the synchronisation is lost waits for no place.
LEMMA FitsLost ==
    ASSUME NEW p, p.screen = "sync-lost", NEW s
    PROVE  Fits(p, s)
BY DEF Fits, shown

\* A page that says the connection is lost fits a socket that is gone.
LEMMA FitsGone ==
    ASSUME NEW p, p.screen \in {"disconnected", "sync-lost"}, NEW s
    PROVE  Fits(p, gone(s))
<1> DEFINE step == IF s.step \in answersDue THEN "rejected" ELSE "done"
           c == closedSocket
           t == stepped(c, step)
<1>1. c \in Socket /\ c.up = <<>> /\ c.at = "out" /\ step \in Steps
  BY Absent DEF Steps
<1>2. step \in {"rejected", "done"}
  OBVIOUS
<1> HIDE DEF c, step
<1>3. t.up = <<>> /\ t.at = "out" /\ t.step = step
  BY <1>1, StepFields
<1>4. t = gone(s)
  BY DEF gone, c, step
<1> HIDE DEF t
<1>5. Range(t.up) = {}
  BY <1>3, NothingSent
<1>6. Fits(p, t)
  BY <1>2, <1>3, <1>5 DEF Fits, shown
<1> QED BY <1>4, <1>6

\* Such a page waits for no news.
LEMMA HeardTerminal ==
    ASSUME NEW s \in Socket, s.down # <<>>, Head(s.down) # "bye",
           NEW p, p.screen \in {"disconnected", "sync-lost"}, Fits(p, s)
    PROVE  Fits(p, heard(s))
<1>1. LET t == heard(s)
      IN  /\ t.flow = s.flow /\ t.step = s.step /\ t.at = s.at /\ t.up = s.up
          /\ Range(s.down) = Range(t.down) \cup {Head(s.down)}
  BY HeardFields
<1> QED BY <1>1 DEF Fits, shown

\* News other than of a match found or left leaves the places shown.
LEMMA HeardFits ==
    ASSUME NEW s \in Socket, s.down # <<>>, Head(s.down) \notin {"found", "left", "bye"},
           NEW p, Fits(p, s)
    PROVE  Fits(p, heard(s))
<1>1. LET t == heard(s)
      IN  /\ t.flow = s.flow /\ t.step = s.step /\ t.at = s.at /\ t.up = s.up
          /\ Range(s.down) = Range(t.down) \cup {Head(s.down)}
  BY HeardFields
<1> QED BY <1>1 DEF Fits

\* It is enough that the page is turned, and that the places it shows are true of the
\* current client.
LEMMA ReceiveMoves ==
    ASSUME PagesInv, NEW k \in Sockets, live(socks[k]), NEW t, SocketSound(t), Current(t),
           live(t) => t.flow = socks[k].flow,
           NEW q, Turned(page, q),
           q.behind = page.behind \/ (~live(t) /\ q.behind = page.behind \ {k}),
           q.blind = {} => k = page.client /\ (Fits(page, socks[k]) => Fits(q, t)),
           page' = q, socks' = [socks EXCEPT ![k] = t]
    PROVE  PagesInv'
<1>1. PageSound(q)
  BY Now, TurnedSound
<1>2. k = page.client => client(page, socks) = socks[k]
  BY NoSocketApart DEF client
<1>3. q.blind = {} => k = page.client /\ Fits(q, t)
  BY <1>2 DEF PagesInv, Sound, ClientSound, Turned
<1>4. Sound(q, [socks EXCEPT ![k] = t])
  BY <1>1, <1>3, Moves DEF PagesInv, Turned, Returns
<1> QED BY <1>4 DEF PagesInv

\* The world as news of k arrives: its socket has heard, and a leak is noted.
arrival(k) == noted([now EXCEPT !.socks[k].down = Tail(@)], k)

\* What that world is, and what the step makes of it.
LEMMA ArrivalFields ==
    ASSUME PagesInv, NEW k \in Sockets, Receive(k)
    PROVE  LET n == arrival(k) s == socks[k] x == Head(s.down)
           IN  /\ n \in World /\ n.socks = [socks EXCEPT ![k] = heard(s)]
               /\ n.page \in Page /\ Turned(page, n.page) /\ n.page.behind = page.behind
               /\ Like(page, n.page)
               /\ n.page.blind = {} => page.client = k
               /\ \E identified \in BOOLEAN :
                    /\ identified => page.client # NoSocket
                    /\ page' = event(n, k, x, identified).page
                    /\ socks' = event(n, k, x, identified).socks
               /\ SocketSound(s) /\ s \in Socket /\ s.ws = "open" /\ live(s) /\ s.down # <<>>
               /\ x \in News
<1> DEFINE s == socks[k]
           a == [now EXCEPT !.socks[k].down = Tail(@)]
           b == [now EXCEPT !.socks[k] = heard(s)]
           n == arrival(k)
<1>1. SocketSound(s) /\ s \in Socket /\ s.ws = "open" /\ live(s) /\ s.down # <<>>
  BY DEF PagesInv, Sound, Receive, live
<1>2. heard(s) \in Socket /\ Head(s.down) \in News
  BY <1>1, HeardFields
<1>3. now \in World /\ now.page = page /\ now.socks = socks
  BY Now DEF Socketed
<1>4. a = b
  BY <1>3 DEF heard
<1>5. b \in World /\ b.page = page /\ b.socks = [socks EXCEPT ![k] = heard(s)]
  BY <1>2, <1>3, PutFields
<1> HIDE DEF a, b
<1>6. /\ n \in World /\ n.socks = b.socks /\ Turned(page, n.page)
      /\ n.page.behind = page.behind /\ Like(page, n.page)
      /\ n.page.blind = {} => page.client = k
  BY <1>4, <1>5, NotedEffect DEF arrival, a
<1>7. \E identified \in BOOLEAN :
        /\ identified => page.client # NoSocket
        /\ page' = event(n, k, Head(s.down), identified).page
        /\ socks' = event(n, k, Head(s.down), identified).socks
  BY DEF Receive, becomes, arrival, identities
<1> HIDE DEF n
<1>8. n.page \in Page
  BY <1>6, WorldParts
<1> QED BY <1>1, <1>2, <1>5, <1>6, <1>7, <1>8 DEF n

\* An answer that the flow waits for: its next packet goes up.
LEMMA AnswerPreserves ==
    ASSUME PagesInv, NEW k \in Sockets, Receive(k), Head(socks[k].down) \in {"named", "joined"}
    PROVE  PagesInv'
<1> DEFINE s == socks[k]
           x == Head(s.down)
           n == arrival(k)
           h == heard(s)
<1>1. /\ n \in World /\ n.socks = [socks EXCEPT ![k] = h] /\ Turned(page, n.page)
      /\ n.page.behind = page.behind /\ Like(page, n.page)
      /\ n.page.blind = {} => page.client = k
      /\ SocketSound(s) /\ s \in Socket /\ s.ws = "open" /\ live(s) /\ s.down # <<>>
  BY ArrivalFields
<1>0. PICK identified \in BOOLEAN : /\ page' = event(n, k, x, identified).page
                                   /\ socks' = event(n, k, x, identified).socks
  BY ArrivalFields
<1> HIDE DEF n
<1>2. h \in Socket /\ h.flow = s.flow /\ h.step = s.step /\ socks \in [Sockets -> Socket]
  BY <1>1, HeardFields, Now
<1> HIDE DEF h
<1>3. n.socks[k] = h
  BY <1>1, <1>2
<1>4. ASSUME NEW of, NEW next \in Steps, NEW y \in Packets,
             event(n, k, x, identified) = answer(n, k, of, next, y), s.step = of
      PROVE  page' = n.page /\ socks' = [socks EXCEPT ![k] = answered(s, next, y)]
  <2> DEFINE g == stepped(h, next)
             u == [n EXCEPT !.socks[k] = g]
             m == sending(g, y)
             v == [u EXCEPT !.socks[k] = m]
  <2>1. g \in Socket
    BY <1>2, StepFields
  <2>2. u \in World /\ u.page = n.page /\ u.socks = [n.socks EXCEPT ![k] = g]
    BY <1>1, <2>1, PutFields
  <2>3. [n EXCEPT !.socks[k].step = next] = u
    BY <1>3 DEF stepped
  <2>4. m \in Socket
    BY <2>1, SendingFields
  <2> HIDE DEF g
  <2>5. n.socks \in [Sockets -> Socket]
    BY <1>1, WorldParts
  <2>6. u.socks[k] = g
    BY <2>1, <2>2, <2>5
  <2> HIDE DEF u
  <2>7. send(u, k, y) = v
    BY <2>6 DEF send, sending
  <2>8. event(n, k, x, identified) = v
    BY <1>2, <1>3, <1>4, <2>3, <2>7 DEF answer
  <2>9. v.page = u.page /\ v.socks = [u.socks EXCEPT ![k] = m]
    BY <2>2, <2>4, PutFields
  <2>10. m = answered(s, next, y)
    BY DEF answered, g, h
  <2> HIDE DEF v, m
  <2>11. v.socks = [socks EXCEPT ![k] = m]
    BY <1>1, <1>2, <2>2, <2>9
  <2> QED BY <1>0, <1>1, <2>2, <2>8, <2>9, <2>10, <2>11
<1>5. ASSUME NEW t, SocketSound(t), t.ws = "open", t.flow = s.flow,
             page.blind = {} => (Fits(page, s) => Fits(page, t)),
             page' = n.page, socks' = [socks EXCEPT ![k] = t]
      PROVE  PagesInv'
  <2>1. live(t) /\ Current(t)
    BY <1>5 DEF live, Current
  <2>2. n.page.blind = {} => k = page.client /\ (Fits(page, s) => Fits(n.page, t))
    BY <1>1, <1>5, FitsAlike DEF Like, Turned
  <2> QED BY <1>1, <1>5, <2>1, <2>2, ReceiveMoves
<1>6. CASE x = "named" /\ s.step = "name"
  <2>1. event(n, k, x, identified) = answer(n, k, "name", "lobby", "join")
    BY <1>6 DEF event
  <2>2. "lobby" \in Steps /\ "join" \in Packets
    BY DEF Steps, Packets
  <2> DEFINE t == answered(s, "lobby", "join")
  <2>3. page' = n.page /\ socks' = [socks EXCEPT ![k] = t]
    BY <1>4, <1>6, <2>1, <2>2
  <2>4. SocketSound(t) /\ t.ws = "open" /\ t.flow = s.flow /\ \A p : Fits(p, s) => Fits(p, t)
    BY <1>1, <1>6, AskedToJoin
  <2> HIDE DEF t
  <2> QED BY <1>5, <2>3, <2>4
<1>7. CASE x = "joined" /\ s.step = "lobby"
  <2> DEFINE y == lastPacket(s.flow)
             t == answered(s, "done", y)
  <2>1. event(n, k, x, identified) = answer(n, k, "lobby", "done", y)
    BY <1>2, <1>3, <1>7 DEF event
  <2>2. "done" \in Steps /\ y \in Packets
    BY <1>1 DEF Steps, Packets, SocketSound, Purposeful, lastPacket, Flows
  <2> HIDE DEF y
  <2>3. page' = n.page /\ socks' = [socks EXCEPT ![k] = t]
    BY <1>4, <1>7, <2>1, <2>2
  <2>4. SocketSound(t) /\ t.ws = "open" /\ t.flow = s.flow /\ \A p : Fits(p, s) => Fits(p, t)
    BY <1>1, <1>7, AskedForMore DEF y
  <2> HIDE DEF t
  <2> QED BY <1>5, <2>3, <2>4
<1>8. CASE ~(x = "named" /\ s.step = "name") /\ ~(x = "joined" /\ s.step = "lobby")
  <2>1. event(n, k, x, identified) = n
    BY <1>2, <1>3, <1>8 DEF event, answer
  <2>2. SocketSound(h) /\ h.ws = "open"
    BY <1>1, <1>8, HeardSound DEF h
  <2>3. Fits(page, s) => Fits(page, h)
    BY <1>1, HeardFits DEF h
  <2> QED BY <1>0, <1>1, <1>2, <1>5, <2>1, <2>2, <2>3
<1> QED BY <1>6, <1>7, <1>8
\* News of a game or a match moves the page, and only the current client's counts.
LEMMA NewsPreserves ==
    ASSUME PagesInv, NEW k \in Sockets, Receive(k),
           Head(socks[k].down) \in {"created", "found", "start", "over", "left"}
    PROVE  PagesInv'
<1> DEFINE s == socks[k]
           x == Head(s.down)
           n == arrival(k)
           p == n.page
           h == heard(s)
           down == Range(h.down)
<1>1. /\ n \in World /\ n.socks = [socks EXCEPT ![k] = h] /\ Turned(page, p)
      /\ p.behind = page.behind /\ Like(page, p) /\ p \in Page
      /\ p.blind = {} => page.client = k
      /\ SocketSound(s) /\ s \in Socket /\ s.ws = "open" /\ live(s) /\ s.down # <<>>
  BY ArrivalFields
<1>0. PICK identified \in BOOLEAN : /\ identified => page.client # NoSocket
                                   /\ page' = event(n, k, x, identified).page
                                   /\ socks' = event(n, k, x, identified).socks
  BY ArrivalFields
<1>2. /\ SocketSound(h) /\ h.ws = "open" /\ h.flow = s.flow /\ h.at = s.at /\ live(h) /\ Current(h)
      /\ h.up = s.up /\ h.step = s.step
      /\ Range(s.down) = down \cup {x}
  BY <1>1, HeardSound, HeardFields DEF live, Current
<1>3. \/ "bye" \in down
      \/ /\ x = "created" => s.flow = "host" /\ (s.at = "hosting" \/ "found" \in down)
         /\ x \in {"found", "start", "over"} => s.at = "room" \/ "left" \in down
         /\ x = "left" => /\ s.at = "out" /\ "join" \notin Range(s.up)
                          /\ s.step \notin {"none", "connect", "name", "lobby"}
  <2>1. CASE "bye" \in Range(s.down)
    BY <1>2, <2>1
  <2>2. CASE "bye" \notin Range(s.down)
    <3>1. Served(s)
      BY <1>1, <2>2 DEF Served
    <3>2. Told(s) /\ Purposeful(s)
      BY <3>1, ServedSound
    <3>3. x = "left" => s.at = "out"
      BY <1>2, <3>2 DEF Told
    <3>4. s.step \notin {"none", "connect"}
      BY <1>1, <3>2 DEF Purposeful
    <3>5. /\ x = "created" => s.flow = "host" /\ (s.at = "hosting" \/ "found" \in down)
          /\ x \in {"found", "start", "over"} => s.at = "room" \/ "left" \in down
          /\ x # "named" => s.step # "name"
          /\ s.step = "lobby" => x = "joined"
          /\ "join" \notin Range(s.up)
      BY <1>1, <3>1, NewsTrue
    <3> HIDE DEF x, down, s
    <3> QED BY <3>3, <3>4, <3>5
  <2> QED BY <2>1, <2>2
<1>4. x \notin {"found", "left"} => (Fits(page, s) => Fits(page, h))
  BY <1>1, HeardFits
<1>5. page \in Page /\ Followed(page) /\ Followed(p)
  BY <1>1, Now DEF PageSound, Turned
<1> HIDE DEF n, h
<1>6. ASSUME NEW q, Turned(p, q), q.behind = p.behind,
             q.blind = {} => (Fits(page, s) => Fits(q, h)),
             event(n, k, x, identified) = turned(n, q)
      PROVE  PagesInv'
  <2>1. q \in Page /\ Turned(page, q)
    BY <1>1, <1>6, TurnedTurned DEF Turned
  <2>2. turned(n, q).page = q /\ turned(n, q).socks = n.socks
    BY <1>1, <2>1, TurnedFields
  <2>3. q.blind = {} => k = page.client
    BY <1>1, <1>6 DEF Turned
  <2> QED BY <1>0, <1>1, <1>2, <1>6, <2>1, <2>2, <2>3, ReceiveMoves
<1> DEFINE lostPage == going([p EXCEPT !.authority = NoSocket, !.counting = FALSE], "sync-lost")
<1>7. lostPage \in Page /\ Turned(p, lostPage) /\ lostPage.behind = p.behind
      /\ Fits(lostPage, h)
  <2> DEFINE r == [p EXCEPT !.authority = NoSocket, !.counting = FALSE]
             q == going(r, "sync-lost")
  <2>1. /\ r \in Page /\ r.client = p.client /\ r.started = p.started
        /\ r.returnTo = p.returnTo /\ r.behind = p.behind /\ r.blind = p.blind
        /\ r.authority = NoSocket /\ r.counting = FALSE
    BY <1>1 DEF Page
  <2> HIDE DEF r
  <2>2. /\ q \in Page /\ q.screen = "sync-lost" /\ Returns(r, q) /\ q.client = r.client
        /\ q.authority = r.authority /\ q.counting = r.counting /\ q.started = r.started
        /\ q.behind = r.behind /\ q.blind = r.blind
    BY <2>1, GoingFields DEF Screens
  <2>3. lostPage = q
    BY DEF r
  <2> HIDE DEF q, lostPage
  <2> QED BY <2>1, <2>2, <2>3, FitsLost DEF Turned, Moved, Returns, Followed
<1> DEFINE endPage == going(p, "disconnected")
<1>8. endPage \in Page /\ Turned(p, endPage) /\ endPage.behind = p.behind
      /\ (x = "left" => Fits(endPage, h))
  <2>1. /\ endPage \in Page /\ endPage.screen = "disconnected" /\ Returns(p, endPage)
        /\ endPage.client = p.client /\ endPage.started = p.started
        /\ endPage.authority = p.authority /\ endPage.counting = p.counting
        /\ endPage.match = p.match
        /\ endPage.behind = p.behind /\ endPage.blind = p.blind
    BY <1>1, GoingFields DEF Screens
  <2> HIDE DEF endPage
  <2>2. x = "left" => Fits(endPage, h)
    BY <1>2, <1>3, <2>1 DEF Fits, shown
  <2> QED BY <2>1, <2>2 DEF Turned, Moved, Followed
<1>9. n = turned(n, p) /\ Turned(p, p)
  BY <1>1 DEF turned, World, Turned, Returns
<1>10. isTerminal(p.screen) => (Fits(page, s) => Fits(p, h))
  <2>1. Fits(page, s) => Fits(p, s)
    BY <1>1, FitsAlike DEF Like
  <2> QED BY <1>1, <2>1, HeardTerminal DEF isTerminal, h
<1>11. CASE isTerminal(p.screen) /\ x \in {"over", "left"} /\ event(n, k, x, identified) = n
  BY <1>6, <1>9, <1>10, <1>11
<1>12. syncLost(n) = IF isTerminal(p.screen) THEN n ELSE turned(n, lostPage)
  BY <1>1 DEF syncLost, unfollowed, goes, going, turned, World, Page
<1>13. CASE event(n, k, x, identified) = syncLost(n)
  <2> HIDE DEF lostPage, p
  <2> QED BY <1>6, <1>7, <1>9, <1>10, <1>12, <1>13
<1>14. CASE x = "created"
  <2> DEFINE q == [p EXCEPT !.code = TRUE]
  <2>1. event(n, k, x, identified) = turned(n, q)
    BY <1>1, <1>14 DEF event, turned, World
  <2>2. /\ q \in Page /\ q.client = p.client /\ q.started = p.started /\ q.returnTo = p.returnTo
        /\ q.screen = p.screen /\ q.behind = p.behind /\ q.blind = p.blind /\ q.match = p.match
        /\ q.authority = p.authority /\ q.counting = p.counting
    BY <1>1 DEF Page
  <2> HIDE DEF q
  <2>3. Turned(p, q)
    BY <2>2 DEF Turned, Returns, Followed
  <2>4. Fits(page, s) => Fits(q, h)
    <3>1. q.screen = page.screen /\ q.returnTo = page.returnTo
      BY <1>1, <2>2 DEF Like
    <3> QED BY <1>2, <1>3, <1>4, <1>14, <3>1 DEF Fits, shown
  <2> QED BY <1>6, <2>1, <2>2, <2>3, <2>4
<1>15. ASSUME NEW r \in Page, NEW screen \in {"ready", "match", "results"},
              r.client = p.client, r.started = p.started, r.returnTo = p.returnTo,
              r.behind = p.behind, r.blind = p.blind, Followed(r),
              screen \in {"match", "results"} => r.match,
              x \in {"found", "start", "over"},
              event(n, k, x, identified) = turned(n, going(r, screen))
       PROVE  PagesInv'
  <2> DEFINE q == going(r, screen)
  <2>1. /\ q \in Page /\ q.screen = screen /\ Returns(r, q)
        /\ q.client = r.client /\ q.match = r.match /\ q.authority = r.authority
        /\ q.counting = r.counting /\ q.started = r.started
        /\ q.behind = r.behind /\ q.blind = r.blind
    BY <1>15, GoingFields DEF Screens
  <2> HIDE DEF q
  <2>2. Turned(p, q)
    BY <1>15, <2>1 DEF Turned, Moved, Returns, Followed
  <2>3. Fits(q, h)
    BY <1>2, <1>3, <1>15, <2>1 DEF Fits, shown
  <2> QED BY <1>6, <1>15, <2>1, <2>2, <2>3 DEF q
<1>16. CASE x = "found"
  <2> DEFINE r == [p EXCEPT !.code = FALSE, !.readyLocked = FALSE]
  <2>1. event(n, k, x, identified) = turned(n, going(r, "ready"))
    BY <1>1, <1>16 DEF event, matchFound, goes, going, turned, World, Page
  <2>2. /\ r \in Page /\ r.client = p.client /\ r.started = p.started /\ r.returnTo = p.returnTo
        /\ r.match = p.match /\ r.authority = p.authority /\ r.counting = p.counting
        /\ r.behind = p.behind /\ r.blind = p.blind
    BY <1>1 DEF Page
  <2> HIDE DEF r
  <2>3. Followed(r)
    BY <1>5, <2>2 DEF Followed
  <2> QED BY <1>15, <1>16, <2>1, <2>2, <2>3
<1>17. CASE x = "start"
  <2>1. CASE ~identified
    <3>1. event(n, k, x, identified) = syncLost(n)
      BY <1>17, <2>1 DEF event
    <3> QED BY <1>13, <3>1
  <2>2. CASE identified
    <3> DEFINE r == [p EXCEPT !.match = TRUE, !.authority = k, !.counting = TRUE]
    <3>1. event(n, k, x, identified) = turned(n, going(r, "match"))
      BY <1>1, <1>17, <2>2 DEF event, matchStarts, goes, going, turned, World, Page
    <3>2. /\ r \in Page /\ r.client = p.client /\ r.started = p.started
          /\ r.returnTo = p.returnTo /\ r.match = TRUE /\ r.authority = k
          /\ r.behind = p.behind /\ r.blind = p.blind
      BY <1>1 DEF Page
    <3> HIDE DEF r
    <3>3. Followed(r)
      BY <1>0, <1>1, <2>2, <3>2, NoSocketApart DEF Followed, Like
    <3> QED BY <1>15, <1>17, <3>1, <3>2, <3>3
  <2> QED BY <2>1, <2>2
<1>18. CASE x = "over"
  <2>1. CASE isTerminal(p.screen)
    <3>1. event(n, k, x, identified) = n
      BY <1>18, <2>1 DEF event
    <3> QED BY <1>11, <1>18, <2>1, <3>1
  <2>2. CASE ~isTerminal(p.screen) /\ p.authority # k
    <3>1. event(n, k, x, identified) = syncLost(n)
      BY <1>18, <2>2 DEF event
    <3> QED BY <1>13, <3>1
  <2>3. CASE ~isTerminal(p.screen) /\ p.authority = k
    <3> DEFINE r == [p EXCEPT !.counting = FALSE]
    <3>1. event(n, k, x, identified) = turned(n, going(r, "results"))
      BY <1>1, <1>18, <2>3 DEF event, goes, going, turned, World, Page
    <3>2. /\ r \in Page /\ r.client = p.client /\ r.started = p.started
          /\ r.returnTo = p.returnTo /\ r.match = p.match /\ r.authority = p.authority
          /\ r.behind = p.behind /\ r.blind = p.blind /\ r.counting = FALSE
      BY <1>1 DEF Page
    <3> HIDE DEF r
    <3>3. Followed(r) /\ r.match
      BY <1>5, <2>3, <3>2, NoSocketApart DEF Followed
    <3> QED BY <1>15, <1>18, <3>1, <3>2, <3>3
  <2> QED BY <2>1, <2>2, <2>3
<1>19. CASE x = "left"
  <2>1. CASE ~p.match
    <3> DEFINE v == blinded(n, "opponent")
    <3>1. event(n, k, x, identified) = v
      BY <1>19, <2>1 DEF event
    <3>2. Like(p, v.page) /\ v.page.behind = p.behind /\ v.page.blind # {}
          /\ v = turned(n, v.page)
      BY <1>1, BlindedEffect DEF Exceptions
    <3> HIDE DEF v
    <3>3. Turned(p, v.page)
      BY <3>2, LikeTurned
    <3> QED BY <1>6, <3>1, <3>2, <3>3
  <2>2. CASE p.match /\ isTerminal(p.screen)
    <3>1. event(n, k, x, identified) = n
      BY <1>19, <2>2 DEF event
    <3> QED BY <1>11, <1>19, <2>2, <3>1
  <2>3. CASE p.match /\ ~isTerminal(p.screen)
    <3>1. event(n, k, x, identified) = turned(n, endPage)
      BY <1>1, <1>19, <2>3, GoesTurned DEF event
    <3>2. /\ Turned(p, endPage) /\ endPage.behind = p.behind
          /\ endPage.blind = {} => (Fits(page, s) => Fits(endPage, h))
      BY <1>8, <1>19
    <3> HIDE DEF endPage, lostPage, p, x, down
    <3> QED BY <1>6, <3>1, <3>2
  <2> QED BY <2>1, <2>2, <2>3
<1> QED BY <1>14, <1>16, <1>17, <1>18, <1>19

\* A loss that the page did not ask for.
LEMMA ByePreserves ==
    ASSUME PagesInv, NEW k \in Sockets, Receive(k), Head(socks[k].down) = "bye"
    PROVE  PagesInv'
<1> DEFINE s == socks[k]
           n == arrival(k)
           h == heard(s)
           t == gone(h)
           b == ended(n, k)
           v == closeEvent(b, TRUE)
<1>1. /\ n \in World /\ n.socks = [socks EXCEPT ![k] = h] /\ Turned(page, n.page)
      /\ n.page.behind = page.behind
      /\ n.page.blind = {} => page.client = k
      /\ page' = v.page /\ socks' = v.socks
      /\ SocketSound(s) /\ s \in Socket /\ live(s) /\ s.down # <<>>
  BY ArrivalFields DEF event
<1> HIDE DEF n
<1>3. h \in Socket /\ socks \in [Sockets -> Socket]
  BY <1>1, HeardFields, Now
<1> HIDE DEF h
<1>4. n.socks[k] = h
  BY <1>1, <1>3
<1>5. /\ b \in World /\ b.socks = [n.socks EXCEPT ![k] = t] /\ SocketSound(t) /\ ~live(t)
      /\ Current(t) /\ b.page.behind = n.page.behind \ {k} /\ Turned(n.page, b.page)
  BY <1>1, <1>4, EndedEffect
<1> HIDE DEF b, t
<1>6. b.socks = [socks EXCEPT ![k] = t]
  BY <1>1, <1>3, <1>5
<1>7. /\ v.socks = b.socks /\ Turned(b.page, v.page) /\ v.page.behind = b.page.behind
      /\ v.page.blind = {} => v.page.screen \in {"disconnected", "sync-lost"}
  BY <1>5, CloseEventEffect
<1> HIDE DEF v
<1>8. Turned(page, v.page)
  BY <1>1, <1>5, <1>7, TurnedTurned
<1>9. v.page.blind = {} => k = page.client /\ Fits(v.page, t)
  BY <1>1, <1>5, <1>7, FitsGone DEF Turned, t
<1>10. page' = v.page /\ socks' = [socks EXCEPT ![k] = t] /\ v.page.behind = page.behind \ {k}
  BY <1>1, <1>5, <1>6, <1>7
<1> QED BY <1>10, <1>1, <1>5, <1>6, <1>7, <1>8, <1>9, ReceiveMoves

\* News of any kind.
LEMMA ReceivePreserves ==
    ASSUME PagesInv, NEW k \in Sockets, Receive(k)
    PROVE  PagesInv'
<1>1. Head(socks[k].down) \in News
  BY ArrivalFields
<1> QED BY <1>1, AnswerPreserves, NewsPreserves, ByePreserves DEF News

-----------------------------------------------------------------------------
(* Ways home.                                                                *)

\* The client is closed, and the page turned to a screen that waits for nothing.
LEMMA HomewardTurned ==
    ASSUME NEW w, Socketed(w), Owned(w.page, w.socks), Followed(w.page),
           w.page.returnTo \notin {"history", "matchmaking", "ready", "match", "results"},
           NEW q \in Page, q.screen \in Home, q.client = NoSocket, q.behind = w.page.behind,
           q.returnTo \in {w.page.returnTo, "intro"}, Followed(q)
    PROVE  LET v == turned(closeClient(w), q) IN Sound(v.page, v.socks)
<1> DEFINE c == closeClient(w)
           v == turned(c, q)
<1>1. Relinquished(w, c)
  BY CloseEffect
<1> HIDE DEF c
<1>2. q.client = c.page.client /\ q.behind = c.page.behind
      /\ q.returnTo \in {c.page.returnTo, "intro"}
  BY <1>1, CloseEffect DEF Relinquished, c
<1>3. Relinquished(w, v)
  BY <1>1, <1>2, RelinquishedPage
<1>4. v.page = q
  BY <1>1, TurnedFields DEF Relinquished, Socketed
<1> HIDE DEF v
<1>5. v.page.returnTo \notin {"history", "matchmaking", "ready", "match", "results"}
  BY <1>4
<1>6. Sound(v.page, v.socks)
  BY <1>3, <1>4, <1>5, Homeward
<1> QED BY <1>6 DEF v, c

\* The catch of a flow closes whichever client is the current one.
LEMMA CaughtPreserves ==
    ASSUME PagesInv, NEW k \in Sockets, Caught(k)
    PROVE  PagesInv'
<1> DEFINE s == socks[k]
           t == stepped(s, "failed")
           w == [now EXCEPT !.socks[k] = t]
           c == closeClient(w)
           q == going(c.page, "menu")
           v == turned(c, q)
<1>1. SocketSound(s) /\ s.step = "rejected" /\ s.ws # "connecting"
  BY Now DEF Caught, SocketSound, Purposeful
<1>2. SocketSound(t) /\ t.ws = s.ws
  BY <1>1, SteppedSound
<1>3. w = [now EXCEPT !.socks[k].step = "failed"]
  BY Now DEF stepped
<1> HIDE DEF t
<1>4. /\ Socketed(w) /\ w.page = page /\ w.socks[k] = t
      /\ \A j \in Sockets : j # k => w.socks[j] = socks[j]
  BY <1>2, Now, OneSocket
<1> HIDE DEF w
<1>5. Owned(w.page, w.socks)
  BY <1>2, <1>4 DEF PagesInv, Sound, Owned, live
<1>6. Relinquished(w, c) /\ c.page \in Page /\ c \in World
  BY <1>4, CloseEffect DEF Relinquished, Socketed
<1>7. goes(c, "menu") = v
  BY <1>6, GoesTurned
<1>71. Followed(page)
  BY Now DEF PageSound
<1> HIDE DEF c
<1>8. q \in Page /\ q.screen = "menu" /\ q.client = NoSocket /\ q.behind = page.behind
      /\ q.returnTo = "intro" /\ Followed(q)
  BY <1>4, <1>6, <1>71, GoingFields DEF Relinquished, Screens, Followed
<1> HIDE DEF q
<1>9. Sound(v.page, v.socks)
  BY <1>4, <1>5, <1>8, Now, HomewardTurned DEF Home, PageSound, c
<1>10. page' = v.page /\ socks' = v.socks
  BY <1>3, <1>7 DEF Caught, becomes, c
<1> QED BY <1>9, <1>10 DEF PagesInv

\* The pages that the player may turn to when the client is closed.
Homebound(p, q) ==
    /\ q \in Page /\ q.client = NoSocket /\ q.behind = p.behind
    /\ q.returnTo \in {p.returnTo, "intro"} /\ q.screen \in Home /\ Followed(q)

\* CANCEL, HIDDEN, and the ways into and out of the account.
LEMMA HomePreserves ==
    ASSUME PagesInv, NEW q, Homebound(page, q), page' = turned(closeClient(now), q).page,
           socks' = turned(closeClient(now), q).socks
    PROVE  PagesInv'
<1>1. Owned(now.page, now.socks) /\ Socketed(now) /\ PageSound(now.page)
  BY Now DEF PagesInv, Sound
<1> QED BY <1>1, Now, HomewardTurned DEF PagesInv, Homebound, PageSound

\* The page as the client is closed.
LEMMA ClosedPage ==
    ASSUME PagesInv
    PROVE  LET c == closeClient(now)
           IN  /\ c \in World /\ c.page \in Page /\ c.page.client = NoSocket
               /\ c.page.behind = page.behind /\ c.page.returnTo = page.returnTo
               /\ c.page.screen = page.screen /\ Followed(c.page)
<1>1. Socketed(now) /\ now.page = page /\ Followed(page)
  BY Now DEF PageSound
<1> QED BY <1>1, CloseEffect DEF Relinquished, Socketed

\* CANCEL on the page of a hosted game or of the list.
LEMMA LeavePreserves ==
    ASSUME PagesInv, LeaveLobby
    PROVE  PagesInv'
<1> DEFINE c == closeClient(now)
           r == [c.page EXCEPT !.started = FALSE, !.code = FALSE]
           q == going(r, "menu")
<1>1. /\ c \in World /\ c.page \in Page /\ c.page.client = NoSocket
      /\ c.page.behind = page.behind /\ c.page.returnTo = page.returnTo /\ Followed(c.page)
  BY ClosedPage
<1>2. page' = turned(c, q).page /\ socks' = turned(c, q).socks
  BY <1>1 DEF LeaveLobby, becomes, goes, going, turned, World, Page
<1> HIDE DEF c
<1>3. /\ r \in Page /\ r.client = NoSocket /\ r.behind = page.behind
      /\ r.returnTo = page.returnTo /\ r.match = c.page.match
      /\ r.authority = c.page.authority /\ r.counting = c.page.counting
  BY <1>1 DEF Page
<1> HIDE DEF r
<1>4. Homebound(page, q)
  BY <1>1, <1>3, GoingFields DEF Homebound, Home, Screens, Followed
<1> HIDE DEF q
<1> QED BY <1>2, <1>4, HomePreserves DEF c

\* The page as it is reset, and turned to the screen given.
unmatched(p) ==
    [p EXCEPT !.authority = NoSocket, !.counting = FALSE, !.match = FALSE, !.readyLocked = FALSE]

\* The reset of a page that goes home.
LEMMA ResetPreserves ==
    ASSUME PagesInv, NEW screen \in Home, becomes(goes(reset(now), screen))
    PROVE  PagesInv'
<1> DEFINE c == closeClient(now)
           r == unmatched(c.page)
           q == going(r, screen)
<1>1. /\ c \in World /\ c.page \in Page /\ c.page.client = NoSocket
      /\ c.page.behind = page.behind /\ c.page.returnTo = page.returnTo
  BY ClosedPage
<1>2. page' = turned(c, q).page /\ socks' = turned(c, q).socks
  BY <1>1 DEF becomes, goes, going, reset, unfollowed, unmatched, turned, World, Page
<1> HIDE DEF c
<1>3. /\ r \in Page /\ r.client = NoSocket /\ r.behind = page.behind
      /\ r.returnTo = page.returnTo /\ r.authority = NoSocket /\ r.counting = FALSE
  BY <1>1 DEF Page, unmatched
<1> HIDE DEF r
<1>4. Homebound(page, q)
  BY <1>3, GoingFields DEF Homebound, Home, Screens, Followed
<1> HIDE DEF q
<1> QED BY <1>2, <1>4, HomePreserves DEF c

\* HIDDEN on the screen of a lost connection, and the ways into and out of the account.
LEMMA AccountPreserves ==
    ASSUME PagesInv, BackHome \/ OpenAccount \/ AccountEnds
    PROVE  PagesInv'
BY ResetPreserves DEF BackHome, OpenAccount, AccountEnds, Home

-----------------------------------------------------------------------------
(* The player's turns of the page.                                           *)

\* The page is turned over the same sockets: a screen from which a flow starts is reached
\* from another, or without a client, or with one that is left behind.
LEMMA PageTurns ==
    ASSUME NEW p, NEW s, Sound(p, s), NEW q, PageSound(q), q.client = p.client,
           p.behind \subseteq q.behind,
           Calm(q) => Calm(p) \/ p.client = NoSocket \/ p.client \in q.behind,
           shown(q) = "find" => shown(p) = "find",
           q.blind = {} => p.blind = {} /\ \A c : Fits(p, c) => Fits(q, c)
    PROVE  Sound(q, s)
<1> DEFINE c == client(p, s)
<1>1. client(q, s) = c
  BY DEF client
<1>2. Owned(p, s) /\ ClientSound(p, s)
  BY DEF Sound
<1>3. Owned(q, s)
  BY <1>2, NoSocketApart DEF Owned
<1>4. Current(c) /\ (shown(p) = "find" /\ live(c) => c.flow = "find")
      /\ (p.blind = {} => Fits(p, c))
  BY <1>2 DEF ClientSound
<1> HIDE DEF c
<1>5. ClientSound(q, s)
  BY <1>1, <1>4 DEF ClientSound
<1> QED BY <1>3, <1>5 DEF Sound

\* The pages that the player may turn to while nothing happens to a socket.
Turnable(p, q) ==
    /\ PageSound(q) /\ q.client = p.client
    /\ p.behind \subseteq q.behind
    /\ Calm(q) => Calm(p) \/ p.client = NoSocket \/ p.client \in q.behind
    /\ shown(q) = "find" => shown(p) = "find"
    /\ q.blind = {} => p.blind = {} /\ \A c : Fits(p, c) => Fits(q, c)

\* Such a turn keeps the page sound.
LEMMA TurnPreserves ==
    ASSUME PagesInv, NEW q, Turnable(page, q), becomes(turned(now, q))
    PROVE  PagesInv'
<1>1. Sound(q, socks)
  BY PageTurns DEF PagesInv, Turnable
<1>2. now \in World /\ q \in Page
  BY Now DEF Socketed, Turnable, PageSound
<1>3. page' = q /\ socks' = socks
  BY <1>2, Now, TurnedFields DEF becomes
<1> QED BY <1>1, <1>3 DEF PagesInv

\* A screen that waits for nothing fits anything.
LEMMA FitsHome ==
    ASSUME NEW q, shown(q) \in Home \/ (shown(q) = "create" /\ ~q.code), NEW c
    PROVE  Fits(q, c)
BY DEF Fits, Home

\* The way from the intro to the menu.
LEMMA ForwardPreserves ==
    ASSUME PagesInv, Forward
    PROVE  PagesInv'
<1>1. PICK screen \in {"mode-select", "menu"} :
        /\ becomes(goes(now, screen))
        /\ page.screen \in {"intro", "mode-select"}
  BY DEF Forward
<1> DEFINE q == going(page, screen)
<1>2. goes(now, screen) = turned(now, q)
  BY Now, GoesTurned DEF Socketed
<1>3. PageSound(page) /\ page \in Page
  BY Now
<1>4. /\ q \in Page /\ q.screen = screen /\ q.client = page.client /\ q.behind = page.behind
      /\ q.blind = page.blind /\ q.returnTo = "intro" /\ q.match = page.match
      /\ q.authority = page.authority /\ q.counting = page.counting
  BY <1>3, GoingFields DEF Screens
<1> HIDE DEF q
<1>5. shown(q) = screen /\ screen \in Home /\ Calm(page)
  BY <1>1, <1>4 DEF shown, Home, Calm
<1>6. PageSound(q)
  BY <1>3, <1>4 DEF PageSound, Followed
<1>7. Turnable(page, q)
  BY <1>4, <1>5, <1>6, FitsHome DEF Turnable
<1> QED BY <1>1, <1>2, <1>7, TurnPreserves

\* The page of a hosted game.
LEMMA CreatePreserves ==
    ASSUME PagesInv, CreateGame
    PROVE  PagesInv'
<1> DEFINE r == [page EXCEPT !.started = FALSE, !.code = FALSE]
           q == going(r, "create")
<1>1. becomes(turned(now, q))
  BY Now DEF CreateGame, goes, going, turned, now, Page
<1>2. PageSound(page) /\ page \in Page
  BY Now
<1>3. /\ r \in Page /\ r.client = page.client /\ r.behind = page.behind
      /\ r.blind = page.blind /\ r.code = FALSE /\ r.match = page.match
      /\ r.authority = page.authority /\ r.counting = page.counting
  BY <1>2 DEF Page
<1> HIDE DEF r
<1>31. /\ q \in Page /\ q.screen = "create" /\ q.client = page.client
       /\ q.behind = page.behind /\ q.blind = page.blind /\ q.returnTo = "intro"
       /\ q.code = FALSE /\ q.match = page.match
       /\ q.authority = page.authority /\ q.counting = page.counting
  BY <1>3, GoingFields DEF Screens
<1> HIDE DEF q
<1>4. shown(q) = "create" /\ Calm(page)
  BY <1>31 DEF shown, Calm, CreateGame
<1>5. PageSound(q)
  BY <1>2, <1>31 DEF PageSound, Followed
<1>6. Turnable(page, q)
  BY <1>31, <1>4, <1>5, FitsHome DEF Turnable
<1> QED BY <1>1, <1>6, TurnPreserves

\* The history is laid over a screen and taken away: the one beneath stays.
LEMMA HistoryTurns ==
    ASSUME PagesInv, NEW q, PageSound(q), shown(q) = shown(page), q.client = page.client,
           q.behind = page.behind, q.blind = page.blind, q.started = page.started,
           q.code = page.code, becomes(turned(now, q))
    PROVE  PagesInv'
<1>1. (Calm(q) => Calm(page)) /\ \A c : Fits(page, c) => Fits(q, c)
  BY DEF Calm, Fits
<1>2. Turnable(page, q)
  BY <1>1 DEF Turnable
<1> QED BY <1>2, TurnPreserves

\* The match history opens and closes.
LEMMA HistoryPreserves ==
    ASSUME PagesInv, OpenHistory \/ (Back /\ page.screen = "history")
    PROVE  PagesInv'
<1>1. PageSound(page) /\ page \in Page
  BY Now
<1>2. CASE OpenHistory
  <2> DEFINE r == [page EXCEPT !.returnTo = page.screen]
             q == going(r, "history")
  <2>1. becomes(turned(now, q))
    BY <1>1, <1>2 DEF OpenHistory, goes, going, turned, now, Page
  <2>2. /\ r \in Page /\ r.client = page.client /\ r.behind = page.behind
        /\ r.blind = page.blind /\ r.returnTo = page.screen
        /\ r.started = page.started /\ r.code = page.code /\ r.match = page.match
        /\ r.authority = page.authority /\ r.counting = page.counting
    BY <1>1 DEF Page, Screens
  <2> HIDE DEF r
  <2>3. /\ q \in Page /\ q.screen = "history" /\ q.client = page.client
        /\ q.behind = page.behind /\ q.blind = page.blind /\ q.returnTo = page.screen
        /\ q.started = page.started /\ q.code = page.code /\ q.match = page.match
        /\ q.authority = page.authority /\ q.counting = page.counting
    BY <2>2, GoingFields DEF Screens, Returns
  <2> HIDE DEF q
  <2>4. page.screen \notin {"history", "matchmaking", "ready", "match", "results"}
    BY <1>2 DEF OpenHistory, unlocked
  <2>5. PageSound(q) /\ shown(q) = shown(page)
    BY <1>1, <2>3, <2>4 DEF PageSound, shown, Followed
  <2> QED BY <2>1, <2>3, <2>5, HistoryTurns
<1>3. CASE Back /\ page.screen = "history"
  <2> DEFINE q == going(page, page.returnTo)
  <2>1. becomes(turned(now, q))
    BY <1>3, Now, GoesTurned DEF Back, Socketed
  <2>2. page.returnTo \in Screens /\ page.returnTo # "history"
    BY <1>1 DEF Page, PageSound
  <2>3. /\ q \in Page /\ q.screen = page.returnTo /\ q.client = page.client
        /\ q.behind = page.behind /\ q.blind = page.blind /\ q.returnTo = "intro"
        /\ q.started = page.started /\ q.code = page.code /\ q.match = page.match
        /\ q.authority = page.authority /\ q.counting = page.counting
    BY <1>1, <2>2, GoingFields
  <2> HIDE DEF q
  <2>4. PageSound(q) /\ shown(q) = shown(page)
    BY <1>1, <1>3, <2>3 DEF PageSound, shown, Followed
  <2> QED BY <2>1, <2>3, <2>4, HistoryTurns
<1> QED BY <1>2, <1>3

\* BACK from a search or a match, which closes the client.
LEMMA BackCloses ==
    ASSUME PagesInv, Back, page.screen \notin {"history", "account", "mode-select"},
           page.screen \in {"matchmaking", "ready"} \/ isOnlineMatch
    PROVE  PagesInv'
<1> DEFINE over == page.screen \in {"match", "results", "disconnected", "sync-lost"}
           o == IF over THEN [page EXCEPT !.authority = NoSocket, !.counting = FALSE,
                                          !.match = FALSE]
                ELSE page
           w == turned(now, o)
           c == closeClient(w)
           target == backTarget(page.screen)
           r == [c.page EXCEPT !.readyLocked = FALSE]
           q == going(r, target)
           v == turned(c, q)
<1>1. PageSound(page) /\ page \in Page /\ Socketed(now) /\ now \in World /\ now.page = page
      /\ now.socks = socks
  BY Now DEF Socketed
<1>2. /\ o \in Page /\ o.client = page.client /\ o.behind = page.behind
      /\ o.returnTo = page.returnTo /\ o.screen = page.screen /\ o.started = page.started
      /\ Followed(o)
  BY <1>1 DEF Page, PageSound, Followed
<1>3. target \in {"mode-select", "menu"} /\ target # "intro" /\ target \in Screens
  BY DEF backTarget, Screens
<1>4. w = IF over THEN [unfollowed(now) EXCEPT !.page.match = FALSE] ELSE now
  BY <1>1 DEF turned, now, unfollowed, Page
<1> HIDE DEF o, target, over
<1>5. w \in World /\ w.page = o /\ w.socks = socks
  BY <1>1, <1>2, TurnedFields
<1> HIDE DEF w
<1>6. Socketed(w) /\ Owned(w.page, w.socks)
  <2>1. Calm(o) <=> Calm(page)
    BY <1>2 DEF Calm, shown
  <2>2. Owned(page, socks)
    BY DEF PagesInv, Sound
  <2>3. Owned(o, socks)
    BY <1>2, <2>1, <2>2 DEF Owned
  <2> QED BY <1>1, <1>5, <2>3 DEF Socketed
<1>7. Relinquished(w, c) /\ c.page \in Page /\ c \in World
  BY <1>6, CloseEffect DEF Relinquished, Socketed
<1>8. goes([c EXCEPT !.page.readyLocked = FALSE], target) = v
  BY <1>7 DEF goes, going, turned, World, Page
<1>9. resetForNavigation(now) = [c EXCEPT !.page.readyLocked = FALSE]
  BY <1>1, <1>4 DEF resetForNavigation, over
<1> HIDE DEF c
<1>10. /\ q \in Page /\ q.screen = target /\ q.client = NoSocket /\ q.behind = page.behind
       /\ q.returnTo = "intro" /\ Followed(q)
  <2>1. c.page \in Page /\ c.page.client = NoSocket /\ c.page.behind = page.behind
        /\ Followed(c.page)
    BY <1>2, <1>5, <1>7 DEF Relinquished
  <2>2. /\ r \in Page /\ r.client = NoSocket /\ r.behind = page.behind
        /\ r.match = c.page.match
        /\ r.authority = c.page.authority /\ r.counting = c.page.counting
    BY <2>1 DEF Page
  <2> HIDE DEF r
  <2>3. target # "history"
    BY <1>3
  <2> QED BY <1>3, <2>1, <2>2, <2>3, GoingFields DEF Followed
<1> HIDE DEF q, r
<1>11. becomes(v)
  BY <1>3, <1>8, <1>9 DEF Back, target
<1>12. Sound(v.page, v.socks)
  BY <1>1, <1>2, <1>3, <1>5, <1>6, <1>10, HomewardTurned DEF Home, PageSound, c
<1> QED BY <1>11, <1>12 DEF becomes, PagesInv

\* BACK from the menu, or from the page of a hosted game or of the list, which leaves the
\* client behind.
LEMMA BackTurns ==
    ASSUME PagesInv, Back, page.screen \notin {"history", "account", "mode-select"},
           page.screen \notin {"matchmaking", "ready"}, ~isOnlineMatch
    PROVE  PagesInv'
<1> DEFINE target == backTarget(page.screen)
           left == IF page.screen \in lobbyPages /\ page.client # NoSocket
                   THEN {page.client} ELSE {}
           r == [page EXCEPT !.behind = @ \cup left]
           q == going(r, target)
<1>1. PageSound(page) /\ page \in Page /\ now.page = page /\ left \subseteq Sockets
  BY Now DEF Page
<1>2. page.screen \in {"menu", "create", "find"}
  BY <1>1 DEF PageSound, isOnlineMatch, isTerminal, Page, Screens, Back
<1>3. target \in {"mode-select", "menu"} /\ target # "intro" /\ target \in Screens
  BY DEF backTarget, Screens
<1> HIDE DEF target
<1>4. goes(resetForNavigation(now), target) = turned(now, q)
  <2>1. resetForNavigation(now) = turned(now, r)
    <3>1. CASE page.screen \in lobbyPages /\ page.client # NoSocket
      <4>1. resetForNavigation(now) = [now EXCEPT !.page.behind = @ \cup {page.client}]
        BY <1>1, <1>2, <3>1 DEF resetForNavigation
      <4> QED BY <1>1, <3>1, <4>1 DEF turned, now, Page
    <3>2. CASE ~(page.screen \in lobbyPages /\ page.client # NoSocket)
      <4>1. resetForNavigation(now) = now
        BY <1>1, <1>2, <3>2 DEF resetForNavigation
      <4>2. r = page
        <5>1. page.behind \cup left = page.behind
          BY <3>2
        <5> HIDE DEF left
        <5> QED BY <1>1, <5>1 DEF Page
      <4> HIDE DEF r
      <4> QED BY <4>1, <4>2 DEF turned, now
    <3> QED BY <3>1, <3>2
  <2>2. r \in Page
    BY <1>1 DEF Page
  <2> HIDE DEF r
  <2>3. now \in World
    BY Now DEF Socketed
  <2>4. turned(now, r) \in World /\ turned(now, r).page = r
    BY <2>2, <2>3, TurnedFields
  <2>5. goes(turned(now, r), target) = turned(turned(now, r), q)
    BY <2>4, GoesTurned
  <2> QED BY <2>1, <2>2, <2>3, <2>5, TurnedTwice
<1>5. becomes(turned(now, q))
  BY <1>2, <1>3, <1>4 DEF Back, target
<1>6. Calm(page) \/ page.client = NoSocket \/ page.client \in left
  BY <1>2 DEF Calm, shown, lobbyPages
<1> HIDE DEF left
<1>61. /\ r \in Page /\ r.client = page.client /\ r.behind = page.behind \cup left
       /\ r.blind = page.blind /\ r.match = page.match
       /\ r.authority = page.authority /\ r.counting = page.counting
  BY <1>1 DEF Page
<1> HIDE DEF r
<1>7. /\ q \in Page /\ q.screen = target /\ q.client = page.client
      /\ q.behind = page.behind \cup left /\ q.blind = page.blind /\ q.returnTo = "intro"
      /\ q.match = page.match
      /\ q.authority = page.authority /\ q.counting = page.counting
  <2>1. target # "history"
    BY <1>3
  <2> QED BY <1>3, <1>61, <2>1, GoingFields
<1> HIDE DEF q
<1>8. shown(q) \in Home /\ shown(q) # "find"
  BY <1>3, <1>7 DEF shown, Home
<1>9. PageSound(q)
  BY <1>1, <1>3, <1>7 DEF PageSound, Followed
<1>10. Turnable(page, q)
  BY <1>6, <1>7, <1>8, <1>9, FitsHome DEF Turnable
<1> QED BY <1>5, <1>10, TurnPreserves

\* BACK, from every screen.
LEMMA BackPreserves ==
    ASSUME PagesInv, Back
    PROVE  PagesInv'
<1>1. CASE page.screen \in {"account", "mode-select"}
  <2>1. becomes(goes(reset(now), "intro"))
    BY <1>1 DEF Back, backTarget
  <2> QED BY <2>1, ResetPreserves DEF Home
<1> QED BY <1>1, HistoryPreserves, BackCloses, BackTurns

\* The end of the countdown shows the battle, and the page that is not on it may be untrue.
LEMMA CountdownPreserves ==
    ASSUME PagesInv, CountdownEnds
    PROVE  PagesInv'
<1> DEFINE r == [page EXCEPT !.counting = FALSE]
           b == going(r, "match")
           battle == turned(now, b)
           v == blinded(battle, "countdown")
<1>1. PageSound(page) /\ page \in Page /\ now \in World /\ now.page = page
  BY Now DEF Socketed
<1>2. becomes(IF page.screen = "match" THEN battle ELSE v)
  BY <1>1 DEF CountdownEnds, goes, going, turned, World, Page
<1>3. page.match
  BY <1>1 DEF CountdownEnds, PageSound, Followed
<1>4. /\ r \in Page /\ r.client = page.client /\ r.match = page.match /\ r.code = page.code
      /\ r.authority = page.authority /\ r.counting = FALSE /\ r.behind = page.behind
      /\ r.blind = page.blind
  BY <1>1 DEF Page
<1> HIDE DEF r
<1>5. /\ b \in Page /\ b.screen = "match" /\ b.returnTo = "intro" /\ b.client = page.client
      /\ b.match = page.match /\ b.authority = page.authority /\ b.counting = FALSE
      /\ b.code = page.code /\ b.behind = page.behind /\ b.blind = page.blind
  BY <1>4, GoingFields DEF Screens
<1> HIDE DEF b
<1>6. battle \in World /\ battle.page = b
  BY <1>1, <1>5, TurnedFields
<1>7. ASSUME NEW q, Like(b, q), q.behind = b.behind,
             q.blind = {} => b.blind = {} /\ page.screen = "match"
      PROVE  Turnable(page, q)
  <2>1. PageSound(q)
    BY <1>1, <1>3, <1>5, <1>7 DEF Like, PageSound, Followed
  <2>2. shown(q) = "match"
    BY <1>5, <1>7 DEF Like, shown
  <2>3. ASSUME page.screen = "match", NEW c, Fits(page, c) PROVE Fits(q, c)
    BY <1>5, <1>7, <2>3, FitsAlike DEF Like
  <2> QED BY <1>5, <1>7, <2>1, <2>2, <2>3 DEF Like, Turnable, Calm
<1>8. CASE page.screen = "match"
  <2>1. Turnable(page, b)
    BY <1>5, <1>7, <1>8 DEF Like
  <2> QED BY <1>2, <1>8, <2>1, TurnPreserves
<1>9. CASE page.screen # "match"
  <2> HIDE DEF battle
  <2>1. /\ Like(b, v.page) /\ v.page.behind = b.behind /\ v.page.blind # {}
        /\ v = turned(battle, v.page)
    BY <1>6, BlindedEffect DEF Exceptions
  <2> HIDE DEF v
  <2>2. Turnable(page, v.page)
    BY <1>7, <2>1
  <2>3. v = turned(now, v.page)
    BY <1>1, <1>5, <2>1, TurnedTwice DEF battle
  <2> QED BY <1>2, <1>9, <2>2, <2>3, TurnPreserves
<1> QED BY <1>8, <1>9

\* A login is sent, and answered: the client that is current then is left behind.
LEMMA LoginPreserves ==
    ASSUME PagesInv, SubmitLogin \/ LoginAnswered
    PROVE  PagesInv'
<1>1. PageSound(page) /\ page \in Page /\ now \in World /\ now.page = page
  BY Now DEF Socketed
<1>2. ASSUME NEW login \in BOOLEAN, becomes(turned(now, [page EXCEPT !.login = login]))
      PROVE  PagesInv'
  <2> DEFINE q == [page EXCEPT !.login = login]
  <2>1. Like(page, q) /\ q.behind = page.behind /\ q.blind = page.blind
    BY <1>1 DEF Page, Like
  <2> HIDE DEF q
  <2>2. PageSound(q)
    BY <1>1, <2>1 DEF Like, PageSound, Followed
  <2>3. \A c : Fits(page, c) => Fits(q, c)
    BY <2>1, FitsAlike DEF Like
  <2>4. Turnable(page, q)
    BY <2>1, <2>2, <2>3 DEF Like, Turnable, Calm, shown
  <2> QED BY <1>2, <2>4, TurnPreserves DEF q
<1>3. CASE SubmitLogin
  <2>1. becomes(turned(now, [page EXCEPT !.login = TRUE]))
    BY <1>3 DEF SubmitLogin, turned, now
  <2> QED BY <1>2, <2>1
<1>4. CASE LoginAnswered
  <2> DEFINE left == {page.client} \ {NoSocket}
             r == [page EXCEPT !.login = FALSE, !.behind = @ \cup left]
             q == going(r, "mode-select")
  <2>1. \/ becomes(turned(now, [page EXCEPT !.login = FALSE]))
        \/ becomes(turned(now, q))
    BY <1>1, <1>4 DEF LoginAnswered, goes, going, turned, now, Page
  <2>2. left \subseteq Sockets /\ (page.client = NoSocket \/ page.client \in left)
    BY <1>1 DEF Page
  <2> HIDE DEF left
  <2>3. /\ r \in Page /\ r.client = page.client /\ r.behind = page.behind \cup left
        /\ r.match = page.match /\ r.authority = page.authority
        /\ r.counting = page.counting /\ r.blind = page.blind
    BY <1>1, <2>2 DEF Page
  <2> HIDE DEF r
  <2>4. /\ q \in Page /\ q.screen = "mode-select" /\ q.returnTo = "intro"
        /\ q.client = page.client /\ q.behind = page.behind \cup left
        /\ q.match = page.match /\ q.authority = page.authority
        /\ q.counting = page.counting /\ q.blind = page.blind
    BY <2>3, GoingFields DEF Screens
  <2> HIDE DEF q
  <2>5. PageSound(q)
    BY <1>1, <2>4 DEF PageSound, Followed
  <2>6. shown(q) = "mode-select" /\ \A c : Fits(q, c)
    BY <2>4, FitsHome DEF shown, Home
  <2>7. Turnable(page, q)
    BY <2>2, <2>4, <2>5, <2>6 DEF Turnable
  <2> QED BY <1>2, <2>1, <2>7, TurnPreserves
<1> QED BY <1>3, <1>4

-----------------------------------------------------------------------------
(* The player's packets.                                                     *)

\* The current client sends, and the page shows a place that fits as well.
LEMMA SendPreserves ==
    ASSUME PagesInv, page.client # NoSocket, socks[page.client].ws = "open",
           NEW x \in {"ready", "enter"}, x = "enter" => page.screen = "find",
           NEW q, PageSound(q), q.client = page.client, q.started = page.started,
           q.behind = page.behind, q.blind = page.blind,
           q.screen = page.screen \/ q.screen \in Moved,
           q.screen = "history" => q.returnTo = page.returnTo,
           \A c : Fits(page, c) => Fits(q, c),
           becomes(send(turned(now, q), page.client, x))
    PROVE  PagesInv'
<1> DEFINE k == page.client
           s == socks[k]
           t == sending(s, x)
           w == turned(now, q)
           v == [w EXCEPT !.socks[k] = t]
<1>1. k \in Sockets /\ SocketSound(s) /\ now \in World /\ q \in Page /\ s \in Socket
      /\ socks \in [Sockets -> Socket] /\ x \in Packets
  BY Now DEF Page, Socketed, PageSound, SocketSound, Packets
<1>2. client(page, socks) = s
  BY DEF client
<1>3. live(s) /\ ClientSound(page, socks)
  BY DEF live, PagesInv, Sound
<1>4. x = "enter" => s.flow = "find"
  BY <1>2, <1>3 DEF ClientSound, shown
<1>5. SocketSound(t) /\ t.ws = "open" /\ t.flow = s.flow /\ \A p : Fits(p, s) => Fits(p, t)
  BY <1>1, <1>4, PlayerSends
<1>6. w \in World /\ w.page = q /\ w.socks = socks
  BY <1>1, Now, TurnedFields
<1>7. send(w, k, x) = v
  BY DEF send, sending, turned, now
<1> HIDE DEF w, t
<1>8. v.page = q /\ v.socks = [socks EXCEPT ![k] = t]
  BY <1>1, <1>5, <1>6, PutFields DEF SocketSound
<1>9. live(t) /\ Current(t)
  BY <1>5 DEF live, Current
<1>10. page.blind = {} => Fits(q, t)
  BY <1>2, <1>3, <1>5 DEF ClientSound
<1> HIDE DEF v
<1>11. Sound(q, [socks EXCEPT ![k] = t])
  BY <1>1, <1>3, <1>5, <1>9, <1>10, Moves DEF PagesInv
<1> QED BY <1>7, <1>8, <1>11 DEF becomes, PagesInv, w

\* A row or a code on the page of the list.
LEMMA JoinPreserves ==
    ASSUME PagesInv, JoinGame
    PROVE  PagesInv'
<1>1. page.client # NoSocket /\ socks[page.client].ws = "open" /\ page.screen = "find"
      /\ becomes(send(turned(now, page), page.client, "enter"))
  BY DEF JoinGame, turned, now
<1> QED BY <1>1, Now, SendPreserves

\* A page that is locked, on a screen that a found match and a match are for.
LEMMA ReadyPreserves ==
    ASSUME PagesInv, Ready \/ PlayAgain
    PROVE  PagesInv'
<1> DEFINE r == [page EXCEPT !.readyLocked = TRUE]
           q == IF page.screen = "ready" THEN r ELSE going(r, "ready")
           k == page.client
<1>1. PageSound(page) /\ page \in Page /\ page.screen \in {"ready", "results"}
  BY Now DEF Ready, PlayAgain
<1>2. turned(now, q) = IF page.screen = "ready" THEN [now EXCEPT !.page.readyLocked = TRUE]
                       ELSE goes([now EXCEPT !.page.readyLocked = TRUE], "ready")
  BY <1>1 DEF turned, now, goes, going, Page
<1>3. \/ k # NoSocket /\ socks[k].ws = "open" /\ becomes(send(turned(now, q), k, "ready"))
      \/ becomes(turned(now, q))
  BY <1>1, <1>2 DEF Ready, PlayAgain
<1>31. /\ r \in Page /\ r.client = page.client /\ r.behind = page.behind
       /\ r.blind = page.blind /\ r.returnTo = page.returnTo /\ r.started = page.started
       /\ r.screen = page.screen /\ r.match = page.match
       /\ r.authority = page.authority /\ r.counting = page.counting
  BY <1>1 DEF Page
<1> HIDE DEF r
<1>4. /\ q \in Page /\ q.screen = "ready" /\ q.client = page.client /\ q.behind = page.behind
      /\ q.blind = page.blind /\ q.started = page.started /\ q.match = page.match
      /\ q.returnTo \in {page.returnTo, "intro"}
      /\ q.authority = page.authority /\ q.counting = page.counting
  BY <1>1, <1>31, GoingFields DEF Screens
<1> HIDE DEF q
<1>5. \A c : Fits(page, c) => Fits(q, c)
  BY <1>1, <1>4 DEF Fits, shown
<1>6. PageSound(q)
  BY <1>1, <1>4 DEF PageSound, Followed
<1>7. Turnable(page, q)
  BY <1>4, <1>5, <1>6 DEF Turnable, Calm, shown
<1>8. CASE becomes(turned(now, q))
  BY <1>7, <1>8, TurnPreserves
<1>9. CASE k # NoSocket /\ socks[k].ws = "open" /\ becomes(send(turned(now, q), k, "ready"))
  BY <1>4, <1>5, <1>6, <1>9, SendPreserves DEF Moved
<1> QED BY <1>3, <1>8, <1>9
-----------------------------------------------------------------------------
(* New clients.                                                              *)

\* There is a first among the sockets that are not made yet.
LEMMA Unused ==
    ASSUME unused
    PROVE  \E k \in Sockets : /\ socks[k].ws = "none"
                              /\ \A j \in Sockets : socks[j].ws = "none" => k <= j
<1> DEFINE T == {k \in Sockets : socks[k].ws = "none"}
<1>1. T \subseteq Nat /\ T # {}
  BY DEF unused, Sockets
<1> HIDE DEF T
<1>2. \E m \in T : \A k \in T : m <= k
  BY <1>1, FirstOf
<1> QED BY <1>2 DEF T

\* A page from which a flow starts, with a client just made.
LEMMA Starts ==
    ASSUME PagesInv, Calm(page), NEW flow \in Flows, NEW k \in Sockets,
           NEW q, PageSound(q), q.client = k, page.behind \subseteq q.behind,
           ~Calm(q), q.screen # "history",
           q.screen \in {"find", "matchmaking", "create"},
           q.screen = "find" => flow = "find", q.screen = "matchmaking" => flow = "quick",
           q.screen = "create" => ~q.code
    PROVE  Sound(q, [socks EXCEPT ![k] = connecting(flow)])
<1> DEFINE t == connecting(flow)
           u == [socks EXCEPT ![k] = t]
<1>1. SocketSound(t) /\ live(t) /\ t.flow = flow /\ t.step = "connect" /\ t \in Socket
  BY MadeSound DEF SocketSound
<1>2. /\ socks \in [Sockets -> Socket] /\ Owned(page, socks)
      /\ \A j \in Sockets : SocketSound(socks[j])
  BY DEF PagesInv, Sound
<1> HIDE DEF t
<1>3. u \in [Sockets -> Socket] /\ u[k] = t /\ \A j \in Sockets : j # k => u[j] = socks[j]
  BY <1>1, <1>2
<1> HIDE DEF u
<1>4. \A j \in Sockets : SocketSound(u[j])
  BY <1>1, <1>2, <1>3
<1>5. Owned(q, u)
  BY <1>2, <1>3 DEF Owned
<1>6. client(q, u) = t
  BY <1>3, NoSocketApart DEF client
<1>7. Current(t) /\ Fits(q, t)
  BY <1>1 DEF Current, Fits, shown
<1>8. ClientSound(q, u)
  BY <1>1, <1>6, <1>7 DEF ClientSound, shown
<1> QED BY <1>3, <1>4, <1>5, <1>8 DEF Sound, u, t

\* The page with a client just made.
unled(p) == [p EXCEPT !.authority = NoSocket, !.counting = FALSE]
madePage(p, k) == [unled(p) EXCEPT !.client = k, !.readyLocked = FALSE, !.blind = {}]

\* What is made of w for a flow: the first of the sockets not made yet is its client.
Makes(w, v, flow, k) ==
    /\ v.socks = [w.socks EXCEPT ![k] = connecting(flow)]
    /\ v = [page |-> madePage(w.page, k), socks |-> v.socks]

\* There is such a socket, and newClient makes it.
LEMMA NewClientEffect ==
    ASSUME PagesInv, unused, NEW flow \in Flows, NEW w \in World, w.socks = socks
    PROVE  \E k \in Sockets : Makes(w, newClient(w, flow), flow, k)
<1> DEFINE Least(i) == /\ w.socks[i].ws = "none"
                       /\ \A j \in Sockets : w.socks[j].ws = "none" => i <= j
           k == CHOOSE i \in Sockets : Least(i)
           t == connecting(flow)
           x == turned(w, unled(w.page))
           u == [x EXCEPT !.socks[k] = t]
           v == newClient(w, flow)
<1>1. \E i \in Sockets : Least(i)
  BY Unused
<1> HIDE DEF Least
<1>2. k \in Sockets
  BY <1>1
<1>3. t \in Socket
  BY MadeSound DEF SocketSound
<1>31. w.page \in Page
  BY WorldParts
<1>32. unled(w.page) \in Page
  BY <1>31 DEF Page, unled
<1>33. x \in World /\ x.page = unled(w.page) /\ x.socks = w.socks
  BY <1>32, TurnedFields
<1>34. unfollowed(w) = x
  BY <1>31 DEF unfollowed, unled, turned, World, Page
<1> HIDE DEF x
<1>4. v = [u EXCEPT !.page.client = k, !.page.readyLocked = FALSE, !.page.blind = {}]
  BY <1>34 DEF newClient, connecting, Least
<1> HIDE DEF k, t
<1>5. u \in World /\ u.page = unled(w.page) /\ u.socks = [w.socks EXCEPT ![k] = t]
  BY <1>2, <1>3, <1>33, PutFields
<1>6. u = [page |-> u.page, socks |-> u.socks] /\ u.page \in Page
  BY <1>5, WorldParts
<1> HIDE DEF u, v
<1>7. [u EXCEPT !.page.client = k, !.page.readyLocked = FALSE, !.page.blind = {}]
      = [page |-> [u.page EXCEPT !.client = k, !.readyLocked = FALSE, !.blind = {}],
         socks |-> u.socks]
  <2> DEFINE a == turned(u, [u.page EXCEPT !.client = k])
             b == turned(a, [a.page EXCEPT !.readyLocked = FALSE])
             c == turned(b, [b.page EXCEPT !.blind = {}])
  <2>1. c = [u EXCEPT !.page.client = k, !.page.readyLocked = FALSE, !.page.blind = {}]
    BY DEF turned
  <2>2. a \in World /\ a.page = [u.page EXCEPT !.client = k] /\ a.socks = u.socks
    <3>1. [u.page EXCEPT !.client = k] \in Page
      BY <1>2, <1>6 DEF Page, k
    <3> QED BY <1>5, <3>1, TurnedFields
  <2> HIDE DEF a
  <2>3. b \in World /\ b.page = [a.page EXCEPT !.readyLocked = FALSE] /\ b.socks = a.socks
    <3>1. a.page \in Page
      BY <2>2, WorldParts
    <3>2. [a.page EXCEPT !.readyLocked = FALSE] \in Page
      BY <3>1 DEF Page
    <3> QED BY <2>2, <3>2, TurnedFields
  <2> HIDE DEF b
  <2>4. c \in World /\ c.page = [b.page EXCEPT !.blind = {}] /\ c.socks = b.socks
    <3>1. b.page \in Page
      BY <2>3, WorldParts
    <3>2. [b.page EXCEPT !.blind = {}] \in Page
      BY <3>1 DEF Page
    <3> QED BY <2>3, <3>2, TurnedFields
  <2> HIDE DEF c
  <2>5. c.page = [u.page EXCEPT !.client = k, !.readyLocked = FALSE, !.blind = {}]
        /\ c.socks = u.socks
    BY <2>2, <2>3, <2>4
  <2>6. c = [page |-> c.page, socks |-> c.socks]
    BY <2>4, WorldParts
  <2> QED BY <2>1, <2>5, <2>6
<1>8. v = [page |-> madePage(w.page, k), socks |-> u.socks]
  BY <1>4, <1>5, <1>7 DEF madePage
<1>9. v.socks = u.socks
  BY <1>8
<1>10. Makes(w, v, flow, k)
  BY <1>5, <1>8, <1>9 DEF Makes, t
<1> QED BY <1>2, <1>10 DEF v

\* Quick Match and the list open a client and show their screen.
LEMMA SearchPreserves ==
    ASSUME PagesInv, QuickMatch \/ FindGames
    PROVE  PagesInv'
<1>1. PICK flow \in {"quick", "find"}, screen \in {"matchmaking", "find"} :
        /\ becomes(goes(newClient(now, flow), screen))
        /\ flow = "quick" <=> screen = "matchmaking"
        /\ page.screen = "menu" /\ unused
  BY DEF QuickMatch, FindGames, connected
<1>2. now \in World /\ now.page = page /\ now.socks = socks /\ PageSound(page) /\ page \in Page
  BY Now DEF Socketed
<1>3. flow \in Flows
  BY DEF Flows
<1> DEFINE v == newClient(now, flow)
<1>4. PICK k \in Sockets : Makes(now, v, flow, k)
  BY <1>1, <1>2, <1>3, NewClientEffect
<1> DEFINE r == madePage(page, k)
           q == going(r, screen)
<1>5. page' = going(v.page, screen) /\ socks' = v.socks
  <2> DEFINE p == madePage(page, k)
             s == v.socks
             t == connecting(flow)
  <2>1. v = [page |-> p, socks |-> s] /\ s = [socks EXCEPT ![k] = t]
    BY <1>2, <1>4 DEF Makes
  <2>2. p \in Page /\ socks \in [Sockets -> Socket] /\ t \in Socket
    BY <1>2, <1>3, Now, MadeSound DEF Page, madePage, unled, SocketSound
  <2> HIDE DEF v, p, s, t
  <2>3. v \in World /\ v.page = p
    BY <2>1, <2>2 DEF World
  <2>4. going(p, screen) \in Page
    BY <2>2, GoingFields DEF Screens
  <2>5. goes(v, screen).page = going(p, screen) /\ goes(v, screen).socks = s
    BY <2>3, <2>4, GoesTurned, TurnedFields DEF s
  <2> QED BY <1>1, <2>3, <2>5 DEF becomes, v, s
<1> HIDE DEF v
<1>6. page' = q /\ socks' = [socks EXCEPT ![k] = connecting(flow)]
  BY <1>2, <1>4, <1>5 DEF Makes
<1>61. /\ r \in Page /\ r.client = k /\ r.behind = page.behind
       /\ r.authority = NoSocket /\ r.counting = FALSE
  BY <1>2 DEF Page, madePage, unled
<1> HIDE DEF r
<1>7. /\ q \in Page /\ q.screen = screen /\ q.client = k /\ q.behind = page.behind
      /\ q.returnTo = "intro" /\ q.authority = NoSocket /\ q.counting = FALSE
  <2>1. screen \in Screens /\ screen # "history"
    BY DEF Screens
  <2> QED BY <1>61, <2>1, GoingFields
<1> HIDE DEF q
<1>8. Calm(page) /\ ~Calm(q)
  BY <1>1, <1>7 DEF Calm, shown
<1>9. PageSound(q)
  BY <1>7 DEF PageSound, Followed
<1>10. Sound(q, [socks EXCEPT ![k] = connecting(flow)])
  BY <1>1, <1>3, <1>7, <1>8, <1>9, Starts
<1> QED BY <1>6, <1>10 DEF PagesInv

\* A hosted game opens a client and stays on its screen.
LEMMA HostPreserves ==
    ASSUME PagesInv, HostGame
    PROVE  PagesInv'
<1> DEFINE p == [page EXCEPT !.started = TRUE, !.code = FALSE]
           w == turned(now, p)
           v == newClient(w, "host")
<1>1. now \in World /\ now.page = page /\ now.socks = socks /\ PageSound(page) /\ page \in Page
  BY Now DEF Socketed
<1>2. /\ p \in Page /\ p.screen = page.screen /\ p.client = page.client
      /\ p.behind = page.behind /\ p.returnTo = page.returnTo /\ p.started = TRUE
      /\ p.code = FALSE
  BY <1>1 DEF Page
<1>3. becomes(v) /\ page.screen = "create" /\ ~page.started /\ unused
  BY DEF HostGame, connected, turned, now
<1> HIDE DEF p
<1>4. w \in World /\ w.page = p /\ w.socks = socks
  BY <1>1, <1>2, TurnedFields
<1> HIDE DEF w
<1>5. "host" \in Flows
  BY DEF Flows
<1>6. PICK k \in Sockets : Makes(w, v, "host", k)
  BY <1>3, <1>4, <1>5, NewClientEffect
<1> DEFINE q == madePage(p, k)
<1> HIDE DEF v
<1>7. page' = q /\ socks' = [socks EXCEPT ![k] = connecting("host")]
  BY <1>3, <1>4, <1>6 DEF becomes, Makes
<1>8. /\ q \in Page /\ q.screen = "create" /\ q.client = k /\ q.behind = page.behind
      /\ q.returnTo = page.returnTo /\ q.started /\ ~q.code
      /\ q.authority = NoSocket /\ q.counting = FALSE
  BY <1>2, <1>3 DEF Page, madePage, unled
<1> HIDE DEF q
<1>9. Calm(page) /\ ~Calm(q)
  BY <1>3, <1>8 DEF Calm, shown
<1>10. PageSound(q)
  BY <1>1, <1>8 DEF PageSound, Followed
<1>11. Sound(q, [socks EXCEPT ![k] = connecting("host")])
  BY <1>5, <1>8, <1>9, <1>10, Starts
<1> QED BY <1>7, <1>11 DEF PagesInv
-----------------------------------------------------------------------------
(* The theorems.                                                             *)

\* The page as it is loaded.
LEMMA InitSound == Init => PagesInv
<1> SUFFICES ASSUME Init PROVE PagesInv
  OBVIOUS
<1> DEFINE n == newSocket
           p == newPage
<1>1. /\ p \in Page /\ p.screen = "intro" /\ p.returnTo = "intro" /\ p.client = NoSocket
      /\ p.match = FALSE /\ p.authority = NoSocket /\ p.counting = FALSE
  BY DEF newPage, Page, Screens, Sockets
<1>2. n \in Socket /\ SocketSound(n) /\ n.ws = "none" /\ ~live(n)
  BY Absent DEF live
<1> HIDE DEF n, p
<1>3. page = p /\ socks = [k \in Sockets |-> n]
  BY DEF Init, n, p
<1>4. /\ socks \in [Sockets -> Socket]
      /\ \A k \in Sockets : SocketSound(socks[k]) /\ ~live(socks[k])
  BY <1>2, <1>3
<1>5. PageSound(page) /\ Owned(page, socks)
  BY <1>1, <1>3, <1>4 DEF PageSound, Followed, Owned
<1>6. client(page, socks) = closedSocket /\ shown(page) = "intro"
  BY <1>1, <1>3 DEF client, shown
<1> DEFINE c == closedSocket
<1>7. Current(c)
  BY Absent DEF Current
<1> HIDE DEF c
<1>8. Fits(page, c)
  BY <1>6, FitsHome DEF Home
<1>9. ClientSound(page, socks)
  BY <1>6, <1>7, <1>8 DEF ClientSound, c
<1> QED BY <1>4, <1>5, <1>9 DEF PagesInv, Sound

\* Every step of the player, of the browser and of the server, and what comes later.
LEMMA NextSound == PagesInv /\ [Next]_vars => PagesInv'
<1> SUFFICES ASSUME PagesInv, [Next]_vars PROVE PagesInv'
  OBVIOUS
<1>1. CASE Player
  BY <1>1, ForwardPreserves, SearchPreserves, CreatePreserves, HostPreserves, JoinPreserves,
     LeavePreserves, ReadyPreserves, BackPreserves, AccountPreserves, HistoryPreserves,
     LoginPreserves DEF Player
<1>5. CASE Later
  BY <1>5, CountdownPreserves, LoginPreserves, AccountPreserves DEF Later
<1>2. ASSUME NEW k \in Sockets, Browser(k) PROVE PagesInv'
  BY <1>2, OpeningPreserves, EndingPreserves, CaughtPreserves, ReceivePreserves DEF Browser
<1>3. ASSUME NEW k \in Sockets, Server(k) PROVE PagesInv'
  BY <1>3, HandlePreserves, MatchPreserves, LostPreserves DEF Server
<1>4. CASE UNCHANGED vars
  BY <1>4 DEF vars, PagesInv
<1> QED BY <1>1, <1>2, <1>3, <1>4, <1>5 DEF Next

\* The page, its sockets and what is on their way stay sound, whatever the player, the
\* network and the other players do (App.tsx, useMatchSession.ts, networkClient.ts).
THEOREM PagesStaySound == Spec => []PagesInv
BY InitSound, NextSound, PTL DEF Spec

\* No socket is used for two purposes: what the page sends on a socket leads where the flow
\* that opened it goes, and the server has the socket nowhere else.  This is what Lobby
\* assumes of a connection and the server does not check.
THEOREM PurposeHolds == Spec => []ServesOnePurpose
<1>1. PagesInv => ServesOnePurpose
  <2> SUFFICES ASSUME PagesInv, NEW k \in Sockets, socks[k].up # <<>>
               PROVE  onePurpose(Head(socks[k].up), socks[k].at)
    BY DEF ServesOnePurpose
  <2> DEFINE s == socks[k]
  <2>1. s \in Socket /\ Purposeful(s)
    BY DEF PagesInv, Sound, SocketSound
  <2>2. s.up \in Seq(Packets)
    BY <2>1 DEF Socket
  <2>3. Head(s.up) \in Range(s.up)
    BY <2>2, Arrived
  <2>4. Head(s.up) \in packetsOf(s.flow) /\ s.at \in placesOf(s.flow)
    BY <2>1, <2>3 DEF Purposeful
  <2> QED BY <2>4 DEF packetsOf, placesOf, onePurpose
<1> QED BY <1>1, PagesStaySound, PTL

\* A socket leaks in two ways only: BACK from the page of a hosted game or of the list
\* (useMatchSession.ts:548), and a login that is answered when the player has gone on without
\* it (App.tsx:277).
THEOREM OwnershipHolds == Spec => []SocketsOwned
<1>1. PagesInv => SocketsOwned
  BY DEF PagesInv, Sound, Owned, live, SocketsOwned
<1> QED BY <1>1, PagesStaySound, PTL

\* When nothing is on its way, a screen that waits for the server shows where the server has
\* this player, unless a loss was taken for a close of the page's own or such a close for a
\* loss, an opponent left before the first match, a socket left behind was heard, or a countdown
\* ended on a page that was no longer the match's.
THEOREM ScreensHold == Spec => []ScreenTruth
<1>1. PagesInv => ScreenTruth
  <2> SUFFICES ASSUME PagesInv, idle, page.blind = {} PROVE
        /\ page.client = NoSocket => placesShown(page.screen) = At
        /\ \A k \in Sockets :
             k = page.client /\ settled(k) => socks[k].at \in placesShown(page.screen)
    BY DEF ScreenTruth
  <2> DEFINE c == client(page, socks)
  <2>1. Fits(page, c) /\ page \in Page
    BY DEF PagesInv, Sound, ClientSound, PageSound
  <2> HIDE DEF c
  <2>2. page.screen = "history" \/ shown(page) = page.screen
    BY DEF shown
  <2>3. ASSUME page.client = NoSocket PROVE placesShown(page.screen) = At
    <3>1. c = closedSocket
      BY <2>3 DEF client, c
    <3>2. c.step = "none" /\ c.flow = "none" /\ Range(c.up) = {} /\ Range(c.down) = {}
          /\ c.at = "out"
      BY <3>1, Absent, NothingSent
    <3> QED BY <2>1, <2>2, <3>2 DEF Fits, placesShown
  <2>4. ASSUME NEW k \in Sockets, k = page.client, settled(k)
        PROVE  socks[k].at \in placesShown(page.screen)
    <3>1. c = socks[k]
      BY <2>4, NoSocketApart DEF client, c
    <3>2. c.step = "done" /\ Range(c.up) = {} /\ Range(c.down) = {} /\ c.at \in At
      BY <2>4, <3>1, Now, NothingSent DEF settled, Socket
    <3> QED BY <2>1, <2>2, <3>1, <3>2 DEF Fits, placesShown
  <2> QED BY <2>3, <2>4
<1> QED BY <1>1, PagesStaySound, PTL
=============================================================================
