------------------------------- MODULE Pages -------------------------------
(* One browser on its way into a match: the screens of App.tsx, the sockets  *)
(* that useMatchSession.ts opens and closes from them, and networkClient.ts  *)
(* at the near end of each.  The far end is the server as one connection     *)
(* sees it (Places), with other players who come and go.                     *)
(*                                                                           *)
(* Each flow of the hook (Quick Match, host, find) opens a socket of its own *)
(* and awaits the connection and two answers on it; screens change meanwhile.*)
(* The browser runs one task at a time: an event of a socket or of the       *)
(* player, then the continuations it released, before the next task.         *)
(* Left out: the practice bot, the match on its board (MatchSync), names,    *)
(* configurations, the status line, who is signed in (AccountSession), and   *)
(* two sockets of the page in one match.                                     *)
EXTENDS Places, SequencesExt

CONSTANTS
    MaxSockets,   \* the bound on the sockets the page opens
    MaxUp         \* the bound on a socket's packets on their way when a game is picked

ASSUME PagesAssumption == MaxSockets \in Nat \ {0} /\ MaxUp \in Nat

Sockets == 1 .. MaxSockets
NoSocket == 0

VARIABLES
    page,         \* the application: one screen, one current client
    socks         \* the sockets, their NetworkClients and the server's ends

vars == <<page, socks>>

-----------------------------------------------------------------------------
(* The state.                                                                *)

\* manual is manualCloseRef, match says that matchRef holds an online match,
\* authority is the socket whose match onlineAuthorityRef follows (none once that
\* is out of step), counting says that the countdown has a continuation, and
\* login that the answer of a login is awaited.
\* behind and blind are for the properties: the sockets left behind open, and why
\* the screen may be untrue.
newPage ==
    [screen |-> "intro", returnTo |-> "intro", client |-> NoSocket, manual |-> FALSE,
     match |-> FALSE, authority |-> NoSocket, counting |-> FALSE,
     readyLocked |-> FALSE, started |-> FALSE, code |-> FALSE, login |-> FALSE,
     behind |-> {}, blind |-> {}]

\* ws is the readyState, with "aborting" for a socket closed while connecting
\* and "failed" for one whose error event is out and whose close event follows;
\* step is what the flow awaits; up and down are the packets on their way; phase
\* is the server's room, as ready-up goes
newSocket ==
    [ws |-> "none", flow |-> "none", step |-> "none", up |-> <<>>, down |-> <<>>,
     state |-> "none", at |-> "out", phase |-> "idle"]

\* a socket that is closed: what the server still does for it no page sees
closedSocket == [newSocket EXCEPT !.ws = "closed", !.state = "gone"]

answersDue == {"name", "lobby"}
isTerminal(screen) == screen \in {"disconnected", "sync-lost"}

\* no continuation is due and no socket is between its error and its close
idle ==
    \A k \in Sockets : socks[k].step # "rejected" /\ socks[k].ws # "failed"

-----------------------------------------------------------------------------
(* Sockets, as a page sees them: w is [page, socks].                         *)

now == [page |-> page, socks |-> socks]
becomes(w) == page' = w.page /\ socks' = w.socks

\* historyReturnScreenRef is written whenever the history opens: it is forgotten
\* when the history is left
goes(w, screen) ==
    [w EXCEPT !.page.screen = screen,
              !.page.returnTo = IF screen = "history" THEN @ ELSE "intro"]

\* onlineAuthorityRef is dropped or out of step: the countdown, when it ends, does
\* nothing
unfollowed(w) == [w EXCEPT !.page.authority = NoSocket, !.page.counting = FALSE]

\* the screen may be untrue from here on, until the next flow, and why
blinded(w, why) == [w EXCEPT !.page.blind = @ \cup {why}]

send(w, k, packet) == [w EXCEPT !.socks[k].up = Append(@, packet)]

\* close: the pending answer is rejected, and its flow's catch runs next
shut(w, k) ==
    LET s == w.socks[k]
        pending == IF s.step \in answersDue THEN "rejected" ELSE s.step
    IN  CASE s.ws = "open"       -> [w EXCEPT !.socks[k] =
                                        [closedSocket EXCEPT !.ws = "closing", !.step = pending]]
          [] s.ws = "connecting" -> [w EXCEPT !.socks[k].ws = "aborting"]
          [] OTHER               -> w

\* fault: the mark is set and the socket left open
closeClient_LeftOpen(w) ==
    IF w.page.client = NoSocket THEN w
    ELSE [w EXCEPT !.page.manual = TRUE, !.page.client = NoSocket]

\* with cancelMatchmaking, which the close that follows makes needless
closeClient(w) ==
    IF w.page.client = NoSocket THEN w
    ELSE [unfollowed(shut(w, w.page.client)) EXCEPT
                !.page.manual = TRUE, !.page.client = NoSocket]

lastPacket(flow) ==
    CASE flow = "quick" -> "search" [] flow = "host" -> "create" [] flow = "find" -> "subscribe"

\* resetOnlineState, createClient, subscribe and connect, up to the first await
newClient(w, flow) ==
    LET k == CHOOSE i \in Sockets :
                /\ w.socks[i].ws = "none"
                /\ \A j \in Sockets : w.socks[j].ws = "none" => i <= j
    IN  [unfollowed(w) EXCEPT
                  !.socks[k] = [newSocket EXCEPT
                        !.ws = "connecting", !.flow = flow, !.step = "connect"],
                  !.page.client = k, !.page.readyLocked = FALSE, !.page.blind = {}]

\* fault: a client that is connected already is used again
connected_Reused(w, flow) ==
    LET k == w.page.client
    IN  IF k # NoSocket /\ w.socks[k].ws = "open" THEN send(w, k, lastPacket(flow))
        ELSE newClient(w, flow)

connected(w, flow) == newClient(w, flow)

unused == \E k \in Sockets : socks[k].ws = "none"

\* an event of a socket that is not the current one
noted(w, k) == IF w.page.client = k THEN w ELSE blinded(w, "leak")

-----------------------------------------------------------------------------
(* Events of a socket.                                                       *)

\* the close event; unexpected is one that close() did not ask for.  The countdown
\* goes on.
closeEvent(w, unexpected) ==
    IF w.page.manual \/ w.page.screen = "intro"
    THEN LET ignored == [w EXCEPT !.page.manual = FALSE]
         IN  IF unexpected THEN blinded(ignored, "loss") ELSE ignored
    ELSE IF isTerminal(w.page.screen) THEN w
    ELSE LET shown == goes(w, "disconnected")
         IN  IF unexpected THEN shown ELSE blinded(shown, "mark")

\* a lost connection rejects what is pending
ended(w, k) ==
    [w EXCEPT !.socks[k] = [closedSocket EXCEPT
                    !.step = IF w.socks[k].step \in answersDue THEN "rejected" ELSE "done"],
              !.page.behind = @ \ {k}]

Opened(k) ==
    /\ idle
    /\ socks[k].ws = "connecting"
    /\ socks' = [socks EXCEPT ![k].ws = "open", ![k].step = "name", ![k].up = <<"name">>,
                              ![k].state = "open"]
    /\ UNCHANGED page

\* onerror; the catch runs before onclose
ConnectFails(k) ==
    /\ idle
    /\ socks[k].ws \in {"connecting", "aborting"}
    /\ socks' = [socks EXCEPT ![k].ws = "failed", ![k].step = "rejected"]
    /\ UNCHANGED page

FailedClose(k) ==
    /\ \A j \in Sockets : socks[j].step # "rejected"
    /\ socks[k].ws = "failed"
    /\ becomes(closeEvent(ended(noted(now, k), k), FALSE))

\* the closing handshake of close() is over
CloseEvent(k) ==
    /\ idle
    /\ socks[k].ws = "closing"
    /\ becomes(closeEvent(ended(now, k), FALSE))

\* the catch of startOnline, hostGame and findGames: it closes the current client,
\* whichever that is by now
Caught(k) ==
    /\ socks[k].step = "rejected"
    /\ becomes(goes(closeClient([now EXCEPT !.socks[k].step = "failed"]), "menu"))

Expire(k) ==
    /\ idle
    /\ socks[k].step \in answersDue
    /\ socks' = [socks EXCEPT ![k].step = "rejected"]
    /\ UNCHANGED page

\* an answer settles the request that is pending, if one is
answer(w, k, of, next, packet) ==
    IF w.socks[k].step = of THEN send([w EXCEPT !.socks[k].step = next], k, packet) ELSE w

\* fault: the screen of a match found is not shown
matchFound_Unshown(w) == [w EXCEPT !.page.code = FALSE, !.page.readyLocked = FALSE]

matchFound(w) ==
    goes([w EXCEPT !.page.code = FALSE, !.page.readyLocked = FALSE], "ready")

\* enterSyncLost, unless a terminal screen is there already
syncLost(w) == IF isTerminal(w.page.screen) THEN w ELSE goes(unfollowed(w), "sync-lost")

\* whether the current client has its id: the server's first packet has it
identities(p, s) ==
    IF p.client = NoSocket \/ s[p.client].step = "connect" THEN {FALSE}
    ELSE IF s[p.client].step = "name" THEN BOOLEAN ELSE {TRUE}

\* createOnlineAuthority and beginCountdown, whichever client the packet came to
matchStarts(w, k) ==
    goes([w EXCEPT !.page.match = TRUE, !.page.authority = k, !.page.counting = TRUE], "match")

\* onClientEvent, for the packets that move the page
event(w, k, news, identified) ==
    CASE news = "named"   -> answer(w, k, "name", "lobby", "join")
      [] news = "joined"  -> answer(w, k, "lobby", "done", lastPacket(w.socks[k].flow))
      [] news = "created" -> [w EXCEPT !.page.code = TRUE]
      [] news = "found"   -> matchFound(w)
      [] news = "start"   -> IF identified THEN matchStarts(w, k) ELSE syncLost(w)
      [] news = "over"    ->
            IF isTerminal(w.page.screen) THEN w
            ELSE IF w.page.authority # k THEN syncLost(w)
            ELSE goes([w EXCEPT !.page.counting = FALSE], "results")
      [] news = "left"    ->
            IF ~w.page.match THEN blinded(w, "opponent")
            ELSE IF isTerminal(w.page.screen) THEN w ELSE goes(w, "disconnected")
      [] news = "bye"     -> closeEvent(ended(w, k), TRUE)

Receive(k) ==
    /\ idle
    /\ socks[k].ws = "open" /\ socks[k].down # <<>>
    /\ \E identified \in identities(page, socks) :
            becomes(event(noted([now EXCEPT !.socks[k].down = Tail(@)], k),
                          k, Head(socks[k].down), identified))

\* the end of beginCountdown, after its last sleep: the battle is shown, whatever
\* the screen has become
CountdownEnds ==
    /\ idle /\ page.counting
    /\ LET battle == goes([now EXCEPT !.page.counting = FALSE], "match")
       IN  becomes(IF page.screen = "match" THEN battle ELSE blinded(battle, "countdown"))

-----------------------------------------------------------------------------
(* The player.                                                               *)

isOnlineMatch == isTerminal(page.screen) \/ page.match

\* accountChangeLocked, and the screens without the chrome
unlocked == page.screen \notin {"matchmaking", "ready", "match", "results", "account"}

lobbyPages == {"create", "find"}

Forward ==
    /\ idle
    /\ \/ page.screen = "intro" /\ becomes(goes(now, "mode-select"))
       \/ page.screen = "mode-select" /\ becomes(goes(now, "menu"))

QuickMatch ==
    /\ idle /\ page.screen = "menu" /\ unused
    /\ becomes(goes(connected(now, "quick"), "matchmaking"))

CreateGame ==
    /\ idle /\ page.screen = "menu"
    /\ becomes(goes([now EXCEPT !.page.started = FALSE, !.page.code = FALSE], "create"))

HostGame ==
    /\ idle /\ page.screen = "create" /\ ~page.started /\ unused
    /\ becomes(connected([now EXCEPT !.page.started = TRUE, !.page.code = FALSE], "host"))

FindGames ==
    /\ idle /\ page.screen = "menu" /\ unused
    /\ becomes(goes(connected(now, "find"), "find"))

\* a row or a code; nothing without an open socket
JoinGame ==
    /\ idle /\ page.screen = "find" /\ page.client # NoSocket
    /\ socks[page.client].ws = "open" /\ Len(socks[page.client].up) < MaxUp
    /\ becomes(send(now, page.client, "enter"))

\* CANCEL; cancelLobbyGame throws unless the socket is open, and nothing happens
LeaveLobby ==
    /\ idle /\ page.screen \in lobbyPages
    /\ page.client # NoSocket => socks[page.client].ws = "open"
    /\ becomes(goes([closeClient(now) EXCEPT !.page.started = FALSE, !.page.code = FALSE],
                    "menu"))

\* sendReady throws unless the socket is open: the button is locked already
Ready ==
    /\ idle /\ page.screen = "ready" /\ ~page.readyLocked
    /\ LET locked == [now EXCEPT !.page.readyLocked = TRUE]
       IN  becomes(IF page.client # NoSocket /\ socks[page.client].ws = "open"
                   THEN send(locked, page.client, "ready") ELSE locked)

PlayAgain ==
    /\ idle /\ page.screen = "results" /\ page.match
    /\ page.client # NoSocket => socks[page.client].ws = "open"
    /\ LET shown == goes([now EXCEPT !.page.readyLocked = TRUE], "ready")
       IN  becomes(IF page.client = NoSocket THEN shown ELSE send(shown, page.client, "ready"))

\* resetForHome and resetForAccountChange
reset(w) == [unfollowed(closeClient(w)) EXCEPT !.page.match = FALSE, !.page.readyLocked = FALSE]

backTarget(screen) ==
    CASE screen \in {"account", "mode-select"} -> "intro"
      [] screen = "menu"                       -> "mode-select"
      [] OTHER                                 -> "menu"

\* fault: BACK from a match keeps its connection
resetForNavigation_KeepsMatch(w) ==
    IF w.page.screen \in {"matchmaking", "ready"} THEN closeClient(w) ELSE w

resetForNavigation(w) ==
    LET over == IF w.page.screen \in {"match", "results", "disconnected", "sync-lost"}
                THEN [unfollowed(w) EXCEPT !.page.match = FALSE] ELSE w
    IN  IF w.page.screen \in {"matchmaking", "ready"} \/ isOnlineMatch
        THEN [closeClient(over) EXCEPT !.page.readyLocked = FALSE]
        ELSE IF w.page.screen \in lobbyPages /\ w.page.client # NoSocket
        THEN [over EXCEPT !.page.behind = @ \cup {w.page.client}]
        ELSE over

Back ==
    /\ idle /\ page.screen # "intro"
    /\ becomes(IF page.screen = "history" THEN goes(now, page.returnTo)
               ELSE IF backTarget(page.screen) = "intro" THEN goes(reset(now), "intro")
               ELSE goes(resetForNavigation(now), backTarget(page.screen)))

\* HIDDEN, on the screen of a lost connection
BackHome ==
    /\ idle /\ page.screen = "disconnected"
    /\ becomes(goes(reset(now), "intro"))

\* openAccount and the history's sign-in
OpenAccount ==
    /\ idle /\ unlocked
    /\ becomes(goes(reset(now), "account"))

\* The answer of a logout, and the 401 of an admin dialog that is closed by now.
\* Both may have been asked for on the way here, so they come on any screen.
AccountEnds ==
    /\ idle
    /\ \E screen \in {"account", "intro"} : becomes(goes(reset(now), screen))

\* the form is disabled while a login is on its way, BACK and PLAY AS GUEST are not
SubmitLogin ==
    /\ idle /\ page.screen = "account" /\ ~page.login
    /\ becomes([now EXCEPT !.page.login = TRUE])

\* setScreen runs when the login is answered, wherever the player is by then, and
\* closes nothing
LoginAnswered ==
    /\ idle /\ page.login
    /\ LET answered == [now EXCEPT !.page.login = FALSE]
           taken     == {page.client} \ {NoSocket}
       IN  \/ becomes(answered)
           \/ becomes(goes([answered EXCEPT !.page.behind = @ \cup taken], "mode-select"))

OpenHistory ==
    /\ idle /\ unlocked /\ page.screen \notin {"intro", "history"}
    /\ becomes(goes([now EXCEPT !.page.returnTo = page.screen], "history"))

-----------------------------------------------------------------------------
(* The server's end of socket k.                                             *)

serves(k) == socks[k].ws = "open" /\ socks[k].state \in {"open", "closing"}

\* nothing is sent to a socket that the server has closed
told(socket, news) ==
    IF socket.state = "open" THEN [socket EXCEPT !.down = Append(@, news)] ELSE socket

refusedSocket(socket) == [told(socket, "bye") EXCEPT !.state = "closing"]

reply(packet, socket, at) ==
    CASE packet = "name"                          -> told(socket, "named")
      [] packet = "join" /\ at = "lobby"          -> told(socket, "joined")
      [] packet = "create" /\ socket.at # at      -> told(socket, "created")
      [] at = "room" /\ socket.at # at            -> [told(socket, "found") EXCEPT !.phase = "idle"]
      [] packet = "ready" /\ socket.phase # "playing" -> [socket EXCEPT !.phase = "ready"]
      [] OTHER                                    -> socket

Handle(k) ==
    /\ serves(k) /\ socks[k].up # <<>>
    /\ LET packet == Head(socks[k].up)
           taken  == [socks[k] EXCEPT !.up = Tail(@)]
       IN  IF refused(packet, taken.at) THEN socks' = [socks EXCEPT ![k] = refusedSocket(taken)]
           ELSE \E at \in handled(packet, taken.at) :
                    socks' = [socks EXCEPT ![k] = [reply(packet, taken, at) EXCEPT !.at = at]]
    /\ UNCHANGED page

\* another player queues or joins this one's game
Matched(k) ==
    /\ serves(k) /\ socks[k].at \in {"queued", "hosting"}
    /\ socks' = [socks EXCEPT ![k] = [told(@, "found") EXCEPT !.at = "room", !.phase = "idle"]]
    /\ UNCHANGED page

\* the opponent is ready too, plays the match to its end, or leaves
Start(k) ==
    /\ serves(k) /\ socks[k].at = "room" /\ socks[k].phase = "ready"
    /\ socks' = [socks EXCEPT ![k] = [told(@, "start") EXCEPT !.phase = "playing"]]
    /\ UNCHANGED page

Over(k) ==
    /\ serves(k) /\ socks[k].at = "room" /\ socks[k].phase = "playing"
    /\ socks' = [socks EXCEPT ![k] = [told(@, "over") EXCEPT !.phase = "over"]]
    /\ UNCHANGED page

LeftBehind(k) ==
    /\ serves(k) /\ socks[k].at = "room"
    /\ socks' = [socks EXCEPT ![k] = [told(@, "left") EXCEPT !.at = "out", !.phase = "idle"]]
    /\ UNCHANGED page

\* the server stops, its heartbeat ends the socket, or the network does: what is
\* on its way is lost
Lost(k) ==
    /\ serves(k)
    /\ socks' = [socks EXCEPT ![k].state = "gone", ![k].at = "out", ![k].phase = "idle",
                              ![k].up = <<>>, ![k].down = <<"bye">>]
    /\ UNCHANGED page

-----------------------------------------------------------------------------
Init == page = newPage /\ socks = [k \in Sockets |-> newSocket]

Browser(k) ==
    \/ Opened(k) \/ ConnectFails(k) \/ FailedClose(k) \/ CloseEvent(k)
    \/ Caught(k) \/ Expire(k) \/ Receive(k)

Player ==
    \/ Forward \/ QuickMatch \/ CreateGame \/ HostGame \/ FindGames \/ JoinGame
    \/ LeaveLobby \/ Ready \/ PlayAgain \/ Back \/ BackHome \/ OpenHistory
    \/ OpenAccount \/ SubmitLogin

Server(k) ==
    \/ Handle(k) \/ Matched(k) \/ Start(k) \/ Over(k) \/ LeftBehind(k) \/ Lost(k)

\* continuations that no socket releases
Later == CountdownEnds \/ LoginAnswered \/ AccountEnds

Next ==
    \/ Player \/ Later
    \/ \E k \in Sockets : Browser(k) \/ Server(k)

Spec == Init /\ [][Next]_vars

-----------------------------------------------------------------------------
(* Properties.                                                               *)

\* What Lobby assumes of a connection (OnePurpose) and the server does not check:
\* a socket with a game in the list never queues or joins, whatever screens
\* opened and closed sockets before.
ServesOnePurpose ==
    \A k \in Sockets : socks[k].up # <<>> => onePurpose(Head(socks[k].up), socks[k].at)

\* Every socket that is open or will be is the current client's, or was left
\* behind in one of two ways: by BACK from the page of a hosted game or of the
\* list (useMatchSession.ts:548), or by a login answered after the player had
\* gone on without it (App.tsx:277), whose change of screen closes nothing.  No
\* other way through the screens leaks one.
SocketsOwned ==
    \A k \in Sockets :
        socks[k].ws \in {"connecting", "open"} =>
            k = page.client \/ k \in page.behind

\* When nothing is on its way, a screen that tells of the server tells where the
\* server has this player.  There are five ways to lose that, and the property
\* is that there is no other: a loss taken for a close of the page's own
\* ("loss"), a close of the page's own taken for a loss ("mark"), an opponent
\* that left before the first match ("opponent"), an event of a socket left
\* behind ("leak"), and the end of a countdown that shows the battle on a page
\* that a disconnect or a late login had taken off the match ("countdown").
settled(k) ==
    /\ socks[k].step = "done" /\ socks[k].ws \in {"open", "closed"}
    /\ socks[k].up = <<>> /\ socks[k].down = <<>>

placesShown(screen) ==
    CASE screen = "matchmaking"         -> {"queued"}
      [] screen \in {"ready", "match"}  -> {"room"}
      [] screen = "find"                -> {"lobby"}
      [] screen = "disconnected"        -> {"out"}
      [] screen = "create" /\ page.code -> {"hosting"}
      [] OTHER                          -> At

ScreenTruth ==
    idle /\ page.blind = {} =>
        /\ page.client = NoSocket => placesShown(page.screen) = At
        /\ \A k \in Sockets :
            k = page.client /\ settled(k) => socks[k].at \in placesShown(page.screen)
=============================================================================
