------------------------------ MODULE Account ------------------------------
(* A page with an account: App.tsx around the session, the match history     *)
(* and the administrators' dialog; the server that answers its calls in any  *)
(* order, from the sessions, roles, matches and bookmarks of the database;   *)
(* and the other devices and players that change them meanwhile.  A match is *)
(* one screen and one socket (Pages.tla has the rest).                       *)
EXTENDS AccountSession, HistoryScreen, AdminPanel

CONSTANT Budgets     \* the bounds on the clicks and faults of each kind

VARIABLES page, server, left

vars == <<page, server, left>>

authKinds == {"restore", "signin", "whoami", "logout", "mail", "reset", "devices",
              "revoke", "others"}

noSocket == "none"

who(sid) == IF sid \in server.valid THEN server.owner[sid] ELSE NoUser

\* a reset link opens the form; any other start opens the welcome screen
initialPage(screen, mode, cookie) ==
    called([app |-> [screen |-> screen, returnTo |-> "intro", socket |-> noSocket,
                     adminOpen |-> FALSE, overtaken |-> FALSE],
            session |-> newSession(mode), history |-> newHistory(NoUser),
            admin |-> newPanel("stats"), calls |-> [i \in Slots |-> noCall],
            cookie |-> cookie],
           "restore", noArg)

\* overtaken is for a property: the account changed, or was being changed, while the
\* socket was open
Init ==
    /\ \E start \in {<<"account", "reset">>, <<"intro", "login">>, <<"intro", "register">>},
          cookie \in {NoSid, 1}, owner \in Admins :
        page = initialPage(start[1], start[2], cookie)
     /\ server = [owner |-> [s \in Sids |-> IF s <= 2 THEN owner ELSE NoUser],
                  valid |-> {1, 2}, made |-> 2, admins |-> Admins,
                  rows |-> [tab \in listTabs |-> Matches \ {2}],
                  starred |-> [u \in Users |-> {1}]]
    /\ left \in Budgets

-----------------------------------------------------------------------------
(* App.tsx: what moves the page from screen to screen.                       *)

locked(app) == app.screen = "match"

closesPanel(w) ==
    IF w.app.adminOpen THEN [unmountedPanel(w) EXCEPT !.app.adminOpen = FALSE] ELSE w

setScreen(w, screen) ==
    LET moved == IF w.app.screen = "history" /\ screen # "history" THEN leavesHistory(w) ELSE w
        shown == [moved EXCEPT !.app.screen = screen]
    IN  IF locked(shown.app) THEN closesPanel(shown) ELSE shown

closeClient(w) == [w EXCEPT !.app.socket = noSocket, !.app.overtaken = FALSE]

\* who the server takes the new socket's player for
connects(w, screen) ==
    [setScreen(w, screen) EXCEPT
        !.app.socket = who(w.cookie),
        !.app.overtaken = underWay(w, authKinds \ {"devices", "mail"}) # {}]

resetForAccountChange(w) == closeClient(w)

\* fault: the game goes on under the old name
openAccount_Playing(w, mode) == setScreen(prepareAccount(w, mode), "account")

openAccount(w, mode) ==
    setScreen(prepareAccount(resetForAccountChange(w), mode), "account")

\* a session that the admin API refuses
expireAdminSession(w, c) ==
    LET doubt == IF c.sid # w.cookie THEN {"late"} ELSE IF c.answer.user # NoUser THEN {"role"} ELSE {}
        out == signedOut(resetForAccountChange(w))
    IN  setScreen(closesPanel([out EXCEPT !.session.doubt = @ \cup doubt]), "account")

navigateBack(w) ==
    CASE w.app.screen = "history" -> setScreen(w, w.app.returnTo)
      [] w.app.screen \in {"account", "mode-select"} -> setScreen(closeClient(w), "intro")
      [] w.app.screen = "menu"  -> setScreen(w, "mode-select")
      [] w.app.screen = "lobby" -> setScreen(w, "menu")
      [] w.app.screen = "match" -> setScreen(closeClient(w), "menu")

logout(w) ==
    setScreen(resetForAccountChange(closesPanel(loggedOut(w))), "intro")

-----------------------------------------------------------------------------
(* The clicks.                                                               *)

signedIn == page.session.account # NoAccount
idle == ~page.session.busy

\* a modal dialog covers the page
Reach(screens) == page.app.screen \in screens /\ ~page.app.adminOpen
Room == underWay(page, {"none"}) # {}
Spend(kind) == left[kind] > 0 /\ left' = [left EXCEPT ![kind] = @ - 1]
Free == UNCHANGED left
Shows(w) == page' = w /\ UNCHANGED server
Asks(kind, w) == Room /\ Spend(kind) /\ Shows(w)

\* the header of every screen but the welcome screen
Header == ~page.app.adminOpen /\ ~locked(page.app) /\ page.app.screen \notin {"intro", "account"}
ProfileMenu == Header /\ signedIn /\ idle

Continue == Reach({"intro"}) /\ page.session.hydrated /\ Free /\ Shows(setScreen(page, "mode-select"))
ChooseOnline == Reach({"mode-select"}) /\ Free /\ Shows(setScreen(page, "menu"))
Back == Reach({"account", "mode-select", "menu", "lobby", "history", "match"})
        /\ Free /\ Shows(navigateBack(page))
FindGames == Reach({"menu"}) /\ Spend("play") /\ Shows(connects(page, "lobby"))
QuickMatch == Reach({"menu"}) /\ Spend("play") /\ Shows(connects(page, "match"))
CreateAccount ==
    Reach({"intro"}) /\ page.session.hydrated /\ ~signedIn /\ Spend("auth")
    /\ Shows(openAccount(page, "register"))
SignIn == Header /\ ~signedIn /\ idle /\ Spend("auth") /\ Shows(openAccount(page, "login"))
OpenSettings == ProfileMenu /\ Asks("auth", openAccount(page, "settings"))
SignOut ==
    /\ ProfileMenu \/ (Reach({"intro"}) /\ page.session.hydrated /\ signedIn /\ idle)
    /\ Asks("auth", asked(page, "logout", noArg))

SwitchMode ==
    /\ Reach({"account"}) /\ Free
    /\ \E mode \in formModes(page.session.mode) : Shows(prepareAccount(page, mode))
Submit(modes) == Reach({"account"}) /\ page.session.mode \in modes /\ idle
SubmitLogin ==
    Submit({"login"})
    /\ \E u \in Users : Asks("auth", asked(page, "signin", [noArg EXCEPT !.user = u]))
SubmitMail ==
    Submit(mailModes)
    /\ Asks("auth", asked(page, "mail", [noArg EXCEPT !.flag = page.session.mode = "register",
                                                      !.tab = page.session.mode]))
SubmitReset ==
    Submit({"reset"})
    /\ \E u \in Users : Asks("auth", asked(page, "reset", [noArg EXCEPT !.user = u]))
SignOutOthers == Submit({"settings"}) /\ Asks("auth", asked(page, "others", noArg))
RevokeDevice ==
    Submit({"settings"})
    /\ \E s \in page.session.devices \ {page.session.mine} :
          Asks("auth", asked(page, "revoke", [noArg EXCEPT !.sid = s]))

OpenHistory ==
    /\ ProfileMenu /\ page.app.screen # "history" /\ Room /\ Spend("history")
    /\ Shows(opensHistory([page EXCEPT !.app.returnTo = page.app.screen, !.app.screen = "history"]))

History == page.history
OnList == Reach({"history"}) /\ History.selected = NoMatch
InDetail == Reach({"history"}) /\ History.selected # NoMatch
SelectFilter ==
    OnList /\ \E f \in Filters \ {History.filter} : Asks("history", selectFilter(page, f))
RetryList == OnList /\ History.listStatus = "error" /\ Asks("history", retryList(page))
LoadMore ==
    OnList /\ History.listStatus = "ready" /\ History.next # NoMore /\ ~History.loadingMore
    /\ Asks("history", loadMore(page))
OpenDetail ==
    /\ OnList /\ History.listStatus = "ready"
    /\ \E m \in Range(History.matches) : Asks("history", loadDetail(page, m))
RetryDetail ==
    InDetail /\ History.detailStatus = "error" /\ Asks("history", loadDetail(page, History.selected))
CloseDetail == InDetail /\ Free /\ Shows(closeDetail(page))
SaveBookmark ==
    \/ /\ OnList /\ History.listStatus = "ready"
       /\ \E m \in Range(History.matches) :
             maySave(History, m) /\ Asks("history", saveBookmark(page, m, m \notin History.starred))
    \/ /\ InDetail /\ History.detailStatus = "ready" /\ maySave(History, History.detail)
       /\ Asks("history", saveBookmark(page, History.detail, ~History.detailStarred))
HistorySignIn ==
    /\ \/ OnList /\ History.listStatus = "expired"
       \/ InDetail /\ History.detailStatus = "expired"
    /\ Spend("auth") /\ Shows(openAccount(invalidated(page), "login"))

Panel == page.admin
OnTab(tabs) == page.app.adminOpen /\ Panel.tab \in tabs
OpenAdmin ==
    /\ ProfileMenu /\ page.session.account.admin
    /\ Asks("admin", loadStats([page EXCEPT !.app.adminOpen = TRUE, !.admin = newPanel("stats")]))
CloseAdmin == page.app.adminOpen /\ Free /\ Shows(closesPanel(page))
SetTab ==
    page.app.adminOpen
    /\ \E tab \in Tabs \ {Panel.tab} : Asks("admin", setActiveTab(page, tab))
RefreshStats == OnTab({"stats"}) /\ Asks("admin", loadStats(page))
Search == OnTab(listTabs) /\ \E q \in Queries : Asks("admin", search(page, q))
RetryRows == OnTab(listTabs) /\ Panel.error /\ Asks("admin", load(page, FALSE))
LoadOlder ==
    OnTab(listTabs) /\ Panel.cursor # NoMore /\ ~Panel.loading /\ Asks("admin", load(page, TRUE))
SelectMatch ==
    OnTab({"matches"})
    /\ \E m \in Range(Panel.items) \ {Panel.selected} : Asks("admin", selectMatch(page, m))
CloseMatch ==
    OnTab({"matches"}) /\ Panel.detail # NoMatch /\ Free /\ Shows(closeMobileDetail(page))
RetryMatch == OnTab({"matches"}) /\ Panel.detailError /\ Asks("admin", retryDetail(page))
RunCommand == OnTab({"console"}) /\ ~Panel.busy /\ Asks("admin", submitCommand(page))

Clicks ==
    \/ Continue \/ ChooseOnline \/ Back \/ FindGames \/ QuickMatch
    \/ CreateAccount \/ SignIn \/ OpenSettings \/ SignOut \/ SwitchMode \/ SubmitLogin
    \/ SubmitMail \/ SubmitReset \/ SignOutOthers \/ RevokeDevice
    \/ OpenHistory \/ SelectFilter \/ RetryList \/ LoadMore \/ OpenDetail \/ RetryDetail
    \/ CloseDetail \/ SaveBookmark \/ HistorySignIn
    \/ OpenAdmin \/ CloseAdmin \/ SetTab \/ RefreshStats \/ Search \/ RetryRows \/ LoadOlder
    \/ SelectMatch \/ CloseMatch \/ RetryMatch \/ RunCommand

-----------------------------------------------------------------------------
(* The server: it reads and writes once, then the answer travels.            *)

answered(i, answer) ==
    page' = [page EXCEPT !.calls[i].answer = answer]

reply(status, c) == [noAnswer EXCEPT !.status = status, !.user = who(c.sid)]

sessionsOf(u) == {s \in server.valid : server.owner[s] = u}

\* restore and whoami: the cookie's session, or that there is none
ServeWho(i, c) ==
    /\ answered(i, [reply("ok", c) EXCEPT
            !.sid = IF who(c.sid) = NoUser THEN NoSid ELSE c.sid,
            !.admin = who(c.sid) \in server.admins])
    /\ UNCHANGED server

ServeSignIn(i, c) ==
    \/ answered(i, reply("refused", c)) /\ UNCHANGED server
    \/ LET sid == server.made + 1
       IN  /\ sid \in Sids
           /\ server' = [server EXCEPT !.made = sid, !.valid = @ \cup {sid},
                                       !.owner[sid] = c.arg.user]
           /\ answered(i, [reply("ok", c) EXCEPT !.sid = sid])

ServeLogout(i, c) ==
    server' = [server EXCEPT !.valid = @ \ {c.sid}] /\ answered(i, reply("ok", c))

ServeMail(i, c) ==
    /\ \E status \in {"ok", "refused"} :
          answered(i, reply(IF c.arg.tab = "settings" /\ who(c.sid) = NoUser
                            THEN "expired" ELSE status, c))
    /\ UNCHANGED server

\* revokeSessionsOnPasswordReset
ServeReset(i, c) ==
    \/ answered(i, reply("refused", c)) /\ UNCHANGED server
    \/ /\ server' = [server EXCEPT !.valid = @ \ sessionsOf(c.arg.user)]
       /\ answered(i, [reply("ok", c) EXCEPT
                !.user = IF who(c.sid) = c.arg.user THEN NoUser ELSE who(c.sid)])

\* the operations of a session on itself and on its user's others; a list of devices
\* that came late may show the page's own session among the others
ServeDevices(i, c) ==
    LET u == who(c.sid)
        gone == CASE c.kind = "devices" -> {}
                  [] c.kind = "revoke"  -> {c.arg.sid} \cap sessionsOf(u)
                  [] c.kind = "others"  -> sessionsOf(u) \ {c.sid}
    IN  \/ /\ u = NoUser /\ answered(i, reply("expired", c)) /\ UNCHANGED server
        \/ /\ u # NoUser /\ c.kind = "others"
           /\ answered(i, reply("refused", c)) /\ UNCHANGED server
        \/ /\ u # NoUser /\ server' = [server EXCEPT !.valid = @ \ gone]
           /\ page' = LET told == [page EXCEPT !.calls[i].answer =
                                        [reply("ok", c) EXCEPT !.sids = sessionsOf(u)]]
                      IN  IF page.cookie \in gone THEN doubted(told, "revoked") ELSE told

found(c, rows) == IF c.arg.filter = "named" THEN rows \cap Named ELSE rows

withPage(answer, rows, c, starred) ==
    LET p == pageOf(rows, c.arg.cursor)
    IN  [answer EXCEPT !.rows = p.rows, !.next = p.next, !.seen = rows,
                       !.starred = Range(p.rows) \cap starred]

\* /api/history
ServeHistory(i, c) ==
    LET u == who(c.sid)
        stars == IF u = NoUser THEN {} ELSE server.starred[u]
        rows == IF c.arg.filter = "interesting" THEN server.rows["matches"] \cap stars
                ELSE server.rows["matches"]
    IN  IF u = NoUser THEN answered(i, reply("expired", c)) /\ UNCHANGED server
        ELSE CASE c.kind \in listKinds ->
                    answered(i, withPage(reply("ok", c), rows, c, stars)) /\ UNCHANGED server
               [] c.kind = "detail" ->
                    answered(i, [reply("ok", c) EXCEPT !.starred = stars]) /\ UNCHANGED server
               [] c.kind = "star" ->
                    /\ server' = [server EXCEPT !.starred[u] =
                            IF c.arg.flag THEN @ \cup {c.arg.match} ELSE @ \ {c.arg.match}]
                    /\ page' = starSaved([page EXCEPT !.calls[i].answer = reply("ok", c)], c)

\* /api/admin: a session is asked for its role on every request
ServeAdmin(i, c) ==
    /\ UNCHANGED server
    /\ IF who(c.sid) \notin server.admins THEN answered(i, reply("expired", c))
       ELSE IF c.kind \in rowKinds
       THEN answered(i, withPage(reply("ok", c), found(c, server.rows[c.arg.tab]), c, {}))
       ELSE answered(i, reply("ok", c))

Serve(i) ==
    LET c == page.calls[i]
    IN  /\ c.kind # "none" /\ c.answer.status = "none" /\ UNCHANGED left
        /\ CASE c.kind \in {"restore", "whoami"} -> ServeWho(i, c)
             [] c.kind = "signin" -> ServeSignIn(i, c)
             [] c.kind = "logout" -> ServeLogout(i, c)
             [] c.kind = "mail"   -> ServeMail(i, c)
             [] c.kind = "reset"  -> ServeReset(i, c)
             [] c.kind \in {"devices", "revoke", "others"} -> ServeDevices(i, c)
             [] c.kind \in historyKinds -> ServeHistory(i, c)
             [] c.kind \in adminKinds   -> ServeAdmin(i, c)

\* the request or its answer is lost, or the service is unavailable
Drop(i) ==
    LET c == page.calls[i]
        lost == [page EXCEPT !.calls[i].answer = [noAnswer EXCEPT !.status = "failed"],
                             !.calls[i].lost = c.answer.status = "ok"]
    IN  /\ c.kind # "none" /\ c.answer.status # "failed" /\ Spend("fault") /\ UNCHANGED server
        /\ page' = IF c.kind \in {"logout", "reset"} /\ c.answer.status = "ok"
                   THEN doubted(lost, "lost") ELSE lost

-----------------------------------------------------------------------------
(* The continuations.                                                        *)

freed(i) == [page EXCEPT !.calls[i] = noCall]

onAuth(w, c) ==
    CASE c.kind = "restore" -> onRestored(w, c)
      [] c.kind = "whoami"  ->
            IF knows(c) THEN setScreen(onWhoami(w, c), "mode-select") ELSE onWhoami(w, c)
      [] c.kind = "logout"  ->
            released(IF c.answer.status = "ok" THEN logout(w) ELSE logoutFailed(w, c))
      [] c.kind = "mail"    -> onMailed(w, c)
      [] c.kind = "reset"   -> onReset(w, c)
      [] c.kind = "devices" -> onDevices(w, c)
      [] c.kind = "revoke"  -> onRevoked(w, c)
      [] c.kind = "others"  -> onOthersRevoked(w, c)

\* for the property: an answer that signs the page out leaves the game going
lateFor(w, c) ==
    [w EXCEPT !.app.overtaken =
        @ \/ (c.answer.status = "expired" /\ w.app.socket # noSocket)]

onHistory(w, c) ==
    IF ~c.alive THEN w
    ELSE IF c.kind = "star" THEN onSaved(w, c)
    ELSE IF ~c.current THEN w
    ELSE CASE c.kind = "list"   -> onListed(w, c)
           [] c.kind = "more"   -> onMore(w, c)
           [] c.kind = "detail" -> onDetail(w, c)

onAdmin(w, c) ==
    CASE ~heard(c) -> w
      [] heard(c) /\ denied(c) -> expireAdminSession(w, c)
      [] heard(c) /\ ~denied(c) /\ ~c.alive -> w
      [] heard(c) /\ ~denied(c) /\ c.alive ->
            CASE c.kind \in rowKinds -> onRows(w, c)
              [] c.kind \in inspectKinds -> onInspected(w, c)
              [] c.kind = "console" -> onConsole(w)
              [] OTHER -> w

Answer(i) ==
    LET c == page.calls[i]
    IN  /\ c.answer.status # "none" /\ UNCHANGED <<server, left>>
        /\ page' = CASE c.kind = "signin" -> onSignedIn(page, i)
                     [] c.kind \in authKinds \ {"signin"} -> lateFor(onAuth(freed(i), c), c)
                     [] c.kind \in historyKinds -> onHistory(freed(i), c)
                     [] c.kind \in adminKinds   -> onAdmin(freed(i), c)

-----------------------------------------------------------------------------
(* Other devices, players and administrators.                                *)

\* a session may end while the answer that told of it is on its way
revoked(w) ==
    [doubted(w, "revoked") EXCEPT !.calls = [i \in Slots |->
        [w.calls[i] EXCEPT !.lost = @ \/ (w.calls[i].answer.sid = w.cookie)]]]

Revoked ==
    \E s \in server.valid :
        /\ Spend("world")
        /\ server' = [server EXCEPT !.valid = @ \ {s}]
        /\ page' = IF s = page.cookie THEN revoked(page) ELSE page

Demoted ==
    \E u \in server.admins :
        /\ Spend("world") /\ UNCHANGED page
        /\ server' = [server EXCEPT !.admins = @ \ {u}]

\* matches are stored in any order of their completion
Stored ==
    \E tab \in listTabs : \E m \in Matches \ server.rows[tab] :
        /\ Spend("world") /\ UNCHANGED page
        /\ server' = [server EXCEPT !.rows[tab] = @ \cup {m}]

MatchFound ==
    /\ page.app.screen = "lobby" /\ page.app.socket # noSocket /\ Free
    /\ Shows(setScreen(page, "match"))

World == Revoked \/ Demoted \/ Stored \/ MatchFound

Next == Clicks \/ World \/ \E i \in Slots : Serve(i) \/ Drop(i) \/ Answer(i)

Spec == Init /\ [][Next]_vars

-----------------------------------------------------------------------------
(* Properties.                                                               *)

account == page.session.account

\* the operations that change who the page is signed in as
changing == underWay(page, {"restore", "signin", "whoami", "logout", "reset"}) # {}

\* The account that the page shows is the one that the browser's cookie is signed in
\* to, whatever the order of the answers to a first lookup, a login, a logout, a reset
\* and the calls that find the session gone; except after what doubt lists: the session
\* was ended elsewhere, an answer was lost, or one of the answers came late.
IdentityTruth ==
    (~changing /\ page.session.doubt = {}) =>
        account.user = who(page.cookie) /\ (account = NoAccount \/ account.sid = page.cookie)

\* A socket plays under the account that the page shows: it is closed before that
\* account changes (it was opened while none was changing, and the session stands).
SocketIdentity ==
    (page.app.socket # noSocket /\ ~page.app.overtaken /\ page.session.doubt = {}) =>
        page.app.socket = account.user

\* every row that was there when the first page was read, down to the cursor
noGap(rows, next, since) == {m \in since : m > NoMore /\ m >= next} \subseteq Range(rows)

waits(kinds) == \E i \in Slots :
    page.calls[i].kind \in kinds /\ page.calls[i].current /\ page.calls[i].alive

\* The rows of the match history are those of the filter and of the account on show,
\* newest first, none twice and none left out between pages; the match in detail is
\* the one opened last; and what is loading is waiting for an answer.
HistoryFits ==
    page.app.screen = "history" =>
        /\ History.listStatus = "ready" =>
              /\ descending(History.matches) /\ History.shown = History.filter
              /\ History.filter = "all" => noGap(History.matches, History.next, History.since)
              /\ page.session.doubt = {} /\ signedIn => History.owner = account.user
        /\ History.detail # NoMatch => History.detail = History.selected
        /\ History.selected = History.wanted
        /\ History.listStatus = "loading" => waits({"list"})
        /\ History.loadingMore => waits({"more"})
        /\ History.detailStatus = "loading" => waits({"detail"})

\* The same of the administrators' lists, but for pages of two queries joined after a
\* search that failed.
PanelFits ==
    page.app.adminOpen =>
        /\ Panel.mixed \/ ( /\ descending(Panel.items)
                             /\ noGap(Panel.items, Panel.cursor, Panel.since)
                             /\ Panel.shown = "named" => Range(Panel.items) \subseteq Named)
        /\ Panel.tab \in listTabs /\ ~Panel.loading /\ ~Panel.error => Panel.shown = Panel.query
        /\ Panel.detail # NoMatch => Panel.detail = Panel.selected
        /\ Panel.selected = Panel.wanted
        /\ Panel.tab \in listTabs /\ Panel.loading => waits(rowKinds)
        /\ Panel.detailLoading => waits(inspectKinds)

AnswersFit == HistoryFits /\ PanelFits

\* A star that is shown, and is not being saved, is the server's: in the list and in
\* the detail, after a save that failed as after one that did not; except for those in
\* doubt, whose answer was lost or was read before a save and arrived after it.
BookmarksTrue ==
    page.app.screen = "history" /\ History.owner # NoUser =>
        LET settled(m) == m \notin History.pending \cup History.doubt
            stars == server.starred[History.owner]
        IN  /\ \A m \in Range(History.matches) :
                  settled(m) => (m \in History.starred <=> m \in stars)
            /\ History.detail # NoMatch /\ settled(History.detail) =>
                  (History.detailStarred <=> History.detail \in stars)
=============================================================================
