----------------------- MODULE AccountClicks_proofs ------------------------

(* Proofs about a page with an account, for any number of accounts, sessions *)
(* and matches, calls under way and clicks: what an invariant says of its    *)
(* parts, and that no click of the user and no call it sends breaks it.      *)
EXTENDS Account, FiniteSetTheorems, FunctionTheorems, SequenceTheorems,
        WellFoundedInduction, TLAPS

-----------------------------------------------------------------------------

(* Types.                                                                    *)

People == Users \cup {NoUser}
SidsOrNone == 0 .. MaxSids
MatchesOrNone == 0 .. MaxMatches
Modes == {"register", "login", "verify", "forgot", "reset", "settings"}
Screens == {"intro", "account", "mode-select", "menu", "lobby", "match", "history"}
Kinds == {"none"} \cup authKinds \cup historyKinds \cup adminKinds

Reply ==
    [status : {"none", "ok", "refused", "expired", "failed"}, user : People,
     sid : SidsOrNone, admin : BOOLEAN, sids : SUBSET Sids, rows : Seq(Matches),
     next : MatchesOrNone, starred : SUBSET Matches, seen : SUBSET Matches]

Arg ==
    [user : People, sid : SidsOrNone, match : MatchesOrNone, flag : BOOLEAN,
     tab : Tabs \cup mailModes, filter : Filters \cup Queries, cursor : 0 .. FromNewest]

Call ==
    [kind : Kinds, sid : SidsOrNone, arg : Arg, answer : Reply, current : BOOLEAN,
     alive : BOOLEAN, lost : BOOLEAN, overtaken : SUBSET Matches]

App ==
    [screen : Screens, returnTo : Screens, socket : People \cup {noSocket},
     adminOpen : BOOLEAN, overtaken : BOOLEAN]

Known == [user : People, sid : SidsOrNone, admin : BOOLEAN]

Session ==
    [account : Known, hydrated : BOOLEAN, mode : Modes, busy : BOOLEAN,
     devices : SUBSET Sids, mine : SidsOrNone,
     doubt : SUBSET {"revoked", "lost", "late", "role", "restore", "half", "reset"},
     acted : BOOLEAN]

Shelf ==
    [filter : Filters, listStatus : {"loading", "ready", "error", "expired"},
     matches : Seq(Matches), starred : SUBSET Matches, next : MatchesOrNone,
     loadingMore : BOOLEAN, moreError : BOOLEAN, selected : MatchesOrNone,
     detailStatus : {"idle", "loading", "ready", "error", "expired"},
     detail : MatchesOrNone, detailStarred : BOOLEAN, pending : SUBSET Matches,
     errors : SUBSET Matches, since : SUBSET Matches, shown : Filters,
     wanted : MatchesOrNone, owner : People, doubt : SUBSET Matches]

Board ==
    [tab : Tabs, items : Seq(Matches), cursor : MatchesOrNone, query : Queries,
     loading : BOOLEAN, error : BOOLEAN, selected : MatchesOrNone, detail : MatchesOrNone,
     detailLoading : BOOLEAN, detailError : BOOLEAN, busy : BOOLEAN,
     since : SUBSET Matches, shown : Queries, wanted : MatchesOrNone, mixed : BOOLEAN]

Page ==
    [app : App, session : Session, history : Shelf, admin : Board,
     calls : [Slots -> Call], cookie : SidsOrNone]

Server ==
    [owner : [Sids -> People], valid : SUBSET Sids, made : SidsOrNone,
     admins : SUBSET Users, rows : [listTabs -> SUBSET Matches],
     starred : [Users -> SUBSET Matches]]

-----------------------------------------------------------------------------

(* Who the page says it is.                                                  *)

whose(sv, sid) == IF sid \in sv.valid THEN sv.owner[sid] ELSE NoUser

formKinds == {"signin", "whoami", "logout", "mail", "reset", "revoke", "others"}

\* Sessions are numbered as they are made, each for one account.
SessionsMade(w, sv) ==
    /\ sv.valid \subseteq 1 .. sv.made /\ w.cookie <= sv.made
    /\ \A s \in Sids : s <= sv.made => sv.owner[s] \in Users
    /\ \A i \in Slots : w.calls[i].sid <= sv.made

\* A refusal for a session that has ended is true, and only an administrator's call is also
\* refused to one that has not; a login is told of a session that was made, a lookup of the
\* account that its session was made for; and a reset says if it ended the page's session.
AnswerTrue(c, sv) ==
    /\ c.answer.status = "expired" =>
        /\ c.kind \in {"mail", "devices", "revoke", "others"} \cup historyKinds \cup adminKinds
        /\ c.kind = "mail" => c.arg.tab = "settings"
        /\ c.kind \notin adminKinds => c.answer.user = NoUser
        /\ c.answer.user = NoUser => whose(sv, c.sid) = NoUser
    /\ c.kind = "none" => c.answer.status = "none"
    /\ c.kind = "signin" => c.answer.sid <= sv.made
    /\ c.kind = "restore" /\ c.answer.status = "ok" =>
        \/ accountOf(c) = NoAccount
        \/ c.sid # NoSid /\ c.answer.sid = c.sid /\ c.answer.user = sv.owner[c.sid]
    /\ c.kind = "reset" /\ c.answer.status = "ok" /\ c.answer.user = NoUser =>
        whose(sv, c.sid) = NoUser

AnswersTrue(w, sv) == \A i \in Slots : AnswerTrue(w.calls[i], sv)

\* The form waits for one operation at a time, sent with the cookie that the page has; a login
\* is into an account.
OneAtATime(w) ==
    /\ \A i, j \in Slots :
        w.calls[i].kind \in formKinds /\ w.calls[j].kind \in formKinds => i = j
    /\ \A i, j \in Slots :
        w.calls[i].kind = "restore" /\ w.calls[j].kind = "restore" => i = j
    /\ \A i \in Slots :
        LET c == w.calls[i]
        IN  /\ c.kind \in formKinds => w.session.busy /\ c.sid = w.cookie
            /\ c.kind = "whoami" => w.session.acted
            /\ c.kind = "signin" => c.arg.user \in Users

\* Until the first lookup is answered, a page that has signed nobody in or out has nobody
\* signed in, and asks nothing that a session may be refused for.
Early(w) ==
    w.session.acted \/ \A i \in Slots : w.calls[i].kind = "restore" =>
        /\ w.session.account = NoAccount /\ w.session.mode # "settings"
        /\ w.app.screen # "history" /\ ~w.app.adminOpen
        /\ w.calls[i].sid = w.cookie
        /\ \A j \in Slots :
            /\ w.calls[j].kind \in {"none", "restore", "signin", "mail", "reset"}
            /\ w.calls[j].kind = "mail" => w.calls[j].arg.tab # "settings"

\* The account is the cookie's where nothing is in doubt: also, what the lookup after a login
\* found, and what the first one did.
Says(a, w, sv) == a.user = whose(sv, w.cookie) /\ (a = NoAccount \/ a.sid = w.cookie)

ended(c) == c.kind \in {"logout", "reset"} /\ c.answer.status = "ok"

Truthful(w, sv) ==
    /\ \A i \in Slots : w.calls[i].kind = "whoami" =>
        LET c == w.calls[i] IN knows(c) /\ ~c.lost => Says(accountOf(c), w, sv)
    /\ (\A i \in Slots : w.calls[i].kind # "whoami") /\ w.session.doubt = {} =>
        /\ w.session.account # NoAccount =>
            /\ w.session.account.sid = w.cookie /\ w.cookie # NoSid
            /\ w.session.account.user = sv.owner[w.cookie]
        /\ (\A i \in Slots : ~ended(w.calls[i])) =>
            /\ (\A i \in Slots : w.calls[i].kind # "restore") =>
                Says(w.session.account, w, sv)
            /\ \A i \in Slots :
                /\ w.calls[i].kind = "restore" /\ w.calls[i].answer.status = "ok"
                /\ ~w.session.acted
                => Says(accountOf(w.calls[i]), w, sv)

\* On the screen of the match history, its calls carry the cookie, nothing but a logout can
\* change it, and a list that is refused is refused to it.
AtHistory(w, sv) ==
    /\ \A i \in Slots :
        LET c == w.calls[i]
        IN  c.kind \in historyKinds /\ c.alive => w.app.screen = "history" /\ c.sid = w.cookie
    /\ w.app.screen = "history" =>
        /\ w.app.returnTo \in {"mode-select", "menu", "lobby"}
        /\ \A i \in Slots : w.calls[i].kind \notin formKinds \ {"logout"}
        /\ "expired" \in {w.history.listStatus, w.history.detailStatus} =>
            whose(sv, w.cookie) = NoUser

\* A socket is open on the screens of play, opened while no account was changing.
Plays(w) ==
    /\ w.app.screen \in {"intro", "account"} => w.app.socket = noSocket
    /\ w.app.socket # noSocket /\ ~w.app.overtaken =>
        /\ \A i \in Slots : w.calls[i].kind \notin authKinds \ {"logout", "devices", "mail"}
        /\ w.session.doubt = {} => w.app.socket = w.session.account.user

Signed(w, sv) ==
    /\ SessionsMade(w, sv) /\ AnswersTrue(w, sv) /\ OneAtATime(w) /\ Early(w)
    /\ Truthful(w, sv) /\ AtHistory(w, sv) /\ Plays(w)

-----------------------------------------------------------------------------

(* What the lists show.                                                      *)

\* A call whose answer still counts.
waiting(c, kinds) == c.kind \in kinds /\ c.current /\ c.alive

served(c, kinds) == c.kind \in kinds /\ c.answer.status = "ok"

\* A page of rows: newest first, below its cursor, none left out down to the next.
PageRead(c) ==
    LET a == c.answer
        R == Range(a.rows)
    IN  /\ descending(a.rows)
        /\ \A m \in R : a.next <= m /\ m < c.arg.cursor
        /\ a.next = NoMore \/ a.next < c.arg.cursor
        /\ \A m \in a.seen : a.next <= m /\ m < c.arg.cursor => m \in R
        /\ R \subseteq a.seen

\* The rows from the newest to the cursor.
Joined(rows, next) == descending(rows) /\ \A m \in Range(rows) : next <= m

listOf(h) ==
    /\ Joined(h.matches, h.next) /\ h.shown = h.filter
    /\ h.filter = "all" => noGap(h.matches, h.next, h.since)

\* What a call of the history has read stays true of the database,
ShelfRead(c, sv) ==
    /\ c.kind \in listKinds => c.arg.filter \in Filters
    /\ served(c, listKinds) =>
        /\ PageRead(c) /\ c.answer.seen \subseteq sv.rows["matches"]
        /\ c.answer.starred \subseteq Range(c.answer.rows)
    /\ served(c, {"list", "more", "detail"}) =>
        c.sid # NoSid /\ c.answer.user = sv.owner[c.sid] /\ c.answer.user \in Users

\* and the one whose answer counts is the one that the screen waits for.
ShelfDue(c, h) ==
    /\ waiting(c, listKinds) => c.arg.filter = h.filter
    /\ waiting(c, {"list"}) =>
        /\ c.arg.cursor = FromNewest /\ h.selected = NoMatch
        /\ h.listStatus # "ready" /\ ~h.loadingMore
    /\ waiting(c, {"more"}) =>
        /\ c.arg.cursor = h.next /\ h.next # NoMore /\ listOf(h) /\ h.listStatus # "loading"
        /\ c.arg.filter = "all" /\ served(c, {"more"}) => h.since \subseteq c.answer.seen
    /\ waiting(c, {"detail"}) => c.arg.match = h.selected /\ h.selected # NoMatch

\* At most one call of these kinds has an answer that counts.
Sole(w, kinds) ==
    \A i, j \in Slots : waiting(w.calls[i], kinds) /\ waiting(w.calls[j], kinds) => i = j

HistoryCalls(w, sv) ==
    /\ Sole(w, listKinds) /\ Sole(w, {"detail"})
    /\ \A i \in Slots : ShelfRead(w.calls[i], sv) /\ ShelfDue(w.calls[i], w.history)

HistoryRows(w, sv) ==
    LET h == w.history
    IN  /\ h.starred \subseteq Range(h.matches)
        /\ h.since \subseteq sv.rows["matches"]
        /\ h.listStatus = "ready" => listOf(h)
        /\ h.detail # NoMatch => h.detail = h.selected
        /\ h.detailStatus = "ready" => h.detail # NoMatch
        /\ h.selected = h.wanted
        /\ h.selected # NoMatch => h.next <= h.selected
        /\ h.listStatus = "ready" \/ h.matches # <<>> \/ h.selected # NoMatch =>
            h.owner = sv.owner[w.cookie] /\ w.cookie # NoSid
        /\ h.listStatus = "loading" => \E i \in Slots : waiting(w.calls[i], {"list"})
        /\ h.loadingMore => \E i \in Slots : waiting(w.calls[i], {"more"})
        /\ h.detailStatus = "loading" => \E i \in Slots : waiting(w.calls[i], {"detail"})

\* A star is the server's unless it is in doubt or being saved; what is read, and what was
\* there before a save, is true unless another save came after it.
Stars(w, sv) ==
    LET h == w.history
        stars == sv.starred[sv.owner[w.cookie]]
        sure(m) == m \notin h.pending \cup h.doubt
    IN  /\ \A m \in Range(h.matches) : sure(m) => (m \in h.starred <=> m \in stars)
        /\ h.detail # NoMatch /\ sure(h.detail) => (h.detailStarred <=> h.detail \in stars)
        /\ \A i \in Slots :
            LET c == w.calls[i]
                m == c.arg.match
            IN  c.kind = "star" /\ c.alive =>
                /\ m \in h.pending /\ w.cookie # NoSid
                /\ m \notin h.doubt =>
                    /\ c.answer.status = "ok" => (m \in stars <=> c.arg.flag)
                    /\ c.answer.status # "ok" /\ ~c.lost => (m \in stars <=> ~c.arg.flag)
        /\ \A i, j \in Slots :
            /\ w.calls[i].kind = "star" /\ w.calls[i].alive
            /\ w.calls[j].kind = "star" /\ w.calls[j].alive
            /\ w.calls[i].arg.match = w.calls[j].arg.match
            => i = j

\* The bookmarks in an answer are the server's, but for those saved after they were read.
StarRead(c, sv) ==
    LET stars == sv.starred[c.answer.user]
    IN  /\ served(c, listKinds) =>
            \A m \in Range(c.answer.rows) \ c.overtaken : m \in c.answer.starred <=> m \in stars
        /\ served(c, {"detail"}) /\ c.arg.match \notin c.overtaken =>
            (c.arg.match \in c.answer.starred <=> c.arg.match \in stars)
        /\ c.kind = "star" =>
            c.arg.match # NoMatch /\ c.answer.sid = NoSid /\ (c.lost => c.answer.status = "failed")

StarsRead(w, sv) == \A i \in Slots : StarRead(w.calls[i], sv)

Shelved(w, sv) ==
    /\ HistoryCalls(w, sv) /\ StarsRead(w, sv)
    /\ w.app.screen = "history" => HistoryRows(w, sv) /\ Stars(w, sv)

-----------------------------------------------------------------------------

(* What the administrators' lists show.                                      *)

rowsFor(filter, rows) == IF filter = "named" THEN rows \cap Named ELSE rows

PanelRead(c, sv) ==
    /\ c.kind \in rowKinds => c.arg.tab \in listTabs /\ c.arg.filter \in Queries
    /\ served(c, rowKinds) =>
        PageRead(c) /\ c.answer.seen \subseteq rowsFor(c.arg.filter, sv.rows[c.arg.tab])

PanelDue(c, a) ==
    /\ waiting(c, rowKinds) =>
        /\ c.arg.tab = a.tab /\ c.arg.filter = a.query /\ a.loading
        /\ ~c.arg.flag => c.arg.cursor = FromNewest
        /\ c.arg.flag =>
            /\ c.arg.cursor = a.cursor /\ a.cursor # NoMore
            /\ served(c, rowKinds) /\ ~a.mixed /\ c.arg.filter = a.shown =>
                a.since \subseteq c.answer.seen
    /\ waiting(c, inspectKinds) => c.arg.match = a.selected

PanelCalls(w, sv) ==
    /\ Sole(w, rowKinds) /\ Sole(w, inspectKinds)
    /\ \A i \in Slots :
        /\ w.calls[i].kind \in adminKinds /\ w.calls[i].alive => w.app.adminOpen
        /\ PanelRead(w.calls[i], sv) /\ PanelDue(w.calls[i], w.admin)

PanelRows(w, sv) ==
    LET a == w.admin
    IN  /\ a.mixed \/ ( /\ Joined(a.items, a.cursor) /\ noGap(a.items, a.cursor, a.since)
                        /\ a.shown = "named" => Range(a.items) \subseteq Named
                        /\ a.tab \in listTabs => a.since \subseteq rowsFor(a.shown, sv.rows[a.tab])
                        /\ a.tab \notin listTabs => a.since = {} )
        /\ a.tab \in listTabs /\ ~a.loading /\ ~a.error => a.shown = a.query
        /\ a.detail # NoMatch => a.detail = a.selected
        /\ a.selected = a.wanted
        /\ a.tab \in listTabs /\ a.loading => \E i \in Slots : waiting(w.calls[i], rowKinds)
        /\ a.detailLoading => \E i \in Slots : waiting(w.calls[i], inspectKinds)

Listed(w, sv) == PanelCalls(w, sv) /\ (w.app.adminOpen => PanelRows(w, sv))

Sound(w, sv) ==
    /\ w \in Page /\ sv \in Server
    /\ Signed(w, sv) /\ Shelved(w, sv) /\ Listed(w, sv)

AccountSound == Sound(page, server)

-----------------------------------------------------------------------------

(* A page of rows.                                                           *)

\* A set of naturals that is not empty has a first element.
LEMMA FirstOf ==
    ASSUME NEW U \in SUBSET Nat, U # {}
    PROVE  \E i \in U : \A k \in U : i <= k
<1> DEFINE R == OpToRel(<, Nat)
<1>1. IsWellFoundedOn(R, Nat)
  BY Zenon, NatLessThanWellFounded
<1>2. \A x, y \in Nat : <<y, x>> \in R <=> y < x
  BY DEF OpToRel
<1> HIDE DEF R
<1>3. PICK i \in U : \A y \in U : ~(<<y, i>> \in R)
  BY <1>1, WFMin
<1>4. ASSUME NEW k \in U PROVE i <= k
  <2>1. ~(k < i) /\ i \in Nat /\ k \in Nat
    BY <1>2, <1>3
  <2> QED BY <2>1
<1> QED BY <1>4

LEMMA Bounds ==
    /\ MaxMatches \in Nat \ {0} /\ PageSize \in Nat \ {0} /\ MaxCalls \in Nat \ {0}
    /\ MaxSids \in Nat \ {0, 1} /\ Admins \subseteq Users /\ NoUser \notin Users
<1>1. {MaxMatches, PageSize, MaxCalls} \subseteq Nat \ {0}
  BY CallsAssumption
<1>2. MaxMatches \in Nat \ {0} /\ PageSize \in Nat \ {0} /\ MaxCalls \in Nat \ {0}
  BY <1>1
<1> QED BY <1>2, CallsAssumption DEF NoUser

\* Any matches can be put in order, the newest first.
LEMMA NewestFirst ==
    ASSUME NEW S \in SUBSET Matches
    PROVE  \E q \in SetToSeqs(S) : descending(q)
<1> DEFINE ordered(T) == \E q \in SetToSeqs(T) : descending(q)
           bad == {Cardinality(T) : T \in {V \in SUBSET Matches : ~ordered(V)}}
<1>1. \A T \in SUBSET Matches : IsFiniteSet(T) /\ Cardinality(T) \in Nat /\ T \subseteq Nat
  <2>1. IsFiniteSet(Matches) /\ Matches \subseteq Nat
    BY Bounds, FS_Interval DEF Matches
  <2> QED BY <2>1, FS_Subset, FS_CardinalityType
<1>2. SUFFICES ASSUME ~ordered(S) PROVE FALSE
  OBVIOUS
<1>3. bad \in SUBSET Nat /\ bad # {}
  BY <1>1, <1>2
<1>4. PICK T \in SUBSET Matches :
        ~ordered(T) /\ \A V \in SUBSET Matches : ~ordered(V) => Cardinality(T) <= Cardinality(V)
  <2>1. PICK n \in bad : \A k \in bad : n <= k
    BY <1>3, FirstOf
  <2> QED BY <2>1
<1>5. T # {}
  <2>1. ASSUME T = {} PROVE FALSE
    <3>1. Cardinality(T) = 0
      BY <2>1, FS_EmptySet
    <3> DEFINE e == [x \in 1 .. 0 |-> 0]
    <3>2. e \in SetToSeqs(T) /\ descending(e)
      BY <2>1, <3>1 DEF SetToSeqs, descending
    <3> QED BY <1>4, <3>2
  <2> QED BY <2>1
<1>6. PICK m \in T : \A n \in T : m <= n
  BY <1>1, <1>5, FirstOf
<1> DEFINE V == T \ {m}
           N == Cardinality(V)
<1>7. /\ V \in SUBSET Matches /\ N \in Nat /\ Cardinality(T) = N + 1
      /\ T \subseteq Nat /\ V \subseteq T /\ m \in T /\ V = T \ {m} /\ N = Cardinality(V)
  BY <1>1, FS_RemoveElement
<1>8. PICK q \in SetToSeqs(V) : descending(q)
  BY <1>4, <1>7
<1>9. q \in [1 .. N -> V] /\ \A i, j \in 1 .. N : i # j => q[i] # q[j]
  BY <1>8 DEF SetToSeqs
<1> HIDE DEF V, N
<1> DEFINE p == [i \in 1 .. N + 1 |-> IF i = N + 1 THEN m ELSE q[i]]
<1>10. \A i \in 1 .. N + 1 : i \in 1 .. N \/ i = N + 1
  BY <1>7
<1>11. \A i \in 1 .. N : i \in 1 .. N + 1 /\ i # N + 1 /\ q[i] \in V
  <2>1. N \in Nat
    BY <1>7
  <2>2. \A i \in 1 .. N : i \in 1 .. N + 1 /\ i # N + 1
    BY <2>1
  <2>3. \A i \in 1 .. N : q[i] \in V
    BY <1>9
  <2> QED BY <2>2, <2>3
<1>12. N + 1 \in 1 .. N + 1
  BY <1>7
<1>13. /\ p \in [1 .. N + 1 -> T] /\ p[N + 1] = m
       /\ \A i \in 1 .. N : p[i] = q[i]
  BY <1>7, <1>10, <1>11, <1>12
<1> HIDE DEF p
<1>14. \A i, j \in 1 .. N + 1 : i # j => p[i] # p[j]
  <2> SUFFICES ASSUME NEW i \in 1 .. N + 1, NEW j \in 1 .. N + 1, i # j PROVE p[i] # p[j]
    OBVIOUS
  <2>1. CASE i \in 1 .. N /\ j \in 1 .. N
    BY <1>9, <1>13, <2>1
  <2>2. CASE i = N + 1 /\ j \in 1 .. N
    BY <1>7, <1>11, <1>13, <2>2
  <2>3. CASE j = N + 1 /\ i \in 1 .. N
    BY <1>7, <1>11, <1>13, <2>3
  <2> QED BY <1>10, <2>1, <2>2, <2>3
<1>15. \A v \in V : v > m
  BY <1>6, <1>7
<1>16. descending(p)
  <2> SUFFICES ASSUME NEW i \in 1 .. N + 1, NEW j \in 1 .. N + 1, i < j PROVE p[i] > p[j]
    BY <1>13 DEF descending
  <2>1. i \in 1 .. N
    BY <1>7
  <2>2. CASE j = N + 1
    BY <1>11, <1>13, <1>15, <2>1, <2>2
  <2>3. CASE j \in 1 .. N
    BY <1>8, <1>9, <1>13, <2>1, <2>3 DEF descending
  <2> QED BY <1>10, <2>2, <2>3
<1>17. p \in SetToSeqs(T)
  BY <1>7, <1>13, <1>14 DEF SetToSeqs
<1> QED BY <1>4, <1>16, <1>17

\* A page of rows is the newest of the rows below the cursor, and its own cursor is the
\* last of them, or that there are no more.
LEMMA PageOf ==
    ASSUME NEW rows \in SUBSET Matches, NEW cursor \in Nat
    PROVE  LET p == pageOf(rows, cursor)
           IN  /\ p.rows \in Seq(Matches) /\ p.next \in MatchesOrNone
               /\ descending(p.rows) /\ Range(p.rows) \subseteq rows
               /\ \A m \in Range(p.rows) : p.next <= m /\ m < cursor
               /\ p.next = NoMore \/ p.next < cursor
               /\ \A m \in rows : p.next <= m /\ m < cursor => m \in Range(p.rows)
<1> DEFINE S == {m \in rows : m < cursor}
           n == Cardinality(S)
           q == CHOOSE f \in SetToSeqs(S) : descending(f)
           p == pageOf(rows, cursor)
<1>1. S \in SUBSET Matches /\ Matches \subseteq Nat /\ PageSize \in Nat \ {0}
  <2>1. S \in SUBSET Matches
    OBVIOUS
  <2>2. Matches \subseteq Nat
    BY Bounds DEF Matches
  <2> QED BY <2>1, <2>2, Bounds
<1>2. IsFiniteSet(S) /\ n \in Nat
  <2>1. IsFiniteSet(Matches)
    BY Bounds, FS_Interval DEF Matches
  <2> QED BY <1>1, <2>1, FS_Subset, FS_CardinalityType
<1>3. q \in SetToSeqs(S) /\ descending(q)
  BY <1>1, NewestFirst
<1>4. p = IF Len(q) > PageSize THEN [rows |-> SubSeq(q, 1, PageSize), next |-> q[PageSize]]
          ELSE [rows |-> q, next |-> NoMore]
  BY DEF pageOf
<1>5. \A m \in S : m \in rows /\ m < cursor
  OBVIOUS
<1>6. \A m \in rows : m < cursor => m \in S
  OBVIOUS
<1> HIDE DEF S, q, p
<1>7. q \in [1 .. n -> S] /\ \A i, j \in 1 .. n : i # j => q[i] # q[j]
  BY <1>3 DEF SetToSeqs
<1> HIDE DEF n
<1>8. Range(q) = S /\ Len(q) = n /\ q \in Seq(S)
  <2>1. Cardinality(1 .. n) = n /\ IsFiniteSet(1 .. n) /\ Cardinality(S) = n
    BY <1>2, FS_Interval DEF n
  <2>2. q \in Injection(1 .. n, S)
    BY <1>7, Fun_IsInj
  <2>3. q \in Surjection(1 .. n, S)
    BY <1>2, <2>1, <2>2, FS_Injection
  <2>4. Range(q) = S
    BY <2>3, Fun_SurjectionProperties
  <2> QED BY <1>2, <1>7, <2>4
<1>9. CASE n <= PageSize
  <2>1. p = [rows |-> q, next |-> NoMore]
    BY <1>1, <1>2, <1>4, <1>8, <1>9
  <2> DEFINE r == p.rows
  <2>2. r = q /\ p.next = 0
    BY <2>1 DEF NoMore
  <2> HIDE DEF r
  <2>3. q \in Seq(Matches)
    <3>1. q \in [1 .. n -> Matches]
      BY <1>1, <1>7
    <3> QED BY <1>2, <3>1
  <2>4. 0 \in MatchesOrNone
    BY Bounds DEF MatchesOrNone
  <2>5. \A m \in Range(r) : m \in S /\ m \in Nat
    BY <1>1, <1>8, <2>2
  <2>6. \A m \in rows : m < cursor => m \in Range(r)
    BY <1>6, <1>8, <2>2
  <2> QED BY <1>3, <1>5, <2>2, <2>3, <2>4, <2>5, <2>6 DEF r, p, NoMore
<1>10. CASE n > PageSize
  <2> DEFINE r == SubSeq(q, 1, PageSize)
             last == q[PageSize]
  <2>1. p = [rows |-> r, next |-> last]
    BY <1>1, <1>2, <1>4, <1>8, <1>10
  <2>2. PageSize \in 1 .. n /\ 1 .. PageSize \subseteq 1 .. n
    BY <1>1, <1>2, <1>10
  <2>3. /\ r \in [1 .. PageSize -> S] /\ DOMAIN r = 1 .. PageSize
        /\ \A i \in 1 .. PageSize : r[i] = q[i] /\ q[i] \in S
    <3>1. r = [i \in 1 .. PageSize |-> q[i]]
      BY <1>1, <1>8
    <3>2. \A i \in 1 .. PageSize : q[i] \in S
      BY <1>7, <2>2
    <3> HIDE DEF r
    <3> QED BY <3>1, <3>2
  <2> HIDE DEF r
  <2>4. last \in S /\ last \in Nat /\ last \in MatchesOrNone /\ last \in Matches
    <3>1. last \in S
      BY <1>7, <2>2
    <3> HIDE DEF last
    <3>2. last \in Matches
      BY <1>1, <3>1
    <3> QED BY <3>1, <3>2, Bounds DEF MatchesOrNone, Matches
  <2>5. descending(r)
    BY <1>3, <1>7, <2>2, <2>3 DEF descending
  <2>6. Range(r) \subseteq S
    BY <2>3 DEF Range
  <2>7. ASSUME NEW m \in Range(r) PROVE last <= m
    <3>1. PICK i \in 1 .. PageSize : m = q[i]
      BY <2>3, <2>7 DEF Range
    <3>2. i \in 1 .. n /\ m \in Nat /\ i \in Nat
      BY <1>1, <1>7, <2>2, <3>1
    <3>3. CASE i < PageSize
      BY <1>3, <1>7, <2>2, <2>4, <3>1, <3>2, <3>3 DEF descending
    <3>4. CASE i = PageSize
      BY <2>4, <3>1, <3>4
    <3> QED BY <1>1, <3>1, <3>2, <3>3, <3>4
  <2>8. ASSUME NEW m \in S, last <= m PROVE m \in Range(r)
    <3>1. PICK i \in 1 .. n : m = q[i]
      BY <1>7, <1>8 DEF Range
    <3>2. i \in Nat /\ m \in Nat
      BY <1>1, <1>2
    <3>3. ~(PageSize < i)
      BY <1>3, <1>7, <2>2, <2>4, <2>8, <3>1, <3>2 DEF descending
    <3>4. i \in 1 .. PageSize
      BY <1>1, <3>2, <3>3
    <3> QED BY <2>3, <3>1, <3>4 DEF Range
  <2>9. r \in Seq(Matches)
    <3>1. r \in [1 .. PageSize -> Matches] /\ PageSize \in Nat
      BY <1>1, <2>3
    <3> QED BY <3>1
  <2> HIDE DEF last
  <2>10. p.rows = r /\ p.next = last
    BY <2>1
  <2> HIDE DEF p
  <2> QED BY <1>5, <1>6, <2>4, <2>5, <2>6, <2>7, <2>8, <2>9, <2>10 DEF p
<1> QED BY <1>1, <1>2, <1>9, <1>10

-----------------------------------------------------------------------------

(* The parts of a page and the slots of its calls.                           *)

LEMMA PageParts ==
    ASSUME NEW w \in Page
    PROVE  /\ w.app \in App /\ w.session \in Session /\ w.history \in Shelf
           /\ w.admin \in Board /\ w.calls \in [Slots -> Call] /\ w.cookie \in SidsOrNone
BY DEF Page

\* A page but for one of its parts.
LEMMA WithApp ==
    ASSUME NEW w \in Page, NEW x \in App
    PROVE  LET v == [w EXCEPT !.app = x]
           IN  /\ v \in Page /\ v.app = x /\ v.session = w.session /\ v.history = w.history
               /\ v.admin = w.admin /\ v.calls = w.calls /\ v.cookie = w.cookie
BY DEF Page

LEMMA WithSession ==
    ASSUME NEW w \in Page, NEW x \in Session
    PROVE  LET v == [w EXCEPT !.session = x]
           IN  /\ v \in Page /\ v.app = w.app /\ v.session = x /\ v.history = w.history
               /\ v.admin = w.admin /\ v.calls = w.calls /\ v.cookie = w.cookie
BY DEF Page

LEMMA WithHistory ==
    ASSUME NEW w \in Page, NEW x \in Shelf
    PROVE  LET v == [w EXCEPT !.history = x]
           IN  /\ v \in Page /\ v.app = w.app /\ v.session = w.session /\ v.history = x
               /\ v.admin = w.admin /\ v.calls = w.calls /\ v.cookie = w.cookie
BY DEF Page

LEMMA WithAdmin ==
    ASSUME NEW w \in Page, NEW x \in Board
    PROVE  LET v == [w EXCEPT !.admin = x]
           IN  /\ v \in Page /\ v.app = w.app /\ v.session = w.session /\ v.history = w.history
               /\ v.admin = x /\ v.calls = w.calls /\ v.cookie = w.cookie
BY DEF Page

LEMMA WithCalls ==
    ASSUME NEW w \in Page, NEW x \in [Slots -> Call]
    PROVE  LET v == [w EXCEPT !.calls = x]
           IN  /\ v \in Page /\ v.app = w.app /\ v.session = w.session /\ v.history = w.history
               /\ v.admin = w.admin /\ v.calls = x /\ v.cookie = w.cookie
BY DEF Page

LEMMA WithCookie ==
    ASSUME NEW w \in Page, NEW x \in SidsOrNone
    PROVE  LET v == [w EXCEPT !.cookie = x]
           IN  /\ v \in Page /\ v.app = w.app /\ v.session = w.session /\ v.history = w.history
               /\ v.admin = w.admin /\ v.calls = w.calls /\ v.cookie = x
BY DEF Page

LEMMA NoCallTypes ==
    /\ noAnswer \in Reply /\ noArg \in Arg /\ noCall \in Call
    /\ noAnswer.status = "none" /\ noCall.kind = "none" /\ noCall.sid = NoSid
    /\ noCall.answer = noAnswer /\ noArg.cursor = FromNewest /\ noArg.match = NoMatch
    /\ ~noCall.current /\ ~noCall.alive /\ ~noCall.lost
<1>1. /\ 0 \in SidsOrNone /\ 0 \in MatchesOrNone /\ FromNewest \in 0 .. FromNewest
      /\ NoUser \in People
  BY Bounds DEF SidsOrNone, MatchesOrNone, FromNewest, People
<1>2. <<>> \in Seq(Matches)
  OBVIOUS
<1>3. noAnswer \in Reply
  BY <1>1, <1>2 DEF noAnswer, Reply, NoSid, NoMore
<1>4. noArg \in Arg
  BY <1>1 DEF noArg, Arg, NoSid, NoMatch, Tabs, listTabs, Filters
<1>5. NoSid \in SidsOrNone /\ "none" \in Kinds
  BY <1>1 DEF NoSid, Kinds
<1>6. noCall \in Call
  BY <1>3, <1>4, <1>5 DEF noCall, Call
<1> QED BY <1>3, <1>4, <1>6 DEF noAnswer, noCall, noArg

\* What every call starts as.
freshCall(cookie, kind, arg) ==
    [noCall EXCEPT !.kind = kind, !.sid = cookie, !.arg = arg, !.current = TRUE, !.alive = TRUE]

LEMMA FreshCall ==
    ASSUME NEW cookie \in SidsOrNone, NEW kind \in Kinds, NEW arg \in Arg
    PROVE  LET c == freshCall(cookie, kind, arg)
           IN  /\ c \in Call /\ c.kind = kind /\ c.sid = cookie /\ c.arg = arg
               /\ c.answer = noAnswer /\ c.answer.status = "none" /\ c.answer.sid = NoSid
               /\ c.current /\ c.alive /\ ~c.lost /\ c.overtaken = {}
<1>1. /\ noCall \in Call /\ noCall.answer = noAnswer /\ ~noCall.lost /\ noCall.overtaken = {}
      /\ noAnswer.status = "none" /\ noAnswer.sid = NoSid
  BY NoCallTypes DEF noCall, noAnswer
<1> HIDE DEF noCall
<1>2. freshCall(cookie, kind, arg) \in Call
  BY <1>1 DEF freshCall, Call
<1> QED BY <1>1, <1>2 DEF freshCall, Call

\* A call that is sent takes a free slot.
Vacant(w) == \E i \in Slots : w.calls[i].kind = "none"

LEMMA CallSent ==
    ASSUME NEW w \in Page, Vacant(w), NEW kind \in Kinds, NEW arg \in Arg
    PROVE  LET v == called(w, kind, arg)
               c == freshCall(w.cookie, kind, arg)
           IN  /\ c \in Call /\ v \in Page
               /\ v.app = w.app /\ v.session = w.session /\ v.history = w.history
               /\ v.admin = w.admin /\ v.cookie = w.cookie
               /\ \E i \in Slots :
                    w.calls[i].kind = "none" /\ v.calls = [w.calls EXCEPT ![i] = c]
<1> DEFINE free(i) == w.calls[i].kind = "none"
           first(i) == free(i) /\ \A j \in 1 .. i - 1 : ~free(j)
           slot == CHOOSE i \in Slots : first(i)
           c == freshCall(w.cookie, kind, arg)
           k == [w.calls EXCEPT ![slot] = c]
<1>1. Slots \subseteq Nat /\ \A i \in Slots : \A j \in 1 .. i - 1 : j \in Slots /\ j < i
  BY Bounds DEF Slots
<1>2. \E i \in Slots : first(i)
  <2> DEFINE U == {i \in Slots : free(i)}
  <2>1. U \in SUBSET Nat /\ U # {}
    BY <1>1 DEF Vacant
  <2>2. PICK i \in U : \A j \in U : i <= j
    BY <2>1, FirstOf
  <2>3. ASSUME NEW j \in 1 .. i - 1 PROVE ~free(j)
    <3>1. j \in Slots /\ j < i /\ i \in Nat /\ j \in Nat
      BY <1>1
    <3> QED BY <2>2, <3>1
  <2> QED BY <2>3
<1>3. slot \in Slots /\ free(slot)
  BY <1>2
<1>4. c \in Call
  BY FreshCall, PageParts
<1> HIDE DEF c
<1>5. called(w, kind, arg) = [w EXCEPT !.calls[slot] = c]
  BY DEF called, c, freshCall
<1> HIDE DEF slot
<1>6. k \in [Slots -> Call] /\ [w EXCEPT !.calls[slot] = c] = [w EXCEPT !.calls = k]
  BY <1>3, <1>4, PageParts
<1> HIDE DEF k
<1>7. called(w, kind, arg) = [w EXCEPT !.calls = k]
  BY <1>5, <1>6
<1>8. /\ called(w, kind, arg) \in Page
      /\ called(w, kind, arg).app = w.app /\ called(w, kind, arg).session = w.session
      /\ called(w, kind, arg).history = w.history /\ called(w, kind, arg).admin = w.admin
      /\ called(w, kind, arg).cookie = w.cookie /\ called(w, kind, arg).calls = k
  BY <1>6, <1>7, WithCalls
<1> QED BY <1>3, <1>4, <1>8 DEF k, c

\* A call whose answer may count less than it did.
Faded(d, c) ==
    /\ d.kind = c.kind /\ d.sid = c.sid /\ d.arg = c.arg /\ d.answer = c.answer
    /\ d.lost = c.lost /\ d.overtaken = c.overtaken
    /\ (d.current => c.current) /\ (d.alive => c.alive)

Beside(v, w) ==
    /\ v.app = w.app /\ v.session = w.session /\ v.history = w.history
    /\ v.admin = w.admin /\ v.cookie = w.cookie

LEMMA Superseded ==
    ASSUME NEW w \in Page, NEW kinds
    PROVE  LET v == superseded(w, kinds)
           IN  /\ v \in Page /\ Beside(v, w)
               /\ \A i \in Slots :
                    /\ Faded(v.calls[i], w.calls[i]) /\ v.calls[i].alive = w.calls[i].alive
                    /\ w.calls[i].kind \notin kinds => v.calls[i] = w.calls[i]
                    /\ w.calls[i].kind \in kinds => ~(v.calls[i].current /\ v.calls[i].alive)
<1> DEFINE gone(c) == IF c.kind \in kinds /\ c.alive THEN [c EXCEPT !.current = FALSE] ELSE c
           k == [i \in Slots |-> gone(w.calls[i])]
<1>1. ASSUME NEW c \in Call
      PROVE  /\ gone(c) \in Call /\ Faded(gone(c), c) /\ gone(c).alive = c.alive
             /\ c.kind \notin kinds => gone(c) = c
             /\ c.kind \in kinds => ~(gone(c).current /\ gone(c).alive)
  BY DEF Call, Faded
<1>2. superseded(w, kinds) = [w EXCEPT !.calls = k]
  BY DEF superseded
<1> HIDE DEF gone
<1>3. k \in [Slots -> Call] /\ \A i \in Slots : k[i] = gone(w.calls[i])
  BY <1>1, PageParts
<1> HIDE DEF k
<1>4. w.calls \in [Slots -> Call]
  BY PageParts
<1> QED BY <1>1, <1>2, <1>3, <1>4, WithCalls DEF Beside

LEMMA Unmounted ==
    ASSUME NEW w \in Page, NEW kinds, NEW guarded
    PROVE  LET v == unmounted(w, kinds, guarded)
           IN  /\ v \in Page /\ Beside(v, w)
               /\ \A i \in Slots :
                    /\ Faded(v.calls[i], w.calls[i])
                    /\ w.calls[i].kind \notin kinds => v.calls[i] = w.calls[i]
                    /\ w.calls[i].kind \in kinds =>
                        /\ ~v.calls[i].alive
                        /\ v.calls[i].current =>
                            w.calls[i].current /\ w.calls[i].kind \notin guarded
<1> DEFINE gone(c) == IF c.kind \in kinds
                      THEN [c EXCEPT !.alive = FALSE, !.current = @ /\ c.kind \notin guarded]
                      ELSE c
           k == [i \in Slots |-> gone(w.calls[i])]
<1>1. ASSUME NEW c \in Call
      PROVE  /\ gone(c) \in Call /\ Faded(gone(c), c)
             /\ c.kind \notin kinds => gone(c) = c
             /\ c.kind \in kinds =>
                    /\ ~gone(c).alive
                    /\ gone(c).current => c.current /\ c.kind \notin guarded
  BY DEF Call, Faded
<1>2. unmounted(w, kinds, guarded) = [w EXCEPT !.calls = k]
  BY DEF unmounted
<1> HIDE DEF gone
<1>3. k \in [Slots -> Call] /\ \A i \in Slots : k[i] = gone(w.calls[i])
  BY <1>1, PageParts
<1> HIDE DEF k
<1>4. w.calls \in [Slots -> Call]
  BY PageParts
<1> QED BY <1>1, <1>2, <1>3, <1>4, WithCalls DEF Beside

\* A slot whose answer has been taken, and one whose call has its answer.
LEMMA CallSet ==
    ASSUME NEW w \in Page, NEW n \in Slots, NEW c \in Call
    PROVE  LET v == [w EXCEPT !.calls[n] = c]
           IN  /\ v \in Page /\ Beside(v, w) /\ v.calls[n] = c
               /\ \A i \in Slots \ {n} : v.calls[i] = w.calls[i]
<1> DEFINE k == [w.calls EXCEPT ![n] = c]
           v == [w EXCEPT !.calls[n] = c]
<1>1. w.calls \in [Slots -> Call]
  BY PageParts
<1>2. v = [w EXCEPT !.calls = k]
  OBVIOUS
<1>3. k \in [Slots -> Call] /\ k[n] = c /\ \A i \in Slots \ {n} : k[i] = w.calls[i]
  BY <1>1
<1> HIDE DEF k, v
<1>4. v \in Page /\ Beside(v, w) /\ v.calls = k
  BY <1>2, <1>3, WithCalls DEF Beside
<1> QED BY <1>3, <1>4 DEF v

-----------------------------------------------------------------------------

(* Steps that leave a part of the page alone.                                *)

\* The history is not on the screen, or as it was.
OffShelf(v) ==
    /\ v.app.screen # "history"
    /\ \A i \in Slots : v.calls[i].kind \in historyKinds => ~v.calls[i].alive

SameShelf(v, w) ==
    /\ v.app.screen = w.app.screen /\ v.app.returnTo = w.app.returnTo
    /\ v.history = w.history /\ v.cookie = w.cookie
    /\ \A i \in Slots :
        v.calls[i].kind \in historyKinds \/ w.calls[i].kind \in historyKinds =>
            v.calls[i] = w.calls[i]

\* What other accounts and new sessions do to the database.
ShelfGrown(t, sv) ==
    /\ t.starred = sv.starred /\ sv.rows["matches"] \subseteq t.rows["matches"]
    /\ \A s \in Sids : s <= sv.made => t.owner[s] = sv.owner[s]

LEMMA SidBounds ==
    ASSUME NEW w \in Page, NEW sv \in Server, SessionsMade(w, sv)
    PROVE  /\ \A i \in Slots : w.calls[i] \in Call /\ w.calls[i].sid \in Nat
           /\ \A i \in Slots : w.calls[i].sid # NoSid =>
                w.calls[i].sid \in Sids /\ w.calls[i].sid <= sv.made
           /\ w.cookie # NoSid => w.cookie \in Sids /\ w.cookie <= sv.made
<1>1. /\ \A i \in Slots : w.calls[i] \in Call /\ w.calls[i].sid \in SidsOrNone
      /\ w.cookie \in SidsOrNone
  BY PageParts DEF Call
<1>2. \A s \in SidsOrNone : s \in Nat /\ (s # NoSid => s \in Sids)
  BY Bounds DEF SidsOrNone, Sids, NoSid
<1> QED BY <1>1, <1>2 DEF SessionsMade

\* A call of another kind has read nothing of the history.
LEMMA ShelfCallsOnly ==
    ASSUME NEW c, c.kind \notin historyKinds, NEW sv, NEW h
    PROVE  ShelfRead(c, sv) /\ ShelfDue(c, h) /\ StarRead(c, sv)
BY DEF ShelfRead, ShelfDue, StarRead, historyKinds, listKinds, served, waiting

LEMMA ShelfReadKept ==
    ASSUME NEW c, NEW d, NEW sv, NEW t, Faded(d, c), ShelfRead(c, sv), StarRead(c, sv),
           t.starred = sv.starred, sv.rows["matches"] \subseteq t.rows["matches"],
           c.sid # NoSid => t.owner[c.sid] = sv.owner[c.sid]
    PROVE  ShelfRead(d, t) /\ StarRead(d, t)
<1>1. PageRead(c) => PageRead(d)
  BY DEF PageRead, Faded
<1>2. ShelfRead(d, t)
  BY <1>1 DEF ShelfRead, Faded, served
<1>3. StarRead(d, t)
  BY DEF StarRead, Faded, served
<1> QED BY <1>2, <1>3

LEMMA ShelfAside ==
    ASSUME NEW w \in Page, NEW v \in Page, NEW sv \in Server, NEW t \in Server,
           SessionsMade(w, sv), Shelved(w, sv), ShelfGrown(t, sv),
           \A i \in Slots : v.calls[i].kind \in historyKinds => Faded(v.calls[i], w.calls[i]),
           OffShelf(v) \/ SameShelf(v, w),
           v.app.screen = "history" => t.owner = sv.owner
    PROVE  Shelved(v, t)
<1>1. \A i \in Slots : w.calls[i].sid # NoSid => t.owner[w.calls[i].sid] = sv.owner[w.calls[i].sid]
  BY SidBounds DEF ShelfGrown
<1>2. \A i \in Slots : ShelfRead(v.calls[i], t) /\ StarRead(v.calls[i], t)
  <2> TAKE i \in Slots
  <2>1. CASE v.calls[i].kind \notin historyKinds
    BY <2>1, ShelfCallsOnly
  <2>2. CASE v.calls[i].kind \in historyKinds
    <3>1. Faded(v.calls[i], w.calls[i])
      BY <2>2
    <3>2. ShelfRead(w.calls[i], sv) /\ StarRead(w.calls[i], sv)
      BY DEF Shelved, HistoryCalls, StarsRead
    <3> QED BY <1>1, <3>1, <3>2, ShelfReadKept DEF ShelfGrown
  <2> QED BY <2>1, <2>2
<1>3. CASE OffShelf(v)
  <2>1. \A i \in Slots : ShelfDue(v.calls[i], v.history)
    BY <1>3 DEF ShelfDue, OffShelf, waiting, historyKinds, listKinds
  <2>2. Sole(v, listKinds) /\ Sole(v, {"detail"})
    BY <1>3 DEF Sole, OffShelf, waiting, historyKinds, listKinds
  <2> QED BY <1>2, <1>3, <2>1, <2>2 DEF Shelved, OffShelf, HistoryCalls, StarsRead
<1>4. CASE SameShelf(v, w)
  <2>1. v.history = w.history /\ v.cookie = w.cookie
    BY <1>4 DEF SameShelf
  <2>2. \A i \in Slots :
          v.calls[i].kind \in historyKinds \/ w.calls[i].kind \in historyKinds =>
              v.calls[i] = w.calls[i]
    BY <1>4 DEF SameShelf
  <2>3. \A i \in Slots : ShelfDue(v.calls[i], v.history)
    <3> TAKE i \in Slots
    <3>1. ShelfDue(w.calls[i], w.history)
      BY DEF Shelved, HistoryCalls
    <3> QED BY <2>1, <2>2, <3>1, ShelfCallsOnly
  <2>4. Sole(v, listKinds) /\ Sole(v, {"detail"})
    <3>1. Sole(w, listKinds) /\ Sole(w, {"detail"})
      BY DEF Shelved, HistoryCalls
    <3> QED BY <2>2, <3>1 DEF Sole, waiting, historyKinds, listKinds
  <2>5. ASSUME v.app.screen = "history" PROVE HistoryRows(v, t) /\ Stars(v, t)
    <3>1. HistoryRows(w, sv) /\ Stars(w, sv) /\ t.owner = sv.owner
      BY <1>4, <2>5 DEF Shelved, SameShelf
    <3>2. \A i \in Slots, kinds \in SUBSET historyKinds :
            waiting(w.calls[i], kinds) => waiting(v.calls[i], kinds)
      BY <2>2 DEF waiting
    <3>3. {"list"} \in SUBSET historyKinds /\ {"more"} \in SUBSET historyKinds
          /\ {"detail"} \in SUBSET historyKinds
      BY DEF historyKinds
    <3>4. HistoryRows(v, t)
      BY <2>1, <3>1, <3>2, <3>3 DEF HistoryRows, ShelfGrown
    <3>5. \A i \in Slots : v.calls[i].kind = "star" => v.calls[i] = w.calls[i]
      BY <2>2 DEF historyKinds
    <3>6. Stars(v, t)
      BY <2>1, <3>1, <3>5 DEF Stars, ShelfGrown
    <3> QED BY <3>4, <3>6
  <2> QED BY <1>2, <2>3, <2>4, <2>5 DEF Shelved, HistoryCalls, StarsRead
<1> QED BY <1>3, <1>4

\* The same of the administrators' dialog.
OffPanel(v) ==
    /\ ~v.app.adminOpen
    /\ \A i \in Slots : v.calls[i].kind \in adminKinds => ~v.calls[i].alive

SamePanel(v, w) ==
    /\ v.app.adminOpen = w.app.adminOpen /\ v.admin = w.admin
    /\ \A i \in Slots :
        v.calls[i].kind \in adminKinds \/ w.calls[i].kind \in adminKinds =>
            v.calls[i] = w.calls[i]

PanelGrown(t, sv) == \A tab \in listTabs : sv.rows[tab] \subseteq t.rows[tab]

LEMMA PanelCallsOnly ==
    ASSUME NEW c, c.kind \notin adminKinds, NEW sv, NEW a
    PROVE  PanelRead(c, sv) /\ PanelDue(c, a)
BY DEF PanelRead, PanelDue, adminKinds, rowKinds, inspectKinds, served, waiting

LEMMA PanelReadKept ==
    ASSUME NEW c, NEW d, NEW sv, NEW t, Faded(d, c), PanelRead(c, sv), PanelGrown(t, sv)
    PROVE  PanelRead(d, t)
<1>1. PageRead(c) => PageRead(d)
  BY DEF PageRead, Faded
<1> QED BY <1>1 DEF PanelRead, Faded, served, PanelGrown, rowsFor

LEMMA PanelAside ==
    ASSUME NEW w \in Page, NEW v \in Page, NEW sv \in Server, NEW t \in Server,
           Listed(w, sv), PanelGrown(t, sv),
           \A i \in Slots : v.calls[i].kind \in adminKinds => Faded(v.calls[i], w.calls[i]),
           OffPanel(v) \/ SamePanel(v, w)
    PROVE  Listed(v, t)
<1>1. \A i \in Slots : PanelRead(v.calls[i], t)
  <2> TAKE i \in Slots
  <2>1. CASE v.calls[i].kind \notin adminKinds
    BY <2>1, PanelCallsOnly
  <2>2. CASE v.calls[i].kind \in adminKinds
    <3>1. Faded(v.calls[i], w.calls[i])
      BY <2>2
    <3>2. PanelRead(w.calls[i], sv)
      BY DEF Listed, PanelCalls
    <3> QED BY <3>1, <3>2, PanelReadKept
  <2> QED BY <2>1, <2>2
<1>2. CASE OffPanel(v)
  <2>1. \A i \in Slots :
            /\ v.calls[i].kind \in adminKinds /\ v.calls[i].alive => v.app.adminOpen
            /\ PanelDue(v.calls[i], v.admin)
    BY <1>2 DEF PanelDue, OffPanel, waiting, adminKinds
  <2>2. Sole(v, rowKinds) /\ Sole(v, inspectKinds)
    BY <1>2 DEF Sole, OffPanel, waiting, adminKinds
  <2> QED BY <1>1, <1>2, <2>1, <2>2 DEF Listed, OffPanel, PanelCalls
<1>3. CASE SamePanel(v, w)
  <2>1. v.admin = w.admin /\ v.app.adminOpen = w.app.adminOpen
    BY <1>3 DEF SamePanel
  <2>2. \A i \in Slots :
          v.calls[i].kind \in adminKinds \/ w.calls[i].kind \in adminKinds =>
              v.calls[i] = w.calls[i]
    BY <1>3 DEF SamePanel
  <2>3. \A i \in Slots :
            /\ v.calls[i].kind \in adminKinds /\ v.calls[i].alive => v.app.adminOpen
            /\ PanelDue(v.calls[i], v.admin)
    <3> TAKE i \in Slots
    <3>1. /\ w.calls[i].kind \in adminKinds /\ w.calls[i].alive => w.app.adminOpen
          /\ PanelDue(w.calls[i], w.admin)
      BY DEF Listed, PanelCalls
    <3> QED BY <2>1, <2>2, <3>1, PanelCallsOnly
  <2>4. Sole(v, rowKinds) /\ Sole(v, inspectKinds)
    <3>1. Sole(w, rowKinds) /\ Sole(w, inspectKinds)
      BY DEF Listed, PanelCalls
    <3> QED BY <2>2, <3>1 DEF Sole, waiting, adminKinds
  <2>5. ASSUME v.app.adminOpen PROVE PanelRows(v, t)
    <3>1. PanelRows(w, sv)
      BY <2>1, <2>5 DEF Listed
    <3>2. \A i \in Slots, kinds \in {rowKinds, inspectKinds} :
            waiting(w.calls[i], kinds) => waiting(v.calls[i], kinds)
      BY <2>2 DEF waiting, adminKinds
    <3>3. \A tab \in listTabs : \A filter :
            rowsFor(filter, sv.rows[tab]) \subseteq rowsFor(filter, t.rows[tab])
      BY DEF rowsFor, PanelGrown
    <3> QED BY <2>1, <3>1, <3>2, <3>3 DEF PanelRows
  <2> QED BY <1>1, <2>3, <2>4, <2>5 DEF Listed, PanelCalls
<1> QED BY <1>2, <1>3

\* A step of the page alone: nothing is sent or answered and no account changes.
Calm(v, w) ==
    /\ v.cookie = w.cookie
    /\ v.session.account = w.session.account /\ v.session.doubt = w.session.doubt
    /\ v.session.acted = w.session.acted /\ v.session.busy = w.session.busy
    /\ v.session.mode = "settings" =>
        w.session.mode = "settings" \/ w.session.account # NoAccount
    /\ \A i \in Slots : Faded(v.calls[i], w.calls[i])
    /\ v.app.adminOpen => w.app.adminOpen
    /\ \/ OffShelf(v)
       \/ /\ v.app.screen = w.app.screen /\ v.app.returnTo = w.app.returnTo
          /\ "expired" \in {v.history.listStatus, v.history.detailStatus} =>
                "expired" \in {w.history.listStatus, w.history.detailStatus}
    /\ \/ v.app.socket = noSocket
       \/ /\ v.app.socket = w.app.socket /\ v.app.overtaken = w.app.overtaken
          /\ v.app.screen \notin {"intro", "account"}

LEMMA AnswersSame ==
    ASSUME NEW w, NEW v, NEW sv, AnswersTrue(w, sv),
           \A i \in Slots :
                /\ v.calls[i].kind = w.calls[i].kind /\ v.calls[i].sid = w.calls[i].sid
                /\ v.calls[i].arg = w.calls[i].arg /\ v.calls[i].answer = w.calls[i].answer
    PROVE  AnswersTrue(v, sv)
<1>1. ASSUME NEW c, NEW d, AnswerTrue(c, sv), d.kind = c.kind, d.sid = c.sid, d.arg = c.arg,
             d.answer = c.answer
      PROVE  AnswerTrue(d, sv)
  <2>1. accountOf(d) = accountOf(c)
    BY <1>1 DEF accountOf
  <2> QED BY <1>1, <2>1 DEF AnswerTrue
<1> QED BY <1>1 DEF AnswersTrue

LEMMA NotAnswered ==
    ASSUME NEW c, NEW sv \in Server, c.answer.status = "none", c.answer.sid = NoSid
    PROVE  AnswerTrue(c, sv)
<1>1. 0 <= sv.made
  BY Bounds DEF Server, SidsOrNone
<1> QED BY <1>1 DEF AnswerTrue, NoSid

LEMMA SignedCalm ==
    ASSUME NEW w \in Page, NEW v \in Page, NEW sv \in Server, Signed(w, sv), Calm(v, w)
    PROVE  Signed(v, sv)
<1>1. \A i \in Slots :
        /\ v.calls[i].kind = w.calls[i].kind /\ v.calls[i].sid = w.calls[i].sid
        /\ v.calls[i].arg = w.calls[i].arg /\ v.calls[i].answer = w.calls[i].answer
        /\ v.calls[i].lost = w.calls[i].lost /\ (v.calls[i].alive => w.calls[i].alive)
  BY DEF Calm, Faded
<1>2. SessionsMade(v, sv)
  BY <1>1 DEF Signed, SessionsMade, Calm
<1>3. AnswersTrue(v, sv)
  BY <1>1, AnswersSame DEF Signed
<1>4. OneAtATime(v)
  BY <1>1 DEF Signed, OneAtATime, Calm
<1>5. Early(v)
  BY <1>1 DEF Signed, Early, Calm, OffShelf
<1>6. Truthful(v, sv)
  <2>1. Truthful(w, sv)
    BY DEF Signed
  <2>2. /\ v.cookie = w.cookie /\ v.session.account = w.session.account
        /\ v.session.doubt = w.session.doubt /\ v.session.acted = w.session.acted
    BY DEF Calm
  <2>3. \A i \in Slots : /\ accountOf(v.calls[i]) = accountOf(w.calls[i])
                         /\ knows(v.calls[i]) = knows(w.calls[i])
                         /\ ended(v.calls[i]) = ended(w.calls[i])
    BY <1>1 DEF accountOf, knows, ended
  <2>4. \A a : Says(a, v, sv) <=> Says(a, w, sv)
    BY <2>2 DEF Says
  <2> QED BY <1>1, <2>1, <2>2, <2>3, <2>4 DEF Truthful
<1>7. AtHistory(v, sv)
  <2>1. AtHistory(w, sv) /\ v.cookie = w.cookie
    BY DEF Signed, Calm
  <2>2. CASE OffShelf(v)
    BY <2>2 DEF AtHistory, OffShelf
  <2>3. CASE ~OffShelf(v)
    BY <1>1, <2>1, <2>3 DEF AtHistory, Calm
  <2> QED BY <2>2, <2>3
<1>8. Plays(v)
  BY <1>1 DEF Signed, Plays, Calm
<1> QED BY <1>2, <1>3, <1>4, <1>5, <1>6, <1>7, <1>8 DEF Signed

\* One that also leaves the lists alone, or takes them off the page.
Moved(v, w) ==
    /\ v \in Page /\ Calm(v, w)
    /\ OffShelf(v) \/ SameShelf(v, w)
    /\ OffPanel(v) \/ SamePanel(v, w)

LEMMA MovedSound ==
    ASSUME NEW w, NEW v, NEW sv, Sound(w, sv), Moved(v, w)
    PROVE  Sound(v, sv)
<1>1. w \in Page /\ v \in Page /\ sv \in Server /\ SessionsMade(w, sv)
  BY DEF Sound, Moved, Signed
<1>2. \A i \in Slots : Faded(v.calls[i], w.calls[i])
  BY DEF Moved, Calm
<1>3. ShelfGrown(sv, sv) /\ PanelGrown(sv, sv)
  BY DEF ShelfGrown, PanelGrown
<1>4. Shelved(v, sv)
  BY <1>1, <1>2, <1>3, ShelfAside DEF Sound, Moved
<1>5. Listed(v, sv)
  BY <1>1, <1>2, <1>3, PanelAside DEF Sound, Moved
<1> QED BY <1>1, <1>4, <1>5, SignedCalm DEF Sound, Moved

-----------------------------------------------------------------------------

(* From screen to screen.                                                    *)

LEMMA ListsOff ==
    ASSUME NEW w, NEW sv, Sound(w, sv)
    PROVE  /\ w.app.screen # "history" => OffShelf(w)
           /\ ~w.app.adminOpen => OffPanel(w)
BY DEF Sound, Signed, AtHistory, Listed, PanelCalls, OffShelf, OffPanel

LEMMA FadedSame == \A c : Faded(c, c)
BY DEF Faded

LEMMA NewListTypes ==
    /\ \A u \in People : newHistory(u) \in Shelf
    /\ \A tab \in Tabs : newPanel(tab) \in Board
    /\ NoUser \in People /\ "stats" \in Tabs
<1>1. 0 \in MatchesOrNone /\ <<>> \in Seq(Matches)
  BY Bounds DEF MatchesOrNone
<1>2. \A u \in People : newHistory(u) \in Shelf
  BY <1>1 DEF newHistory, Shelf, Filters, NoMore, NoMatch
<1>3. \A tab \in Tabs : newPanel(tab) \in Board
  BY <1>1 DEF newPanel, Board, Queries, NoMore, NoMatch
<1> QED BY <1>2, <1>3 DEF People, Tabs

LEMMA HistoryLeft ==
    ASSUME NEW w \in Page
    PROVE  LET v == leavesHistory(w)
           IN  /\ v \in Page /\ v.app = w.app /\ v.session = w.session /\ v.admin = w.admin
               /\ v.cookie = w.cookie /\ v.history = newHistory(NoUser)
               /\ \A i \in Slots :
                    /\ Faded(v.calls[i], w.calls[i])
                    /\ v.calls[i].kind \notin historyKinds => v.calls[i] = w.calls[i]
                    /\ v.calls[i].kind \in historyKinds => ~v.calls[i].alive
<1> DEFINE x == with(w, newHistory(NoUser))
<1>1. x \in Page /\ x.app = w.app /\ x.session = w.session /\ x.admin = w.admin
      /\ x.cookie = w.cookie /\ x.history = newHistory(NoUser) /\ x.calls = w.calls
  BY NewListTypes, WithHistory DEF with
<1>2. leavesHistory(w) = unmounted(x, historyKinds, historyKinds)
  BY DEF leavesHistory
<1> HIDE DEF x
<1>3. \A i \in Slots : Faded(leavesHistory(w).calls[i], w.calls[i])
  BY <1>1, <1>2, Unmounted
<1>4. \A i \in Slots : leavesHistory(w).calls[i].kind = w.calls[i].kind
  BY <1>3 DEF Faded
<1> QED BY <1>1, <1>2, <1>3, <1>4, Unmounted DEF Beside

LEMMA PanelLeft ==
    ASSUME NEW w \in Page
    PROVE  LET v == unmountedPanel(w)
           IN  /\ v \in Page /\ v.app = w.app /\ v.session = w.session
               /\ v.history = w.history
               /\ v.cookie = w.cookie /\ v.admin = newPanel("stats")
               /\ \A i \in Slots :
                    /\ Faded(v.calls[i], w.calls[i])
                    /\ v.calls[i].kind \notin adminKinds => v.calls[i] = w.calls[i]
                    /\ v.calls[i].kind \in adminKinds => ~v.calls[i].alive
<1> DEFINE x == panel(w, newPanel("stats"))
           guarded == {"rows", "inspect", "stats"}
<1>1. x \in Page /\ x.app = w.app /\ x.session = w.session /\ x.history = w.history
      /\ x.cookie = w.cookie /\ x.admin = newPanel("stats") /\ x.calls = w.calls
  BY NewListTypes, WithAdmin DEF panel
<1>2. unmountedPanel(w) = unmounted(x, adminKinds, guarded)
  BY DEF unmountedPanel
<1> HIDE DEF x, guarded
<1>3. \A i \in Slots : Faded(unmountedPanel(w).calls[i], w.calls[i])
  BY <1>1, <1>2, Unmounted
<1>4. \A i \in Slots : unmountedPanel(w).calls[i].kind = w.calls[i].kind
  BY <1>3 DEF Faded
<1> QED BY <1>1, <1>2, <1>3, <1>4, Unmounted DEF Beside

\* The dialog closes: its calls are disowned, and the rest of the page stays.
LEMMA PanelCloses ==
    ASSUME NEW w \in Page
    PROVE  LET v == closesPanel(w)
           IN  /\ v \in Page /\ v.session = w.session /\ v.history = w.history
               /\ v.cookie = w.cookie /\ ~v.app.adminOpen
               /\ v.app.screen = w.app.screen /\ v.app.returnTo = w.app.returnTo
               /\ v.app.socket = w.app.socket /\ v.app.overtaken = w.app.overtaken
               /\ \A i \in Slots :
                    /\ Faded(v.calls[i], w.calls[i])
                    /\ v.calls[i].kind \notin adminKinds => v.calls[i] = w.calls[i]
                    /\ w.app.adminOpen /\ v.calls[i].kind \in adminKinds => ~v.calls[i].alive
               /\ ~w.app.adminOpen => v = w
<1>1. CASE ~w.app.adminOpen
  BY <1>1, FadedSame DEF closesPanel
<1>2. CASE w.app.adminOpen
  <2> DEFINE x == unmountedPanel(w)
             y == [x.app EXCEPT !.adminOpen = FALSE]
  <2>1. x \in Page /\ x.app = w.app /\ x.app \in App
    BY PanelLeft, PageParts
  <2>2. closesPanel(w) = [x EXCEPT !.app = y]
    BY <1>2 DEF closesPanel
  <2>3. y \in App /\ ~y.adminOpen /\ y.screen = w.app.screen /\ y.returnTo = w.app.returnTo
        /\ y.socket = w.app.socket /\ y.overtaken = w.app.overtaken
    BY <2>1 DEF App
  <2> HIDE DEF y
  <2>4. /\ closesPanel(w) \in Page /\ closesPanel(w).app = y
        /\ closesPanel(w).session = x.session /\ closesPanel(w).history = x.history
        /\ closesPanel(w).cookie = x.cookie /\ closesPanel(w).calls = x.calls
    BY <2>1, <2>2, <2>3, WithApp
  <2>5. /\ x.session = w.session /\ x.history = w.history /\ x.cookie = w.cookie
        /\ \A i \in Slots :
            /\ Faded(x.calls[i], w.calls[i])
            /\ x.calls[i].kind \notin adminKinds => x.calls[i] = w.calls[i]
            /\ x.calls[i].kind \in adminKinds => ~x.calls[i].alive
    BY PanelLeft
  <2> HIDE DEF x
  <2> QED BY <1>2, <2>3, <2>4, <2>5
<1> QED BY <1>1, <1>2

\* What a screen that is set changes, field by field.
LEMMA ScreenFields ==
    ASSUME NEW w \in Page, NEW screen \in Screens
    PROVE  LET v == setScreen(w, screen)
           IN  /\ v \in Page /\ v.session = w.session /\ v.cookie = w.cookie
               /\ v.app.screen = screen /\ v.app.returnTo = w.app.returnTo
               /\ v.app.socket = w.app.socket /\ v.app.overtaken = w.app.overtaken
               /\ v.app.adminOpen = (w.app.adminOpen /\ screen # "match")
               /\ \A i \in Slots :
                    /\ Faded(v.calls[i], w.calls[i])
                    /\ v.calls[i].kind \notin historyKinds \cup adminKinds =>
                            v.calls[i] = w.calls[i]
               /\ IF w.app.screen = "history" /\ screen # "history"
                  THEN \A i \in Slots :
                        v.calls[i].kind \in historyKinds => ~v.calls[i].alive
                  ELSE /\ v.history = w.history
                       /\ \A i \in Slots :
                            v.calls[i].kind \in historyKinds => v.calls[i] = w.calls[i]
               /\ IF w.app.adminOpen /\ screen = "match"
                  THEN \A i \in Slots :
                        v.calls[i].kind \in adminKinds => ~v.calls[i].alive
                  ELSE /\ v.admin = w.admin
                       /\ \A i \in Slots :
                            v.calls[i].kind \in adminKinds => v.calls[i] = w.calls[i]
<1> DEFINE leaves == w.app.screen = "history" /\ screen # "history"
           moved == IF leaves THEN leavesHistory(w) ELSE w
           y == [moved.app EXCEPT !.screen = screen]
           shown == [moved EXCEPT !.app = y]
           v == setScreen(w, screen)
<1>0. historyKinds \cap adminKinds = {}
  BY DEF historyKinds, adminKinds, rowKinds, inspectKinds
<1>1. v = IF screen = "match" THEN closesPanel(shown) ELSE shown
  <2>1. moved.app = w.app /\ w.app \in App
    BY HistoryLeft, PageParts
  <2>2. y.screen = screen
    BY <2>1 DEF App
  <2>3. moved \in Page
    BY HistoryLeft
  <2>4. shown.app = y
    <3> HIDE DEF y, moved
    <3> QED BY <2>3 DEF Page
  <2>5. shown.app.screen = screen
    BY <2>2, <2>4
  <2> QED BY <2>5 DEF setScreen, locked
<1>2. /\ moved \in Page /\ moved.app = w.app /\ moved.session = w.session
      /\ moved.cookie = w.cookie /\ moved.admin = w.admin /\ (~leaves => moved.history = w.history)
      /\ \A i \in Slots :
            /\ Faded(moved.calls[i], w.calls[i])
            /\ moved.calls[i].kind \notin historyKinds => moved.calls[i] = w.calls[i]
            /\ leaves /\ moved.calls[i].kind \in historyKinds => ~moved.calls[i].alive
            /\ ~leaves => moved.calls[i] = w.calls[i]
  BY HistoryLeft, FadedSame
<1> HIDE DEF moved
<1>3. y \in App /\ y.adminOpen = w.app.adminOpen /\ y.screen = screen
      /\ y.returnTo = w.app.returnTo
      /\ y.socket = w.app.socket /\ y.overtaken = w.app.overtaken
  <2>1. w.app \in App
    BY PageParts
  <2> QED BY <1>2, <2>1 DEF App
<1> HIDE DEF y
<1>4. /\ shown \in Page /\ shown.app = y /\ shown.session = w.session
      /\ shown.cookie = w.cookie /\ shown.admin = w.admin
      /\ shown.history = moved.history /\ shown.calls = moved.calls
  BY <1>2, <1>3, WithApp
<1> HIDE DEF shown
<1>5. CASE screen # "match"
  <2> HIDE DEF v
  <2>1. v = shown
    BY <1>1, <1>5
  <2>2. /\ v \in Page /\ v.session = w.session /\ v.cookie = w.cookie
        /\ v.app.screen = screen /\ v.app.returnTo = w.app.returnTo
        /\ v.app.socket = w.app.socket /\ v.app.overtaken = w.app.overtaken
    BY <1>3, <1>4, <2>1
  <2>3. v.app.adminOpen = (w.app.adminOpen /\ screen # "match")
    BY <1>1, <1>3, <1>4, <1>5, <2>1, PageParts DEF App
  <2>4. \A i \in Slots :
            /\ Faded(v.calls[i], w.calls[i])
            /\ v.calls[i].kind \notin historyKinds \cup adminKinds => v.calls[i] = w.calls[i]
    BY <1>2, <1>4, <2>1
  <2>5. IF leaves
        THEN \A i \in Slots : v.calls[i].kind \in historyKinds => ~v.calls[i].alive
        ELSE /\ v.history = w.history
             /\ \A i \in Slots : v.calls[i].kind \in historyKinds => v.calls[i] = w.calls[i]
    BY <1>2, <1>4, <2>1
  <2>6. IF w.app.adminOpen /\ screen = "match"
        THEN \A i \in Slots : v.calls[i].kind \in adminKinds => ~v.calls[i].alive
        ELSE /\ v.admin = w.admin
             /\ \A i \in Slots : v.calls[i].kind \in adminKinds => v.calls[i] = w.calls[i]
    BY <1>0, <1>2, <1>4, <1>5, <2>1
  <2> QED BY <2>2, <2>3, <2>4, <2>5, <2>6 DEF v
<1>6. CASE screen = "match"
  <2> DEFINE z == closesPanel(shown)
  <2>1. /\ z \in Page /\ z.session = w.session /\ z.history = moved.history
        /\ z.cookie = w.cookie /\ ~z.app.adminOpen /\ z.app.screen = screen
        /\ z.app.returnTo = w.app.returnTo
        /\ z.app.socket = w.app.socket /\ z.app.overtaken = w.app.overtaken
        /\ \A i \in Slots :
            /\ Faded(z.calls[i], moved.calls[i])
            /\ z.calls[i].kind \notin adminKinds => z.calls[i] = moved.calls[i]
            /\ w.app.adminOpen /\ z.calls[i].kind \in adminKinds => ~z.calls[i].alive
        /\ ~w.app.adminOpen => z = shown
    BY <1>3, <1>4, PanelCloses
  <2>2. \A i \in Slots :
            /\ Faded(z.calls[i], w.calls[i])
            /\ leaves /\ z.calls[i].kind \in historyKinds => ~z.calls[i].alive
            /\ z.calls[i].kind = moved.calls[i].kind
    BY <1>2, <2>1 DEF Faded
  <2> HIDE DEF z
  <2>3. v = z
    BY <1>1, <1>6 DEF z
  <2> HIDE DEF v
  <2>4. /\ v \in Page /\ v.session = w.session /\ v.cookie = w.cookie
        /\ v.app.screen = screen /\ v.app.returnTo = w.app.returnTo
        /\ v.app.socket = w.app.socket /\ v.app.overtaken = w.app.overtaken
        /\ v.app.adminOpen = (w.app.adminOpen /\ screen # "match")
    BY <1>6, <2>1, <2>3, PageParts DEF App
  <2>5. IF leaves
        THEN \A i \in Slots : v.calls[i].kind \in historyKinds => ~v.calls[i].alive
        ELSE /\ v.history = w.history
             /\ \A i \in Slots : v.calls[i].kind \in historyKinds => v.calls[i] = w.calls[i]
    BY <1>0, <1>2, <2>1, <2>2, <2>3
  <2>6. IF w.app.adminOpen /\ screen = "match"
        THEN \A i \in Slots : v.calls[i].kind \in adminKinds => ~v.calls[i].alive
        ELSE /\ v.admin = w.admin
             /\ \A i \in Slots : v.calls[i].kind \in adminKinds => v.calls[i] = w.calls[i]
    BY <1>0, <1>2, <1>4, <1>6, <2>1, <2>2, <2>3
  <2>7. \A i \in Slots :
            /\ Faded(v.calls[i], w.calls[i])
            /\ v.calls[i].kind \notin historyKinds \cup adminKinds => v.calls[i] = w.calls[i]
    BY <1>2, <2>1, <2>2, <2>3
  <2> QED BY <2>4, <2>5, <2>6, <2>7 DEF v
<1> QED BY <1>5, <1>6

\* A screen other than the history can be set as long as no socket is left behind on a
\* screen that does not play.
LEMMA ScreenMoves ==
    ASSUME NEW w, NEW sv, Sound(w, sv), NEW screen \in Screens,
           screen = "history" => w.app.screen = "history",
           screen \in {"intro", "account"} => w.app.socket = noSocket
    PROVE  Moved(setScreen(w, screen), w)
<1> DEFINE v == setScreen(w, screen)
<1>1. w \in Page
  BY DEF Sound
<1>2. /\ v \in Page /\ v.session = w.session /\ v.cookie = w.cookie
      /\ v.app.screen = screen /\ v.app.returnTo = w.app.returnTo
      /\ v.app.socket = w.app.socket /\ v.app.overtaken = w.app.overtaken
      /\ v.app.adminOpen = (w.app.adminOpen /\ screen # "match")
      /\ \A i \in Slots : Faded(v.calls[i], w.calls[i])
  BY <1>1, ScreenFields
<1>3. IF w.app.screen = "history" /\ screen # "history"
      THEN \A i \in Slots : v.calls[i].kind \in historyKinds => ~v.calls[i].alive
      ELSE /\ v.history = w.history
           /\ \A i \in Slots : v.calls[i].kind \in historyKinds => v.calls[i] = w.calls[i]
  BY <1>1, ScreenFields
<1>4. IF w.app.adminOpen /\ screen = "match"
      THEN \A i \in Slots : v.calls[i].kind \in adminKinds => ~v.calls[i].alive
      ELSE /\ v.admin = w.admin
           /\ \A i \in Slots : v.calls[i].kind \in adminKinds => v.calls[i] = w.calls[i]
  BY <1>1, ScreenFields
<1> HIDE DEF v
<1>5. \A i \in Slots : v.calls[i].kind = w.calls[i].kind
  BY <1>2 DEF Faded
<1>6. OffShelf(v) \/ SameShelf(v, w)
  <2>1. CASE screen = "history"
    BY <1>2, <1>3, <1>5, <2>1 DEF SameShelf
  <2>2. CASE screen # "history"
    <3>1. w.app.screen # "history" => OffShelf(w)
      BY ListsOff
    <3> QED BY <1>2, <1>3, <1>5, <2>2, <3>1 DEF OffShelf
  <2> QED BY <2>1, <2>2
<1>7. OffPanel(v) \/ SamePanel(v, w)
  <2>1. CASE w.app.adminOpen /\ screen = "match"
    BY <1>2, <1>4, <2>1 DEF OffPanel
  <2>2. CASE ~(w.app.adminOpen /\ screen = "match")
    <3>1. w.app.adminOpen \in BOOLEAN /\ v.app.adminOpen \in BOOLEAN
      BY <1>1, <1>2, PageParts DEF App
    <3> QED BY <1>2, <1>4, <1>5, <2>2, <3>1 DEF SamePanel
  <2> QED BY <2>1, <2>2
<1>8. Calm(v, w)
  BY <1>2, <1>6 DEF Calm, SameShelf
<1> QED BY <1>2, <1>6, <1>7, <1>8 DEF Moved, v

LEMMA KindsApart ==
    /\ historyKinds \cap adminKinds = {} /\ historyKinds \cap authKinds = {}
    /\ adminKinds \cap authKinds = {}
    /\ "none" \notin historyKinds \cup adminKinds \cup authKinds
    /\ formKinds \subseteq authKinds /\ "restore" \notin formKinds
    /\ Kinds = {"none"} \cup authKinds \cup historyKinds \cup adminKinds
BY DEF historyKinds, adminKinds, rowKinds, inspectKinds, authKinds, formKinds, Kinds

LEMMA PanelMoves ==
    ASSUME NEW w, NEW sv, Sound(w, sv)
    PROVE  Moved(closesPanel(w), w)
<1> DEFINE v == closesPanel(w)
<1>1. w \in Page
  BY DEF Sound
<1>2. /\ v \in Page /\ v.session = w.session /\ v.history = w.history
      /\ v.cookie = w.cookie /\ ~v.app.adminOpen
      /\ v.app.screen = w.app.screen /\ v.app.returnTo = w.app.returnTo
      /\ v.app.socket = w.app.socket /\ v.app.overtaken = w.app.overtaken
      /\ \A i \in Slots :
            /\ Faded(v.calls[i], w.calls[i])
            /\ v.calls[i].kind \notin adminKinds => v.calls[i] = w.calls[i]
            /\ w.app.adminOpen /\ v.calls[i].kind \in adminKinds => ~v.calls[i].alive
      /\ ~w.app.adminOpen => v = w
  BY <1>1, PanelCloses
<1> HIDE DEF v
<1>3. OffPanel(v)
  BY <1>2, ListsOff DEF OffPanel
<1>4. SameShelf(v, w)
  <2>1. \A i \in Slots : v.calls[i].kind = w.calls[i].kind
    BY <1>2 DEF Faded
  <2> QED BY <1>2, <2>1, KindsApart DEF SameShelf
<1>5. v.app.socket = noSocket \/ v.app.screen \notin {"intro", "account"}
  BY <1>2 DEF Sound, Signed, Plays
<1>6. Calm(v, w)
  BY <1>2, <1>5 DEF Calm
<1> QED BY <1>2, <1>3, <1>4, <1>6 DEF Moved, v

LEMMA ClientCloses ==
    ASSUME NEW w, NEW sv, Sound(w, sv)
    PROVE  LET v == closeClient(w)
           IN  /\ Moved(v, w) /\ v.app.socket = noSocket /\ ~v.app.overtaken
               /\ v.app.screen = w.app.screen /\ v.app.adminOpen = w.app.adminOpen
               /\ v.app.returnTo = w.app.returnTo
               /\ v.session = w.session /\ v.history = w.history /\ v.calls = w.calls
<1> DEFINE y == [w.app EXCEPT !.socket = noSocket, !.overtaken = FALSE]
           v == closeClient(w)
<1>1. w \in Page /\ w.app \in App
  BY PageParts DEF Sound
<1>2. v = [w EXCEPT !.app = y]
  BY DEF closeClient
<1>3. /\ y \in App /\ y.socket = noSocket /\ ~y.overtaken /\ y.screen = w.app.screen
      /\ y.returnTo = w.app.returnTo /\ y.adminOpen = w.app.adminOpen
  BY <1>1 DEF App
<1> HIDE DEF y, v
<1>4. /\ v \in Page /\ v.app = y /\ v.session = w.session /\ v.history = w.history
      /\ v.admin = w.admin /\ v.calls = w.calls /\ v.cookie = w.cookie
  BY <1>1, <1>2, <1>3, WithApp
<1>5. SameShelf(v, w) /\ SamePanel(v, w)
  BY <1>3, <1>4 DEF SameShelf, SamePanel
<1>6. Calm(v, w)
  BY <1>3, <1>4, FadedSame DEF Calm
<1> QED BY <1>3, <1>4, <1>5, <1>6 DEF Moved, v

\* A part of the session that only the form and the property know.
SessionAlike(x, y) ==
    x.account = y.account /\ x.doubt = y.doubt /\ x.acted = y.acted /\ x.busy = y.busy

LEMMA SessionMoves ==
    ASSUME NEW w, NEW sv, Sound(w, sv), NEW x \in Session, SessionAlike(x, w.session),
           x.mode = "settings" => w.session.mode = "settings" \/ w.session.account # NoAccount
    PROVE  LET v == [w EXCEPT !.session = x]
           IN  /\ Moved(v, w) /\ v.app = w.app /\ v.session = x /\ v.history = w.history
               /\ v.admin = w.admin /\ v.calls = w.calls /\ v.cookie = w.cookie
<1> DEFINE v == [w EXCEPT !.session = x]
<1>1. w \in Page
  BY DEF Sound
<1>2. /\ v \in Page /\ v.session = x /\ v.app = w.app /\ v.history = w.history
      /\ v.admin = w.admin /\ v.calls = w.calls /\ v.cookie = w.cookie
  BY <1>1, WithSession
<1> HIDE DEF v
<1>3. SameShelf(v, w) /\ SamePanel(v, w)
  BY <1>2 DEF SameShelf, SamePanel
<1>4. v.app.socket = noSocket \/ v.app.screen \notin {"intro", "account"}
  BY <1>2 DEF Sound, Signed, Plays
<1>5. Calm(v, w)
  BY <1>2, <1>4, FadedSame DEF Calm, SessionAlike
<1> QED BY <1>2, <1>3, <1>5 DEF Moved, v

LEMMA ModeMoves ==
    ASSUME NEW w, NEW sv, Sound(w, sv), NEW mode \in Modes,
           mode = "settings" => w.session.account # NoAccount
    PROVE  LET v == [w EXCEPT !.session.mode = mode]
           IN  /\ Moved(v, w) /\ v.app = w.app /\ v.history = w.history
               /\ v.calls = w.calls /\ v.cookie = w.cookie /\ v.session.mode = mode
               /\ v.session.account = w.session.account /\ v.session.busy = w.session.busy
<1> DEFINE x == [w.session EXCEPT !.mode = mode]
<1>1. w.session \in Session
  BY PageParts DEF Sound
<1>2. x \in Session /\ SessionAlike(x, w.session) /\ x.mode = mode
  BY <1>1 DEF Session, SessionAlike
<1>3. x.account = w.session.account /\ x.busy = w.session.busy
  BY <1>2 DEF SessionAlike
<1>4. [w EXCEPT !.session.mode = mode] = [w EXCEPT !.session = x]
  OBVIOUS
<1> HIDE DEF x
<1> DEFINE v == [w EXCEPT !.session.mode = mode]
<1>5. v = [w EXCEPT !.session = x]
  BY <1>4
<1> HIDE DEF v
<1>6. /\ Moved(v, w) /\ v.app = w.app /\ v.session = x /\ v.history = w.history
      /\ v.admin = w.admin /\ v.calls = w.calls /\ v.cookie = w.cookie
  BY <1>2, <1>5, SessionMoves
<1> QED BY <1>2, <1>3, <1>6 DEF v

LEMMA FormShown ==
    ASSUME NEW w, NEW sv, Sound(w, sv), NEW mode \in Modes \ {"settings"}
    PROVE  Sound(prepareAccount(w, mode), sv)
<1> DEFINE v == [w EXCEPT !.session.mode = mode]
<1>1. prepareAccount(w, mode) = v
  BY DEF prepareAccount
<1>2. Moved(v, w)
  BY ModeMoves
<1> HIDE DEF v
<1> QED BY <1>1, <1>2, MovedSound

LEMMA AccountOpens ==
    ASSUME NEW w, NEW sv, Sound(w, sv), NEW mode \in Modes \ {"settings"}
    PROVE  Sound(openAccount(w, mode), sv)
<1> DEFINE x == closeClient(w)
           y == [x EXCEPT !.session.mode = mode]
<1>1. Sound(x, sv) /\ x.app.socket = noSocket
  BY ClientCloses, MovedSound
<1>2. openAccount(w, mode) = setScreen(y, "account")
  BY DEF openAccount, prepareAccount, resetForAccountChange
<1> HIDE DEF x
<1>3. Moved(y, x) /\ y.app = x.app
  BY <1>1, ModeMoves
<1> HIDE DEF y
<1>4. Sound(y, sv) /\ y.app.socket = noSocket
  BY <1>1, <1>3, MovedSound
<1>5. Moved(setScreen(y, "account"), y)
  BY <1>4, ScreenMoves DEF Screens
<1> QED BY <1>2, <1>4, <1>5, MovedSound

LEMMA BackSound ==
    ASSUME NEW w, NEW sv, Sound(w, sv),
           w.app.screen \in {"account", "mode-select", "menu", "lobby", "history", "match"}
    PROVE  Sound(navigateBack(w), sv)
<1>1. CASE w.app.screen = "history"
  <2>1. w.app.returnTo \in {"mode-select", "menu", "lobby"}
    BY <1>1 DEF Sound, Signed, AtHistory
  <2>2. navigateBack(w) = setScreen(w, w.app.returnTo)
    BY <1>1 DEF navigateBack
  <2>3. Moved(setScreen(w, w.app.returnTo), w)
    BY <1>1, <2>1, ScreenMoves DEF Screens
  <2> QED BY <2>2, <2>3, MovedSound
<1>2. CASE w.app.screen \in {"account", "mode-select", "match"}
  <2> DEFINE x == closeClient(w)
             to == IF w.app.screen = "match" THEN "menu" ELSE "intro"
  <2>1. Sound(x, sv) /\ x.app.socket = noSocket
    BY ClientCloses, MovedSound
  <2>2. navigateBack(w) = setScreen(x, to)
    BY <1>2 DEF navigateBack
  <2> HIDE DEF x
  <2>3. Moved(setScreen(x, to), x)
    <3>1. to \in Screens /\ to # "history"
      BY DEF Screens
    <3> HIDE DEF to
    <3> QED BY <2>1, <3>1, ScreenMoves
  <2> QED BY <2>1, <2>2, <2>3, MovedSound
<1>3. CASE w.app.screen \in {"menu", "lobby"}
  <2> DEFINE to == IF w.app.screen = "menu" THEN "mode-select" ELSE "menu"
  <2>1. navigateBack(w) = setScreen(w, to)
    BY <1>3 DEF navigateBack
  <2>2. to \in Screens /\ to \notin {"history", "intro", "account"}
    BY DEF Screens
  <2> HIDE DEF to
  <2>3. Moved(setScreen(w, to), w)
    BY <2>2, ScreenMoves
  <2> QED BY <2>1, <2>3, MovedSound
<1> QED BY <1>1, <1>2, <1>3

-----------------------------------------------------------------------------

(* Calls that are sent.                                                      *)

Sent(v, w, kind, arg) ==
    /\ v \in Page /\ v.app = w.app /\ v.history = w.history /\ v.admin = w.admin
    /\ v.cookie = w.cookie
    /\ v.session.account = w.session.account /\ v.session.doubt = w.session.doubt
    /\ v.session.acted = w.session.acted /\ v.session.mode = w.session.mode
    /\ \E n \in Slots :
        /\ w.calls[n].kind = "none" /\ v.calls[n] = freshCall(w.cookie, kind, arg)
        /\ \A i \in Slots \ {n} : v.calls[i] = w.calls[i]

LEMMA CalledSent ==
    ASSUME NEW w \in Page, Vacant(w), NEW kind \in Kinds, NEW arg \in Arg
    PROVE  /\ Sent(called(w, kind, arg), w, kind, arg)
           /\ called(w, kind, arg).session = w.session
<1> DEFINE v == called(w, kind, arg)
           c == freshCall(w.cookie, kind, arg)
<1>1. /\ c \in Call /\ v \in Page
      /\ v.app = w.app /\ v.session = w.session /\ v.history = w.history
      /\ v.admin = w.admin /\ v.cookie = w.cookie
      /\ \E i \in Slots :
            w.calls[i].kind = "none" /\ v.calls = [w.calls EXCEPT ![i] = c]
  BY CallSent
<1> HIDE DEF v, c
<1>2. w.calls \in [Slots -> Call]
  BY PageParts
<1>3. PICK n \in Slots : w.calls[n].kind = "none" /\ v.calls = [w.calls EXCEPT ![n] = c]
  BY <1>1
<1>4. v.calls[n] = c /\ \A i \in Slots \ {n} : v.calls[i] = w.calls[i]
  BY <1>2, <1>3
<1> QED BY <1>1, <1>3, <1>4 DEF Sent, v, c

LEMMA AskedSent ==
    ASSUME NEW w \in Page, Vacant(w), NEW kind \in Kinds, NEW arg \in Arg
    PROVE  Sent(asked(w, kind, arg), w, kind, arg) /\ asked(w, kind, arg).session.busy
<1> DEFINE x == called(w, kind, arg)
           y == [x.session EXCEPT !.busy = TRUE]
           v == asked(w, kind, arg)
<1>1. Sent(x, w, kind, arg) /\ x \in Page /\ x.session \in Session
  BY CalledSent, PageParts DEF Sent
<1>2. v = [x EXCEPT !.session = y]
  BY DEF asked
<1>3. y \in Session /\ SessionAlike(y, [x.session EXCEPT !.busy = TRUE]) /\ y.busy
      /\ y.account = x.session.account /\ y.doubt = x.session.doubt
      /\ y.acted = x.session.acted /\ y.mode = x.session.mode
  BY <1>1 DEF Session, SessionAlike
<1> HIDE DEF x, y, v
<1>4. /\ v \in Page /\ v.app = x.app /\ v.session = y /\ v.history = x.history
      /\ v.admin = x.admin /\ v.calls = x.calls /\ v.cookie = x.cookie
  BY <1>1, <1>2, <1>3, WithSession
<1> QED BY <1>1, <1>3, <1>4 DEF Sent, v

\* What may be sent, and when: with nobody known to be signed in, only what a guest's form
\* sends; an operation of the form when none is under way; of the history on its screen.
Sendable(v, w, kind, arg) ==
    /\ kind \in Kinds \ {"none", "restore", "whoami"} /\ arg \in Arg
    /\ IF kind \in formKinds THEN ~w.session.busy /\ v.session.busy
       ELSE v.session.busy = w.session.busy
    /\ \/ w.session.account # NoAccount \/ w.session.mode = "settings"
       \/ w.app.screen = "history" \/ w.app.adminOpen
       \/ kind \in {"signin", "reset"} \/ (kind = "mail" /\ arg.tab # "settings")
    /\ kind \in historyKinds => w.app.screen = "history"
    /\ w.app.screen = "history" => kind \notin formKinds \ {"logout"}
    /\ kind = "signin" => arg.user \in Users
    /\ kind \in authKinds => kind \in {"logout", "devices", "mail"} \/ w.app.screen = "account"

LEMMA SignedSent ==
    ASSUME NEW w \in Page, NEW v, NEW sv \in Server, Signed(w, sv),
           NEW kind, NEW arg, Sent(v, w, kind, arg), Sendable(v, w, kind, arg)
    PROVE  Signed(v, sv)
<1> DEFINE c == freshCall(w.cookie, kind, arg)
<1>1. PICK n \in Slots :
        /\ w.calls[n].kind = "none" /\ v.calls[n] = c
        /\ \A i \in Slots \ {n} : v.calls[i] = w.calls[i]
  BY DEF Sent
<1>2. /\ c.kind = kind /\ c.sid = w.cookie /\ c.arg = arg /\ c.answer.status = "none" /\ ~c.lost
      /\ kind \notin {"none", "restore", "whoami"}
  BY FreshCall, PageParts DEF Sendable
<1> HIDE DEF c
<1>3. /\ v.app = w.app /\ v.history = w.history /\ v.admin = w.admin /\ v.cookie = w.cookie
      /\ v.session.account = w.session.account /\ v.session.doubt = w.session.doubt
      /\ v.session.acted = w.session.acted /\ v.session.mode = w.session.mode
  BY DEF Sent
<1>4. SessionsMade(v, sv)
  BY <1>1, <1>2, <1>3 DEF Signed, SessionsMade
<1>5. AnswersTrue(v, sv)
  <2>1. c.answer.sid = NoSid
    BY FreshCall, PageParts DEF c, Sendable
  <2>2. AnswerTrue(c, sv)
    BY <1>2, <2>1, NotAnswered
  <2> QED BY <1>1, <2>2 DEF Signed, AnswersTrue
<1>6. OneAtATime(v)
  <2>1. OneAtATime(w)
    BY DEF Signed
  <2>2. \A i \in Slots : w.calls[i].kind \in formKinds => w.session.busy
    BY <2>1 DEF OneAtATime
  <2>3. kind \in formKinds => ~w.session.busy /\ v.session.busy
    BY DEF Sendable
  <2>4. kind \notin formKinds => v.session.busy = w.session.busy
    BY DEF Sendable
  <2>5. \A i \in Slots : v.calls[i].kind \in formKinds =>
            v.session.busy /\ v.calls[i].sid = v.cookie
    BY <1>1, <1>2, <1>3, <2>1, <2>2, <2>3, <2>4 DEF OneAtATime
  <2>6. \A i \in Slots : v.calls[i].kind = "signin" => v.calls[i].arg.user \in Users
    BY <1>1, <1>2, <2>1 DEF OneAtATime, Sendable
  <2>7. \A i \in Slots : v.calls[i].kind = "whoami" => v.session.acted
    BY <1>1, <1>2, <1>3, <2>1 DEF OneAtATime
  <2>8. \A i, j \in Slots : v.calls[i].kind \in formKinds /\ v.calls[j].kind \in formKinds => i = j
    BY <1>1, <1>2, <2>1, <2>2, <2>3 DEF OneAtATime
  <2>9. \A i, j \in Slots : v.calls[i].kind = "restore" /\ v.calls[j].kind = "restore" => i = j
    BY <1>1, <1>2, <2>1 DEF OneAtATime
  <2> QED BY <2>5, <2>6, <2>7, <2>8, <2>9 DEF OneAtATime
<1>7. Early(v)
  BY <1>1, <1>2, <1>3 DEF Signed, Early, Sendable
<1>8. Truthful(v, sv)
  <2>1. Truthful(w, sv)
    BY DEF Signed
  <2>2. \A a : Says(a, v, sv) <=> Says(a, w, sv)
    BY <1>3 DEF Says
  <2>3. ~ended(c) /\ ~ended(w.calls[n])
    BY <1>1, <1>2 DEF ended
  <2> QED BY <1>1, <1>2, <1>3, <2>1, <2>2, <2>3 DEF Truthful
<1>9. AtHistory(v, sv)
  <2>1. AtHistory(w, sv)
    BY DEF Signed
  <2>2. "none" \notin formKinds /\ "none" \notin historyKinds
    BY KindsApart
  <2> QED BY <1>1, <1>2, <1>3, <2>1, <2>2 DEF AtHistory, Sendable
<1>10. Plays(v)
  BY <1>1, <1>2, <1>3 DEF Signed, Plays, Sendable
<1> QED BY <1>4, <1>5, <1>6, <1>7, <1>8, <1>9, <1>10 DEF Signed

\* A call of another kind leaves the lists alone.
LEMMA SentBeside ==
    ASSUME NEW w, NEW v, NEW sv, Sound(w, sv), NEW kind \in Kinds, NEW arg \in Arg,
           Sent(v, w, kind, arg)
    PROVE  /\ kind \notin historyKinds => Shelved(v, sv)
           /\ kind \notin adminKinds => Listed(v, sv)
<1>1. PICK n \in Slots :
        /\ w.calls[n].kind = "none" /\ v.calls[n] = freshCall(w.cookie, kind, arg)
        /\ \A i \in Slots \ {n} : v.calls[i] = w.calls[i]
  BY DEF Sent
<1>2. w \in Page /\ v \in Page /\ sv \in Server /\ SessionsMade(w, sv)
  BY DEF Sound, Sent, Signed
<1>3. v.calls[n].kind = kind
  BY <1>1, <1>2, FreshCall, PageParts
<1>4. ShelfGrown(sv, sv) /\ PanelGrown(sv, sv)
  BY DEF ShelfGrown, PanelGrown
<1>5. ASSUME kind \notin historyKinds PROVE Shelved(v, sv)
  <2>1. SameShelf(v, w)
    BY <1>1, <1>3, <1>5, KindsApart DEF SameShelf, Sent
  <2>2. \A i \in Slots : v.calls[i].kind \in historyKinds => Faded(v.calls[i], w.calls[i])
    BY <1>1, <1>3, <1>5, FadedSame
  <2> QED BY <1>2, <1>4, <2>1, <2>2, ShelfAside DEF Sound
<1>6. ASSUME kind \notin adminKinds PROVE Listed(v, sv)
  <2>1. SamePanel(v, w)
    BY <1>1, <1>3, <1>6, KindsApart DEF SamePanel, Sent
  <2>2. \A i \in Slots : v.calls[i].kind \in adminKinds => Faded(v.calls[i], w.calls[i])
    BY <1>1, <1>3, <1>6, FadedSame
  <2> QED BY <1>2, <1>4, <2>1, <2>2, PanelAside DEF Sound
<1> QED BY <1>5, <1>6

LEMMA AuthSent ==
    ASSUME NEW w, NEW v, NEW sv, Sound(w, sv), NEW kind \in authKinds, NEW arg \in Arg,
           Sent(v, w, kind, arg), Sendable(v, w, kind, arg)
    PROVE  Sound(v, sv)
<1>1. Signed(v, sv)
  BY SignedSent DEF Sound
<1>2. Shelved(v, sv) /\ Listed(v, sv)
  BY SentBeside, KindsApart
<1> QED BY <1>1, <1>2 DEF Sound, Sent

-----------------------------------------------------------------------------

(* The clicks on the form and between the screens.                           *)

LEMMA SocketSet ==
    ASSUME NEW w, NEW v, NEW sv, Sound(w, sv), NEW y \in App, v = [w EXCEPT !.app = y],
           y.screen = w.app.screen, y.returnTo = w.app.returnTo,
           y.adminOpen = w.app.adminOpen, Plays(v)
    PROVE  Sound(v, sv)
<1>1. w \in Page /\ sv \in Server /\ SessionsMade(w, sv)
  BY DEF Sound, Signed
<1>2. /\ v \in Page /\ v.app = y /\ v.session = w.session /\ v.history = w.history
      /\ v.admin = w.admin /\ v.calls = w.calls /\ v.cookie = w.cookie
  BY <1>1, WithApp
<1>3. Signed(v, sv)
  <2>1. Signed(w, sv)
    BY DEF Sound
  <2>2. SessionsMade(v, sv) /\ AnswersTrue(v, sv)
    BY <1>2, <2>1, AnswersSame DEF Signed, SessionsMade
  <2>3. OneAtATime(v) /\ Early(v)
    BY <1>2, <2>1 DEF Signed, OneAtATime, Early
  <2>4. Truthful(v, sv)
    <3>1. \A a : Says(a, v, sv) <=> Says(a, w, sv)
      BY <1>2 DEF Says
    <3> QED BY <1>2, <2>1, <3>1 DEF Signed, Truthful
  <2>5. AtHistory(v, sv)
    BY <1>2, <2>1 DEF Signed, AtHistory
  <2> QED BY <2>2, <2>3, <2>4, <2>5 DEF Signed
<1>4. ShelfGrown(sv, sv) /\ PanelGrown(sv, sv) /\ \A i \in Slots : Faded(v.calls[i], w.calls[i])
  BY <1>2, FadedSame DEF ShelfGrown, PanelGrown
<1>5. Shelved(v, sv)
  <2>1. SameShelf(v, w)
    BY <1>2 DEF SameShelf
  <2> QED BY <1>1, <1>2, <1>4, <2>1, ShelfAside DEF Sound
<1>6. Listed(v, sv)
  <2>1. SamePanel(v, w)
    BY <1>2 DEF SamePanel
  <2> QED BY <1>1, <1>2, <1>4, <2>1, PanelAside DEF Sound
<1> QED BY <1>1, <1>2, <1>3, <1>5, <1>6 DEF Sound

LEMMA WhoIs ==
    ASSUME NEW sid \in SidsOrNone, server \in Server
    PROVE  who(sid) = whose(server, sid) /\ who(sid) \in People
<1>1. server.valid \subseteq Sids /\ server.owner \in [Sids -> People] /\ NoUser \in People
  BY DEF Server, People
<1> QED BY <1>1 DEF who, whose

\* With no operation under way and nothing in doubt, the page shows who the cookie is for.
LEMMA NothingUnderWay ==
    ASSUME NEW w \in Page, NEW sv \in Server, Truthful(w, sv), w.session.doubt = {},
           \A i \in Slots : w.calls[i].kind \notin {"restore", "whoami", "logout", "reset"}
    PROVE  Says(w.session.account, w, sv)
BY DEF Truthful, ended

LEMMA ConnectSound ==
    ASSUME AccountSound, NEW screen \in {"lobby", "match"}
    PROVE  Sound(connects(page, screen), server)
<1> DEFINE x == setScreen(page, screen)
           busy == underWay(page, authKinds \ {"devices", "mail"}) # {}
           y == [x.app EXCEPT !.socket = who(page.cookie), !.overtaken = busy]
           v == connects(page, screen)
<1>1. page \in Page /\ server \in Server /\ page.cookie \in SidsOrNone
  BY PageParts DEF AccountSound, Sound
<1>2. Sound(x, server) /\ Moved(x, page)
  <2>1. Moved(x, page)
    BY ScreenMoves DEF AccountSound, Screens
  <2> QED BY <2>1, MovedSound DEF AccountSound
<1>3. x \in Page /\ x.app \in App /\ x.app.screen = screen /\ x.session = page.session
  <2>1. x \in Page /\ x.app.screen = screen /\ x.session = page.session
    BY <1>1, ScreenFields DEF Screens
  <2> QED BY <2>1, PageParts
<1>4. v = [x EXCEPT !.app = y]
  BY DEF connects
<1>5. who(page.cookie) = whose(server, page.cookie) /\ who(page.cookie) \in People
  BY <1>1, WhoIs
<1>6. busy \in BOOLEAN
  OBVIOUS
<1>7. /\ busy <=> \E i \in Slots : page.calls[i].kind \in authKinds \ {"devices", "mail"}
      /\ \A i \in Slots : x.calls[i].kind = page.calls[i].kind
  BY <1>2 DEF underWay, Moved, Calm, Faded
<1> HIDE DEF busy, x
<1>8. /\ y \in App /\ y.screen = screen /\ y.returnTo = x.app.returnTo
      /\ y.adminOpen = x.app.adminOpen /\ y.socket = who(page.cookie) /\ y.overtaken = busy
  BY <1>3, <1>5, <1>6 DEF App
<1> HIDE DEF y
<1>9. Plays(v)
  <2>1. v.app = y /\ v.calls = x.calls /\ v.session = page.session
    BY <1>3, <1>4, <1>8, WithApp
  <2>2. Truthful(page, server)
    BY DEF AccountSound, Sound, Signed
  <2>3. ASSUME ~busy PROVE \A i \in Slots :
            page.calls[i].kind \notin authKinds \ {"logout", "devices", "mail"}
    BY <1>7, <2>3
  <2>4. ASSUME ~busy, page.session.doubt = {}
        PROVE  who(page.cookie) = page.session.account.user
    <3>1. \A i \in Slots : page.calls[i].kind \notin {"restore", "whoami", "logout", "reset"}
      BY <1>7, <2>4 DEF authKinds
    <3>2. Says(page.session.account, page, server)
      BY <1>1, <2>2, <2>4, <3>1, NothingUnderWay
    <3> QED BY <1>5, <3>2 DEF Says
  <2> HIDE DEF v
  <2> QED BY <1>7, <1>8, <2>1, <2>3, <2>4 DEF Plays
<1> HIDE DEF v
<1> QED BY <1>2, <1>3, <1>4, <1>8, <1>9, SocketSet DEF v

LEMMA NavigationSound ==
    ASSUME AccountSound,
           Continue \/ ChooseOnline \/ Back \/ FindGames \/ QuickMatch \/ CreateAccount
           \/ SignIn \/ SwitchMode \/ CloseAdmin \/ MatchFound
    PROVE  AccountSound'
<1>1. page.app.screen \in Screens /\ page.session.mode \in Modes
  BY PageParts DEF AccountSound, Sound, App, Session
<1>2. \A screen \in {"mode-select", "menu", "match"} : Sound(setScreen(page, screen), server)
  <2> TAKE screen \in {"mode-select", "menu", "match"}
  <2>1. Moved(setScreen(page, screen), page)
    BY ScreenMoves DEF AccountSound, Screens
  <2> QED BY <2>1, MovedSound DEF AccountSound
<1>3. \A mode \in Modes \ {"settings"} :
        Sound(openAccount(page, mode), server) /\ Sound(prepareAccount(page, mode), server)
  BY AccountOpens, FormShown DEF AccountSound
<1>4. CASE Continue \/ ChooseOnline \/ MatchFound
  <2>1. server' = server /\ \E screen \in {"mode-select", "menu", "match"} :
            page' = setScreen(page, screen)
    BY <1>4 DEF Continue, ChooseOnline, MatchFound, Shows
  <2> QED BY <1>2, <2>1 DEF AccountSound
<1>5. CASE Back
  <2>1. server' = server /\ page' = navigateBack(page) /\ page.app.screen \in
            {"account", "mode-select", "menu", "lobby", "history", "match"}
    BY <1>5 DEF Back, Shows, Reach
  <2> QED BY <2>1, BackSound DEF AccountSound
<1>6. CASE FindGames \/ QuickMatch
  <2>1. server' = server /\ \E screen \in {"lobby", "match"} : page' = connects(page, screen)
    BY <1>6 DEF FindGames, QuickMatch, Shows
  <2> QED BY <2>1, ConnectSound DEF AccountSound
<1>7. CASE CreateAccount \/ SignIn
  <2>1. server' = server /\ \E mode \in Modes \ {"settings"} : page' = openAccount(page, mode)
    BY <1>7 DEF CreateAccount, SignIn, Shows, Modes
  <2> QED BY <1>3, <2>1 DEF AccountSound
<1>8. CASE SwitchMode
  <2>1. server' = server /\ \E mode \in formModes(page.session.mode) :
            page' = prepareAccount(page, mode)
    BY <1>8 DEF SwitchMode, Shows
  <2>2. formModes(page.session.mode) \subseteq Modes \ {"settings"}
    BY <1>1 DEF formModes, Modes
  <2> QED BY <1>3, <2>1, <2>2 DEF AccountSound
<1>9. CASE CloseAdmin
  <2>1. server' = server /\ page' = closesPanel(page)
    BY <1>9 DEF CloseAdmin, Shows
  <2> QED BY <2>1, PanelMoves, MovedSound DEF AccountSound
<1> QED BY <1>4, <1>5, <1>6, <1>7, <1>8, <1>9

LEMMA ArgTypes ==
    /\ noArg \in Arg /\ noArg.tab = "matches" /\ noArg.filter = "all" /\ ~noArg.flag
    /\ \A u \in Users : [noArg EXCEPT !.user = u] \in Arg
    /\ \A s \in SidsOrNone : [noArg EXCEPT !.sid = s] \in Arg
    /\ \A b \in BOOLEAN, tab \in mailModes :
        LET a == [noArg EXCEPT !.flag = b, !.tab = tab] IN a \in Arg /\ a.tab = tab
<1>1. noArg \in Arg /\ noArg.tab = "matches" /\ noArg.filter = "all" /\ ~noArg.flag
  BY NoCallTypes DEF noArg
<1> HIDE DEF noArg
<1> QED BY Zenon, <1>1 DEF Arg, People

LEMMA FormSound ==
    ASSUME AccountSound,
           SignOut \/ SubmitLogin \/ SubmitMail \/ SubmitReset \/ SignOutOthers \/ RevokeDevice
    PROVE  AccountSound'
<1>1. page \in Page /\ page.session \in Session /\ Sound(page, server)
  BY PageParts DEF AccountSound, Sound
<1>2. ASSUME NEW kind \in {"signin", "mail", "reset", "others", "revoke", "logout"},
             NEW arg \in Arg, ~page.session.busy, Room, Shows(asked(page, kind, arg)),
             kind = "logout" \/ page.app.screen = "account",
             kind = "logout" => page.session.account # NoAccount,
             kind \in {"others", "revoke"} => page.session.mode = "settings",
             kind = "mail" => arg.tab = page.session.mode,
             kind = "signin" => arg.user \in Users
      PROVE  AccountSound'
  <2> DEFINE v == asked(page, kind, arg)
  <2>1. page' = v /\ server' = server /\ Vacant(page)
    BY <1>2 DEF Shows, Room, underWay, Vacant
  <2>2. kind \in Kinds /\ kind \in formKinds /\ kind \in authKinds /\ kind \notin historyKinds
        /\ kind \notin {"none", "restore", "whoami"}
    BY <1>2 DEF Kinds, formKinds, authKinds, historyKinds
  <2>3. Sent(v, page, kind, arg) /\ v.session.busy
    BY <1>1, <1>2, <2>1, <2>2, AskedSent
  <2> HIDE DEF v
  <2>4. Sendable(v, page, kind, arg)
    BY <1>2, <2>2, <2>3 DEF Sendable
  <2>5. Sound(v, server)
    BY <1>1, <1>2, <2>2, <2>3, <2>4, AuthSent
  <2> QED BY <2>1, <2>5 DEF AccountSound
<1>3. CASE SignOut
  <2>1. ~page.session.busy /\ page.session.account # NoAccount /\ Room
        /\ Shows(asked(page, "logout", noArg))
    BY <1>3 DEF SignOut, ProfileMenu, signedIn, idle, Asks
  <2> QED BY Zenon, <1>2, <2>1, ArgTypes
<1>4. CASE SubmitLogin
  <2>1. ~page.session.busy /\ page.app.screen = "account" /\ Room
        /\ \E u \in Users : Shows(asked(page, "signin", [noArg EXCEPT !.user = u]))
    BY <1>4 DEF SubmitLogin, Submit, Reach, idle, Asks
  <2>2. PICK u \in Users : Shows(asked(page, "signin", [noArg EXCEPT !.user = u]))
    BY <2>1
  <2> DEFINE a == [noArg EXCEPT !.user = u]
  <2>3. a \in Arg /\ a.user \in Users /\ Shows(asked(page, "signin", a))
    BY Zenon, <2>2, ArgTypes DEF noArg
  <2> HIDE DEF a
  <2> QED BY <1>2, <2>1, <2>3
<1>5. CASE SubmitMail
  <2> DEFINE a == [noArg EXCEPT !.flag = page.session.mode = "register",
                                !.tab = page.session.mode]
  <2>1. ~page.session.busy /\ page.app.screen = "account" /\ Room
        /\ page.session.mode \in mailModes /\ Shows(asked(page, "mail", a))
    BY <1>5 DEF SubmitMail, Submit, Reach, idle, Asks
  <2>2. a \in Arg /\ a.tab = page.session.mode
    BY Zenon, <2>1, ArgTypes
  <2> HIDE DEF a
  <2> QED BY <1>2, <2>1, <2>2
<1>6. CASE SubmitReset
  <2>1. ~page.session.busy /\ page.app.screen = "account" /\ Room
        /\ \E u \in Users : Shows(asked(page, "reset", [noArg EXCEPT !.user = u]))
    BY <1>6 DEF SubmitReset, Submit, Reach, idle, Asks
  <2>2. PICK u \in Users : Shows(asked(page, "reset", [noArg EXCEPT !.user = u]))
    BY <2>1
  <2> DEFINE a == [noArg EXCEPT !.user = u]
  <2>3. a \in Arg /\ Shows(asked(page, "reset", a))
    BY Zenon, <2>2, ArgTypes
  <2> HIDE DEF a
  <2> QED BY <1>2, <2>1, <2>3
<1>7. CASE SignOutOthers
  <2>1. ~page.session.busy /\ page.app.screen = "account" /\ Room
        /\ page.session.mode = "settings" /\ Shows(asked(page, "others", noArg))
    BY <1>7 DEF SignOutOthers, Submit, Reach, idle, Asks
  <2> QED BY Zenon, <1>2, <2>1, ArgTypes
<1>8. CASE RevokeDevice
  <2>1. ~page.session.busy /\ page.app.screen = "account" /\ Room
        /\ page.session.mode = "settings"
        /\ \E s \in page.session.devices : Shows(asked(page, "revoke", [noArg EXCEPT !.sid = s]))
    BY <1>8 DEF RevokeDevice, Submit, Reach, idle, Asks
  <2>2. PICK s \in page.session.devices : Shows(asked(page, "revoke", [noArg EXCEPT !.sid = s]))
    BY <2>1
  <2> DEFINE a == [noArg EXCEPT !.sid = s]
  <2>3. s \in SidsOrNone
    BY <1>1, Bounds DEF Session, Sids, SidsOrNone
  <2>4. a \in Arg /\ Shows(asked(page, "revoke", a))
    BY Zenon, <2>2, <2>3, ArgTypes
  <2> HIDE DEF a
  <2> QED BY <1>2, <2>1, <2>4
<1> QED BY <1>3, <1>4, <1>5, <1>6, <1>7, <1>8

\* The settings ask for the sessions of the account.
LEMMA SettingsSound ==
    ASSUME AccountSound, OpenSettings
    PROVE  AccountSound'
<1> DEFINE x == closeClient(page)
           y == [x EXCEPT !.session.mode = "settings"]
           a == [noArg EXCEPT !.sid = y.session.account.sid]
           z == called(y, "devices", a)
<1>1. /\ Sound(page, server) /\ page.session.account # NoAccount /\ server' = server
      /\ page' = openAccount(page, "settings") /\ Vacant(page)
  BY DEF AccountSound, OpenSettings, ProfileMenu, signedIn, Asks, Shows, Room, underWay, Vacant
<1>2. Sound(x, server) /\ x.app.socket = noSocket /\ x.session = page.session
      /\ x.calls = page.calls
  BY <1>1, ClientCloses, MovedSound
<1>3. page' = setScreen(prepareAccount(x, "settings"), "account")
  BY <1>1 DEF openAccount, resetForAccountChange
<1> HIDE DEF x
<1>4. Moved(y, x) /\ y.app = x.app /\ y.session.account # NoAccount /\ y.calls = page.calls
  <2>1. "settings" \in Modes
    BY DEF Modes
  <2>2. x.session.account # NoAccount
    BY <1>1, <1>2
  <2>3. /\ Moved(y, x) /\ y.app = x.app /\ y.session.account = x.session.account
        /\ y.calls = x.calls
    BY <1>2, <2>1, <2>2, ModeMoves
  <2> QED BY <1>2, <2>2, <2>3
<1>5. prepareAccount(x, "settings") = IF y.session.account = NoAccount THEN y ELSE z
  BY DEF prepareAccount, loadDeviceSessions
<1> HIDE DEF y
<1>6. Sound(y, server) /\ y \in Page /\ Vacant(y)
  BY <1>1, <1>2, <1>4, MovedSound DEF Moved, Vacant
<1>7. a \in Arg
  <2>1. y.session.account.sid \in SidsOrNone
    BY <1>6, PageParts DEF Session, Known
  <2> QED BY Zenon, <2>1, ArgTypes
<1> HIDE DEF a
<1>8. "devices" \in Kinds /\ "devices" \in authKinds /\ "devices" \notin formKinds
      /\ "devices" \notin historyKinds
  BY DEF Kinds, authKinds, formKinds, historyKinds
<1>9. Sent(z, y, "devices", a) /\ z.session = y.session
  BY <1>6, <1>7, <1>8, CalledSent
<1> HIDE DEF z
<1>10. Sendable(z, y, "devices", a)
  BY <1>4, <1>7, <1>8, <1>9 DEF Sendable
<1>11. Sound(z, server) /\ z.app.socket = noSocket
  BY <1>2, <1>4, <1>6, <1>7, <1>8, <1>9, <1>10, AuthSent DEF Sent
<1>12. page' = setScreen(z, "account")
  BY <1>3, <1>4, <1>5
<1>13. Moved(setScreen(z, "account"), z)
  BY <1>11, ScreenMoves DEF Screens
<1>14. Sound(setScreen(z, "account"), server)
  BY <1>11, <1>13, MovedSound
<1> QED BY <1>1, <1>12, <1>14 DEF AccountSound

-----------------------------------------------------------------------------

(* The clicks on the match history.                                          *)

\* A step of the history before it sends a call, or without one.
ShelfTurned(x, w) ==
    /\ x \in Page /\ x.app = w.app /\ x.session = w.session /\ x.admin = w.admin
    /\ x.cookie = w.cookie
    /\ "expired" \in {x.history.listStatus, x.history.detailStatus} =>
            "expired" \in {w.history.listStatus, w.history.detailStatus}
    /\ \A i \in Slots :
        /\ Faded(x.calls[i], w.calls[i])
        /\ w.calls[i].kind \notin historyKinds => x.calls[i] = w.calls[i]

LEMMA ShelfTurns ==
    ASSUME NEW w, NEW x, NEW sv, Sound(w, sv), ShelfTurned(x, w)
    PROVE  Signed(x, sv) /\ Listed(x, sv) /\ SessionsMade(x, sv)
<1>1. w \in Page /\ x \in Page /\ sv \in Server
  BY DEF Sound, ShelfTurned
<1>2. x.app.socket = noSocket \/ x.app.screen \notin {"intro", "account"}
  BY DEF Sound, Signed, Plays, ShelfTurned
<1>3. Calm(x, w)
  BY <1>2 DEF Calm, ShelfTurned
<1>4. Signed(x, sv)
  BY <1>1, <1>3, SignedCalm DEF Sound
<1>5. SamePanel(x, w)
  <2>1. \A i \in Slots : x.calls[i].kind = w.calls[i].kind
    BY DEF ShelfTurned, Faded
  <2> QED BY <2>1, KindsApart DEF SamePanel, ShelfTurned
<1>6. PanelGrown(sv, sv)
  BY DEF PanelGrown
<1>7. Listed(x, sv)
  BY <1>1, <1>5, <1>6, PanelAside DEF Sound, ShelfTurned
<1> QED BY <1>4, <1>7 DEF Signed

\* No other call of its kind has an answer that counts.
Clear(x, kind) ==
    \A kinds \in {listKinds, {"detail"}} : kind \in kinds =>
        \A i \in Slots : ~waiting(x.calls[i], kinds)

\* The calls after one more is sent: its answer is the only one of its kind to count.
LEMMA ShelfSent ==
    ASSUME NEW x \in Page, NEW v, NEW sv, NEW kind \in historyKinds, NEW arg \in Arg,
           Sent(v, x, kind, arg), StarsRead(x, sv),
           \A i \in Slots : ShelfRead(x.calls[i], sv) /\ ShelfDue(x.calls[i], x.history),
           Sole(x, listKinds), Sole(x, {"detail"}),
           Clear(x, kind),
           ShelfDue(freshCall(x.cookie, kind, arg), x.history),
           kind \in listKinds => arg.filter \in Filters,
           kind = "star" => arg.match # NoMatch
    PROVE  /\ HistoryCalls(v, sv) /\ StarsRead(v, sv)
           /\ \E n \in Slots :
                /\ x.calls[n].kind = "none" /\ v.calls[n] = freshCall(x.cookie, kind, arg)
                /\ v.calls[n].kind = kind /\ v.calls[n].arg = arg
                /\ v.calls[n].current /\ v.calls[n].alive
                /\ v.calls[n].answer.status = "none" /\ ~v.calls[n].lost
                /\ \A i \in Slots \ {n} : v.calls[i] = x.calls[i]
<1> DEFINE c == freshCall(x.cookie, kind, arg)
<1>1. PICK n \in Slots :
        /\ x.calls[n].kind = "none" /\ v.calls[n] = c
        /\ \A i \in Slots \ {n} : v.calls[i] = x.calls[i]
  BY DEF Sent
<1>2. /\ c.kind = kind /\ c.arg = arg /\ c.answer.status = "none" /\ ~c.lost /\ c.answer.sid = NoSid
      /\ c.current /\ c.alive
  <2>1. kind \in Kinds /\ x.cookie \in SidsOrNone
    BY PageParts DEF Kinds
  <2> QED BY <2>1, FreshCall
<1>3. ShelfDue(c, x.history)
  OBVIOUS
<1> HIDE DEF c
<1>4. ShelfRead(c, sv) /\ StarRead(c, sv)
  BY <1>2 DEF ShelfRead, StarRead, served
<1>5. v.history = x.history
  BY DEF Sent
<1>6. Sole(v, listKinds) /\ Sole(v, {"detail"})
  <2>1. ASSUME NEW kinds \in {listKinds, {"detail"}} PROVE Sole(v, kinds)
    <3>1. Sole(x, kinds)
      BY <2>1
    <3>2. CASE kind \in kinds
      BY <1>1, <3>2 DEF Sole, Clear
    <3>3. CASE kind \notin kinds
      BY <1>1, <1>2, <3>1, <3>3 DEF Sole, waiting
    <3> QED BY <3>2, <3>3
  <2> QED BY <2>1
<1>7. HistoryCalls(v, sv) /\ StarsRead(v, sv)
  BY <1>1, <1>3, <1>4, <1>5, <1>6 DEF HistoryCalls, StarsRead
<1> QED BY <1>1, <1>2, <1>7 DEF c

\* A step that sends nothing.
LEMMA ShelfTurnSound ==
    ASSUME NEW w, NEW x, NEW sv, Sound(w, sv), ShelfTurned(x, w), Shelved(x, sv)
    PROVE  Sound(x, sv)
BY ShelfTurns DEF Sound, ShelfTurned

\* One that sends a call.
LEMMA ShelfSentSound ==
    ASSUME NEW w, NEW x, NEW v, NEW sv, Sound(w, sv), ShelfTurned(x, w),
           w.app.screen = "history", NEW kind \in historyKinds, NEW arg \in Arg,
           Sent(v, x, kind, arg), v.session = x.session, Shelved(v, sv)
    PROVE  Sound(v, sv)
<1>1. x \in Page /\ sv \in Server /\ v \in Page
  BY DEF Sound, ShelfTurned, Sent
<1>2. Signed(x, sv) /\ Listed(x, sv)
  BY ShelfTurns
<1>3. kind \in Kinds /\ kind \notin formKinds /\ kind \notin authKinds /\ kind \notin adminKinds
      /\ kind \notin {"none", "restore", "whoami", "signin"}
  BY DEF Kinds, historyKinds, formKinds, authKinds, adminKinds, rowKinds, inspectKinds
<1>4. Sendable(v, x, kind, arg)
  BY <1>3 DEF Sendable, ShelfTurned
<1>5. Signed(v, sv)
  BY <1>1, <1>2, <1>4, SignedSent
<1>6. PICK n \in Slots :
        /\ x.calls[n].kind = "none" /\ v.calls[n] = freshCall(x.cookie, kind, arg)
        /\ \A i \in Slots \ {n} : v.calls[i] = x.calls[i]
  BY DEF Sent
<1>7. v.calls[n].kind = kind
  BY <1>1, <1>3, <1>6, FreshCall, PageParts
<1>8. SamePanel(v, x)
  BY <1>3, <1>6, <1>7, KindsApart DEF SamePanel, Sent
<1>9. \A i \in Slots : v.calls[i].kind \in adminKinds => Faded(v.calls[i], x.calls[i])
  BY <1>3, <1>6, <1>7, FadedSame
<1>10. Listed(v, sv)
  BY <1>1, <1>2, <1>8, <1>9, PanelAside DEF PanelGrown
<1> QED BY <1>1, <1>5, <1>10 DEF Sound

LEMMA TurnStart ==
    ASSUME NEW w \in Page
    PROVE  ShelfTurned(w, w)
BY FadedSame DEF ShelfTurned

LEMMA TurnWith ==
    ASSUME NEW w, NEW x, ShelfTurned(x, w), NEW h \in Shelf,
           "expired" \in {h.listStatus, h.detailStatus} =>
                "expired" \in {w.history.listStatus, w.history.detailStatus}
    PROVE  LET y == with(x, h)
           IN  ShelfTurned(y, w) /\ y.history = h /\ y.calls = x.calls
<1> DEFINE y == with(x, h)
<1>1. x \in Page /\ y = [x EXCEPT !.history = h]
  BY DEF ShelfTurned, with
<1> HIDE DEF y
<1>2. /\ y \in Page /\ y.app = x.app /\ y.session = x.session /\ y.history = h
      /\ y.admin = x.admin /\ y.calls = x.calls /\ y.cookie = x.cookie
  BY <1>1, WithHistory
<1>3. ShelfTurned(y, w)
  BY <1>2 DEF ShelfTurned
<1> QED BY <1>2, <1>3 DEF y

LEMMA TurnSuperseded ==
    ASSUME NEW w, NEW x, ShelfTurned(x, w), NEW kinds \in SUBSET historyKinds
    PROVE  LET y == superseded(x, kinds)
           IN  /\ ShelfTurned(y, w) /\ y.history = x.history
               /\ \A i \in Slots :
                    /\ Faded(y.calls[i], x.calls[i]) /\ y.calls[i].alive = x.calls[i].alive
                    /\ x.calls[i].kind \notin kinds => y.calls[i] = x.calls[i]
                    /\ x.calls[i].kind \in kinds => ~(y.calls[i].current /\ y.calls[i].alive)
<1> DEFINE y == superseded(x, kinds)
<1>1. x \in Page
  BY DEF ShelfTurned
<1>2. /\ y \in Page /\ Beside(y, x)
      /\ \A i \in Slots :
            /\ Faded(y.calls[i], x.calls[i]) /\ y.calls[i].alive = x.calls[i].alive
            /\ x.calls[i].kind \notin kinds => y.calls[i] = x.calls[i]
            /\ x.calls[i].kind \in kinds => ~(y.calls[i].current /\ y.calls[i].alive)
  BY <1>1, Superseded
<1> HIDE DEF y
<1>3. \A i \in Slots :
        /\ Faded(y.calls[i], w.calls[i])
        /\ w.calls[i].kind \notin historyKinds => y.calls[i] = w.calls[i]
  BY <1>2 DEF ShelfTurned, Faded
<1>4. ShelfTurned(y, w)
  BY <1>2, <1>3 DEF ShelfTurned, Beside
<1> QED BY <1>2, <1>4 DEF y, Beside

\* A call that was sent beside those that were there.
Asked(v, x, kind, arg) ==
    \E n \in Slots :
        /\ x.calls[n].kind = "none" /\ v.calls[n].kind = kind /\ v.calls[n].arg = arg
        /\ v.calls[n].current /\ v.calls[n].alive
        /\ v.calls[n].answer.status = "none" /\ ~v.calls[n].lost
        /\ \A i \in Slots \ {n} : v.calls[i] = x.calls[i]

\* A call of the history that is sent once the others of its kind are disowned.
LEMMA ShelfAsked ==
    ASSUME NEW w, NEW x, NEW sv, Sound(w, sv), w.app.screen = "history", Vacant(w),
           ShelfTurned(x, w), NEW kind \in historyKinds, NEW arg \in Arg,
           \A i \in Slots : ShelfDue(x.calls[i], x.history),
           Clear(x, kind),
           ShelfDue(freshCall(x.cookie, kind, arg), x.history),
           arg.filter \in Filters, kind = "star" => arg.match # NoMatch
    PROVE  LET v == called(x, kind, arg)
           IN  /\ v.history = x.history /\ v.cookie = w.cookie /\ Asked(v, x, kind, arg)
               /\ v.app.screen = "history"
               /\ HistoryRows(v, sv) /\ Stars(v, sv) => Sound(v, sv)
<1> DEFINE v == called(x, kind, arg)
<1>1. x \in Page /\ w \in Page /\ sv \in Server /\ kind \in Kinds
  BY DEF Sound, ShelfTurned, Kinds
<1>2. Vacant(x)
  BY DEF Vacant, ShelfTurned, Faded
<1>3. Sent(v, x, kind, arg) /\ v.session = x.session
  BY <1>1, <1>2, CalledSent
<1> HIDE DEF v
<1>4. HistoryCalls(w, sv) /\ StarsRead(w, sv)
  BY DEF Sound, Shelved
<1>5. \A i \in Slots : Faded(x.calls[i], w.calls[i])
  BY DEF ShelfTurned
<1>6. \A i \in Slots : ShelfRead(x.calls[i], sv) /\ StarRead(x.calls[i], sv)
  BY <1>4, <1>5, ShelfReadKept DEF HistoryCalls, StarsRead
<1>7. StarsRead(x, sv)
  BY <1>6 DEF StarsRead
<1>8. \A i \in Slots : \A kinds : waiting(x.calls[i], kinds) => waiting(w.calls[i], kinds)
  BY <1>5 DEF Faded, waiting
<1>9. Sole(x, listKinds) /\ Sole(x, {"detail"})
  BY <1>4, <1>8 DEF HistoryCalls, Sole
<1>10. HistoryCalls(v, sv) /\ StarsRead(v, sv) /\ Asked(v, x, kind, arg)
  <2>1. /\ HistoryCalls(v, sv) /\ StarsRead(v, sv)
        /\ \E n \in Slots :
            /\ x.calls[n].kind = "none" /\ v.calls[n] = freshCall(x.cookie, kind, arg)
            /\ v.calls[n].kind = kind /\ v.calls[n].arg = arg
            /\ v.calls[n].current /\ v.calls[n].alive
            /\ v.calls[n].answer.status = "none" /\ ~v.calls[n].lost
            /\ \A i \in Slots \ {n} : v.calls[i] = x.calls[i]
    <3>1. \A i \in Slots : ShelfRead(x.calls[i], sv) /\ ShelfDue(x.calls[i], x.history)
      BY <1>6
    <3>2. kind \in listKinds => arg.filter \in Filters
      OBVIOUS
    <3>3. Clear(x, kind)
      OBVIOUS
    <3>4. ShelfDue(freshCall(x.cookie, kind, arg), x.history) /\ (kind = "star" => arg.match # NoMatch)
      OBVIOUS
    <3> QED BY <1>1, <1>3, <1>7, <1>9, <3>1, <3>2, <3>3, <3>4, ShelfSent
  <2> QED BY <2>1 DEF Asked
<1>11. v.history = x.history /\ v.cookie = w.cookie /\ v.app.screen = "history"
  BY <1>3 DEF Sent, ShelfTurned
<1>12. ASSUME HistoryRows(v, sv), Stars(v, sv) PROVE Sound(v, sv)
  <2>1. Shelved(v, sv)
    BY <1>10, <1>12 DEF Shelved
  <2> QED BY <1>3, <2>1, ShelfSentSound
<1> QED BY <1>10, <1>11, <1>12 DEF v

\* Bookmarks that are neither read nor saved.
LEMMA StarsKept ==
    ASSUME NEW w, NEW v, NEW sv, Stars(w, sv), v.cookie = w.cookie,
           v.history.pending = w.history.pending, v.history.doubt = w.history.doubt,
           \A i \in Slots : v.calls[i].kind = "star" => v.calls[i] = w.calls[i],
           \A m \in Range(v.history.matches) :
                /\ m \in Range(w.history.matches)
                /\ m \in v.history.starred <=> m \in w.history.starred,
           v.history.detail # NoMatch =>
                /\ v.history.detail = w.history.detail
                /\ v.history.detailStarred = w.history.detailStarred
    PROVE  Stars(v, sv)
<1>1. \A m : m \in v.history.pending \cup v.history.doubt <=>
            m \in w.history.pending \cup w.history.doubt
  OBVIOUS
<1>2. \A m \in Range(v.history.matches) :
        m \notin v.history.pending \cup v.history.doubt =>
            (m \in v.history.starred <=> m \in sv.starred[sv.owner[v.cookie]])
  BY DEF Stars
<1>3. v.history.detail # NoMatch /\ v.history.detail \notin v.history.pending \cup v.history.doubt =>
            (v.history.detailStarred <=> v.history.detail \in sv.starred[sv.owner[v.cookie]])
  BY DEF Stars
<1>4. \A i \in Slots : v.calls[i].kind = "star" /\ v.calls[i].alive =>
        LET c == v.calls[i]
            m == c.arg.match
            stars == sv.starred[sv.owner[v.cookie]]
        IN  /\ m \in v.history.pending /\ v.cookie # NoSid
            /\ m \notin v.history.doubt =>
                /\ c.answer.status = "ok" => (m \in stars <=> c.arg.flag)
                /\ c.answer.status # "ok" /\ ~c.lost => (m \in stars <=> ~c.arg.flag)
  BY DEF Stars
<1>5. \A i, j \in Slots :
        /\ v.calls[i].kind = "star" /\ v.calls[i].alive
        /\ v.calls[j].kind = "star" /\ v.calls[j].alive
        /\ v.calls[i].arg.match = v.calls[j].arg.match
        => i = j
  BY DEF Stars
<1> QED BY <1>2, <1>3, <1>4, <1>5 DEF Stars

LEMMA ShelfArgs ==
    /\ \A f \in Filters :
        LET a == [noArg EXCEPT !.filter = f]
        IN  a \in Arg /\ a.filter = f /\ a.cursor = FromNewest
    /\ \A f \in Filters, n \in MatchesOrNone :
        LET a == [noArg EXCEPT !.filter = f, !.cursor = n]
        IN  a \in Arg /\ a.filter = f /\ a.cursor = n
    /\ \A m \in MatchesOrNone :
        LET a == [noArg EXCEPT !.match = m]
        IN  a \in Arg /\ a.filter \in Filters /\ a.match = m
    /\ \A m \in MatchesOrNone, b \in BOOLEAN :
        LET a == [noArg EXCEPT !.match = m, !.flag = b]
        IN  a \in Arg /\ a.filter \in Filters /\ a.match = m /\ a.flag = b
<1>1. noArg \in Arg /\ noArg.cursor = FromNewest /\ noArg.filter \in Filters
  BY Zenon, NoCallTypes, ArgTypes DEF Filters
<1>2. \A n \in MatchesOrNone : n \in 0 .. FromNewest
  BY Bounds DEF MatchesOrNone, FromNewest
<1> QED BY Zenon, <1>1, <1>2 DEF Arg

\* The list is read from its beginning, once nothing of it is on show.
LEMMA ListAsked ==
    ASSUME NEW w, NEW x, NEW sv, Sound(w, sv), w.app.screen = "history", Vacant(w),
           ShelfTurned(x, w), x.history.listStatus = "loading", x.history.matches = <<>>,
           x.history.starred = {}, ~x.history.loadingMore,
           x.history.selected = NoMatch, x.history.wanted = NoMatch, x.history.detail = NoMatch,
           x.history.detailStatus \notin {"loading", "ready"},
           x.history.since = w.history.since, x.history.pending = w.history.pending,
           x.history.doubt = w.history.doubt,
           \A i \in Slots :
                /\ x.calls[i].kind = "star" => x.calls[i] = w.calls[i]
                /\ ~waiting(x.calls[i], {"detail"})
    PROVE  Sound(listed(x), sv)
<1> DEFINE y == superseded(x, listKinds)
           a == [noArg EXCEPT !.filter = x.history.filter]
           v == called(y, "list", a)
<1>1. listed(x) = v
  BY DEF listed
<1>2. /\ ShelfTurned(y, w) /\ y.history = x.history
      /\ \A i \in Slots :
            /\ x.calls[i].kind \notin listKinds => y.calls[i] = x.calls[i]
            /\ x.calls[i].kind \in listKinds => ~(y.calls[i].current /\ y.calls[i].alive)
            /\ y.calls[i].kind = x.calls[i].kind
  <2>1. listKinds \in SUBSET historyKinds
    BY DEF listKinds, historyKinds
  <2> QED BY <2>1, TurnSuperseded DEF Faded
<1>3. x.history \in Shelf /\ y.cookie \in SidsOrNone /\ x.history.filter \in Filters
  BY <1>2, PageParts DEF ShelfTurned, Shelf
<1>4. a \in Arg /\ a.filter = x.history.filter /\ a.cursor = FromNewest
  BY Zenon, <1>3, ShelfArgs
<1> HIDE DEF y, a, v
<1>5. \A i \in Slots : ~waiting(y.calls[i], listKinds) /\ ~waiting(y.calls[i], {"detail"})
  <2>1. ASSUME NEW i \in Slots
        PROVE  ~waiting(y.calls[i], listKinds) /\ ~waiting(y.calls[i], {"detail"})
    <3>1. CASE x.calls[i].kind \in listKinds
      BY <1>2, <3>1 DEF waiting, listKinds
    <3>2. CASE x.calls[i].kind \notin listKinds
      BY <1>2, <3>2 DEF waiting
    <3> QED BY <3>1, <3>2
  <2> QED BY <2>1
<1>6. \A i \in Slots : ShelfDue(y.calls[i], y.history)
  BY <1>5 DEF ShelfDue, waiting, listKinds
<1>7. Clear(y, "list")
  BY <1>5 DEF Clear
<1>8. ShelfDue(freshCall(y.cookie, "list", a), y.history)
  <2> DEFINE c == freshCall(y.cookie, "list", a)
  <2>1. c.kind = "list" /\ c.arg = a
    BY <1>3, <1>4, FreshCall DEF Kinds, historyKinds
  <2> HIDE DEF c
  <2>2. ShelfDue(c, y.history)
    BY <1>2, <1>4, <2>1 DEF ShelfDue, waiting, served, listKinds
  <2> QED BY <2>2 DEF c
<1>9. /\ v.history = y.history /\ v.cookie = w.cookie /\ Asked(v, y, "list", a)
      /\ HistoryRows(v, sv) /\ Stars(v, sv) => Sound(v, sv)
  <2>1. "list" \in historyKinds /\ "list" # "star"
    BY DEF historyKinds
  <2> QED BY <1>2, <1>3, <1>4, <1>6, <1>7, <1>8, <2>1, ShelfAsked DEF v
<1>10. HistoryRows(w, sv) /\ Stars(w, sv)
  BY DEF Sound, Shelved
<1>11. \E i \in Slots : waiting(v.calls[i], {"list"})
  BY <1>9 DEF Asked, waiting
<1>12. Range(v.history.matches) = {}
  BY <1>2, <1>9 DEF Range
<1>13. HistoryRows(v, sv)
  <2>1. v.history.listStatus = "loading" /\ v.history.since \subseteq sv.rows["matches"]
    BY <1>2, <1>9, <1>10 DEF HistoryRows
  <2> QED BY <1>2, <1>9, <1>11, <2>1 DEF HistoryRows
<1>14. Stars(v, sv)
  <2>1. \A i \in Slots : v.calls[i].kind = "star" => v.calls[i] = w.calls[i]
    BY <1>2, <1>9 DEF Asked, listKinds
  <2> QED BY <1>2, <1>9, <1>10, <1>12, <2>1, StarsKept
<1> QED BY <1>1, <1>9, <1>13, <1>14

LEMMA RowsCleared ==
    ASSUME NEW h \in Shelf
    PROVE  LET g == withoutRows(h)
           IN  /\ g \in Shelf /\ g.listStatus = "loading" /\ g.matches = <<>>
               /\ g.starred = {} /\ ~g.loadingMore /\ g.next = NoMore
               /\ g.selected = h.selected /\ g.wanted = h.wanted
               /\ g.detail = h.detail /\ g.detailStatus = h.detailStatus
               /\ g.since = h.since /\ g.pending = h.pending
               /\ g.doubt = h.doubt /\ g.owner = h.owner
<1> DEFINE g == withoutRows(h)
<1>1. NoMore \in MatchesOrNone /\ <<>> \in Seq(Matches)
  BY Bounds DEF NoMore, MatchesOrNone
<1>2. g \in Shelf
  BY <1>1 DEF withoutRows, Shelf
<1>3. /\ g.listStatus = "loading" /\ g.matches = <<>>
      /\ g.starred = {} /\ ~g.loadingMore /\ g.next = NoMore
      /\ g.selected = h.selected /\ g.wanted = h.wanted
      /\ g.detail = h.detail /\ g.detailStatus = h.detailStatus
  BY DEF withoutRows, Shelf
<1>4. /\ g.since = h.since /\ g.pending = h.pending
      /\ g.doubt = h.doubt /\ g.owner = h.owner
  BY DEF withoutRows, Shelf
<1> QED BY <1>2, <1>3, <1>4

LEMMA DetailCleared ==
    ASSUME NEW h \in Shelf
    PROVE  LET g == withoutDetail(h)
           IN  /\ g \in Shelf /\ g.listStatus = h.listStatus /\ g.matches = h.matches
               /\ g.starred = h.starred /\ g.loadingMore = h.loadingMore /\ g.next = h.next
               /\ g.selected = NoMatch /\ g.wanted = NoMatch
               /\ g.detail = NoMatch /\ g.detailStatus = "idle" /\ ~g.detailStarred
               /\ g.since = h.since /\ g.pending = h.pending /\ g.filter = h.filter
               /\ g.doubt = h.doubt /\ g.owner = h.owner /\ g.shown = h.shown
<1> DEFINE g == withoutDetail(h)
<1>1. NoMatch \in MatchesOrNone
  BY Bounds DEF NoMatch, MatchesOrNone
<1>2. g \in Shelf
  BY <1>1 DEF withoutDetail, Shelf
<1>3. /\ g.listStatus = h.listStatus /\ g.matches = h.matches
      /\ g.starred = h.starred /\ g.loadingMore = h.loadingMore /\ g.next = h.next
      /\ g.selected = NoMatch /\ g.wanted = NoMatch
      /\ g.detail = NoMatch /\ g.detailStatus = "idle" /\ ~g.detailStarred
  BY DEF withoutDetail, Shelf
<1>4. /\ g.since = h.since /\ g.pending = h.pending /\ g.filter = h.filter
      /\ g.doubt = h.doubt /\ g.owner = h.owner /\ g.shown = h.shown
  BY DEF withoutDetail, Shelf
<1> QED BY <1>2, <1>3, <1>4

\* Where the click's screen shows.
LEMMA RoomThere == ASSUME Room PROVE Vacant(page)
BY DEF Room, underWay, Vacant

LEMMA ListClicks ==
    ASSUME AccountSound, SelectFilter \/ RetryList
    PROVE  AccountSound'
<1>1. /\ page.app.screen = "history" /\ Vacant(page) /\ page.history.selected = NoMatch
      /\ server' = server /\ Sound(page, server) /\ page \in Page
  BY RoomThere DEF SelectFilter, RetryList, OnList, History, Reach, Asks, Shows, AccountSound, Sound
<1>2. page.history \in Shelf /\ ShelfTurned(page, page)
  BY <1>1, PageParts, TurnStart
<1>3. HistoryRows(page, server) /\ HistoryCalls(page, server)
  BY <1>1 DEF Sound, Shelved
<1>4. CASE SelectFilter
  <2>1. PICK f \in Filters : page' = selectFilter(page, f)
    BY <1>4 DEF SelectFilter, Asks, Shows
  <2> DEFINE y == superseded(page, {"detail"})
             h == filterSelected(page.history, f)
             x == with(y, h)
  <2>2. page' = listed(x)
    BY <2>1 DEF selectFilter
  <2>3. /\ ShelfTurned(y, page)
        /\ \A i \in Slots :
            /\ Faded(y.calls[i], page.calls[i])
            /\ page.calls[i].kind \notin {"detail"} => y.calls[i] = page.calls[i]
            /\ page.calls[i].kind \in {"detail"} => ~(y.calls[i].current /\ y.calls[i].alive)
    <3>1. {"detail"} \in SUBSET historyKinds
      BY DEF historyKinds
    <3> QED BY <1>2, <3>1, TurnSuperseded
  <2>4. /\ h \in Shelf /\ h.listStatus = "loading" /\ h.matches = <<>>
        /\ h.starred = {} /\ ~h.loadingMore
        /\ h.selected = NoMatch /\ h.wanted = NoMatch /\ h.detail = NoMatch
        /\ h.detailStatus = "idle"
        /\ h.since = page.history.since /\ h.pending = page.history.pending
        /\ h.doubt = page.history.doubt
    <3> DEFINE g == withoutRows(page.history)
               k == withoutDetail(g)
    <3>1. /\ g \in Shelf /\ g.listStatus = "loading" /\ g.matches = <<>>
          /\ g.starred = {} /\ ~g.loadingMore /\ g.since = page.history.since
          /\ g.pending = page.history.pending /\ g.doubt = page.history.doubt
      BY <1>2, RowsCleared
    <3> HIDE DEF g
    <3>2. /\ k \in Shelf /\ k.listStatus = g.listStatus /\ k.matches = g.matches
          /\ k.starred = g.starred /\ k.loadingMore = g.loadingMore
          /\ k.selected = NoMatch /\ k.wanted = NoMatch
          /\ k.detail = NoMatch /\ k.detailStatus = "idle"
          /\ k.since = g.since /\ k.pending = g.pending /\ k.doubt = g.doubt
      BY <3>1, DetailCleared
    <3>3. h = [k EXCEPT !.filter = f, !.errors = {}]
      BY DEF filterSelected, g
    <3> HIDE DEF k, h
    <3>4. h \in Shelf
      BY <3>2, <3>3 DEF Shelf
    <3>5. /\ h.listStatus = "loading" /\ h.matches = <<>>
          /\ h.starred = {} /\ ~h.loadingMore
          /\ h.selected = NoMatch /\ h.wanted = NoMatch /\ h.detail = NoMatch
      BY <3>1, <3>2, <3>3 DEF Shelf
    <3>6. /\ h.detailStatus = "idle"
          /\ h.since = page.history.since /\ h.pending = page.history.pending
          /\ h.doubt = page.history.doubt
      BY <3>1, <3>2, <3>3 DEF Shelf
    <3> QED BY <3>4, <3>5, <3>6
  <2> HIDE DEF y, h
  <2>5. ShelfTurned(x, page) /\ x.history = h /\ x.calls = y.calls
    BY <2>3, <2>4, TurnWith
  <2> HIDE DEF x
  <2>6. \A i \in Slots :
            /\ x.calls[i].kind = "star" => x.calls[i] = page.calls[i]
            /\ ~waiting(x.calls[i], {"detail"})
    BY <2>3, <2>5 DEF waiting, Faded
  <2>7. Sound(listed(x), server)
    BY <1>1, <2>4, <2>5, <2>6, ListAsked
  <2> QED BY <1>1, <2>2, <2>7 DEF AccountSound
<1>5. CASE RetryList
  <2> DEFINE h == withoutRows(page.history)
             x == with(page, h)
  <2>1. page' = listed(x)
    BY <1>5 DEF RetryList, Asks, Shows, retryList
  <2>2. /\ h \in Shelf /\ h.listStatus = "loading" /\ h.matches = <<>>
        /\ h.starred = {} /\ ~h.loadingMore
        /\ h.selected = page.history.selected /\ h.wanted = page.history.wanted
        /\ h.detail = page.history.detail /\ h.detailStatus = page.history.detailStatus
        /\ h.since = page.history.since /\ h.pending = page.history.pending
        /\ h.doubt = page.history.doubt
    BY <1>2, RowsCleared
  <2> HIDE DEF h
  <2>3. "expired" \in {h.listStatus, h.detailStatus} =>
            "expired" \in {page.history.listStatus, page.history.detailStatus}
    BY <2>2
  <2>4. ShelfTurned(x, page) /\ x.history = h /\ x.calls = page.calls
    BY <1>2, <2>2, <2>3, TurnWith
  <2> HIDE DEF x
  <2>5. /\ h.selected = NoMatch /\ h.wanted = NoMatch /\ h.detail = NoMatch
        /\ \A i \in Slots : ~waiting(page.calls[i], {"detail"})
    <3>1. \A i \in Slots : ~waiting(page.calls[i], {"detail"})
      BY <1>1, <1>3 DEF HistoryCalls, ShelfDue
    <3> QED BY <1>1, <1>3, <2>2, <3>1 DEF HistoryRows
  <2>6. h.detailStatus \notin {"loading", "ready"}
    BY <1>3, <2>2, <2>5 DEF HistoryRows
  <2>7. Sound(listed(x), server)
    BY <1>1, <2>2, <2>4, <2>5, <2>6, ListAsked
  <2> QED BY <1>1, <2>1, <2>7 DEF AccountSound
<1> QED BY <1>4, <1>5

LEMMA MoreSound ==
    ASSUME AccountSound, LoadMore
    PROVE  AccountSound'
<1> DEFINE h == [page.history EXCEPT !.loadingMore = TRUE, !.moreError = FALSE]
           z == with(page, h)
           x == superseded(z, listKinds)
           a == [noArg EXCEPT !.filter = page.history.filter, !.cursor = page.history.next]
           v == called(x, "more", a)
<1>1. /\ page.app.screen = "history" /\ Vacant(page) /\ server' = server
      /\ page.history.listStatus = "ready" /\ page.history.next # NoMore
      /\ page' = v /\ Sound(page, server) /\ page \in Page
  BY RoomThere DEF LoadMore, OnList, History, Reach, Asks, Shows, AccountSound, Sound, loadMore
<1>2. page.history \in Shelf /\ ShelfTurned(page, page)
  BY <1>1, PageParts, TurnStart
<1>3. HistoryRows(page, server) /\ HistoryCalls(page, server) /\ Stars(page, server)
  BY <1>1 DEF Sound, Shelved
<1>4. page.history.filter \in Filters /\ page.history.next \in MatchesOrNone
  BY <1>2 DEF Shelf
<1>5. a \in Arg /\ a.filter = page.history.filter /\ a.cursor = page.history.next
  <2> DEFINE f == page.history.filter
             n == page.history.next
  <2>1. f \in Filters /\ n \in MatchesOrNone
    BY <1>4
  <2> HIDE DEF f, n
  <2> DEFINE b == [noArg EXCEPT !.filter = f, !.cursor = n]
  <2>2. \A ff \in Filters, nn \in MatchesOrNone :
        LET aa == [noArg EXCEPT !.filter = ff, !.cursor = nn]
        IN  aa \in Arg /\ aa.filter = ff /\ aa.cursor = nn
    BY Zenon, ShelfArgs
  <2>3. b \in Arg /\ b.filter = f /\ b.cursor = n
    BY Zenon, <2>1, <2>2
  <2> QED BY <2>3 DEF f, n
<1>6. h \in Shelf
  BY <1>2 DEF Shelf
<1>7. /\ h.filter = page.history.filter /\ h.listStatus = "ready"
      /\ h.matches = page.history.matches /\ h.starred = page.history.starred
      /\ h.next = page.history.next /\ h.selected = page.history.selected
      /\ h.detailStatus = page.history.detailStatus /\ h.detail = page.history.detail
  BY <1>1, <1>2 DEF Shelf
<1>8. /\ h.detailStarred = page.history.detailStarred /\ h.pending = page.history.pending
      /\ h.since = page.history.since /\ h.shown = page.history.shown
      /\ h.wanted = page.history.wanted /\ h.owner = page.history.owner
      /\ h.doubt = page.history.doubt
  BY <1>2 DEF Shelf
<1> HIDE DEF h, a
<1>9. ShelfTurned(z, page) /\ z.history = h /\ z.calls = page.calls
  BY <1>2, <1>6, <1>7, TurnWith
<1> HIDE DEF z
<1>10. /\ ShelfTurned(x, page) /\ x.history = h
       /\ \A i \in Slots :
            /\ page.calls[i].kind \notin listKinds => x.calls[i] = page.calls[i]
            /\ page.calls[i].kind \in listKinds => ~(x.calls[i].current /\ x.calls[i].alive)
            /\ x.calls[i].kind = page.calls[i].kind
  <2>1. listKinds \in SUBSET historyKinds
    BY DEF listKinds, historyKinds
  <2> QED BY <1>9, <2>1, TurnSuperseded DEF Faded
<1>11. x.cookie \in SidsOrNone
  BY <1>10, PageParts DEF ShelfTurned
<1> HIDE DEF x
<1>12. \A i \in Slots : ~waiting(x.calls[i], listKinds)
  BY <1>10 DEF waiting
<1>13. listOf(h)
  <2>1. listOf(page.history)
    BY <1>1, <1>3 DEF HistoryRows
  <2> QED BY <1>7, <1>8, <2>1 DEF listOf
<1>14. \A i \in Slots : ShelfDue(x.calls[i], x.history)
  <2> SUFFICES ASSUME NEW i \in Slots PROVE ShelfDue(x.calls[i], h)
    BY <1>10
  <2>1. ShelfDue(page.calls[i], page.history)
    BY <1>3 DEF HistoryCalls
  <2>2. CASE page.calls[i].kind \in listKinds
    BY <1>10, <2>2 DEF ShelfDue, waiting, listKinds
  <2>3. CASE page.calls[i].kind \notin listKinds
    BY <1>7, <1>10, <2>1, <2>3 DEF ShelfDue, waiting, listKinds
  <2> QED BY <2>2, <2>3
<1>15. Clear(x, "more")
  BY <1>12 DEF Clear
<1>16. ShelfDue(freshCall(x.cookie, "more", a), x.history)
  <2> DEFINE c == freshCall(x.cookie, "more", a)
  <2>1. c.kind = "more" /\ c.arg = a /\ c.answer.status = "none"
    BY <1>5, <1>11, FreshCall DEF Kinds, historyKinds
  <2> HIDE DEF c
  <2>2. ShelfDue(c, h)
    BY <1>1, <1>5, <1>7, <1>13, <2>1 DEF ShelfDue, waiting, served, listKinds
  <2> QED BY <1>10, <2>2 DEF c
<1>17. /\ v.history = x.history /\ v.cookie = page.cookie /\ Asked(v, x, "more", a)
       /\ HistoryRows(v, server) /\ Stars(v, server) => Sound(v, server)
  <2>1. "more" \in historyKinds /\ "more" # "star"
    BY DEF historyKinds
  <2> QED BY <1>1, <1>4, <1>5, <1>10, <1>14, <1>15, <1>16, <2>1, ShelfAsked
<1> HIDE DEF v
<1>18. \E i \in Slots : waiting(v.calls[i], {"more"})
  BY <1>17 DEF Asked, waiting
<1>19. \A i \in Slots : page.calls[i].kind \notin listKinds => v.calls[i] = page.calls[i] \/ page.calls[i].kind = "none"
  BY <1>10, <1>17 DEF Asked
<1>20. (\E i \in Slots : waiting(page.calls[i], {"detail"})) => \E i \in Slots : waiting(v.calls[i], {"detail"})
  BY <1>19 DEF waiting, listKinds
<1>21. HistoryRows(v, server)
  <2>1. v.history = h
    BY <1>10, <1>17
  <2>2. h.listStatus # "loading" /\ h.detailStatus = page.history.detailStatus
    BY <1>7
  <2>3. /\ h.starred \subseteq Range(h.matches) /\ h.since \subseteq server.rows["matches"]
        /\ h.detail # NoMatch => h.detail = h.selected
        /\ h.detailStatus = "ready" => h.detail # NoMatch
        /\ h.selected = h.wanted
        /\ h.selected # NoMatch => h.next <= h.selected
    BY <1>3, <1>7, <1>8 DEF HistoryRows
  <2>4. h.owner = server.owner[v.cookie] /\ v.cookie # NoSid
    BY <1>1, <1>3, <1>8, <1>17 DEF HistoryRows
  <2>5. h.detailStatus = "loading" => \E i \in Slots : waiting(v.calls[i], {"detail"})
    BY <1>3, <1>20, <2>2 DEF HistoryRows
  <2> QED BY <1>13, <1>18, <2>1, <2>2, <2>3, <2>4, <2>5 DEF HistoryRows
<1>22. Stars(v, server)
  <2>1. \A i \in Slots : v.calls[i].kind = "star" => v.calls[i] = page.calls[i]
    BY <1>10, <1>17 DEF Asked, listKinds
  <2> QED BY <1>3, <1>7, <1>8, <1>10, <1>17, <2>1, StarsKept
<1> QED BY <1>1, <1>17, <1>21, <1>22 DEF AccountSound

\* A match is opened, from the list or again, with no list on its way.
LEMMA DetailAsked ==
    ASSUME NEW w, NEW sv, Sound(w, sv), w.app.screen = "history", Vacant(w),
           NEW m \in Matches, w.history.next <= m,
           w.history.listStatus = "ready" \/ w.history.selected # NoMatch
    PROVE  Sound(loadDetail(w, m), sv)
<1> DEFINE g == withoutDetail(w.history)
           h == [g EXCEPT !.selected = m, !.wanted = m, !.detailStatus = "loading"]
           z == with(w, h)
           x == superseded(z, {"detail"})
           a == [noArg EXCEPT !.match = m]
           v == called(x, "detail", a)
<1>1. loadDetail(w, m) = v
  BY DEF loadDetail
<1>2. /\ w.history \in Shelf /\ ShelfTurned(w, w) /\ m # NoMatch /\ m \in MatchesOrNone
      /\ sv \in Server
  BY PageParts, TurnStart, Bounds DEF Sound, NoMatch, Matches, MatchesOrNone
<1>3. HistoryRows(w, sv) /\ HistoryCalls(w, sv) /\ Stars(w, sv)
  BY DEF Sound, Shelved
<1>4. /\ g \in Shelf /\ g.listStatus = w.history.listStatus /\ g.matches = w.history.matches
      /\ g.starred = w.history.starred /\ g.loadingMore = w.history.loadingMore
      /\ g.next = w.history.next /\ g.detail = NoMatch
      /\ g.since = w.history.since /\ g.pending = w.history.pending
      /\ g.filter = w.history.filter
      /\ g.doubt = w.history.doubt /\ g.owner = w.history.owner /\ g.shown = w.history.shown
  BY <1>2, DetailCleared
<1> HIDE DEF g
<1>5. h \in Shelf
  BY <1>2, <1>4 DEF Shelf
<1>6. /\ h.filter = w.history.filter /\ h.listStatus = w.history.listStatus
      /\ h.matches = w.history.matches /\ h.starred = w.history.starred
      /\ h.next = w.history.next /\ h.loadingMore = w.history.loadingMore
  BY <1>4 DEF Shelf
<1>7. h.selected = m /\ h.wanted = m /\ h.detailStatus = "loading" /\ h.detail = NoMatch
  BY <1>4 DEF Shelf
<1>8. /\ h.pending = w.history.pending /\ h.since = w.history.since
      /\ h.shown = w.history.shown /\ h.owner = w.history.owner /\ h.doubt = w.history.doubt
  BY <1>4 DEF Shelf
<1> HIDE DEF h
<1>9. a \in Arg /\ a.filter \in Filters /\ a.match = m
  BY Zenon, <1>2, ShelfArgs
<1> HIDE DEF a
<1>10. ShelfTurned(z, w) /\ z.history = h /\ z.calls = w.calls
  BY <1>2, <1>5, <1>6, <1>7, TurnWith
<1> HIDE DEF z
<1>11. /\ ShelfTurned(x, w) /\ x.history = h
       /\ \A i \in Slots :
            /\ w.calls[i].kind # "detail" => x.calls[i] = w.calls[i]
            /\ w.calls[i].kind = "detail" => ~(x.calls[i].current /\ x.calls[i].alive)
            /\ x.calls[i].kind = w.calls[i].kind
  <2>1. {"detail"} \in SUBSET historyKinds
    BY DEF historyKinds
  <2> QED BY <1>10, <2>1, TurnSuperseded DEF Faded
<1>12. x.cookie \in SidsOrNone
  BY <1>11, PageParts DEF ShelfTurned
<1> HIDE DEF x
<1>13. \A i \in Slots : ~waiting(w.calls[i], {"list"})
  BY <1>3 DEF HistoryCalls, ShelfDue
<1>14. \A i \in Slots : ShelfDue(x.calls[i], x.history)
  <2> SUFFICES ASSUME NEW i \in Slots PROVE ShelfDue(x.calls[i], h)
    BY <1>11
  <2>1. ShelfDue(w.calls[i], w.history)
    BY <1>3 DEF HistoryCalls
  <2>2. CASE w.calls[i].kind = "detail"
    BY <1>11, <2>2 DEF ShelfDue, waiting, listKinds
  <2>3. CASE w.calls[i].kind # "detail"
    <3>1. listOf(w.history) => listOf(h)
      BY <1>6, <1>8 DEF listOf
    <3> QED BY <1>6, <1>8, <1>11, <1>13, <2>1, <2>3, <3>1 DEF ShelfDue, waiting, listKinds
  <2> QED BY <2>2, <2>3
<1>15. Clear(x, "detail")
  BY <1>11 DEF Clear, waiting, listKinds
<1>16. ShelfDue(freshCall(x.cookie, "detail", a), x.history)
  <2> DEFINE c == freshCall(x.cookie, "detail", a)
  <2>1. c.kind = "detail" /\ c.arg = a /\ c.answer.status = "none"
    BY <1>9, <1>12, FreshCall DEF Kinds, historyKinds
  <2> HIDE DEF c
  <2>2. ShelfDue(c, h)
    BY <1>2, <1>7, <1>9, <2>1 DEF ShelfDue, waiting, listKinds
  <2> QED BY <1>11, <2>2 DEF c
<1>17. /\ v.history = x.history /\ v.cookie = w.cookie /\ Asked(v, x, "detail", a)
       /\ HistoryRows(v, sv) /\ Stars(v, sv) => Sound(v, sv)
  <2>1. "detail" \in historyKinds /\ "detail" # "star"
    BY DEF historyKinds
  <2> QED BY <1>9, <1>11, <1>14, <1>15, <1>16, <2>1, ShelfAsked
<1> HIDE DEF v
<1>18. \E i \in Slots : waiting(v.calls[i], {"detail"})
  BY <1>17 DEF Asked, waiting
<1>19. \A i \in Slots : w.calls[i].kind \notin {"detail", "none"} => v.calls[i] = w.calls[i]
  BY <1>11, <1>17 DEF Asked
<1>20. \A kinds \in {{"list"}, {"more"}} :
        (\E i \in Slots : waiting(w.calls[i], kinds)) => \E i \in Slots : waiting(v.calls[i], kinds)
  BY <1>19 DEF waiting
<1>21. HistoryRows(v, sv)
  <2>1. v.history = h
    BY <1>11, <1>17
  <2>2. listOf(w.history) => listOf(h)
    BY <1>6, <1>8 DEF listOf
  <2>3. h.owner = sv.owner[w.cookie] /\ w.cookie # NoSid
    BY <1>3, <1>8 DEF HistoryRows
  <2>4. /\ h.starred \subseteq Range(h.matches) /\ h.since \subseteq sv.rows["matches"]
        /\ h.listStatus = "ready" => listOf(h)
        /\ h.listStatus = "loading" => \E i \in Slots : waiting(v.calls[i], {"list"})
        /\ h.loadingMore => \E i \in Slots : waiting(v.calls[i], {"more"})
    BY <1>3, <1>6, <1>8, <1>20, <2>2 DEF HistoryRows
  <2> QED BY <1>6, <1>7, <1>17, <1>18, <2>1, <2>3, <2>4 DEF HistoryRows
<1>22. Stars(v, sv)
  <2>1. \A i \in Slots : v.calls[i].kind = "star" => v.calls[i] = w.calls[i]
    BY <1>11, <1>17 DEF Asked
  <2> QED BY <1>3, <1>6, <1>7, <1>8, <1>11, <1>17, <2>1, StarsKept
<1> QED BY <1>1, <1>17, <1>21, <1>22

LEMMA DetailClicks ==
    ASSUME AccountSound, OpenDetail \/ RetryDetail
    PROVE  AccountSound'
<1>1. /\ page.app.screen = "history" /\ Vacant(page) /\ server' = server
      /\ Sound(page, server) /\ page.history \in Shelf
  BY RoomThere, PageParts
  DEF OpenDetail, RetryDetail, OnList, InDetail, Reach, Asks, Shows, AccountSound, Sound
<1>2. HistoryRows(page, server)
  BY <1>1 DEF Sound, Shelved
<1>3. CASE OpenDetail
  <2>1. PICK m \in Range(page.history.matches) :
            page' = loadDetail(page, m) /\ page.history.listStatus = "ready"
    BY <1>3 DEF OpenDetail, Asks, Shows, History
  <2>2. m \in Matches
    BY <1>1 DEF Shelf, Range
  <2>3. page.history.next <= m
    BY <1>2, <2>1 DEF HistoryRows, listOf, Joined
  <2> QED BY <1>1, <2>1, <2>2, <2>3, DetailAsked DEF AccountSound
<1>4. CASE RetryDetail
  <2> DEFINE m == page.history.selected
  <2>1. page' = loadDetail(page, m) /\ m # NoMatch
    BY <1>4 DEF RetryDetail, InDetail, Asks, Shows, History
  <2>2. m \in Matches
    BY <1>1, <2>1, Bounds DEF Shelf, MatchesOrNone, Matches, NoMatch
  <2>3. page.history.next <= m
    BY <1>2, <2>1 DEF HistoryRows
  <2> QED BY <1>1, <2>1, <2>2, <2>3, DetailAsked DEF AccountSound
<1> QED BY <1>3, <1>4

LEMMA DetailClosed ==
    ASSUME AccountSound, CloseDetail
    PROVE  AccountSound'
<1> DEFINE h == withoutDetail(page.history)
           y == superseded(page, {"detail"})
           x == with(y, h)
<1>1. /\ page.app.screen = "history" /\ server' = server /\ page' = x
      /\ Sound(page, server) /\ page.history \in Shelf /\ ShelfTurned(page, page)
  BY PageParts, TurnStart DEF CloseDetail, InDetail, Reach, Shows, AccountSound, Sound, closeDetail
<1>2. HistoryRows(page, server) /\ HistoryCalls(page, server) /\ Stars(page, server)
      /\ StarsRead(page, server)
  BY <1>1 DEF Sound, Shelved
<1>3. /\ h \in Shelf /\ h.listStatus = page.history.listStatus /\ h.matches = page.history.matches
      /\ h.starred = page.history.starred /\ h.loadingMore = page.history.loadingMore
      /\ h.next = page.history.next /\ h.selected = NoMatch /\ h.wanted = NoMatch
      /\ h.detail = NoMatch /\ h.detailStatus = "idle"
      /\ h.since = page.history.since /\ h.pending = page.history.pending
      /\ h.filter = page.history.filter /\ h.doubt = page.history.doubt
      /\ h.owner = page.history.owner /\ h.shown = page.history.shown
  BY <1>1, DetailCleared
<1> HIDE DEF h
<1>4. /\ ShelfTurned(y, page)
      /\ \A i \in Slots :
            /\ page.calls[i].kind # "detail" => y.calls[i] = page.calls[i]
            /\ page.calls[i].kind = "detail" => ~(y.calls[i].current /\ y.calls[i].alive)
            /\ Faded(y.calls[i], page.calls[i])
  <2>1. {"detail"} \in SUBSET historyKinds
    BY DEF historyKinds
  <2> QED BY <1>1, <2>1, TurnSuperseded DEF Faded
<1> HIDE DEF y
<1>5. ShelfTurned(x, page) /\ x.history = h /\ x.calls = y.calls
  BY <1>3, <1>4, TurnWith
<1> HIDE DEF x
<1>6. \A i \in Slots : Faded(x.calls[i], page.calls[i])
  BY <1>4, <1>5
<1>7. StarsRead(x, server) /\ \A i \in Slots : ShelfRead(x.calls[i], server)
  BY <1>2, <1>6, ShelfReadKept DEF HistoryCalls, StarsRead
<1>8. Sole(x, listKinds) /\ Sole(x, {"detail"})
  <2>1. \A i \in Slots : \A kinds : waiting(x.calls[i], kinds) => waiting(page.calls[i], kinds)
    BY <1>6 DEF Faded, waiting
  <2> QED BY <1>2, <2>1 DEF HistoryCalls, Sole
<1>9. listOf(page.history) => listOf(h)
  BY <1>3 DEF listOf
<1>10. \A i \in Slots : ShelfDue(x.calls[i], x.history)
  <2> SUFFICES ASSUME NEW i \in Slots PROVE ShelfDue(x.calls[i], h)
    BY <1>5
  <2>1. ShelfDue(page.calls[i], page.history)
    BY <1>2 DEF HistoryCalls
  <2>2. CASE page.calls[i].kind = "detail"
    BY <1>4, <1>5, <2>2 DEF ShelfDue, waiting, listKinds, Faded
  <2>3. CASE page.calls[i].kind # "detail"
    BY <1>3, <1>4, <1>5, <1>9, <2>1, <2>3 DEF ShelfDue, waiting, listKinds
  <2> QED BY <2>2, <2>3
<1>11. HistoryCalls(x, server)
  BY <1>7, <1>8, <1>10 DEF HistoryCalls
<1>12. x.cookie = page.cookie
  BY <1>5 DEF ShelfTurned
<1>13. \A kinds \in {{"list"}, {"more"}} :
        (\E i \in Slots : waiting(page.calls[i], kinds)) => \E i \in Slots : waiting(x.calls[i], kinds)
  BY <1>4, <1>5 DEF waiting
<1>14. HistoryRows(x, server)
  <2>1. /\ h.starred \subseteq Range(h.matches) /\ h.since \subseteq server.rows["matches"]
        /\ h.listStatus = "ready" => listOf(h)
        /\ h.listStatus = "ready" \/ h.matches # <<>> =>
              h.owner = server.owner[x.cookie] /\ x.cookie # NoSid
    BY <1>2, <1>3, <1>9, <1>12 DEF HistoryRows
  <2>2. /\ h.listStatus = "loading" => \E i \in Slots : waiting(x.calls[i], {"list"})
        /\ h.loadingMore => \E i \in Slots : waiting(x.calls[i], {"more"})
    BY <1>2, <1>3, <1>13 DEF HistoryRows
  <2> QED BY <1>3, <1>5, <2>1, <2>2 DEF HistoryRows
<1>15. Stars(x, server)
  <2>1. \A i \in Slots : x.calls[i].kind = "star" => x.calls[i] = page.calls[i]
    BY <1>4, <1>5 DEF Faded
  <2> QED BY <1>2, <1>3, <1>5, <1>12, <2>1, StarsKept
<1>16. Sound(x, server)
  BY <1>1, <1>5, <1>7, <1>11, <1>14, <1>15, ShelfTurnSound DEF Shelved
<1> QED BY <1>1, <1>16 DEF AccountSound

\* A star is shown before it is saved.
LEMMA BookmarkFields ==
    ASSUME NEW h \in Shelf, NEW m \in Matches, NEW b \in BOOLEAN
    PROVE  LET g == setBookmark(h, m, b)
           IN  /\ g \in Shelf /\ \A n \in Matches \ {m} : n \in g.starred <=> n \in h.starred
               /\ m \in Range(h.matches) => (m \in g.starred <=> b)
               /\ h.starred \subseteq Range(h.matches) => g.starred \subseteq Range(h.matches)
               /\ g.detailStarred = IF h.detail = m THEN b ELSE h.detailStarred
               /\ g.filter = h.filter /\ g.listStatus = h.listStatus /\ g.matches = h.matches
               /\ g.next = h.next /\ g.loadingMore = h.loadingMore /\ g.selected = h.selected
               /\ g.detailStatus = h.detailStatus /\ g.detail = h.detail
               /\ g.pending = h.pending /\ g.since = h.since /\ g.shown = h.shown
               /\ g.wanted = h.wanted /\ g.owner = h.owner /\ g.doubt = h.doubt
<1> DEFINE s == IF b /\ m \in Range(h.matches) THEN h.starred \cup {m} ELSE h.starred \ {m}
           d == IF h.detail = m THEN b ELSE h.detailStarred
           g == setBookmark(h, m, b)
<1>1. g = [h EXCEPT !.starred = s, !.detailStarred = d]
  BY DEF setBookmark
<1>2. /\ s \in SUBSET Matches /\ d \in BOOLEAN
      /\ \A n \in Matches \ {m} : n \in s <=> n \in h.starred
      /\ m \in Range(h.matches) => (m \in s <=> b)
      /\ h.starred \subseteq Range(h.matches) => s \subseteq Range(h.matches)
  BY DEF Shelf
<1> HIDE DEF s, g
<1> HIDE DEF d
<1>3. g \in Shelf /\ g.starred = s /\ g.detailStarred = d
  BY <1>1, <1>2 DEF Shelf
<1>4. /\ g.filter = h.filter /\ g.listStatus = h.listStatus /\ g.matches = h.matches
      /\ g.next = h.next /\ g.loadingMore = h.loadingMore /\ g.selected = h.selected
      /\ g.detailStatus = h.detailStatus /\ g.detail = h.detail
  BY <1>1 DEF Shelf
<1>5. /\ g.pending = h.pending /\ g.since = h.since /\ g.shown = h.shown
      /\ g.wanted = h.wanted /\ g.owner = h.owner /\ g.doubt = h.doubt
  BY <1>1 DEF Shelf
<1> QED BY <1>2, <1>3, <1>4, <1>5 DEF g, d

LEMMA SaveAsked ==
    ASSUME NEW w, NEW sv, Sound(w, sv), w.app.screen = "history", Vacant(w),
           NEW m \in Matches, NEW b \in BOOLEAN, m \notin w.history.pending, w.cookie # NoSid,
           m \notin w.history.doubt => (m \in sv.starred[sv.owner[w.cookie]] <=> ~b)
    PROVE  Sound(saveBookmark(w, m, b), sv)
<1> DEFINE g == setBookmark(w.history, m, b)
           h == bookmarkStarted(w.history, m, b)
           x == with(w, h)
           a == [noArg EXCEPT !.match = m, !.flag = b]
           v == called(x, "star", a)
           stars == sv.starred[sv.owner[w.cookie]]
<1>1. saveBookmark(w, m, b) = v
  BY DEF saveBookmark
<1>2. /\ w.history \in Shelf /\ ShelfTurned(w, w) /\ m # NoMatch /\ m \in MatchesOrNone
  BY PageParts, TurnStart, Bounds DEF Sound, NoMatch, Matches, MatchesOrNone
<1>3. HistoryRows(w, sv) /\ HistoryCalls(w, sv) /\ Stars(w, sv)
  BY DEF Sound, Shelved
<1>4. /\ g \in Shelf /\ \A n \in Matches \ {m} : n \in g.starred <=> n \in w.history.starred
      /\ w.history.starred \subseteq Range(w.history.matches) => g.starred \subseteq Range(w.history.matches)
      /\ g.detailStarred = IF w.history.detail = m THEN b ELSE w.history.detailStarred
      /\ g.filter = w.history.filter /\ g.listStatus = w.history.listStatus
      /\ g.matches = w.history.matches /\ g.next = w.history.next
      /\ g.loadingMore = w.history.loadingMore /\ g.selected = w.history.selected
      /\ g.detailStatus = w.history.detailStatus /\ g.detail = w.history.detail
      /\ g.pending = w.history.pending /\ g.since = w.history.since /\ g.shown = w.history.shown
      /\ g.wanted = w.history.wanted /\ g.owner = w.history.owner /\ g.doubt = w.history.doubt
  BY <1>2, BookmarkFields
<1>5. h = [g EXCEPT !.pending = g.pending \cup {m}, !.errors = g.errors \ {m}]
  BY DEF bookmarkStarted
<1> HIDE DEF g, h
<1>6. h \in Shelf
  BY <1>4, <1>5 DEF Shelf
<1>7. /\ h.starred = g.starred /\ h.detailStarred = g.detailStarred
      /\ h.filter = w.history.filter /\ h.listStatus = w.history.listStatus
      /\ h.matches = w.history.matches /\ h.next = w.history.next
      /\ h.loadingMore = w.history.loadingMore /\ h.selected = w.history.selected
      /\ h.detailStatus = w.history.detailStatus /\ h.detail = w.history.detail
  BY <1>4, <1>5 DEF Shelf
<1>8. /\ h.pending = w.history.pending \cup {m} /\ h.since = w.history.since
      /\ h.shown = w.history.shown /\ h.wanted = w.history.wanted
      /\ h.owner = w.history.owner /\ h.doubt = w.history.doubt
  BY <1>4, <1>5 DEF Shelf
<1>9. a \in Arg /\ a.filter \in Filters /\ a.match = m /\ a.flag = b
  <2>1. \A n \in MatchesOrNone, f \in BOOLEAN :
        LET c == [noArg EXCEPT !.match = n, !.flag = f]
        IN  c \in Arg /\ c.filter \in Filters /\ c.match = n /\ c.flag = f
    BY Zenon, ShelfArgs
  <2> QED BY Zenon, <1>2, <2>1
<1> HIDE DEF a
<1>10. ShelfTurned(x, w) /\ x.history = h /\ x.calls = w.calls /\ x.cookie \in SidsOrNone
  <2>1. ShelfTurned(x, w) /\ x.history = h /\ x.calls = w.calls
    BY <1>2, <1>6, <1>7, TurnWith
  <2> QED BY <2>1, PageParts DEF ShelfTurned
<1> HIDE DEF x
<1>11. listOf(w.history) => listOf(h)
  BY <1>7, <1>8 DEF listOf
<1>12. \A i \in Slots : ShelfDue(x.calls[i], x.history)
  <2> SUFFICES ASSUME NEW i \in Slots PROVE ShelfDue(w.calls[i], h)
    BY <1>10
  <2>1. ShelfDue(w.calls[i], w.history)
    BY <1>3 DEF HistoryCalls
  <2> QED BY <1>7, <1>8, <1>11, <2>1 DEF ShelfDue
<1>13. Clear(x, "star")
  BY DEF Clear, listKinds
<1>14. ShelfDue(freshCall(x.cookie, "star", a), x.history)
  <2> DEFINE c == freshCall(x.cookie, "star", a)
  <2>1. c.kind = "star"
    BY <1>9, <1>10, FreshCall DEF Kinds, historyKinds
  <2> HIDE DEF c
  <2>2. ShelfDue(c, h)
    BY <2>1 DEF ShelfDue, waiting, listKinds
  <2> QED BY <1>10, <2>2 DEF c
<1>15. /\ v.history = x.history /\ v.cookie = w.cookie /\ Asked(v, x, "star", a)
       /\ HistoryRows(v, sv) /\ Stars(v, sv) => Sound(v, sv)
  <2>1. "star" \in historyKinds
    BY DEF historyKinds
  <2> QED BY <1>2, <1>9, <1>10, <1>12, <1>13, <1>14, <2>1, ShelfAsked
<1> HIDE DEF v, stars
<1>16. PICK n \in Slots :
        /\ w.calls[n].kind = "none" /\ v.calls[n].kind = "star" /\ v.calls[n].arg = a
        /\ v.calls[n].answer.status = "none" /\ ~v.calls[n].lost
        /\ \A i \in Slots \ {n} : v.calls[i] = w.calls[i]
  BY <1>10, <1>15 DEF Asked
<1>17. \A kinds \in {{"list"}, {"more"}, {"detail"}} :
        (\E i \in Slots : waiting(w.calls[i], kinds)) => \E i \in Slots : waiting(v.calls[i], kinds)
  BY <1>16 DEF waiting
<1>18. HistoryRows(v, sv)
  <2>1. v.history = h
    BY <1>10, <1>15
  <2>2. /\ h.starred \subseteq Range(h.matches) /\ h.since \subseteq sv.rows["matches"]
        /\ h.listStatus = "ready" => listOf(h)
        /\ h.detail # NoMatch => h.detail = h.selected
        /\ h.detailStatus = "ready" => h.detail # NoMatch
        /\ h.selected = h.wanted
        /\ h.selected # NoMatch => h.next <= h.selected
    BY <1>3, <1>4, <1>7, <1>8, <1>11 DEF HistoryRows
  <2>3. h.listStatus = "ready" \/ h.matches # <<>> \/ h.selected # NoMatch =>
            h.owner = sv.owner[v.cookie] /\ v.cookie # NoSid
    BY <1>3, <1>7, <1>8, <1>15 DEF HistoryRows
  <2>4. /\ h.listStatus = "loading" => \E i \in Slots : waiting(v.calls[i], {"list"})
        /\ h.loadingMore => \E i \in Slots : waiting(v.calls[i], {"more"})
        /\ h.detailStatus = "loading" => \E i \in Slots : waiting(v.calls[i], {"detail"})
    BY <1>3, <1>7, <1>17 DEF HistoryRows
  <2> QED BY <2>1, <2>2, <2>3, <2>4 DEF HistoryRows
<1>19. Stars(v, sv)
  <2>1. v.history = h /\ v.cookie = w.cookie /\ sv.starred[sv.owner[v.cookie]] = stars
    BY <1>10, <1>15 DEF stars
  <2>2. \A i \in Slots : w.calls[i].kind = "star" /\ w.calls[i].alive =>
            w.calls[i].arg.match # m /\ w.calls[i].arg.match \in h.pending
    BY <1>3, <1>8 DEF Stars
  <2>3. \A k \in Range(h.matches) : k \notin h.pending \cup h.doubt =>
            (k \in h.starred <=> k \in stars)
    <3> SUFFICES ASSUME NEW k \in Range(h.matches), k \notin h.pending \cup h.doubt
                 PROVE  k \in h.starred <=> k \in stars
      OBVIOUS
    <3>1. k \in Matches /\ k # m /\ k \notin w.history.pending \cup w.history.doubt
      BY <1>6, <1>8 DEF Shelf, Range
    <3>2. k \in h.starred <=> k \in w.history.starred
      BY <1>4, <1>7, <3>1
    <3> QED BY <1>3, <1>7, <3>1, <3>2 DEF Stars, stars
  <2>4. h.detail # NoMatch /\ h.detail \notin h.pending \cup h.doubt =>
            (h.detailStarred <=> h.detail \in stars)
    BY <1>3, <1>4, <1>7, <1>8 DEF Stars, stars
  <2>5. \A i \in Slots : v.calls[i].kind = "star" /\ v.calls[i].alive =>
            LET c == v.calls[i]
                k == c.arg.match
            IN  /\ k \in h.pending /\ w.cookie # NoSid
                /\ k \notin h.doubt =>
                    /\ c.answer.status = "ok" => (k \in stars <=> c.arg.flag)
                    /\ c.answer.status # "ok" /\ ~c.lost => (k \in stars <=> ~c.arg.flag)
    <3> SUFFICES ASSUME NEW i \in Slots, v.calls[i].kind = "star", v.calls[i].alive
                 PROVE  LET c == v.calls[i]
                            k == c.arg.match
                        IN  /\ k \in h.pending /\ w.cookie # NoSid
                            /\ k \notin h.doubt =>
                                /\ c.answer.status = "ok" => (k \in stars <=> c.arg.flag)
                                /\ c.answer.status # "ok" /\ ~c.lost => (k \in stars <=> ~c.arg.flag)
      OBVIOUS
    <3>1. CASE i = n
      BY <1>8, <1>9, <1>16, <3>1 DEF stars
    <3>2. CASE i # n
      BY <1>3, <1>8, <1>16, <3>2 DEF Stars, stars
    <3> QED BY <3>1, <3>2
  <2>6. \A i, j \in Slots :
            /\ v.calls[i].kind = "star" /\ v.calls[i].alive
            /\ v.calls[j].kind = "star" /\ v.calls[j].alive
            /\ v.calls[i].arg.match = v.calls[j].arg.match
            => i = j
    BY <1>3, <1>9, <1>16, <2>2 DEF Stars
  <2> QED BY <2>1, <2>3, <2>4, <2>5, <2>6 DEF Stars
<1> QED BY <1>1, <1>15, <1>18, <1>19

LEMMA SaveSound ==
    ASSUME AccountSound, SaveBookmark
    PROVE  AccountSound'
<1>1. /\ page.app.screen = "history" /\ Vacant(page) /\ server' = server
      /\ Sound(page, server) /\ page.history \in Shelf
  BY RoomThere, PageParts
  DEF SaveBookmark, OnList, InDetail, Reach, Asks, Shows, AccountSound, Sound
<1>2. HistoryRows(page, server) /\ Stars(page, server)
  BY <1>1 DEF Sound, Shelved
<1> DEFINE h == page.history
           stars == server.starred[server.owner[page.cookie]]
<1>3. ASSUME NEW m \in Range(h.matches), h.listStatus = "ready", m \notin h.pending,
             page' = saveBookmark(page, m, m \notin h.starred)
      PROVE  AccountSound'
  <2> DEFINE b == m \notin h.starred
  <2>1. m \in Matches /\ b \in BOOLEAN
    BY <1>1, <1>3 DEF Shelf, Range
  <2>2. page.cookie # NoSid
    BY <1>2, <1>3 DEF HistoryRows
  <2>3. m \notin h.doubt => (m \in stars <=> ~b)
    BY <1>2, <1>3 DEF Stars
  <2> HIDE DEF b
  <2>4. page' = saveBookmark(page, m, b)
    BY <1>3 DEF b
  <2> QED BY <1>1, <1>3, <2>1, <2>2, <2>3, <2>4, SaveAsked DEF AccountSound
<1>4. ASSUME h.detailStatus = "ready", h.detail \notin h.pending,
             page' = saveBookmark(page, h.detail, ~h.detailStarred)
      PROVE  AccountSound'
  <2> DEFINE m == h.detail
             b == ~h.detailStarred
  <2>1. h.detail # NoMatch /\ h.selected # NoMatch
    BY <1>2, <1>4 DEF HistoryRows
  <2>2. m \in Matches /\ b \in BOOLEAN
    BY <1>1, <2>1, Bounds DEF Shelf, MatchesOrNone, Matches, NoMatch
  <2>3. page.cookie # NoSid
    BY <1>2, <2>1 DEF HistoryRows
  <2>4. m \notin h.doubt => (m \in stars <=> ~b)
    BY <1>1, <1>2, <1>4, <2>1 DEF Stars, Shelf
  <2> HIDE DEF b, m
  <2>5. page' = saveBookmark(page, m, b) /\ m \notin h.pending
    BY <1>4 DEF b, m
  <2> QED BY <1>1, <2>2, <2>3, <2>4, <2>5, SaveAsked DEF AccountSound
<1> QED BY <1>3, <1>4 DEF SaveBookmark, Asks, Shows, maySave, History

\* The session and the socket after a step that changes neither the cookie nor a list, and
\* that may take the answer of a call of the account.
SessionStep(v, w) ==
    /\ v \in Page /\ v.cookie = w.cookie /\ v.history = w.history /\ v.admin = w.admin
    /\ v.app.screen = w.app.screen /\ v.app.returnTo = w.app.returnTo
    /\ v.app.adminOpen = w.app.adminOpen
    /\ \A i \in Slots :
        v.calls[i] = w.calls[i] \/ (w.calls[i].kind \in authKinds /\ v.calls[i] = noCall)

LEMMA SessionSound ==
    ASSUME NEW w, NEW v, NEW sv, Sound(w, sv), SessionStep(v, w),
           OneAtATime(v), Early(v), Truthful(v, sv), Plays(v)
    PROVE  Sound(v, sv)
<1>1. w \in Page /\ v \in Page /\ sv \in Server /\ SessionsMade(w, sv) /\ AnswersTrue(w, sv)
      /\ AtHistory(w, sv)
  BY DEF Sound, Signed, SessionStep
<1>2. \A i \in Slots :
        \/ v.calls[i] = w.calls[i]
        \/ /\ w.calls[i].kind \in authKinds /\ v.calls[i].kind = "none"
           /\ v.calls[i].sid = 0 /\ v.calls[i].answer.status = "none"
  BY NoCallTypes DEF SessionStep, NoSid
<1>3. SessionsMade(v, sv)
  <2>1. sv.made \in Nat
    BY <1>1, Bounds DEF Server, SidsOrNone
  <2> QED BY <1>1, <1>2, <2>1 DEF SessionsMade, SessionStep
<1>4. AnswersTrue(v, sv)
  <2>1. noCall.answer.status = "none" /\ noCall.answer.sid = NoSid
    BY NoCallTypes DEF noAnswer
  <2>2. AnswerTrue(noCall, sv)
    BY <1>1, <2>1, NotAnswered
  <2> QED BY <1>1, <2>2 DEF SessionStep, AnswersTrue
<1>5. AtHistory(v, sv)
  <2>1. "none" \notin historyKinds /\ "none" \notin formKinds
    BY KindsApart
  <2> QED BY <1>1, <1>2, <2>1 DEF AtHistory, SessionStep
<1>6. SameShelf(v, w) /\ SamePanel(v, w)
  BY <1>2, KindsApart DEF SameShelf, SamePanel, SessionStep
<1>7. \A i \in Slots : v.calls[i].kind \in historyKinds \cup adminKinds => Faded(v.calls[i], w.calls[i])
  BY <1>2, FadedSame, KindsApart
<1>8. Shelved(v, sv)
  BY <1>1, <1>6, <1>7, ShelfAside DEF Sound, ShelfGrown
<1>9. Listed(v, sv)
  BY <1>1, <1>6, <1>7, PanelAside DEF Sound, PanelGrown
<1> QED BY <1>1, <1>3, <1>4, <1>5, <1>8, <1>9 DEF Sound, Signed

\* A session that is signed out.
LEMMA SignedOutFields ==
    ASSUME NEW w \in Page
    PROVE  /\ LET v == signedOut(w)
              IN  /\ v \in Page /\ v.app = w.app /\ v.history = w.history /\ v.admin = w.admin
                  /\ v.calls = w.calls /\ v.cookie = w.cookie
                  /\ v.session.account = NoAccount /\ v.session.doubt = w.session.doubt
                  /\ v.session.acted = w.session.acted /\ v.session.busy = w.session.busy
                  /\ v.session.mode = "login"
           /\ LET v == settledDoubt(w)
              IN  /\ v \in Page /\ v.app = w.app /\ v.history = w.history /\ v.admin = w.admin
                  /\ v.calls = w.calls /\ v.cookie = w.cookie
                  /\ v.session.account = w.session.account
                  /\ v.session.doubt = w.session.doubt \ {"revoked", "lost"}
                  /\ v.session.acted = w.session.acted /\ v.session.busy = w.session.busy
                  /\ v.session.mode = w.session.mode
           /\ \A cause \in {"revoked", "lost", "late", "role", "restore", "half", "reset"} :
              LET v == doubted(w, cause)
              IN  /\ v \in Page /\ v.app = w.app /\ v.history = w.history /\ v.admin = w.admin
                  /\ v.calls = w.calls /\ v.cookie = w.cookie
                  /\ v.session.account = w.session.account
                  /\ v.session.doubt = w.session.doubt \cup {cause}
                  /\ v.session.acted = w.session.acted /\ v.session.busy = w.session.busy
                  /\ v.session.mode = w.session.mode
<1>1. w.session \in Session /\ NoAccount \in Known
  <2>1. NoAccount \in Known
    BY Bounds DEF NoAccount, Known, People, SidsOrNone, NoSid
  <2> QED BY <2>1, PageParts
<1> DEFINE x == [w.session EXCEPT !.account = NoAccount, !.devices = {}, !.mode = "login"]
           y == [w.session EXCEPT !.doubt = w.session.doubt \ {"revoked", "lost"}]
<1>2. /\ x \in Session /\ x.account = NoAccount /\ x.doubt = w.session.doubt
      /\ x.acted = w.session.acted /\ x.busy = w.session.busy /\ x.mode = "login"
  BY <1>1 DEF Session, Modes
<1>3. /\ y \in Session /\ y.account = w.session.account
      /\ y.doubt = w.session.doubt \ {"revoked", "lost"}
      /\ y.acted = w.session.acted /\ y.busy = w.session.busy /\ y.mode = w.session.mode
  BY <1>1 DEF Session
<1>4. signedOut(w) = [w EXCEPT !.session = x]
  BY DEF signedOut, storeAccount
<1>5. settledDoubt(w) = [w EXCEPT !.session = y]
  BY DEF settledDoubt
<1> HIDE DEF x, y
<1>6. LET v == [w EXCEPT !.session = x]
      IN  /\ v \in Page /\ v.app = w.app /\ v.session = x /\ v.history = w.history
          /\ v.admin = w.admin /\ v.calls = w.calls /\ v.cookie = w.cookie
  BY <1>2, WithSession
<1>7. LET v == [w EXCEPT !.session = y]
      IN  /\ v \in Page /\ v.app = w.app /\ v.session = y /\ v.history = w.history
          /\ v.admin = w.admin /\ v.calls = w.calls /\ v.cookie = w.cookie
  BY <1>3, WithSession
<1>8. ASSUME NEW cause \in {"revoked", "lost", "late", "role", "restore", "half", "reset"}
      PROVE  LET v == doubted(w, cause)
             IN  /\ v \in Page /\ v.app = w.app /\ v.history = w.history /\ v.admin = w.admin
                 /\ v.calls = w.calls /\ v.cookie = w.cookie
                 /\ v.session.account = w.session.account
                 /\ v.session.doubt = w.session.doubt \cup {cause}
                 /\ v.session.acted = w.session.acted /\ v.session.busy = w.session.busy
                 /\ v.session.mode = w.session.mode
  <2> DEFINE z == [w.session EXCEPT !.doubt = w.session.doubt \cup {cause}]
             v == doubted(w, cause)
  <2>1. /\ z \in Session /\ z.account = w.session.account
        /\ z.doubt = w.session.doubt \cup {cause}
        /\ z.acted = w.session.acted /\ z.busy = w.session.busy /\ z.mode = w.session.mode
    BY <1>1 DEF Session
  <2>2. v = [w EXCEPT !.session = z]
    BY DEF doubted
  <2> HIDE DEF z, v
  <2>3. /\ v \in Page /\ v.app = w.app /\ v.session = z /\ v.history = w.history
        /\ v.admin = w.admin /\ v.calls = w.calls /\ v.cookie = w.cookie
    BY <2>1, <2>2, WithSession
  <2>4. /\ v \in Page /\ v.app = w.app /\ v.history = w.history /\ v.admin = w.admin
        /\ v.calls = w.calls /\ v.cookie = w.cookie
        /\ v.session.account = w.session.account
        /\ v.session.doubt = w.session.doubt \cup {cause}
        /\ v.session.acted = w.session.acted /\ v.session.busy = w.session.busy
        /\ v.session.mode = w.session.mode
    BY <2>1, <2>3
  <2> QED BY <2>4 DEF v
<1> QED BY <1>2, <1>3, <1>4, <1>5, <1>6, <1>7, <1>8

LEMMA ClientFields ==
    ASSUME NEW w \in Page
    PROVE  LET v == closeClient(w)
           IN  /\ v \in Page /\ v.app.socket = noSocket /\ ~v.app.overtaken
               /\ v.app.screen = w.app.screen /\ v.app.adminOpen = w.app.adminOpen
               /\ v.app.returnTo = w.app.returnTo /\ v.session = w.session
               /\ v.history = w.history /\ v.admin = w.admin /\ v.calls = w.calls
               /\ v.cookie = w.cookie
<1> DEFINE y == [w.app EXCEPT !.socket = noSocket, !.overtaken = FALSE]
           v == closeClient(w)
<1>1. /\ y \in App /\ y.socket = noSocket /\ ~y.overtaken /\ y.screen = w.app.screen
      /\ y.adminOpen = w.app.adminOpen /\ y.returnTo = w.app.returnTo
  BY PageParts DEF App
<1>2. v = [w EXCEPT !.app = y]
  BY DEF closeClient
<1> HIDE DEF y, v
<1>3. /\ v \in Page /\ v.app = y /\ v.session = w.session /\ v.history = w.history
      /\ v.admin = w.admin /\ v.calls = w.calls /\ v.cookie = w.cookie
  BY <1>1, <1>2, WithApp
<1> QED BY <1>1, <1>3 DEF v

LEMMA HistorySignInSound ==
    ASSUME AccountSound, HistorySignIn
    PROVE  AccountSound'
<1> DEFINE y == settledDoubt(page)
           x == signedOut(y)
           z == closeClient(x)
           f == prepareAccount(z, "login")
<1>1. /\ page.app.screen = "history" /\ server' = server /\ Sound(page, server)
      /\ page \in Page /\ page.history \in Shelf
      /\ "expired" \in {page.history.listStatus, page.history.detailStatus}
  BY PageParts DEF HistorySignIn, OnList, InDetail, Reach, Shows, AccountSound, Sound, History
<1>2. page' = setScreen(f, "account")
  BY DEF HistorySignIn, Shows, openAccount, invalidated, resetForAccountChange
<1>3. AtHistory(page, server) /\ Early(page) /\ OneAtATime(page)
  BY <1>1 DEF Sound, Signed
<1>4. whose(server, page.cookie) = NoUser
  BY <1>1, <1>3 DEF AtHistory
<1>5. \A i \in Slots : page.calls[i].kind # "whoami"
  BY <1>1, <1>3 DEF AtHistory, formKinds
<1>6. page.session.acted \/ \A i \in Slots : page.calls[i].kind # "restore"
  BY <1>1, <1>3 DEF Early
<1>7. /\ y \in Page /\ y.app = page.app /\ y.history = page.history /\ y.admin = page.admin
      /\ y.calls = page.calls /\ y.cookie = page.cookie
      /\ y.session.acted = page.session.acted /\ y.session.busy = page.session.busy
  BY <1>1, SignedOutFields
<1> HIDE DEF y
<1>8. /\ x \in Page /\ x.app = y.app /\ x.history = y.history /\ x.admin = y.admin
      /\ x.calls = y.calls /\ x.cookie = y.cookie /\ x.session.account = NoAccount
      /\ x.session.acted = y.session.acted /\ x.session.busy = y.session.busy
  BY <1>7, SignedOutFields
<1> HIDE DEF x
<1>9. /\ z \in Page /\ z.app.socket = noSocket /\ z.session = x.session
      /\ z.app.screen = x.app.screen /\ z.app.adminOpen = x.app.adminOpen
      /\ z.app.returnTo = x.app.returnTo
      /\ z.history = x.history /\ z.admin = x.admin /\ z.calls = x.calls /\ z.cookie = x.cookie
  BY <1>8, ClientFields
<1> HIDE DEF z
<1>10. SessionStep(z, page)
  BY <1>7, <1>8, <1>9 DEF SessionStep
<1>11. OneAtATime(z) /\ Early(z) /\ Plays(z)
  BY <1>3, <1>6, <1>7, <1>8, <1>9 DEF OneAtATime, Early, Plays
<1>12. Truthful(z, server)
  <2>1. Says(NoAccount, z, server)
    BY <1>4, <1>7, <1>8, <1>9 DEF Says, NoAccount
  <2> QED BY <1>5, <1>6, <1>7, <1>8, <1>9, <2>1 DEF Truthful
<1>13. Sound(z, server)
  BY <1>1, <1>10, <1>11, <1>12, SessionSound
<1>14. f = [z EXCEPT !.session.mode = "login"]
  BY DEF prepareAccount
<1> HIDE DEF f
<1>15. Moved(f, z) /\ f.app = z.app
  BY <1>13, <1>14, ModeMoves DEF Modes
<1>16. Sound(f, server)
  BY <1>13, <1>15, MovedSound
<1>17. Moved(setScreen(f, "account"), f)
  BY <1>9, <1>15, <1>16, ScreenMoves DEF Screens
<1>18. Sound(setScreen(f, "account"), server)
  BY <1>16, <1>17, MovedSound
<1> QED BY <1>1, <1>2, <1>18 DEF AccountSound

LEMMA HistoryOpens ==
    ASSUME AccountSound, OpenHistory
    PROVE  AccountSound'
<1> DEFINE p == [page.app EXCEPT !.returnTo = page.app.screen, !.screen = "history"]
           w == [page EXCEPT !.app = p]
           g == newHistory(page.session.account.user)
           x == with(w, g)
           y == superseded(x, listKinds)
           a == [noArg EXCEPT !.filter = x.history.filter]
           v == called(y, "list", a)
<1>1. /\ page.app.screen \in {"mode-select", "menu", "lobby"} /\ ~page.app.adminOpen
      /\ page.session.account # NoAccount /\ ~page.session.busy
      /\ Vacant(page) /\ server' = server /\ Sound(page, server) /\ page \in Page
      /\ server \in Server
      /\ page' = opensHistory([page EXCEPT !.app.returnTo = page.app.screen, !.app.screen = "history"])
  <2>1. ProfileMenu /\ page.app.screen # "history" /\ Vacant(page) /\ server' = server
        /\ page' = opensHistory([page EXCEPT !.app.returnTo = page.app.screen, !.app.screen = "history"])
    BY RoomThere DEF OpenHistory, Shows
  <2>2. page \in Page /\ Sound(page, server) /\ server \in Server
    BY DEF AccountSound, Sound
  <2>3. page.app.screen \in Screens
    BY <2>2, PageParts DEF App
  <2>4. page.app.screen \in {"mode-select", "menu", "lobby"}
    BY <2>1, <2>3 DEF ProfileMenu, Header, locked, Screens
  <2> QED BY <2>1, <2>2, <2>4 DEF ProfileMenu, Header, signedIn, idle
<1>2. page' = v
  <2>1. [page EXCEPT !.app.returnTo = page.app.screen, !.app.screen = "history"] = w
    OBVIOUS
  <2>2. w.session = page.session
    BY <1>1 DEF Page
  <2>3. opensHistory(w) = v
    BY <2>2 DEF opensHistory, listed
  <2> QED BY <1>1, <2>1, <2>3
<1>3. /\ p \in App /\ p.screen = "history" /\ p.returnTo = page.app.screen
      /\ p.socket = page.app.socket /\ p.overtaken = page.app.overtaken
      /\ p.adminOpen = page.app.adminOpen
  BY <1>1, PageParts DEF App, Screens
<1> HIDE DEF p
<1>4. /\ w \in Page /\ w.app = p /\ w.session = page.session /\ w.history = page.history
      /\ w.admin = page.admin /\ w.calls = page.calls /\ w.cookie = page.cookie
  BY <1>1, <1>3, WithApp
<1> HIDE DEF w
<1>5. /\ g \in Shelf /\ g.filter = "all" /\ g.listStatus = "loading" /\ g.matches = <<>>
      /\ g.starred = {} /\ ~g.loadingMore /\ g.selected = NoMatch /\ g.wanted = NoMatch
      /\ g.detail = NoMatch /\ g.detailStatus = "idle" /\ g.since = {} /\ g.pending = {}
      /\ g.doubt = {}
  <2>1. page.session.account.user \in People
    BY <1>1, PageParts DEF Session, Known
  <2>2. g \in Shelf
    BY <2>1, NewListTypes
  <2> QED BY <2>2 DEF newHistory
<1> HIDE DEF g
<1>6. /\ x \in Page /\ x.app = p /\ x.session = page.session /\ x.history = g
      /\ x.admin = page.admin /\ x.calls = page.calls /\ x.cookie = page.cookie
  <2>1. x = [w EXCEPT !.history = g]
    BY DEF with
  <2> HIDE DEF x
  <2> QED BY <1>4, <1>5, <2>1, WithHistory
<1>7. a \in Arg /\ a.filter = "all" /\ a.cursor = FromNewest
  <2>1. \A f \in Filters :
            LET c == [noArg EXCEPT !.filter = f]
            IN  c \in Arg /\ c.filter = f /\ c.cursor = FromNewest
    BY Zenon, ShelfArgs
  <2> QED BY <1>5, <1>6, <2>1 DEF Filters
<1> HIDE DEF x, a
<1>8. /\ y \in Page /\ Beside(y, x)
      /\ \A i \in Slots :
            /\ Faded(y.calls[i], x.calls[i]) /\ y.calls[i].alive = x.calls[i].alive
            /\ x.calls[i].kind \notin listKinds => y.calls[i] = x.calls[i]
  BY <1>6, Superseded
<1> HIDE DEF y
<1>9. /\ y.app = p /\ y.session = page.session /\ y.history = g /\ y.admin = page.admin
      /\ y.cookie = page.cookie
  BY <1>6, <1>8 DEF Beside
<1>10. \A i \in Slots :
        /\ Faded(y.calls[i], page.calls[i])
        /\ y.calls[i].kind = page.calls[i].kind /\ y.calls[i].sid = page.calls[i].sid
        /\ y.calls[i].arg = page.calls[i].arg /\ y.calls[i].answer = page.calls[i].answer
        /\ y.calls[i].lost = page.calls[i].lost
        /\ y.calls[i].kind \notin historyKinds => y.calls[i] = page.calls[i]
        /\ y.calls[i].kind \in historyKinds => ~y.calls[i].alive
  <2>1. OffShelf(page)
    BY <1>1, ListsOff
  <2> QED BY <1>6, <1>8, <2>1 DEF Faded, OffShelf, listKinds, historyKinds
<1>11. Signed(y, server)
  <2>1. Signed(page, server)
    BY <1>1 DEF Sound
  <2>2. SessionsMade(y, server) /\ AnswersTrue(y, server)
    BY <1>9, <1>10, <2>1, AnswersSame DEF Signed, SessionsMade
  <2>3. OneAtATime(y)
    BY <1>9, <1>10, <2>1 DEF Signed, OneAtATime
  <2>4. Early(y)
    BY <1>1, <1>9, <1>10, <2>1 DEF Signed, Early
  <2>5. Truthful(y, server)
    <3>1. Truthful(page, server)
      BY <2>1 DEF Signed
    <3>2. \A i \in Slots : /\ accountOf(y.calls[i]) = accountOf(page.calls[i])
                           /\ knows(y.calls[i]) = knows(page.calls[i])
                           /\ ended(y.calls[i]) = ended(page.calls[i])
      BY <1>10 DEF accountOf, knows, ended
    <3>3. \A b : Says(b, y, server) <=> Says(b, page, server)
      BY <1>9 DEF Says
    <3> QED BY <1>9, <1>10, <3>1, <3>2, <3>3 DEF Truthful
  <2>6. AtHistory(y, server)
    <3>1. \A i \in Slots : y.calls[i].kind \notin formKinds
      BY <1>1, <1>10, <2>1 DEF Signed, OneAtATime
    <3> QED BY <1>1, <1>3, <1>5, <1>9, <1>10, <3>1 DEF AtHistory
  <2>7. Plays(y)
    BY <1>3, <1>9, <1>10, <2>1 DEF Signed, Plays
  <2> QED BY <2>2, <2>3, <2>4, <2>5, <2>6, <2>7 DEF Signed
<1>12. Vacant(y)
  BY <1>1, <1>10 DEF Vacant
<1>13. "list" \in Kinds /\ "list" \in historyKinds /\ "list" \notin formKinds
       /\ "list" \notin authKinds /\ "list" \notin adminKinds /\ "list" \in listKinds
       /\ "list" \notin {"none", "restore", "whoami", "star"}
  BY DEF Kinds, historyKinds, formKinds, authKinds, adminKinds, rowKinds, inspectKinds, listKinds
<1>14. Sent(v, y, "list", a) /\ v.session = y.session
  BY <1>7, <1>8, <1>12, <1>13, CalledSent
<1> HIDE DEF v
<1>15. Signed(v, server)
  <2>1. Sendable(v, y, "list", a)
    BY <1>3, <1>7, <1>9, <1>13, <1>14 DEF Sendable
  <2> QED BY <1>1, <1>8, <1>11, <1>14, <2>1, SignedSent
<1>16. \A i \in Slots : \A kinds \in {listKinds, {"list"}, {"more"}, {"detail"}} :
            ~waiting(y.calls[i], kinds)
  BY <1>10 DEF waiting, listKinds, historyKinds
<1>17. HistoryCalls(v, server) /\ StarsRead(v, server) /\ Asked(v, y, "list", a)
  <2>1. HistoryCalls(page, server) /\ StarsRead(page, server)
    BY <1>1 DEF Sound, Shelved
  <2>2. \A i \in Slots : ShelfRead(y.calls[i], server) /\ StarRead(y.calls[i], server)
    BY <1>10, <2>1, ShelfReadKept DEF HistoryCalls, StarsRead
  <2>3. \A i \in Slots : ShelfDue(y.calls[i], y.history)
    BY <1>16 DEF ShelfDue
  <2>4. StarsRead(y, server) /\ Sole(y, listKinds) /\ Sole(y, {"detail"}) /\ Clear(y, "list")
    BY <1>16, <2>2 DEF StarsRead, Sole, Clear
  <2>5. ShelfDue(freshCall(y.cookie, "list", a), y.history)
    <3> DEFINE c == freshCall(y.cookie, "list", a)
    <3>1. y.cookie \in SidsOrNone
      BY <1>8, PageParts
    <3>2. c.kind = "list" /\ c.arg = a
      BY <1>7, <1>13, <3>1, FreshCall
    <3> HIDE DEF c
    <3>3. ShelfDue(c, y.history)
      BY <1>5, <1>7, <1>9, <3>2 DEF ShelfDue, waiting, served, listKinds
    <3> QED BY <3>3 DEF c
  <2>6. a.filter \in Filters
    BY <1>7 DEF Filters
  <2>7. \A i \in Slots : ShelfRead(y.calls[i], server) /\ ShelfDue(y.calls[i], y.history)
    BY <2>2, <2>3
  <2>8. /\ HistoryCalls(v, server) /\ StarsRead(v, server)
        /\ \E n \in Slots :
            /\ y.calls[n].kind = "none" /\ v.calls[n] = freshCall(y.cookie, "list", a)
            /\ v.calls[n].kind = "list" /\ v.calls[n].arg = a
            /\ v.calls[n].current /\ v.calls[n].alive
            /\ v.calls[n].answer.status = "none" /\ ~v.calls[n].lost
            /\ \A i \in Slots \ {n} : v.calls[i] = y.calls[i]
    BY <1>7, <1>8, <1>13, <1>14, <2>4, <2>5, <2>6, <2>7, ShelfSent
  <2> QED BY <2>8 DEF Asked
<1>18. v.history = g /\ v.cookie = page.cookie /\ v.app = p /\ v.admin = page.admin
  BY <1>9, <1>14 DEF Sent
<1>19. Range(g.matches) = {}
  BY <1>5 DEF Range
<1>20. HistoryRows(v, server)
  <2>1. \E i \in Slots : waiting(v.calls[i], {"list"})
    BY <1>17 DEF Asked, waiting
  <2> QED BY <1>5, <1>18, <2>1 DEF HistoryRows
<1>21. Stars(v, server)
  <2>1. \A i \in Slots : ~(v.calls[i].kind = "star" /\ v.calls[i].alive)
    BY <1>10, <1>17 DEF Asked, historyKinds
  <2> QED BY <1>5, <1>18, <1>19, <2>1 DEF Stars
<1>22. Listed(v, server)
  <2>1. \A i \in Slots : v.calls[i].kind \in adminKinds => v.calls[i] = page.calls[i]
    BY <1>10, <1>13, <1>17, KindsApart DEF Asked
  <2>2. OffPanel(page)
    BY <1>1, ListsOff
  <2>3. OffPanel(v)
    BY <1>1, <1>3, <1>18, <2>1, <2>2 DEF OffPanel
  <2>4. \A i \in Slots : v.calls[i].kind \in adminKinds => Faded(v.calls[i], page.calls[i])
    BY <2>1, FadedSame
  <2>5. v \in Page /\ Listed(page, server)
    BY <1>1, <1>14 DEF Sent, Sound
  <2> QED BY <1>1, <2>3, <2>4, <2>5, PanelAside DEF PanelGrown
<1>23. Sound(v, server)
  BY <1>1, <1>14, <1>15, <1>17, <1>20, <1>21, <1>22 DEF Sound, Shelved, Sent
<1> QED BY <1>1, <1>2, <1>23 DEF AccountSound

-----------------------------------------------------------------------------

(* The clicks in the administrators' dialog.                                 *)

\* A step of the dialog before it sends a call, or without one.
PanelTurned(x, w) ==
    /\ x \in Page /\ x.session = w.session /\ x.history = w.history /\ x.cookie = w.cookie
    /\ x.app.screen = w.app.screen /\ x.app.returnTo = w.app.returnTo
    /\ x.app.socket = w.app.socket /\ x.app.overtaken = w.app.overtaken
    /\ x.app.adminOpen /\ (w.app.adminOpen \/ w.session.account # NoAccount)
    /\ \A i \in Slots :
        /\ Faded(x.calls[i], w.calls[i])
        /\ w.calls[i].kind \notin adminKinds => x.calls[i] = w.calls[i]

LEMMA PanelTurns ==
    ASSUME NEW w, NEW x, NEW sv, Sound(w, sv), PanelTurned(x, w)
    PROVE  Signed(x, sv) /\ Shelved(x, sv)
<1>1. w \in Page /\ x \in Page /\ sv \in Server /\ Signed(w, sv)
  BY DEF Sound, PanelTurned
<1>2. /\ x.session = w.session /\ x.history = w.history /\ x.cookie = w.cookie
      /\ x.app.screen = w.app.screen /\ x.app.returnTo = w.app.returnTo
      /\ x.app.socket = w.app.socket /\ x.app.overtaken = w.app.overtaken
  BY DEF PanelTurned
<1>3. \A i \in Slots :
        /\ Faded(x.calls[i], w.calls[i])
        /\ x.calls[i].kind = w.calls[i].kind /\ x.calls[i].sid = w.calls[i].sid
        /\ x.calls[i].arg = w.calls[i].arg /\ x.calls[i].answer = w.calls[i].answer
        /\ x.calls[i].lost = w.calls[i].lost /\ (x.calls[i].alive => w.calls[i].alive)
  BY DEF PanelTurned, Faded
<1>4. SessionsMade(x, sv) /\ AnswersTrue(x, sv)
  BY <1>1, <1>2, <1>3, AnswersSame DEF Signed, SessionsMade
<1>5. OneAtATime(x)
  BY <1>1, <1>2, <1>3 DEF Signed, OneAtATime
<1>6. Early(x)
  BY <1>1, <1>2, <1>3 DEF Signed, Early, PanelTurned
<1>7. Truthful(x, sv)
  <2>1. Truthful(w, sv)
    BY <1>1 DEF Signed
  <2>2. \A i \in Slots : /\ accountOf(x.calls[i]) = accountOf(w.calls[i])
                         /\ knows(x.calls[i]) = knows(w.calls[i])
                         /\ ended(x.calls[i]) = ended(w.calls[i])
    BY <1>3 DEF accountOf, knows, ended
  <2>3. \A b : Says(b, x, sv) <=> Says(b, w, sv)
    BY <1>2 DEF Says
  <2> QED BY <1>2, <1>3, <2>1, <2>2, <2>3 DEF Truthful
<1>8. AtHistory(x, sv)
  BY <1>1, <1>2, <1>3 DEF Signed, AtHistory
<1>9. Plays(x)
  BY <1>1, <1>2, <1>3 DEF Signed, Plays
<1>10. SameShelf(x, w)
  <2>1. \A i \in Slots : x.calls[i].kind \in historyKinds \/ w.calls[i].kind \in historyKinds =>
            x.calls[i] = w.calls[i]
    BY <1>3, KindsApart DEF PanelTurned
  <2> QED BY <1>2, <2>1 DEF SameShelf
<1>11. Shelved(x, sv)
  BY <1>1, <1>3, <1>10, ShelfAside DEF Sound, Signed, ShelfGrown
<1> QED BY <1>4, <1>5, <1>6, <1>7, <1>8, <1>9, <1>11 DEF Signed

\* The rest of the lists that the dialog keeps.
PanelData(a, sv) ==
    /\ a.mixed \/ ( /\ Joined(a.items, a.cursor) /\ noGap(a.items, a.cursor, a.since)
                    /\ a.shown = "named" => Range(a.items) \subseteq Named
                    /\ a.tab \in listTabs => a.since \subseteq rowsFor(a.shown, sv.rows[a.tab])
                    /\ a.tab \notin listTabs => a.since = {} )

LEMMA PanelDataKept ==
    ASSUME NEW a, NEW b, NEW sv, PanelData(a, sv), b.mixed = a.mixed, b.items = a.items,
           b.cursor = a.cursor, b.since = a.since, b.shown = a.shown, b.tab = a.tab
    PROVE  PanelData(b, sv)
BY DEF PanelData

PanelClear(x, kind) ==
    \A kinds \in {rowKinds, inspectKinds} : kind \in kinds =>
        \A i \in Slots : ~waiting(x.calls[i], kinds)

LEMMA PanelSends ==
    ASSUME NEW w, NEW x, NEW sv, Sound(w, sv), Vacant(w), PanelTurned(x, w),
           NEW kind \in adminKinds, NEW arg \in Arg,
           \A i \in Slots : PanelDue(x.calls[i], x.admin), PanelClear(x, kind),
           PanelDue(freshCall(x.cookie, kind, arg), x.admin),
           kind \in rowKinds => arg.tab \in listTabs /\ arg.filter \in Queries
    PROVE  LET v == called(x, kind, arg)
           IN  /\ v.admin = x.admin /\ Asked(v, x, kind, arg)
               /\ PanelRows(v, sv) => Sound(v, sv)
<1> DEFINE v == called(x, kind, arg)
           c == freshCall(x.cookie, kind, arg)
<1>1. /\ x \in Page /\ w \in Page /\ sv \in Server /\ kind \in Kinds
      /\ kind \notin formKinds /\ kind \notin authKinds /\ kind \notin historyKinds
      /\ kind \notin {"none", "restore", "whoami", "signin"}
  BY DEF Sound, PanelTurned, Kinds, adminKinds, rowKinds, inspectKinds, formKinds, authKinds,
         historyKinds
<1>2. Vacant(x)
  BY DEF Vacant, PanelTurned, Faded
<1>3. Sent(v, x, kind, arg) /\ v.session = x.session
  BY <1>1, <1>2, CalledSent
<1>4. /\ c.kind = kind /\ c.arg = arg /\ c.answer.status = "none" /\ ~c.lost
      /\ c.current /\ c.alive
  BY <1>1, FreshCall, PageParts
<1>5. PanelDue(c, x.admin)
  OBVIOUS
<1> HIDE DEF v, c
<1>6. PICK n \in Slots :
        /\ x.calls[n].kind = "none" /\ v.calls[n] = c
        /\ \A i \in Slots \ {n} : v.calls[i] = x.calls[i]
  BY <1>3 DEF Sent, c
<1>7. Signed(x, sv) /\ Shelved(x, sv)
  BY PanelTurns
<1>8. /\ v \in Page /\ v.app = x.app /\ v.history = x.history /\ v.admin = x.admin
      /\ v.cookie = x.cookie
  BY <1>3 DEF Sent
<1>9. Signed(v, sv)
  <2>1. Sendable(v, x, kind, arg)
    BY <1>1, <1>3 DEF Sendable, PanelTurned
  <2> QED BY <1>1, <1>3, <1>7, <2>1, SignedSent
<1>10. Shelved(v, sv)
  <2>1. \A i \in Slots : v.calls[i].kind \in historyKinds \/ x.calls[i].kind \in historyKinds =>
            v.calls[i] = x.calls[i]
    BY <1>1, <1>4, <1>6, KindsApart
  <2>2. SameShelf(v, x)
    BY <1>8, <2>1 DEF SameShelf
  <2>3. \A i \in Slots : v.calls[i].kind \in historyKinds => Faded(v.calls[i], x.calls[i])
    BY <2>1, FadedSame
  <2> QED BY <1>1, <1>7, <1>8, <2>2, <2>3, ShelfAside DEF Signed, ShelfGrown
<1>11. PanelCalls(v, sv)
  <2>1. PanelCalls(w, sv) /\ \A i \in Slots : Faded(x.calls[i], w.calls[i])
    BY DEF Sound, Listed, PanelTurned
  <2>2. \A i \in Slots : PanelRead(x.calls[i], sv)
    BY <2>1, PanelReadKept DEF PanelCalls, PanelGrown
  <2>3. PanelRead(c, sv)
    BY <1>4 DEF PanelRead, served
  <2>4. \A i \in Slots : \A kinds : waiting(x.calls[i], kinds) => waiting(w.calls[i], kinds)
    BY <2>1 DEF Faded, waiting
  <2>5. Sole(x, rowKinds) /\ Sole(x, inspectKinds)
    BY <2>1, <2>4 DEF PanelCalls, Sole
  <2>6. ASSUME NEW kinds \in {rowKinds, inspectKinds} PROVE Sole(v, kinds)
    <3>1. Sole(x, kinds)
      BY <2>5
    <3>2. CASE kind \in kinds
      BY <1>6, <3>2 DEF Sole, PanelClear
    <3>3. CASE kind \notin kinds
      BY <1>4, <1>6, <3>1, <3>3 DEF Sole, waiting
    <3> QED BY <3>2, <3>3
  <2>7. Sole(v, rowKinds) /\ Sole(v, inspectKinds)
    BY <2>6
  <2>8. v.app.adminOpen
    BY <1>8 DEF PanelTurned
  <2>9. \A i \in Slots : PanelRead(v.calls[i], sv) /\ PanelDue(v.calls[i], v.admin)
    BY <1>5, <1>6, <1>8, <2>2, <2>3
  <2> QED BY <2>7, <2>8, <2>9 DEF PanelCalls
<1>12. Asked(v, x, kind, arg)
  BY <1>4, <1>6 DEF Asked
<1>13. PanelRows(v, sv) => Sound(v, sv)
  BY <1>1, <1>8, <1>9, <1>10, <1>11 DEF Sound, Listed
<1> QED BY <1>8, <1>12, <1>13 DEF v

LEMMA PanelTurnSound ==
    ASSUME NEW w, NEW x, NEW sv, Sound(w, sv), PanelTurned(x, w), PanelRows(x, sv),
           \A i \in Slots : PanelDue(x.calls[i], x.admin)
    PROVE  Sound(x, sv)
<1>1. PanelCalls(w, sv) /\ \A i \in Slots : Faded(x.calls[i], w.calls[i])
  BY DEF Sound, Listed, PanelTurned
<1>2. \A i \in Slots : PanelRead(x.calls[i], sv)
  BY <1>1, PanelReadKept DEF PanelCalls, PanelGrown
<1>3. \A i \in Slots : \A kinds : waiting(x.calls[i], kinds) => waiting(w.calls[i], kinds)
  BY <1>1 DEF Faded, waiting
<1>4. Sole(x, rowKinds) /\ Sole(x, inspectKinds)
  BY <1>1, <1>3 DEF PanelCalls, Sole
<1>5. PanelCalls(x, sv)
  BY <1>2, <1>4 DEF PanelCalls, PanelTurned
<1> QED BY <1>5, PanelTurns DEF Sound, Listed, PanelTurned

LEMMA PanelWith ==
    ASSUME NEW w, NEW x, PanelTurned(x, w), NEW a \in Board
    PROVE  LET y == panel(x, a)
           IN  PanelTurned(y, w) /\ y.admin = a /\ y.calls = x.calls
<1> DEFINE y == panel(x, a)
<1>1. x \in Page /\ y = [x EXCEPT !.admin = a]
  BY DEF PanelTurned, panel
<1> HIDE DEF y
<1>2. /\ y \in Page /\ y.app = x.app /\ y.session = x.session /\ y.history = x.history
      /\ y.admin = a /\ y.calls = x.calls /\ y.cookie = x.cookie
  BY <1>1, WithAdmin
<1>3. PanelTurned(y, w)
  BY <1>2 DEF PanelTurned
<1> QED BY <1>2, <1>3 DEF y

LEMMA PanelSuperseded ==
    ASSUME NEW w, NEW x, PanelTurned(x, w), NEW kinds \in SUBSET adminKinds
    PROVE  LET y == superseded(x, kinds)
           IN  /\ PanelTurned(y, w) /\ y.admin = x.admin
               /\ \A i \in Slots :
                    /\ Faded(y.calls[i], x.calls[i]) /\ y.calls[i].kind = x.calls[i].kind
                    /\ x.calls[i].kind \notin kinds => y.calls[i] = x.calls[i]
                    /\ x.calls[i].kind \in kinds => ~(y.calls[i].current /\ y.calls[i].alive)
<1> DEFINE y == superseded(x, kinds)
<1>1. x \in Page
  BY DEF PanelTurned
<1>2. /\ y \in Page /\ Beside(y, x)
      /\ \A i \in Slots :
            /\ Faded(y.calls[i], x.calls[i]) /\ y.calls[i].alive = x.calls[i].alive
            /\ x.calls[i].kind \notin kinds => y.calls[i] = x.calls[i]
            /\ x.calls[i].kind \in kinds => ~(y.calls[i].current /\ y.calls[i].alive)
  BY <1>1, Superseded
<1> HIDE DEF y
<1>3. \A i \in Slots :
        /\ Faded(y.calls[i], w.calls[i]) /\ y.calls[i].kind = x.calls[i].kind
        /\ w.calls[i].kind \notin adminKinds => y.calls[i] = w.calls[i]
  BY <1>2 DEF PanelTurned, Faded
<1>4. PanelTurned(y, w)
  BY <1>2, <1>3 DEF PanelTurned, Beside
<1> QED BY <1>2, <1>3, <1>4 DEF y, Beside

LEMMA RowsArg ==
    ASSUME NEW tab \in Tabs, NEW q \in Queries
    PROVE  LET a == [noArg EXCEPT !.tab = tab, !.filter = q]
           IN  a \in Arg /\ a.tab = tab /\ a.filter = q /\ ~a.flag /\ a.cursor = FromNewest
<1>1. noArg \in Arg /\ noArg.cursor = FromNewest /\ ~noArg.flag
  BY Zenon, NoCallTypes, ArgTypes
<1> QED BY <1>1 DEF Arg

\* A first page, or the next, is asked for by a view that begins to wait for it.
LEMMA RowsAsked ==
    ASSUME NEW w, NEW x, NEW sv, Sound(w, sv), Vacant(w), PanelTurned(x, w),
           NEW kind \in rowKinds, NEW arg \in Arg, x.admin.tab \in listTabs,
           x.admin.loading, ~x.admin.error, PanelData(x.admin, sv),
           x.admin.detail # NoMatch => x.admin.detail = x.admin.selected,
           x.admin.selected = x.admin.wanted,
           x.admin.detailLoading => \E i \in Slots : waiting(x.calls[i], inspectKinds),
           \A i \in Slots : waiting(x.calls[i], inspectKinds) =>
                x.calls[i].arg.match = x.admin.selected,
           arg.tab = x.admin.tab, arg.filter = x.admin.query,
           ~arg.flag => arg.cursor = FromNewest,
           arg.flag => arg.cursor = x.admin.cursor /\ x.admin.cursor # NoMore
    PROVE  Sound(called(superseded(x, rowKinds), kind, arg), sv)
<1> DEFINE y == superseded(x, rowKinds)
           v == called(y, kind, arg)
           a == x.admin
<1>1. kind \in adminKinds /\ rowKinds \in SUBSET adminKinds /\ rowKinds \cap inspectKinds = {}
  BY DEF adminKinds, rowKinds, inspectKinds
<1>2. /\ PanelTurned(y, w) /\ y.admin = a
      /\ \A i \in Slots :
            /\ y.calls[i].kind = x.calls[i].kind
            /\ x.calls[i].kind \notin rowKinds => y.calls[i] = x.calls[i]
            /\ x.calls[i].kind \in rowKinds => ~(y.calls[i].current /\ y.calls[i].alive)
  BY <1>1, PanelSuperseded
<1>3. y.cookie \in SidsOrNone /\ a \in Board
  BY <1>2, PageParts DEF PanelTurned
<1> HIDE DEF y, v
<1>4. \A i \in Slots : ~waiting(y.calls[i], rowKinds)
  BY <1>2 DEF waiting
<1>5. \A i \in Slots : waiting(y.calls[i], inspectKinds) => y.calls[i].arg.match = a.selected
  BY <1>1, <1>2 DEF waiting
<1>6. \A i \in Slots : PanelDue(y.calls[i], y.admin)
  BY <1>2, <1>4, <1>5 DEF PanelDue
<1>7. PanelClear(y, kind)
  BY <1>1, <1>4 DEF PanelClear
<1>8. PanelDue(freshCall(y.cookie, kind, arg), y.admin)
  <2> DEFINE c == freshCall(y.cookie, kind, arg)
  <2>1. c.kind = kind /\ c.arg = arg /\ c.answer.status = "none"
    <3>1. kind \in Kinds
      BY <1>1 DEF Kinds
    <3> QED BY <1>3, <3>1, FreshCall
  <2> HIDE DEF c
  <2>2. PanelDue(c, a)
    BY <1>1, <2>1 DEF PanelDue, waiting, served
  <2> QED BY <1>2, <2>2 DEF c
<1>9. arg.tab \in listTabs /\ arg.filter \in Queries
  BY <1>3 DEF Board
<1>10. /\ v.admin = y.admin /\ Asked(v, y, kind, arg)
       /\ PanelRows(v, sv) => Sound(v, sv)
  BY <1>1, <1>2, <1>6, <1>7, <1>8, <1>9, PanelSends DEF v
<1>11. \E i \in Slots : waiting(v.calls[i], rowKinds)
  BY <1>10 DEF Asked, waiting
<1>12. a.detailLoading => \E i \in Slots : waiting(v.calls[i], inspectKinds)
  <2>1. \A i \in Slots : waiting(x.calls[i], inspectKinds) => waiting(v.calls[i], inspectKinds)
    <3>1. "none" \notin inspectKinds
      BY DEF inspectKinds
    <3> QED BY <1>1, <1>2, <1>10, <3>1 DEF Asked, waiting
  <2> QED BY <2>1
<1>13. v.admin = a
  BY <1>2, <1>10
<1>14. PanelRows(v, sv)
  BY <1>11, <1>12, <1>13 DEF PanelRows, PanelData
<1> QED BY <1>10, <1>14 DEF v, y

\* What the dialog knows when it is open.
LEMMA PanelKnown ==
    ASSUME NEW w, NEW sv, Sound(w, sv), w.app.adminOpen
    PROVE  /\ PanelTurned(w, w) /\ w.admin \in Board /\ PanelData(w.admin, sv)
           /\ PanelRows(w, sv)
           /\ \A i \in Slots : PanelDue(w.calls[i], w.admin)
           /\ w.admin.detail # NoMatch => w.admin.detail = w.admin.selected
           /\ w.admin.selected = w.admin.wanted
           /\ w.admin.detailLoading => \E i \in Slots : waiting(w.calls[i], inspectKinds)
           /\ \A i \in Slots : waiting(w.calls[i], inspectKinds) =>
                w.calls[i].arg.match = w.admin.selected
<1>1. w \in Page /\ PanelRows(w, sv) /\ PanelCalls(w, sv)
  BY DEF Sound, Listed
<1>2. PanelTurned(w, w)
  BY <1>1, FadedSame DEF PanelTurned
<1>3. w.admin \in Board
  BY <1>1, PageParts
<1>4. PanelData(w.admin, sv)
  BY <1>1 DEF PanelRows, PanelData
<1>5. \A i \in Slots : PanelDue(w.calls[i], w.admin)
  BY <1>1 DEF PanelCalls
<1>6. /\ w.admin.detail # NoMatch => w.admin.detail = w.admin.selected
      /\ w.admin.selected = w.admin.wanted
      /\ w.admin.detailLoading => \E i \in Slots : waiting(w.calls[i], inspectKinds)
  BY <1>1 DEF PanelRows
<1>7. \A i \in Slots : waiting(w.calls[i], inspectKinds) =>
            w.calls[i].arg.match = w.admin.selected
  BY <1>5 DEF PanelDue
<1> QED BY <1>1, <1>2, <1>3, <1>4, <1>5, <1>6, <1>7

\* The list begins to load, for the query it has or another.
LEMMA Beginning ==
    ASSUME NEW a \in Board, NEW q \in Queries
    PROVE  /\ LET b == beginning(a)
              IN  /\ b \in Board /\ b.loading /\ ~b.error /\ b.tab = a.tab /\ b.items = a.items
                  /\ b.cursor = a.cursor /\ b.query = a.query /\ b.selected = a.selected
                  /\ b.detail = a.detail /\ b.detailLoading = a.detailLoading
                  /\ b.since = a.since /\ b.shown = a.shown /\ b.wanted = a.wanted
                  /\ b.mixed = a.mixed
           /\ LET b == [beginning(a) EXCEPT !.query = q]
              IN  /\ b \in Board /\ b.loading /\ ~b.error /\ b.tab = a.tab /\ b.items = a.items
                  /\ b.cursor = a.cursor /\ b.query = q /\ b.selected = a.selected
                  /\ b.detail = a.detail /\ b.detailLoading = a.detailLoading
                  /\ b.since = a.since /\ b.shown = a.shown /\ b.wanted = a.wanted
                  /\ b.mixed = a.mixed
<1> DEFINE b == beginning(a)
<1>1. b \in Board
  BY DEF beginning, Board
<1>2. /\ b.loading /\ ~b.error /\ b.tab = a.tab /\ b.items = a.items
      /\ b.cursor = a.cursor /\ b.query = a.query /\ b.selected = a.selected
      /\ b.detail = a.detail /\ b.detailLoading = a.detailLoading
      /\ b.since = a.since /\ b.shown = a.shown /\ b.wanted = a.wanted
      /\ b.mixed = a.mixed
  BY DEF beginning, Board
<1> HIDE DEF b
<1> DEFINE d == [b EXCEPT !.query = q]
<1>3. d \in Board
  BY <1>1 DEF Board
<1>4. /\ d.loading = b.loading /\ d.error = b.error /\ d.tab = b.tab /\ d.items = b.items
      /\ d.cursor = b.cursor /\ d.query = q /\ d.selected = b.selected
      /\ d.detail = b.detail /\ d.detailLoading = b.detailLoading
      /\ d.since = b.since /\ d.shown = b.shown /\ d.wanted = b.wanted
      /\ d.mixed = b.mixed
  BY <1>1 DEF Board
<1>5. /\ d.loading /\ ~d.error /\ d.tab = a.tab /\ d.items = a.items
      /\ d.cursor = a.cursor /\ d.query = q /\ d.selected = a.selected
      /\ d.detail = a.detail /\ d.detailLoading = a.detailLoading
      /\ d.since = a.since /\ d.shown = a.shown /\ d.wanted = a.wanted
      /\ d.mixed = a.mixed
  BY <1>2, <1>4
<1> HIDE DEF d
<1> QED BY <1>1, <1>2, <1>3, <1>5 DEF b, d

LEMMA LoadSound ==
    ASSUME NEW w, NEW sv, Sound(w, sv), w.app.adminOpen, w.admin.tab \in listTabs, Vacant(w),
           NEW append \in BOOLEAN, append => w.admin.cursor # NoMore
    PROVE  Sound(load(w, append), sv)
<1> DEFINE b == beginning(w.admin)
           z == panel(w, b)
           n == IF append THEN w.admin.cursor ELSE FromNewest
           arg == [noArg EXCEPT !.tab = w.admin.tab, !.filter = w.admin.query, !.flag = append,
                                !.cursor = n]
<1>1. load(w, append) = called(superseded(z, rowKinds), "load", arg)
  BY DEF load
<1>2. /\ PanelTurned(w, w) /\ w.admin \in Board /\ PanelData(w.admin, sv)
      /\ w.admin.detail # NoMatch => w.admin.detail = w.admin.selected
      /\ w.admin.selected = w.admin.wanted
      /\ w.admin.detailLoading => \E i \in Slots : waiting(w.calls[i], inspectKinds)
      /\ \A i \in Slots : waiting(w.calls[i], inspectKinds) =>
            w.calls[i].arg.match = w.admin.selected
  BY PanelKnown
<1>3. /\ b \in Board /\ b.loading /\ ~b.error /\ b.tab = w.admin.tab /\ b.items = w.admin.items
      /\ b.cursor = w.admin.cursor /\ b.query = w.admin.query /\ b.selected = w.admin.selected
      /\ b.detail = w.admin.detail /\ b.detailLoading = w.admin.detailLoading
      /\ b.since = w.admin.since /\ b.shown = w.admin.shown /\ b.wanted = w.admin.wanted
      /\ b.mixed = w.admin.mixed
  <2>1. w.admin.query \in Queries
    BY <1>2 DEF Board
  <2> QED BY <1>2, <2>1, Beginning
<1>4. w.admin.tab \in Tabs /\ w.admin.query \in Queries /\ n \in 0 .. FromNewest
  <2>1. w.admin.cursor \in 0 .. FromNewest /\ FromNewest \in 0 .. FromNewest
    BY <1>2, Bounds DEF Board, MatchesOrNone, FromNewest
  <2> QED BY <1>2, <2>1 DEF Board
<1>5. n = IF append THEN w.admin.cursor ELSE FromNewest
  OBVIOUS
<1> HIDE DEF b, n
<1>6. arg \in Arg /\ arg.tab = w.admin.tab /\ arg.filter = w.admin.query /\ arg.flag = append
      /\ arg.cursor = n
  <2> DEFINE t == w.admin.tab
             q == w.admin.query
  <2>1. t \in Tabs /\ q \in Queries
    BY <1>4
  <2> HIDE DEF t, q
  <2>2. LET a == [noArg EXCEPT !.tab = t, !.filter = q, !.flag = append, !.cursor = n]
        IN  a \in Arg /\ a.tab = t /\ a.filter = q /\ a.flag = append /\ a.cursor = n
    BY <1>4, <2>1, NoCallTypes DEF Arg
  <2> QED BY <2>2 DEF t, q
<1> HIDE DEF arg
<1>7. PanelTurned(z, w) /\ z.admin = b /\ z.calls = w.calls
  BY <1>2, <1>3, PanelWith
<1> HIDE DEF z
<1>8. PanelData(b, sv)
  BY <1>2, <1>3, PanelDataKept
<1>9. /\ z.admin.tab \in listTabs /\ z.admin.loading /\ ~z.admin.error /\ PanelData(z.admin, sv)
      /\ z.admin.detail # NoMatch => z.admin.detail = z.admin.selected
      /\ z.admin.selected = z.admin.wanted
      /\ z.admin.detailLoading => \E i \in Slots : waiting(z.calls[i], inspectKinds)
      /\ \A i \in Slots : waiting(z.calls[i], inspectKinds) =>
            z.calls[i].arg.match = z.admin.selected
  BY <1>2, <1>3, <1>7, <1>8
<1>10. /\ arg.tab = z.admin.tab /\ arg.filter = z.admin.query
       /\ ~arg.flag => arg.cursor = FromNewest
       /\ arg.flag => arg.cursor = z.admin.cursor /\ z.admin.cursor # NoMore
  BY <1>3, <1>5, <1>6, <1>7
<1>11. "load" \in rowKinds
  BY DEF rowKinds
<1>12. Sound(called(superseded(z, rowKinds), "load", arg), sv)
  BY <1>6, <1>7, <1>9, <1>10, <1>11, RowsAsked
<1> QED BY <1>1, <1>12

LEMMA RowsOfSound ==
    ASSUME NEW w, NEW z, NEW sv, Sound(w, sv), Vacant(w), PanelTurned(z, w),
           z.admin.tab \in listTabs, z.admin.loading, ~z.admin.error, PanelData(z.admin, sv),
           z.admin.detail # NoMatch => z.admin.detail = z.admin.selected,
           z.admin.selected = z.admin.wanted,
           z.admin.detailLoading => \E i \in Slots : waiting(z.calls[i], inspectKinds),
           \A i \in Slots : waiting(z.calls[i], inspectKinds) =>
                z.calls[i].arg.match = z.admin.selected
    PROVE  Sound(rowsOf(z), sv)
<1> DEFINE t == z.admin.tab
           q == z.admin.query
           arg == [noArg EXCEPT !.tab = t, !.filter = q]
<1>1. rowsOf(z) = called(superseded(z, rowKinds), "rows", arg)
  BY DEF rowsOf
<1>2. t \in Tabs /\ q \in Queries
  BY PageParts DEF PanelTurned, Board
<1>3. t = z.admin.tab /\ q = z.admin.query
  OBVIOUS
<1> HIDE DEF t, q
<1>4. arg \in Arg /\ arg.tab = t /\ arg.filter = q /\ ~arg.flag /\ arg.cursor = FromNewest
  BY Zenon, <1>2, RowsArg
<1> HIDE DEF arg
<1>5. "rows" \in rowKinds
  BY DEF rowKinds
<1>6. Sound(called(superseded(z, rowKinds), "rows", arg), sv)
  BY <1>3, <1>4, <1>5, RowsAsked
<1> QED BY <1>1, <1>6

LEMMA SearchSound ==
    ASSUME AccountSound, Search \/ RetryRows \/ LoadOlder
    PROVE  AccountSound'
<1>1. /\ page.app.adminOpen /\ page.admin.tab \in listTabs /\ Vacant(page) /\ server' = server
      /\ Sound(page, server)
  BY RoomThere DEF Search, RetryRows, LoadOlder, OnTab, Asks, Shows, AccountSound, Panel
<1>2. CASE RetryRows
  <2>1. page' = load(page, FALSE)
    BY <1>2 DEF RetryRows, Asks, Shows
  <2> QED BY <1>1, <2>1, LoadSound DEF AccountSound
<1>3. CASE LoadOlder
  <2>1. page' = load(page, TRUE) /\ page.admin.cursor # NoMore
    BY <1>3 DEF LoadOlder, Asks, Shows, Panel
  <2> QED BY <1>1, <2>1, LoadSound DEF AccountSound
<1>4. CASE Search
  <2>1. PICK q \in Queries : page' = search(page, q)
    BY <1>4 DEF Search, Asks, Shows
  <2>2. CASE q = page.admin.query
    <3>1. page' = load(page, FALSE)
      BY <2>1, <2>2 DEF search
    <3> QED BY <1>1, <3>1, LoadSound DEF AccountSound
  <2>3. CASE q # page.admin.query
    <3> DEFINE a == page.admin
               b == [beginning(a) EXCEPT !.query = q]
               z == panel(page, b)
    <3>1. page' = rowsOf(z)
      BY <2>1, <2>3 DEF search
    <3>2. /\ PanelTurned(page, page) /\ a \in Board /\ PanelData(a, server)
          /\ a.detail # NoMatch => a.detail = a.selected
          /\ a.selected = a.wanted
          /\ a.detailLoading => \E i \in Slots : waiting(page.calls[i], inspectKinds)
          /\ \A i \in Slots : waiting(page.calls[i], inspectKinds) =>
                page.calls[i].arg.match = a.selected
      BY <1>1, PanelKnown
    <3>3. /\ b \in Board /\ b.loading /\ ~b.error /\ b.tab = a.tab /\ b.items = a.items
          /\ b.cursor = a.cursor /\ b.selected = a.selected
          /\ b.detail = a.detail /\ b.detailLoading = a.detailLoading
          /\ b.since = a.since /\ b.shown = a.shown /\ b.wanted = a.wanted
          /\ b.mixed = a.mixed
      BY <3>2, Beginning
    <3>4. a.tab \in listTabs
      BY <1>1
    <3> HIDE DEF a, b
    <3>5. PanelTurned(z, page) /\ z.admin = b /\ z.calls = page.calls
      BY <3>2, <3>3, PanelWith
    <3> HIDE DEF z
    <3>6. PanelData(b, server)
      BY <3>2, <3>3, PanelDataKept
    <3>7. Sound(rowsOf(z), server)
      BY <1>1, <3>2, <3>3, <3>4, <3>5, <3>6, RowsOfSound
    <3> QED BY <1>1, <3>1, <3>7 DEF AccountSound
  <2> QED BY <2>2, <2>3
<1> QED BY <1>2, <1>3, <1>4

\* The statistics and the console ask beside the lists.
LEMMA SideAsked ==
    ASSUME NEW w, NEW x, NEW sv, Sound(w, sv), Vacant(w), PanelTurned(x, w),
           NEW kind \in {"stats", "console"}, PanelRows(x, sv),
           \A i \in Slots : PanelDue(x.calls[i], x.admin)
    PROVE  Sound(called(x, kind, noArg), sv)
<1> DEFINE v == called(x, kind, noArg)
<1>1. kind \in adminKinds /\ kind \notin rowKinds /\ kind \notin inspectKinds /\ kind \in Kinds
  BY DEF Kinds, adminKinds, rowKinds, inspectKinds
<1>2. noArg \in Arg /\ x.cookie \in SidsOrNone
  BY NoCallTypes, PageParts DEF PanelTurned
<1>3. PanelClear(x, kind)
  BY <1>1 DEF PanelClear
<1>4. PanelDue(freshCall(x.cookie, kind, noArg), x.admin)
  <2> DEFINE c == freshCall(x.cookie, kind, noArg)
  <2>1. c.kind = kind
    BY <1>1, <1>2, FreshCall
  <2> HIDE DEF c
  <2>2. PanelDue(c, x.admin)
    BY <1>1, <2>1 DEF PanelDue, waiting
  <2> QED BY <2>2 DEF c
<1>5. /\ v.admin = x.admin /\ Asked(v, x, kind, noArg)
      /\ PanelRows(v, sv) => Sound(v, sv)
  BY <1>1, <1>2, <1>3, <1>4, PanelSends
<1> HIDE DEF v
<1>6. \A i \in Slots : \A kinds \in {rowKinds, inspectKinds} :
        waiting(x.calls[i], kinds) => waiting(v.calls[i], kinds)
  <2>1. "none" \notin rowKinds /\ "none" \notin inspectKinds
    BY DEF rowKinds, inspectKinds
  <2> QED BY <1>5, <2>1 DEF Asked, waiting
<1>7. PanelRows(v, sv)
  BY <1>5, <1>6 DEF PanelRows
<1> QED BY <1>5, <1>7 DEF v

\* A match is opened, from the list or again.
LEMMA InspectAsked ==
    ASSUME NEW w, NEW sv, Sound(w, sv), Vacant(w), w.app.adminOpen,
           NEW kind \in inspectKinds, NEW m \in MatchesOrNone
    PROVE  Sound(inspected(w, kind, m), sv)
<1> DEFINE a == [w.admin EXCEPT !.selected = m, !.detail = NoMatch, !.detailLoading = TRUE,
                                !.detailError = FALSE, !.wanted = m]
           z == panel(w, a)
           y == superseded(z, inspectKinds)
           arg == [noArg EXCEPT !.match = m]
           v == called(y, kind, arg)
<1>1. inspected(w, kind, m) = v
  BY DEF inspected
<1>2. /\ kind \in adminKinds /\ kind \in Kinds /\ inspectKinds \in SUBSET adminKinds
      /\ rowKinds \cap inspectKinds = {}
  BY DEF adminKinds, rowKinds, inspectKinds, Kinds
<1>3. /\ PanelTurned(w, w) /\ w.admin \in Board /\ PanelData(w.admin, sv) /\ PanelRows(w, sv)
      /\ \A i \in Slots : PanelDue(w.calls[i], w.admin)
  BY PanelKnown
<1>4. a \in Board
  <2>1. NoMatch \in MatchesOrNone
    BY Bounds DEF NoMatch, MatchesOrNone
  <2> QED BY <1>3, <2>1 DEF Board
<1>5. /\ a.tab = w.admin.tab /\ a.items = w.admin.items /\ a.cursor = w.admin.cursor
      /\ a.query = w.admin.query /\ a.loading = w.admin.loading /\ a.error = w.admin.error
      /\ a.since = w.admin.since /\ a.shown = w.admin.shown /\ a.mixed = w.admin.mixed
  BY <1>3 DEF Board
<1>6. a.selected = m /\ a.wanted = m /\ a.detail = NoMatch /\ a.detailLoading
  BY <1>3 DEF Board
<1>7. arg \in Arg /\ arg.match = m
  BY Zenon, ShelfArgs
<1> HIDE DEF a, arg
<1>8. PanelTurned(z, w) /\ z.admin = a /\ z.calls = w.calls
  BY <1>3, <1>4, PanelWith
<1> HIDE DEF z
<1>9. /\ PanelTurned(y, w) /\ y.admin = a
      /\ \A i \in Slots :
            /\ w.calls[i].kind \notin inspectKinds => y.calls[i] = w.calls[i]
            /\ w.calls[i].kind \in inspectKinds => ~(y.calls[i].current /\ y.calls[i].alive)
            /\ y.calls[i].kind = w.calls[i].kind
  BY <1>2, <1>8, PanelSuperseded
<1>10. y.cookie \in SidsOrNone
  BY <1>9, PageParts DEF PanelTurned
<1> HIDE DEF y
<1>11. \A i \in Slots : ~waiting(y.calls[i], inspectKinds)
  BY <1>9 DEF waiting
<1>12. \A i \in Slots : PanelDue(y.calls[i], y.admin)
  <2> SUFFICES ASSUME NEW i \in Slots PROVE PanelDue(y.calls[i], a)
    BY <1>9
  <2>1. PanelDue(w.calls[i], w.admin)
    BY <1>3
  <2>2. CASE w.calls[i].kind \in inspectKinds
    BY <1>2, <1>9, <1>11, <2>2 DEF PanelDue, waiting
  <2>3. CASE w.calls[i].kind \notin inspectKinds
    BY <1>5, <1>9, <1>11, <2>1, <2>3 DEF PanelDue
  <2> QED BY <2>2, <2>3
<1>13. PanelClear(y, kind)
  BY <1>2, <1>11 DEF PanelClear
<1>14. PanelDue(freshCall(y.cookie, kind, arg), y.admin)
  <2> DEFINE c == freshCall(y.cookie, kind, arg)
  <2>1. c.kind = kind /\ c.arg = arg
    BY <1>2, <1>7, <1>10, FreshCall
  <2> HIDE DEF c
  <2>2. PanelDue(c, a)
    BY <1>2, <1>6, <1>7, <2>1 DEF PanelDue, waiting
  <2> QED BY <1>9, <2>2 DEF c
<1>15. /\ v.admin = y.admin /\ Asked(v, y, kind, arg)
       /\ PanelRows(v, sv) => Sound(v, sv)
  <2>1. kind \notin rowKinds
    BY <1>2
  <2> QED BY <1>2, <1>7, <1>9, <1>12, <1>13, <1>14, <2>1, PanelSends
<1> HIDE DEF v
<1>16. \E i \in Slots : waiting(v.calls[i], inspectKinds)
  BY <1>15 DEF Asked, waiting
<1>17. \A i \in Slots : waiting(w.calls[i], rowKinds) => waiting(v.calls[i], rowKinds)
  <2>1. "none" \notin rowKinds
    BY DEF rowKinds
  <2> QED BY <1>2, <1>9, <1>15, <2>1 DEF Asked, waiting
<1>18. PanelRows(v, sv)
  <2>1. PanelData(a, sv)
    BY <1>3, <1>5, PanelDataKept
  <2>2. v.admin = a
    BY <1>9, <1>15
  <2>3. /\ a.tab \in listTabs /\ ~a.loading /\ ~a.error => a.shown = a.query
        /\ a.tab \in listTabs /\ a.loading => \E i \in Slots : waiting(v.calls[i], rowKinds)
    BY <1>3, <1>5, <1>17 DEF PanelRows
  <2> QED BY <1>6, <1>16, <2>1, <2>2, <2>3 DEF PanelRows, PanelData
<1> QED BY <1>1, <1>15, <1>18

\* A view of the dialog before anything of it is on its way.
LEMMA NewView ==
    ASSUME NEW w, NEW x, NEW sv, PanelTurned(x, w), NEW tab \in Tabs, x.admin = newPanel(tab),
           \A i \in Slots : x.calls[i].kind \in adminKinds => ~x.calls[i].alive
    PROVE  /\ \A i \in Slots : PanelDue(x.calls[i], x.admin)
           /\ \A i \in Slots : ~waiting(x.calls[i], inspectKinds)
           /\ x.admin.tab = tab /\ x.admin.loading /\ ~x.admin.error /\ ~x.admin.detailLoading
           /\ x.admin.detail = NoMatch /\ x.admin.selected = NoMatch /\ x.admin.wanted = NoMatch
           /\ PanelData(x.admin, sv)
           /\ tab \notin listTabs => PanelRows(x, sv)
<1> DEFINE a == newPanel(tab)
<1>1. /\ a.tab = tab /\ a.items = <<>> /\ a.cursor = NoMore /\ a.query = "all" /\ a.loading
      /\ ~a.error /\ a.selected = NoMatch /\ a.detail = NoMatch /\ ~a.detailLoading
      /\ a.since = {} /\ a.shown = "all" /\ a.wanted = NoMatch /\ ~a.mixed
  BY DEF newPanel
<1>2. x.admin = a
  OBVIOUS
<1> HIDE DEF a
<1>3. rowKinds \subseteq adminKinds /\ inspectKinds \subseteq adminKinds
  BY DEF adminKinds
<1>4. \A i \in Slots : ~waiting(x.calls[i], rowKinds) /\ ~waiting(x.calls[i], inspectKinds)
  BY <1>3 DEF waiting
<1>5. \A i \in Slots : PanelDue(x.calls[i], x.admin)
  BY <1>4 DEF PanelDue
<1>6. Range(a.items) = {} /\ descending(a.items)
  BY <1>1 DEF Range, descending
<1>7. PanelData(a, sv)
  BY <1>1, <1>6 DEF PanelData, Joined, noGap
<1>8. tab \notin listTabs => PanelRows(x, sv)
  BY <1>1, <1>2, <1>7 DEF PanelRows, PanelData
<1> QED BY <1>1, <1>2, <1>4, <1>5, <1>7, <1>8

LEMMA MatchClicks ==
    ASSUME AccountSound, SelectMatch \/ RetryMatch
    PROVE  AccountSound'
<1>1. /\ page.app.adminOpen /\ Vacant(page) /\ server' = server /\ Sound(page, server)
      /\ page.admin \in Board
  BY RoomThere, PageParts
  DEF SelectMatch, RetryMatch, OnTab, Asks, Shows, AccountSound, Sound, Panel
<1>2. CASE SelectMatch
  <2>1. PICK m \in Range(page.admin.items) : page' = inspected(page, "inspect", m)
    BY <1>2 DEF SelectMatch, Asks, Shows, Panel, selectMatch
  <2>2. m \in MatchesOrNone
    BY <1>1, Bounds DEF Board, Range, Matches, MatchesOrNone
  <2>3. "inspect" \in inspectKinds
    BY DEF inspectKinds
  <2> QED BY <1>1, <2>1, <2>2, <2>3, InspectAsked DEF AccountSound
<1>3. CASE RetryMatch
  <2>1. page' = inspected(page, "reinspect", page.admin.selected)
    BY <1>3 DEF RetryMatch, Asks, Shows, retryDetail
  <2>2. page.admin.selected \in MatchesOrNone
    BY <1>1 DEF Board
  <2>3. "reinspect" \in inspectKinds
    BY DEF inspectKinds
  <2> QED BY <1>1, <2>1, <2>2, <2>3, InspectAsked DEF AccountSound
<1> QED BY <1>2, <1>3

LEMMA MatchCloses ==
    ASSUME AccountSound, CloseMatch
    PROVE  AccountSound'
<1> DEFINE y == superseded(page, inspectKinds)
           a == closed(page.admin)
           x == panel(y, a)
<1>1. /\ page.app.adminOpen /\ server' = server /\ Sound(page, server)
      /\ page' = panel(superseded(page, inspectKinds), closed(page.admin))
  BY DEF CloseMatch, OnTab, Shows, AccountSound, closeMobileDetail
<1>2. /\ PanelTurned(page, page) /\ page.admin \in Board /\ PanelRows(page, server)
      /\ PanelData(page.admin, server)
      /\ \A i \in Slots : PanelDue(page.calls[i], page.admin)
  BY <1>1, PanelKnown
<1>3. /\ a.tab = page.admin.tab /\ a.items = page.admin.items /\ a.cursor = page.admin.cursor
      /\ a.query = page.admin.query /\ a.loading = page.admin.loading
      /\ a.error = page.admin.error /\ a.since = page.admin.since
      /\ a.shown = page.admin.shown /\ a.mixed = page.admin.mixed
  BY <1>2 DEF Board, closed
<1>4. a.selected = NoMatch /\ a.wanted = NoMatch /\ a.detail = NoMatch /\ ~a.detailLoading
  BY <1>2 DEF Board, closed
<1>5. a \in Board
  <2>1. NoMatch \in MatchesOrNone
    BY Bounds DEF NoMatch, MatchesOrNone
  <2> QED BY <1>2, <2>1 DEF Board, closed
<1> HIDE DEF a
<1>6. inspectKinds \in SUBSET adminKinds /\ rowKinds \cap inspectKinds = {}
  BY DEF adminKinds, rowKinds, inspectKinds
<1>7. /\ PanelTurned(y, page)
      /\ \A i \in Slots :
            /\ y.calls[i].kind = page.calls[i].kind
            /\ page.calls[i].kind \notin inspectKinds => y.calls[i] = page.calls[i]
            /\ page.calls[i].kind \in inspectKinds => ~(y.calls[i].current /\ y.calls[i].alive)
  BY <1>2, <1>6, PanelSuperseded
<1> HIDE DEF y
<1>8. PanelTurned(x, page) /\ x.admin = a /\ x.calls = y.calls
  BY <1>5, <1>7, PanelWith
<1> HIDE DEF x
<1>9. \A i \in Slots : PanelDue(x.calls[i], x.admin)
  <2> SUFFICES ASSUME NEW i \in Slots PROVE PanelDue(y.calls[i], a)
    BY <1>8
  <2>1. PanelDue(page.calls[i], page.admin)
    BY <1>2
  <2>2. CASE page.calls[i].kind \in inspectKinds
    BY <1>6, <1>7, <2>2 DEF PanelDue, waiting
  <2>3. CASE page.calls[i].kind \notin inspectKinds
    BY <1>3, <1>7, <2>1, <2>3 DEF PanelDue, waiting
  <2> QED BY <2>2, <2>3
<1>10. \A i \in Slots : waiting(page.calls[i], rowKinds) => waiting(x.calls[i], rowKinds)
  BY <1>6, <1>7, <1>8 DEF waiting
<1>11. PanelRows(x, server)
  <2>1. PanelData(a, server)
    BY <1>2, <1>3, PanelDataKept
  <2>2. /\ a.tab \in listTabs /\ ~a.loading /\ ~a.error => a.shown = a.query
        /\ a.tab \in listTabs /\ a.loading => \E i \in Slots : waiting(x.calls[i], rowKinds)
    BY <1>2, <1>3, <1>10 DEF PanelRows
  <2> QED BY <1>4, <1>8, <2>1, <2>2 DEF PanelRows, PanelData
<1>12. Sound(x, server)
  BY <1>1, <1>8, <1>9, <1>11, PanelTurnSound
<1>13. page' = x
  BY <1>1 DEF x, y, a
<1> QED BY <1>1, <1>12, <1>13 DEF AccountSound

LEMMA TabSet ==
    ASSUME AccountSound, SetTab
    PROVE  AccountSound'
<1>1. /\ page.app.adminOpen /\ Vacant(page) /\ server' = server /\ Sound(page, server)
      /\ page \in Page
  BY RoomThere DEF SetTab, Asks, Shows, AccountSound, Sound
<1>2. PICK tab \in Tabs : page' = setActiveTab(page, tab)
  BY DEF SetTab, Asks, Shows
<1> DEFINE u == unmountedPanel(page)
           a == newPanel(tab)
           z == panel(u, a)
<1>3. /\ u \in Page /\ u.app = page.app /\ u.session = page.session /\ u.history = page.history
      /\ u.cookie = page.cookie
      /\ \A i \in Slots :
            /\ Faded(u.calls[i], page.calls[i])
            /\ u.calls[i].kind \notin adminKinds => u.calls[i] = page.calls[i]
            /\ u.calls[i].kind \in adminKinds => ~u.calls[i].alive
  BY <1>1, PanelLeft
<1>4. a \in Board
  BY NewListTypes
<1>5. setActiveTab(page, tab) =
        CASE tab \in listTabs -> rowsOf(z)
          [] tab = "stats"    -> called(superseded(z, {"stats"}), "stats", noArg)
          [] OTHER            -> z
  BY DEF setActiveTab, loadStats
<1> HIDE DEF u, a
<1>6. PanelTurned(u, page)
  BY <1>1, <1>3 DEF PanelTurned, Faded
<1>7. PanelTurned(z, page) /\ z.admin = a /\ z.calls = u.calls
  BY <1>4, <1>6, PanelWith
<1> HIDE DEF z
<1>8. \A i \in Slots : z.calls[i].kind \in adminKinds => ~z.calls[i].alive
  BY <1>3, <1>7
<1>9. z.admin = newPanel(tab)
  BY <1>7 DEF a
<1>10. CASE tab \in listTabs
  <2>1. /\ \A i \in Slots : ~waiting(z.calls[i], inspectKinds)
        /\ z.admin.tab = tab /\ z.admin.loading /\ ~z.admin.error /\ ~z.admin.detailLoading
        /\ z.admin.detail = NoMatch /\ z.admin.selected = NoMatch /\ z.admin.wanted = NoMatch
        /\ PanelData(z.admin, server)
    BY <1>7, <1>8, <1>9, NewView
  <2>2. Sound(rowsOf(z), server)
    BY <1>1, <1>7, <1>10, <2>1, RowsOfSound
  <2>3. page' = rowsOf(z)
    BY <1>2, <1>5, <1>10 DEF listTabs
  <2> QED BY <1>1, <2>2, <2>3 DEF AccountSound
<1>11. ASSUME tab = "stats" PROVE AccountSound'
  <2> DEFINE y == superseded(z, {"stats"})
  <2>1. /\ PanelTurned(y, page) /\ y.admin = z.admin
        /\ \A i \in Slots : Faded(y.calls[i], z.calls[i])
    <3>1. {"stats"} \in SUBSET adminKinds
      BY DEF adminKinds
    <3> QED BY <1>7, <3>1, PanelSuperseded
  <2>2. page' = called(y, "stats", noArg)
    BY <1>2, <1>5, <1>11 DEF listTabs
  <2> HIDE DEF y
  <2>3. \A i \in Slots : y.calls[i].kind \in adminKinds => ~y.calls[i].alive
    BY <1>8, <2>1 DEF Faded
  <2>4. PanelRows(y, server) /\ \A i \in Slots : PanelDue(y.calls[i], y.admin)
    <3>1. tab \notin listTabs
      BY <1>11 DEF listTabs
    <3> QED BY <1>9, <2>1, <2>3, <3>1, NewView
  <2>5. Sound(called(y, "stats", noArg), server)
    BY <1>1, <2>1, <2>4, SideAsked
  <2> QED BY <1>1, <2>2, <2>5 DEF AccountSound
<1>12. ASSUME tab \notin listTabs, tab # "stats" PROVE AccountSound'
  <2>1. page' = z
    BY <1>2, <1>5, <1>12
  <2>2. PanelRows(z, server) /\ \A i \in Slots : PanelDue(z.calls[i], z.admin)
    BY <1>7, <1>8, <1>9, <1>12, NewView
  <2>3. Sound(z, server)
    BY <1>1, <1>7, <2>2, PanelTurnSound
  <2> QED BY <1>1, <2>1, <2>3 DEF AccountSound
<1> QED BY <1>10, <1>11, <1>12

\* Of the dialog that stays, or of one that opens on them.
LEMMA StatsSound ==
    ASSUME NEW x, Sound(page, server), Vacant(page), PanelTurned(x, page),
           PanelRows(x, server), \A i \in Slots : PanelDue(x.calls[i], x.admin)
    PROVE  Sound(loadStats(x), server)
<1> DEFINE y == superseded(x, {"stats"})
<1>1. /\ PanelTurned(y, page) /\ y.admin = x.admin
      /\ \A i \in Slots :
            /\ Faded(y.calls[i], x.calls[i])
            /\ x.calls[i].kind \notin {"stats"} => y.calls[i] = x.calls[i]
  <2>1. {"stats"} \in SUBSET adminKinds
    BY DEF adminKinds
  <2> QED BY <2>1, PanelSuperseded
<1>2. loadStats(x) = called(y, "stats", noArg)
  BY DEF loadStats
<1> HIDE DEF y
<1>3. "stats" \notin rowKinds /\ "stats" \notin inspectKinds
  BY DEF rowKinds, inspectKinds
<1>4. \A i \in Slots : PanelDue(y.calls[i], y.admin)
  <2> SUFFICES ASSUME NEW i \in Slots PROVE PanelDue(y.calls[i], x.admin)
    BY <1>1
  <2>1. CASE x.calls[i].kind = "stats"
    BY <1>1, <1>3, <2>1 DEF PanelDue, waiting, Faded
  <2>2. CASE x.calls[i].kind # "stats"
    BY <1>1, <2>2
  <2> QED BY <2>1, <2>2
<1>5. \A i \in Slots : \A kinds \in {rowKinds, inspectKinds} :
        waiting(x.calls[i], kinds) => waiting(y.calls[i], kinds)
  BY <1>1, <1>3 DEF waiting
<1>6. PanelRows(y, server)
  BY <1>1, <1>5 DEF PanelRows
<1>7. Sound(called(y, "stats", noArg), server)
  BY <1>1, <1>4, <1>6, SideAsked
<1> QED BY <1>2, <1>7

LEMMA SideClicks ==
    ASSUME AccountSound, RefreshStats \/ RunCommand
    PROVE  AccountSound'
<1>1. /\ page.app.adminOpen /\ Vacant(page) /\ server' = server /\ Sound(page, server)
  BY RoomThere DEF RefreshStats, RunCommand, OnTab, Asks, Shows, AccountSound
<1>2. /\ PanelTurned(page, page) /\ page.admin \in Board /\ PanelRows(page, server)
      /\ PanelData(page.admin, server)
      /\ \A i \in Slots : PanelDue(page.calls[i], page.admin)
  BY <1>1, PanelKnown
<1>3. CASE RefreshStats
  <2>1. page' = loadStats(page)
    BY <1>3 DEF RefreshStats, Asks, Shows
  <2> QED BY <1>1, <1>2, <2>1, StatsSound DEF AccountSound
<1>4. CASE RunCommand
  <2> DEFINE a == [page.admin EXCEPT !.busy = TRUE]
             x == panel(page, a)
  <2>1. page' = called(x, "console", noArg)
    BY <1>4 DEF RunCommand, Asks, Shows, submitCommand
  <2>2. a \in Board
    BY <1>2 DEF Board
  <2>3. /\ a.tab = page.admin.tab /\ a.items = page.admin.items /\ a.cursor = page.admin.cursor
        /\ a.query = page.admin.query /\ a.loading = page.admin.loading
        /\ a.error = page.admin.error /\ a.since = page.admin.since
        /\ a.shown = page.admin.shown /\ a.mixed = page.admin.mixed
    BY <1>2 DEF Board
  <2>4. /\ a.selected = page.admin.selected /\ a.wanted = page.admin.wanted
        /\ a.detail = page.admin.detail /\ a.detailLoading = page.admin.detailLoading
    BY <1>2 DEF Board
  <2> HIDE DEF a
  <2>5. PanelTurned(x, page) /\ x.admin = a /\ x.calls = page.calls
    BY <1>2, <2>2, PanelWith
  <2> HIDE DEF x
  <2>6. \A i \in Slots : PanelDue(x.calls[i], x.admin)
    <3> SUFFICES ASSUME NEW i \in Slots PROVE PanelDue(page.calls[i], a)
      BY <2>5
    <3>1. PanelDue(page.calls[i], page.admin)
      BY <1>2
    <3> QED BY <2>3, <2>4, <3>1 DEF PanelDue
  <2>7. PanelRows(x, server)
    <3>1. PanelData(a, server)
      BY <1>2, <2>3, PanelDataKept
    <3>2. /\ a.tab \in listTabs /\ ~a.loading /\ ~a.error => a.shown = a.query
          /\ a.detail # NoMatch => a.detail = a.selected
          /\ a.selected = a.wanted
          /\ a.tab \in listTabs /\ a.loading => \E i \in Slots : waiting(x.calls[i], rowKinds)
          /\ a.detailLoading => \E i \in Slots : waiting(x.calls[i], inspectKinds)
      BY <1>2, <2>3, <2>4, <2>5 DEF PanelRows
    <3> QED BY <2>5, <3>1, <3>2 DEF PanelRows, PanelData
  <2>8. Sound(called(x, "console", noArg), server)
    BY <1>1, <2>5, <2>6, <2>7, SideAsked
  <2> QED BY <1>1, <2>1, <2>8 DEF AccountSound
<1> QED BY <1>3, <1>4

LEMMA AdminOpens ==
    ASSUME AccountSound, OpenAdmin
    PROVE  AccountSound'
<1> DEFINE p == [page.app EXCEPT !.adminOpen = TRUE]
           a == newPanel("stats")
           u == [page EXCEPT !.app = p]
           x == panel(u, a)
<1>1. /\ ~page.app.adminOpen /\ page.session.account # NoAccount /\ Vacant(page)
      /\ server' = server /\ Sound(page, server) /\ page \in Page
      /\ page' = loadStats([page EXCEPT !.app.adminOpen = TRUE, !.admin = newPanel("stats")])
  BY RoomThere
  DEF OpenAdmin, ProfileMenu, Header, signedIn, Asks, Shows, AccountSound, Sound
<1>2. /\ p \in App /\ p.screen = page.app.screen /\ p.returnTo = page.app.returnTo
      /\ p.socket = page.app.socket /\ p.overtaken = page.app.overtaken /\ p.adminOpen
  BY <1>1, PageParts DEF App
<1>3. page' = loadStats(x)
  BY <1>1 DEF panel
<1> HIDE DEF p, a
<1>4. /\ u \in Page /\ u.app = p /\ u.session = page.session /\ u.history = page.history
      /\ u.calls = page.calls /\ u.cookie = page.cookie
  BY <1>1, <1>2, WithApp
<1> HIDE DEF u
<1>5. PanelTurned(u, page)
  BY <1>1, <1>2, <1>4, FadedSame DEF PanelTurned
<1>6. PanelTurned(x, page) /\ x.admin = a /\ x.calls = page.calls
  <2>1. a \in Board
    BY NewListTypes DEF a
  <2> QED BY <1>4, <1>5, <2>1, PanelWith
<1> HIDE DEF x
<1>7. \A i \in Slots : x.calls[i].kind \in adminKinds => ~x.calls[i].alive
  BY <1>1, <1>6, ListsOff DEF OffPanel
<1>8. PanelRows(x, server) /\ \A i \in Slots : PanelDue(x.calls[i], x.admin)
  <2>1. "stats" \in Tabs /\ "stats" \notin listTabs
    BY DEF Tabs, listTabs
  <2>2. x.admin = newPanel("stats")
    BY <1>6 DEF a
  <2> QED BY <1>6, <1>7, <2>1, <2>2, NewView
<1>9. Sound(loadStats(x), server)
  BY <1>1, <1>6, <1>8, StatsSound
<1> QED BY <1>1, <1>3, <1>9 DEF AccountSound

\* What a click on the page does.
LEMMA ClicksSound ==
    ASSUME AccountSound, Clicks
    PROVE  AccountSound'
<1>1. CASE Continue \/ ChooseOnline \/ Back \/ FindGames \/ QuickMatch \/ CreateAccount
           \/ SignIn \/ SwitchMode \/ CloseAdmin
  BY <1>1, NavigationSound
<1>2. CASE SignOut \/ SubmitLogin \/ SubmitMail \/ SubmitReset \/ SignOutOthers \/ RevokeDevice
  BY <1>2, FormSound
<1>3. CASE OpenSettings \/ OpenHistory \/ HistorySignIn
  BY <1>3, SettingsSound, HistoryOpens, HistorySignInSound
<1>4. CASE SelectFilter \/ RetryList \/ LoadMore \/ OpenDetail \/ RetryDetail \/ CloseDetail
           \/ SaveBookmark
  BY <1>4, ListClicks, MoreSound, DetailClicks, DetailClosed, SaveSound
<1>5. CASE OpenAdmin \/ SetTab \/ RefreshStats \/ Search \/ RetryRows \/ LoadOlder
           \/ SelectMatch \/ CloseMatch \/ RetryMatch \/ RunCommand
  BY <1>5, AdminOpens, TabSet, SideClicks, SearchSound, MatchClicks, MatchCloses
<1> QED BY <1>1, <1>2, <1>3, <1>4, <1>5 DEF Clicks
=============================================================================
