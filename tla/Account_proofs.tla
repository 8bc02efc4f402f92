--------------------------- MODULE Account_proofs ---------------------------

(* Proofs about a page with an account, for any number of accounts, sessions *)
(* and matches, calls under way and clicks: who the page says it is, whose   *)
(* socket it plays on, what its lists show and which bookmarks it claims,    *)
(* whatever the server answers and whatever happens on other devices.        *)
EXTENDS AccountClicks_proofs

-----------------------------------------------------------------------------

(* The server's steps, and the world's.                                      *)

\* A database after a step: the sessions that were made keep their owners, and one that has
\* ended stays so.
Later(t, sv) ==
    /\ t \in Server /\ sv.made <= t.made
    /\ \A tab \in listTabs : sv.rows[tab] \subseteq t.rows[tab]
    /\ \A s \in Sids : s <= sv.made =>
        t.owner[s] = sv.owner[s] /\ (s \in t.valid => s \in sv.valid)

\* A page that was told something, or that is in more doubt than it was.
Told(v, w) ==
    /\ v \in Page /\ v.app = w.app /\ v.cookie = w.cookie /\ v.admin = w.admin
    /\ v.session.account = w.session.account /\ v.session.mode = w.session.mode
    /\ v.session.busy = w.session.busy /\ v.session.acted = w.session.acted
    /\ w.session.doubt \subseteq v.session.doubt
    /\ v.history.listStatus = w.history.listStatus
    /\ v.history.detailStatus = w.history.detailStatus
    /\ \A i \in Slots :
        /\ v.calls[i].kind = w.calls[i].kind /\ v.calls[i].sid = w.calls[i].sid
        /\ v.calls[i].arg = w.calls[i].arg /\ v.calls[i].current = w.calls[i].current
        /\ v.calls[i].alive = w.calls[i].alive

LEMMA WhoseLater ==
    ASSUME NEW sv \in Server, NEW t, Later(t, sv), NEW sid \in SidsOrNone, sid <= sv.made,
           whose(sv, sid) = NoUser, \A s \in sv.valid : sv.owner[s] # NoUser
    PROVE  whose(t, sid) = NoUser
<1>1. sid \notin sv.valid
  BY DEF whose
<1>2. sid \notin t.valid
  BY <1>1 DEF Later, Server
<1> QED BY <1>2 DEF whose

\* Sessions that stand are for accounts.
LEMMA OwnersKnown ==
    ASSUME NEW w, NEW sv \in Server, SessionsMade(w, sv)
    PROVE  \A s \in sv.valid : s \in Sids /\ s <= sv.made /\ sv.owner[s] \in Users /\ sv.owner[s] # NoUser
<1>1. sv.valid \subseteq Sids /\ sv.made \in Nat
  BY Bounds DEF Server, SidsOrNone
<1>2. \A s \in sv.valid : s \in Sids /\ s \in 1 .. sv.made
  BY <1>1 DEF SessionsMade
<1>3. \A s \in sv.valid : s \in Sids /\ s <= sv.made
  BY <1>1, <1>2
<1> QED BY <1>3, Bounds DEF SessionsMade

LEMMA ToldSigned ==
    ASSUME NEW w, NEW v, NEW sv, NEW t, Sound(w, sv), Told(v, w), Later(t, sv),
           SessionsMade(v, t), AnswersTrue(v, t), Truthful(v, t)
    PROVE  Signed(v, t)
<1>1. Signed(w, sv) /\ w \in Page /\ sv \in Server
  BY DEF Sound
<1>2. OneAtATime(v)
  BY <1>1 DEF Signed, OneAtATime, Told
<1>3. Early(v)
  BY <1>1 DEF Signed, Early, Told
<1>4. AtHistory(v, t)
  <2>1. AtHistory(w, sv) /\ SessionsMade(w, sv)
    BY <1>1 DEF Signed
  <2>2. w.cookie \in SidsOrNone /\ w.cookie <= sv.made
    BY <1>1, <2>1, PageParts DEF SessionsMade
  <2>3. whose(sv, w.cookie) = NoUser => whose(t, w.cookie) = NoUser
    BY <1>1, <2>1, <2>2, OwnersKnown, WhoseLater
  <2> QED BY <2>1, <2>3 DEF AtHistory, Told
<1>5. Plays(v)
  <2>1. v.session.doubt = {} => w.session.doubt = {}
    BY DEF Told
  <2> QED BY <1>1, <2>1 DEF Signed, Plays, Told
<1> QED BY <1>2, <1>3, <1>4, <1>5 DEF Signed

\* A step on sessions alone.
LEMMA AuthTold ==
    ASSUME NEW w, NEW v, NEW sv, NEW t, Sound(w, sv), Told(v, w), Later(t, sv),
           t.starred = sv.starred, v.history = w.history,
           \A i \in Slots : w.calls[i].kind \in historyKinds \cup adminKinds =>
                v.calls[i] = w.calls[i],
           w.app.screen = "history" => t.owner = sv.owner,
           SessionsMade(v, t), AnswersTrue(v, t), Truthful(v, t)
    PROVE  Sound(v, t)
<1>1. Signed(v, t)
  BY ToldSigned
<1>2. w \in Page /\ v \in Page /\ sv \in Server /\ t \in Server /\ SessionsMade(w, sv)
  BY DEF Sound, Signed, Told, Later
<1>3. SameShelf(v, w) /\ SamePanel(v, w)
  BY DEF SameShelf, SamePanel, Told
<1>4. \A i \in Slots : v.calls[i].kind \in historyKinds \cup adminKinds => Faded(v.calls[i], w.calls[i])
  BY FadedSame DEF Told
<1>5. ShelfGrown(t, sv) /\ PanelGrown(t, sv)
  BY DEF ShelfGrown, PanelGrown, Later, listTabs
<1>6. Shelved(v, t)
  BY <1>2, <1>3, <1>4, <1>5, ShelfAside DEF Sound, Told
<1>7. Listed(v, t)
  BY <1>2, <1>3, <1>4, <1>5, PanelAside DEF Sound
<1> QED BY <1>1, <1>2, <1>6, <1>7 DEF Sound

\* One call has its answer.
Replied(v, w, n, r) ==
    /\ v \in Page /\ Beside(v, w)
    /\ v.calls[n] = [w.calls[n] EXCEPT !.answer = r]
    /\ \A i \in Slots \ {n} : v.calls[i] = w.calls[i]

LEMMA RepliedFields ==
    ASSUME NEW w \in Page, NEW n \in Slots, NEW r \in Reply
    PROVE  LET v == [w EXCEPT !.calls[n].answer = r]
           IN  /\ Replied(v, w, n, r) /\ Told(v, w)
               /\ v.calls[n].answer = r /\ v.calls[n].kind = w.calls[n].kind
               /\ v.calls[n].arg = w.calls[n].arg /\ v.calls[n].sid = w.calls[n].sid
               /\ v.calls[n].lost = w.calls[n].lost
               /\ v.calls[n].overtaken = w.calls[n].overtaken
<1> DEFINE d == [w.calls[n] EXCEPT !.answer = r]
           v == [w EXCEPT !.calls[n].answer = r]
<1>1. w.calls \in [Slots -> Call]
  BY PageParts
<1>2. /\ d \in Call /\ d.kind = w.calls[n].kind /\ d.sid = w.calls[n].sid
      /\ d.arg = w.calls[n].arg /\ d.answer = r /\ d.current = w.calls[n].current
      /\ d.alive = w.calls[n].alive /\ d.lost = w.calls[n].lost
      /\ d.overtaken = w.calls[n].overtaken
  <2>1. w.calls[n] \in Call
    BY <1>1
  <2> QED BY <2>1 DEF Call
<1>3. v = [w EXCEPT !.calls[n] = d]
  OBVIOUS
<1>4. d = [w.calls[n] EXCEPT !.answer = r]
  OBVIOUS
<1> HIDE DEF d, v
<1>5. /\ v \in Page /\ Beside(v, w) /\ v.calls[n] = d
      /\ \A i \in Slots \ {n} : v.calls[i] = w.calls[i]
  BY <1>2, <1>3, CallSet
<1>6. Replied(v, w, n, r)
  BY <1>4, <1>5 DEF Replied
<1>7. Told(v, w)
  BY <1>2, <1>5 DEF Told, Beside
<1>8. /\ v.calls[n].answer = r /\ v.calls[n].kind = w.calls[n].kind
      /\ v.calls[n].arg = w.calls[n].arg /\ v.calls[n].sid = w.calls[n].sid
      /\ v.calls[n].lost = w.calls[n].lost
      /\ v.calls[n].overtaken = w.calls[n].overtaken
  BY <1>2, <1>5
<1> QED BY <1>6, <1>7, <1>8 DEF v

\* Sessions that end, and none that is made.
Ends(t, sv) ==
    /\ t \in Server /\ t.owner = sv.owner /\ t.made = sv.made /\ t.valid \subseteq sv.valid
    /\ \A tab \in listTabs : sv.rows[tab] \subseteq t.rows[tab]

LEMMA EndsLater ==
    ASSUME NEW w, NEW v, NEW sv, NEW t, Sound(w, sv), Told(v, w), Ends(t, sv)
    PROVE  Later(t, sv) /\ SessionsMade(v, t)
<1>1. SessionsMade(w, sv) /\ sv \in Server
  BY DEF Sound, Signed
<1>2. sv.made \in Nat
  BY <1>1, Bounds DEF Server, SidsOrNone
<1>3. Later(t, sv)
  BY <1>2 DEF Later, Ends
<1>4. SessionsMade(v, t)
  BY <1>1 DEF SessionsMade, Told, Ends
<1> QED BY <1>3, <1>4

\* An answer that stands,
LEMMA AnswerLater ==
    ASSUME NEW w, NEW v, NEW sv, NEW t, Sound(w, sv), Told(v, w), Later(t, sv),
           NEW i \in Slots, v.calls[i].answer = w.calls[i].answer
    PROVE  AnswerTrue(v.calls[i], t)
<1> DEFINE c == w.calls[i]
           d == v.calls[i]
<1>1. AnswersTrue(w, sv) /\ SessionsMade(w, sv) /\ sv \in Server /\ w \in Page /\ t \in Server
  BY DEF Sound, Signed, Later
<1>2. c \in Call /\ c.sid \in SidsOrNone /\ c.sid <= sv.made /\ c.answer \in Reply
  <2>1. c \in Call
    BY <1>1, PageParts
  <2> QED BY <1>1, <2>1 DEF Call, SessionsMade
<1>3. whose(sv, c.sid) = NoUser => whose(t, c.sid) = NoUser
  BY <1>1, <1>2, OwnersKnown, WhoseLater
<1>4. /\ d.kind = c.kind /\ d.sid = c.sid /\ d.arg = c.arg /\ d.answer = c.answer
  BY DEF Told
<1>5. AnswerTrue(c, sv)
  BY <1>1 DEF AnswersTrue
<1>6. c.sid # NoSid => t.owner[c.sid] = sv.owner[c.sid]
  BY <1>2, Bounds DEF Later, SidsOrNone, Sids, NoSid
<1>7. c.answer.sid <= sv.made => c.answer.sid <= t.made
  BY <1>1, <1>2, Bounds DEF Later, Server, Reply, SidsOrNone
<1>8. accountOf(d) = accountOf(c)
  BY <1>4 DEF accountOf
<1> HIDE DEF c, d
<1>9. AnswerTrue(d, t)
  BY <1>3, <1>4, <1>5, <1>6, <1>7, <1>8 DEF AnswerTrue
<1> QED BY <1>9 DEF d

\* and all of them, when one call may have a new one.
LEMMA AnswersKept ==
    ASSUME NEW w, NEW v, NEW sv, NEW t, Sound(w, sv), Told(v, w), Later(t, sv),
           NEW n \in Slots, \A i \in Slots \ {n} : v.calls[i].answer = w.calls[i].answer,
           AnswerTrue(v.calls[n], t)
    PROVE  AnswersTrue(v, t)
BY AnswerLater DEF AnswersTrue

\* Nothing that the page believes of itself depends on an answer to another call, or on one
\* that failed.
LEMMA TruthfulBeside ==
    ASSUME NEW w, NEW v, NEW sv, NEW t, Truthful(w, sv), Told(v, w),
           t.owner[w.cookie] = sv.owner[w.cookie] \/ w.cookie = NoSid,
           whose(t, w.cookie) = whose(sv, w.cookie),
           \A i \in Slots :
                /\ w.calls[i].kind \in {"restore", "whoami"} =>
                    \/ v.calls[i].answer = w.calls[i].answer /\ v.calls[i].lost = w.calls[i].lost
                    \/ v.calls[i].answer.status = "failed"
                /\ ended(w.calls[i]) => ended(v.calls[i])
    PROVE  Truthful(v, t)
<1>1. \A i \in Slots : v.calls[i].kind = w.calls[i].kind
  BY DEF Told
<1>2. /\ v.cookie = w.cookie /\ v.session.account = w.session.account
      /\ v.session.acted = w.session.acted /\ (v.session.doubt = {} => w.session.doubt = {})
  BY DEF Told
<1>3. \A a : Says(a, v, t) <=> Says(a, w, sv)
  BY <1>2 DEF Says
<1>4. ASSUME NEW i \in Slots, v.calls[i].kind = "whoami", knows(v.calls[i]), ~v.calls[i].lost
      PROVE  Says(accountOf(v.calls[i]), v, t)
  <2>1. v.calls[i].answer = w.calls[i].answer /\ v.calls[i].lost = w.calls[i].lost
    BY <1>1, <1>4 DEF knows
  <2>2. knows(w.calls[i]) /\ ~w.calls[i].lost /\ accountOf(v.calls[i]) = accountOf(w.calls[i])
    BY <1>4, <2>1 DEF knows, accountOf
  <2> QED BY <1>1, <1>3, <1>4, <2>2 DEF Truthful
<1>5. ASSUME \A i \in Slots : v.calls[i].kind # "whoami", v.session.doubt = {}
      PROVE  /\ v.session.account # NoAccount =>
                    /\ v.session.account.sid = v.cookie /\ v.cookie # NoSid
                    /\ v.session.account.user = t.owner[v.cookie]
             /\ (\A i \in Slots : ~ended(v.calls[i])) =>
                    /\ (\A i \in Slots : v.calls[i].kind # "restore") =>
                        Says(v.session.account, v, t)
                    /\ \A i \in Slots :
                        /\ v.calls[i].kind = "restore" /\ v.calls[i].answer.status = "ok"
                        /\ ~v.session.acted
                        => Says(accountOf(v.calls[i]), v, t)
  <2>1. \A i \in Slots : w.calls[i].kind # "whoami"
    BY <1>1, <1>5
  <2>2. w.session.doubt = {}
    BY <1>2, <1>5
  <2>3. v.session.account # NoAccount =>
            /\ v.session.account.sid = v.cookie /\ v.cookie # NoSid
            /\ v.session.account.user = t.owner[v.cookie]
    BY <1>2, <2>1, <2>2 DEF Truthful
  <2>4. ASSUME \A i \in Slots : ~ended(v.calls[i])
        PROVE  /\ (\A i \in Slots : v.calls[i].kind # "restore") =>
                    Says(v.session.account, v, t)
               /\ \A i \in Slots :
                    /\ v.calls[i].kind = "restore" /\ v.calls[i].answer.status = "ok"
                    /\ ~v.session.acted
                    => Says(accountOf(v.calls[i]), v, t)
    <3>1. \A i \in Slots : ~ended(w.calls[i])
      BY <2>4
    <3>2. (\A i \in Slots : v.calls[i].kind # "restore") => Says(v.session.account, v, t)
      BY <1>1, <1>2, <1>3, <2>1, <2>2, <3>1 DEF Truthful
    <3>3. ASSUME NEW i \in Slots, v.calls[i].kind = "restore", v.calls[i].answer.status = "ok",
                 ~v.session.acted
          PROVE  Says(accountOf(v.calls[i]), v, t)
      <4>1. w.calls[i].kind = "restore" /\ v.calls[i].answer = w.calls[i].answer
        BY <1>1, <3>3
      <4>2. accountOf(v.calls[i]) = accountOf(w.calls[i]) /\ w.calls[i].answer.status = "ok"
        BY <3>3, <4>1 DEF accountOf
      <4> QED BY <1>2, <1>3, <2>1, <2>2, <3>1, <3>3, <4>1, <4>2 DEF Truthful
    <3> QED BY <3>2, <3>3
  <2> QED BY <2>3, <2>4
<1> QED BY <1>4, <1>5 DEF Truthful

\* A session that the page itself has ended.
LEMMA TruthfulEnded ==
    ASSUME NEW w, NEW v, NEW sv, NEW t, Truthful(w, sv), Told(v, w), t.owner = sv.owner,
           NEW n \in Slots, ended(v.calls[n]), \A i \in Slots : w.calls[i].kind # "whoami"
    PROVE  Truthful(v, t)
<1>1. \A i \in Slots : v.calls[i].kind # "whoami"
  BY DEF Told
<1>2. /\ v.cookie = w.cookie /\ v.session.account = w.session.account
      /\ (v.session.doubt = {} => w.session.doubt = {})
  BY DEF Told
<1>3. v.session.doubt = {} /\ v.session.account # NoAccount =>
            /\ v.session.account.sid = v.cookie /\ v.cookie # NoSid
            /\ v.session.account.user = t.owner[v.cookie]
  BY <1>2 DEF Truthful
<1> QED BY <1>1, <1>3 DEF Truthful

\* A call of the account is answered.
LEMMA AuthServed ==
    ASSUME NEW w, NEW v, NEW sv, NEW t, Sound(w, sv), NEW n \in Slots,
           w.calls[n].kind \in authKinds, Told(v, w), v.history = w.history,
           \A i \in Slots \ {n} : v.calls[i] = w.calls[i],
           Later(t, sv), SessionsMade(v, t), t.starred = sv.starred,
           w.app.screen = "history" => t.owner = sv.owner,
           AnswerTrue(v.calls[n], t), Truthful(v, t)
    PROVE  Sound(v, t)
<1>1. \A i \in Slots : w.calls[i].kind \in historyKinds \cup adminKinds =>
            v.calls[i] = w.calls[i]
  BY KindsApart
<1>2. AnswersTrue(v, t)
  BY AnswersKept
<1> QED BY <1>1, <1>2, AuthTold

\* A session the server knows has an owner, and is not "no session".
LEMMA HolderKnown ==
    ASSUME server \in Server, NEW s, whose(server, s) \in People, whose(server, s) # NoUser
    PROVE  /\ whose(server, s) \in Users /\ whose(server, s) = server.owner[s]
           /\ s # NoSid
<1>1. s \in server.valid /\ whose(server, s) = server.owner[s]
  BY DEF whose
<1>2. s # NoSid
  BY <1>1, Bounds DEF Server, Sids, NoSid
<1> QED BY Zenon, <1>1, <1>2 DEF People

\* What is known of a call.
LEMMA CallKnown ==
    ASSUME AccountSound, NEW n \in Slots
    PROVE  LET c == page.calls[n]
           IN  /\ page \in Page /\ server \in Server /\ Sound(page, server) /\ c \in Call
               /\ c.kind \in Kinds /\ c.arg \in Arg /\ c.sid \in SidsOrNone
               /\ c.answer \in Reply
               /\ who(c.sid) = whose(server, c.sid) /\ who(c.sid) \in People
               /\ page.cookie \in SidsOrNone
               /\ SessionsMade(page, server) /\ AnswersTrue(page, server)
               /\ OneAtATime(page) /\ Early(page) /\ Truthful(page, server)
               /\ AtHistory(page, server)
<1>1. page \in Page /\ server \in Server /\ Sound(page, server) /\ Signed(page, server)
  BY DEF AccountSound, Sound
<1>2. page.calls[n] \in Call /\ page.cookie \in SidsOrNone
  BY <1>1, PageParts
<1>3. page.calls[n].sid \in SidsOrNone
  BY <1>2 DEF Call
<1>4. /\ who(page.calls[n].sid) = whose(server, page.calls[n].sid)
      /\ who(page.calls[n].sid) \in People
  BY <1>1, <1>3, WhoIs
<1> QED BY <1>1, <1>2, <1>3, <1>4 DEF Call, Signed

\* Nothing happened to the database.
LEMMA SameLater ==
    ASSUME NEW sv \in Server
    PROVE  Later(sv, sv) /\ Ends(sv, sv)
<1>1. sv.made \in Nat
  BY Bounds DEF Server, SidsOrNone
<1> QED BY <1>1 DEF Later, Ends

LEMMA ReplyFields ==
    ASSUME server \in Server, NEW c \in Call,
           NEW status \in {"ok", "refused", "expired"}
    PROVE  LET r == reply(status, c)
           IN  /\ r \in Reply /\ r.status = status /\ r.user = whose(server, c.sid)
               /\ r.sid = NoSid /\ r.rows = <<>> /\ r.starred = {}
<1>1. c.sid \in SidsOrNone
  BY DEF Call
<1>2. who(c.sid) = whose(server, c.sid) /\ who(c.sid) \in People
  BY <1>1, WhoIs
<1>3. noAnswer \in Reply /\ noAnswer.sid = NoSid /\ noAnswer.rows = <<>> /\ noAnswer.starred = {}
  BY NoCallTypes DEF noAnswer
<1> HIDE DEF noAnswer
<1>4. reply(status, c) = [noAnswer EXCEPT !.status = status, !.user = who(c.sid)]
  BY DEF reply
<1> QED BY <1>2, <1>3, <1>4 DEF Reply

\* A lookup finds who the cookie it was sent with is for.
LEMMA ServeWhoSound ==
    ASSUME AccountSound, NEW n \in Slots, page.calls[n].kind \in {"restore", "whoami"},
           page.calls[n].answer.status = "none", ServeWho(n, page.calls[n])
    PROVE  AccountSound'
<1> DEFINE c == page.calls[n]
           u == who(c.sid)
           r == [reply("ok", c) EXCEPT !.sid = IF u = NoUser THEN NoSid ELSE c.sid,
                                       !.admin = u \in server.admins]
           v == [page EXCEPT !.calls[n].answer = r]
<1>1. page' = v /\ server' = server
  BY DEF ServeWho, answered
<1>2. /\ c \in Call /\ c.sid \in SidsOrNone /\ u = whose(server, c.sid) /\ u \in People
      /\ page \in Page /\ server \in Server /\ Sound(page, server)
      /\ SessionsMade(page, server) /\ OneAtATime(page) /\ Early(page)
      /\ Truthful(page, server)
  BY CallKnown
<1>3. /\ r \in Reply /\ r.status = "ok" /\ r.user = u
      /\ r.sid = (IF u = NoUser THEN NoSid ELSE c.sid) /\ r.admin = (u \in server.admins)
  <2>1. reply("ok", c) \in Reply /\ reply("ok", c).status = "ok" /\ reply("ok", c).user = u
    BY <1>2, ReplyFields
  <2> DEFINE s == IF u = NoUser THEN NoSid ELSE c.sid
             b == u \in server.admins
             q == reply("ok", c)
  <2>2. s \in SidsOrNone /\ b \in BOOLEAN
    BY <1>2, Bounds DEF SidsOrNone, NoSid
  <2>3. r = [q EXCEPT !.sid = s, !.admin = b]
    OBVIOUS
  <2>4. q \in Reply /\ q.status = "ok" /\ q.user = u
    BY <2>1
  <2> HIDE DEF s, b, q
  <2>5. LET p == [q EXCEPT !.sid = s, !.admin = b]
        IN  p \in Reply /\ p.status = q.status /\ p.user = q.user /\ p.sid = s /\ p.admin = b
    BY <2>2, <2>4 DEF Reply
  <2> QED BY <2>3, <2>4, <2>5 DEF s, b
<1>4. u = NoUser => ~r.admin /\ r.sid = NoSid
  BY <1>2, <1>3, Bounds DEF Server
<1> HIDE DEF r
<1>5. /\ Told(v, page) /\ Replied(v, page, n, r) /\ v.calls[n].answer = r
      /\ v.calls[n].kind = c.kind /\ v.calls[n].sid = c.sid /\ v.calls[n].lost = c.lost
  BY <1>2, <1>3, RepliedFields
<1> HIDE DEF v, u, c
<1>6. /\ v.history = page.history /\ v.session = page.session /\ v.cookie = page.cookie
      /\ \A i \in Slots \ {n} : v.calls[i] = page.calls[i]
  BY <1>5 DEF Replied, Beside
<1>7. c.kind \in {"restore", "whoami"} /\ c.answer.status = "none"
  BY DEF c
<1>8. c.sid = page.cookie => Says(accountOf(v.calls[n]), v, server)
  <2> DEFINE a == accountOf(v.calls[n])
  <2>1. a.user = u /\ a.sid = r.sid
    BY <1>3, <1>5 DEF accountOf
  <2>2. ASSUME u = NoUser PROVE a = NoAccount
    <3>1. r.user = NoUser /\ r.sid = NoSid /\ r.admin = FALSE
      BY <1>3, <1>4, <2>2
    <3>2. a = [user |-> r.user, sid |-> r.sid, admin |-> r.admin]
      BY <1>5 DEF accountOf
    <3> QED BY <3>1, <3>2, Zenon DEF NoAccount
  <2>3. u # NoUser => a.sid = c.sid
    BY <1>3, <2>1
  <2> HIDE DEF a
  <2>4. c.sid = page.cookie => Says(a, v, server)
    BY <1>2, <1>6, <2>1, <2>2, <2>3 DEF Says
  <2> QED BY <2>4 DEF a
<1>9. /\ c.kind = "whoami" => c.sid = page.cookie
      /\ c.kind = "restore" /\ ~v.session.acted => c.sid = page.cookie
      /\ c.kind = "whoami" => \A i \in Slots : page.calls[i].kind = "whoami" => i = n
      /\ c.kind = "restore" => \A i \in Slots : page.calls[i].kind = "restore" => i = n
  BY <1>2, <1>6 DEF OneAtATime, Early, formKinds, c
<1>10. Truthful(v, server)
  <2>1. ~ended(c) /\ ~ended(v.calls[n])
    BY <1>5, <1>7 DEF ended
  <2>2. \A a : Says(a, v, server) <=> Says(a, page, server)
    BY <1>6 DEF Says
  <2>3. ASSUME NEW i \in Slots, v.calls[i].kind = "whoami", knows(v.calls[i]),
               ~v.calls[i].lost
        PROVE  Says(accountOf(v.calls[i]), v, server)
    <3>1. CASE i = n
      BY <1>5, <1>8, <1>9, <2>3, <3>1
    <3>2. CASE i # n
      BY <1>2, <1>6, <2>2, <2>3, <3>2 DEF Truthful
    <3> QED BY <3>1, <3>2
  <2>4. ASSUME \A i \in Slots : v.calls[i].kind # "whoami", v.session.doubt = {}
        PROVE  /\ v.session.account # NoAccount =>
                    /\ v.session.account.sid = v.cookie /\ v.cookie # NoSid
                    /\ v.session.account.user = server.owner[v.cookie]
               /\ (\A i \in Slots : ~ended(v.calls[i])) =>
                    /\ (\A i \in Slots : v.calls[i].kind # "restore") =>
                        Says(v.session.account, v, server)
                    /\ \A i \in Slots :
                        /\ v.calls[i].kind = "restore" /\ v.calls[i].answer.status = "ok"
                        /\ ~v.session.acted
                        => Says(accountOf(v.calls[i]), v, server)
    <3>1. c.kind = "restore" /\ v.calls[n].kind = "restore"
      BY <1>5, <1>7, <2>4
    <3>2. \A i \in Slots : page.calls[i].kind # "whoami"
      BY <1>5, <1>6, <2>4, <3>1 DEF c
    <3>3. \A i \in Slots : v.calls[i].kind = "restore" => i = n
      BY <1>6, <1>9, <3>1
    <3> QED BY <1>2, <1>6, <1>8, <1>9, <2>4, <3>1, <3>2, <3>3 DEF Truthful
  <2> QED BY <2>3, <2>4 DEF Truthful
<1>11. Later(server, server) /\ SessionsMade(v, server)
  BY <1>2, <1>5, SameLater, EndsLater
<1>12. AnswerTrue(v.calls[n], server)
  <2> DEFINE d == v.calls[n]
  <2>1. d.kind \in {"restore", "whoami"} /\ d.answer = r /\ d.sid = c.sid
    BY <1>5, <1>7
  <2>2. ASSUME u = NoUser PROVE accountOf(d) = NoAccount
    <3>1. r.user = NoUser /\ r.sid = NoSid /\ r.admin = FALSE
      BY <1>3, <1>4, <2>2
    <3>2. accountOf(d) = [user |-> r.user, sid |-> r.sid, admin |-> r.admin]
      BY <2>1 DEF accountOf
    <3> QED BY <3>1, <3>2, Zenon DEF NoAccount
  <2>3. u # NoUser => c.sid # NoSid /\ r.sid = c.sid /\ r.user = server.owner[c.sid]
    <3>1. NoSid \notin server.valid
      BY <1>2 DEF Server, Sids, NoSid
    <3> QED BY <1>2, <1>3, <3>1 DEF whose
  <2> HIDE DEF d
  <2>4. AnswerTrue(d, server)
    BY <1>3, <2>1, <2>2, <2>3 DEF AnswerTrue
  <2> QED BY <2>4 DEF d
<1>13. Sound(v, server)
  <2>1. page.calls[n].kind \in authKinds
    BY DEF authKinds
  <2> QED BY <1>2, <1>5, <1>6, <1>10, <1>11, <1>12, <2>1, AuthServed
<1> QED BY <1>1, <1>13 DEF AccountSound

\* An answer that changes nothing in the database, to a call that the page does not believe.
LEMMA PlainReply ==
    ASSUME AccountSound, NEW n \in Slots,
           page.calls[n].kind \in authKinds \ {"restore", "whoami"},
           page.calls[n].answer.status = "none",
           NEW status \in {"ok", "refused", "expired"}, NEW r \in Reply, r.status = status,
           r.user = whose(server, page.calls[n].sid), r.sid = NoSid,
           page.calls[n].kind \in {"logout", "reset"} => status # "ok",
           status = "expired" =>
                /\ page.calls[n].kind \in {"mail", "devices", "revoke", "others"}
                /\ page.calls[n].kind = "mail" => page.calls[n].arg.tab = "settings"
                /\ whose(server, page.calls[n].sid) = NoUser,
           answered(n, r), server' = server
    PROVE  AccountSound'
<1> DEFINE c == page.calls[n]
           v == [page EXCEPT !.calls[n].answer = r]
<1>1. page' = v /\ server' = server
  BY DEF answered
<1>2. page \in Page /\ server \in Server /\ Sound(page, server) /\ Truthful(page, server)
  BY CallKnown
<1>3. /\ Told(v, page) /\ Replied(v, page, n, r) /\ v.calls[n].answer = r
      /\ v.calls[n].kind = c.kind
  BY <1>2, RepliedFields
<1>4. c.kind \notin {"restore", "whoami", "none"} /\ ~ended(c)
  BY KindsApart DEF ended
<1> HIDE DEF v
<1>5. \A i \in Slots :
        /\ page.calls[i].kind \in {"restore", "whoami"} =>
            v.calls[i].answer = page.calls[i].answer /\ v.calls[i].lost = page.calls[i].lost
        /\ ended(page.calls[i]) => ended(v.calls[i])
  BY <1>3, <1>4 DEF Replied
<1>6. Truthful(v, server)
  BY <1>2, <1>3, <1>5, TruthfulBeside
<1>7. Later(server, server) /\ SessionsMade(v, server)
  BY <1>2, <1>3, SameLater, EndsLater
<1>8. v.history = page.history /\ \A i \in Slots \ {n} : v.calls[i] = page.calls[i]
  BY <1>3 DEF Replied, Beside
<1>9. AnswerTrue(v.calls[n], server)
  <2>1. v.calls[n].sid = c.sid /\ v.calls[n].arg = c.arg
    BY <1>3 DEF Told
  <2>2. 0 <= server.made
    BY <1>2, Bounds DEF Server, SidsOrNone
  <2> QED BY <1>3, <1>4, <2>1, <2>2 DEF AnswerTrue, NoSid
<1>10. Sound(v, server)
  BY <1>2, <1>3, <1>6, <1>7, <1>8, <1>9, AuthServed
<1> QED BY <1>1, <1>10 DEF AccountSound

\* Mail is sent, or refused.
LEMMA ServeMailSound ==
    ASSUME AccountSound, NEW n \in Slots, page.calls[n].kind = "mail",
           page.calls[n].answer.status = "none", ServeMail(n, page.calls[n])
    PROVE  AccountSound'
<1> DEFINE c == page.calls[n]
<1>1. PICK status \in {"ok", "refused"} :
        answered(n, reply(IF c.arg.tab = "settings" /\ who(c.sid) = NoUser
                          THEN "expired" ELSE status, c))
  BY DEF ServeMail
<1> DEFINE said == IF c.arg.tab = "settings" /\ who(c.sid) = NoUser
                   THEN "expired" ELSE status
           r == reply(said, c)
<1>2. c \in Call /\ who(c.sid) = whose(server, c.sid) /\ server \in Server
  BY CallKnown
<1>3. said \in {"ok", "refused", "expired"}
  OBVIOUS
<1>4. said = "expired" => c.arg.tab = "settings" /\ whose(server, c.sid) = NoUser
  BY <1>2
<1>5. answered(n, r) /\ server' = server
  BY <1>1 DEF ServeMail
<1> HIDE DEF said, c
<1>6. r \in Reply /\ r.status = said /\ r.user = whose(server, c.sid) /\ r.sid = NoSid
  BY <1>2, <1>3, ReplyFields
<1>7. c.kind = "mail" /\ c.kind \in authKinds \ {"restore", "whoami"}
      /\ c.kind \notin {"logout", "reset"}
  BY DEF authKinds, c
<1> HIDE DEF r
<1> QED BY <1>3, <1>4, <1>5, <1>6, <1>7, PlainReply DEF c

\* A login makes a session.
LEMMA ServeSignInSound ==
    ASSUME AccountSound, NEW n \in Slots, page.calls[n].kind = "signin",
           page.calls[n].answer.status = "none", ServeSignIn(n, page.calls[n])
    PROVE  AccountSound'
<1> DEFINE c == page.calls[n]
<1>1. /\ c \in Call /\ server \in Server /\ page \in Page /\ Sound(page, server)
      /\ SessionsMade(page, server) /\ OneAtATime(page) /\ Truthful(page, server)
      /\ AtHistory(page, server) /\ c.arg \in Arg
  BY CallKnown
<1>2. c.kind = "signin" /\ c.kind \in formKinds /\ c.kind \in authKinds \ {"restore", "whoami"}
      /\ ~ended(c)
  BY DEF authKinds, formKinds, ended
<1>3. CASE answered(n, reply("refused", c)) /\ server' = server
  <2> DEFINE r == reply("refused", c)
  <2>1. r \in Reply /\ r.status = "refused" /\ r.user = whose(server, c.sid) /\ r.sid = NoSid
    BY <1>1, ReplyFields
  <2> HIDE DEF r
  <2>2. answered(n, r)
    BY <1>3 DEF r
  <2> QED BY <1>2, <1>3, <2>1, <2>2, PlainReply
<1>4. CASE LET sid == server.made + 1
           IN  /\ sid \in Sids
               /\ server' = [server EXCEPT !.made = sid, !.valid = @ \cup {sid},
                                           !.owner[sid] = c.arg.user]
               /\ answered(n, [reply("ok", c) EXCEPT !.sid = sid])
  <2> DEFINE sid == server.made + 1
             q == reply("ok", c)
             r == [q EXCEPT !.sid = sid]
             v == [page EXCEPT !.calls[n].answer = r]
             u == c.arg.user
             t == [server EXCEPT !.made = sid, !.valid = @ \cup {sid}, !.owner[sid] = u]
  <2>1. sid \in Sids /\ server' = t /\ page' = v
    BY <1>4 DEF answered
  <2>2. q \in Reply /\ q.status = "ok"
    BY <1>1, ReplyFields
  <2>3. sid \in SidsOrNone /\ sid \in Nat /\ server.made \in Nat /\ sid = server.made + 1
    BY <1>1, <2>1, Bounds DEF Sids, SidsOrNone, Server
  <2> HIDE DEF q
  <2>4. r \in Reply /\ r.status = "ok" /\ r.sid = sid
    BY <2>2, <2>3 DEF Reply
  <2> HIDE DEF r
  <2>5. /\ Told(v, page) /\ Replied(v, page, n, r) /\ v.calls[n].answer = r
        /\ v.calls[n].kind = c.kind
    BY <1>1, <2>4, RepliedFields
  <2> HIDE DEF v
  <2>6. u \in Users
    BY <1>1, <1>2 DEF OneAtATime
  <2> HIDE DEF c, u, sid
  <2>7. /\ t \in Server /\ t.made = sid /\ t.valid = server.valid \cup {sid}
        /\ t.owner[sid] = u /\ t.starred = server.starred /\ t.rows = server.rows
        /\ \A s \in Sids \ {sid} : t.owner[s] = server.owner[s]
    BY <1>1, <2>1, <2>3, <2>6, Bounds DEF Server, People, Sids
  <2> HIDE DEF t
  <2>8. Later(t, server)
    BY <2>3, <2>7 DEF Later
  <2>9. \A i \in Slots : v.calls[i].sid = page.calls[i].sid /\ page.calls[i].sid \in SidsOrNone
    <3>1. page.calls \in [Slots -> Call]
      BY <1>1, PageParts
    <3>2. \A i \in Slots : page.calls[i].sid \in SidsOrNone
      BY <3>1 DEF Call
    <3> QED BY <2>5, <3>2 DEF Told
  <2>10. v.cookie = page.cookie /\ page.cookie \in SidsOrNone
    BY <1>1, <2>5, PageParts DEF Told
  <2>11. SessionsMade(v, t)
    <3>1. t.valid \subseteq 1 .. t.made
      BY <1>1, <2>1, <2>3, <2>7 DEF SessionsMade, Sids
    <3>2. v.cookie <= t.made
      BY <1>1, <2>3, <2>7, <2>10 DEF SessionsMade, SidsOrNone
    <3>3. \A s \in Sids : s <= t.made => t.owner[s] \in Users
      BY <1>1, <2>3, <2>6, <2>7 DEF SessionsMade, Sids
    <3>4. \A i \in Slots : v.calls[i].sid <= t.made
      BY <1>1, <2>3, <2>7, <2>9 DEF SessionsMade, SidsOrNone
    <3> QED BY <3>1, <3>2, <3>3, <3>4 DEF SessionsMade
  <2>12. page.cookie # sid /\ (page.cookie = NoSid \/ page.cookie \in Sids)
    BY <1>1, <2>3, <2>10 DEF SessionsMade, SidsOrNone, Sids, NoSid
  <2>13. whose(t, page.cookie) = whose(server, page.cookie)
    <3>1. page.cookie \in t.valid <=> page.cookie \in server.valid
      BY <2>7, <2>12
    <3>2. page.cookie \in server.valid => page.cookie \in Sids
      BY <1>1 DEF Server
    <3> QED BY <2>7, <2>12, <3>1, <3>2 DEF whose
  <2>14. \A i \in Slots :
            /\ page.calls[i].kind \in {"restore", "whoami"} =>
                v.calls[i].answer = page.calls[i].answer /\ v.calls[i].lost = page.calls[i].lost
            /\ ended(page.calls[i]) => ended(v.calls[i])
    BY <1>2, <2>5 DEF Replied, c
  <2>15. t.owner[page.cookie] = server.owner[page.cookie] \/ page.cookie = NoSid
    BY <2>7, <2>12
  <2>16. Truthful(v, t)
    BY <1>1, <2>5, <2>13, <2>14, <2>15, TruthfulBeside
  <2>17. page.app.screen # "history"
    BY <1>1, <1>2 DEF AtHistory, c
  <2>18. v.history = page.history /\ \A i \in Slots \ {n} : v.calls[i] = page.calls[i]
    BY <2>5 DEF Replied, Beside
  <2>19. AnswerTrue(v.calls[n], t)
    BY <1>2, <2>3, <2>4, <2>5, <2>7 DEF AnswerTrue
  <2>20. Sound(v, t)
    BY <1>1, <1>2, <2>5, <2>7, <2>8, <2>11, <2>16, <2>17, <2>18, <2>19, AuthServed DEF c
  <2> QED BY <2>1, <2>20 DEF AccountSound
<1> QED BY <1>3, <1>4 DEF ServeSignIn

\* Sessions are ended by a call of the form, which is told so.
LEMMA SessionsEnd ==
    ASSUME AccountSound, NEW n \in Slots, NEW gone, NEW v, Told(v, page),
           page.calls[n].kind \in authKinds \ {"restore", "whoami", "signin"},
           page.calls[n].answer.status = "none",
           page.calls[n].kind = "reset" /\ v.calls[n].answer.user = NoUser =>
                page.calls[n].sid \notin server.valid \ gone,
           page.calls[n].kind \in formKinds \/ page.cookie \notin gone,
           \/ page.calls[n].kind \in {"logout", "reset"}
           \/ page.cookie \notin gone \/ v.session.doubt # {},
           v.calls[n].answer.status = "ok", v.history = page.history,
           \A i \in Slots \ {n} : v.calls[i] = page.calls[i],
           page' = v, server' = [server EXCEPT !.valid = @ \ gone]
    PROVE  AccountSound'
<1> DEFINE c == page.calls[n]
           t == [server EXCEPT !.valid = @ \ gone]
<1>1. /\ page \in Page /\ server \in Server /\ Sound(page, server) /\ OneAtATime(page)
      /\ Truthful(page, server)
  BY CallKnown
<1>2. /\ t \in Server /\ t.owner = server.owner /\ t.made = server.made /\ t.rows = server.rows
      /\ t.starred = server.starred /\ t.valid = server.valid \ gone
  BY <1>1 DEF Server
<1>3. page' = v /\ server' = t
  OBVIOUS
<1> HIDE DEF t
<1>4. Ends(t, server)
  BY <1>2 DEF Ends
<1>5. Later(t, server) /\ SessionsMade(v, t)
  BY <1>1, <1>4, EndsLater
<1>6. v.calls[n].kind = c.kind /\ ~ended(c) /\ AnswerTrue(v.calls[n], t)
  <2>1. v.calls[n].kind = c.kind /\ v.calls[n].sid = c.sid
    BY DEF Told
  <2>2. c.kind # "none"
    BY KindsApart
  <2> QED BY <1>2, <2>1, <2>2 DEF ended, AnswerTrue, whose
<1>7. c.kind \in formKinds => \A i \in Slots : page.calls[i].kind # "whoami"
  BY <1>1 DEF OneAtATime, formKinds
<1>8. CASE c.kind \in {"logout", "reset"}
  <2>1. ended(v.calls[n]) /\ c.kind \in formKinds
    BY <1>6, <1>8 DEF ended, formKinds
  <2>2. Truthful(v, t)
    BY <1>1, <1>2, <1>7, <2>1, TruthfulEnded
  <2>3. Sound(v, t)
    BY <1>1, <1>2, <1>5, <1>6, <2>2, AuthServed
  <2> QED BY <1>3, <2>3 DEF AccountSound
<1>9. CASE page.cookie \notin gone
  <2>1. whose(t, page.cookie) = whose(server, page.cookie)
    BY <1>2, <1>9 DEF whose
  <2>2. \A i \in Slots :
            /\ page.calls[i].kind \in {"restore", "whoami"} =>
                v.calls[i].answer = page.calls[i].answer /\ v.calls[i].lost = page.calls[i].lost
            /\ ended(page.calls[i]) => ended(v.calls[i])
    BY <1>6
  <2>3. Truthful(v, t)
    BY <1>1, <1>2, <2>1, <2>2, TruthfulBeside
  <2>4. Sound(v, t)
    BY <1>1, <1>2, <1>5, <1>6, <2>3, AuthServed
  <2> QED BY <1>3, <2>4 DEF AccountSound
<1>10. CASE c.kind \in formKinds /\ v.session.doubt # {}
  <2>1. \A i \in Slots : v.calls[i].kind # "whoami"
    BY <1>7, <1>10 DEF Told
  <2>2. Truthful(v, t)
    BY <1>10, <2>1 DEF Truthful
  <2>3. Sound(v, t)
    BY <1>1, <1>2, <1>5, <1>6, <2>2, AuthServed
  <2> QED BY <1>3, <2>3 DEF AccountSound
<1> QED BY <1>8, <1>9, <1>10

\* A page is told, and in doubt.
LEMMA DoubtTold ==
    ASSUME NEW w \in Page, NEW v \in Page, Told(v, w),
           NEW cause \in {"revoked", "lost", "late", "role", "restore", "half", "reset"}
    PROVE  LET x == doubted(v, cause)
           IN  /\ x \in Page /\ Told(x, w) /\ x.history = v.history /\ x.calls = v.calls
               /\ x.session.doubt # {}
<1> DEFINE x == doubted(v, cause)
<1>1. /\ x \in Page /\ x.app = v.app /\ x.history = v.history /\ x.admin = v.admin
      /\ x.calls = v.calls /\ x.cookie = v.cookie /\ x.session.account = v.session.account
      /\ x.session.doubt = v.session.doubt \cup {cause}
      /\ x.session.acted = v.session.acted /\ x.session.busy = v.session.busy
      /\ x.session.mode = v.session.mode
  BY SignedOutFields
<1> HIDE DEF x
<1>2. Told(x, w)
  BY <1>1 DEF Told
<1> QED BY <1>1, <1>2 DEF x

LEMMA ServeLogoutSound ==
    ASSUME AccountSound, NEW n \in Slots, page.calls[n].kind = "logout",
           page.calls[n].answer.status = "none", ServeLogout(n, page.calls[n])
    PROVE  AccountSound'
<1> DEFINE c == page.calls[n]
           r == reply("ok", c)
           v == [page EXCEPT !.calls[n].answer = r]
<1>1. page' = v /\ server' = [server EXCEPT !.valid = @ \ {c.sid}]
  BY DEF ServeLogout, answered
<1>2. page \in Page /\ server \in Server /\ c \in Call
  BY CallKnown
<1>3. r \in Reply /\ r.status = "ok"
  BY <1>2, ReplyFields
<1> HIDE DEF r
<1>4. Told(v, page) /\ Replied(v, page, n, r) /\ v.calls[n].answer = r
  BY <1>2, <1>3, RepliedFields
<1> HIDE DEF v
<1>5. v.history = page.history /\ \A i \in Slots \ {n} : v.calls[i] = page.calls[i]
  BY <1>4 DEF Replied, Beside
<1>6. c.kind \in authKinds \ {"restore", "whoami", "signin"} /\ c.kind \in formKinds
      /\ c.kind \in {"logout", "reset"} /\ c.kind # "reset"
  BY DEF authKinds, formKinds
<1> DEFINE gone == {c.sid}
<1>7. server' = [server EXCEPT !.valid = @ \ gone]
  BY <1>1
<1> HIDE DEF gone
<1> QED BY <1>1, <1>3, <1>4, <1>5, <1>6, <1>7, SessionsEnd

LEMMA ServeResetSound ==
    ASSUME AccountSound, NEW n \in Slots, page.calls[n].kind = "reset",
           page.calls[n].answer.status = "none", ServeReset(n, page.calls[n])
    PROVE  AccountSound'
<1> DEFINE c == page.calls[n]
<1>1. /\ page \in Page /\ server \in Server /\ c \in Call /\ c.sid \in SidsOrNone
      /\ who(c.sid) \in People
  BY CallKnown
<1>2. c.kind \in authKinds \ {"restore", "whoami", "signin"} /\ c.kind \in formKinds
      /\ c.kind \in {"logout", "reset"}
  BY DEF authKinds, formKinds
<1>3. CASE answered(n, reply("refused", c)) /\ server' = server
  <2> DEFINE r == reply("refused", c)
  <2>1. r \in Reply /\ r.status = "refused" /\ r.user = whose(server, c.sid) /\ r.sid = NoSid
    BY <1>1, ReplyFields
  <2> HIDE DEF r
  <2>2. answered(n, r)
    BY <1>3 DEF r
  <2> QED BY <1>2, <1>3, <2>1, <2>2, PlainReply
<1>4. CASE /\ server' = [server EXCEPT !.valid = @ \ sessionsOf(c.arg.user)]
           /\ answered(n, [reply("ok", c) EXCEPT
                    !.user = IF who(c.sid) = c.arg.user THEN NoUser ELSE who(c.sid)])
  <2> DEFINE q == reply("ok", c)
             u == IF who(c.sid) = c.arg.user THEN NoUser ELSE who(c.sid)
             r == [q EXCEPT !.user = u]
             v == [page EXCEPT !.calls[n].answer = r]
             gone == sessionsOf(c.arg.user)
  <2>1. page' = v /\ server' = [server EXCEPT !.valid = @ \ gone]
    BY <1>4 DEF answered
  <2>2. /\ q \in Reply /\ q.status = "ok" /\ u \in People
        /\ u = NoUser => c.sid \notin server.valid \ gone
    <3>1. q \in Reply /\ q.status = "ok" /\ u \in People
      BY <1>1, ReplyFields DEF People
    <3>2. ASSUME u = NoUser, c.sid \in server.valid PROVE c.sid \in gone
      <4>1. who(c.sid) = server.owner[c.sid] /\ who(c.sid) # NoUser
        <5>1. Sound(page, server)
          BY CallKnown
        <5>2. SessionsMade(page, server)
          BY <5>1 DEF Sound, Signed
        <5> QED BY <1>1, <3>2, <5>2, OwnersKnown DEF who
      <4> QED BY <3>2, <4>1 DEF sessionsOf
    <3> QED BY <3>1, <3>2
  <2> HIDE DEF q, u, gone
  <2>3. r \in Reply /\ r.status = "ok" /\ r.user = u
    BY <2>2 DEF Reply
  <2> HIDE DEF r
  <2>4. Told(v, page) /\ Replied(v, page, n, r) /\ v.calls[n].answer = r
    BY <1>1, <2>3, RepliedFields
  <2> HIDE DEF v
  <2>5. v.history = page.history /\ \A i \in Slots \ {n} : v.calls[i] = page.calls[i]
    BY <2>4 DEF Replied, Beside
  <2> QED BY <1>2, <2>1, <2>2, <2>3, <2>4, <2>5, SessionsEnd
<1> QED BY <1>3, <1>4 DEF ServeReset

\* The sessions of an account are shown, and ended.
LEMMA ServeDevicesSound ==
    ASSUME AccountSound, NEW n \in Slots, page.calls[n].kind \in {"devices", "revoke", "others"},
           page.calls[n].answer.status = "none", ServeDevices(n, page.calls[n])
    PROVE  AccountSound'
<1> DEFINE c == page.calls[n]
           u == who(c.sid)
           gone == CASE c.kind = "devices" -> {}
                     [] c.kind = "revoke"  -> {c.arg.sid} \cap sessionsOf(u)
                     [] c.kind = "others"  -> sessionsOf(u) \ {c.sid}
<1>1. /\ page \in Page /\ server \in Server /\ c \in Call /\ u = whose(server, c.sid)
      /\ OneAtATime(page) /\ Sound(page, server)
  BY CallKnown
<1>2. c.kind \in authKinds \ {"restore", "whoami", "signin"}
      /\ c.kind \notin {"logout", "reset"} /\ (c.kind \in {"revoke", "others"} => c.kind \in formKinds)
  BY DEF authKinds, formKinds
<1>3. ASSUME NEW status \in {"refused", "expired"}, answered(n, reply(status, c)),
             server' = server, status = "expired" => u = NoUser
      PROVE  AccountSound'
  <2> DEFINE r == reply(status, c)
  <2>1. r \in Reply /\ r.status = status /\ r.user = whose(server, c.sid) /\ r.sid = NoSid
    BY <1>1, ReplyFields
  <2> HIDE DEF r
  <2>2. answered(n, r)
    BY <1>3 DEF r
  <2>3. c.kind \in {"mail", "devices", "revoke", "others"} /\ c.kind # "mail"
    OBVIOUS
  <2> HIDE DEF u
  <2> QED BY <1>1, <1>2, <1>3, <2>1, <2>2, <2>3, PlainReply
<1>4. CASE u = NoUser /\ answered(n, reply("expired", c)) /\ server' = server
  BY <1>3, <1>4
<1>5. CASE answered(n, reply("refused", c)) /\ server' = server
  BY <1>3, <1>5
<1>6. CASE /\ server' = [server EXCEPT !.valid = @ \ gone]
           /\ page' = LET told == [page EXCEPT !.calls[n].answer =
                                    [reply("ok", c) EXCEPT !.sids = sessionsOf(u)]]
                      IN  IF page.cookie \in gone THEN doubted(told, "revoked") ELSE told
  <2> DEFINE q == reply("ok", c)
             r == [q EXCEPT !.sids = sessionsOf(u)]
             told == [page EXCEPT !.calls[n].answer = r]
             v == IF page.cookie \in gone THEN doubted(told, "revoked") ELSE told
  <2>1. page' = v /\ server' = [server EXCEPT !.valid = @ \ gone]
    BY <1>6
  <2>2. q \in Reply /\ q.status = "ok"
    BY <1>1, ReplyFields
  <2>3. sessionsOf(u) \in SUBSET Sids
    BY <1>1 DEF sessionsOf, Server
  <2>4. page.cookie \in gone => c.kind \in formKinds
    BY <1>2
  <2> HIDE DEF q, u, gone
  <2>5. r \in Reply /\ r.status = "ok"
    BY <2>2, <2>3 DEF Reply
  <2> HIDE DEF r
  <2>6. Told(told, page) /\ Replied(told, page, n, r) /\ told.calls[n].answer = r
    BY <1>1, <2>5, RepliedFields
  <2> HIDE DEF told
  <2>7. told \in Page /\ told.history = page.history
        /\ \A i \in Slots \ {n} : told.calls[i] = page.calls[i]
    BY <2>6 DEF Replied, Beside
  <2>8. LET x == doubted(told, "revoked")
        IN  /\ x \in Page /\ Told(x, page) /\ x.history = told.history
            /\ x.calls = told.calls /\ x.session.doubt # {}
    BY <1>1, <2>6, <2>7, DoubtTold
  <2>9. /\ Told(v, page) /\ v.history = page.history /\ v.calls = told.calls
        /\ (page.cookie \in gone => v.session.doubt # {})
    BY <2>6, <2>7, <2>8
  <2> HIDE DEF v
  <2>10. v.calls[n].answer.status = "ok" /\ \A i \in Slots \ {n} : v.calls[i] = page.calls[i]
    BY <2>5, <2>6, <2>7, <2>9
  <2> QED BY <1>2, <2>1, <2>4, <2>9, <2>10, SessionsEnd
<1> QED BY <1>4, <1>5, <1>6 DEF ServeDevices

\* A call of a list is answered, or its answer fails.
LEMMA ReadTold ==
    ASSUME AccountSound, NEW n \in Slots, NEW v, Told(v, page),
           v.history = page.history, \A i \in Slots \ {n} : v.calls[i] = page.calls[i],
           page.calls[n].kind \in historyKinds \cup adminKinds,
           v.calls[n].answer.status = "expired" =>
                /\ page.calls[n].kind \notin adminKinds => v.calls[n].answer.user = NoUser
                /\ v.calls[n].answer.user = NoUser => whose(server, page.calls[n].sid) = NoUser
    PROVE  Signed(v, server)
<1>1. page \in Page /\ server \in Server /\ Sound(page, server) /\ Truthful(page, server)
  BY CallKnown
<1>2. /\ v.calls[n].kind = page.calls[n].kind /\ v.calls[n].sid = page.calls[n].sid
      /\ v.calls[n].arg = page.calls[n].arg
  BY DEF Told
<1>3. page.calls[n].kind \notin authKinds
  BY KindsApart
<1>4. \A i \in Slots :
        /\ page.calls[i].kind \in {"restore", "whoami"} =>
            v.calls[i].answer = page.calls[i].answer /\ v.calls[i].lost = page.calls[i].lost
        /\ ended(page.calls[i]) => ended(v.calls[i])
  BY <1>3 DEF authKinds, ended
<1>5. Truthful(v, server)
  BY <1>1, <1>4, TruthfulBeside
<1>6. Later(server, server) /\ SessionsMade(v, server)
  BY <1>1, SameLater, EndsLater
<1>7. page.calls[n].kind \notin {"mail", "signin", "restore", "reset", "none"}
  BY <1>3, KindsApart DEF authKinds
<1>8. AnswersTrue(v, server)
  <2>1. AnswerTrue(v.calls[n], server)
    BY <1>2, <1>7 DEF AnswerTrue
  <2> QED BY <1>1, <1>6, <2>1, AnswersKept
<1> QED BY <1>1, <1>5, <1>6, <1>8, ToldSigned

\* The lists wait for the same calls.
LEMMA ToldWaits ==
    ASSUME NEW w, NEW v, Told(v, w), NEW i \in Slots, NEW kinds
    PROVE  waiting(v.calls[i], kinds) <=> waiting(w.calls[i], kinds)
BY DEF Told, waiting

LEMMA ToldSole ==
    ASSUME NEW w, NEW v, Told(v, w), NEW kinds, Sole(w, kinds)
    PROVE  Sole(v, kinds)
BY ToldWaits DEF Sole

LEMMA HistoryTold ==
    ASSUME AccountSound, NEW n \in Slots, NEW v, Told(v, page),
           v.history = page.history, \A i \in Slots \ {n} : v.calls[i] = page.calls[i],
           page.calls[n].kind \in historyKinds,
           v.calls[n].answer.status = "expired" =>
                v.calls[n].answer.user = NoUser /\ whose(server, page.calls[n].sid) = NoUser,
           ShelfRead(v.calls[n], server), StarRead(v.calls[n], server),
           waiting(v.calls[n], {"more"}) /\ v.calls[n].arg.filter = "all"
                /\ served(v.calls[n], {"more"})
                => v.history.since \subseteq v.calls[n].answer.seen,
           v.calls[n].kind = "star" =>
                /\ v.calls[n].answer.status # "ok"
                /\ ~v.calls[n].lost =>
                    page.calls[n].answer.status # "ok" /\ ~page.calls[n].lost
    PROVE  Sound(v, server)
<1>1. page \in Page /\ server \in Server /\ Sound(page, server) /\ v \in Page
  BY CallKnown DEF Told
<1>2. Signed(v, server)
  BY KindsApart, ReadTold
<1>3. page.calls[n].kind \notin adminKinds /\ v.calls[n].kind = page.calls[n].kind
      /\ v.calls[n].arg = page.calls[n].arg
  BY KindsApart DEF Told
<1>4. SamePanel(v, page)
  BY <1>3 DEF SamePanel, Told
<1>5. \A i \in Slots : v.calls[i].kind \in adminKinds => Faded(v.calls[i], page.calls[i])
  BY <1>3, FadedSame
<1>6. Listed(v, server)
  BY <1>1, <1>4, <1>5, PanelAside DEF Sound, PanelGrown
<1>7. Shelved(page, server)
  BY <1>1 DEF Sound
<1>8. \A i \in Slots : ShelfRead(v.calls[i], server) /\ StarRead(v.calls[i], server)
  BY <1>7 DEF Shelved, HistoryCalls, StarsRead
<1>9. ASSUME NEW i \in Slots PROVE ShelfDue(v.calls[i], v.history)
  <2>1. ShelfDue(page.calls[i], page.history)
    BY <1>7 DEF Shelved, HistoryCalls
  <2>2. CASE i # n
    BY <2>1, <2>2
  <2>3. CASE i = n
    <3>1. \A kinds : waiting(v.calls[n], kinds) <=> waiting(page.calls[n], kinds)
      BY ToldWaits
    <3> QED BY <1>3, <2>1, <2>3, <3>1 DEF ShelfDue
  <2> QED BY <2>2, <2>3
<1>10. Sole(v, listKinds) /\ Sole(v, {"detail"})
  BY <1>7, ToldSole DEF Shelved, HistoryCalls
<1>11. HistoryRows(page, server) => HistoryRows(v, server)
  <2>1. \A kinds : (\E i \in Slots : waiting(page.calls[i], kinds)) =>
            \E i \in Slots : waiting(v.calls[i], kinds)
    BY ToldWaits
  <2>2. v.cookie = page.cookie
    BY DEF Told
  <2> QED BY <2>1, <2>2 DEF HistoryRows
<1>12. Stars(page, server) => Stars(v, server)
  <2>1. v.cookie = page.cookie /\ v.calls[n].alive = page.calls[n].alive
    BY DEF Told
  <2>2. \A i \in Slots : /\ v.calls[i].kind = page.calls[i].kind
                         /\ v.calls[i].arg = page.calls[i].arg
                         /\ v.calls[i].alive = page.calls[i].alive
    BY <1>3, <2>1
  <2>3. ASSUME NEW i \in Slots, page.calls[i].kind = "star"
        PROVE  /\ v.calls[i].answer.status = "ok" =>
                    page.calls[i].answer.status = "ok"
               /\ v.calls[i].answer.status # "ok" /\ ~v.calls[i].lost =>
                    page.calls[i].answer.status # "ok" /\ ~page.calls[i].lost
    BY <1>3, <2>3
  <2> DEFINE h == page.history
             stars == server.starred[server.owner[page.cookie]]
  <2> SUFFICES ASSUME Stars(page, server)
               PROVE  Stars(v, server)
    OBVIOUS
  <2>4. ASSUME NEW i \in Slots, v.calls[i].kind = "star", v.calls[i].alive
        PROVE  LET d == v.calls[i]
                   m == d.arg.match
               IN  /\ m \in h.pending /\ page.cookie # NoSid
                   /\ m \notin h.doubt =>
                        /\ d.answer.status = "ok" => (m \in stars <=> d.arg.flag)
                        /\ d.answer.status # "ok" /\ ~d.lost => (m \in stars <=> ~d.arg.flag)
    <3> DEFINE b == page.calls[i]
               k == b.arg.match
    <3>1. b.kind = "star" /\ b.alive /\ v.calls[i].arg = b.arg
      BY <2>2, <2>4
    <3>2. /\ k \in h.pending /\ page.cookie # NoSid
          /\ k \notin h.doubt =>
                /\ b.answer.status = "ok" => (k \in stars <=> b.arg.flag)
                /\ b.answer.status # "ok" /\ ~b.lost => (k \in stars <=> ~b.arg.flag)
      BY Zenon, <3>1 DEF Stars
    <3> QED BY <2>3, <3>1, <3>2
  <2>5. v.history = h
    OBVIOUS
  <2>6. \A i, j \in Slots :
            /\ v.calls[i].kind = "star" /\ v.calls[i].alive
            /\ v.calls[j].kind = "star" /\ v.calls[j].alive
            /\ v.calls[i].arg.match = v.calls[j].arg.match
            => i = j
    <3>1. \A i, j \in Slots :
            /\ page.calls[i].kind = "star" /\ page.calls[i].alive
            /\ page.calls[j].kind = "star" /\ page.calls[j].alive
            /\ page.calls[i].arg.match = page.calls[j].arg.match
            => i = j
      BY DEF Stars
    <3> QED BY <2>2, <3>1
  <2>7. /\ \A m \in Range(h.matches) :
                m \notin h.pending \cup h.doubt => (m \in h.starred <=> m \in stars)
        /\ h.detail # NoMatch /\ h.detail \notin h.pending \cup h.doubt =>
                (h.detailStarred <=> h.detail \in stars)
    BY DEF Stars
  <2> HIDE DEF h, stars
  <2>8. stars = server.starred[server.owner[v.cookie]]
    BY <2>1 DEF stars
  <2> QED BY <2>1, <2>4, <2>5, <2>6, <2>7, <2>8 DEF Stars
<1>13. v.app = page.app
  BY DEF Told
<1>14. Shelved(v, server)
  BY <1>7, <1>8, <1>9, <1>10, <1>11, <1>12, <1>13 DEF Shelved, HistoryCalls, StarsRead
<1> QED BY <1>1, <1>2, <1>6, <1>14 DEF Sound

\* An answer with a page of rows.
LEMMA WithPage ==
    ASSUME NEW a, NEW rows, NEW c, NEW stars, a \in Reply, rows \subseteq Matches, c \in Call,
           stars \subseteq Matches, NEW r, r = withPage(a, rows, c, stars)
    PROVE  /\ r \in Reply /\ r.status = a.status /\ r.user = a.user /\ r.sid = a.sid
           /\ r.seen = rows /\ r.starred = Range(r.rows) \cap stars
           /\ \A d : d.arg = c.arg /\ d.answer = r => PageRead(d)
<1> DEFINE p == pageOf(rows, c.arg.cursor)
           r1 == [a EXCEPT !.rows = p.rows, !.next = p.next, !.seen = rows,
                          !.starred = Range(p.rows) \cap stars]
<1>1. c.arg.cursor \in Nat
  BY Bounds DEF Call, Arg, FromNewest
<1>a. \A k \in Nat :
        LET q == pageOf(rows, k)
        IN  /\ q.rows \in Seq(Matches) /\ q.next \in MatchesOrNone
            /\ descending(q.rows) /\ Range(q.rows) \subseteq rows
            /\ \A m \in Range(q.rows) : q.next <= m /\ m < k
            /\ q.next = NoMore \/ q.next < k
            /\ \A m \in rows : q.next <= m /\ m < k => m \in Range(q.rows)
  BY PageOf
<1>2. /\ p.rows \in Seq(Matches) /\ p.next \in MatchesOrNone
      /\ descending(p.rows) /\ Range(p.rows) \subseteq rows
      /\ \A m \in Range(p.rows) : p.next <= m /\ m < c.arg.cursor
      /\ p.next = NoMore \/ p.next < c.arg.cursor
      /\ \A m \in rows : p.next <= m /\ m < c.arg.cursor => m \in Range(p.rows)
  BY <1>1, <1>a
<1>3. r = r1
  BY DEF withPage
<1> HIDE DEF p
<1> DEFINE R == Range(p.rows)
<1>4. R \in SUBSET Matches
  BY <1>2
<1>5. /\ r \in Reply /\ r.status = a.status /\ r.user = a.user /\ r.sid = a.sid
      /\ r.rows = p.rows /\ r.next = p.next /\ r.seen = rows /\ r.starred = R \cap stars
  <2> DEFINE q == p.rows  x == p.next  S == R \cap stars
  <2>1. q \in Seq(Matches) /\ x \in MatchesOrNone /\ S \in SUBSET Matches
        /\ r1 = [a EXCEPT !.rows = q, !.next = x, !.seen = rows, !.starred = S]
    BY <1>2, <1>4, <1>3
  <2> HIDE DEF q, x, S, R, r1
  <2>2. LET y == [a EXCEPT !.rows = q, !.next = x, !.seen = rows, !.starred = S]
        IN  /\ y \in Reply /\ y.status = a.status /\ y.user = a.user /\ y.sid = a.sid
            /\ y.rows = q /\ y.next = x /\ y.seen = rows /\ y.starred = S
    BY <2>1 DEF Reply
  <2> QED BY <1>3, <2>1, <2>2 DEF q, x, S
<1> HIDE DEF r1
<1>6. ASSUME NEW d, d.arg = c.arg, d.answer = r PROVE PageRead(d)
  BY <1>2, <1>5, <1>6 DEF PageRead
<1> QED BY <1>5, <1>6

\* The list of matches is read, page by page.
ListServed(n) ==
    LET c == page.calls[n]
        u == who(c.sid)
        rows == IF c.arg.filter = "interesting"
                THEN server.rows["matches"] \cap server.starred[u]
                ELSE server.rows["matches"]
    IN  /\ u # NoUser
        /\ answered(n, withPage(reply("ok", c), rows, c, server.starred[u]))

LEMMA ServeListSound ==
    ASSUME AccountSound, NEW n \in Slots, page.calls[n].kind \in listKinds,
           page.calls[n].answer.status = "none", server' = server, ListServed(n)
    PROVE  AccountSound'
<1> DEFINE c == page.calls[n]
           u == who(c.sid)
           stars == server.starred[u]
           stored == server.rows["matches"]
           rows == IF c.arg.filter = "interesting" THEN stored \cap stars ELSE stored
           a == reply("ok", c)
           r == withPage(a, rows, c, stars)
           v == [page EXCEPT !.calls[n].answer = r]
<1>1. page' = v /\ server' = server /\ u # NoUser
  BY DEF answered, ListServed
<1>2. /\ c \in Call /\ server \in Server /\ page \in Page /\ u = whose(server, c.sid)
      /\ u \in People /\ c.sid \in SidsOrNone /\ Sound(page, server)
      /\ SessionsMade(page, server) /\ AtHistory(page, server)
  BY CallKnown
<1>3. u \in Users /\ u = server.owner[c.sid] /\ c.sid # NoSid
  BY Zenon, <1>1, <1>2, HolderKnown
<1>4. stars \in SUBSET Matches /\ stored \in SUBSET Matches /\ rows \in SUBSET Matches
      /\ rows \subseteq stored
  BY <1>2, <1>3 DEF Server, listTabs
<1>5. a \in Reply /\ a.status = "ok" /\ a.user = u /\ a.sid = NoSid
  BY <1>2, ReplyFields
<1>6. c.arg.filter = "all" => rows = stored
  OBVIOUS
<1>7. server.starred[u] = stars /\ server.rows["matches"] = stored
  OBVIOUS
<1> HIDE DEF a, rows, stars, stored, u
<1>8. /\ r \in Reply /\ r.status = "ok" /\ r.user = u /\ r.sid = NoSid
      /\ r.seen = rows /\ r.starred = Range(r.rows) \cap stars
  <2>1. r = withPage(a, rows, c, stars)
    OBVIOUS
  <2> HIDE DEF r, c
  <2> QED BY <1>2, <1>4, <1>5, <2>1, WithPage
<1>9. r = withPage(a, rows, c, stars)
  OBVIOUS
<1> HIDE DEF r
<1>10. /\ Told(v, page) /\ Replied(v, page, n, r) /\ v.calls[n].answer = r
       /\ v.calls[n].kind = c.kind /\ v.calls[n].arg = c.arg /\ v.calls[n].sid = c.sid
  BY <1>2, <1>8, RepliedFields
<1> HIDE DEF v
<1>11. PageRead(v.calls[n])
  BY <1>2, <1>4, <1>5, <1>9, <1>10, WithPage
<1>12. c.kind \in listKinds /\ c.kind \in historyKinds /\ c.kind # "star" /\ c.kind # "detail"
  BY DEF listKinds, historyKinds
<1>13. ShelfRead(page.calls[n], server) /\ HistoryCalls(page, server)
  BY <1>2 DEF Sound, Shelved, HistoryCalls
<1> HIDE DEF c
<1>14. ShelfRead(v.calls[n], server)
  BY <1>3, <1>4, <1>7, <1>8, <1>10, <1>11, <1>12, <1>13 DEF ShelfRead, served, c
<1>15. StarRead(v.calls[n], server)
  BY <1>7, <1>8, <1>10, <1>12 DEF StarRead, served
<1>16. ASSUME waiting(v.calls[n], {"more"}), v.calls[n].arg.filter = "all"
       PROVE  v.history.since \subseteq v.calls[n].answer.seen
  <2>1. c.alive /\ page.app.screen = "history" /\ v.history = page.history
    BY <1>2, <1>10, <1>12, <1>16 DEF waiting, AtHistory, Told, Replied, Beside, c
  <2>2. page.history.since \subseteq stored
    BY <1>2, <1>7, <2>1 DEF Sound, Shelved, HistoryRows
  <2> QED BY <1>6, <1>8, <1>10, <1>16, <2>1, <2>2
<1>17. v.history = page.history /\ \A i \in Slots \ {n} : v.calls[i] = page.calls[i]
  BY <1>10 DEF Replied, Beside
<1>18. Sound(v, server)
  BY <1>8, <1>10, <1>12, <1>14, <1>15, <1>16, <1>17, HistoryTold DEF c
<1> QED BY <1>1, <1>18 DEF AccountSound

\* A session that has ended is refused, whatever it asked of the history.
LEMMA ServeRefusedSound ==
    ASSUME AccountSound, NEW n \in Slots, page.calls[n].kind \in historyKinds,
           page.calls[n].answer.status = "none", server' = server,
           who(page.calls[n].sid) = NoUser, answered(n, reply("expired", page.calls[n]))
    PROVE  AccountSound'
<1> DEFINE c == page.calls[n]
           r == reply("expired", c)
           v == [page EXCEPT !.calls[n].answer = r]
<1>1. page' = v
  BY DEF answered
<1>2. /\ c \in Call /\ server \in Server /\ page \in Page /\ Sound(page, server)
      /\ whose(server, c.sid) = NoUser
  BY CallKnown
<1>3. r \in Reply /\ r.status = "expired" /\ r.user = NoUser /\ r.sid = NoSid
  BY <1>2, ReplyFields
<1> HIDE DEF r
<1>4. /\ Told(v, page) /\ Replied(v, page, n, r) /\ v.calls[n].answer = r
      /\ v.calls[n].kind = c.kind /\ v.calls[n].arg = c.arg /\ v.calls[n].lost = c.lost
  BY <1>2, <1>3, RepliedFields
<1> HIDE DEF v
<1>5. v.history = page.history /\ \A i \in Slots \ {n} : v.calls[i] = page.calls[i]
  BY <1>4 DEF Replied, Beside
<1>6. ShelfRead(c, server) /\ StarRead(c, server)
  BY <1>2 DEF Sound, Shelved, HistoryCalls, StarsRead
<1>7. c.answer.status = "none"
  OBVIOUS
<1>8. whose(server, page.calls[n].sid) = NoUser
  BY <1>2
<1> HIDE DEF c
<1>9. ShelfRead(v.calls[n], server) /\ StarRead(v.calls[n], server)
  BY <1>3, <1>4, <1>6, <1>7 DEF ShelfRead, StarRead, served
<1>10. /\ ~served(v.calls[n], {"more"}) /\ v.calls[n].answer.status # "ok"
       /\ v.calls[n].answer.user = NoUser
       /\ page.calls[n].answer.status # "ok" /\ v.calls[n].lost = page.calls[n].lost
  BY <1>3, <1>4, <1>7 DEF served, c
<1>11. Sound(v, server)
  BY <1>4, <1>5, <1>8, <1>9, <1>10, HistoryTold
<1> QED BY <1>1, <1>11 DEF AccountSound

\* A match is read.
LEMMA ServeDetailSound ==
    ASSUME AccountSound, NEW n \in Slots, page.calls[n].kind = "detail",
           page.calls[n].answer.status = "none", server' = server,
           LET c == page.calls[n]
               u == who(c.sid)
           IN  /\ u # NoUser
               /\ answered(n, [reply("ok", c) EXCEPT !.starred = server.starred[u]])
    PROVE  AccountSound'
<1> DEFINE c == page.calls[n]
           u == who(c.sid)
           stars == server.starred[u]
           q == reply("ok", c)
           r == [q EXCEPT !.starred = stars]
           v == [page EXCEPT !.calls[n].answer = r]
<1>1. page' = v /\ u # NoUser
  BY DEF answered
<1>2. /\ c \in Call /\ server \in Server /\ page \in Page /\ Sound(page, server)
      /\ u = whose(server, c.sid) /\ u \in People /\ c.sid \in SidsOrNone
  BY Zenon, CallKnown
<1>3. u \in Users /\ u = server.owner[c.sid] /\ c.sid # NoSid
  BY Zenon, <1>1, <1>2, HolderKnown
<1>4. stars \in SUBSET Matches
  BY <1>2, <1>3 DEF Server
<1>5. q \in Reply /\ q.status = "ok" /\ q.user = u /\ q.sid = NoSid
  BY <1>2, ReplyFields
<1>6. server.starred[u] = stars
  OBVIOUS
<1> HIDE DEF q, stars, u
<1>7. r \in Reply /\ r.status = "ok" /\ r.user = u /\ r.sid = NoSid /\ r.starred = stars
  BY <1>4, <1>5 DEF Reply
<1> HIDE DEF r
<1>8. /\ Told(v, page) /\ Replied(v, page, n, r) /\ v.calls[n].answer = r
      /\ v.calls[n].kind = c.kind /\ v.calls[n].arg = c.arg /\ v.calls[n].sid = c.sid
  BY <1>2, <1>7, RepliedFields
<1> HIDE DEF v
<1>9. v.history = page.history /\ \A i \in Slots \ {n} : v.calls[i] = page.calls[i]
  BY <1>8 DEF Replied, Beside
<1>10. c.kind = "detail" /\ c.kind \in historyKinds
  BY DEF historyKinds
<1> HIDE DEF c
<1>11. ShelfRead(v.calls[n], server) /\ StarRead(v.calls[n], server)
  BY <1>3, <1>6, <1>7, <1>8, <1>10 DEF ShelfRead, StarRead, served, listKinds
<1>12. /\ ~waiting(v.calls[n], {"more"}) /\ v.calls[n].kind # "star"
       /\ v.calls[n].answer.status # "expired" /\ page.calls[n].kind \in historyKinds
  BY <1>7, <1>8, <1>10 DEF waiting, c
<1>13. Sound(v, server)
  BY <1>8, <1>9, <1>11, <1>12, HistoryTold
<1> QED BY <1>1, <1>13 DEF AccountSound

\* What the page is told of a bookmark that is saved, field by field.
StarMarked(v, w, c) ==
    LET g == v.history
        h == w.history
    IN  /\ v \in Page /\ Told(v, w) /\ v.session = w.session
        /\ g.doubt = IF c.alive THEN h.doubt \ {c.arg.match} ELSE h.doubt \cup {c.arg.match}
        /\ g.matches = h.matches /\ g.starred = h.starred /\ g.since = h.since
        /\ g.filter = h.filter /\ g.shown = h.shown /\ g.next = h.next
        /\ g.selected = h.selected /\ g.wanted = h.wanted /\ g.detail = h.detail
        /\ g.detailStarred = h.detailStarred /\ g.pending = h.pending
        /\ g.owner = h.owner /\ g.loadingMore = h.loadingMore
        /\ \A i \in Slots :
            LET d == v.calls[i]
                b == w.calls[i]
            IN  /\ d.answer = b.answer /\ d.lost = b.lost
                /\ b.overtaken \subseteq d.overtaken
                /\ served(b, {"list", "more", "detail"}) => c.arg.match \in d.overtaken
                /\ b.kind \notin historyKinds => d = b

LEMMA StarSavedFields ==
    ASSUME NEW w \in Page, NEW c \in Call, c.arg.match \in Matches
    PROVE  StarMarked(starSaved(w, c), w, c)
<1> DEFINE m == c.arg.match
           F == [i \in Slots |->
                    IF w.calls[i].kind \in {"list", "more", "detail"}
                            /\ w.calls[i].answer.status = "ok"
                    THEN [w.calls[i] EXCEPT !.overtaken = @ \cup {m}] ELSE w.calls[i]]
           D == IF c.alive THEN w.history.doubt \ {m} ELSE w.history.doubt \cup {m}
           h == [w.history EXCEPT !.doubt = D]
           v == starSaved(w, c)
<1>1. w.calls \in [Slots -> Call] /\ w.history \in Shelf
  BY PageParts
<1>2. m \in Matches
  OBVIOUS
<1>3. v = [w EXCEPT !.calls = F, !.history = h]
  <2>1. v = [w EXCEPT !.calls = F, !.history.doubt = D]
    BY DEF starSaved
  <2> HIDE DEF v, F, D
  <2> QED BY <2>1
<1>4. D \in SUBSET Matches
  BY <1>1, <1>2 DEF Shelf
<1>5. D = IF c.alive THEN w.history.doubt \ {m} ELSE w.history.doubt \cup {m}
  OBVIOUS
<1> HIDE DEF D, v, m
<1>6. /\ h \in Shelf /\ h.doubt = D
      /\ h.matches = w.history.matches /\ h.starred = w.history.starred
      /\ h.since = w.history.since /\ h.filter = w.history.filter /\ h.shown = w.history.shown
      /\ h.next = w.history.next /\ h.selected = w.history.selected
      /\ h.wanted = w.history.wanted /\ h.detail = w.history.detail
      /\ h.detailStarred = w.history.detailStarred /\ h.pending = w.history.pending
      /\ h.owner = w.history.owner /\ h.loadingMore = w.history.loadingMore
      /\ h.listStatus = w.history.listStatus /\ h.detailStatus = w.history.detailStatus
  BY <1>1, <1>4 DEF Shelf
<1>7. ASSUME NEW i \in Slots
      PROVE  /\ F[i] \in Call
             /\ F[i].kind = w.calls[i].kind /\ F[i].sid = w.calls[i].sid
             /\ F[i].arg = w.calls[i].arg /\ F[i].current = w.calls[i].current
             /\ F[i].alive = w.calls[i].alive /\ F[i].answer = w.calls[i].answer
             /\ F[i].lost = w.calls[i].lost
             /\ w.calls[i].overtaken \subseteq F[i].overtaken
             /\ served(w.calls[i], {"list", "more", "detail"}) => m \in F[i].overtaken
             /\ w.calls[i].kind \notin historyKinds => F[i] = w.calls[i]
  <2> DEFINE b == w.calls[i]
             d == [b EXCEPT !.overtaken = @ \cup {m}]
  <2>1. b \in Call
    BY <1>1
  <2>2. F[i] = IF b.kind \in {"list", "more", "detail"} /\ b.answer.status = "ok"
               THEN d ELSE b
    OBVIOUS
  <2>3. b = w.calls[i]
    OBVIOUS
  <2> HIDE DEF b, F
  <2>4. /\ d \in Call /\ d.kind = b.kind /\ d.sid = b.sid /\ d.arg = b.arg
        /\ d.answer = b.answer /\ d.current = b.current /\ d.alive = b.alive
        /\ d.lost = b.lost /\ d.overtaken = b.overtaken \cup {m}
    BY <1>2, <2>1 DEF Call
  <2> HIDE DEF d
  <2>5. CASE b.kind \in {"list", "more", "detail"} /\ b.answer.status = "ok"
    <3>1. F[i] = d /\ b.kind \in historyKinds
      BY <2>2, <2>5 DEF historyKinds
    <3> QED BY <2>3, <2>4, <3>1
  <2>6. CASE ~(b.kind \in {"list", "more", "detail"} /\ b.answer.status = "ok")
    <3>1. F[i] = b /\ ~served(b, {"list", "more", "detail"})
      BY <2>2, <2>6 DEF served
    <3> QED BY <2>1, <2>3, <3>1
  <2> QED BY <2>5, <2>6
<1>8. F \in [Slots -> Call]
  <2>1. F = [i \in Slots |-> F[i]]
    OBVIOUS
  <2> HIDE DEF F
  <2> QED BY <1>7, <2>1
<1> HIDE DEF F, h
<1>9. /\ v \in Page /\ v.app = w.app /\ v.session = w.session /\ v.history = h
      /\ v.admin = w.admin /\ v.calls = F /\ v.cookie = w.cookie
  BY <1>3, <1>6, <1>8 DEF Page
<1>10. Told(v, w)
  BY <1>6, <1>7, <1>9 DEF Told
<1>11. \A i \in Slots :
            /\ v.calls[i].answer = w.calls[i].answer /\ v.calls[i].lost = w.calls[i].lost
            /\ w.calls[i].overtaken \subseteq v.calls[i].overtaken
            /\ served(w.calls[i], {"list", "more", "detail"}) => m \in v.calls[i].overtaken
            /\ w.calls[i].kind \notin historyKinds => v.calls[i] = w.calls[i]
  BY <1>7, <1>9
<1> QED BY <1>5, <1>6, <1>9, <1>10, <1>11 DEF v, m, StarMarked

\* A bookmark is saved: what was read before does not show it.
StarServed(n) ==
    LET c == page.calls[n]
        u == who(c.sid)
    IN  /\ u # NoUser
        /\ server' = [server EXCEPT !.starred[u] =
                IF c.arg.flag THEN @ \cup {c.arg.match} ELSE @ \ {c.arg.match}]
        /\ page' = starSaved([page EXCEPT !.calls[n].answer = reply("ok", c)], c)

LEMMA ServeStarSound ==
    ASSUME AccountSound, NEW n \in Slots, page.calls[n].kind = "star",
           page.calls[n].answer.status = "none", StarServed(n)
    PROVE  AccountSound'
<1> DEFINE c == page.calls[n]
           u == who(c.sid)
           m == c.arg.match
           b == c.arg.flag
           stars == server.starred[u]
           saved == IF b THEN stars \cup {m} ELSE stars \ {m}
           r == reply("ok", c)
           told == [page EXCEPT !.calls[n].answer = r]
           v == starSaved(told, c)
           t == [server EXCEPT !.starred[u] = saved]
<1>1. page' = v /\ server' = t /\ u # NoUser
  BY DEF StarServed
<1>2. /\ c \in Call /\ server \in Server /\ page \in Page /\ Sound(page, server)
      /\ u = whose(server, c.sid) /\ u \in People /\ c.sid \in SidsOrNone /\ c.arg \in Arg
      /\ SessionsMade(page, server) /\ AtHistory(page, server) /\ Truthful(page, server)
      /\ page.cookie \in SidsOrNone
  BY Zenon, CallKnown
<1>3. u \in Users /\ u = server.owner[c.sid] /\ c.sid # NoSid
  BY Zenon, <1>1, <1>2, HolderKnown
<1>4. /\ HistoryCalls(page, server) /\ StarsRead(page, server)
      /\ page.app.screen = "history" => HistoryRows(page, server) /\ Stars(page, server)
      /\ Listed(page, server)
  BY <1>2 DEF Sound, Shelved
<1>5. c.kind = "star" /\ c.answer.status = "none" /\ StarRead(c, server) /\ ShelfRead(c, server)
  BY <1>4 DEF StarsRead, HistoryCalls
<1>6. m \in Matches /\ b \in BOOLEAN /\ ~c.lost
  <2>1. m \in MatchesOrNone /\ m # NoMatch
    BY <1>2, <1>5 DEF Arg, StarRead
  <2>2. ~c.lost /\ b \in BOOLEAN
    BY <1>2, <1>5 DEF StarRead, Arg
  <2> QED BY <2>1, <2>2, Bounds DEF MatchesOrNone, Matches, NoMatch
<1>7. stars \in SUBSET Matches
  BY <1>2, <1>3 DEF Server
<1>8. /\ saved \in SUBSET Matches /\ (m \in saved <=> b)
      /\ \A k \in Matches : k # m => (k \in saved <=> k \in stars)
  BY <1>6, <1>7
<1>9. r \in Reply /\ r.status = "ok" /\ r.sid = NoSid
  BY <1>2, ReplyFields
<1>10. stars = server.starred[u] /\ c.arg.match = m /\ c.arg.flag = b
  OBVIOUS
<1> HIDE DEF r, saved, stars, u
<1>11. /\ Told(told, page) /\ Replied(told, page, n, r) /\ told.calls[n].answer = r
       /\ told.calls[n].kind = c.kind /\ told.calls[n].arg = c.arg
       /\ told.calls[n].lost = c.lost /\ told.calls[n].sid = c.sid
  BY <1>2, <1>9, RepliedFields
<1> HIDE DEF told
<1>12. /\ told \in Page /\ told.history = page.history /\ told.session = page.session
       /\ \A i \in Slots \ {n} : told.calls[i] = page.calls[i]
  BY <1>11 DEF Replied, Beside
<1>13. /\ v \in Page /\ Told(v, told) /\ v.session = told.session
       /\ v.history.doubt = IF c.alive THEN told.history.doubt \ {m}
                            ELSE told.history.doubt \cup {m}
       /\ v.history.matches = told.history.matches
       /\ v.history.starred = told.history.starred
       /\ v.history.since = told.history.since
       /\ v.history.filter = told.history.filter /\ v.history.shown = told.history.shown
       /\ v.history.next = told.history.next /\ v.history.selected = told.history.selected
       /\ v.history.wanted = told.history.wanted /\ v.history.detail = told.history.detail
       /\ v.history.detailStarred = told.history.detailStarred
       /\ v.history.pending = told.history.pending /\ v.history.owner = told.history.owner
       /\ v.history.loadingMore = told.history.loadingMore
       /\ \A i \in Slots :
            /\ v.calls[i].answer = told.calls[i].answer
            /\ v.calls[i].lost = told.calls[i].lost
            /\ told.calls[i].overtaken \subseteq v.calls[i].overtaken
            /\ served(told.calls[i], {"list", "more", "detail"}) => m \in v.calls[i].overtaken
            /\ told.calls[i].kind \notin historyKinds => v.calls[i] = told.calls[i]
  <2>1. StarMarked(v, told, c)
    BY <1>2, <1>6, <1>12, StarSavedFields
  <2>2. c.arg.match = m
    OBVIOUS
  <2> HIDE DEF v, m, c
  <2> QED BY <2>1, <2>2 DEF StarMarked
<1> HIDE DEF v, m, b
<1>14. Told(v, page)
  BY <1>11, <1>13 DEF Told
<1>15. /\ t \in Server /\ t.owner = server.owner /\ t.made = server.made
       /\ t.valid = server.valid /\ t.rows = server.rows /\ t.starred[u] = saved
       /\ \A x \in Users : x # u => t.starred[x] = server.starred[x]
  BY <1>2, <1>3, <1>8 DEF Server
<1> HIDE DEF t
<1>16. \A x \in Users, k \in Matches :
            k # m => (k \in t.starred[x] <=> k \in server.starred[x])
  BY <1>8, <1>10, <1>15
<1>17. Ends(t, server) /\ Later(t, server) /\ SessionsMade(v, t)
  <2>1. Ends(t, server)
    BY <1>15 DEF Ends
  <2> QED BY <1>2, <1>14, <2>1, EndsLater
<1>18. Signed(v, t)
  <2>1. \A i \in Slots \ {n} :
            v.calls[i].answer = page.calls[i].answer /\ v.calls[i].lost = page.calls[i].lost
    BY <1>12, <1>13
  <2>2. v.calls[n].answer = r
    BY <1>11, <1>13
  <2>3. AnswersTrue(v, t)
    <3>1. v.calls[n].kind = "star"
      BY <1>5, <1>14 DEF Told, c
    <3>2. AnswerTrue(v.calls[n], t)
      BY <1>9, <2>2, <3>1 DEF AnswerTrue
    <3> QED BY <1>2, <1>14, <1>17, <2>1, <3>2, AnswersKept
  <2>4. \A i \in Slots :
            /\ page.calls[i].kind \in {"restore", "whoami"} =>
                v.calls[i].answer = page.calls[i].answer /\ v.calls[i].lost = page.calls[i].lost
            /\ ended(page.calls[i]) => ended(v.calls[i])
    BY <1>5, <1>14, <2>1 DEF ended, Told, c
  <2>5. whose(t, page.cookie) = whose(server, page.cookie)
    BY <1>15 DEF whose
  <2>6. Truthful(v, t)
    BY <1>2, <1>14, <1>15, <2>4, <2>5, TruthfulBeside
  <2> QED BY <1>2, <1>14, <1>17, <2>3, <2>6, ToldSigned
<1>19. Listed(v, t)
  <2>1. c.kind \notin adminKinds /\ c.kind \in historyKinds
    BY <1>5 DEF adminKinds, rowKinds, inspectKinds, historyKinds
  <2>2. \A i \in Slots : page.calls[i].kind \in adminKinds => v.calls[i] = page.calls[i]
    BY <1>12, <1>13, <2>1, KindsApart DEF c
  <2>3. \A i \in Slots : v.calls[i].kind = page.calls[i].kind
    BY <1>14 DEF Told
  <2>4. SamePanel(v, page)
    BY <1>14, <2>2, <2>3 DEF SamePanel, Told
  <2>5. \A i \in Slots : v.calls[i].kind \in adminKinds => Faded(v.calls[i], page.calls[i])
    BY <2>2, <2>3, FadedSame
  <2>6. PanelGrown(t, server)
    BY <1>15 DEF PanelGrown
  <2> QED BY <1>2, <1>4, <1>13, <1>15, <2>4, <2>5, <2>6, PanelAside
<1>20. \A i \in Slots :
            /\ v.calls[i].kind = page.calls[i].kind /\ v.calls[i].arg = page.calls[i].arg
            /\ v.calls[i].sid = page.calls[i].sid /\ v.calls[i].alive = page.calls[i].alive
            /\ v.calls[i].lost = page.calls[i].lost
            /\ i # n => v.calls[i].answer = page.calls[i].answer
            /\ page.calls[i].overtaken \subseteq v.calls[i].overtaken \/ i = n
            /\ served(v.calls[i], {"list", "more", "detail"}) => m \in v.calls[i].overtaken
  <2>1. \A i \in Slots :
            /\ v.calls[i].kind = page.calls[i].kind /\ v.calls[i].arg = page.calls[i].arg
            /\ v.calls[i].sid = page.calls[i].sid /\ v.calls[i].alive = page.calls[i].alive
    BY <1>14 DEF Told
  <2>2. \A i \in Slots : v.calls[i].kind = told.calls[i].kind
    BY <1>13 DEF Told
  <2>3. \A i \in Slots : served(v.calls[i], {"list", "more", "detail"}) =>
                            m \in v.calls[i].overtaken
    BY <1>13, <2>2 DEF served
  <2>4. v.calls[n].lost = page.calls[n].lost
    BY <1>11, <1>13 DEF c
  <2> QED BY <1>12, <1>13, <2>1, <2>3, <2>4
<1>21. v.calls[n].answer = r /\ v.calls[n].kind = "star" /\ v.calls[n].arg = c.arg
  BY <1>5, <1>11, <1>13, <1>20 DEF c
<1>22. ASSUME NEW i \in Slots
       PROVE  ShelfRead(v.calls[i], t) /\ StarRead(v.calls[i], t)
  <2>1. CASE i = n
    <3>1. ShelfRead(v.calls[n], t)
      BY <1>21 DEF ShelfRead, served, listKinds
    <3>2. v.calls[n].arg.match # NoMatch
      BY <1>5, <1>21 DEF StarRead
    <3>3. StarRead(v.calls[n], t)
      BY <1>6, <1>9, <1>20, <1>21, <3>2 DEF StarRead, served, listKinds, c
    <3> QED BY <2>1, <3>1, <3>3
  <2>2. CASE i # n
    <3> DEFINE x == page.calls[i]  y == v.calls[i]
    <3>1. ShelfRead(x, server) /\ StarRead(x, server) /\ x \in Call
      BY <1>2, <1>4, PageParts DEF HistoryCalls, StarsRead
    <3>2. /\ y.kind = x.kind /\ y.arg = x.arg /\ y.sid = x.sid /\ y.answer = x.answer
          /\ y.lost = x.lost /\ x.overtaken \subseteq y.overtaken
          /\ served(y, {"list", "more", "detail"}) => m \in y.overtaken
      BY <1>20, <2>2
    <3> HIDE DEF x, y
    <3>3. ShelfRead(y, t)
      BY <1>15, <3>1, <3>2 DEF ShelfRead, served, PageRead
    <3>4. served(y, {"list", "more", "detail"}) => x.answer.user \in Users
      BY <3>1, <3>2 DEF ShelfRead, served
    <3>5. Range(y.answer.rows) \subseteq Matches
      <4>1. y.answer.rows \in Seq(Matches)
        BY <3>1, <3>2 DEF Call, Reply
      <4> QED BY <4>1 DEF Range
    <3>6. ASSUME served(y, listKinds), NEW k \in Range(y.answer.rows) \ y.overtaken
          PROVE  k \in y.answer.starred <=> k \in t.starred[y.answer.user]
      <4>1. served(y, {"list", "more", "detail"}) /\ served(x, listKinds)
        BY <3>2, <3>6 DEF served, listKinds
      <4>2. k # m /\ k \in Matches /\ y.answer.user \in Users
        BY <3>2, <3>4, <3>5, <3>6, <4>1
      <4>3. k \in x.answer.starred <=> k \in server.starred[x.answer.user]
        BY <3>1, <3>2, <3>6, <4>1 DEF StarRead
      <4> QED BY <1>16, <3>2, <4>2, <4>3
    <3>7. ASSUME served(y, {"detail"}), y.arg.match \notin y.overtaken
          PROVE  y.arg.match \in y.answer.starred <=> y.arg.match \in t.starred[y.answer.user]
      <4> DEFINE k == y.arg.match
      <4>1. served(y, {"list", "more", "detail"}) /\ served(x, {"detail"})
        BY <3>2, <3>7 DEF served
      <4>2. k # m /\ y.answer.user \in Users /\ k \notin x.overtaken
        BY <3>2, <3>4, <3>7, <4>1
      <4>3. k \in x.answer.starred <=> k \in server.starred[x.answer.user]
        BY <3>1, <3>2, <4>1, <4>2 DEF StarRead
      <4>4. k \in t.starred[y.answer.user] <=> k \in server.starred[y.answer.user]
        <5>1. t.starred[y.answer.user] \in SUBSET Matches
              /\ server.starred[y.answer.user] \in SUBSET Matches
          BY <1>2, <1>15, <4>2 DEF Server
        <5> QED BY <1>16, <4>2, <5>1
      <4> QED BY <3>2, <4>3, <4>4
    <3>8. y.kind = "star" =>
            y.arg.match # NoMatch /\ y.answer.sid = NoSid /\ (y.lost => y.answer.status = "failed")
      BY <3>1, <3>2 DEF StarRead
    <3>9. StarRead(y, t)
      BY <3>6, <3>7, <3>8 DEF StarRead
    <3> QED BY <3>3, <3>9 DEF y
  <2> QED BY <2>1, <2>2
<1>23. ASSUME NEW i \in Slots PROVE ShelfDue(v.calls[i], v.history)
  <2>1. ShelfDue(page.calls[i], page.history)
    BY <1>4 DEF HistoryCalls
  <2>2. \A kinds : waiting(v.calls[i], kinds) <=> waiting(page.calls[i], kinds)
    BY <1>14, ToldWaits
  <2>3. served(v.calls[i], {"more"}) => v.calls[i].answer = page.calls[i].answer
                                          /\ served(page.calls[i], {"more"})
    BY <1>20, <1>21 DEF served
  <2>4. v.history.listStatus = page.history.listStatus
    BY <1>14 DEF Told
  <2>5. listOf(v.history) <=> listOf(page.history)
    BY <1>12, <1>13 DEF listOf
  <2> QED BY <1>12, <1>13, <1>20, <2>1, <2>2, <2>3, <2>4, <2>5 DEF ShelfDue
<1>24. HistoryCalls(v, t) /\ StarsRead(v, t)
  <2>1. Sole(v, listKinds) /\ Sole(v, {"detail"})
    BY <1>4, <1>14, ToldSole DEF HistoryCalls
  <2> QED BY <1>22, <1>23, <2>1 DEF HistoryCalls, StarsRead
<1>25. v.app = page.app /\ v.cookie = page.cookie
  BY <1>14 DEF Told
<1>26. ASSUME page.app.screen = "history" PROVE HistoryRows(v, t)
  <2>1. HistoryRows(page, server)
    BY <1>4, <1>26
  <2>2. \A kinds : (\E i \in Slots : waiting(page.calls[i], kinds)) =>
            \E i \in Slots : waiting(v.calls[i], kinds)
    BY <1>14, ToldWaits
  <2>3. /\ v.history.listStatus = page.history.listStatus
        /\ v.history.detailStatus = page.history.detailStatus
    BY <1>14 DEF Told
  <2>4. listOf(v.history) <=> listOf(page.history)
    BY <1>12, <1>13 DEF listOf
  <2> DEFINE h == page.history  g == v.history
  <2>5. /\ g.starred = h.starred /\ g.matches = h.matches /\ g.since = h.since
        /\ g.detail = h.detail /\ g.selected = h.selected /\ g.wanted = h.wanted
        /\ g.next = h.next /\ g.owner = h.owner /\ g.loadingMore = h.loadingMore
        /\ g.listStatus = h.listStatus /\ g.detailStatus = h.detailStatus
        /\ (listOf(g) <=> listOf(h))
    BY <1>12, <1>13, <2>3, <2>4
  <2> DEFINE waitsFor(x, kinds) == \E i \in Slots : waiting(x.calls[i], kinds)
  <2>6. /\ waitsFor(page, {"list"}) => waitsFor(v, {"list"})
        /\ waitsFor(page, {"more"}) => waitsFor(v, {"more"})
        /\ waitsFor(page, {"detail"}) => waitsFor(v, {"detail"})
    BY <2>2
  <2>7. /\ h.listStatus = "loading" => waitsFor(page, {"list"})
        /\ h.loadingMore => waitsFor(page, {"more"})
        /\ h.detailStatus = "loading" => waitsFor(page, {"detail"})
    BY <2>1 DEF HistoryRows
  <2> HIDE DEF waitsFor
  <2>8. /\ g.listStatus = "loading" => waitsFor(v, {"list"})
        /\ g.loadingMore => waitsFor(v, {"more"})
        /\ g.detailStatus = "loading" => waitsFor(v, {"detail"})
    BY <2>5, <2>6, <2>7
  <2>9. /\ h.starred \subseteq Range(h.matches) /\ h.since \subseteq server.rows["matches"]
        /\ h.listStatus = "ready" => listOf(h)
        /\ h.detail # NoMatch => h.detail = h.selected
        /\ h.detailStatus = "ready" => h.detail # NoMatch
        /\ h.selected = h.wanted /\ (h.selected # NoMatch => h.next <= h.selected)
        /\ h.listStatus = "ready" \/ h.matches # <<>> \/ h.selected # NoMatch =>
            h.owner = server.owner[page.cookie] /\ page.cookie # NoSid
    BY <2>1 DEF HistoryRows
  <2>10. /\ g.starred \subseteq Range(g.matches) /\ g.since \subseteq t.rows["matches"]
         /\ g.listStatus = "ready" => listOf(g)
         /\ g.detail # NoMatch => g.detail = g.selected
         /\ g.detailStatus = "ready" => g.detail # NoMatch
         /\ g.selected = g.wanted /\ (g.selected # NoMatch => g.next <= g.selected)
         /\ g.listStatus = "ready" \/ g.matches # <<>> \/ g.selected # NoMatch =>
             g.owner = t.owner[v.cookie] /\ v.cookie # NoSid
    BY <1>15, <1>25, <2>5, <2>9
  <2> QED BY <2>8, <2>10 DEF HistoryRows, waitsFor
<1>27. ASSUME page.app.screen = "history" PROVE Stars(v, t)
  <2> DEFINE h == page.history
             g == v.history
             mine == server.starred[server.owner[page.cookie]]
             now == t.starred[t.owner[v.cookie]]
  <2>1. HistoryRows(page, server) /\ Stars(page, server)
    BY <1>4, <1>27
  <2>2. /\ g.matches = h.matches /\ g.starred = h.starred /\ g.pending = h.pending
        /\ g.detail = h.detail /\ g.detailStarred = h.detailStarred
        /\ g.doubt = IF c.alive THEN h.doubt \ {m} ELSE h.doubt \cup {m}
    BY <1>12, <1>13
  <2>3. ASSUME page.cookie # NoSid
        PROVE  \A k \in Matches : k # m => (k \in now <=> k \in mine)
    <3>1. server.owner[page.cookie] \in Users
      BY <1>2, <2>3, SidBounds DEF SessionsMade
    <3> QED BY <1>15, <1>16, <1>25, <3>1
  <2>4. ASSUME c.alive PROVE now = saved /\ m \in h.pending /\ page.cookie # NoSid
    <3>1. c.sid = page.cookie
      BY <1>2, <1>5, <2>4 DEF AtHistory, historyKinds, c
    <3>2. m \in h.pending
      BY <1>5, <2>1, <2>4 DEF Stars, c, m
    <3> QED BY <1>3, <1>15, <1>25, <3>1, <3>2
  <2>5. h.detail # NoMatch \/ Range(h.matches) # {} => page.cookie # NoSid
    <3>1. Range(h.matches) # {} => h.matches # <<>>
      BY DEF Range
    <3> QED BY <2>1, <3>1 DEF HistoryRows
  <2>6. Range(h.matches) \subseteq Matches /\ (h.detail # NoMatch => h.detail \in Matches)
    <3>1. h.matches \in Seq(Matches) /\ h.detail \in MatchesOrNone
      BY <1>2, PageParts DEF Shelf
    <3> QED BY <3>1, Bounds DEF Range, Matches, MatchesOrNone, NoMatch
  <2> HIDE DEF mine, now
  <2>7. ASSUME NEW k \in Matches, k \notin g.pending \cup g.doubt, page.cookie # NoSid
        PROVE  k \notin h.pending \cup h.doubt /\ (k \in now <=> k \in mine)
    <3>1. k # m
      BY <2>2, <2>4, <2>7
    <3> QED BY <2>2, <2>3, <2>7, <3>1
  <2>8. \A k \in Range(g.matches) : k \notin g.pending \cup g.doubt =>
            (k \in g.starred <=> k \in now)
    <3>1. TAKE k \in Range(g.matches)
    <3>2. HAVE k \notin g.pending \cup g.doubt
    <3>3. k \in Range(h.matches) /\ k \in Matches /\ page.cookie # NoSid
      BY <2>2, <2>5, <2>6
    <3>4. k \in h.starred <=> k \in mine
      BY <2>1, <2>7, <3>2, <3>3 DEF Stars, mine
    <3> QED BY <2>2, <2>7, <3>2, <3>3, <3>4
  <2>9. g.detail # NoMatch /\ g.detail \notin g.pending \cup g.doubt =>
            (g.detailStarred <=> g.detail \in now)
    <3>1. HAVE g.detail # NoMatch /\ g.detail \notin g.pending \cup g.doubt
    <3>2. h.detail \in Matches /\ page.cookie # NoSid /\ h.detail # NoMatch
      BY <2>2, <2>5, <2>6, <3>1
    <3>3. h.detail \notin h.pending \cup h.doubt /\ (h.detail \in now <=> h.detail \in mine)
      BY <2>2, <2>7, <3>1, <3>2
    <3>4. h.detailStarred <=> h.detail \in mine
      BY <2>1, <3>2, <3>3 DEF Stars, mine
    <3> QED BY <2>2, <3>3, <3>4
  <2>10. ASSUME NEW i \in Slots, v.calls[i].kind = "star", v.calls[i].alive
         PROVE  LET y == v.calls[i]
                    k == y.arg.match
                IN  /\ k \in g.pending /\ v.cookie # NoSid
                    /\ k \notin g.doubt =>
                        /\ y.answer.status = "ok" => (k \in now <=> y.arg.flag)
                        /\ y.answer.status # "ok" /\ ~y.lost => (k \in now <=> ~y.arg.flag)
    <3> DEFINE x == page.calls[i]  y == v.calls[i]  k == y.arg.match
    <3>1. /\ x.kind = "star" /\ x.alive /\ x.arg = y.arg /\ x.lost = y.lost
          /\ (i # n => x.answer = y.answer)
      BY <1>20, <2>10
    <3>2. k \in h.pending /\ page.cookie # NoSid
      BY <2>1, <3>1 DEF Stars
    <3>3. CASE i = n
      <4>1. c.alive /\ k = m /\ y.arg.flag = b /\ y.answer.status = "ok"
        BY <1>9, <1>10, <1>21, <3>1, <3>3 DEF c
      <4> QED BY <1>8, <1>25, <2>2, <2>4, <3>2, <4>1
    <3>4. CASE i # n
      <4>1. c.alive => k # m
        BY <1>5, <2>1, <3>1, <3>4 DEF Stars, c, m
      <4>2. k \in Matches
        <5>1. x \in Call /\ StarRead(x, server)
          BY <1>2, <1>4, PageParts DEF StarsRead
        <5>2. k \in MatchesOrNone /\ k # NoMatch
          BY <3>1, <5>1 DEF Call, Arg, StarRead
        <5> QED BY <5>2, Bounds DEF MatchesOrNone, Matches, NoMatch
      <4>3. k \notin g.doubt => k # m /\ k \notin h.doubt
        BY <2>2, <4>1
      <4>4. k \notin h.doubt =>
                /\ x.answer.status = "ok" => (k \in mine <=> x.arg.flag)
                /\ x.answer.status # "ok" /\ ~x.lost => (k \in mine <=> ~x.arg.flag)
        BY <2>1, <3>1 DEF Stars, mine
      <4> QED BY <1>25, <2>2, <2>3, <3>1, <3>2, <3>4, <4>2, <4>3, <4>4
    <3> QED BY <3>3, <3>4
  <2>11. \A i, j \in Slots :
            /\ v.calls[i].kind = "star" /\ v.calls[i].alive
            /\ v.calls[j].kind = "star" /\ v.calls[j].alive
            /\ v.calls[i].arg.match = v.calls[j].arg.match
            => i = j
    BY <1>20, <2>1 DEF Stars
  <2> QED BY <2>8, <2>9, <2>10, <2>11 DEF Stars, now
<1>28. Shelved(v, t)
  BY <1>24, <1>25, <1>26, <1>27 DEF Shelved
<1>29. Sound(v, t)
  BY <1>13, <1>15, <1>18, <1>19, <1>28 DEF Sound
<1> QED BY <1>1, <1>29 DEF AccountSound

\* What the history's calls are answered.
LEMMA ServeHistorySound ==
    ASSUME AccountSound, NEW n \in Slots, page.calls[n].kind \in historyKinds,
           page.calls[n].answer.status = "none", ServeHistory(n, page.calls[n])
    PROVE  AccountSound'
<1> DEFINE c == page.calls[n]
           u == who(c.sid)
<1>1. CASE u = NoUser
  <2>1. answered(n, reply("expired", c)) /\ server' = server
    BY <1>1 DEF ServeHistory
  <2> QED BY <1>1, <2>1, ServeRefusedSound
<1>2. CASE u # NoUser /\ c.kind \in listKinds
  <2>1. /\ server' = server
        /\ answered(n, withPage(reply("ok", c),
                IF c.arg.filter = "interesting"
                THEN server.rows["matches"] \cap server.starred[u]
                ELSE server.rows["matches"], c, server.starred[u]))
    <3>1. c.kind # "detail" /\ c.kind # "star" /\ c.kind \in listKinds
      BY <1>2 DEF listKinds
    <3> HIDE DEF listKinds
    <3> QED BY <1>2, <3>1 DEF ServeHistory
  <2> QED BY <1>2, <2>1, ServeListSound DEF ListServed
<1>3. CASE u # NoUser /\ c.kind = "detail"
  <2>1. /\ server' = server
        /\ answered(n, [reply("ok", c) EXCEPT !.starred = server.starred[u]])
    BY <1>3 DEF ServeHistory, listKinds
  <2> QED BY <1>3, <2>1, ServeDetailSound
<1>4. CASE u # NoUser /\ c.kind = "star"
  <2>1. /\ server' = [server EXCEPT !.starred[u] =
                IF c.arg.flag THEN @ \cup {c.arg.match} ELSE @ \ {c.arg.match}]
        /\ page' = starSaved([page EXCEPT !.calls[n].answer = reply("ok", c)], c)
    BY <1>4 DEF ServeHistory, listKinds
  <2> QED BY <1>4, <2>1, ServeStarSound DEF StarServed
<1>5. c.kind \in listKinds \/ c.kind = "detail" \/ c.kind = "star"
  BY DEF historyKinds, listKinds
<1> QED BY <1>1, <1>2, <1>3, <1>4, <1>5

\* A call of the dialog is answered, or its answer fails.
LEMMA PanelTold ==
    ASSUME AccountSound, NEW n \in Slots, NEW v, Told(v, page),
           v.history = page.history, \A i \in Slots \ {n} : v.calls[i] = page.calls[i],
           page.calls[n].kind \in adminKinds,
           v.calls[n].answer.status = "expired" /\ v.calls[n].answer.user = NoUser =>
                whose(server, page.calls[n].sid) = NoUser,
           PanelRead(v.calls[n], server),
           ~page.admin.mixed /\ page.app.adminOpen /\ waiting(v.calls[n], rowKinds)
                /\ v.calls[n].arg.flag /\ served(v.calls[n], rowKinds)
                /\ v.calls[n].arg.filter = page.admin.shown
                => page.admin.since \subseteq v.calls[n].answer.seen
    PROVE  Sound(v, server)
<1>1. page \in Page /\ server \in Server /\ Sound(page, server) /\ v \in Page
      /\ SessionsMade(page, server)
  BY CallKnown DEF Told
<1>2. Signed(v, server)
  BY ReadTold
<1>3. page.calls[n].kind \notin historyKinds /\ v.calls[n].kind = page.calls[n].kind
      /\ v.calls[n].arg = page.calls[n].arg /\ v.admin = page.admin /\ v.app = page.app
      /\ v.cookie = page.cookie
  BY KindsApart DEF Told
<1>4. SameShelf(v, page)
  BY <1>3 DEF SameShelf
<1>5. \A i \in Slots : v.calls[i].kind \in historyKinds => Faded(v.calls[i], page.calls[i])
  BY <1>3, FadedSame
<1>6. Shelved(v, server)
  BY <1>1, <1>4, <1>5, ShelfAside DEF Sound, ShelfGrown
<1>7. Listed(page, server)
  BY <1>1 DEF Sound
<1>8. ASSUME NEW i \in Slots PROVE PanelDue(v.calls[i], v.admin)
  <2>1. PanelDue(page.calls[i], page.admin)
    BY <1>7 DEF Listed, PanelCalls
  <2>2. CASE i # n
    BY <1>3, <2>1, <2>2
  <2>3. CASE i = n
    <3>1. \A kinds : waiting(v.calls[n], kinds) <=> waiting(page.calls[n], kinds)
      BY ToldWaits
    <3>2. waiting(v.calls[n], rowKinds) => page.app.adminOpen
      <4>1. waiting(v.calls[n], rowKinds) =>
                page.calls[n].kind \in adminKinds /\ page.calls[n].alive
        BY <3>1 DEF waiting
      <4> QED BY <1>7, <4>1 DEF Listed, PanelCalls
    <3> QED BY <1>3, <2>1, <2>3, <3>1, <3>2 DEF PanelDue
  <2> QED BY <2>2, <2>3
<1>9. \A i \in Slots : PanelRead(v.calls[i], server)
  BY <1>7 DEF Listed, PanelCalls
<1>10. Sole(v, rowKinds) /\ Sole(v, inspectKinds)
  BY <1>7, ToldSole DEF Listed, PanelCalls
<1>11. \A i \in Slots : v.calls[i].kind \in adminKinds /\ v.calls[i].alive => v.app.adminOpen
  BY <1>3, <1>7 DEF Listed, PanelCalls, Told
<1>12. PanelRows(page, server) => PanelRows(v, server)
  <2>1. \A kinds : (\E i \in Slots : waiting(page.calls[i], kinds)) =>
            \E i \in Slots : waiting(v.calls[i], kinds)
    BY ToldWaits
  <2> QED BY <1>3, <2>1 DEF PanelRows
<1>13. Listed(v, server)
  BY <1>3, <1>7, <1>8, <1>9, <1>10, <1>11, <1>12 DEF Listed, PanelCalls
<1> QED BY <1>1, <1>2, <1>6, <1>13 DEF Sound

\* A call of the dialog is refused, or told nothing of the lists.
LEMMA ServePlainAdmin ==
    ASSUME AccountSound, NEW n \in Slots, page.calls[n].kind \in adminKinds,
           page.calls[n].answer.status = "none", server' = server,
           NEW status \in {"ok", "expired"}, answered(n, reply(status, page.calls[n])),
           status = "ok" => page.calls[n].kind \notin rowKinds
    PROVE  AccountSound'
<1> DEFINE c == page.calls[n]
           r == reply(status, c)
           v == [page EXCEPT !.calls[n].answer = r]
<1>1. page' = v
  BY DEF answered
<1>2. c \in Call /\ server \in Server /\ page \in Page /\ Sound(page, server)
  BY CallKnown
<1>3. r \in Reply /\ r.status = status /\ r.user = whose(server, c.sid)
  BY <1>2, ReplyFields
<1> HIDE DEF r
<1>4. /\ Told(v, page) /\ Replied(v, page, n, r) /\ v.calls[n].answer = r
      /\ v.calls[n].kind = c.kind /\ v.calls[n].arg = c.arg
  BY <1>2, <1>3, RepliedFields
<1> HIDE DEF v
<1>5. v.history = page.history /\ \A i \in Slots \ {n} : v.calls[i] = page.calls[i]
  BY <1>4 DEF Replied, Beside
<1>6. ~served(v.calls[n], rowKinds)
  BY <1>3, <1>4 DEF served
<1>7. PanelRead(c, server)
  BY <1>2 DEF Sound, Listed, PanelCalls
<1>8. PanelRead(v.calls[n], server)
  <2> HIDE DEF c
  <2> QED BY <1>4, <1>6, <1>7 DEF PanelRead
<1>9. v.calls[n].answer.status = "expired" /\ v.calls[n].answer.user = NoUser =>
        whose(server, page.calls[n].sid) = NoUser
  BY <1>3, <1>4
<1>10. Sound(v, server)
  BY <1>4, <1>5, <1>6, <1>8, <1>9, PanelTold
<1> QED BY <1>1, <1>10 DEF AccountSound

\* A page of an administrators' list is read.
LEMMA ServeRowsSound ==
    ASSUME AccountSound, NEW n \in Slots, page.calls[n].kind \in rowKinds,
           page.calls[n].answer.status = "none", server' = server,
           LET c == page.calls[n]
           IN  answered(n, withPage(reply("ok", c), found(c, server.rows[c.arg.tab]), c, {}))
    PROVE  AccountSound'
<1> DEFINE c == page.calls[n]
           rows == found(c, server.rows[c.arg.tab])
           a == reply("ok", c)
           r == withPage(a, rows, c, {})
           v == [page EXCEPT !.calls[n].answer = r]
<1>1. page' = v
  BY DEF answered
<1>2. c \in Call /\ server \in Server /\ page \in Page /\ Sound(page, server)
  BY CallKnown
<1>3. /\ PanelRead(c, server) /\ PanelDue(c, page.admin) /\ Listed(page, server)
      /\ c.kind \in rowKinds /\ c.kind \in adminKinds
  BY Zenon, <1>2 DEF Sound, Listed, PanelCalls, adminKinds
<1>4. c.arg.tab \in listTabs /\ rows = rowsFor(c.arg.filter, server.rows[c.arg.tab])
  BY Zenon, <1>3 DEF PanelRead, found, rowsFor
<1>5. rows \subseteq Matches
  <2>1. server.rows \in [listTabs -> SUBSET Matches]
    BY <1>2 DEF Server
  <2>2. server.rows[c.arg.tab] \in SUBSET Matches
    BY <1>4, <2>1
  <2> HIDE DEF rows
  <2> QED BY <1>4, <2>2 DEF rowsFor
<1>6. a \in Reply /\ a.status = "ok"
  BY <1>2, ReplyFields
<1> HIDE DEF a, rows
<1>7. r = withPage(a, rows, c, {})
  OBVIOUS
<1> HIDE DEF r
<1> DEFINE stars == {}
<1>8. r = withPage(a, rows, c, stars) /\ stars \subseteq Matches
  BY <1>7
<1> HIDE DEF stars, c
<1>9. /\ r \in Reply /\ r.status = a.status /\ r.seen = rows
      /\ \A d : d.arg = c.arg /\ d.answer = r => PageRead(d)
  BY <1>2, <1>5, <1>6, <1>8, WithPage
<1>10. /\ Told(v, page) /\ Replied(v, page, n, r) /\ v.calls[n].answer = r
       /\ v.calls[n].kind = c.kind /\ v.calls[n].arg = c.arg
  BY <1>2, <1>9, RepliedFields DEF c
<1> HIDE DEF v
<1>11. v.history = page.history /\ \A i \in Slots \ {n} : v.calls[i] = page.calls[i]
  BY <1>10 DEF Replied, Beside
<1>12. PageRead(v.calls[n])
  BY <1>9, <1>10
<1>13. PanelRead(v.calls[n], server)
  BY <1>3, <1>4, <1>9, <1>10, <1>12 DEF PanelRead
<1>14. ASSUME ~page.admin.mixed, page.app.adminOpen, waiting(v.calls[n], rowKinds),
              v.calls[n].arg.filter = page.admin.shown
       PROVE  page.admin.since \subseteq v.calls[n].answer.seen
  <2>1. PanelRows(page, server)
    BY <1>3, <1>14 DEF Listed
  <2>2. waiting(c, rowKinds)
    BY <1>10, <1>14 DEF c, waiting, Told
  <2>3. c.arg.tab = page.admin.tab
    BY <1>3, <2>2 DEF PanelDue
  <2>4. page.admin.since \subseteq rowsFor(page.admin.shown, server.rows[page.admin.tab])
    BY <1>4, <1>14, <2>1, <2>3 DEF PanelRows
  <2> QED BY <1>4, <1>9, <1>10, <1>14, <2>3, <2>4
<1>15. v.calls[n].answer.status # "expired" /\ page.calls[n].kind \in adminKinds
  BY <1>3, <1>6, <1>9, <1>10 DEF c
<1>16. Sound(v, server)
  BY <1>10, <1>11, <1>13, <1>14, <1>15, PanelTold
<1> QED BY <1>1, <1>16 DEF AccountSound

LEMMA ServeAdminSound ==
    ASSUME AccountSound, NEW n \in Slots, page.calls[n].kind \in adminKinds,
           page.calls[n].answer.status = "none", ServeAdmin(n, page.calls[n])
    PROVE  AccountSound'
<1> DEFINE c == page.calls[n]
<1>1. server' = server
  BY DEF ServeAdmin
<1>2. CASE answered(n, reply("expired", c))
  BY <1>1, <1>2, ServePlainAdmin
<1>3. CASE /\ c.kind \in rowKinds
           /\ answered(n, withPage(reply("ok", c), found(c, server.rows[c.arg.tab]), c, {}))
  BY <1>1, <1>3, ServeRowsSound
<1>4. CASE c.kind \notin rowKinds /\ answered(n, reply("ok", c))
  BY <1>1, <1>4, ServePlainAdmin
<1> QED BY <1>2, <1>3, <1>4 DEF ServeAdmin

\* What the server does.
LEMMA ServeSound ==
    ASSUME AccountSound, NEW n \in Slots, Serve(n)
    PROVE  AccountSound'
<1> DEFINE c == page.calls[n]
<1>1. c.kind # "none" /\ c.answer.status = "none"
  BY DEF Serve
<1>2. c.kind \in {"restore", "whoami", "signin", "logout", "mail", "reset", "devices", "revoke",
                  "others"} \cup historyKinds \cup adminKinds
  BY <1>1, CallKnown DEF Kinds, authKinds
<1>3. CASE c.kind \in {"restore", "whoami"}
  <2>1. ServeWho(n, c)
    BY <1>3 DEF Serve, historyKinds, adminKinds, rowKinds, inspectKinds
  <2> QED BY <1>1, <1>3, <2>1, ServeWhoSound
<1>4. CASE c.kind = "signin"
  <2>1. ServeSignIn(n, c)
    BY <1>4 DEF Serve, historyKinds, adminKinds, rowKinds, inspectKinds
  <2> QED BY <1>1, <1>4, <2>1, ServeSignInSound
<1>5. CASE c.kind = "logout"
  <2>1. ServeLogout(n, c)
    BY <1>5 DEF Serve, historyKinds, adminKinds, rowKinds, inspectKinds
  <2> QED BY <1>1, <1>5, <2>1, ServeLogoutSound
<1>6. CASE c.kind = "mail"
  <2>1. ServeMail(n, c)
    BY <1>6 DEF Serve, historyKinds, adminKinds, rowKinds, inspectKinds
  <2> QED BY <1>1, <1>6, <2>1, ServeMailSound
<1>7. CASE c.kind = "reset"
  <2>1. ServeReset(n, c)
    BY <1>7 DEF Serve, historyKinds, adminKinds, rowKinds, inspectKinds
  <2> QED BY <1>1, <1>7, <2>1, ServeResetSound
<1>8. CASE c.kind \in {"devices", "revoke", "others"}
  <2>1. ServeDevices(n, c)
    BY <1>8 DEF Serve, historyKinds, adminKinds, rowKinds, inspectKinds
  <2> QED BY <1>1, <1>8, <2>1, ServeDevicesSound
<1>9. CASE c.kind \in historyKinds
  <2>1. ServeHistory(n, c)
    BY <1>9 DEF Serve, historyKinds, adminKinds, rowKinds, inspectKinds
  <2> QED BY <1>1, <1>9, <2>1, ServeHistorySound
<1>10. CASE c.kind \in adminKinds
  <2>1. ServeAdmin(n, c)
    BY <1>10 DEF Serve, historyKinds, adminKinds, rowKinds, inspectKinds
  <2> QED BY <1>1, <1>10, <2>1, ServeAdminSound
<1> QED BY <1>2, <1>3, <1>4, <1>5, <1>6, <1>7, <1>8, <1>9, <1>10

\* An answer is lost, or the request is.
LEMMA DropSound ==
    ASSUME AccountSound, NEW n \in Slots, Drop(n)
    PROVE  AccountSound'
<1> DEFINE c == page.calls[n]
           r == [noAnswer EXCEPT !.status = "failed"]
           b == c.answer.status = "ok"
           d == [c EXCEPT !.answer = r, !.lost = b]
           v == [page EXCEPT !.calls[n].answer = r, !.calls[n].lost = b]
<1>1. /\ c.kind # "none" /\ c.answer.status # "failed" /\ server' = server
      /\ page' = IF c.kind \in {"logout", "reset"} /\ b THEN doubted(v, "lost") ELSE v
  BY DEF Drop
<1>2. /\ c \in Call /\ server \in Server /\ page \in Page /\ Sound(page, server)
      /\ c.kind \in Kinds /\ OneAtATime(page) /\ Truthful(page, server)
  BY CallKnown
<1>3. /\ r \in Reply /\ r.status = "failed" /\ r.sid = NoSid
  BY NoCallTypes DEF Reply, noAnswer
<1>4. b \in BOOLEAN /\ (b <=> c.answer.status = "ok")
  OBVIOUS
<1>5. v = [page EXCEPT !.calls[n] = d]
  OBVIOUS
<1> HIDE DEF v, b, r
<1>6. /\ d \in Call /\ d.kind = c.kind /\ d.sid = c.sid /\ d.arg = c.arg /\ d.answer = r
      /\ d.current = c.current /\ d.alive = c.alive /\ d.lost = b
  <2> HIDE DEF c
  <2> QED BY <1>2, <1>3, <1>4 DEF Call
<1> HIDE DEF d
<1>7. /\ v \in Page /\ Beside(v, page) /\ v.calls[n] = d
      /\ \A i \in Slots \ {n} : v.calls[i] = page.calls[i]
  BY <1>2, <1>5, <1>6, CallSet
<1>8. Told(v, page)
  BY <1>6, <1>7 DEF Told, Beside
<1>9. v.history = page.history /\ v.session = page.session /\ v.cookie = page.cookie
  BY <1>7 DEF Beside
<1>10. Later(server, server) /\ SessionsMade(v, server)
  BY <1>2, <1>8, SameLater, EndsLater
<1>11. AnswerTrue(v.calls[n], server)
  <2>1. 0 <= server.made
    BY <1>2, Bounds DEF Server, SidsOrNone
  <2> QED BY <1>1, <1>3, <1>6, <1>7, <2>1 DEF AnswerTrue, NoSid
<1>12. CASE c.kind \in {"logout", "reset"} /\ b
  <2> DEFINE x == doubted(v, "lost")
  <2>1. /\ x \in Page /\ Told(x, page) /\ x.history = v.history /\ x.calls = v.calls
        /\ x.session.doubt # {}
    BY <1>2, <1>7, <1>8, DoubtTold
  <2>2. page' = x
    BY <1>1, <1>12
  <2> HIDE DEF x
  <2>3. c.kind \in formKinds /\ c.kind # "whoami" /\ c.kind \in authKinds
    BY <1>12 DEF formKinds, authKinds
  <2>4. \A i \in Slots : x.calls[i].kind # "whoami"
    BY <1>2, <2>1, <2>3 DEF OneAtATime, formKinds, Told
  <2>5. Truthful(x, server)
    BY <2>1, <2>4 DEF Truthful
  <2>6. SessionsMade(x, server)
    BY <1>2, <2>1, SameLater, EndsLater
  <2>7. AnswerTrue(x.calls[n], server) /\ \A i \in Slots \ {n} : x.calls[i] = page.calls[i]
    BY <1>7, <1>11, <2>1
  <2>8. Sound(x, server)
    BY <1>2, <1>9, <1>10, <2>1, <2>3, <2>5, <2>6, <2>7, AuthServed
  <2> QED BY <1>1, <2>2, <2>8 DEF AccountSound
<1>13. ASSUME ~(c.kind \in {"logout", "reset"} /\ b)
       PROVE  AccountSound'
  <2>1. page' = v
    BY <1>1, <1>13
  <2>2. v.calls[n].answer.status = "failed"
    BY <1>3, <1>6, <1>7
  <2>3. CASE c.kind \in authKinds
    <3>1. ~ended(c)
      BY <1>4, <1>13 DEF ended
    <3>2. \A i \in Slots :
            /\ page.calls[i].kind \in {"restore", "whoami"} =>
                \/ v.calls[i].answer = page.calls[i].answer
                        /\ v.calls[i].lost = page.calls[i].lost
                \/ v.calls[i].answer.status = "failed"
            /\ ended(page.calls[i]) => ended(v.calls[i])
      BY <1>7, <2>2, <3>1
    <3>3. Truthful(v, server)
      BY <1>2, <1>8, <3>2, TruthfulBeside
    <3>4. Sound(v, server)
      BY <1>2, <1>7, <1>8, <1>9, <1>10, <1>11, <2>3, <3>3, AuthServed
    <3> QED BY <1>1, <2>1, <3>4 DEF AccountSound
  <2>4. CASE c.kind \in historyKinds
    <3>1. ShelfRead(c, server) /\ StarRead(c, server)
      BY <1>2 DEF Sound, Shelved, HistoryCalls, StarsRead
    <3> HIDE DEF c
    <3>2. ShelfRead(d, server)
      BY <1>3, <1>6, <3>1 DEF ShelfRead, served
    <3>3. StarRead(d, server)
      BY <1>3, <1>6, <3>1 DEF StarRead, served
    <3>4. d.kind = "star" /\ ~d.lost => c.answer.status # "ok" /\ ~c.lost
      BY <1>1, <1>4, <1>6, <3>1 DEF StarRead
    <3>5. ~served(v.calls[n], {"more"})
      BY <2>2 DEF served
    <3>6. Sound(v, server)
      BY <1>7, <1>8, <1>9, <2>2, <2>4, <3>2, <3>3, <3>4, <3>5, HistoryTold DEF c
    <3> QED BY <1>1, <2>1, <3>6 DEF AccountSound
  <2>5. CASE c.kind \in adminKinds
    <3>1. PanelRead(c, server)
      BY <1>2 DEF Sound, Listed, PanelCalls
    <3> HIDE DEF c
    <3>2. ~served(v.calls[n], rowKinds)
      BY <2>2 DEF served
    <3>3. PanelRead(v.calls[n], server)
      BY <1>6, <1>7, <3>1, <3>2 DEF PanelRead
    <3>4. Sound(v, server)
      BY <1>7, <1>8, <1>9, <2>2, <2>5, <3>2, <3>3, PanelTold DEF c
    <3> QED BY <1>1, <2>1, <3>4 DEF AccountSound
  <2> QED BY <1>1, <1>2, <2>3, <2>4, <2>5, KindsApart
<1> QED BY <1>12, <1>13

\* The calls that are left of those of a page.
Fewer(v, w) == \A i \in Slots : Faded(v.calls[i], w.calls[i]) \/ v.calls[i] = noCall

LEMMA FewerKnown ==
    ASSUME NEW w, NEW v, NEW sv \in Server, SessionsMade(w, sv), AnswersTrue(w, sv),
           Fewer(v, w), v.cookie <= sv.made
    PROVE  /\ SessionsMade(v, sv) /\ AnswersTrue(v, sv)
           /\ \A i \in Slots : v.calls[i].kind \notin {"none"} => Faded(v.calls[i], w.calls[i])
<1>1. 0 <= sv.made
  BY Bounds DEF Server, SidsOrNone
<1>2. /\ noCall.kind = "none" /\ noCall.sid = 0 /\ noCall.answer.status = "none"
      /\ noCall.answer.sid = NoSid
  BY NoCallTypes DEF NoSid, noAnswer
<1>3. SessionsMade(v, sv)
  BY <1>1, <1>2 DEF SessionsMade, Fewer, Faded
<1>4. AnswersTrue(v, sv)
  <2>1. ASSUME NEW i \in Slots
        PROVE  AnswerTrue(v.calls[i], sv)
    <3>1. CASE v.calls[i] = noCall
      BY <1>2, <3>1, NotAnswered
    <3>2. CASE Faded(v.calls[i], w.calls[i])
      <4> DEFINE c == w.calls[i]
                 d == v.calls[i]
      <4>1. /\ d.kind = c.kind /\ d.sid = c.sid /\ d.arg = c.arg /\ d.answer = c.answer
            /\ AnswerTrue(c, sv)
        BY <3>2 DEF Faded, AnswersTrue
      <4>2. accountOf(d) = accountOf(c)
        BY <4>1 DEF accountOf
      <4> HIDE DEF c, d
      <4>3. AnswerTrue(d, sv)
        BY <4>1, <4>2 DEF AnswerTrue
      <4> QED BY <4>3 DEF d
    <3> QED BY <3>1, <3>2 DEF Fewer
  <2> QED BY <2>1 DEF AnswersTrue
<1>5. \A i \in Slots : v.calls[i].kind \notin {"none"} => Faded(v.calls[i], w.calls[i])
  BY <1>2 DEF Fewer
<1> QED BY <1>3, <1>4, <1>5

\* A page that signs out, with no list on show.
LEMMA SignedOff ==
    ASSUME NEW w, NEW v \in Page, NEW sv, Sound(w, sv), Fewer(v, w), v.cookie <= sv.made,
           OffShelf(v), OffPanel(v), v.app.socket = noSocket,
           OneAtATime(v), Early(v), Truthful(v, sv)
    PROVE  Sound(v, sv)
<1>1. w \in Page /\ sv \in Server /\ SessionsMade(w, sv) /\ AnswersTrue(w, sv)
  BY DEF Sound, Signed
<1>2. /\ SessionsMade(v, sv) /\ AnswersTrue(v, sv)
      /\ \A i \in Slots : v.calls[i].kind \notin {"none"} => Faded(v.calls[i], w.calls[i])
  BY <1>1, FewerKnown
<1>3. \A i \in Slots : v.calls[i].kind \in historyKinds \cup adminKinds =>
            Faded(v.calls[i], w.calls[i])
  BY <1>2, KindsApart
<1>4. AtHistory(v, sv)
  BY DEF AtHistory, OffShelf
<1>5. Plays(v)
  BY DEF Plays
<1>6. Shelved(v, sv)
  <2>1. v.app.screen # "history" /\ ShelfGrown(sv, sv)
    BY DEF OffShelf, ShelfGrown
  <2> QED BY <1>1, <1>3, <2>1, ShelfAside DEF Sound
<1>7. Listed(v, sv)
  <2>1. PanelGrown(sv, sv)
    BY DEF PanelGrown
  <2> QED BY <1>1, <1>3, <2>1, PanelAside DEF Sound
<1> QED BY <1>1, <1>2, <1>4, <1>5, <1>6, <1>7 DEF Sound, Signed

\* A call whose answer has been read.
LEMMA FreedFields ==
    ASSUME AccountSound, NEW n \in Slots
    PROVE  LET x == freed(n)
           IN  /\ x \in Page /\ Beside(x, page) /\ x.calls[n] = noCall
               /\ \A i \in Slots \ {n} : x.calls[i] = page.calls[i]
               /\ Fewer(x, page)
<1> DEFINE x == freed(n)
<1>1. page \in Page /\ noCall \in Call
  BY NoCallTypes DEF AccountSound, Sound
<1>2. x = [page EXCEPT !.calls[n] = noCall]
  BY DEF freed
<1> HIDE DEF x
<1>3. /\ x \in Page /\ Beside(x, page) /\ x.calls[n] = noCall
      /\ \A i \in Slots \ {n} : x.calls[i] = page.calls[i]
  BY <1>1, <1>2, CallSet
<1>4. Fewer(x, page)
  BY <1>3, FadedSame DEF Fewer
<1> QED BY <1>3, <1>4 DEF x

\* The cookie is set, and the page asks who that is.
LEMMA SignedInSound ==
    ASSUME AccountSound, NEW n \in Slots, page.calls[n].kind = "signin",
           page.calls[n].answer.status = "ok", page' = onSignedIn(page, n), server' = server
    PROVE  AccountSound'
<1> DEFINE c == page.calls[n]
           sid == c.answer.sid
           d == [c EXCEPT !.kind = "whoami", !.sid = sid, !.answer = noAnswer]
           x == [page EXCEPT !.calls[n] = d]
           y == [x EXCEPT !.cookie = sid]
           z == [y.session EXCEPT !.acted = TRUE]
           v == [y EXCEPT !.session = z]
<1>1. /\ c \in Call /\ server \in Server /\ page \in Page /\ Sound(page, server)
      /\ SessionsMade(page, server) /\ AnswersTrue(page, server) /\ OneAtATime(page)
      /\ AtHistory(page, server) /\ c.answer \in Reply
  BY CallKnown
<1>2. c.kind = "signin" /\ c.kind \in formKinds
  BY DEF formKinds
<1>3. sid \in SidsOrNone /\ sid <= server.made
  <2>1. AnswerTrue(c, server)
    BY <1>1 DEF AnswersTrue
  <2> QED BY <1>1, <1>2, <2>1 DEF AnswerTrue, Reply
<1>4. page' = v
  <2>1. v = [page EXCEPT !.cookie = sid, !.session.acted = TRUE, !.calls[n] = d]
    BY <1>1 DEF Page
  <2> QED BY <2>1 DEF onSignedIn
<1> HIDE DEF sid
<1>5. /\ d \in Call /\ d.kind = "whoami" /\ d.sid = sid /\ d.answer = noAnswer
      /\ d.arg = c.arg
  BY <1>1, <1>3, NoCallTypes DEF Call, Kinds, authKinds
<1> HIDE DEF d, c
<1>6. /\ x \in Page /\ Beside(x, page) /\ x.calls[n] = d
      /\ \A i \in Slots \ {n} : x.calls[i] = page.calls[i]
  BY <1>1, <1>5, CallSet
<1> HIDE DEF x
<1>7. /\ y \in Page /\ y.app = page.app /\ y.session = page.session
      /\ y.history = page.history /\ y.admin = page.admin /\ y.calls = x.calls
      /\ y.cookie = sid
  BY <1>3, <1>6, WithCookie DEF Beside
<1> HIDE DEF y
<1>8. /\ z \in Session /\ z.account = page.session.account /\ z.doubt = page.session.doubt
      /\ z.acted /\ z.busy = page.session.busy /\ z.mode = page.session.mode
  BY <1>1, <1>7, PageParts DEF Session
<1> HIDE DEF z
<1>9. /\ v \in Page /\ v.app = page.app /\ v.session = z
      /\ v.history = page.history /\ v.admin = page.admin /\ v.cookie = sid
      /\ v.calls[n] = d /\ \A i \in Slots \ {n} : v.calls[i] = page.calls[i]
  BY <1>6, <1>7, <1>8, WithSession
<1> HIDE DEF v
<1>10. \A i \in Slots \ {n} : page.calls[i].kind \notin formKinds
  BY <1>1, <1>2 DEF OneAtATime, c
<1>11. page.session.busy
  BY <1>1, <1>2 DEF OneAtATime, c
<1>12. page.app.screen # "history" /\ OffShelf(page)
  BY <1>1, <1>2, ListsOff DEF AtHistory, c
<1>13. SessionsMade(v, server)
  BY <1>1, <1>3, <1>5, <1>9 DEF SessionsMade
<1>14. AnswersTrue(v, server)
  <2>1. AnswerTrue(d, server)
    BY <1>5, NoCallTypes DEF AnswerTrue
  <2> QED BY <1>1, <1>9, <2>1 DEF AnswersTrue
<1>15. OneAtATime(v)
  <2>1. \A i, j \in Slots :
            v.calls[i].kind \in formKinds /\ v.calls[j].kind \in formKinds => i = j
    BY <1>9, <1>10
  <2>2. \A i, j \in Slots :
            v.calls[i].kind = "restore" /\ v.calls[j].kind = "restore" => i = j
    BY <1>1, <1>5, <1>9 DEF OneAtATime
  <2>3. ASSUME NEW i \in Slots
        PROVE  LET b == v.calls[i]
               IN  /\ b.kind \in formKinds => v.session.busy /\ b.sid = v.cookie
                   /\ b.kind = "whoami" => v.session.acted
                   /\ b.kind = "signin" => b.arg.user \in Users
    <3>1. CASE i = n
      BY <1>5, <1>8, <1>9, <1>11, <3>1
    <3>2. CASE i # n
      <4>1. v.calls[i].kind \notin formKinds
        BY <1>9, <1>10, <3>2
      <4> QED BY <4>1 DEF formKinds
    <3> QED BY <3>1, <3>2
  <2> QED BY <2>1, <2>2, <2>3 DEF OneAtATime
<1>16. Early(v)
  BY <1>8, <1>9 DEF Early
<1>17. Truthful(v, server)
  <2>1. \A i \in Slots \ {n} : v.calls[i].kind # "whoami"
    BY <1>9, <1>10 DEF formKinds
  <2>2. ~knows(d)
    BY <1>5, NoCallTypes DEF knows
  <2> QED BY <1>5, <1>9, <2>1, <2>2 DEF Truthful
<1>18. OffShelf(v) /\ AtHistory(v, server)
  <2>1. OffShelf(v)
    BY <1>5, <1>9, <1>12 DEF OffShelf, historyKinds
  <2> QED BY <2>1 DEF OffShelf, AtHistory
<1>19. Plays(v)
  <2>1. Plays(page)
    BY <1>1 DEF Sound, Signed
  <2>2. page.app.socket = noSocket \/ page.app.overtaken
    BY <1>2, <2>1 DEF Plays, authKinds, c
  <2> QED BY <1>9, <2>1, <2>2 DEF Plays
<1>20. \A i \in Slots : v.calls[i].kind \in historyKinds \cup adminKinds =>
            Faded(v.calls[i], page.calls[i])
  BY <1>5, <1>9, FadedSame DEF historyKinds, adminKinds, rowKinds, inspectKinds
<1>21. Shelved(v, server)
  BY <1>1, <1>9, <1>18, <1>20, ShelfAside DEF Sound, ShelfGrown, OffShelf
<1>22. Listed(v, server)
  <2>1. SamePanel(v, page)
    BY <1>2, <1>5, <1>9 DEF SamePanel, adminKinds, rowKinds, inspectKinds, formKinds, c
  <2> QED BY <1>1, <1>9, <1>20, <2>1, PanelAside DEF Sound, PanelGrown
<1>23. Sound(v, server)
  BY <1>1, <1>9, <1>13, <1>14, <1>15, <1>16, <1>17, <1>18, <1>19, <1>21, <1>22 DEF Sound, Signed
<1> QED BY <1>4, <1>23 DEF AccountSound

LEMMA ReleasedFields ==
    ASSUME NEW w \in Page
    PROVE  LET v == released(w)
           IN  /\ v \in Page /\ v.app = w.app /\ v.history = w.history /\ v.admin = w.admin
               /\ v.calls = w.calls /\ v.cookie = w.cookie
               /\ v.session.account = w.session.account /\ v.session.doubt = w.session.doubt
               /\ v.session.acted = w.session.acted /\ ~v.session.busy
               /\ v.session.mode = w.session.mode
<1> DEFINE x == [w.session EXCEPT !.busy = FALSE]
           v == released(w)
<1>1. /\ x \in Session /\ x.account = w.session.account /\ x.doubt = w.session.doubt
      /\ x.acted = w.session.acted /\ ~x.busy /\ x.mode = w.session.mode
  BY PageParts DEF Session
<1>2. v = [w EXCEPT !.session = x]
  BY DEF released
<1> HIDE DEF x, v
<1>3. /\ v \in Page /\ v.app = w.app /\ v.session = x /\ v.history = w.history
      /\ v.admin = w.admin /\ v.calls = w.calls /\ v.cookie = w.cookie
  BY <1>1, <1>2, WithSession
<1> QED BY <1>1, <1>3 DEF v

\* What a refusal does to the session.
LEMMA FailFields ==
    ASSUME NEW w \in Page, NEW c
    PROVE  LET v == fail(w, c)
           IN  IF c.answer.status # "expired" THEN v = w
               ELSE /\ v \in Page /\ v.app = w.app /\ v.history = w.history
                    /\ v.admin = w.admin /\ v.calls = w.calls /\ v.cookie = w.cookie
                    /\ v.session.account = NoAccount /\ v.session.mode = "login"
                    /\ v.session.acted = w.session.acted /\ v.session.busy = w.session.busy
                    /\ v.session.doubt = IF c.sid = w.cookie
                                         THEN w.session.doubt \ {"revoked", "lost"}
                                         ELSE w.session.doubt \cup {"late"}
<1> DEFINE x == IF c.sid = w.cookie THEN settledDoubt(w) ELSE doubted(w, "late")
           v == fail(w, c)
<1>1. CASE c.answer.status # "expired"
  BY <1>1 DEF fail
<1>2. CASE c.answer.status = "expired"
  <2>1. v = signedOut(x)
    BY <1>2 DEF fail
  <2>2. /\ x \in Page /\ x.app = w.app /\ x.history = w.history /\ x.admin = w.admin
        /\ x.calls = w.calls /\ x.cookie = w.cookie
        /\ x.session.acted = w.session.acted /\ x.session.busy = w.session.busy
        /\ x.session.doubt = IF c.sid = w.cookie THEN w.session.doubt \ {"revoked", "lost"}
                             ELSE w.session.doubt \cup {"late"}
    BY SignedOutFields
  <2> HIDE DEF x
  <2>3. LET y == signedOut(x)
        IN  /\ y \in Page /\ y.app = x.app /\ y.history = x.history /\ y.admin = x.admin
            /\ y.calls = x.calls /\ y.cookie = x.cookie
            /\ y.session.account = NoAccount /\ y.session.doubt = x.session.doubt
            /\ y.session.acted = x.session.acted /\ y.session.busy = x.session.busy
            /\ y.session.mode = "login"
    BY <2>2, SignedOutFields
  <2> HIDE DEF v
  <2>4. /\ v \in Page /\ v.app = w.app /\ v.history = w.history
        /\ v.admin = w.admin /\ v.calls = w.calls /\ v.cookie = w.cookie
        /\ v.session.account = NoAccount /\ v.session.mode = "login"
        /\ v.session.acted = w.session.acted /\ v.session.busy = w.session.busy
        /\ v.session.doubt = IF c.sid = w.cookie
                             THEN w.session.doubt \ {"revoked", "lost"}
                             ELSE w.session.doubt \cup {"late"}
    BY <2>1, <2>2, <2>3
  <2> QED BY <1>2, <2>4 DEF v
<1> QED BY <1>1, <1>2

LEMMA LateFields ==
    ASSUME NEW w \in Page, NEW c
    PROVE  LET v == lateFor(w, c)
           IN  /\ v \in Page /\ v.session = w.session /\ v.history = w.history
               /\ v.admin = w.admin /\ v.calls = w.calls /\ v.cookie = w.cookie
               /\ v.app.screen = w.app.screen /\ v.app.returnTo = w.app.returnTo
               /\ v.app.adminOpen = w.app.adminOpen /\ v.app.socket = w.app.socket
               /\ w.app.overtaken => v.app.overtaken
               /\ c.answer.status = "expired" /\ w.app.socket # noSocket => v.app.overtaken
               /\ c.answer.status # "expired" => v = w
<1> DEFINE late == c.answer.status = "expired" /\ w.app.socket # noSocket
           x == [w.app EXCEPT !.overtaken = w.app.overtaken \/ late]
           v == lateFor(w, c)
<1>1. late \in BOOLEAN
  OBVIOUS
<1>2. v = [w EXCEPT !.app = x]
  BY DEF lateFor
<1>3. ASSUME c.answer.status # "expired" PROVE v = w
  <2>1. w.app \in App /\ w.app.overtaken \in BOOLEAN
    BY PageParts DEF App
  <2>2. x = w.app
    BY <1>3, <2>1 DEF App
  <2> HIDE DEF v, x
  <2> QED BY <1>2, <2>2 DEF Page
<1>4. late <=> c.answer.status = "expired" /\ w.app.socket # noSocket
  OBVIOUS
<1> HIDE DEF late
<1>5. /\ x \in App /\ x.screen = w.app.screen /\ x.returnTo = w.app.returnTo
      /\ x.adminOpen = w.app.adminOpen /\ x.socket = w.app.socket
      /\ x.overtaken = (w.app.overtaken \/ late)
  BY <1>1, PageParts DEF App
<1> HIDE DEF x, v
<1>6. /\ v \in Page /\ v.app = x /\ v.session = w.session /\ v.history = w.history
      /\ v.admin = w.admin /\ v.calls = w.calls /\ v.cookie = w.cookie
  BY <1>2, <1>5, WithApp
<1> QED BY <1>3, <1>4, <1>5, <1>6 DEF v

\* The page learns that its session has ended, or hears it of another.
LEMMA ExpiredSound ==
    ASSUME AccountSound, NEW n \in Slots,
           page.calls[n].kind \in {"mail", "devices", "revoke", "others"},
           page.calls[n].answer.status = "expired", server' = server,
           page' = LET c == page.calls[n]
                       x == fail(freed(n), c)
                   IN  lateFor(IF c.kind = "devices" THEN x ELSE released(x), c)
    PROVE  AccountSound'
<1> DEFINE c == page.calls[n]
           x == freed(n)
           y == fail(x, c)
           z == IF c.kind = "devices" THEN y ELSE released(y)
           v == lateFor(z, c)
<1>1. /\ c \in Call /\ server \in Server /\ page \in Page /\ Sound(page, server)
      /\ AnswersTrue(page, server) /\ OneAtATime(page) /\ Early(page)
      /\ Truthful(page, server) /\ Plays(page)
  BY CallKnown DEF Sound, Signed
<1>2. page' = v
  OBVIOUS
<1>3. /\ c.answer.status = "expired" /\ c.kind \in {"mail", "devices", "revoke", "others"}
      /\ c.kind \in authKinds /\ ~ended(c)
      /\ c.kind = "mail" => c.arg.tab = "settings"
      /\ whose(server, c.sid) = NoUser
  <2>1. AnswerTrue(c, server)
    BY <1>1 DEF AnswersTrue
  <2> QED BY <2>1, KindsApart DEF AnswerTrue, authKinds, adminKinds, rowKinds, inspectKinds, ended
<1>4. page.session.acted \/ \A i \in Slots : page.calls[i].kind # "restore"
  BY <1>1, <1>3 DEF Early
<1>5. c.kind # "devices" => \A i \in Slots \ {n} : page.calls[i].kind \notin formKinds
  BY <1>1, <1>3 DEF OneAtATime, formKinds
<1> HIDE DEF c
<1>6. /\ x \in Page /\ Beside(x, page) /\ x.calls[n] = noCall
      /\ \A i \in Slots \ {n} : x.calls[i] = page.calls[i]
  BY FreedFields
<1> HIDE DEF x
<1>7. /\ y \in Page /\ y.app = x.app /\ y.history = x.history
      /\ y.admin = x.admin /\ y.calls = x.calls /\ y.cookie = x.cookie
      /\ y.session.account = NoAccount /\ y.session.mode = "login"
      /\ y.session.acted = x.session.acted /\ y.session.busy = x.session.busy
      /\ y.session.doubt = IF c.sid = x.cookie THEN x.session.doubt \ {"revoked", "lost"}
                           ELSE x.session.doubt \cup {"late"}
  BY <1>3, <1>6, FailFields
<1> HIDE DEF y
<1>8. LET q == released(y)
      IN  /\ q \in Page /\ q.app = y.app /\ q.history = y.history /\ q.admin = y.admin
          /\ q.calls = y.calls /\ q.cookie = y.cookie
          /\ q.session.account = y.session.account /\ q.session.doubt = y.session.doubt
          /\ q.session.acted = y.session.acted /\ q.session.mode = y.session.mode
  BY <1>7, ReleasedFields
<1>9. /\ z \in Page /\ z.app = y.app /\ z.history = y.history /\ z.admin = y.admin
      /\ z.calls = y.calls /\ z.cookie = y.cookie
      /\ z.session.account = y.session.account /\ z.session.doubt = y.session.doubt
      /\ z.session.acted = y.session.acted /\ z.session.mode = y.session.mode
      /\ c.kind = "devices" => z.session.busy = y.session.busy
  BY <1>7, <1>8
<1> HIDE DEF z
<1>10. /\ v \in Page /\ v.session = z.session /\ v.history = z.history
       /\ v.admin = z.admin /\ v.calls = z.calls /\ v.cookie = z.cookie
       /\ v.app.screen = z.app.screen /\ v.app.returnTo = z.app.returnTo
       /\ v.app.adminOpen = z.app.adminOpen /\ v.app.socket = z.app.socket
       /\ z.app.socket # noSocket => v.app.overtaken
  BY <1>3, <1>9, LateFields
<1> HIDE DEF v
<1>11. /\ v.history = page.history /\ v.admin = page.admin /\ v.cookie = page.cookie
       /\ v.app.screen = page.app.screen /\ v.app.returnTo = page.app.returnTo
       /\ v.app.adminOpen = page.app.adminOpen /\ v.app.socket = page.app.socket
       /\ page.app.socket # noSocket => v.app.overtaken
       /\ v.session.account = NoAccount /\ v.session.mode = "login"
       /\ v.session.acted = page.session.acted
       /\ v.session.doubt = IF c.sid = page.cookie THEN page.session.doubt \ {"revoked", "lost"}
                            ELSE page.session.doubt \cup {"late"}
       /\ c.kind = "devices" => v.session.busy = page.session.busy
       /\ v.calls[n] = noCall /\ \A i \in Slots \ {n} : v.calls[i] = page.calls[i]
  BY <1>6, <1>7, <1>9, <1>10 DEF Beside
<1>12. noCall.kind = "none"
  BY NoCallTypes
<1>13. OneAtATime(v)
  BY <1>1, <1>5, <1>11, <1>12 DEF OneAtATime, formKinds
<1>14. Early(v)
  BY <1>4, <1>11, <1>12 DEF Early
<1>15. Truthful(v, server)
  <2>1. \A a : Says(a, v, server) <=> Says(a, page, server)
    BY <1>11 DEF Says
  <2>2. v.session.doubt = {} => Says(NoAccount, v, server)
    BY <1>3, <1>11 DEF Says, NoAccount
  <2>3. \A i \in Slots : v.calls[i].kind = "whoami" => v.calls[i] = page.calls[i]
    BY <1>11, <1>12
  <2>4. v.session.acted \/ \A i \in Slots : v.calls[i].kind # "restore"
    BY <1>4, <1>11, <1>12
  <2> QED BY <1>1, <1>11, <2>1, <2>2, <2>3, <2>4 DEF Truthful
<1>16. Plays(v)
  BY <1>1, <1>11 DEF Plays
<1>17. SessionStep(v, page)
  BY <1>3, <1>10, <1>11 DEF SessionStep, c
<1>18. Sound(v, server)
  BY <1>1, <1>13, <1>14, <1>15, <1>16, <1>17, SessionSound
<1> QED BY <1>2, <1>18 DEF AccountSound

\* An answer that says nothing of who the page is.
LEMMA QuietSound ==
    ASSUME AccountSound, NEW n \in Slots, NEW v \in Page,
           page.calls[n].kind \in authKinds \ {"restore", "whoami"}, ~ended(page.calls[n]),
           v.app = page.app, v.history = page.history, v.admin = page.admin,
           v.cookie = page.cookie, v.session.account = page.session.account,
           v.session.doubt = page.session.doubt, v.session.acted = page.session.acted,
           v.session.mode = "settings" => page.session.mode = "settings",
           page.calls[n].kind \notin formKinds => v.session.busy = page.session.busy,
           v.calls[n] = noCall, \A i \in Slots \ {n} : v.calls[i] = page.calls[i]
    PROVE  Sound(v, server)
<1>1. /\ server \in Server /\ page \in Page /\ Sound(page, server) /\ OneAtATime(page)
      /\ Early(page) /\ Truthful(page, server) /\ Plays(page)
  BY DEF AccountSound, Sound, Signed
<1>2. noCall.kind = "none" /\ ~ended(noCall)
  BY NoCallTypes DEF ended
<1>3. OneAtATime(v)
  BY <1>1, <1>2 DEF OneAtATime, formKinds
<1>4. Early(v)
  BY <1>1, <1>2 DEF Early
<1>5. Truthful(v, server)
  <2>1. \A a : Says(a, v, server) <=> Says(a, page, server)
    BY DEF Says
  <2>2. \A i \in Slots : v.calls[i].kind \in {"restore", "whoami"} => v.calls[i] = page.calls[i]
    BY <1>2
  <2>3. \A i \in Slots : page.calls[i].kind \in {"restore", "whoami"} => v.calls[i] = page.calls[i]
    OBVIOUS
  <2>4. (\A i \in Slots : ~ended(v.calls[i])) <=> (\A i \in Slots : ~ended(page.calls[i]))
    BY <1>2
  <2> QED BY <1>1, <2>1, <2>2, <2>3, <2>4 DEF Truthful
<1>6. Plays(v)
  BY <1>1, <1>2 DEF Plays, authKinds
<1>7. SessionStep(v, page)
  BY DEF SessionStep
<1> QED BY <1>1, <1>3, <1>4, <1>5, <1>6, <1>7, SessionSound

\* The first lookup is answered, or fails.
LEMMA RestoredSound ==
    ASSUME AccountSound, NEW n \in Slots, page.calls[n].kind = "restore"
    PROVE  Sound(onRestored(freed(n), page.calls[n]), server)
<1> DEFINE c == page.calls[n]
           ok == c.answer.status = "ok"
           a == accountOf(c)
           x == freed(n)
           odd == x.session.acted \/ ~ok
           y == IF odd THEN doubted(x, "restore") ELSE x
           z == [y.session EXCEPT !.account = IF ok THEN a ELSE y.session.account,
                                  !.hydrated = TRUE]
           v == [y EXCEPT !.session = z]
<1>1. /\ c \in Call /\ server \in Server /\ page \in Page /\ Sound(page, server)
      /\ AnswersTrue(page, server) /\ OneAtATime(page) /\ Early(page)
      /\ Truthful(page, server) /\ Plays(page)
  BY CallKnown DEF Sound, Signed
<1>2. c.kind = "restore" /\ c.kind \notin formKinds /\ c.kind \in authKinds /\ ~ended(c)
  BY DEF formKinds, authKinds, ended
<1>3. a \in Known
  BY <1>1 DEF accountOf, Call, Reply, Known
<1>4. /\ x \in Page /\ Beside(x, page) /\ x.calls[n] = noCall
      /\ \A i \in Slots \ {n} : x.calls[i] = page.calls[i]
  BY FreedFields
<1>5. onRestored(freed(n), page.calls[n]) = v
  <2>1. y \in Page /\ y.session \in Session
    <3>1. doubted(x, "restore") \in Page
      BY <1>4, SignedOutFields
    <3> QED BY <1>4, <3>1, PageParts
  <2> DEFINE kept == IF ok THEN storeAccount(y, a) ELSE y
  <2>2. onRestored(x, c) = [kept EXCEPT !.session.hydrated = TRUE]
    BY Zenon DEF onRestored
  <2>3. CASE ok
    <3> HIDE DEF y, a
    <3>1. [kept EXCEPT !.session.hydrated = TRUE] = v
      BY <2>1, <2>3 DEF storeAccount, Page, Session
    <3> QED BY <2>2, <3>1
  <2>4. CASE ~ok
    <3> HIDE DEF y, a
    <3>1. [kept EXCEPT !.session.hydrated = TRUE] = v
      BY <2>1, <2>4 DEF Page, Session
    <3> QED BY <2>2, <3>1
  <2> QED BY <2>3, <2>4
<1>6. /\ \A i \in Slots \ {n} : page.calls[i].kind # "restore"
      /\ ~page.session.acted => c.sid = page.cookie /\ page.session.account = NoAccount
      /\ AnswerTrue(c, server)
  BY <1>1 DEF OneAtATime, Early, AnswersTrue
<1>7. ok => \/ a = NoAccount
            \/ c.sid # NoSid /\ a.sid = c.sid /\ a.user = server.owner[c.sid]
  BY <1>2, <1>6 DEF AnswerTrue, accountOf
<1>8. (ok /\ ~page.session.acted) => \/ a = NoAccount
                                     \/ /\ page.cookie # NoSid /\ a.sid = page.cookie
                                        /\ a.user = server.owner[page.cookie]
  BY <1>6, <1>7
<1>9. /\ \A i \in Slots : page.calls[i].kind # "whoami"
      /\ page.session.doubt = {} /\ ok /\ ~page.session.acted
      /\ \A i \in Slots : ~ended(page.calls[i])
      => Says(a, page, server)
  BY <1>1, <1>2 DEF Truthful
<1> HIDE DEF c, ok, a
<1> DEFINE x1 == x.session
<1>10. odd \in BOOLEAN /\ (odd <=> (page.session.acted \/ ~ok))
  BY <1>4 DEF Beside
<1> HIDE DEF odd
<1>11. /\ y \in Page /\ y.app = x.app /\ y.history = x.history /\ y.admin = x.admin
       /\ y.calls = x.calls /\ y.cookie = x.cookie
       /\ y.session.account = x.session.account
       /\ x.session.doubt \subseteq y.session.doubt /\ (odd => y.session.doubt # {})
       /\ y.session.acted = x.session.acted /\ y.session.busy = x.session.busy
       /\ y.session.mode = x.session.mode
  BY <1>4, SignedOutFields
<1> HIDE DEF x, y
<1>12. /\ z \in Session /\ z.account = (IF ok THEN a ELSE page.session.account)
       /\ z.doubt = y.session.doubt /\ z.acted = y.session.acted /\ z.busy = y.session.busy
       /\ z.mode = y.session.mode
  <2> DEFINE b == IF ok THEN a ELSE y.session.account
  <2>1. y.session \in Session /\ b \in Known /\ y.session.account = page.session.account
    BY <1>3, <1>4, <1>11, PageParts DEF Session, Beside
  <2>2. z = [y.session EXCEPT !.account = b, !.hydrated = TRUE]
    OBVIOUS
  <2>3. b = IF ok THEN a ELSE page.session.account
    BY <2>1
  <2> HIDE DEF b, z
  <2> QED BY <2>1, <2>2, <2>3 DEF Session
<1> HIDE DEF z
<1>13. /\ v \in Page /\ v.app = page.app /\ v.session = z /\ v.history = page.history
       /\ v.admin = page.admin /\ v.cookie = page.cookie
       /\ v.calls[n] = noCall /\ \A i \in Slots \ {n} : v.calls[i] = page.calls[i]
       /\ z.doubt = {} => ok /\ page.session.doubt = {} /\ ~page.session.acted
       /\ z.acted = page.session.acted /\ z.busy = page.session.busy
       /\ z.mode = page.session.mode
  BY <1>4, <1>10, <1>11, <1>12, WithSession DEF Beside
<1> HIDE DEF v
<1>14. noCall.kind = "none" /\ ~ended(noCall)
  BY NoCallTypes DEF ended
<1>15. \A i \in Slots : v.calls[i].kind # "restore"
  BY <1>6, <1>13, <1>14
<1>16. OneAtATime(v)
  BY <1>1, <1>13, <1>14, <1>15 DEF OneAtATime, formKinds
<1>17. Early(v)
  BY <1>15 DEF Early
<1>18. Truthful(v, server)
  <2>1. \A b : Says(b, v, server) <=> Says(b, page, server)
    BY <1>13 DEF Says
  <2>2. \A i \in Slots : v.calls[i].kind = "whoami" => v.calls[i] = page.calls[i]
    BY <1>13, <1>14
  <2>3. ASSUME \A i \in Slots : v.calls[i].kind # "whoami", z.doubt = {}
        PROVE  /\ v.session.account # NoAccount =>
                    /\ v.session.account.sid = v.cookie /\ v.cookie # NoSid
                    /\ v.session.account.user = server.owner[v.cookie]
               /\ (\A i \in Slots : ~ended(v.calls[i])) => Says(v.session.account, v, server)
    <3>1. v.session.account = a /\ ok /\ page.session.doubt = {} /\ ~page.session.acted
      BY <1>12, <1>13, <2>3
    <3>2. \A i \in Slots : page.calls[i].kind # "whoami"
      BY <1>2, <1>13, <2>3 DEF c
    <3>3. (\A i \in Slots : ~ended(v.calls[i])) => \A i \in Slots : ~ended(page.calls[i])
      BY <1>2, <1>13 DEF c
    <3> QED BY <1>8, <1>9, <1>13, <2>1, <3>1, <3>2, <3>3
  <2> QED BY <1>1, <1>13, <1>15, <2>1, <2>2, <2>3 DEF Truthful
<1>19. Plays(v)
  BY <1>1, <1>2, <1>13, <1>14 DEF Plays, authKinds, c
<1>20. SessionStep(v, page)
  BY <1>2, <1>13 DEF SessionStep, c
<1>21. Sound(v, server)
  BY <1>1, <1>16, <1>17, <1>18, <1>19, <1>20, SessionSound
<1> QED BY <1>5, <1>21

\* The page learns who has signed in, or that nobody has.
LEMMA WhoamiSound ==
    ASSUME AccountSound, NEW n \in Slots, page.calls[n].kind = "whoami",
           page.calls[n].answer.status # "none", server' = server,
           page' = LET c == page.calls[n]
                       x == onWhoami(freed(n), c)
                   IN  lateFor(IF knows(c) THEN setScreen(x, "mode-select") ELSE x, c)
    PROVE  AccountSound'
<1> DEFINE c == page.calls[n]
           a == accountOf(c)
           x == freed(n)
           to == loggedIn(x, a)
           y == IF knows(c) THEN IF c.lost THEN doubted(to, "revoked") ELSE to
                ELSE doubted(x, "half")
           v == released(y)
<1>1. /\ c \in Call /\ server \in Server /\ page \in Page /\ Sound(page, server)
      /\ SessionsMade(page, server) /\ AnswersTrue(page, server) /\ OneAtATime(page)
      /\ Early(page) /\ Truthful(page, server) /\ AtHistory(page, server) /\ Plays(page)
  BY CallKnown DEF Sound, Signed
<1>2. /\ c.kind = "whoami" /\ c.kind \in formKinds /\ c.kind \in authKinds /\ ~ended(c)
      /\ c.answer.status # "expired"
  <2>1. AnswerTrue(c, server)
    BY <1>1 DEF AnswersTrue
  <2> QED BY <2>1 DEF formKinds, authKinds, historyKinds, adminKinds, rowKinds, inspectKinds,
                      ended, AnswerTrue
<1>3. a \in Known /\ a.user = c.answer.user
  BY <1>1 DEF accountOf, Call, Reply, Known
<1>4. knows(c) /\ ~c.lost =>
        /\ Says(a, page, server) /\ a # NoAccount /\ a.sid = page.cookie
        /\ page.cookie # NoSid /\ a.user = server.owner[page.cookie]
  <2> SUFFICES ASSUME knows(c), ~c.lost
               PROVE  /\ Says(a, page, server) /\ a # NoAccount /\ a.sid = page.cookie
                      /\ page.cookie # NoSid /\ a.user = server.owner[page.cookie]
    OBVIOUS
  <2>1. Says(a, page, server)
    BY <1>1, <1>2 DEF Truthful
  <2>2. a.user # NoUser /\ a # NoAccount
    BY <1>3 DEF knows, NoAccount
  <2>3. page.cookie \in server.valid /\ a.user = server.owner[page.cookie]
    BY <2>1, <2>2 DEF Says, whose
  <2>4. page.cookie # NoSid
    BY <1>1, <2>3 DEF Server, Sids, NoSid
  <2> QED BY <2>1, <2>2, <2>3, <2>4 DEF Says
<1>5. /\ \A i \in Slots \ {n} : page.calls[i].kind \notin formKinds
      /\ page.session.acted /\ page.app.screen # "history"
  BY <1>1, <1>2 DEF OneAtATime, AtHistory
<1>6. /\ x \in Page /\ Beside(x, page) /\ x.calls[n] = noCall
      /\ \A i \in Slots \ {n} : x.calls[i] = page.calls[i]
  BY FreedFields
<1>7. onWhoami(x, c) = v
  <2>1. fail(x, c) = x
    BY <1>2, <1>6, FailFields
  <2> QED BY <2>1 DEF onWhoami
<1>8. /\ to \in Page /\ to.app = x.app /\ to.history = x.history /\ to.admin = x.admin
      /\ to.calls = x.calls /\ to.cookie = x.cookie /\ to.session.account = a
      /\ to.session.doubt = {} /\ to.session.acted = x.session.acted
      /\ to.session.mode = x.session.mode
  <2> DEFINE z == [x.session EXCEPT !.account = a, !.doubt = {}]
  <2>1. to = [x EXCEPT !.session = z]
    BY DEF loggedIn, storeAccount
  <2> HIDE DEF x, a, to
  <2>2. /\ z \in Session /\ z.account = a /\ z.doubt = {} /\ z.acted = x.session.acted
        /\ z.mode = x.session.mode
    <3>1. x.session \in Session
      BY <1>6, PageParts
    <3> QED BY <1>3, <3>1 DEF Session
  <2> HIDE DEF z
  <2> QED BY <1>6, <2>1, <2>2, WithSession
<1> HIDE DEF to
<1>9. /\ LET q == doubted(to, "revoked")
         IN  /\ q \in Page /\ q.app = to.app /\ q.history = to.history /\ q.admin = to.admin
             /\ q.calls = to.calls /\ q.cookie = to.cookie
             /\ q.session.account = to.session.account
             /\ q.session.doubt = to.session.doubt \cup {"revoked"}
             /\ q.session.acted = to.session.acted /\ q.session.mode = to.session.mode
      /\ LET q == doubted(x, "half")
         IN  /\ q \in Page /\ q.app = x.app /\ q.history = x.history /\ q.admin = x.admin
             /\ q.calls = x.calls /\ q.cookie = x.cookie
             /\ q.session.doubt = x.session.doubt \cup {"half"}
             /\ q.session.acted = x.session.acted /\ q.session.mode = x.session.mode
  BY <1>6, <1>8, SignedOutFields
<1> HIDE DEF x, a
<1>10. /\ y \in Page /\ y.app = page.app /\ y.history = page.history /\ y.admin = page.admin
       /\ y.calls[n] = noCall /\ \A i \in Slots \ {n} : y.calls[i] = page.calls[i]
       /\ y.cookie = page.cookie /\ y.session.acted
       /\ knows(c) => y.session.account = a
       /\ y.session.doubt = {} => knows(c) /\ ~c.lost
  <2>1. CASE knows(c) /\ c.lost
    <3>1. y = doubted(to, "revoked")
      BY <2>1
    <3> HIDE DEF y
    <3>2. "revoked" \in y.session.doubt /\ y.session.account = a /\ y.session.acted
      BY <1>5, <1>6, <1>8, <1>9, <3>1 DEF Beside
    <3>3. /\ y \in Page /\ y.app = page.app /\ y.history = page.history /\ y.admin = page.admin
          /\ y.calls = x.calls /\ y.cookie = page.cookie
      BY <1>6, <1>8, <1>9, <3>1 DEF Beside
    <3>4. y.session.doubt # {}
      BY <3>2
    <3> HIDE DEF c
    <3> QED BY <1>6, <3>2, <3>3, <3>4
  <2>2. CASE knows(c) /\ ~c.lost
    <3>1. y = to
      BY <2>2
    <3> HIDE DEF y
    <3> QED BY <1>5, <1>6, <1>8, <1>9, <2>2, <3>1 DEF Beside
  <2>3. CASE ~knows(c)
    <3>1. y = doubted(x, "half")
      BY <2>3
    <3> HIDE DEF y
    <3> QED BY <1>5, <1>6, <1>8, <1>9, <2>3, <3>1 DEF Beside
  <2> QED BY <2>1, <2>2, <2>3
<1> HIDE DEF y
<1>11. /\ v \in Page /\ v.app = y.app /\ v.history = y.history /\ v.admin = y.admin
       /\ v.calls = y.calls /\ v.cookie = y.cookie
       /\ v.session.account = y.session.account /\ v.session.doubt = y.session.doubt
       /\ v.session.acted = y.session.acted
  BY <1>10, ReleasedFields
<1> HIDE DEF v
<1>12. noCall.kind = "none" /\ ~ended(noCall)
  BY NoCallTypes DEF ended
<1>13. \A i \in Slots : v.calls[i].kind \notin formKinds
  BY <1>5, <1>10, <1>11, <1>12 DEF formKinds
<1>14. OneAtATime(v)
  BY <1>1, <1>10, <1>11, <1>12, <1>13 DEF OneAtATime, formKinds
<1>15. Early(v)
  BY <1>10, <1>11 DEF Early
<1>16. Truthful(v, server)
  <2>1. \A b : Says(b, v, server) <=> Says(b, page, server)
    BY <1>10, <1>11 DEF Says
  <2>2. \A i \in Slots : v.calls[i].kind # "whoami"
    BY <1>13 DEF formKinds
  <2> QED BY <1>4, <1>10, <1>11, <2>1, <2>2 DEF Truthful
<1>17. Plays(v)
  BY <1>1, <1>2, <1>10, <1>11, <1>12 DEF Plays, authKinds, c
<1>18. SessionStep(v, page)
  BY <1>2, <1>10, <1>11 DEF SessionStep, c
<1>19. Sound(v, server)
  BY <1>1, <1>14, <1>15, <1>16, <1>17, <1>18, SessionSound
<1> DEFINE z == IF knows(c) THEN setScreen(v, "mode-select") ELSE v
<1>20. Sound(z, server) /\ z \in Page
  <2>1. Moved(setScreen(v, "mode-select"), v)
    BY <1>19, ScreenMoves DEF Screens
  <2>2. Sound(setScreen(v, "mode-select"), server)
    BY <1>19, <2>1, MovedSound
  <2> QED BY <1>19, <2>2 DEF Sound
<1>21. page' = lateFor(z, c)
  BY <1>7 DEF x
<1> HIDE DEF z
<1>22. page' = z
  BY <1>2, <1>20, <1>21, LateFields
<1> QED BY <1>20, <1>22 DEF AccountSound

\* A page whose dialog has closed leaves its screen, with its lists.
Emptied(q, w) ==
    /\ q \in Page /\ q.app.screen = w.app.screen /\ ~q.app.adminOpen /\ Fewer(q, w)
    /\ \A i \in Slots : q.calls[i].kind \in adminKinds => ~q.calls[i].alive

LEMMA PanelEmptied ==
    ASSUME NEW w, NEW sv, Sound(w, sv), NEW y \in Page, y.app.screen = w.app.screen,
           y.app.adminOpen = w.app.adminOpen, Fewer(y, w)
    PROVE  Emptied(closesPanel(y), w)
<1> DEFINE q == closesPanel(y)
<1>1. /\ q \in Page /\ ~q.app.adminOpen /\ q.app.screen = y.app.screen
      /\ \A i \in Slots :
           /\ Faded(q.calls[i], y.calls[i])
           /\ q.calls[i].kind \notin adminKinds => q.calls[i] = y.calls[i]
           /\ y.app.adminOpen /\ q.calls[i].kind \in adminKinds => ~q.calls[i].alive
      /\ ~y.app.adminOpen => q = y
  BY PanelCloses
<1> HIDE DEF q
<1>2. "none" \notin adminKinds /\ noCall.kind = "none"
  BY KindsApart, NoCallTypes
<1>3. \A i \in Slots : y.calls[i].kind \in adminKinds => Faded(y.calls[i], w.calls[i])
  BY <1>2 DEF Fewer
<1>4. \A i \in Slots : w.calls[i].kind \in adminKinds /\ w.calls[i].alive => w.app.adminOpen
  BY DEF Sound, Listed, PanelCalls
<1>5. ASSUME NEW i \in Slots, q.calls[i].kind \in adminKinds PROVE ~q.calls[i].alive
  <2>1. CASE y.app.adminOpen
    BY <1>1, <1>5, <2>1
  <2>2. CASE ~y.app.adminOpen
    BY <1>1, <1>3, <1>4, <1>5, <2>2 DEF Faded
  <2> QED BY <2>1, <2>2
<1>6. ASSUME NEW i \in Slots
      PROVE  Faded(q.calls[i], w.calls[i]) \/ q.calls[i] = noCall
  <2>1. Faded(q.calls[i], y.calls[i])
    BY <1>1
  <2>2. CASE Faded(y.calls[i], w.calls[i])
    BY <2>1, <2>2 DEF Faded
  <2>3. CASE y.calls[i] = noCall
    <3>1. q.calls[i].kind = "none"
      BY <1>2, <2>1, <2>3 DEF Faded
    <3> QED BY <1>1, <1>2, <2>3, <3>1
  <2> QED BY <2>2, <2>3 DEF Fewer
<1> QED BY <1>1, <1>5, <1>6 DEF Emptied, Fewer, q

LEMMA Departs ==
    ASSUME NEW w, NEW sv, Sound(w, sv), NEW q, Emptied(q, w), NEW screen \in {"intro", "account"}
    PROVE  LET v == setScreen(q, screen)
           IN  /\ v \in Page /\ OffShelf(v) /\ OffPanel(v) /\ Fewer(v, w)
               /\ v.app.socket = q.app.socket /\ v.session = q.session /\ v.cookie = q.cookie
               /\ \A i \in Slots :
                    /\ v.calls[i].kind = q.calls[i].kind
                    /\ v.calls[i].kind \notin historyKinds \cup adminKinds =>
                            v.calls[i] = q.calls[i]
<1> DEFINE v == setScreen(q, screen)
<1>1. /\ q \in Page /\ screen \in Screens /\ screen \notin {"history", "match"}
      /\ ~q.app.adminOpen
  BY DEF Emptied, Screens
<1>2. /\ v \in Page /\ v.session = q.session /\ v.cookie = q.cookie /\ v.app.screen = screen
      /\ v.app.socket = q.app.socket /\ ~v.app.adminOpen
      /\ \A i \in Slots :
           /\ Faded(v.calls[i], q.calls[i])
           /\ v.calls[i].kind \notin historyKinds \cup adminKinds => v.calls[i] = q.calls[i]
      /\ q.app.screen = "history" => \A i \in Slots :
            v.calls[i].kind \in historyKinds => ~v.calls[i].alive
      /\ q.app.screen # "history" => \A i \in Slots :
            v.calls[i].kind \in historyKinds => v.calls[i] = q.calls[i]
      /\ \A i \in Slots : v.calls[i].kind \in adminKinds => v.calls[i] = q.calls[i]
  BY <1>1, ScreenFields
<1> HIDE DEF v
<1>3. "none" \notin historyKinds \cup adminKinds /\ noCall.kind = "none"
  BY KindsApart, NoCallTypes
<1>4. \A i \in Slots : q.calls[i].kind \in historyKinds => Faded(q.calls[i], w.calls[i])
  BY <1>3 DEF Emptied, Fewer
<1>5. \A i \in Slots :
        w.calls[i].kind \in historyKinds /\ w.calls[i].alive => w.app.screen = "history"
  BY DEF Sound, Signed, AtHistory
<1>6. OffShelf(v)
  <2> SUFFICES ASSUME NEW i \in Slots, v.calls[i].kind \in historyKinds
               PROVE  ~v.calls[i].alive
    BY <1>1, <1>2 DEF OffShelf
  <2>1. CASE q.app.screen = "history"
    BY <1>2, <2>1
  <2>2. CASE q.app.screen # "history"
    BY <1>2, <1>4, <1>5, <2>2 DEF Faded, Emptied
  <2> QED BY <2>1, <2>2
<1>7. OffPanel(v)
  BY <1>2 DEF OffPanel, Emptied
<1>8. ASSUME NEW i \in Slots
      PROVE  Faded(v.calls[i], w.calls[i]) \/ v.calls[i] = noCall
  <2>1. Faded(v.calls[i], q.calls[i])
    BY <1>2
  <2>2. CASE Faded(q.calls[i], w.calls[i])
    BY <2>1, <2>2 DEF Faded
  <2>3. CASE q.calls[i] = noCall
    <3>1. v.calls[i].kind = "none"
      BY <1>3, <2>1, <2>3 DEF Faded
    <3> QED BY <1>2, <1>3, <2>3, <3>1
  <2> QED BY <2>2, <2>3 DEF Emptied, Fewer
<1> QED BY <1>2, <1>6, <1>7, <1>8 DEF Fewer, Faded, v

LEMMA LoggedOutFields ==
    ASSUME NEW w \in Page
    PROVE  LET v == loggedOut(w)
           IN  /\ v \in Page /\ v.app = w.app /\ v.history = w.history /\ v.admin = w.admin
               /\ v.calls = w.calls /\ v.cookie = NoSid
               /\ v.session.account = NoAccount /\ v.session.doubt = w.session.doubt
               /\ v.session.acted
<1> DEFINE z == [w.session EXCEPT !.account = NoAccount, !.devices = {}, !.acted = TRUE]
           u == [w EXCEPT !.session = z]
           v == loggedOut(w)
<1>1. w.session \in Session /\ NoAccount \in Known /\ NoSid \in SidsOrNone
  BY PageParts, Bounds DEF NoAccount, Known, People, SidsOrNone, NoSid
<1>2. z \in Session /\ z.account = NoAccount /\ z.doubt = w.session.doubt /\ z.acted
  BY <1>1 DEF Session
<1>3. v = [u EXCEPT !.cookie = NoSid]
  BY DEF loggedOut, storeAccount
<1> HIDE DEF z, v
<1>4. /\ u \in Page /\ u.app = w.app /\ u.session = z /\ u.history = w.history
      /\ u.admin = w.admin /\ u.calls = w.calls
  BY <1>2, WithSession
<1> HIDE DEF u
<1>5. /\ v \in Page /\ v.app = u.app /\ v.session = u.session /\ v.history = u.history
      /\ v.admin = u.admin /\ v.calls = u.calls /\ v.cookie = NoSid
  BY <1>1, <1>3, <1>4, WithCookie
<1> QED BY <1>2, <1>4, <1>5 DEF v

\* The page signs out; only the form was waiting for it.
LEMMA LogoutSound ==
    ASSUME AccountSound, NEW n \in Slots, page.calls[n].kind = "logout",
           page.calls[n].answer.status = "ok", server' = server,
           page' = lateFor(released(logout(freed(n))), page.calls[n])
    PROVE  AccountSound'
<1> DEFINE c == page.calls[n]
           x == freed(n)
           o == loggedOut(x)
           p == closesPanel(o)
           q == closeClient(p)
           r == setScreen(q, "intro")
           v == released(r)
<1>1. /\ server \in Server /\ page \in Page /\ Sound(page, server)
      /\ OneAtATime(page)
  BY CallKnown DEF Sound, Signed
<1>2. c.kind \in formKinds /\ c.answer.status # "expired"
  BY DEF formKinds
<1>3. \A i \in Slots \ {n} : page.calls[i].kind \notin formKinds
  BY <1>1, <1>2 DEF OneAtATime
<1>4. \A i, j \in Slots :
        page.calls[i].kind = "restore" /\ page.calls[j].kind = "restore" => i = j
  BY <1>1 DEF OneAtATime
<1>5. page' = lateFor(v, c)
  BY DEF logout, resetForAccountChange
<1> HIDE DEF c
<1>6. /\ x \in Page /\ Beside(x, page) /\ x.calls[n] = noCall /\ Fewer(x, page)
      /\ \A i \in Slots \ {n} : x.calls[i] = page.calls[i]
  BY FreedFields
<1> HIDE DEF x
<1>7. /\ o \in Page /\ o.app = x.app /\ o.calls = x.calls /\ o.cookie = NoSid
      /\ o.session.account = NoAccount /\ o.session.acted
  BY <1>6, LoggedOutFields
<1> HIDE DEF o
<1>8. Fewer(o, page) /\ o.app.screen = page.app.screen /\ o.app.adminOpen = page.app.adminOpen
  BY <1>6, <1>7 DEF Fewer, Beside
<1>9. /\ Emptied(p, page) /\ p.session = o.session /\ p.cookie = o.cookie
      /\ \A i \in Slots :
           /\ p.calls[i].kind = o.calls[i].kind
           /\ p.calls[i].kind \notin adminKinds => p.calls[i] = o.calls[i]
  <2>1. Emptied(p, page)
    BY <1>1, <1>7, <1>8, PanelEmptied
  <2> QED BY <1>7, <2>1, PanelCloses DEF Faded
<1> HIDE DEF p
<1>10. /\ Emptied(q, page) /\ q.session = p.session /\ q.cookie = p.cookie
       /\ q.calls = p.calls /\ q.app.socket = noSocket
  <2>1. p \in Page
    BY <1>9 DEF Emptied
  <2>2. /\ q \in Page /\ q.app.socket = noSocket /\ q.app.screen = p.app.screen
        /\ q.app.adminOpen = p.app.adminOpen /\ q.session = p.session
        /\ q.calls = p.calls /\ q.cookie = p.cookie
    BY <2>1, ClientFields
  <2> QED BY <1>9, <2>2 DEF Emptied, Fewer
<1> HIDE DEF q
<1>11. /\ r \in Page /\ OffShelf(r) /\ OffPanel(r) /\ Fewer(r, page)
       /\ r.app.socket = q.app.socket /\ r.session = q.session /\ r.cookie = q.cookie
       /\ \A i \in Slots :
            /\ r.calls[i].kind = q.calls[i].kind
            /\ r.calls[i].kind \notin historyKinds \cup adminKinds =>
                    r.calls[i] = q.calls[i]
  BY <1>1, <1>10, Departs
<1> HIDE DEF r
<1>12. /\ v \in Page /\ v.app = r.app /\ v.calls = r.calls /\ v.cookie = r.cookie
       /\ v.session.account = r.session.account /\ v.session.acted = r.session.acted
  BY <1>11, ReleasedFields
<1> HIDE DEF v
<1>13. noCall.kind = "none"
  BY NoCallTypes
<1>14. /\ v.cookie = NoSid /\ v.session.account = NoAccount /\ v.session.acted
       /\ OffShelf(v) /\ OffPanel(v) /\ Fewer(v, page) /\ v.app.socket = noSocket
  BY <1>7, <1>9, <1>10, <1>11, <1>12 DEF OffShelf, OffPanel, Fewer
<1>15. \A i \in Slots : v.calls[i].kind = x.calls[i].kind
  BY <1>7, <1>9, <1>10, <1>11, <1>12
<1>16. \A i \in Slots : v.calls[i].kind \notin formKinds
  BY <1>3, <1>6, <1>13, <1>15 DEF formKinds
<1>17. OneAtATime(v)
  <2>1. \A i \in Slots : v.calls[i].kind = "restore" => page.calls[i].kind = "restore"
    BY <1>6, <1>13, <1>15
  <2>2. \A i, j \in Slots :
            v.calls[i].kind = "restore" /\ v.calls[j].kind = "restore" => i = j
    BY <1>4, <2>1
  <2> QED BY <1>16, <2>2 DEF OneAtATime, formKinds
<1>18. Early(v)
  BY <1>14 DEF Early
<1>19. Truthful(v, server)
  <2>1. whose(server, NoSid) = NoUser
    BY <1>1 DEF whose, Server, Sids, NoSid
  <2>2. Says(NoAccount, v, server)
    BY <1>14, <2>1 DEF Says, NoAccount
  <2> QED BY <1>14, <1>16, <2>2 DEF Truthful, formKinds, ended
<1>20. v.cookie <= server.made
  BY <1>1, <1>14 DEF Server, SidsOrNone, NoSid
<1>21. Sound(v, server)
  BY <1>1, <1>12, <1>14, <1>17, <1>18, <1>19, <1>20, SignedOff
<1>22. page' = v
  BY <1>2, <1>5, <1>12, LateFields
<1> QED BY <1>21, <1>22 DEF AccountSound

\* The page signs out when a password was reset, whichever account's that was.
LEMMA ResetSound ==
    ASSUME AccountSound, NEW n \in Slots, page.calls[n].kind = "reset",
           page.calls[n].answer.status = "ok", server' = server,
           page' = lateFor(onReset(freed(n), page.calls[n]), page.calls[n])
    PROVE  AccountSound'
<1> DEFINE c == page.calls[n]
           x == freed(n)
           y == IF c.answer.user = NoUser THEN x ELSE doubted(x, "reset")
           s == [y.session EXCEPT !.account = NoAccount, !.mode = "login", !.acted = TRUE]
           z == [y EXCEPT !.session = s]
           v == released(z)
<1>1. /\ server \in Server /\ page \in Page /\ Sound(page, server)
      /\ OneAtATime(page) /\ AnswersTrue(page, server) /\ Plays(page)
  BY CallKnown DEF Sound, Signed
<1>2. /\ c.kind \in formKinds /\ c.answer.status = "ok" /\ c.sid = page.cookie
      /\ c.kind \in authKinds \ {"logout", "devices", "mail"}
  BY <1>1 DEF formKinds, OneAtATime, authKinds
<1>3. \A i \in Slots \ {n} : page.calls[i].kind \notin formKinds
  BY <1>1, <1>2 DEF OneAtATime
<1>4. c.answer.user = NoUser => whose(server, page.cookie) = NoUser
  BY <1>1, <1>2 DEF AnswersTrue, AnswerTrue
<1>5. page' = lateFor(v, c)
  BY <1>2 DEF onReset, storeAccount
<1>6. page.app.socket # noSocket => page.app.overtaken
  BY <1>1, <1>2 DEF Plays
<1>7. /\ x \in Page /\ Beside(x, page) /\ x.calls[n] = noCall
      /\ \A i \in Slots \ {n} : x.calls[i] = page.calls[i]
  BY FreedFields
<1> HIDE DEF x
<1>8. /\ y \in Page /\ y.app = x.app /\ y.history = x.history /\ y.admin = x.admin
      /\ y.calls = x.calls /\ y.cookie = x.cookie
      /\ y.session.doubt = {} => c.answer.user = NoUser
  <2>1. LET q == doubted(x, "reset")
        IN  /\ q \in Page /\ q.app = x.app /\ q.history = x.history /\ q.admin = x.admin
            /\ q.calls = x.calls /\ q.cookie = x.cookie /\ q.session.doubt # {}
    BY <1>7, SignedOutFields
  <2> QED BY <1>7, <2>1
<1> HIDE DEF y
<1>9. /\ s \in Session /\ s.account = NoAccount /\ s.acted /\ s.doubt = y.session.doubt
  <2>1. NoAccount \in Known /\ y.session \in Session
    BY <1>8, PageParts, Bounds DEF NoAccount, Known, People, SidsOrNone, NoSid
  <2> QED BY <2>1 DEF Session, Modes
<1> HIDE DEF s
<1>10. /\ z \in Page /\ z.app = y.app /\ z.session = s /\ z.history = y.history
       /\ z.admin = y.admin /\ z.calls = y.calls /\ z.cookie = y.cookie
  BY <1>8, <1>9, WithSession
<1> HIDE DEF z
<1>11. /\ v \in Page /\ v.app = z.app /\ v.history = z.history /\ v.admin = z.admin
       /\ v.calls = z.calls /\ v.cookie = z.cookie
       /\ v.session.account = z.session.account /\ v.session.doubt = z.session.doubt
       /\ v.session.acted = z.session.acted
  BY <1>10, ReleasedFields
<1> HIDE DEF v
<1>12. noCall.kind = "none"
  BY NoCallTypes
<1>13. /\ v.app = page.app /\ v.history = page.history /\ v.admin = page.admin
       /\ v.cookie = page.cookie /\ v.session.account = NoAccount /\ v.session.acted
       /\ v.session.doubt = {} => whose(server, page.cookie) = NoUser
       /\ v.calls[n] = noCall /\ \A i \in Slots \ {n} : v.calls[i] = page.calls[i]
  BY <1>4, <1>7, <1>8, <1>9, <1>10, <1>11 DEF Beside
<1>14. \A i \in Slots : v.calls[i].kind \notin formKinds
  BY <1>3, <1>12, <1>13 DEF formKinds
<1>15. OneAtATime(v)
  BY <1>1, <1>12, <1>13, <1>14 DEF OneAtATime, formKinds
<1>16. Early(v)
  BY <1>13 DEF Early
<1>17. Truthful(v, server)
  <2>1. v.session.doubt = {} => Says(NoAccount, v, server)
    BY <1>13 DEF Says, NoAccount
  <2> QED BY <1>13, <1>14, <2>1 DEF Truthful, formKinds, ended
<1>18. Plays(v)
  BY <1>1, <1>6, <1>13 DEF Plays
<1>19. SessionStep(v, page)
  BY <1>2, <1>11, <1>13 DEF SessionStep, c
<1>20. Sound(v, server)
  BY <1>1, <1>15, <1>16, <1>17, <1>18, <1>19, SessionSound
<1>21. page' = v
  BY <1>2, <1>5, <1>11, LateFields
<1> QED BY <1>20, <1>21 DEF AccountSound

\* An answer that is read, and leaves the page as it is but for what the form shows.
Quieter(z, n) ==
    /\ z \in Page /\ z.app = page.app /\ z.history = page.history /\ z.admin = page.admin
    /\ z.cookie = page.cookie /\ z.session.account = page.session.account
    /\ z.session.doubt = page.session.doubt /\ z.session.acted = page.session.acted
    /\ z.session.busy = page.session.busy
    /\ z.session.mode = "settings" => page.session.mode = "settings"
    /\ z.calls[n] = noCall /\ \A i \in Slots \ {n} : z.calls[i] = page.calls[i]

LEMMA QuietAnswer ==
    ASSUME AccountSound, NEW n \in Slots, NEW z, Quieter(z, n),
           page.calls[n].kind \in authKinds \ {"restore", "whoami"}, ~ended(page.calls[n]),
           page.calls[n].answer.status # "expired", server' = server,
           \/ page.calls[n].kind \in formKinds /\ page' = lateFor(released(z), page.calls[n])
           \/ page' = lateFor(z, page.calls[n])
    PROVE  AccountSound'
<1> DEFINE v == released(z)
           c == page.calls[n]
<1>1. /\ v \in Page /\ v.app = z.app /\ v.history = z.history /\ v.admin = z.admin
      /\ v.calls = z.calls /\ v.cookie = z.cookie
      /\ v.session.account = z.session.account /\ v.session.doubt = z.session.doubt
      /\ v.session.acted = z.session.acted /\ v.session.mode = z.session.mode
  BY ReleasedFields DEF Quieter
<1>2. z \in Page /\ lateFor(z, c) = z
  BY LateFields DEF Quieter
<1>3. lateFor(v, c) = v
  BY <1>1, LateFields
<1> HIDE DEF v
<1>4. Sound(z, server)
  BY QuietSound DEF Quieter
<1>5. page.calls[n].kind \in formKinds => Sound(v, server)
  BY <1>1, QuietSound DEF Quieter
<1> QED BY <1>2, <1>3, <1>4, <1>5 DEF AccountSound, v

LEMMA QuietSession ==
    ASSUME AccountSound, NEW n \in Slots, NEW s \in Session,
           s.account = page.session.account, s.doubt = page.session.doubt,
           s.acted = page.session.acted, s.busy = page.session.busy,
           s.mode = "settings" => page.session.mode = "settings"
    PROVE  Quieter(freed(n), n) /\ Quieter([freed(n) EXCEPT !.session = s], n)
<1> DEFINE x == freed(n)
           z == [x EXCEPT !.session = s]
<1>1. /\ x \in Page /\ Beside(x, page) /\ x.calls[n] = noCall
      /\ \A i \in Slots \ {n} : x.calls[i] = page.calls[i]
  BY FreedFields
<1> HIDE DEF x
<1>2. /\ z \in Page /\ z.app = x.app /\ z.session = s /\ z.history = x.history
      /\ z.admin = x.admin /\ z.calls = x.calls /\ z.cookie = x.cookie
  BY <1>1, WithSession
<1> HIDE DEF z
<1> QED BY <1>1, <1>2 DEF Quieter, Beside, x, z

\* The other answers of the form, and the list of devices.
LEMMA PlainAnswerSound ==
    ASSUME AccountSound, NEW n \in Slots,
           page.calls[n].kind \in {"mail", "devices", "revoke", "others"},
           page.calls[n].answer.status \notin {"none", "expired"}, server' = server,
           page' = lateFor(onAuth(freed(n), page.calls[n]), page.calls[n])
    PROVE  AccountSound'
<1> DEFINE c == page.calls[n]
           x == freed(n)
           r == x.session
           Rest(s) ==
                /\ s \in Session /\ s.account = page.session.account
                /\ s.doubt = page.session.doubt /\ s.acted = page.session.acted
                /\ s.busy = page.session.busy
                /\ s.mode = "settings" => page.session.mode = "settings"
<1>1. c \in Call /\ c.kind \in authKinds \ {"restore", "whoami"} /\ ~ended(c)
  BY CallKnown DEF authKinds, ended
<1>2. x \in Page /\ Beside(x, page)
  BY FreedFields
<1>3. r \in Session /\ Rest(r)
  BY <1>2, PageParts DEF Beside
<1>4. \A s : Rest(s) => Quieter([x EXCEPT !.session = s], n)
  BY QuietSession
<1>5. Quieter(x, n)
  BY <1>3, QuietSession
<1>6. fail(x, c) = x
  BY <1>2, FailFields
<1>7. /\ c.answer.sids \subseteq Sids /\ c.arg.sid \in SidsOrNone /\ r.devices \subseteq Sids
  BY <1>1, <1>3 DEF Call, Reply, Arg, Session
<1>8. CASE c.kind = "mail"
  <2> DEFINE s == [r EXCEPT !.mode = "verify"]
  <2>1. Rest(s)
    BY <1>3 DEF Session, Modes
  <2>2. onAuth(x, c) \in {released(x), released([x EXCEPT !.session = s])}
    BY <1>6, <1>8 DEF onAuth, onMailed
  <2> HIDE DEF s, x, c
  <2>3. \E z \in {x, [x EXCEPT !.session = s]} :
            Quieter(z, n) /\ onAuth(x, c) = released(z)
    BY <1>4, <1>5, <2>1, <2>2
  <2> QED BY <1>1, <1>8, <2>3, QuietAnswer DEF formKinds, x, c
<1>9. CASE c.kind = "revoke"
  <2> DEFINE s == [r EXCEPT !.devices = r.devices \ {c.arg.sid}]
  <2>1. Rest(s)
    BY <1>3, <1>7 DEF Session
  <2>2. onAuth(x, c) \in {released(x), released([x EXCEPT !.session = s])}
    BY <1>6, <1>9 DEF onAuth, onRevoked
  <2> HIDE DEF s, x, c
  <2>3. \E z \in {x, [x EXCEPT !.session = s]} :
            Quieter(z, n) /\ onAuth(x, c) = released(z)
    BY <1>4, <1>5, <2>1, <2>2
  <2> QED BY <1>1, <1>9, <2>3, QuietAnswer DEF formKinds, x, c
<1>10. CASE c.kind = "others"
  <2> DEFINE s == [r EXCEPT !.devices = r.devices \cap {r.mine}]
  <2>1. Rest(s)
    BY <1>3, <1>7 DEF Session
  <2>2. onAuth(x, c) \in {released(x), released([x EXCEPT !.session = s])}
    BY <1>6, <1>10 DEF onAuth, onOthersRevoked
  <2> HIDE DEF s, x, c
  <2>3. \E z \in {x, [x EXCEPT !.session = s]} :
            Quieter(z, n) /\ onAuth(x, c) = released(z)
    BY <1>4, <1>5, <2>1, <2>2
  <2> QED BY <1>1, <1>10, <2>3, QuietAnswer DEF formKinds, x, c
<1>11. CASE c.kind = "devices"
  <2> DEFINE s == [r EXCEPT !.devices = c.answer.sids, !.mine = c.arg.sid]
  <2>1. Rest(s)
    BY <1>3, <1>7 DEF Session
  <2>2. onAuth(x, c) \in {x, [x EXCEPT !.session = s]}
    BY <1>6, <1>11 DEF onAuth, onDevices
  <2> HIDE DEF s, x, c
  <2>3. Quieter(onAuth(x, c), n)
    BY <1>4, <1>5, <2>1, <2>2
  <2> QED BY <1>1, <1>11, <2>3, QuietAnswer DEF x, c
<1> QED BY <1>8, <1>9, <1>10, <1>11

\* An answer about the account.
LEMMA AuthAnswerSound ==
    ASSUME AccountSound, NEW n \in Slots, page.calls[n].kind \in authKinds,
           page.calls[n].answer.status # "none", server' = server,
           page' = IF page.calls[n].kind = "signin" THEN onSignedIn(page, n)
                   ELSE lateFor(onAuth(freed(n), page.calls[n]), page.calls[n])
    PROVE  AccountSound'
<1> DEFINE c == page.calls[n]
           x == freed(n)
<1>1. /\ c \in Call /\ page \in Page /\ x \in Page
      /\ c.answer.status = "expired" => c.kind \in {"mail", "devices", "revoke", "others"}
  <2>1. AnswerTrue(c, server) /\ c \in Call /\ page \in Page
    BY CallKnown DEF AnswersTrue
  <2> QED BY <2>1, KindsApart, FreedFields DEF AnswerTrue
<1>2. c.answer.status # "expired" => fail(x, c) = x /\ fail(page, c) = page
  BY DEF fail
<1>3. CASE c.kind = "signin"
  <2>1. CASE c.answer.status = "ok"
    BY <1>3, <2>1, SignedInSound
  <2>2. CASE c.answer.status # "ok"
    <3> DEFINE y == released(page)
               v == [y EXCEPT !.calls[n] = noCall]
    <3>1. page' = v
      BY <1>1, <1>2, <1>3, <2>2 DEF onSignedIn
    <3>2. /\ y \in Page /\ y.app = page.app /\ y.history = page.history /\ y.admin = page.admin
          /\ y.calls = page.calls /\ y.cookie = page.cookie
          /\ y.session.account = page.session.account /\ y.session.doubt = page.session.doubt
          /\ y.session.acted = page.session.acted /\ y.session.mode = page.session.mode
      BY <1>1, ReleasedFields
    <3> HIDE DEF y
    <3>3. /\ v \in Page /\ Beside(v, y) /\ v.calls[n] = noCall
          /\ \A i \in Slots \ {n} : v.calls[i] = y.calls[i]
      BY <3>2, NoCallTypes, CallSet
    <3> HIDE DEF v
    <3>4. c.kind \in authKinds \ {"restore", "whoami"} /\ ~ended(c) /\ c.kind \in formKinds
      BY <1>3 DEF authKinds, ended, formKinds
    <3>5. Sound(v, server)
      BY <3>2, <3>3, <3>4, QuietSound DEF Beside
    <3> QED BY <3>1, <3>5 DEF AccountSound
  <2> QED BY <2>1, <2>2
<1>4. CASE c.kind # "signin"
  <2>1. page' = lateFor(onAuth(x, c), c)
    BY <1>4
  <2>2. CASE c.kind = "restore"
    <3>1. onAuth(x, c) = onRestored(x, c) /\ c.answer.status # "expired"
      BY <1>1, <2>2 DEF onAuth
    <3>2. Sound(onRestored(x, c), server) /\ onRestored(x, c) \in Page
      BY <2>2, RestoredSound DEF Sound
    <3> DEFINE r == onRestored(x, c)
    <3>3. page' = r
      <4>1. page' = lateFor(r, c) /\ r \in Page
        BY <2>1, <3>1, <3>2
      <4> HIDE DEF r
      <4>2. lateFor(r, c) = r
        BY <3>1, <4>1, LateFields
      <4> QED BY <4>1, <4>2
    <3> QED BY <3>2, <3>3 DEF AccountSound
  <2>3. CASE c.kind = "whoami"
    <3>1. onAuth(x, c) = LET y == onWhoami(x, c)
                         IN  IF knows(c) THEN setScreen(y, "mode-select") ELSE y
      BY <2>3 DEF onAuth
    <3> HIDE DEF x, c
    <3> QED BY <2>1, <2>3, <3>1, WhoamiSound DEF x, c
  <2>4. CASE c.kind \in {"logout", "reset"} /\ c.answer.status = "ok"
    <3>1. c.kind = "logout" => onAuth(x, c) = released(logout(x))
      BY <2>4 DEF onAuth
    <3>2. c.kind = "reset" => onAuth(x, c) = onReset(x, c)
      BY <2>4 DEF onAuth
    <3> QED BY <2>1, <2>4, <3>1, <3>2, LogoutSound, ResetSound
  <2>5. CASE c.kind \in {"logout", "reset"} /\ c.answer.status # "ok"
    <3>1. onAuth(x, c) = released(x)
      BY <1>1, <1>2, <2>5 DEF onAuth, onReset, logoutFailed
    <3>2. Quieter(x, n)
      BY <1>1, PageParts, QuietSession
    <3>3. c.kind \in authKinds \ {"restore", "whoami"} /\ ~ended(c) /\ c.kind \in formKinds
      BY <2>5 DEF authKinds, ended, formKinds
    <3> QED BY <1>1, <2>1, <2>5, <3>1, <3>2, <3>3, QuietAnswer
  <2>6. CASE c.kind \in {"mail", "devices", "revoke", "others"} /\ c.answer.status = "expired"
    <3>1. onAuth(x, c) = IF c.kind = "devices" THEN fail(x, c) ELSE released(fail(x, c))
      BY <2>6 DEF onAuth, onMailed, onDevices, onRevoked, onOthersRevoked
    <3> QED BY <2>1, <2>6, <3>1, ExpiredSound
  <2>7. CASE c.kind \in {"mail", "devices", "revoke", "others"} /\ c.answer.status # "expired"
    BY <2>1, <2>7, PlainAnswerSound
  <2> QED BY <1>4, <2>2, <2>3, <2>4, <2>5, <2>6, <2>7 DEF authKinds
<1> QED BY <1>3, <1>4

-----------------------------------------------------------------------------

(* The answers of the history.                                               *)

LEMMA SignedFewer ==
    ASSUME NEW w, NEW v, NEW sv, Sound(w, sv), v \in Page, v.app = w.app,
           v.session = w.session, v.cookie = w.cookie, Fewer(v, w),
           \A i \in Slots : w.calls[i].kind \in authKinds => v.calls[i] = w.calls[i],
           "expired" \in {v.history.listStatus, v.history.detailStatus} =>
                \/ "expired" \in {w.history.listStatus, w.history.detailStatus}
                \/ whose(sv, w.cookie) = NoUser
    PROVE  Signed(v, sv)
<1>1. /\ w \in Page /\ sv \in Server /\ SessionsMade(w, sv) /\ AnswersTrue(w, sv)
      /\ OneAtATime(w) /\ Early(w) /\ Truthful(w, sv) /\ AtHistory(w, sv) /\ Plays(w)
  BY DEF Sound, Signed
<1>2. /\ SessionsMade(v, sv) /\ AnswersTrue(v, sv)
      /\ \A i \in Slots : v.calls[i].kind # "none" => Faded(v.calls[i], w.calls[i])
  <2>1. v.cookie <= sv.made
    BY <1>1 DEF SessionsMade
  <2> QED BY <1>1, <2>1, FewerKnown
<1>3. \A i \in Slots : v.calls[i].kind # "none" =>
        /\ v.calls[i].kind = w.calls[i].kind /\ v.calls[i].sid = w.calls[i].sid
        /\ v.calls[i].arg = w.calls[i].arg
        /\ v.calls[i].alive => w.calls[i].alive
        /\ v.calls[i].kind \in authKinds => v.calls[i] = w.calls[i]
  BY <1>2 DEF Faded
<1>4. /\ "none" \notin authKinds \cup historyKinds \cup adminKinds /\ formKinds \subseteq authKinds
      /\ "restore" \in authKinds /\ "whoami" \in authKinds
      /\ {"logout", "reset", "mail", "signin"} \subseteq authKinds
  BY KindsApart DEF authKinds
<1>5. OneAtATime(v)
  BY <1>1, <1>3, <1>4 DEF OneAtATime
<1>6. Early(v)
  <2>1. \A j \in Slots : v.calls[j].kind \in {"none", w.calls[j].kind}
    BY <1>3
  <2> QED BY <1>1, <1>3, <1>4, <2>1 DEF Early
<1>7. Truthful(v, sv)
  <2>1. \A a : Says(a, v, sv) <=> Says(a, w, sv)
    BY DEF Says
  <2>2. \A i \in Slots : v.calls[i].kind \in authKinds \/ w.calls[i].kind \in authKinds =>
            v.calls[i] = w.calls[i]
    BY <1>3, <1>4
  <2>3. \A i \in Slots :
            /\ (v.calls[i].kind = "whoami" <=> w.calls[i].kind = "whoami")
            /\ (v.calls[i].kind = "restore" <=> w.calls[i].kind = "restore")
            /\ (ended(v.calls[i]) <=> ended(w.calls[i]))
    BY <1>4, <2>2 DEF ended
  <2>4. \A i \in Slots : v.calls[i].kind \in {"whoami", "restore"} => v.calls[i] = w.calls[i]
    BY <1>4, <2>2
  <2> HIDE DEF knows, accountOf
  <2> QED BY <1>1, <2>1, <2>3, <2>4 DEF Truthful
<1>8. AtHistory(v, sv)
  BY <1>1, <1>3, <1>4 DEF AtHistory
<1>9. Plays(v)
  BY <1>1, <1>3, <1>4 DEF Plays
<1> QED BY <1>2, <1>5, <1>6, <1>7, <1>8, <1>9 DEF Signed

\* An answer is read by the list, which goes on to wait for the others.
LEMMA ShelfAnswered ==
    ASSUME AccountSound, NEW n \in Slots, page.calls[n].kind \in historyKinds, NEW v \in Page,
           v.app = page.app, v.session = page.session, v.cookie = page.cookie,
           v.admin = page.admin, v.calls[n] = noCall,
           \A i \in Slots \ {n} : v.calls[i] = page.calls[i],
           "expired" \in {v.history.listStatus, v.history.detailStatus} =>
                \/ "expired" \in {page.history.listStatus, page.history.detailStatus}
                \/ whose(server, page.cookie) = NoUser,
           \A i \in Slots \ {n} : ShelfDue(page.calls[i], v.history),
           v.app.screen = "history" => HistoryRows(v, server) /\ Stars(v, server)
    PROVE  Sound(v, server)
<1>1. /\ page \in Page /\ server \in Server /\ Sound(page, server)
      /\ HistoryCalls(page, server) /\ StarsRead(page, server)
  BY DEF AccountSound, Sound, Shelved
<1>2. noCall.kind = "none" /\ noCall.kind \notin historyKinds \cup adminKinds \cup authKinds
  BY NoCallTypes, KindsApart
<1>3. Fewer(v, page)
  BY FadedSame DEF Fewer
<1>4. Signed(v, server)
  BY <1>1, <1>3, SignedFewer, KindsApart
<1>5. HistoryCalls(v, server) /\ StarsRead(v, server)
  <2>1. ShelfRead(noCall, server) /\ ShelfDue(noCall, v.history) /\ StarRead(noCall, server)
    BY <1>2, ShelfCallsOnly
  <2>2. \A i \in Slots : ShelfRead(v.calls[i], server) /\ ShelfDue(v.calls[i], v.history)
    BY <1>1, <2>1 DEF HistoryCalls
  <2>3. StarsRead(v, server)
    BY <1>1, <2>1 DEF StarsRead
  <2>4. "none" \notin listKinds \cup {"detail"}
    BY DEF listKinds
  <2>5. \A i \in Slots : ~waiting(noCall, listKinds) /\ ~waiting(noCall, {"detail"})
    BY <1>2, <2>4 DEF waiting
  <2>6. Sole(v, listKinds) /\ Sole(v, {"detail"})
    BY <1>1, <2>5 DEF HistoryCalls, Sole
  <2> QED BY <2>2, <2>3, <2>6 DEF HistoryCalls
<1>6. Listed(v, server)
  <2>1. PanelGrown(server, server)
    BY DEF PanelGrown
  <2>2. SamePanel(v, page)
    BY <1>2, KindsApart DEF SamePanel
  <2>3. \A i \in Slots : v.calls[i].kind \in adminKinds => Faded(v.calls[i], page.calls[i])
    BY <1>2, FadedSame
  <2> QED BY <1>1, <2>1, <2>2, <2>3, PanelAside DEF Sound
<1> QED BY <1>1, <1>4, <1>5, <1>6 DEF Sound, Shelved

\* What counts of an answer.
LEMMA WaitingOther ==
    ASSUME NEW v, NEW n \in Slots, NEW kinds, ~waiting(page.calls[n], kinds),
           \A i \in Slots \ {n} : v.calls[i] = page.calls[i],
           \E i \in Slots : waiting(page.calls[i], kinds)
    PROVE  \E i \in Slots : waiting(v.calls[i], kinds)
<1> QED OBVIOUS

\* An answer that the list does not hear.
LEMMA ShelfUnheard ==
    ASSUME AccountSound, NEW n \in Slots, page.calls[n].kind \in historyKinds,
           ~page.calls[n].alive \/ (page.calls[n].kind # "star" /\ ~page.calls[n].current)
    PROVE  Sound(freed(n), server)
<1> DEFINE v == freed(n)
           c == page.calls[n]
<1>1. /\ v \in Page /\ Beside(v, page) /\ v.calls[n] = noCall
      /\ \A i \in Slots \ {n} : v.calls[i] = page.calls[i]
  BY FreedFields
<1> HIDE DEF v
<1>2. /\ HistoryCalls(page, server)
      /\ page.app.screen = "history" => HistoryRows(page, server) /\ Stars(page, server)
  BY DEF AccountSound, Sound, Shelved
<1>3. ~waiting(c, {"list"}) /\ ~waiting(c, {"more"}) /\ ~waiting(c, {"detail"})
  BY DEF waiting
<1>4. noCall.kind = "none"
  BY NoCallTypes
<1>5. ASSUME page.app.screen = "history" PROVE HistoryRows(v, server) /\ Stars(v, server)
  <2>1. HistoryRows(v, server)
    <3>1. \A kinds \in {{"list"}, {"more"}, {"detail"}} :
            (\E i \in Slots : waiting(page.calls[i], kinds)) =>
                \E i \in Slots : waiting(v.calls[i], kinds)
      BY <1>1, <1>3
    <3> QED BY <1>1, <1>2, <1>5, <3>1 DEF HistoryRows, Beside
  <2>2. Stars(v, server)
    <3>1. \A i \in Slots : v.calls[i].kind = "star" => v.calls[i] = page.calls[i]
      BY <1>1, <1>4
    <3> QED BY <1>1, <1>2, <1>5, <3>1, StarsKept DEF Beside
  <2> QED BY <2>1, <2>2
<1>6. \A i \in Slots \ {n} : ShelfDue(page.calls[i], v.history)
  BY <1>1, <1>2 DEF HistoryCalls, Beside
<1>7. Sound(v, server)
  BY <1>1, <1>5, <1>6, ShelfAnswered DEF Beside
<1> QED BY <1>7 DEF v

\* One that it hears.
LEMMA ShelfHeard ==
    ASSUME AccountSound, NEW n \in Slots, page.calls[n].kind \in historyKinds,
           page.calls[n].alive, NEW h \in Shelf
    PROVE  LET c == page.calls[n]
               v == with(freed(n), h)
           IN  /\ c \in Call /\ c.sid = page.cookie /\ page.app.screen = "history"
               /\ page \in Page /\ server \in Server /\ page.history \in Shelf
               /\ HistoryCalls(page, server) /\ HistoryRows(page, server)
               /\ Stars(page, server) /\ AnswerTrue(c, server)
               /\ ShelfRead(c, server) /\ ShelfDue(c, page.history) /\ StarRead(c, server)
               /\ v.history = h /\ v.cookie = page.cookie /\ v.calls[n] = noCall
               /\ \A i \in Slots \ {n} : v.calls[i] = page.calls[i]
               /\ /\ "expired" \in {h.listStatus, h.detailStatus} =>
                        \/ "expired" \in {page.history.listStatus, page.history.detailStatus}
                        \/ c.answer.status = "expired"
                  /\ \A i \in Slots \ {n} : ShelfDue(page.calls[i], h)
                  /\ HistoryRows(v, server) /\ Stars(v, server)
                  => Sound(v, server)
<1> DEFINE c == page.calls[n]
           x == freed(n)
           v == with(x, h)
<1>1. /\ x \in Page /\ Beside(x, page) /\ x.calls[n] = noCall
      /\ \A i \in Slots \ {n} : x.calls[i] = page.calls[i]
  BY FreedFields
<1> HIDE DEF x
<1>2. v = [x EXCEPT !.history = h]
  BY DEF with
<1>3. /\ v \in Page /\ v.app = x.app /\ v.session = x.session /\ v.history = h
      /\ v.admin = x.admin /\ v.calls = x.calls /\ v.cookie = x.cookie
  BY <1>1, <1>2, WithHistory
<1> HIDE DEF v
<1>4. /\ c \in Call /\ page \in Page /\ server \in Server /\ AtHistory(page, server)
      /\ AnswerTrue(c, server) /\ page.history \in Shelf
  BY CallKnown, PageParts DEF AnswersTrue
<1>5. c.sid = page.cookie /\ page.app.screen = "history"
  BY <1>4 DEF AtHistory
<1>6. /\ HistoryCalls(page, server) /\ StarsRead(page, server) /\ HistoryRows(page, server)
      /\ Stars(page, server)
  BY <1>5 DEF AccountSound, Sound, Shelved
<1>7. /\ ShelfRead(c, server) /\ ShelfDue(c, page.history) /\ StarRead(c, server)
  BY <1>6 DEF HistoryCalls, StarsRead
<1>8. c.answer.status = "expired" => whose(server, page.cookie) = NoUser
  BY <1>4, <1>5, KindsApart DEF AnswerTrue
<1>9. /\ v.app = page.app /\ v.session = page.session /\ v.admin = page.admin
      /\ v.cookie = page.cookie /\ v.calls[n] = noCall
      /\ \A i \in Slots \ {n} : v.calls[i] = page.calls[i]
  BY <1>1, <1>3 DEF Beside
<1>10. ASSUME "expired" \in {h.listStatus, h.detailStatus} =>
                 \/ "expired" \in {page.history.listStatus, page.history.detailStatus}
                 \/ c.answer.status = "expired",
              \A i \in Slots \ {n} : ShelfDue(page.calls[i], h),
              HistoryRows(v, server), Stars(v, server)
       PROVE  Sound(v, server)
  BY <1>3, <1>8, <1>9, <1>10, ShelfAnswered
<1> QED BY <1>3, <1>4, <1>5, <1>6, <1>7, <1>9, <1>10 DEF v, x

\* Rows that are read, field by field.
Loaded(g, h, c, append) ==
    LET read == Range(c.answer.rows) \ h.pending
    IN  /\ g \in Shelf /\ g.filter = h.filter /\ g.listStatus = "ready"
        /\ g.next = c.answer.next /\ ~g.loadingMore /\ g.selected = h.selected
        /\ g.detail = h.detail /\ g.detailStatus = h.detailStatus
        /\ g.detailStarred = h.detailStarred /\ g.pending = h.pending
        /\ g.wanted = h.wanted /\ g.shown = c.arg.filter /\ g.owner = c.answer.user
        /\ g.doubt = (h.doubt \ read) \cup (c.overtaken \cap read)
        /\ append =>
            /\ g.matches = h.matches \o c.answer.rows /\ g.since = h.since
            /\ g.starred = h.starred \cup c.answer.starred
        /\ ~append =>
            /\ g.matches = c.answer.rows /\ g.since = c.answer.seen
            /\ g.starred = c.answer.starred

LEMMA LoadedFields ==
    ASSUME NEW h \in Shelf, NEW c \in Call, NEW append \in BOOLEAN, c.arg.filter \in Filters
    PROVE  Loaded(listLoaded(h, c, append), h, c, append)
<1> DEFINE a == c.answer
           read == Range(a.rows) \ h.pending
           rows == IF append THEN h.matches \o a.rows ELSE a.rows
           stars == (IF append THEN h.starred ELSE {}) \cup a.starred
           since == IF append THEN h.since ELSE a.seen
           doubt == (h.doubt \ read) \cup (c.overtaken \cap read)
           g == listLoaded(h, c, append)
<1>1. /\ a \in Reply /\ a.rows \in Seq(Matches) /\ h.matches \in Seq(Matches)
      /\ a.next \in MatchesOrNone /\ a.user \in People /\ a.starred \subseteq Matches
      /\ a.seen \subseteq Matches /\ c.overtaken \subseteq Matches
      /\ h.starred \subseteq Matches /\ h.since \subseteq Matches /\ h.doubt \subseteq Matches
  BY DEF Call, Reply, Shelf
<1>2. rows \in Seq(Matches) /\ stars \subseteq Matches /\ since \subseteq Matches
  BY <1>1
<1>3. doubt \subseteq Matches
  BY <1>1
<1>4. g = [h EXCEPT !.listStatus = "ready", !.next = a.next, !.matches = rows,
                    !.starred = stars, !.loadingMore = FALSE, !.moreError = FALSE,
                    !.since = since, !.shown = c.arg.filter, !.owner = a.user,
                    !.doubt = doubt]
  BY DEF listLoaded
<1>5. /\ append => rows = h.matches \o a.rows /\ since = h.since /\ stars = h.starred \cup a.starred
      /\ ~append => rows = a.rows /\ since = a.seen /\ stars = a.starred
      /\ doubt = (h.doubt \ (Range(a.rows) \ h.pending))
                    \cup (c.overtaken \cap (Range(a.rows) \ h.pending))
  OBVIOUS
<1> HIDE DEF rows, stars, since, doubt, g
<1>6. /\ g \in Shelf
      /\ g.filter = h.filter /\ g.listStatus = "ready"
      /\ g.next = a.next /\ ~g.loadingMore /\ g.selected = h.selected
      /\ g.detail = h.detail /\ g.detailStatus = h.detailStatus
      /\ g.detailStarred = h.detailStarred /\ g.pending = h.pending
      /\ g.wanted = h.wanted /\ g.shown = c.arg.filter /\ g.owner = a.user
      /\ g.doubt = doubt /\ g.matches = rows /\ g.since = since /\ g.starred = stars
  BY Zenon, <1>1, <1>2, <1>3, <1>4 DEF Shelf
<1> HIDE DEF read
<1> QED BY <1>5, <1>6 DEF g, Loaded

\* The bookmarks of the rows that are read.
LEMMA RowsRead ==
    ASSUME NEW c \in Call, NEW sv, NEW h, NEW g, served(c, listKinds), StarRead(c, sv),
           ShelfRead(c, sv), g.pending = h.pending,
           g.doubt = (h.doubt \ (Range(c.answer.rows) \ h.pending))
                        \cup (c.overtaken \cap (Range(c.answer.rows) \ h.pending))
    PROVE  /\ \A m \in Range(c.answer.rows) : m \notin g.pending \cup g.doubt =>
                (m \in c.answer.starred <=> m \in sv.starred[sv.owner[c.sid]])
           /\ \A m : m \notin Range(c.answer.rows) \/ m \in h.pending =>
                (m \in g.doubt <=> m \in h.doubt)
<1>1. c.answer.user = sv.owner[c.sid]
  BY DEF ShelfRead, served, listKinds
<1>2. \A m \in Range(c.answer.rows) \ c.overtaken :
        m \in c.answer.starred <=> m \in sv.starred[c.answer.user]
  BY DEF StarRead
<1> QED BY <1>1, <1>2

\* No other list is waited for.
LEMMA SoleWaiting ==
    ASSUME NEW w, NEW kinds, Sole(w, kinds), NEW n \in Slots, waiting(w.calls[n], kinds)
    PROVE  \A i \in Slots \ {n} : ~waiting(w.calls[i], kinds)
BY DEF Sole

\* The first page has come.
LEMMA ListedSound ==
    ASSUME AccountSound, NEW n \in Slots, page.calls[n].kind = "list",
           page.calls[n].current, page.calls[n].alive, page.calls[n].answer.status = "ok"
    PROVE  Sound(onListed(freed(n), page.calls[n]), server)
<1> DEFINE c == page.calls[n]
           h == page.history
           g == listLoaded(h, c, FALSE)
           v == with(freed(n), g)
           R == Range(c.answer.rows)
<1>1. /\ c.kind \in historyKinds /\ c.kind \in listKinds /\ c.alive /\ served(c, listKinds)
      /\ waiting(c, {"list"}) /\ waiting(c, listKinds)
      /\ ~waiting(c, {"more"}) /\ ~waiting(c, {"detail"})
  BY DEF historyKinds, listKinds, waiting, served
<1>2. onListed(freed(n), c) = v
  <2>1. freed(n).history = h
    BY FreedFields DEF Beside
  <2> QED BY <2>1 DEF onListed
<1>3. /\ c \in Call /\ h \in Shelf /\ c.arg.filter \in Filters
      /\ ShelfRead(c, server) /\ ShelfDue(c, h) /\ StarRead(c, server)
      /\ HistoryCalls(page, server) /\ HistoryRows(page, server) /\ Stars(page, server)
      /\ c.sid = page.cookie
  <2>1. /\ c \in Call /\ h \in Shelf /\ c.sid = page.cookie
        /\ ShelfRead(c, server) /\ ShelfDue(c, h) /\ StarRead(c, server)
        /\ HistoryCalls(page, server) /\ HistoryRows(page, server) /\ Stars(page, server)
    <3>1. h \in Shelf
      BY PageParts DEF AccountSound, Sound
    <3> QED BY <1>1, <3>1, ShelfHeard
  <2> QED BY <1>1, <2>1 DEF ShelfRead
<1>4. /\ g \in Shelf /\ g.filter = h.filter /\ g.listStatus = "ready"
      /\ g.next = c.answer.next /\ ~g.loadingMore /\ g.selected = h.selected
      /\ g.detail = h.detail /\ g.detailStatus = h.detailStatus
      /\ g.detailStarred = h.detailStarred /\ g.pending = h.pending
      /\ g.wanted = h.wanted /\ g.shown = c.arg.filter /\ g.owner = c.answer.user
      /\ g.doubt = (h.doubt \ (R \ h.pending)) \cup (c.overtaken \cap (R \ h.pending))
      /\ g.matches = c.answer.rows /\ g.since = c.answer.seen /\ g.starred = c.answer.starred
  <2>1. Loaded(g, h, c, FALSE)
    BY <1>3, LoadedFields
  <2> HIDE DEF c, h, g
  <2> QED BY <2>1 DEF Loaded
<1> HIDE DEF c, h, g
<1>5. /\ v.history = g /\ v.cookie = page.cookie /\ v.calls[n] = noCall
      /\ \A i \in Slots \ {n} : v.calls[i] = page.calls[i]
      /\ /\ \A i \in Slots \ {n} : ShelfDue(page.calls[i], g)
         /\ HistoryRows(v, server) /\ Stars(v, server)
         => Sound(v, server)
  <2>1. ~("expired" \in {g.listStatus, g.detailStatus})
           \/ "expired" \in {h.listStatus, h.detailStatus}
    BY <1>4
  <2> QED BY <1>1, <1>4, <2>1, ShelfHeard DEF c, h
<1> HIDE DEF v, R
<1>6. /\ c.arg.cursor = FromNewest /\ h.selected = NoMatch /\ c.arg.filter = h.filter
      /\ PageRead(c) /\ c.answer.seen \subseteq server.rows["matches"]
      /\ c.answer.starred \subseteq R
      /\ c.sid # NoSid /\ c.answer.user = server.owner[c.sid]
  BY <1>1, <1>3 DEF ShelfDue, ShelfRead, served, listKinds, R
<1>7. h.detail = NoMatch /\ h.selected = h.wanted
  BY <1>3, <1>6 DEF HistoryRows, h
<1>8. \A i \in Slots \ {n} :
        /\ ~waiting(page.calls[i], listKinds) /\ ~waiting(page.calls[i], {"list"})
        /\ ~waiting(page.calls[i], {"more"})
  <2>1. Sole(page, listKinds)
    BY <1>3 DEF HistoryCalls
  <2>2. \A i \in Slots \ {n} : ~waiting(page.calls[i], listKinds)
    BY <1>1, <2>1, SoleWaiting DEF c
  <2> QED BY <2>2 DEF waiting, listKinds
<1>9. \A i \in Slots \ {n} : ShelfDue(page.calls[i], g)
  BY <1>3, <1>4, <1>8 DEF HistoryCalls, ShelfDue, h
<1>10. listOf(g)
  <2>1. \A m \in c.answer.seen : m < c.arg.cursor
    <3>1. c.answer.seen \subseteq Matches
      BY <1>3 DEF Call, Reply
    <3> QED BY <1>6, <3>1, Bounds DEF Matches, FromNewest
  <2>2. Joined(g.matches, g.next)
    BY <1>4, <1>6 DEF PageRead, Joined
  <2>3. noGap(g.matches, g.next, g.since)
    <3> SUFFICES ASSUME NEW m \in g.since, m > NoMore, m >= g.next PROVE m \in R
      BY <1>4 DEF noGap, R
    <3>1. m \in c.answer.seen /\ c.answer.next <= m
      <4>1. m \in Nat /\ g.next \in Nat
        BY <1>4, Bounds DEF Shelf, Matches, MatchesOrNone
      <4> QED BY <1>4, <4>1
    <3> QED BY <1>6, <2>1, <3>1 DEF PageRead, R
  <2> QED BY <1>4, <1>6, <2>2, <2>3 DEF listOf
<1>11. HistoryRows(v, server)
  <2>1. g.detailStatus = "loading" => \E i \in Slots : waiting(v.calls[i], {"detail"})
    BY <1>1, <1>3, <1>4, <1>5 DEF HistoryRows, h, c
  <2>2. g.detailStatus # "ready"
    BY <1>3, <1>4, <1>7 DEF HistoryRows, h
  <2>3. g.starred \subseteq Range(g.matches)
    BY <1>4, <1>6 DEF R
  <2> QED BY <1>3, <1>4, <1>5, <1>6, <1>7, <1>10, <2>1, <2>2, <2>3 DEF HistoryRows
<1>12. Stars(v, server)
  <2>1. /\ \A m \in R : m \notin g.pending \cup g.doubt =>
                (m \in c.answer.starred <=> m \in server.starred[server.owner[c.sid]])
        /\ \A m : m \notin R \/ m \in h.pending => (m \in g.doubt <=> m \in h.doubt)
    BY <1>1, <1>3, <1>4, RowsRead DEF R
  <2>2. noCall.kind # "star"
    BY NoCallTypes
  <2>3. \A i \in Slots : v.calls[i].kind = "star" => v.calls[i] = page.calls[i]
    BY <1>5, <2>2
  <2>4. \A i \in Slots : v.calls[i].kind = "star" /\ v.calls[i].alive =>
            /\ v.calls[i].arg.match \in h.pending
            /\ v.calls[i].arg.match \notin g.doubt => v.calls[i].arg.match \notin h.doubt
    BY <1>3, <2>1, <2>3 DEF Stars, h
  <2>5. \A m \in Range(g.matches) : m \notin g.pending \cup g.doubt =>
            (m \in g.starred <=> m \in server.starred[server.owner[page.cookie]])
    BY <1>3, <1>4, <2>1 DEF R
  <2> QED BY <1>3, <1>4, <1>5, <1>7, <2>3, <2>4, <2>5 DEF Stars, h
<1> QED BY <1>2, <1>5, <1>9, <1>11, <1>12 DEF c

\* A list that has not come: what was there stays.
LEMMA ListFails ==
    ASSUME AccountSound, NEW n \in Slots, page.calls[n].kind \in listKinds,
           page.calls[n].current, page.calls[n].alive,
           NEW status \in {"ready", "error", "expired"}, NEW failed \in BOOLEAN,
           status = "ready" => page.history.listStatus = "ready",
           status = "expired" => page.calls[n].answer.status = "expired"
                                    \/ page.history.listStatus = "expired"
    PROVE  Sound(with(freed(n), [page.history EXCEPT !.listStatus = status,
                                        !.loadingMore = FALSE, !.moreError = failed]), server)
<1> DEFINE c == page.calls[n]
           h == page.history
           g == [h EXCEPT !.listStatus = status, !.loadingMore = FALSE, !.moreError = failed]
           v == with(freed(n), g)
<1>1. /\ c.kind \in historyKinds /\ c.alive /\ waiting(c, listKinds) /\ ~waiting(c, {"detail"})
  BY DEF historyKinds, listKinds, waiting
<1>2. h \in Shelf
  BY PageParts DEF AccountSound, Sound
<1>3. /\ g \in Shelf /\ g.filter = h.filter /\ g.listStatus = status
      /\ g.matches = h.matches /\ g.starred = h.starred /\ g.next = h.next
      /\ ~g.loadingMore /\ g.selected = h.selected /\ g.detailStatus = h.detailStatus
      /\ g.detail = h.detail /\ g.detailStarred = h.detailStarred /\ g.pending = h.pending
      /\ g.since = h.since /\ g.shown = h.shown /\ g.wanted = h.wanted /\ g.owner = h.owner
      /\ g.doubt = h.doubt
  BY <1>2 DEF Shelf
<1> HIDE DEF c, h, g
<1>4. /\ HistoryCalls(page, server) /\ HistoryRows(page, server) /\ Stars(page, server)
      /\ v.history = g /\ v.cookie = page.cookie /\ v.calls[n] = noCall
      /\ \A i \in Slots \ {n} : v.calls[i] = page.calls[i]
      /\ /\ \A i \in Slots \ {n} : ShelfDue(page.calls[i], g)
         /\ HistoryRows(v, server) /\ Stars(v, server)
         => Sound(v, server)
  <2>1. "expired" \in {g.listStatus, g.detailStatus} =>
            \/ "expired" \in {h.listStatus, h.detailStatus}
            \/ c.answer.status = "expired"
    BY <1>3 DEF c, h
  <2> QED BY <1>1, <1>3, <2>1, ShelfHeard DEF c, h
<1> HIDE DEF v
<1>5. \A i \in Slots \ {n} :
        /\ ~waiting(page.calls[i], listKinds) /\ ~waiting(page.calls[i], {"list"})
        /\ ~waiting(page.calls[i], {"more"})
  <2>1. Sole(page, listKinds)
    BY <1>4 DEF HistoryCalls
  <2>2. \A i \in Slots \ {n} : ~waiting(page.calls[i], listKinds)
    BY <1>1, <2>1, SoleWaiting DEF c
  <2> QED BY <2>2 DEF waiting, listKinds
<1>6. \A i \in Slots \ {n} : ShelfDue(page.calls[i], g)
  BY <1>3, <1>4, <1>5 DEF HistoryCalls, ShelfDue, h
<1>7. HistoryRows(v, server)
  <2>1. g.detailStatus = "loading" => \E i \in Slots : waiting(v.calls[i], {"detail"})
    BY <1>1, <1>3, <1>4 DEF HistoryRows, h, c
  <2>2. g.listStatus = "ready" => listOf(g)
    BY <1>3, <1>4 DEF HistoryRows, listOf, h
  <2> QED BY <1>3, <1>4, <2>1, <2>2 DEF HistoryRows, h
<1>8. Stars(v, server)
  <2>1. \A i \in Slots : v.calls[i].kind = "star" => v.calls[i] = page.calls[i]
    BY <1>4, NoCallTypes
  <2> QED BY <1>3, <1>4, <2>1, StarsKept DEF h
<1> QED BY <1>4, <1>6, <1>7, <1>8 DEF v, g, h

LEMMA ListFailedSound ==
    ASSUME AccountSound, NEW n \in Slots, page.calls[n].kind \in listKinds,
           page.calls[n].current, page.calls[n].alive, page.calls[n].answer.status # "ok"
    PROVE  /\ page.calls[n].kind = "list" => Sound(onListed(freed(n), page.calls[n]), server)
           /\ page.calls[n].kind = "more" => Sound(onMore(freed(n), page.calls[n]), server)
<1> DEFINE c == page.calls[n]
           h == page.history
           x == freed(n)
           g(status, failed) == [h EXCEPT !.listStatus = status, !.loadingMore = FALSE,
                                          !.moreError = failed]
<1>1. x.history = h /\ h \in Shelf /\ HistoryCalls(page, server)
  BY FreedFields, PageParts DEF Beside, AccountSound, Sound, Shelved
<1>2. h.moreError \in BOOLEAN /\ h.listStatus \in {"loading", "ready", "error", "expired"}
  BY <1>1 DEF Shelf
<1>3. CASE isExpired(c)
  <2>1. listFailed(h, TRUE) = g("expired", h.moreError)
    BY <1>1 DEF listFailed, Shelf
  <2>2. Sound(with(x, g("expired", h.moreError)), server)
    BY Zenon, <1>2, <1>3, ListFails DEF isExpired
  <2> HIDE DEF x, h, g
  <2>3. onListed(x, c) = with(x, listFailed(h, TRUE))
    BY <1>1, <1>3 DEF onListed
  <2>4. onMore(x, c) = with(x, listFailed(h, TRUE))
    BY <1>1, <1>3 DEF onMore, isExpired
  <2> QED BY <2>1, <2>2, <2>3, <2>4 DEF x
<1>4. CASE ~isExpired(c) /\ c.kind = "list"
  <2>1. listFailed(h, FALSE) = g("error", h.moreError)
    BY <1>1 DEF listFailed, Shelf
  <2>2. Sound(with(x, g("error", h.moreError)), server)
    BY Zenon, <1>2, ListFails
  <2>3. isExpired(c) = FALSE
    BY <1>4 DEF isExpired
  <2> HIDE DEF x, h, g
  <2>4. onListed(x, c) = with(x, listFailed(x.history, FALSE))
    BY <2>3 DEF onListed
  <2> QED BY <1>1, <1>4, <2>1, <2>2, <2>4 DEF x
<1>5. CASE ~isExpired(c) /\ c.kind = "more"
  <2>1. h.listStatus # "loading"
    <3>1. ShelfDue(c, h) /\ waiting(c, {"more"})
      BY <1>1, <1>5 DEF HistoryCalls, waiting
    <3> QED BY <3>1 DEF ShelfDue
  <2>2. Sound(with(x, g(h.listStatus, TRUE)), server)
    BY Zenon, <1>2, <2>1, ListFails
  <2>3. [h EXCEPT !.loadingMore = FALSE, !.moreError = TRUE] = g(h.listStatus, TRUE)
    BY <1>1 DEF Shelf
  <2> HIDE DEF x, h, g
  <2>4. onMore(x, c) = with(x, [h EXCEPT !.loadingMore = FALSE, !.moreError = TRUE])
    BY <1>1, <1>5 DEF onMore
  <2> QED BY <1>5, <2>2, <2>3, <2>4 DEF x
<1> QED BY <1>3, <1>4, <1>5 DEF listKinds

\* Rows below others, newest first.
LEMMA RowsJoined ==
    ASSUME NEW p \in Seq(Matches), NEW q \in Seq(Matches), NEW cursor \in MatchesOrNone,
           NEW next \in MatchesOrNone, descending(p), descending(q),
           \A m \in Range(p) : cursor <= m, \A m \in Range(q) : next <= m /\ m < cursor,
           next = NoMore \/ next < cursor
    PROVE  /\ Joined(p \o q, next) /\ Range(p \o q) = Range(p) \cup Range(q)
           /\ Range(p) \cap Range(q) = {}
<1> DEFINE s == p \o q
<1>1. /\ Len(p) \in Nat /\ Len(q) \in Nat /\ s \in Seq(Matches) /\ Len(s) = Len(p) + Len(q)
      /\ \A i \in 1 .. Len(s) :
            s[i] = IF i <= Len(p) THEN p[i] ELSE q[i - Len(p)]
      /\ DOMAIN p = 1 .. Len(p) /\ DOMAIN q = 1 .. Len(q) /\ DOMAIN s = 1 .. Len(s)
  OBVIOUS
<1>2. Matches \subseteq Nat /\ cursor \in Nat /\ next \in Nat
  BY Bounds DEF Matches, MatchesOrNone
<1>3. /\ \A i \in 1 .. Len(p) : p[i] \in Range(p) /\ p[i] \in Nat
      /\ \A i \in 1 .. Len(q) : q[i] \in Range(q) /\ q[i] \in Nat
  <2>1. \A i \in 1 .. Len(p) : p[i] \in Matches
    OBVIOUS
  <2>2. \A i \in 1 .. Len(q) : q[i] \in Matches
    OBVIOUS
  <2>3. \A i \in 1 .. Len(p) : p[i] \in Range(p)
    BY <1>1 DEF Range
  <2>4. \A i \in 1 .. Len(q) : q[i] \in Range(q)
    BY <1>1 DEF Range
  <2> QED BY <1>2, <2>1, <2>2, <2>3, <2>4
<1> HIDE DEF s
<1>4. \A i \in 1 .. Len(s) :
        \/ i \in 1 .. Len(p) /\ s[i] = p[i]
        \/ i > Len(p) /\ i - Len(p) \in 1 .. Len(q) /\ s[i] = q[i - Len(p)]
  BY <1>1
<1>5. descending(s)
  <2> SUFFICES ASSUME NEW i \in 1 .. Len(s), NEW j \in 1 .. Len(s), i < j PROVE s[i] > s[j]
    BY <1>1 DEF descending
  <2>1. CASE j \in 1 .. Len(p) /\ s[j] = p[j]
    <3>1. i \in 1 .. Len(p) /\ s[i] = p[i]
      BY <1>1, <2>1
    <3> QED BY <1>1, <2>1, <3>1 DEF descending
  <2>2. CASE i \in 1 .. Len(p) /\ s[i] = p[i] /\ j - Len(p) \in 1 .. Len(q)
             /\ s[j] = q[j - Len(p)]
    <3>1. p[i] \in Range(p) /\ p[i] \in Nat /\ q[j - Len(p)] \in Range(q)
          /\ q[j - Len(p)] \in Nat
      BY <1>3, <2>2
    <3>2. cursor <= p[i] /\ q[j - Len(p)] < cursor
      BY <3>1
    <3> QED BY <1>2, <2>2, <3>1, <3>2
  <2>3. CASE i - Len(p) \in 1 .. Len(q) /\ s[i] = q[i - Len(p)]
             /\ j - Len(p) \in 1 .. Len(q) /\ s[j] = q[j - Len(p)]
    <3>1. i - Len(p) < j - Len(p)
      BY <1>1
    <3> QED BY <1>1, <2>3, <3>1 DEF descending
  <2>4. CASE i > Len(p) /\ j \in 1 .. Len(p)
    BY <1>1, <2>4
  <2> QED BY <1>4, <2>1, <2>2, <2>3, <2>4
<1>6. Range(s) = Range(p) \cup Range(q)
  <2>1. \A m \in Range(s) : m \in Range(p) \cup Range(q)
    BY <1>1, <1>4 DEF Range
  <2>2. \A i \in 1 .. Len(p) : i \in 1 .. Len(s) /\ s[i] = p[i]
    BY <1>1
  <2>3. \A i \in 1 .. Len(q) : i + Len(p) \in 1 .. Len(s) /\ s[i + Len(p)] = q[i]
    BY <1>1
  <2>4. \A m \in Range(p) : m \in Range(s)
    BY <1>1, <2>2 DEF Range
  <2>5. \A m \in Range(q) : m \in Range(s)
    BY <1>1, <2>3 DEF Range
  <2> QED BY <2>1, <2>4, <2>5
<1>7. \A m \in Range(p) \cup Range(q) : m \in Nat
  BY <1>1, <1>3 DEF Range
<1>8. \A m \in Range(s) : next <= m
  BY <1>2, <1>6, <1>7 DEF NoMore
<1>9. Range(p) \cap Range(q) = {}
  BY <1>2, <1>7
<1> QED BY <1>5, <1>6, <1>8, <1>9 DEF Joined, s

\* The next page has come.
LEMMA MoreAnswered ==
    ASSUME AccountSound, NEW n \in Slots, page.calls[n].kind = "more",
           page.calls[n].current, page.calls[n].alive, page.calls[n].answer.status = "ok"
    PROVE  Sound(onMore(freed(n), page.calls[n]), server)
<1> DEFINE c == page.calls[n]
           h == page.history
           g == listLoaded(h, c, TRUE)
           v == with(freed(n), g)
           R == Range(c.answer.rows)
           S == Range(h.matches)
<1>1. /\ c.kind \in historyKinds /\ c.kind \in listKinds /\ c.alive /\ served(c, listKinds)
      /\ served(c, {"more"})
      /\ waiting(c, {"more"}) /\ waiting(c, listKinds)
      /\ ~waiting(c, {"list"}) /\ ~waiting(c, {"detail"})
  BY DEF historyKinds, listKinds, waiting, served
<1>2. onMore(freed(n), c) = v
  <2>1. freed(n).history = h
    BY FreedFields DEF Beside
  <2>2. c.answer.status = "ok" /\ ~isExpired(c)
    BY DEF isExpired
  <2> DEFINE x == freed(n)
  <2> HIDE DEF x, c, h, g
  <2>3. onMore(x, c) = with(x, listLoaded(x.history, c, TRUE))
    BY <2>2 DEF onMore
  <2> QED BY <2>1, <2>3 DEF x, g
<1>3. /\ c \in Call /\ h \in Shelf /\ c.arg.filter \in Filters
      /\ ShelfRead(c, server) /\ ShelfDue(c, h) /\ StarRead(c, server)
      /\ HistoryCalls(page, server) /\ HistoryRows(page, server) /\ Stars(page, server)
      /\ c.sid = page.cookie
  <2>1. /\ c \in Call /\ h \in Shelf /\ c.sid = page.cookie
        /\ ShelfRead(c, server) /\ ShelfDue(c, h) /\ StarRead(c, server)
        /\ HistoryCalls(page, server) /\ HistoryRows(page, server) /\ Stars(page, server)
    <3>1. h \in Shelf
      BY PageParts DEF AccountSound, Sound
    <3> QED BY <1>1, <3>1, ShelfHeard
  <2> QED BY <1>1, <2>1 DEF ShelfRead
<1>4. /\ g \in Shelf /\ g.filter = h.filter /\ g.listStatus = "ready"
      /\ g.next = c.answer.next /\ ~g.loadingMore /\ g.selected = h.selected
      /\ g.detail = h.detail /\ g.detailStatus = h.detailStatus
      /\ g.detailStarred = h.detailStarred /\ g.pending = h.pending
      /\ g.wanted = h.wanted /\ g.shown = c.arg.filter /\ g.owner = c.answer.user
      /\ g.doubt = (h.doubt \ (R \ h.pending)) \cup (c.overtaken \cap (R \ h.pending))
      /\ g.matches = h.matches \o c.answer.rows /\ g.since = h.since
      /\ g.starred = h.starred \cup c.answer.starred
  <2>1. Loaded(g, h, c, TRUE)
    BY <1>3, LoadedFields
  <2> HIDE DEF c, h, g
  <2> QED BY <2>1 DEF Loaded
<1> HIDE DEF c, h, g
<1>5. /\ v.history = g /\ v.cookie = page.cookie /\ v.calls[n] = noCall
      /\ \A i \in Slots \ {n} : v.calls[i] = page.calls[i]
      /\ /\ \A i \in Slots \ {n} : ShelfDue(page.calls[i], g)
         /\ HistoryRows(v, server) /\ Stars(v, server)
         => Sound(v, server)
  <2>1. ~("expired" \in {g.listStatus, g.detailStatus})
           \/ "expired" \in {h.listStatus, h.detailStatus}
    BY <1>4
  <2> QED BY <1>1, <1>4, <2>1, ShelfHeard DEF c, h
<1> HIDE DEF v, R, S
<1>6. /\ c.arg.cursor = h.next /\ listOf(h) /\ c.arg.filter = h.filter
      /\ h.filter = "all" => h.since \subseteq c.answer.seen
      /\ PageRead(c) /\ c.answer.seen \subseteq server.rows["matches"]
      /\ c.answer.starred \subseteq R
      /\ c.sid # NoSid /\ c.answer.user = server.owner[c.sid]
  BY <1>1, <1>3 DEF ShelfDue, ShelfRead, served, listKinds, R
<1>7. /\ h.starred \subseteq S /\ h.selected = h.wanted /\ h.since \subseteq server.rows["matches"]
      /\ h.detail # NoMatch => h.detail = h.selected
      /\ h.detailStatus = "ready" => h.detail # NoMatch
      /\ h.selected # NoMatch => h.next <= h.selected
  BY <1>3 DEF HistoryRows, h, S
<1>8. \A i \in Slots \ {n} :
        /\ ~waiting(page.calls[i], listKinds) /\ ~waiting(page.calls[i], {"list"})
        /\ ~waiting(page.calls[i], {"more"})
  <2>1. Sole(page, listKinds)
    BY <1>3 DEF HistoryCalls
  <2>2. \A i \in Slots \ {n} : ~waiting(page.calls[i], listKinds)
    BY <1>1, <2>1, SoleWaiting DEF c
  <2> QED BY <2>2 DEF waiting, listKinds
<1>9. \A i \in Slots \ {n} : ShelfDue(page.calls[i], g)
  BY <1>3, <1>4, <1>8 DEF HistoryCalls, ShelfDue, h
<1>10. /\ h.next \in Nat /\ c.answer.next \in Nat /\ h.selected \in Nat
       /\ h.next \in MatchesOrNone /\ c.answer.next \in MatchesOrNone
       /\ h.matches \in Seq(Matches) /\ c.answer.rows \in Seq(Matches)
       /\ c.answer.seen \subseteq Nat /\ h.since \subseteq Nat
  <2>1. /\ h.next \in MatchesOrNone /\ c.answer.next \in MatchesOrNone
        /\ h.selected \in MatchesOrNone
        /\ h.matches \in Seq(Matches) /\ c.answer.rows \in Seq(Matches)
        /\ c.answer.seen \subseteq Matches /\ h.since \subseteq Matches
    BY <1>3 DEF Shelf, Call, Reply
  <2> QED BY <2>1, Bounds DEF Matches, MatchesOrNone
<1>11. /\ descending(h.matches) /\ descending(c.answer.rows)
       /\ \A m \in S : h.next <= m
       /\ \A m \in R : c.answer.next <= m /\ m < h.next
       /\ c.answer.next = NoMore \/ c.answer.next < h.next
  BY <1>6 DEF listOf, Joined, PageRead, S, R
<1>12. Joined(g.matches, g.next) /\ Range(g.matches) = S \cup R /\ S \cap R = {}
  BY <1>4, <1>10, <1>11, RowsJoined DEF S, R
<1>13. listOf(g)
  <2>1. ASSUME g.filter = "all" PROVE noGap(g.matches, g.next, g.since)
    <3> SUFFICES ASSUME NEW m \in h.since, m > NoMore, m >= c.answer.next PROVE m \in S \cup R
      BY <1>4, <1>12 DEF noGap
    <3>1. m \in Nat
      BY <1>10
    <3>2. CASE m >= h.next
      BY <1>4, <1>6, <2>1, <3>2 DEF listOf, noGap, S
    <3>3. CASE m < h.next
      <4>1. m \in c.answer.seen /\ c.answer.next <= m
        BY <1>4, <1>6, <1>10, <2>1, <3>1
      <4> QED BY <1>6, <3>3, <4>1 DEF PageRead, R
    <3> QED BY <1>10, <3>1, <3>2, <3>3
  <2> QED BY <1>4, <1>6, <1>12, <2>1 DEF listOf
<1>14. h.selected # NoMatch => c.answer.next <= h.selected /\ h.selected \notin R
  <2> SUFFICES ASSUME h.selected # NoMatch
               PROVE  c.answer.next <= h.selected /\ h.selected \notin R
    OBVIOUS
  <2>1. h.next <= h.selected
    BY <1>7
  <2>2. c.answer.next <= h.selected
    BY <1>10, <1>11, <2>1 DEF NoMore
  <2>3. h.selected \notin R
    BY <1>10, <1>11, <2>1
  <2> QED BY <2>2, <2>3
<1>15. HistoryRows(v, server)
  <2>1. g.detailStatus = "loading" => \E i \in Slots : waiting(v.calls[i], {"detail"})
    BY <1>1, <1>3, <1>4, <1>5 DEF HistoryRows, h, c
  <2>2. g.starred \subseteq Range(g.matches)
    BY <1>4, <1>6, <1>7, <1>12
  <2>3. /\ g.since \subseteq server.rows["matches"] /\ g.selected = g.wanted
        /\ g.detail # NoMatch => g.detail = g.selected
        /\ g.detailStatus = "ready" => g.detail # NoMatch
        /\ g.selected # NoMatch => g.next <= g.selected
        /\ g.owner = server.owner[page.cookie] /\ page.cookie # NoSid
        /\ g.listStatus # "loading" /\ ~g.loadingMore
    BY <1>3, <1>4, <1>6, <1>7, <1>14
  <2> QED BY <1>5, <1>13, <2>1, <2>2, <2>3 DEF HistoryRows
<1>16. Stars(v, server)
  <2> DEFINE stars == server.starred[server.owner[page.cookie]]
  <2>1. /\ \A m \in R : m \notin g.pending \cup g.doubt => (m \in c.answer.starred <=> m \in stars)
        /\ \A m : m \notin R \/ m \in h.pending => (m \in g.doubt <=> m \in h.doubt)
    BY <1>1, <1>3, <1>4, RowsRead DEF R
  <2>2. noCall.kind # "star"
    BY NoCallTypes
  <2>3. \A i \in Slots : v.calls[i].kind = "star" => v.calls[i] = page.calls[i]
    BY <1>5, <2>2
  <2>4. \A i \in Slots : v.calls[i].kind = "star" /\ v.calls[i].alive =>
            /\ v.calls[i].arg.match \in h.pending
            /\ v.calls[i].arg.match \notin g.doubt => v.calls[i].arg.match \notin h.doubt
    BY <1>3, <2>1, <2>3 DEF Stars, h
  <2>5. \A m \in Range(g.matches) : m \notin g.pending \cup g.doubt =>
            (m \in g.starred <=> m \in stars)
    <3> SUFFICES ASSUME NEW m \in S \cup R, m \notin g.pending \cup g.doubt
                 PROVE  m \in g.starred <=> m \in stars
      BY <1>12
    <3>1. CASE m \in R
      <4>1. m \notin h.starred
        BY <1>7, <1>12, <3>1
      <4> QED BY <1>4, <2>1, <3>1, <4>1
    <3>2. CASE m \in S /\ m \notin R
      <4>1. m \notin h.pending \cup h.doubt /\ m \notin c.answer.starred
        BY <1>4, <1>6, <2>1, <3>2
      <4>2. m \in h.starred <=> m \in stars
        BY <1>3, <3>2, <4>1 DEF Stars, S, h
      <4> QED BY <1>4, <4>1, <4>2
    <3> QED BY <3>1, <3>2
  <2>6. g.detail # NoMatch /\ g.detail \notin g.pending \cup g.doubt =>
            (g.detailStarred <=> g.detail \in stars)
    <3>1. g.detail # NoMatch => g.detail \notin R
      BY <1>4, <1>7, <1>14
    <3> QED BY <1>3, <1>4, <2>1, <3>1 DEF Stars, h
  <2>7. \A i \in Slots : v.calls[i].kind = "star" /\ v.calls[i].alive =>
            LET d == v.calls[i]
            IN  /\ d.arg.match \in g.pending /\ page.cookie # NoSid
                /\ d.arg.match \notin g.doubt =>
                    /\ d.answer.status = "ok" => (d.arg.match \in stars <=> d.arg.flag)
                    /\ d.answer.status # "ok" /\ ~d.lost =>
                        (d.arg.match \in stars <=> ~d.arg.flag)
    BY <1>3, <1>4, <2>3, <2>4 DEF Stars, h
  <2>8. \A i, j \in Slots :
            /\ v.calls[i].kind = "star" /\ v.calls[i].alive
            /\ v.calls[j].kind = "star" /\ v.calls[j].alive
            /\ v.calls[i].arg.match = v.calls[j].arg.match
            => i = j
    BY <1>3, <2>3 DEF Stars
  <2> QED BY <1>5, <2>5, <2>6, <2>7, <2>8 DEF Stars
<1> QED BY <1>2, <1>5, <1>9, <1>15, <1>16 DEF c

\* A match has come, or has not.
LEMMA DetailAnswered ==
    ASSUME AccountSound, NEW n \in Slots, page.calls[n].kind = "detail",
           page.calls[n].current, page.calls[n].alive
    PROVE  Sound(onDetail(freed(n), page.calls[n]), server)
<1> DEFINE c == page.calls[n]
           h == page.history
           ok == c.answer.status = "ok"
           m == c.arg.match
           status == IF ok THEN "ready" ELSE IF c.answer.status = "expired" THEN "expired" ELSE "error"
           starred == m \in c.answer.starred
           doubt == h.doubt \cup (c.overtaken \cap ({m} \ h.pending))
           g == IF ok THEN detailLoaded(h, c) ELSE [h EXCEPT !.detailStatus = status]
           v == with(freed(n), g)
<1>1. /\ c.kind \in historyKinds /\ c.alive /\ waiting(c, {"detail"})
      /\ ~waiting(c, listKinds) /\ ~waiting(c, {"list"}) /\ ~waiting(c, {"more"})
      /\ ok => served(c, {"detail"}) /\ served(c, {"list", "more", "detail"})
  BY DEF historyKinds, listKinds, waiting, served
<1>2. onDetail(freed(n), c) = v
  <2>1. freed(n).history = h
    BY FreedFields DEF Beside
  <2> QED BY <2>1 DEF onDetail, isExpired
<1>3. /\ c \in Call /\ h \in Shelf
      /\ ShelfRead(c, server) /\ ShelfDue(c, h) /\ StarRead(c, server)
      /\ HistoryCalls(page, server) /\ HistoryRows(page, server) /\ Stars(page, server)
      /\ c.sid = page.cookie
  <2>1. h \in Shelf
    BY PageParts DEF AccountSound, Sound
  <2> QED BY <1>1, <2>1, ShelfHeard
<1>4. m = h.selected /\ h.selected # NoMatch /\ m \in MatchesOrNone
  BY <1>1, <1>3 DEF ShelfDue, Call, Arg
<1>5. /\ g \in Shelf /\ g.filter = h.filter /\ g.listStatus = h.listStatus
      /\ g.matches = h.matches /\ g.starred = h.starred /\ g.next = h.next
      /\ g.loadingMore = h.loadingMore /\ g.selected = h.selected /\ g.detailStatus = status
      /\ g.pending = h.pending
      /\ g.since = h.since /\ g.shown = h.shown /\ g.wanted = h.wanted /\ g.owner = h.owner
      /\ ok => /\ g.detail = m /\ (g.detailStarred <=> m \in c.answer.starred)
               /\ g.doubt = doubt
      /\ ~ok => g.detail = h.detail /\ g.detailStarred = h.detailStarred /\ g.doubt = h.doubt
  <2>1. doubt \subseteq Matches /\ starred \in BOOLEAN
    BY <1>3 DEF Shelf, Call
  <2>2. CASE ok
    <3>1. g = [h EXCEPT !.selected = m, !.detailStatus = "ready", !.detail = m,
                        !.detailStarred = starred, !.doubt = doubt]
      BY <2>2 DEF detailLoaded
    <3>2. status = "ready" /\ (starred <=> m \in c.answer.starred)
      BY <2>2
    <3> HIDE DEF g, doubt, starred, status, ok
    <3>3. /\ g \in Shelf /\ g.filter = h.filter /\ g.listStatus = h.listStatus
          /\ g.matches = h.matches /\ g.starred = h.starred /\ g.next = h.next
          /\ g.loadingMore = h.loadingMore /\ g.selected = m /\ g.detailStatus = "ready"
          /\ g.pending = h.pending
          /\ g.since = h.since /\ g.shown = h.shown /\ g.wanted = h.wanted
          /\ g.owner = h.owner /\ g.detail = m /\ g.detailStarred = starred /\ g.doubt = doubt
      BY <1>3, <1>4, <2>1, <3>1 DEF Shelf
    <3> QED BY <1>4, <2>2, <3>2, <3>3
  <2>3. CASE ~ok
    <3>1. g = [h EXCEPT !.detailStatus = status] /\ status \in {"expired", "error"}
      BY <2>3
    <3> HIDE DEF g, doubt, starred, status, ok
    <3> QED BY <1>3, <2>3, <3>1 DEF Shelf
  <2> QED BY <2>2, <2>3
<1>6. status # "loading" /\ (status = "ready" <=> ok)
      /\ (status = "expired" => c.answer.status = "expired")
  OBVIOUS
<1> HIDE DEF c, h, g, status
<1>7. /\ v.history = g /\ v.cookie = page.cookie /\ v.calls[n] = noCall
      /\ \A i \in Slots \ {n} : v.calls[i] = page.calls[i]
      /\ /\ \A i \in Slots \ {n} : ShelfDue(page.calls[i], g)
         /\ HistoryRows(v, server) /\ Stars(v, server)
         => Sound(v, server)
  <2>1. "expired" \in {g.listStatus, g.detailStatus} =>
            "expired" \in {h.listStatus, h.detailStatus} \/ c.answer.status = "expired"
    BY <1>5, <1>6
  <2> QED BY <1>1, <1>5, <2>1, ShelfHeard DEF c, h
<1> HIDE DEF v
<1>8. listOf(h) <=> listOf(g)
  BY <1>5 DEF listOf
<1>9. \A i \in Slots \ {n} : ShelfDue(page.calls[i], g)
  BY <1>3, <1>5, <1>8 DEF HistoryCalls, ShelfDue, h
<1>10. HistoryRows(v, server)
  <2>1. \A kinds \in {{"list"}, {"more"}} :
            (\E i \in Slots : waiting(page.calls[i], kinds)) =>
                \E i \in Slots : waiting(v.calls[i], kinds)
    BY <1>1, <1>7 DEF c
  <2> QED BY <1>3, <1>4, <1>5, <1>6, <1>7, <1>8, <2>1 DEF HistoryRows, h
<1>11. Stars(v, server)
  <2> DEFINE stars == server.starred[server.owner[page.cookie]]
  <2>1. noCall.kind # "star"
    BY NoCallTypes
  <2>2. \A i \in Slots : v.calls[i].kind = "star" => v.calls[i] = page.calls[i]
    BY <1>7, <2>1
  <2>3. h.doubt \subseteq g.doubt
    BY <1>5
  <2>4. g.detail # NoMatch /\ g.detail \notin g.pending \cup g.doubt =>
            (g.detailStarred <=> g.detail \in stars)
    <3>1. CASE ok
      <4>1. c.answer.user = server.owner[page.cookie]
        BY <1>1, <1>3, <3>1 DEF ShelfRead
      <4>2. m \notin c.overtaken => (m \in c.answer.starred <=> m \in stars)
        BY <1>1, <1>3, <3>1, <4>1 DEF StarRead
      <4> QED BY <1>5, <3>1, <4>2
    <3>2. CASE ~ok
      BY <1>3, <1>5, <3>2 DEF Stars, h
    <3> QED BY <3>1, <3>2
  <2>5. \A k \in Range(g.matches) : k \notin g.pending \cup g.doubt =>
            (k \in g.starred <=> k \in stars)
    BY <1>3, <1>5, <2>3 DEF Stars, h
  <2> HIDE DEF ok, m, doubt, starred
  <2> QED BY <1>3, <1>5, <1>7, <2>2, <2>3, <2>4, <2>5 DEF Stars, h
<1> QED BY <1>2, <1>7, <1>9, <1>10, <1>11 DEF c

\* A row that leaves the list.
LEMMA RowDropped ==
    ASSUME NEW q \in Seq(Matches), NEW m
    PROVE  LET r == RemoveFirst(q, m)
           IN  /\ r \in Seq(Matches) /\ Range(r) \subseteq Range(q)
               /\ Range(q) \ {m} \subseteq Range(r)
               /\ descending(q) => descending(r)
               /\ q = <<>> => r = <<>>
<1> DEFINE r == RemoveFirst(q, m)
           I == {i \in 1 .. Len(q) : q[i] = m}
           k == SelectInSeq(q, LAMBDA v : v = m)
<1>1. Len(q) \in Nat /\ DOMAIN q = 1 .. Len(q) /\ q \in [1 .. Len(q) -> Matches]
  OBVIOUS
<1>2. CASE I = {}
  <2>1. r = q
    BY <1>2 DEF RemoveFirst
  <2> QED BY <2>1
<1>3. CASE I # {}
  <2>1. k \in I
    <3>1. k = Min(I)
      BY <1>3 DEF SelectInSeq
    <3>2. I \in SUBSET Nat
      BY <1>1
    <3>3. \E i \in I : \A j \in I : i <= j
      BY <1>3, <3>2, FirstOf
    <3> QED BY <3>1, <3>3 DEF Min
  <2>2. r = SubSeq(q, 1, k - 1) \o SubSeq(q, k + 1, Len(q))
    BY <1>3 DEF RemoveFirst, RemoveAt
  <2>3. k \in 1 .. Len(q) /\ k \in Nat /\ q[k] = m /\ q # <<>>
    BY <1>1, <2>1
  <2> HIDE DEF k, I, r
  <2> DEFINE a == SubSeq(q, 1, k - 1)
             b == SubSeq(q, k + 1, Len(q))
  <2>4. /\ a \in Seq(Matches) /\ Len(a) = k - 1
        /\ \A i \in 1 .. k - 1 : a[i] = q[i]
    BY <1>1, <2>3
  <2>5. /\ b \in Seq(Matches) /\ Len(b) = Len(q) - k
        /\ \A i \in 1 .. Len(q) - k : b[i] = q[i + k]
    <3>1. \A i \in k + 1 .. Len(q) : q[i] \in Matches
      BY <1>1, <2>3
    <3>2. k + 1 \in Int /\ Len(q) \in Int /\ k <= Len(q)
      BY <1>1, <2>3
    <3>3. /\ b \in Seq(Matches)
          /\ Len(b) = IF k + 1 <= Len(q) THEN Len(q) - (k + 1) + 1 ELSE 0
          /\ \A i \in 1 .. Len(q) - (k + 1) + 1 : b[i] = q[(k + 1) + i - 1]
      BY <3>1, <3>2, SubSeqProperties
    <3> HIDE DEF b
    <3> QED BY <2>3, <3>2, <3>3
  <2> HIDE DEF a, b
  <2>6. /\ r \in Seq(Matches) /\ Len(r) = Len(q) - 1 /\ DOMAIN r = 1 .. Len(q) - 1
        /\ \A i \in 1 .. Len(q) - 1 : r[i] = IF i < k THEN q[i] ELSE q[i + 1]
    <3>1. r = a \o b
      BY <2>2 DEF a, b
    <3>2. /\ r \in Seq(Matches) /\ Len(r) = Len(a) + Len(b)
          /\ \A i \in 1 .. Len(r) : r[i] = IF i <= Len(a) THEN a[i] ELSE b[i - Len(a)]
      <4>1. a \in Seq(Matches) /\ b \in Seq(Matches)
        BY <2>4, <2>5
      <4> QED BY <3>1, <4>1
    <3>3. Len(r) = Len(q) - 1 /\ DOMAIN r = 1 .. Len(q) - 1
      <4>1. Len(r) = Len(q) - 1
        BY <1>1, <2>3, <2>4, <2>5, <3>2
      <4> QED BY <3>2, <4>1
    <3>4. ASSUME NEW i \in 1 .. Len(q) - 1
          PROVE  r[i] = IF i < k THEN q[i] ELSE q[i + 1]
      <4>1. CASE i < k
        <5>1. i \in 1 .. k - 1 /\ i <= Len(a)
          BY <1>1, <2>3, <2>4, <4>1
        <5> QED BY <2>4, <3>2, <3>3, <4>1, <5>1
      <4>2. CASE ~(i < k)
        <5>1. ~(i <= Len(a)) /\ i - Len(a) \in 1 .. Len(q) - k /\ (i - Len(a)) + k = i + 1
          BY <1>1, <2>3, <2>4, <4>2
        <5>2. r[i] = b[i - Len(a)]
          BY <3>2, <3>3, <5>1
        <5> QED BY <2>5, <4>2, <5>1, <5>2
      <4> QED BY <4>1, <4>2
    <3> QED BY <3>2, <3>3, <3>4
  <2>7. \A i \in 1 .. Len(q) - 1 :
            /\ i \in 1 .. Len(q) /\ i + 1 \in 1 .. Len(q)
            /\ r[i] = q[i] \/ r[i] = q[i + 1]
    BY <1>1, <2>3, <2>6
  <2>8. \A x \in Range(r) : x \in Range(q)
    BY <1>1, <2>6, <2>7 DEF Range
  <2>9. ASSUME NEW x \in Range(q), x # m PROVE x \in Range(r)
    <3>1. PICK i \in 1 .. Len(q) : q[i] = x
      BY <1>1 DEF Range
    <3>2. CASE i < k
      <4>1. i \in 1 .. Len(q) - 1 /\ r[i] = x
        BY <1>1, <2>3, <2>6, <3>1, <3>2
      <4> QED BY <2>6, <4>1 DEF Range
    <3>3. CASE i > k
      <4>1. i - 1 \in 1 .. Len(q) - 1 /\ ~(i - 1 < k) /\ (i - 1) + 1 = i
        BY <1>1, <2>3, <3>3
      <4>2. r[i - 1] = x
        BY <2>6, <3>1, <4>1
      <4> QED BY <2>6, <4>1, <4>2 DEF Range
    <3>4. i # k
      BY <2>3, <2>9, <3>1
    <3> QED BY <2>3, <3>2, <3>3, <3>4
  <2>10. ASSUME descending(q) PROVE descending(r)
    <3> SUFFICES ASSUME NEW i \in 1 .. Len(q) - 1, NEW j \in 1 .. Len(q) - 1, i < j
                 PROVE  r[i] > r[j]
      BY <2>6 DEF descending
    <3> DEFINE f(x) == IF x < k THEN x ELSE x + 1
    <3>1. f(i) \in 1 .. Len(q) /\ f(j) \in 1 .. Len(q) /\ f(i) < f(j)
      BY <1>1, <2>3
    <3>2. r[i] = q[f(i)] /\ r[j] = q[f(j)]
      BY <2>6
    <3> HIDE DEF f
    <3> QED BY <1>1, <2>10, <3>1, <3>2 DEF descending
  <2> QED BY <2>3, <2>6, <2>8, <2>9, <2>10 DEF r
<1> QED BY <1>2, <1>3

\* The star of a match is settled, on its row and in the detail.
StarSettled(g, h, m, b) ==
    /\ g \in Shelf /\ Range(g.matches) \subseteq Range(h.matches)
    /\ \A k \in Matches \ {m} : k \in g.starred <=> k \in h.starred
    /\ m \in Range(h.matches) => (m \in g.starred <=> b)
    /\ g.starred \subseteq Range(g.matches)
    /\ listOf(h) => listOf(g)
    /\ h.matches = <<>> => g.matches = <<>>
    /\ g.detailStarred = IF h.detail = m THEN b ELSE h.detailStarred
    /\ g.filter = h.filter /\ g.next = h.next /\ g.selected = h.selected
    /\ g.detail = h.detail /\ g.pending = h.pending \ {m} /\ g.since = h.since
    /\ g.wanted = h.wanted /\ g.owner = h.owner

\* A bookmark that was saved.
LEMMA SavedFields ==
    ASSUME NEW h \in Shelf, NEW m \in Matches, NEW b \in BOOLEAN,
           h.starred \subseteq Range(h.matches)
    PROVE  LET g == bookmarkSaved(h, m, b)
           IN  /\ StarSettled(g, h, m, b)
               /\ g.listStatus = h.listStatus /\ g.loadingMore = h.loadingMore
               /\ g.detailStatus = h.detailStatus /\ g.doubt = h.doubt
<1> DEFINE s == setBookmark(h, m, b)
           dropped == h.filter = "interesting" /\ ~b
           q == IF dropped THEN RemoveFirst(s.matches, m) ELSE s.matches
           p == s.pending \ {m}
           g == bookmarkSaved(h, m, b)
<1>1. /\ s \in Shelf /\ \A n \in Matches \ {m} : n \in s.starred <=> n \in h.starred
      /\ m \in Range(h.matches) => (m \in s.starred <=> b)
      /\ s.starred \subseteq Range(h.matches)
      /\ s.detailStarred = IF h.detail = m THEN b ELSE h.detailStarred
      /\ s.filter = h.filter /\ s.listStatus = h.listStatus /\ s.matches = h.matches
      /\ s.next = h.next /\ s.loadingMore = h.loadingMore /\ s.selected = h.selected
      /\ s.detailStatus = h.detailStatus /\ s.detail = h.detail
      /\ s.pending = h.pending /\ s.since = h.since /\ s.shown = h.shown
      /\ s.wanted = h.wanted /\ s.owner = h.owner /\ s.doubt = h.doubt
  BY BookmarkFields
<1>2. s.starred \subseteq Matches /\ s.matches \in Seq(Matches) /\ p \subseteq Matches
  BY <1>1 DEF Shelf
<1>3. g = [s EXCEPT !.matches = q, !.pending = p]
  BY DEF bookmarkSaved
<1> HIDE DEF s, g
<1>4. /\ q \in Seq(Matches) /\ Range(q) \subseteq Range(h.matches)
      /\ Range(h.matches) \ {m} \subseteq Range(q)
      /\ descending(h.matches) => descending(q)
      /\ h.matches = <<>> => q = <<>>
      /\ ~dropped => q = h.matches
  BY <1>1, <1>2, RowDropped
<1>5. h.filter = "all" => ~dropped
  OBVIOUS
<1>6. dropped => ~b
  OBVIOUS
<1> HIDE DEF q, p, dropped
<1>7. /\ g \in Shelf /\ g.matches = q /\ g.starred = s.starred
      /\ g.detailStarred = s.detailStarred
      /\ g.filter = s.filter /\ g.listStatus = s.listStatus
      /\ g.next = s.next /\ g.loadingMore = s.loadingMore /\ g.selected = s.selected
      /\ g.detailStatus = s.detailStatus /\ g.detail = s.detail
      /\ g.pending = p /\ g.since = s.since /\ g.shown = s.shown
      /\ g.wanted = s.wanted /\ g.owner = s.owner /\ g.doubt = s.doubt
  BY <1>1, <1>2, <1>3, <1>4 DEF Shelf
<1>8. g.starred \subseteq Range(g.matches)
  <2> SUFFICES ASSUME NEW x \in s.starred PROVE x \in Range(q)
    BY <1>7
  <2>1. x \in Range(h.matches)
    BY <1>1
  <2>2. x = m => b
    BY <1>1, <2>1
  <2> QED BY <1>4, <1>6, <2>1, <2>2
<1>9. listOf(h) => listOf(g)
  <2> SUFFICES ASSUME listOf(h) PROVE listOf(g)
    OBVIOUS
  <2>1. Joined(q, h.next)
    BY <1>4 DEF listOf, Joined
  <2>2. h.filter = "all" => noGap(q, h.next, h.since)
    BY <1>4, <1>5 DEF listOf
  <2>3. h.shown = h.filter
    BY DEF listOf
  <2> QED BY <1>1, <1>7, <2>1, <2>2, <2>3 DEF listOf
<1>10. p = h.pending \ {m}
  BY <1>1 DEF p
<1> QED BY <1>1, <1>4, <1>7, <1>8, <1>9, <1>10 DEF StarSettled, g

\* One that was not: the star goes back.
Unsaved(h, m, b, lost, over) ==
    LET failed == bookmarkFailed(h, m, b)
        unsure == IF lost THEN [failed EXCEPT !.doubt = @ \cup {m}] ELSE failed
    IN  IF over THEN sessionExpired(unsure) ELSE unsure

StarBack(g, h, m, b, lost, over) ==
    /\ StarSettled(g, h, m, b)
    /\ g.doubt = IF lost THEN h.doubt \cup {m} ELSE h.doubt
    /\ over =>
        /\ g.listStatus = "expired" /\ ~g.loadingMore
        /\ g.detailStatus = IF h.selected # NoMatch THEN "expired" ELSE h.detailStatus
    /\ ~over =>
        /\ g.listStatus = h.listStatus /\ g.loadingMore = h.loadingMore
        /\ g.detailStatus = h.detailStatus

LEMMA UnsavedFields ==
    ASSUME NEW h \in Shelf, NEW m \in Matches, NEW b \in BOOLEAN, NEW lost, NEW over,
           h.starred \subseteq Range(h.matches)
    PROVE  LET g == Unsaved(h, m, b, lost, over)
           IN  StarBack(g, h, m, b, lost, over)
<1> DEFINE s == setBookmark(h, m, b)
           p == s.pending \ {m}
           e == s.errors \cup {m}
           d == IF lost THEN s.doubt \cup {m} ELSE s.doubt
           ls == IF over THEN "expired" ELSE s.listStatus
           lm == IF over THEN FALSE ELSE s.loadingMore
           ds == IF over /\ s.selected # NoMatch THEN "expired" ELSE s.detailStatus
           failed == bookmarkFailed(h, m, b)
           unsure == IF lost THEN [failed EXCEPT !.doubt = @ \cup {m}] ELSE failed
           g == IF over THEN sessionExpired(unsure) ELSE unsure
<1>1. /\ s \in Shelf /\ \A n \in Matches \ {m} : n \in s.starred <=> n \in h.starred
      /\ m \in Range(h.matches) => (m \in s.starred <=> b)
      /\ s.starred \subseteq Range(h.matches)
      /\ s.detailStarred = IF h.detail = m THEN b ELSE h.detailStarred
      /\ s.filter = h.filter /\ s.listStatus = h.listStatus /\ s.matches = h.matches
      /\ s.next = h.next /\ s.loadingMore = h.loadingMore /\ s.selected = h.selected
      /\ s.detailStatus = h.detailStatus /\ s.detail = h.detail
      /\ s.pending = h.pending /\ s.since = h.since /\ s.shown = h.shown
      /\ s.wanted = h.wanted /\ s.owner = h.owner /\ s.doubt = h.doubt
  BY BookmarkFields
<1> HIDE DEF s
<1>2. /\ failed \in Shelf /\ failed.pending = p /\ failed.starred = s.starred
      /\ failed.detailStarred = s.detailStarred /\ failed.filter = s.filter
      /\ failed.listStatus = s.listStatus /\ failed.matches = s.matches
      /\ failed.next = s.next /\ failed.loadingMore = s.loadingMore
      /\ failed.selected = s.selected /\ failed.detailStatus = s.detailStatus
      /\ failed.detail = s.detail /\ failed.since = s.since /\ failed.shown = s.shown
      /\ failed.wanted = s.wanted /\ failed.owner = s.owner /\ failed.doubt = s.doubt
  <2>1. failed = [s EXCEPT !.pending = p, !.errors = e]
    BY DEF bookmarkFailed, s
  <2>2. p \subseteq Matches /\ e \subseteq Matches
    BY <1>1 DEF Shelf
  <2> HIDE DEF failed, p, e
  <2> QED BY <1>1, <2>1, <2>2 DEF Shelf
<1> HIDE DEF failed
<1>3. /\ unsure \in Shelf /\ unsure.pending = p /\ unsure.starred = s.starred
      /\ unsure.detailStarred = s.detailStarred /\ unsure.filter = s.filter
      /\ unsure.listStatus = s.listStatus /\ unsure.matches = s.matches
      /\ unsure.next = s.next /\ unsure.loadingMore = s.loadingMore
      /\ unsure.selected = s.selected /\ unsure.detailStatus = s.detailStatus
      /\ unsure.detail = s.detail /\ unsure.since = s.since /\ unsure.shown = s.shown
      /\ unsure.wanted = s.wanted /\ unsure.owner = s.owner /\ unsure.doubt = d
  <2>1. CASE lost
    <3> DEFINE u == failed.doubt \cup {m}
    <3>1. unsure = [failed EXCEPT !.doubt = u] /\ u \subseteq Matches /\ d = u
      BY <1>2, <2>1 DEF Shelf
    <3> HIDE DEF unsure, u, d
    <3> QED BY <1>2, <3>1 DEF Shelf
  <2>2. CASE ~lost
    BY <1>2, <2>2
  <2> QED BY <2>1, <2>2
<1> HIDE DEF unsure, d, p
<1>4. /\ g \in Shelf /\ g.pending = p /\ g.starred = s.starred
      /\ g.detailStarred = s.detailStarred /\ g.filter = s.filter /\ g.matches = s.matches
      /\ g.next = s.next /\ g.selected = s.selected
      /\ g.detail = s.detail /\ g.since = s.since /\ g.shown = s.shown
      /\ g.wanted = s.wanted /\ g.owner = s.owner /\ g.doubt = d
      /\ over => /\ g.listStatus = "expired" /\ ~g.loadingMore
                 /\ g.detailStatus = IF s.selected # NoMatch THEN "expired" ELSE s.detailStatus
      /\ ~over => /\ g.listStatus = s.listStatus /\ g.loadingMore = s.loadingMore
                  /\ g.detailStatus = s.detailStatus
  <2>1. CASE over
    <3> DEFINE t == IF s.selected # NoMatch THEN "expired" ELSE s.detailStatus
    <3>1. g = [unsure EXCEPT !.listStatus = "expired", !.loadingMore = FALSE,
                             !.detailStatus = t]
      BY <1>3, <2>1 DEF sessionExpired
    <3>2. t \in {"idle", "loading", "ready", "error", "expired"}
      BY <1>1 DEF Shelf
    <3> HIDE DEF g
    <3>3. /\ g \in Shelf /\ g.listStatus = "expired" /\ ~g.loadingMore /\ g.detailStatus = t
          /\ g.pending = p /\ g.starred = s.starred
          /\ g.detailStarred = s.detailStarred /\ g.filter = s.filter /\ g.matches = s.matches
          /\ g.next = s.next /\ g.selected = s.selected
          /\ g.detail = s.detail /\ g.since = s.since /\ g.shown = s.shown
          /\ g.wanted = s.wanted /\ g.owner = s.owner /\ g.doubt = d
      <4> HIDE DEF t
      <4> QED BY <1>3, <3>1, <3>2 DEF Shelf
    <3> QED BY <2>1, <3>3
  <2>2. CASE ~over
    BY <1>3, <2>2
  <2> QED BY <2>1, <2>2
<1> HIDE DEF g
<1>5. p = h.pending \ {m} /\ d = IF lost THEN h.doubt \cup {m} ELSE h.doubt
  BY <1>1 DEF p, d
<1>6. listOf(h) => listOf(g)
  BY <1>1, <1>4 DEF listOf
<1> QED BY <1>1, <1>4, <1>5, <1>6 DEF StarBack, StarSettled, Unsaved, g, unsure, failed

\* A bookmark's answer is heard: the star of its match is settled, and only that one.
StarAnswer(c, h, g, b) ==
    LET m == c.arg.match
    IN  /\ StarSettled(g, h, m, b)
        /\ h.doubt \subseteq g.doubt
        /\ m \notin g.doubt =>
            /\ c.answer.status = "ok" => (b <=> c.arg.flag)
            /\ c.answer.status # "ok" => ~c.lost /\ (b <=> ~c.arg.flag)
        /\ \/ g.listStatus = h.listStatus /\ g.loadingMore = h.loadingMore
              /\ g.detailStatus = h.detailStatus
           \/ /\ c.answer.status = "expired" /\ g.listStatus = "expired" /\ ~g.loadingMore
              /\ g.detailStatus = IF h.selected # NoMatch THEN "expired" ELSE h.detailStatus

LEMMA StarHeard ==
    ASSUME AccountSound, NEW n \in Slots, page.calls[n].kind = "star", page.calls[n].alive,
           NEW g, NEW b,
           StarAnswer(page.calls[n], page.history, g, b)
    PROVE  Sound(with(freed(n), g), server)
<1> DEFINE c == page.calls[n]
           h == page.history
           m == c.arg.match
           v == with(freed(n), g)
           stars == server.starred[server.owner[page.cookie]]
<1>1. /\ c.kind \in historyKinds /\ c.kind = "star" /\ c.alive
      /\ ~waiting(c, {"list"}) /\ ~waiting(c, {"more"}) /\ ~waiting(c, {"detail"})
  BY DEF historyKinds, waiting
<1>2. /\ c \in Call /\ h \in Shelf
      /\ HistoryCalls(page, server) /\ HistoryRows(page, server) /\ Stars(page, server)
      /\ v.history = g /\ v.cookie = page.cookie /\ v.calls[n] = noCall
      /\ \A i \in Slots \ {n} : v.calls[i] = page.calls[i]
  <2>1. h \in Shelf
    BY PageParts DEF AccountSound, Sound
  <2>2. g \in Shelf
    BY DEF StarAnswer, StarSettled
  <2> QED BY <1>1, <2>1, <2>2, ShelfHeard
<1> USE DEF StarSettled, StarAnswer
<1>3. /\ \A i \in Slots \ {n} : ShelfDue(page.calls[i], g)
      /\ HistoryRows(v, server) /\ Stars(v, server)
      => Sound(v, server)
  <2>1. "expired" \in {g.listStatus, g.detailStatus} =>
            "expired" \in {h.listStatus, h.detailStatus} \/ c.answer.status = "expired"
    OBVIOUS
  <2> QED BY <1>1, <2>1, ShelfHeard
<1> HIDE DEF v
<1>4. \A i \in Slots \ {n} : ShelfDue(page.calls[i], g)
  <2>1. g.listStatus # "ready" \/ g.listStatus = h.listStatus
    OBVIOUS
  <2>2. g.listStatus # "loading" \/ g.listStatus = h.listStatus
    OBVIOUS
  <2>3. ~g.loadingMore \/ g.loadingMore = h.loadingMore
    OBVIOUS
  <2> HIDE DEF c, h, m
  <2> QED BY <1>2, <2>1, <2>2, <2>3 DEF HistoryCalls, ShelfDue, h
<1>5. HistoryRows(v, server)
  <2>1. \A kinds \in {{"list"}, {"more"}, {"detail"}} :
            (\E i \in Slots : waiting(page.calls[i], kinds)) =>
                \E i \in Slots : waiting(v.calls[i], kinds)
    BY <1>1, <1>2 DEF c
  <2>2. /\ g.listStatus \in {"ready", "loading"} => g.listStatus = h.listStatus
        /\ g.loadingMore => h.loadingMore
        /\ g.detailStatus \in {"ready", "loading"} => g.detailStatus = h.detailStatus
    OBVIOUS
  <2> HIDE DEF c, h, m
  <2> QED BY <1>2, <2>1, <2>2 DEF HistoryRows, h
<1>6. Stars(v, server)
  <2>1. noCall.kind # "star"
    BY NoCallTypes
  <2>2. \A i \in Slots : v.calls[i].kind = "star" => i # n /\ v.calls[i] = page.calls[i]
    BY <1>2, <2>1
  <2>3. m \notin g.doubt => (m \in stars <=> b)
    <3>1. m \notin h.doubt =>
            /\ c.answer.status = "ok" => (m \in stars <=> c.arg.flag)
            /\ c.answer.status # "ok" /\ ~c.lost => (m \in stars <=> ~c.arg.flag)
      BY <1>1, <1>2 DEF Stars
    <3> QED BY <3>1
  <2>4. \A i \in Slots \ {n} : page.calls[i].kind = "star" /\ page.calls[i].alive =>
            page.calls[i].arg.match # m
    BY <1>1, <1>2 DEF Stars
  <2>5. ASSUME NEW k \in Range(g.matches), k \notin g.pending \cup g.doubt
        PROVE  k \in g.starred <=> k \in stars
    <3>1. k \in Range(h.matches) /\ k \in Matches
      <4>1. h.matches \in Seq(Matches)
        BY <1>2 DEF Shelf
      <4> HIDE DEF h, c
      <4>2. Range(h.matches) \subseteq Matches
        BY <4>1 DEF Range
      <4> QED BY <2>5, <4>2 DEF h, c
    <3>2. CASE k = m
      BY <2>3, <2>5, <3>1, <3>2
    <3>3. CASE k # m
      BY <1>2, <2>5, <3>1, <3>3 DEF Stars
    <3> QED BY <3>2, <3>3
  <2>6. ASSUME g.detail # NoMatch, g.detail \notin g.pending \cup g.doubt
        PROVE  g.detailStarred <=> g.detail \in stars
    <3>1. CASE h.detail = m
      BY <2>3, <2>6, <3>1
    <3>2. CASE h.detail # m
      BY <1>2, <2>6, <3>2 DEF Stars
    <3> QED BY <3>1, <3>2
  <2>7. ASSUME NEW i \in Slots, v.calls[i].kind = "star", v.calls[i].alive
        PROVE  LET d == v.calls[i]
                   k == d.arg.match
               IN  /\ k \in g.pending /\ v.cookie # NoSid
                   /\ k \notin g.doubt =>
                        /\ d.answer.status = "ok" => (k \in stars <=> d.arg.flag)
                        /\ d.answer.status # "ok" /\ ~d.lost => (k \in stars <=> ~d.arg.flag)
    BY <1>2, <2>2, <2>4, <2>7 DEF Stars
  <2>8. \A i, j \in Slots :
            /\ v.calls[i].kind = "star" /\ v.calls[i].alive
            /\ v.calls[j].kind = "star" /\ v.calls[j].alive
            /\ v.calls[i].arg.match = v.calls[j].arg.match
            => i = j
    BY <1>2, <2>2 DEF Stars
  <2> HIDE DEF c, h, m
  <2> QED BY Zenon, <1>2, <2>5, <2>6, <2>7, <2>8 DEF Stars
<1> QED BY <1>3, <1>4, <1>5, <1>6 DEF v

LEMMA SaveAnswered ==
    ASSUME AccountSound, NEW n \in Slots, page.calls[n].kind = "star", page.calls[n].alive,
           page.calls[n].answer.status # "none"
    PROVE  Sound(onSaved(freed(n), page.calls[n]), server)
<1> DEFINE c == page.calls[n]
           h == page.history
           m == c.arg.match
<1>1. /\ h \in Shelf /\ c \in Call /\ HistoryRows(page, server) /\ StarRead(c, server)
      /\ freed(n).history = h
  <2>1. h \in Shelf /\ page.calls[n].kind \in historyKinds
    BY PageParts DEF AccountSound, Sound, historyKinds
  <2> QED BY <2>1, ShelfHeard, FreedFields DEF Beside
<1>2. m \in Matches /\ h.starred \subseteq Range(h.matches) /\ c.arg.flag \in BOOLEAN
      /\ c.lost \in BOOLEAN
  <2>1. m \in MatchesOrNone /\ m # NoMatch
    BY <1>1 DEF StarRead, Call, Arg
  <2> QED BY <1>1, <2>1, Bounds DEF HistoryRows, Call, Arg, MatchesOrNone, Matches, NoMatch
<1>3. CASE c.answer.status = "ok"
  <2> DEFINE b == c.arg.flag
             g == bookmarkSaved(h, m, b)
  <2>1. onSaved(freed(n), c) = with(freed(n), g)
    BY <1>1, <1>3 DEF onSaved
  <2> HIDE DEF b
  <2>2. b \in BOOLEAN
    BY <1>2 DEF b
  <2> HIDE DEF c, h, m
  <2>3. /\ StarSettled(g, h, m, b)
        /\ g.listStatus = h.listStatus /\ g.loadingMore = h.loadingMore
        /\ g.detailStatus = h.detailStatus /\ g.doubt = h.doubt
    BY <1>1, <1>2, <2>2, SavedFields
  <2>4. b <=> c.arg.flag
    BY DEF b, c
  <2> HIDE DEF g
  <2>5. Sound(with(freed(n), g), server)
    <3>1. StarAnswer(c, h, g, b)
      BY <1>3, <2>3, <2>4 DEF StarAnswer, m
    <3> QED BY <2>2, <3>1, StarHeard DEF c, h
  <2> QED BY <2>1, <2>5 DEF g, b, c, h, m
<1>4. CASE c.answer.status # "ok"
  <2> DEFINE b == ~c.arg.flag
             over == c.answer.status = "expired"
             g == Unsaved(h, m, b, c.lost, over)
  <2>1. onSaved(freed(n), c) = with(freed(n), g)
    BY <1>1, <1>4 DEF onSaved, isExpired, Unsaved
  <2>2. b \in BOOLEAN /\ over \in BOOLEAN /\ (b <=> ~c.arg.flag)
        /\ (over <=> c.answer.status = "expired")
    OBVIOUS
  <2> HIDE DEF b, over, c, h, m
  <2>3. /\ StarSettled(g, h, m, b)
        /\ g.doubt = IF c.lost THEN h.doubt \cup {m} ELSE h.doubt
        /\ over => /\ g.listStatus = "expired" /\ ~g.loadingMore
                   /\ g.detailStatus = IF h.selected # NoMatch THEN "expired"
                                       ELSE h.detailStatus
        /\ ~over => /\ g.listStatus = h.listStatus /\ g.loadingMore = h.loadingMore
                    /\ g.detailStatus = h.detailStatus
    <3> DEFINE lost == c.lost
    <3>1. lost \in BOOLEAN
      BY <1>2
    <3> HIDE DEF lost
    <3>2. StarBack(Unsaved(h, m, b, lost, over), h, m, b, lost, over)
      BY <1>1, <1>2, <2>2, <3>1, UnsavedFields
    <3> QED BY <3>2 DEF lost, StarBack
  <2> HIDE DEF g
  <2>5. Sound(with(freed(n), g), server)
    <3>1. h.doubt \subseteq g.doubt /\ (m \notin g.doubt => ~c.lost)
      BY <2>3
    <3>2. StarAnswer(c, h, g, b)
      BY <1>4, <2>2, <2>3, <3>1 DEF StarAnswer, m
    <3> QED BY <2>2, <3>2, StarHeard DEF c, h
  <2> QED BY <2>1, <2>5 DEF g, b, over, c, h, m
<1> QED BY <1>3, <1>4

\* An answer about the match history.
LEMMA HistoryAnswerSound ==
    ASSUME AccountSound, NEW n \in Slots, page.calls[n].kind \in historyKinds,
           page.calls[n].answer.status # "none", server' = server,
           page' = onHistory(freed(n), page.calls[n])
    PROVE  AccountSound'
<1> DEFINE c == page.calls[n]
<1>1. CASE ~c.alive
  BY <1>1, ShelfUnheard DEF onHistory, AccountSound
<1>2. CASE c.alive /\ c.kind = "star"
  BY <1>2, SaveAnswered DEF onHistory, AccountSound
<1>3. CASE c.alive /\ c.kind # "star" /\ ~c.current
  BY <1>3, ShelfUnheard DEF onHistory, AccountSound
<1>4. CASE c.alive /\ c.current /\ c.kind = "list"
  <2>1. page' = onListed(freed(n), c)
    BY <1>4 DEF onHistory
  <2>2. c.kind \in listKinds
    BY <1>4 DEF listKinds
  <2>3. Sound(onListed(freed(n), c), server)
    BY <1>4, <2>2, ListedSound, ListFailedSound
  <2> QED BY <2>1, <2>3 DEF AccountSound
<1>5. CASE c.alive /\ c.current /\ c.kind = "more"
  <2>1. page' = onMore(freed(n), c)
    BY <1>5 DEF onHistory
  <2>2. c.kind \in listKinds
    BY <1>5 DEF listKinds
  <2>3. Sound(onMore(freed(n), c), server)
    BY <1>5, <2>2, MoreAnswered, ListFailedSound
  <2> QED BY <2>1, <2>3 DEF AccountSound
<1>6. CASE c.alive /\ c.current /\ c.kind = "detail"
  <2>1. page' = onDetail(freed(n), c)
    BY <1>6 DEF onHistory
  <2> QED BY <1>6, <2>1, DetailAnswered DEF AccountSound
<1> QED BY <1>1, <1>2, <1>3, <1>4, <1>5, <1>6 DEF historyKinds

\* An administrator's call is refused: the page signs out, whichever session was refused.
LEMMA AdminExpiredSound ==
    ASSUME AccountSound, NEW n \in Slots, page.calls[n].kind \in adminKinds,
           page.calls[n].answer.status = "expired"
    PROVE  Sound(expireAdminSession(freed(n), page.calls[n]), server)
<1> DEFINE c == page.calls[n]
           x == freed(n)
           doubt == IF c.sid # x.cookie THEN {"late"}
                    ELSE IF c.answer.user # NoUser THEN {"role"} ELSE {}
           y == closeClient(x)
           z == signedOut(y)
           d == z.session.doubt \cup doubt
           s == [z.session EXCEPT !.doubt = d]
           o == [z EXCEPT !.session = s]
           q == closesPanel(o)
           v == setScreen(q, "account")
<1>1. /\ server \in Server /\ page \in Page /\ Sound(page, server) /\ c \in Call
      /\ OneAtATime(page) /\ Early(page) /\ Truthful(page, server)
      /\ AnswersTrue(page, server) /\ SessionsMade(page, server)
  BY CallKnown
<1>2. c.kind \notin authKinds /\ c.kind \in adminKinds /\ noCall.kind = "none"
      /\ c.kind \notin {"none", "restore", "signin", "mail", "reset"}
  BY KindsApart, NoCallTypes DEF authKinds
<1>3. c.sid = page.cookie /\ c.answer.user = NoUser => whose(server, page.cookie) = NoUser
  BY <1>1 DEF AnswersTrue, AnswerTrue
<1>4. /\ x \in Page /\ Beside(x, page) /\ x.calls[n] = noCall /\ Fewer(x, page)
      /\ \A i \in Slots \ {n} : x.calls[i] = page.calls[i]
  BY FreedFields
<1>5. expireAdminSession(x, c) = v
  <2>1. z \in Page
    BY <1>4, ClientFields, SignedOutFields
  <2>2. [z EXCEPT !.session.doubt = @ \cup doubt] = o
    OBVIOUS
  <2> QED BY <2>2 DEF expireAdminSession, resetForAccountChange
<1>6. doubt \subseteq {"late", "role"}
      /\ (doubt = {} => c.sid = page.cookie /\ c.answer.user = NoUser)
  BY <1>4 DEF Beside
<1> HIDE DEF c, x, doubt
<1>7. /\ y \in Page /\ y.app.socket = noSocket
      /\ y.app.screen = x.app.screen /\ y.app.adminOpen = x.app.adminOpen
      /\ y.session = x.session /\ y.calls = x.calls /\ y.cookie = x.cookie
  BY <1>4, ClientFields
<1> HIDE DEF y
<1>8. /\ z \in Page /\ z.app = y.app /\ z.calls = y.calls /\ z.cookie = y.cookie
      /\ z.session.account = NoAccount /\ z.session.doubt = y.session.doubt
      /\ z.session.acted = y.session.acted /\ z.session.busy = y.session.busy
      /\ z.session.mode = "login"
  BY <1>7, SignedOutFields
<1> HIDE DEF z
<1>9. /\ s \in Session /\ s.account = NoAccount /\ s.doubt = d
      /\ s.acted = page.session.acted /\ s.busy = page.session.busy /\ s.mode = "login"
  <2>1. z.session \in Session
    BY <1>8, PageParts
  <2>2. d \subseteq {"revoked", "lost", "late", "role", "restore", "half", "reset"}
    BY <1>6, <2>1 DEF Session
  <2> HIDE DEF d
  <2>3. /\ s \in Session /\ s.account = z.session.account /\ s.doubt = d
        /\ s.acted = z.session.acted /\ s.busy = z.session.busy /\ s.mode = z.session.mode
    BY <2>1, <2>2 DEF Session
  <2> QED BY <1>4, <1>7, <1>8, <2>3 DEF Beside
<1>10. d = page.session.doubt \cup doubt
  BY <1>4, <1>7, <1>8 DEF Beside
<1> HIDE DEF s, d
<1>11. /\ o \in Page /\ o.app = z.app /\ o.session = s /\ o.calls = z.calls
       /\ o.cookie = z.cookie
  BY <1>8, <1>9, WithSession
<1> HIDE DEF o
<1>12. Fewer(o, page) /\ o.app.screen = page.app.screen /\ o.app.adminOpen = page.app.adminOpen
       /\ o.app.socket = noSocket /\ o.cookie = page.cookie
  BY <1>4, <1>7, <1>8, <1>11 DEF Fewer, Beside
<1>13. /\ Emptied(q, page) /\ q.session = s /\ q.cookie = page.cookie
       /\ q.app.socket = noSocket
       /\ \A i \in Slots :
            /\ q.calls[i].kind = o.calls[i].kind
            /\ q.calls[i].kind \notin adminKinds => q.calls[i] = o.calls[i]
  <2>1. Emptied(q, page)
    BY <1>1, <1>11, <1>12, PanelEmptied
  <2> QED BY <1>11, <1>12, <2>1, PanelCloses DEF Faded
<1> HIDE DEF q
<1>14. /\ v \in Page /\ OffShelf(v) /\ OffPanel(v) /\ Fewer(v, page)
       /\ v.app.socket = q.app.socket /\ v.session = q.session /\ v.cookie = q.cookie
       /\ \A i \in Slots :
            /\ v.calls[i].kind = q.calls[i].kind
            /\ v.calls[i].kind \notin historyKinds \cup adminKinds =>
                    v.calls[i] = q.calls[i]
  BY <1>1, <1>13, Departs
<1> HIDE DEF v
<1>15. \A i \in Slots : page.calls[i].kind \in authKinds \/ v.calls[i].kind \in authKinds =>
            v.calls[i] = page.calls[i]
  <2>1. \A i \in Slots : v.calls[i].kind = x.calls[i].kind
    BY <1>7, <1>8, <1>11, <1>13, <1>14
  <2>2. \A i \in Slots : x.calls[i].kind \notin historyKinds \cup adminKinds =>
            v.calls[i] = x.calls[i]
    BY <1>7, <1>8, <1>11, <1>13, <1>14, <2>1
  <2>3. \A i \in Slots \ {n} : x.calls[i] = page.calls[i]
    BY <1>4
  <2>4. v.calls[n].kind \notin authKinds
    BY <1>2, <1>4, <2>1, KindsApart
  <2> QED BY <1>2, <2>1, <2>2, <2>3, <2>4, KindsApart DEF c
<1>16. /\ formKinds \subseteq authKinds /\ {"restore", "whoami", "logout", "reset"} \subseteq authKinds
  BY KindsApart DEF authKinds
<1>17. OneAtATime(v)
  <2>1. v.session.busy = page.session.busy /\ v.cookie = page.cookie
        /\ v.session.acted = page.session.acted
    BY <1>9, <1>13, <1>14
  <2>2. \A i \in Slots : v.calls[i].kind \in formKinds \cup {"restore", "whoami", "signin"} =>
            v.calls[i] = page.calls[i]
    BY <1>15, <1>16 DEF formKinds
  <2> QED BY <1>1, <2>1, <2>2 DEF OneAtATime, formKinds
<1>18. Early(v)
  <2>1. page.session.acted \/ \A i \in Slots : page.calls[i].kind # "restore"
    BY <1>1, <1>2 DEF Early, c
  <2> QED BY <1>9, <1>13, <1>14, <1>15, <1>16, <2>1 DEF Early
<1>19. Truthful(v, server)
  <2>1. v.session.account = NoAccount /\ v.session.acted = page.session.acted
        /\ v.session.doubt = page.session.doubt \cup doubt
    BY <1>9, <1>10, <1>13, <1>14
  <2>2. \A a : Says(a, v, server) <=> Says(a, page, server)
    BY <1>13, <1>14 DEF Says
  <2>3. \A i \in Slots :
            /\ (v.calls[i].kind = "whoami" <=> page.calls[i].kind = "whoami")
            /\ (v.calls[i].kind = "restore" <=> page.calls[i].kind = "restore")
            /\ (ended(v.calls[i]) <=> ended(page.calls[i]))
    BY <1>15, <1>16 DEF ended
  <2>4. \A i \in Slots : v.calls[i].kind \in {"whoami", "restore"} => v.calls[i] = page.calls[i]
    BY <1>15, <1>16
  <2>5. v.session.doubt = {} => Says(NoAccount, v, server)
    <3>1. v.session.doubt = {} => whose(server, v.cookie) = NoUser
      BY <1>3, <1>6, <1>13, <1>14, <2>1
    <3> QED BY <3>1 DEF Says, NoAccount
  <2> HIDE DEF knows, accountOf
  <2>6. v.session.doubt = {} => page.session.doubt = {}
    BY <2>1
  <2> QED BY <1>1, <2>1, <2>2, <2>3, <2>4, <2>5, <2>6 DEF Truthful
<1>20. v.cookie <= server.made
  BY <1>1, <1>13, <1>14 DEF SessionsMade
<1>21. Sound(v, server)
  BY <1>1, <1>13, <1>14, <1>17, <1>18, <1>19, <1>20, SignedOff
<1> QED BY <1>5, <1>21 DEF c, x

\* An answer is read by the dialog, which goes on to wait for the others.
LEMMA PanelAnswered ==
    ASSUME AccountSound, NEW n \in Slots, page.calls[n].kind \in adminKinds, NEW v \in Page,
           v.app = page.app, v.session = page.session, v.cookie = page.cookie,
           v.history = page.history, v.calls[n] = noCall,
           \A i \in Slots \ {n} :
                /\ Faded(v.calls[i], page.calls[i])
                /\ page.calls[i].kind \notin adminKinds => v.calls[i] = page.calls[i]
                /\ PanelDue(v.calls[i], v.admin),
           v.app.adminOpen => PanelRows(v, server)
    PROVE  Sound(v, server)
<1>1. /\ page \in Page /\ server \in Server /\ Sound(page, server)
      /\ SessionsMade(page, server) /\ PanelCalls(page, server) /\ Shelved(page, server)
  BY DEF AccountSound, Sound, Signed, Listed
<1>2. noCall.kind = "none" /\ noCall.kind \notin historyKinds \cup adminKinds \cup authKinds
  BY NoCallTypes, KindsApart
<1>3. Fewer(v, page)
  BY FadedSame DEF Fewer
<1>4. \A i \in Slots : page.calls[i].kind \notin adminKinds => v.calls[i] = page.calls[i]
  OBVIOUS
<1>5. Signed(v, server)
  BY <1>1, <1>3, <1>4, SignedFewer, KindsApart
<1>6. Shelved(v, server)
  <2>1. ShelfGrown(server, server)
    BY DEF ShelfGrown
  <2>2. SameShelf(v, page)
    <3>1. \A i \in Slots : v.calls[i].kind \in historyKinds => page.calls[i].kind \in historyKinds
      BY <1>2 DEF Faded
    <3> QED BY <1>4, <3>1, KindsApart DEF SameShelf
  <2>3. \A i \in Slots : v.calls[i].kind \in historyKinds => Faded(v.calls[i], page.calls[i])
    BY <1>2, FadedSame
  <2> QED BY <1>1, <2>1, <2>2, <2>3, ShelfAside
<1>7. Listed(v, server)
  <2>1. PanelRead(noCall, server) /\ PanelDue(noCall, v.admin)
    BY <1>2, PanelCallsOnly
  <2>2. PanelGrown(server, server)
    BY DEF PanelGrown
  <2>3. \A i \in Slots : PanelRead(v.calls[i], server) /\ PanelDue(v.calls[i], v.admin)
    BY <1>1, <2>1, <2>2, PanelReadKept DEF PanelCalls
  <2>4. "none" \notin rowKinds \cup inspectKinds
    BY DEF rowKinds, inspectKinds
  <2>5. \A i \in Slots : \A kinds \in {rowKinds, inspectKinds} :
            waiting(v.calls[i], kinds) => waiting(page.calls[i], kinds)
    BY <1>2, <2>4 DEF waiting, Faded
  <2>6. Sole(v, rowKinds) /\ Sole(v, inspectKinds)
    BY <1>1, <2>5 DEF PanelCalls, Sole
  <2>7. \A i \in Slots : v.calls[i].kind \in adminKinds /\ v.calls[i].alive => v.app.adminOpen
    BY <1>1, <1>2 DEF PanelCalls, Faded
  <2> QED BY <2>3, <2>6, <2>7 DEF Listed, PanelCalls
<1> QED BY <1>1, <1>5, <1>6, <1>7 DEF Sound

\* An answer that none of its lists waits for.
LEMMA PanelUnheard ==
    ASSUME AccountSound, NEW n \in Slots, page.calls[n].kind \in adminKinds,
           ~waiting(page.calls[n], rowKinds), ~waiting(page.calls[n], inspectKinds),
           NEW a \in Board, NEW v, v = panel(freed(n), a),
           \/ a = page.admin
           \/ a = [page.admin EXCEPT !.busy = FALSE]
    PROVE  Sound(v, server)
<1> DEFINE x == freed(n)
           b == page.admin
<1>1. /\ x \in Page /\ Beside(x, page) /\ x.calls[n] = noCall
      /\ \A i \in Slots \ {n} : x.calls[i] = page.calls[i]
  BY FreedFields
<1>2. v = [x EXCEPT !.admin = a]
  BY DEF panel
<1> HIDE DEF x
<1>3. /\ v \in Page /\ v.app = page.app /\ v.session = page.session
      /\ v.history = page.history /\ v.admin = a /\ v.cookie = page.cookie
      /\ v.calls[n] = noCall /\ \A i \in Slots \ {n} : v.calls[i] = page.calls[i]
  BY <1>1, <1>2, WithAdmin DEF Beside
<1>4. PanelCalls(page, server) /\ (page.app.adminOpen => PanelRows(page, server)) /\ b \in Board
  BY PageParts DEF AccountSound, Sound, Listed
<1>5. /\ a.tab = b.tab /\ a.items = b.items /\ a.cursor = b.cursor /\ a.query = b.query
      /\ a.loading = b.loading /\ a.error = b.error /\ a.selected = b.selected
      /\ a.detail = b.detail /\ a.detailLoading = b.detailLoading /\ a.since = b.since
      /\ a.shown = b.shown /\ a.wanted = b.wanted /\ a.mixed = b.mixed
  BY <1>4 DEF Board
<1> HIDE DEF b
<1>6. \A i \in Slots \ {n} : Faded(v.calls[i], page.calls[i]) /\ PanelDue(v.calls[i], v.admin)
  BY <1>3, <1>4, <1>5, FadedSame DEF PanelCalls, PanelDue, b
<1>7. v.app.adminOpen => PanelRows(v, server)
  <2>1. \A kinds \in {rowKinds, inspectKinds} :
            (\E i \in Slots : waiting(page.calls[i], kinds)) =>
                \E i \in Slots : waiting(v.calls[i], kinds)
    BY <1>3
  <2> QED BY <1>3, <1>4, <1>5, <2>1 DEF PanelRows, b
<1> QED BY <1>3, <1>6, <1>7, PanelAnswered

\* One that its dialog hears.
LEMMA PanelHeard ==
    ASSUME AccountSound, NEW n \in Slots, page.calls[n].kind \in adminKinds, NEW a \in Board,
           NEW x \in Page, Beside(x, page), x.calls[n] = noCall,
           \A i \in Slots \ {n} :
                /\ Faded(x.calls[i], page.calls[i])
                /\ page.calls[i].kind \notin adminKinds => x.calls[i] = page.calls[i]
                /\ PanelDue(x.calls[i], a),
           NEW v, v = panel(x, a),
           v.calls = x.calls /\ v.admin = a => PanelRows(v, server)
    PROVE  Sound(v, server)
<1>1. v = [x EXCEPT !.admin = a]
  BY DEF panel
<1>2. /\ v \in Page /\ v.app = x.app /\ v.session = x.session /\ v.history = x.history
      /\ v.admin = a /\ v.calls = x.calls /\ v.cookie = x.cookie
  BY <1>1, WithAdmin
<1> QED BY <1>2, PanelAnswered DEF Beside

\* The rows that come, field by field.
LEMMA ItemsFields ==
    ASSUME NEW a \in Board, NEW c \in Call, c.arg.filter \in Queries
    PROVE  LET b == itemsLoaded(a, c)
           IN  /\ b \in Board /\ b.tab = a.tab /\ b.cursor = c.answer.next /\ b.query = a.query
               /\ ~b.loading /\ b.error = a.error /\ b.selected = a.selected
               /\ b.detail = a.detail /\ b.detailLoading = a.detailLoading
               /\ b.wanted = a.wanted /\ b.shown = c.arg.filter
               /\ c.arg.flag =>
                    /\ b.items = a.items \o c.answer.rows /\ b.since = a.since
                    /\ ~b.mixed => ~a.mixed /\ a.shown = c.arg.filter
               /\ ~c.arg.flag => b.items = c.answer.rows /\ b.since = c.answer.seen /\ ~b.mixed
<1> DEFINE b == itemsLoaded(a, c)
           items == IF c.arg.flag THEN a.items \o c.answer.rows ELSE c.answer.rows
           since == IF c.arg.flag THEN a.since ELSE c.answer.seen
           mixed == c.arg.flag /\ (a.mixed \/ a.shown # c.arg.filter)
<1>1. b = [a EXCEPT !.items = items, !.cursor = c.answer.next, !.loading = FALSE,
                    !.since = since, !.mixed = mixed, !.shown = c.arg.filter]
  BY DEF itemsLoaded
<1>2. c.answer \in Reply /\ c.arg \in Arg
  BY DEF Call
<1>3. /\ c.answer.rows \in Seq(Matches) /\ c.answer.next \in MatchesOrNone
      /\ c.answer.seen \subseteq Matches /\ c.arg.flag \in BOOLEAN
  BY <1>2 DEF Reply, Arg
<1>4. items \in Seq(Matches) /\ since \subseteq Matches /\ mixed \in BOOLEAN
  BY <1>3, ConcatProperties DEF Board
<1>5. /\ c.arg.flag =>
            /\ items = a.items \o c.answer.rows /\ since = a.since
            /\ ~mixed => ~a.mixed /\ a.shown = c.arg.filter
      /\ ~c.arg.flag => items = c.answer.rows /\ since = c.answer.seen /\ ~mixed
  OBVIOUS
<1> HIDE DEF b, items, since, mixed
<1>6. /\ b \in Board /\ b.tab = a.tab /\ b.cursor = c.answer.next /\ b.query = a.query
      /\ ~b.loading /\ b.error = a.error /\ b.selected = a.selected
      /\ b.detail = a.detail /\ b.detailLoading = a.detailLoading
      /\ b.wanted = a.wanted /\ b.shown = c.arg.filter /\ b.items = items
      /\ b.since = since /\ b.mixed = mixed
  BY <1>1, <1>3, <1>4 DEF Board
<1> QED BY <1>5, <1>6 DEF b

\* Rows that come complete those on show, or take their place.
LEMMA ItemsJoined ==
    ASSUME NEW a \in Board, NEW c \in Call, NEW sv \in Server, PanelData(a, sv),
           PanelRead(c, sv), PanelDue(c, a), waiting(c, rowKinds), served(c, rowKinds)
    PROVE  LET b == itemsLoaded(a, c) IN PanelData(b, sv) /\ b.shown = b.query
<1> DEFINE b == itemsLoaded(a, c)
           R == Range(c.answer.rows)
           rows == c.answer.rows
           seen == c.answer.seen
           next == c.answer.next
           cursor == c.arg.cursor
<1>1. /\ c.arg.tab \in listTabs /\ c.arg.filter \in Queries /\ PageRead(c)
      /\ seen \subseteq rowsFor(c.arg.filter, sv.rows[c.arg.tab])
  BY DEF PanelRead, waiting
<1>2. /\ c.arg.tab = a.tab /\ c.arg.filter = a.query
      /\ ~c.arg.flag => cursor = FromNewest
      /\ c.arg.flag =>
            /\ cursor = a.cursor /\ a.cursor # NoMore
            /\ ~a.mixed /\ c.arg.filter = a.shown => a.since \subseteq seen
  BY DEF PanelDue
<1>3. /\ b \in Board /\ b.tab = a.tab /\ b.cursor = next /\ b.query = a.query
      /\ b.shown = c.arg.filter
      /\ c.arg.flag =>
            /\ b.items = a.items \o rows /\ b.since = a.since
            /\ ~b.mixed => ~a.mixed /\ a.shown = c.arg.filter
      /\ ~c.arg.flag => b.items = rows /\ b.since = seen /\ ~b.mixed
  BY <1>1, ItemsFields
<1> HIDE DEF b
<1>4. /\ descending(rows) /\ \A m \in R : next <= m /\ m < cursor
      /\ next = NoMore \/ next < cursor
      /\ \A m \in seen : next <= m /\ m < cursor => m \in R
      /\ R \subseteq seen
  BY <1>1 DEF PageRead
<1>5. /\ rows \in Seq(Matches) /\ next \in MatchesOrNone /\ seen \subseteq Matches
      /\ cursor \in 0 .. FromNewest
  BY DEF Call, Reply, Arg
<1>6. a.items \in Seq(Matches) /\ a.cursor \in MatchesOrNone /\ a.since \subseteq Matches
  BY DEF Board
<1>7. c.arg.filter = "named" => seen \subseteq Named
  BY <1>1 DEF rowsFor
<1> HIDE DEF R, rows, seen, next, cursor
<1>8. CASE ~c.arg.flag
  <2>1. noGap(rows, next, seen)
    <3>1. \A m \in seen : m \in R \/ ~(next <= m)
      BY <1>2, <1>4, <1>5, <1>8, Bounds DEF Matches, MatchesOrNone, FromNewest
    <3>2. \A m \in seen : m >= next <=> next <= m
      BY <1>5, Bounds DEF Matches, MatchesOrNone
    <3> QED BY <3>1, <3>2 DEF noGap, R, rows
  <2>2. Joined(rows, next)
    BY <1>4 DEF Joined, R, rows
  <2>3. c.arg.filter = "named" => Range(rows) \subseteq Named
    BY <1>4, <1>7 DEF R, rows
  <2>4. seen \subseteq rowsFor(c.arg.filter, sv.rows[b.tab]) /\ b.tab \in listTabs
    BY <1>1, <1>2, <1>3 DEF seen
  <2> QED BY <1>2, <1>3, <1>8, <2>1, <2>2, <2>3, <2>4 DEF PanelData, b
<1>9. CASE c.arg.flag
  <2>1. CASE b.mixed
    BY <1>2, <1>3, <2>1 DEF PanelData, b
  <2>2. CASE ~b.mixed
    <3>1. /\ ~a.mixed /\ a.shown = c.arg.filter /\ cursor = a.cursor
          /\ a.since \subseteq seen
      BY <1>2, <1>3, <1>9, <2>2
    <3>2. /\ Joined(a.items, a.cursor) /\ noGap(a.items, a.cursor, a.since)
          /\ a.shown = "named" => Range(a.items) \subseteq Named
          /\ a.tab \in listTabs => a.since \subseteq rowsFor(a.shown, sv.rows[a.tab])
      BY <3>1 DEF PanelData
    <3>3. Joined(a.items \o rows, next) /\ Range(a.items \o rows) = Range(a.items) \cup R
      <4>1. descending(a.items) /\ \A m \in Range(a.items) : a.cursor <= m
        BY <3>2 DEF Joined
      <4>2. \A m \in Range(rows) : next <= m /\ m < a.cursor
        BY <1>4, <3>1 DEF R, rows
      <4>3. next = NoMore \/ next < a.cursor
        BY <1>4, <3>1
      <4> QED BY <1>4, <1>5, <1>6, <4>1, <4>2, <4>3, RowsJoined DEF R, rows
    <3>4. noGap(a.items \o rows, next, a.since)
      <4>1. ASSUME NEW m \in a.since, m > NoMore, m >= next
            PROVE  m \in Range(a.items \o rows)
        <5>1. CASE m >= a.cursor
          BY <3>2, <3>3, <4>1, <5>1 DEF noGap
        <5>2. CASE ~(m >= a.cursor)
          <6>1. m \in Nat /\ a.cursor \in Nat /\ next \in Nat
            BY <1>5, <1>6, Bounds DEF Matches, MatchesOrNone
          <6>2. m < a.cursor /\ next <= m
            BY <4>1, <5>2, <6>1
          <6> QED BY <1>4, <3>1, <3>3, <6>2
        <5> QED BY <5>1, <5>2
      <4> QED BY <4>1 DEF noGap
    <3>5. c.arg.filter = "named" => Range(a.items \o rows) \subseteq Named
      BY <1>4, <1>7, <3>1, <3>2, <3>3
    <3>6. b.tab \in listTabs /\ a.since \subseteq rowsFor(b.shown, sv.rows[b.tab])
      BY <1>1, <1>2, <1>3, <3>1, <3>2
    <3> QED BY <1>2, <1>3, <1>9, <3>3, <3>4, <3>5, <3>6 DEF PanelData, b
  <2> QED BY <2>1, <2>2
<1>10. c.arg.flag \in BOOLEAN
  BY DEF Call, Arg
<1> QED BY <1>8, <1>9

\* What the dialog knows of an answer that it waits for.
LEMMA PanelFacts ==
    ASSUME AccountSound, NEW n \in Slots, page.calls[n].kind \in adminKinds, page.calls[n].alive
    PROVE  LET c == page.calls[n]
               a == page.admin
               x == freed(n)
           IN  /\ c \in Call /\ a \in Board /\ server \in Server /\ page \in Page
               /\ page.app.adminOpen /\ PanelCalls(page, server) /\ PanelRows(page, server)
               /\ PanelData(a, server) /\ PanelRead(c, server) /\ PanelDue(c, a)
               /\ x \in Page /\ Beside(x, page) /\ x.calls[n] = noCall /\ x.admin = a
               /\ \A i \in Slots \ {n} : x.calls[i] = page.calls[i]
               /\ \A i \in Slots \ {n} : PanelDue(page.calls[i], a)
<1>1. PanelCalls(page, server) /\ page.calls[n] \in Call /\ page \in Page /\ server \in Server
  BY CallKnown DEF AccountSound, Sound, Listed
<1>2. page.app.adminOpen /\ page.admin \in Board
  BY <1>1, PageParts DEF PanelCalls
<1>3. PanelRows(page, server)
  BY <1>2 DEF AccountSound, Sound, Listed
<1>4. PanelData(page.admin, server)
  BY <1>3 DEF PanelRows, PanelData
<1> QED BY <1>1, <1>2, <1>3, <1>4, FreedFields DEF PanelCalls, Beside

\* The list has not come.
LEMMA RowsFail ==
    ASSUME AccountSound, NEW n \in Slots, page.calls[n].kind \in rowKinds,
           page.calls[n].current, page.calls[n].alive
    PROVE  Sound(panel(freed(n), [page.admin EXCEPT !.error = TRUE, !.loading = FALSE]), server)
<1> DEFINE c == page.calls[n]
           a == page.admin
           x == freed(n)
           b == [a EXCEPT !.error = TRUE, !.loading = FALSE]
           v == panel(x, b)
<1>1. /\ c.kind \in adminKinds /\ waiting(c, rowKinds) /\ ~waiting(c, inspectKinds)
  BY DEF adminKinds, rowKinds, inspectKinds, waiting
<1>2. /\ a \in Board /\ PanelCalls(page, server) /\ PanelRows(page, server)
      /\ PanelData(a, server) /\ x \in Page /\ Beside(x, page) /\ x.calls[n] = noCall
      /\ \A i \in Slots \ {n} : x.calls[i] = page.calls[i]
      /\ \A i \in Slots \ {n} : PanelDue(page.calls[i], a)
  BY <1>1, PanelFacts
<1> HIDE DEF x
<1>3. /\ b \in Board /\ b.tab = a.tab /\ b.items = a.items /\ b.cursor = a.cursor
      /\ b.query = a.query /\ ~b.loading /\ b.error /\ b.selected = a.selected
      /\ b.detail = a.detail /\ b.detailLoading = a.detailLoading /\ b.since = a.since
      /\ b.shown = a.shown /\ b.wanted = a.wanted /\ b.mixed = a.mixed
  BY <1>2 DEF Board
<1> HIDE DEF b, a
<1>4. \A i \in Slots \ {n} : ~waiting(page.calls[i], rowKinds)
  BY <1>1, <1>2, SoleWaiting DEF PanelCalls
<1>5. \A i \in Slots \ {n} : PanelDue(page.calls[i], b)
  BY <1>2, <1>3, <1>4 DEF PanelDue
<1>6. ASSUME v.calls = x.calls, v.admin = b PROVE PanelRows(v, server)
  <2>1. PanelData(b, server)
    BY <1>2, <1>3, PanelDataKept
  <2>2. (\E i \in Slots : waiting(page.calls[i], inspectKinds)) =>
            \E i \in Slots : waiting(v.calls[i], inspectKinds)
    BY <1>1, <1>2, <1>6
  <2> QED BY <1>2, <1>3, <1>6, <2>1, <2>2 DEF PanelRows, PanelData, a
<1> HIDE DEF v, c
<1>7. Sound(v, server)
  <2>1. v = panel(x, b)
    BY DEF v
  <2>2. \A i \in Slots \ {n} :
            /\ Faded(x.calls[i], page.calls[i])
            /\ page.calls[i].kind \notin adminKinds => x.calls[i] = page.calls[i]
            /\ PanelDue(x.calls[i], b)
    BY <1>2, <1>5, FadedSame
  <2> QED BY <1>1, <1>2, <1>3, <1>6, <2>1, <2>2, PanelHeard DEF c
<1> QED BY <1>7 DEF v, b, a, x

\* It has, and leaves the match in detail or closes it.
LEMMA RowsCome ==
    ASSUME AccountSound, NEW n \in Slots, page.calls[n].kind \in rowKinds,
           page.calls[n].current, page.calls[n].alive, page.calls[n].answer.status = "ok"
    PROVE  LET b == itemsLoaded(page.admin, page.calls[n])
           IN  /\ Sound(panel(freed(n), b), server)
               /\ Sound(panel(superseded(freed(n), inspectKinds), closed(b)), server)
<1> DEFINE c == page.calls[n]
           a == page.admin
           x == freed(n)
           b == itemsLoaded(a, c)
           y == superseded(x, inspectKinds)
           d == closed(b)
           v == panel(x, b)
           u == panel(y, d)
<1>1. /\ c.kind \in adminKinds /\ waiting(c, rowKinds) /\ ~waiting(c, inspectKinds)
      /\ served(c, rowKinds)
  BY DEF adminKinds, rowKinds, inspectKinds, waiting, served
<1>2. /\ c \in Call /\ server \in Server
      /\ a \in Board /\ PanelCalls(page, server) /\ PanelRows(page, server)
      /\ PanelData(a, server) /\ PanelRead(c, server) /\ PanelDue(c, a)
      /\ x \in Page /\ Beside(x, page) /\ x.calls[n] = noCall
      /\ \A i \in Slots \ {n} : x.calls[i] = page.calls[i]
      /\ \A i \in Slots \ {n} : PanelDue(page.calls[i], a)
  BY <1>1, PanelFacts
<1> HIDE DEF x, c, a
<1>3. c.arg.filter \in Queries
  BY <1>1, <1>2 DEF PanelRead, waiting
<1>4. /\ b \in Board /\ b.tab = a.tab /\ b.query = a.query
      /\ ~b.loading /\ b.error = a.error /\ b.selected = a.selected
      /\ b.detail = a.detail /\ b.detailLoading = a.detailLoading /\ b.wanted = a.wanted
  BY <1>2, <1>3, ItemsFields
<1>5. PanelData(b, server) /\ b.shown = b.query
  BY <1>1, <1>2, ItemsJoined
<1> HIDE DEF b
<1>6. \A i \in Slots \ {n} : ~waiting(page.calls[i], rowKinds)
  BY <1>1, <1>2, SoleWaiting DEF PanelCalls, c
<1>7. Sound(v, server)
  <2>1. \A i \in Slots \ {n} :
            /\ Faded(x.calls[i], page.calls[i])
            /\ page.calls[i].kind \notin adminKinds => x.calls[i] = page.calls[i]
            /\ PanelDue(x.calls[i], b)
    BY <1>2, <1>4, <1>6, FadedSame DEF PanelDue
  <2>2. ASSUME v.calls = x.calls, v.admin = b PROVE PanelRows(v, server)
    <3>1. (\E i \in Slots : waiting(page.calls[i], inspectKinds)) =>
            \E i \in Slots : waiting(v.calls[i], inspectKinds)
      BY <1>1, <1>2, <2>2 DEF c
    <3> QED BY <1>2, <1>4, <1>5, <2>2, <3>1 DEF PanelRows, PanelData, a
  <2> HIDE DEF v
  <2>3. v = panel(x, b)
    BY DEF v
  <2> QED BY <1>1, <1>2, <1>4, <2>1, <2>2, <2>3, PanelHeard DEF c
<1>8. /\ y \in Page /\ Beside(y, x)
      /\ \A i \in Slots :
            /\ Faded(y.calls[i], x.calls[i])
            /\ x.calls[i].kind \notin inspectKinds => y.calls[i] = x.calls[i]
            /\ x.calls[i].kind \in inspectKinds => ~(y.calls[i].current /\ y.calls[i].alive)
  BY <1>2, Superseded
<1> HIDE DEF y
<1>9. /\ d \in Board /\ d.tab = b.tab /\ d.items = b.items /\ d.cursor = b.cursor
      /\ d.query = b.query /\ ~d.loading /\ d.error = b.error /\ d.selected = NoMatch
      /\ d.detail = NoMatch /\ ~d.detailLoading /\ d.since = b.since
      /\ d.shown = b.shown /\ d.wanted = NoMatch /\ d.mixed = b.mixed
  <2>1. NoMatch \in MatchesOrNone
    BY Bounds DEF MatchesOrNone, NoMatch
  <2>2. d = [b EXCEPT !.selected = NoMatch, !.detail = NoMatch, !.detailLoading = FALSE,
                      !.detailError = FALSE, !.wanted = NoMatch]
    BY DEF closed
  <2> HIDE DEF d
  <2> QED BY <1>4, <2>1, <2>2 DEF Board
<1> HIDE DEF d
<1>10. Sound(u, server)
  <2>1. \A i \in Slots : ~waiting(y.calls[i], inspectKinds)
    BY <1>8 DEF waiting, Faded
  <2>2. \A i \in Slots \ {n} : ~waiting(y.calls[i], rowKinds)
    BY <1>2, <1>6, <1>8 DEF waiting, Faded
  <2>3. noCall.kind = "none" /\ "none" \notin inspectKinds
    BY NoCallTypes DEF inspectKinds
  <2>4. /\ Beside(y, page) /\ y.calls[n] = noCall
        /\ \A i \in Slots \ {n} :
            /\ Faded(y.calls[i], page.calls[i])
            /\ page.calls[i].kind \notin adminKinds => y.calls[i] = page.calls[i]
            /\ PanelDue(y.calls[i], d)
    BY <1>2, <1>8, <2>1, <2>2, <2>3 DEF Beside, PanelDue, adminKinds
  <2>5. PanelData(d, server)
    BY <1>5, <1>9, PanelDataKept
  <2>6. ASSUME u.calls = y.calls, u.admin = d PROVE PanelRows(u, server)
    BY <1>5, <1>9, <2>5, <2>6 DEF PanelRows, PanelData
  <2> HIDE DEF u
  <2>7. u = panel(y, d)
    BY DEF u
  <2> QED BY <1>1, <1>8, <1>9, <2>4, <2>6, <2>7, PanelHeard DEF c
<1> QED BY <1>7, <1>10 DEF v, u, b, y, d, x, a, c

\* A match has come, or has not.
LEMMA InspectAnswered ==
    ASSUME AccountSound, NEW n \in Slots, page.calls[n].kind \in inspectKinds,
           page.calls[n].current, page.calls[n].alive
    PROVE  Sound(onInspected(freed(n), page.calls[n]), server)
<1> DEFINE c == page.calls[n]
           a == page.admin
           x == freed(n)
           ok == c.answer.status = "ok"
           m == c.arg.match
           b == IF ok THEN [a EXCEPT !.detail = m, !.detailLoading = FALSE]
                ELSE [a EXCEPT !.detailError = TRUE, !.detailLoading = FALSE]
           v == panel(x, b)
<1>1. /\ c.kind \in adminKinds /\ waiting(c, inspectKinds) /\ ~waiting(c, rowKinds)
  BY DEF adminKinds, rowKinds, inspectKinds, waiting
<1>2. /\ c \in Call /\ a \in Board /\ PanelCalls(page, server) /\ PanelRows(page, server)
      /\ PanelData(a, server) /\ PanelDue(c, a)
      /\ x \in Page /\ Beside(x, page) /\ x.calls[n] = noCall /\ x.admin = a
      /\ \A i \in Slots \ {n} : x.calls[i] = page.calls[i]
      /\ \A i \in Slots \ {n} : PanelDue(page.calls[i], a)
  BY <1>1, PanelFacts
<1>3. onInspected(x, c) = v
  BY <1>2 DEF onInspected
<1>4. m = a.selected /\ m \in MatchesOrNone
  BY <1>1, <1>2 DEF PanelDue, Call, Arg
<1> HIDE DEF x, c, a, m, ok
<1>5. /\ b \in Board /\ b.tab = a.tab /\ b.items = a.items /\ b.cursor = a.cursor
      /\ b.query = a.query /\ b.loading = a.loading /\ b.error = a.error
      /\ b.selected = a.selected /\ ~b.detailLoading /\ b.since = a.since
      /\ b.shown = a.shown /\ b.wanted = a.wanted /\ b.mixed = a.mixed
      /\ b.detail \in {m, a.detail}
  <2>1. CASE ok
    <3>1. b = [a EXCEPT !.detail = m, !.detailLoading = FALSE]
      BY <2>1
    <3> HIDE DEF b
    <3> QED BY <1>2, <1>4, <3>1 DEF Board
  <2>2. CASE ~ok
    <3>1. b = [a EXCEPT !.detailError = TRUE, !.detailLoading = FALSE]
      BY <2>2
    <3> HIDE DEF b
    <3> QED BY <1>2, <3>1 DEF Board
  <2> QED BY <2>1, <2>2
<1> HIDE DEF b
<1>6. \A i \in Slots \ {n} :
        /\ Faded(x.calls[i], page.calls[i])
        /\ page.calls[i].kind \notin adminKinds => x.calls[i] = page.calls[i]
        /\ PanelDue(x.calls[i], b)
  BY <1>2, <1>5, FadedSame DEF PanelDue
<1>7. ASSUME v.calls = x.calls, v.admin = b PROVE PanelRows(v, server)
  <2>1. (\E i \in Slots : waiting(page.calls[i], rowKinds)) =>
            \E i \in Slots : waiting(v.calls[i], rowKinds)
    BY <1>1, <1>2, <1>7 DEF c
  <2>2. PanelData(b, server)
    BY <1>2, <1>5, PanelDataKept
  <2> QED BY <1>2, <1>4, <1>5, <1>7, <2>1, <2>2 DEF PanelRows, PanelData, a
<1> HIDE DEF v
<1>8. v = panel(x, b)
  BY DEF v
<1>9. Sound(v, server)
  BY <1>1, <1>2, <1>5, <1>6, <1>7, <1>8, PanelHeard DEF c
<1> QED BY <1>3, <1>9 DEF x, c

\* An answer about the administrators' dialog.
LEMMA AdminAnswerSound ==
    ASSUME AccountSound, NEW n \in Slots, page.calls[n].kind \in adminKinds,
           server' = server, page' = onAdmin(freed(n), page.calls[n])
    PROVE  AccountSound'
<1> DEFINE c == page.calls[n]
           x == freed(n)
<1>1. x \in Page /\ x.admin = page.admin /\ page.admin \in Board
  BY FreedFields, PageParts DEF AccountSound, Sound, Beside
<1>2. c.alive \in BOOLEAN /\ c.current \in BOOLEAN
  BY CallKnown DEF Call
<1>3. ASSUME ~waiting(c, rowKinds), ~waiting(c, inspectKinds) PROVE Sound(x, server)
  <2>1. x = panel(x, page.admin)
    BY <1>1 DEF panel, Page
  <2> QED BY <1>1, <1>3, <2>1, PanelUnheard
<1>4. CASE ~heard(c)
  <2>1. page' = x
    BY <1>4 DEF onAdmin
  <2>2. ~waiting(c, rowKinds) /\ ~waiting(c, inspectKinds)
    BY <1>2, <1>4 DEF waiting, heard
  <2> QED BY <1>3, <2>1, <2>2 DEF AccountSound
<1>5. CASE heard(c) /\ denied(c)
  <2>1. page' = expireAdminSession(x, c)
    BY <1>5 DEF onAdmin
  <2> QED BY <1>5, <2>1, AdminExpiredSound DEF AccountSound, denied
<1>6. CASE heard(c) /\ ~denied(c) /\ ~c.alive
  <2>1. page' = x
    BY <1>6 DEF onAdmin
  <2>2. ~waiting(c, rowKinds) /\ ~waiting(c, inspectKinds)
    BY <1>6 DEF waiting
  <2> QED BY <1>3, <2>1, <2>2 DEF AccountSound
<1>7. CASE heard(c) /\ ~denied(c) /\ c.alive
  <2>1. c.current
    BY <1>7 DEF heard
  <2>2. rowKinds \cap inspectKinds = {} /\ "console" \notin rowKinds \cup inspectKinds
        /\ "stats" \notin rowKinds \cup inspectKinds
    BY DEF rowKinds, inspectKinds
  <2>3. CASE c.kind \in rowKinds
    <3>1. page' = onRows(x, c)
      BY <1>7, <2>2, <2>3 DEF onAdmin
    <3>2. CASE c.answer.status # "ok"
      <4>1. onRows(x, c) = panel(x, [page.admin EXCEPT !.error = TRUE, !.loading = FALSE])
        BY <1>1, <3>2 DEF onRows
      <4> QED BY <1>7, <2>1, <2>3, <3>1, <4>1, RowsFail DEF AccountSound
    <3>3. CASE c.answer.status = "ok"
      <4> DEFINE b == itemsLoaded(page.admin, c)
      <4>1. \/ onRows(x, c) = panel(x, b)
            \/ onRows(x, c) = panel(superseded(x, inspectKinds), closed(b))
        BY <1>1, <3>3 DEF onRows
      <4> QED BY <1>7, <2>1, <2>3, <3>1, <3>3, <4>1, RowsCome DEF AccountSound
    <3> QED BY <3>2, <3>3
  <2>4. CASE c.kind \in inspectKinds
    <3>1. page' = onInspected(x, c)
      BY <1>7, <2>2, <2>4 DEF onAdmin
    <3> QED BY <1>7, <2>1, <2>4, <3>1, InspectAnswered DEF AccountSound
  <2>5. CASE c.kind = "console"
    <3> DEFINE a == [page.admin EXCEPT !.busy = FALSE]
    <3>1. page' = panel(x, a)
      BY <1>1, <1>7, <2>2, <2>5 DEF onAdmin, onConsole
    <3>2. a \in Board
      BY <1>1 DEF Board
    <3>3. ~waiting(c, rowKinds) /\ ~waiting(c, inspectKinds)
      BY <2>2, <2>5 DEF waiting
    <3> HIDE DEF x
    <3>4. Sound(page', server)
      BY <3>1, <3>2, <3>3, PanelUnheard DEF x
    <3> QED BY <3>4 DEF AccountSound
  <2>6. CASE c.kind = "stats"
    <3>1. page' = x
      BY <1>7, <2>2, <2>6 DEF onAdmin
    <3>2. ~waiting(c, rowKinds) /\ ~waiting(c, inspectKinds)
      BY <2>2, <2>6 DEF waiting
    <3> QED BY <1>3, <3>1, <3>2 DEF AccountSound
  <2> QED BY <2>3, <2>4, <2>5, <2>6 DEF adminKinds
<1> QED BY <1>4, <1>5, <1>6, <1>7

\* What the page does with an answer.
LEMMA AnswerSound ==
    ASSUME AccountSound, NEW n \in Slots, Answer(n)
    PROVE  AccountSound'
<1> DEFINE c == page.calls[n]
<1>1. c \in Call /\ c.kind \in Kinds /\ c.answer.status # "none" /\ server' = server
  BY CallKnown DEF Answer
<1>2. c.kind # "none"
  BY <1>1, CallKnown DEF AnswersTrue, AnswerTrue
<1>3. CASE c.kind \in authKinds
  <2>1. page' = IF c.kind = "signin" THEN onSignedIn(page, n) ELSE lateFor(onAuth(freed(n), c), c)
    BY <1>3, KindsApart DEF Answer, authKinds
  <2> QED BY <1>1, <1>3, <2>1, AuthAnswerSound
<1>4. CASE c.kind \in historyKinds
  <2>1. page' = onHistory(freed(n), c)
    BY <1>4, KindsApart DEF Answer, authKinds
  <2> QED BY <1>1, <1>4, <2>1, HistoryAnswerSound
<1>5. CASE c.kind \in adminKinds
  <2>1. page' = onAdmin(freed(n), c)
    BY <1>5, KindsApart DEF Answer, authKinds
  <2> QED BY <1>1, <1>5, <2>1, AdminAnswerSound
<1> QED BY <1>1, <1>2, <1>3, <1>4, <1>5, KindsApart

-----------------------------------------------------------------------------

(* Other devices, players and administrators.                                *)

\* What they do, but for ending the session of the page.
LEMMA ElseSound ==
    ASSUME AccountSound, NEW t, Ends(t, server), t.starred = server.starred,
           whose(t, page.cookie) = whose(server, page.cookie)
    PROVE  Sound(page, t)
<1>1. /\ page \in Page /\ server \in Server /\ Sound(page, server) /\ Truthful(page, server)
  BY DEF AccountSound, Sound, Signed
<1>2. Told(page, page)
  BY <1>1 DEF Told
<1>3. Later(t, server) /\ SessionsMade(page, t) /\ t.owner = server.owner
  BY <1>1, <1>2, EndsLater DEF Ends
<1>4. AnswersTrue(page, t)
  BY <1>1, <1>2, <1>3, AnswerLater DEF AnswersTrue
<1>5. Truthful(page, t)
  BY <1>1, <1>2, <1>3, TruthfulBeside
<1> QED BY <1>1, <1>2, <1>3, <1>4, <1>5, AuthTold

\* A call as it was, but for whether its answer can be believed.
Doubted(d, c) ==
    /\ d.kind = c.kind /\ d.sid = c.sid /\ d.arg = c.arg /\ d.answer = c.answer
    /\ d.current = c.current /\ d.alive = c.alive /\ d.overtaken = c.overtaken
    /\ c.kind = "star" => d = c

LEMMA RevokedFields ==
    ASSUME AccountSound, page.cookie # NoSid
    PROVE  LET v == revoked(page)
           IN  /\ v \in Page /\ Told(v, page) /\ v.history = page.history
               /\ v.admin = page.admin /\ v.session.doubt # {}
               /\ \A i \in Slots :
                    /\ Doubted(v.calls[i], page.calls[i])
                    /\ v.calls[i].lost <=>
                        page.calls[i].lost \/ page.calls[i].answer.sid = page.cookie
<1> DEFINE q == doubted(page, "revoked")
           lost(i) == page.calls[i].lost \/ page.calls[i].answer.sid = page.cookie
           f == [i \in Slots |-> [page.calls[i] EXCEPT !.lost = lost(i)]]
           v == [q EXCEPT !.calls = f]
<1>1. page \in Page /\ StarsRead(page, server)
  BY DEF AccountSound, Sound, Shelved
<1>2. /\ q \in Page /\ q.app = page.app /\ q.history = page.history /\ q.admin = page.admin
      /\ q.calls = page.calls /\ q.cookie = page.cookie
      /\ q.session.account = page.session.account
      /\ q.session.doubt = page.session.doubt \cup {"revoked"}
      /\ q.session.acted = page.session.acted /\ q.session.busy = page.session.busy
      /\ q.session.mode = page.session.mode
  BY <1>1, SignedOutFields
<1>3. revoked(page) = v
  BY DEF revoked
<1>4. ASSUME NEW i \in Slots
      PROVE  /\ f[i] \in Call /\ f[i].kind = page.calls[i].kind /\ f[i].sid = page.calls[i].sid
             /\ f[i].arg = page.calls[i].arg /\ f[i].answer = page.calls[i].answer
             /\ f[i].current = page.calls[i].current /\ f[i].alive = page.calls[i].alive
             /\ f[i].overtaken = page.calls[i].overtaken
             /\ f[i].lost <=> lost(i)
             /\ page.calls[i].kind = "star" => f[i] = page.calls[i]
  <2> DEFINE c == page.calls[i]
             b == lost(i)
  <2>1. c \in Call
    BY <1>1, PageParts
  <2>2. b \in BOOLEAN /\ f[i] = [c EXCEPT !.lost = b]
    BY <2>1 DEF Call
  <2>3. c.kind = "star" => (b <=> c.lost)
    BY <1>1 DEF StarsRead, StarRead
  <2>4. b <=> lost(i)
    OBVIOUS
  <2> HIDE DEF f, b, c
  <2>5. /\ f[i] \in Call /\ f[i].kind = c.kind /\ f[i].sid = c.sid
        /\ f[i].arg = c.arg /\ f[i].answer = c.answer
        /\ f[i].current = c.current /\ f[i].alive = c.alive
        /\ f[i].overtaken = c.overtaken /\ f[i].lost = b
    BY <2>1, <2>2 DEF Call
  <2>6. c.kind = "star" => f[i] = c
    <3>1. c.kind = "star" => b = c.lost
      BY <2>1, <2>2, <2>3 DEF Call
    <3>2. [c EXCEPT !.lost = c.lost] = c
      BY <2>1 DEF Call
    <3> QED BY <2>2, <3>1, <3>2
  <2> QED BY <2>2, <2>4, <2>5, <2>6 DEF c
<1>5. f \in [Slots -> Call]
  <2>1. DOMAIN f = Slots /\ f = [i \in Slots |-> f[i]]
    OBVIOUS
  <2> HIDE DEF f
  <2> QED BY <1>4, <2>1
<1> HIDE DEF q, f
<1>6. /\ v \in Page /\ v.app = q.app /\ v.session = q.session /\ v.history = q.history
      /\ v.admin = q.admin /\ v.calls = f /\ v.cookie = q.cookie
  BY <1>2, <1>5, WithCalls
<1> HIDE DEF v
<1>7. Told(v, page)
  BY <1>2, <1>4, <1>6 DEF Told
<1>8. \A i \in Slots : Doubted(v.calls[i], page.calls[i]) /\ (v.calls[i].lost <=> lost(i))
  BY <1>4, <1>6 DEF Doubted
<1> QED BY <1>2, <1>3, <1>6, <1>7, <1>8

\* What the lists wait for and show does not depend on that.
LEMMA DoubtedLists ==
    ASSUME NEW v, NEW sv, NEW t, Shelved(page, sv), Listed(page, sv),
           t.owner = sv.owner, t.starred = sv.starred, t.rows = sv.rows,
           v.app = page.app, v.cookie = page.cookie, v.history = page.history,
           v.admin = page.admin, \A i \in Slots : Doubted(v.calls[i], page.calls[i])
    PROVE  Shelved(v, t) /\ Listed(v, t)
<1>1. \A i \in Slots : \A kinds : waiting(v.calls[i], kinds) <=> waiting(page.calls[i], kinds)
  BY DEF waiting, Doubted
<1>2. ASSUME NEW i \in Slots, NEW h, NEW a
      PROVE  /\ ShelfRead(page.calls[i], sv) => ShelfRead(v.calls[i], t)
             /\ ShelfDue(page.calls[i], h) => ShelfDue(v.calls[i], h)
             /\ StarRead(page.calls[i], sv) => StarRead(v.calls[i], t)
             /\ PanelRead(page.calls[i], sv) => PanelRead(v.calls[i], t)
             /\ PanelDue(page.calls[i], a) => PanelDue(v.calls[i], a)
  <2> DEFINE c == page.calls[i]
             d == v.calls[i]
  <2>1. /\ d.kind = c.kind /\ d.sid = c.sid /\ d.arg = c.arg /\ d.answer = c.answer
        /\ d.current = c.current /\ d.alive = c.alive /\ d.overtaken = c.overtaken
        /\ c.kind = "star" => d = c
    BY DEF Doubted
  <2>2. /\ \A kinds : served(d, kinds) <=> served(c, kinds)
        /\ \A kinds : waiting(d, kinds) <=> waiting(c, kinds)
        /\ PageRead(d) <=> PageRead(c)
    BY <2>1 DEF served, waiting, PageRead
  <2> HIDE DEF c, d
  <2>3. ShelfRead(c, sv) => ShelfRead(d, t)
    BY <2>1, <2>2 DEF ShelfRead
  <2>4. ShelfDue(c, h) => ShelfDue(d, h)
    BY <2>1, <2>2 DEF ShelfDue
  <2>5. StarRead(c, sv) => StarRead(d, t)
    BY <2>1, <2>2 DEF StarRead
  <2>6. PanelRead(c, sv) => PanelRead(d, t)
    BY <2>1, <2>2 DEF PanelRead
  <2>7. PanelDue(c, a) => PanelDue(d, a)
    BY <2>1, <2>2 DEF PanelDue
  <2> QED BY <2>3, <2>4, <2>5, <2>6, <2>7 DEF c, d
<1>3. Sole(v, listKinds) /\ Sole(v, {"detail"}) /\ StarsRead(v, t) /\ HistoryCalls(v, t)
  BY <1>1, <1>2 DEF Shelved, HistoryCalls, StarsRead, Sole
<1>4. PanelCalls(v, t)
  BY <1>1, <1>2 DEF Listed, PanelCalls, Sole, Doubted
<1>5. HistoryRows(page, sv) => HistoryRows(v, t)
  BY <1>1 DEF HistoryRows
<1>6. Stars(page, sv) => Stars(v, t)
  <2>1. \A i \in Slots : v.calls[i].kind = "star" => v.calls[i] = page.calls[i]
    BY DEF Doubted
  <2>2. Stars(page, sv) => Stars(v, sv)
    BY <2>1, StarsKept
  <2> QED BY <2>2 DEF Stars
<1>7. PanelRows(page, sv) => PanelRows(v, t)
  BY <1>1 DEF PanelRows
<1> QED BY <1>3, <1>4, <1>5, <1>6, <1>7 DEF Shelved, Listed

\* The session of the page ends elsewhere: what it believes is in doubt, and the answer that
\* tells of that session is not believed.
LEMMA RevokedSound ==
    ASSUME AccountSound, page.cookie \in server.valid,
           NEW t, t = [server EXCEPT !.valid = @ \ {page.cookie}]
    PROVE  Sound(revoked(page), t)
<1> DEFINE v == revoked(page)
<1>1. /\ page \in Page /\ server \in Server /\ Sound(page, server) /\ Truthful(page, server)
      /\ SessionsMade(page, server) /\ Shelved(page, server) /\ Listed(page, server)
  BY DEF AccountSound, Sound, Signed
<1>2. /\ t \in Server /\ t.owner = server.owner /\ t.made = server.made /\ t.rows = server.rows
      /\ t.starred = server.starred /\ t.valid = server.valid \ {page.cookie}
  BY <1>1 DEF Server
<1>3. /\ page.cookie # NoSid /\ server.owner[page.cookie] # NoUser
      /\ whose(server, page.cookie) = server.owner[page.cookie]
  BY <1>1, OwnersKnown, Bounds DEF Sids, NoSid, whose
<1>4. /\ v \in Page /\ Told(v, page) /\ v.history = page.history
      /\ v.admin = page.admin /\ v.session.doubt # {}
      /\ \A i \in Slots :
            /\ Doubted(v.calls[i], page.calls[i])
            /\ v.calls[i].lost <=>
                page.calls[i].lost \/ page.calls[i].answer.sid = page.cookie
  BY <1>3, RevokedFields
<1> HIDE DEF v
<1>5. Ends(t, server)
  BY <1>2 DEF Ends
<1>6. Later(t, server) /\ SessionsMade(v, t)
  BY <1>1, <1>4, <1>5, EndsLater
<1>7. AnswersTrue(v, t)
  BY <1>1, <1>4, <1>6, AnswerLater DEF AnswersTrue, Doubted
<1>8. Truthful(v, t)
  <2>1. ASSUME NEW i \in Slots, v.calls[i].kind = "whoami", knows(v.calls[i]), ~v.calls[i].lost
        PROVE  FALSE
    <3> DEFINE c == page.calls[i]
    <3>1. c.kind = "whoami" /\ c.answer = v.calls[i].answer
      BY <1>4, <2>1 DEF Doubted
    <3>2. knows(c) /\ ~c.lost /\ c.answer.sid # page.cookie
      BY <1>4, <2>1, <3>1 DEF knows
    <3>3. Says(accountOf(c), page, server)
      BY <1>1, <3>1, <3>2 DEF Truthful
    <3>4. accountOf(c).user # NoUser /\ accountOf(c).sid = c.answer.sid
      BY <1>3, <3>3 DEF Says, accountOf
    <3>5. accountOf(c) # NoAccount
      BY <3>4 DEF NoAccount
    <3> QED BY <3>2, <3>3, <3>4, <3>5 DEF Says
  <2> QED BY <1>4, <2>1 DEF Truthful
<1>9. Signed(v, t)
  BY <1>1, <1>4, <1>6, <1>7, <1>8, ToldSigned
<1>10. Shelved(v, t) /\ Listed(v, t)
  BY <1>1, <1>2, <1>4, DoubtedLists DEF Told
<1> QED BY <1>2, <1>4, <1>9, <1>10 DEF Sound, v

LEMMA WorldSound ==
    ASSUME AccountSound, World
    PROVE  AccountSound'
<1>1. /\ page \in Page /\ server \in Server /\ SessionsMade(page, server)
  BY DEF AccountSound, Sound, Signed
<1>2. CASE Revoked
  <2>1. PICK s \in server.valid :
            /\ server' = [server EXCEPT !.valid = @ \ {s}]
            /\ page' = IF s = page.cookie THEN revoked(page) ELSE page
    BY <1>2 DEF Revoked
  <2>2. CASE s = page.cookie
    BY <2>1, <2>2, RevokedSound DEF AccountSound
  <2>3. CASE s # page.cookie
    <3> DEFINE t == [server EXCEPT !.valid = @ \ {s}]
    <3>1. /\ t \in Server /\ t.owner = server.owner /\ t.made = server.made
          /\ t.rows = server.rows /\ t.starred = server.starred
          /\ t.valid = server.valid \ {s}
      BY <1>1 DEF Server
    <3>2. server' = t /\ page' = page
      BY <2>1, <2>3
    <3> HIDE DEF t
    <3>3. Ends(t, server) /\ whose(t, page.cookie) = whose(server, page.cookie)
      BY <2>3, <3>1 DEF Ends, whose
    <3> QED BY <3>1, <3>2, <3>3, ElseSound DEF AccountSound
  <2> QED BY <2>2, <2>3
<1>3. CASE Demoted
  <2>1. PICK u \in server.admins :
            page' = page /\ server' = [server EXCEPT !.admins = @ \ {u}]
    BY <1>3 DEF Demoted
  <2> DEFINE t == [server EXCEPT !.admins = @ \ {u}]
  <2>2. /\ t \in Server /\ t.owner = server.owner /\ t.made = server.made
        /\ t.rows = server.rows /\ t.starred = server.starred /\ t.valid = server.valid
    BY <1>1 DEF Server
  <2>3. server' = t
    BY <2>1
  <2> HIDE DEF t
  <2>4. Ends(t, server) /\ whose(t, page.cookie) = whose(server, page.cookie)
    BY <2>2 DEF Ends, whose
  <2> QED BY <2>1, <2>2, <2>3, <2>4, ElseSound DEF AccountSound
<1>4. CASE Stored
  <2>1. PICK tab \in listTabs : \E m \in Matches \ server.rows[tab] :
            page' = page /\ server' = [server EXCEPT !.rows[tab] = @ \cup {m}]
    BY <1>4 DEF Stored
  <2>2. PICK m \in Matches : server' = [server EXCEPT !.rows[tab] = @ \cup {m}]
    BY <2>1
  <2> DEFINE rows == [server.rows EXCEPT ![tab] = @ \cup {m}]
             t == [server EXCEPT !.rows = rows]
  <2>3. server.rows \in [listTabs -> SUBSET Matches]
    BY <1>1 DEF Server
  <2>4. /\ rows \in [listTabs -> SUBSET Matches]
        /\ \A k \in listTabs : server.rows[k] \subseteq rows[k]
    BY <2>3
  <2>5. server' = t
    BY <2>2
  <2> HIDE DEF rows
  <2>6. /\ t \in Server /\ t.owner = server.owner /\ t.made = server.made
        /\ t.rows = rows /\ t.starred = server.starred /\ t.valid = server.valid
    BY <1>1, <2>4 DEF Server
  <2> HIDE DEF t
  <2>7. Ends(t, server) /\ whose(t, page.cookie) = whose(server, page.cookie)
    BY <2>4, <2>6 DEF Ends, whose
  <2> QED BY <2>1, <2>5, <2>6, <2>7, ElseSound DEF AccountSound
<1>5. CASE MatchFound
  BY <1>5, NavigationSound
<1> QED BY <1>2, <1>3, <1>4, <1>5 DEF World

-----------------------------------------------------------------------------

(* The invariant.                                                            *)

\* A page opens with nobody signed in, and asks who its cookie is for.
LEMMA InitSound ==
    ASSUME Init
    PROVE  AccountSound
<1>1. PICK start \in {<<"account", "reset">>, <<"intro", "login">>, <<"intro", "register">>},
           cookie \in {NoSid, 1} :
        page = initialPage(start[1], start[2], cookie)
  BY DEF Init
<1>2. PICK owner \in Admins :
        server = [owner |-> [s \in Sids |-> IF s <= 2 THEN owner ELSE NoUser],
                  valid |-> {1, 2}, made |-> 2, admins |-> Admins,
                  rows |-> [tab \in listTabs |-> Matches \ {2}],
                  starred |-> [u \in Users |-> {1}]]
  BY DEF Init
<1> DEFINE app == [screen |-> start[1], returnTo |-> "intro", socket |-> noSocket,
                   adminOpen |-> FALSE, overtaken |-> FALSE]
           calls == [i \in Slots |-> noCall]
           x == [app |-> app, session |-> newSession(start[2]), history |-> newHistory(NoUser),
                 admin |-> newPanel("stats"), calls |-> calls, cookie |-> cookie]
<1>3. /\ start[1] \in {"account", "intro"} /\ start[2] \in Modes \ {"settings"}
      /\ cookie \in SidsOrNone
  <2>1. MaxSids \in Nat /\ 1 <= MaxSids
    BY Bounds
  <2>2. cookie \in SidsOrNone
    BY <2>1 DEF SidsOrNone, NoSid
  <2> QED BY <2>2 DEF Modes
<1>4. /\ app \in App /\ app.screen \in {"account", "intro"} /\ app.socket = noSocket
      /\ app.adminOpen = FALSE
  BY <1>3 DEF App, Screens, People
<1>5. /\ newSession(start[2]) \in Session /\ newSession(start[2]).account = NoAccount
      /\ newSession(start[2]).mode # "settings"
  <2>1. NoAccount \in Known /\ NoSid \in SidsOrNone
    BY <1>3, Bounds DEF NoAccount, Known, People, SidsOrNone, NoSid
  <2> HIDE DEF NoAccount, NoSid, Known, SidsOrNone
  <2> QED BY <1>3, <2>1 DEF newSession, Session, Modes
<1>6. newHistory(NoUser) \in Shelf /\ newPanel("stats") \in Board
  BY NewListTypes DEF People, Tabs
<1>7. calls \in [Slots -> Call] /\ \A i \in Slots : calls[i] = noCall
  BY NoCallTypes
<1> HIDE DEF app, calls
<1>8. /\ x \in Page /\ x.app = app /\ x.session = newSession(start[2]) /\ x.calls = calls
      /\ x.cookie = cookie
  BY <1>3, <1>4, <1>5, <1>6, <1>7 DEF Page
<1>9. page = called(x, "restore", noArg)
  BY <1>1 DEF initialPage, app, calls
<1> HIDE DEF x
<1>10. Vacant(x)
  BY <1>7, <1>8, NoCallTypes, Bounds DEF Vacant, Slots
<1>11. Sent(page, x, "restore", noArg)
  BY <1>8, <1>9, <1>10, NoCallTypes, CalledSent DEF Kinds, authKinds
<1>12. /\ page \in Page /\ page.app = app /\ page.cookie = cookie
       /\ page.session.account = NoAccount /\ page.session.mode # "settings"
  BY <1>5, <1>8, <1>11 DEF Sent
<1>13. PICK n \in Slots :
        /\ page.calls[n] = freshCall(cookie, "restore", noArg)
        /\ \A i \in Slots \ {n} : page.calls[i] = noCall
  BY <1>7, <1>8, <1>11 DEF Sent
<1>14. \A i \in Slots :
        LET c == page.calls[i]
        IN  /\ c.kind \in {"none", "restore"} /\ c.answer.status = "none"
            /\ c.kind = "restore" => i = n
            /\ c.sid \in {NoSid, cookie}
  <2>1. /\ freshCall(cookie, "restore", noArg).kind = "restore"
        /\ freshCall(cookie, "restore", noArg).sid = cookie
        /\ freshCall(cookie, "restore", noArg).answer.status = "none"
    BY <1>3, NoCallTypes, FreshCall DEF Kinds, authKinds
  <2> QED BY <1>13, <2>1, NoCallTypes
<1>15. server \in Server /\ SessionsMade(page, server)
  <2>1. /\ MaxSids \in Nat /\ 2 <= MaxSids /\ MaxMatches \in Nat /\ 1 <= MaxMatches
        /\ Admins \subseteq Users
    BY Bounds
  <2>2. {1, 2} \subseteq Sids /\ 2 \in SidsOrNone /\ 1 \in Matches
    BY <2>1 DEF Sids, SidsOrNone, Matches
  <2>3. /\ server.owner = [s \in Sids |-> IF s <= 2 THEN owner ELSE NoUser]
        /\ server.valid = {1, 2} /\ server.made = 2
    BY <1>2
  <2>4. server.owner \in [Sids -> People]
    BY <2>1, <2>3 DEF People
  <2>5. server \in Server
    BY <1>2, <2>1, <2>2, <2>4 DEF Server
  <2>6. page.cookie <= server.made /\ \A i \in Slots : page.calls[i].sid <= server.made
    BY <1>12, <1>14, <2>3 DEF NoSid
  <2>7. \A s \in Sids : s <= server.made => server.owner[s] \in Users
    BY <2>1, <2>3
  <2>8. server.valid \subseteq 1 .. server.made
    BY <2>3
  <2> QED BY <2>5, <2>6, <2>7, <2>8 DEF SessionsMade
<1>16. AnswersTrue(page, server)
  BY <1>14 DEF AnswersTrue, AnswerTrue
<1>17. OneAtATime(page) /\ AtHistory(page, server) /\ Plays(page)
  BY <1>4, <1>12, <1>14 DEF OneAtATime, AtHistory, Plays, formKinds, historyKinds, noSocket
<1>18. Early(page)
  <2>1. \A i \in Slots : page.calls[i].kind = "restore" => page.calls[i].sid = page.cookie
    <3>1. page.calls[n].sid = cookie
      BY <1>3, <1>13, NoCallTypes, FreshCall DEF Kinds, authKinds
    <3> QED BY <1>12, <1>14, <3>1
  <2> QED BY <1>4, <1>12, <1>14, <2>1 DEF Early
<1>19. Truthful(page, server)
  <2>1. \E i \in Slots : page.calls[i].kind = "restore"
    <3>1. page.calls[n].kind = "restore"
      BY <1>3, <1>13, NoCallTypes, FreshCall DEF Kinds, authKinds
    <3> QED BY <3>1
  <2>2. \A i \in Slots : page.calls[i].kind # "whoami" /\ page.calls[i].answer.status # "ok"
    BY <1>14
  <2> QED BY <1>12, <2>1, <2>2 DEF Truthful
<1>20. Shelved(page, server)
  <2>1. \A i \in Slots : page.calls[i].kind \notin historyKinds
    BY <1>14 DEF historyKinds
  <2>2. HistoryCalls(page, server)
    BY <2>1 DEF HistoryCalls, Sole, ShelfRead, ShelfDue, waiting, served, historyKinds, listKinds
  <2>3. StarsRead(page, server)
    BY <2>1 DEF StarsRead, StarRead, served, historyKinds, listKinds
  <2> QED BY <1>4, <1>12, <2>2, <2>3 DEF Shelved
<1>21. Listed(page, server)
  <2>1. \A i \in Slots : page.calls[i].kind \notin adminKinds
    BY <1>14 DEF adminKinds, rowKinds, inspectKinds
  <2>2. PanelCalls(page, server)
    BY <2>1 DEF PanelCalls, Sole, PanelRead, PanelDue, waiting, served, adminKinds
  <2> QED BY <1>4, <1>12, <2>2 DEF Listed
<1> QED BY <1>12, <1>15, <1>16, <1>17, <1>18, <1>19, <1>20, <1>21
        DEF AccountSound, Sound, Signed

\* Who the page says it is, what its lists show and what its calls have read stay as the
\* invariant says, whatever the user, the server and the others do.
LEMMA StepSound ==
    ASSUME AccountSound, [Next]_vars
    PROVE  AccountSound'
<1>1. CASE Clicks
  BY <1>1, ClicksSound
<1>2. CASE World
  BY <1>2, WorldSound
<1>3. CASE \E i \in Slots : Serve(i) \/ Drop(i) \/ Answer(i)
  BY <1>3, ServeSound, DropSound, AnswerSound
<1>4. CASE UNCHANGED vars
  <2>1. page' = page /\ server' = server
    BY <1>4 DEF vars
  <2> QED BY <2>1 DEF AccountSound
<1> QED BY <1>1, <1>2, <1>3, <1>4 DEF Next

\* The invariant: the calls on their way and their answers, the account, the rows and the
\* stars of a page belong together as Signed, Shelved and Listed say, in the browser
\* (useAccountSession.ts, MatchHistoryScreen.tsx, AdminPanel.tsx) and on the server.
THEOREM AccountIsSound == Spec => []AccountSound
<1> QED BY InitSound, StepSound, PTL DEF Spec

-----------------------------------------------------------------------------

(* What the invariant says of the page.                                      *)

LEMMA SoundIdentity ==
    ASSUME AccountSound
    PROVE  IdentityTruth
<1>1. /\ page \in Page /\ server \in Server /\ Truthful(page, server)
      /\ page.cookie \in SidsOrNone
  BY PageParts DEF AccountSound, Sound, Signed
<1>2. SUFFICES ASSUME ~changing, page.session.doubt = {}
               PROVE  account.user = who(page.cookie)
                      /\ (account = NoAccount \/ account.sid = page.cookie)
  BY DEF IdentityTruth
<1>3. \A i \in Slots : page.calls[i].kind \notin {"restore", "whoami", "logout", "reset"}
  BY <1>2 DEF changing, underWay
<1>4. Says(account, page, server)
  BY <1>1, <1>2, <1>3, NothingUnderWay DEF account
<1>5. who(page.cookie) = whose(server, page.cookie)
  BY <1>1, WhoIs
<1> QED BY <1>4, <1>5 DEF Says

LEMMA SoundSocket ==
    ASSUME AccountSound
    PROVE  SocketIdentity
BY DEF AccountSound, Sound, Signed, Plays, SocketIdentity, account

LEMMA SoundHistory ==
    ASSUME AccountSound
    PROVE  HistoryFits
<1> DEFINE h == page.history
<1>1. /\ Truthful(page, server) /\ AtHistory(page, server)
      /\ page.app.screen = "history" => HistoryRows(page, server)
  BY DEF AccountSound, Sound, Signed, Shelved
<1>2. SUFFICES ASSUME page.app.screen = "history"
               PROVE  /\ h.listStatus = "ready" =>
                           /\ descending(h.matches) /\ h.shown = h.filter
                           /\ h.filter = "all" => noGap(h.matches, h.next, h.since)
                           /\ page.session.doubt = {} /\ signedIn => h.owner = account.user
                      /\ h.detail # NoMatch => h.detail = h.selected
                      /\ h.selected = h.wanted
                      /\ h.listStatus = "loading" => waits({"list"})
                      /\ h.loadingMore => waits({"more"})
                      /\ h.detailStatus = "loading" => waits({"detail"})
  BY DEF HistoryFits, History
<1>3. HistoryRows(page, server)
  BY <1>1, <1>2
<1>4. ASSUME h.listStatus = "ready", page.session.doubt = {}, signedIn
      PROVE  h.owner = account.user
  <2>1. \A i \in Slots : page.calls[i].kind # "whoami"
    BY <1>1, <1>2 DEF AtHistory, formKinds
  <2>2. account.user = server.owner[page.cookie]
    BY <1>1, <1>4, <2>1 DEF Truthful, signedIn, account
  <2>3. h.owner = server.owner[page.cookie]
    BY <1>3, <1>4 DEF HistoryRows
  <2> QED BY <2>2, <2>3
<1>5. h.listStatus = "ready" =>
        /\ descending(h.matches) /\ h.shown = h.filter
        /\ h.filter = "all" => noGap(h.matches, h.next, h.since)
  BY <1>3 DEF HistoryRows, listOf, Joined
<1>6. /\ h.detail # NoMatch => h.detail = h.selected
      /\ h.selected = h.wanted
  BY <1>3 DEF HistoryRows
<1>7. /\ h.listStatus = "loading" => waits({"list"})
      /\ h.loadingMore => waits({"more"})
      /\ h.detailStatus = "loading" => waits({"detail"})
  BY <1>3 DEF HistoryRows, waits, waiting
<1> HIDE DEF h
<1> QED BY <1>4, <1>5, <1>6, <1>7

LEMMA SoundPanel ==
    ASSUME AccountSound
    PROVE  PanelFits
<1> DEFINE a == page.admin
<1>1. SUFFICES ASSUME page.app.adminOpen
               PROVE  /\ a.mixed \/ ( /\ descending(a.items)
                                       /\ noGap(a.items, a.cursor, a.since)
                                       /\ a.shown = "named" => Range(a.items) \subseteq Named )
                      /\ a.tab \in listTabs /\ ~a.loading /\ ~a.error => a.shown = a.query
                      /\ a.detail # NoMatch => a.detail = a.selected
                      /\ a.selected = a.wanted
                      /\ a.tab \in listTabs /\ a.loading => waits(rowKinds)
                      /\ a.detailLoading => waits(inspectKinds)
  BY DEF PanelFits, Panel
<1>2. PanelRows(page, server)
  BY <1>1 DEF AccountSound, Sound, Listed
<1>3. a.mixed \/ ( /\ descending(a.items) /\ noGap(a.items, a.cursor, a.since)
                   /\ a.shown = "named" => Range(a.items) \subseteq Named )
  BY <1>2 DEF PanelRows, Joined
<1>4. /\ a.tab \in listTabs /\ ~a.loading /\ ~a.error => a.shown = a.query
      /\ a.detail # NoMatch => a.detail = a.selected
      /\ a.selected = a.wanted
  BY <1>2 DEF PanelRows
<1>5. /\ a.tab \in listTabs /\ a.loading => waits(rowKinds)
      /\ a.detailLoading => waits(inspectKinds)
  BY <1>2 DEF PanelRows, waits, waiting
<1> HIDE DEF a
<1> QED BY <1>3, <1>4, <1>5

LEMMA SoundBookmarks ==
    ASSUME AccountSound
    PROVE  BookmarksTrue
<1> DEFINE h == page.history
           stars == server.starred[h.owner]
<1>1. SUFFICES ASSUME page.app.screen = "history"
               PROVE  /\ \A m \in Range(h.matches) :
                            m \notin h.pending \cup h.doubt => (m \in h.starred <=> m \in stars)
                      /\ h.detail # NoMatch /\ h.detail \notin h.pending \cup h.doubt =>
                            (h.detailStarred <=> h.detail \in stars)
  BY DEF BookmarksTrue, History
<1>2. HistoryRows(page, server) /\ Stars(page, server)
  BY <1>1 DEF AccountSound, Sound, Shelved
<1>3. CASE h.matches = <<>> /\ h.selected = NoMatch
  <2>1. h.detail = NoMatch
    BY <1>2, <1>3 DEF HistoryRows
  <2>2. Range(h.matches) = {}
    BY <1>3 DEF Range
  <2> QED BY <2>1, <2>2
<1>4. CASE h.matches # <<>> \/ h.selected # NoMatch
  <2>1. h.owner = server.owner[page.cookie]
    BY <1>2, <1>4 DEF HistoryRows
  <2> QED BY <1>2, <2>1 DEF Stars
<1> QED BY <1>3, <1>4

-----------------------------------------------------------------------------

\* With no lookup, login, logout or reset under way and nothing in doubt, the page says who
\* its cookie is signed in as (useAccountSession.ts: storeAccount).
THEOREM AccountIdentityTruth == Spec => []IdentityTruth
<1> QED BY AccountIsSound, SoundIdentity, PTL

\* The socket of a game plays under the account that the page shows (App.tsx:
\* resetForAccountChange).
THEOREM AccountSocketIdentity == Spec => []SocketIdentity
<1> QED BY AccountIsSound, SoundSocket, PTL

\* The rows of the match history and of the administrators' lists are those of the filter,
\* the query and the account on show, in order and without a gap, and what is loading waits
\* for an answer (MatchHistoryScreen.tsx: listRequest, detailRequest; AdminPanel.tsx).
THEOREM AccountAnswersFit == Spec => []AnswersFit
<1>1. AccountSound => AnswersFit
  BY SoundHistory, SoundPanel DEF AnswersFit
<1> QED BY <1>1, AccountIsSound, PTL

\* A star that is shown, and neither being saved nor in doubt, is the server's, in the list
\* and in the detail (historyState.ts: setBookmark, bookmarkFailed).
THEOREM AccountBookmarksTrue == Spec => []BookmarksTrue
<1> QED BY AccountIsSound, SoundBookmarks, PTL
=============================================================================
