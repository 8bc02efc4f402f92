--------------------------- MODULE AccountSession ---------------------------
(* useAccountSession.ts, with the parts of authClient.ts it calls: the       *)
(* account that the page believes it is signed in to.  Operators on the      *)
(* session of a page w.  Left out: error and notice texts, the captcha, and  *)
(* what the mail flows (registration, recovery, resend, change of address)   *)
(* write in the database.                                                    *)
EXTENDS Calls

NoAccount == [user |-> NoUser, sid |-> NoSid, admin |-> FALSE]
accountOf(c) == [user |-> c.answer.user, sid |-> c.answer.sid, admin |-> c.answer.admin]

\* doubt and acted are for the properties: why the account shown may not be the
\* cookie's, and whether a request was answered before the first one was
newSession(mode) ==
    [account |-> NoAccount, hydrated |-> FALSE, mode |-> mode, busy |-> FALSE,
     devices |-> {}, mine |-> NoSid, doubt |-> {}, acted |-> FALSE]

\* the modes of the form, and the ones each switches to
formModes(mode) ==
    CASE mode = "register" -> {"login"}
      [] mode = "login"    -> {"register", "forgot"}
      [] mode = "verify"   -> {"login"}
      [] mode = "forgot"   -> {"login"}
      [] mode = "reset"    -> {"forgot"}
      [] OTHER             -> {}

mailModes == {"register", "verify", "forgot", "settings"}

\* the page learns that its session has ended
settledDoubt(w) == [w EXCEPT !.session.doubt = @ \ {"revoked", "lost"}]
doubted(w, cause) == [w EXCEPT !.session.doubt = @ \cup {cause}]

storeAccount(w, account) == [w EXCEPT !.session.account = account]

\* fail for an expired session, and invalidateSession
signedOut(w) ==
    [storeAccount(w, NoAccount) EXCEPT !.session.devices = {}, !.session.mode = "login"]

invalidated(w) == signedOut(settledDoubt(w))

fail(w, c) ==
    IF c.answer.status # "expired" THEN w
    ELSE signedOut(IF c.sid = w.cookie THEN settledDoubt(w) ELSE doubted(w, "late"))

\* an operation that the form waits for
asked(w, kind, arg) == [called(w, kind, arg) EXCEPT !.session.busy = TRUE]
released(w) == [w EXCEPT !.session.busy = FALSE]

loadDeviceSessions(w) ==
    IF w.session.account = NoAccount THEN w
    ELSE called(w, "devices", [noArg EXCEPT !.sid = w.session.account.sid])

prepareAccount(w, mode) ==
    LET shown == [w EXCEPT !.session.mode = mode]
    IN  IF mode = "settings" THEN loadDeviceSessions(shown) ELSE shown

-----------------------------------------------------------------------------
(* The answers; c is the call.                                               *)

onRestored(w, c) ==
    LET late == IF w.session.acted \/ c.answer.status # "ok" THEN doubted(w, "restore") ELSE w
        kept == IF c.answer.status = "ok" THEN storeAccount(late, accountOf(c)) ELSE late
    IN  [kept EXCEPT !.session.hydrated = TRUE]

\* signIn sets the cookie; login then asks who that is
onSignedIn(w, i) ==
    LET c == w.calls[i]
    IN  IF c.answer.status = "ok"
        THEN [w EXCEPT !.cookie = c.answer.sid, !.session.acted = TRUE,
                       !.calls[i] = [c EXCEPT !.kind = "whoami", !.sid = c.answer.sid,
                                              !.answer = noAnswer]]
        ELSE [released(fail(w, c)) EXCEPT !.calls[i] = noCall]

\* fault: a login that has set the cookie is not stored
loggedIn_NotStored(w, account) == [w EXCEPT !.session.doubt = {}]

loggedIn(w, account) == [storeAccount(w, account) EXCEPT !.session.doubt = {}]

\* the answer of the session after signIn, or none
knows(c) == c.answer.status = "ok" /\ c.answer.user # NoUser

onWhoami(w, c) ==
    released(IF knows(c)
             THEN LET to == loggedIn(w, accountOf(c))
                  IN  IF c.lost THEN doubted(to, "revoked") ELSE to
             ELSE doubted(fail(w, c), "half"))

\* fault: the page signs out although the server did not
logoutFailed_SignsOut(w, c) == storeAccount(w, NoAccount)

logoutFailed(w, c) == fail(w, c)

loggedOut(w) ==
    [storeAccount(w, NoAccount) EXCEPT
        !.cookie = NoSid, !.session.devices = {}, !.session.acted = TRUE]

onMailed(w, c) ==
    released(IF c.answer.status # "ok" THEN fail(w, c)
             ELSE IF c.arg.flag THEN [w EXCEPT !.session.mode = "verify"] ELSE w)

\* a reset of one account's password, whichever the cookie is for
onReset(w, c) ==
    released(IF c.answer.status # "ok" THEN fail(w, c)
             ELSE [storeAccount(IF c.answer.user = NoUser THEN w ELSE doubted(w, "reset"),
                                NoAccount) EXCEPT
                        !.session.mode = "login", !.session.acted = TRUE])

onDevices(w, c) ==
    IF c.answer.status = "ok"
    THEN [w EXCEPT !.session.devices = c.answer.sids, !.session.mine = c.arg.sid]
    ELSE fail(w, c)

onRevoked(w, c) ==
    released(IF c.answer.status # "ok" THEN fail(w, c)
             ELSE [w EXCEPT !.session.devices = @ \ {c.arg.sid}])

\* signOutOtherDevices, and changePassword, which signs them out too
onOthersRevoked(w, c) ==
    released(IF c.answer.status # "ok" THEN fail(w, c)
             ELSE [w EXCEPT !.session.devices = @ \cap {w.session.mine}])
=============================================================================
