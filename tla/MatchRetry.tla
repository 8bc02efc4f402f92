----------------------------- MODULE MatchRetry -----------------------------
(* A run whose clients repeat themselves: any command may be sent again, word *)
(* for word or with other content under its old id, and arrive before or     *)
(* after the deadline.  The web client sends each command once; this is what *)
(* the authority's caches and tombstones are for.  Nothing is read from the  *)
(* sockets here, so server.sent is all the clients were ever told.           *)
EXTENDS MatchRun

CONSTANTS
    MaxIds,    \* the bound on the command ids a client uses
    MaxSends   \* the bound on the commands each client sends

ASSUME RetryAssumption == MaxIds \in Nat /\ MaxSends \in [Seats -> Nat]

VARIABLE posted   \* per seat, the commands sent so far, in order

retryVars == <<server, uplink, posted>>

RetryInit ==
    /\ \E first \in FirstSeats : server = startRun(createMatchRoom, first)
    /\ uplink = [s \in Seats |-> <<>>]
    /\ posted = [s \in Seats |-> <<>>]

Post(s, e) ==
    /\ uplink[s] = <<>>
    /\ Len(posted[s]) < MaxSends[s]
    /\ uplink' = [uplink EXCEPT ![s] = <<e>>]
    /\ posted' = [posted EXCEPT ![s] = Append(@, e)]
    /\ UNCHANGED server

\* a command of a client that has seen the current revision and is to act, under
\* any id
Send(s) ==
    /\ server.run.state.activeSeat = s
    /\ \E id \in 0 .. MaxIds - 1, type \in CommandTypes :
        /\ type = "end-reveal" => s \in server.run.state.revealActive
        /\ Post(s, [kind |-> "command", run |-> server.run.id, id |-> id,
                    expected |-> server.run.revision, type |-> type])

Resend(s) == \E e \in Range(posted[s]) : Post(s, e)

RetryNext ==
    \/ \E s \in Seats : Send(s) \/ Resend(s)
    \/ (TurnTimerFires \/ DeadlinePasses
        \/ \E s \in Seats : HandleCommand(s) \/ RevealTimerFires(s)) /\ UNCHANGED posted

RetrySpec == RetryInit /\ [][RetryNext]_retryVars

-----------------------------------------------------------------------------
(* Properties.                                                               *)

acceptances(s) == {m \in Range(server.sent[s]) : m.kind = "accepted"}

\* However often a command is sent, whatever the cache has evicted, its client is
\* told of one acceptance of it: no id is accepted twice or with other content.
AnswersAgree ==
    \A s \in Seats : \A m, n \in acceptances(s) :
        m.id = n.id /\ m.id # NoId => m = n

\* A client is told of every revision once: repeated answers aside, no two
\* updates sent to a seat cover the same revision.
RevisionsOnce ==
    \A s \in Seats : \A m, n \in acceptances(s) :
        m # n => m.to <= n.from \/ n.to <= m.from

\* Whatever a client repeats, it is answered and told of each revision once.
AnsweredOnce == AnswersAgree /\ RevisionsOnce

\* Repeating an accepted command changes nothing, except that its arrival may
\* resolve a deadline that has passed; then the game moves by the timeout alone.
RepeatInert ==
    [][\A s \in Seats :
        HandleCommand(s) /\ Head(uplink[s]).id \in server.run.acceptedCommandIds[s] =>
            server'.run.revision = server.run.revision
                + (IF server.phase = "active" /\ server.expired THEN 1 ELSE 0)]_retryVars

\* A client command is never applied once the deadline it missed has passed: its
\* arrival resolves the timeout first, so the turn it was meant for is over.
LateCommandMissesTurn ==
    [][\A s \in Seats :
        HandleCommand(s) /\ server.phase = "active" /\ server.expired =>
            server'.run.revision = server.run.revision + 1]_retryVars

\* A repeated command is never applied again and a late one never in time.
RepeatsInert == RepeatInert /\ LateCommandMissesTurn
=============================================================================
