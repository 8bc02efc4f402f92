------------------------------ MODULE MatchRun ------------------------------
(* The half of server/src/matchCoordinator.ts that plays matches in a room:  *)
(* ready and rematch, client commands, the turn clock, the reveal windows,   *)
(* the withheld first half of an extra turn, the completed-match record and  *)
(* abandonment, for one room from its creation on.                           *)
(*                                                                           *)
(* A handler runs to completion on the event loop, so it is one operator on  *)
(* the server's state; one that lets the reducer choose yields the set of    *)
(* states it can return.  The game is the turn structure of TurnRules.  A    *)
(* command carries the state it led to, which stands for the events a client *)
(* compares its own replay with.  Delays are left out: a timer may fire at   *)
(* any time while it is armed, and the deadline may pass before it does.     *)
EXTENDS TurnRules, Sequences, SequencesExt

CONSTANTS
    CommandCacheSize,  \* dependencies.commandCacheSize
    FirstSeats         \* what dependencies.chooseFirstSeat may return

ASSUME CoordinatorAssumption ==
    CommandCacheSize \in Nat /\ FirstSeats \subseteq Seats /\ FirstSeats # {}

\* "shield" is its activation and select-shield-target
CommandTypes == {"place", "shield", "reveal", "extra-turn", "end-reveal"}
NoId  == -1    \* a null commandId
NoRun == 0     \* the room has no run yet

\* an applied command with the state it led to, and the withheld ones
Command == [type : CommandTypes \cup {"timeout"}, after : TurnState]
Buffer  == [seat : Seats, commands : Seq(Command), from : Nat, to : Nat]

VARIABLES
    server,   \* the room, its current run, its timers, and what its sockets hold
    uplink    \* per seat, the packets its client has sent and the server not read

-----------------------------------------------------------------------------
(* Server state.                                                             *)

newRun(id, first) ==
    [id |-> id, phase |-> "active", revision |-> 0, state |-> newTurns(first),
     commandCaches |-> [s \in Seats |-> <<>>],
     acceptedCommandIds |-> [s \in Seats |-> {}],
     bufferedOpponentUpdate |-> <<>>]  \* none or one

createMatchRoom ==
    [phase |-> "ready", readySeats |-> {},
     run |-> [newRun(NoRun, 0) EXCEPT !.phase = "ready"],
     turnTimer |-> FALSE,       \* timerByRoomId holds a handle
     revealTimers |-> {},       \* the seats revealTimerByKey holds a handle for
     expired |-> FALSE,         \* now() >= run.deadline
     sent |-> [s \in Seats |-> <<>>],
     completed |-> <<>>]        \* the runs handed to onMatchCompleted

-----------------------------------------------------------------------------
(* Timers and phases.                                                        *)

\* fault: the reveal windows stay armed
clearRoomTimer_TurnOnly(sv) == [sv EXCEPT !.turnTimer = FALSE]

clearRoomTimer(sv) == [sv EXCEPT !.turnTimer = FALSE, !.revealTimers = {}]

\* fault: the turn clock is stopped and not started again
resetPlacementWindow_NotRearmed(sv) == [clearRoomTimer(sv) EXCEPT !.expired = FALSE]

\* also the first deadline of a run, which startRun schedules itself
resetPlacementWindow(sv) ==
    [clearRoomTimer(sv) EXCEPT !.turnTimer = TRUE, !.expired = FALSE]

\* fault: the timers of a finished run are left alone
finishRun_TimersKept(sv) ==
    IF sv.run.phase = "finished" THEN sv
    ELSE [sv EXCEPT !.phase = "finished", !.run.phase = "finished",
                    !.completed = Append(@, sv.run.id)]

finishRun(sv) ==
    IF sv.run.phase = "finished" THEN sv
    ELSE [clearRoomTimer(sv) EXCEPT !.phase = "finished",
                                    !.run.phase = "finished",
                                    !.completed = Append(@, sv.run.id)]

\* both seats are sent the packet
announced(sv, packet) == [sv EXCEPT !.sent = [s \in Seats |-> Append(@[s], packet)]]

startRun(sv, first) ==
    LET started == [sv EXCEPT !.phase = "active", !.readySeats = {},
                              !.run = newRun(sv.run.id + 1, first)]
        notice  == [kind |-> "game-start", run |-> started.run.id,
                    state |-> started.run.state]
    IN  announced(resetPlacementWindow(started), notice)

setReady(sv, s, ready) ==
    LET marked == [sv EXCEPT !.readySeats = IF ready THEN @ \cup {s} ELSE @ \ {s}]
    IN  IF sv.phase = "active" THEN {sv}
        ELSE IF marked.readySeats # Seats THEN {marked}
        ELSE {startRun(marked, first) : first \in FirstSeats}

-----------------------------------------------------------------------------
(* Updates.                                                                  *)

send(sv, s, packet) == [sv EXCEPT !.sent[s] = Append(@, packet)]

acceptedUpdate(sv, id, from, to, s, commands) ==
    [kind |-> "accepted", run |-> sv.run.id, id |-> id, from |-> from, to |-> to,
     seat |-> s, commands |-> commands, timed |-> sv.run.phase = "active"]

rejection(sv, s, run, id, revision, reason) ==
    send(sv, s, [kind |-> "rejected", run |-> run, id |-> id,
                 revision |-> revision, reason |-> reason])

\* the reducer's new state replaces the old
advanced(sv, st) ==
    [sv EXCEPT !.run.state = st, !.run.revision = @ + 1]

\* fault: the opponent is sent the half at once as well
withheld_AlsoSent(sv, s, from, command) ==
    send(sv, otherSeat(s),
         acceptedUpdate(sv, NoId, from, sv.run.revision, s, <<command>>))

withheld(sv, s, from, command) ==
    [sv EXCEPT !.run.bufferedOpponentUpdate =
        <<[seat |-> s, commands |-> <<command>>, from |-> from,
           to |-> sv.run.revision]>>]

\* fault: the batch keeps the end it had
folded_StaleEnd(sv, command) ==
    [sv EXCEPT !.run.bufferedOpponentUpdate[1].commands = Append(@, command)]

folded(sv, command) ==
    LET b == sv.run.bufferedOpponentUpdate[1]
    IN  [sv EXCEPT !.run.bufferedOpponentUpdate =
            <<[seat |-> b.seat, commands |-> Append(b.commands, command),
               from |-> b.from, to |-> sv.run.revision]>>]

\* faults: the batch goes to the seat that acted, is not sent, is not cleared
released_ToActor(sv, s) ==
    LET b == sv.run.bufferedOpponentUpdate[1]
    IN  send([sv EXCEPT !.run.bufferedOpponentUpdate = <<>>], s,
             acceptedUpdate(sv, NoId, b.from, b.to, b.seat, b.commands))

released_Lost(sv, s) == [sv EXCEPT !.run.bufferedOpponentUpdate = <<>>]

released_Kept(sv, s) ==
    LET b == sv.run.bufferedOpponentUpdate[1]
    IN  send(sv, otherSeat(s),
             acceptedUpdate(sv, NoId, b.from, b.to, b.seat, b.commands))

\* the buffer goes to the opponent of the seat that has just acted
released(sv, s) ==
    LET b == sv.run.bufferedOpponentUpdate[1]
    IN  send([sv EXCEPT !.run.bufferedOpponentUpdate = <<>>], otherSeat(s),
             acceptedUpdate(sv, NoId, b.from, b.to, b.seat, b.commands))

buffering(sv) == sv.run.bufferedOpponentUpdate # <<>>

acceptClientCommand(sv, s, id, type, st) ==
    LET next    == advanced(sv, st)
        placed  == IF st.phase = "finished" THEN finishRun(next)
                   ELSE IF type = "place" THEN resetPlacementWindow(next)
                   ELSE next
        timed   == IF type = "reveal"
                   THEN [placed EXCEPT !.revealTimers = @ \cup {s}]
                   ELSE IF s \notin st.revealActive
                   THEN [placed EXCEPT !.revealTimers = @ \ {s}]
                   ELSE placed
        command == [type |-> type, after |-> st]
        update  == acceptedUpdate(timed, id, sv.run.revision, timed.run.revision,
                                  s, <<command>>)
        told    == send(timed, s, update)
        halfway == s \in st.extraTurnInProgress
    IN  IF buffering(told)
        THEN IF halfway THEN folded(told, command)
             ELSE released(folded(told, command), s)
        ELSE IF type = "place" /\ halfway
        THEN withheld(told, s, sv.run.revision, command)
        ELSE send(told, otherSeat(s), [update EXCEPT !.id = NoId])

timeoutResolved(sv, st) ==
    LET s       == sv.run.state.activeSeat
        next    == advanced(sv, st)
        timed   == IF st.phase = "finished" THEN finishRun(next)
                   ELSE resetPlacementWindow(next)
        command == [type |-> "timeout", after |-> st]
        update  == acceptedUpdate(timed, NoId, sv.run.revision,
                                  timed.run.revision, s, <<command>>)
        told    == send(timed, s, update)
    IN  IF buffering(told) THEN released(folded(told, command), s)
        ELSE IF s \in st.extraTurnInProgress
        THEN withheld(told, s, sv.run.revision, command)
        ELSE send(told, otherSeat(s), update)

resolveTimeout(sv) ==
    IF sv.phase # "active" \/ sv.run.phase # "active" THEN {sv}
    ELSE {timeoutResolved(sv, st) : st \in timedOut(sv.run.state)}

\* fault: the opponent is told while it is owed a withheld half
revealClosed_Unbuffered(sv, s, st) ==
    LET next   == advanced(sv, st)
        update == acceptedUpdate(next, NoId, sv.run.revision, next.run.revision,
                                 s, <<[type |-> "end-reveal", after |-> st]>>)
    IN  send(send(next, s, update), otherSeat(s), update)

revealClosed(sv, s, st) ==
    LET next    == advanced(sv, st)
        command == [type |-> "end-reveal", after |-> st]
        update  == acceptedUpdate(next, NoId, sv.run.revision,
                                  next.run.revision, s, <<command>>)
        told    == send(next, s, update)
    IN  IF buffering(told) THEN folded(told, command)
        ELSE send(told, otherSeat(s), update)

closeRevealWindow(sv, s) ==
    IF \/ sv.phase # "active" \/ sv.run.phase # "active"
       \/ s \notin sv.run.state.revealActive
    THEN {sv}
    ELSE {revealClosed(sv, s, st) : st \in endReveal(sv.run.state, s)}

-----------------------------------------------------------------------------
(* Client commands: e is the envelope.                                       *)

\* what the reducer may accept e's command with
outcomes(st, s, type) ==
    IF st.phase = "finished" THEN {}
    ELSE IF type = "end-reveal" THEN endReveal(st, s)
    ELSE IF s # st.activeSeat THEN {}
    ELSE IF type = "place" THEN turnPlaced(st)
    ELSE IF type = "reveal" THEN reveal(st)
    ELSE IF type = "extra-turn" THEN armExtraTurn(st)
    ELSE setUp(st)

fingerprint(e) == [run |-> e.run, expected |-> e.expected, type |-> e.type]

cachedFor(sv, s, e) == {c \in Range(sv.run.commandCaches[s]) : c.id = e.id}

repeated(sv, s, e) == {c \in cachedFor(sv, s, e) : c.fingerprint = fingerprint(e)}

\* fault: only the timer resolves a turn
resolveExpiredDeadline_Skipped(sv) == {sv}

resolveExpiredDeadline(sv) ==
    IF sv.phase = "active" /\ sv.run.phase = "active" /\ sv.expired
    THEN resolveTimeout([sv EXCEPT !.turnTimer = FALSE])
    ELSE {sv}

\* fault: an id may be used again
refusal_Reusable(sv, s, e) ==
    IF sv.run.phase = "finished" \/ sv.phase = "finished" THEN "game-finished"
    ELSE IF e.expected # sv.run.revision THEN "stale-revision"
    ELSE "none"

\* why e is refused before the reducer sees it; a repeat gets this far only when
\* its arrival has just resolved an expired deadline
refusal(sv, s, e) ==
    IF sv.run.phase = "finished" \/ sv.phase = "finished" THEN "game-finished"
    ELSE IF repeated(sv, s, e) # {} THEN "stale-revision"
    ELSE IF cachedFor(sv, s, e) # {} \/ e.id \in sv.run.acceptedCommandIds[s]
    THEN "command-id-reused"
    ELSE IF e.expected # sv.run.revision THEN "stale-revision"
    ELSE "none"

\* fault: a finished game answers nothing
refused_Silently(sv, s, e, reason) ==
    IF reason = "game-finished" THEN sv
    ELSE rejection(sv, s, sv.run.id, e.id, sv.run.revision, reason)

refused(sv, s, e, reason) ==
    rejection(sv, s, sv.run.id, e.id, sv.run.revision, reason)

\* fault: an id is forgotten with its answer
remembered_NoTombstone(sv, s, e) ==
    [sv EXCEPT !.run.commandCaches[s] =
        <<[id |-> e.id, fingerprint |-> fingerprint(e), reply |-> Last(sv.sent[s])]>>]

\* the answer is cached, the oldest answers evicted, and the id kept for good
remembered(sv, s, e) ==
    LET entry == [id |-> e.id, fingerprint |-> fingerprint(e), reply |-> Last(sv.sent[s])]
        keep  == IF CommandCacheSize > 1 THEN CommandCacheSize ELSE 1
        all   == Append(sv.run.commandCaches[s], entry)
    IN  [sv EXCEPT !.run.commandCaches[s] =
                        SubSeq(all, IF Len(all) > keep THEN Len(all) - keep + 1 ELSE 1, Len(all)),
                   !.run.acceptedCommandIds[s] = @ \cup {e.id}]

\* the reducer may refuse any command for its rules, except a reveal's closing
applied(sv, s, e) ==
    {remembered(acceptClientCommand(sv, s, e.id, e.type, st), s, e) :
        st \in outcomes(sv.run.state, s, e.type)}
    \cup (IF e.type = "end-reveal" THEN {} ELSE {refused(sv, s, e, "rules")})

\* fault: a command that finds its deadline passed is dropped
answered_LateDropped(sv, s, e, late) ==
    IF late THEN {sv}
    ELSE IF e.run # sv.run.id THEN {refused(sv, s, e, "wrong-match")}
    ELSE IF refusal(sv, s, e) = "none" THEN applied(sv, s, e)
    ELSE {refused(sv, s, e, refusal(sv, s, e))}

answered(sv, s, e, late) ==
    IF sv.run.id = NoRun \/ sv.phase = "abandoned"
    THEN {rejection(sv, s, e.run, e.id, 0, "no-active-match")}
    ELSE IF e.run # sv.run.id THEN {refused(sv, s, e, "wrong-match")}
    ELSE IF ~late /\ repeated(sv, s, e) # {}
    THEN {send(sv, s, c.reply) : c \in repeated(sv, s, e)}
    ELSE IF refusal(sv, s, e) = "none" THEN applied(sv, s, e)
    ELSE {refused(sv, s, e, refusal(sv, s, e))}

handleGameCommand(sv, s, e) ==
    LET late == sv.phase = "active" /\ sv.run.phase = "active" /\ sv.expired
    IN  UNION {answered(resolved, s, e, late) : resolved \in resolveExpiredDeadline(sv)}

\* fault: the run is handed over as if it had been played out
abandon_Completes(sv, s) ==
    IF sv.phase = "abandoned" THEN sv
    ELSE send([clearRoomTimer(finishRun(sv)) EXCEPT !.phase = "abandoned",
                                                    !.run.phase = "abandoned",
                                                    !.run.bufferedOpponentUpdate = <<>>],
              otherSeat(s), [kind |-> "opponent-disconnected"])

\* the seat's connection is gone: its opponent is told, and the room is dropped
abandon(sv, s) ==
    IF sv.phase = "abandoned" THEN sv
    ELSE send([clearRoomTimer(sv) EXCEPT !.phase = "abandoned",
                                         !.readySeats = {},
                                         !.run.phase = "abandoned",
                                         !.run.bufferedOpponentUpdate = <<>>],
              otherSeat(s), [kind |-> "opponent-disconnected"])

-----------------------------------------------------------------------------
(* The server's steps.                                                       *)

received(s, kind) ==
    /\ uplink[s] # <<>>
    /\ Head(uplink[s]).kind = kind
    /\ uplink' = [uplink EXCEPT ![s] = Tail(@)]

\* a ready packet from a connection without a room closes its socket
HandleReady(s) ==
    /\ received(s, "ready")
    /\ IF server.phase = "abandoned"
       THEN server' = send(server, s, [kind |-> "closed"])
       ELSE server' \in setReady(server, s, Head(uplink[s]).ready)

HandleCommand(s) ==
    /\ received(s, "command")
    /\ server' \in handleGameCommand(server, s, Head(uplink[s]))

HandleClose(s) ==
    /\ received(s, "close")
    /\ server' = abandon(server, s)

TurnTimerFires ==
    /\ server.turnTimer
    /\ server' \in resolveTimeout([server EXCEPT !.turnTimer = FALSE])
    /\ UNCHANGED uplink

RevealTimerFires(s) ==
    /\ s \in server.revealTimers
    /\ server' \in closeRevealWindow([server EXCEPT !.revealTimers = @ \ {s}], s)
    /\ UNCHANGED uplink

DeadlinePasses ==
    /\ server.turnTimer /\ ~server.expired
    /\ server' = [server EXCEPT !.expired = TRUE]
    /\ UNCHANGED uplink

ServerNext ==
    \/ TurnTimerFires
    \/ DeadlinePasses
    \/ \E s \in Seats :
        \/ HandleReady(s)
        \/ HandleCommand(s)
        \/ HandleClose(s)
        \/ RevealTimerFires(s)
=============================================================================
