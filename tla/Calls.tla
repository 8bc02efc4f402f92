------------------------------- MODULE Calls -------------------------------
(* The HTTP calls of the page, between the click that sends one and the      *)
(* continuation that reads its answer: what fetch, the Better Auth client    *)
(* and the routers of /api/auth, /api/history and /api/admin do to one.      *)
(*                                                                           *)
(* Screens tell their calls apart with counters (listRequest, detailRequest, *)
(* listRequestRef ...): a call remembers the counter's value and its answer  *)
(* is dropped when the counter has moved on.  Here a call is current until   *)
(* its counter moves.  alive says that the component that made it is still   *)
(* mounted; an effect's call is not current either when it is not.           *)
EXTENDS SequencesExt

CONSTANTS
    Users,        \* the accounts
    Admins,       \* those with the role admin
    MaxSids,      \* the bound on the sessions ever created
    MaxMatches,   \* the bound on the matches ever stored
    PageSize,     \* rows per page of a list
    Named,        \* the matches and accounts that a search finds
    MaxCalls      \* the bound on the calls under way

ASSUME CallsAssumption ==
    /\ Admins \subseteq Users /\ "guest" \notin Users
    /\ {MaxMatches, PageSize, MaxCalls} \subseteq Nat \ {0} /\ MaxSids \in Nat \ {0, 1}
    /\ Named \subseteq 1 .. MaxMatches

Sids == 1 .. MaxSids
NoSid == 0
NoUser == "guest"

\* matches, the newer the greater: the order of (completed_at, id)
Matches == 1 .. MaxMatches
FromNewest == MaxMatches + 1
NoMore == 0
NoMatch == 0

descending(q) == \A i, j \in DOMAIN q : i < j => q[i] > q[j]

\* ORDER BY ... DESC LIMIT PAGE_SIZE + 1, and the cursor of the next page
pageOf(rows, cursor) ==
    LET items == CHOOSE q \in SetToSeqs({m \in rows : m < cursor}) : descending(q)
    IN  IF Len(items) > PageSize
        THEN [rows |-> SubSeq(items, 1, PageSize), next |-> items[PageSize]]
        ELSE [rows |-> items, next |-> NoMore]

-----------------------------------------------------------------------------
(* A call: w is the page, with its calls.                                    *)

Slots == 1 .. MaxCalls

noAnswer ==
    [status |-> "none", user |-> NoUser, sid |-> NoSid, admin |-> FALSE, sids |-> {},
     rows |-> <<>>, next |-> NoMore, starred |-> {}, seen |-> {}]

noArg == [user |-> NoUser, sid |-> NoSid, match |-> NoMatch, flag |-> FALSE,
          tab |-> "matches", filter |-> "all", cursor |-> FromNewest]

\* lost and overtaken are for the properties: the server did what was asked although the
\* answer says no; the matches whose bookmark was saved after they were read
noCall ==
    [kind |-> "none", sid |-> NoSid, arg |-> noArg, answer |-> noAnswer,
     current |-> FALSE, alive |-> FALSE, lost |-> FALSE, overtaken |-> {}]

called(w, kind, arg) ==
    LET free == CHOOSE i \in Slots :
                    /\ w.calls[i].kind = "none"
                    /\ \A j \in 1 .. i - 1 : w.calls[j].kind # "none"
    IN  [w EXCEPT !.calls[free] = [noCall EXCEPT
                !.kind = kind, !.sid = w.cookie, !.arg = arg,
                !.current = TRUE, !.alive = TRUE]]

\* a counter moves: the answers to these calls will be dropped
superseded(w, kinds) ==
    [w EXCEPT !.calls = [i \in Slots |->
        IF w.calls[i].kind \in kinds /\ w.calls[i].alive
        THEN [w.calls[i] EXCEPT !.current = FALSE] ELSE w.calls[i]]]

\* a component is unmounted; guarded are the calls of its effects
unmounted(w, kinds, guarded) ==
    [w EXCEPT !.calls = [i \in Slots |->
        IF w.calls[i].kind \in kinds
        THEN [w.calls[i] EXCEPT !.alive = FALSE,
                                !.current = @ /\ w.calls[i].kind \notin guarded]
        ELSE w.calls[i]]]

underWay(w, kinds) == {i \in Slots : w.calls[i].kind \in kinds}
=============================================================================
