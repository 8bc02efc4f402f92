--------------------------- MODULE HistoryScreen ---------------------------
(* MatchHistoryScreen and historyState.ts: the list of a player's matches,   *)
(* page by page and filtered, one match in detail, and the bookmarks.        *)
(* Operators on the history of a page w.  Left out: names, scores, boards    *)
(* and the totals.                                                           *)
EXTENDS Calls

Filters == {"all", "interesting"}

\* since, shown, owner, wanted and doubt are for the properties: the matches there when
\* the first page was read, the filter they passed, whose they are, the match opened
\* last, and the bookmarks that may be untrue
newHistory(owner) ==
    [filter |-> "all", listStatus |-> "loading", matches |-> <<>>, starred |-> {},
     next |-> NoMore, loadingMore |-> FALSE, moreError |-> FALSE,
     selected |-> NoMatch, detailStatus |-> "idle", detail |-> NoMatch,
     detailStarred |-> FALSE, pending |-> {}, errors |-> {},
     since |-> {}, shown |-> "all", wanted |-> NoMatch, owner |-> owner, doubt |-> {}]

listKinds == {"list", "more"}
historyKinds == {"list", "more", "detail", "star"}

isExpired(c) == c.answer.status = "expired"

-----------------------------------------------------------------------------
(* The reducer.                                                              *)

\* fault: a match in detail keeps the bookmark it was opened with
setBookmark_ListOnly(h, m, bookmarked) ==
    [h EXCEPT !.starred = IF bookmarked THEN @ \cup {m} ELSE @ \ {m}]

\* of a row and of the detail, where they are shown
setBookmark(h, m, bookmarked) ==
    [h EXCEPT !.starred = IF bookmarked /\ m \in Range(h.matches) THEN @ \cup {m} ELSE @ \ {m},
              !.detailStarred = IF h.detail = m THEN bookmarked ELSE @]

withoutDetail(h) ==
    [h EXCEPT !.selected = NoMatch, !.detailStatus = "idle", !.detail = NoMatch,
              !.detailStarred = FALSE, !.wanted = NoMatch]

withoutRows(h) ==
    [h EXCEPT !.listStatus = "loading", !.matches = <<>>, !.starred = {}, !.next = NoMore,
              !.loadingMore = FALSE, !.moreError = FALSE]

filterSelected(h, filter) ==
    [withoutDetail(withoutRows(h)) EXCEPT !.filter = filter, !.errors = {}]

\* rows that answer c, with the bookmarks they were read with
listLoaded(h, c, append) ==
    LET rows == c.answer.rows
        read == Range(rows) \ h.pending
    IN  [h EXCEPT !.listStatus = "ready", !.next = c.answer.next,
                  !.matches = IF append THEN h.matches \o rows ELSE rows,
                  !.starred = (IF append THEN @ ELSE {}) \cup c.answer.starred,
                  !.loadingMore = FALSE, !.moreError = FALSE,
                  !.since = IF append THEN @ ELSE c.answer.seen,
                  !.shown = c.arg.filter, !.owner = c.answer.user,
                  !.doubt = (@ \ read) \cup (c.overtaken \cap read)]

listFailed(h, expired) ==
    [h EXCEPT !.listStatus = IF expired THEN "expired" ELSE "error", !.loadingMore = FALSE]

detailLoaded(h, c) ==
    [h EXCEPT !.selected = c.arg.match, !.detailStatus = "ready", !.detail = c.arg.match,
              !.detailStarred = c.arg.match \in c.answer.starred,
              !.doubt = @ \cup (c.overtaken \cap ({c.arg.match} \ h.pending))]

bookmarkStarted(h, m, bookmarked) ==
    [setBookmark(h, m, bookmarked) EXCEPT !.pending = @ \cup {m}, !.errors = @ \ {m}]

\* a match is in the list once
bookmarkSaved(h, m, bookmarked) ==
    LET saved   == setBookmark(h, m, bookmarked)
        dropped == h.filter = "interesting" /\ ~bookmarked
    IN  [saved EXCEPT !.matches = IF dropped THEN RemoveFirst(@, m) ELSE @,
                      !.pending = @ \ {m}]

\* fault: the optimistic star stays
bookmarkFailed_Kept(h, m, bookmarked) ==
    [h EXCEPT !.pending = @ \ {m}, !.errors = @ \cup {m}]

bookmarkFailed(h, m, bookmarked) ==
    [setBookmark(h, m, bookmarked) EXCEPT !.pending = @ \ {m}, !.errors = @ \cup {m}]

sessionExpired(h) ==
    [h EXCEPT !.listStatus = "expired", !.loadingMore = FALSE,
              !.detailStatus = IF h.selected # NoMatch THEN "expired" ELSE @]

-----------------------------------------------------------------------------
(* The screen.                                                               *)

with(w, h) == [w EXCEPT !.history = h]

\* the effect: on mount, on a change of filter and on a retry
listed(w) ==
    called(superseded(w, listKinds), "list", [noArg EXCEPT !.filter = w.history.filter])

opensHistory(w) == listed(with(w, newHistory(w.session.account.user)))
leavesHistory(w) ==
    unmounted(with(w, newHistory(NoUser)), historyKinds, historyKinds)

selectFilter(w, filter) ==
    listed(with(superseded(w, {"detail"}), filterSelected(w.history, filter)))

retryList(w) == listed(with(w, withoutRows(w.history)))

loadMore(w) ==
    called(superseded(with(w, [w.history EXCEPT !.loadingMore = TRUE, !.moreError = FALSE]),
                      listKinds), "more",
           [noArg EXCEPT !.filter = w.history.filter, !.cursor = w.history.next])

loadDetail(w, m) ==
    called(superseded(with(w, [withoutDetail(w.history) EXCEPT
                                    !.selected = m, !.wanted = m,
                                                !.detailStatus = "loading"]),
                      {"detail"}), "detail", [noArg EXCEPT !.match = m])

\* fault: an answer to the detail that was closed opens it again
closeDetail_Answered(w) == with(w, withoutDetail(w.history))

closeDetail(w) == with(superseded(w, {"detail"}), withoutDetail(w.history))

\* fault: a second save of a match may overtake the first
maySave_Again(h, m) == TRUE

maySave(h, m) == m \notin h.pending

saveBookmark(w, m, bookmarked) ==
    called(with(w, bookmarkStarted(w.history, m, bookmarked)), "star",
           [noArg EXCEPT !.match = m, !.flag = bookmarked])

-----------------------------------------------------------------------------
(* The answers; those to counters that have moved on are dropped.            *)

onListed(w, c) ==
    with(w, IF c.answer.status = "ok" THEN listLoaded(w.history, c, FALSE)
            ELSE listFailed(w.history, isExpired(c)))

onMore(w, c) ==
    with(w, CASE c.answer.status = "ok" -> listLoaded(w.history, c, TRUE)
              [] isExpired(c)           -> listFailed(w.history, TRUE)
              [] OTHER -> [w.history EXCEPT !.loadingMore = FALSE, !.moreError = TRUE])

onDetail(w, c) ==
    with(w, IF c.answer.status = "ok" THEN detailLoaded(w.history, c)
            ELSE [w.history EXCEPT !.detailStatus =
                        IF isExpired(c) THEN "expired" ELSE "error"])

\* for the property: the server saves the star of c, which the screen that sent it
\* shows; what the server has read before does not show it, nor does a screen opened
\* since c was sent
starSaved(w, c) ==
    [w EXCEPT
        !.calls = [i \in Slots |->
            IF w.calls[i].kind \in {"list", "more", "detail"} /\ w.calls[i].answer.status = "ok"
            THEN [w.calls[i] EXCEPT !.overtaken = @ \cup {c.arg.match}] ELSE w.calls[i]],
        !.history.doubt = IF c.alive THEN @ \ {c.arg.match} ELSE @ \cup {c.arg.match}]

\* with no counter: the answer counts while the screen is there
onSaved(w, c) ==
    LET h == w.history  m == c.arg.match
    IN  IF c.answer.status = "ok"
        THEN with(w, bookmarkSaved(h, m, c.arg.flag))
        ELSE LET failed == bookmarkFailed(h, m, ~c.arg.flag)
                 unsure == IF c.lost THEN [failed EXCEPT !.doubt = @ \cup {m}] ELSE failed
             IN  with(w, IF isExpired(c) THEN sessionExpired(unsure) ELSE unsure)
=============================================================================
