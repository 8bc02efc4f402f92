----------------------------- MODULE AdminPanel -----------------------------
(* AdminPanel.tsx: the tabs of the administrators' dialog, the lists of      *)
(* matches and of accounts (the same machine, but only a match opens), the   *)
(* match inspector, the console and the statistics.  Operators on the admin  *)
(* of a page w.  A call of kind rows or inspect is made by an effect, which  *)
(* disowns it when it ends; load, reinspect and console are made by a click, *)
(* and outlive the view.                                                     *)
EXTENDS Calls

listTabs == {"matches", "accounts"}
Tabs == listTabs \cup {"stats", "console"}

\* since, shown, wanted and mixed are for the properties: the rows stored when the
\* first page was read and the query they answer, the match last opened, and
\* whether pages of two queries were joined
newPanel(tab) ==
    [tab |-> tab, items |-> <<>>, cursor |-> NoMore, query |-> "all", loading |-> TRUE,
     error |-> FALSE, selected |-> NoMatch, detail |-> NoMatch, detailLoading |-> FALSE,
     detailError |-> FALSE, busy |-> FALSE,
     since |-> {}, shown |-> "all", wanted |-> NoMatch, mixed |-> FALSE]

Queries == {"all", "named"}

rowKinds == {"rows", "load"}
inspectKinds == {"inspect", "reinspect"}
adminKinds == rowKinds \cup inspectKinds \cup {"console", "stats"}

panel(w, a) == [w EXCEPT !.admin = a]

\* fault: older rows of another query are still added
rowsOf_Kept(w) ==
    called(w, "rows", [noArg EXCEPT !.tab = w.admin.tab, !.filter = w.admin.query])

\* the first page of the tab and query shown, by the effect
rowsOf(w) ==
    called(superseded(w, rowKinds), "rows",
           [noArg EXCEPT !.tab = w.admin.tab, !.filter = w.admin.query])

loadStats(w) == called(superseded(w, {"stats"}), "stats", noArg)

unmountedPanel(w) == unmounted(panel(w, newPanel("stats")), adminKinds, {"rows", "inspect", "stats"})

setActiveTab(w, tab) ==
    LET mounts == panel(unmountedPanel(w), newPanel(tab))
    IN  CASE tab \in listTabs -> rowsOf(mounts)
          [] tab = "stats"    -> loadStats(mounts)
          [] OTHER            -> mounts

-----------------------------------------------------------------------------
(* The views.                                                                *)

beginning(a) == [a EXCEPT !.loading = TRUE, !.error = FALSE]

load(w, append) ==
    called(superseded(panel(w, beginning(w.admin)), rowKinds), "load",
           [noArg EXCEPT !.tab = w.admin.tab, !.filter = w.admin.query, !.flag = append,
                         !.cursor = IF append THEN w.admin.cursor ELSE FromNewest])

search(w, query) ==
    IF query = w.admin.query THEN load(w, FALSE)
    ELSE rowsOf(panel(w, [beginning(w.admin) EXCEPT !.query = query]))

closed(a) ==
    [a EXCEPT !.selected = NoMatch, !.detail = NoMatch, !.detailLoading = FALSE,
              !.detailError = FALSE, !.wanted = NoMatch]

inspected(w, kind, m) ==
    called(superseded(panel(w, [w.admin EXCEPT
                !.selected = m, !.detail = NoMatch, !.detailLoading = TRUE,
                !.detailError = FALSE, !.wanted = m]), inspectKinds),
           kind, [noArg EXCEPT !.match = m])

selectMatch(w, m) == inspected(w, "inspect", m)

retryDetail(w) == inspected(w, "reinspect", w.admin.selected)

closeMobileDetail(w) == panel(superseded(w, inspectKinds), closed(w.admin))

submitCommand(w) == called(panel(w, [w.admin EXCEPT !.busy = TRUE]), "console", noArg)

-----------------------------------------------------------------------------
(* The answers that arrive while their view is there.                        *)

itemsLoaded(a, c) ==
    [a EXCEPT !.items = IF c.arg.flag THEN @ \o c.answer.rows ELSE c.answer.rows,
              !.cursor = c.answer.next, !.loading = FALSE,
              !.since = IF c.arg.flag THEN @ ELSE c.answer.seen,
              !.mixed = c.arg.flag /\ (@ \/ a.shown # c.arg.filter),
              !.shown = c.arg.filter]

\* the first page of matches closes the match in detail
onRows(w, c) ==
    IF c.answer.status # "ok"
    THEN panel(w, [w.admin EXCEPT !.error = TRUE, !.loading = FALSE])
    ELSE IF c.arg.flag \/ c.arg.tab = "accounts" THEN panel(w, itemsLoaded(w.admin, c))
    ELSE panel(superseded(w, inspectKinds), closed(itemsLoaded(w.admin, c)))

onInspected(w, c) ==
    panel(w, IF c.answer.status = "ok"
             THEN [w.admin EXCEPT !.detail = c.arg.match, !.detailLoading = FALSE]
             ELSE [w.admin EXCEPT !.detailError = TRUE, !.detailLoading = FALSE])

onConsole(w) == panel(w, [w.admin EXCEPT !.busy = FALSE])

\* whether the answer is that of a session without the role, which handleError hears
denied(c) == c.answer.status = "expired"

\* whether the answer still counts: load, reinspect and console do not ask if their
\* view is gone
heard(c) == c.current /\ (c.alive \/ c.kind \in {"load", "reinspect", "console"})
=============================================================================
