--------------------------- MODULE SnapshotPaging ----------------------------
(***************************************************************************)
(* One browser.snapshot call and the pages that its cursors lead to         *)
(* (execute and continue_snapshot in native/src/browser_snapshot.rs), with  *)
(* the extension connected, its capability effective and the snapshot       *)
(* retained.  What other calls, the broker's reader and the retention do    *)
(* meanwhile is the subject of SnapshotRuntime.                             *)
(***************************************************************************)
EXTENDS SnapshotRules

CONSTANT browser_instance_id    \* the connected browser

VARIABLES
    baseline,    \* the extension's answer
    params,      \* the arguments
    outcome,     \* "calling", "page", "counts" or the code of an error
    snapshot,    \* the retained snapshot, if any
    pages        \* the pages the client has seen

paging_vars == <<baseline, params, outcome, snapshot, pages>>

Outcomes == {"calling", "page", "counts", "INVALID_ARGUMENT", "HANDLE_EXPIRED", "NOT_FOUND",
             "INTERNAL_ERROR", "CAPABILITY_UNAVAILABLE", "RESULT_TOO_LARGE"}

\* What an answer is once it has been deserialized: whatever its references and its
\* numbers are, its parts have the fields of their types.
WellTyped(answer) ==
    /\ \A kind \in {"windows", "groups", "tabs"} : answer[kind] \in Seq(Range(answer[kind]))
    /\ \A window \in Range(answer.windows) : window.id \in Int /\ window.focused \in BOOLEAN
    /\ \A tab \in Range(answer.tabs) :
           tab.index \in Int /\ tab.discarded \in BOOLEAN /\ \A a, b \in tab.group : a = b

PagingTypeOK ==
    /\ WellTyped(baseline)
    /\ DOMAIN params = Fields
    /\ outcome \in Outcomes
    /\ Cardinality(snapshot) <= 1
    /\ pages # <<>> => snapshot # {}
    /\ \A i \in DOMAIN pages : pages[i].next_cursor \subseteq Nat

\* The client calls with one of calls, the extension answers with one of baselines.
PagingInit(calls, baselines) ==
    /\ params \in calls
    /\ baseline \in baselines
    /\ outcome = "calling"
    /\ snapshot = {}
    /\ pages = <<>>

\* The references that a first snapshot issues: one per incarnation key.
Issue(prefix, objects) == [key \in Range(Keys(objects)) |-> [prefix |-> prefix, of |-> key]]
References == [windows |-> Issue("win", baseline.windows),
               groups |-> Issue("grp", baseline.groups),
               tabs |-> Issue("tab", baseline.tabs)]

Candidate == StoredSnapshot(baseline, References, params)

\* The first check that fails, in the order of the code; CAPABILITY_UNAVAILABLE
\* for a filter on frozen tabs that the browser does not report.
Verdict ==
    IF ~ValidParams(params) THEN "INVALID_ARGUMENT"
    ELSE IF params.cursor # {} THEN "HANDLE_EXPIRED"
    ELSE IF baseline.contains_null THEN "INTERNAL_ERROR"
    ELSE IF baseline.bytes > MAX_BASELINE_BYTES THEN "RESULT_TOO_LARGE"
    ELSE IF ~ValidBaseline(baseline, browser_instance_id) THEN "INTERNAL_ERROR"
    ELSE IF params.frozen # {} /\ ~baseline.supports_frozen_tabs THEN "CAPABILITY_UNAVAILABLE"
    ELSE IF Unresolved(References, params) THEN "NOT_FOUND"
    ELSE IF ReferenceBytes(References) > MAX_BASELINE_BYTES THEN "RESULT_TOO_LARGE"
    ELSE IF params.detail = {"counts"} THEN "counts"
    ELSE IF CursorCount(MatchedTabs(baseline, References, params), Limit(params)) > MAX_CURSOR_RECORDS
            \/ TooLarge(Candidate, 0)
            \/ RetainedSize(Candidate) + ReferenceBytes(References) > MAX_RETAINED_BYTES
         THEN "RESULT_TOO_LARGE"
    ELSE "page"

Execute ==
    /\ outcome = "calling"
    /\ outcome' = Verdict
    /\ IF Verdict = "page"
       THEN /\ snapshot' = {Candidate}
            /\ pages' = <<RenderPage(Candidate, 0)>>
       ELSE UNCHANGED <<snapshot, pages>>
    /\ UNCHANGED <<baseline, params>>

\* The client continues with the cursor of the last page.
ContinueSnapshot ==
    /\ outcome = "page"
    /\ \E kept \in snapshot, cursor \in Last(pages).next_cursor :
           IF TooLarge(kept, cursor)
           THEN outcome' = "RESULT_TOO_LARGE" /\ UNCHANGED pages
           ELSE pages' = Append(pages, RenderPage(kept, cursor)) /\ UNCHANGED outcome
    /\ UNCHANGED <<baseline, params, snapshot>>

PagingNext == Execute \/ ContinueSnapshot

-----------------------------------------------------------------------------
(* Properties *)

\* Where a page has items, and where in them tabs; an item is a group or a single tab.
Items(page) == UNION {{w} \X DOMAIN page.windows[w].items : w \in DOMAIN page.windows}
ItemAt(page, place) == page.windows[place[1]].items[place[2]]
Spots(page) == UNION {{place} \X DOMAIN ItemAt(page, place).tabs : place \in Items(page)}
TabRefAt(page, spot) == ItemAt(page, spot[1]).tabs[spot[2]].ref
TabRefs(page) == {TabRefAt(page, spot) : spot \in Spots(page)}

\* Where the client has seen tabs.
Shown == UNION {{p} \X Spots(pages[p]) : p \in DOMAIN pages}
ShownTab(spot) == ItemAt(pages[spot[1]], spot[2][1]).tabs[spot[2][2]]
ShownRef(spot) == TabRefAt(pages[spot[1]], spot[2])
ShownTabs == {ShownRef(spot) : spot \in Shown}

Matching == {tab \in Range(baseline.tabs) : Matches(tab, References, params)}
MatchedRefs == {References.tabs[tab.key] : tab \in Matching}

\* The pages that the cursors lead to show every matching tab, each once, and
\* only the last has no cursor (prepare_cursors, render_page: "pages do not
\* skip or repeat tabs", docs/mcp-tools.md).
PagesPartitionMatches ==
    pages # <<>> =>
        /\ \A spot, other \in Shown : ShownRef(spot) = ShownRef(other) => spot = other
        /\ ShownTabs \subseteq MatchedRefs
        /\ Last(pages).next_cursor = {} <=> ShownTabs = MatchedRefs
        /\ Len(pages) > 1 => TabRefs(Last(pages)) # {}

\* A page shows a window and a group in one piece: never twice, because the
\* order of the matches keeps windows together and the accepted baselines keep
\* groups together (matched_tabs, Baseline::validate, render_page).
EachObjectOncePerPage ==
    \A p \in DOMAIN pages :
        /\ \A v, w \in DOMAIN pages[p].windows : pages[p].windows[v].ref = pages[p].windows[w].ref => v = w
        /\ \A place, other \in Items(pages[p]) :
               LET group == ItemAt(pages[p], place).group
               IN group # {} /\ ItemAt(pages[p], other).group = group => place = other

\* A tab is shown in its own window, and in its group if it has one (render_page).
TabsStandInTheirPlace ==
    \A spot \in Shown : \E tab \in Matching :
        LET page == pages[spot[1]]
            place == spot[2][1]
        IN /\ ShownRef(spot) = References.tabs[tab.key]
           /\ page.windows[place[1]].ref = References.windows[tab.window]
           /\ ItemAt(page, place).group = {References.groups[key] : key \in tab.group}

\* What comes first on a page: by window, by item, and by tab in the item.
Precedes(spot, other) ==
    LET place == spot[1]
        next == other[1]
    IN \/ place[1] < next[1]
       \/ place[1] = next[1] /\ place[2] < next[2]
       \/ place = next /\ spot[2] < other[2]
ShownBefore(spot, other) ==
    spot[1] < other[1] \/ (spot[1] = other[1] /\ Precedes(spot[2], other[2]))

\* Over all pages the order of what is shown is the one of the browser: within a
\* window the order of the strip, which is all that a client learns of indexes
\* ("Array order represents tab-strip order, so tab indexes are omitted",
\* docs/mcp-tools.md), the focused window first, and the others by their ids
\* (matched_tabs, render_page).
TabsStandInOrder ==
    \A spot, other \in Shown : ShownBefore(spot, other) =>
        \E left, right \in Matching :
            LET l == WindowOf(baseline, left.window)
                r == WindowOf(baseline, right.window)
            IN /\ ShownRef(spot) = References.tabs[left.key]
               /\ ShownRef(other) = References.tabs[right.key]
               /\ left.window = right.window => left.index < right.index
               /\ left.window # right.window => (r.focused => l.focused) /\ (l.focused = r.focused => l.id < r.id)

\* A window or a group is marked partial exactly if the page omits a matching
\* tab of it (docs/mcp-tool-surface-plan.md, "Set `partial` only when
\* pagination omits matching children"; render_page).
Omits(page, field, ref, references) ==
    \E tab \in Matching :
        /\ References.tabs[tab.key] \notin TabRefs(page)
        /\ \E key \in (IF field = "window" THEN {tab.window} ELSE tab.group) : references[key] = ref
PartialIsExact ==
    \A p \in DOMAIN pages : \A w \in DOMAIN pages[p].windows :
        LET window == pages[p].windows[w]
        IN /\ window.partial <=> Omits(pages[p], "window", window.ref, References.windows)
           /\ \A i \in DOMAIN window.items : \A ref \in window.items[i].group :
                  window.items[i].partial <=> Omits(pages[p], "group", ref, References.groups)

\* What detail "counts" answers is what paging through the same matches would
\* show (counts, and render_page page by page).
CountsAgreeWithPages ==
    (pages # <<>> /\ Last(pages).next_cursor = {}) =>
        LET answer == Counts(baseline, MatchedTabs(baseline, References, params))
            windows == UNION {{w.ref : w \in Range(pages[p].windows)} : p \in DOMAIN pages}
            groups == UNION {UNION {ItemAt(pages[p], place).group : place \in Items(pages[p])} : p \in DOMAIN pages}
        IN /\ answer.tab_count = Cardinality(Shown)
           /\ answer.window_count = Cardinality(windows)
           /\ answer.group_count = Cardinality(groups)
           /\ answer.discarded_tab_count = Cardinality({spot \in Shown : ShownTab(spot).discarded})

\* The number of cursors checked against its limit before any is made is the
\* number that is then made (execute, prepare_cursors).
CursorCountIsExact ==
    \A kept \in snapshot : CursorCount(kept.matched_tab_keys, kept.limit) = Cardinality(kept.cursors)

\* The walk that looks for groups in several pieces accepts a strip exactly if
\* no foreign tab stands between two tabs of a group (Baseline::validate, which
\* has by then refused two tabs at one index).
RangeCheckIsExact ==
    outcome # "calling" /\ DistinctIndexes(baseline) =>
        \A window \in Range(Keys(baseline.windows)) :
            LET tabs == {tab \in Range(baseline.tabs) : tab.window = window}
                Stands(tab, left, right) == left.index < tab.index /\ tab.index < right.index
            IN GroupsContiguous(Strip(baseline, window)) <=>
                   \A left, right, tab \in tabs :
                       left.group # {} /\ left.group = right.group /\ Stands(tab, left, right)
                           => tab.group = left.group

\* All of this at once.
PagesAreExact ==
    /\ PagingTypeOK
    /\ PagesPartitionMatches
    /\ EachObjectOncePerPage
    /\ TabsStandInTheirPlace
    /\ TabsStandInOrder
    /\ PartialIsExact
    /\ CountsAgreeWithPages
    /\ CursorCountIsExact
    /\ RangeCheckIsExact

=============================================================================
