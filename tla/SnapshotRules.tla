---------------------------- MODULE SnapshotRules ----------------------------
(***************************************************************************)
(* What browser.snapshot computes (native/src/browser_snapshot.rs): which   *)
(* arguments and which baselines it accepts, which tabs match, how the      *)
(* matches are cut into pages and what a page shows.                        *)
(*                                                                         *)
(* An Option is a set with at most one element, a String a name whose only  *)
(* properties are the ones the code asks for, a HashMap a function.  All    *)
(* reasons to refuse a baseline have the same code, so the order in which   *)
(* they are tried does not show.                                            *)
(***************************************************************************)
EXTENDS Integers, Sequences, FiniteSets, SequencesExt, FiniteSetsExt, Functions

CONSTANTS NoKey,                  \* the empty string, where a key is expected
          TextContains,           \* which title or URL contains which query, in lower case
          DEFAULT_LIMIT,          \* tabs of a page when no limit is given
          MAX_LIMIT,
          MAX_TARGET_TABS,
          MAX_QUERY_BYTES,
          MAX_CURSOR_RECORDS,
          MAX_BASELINE_BYTES,
          MAX_RESULT_BYTES,
          MAX_RETAINED_BYTES

ASSUME RulesAssumption ==
    /\ {MAX_LIMIT, MAX_TARGET_TABS, MAX_QUERY_BYTES} \subseteq Nat
    /\ {MAX_CURSOR_RECORDS, MAX_BASELINE_BYTES, MAX_RESULT_BYTES, MAX_RETAINED_BYTES} \subseteq Nat
    /\ DEFAULT_LIMIT \in 1..MAX_LIMIT

-----------------------------------------------------------------------------
(* Arguments *)

Booleans == {"active", "pinned", "discarded", "frozen"}
Targets == {"windowRef", "groupRef", "tabRefs"}
Fields == Booleans \cup Targets \cup {"query", "detail", "limit", "cursor"}

\* Nothing but the defaults.
NoParams == [f \in Fields |-> {}]

\* A reference of the type the argument calls for.
HasType(ref, prefix) == ref.prefix = prefix

ValidTargets(params) ==
    /\ \A f, g \in Targets : params[f] # {} /\ params[g] # {} => f = g
    /\ \A ref \in params.windowRef : HasType(ref, "win")
    /\ \A ref \in params.groupRef : HasType(ref, "grp")
    /\ \A refs \in params.tabRefs :
           /\ Len(refs) \in 1..MAX_TARGET_TABS
           /\ IsInjective(refs)
           /\ \A i \in DOMAIN refs : HasType(refs[i], "tab")

\* (a wrong variant: any limit is taken)
ValidParamsAnyLimit(params) ==
    IF params.cursor # {} THEN \A f \in Fields \ {"cursor"} : params[f] = {}
    ELSE ValidTargets(params) /\ ~(params.detail = {"counts"} /\ params.limit # {})

ValidParams(params) ==
    IF params.cursor # {}
    THEN /\ \A f \in Fields \ {"cursor"} : params[f] = {}
         /\ \A ref \in params.cursor : HasType(ref, "cur")
    ELSE /\ ValidTargets(params)
         /\ \A query \in params.query : ~query.blank /\ query.bytes <= MAX_QUERY_BYTES
         /\ \A limit \in params.limit : limit \in 1..MAX_LIMIT
         /\ ~(params.detail = {"counts"} /\ params.limit # {})

\* params.detail.unwrap_or, params.limit.unwrap_or
Detail(params) == IF params.detail = {} THEN "compact" ELSE CHOOSE d \in params.detail : TRUE
Limit(params) == IF params.limit = {} THEN DEFAULT_LIMIT ELSE CHOOSE n \in params.limit : TRUE

-----------------------------------------------------------------------------
(* Baselines *)

Keys(objects) == [i \in DOMAIN objects |-> objects[i].key]
Ids(objects) == [i \in DOMAIN objects |-> objects[i].id]

DistinctIdentity(baseline) ==
    /\ IsInjective(Keys(baseline.windows) \o Keys(baseline.groups) \o Keys(baseline.tabs))
    /\ NoKey \notin Range(Keys(baseline.windows) \o Keys(baseline.groups) \o Keys(baseline.tabs))
    /\ \A kind \in {"windows", "groups", "tabs"} : IsInjective(Ids(baseline[kind]))

KnownReferences(baseline) ==
    LET windows == Range(Keys(baseline.windows))
        tabs == Range(Keys(baseline.tabs))
    IN /\ \A group \in Range(baseline.groups) : group.window \in windows
       /\ \A tab \in Range(baseline.tabs) :
              /\ tab.window \in windows
              /\ \A key \in tab.group :
                     \E group \in Range(baseline.groups) :
                         group.key = key /\ group.window = tab.window
              /\ tab.opener \subseteq tabs

DistinctIndexes(baseline) ==
    /\ \A tab \in Range(baseline.tabs) : tab.index >= 0
    /\ IsInjective([i \in DOMAIN baseline.tabs |->
                       <<baseline.tabs[i].window, baseline.tabs[i].index>>])

\* The elements of S in a strict order, a set of pairs, that leaves no ties.
InOrder(S, order) ==
    [i \in 1..Cardinality(S) |-> CHOOSE x \in S : Cardinality({y \in S : <<y, x>> \in order}) = i - 1]

\* The tabs of a window in the order of their indexes, which are distinct.
Strip(baseline, window) ==
    LET tabs == {tab \in Range(baseline.tabs) : tab.window = window}
    IN InOrder(tabs, {pair \in tabs \X tabs : pair[1].index < pair[2].index})

\* (a wrong variant: the groups left behind are forgotten)
GroupsContiguousUnchecked(strip) == \A i \in DOMAIN strip : strip[i].index >= 0

\* A step of the walk along a strip, which knows the groups already left behind.
Enter(walk, tab) ==
    IF tab.group = walk.current THEN walk
    ELSE LET closed == walk.closed \cup walk.current
         IN [ok |-> walk.ok /\ tab.group \cap closed = {},
             closed |-> closed, current |-> tab.group]

GroupsContiguous(strip) ==
    LET walk[n \in 0..Len(strip)] ==
            IF n = 0 THEN [ok |-> TRUE, closed |-> {}, current |-> {}]
            ELSE Enter(walk[n - 1], strip[n])
    IN walk[Len(strip)].ok

ValidStrips(baseline) ==
    \A window \in Range(Keys(baseline.windows)) :
        LET strip == Strip(baseline, window)
        IN /\ \A i \in DOMAIN strip : strip[i].index = i - 1
           /\ GroupsContiguous(strip)

\* A value is there exactly if the baseline declares that Chrome reports it.
SupportDeclared(baseline) ==
    /\ \A tab \in Range(baseline.tabs) :
           (tab.frozen # {}) <=> baseline.supports_frozen_tabs
    /\ \A group \in Range(baseline.groups) :
           (group.shared # {}) <=> baseline.supports_shared_tab_groups

ValidBaseline(baseline, browser_instance_id) ==
    /\ baseline.browser_instance_id = browser_instance_id
    /\ ~baseline.captured_at_blank
    /\ baseline.model_revision >= 1
    /\ DistinctIdentity(baseline)
    /\ KnownReferences(baseline)
    /\ DistinctIndexes(baseline)
    /\ ValidStrips(baseline)
    /\ SupportDeclared(baseline)

-----------------------------------------------------------------------------
(* Matching tabs *)

\* The keys whose public reference this is: one, or none (NOT_FOUND).
Resolve(references, requested) == {key \in DOMAIN references : references[key] = requested}

Unresolved(references, params) ==
    \/ \E ref \in params.windowRef : Resolve(references.windows, ref) = {}
    \/ \E ref \in params.groupRef : Resolve(references.groups, ref) = {}
    \/ \E refs \in params.tabRefs :
           \E i \in DOMAIN refs : Resolve(references.tabs, refs[i]) = {}

Matches(tab, references, params) ==
    /\ \A ref \in params.windowRef : tab.window \in Resolve(references.windows, ref)
    /\ \A ref \in params.groupRef : tab.group = Resolve(references.groups, ref)
    /\ \A refs \in params.tabRefs :
           \E i \in DOMAIN refs : tab.key \in Resolve(references.tabs, refs[i])
    /\ \A name \in Booleans \ {"frozen"} : \A value \in params[name] : tab[name] = value
    /\ \A value \in params.frozen : tab.frozen = {value}
    /\ \A query \in params.query :
           \E text \in tab.title \cup tab.url \cup tab.pending_url :
               <<text, query.text>> \in TextContains

WindowOf(baseline, key) == ChooseUnique(Range(baseline.windows), LAMBDA w : w.key = key)
TabOf(baseline, key) == ChooseUnique(Range(baseline.tabs), LAMBDA t : t.key = key)

\* (a wrong variant: windows are not kept together)
BeforeByIndex(baseline, left, right) ==
    \/ left.index < right.index
    \/ left.index = right.index /\ WindowOf(baseline, left.window).id < WindowOf(baseline, right.window).id

\* The focused window first, then by window id, then along the strip.
Before(baseline, left, right) ==
    LET l == WindowOf(baseline, left.window)
        r == WindowOf(baseline, right.window)
    IN \/ l.focused /\ ~r.focused
       \/ l.focused = r.focused /\ l.id < r.id
       \/ l.focused = r.focused /\ l.id = r.id /\ left.index < right.index

MatchedTabs(baseline, references, params) ==
    LET tabs == {tab \in Range(baseline.tabs) : Matches(tab, references, params)}
    IN Keys(InOrder(tabs, {pair \in tabs \X tabs : Before(baseline, pair[1], pair[2])}))

\* (a wrong variant: groups of tabs that do not match count as well)
CountsOfWindows(baseline, matched) ==
    [window_count |-> Cardinality({TabOf(baseline, key).window : key \in Range(matched)}),
     group_count |-> Len(baseline.groups),
     tab_count |-> Len(matched),
     discarded_tab_count |-> Quantify(Range(matched), LAMBDA key : TabOf(baseline, key).discarded)]

Counts(baseline, matched) ==
    LET tabs == {TabOf(baseline, key) : key \in Range(matched)}
    IN [window_count |-> Cardinality({tab.window : tab \in tabs}),
        group_count |-> Cardinality(UNION {tab.group : tab \in tabs}),
        tab_count |-> Cardinality(tabs),
        discarded_tab_count |-> Quantify(tabs, LAMBDA tab : tab.discarded)]

-----------------------------------------------------------------------------
(* Retained snapshots and their pages *)

\* How many cursors a snapshot will need, from saturating_sub and checked_div.
CursorCount(matched, limit) ==
    IF limit = 0 \/ matched = <<>> THEN 0 ELSE (Len(matched) - 1) \div limit

\* (a wrong variant: a cursor also stands behind the last page)
PrepareCursorsToTheEnd(matched, limit) == {n * limit : n \in 1..Len(matched)} \cap 0..Len(matched)

\* The offsets that get a cursor.
PrepareCursors(matched, limit) == {n * limit : n \in 1..Len(matched)} \cap 0..(Len(matched) - 1)

StoredSnapshot(baseline, references, params) ==
    LET matched == MatchedTabs(baseline, references, params)
    IN [baseline |-> baseline, references |-> references, matched_tab_keys |-> matched,
        detail |-> Detail(params), limit |-> Limit(params),
        cursors |-> PrepareCursors(matched, Limit(params))]

\* Bytes that are kept for as long as a snapshot is, one for each key, reference,
\* offset and cursor.
ReferenceBytes(references) ==
    MapThenSumSet(LAMBDA kind : Cardinality(DOMAIN references[kind]), DOMAIN references)
RetainedSize(snapshot) ==
    snapshot.baseline.bytes + ReferenceBytes(snapshot.references)
    + Len(snapshot.matched_tab_keys) + 4 * Cardinality(snapshot.cursors)

PageEnd(snapshot, offset) == Min({offset + snapshot.limit, Len(snapshot.matched_tab_keys)})
PageKeys(snapshot, offset) ==
    SubSeq(snapshot.matched_tab_keys, offset + 1, PageEnd(snapshot, offset))

\* Fields that only detail "full" shows.
Full(detail, value) == IF detail = "full" THEN value ELSE {}

ProjectTab(tab, detail, references) ==
    [ref |-> references.tabs[tab.key],
     text |-> <<tab.title \ {NoKey}, tab.url \ {NoKey}>>,
     discarded |-> tab.discarded,
     frozen |-> IF detail = "full" THEN tab.frozen ELSE tab.frozen \ {FALSE},
     pending_url |-> Full(detail, tab.pending_url \ {NoKey}),
     opener_ref |-> Full(detail, {references.tabs[key] : key \in tab.opener})]

\* (a wrong variant: measured against all tabs instead of the matching ones)
LacksSomeTab(snapshot, page, field, key) ==
    \E tab \in Range(snapshot.baseline.tabs) : tab[field] = key /\ tab.key \notin Range(page)

\* Whether the page leaves out a matching tab of this window or of this group.
LacksSome(snapshot, page, field, key) ==
    LET OfKey(keys) == Quantify(Range(keys), LAMBDA k : TabOf(snapshot.baseline, k)[field] = key)
    IN OfKey(page) < OfKey(snapshot.matched_tab_keys)

OpenWindow(snapshot, page, key) ==
    [ref |-> snapshot.references.windows[key],
     focused |-> WindowOf(snapshot.baseline, key).focused,
     partial |-> LacksSome(snapshot, page, "window", key),
     items |-> <<>>]

\* The last window, or a new one.
Opened(windows, window) ==
    IF windows # <<>> /\ Last(windows).ref = window.ref THEN windows ELSE Append(windows, window)

\* A tab joins the last item of its window if that is its group.
Joined(items, group, partial, shown) ==
    IF group # {} /\ items # <<>> /\ Last(items).group = group
    THEN [items EXCEPT ![Len(items)].tabs = Append(@, shown)]
    ELSE Append(items, [group |-> group, partial |-> partial, tabs |-> <<shown>>])

AddTab(snapshot, page, windows, tab) ==
    LET opened == Opened(windows, OpenWindow(snapshot, page, tab.window))
        group == {snapshot.references.groups[key] : key \in tab.group}
        partial == group # {} /\ LacksSome(snapshot, page, "group", tab.group)
        shown == ProjectTab(tab, snapshot.detail, snapshot.references)
    IN [opened EXCEPT ![Len(opened)].items = Joined(@, group, partial, shown)]

RenderedWindows(snapshot, page) ==
    LET windows[n \in 0..Len(page)] ==
            IF n = 0 THEN <<>>
            ELSE AddTab(snapshot, page, windows[n - 1], TabOf(snapshot.baseline, page[n]))
    IN windows[Len(page)]

RenderPage(snapshot, offset) ==
    [total_matched |-> Len(snapshot.matched_tab_keys),
     windows |-> RenderedWindows(snapshot, PageKeys(snapshot, offset)),
     next_cursor |-> {PageEnd(snapshot, offset)} \cap snapshot.cursors]

\* The bytes of a page, as far as they can differ: those of its tabs.
PageBytes(snapshot, offset) ==
    MapThenSumSet(LAMBDA key : TabOf(snapshot.baseline, key).bytes,
                  Range(PageKeys(snapshot, offset)))
TooLarge(snapshot, offset) == PageBytes(snapshot, offset) > MAX_RESULT_BYTES

=============================================================================
