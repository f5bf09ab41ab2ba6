---------------------------- MODULE MCContents ------------------------------
(* Model checking of what does not depend on an interleaving but on contents:  *)
(* the dialogue of the two ends (Handshake) and the pages of one snapshot      *)
(* (SnapshotPaging).  A behaviour takes up one of them.                        *)
EXTENDS Handshake, SnapshotPaging

CONSTANTS Tabs,        \* how many tabs a valid arrangement has
          LooseTabs    \* how many tabs an arbitrary one has

VARIABLE subject       \* "dialogue" or "pages"

-----------------------------------------------------------------------------
(* The dialogue: this build of the extension and others.                       *)

MCMethods == {"browser.list", "browser.snapshot", "tabs.list"}
MCBytes == [name \in {"long"} |-> 129]
Entry(method, abi) == [method |-> method, branch |-> {}, abi_revision |-> abi]
Having(entries) == [ThisBuild EXCEPT !.implementations = entries]
Local == LocalImplementations
MCBuilds ==
    {ThisBuild, [ThisBuild EXCEPT !.protocol_version = 2], [ThisBuild EXCEPT !.protocol_abi_revision = 2],
     Having(<<>>), Having(Tail(Local)), Having(Local \o <<Head(Local)>>),
     Having(Tail(Local) \o <<Entry(Head(Local).method, 2)>>),
     Having(Tail(Local) \o <<Entry(Head(Local).method, 2), Head(Local)>>),
     Having(Tail(Local) \o <<[Head(Local) EXCEPT !.branch = {"branch"}]>>),
     Having(Local \o <<[Head(Local) EXCEPT !.branch = {"branch"}]>>)}

\* What this build may find: it implements snapshots and nothing else.
Fact(implemented, desired, granted, supported, probe) ==
    [implemented |-> implemented, desired |-> desired, granted |-> granted,
     supported |-> supported, probe_passed |-> probe]
MCFactSets ==
    {[branch \in Branches |->
        IF branch = "browserSnapshot" THEN Fact(TRUE, TRUE, granted, supported, probe)
        ELSE Fact(FALSE, desired[branch], granted, TRUE, probe)] :
        granted \in BOOLEAN, supported \in BOOLEAN, probe \in BOOLEAN,
        desired \in [Branches \ {"browserSnapshot"} -> BOOLEAN]}
PlainFactSets == {known \in MCFactSets : \A branch \in Branches \ {"browserSnapshot"} : ~known[branch].desired}
MCErrors == {[effectorSafe |-> TRUE, code |-> "TIMEOUT"], [effectorSafe |-> FALSE, code |-> "secret"]}

-----------------------------------------------------------------------------
(* The pages: arrangements of a few tabs, valid and invalid, cut into pages of *)
(* one to three tabs.                                                          *)

W == <<"w1", "w2">>
G == <<"g1", "g2">>
T == <<"t1", "t2", "t3", "t4", "t5">>
MCContains == {<<"Mail", "mail">>}

Windows == {<<[key |-> "w1", id |-> i, focused |-> f], [key |-> "w2", id |-> j, focused |-> g]>> :
               i \in {1}, j \in {1, 2}, f \in {FALSE}, g \in BOOLEAN}
Groups(w) == <<[key |-> "g1", id |-> 1, window |-> "w1", shared |-> {}],
               [key |-> "g2", id |-> 2, window |-> w, shared |-> {}]>>

Tab(n, place, index, frozen) ==
    [key |-> T[n], id |-> n, window |-> place[1], group |-> place[2], index |-> index,
     active |-> n = 1, pinned |-> FALSE, discarded |-> n \in {2, 3}, frozen |-> frozen,
     title |-> {IF n = 1 THEN "Mail" ELSE "Docs"}, url |-> {""}, pending_url |-> {},
     opener |-> IF n = 1 THEN {} ELSE {"t1"}, bytes |-> n]

\* Where a valid arrangement puts a tab: the second group is in window w.
PlacesWith(w) == ({"w1"} \X {{}, {"g1"}}) \cup ({"w2"} \X {{}}) \cup {<<w, {"g2"}>>}
\* A group of the first window, in either window.
LoosePlaces == {<<"w1", {}>>, <<"w1", {"g1"}>>, <<"w2", {"g1"}>>, <<"w2", {}>>}
Base(windows, groups, tabs, frozen) ==
    [contains_null |-> FALSE, bytes |-> 10,
     browser_instance_id |-> browser_instance_id, captured_at_blank |-> FALSE, model_revision |-> 1,
     supports_frozen_tabs |-> frozen, supports_shared_tab_groups |-> FALSE,
     windows |-> windows, groups |-> groups, tabs |-> tabs]

\* The index of the n-th tab behind the tabs of its window before it.
IndexIn(places, n) == Cardinality({m \in 1..(n - 1) : places[m][1] = places[n][1]})

StripBaselines ==
    UNION {{Base(windows, Groups(w), [n \in 1..Tabs |-> Tab(n, places[n], IndexIn(places, n), {})], FALSE) :
               windows \in {ws \in Windows : ws[2].id = 2}, places \in [1..Tabs -> PlacesWith(w)]} :
           w \in {"w1", "w2"}}

LooseBaselines ==
    {Base(windows, Groups("w2"),
          [n \in 1..LooseTabs |-> Tab(n, places[n], indexes[n], {})], FALSE) :
        windows \in {ws \in Windows : ~ws[2].focused}, places \in [1..LooseTabs -> LoosePlaces],
        indexes \in [1..LooseTabs -> 0..2]}

OddBaselines ==
    LET plain == Base(CHOOSE ws \in Windows : ws[2].id = 2, Groups("w2"),
                      <<Tab(1, <<"w1", {}>>, 0, {TRUE}), Tab(2, <<"w2", {}>>, 0, {FALSE})>>, TRUE)
    IN {plain,
        [plain EXCEPT !.browser_instance_id = "other"],
        [plain EXCEPT !.contains_null = TRUE],
        [plain EXCEPT !.bytes = MAX_BASELINE_BYTES + 1],
        [plain EXCEPT !.bytes = MAX_RETAINED_BYTES],
        [plain EXCEPT !.tabs[1].bytes = MAX_RESULT_BYTES + 1],
        [plain EXCEPT !.tabs[2].bytes = MAX_RESULT_BYTES + 1],
        [plain EXCEPT !.captured_at_blank = TRUE],
        [plain EXCEPT !.model_revision = 0],
        [plain EXCEPT !.supports_frozen_tabs = FALSE],
        [plain EXCEPT !.supports_shared_tab_groups = TRUE],
        [plain EXCEPT !.tabs[2].opener = {"t9"}],
        [plain EXCEPT !.tabs[1].key = ""],
        [plain EXCEPT !.tabs[2].id = 1],
        [plain EXCEPT !.groups[1].window = "w9"]}

PagedBaselines == StripBaselines \cup LooseBaselines

With(fields) == [f \in Fields |-> IF f \in DOMAIN fields THEN {fields[f]} ELSE {}]
Ref(prefix, key) == [prefix |-> prefix, of |-> key]
PagedCalls ==
    {With([limit |-> n]) : n \in 0..3} \cup
    {With([limit |-> 1, discarded |-> TRUE]),
     With([limit |-> 2, windowRef |-> Ref("win", "w2")]),
     With([limit |-> 1, groupRef |-> Ref("grp", "g1")])}

OddCalls ==
    {NoParams, With([limit |-> 1]), With([limit |-> 0]), With([limit |-> MAX_LIMIT + 1]),
     With([detail |-> "counts"]), With([detail |-> "full"]), With([detail |-> "counts", limit |-> 1]),
     With([frozen |-> TRUE]), With([frozen |-> FALSE, detail |-> "full"]),
     With([query |-> [text |-> "mail", blank |-> FALSE, bytes |-> 4]]),
     With([query |-> [text |-> "", blank |-> TRUE, bytes |-> 0]]),
     With([query |-> [text |-> "mail", blank |-> FALSE, bytes |-> MAX_QUERY_BYTES + 1]]),
     With([tabRefs |-> <<Ref("tab", "t1")>>]), With([tabRefs |-> <<>>]),
     With([tabRefs |-> <<Ref("tab", "t1"), Ref("tab", "t1")>>]),
     With([tabRefs |-> <<Ref("tab", "t9")>>]), With([windowRef |-> Ref("tab", "t1")]),
     With([windowRef |-> Ref("win", "w1"), groupRef |-> Ref("grp", "g1")]),
     With([cursor |-> Ref("cur", 1)]), With([cursor |-> Ref("cur", 1), limit |-> 1]),
     With([cursor |-> Ref("win", "w1")])}

\* A few baselines of every sort for the calls above.
FewBaselines == OddBaselines \cup {b \in StripBaselines : ~b.windows[2].focused /\ b.tabs[1].window = "w2"}


-----------------------------------------------------------------------------
\* This build meets all facts, others the plain ones; odd calls meet the few
\* baselines.  What a behaviour is not about stays as one of the plain ones.
PlainCase == PagingInit({NoParams}, {CHOOSE b \in OddBaselines : TRUE})
PlainPeer == DialogueInit({ThisBuild}, {CHOOSE known \in PlainFactSets : TRUE})

ContentsInit ==
    \/ /\ subject = "dialogue" /\ PlainCase
       /\ DialogueInit({ThisBuild}, FactSets) \/ DialogueInit(Builds, PlainFactSets)
    \/ /\ subject = "pages" /\ PlainPeer
       /\ PagingInit(PagedCalls, PagedBaselines) \/ PagingInit(OddCalls, FewBaselines)

ContentsNext ==
    \/ subject = "dialogue" /\ Next /\ UNCHANGED <<paging_vars, subject>>
    \/ subject = "pages" /\ PagingNext /\ UNCHANGED <<vars, subject>>

ContentsSpec == ContentsInit /\ [][ContentsNext]_<<vars, paging_vars, subject>>
=============================================================================
