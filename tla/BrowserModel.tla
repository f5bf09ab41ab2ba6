---------------------------- MODULE BrowserModel ----------------------------
(***************************************************************************)
(* The extension's model of Chrome's windows and tabs                        *)
(* (extension/browser-model.js): Chrome changes, announces every change by    *)
(* an event, and answers queries; the extension queries until no event has    *)
(* come meanwhile, and gives every window and tab a key of its own.            *)
(*                                                                         *)
(* Chrome's events and answers reach the extension in the order in which they *)
(* were sent.  Tab groups are kept as windows are, and are left out.           *)
(***************************************************************************)
EXTENDS Integers, Sequences, FiniteSets

CONSTANTS WindowIds, TabIds,
          Callers,          \* of snapshot and getSupport
          Frozen,           \* whether Chrome's tabs have the property "frozen"
          MaxChanges,       \* bound: changes of Chrome's state
          MaxFailures       \* bound: reads that fail

VARIABLES
    \* Chrome
    windows, tabs,          \* when each was created, and the window of a tab; {} for none
    changes,                \* how many changes there have been
    channel,                \* events and answers under way
    queries,                \* queries that Chrome has not answered
    \* the extension
    keys,                   \* of windows and of tabs, an Option each
    forceNewIds,
    eventGeneration, reconciledGeneration,
    reading,                \* the reconciliation under way: generationAtRead and answers; an Option
    records,                \* an Option
    modelRevision, support,
    nextKey,                \* randomUUID
    callers,                \* of each caller: where it is, what it could know, what it was given
    \* for the properties
    delivered,              \* the last change whose event has been delivered
    named,                  \* every window and tab that was ever in records, with its key
    failures

vars == <<windows, tabs, changes, channel, queries, keys, forceNewIds, eventGeneration,
          reconciledGeneration, reading, records, modelRevision, support, nextKey, callers, delivered,
          named, failures>>

chrome == <<windows, tabs, changes>>
knowledge == <<records, modelRevision, support, nextKey, named, reconciledGeneration>>

Ids == WindowIds \cup TabIds        \* the two sets are disjoint

TypeOK ==
    /\ \A w \in WindowIds : Cardinality(windows[w]) <= 1
    /\ \A t \in TabIds : Cardinality(tabs[t]) <= 1
    /\ \A tab \in UNION {tabs[t] : t \in TabIds} : windows[tab.window] # {}
    /\ changes \in 0..MaxChanges
    /\ queries \subseteq {"windows", "tabs"}
    /\ \A id \in Ids : Cardinality(keys[id]) <= 1
    /\ forceNewIds \subseteq Ids
    /\ reconciledGeneration \in -1..eventGeneration
    /\ Cardinality(reading) <= 1 /\ Cardinality(records) <= 1
    /\ queries # {} => reading # {}
    /\ modelRevision = 0 <=> records = {}
    /\ support \in BOOLEAN
    /\ delivered \in 0..changes
    /\ failures \in 0..MaxFailures

\* A reconciliation begins to read.
StartRead(generation) ==
    /\ reading' = {[generation |-> generation, windows |-> {}, tabs |-> {}, drained |-> FALSE]}
    /\ queries' = {"windows", "tabs"}

Init ==
    /\ windows \in [WindowIds -> {{}, {0}}]
    /\ tabs \in [TabIds -> {{}} \cup {{[since |-> 0, window |-> w]} : w \in WindowIds}]
    /\ \A tab \in UNION {tabs[t] : t \in TabIds} : windows[tab.window] # {}
    /\ changes = 0 /\ channel = <<>>
    /\ keys = [id \in Ids |-> {}] /\ forceNewIds = {}
    /\ eventGeneration = 0 /\ reconciledGeneration = -1
    /\ reading = {[generation |-> 0, windows |-> {}, tabs |-> {}, drained |-> FALSE]}
    /\ queries = {"windows", "tabs"}
    /\ records = {} /\ modelRevision = 0 /\ support = FALSE /\ nextKey = 1
    /\ callers = [c \in Callers |-> [at |-> "none", asked |-> 0, given |-> {}]]
    /\ delivered = 0 /\ named = {} /\ failures = 0

-----------------------------------------------------------------------------
(* Chrome *)

Event(type, id, old) == [type |-> type, id |-> id, old |-> old, at |-> changes + 1]
Announce(events) ==
    /\ changes < MaxChanges /\ changes' = changes + 1
    /\ channel' = channel \o events
    /\ UNCHANGED <<queries, keys, forceNewIds, eventGeneration, reading, knowledge, callers, delivered,
                   failures>>

CreateWindow == \E w \in WindowIds :
    /\ windows[w] = {}
    /\ windows' = [windows EXCEPT ![w] = {changes + 1}]
    /\ Announce(<<Event("created", w, w)>>)
    /\ UNCHANGED tabs

TabsOf(w) == {t \in TabIds : \E tab \in tabs[t] : tab.window = w}

RemoveWindow == \E w \in WindowIds :
    /\ windows[w] # {} /\ TabsOf(w) = {}
    /\ windows' = [windows EXCEPT ![w] = {}]
    /\ Announce(<<Event("removed", w, w)>>)
    /\ UNCHANGED tabs

CreateTab == \E t \in TabIds, w \in WindowIds :
    /\ tabs[t] = {} /\ windows[w] # {}
    /\ tabs' = [tabs EXCEPT ![t] = {[since |-> changes + 1, window |-> w]}]
    /\ Announce(<<Event("created", t, t)>>)
    /\ UNCHANGED windows

RemoveTab == \E t \in TabIds :
    /\ tabs[t] # {}
    /\ tabs' = [tabs EXCEPT ![t] = {}]
    /\ Announce(<<Event("removed", t, t)>>)
    /\ UNCHANGED windows

\* onDetached and onAttached
MoveTab == \E t \in TabIds, w \in WindowIds : \E tab \in tabs[t] :
    /\ tab.window # w /\ windows[w] # {}
    /\ tabs' = [tabs EXCEPT ![t] = {[tab EXCEPT !.window = w]}]
    /\ Announce(<<Event("dirty", t, t), Event("dirty", t, t)>>)
    /\ UNCHANGED windows

ReplaceTab == \E t, u \in TabIds : \E tab \in tabs[t] :
    /\ tabs[u] = {}
    /\ tabs' = [tabs EXCEPT ![t] = {}, ![u] = {[tab EXCEPT !.since = changes + 1]}]
    /\ Announce(<<Event("replaced", u, t)>>)
    /\ UNCHANGED windows

AnswerQuery == \E query \in queries :
    /\ queries' = queries \ {query}
    /\ channel' = Append(channel, [type |-> query, at |-> changes,
                                   value |-> IF query = "windows" THEN windows ELSE tabs])
    /\ UNCHANGED <<chrome, keys, forceNewIds, eventGeneration, reading, knowledge, callers, delivered,
                   failures>>

-----------------------------------------------------------------------------
(* Events: markCreated, markRemoved, markDirty and onReplaced *)

KeysAfter(event) ==
    [id \in Ids |-> IF (event.type \in {"created", "removed", "replaced"} /\ id = event.id)
                       \/ (event.type = "replaced" /\ id = event.old)
                    THEN {} ELSE keys[id]]

\* (a wrong variant: no reconciliation is started)
HandleEventLazily ==
    /\ channel # <<>> /\ Head(channel).type \in {"created", "removed", "dirty", "replaced"}
    /\ keys' = KeysAfter(Head(channel))
    /\ forceNewIds' = IF Head(channel).type \in {"created", "replaced"}
                      THEN forceNewIds \cup {Head(channel).id} ELSE forceNewIds
    /\ delivered' = Head(channel).at
    /\ channel' = Tail(channel)
    /\ eventGeneration' = eventGeneration + 1
    /\ UNCHANGED <<chrome, reading, queries, knowledge, callers, failures>>

\* (a wrong variant: an event only marks the model dirty)
HandleEventAsDirty ==
    /\ channel # <<>> /\ Head(channel).type \in {"created", "removed", "dirty", "replaced"}
    /\ delivered' = Head(channel).at
    /\ channel' = Tail(channel)
    /\ eventGeneration' = eventGeneration + 1
    /\ IF reading = {} THEN StartRead(eventGeneration + 1) ELSE UNCHANGED <<reading, queries>>
    /\ UNCHANGED <<chrome, keys, forceNewIds, knowledge, callers, failures>>

HandleEvent ==
    /\ channel # <<>> /\ Head(channel).type \in {"created", "removed", "dirty", "replaced"}
    /\ LET event == Head(channel)
       IN /\ keys' = KeysAfter(event)
          /\ forceNewIds' = IF event.type \in {"created", "replaced"}
                            THEN forceNewIds \cup {event.id} ELSE forceNewIds
          /\ delivered' = event.at
    /\ channel' = Tail(channel)
    /\ eventGeneration' = eventGeneration + 1
    /\ IF reading = {} THEN StartRead(eventGeneration + 1) ELSE UNCHANGED <<reading, queries>>
    /\ UNCHANGED <<chrome, knowledge, callers, failures>>

-----------------------------------------------------------------------------
(* reconcile *)

\* An answer that was awaited, and one that came too late ("late").
With(read, answer) ==
    CASE answer.type = "windows" -> [read EXCEPT !.windows = {answer}]
      [] answer.type = "tabs" -> [read EXCEPT !.tabs = {answer}]
      [] OTHER -> read

HandleAnswer ==
    /\ channel # <<>> /\ Head(channel).type \in {"windows", "tabs", "late"}
    /\ reading' = {With(read, Head(channel)) : read \in reading}
    /\ channel' = Tail(channel)
    /\ UNCHANGED <<chrome, queries, keys, forceNewIds, eventGeneration, knowledge, callers, delivered,
                   failures>>

Read == CHOOSE read \in reading : TRUE
AllRead == reading # {} /\ Read.windows # {} /\ Read.tabs # {}

\* drainEvents: a turn of the event loop, in which events may come.
Drain ==
    /\ AllRead /\ ~Read.drained
    /\ reading' = {[Read EXCEPT !.drained = TRUE]}
    /\ UNCHANGED <<chrome, channel, queries, keys, forceNewIds, eventGeneration, knowledge, callers,
                   delivered, failures>>

ReadAgain ==
    /\ AllRead /\ Read.drained /\ Read.generation # eventGeneration
    /\ StartRead(eventGeneration)
    /\ UNCHANGED <<chrome, channel, keys, forceNewIds, eventGeneration, knowledge, callers, delivered,
                   failures>>

NextRevision(next) ==
    IF \E r \in records : r.content = next THEN modelRevision ELSE modelRevision + 1

\* keyFor and pruneKeys, for the ids of a source
Kept(ids) == [id \in Ids |-> IF id \in ids \ forceNewIds THEN keys[id] ELSE {}]
Keyed(ids) ==
    LET kept == Kept(ids)
        new == {id \in ids : kept[id] = {}}
        order == CHOOSE f \in [new -> 1..Cardinality(new)] : \A a, b \in new : f[a] = f[b] => a = b
    IN [id \in Ids |-> IF id \in new THEN {nextKey + order[id] - 1} ELSE kept[id]]

Normalized(windowsNow, tabsNow, keyed) ==
    [windows |-> {[key |-> keyed[w], id |-> w, since |-> windowsNow[w]] :
                     w \in {x \in WindowIds : windowsNow[x] # {}}},
     tabs |-> UNION {{[key |-> keyed[t], id |-> t, since |-> {tab.since}, windowKey |-> keyed[tab.window]] :
                         tab \in tabsNow[t]} : t \in TabIds}]

\* (a wrong variant: what was read is taken although events have come)
UpToDateAlways == AllRead /\ Read.drained

UpToDate == AllRead /\ Read.drained /\ Read.generation = eventGeneration

Apply ==
    /\ UpToDate
    /\ LET source == [windows |-> (CHOOSE a \in Read.windows : TRUE), tabs |-> (CHOOSE a \in Read.tabs : TRUE)]
           ids == {id \in WindowIds : source.windows.value[id] # {}} \cup
                  {id \in TabIds : source.tabs.value[id] # {}}
           keyed == Keyed(ids)
           next == Normalized(source.windows.value, source.tabs.value, keyed)
       IN /\ keys' = keyed
          /\ forceNewIds' = forceNewIds \ ids
          /\ nextKey' = nextKey + Cardinality({id \in ids : keyed[id] # keys[id]})
          /\ modelRevision' = NextRevision(next)
          /\ records' = {[content |-> next, windowsAt |-> source.windows.at, tabsAt |-> source.tabs.at]}
          /\ support' = (support \/ (Frozen /\ next.tabs # {}))
          /\ named' = named \cup {[id |-> o.id, since |-> o.since, key |-> o.key] :
                                      o \in next.windows \cup next.tabs}
          /\ callers' = [c \in Callers |-> IF callers[c].at = "waiting"
                                           THEN [callers[c] EXCEPT !.at = "done", !.given = records']
                                           ELSE callers[c]]
    /\ reconciledGeneration' = Read.generation
    /\ reading' = {}
    /\ UNCHANGED <<chrome, channel, queries, eventGeneration, delivered, failures>>

\* A query fails; what the others answer is of no use.
Late(message) == IF message.type \in {"windows", "tabs"} THEN [type |-> "late"] ELSE message
ReadFails ==
    /\ reading # {} /\ ~AllRead /\ failures < MaxFailures
    /\ failures' = failures + 1
    /\ reading' = {} /\ queries' = {}
    /\ channel' = [i \in DOMAIN channel |-> Late(channel[i])]
    /\ callers' = [c \in Callers |-> IF callers[c].at = "waiting" THEN [callers[c] EXCEPT !.at = "failed"]
                                     ELSE callers[c]]
    /\ UNCHANGED <<chrome, keys, forceNewIds, eventGeneration, knowledge, delivered>>

\* (a wrong variant: who calls is given what there is)
CallAtOnce(c) ==
    /\ callers[c].at = "none"
    /\ IF records # {}
       THEN /\ callers' = [callers EXCEPT ![c] = [at |-> "done", asked |-> delivered, given |-> records]]
            /\ UNCHANGED <<reading, queries>>
       ELSE /\ callers' = [callers EXCEPT ![c] = [at |-> "waiting", asked |-> delivered, given |-> {}]]
            /\ IF reading = {} THEN StartRead(eventGeneration) ELSE UNCHANGED <<reading, queries>>
    /\ UNCHANGED <<chrome, channel, keys, forceNewIds, eventGeneration, knowledge, delivered, failures>>

\* snapshot, getSupport and whenIdle
Call(c) ==
    /\ callers[c].at = "none"
    /\ IF reading = {} /\ records # {} /\ reconciledGeneration = eventGeneration
       THEN /\ callers' = [callers EXCEPT ![c] = [at |-> "done", asked |-> delivered, given |-> records]]
            /\ UNCHANGED <<reading, queries>>
       ELSE /\ callers' = [callers EXCEPT ![c] = [at |-> "waiting", asked |-> delivered, given |-> {}]]
            /\ IF reading = {} THEN StartRead(eventGeneration) ELSE UNCHANGED <<reading, queries>>
    /\ UNCHANGED <<chrome, channel, keys, forceNewIds, eventGeneration, knowledge, delivered, failures>>

Chrome == CreateWindow \/ RemoveWindow \/ CreateTab \/ RemoveTab \/ MoveTab \/ ReplaceTab
Reconcile == Drain \/ ReadAgain \/ Apply

Next == Chrome \/ AnswerQuery \/ HandleEvent \/ HandleAnswer \/ Reconcile \/ ReadFails
        \/ (\E c \in Callers : Call(c))

Spec == Init /\ [][Next]_vars

\* Chrome answers and delivers; the event loop turns.
Fairness == WF_vars(AnswerQuery) /\ WF_vars(HandleEvent \/ HandleAnswer) /\ WF_vars(Reconcile)
FairSpec == Spec /\ Fairness

-----------------------------------------------------------------------------
(* Properties *)

\* The records are Chrome's state of one moment: no change fell between the
\* answers of the queries that they were made from, and every tab is in a window
\* that is among them.
RecordsOfOneMoment ==
    \A r \in records : /\ r.windowsAt = r.tabsAt
                       /\ \A tab \in r.content.tabs : \E w \in r.content.windows : tab.windowKey = w.key

\* A window or tab keeps its key for as long as it lives, and no other one ever
\* has it, even one of the same id.
KeysFollowLives ==
    \A a, b \in named : a.key = b.key <=> a.id = b.id /\ a.since = b.since

\* Who calls is given a state no older than the events that had been delivered
\* when it called, also when it joins a reconciliation that has begun before.
NeverStale ==
    \A c \in Callers : \A r \in callers[c].given : r.tabsAt >= callers[c].asked

\* All of this at once.
ModelIsTrue ==
    /\ TypeOK
    /\ RecordsOfOneMoment
    /\ KeysFollowLives
    /\ NeverStale

(* What makes ModelIsTrue inductive. *)

Tabs == [since : Nat, window : WindowIds]
Events == [type : {"created", "removed", "dirty", "replaced"}, id : Ids, old : Ids, at : Nat]
WindowAnswers == [type : {"windows"}, at : Nat, value : [WindowIds -> SUBSET Nat]]
TabAnswers == [type : {"tabs"}, at : Nat, value : [TabIds -> SUBSET Tabs]]
Messages == Events \cup WindowAnswers \cup TabAnswers \cup [type : {"late"}]
Readings == [generation : Nat, windows : SUBSET WindowAnswers, tabs : SUBSET TabAnswers, drained : BOOLEAN]

AtMostOne(S) == \A x, y \in S : x = y

Shapes ==
    /\ windows \in [WindowIds -> SUBSET Nat] /\ \A w \in WindowIds : AtMostOne(windows[w])
    /\ tabs \in [TabIds -> SUBSET Tabs] /\ \A t \in TabIds : AtMostOne(tabs[t])
    /\ changes \in 0..MaxChanges /\ failures \in 0..MaxFailures
    /\ channel \in Seq(Messages)
    /\ queries \subseteq {"windows", "tabs"}
    /\ keys \in [Ids -> SUBSET Nat] /\ \A id \in Ids : AtMostOne(keys[id])
    /\ forceNewIds \subseteq Ids
    /\ eventGeneration \in Nat /\ reconciledGeneration \in -1..eventGeneration
    /\ reading \subseteq Readings /\ AtMostOne(reading)
    /\ \A read \in reading : /\ AtMostOne(read.windows) /\ AtMostOne(read.tabs)
                             /\ read.generation <= eventGeneration
    /\ AtMostOne(records)
    /\ modelRevision \in Nat /\ (modelRevision = 0 <=> records = {})
    /\ support \in BOOLEAN /\ nextKey \in Nat
    /\ named \subseteq [id : Ids, since : SUBSET Nat, key : SUBSET Nat]
    /\ callers = [c \in Callers |-> [at |-> callers[c].at, asked |-> callers[c].asked,
                                     given |-> callers[c].given]]
    /\ \A c \in Callers : callers[c].asked \in 0..delivered
    /\ delivered \in 0..changes

IsEvent(i) == channel[i].type \in {"created", "removed", "dirty", "replaced"}
IsAnswer(i) == channel[i].type \in {"windows", "tabs"}
Resets(event, id) ==
    \/ event.type \in {"created", "removed", "replaced"} /\ event.id = id
    \/ event.type = "replaced" /\ event.old = id

\* When the one of an id was created, in Chrome and in an answer that is of its kind.
Life(id) == IF id \in WindowIds THEN windows[id] ELSE {tab.since : tab \in tabs[id]}
Tells(answer, id) == answer.type = IF id \in WindowIds THEN "windows" ELSE "tabs"
LifeIn(answer, id) == IF id \in WindowIds THEN answer.value[id] ELSE {tab.since : tab \in answer.value[id]}

\* The answers that a reconciliation has which no event has overtaken.
Current == UNION {read.windows \cup read.tabs : read \in {r \in reading : r.generation = eventGeneration}}
WindowsAnswers == {channel[i] : i \in {j \in DOMAIN channel : channel[j].type = "windows"}}
                  \cup UNION {read.windows : read \in reading}
TabsAnswers == {channel[i] : i \in {j \in DOMAIN channel : channel[j].type = "tabs"}}
               \cup UNION {read.tabs : read \in reading}

\* Every query is open, under way or answered, once; nothing is unless there is a
\* reconciliation.
OneAnswerEach ==
    /\ \A i, j \in DOMAIN channel : IsAnswer(i) /\ channel[i].type = channel[j].type => i = j
    /\ reading = {} => queries = {} /\ \A i \in DOMAIN channel : ~IsAnswer(i)
    /\ \A i \in DOMAIN channel : IsAnswer(i) => channel[i].type \notin queries
    /\ \A read \in reading :
           /\ read.windows # {} => "windows" \notin queries /\ \A i \in DOMAIN channel : channel[i].type # "windows"
           /\ read.tabs # {} => "tabs" \notin queries /\ \A i \in DOMAIN channel : channel[i].type # "tabs"

\* The channel has an event of every change that was not delivered, and its messages
\* are in the order of the changes.
ChannelInOrder ==
    /\ \A n \in delivered + 1..changes : \E i \in DOMAIN channel : IsEvent(i) /\ channel[i].at = n
    /\ \A i \in DOMAIN channel :
           /\ IsEvent(i) \/ IsAnswer(i) => channel[i].at \in delivered..changes
           /\ IsEvent(i) /\ channel[i].type # "dirty" => channel[i].at > delivered
    /\ \A i, j \in DOMAIN channel : i < j =>
           /\ IsEvent(i) /\ (IsEvent(j) \/ IsAnswer(j)) => channel[i].at <= channel[j].at
           /\ IsEvent(i) /\ IsEvent(j) /\ channel[j].type # "dirty" => channel[i].at < channel[j].at
           /\ IsAnswer(i) /\ IsEvent(j) => channel[i].at < channel[j].at

\* What Chrome has and what its answers say fit together and with the changes.
ChromeFits ==
    /\ \A tab \in UNION {tabs[t] : t \in TabIds} : windows[tab.window] # {}
    /\ \A id \in Ids : \A since \in Life(id) : since <= changes
    /\ \A a \in WindowsAnswers \cup TabsAnswers :
           /\ a.at <= changes
           /\ \A id \in Ids : Tells(a, id) => AtMostOne(LifeIn(a, id)) /\ \A since \in LifeIn(a, id) : since <= a.at
    /\ \A a \in WindowsAnswers : a.at = changes => a.value = windows
    /\ \A a \in TabsAnswers : a.at = changes => a.value = tabs
    /\ \A a \in WindowsAnswers, b \in TabsAnswers :
           a.at = b.at => \A t \in TabIds : \A tab \in b.value[t] : a.value[tab.window] # {}
    /\ \A a \in Current : a.at = delivered

\* An answer says what Chrome has, unless an event behind it tells of the difference;
\* and what an event in the channel tells of is newer than all before it.
EventsTell ==
    \A id \in Ids :
        /\ \A i \in DOMAIN channel : IsAnswer(i) /\ Tells(channel[i], id) =>
               LifeIn(channel[i], id) = Life(id) \/ \E j \in DOMAIN channel : j > i /\ Resets(channel[j], id)
        /\ \A a \in Current : Tells(a, id) =>
               LifeIn(a, id) = Life(id) \/ \E j \in DOMAIN channel : Resets(channel[j], id)
        /\ \A j \in DOMAIN channel : Resets(channel[j], id) =>
               /\ \A since \in Life(id) : since >= channel[j].at
               /\ \A i \in DOMAIN channel : i > j /\ IsAnswer(i) /\ Tells(channel[i], id) =>
                      \A since \in LifeIn(channel[i], id) : since >= channel[j].at

\* A key belongs to the one that has it: Chrome and its answers tell of that one, as
\* far as no event ahead of them is going to take the key away.
KeysAreRight ==
    \A id \in Ids :
        /\ id \in forceNewIds => keys[id] = {}
        /\ keys[id] # {} => \E n \in named :
               /\ n.id = id /\ n.key = keys[id]
               /\ Life(id) = n.since \/ \E j \in DOMAIN channel : Resets(channel[j], id)
               /\ \A i \in DOMAIN channel : IsAnswer(i) /\ Tells(channel[i], id) =>
                      LifeIn(channel[i], id) = n.since \/ \E j \in DOMAIN channel : j < i /\ Resets(channel[j], id)
               /\ \A a \in Current : Tells(a, id) => LifeIn(a, id) = n.since

\* Whoever has lost its key is gone, and nothing tells of it any more.
GoneForGood ==
    \A n \in named :
        /\ n.key # {} /\ \A k \in n.key : k < nextKey
        /\ n.since # {} /\ \A since \in n.since : since <= delivered
        /\ \/ keys[n.id] = n.key
           \/ /\ Life(n.id) # n.since
              /\ \A i \in DOMAIN channel : IsAnswer(i) /\ Tells(channel[i], n.id) => LifeIn(channel[i], n.id) # n.since
              /\ \A a \in Current : Tells(a, n.id) => LifeIn(a, n.id) # n.since

RecordsAreCurrent ==
    reconciledGeneration = eventGeneration => \A r \in records : r.tabsAt = delivered

IInv ==
    /\ Shapes
    /\ OneAnswerEach
    /\ ChannelInOrder
    /\ ChromeFits
    /\ EventsTell
    /\ KeysAreRight
    /\ GoneForGood
    /\ RecordsAreCurrent
    /\ RecordsOfOneMoment
    /\ KeysFollowLives
    /\ NeverStale

-----------------------------------------------------------------------------
\* The last read failed, and neither an event nor a caller has begun another one:
\* the model is behind and knows it.
LeftBehind ==
    /\ failures > 0 /\ reading = {}
    /\ records = {} \/ reconciledGeneration # eventGeneration

\* When Chrome comes to rest, so does the model, with Chrome's latest state, also
\* after failures: unless the last read is one that failed, and nobody has asked
\* again.
Converges == <>[](LeftBehind \/ \E r \in records : r.tabsAt = changes)

=============================================================================
