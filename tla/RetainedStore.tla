---------------------------- MODULE RetainedStore ----------------------------
(***************************************************************************)
(* The store of retained records (native/src/retention.rs) inside the       *)
(* runtime's retention (native/src/runtime.rs, RuntimeRetention), whose     *)
(* references take a part of the same byte budget.                          *)
(*                                                                         *)
(* The runtime's mutex is held from reading the clock to the end of each    *)
(* operation, so operations are atomic and see time advance.  A rejected    *)
(* insert returns before it changes anything and is no step.  Sizes are     *)
(* usize: additions the code does not check and all subtractions wrap.      *)
(***************************************************************************)
EXTENDS Integers, Sequences, FiniteSets, FiniteSetsExt

CONSTANTS Keys,                  \* record keys
          Classes,               \* retention classes
          Policies,              \* [ttl, max_records, max_bytes]
          Sizes,                 \* sizes of candidates and of the references
          aggregate_max_bytes,   \* the budget of records and references together
          USIZE_MAX,             \* the largest usize
          MAX_NOW                \* where the clock stops

ASSUME StoreAssumption ==
    /\ aggregate_max_bytes \in 0..USIZE_MAX
    /\ USIZE_MAX \in Nat
    /\ Sizes \subseteq 0..USIZE_MAX
    /\ Policies \subseteq [ttl : Nat, max_records : Nat, max_bytes : 0..USIZE_MAX]
    /\ MAX_NOW \in Nat

VARIABLES
    records,          \* the deque, oldest first
    retained_bytes,   \* what the store believes its records take
    reference_bytes,  \* what the runtime's references take
    now               \* the clock

vars == <<records, retained_bytes, reference_bytes, now>>

Records == [key : Keys, class : Classes, created_at : Nat, ttl : Nat,
            retained_bytes : Sizes]
Candidates == [key : Keys, class : Classes, policy : Policies, retained_bytes : Sizes]

\* The deque is in the order of creation.
TypeOK ==
    /\ records \in Seq(Records)
    /\ \A i, j \in 1..Len(records) : i <= j => records[i].created_at <= records[j].created_at
    /\ \A i \in 1..Len(records) : records[i].created_at <= now
    /\ retained_bytes \in 0..USIZE_MAX
    /\ reference_bytes \in 0..USIZE_MAX
    /\ now \in 0..MAX_NOW

Init ==
    /\ records = <<>>
    /\ retained_bytes = 0
    /\ reference_bytes = 0
    /\ now = 0

Usize(n) == n % (USIZE_MAX + 1)

\* The bytes of the records at some places of a sequence, exactly.
BytesAt(seq, places) ==
    LET sum[n \in 0..Len(seq)] ==
            IF n = 0 THEN 0
            ELSE sum[n - 1] + (IF n \in places THEN seq[n].retained_bytes ELSE 0)
    IN  sum[Len(seq)]
Bytes(seq) == BytesAt(seq, 1..Len(seq))

\* The records at some places of a sequence, in their order.
Only(seq, places) ==
    LET left[n \in 0..Len(seq)] ==
            IF n = 0 THEN <<>>
            ELSE IF n \in places THEN Append(left[n - 1], seq[n]) ELSE left[n - 1]
    IN  left[Len(seq)]

\* Operations name records by their places in the deque, which are in order of age.
Places == 1..Len(records)
OfClass(places, class) == {i \in places : records[i].class = class}

-----------------------------------------------------------------------------
(* Plausible bugs, used only to show that the properties tell them apart    *)
(* from the code.                                                           *)

\* A record lives until its time to live is exceeded.
DueLate(record) == now - record.created_at > record.ttl

\* The class may grow to max_records + 1.
ClassOverfullByOne(mine, c) ==
    \/ Cardinality(mine) > c.policy.max_records
    \/ BytesAt(records, mine) > Usize(c.policy.max_bytes - c.retained_bytes)

\* The references counted are those of the snapshot before.
RoomBesideOldReferences(c, fixed_bytes) ==
    Usize(Usize(aggregate_max_bytes - reference_bytes) - c.retained_bytes)

\* clear empties the deque only.
ClearRecordsOnly ==
    /\ records' = <<>>
    /\ reference_bytes' = 0
    /\ UNCHANGED <<retained_bytes, now>>

\* Sums are computed without checked_add.
VerdictUnchecked(c, fixed_bytes) ==
    CASE \E i \in 1..Len(records) : records[i].key = c.key -> "DuplicateKey"
      [] c.policy.ttl = 0 \/ c.policy.max_records = 0 \/ c.policy.max_bytes = 0
           \/ aggregate_max_bytes = 0 -> "CapacityExceeded"
      [] c.retained_bytes > c.policy.max_bytes -> "CapacityExceeded"
      [] Usize(fixed_bytes + c.retained_bytes) > aggregate_max_bytes -> "CapacityExceeded"
      [] OTHER -> "Ok"
-----------------------------------------------------------------------------
(* insert.                                                                  *)

\* The checks in their order; the first to fail names the error.
Verdict(c, fixed_bytes) ==
    LET class_bytes == BytesAt(records, OfClass(Places, c.class)) IN
    CASE \E i \in 1..Len(records) : records[i].key = c.key -> "DuplicateKey"
      [] c.policy.ttl = 0 \/ c.policy.max_records = 0 \/ c.policy.max_bytes = 0
           \/ aggregate_max_bytes = 0 -> "CapacityExceeded"
      [] c.retained_bytes > c.policy.max_bytes -> "CapacityExceeded"
      [] fixed_bytes + c.retained_bytes > USIZE_MAX -> "ArithmeticOverflow"
      [] fixed_bytes + c.retained_bytes > aggregate_max_bytes -> "CapacityExceeded"
      [] \/ class_bytes + c.retained_bytes > USIZE_MAX
         \/ fixed_bytes + retained_bytes + c.retained_bytes > USIZE_MAX
           -> "ArithmeticOverflow"
      [] OTHER -> "Ok"

Due(record) == now - record.created_at >= record.ttl

\* The two loop conditions.
ClassOverfull(mine, c) ==
    \/ Cardinality(mine) >= c.policy.max_records
    \/ BytesAt(records, mine) > Usize(c.policy.max_bytes - c.retained_bytes)

Room(c, fixed_bytes) ==
    Usize(Usize(aggregate_max_bytes - fixed_bytes) - c.retained_bytes)

Alive == {i \in Places : ~Due(records[i])}

\* The places that a loop leaves: it removes the oldest record until it may stop,
\* and stops are the places up to which it may have come by then.
AfterClassLoop(c) ==
    LET mine  == OfClass(Alive, c.class)
        stops == {n \in 0..Len(records) : ~ClassOverfull({i \in mine : i > n}, c)}
    IN  {i \in Alive : i \in mine => i > Min(stops)}

AfterAggregateLoop(c, fixed_bytes) ==
    LET kept == AfterClassLoop(c)
        BytesAfter(n) == Usize(retained_bytes - BytesAt(records, {i \in Places : i \in kept => i <= n}))
        stops == {n \in 0..Len(records) : BytesAfter(n) <= Room(c, fixed_bytes)}
    IN  {i \in kept : i > Min(stops)}

Retained(c) ==
    [key |-> c.key, class |-> c.class, created_at |-> now,
     ttl |-> c.policy.ttl, retained_bytes |-> c.retained_bytes]

\* retain_browser_snapshot: the insert, and then the size of the references.
Insert(c, fixed_bytes) ==
    /\ Verdict(c, fixed_bytes) = "Ok"
    /\ LET kept == AfterAggregateLoop(c, fixed_bytes) IN
         /\ records' = Append(Only(records, kept), Retained(c))
         /\ retained_bytes' = Usize(retained_bytes - BytesAt(records, Places \ kept)
                                      + c.retained_bytes)
    /\ reference_bytes' = fixed_bytes
    /\ UNCHANGED now

-----------------------------------------------------------------------------
\* Every lookup expires first; get itself changes nothing.
Expire ==
    /\ records' = Only(records, Alive)
    /\ retained_bytes' = Usize(retained_bytes - BytesAt(records, Places \ Alive))
    /\ UNCHANGED <<reference_bytes, now>>

Clear ==
    /\ records' = <<>>
    /\ retained_bytes' = 0
    /\ reference_bytes' = 0
    /\ UNCHANGED now

Tick ==
    /\ now < MAX_NOW
    /\ now' = now + 1
    /\ UNCHANGED <<records, retained_bytes, reference_bytes>>

Next ==
    \/ \E c \in Candidates, fixed_bytes \in Sizes : Insert(c, fixed_bytes)
    \/ Expire
    \/ Clear
    \/ Tick

Spec == Init /\ [][Next]_vars
-----------------------------------------------------------------------------
(* Safety.                                                                  *)

\* The counter kept beside the deque is the deque's size, however records left
\* it, and no key is retained twice: the loops stop because of the former
\* (retention.rs:215-218, 241-253).
AccountingExact ==
    /\ retained_bytes = Bytes(records)
    /\ \A i, j \in 1..Len(records) : records[i].key = records[j].key => i = j

\* Records and references together stay within the budget at all times, though
\* the references change size with each snapshot, and no unchecked sum wraps
\* (runtime.rs:340-369; docs/decisions/0007: 32 MiB retained).
BudgetKept == reference_bytes + retained_bytes <= aggregate_max_bytes

\* The store's books are in order after every operation.
BooksBalance ==
    /\ TypeOK
    /\ AccountingExact
    /\ BudgetKept

-----------------------------------------------------------------------------
(* Action properties.                                                       *)

\* Whether a record is in a sequence.
Holds(seq, record) == \E i \in 1..Len(seq) : seq[i] = record

Fresh == {i \in Places : now < records[i].created_at + records[i].ttl}

\* The records that still have time to live and fit beside c, together with all newer
\* ones, first into the limits of its class and then, with what the class leaves and the
\* references, into the budget.
Fitting(c, fixed_bytes) ==
    LET Sum(places) == BytesAt(records, places) + c.retained_bytes
        Mine(i) == {j \in Fresh : j >= i /\ records[j].class = c.class}
        InClass == {i \in Fresh : records[i].class = c.class =>
                      /\ Cardinality(Mine(i)) < c.policy.max_records
                      /\ Sum(Mine(i)) <= c.policy.max_bytes}
    IN  {i \in InClass : fixed_bytes + Sum({j \in InClass : j >= i}) <= aggregate_max_bytes}

\* The candidate that an insert under this policy has made the last record.
Inserted(policy) ==
    LET last == records'[Len(records')]
    IN  [key |-> last.key, class |-> last.class,
         policy |-> policy, retained_bytes |-> last.retained_bytes]

InsertKeepsWhatFits ==
    \A policy \in Policies :
      records' # <<>> /\ Insert(Inserted(policy), reference_bytes') =>
        \A i \in Places : Holds(records', records[i]) <=> i \in Fitting(Inserted(policy), reference_bytes')

\* The loops of an insert evict oldest first and nothing without need: what fits
\* stays and nothing else (retention.rs:202-218).
EvictsOnlyWhatItMust == [][InsertKeepsWhatFits]_vars

ExpireKeepsTheFresh ==
    Expire => \A i \in Places : Holds(records', records[i]) <=> i \in Fresh

\* A lookup finds exactly the records younger than their time to live: one that
\* is as old as it is gone even behind a younger one (retention.rs:113-125).
LookupSeesOnlyFresh == [][ExpireKeepsTheFresh]_vars

\* Records leave for their age or for room, and not otherwise.
LeavesWhenItMust == EvictsOnlyWhatItMust /\ LookupSeesOnlyFresh
=============================================================================
