---------------------------- MODULE RuntimeProofs ----------------------------
(***************************************************************************)
(* What is proved of the two parts of Runtime: RetainedStore, and              *)
(* ToolListNotifier as its instance Tools.                                    *)
(*                                                                         *)
(* RetainedStore, for any records, policies, sizes and budget.  The sums and   *)
(* the sequences that its operations leave are recursive; what is said of them *)
(* is proved by induction along a sequence, in the form of the least number at *)
(* which it would fail.  The books are inductive as they stand: that the       *)
(* counter is exact is why the loops stop within the budget, and that they do  *)
(* is why the counter does not wrap.                                           *)
(*                                                                         *)
(* ToolListNotifier, for any clients and any number of changes.  A notifier    *)
(* that somebody holds is listed; whoever has not heard of the latest tools is *)
(* about to read them, or is listed while they are published, or has a message *)
(* in the channel of a notifier that somebody is going to listen to.           *)
(***************************************************************************)
EXTENDS Runtime, FiniteSetTheorems, WellFoundedInduction, TLAPS

-----------------------------------------------------------------------------
(* Induction along a sequence *)

LEMMA Least ==
    ASSUME NEW T, T \subseteq Nat, T # {}
    PROVE  \E n \in T : \A m \in T : n <= m
  <1> DEFINE R == OpToRel(<, Nat)
  <1>1. IsWellFoundedOn(R, Nat)
    BY NatLessThanWellFounded, Zenon
  <1>2. \A m, n \in Nat : m < n => <<m, n>> \in R
    BY DEF OpToRel
  <1> HIDE DEF R
  <1>3. PICK n \in T : \A m \in T : <<m, n>> \notin R
    BY <1>1, WFMin
  <1>4. \A m \in T : n \in Nat /\ m \in Nat /\ ~(m < n)
    BY <1>2, <1>3
  <1>5. \A m \in T : n <= m
    BY <1>4
  <1>6. QED BY <1>5

LEMMA Induction ==
    ASSUME NEW N \in Nat, NEW S, 0 \in S, \A n \in 1..N : n - 1 \in S => n \in S
    PROVE  \A n \in 0..N : n \in S
  <1> DEFINE Bad == {n \in 0..N : n \notin S}
  <1>1. ASSUME NEW m \in Bad, \A k \in Bad : m <= k PROVE FALSE
    <2>1. m \in 1..N /\ m \notin S
      OBVIOUS
    <2>2. m - 1 \in 0..N /\ m - 1 \notin Bad
      BY <1>1, <2>1
    <2>3. QED BY <2>1, <2>2
  <1>2. Bad \subseteq Nat
    OBVIOUS
  <1>3. Bad = {}
    BY <1>1, <1>2, Least
  <1>4. QED BY <1>3

\* Steps over 0..N can be chained.
IsChain(f, N, V, base, step) ==
    /\ f \in [0..N -> V]
    /\ f[0] = base
    /\ \A n \in 1..N : f[n] = step[n][f[n - 1]]
CanBeChained(N, V, base, step) == \E f : IsChain(f, N, V, base, step)

LEMMA Chain ==
    ASSUME NEW N \in Nat, NEW V, NEW base \in V, NEW step \in [1..N -> [V -> V]]
    PROVE  CanBeChained(N, V, base, step)
  <1> DEFINE Good(m) == \E f \in [0..m -> V] : f[0] = base /\ \A n \in 1..m : f[n] = step[n][f[n - 1]]
             S == {m \in 0..N : Good(m)}
  <1>1. Good(0)
    <2> DEFINE g == [n \in 0..0 |-> base]
    <2>1. g \in [0..0 -> V] /\ g[0] = base /\ \A n \in 1..0 : g[n] = step[n][g[n - 1]]
      OBVIOUS
    <2>2. QED BY <2>1
  <1>2. ASSUME NEW m \in 1..N, Good(m - 1) PROVE Good(m)
    <2>1. PICK f \in [0..m - 1 -> V] : f[0] = base /\ \A n \in 1..m - 1 : f[n] = step[n][f[n - 1]]
      BY <1>2
    <2> DEFINE g == [n \in 0..m |-> IF n = m THEN step[m][f[m - 1]] ELSE f[n]]
    <2>2. f[m - 1] \in V /\ step[m][f[m - 1]] \in V
      BY <2>1
    <2>3. g \in [0..m -> V] /\ g[0] = base
      BY <2>1, <2>2
    <2>4. \A n \in 1..m : g[n] = step[n][g[n - 1]]
      BY <2>1
    <2>5. QED BY <2>3, <2>4
  <1> HIDE DEF Good
  <1>3. 0 \in S /\ \A m \in 1..N : m - 1 \in S => m \in S
    BY <1>1, <1>2
  <1> HIDE DEF S
  <1>4. \A n \in 0..N : n \in S
    BY <1>3, Induction
  <1>5. N \in S
    BY <1>4
  <1>6. Good(N)
    BY <1>5 DEF S
  <1>7. QED BY <1>6 DEF Good, CanBeChained, IsChain

-----------------------------------------------------------------------------
(* Sums *)

LEMMA SizesAreNumbers == Sizes \subseteq Nat /\ USIZE_MAX \in Nat /\ aggregate_max_bytes \in Nat
  BY StoreAssumption

\* What a sum is, place by place.
IsSum(seq, places, sum) ==
    /\ sum \in [0..Len(seq) -> Nat]
    /\ sum[0] = 0
    /\ \A n \in 1..Len(seq) : sum[n] = sum[n - 1] + (IF n \in places THEN seq[n].retained_bytes ELSE 0)

LEMMA SumExists ==
    ASSUME NEW seq \in Seq(Records), NEW places
    PROVE  \E sum : IsSum(seq, places, sum) /\ BytesAt(seq, places) = sum[Len(seq)]
  <1> DEFINE more(n) == IF n \in places THEN seq[n].retained_bytes ELSE 0
             step == [n \in 1..Len(seq) |-> [m \in Nat |-> m + more(n)]]
             Fits(sum) == sum = [n \in 0..Len(seq) |->
                            IF n = 0 THEN 0
                            ELSE sum[n - 1] + (IF n \in places THEN seq[n].retained_bytes ELSE 0)]
  <1>1. Len(seq) \in Nat
    OBVIOUS
  <1>2. \A n \in 1..Len(seq) : seq[n].retained_bytes \in Nat
    <2>1. \A n \in 1..Len(seq) : seq[n] \in Records
      OBVIOUS
    <2>2. QED BY <2>1, SizesAreNumbers DEF Records
  <1>3. \A n \in 1..Len(seq) : more(n) \in Nat
    BY <1>2
  <1>4. step \in [1..Len(seq) -> [Nat -> Nat]]
    BY <1>3
  <1>4a. \A n \in 1..Len(seq), m \in Nat : step[n][m] = m + more(n)
    OBVIOUS
  <1> HIDE DEF step, more
  <1>5. PICK f : IsChain(f, Len(seq), Nat, 0, step)
    <2>1. CanBeChained(Len(seq), Nat, 0, step)
      BY <1>1, <1>4, Chain
    <2>2. QED BY <2>1 DEF CanBeChained
  <1>6. \A n \in 1..Len(seq) : f[n - 1] \in Nat /\ f[n] = f[n - 1] + more(n)
    BY <1>1, <1>5, <1>4a DEF IsChain
  <1> USE DEF more
  <1>7. Fits(f)
    BY <1>1, <1>5, <1>6 DEF IsChain
  <1>8. \E sum : Fits(sum)
    BY <1>7
  <1> DEFINE chosen == CHOOSE sum : Fits(sum)
  <1>9. Fits(chosen)
    BY <1>8
  <1>10. BytesAt(seq, places) = chosen[Len(seq)]
    BY DEF BytesAt
  <1> HIDE DEF chosen
  <1>11. DOMAIN chosen = 0..Len(seq) /\ chosen[0] = 0
         /\ \A n \in 1..Len(seq) : chosen[n] = chosen[n - 1] + more(n)
    BY <1>1, <1>9
  <1> DEFINE S == {n \in 0..Len(seq) : chosen[n] \in Nat}
  <1>12. 0 \in S /\ \A n \in 1..Len(seq) : n - 1 \in S => n \in S
    BY <1>1, <1>3, <1>11
  <1> HIDE DEF S
  <1>13. \A n \in 0..Len(seq) : n \in S
    BY <1>1, <1>12, Induction
  <1>14. chosen \in [0..Len(seq) -> Nat]
    BY <1>9, <1>13 DEF S
  <1>15. IsSum(seq, places, chosen)
    BY <1>11, <1>14 DEF IsSum
  <1>16. QED BY <1>10, <1>15

\* Sums over sequences and places that agree up to n agree up to n.
LEMMA SumsAgree ==
    ASSUME NEW s, NEW P, NEW f, IsSum(s, P, f), NEW t, NEW Q, NEW g, IsSum(t, Q, g),
           Len(s) \in Nat, Len(t) \in Nat,
           NEW N \in Nat, N <= Len(s), N <= Len(t),
           \A n \in 1..N : (n \in P <=> n \in Q) /\ (n \in P => s[n].retained_bytes = t[n].retained_bytes)
    PROVE  f[N] = g[N]
  <1> DEFINE S == {n \in 0..N : f[n] = g[n]}
  <1>1. 0 \in S
    BY DEF IsSum
  <1>2. ASSUME NEW n \in 1..N, n - 1 \in S PROVE n \in S
    <2>1. n \in 1..Len(s) /\ n \in 1..Len(t) /\ n \in 0..N /\ f[n - 1] = g[n - 1]
      BY <1>2
    <2>2. /\ f[n] = f[n - 1] + (IF n \in P THEN s[n].retained_bytes ELSE 0)
          /\ g[n] = g[n - 1] + (IF n \in Q THEN t[n].retained_bytes ELSE 0)
      BY <2>1 DEF IsSum
    <2>3. (IF n \in P THEN s[n].retained_bytes ELSE 0) = (IF n \in Q THEN t[n].retained_bytes ELSE 0)
      OBVIOUS
    <2>4. f[n] = g[n]
      BY <2>1, <2>2, <2>3
    <2>5. QED BY <2>1, <2>4
  <1> HIDE DEF S
  <1>3. \A n \in 0..N : n \in S
    BY <1>1, <1>2, Induction
  <1>4. N \in S
    BY <1>3
  <1>5. QED BY <1>4 DEF S

\* A sum is the sum over two parts that share no place.
LEMMA SumsAdd ==
    ASSUME NEW s \in Seq(Records), NEW P, NEW Q, NEW R,
           NEW f, IsSum(s, P, f), NEW g, IsSum(s, Q, g), NEW h, IsSum(s, R, h),
           \A n \in 1..Len(s) : (n \in P <=> n \in Q \/ n \in R) /\ ~(n \in Q /\ n \in R)
    PROVE  f[Len(s)] = g[Len(s)] + h[Len(s)]
  <1> DEFINE S == {n \in 0..Len(s) : f[n] = g[n] + h[n]}
  <1>0. Len(s) \in Nat
    OBVIOUS
  <1>1. 0 \in S
    BY <1>0 DEF IsSum
  <1>2. ASSUME NEW n \in 1..Len(s), n - 1 \in S PROVE n \in S
    <2>1. n \in 0..Len(s) /\ n - 1 \in 0..Len(s) /\ f[n - 1] = g[n - 1] + h[n - 1]
      BY <1>0, <1>2
    <2>2. /\ f[n] = f[n - 1] + (IF n \in P THEN s[n].retained_bytes ELSE 0)
          /\ g[n] = g[n - 1] + (IF n \in Q THEN s[n].retained_bytes ELSE 0)
          /\ h[n] = h[n - 1] + (IF n \in R THEN s[n].retained_bytes ELSE 0)
      BY DEF IsSum
    <2>3. g[n - 1] \in Nat /\ h[n - 1] \in Nat
      BY <2>1 DEF IsSum
    <2>4. s[n].retained_bytes \in Nat
      <3>1. s[n] \in Records
        OBVIOUS
      <3>2. QED BY <3>1, SizesAreNumbers DEF Records
    <2>5. f[n] = g[n] + h[n]
      BY <2>1, <2>2, <2>3, <2>4
    <2>6. QED BY <2>1, <2>5
  <1> HIDE DEF S
  <1>3. \A n \in 0..Len(s) : n \in S
    BY <1>0, <1>1, <1>2, Induction
  <1>4. Len(s) \in S
    BY <1>0, <1>3
  <1>5. QED BY <1>4 DEF S

LEMMA BytesAreNumbers ==
    ASSUME NEW s \in Seq(Records), NEW P
    PROVE  BytesAt(s, P) \in Nat
  <1>1. PICK f : IsSum(s, P, f) /\ BytesAt(s, P) = f[Len(s)]
    BY SumExists
  <1>2. Len(s) \in 0..Len(s)
    OBVIOUS
  <1>3. QED BY <1>1, <1>2 DEF IsSum

\* The bytes at two disjoint sets of places add up.
LEMMA BytesAdd ==
    ASSUME NEW s \in Seq(Records), NEW P, NEW Q, NEW R,
           \A n \in 1..Len(s) : (n \in P <=> n \in Q \/ n \in R) /\ ~(n \in Q /\ n \in R)
    PROVE  BytesAt(s, P) = BytesAt(s, Q) + BytesAt(s, R)
  <1>1. PICK f : IsSum(s, P, f) /\ BytesAt(s, P) = f[Len(s)]
    BY SumExists
  <1>2. PICK g : IsSum(s, Q, g) /\ BytesAt(s, Q) = g[Len(s)]
    BY SumExists
  <1>3. PICK h : IsSum(s, R, h) /\ BytesAt(s, R) = h[Len(s)]
    BY SumExists
  <1>4. QED BY <1>1, <1>2, <1>3, SumsAdd

\* More places hold at least as many bytes.
LEMMA BytesMonotone ==
    ASSUME NEW s \in Seq(Records), NEW P, NEW Q, \A n \in 1..Len(s) : n \in P => n \in Q
    PROVE  BytesAt(s, P) <= BytesAt(s, Q)
  <1> DEFINE R == Q \ P
  <1>1. BytesAt(s, Q) = BytesAt(s, P) + BytesAt(s, R)
    BY BytesAdd
  <1>2. QED BY <1>1, BytesAreNumbers

\* No place, no bytes.
LEMMA BytesNone ==
    ASSUME NEW s \in Seq(Records), NEW P, \A n \in 1..Len(s) : n \notin P
    PROVE  BytesAt(s, P) = 0
  <1>1. BytesAt(s, P) = BytesAt(s, P) + BytesAt(s, P)
    BY BytesAdd
  <1>2. QED BY <1>1, BytesAreNumbers

\* Only the places within the sequence count.
LEMMA BytesSame ==
    ASSUME NEW s \in Seq(Records), NEW P, NEW Q, \A n \in 1..Len(s) : n \in P <=> n \in Q
    PROVE  BytesAt(s, P) = BytesAt(s, Q)
  <1>1. PICK f : IsSum(s, P, f) /\ BytesAt(s, P) = f[Len(s)]
    BY SumExists
  <1>2. PICK g : IsSum(s, Q, g) /\ BytesAt(s, Q) = g[Len(s)]
    BY SumExists
  <1>3. Len(s) \in Nat
    OBVIOUS
  <1>4. QED BY <1>1, <1>2, <1>3, SumsAgree

\* A record added at the end adds its bytes.
LEMMA BytesOfAppend ==
    ASSUME NEW s \in Seq(Records), NEW r \in Records
    PROVE  Bytes(Append(s, r)) = Bytes(s) + r.retained_bytes
  <1> DEFINE t == Append(s, r)
  <1>1. t \in Seq(Records) /\ Len(t) = Len(s) + 1 /\ Len(s) \in Nat /\ t[Len(s) + 1] = r
        /\ \A n \in 1..Len(s) : t[n] = s[n]
    OBVIOUS
  <1>2. PICK f : IsSum(s, 1..Len(s), f) /\ Bytes(s) = f[Len(s)]
    BY SumExists DEF Bytes
  <1> HIDE DEF t
  <1>3. PICK g : IsSum(t, 1..Len(t), g) /\ Bytes(t) = g[Len(t)]
    BY <1>1, SumExists DEF Bytes
  <1>4. f[Len(s)] = g[Len(s)]
    BY <1>1, <1>2, <1>3, SumsAgree
  <1>5. g[Len(s) + 1] = g[Len(s) + 1 - 1] + r.retained_bytes
    BY <1>1, <1>3 DEF IsSum
  <1>6. Len(s) + 1 - 1 = Len(s)
    BY <1>1
  <1>7. QED BY <1>1, <1>2, <1>3, <1>4, <1>5, <1>6 DEF t

\* The bytes at one place are those of the record there.
LEMMA BytesOfOne ==
    ASSUME NEW s \in Seq(Records), NEW k \in 1..Len(s)
    PROVE  BytesAt(s, {k}) = s[k].retained_bytes
  <1>1. PICK f : IsSum(s, {k}, f) /\ BytesAt(s, {k}) = f[Len(s)]
    BY SumExists
  <1> DEFINE S == {n \in 0..Len(s) : f[n] = IF n < k THEN 0 ELSE s[k].retained_bytes}
  <1>2. Len(s) \in Nat /\ s[k].retained_bytes \in Nat
    <2>1. s[k] \in Records
      OBVIOUS
    <2>2. s[k].retained_bytes \in Nat
      BY <2>1, SizesAreNumbers DEF Records
    <2>3. Len(s) \in Nat
      OBVIOUS
    <2>4. QED BY <2>2, <2>3
  <1>3. 0 \in S
    BY <1>1, <1>2 DEF IsSum
  <1>4. ASSUME NEW n \in 1..Len(s), n - 1 \in S PROVE n \in S
    <2>1. f[n] = f[n - 1] + (IF n = k THEN s[k].retained_bytes ELSE 0)
      BY <1>1, <1>2 DEF IsSum
    <2>2. f[n - 1] = IF n - 1 < k THEN 0 ELSE s[k].retained_bytes
      BY <1>4
    <2>3. f[n] = IF n < k THEN 0 ELSE s[k].retained_bytes
      BY <1>2, <2>1, <2>2
    <2>4. QED BY <1>2, <2>3
  <1> HIDE DEF S
  <1>5. \A n \in 0..Len(s) : n \in S
    BY <1>2, <1>3, <1>4, Induction
  <1>6. Len(s) \in S
    BY <1>2, <1>5
  <1>7. QED BY <1>1, <1>2, <1>6 DEF S

-----------------------------------------------------------------------------
(* The records at some places *)

\* places lists the places of P within s in increasing order.
Lists(places, s, P) ==
    /\ places \in Seq(Nat)
    /\ \A i \in 1..Len(places) : places[i] \in P /\ places[i] \in 1..Len(s)
    /\ \A i, j \in 1..Len(places) : i < j => places[i] < places[j]
    /\ \A n \in 1..Len(s) : n \in P => \E i \in 1..Len(places) : places[i] = n

\* t holds the records at the places P of s in their order, and their bytes.
IsOnly(t, s, P) ==
    /\ t \in Seq(Records)
    /\ Bytes(t) = BytesAt(s, P)
    /\ \E places : /\ Lists(places, s, P)
                   /\ Len(t) = Len(places)
                   /\ \A i \in 1..Len(t) : t[i] = s[places[i]]

\* Nothing is left of no places.
LEMMA OnlyNone ==
    ASSUME NEW s \in Seq(Records), NEW P, \A n \in 1..Len(s) : n \notin P
    PROVE  IsOnly(<<>>, s, P)
  <1>1. <<>> \in Seq(Records) /\ Len(<<>>) = 0 /\ <<>> \in Seq(Nat)
    OBVIOUS
  <1>2. Bytes(<<>>) = 0
    <2>1. \A n \in 1..Len(<<>>) : n \notin {}
      OBVIOUS
    <2>2. BytesAt(<<>>, {}) = 0
      BY <1>1, <2>1, BytesNone
    <2>3. 1..Len(<<>>) = {}
      BY <1>1
    <2>4. QED BY <2>2, <2>3 DEF Bytes
  <1>3. BytesAt(s, P) = 0
    BY BytesNone
  <1>4. Lists(<<>>, s, P)
    BY <1>1 DEF Lists
  <1>5. QED BY <1>1, <1>2, <1>3, <1>4 DEF IsOnly

\* A place that is not taken changes nothing.
LEMMA OnlyPasses ==
    ASSUME NEW s \in Seq(Records), NEW P, NEW Q, NEW t, IsOnly(t, s, P),
           \A n \in 1..Len(s) : n \in P <=> n \in Q
    PROVE  IsOnly(t, s, Q)
  <1>1. BytesAt(s, P) = BytesAt(s, Q)
    BY BytesSame
  <1>2. \A places : Lists(places, s, P) => Lists(places, s, Q)
    BY DEF Lists
  <1>3. QED BY <1>1, <1>2 DEF IsOnly

\* A place behind all others adds its record at the end.
LEMMA OnlyTakes ==
    ASSUME NEW s \in Seq(Records), NEW P, NEW Q, NEW t, IsOnly(t, s, P), NEW k \in 1..Len(s),
           \A n \in 1..Len(s) : n \in P => n < k,
           \A n \in 1..Len(s) : n \in Q <=> n \in P \/ n = k
    PROVE  IsOnly(Append(t, s[k]), s, Q)
  <1>1. t \in Seq(Records) /\ s[k] \in Records /\ Len(s) \in Nat
    BY DEF IsOnly
  <1>2. Bytes(Append(t, s[k])) = BytesAt(s, Q)
    <2>1. Bytes(Append(t, s[k])) = Bytes(t) + s[k].retained_bytes
      BY <1>1, BytesOfAppend
    <2>2. BytesAt(s, Q) = BytesAt(s, P) + BytesAt(s, {k})
      BY BytesAdd
    <2>3. QED BY <2>1, <2>2, BytesOfOne DEF IsOnly
  <1>3. PICK places : /\ Lists(places, s, P)
                      /\ Len(t) = Len(places)
                      /\ \A i \in 1..Len(t) : t[i] = s[places[i]]
    BY DEF IsOnly
  <1> DEFINE more == Append(places, k)
             all == Append(t, s[k])
  <1>4. /\ more \in Seq(Nat) /\ Len(more) = Len(places) + 1 /\ Len(places) \in Nat
        /\ more[Len(places) + 1] = k
        /\ \A i \in 1..Len(places) : more[i] = places[i]
    BY <1>1, <1>3 DEF Lists
  <1>5. /\ all \in Seq(Records) /\ Len(all) = Len(t) + 1
        /\ all[Len(t) + 1] = s[k]
        /\ \A i \in 1..Len(t) : all[i] = t[i]
    BY <1>1
  <1> HIDE DEF more, all
  <1>6. Lists(more, s, Q)
    <2>0. \A i \in 1..Len(places) : places[i] \in P /\ places[i] \in 1..Len(s)
      BY <1>3 DEF Lists
    <2>1. ASSUME NEW i \in 1..Len(more) PROVE more[i] \in Q /\ more[i] \in 1..Len(s)
      <3>1. CASE i = Len(places) + 1
        BY <1>4, <3>1
      <3>2. CASE i # Len(places) + 1
        <4>1. i \in 1..Len(places)
          BY <1>4, <3>2
        <4>2. QED BY <1>4, <2>0, <4>1
      <3>3. QED BY <3>1, <3>2
    <2>2. ASSUME NEW i \in 1..Len(more), NEW j \in 1..Len(more), i < j PROVE more[i] < more[j]
      <3>1. i \in 1..Len(places) /\ more[i] = places[i] /\ places[i] < k
        BY <1>4, <2>0, <2>2
      <3>2. CASE j = Len(places) + 1
        BY <1>4, <3>1, <3>2
      <3>3. CASE j # Len(places) + 1
        <4>1. j \in 1..Len(places) /\ more[j] = places[j]
          BY <1>4, <3>3
        <4>2. QED BY <1>3, <2>2, <3>1, <4>1 DEF Lists
      <3>4. QED BY <3>2, <3>3
    <2>3. \A n \in 1..Len(s) : n \in Q => \E i \in 1..Len(more) : more[i] = n
      <3>1. SUFFICES ASSUME NEW n \in 1..Len(s), n \in Q PROVE \E i \in 1..Len(more) : more[i] = n
        OBVIOUS
      <3>2. CASE n = k
        BY <1>4, <3>2
      <3>3. CASE n # k
        <4>1. PICK i \in 1..Len(places) : places[i] = n
          BY <1>3, <3>1, <3>3 DEF Lists
        <4>2. i \in 1..Len(more) /\ more[i] = n
          BY <1>4, <4>1
        <4>3. QED BY <4>2
      <3>4. QED BY <3>2, <3>3
    <2>4. QED BY <1>4, <2>1, <2>2, <2>3 DEF Lists
  <1>7. Len(all) = Len(more) /\ \A i \in 1..Len(all) : all[i] = s[more[i]]
    <2>1. Len(all) = Len(more)
      BY <1>3, <1>4, <1>5
    <2>2. ASSUME NEW i \in 1..Len(all) PROVE all[i] = s[more[i]]
      <3>1. CASE i = Len(t) + 1
        BY <1>3, <1>4, <1>5, <3>1
      <3>2. CASE i # Len(t) + 1
        <4>1. i \in 1..Len(t) /\ i \in 1..Len(places)
          BY <1>3, <1>4, <1>5, <3>2
        <4>2. QED BY <1>3, <1>4, <1>5, <4>1
      <3>3. QED BY <3>1, <3>2
    <2>3. QED BY <2>1, <2>2
  <1>8. IsOnly(all, s, Q)
    BY <1>2, <1>5, <1>6, <1>7 DEF IsOnly, all
  <1>9. QED BY <1>8 DEF all

\* What Only returns.
LEMMA OnlyIsOnly ==
    ASSUME NEW s \in Seq(Records), NEW P
    PROVE  IsOnly(Only(s, P), s, P)
  <1> DEFINE V == Seq(Records)
             step == [n \in 1..Len(s) |-> [t \in V |-> IF n \in P THEN Append(t, s[n]) ELSE t]]
             next(left, n) == IF n = 0 THEN <<>>
                              ELSE IF n \in P THEN Append(left[n - 1], s[n]) ELSE left[n - 1]
             Fits(left) == left = [n \in 0..Len(s) |-> next(left, n)]
  <1>1. Len(s) \in Nat /\ <<>> \in V
    OBVIOUS
  <1>2. step \in [1..Len(s) -> [V -> V]]
    <2>1. \A n \in 1..Len(s) : s[n] \in Records
      OBVIOUS
    <2>2. \A n \in 1..Len(s), t \in V : (IF n \in P THEN Append(t, s[n]) ELSE t) \in V
      BY <2>1
    <2> HIDE DEF V
    <2>3. QED BY <2>2
  <1>3. \A n \in 1..Len(s), t \in V : step[n][t] = IF n \in P THEN Append(t, s[n]) ELSE t
    OBVIOUS
  <1> HIDE DEF step, V
  <1>4. PICK f : IsChain(f, Len(s), V, <<>>, step)
    <2>1. CanBeChained(Len(s), V, <<>>, step)
      BY <1>1, <1>2, Chain
    <2>2. QED BY <2>1 DEF CanBeChained
  <1>5. \A n \in 1..Len(s) : f[n - 1] \in V /\ f[n] = IF n \in P THEN Append(f[n - 1], s[n]) ELSE f[n - 1]
    BY <1>1, <1>3, <1>4 DEF IsChain
  <1>6. Fits(f)
    <2>1. ASSUME NEW n \in 0..Len(s) PROVE f[n] = next(f, n)
      <3>1. CASE n = 0
        BY <1>4, <3>1 DEF IsChain
      <3>2. CASE n # 0
        <4>1. n \in 1..Len(s)
          BY <1>1, <3>2
        <4>2. QED BY <1>5, <3>2, <4>1
      <3>3. QED BY <3>1, <3>2
    <2>2. f \in [0..Len(s) -> V]
      BY <1>4 DEF IsChain
    <2> HIDE DEF next
    <2>3. QED BY <2>1, <2>2
  <1>7. \E left : Fits(left)
    BY <1>6
  <1> DEFINE chosen == CHOOSE left : Fits(left)
  <1>8. Fits(chosen)
    BY <1>7
  <1>9. Only(s, P) = chosen[Len(s)]
    BY DEF Only
  <1> HIDE DEF chosen
  <1>10. chosen[0] = <<>>
         /\ \A n \in 1..Len(s) : chosen[n] = IF n \in P THEN Append(chosen[n - 1], s[n]) ELSE chosen[n - 1]
    <2> HIDE DEF next
    <2>1. \A n \in 0..Len(s) : chosen[n] = next(chosen, n)
      BY <1>8
    <2> USE DEF next
    <2>2. QED BY <1>1, <2>1
  <1> HIDE DEF Fits, next
  <1> DEFINE upTo(n) == {k \in P : k <= n /\ k \in Nat}
             S == {n \in 0..Len(s) : IsOnly(chosen[n], s, upTo(n))}
  <1>11. 0 \in S
    <2>1. \A n \in 1..Len(s) : n \notin upTo(0)
      BY <1>1
    <2>2. QED BY <1>1, <1>10, <2>1, OnlyNone
  <1>12. ASSUME NEW n \in 1..Len(s), n - 1 \in S PROVE n \in S
    <2>1. IsOnly(chosen[n - 1], s, upTo(n - 1)) /\ n \in 0..Len(s)
      BY <1>1, <1>12
    <2>2. CASE n \in P
      <3>1. \A k \in 1..Len(s) : k \in upTo(n - 1) => k < n
        BY <1>1
      <3>2. \A k \in 1..Len(s) : k \in upTo(n) <=> k \in upTo(n - 1) \/ k = n
        BY <1>1, <2>2
      <3> HIDE DEF upTo
      <3>3. IsOnly(Append(chosen[n - 1], s[n]), s, upTo(n))
        BY <2>1, <3>1, <3>2, OnlyTakes
      <3>4. QED BY <1>10, <2>1, <2>2, <3>3
    <2>3. CASE n \notin P
      <3>1. \A k \in 1..Len(s) : k \in upTo(n - 1) <=> k \in upTo(n)
        BY <1>1, <2>3
      <3> HIDE DEF upTo
      <3>2. IsOnly(chosen[n - 1], s, upTo(n))
        BY <2>1, <3>1, OnlyPasses
      <3>3. QED BY <1>10, <2>1, <2>3, <3>2
    <2>4. QED BY <2>2, <2>3
  <1> HIDE DEF S
  <1>13. \A n \in 0..Len(s) : n \in S
    BY <1>1, <1>11, <1>12, Induction
  <1>14. IsOnly(chosen[Len(s)], s, upTo(Len(s)))
    <2>1. Len(s) \in S
      BY <1>1, <1>13
    <2>2. QED BY <2>1 DEF S
  <1>15. \A k \in 1..Len(s) : k \in upTo(Len(s)) <=> k \in P
    BY <1>1
  <1> HIDE DEF upTo
  <1>16. IsOnly(chosen[Len(s)], s, P)
    BY <1>14, <1>15, OnlyPasses
  <1>17. QED BY <1>9, <1>16

\* Only keeps the order and brings nothing in.
LEMMA OnlyHolds ==
    ASSUME NEW s \in Seq(Records), NEW P, NEW record
    PROVE  Holds(Only(s, P), record) <=> \E n \in 1..Len(s) : n \in P /\ s[n] = record
  <1> DEFINE t == Only(s, P)
  <1>1. IsOnly(t, s, P)
    BY OnlyIsOnly
  <1> HIDE DEF t
  <1>2. PICK places : /\ Lists(places, s, P)
                      /\ Len(t) = Len(places)
                      /\ \A i \in 1..Len(t) : t[i] = s[places[i]]
    BY <1>1 DEF IsOnly
  <1>3. ASSUME Holds(t, record) PROVE \E n \in 1..Len(s) : n \in P /\ s[n] = record
    <2>1. PICK i \in 1..Len(t) : t[i] = record
      BY <1>3 DEF Holds
    <2>2. places[i] \in 1..Len(s) /\ places[i] \in P /\ s[places[i]] = record
      BY <1>2, <2>1 DEF Lists
    <2>3. QED BY <2>2
  <1>4. ASSUME NEW n \in 1..Len(s), n \in P, s[n] = record PROVE Holds(t, record)
    <2>1. PICK i \in 1..Len(places) : places[i] = n
      BY <1>2, <1>4 DEF Lists
    <2>2. i \in 1..Len(t) /\ t[i] = record
      BY <1>2, <1>4, <2>1
    <2>3. QED BY <2>2 DEF Holds
  <1>5. QED BY <1>3, <1>4 DEF t

LEMMA OnlyKeeps ==
    ASSUME NEW s \in Seq(Records), NEW P
    PROVE  /\ Only(s, P) \in Seq(Records)
           /\ Bytes(Only(s, P)) = BytesAt(s, P)
           /\ (\A i, j \in 1..Len(s) : i <= j => s[i].created_at <= s[j].created_at)
                => \A i, j \in 1..Len(Only(s, P)) :
                     i <= j => Only(s, P)[i].created_at <= Only(s, P)[j].created_at
           /\ (\A i, j \in 1..Len(s) : s[i].key = s[j].key => i = j)
                => \A i, j \in 1..Len(Only(s, P)) : Only(s, P)[i].key = Only(s, P)[j].key => i = j
           /\ \A i \in 1..Len(Only(s, P)) : \E n \in 1..Len(s) : n \in P /\ Only(s, P)[i] = s[n]
  <1> DEFINE t == Only(s, P)
  <1>1. IsOnly(t, s, P)
    BY OnlyIsOnly
  <1> HIDE DEF t
  <1>2. PICK places : /\ Lists(places, s, P)
                      /\ Len(t) = Len(places)
                      /\ \A i \in 1..Len(t) : t[i] = s[places[i]]
    BY <1>1 DEF IsOnly
  <1>3. Len(t) \in Nat /\ Len(s) \in Nat
    BY <1>1 DEF IsOnly
  <1>4. \A i \in 1..Len(t) : places[i] \in 1..Len(s) /\ places[i] \in P /\ t[i] = s[places[i]]
    BY <1>2 DEF Lists
  <1>5. \A i, j \in 1..Len(t) : i < j => places[i] < places[j]
    BY <1>2 DEF Lists
  <1>6. ASSUME \A i, j \in 1..Len(s) : i <= j => s[i].created_at <= s[j].created_at
        PROVE  \A i, j \in 1..Len(t) : i <= j => t[i].created_at <= t[j].created_at
    <2>1. SUFFICES ASSUME NEW i \in 1..Len(t), NEW j \in 1..Len(t), i <= j
                   PROVE  t[i].created_at <= t[j].created_at
      OBVIOUS
    <2>2. places[i] <= places[j]
      <3>1. CASE i = j
        BY <1>3, <1>4, <3>1
      <3>2. CASE i < j
        BY <1>3, <1>4, <1>5, <3>2
      <3>3. QED BY <1>3, <2>1, <3>1, <3>2
    <2>3. QED BY <1>4, <1>6, <2>2
  <1>7. ASSUME \A i, j \in 1..Len(s) : s[i].key = s[j].key => i = j
        PROVE  \A i, j \in 1..Len(t) : t[i].key = t[j].key => i = j
    <2>1. SUFFICES ASSUME NEW i \in 1..Len(t), NEW j \in 1..Len(t), t[i].key = t[j].key
                   PROVE  i = j
      OBVIOUS
    <2>2. places[i] = places[j]
      BY <1>4, <1>7, <2>1
    <2>3. ~(i < j) /\ ~(j < i)
      BY <1>3, <1>4, <1>5, <2>2
    <2>4. QED BY <1>3, <2>3
  <1>8. \A i \in 1..Len(t) : \E n \in 1..Len(s) : n \in P /\ t[i] = s[n]
    BY <1>4
  <1>9. t \in Seq(Records) /\ Bytes(t) = BytesAt(s, P)
    BY <1>1 DEF IsOnly
  <1>10. QED BY <1>6, <1>7, <1>8, <1>9 DEF t

-----------------------------------------------------------------------------
(* The loops *)

LEMMA MinFacts ==
    ASSUME NEW S, S \subseteq Nat, S # {}
    PROVE  Min(S) \in S /\ \A n \in S : Min(S) <= n
  <1>1. \E n \in S : \A m \in S : n <= m
    BY Least
  <1>2. QED BY <1>1 DEF Min

\* A loop that may stop from some place on has not stopped before i just if it could not
\* stop at the place before i.
LEMMA LoopStops ==
    ASSUME NEW N \in Nat, NEW stops, stops \subseteq 0..N, stops # {},
           \A m, n \in 0..N : m \in stops /\ m <= n => n \in stops,
           NEW i \in 1..N
    PROVE  i > Min(stops) <=> i - 1 \in stops
  <1>0. stops \subseteq Nat
    OBVIOUS
  <1>1. Min(stops) \in stops /\ \A n \in stops : Min(stops) <= n
    BY <1>0, MinFacts
  <1>2. Min(stops) \in 0..N /\ i - 1 \in 0..N
    <2>1. Min(stops) \in 0..N
      BY <1>1, Zenon
    <2>2. i - 1 \in 0..N
      OBVIOUS
    <2>3. QED BY <2>1, <2>2
  <1>3. QED BY <1>1, <1>2

LEMMA UsizeSmall == \A n \in 0..USIZE_MAX : Usize(n) = n
  BY SizesAreNumbers DEF Usize

LEMMA UsizeWraps == \A n \in Int : Usize(n) \in 0..USIZE_MAX
  BY SizesAreNumbers DEF Usize

-----------------------------------------------------------------------------
(* Inserting                                                                *)

LEMMA Deque ==
    ASSUME TypeOK
    PROVE  /\ records \in Seq(Records) /\ Len(records) \in Nat
           /\ \A i \in Places : records[i] \in Records
           /\ retained_bytes \in 0..USIZE_MAX /\ reference_bytes \in 0..USIZE_MAX
  BY DEF TypeOK, Places

LEMMA Alives == Alive \subseteq Places
  BY DEF Alive

LEMMA ClassLoopKeeps == \A c : AfterClassLoop(c) \subseteq Alive
  BY DEF AfterClassLoop

LEMMA AggregateLoopKeeps == \A c, fixed_bytes : AfterAggregateLoop(c, fixed_bytes) \subseteq Places
  BY Alives, ClassLoopKeeps DEF AfterAggregateLoop

\* What is known of an insert's sizes once the checks have passed.
LEMMA Accepted ==
    ASSUME BooksBalance, NEW c \in Candidates, NEW fixed_bytes \in 0..USIZE_MAX, Verdict(c, fixed_bytes) = "Ok"
    PROVE  /\ c.retained_bytes \in Nat /\ fixed_bytes \in Nat /\ fixed_bytes <= USIZE_MAX
           /\ c.policy.max_bytes \in 0..USIZE_MAX /\ c.policy.max_records \in Nat \ {0}
           /\ c.policy.ttl \in Nat
           /\ c.retained_bytes <= c.policy.max_bytes
           /\ fixed_bytes + c.retained_bytes <= aggregate_max_bytes
           /\ ~\E i \in 1..Len(records) : records[i].key = c.key
  <1>1. /\ c.retained_bytes \in Sizes /\ c.policy \in Policies
    BY DEF Candidates
  <1>2. c.policy \in [ttl : Nat, max_records : Nat, max_bytes : 0..USIZE_MAX] /\ USIZE_MAX \in Nat
    BY <1>1, StoreAssumption
  <1>3. c.retained_bytes \in 0..USIZE_MAX
    BY <1>1, StoreAssumption
  <1>4. /\ ~\E i \in 1..Len(records) : records[i].key = c.key
        /\ c.policy.max_records # 0
        /\ ~(c.retained_bytes > c.policy.max_bytes)
        /\ ~(fixed_bytes + c.retained_bytes > aggregate_max_bytes)
    <2>1. (\E i \in 1..Len(records) : records[i].key = c.key) => Verdict(c, fixed_bytes) = "DuplicateKey"
      BY DEF Verdict
    <2>2. QED BY <2>1 DEF Verdict
  <1>5. QED BY <1>2, <1>3, <1>4, SizesAreNumbers

\* The room beside the references is computed without wrapping.
LEMMA RoomIsExact ==
    ASSUME BooksBalance, NEW c \in Candidates, NEW fixed_bytes \in 0..USIZE_MAX, Verdict(c, fixed_bytes) = "Ok"
    PROVE  /\ Room(c, fixed_bytes) = aggregate_max_bytes - fixed_bytes - c.retained_bytes
           /\ Room(c, fixed_bytes) \in Nat
  <1>1. aggregate_max_bytes - fixed_bytes \in 0..USIZE_MAX
    BY Accepted, StoreAssumption
  <1>2. aggregate_max_bytes - fixed_bytes - c.retained_bytes \in 0..USIZE_MAX
    BY Accepted, StoreAssumption
  <1>3. Usize(aggregate_max_bytes - fixed_bytes) = aggregate_max_bytes - fixed_bytes
    BY <1>1, UsizeSmall
  <1>4. QED BY <1>2, <1>3, UsizeSmall DEF Room

\* At each place the second loop knows the bytes that it still keeps exactly.
LEMMA BytesLeft ==
    ASSUME BooksBalance, NEW kept, NEW n \in 0..Len(records)
    PROVE  /\ Usize(retained_bytes - BytesAt(records, {i \in Places : i \in kept => i <= n}))
                = BytesAt(records, {i \in kept : i > n})
           /\ BytesAt(records, {i \in kept : i > n}) \in 0..USIZE_MAX
  <1> DEFINE gone == {i \in Places : i \in kept => i <= n}
             left == {i \in kept : i > n}
  <1>1. retained_bytes = BytesAt(records, Places) /\ retained_bytes \in 0..USIZE_MAX
        /\ records \in Seq(Records) /\ Len(records) \in Nat
    BY Deque DEF BooksBalance, AccountingExact, Bytes, Places
  <1>2. \A i \in 1..Len(records) : (i \in Places <=> i \in gone \/ i \in left) /\ ~(i \in gone /\ i \in left)
    BY <1>1 DEF Places
  <1> HIDE DEF gone, left
  <1>3. BytesAt(records, Places) = BytesAt(records, gone) + BytesAt(records, left)
    BY <1>1, <1>2, BytesAdd
  <1>4. BytesAt(records, gone) \in Nat /\ BytesAt(records, left) \in Nat
    BY <1>1, BytesAreNumbers
  <1>5. retained_bytes - BytesAt(records, gone) = BytesAt(records, left)
        /\ BytesAt(records, left) \in 0..USIZE_MAX
    BY <1>1, <1>3, <1>4, SizesAreNumbers
  <1>6. Usize(retained_bytes - BytesAt(records, gone)) = BytesAt(records, left)
    BY <1>5, UsizeSmall
  <1>7. QED BY <1>5, <1>6 DEF gone, left

\* The second loop leaves what fits beside the new record and the references, and stops.
LEMMA AggregateLoopFacts ==
    ASSUME BooksBalance, NEW c \in Candidates, NEW fixed_bytes \in 0..USIZE_MAX, Verdict(c, fixed_bytes) = "Ok"
    PROVE  /\ BytesAt(records, AfterAggregateLoop(c, fixed_bytes)) <= Room(c, fixed_bytes)
           /\ \A i \in Places :
                i \in AfterAggregateLoop(c, fixed_bytes) <=>
                  i \in AfterClassLoop(c) /\ BytesAt(records, {j \in AfterClassLoop(c) : j >= i}) <= Room(c, fixed_bytes)
  <1> DEFINE kept == AfterClassLoop(c)
             left(n) == BytesAt(records, {j \in kept : j > n})
             BytesAfter(n) == Usize(retained_bytes - BytesAt(records, {i \in Places : i \in kept => i <= n}))
             room == Room(c, fixed_bytes)
             stops == {n \in 0..Len(records) : BytesAfter(n) <= room}
  <1>1. records \in Seq(Records) /\ Len(records) \in Nat /\ kept \subseteq 1..Len(records)
    BY Deque, Alives, ClassLoopKeeps DEF BooksBalance, Places
  <1>2. AfterAggregateLoop(c, fixed_bytes) = {i \in kept : i > Min(stops)}
    BY DEF AfterAggregateLoop
  <1>3. room \in Nat
    BY RoomIsExact
  <1> HIDE DEF kept, room
  <1>4. \A n \in 0..Len(records) : BytesAfter(n) = left(n) /\ left(n) \in Nat
    <2>1. ASSUME NEW n \in 0..Len(records) PROVE BytesAfter(n) = left(n) /\ left(n) \in 0..USIZE_MAX
      BY BytesLeft
    <2> HIDE DEF BytesAfter, left
    <2>2. QED BY <2>1
  <1> HIDE DEF BytesAfter
  <1>5. \A n \in 0..Len(records) : n \in stops <=> left(n) <= room
    BY <1>4
  <1>6. Len(records) \in stops
    <2>1. left(Len(records)) = 0
      <3>1. \A n \in 1..Len(records) : n \notin {j \in kept : j > Len(records)}
        BY <1>1
      <3>2. QED BY <1>1, <3>1, BytesNone
    <2>2. QED BY <1>1, <1>3, <1>5, <2>1
  <1>7. ASSUME NEW m \in 0..Len(records), NEW n \in 0..Len(records), m \in stops, m <= n PROVE n \in stops
    <2>1. \A k \in 1..Len(records) : k \in {j \in kept : j > n} => k \in {j \in kept : j > m}
      BY <1>1, <1>7
    <2>2. left(n) <= left(m)
      BY <1>1, <2>1, BytesMonotone
    <2> HIDE DEF left
    <2>3. QED BY <1>3, <1>4, <1>5, <1>7, <2>2
  <1>8. stops \subseteq 0..Len(records)
    OBVIOUS
  <1> HIDE DEF stops
  <1>9. Min(stops) \in stops
    <2>1. stops \subseteq Nat /\ stops # {}
      BY <1>6, <1>8
    <2>2. QED BY <2>1, MinFacts
  <1>10. left(Min(stops)) <= room
    BY <1>5, <1>8, <1>9
  <1>11. ASSUME NEW i \in 1..Len(records) PROVE i > Min(stops) <=> i - 1 \in stops
    BY <1>1, <1>6, <1>7, <1>8, LoopStops
  <1>12. ASSUME NEW i \in 1..Len(records)
         PROVE  i - 1 \in stops <=> BytesAt(records, {j \in kept : j >= i}) <= room
    <2>1. {j \in kept : j > i - 1} = {j \in kept : j >= i}
      <3>1. \A j \in kept : j > i - 1 <=> j >= i
        BY <1>1
      <3>2. QED BY <3>1
    <2>2. left(i - 1) = BytesAt(records, {j \in kept : j >= i})
      BY <2>1
    <2>3. i - 1 \in 0..Len(records)
      BY <1>1
    <2> HIDE DEF left
    <2>4. QED BY <1>5, <2>2, <2>3
  <1>13. QED BY <1>1, <1>2, <1>10, <1>11, <1>12 DEF kept, room, Places

\* The first loop leaves of the class what fits beside the new record, and stops.
LEMMA ClassLoopFacts ==
    ASSUME BooksBalance, NEW c \in Candidates, NEW fixed_bytes \in 0..USIZE_MAX, Verdict(c, fixed_bytes) = "Ok"
    PROVE  \A i \in Places :
             i \in AfterClassLoop(c) <=>
               /\ i \in Alive
               /\ records[i].class = c.class =>
                    LET mine == {j \in Alive : j >= i /\ records[j].class = c.class} IN
                      /\ Cardinality(mine) < c.policy.max_records
                      /\ BytesAt(records, mine) + c.retained_bytes <= c.policy.max_bytes
  <1> DEFINE mine == OfClass(Alive, c.class)
             after(n) == {i \in mine : i > n}
             stops == {n \in 0..Len(records) : ~ClassOverfull(after(n), c)}
             Fits(places) == /\ Cardinality(places) < c.policy.max_records
                             /\ BytesAt(records, places) + c.retained_bytes <= c.policy.max_bytes
  <1>1. records \in Seq(Records) /\ Len(records) \in Nat /\ Alive \subseteq 1..Len(records)
        /\ mine \subseteq 1..Len(records)
    BY Deque, Alives DEF BooksBalance, Places, OfClass
  <1>2. \A i : i \in mine <=> i \in Alive /\ records[i].class = c.class
    BY DEF OfClass
  <1>3. AfterClassLoop(c) = {i \in Alive : i \in mine => i > Min(stops)}
    BY DEF AfterClassLoop
  <1> HIDE DEF mine
  <1>4. /\ c.policy.max_bytes - c.retained_bytes \in 0..USIZE_MAX
        /\ c.policy.max_bytes \in Nat /\ c.retained_bytes \in Nat /\ c.policy.max_records \in Nat \ {0}
    <2>1. /\ c.retained_bytes \in Nat
          /\ c.policy.max_bytes \in 0..USIZE_MAX /\ c.policy.max_records \in Nat \ {0}
          /\ c.retained_bytes <= c.policy.max_bytes
      BY Accepted
    <2>2. QED BY <2>1, SizesAreNumbers
  <1>5. \A n \in 0..Len(records) : IsFiniteSet(after(n)) /\ Cardinality(after(n)) \in Nat
                                   /\ BytesAt(records, after(n)) \in Nat
    <2>1. SUFFICES ASSUME NEW n \in 0..Len(records)
                   PROVE  IsFiniteSet(after(n)) /\ Cardinality(after(n)) \in Nat
                          /\ BytesAt(records, after(n)) \in Nat
      OBVIOUS
    <2>2. after(n) \subseteq 1..Len(records)
      BY <1>1
    <2> HIDE DEF after
    <2>3. IsFiniteSet(1..Len(records))
      BY <1>1, FS_Interval
    <2>4. IsFiniteSet(after(n))
      BY <2>2, <2>3, FS_Subset
    <2>5. QED BY <1>1, <2>4, FS_CardinalityType, BytesAreNumbers
  <1> HIDE DEF after
  <1>6. \A n \in 0..Len(records) : n \in stops <=> Fits(after(n))
    <2>1. Usize(c.policy.max_bytes - c.retained_bytes) = c.policy.max_bytes - c.retained_bytes
      BY <1>4, UsizeSmall
    <2>2. QED BY <1>4, <1>5, <2>1 DEF ClassOverfull
  <1>7. Len(records) \in stops
    <2>1. after(Len(records)) = {}
      <3>1. \A i \in mine : ~(i > Len(records))
        BY <1>1
      <3>2. QED BY <3>1 DEF after
    <2>2. Cardinality({}) = 0
      BY FS_EmptySet
    <2>3. BytesAt(records, {}) = 0
      BY <1>1, BytesNone
    <2>4. Fits({})
      BY <1>4, <2>2, <2>3, Accepted
    <2>5. Len(records) \in 0..Len(records)
      BY <1>1
    <2> HIDE DEF Fits, stops
    <2>6. QED BY <1>6, <2>1, <2>4, <2>5
  <1>8. ASSUME NEW m \in 0..Len(records), NEW n \in 0..Len(records), m \in stops, m <= n PROVE n \in stops
    <2>1. after(n) \subseteq after(m)
      <3>1. \A i \in mine : i > n => i > m
        BY <1>1, <1>8
      <3>2. QED BY <3>1 DEF after
    <2>2. BytesAt(records, after(n)) <= BytesAt(records, after(m))
      BY <1>1, <2>1, BytesMonotone
    <2>3. Cardinality(after(n)) <= Cardinality(after(m))
      BY <1>5, <2>1, FS_Subset
    <2>4. Fits(after(m))
      BY <1>6, <1>8
    <2>5. Fits(after(n))
      <3>1. /\ Cardinality(after(m)) \in Nat /\ Cardinality(after(n)) \in Nat
            /\ BytesAt(records, after(m)) \in Nat /\ BytesAt(records, after(n)) \in Nat
        BY <1>5
      <3>2. Cardinality(after(n)) < c.policy.max_records
        BY <1>4, <2>3, <2>4, <3>1
      <3>3. BytesAt(records, after(n)) + c.retained_bytes <= c.policy.max_bytes
        BY <1>4, <2>2, <2>4, <3>1
      <3>4. QED BY <3>2, <3>3
    <2>6. QED BY <1>6, <2>5
  <1>9. stops \subseteq 0..Len(records)
    OBVIOUS
  <1> HIDE DEF stops, Fits
  <1>10. ASSUME NEW i \in 1..Len(records) PROVE i > Min(stops) <=> i - 1 \in stops
    BY <1>1, <1>7, <1>8, <1>9, LoopStops
  <1>11. ASSUME NEW i \in 1..Len(records)
         PROVE  i - 1 \in stops <=> Fits({j \in Alive : j >= i /\ records[j].class = c.class})
    <2>1. after(i - 1) = {j \in Alive : j >= i /\ records[j].class = c.class}
      <3>1. \A j \in 1..Len(records) : j > i - 1 <=> j >= i
        BY <1>1
      <3>2. QED BY <1>1, <1>2, <3>1 DEF after
    <2>2. i - 1 \in 0..Len(records)
      BY <1>1
    <2>3. QED BY <1>6, <2>1, <2>2
  <1>12. QED BY <1>1, <1>2, <1>3, <1>10, <1>11 DEF Places, Fits

-----------------------------------------------------------------------------
(* The books balance                                                        *)

\* Records that go leave the others in their order and the counter with their bytes.
LEMMA Removal ==
    ASSUME BooksBalance, NEW kept, kept \subseteq Places
    PROVE  /\ BytesAt(records, kept) \in 0..USIZE_MAX
           /\ retained_bytes - BytesAt(records, Places \ kept) = BytesAt(records, kept)
           /\ BytesAt(records, kept) <= retained_bytes
  <1> DEFINE gone == Places \ kept
  <1>1. retained_bytes = BytesAt(records, Places) /\ retained_bytes \in 0..USIZE_MAX
        /\ records \in Seq(Records)
    BY Deque DEF BooksBalance, AccountingExact, Bytes, Places
  <1>2. \A i \in 1..Len(records) : (i \in Places <=> i \in gone \/ i \in kept) /\ ~(i \in gone /\ i \in kept)
    OBVIOUS
  <1> HIDE DEF gone
  <1>3. BytesAt(records, Places) = BytesAt(records, gone) + BytesAt(records, kept)
    BY <1>1, <1>2, BytesAdd
  <1>4. BytesAt(records, gone) \in Nat /\ BytesAt(records, kept) \in Nat
    BY <1>1, BytesAreNumbers
  <1>5. QED BY <1>1, <1>3, <1>4, SizesAreNumbers DEF gone

LEMMA InsertBalances ==
    ASSUME BooksBalance, NEW c \in Candidates, NEW fixed_bytes \in Sizes, Insert(c, fixed_bytes)
    PROVE  BooksBalance'
  <1> DEFINE kept == AfterAggregateLoop(c, fixed_bytes)
             left == Only(records, kept)
  <1>0. Verdict(c, fixed_bytes) = "Ok" /\ fixed_bytes \in 0..USIZE_MAX
    BY StoreAssumption DEF Insert
  <1>1. /\ records' = Append(left, Retained(c))
        /\ retained_bytes' = Usize(retained_bytes - BytesAt(records, Places \ kept) + c.retained_bytes)
        /\ reference_bytes' = fixed_bytes /\ now' = now
    BY DEF Insert
  <1>2. kept \subseteq Places
    BY AggregateLoopKeeps
  <1>3. /\ c.retained_bytes \in Nat /\ c.policy.ttl \in Nat /\ fixed_bytes \in Nat
        /\ fixed_bytes + c.retained_bytes <= aggregate_max_bytes
        /\ ~\E i \in 1..Len(records) : records[i].key = c.key
    BY <1>0, Accepted
  <1>4. BytesAt(records, kept) <= aggregate_max_bytes - fixed_bytes - c.retained_bytes
    BY <1>0, AggregateLoopFacts, RoomIsExact
  <1> HIDE DEF kept
  <1>5. /\ records \in Seq(Records) /\ Len(records) \in Nat /\ now \in 0..MAX_NOW /\ MAX_NOW \in Nat
        /\ \A i, j \in 1..Len(records) : i <= j => records[i].created_at <= records[j].created_at
        /\ \A i \in 1..Len(records) : records[i].created_at <= now
        /\ \A i, j \in 1..Len(records) : records[i].key = records[j].key => i = j
    BY Deque, StoreAssumption DEF BooksBalance, TypeOK, AccountingExact
  <1>6. /\ left \in Seq(Records) /\ Bytes(left) = BytesAt(records, kept)
        /\ \A i, j \in 1..Len(left) : i <= j => left[i].created_at <= left[j].created_at
        /\ \A i, j \in 1..Len(left) : left[i].key = left[j].key => i = j
        /\ \A i \in 1..Len(left) : \E n \in 1..Len(records) : n \in kept /\ left[i] = records[n]
    <2>1. left \in Seq(Records) /\ Bytes(left) = BytesAt(records, kept)
      BY <1>5, OnlyKeeps
    <2>2. \A i, j \in 1..Len(left) : i <= j => left[i].created_at <= left[j].created_at
      BY <1>5, OnlyKeeps
    <2>3. \A i, j \in 1..Len(left) : left[i].key = left[j].key => i = j
      BY <1>5, OnlyKeeps
    <2>4. \A i \in 1..Len(left) : \E n \in 1..Len(records) : n \in kept /\ left[i] = records[n]
      BY <1>5, OnlyKeeps
    <2>5. QED BY <2>1, <2>2, <2>3, <2>4
  <1> HIDE DEF left
  <1>7. Retained(c) \in Records /\ Retained(c).created_at = now /\ Retained(c).key = c.key
        /\ Retained(c).retained_bytes = c.retained_bytes
    BY <1>3, <1>5 DEF Retained, Records, Candidates
  <1>8. /\ records' \in Seq(Records) /\ Len(left) \in Nat /\ Len(records') = Len(left) + 1
        /\ records'[Len(left) + 1] = Retained(c)
        /\ \A i \in 1..Len(left) : records'[i] = left[i]
    BY <1>1, <1>6, <1>7
  <1>9. \A i \in 1..Len(left) : left[i].created_at <= now /\ left[i].key # c.key /\ left[i] \in Records
    BY <1>3, <1>5, <1>6
  <1>10. \A i, j \in 1..Len(records') : i <= j => records'[i].created_at <= records'[j].created_at
    <2>1. SUFFICES ASSUME NEW i \in 1..Len(records'), NEW j \in 1..Len(records'), i <= j
                   PROVE  records'[i].created_at <= records'[j].created_at
      OBVIOUS
    <2>2. CASE j = Len(left) + 1
      <3>1. CASE i = Len(left) + 1
        BY <1>5, <1>7, <1>8, <2>2, <3>1
      <3>2. CASE i # Len(left) + 1
        <4>1. i \in 1..Len(left)
          BY <1>8, <3>2
        <4>2. QED BY <1>7, <1>8, <1>9, <2>2, <4>1
      <3>3. QED BY <3>1, <3>2
    <2>3. CASE j # Len(left) + 1
      <3>1. i \in 1..Len(left) /\ j \in 1..Len(left)
        BY <1>8, <2>1, <2>3
      <3>2. QED BY <1>6, <1>8, <2>1, <3>1
    <2>4. QED BY <2>2, <2>3
  <1>11. \A i \in 1..Len(records') : records'[i].created_at <= now'
    <2>1. SUFFICES ASSUME NEW i \in 1..Len(records') PROVE records'[i].created_at <= now
      BY <1>1
    <2>2. CASE i = Len(left) + 1
      BY <1>5, <1>7, <1>8, <2>2
    <2>3. CASE i # Len(left) + 1
      <3>1. i \in 1..Len(left)
        BY <1>8, <2>3
      <3>2. QED BY <1>8, <1>9, <3>1
    <2>4. QED BY <2>2, <2>3
  <1>12. \A i, j \in 1..Len(records') : records'[i].key = records'[j].key => i = j
    <2>1. SUFFICES ASSUME NEW i \in 1..Len(records'), NEW j \in 1..Len(records'),
                          records'[i].key = records'[j].key
                   PROVE  i = j
      OBVIOUS
    <2>2. \A k \in 1..Len(records') : k = Len(left) + 1 \/ k \in 1..Len(left)
      BY <1>8
    <2>3. CASE i = Len(left) + 1 /\ j = Len(left) + 1
      BY <2>3
    <2>4. CASE i = Len(left) + 1 /\ j \in 1..Len(left)
      BY <1>7, <1>8, <1>9, <2>1, <2>4
    <2>5. CASE i \in 1..Len(left) /\ j = Len(left) + 1
      BY <1>7, <1>8, <1>9, <2>1, <2>5
    <2>6. CASE i \in 1..Len(left) /\ j \in 1..Len(left)
      BY <1>6, <1>8, <2>1, <2>6
    <2>7. QED BY <2>2, <2>3, <2>4, <2>5, <2>6
  <1>13. retained_bytes - BytesAt(records, Places \ kept) = BytesAt(records, kept)
         /\ BytesAt(records, kept) \in Nat
    BY <1>2, <1>5, Removal, BytesAreNumbers
  <1>14. BytesAt(records, kept) + c.retained_bytes \in 0..USIZE_MAX
         /\ fixed_bytes + (BytesAt(records, kept) + c.retained_bytes) <= aggregate_max_bytes
    BY <1>3, <1>4, <1>13, StoreAssumption
  <1>15. retained_bytes' = BytesAt(records, kept) + c.retained_bytes
    BY <1>1, <1>13, <1>14, UsizeSmall
  <1>16. Bytes(records') = BytesAt(records, kept) + c.retained_bytes
    BY <1>1, <1>6, <1>7, BytesOfAppend
  <1>17. TypeOK'
    BY <1>0, <1>1, <1>5, <1>8, <1>10, <1>11, <1>14, <1>15 DEF TypeOK
  <1>18. AccountingExact'
    BY <1>12, <1>15, <1>16 DEF AccountingExact
  <1>19. BudgetKept'
    BY <1>1, <1>14, <1>15 DEF BudgetKept
  <1>20. QED BY <1>17, <1>18, <1>19 DEF BooksBalance

LEMMA ExpireBalances == ASSUME BooksBalance, Expire PROVE BooksBalance'
  <1> DEFINE left == Only(records, Alive)
  <1>1. /\ records' = left
        /\ retained_bytes' = Usize(retained_bytes - BytesAt(records, Places \ Alive))
        /\ reference_bytes' = reference_bytes /\ now' = now
    BY DEF Expire
  <1>2. /\ BytesAt(records, Alive) \in 0..USIZE_MAX
        /\ retained_bytes - BytesAt(records, Places \ Alive) = BytesAt(records, Alive)
        /\ BytesAt(records, Alive) <= retained_bytes
    BY Alives, Removal
  <1>3. retained_bytes' = BytesAt(records, Alive)
    BY <1>1, <1>2, UsizeSmall
  <1>5. /\ records \in Seq(Records)
        /\ \A i, j \in 1..Len(records) : i <= j => records[i].created_at <= records[j].created_at
        /\ \A i \in 1..Len(records) : records[i].created_at <= now
        /\ \A i, j \in 1..Len(records) : records[i].key = records[j].key => i = j
    BY DEF BooksBalance, TypeOK, AccountingExact
  <1>6. /\ left \in Seq(Records) /\ Bytes(left) = BytesAt(records, Alive)
        /\ \A i, j \in 1..Len(left) : i <= j => left[i].created_at <= left[j].created_at
        /\ \A i, j \in 1..Len(left) : left[i].key = left[j].key => i = j
        /\ \A i \in 1..Len(left) : \E n \in 1..Len(records) : n \in Alive /\ left[i] = records[n]
    BY <1>5, OnlyKeeps
  <1> HIDE DEF left
  <1>7. \A i \in 1..Len(left) : left[i].created_at <= now
    BY <1>5, <1>6
  <1>8. TypeOK'
    BY <1>1, <1>2, <1>3, <1>6, <1>7 DEF BooksBalance, TypeOK
  <1>9. AccountingExact'
    BY <1>1, <1>3, <1>6 DEF AccountingExact
  <1>10. BudgetKept'
    <2>1. reference_bytes + retained_bytes <= aggregate_max_bytes /\ reference_bytes \in Nat
          /\ retained_bytes \in Nat
      BY Deque DEF BooksBalance, BudgetKept
    <2>2. QED BY <1>1, <1>2, <1>3, <2>1, StoreAssumption DEF BudgetKept
  <1>11. QED BY <1>8, <1>9, <1>10 DEF BooksBalance

LEMMA BytesOfNothing == Bytes(<<>>) = 0
  <1>1. <<>> \in Seq(Records) /\ Len(<<>>) = 0
    OBVIOUS
  <1>2. \A n \in 1..Len(<<>>) : n \notin {}
    OBVIOUS
  <1>3. BytesAt(<<>>, {}) = 0
    BY <1>1, <1>2, BytesNone
  <1>4. 1..Len(<<>>) = {}
    BY <1>1
  <1>5. QED BY <1>3, <1>4 DEF Bytes

LEMMA ClearBalances == ASSUME BooksBalance, Clear PROVE BooksBalance'
  <1>1. records' = <<>> /\ retained_bytes' = 0 /\ reference_bytes' = 0 /\ now' = now
    BY DEF Clear
  <1>2. TypeOK'
    BY <1>1, StoreAssumption DEF BooksBalance, TypeOK
  <1>3. AccountingExact'
    BY <1>1, BytesOfNothing DEF AccountingExact
  <1>4. BudgetKept'
    BY <1>1, StoreAssumption DEF BudgetKept
  <1>5. QED BY <1>2, <1>3, <1>4 DEF BooksBalance

LEMMA TickBalances == ASSUME BooksBalance, Tick PROVE BooksBalance'
  <1>1. UNCHANGED <<records, retained_bytes, reference_bytes>> /\ now' = now + 1 /\ now < MAX_NOW
    BY DEF Tick
  <1>2. TypeOK'
    <2>1. records \in Seq(Records)
      BY DEF BooksBalance, TypeOK
    <2>2. \A i \in 1..Len(records) : records[i].created_at \in Nat
      <3>1. \A i \in 1..Len(records) : records[i] \in Records
        BY <2>1
      <3>2. QED BY <3>1 DEF Records
    <2>3. QED BY <1>1, <2>2, StoreAssumption DEF BooksBalance, TypeOK
  <1>3. AccountingExact'
    BY <1>1 DEF BooksBalance, AccountingExact
  <1>4. BudgetKept'
    BY <1>1 DEF BooksBalance, BudgetKept
  <1>5. QED BY <1>2, <1>3, <1>4 DEF BooksBalance

LEMMA InitBalances == ASSUME Init PROVE BooksBalance
  <1>1. TypeOK
    BY StoreAssumption DEF Init, TypeOK
  <1>2. AccountingExact
    BY BytesOfNothing DEF Init, AccountingExact
  <1>3. BudgetKept
    BY StoreAssumption DEF Init, BudgetKept
  <1>4. QED BY <1>1, <1>2, <1>3 DEF BooksBalance

LEMMA StutterBalances == ASSUME BooksBalance, UNCHANGED vars PROVE BooksBalance'
  <1>1. TypeOK'
    BY DEF BooksBalance, TypeOK, vars
  <1>2. AccountingExact'
    BY DEF BooksBalance, AccountingExact, vars
  <1>3. BudgetKept'
    BY DEF BooksBalance, BudgetKept, vars
  <1>4. QED BY <1>1, <1>2, <1>3 DEF BooksBalance

\* Whatever is inserted, expires and is cleared, the counter of bytes is the deque's size,
\* keys are unique, ages in order, and records and references within the budget together.
THEOREM BooksStayBalanced == Spec => []BooksBalance
  <1>1. ASSUME BooksBalance, [Next]_vars PROVE BooksBalance'
    <2>1. CASE \E c \in Candidates, fixed_bytes \in Sizes : Insert(c, fixed_bytes)
      BY <1>1, <2>1, InsertBalances
    <2>2. CASE Expire
      BY <1>1, <2>2, ExpireBalances
    <2>3. CASE Clear
      BY <1>1, <2>3, ClearBalances
    <2>4. CASE Tick
      BY <1>1, <2>4, TickBalances
    <2>5. CASE UNCHANGED vars
      BY <1>1, <2>5, StutterBalances
    <2>6. QED BY <1>1, <2>1, <2>2, <2>3, <2>4, <2>5 DEF Next
  <1>2. QED BY <1>1, InitBalances, PTL DEF Spec

-----------------------------------------------------------------------------
(* What leaves                                                              *)

\* A record is due when it is no longer fresh.
LEMMA AliveIsFresh == ASSUME BooksBalance PROVE Alive = Fresh
  <1>1. ASSUME NEW i \in Places PROVE ~Due(records[i]) <=> now < records[i].created_at + records[i].ttl
    <2>1. records[i] \in Records /\ now \in 0..MAX_NOW
      BY Deque DEF BooksBalance, TypeOK
    <2>2. records[i].created_at \in Nat /\ records[i].ttl \in Nat /\ now \in Int
      BY <2>1, StoreAssumption DEF Records
    <2>3. QED BY <2>2 DEF Due
  <1>2. QED BY <1>1 DEF Alive, Fresh

\* Records are told apart by their keys, so one is held just if its place was kept.
LEMMA HeldPlaces ==
    ASSUME BooksBalance, NEW kept, kept \subseteq Places, NEW i \in Places
    PROVE  Holds(Only(records, kept), records[i]) <=> i \in kept
  <1>1. records \in Seq(Records)
        /\ \A m, n \in Places : records[m].key = records[n].key => m = n
    BY DEF BooksBalance, TypeOK, AccountingExact, Places
  <1>2. Holds(Only(records, kept), records[i]) <=> \E n \in 1..Len(records) : n \in kept /\ records[n] = records[i]
    BY <1>1, OnlyHolds
  <1>3. QED BY <1>1, <1>2 DEF Places

\* The loops together keep what fits.
LEMMA LoopsKeepWhatFits ==
    ASSUME BooksBalance, NEW c \in Candidates, NEW fixed_bytes \in 0..USIZE_MAX, Verdict(c, fixed_bytes) = "Ok",
           NEW i \in Places
    PROVE  i \in AfterAggregateLoop(c, fixed_bytes) <=> i \in Fitting(c, fixed_bytes)
  <1> DEFINE Mine(k) == {j \in Fresh : j >= k /\ records[j].class = c.class}
             InClass == {k \in Fresh : records[k].class = c.class =>
                           /\ Cardinality(Mine(k)) < c.policy.max_records
                           /\ BytesAt(records, Mine(k)) + c.retained_bytes <= c.policy.max_bytes}
             newer == {j \in InClass : j >= i}
  <1>1. AfterClassLoop(c) = InClass
    <2>1. AfterClassLoop(c) \subseteq Places /\ InClass \subseteq Places
      BY Alives, ClassLoopKeeps DEF Fresh
    <2>2. \A k \in Places : k \in AfterClassLoop(c) <=> k \in InClass
      BY AliveIsFresh, ClassLoopFacts
    <2>3. QED BY <2>1, <2>2
  <1>2. i \in Fitting(c, fixed_bytes) <=>
          i \in InClass /\ fixed_bytes + (BytesAt(records, newer) + c.retained_bytes) <= aggregate_max_bytes
    BY DEF Fitting
  <1> HIDE DEF InClass
  <1>3. i \in AfterAggregateLoop(c, fixed_bytes) <=>
          i \in InClass /\ BytesAt(records, newer) <= Room(c, fixed_bytes)
    BY <1>1, AggregateLoopFacts
  <1> HIDE DEF newer
  <1>4. BytesAt(records, newer) \in Nat /\ c.retained_bytes \in Nat /\ fixed_bytes \in Nat
        /\ Room(c, fixed_bytes) = aggregate_max_bytes - fixed_bytes - c.retained_bytes
    BY Deque, BytesAreNumbers, Accepted, RoomIsExact DEF BooksBalance
  <1>5. BytesAt(records, newer) <= Room(c, fixed_bytes) <=>
          fixed_bytes + (BytesAt(records, newer) + c.retained_bytes) <= aggregate_max_bytes
    BY <1>4, SizesAreNumbers
  <1>6. QED BY <1>2, <1>3, <1>5

LEMMA InsertLeaves ==
    ASSUME BooksBalance, NEW c \in Candidates, NEW fixed_bytes \in 0..USIZE_MAX, Insert(c, fixed_bytes),
           NEW i \in Places
    PROVE  Holds(records', records[i]) <=> i \in Fitting(c, fixed_bytes)
  <1> DEFINE kept == AfterAggregateLoop(c, fixed_bytes)
             left == Only(records, kept)
  <1>1. Verdict(c, fixed_bytes) = "Ok" /\ records' = Append(left, Retained(c))
    BY DEF Insert
  <1>2. kept \subseteq Places /\ records \in Seq(Records)
    BY AggregateLoopKeeps, Deque DEF BooksBalance
  <1>3. Holds(left, records[i]) <=> i \in kept
    BY <1>2, HeldPlaces
  <1>4. left \in Seq(Records)
    BY <1>2, OnlyKeeps
  <1>5. Retained(c) # records[i]
    <2>1. records[i].key # c.key
      BY <1>1, Accepted DEF Places
    <2>2. QED BY <2>1 DEF Retained
  <1>6. i \in kept <=> i \in Fitting(c, fixed_bytes)
    BY <1>1, LoopsKeepWhatFits
  <1> HIDE DEF kept, left
  <1>7. Holds(records', records[i]) <=> Holds(left, records[i])
    <2>1. Len(left) \in Nat /\ Len(records') = Len(left) + 1
          /\ records'[Len(left) + 1] = Retained(c)
          /\ \A n \in 1..Len(left) : records'[n] = left[n]
      BY <1>1, <1>4
    <2>2. ASSUME NEW n \in 1..Len(records'), records'[n] = records[i] PROVE Holds(left, records[i])
      <3>1. n # Len(left) + 1
        BY <1>5, <2>1, <2>2
      <3>2. n \in 1..Len(left) /\ left[n] = records[i]
        BY <2>1, <2>2, <3>1
      <3>3. QED BY <3>2 DEF Holds
    <2>3. ASSUME NEW n \in 1..Len(left), left[n] = records[i] PROVE Holds(records', records[i])
      <3>1. n \in 1..Len(records') /\ records'[n] = records[i]
        BY <2>1, <2>3
      <3>2. QED BY <3>1 DEF Holds
    <2>4. QED BY <2>2, <2>3 DEF Holds
  <1>8. QED BY <1>3, <1>6, <1>7

LEMMA InsertsKeepWhatFits == ASSUME BooksBalance, BooksBalance' PROVE InsertKeepsWhatFits
  <1>1. SUFFICES ASSUME NEW policy \in Policies, records' # <<>>,
                        Insert(Inserted(policy), reference_bytes'), NEW i \in Places
                 PROVE  Holds(records', records[i]) <=> i \in Fitting(Inserted(policy), reference_bytes')
    BY DEF InsertKeepsWhatFits
  <1>2. records' \in Seq(Records) /\ reference_bytes' \in 0..USIZE_MAX
    BY DEF BooksBalance, TypeOK
  <1>3. records'[Len(records')] \in Records
    <2>1. Len(records') \in 1..Len(records')
      BY <1>1, <1>2
    <2>2. QED BY <1>2, <2>1
  <1>4. Inserted(policy) \in Candidates
    BY <1>3 DEF Inserted, Candidates, Records
  <1>5. QED BY <1>1, <1>2, <1>4, InsertLeaves

LEMMA ExpiresKeepTheFresh == ASSUME BooksBalance PROVE ExpireKeepsTheFresh
  <1>1. SUFFICES ASSUME Expire, NEW i \in Places PROVE Holds(records', records[i]) <=> i \in Fresh
    BY DEF ExpireKeepsTheFresh
  <1>2. records' = Only(records, Alive)
    BY <1>1 DEF Expire
  <1>3. QED BY <1>2, Alives, AliveIsFresh, HeldPlaces

\* An insert removes what is due and, oldest first, what does not fit, a lookup what is due,
\* and neither anything else.
THEOREM OnlyWhatMustLeaves == Spec => LeavesWhenItMust
  <1>1. ASSUME BooksBalance, BooksBalance' PROVE [InsertKeepsWhatFits]_vars
    BY <1>1, InsertsKeepWhatFits
  <1>2. ASSUME BooksBalance PROVE [ExpireKeepsTheFresh]_vars
    BY <1>2, ExpiresKeepTheFresh
  <1>3. Spec => []BooksBalance
    BY BooksStayBalanced
  <1>4. Spec => EvictsOnlyWhatItMust
    BY <1>1, <1>3, PTL DEF EvictsOnlyWhatItMust
  <1>5. Spec => LookupSeesOnlyFresh
    BY <1>2, <1>3, PTL DEF LookupSeesOnlyFresh
  <1>6. QED BY <1>4, <1>5, PTL DEF LeavesWhenItMust

-----------------------------------------------------------------------------
(* The queue of notifiers *)

\* Append puts one more element at the end, and nothing else changes.
LEMMA AppendFacts ==
    ASSUME NEW S, NEW q \in Seq(S), NEW x \in S
    PROVE  /\ Append(q, x) \in Seq(S)
           /\ DOMAIN Append(q, x) = 1..(Len(q) + 1)
           /\ DOMAIN q = 1..Len(q)
           /\ Len(q) \in Nat
           /\ Len(Append(q, x)) = Len(q) + 1
           /\ Append(q, x)[Len(q) + 1] = x
           /\ \A i \in 1..Len(q) : Append(q, x)[i] = q[i]
  OBVIOUS

\* Tail drops the first element and moves the others up.
LEMMA TailFacts ==
    ASSUME NEW S, NEW q \in Seq(S), q # <<>>
    PROVE  /\ Tail(q) \in Seq(S)
           /\ Head(q) \in S
           /\ Head(q) = q[1]
           /\ DOMAIN q = 1..Len(q)
           /\ Len(q) \in Nat /\ Len(q) > 0
           /\ DOMAIN Tail(q) = 1..(Len(q) - 1)
           /\ Len(Tail(q)) = Len(q) - 1
           /\ \A i \in 1..(Len(q) - 1) : Tail(q)[i] = q[i + 1]
  OBVIOUS

-----------------------------------------------------------------------------
(* What a step does to the queue *)

LEMMA PushBackQueue ==
    ASSUME Tools!IInv, NEW c \in Tools!Clients, Tools!PushBack(c)
    PROVE  /\ queue' \in Seq(Subscriptions)
           /\ Len(queue) \in Nat
           /\ Len(queue') = Len(queue) + 1
           /\ ~Tools!Queued(c)
           /\ \A n : Tools!Queued(n)' <=> Tools!Queued(n) \/ n = c
           /\ Tools!QueueIsPushed'
  <1>1. /\ queue \in Seq(Subscriptions) /\ c \in Subscriptions /\ pc[c] = "registered"
        /\ queue' = Append(queue, c) /\ pc \in [Tools!Clients -> Tools!PCs]
        /\ pc' = [pc EXCEPT ![c] = "accepted"]
    BY DEF Tools!IInv, Tools!TypeOK, Tools!PushBack
  <1>2. /\ queue' \in Seq(Subscriptions)
        /\ DOMAIN queue' = 1..(Len(queue) + 1)
        /\ DOMAIN queue = 1..Len(queue)
        /\ Len(queue) \in Nat
        /\ Len(queue') = Len(queue) + 1
        /\ queue'[Len(queue) + 1] = c
        /\ \A i \in 1..Len(queue) : queue'[i] = queue[i]
    BY <1>1, AppendFacts
  <1>3. ~Tools!Queued(c)
    BY <1>1 DEF Tools!IInv, Tools!QueueIsPushed, Tools!Pushed, Tools!Queued
  <1>4. \A n : Tools!Queued(n)' <=> Tools!Queued(n) \/ n = c
    <2>1. SUFFICES ASSUME NEW n PROVE Tools!Queued(n)' <=> Tools!Queued(n) \/ n = c
      OBVIOUS
    <2>2. ASSUME Tools!Queued(n)' PROVE Tools!Queued(n) \/ n = c
      <3>1. PICK i \in 1..(Len(queue) + 1) : queue'[i] = n
        BY <1>2, <2>2 DEF Tools!Queued
      <3>2. CASE i = Len(queue) + 1
        BY <1>2, <3>1, <3>2
      <3>3. CASE i # Len(queue) + 1
        BY <1>2, <3>1, <3>3 DEF Tools!Queued
      <3>4. QED BY <3>2, <3>3
    <2>3. ASSUME Tools!Queued(n) PROVE Tools!Queued(n)'
      <3>1. PICK i \in 1..Len(queue) : queue[i] = n
        BY <1>2, <2>3 DEF Tools!Queued
      <3>2. i \in DOMAIN queue' /\ queue'[i] = n
        BY <1>2, <3>1
      <3>3. QED BY <3>2 DEF Tools!Queued
    <2>4. ASSUME n = c PROVE Tools!Queued(n)'
      <3>1. Len(queue) + 1 \in DOMAIN queue'
        BY <1>2
      <3>2. QED BY <3>1, <1>2, <2>4 DEF Tools!Queued
    <2>5. QED BY <2>2, <2>3, <2>4
  <1>5. \A i, j \in DOMAIN queue' : queue'[i] = queue'[j] => i = j
    <2>1. \A i \in 1..Len(queue) : queue'[i] # c
      BY <1>2, <1>3 DEF Tools!Queued
    <2>2. \A i, j \in 1..Len(queue) : queue[i] = queue[j] => i = j
      BY <1>2 DEF Tools!IInv, Tools!QueueIsPushed
    <2>3. QED BY <1>2, <2>1, <2>2
  <1>6. \A i \in DOMAIN queue' : Tools!Pushed(queue[i])'
    <2>1. \A i \in 1..Len(queue) : Tools!Pushed(queue[i]) /\ queue[i] \in Tools!Clients
      BY <1>1, <1>2 DEF Tools!IInv, Tools!QueueIsPushed, Tools!Pushed, Tools!Clients
    <2>2. \A n \in Tools!Clients : Tools!Pushed(n) => Tools!Pushed(n)'
      BY <1>1 DEF Tools!Pushed
    <2>3. Tools!Pushed(c)'
      BY <1>1 DEF Tools!Pushed
    <2>4. \A i \in 1..Len(queue) : Tools!Pushed(queue[i])'
      BY <1>2, <2>1, <2>2 DEF Tools!Pushed
    <2>5. QED BY <1>2, <2>3, <2>4 DEF Tools!Pushed
  <1>7. QED BY <1>2, <1>3, <1>4, <1>5, <1>6 DEF Tools!QueueIsPushed

LEMMA PopFrontQueue ==
    ASSUME Tools!IInv, NEW c \in Tools!Clients, Tools!PopFront(c)
    PROVE  /\ queue' \in Seq(Subscriptions)
           /\ Len(queue) \in Nat /\ Len(queue) > 0
           /\ Len(queue') = Len(queue) - 1
           /\ Head(queue) \in Subscriptions
           /\ Tools!Queued(Head(queue))
           /\ \A n : Tools!Queued(n)' <=> Tools!Queued(n) /\ n # Head(queue)
           /\ Tools!QueueIsPushed'
  <1>1. /\ queue \in Seq(Subscriptions) /\ queue # <<>> /\ pc[c] = "accepted"
        /\ queue' = Tail(queue) /\ pc \in [Tools!Clients -> Tools!PCs]
        /\ pc' = [pc EXCEPT ![c] = "listening"]
    BY DEF Tools!IInv, Tools!TypeOK, Tools!PopFront
  <1>2. /\ queue' \in Seq(Subscriptions)
        /\ Head(queue) \in Subscriptions
        /\ Head(queue) = queue[1]
        /\ DOMAIN queue = 1..Len(queue)
        /\ Len(queue) \in Nat /\ Len(queue) > 0
        /\ DOMAIN queue' = 1..(Len(queue) - 1)
        /\ Len(queue') = Len(queue) - 1
        /\ \A i \in 1..(Len(queue) - 1) : queue'[i] = queue[i + 1]
    BY <1>1, TailFacts
  <1>3. Tools!Queued(Head(queue))
    BY <1>2 DEF Tools!Queued
  <1>4. \A i, j \in 1..Len(queue) : queue[i] = queue[j] => i = j
    BY <1>2 DEF Tools!IInv, Tools!QueueIsPushed
  <1>5. \A n : Tools!Queued(n)' <=> Tools!Queued(n) /\ n # Head(queue)
    <2>1. SUFFICES ASSUME NEW n PROVE Tools!Queued(n)' <=> Tools!Queued(n) /\ n # Head(queue)
      OBVIOUS
    <2>2. ASSUME Tools!Queued(n)' PROVE Tools!Queued(n) /\ n # Head(queue)
      <3>1. PICK i \in 1..(Len(queue) - 1) : queue'[i] = n
        BY <1>2, <2>2 DEF Tools!Queued
      <3>2. i + 1 \in 1..Len(queue) /\ queue[i + 1] = n /\ i + 1 # 1 /\ 1 \in 1..Len(queue)
        BY <1>2, <3>1
      <3>3. QED BY <1>2, <1>4, <3>2 DEF Tools!Queued
    <2>3. ASSUME Tools!Queued(n), n # Head(queue) PROVE Tools!Queued(n)'
      <3>1. PICK i \in 1..Len(queue) : queue[i] = n
        BY <1>2, <2>3 DEF Tools!Queued
      <3>2. i - 1 \in 1..(Len(queue) - 1) /\ (i - 1) + 1 = i
        BY <1>2, <2>3, <3>1
      <3>3. i - 1 \in DOMAIN queue' /\ queue'[i - 1] = n
        BY <1>2, <3>1, <3>2
      <3>4. QED BY <3>3 DEF Tools!Queued
    <2>4. QED BY <2>2, <2>3
  <1>6. \A i, j \in DOMAIN queue' : queue'[i] = queue'[j] => i = j
    <2>1. SUFFICES ASSUME NEW i \in 1..(Len(queue) - 1), NEW j \in 1..(Len(queue) - 1),
                          queue'[i] = queue'[j]
                   PROVE  i = j
      BY <1>2
    <2>2. i + 1 \in 1..Len(queue) /\ j + 1 \in 1..Len(queue) /\ queue[i + 1] = queue[j + 1]
      BY <1>2, <2>1
    <2>3. i + 1 = j + 1
      BY <1>4, <2>2
    <2>4. QED BY <2>3
  <1>7. \A i \in DOMAIN queue' : Tools!Pushed(queue[i])'
    <2>1. \A i \in 1..Len(queue) : Tools!Pushed(queue[i]) /\ queue[i] \in Tools!Clients
      BY <1>1, <1>2 DEF Tools!IInv, Tools!QueueIsPushed, Tools!Pushed, Tools!Clients
    <2>2. \A n \in Tools!Clients : Tools!Pushed(n) => Tools!Pushed(n)'
      BY <1>1 DEF Tools!Pushed
    <2>3. \A i \in 1..(Len(queue) - 1) : i + 1 \in 1..Len(queue)
      BY <1>2
    <2>4. QED BY <1>2, <2>1, <2>2, <2>3 DEF Tools!Pushed
  <1>8. QED BY <1>2, <1>3, <1>5, <1>6, <1>7 DEF Tools!QueueIsPushed

-----------------------------------------------------------------------------
(* One step preserves each part of the invariant *)

LEMMA TypeStep ==
    ASSUME Tools!IInv, Tools!Next PROVE Tools!TypeOK'
  <1>1. Tools!TypeOK
    BY DEF Tools!IInv
  <1>2. CASE Tools!Publish
    BY <1>1, <1>2, ToolsAssumption DEF Tools!TypeOK, Tools!Publish
  <1>3. CASE Tools!Collect
    BY <1>1, <1>3 DEF Tools!TypeOK, Tools!Collect
  <1>4. CASE Tools!Notify
    BY <1>1, <1>4 DEF Tools!TypeOK, Tools!Notify
  <1>5. ASSUME NEW c \in Tools!Clients, Tools!Insert(c) PROVE Tools!TypeOK'
    BY <1>1, <1>5 DEF Tools!TypeOK, Tools!Insert, Tools!PCs
  <1>6. ASSUME NEW c \in Tools!Clients, Tools!Task(c) PROVE Tools!TypeOK'
    <2>1. CASE Tools!ReadDiscovery(c)
      BY <1>1, <2>1 DEF Tools!TypeOK, Tools!ReadDiscovery, Tools!PCs
    <2>2. CASE Tools!Replay(c)
      BY <1>1, <2>2 DEF Tools!TypeOK, Tools!Replay, Tools!PCs
    <2>3. CASE Tools!StartLegacy(c)
      BY <1>1, <2>3 DEF Tools!TypeOK, Tools!StartLegacy, Tools!PCs
    <2>4. CASE Tools!PushBack(c)
      BY <1>1, <2>4, PushBackQueue DEF Tools!TypeOK, Tools!PushBack, Tools!PCs
    <2>5. CASE Tools!PopFront(c)
      <3>1. queue' \in Seq(Subscriptions) /\ Head(queue) \in Tools!Clients
        BY <2>5, PopFrontQueue DEF Tools!Clients
      <3>2. QED BY <1>1, <2>5, <3>1 DEF Tools!TypeOK, Tools!PopFront, Tools!PCs
    <2>6. CASE Tools!Recv(c)
      BY <1>1, <2>6 DEF Tools!TypeOK, Tools!Recv, Tools!PCs
    <2>7. CASE Tools!NotifyPeer(c)
      BY <1>1, <2>7 DEF Tools!TypeOK, Tools!NotifyPeer, Tools!PCs
    <2>8. QED BY <1>6, <2>1, <2>2, <2>3, <2>4, <2>5, <2>6, <2>7 DEF Tools!Task
  <1>7. ASSUME NEW c \in Tools!Clients, Tools!ListTools(c) PROVE Tools!TypeOK'
    BY <1>1, <1>7 DEF Tools!TypeOK, Tools!ListTools
  <1>8. ASSUME NEW c \in Tools!Clients, Tools!Leave(c) PROVE Tools!TypeOK'
    BY <1>1, <1>8 DEF Tools!TypeOK, Tools!Leave, Tools!PCs
  <1>9. QED BY <1>2, <1>3, <1>4, <1>5, <1>6, <1>7, <1>8 DEF Tools!Next, Tools!Reader

\* Discoveries only grow, and the reader has somebody to notify only in its loop.
LEMMA CounterStep ==
    ASSUME Tools!IInv, Tools!Next
    PROVE  /\ publisher' # "notify" => pending' = {}
           /\ \A c \in Tools!Clients : seen'[c] <= discovery'
  <1>1. /\ discovery \in Nat
        /\ publisher # "notify" => pending = {}
        /\ seen \in [Tools!Clients -> Int]
        /\ \A c \in Tools!Clients : seen[c] <= discovery
    BY DEF Tools!IInv, Tools!TypeOK
  <1>2. CASE Tools!Publish
    BY <1>1, <1>2 DEF Tools!Publish
  <1>3. CASE Tools!Collect
    BY <1>1, <1>3 DEF Tools!Collect
  <1>4. CASE Tools!Notify
    BY <1>1, <1>4 DEF Tools!Notify
  <1>5. ASSUME NEW c \in Tools!Clients, Tools!Insert(c) \/ Tools!Task(c) \/ Tools!Leave(c)
        PROVE  UNCHANGED <<publisher, pending, seen, discovery>>
    BY <1>5 DEF Tools!Insert, Tools!Leave, Tools!Task, Tools!ReadDiscovery, Tools!Replay,
                Tools!StartLegacy, Tools!PushBack, Tools!PopFront,
                Tools!Recv, Tools!NotifyPeer
  <1>6. ASSUME NEW c \in Tools!Clients, Tools!ListTools(c)
        PROVE  /\ UNCHANGED <<publisher, pending, discovery>>
               /\ seen' = [seen EXCEPT ![c] = discovery]
    BY <1>6 DEF Tools!ListTools
  <1>7. QED BY <1>1, <1>2, <1>3, <1>4, <1>5, <1>6 DEF Tools!Next, Tools!Reader

\* Who holds a notifier in the next state held it before, or has just put it
\* in the list.
LEMMA ListedStep ==
    ASSUME Tools!IInv, Tools!Next PROVE Tools!HeldIsListed'
  <1>1. Tools!HeldIsListed /\ Tools!TypeOK
    BY DEF Tools!IInv
  <1>2. ASSUME \A n \in Tools!Clients : Tools!Upgrades(n)' => Tools!Upgrades(n), UNCHANGED notifiers
        PROVE  Tools!HeldIsListed'
    BY <1>1, <1>2 DEF Tools!HeldIsListed
  <1>3. CASE Tools!Publish
    BY <1>2, <1>3 DEF Tools!Publish, Tools!Upgrades, Tools!Queued, Tools!Listening
  <1>4. CASE Tools!Collect
    <2>1. \A n \in Tools!Clients : Tools!Upgrades(n)' => Tools!Upgrades(n)
      BY <1>4 DEF Tools!Collect, Tools!Upgrades, Tools!Queued, Tools!Listening
    <2>2. QED BY <1>1, <1>4, <2>1 DEF Tools!Collect, Tools!HeldIsListed
  <1>5. CASE Tools!Notify
    BY <1>2, <1>5 DEF Tools!Notify, Tools!Upgrades, Tools!Queued, Tools!Listening
  <1>6. ASSUME NEW c \in Tools!Clients, Tools!Insert(c) PROVE Tools!HeldIsListed'
    <2>1. \A n \in Tools!Clients : Tools!Upgrades(n)' => Tools!Upgrades(n) \/ n = c
      BY <1>1, <1>6 DEF Tools!Insert, Tools!Upgrades, Tools!Queued, Tools!Listening, Tools!TypeOK
    <2>2. QED BY <1>1, <1>6, <2>1 DEF Tools!Insert, Tools!HeldIsListed
  <1>7. ASSUME NEW c \in Tools!Clients, Tools!Task(c) PROVE Tools!HeldIsListed'
    <2>1. CASE Tools!ReadDiscovery(c)
      BY <1>1, <1>2, <2>1 DEF Tools!ReadDiscovery, Tools!Upgrades, Tools!Queued, Tools!Listening,
                              Tools!TypeOK
    <2>2. CASE Tools!Replay(c)
      BY <1>1, <1>2, <2>2 DEF Tools!Replay, Tools!Upgrades, Tools!Queued, Tools!Listening,
                              Tools!TypeOK
    <2>3. CASE Tools!StartLegacy(c)
      <3>1. c \in Legacy /\ receiver[c] = c
        BY <2>3 DEF Tools!StartLegacy, Tools!IInv, Tools!Handover
      <3>2. QED BY <1>1, <1>2, <2>3, <3>1 DEF Tools!StartLegacy, Tools!Upgrades, Tools!Queued,
                                              Tools!Listening, Tools!TypeOK
    <2>4. CASE Tools!PushBack(c)
      <3>1. \A n : Tools!Queued(n)' <=> Tools!Queued(n) \/ n = c
        BY <2>4, PushBackQueue
      <3>2. \A n \in Tools!Clients : Tools!Upgrades(n)' => Tools!Upgrades(n)
        BY <1>1, <2>4, <3>1 DEF Tools!PushBack, Tools!Upgrades, Tools!Listening, Tools!TypeOK
      <3>3. QED BY <1>2, <2>4, <3>2 DEF Tools!PushBack
    <2>5. CASE Tools!PopFront(c)
      <3>1. /\ Tools!Queued(Head(queue))
            /\ \A n : Tools!Queued(n)' <=> Tools!Queued(n) /\ n # Head(queue)
        BY <2>5, PopFrontQueue
      <3>2. \A n \in Tools!Clients : Tools!Upgrades(n)' => Tools!Upgrades(n)
        BY <1>1, <2>5, <3>1 DEF Tools!PopFront, Tools!Upgrades, Tools!Listening, Tools!TypeOK
      <3>3. QED BY <1>2, <2>5, <3>2 DEF Tools!PopFront
    <2>6. CASE Tools!Recv(c)
      BY <1>1, <1>2, <2>6 DEF Tools!Recv, Tools!Upgrades, Tools!Queued, Tools!Listening,
                              Tools!TypeOK
    <2>7. CASE Tools!NotifyPeer(c)
      BY <1>1, <1>2, <2>7 DEF Tools!NotifyPeer, Tools!Upgrades, Tools!Queued, Tools!Listening,
                              Tools!TypeOK
    <2>8. QED BY <1>7, <2>1, <2>2, <2>3, <2>4, <2>5, <2>6, <2>7 DEF Tools!Task
  <1>8. ASSUME NEW c \in Tools!Clients, Tools!ListTools(c) PROVE Tools!HeldIsListed'
    BY <1>2, <1>8 DEF Tools!ListTools, Tools!Upgrades, Tools!Queued, Tools!Listening
  <1>9. ASSUME NEW c \in Tools!Clients, Tools!Leave(c) PROVE Tools!HeldIsListed'
    BY <1>1, <1>2, <1>9 DEF Tools!Leave, Tools!Upgrades, Tools!Queued, Tools!Listening, Tools!TypeOK
  <1>10. QED BY <1>3, <1>4, <1>5, <1>6, <1>7, <1>8, <1>9 DEF Tools!Next, Tools!Reader

LEMMA QueueStep ==
    ASSUME Tools!IInv, Tools!Next PROVE Tools!QueueIsPushed'
  <1>1. Tools!QueueIsPushed /\ Tools!TypeOK
    BY DEF Tools!IInv
  <1>2. ASSUME UNCHANGED queue, \A n \in Subscriptions : Tools!Pushed(n) => Tools!Pushed(n)'
        PROVE  Tools!QueueIsPushed'
    BY <1>1, <1>2 DEF Tools!QueueIsPushed, Tools!Pushed
  <1>3. CASE Tools!Reader
    BY <1>2, <1>3 DEF Tools!Reader, Tools!Publish, Tools!Collect, Tools!Notify, Tools!Pushed
  <1>4. ASSUME NEW c \in Tools!Clients, Tools!PushBack(c)
        \/ Tools!PopFront(c) PROVE Tools!QueueIsPushed'
    BY <1>4, PushBackQueue, PopFrontQueue
  <1>5. ASSUME NEW c \in Tools!Clients,
               Tools!Insert(c) \/ Tools!ReadDiscovery(c) \/ Tools!Replay(c)
               \/ Tools!StartLegacy(c) \/ Tools!Recv(c)
               \/ Tools!NotifyPeer(c) \/ Tools!Leave(c)
        PROVE  Tools!QueueIsPushed'
    <2>1. pc \in [Tools!Clients -> Tools!PCs] /\ Subscriptions \subseteq Tools!Clients
      BY <1>1 DEF Tools!TypeOK, Tools!Clients
    <2>2. UNCHANGED queue
      BY <1>5 DEF Tools!Insert, Tools!ReadDiscovery, Tools!Replay, Tools!StartLegacy, Tools!Recv,
                  Tools!NotifyPeer, Tools!Leave
    <2>3. CASE Tools!Insert(c) \/ Tools!ReadDiscovery(c) \/ Tools!Replay(c) \/ Tools!StartLegacy(c)
      BY <1>2, <2>1, <2>2, <2>3 DEF Tools!Pushed, Tools!Insert, Tools!ReadDiscovery, Tools!Replay,
                                    Tools!StartLegacy
    <2>4. CASE Tools!Recv(c) \/ Tools!NotifyPeer(c) \/ Tools!Leave(c)
      BY <1>2, <2>1, <2>2, <2>4 DEF Tools!Pushed, Tools!Recv, Tools!NotifyPeer, Tools!Leave
    <2>5. QED BY <1>5, <2>3, <2>4
  <1>6. ASSUME NEW c \in Tools!Clients, Tools!ListTools(c) PROVE Tools!QueueIsPushed'
    BY <1>2, <1>6 DEF Tools!ListTools, Tools!Pushed
  <1>7. QED BY <1>3, <1>4, <1>5, <1>6 DEF Tools!Next, Tools!Task

\* News for a notifier that somebody holds stay until its receiver takes them.
LEMMA NewsStay ==
    ASSUME Tools!IInv, Tools!Next, NEW n \in Tools!Clients, Tools!Upgrades(n), Tools!Underway(n)
    PROVE  Tools!Underway(n)' \/ \E c \in Tools!Clients : Tools!Recv(c) /\ receiver[c] = n
  <1>1. /\ publisher # "notify" => pending = {}
        /\ n \in notifiers
    BY DEF Tools!IInv, Tools!HeldIsListed
  <1>2. CASE Tools!Publish
    BY <1>2 DEF Tools!Publish, Tools!Underway
  <1>3. CASE Tools!Collect
    BY <1>1, <1>3 DEF Tools!Collect, Tools!Underway
  <1>4. CASE Tools!Notify
    BY <1>4 DEF Tools!Notify, Tools!Underway
  <1>5. ASSUME NEW c \in Tools!Clients, Tools!Recv(c)
        PROVE  Tools!Underway(n)' \/ receiver[c] = n
    BY <1>5 DEF Tools!Recv, Tools!Underway
  <1>6. ASSUME NEW c \in Tools!Clients,
               Tools!Insert(c) \/ Tools!ReadDiscovery(c) \/ Tools!Replay(c)
               \/ Tools!StartLegacy(c) \/ Tools!PushBack(c)
               \/ Tools!PopFront(c) \/ Tools!NotifyPeer(c) \/ Tools!ListTools(c) \/ Tools!Leave(c)
        PROVE  Tools!Underway(n)'
    <2>1. UNCHANGED <<pending, publisher>> /\ channel \subseteq channel'
      BY <1>6 DEF Tools!Insert, Tools!ReadDiscovery, Tools!Replay, Tools!StartLegacy,
                  Tools!PushBack, Tools!PopFront, Tools!NotifyPeer,
                  Tools!ListTools, Tools!Leave
    <2>2. QED BY <2>1 DEF Tools!Underway
  <1>7. QED BY <1>2, <1>3, <1>4, <1>5, <1>6 DEF Tools!Next, Tools!Reader, Tools!Task

\* Who listens does not listen to a notifier that waits to be heard.
LEMMA HeardOnce ==
    ASSUME Tools!IInv, NEW c \in Tools!Clients, Tools!Listening(c)
    PROVE  ~Tools!Unheard(receiver[c]) /\ Tools!Upgrades(receiver[c]) /\ receiver[c] \in Tools!Clients
  <1>1. c \in Legacy => receiver[c] = c
    BY DEF Tools!IInv, Tools!Handover
  <1>2. c \in Subscriptions => Tools!Pushed(receiver[c])
    BY DEF Tools!IInv, Tools!Handover
  <1>3. ~Tools!Queued(receiver[c])
    BY DEF Tools!IInv, Tools!Handover
  <1>4. pc[receiver[c]] # "registered"
    BY <1>1, <1>2 DEF Tools!Pushed, Tools!Listening, Tools!Clients
  <1>5. receiver[c] \in Tools!Clients
    BY DEF Tools!IInv, Tools!TypeOK
  <1>6. QED BY <1>3, <1>4, <1>5 DEF Tools!Unheard, Tools!Upgrades

LEMMA UnheardStep ==
    ASSUME Tools!IInv, Tools!Next PROVE Tools!UnheardHasNews'
  <1>1. Tools!TypeOK /\ Tools!UnheardHasNews
    BY DEF Tools!IInv
  <1>2. SUFFICES ASSUME NEW n \in Tools!Clients, Tools!Unheard(n)', discovery' # 0
                 PROVE  Tools!Underway(n)'
    BY DEF Tools!UnheardHasNews
  <1>3. CASE Tools!Unheard(n) /\ discovery # 0
    <2>1. Tools!Underway(n) /\ Tools!Upgrades(n)
      BY <1>1, <1>3 DEF Tools!UnheardHasNews, Tools!Unheard, Tools!Upgrades
    <2>2. ASSUME NEW c \in Tools!Clients, Tools!Recv(c), receiver[c] = n PROVE FALSE
      BY <1>3, <2>2, HeardOnce DEF Tools!Recv, Tools!Listening
    <2>3. QED BY <2>1, <2>2, NewsStay
  <1>4. CASE Tools!Publish
    BY <1>4 DEF Tools!Publish, Tools!Underway
  <1>5. ASSUME NEW c \in Tools!Clients, Tools!Replay(c) PROVE Tools!Unheard(n) \/ n = c
    BY <1>1, <1>2, <1>5 DEF Tools!Replay, Tools!Unheard, Tools!Queued, Tools!TypeOK
  <1>6. ASSUME NEW c \in Tools!Clients, Tools!Replay(c), n = c PROVE Tools!Underway(n)'
    BY <1>6 DEF Tools!Replay, Tools!Underway
  <1>7. ASSUME NEW c \in Tools!Clients, Tools!ReadDiscovery(c) PROVE Tools!Unheard(n) /\ UNCHANGED discovery
    BY <1>1, <1>2, <1>7 DEF Tools!ReadDiscovery, Tools!Unheard, Tools!Queued, Tools!TypeOK
  <1>8. ASSUME NEW c \in Tools!Clients, Tools!PushBack(c) PROVE Tools!Unheard(n)
    <2>1. Tools!Queued(n)' => Tools!Queued(n) \/ n = c
      BY <1>8, PushBackQueue
    <2>2. QED BY <1>1, <1>2, <1>8, <2>1 DEF Tools!PushBack, Tools!Unheard, Tools!TypeOK
  <1>9. ASSUME NEW c \in Tools!Clients, Tools!PopFront(c) PROVE Tools!Unheard(n)
    <2>1. Tools!Queued(n)' => Tools!Queued(n)
      BY <1>9, PopFrontQueue
    <2>2. QED BY <1>1, <1>2, <1>9, <2>1 DEF Tools!PopFront, Tools!Unheard, Tools!TypeOK
  <1>10. ASSUME NEW c \in Tools!Clients,
                Tools!Insert(c) \/ Tools!StartLegacy(c) \/ Tools!Recv(c)
                \/ Tools!NotifyPeer(c) \/ Tools!Leave(c) \/ Tools!ListTools(c)
         PROVE  Tools!Unheard(n)
    BY <1>1, <1>2, <1>10 DEF Tools!Insert, Tools!StartLegacy, Tools!Recv, Tools!NotifyPeer,
                             Tools!Leave, Tools!ListTools, Tools!Unheard,
                             Tools!Queued, Tools!TypeOK
  <1>11. ASSUME Tools!Collect \/ Tools!Notify PROVE Tools!Unheard(n)
    BY <1>2, <1>11 DEF Tools!Collect, Tools!Notify, Tools!Unheard, Tools!Queued
  <1>12. CASE UNCHANGED discovery /\ Tools!Unheard(n)
    BY <1>2, <1>3, <1>12
  <1>13. Tools!Publish \/ UNCHANGED discovery
    BY DEF Tools!Next, Tools!Reader, Tools!Task, Tools!Collect, Tools!Notify, Tools!Insert,
           Tools!ReadDiscovery, Tools!Replay, Tools!StartLegacy, Tools!PushBack,
           Tools!PopFront, Tools!Recv, Tools!NotifyPeer, Tools!ListTools, Tools!Leave
  <1>14. CASE UNCHANGED discovery
    <2>1. CASE Tools!Reader
      BY <1>4, <1>11, <1>12, <1>14, <2>1 DEF Tools!Reader
    <2>2. ASSUME NEW c \in Tools!Clients, Tools!Replay(c) PROVE Tools!Underway(n)'
      BY <1>5, <1>6, <1>12, <1>14, <2>2
    <2>3. ASSUME NEW c \in Tools!Clients, Tools!ReadDiscovery(c) \/ Tools!PushBack(c)
        \/ Tools!PopFront(c)
          PROVE  Tools!Underway(n)'
      BY <1>7, <1>8, <1>9, <1>12, <1>14, <2>3
    <2>4. ASSUME NEW c \in Tools!Clients,
                 Tools!Insert(c) \/ Tools!StartLegacy(c) \/ Tools!Recv(c)
                 \/ Tools!NotifyPeer(c) \/ Tools!Leave(c) \/ Tools!ListTools(c)
          PROVE  Tools!Underway(n)'
      BY <1>10, <1>12, <1>14, <2>4
    <2>5. QED BY <2>1, <2>2, <2>3, <2>4 DEF Tools!Next, Tools!Task
  <1>15. QED BY <1>4, <1>13, <1>14

LEMMA HandoverStep ==
    ASSUME Tools!IInv, Tools!Next PROVE Tools!Handover'
  <1>1. Tools!TypeOK /\ Tools!Handover
    BY DEF Tools!IInv
  <1>2. Subscriptions \subseteq Tools!Clients /\ Legacy \subseteq Tools!Clients /\ Legacy \cap Subscriptions = {}
    BY ToolsAssumption DEF Tools!Clients
  <1>3. ASSUME UNCHANGED <<receiver, queue>>,
               \A c \in Tools!Clients : Tools!Listening(c)' => Tools!Listening(c),
               \A c \in Legacy : pc'[c] # "accepted",
               \A n \in Subscriptions : Tools!Pushed(n) => Tools!Pushed(n)'
        PROVE  Tools!Handover'
    <2>1. \A n : Tools!Queued(n)' => Tools!Queued(n)
      BY <1>3 DEF Tools!Queued
    <2>2. \A n : Tools!Pushed(n) => Tools!Pushed(n)'
      BY <1>3 DEF Tools!Pushed
    <2>3. QED BY <1>1, <1>2, <1>3, <2>1, <2>2 DEF Tools!Handover
  <1>4. CASE Tools!Reader
    BY <1>1, <1>3, <1>4 DEF Tools!Reader, Tools!Publish, Tools!Collect, Tools!Notify,
                            Tools!Listening, Tools!Pushed, Tools!Handover
  <1>5. ASSUME NEW c \in Tools!Clients, Tools!Insert(c) \/ Tools!ReadDiscovery(c)
        \/ Tools!Replay(c) \/ Tools!Leave(c)
        PROVE  Tools!Handover'
    <2>1. pc \in [Tools!Clients -> Tools!PCs] /\ \A d \in Legacy : pc[d] # "accepted"
      BY <1>1 DEF Tools!TypeOK, Tools!Handover
    <2>2. UNCHANGED <<receiver, queue>>
      BY <1>5 DEF Tools!Insert, Tools!ReadDiscovery, Tools!Replay, Tools!Leave
    <2>3. QED BY <1>2, <1>3, <1>5, <2>1, <2>2 DEF Tools!Insert, Tools!ReadDiscovery, Tools!Replay,
                                                  Tools!Leave, Tools!Listening, Tools!Pushed
  <1>6. ASSUME NEW c \in Tools!Clients, Tools!Recv(c) \/ Tools!NotifyPeer(c) PROVE Tools!Handover'
    <2>1. pc \in [Tools!Clients -> Tools!PCs] /\ \A d \in Legacy : pc[d] # "accepted"
      BY <1>1 DEF Tools!TypeOK, Tools!Handover
    <2>2. UNCHANGED <<receiver, queue>>
      BY <1>6 DEF Tools!Recv, Tools!NotifyPeer
    <2>3. QED BY <1>2, <1>3, <1>6, <2>1, <2>2 DEF Tools!Recv, Tools!NotifyPeer, Tools!Listening,
                                                  Tools!Pushed
  <1>7. ASSUME NEW c \in Tools!Clients, Tools!ListTools(c) PROVE Tools!Handover'
    BY <1>1, <1>3, <1>7 DEF Tools!ListTools, Tools!Listening, Tools!Pushed, Tools!Handover
  <1>8. ASSUME NEW c \in Tools!Clients, Tools!StartLegacy(c) PROVE Tools!Handover'
    <2>1. /\ c \in Legacy /\ pc[c] = "registered" /\ UNCHANGED <<receiver, queue>>
          /\ pc' = [pc EXCEPT ![c] = "listening"] /\ pc \in [Tools!Clients -> Tools!PCs]
          /\ receiver[c] = c
      BY <1>1, <1>8 DEF Tools!StartLegacy, Tools!TypeOK, Tools!Handover
    <2>2. \A d \in Tools!Clients : Tools!Listening(d)' => Tools!Listening(d) \/ d = c
      BY <2>1 DEF Tools!Listening
    <2>3. \A n : Tools!Pushed(n) => Tools!Pushed(n)'
      BY <1>2, <2>1 DEF Tools!Pushed
    <2>4. \A n : Tools!Queued(n)' => Tools!Queued(n)
      BY <2>1 DEF Tools!Queued
    <2>5. ~Tools!Queued(c)
      BY <1>2, <2>1 DEF Tools!IInv, Tools!QueueIsPushed, Tools!Pushed, Tools!Queued
    <2>6. \A d \in Tools!Clients : Tools!Listening(d) => receiver[d] # c
      BY <1>1, <1>2, <2>1 DEF Tools!Handover, Tools!Pushed, Tools!Listening, Tools!Clients
    <2>7. \A d \in Legacy : pc'[d] # "accepted"
      BY <1>1, <1>2, <2>1 DEF Tools!Handover
    <2>8. QED BY <1>1, <1>2, <2>1, <2>2, <2>3, <2>4, <2>5, <2>6, <2>7 DEF Tools!Handover
  <1>9. ASSUME NEW c \in Tools!Clients, Tools!PushBack(c) PROVE Tools!Handover'
    <2>1. /\ c \in Subscriptions /\ pc[c] = "registered" /\ UNCHANGED receiver
          /\ pc' = [pc EXCEPT ![c] = "accepted"] /\ pc \in [Tools!Clients -> Tools!PCs]
      BY <1>1, <1>9 DEF Tools!PushBack, Tools!TypeOK
    <2>2. \A n : Tools!Queued(n)' <=> Tools!Queued(n) \/ n = c
      BY <1>9, PushBackQueue
    <2>3. \A d \in Tools!Clients : Tools!Listening(d)' => Tools!Listening(d)
      BY <2>1 DEF Tools!Listening
    <2>4. \A n : Tools!Pushed(n) => Tools!Pushed(n)'
      BY <1>2, <2>1 DEF Tools!Pushed
    <2>5. \A d \in Tools!Clients : Tools!Listening(d) => receiver[d] # c
      BY <1>1, <1>2, <2>1 DEF Tools!Handover, Tools!Pushed, Tools!Listening, Tools!Clients
    <2>6. \A d \in Legacy : pc'[d] # "accepted"
      BY <1>1, <1>2, <2>1 DEF Tools!Handover
    <2>7. QED BY <1>1, <1>2, <2>1, <2>2, <2>3, <2>4, <2>5, <2>6 DEF Tools!Handover
  <1>10. ASSUME NEW c \in Tools!Clients, Tools!PopFront(c) PROVE Tools!Handover'
    <2>1. /\ pc[c] = "accepted" /\ pc \in [Tools!Clients -> Tools!PCs]
          /\ pc' = [pc EXCEPT ![c] = "listening"]
          /\ receiver \in [Tools!Clients -> Tools!Clients]
          /\ receiver' = [receiver EXCEPT ![c] = Head(queue)]
      BY <1>1, <1>10 DEF Tools!PopFront, Tools!TypeOK
    <2>2. /\ Tools!Queued(Head(queue)) /\ Head(queue) \in Subscriptions
          /\ \A n : Tools!Queued(n)' <=> Tools!Queued(n) /\ n # Head(queue)
      BY <1>10, PopFrontQueue
    <2>3. \A d \in Tools!Clients : Tools!Listening(d)' <=> Tools!Listening(d) \/ d = c
      BY <2>1 DEF Tools!Listening
    <2>4. \A n : Tools!Pushed(n) => Tools!Pushed(n)'
      BY <1>2, <2>1 DEF Tools!Pushed
    <2>5. Tools!Pushed(Head(queue))
      BY <2>2 DEF Tools!IInv, Tools!QueueIsPushed, Tools!Queued
    <2>6. \A d \in Tools!Clients : Tools!Listening(d) => receiver[d] # Head(queue) /\ ~Tools!Queued(receiver[d])
      BY <1>1, <2>2 DEF Tools!Handover
    <2>7. c \notin Legacy /\ \A d \in Legacy : pc'[d] # "accepted"
      BY <1>1, <1>2, <2>1 DEF Tools!Handover
    <2>8. QED BY <1>1, <1>2, <2>1, <2>2, <2>3, <2>4, <2>5, <2>6, <2>7 DEF Tools!Handover
  <1>11. QED BY <1>4, <1>5, <1>6, <1>7, <1>8, <1>9, <1>10 DEF Tools!Next, Tools!Task

\* The step that matters: nobody who listens misses a change.
LEMMA NoLostUpdateStep ==
    ASSUME Tools!IInv, Tools!Next PROVE Tools!NoLostUpdate'
  <1>1. Tools!TypeOK /\ Tools!NoLostUpdate
    BY DEF Tools!IInv
  <1>2. SUFFICES ASSUME NEW c \in Tools!Clients, Tools!Listening(c)', seen'[c] # discovery'
                 PROVE  c \in told' \/ pc'[c] = "notifying" \/ Tools!Underway(receiver[c])'
    BY DEF Tools!NoLostUpdate
  <1>3. CASE Tools!Publish
    BY <1>3 DEF Tools!Publish, Tools!Underway
  <1>4. ASSUME Tools!Listening(c), seen[c] # discovery,
               receiver'[c] = receiver[c],
               c \in told => c \in told',
               pc[c] = "notifying" => c \in told' \/ pc'[c] = "notifying",
               \A d \in Tools!Clients : Tools!Recv(d) /\ receiver[d] = receiver[c] => pc'[c] = "notifying"
        PROVE  c \in told' \/ pc'[c] = "notifying" \/ Tools!Underway(receiver[c])'
    <2>1. c \in told \/ pc[c] = "notifying" \/ Tools!Underway(receiver[c])
      BY <1>1, <1>4 DEF Tools!NoLostUpdate
    <2>2. CASE Tools!Underway(receiver[c])
      <3>1. receiver[c] \in Tools!Clients /\ Tools!Upgrades(receiver[c])
        BY <1>4, HeardOnce
      <3>2. Tools!Underway(receiver[c])'
        \/ \E d \in Tools!Clients : Tools!Recv(d) /\ receiver[d] = receiver[c]
        <4>1. PICK n \in Tools!Clients : n = receiver[c]
          BY <3>1
        <4>2. Tools!Underway(n)' \/ \E d \in Tools!Clients : Tools!Recv(d) /\ receiver[d] = n
          BY <2>2, <3>1, <4>1, NewsStay
        <4>3. Tools!Underway(n)' => Tools!Underway(receiver[c])'
          BY <1>4, <4>1 DEF Tools!Underway
        <4>4. QED BY <4>1, <4>2, <4>3
      <3>3. QED BY <1>4, <3>2
    <2>3. QED BY <1>4, <2>1, <2>2
  <1>5. CASE Tools!Collect \/ Tools!Notify
    <2>1. UNCHANGED <<pc, receiver, told, seen, discovery>>
      BY <1>5 DEF Tools!Collect, Tools!Notify
    <2>2. \A d \in Tools!Clients : ~Tools!Recv(d)
      BY <1>1, <2>1 DEF Tools!Recv, Tools!TypeOK
    <2>3. QED BY <1>2, <1>4, <2>1, <2>2 DEF Tools!Listening
  <1>6. ASSUME NEW d \in Tools!Clients, Tools!Insert(d) \/ Tools!ReadDiscovery(d)
        \/ Tools!Replay(d) \/ Tools!PushBack(d) \/ Tools!Leave(d)
        PROVE  c \in told' \/ pc'[c] = "notifying" \/ Tools!Underway(receiver[c])'
    <2>1. UNCHANGED <<receiver, told, seen, discovery>>
      BY <1>6 DEF Tools!Insert, Tools!ReadDiscovery, Tools!Replay, Tools!PushBack, Tools!Leave
    <2>2. /\ Tools!Listening(c)
          /\ UNCHANGED pc[c]
          /\ \A e \in Tools!Clients : ~Tools!Recv(e)
      <3>1. pc \in [Tools!Clients -> Tools!PCs]
        BY <1>1 DEF Tools!TypeOK
      <3>2. pc'[d] \in {"inserted", "registered", "replay", "accepted", "gone"} /\ d # c
        BY <1>2, <1>6, <3>1 DEF Tools!Insert, Tools!ReadDiscovery, Tools!Replay, Tools!PushBack,
                                Tools!Leave, Tools!Listening
      <3>3. pc'[d] # "notifying" /\ \A e \in Tools!Clients \ {d} : pc'[e] = pc[e]
        BY <1>6, <3>1, <3>2 DEF Tools!Insert, Tools!ReadDiscovery, Tools!Replay, Tools!PushBack,
                                Tools!Leave
      <3>4. \A e \in Tools!Clients : ~Tools!Recv(e)
        BY <3>1, <3>3 DEF Tools!Recv
      <3>5. QED BY <1>2, <3>2, <3>3, <3>4 DEF Tools!Listening
    <2>3. QED BY <1>2, <1>4, <2>1, <2>2
  <1>7. ASSUME NEW d \in Tools!Clients, Tools!StartLegacy(d)
        PROVE  c \in told' \/ pc'[c] = "notifying" \/ Tools!Underway(receiver[c])'
    <2>1. /\ pc' = [pc EXCEPT ![d] = "listening"] /\ pc \in [Tools!Clients -> Tools!PCs] /\ pc[d] = "registered"
          /\ UNCHANGED <<receiver, told, seen, discovery, channel, pending, publisher>>
      BY <1>1, <1>7 DEF Tools!StartLegacy, Tools!TypeOK
    <2>2. CASE c = d
      <3>1. receiver[c] = c /\ Tools!Unheard(c)
        BY <1>7, <2>1, <2>2 DEF Tools!StartLegacy, Tools!IInv, Tools!Handover, Tools!Unheard
      <3>2. discovery # 0
        BY <1>1, <1>2, <2>1 DEF Tools!IInv, Tools!TypeOK
      <3>3. Tools!Underway(c)
        BY <3>1, <3>2 DEF Tools!IInv, Tools!UnheardHasNews
      <3>4. QED BY <2>1, <3>1, <3>3 DEF Tools!Underway
    <2>3. CASE c # d
      <3>1. Tools!Listening(c) /\ UNCHANGED pc[c] /\ \A e \in Tools!Clients : ~Tools!Recv(e)
        BY <1>2, <2>1, <2>3 DEF Tools!Listening, Tools!Recv
      <3>2. QED BY <1>2, <1>4, <2>1, <3>1
    <2>4. QED BY <2>2, <2>3
  <1>8. ASSUME NEW d \in Tools!Clients, Tools!PopFront(d)
        PROVE  c \in told' \/ pc'[c] = "notifying" \/ Tools!Underway(receiver[c])'
    <2>1. /\ pc' = [pc EXCEPT ![d] = "listening"] /\ pc \in [Tools!Clients -> Tools!PCs] /\ pc[d] = "accepted"
          /\ receiver \in [Tools!Clients -> Tools!Clients] /\ receiver' = [receiver EXCEPT ![d] = Head(queue)]
          /\ UNCHANGED <<told, seen, discovery, channel, pending, publisher>>
      BY <1>1, <1>8 DEF Tools!PopFront, Tools!TypeOK
    <2>2. CASE c = d
      <3>1. receiver'[c] = Head(queue) /\ Tools!Unheard(Head(queue)) /\ Head(queue) \in Tools!Clients
        BY <1>8, <2>1, <2>2, PopFrontQueue DEF Tools!Unheard, Tools!Clients
      <3>2. discovery # 0
        BY <1>1, <1>2, <2>1 DEF Tools!IInv, Tools!TypeOK
      <3>3. Tools!Underway(Head(queue))
        BY <3>1, <3>2 DEF Tools!IInv, Tools!UnheardHasNews
      <3>4. QED BY <2>1, <3>1, <3>3 DEF Tools!Underway
    <2>3. CASE c # d
      <3>1. Tools!Listening(c) /\ UNCHANGED pc[c] /\ \A e \in Tools!Clients : ~Tools!Recv(e)
        BY <1>2, <2>1, <2>3 DEF Tools!Listening, Tools!Recv
      <3>2. QED BY <1>2, <1>4, <2>1, <2>3, <3>1
    <2>4. QED BY <2>2, <2>3
  <1>9. ASSUME NEW d \in Tools!Clients, Tools!Recv(d)
        PROVE  c \in told' \/ pc'[c] = "notifying" \/ Tools!Underway(receiver[c])'
    <2>1. /\ pc' = [pc EXCEPT ![d] = "notifying"] /\ pc \in [Tools!Clients -> Tools!PCs] /\ pc[d] = "listening"
          /\ UNCHANGED <<receiver, told, seen, discovery, pending, publisher>>
          /\ channel' = channel \ {receiver[d]}
      BY <1>1, <1>9 DEF Tools!Recv, Tools!TypeOK
    <2>2. CASE c # d
      <3>1. Tools!Listening(c) /\ Tools!Listening(d) /\ UNCHANGED pc[c]
        BY <1>2, <2>1, <2>2 DEF Tools!Listening
      <3>2. receiver[c] # receiver[d]
        BY <2>2, <3>1 DEF Tools!IInv, Tools!Handover
      <3>3. c \in told \/ pc[c] = "notifying" \/ Tools!Underway(receiver[c])
        BY <1>1, <1>2, <2>1, <3>1 DEF Tools!NoLostUpdate
      <3>4. QED BY <2>1, <3>1, <3>2, <3>3 DEF Tools!Underway
    <2>3. QED BY <2>1, <2>2
  <1>10. ASSUME NEW d \in Tools!Clients, Tools!NotifyPeer(d)
         PROVE  c \in told' \/ pc'[c] = "notifying" \/ Tools!Underway(receiver[c])'
    <2>1. /\ pc' = [pc EXCEPT ![d] = "listening"] /\ pc \in [Tools!Clients -> Tools!PCs] /\ pc[d] = "notifying"
          /\ UNCHANGED <<receiver, seen, discovery, channel, pending, publisher>>
          /\ told' = told \cup {d}
      BY <1>1, <1>10 DEF Tools!NotifyPeer, Tools!TypeOK
    <2>2. Tools!Listening(c)
      BY <1>2, <2>1 DEF Tools!Listening
    <2>3. c \in told \/ pc[c] = "notifying" \/ Tools!Underway(receiver[c])
      BY <1>1, <1>2, <2>1, <2>2 DEF Tools!NoLostUpdate
    <2>4. QED BY <2>1, <2>3 DEF Tools!Underway
  <1>11. ASSUME NEW d \in Tools!Clients, Tools!ListTools(d)
         PROVE  c \in told' \/ pc'[c] = "notifying" \/ Tools!Underway(receiver[c])'
    <2>1. /\ UNCHANGED <<pc, receiver, discovery, channel, pending, publisher>>
          /\ told' = told \ {d} /\ seen' = [seen EXCEPT ![d] = discovery]
          /\ seen \in [Tools!Clients -> 0..MaxDiscovery]
      BY <1>1, <1>11 DEF Tools!ListTools, Tools!TypeOK
    <2>2. c # d /\ Tools!Listening(c) /\ seen[c] # discovery
      BY <1>2, <2>1 DEF Tools!Listening
    <2>3. c \in told \/ pc[c] = "notifying" \/ Tools!Underway(receiver[c])
      BY <1>1, <2>2 DEF Tools!NoLostUpdate
    <2>4. QED BY <2>1, <2>2, <2>3 DEF Tools!Underway
  <1>12. QED BY <1>3, <1>5, <1>6, <1>7, <1>8, <1>9, <1>10, <1>11 DEF Tools!Next, Tools!Reader,
                                                                     Tools!Task

-----------------------------------------------------------------------------
(* The theorems *)

LEMMA InitIInv == ASSUME Tools!Init PROVE Tools!IInv
  <1>1. Tools!TypeOK
    BY ToolsAssumption DEF Tools!Init, Tools!TypeOK, Tools!PCs
  <1>2. \A n \in Tools!Clients : ~Tools!Queued(n) /\ ~Tools!Upgrades(n) /\ ~Tools!Listening(n)
    <2>1. DOMAIN queue = {}
      BY DEF Tools!Init
    <2>2. \A n : ~Tools!Queued(n)
      BY <2>1 DEF Tools!Queued
    <2>3. \A c \in Tools!Clients : ~Tools!Listening(c)
      BY DEF Tools!Init, Tools!Listening
    <2>4. QED BY <2>2, <2>3 DEF Tools!Init, Tools!Upgrades
  <1>3. Tools!HeldIsListed /\ Tools!NoLostUpdate /\ Tools!Handover
    BY <1>2 DEF Tools!Init, Tools!HeldIsListed, Tools!NoLostUpdate, Tools!Handover, Tools!Clients
  <1>4. Tools!UnheardHasNews /\ Tools!QueueIsPushed
    BY DEF Tools!Init, Tools!UnheardHasNews, Tools!QueueIsPushed
  <1>5. QED BY <1>1, <1>3, <1>4 DEF Tools!Init, Tools!IInv

LEMMA NextIInv == ASSUME Tools!IInv, [Tools!Next]_(Tools!vars) PROVE Tools!IInv'
  <1>1. CASE Tools!Next
    BY <1>1, TypeStep, CounterStep, ListedStep, UnheardStep, NoLostUpdateStep, QueueStep, HandoverStep
       DEF Tools!IInv
  <1>2. CASE UNCHANGED Tools!vars
    BY <1>2 DEF Tools!vars, Tools!IInv, Tools!TypeOK, Tools!HeldIsListed, Tools!Upgrades,
                Tools!Queued, Tools!Listening, Tools!UnheardHasNews, Tools!Unheard,
                Tools!Underway, Tools!NoLostUpdate, Tools!QueueIsPushed, Tools!Pushed, Tools!Handover
  <1>3. QED BY <1>1, <1>2

\* The invariant that the others rest on (registration and publication in
\* native/src/runtime.rs, native/src/capabilities.rs and native/src/mcp.rs).
THEOREM Invariance == Tools!Spec => []Tools!IInv
  <1>1. Tools!Init => Tools!IInv
    BY InitIInv
  <1>2. Tools!IInv /\ [Tools!Next]_(Tools!vars) => Tools!IInv'
    BY NextIInv
  <1>3. QED BY <1>1, <1>2, PTL DEF Tools!Spec

\* Every variable keeps its type, for any clients and any number of changes;
\* in particular only subscriptions ever stand in the queue of notifiers.
THEOREM TypeCorrect == Tools!Spec => []Tools!TypeOK
  <1>1. Tools!IInv => Tools!TypeOK
    BY DEF Tools!IInv
  <1>2. QED BY <1>1, Invariance, PTL

\* No interleaving of registrations, publications and deliveries loses a change
\* (the comment in register_tool_list_notifier, and notify's full channel).
THEOREM NoChangeIsLost == Tools!Spec => []NoLostUpdate
  <1>1. Tools!IInv => NoLostUpdate
    BY DEF Tools!IInv, NoLostUpdate
  <1>2. QED BY <1>1, Invariance, PTL

\* Subscriptions that were accepted and have not taken a notifier yet.
Waiting == {c \in Tools!Clients : pc[c] = "accepted"}
EnoughQueued == IsFiniteSet(Waiting) /\ Cardinality(Waiting) <= Len(queue)

\* There is a notifier in the queue for everyone who waits for one: each step that
\* adds a waiting client adds a notifier, and each that takes one serves a client.
LEMMA EnoughStep ==
    ASSUME Tools!IInv, EnoughQueued, [Tools!Next]_(Tools!vars) PROVE EnoughQueued'
  <1>1. /\ pc \in [Tools!Clients -> Tools!PCs] /\ queue \in Seq(Subscriptions) /\ Len(queue) \in Nat
        /\ IsFiniteSet(Waiting) /\ Cardinality(Waiting) <= Len(queue) /\ Cardinality(Waiting) \in Nat
    BY FS_CardinalityType DEF Tools!IInv, Tools!TypeOK, EnoughQueued
  <1>2. ASSUME Waiting' \subseteq Waiting, Len(queue') = Len(queue) PROVE EnoughQueued'
    <2>1. IsFiniteSet(Waiting') /\ Cardinality(Waiting') <= Cardinality(Waiting)
          /\ Cardinality(Waiting') \in Nat
      BY <1>1, <1>2, FS_Subset, FS_CardinalityType
    <2>2. QED BY <1>1, <1>2, <2>1 DEF EnoughQueued
  <1>3. CASE Tools!Reader \/ UNCHANGED Tools!vars
    BY <1>2, <1>3 DEF Tools!Reader, Tools!Publish, Tools!Collect, Tools!Notify, Tools!vars, Waiting
  <1>4. ASSUME NEW c \in Tools!Clients,
               Tools!Insert(c) \/ Tools!ReadDiscovery(c) \/ Tools!Replay(c)
               \/ Tools!StartLegacy(c) \/ Tools!Recv(c)
               \/ Tools!NotifyPeer(c) \/ Tools!Leave(c) \/ Tools!ListTools(c)
        PROVE  EnoughQueued'
    <2>1. UNCHANGED queue
      BY <1>4 DEF Tools!Insert, Tools!ReadDiscovery, Tools!Replay, Tools!StartLegacy, Tools!Recv,
                  Tools!NotifyPeer, Tools!Leave, Tools!ListTools
    <2>2. \A d \in Tools!Clients : pc'[d] = "accepted" => pc[d] = "accepted"
      BY <1>1, <1>4 DEF Tools!Insert, Tools!ReadDiscovery, Tools!Replay, Tools!StartLegacy,
                        Tools!Recv, Tools!NotifyPeer, Tools!Leave, Tools!ListTools
    <2>3. QED BY <1>2, <2>1, <2>2 DEF Waiting
  <1>5. ASSUME NEW c \in Tools!Clients, Tools!PushBack(c) PROVE EnoughQueued'
    <2>1. Waiting' = Waiting \cup {c} /\ c \notin Waiting
      BY <1>1, <1>5 DEF Tools!PushBack, Waiting
    <2>2. Len(queue') = Len(queue) + 1
      BY <1>5, PushBackQueue
    <2>3. IsFiniteSet(Waiting') /\ Cardinality(Waiting') = Cardinality(Waiting) + 1
      BY <1>1, <2>1, FS_AddElement
    <2>4. QED BY <1>1, <2>2, <2>3 DEF EnoughQueued
  <1>6. ASSUME NEW c \in Tools!Clients, Tools!PopFront(c) PROVE EnoughQueued'
    <2>1. Waiting' = Waiting \ {c} /\ c \in Waiting
      BY <1>1, <1>6 DEF Tools!PopFront, Waiting
    <2>2. Len(queue') = Len(queue) - 1
      BY <1>6, PopFrontQueue
    <2>3. IsFiniteSet(Waiting') /\ Cardinality(Waiting') = Cardinality(Waiting) - 1
      BY <1>1, <2>1, FS_RemoveElement
    <2>4. QED BY <1>1, <2>2, <2>3 DEF EnoughQueued
  <1>7. QED BY <1>3, <1>4, <1>5, <1>6 DEF Tools!Next, Tools!Task

\* Two subscriptions never share a notifier, and one that was accepted always finds
\* one, whoever put it there (accepted_subscription_filter, listen).
THEOREM EveryoneHasAReceiver == Tools!Spec => []OwnReceiver
  <1>1. Tools!Init => Tools!IInv /\ EnoughQueued
    <2>1. Tools!Init => Waiting = {} /\ queue = <<>>
      BY DEF Tools!Init, Waiting
    <2>2. Tools!Init => EnoughQueued
      BY <2>1, FS_EmptySet DEF EnoughQueued
    <2>3. QED BY <2>2, InitIInv
  <1>2. Tools!IInv /\ EnoughQueued /\ [Tools!Next]_(Tools!vars) => (Tools!IInv /\ EnoughQueued)'
    BY NextIInv, EnoughStep
  <1>3. Tools!IInv /\ EnoughQueued => OwnReceiver
    BY DEF Tools!IInv, Tools!Handover, EnoughQueued, Waiting, OwnReceiver, Tools!OwnReceiver,
           Tools!Cardinality, Cardinality, Tools!IsFiniteSet, IsFiniteSet
  <1>4. QED BY <1>1, <1>2, <1>3, PTL DEF Tools!Spec

=============================================================================
