-------------------------- MODULE Scheduler_proofs --------------------------
(***************************************************************************)
(* The properties of Scheduler, for any set of device timers, periods,     *)
(* instruction lengths, quantum, queue size and time limit.                *)
(***************************************************************************)
EXTENDS Scheduler, FiniteSetTheorems, SequenceTheorems, WellFoundedInduction, TLAPS

-----------------------------------------------------------------------------
(* Numbers. *)

\* The order of the natural numbers.
Before == {ss \in Nat \X Nat : ss[1] < ss[2]}

\* A set of natural numbers that is not empty has a least element.
LEMMA Least ==
    ASSUME NEW T, T \subseteq Nat, T # {}
    PROVE  \E x \in T : \A y \in T : x <= y
<1>1. IsWellFoundedOn(Before, Nat)
  BY NatLessThanWellFounded DEF OpToRel, Before
<1>2. \E x \in T : \A y \in T : ~ (<<y, x>> \in Before)
  BY <1>1, WFMin, Zenon
<1>3. PICK x \in T : \A y \in T : ~ (<<y, x>> \in Before)
  BY <1>2, Zenon
<1>4. ASSUME NEW y \in T
      PROVE  x <= y
  <2>1. y \in Nat /\ x \in Nat
    OBVIOUS
  <2>2. <<y, x>> \in Nat \X Nat /\ <<y, x>>[1] = y /\ <<y, x>>[2] = x
    BY <2>1
  <2>3. ~(y < x)
    BY <1>3, <2>2, Zenon DEF Before
  <2> QED
    BY <2>1, <2>3
<1> QED
  BY <1>4

\* Values 0 .. n of the recursion that starts with x and goes on with step.
Begins(f, n, S, x, step) ==
    /\ f \in [0 .. n -> S] /\ f[0] = x
    /\ \A k \in 0 .. n : k > 0 => f[k] = step[k - 1][f[k - 1]]

\* They exist, for any n.
LEMMA BeginsExists ==
    ASSUME NEW S, NEW x \in S, NEW step \in [Nat -> [S -> S]], NEW n \in Nat
    PROVE  \E f : Begins(f, n, S, x, step)
<1> DEFINE T == {i \in Nat : ~\E f : Begins(f, i, S, x, step)}
<1> SUFFICES ASSUME T # {} PROVE FALSE OBVIOUS
<1>1. PICK i \in T : \A j \in T : i <= j
  <2>1. T \subseteq Nat OBVIOUS
  <2> HIDE DEF T
  <2> QED BY <2>1, Least
<1>2. i # 0
  <2>1. Begins([j \in 0 .. 0 |-> x], 0, S, x, step) BY DEF Begins
  <2> QED BY <2>1
<1>3. i - 1 \in Nat /\ i - 1 \notin T
  <2>1. i \in Nat /\ i - 1 \in Nat /\ ~(i <= i - 1) BY <1>2
  <2> HIDE DEF T
  <2> QED BY <1>1, <2>1
<1>4. PICK f : Begins(f, i - 1, S, x, step) BY <1>3
<1> DEFINE g == [j \in 0 .. i |-> IF j = i THEN step[i - 1][f[i - 1]] ELSE f[j]]
<1>5. Begins(g, i, S, x, step)
  <2>1. f \in [0 .. i - 1 -> S] /\ i - 1 \in 0 .. i - 1 BY <1>3, <1>4 DEF Begins
  <2>2. step[i - 1][f[i - 1]] \in S BY <1>3, <2>1
  <2>3. \A j \in 0 .. i : j # i => j \in 0 .. i - 1 BY <1>3
  <2>4. g \in [0 .. i -> S] BY <2>1, <2>2, <2>3
  <2>5. g[0] = x BY <1>2, <1>4 DEF Begins
  <2>6. ASSUME NEW j \in 0 .. i, j > 0 PROVE g[j] = step[j - 1][g[j - 1]]
    <3>1. j - 1 \in 0 .. i /\ j - 1 # i /\ g[j - 1] = f[j - 1] BY <2>6
    <3>2. CASE j = i BY <3>1, <3>2
    <3>3. CASE j # i
      <4>1. g[j] = f[j] /\ j \in 0 .. i - 1 BY <2>3, <3>3
      <4>2. f[j] = step[j - 1][f[j - 1]] BY <1>4, <2>6, <4>1 DEF Begins
      <4> QED BY <3>1, <4>1, <4>2
    <3> QED BY <3>2, <3>3
  <2> HIDE DEF g
  <2> QED BY <2>4, <2>5, <2>6 DEF Begins
<1> QED BY <1>5

-----------------------------------------------------------------------------
(* The list. *)

\* No timer is in the list twice, and no entry expires before the one ahead of it.
Sorted(list, expire) ==
    \A i, j \in 1 .. Len(list) :
        i < j => list[i] # list[j] /\ expire[list[i]] <= expire[list[j]]

\* Never is later than the screen of any slice.
LEMMA Numbers ==
    /\ Never \in Nat /\ Frame \in Nat /\ MaxTime \in Nat /\ 0 < Frame
    /\ MaxTime + 2 * Frame < Never
BY SchedulerAssumption, SMT DEF Never

\* r is b after a.
Join(r, S, a, b) ==
    /\ r \in Seq(S) /\ Len(r) = Len(a) + Len(b)
    /\ \A i \in 1 .. Len(a) : r[i] = a[i]
    /\ \A i \in 1 .. Len(b) : r[Len(a) + i] = b[i]

\* What \o returns.
LEMMA Joined ==
    ASSUME NEW S, NEW a \in Seq(S), NEW b \in Seq(S) PROVE Join(a \o b, S, a, b)
BY ConcatProperties DEF Join

\* r is list with t at place p.
Insertion(r, list, p, t) ==
    /\ r \in Seq(Timers) /\ Len(r) = Len(list) + 1 /\ r[p] = t
    /\ \A i \in 1 .. Len(list) : i < p => r[i] = list[i]
    /\ \A i \in 1 .. Len(list) : i >= p => r[i + 1] = list[i]

\* What InsertAt returns.
LEMMA InsertedAt ==
    ASSUME NEW list \in Seq(Timers), NEW t \in Timers, NEW p \in 1 .. Len(list) + 1
    PROVE  Insertion(InsertAt(list, p, t), list, p, t)
<1> DEFINE r == InsertAt(list, p, t)
<1>1. PICK low \in Seq(Timers) :
         low = SubSeq(list, 1, p - 1) /\ Len(low) = p - 1 /\ \A i \in 1..p - 1 : low[i] = list[i]
  <2>1. /\ SubSeq(list, 1, p - 1) \in Seq(Timers) /\ Len(SubSeq(list, 1, p - 1)) = p - 1
        /\ \A i \in 1..p - 1 : SubSeq(list, 1, p - 1)[i] = list[i]
    OBVIOUS
  <2> QED BY <2>1, Zenon
<1>2. PICK high \in Seq(Timers) :
         /\ high = SubSeq(list, p, Len(list)) /\ Len(high) = Len(list) + 1 - p
         /\ \A i \in 1..Len(list) + 1 - p : high[i] = list[p - 1 + i]
  <2>1. /\ SubSeq(list, p, Len(list)) \in Seq(Timers)
        /\ Len(SubSeq(list, p, Len(list))) = Len(list) + 1 - p
        /\ \A i \in 1..Len(list) + 1 - p : SubSeq(list, p, Len(list))[i] = list[p - 1 + i]
    OBVIOUS
  <2> QED BY <2>1, Zenon
<1>3. r = (low \o <<t>>) \o high BY <1>1, <1>2 DEF InsertAt
<1> HIDE DEF r
<1>4. PICK mid \in Seq(Timers) :
        /\ mid = low \o <<t>> /\ Len(mid) = p /\ mid[p] = t
        /\ \A i \in 1 .. p - 1 : mid[i] = low[i]
  <2>1. /\ low \o <<t>> \in Seq(Timers) /\ Len(low \o <<t>>) = p /\ (low \o <<t>>)[p] = t
        /\ \A i \in 1 .. p - 1 : (low \o <<t>>)[i] = low[i]
    BY <1>1
  <2> QED BY <2>1, Zenon
<1>5. /\ mid \o high \in Seq(Timers) /\ Len(mid \o high) = Len(list) + 1
      /\ \A i \in 1 .. p : (mid \o high)[i] = mid[i]
      /\ \A i \in 1 .. Len(high) : (mid \o high)[p + i] = high[i]
  <2>1. Join(mid \o high, Timers, mid, high) BY Joined, Zenon
  <2>2. p = Len(mid) BY <1>4
  <2>3. p + Len(high) = Len(list) + 1 BY <1>2
  <2> QED BY <2>1, <2>2, <2>3 DEF Join
<1>6. r = mid \o high BY <1>3, <1>4
<1>7. r[p] = t BY <1>4, <1>5, <1>6
<1>8. ASSUME NEW i \in 1 .. Len(list), i < p PROVE r[i] = list[i]
  <2>1. i \in 1 .. p /\ i \in 1 .. p - 1 BY <1>8
  <2> QED BY <1>1, <1>4, <1>5, <1>6, <2>1
<1>9. ASSUME NEW i \in 1 .. Len(list), i >= p PROVE r[i + 1] = list[i]
  <2> DEFINE k == i + 1 - p
  <2>1. k \in 1 .. Len(high) /\ p + k = i + 1 /\ p - 1 + k = i BY <1>2, <1>9
  <2>2. k \in 1 .. Len(list) + 1 - p BY <1>2, <2>1
  <2>3. r[p + k] = high[k] /\ high[k] = list[p - 1 + k]
    <3> HIDE DEF k
    <3> QED BY <1>2, <1>5, <1>6, <2>1, <2>2
  <2> QED BY <2>1, <2>3
<1>10. Insertion(r, list, p, t) BY <1>5, <1>6, <1>7, <1>8, <1>9 DEF Insertion
<1> QED BY <1>10, Zenon DEF r

\* What RemoveAt returns.
LEMMA RemovedAt ==
    ASSUME NEW list \in Seq(Timers), NEW p \in 1 .. Len(list), NEW r, r = RemoveAt(list, p)
    PROVE  /\ r \in Seq(Timers) /\ Len(r) = Len(list) - 1
           /\ \A i \in 1 .. Len(list) - 1 : r[i] = IF i < p THEN list[i] ELSE list[i + 1]
<1>1. PICK low \in Seq(Timers) :
         low = SubSeq(list, 1, p - 1) /\ Len(low) = p - 1 /\ \A i \in 1..p - 1 : low[i] = list[i]
  <2>1. /\ SubSeq(list, 1, p - 1) \in Seq(Timers) /\ Len(SubSeq(list, 1, p - 1)) = p - 1
        /\ \A i \in 1..p - 1 : SubSeq(list, 1, p - 1)[i] = list[i]
    OBVIOUS
  <2> QED BY <2>1, Zenon
<1>2. PICK high \in Seq(Timers) :
         /\ high = SubSeq(list, p + 1, Len(list)) /\ Len(high) = Len(list) - p
         /\ \A i \in 1..Len(list) - p : high[i] = list[p + i]
  <2>1. /\ SubSeq(list, p + 1, Len(list)) \in Seq(Timers)
        /\ Len(SubSeq(list, p + 1, Len(list))) = Len(list) - p
        /\ \A i \in 1..Len(list) - p : SubSeq(list, p + 1, Len(list))[i] = list[p + i]
    OBVIOUS
  <2> QED BY <2>1, Zenon
<1>3. r = low \o high BY <1>1, <1>2 DEF RemoveAt
<1>5. /\ low \o high \in Seq(Timers) /\ Len(low \o high) = Len(list) - 1
      /\ \A i \in 1 .. p - 1 : (low \o high)[i] = low[i]
      /\ \A i \in 1 .. Len(high) : (low \o high)[(p - 1) + i] = high[i]
  <2>1. Join(low \o high, Timers, low, high) BY Joined, Zenon
  <2>2. p - 1 = Len(low) BY <1>1
  <2>3. (p - 1) + Len(high) = Len(list) - 1 BY <1>2
  <2> QED BY <2>1, <2>2, <2>3 DEF Join
<1>8. ASSUME NEW i \in 1 .. Len(list) - 1, i < p PROVE r[i] = list[i]
  <2>1. i \in 1 .. p - 1 BY <1>8
  <2> QED BY <1>1, <1>3, <1>5, <2>1
<1>9. ASSUME NEW i \in 1 .. Len(list) - 1, ~(i < p) PROVE r[i] = list[i + 1]
  <2> DEFINE k == i + 1 - p
  <2>1. k \in 1 .. Len(high) /\ (p - 1) + k = i /\ p + k = i + 1 BY <1>2, <1>9
  <2>2. k \in 1 .. Len(list) - p BY <1>2, <2>1
  <2>3. r[(p - 1) + k] = high[k] /\ high[k] = list[p + k]
    <3> HIDE DEF k
    <3> QED BY <1>2, <1>3, <1>5, <2>1, <2>2
  <2> QED BY <2>1, <2>3
<1> QED BY <1>3, <1>5, <1>8, <1>9

\* r is the list with t in it at its place.
Placed(r, list, t, expire) ==
    r \in Seq(Timers) /\ Sorted(r, expire) /\ ToSet(r) = ToSet(list) \cup {t}

\* Inserting a timer that is not in a sorted list keeps the list sorted, provided
\* a disabled timer has no time of its own.
LEMMA Inserted ==
    ASSUME NEW list \in Seq(Timers), NEW t \in Timers,
           NEW enabled, NEW expire \in [Timers -> 0 .. Never],
           ~enabled[t] => expire[t] = Never,
           Sorted(list, expire), t \notin ToSet(list)
    PROVE  Placed(timer_list_insert(list, t, enabled, expire), list, t, expire)
<1> SUFFICES ASSUME NEW r, r = timer_list_insert(list, t, enabled, expire)
             PROVE  Placed(r, list, t, expire)
  BY Zenon
<1> DEFINE Later == {i \in DOMAIN list : expire[list[i]] > expire[t]}
<1>0. /\ DOMAIN list = 1 .. Len(list) /\ Len(list) \in Nat
      /\ \A i \in 1 .. Len(list) : list[i] \in Timers /\ list[i] # t
  BY DEF ToSet
<1>1. r = IF Later = {} THEN Append(list, t)
          ELSE InsertAt(list, CHOOSE i \in Later : \A j \in Later : i <= j, t)
  <2>1. expire[t] = IF enabled[t] THEN expire[t] ELSE Never
    <3>1. CASE enabled[t] BY <3>1, Zenon
    <3>2. CASE ~enabled[t] BY <3>2, Zenon
    <3> QED BY <3>1, <3>2, Zenon
  <2>2. timer_list_insert(list, t, enabled, expire) =
            LET Above == {i \in DOMAIN list :
                              expire[list[i]] > IF enabled[t] THEN expire[t] ELSE Never}
            IN  IF Above = {} THEN Append(list, t)
                ELSE InsertAt(list, CHOOSE i \in Above : \A j \in Above : i <= j, t)
    BY Zenon DEF timer_list_insert
  <2> QED BY <2>1, <2>2, Zenon
<1>2. \E p \in 1 .. Len(list) + 1 :
        /\ r = InsertAt(list, p, t) \/ (p = Len(list) + 1 /\ r = Append(list, t))
        /\ \A i \in 1 .. Len(list) : i < p => expire[list[i]] <= expire[t]
        /\ p <= Len(list) => expire[t] <= expire[list[p]]
  <2>1. CASE Later = {}
    <3>1. \A i \in 1 .. Len(list) : expire[list[i]] <= expire[t] BY <1>0, <2>1
    <3>2. r = Append(list, t) BY <1>1, <2>1
    <3>3. /\ Len(list) + 1 \in 1 .. Len(list) + 1 /\ ~(Len(list) + 1 <= Len(list))
      BY <1>0
    <3> HIDE DEF Later
    <3> QED BY <3>1, <3>2, <3>3
  <2>2. CASE Later # {}
    <3> DEFINE p == CHOOSE i \in Later : \A j \in Later : i <= j
    <3>1. p \in Later /\ \A j \in Later : p <= j
      <4>1. Later \subseteq Nat BY <1>0
      <4> HIDE DEF Later
      <4> QED BY <2>2, <4>1, Least
    <3>2. r = InsertAt(list, p, t) BY <1>1, <2>2
    <3> HIDE DEF p
    <3>3. p \in 1 .. Len(list) /\ expire[t] <= expire[list[p]] BY <1>0, <3>1
    <3>4. ASSUME NEW i \in 1 .. Len(list), i < p PROVE expire[list[i]] <= expire[t]
      <4>1. i \notin Later BY <1>0, <3>1, <3>3, <3>4
      <4> QED BY <1>0, <4>1
    <3> QED BY <3>2, <3>3, <3>4
  <2> QED BY <2>1, <2>2
<1>3. PICK p \in 1 .. Len(list) + 1 :
        /\ r = InsertAt(list, p, t) \/ (p = Len(list) + 1 /\ r = Append(list, t))
        /\ \A i \in 1 .. Len(list) : i < p => expire[list[i]] <= expire[t]
        /\ p <= Len(list) => expire[t] <= expire[list[p]]
  BY <1>2
<1>4. /\ r \in Seq(Timers) /\ Len(r) = Len(list) + 1 /\ r[p] = t
      /\ \A i \in 1 .. Len(list) : i < p => r[i] = list[i]
      /\ \A i \in 1 .. Len(list) : i >= p => r[i + 1] = list[i]
  <2>1. CASE r = InsertAt(list, p, t)
    <3>1. p \in 1 .. Len(list) + 1 OBVIOUS
    <3>2. Insertion(r, list, p, t) BY <2>1, <3>1, InsertedAt, Zenon
    <3> QED BY <3>2, Zenon DEF Insertion
  <2>2. CASE p = Len(list) + 1 /\ r = Append(list, t)
    <3>1. /\ r \in Seq(Timers) /\ Len(r) = Len(list) + 1 /\ r[p] = t
          /\ \A i \in 1 .. Len(list) : r[i] = list[i]
      BY <2>2
    <3> QED BY <1>0, <2>2, <3>1
  <2> QED BY <1>3, <2>1, <2>2
\* Where an entry of the new list comes from.
<1> DEFINE from(i) == IF i < p THEN i ELSE i - 1
<1>5. \A i \in 1 .. Len(r) : i # p => from(i) \in 1 .. Len(list) /\ r[i] = list[from(i)]
  <2> SUFFICES ASSUME NEW i \in 1 .. Len(r), i # p
               PROVE  from(i) \in 1 .. Len(list) /\ r[i] = list[from(i)]
    OBVIOUS
  <2>1. CASE i < p
    <3>1. i \in 1 .. Len(list) BY <1>0, <1>4, <2>1
    <3> QED BY <1>4, <2>1, <3>1
  <2>2. CASE i > p
    <3>1. i - 1 \in 1 .. Len(list) /\ i - 1 >= p /\ (i - 1) + 1 = i BY <1>0, <1>4, <2>2
    <3>2. r[(i - 1) + 1] = list[i - 1] BY <1>4, <3>1
    <3> QED BY <2>2, <3>1, <3>2
  <2> QED BY <2>1, <2>2
<1>6. Sorted(r, expire)
  <2> SUFFICES ASSUME NEW i \in 1 .. Len(r), NEW j \in 1 .. Len(r), i < j
               PROVE  r[i] # r[j] /\ expire[r[i]] <= expire[r[j]]
    BY DEF Sorted
  <2>1. CASE i # p /\ j # p
    <3>1. from(i) \in 1 .. Len(list) /\ from(j) \in 1 .. Len(list)
      <4> HIDE DEF from
      <4> QED BY <1>5, <2>1
    <3>0. from(i) < from(j) BY <1>0, <1>4, <2>1
    <3>2. r[i] = list[from(i)] /\ r[j] = list[from(j)] BY <1>5, <2>1
    <3> HIDE DEF from
    <3> QED BY <3>0, <3>1, <3>2 DEF Sorted
  <2>2. CASE i = p
    <3>0. j - 1 \in 1 .. Len(list) /\ p <= j - 1 /\ p <= Len(list) /\ p \in 1 .. Len(list)
          /\ (j - 1) + 1 = j
      BY <1>0, <1>4, <2>2
    <3>1. j - 1 \in 1 .. Len(list) /\ r[j] = list[j - 1] /\ p <= j - 1 /\ p <= Len(list)
          /\ p \in 1 .. Len(list)
      <4>1. r[(j - 1) + 1] = list[j - 1] BY <1>4, <3>0
      <4> QED BY <3>0, <4>1
    <3>2. expire[list[p]] <= expire[list[j - 1]]
      <4>1. CASE p = j - 1 BY <1>0, <3>1, <4>1
      <4>2. CASE p < j - 1 BY <3>1, <4>2 DEF Sorted
      <4> QED BY <3>1, <4>1, <4>2
    <3>3. expire[t] <= expire[list[p]] BY <1>3, <3>1
    <3>4. /\ expire[t] \in Nat /\ expire[list[p]] \in Nat /\ expire[list[j - 1]] \in Nat
          /\ list[j - 1] # t
      BY <1>0, <3>1
    <3>5. r[i] = t /\ r[j] = list[j - 1] BY <1>4, <2>2, <3>1
    <3>6. expire[t] <= expire[list[j - 1]] BY <3>2, <3>3, <3>4
    <3> QED BY <3>4, <3>5, <3>6, Zenon
  <2>3. CASE j = p
    <3>1. i \in 1 .. Len(list) /\ r[i] = list[i] /\ i < p BY <1>0, <1>4, <1>5, <2>3
    <3> QED BY <1>0, <1>3, <1>4, <2>3, <3>1
  <2> QED BY <2>1, <2>2, <2>3
<1>7. ToSet(r) = ToSet(list) \cup {t}
  <2>1. DOMAIN r = 1 .. Len(r) BY <1>4
  <2>2. ASSUME NEW u \in ToSet(r) PROVE u \in ToSet(list) \cup {t}
    <3>1. PICK i \in 1 .. Len(r) : u = r[i] BY <2>1 DEF ToSet
    <3>2. CASE i = p BY <1>4, <3>1, <3>2
    <3>3. CASE i # p
      <4>1. from(i) \in 1 .. Len(list) /\ u = list[from(i)] BY <1>5, <3>1, <3>3
      <4> HIDE DEF from
      <4> QED BY <1>0, <4>1 DEF ToSet
    <3> QED BY <3>2, <3>3
  <2>3. ASSUME NEW i \in 1 .. Len(list) PROVE list[i] \in ToSet(r)
    <3>1. CASE i < p
      <4>1. i \in 1 .. Len(r) /\ r[i] = list[i] BY <1>0, <1>4, <3>1
      <4> QED BY <2>1, <4>1 DEF ToSet
    <3>2. CASE i >= p
      <4>1. i + 1 \in 1 .. Len(r) /\ r[i + 1] = list[i] BY <1>0, <1>4, <3>2
      <4> QED BY <2>1, <4>1 DEF ToSet
    <3> QED BY <3>1, <3>2
  <2>4. t \in ToSet(r)
    <3>1. p \in 1 .. Len(r) BY <1>0, <1>4
    <3> QED BY <1>4, <2>1, <3>1 DEF ToSet
  <2>5. ToSet(list) \subseteq ToSet(r)
    <3>1. \A u \in ToSet(list) : \E i \in 1 .. Len(list) : u = list[i] BY <1>0 DEF ToSet
    <3> QED BY <2>3, <3>1
  <2> QED BY <2>2, <2>4, <2>5
<1> QED BY <1>4, <1>6, <1>7, Zenon DEF Placed

\* A list without t.
LEMMA RemovedOne ==
    ASSUME NEW list \in Seq(Timers), NEW t, NEW expire, Sorted(list, expire),
           NEW r, r = timer_list_remove(list, t)
    PROVE  r \in Seq(Timers) /\ Sorted(r, expire) /\ ToSet(r) = ToSet(list) \ {t}
<1>0. DOMAIN list = 1 .. Len(list) /\ Len(list) \in Nat OBVIOUS
<1>1. CASE t \notin ToSet(list)
  <2>1. r = list BY <1>1 DEF timer_list_remove
  <2> QED BY <1>1, <2>1
<1>2. CASE t \in ToSet(list)
  <2> DEFINE p == CHOOSE i \in DOMAIN list : list[i] = t
  <2>1. p \in 1 .. Len(list) /\ list[p] = t BY <1>0, <1>2 DEF ToSet
  <2>2. r = RemoveAt(list, p) BY <1>2 DEF timer_list_remove
  <2> HIDE DEF p
  <2>3. /\ r \in Seq(Timers) /\ Len(r) = Len(list) - 1
        /\ \A i \in 1 .. Len(list) - 1 : r[i] = IF i < p THEN list[i] ELSE list[i + 1]
    BY <2>1, <2>2, RemovedAt
  <2>4. \A i \in 1 .. Len(list) : i # p => list[i] # t
    <3> SUFFICES ASSUME NEW i \in 1 .. Len(list), i # p PROVE list[i] # t OBVIOUS
    <3>1. CASE i < p BY <2>1, <3>1 DEF Sorted
    <3>2. CASE p < i BY <2>1, <3>2 DEF Sorted
    <3> QED BY <2>1, <3>1, <3>2
  <2> DEFINE from(i) == IF i < p THEN i ELSE i + 1
  <2>5. \A i \in 1 .. Len(r) :
            r[i] = list[from(i)] /\ from(i) \in 1 .. Len(list) /\ from(i) # p
    BY <1>0, <2>1, <2>3
  <2>6. \A i, j \in 1 .. Len(r) : i < j => from(i) < from(j) BY <2>1, <2>3
  <2>7. \A i \in 1 .. Len(list) : i # p => \E j \in 1 .. Len(r) : from(j) = i
    <3> SUFFICES ASSUME NEW i \in 1 .. Len(list), i # p
                 PROVE  \E j \in 1 .. Len(r) : from(j) = i
      OBVIOUS
    <3>1. CASE i < p
      <4>1. i \in 1 .. Len(r) BY <1>0, <2>1, <2>3, <3>1
      <4> QED BY <3>1, <4>1
    <3>2. CASE i > p
      <4>1. i - 1 \in 1 .. Len(r) /\ ~(i - 1 < p) /\ (i - 1) + 1 = i
        BY <1>0, <2>1, <2>3, <3>2
      <4> QED BY <4>1
    <3> QED BY <2>1, <3>1, <3>2
  <2> HIDE DEF from
  <2>8. Sorted(r, expire)
    <3> SUFFICES ASSUME NEW i \in 1 .. Len(r), NEW j \in 1 .. Len(r), i < j
                 PROVE  r[i] # r[j] /\ expire[r[i]] <= expire[r[j]]
      BY DEF Sorted
    <3>1. from(i) < from(j) /\ from(i) \in 1 .. Len(list) /\ from(j) \in 1 .. Len(list)
      BY <2>5, <2>6
    <3>2. r[i] = list[from(i)] /\ r[j] = list[from(j)] BY <2>5
    <3> QED BY <3>1, <3>2 DEF Sorted
  <2>9. DOMAIN r = 1 .. Len(r) BY <2>3
  <2>10. ASSUME NEW u \in ToSet(r) PROVE u \in ToSet(list) /\ u # t
    <3>1. PICK i \in 1 .. Len(r) : u = r[i] BY <2>9 DEF ToSet
    <3>2. u = list[from(i)] /\ from(i) \in 1 .. Len(list) /\ from(i) # p BY <2>5, <3>1
    <3> QED BY <1>0, <2>4, <3>2 DEF ToSet
  <2>11. ASSUME NEW u \in ToSet(list), u # t PROVE u \in ToSet(r)
    <3>1. PICK i \in 1 .. Len(list) : u = list[i] BY <1>0 DEF ToSet
    <3>2. PICK j \in 1 .. Len(r) : from(j) = i BY <2>1, <2>7, <2>11, <3>1
    <3>3. r[j] = u BY <2>5, <3>1, <3>2
    <3> QED BY <2>9, <3>3 DEF ToSet
  <2>12. ToSet(r) = ToSet(list) \ {t} BY <2>10, <2>11
  <2> QED BY <2>3, <2>8, <2>12
<1> QED BY <1>1, <1>2

\* A timer is taken out, given another time, and put back.
LEMMA Moved ==
    ASSUME NEW list \in Seq(Timers), NEW t \in Timers,
           NEW expire, Sorted(list, expire),
           NEW enabled, NEW later \in [Timers -> 0 .. Never],
           \A u \in Timers : u # t => later[u] = expire[u],
           ~enabled[t] => later[t] = Never
    PROVE  Placed(timer_list_insert(timer_list_remove(list, t), t, enabled, later), list, t, later)
<1> DEFINE r == timer_list_insert(timer_list_remove(list, t), t, enabled, later)
        rest == timer_list_remove(list, t)
<1>1. rest \in Seq(Timers) /\ Sorted(rest, expire) /\ ToSet(rest) = ToSet(list) \ {t}
  BY RemovedOne
<1> HIDE DEF rest
<1>2. \A i \in 1 .. Len(rest) : rest[i] \in Timers /\ rest[i] # t
  <2>1. \A i \in 1 .. Len(rest) : rest[i] \in ToSet(rest) BY <1>1 DEF ToSet
  <2> QED BY <1>1, <2>1
<1>3. Sorted(rest, later)
  <2>1. \A i \in 1 .. Len(rest) : later[rest[i]] = expire[rest[i]] BY <1>2
  <2> QED BY <1>1, <2>1 DEF Sorted
<1>4. t \notin ToSet(rest) BY <1>1
<1>5. r = timer_list_insert(rest, t, enabled, later) BY DEF rest
<1> HIDE DEF r
<1>6. Placed(timer_list_insert(rest, t, enabled, later), rest, t, later)
  BY <1>1, <1>3, <1>4, Inserted, Zenon
<1>7. Placed(r, list, t, later) BY <1>1, <1>5, <1>6 DEF Placed
<1> QED BY <1>7, Zenon DEF r

\* The head of a sorted list.
LEMMA HeadIsLeast ==
    ASSUME NEW list \in Seq(Timers), NEW expire \in [Timers -> 0 .. Never],
           Sorted(list, expire), NEW t \in ToSet(list)
    PROVE  /\ Head(list) \in Timers /\ Head(list) \in ToSet(list)
           /\ expire[Head(list)] <= expire[t]
<1>1. PICK i \in 1 .. Len(list) : t = list[i] BY DEF ToSet
<1>2. list # <<>> /\ Head(list) = list[1] /\ 1 \in 1 .. Len(list) BY <1>1
<1>3. Head(list) \in Timers /\ Head(list) \in ToSet(list) BY <1>2 DEF ToSet
<1>4. CASE i = 1
  <2>1. Head(list) = t BY <1>1, <1>2, <1>4
  <2>2. expire[t] \in Nat BY <1>3, <2>1
  <2> QED BY <1>3, <2>1, <2>2
<1>5. CASE 1 < i
  <2>1. expire[list[1]] <= expire[list[i]] BY <1>1, <1>2, <1>5 DEF Sorted
  <2> QED BY <1>1, <1>2, <1>3, <2>1
<1> QED BY <1>1, <1>3, <1>4, <1>5

-----------------------------------------------------------------------------
(* The invariant. *)

Phases == {"idle", "slice", "run", "timers", "callback", "called"}
SavedStates ==
    [m_enabled : [Perms -> BOOLEAN], m_expire : [Perms -> 0 .. Never],
     m_period : [Perms -> Nat \ {0}], m_basetime : Nat, m_localtime : Nat,
     m_curstate : States, m_ipl : States, requests : States]

TimersType ==
    /\ m_timer_list \in Seq(Timers) /\ m_enabled \in [Timers -> BOOLEAN]
    /\ m_expire \in [Timers -> 0 .. Never] /\ m_period \in [Timers -> Nat \ {0}]
CpuType ==
    /\ m_basetime \in Nat /\ m_localtime \in Nat /\ phase \in Phases
    /\ target \in Nat /\ now \in Nat /\ stop \in Nat
CallType ==
    /\ m_callback_timer \in Timers \cup {NoTimer} /\ m_callback_timer_modified \in BOOLEAN
    /\ m_callback_timer_expire_time \in Nat
LineType ==
    /\ m_queue \in Seq(States) /\ m_curstate \in States /\ m_ipl \in States
    /\ requests \in States
StateType == saved \in SavedStates \cup {NoState} /\ dropped \in BOOLEAN
TypeOK == TimersType /\ CpuType /\ CallType /\ LineType /\ StateType

\* How late a callback may be.
Late == LongestInstruction * Cycle
Called == phase \in {"callback", "called"}

\* The list is sorted by the times of its timers, enabled or not.
ListIsSorted ==
    /\ Sorted(m_timer_list, m_expire)
    /\ Perms \cup {Sentinel} \subseteq ToSet(m_timer_list)
    /\ \A t \in Timers : t \notin ToSet(m_timer_list) => m_expire[t] = Never

\* A disabled timer has no time, but for the one whose callback runs.
TimersAreSound ==
    /\ m_enabled[Screen] /\ m_period[Screen] = Frame
    /\ m_enabled[Sentinel] /\ m_expire[Sentinel] = Never
    /\ \A t \in Timers :
           ~m_enabled[t] => \/ m_expire[t] = Never
                            \/ Called /\ t = m_callback_timer /\ ~m_callback_timer_modified

\* The callback that runs.
CallIsSound ==
    /\ phase \in {"idle", "slice", "run"} => m_callback_timer = NoTimer
    /\ Called =>
        /\ m_callback_timer \in ToSet(m_timer_list) \ {Sentinel}
        /\ m_callback_timer_expire_time <= m_basetime
        /\ m_basetime <= m_callback_timer_expire_time + Late
        /\ ~m_callback_timer_modified =>
              /\ m_expire[m_callback_timer] = m_callback_timer_expire_time
              /\ ~m_enabled[m_callback_timer] => m_period[m_callback_timer] >= Never

\* The base time is a frame from the screen's timer at most, and less than a
\* cycle ahead of the CPU.
ClockIsSound(base, local, first) ==
    /\ base <= first /\ first <= base + Frame
    /\ base < MaxTime + Frame /\ base < local + Cycle

\* The CPU runs: no timer is behind it, and none before the end of its slice
\* unless it is about to give way.
RunIsSound ==
    /\ now <= target /\ m_basetime <= target /\ target <= m_expire[Screen]
    /\ stop <= target /\ m_basetime < now + Cycle
    /\ \A t \in Timers : now <= m_expire[t] /\ (now < stop => target <= m_expire[t])

\* No timer is further behind the base time than an instruction.
TimeIsSound ==
    /\ ClockIsSound(m_basetime, m_localtime, m_expire[Screen])
    /\ phase \in {"slice", "run"} => m_expire[Screen] < MaxTime + Frame
    /\ phase # "run" => \A t \in Timers : m_basetime <= m_expire[t] + Late
    /\ phase = "run" => RunIsSound

\* An armed timer, or its callback, will apply the events of the line.
Awaited == \E t \in ToSet(m_timer_list) \cap Temps : m_enabled[t] /\ m_expire[t] < Never
Pending == (phase = "callback" /\ m_callback_timer \in Temps) \/ Awaited

\* The last event that waits is the state the owner gave last.
QueueIsSound ==
    /\ Len(m_queue) <= QueueSize
    /\ ~dropped => IF m_queue = <<>> THEN m_curstate = m_ipl
                   ELSE Last(m_queue) = m_ipl /\ Pending
    /\ phase = "called" /\ m_callback_timer \in Temps => m_queue = <<>> \/ dropped

\* A state holds what the timers and the line were between two slices.
SavedIsSound ==
    saved # NoState =>
        /\ saved.m_enabled[Screen] /\ saved.m_period[Screen] = Frame
        /\ \A t \in Perms : ~saved.m_enabled[t] => saved.m_expire[t] = Never
        /\ ClockIsSound(saved.m_basetime, saved.m_localtime, saved.m_expire[Screen])
        /\ \A t \in Perms : saved.m_basetime <= saved.m_expire[t] + Late
        /\ ~dropped => saved.m_curstate = saved.m_ipl

IInv ==
    /\ TypeOK /\ ListIsSorted /\ TimersAreSound /\ CallIsSound /\ TimeIsSound
    /\ QueueIsSound /\ SavedIsSound

-----------------------------------------------------------------------------
\* A finite set of numbers that is not empty has a greatest element.
LEMMA FiniteMax ==
    ASSUME NEW S, S \subseteq Nat, S # {}, IsFiniteSet(S)
    PROVE  \E x \in S : \A y \in S : y <= x
<1> DEFINE Bad(n) == \E U : U \subseteq Nat /\ U # {} /\ IsFiniteSet(U) /\ Cardinality(U) = n
                               /\ ~\E x \in U : \A y \in U : y <= x
           T == {n \in Nat : Bad(n)}
<1> SUFFICES ASSUME T # {} PROVE FALSE BY FS_CardinalityType
<1>1. PICK n \in T : \A m \in T : n <= m
  <2>1. T \subseteq Nat OBVIOUS
  <2> HIDE DEF T
  <2> QED BY <2>1, Least
<1>2. PICK U : /\ U \subseteq Nat /\ U # {} /\ IsFiniteSet(U) /\ Cardinality(U) = n
               /\ ~\E x \in U : \A y \in U : y <= x
  OBVIOUS
<1>3. PICK x : x \in U BY <1>2
<1> DEFINE V == U \ {x}
<1>4. IsFiniteSet(V) /\ Cardinality(V) = n - 1 BY <1>2, <1>3, FS_RemoveElement
<1>5. V # {} BY <1>2, <1>3
<1>6. PICK m \in V : \A y \in V : y <= m
  <2>1. Cardinality(V) \in Nat BY <1>4, FS_CardinalityType
  <2>2. n - 1 \in Nat /\ ~(n <= n - 1) BY <1>4, <2>1
  <2>3. ~Bad(n - 1)
    <3> HIDE DEF Bad
    <3> QED BY <1>1, <2>2
  <2> QED BY <1>2, <1>4, <1>5, <2>3
<1>7. x \in Nat /\ m \in Nat BY <1>2, <1>3
<1>8. CASE x <= m BY <1>2, <1>6, <1>7, <1>8
<1>9. CASE m <= x
  <2>1. \A y \in U : y <= x BY <1>2, <1>6, <1>7, <1>9
  <2> QED BY <1>2, <1>3, <2>1
<1> QED BY <1>7, <1>8, <1>9

\* No instruction is longer than the longest, and none is shorter than a cycle.
LEMMA Longest ==
    /\ Late \in Nat /\ Cycle <= Late
    /\ \A n \in Lengths : n * Cycle \in Nat /\ n * Cycle <= Late /\ n * Cycle >= Cycle
<1>1. /\ Lengths \subseteq Nat \ {0} /\ Lengths # {} /\ IsFiniteSet(Lengths)
      /\ Cycle \in Nat \ {0}
  BY SchedulerAssumption
<1>2. \E x \in Lengths : \A y \in Lengths : y <= x BY <1>1, FiniteMax
<1>3. LongestInstruction \in Lengths /\ \A k \in Lengths : k <= LongestInstruction
  BY <1>2 DEF LongestInstruction
<1>4. \A a, b \in Nat \ {0} :
         a <= b => a * Cycle \in Nat /\ a * Cycle <= b * Cycle /\ a * Cycle >= Cycle
  BY <1>1
<1>5. ASSUME NEW n \in Lengths
      PROVE  n * Cycle \in Nat /\ n * Cycle <= Late /\ n * Cycle >= Cycle /\ Late \in Nat
  BY <1>1, <1>3, <1>4 DEF Late
<1>6. Late \in Nat /\ Cycle <= Late
  BY <1>1, <1>3, <1>4 DEF Late
<1> QED BY <1>5, <1>6

\* Whole cycles up to a time do not pass it.
LEMMA WholeCycles ==
    ASSUME NEW x \in Nat PROVE Cycle * (x \div Cycle) \in Nat /\ Cycle * (x \div Cycle) <= x
<1>1. Cycle \in Nat \ {0} BY SchedulerAssumption
<1>2. \A c \in Nat \ {0} : x = c * (x \div c) + (x % c) /\ x % c >= 0 /\ (x \div c) \in Nat OBVIOUS
<1>3. \A c, q \in Nat : c * q \in Nat OBVIOUS
<1> QED BY <1>1, <1>2, <1>3

\* The timers of the module.
LEMMA TimerFacts ==
    /\ Screen \in Timers /\ Sentinel \in Timers /\ Devs \subseteq Timers /\ Temps \subseteq Timers
    /\ Perms \subseteq Timers /\ Screen \in Perms /\ Devs \subseteq Perms
    /\ Screen \notin Devs /\ Sentinel \notin Perms /\ Sentinel \notin Temps /\ Screen # Sentinel
    /\ Perms \cap Temps = {} /\ Screen \notin Temps /\ Screen \notin Devs \cup Temps
    /\ Sentinel \notin Devs \cup Temps
    /\ NoTimer \notin Timers /\ \A t \in Timers : t \notin Perms /\ t # Sentinel => t \in Temps
BY SchedulerAssumption DEF Perms, Timers

\* Adding to a time: no time passes Never, and none goes back.
LEMMA PlusFacts ==
    ASSUME NEW x \in 0 .. Never, NEW d \in Nat
    PROVE  /\ Plus(x, d) \in 0 .. Never /\ x <= Plus(x, d)
           /\ x + d < Never => Plus(x, d) = x + d
           /\ d >= Never => Plus(x, d) = Never
BY Numbers DEF Plus, is_never

-----------------------------------------------------------------------------
(* What devices do to the scheduler. *)

\* What adjust() does: t is enabled to expire at x, and nothing else moves.
Moves(t, x) ==
    /\ TimersType' /\ Sorted(m_timer_list', m_expire')
    /\ ToSet(m_timer_list') = ToSet(m_timer_list) \cup {t}
    /\ m_expire'[t] = x /\ m_enabled'[t] = TRUE
    /\ \A u \in Timers : u # t => /\ m_expire'[u] = m_expire[u] /\ m_enabled'[u] = m_enabled[u]
                                  /\ m_period'[u] = m_period[u]
    /\ stop' = now \/ (stop' = stop /\ (phase = "run" => Head(m_timer_list') # t))
    /\ m_callback_timer' = m_callback_timer
    /\ m_callback_timer_expire_time' = m_callback_timer_expire_time
    /\ m_callback_timer_modified' \in BOOLEAN
    /\ m_callback_timer_modified => m_callback_timer_modified'
    /\ m_callback_timer = t => m_callback_timer_modified'
    /\ m_callback_timer_modified' => m_callback_timer_modified \/ m_callback_timer = t

\* device_scheduler::time() within an instruction and within a callback.
LEMMA TimeNow ==
    ASSUME IInv, phase = "run" \/ phase = "callback"
    PROVE  /\ time \in 0 .. Never /\ time < Never
           /\ phase = "run" => time = now
           /\ phase = "callback" => time = m_callback_timer_expire_time
<1> USE DEF IInv
<1>1. m_basetime < MaxTime + Frame
  BY DEF TimeIsSound, ClockIsSound
<1>2. CASE phase = "run"
  <2>1. m_callback_timer = NoTimer BY <1>2 DEF CallIsSound
  <2>2. now <= target /\ target <= m_expire[Screen] /\ m_expire[Screen] < MaxTime + Frame
    BY <1>2 DEF TimeIsSound, RunIsSound
  <2>3. time = now BY <1>2, <2>1 DEF time
  <2>4. m_expire[Screen] \in 0 .. Never BY TimerFacts DEF TypeOK, TimersType
  <2> QED BY <1>2, <2>2, <2>3, <2>4, Numbers DEF TypeOK, CpuType
<1>3. CASE phase = "callback"
  <2>1. m_callback_timer # NoTimer
    BY <1>3, TimerFacts DEF CallIsSound, Called, TypeOK, TimersType, ToSet
  <2>2. time = m_callback_timer_expire_time BY <2>1 DEF time
  <2>3. m_callback_timer_expire_time <= m_basetime BY <1>3 DEF CallIsSound, Called
  <2> QED BY <1>1, <1>3, <2>2, <2>3, Numbers DEF TypeOK, CpuType, CallType
<1> QED BY <1>2, <1>3

\* What adjust() does from either of them.
LEMMA Adjusted ==
    ASSUME IInv, phase = "run" \/ phase = "callback", NEW t \in Devs \cup Temps,
           NEW d \in Nat, NEW p \in Nat \ {0}, adjust(t, d, p)
    PROVE  Moves(t, Plus(time, d))
<1>0. t \in Timers BY TimerFacts
<1>1. m_timer_list \in Seq(Timers) /\ m_expire \in [Timers -> 0 .. Never]
      /\ m_enabled \in [Timers -> BOOLEAN] /\ m_period \in [Timers -> Nat \ {0}]
      /\ Sorted(m_timer_list, m_expire)
  BY DEF IInv, TypeOK, TimersType, ListIsSorted
<1>2. time \in 0 .. Never BY TimeNow
<1>3. Plus(time, d) \in 0 .. Never BY <1>2, PlusFacts
<1>4. /\ m_enabled' = [m_enabled EXCEPT ![t] = TRUE]
      /\ m_expire' = [m_expire EXCEPT ![t] = Plus(time, d)]
      /\ m_period' = [m_period EXCEPT ![t] = p]
      /\ m_timer_list' =
            timer_list_insert(timer_list_remove(m_timer_list, t), t, m_enabled', m_expire')
  BY DEF adjust
<1>5. m_expire' \in [Timers -> 0 .. Never] /\ m_expire'[t] = Plus(time, d)
      /\ \A u \in Timers : u # t => m_expire'[u] = m_expire[u]
  BY <1>0, <1>1, <1>3, <1>4, Zenon
<1>6. m_enabled' \in [Timers -> BOOLEAN] /\ m_enabled'[t] = TRUE
      /\ \A u \in Timers : u # t => m_enabled'[u] = m_enabled[u]
  BY <1>0, <1>1, <1>4, Zenon
<1>7. m_period' \in [Timers -> Nat \ {0}]
      /\ \A u \in Timers : u # t => m_period'[u] = m_period[u]
  BY <1>0, <1>1, <1>4, Zenon
<1>8. m_timer_list' \in Seq(Timers) /\ Sorted(m_timer_list', m_expire')
      /\ ToSet(m_timer_list') = ToSet(m_timer_list) \cup {t}
  <2> DEFINE r == timer_list_insert(timer_list_remove(m_timer_list, t), t, m_enabled', m_expire')
  <2>1. ~m_enabled'[t] => m_expire'[t] = Never BY <1>6, Zenon
  <2>2. Placed(r, m_timer_list, t, m_expire')
    BY <1>0, <1>1, <1>5, <2>1, Moved
  <2>3. m_timer_list' = r BY <1>4, Zenon
  <2> HIDE DEF r
  <2> QED BY <2>2, <2>3, Zenon DEF Placed
<1>9. stop' = now \/ (stop' = stop /\ (phase = "run" => Head(m_timer_list') # t))
  BY DEF adjust, abort_timeslice
<1>10. m_callback_timer' = m_callback_timer
       /\ m_callback_timer_expire_time' = m_callback_timer_expire_time
       /\ m_callback_timer_modified' = (m_callback_timer_modified \/ m_callback_timer = t)
  BY DEF adjust
<1>11. /\ m_callback_timer_modified' \in BOOLEAN
       /\ m_callback_timer_modified => m_callback_timer_modified'
       /\ m_callback_timer = t => m_callback_timer_modified'
       /\ m_callback_timer_modified' => m_callback_timer_modified \/ m_callback_timer = t
  BY <1>10, Zenon
<1> QED
  BY <1>5, <1>6, <1>7, <1>8, <1>9, <1>10, <1>11, Zenon DEF Moves, TimersType

\* Within a callback or an instruction.
Within ==
    /\ phase = "run" \/ (phase = "callback" /\ m_callback_timer \in Devs)
    /\ UNCHANGED <<m_basetime, m_localtime, target, now, phase, saved, dropped>>

TimersKept == UNCHANGED <<timers, callback, stop>>

\* The parts of the invariant that are about timers and times.
TimersInv ==
    /\ TimersType /\ CpuType /\ CallType /\ ListIsSorted /\ TimersAreSound /\ CallIsSound
    /\ TimeIsSound

\* A register access or a callback that touches no timer keeps their invariant.
LEMMA KeptIsSound ==
    ASSUME IInv, Within, TimersKept
    PROVE  TimersInv' /\ SavedIsSound' /\ StateType'
<1>1. TimersType' /\ CpuType' /\ CallType' /\ StateType'
  BY DEF IInv, TypeOK, TimersType, CpuType, CallType, StateType, Within, TimersKept, timers,
         callback
<1>2. ListIsSorted' BY DEF IInv, ListIsSorted, Sorted, TimersKept, timers
<1>3. TimersAreSound' /\ CallIsSound'
  BY DEF IInv, TimersAreSound, CallIsSound, Called, TimersKept, timers, callback, Within
<1>4. TimeIsSound'
  BY DEF IInv, TimeIsSound, ClockIsSound, RunIsSound, TimersKept, timers, callback, Within
<1>5. SavedIsSound' BY DEF IInv, SavedIsSound, ClockIsSound, Within
<1> QED BY <1>1, <1>2, <1>3, <1>4, <1>5 DEF TimersInv

\* So does one that moves a timer: the time it gets is no earlier than the time
\* of the caller, and when it comes first the running CPU gives way.
LEMMA MovesIsSound ==
    ASSUME IInv, Within, NEW t \in Devs \cup Temps, NEW x \in 0 .. Never, time <= x, Moves(t, x)
    PROVE  TimersInv' /\ SavedIsSound' /\ StateType'
<1> USE DEF IInv
<1>0. t \in Timers /\ t # Screen /\ t # Sentinel BY TimerFacts
<1>20. /\ m_expire \in [Timers -> 0 .. Never] /\ m_expire' \in [Timers -> 0 .. Never]
       /\ m_basetime \in Nat /\ m_localtime \in Nat /\ target \in Nat /\ now \in Nat /\ stop \in Nat
       /\ m_callback_timer_expire_time \in Nat
  BY DEF TypeOK, TimersType, CpuType, CallType, Moves
<1>1. TimersType' BY DEF Moves
<1>2. CpuType' BY DEF TypeOK, CpuType, Within, Moves
<1>3. CallType' BY DEF TypeOK, CallType, Within, Moves
<1>4. StateType' BY DEF TypeOK, StateType, Within
<1>21. /\ m_expire'[t] = x /\ m_enabled'[t] = TRUE
       /\ \A u \in Timers : u # t => /\ m_expire'[u] = m_expire[u] /\ m_enabled'[u] = m_enabled[u]
                                     /\ m_period'[u] = m_period[u]
       /\ ToSet(m_timer_list') = ToSet(m_timer_list) \cup {t}
  BY DEF Moves
<1>5. ListIsSorted'
  <2>1. Sorted(m_timer_list', m_expire') BY DEF Moves
  <2>2. /\ \A u \in Timers : u \notin ToSet(m_timer_list) => m_expire[u] = Never
        /\ Perms \cup {Sentinel} \subseteq ToSet(m_timer_list)
    BY DEF ListIsSorted
  <2>3. Perms \cup {Sentinel} \subseteq ToSet(m_timer_list') BY <1>21, <2>2
  <2>4. \A u \in Timers : u \notin ToSet(m_timer_list') => m_expire'[u] = Never
    BY <1>21, <2>2
  <2> QED BY <2>1, <2>3, <2>4 DEF ListIsSorted
<1>6. TimersAreSound'
  <2>1. m_enabled'[Screen] /\ m_period'[Screen] = Frame
        /\ m_enabled'[Sentinel] /\ m_expire'[Sentinel] = Never
    BY <1>0, <1>21, TimerFacts DEF TimersAreSound
  <2>2. ASSUME NEW u \in Timers, ~m_enabled'[u]
        PROVE  \/ m_expire'[u] = Never
               \/ Called' /\ u = m_callback_timer' /\ ~m_callback_timer_modified'
    <3>1. u # t BY <1>21, <2>2
    <3>2. m_expire'[u] = m_expire[u] /\ ~m_enabled[u] BY <1>21, <2>2, <3>1
    <3>3. CASE m_expire[u] = Never BY <3>2, <3>3
    <3>4. CASE Called /\ u = m_callback_timer /\ ~m_callback_timer_modified
      <4>1. Called' BY <3>4 DEF Called, Within
      <4>2. m_callback_timer # t BY <3>1, <3>4
      <4>3. u = m_callback_timer' /\ ~m_callback_timer_modified' BY <3>4, <4>2 DEF Moves
      <4> QED BY <4>1, <4>3
    <3> QED BY <3>2, <3>3, <3>4 DEF TimersAreSound
  <2> QED BY <2>1, <2>2 DEF TimersAreSound
<1>7. CallIsSound'
  <2>1. CASE phase = "run"
    BY <2>1 DEF CallIsSound, Called, Within, Moves
  <2>2. CASE phase = "callback"
    <3>1. /\ m_callback_timer \in ToSet(m_timer_list) \ {Sentinel}
          /\ m_callback_timer_expire_time <= m_basetime
          /\ m_basetime <= m_callback_timer_expire_time + Late
          /\ ~m_callback_timer_modified =>
                /\ m_expire[m_callback_timer] = m_callback_timer_expire_time
                /\ ~m_enabled[m_callback_timer] => m_period[m_callback_timer] >= Never
      BY <2>2 DEF CallIsSound, Called
    <3>2. m_callback_timer' = m_callback_timer /\ phase' = "callback" /\ m_basetime' = m_basetime
          /\ m_callback_timer_expire_time' = m_callback_timer_expire_time
      BY <2>2 DEF Within, Moves
    <3>3. ASSUME ~m_callback_timer_modified'
          PROVE  /\ m_expire'[m_callback_timer] = m_callback_timer_expire_time
                 /\ ~m_enabled'[m_callback_timer] => m_period'[m_callback_timer] >= Never
      <4>1. ~m_callback_timer_modified /\ m_callback_timer # t BY <3>3 DEF Moves
      <4>2. m_callback_timer \in Timers
        BY <2>2, TimerFacts DEF Within
      <4> QED BY <1>21, <3>1, <4>1, <4>2
    <3>4. m_callback_timer \in ToSet(m_timer_list') \ {Sentinel} BY <1>21, <3>1
    <3> QED BY <3>1, <3>2, <3>3, <3>4 DEF CallIsSound, Called
  <2> QED BY <2>1, <2>2 DEF Within
<1>8. TimeIsSound'
  <2>1. m_expire'[Screen] = m_expire[Screen] BY <1>0, <1>21, TimerFacts
  <2>2. ClockIsSound(m_basetime, m_localtime, m_expire[Screen])'
    BY <2>1 DEF TimeIsSound, ClockIsSound, Within
  <2>3. (phase \in {"slice", "run"} => m_expire[Screen] < MaxTime + Frame)'
    BY <2>1 DEF TimeIsSound, Within
  <2>4. (phase # "run" => \A u \in Timers : m_basetime <= m_expire[u] + Late)'
    <3> SUFFICES ASSUME phase # "run", NEW u \in Timers
                 PROVE  m_basetime <= m_expire'[u] + Late
      BY DEF Within
    <3>1. phase = "callback" BY DEF Within
    <3>2. \A v \in Timers : m_basetime <= m_expire[v] + Late BY DEF TimeIsSound
    <3>3. CASE u # t BY <1>21, <3>2, <3>3
    <3>4. CASE u = t
      <4>1. time = m_callback_timer_expire_time BY <3>1, TimeNow
      <4>2. m_basetime <= m_callback_timer_expire_time + Late BY <3>1 DEF CallIsSound, Called
      <4> QED BY <1>21, <1>20, <3>4, <4>1, <4>2, Longest, Numbers
    <3> QED BY <3>3, <3>4
  <2>5. (phase = "run" => RunIsSound)'
    <3> SUFFICES ASSUME phase = "run" PROVE RunIsSound' BY DEF Within
    <3>1. time = now BY TimeNow
    <3>2. RunIsSound BY DEF TimeIsSound
    <3>3. /\ now' = now /\ target' = target /\ m_basetime' = m_basetime
          /\ now \in Nat /\ target \in Nat /\ stop' \in Nat /\ stop \in Nat
      BY <1>2 DEF Within, TypeOK, CpuType
    <3>4. now <= target /\ m_basetime <= target /\ target <= m_expire'[Screen]
          /\ stop' <= target /\ m_basetime < now + Cycle
      BY <2>1, <3>2, <3>3 DEF RunIsSound, Moves
    <3>5. ASSUME NEW u \in Timers PROVE now <= m_expire'[u]
      BY <1>21, <3>1, <3>2, <3>5 DEF RunIsSound
    <3>6. ASSUME NEW u \in Timers, now < stop' PROVE target <= m_expire'[u]
      <4>1. stop' = stop /\ Head(m_timer_list') # t BY <1>20, <3>6 DEF Moves
      <4>2. \A v \in Timers : target <= m_expire[v] BY <3>2, <3>6, <4>1 DEF RunIsSound
      <4>3. CASE u # t BY <1>21, <4>2, <4>3
      <4>4. CASE u = t
        <5>1. Head(m_timer_list') \in Timers /\ m_expire'[Head(m_timer_list')] <= m_expire'[t]
          <6>1. t \in ToSet(m_timer_list') BY <1>21
          <6>2. m_timer_list' \in Seq(Timers) BY <1>1 DEF TimersType
          <6>3. Sorted(m_timer_list', m_expire') BY DEF Moves
          <6> QED BY <1>20, <6>1, <6>2, <6>3, HeadIsLeast
        <5>2. m_expire'[Head(m_timer_list')] = m_expire[Head(m_timer_list')] BY <1>21, <4>1, <5>1
        <5>3. target <= m_expire[Head(m_timer_list')] BY <4>2, <5>1
        <5>4. m_expire[Head(m_timer_list')] \in Nat /\ m_expire'[t] \in Nat BY <1>0, <1>20, <5>1
        <5> HIDE DEF IInv
        <5> QED BY <1>20, <4>4, <5>1, <5>2, <5>3, <5>4
      <4> QED BY <4>3, <4>4
    <3> QED BY <3>3, <3>4, <3>5, <3>6 DEF RunIsSound
  <2> QED BY <2>2, <2>3, <2>4, <2>5 DEF TimeIsSound
<1>9. SavedIsSound' BY DEF SavedIsSound, ClockIsSound, Within
<1> QED BY <1>1, <1>2, <1>3, <1>4, <1>5, <1>6, <1>7, <1>8, <1>9 DEF TimersInv

\* A line that had a timer to serve it has one still ...
LEMMA KeptIsAwaited ==
    ASSUME IInv, TimersKept, Awaited PROVE Awaited'
BY DEF Awaited, TimersKept, timers

\* ... also when another timer moves, or gets one when its own is armed.
LEMMA MovesIsAwaited ==
    ASSUME IInv, NEW t \in Devs \cup Temps, NEW x \in 0 .. Never, Moves(t, x),
           \/ t \in Temps /\ x < Never
           \/ t \in Devs /\ Awaited
    PROVE  Awaited'
<1>1. CASE t \in Temps /\ x < Never
  BY <1>1 DEF Moves, Awaited
<1>2. CASE t \in Devs /\ Awaited
  <2>1. PICK u \in ToSet(m_timer_list) \cap Temps : m_enabled[u] /\ m_expire[u] < Never
    BY <1>2 DEF Awaited
  <2>2. u \in Timers /\ u # t BY <1>2, TimerFacts
  <2>3. u \in ToSet(m_timer_list') /\ m_enabled'[u] /\ m_expire'[u] < Never
    BY <2>1, <2>2 DEF Moves
  <2> QED BY <2>1, <2>3 DEF Awaited
<1> QED BY <1>1, <1>2

\* The line keeps its invariant when no event came.
LEMMA QueueKept ==
    ASSUME IInv, Within, Awaited => Awaited', UNCHANGED <<m_queue, m_curstate, m_ipl>>
    PROVE  QueueIsSound'
<1>1. ~(phase = "callback" /\ m_callback_timer \in Temps) /\ phase \in {"run", "callback"}
  BY TimerFacts DEF Within
<1>2. Len(m_queue) <= QueueSize
      /\ (~dropped => IF m_queue = <<>> THEN m_curstate = m_ipl
                      ELSE Last(m_queue) = m_ipl /\ Pending)
  BY DEF IInv, QueueIsSound
<1>3. phase' = phase /\ dropped' = dropped BY DEF Within
<1>4. Pending => Pending' BY <1>1 DEF Pending
<1> QED BY <1>1, <1>2, <1>3, <1>4 DEF QueueIsSound

\* An event that comes is queued behind an armed timer, a full queue being
\* applied on the spot.
LEMMA SyncedIsSound ==
    ASSUME IInv, Within, NEW state \in States, set_state_synced(state)
    PROVE  /\ TimersInv' /\ SavedIsSound' /\ StateType' /\ QueueIsSound'
           /\ m_queue' \in Seq(States) /\ m_curstate' \in States /\ m_ipl' \in States
<1>1. m_queue \in Seq(States) /\ m_curstate \in States BY DEF IInv, TypeOK, LineType
<1> DEFINE full == Len(m_queue) >= QueueSize
           queue == IF full THEN <<>> ELSE m_queue
<1>2. /\ m_ipl' = state
      /\ m_curstate' = IF full THEN Applied(m_queue, m_curstate) ELSE m_curstate
      /\ m_queue' = Append(queue, state)
      /\ IF queue = <<>>
           THEN /\ FreeTemps # {}
                /\ adjust(CHOOSE t \in FreeTemps : TRUE, 0, Never)
           ELSE UNCHANGED <<timers, callback, stop>>
  BY DEF set_state_synced
<1>3. queue \in Seq(States) /\ Len(queue) < QueueSize
  BY <1>1, SchedulerAssumption
<1>4. m_queue' \in Seq(States) /\ Len(m_queue') <= QueueSize /\ m_queue' # <<>>
      /\ Last(m_queue') = state
  <2>1. QueueSize \in Nat BY SchedulerAssumption
  <2> HIDE DEF queue
  <2>2. /\ Append(queue, state) \in Seq(States) /\ Len(Append(queue, state)) = Len(queue) + 1
        /\ Append(queue, state)[Len(queue) + 1] = state
    BY <1>3
  <2> QED BY <1>2, <1>3, <2>1, <2>2 DEF Last
<1>5. m_curstate' \in States
  <2>1. Applied(m_queue, m_curstate) \in States
    <3>1. CASE m_queue = <<>> BY <1>1, <3>1 DEF Applied
    <3>2. CASE m_queue # <<>>
      <4>1. Len(m_queue) \in 1 .. Len(m_queue) BY <1>1, <3>2
      <4> QED BY <1>1, <3>2, <4>1 DEF Applied, Last
    <3> QED BY <3>1, <3>2
  <2> QED BY <1>1, <1>2, <2>1
<1>6. TimersInv' /\ SavedIsSound' /\ StateType' /\ (~dropped => Pending')
  <2>1. CASE queue = <<>>
    <3> DEFINE t == CHOOSE t \in FreeTemps : TRUE
    <3>1. t \in Devs \cup Temps /\ t \in Temps /\ adjust(t, 0, Never)
      BY <1>2, <2>1 DEF FreeTemps
    <3>2. phase = "run" \/ phase = "callback" BY DEF Within
    <3>3. 0 \in Nat /\ Never \in Nat \ {0} BY Numbers
    <3> HIDE DEF t
    <3>4. Moves(t, Plus(time, 0)) BY <3>1, <3>2, <3>3, Adjusted
    <3>5. time \in 0 .. Never /\ time < Never BY <3>2, TimeNow
    <3>6. Plus(time, 0) \in 0 .. Never /\ time <= Plus(time, 0) /\ Plus(time, 0) < Never
      <4>1. time + 0 = time BY <3>5, Numbers
      <4> QED BY <3>3, <3>5, <4>1, PlusFacts
    <3>7. TimersInv' /\ SavedIsSound' /\ StateType' BY <3>1, <3>4, <3>6, MovesIsSound
    <3>8. Awaited' BY <3>1, <3>4, <3>6, MovesIsAwaited
    <3> QED BY <3>7, <3>8 DEF Pending
  <2>2. CASE queue # <<>>
    <3>1. TimersKept BY <1>2, <2>2 DEF TimersKept
    <3>2. ~full /\ m_queue # <<>> BY <2>2
    <3>3. ~dropped => Awaited
      <4>1. ~dropped => Pending BY <3>2 DEF IInv, QueueIsSound
      <4>2. ~(phase = "callback" /\ m_callback_timer \in Temps) BY TimerFacts DEF Within
      <4> QED BY <4>1, <4>2 DEF Pending
    <3>4. ~dropped => Pending' BY <3>1, <3>3, KeptIsAwaited DEF Pending
    <3> QED BY <3>1, <3>4, KeptIsSound
  <2> QED BY <2>1, <2>2
<1>7. QueueIsSound'
  <2>1. phase' \in {"run", "callback"} /\ dropped' = dropped BY DEF Within
  <2> HIDE DEF queue, full
  <2> QED BY <1>2, <1>4, <1>6, <2>1 DEF QueueIsSound
<1> QED BY <1>2, <1>4, <1>5, <1>6, <1>7

\* Whatever a device does keeps the invariant.
LEMMA WorkIsSound ==
    ASSUME IInv, Within, DeviceWork PROVE IInv'
<1>1. LineType BY DEF IInv, TypeOK
<1> SUFFICES TimersInv' /\ SavedIsSound' /\ StateType' /\ QueueIsSound' /\ LineType'
  BY DEF IInv, TypeOK, TimersInv
<1>2. CASE /\ \E t \in Devs, d \in Delays \cup {Never}, p \in Periods \cup {Never} :
                  adjust(t, d, p)
           /\ UNCHANGED line
  <2>1. PICK t \in Devs, d \in Delays \cup {Never}, p \in Periods \cup {Never} : adjust(t, d, p)
    BY <1>2
  <2>2. d \in Nat /\ p \in Nat \ {0} BY SchedulerAssumption, Numbers
  <2>3. phase = "run" \/ phase = "callback" BY DEF Within
  <2>4. t \in Devs \cup Temps OBVIOUS
  <2>5. Moves(t, Plus(time, d)) BY <2>1, <2>2, <2>3, <2>4, Adjusted
  <2>6. Plus(time, d) \in 0 .. Never /\ time <= Plus(time, d) BY <2>2, <2>3, TimeNow, PlusFacts
  <2>7. TimersInv' /\ SavedIsSound' /\ StateType' BY <2>4, <2>5, <2>6, MovesIsSound
  <2>8. Awaited => Awaited' BY <2>4, <2>5, <2>6, MovesIsAwaited
  <2>9. QueueIsSound' /\ LineType' BY <1>1, <1>2, <2>8, QueueKept DEF line, LineType
  <2> QED BY <2>7, <2>9
<1>3. CASE \E state \in States : update_ipl(state) /\ requests' = state
  <2>1. PICK state \in States : update_ipl(state) /\ requests' = state BY <1>3
  <2>2. CASE m_ipl # state
    <3>1. set_state_synced(state) BY <2>1, <2>2 DEF update_ipl
    <3> QED BY <2>1, <3>1, SyncedIsSound DEF LineType
  <2>3. CASE m_ipl = state
    <3>1. TimersKept /\ UNCHANGED <<m_queue, m_curstate, m_ipl>>
      BY <2>1, <2>3 DEF update_ipl, TimersKept
    <3>2. QueueIsSound' BY <3>1, KeptIsAwaited, QueueKept
    <3> QED BY <1>1, <2>1, <3>1, <3>2, KeptIsSound DEF LineType
  <2> QED BY <2>2, <2>3
<1>4. CASE /\ \E state \in States : requests' = state
           /\ UNCHANGED <<timers, callback, stop, m_queue, m_curstate, m_ipl>>
  <2>1. TimersKept /\ UNCHANGED <<m_queue, m_curstate, m_ipl>> BY <1>4 DEF TimersKept
  <2>2. QueueIsSound' BY <2>1, KeptIsAwaited, QueueKept
  <2> QED BY <1>1, <1>4, <2>1, <2>2, KeptIsSound DEF LineType
<1> QED BY <1>2, <1>3, <1>4, Zenon DEF DeviceWork

-----------------------------------------------------------------------------
(* timeslice() *)

\* A register access.
LEMMA AccessKeeps ==
    ASSUME IInv, Access PROVE IInv'
BY WorkIsSound DEF Access, Within

\* The head of the list.
LEMMA FirstFacts ==
    ASSUME IInv
    PROVE  /\ m_timer_first \in Timers /\ m_timer_first \in ToSet(m_timer_list)
           /\ m_expire[m_timer_first] \in 0 .. Never
           /\ \A t \in Timers : m_expire[m_timer_first] <= m_expire[t]
           /\ \A t \in Timers : m_expire[t] \in Nat
<1>1. m_timer_list \in Seq(Timers) /\ m_expire \in [Timers -> 0 .. Never]
      /\ Sorted(m_timer_list, m_expire)
  BY DEF IInv, TypeOK, TimersType, ListIsSorted
<1>2. Sentinel \in ToSet(m_timer_list) BY DEF IInv, ListIsSorted
<1>3. m_timer_first \in Timers /\ m_timer_first \in ToSet(m_timer_list)
  BY <1>1, <1>2, HeadIsLeast DEF m_timer_first
<1>4. ASSUME NEW t \in Timers PROVE m_expire[m_timer_first] <= m_expire[t]
  <2>1. CASE t \in ToSet(m_timer_list) BY <1>1, <2>1, HeadIsLeast DEF m_timer_first
  <2>2. CASE t \notin ToSet(m_timer_list)
    <3>1. m_expire[t] = Never BY <2>2 DEF IInv, ListIsSorted
    <3> QED BY <1>1, <1>3, <3>1, Numbers
  <2> QED BY <2>1, <2>2
<1> QED BY <1>1, <1>3, <1>4

\* Nothing of timers, callback and line changes.
Rests == UNCHANGED <<timers, callback, line, saved, dropped>>

\* The rounds of the loop keep what does not depend on the clock.
LEMMA RestsKeeps ==
    ASSUME IInv, Rests, phase \in {"idle", "slice", "run"}, phase' \in {"slice", "run", "timers"}
    PROVE  /\ TimersType' /\ CallType' /\ LineType' /\ StateType' /\ ListIsSorted'
           /\ TimersAreSound' /\ CallIsSound' /\ QueueIsSound' /\ SavedIsSound'
<1> USE DEF IInv, Rests, timers, callback, line
<1>1. TimersType' /\ CallType' /\ LineType' /\ StateType'
  BY DEF TypeOK, TimersType, CallType, LineType, StateType
<1>2. ListIsSorted' BY DEF ListIsSorted, Sorted
<1>3. TimersAreSound' /\ CallIsSound' BY DEF TimersAreSound, CallIsSound, Called
<1>4. QueueIsSound' BY DEF QueueIsSound, Pending, Awaited
<1>5. SavedIsSound' BY DEF SavedIsSound, ClockIsSound
<1> QED BY <1>1, <1>2, <1>3, <1>4, <1>5

\* A round of the loop: the slice given to the CPU ends at the next timer or
\* before, in whole cycles.
LEMMA StartSliceKeeps ==
    ASSUME IInv, StartSlice PROVE IInv'
<1> DEFINE next == m_expire[m_timer_first]
           end == IF next < m_basetime + Quantum THEN next ELSE m_basetime + Quantum
<1>1. /\ m_basetime \in Nat /\ m_localtime \in Nat /\ m_expire[Screen] \in Nat
      /\ Cycle \in Nat \ {0} /\ Quantum \in Nat \ {0} /\ Frame \in Nat /\ MaxTime \in Nat
  BY SchedulerAssumption, FirstFacts, TimerFacts DEF IInv, TypeOK, CpuType
<1>2. next \in Nat /\ m_basetime < next /\ next <= m_expire[Screen]
      /\ \A t \in Timers : next <= m_expire[t] /\ m_expire[t] \in Nat
  BY FirstFacts, TimerFacts DEF StartSlice
<1>3. phase \in {"idle", "slice"} /\ (phase = "idle" => m_basetime < MaxTime) /\ Rests
  BY DEF StartSlice, Rests
<1>4. ClockIsSound(m_basetime, m_localtime, m_expire[Screen])
      /\ (phase = "slice" => m_expire[Screen] < MaxTime + Frame)
  BY DEF IInv, TimeIsSound
<1>5. m_expire[Screen] < MaxTime + Frame BY <1>1, <1>3, <1>4 DEF ClockIsSound
<1>6. IF end >= m_localtime + Cycle
      THEN /\ phase' = "run" /\ target' = end /\ now' = m_localtime
           /\ stop' = m_localtime + Cycle * ((end - m_localtime) \div Cycle)
           /\ UNCHANGED <<m_basetime, m_localtime>>
      ELSE /\ phase' = "slice" /\ m_basetime' = end /\ UNCHANGED cpu
  BY DEF StartSlice
<1>7. end \in Nat /\ m_basetime <= end /\ end <= next BY <1>1, <1>2
<1>8. Longest /\ Late \in Nat BY Longest
<1>9. m_expire' = m_expire BY <1>3 DEF Rests, timers
<1> HIDE DEF end, next
<1>10. CASE end >= m_localtime + Cycle
  <2>1. end - m_localtime \in Nat BY <1>1, <1>7, <1>10
  <2>2. PICK c \in Nat : c = Cycle * ((end - m_localtime) \div Cycle) /\ c <= end - m_localtime
    BY <2>1, WholeCycles
  <2>3. /\ phase' = "run" /\ target' = end /\ now' = m_localtime /\ stop' = m_localtime + c
        /\ m_basetime' = m_basetime /\ m_localtime' = m_localtime
    BY <1>6, <1>10, <2>2
  <2>4. CpuType' BY <1>1, <1>7, <2>3 DEF CpuType, Phases
  <2>5. RunIsSound'
    <3>1. /\ m_localtime <= end /\ m_basetime <= end /\ end <= m_expire[Screen]
          /\ m_localtime + c <= end /\ m_basetime < m_localtime + Cycle
      BY <1>1, <1>2, <1>4, <1>7, <1>10, <2>2 DEF ClockIsSound
    <3>2. \A t \in Timers : m_localtime <= m_expire[t] /\ end <= m_expire[t]
      BY <1>1, <1>2, <1>7, <3>1
    <3> QED BY <1>9, <2>3, <3>1, <3>2 DEF RunIsSound
  <2>6. TimeIsSound'
    BY <1>4, <1>5, <1>9, <2>3, <2>5 DEF TimeIsSound, ClockIsSound
  <2> QED BY <1>3, <2>3, <2>4, <2>6, RestsKeeps DEF IInv, TypeOK
<1>11. CASE ~(end >= m_localtime + Cycle)
  <2>1. phase' = "slice" /\ m_basetime' = end /\ UNCHANGED cpu BY <1>6, <1>11
  <2>2. CpuType' BY <1>7, <2>1 DEF IInv, TypeOK, CpuType, Phases, cpu
  <2>3. TimeIsSound'
    <3>1. m_localtime' = m_localtime BY <2>1 DEF cpu
    <3>2. ClockIsSound(m_basetime', m_localtime', m_expire'[Screen])
      BY <1>1, <1>2, <1>4, <1>5, <1>7, <1>9, <1>11, <2>1, <3>1 DEF ClockIsSound
    <3>3. \A t \in Timers : end <= m_expire[t] + Late BY <1>2, <1>7, <1>8
    <3> QED BY <1>5, <1>9, <2>1, <3>2, <3>3 DEF TimeIsSound
  <2> QED BY <1>3, <2>1, <2>2, <2>3, RestsKeeps DEF IInv, TypeOK
<1> QED BY <1>10, <1>11

\* The CPU passes a timer by no more than its last instruction.
LEMMA InstructionKeeps ==
    ASSUME IInv, Instruction PROVE IInv'
<1>1. PICK n \in Lengths :
        LET reached == now + n * Cycle
        IN  IF reached < stop
            THEN now' = reached /\ UNCHANGED <<phase, m_localtime, m_basetime, target, stop>>
            ELSE EndRun(reached)
  BY DEF Instruction
<1> DEFINE reached == now + n * Cycle
<1>2. phase = "run" /\ Rests BY DEF Instruction, Rests
<1>3. /\ m_basetime \in Nat /\ m_localtime \in Nat /\ m_expire[Screen] \in Nat /\ target \in Nat
      /\ now \in Nat /\ stop \in Nat /\ \A t \in Timers : m_expire[t] \in Nat
      /\ Cycle \in Nat \ {0} /\ Frame \in Nat /\ MaxTime \in Nat
  BY SchedulerAssumption, FirstFacts, TimerFacts DEF IInv, TypeOK, CpuType
<1>4. n * Cycle \in Nat /\ Late \in Nat /\ n * Cycle <= Late /\ n * Cycle >= Cycle /\ Cycle <= Late
  BY Longest
<1>5. RunIsSound /\ ClockIsSound(m_basetime, m_localtime, m_expire[Screen])
      /\ m_expire[Screen] < MaxTime + Frame
  BY <1>2 DEF IInv, TimeIsSound
<1>6. reached \in Nat /\ now < reached /\ now + Cycle <= reached /\ reached <= now + Late
  BY <1>3, <1>4
<1>7. IF reached < stop
      THEN now' = reached /\ UNCHANGED <<phase, m_localtime, m_basetime, target, stop>>
      ELSE EndRun(reached)
  BY <1>1
<1>8. m_expire' = m_expire BY <1>2 DEF Rests, timers
<1> HIDE DEF reached
<1>9. CASE reached < stop
  <2>1. now' = reached /\ UNCHANGED <<phase, m_localtime, m_basetime, target, stop>> BY <1>7, <1>9
  <2>2. CpuType' BY <1>6, <2>1 DEF IInv, TypeOK, CpuType
  <2>3. RunIsSound'
    <3>1. now < stop BY <1>3, <1>6, <1>9
    <3>2. reached <= target /\ m_basetime < reached + Cycle
      BY <1>3, <1>5, <1>6, <1>9 DEF RunIsSound
    <3>3. ASSUME NEW t \in Timers PROVE reached <= m_expire[t] /\ target <= m_expire[t]
      <4>1. target <= m_expire[t] /\ m_expire[t] \in Nat BY <1>3, <1>5, <3>1 DEF RunIsSound
      <4> QED BY <1>3, <1>6, <3>2, <4>1
    <3> QED BY <1>5, <1>8, <2>1, <3>2, <3>3 DEF RunIsSound
  <2>4. TimeIsSound' BY <1>2, <1>5, <1>8, <2>1, <2>3 DEF TimeIsSound, ClockIsSound
  <2> QED BY <1>2, <2>1, <2>2, <2>4, RestsKeeps DEF IInv, TypeOK
<1>10. CASE ~(reached < stop)
  <2>1. EndRun(reached) BY <1>7, <1>10
  <2>2. /\ phase' = "slice" /\ m_localtime' = reached /\ target' = 0 /\ now' = 0 /\ stop' = 0
        /\ m_basetime' = IF reached >= target THEN target
                         ELSE IF reached > m_basetime THEN reached ELSE m_basetime
    BY <2>1 DEF EndRun
  <2>3. CpuType' BY <1>3, <1>6, <2>2 DEF CpuType, Phases
  <2>4. m_basetime' \in Nat /\ m_basetime' <= target /\ m_basetime <= m_basetime'
        /\ m_basetime' < reached + Cycle /\ m_basetime' <= now + Late
    BY <1>3, <1>4, <1>5, <1>6, <2>2 DEF RunIsSound
  <2>5. ClockIsSound(m_basetime', m_localtime', m_expire'[Screen])
    <3>1. target <= m_expire[Screen] /\ m_expire[Screen] <= m_basetime + Frame
      BY <1>5 DEF RunIsSound, ClockIsSound
    <3>2. /\ m_basetime' <= m_expire[Screen] /\ m_expire[Screen] <= m_basetime' + Frame
          /\ m_basetime' < MaxTime + Frame
      BY <1>3, <1>5, <2>4, <3>1
    <3> QED BY <1>8, <2>2, <2>4, <3>2 DEF ClockIsSound
  <2>6. ASSUME NEW t \in Timers PROVE m_basetime' <= m_expire[t] + Late
    <3>1. m_expire[t] \in Nat /\ now <= m_expire[t] BY <1>3, <1>5 DEF RunIsSound
    <3> QED BY <1>3, <1>4, <2>4, <3>1
  <2>7. TimeIsSound' BY <1>5, <1>8, <2>2, <2>5, <2>6 DEF TimeIsSound
  <2> QED BY <1>2, <2>2, <2>3, <2>7, RestsKeeps DEF IInv, TypeOK
<1> QED BY <1>9, <1>10

\* The loop ends.
LEMMA SliceEndsKeeps ==
    ASSUME IInv, SliceEnds PROVE IInv'
<1>1. /\ phase \in {"idle", "slice"} /\ phase' = "timers" /\ Rests
      /\ UNCHANGED <<m_basetime, cpu, timers>>
  BY DEF SliceEnds, Rests
<1>2. CpuType' BY <1>1 DEF IInv, TypeOK, CpuType, Phases, cpu
<1>3. TimeIsSound' BY <1>1 DEF IInv, TimeIsSound, ClockIsSound, cpu, timers
<1> QED BY <1>1, <1>2, <1>3, RestsKeeps DEF IInv, TypeOK

-----------------------------------------------------------------------------
(* execute_timers() *)

\* The first timer expires: it is enabled, and its callback is on time.
LEMMA ExpireTimerKeeps ==
    ASSUME IInv, ExpireTimer PROVE IInv'
<1> DEFINE h == m_timer_first
<1>1. h \in Timers /\ h \in ToSet(m_timer_list) /\ m_expire[h] \in Nat
      /\ \A t \in Timers : m_expire[t] \in Nat
  BY FirstFacts
<1>2. /\ phase = "timers" /\ m_expire[h] <= m_basetime
      /\ phase' = IF m_enabled[h] THEN "callback" ELSE "called"
      /\ m_enabled' = [m_enabled EXCEPT ![h] = m_enabled[h] /\ ~OneShot(h)]
      /\ m_callback_timer' = h /\ m_callback_timer_modified' = FALSE
      /\ m_callback_timer_expire_time' = m_expire[h]
      /\ UNCHANGED <<m_timer_list, m_expire, m_period, m_basetime, cpu, line, saved, dropped>>
  BY DEF ExpireTimer
<1> HIDE DEF h
<1>3. /\ m_basetime \in Nat /\ m_basetime < MaxTime + Frame /\ Frame \in Nat /\ MaxTime \in Nat
      /\ \A t \in Timers : m_basetime <= m_expire[t] + Late
  BY <1>2, Numbers DEF IInv, TypeOK, CpuType, TimeIsSound, ClockIsSound
<1>4. m_expire[h] < Never BY <1>1, <1>2, <1>3, Numbers
<1>5. m_enabled[h] /\ h # Sentinel /\ phase' = "callback"
  <2>1. ~m_enabled[h] => m_expire[h] = Never
    BY <1>1, <1>2 DEF IInv, TimersAreSound, Called
  <2>2. m_expire[Sentinel] = Never BY DEF IInv, TimersAreSound
  <2>3. m_expire[h] # Never BY <1>1, <1>4, Numbers
  <2>4. m_enabled[h] BY <2>1, <2>3
  <2> QED BY <1>2, <2>2, <2>3, <2>4
<1>6. /\ m_enabled' \in [Timers -> BOOLEAN]
      /\ \A t \in Timers : t # h => m_enabled'[t] = m_enabled[t]
      /\ m_enabled'[h] = ~OneShot(h)
  <2>1. m_enabled \in [Timers -> BOOLEAN] BY DEF IInv, TypeOK, TimersType
  <2>2. (m_enabled[h] /\ ~OneShot(h)) \in BOOLEAN /\ (m_enabled[h] /\ ~OneShot(h)) = ~OneShot(h)
    BY <1>5, Zenon
  <2>3. m_enabled' \in [Timers -> BOOLEAN] /\ m_enabled'[h] = (m_enabled[h] /\ ~OneShot(h))
        /\ \A t \in Timers : t # h => m_enabled'[t] = m_enabled[t]
    BY <1>1, <1>2, <2>1, <2>2, Zenon
  <2> QED BY <2>2, <2>3, Zenon
<1>7. OneShot(h) => m_period[h] >= Never
  <2>1. m_period[h] \in Nat \ {0} BY <1>1 DEF IInv, TypeOK, TimersType
  <2> QED BY <2>1 DEF OneShot, is_never
<1>8. TypeOK'
  <2>1. TimersType' BY <1>2, <1>6 DEF IInv, TypeOK, TimersType
  <2>2. CpuType' BY <1>2, <1>5 DEF IInv, TypeOK, CpuType, Phases, cpu
  <2>3. CallType' BY <1>1, <1>2 DEF CallType
  <2>4. LineType' BY <1>2 DEF IInv, TypeOK, LineType, line
  <2>5. StateType' BY <1>2 DEF IInv, TypeOK, StateType
  <2> QED BY <2>1, <2>2, <2>3, <2>4, <2>5 DEF TypeOK
<1>9. ListIsSorted' BY <1>2 DEF IInv, ListIsSorted, Sorted
<1>10. TimersAreSound'
  <2>1. m_enabled'[Screen]
    <3>1. CASE h = Screen
      <4>1. m_period[h] = Frame BY <3>1 DEF IInv, TimersAreSound
      <4>2. ~OneShot(h) BY <1>7, <4>1, Numbers
      <4> QED BY <1>6, <3>1, <4>2, Zenon
    <3>2. CASE h # Screen BY <1>6, <3>2, TimerFacts DEF IInv, TimersAreSound
    <3> QED BY <3>1, <3>2
  <2>2. m_enabled'[Sentinel] /\ m_expire'[Sentinel] = Never /\ m_period'[Screen] = Frame
    BY <1>2, <1>5, <1>6, TimerFacts DEF IInv, TimersAreSound
  <2>3. ASSUME NEW t \in Timers, ~m_enabled'[t], t # h PROVE m_expire'[t] = Never
    <3>1. ~m_enabled[t] BY <1>6, <2>3
    <3>2. m_expire[t] = Never BY <1>2, <3>1 DEF IInv, TimersAreSound, Called
    <3> QED BY <1>2, <3>2
  <2> QED BY <1>2, <1>5, <2>1, <2>2, <2>3 DEF TimersAreSound, Called
<1>11. CallIsSound'
  <2>1. m_basetime <= m_expire[h] + Late BY <1>1, <1>3
  <2>2. ~m_enabled'[h] => m_period[h] >= Never BY <1>6, <1>7, Zenon
  <2> QED BY <1>1, <1>2, <1>5, <2>1, <2>2 DEF CallIsSound, Called
<1>12. TimeIsSound'
  BY <1>2, <1>3, <1>5 DEF IInv, TimeIsSound, ClockIsSound, cpu
<1>13. QueueIsSound'
  <2>1. Pending => Pending'
    <3>1. CASE h \in Temps BY <1>2, <1>5, <3>1 DEF Pending
    <3>2. CASE h \notin Temps
      <4>1. SUFFICES ASSUME Pending PROVE Awaited' BY DEF Pending
      <4>2. PICK t \in ToSet(m_timer_list) \cap Temps : m_enabled[t] /\ m_expire[t] < Never
        BY <1>2, <4>1 DEF Pending, Awaited
      <4>3. t \in Timers /\ t # h BY <3>2, TimerFacts
      <4> QED BY <1>2, <1>6, <4>2, <4>3 DEF Awaited
    <3> QED BY <3>1, <3>2
  <2> QED BY <1>2, <1>5, <2>1 DEF IInv, QueueIsSound, line
<1>14. SavedIsSound' BY <1>2 DEF IInv, SavedIsSound, ClockIsSound
<1> QED BY <1>8, <1>9, <1>10, <1>11, <1>12, <1>13, <1>14 DEF IInv

\* The callback of a device.
LEMMA DeviceTimerKeeps ==
    ASSUME IInv, DeviceTimer PROVE IInv'
<1>1. CASE m_callback_timer \in Devs /\ DeviceWork /\ phase' = phase
  BY <1>1, WorkIsSound DEF DeviceTimer, Within
<1>2. CASE phase' = "called" /\ UNCHANGED <<timers, callback, stop, line>>
  <2>1. /\ phase = "callback" /\ m_callback_timer \in Perms /\ phase' = "called"
        /\ UNCHANGED <<timers, callback, line, cpu, m_basetime, saved, dropped>>
    BY <1>2 DEF DeviceTimer, cpu
  <2> USE DEF IInv, timers, callback, line, cpu
  <2>2. TypeOK'
    BY <2>1 DEF TypeOK, TimersType, CpuType, CallType, LineType, StateType, Phases
  <2>3. ListIsSorted' BY <2>1 DEF ListIsSorted, Sorted
  <2>4. TimersAreSound' /\ CallIsSound' BY <2>1 DEF TimersAreSound, CallIsSound, Called
  <2>5. TimeIsSound' BY <2>1 DEF TimeIsSound, ClockIsSound
  <2>6. QueueIsSound' BY <2>1, TimerFacts DEF QueueIsSound, Pending, Awaited
  <2>7. SavedIsSound' BY <2>1 DEF SavedIsSound, ClockIsSound
  <2> QED BY <2>2, <2>3, <2>4, <2>5, <2>6, <2>7
<1> QED BY <1>1, <1>2 DEF DeviceTimer

\* The callback of the line.
LEMMA EmptyKeeps ==
    ASSUME IInv, empty_event_queue PROVE IInv'
<1>1. /\ phase = "callback" /\ m_callback_timer \in Temps /\ phase' = "called"
      /\ m_curstate' = Applied(m_queue, m_curstate) /\ m_queue' = <<>>
      /\ UNCHANGED <<timers, m_basetime, cpu, callback, m_ipl, requests, saved, dropped>>
  BY DEF empty_event_queue
<1> USE DEF IInv, timers, callback, cpu
<1>2. m_curstate' \in States /\ (~dropped => m_curstate' = m_ipl)
  <2>1. m_queue \in Seq(States) /\ m_curstate \in States BY DEF TypeOK, LineType
  <2>2. CASE m_queue = <<>> BY <1>1, <2>1, <2>2 DEF Applied, QueueIsSound
  <2>3. CASE m_queue # <<>>
    <3>1. m_curstate' = Last(m_queue) BY <1>1, <2>3 DEF Applied
    <3>2. Last(m_queue) \in States
      <4>1. Len(m_queue) \in 1 .. Len(m_queue) BY <2>1, <2>3
      <4> QED BY <2>1, <4>1 DEF Last
    <3> QED BY <2>3, <3>1, <3>2 DEF QueueIsSound
  <2> QED BY <2>2, <2>3
<1>3. TypeOK'
  <2>1. TimersType' /\ CallType' /\ StateType'
    BY <1>1 DEF TypeOK, TimersType, CallType, StateType
  <2>2. CpuType' BY <1>1 DEF TypeOK, CpuType, Phases
  <2>3. LineType'
    <3>1. <<>> \in Seq(States) OBVIOUS
    <3> QED BY <1>1, <1>2, <3>1 DEF TypeOK, LineType
  <2> QED BY <2>1, <2>2, <2>3 DEF TypeOK
<1>4. ListIsSorted' BY <1>1 DEF ListIsSorted, Sorted
<1>5. TimersAreSound' /\ CallIsSound' BY <1>1 DEF TimersAreSound, CallIsSound, Called
<1>6. TimeIsSound' BY <1>1 DEF TimeIsSound, ClockIsSound
<1>7. QueueIsSound'
  <2>1. Len(<<>>) <= QueueSize BY SchedulerAssumption
  <2> QED BY <1>1, <1>2, <2>1 DEF QueueIsSound
<1>8. SavedIsSound' BY <1>1 DEF SavedIsSound, ClockIsSound
<1> QED BY <1>3, <1>4, <1>5, <1>6, <1>7, <1>8

\* After the callback: the timer is put back a period later, or removed.
LEMMA RescheduleKeeps ==
    ASSUME IInv, Reschedule PROVE IInv'
<1> DEFINE t == m_callback_timer
           rest == timer_list_remove(m_timer_list, t)
<1>1. /\ phase = "called" /\ phase' = "timers"
      /\ UNCHANGED <<m_basetime, cpu, callback, line, saved, dropped>>
      /\ CASE m_callback_timer_modified -> UNCHANGED timers
           [] ~m_callback_timer_modified /\ m_temporary(t) ->
                  /\ m_timer_list' = rest /\ m_expire' = [m_expire EXCEPT ![t] = Never]
                  /\ UNCHANGED <<m_enabled, m_period>>
           [] OTHER ->
                  /\ m_expire' = [m_expire EXCEPT ![t] = Plus(@, m_period[t])]
                  /\ m_timer_list' = timer_list_insert(rest, t, m_enabled, m_expire')
                  /\ UNCHANGED <<m_enabled, m_period>>
  BY DEF Reschedule
<1>2. /\ m_timer_list \in Seq(Timers) /\ m_enabled \in [Timers -> BOOLEAN]
      /\ m_expire \in [Timers -> 0 .. Never] /\ m_period \in [Timers -> Nat \ {0}]
      /\ Sorted(m_timer_list, m_expire)
  BY DEF IInv, TypeOK, TimersType, ListIsSorted
<1>3. /\ t \in ToSet(m_timer_list) /\ t # Sentinel /\ t \in Timers
      /\ m_callback_timer_expire_time <= m_basetime
      /\ m_basetime <= m_callback_timer_expire_time + Late
      /\ ~m_callback_timer_modified =>
            /\ m_expire[t] = m_callback_timer_expire_time
            /\ ~m_enabled[t] => m_period[t] >= Never
  BY <1>1, <1>2 DEF IInv, CallIsSound, Called, ToSet
<1>4. /\ m_basetime \in Nat /\ m_localtime \in Nat /\ m_callback_timer_expire_time \in Nat
      /\ \A u \in Timers : m_basetime <= m_expire[u] + Late
      /\ ClockIsSound(m_basetime, m_localtime, m_expire[Screen]) /\ Late \in Nat
  BY <1>1, Longest DEF IInv, TypeOK, CpuType, CallType, TimeIsSound
<1>5. CpuType' /\ CallType' /\ LineType' /\ StateType'
  BY <1>1 DEF IInv, TypeOK, CpuType, CallType, LineType, StateType, Phases, cpu, callback, line
<1>6. CallIsSound' BY <1>1 DEF CallIsSound, Called
<1>7. SavedIsSound' BY <1>1 DEF IInv, SavedIsSound, ClockIsSound
<1>8. UNCHANGED <<m_queue, m_curstate, m_ipl, m_localtime>> BY <1>1 DEF line, cpu
<1>9. Len(m_queue) <= QueueSize
      /\ (~dropped => IF m_queue = <<>> THEN m_curstate = m_ipl
                      ELSE Last(m_queue) = m_ipl /\ Awaited)
      /\ (t \in Temps => m_queue = <<>> \/ dropped)
  BY <1>1 DEF IInv, QueueIsSound, Pending
<1>10. CASE m_callback_timer_modified
  <2>1. UNCHANGED timers BY <1>1, <1>10
  <2>2. TimersType' BY <2>1 DEF IInv, TypeOK, TimersType, timers
  <2>3. ListIsSorted' BY <2>1 DEF IInv, ListIsSorted, Sorted, timers
  <2>4. TimersAreSound' BY <1>1, <1>10, <2>1 DEF IInv, TimersAreSound, Called, timers
  <2>5. TimeIsSound' BY <1>1, <1>4, <1>8, <2>1 DEF TimeIsSound, ClockIsSound, timers
  <2>6. QueueIsSound'
    <3>1. Awaited => Awaited' BY <2>1 DEF Awaited, timers
    <3> QED BY <1>1, <1>8, <1>9, <3>1 DEF QueueIsSound, Pending
  <2> QED BY <1>5, <1>6, <1>7, <2>2, <2>3, <2>4, <2>5, <2>6 DEF IInv, TypeOK
<1>11. CASE ~m_callback_timer_modified
  \* Either way t has another time, that no clock passes.
  <2> DEFINE x == m_expire'[t]
  <2>1. /\ m_expire' \in [Timers -> 0 .. Never] /\ UNCHANGED <<m_enabled, m_period>>
        /\ \A u \in Timers : u # t => m_expire'[u] = m_expire[u]
        /\ m_expire[t] <= x /\ (~m_enabled[t] => x = Never)
        /\ m_timer_list' \in Seq(Timers) /\ Sorted(m_timer_list', m_expire')
        /\ ToSet(m_timer_list) \ {t} \subseteq ToSet(m_timer_list')
        /\ t \in Perms => t \in ToSet(m_timer_list')
        /\ t \notin ToSet(m_timer_list') => x = Never
        /\ t = Screen => x = m_expire[t] + Frame
    <3>1. CASE m_temporary(t)
      <4>1. m_timer_list' = rest /\ m_expire' = [m_expire EXCEPT ![t] = Never]
            /\ UNCHANGED <<m_enabled, m_period>>
        BY <1>1, <1>11, <3>1
      <4>2. Never \in 0 .. Never BY Numbers
      <4>3. m_expire' \in [Timers -> 0 .. Never] /\ x = Never
            /\ \A u \in Timers : u # t => m_expire'[u] = m_expire[u]
        BY <1>2, <1>3, <4>1, <4>2, Zenon
      <4>4. /\ rest \in Seq(Timers) /\ Sorted(rest, m_expire)
            /\ ToSet(rest) = ToSet(m_timer_list) \ {t}
        BY <1>2, RemovedOne
      <4> HIDE DEF rest
      <4>5. Sorted(rest, m_expire')
        <5>1. \A i \in 1 .. Len(rest) : rest[i] \in ToSet(rest) /\ rest[i] \in Timers
          BY <4>4 DEF ToSet
        <5>2. \A i \in 1 .. Len(rest) : m_expire'[rest[i]] = m_expire[rest[i]]
          BY <4>3, <4>4, <5>1
        <5> QED BY <4>4, <5>2 DEF Sorted
      <4>6. m_expire[t] <= Never BY <1>2, <1>3
      <4>7. t # Screen /\ t \notin Perms BY <3>1, TimerFacts DEF m_temporary
      <4> QED BY <4>1, <4>3, <4>4, <4>5, <4>6, <4>7
    <3>2. CASE ~m_temporary(t)
      <4>1. /\ m_expire' = [m_expire EXCEPT ![t] = Plus(m_expire[t], m_period[t])]
            /\ m_timer_list' = timer_list_insert(rest, t, m_enabled, m_expire')
            /\ UNCHANGED <<m_enabled, m_period>>
        BY <1>1, <1>11, <3>2
      <4>2. /\ Plus(m_expire[t], m_period[t]) \in 0 .. Never
            /\ m_expire[t] <= Plus(m_expire[t], m_period[t])
            /\ m_expire[t] + m_period[t] < Never =>
                  Plus(m_expire[t], m_period[t]) = m_expire[t] + m_period[t]
            /\ m_period[t] >= Never => Plus(m_expire[t], m_period[t]) = Never
        <5>1. m_expire[t] \in 0 .. Never /\ m_period[t] \in Nat BY <1>2, <1>3
        <5> QED BY <5>1, PlusFacts
      <4>3. m_expire' \in [Timers -> 0 .. Never] /\ x = Plus(m_expire[t], m_period[t])
            /\ \A u \in Timers : u # t => m_expire'[u] = m_expire[u]
        BY <1>2, <1>3, <4>1, <4>2, Zenon
      <4>4. ~m_enabled[t] => x = Never BY <1>3, <1>11, <4>2, <4>3
      <4>5. Placed(timer_list_insert(rest, t, m_enabled, m_expire'), m_timer_list, t, m_expire')
        <5> HIDE DEF x
        <5>1. ~m_enabled[t] => m_expire'[t] = Never BY <4>4 DEF x
        <5> QED BY <1>2, <1>3, <4>3, <5>1, Moved
      <4>6. m_timer_list' \in Seq(Timers) /\ Sorted(m_timer_list', m_expire')
            /\ ToSet(m_timer_list') = ToSet(m_timer_list) \cup {t}
        BY <4>1, <4>5, Zenon DEF Placed
      <4>7. t = Screen => x = m_expire[t] + Frame
        <5> SUFFICES ASSUME t = Screen PROVE x = m_expire[t] + Frame OBVIOUS
        <5>1. m_period[t] = Frame BY DEF IInv, TimersAreSound
        <5>2. m_expire[t] <= m_basetime /\ m_basetime < MaxTime + Frame /\ m_expire[t] \in Nat
          BY <1>2, <1>3, <1>4, <1>11 DEF ClockIsSound
        <5>3. m_expire[t] + Frame < Never BY <1>4, <5>2, Numbers
        <5> HIDE DEF x, t
        <5> QED BY <4>2, <4>3, <5>1, <5>3
      <4> HIDE DEF x, t
      <4> QED BY <4>1, <4>2, <4>3, <4>4, <4>6, <4>7
    <3> QED BY <3>1, <3>2
  <2> HIDE DEF x
  <2>2. TimersType' BY <1>2, <2>1 DEF TimersType
  <2>3. ListIsSorted'
    <3>1. Perms \cup {Sentinel} \subseteq ToSet(m_timer_list)
          /\ \A u \in Timers : u \notin ToSet(m_timer_list) => m_expire[u] = Never
      BY DEF IInv, ListIsSorted
    <3>2. Perms \cup {Sentinel} \subseteq ToSet(m_timer_list')
      <4> HIDE DEF t
      <4>1. ASSUME NEW u \in Perms \cup {Sentinel} PROVE u \in ToSet(m_timer_list')
        <5>1. CASE u = t BY <1>3, <2>1, <4>1, <5>1
        <5>2. CASE u # t BY <2>1, <3>1, <4>1, <5>2
        <5> QED BY <5>1, <5>2
      <4> QED BY <4>1
    <3>3. ASSUME NEW u \in Timers, u \notin ToSet(m_timer_list') PROVE m_expire'[u] = Never
      <4> HIDE DEF t
      <4>1. CASE u = t BY <2>1, <3>3, <4>1 DEF x
      <4>2. CASE u # t BY <2>1, <3>1, <3>3, <4>2
      <4> QED BY <4>1, <4>2
    <3> QED BY <2>1, <3>2, <3>3 DEF ListIsSorted
  <2>4. TimersAreSound'
    <3>1. m_enabled[Screen] /\ m_period[Screen] = Frame /\ m_enabled[Sentinel]
          /\ m_expire[Sentinel] = Never
      BY DEF IInv, TimersAreSound
    <3>2. m_expire'[Sentinel] = Never BY <1>3, <2>1, <3>1, TimerFacts
    <3>3. ASSUME NEW u \in Timers, ~m_enabled[u] PROVE m_expire'[u] = Never
      <4>1. CASE u = t BY <2>1, <3>3, <4>1 DEF x
      <4>2. CASE u # t
        <5>1. m_expire[u] = Never BY <3>3, <4>2 DEF IInv, TimersAreSound
        <5> QED BY <2>1, <4>2, <5>1
      <4> QED BY <4>1, <4>2
    <3> QED BY <2>1, <3>1, <3>2, <3>3 DEF TimersAreSound
  <2>5. TimeIsSound'
    <3>1. ASSUME NEW u \in Timers PROVE m_basetime <= m_expire'[u] + Late
      <4>1. m_basetime <= m_expire[u] + Late /\ m_expire[u] \in Nat /\ m_expire'[u] \in Nat
        BY <1>2, <1>4, <2>1
      <4>2. CASE u = t
        <5>1. m_expire[u] <= m_expire'[u] BY <2>1, <4>2 DEF x
        <5> QED BY <1>4, <4>1, <5>1
      <4>3. CASE u # t BY <2>1, <4>1, <4>3
      <4> QED BY <4>2, <4>3
    <3>2. ClockIsSound(m_basetime, m_localtime, m_expire'[Screen])
      <4>1. CASE t # Screen BY <1>4, <2>1, <4>1, TimerFacts DEF ClockIsSound
      <4>2. CASE t = Screen
        <5>1. m_expire[Screen] <= m_basetime BY <1>3, <1>11, <4>2
        <5>2. m_basetime <= m_expire[Screen] /\ m_basetime < MaxTime + Frame
              /\ m_basetime < m_localtime + Cycle
          BY <1>4 DEF ClockIsSound
        <5>3. m_expire'[Screen] = m_expire[Screen] + Frame BY <2>1, <4>2 DEF x
        <5>4. m_expire[Screen] \in Nat /\ Frame \in Nat BY <1>2, Numbers, TimerFacts
        <5>5. m_expire'[Screen] = m_basetime + Frame BY <1>4, <5>1, <5>2, <5>3, <5>4
        <5>6. m_basetime <= m_basetime + Frame BY <1>4, <5>4
        <5> QED BY <1>4, <5>2, <5>4, <5>5, <5>6 DEF ClockIsSound
      <4> QED BY <4>1, <4>2
    <3> QED BY <1>1, <1>8, <3>1, <3>2 DEF TimeIsSound, ClockIsSound
  <2>6. QueueIsSound'
    <3>1. ASSUME t \notin Temps, Awaited PROVE Awaited'
      <4>1. PICK u \in ToSet(m_timer_list) \cap Temps : m_enabled[u] /\ m_expire[u] < Never
        BY <3>1 DEF Awaited
      <4>2. u # t /\ u \in Timers BY <3>1, TimerFacts
      <4> QED BY <2>1, <4>1, <4>2 DEF Awaited
    <3> QED BY <1>1, <1>8, <1>9, <3>1 DEF QueueIsSound, Pending
  <2> QED BY <1>5, <1>6, <1>7, <2>2, <2>3, <2>4, <2>5, <2>6 DEF IInv, TypeOK
<1> QED BY <1>10, <1>11

\* No timer is due any more.
LEMMA TimersDoneKeeps ==
    ASSUME IInv, TimersDone PROVE IInv'
<1>1. /\ phase = "timers" /\ phase' = "idle" /\ m_callback_timer' = NoTimer
      /\ UNCHANGED <<timers, m_basetime, cpu, m_callback_timer_modified,
                     m_callback_timer_expire_time, line, saved, dropped>>
  BY DEF TimersDone
<1> USE DEF IInv, timers, line, cpu
<1>2. TypeOK'
  BY <1>1 DEF TypeOK, TimersType, CpuType, CallType, LineType, StateType, Phases
<1>3. ListIsSorted' BY <1>1 DEF ListIsSorted, Sorted
<1>4. TimersAreSound' /\ CallIsSound' BY <1>1 DEF TimersAreSound, CallIsSound, Called
<1>5. TimeIsSound' BY <1>1 DEF TimeIsSound, ClockIsSound
<1>6. QueueIsSound' BY <1>1 DEF QueueIsSound, Pending, Awaited
<1>7. SavedIsSound' BY <1>1 DEF SavedIsSound, ClockIsSound
<1> QED BY <1>2, <1>3, <1>4, <1>5, <1>6, <1>7

-----------------------------------------------------------------------------
(* The frontend. *)

\* Inserting returns a list of timers, whatever the times.
LEMMA InsertedType ==
    ASSUME NEW list \in Seq(Timers), NEW t \in Timers, NEW enabled, NEW expire
    PROVE  timer_list_insert(list, t, enabled, expire) \in Seq(Timers)
<1> DEFINE Later == {i \in DOMAIN list :
                         expire[list[i]] > IF enabled[t] THEN expire[t] ELSE Never}
           p == CHOOSE i \in Later : \A j \in Later : i <= j
<1>1. timer_list_insert(list, t, enabled, expire) =
         IF Later = {} THEN Append(list, t) ELSE InsertAt(list, p, t)
  BY Zenon DEF timer_list_insert
<1>2. CASE Later = {} BY <1>1, <1>2
<1>3. CASE Later # {}
  <2>1. Later \subseteq 1 .. Len(list) /\ Len(list) \in Nat
    <3> HIDE DEF p
    <3> QED OBVIOUS
  <2>2. p \in Later
    <3>1. Later \subseteq Nat BY <2>1
    <3> HIDE DEF Later
    <3> QED BY <1>3, <3>1, Least
  <2> HIDE DEF Later, p
  <2>3. p \in 1 .. Len(list) + 1 BY <2>1, <2>2
  <2>4. Insertion(InsertAt(list, p, t), list, p, t) BY <2>3, InsertedAt
  <2> QED BY <1>1, <1>3, <2>4 DEF Insertion
<1> QED BY <1>2, <1>3

\* The lists that postload() makes, one per timer it has inserted again.
Insertions(f, enabled, expire) ==
    f = [n \in 0 .. Len(m_timer_list) |->
            IF n = 0 THEN <<>>
            ELSE IF Goes(m_timer_list[n]) THEN f[n - 1]
            ELSE timer_list_insert(f[n - 1], m_timer_list[n], enabled, expire)]

\* The recursion of postload() has a value.
LEMMA InsertionsExist ==
    ASSUME m_timer_list \in Seq(Timers), NEW enabled, NEW expire
    PROVE  \E f : Insertions(f, enabled, expire)
<1> DEFINE go(s, n) == IF n + 1 \notin 1 .. Len(m_timer_list) \/ Goes(m_timer_list[n + 1]) THEN s
                       ELSE timer_list_insert(s, m_timer_list[n + 1], enabled, expire)
           step == [n \in Nat |-> [s \in Seq(Timers) |-> go(s, n)]]
           L == Len(m_timer_list)
<1>0. L \in Nat /\ \A n \in 1 .. L : m_timer_list[n] \in Timers OBVIOUS
<1>1. ASSUME NEW n \in Nat, NEW s \in Seq(Timers) PROVE go(s, n) \in Seq(Timers)
  <2>1. CASE n + 1 \notin 1 .. L \/ Goes(m_timer_list[n + 1]) BY <2>1
  <2>2. CASE n + 1 \in 1 .. L /\ ~Goes(m_timer_list[n + 1])
    <3>1. timer_list_insert(s, m_timer_list[n + 1], enabled, expire) \in Seq(Timers)
      BY <1>0, <2>2, InsertedType
    <3> QED BY <2>2, <3>1
  <2> QED BY <2>1, <2>2
<1>2. step \in [Nat -> [Seq(Timers) -> Seq(Timers)]]
  <2> HIDE DEF go
  <2> QED BY <1>1
<1>3. \A n \in Nat, s \in Seq(Timers) : step[n][s] = go(s, n)
  <2> HIDE DEF go
  <2> QED OBVIOUS
<1>4. <<>> \in Seq(Timers) OBVIOUS
<1> HIDE DEF step
<1>5. PICK f : Begins(f, L, Seq(Timers), <<>>, step) BY <1>0, <1>2, <1>4, BeginsExists
<1>6. f \in [0 .. L -> Seq(Timers)] /\ f[0] = <<>> BY <1>5 DEF Begins
<1>7. ASSUME NEW k \in 0 .. L, k # 0
      PROVE  f[k] = IF Goes(m_timer_list[k]) THEN f[k - 1]
                    ELSE timer_list_insert(f[k - 1], m_timer_list[k], enabled, expire)
  <2>1. k - 1 \in Nat /\ k - 1 \in 0 .. L /\ k - 1 + 1 = k /\ k \in 1 .. L /\ k > 0
    BY <1>0, <1>7
  <2>2. f[k] = step[k - 1][f[k - 1]] BY <1>5, <2>1 DEF Begins
  <2>3. f[k - 1] \in Seq(Timers) BY <1>6, <2>1
  <2>4. f[k] = go(f[k - 1], k - 1)
    <3> HIDE DEF go
    <3> QED BY <1>3, <2>1, <2>2, <2>3
  <2> QED BY <2>1, <2>4
<1>8. \A k \in 0 .. L : f[k] = IF k = 0 THEN <<>>
                               ELSE IF Goes(m_timer_list[k]) THEN f[k - 1]
                               ELSE timer_list_insert(f[k - 1], m_timer_list[k], enabled, expire)
  BY <1>6, <1>7
<1>9. f = [k \in 0 .. L |-> f[k]] BY <1>6
<1>10. f = [k \in 0 .. L |-> IF k = 0 THEN <<>>
                             ELSE IF Goes(m_timer_list[k]) THEN f[k - 1]
                             ELSE timer_list_insert(f[k - 1], m_timer_list[k], enabled, expire)]
  BY <1>8, <1>9
<1> QED BY <1>10, Zenon DEF Insertions

\* The list after a load: sorted by the times loaded, and no timer is missing
\* but the anonymous ones that had a time.
LEMMA Postloaded ==
    ASSUME m_timer_list \in Seq(Timers), Sorted(m_timer_list, m_expire),
           NEW enabled, NEW expire \in [Timers -> 0 .. Never],
           \A t \in Timers : ~enabled[t] => expire[t] = Never
    PROVE  /\ postload(enabled, expire) \in Seq(Timers)
           /\ Sorted(postload(enabled, expire), expire)
           /\ ToSet(postload(enabled, expire)) = {t \in ToSet(m_timer_list) : ~Goes(t)}
<1> DEFINE L == Len(m_timer_list)
           f == CHOOSE f : Insertions(f, enabled, expire)
           Of(n) == {m_timer_list[i] : i \in {j \in 1 .. n : ~Goes(m_timer_list[j])}}
           Good(n) == f[n] \in Seq(Timers) /\ Sorted(f[n], expire) /\ ToSet(f[n]) = Of(n)
           T == {n \in Nat : n <= L /\ ~Good(n)}
<1>0. L \in Nat /\ DOMAIN m_timer_list = 1 .. L /\ \A n \in 1 .. L : m_timer_list[n] \in Timers
  OBVIOUS
<1>1. postload(enabled, expire) = f[L] BY Zenon DEF postload, Insertions
<1>2. Insertions(f, enabled, expire) BY InsertionsExist, Zenon
<1> HIDE DEF f
<1>3. \A n \in 0 .. L : f[n] = IF n = 0 THEN <<>>
                               ELSE IF Goes(m_timer_list[n]) THEN f[n - 1]
                               ELSE timer_list_insert(f[n - 1], m_timer_list[n], enabled, expire)
  <2>1. f = [n \in 0 .. L |-> IF n = 0 THEN <<>>
                              ELSE IF Goes(m_timer_list[n]) THEN f[n - 1]
                              ELSE timer_list_insert(f[n - 1], m_timer_list[n], enabled, expire)]
    BY <1>2, Zenon DEF Insertions
  <2> QED BY <2>1, Zenon
<1>4. ASSUME T # {} PROVE FALSE
  <2>1. PICK n \in T : \A m \in T : n <= m
    <3>1. T \subseteq Nat OBVIOUS
    <3> HIDE DEF T
    <3> QED BY <1>4, <3>1, Least
  <2>2. n \in Nat /\ n <= L /\ n \in 0 .. L /\ ~Good(n) BY <1>0
  <2>3. n # 0
    <3>1. ASSUME n = 0 PROVE Good(n)
      <4>1. f[n] = <<>> BY <1>3, <2>2, <3>1
      <4>2. <<>> \in Seq(Timers) /\ Sorted(<<>>, expire) /\ ToSet(<<>>) = {} BY DEF Sorted, ToSet
      <4>3. Of(n) = {} BY <3>1
      <4> QED BY <4>1, <4>2, <4>3
    <3> QED BY <2>2, <3>1
  <2>4. n - 1 \in Nat /\ n - 1 <= L /\ n \in 1 .. L /\ ~(n <= n - 1) BY <1>0, <2>2, <2>3
  <2>5. Good(n - 1)
    <3> HIDE DEF Good
    <3> QED BY <2>1, <2>4
  <2> DEFINE t == m_timer_list[n]
  <2>6. t \in Timers BY <1>0, <2>4
  <2>7. \A i \in 1 .. n : i # n => i \in 1 .. n - 1 BY <2>2
  <2>8. 1 .. n - 1 \subseteq 1 .. n /\ n \in 1 .. n BY <2>2, <2>3
  <2>9. CASE Goes(t)
    <3>1. f[n] = f[n - 1] BY <1>3, <2>2, <2>3, <2>9
    <3>2. Of(n) = Of(n - 1) BY <2>7, <2>8, <2>9
    <3> HIDE DEF Of
    <3> QED BY <2>2, <2>5, <3>1, <3>2
  <2>10. CASE ~Goes(t)
    <3>1. f[n] = timer_list_insert(f[n - 1], t, enabled, expire) BY <1>3, <2>2, <2>3, <2>10
    <3>2. t \notin Of(n - 1)
      <4>1. \A i \in 1 .. n - 1 : i \in 1 .. L /\ i < n BY <1>0, <2>2
      <4>2. \A i \in 1 .. n - 1 : m_timer_list[i] # m_timer_list[n] BY <2>4, <4>1 DEF Sorted
      <4> QED BY <4>2
    <3>3. Of(n) = Of(n - 1) \cup {t} BY <2>7, <2>8, <2>10
    <3> HIDE DEF Of, t
    <3>4. /\ f[n - 1] \in Seq(Timers) /\ Sorted(f[n - 1], expire) /\ t \notin ToSet(f[n - 1])
          /\ ~enabled[t] => expire[t] = Never
      BY <2>5, <2>6, <3>2
    <3>5. Placed(timer_list_insert(f[n - 1], t, enabled, expire), f[n - 1], t, expire)
      BY <2>6, <3>4, Inserted, Zenon
    <3>6. Good(n) BY <2>5, <3>1, <3>3, <3>5, Zenon DEF Placed
    <3> QED BY <2>2, <3>6
  <2> QED BY <2>9, <2>10
<1>5. Good(L)
  <2> HIDE DEF Good
  <2> QED BY <1>0, <1>4
<1>6. Of(L) = {t \in ToSet(m_timer_list) : ~Goes(t)} BY <1>0 DEF ToSet
<1> HIDE DEF Of
<1> QED BY <1>1, <1>5, <1>6

\* When no anonymous timer is outstanding, no event waits on the line.
LEMMA NothingWaits ==
    ASSUME IInv, phase = "idle", can_save, ~dropped
    PROVE  m_queue = <<>> /\ m_curstate = m_ipl
<1>1. ~Awaited
  <2> SUFFICES ASSUME NEW t \in ToSet(m_timer_list) \cap Temps, m_expire[t] < Never PROVE FALSE
    BY DEF Awaited
  <2>1. m_temporary(t) BY TimerFacts DEF m_temporary
  <2>2. m_expire[t] >= Never BY <2>1 DEF can_save, is_never
  <2>3. m_expire[t] \in Nat BY FirstFacts, TimerFacts
  <2> QED BY <2>2, <2>3, Numbers
<1> QED BY <1>1 DEF IInv, QueueIsSound, Pending

\* A state holds timers that are sound, and a line with nothing to apply unless
\* a timer is lost with it.
LEMMA SerializeKeeps ==
    ASSUME IInv, retro_serialize PROVE IInv'
<1>1. /\ phase = "idle"
      /\ saved' = [m_enabled |-> [t \in Perms |-> m_enabled[t]],
                   m_expire |-> [t \in Perms |-> m_expire[t]],
                   m_period |-> [t \in Perms |-> m_period[t]],
                   m_basetime |-> m_basetime, m_localtime |-> m_localtime,
                   m_curstate |-> m_curstate, m_ipl |-> m_ipl, requests |-> requests]
      /\ dropped' = (dropped \/ ~can_save)
      /\ UNCHANGED <<timers, m_basetime, cpu, phase, callback, line>>
  BY DEF retro_serialize
<1>2. (dropped' => dropped \/ ~can_save) /\ (dropped => dropped') /\ dropped' \in BOOLEAN
      /\ (~dropped' => can_save /\ ~dropped)
  BY <1>1, Zenon
<1>3. saved' \in SavedStates
  <2>1. /\ [t \in Perms |-> m_enabled[t]] \in [Perms -> BOOLEAN]
        /\ [t \in Perms |-> m_expire[t]] \in [Perms -> 0 .. Never]
        /\ [t \in Perms |-> m_period[t]] \in [Perms -> Nat \ {0}]
    BY TimerFacts DEF IInv, TypeOK, TimersType
  <2>2. m_basetime \in Nat /\ m_localtime \in Nat /\ m_curstate \in States /\ m_ipl \in States
        /\ requests \in States
    BY DEF IInv, TypeOK, CpuType, LineType
  <2> QED BY <1>1, <2>1, <2>2 DEF SavedStates
<1> USE DEF IInv, timers, cpu, callback, line
<1>4. TypeOK'
  <2>1. StateType' BY <1>2, <1>3 DEF StateType
  <2> QED BY <1>1, <2>1 DEF TypeOK, TimersType, CpuType, CallType, LineType
<1>5. ListIsSorted' BY <1>1 DEF ListIsSorted, Sorted
<1>6. TimersAreSound' /\ CallIsSound' BY <1>1 DEF TimersAreSound, CallIsSound, Called
<1>7. TimeIsSound' BY <1>1 DEF TimeIsSound, ClockIsSound
<1>8. QueueIsSound' BY <1>1, <1>2 DEF QueueIsSound, Pending, Awaited
<1>9. SavedIsSound'
  <2>1. /\ saved'.m_enabled[Screen] = m_enabled[Screen] /\ saved'.m_period[Screen] = m_period[Screen]
        /\ saved'.m_expire[Screen] = m_expire[Screen]
        /\ saved'.m_basetime = m_basetime /\ saved'.m_localtime = m_localtime
        /\ saved'.m_curstate = m_curstate /\ saved'.m_ipl = m_ipl
        /\ \A t \in Perms : saved'.m_enabled[t] = m_enabled[t] /\ saved'.m_expire[t] = m_expire[t]
    BY <1>1, TimerFacts
  <2>2. \A t \in Perms : ~m_enabled[t] => m_expire[t] = Never
    BY <1>1, TimerFacts DEF TimersAreSound, Called
  <2>3. m_enabled[Screen] /\ m_period[Screen] = Frame BY DEF TimersAreSound
  <2>4. ClockIsSound(m_basetime, m_localtime, m_expire[Screen])
        /\ \A t \in Perms : m_basetime <= m_expire[t] + Late
    BY <1>1, TimerFacts DEF TimeIsSound
  <2>5. ~dropped' => m_curstate = m_ipl BY <1>1, <1>2, NothingWaits
  <2> HIDE DEF IInv
  <2> QED BY <2>1, <2>2, <2>3, <2>4, <2>5 DEF SavedIsSound
<1> QED BY <1>4, <1>5, <1>6, <1>7, <1>8, <1>9

\* A state is loaded over whatever list the session has.
LEMMA UnserializeKeeps ==
    ASSUME IInv, retro_unserialize PROVE IInv'
<1> DEFINE enabled == [Restored(saved.m_enabled, FALSE) EXCEPT ![Sentinel] = TRUE]
           expire == Restored(saved.m_expire, Never)
           list == postload(enabled, expire)
           event == saved.m_ipl # saved.requests
           full == event /\ Len(m_queue) >= QueueSize
           queue == IF full THEN <<>> ELSE m_queue
           free == Temps \ ToSet(list)
           temp == CHOOSE t \in free : TRUE
           armed == event /\ queue = <<>>
<1>1. /\ phase = "idle" /\ saved # NoState
      /\ m_basetime' = saved.m_basetime /\ m_localtime' = saved.m_localtime
      /\ m_ipl' = saved.requests /\ requests' = saved.requests
      /\ dropped' = (dropped \/ ~can_save)
      /\ m_curstate' = IF full THEN Applied(m_queue, saved.m_curstate) ELSE saved.m_curstate
      /\ m_queue' = IF event THEN Append(queue, saved.requests) ELSE m_queue
      /\ m_period' = Restored(saved.m_period, Never)
      /\ UNCHANGED <<target, now, stop, phase, callback, saved>>
  BY DEF retro_unserialize
<1>2. IF armed
      THEN /\ free # {}
           /\ m_enabled' = [enabled EXCEPT ![temp] = TRUE]
           /\ m_expire' = [expire EXCEPT ![temp] = m_basetime']
           /\ m_timer_list' = timer_list_insert(list, temp, m_enabled', m_expire')
      ELSE m_enabled' = enabled /\ m_expire' = expire /\ m_timer_list' = list
  BY DEF retro_unserialize
<1>3. saved \in SavedStates BY <1>1 DEF IInv, TypeOK, StateType
<1>4. /\ saved.m_enabled \in [Perms -> BOOLEAN] /\ saved.m_expire \in [Perms -> 0 .. Never]
      /\ saved.m_period \in [Perms -> Nat \ {0}] /\ saved.m_basetime \in Nat
      /\ saved.m_localtime \in Nat /\ saved.m_curstate \in States /\ saved.m_ipl \in States
      /\ saved.requests \in States
  BY <1>3 DEF SavedStates
<1>5. /\ saved.m_enabled[Screen] /\ saved.m_period[Screen] = Frame
      /\ \A t \in Perms : ~saved.m_enabled[t] => saved.m_expire[t] = Never
      /\ ClockIsSound(saved.m_basetime, saved.m_localtime, saved.m_expire[Screen])
      /\ \A t \in Perms : saved.m_basetime <= saved.m_expire[t] + Late
      /\ ~dropped => saved.m_curstate = saved.m_ipl
  BY <1>1 DEF IInv, SavedIsSound
<1>6. saved.m_basetime \in 0 .. Never /\ saved.m_basetime < Never
  BY <1>4, <1>5, Numbers DEF ClockIsSound
<1>7. m_queue \in Seq(States) /\ Len(m_queue) <= QueueSize /\ QueueSize \in Nat \ {0}
  BY SchedulerAssumption DEF IInv, TypeOK, LineType, QueueIsSound
\* The timers as they were when the state was saved.
<1>8. /\ expire \in [Timers -> 0 .. Never] /\ \A t \in Perms : expire[t] = saved.m_expire[t]
      /\ \A t \in Timers : t \notin Perms => expire[t] = Never
  BY <1>4, TimerFacts, Numbers DEF Restored
<1>9. /\ enabled \in [Timers -> BOOLEAN] /\ enabled[Sentinel]
      /\ \A t \in Perms : enabled[t] = saved.m_enabled[t]
  <2> DEFINE plain == Restored(saved.m_enabled, FALSE)
  <2>1. plain \in [Timers -> BOOLEAN] /\ \A t \in Perms : plain[t] = saved.m_enabled[t]
    BY <1>4, TimerFacts DEF Restored
  <2>2. \A t \in Perms : t # Sentinel /\ t \in Timers BY TimerFacts
  <2>3. Sentinel \in Timers BY TimerFacts
  <2>4. enabled = [plain EXCEPT ![Sentinel] = TRUE] OBVIOUS
  <2> HIDE DEF plain, enabled
  <2> QED BY <2>1, <2>2, <2>3, <2>4
<1>10. m_period' \in [Timers -> Nat \ {0}] /\ m_period'[Screen] = Frame
  BY <1>1, <1>4, <1>5, TimerFacts, Numbers DEF Restored
<1> HIDE DEF enabled, expire
<1>11. \A t \in Timers : ~enabled[t] => expire[t] = Never
  BY <1>5, <1>8, <1>9
<1>12. /\ list \in Seq(Timers) /\ Sorted(list, expire)
       /\ ToSet(list) = {t \in ToSet(m_timer_list) : ~Goes(t)}
  BY <1>8, <1>11, Postloaded DEF IInv, TypeOK, TimersType, ListIsSorted
<1> HIDE DEF list
<1>13. Perms \cup {Sentinel} \subseteq ToSet(list)
  <2>1. Perms \cup {Sentinel} \subseteq ToSet(m_timer_list) BY DEF IInv, ListIsSorted
  <2>2. \A t \in Perms : ~Goes(t) BY DEF Goes, m_temporary
  <2>3. ~Goes(Sentinel) BY Numbers DEF Goes, is_never, IInv, TimersAreSound
  <2> QED BY <1>12, <2>1, <2>2, <2>3
\* With the timer of the event, when the line needs one.
<1>14. /\ m_enabled' \in [Timers -> BOOLEAN] /\ m_expire' \in [Timers -> 0 .. Never]
       /\ m_timer_list' \in Seq(Timers) /\ Sorted(m_timer_list', m_expire')
       /\ ToSet(list) \subseteq ToSet(m_timer_list')
       /\ \A t \in Timers : t \notin ToSet(m_timer_list') => m_expire'[t] = Never
       /\ \A t \in Perms \cup {Sentinel} : m_enabled'[t] = enabled[t] /\ m_expire'[t] = expire[t]
       /\ \A t \in Timers : ~m_enabled'[t] => m_expire'[t] = Never
       /\ \A t \in Timers : m_expire'[t] = expire[t] \/ m_expire'[t] = saved.m_basetime
       /\ armed => Awaited'
  <2>0. \A t \in Timers : t \notin ToSet(list) => t \in Temps /\ expire[t] = Never
    BY <1>8, <1>13, TimerFacts
  <2>1. CASE armed
    <3>1. temp \in Temps /\ temp \notin ToSet(list) BY <1>2, <2>1
    <3>2. /\ m_enabled' = [enabled EXCEPT ![temp] = TRUE]
          /\ m_expire' = [expire EXCEPT ![temp] = saved.m_basetime]
          /\ m_timer_list' = timer_list_insert(list, temp, m_enabled', m_expire')
      BY <1>1, <1>2, <2>1
    <3> HIDE DEF temp
    <3>3. temp \in Timers /\ temp \notin Perms /\ temp # Sentinel BY <3>1, TimerFacts
    <3>4. m_enabled' \in [Timers -> BOOLEAN] /\ m_enabled'[temp] = TRUE
          /\ \A t \in Timers : t # temp => m_enabled'[t] = enabled[t]
      BY <1>9, <3>2, <3>3, Zenon
    <3>5. m_expire' \in [Timers -> 0 .. Never] /\ m_expire'[temp] = saved.m_basetime
          /\ \A t \in Timers : t # temp => m_expire'[t] = expire[t]
      BY <1>6, <1>8, <3>2, <3>3, Zenon
    <3>6. Sorted(list, m_expire')
      <4>1. \A i \in 1 .. Len(list) : list[i] \in ToSet(list) /\ list[i] \in Timers
        BY <1>12 DEF ToSet
      <4>2. \A i \in 1 .. Len(list) : m_expire'[list[i]] = expire[list[i]]
        BY <3>1, <3>5, <4>1
      <4> QED BY <1>12, <4>2 DEF Sorted
    <3>7. ~m_enabled'[temp] => m_expire'[temp] = Never BY <3>4, Zenon
    <3>8. list \in Seq(Timers) BY <1>12
    <3>9. Placed(timer_list_insert(list, temp, m_enabled', m_expire'), list, temp, m_expire')
      BY <3>1, <3>3, <3>5, <3>6, <3>7, <3>8, Inserted
    <3>10. m_timer_list' \in Seq(Timers) /\ Sorted(m_timer_list', m_expire')
           /\ ToSet(m_timer_list') = ToSet(list) \cup {temp}
      BY <3>2, <3>9, Zenon DEF Placed
    <3>11. Awaited'
      <4>1. temp \in ToSet(m_timer_list') \cap Temps BY <3>1, <3>10
      <4>2. m_enabled'[temp] /\ m_expire'[temp] < Never BY <1>6, <3>4, <3>5
      <4> QED BY <4>1, <4>2 DEF Awaited
    <3>12. \A t \in Perms \cup {Sentinel} : t # temp /\ t \in Timers BY <3>3, TimerFacts
    <3>13. ASSUME NEW t \in Timers, t \notin ToSet(m_timer_list') PROVE m_expire'[t] = Never
      <4>1. t # temp /\ t \notin ToSet(list) BY <3>10, <3>13
      <4> QED BY <2>0, <3>5, <4>1
    <3>14. ASSUME NEW t \in Timers, ~m_enabled'[t] PROVE m_expire'[t] = Never
      <4>1. t # temp /\ ~enabled[t] BY <3>4, <3>14
      <4> QED BY <1>11, <3>5, <4>1
    <3> QED BY <3>4, <3>5, <3>10, <3>11, <3>12, <3>13, <3>14
  <2>2. CASE ~armed
    <3>1. m_enabled' = enabled /\ m_expire' = expire /\ m_timer_list' = list BY <1>2, <2>2
    <3> HIDE DEF armed
    <3> QED BY <1>8, <1>9, <1>11, <1>12, <2>0, <2>2, <3>1
  <2> QED BY <2>1, <2>2
<1>15. /\ m_enabled'[Screen] /\ m_expire'[Screen] = saved.m_expire[Screen]
       /\ m_enabled'[Sentinel] /\ m_expire'[Sentinel] = Never
  BY <1>5, <1>8, <1>9, <1>14, TimerFacts
<1> DEFINE Line == m_queue' \in Seq(States) /\ Len(m_queue') <= QueueSize /\ m_curstate' \in States
<1>16. queue \in Seq(States) /\ (event => Len(queue) < QueueSize)
  BY <1>7
<1>17. Line
  <2>1. CASE event
    <3> HIDE DEF queue, event
    <3>1. m_queue' \in Seq(States) /\ Len(m_queue') = Len(queue) + 1
      BY <1>1, <1>4, <1>16, <2>1
    <3>2. Len(m_queue') <= QueueSize BY <1>7, <1>16, <2>1, <3>1
    <3>3. m_curstate' \in States
      <4>1. Applied(m_queue, saved.m_curstate) \in States
        <5>1. CASE m_queue = <<>> BY <1>4, <5>1 DEF Applied
        <5>2. CASE m_queue # <<>>
          <6>1. Len(m_queue) \in 1 .. Len(m_queue) BY <1>7, <5>2
          <6> QED BY <1>7, <5>2, <6>1 DEF Applied, Last
        <5> QED BY <5>1, <5>2
      <4> QED BY <1>1, <1>4, <4>1
    <3> QED BY <3>1, <3>2, <3>3
  <2>2. CASE ~event
    <3>1. m_queue' = m_queue /\ m_curstate' = saved.m_curstate BY <1>1, <2>2
    <3> QED BY <1>4, <1>7, <3>1
  <2> QED BY <2>1, <2>2
<1>18. TypeOK'
  <2>1. TimersType' BY <1>10, <1>14 DEF TimersType
  <2>2. CpuType' BY <1>1, <1>4 DEF IInv, TypeOK, CpuType
  <2>3. CallType' BY <1>1 DEF IInv, TypeOK, CallType, callback
  <2>4. LineType' BY <1>1, <1>4, <1>17 DEF LineType
  <2>5. StateType'
    <3>1. dropped' \in BOOLEAN BY <1>1, Zenon
    <3> QED BY <1>1, <3>1 DEF IInv, TypeOK, StateType
  <2> QED BY <2>1, <2>2, <2>3, <2>4, <2>5 DEF TypeOK
<1>19. ListIsSorted' BY <1>13, <1>14 DEF ListIsSorted
<1>20. TimersAreSound' BY <1>10, <1>14, <1>15 DEF TimersAreSound
<1>21. CallIsSound' BY <1>1 DEF IInv, CallIsSound, Called, callback
<1>22. TimeIsSound'
  <2>1. ASSUME NEW t \in Timers PROVE saved.m_basetime <= m_expire'[t] + Late
    <3>1. Late \in Nat /\ Never \in Nat BY Longest, Numbers
    <3>2. CASE m_expire'[t] = saved.m_basetime BY <1>6, <3>1, <3>2
    <3>3. CASE m_expire'[t] = expire[t]
      <4>1. CASE t \in Perms BY <1>5, <1>8, <3>3, <4>1
      <4>2. CASE t \notin Perms
        <5>1. m_expire'[t] = Never BY <1>8, <3>3, <4>2
        <5> QED BY <1>6, <3>1, <5>1
      <4> QED BY <4>1, <4>2
    <3> QED BY <1>14, <3>2, <3>3
  <2> QED BY <1>1, <1>5, <1>15, <2>1 DEF TimeIsSound, ClockIsSound
<1>23. QueueIsSound'
  <2>1. ASSUME ~dropped'
        PROVE  IF m_queue' = <<>> THEN m_curstate' = m_ipl' ELSE Last(m_queue') = m_ipl' /\ Pending'
    <3>1. ~dropped /\ can_save BY <1>1, <2>1
    <3>2. m_queue = <<>> BY <1>1, <3>1, NothingWaits
    <3>3. Len(m_queue) = 0 /\ ~full BY <1>7, <3>2
    <3>4. queue = <<>> BY <3>2, <3>3
    <3>5. m_curstate' = saved.m_curstate /\ saved.m_curstate = saved.m_ipl BY <1>1, <1>5, <3>1, <3>3
    <3>6. CASE event
      <4>1. Awaited' BY <1>14, <3>4, <3>6
      <4>2. m_queue' = <<saved.requests>>
        <5>1. m_queue' = Append(queue, saved.requests) BY <1>1, <3>6
        <5>2. Append(<<>>, saved.requests) = <<saved.requests>> OBVIOUS
        <5> HIDE DEF queue
        <5> QED BY <3>4, <5>1, <5>2, Zenon
      <4>3. m_queue' # <<>> /\ Last(m_queue') = saved.requests BY <4>2 DEF Last
      <4> QED BY <1>1, <4>1, <4>3 DEF Pending
    <3>7. CASE ~event BY <1>1, <3>2, <3>5, <3>7
    <3> QED BY <3>6, <3>7
  <2> QED BY <1>1, <1>17, <2>1 DEF QueueIsSound
<1>24. SavedIsSound'
  <2>1. ~dropped' => ~dropped BY <1>1
  <2> QED BY <1>1, <1>5, <2>1 DEF SavedIsSound, ClockIsSound
<1> QED BY <1>18, <1>19, <1>20, <1>21, <1>22, <1>23, <1>24 DEF IInv

-----------------------------------------------------------------------------
(* The theorems. *)

\* The timers as the devices allocate them, in any order.
LEMMA InitSound == Init => IInv
<1> SUFFICES ASSUME Init PROVE IInv OBVIOUS
<1>1. PICK order \in SetToSeqs(Devs) : m_timer_list = <<Screen, Sentinel>> \o order
  BY DEF Init
<1>2. /\ m_enabled = [t \in Timers |-> t \in {Screen, Sentinel}]
      /\ m_expire = [t \in Timers |-> IF t = Screen THEN Frame ELSE Never]
      /\ m_period = [t \in Timers |-> IF t = Screen THEN Frame ELSE Never]
      /\ m_basetime = 0 /\ m_localtime = 0 /\ phase = "idle"
      /\ target = 0 /\ now = 0 /\ stop = 0
      /\ m_callback_timer = NoTimer /\ m_callback_timer_modified = FALSE
      /\ m_callback_timer_expire_time = 0
      /\ m_queue = <<>> /\ m_curstate = "CLEAR" /\ m_ipl = "CLEAR" /\ requests = "CLEAR"
      /\ saved = NoState /\ dropped = FALSE
  BY DEF Init
<1> DEFINE n == Cardinality(Devs)
<1>0. IsFiniteSet(Devs) /\ n \in Nat BY SchedulerAssumption, FS_CardinalityType
<1>20. order \in [1 .. n -> Devs] /\ \A i, j \in 1 .. n : i # j => order[i] # order[j]
  BY <1>1, Zenon DEF SetToSeqs
<1>21. \A t \in Devs : \E i \in 1 .. n : order[i] = t
  <2> SUFFICES ASSUME NEW t \in Devs, \A i \in 1 .. n : order[i] # t PROVE FALSE OBVIOUS
  <2>1. IsFiniteSet(Devs \ {t}) /\ Cardinality(Devs \ {t}) = n - 1
    BY <1>0, FS_RemoveElement
  <2>2. IsFiniteSet(1 .. n) /\ Cardinality(1 .. n) = n BY <1>0, FS_Interval
  <2>3. order \in [1 .. n -> Devs \ {t}] BY <1>20
  <2>4. Cardinality(Devs \ {t}) < Cardinality(1 .. n) BY <1>0, <2>1, <2>2
  <2>5. \E i, j \in 1 .. n : i # j /\ order[i] = order[j]
    <3> DEFINE S == 1 .. n  V == Devs \ {t}
    <3>1. IsFiniteSet(S) /\ IsFiniteSet(V) /\ Cardinality(V) < Cardinality(S) /\ order \in [S -> V]
      BY <2>1, <2>2, <2>3, <2>4
    <3> HIDE DEF S, V, n
    <3>2. \E i, j \in S : i # j /\ order[i] = order[j] BY <3>1, FS_PigeonHole
    <3> QED BY <3>2 DEF S
  <2> QED BY <1>20, <2>5
<1> HIDE DEF n
<1>3. order \in Seq(Devs) /\ ToSet(order) = Devs /\ Len(order) = n
  <2>1. order \in Seq(Devs) /\ Len(order) = n BY <1>0, <1>20
  <2>2. DOMAIN order = 1 .. n BY <1>20
  <2>3. ToSet(order) = Devs BY <1>20, <1>21, <2>2 DEF ToSet
  <2> QED BY <2>1, <2>3
<1>4. \A i, j \in 1 .. Len(order) : i # j => order[i] # order[j]
  BY <1>3, <1>20
<1> DEFINE head == <<Screen, Sentinel>>
<1>5. head \in Seq(Timers) /\ Len(head) = 2 /\ head[1] = Screen /\ head[2] = Sentinel
  BY TimerFacts
<1>6. order \in Seq(Timers) /\ \A i \in 1 .. Len(order) : order[i] \in Devs
  BY <1>3, TimerFacts
<1>7. Join(m_timer_list, Timers, head, order)
  <2> HIDE DEF head
  <2> QED BY <1>1, <1>5, <1>6, Joined DEF head
<1> HIDE DEF head
<1>8. /\ m_timer_list \in Seq(Timers) /\ Len(m_timer_list) = 2 + Len(order)
      /\ m_timer_list[1] = Screen /\ m_timer_list[2] = Sentinel
      /\ \A i \in 1 .. Len(order) : m_timer_list[2 + i] = order[i]
  <2>1. 1 \in 1 .. 2 /\ 2 \in 1 .. 2 OBVIOUS
  <2> QED BY <1>5, <1>7, <2>1 DEF Join
<1>9. Sorted(m_timer_list, m_expire)
  <2> SUFFICES ASSUME NEW i \in 1 .. Len(m_timer_list), NEW j \in 1 .. Len(m_timer_list), i < j
               PROVE  /\ m_timer_list[i] # m_timer_list[j]
                      /\ m_expire[m_timer_list[i]] <= m_expire[m_timer_list[j]]
    BY DEF Sorted
  <2>0. Len(order) \in Nat BY <1>3
  <2>1. CASE j = 2
    <3>1. i = 1 BY <1>8, <2>0, <2>1
    <3> QED BY <1>2, <1>8, <2>1, <3>1, TimerFacts, Numbers
  <2>2. CASE j > 2
    <3>1. j - 2 \in 1 .. Len(order) /\ 2 + (j - 2) = j BY <1>8, <2>0, <2>2
    <3>2. m_timer_list[j] = order[j - 2] BY <1>8, <3>1
    <3>3. m_timer_list[j] \in Devs BY <1>6, <3>1, <3>2
    <3>4. m_expire[m_timer_list[j]] = Never BY <1>2, <3>3, TimerFacts
    <3>5. m_timer_list[i] \in Timers /\ m_expire[m_timer_list[i]] <= Never
      <4>1. m_timer_list[i] \in Timers BY <1>8
      <4> QED BY <1>2, <4>1, Numbers
    <3>6. m_timer_list[i] # m_timer_list[j]
      <4>1. CASE i = 1 BY <1>8, <3>3, <4>1, TimerFacts
      <4>2. CASE i = 2 BY <1>8, <3>3, <4>2, TimerFacts
      <4>3. CASE i > 2
        <5>1. i - 2 \in 1 .. Len(order) /\ 2 + (i - 2) = i /\ i - 2 # j - 2
            BY <1>8, <2>0, <2>2, <4>3
        <5>2. m_timer_list[i] = order[i - 2] BY <1>8, <5>1
        <5> QED BY <1>4, <3>1, <3>2, <5>1, <5>2
      <4> QED BY <4>1, <4>2, <4>3
    <3> QED BY <3>4, <3>5, <3>6
  <2> QED BY <1>8, <2>0, <2>1, <2>2
<1>10. Perms \cup {Sentinel} \subseteq ToSet(m_timer_list)
  <2>1. /\ DOMAIN m_timer_list = 1 .. Len(m_timer_list) /\ Len(order) \in Nat
        /\ DOMAIN order = 1 .. Len(order)
    BY <1>6, <1>8
  <2>2. Screen \in ToSet(m_timer_list) /\ Sentinel \in ToSet(m_timer_list)
    <3>1. 1 \in DOMAIN m_timer_list /\ 2 \in DOMAIN m_timer_list BY <1>8, <2>1
    <3> QED BY <1>8, <3>1 DEF ToSet
  <2>3. ASSUME NEW t \in Devs PROVE t \in ToSet(m_timer_list)
    <3>1. PICK i \in 1 .. Len(order) : t = order[i] BY <1>3, <2>1 DEF ToSet
    <3>2. 2 + i \in DOMAIN m_timer_list /\ t = m_timer_list[2 + i] BY <1>8, <2>1, <3>1
    <3> QED BY <3>2 DEF ToSet
  <2> QED BY <2>2, <2>3 DEF Perms
<1>11. \A t \in Timers : t # Screen => m_expire[t] = Never BY <1>2
<1>12. ListIsSorted
  <2>1. Screen \in ToSet(m_timer_list) BY <1>10, TimerFacts
  <2> QED BY <1>9, <1>10, <1>11, <2>1 DEF ListIsSorted
<1>13. TypeOK
  <2>1. m_expire \in [Timers -> 0 .. Never] /\ m_period \in [Timers -> Nat \ {0}]
        /\ m_enabled \in [Timers -> BOOLEAN]
    BY <1>2, Numbers
  <2>2. TimersType BY <1>8, <2>1 DEF TimersType
  <2>3. CpuType /\ CallType /\ StateType BY <1>2 DEF CpuType, CallType, StateType, Phases
  <2>4. LineType
    <3>1. <<>> \in Seq(States) OBVIOUS
    <3> QED BY <1>2, <3>1 DEF LineType, States
  <2> QED BY <2>2, <2>3, <2>4 DEF TypeOK
<1>14. TimersAreSound
  <2>1. \A t \in Timers : ~m_enabled[t] => t # Screen BY <1>2
  <2> QED BY <1>2, <1>11, <2>1, TimerFacts DEF TimersAreSound
<1>15. CallIsSound BY <1>2 DEF CallIsSound, Called
<1>16. TimeIsSound
  <2>1. m_expire[Screen] = Frame BY <1>2, TimerFacts
  <2>2. 0 <= Frame /\ Frame <= 0 + Frame /\ 0 < MaxTime + Frame /\ 0 < 0 + Cycle
    BY Numbers, SchedulerAssumption
  <2>3. \A t \in Timers : 0 <= m_expire[t] + Late
    <3>1. \A t \in Timers : m_expire[t] \in Nat BY <1>13 DEF TypeOK, TimersType
    <3> QED BY <3>1, Longest
  <2> QED BY <1>2, <2>1, <2>2, <2>3 DEF TimeIsSound, ClockIsSound
<1>17. QueueIsSound
  <2>1. Len(<<>>) <= QueueSize BY SchedulerAssumption
  <2> QED BY <1>2, <2>1 DEF QueueIsSound
<1>18. SavedIsSound BY <1>2 DEF SavedIsSound
<1> QED BY <1>12, <1>13, <1>14, <1>15, <1>16, <1>17, <1>18 DEF IInv

\* The invariant depends on the variables alone.
LEMMA StutterKeeps == IInv /\ UNCHANGED vars => IInv'
<1> SUFFICES ASSUME IInv, UNCHANGED vars PROVE IInv' OBVIOUS
<1> USE DEF IInv, vars, timers, cpu, callback, line
<1>1. TypeOK' BY DEF TypeOK, TimersType, CpuType, CallType, LineType, StateType
<1>2. ListIsSorted' BY DEF ListIsSorted, Sorted
<1>3. TimersAreSound' /\ CallIsSound' BY DEF TimersAreSound, CallIsSound, Called
<1>4. TimeIsSound' BY DEF TimeIsSound, ClockIsSound, RunIsSound
<1>5. QueueIsSound' /\ SavedIsSound'
  BY DEF QueueIsSound, Pending, Awaited, SavedIsSound, ClockIsSound
<1> QED BY <1>1, <1>2, <1>3, <1>4, <1>5

\* The invariant holds in every state of the specification.
LEMMA Inductive == Spec => []IInv
<1>1. IInv /\ Next => IInv'
  BY AccessKeeps, StartSliceKeeps, InstructionKeeps, SliceEndsKeeps, ExpireTimerKeeps,
     DeviceTimerKeeps, EmptyKeeps, RescheduleKeeps, TimersDoneKeeps, SerializeKeeps,
     UnserializeKeeps, Zenon DEF Next
<1>2. IInv /\ [Next]_vars => IInv' BY <1>1, StutterKeeps
<1> QED BY <1>2, InitSound, PTL DEF Spec

\* Types: for any timers, periods, instruction lengths and queue size the list,
\* the clocks, the callback, the line and the state keep theirs.
THEOREM TypeCorrect == Spec => []TypeOK
<1>1. IInv => TypeOK BY DEF IInv
<1> QED BY <1>1, Inductive, PTL

\* The head of the list is never later than another enabled timer, over any
\* sequence of adjustments, callbacks, loads and re-sorting in postload(): the
\* slice that timeslice() computes from it alone passes no timer.
THEOREM HeadCorrect == Spec => []HeadIsEarliest
<1>1. IInv => HeadIsEarliest
  <2> SUFFICES ASSUME IInv, NEW t \in ToSet(m_timer_list)
               PROVE  m_expire[m_timer_first] <= m_expire[t]
    BY DEF HeadIsEarliest
  <2>1. t \in Timers BY DEF IInv, TypeOK, TimersType, ToSet
  <2> QED BY <2>1, FirstFacts
<1> QED BY <1>1, Inductive, PTL

\* execute_timers() starts a callback at most one instruction after its time: the
\* CPU is made to give way when a register access arms a timer before all others.
THEOREM CallbackCorrect == Spec => []CallbackOnTime
<1>1. IInv => CallbackOnTime BY DEF IInv, CallIsSound, Called, CallbackOnTime, Late
<1> QED BY <1>1, Inductive, PTL

\* The events of an input line fit its queue, and while one waits a timer is armed
\* that will apply it; with none waiting the CPU sees the state its owner gave
\* last (set_state_synced() and empty_event_queue() of diexec.cpp).
THEOREM LineCorrect == Spec => []LineIsServed
<1>1. IInv => LineIsServed
  <2> SUFFICES ASSUME IInv PROVE LineIsServed OBVIOUS
  <2>1. ASSUME Awaited
        PROVE  \E t \in ToSet(m_timer_list) \cap Temps : m_enabled[t] /\ ~is_never(m_expire[t])
    <3>1. PICK t \in ToSet(m_timer_list) \cap Temps : m_enabled[t] /\ m_expire[t] < Never
      BY <2>1 DEF Awaited
    <3>2. m_expire[t] \in Nat /\ Never \in Nat BY FirstFacts, TimerFacts, Numbers
    <3>3. ~is_never(m_expire[t]) BY <3>1, <3>2 DEF is_never
    <3> QED BY <3>1, <3>3
  <2> QED BY <2>1 DEF IInv, QueueIsSound, Pending, LineIsServed
<1> QED BY <1>1, Inductive, PTL
=============================================================================
