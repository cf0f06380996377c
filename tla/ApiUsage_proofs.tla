---------------------------- MODULE ApiUsage_proofs -------------------------
(***************************************************************************)
(* Theorems about the two sides of the budget of cloud calls:              *)
(* ApiCallCounter, which tallies the calls that are sent, for any number   *)
(* of entries, counters, days and calls; PollSchedule, which decides when  *)
(* calls are made, for any number of locks and any options.                *)
(***************************************************************************)
EXTENDS ApiCallCounter, PollSchedule, FiniteSetTheorems, SequenceTheorems, TLAPS

-----------------------------------------------------------------------------
(* The tally of calls: typing *)

\* No counter has two saves pending, and whoever is set up has a counter.
Distinct == \A i, j \in 1..Len(saves) : saves[i] = saves[j] => i = j

CounterTyped ==
    /\ entry \in [Entries -> Entry]
    /\ \A e \in Entries : entry[e].stage # "unloaded" => entry[e].counter # None
    /\ shared \in Counters \cup {None}
    /\ counter \in [Counters -> Tally]
    /\ saves \in Seq(Counters) /\ Distinct
    /\ file \in Tally
    /\ today \in Date
    /\ callsMade \in Nat /\ restarts \in Nat
    /\ sent \in Tally
    /\ raced \in BOOLEAN /\ lost \in BOOLEAN

\* Nothing is tallied for a day that is still to come.
NothingAhead(days) == \A d \in Date : d > today => days[d] = 0

\* The days of a tally are the one of its last call and those it retains.
Window(days) ==
    \E last \in Date : \A d \in Date :
        days[d] > 0 => d <= last /\ last <= d + Retention

DaysInv ==
    /\ \A c \in Counters : NothingAhead(counter[c]) /\ Window(counter[c])
    /\ NothingAhead(file) /\ Window(file)
    /\ NothingAhead(sent)

\* As long as no two counters were created at once, there is the one that is
\* shared, or the one that is loading.
Connected == {"locks", "gateways", "loaded", "failed"}
SharedInv ==
    /\ \A e, f \in Entries :
          entry[e].stage = "loading" /\ entry[f].stage = "loading" => e = f
    /\ \A e \in Entries :
          /\ entry[e].stage = "loading" => shared = None
          /\ entry[e].stage \in Connected => entry[e].counter = shared
          /\ entry[e].stage \in Connected <=> entry[e].data # "none"

\* ... and the calls of the month are in it, in the file, or in the one counter
\* that is still to be saved.
HasMonth(days) == \A d \in ThisMonth : days[d] = sent[d]
MonthInv ==
    /\ shared # None => HasMonth(counter[shared])
    /\ saves = <<>> => HasMonth(file)
    /\ Len(saves) <= 1
    /\ \A c \in Pending : HasMonth(counter[c]) /\ (shared # None => c = shared)

CounterInv ==
    /\ CounterTyped
    /\ DaysInv
    /\ ~raced => SharedInv
    /\ ~raced /\ ~lost => MonthInv

-----------------------------------------------------------------------------
(* Pending saves *)

\* The element at position i is moved to the end.
LEMMA Moved ==
    ASSUME NEW S, NEW s \in Seq(S), NEW i \in 1..Len(s)
    PROVE  LET m == Append(RemoveAt(s, i), s[i])
           IN  /\ m \in Seq(S) /\ Len(m) = Len(s)
               /\ \A k \in 1..Len(s) :
                     m[k] = IF k < i THEN s[k] ELSE IF k < Len(s) THEN s[k + 1] ELSE s[i]
  <1> DEFINE front == SubSeq(s, 1, i - 1)
  <1> DEFINE back == SubSeq(s, i + 1, Len(s))
  <1>1. Len(s) \in Nat /\ s[i] \in S
    BY LenProperties, ElementOfSeq
  <1>2. /\ front \in Seq(S) /\ Len(front) = i - 1
        /\ \A k \in 1..(i - 1) : front[k] = s[k]
    BY <1>1, SubSeqProperties
  <1>3. /\ back \in Seq(S) /\ Len(back) = Len(s) - i
        /\ \A k \in 1..(Len(s) - i) : back[k] = s[i + k]
    BY <1>1, SubSeqProperties
  <1>4. RemoveAt(s, i) = front \o back
    BY DEF RemoveAt
  <1> HIDE DEF front, back
  <1> DEFINE r == front \o back
  <1>5. /\ r \in Seq(S) /\ Len(r) = Len(s) - 1
        /\ \A k \in 1..(Len(s) - 1) :
              r[k] = IF k < i THEN front[k] ELSE back[k - (i - 1)]
    <2>1. /\ r \in Seq(S) /\ Len(r) = Len(front) + Len(back)
          /\ \A k \in 1..(Len(front) + Len(back)) :
                r[k] = IF k <= Len(front) THEN front[k] ELSE back[k - Len(front)]
      BY <1>2, <1>3, ConcatProperties
    <2>2. Len(front) + Len(back) = Len(s) - 1 /\ i \in Int
      BY <1>1, <1>2, <1>3
    <2> HIDE DEF r
    <2> QED BY <1>1, <1>2, <2>1, <2>2
  <1> HIDE DEF r
  <1>6. \A k \in 1..(Len(s) - 1) : r[k] = IF k < i THEN s[k] ELSE s[k + 1]
    <2> TAKE k \in 1..(Len(s) - 1)
    <2>1. CASE k < i
      BY <1>1, <1>2, <1>5, <2>1
    <2>2. CASE ~(k < i)
      <3>1. k - (i - 1) \in 1..(Len(s) - i) /\ i + (k - (i - 1)) = k + 1
        BY <1>1, <2>2
      <3> QED BY <1>1, <1>3, <1>5, <2>2, <3>1
    <2> QED BY <2>1, <2>2
  <1> DEFINE m == Append(r, s[i])
  <1>7. /\ m \in Seq(S) /\ Len(m) = Len(s)
        /\ \A k \in 1..Len(s) : m[k] = IF k < Len(s) THEN r[k] ELSE s[i]
    BY <1>1, <1>5, AppendProperties
  <1> HIDE DEF m
  <1>8. \A k \in 1..Len(s) :
           m[k] = IF k < i THEN s[k] ELSE IF k < Len(s) THEN s[k + 1] ELSE s[i]
    BY <1>1, <1>6, <1>7
  <1>9. m = Append(RemoveAt(s, i), s[i])
    BY <1>4 DEF m, r
  <1> QED BY <1>7, <1>8, <1>9

\* A delayed save takes the counter's place at the end of the queue.
LEMMA DelaySaveIs ==
    ASSUME saves \in Seq(Counters), Distinct, NEW c \in Counters, NEW days,
           DelaySave(c, days)
    PROVE  /\ saves' \in Seq(Counters) /\ Distinct' /\ Len(saves') >= 1
           /\ Pending' = Pending \cup {c}
           /\ Pending \subseteq {c} => Len(saves') = 1
  <1>1. Len(saves) \in Nat
    BY LenProperties
  <1>2. /\ saves' \in Seq(Counters) /\ Distinct' /\ Len(saves') >= 1
        /\ Pending' = Pending \cup {c}
    <2>1. CASE c \notin Pending /\ saves' = Append(saves, c)
      <3>1. /\ saves' \in Seq(Counters) /\ Len(saves') = Len(saves) + 1
            /\ \A k \in 1..Len(saves) : saves'[k] = saves[k]
            /\ saves'[Len(saves) + 1] = c
        BY <1>1, <2>1, AppendProperties
      <3>2. Distinct'
        BY <1>1, <2>1, <3>1 DEF Distinct, Pending
      <3>3. Pending' = Pending \cup {c}
        BY <1>1, <3>1 DEF Pending
      <3> QED BY <1>1, <3>1, <3>2, <3>3
    <2>2. ASSUME NEW i \in 1..Len(saves), saves[i] = c, saves' = Append(RemoveAt(saves, i), c)
          PROVE  /\ saves' \in Seq(Counters) /\ Distinct' /\ Len(saves') >= 1
                 /\ Pending' = Pending \cup {c}
      <3>1. /\ saves' \in Seq(Counters) /\ Len(saves') = Len(saves)
            /\ \A k \in 1..Len(saves) :
                  saves'[k] = IF k < i THEN saves[k]
                              ELSE IF k < Len(saves) THEN saves[k + 1] ELSE saves[i]
        BY <2>2, Moved
      <3> DEFINE old(k) == IF k < i THEN k ELSE IF k < Len(saves) THEN k + 1 ELSE i
      <3>6. \A k \in 1..Len(saves) : saves'[k] = saves[old(k)] /\ old(k) \in 1..Len(saves)
        BY <1>1, <3>1
      <3>7. \A j, k \in 1..Len(saves) : old(j) = old(k) => j = k
        BY <1>1
      <3> HIDE DEF old
      <3>2. Distinct'
        <4> SUFFICES ASSUME NEW j \in 1..Len(saves'), NEW k \in 1..Len(saves'),
                            saves'[j] = saves'[k]
                     PROVE  j = k
          BY DEF Distinct
        <4>1. j \in 1..Len(saves) /\ k \in 1..Len(saves)
          BY <3>1
        <4>2. saves[old(j)] = saves[old(k)]
          BY <3>6, <4>1
        <4>3. old(j) = old(k)
          BY <3>6, <4>1, <4>2 DEF Distinct
        <4> QED BY <3>7, <4>1, <4>3
      <3>3. Pending' \subseteq Pending
        BY <1>1, <3>1 DEF Pending
      <3>4. ASSUME NEW k \in 1..Len(saves) PROVE saves[k] \in Pending'
        <4>1. CASE k < i
          BY <1>1, <3>1, <4>1 DEF Pending
        <4>2. CASE k = i
          <5>1. saves'[Len(saves)] = saves[k] /\ Len(saves) \in 1..Len(saves')
            BY <1>1, <3>1, <4>2
          <5> QED BY <5>1 DEF Pending
        <4>3. CASE k > i
          <5>1. saves'[k - 1] = saves[k] /\ k - 1 \in 1..Len(saves')
            BY <1>1, <3>1, <4>3
          <5> QED BY <5>1 DEF Pending
        <4> QED BY <1>1, <4>1, <4>2, <4>3
      <3>5. c \in Pending
        BY <2>2 DEF Pending
      <3>8. Pending \subseteq Pending'
        BY <3>4 DEF Pending
      <3>9. Len(saves') >= 1
        BY <1>1, <3>1
      <3> QED BY <3>1, <3>2, <3>3, <3>5, <3>8, <3>9
    <2> QED BY <2>1, <2>2 DEF DelaySave
  <1>3. ASSUME Pending \subseteq {c} PROVE Len(saves') = 1
    <2>1. Len(saves') \in Nat /\ \A k \in 1..Len(saves') : saves'[k] = c
      BY <1>2, <1>3, LenProperties DEF Pending
    <2>2. PICK n \in Nat : n = Len(saves')
      BY <2>1
    <2>3. n >= 1 /\ \A i, j \in 1..n : i = j
      BY <1>2, <2>1, <2>2 DEF Distinct
    <2>4. CASE n >= 2
      <3>1. 1 \in 1..n /\ 2 \in 1..n
        BY <2>4
      <3> QED BY <2>3, <3>1
    <2>5. CASE ~(n >= 2)
      BY <2>2, <2>3, <2>5
    <2> QED BY <2>4, <2>5
  <1> QED BY <1>2, <1>3

\* One save is written.
LEMMA Saved ==
    ASSUME saves \in Seq(Counters), Distinct, saves # <<>>, saves' = Tail(saves)
    PROVE  /\ saves' \in Seq(Counters) /\ Distinct' /\ Pending' \subseteq Pending
           /\ Head(saves) \in Pending /\ Head(saves) \in Counters
           /\ Len(saves) <= 1 => saves' = <<>>
  <1>1. /\ saves' \in Seq(Counters) /\ Len(saves') = Len(saves) - 1 /\ Len(saves) \in Nat
        /\ Len(saves) >= 1 /\ \A k \in 1..Len(saves') : saves'[k] = saves[k + 1]
        /\ Head(saves) = saves[1] /\ Head(saves) \in Counters
    BY HeadTailProperties, LenProperties, EmptySeq
  <1>2. Distinct'
    BY <1>1 DEF Distinct
  <1>3. Pending' \subseteq Pending /\ Head(saves) \in Pending
    BY <1>1 DEF Pending
  <1>4. Len(saves) <= 1 => saves' = <<>>
    BY <1>1, EmptySeq
  <1> QED BY <1>1, <1>2, <1>3, <1>4

\* As many as there are counters to save.
LEMMA CountPending ==
    ASSUME saves \in Seq(Counters), Distinct
    PROVE  Len(saves) = Cardinality(Pending)
  <1>1. Len(saves) \in Nat /\ \A k \in 1..Len(saves) : saves[k] \in Pending
    BY LenProperties DEF Pending
  <1>2. saves \in [1..Len(saves) -> Pending]
    BY <1>1, LenProperties
  <1>3. saves \in Bijection(1..Len(saves), Pending)
    BY <1>2 DEF Bijection, Injection, Surjection, Distinct, Pending, IsInjective
  <1>4. IsFiniteSet(1..Len(saves)) /\ Cardinality(1..Len(saves)) = Len(saves)
    <2>1. 1 \in Int /\ Len(saves) \in Int
      BY <1>1
    <2>2. /\ IsFiniteSet(1..Len(saves))
          /\ Cardinality(1..Len(saves)) = IF 1 > Len(saves) THEN 0 ELSE Len(saves) - 1 + 1
      BY <2>1, FS_Interval
    <2> QED BY <1>1, <2>2
  <1>5. Cardinality(Pending) = Cardinality(1..Len(saves))
    BY <1>3, <1>4, FS_Bijection DEF ExistsBijection
  <1> QED BY <1>4, <1>5

-----------------------------------------------------------------------------
(* Calls *)

\* The days of this month are retained.
LEMMA MonthIsRetained ==
    ASSUME today \in Date, NEW d \in ThisMonth
    PROVE  d \in Date /\ d <= today /\ ~(d + Retention < today)
  <1>1. /\ d \in Nat /\ today \in Nat /\ MonthLength \in Nat /\ MonthLength > 0
        /\ d <= today /\ d \div MonthLength = today \div MonthLength
    BY MonthAssumption, CounterBoundAssumption DEF ThisMonth, Date
  <1>2. PICK q \in Nat : q = d \div MonthLength
    BY <1>1
  <1>3. \A n \in Nat : n \div MonthLength = q =>
            MonthLength * q <= n /\ n < MonthLength * q + MonthLength
    BY <1>1, <1>2
  <1>4. PICK m \in Nat : m = MonthLength * q
    BY <1>1
  <1>5. m <= d /\ today < m + MonthLength
    BY <1>1, <1>2, <1>3, <1>4
  <1> QED BY <1>1, <1>5, RetentionAssumption DEF ThisMonth

\* What a call makes of a tally.
LEMMA Pruned ==
    ASSUME today \in Date, NEW days \in Tally, NothingAhead(days), NEW next,
           next = Prune([days EXCEPT ![today] = @ + 1])
    PROVE  /\ next \in Tally /\ NothingAhead(next) /\ Window(next)
           /\ \A d \in ThisMonth : next[d] = IF d = today THEN days[d] + 1 ELSE days[d]
  <1> DEFINE added == [days EXCEPT ![today] = @ + 1]
  <1>1. /\ added \in [Date -> Nat]
        /\ \A d \in Date : added[d] = IF d = today THEN days[d] + 1 ELSE days[d]
    BY DEF Tally
  <1> HIDE DEF added
  <1>2. PICK more \in [Date -> Nat] :
            /\ more = added
            /\ \A d \in Date : more[d] = IF d = today THEN days[d] + 1 ELSE days[d]
    BY <1>1
  <1>3. next = [d \in Date |-> IF d + Retention < today THEN 0 ELSE more[d]]
    BY <1>2 DEF Prune, added
  <1>4. \A d \in Date : d \in Nat /\ today \in Nat /\ Retention \in Nat
    BY RetentionAssumption, CounterBoundAssumption DEF Date
  <1>5. ASSUME NEW d \in Date
        PROVE  /\ next[d] \in Nat
               /\ d + Retention < today => next[d] = 0
               /\ ~(d + Retention < today) => next[d] = more[d]
    <2>1. more[d] \in Nat
      BY <1>2
    <2>2. next[d] = IF d + Retention < today THEN 0 ELSE more[d]
      BY <1>3, Zenon
    <2>3. CASE d + Retention < today
      <3>1. next[d] = 0
        BY <2>2, <2>3, Zenon
      <3> QED BY <2>3, <3>1
    <2>4. CASE ~(d + Retention < today)
      <3>1. next[d] = more[d]
        BY <2>2, <2>4, Zenon
      <3> QED BY <2>1, <2>4, <3>1
    <2> QED BY <2>3, <2>4
  <1>6. next \in Tally
    BY <1>3, <1>5 DEF Tally
  <1>7. ASSUME NEW d \in Date, d > today PROVE next[d] = 0
    <2>1. days[d] = 0 /\ d # today
      BY <1>4, <1>7 DEF NothingAhead
    <2>2. more[d] = 0
      BY <1>2, <2>1
    <2> QED BY <1>5, <2>2
  <1>8. ASSUME NEW d \in Date, next[d] > 0 PROVE d <= today /\ today <= d + Retention
    <2>1. next[d] # 0
      BY <1>5, <1>8
    <2>2. d <= today
      <3>1. ~(d > today)
        BY <1>7, <2>1
      <3> QED BY <1>4, <3>1
    <2>3. ~(d + Retention < today)
      BY <1>5, <2>1
    <2> QED BY <1>4, <2>2, <2>3
  <1>9. \A d \in ThisMonth : next[d] = IF d = today THEN days[d] + 1 ELSE days[d]
    BY <1>2, <1>5, MonthIsRetained
  <1> QED BY <1>6, <1>7, <1>8, <1>9 DEF NothingAhead, Window

\* What a call through counter c, which holds days, does.
LEMMA RecordIs ==
    ASSUME CounterTyped, DaysInv, NEW c \in Counters, NEW days \in Tally,
           NothingAhead(days), Record(c, days), today' = today
    PROVE  /\ counter' \in [Counters -> Tally] /\ sent' \in Tally /\ callsMade' \in Nat
           /\ saves' \in Seq(Counters) /\ Distinct' /\ Len(saves') >= 1
           /\ Pending' = Pending \cup {c}
           /\ Pending \subseteq {c} => Len(saves') = 1
           /\ \A k \in Counters \ {c} : counter'[k] = counter[k]
           /\ \A k \in Counters : NothingAhead(counter[k])' /\ Window(counter[k])'
           /\ NothingAhead(sent)'
           /\ HasMonth(days) => HasMonth(counter[c])'
  <1>1. /\ counter \in [Counters -> Tally] /\ today \in Date /\ sent \in Tally
        /\ saves \in Seq(Counters) /\ Distinct /\ callsMade \in Nat
    BY DEF CounterTyped
  <1>2. PICK next : next = Prune([days EXCEPT ![today] = @ + 1])
    OBVIOUS
  <1>3. /\ next \in Tally /\ NothingAhead(next) /\ Window(next)
        /\ \A d \in ThisMonth : next[d] = IF d = today THEN days[d] + 1 ELSE days[d]
    BY <1>1, <1>2, Pruned
  <1>4. counter' = [counter EXCEPT ![c] = next] /\ sent' = [sent EXCEPT ![today] = @ + 1]
        /\ callsMade' = callsMade + 1 /\ DelaySave(c, days)
    BY <1>2 DEF Record
  <1>5. /\ counter' \in [Counters -> Tally] /\ counter'[c] = next
        /\ \A k \in Counters \ {c} : counter'[k] = counter[k]
    BY <1>1, <1>3, <1>4
  <1>6. /\ sent' \in Tally
        /\ \A d \in Date : sent'[d] = IF d = today THEN sent[d] + 1 ELSE sent[d]
    BY <1>1, <1>4 DEF Tally
  <1>7. \A k \in Counters : NothingAhead(counter'[k]) /\ Window(counter'[k])
    BY <1>3, <1>5 DEF DaysInv
  <1>8. NothingAhead(sent')
    <2>1. \A d \in Date : d \in Nat /\ today \in Nat
      BY <1>1, CounterBoundAssumption DEF Date
    <2> QED BY <1>6, <2>1 DEF DaysInv, NothingAhead
  <1>9. \A k \in Counters : NothingAhead(counter[k])' /\ Window(counter[k])'
    BY <1>7 DEF NothingAhead, Window
  <1>10. NothingAhead(sent)'
    BY <1>8 DEF NothingAhead
  <1>11. ASSUME HasMonth(days) PROVE HasMonth(counter[c])'
    <2>1. ThisMonth' = ThisMonth
      BY DEF ThisMonth
    <2>2. \A d \in ThisMonth : next[d] = sent'[d]
      BY <1>3, <1>6, <1>11 DEF HasMonth, ThisMonth
    <2> QED BY <1>5, <2>1, <2>2 DEF HasMonth
  <1>12. callsMade' \in Nat
    BY <1>1, <1>4
  <1> QED BY <1>1, <1>4, <1>5, <1>6, <1>9, <1>10, <1>11, <1>12, DelaySaveIs

\* Such a call keeps what is typed, and what is known of the days.
LEMMA CallKeeps ==
    ASSUME CounterTyped, DaysInv, NEW c \in Counters, NEW days \in Tally,
           NothingAhead(days), Record(c, days), UNCHANGED <<file, today, restarts>>,
           entry' \in [Entries -> Entry],
           \A e \in Entries : entry'[e].stage # "unloaded" => entry'[e].counter # None,
           shared' \in Counters \cup {None}, raced' \in BOOLEAN, lost' \in BOOLEAN
    PROVE  CounterTyped' /\ DaysInv'
  <1>1. /\ counter' \in [Counters -> Tally] /\ sent' \in Tally /\ callsMade' \in Nat
        /\ saves' \in Seq(Counters) /\ Distinct'
        /\ \A k \in Counters : NothingAhead(counter[k])' /\ Window(counter[k])'
        /\ NothingAhead(sent)'
    BY RecordIs
  <1>2. CounterTyped'
    BY <1>1 DEF CounterTyped
  <1>3. NothingAhead(file)' /\ Window(file)'
    BY DEF DaysInv, NothingAhead, Window
  <1>4. DaysInv'
    BY <1>1, <1>3 DEF DaysInv
  <1> QED BY <1>2, <1>4

\* A call through the shared counter: its tally and its save are the only ones.
LEMMA SharedCallKeeps ==
    ASSUME CounterTyped, DaysInv, NEW c \in Counters, NEW days \in Tally,
           NothingAhead(days), Record(c, days), UNCHANGED <<file, today>>,
           HasMonth(days), Pending \subseteq {c}, shared' = c
    PROVE  MonthInv'
  <1>1. /\ saves' \in Seq(Counters) /\ Len(saves') = 1
        /\ Pending' = {c} /\ HasMonth(counter[c])'
    BY RecordIs
  <1>2. saves' # <<>>
    BY <1>1, EmptySeq
  <1>3. HasMonth(counter[shared])'
    BY <1>1 DEF HasMonth
  <1>4. \A k \in Pending' : HasMonth(counter[k])' /\ (shared' # None => k = shared')
    BY <1>1
  <1> QED BY <1>1, <1>2, <1>3, <1>4 DEF MonthInv

-----------------------------------------------------------------------------
(* Steps *)

\* What a step leaves alone that makes no call.
LEMMA SameDays ==
    ASSUME DaysInv, UNCHANGED <<counter, file, today, sent>>
    PROVE  DaysInv'
  BY DEF DaysInv, NothingAhead, Window

\* What is known of the month says nothing of the entries.
LEMMA SameMonth ==
    ASSUME MonthInv, UNCHANGED <<counter, saves, file, today, sent>>,
           shared' \in {shared, None}
    PROVE  MonthInv'
  <1>1. ThisMonth' = ThisMonth /\ Pending' = Pending
    BY DEF ThisMonth, Pending
  <1>2. HasMonth(file) = HasMonth(file)'
    BY <1>1 DEF HasMonth
  <1>3. \A c : HasMonth(counter[c]) = HasMonth(counter[c])'
    BY <1>1 DEF HasMonth
  <1>4. shared' # None => HasMonth(counter[shared])'
    <2>1. ASSUME shared' # None PROVE HasMonth(counter[shared])'
      <3>1. shared' = shared /\ HasMonth(counter[shared])
        BY <2>1 DEF MonthInv
      <3> QED BY <1>1, <3>1 DEF HasMonth
    <2> QED BY <2>1
  <1> QED BY <1>1, <1>2, <1>3, <1>4 DEF MonthInv

\* One lemma per action: each keeps the invariant.  A set-up takes the shared
\* counter or begins to load a new one.
LEMMA SetupKeeps ==
    ASSUME CounterInv, NEW e \in Entries, Setup(e)
    PROVE  CounterInv'
  <1>1. /\ CounterTyped /\ DaysInv /\ entry \in [Entries -> Entry]
        /\ \A f \in Entries : entry[f].stage # "unloaded" => entry[f].counter # None
        /\ raced \in BOOLEAN /\ lost \in BOOLEAN
        /\ shared \in Counters \cup {None} /\ None \notin Counters
    BY NoneAssumption DEF CounterInv, CounterTyped
  <1>2. CASE shared # None /\ Connect(e, shared, counter[shared])
    <2>1. /\ shared \in Counters /\ counter[shared] \in Tally /\ NothingAhead(counter[shared])
          /\ Record(shared, counter[shared])
          /\ UNCHANGED <<shared, file, today, lost, raced, restarts>>
          /\ entry' = [entry EXCEPT ![e] = [stage |-> "locks", counter |-> shared,
                                            data |-> "api"]]
      BY <1>1, <1>2 DEF Setup, Connect, CounterTyped, DaysInv
    <2>2. PICK n \in Entry : n = [stage |-> "locks", counter |-> shared, data |-> "api"]
      BY <2>1 DEF Entry
    <2>3. entry' = [entry EXCEPT ![e] = n] /\ n.stage = "locks" /\ n.counter = shared
          /\ n.data = "api"
      BY <2>1, <2>2
    <2>4. /\ entry' \in [Entries -> Entry] /\ entry'[e] = n
          /\ \A f \in Entries \ {e} : entry'[f] = entry[f]
      BY <1>1, <2>2, <2>3
    <2>5. CounterTyped' /\ DaysInv'
      BY <1>1, <2>1, <2>3, <2>4, CallKeeps
    <2>6. ~raced' => SharedInv'
      BY <1>1, <1>2, <2>1, <2>3, <2>4 DEF CounterInv, SharedInv, Connected
    <2>7. ASSUME ~raced', ~lost' PROVE MonthInv'
      <3>1. MonthInv
        BY <2>1, <2>7 DEF CounterInv
      <3>2. HasMonth(counter[shared]) /\ Pending \subseteq {shared}
        BY <1>2, <3>1 DEF MonthInv
      <3> QED BY <1>1, <2>1, <3>2, SharedCallKeeps
    <2> QED BY <2>5, <2>6, <2>7 DEF CounterInv
  <1>3. CASE shared = None
    <2>1. PICK c \in Free :
            entry' = [entry EXCEPT ![e].stage = "loading", ![e].counter = c]
      BY <1>3 DEF Setup
    <2>2. /\ UNCHANGED <<counter, saves, sent, callsMade, restarts, shared, file, today, lost>>
          /\ raced' = (raced \/ \E f \in Entries : entry[f].stage = "loading")
          /\ entry[e].stage \in {"unloaded", "failed"}
      BY <1>3 DEF Setup, boundVars
    <2>3. c \in Counters /\ c # None
      BY <1>1, <2>1 DEF Free
    <2>4. PICK n \in Entry : n = [entry[e] EXCEPT !.stage = "loading", !.counter = c]
      BY <1>1, <2>3 DEF Entry
    <2>5. n.stage = "loading" /\ n.counter = c /\ n.data = entry[e].data
      BY <1>1, <2>4 DEF Entry
    <2>6. /\ entry' \in [Entries -> Entry] /\ entry'[e] = n
          /\ \A f \in Entries \ {e} : entry'[f] = entry[f]
      BY <1>1, <2>1, <2>4
    <2>7. CounterTyped'
      BY <1>1, <2>2, <2>3, <2>5, <2>6 DEF CounterTyped, Distinct
    <2>8. DaysInv'
      BY <1>1, <2>2, SameDays
    <2>9. ASSUME ~raced' PROVE SharedInv'
      <3>1. SharedInv /\ \A f \in Entries : entry[f].stage # "loading"
        BY <2>2, <2>9 DEF CounterInv
      <3>2. \A f \in Entries : entry[f].stage \notin Connected
        BY <1>1, <1>3, <3>1 DEF SharedInv, Connected
      <3>3. \A f \in Entries : entry[f].data = "none"
        BY <3>1, <3>2 DEF SharedInv
      <3>4. n.data = "none"
        BY <2>5, <3>3
      <3> QED BY <1>3, <2>2, <2>5, <2>6, <3>1, <3>2, <3>3, <3>4 DEF SharedInv, Connected
    <2>10. ASSUME ~raced', ~lost' PROVE MonthInv'
      <3>1. MonthInv
        BY <2>2, <2>10 DEF CounterInv
      <3> QED BY <1>3, <2>2, <3>1, SameMonth
    <2> QED BY <2>7, <2>8, <2>9, <2>10 DEF CounterInv
  <1> QED BY <1>2, <1>3 DEF Setup

\* A counter that has loaded is shared and has what is in the file: the whole month,
\* unless a tally that is not saved yet is lost by that.
LEMMA CounterLoadedKeeps ==
    ASSUME CounterInv, NEW e \in Entries, CounterLoaded(e)
    PROVE  CounterInv'
  <1>1. /\ CounterTyped /\ DaysInv /\ entry \in [Entries -> Entry]
        /\ \A f \in Entries : entry[f].stage # "unloaded" => entry[f].counter # None
        /\ raced \in BOOLEAN /\ lost \in BOOLEAN /\ file \in Tally
        /\ saves \in Seq(Counters)
    BY DEF CounterInv, CounterTyped
  <1>2. PICK c : c = entry[e].counter
    OBVIOUS
  <1>3. /\ entry[e].stage = "loading" /\ shared' = c /\ Connect(e, c, file)
        /\ lost' = (lost \/ saves # <<>>) /\ UNCHANGED <<file, today, raced, restarts>>
    BY <1>2 DEF CounterLoaded
  <1>4. c \in Counters /\ c # None
    BY <1>1, <1>2, <1>3, NoneAssumption DEF Entry
  <1>5. /\ Record(c, file) /\ NothingAhead(file)
        /\ entry' = [entry EXCEPT ![e] = [stage |-> "locks", counter |-> c, data |-> "api"]]
    BY <1>1, <1>3 DEF Connect, DaysInv
  <1>6. PICK n \in Entry : n = [stage |-> "locks", counter |-> c, data |-> "api"]
    BY <1>4 DEF Entry
  <1>7. entry' = [entry EXCEPT ![e] = n] /\ n.stage = "locks" /\ n.counter = c
        /\ n.data = "api"
    BY <1>5, <1>6
  <1>8. /\ entry' \in [Entries -> Entry] /\ entry'[e] = n
        /\ \A f \in Entries \ {e} : entry'[f] = entry[f]
    BY <1>1, <1>6, <1>7
  <1>9. CounterTyped' /\ DaysInv'
    BY <1>1, <1>3, <1>4, <1>5, <1>7, <1>8, CallKeeps
  <1>10. ASSUME ~raced' PROVE SharedInv'
    <2>1. SharedInv /\ shared = None
      BY <1>3, <1>10 DEF CounterInv, SharedInv
    <2>2. \A f \in Entries \ {e} :
              entry[f].stage # "loading" /\ entry[f].stage \notin Connected
      BY <1>1, <1>3, <2>1 DEF SharedInv, Connected
    <2> QED BY <1>3, <1>4, <1>7, <1>8, <2>1, <2>2 DEF SharedInv, Connected
  <1>11. ASSUME ~raced', ~lost' PROVE MonthInv'
    <2>1. MonthInv /\ saves = <<>>
      BY <1>3, <1>11 DEF CounterInv
    <2>2. HasMonth(file)
      BY <2>1 DEF MonthInv
    <2>3. Pending = {}
      BY <2>1, EmptySeq DEF Pending
    <2> QED BY <1>1, <1>3, <1>4, <1>5, <2>2, <2>3, SharedCallKeeps
  <1> QED BY <1>9, <1>10, <1>11 DEF CounterInv

\* A call through an entry's counter, in or after its set-up.
LEMMA EntryCallKeeps ==
    ASSUME CounterInv, NEW e \in Entries, NEW c, c = entry[e].counter,
           entry[e].stage \in Connected, Record(c, counter[c]),
           UNCHANGED <<shared, file, today, restarts, raced, lost>>,
           NEW n \in Entry, n.stage \in Connected, n.counter = c,
           n.data = "none" => entry[e].data = "none",
           entry' = [entry EXCEPT ![e] = n]
    PROVE  CounterInv'
  <1>1. /\ CounterTyped /\ DaysInv /\ entry \in [Entries -> Entry]
        /\ \A f \in Entries : entry[f].stage # "unloaded" => entry[f].counter # None
        /\ raced \in BOOLEAN /\ lost \in BOOLEAN
        /\ shared \in Counters \cup {None} /\ counter \in [Counters -> Tally]
    BY DEF CounterInv, CounterTyped
  <1>2. c \in Counters /\ c # None
    BY <1>1, NoneAssumption DEF Entry, Connected
  <1>3. counter[c] \in Tally /\ NothingAhead(counter[c])
    BY <1>1, <1>2 DEF DaysInv
  <1>4. /\ entry' \in [Entries -> Entry] /\ entry'[e] = n
        /\ \A f \in Entries \ {e} : entry'[f] = entry[f]
    BY <1>1
  <1>5. CounterTyped' /\ DaysInv'
    BY <1>1, <1>2, <1>3, <1>4, CallKeeps
  <1>6. ~raced' => SharedInv'
    <2> SUFFICES ASSUME ~raced' PROVE SharedInv'
      OBVIOUS
    <2>1. SharedInv
      BY DEF CounterInv
    <2>2. entry[e].data # "none" /\ c = shared /\ shared' = shared
      BY <2>1 DEF SharedInv
    <2> QED BY <1>4, <2>1, <2>2 DEF SharedInv, Connected
  <1>7. ASSUME ~raced', ~lost' PROVE MonthInv'
    <2>1. MonthInv /\ SharedInv
      BY <1>7 DEF CounterInv
    <2>2. shared = c
      BY <2>1 DEF SharedInv
    <2>3. HasMonth(counter[c]) /\ Pending \subseteq {c}
      BY <1>2, <2>1, <2>2 DEF MonthInv
    <2> QED BY <1>1, <1>2, <1>3, <2>2, <2>3, SharedCallKeeps
  <1> QED BY <1>5, <1>6, <1>7 DEF CounterInv

\* Calls are tallied in the shared counter: the second one of a set-up ...
LEMMA LocksListedKeeps ==
    ASSUME CounterInv, NEW e \in Entries, LocksListed(e)
    PROVE  CounterInv'
  <1>1. entry \in [Entries -> Entry]
    BY DEF CounterInv, CounterTyped
  <1>2. PICK c : c = entry[e].counter
    OBVIOUS
  <1>3. PICK n \in Entry : n = [entry[e] EXCEPT !.stage = "gateways", !.data = "locks"]
    BY <1>1 DEF Entry
  <1>4. n.stage = "gateways" /\ n.data = "locks" /\ n.counter = c
    BY <1>1, <1>2, <1>3 DEF Entry
  <1>5. /\ entry[e].stage = "locks" /\ entry' = [entry EXCEPT ![e] = n]
        /\ Record(c, counter[c])
        /\ UNCHANGED <<shared, file, today, restarts, raced, lost>>
    BY <1>1, <1>2, <1>3 DEF LocksListed
  <1>6. entry[e].stage \in Connected /\ n.stage \in Connected /\ n.data # "none"
    BY <1>4, <1>5 DEF Connected
  <1> QED BY <1>2, <1>4, <1>5, <1>6, EntryCallKeeps

\* ... and those of an entry that is loaded.
LEMMA CallsKeep ==
    ASSUME CounterInv, NEW e \in Entries, CallCloud(e)
    PROVE  CounterInv'
  <1>1. entry \in [Entries -> Entry]
    BY DEF CounterInv, CounterTyped
  <1>2. PICK c : c = entry[e].counter
    OBVIOUS
  <1>3. PICK n \in Entry : n = entry[e]
    BY <1>1
  <1>4. /\ entry[e].stage = "loaded" /\ Record(c, counter[c])
        /\ UNCHANGED <<entry, shared, file, today, restarts, raced, lost>>
    BY <1>2 DEF CallCloud
  <1>5. n.stage = "loaded" /\ n.counter = c /\ n.data = entry[e].data
    BY <1>2, <1>3, <1>4
  <1>6. entry' = [entry EXCEPT ![e] = n]
    BY <1>1, <1>3, <1>4
  <1>7. entry[e].stage \in Connected /\ n.stage \in Connected
    BY <1>4, <1>5 DEF Connected
  <1> QED BY <1>2, <1>4, <1>5, <1>6, <1>7, EntryCallKeeps

\* A step of one entry, e, that makes no call.
LEMMA QuietKeeps ==
    ASSUME CounterInv, NEW e \in Entries, NEW n \in Entry,
           entry' = [entry EXCEPT ![e] = n],
           n.stage # "unloaded" => n.counter # None,
           ~raced => SharedInv',
           shared' \in {shared, None},
           UNCHANGED <<counter, saves, file, today, boundVars, historyVars>>
    PROVE  CounterInv'
  <1>1. CounterTyped /\ DaysInv /\ entry \in [Entries -> Entry]
    BY DEF CounterInv, CounterTyped
  <1>2. /\ entry' \in [Entries -> Entry] /\ entry'[e] = n
        /\ \A f \in Entries \ {e} : entry'[f] = entry[f]
    BY <1>1
  <1>3. UNCHANGED <<counter, saves, file, today, callsMade, restarts, sent, raced, lost>>
    BY DEF boundVars, historyVars
  <1>4. CounterTyped'
    BY <1>1, <1>2, <1>3 DEF CounterTyped, Distinct
  <1>5. DaysInv'
    BY <1>1, <1>3, SameDays
  <1>6. ~raced' /\ ~lost' => MonthInv'
    BY <1>3, SameMonth DEF CounterInv
  <1> QED BY <1>3, <1>4, <1>5, <1>6 DEF CounterInv

\* A connected entry stays so.
LEMMA StageKeeps ==
    ASSUME CounterInv, NEW e \in Entries, NEW n \in Entry,
           entry[e].stage \in Connected, n.stage \in Connected,
           n.counter = entry[e].counter, n.data = entry[e].data \/ n.data = "all",
           entry' = [entry EXCEPT ![e] = n],
           UNCHANGED <<shared, counter, saves, file, today, boundVars, historyVars>>
    PROVE  CounterInv'
  <1>1. /\ entry \in [Entries -> Entry]
        /\ \A f \in Entries : entry[f].stage # "unloaded" => entry[f].counter # None
    BY DEF CounterInv, CounterTyped
  <1>2. n.counter # None
    BY <1>1 DEF Connected
  <1>3. /\ entry'[e] = n /\ \A f \in Entries \ {e} : entry'[f] = entry[f]
    BY <1>1
  <1>4. ASSUME ~raced PROVE SharedInv'
    <2>1. SharedInv
      BY <1>4 DEF CounterInv
    <2>2. n.data # "none" /\ n.counter = shared /\ n.stage # "loading"
      BY <2>1 DEF SharedInv, Connected
    <2> QED BY <1>3, <2>1, <2>2 DEF SharedInv, Connected
  <1> QED BY <1>2, <1>4, QuietKeeps

\* The end of a set-up tallies nothing, ...
LEMMA GatewaysListedKeeps ==
    ASSUME CounterInv, NEW e \in Entries, GatewaysListed(e)
    PROVE  CounterInv'
  <1>1. entry \in [Entries -> Entry]
    BY DEF CounterInv, CounterTyped
  <1>2. PICK n \in Entry : n = [entry[e] EXCEPT !.stage = "loaded", !.data = "all"]
    BY <1>1 DEF Entry
  <1>3. n.stage = "loaded" /\ n.data = "all" /\ n.counter = entry[e].counter
    BY <1>1, <1>2 DEF Entry
  <1>4. /\ entry[e].stage = "gateways" /\ entry' = [entry EXCEPT ![e] = n]
        /\ UNCHANGED <<shared, counter, saves, file, today, boundVars, historyVars>>
    BY <1>1, <1>2 DEF GatewaysListed
  <1> QED BY <1>3, <1>4, StageKeeps DEF Connected

\* ... nor does its failure, after which the entry still holds the counter.
LEMMA SetupFailsKeeps ==
    ASSUME CounterInv, NEW e \in Entries, SetupFails(e)
    PROVE  CounterInv'
  <1>1. entry \in [Entries -> Entry]
    BY DEF CounterInv, CounterTyped
  <1>2. PICK n \in Entry : n = [entry[e] EXCEPT !.stage = "failed"]
    BY <1>1 DEF Entry
  <1>3. n.stage = "failed" /\ n.data = entry[e].data /\ n.counter = entry[e].counter
    BY <1>1, <1>2 DEF Entry
  <1>4. /\ entry[e].stage \in {"locks", "gateways"} /\ entry' = [entry EXCEPT ![e] = n]
        /\ UNCHANGED <<shared, counter, saves, file, today, boundVars, historyVars>>
    BY <1>1, <1>2 DEF SetupFails
  <1> QED BY <1>3, <1>4, StageKeeps DEF Connected

\* The last entry takes the shared counter with it; what that has not saved waits.
LEMMA UnloadKeeps ==
    ASSUME CounterInv, NEW e \in Entries, Unload(e)
    PROVE  CounterInv'
  <1>1. entry \in [Entries -> Entry]
    BY DEF CounterInv, CounterTyped
  <1>2. PICK n \in Entry : n = NewEntry
    BY DEF NewEntry, Entry
  <1>3. n.stage = "unloaded" /\ n.data = "none"
    BY <1>2 DEF NewEntry
  <1>4. /\ entry[e].stage = "loaded" /\ entry' = [entry EXCEPT ![e] = n]
        /\ DropWithLast(e)
        /\ UNCHANGED <<counter, saves, file, today, boundVars, historyVars>>
    BY <1>2 DEF Unload
  <1>5. /\ entry'[e] = n /\ \A f \in Entries \ {e} : entry'[f] = entry[f]
    BY <1>1, <1>4
  <1>6. \/ shared' = shared
        \/ shared' = None /\ \A f \in Entries \ {e} : entry[f].data = "none"
    BY <1>4 DEF DropWithLast
  <1>7. ASSUME ~raced PROVE SharedInv'
    <2>1. SharedInv
      BY <1>7 DEF CounterInv
    <2> QED BY <1>3, <1>5, <1>6, <2>1 DEF SharedInv, Connected
  <1> QED BY <1>3, <1>4, <1>6, <1>7, QuietKeeps

\* A save that falls due writes what its counter holds by then.
LEMMA SaveKeeps ==
    ASSUME CounterInv, SaveIsDue
    PROVE  CounterInv'
  <1>1. CounterTyped /\ DaysInv /\ saves \in Seq(Counters) /\ Distinct
    BY DEF CounterInv, CounterTyped
  <1>2. PICK c : c = Head(saves)
    OBVIOUS
  <1>3. /\ saves # <<>> /\ saves' = Tail(saves) /\ file' = counter[c]
        /\ UNCHANGED <<entry, shared, counter, today, callsMade, restarts, sent, raced, lost>>
    BY <1>2 DEF SaveIsDue, boundVars, historyVars
  <1>4. /\ saves' \in Seq(Counters) /\ Distinct' /\ Pending' \subseteq Pending
        /\ c \in Pending /\ c \in Counters /\ (Len(saves) <= 1 => saves' = <<>>)
    BY <1>1, <1>2, <1>3, Saved
  <1>5. CounterTyped'
    BY <1>1, <1>3, <1>4 DEF CounterTyped
  <1>6. DaysInv'
    BY <1>1, <1>3, <1>4 DEF DaysInv, NothingAhead, Window
  <1>7. ~raced' => SharedInv'
    BY <1>3 DEF CounterInv, SharedInv
  <1>8. ASSUME ~raced', ~lost' PROVE MonthInv'
    <2>1. MonthInv
      BY <1>3, <1>8 DEF CounterInv
    <2>2. saves' = <<>> /\ HasMonth(counter[c])
      BY <1>4, <2>1 DEF MonthInv
    <2>3. Pending' = {} /\ Len(saves') = 0
      BY <2>2, EmptySeq DEF Pending
    <2>4. ThisMonth' = ThisMonth
      BY <1>3 DEF ThisMonth
    <2>5. HasMonth(file)'
      BY <1>3, <2>2, <2>4 DEF HasMonth
    <2>6. shared' # None => HasMonth(counter[shared])'
      BY <1>3, <2>1, <2>4 DEF MonthInv, HasMonth
    <2> QED BY <2>3, <2>5, <2>6 DEF MonthInv
  <1> QED BY <1>5, <1>6, <1>7, <1>8 DEF CounterInv


\* Of the next day's month there is nothing but days of today's month and that day.
LEMMA NextMonth ==
    ASSUME today \in Date, today' = today + 1, NEW d \in ThisMonth'
    PROVE  d \in Date /\ (d \in ThisMonth \/ d = today + 1)
  <1>1. /\ d \in Date /\ d \in Nat /\ today \in Nat /\ MonthLength \in Nat /\ MonthLength > 0
        /\ d <= today + 1 /\ d \div MonthLength = (today + 1) \div MonthLength
    BY MonthAssumption, CounterBoundAssumption DEF ThisMonth, Date
  <1>2. PICK p \in Nat : p = today \div MonthLength
    BY <1>1
  <1>3. PICK q \in Nat : q = d \div MonthLength /\ q = (today + 1) \div MonthLength
    BY <1>1
  <1>4. \A n, k \in Nat : n \div MonthLength = k =>
            MonthLength * k <= n /\ n < MonthLength * k + MonthLength
    BY <1>1
  <1>5. CASE d <= today
    <2>1. MonthLength * q <= d /\ today + 1 < MonthLength * q + MonthLength
      BY <1>1, <1>3, <1>4
    <2>2. MonthLength * p <= today /\ today < MonthLength * p + MonthLength
      BY <1>1, <1>2, <1>4
    <2>3. MonthLength * p < MonthLength * (q + 1) /\ MonthLength * q < MonthLength * (p + 1)
      BY <1>1, <1>5, <2>1, <2>2
    <2>4. p < q + 1 /\ q < p + 1
      BY <1>1, <2>3
    <2> QED BY <1>1, <1>2, <1>3, <1>5, <2>4 DEF ThisMonth
  <1>6. CASE ~(d <= today)
    BY <1>1, <1>6
  <1> QED BY <1>1, <1>5, <1>6

\* Nothing is tallied for a new day, and it is in the month or begins one.
LEMMA NextDayKeeps ==
    ASSUME CounterInv, NextDay
    PROVE  CounterInv'
  <1>1. CounterTyped /\ DaysInv /\ today \in Date
    BY DEF CounterInv, CounterTyped
  <1>2. /\ today' = today + 1 /\ today < MaxDay
        /\ UNCHANGED <<entry, shared, counter, saves, file, callsMade, restarts, sent, raced, lost>>
    BY DEF NextDay, boundVars, historyVars
  <1>3. \A d \in Date : d \in Nat /\ today \in Nat
    BY <1>1, CounterBoundAssumption DEF Date
  <1>4. today' \in Date
    BY <1>1, <1>2, CounterBoundAssumption DEF Date
  <1>5. CounterTyped'
    BY <1>1, <1>2, <1>4 DEF CounterTyped, Distinct
  <1>6. DaysInv'
    BY <1>1, <1>2, <1>3 DEF DaysInv, NothingAhead, Window
  <1>7. ~raced' => SharedInv'
    BY <1>2 DEF CounterInv, SharedInv
  <1>8. ASSUME NEW days, NothingAhead(days), HasMonth(days),
               NEW d \in ThisMonth'
        PROVE  days[d] = sent[d]
    <2>1. d \in Date /\ (d \in ThisMonth \/ d = today + 1)
      BY <1>1, <1>2, NextMonth
    <2>2. d = today + 1 => days[d] = 0 /\ sent[d] = 0
      BY <1>1, <1>3, <1>8, <2>1 DEF DaysInv, NothingAhead
    <2> QED BY <1>8, <2>1, <2>2 DEF HasMonth
  <1>9. ASSUME ~raced', ~lost' PROVE MonthInv'
    <2>1. MonthInv
      BY <1>2, <1>9 DEF CounterInv
    <2>2. Pending' = Pending /\ Pending \subseteq Counters
      BY <1>1, <1>2, LenProperties DEF Pending, CounterTyped
    <2>3. \A c \in Counters : HasMonth(counter[c]) => HasMonth(counter[c])'
      BY <1>1, <1>2, <1>8 DEF DaysInv, HasMonth
    <2>4. HasMonth(file) => HasMonth(file)'
      BY <1>1, <1>2, <1>8 DEF DaysInv, HasMonth
    <2>5. shared' # None => HasMonth(counter[shared])'
      BY <1>1, <1>2, <2>1, <2>3 DEF MonthInv, CounterTyped, HasMonth
    <2> QED BY <1>2, <2>1, <2>2, <2>3, <2>4, <2>5 DEF MonthInv
  <1> QED BY <1>5, <1>6, <1>7, <1>9 DEF CounterInv

\* An empty tally.
LEMMA NoCallsIs == NoCalls \in Tally /\ NothingAhead(NoCalls) /\ \A d \in Date : NoCalls[d] = 0
  <1>1. \A d \in Date : NoCalls[d] = 0
    BY DEF NoCalls
  <1>2. NoCalls \in Tally
    BY DEF NoCalls, Tally
  <1> QED BY <1>1, <1>2 DEF NothingAhead

\* A stop saves what waits, a crash loses it.
LEMMA RestartKeeps ==
    ASSUME CounterInv, Restart
    PROVE  CounterInv'
  <1>1. CounterTyped /\ DaysInv /\ today \in Date /\ saves \in Seq(Counters) /\ file \in Tally
        /\ counter \in [Counters -> Tally] /\ restarts \in Nat
        /\ raced \in BOOLEAN /\ lost \in BOOLEAN
    BY DEF CounterInv, CounterTyped
  <1>2. Pending \subseteq Counters
    BY <1>1, LenProperties DEF Pending
  <1>3. /\ entry' = [e \in Entries |-> NewEntry] /\ shared' = None
        /\ counter' = [c \in Counters |-> NoCalls] /\ saves' = <<>>
        /\ restarts' = restarts + 1
        /\ UNCHANGED <<today, callsMade, sent, raced>>
    BY DEF Restart
  <1>4. \/ file' = file /\ saves = <<>> /\ lost' = lost
        \/ lost' = lost /\ \E c \in Pending : file' = counter[c]
        \/ file' = file /\ lost' = (lost \/ saves # <<>>)
    BY DEF Restart
  <1>5. file' \in Tally /\ NothingAhead(file') /\ Window(file') /\ lost' \in BOOLEAN
    BY <1>1, <1>2, <1>4 DEF DaysInv
  <1>6. saves' \in Seq(Counters) /\ Distinct' /\ Len(saves') = 0 /\ Pending' = {}
    BY <1>3, EmptySeq DEF Distinct, Pending
  <1>7. NewEntry \in Entry /\ NewEntry.stage = "unloaded" /\ NewEntry.data = "none"
    BY DEF NewEntry, Entry
  <1>8. CounterTyped'
    <2>1. counter' \in [Counters -> Tally]
      BY <1>3, NoCallsIs
    <2>2. entry' \in [Entries -> Entry] /\ \A e \in Entries : entry'[e].stage = "unloaded"
      BY <1>3, <1>7
    <2>3. restarts' \in Nat
      BY <1>1, <1>3
    <2>4. today' \in Date /\ callsMade' \in Nat /\ sent' \in Tally /\ raced' \in BOOLEAN
      BY <1>1, <1>3 DEF CounterTyped
    <2> QED BY <1>3, <1>5, <1>6, <2>1, <2>2, <2>3, <2>4 DEF CounterTyped
  <1>9. DaysInv'
    <2>1. Window(NoCalls)
      <3>1. \A d \in Date : ~(NoCalls[d] > 0)
        BY NoCallsIs
      <3> QED BY <1>1, <3>1 DEF Window
    <2>2. \A c \in Counters : NothingAhead(counter'[c]) /\ Window(counter'[c])
      BY <1>3, <2>1, NoCallsIs
    <2> QED BY <1>1, <1>3, <1>5, <2>2 DEF DaysInv, NothingAhead, Window
  <1>10. SharedInv'
    BY <1>3, <1>7 DEF SharedInv, Connected
  <1>11. ASSUME ~raced', ~lost' PROVE MonthInv'
    <2>1. MonthInv
      BY <1>1, <1>3, <1>4, <1>11 DEF CounterInv
    <2>2. HasMonth(file')
      BY <1>4, <1>11, <2>1 DEF MonthInv
    <2>3. HasMonth(file)'
      BY <1>3, <2>2 DEF HasMonth, ThisMonth
    <2> QED BY <1>3, <1>6, <2>3 DEF MonthInv
  <1> QED BY <1>8, <1>9, <1>10, <1>11 DEF CounterInv

\* The invariant holds in the beginning ...
LEMMA CounterInitially == CounterInit => CounterInv
  <1> SUFFICES ASSUME CounterInit PROVE CounterInv
    OBVIOUS
  <1>1. /\ entry = [e \in Entries |-> NewEntry] /\ shared = None
        /\ counter = [c \in Counters |-> NoCalls] /\ saves = <<>> /\ file = NoCalls
        /\ today = 0 /\ callsMade = 0 /\ restarts = 0 /\ sent = NoCalls
        /\ raced = FALSE /\ lost = FALSE
    BY DEF CounterInit
  <1>2. 0 \in Date
    BY CounterBoundAssumption DEF Date
  <1>3. saves \in Seq(Counters) /\ Distinct /\ Len(saves) = 0 /\ Pending = {}
    BY <1>1, EmptySeq DEF Distinct, Pending
  <1>4. NewEntry \in Entry /\ NewEntry.stage = "unloaded" /\ NewEntry.data = "none"
    BY DEF NewEntry, Entry
  <1>5. CounterTyped
    <2>1. counter \in [Counters -> Tally]
      BY <1>1, NoCallsIs
    <2>2. entry \in [Entries -> Entry] /\ \A e \in Entries : entry[e].stage = "unloaded"
      BY <1>1, <1>4
    <2>3. /\ shared \in Counters \cup {None} /\ file \in Tally /\ sent \in Tally
          /\ callsMade \in Nat /\ restarts \in Nat /\ raced \in BOOLEAN /\ lost \in BOOLEAN
      BY <1>1, NoCallsIs
    <2> QED BY <1>1, <1>2, <1>3, <2>1, <2>2, <2>3 DEF CounterTyped
  <1>6. DaysInv
    <2>1. Window(NoCalls)
      <3>1. \A d \in Date : ~(NoCalls[d] > 0)
        BY NoCallsIs
      <3> QED BY <1>2, <3>1 DEF Window
    <2> QED BY <1>1, <2>1, NoCallsIs DEF DaysInv
  <1>7. SharedInv
    BY <1>1, <1>4 DEF SharedInv, Connected
  <1>8. MonthInv
    BY <1>1, <1>3 DEF MonthInv, HasMonth
  <1> QED BY <1>5, <1>6, <1>7, <1>8 DEF CounterInv

\* ... and is kept by every step.
LEMMA CounterStep == CounterInv /\ [CounterNext]_counterVars => CounterInv'
  <1> SUFFICES ASSUME CounterInv, [CounterNext]_counterVars PROVE CounterInv'
    OBVIOUS
  <1>1. ASSUME NEW e \in Entries,
               \/ Setup(e) \/ CounterLoaded(e) \/ LocksListed(e) \/ GatewaysListed(e)
               \/ SetupFails(e) \/ CallCloud(e) \/ Unload(e)
        PROVE  CounterInv'
    BY <1>1, SetupKeeps, CounterLoadedKeeps, LocksListedKeeps, GatewaysListedKeeps,
       SetupFailsKeeps, CallsKeep, UnloadKeeps
  <1>2. CASE UNCHANGED counterVars
    BY <1>2 DEF counterVars, boundVars, historyVars, CounterInv, CounterTyped, Distinct, DaysInv,
       NothingAhead, Window, SharedInv, MonthInv, HasMonth, ThisMonth, Pending
  <1> QED BY <1>1, <1>2, SaveKeeps, NextDayKeeps, RestartKeeps DEF CounterNext

\* The invariant that the four properties of the tally follow from.
THEOREM CounterInvariant == CounterSpec => []CounterInv
  BY CounterInitially, CounterStep, PTL DEF CounterSpec

\* Every reachable state of the tally is well typed, and no counter waits for two
\* saves (ApiCallCounter.record replaces the one that is pending).
THEOREM CounterTypeCorrect == CounterSpec => []CounterTypeOK
  <1>1. CounterInv => CounterTypeOK
    BY CountPending DEF CounterInv, CounterTyped, CounterTypeOK
  <1> QED BY <1>1, CounterInvariant, PTL

\* The month's total is complete, however the tally is pruned, reloaded and shared,
\* as long as no two counters were created at once and none was dropped unsaved.
THEOREM TallyIsComplete == CounterSpec => []SerialTallyIsComplete
  <1>1. CounterInv => SerialTallyIsComplete
    BY DEF CounterInv, MonthInv, HasMonth, SerialTallyIsComplete
  <1> QED BY <1>1, CounterInvariant, PTL

\* On that condition the file has the whole month once no save is due.
THEOREM FileCatchesUp == CounterSpec => []SerialFileCatchesUp
  <1>1. CounterInv => SerialFileCatchesUp
    BY DEF CounterInv, MonthInv, HasMonth, SerialFileCatchesUp
  <1> QED BY <1>1, CounterInvariant, PTL

\* _prune bounds every tally, in memory and in the file, on no condition at all.
THEOREM DaysBounded == CounterSpec => []DaysAreBounded
  <1>1. ASSUME NEW days, Window(days)
        PROVE  Cardinality({d \in Date : days[d] > 0}) <= Retention + 1
    <2>1. PICK last \in Date : \A d \in Date : days[d] > 0 => d <= last /\ last <= d + Retention
      BY <1>1 DEF Window
    <2>2. last \in Int /\ Retention \in Nat /\ \A d \in Date : d \in Int
      BY RetentionAssumption, CounterBoundAssumption DEF Date
    <2>3. {d \in Date : days[d] > 0} \subseteq (last - Retention)..last
      <3>1. ASSUME NEW d \in Date, days[d] > 0 PROVE d \in (last - Retention)..last
        <4>1. d <= last /\ last <= d + Retention
          BY <2>1, <3>1
        <4> QED BY <2>2, <4>1
      <3> QED BY <3>1
    <2>4. /\ IsFiniteSet((last - Retention)..last)
          /\ Cardinality((last - Retention)..last) = Retention + 1
      <3>1. last - Retention \in Int
        BY <2>2
      <3>2. /\ IsFiniteSet((last - Retention)..last)
            /\ Cardinality((last - Retention)..last) =
                 IF last - Retention > last THEN 0 ELSE last - (last - Retention) + 1
        BY <2>2, <3>1, FS_Interval
      <3> QED BY <2>2, <3>2
    <2>5. /\ IsFiniteSet({d \in Date : days[d] > 0})
          /\ Cardinality({d \in Date : days[d] > 0}) <= Cardinality((last - Retention)..last)
      BY <2>3, <2>4, FS_Subset
    <2> QED BY <2>4, <2>5
  <1>2. CounterInv => DaysAreBounded
    BY <1>1 DEF CounterInv, DaysInv, DaysAreBounded
  <1> QED BY <1>2, CounterInvariant, PTL

-----------------------------------------------------------------------------
(* What is known of every lock's schedule *)

\* Without a schedule a coordinator polls once.  With one, the next poll is never
\* farther away than an interval, and never missed.
DueInv ==
    /\ options.manual =>
          /\ \A l \in Locks : due[l] \in {0, Never}
          /\ gatewayDue \in {0, Never}
    /\ ~options.manual =>
          /\ \A l \in Locks : due[l] \in Nat /\ now <= due[l] /\ due[l] <= now + options.poll
          /\ gatewayDue \in Nat /\ now <= gatewayDue /\ gatewayDue <= now + options.gateway

Past(stamp) == stamp # Never => stamp <= now

StampInv ==
    /\ \A l \in Locks, p \in Part : Past(fetched[l][p])
    /\ options.status => confirmed

\* The slow tier is due again before its bound: the next poll does not come later.
Since(stamp) == IF stamp = Never THEN 0 ELSE stamp

FreshInv ==
    ~options.manual =>
        \A l \in Locks, p \in Part :
            p # Gateways \/ l \in WithGateway =>
                due[l] <= Since(fetched[l][p])
                             + options.slow + options.poll * (1 + pushes[l] + extras)

ScheduleTyped == TypeOK /\ DueInv /\ StampInv

\* What any step of lock l does to what is known of its door sensor: nothing, but
\* for a failure that is stored; it is present now; a failure is stored; or it was
\* looked for in vain.
SensorStep(l) ==
    \E stamp \in {sensed[l], now}, is \in BOOLEAN,
       from \in {probeFrom[l], now + Day + 1, Never} :
          /\ sensed' = [sensed EXCEPT ![l] = stamp]
          /\ present' = [present EXCEPT ![l] = is]
          /\ probeFrom' = [probeFrom EXCEPT ![l] = from]
          /\ \/ stamp = sensed[l] /\ is = present[l]
             \/ stamp = now /\ is
             \/ ~is /\ (from \in {now + Day + 1, Never} \/ QueriesSensor(l))

\* What any step of lock l does to its schedule and its stamps.
LockStep(l) ==
    /\ due' = [due EXCEPT ![l] = NextPoll]
    /\ \E stamps \in [Part -> Time] :
          /\ fetched' = [fetched EXCEPT ![l] = stamps]
          /\ \A p \in Part : stamps[p] \in {fetched[l][p], now}
    /\ SensorStep(l)
    /\ blanks' \in 0..MaxBlanks /\ blanks' \in {blanks, blanks + 1}
    /\ \E b \in BOOLEAN : known' = [known EXCEPT ![l] = b] /\ (known[l] => b)
    /\ UNCHANGED <<now, options, confirmed, gatewayDue>>

\* The intervals are positive.
LEMMA OptionsTyped ==
    ASSUME options \in Settings
    PROVE  /\ options.poll \in Nat \ {0} /\ options.slow \in Nat \ {0}
           /\ options.gateway \in Nat \ {0}
           /\ options.manual \in BOOLEAN /\ options.only \in BOOLEAN
           /\ options.status \in BOOLEAN
  <1>1. options \in Options
    BY OptionAssumption
  <1> QED BY <1>1 DEF Options

\* What a coordinator's next date is.
LEMMA NextPollIs ==
    ASSUME TypeOK
    PROVE  /\ NextPoll \in Time /\ now \in Nat /\ now # Never /\ NextPoll # 0
           /\ options.manual => NextPoll = Never
           /\ ~options.manual => NextPoll = now + options.poll /\ NextPoll \in Nat
  <1>1. now \in Nat /\ options \in Settings /\ Never \notin Nat
    BY TimeAssumption, BoundAssumption DEF TypeOK
  <1>2. options.poll \in Nat \ {0} /\ options.manual \in BOOLEAN
    BY <1>1, OptionsTyped
  <1> QED BY <1>1, <1>2 DEF NextPoll, Time

\* Any such step keeps the schedule.
LEMMA LockStepKeeps ==
    ASSUME ScheduleTyped, NEW l \in Locks, LockStep(l),
           calls' \in [Source -> Nat], pushes' \in [Locks -> 0..MaxPushes],
           extras' \in 0..MaxExtras
    PROVE  ScheduleTyped'
  <1>1. TypeOK /\ DueInv /\ StampInv /\ options \in Settings
    BY DEF ScheduleTyped, TypeOK
  <1>2. /\ options.poll \in Nat \ {0} /\ options.manual \in BOOLEAN
        /\ options.gateway \in Nat \ {0}
    BY <1>1, OptionsTyped
  <1>3. PICK next \in Time : next = NextPoll
    BY <1>1, NextPollIs
  <1>4. /\ now \in Nat /\ now # Never
        /\ options.manual => next = Never
        /\ ~options.manual => next = now + options.poll /\ next \in Nat
    BY <1>1, <1>3, NextPollIs
  <1>5. PICK stamps \in [Part -> Time] :
          /\ fetched' = [fetched EXCEPT ![l] = stamps]
          /\ \A p \in Part : stamps[p] \in {fetched[l][p], now}
    BY DEF LockStep
  <1>6. /\ sensed' \in [Locks -> Time] /\ present' \in [Locks -> BOOLEAN]
        /\ probeFrom' \in [Locks -> Time]
    <2>1. PICK stamp \in {sensed[l], now}, is \in BOOLEAN,
               from \in {probeFrom[l], now + Day + 1, Never} :
            /\ sensed' = [sensed EXCEPT ![l] = stamp]
            /\ present' = [present EXCEPT ![l] = is]
            /\ probeFrom' = [probeFrom EXCEPT ![l] = from]
      BY DEF LockStep, SensorStep
    <2>2. stamp \in Time /\ from \in Time
      <3>1. now + Day + 1 \in Nat /\ now \in Nat
        BY <1>4, TimeAssumption
      <3>2. sensed[l] \in Time /\ probeFrom[l] \in Time
        BY <1>1 DEF TypeOK
      <3> QED BY <2>1, <3>1, <3>2 DEF Time
    <2> QED BY <1>1, <2>1, <2>2 DEF TypeOK
  <1>7. PICK b \in BOOLEAN : known' = [known EXCEPT ![l] = b]
    BY DEF LockStep
  <1>8. /\ due' = [due EXCEPT ![l] = next] /\ UNCHANGED <<now, options, confirmed, gatewayDue>>
        /\ blanks' \in 0..MaxBlanks
    BY <1>3 DEF LockStep
  <1>10. TypeOK'
    <2>1. due' \in [Locks -> Time]
      BY <1>1, <1>3, <1>8 DEF TypeOK
    <2>2. fetched' \in [Locks -> [Part -> Time]]
      BY <1>1, <1>5 DEF TypeOK
    <2>4. known' \in [Locks -> BOOLEAN]
      BY <1>1, <1>7 DEF TypeOK
    <2>5. /\ now' \in 0..Horizon /\ options' \in Settings /\ confirmed' \in BOOLEAN
          /\ gatewayDue' \in Time
      BY <1>1, <1>8 DEF TypeOK
    <2> QED BY <1>6, <1>8, <2>1, <2>2, <2>4, <2>5 DEF TypeOK
  <1>11. DueInv'
    <2>1. \A k \in Locks : due'[k] = IF k = l THEN next ELSE due[k]
      BY <1>1, <1>8 DEF TypeOK
    <2>2. options.manual => \A k \in Locks : due'[k] \in {0, Never}
      BY <1>1, <1>4, <2>1 DEF DueInv
    <2>3. ASSUME ~options.manual, NEW k \in Locks
          PROVE  due'[k] \in Nat /\ now <= due'[k] /\ due'[k] <= now + options.poll
      BY <1>1, <1>2, <1>4, <2>1, <2>3 DEF DueInv
    <2> QED BY <1>1, <1>8, <2>2, <2>3 DEF DueInv
  <1>12. StampInv'
    <2>1. \A k \in Locks, p \in Part : fetched'[k][p] \in {fetched[k][p], now}
      BY <1>1, <1>5 DEF TypeOK
    <2> QED BY <1>1, <1>4, <1>8, <2>1 DEF StampInv, Past
  <1> QED BY <1>10, <1>11, <1>12 DEF ScheduleTyped


-----------------------------------------------------------------------------
(* The calls of a poll *)

Of(made, s) == {c \in made : SourceOf(c) = s}

\* The calls by source.
LEMMA SourceOfIs ==
    /\ Call = {Details, DoorSensor, State, Passage, Gateways, Passcodes, Ekeys}
    /\ \A c \in {Details, Passage, Gateways} : SourceOf(c) = "lock_detail"
    /\ SourceOf(DoorSensor) = "door_sensor"
    /\ SourceOf(State) = "lock_state"
    /\ \A c \in {Passcodes, Ekeys} : SourceOf(c) = "credentials"
  <1>1. Call = {Details, DoorSensor, State, Passage, Gateways, Passcodes, Ekeys}
    BY DEF Call, Details, DoorSensor, State, Passage, Gateways, Passcodes, Ekeys
  <1>2. \A c \in {Details, Passage, Gateways} : SourceOf(c) = "lock_detail"
    BY DEF SourceOf, Details, DoorSensor, State, Passage, Gateways, Passcodes, Ekeys
  <1>3. SourceOf(DoorSensor) = "door_sensor" /\ SourceOf(State) = "lock_state"
    BY DEF SourceOf, Details, DoorSensor, State, Passage, Gateways, Passcodes, Ekeys
  <1>4. \A c \in {Passcodes, Ekeys} : SourceOf(c) = "credentials"
    BY DEF SourceOf, Details, DoorSensor, State, Passage, Gateways, Passcodes, Ekeys
  <1> QED BY <1>1, <1>2, <1>3, <1>4

\* A step makes no more calls at once of a source than AtOnce says.
LEMMA AtOnceBounds ==
    ASSUME NEW made \in SUBSET Call, NEW s \in Source
    PROVE  /\ IsFiniteSet(Of(made, s))
           /\ Cardinality(Of(made, s)) \in Nat /\ AtOnce[s] \in Nat
           /\ Cardinality(Of(made, s)) <= AtOnce[s]
  <1>1. \A x, y, z : /\ IsFiniteSet({x}) /\ Cardinality({x}) <= 1
                     /\ IsFiniteSet({x, y}) /\ Cardinality({x, y}) <= 2
                     /\ IsFiniteSet({x, y, z}) /\ Cardinality({x, y, z}) <= 3
    <2> TAKE x, y, z
    <2>1. IsFiniteSet({x}) /\ Cardinality({x}) = 1
      BY FS_Singleton
    <2>2. IsFiniteSet({x} \cup {y}) /\ Cardinality({x} \cup {y}) \in {1, 2}
      BY <2>1, FS_AddElement
    <2>3. /\ IsFiniteSet(({x} \cup {y}) \cup {z})
          /\ Cardinality(({x} \cup {y}) \cup {z}) \in {1, 2, 3}
      BY <2>2, FS_AddElement
    <2>4. {x, y} = {x} \cup {y} /\ {x, y, z} = ({x} \cup {y}) \cup {z}
      OBVIOUS
    <2>5. Cardinality({x}) <= 1
      BY <2>1
    <2> QED BY <2>1, <2>2, <2>3, <2>4, <2>5
  <1>2. ASSUME NEW S, IsFiniteSet(S), Of(made, s) \subseteq S, NEW n \in Nat,
               Cardinality(S) <= n
        PROVE  /\ IsFiniteSet(Of(made, s)) /\ Cardinality(Of(made, s)) \in Nat
               /\ Cardinality(Of(made, s)) <= n
    <2>1. IsFiniteSet(Of(made, s)) /\ Cardinality(Of(made, s)) <= Cardinality(S)
      BY <1>2, FS_Subset
    <2>2. Cardinality(Of(made, s)) \in Nat /\ Cardinality(S) \in Nat
      BY <1>2, <2>1, FS_CardinalityType
    <2> QED BY <1>2, <2>1, <2>2
  <1>3. CASE s = "lock_state"
    <2>1. PICK S : S = {State}
      OBVIOUS
    <2>2. Of(made, s) \subseteq S /\ AtOnce[s] = 1
      BY <1>3, <2>1, SourceOfIs DEF Of, AtOnce
    <2>3. IsFiniteSet(S) /\ Cardinality(S) <= 1
      BY <1>1, <2>1
    <2> QED BY <1>2, <2>2, <2>3
  <1>4. CASE s = "lock_detail"
    <2>1. PICK S : S = {Details, Passage, Gateways}
      OBVIOUS
    <2>2. Of(made, s) \subseteq S /\ AtOnce[s] = 3
      BY <1>4, <2>1, SourceOfIs DEF Of, AtOnce
    <2>3. IsFiniteSet(S) /\ Cardinality(S) <= 3
      BY <1>1, <2>1
    <2> QED BY <1>2, <2>2, <2>3
  <1>5. CASE s = "credentials"
    <2>1. PICK S : S = {Passcodes, Ekeys}
      OBVIOUS
    <2>2. Of(made, s) \subseteq S /\ AtOnce[s] = 2
      BY <1>5, <2>1, SourceOfIs DEF Of, AtOnce
    <2>3. IsFiniteSet(S) /\ Cardinality(S) <= 2
      BY <1>1, <2>1
    <2> QED BY <1>2, <2>2, <2>3
  <1>6. CASE s = "door_sensor"
    <2>1. PICK S : S = {DoorSensor}
      OBVIOUS
    <2>2. Of(made, s) \subseteq S /\ AtOnce[s] = 1
      BY <1>6, <2>1, SourceOfIs DEF Of, AtOnce
    <2>3. IsFiniteSet(S) /\ Cardinality(S) <= 1
      BY <1>1, <2>1
    <2> QED BY <1>2, <2>2, <2>3
  <1>7. CASE s = "gateway_status"
    <2>1. PICK S : S = {State}
      OBVIOUS
    <2>2. Of(made, s) \subseteq S /\ AtOnce[s] = 1
      BY <1>7, <2>1, SourceOfIs DEF Of, AtOnce
    <2>3. IsFiniteSet(S) /\ Cardinality(S) <= 1
      BY <1>1, <2>1
    <2> QED BY <1>2, <2>2, <2>3
  <1> QED BY <1>3, <1>4, <1>5, <1>6, <1>7 DEF Source

\* Count adds to each source the calls made of it.
LEMMA CountIs ==
    ASSUME TypeOK, NEW made \in SUBSET Call, Count(made)
    PROVE  /\ calls' \in [Source -> Nat]
           /\ \A s \in Source : calls'[s] = calls[s] + Cardinality(Of(made, s))
  <1>1. \A s \in Source : Cardinality(Of(made, s)) \in Nat /\ calls[s] \in Nat
    BY AtOnceBounds DEF TypeOK
  <1>2. calls' = [s \in Source |-> calls[s] + Cardinality(Of(made, s))]
    BY DEF Count, Of
  <1> QED BY <1>1, <1>2

\* What a poll asks for, call by call.
LEMMA PlannedIs ==
    ASSUME NEW l, NEW ble, NEW blanked
    PROVE  /\ Planned(l, ble, blanked) \subseteq Call
           /\ Details \in Planned(l, ble, blanked) <=> SlowTierDue(fetched[l][Details])
           /\ Passage \in Planned(l, ble, blanked) <=> SlowTierDue(fetched[l][Passage])
           /\ Ekeys \in Planned(l, ble, blanked) <=> SlowTierDue(fetched[l][Ekeys])
           /\ Passcodes \in Planned(l, ble, blanked) <=> SlowTierDue(fetched[l][Ekeys])
           /\ Gateways \in Planned(l, ble, blanked) <=>
                 l \in WithGateway /\ SlowTierDue(fetched[l][Gateways])
           /\ DoorSensor \in Planned(l, ble, blanked) <=>
                 l \in WithSensor /\ QueriesSensor(l)
           /\ State \in Planned(l, ble, blanked) <=> ReadsState(l, ble, blanked)
  <1>1. Planned(l, ble, blanked) \subseteq Call
    BY DEF Planned
  <1>2. Details \in Planned(l, ble, blanked) <=> SlowTierDue(fetched[l][Details])
    BY DEF Planned, Call, Details, DoorSensor, State, Passage, Gateways, Passcodes, Ekeys
  <1>7. Passage \in Planned(l, ble, blanked) <=> SlowTierDue(fetched[l][Passage])
    BY DEF Planned, Call, Details, DoorSensor, State, Passage, Gateways, Passcodes, Ekeys
  <1>8. Ekeys \in Planned(l, ble, blanked) <=> SlowTierDue(fetched[l][Ekeys])
    BY DEF Planned, Call, Details, DoorSensor, State, Passage, Gateways, Passcodes, Ekeys
  <1>3. Passcodes \in Planned(l, ble, blanked) <=> SlowTierDue(fetched[l][Ekeys])
    BY DEF Planned, Call, Details, DoorSensor, State, Passage, Gateways, Passcodes, Ekeys
  <1>4. Gateways \in Planned(l, ble, blanked) <=>
           l \in WithGateway /\ SlowTierDue(fetched[l][Gateways])
    BY DEF Planned, Call, Details, DoorSensor, State, Passage, Gateways, Passcodes, Ekeys
  <1>5. DoorSensor \in Planned(l, ble, blanked) <=> l \in WithSensor /\ QueriesSensor(l)
    BY DEF Planned, Call, Details, DoorSensor, State, Passage, Gateways, Passcodes, Ekeys
  <1>6. State \in Planned(l, ble, blanked) <=> ReadsState(l, ble, blanked)
    BY DEF Planned, Call, Details, DoorSensor, State, Passage, Gateways, Passcodes, Ekeys
  <1> QED BY <1>1, <1>2, <1>3, <1>4, <1>5, <1>6, <1>7, <1>8

\* Stamping keeps each stamp or sets it to now.
LEMMA StampIs ==
    ASSUME TypeOK, NEW l \in Locks, NEW made, Stamp(l, made)
    PROVE  \E stamps \in [Part -> Time] :
               /\ fetched' = [fetched EXCEPT ![l] = stamps]
               /\ \A p \in Part : stamps[p] = IF p \in made THEN now ELSE fetched[l][p]
  <1>1. now \in Time /\ fetched \in [Locks -> [Part -> Time]]
    BY NextPollIs DEF TypeOK, Time
  <1> DEFINE stamps == [p \in Part |-> IF p \in made THEN now ELSE fetched[l][p]]
  <1>2. fetched' = [fetched EXCEPT ![l] = stamps]
    BY <1>1 DEF Stamp
  <1>3. \A p \in Part : stamps[p] = IF p \in made THEN now ELSE fetched[l][p]
    OBVIOUS
  <1>4. stamps \in [Part -> Time]
    BY <1>1
  <1> QED BY <1>2, <1>3, <1>4

\* What is left of a poll once its parts are known.
LEMMA StepOfParts ==
    ASSUME TypeOK, NEW l \in Locks, NEW made, Stamp(l, made),
           due' = [due EXCEPT ![l] = NextPoll],
           SensorStep(l), blanks' \in 0..MaxBlanks, blanks' \in {blanks, blanks + 1},
           \E b \in BOOLEAN : known' = [known EXCEPT ![l] = b] /\ (known[l] => b),
           UNCHANGED <<now, options, confirmed, gatewayDue>>
    PROVE  LockStep(l)
  <1>1. PICK stamps \in [Part -> Time] :
            /\ fetched' = [fetched EXCEPT ![l] = stamps]
            /\ \A p \in Part : stamps[p] = IF p \in made THEN now ELSE fetched[l][p]
    BY StampIs
  <1>2. \A p \in Part : stamps[p] \in {fetched[l][p], now}
    BY <1>1
  <1> QED BY <1>1, <1>2 DEF LockStep

\* What the sensor's answer leaves: a level, a failure that is stored, or one more
\* answer without a level.
Told(l, made) ==
    /\ DoorSensor \notin made => blanks' = blanks
    /\ DoorSensor \in made /\ blanks' = blanks =>
          /\ sensed'[l] = now
          /\ present'[l] \/ probeFrom'[l] \in {now + Day + 1, Never}

\* What a poll's answers do to what is known of the door sensor.
LEMMA AnsweredIs ==
    ASSUME TypeOK, NEW l \in Locks, NEW made, DoorSensor \in made => QueriesSensor(l),
           Answered(l, made)
    PROVE  /\ Count(made) /\ Stamp(l, made)
           /\ SensorStep(l) /\ blanks' \in 0..MaxBlanks /\ blanks' \in {blanks, blanks + 1}
           /\ Told(l, made)
  <1>1. /\ sensed \in [Locks -> Time] /\ present \in [Locks -> BOOLEAN]
        /\ probeFrom \in [Locks -> Time] /\ blanks \in 0..MaxBlanks /\ MaxBlanks \in Nat
    BY BoundAssumption DEF TypeOK
  <1>2. PICK answer \in Answer : StoreAnswer(l, made, answer) /\ KeepAnswer(l, made, answer)
    BY DEF Answered
  <1>3. CASE DoorSensor \notin made
    <2>1. UNCHANGED <<sensed, present, probeFrom, blanks>>
      BY <1>2, <1>3 DEF StoreAnswer, KeepAnswer
    <2>2. /\ sensed' = [sensed EXCEPT ![l] = sensed[l]]
          /\ present' = [present EXCEPT ![l] = present[l]]
          /\ probeFrom' = [probeFrom EXCEPT ![l] = probeFrom[l]]
      BY <1>1, <2>1
    <2>3. SensorStep(l)
      BY <1>1, <2>2 DEF SensorStep
    <2> QED BY <1>1, <1>3, <2>1, <2>3 DEF Answered, Told
  <1>4. CASE DoorSensor \in made
    <2>1. /\ sensed' = [sensed EXCEPT ![l] = now]
          /\ IF answer = "blank" THEN blanks < MaxBlanks /\ blanks' = blanks + 1
             ELSE blanks' = blanks
      BY <1>2, <1>4 DEF KeepAnswer
    <2>2. PICK is \in BOOLEAN : is = (answer = "battery" \/ (present[l] /\ answer = "failed"))
      OBVIOUS
    <2>3. present' = [present EXCEPT ![l] = is]
      BY <1>2, <1>4, <2>2 DEF KeepAnswer
    <2>4. PICK from \in {probeFrom[l], now + Day + 1, Never} :
             /\ probeFrom' = [probeFrom EXCEPT ![l] = from]
             /\ ~present[l] /\ answer = "failed" => from \in {now + Day + 1, Never}
      <3>1. CASE ~present[l] /\ answer = "failed"
        BY <1>2, <1>4, <3>1 DEF StoreAnswer
      <3>2. CASE ~(~present[l] /\ answer = "failed")
        <4>1. probeFrom' = [probeFrom EXCEPT ![l] = probeFrom[l]]
          BY <1>1, <1>2, <3>2 DEF StoreAnswer
        <4> QED BY <3>2, <4>1
      <3> QED BY <3>1, <3>2
    <2>5. SensorStep(l)
      BY <1>4, <2>1, <2>2, <2>3, <2>4 DEF SensorStep
    <2>6. blanks' \in 0..MaxBlanks /\ blanks' \in {blanks, blanks + 1}
      BY <1>1, <2>1
    <2>7. ASSUME blanks' = blanks
          PROVE  sensed'[l] = now /\ (present'[l] \/ probeFrom'[l] \in {now + Day + 1, Never})
      <3>1. answer \in {"battery", "failed"}
        BY <1>1, <2>1, <2>7 DEF Answer
      <3>2. sensed'[l] = now /\ present'[l] = is /\ probeFrom'[l] = from
        BY <1>1, <2>1, <2>3, <2>4
      <3> QED BY <2>2, <2>4, <3>1, <3>2
    <2> QED BY <1>4, <2>5, <2>6, <2>7 DEF Answered, Told
  <1> QED BY <1>3, <1>4

\* A poll that succeeds makes the calls that are planned.
LEMMA RefreshIs ==
    ASSUME TypeOK, NEW l \in Locks, NEW blanked \in BOOLEAN, Refresh(l, blanked)
    PROVE  /\ LockStep(l) /\ pushes' = pushes
           /\ \E ble \in BOOLEAN :
                 LET made == Planned(l, ble, blanked)
                 IN  /\ Count(made) /\ Stamp(l, made) /\ Told(l, made)
                     /\ State \in made => known' = [known EXCEPT ![l] = TRUE]
  <1>1. PICK ble \in BOOLEAN : PollSucceeds(l, ble, blanked)
    BY DEF Refresh
  <1>2. PICK made : made = Planned(l, ble, blanked)
    OBVIOUS
  <1>3. /\ Answered(l, made)
        /\ known' = [known EXCEPT ![l] = (@ /\ ~blanked) \/ ble \/ State \in made]
    BY <1>1, <1>2 DEF PollSucceeds
  <1>4. known \in [Locks -> BOOLEAN]
    BY DEF TypeOK
  <1>5. PICK b \in BOOLEAN : b = ((known[l] /\ ~blanked) \/ ble \/ State \in made)
    OBVIOUS
  <1>6. known' = [known EXCEPT ![l] = b]
    BY <1>3, <1>4, <1>5
  <1>7. known[l] => b
    BY <1>2, <1>5, PlannedIs DEF ReadsState
  <1>8. /\ Count(made) /\ Stamp(l, made) /\ Told(l, made)
        /\ SensorStep(l) /\ blanks' \in 0..MaxBlanks /\ blanks' \in {blanks, blanks + 1}
    <2>1. DoorSensor \in made => QueriesSensor(l)
      BY <1>2, PlannedIs
    <2> QED BY <1>3, <2>1, AnsweredIs
  <1>9. /\ UNCHANGED <<now, options, confirmed, gatewayDue, pushes>>
        /\ due' = [due EXCEPT ![l] = NextPoll]
    BY DEF Refresh
  <1>10. LockStep(l)
    BY <1>6, <1>7, <1>8, <1>9, StepOfParts
  <1>11. State \in made => known' = [known EXCEPT ![l] = TRUE]
    BY <1>5, <1>6
  <1> QED BY <1>2, <1>8, <1>9, <1>10, <1>11

\* One that fails makes some calls.
LEMMA RefreshFailsIs ==
    ASSUME TypeOK, NEW l \in Locks, RefreshFails(l, FALSE)
    PROVE  LockStep(l) /\ \E made \in SUBSET Call : Count(made)
  <1>1. /\ UNCHANGED <<now, options, confirmed, gatewayDue>>
        /\ due' = [due EXCEPT ![l] = NextPoll]
        /\ sensed \in [Locks -> Time] /\ present \in [Locks -> BOOLEAN]
        /\ probeFrom \in [Locks -> Time] /\ blanks \in 0..MaxBlanks /\ known \in [Locks -> BOOLEAN]
    BY DEF RefreshFails, TypeOK
  <1>2. CASE PollWithoutState(l, FALSE)
    <2>1. PICK made : made = Planned(l, FALSE, FALSE)
      OBVIOUS
    <2>2. ~known[l] /\ Answered(l, made) /\ known' = [known EXCEPT ![l] = FALSE]
      BY <1>2, <2>1 DEF PollWithoutState
    <2>3. /\ Count(made) /\ Stamp(l, made)
          /\ SensorStep(l) /\ blanks' \in 0..MaxBlanks /\ blanks' \in {blanks, blanks + 1}
      <3>1. DoorSensor \in made => QueriesSensor(l)
        BY <2>1, PlannedIs
      <3> QED BY <2>2, <3>1, AnsweredIs
    <2>4. LockStep(l)
      BY <1>1, <2>2, <2>3, StepOfParts
    <2> QED BY <2>1, <2>3, <2>4, PlannedIs
  <1>3. ASSUME NEW ble \in BOOLEAN, PollFails(l, ble, FALSE)
        PROVE  LockStep(l) /\ \E made \in SUBSET Call : Count(made)
    <2>1. PICK plan : plan = Planned(l, ble, FALSE)
      OBVIOUS
    <2>2. PICK failed \in plan :
              /\ Count({c \in plan : c <= failed})
              /\ Stamp(l, {c \in plan : c <= failed} \ {failed})
              /\ \E answer \in Answer :
                    StoreAnswer(l, {c \in plan : c <= failed} \ {failed}, answer)
              /\ known' = [known EXCEPT ![l] = @ /\ ~FALSE]
              /\ UNCHANGED <<sensed, present, blanks>>
      BY <1>3, <2>1 DEF PollFails
    <2>3. PICK made : made = {c \in plan : c <= failed}
      OBVIOUS
    <2>4. PICK b \in BOOLEAN : b = known[l]
      BY <1>1
    <2>5. known' = [known EXCEPT ![l] = b] /\ (known[l] => b)
      BY <1>1, <2>2, <2>4
    <2>6. SensorStep(l)
      <3>1. /\ sensed' = [sensed EXCEPT ![l] = sensed[l]]
            /\ present' = [present EXCEPT ![l] = present[l]]
        BY <1>1, <2>2
      <3>2. PICK from \in {probeFrom[l], now + Day + 1, Never} :
               probeFrom' = [probeFrom EXCEPT ![l] = from]
        <4>1. CASE UNCHANGED probeFrom
          <5>1. probeFrom' = [probeFrom EXCEPT ![l] = probeFrom[l]]
            BY <1>1, <4>1
          <5> QED BY <5>1
        <4>2. CASE \E from \in {now + Day + 1, Never} :
                      probeFrom' = [probeFrom EXCEPT ![l] = from]
          BY <4>2
        <4> QED BY <2>2, <4>1, <4>2 DEF StoreAnswer
      <3> QED BY <1>1, <3>1, <3>2 DEF SensorStep
    <2>7. LockStep(l)
      BY <1>1, <2>2, <2>5, <2>6, StepOfParts
    <2>8. made \in SUBSET Call /\ Count(made)
      BY <2>1, <2>2, <2>3, PlannedIs
    <2> QED BY <2>7, <2>8
  <1> QED BY <1>2, <1>3 DEF RefreshFails


-----------------------------------------------------------------------------
(* Freshness *)

\* Arithmetic that the provers need to be told.
LEMMA Monotone ==
    ASSUME NEW a \in Nat, NEW b \in Int, NEW c \in Int, b <= c
    PROVE  a * b <= a * c /\ a * b \in Int /\ a * (b + 1) = a * b + a
  <1>1. PICK d \in Nat : c = b + d
    <2>1. c - b \in Nat /\ c = b + (c - b)
      OBVIOUS
    <2> QED BY <2>1
  <1>2. a * c = a * b + a * d /\ a * d \in Nat /\ a * b \in Int
    BY <1>1
  <1>3. a * (b + 1) = a * b + a
    OBVIOUS
  <1> QED BY <1>2, <1>3

\* One time more.
LEMMA OneMore ==
    ASSUME NEW n \in Nat, NEW a \in Nat
    PROVE  (n + 1) * a = n * a + a /\ n * a \in Nat
  OBVIOUS

\* A step of a lock keeps its slow tier fresh if it stamps what is due, or if it is
\* a push or an extra.
LEMMA FreshStep ==
    ASSUME ScheduleTyped, FreshInv, NEW l \in Locks, LockStep(l),
           calls' \in [Source -> Nat], pushes' \in [Locks -> 0..MaxPushes],
           extras' \in 0..MaxExtras,
           extras <= extras', \A k \in Locks : pushes[k] <= pushes'[k],
           \/ pushes[l] + extras + 1 <= pushes'[l] + extras'
           \/ \A p \in Part :
                 (p # Gateways \/ l \in WithGateway) /\ SlowTierDue(fetched[l][p])
                     => fetched'[l][p] = now
    PROVE  FreshInv'
  <1>1. TypeOK /\ DueInv /\ StampInv /\ options \in Settings /\ ScheduleTyped' /\ options' = options
        /\ now' = now
    BY LockStepKeeps DEF ScheduleTyped, TypeOK, LockStep
  <1> SUFFICES ASSUME ~options.manual, NEW k \in Locks, NEW p \in Part,
                      p # Gateways \/ k \in WithGateway
               PROVE  due'[k] <= Since(fetched'[k][p]) + options.slow
                                   + options.poll * (1 + pushes'[k] + extras')
    BY <1>1 DEF FreshInv, Since
  <1>2. PICK poll \in Nat : poll = options.poll
    BY <1>1, OptionsTyped
  <1>3. PICK slow \in Nat : slow = options.slow
    BY <1>1, OptionsTyped
  <1>4. \A j \in Locks : pushes[j] \in Nat /\ pushes'[j] \in Nat /\ extras \in Nat /\ extras' \in Nat
    BY <1>1, BoundAssumption DEF TypeOK
  <1>5. PICK n \in Nat : n = 1 + pushes[k] + extras
    BY <1>4
  <1>6. PICK m \in Nat : m = 1 + pushes'[k] + extras'
    BY <1>4
  <1>7. n <= m /\ 1 <= m /\ 1 <= n
    BY <1>4, <1>5, <1>6
  <1>8. poll * n <= poll * m /\ poll * n \in Int /\ poll <= poll * m /\ poll * m \in Int
    <2>1. poll * n <= poll * m /\ poll * n \in Int
      BY <1>7, Monotone
    <2>2. poll * 1 <= poll * m /\ poll * m <= poll * m /\ poll * m \in Int /\ poll * 1 = poll
      BY <1>7, Monotone
    <2> QED BY <2>1, <2>2
  <1>9. now \in Nat /\ now # Never
    BY <1>1, NextPollIs
  <1>10. /\ Since(fetched[k][p]) \in Nat /\ Since(fetched'[k][p]) \in Nat
         /\ Since(fetched[k][p]) <= Since(fetched'[k][p])
    <2>1. fetched[k][p] \in Time /\ fetched'[k][p] \in Time /\ Past(fetched[k][p])
      BY <1>1 DEF ScheduleTyped, TypeOK, StampInv
    <2>2. fetched'[k][p] \in {fetched[k][p], now}
      BY <1>1 DEF LockStep, TypeOK
    <2> QED BY <1>9, <2>1, <2>2 DEF Since, Past, Time
  <1>11. due[k] <= Since(fetched[k][p]) + slow + poll * n
    BY <1>2, <1>3, <1>5 DEF FreshInv
  <1>12. due[k] \in Nat /\ due'[k] \in Nat /\ now <= due[k]
    BY <1>1 DEF DueInv, ScheduleTyped
  <1>13. CASE k # l
    <2>1. due'[k] = due[k]
      BY <1>1, <1>13 DEF LockStep, TypeOK
    <2> QED BY <1>2, <1>3, <1>6, <1>8, <1>10, <1>11, <1>12, <2>1
  <1>14. CASE k = l
    <2>1. due'[k] = now + poll
      BY <1>1, <1>2, <1>14, NextPollIs DEF LockStep, TypeOK
    <2>2. CASE pushes[l] + extras + 1 <= pushes'[l] + extras'
      <3>1. n + 1 <= m
        BY <1>4, <1>5, <1>6, <1>14, <2>2
      <3>2. poll * (n + 1) <= poll * m /\ poll * (n + 1) = poll * n + poll
        BY <3>1, <1>7, Monotone
      <3> QED BY <1>2, <1>3, <1>6, <1>8, <1>9, <1>10, <1>11, <1>12, <2>1, <3>2
    <2>3. CASE SlowTierDue(fetched[l][p]) => fetched'[l][p] = now
      <3>1. CASE fetched'[k][p] = now
        <4>1. Since(fetched'[k][p]) = now
          BY <1>9, <3>1 DEF Since
        <4> QED BY <1>2, <1>3, <1>6, <1>8, <1>9, <2>1, <4>1
      <3>2. CASE ~SlowTierDue(fetched[k][p])
        <4>1. Since(fetched[k][p]) = fetched[k][p] /\ ~(fetched[k][p] + options.slow <= now)
          BY <3>2 DEF Since, SlowTierDue
        <4>2. now <= Since(fetched[k][p]) + slow
          BY <1>3, <1>9, <1>10, <4>1
        <4> QED BY <1>2, <1>3, <1>6, <1>8, <1>9, <1>10, <2>1, <4>2
      <3> QED BY <1>14, <2>3, <3>1, <3>2
    <2> QED BY <1>14, <2>2, <2>3
  <1> QED BY <1>13, <1>14


-----------------------------------------------------------------------------
(* The calls that the schedule makes *)

\* The stamp that keeps call c of the slow tier from being repeated for lock l.
StampOf(l, c) == IF c = Passcodes THEN fetched[l][Ekeys] ELSE fetched[l][c]

\* n calls, the last of them when the stamp was set, are an interval apart.
Spaced(n, stamp, interval) ==
    /\ stamp = Never => n = 0
    /\ stamp # Never => (n - 1) * interval <= stamp

\* n queries of a door sensor that told something are a day apart, and so is the
\* next one: from when the level was read, or from the failure that is stored.
SensorSpaced(n, l) ==
    /\ (n - 1) * Day <= now
    /\ present[l] => sensed[l] # Never /\ (n - 1) * Day <= sensed[l]
    /\ ~present[l] => probeFrom[l] = Never \/ n * Day <= probeFrom[l] \/ n * Day <= now

\* Lock l makes call c n times without being asked to: once if there is no
\* schedule, or with confirmed webhooks only to learn the state.
Regular(n, l, c) ==
    IF options.manual THEN n <= 1 /\ (due[l] = 0 => n = 0)
    ELSE IF c = State
         THEN /\ n * options.poll <= due[l]
              /\ options.only /\ options.status => n <= 1 /\ (~known[l] => n = 0)
    ELSE IF c = DoorSensor THEN SensorSpaced(n, l)
    ELSE Spaced(n, StampOf(l, c), options.slow)

RegularInv(n) == \A l \in Locks, c \in Call : Regular(n[<<l, c>>], l, c)

\* The locks' calls of source s, each as often as n says.
CalledFor(s) ==
    {p \in Locks \X Call :
        /\ SourceOf(p[2]) = s
        /\ p[2] = Gateways => p[1] \in WithGateway
        /\ p[2] = DoorSensor => p[1] \in WithSensor}
Made(n, s) == {q \in CalledFor(s) \X Nat : q[2] < n[q[1]]}

LockSource == Source \ {"gateway_status"}

\* Of the others, each has an extra, or is a query of a sensor that told nothing.
Beyond(s) == extras * AtOnce[s] + (IF s = "door_sensor" THEN blanks ELSE 0)

LocksInv ==
    \E n \in [Locks \X Call -> Nat] :
        /\ RegularInv(n)
        /\ \A s \in LockSource : calls[s] <= Cardinality(Made(n, s)) + Beyond(s)

\* The gateways' list is one call at a time.
GatewayInv ==
    LET n == calls["gateway_status"] - extras
    IN  IF options.manual THEN n <= 1 /\ (gatewayDue = 0 => n <= 0)
        ELSE n * options.gateway <= gatewayDue

ScheduleInv == ScheduleTyped /\ FreshInv /\ LocksInv /\ GatewayInv

\* The stamps that gate the calls of the slow tier.
LEMMA CallIs ==
    ASSUME NEW c \in Call, c # DoorSensor, c # State
    PROVE  (IF c = Passcodes THEN Ekeys ELSE c) \in Part
  BY SourceOfIs DEF Part

\* They are times that have passed.
LEMMA StampOfTyped ==
    ASSUME ScheduleTyped, NEW l \in Locks, NEW c \in Call, c # State, c # DoorSensor
    PROVE  StampOf(l, c) \in Time /\ Past(StampOf(l, c))
  <1>1. TypeOK /\ StampInv
    BY DEF ScheduleTyped
  <1>2. PICK p \in Part : p = IF c = Passcodes THEN Ekeys ELSE c
    BY CallIs
  <1>3. StampOf(l, c) = fetched[l][p]
    BY <1>2 DEF StampOf
  <1> QED BY <1>1, <1>2, <1>3 DEF TypeOK, StampInv

\* A step only sets stamps to now, if at all.
LEMMA StampOfStep ==
    ASSUME ScheduleTyped, NEW l \in Locks, LockStep(l), NEW k \in Locks, NEW c \in Call,
           c # State, c # DoorSensor
    PROVE  /\ StampOf(k, c)' \in {StampOf(k, c), now}
           /\ k # l => StampOf(k, c)' = StampOf(k, c)
  <1>1. TypeOK
    BY DEF ScheduleTyped
  <1>2. PICK p \in Part : p = IF c = Passcodes THEN Ekeys ELSE c
    BY CallIs
  <1>3. StampOf(k, c) = fetched[k][p] /\ StampOf(k, c)' = fetched'[k][p]
    BY <1>2 DEF StampOf
  <1>4. /\ fetched'[k][p] \in {fetched[k][p], now}
        /\ k # l => fetched'[k][p] = fetched[k][p]
    BY <1>1, <1>2 DEF TypeOK, LockStep
  <1> QED BY <1>3, <1>4

\* Whether a query is due or not, n that are a day apart stay so ...
LEMMA SensorDueLater ==
    ASSUME ScheduleTyped, NEW l \in Locks, NEW n \in Nat, SensorSpaced(n, l), QueriesSensor(l)
    PROVE  n * Day <= now
  <1>1. /\ Day \in Nat /\ now \in Nat /\ sensed[l] \in Time /\ probeFrom[l] \in Time
        /\ Never \notin Nat
    BY NextPollIs, TimeAssumption DEF ScheduleTyped, TypeOK
  <1>2. n * Day \in Nat /\ (n - 1) * Day = n * Day - Day
    BY <1>1
  <1>3. CASE present[l]
    BY <1>1, <1>2, <1>3 DEF SensorSpaced, QueriesSensor, SensorDue, Time
  <1>4. CASE ~present[l]
    BY <1>1, <1>2, <1>4 DEF SensorSpaced, QueriesSensor, Time
  <1> QED BY <1>3, <1>4

\* ... whatever step of a lock follows.
LEMMA SensorLater ==
    ASSUME ScheduleTyped, NEW l \in Locks, LockStep(l), NEW k \in Locks, NEW n \in Nat,
           SensorSpaced(n, k)
    PROVE  SensorSpaced(n, k)'
  <1>1. /\ sensed \in [Locks -> Time] /\ present \in [Locks -> BOOLEAN]
        /\ probeFrom \in [Locks -> Time]
    BY DEF ScheduleTyped, TypeOK
  <1>2. Day \in Nat /\ now \in Nat /\ now' = now /\ Never \notin Nat
    BY NextPollIs, TimeAssumption DEF ScheduleTyped, LockStep
  <1>3. /\ n * Day \in Nat /\ (n - 1) * Day = n * Day - Day /\ (n - 1) * Day <= now
    BY <1>2 DEF SensorSpaced
  <1>4. PICK stamp \in {sensed[l], now}, is \in BOOLEAN,
             from \in {probeFrom[l], now + Day + 1, Never} :
          /\ sensed' = [sensed EXCEPT ![l] = stamp]
          /\ present' = [present EXCEPT ![l] = is]
          /\ probeFrom' = [probeFrom EXCEPT ![l] = from]
          /\ \/ stamp = sensed[l] /\ is = present[l]
             \/ stamp = now /\ is
             \/ ~is /\ (from \in {now + Day + 1, Never} \/ QueriesSensor(l))
    BY DEF LockStep, SensorStep
  <1>5. CASE k # l
    <2>1. sensed'[k] = sensed[k] /\ present'[k] = present[k] /\ probeFrom'[k] = probeFrom[k]
      BY <1>1, <1>4, <1>5
    <2> QED BY <1>2, <2>1 DEF SensorSpaced
  <1>6. CASE k = l
    <2>1. sensed'[l] = stamp /\ present'[l] = is /\ probeFrom'[l] = from
      BY <1>1, <1>4
    <2>2. is => stamp # Never /\ (n - 1) * Day <= stamp
      BY <1>2, <1>3, <1>4, <1>6 DEF SensorSpaced
    <2>3. from \in {now + Day + 1, Never} => from = Never \/ n * Day <= from
      BY <1>2, <1>3
    <2>4. ~is => from = Never \/ n * Day <= from \/ n * Day <= now
      <3>1. CASE from \in {now + Day + 1, Never}
        BY <2>3, <3>1
      <3>2. CASE from = probeFrom[l] /\ is = present[l]
        BY <1>6, <3>2 DEF SensorSpaced
      <3>3. CASE QueriesSensor(l)
        BY <1>6, <3>3, SensorDueLater
      <3> QED BY <1>4, <3>1, <3>2, <3>3
    <2> QED BY <1>2, <1>3, <1>6, <2>1, <2>2, <2>4 DEF SensorSpaced
  <1> QED BY <1>5, <1>6

\* A query that tells something is one more.
LEMMA SensorNext ==
    ASSUME ScheduleTyped, NEW l \in Locks, LockStep(l), NEW n \in Nat, SensorSpaced(n, l),
           QueriesSensor(l), sensed'[l] = now,
           present'[l] \/ probeFrom'[l] \in {now + Day + 1, Never}
    PROVE  SensorSpaced(n + 1, l)'
  <1>1. Day \in Nat /\ now \in Nat /\ now' = now /\ Never \notin Nat
    BY NextPollIs, TimeAssumption DEF ScheduleTyped, LockStep
  <1>2. n * Day <= now /\ n * Day \in Nat
    BY <1>1, SensorDueLater
  <1>3. (n + 1) * Day = n * Day + Day /\ ((n + 1) - 1) * Day = n * Day
    BY <1>1
  <1>4. ~present'[l] => probeFrom'[l] = Never \/ (n + 1) * Day <= probeFrom'[l]
    BY <1>1, <1>2, <1>3
  <1> QED BY <1>1, <1>2, <1>3, <1>4 DEF SensorSpaced

\* What was spaced out when it was stamped is so now.
LEMMA SpacedLater ==
    ASSUME NEW n \in Nat, NEW interval \in Nat \ {0}, NEW stamp \in Time, Past(stamp),
           now \in Nat, Spaced(n, stamp, interval)
    PROVE  Spaced(n, now, interval)
  <1>1. CASE stamp = Never
    <2>1. n = 0 /\ (n - 1) * interval <= 0
      BY <1>1 DEF Spaced
    <2> QED BY <2>1, TimeAssumption DEF Spaced
  <1>2. CASE stamp # Never
    <2>1. (n - 1) * interval \in Int /\ stamp \in Nat
      BY <1>2 DEF Time
    <2> QED BY <1>2, <2>1, TimeAssumption DEF Spaced, Past
  <1> QED BY <1>1, <1>2

\* What is regular stays so in a lock's step.
LEMMA RegularLater ==
    ASSUME ScheduleTyped, NEW l \in Locks, LockStep(l), NEW k \in Locks, NEW c \in Call,
           NEW n \in Nat, Regular(n, k, c)
    PROVE  Regular(n, k, c)'
  <1>1. TypeOK /\ DueInv /\ options \in Settings /\ options' = options
    BY DEF ScheduleTyped, TypeOK, LockStep
  <1>2. /\ options.poll \in Nat \ {0} /\ options.manual \in BOOLEAN /\ now \in Nat /\ now # Never
        /\ NextPoll # 0 /\ (~options.manual => NextPoll = now + options.poll)
    BY <1>1, OptionsTyped, NextPollIs
  <1>3. /\ due'[k] = IF k = l THEN NextPoll ELSE due[k]
        /\ known[k] => known'[k]
    BY <1>1 DEF LockStep, TypeOK
  <1>4. CASE options.manual
    BY <1>1, <1>2, <1>3, <1>4 DEF Regular
  <1>5. CASE ~options.manual /\ c = State
    <2>1. due[k] \in Nat /\ due[k] <= due'[k] /\ due'[k] \in Nat
      BY <1>1, <1>2, <1>3, <1>5 DEF DueInv
    <2>2. n * options.poll \in Nat
      BY <1>2
    <2>3. n * options.poll <= due'[k]
      BY <1>5, <2>1, <2>2 DEF Regular
    <2> QED BY <1>1, <1>3, <1>5, <2>3 DEF Regular
  <1>7. CASE ~options.manual /\ c = DoorSensor
    <2>1. c # State
      BY <1>7, SourceOfIs DEF State, DoorSensor
    <2>2. SensorSpaced(n, k)
      BY <1>7, <2>1 DEF Regular
    <2>3. SensorSpaced(n, k)'
      BY <2>2, SensorLater
    <2> QED BY <1>1, <1>7, <2>1, <2>3 DEF Regular
  <1>6. CASE ~options.manual /\ c # State /\ c # DoorSensor
    <2>1. Spaced(n, StampOf(k, c), options.slow) /\ options.slow \in Nat \ {0}
      BY <1>1, <1>6, OptionsTyped DEF Regular
    <2>2. StampOf(k, c) \in Time /\ Past(StampOf(k, c))
          /\ StampOf(k, c)' \in {StampOf(k, c), now}
      BY <1>6, StampOfTyped, StampOfStep
    <2>3. PICK old \in Time : old = StampOf(k, c)
      BY <2>2
    <2>4. PICK interval \in Nat \ {0} : interval = options.slow
      BY <2>1
    <2>5. Spaced(n, now, interval)
      BY <1>2, <2>1, <2>2, <2>3, <2>4, SpacedLater
    <2>6. PICK new : new = StampOf(k, c)'
      OBVIOUS
    <2>7. Spaced(n, new, interval)
      BY <2>1, <2>2, <2>3, <2>4, <2>5, <2>6
    <2>8. options'.slow = interval
      BY <1>1, <2>4
    <2>9. Spaced(n, StampOf(k, c), options.slow)'
      BY <2>6, <2>7, <2>8 DEF Spaced
    <2> QED BY <1>1, <1>6, <2>9 DEF Regular
  <1> QED BY <1>4, <1>5, <1>6, <1>7


\* A call of a slow tier that is due, and is stamped, is one more.
LEMMA SpacedNext ==
    ASSUME NEW n \in Nat, NEW interval \in Nat \ {0}, NEW stamp \in Time,
           now \in Nat, Spaced(n, stamp, interval), stamp = Never \/ stamp + interval <= now
    PROVE  Spaced(n + 1, now, interval)
  <1>1. CASE stamp = Never
    <2>1. n = 0 /\ ((n + 1) - 1) * interval = 0
      BY <1>1 DEF Spaced
    <2> QED BY <2>1, TimeAssumption DEF Spaced
  <1>2. CASE stamp # Never
    <2>1. stamp \in Nat /\ (n - 1) * interval <= stamp
      BY <1>2 DEF Time, Spaced
    <2>2. (n - 1) * interval \in Int /\ ((n + 1) - 1) * interval = (n - 1) * interval + interval
      OBVIOUS
    <2> QED BY <1>2, <2>1, <2>2, TimeAssumption DEF Spaced
  <1> QED BY <1>1, <1>2

\* Each call of a scheduled poll is the next of its kind, unless it told nothing.
LEMMA RegularNext ==
    ASSUME ScheduleTyped, NEW l \in Locks, LockStep(l), due[l] = now, NEW ble \in BOOLEAN,
           NEW made, made = Planned(l, ble, FALSE),
           Stamp(l, made), Told(l, made),
           State \in made => known' = [known EXCEPT ![l] = TRUE],
           NEW c \in made, c = DoorSensor => blanks' = blanks,
           NEW n \in Nat, Regular(n, l, c)
    PROVE  Regular(n + 1, l, c)'
  <1>1. TypeOK /\ DueInv /\ StampInv /\ options \in Settings /\ options' = options
    BY DEF ScheduleTyped, TypeOK, LockStep
  <1>2. /\ options.poll \in Nat \ {0} /\ options.manual \in BOOLEAN /\ now \in Nat /\ now # Never
        /\ NextPoll # 0 /\ (~options.manual => NextPoll = now + options.poll)
        /\ options.slow \in Nat \ {0} /\ Day \in Nat \ {0}
    BY <1>1, OptionsTyped, NextPollIs, TimeAssumption
  <1>3. due'[l] = NextPoll
    BY <1>1 DEF LockStep, TypeOK
  <1>4. c \in Call
    BY PlannedIs
  <1>5. CASE options.manual
    <2>1. n = 0
      BY <1>1, <1>2, <1>5 DEF DueInv, Regular
    <2> QED BY <1>1, <1>2, <1>3, <1>5, <2>1 DEF Regular
  <1>6. CASE ~options.manual /\ c = State
    <2>1. (n + 1) * options.poll <= due'[l]
      <3>1. n * options.poll <= now /\ n * options.poll \in Nat
        BY <1>2, <1>6 DEF Regular
      <3>2. (n + 1) * options.poll = n * options.poll + options.poll
        BY <1>2
      <3> QED BY <1>2, <1>3, <1>6, <3>1, <3>2
    <2>2. known'[l]
      BY <1>1, <1>6 DEF TypeOK
    <2>3. ASSUME options.only, options.status PROVE n = 0
      <3>1. ~known[l]
        BY <1>1, <1>6, <2>3, PlannedIs DEF ReadsState, WebhookOnlyActive, StampInv
      <3> QED BY <1>6, <2>3, <3>1 DEF Regular
    <2> QED BY <1>1, <1>6, <2>1, <2>2, <2>3 DEF Regular
  <1>8. CASE ~options.manual /\ c = DoorSensor
    <2>1. c # State /\ QueriesSensor(l)
      <3>1. c # State
        BY <1>8 DEF State, DoorSensor
      <3>2. DoorSensor \in Planned(l, ble, FALSE)
        BY <1>8
      <3> QED BY <3>1, <3>2, PlannedIs
    <2>2. /\ sensed'[l] = now
          /\ present'[l] \/ probeFrom'[l] \in {now + Day + 1, Never}
      BY <1>8 DEF Told
    <2>3. SensorSpaced(n, l)
      BY <1>8, <2>1 DEF Regular
    <2>4. SensorSpaced(n + 1, l)'
      BY <2>1, <2>2, <2>3, SensorNext
    <2> QED BY <1>1, <1>8, <2>1, <2>4 DEF Regular
  <1>7. CASE ~options.manual /\ c # State /\ c # DoorSensor
    <2>1. Spaced(n, StampOf(l, c), options.slow) /\ options.slow \in Nat \ {0}
      BY <1>2, <1>7 DEF Regular
    <2>2. PICK old \in Time : old = StampOf(l, c)
      BY <1>4, <1>7, StampOfTyped
    <2>3. PICK interval \in Nat \ {0} : interval = options.slow
      BY <2>1
    <2>4. (old = Never \/ old + interval <= now) /\ StampOf(l, c)' = now
      <3>2. CASE c # DoorSensor
        <4>1. PICK p \in Part : p = IF c = Passcodes THEN Ekeys ELSE c
          BY <1>4, <3>2, <1>7, CallIs
        <4>2. StampOf(l, c) = fetched[l][p] /\ StampOf(l, c)' = fetched'[l][p]
              /\ interval = options.slow
          BY <2>3, <3>2, <4>1 DEF StampOf
        <4>3. SlowTierDue(fetched[l][p]) /\ p \in made
          <5>1. CASE c = Passcodes
            <6>1. p = Ekeys
              BY <4>1, <5>1
            <6>2. SlowTierDue(fetched[l][Ekeys])
              BY <5>1, PlannedIs
            <6>3. Ekeys \in made
              BY <6>2, PlannedIs
            <6> QED BY <6>1, <6>2, <6>3
          <5>2. CASE c = Gateways
            <6>1. p = Gateways
              BY <4>1, <5>2 DEF Gateways, Passcodes
            <6>2. SlowTierDue(fetched[l][Gateways])
              BY <5>2, PlannedIs
            <6> QED BY <5>2, <6>1, <6>2
          <5>3. CASE c \in {Details, Passage, Ekeys}
            <6>1. p = c
              BY <4>1, <5>3 DEF Details, Passage, Ekeys, Passcodes
            <6>2. SlowTierDue(fetched[l][c])
              <7>1. CASE c = Details
                BY <7>1, PlannedIs
              <7>2. CASE c = Passage
                BY <7>2, PlannedIs
              <7>3. CASE c = Ekeys
                BY <7>3, PlannedIs
              <7> QED BY <5>3, <7>1, <7>2, <7>3
            <6> QED BY <6>1, <6>2
          <5> QED BY <1>4, <1>7, <3>2, <5>1, <5>2, <5>3, SourceOfIs
        <4>4. fetched'[l][p] = now
          BY <1>1, <4>1, <4>3 DEF Stamp, TypeOK
        <4> QED BY <2>2, <4>2, <4>3, <4>4 DEF SlowTierDue
      <3> QED BY <1>7, <3>2
    <2>5. Spaced(n + 1, now, interval)
      BY <1>2, <2>1, <2>2, <2>3, <2>4, SpacedNext
    <2>6. options'.slow = interval
      BY <1>1, <2>3
    <2>7. Spaced(n + 1, StampOf(l, c), options.slow)'
      BY <2>4, <2>5, <2>6 DEF Spaced
    <2> QED BY <1>1, <1>7, <2>7 DEF Regular
  <1> QED BY <1>5, <1>6, <1>7, <1>8

-----------------------------------------------------------------------------
(* Counting *)

\* A source's interval is positive.
LEMMA EveryTyped ==
    ASSUME TypeOK, NEW s \in Source, Every[s] # Never
    PROVE  Every[s] \in Nat \ {0}
  <1>1. options \in Settings /\ Day \in Nat \ {0}
    BY TimeAssumption DEF TypeOK
  <1> QED BY <1>1, OptionsTyped DEF Every, StateEvery, SlowEvery, Source

\* No more than one an interval.
LEMMA RegularBound ==
    ASSUME ScheduleTyped, NEW l \in Locks, NEW c \in Call, NEW n \in Nat, Regular(n, l, c),
           NEW s \in LockSource, SourceOf(c) = s
    PROVE  /\ Every[s] = Never => n <= 1
           /\ Every[s] # Never => Every[s] \in Nat \ {0} /\ (n - 1) * Every[s] <= now
  <1>1. TypeOK /\ DueInv /\ StampInv /\ options \in Settings
    BY DEF ScheduleTyped, TypeOK
  <1>2. /\ options.poll \in Nat \ {0} /\ options.manual \in BOOLEAN /\ now \in Nat
        /\ options.slow \in Nat \ {0} /\ Day \in Nat \ {0} /\ Never \notin Nat
        /\ options.only \in BOOLEAN /\ options.status \in BOOLEAN
    BY <1>1, OptionsTyped, NextPollIs, TimeAssumption
  <1>3. Every[s] = IF options.manual THEN Never
                   ELSE IF c = State THEN IF options.only /\ options.status THEN Never
                                          ELSE options.poll
                   ELSE IF c = DoorSensor THEN Day ELSE options.slow
    <2>1. CASE c = State
      BY <1>2, <2>1, SourceOfIs DEF Every, StateEvery
    <2>2. CASE c = DoorSensor
      BY <2>2, SourceOfIs DEF Every, State, DoorSensor
    <2>3. CASE c \in {Details, Passage, Gateways}
      BY <2>3, SourceOfIs DEF Every, SlowEvery, State, DoorSensor, Details, Passage, Gateways
    <2>4. CASE c \in {Passcodes, Ekeys}
      BY <2>4, SourceOfIs DEF Every, SlowEvery, State, DoorSensor, Passcodes, Ekeys
    <2> QED BY <2>1, <2>2, <2>3, <2>4, SourceOfIs
  <1>4. CASE options.manual
    BY <1>3, <1>4 DEF Regular
  <1>5. CASE ~options.manual /\ c = State
    <2>1. n * options.poll <= due[l] /\ due[l] \in Nat /\ due[l] <= now + options.poll
      BY <1>1, <1>5 DEF Regular, DueInv
    <2>2. n * options.poll \in Nat /\ (n - 1) * options.poll = n * options.poll - options.poll
      BY <1>2
    <2>3. (n - 1) * options.poll <= now
      BY <1>2, <2>1, <2>2
    <2> QED BY <1>2, <1>3, <1>5, <2>3 DEF Regular
  <1>7. CASE ~options.manual /\ c = DoorSensor
    <2>1. c # State
      BY <1>7 DEF State, DoorSensor
    <2>2. (n - 1) * Day <= now
      BY <1>7, <2>1 DEF Regular, SensorSpaced
    <2> QED BY <1>2, <1>3, <1>7, <2>1, <2>2
  <1>6. CASE ~options.manual /\ c # State /\ c # DoorSensor
    <2>1. PICK interval \in Nat \ {0} : interval = options.slow
      BY <1>2
    <2>2. Spaced(n, now, interval)
      <3>1. PICK stamp \in Time : stamp = StampOf(l, c) /\ Past(stamp)
        BY <1>6, StampOfTyped
      <3>2. Spaced(n, stamp, interval)
        BY <1>6, <2>1, <3>1 DEF Regular
      <3> QED BY <1>2, <3>1, <3>2, SpacedLater
    <2>3. (n - 1) * interval <= now
      BY <1>2, <2>2 DEF Spaced
    <2> QED BY <1>2, <1>3, <1>6, <2>1, <2>3
  <1> QED BY <1>4, <1>5, <1>6, <1>7

\* There are as many calls of a source as the estimate says.
LEMMA CalledForSize ==
    ASSUME NEW s \in LockSource
    PROVE  IsFiniteSet(CalledFor(s)) /\ Cardinality(CalledFor(s)) = AtATime[s]
  <1>1. /\ IsFiniteSet(Locks) /\ IsFiniteSet(WithGateway) /\ IsFiniteSet(WithSensor)
        /\ WithGateway \subseteq Locks /\ WithSensor \subseteq Locks
    BY LockAssumption, FS_Subset
  <1>2. /\ Cardinality(Locks) \in Nat /\ Cardinality(WithGateway) \in Nat
        /\ Cardinality(WithSensor) \in Nat
    BY <1>1, FS_CardinalityType
  <1>3. ASSUME NEW S, IsFiniteSet(S), NEW c
        PROVE  IsFiniteSet(S \X {c}) /\ Cardinality(S \X {c}) = Cardinality(S)
    <2>1. IsFiniteSet({c}) /\ Cardinality({c}) = 1 /\ Cardinality(S) \in Nat
      BY <1>3, FS_Singleton, FS_CardinalityType
    <2>2. IsFiniteSet(S \X {c}) /\ Cardinality(S \X {c}) = Cardinality(S) * Cardinality({c})
      BY <1>3, <2>1, FS_Product
    <2> QED BY <2>1, <2>2
  <1>4. ASSUME NEW S, NEW T, IsFiniteSet(S), IsFiniteSet(T), S \cap T = {}
        PROVE  IsFiniteSet(S \cup T) /\ Cardinality(S \cup T) = Cardinality(S) + Cardinality(T)
    <2>1. Cardinality(S) \in Nat /\ Cardinality(T) \in Nat /\ Cardinality(S \cap T) = 0
      BY <1>4, FS_CardinalityType, FS_EmptySet
    <2>2. /\ IsFiniteSet(S \cup T)
          /\ Cardinality(S \cup T) = Cardinality(S) + Cardinality(T) - Cardinality(S \cap T)
      BY <1>4, FS_Union
    <2> QED BY <2>1, <2>2
  <1>5. CASE s = "lock_state"
    <2>1. CalledFor(s) = Locks \X {State}
      BY <1>5, SourceOfIs DEF CalledFor, State, Gateways, DoorSensor
    <2>2. AtATime[s] = Cardinality(Locks)
      BY <1>5 DEF AtATime
    <2>3. IsFiniteSet(Locks \X {State}) /\ Cardinality(Locks \X {State}) = Cardinality(Locks)
      BY <1>1, <1>3
    <2> QED BY <2>1, <2>2, <2>3
  <1>6. CASE s = "door_sensor"
    <2>1. CalledFor(s) = WithSensor \X {DoorSensor}
      BY <1>1, <1>6, SourceOfIs DEF CalledFor, Gateways, DoorSensor
    <2>2. AtATime[s] = Cardinality(WithSensor)
      BY <1>6 DEF AtATime
    <2>3. /\ IsFiniteSet(WithSensor \X {DoorSensor})
          /\ Cardinality(WithSensor \X {DoorSensor}) = Cardinality(WithSensor)
      BY <1>1, <1>3
    <2> QED BY <2>1, <2>2, <2>3
  <1>7. CASE s = "credentials"
    <2>1. PICK A, B : A = Locks \X {Passcodes} /\ B = Locks \X {Ekeys}
      OBVIOUS
    <2>2. CalledFor(s) = A \cup B
      BY <1>7, <2>1, SourceOfIs DEF CalledFor, Gateways, DoorSensor, Passcodes, Ekeys
    <2>3. A \cap B = {}
      BY <2>1 DEF Passcodes, Ekeys
    <2>4. /\ IsFiniteSet(A) /\ Cardinality(A) = Cardinality(Locks)
          /\ IsFiniteSet(B) /\ Cardinality(B) = Cardinality(Locks)
      BY <1>1, <1>3, <2>1
    <2>5. IsFiniteSet(A \cup B) /\ Cardinality(A \cup B) = Cardinality(A) + Cardinality(B)
      BY <1>4, <2>3, <2>4
    <2>6. AtATime[s] = 2 * Cardinality(Locks)
      BY <1>7 DEF AtATime
    <2> QED BY <1>2, <2>2, <2>4, <2>5, <2>6
  <1>8. CASE s = "lock_detail"
    <2>1. PICK A, B, C : /\ A = Locks \X {Details} /\ B = Locks \X {Passage}
                         /\ C = WithGateway \X {Gateways}
      OBVIOUS
    <2>2. CalledFor(s) = (A \cup B) \cup C
      BY <1>1, <1>8, <2>1, SourceOfIs DEF CalledFor, Gateways, DoorSensor, Details, Passage
    <2>3. A \cap B = {} /\ (A \cup B) \cap C = {}
      BY <2>1 DEF Details, Passage, Gateways
    <2>4. /\ IsFiniteSet(A) /\ Cardinality(A) = Cardinality(Locks)
          /\ IsFiniteSet(B) /\ Cardinality(B) = Cardinality(Locks)
          /\ IsFiniteSet(C) /\ Cardinality(C) = Cardinality(WithGateway)
      BY <1>1, <1>3, <2>1
    <2>5. IsFiniteSet(A \cup B) /\ Cardinality(A \cup B) = Cardinality(A) + Cardinality(B)
      BY <1>4, <2>3, <2>4
    <2>6. /\ IsFiniteSet((A \cup B) \cup C)
          /\ Cardinality((A \cup B) \cup C) = Cardinality(A \cup B) + Cardinality(C)
      BY <1>4, <2>3, <2>4, <2>5
    <2>7. AtATime[s] = 2 * Cardinality(Locks) + Cardinality(WithGateway)
      BY <1>8 DEF AtATime
    <2> QED BY <1>2, <2>2, <2>4, <2>5, <2>6, <2>7
  <1> QED BY <1>5, <1>6, <1>7, <1>8 DEF LockSource, Source

Counts == [Locks \X Call -> Nat]

\* If no call was made more often than b times, b times what is made at a time.
LEMMA MadeBound ==
    ASSUME NEW n \in Counts, NEW s \in LockSource, NEW b \in Nat,
           \A p \in CalledFor(s) : n[p] <= b
    PROVE  /\ IsFiniteSet(Made(n, s)) /\ Cardinality(Made(n, s)) \in Nat
           /\ AtATime[s] \in Nat
           /\ Cardinality(Made(n, s)) <= AtATime[s] * b
  <1>1. PICK A : A = CalledFor(s)
    OBVIOUS
  <1>2. PICK B : B = 0..(b - 1)
    OBVIOUS
  <1>3. IsFiniteSet(A) /\ Cardinality(A) = AtATime[s] /\ Cardinality(A) \in Nat
    BY <1>1, CalledForSize, FS_CardinalityType
  <1>4. IsFiniteSet(B) /\ Cardinality(B) = b
    <2>1. 0 \in Int /\ b - 1 \in Int
      OBVIOUS
    <2>2. IsFiniteSet(B) /\ Cardinality(B) = IF 0 > b - 1 THEN 0 ELSE (b - 1) - 0 + 1
      BY <1>2, <2>1, FS_Interval
    <2> QED BY <2>2
  <1>5. IsFiniteSet(A \X B) /\ Cardinality(A \X B) = Cardinality(A) * Cardinality(B)
    BY <1>3, <1>4, FS_Product
  <1>6. Made(n, s) \subseteq A \X B
    <2>1. ASSUME NEW q \in Made(n, s) PROVE q \in A \X B
      <3>1. q \in A \X Nat /\ q[2] < n[q[1]]
        BY <1>1, <2>1 DEF Made
      <3>2. PICK p \in A, k \in Nat : q = <<p, k>> /\ k < n[p]
        BY <3>1
      <3>3. p \in Locks \X Call /\ n[p] \in Nat /\ n[p] <= b
        BY <1>1, <3>2 DEF CalledFor, Counts
      <3>4. k \in B
        BY <1>2, <3>2, <3>3
      <3> QED BY <3>2, <3>4
    <2> QED BY <2>1
  <1>7. IsFiniteSet(Made(n, s)) /\ Cardinality(Made(n, s)) <= Cardinality(A \X B)
    BY <1>5, <1>6, FS_Subset
  <1> QED BY <1>3, <1>4, <1>5, <1>7, FS_CardinalityType

\* A scheduled poll makes one call more of each that it makes.
LEMMA MadeMore ==
    ASSUME NEW n \in Counts, NEW s \in LockSource, IsFiniteSet(Made(n, s)),
           NEW l \in Locks, NEW made \in SUBSET Call,
           Gateways \in made => l \in WithGateway,
           DoorSensor \in made => l \in WithSensor,
           NEW m \in Counts,
           \A p \in Locks \X Call : m[p] = IF p[1] = l /\ p[2] \in made THEN n[p] + 1 ELSE n[p]
    PROVE  Cardinality(Made(m, s)) = Cardinality(Made(n, s)) + Cardinality(Of(made, s))
  <1> DEFINE call(c) == <<<<l, c>>, n[<<l, c>>]>>
  <1> DEFINE New == {call(c) : c \in Of(made, s)}
  <1>1. \A p \in Locks \X Call : n[p] \in Nat
    BY DEF Counts
  <1>2. Of(made, s) \subseteq Call /\ \A c \in Of(made, s) : <<l, c>> \in CalledFor(s)
    BY DEF Of, CalledFor
  <1>3. New \subseteq Made(m, s)
    <2>1. ASSUME NEW c \in Of(made, s) PROVE call(c) \in Made(m, s)
      <3>1. <<l, c>> \in CalledFor(s) /\ <<l, c>> \in Locks \X Call /\ c \in made
        BY <1>2 DEF CalledFor, Of
      <3>2. m[<<l, c>>] = n[<<l, c>>] + 1 /\ n[<<l, c>>] \in Nat
        BY <1>1, <3>1
      <3> QED BY <3>1, <3>2 DEF Made
    <2> QED BY <2>1
  <1>4. Made(n, s) \subseteq Made(m, s)
    <2>1. ASSUME NEW q \in Made(n, s) PROVE q \in Made(m, s)
      <3>1. PICK p \in CalledFor(s), k \in Nat : q = <<p, k>> /\ k < n[p]
        BY <2>1 DEF Made
      <3>2. p \in Locks \X Call
        BY <3>1 DEF CalledFor
      <3>3. n[p] \in Nat /\ (m[p] = n[p] + 1 \/ m[p] = n[p])
        BY <1>1, <3>2
      <3> QED BY <3>1, <3>3 DEF Made
    <2> QED BY <2>1
  <1>5. Made(m, s) \subseteq Made(n, s) \cup New
    <2>1. ASSUME NEW q \in Made(m, s), q \notin Made(n, s) PROVE q \in New
      <3>1. PICK p \in CalledFor(s), k \in Nat : q = <<p, k>> /\ k < m[p]
        BY <2>1 DEF Made
      <3>2. p \in Locks \X Call /\ SourceOf(p[2]) = s
        BY <3>1 DEF CalledFor
      <3>3. ~(k < n[p]) /\ n[p] \in Nat
        BY <1>1, <2>1, <3>1, <3>2 DEF Made
      <3>4. p[1] = l /\ p[2] \in made /\ k = n[p]
        BY <3>1, <3>2, <3>3
      <3>5. PICK c \in Of(made, s) : p = <<l, c>>
        BY <3>2, <3>4 DEF Of
      <3> QED BY <3>1, <3>4, <3>5
    <2> QED BY <2>1
  <1>6. Made(n, s) \cap New = {}
    <2>1. ASSUME NEW c \in Of(made, s) PROVE call(c) \notin Made(n, s)
      <3>1. n[<<l, c>>] \in Nat
        BY <1>1, <1>2
      <3> QED BY <3>1 DEF Made
    <2> QED BY <2>1
  <1>7. IsFiniteSet(New) /\ Cardinality(New) = Cardinality(Of(made, s))
    <2>1. PICK f : f = [c \in Of(made, s) |-> call(c)]
      OBVIOUS
    <2>2. f \in Bijection(Of(made, s), New)
      BY <2>1 DEF Bijection, Injection, Surjection, IsInjective
    <2> QED BY <2>2, AtOnceBounds, FS_Bijection DEF ExistsBijection, LockSource
  <1> HIDE DEF New
  <1>8. Made(m, s) = Made(n, s) \cup New
    BY <1>3, <1>4, <1>5
  <1>9. /\ Cardinality(Made(n, s) \cup New)
              = Cardinality(Made(n, s)) + Cardinality(New) - Cardinality(Made(n, s) \cap New)
    BY <1>7, FS_Union
  <1>10. /\ Cardinality(Made(n, s)) \in Nat /\ Cardinality(New) \in Nat
         /\ Cardinality(Made(n, s) \cap New) = 0
    BY <1>6, <1>7, FS_CardinalityType, FS_EmptySet
  <1> QED BY <1>7, <1>8, <1>9, <1>10

\* Regular calls are bounded.
LEMMA RegularFinite ==
    ASSUME ScheduleTyped, NEW n \in Counts, RegularInv(n), NEW s \in LockSource
    PROVE  IsFiniteSet(Made(n, s)) /\ Cardinality(Made(n, s)) \in Nat
  <1>1. now \in Nat
    BY NextPollIs DEF ScheduleTyped
  <1>2. ASSUME NEW p \in CalledFor(s) PROVE n[p] <= now + 1
    <2>1. PICK l \in Locks, c \in Call : p = <<l, c>>
      BY DEF CalledFor
    <2>2. SourceOf(c) = s
      BY <2>1 DEF CalledFor
    <2>3. PICK k \in Nat : k = n[p]
      BY <2>1 DEF Counts
    <2>4. Regular(k, l, c)
      BY <2>1, <2>3 DEF RegularInv
    <2>5. CASE Every[s] = Never
      BY <1>1, <2>2, <2>3, <2>4, <2>5, RegularBound
    <2>6. CASE Every[s] # Never
      <3>1. PICK every \in Nat \ {0} : every = Every[s]
        BY <2>2, <2>4, <2>6, RegularBound
      <3>2. (k - 1) * every <= now
        BY <2>2, <2>4, <2>6, <3>1, RegularBound
      <3>3. CASE k = 0
        BY <1>1, <2>3, <3>3
      <3>4. CASE k > 0
        <4>1. k - 1 \in Nat /\ 1 <= every
          BY <3>4
        <4>2. (k - 1) * 1 <= (k - 1) * every
          BY <4>1, Monotone
        <4> QED BY <1>1, <2>3, <3>2, <4>2
      <3> QED BY <3>3, <3>4
    <2> QED BY <2>5, <2>6
  <1>3. now + 1 \in Nat
    BY <1>1
  <1> QED BY <1>2, <1>3, MadeBound


-----------------------------------------------------------------------------
(* Steps of locks *)

\* The counts are naturals.
LEMMA CountTyped ==
    ASSUME TypeOK
    PROVE  /\ extras \in Nat /\ \A k \in Locks : pushes[k] \in Nat
           /\ \A s \in Source : calls[s] \in Nat /\ AtOnce[s] \in Nat
           /\ blanks \in Nat
  BY BoundAssumption DEF TypeOK, AtOnce, Source

\* What is allowed beyond the schedule only grows, and by what it is for.
LEMMA BeyondLater ==
    ASSUME TypeOK, extras' \in {extras, extras + 1}, blanks' \in {blanks, blanks + 1},
           NEW s \in Source
    PROVE  /\ Beyond(s) \in Nat /\ Beyond(s)' \in Nat /\ Beyond(s) <= Beyond(s)'
           /\ extras' = extras + 1 => Beyond(s) + AtOnce[s] <= Beyond(s)'
           /\ blanks' = blanks + 1 /\ s = "door_sensor" => Beyond(s) + 1 <= Beyond(s)'
  <1>1. PICK x \in Nat, b \in Nat, a \in Nat : x = extras /\ b = blanks /\ a = AtOnce[s]
    BY CountTyped
  <1>2. PICK y \in {x, x + 1}, c \in {b, b + 1} : y = extras' /\ c = blanks'
    BY <1>1
  <1>3. (x + 1) * a = x * a + a /\ x * a \in Nat
    BY OneMore
  <1>4. y * a \in Nat /\ x * a <= y * a /\ (y = x + 1 => y * a = x * a + a)
    BY <1>3
  <1>5. PICK u \in Nat, v \in Nat :
            /\ u = (IF s = "door_sensor" THEN b ELSE 0)
            /\ v = (IF s = "door_sensor" THEN c ELSE 0)
    BY <1>2
  <1>6. u <= v /\ (c = b + 1 /\ s = "door_sensor" => v = u + 1)
    BY <1>2, <1>5
  <1>7. PICK p \in Nat, q \in Nat : p = x * a /\ q = y * a
    BY <1>3, <1>4
  <1>8. Beyond(s) = p + u /\ Beyond(s)' = q + v
    BY <1>1, <1>2, <1>5, <1>7 DEF Beyond
  <1> QED BY <1>1, <1>2, <1>4, <1>6, <1>7, <1>8

\* Without either it is what it was.
LEMMA BeyondIs ==
    ASSUME UNCHANGED <<extras, blanks>>
    PROVE  \A s \in Source : Beyond(s)' = Beyond(s)
  BY DEF Beyond

\* A step of any lock leaves the calls that all locks have made regular.
LEMMA RegularInvLater ==
    ASSUME ScheduleTyped, NEW l \in Locks, LockStep(l), NEW n \in Counts, RegularInv(n)
    PROVE  RegularInv(n)'
  <1>1. ASSUME NEW k \in Locks, NEW c \in Call PROVE Regular(n[<<k, c>>], k, c)'
    <2>1. PICK i \in Nat : i = n[<<k, c>>]
      BY DEF Counts
    <2>2. Regular(i, k, c)
      BY <2>1 DEF RegularInv
    <2>3. Regular(i, k, c)'
      BY <2>2, RegularLater
    <2> QED BY <2>1, <2>3
  <1> QED BY <1>1 DEF RegularInv

\* A count that does for the next state.
LEMMA LocksInvAfter ==
    ASSUME NEW m \in Counts, RegularInv(m)',
           \A s \in LockSource : calls'[s] <= Cardinality(Made(m, s)) + Beyond(s)'
    PROVE  LocksInv'
  <1>1. \A s \in LockSource : (calls[s] <= Cardinality(Made(m, s)) + Beyond(s))'
    BY DEF Made
  <1> QED BY <1>1 DEF LocksInv, Counts

\* A step that the user asked for, or in which a call fails, may make any calls.
LEMMA ExtraKeepsLocks ==
    ASSUME ScheduleTyped, LocksInv, NEW l \in Locks, LockStep(l), extras' = extras + 1,
           calls' = calls \/ \E made \in SUBSET Call : Count(made)
    PROVE  LocksInv'
  <1>1. TypeOK
    BY DEF ScheduleTyped
  <1>2. PICK n \in Counts :
            /\ RegularInv(n)
            /\ \A s \in LockSource : calls[s] <= Cardinality(Made(n, s)) + Beyond(s)
    BY DEF LocksInv, Counts
  <1>3. RegularInv(n)'
    BY <1>2, RegularInvLater
  <1>4. ASSUME NEW s \in LockSource
        PROVE  calls'[s] <= Cardinality(Made(n, s)) + Beyond(s)'
    <2>1. s \in Source
      BY DEF LockSource
    <2>2. Cardinality(Made(n, s)) \in Nat /\ calls[s] \in Nat /\ AtOnce[s] \in Nat
      BY <1>1, <1>2, <2>1, RegularFinite, CountTyped
    <2>3. calls'[s] \in Nat /\ calls'[s] <= calls[s] + AtOnce[s]
      <3>1. CASE calls' = calls
        BY <2>2, <3>1
      <3>2. ASSUME NEW made \in SUBSET Call, Count(made)
            PROVE  calls'[s] \in Nat /\ calls'[s] <= calls[s] + AtOnce[s]
        <4>1. calls'[s] = calls[s] + Cardinality(Of(made, s))
          BY <1>1, <2>1, <3>2, CountIs
        <4>2. Cardinality(Of(made, s)) \in Nat /\ Cardinality(Of(made, s)) <= AtOnce[s]
          BY <2>1, AtOnceBounds
        <4> QED BY <2>2, <4>1, <4>2
      <3> QED BY <3>1, <3>2
    <2>4. Beyond(s) \in Nat /\ Beyond(s)' \in Nat /\ Beyond(s) + AtOnce[s] <= Beyond(s)'
      BY <1>1, <2>1, BeyondLater DEF LockStep
    <2>5. calls[s] <= Cardinality(Made(n, s)) + Beyond(s)
      BY <1>2
    <2> QED BY <2>2, <2>3, <2>4, <2>5
  <1> QED BY <1>3, <1>4, LocksInvAfter

\* A push makes none.
LEMMA PushKeepsLocks ==
    ASSUME ScheduleTyped, LocksInv, NEW l \in Locks, LockStep(l),
           UNCHANGED <<calls, extras, blanks>>
    PROVE  LocksInv'
  <1>1. PICK n \in Counts :
            /\ RegularInv(n)
            /\ \A s \in LockSource : calls[s] <= Cardinality(Made(n, s)) + Beyond(s)
    BY DEF LocksInv, Counts
  <1>2. RegularInv(n)'
    BY <1>1, RegularInvLater
  <1>3. \A s \in LockSource : Beyond(s)' = Beyond(s)
    BY BeyondIs DEF LockSource
  <1> QED BY <1>1, <1>2, <1>3, LocksInvAfter

\* A scheduled poll makes those that are due.
LEMMA PollKeepsLocks ==
    ASSUME ScheduleTyped, LocksInv, NEW l \in Locks, due[l] = now, Refresh(l, FALSE),
           extras' = extras
    PROVE  LocksInv'
  <1>1. TypeOK
    BY DEF ScheduleTyped
  <1>2. LockStep(l)
    BY <1>1, RefreshIs
  <1>3. PICK ble, made :
            /\ ble \in BOOLEAN /\ made = Planned(l, ble, FALSE)
            /\ Count(made) /\ Stamp(l, made) /\ Told(l, made)
            /\ State \in made => known' = [known EXCEPT ![l] = TRUE]
    BY <1>1, RefreshIs
  <1>4. /\ made \in SUBSET Call
        /\ Gateways \in made => l \in WithGateway
        /\ DoorSensor \in made => l \in WithSensor
    BY <1>3, PlannedIs
  \* A query of the sensor that told nothing is not counted as regular.
  <1> DEFINE counted == IF blanks' = blanks THEN made ELSE made \ {DoorSensor}
  <1>5. PICK n \in Counts :
            /\ RegularInv(n)
            /\ \A s \in LockSource : calls[s] <= Cardinality(Made(n, s)) + Beyond(s)
    BY DEF LocksInv, Counts
  <1>6. PICK m \in Counts : \A p \in Locks \X Call :
            m[p] = IF p[1] = l /\ p[2] \in counted THEN n[p] + 1 ELSE n[p]
    <2> DEFINE f == [p \in Locks \X Call |->
                        IF p[1] = l /\ p[2] \in counted THEN n[p] + 1 ELSE n[p]]
    <2>1. \A p \in Locks \X Call : n[p] \in Nat /\ n[p] + 1 \in Nat
      BY DEF Counts
    <2>2. f \in Counts
      BY <2>1 DEF Counts
    <2> HIDE DEF counted
    <2> QED BY <2>2
  <1>7. RegularInv(m)'
    <2>1. ASSUME NEW k \in Locks, NEW c \in Call PROVE Regular(m[<<k, c>>], k, c)'
      <3>1. PICK i \in Nat : i = n[<<k, c>>]
        BY DEF Counts
      <3>2. Regular(i, k, c)
        BY <1>5, <3>1 DEF RegularInv
      <3>3. CASE k = l /\ c \in counted
        <4>1. m[<<k, c>>] = i + 1
          BY <1>6, <3>1, <3>3
        <4>2. Regular(i, l, c)
          BY <3>2, <3>3
        <4>3. c \in made /\ (c = DoorSensor => blanks' = blanks)
          BY <3>3
        <4>4. Regular(i + 1, l, c)'
          BY <1>2, <1>3, <4>2, <4>3, RegularNext
        <4> QED BY <3>3, <4>1, <4>4
      <3>4. CASE ~(k = l /\ c \in counted)
        <4>1. m[<<k, c>>] = i
          BY <1>6, <3>1, <3>4
        <4>2. Regular(i, k, c)'
          BY <1>2, <3>2, RegularLater
        <4> QED BY <4>1, <4>2
      <3> QED BY <3>3, <3>4
    <2> QED BY <2>1 DEF RegularInv
  <1>8. ASSUME NEW s \in LockSource
        PROVE  calls'[s] <= Cardinality(Made(m, s)) + Beyond(s)'
    <2>1. s \in Source
      BY DEF LockSource
    <2>2. /\ IsFiniteSet(Made(n, s)) /\ Cardinality(Made(n, s)) \in Nat /\ calls[s] \in Nat
      BY <1>1, <1>5, <2>1, RegularFinite, CountTyped
    <2>3. /\ calls'[s] = calls[s] + Cardinality(Of(made, s))
          /\ Cardinality(Of(made, s)) \in Nat /\ Cardinality(Of(counted, s)) \in Nat
      BY <1>1, <1>3, <1>4, <2>1, CountIs, AtOnceBounds
    <2>4. Cardinality(Made(m, s)) = Cardinality(Made(n, s)) + Cardinality(Of(counted, s))
      BY <1>4, <1>6, <2>2, MadeMore
    <2>5. /\ Beyond(s) \in Nat /\ Beyond(s)' \in Nat /\ Beyond(s) <= Beyond(s)'
          /\ blanks' = blanks + 1 /\ s = "door_sensor" => Beyond(s) + 1 <= Beyond(s)'
      BY <1>1, <1>2, <2>1, BeyondLater DEF LockStep
    <2>6. \/ Of(counted, s) = Of(made, s)
          \/ /\ blanks' = blanks + 1 /\ s = "door_sensor"
             /\ Cardinality(Of(made, s)) <= 1
      <3>1. CASE blanks' = blanks
        BY <3>1
      <3>2. CASE blanks' # blanks /\ s = "door_sensor"
        BY <1>2, <1>4, <2>1, <3>2, AtOnceBounds DEF LockStep, AtOnce
      <3>3. CASE s # "door_sensor"
        BY <3>3, SourceOfIs DEF Of
      <3> QED BY <3>1, <3>2, <3>3
    <2> HIDE DEF counted
    <2> QED BY <1>5, <2>2, <2>3, <2>4, <2>5, <2>6
  <1> QED BY <1>7, <1>8, LocksInvAfter

\* Steps of others leave the locks' calls alone.
LEMMA OthersKeepLocks ==
    ASSUME ScheduleTyped, LocksInv, UNCHANGED <<options, lockVars>>, now' \in {now, now + 1},
           extras' \in {extras, extras + 1}, \A s \in LockSource : calls'[s] = calls[s]
    PROVE  LocksInv'
  <1>1. TypeOK /\ now \in Nat /\ Day \in Nat
    BY NextPollIs, TimeAssumption DEF ScheduleTyped
  <1>2. PICK n \in Counts :
            /\ RegularInv(n)
            /\ \A s \in LockSource : calls[s] <= Cardinality(Made(n, s)) + Beyond(s)
    BY DEF LocksInv, Counts
  <1>3. RegularInv(n)'
    <2>1. ASSUME NEW k \in Locks, NEW c \in Call PROVE Regular(n[<<k, c>>], k, c)'
      <3>1. PICK i \in Nat : i = n[<<k, c>>]
        BY DEF Counts
      <3>2. Regular(i, k, c)
        BY <1>2, <3>1 DEF RegularInv
      <3>3. StampOf(k, c)' = StampOf(k, c)
        BY DEF StampOf, lockVars
      <3>4. SensorSpaced(i, k) => SensorSpaced(i, k)'
        <4>1. UNCHANGED <<sensed, present, probeFrom>>
          BY DEF lockVars, sensorVars
        <4>2. i * Day \in Nat /\ (i - 1) * Day \in Int
          BY <1>1
        <4> QED BY <1>1, <4>1, <4>2 DEF SensorSpaced
      <3>5. Spaced(i, StampOf(k, c), options.slow) => Spaced(i, StampOf(k, c), options.slow)'
        BY <3>3 DEF Spaced
      <3>6. Regular(i, k, c)'
        BY <3>2, <3>4, <3>5 DEF Regular, lockVars
      <3> QED BY <3>1, <3>6
    <2> QED BY <2>1 DEF RegularInv
  <1>4. ASSUME NEW s \in LockSource
        PROVE  calls'[s] <= Cardinality(Made(n, s)) + Beyond(s)'
    <2>1. s \in Source
      BY DEF LockSource
    <2>2. Cardinality(Made(n, s)) \in Nat /\ calls[s] \in Nat
      BY <1>1, <1>2, <2>1, RegularFinite, CountTyped
    <2>3. Beyond(s) \in Nat /\ Beyond(s)' \in Nat /\ Beyond(s) <= Beyond(s)'
      BY <1>1, <2>1, BeyondLater DEF lockVars, sensorVars
    <2>4. calls[s] <= Cardinality(Made(n, s)) + Beyond(s) /\ calls'[s] = calls[s]
      BY <1>2
    <2> QED BY <2>2, <2>3, <2>4
  <1> QED BY <1>3, <1>4, LocksInvAfter

\* Nor do locks call for the gateways.
LEMMA LocksKeepGateway ==
    ASSUME ScheduleTyped, GatewayInv, UNCHANGED <<options, gatewayDue>>,
           extras' \in {extras, extras + 1}, calls'["gateway_status"] = calls["gateway_status"]
    PROVE  GatewayInv'
  <1>1. TypeOK /\ DueInv /\ options \in Settings
    BY DEF ScheduleTyped, TypeOK
  <1>2. calls["gateway_status"] \in Nat /\ extras \in Nat /\ options.gateway \in Nat \ {0}
    BY <1>1, CountTyped, OptionsTyped DEF Source
  <1>3. PICK i \in Int : i = calls["gateway_status"] - extras
    BY <1>2
  <1>4. PICK j \in {i, i - 1} : j = calls'["gateway_status"] - extras'
    BY <1>2, <1>3
  <1>5. PICK g \in Nat \ {0} : g = options.gateway
    BY <1>2
  <1>6. j * g <= i * g /\ i * g \in Int /\ j * g \in Int
    BY <1>4
  <1>7. CASE options.manual
    BY <1>3, <1>4, <1>7 DEF GatewayInv
  <1>8. CASE ~options.manual
    <2>1. i * g <= gatewayDue /\ gatewayDue \in Nat
      BY <1>1, <1>3, <1>5, <1>8 DEF GatewayInv, DueInv
    <2>2. j * g <= gatewayDue
      BY <1>6, <2>1
    <2> QED BY <1>4, <1>5, <1>8, <2>2 DEF GatewayInv
  <1> QED BY <1>7, <1>8


-----------------------------------------------------------------------------
(* Each action *)

\* What a step of a lock has to show besides.
LEMMA LockActionKeeps ==
    ASSUME ScheduleInv, NEW l \in Locks, LockStep(l), LocksInv', FreshInv',
           pushes' \in [Locks -> 0..MaxPushes], extras' \in 0..MaxExtras,
           extras' \in {extras, extras + 1},
           calls' = calls \/ \E made \in SUBSET Call : Count(made)
    PROVE  ScheduleInv'
  <1>1. TypeOK
    BY DEF ScheduleInv, ScheduleTyped
  <1>2. /\ calls' \in [Source -> Nat]
        /\ calls'["gateway_status"] = calls["gateway_status"]
    <2>1. CASE calls' = calls
      BY <1>1, <2>1 DEF TypeOK
    <2>2. ASSUME NEW made \in SUBSET Call, Count(made)
          PROVE  calls' \in [Source -> Nat] /\ calls'["gateway_status"] = calls["gateway_status"]
      <3>1. "gateway_status" \in Source
        BY DEF Source
      <3>2. /\ calls' \in [Source -> Nat]
            /\ calls'["gateway_status"]
                  = calls["gateway_status"] + Cardinality(Of(made, "gateway_status"))
        BY <1>1, <2>2, <3>1, CountIs
      <3>3. Of(made, "gateway_status") = {}
        BY SourceOfIs DEF Of
      <3>4. Cardinality(Of(made, "gateway_status")) = 0 /\ calls["gateway_status"] \in Nat
        BY <1>1, <3>1, <3>3, FS_EmptySet, CountTyped
      <3> QED BY <3>2, <3>4
    <2> QED BY <2>1, <2>2
  <1>3. ScheduleTyped'
    BY <1>2, LockStepKeeps DEF ScheduleInv
  <1>4. GatewayInv'
    BY <1>2, LocksKeepGateway DEF ScheduleInv, LockStep
  <1> QED BY <1>3, <1>4 DEF ScheduleInv

\* One lemma per action.  A poll on schedule, which succeeds or fails; ...
LEMMA ScheduledPollKeeps ==
    ASSUME ScheduleInv, NEW l \in Locks, ScheduledPoll(l)
    PROVE  ScheduleInv'
  <1>1. TypeOK /\ ScheduleTyped /\ FreshInv /\ LocksInv
    BY DEF ScheduleInv, ScheduleTyped
  <1>2. extras \in Nat /\ MaxExtras \in Nat /\ \A k \in Locks : pushes[k] \in Nat
    BY <1>1, CountTyped, BoundAssumption
  <1>3. CASE Refresh(l, FALSE) /\ UNCHANGED extras
    <2>1. LockStep(l) /\ pushes' = pushes
      BY <1>1, <1>3, RefreshIs
    <2>2. PICK ble, made :
              /\ ble \in BOOLEAN /\ made = Planned(l, ble, FALSE)
              /\ Count(made) /\ Stamp(l, made)
      BY <1>1, <1>3, RefreshIs
    <2>3. \A p \in Part :
             (p # Gateways \/ l \in WithGateway) /\ SlowTierDue(fetched[l][p])
                 => fetched'[l][p] = now
      <3> TAKE p \in Part
      <3> HAVE (p # Gateways \/ l \in WithGateway) /\ SlowTierDue(fetched[l][p])
      <3>1. p \in made
        <4>1. CASE p = Details
          BY <2>2, <4>1, PlannedIs
        <4>2. CASE p = Passage
          BY <2>2, <4>2, PlannedIs
        <4>3. CASE p = Gateways
          BY <2>2, <4>3, PlannedIs
        <4>4. CASE p = Ekeys
          BY <2>2, <4>4, PlannedIs
        <4> QED BY <4>1, <4>2, <4>3, <4>4 DEF Part
      <3> QED BY <1>1, <2>2, <3>1 DEF Stamp, TypeOK
    <2>4. LocksInv'
      BY <1>1, <1>3, PollKeepsLocks DEF ScheduledPoll
    <2>5. pushes' \in [Locks -> 0..MaxPushes] /\ extras' \in 0..MaxExtras
      BY <1>1, <1>3, <2>1 DEF TypeOK
    <2>6. made \in SUBSET Call
      BY <2>2, PlannedIs
    <2>7. calls' \in [Source -> Nat]
      BY <1>1, <2>2, <2>6, CountIs
    <2>8. FreshInv'
      BY <1>1, <1>2, <1>3, <2>1, <2>3, <2>5, <2>7, FreshStep
    <2> QED BY <1>3, <2>1, <2>2, <2>4, <2>5, <2>6, <2>8, LockActionKeeps
  <1>4. CASE Extra /\ RefreshFails(l, FALSE) /\ UNCHANGED pushes
    <2>1. LockStep(l) /\ \E made \in SUBSET Call : Count(made)
      BY <1>1, <1>4, RefreshFailsIs
    <2>2. extras' = extras + 1 /\ extras' \in 0..MaxExtras
      BY <1>2, <1>4 DEF Extra
    <2>3. calls' \in [Source -> Nat]
      BY <1>1, <2>1, CountIs
    <2>4. pushes' \in [Locks -> 0..MaxPushes]
      BY <1>1, <1>4 DEF TypeOK
    <2>5. FreshInv'
      BY <1>1, <1>2, <1>4, <2>1, <2>2, <2>3, <2>4, FreshStep
    <2>6. LocksInv'
      BY <1>1, <2>1, <2>2, ExtraKeepsLocks
    <2> QED BY <2>1, <2>2, <2>4, <2>5, <2>6, LockActionKeeps
  <1> QED BY <1>3, <1>4 DEF ScheduledPoll

\* ... one that the user asks for; ...
LEMMA SyncKeeps ==
    ASSUME ScheduleInv, NEW l \in Locks, Sync(l)
    PROVE  ScheduleInv'
  <1>1. TypeOK /\ ScheduleTyped /\ FreshInv /\ LocksInv
    BY DEF ScheduleInv, ScheduleTyped
  <1>2. extras \in Nat /\ MaxExtras \in Nat /\ \A k \in Locks : pushes[k] \in Nat
    BY <1>1, CountTyped, BoundAssumption
  <1>3. PICK blanked \in BOOLEAN : Refresh(l, blanked)
    BY DEF Sync
  <1>4. LockStep(l) /\ pushes' = pushes
    BY <1>1, <1>3, RefreshIs
  <1>5. PICK ble, made :
            ble \in BOOLEAN /\ made = Planned(l, ble, blanked) /\ Count(made)
    BY <1>1, <1>3, RefreshIs
  <1>6. made \in SUBSET Call
    BY <1>5, PlannedIs
  <1>7. extras' = extras + 1 /\ extras' \in 0..MaxExtras
    BY <1>2 DEF Sync, Extra
  <1>8. calls' \in [Source -> Nat]
    BY <1>1, <1>5, <1>6, CountIs
  <1>9. pushes' \in [Locks -> 0..MaxPushes]
    BY <1>1, <1>4 DEF TypeOK
  <1>10. FreshInv'
    BY <1>1, <1>2, <1>4, <1>7, <1>8, <1>9, FreshStep
  <1>11. LocksInv'
    BY <1>1, <1>4, <1>5, <1>6, <1>7, ExtraKeepsLocks
  <1> QED BY <1>4, <1>5, <1>6, <1>7, <1>9, <1>10, <1>11, LockActionKeeps

\* A step that is not a poll asks nothing of a door sensor.
LEMMA SensorStays ==
    ASSUME TypeOK, NEW l \in Locks, UNCHANGED <<sensed, present, probeFrom, blanks>>
    PROVE  SensorStep(l)
  <1>1. /\ sensed' = [sensed EXCEPT ![l] = sensed[l]]
        /\ present' = [present EXCEPT ![l] = present[l]] /\ present[l] \in BOOLEAN
        /\ probeFrom' = [probeFrom EXCEPT ![l] = probeFrom[l]]
    BY DEF TypeOK
  <1> QED BY <1>1 DEF SensorStep

\* What a push adds to its count.
LEMMA PushIs ==
    ASSUME TypeOK, NEW l \in Locks, Push(l)
    PROVE  /\ pushes' \in [Locks -> 0..MaxPushes]
           /\ \A k \in Locks : pushes[k] \in Nat /\ pushes'[k] \in Nat /\ pushes[k] <= pushes'[k]
           /\ pushes'[l] = pushes[l] + 1
  <1>1. /\ pushes \in [Locks -> 0..MaxPushes] /\ MaxPushes \in Nat /\ pushes[l] < MaxPushes
        /\ pushes' = [pushes EXCEPT ![l] = @ + 1]
    BY BoundAssumption DEF TypeOK, Push
  <1>2. pushes[l] \in Nat /\ pushes[l] + 1 \in 0..MaxPushes
    BY <1>1
  <1>3. \A k \in Locks : pushes'[k] = IF k = l THEN pushes[l] + 1 ELSE pushes[k]
    BY <1>1
  <1>4. pushes' \in [Locks -> 0..MaxPushes]
    BY <1>1, <1>2
  <1>5. \A k \in Locks : pushes[k] \in Nat
    BY <1>1
  <1>6. \A k \in Locks : pushes'[k] \in Nat /\ pushes[k] <= pushes'[k]
    BY <1>2, <1>3, <1>5
  <1> QED BY <1>3, <1>4, <1>5, <1>6

\* ... data set by a webhook or a timer; ...
LEMMA DataPushedKeeps ==
    ASSUME ScheduleInv, NEW l \in Locks, DataPushed(l)
    PROVE  ScheduleInv'
  <1>1. TypeOK /\ ScheduleTyped /\ FreshInv /\ LocksInv
    BY DEF ScheduleInv, ScheduleTyped
  <1>2. extras \in Nat /\ \A k \in Locks : pushes[k] \in Nat
    BY <1>1, CountTyped
  <1>3. /\ Push(l) /\ due' = [due EXCEPT ![l] = NextPoll]
        /\ UNCHANGED <<now, options, confirmed, fetched, gatewayDue, calls, extras>>
        /\ UNCHANGED <<sensed, present, probeFrom, blanks>>
    BY DEF DataPushed, Postpone, sensorVars
  <1>4. PICK tells \in BOOLEAN : known' = [known EXCEPT ![l] = @ \/ tells]
    BY DEF DataPushed
  <1>5. LockStep(l)
    <2>1. fetched' = [fetched EXCEPT ![l] = fetched[l]] /\ fetched[l] \in [Part -> Time]
      BY <1>1, <1>3 DEF TypeOK
    <2>4. SensorStep(l) /\ blanks' \in 0..MaxBlanks /\ blanks' = blanks
      BY <1>1, <1>3, SensorStays DEF TypeOK
    <2>2. PICK b \in BOOLEAN : b = (known[l] \/ tells)
      OBVIOUS
    <2>3. known' = [known EXCEPT ![l] = b] /\ (known[l] => b)
      BY <1>1, <1>4, <2>2 DEF TypeOK
    <2> QED BY <1>3, <2>1, <2>3, <2>4 DEF LockStep
  <1>6. /\ pushes' \in [Locks -> 0..MaxPushes] /\ \A k \in Locks : pushes[k] <= pushes'[k]
        /\ pushes'[l] = pushes[l] + 1
    BY <1>1, <1>3, PushIs
  <1>7. calls' \in [Source -> Nat] /\ extras' \in 0..MaxExtras
    BY <1>1, <1>3 DEF TypeOK
  <1>8. pushes[l] + extras + 1 <= pushes'[l] + extras' /\ extras <= extras'
    BY <1>2, <1>3, <1>6
  <1>9. FreshInv'
    BY <1>1, <1>5, <1>6, <1>7, <1>8, FreshStep
  <1>10. LocksInv'
    BY <1>1, <1>3, <1>5, PushKeepsLocks
  <1> QED BY <1>3, <1>5, <1>6, <1>7, <1>9, <1>10, LockActionKeeps

\* ... lists fetched again after a change; ...
LEMMA CodesRefreshedKeeps ==
    ASSUME ScheduleInv, NEW l \in Locks, CodesRefreshed(l)
    PROVE  ScheduleInv'
  <1>1. TypeOK /\ ScheduleTyped /\ FreshInv /\ LocksInv
    BY DEF ScheduleInv, ScheduleTyped
  <1>2. extras \in Nat /\ MaxExtras \in Nat /\ \A k \in Locks : pushes[k] \in Nat
    BY <1>1, CountTyped, BoundAssumption
  <1>3. /\ Push(l) /\ Extra /\ due' = [due EXCEPT ![l] = NextPoll]
        /\ Count({Passcodes, Ekeys}) /\ Stamp(l, {Ekeys})
        /\ UNCHANGED <<now, options, confirmed, known, gatewayDue>>
        /\ UNCHANGED <<sensed, present, probeFrom, blanks>>
    BY DEF CodesRefreshed, Postpone, sensorVars
  <1>4. LockStep(l)
    <2>1. known' = [known EXCEPT ![l] = known[l]] /\ known[l] \in BOOLEAN
      BY <1>1, <1>3 DEF TypeOK
    <2>2. SensorStep(l) /\ blanks' \in 0..MaxBlanks /\ blanks' = blanks
      BY <1>1, <1>3, SensorStays DEF TypeOK
    <2> QED BY <2>2, <1>1, <1>3, <2>1, StepOfParts
  <1>5. /\ pushes' \in [Locks -> 0..MaxPushes] /\ \A k \in Locks : pushes[k] <= pushes'[k]
        /\ pushes'[l] = pushes[l] + 1
    BY <1>1, <1>3, PushIs
  <1>6. extras' = extras + 1 /\ extras' \in 0..MaxExtras
    BY <1>2, <1>3 DEF Extra
  <1>7. {Passcodes, Ekeys} \in SUBSET Call
    BY SourceOfIs
  <1>8. calls' \in [Source -> Nat]
    BY <1>1, <1>3, <1>7, CountIs
  <1>9. pushes[l] + extras + 1 <= pushes'[l] + extras' /\ extras <= extras'
    BY <1>2, <1>5, <1>6
  <1>10. FreshInv'
    BY <1>1, <1>4, <1>5, <1>6, <1>8, <1>9, FreshStep
  <1>11. LocksInv'
    BY <1>1, <1>3, <1>4, <1>6, <1>7, ExtraKeepsLocks
  <1> QED BY <1>3, <1>4, <1>5, <1>6, <1>7, <1>10, <1>11, LockActionKeeps


\* The gateways are listed once more, on schedule or as an extra.
LEMMA GatewayRefreshKeeps ==
    ASSUME ScheduleInv, GatewayRefresh,
           \/ gatewayDue = now /\ UNCHANGED extras
           \/ gatewayDue # 0 /\ Extra
    PROVE  ScheduleInv'
  <1>1. TypeOK /\ ScheduleTyped /\ FreshInv /\ LocksInv /\ DueInv /\ StampInv /\ GatewayInv
        /\ options \in Settings
    BY DEF ScheduleInv, ScheduleTyped, TypeOK
  <1>2. /\ now \in Nat /\ now # Never /\ options.manual \in BOOLEAN
        /\ Never \notin Nat
    BY <1>1, NextPollIs, OptionsTyped, TimeAssumption
  <1>3. PICK g \in Nat \ {0} : g = options.gateway
    BY <1>1, OptionsTyped
  <1>4. extras \in Nat /\ MaxExtras \in Nat /\ calls["gateway_status"] \in Nat
    BY <1>1, CountTyped, BoundAssumption DEF Source
  <1>5. /\ calls' = [calls EXCEPT !["gateway_status"] = @ + 1]
        /\ gatewayDue' = IF options.manual THEN Never ELSE now + g
        /\ UNCHANGED <<now, options, confirmed, due, fetched, known, pushes>>
        /\ UNCHANGED <<sensed, present, probeFrom, blanks>>
    BY <1>3 DEF GatewayRefresh, lockVars, sensorVars
  <1>6. extras' \in {extras, extras + 1} /\ extras' \in 0..MaxExtras /\ extras' \in Nat
    BY <1>1, <1>4 DEF Extra, TypeOK
  <1>7. /\ calls' \in [Source -> Nat] /\ calls'["gateway_status"] = calls["gateway_status"] + 1
        /\ \A s \in LockSource : calls'[s] = calls[s]
    BY <1>1, <1>4, <1>5 DEF TypeOK, LockSource, Source
  <1>8. ScheduleTyped'
    <2>1. gatewayDue' \in Time
      BY <1>2, <1>5 DEF Time
    <2>2. TypeOK'
      BY <1>1, <1>5, <1>6, <1>7, <2>1 DEF TypeOK
    <2>3. DueInv'
      BY <1>1, <1>2, <1>3, <1>5 DEF DueInv
    <2>4. StampInv'
      BY <1>1, <1>5 DEF StampInv, Past
    <2> QED BY <2>2, <2>3, <2>4 DEF ScheduleTyped
  <1>9. FreshInv'
    <2> SUFFICES ASSUME ~options.manual, NEW k \in Locks, NEW p \in Part,
                        p # Gateways \/ k \in WithGateway
                 PROVE  due[k] <= Since(fetched[k][p]) + options.slow
                                     + options.poll * (1 + pushes[k] + extras')
      BY <1>5 DEF FreshInv, Since
    <2>1. PICK poll \in Nat, slow \in Nat : poll = options.poll /\ slow = options.slow
      BY <1>1, OptionsTyped
    <2>2. pushes[k] \in Nat /\ due[k] \in Nat
      BY <1>1, CountTyped DEF DueInv
    <2>3. poll * (1 + pushes[k] + extras) <= poll * (1 + pushes[k] + extras')
          /\ poll * (1 + pushes[k] + extras) \in Int /\ poll * (1 + pushes[k] + extras') \in Int
      <3>1. PICK a \in Nat : a = 1 + pushes[k] + extras
        BY <1>4, <2>2
      <3>2. PICK b \in Nat : b = 1 + pushes[k] + extras'
        BY <1>6, <2>2
      <3>3. a <= b
        BY <1>4, <1>6, <2>2, <3>1, <3>2
      <3> QED BY <3>1, <3>2, <3>3, Monotone
    <2>4. Since(fetched[k][p]) \in Nat
      BY <1>1 DEF TypeOK, Since, Time
    <2>5. due[k] <= Since(fetched[k][p]) + slow + poll * (1 + pushes[k] + extras)
      BY <1>1, <2>1 DEF FreshInv
    <2> QED BY <2>1, <2>2, <2>3, <2>4, <2>5
  <1>10. LocksInv'
    BY <1>1, <1>5, <1>6, <1>7, OthersKeepLocks DEF lockVars, sensorVars
  <1>11. GatewayInv'
    <2>1. PICK i \in Int : i = calls["gateway_status"] - extras
      BY <1>4
    <2>2. CASE gatewayDue = now /\ UNCHANGED extras
      <3>1. calls'["gateway_status"] - extras' = i + 1
        BY <1>4, <1>7, <2>1, <2>2
      <3>2. CASE options.manual
        <4>1. gatewayDue = 0 /\ i <= 0
          BY <1>1, <1>2, <2>1, <2>2, <3>2 DEF DueInv, GatewayInv
        <4>2. gatewayDue' = Never /\ Never # 0 /\ i + 1 <= 1
          BY <1>2, <1>5, <3>2, <4>1
        <4> QED BY <1>5, <3>1, <3>2, <4>2 DEF GatewayInv
      <3>3. CASE ~options.manual
        <4>1. i * g <= now /\ i * g \in Int
          BY <1>1, <1>3, <2>1, <2>2, <3>3 DEF GatewayInv
        <4>2. (i + 1) * g = i * g + g
          OBVIOUS
        <4>3. (i + 1) * g <= gatewayDue'
          BY <1>2, <1>5, <3>3, <4>1, <4>2
        <4> QED BY <1>3, <1>5, <3>1, <3>3, <4>3 DEF GatewayInv
      <3> QED BY <3>2, <3>3
    <2>3. CASE gatewayDue # 0 /\ Extra
      <3>1. calls'["gateway_status"] - extras' = i
        BY <1>4, <1>7, <2>1, <2>3 DEF Extra
      <3>2. CASE options.manual
        <4>1. i <= 1 /\ gatewayDue' = Never /\ Never # 0
          BY <1>1, <1>2, <1>5, <2>1, <3>2 DEF GatewayInv
        <4> QED BY <1>5, <3>1, <3>2, <4>1 DEF GatewayInv
      <3>3. CASE ~options.manual
        <4>1. i * g <= gatewayDue /\ i * g \in Int
          BY <1>1, <1>3, <2>1, <3>3 DEF GatewayInv
        <4>2. gatewayDue \in Nat /\ gatewayDue <= now + g
          BY <1>1, <1>3, <3>3 DEF DueInv
        <4>3. i * g <= gatewayDue'
          BY <1>2, <1>5, <3>3, <4>1, <4>2
        <4> QED BY <1>3, <1>5, <3>1, <3>3, <4>3 DEF GatewayInv
      <3> QED BY <3>2, <3>3
    <2> QED BY <2>2, <2>3
  <1> QED BY <1>8, <1>9, <1>10, <1>11 DEF ScheduleInv

\* ... the first webhook; ...
LEMMA WebhooksConfirmedKeeps ==
    ASSUME ScheduleInv, WebhooksConfirmed
    PROVE  ScheduleInv'
  <1>1. TypeOK /\ ScheduleTyped /\ FreshInv /\ LocksInv /\ DueInv /\ StampInv /\ GatewayInv
    BY DEF ScheduleInv, ScheduleTyped
  <1>2. /\ confirmed' = TRUE
        /\ UNCHANGED <<now, options, due, fetched, known, gatewayDue, calls, pushes, extras>>
        /\ UNCHANGED <<sensed, present, probeFrom, blanks>>
    BY DEF WebhooksConfirmed, lockVars, sensorVars
  <1>3. TypeOK'
    BY <1>1, <1>2 DEF TypeOK
  <1>4. DueInv' /\ StampInv'
    BY <1>1, <1>2 DEF DueInv, StampInv, Past
  <1>5. FreshInv' /\ GatewayInv'
    BY <1>1, <1>2 DEF FreshInv, GatewayInv, Since
  <1>6. LocksInv'
    BY <1>1, <1>2, OthersKeepLocks DEF lockVars, sensorVars
  <1> QED BY <1>3, <1>4, <1>5, <1>6 DEF ScheduleInv, ScheduleTyped

\* ... and time, which passes only when no poll is due.
LEMMA TickKeeps ==
    ASSUME ScheduleInv, Tick
    PROVE  ScheduleInv'
  <1>1. TypeOK /\ ScheduleTyped /\ FreshInv /\ LocksInv /\ DueInv /\ StampInv /\ GatewayInv
        /\ options \in Settings
    BY DEF ScheduleInv, ScheduleTyped, TypeOK
  <1>2. /\ now' = now + 1 /\ now < Horizon /\ gatewayDue # now /\ \A l \in Locks : due[l] # now
        /\ UNCHANGED <<options, confirmed, due, fetched, known, gatewayDue, calls, pushes, extras>>
        /\ UNCHANGED <<sensed, present, probeFrom, blanks>>
    BY DEF Tick, lockVars, sensorVars
  <1>3. /\ options.poll \in Nat \ {0} /\ options.gateway \in Nat \ {0}
        /\ now \in Nat /\ Horizon \in Nat
    BY <1>1, OptionsTyped, NextPollIs, BoundAssumption
  <1>4. now' \in 0..Horizon
    BY <1>2, <1>3
  <1>5. TypeOK'
    BY <1>1, <1>2, <1>4 DEF TypeOK
  <1>6. DueInv'
    BY <1>1, <1>2, <1>3 DEF DueInv
  <1>7. StampInv'
    <2>1. \A stamp \in Time : Past(stamp) => Past(stamp)'
      BY <1>2, <1>3 DEF Past, Time
    <2> QED BY <1>1, <1>2, <2>1 DEF StampInv, TypeOK, Past
  <1>8. FreshInv' /\ GatewayInv'
    BY <1>1, <1>2 DEF FreshInv, GatewayInv, Since
  <1>9. LocksInv'
    BY <1>1, <1>2, OthersKeepLocks DEF lockVars, sensorVars
  <1> QED BY <1>5, <1>6, <1>7, <1>8, <1>9 DEF ScheduleInv, ScheduleTyped

\* The invariant holds in the beginning ...
LEMMA ScheduleInitially == Init => ScheduleInv
  <1> SUFFICES ASSUME Init PROVE ScheduleInv
    OBVIOUS
  <1>1. /\ now = 0 /\ options \in Settings /\ confirmed = options.status
        /\ due = [l \in Locks |-> 0] /\ fetched = [l \in Locks |-> [p \in Part |-> Never]]
        /\ sensed = [l \in Locks |-> Never] /\ known = [l \in Locks |-> FALSE]
        /\ gatewayDue = 0 /\ calls = [s \in Source |-> 0] /\ pushes = [l \in Locks |-> 0]
        /\ extras = 0 /\ blanks = 0
        /\ present = [l \in Locks |-> FALSE] /\ probeFrom \in [Locks -> {0, Day + 1}]
    BY DEF Init
  <1>2. /\ options.poll \in Nat \ {0} /\ options.gateway \in Nat \ {0} /\ options.slow \in Nat \ {0}
        /\ options.manual \in BOOLEAN /\ options.status \in BOOLEAN
        /\ {Horizon, MaxPushes, MaxExtras, MaxBlanks} \subseteq Nat /\ Day + 1 \in Nat
    BY <1>1, OptionsTyped, BoundAssumption, TimeAssumption
  <1>3. TypeOK
    BY <1>1, <1>2 DEF TypeOK, Time
  <1>4. DueInv
    BY <1>1, <1>2 DEF DueInv
  <1>5. StampInv
    BY <1>1 DEF StampInv, Past
  <1>6. FreshInv
    <2> SUFFICES ASSUME NEW l \in Locks, NEW p \in Part
                 PROVE  due[l] <= Since(fetched[l][p]) + options.slow
                                    + options.poll * (1 + pushes[l] + extras)
      BY DEF FreshInv
    <2>1. due[l] = 0 /\ fetched[l][p] = Never /\ 1 + pushes[l] + extras = 1
      BY <1>1
    <2>2. options.poll * 1 \in Nat
      BY <1>2
    <2>3. Since(fetched[l][p]) = 0
      BY <2>1 DEF Since
    <2> QED BY <1>2, <2>1, <2>2, <2>3
  <1>7. LocksInv
    <2>1. PICK n \in Counts : \A p \in Locks \X Call : n[p] = 0
      <3>1. [p \in Locks \X Call |-> 0] \in Counts
        BY DEF Counts
      <3> QED BY <3>1
    <2>2. ASSUME NEW l \in Locks, NEW c \in Call PROVE Regular(0, l, c)
      <3>1. 0 * options.poll = 0
        BY <1>2
      <3>2. CASE c = State
        BY <1>1, <3>1, <3>2 DEF Regular
      <3>3. CASE c # State /\ c # DoorSensor
        <4>1. StampOf(l, c) = Never
          BY <1>1, <3>3, CallIs DEF StampOf
        <4> QED BY <3>3, <4>1 DEF Regular, Spaced
      <3>4. CASE c = DoorSensor
        <4>1. 0 * Day = 0 /\ (0 - 1) * Day <= 0
          BY TimeAssumption
        <4>2. SensorSpaced(0, l)
          BY <1>1, <4>1 DEF SensorSpaced
        <4> QED BY <3>4, <4>2 DEF Regular, State, DoorSensor
      <3> QED BY <3>2, <3>3, <3>4
    <2>3. RegularInv(n)
      BY <2>1, <2>2 DEF RegularInv
    <2>4. ASSUME NEW s \in LockSource
          PROVE  calls[s] <= Cardinality(Made(n, s)) + Beyond(s)
      <3>1. Cardinality(Made(n, s)) \in Nat
        BY <1>3, <1>4, <1>5, <2>3, RegularFinite DEF ScheduleTyped
      <3>2. AtOnce[s] \in Nat /\ calls[s] = 0 /\ extras = 0 /\ blanks = 0
        BY <1>1, <1>3, CountTyped DEF LockSource
      <3>3. Beyond(s) = 0
        <4>1. 0 * AtOnce[s] = 0
          BY <3>2
        <4> QED BY <3>2, <4>1 DEF Beyond
      <3> QED BY <3>1, <3>2, <3>3
    <2> QED BY <2>1, <2>3, <2>4 DEF LocksInv, Counts
  <1>8. GatewayInv
    <2>1. calls["gateway_status"] - extras = 0 /\ 0 * options.gateway = 0
      BY <1>1, <1>2 DEF Source
    <2> QED BY <1>1, <2>1 DEF GatewayInv
  <1> QED BY <1>3, <1>4, <1>5, <1>6, <1>7, <1>8 DEF ScheduleInv, ScheduleTyped

\* ... and is kept by every step.
LEMMA ScheduleStep == ScheduleInv /\ [Next]_vars => ScheduleInv'
  <1> SUFFICES ASSUME ScheduleInv, [Next]_vars PROVE ScheduleInv'
    OBVIOUS
  <1>1. ASSUME NEW l \in Locks,
               ScheduledPoll(l) \/ Sync(l) \/ DataPushed(l) \/ CodesRefreshed(l)
        PROVE  ScheduleInv'
    BY <1>1, ScheduledPollKeeps, SyncKeeps, DataPushedKeeps, CodesRefreshedKeeps
  <1>2. CASE GatewayPoll \/ GatewaySync
    BY <1>2, GatewayRefreshKeeps DEF GatewayPoll, GatewaySync
  <1>3. CASE UNCHANGED vars
    <2>1. /\ UNCHANGED <<now, options, confirmed, due, fetched, known, gatewayDue, calls>>
          /\ UNCHANGED <<pushes, extras, sensed, present, probeFrom, blanks>>
      BY <1>3 DEF vars, lockVars, sensorVars
    <2>2. TypeOK' /\ DueInv' /\ StampInv' /\ FreshInv' /\ GatewayInv'
      BY <2>1 DEF ScheduleInv, ScheduleTyped, TypeOK, DueInv, StampInv, FreshInv, GatewayInv,
         Past, Since
    <2>3. LocksInv'
      BY <2>1, OthersKeepLocks DEF ScheduleInv, lockVars, sensorVars
    <2> QED BY <2>2, <2>3 DEF ScheduleInv, ScheduleTyped
  <1> QED BY <1>1, <1>2, <1>3, WebhooksConfirmedKeeps, TickKeeps DEF Next

\* The invariant that the three properties of the schedule follow from.
THEOREM ScheduleInvariant == Spec => []ScheduleInv
  BY ScheduleInitially, ScheduleStep, PTL DEF Spec

-----------------------------------------------------------------------------
(* Results *)

\* Every reachable state of the schedule is well typed, for any finite number of
\* locks and any options.
THEOREM ScheduleTypeCorrect == Spec => []TypeOK
  <1>1. ScheduleInv => TypeOK
    BY DEF ScheduleInv, ScheduleTyped
  <1> QED BY <1>1, ScheduleInvariant, PTL

\* No part of the slow tier (lock details, passage mode, gateways, codes) grows
\* older than its interval and one poll interval, plus one for each push, request
\* or failure.
THEOREM SlowTierFresh == Spec => []SlowTierIsFresh
  <1>1. ASSUME ScheduleInv PROVE SlowTierIsFresh
    <2> SUFFICES ASSUME ~options.manual, NEW l \in Locks, NEW p \in Part,
                        p # Gateways \/ l \in WithGateway
                 PROVE  now <= (IF fetched[l][p] = Never THEN 0 ELSE fetched[l][p])
                                  + options.slow + options.poll * (1 + pushes[l] + extras)
      BY DEF SlowTierIsFresh
    <2>1. TypeOK /\ DueInv /\ FreshInv /\ options \in Settings
      BY <1>1 DEF ScheduleInv, ScheduleTyped, TypeOK
    <2>2. PICK poll \in Nat, slow \in Nat : poll = options.poll /\ slow = options.slow
      BY <2>1, OptionsTyped
    <2>3. now \in Nat /\ due[l] \in Nat /\ now <= due[l]
      BY <2>1, NextPollIs DEF DueInv
    <2>4. Since(fetched[l][p]) \in Nat
      BY <2>1 DEF TypeOK, Since, Time
    <2>5. poll * (1 + pushes[l] + extras) \in Nat
      BY <2>1, CountTyped
    <2>6. due[l] <= Since(fetched[l][p]) + slow + poll * (1 + pushes[l] + extras)
      BY <2>1, <2>2 DEF FreshInv
    <2> QED BY <2>2, <2>3, <2>4, <2>5, <2>6 DEF Since
  <1> QED BY <1>1, ScheduleInvariant, PTL


\* What is left, once each call of a source was made once and then once an interval.
LEMMA SourceWithin ==
    ASSUME ScheduleInv, NEW s \in LockSource
    PROVE  WithinEstimate(s, AtATime[s] + Beyond(s))
  <1>1. TypeOK /\ ScheduleTyped /\ now \in Nat
    BY NextPollIs DEF ScheduleInv, ScheduleTyped
  <1>2. PICK n \in Counts :
            RegularInv(n) /\ calls[s] <= Cardinality(Made(n, s)) + Beyond(s)
    BY DEF ScheduleInv, LocksInv, Counts
  <1>3. ASSUME NEW p \in CalledFor(s)
        PROVE  /\ n[p] \in Nat
               /\ Every[s] = Never => n[p] <= 1
               /\ Every[s] # Never => Every[s] \in Nat \ {0} /\ (n[p] - 1) * Every[s] <= now
    <2>1. PICK l \in Locks, c \in Call : p = <<l, c>> /\ SourceOf(c) = s
      BY DEF CalledFor
    <2>2. n[p] \in Nat /\ Regular(n[p], l, c)
      BY <1>2, <2>1 DEF RegularInv, Counts
    <2> QED BY <1>1, <2>1, <2>2, RegularBound
  <1>4. PICK a \in Nat : a = AtATime[s]
    BY CalledForSize, FS_CardinalityType
  <1>5. PICK e \in Nat : e = Beyond(s)
    <2>1. extras * AtOnce[s] \in Nat /\ blanks \in Nat
      BY <1>1, CountTyped, OneMore DEF LockSource
    <2> QED BY <2>1 DEF Beyond
  <1>6. PICK k \in Nat : k = calls[s]
    BY <1>1, CountTyped DEF LockSource
  <1>7. CASE Every[s] = Never
    <2>1. Cardinality(Made(n, s)) \in Nat /\ Cardinality(Made(n, s)) <= a * 1
      BY <1>3, <1>4, <1>7, MadeBound
    <2>2. k <= a + e
      BY <1>2, <1>5, <1>6, <2>1
    <2> QED BY <1>4, <1>5, <1>6, <1>7, <2>2 DEF WithinEstimate
  <1>8. CASE Every[s] # Never
    <2>1. PICK every \in Nat \ {0} : every = Every[s]
      BY <1>1, <1>8, EveryTyped DEF LockSource
    <2>2. PICK q \in Nat : q = now \div every
      BY <1>1
    <2>3. q * every <= now /\ now < (q + 1) * every
      BY <1>1, <2>1, <2>2
    <2>4. ASSUME NEW p \in CalledFor(s) PROVE n[p] <= q + 1
      <3>1. PICK i \in Nat : i = n[p]
        BY <1>3
      <3>2. (i - 1) * every <= now
        BY <1>3, <1>8, <2>1, <3>1
      <3>3. ASSUME q + 1 <= i - 1 PROVE FALSE
        <4>1. every * (q + 1) <= every * (i - 1)
          BY <3>3, Monotone
        <4>2. every * (q + 1) = (q + 1) * every /\ every * (i - 1) = (i - 1) * every
              /\ (q + 1) * every \in Int /\ (i - 1) * every \in Int
          OBVIOUS
        <4> QED BY <1>1, <2>3, <3>2, <4>1, <4>2
      <3> QED BY <3>1, <3>3
    <2>5. Cardinality(Made(n, s)) \in Nat /\ Cardinality(Made(n, s)) <= a * (q + 1)
      BY <1>4, <2>4, MadeBound
    <2>6. a * (q + 1) = a * q + a /\ a * q \in Nat
      OBVIOUS
    <2>7. PICK d \in Int : d = k - (a + e)
      OBVIOUS
    <2>8. d <= a * q
      BY <1>2, <1>5, <1>6, <2>5, <2>6, <2>7
    <2>9. every * d <= every * (a * q)
      BY <2>6, <2>8, Monotone
    <2>10. a * (q * every) <= a * now
      BY <1>1, <2>3, Monotone
    <2>11. every * (a * q) = a * (q * every) /\ every * d = d * every
           /\ every * d \in Int /\ a * now \in Int /\ every * (a * q) \in Int
      BY <1>1
    <2>12. d * every <= a * now
      BY <2>9, <2>10, <2>11
    <2> QED BY <1>4, <1>5, <1>6, <1>8, <2>1, <2>7, <2>12 DEF WithinEstimate
  <1> QED BY <1>7, <1>8

\* The gateways' list is within its estimate.
LEMMA GatewayWithin ==
    ASSUME ScheduleInv, NEW s, s = "gateway_status"
    PROVE  WithinEstimate(s, AtATime[s] + Beyond(s))
  <1>1. TypeOK /\ DueInv /\ GatewayInv /\ options \in Settings /\ now \in Nat
    BY NextPollIs DEF ScheduleInv, ScheduleTyped, TypeOK
  <1>2. PICK g \in Nat \ {0} : g = options.gateway
    BY <1>1, OptionsTyped
  <1>3. PICK k \in Nat, x \in Nat : k = calls[s] /\ x = extras
    BY <1>1, CountTyped DEF Source
  <1>4. AtATime[s] = 1 /\ Beyond(s) = x /\ Every[s] = IF options.manual THEN Never ELSE g
    BY <1>2, <1>3 DEF AtATime, AtOnce, Every, Beyond
  <1>5. g # Never
    BY TimeAssumption
  <1>6. CASE options.manual
    <2>1. k - x <= 1
      BY <1>1, <1>3, <1>6 DEF GatewayInv
    <2>2. k <= 1 + x
      BY <2>1
    <2> QED BY <1>3, <1>4, <1>6, <2>2 DEF WithinEstimate
  <1>7. CASE ~options.manual
    <2>1. (k - x) * g <= now + g
      <3>1. (k - x) * g <= gatewayDue /\ gatewayDue \in Nat /\ gatewayDue <= now + g
        BY <1>1, <1>2, <1>3, <1>7 DEF GatewayInv, DueInv
      <3>2. (k - x) * g \in Int
        OBVIOUS
      <3> QED BY <1>1, <3>1, <3>2
    <2>2. (k - (1 + x)) * g = (k - x) * g - g /\ (k - x) * g \in Int
      OBVIOUS
    <2>3. (k - (1 + x)) * g <= 1 * now
      BY <1>1, <2>1, <2>2
    <2> QED BY <1>3, <1>4, <1>5, <1>7, <2>3 DEF WithinEstimate
  <1> QED BY <1>6, <1>7

\* Every source stays within what usage_estimate.py tells the user, but for the
\* fill at the start, what a user asked for or a failure repeated and, of a door
\* sensor, each answer without a battery level, after which it is looked for again
\* at the next poll.
THEOREM EstimateHolds == Spec => []CallsWithinEstimate
  <1>1. ASSUME ScheduleInv, NEW s \in Source
        PROVE  WithinEstimate(s, AtATime[s] + Beyond(s))
    BY <1>1, SourceWithin, GatewayWithin DEF LockSource
  <1>2. \A s \in Source :
           AtATime[s] \in Nat /\ extras \in Nat /\ AtOnce[s] \in Nat /\ blanks \in Nat
               => AtATime[s] + Beyond(s)
                     = AtATime[s] + extras * AtOnce[s]
                          + (IF s = "door_sensor" THEN blanks ELSE 0)
    BY DEF Beyond
  <1>3. ASSUME ScheduleInv, NEW s \in Source
        PROVE  AtATime[s] \in Nat /\ extras \in Nat /\ AtOnce[s] \in Nat /\ blanks \in Nat
    <2>1. CASE s = "gateway_status"
      BY <1>3, <2>1, CountTyped DEF ScheduleInv, ScheduleTyped, AtATime
    <2>2. CASE s # "gateway_status"
      <3>1. AtATime[s] \in Nat
        BY <2>2, CalledForSize, FS_CardinalityType DEF LockSource
      <3> QED BY <1>3, <3>1, CountTyped DEF ScheduleInv, ScheduleTyped
    <2> QED BY <2>1, <2>2
  <1>4. ScheduleInv => CallsWithinEstimate
    BY <1>1, <1>2, <1>3 DEF CallsWithinEstimate
  <1> QED BY <1>4, ScheduleInvariant, PTL

=============================================================================
