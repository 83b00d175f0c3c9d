--------------------------- MODULE MCRecordsProofs ---------------------------
(***************************************************************************)
(* Proofs about MCRecords: the boards of a period count what was accepted  *)
(* in it, and what a request with several statements writes is there as a  *)
(* whole or not at all.  For any submissions, calendar, jobs and bounds.   *)
(***************************************************************************)
EXTENDS MCRecords, TLAPS, FiniteSetTheorems

USE RecordsAssumption

-----------------------------------------------------------------------------
(* The leaderboards of a period (PeriodBoards)                             *)

\* The steps of PartsSpec are steps of the boards or leave them alone.
LEMMA BoardsRun == PartsSpec => Boards!Init /\ [][Boards!Next]_(Boards!vars)
<1>1. PartsInit => Boards!Init
  BY DEF PartsInit
<1>2. [PartsNext]_<<part, vars, statisticsVars, boardsVars, bankVars>> => [Boards!Next]_(Boards!vars)
  BY DEF PartsNext, boardsVars, Boards!vars
<1> QED
  BY <1>1, <1>2, PTL DEF PartsSpec

\* The keys of a submission, and those that are still to be applied for it.
Own(s) == Boards!PeriodKeys(made[s])
KeysLeft(s) == {counting[s].keys[i] : i \in DOMAIN counting[s].keys}

\* What is left of the three keys of a day from the n-th on.
Rest(d, n) ==
    CASE n = 1 -> Boards!PeriodKeys(d)
      [] n = 2 -> <<Boards!PeriodKeys(d)[2], Boards!PeriodKeys(d)[3]>>
      [] n = 3 -> <<Boards!PeriodKeys(d)[3]>>

\* A key counts a submission: it is one of the submission's own, and has been applied after
\* the verdict and not yet taken back by a rejudge.
Counts(s, k) ==
    /\ \E i \in 1..3 : k = Own(s)[i]
    /\ counting[s].by = 1 => counting[s].keys # <<>> /\ k \notin KeysLeft(s)
    /\ counting[s].by = -1 => k \in KeysLeft(s)
    /\ counting[s].by = 0 => judged[s] = "AC"
CountedIn(k) == {s \in Entries : Counts(s, k)}
Spoilt == failed \cup crossed

\* The worker is at the keys of the moment it began in, which differ from the submission's
\* own only where they are marked as crossed; a rejudge is at the submission's own.
KeyInv(s) ==
    /\ counting[s].by = 0 => counting[s] = Boards!NotCounting
    /\ counting[s].by = 1 =>
          /\ judged[s] = "AC"
          /\ counting[s].keys = <<>> \/
                \E d \in Boards!Days, n \in 1..3 :
                   /\ counting[s].keys = Rest(d, n)
                   /\ \A i \in 1..3 : Boards!PeriodKeys(d)[i] # Own(s)[i] =>
                         Boards!PeriodKeys(d)[i] \in crossed /\ Own(s)[i] \in crossed
    /\ counting[s].by = -1 =>
          judged[s] = "PENDING" /\ \E n \in 1..3 : counting[s].keys = Rest(made[s], n)
KeysInv == \A s \in Entries : KeyInv(s)

KeyLists == {<<>>} \cup {Rest(d, n) : d \in Nat, n \in 1..3}
BoardTypes ==
    /\ day \in Boards!Days
    /\ made \in [Entries -> Nat] /\ judged \in [Entries -> {"none", "PENDING", "WA", "AC"}]
    /\ counting \in [Entries -> [keys : KeyLists, by : {-1, 0, 1}]]

\* A key that nothing has spoilt holds the number of submissions it counts.
ScoreInv == \A k : k \notin Spoilt => Boards!Score(k) = Cardinality(CountedIn(k))

BoardsInv == BoardTypes /\ KeysInv /\ ScoreInv

\* The three keys of a day are of different kinds.
LEMMA KeysDiffer ==
    ASSUME NEW d, NEW e, NEW i \in 1..3, NEW j \in 1..3, Boards!PeriodKeys(d)[i] = Boards!PeriodKeys(e)[j]
    PROVE  i = j
<1>1. i \in {1, 2, 3} /\ j \in {1, 2, 3}
  OBVIOUS
<1> QED
  BY <1>1 DEF Boards!PeriodKeys, Boards!Key

\* What is left after a key has been applied.
LEMMA RestFacts ==
    ASSUME NEW d, NEW n \in 1..3
    PROVE  /\ Rest(d, n) # <<>> /\ Head(Rest(d, n)) = Boards!PeriodKeys(d)[n]
           /\ Len(Rest(d, n)) = 1 <=> n = 3
           /\ n < 3 => Tail(Rest(d, n)) = Rest(d, n + 1)
<1> DEFINE a == Boards!PeriodKeys(d)[1]
           b == Boards!PeriodKeys(d)[2]
           c == Boards!PeriodKeys(d)[3]
<1>1. Boards!PeriodKeys(d) = <<a, b, c>>
  BY DEF Boards!PeriodKeys
<1> HIDE DEF a, b, c
<1>0. n \in {1, 2, 3}
  OBVIOUS
<1>2. CASE n = 1
  <2>1. Rest(d, n) = <<a, b, c>> /\ n..3 = {1, 2, 3} /\ DOMAIN <<a, b, c>> = {1, 2, 3}
    BY <1>1, <1>2 DEF Rest
  <2>2. Rest(d, n + 1) = <<b, c>> /\ Tail(<<a, b, c>>) = <<b, c>> /\ Head(<<a, b, c>>) = a /\ Len(<<a, b, c>>) = 3
    BY <1>2 DEF Rest, b, c
  <2>4. Rest(d, n) # <<>>
    BY <2>1
  <2>5. Head(Rest(d, n)) = Boards!PeriodKeys(d)[n]
    BY <1>1, <1>2, <2>1, <2>2
  <2>6. Len(Rest(d, n)) # 1 /\ n # 3
    BY <1>2, <2>1, <2>2
  <2>7. Tail(Rest(d, n)) = Rest(d, n + 1)
    BY <2>1, <2>2
  <2> QED
    BY <2>4, <2>5, <2>6, <2>7
<1>3. CASE n = 2
  <2>1. Rest(d, n) = <<b, c>> /\ n..3 = {2, 3} /\ DOMAIN <<b, c>> = {1, 2}
    BY <1>3 DEF Rest, b, c
  <2>2. Rest(d, n + 1) = <<c>> /\ Tail(<<b, c>>) = <<c>> /\ Head(<<b, c>>) = b /\ Len(<<b, c>>) = 2
    BY <1>3 DEF Rest, c
  <2>4. Rest(d, n) # <<>>
    BY <2>1
  <2>5. Head(Rest(d, n)) = Boards!PeriodKeys(d)[n]
    BY <1>1, <1>3, <2>1, <2>2
  <2>6. Len(Rest(d, n)) # 1 /\ n # 3
    BY <1>3, <2>1, <2>2
  <2>7. Tail(Rest(d, n)) = Rest(d, n + 1)
    BY <2>1, <2>2
  <2> QED
    BY <2>4, <2>5, <2>6, <2>7
<1>4. CASE n = 3
  <2>1. Rest(d, n) = <<c>> /\ n..3 = {3} /\ DOMAIN <<c>> = {1} /\ Head(<<c>>) = c /\ Len(<<c>>) = 1
    BY <1>4 DEF Rest, c
  <2> QED
    BY <1>1, <1>4, <2>1
<1> QED
  BY <1>0, <1>2, <1>3, <1>4

\* ... as a set.
LEMMA RestKeys ==
    ASSUME NEW d, NEW n \in 1..3
    PROVE  {Rest(d, n)[i] : i \in DOMAIN Rest(d, n)} = {Boards!PeriodKeys(d)[i] : i \in n..3}
<1> DEFINE a == Boards!PeriodKeys(d)[1]
           b == Boards!PeriodKeys(d)[2]
           c == Boards!PeriodKeys(d)[3]
<1>1. Boards!PeriodKeys(d) = <<a, b, c>>
  BY DEF Boards!PeriodKeys
<1>0. n \in {1, 2, 3}
  OBVIOUS
<1>2. CASE n = 1
  <2>1. Rest(d, n) = <<a, b, c>> /\ n..3 = {1, 2, 3} /\ DOMAIN <<a, b, c>> = {1, 2, 3}
    BY <1>1, <1>2 DEF Rest
  <2> QED
    BY <1>1, <2>1
<1>3. CASE n = 2
  <2>1. Rest(d, n) = <<b, c>> /\ n..3 = {2, 3} /\ DOMAIN <<b, c>> = {1, 2}
    BY <1>3 DEF Rest
  <2> HIDE DEF a, b, c
  <2> QED
    BY <1>1, <2>1
<1>4. CASE n = 3
  <2>1. Rest(d, n) = <<c>> /\ n..3 = {3} /\ DOMAIN <<c>> = {1}
    BY <1>4 DEF Rest
  <2> HIDE DEF a, b, c
  <2> QED
    BY <1>1, <2>1
<1> QED
  BY <1>0, <1>2, <1>3, <1>4

\* The keys that are left, as a set.
LEMMA LeftOf ==
    ASSUME NEW s \in Entries, NEW d, NEW n \in 1..3, counting[s].keys = Rest(d, n)
    PROVE  KeysLeft(s) = {Boards!PeriodKeys(d)[i] : i \in n..3}
<1>1. KeysLeft(s) = {Rest(d, n)[i] : i \in DOMAIN Rest(d, n)}
  BY DEF KeysLeft
<1>2. {Rest(d, n)[i] : i \in DOMAIN Rest(d, n)} = {Boards!PeriodKeys(d)[i] : i \in n..3}
  BY RestKeys
<1> QED
  BY <1>1, <1>2

\* The gateway's week begins with the worker's (getWeekKey and period_keys): tm_wday counts
\* from Monday, getUTCDay from Sunday.
LEMMA OneWeek ==
    ASSUME NEW d \in Nat
    PROVE  /\ Boards!GetWeekKey(d) = Boards!PeriodKeys(d)[2]
           /\ (IF Boards!UTCDay(d) = 0 THEN 6 ELSE Boards!UTCDay(d) - 1) = Boards!WDay(d)
<1>1. (IF (d + 4) % 7 = 0 THEN 6 ELSE ((d + 4) % 7) - 1) = (d + 3) % 7
  OBVIOUS
<1> QED
  BY <1>1 DEF Boards!GetWeekKey, Boards!PeriodKeys, Boards!UTCDay, Boards!WDay, Boards!Key

\* The bounds of the calendar are days.
LEMMA DaysAreNumbers == Boards!Days \subseteq Nat /\ IsFiniteSet(Entries)
<1>1. FirstDay \in Nat /\ LastDay \in Nat
  BY DEF Boards!BoardsAssumption
<1>2. IsFiniteSet(Entries)
  BY DEF Boards!BoardsAssumption, Boards!IsFiniteSet, IsFiniteSet
<1> QED
  BY <1>1, <1>2 DEF Boards!Days

\* A key counts finitely many submissions.
LEMMA CountedFinite == \A k : IsFiniteSet(CountedIn(k)) /\ Cardinality(CountedIn(k)) \in Nat
<1> TAKE k
<1>1. CountedIn(k) \subseteq Entries
  BY DEF CountedIn
<1>2. IsFiniteSet(CountedIn(k))
  BY <1>1, DaysAreNumbers, FS_Subset
<1> QED
  BY <1>2, FS_CardinalityType

\* A step of one submission that spoils keys or keeps all numbers.
LEMMA StepKeeps ==
    ASSUME BoardsInv, NEW s \in Entries, BoardTypes', KeyInv(s)',
           \A q \in Entries \ {s} : made'[q] = made[q] /\ counting'[q] = counting[q] /\ judged'[q] = judged[q],
           crossed \subseteq crossed', failed \subseteq failed', score' = score,
           \A k : k \notin Spoilt' => (Counts(s, k)' <=> Counts(s, k))
    PROVE  BoardsInv'
<1>1. KeysInv'
  BY DEF BoardsInv, KeysInv, KeyInv, Own
<1>2. ASSUME NEW k, k \notin Spoilt'
      PROVE  Boards!Score(k)' = Cardinality(CountedIn(k))'
  <2>1. k \notin Spoilt
    BY <1>2 DEF Spoilt
  <2>2. \A q \in Entries : Counts(q, k)' <=> Counts(q, k)
    BY <1>2 DEF Counts, Own, KeysLeft
  <2>3. CountedIn(k)' = CountedIn(k)
    BY <2>2 DEF CountedIn
  <2>4. Boards!Score(k)' = Boards!Score(k)
    BY DEF Boards!Score
  <2> QED
    BY <2>1, <2>3, <2>4 DEF BoardsInv, ScoreInv
<1> QED
  BY <1>1, <1>2 DEF BoardsInv, ScoreInv

\* A submission is made, judged or taken back (POST /submit, save_verdict, the rejudge).
LEMMA VerdictKeeps ==
    ASSUME BoardsInv, NEW s \in Entries, Boards!Submit(s) \/ Boards!Judge(s) \/ Boards!Rejudge(s)
    PROVE  BoardsInv'
<1>1. UNCHANGED <<day, score, failed, crossed>>
  BY DEF Boards!Submit, Boards!Judge, Boards!Rejudge
<1>2. /\ BoardTypes /\ KeyInv(s) /\ counting[s].by \in {-1, 0, 1}
  BY DEF BoardsInv, KeysInv, BoardTypes
<1>3. day \in Nat /\ day \in Boards!Days
  BY <1>2, DaysAreNumbers DEF BoardTypes
<1>n. Boards!NotCounting = [keys |-> <<>>, by |-> 0]
  BY DEF Boards!NotCounting
<1>4. CASE Boards!Submit(s)
  <2>1. /\ judged[s] = "none" /\ judged' = [judged EXCEPT ![s] = "PENDING"]
        /\ made' = [made EXCEPT ![s] = day] /\ counting' = counting
    BY <1>4 DEF Boards!Submit
  <2>2. counting[s].by = 0
    BY <1>2, <2>1 DEF KeyInv
  <2>3. BoardTypes'
    BY <1>1, <1>2, <1>3, <2>1 DEF BoardTypes
  <2>4. judged'[s] = "PENDING" /\ counting'[s].by = 0
    BY <1>2, <2>1, <2>2 DEF BoardTypes
  <2>5. KeyInv(s)'
    BY <1>2, <2>1, <2>2, <2>4 DEF KeyInv
  <2>6. \A k : ~Counts(s, k)' /\ ~Counts(s, k)
    BY <2>1, <2>2, <2>4 DEF Counts
  <2>7. \A q \in Entries \ {s} : made'[q] = made[q] /\ counting'[q] = counting[q] /\ judged'[q] = judged[q]
    BY <1>2, <2>1 DEF BoardTypes
  <2> QED
    BY <1>1, <2>3, <2>5, <2>6, <2>7, StepKeeps
<1>5. CASE Boards!Judge(s)
  <2>1. /\ judged[s] = "PENDING" /\ counting[s] = Boards!NotCounting /\ made' = made
        /\ \/ judged' = [judged EXCEPT ![s] = "WA"] /\ counting' = counting
           \/ /\ judged' = [judged EXCEPT ![s] = "AC"]
              /\ counting' = [counting EXCEPT ![s] = [keys |-> <<>>, by |-> 1]]
    BY <1>5 DEF Boards!Judge
  <2>2. counting[s].by = 0
    BY <1>n, <2>1
  <2>3. BoardTypes'
    <3>1. [keys |-> <<>>, by |-> 1] \in [keys : KeyLists, by : {-1, 0, 1}]
      BY DEF KeyLists
    <3>2. judged' \in [Entries -> {"none", "PENDING", "WA", "AC"}]
      BY <1>2, <2>1 DEF BoardTypes
    <3>3. counting' \in [Entries -> [keys : KeyLists, by : {-1, 0, 1}]]
      BY <1>2, <2>1, <3>1 DEF BoardTypes
    <3> QED
      BY <1>1, <1>2, <2>1, <3>2, <3>3 DEF BoardTypes
  <2>4. \/ judged'[s] = "WA" /\ counting'[s] = counting[s]
        \/ judged'[s] = "AC" /\ counting'[s] = [keys |-> <<>>, by |-> 1]
    BY <1>2, <2>1 DEF BoardTypes
  <2>5. KeyInv(s)'
    BY <2>1, <2>2, <2>4 DEF KeyInv
  <2>6. \A k : ~Counts(s, k)
    BY <2>1, <2>2 DEF Counts
  <2>7. \A k : ~Counts(s, k)'
    BY <2>2, <2>4 DEF Counts
  <2>8. \A q \in Entries \ {s} : made'[q] = made[q] /\ counting'[q] = counting[q] /\ judged'[q] = judged[q]
    BY <1>2, <2>1 DEF BoardTypes
  <2> QED
    BY <1>1, <2>3, <2>5, <2>6, <2>7, <2>8, StepKeeps
<1>6. CASE Boards!Rejudge(s)
  <2> DEFINE keys == <<Boards!Key("all", 0), Boards!GetWeekKey(made[s]), Boards!GetMonthKey(made[s])>>
  <2>1. /\ judged[s] \in {"AC", "WA"} /\ counting[s] = Boards!NotCounting /\ made' = made
        /\ judged' = [judged EXCEPT ![s] = "PENDING"]
        /\ counting' = IF judged[s] = "WA" THEN counting ELSE [counting EXCEPT ![s] = [by |-> -1, keys |-> keys]]
    BY <1>6 DEF Boards!Rejudge
  <2>2. counting[s].by = 0
    BY <1>n, <2>1
  <2>3. made[s] \in Nat
    BY <1>2 DEF BoardTypes
  <2>4. keys = Rest(made[s], 1)
    <3>1. Boards!GetWeekKey(made[s]) = Boards!PeriodKeys(made[s])[2]
      BY <2>3, OneWeek
    <3>2. Boards!GetMonthKey(made[s]) = Boards!PeriodKeys(made[s])[3] /\ Boards!Key("all", 0) = Boards!PeriodKeys(made[s])[1]
      BY DEF Boards!GetMonthKey, Boards!PeriodKeys
    <3>3. Rest(made[s], 1) = <<Boards!PeriodKeys(made[s])[1], Boards!PeriodKeys(made[s])[2], Boards!PeriodKeys(made[s])[3]>>
      BY DEF Rest, Boards!PeriodKeys
    <3> QED
      BY <3>1, <3>2, <3>3
  <2> HIDE DEF keys
  <2>5. keys \in KeyLists
    BY <2>3, <2>4 DEF KeyLists
  <2>6. BoardTypes'
    BY <1>1, <1>2, <2>1, <2>5 DEF BoardTypes
  <2>7. \A q \in Entries \ {s} : made'[q] = made[q] /\ counting'[q] = counting[q] /\ judged'[q] = judged[q]
    BY <1>2, <2>1 DEF BoardTypes
  <2>8. CASE judged[s] = "WA"
    <3>1. judged'[s] = "PENDING" /\ counting'[s] = counting[s]
      BY <1>2, <2>1, <2>8 DEF BoardTypes
    <3>2. KeyInv(s)'
      BY <2>1, <2>2, <3>1 DEF KeyInv
    <3>3. \A k : ~Counts(s, k)' /\ ~Counts(s, k)
      BY <2>2, <2>8, <3>1 DEF Counts
    <3> QED
      BY <1>1, <2>6, <2>7, <3>2, <3>3, StepKeeps
  <2>9. CASE judged[s] = "AC"
    <3>1. judged'[s] = "PENDING" /\ counting'[s] = [by |-> -1, keys |-> keys]
      BY <1>2, <2>1, <2>9 DEF BoardTypes
    <3>2. KeyInv(s)'
      BY <2>1, <2>4, <3>1 DEF KeyInv
    <3>3. ASSUME NEW k
          PROVE  Counts(s, k)' <=> Counts(s, k)
      <4>1. KeysLeft(s)' = {Boards!PeriodKeys(made[s])[i] : i \in 1..3}
        <5>1. PICK d : d = made[s]
          OBVIOUS
        <5>2. counting'[s].keys = Rest(d, 1)
          BY <2>4, <3>1, <5>1
        <5>3. KeysLeft(s)' = {Rest(d, 1)[i] : i \in DOMAIN Rest(d, 1)}
          BY <5>2 DEF KeysLeft
        <5>4. {Rest(d, 1)[i] : i \in DOMAIN Rest(d, 1)} = {Boards!PeriodKeys(d)[i] : i \in 1..3}
          BY 1 \in 1..3, RestKeys
        <5>5. KeysLeft(s)' = {Boards!PeriodKeys(d)[i] : i \in 1..3}
          BY <5>3, <5>4
        <5> QED
          BY <5>1, <5>5
      <4>2. Own(s)' = Own(s) /\ Own(s) = Boards!PeriodKeys(made[s])
        BY <2>1 DEF Own
      <4>3. Counts(s, k)' <=> \E i \in 1..3 : k = Own(s)[i]
        BY <3>1, <4>1, <4>2 DEF Counts
      <4>4. Counts(s, k) <=> \E i \in 1..3 : k = Own(s)[i]
        BY <2>2, <2>9 DEF Counts
      <4> QED
        BY <4>3, <4>4
    <3> QED
      BY <1>1, <2>6, <2>7, <3>2, <3>3, StepKeeps
  <2> QED
    BY <2>1, <2>8, <2>9
<1> QED
  BY <1>4, <1>5, <1>6

\* The worker looks up the keys of the moment, maybe after midnight (increment_ac).
LEMMA BeginKeeps ==
    ASSUME BoardsInv, NEW s \in Entries, Boards!BeginIncrement(s)
    PROVE  BoardsInv'
<1>1. /\ counting[s] = [keys |-> <<>>, by |-> 1] /\ counting' = [counting EXCEPT ![s].keys = Boards!PeriodKeys(day)]
      /\ crossed' = crossed \cup {Boards!PeriodKeys(day)[i] : i \in {k \in 1..3 : Boards!PeriodKeys(day)[k] # Own(s)[k]}}
                            \cup {Own(s)[i] : i \in {k \in 1..3 : Boards!PeriodKeys(day)[k] # Own(s)[k]}}
      /\ UNCHANGED <<day, made, judged, score, failed>>
  BY DEF Boards!BeginIncrement, Own
<1>2. BoardTypes /\ KeyInv(s)
  BY DEF BoardsInv, KeysInv
<1>3. day \in Nat /\ day \in Boards!Days
  BY <1>2, DaysAreNumbers DEF BoardTypes
<1>4. Boards!PeriodKeys(day) = Rest(day, 1)
  BY DEF Rest
<1>5. counting'[s].keys = Rest(day, 1) /\ counting'[s].by = 1
  BY <1>1, <1>2, <1>4 DEF BoardTypes
<1>6. BoardTypes'
  <2>1. Rest(day, 1) \in KeyLists
    BY <1>3 DEF KeyLists
  <2> QED
    BY <1>1, <1>2, <1>4, <2>1 DEF BoardTypes
<1>7. \A q \in Entries \ {s} : made'[q] = made[q] /\ counting'[q] = counting[q] /\ judged'[q] = judged[q]
  BY <1>1, <1>2 DEF BoardTypes
<1>8. judged[s] = "AC"
  BY <1>1, <1>2 DEF KeyInv
<1>9. Own(s)' = Own(s)
  BY <1>1 DEF Own
<1>10. \A i \in 1..3 : Boards!PeriodKeys(day)[i] # Own(s)[i] =>
          Boards!PeriodKeys(day)[i] \in crossed' /\ Own(s)[i] \in crossed'
  BY <1>1
<1>11. KeyInv(s)'
  BY <1>1, <1>3, <1>5, <1>8, <1>9, <1>10 DEF KeyInv
<1>12. ASSUME NEW k, k \notin Spoilt'
       PROVE  ~Counts(s, k)' /\ ~Counts(s, k)
  <2>1. ~Counts(s, k)
    BY <1>1 DEF Counts
  <2>2. KeysLeft(s)' = {Boards!PeriodKeys(day)[i] : i \in 1..3}
    <3>1. PICK d : d = day
      OBVIOUS
    <3>2. counting'[s].keys = Rest(d, 1)
      BY <1>5, <3>1
    <3>3. KeysLeft(s)' = {Rest(d, 1)[i] : i \in DOMAIN Rest(d, 1)}
      BY <3>2 DEF KeysLeft
    <3>4. {Rest(d, 1)[i] : i \in DOMAIN Rest(d, 1)} = {Boards!PeriodKeys(d)[i] : i \in 1..3}
      BY 1 \in 1..3, RestKeys
    <3>5. KeysLeft(s)' = {Boards!PeriodKeys(d)[i] : i \in 1..3}
      BY <3>3, <3>4
    <3> QED
      BY <3>1, <3>5
  <2>3. ASSUME NEW i \in 1..3, k = Own(s)[i]
        PROVE  k \in KeysLeft(s)'
    <3>1. Own(s)[i] = Boards!PeriodKeys(day)[i]
      BY <1>10, <1>12, <2>3 DEF Spoilt
    <3> QED
      BY <2>2, <2>3, <3>1
  <2> QED
    BY <1>5, <1>9, <2>1, <2>3 DEF Counts
<1> QED
  BY <1>1, <1>6, <1>7, <1>11, <1>12, StepKeeps

\* A call to Redis fails: the worker gives up the rest, the rejudge one key.
LEMMA FailureKeeps ==
    ASSUME BoardsInv, NEW s \in Entries, Boards!IncrementFails(s) \/ Boards!DeductFails(s)
    PROVE  BoardsInv'
<1>1. BoardTypes /\ KeyInv(s)
  BY DEF BoardsInv, KeysInv
<1>n. Boards!NotCounting = [keys |-> <<>>, by |-> 0] /\ Boards!NotCounting \in [keys : KeyLists, by : {-1, 0, 1}]
  BY DEF Boards!NotCounting, KeyLists
<1>2. UNCHANGED <<day, made, judged, score, crossed>> /\ counting[s].keys # <<>>
  BY DEF Boards!IncrementFails, Boards!DeductFails
<1>3. Own(s)' = Own(s)
  BY <1>2 DEF Own
<1>4. CASE Boards!IncrementFails(s)
  <2>1. /\ counting[s].by = 1 /\ counting' = [counting EXCEPT ![s] = Boards!NotCounting]
        /\ failed' = failed \cup KeysLeft(s)
    BY <1>4 DEF Boards!IncrementFails, KeysLeft
  <2>2. counting'[s] = Boards!NotCounting /\ counting'[s].by = 0
    BY <1>1, <1>n, <2>1 DEF BoardTypes
  <2>3. BoardTypes'
    BY <1>1, <1>n, <1>2, <2>1 DEF BoardTypes
  <2>4. \A q \in Entries \ {s} : made'[q] = made[q] /\ counting'[q] = counting[q] /\ judged'[q] = judged[q]
    BY <1>1, <1>2, <2>1 DEF BoardTypes
  <2>5. judged[s] = "AC"
    BY <1>1, <2>1 DEF KeyInv
  <2>6. KeyInv(s)'
    BY <2>2 DEF KeyInv
  <2>7. ASSUME NEW k, k \notin Spoilt'
        PROVE  Counts(s, k)' <=> Counts(s, k)
    <3>1. k \notin KeysLeft(s)
      BY <2>1, <2>7 DEF Spoilt
    <3>2. Counts(s, k) <=> \E i \in 1..3 : k = Own(s)[i]
      BY <1>2, <2>1, <3>1 DEF Counts
    <3>3. Counts(s, k)' <=> \E i \in 1..3 : k = Own(s)[i]
      BY <1>2, <1>3, <2>2, <2>5 DEF Counts
    <3> QED
      BY <3>2, <3>3
  <2>8. failed \subseteq failed'
    BY <2>1
  <2> QED
    BY <1>2, <2>3, <2>4, <2>6, <2>7, <2>8, StepKeeps
<1>5. CASE Boards!DeductFails(s)
  <2>1. /\ counting[s].by = -1 /\ failed' = failed \cup {Head(counting[s].keys)}
        /\ counting' = [counting EXCEPT ![s] = Boards!NextKey(@)]
    BY <1>5 DEF Boards!DeductFails
  <2>2. judged[s] = "PENDING" /\ made[s] \in Nat
    BY <1>1, <2>1 DEF KeyInv, BoardTypes
  <2>3. PICK n \in 1..3 : counting[s].keys = Rest(made[s], n)
    BY <1>1, <2>1 DEF KeyInv
  <2>4. /\ Head(counting[s].keys) = Own(s)[n]
        /\ Len(counting[s].keys) = 1 <=> n = 3
        /\ n < 3 => Tail(counting[s].keys) = Rest(made[s], n + 1)
        /\ KeysLeft(s) = {Own(s)[i] : i \in n..3}
    <3>1. PICK d : d = made[s]
      OBVIOUS
    <3>2. counting[s].keys = Rest(d, n)
      BY <2>3, <3>1
    <3>3. Head(Rest(d, n)) = Boards!PeriodKeys(d)[n] /\ (Len(Rest(d, n)) = 1 <=> n = 3)
      BY RestFacts
    <3>4. n < 3 => Tail(Rest(d, n)) = Rest(d, n + 1)
      BY RestFacts
    <3>5. KeysLeft(s) = {Boards!PeriodKeys(d)[i] : i \in n..3}
      BY <3>2, LeftOf
    <3>6. Own(s) = Boards!PeriodKeys(d)
      BY <3>1 DEF Own
    <3>7. KeysLeft(s) = {Own(s)[i] : i \in n..3}
      BY <3>5, <3>6
    <3>8. Head(counting[s].keys) = Own(s)[n] /\ (Len(counting[s].keys) = 1 <=> n = 3)
      BY <3>2, <3>3, <3>6
    <3>9. n < 3 => Tail(counting[s].keys) = Rest(made[s], n + 1)
      BY <3>1, <3>2, <3>4
    <3> QED
      BY <3>7, <3>8, <3>9
  <2>5. \A q \in Entries \ {s} : made'[q] = made[q] /\ counting'[q] = counting[q] /\ judged'[q] = judged[q]
    BY <1>1, <1>2, <2>1 DEF BoardTypes
  <2>6. failed \subseteq failed'
    BY <2>1
  <2>7. CASE n = 3
    <3>1. counting' = [counting EXCEPT ![s] = Boards!NotCounting]
      BY <2>1, <2>4, <2>7 DEF Boards!NextKey
    <3>2. BoardTypes' /\ counting'[s] = Boards!NotCounting /\ counting'[s].by = 0
      BY <1>1, <1>2, <1>n, <3>1 DEF BoardTypes
    <3>3. KeyInv(s)'
      BY <3>2 DEF KeyInv
    <3>4. ASSUME NEW k, k \notin Spoilt'
          PROVE  ~Counts(s, k)' /\ ~Counts(s, k)
      <4>1. k # Own(s)[3] /\ n..3 = {3}
        BY <2>1, <2>4, <2>7, <3>4 DEF Spoilt
      <4>2. k \notin KeysLeft(s)
        BY <2>4, <4>1
      <4> QED
        BY <1>2, <2>1, <2>2, <3>2, <4>2 DEF Counts
    <3> QED
      BY <1>2, <2>5, <2>6, <3>2, <3>3, <3>4, StepKeeps
  <2>8. CASE n < 3
    <3>1. n + 1 \in 1..3
      BY <2>8
    <3>2. counting[s] \in [keys : KeyLists, by : {-1, 0, 1}]
      BY <1>1 DEF BoardTypes
    <3>3. counting'[s] = [counting[s] EXCEPT !.keys = Rest(made[s], n + 1)]
      <4>1. Len(counting[s].keys) # 1
        BY <2>4, <2>8
      <4>2. counting \in [Entries -> [keys : KeyLists, by : {-1, 0, 1}]]
        BY <1>1 DEF BoardTypes
      <4>4. counting'[s] = [counting[s] EXCEPT !.keys = Tail(counting[s].keys)]
        BY <2>1, <4>1, <4>2 DEF Boards!NextKey
      <4>3. Tail(counting[s].keys) = Rest(made[s], n + 1)
        BY <2>4, <2>8
      <4> QED
        BY <4>3, <4>4
    <3>4. Rest(made[s], n + 1) \in KeyLists
      BY <2>2, <3>1 DEF KeyLists
    <3>5. [counting[s] EXCEPT !.keys = Rest(made[s], n + 1)] \in [keys : KeyLists, by : {-1, 0, 1}]
      BY <3>2, <3>4
    <3>6. BoardTypes'
      <4>1. counting' = [counting EXCEPT ![s] = counting'[s]]
        BY <1>1, <2>1 DEF BoardTypes
      <4>2. counting' \in [Entries -> [keys : KeyLists, by : {-1, 0, 1}]]
        BY <1>1, <3>3, <3>5, <4>1 DEF BoardTypes
      <4> QED
        BY <1>1, <1>2, <4>2 DEF BoardTypes
    <3>7. counting'[s].keys = Rest(made[s], n + 1) /\ counting'[s].by = -1
      BY <1>1, <2>1, <3>2, <3>3 DEF BoardTypes
    <3>8. KeyInv(s)'
      BY <1>2, <2>2, <3>1, <3>7 DEF KeyInv
    <3>9. KeysLeft(s)' = {Own(s)[i] : i \in (n + 1)..3}
      <4>1. PICK d : d = made[s]
        OBVIOUS
      <4>2. PICK m : m = n + 1
        OBVIOUS
      <4>3. m \in 1..3 /\ counting'[s].keys = Rest(d, m)
        BY <3>1, <3>7, <4>1, <4>2
      <4>4. KeysLeft(s)' = {Rest(d, m)[i] : i \in DOMAIN Rest(d, m)}
        BY <4>3 DEF KeysLeft
      <4>5. {Rest(d, m)[i] : i \in DOMAIN Rest(d, m)} = {Boards!PeriodKeys(d)[i] : i \in m..3}
        BY <4>3, RestKeys
      <4>6. KeysLeft(s)' = {Boards!PeriodKeys(d)[i] : i \in m..3}
        BY <4>4, <4>5
      <4>7. Own(s) = Boards!PeriodKeys(d)
        BY <4>1 DEF Own
      <4> QED
        BY <4>2, <4>6, <4>7
    <3>10. ASSUME NEW k, k \notin Spoilt'
           PROVE  Counts(s, k)' <=> Counts(s, k)
      <4>1. k # Own(s)[n]
        BY <2>1, <2>4, <3>10 DEF Spoilt
      <4>2. k \in KeysLeft(s)' <=> k \in KeysLeft(s)
        BY <2>4, <3>9, <4>1
      <4>3. Counts(s, k) <=> (\E i \in 1..3 : k = Own(s)[i]) /\ k \in KeysLeft(s)
        BY <2>1 DEF Counts
      <4>4. Counts(s, k)' <=> (\E i \in 1..3 : k = Own(s)[i]) /\ k \in KeysLeft(s)'
        BY <1>3, <3>7 DEF Counts
      <4> QED
        BY <4>2, <4>3, <4>4
    <3> QED
      BY <1>2, <2>5, <2>6, <3>6, <3>8, <3>10, StepKeeps
  <2> QED
    BY <2>7, <2>8
<1> QED
  BY <1>4, <1>5

\* The loop over the keys of day d has been at the n-th.
Moved(s, d, n) ==
    /\ Head(counting[s].keys) = Boards!PeriodKeys(d)[n]
    /\ KeysLeft(s) = {Boards!PeriodKeys(d)[i] : i \in n..3}
    /\ n = 3 => counting'[s] = Boards!NotCounting
    /\ n < 3 => /\ counting'[s].keys = Rest(d, n + 1) /\ counting'[s].by = counting[s].by
                /\ KeysLeft(s)' = {Boards!PeriodKeys(d)[i] : i \in (n + 1)..3}
    /\ counting' \in [Entries -> [keys : KeyLists, by : {-1, 0, 1}]]
    /\ \A q \in Entries \ {s} : counting'[q] = counting[q]

\* A step of the loop.
LEMMA NextOf ==
    ASSUME BoardTypes, NEW s \in Entries, NEW d \in Nat, NEW n \in 1..3, counting[s].keys = Rest(d, n),
           counting' = [counting EXCEPT ![s] = Boards!NextKey(@)]
    PROVE  Moved(s, d, n)
<1>1. Head(Rest(d, n)) = Boards!PeriodKeys(d)[n] /\ (Len(Rest(d, n)) = 1 <=> n = 3)
  BY RestFacts
<1>2. n < 3 => Tail(Rest(d, n)) = Rest(d, n + 1)
  BY RestFacts
<1>3. KeysLeft(s) = {Boards!PeriodKeys(d)[i] : i \in n..3}
  BY LeftOf
<1>4. counting \in [Entries -> [keys : KeyLists, by : {-1, 0, 1}]] /\ counting[s] \in [keys : KeyLists, by : {-1, 0, 1}]
  BY DEF BoardTypes
<1>5. counting'[s] = IF n = 3 THEN Boards!NotCounting ELSE [counting[s] EXCEPT !.keys = Tail(Rest(d, n))]
  BY <1>1, <1>4 DEF Boards!NextKey
<1>6. \A q \in Entries \ {s} : counting'[q] = counting[q]
  BY <1>4
<1>7. n < 3 => counting'[s].keys = Rest(d, n + 1) /\ counting'[s].by = counting[s].by
  <2>1. SUFFICES ASSUME n < 3  PROVE  counting'[s].keys = Rest(d, n + 1) /\ counting'[s].by = counting[s].by
    OBVIOUS
  <2>2. n # 3
    BY <2>1
  <2>3. counting'[s] = [counting[s] EXCEPT !.keys = Tail(Rest(d, n))]
    BY <1>5, <2>2
  <2>4. counting'[s].keys = Tail(Rest(d, n)) /\ counting'[s].by = counting[s].by
    BY <1>4, <2>3
  <2> QED
    BY <1>2, <2>1, <2>4
<1>8. counting'[s] \in [keys : KeyLists, by : {-1, 0, 1}]
  <2>1. CASE n = 3
    BY <1>5, <2>1 DEF Boards!NotCounting, KeyLists
  <2>2. CASE n < 3
    <3>1. n + 1 \in 1..3 /\ n # 3
      BY <2>2
    <3>2. Rest(d, n + 1) \in KeyLists
      BY <3>1 DEF KeyLists
    <3> QED
      BY <1>2, <1>4, <1>5, <2>2, <3>1, <3>2
  <2> QED
    BY <2>1, <2>2
<1>9. counting' \in [Entries -> [keys : KeyLists, by : {-1, 0, 1}]]
  <2>1. counting' = [counting EXCEPT ![s] = counting'[s]]
    BY <1>4
  <2> QED
    BY <1>4, <1>8, <2>1
<1>10. ASSUME n < 3
       PROVE  KeysLeft(s)' = {Boards!PeriodKeys(d)[i] : i \in (n + 1)..3}
  <2>1. PICK m \in 1..3 : m = n + 1
    BY <1>10
  <2>2. counting'[s].keys = Rest(d, m)
    BY <1>7, <1>10, <2>1
  <2>3. KeysLeft(s)' = {Rest(d, m)[i] : i \in DOMAIN Rest(d, m)}
    BY <2>2 DEF KeysLeft
  <2>4. {Rest(d, m)[i] : i \in DOMAIN Rest(d, m)} = {Boards!PeriodKeys(d)[i] : i \in m..3}
    BY RestKeys
  <2>5. KeysLeft(s)' = {Boards!PeriodKeys(d)[i] : i \in m..3}
    BY <2>3, <2>4
  <2> QED
    BY <2>1, <2>5
<1>11. Head(counting[s].keys) = Boards!PeriodKeys(d)[n]
  BY <1>1
<1>12. n = 3 => counting'[s] = Boards!NotCounting
  BY <1>5
<1>13. n < 3 => /\ counting'[s].keys = Rest(d, n + 1) /\ counting'[s].by = counting[s].by
                /\ KeysLeft(s)' = {Boards!PeriodKeys(d)[i] : i \in (n + 1)..3}
  BY <1>7, <1>10
<1> QED
  BY <1>3, <1>6, <1>9, <1>11, <1>12, <1>13 DEF Moved

\* A step that adds to one key, and changes what that key counts by one submission.
LEMMA CountStep ==
    ASSUME BoardsInv, NEW s \in Entries, NEW h, NEW by \in {-1, 1}, BoardTypes', KeyInv(s)',
           \A q \in Entries \ {s} : made'[q] = made[q] /\ counting'[q] = counting[q] /\ judged'[q] = judged[q],
           UNCHANGED <<crossed, failed>>, Boards!ZIncrBy(h, by),
           \A k : k \notin Spoilt /\ k # h => (Counts(s, k)' <=> Counts(s, k)),
           h \notin Spoilt => IF by = 1 THEN ~Counts(s, h) /\ Counts(s, h)' ELSE Counts(s, h) /\ ~Counts(s, h)'
    PROVE  BoardsInv'
<1>1. KeysInv'
  BY DEF BoardsInv, KeysInv, KeyInv, Own
<1>2. \A k : Boards!Score(k)' = Boards!Score(k) + (IF k = h THEN by ELSE 0)
  BY DEF Boards!ZIncrBy, Boards!Score
<1>3. ASSUME NEW k, k \notin Spoilt'
      PROVE  Boards!Score(k)' = Cardinality(CountedIn(k))'
  <2>1. k \notin Spoilt
    BY <1>3 DEF Spoilt
  <2>2. \A q \in Entries \ {s} : Counts(q, k)' <=> Counts(q, k)
    BY DEF Counts, Own, KeysLeft
  <2>3. Boards!Score(k) = Cardinality(CountedIn(k)) /\ Cardinality(CountedIn(k)) \in Nat
    BY <2>1, CountedFinite DEF BoardsInv, ScoreInv
  <2>4. IsFiniteSet(CountedIn(k))
    BY CountedFinite
  <2>5. CASE k # h
    <3>1. \A q \in Entries : Counts(q, k)' <=> Counts(q, k)
      BY <2>1, <2>2, <2>5
    <3>2. CountedIn(k)' = CountedIn(k)
      BY <3>1 DEF CountedIn
    <3>3. Boards!Score(k)' = Boards!Score(k)
      BY <1>2, <2>3, <2>5
    <3> QED
      BY <2>3, <3>2, <3>3
  <2>6. CASE k = h /\ by = 1
    <3>1. ~Counts(s, k) /\ Counts(s, k)'
      BY <2>1, <2>6
    <3>2. CountedIn(k)' = CountedIn(k) \cup {s} /\ s \notin CountedIn(k)
      BY <2>2, <3>1 DEF CountedIn
    <3>3. Cardinality(CountedIn(k)) + 1 = Cardinality(CountedIn(k) \cup {s})
      BY <2>4, <3>2, FS_AddElement
    <3>4. Boards!Score(k)' = Boards!Score(k) + 1
      BY <1>2, <2>6
    <3>5. Cardinality(CountedIn(k))' = Cardinality(CountedIn(k) \cup {s})
      BY <3>2
    <3> QED
      BY <2>3, <3>3, <3>4, <3>5
  <2>7. CASE k = h /\ by = -1
    <3>1. Counts(s, k) /\ ~Counts(s, k)'
      BY <2>1, <2>7
    <3>2. CountedIn(k)' = CountedIn(k) \ {s} /\ s \in CountedIn(k)
      BY <2>2, <3>1 DEF CountedIn
    <3>3. Cardinality(CountedIn(k) \ {s}) = Cardinality(CountedIn(k)) - 1
      BY <2>4, <3>2, FS_RemoveElement
    <3>4. Boards!Score(k)' = Boards!Score(k) - 1
      BY <1>2, <2>3, <2>7
    <3>5. Cardinality(CountedIn(k))' = Cardinality(CountedIn(k) \ {s})
      BY <3>2
    <3> QED
      BY <2>3, <3>3, <3>4, <3>5
  <2> QED
    BY <2>5, <2>6, <2>7
<1> QED
  BY <1>1, <1>3 DEF BoardsInv, ScoreInv

\* A key is written: for an accepted submission, or for one that is taken back.
LEMMA ApplyKeeps ==
    ASSUME BoardsInv, NEW s \in Entries, Boards!Apply(s)
    PROVE  BoardsInv'
<1>1. BoardTypes /\ KeyInv(s)
  BY DEF BoardsInv, KeysInv
<1>2. /\ counting[s].keys # <<>> /\ counting' = [counting EXCEPT ![s] = Boards!NextKey(@)]
      /\ Boards!ZIncrBy(Head(counting[s].keys), counting[s].by)
      /\ UNCHANGED <<day, made, judged, failed, crossed>>
  BY DEF Boards!Apply
<1>3. Boards!NotCounting = [keys |-> <<>>, by |-> 0]
  BY DEF Boards!NotCounting
<1>4. counting[s].by \in {-1, 1}
  <2>1. counting[s].by \in {-1, 0, 1}
    BY <1>1 DEF BoardTypes
  <2>2. counting[s].by # 0
    BY <1>1, <1>2, <1>3 DEF KeyInv
  <2> QED
    BY <2>1, <2>2
<1>5. Own(s)' = Own(s)
  BY <1>2 DEF Own
<1>6. CASE counting[s].by = 1
  <2>1. PICK d \in Boards!Days, n \in 1..3 :
           /\ counting[s].keys = Rest(d, n)
           /\ \A i \in 1..3 : Boards!PeriodKeys(d)[i] # Own(s)[i] =>
                 Boards!PeriodKeys(d)[i] \in crossed /\ Own(s)[i] \in crossed
    BY <1>1, <1>2, <1>6 DEF KeyInv
  <2>2. d \in Nat /\ judged[s] = "AC"
    BY <1>1, <1>6, DaysAreNumbers DEF KeyInv
  <2>3. PICK h : h = Boards!PeriodKeys(d)[n]
    OBVIOUS
  <2>m. Moved(s, d, n)
    BY <1>1, <1>2, <2>1, <2>2, NextOf
  <2>4. /\ Head(counting[s].keys) = h
        /\ KeysLeft(s) = {Boards!PeriodKeys(d)[i] : i \in n..3}
        /\ n = 3 => counting'[s] = Boards!NotCounting
        /\ n < 3 => /\ counting'[s].keys = Rest(d, n + 1) /\ counting'[s].by = counting[s].by
                    /\ KeysLeft(s)' = {Boards!PeriodKeys(d)[i] : i \in (n + 1)..3}
        /\ counting' \in [Entries -> [keys : KeyLists, by : {-1, 0, 1}]]
        /\ \A q \in Entries \ {s} : counting'[q] = counting[q]
    BY <2>3, <2>m DEF Moved
  <2>5. Boards!ZIncrBy(h, 1)
    BY <1>2, <1>6, <2>4
  <2>6. BoardTypes'
    BY <1>1, <1>2, <2>4 DEF BoardTypes
  <2>7. KeyInv(s)'
    <3>1. CASE n = 3
      BY <1>3, <2>4, <3>1 DEF KeyInv
    <3>2. CASE n < 3
      <4>1. n + 1 \in 1..3 /\ counting'[s].by = 1 /\ counting'[s].keys = Rest(d, n + 1) /\ judged'[s] = "AC"
        BY <1>2, <1>6, <2>2, <2>4, <3>2
      <4>2. \A i \in 1..3 : Boards!PeriodKeys(d)[i] # Own(s)'[i] =>
                 Boards!PeriodKeys(d)[i] \in crossed' /\ Own(s)'[i] \in crossed'
        BY <1>2, <1>5, <2>1
      <4> QED
        BY <4>1, <4>2 DEF KeyInv
    <3> QED
      BY <3>1, <3>2
  <2>8. \A k : Counts(s, k) <=> (\E i \in 1..3 : k = Own(s)[i]) /\ k \notin KeysLeft(s)
    BY <1>2, <1>6 DEF Counts
  <2>9. \A k : Counts(s, k)' <=> (\E i \in 1..3 : k = Own(s)[i]) /\ (n < 3 => k \notin KeysLeft(s)')
    <3>1. CASE n = 3
      <4>1. counting'[s].by = 0 /\ judged'[s] = "AC"
        BY <1>2, <1>3, <2>2, <2>4, <3>1
      <4> QED
        BY <1>5, <3>1, <4>1 DEF Counts
    <3>2. CASE n < 3
      <4>1. counting'[s].by = 1 /\ counting'[s].keys = Rest(d, n + 1) /\ n + 1 \in 1..3
        BY <1>6, <2>4, <3>2
      <4>2. Rest(d, n + 1) # <<>>
        BY <4>1, RestFacts
      <4> QED
        BY <1>5, <3>2, <4>1, <4>2 DEF Counts
    <3> QED
      BY <3>1, <3>2
  <2>10. ASSUME NEW k, k # h
         PROVE  Counts(s, k)' <=> Counts(s, k)
    <3>1. (k \in KeysLeft(s)) <=> (n < 3 /\ k \in KeysLeft(s)')
      BY <2>3, <2>4, <2>10
    <3> QED
      BY <2>8, <2>9, <3>1
  <2>11. ASSUME h \notin Spoilt
         PROVE  ~Counts(s, h) /\ Counts(s, h)'
    <3>1. h = Own(s)[n]
      BY <2>1, <2>3, <2>11 DEF Spoilt
    <3>2. h \in KeysLeft(s)
      BY <2>3, <2>4
    <3>3. n < 3 => h \notin KeysLeft(s)'
      <4>1. \A i \in (n + 1)..3 : i \in 1..3 /\ i # n
        OBVIOUS
      <4>2. \A i \in (n + 1)..3 : Boards!PeriodKeys(d)[i] # Boards!PeriodKeys(d)[n]
        BY <4>1, KeysDiffer
      <4> QED
        BY <2>3, <2>4, <4>2
    <3> QED
      BY <2>8, <2>9, <3>1, <3>2, <3>3
  <2>12. \A q \in Entries \ {s} : made'[q] = made[q] /\ counting'[q] = counting[q] /\ judged'[q] = judged[q]
    BY <1>2, <2>4
  <2> QED
    BY <1>2, <2>5, <2>6, <2>7, <2>10, <2>11, <2>12, CountStep
<1>7. CASE counting[s].by = -1
  <2>1. PICK n \in 1..3 : counting[s].keys = Rest(made[s], n)
    BY <1>1, <1>7 DEF KeyInv
  <2>2. PICK d \in Nat : d = made[s]
    BY <1>1 DEF BoardTypes
  <2>3. PICK h : h = Boards!PeriodKeys(d)[n]
    OBVIOUS
  <2>m. Moved(s, d, n)
    BY <1>1, <1>2, <2>1, <2>2, NextOf
  <2>4. /\ Head(counting[s].keys) = h
        /\ KeysLeft(s) = {Boards!PeriodKeys(d)[i] : i \in n..3}
        /\ n = 3 => counting'[s] = Boards!NotCounting
        /\ n < 3 => /\ counting'[s].keys = Rest(d, n + 1) /\ counting'[s].by = counting[s].by
                    /\ KeysLeft(s)' = {Boards!PeriodKeys(d)[i] : i \in (n + 1)..3}
        /\ counting' \in [Entries -> [keys : KeyLists, by : {-1, 0, 1}]]
        /\ \A q \in Entries \ {s} : counting'[q] = counting[q]
    BY <2>3, <2>m DEF Moved
  <2>5. Boards!ZIncrBy(h, -1)
    BY <1>2, <1>7, <2>4
  <2>6. BoardTypes'
    BY <1>1, <1>2, <2>4 DEF BoardTypes
  <2>7. judged[s] = "PENDING" /\ judged'[s] = "PENDING" /\ made'[s] = d
    BY <1>1, <1>2, <1>7, <2>2 DEF KeyInv
  <2>8. KeyInv(s)'
    <3>1. CASE n = 3
      BY <1>3, <2>4, <3>1 DEF KeyInv
    <3>2. CASE n < 3
      <4>1. n + 1 \in 1..3 /\ counting'[s].by = -1 /\ counting'[s].keys = Rest(made'[s], n + 1)
        BY <1>7, <2>4, <2>7, <3>2
      <4> QED
        BY <2>7, <4>1 DEF KeyInv
    <3> QED
      BY <3>1, <3>2
  <2>9. \A k : Counts(s, k) <=> (\E i \in 1..3 : k = Own(s)[i]) /\ k \in KeysLeft(s)
    BY <1>7 DEF Counts
  <2>10. \A k : Counts(s, k)' <=> (\E i \in 1..3 : k = Own(s)[i]) /\ n < 3 /\ k \in KeysLeft(s)'
    <3>1. CASE n = 3
      <4>1. counting'[s].by = 0 /\ judged'[s] # "AC"
        BY <1>3, <2>4, <2>7, <3>1
      <4> QED
        BY <3>1, <4>1 DEF Counts
    <3>2. CASE n < 3
      <4>1. counting'[s].by = -1
        BY <1>7, <2>4, <3>2
      <4> QED
        BY <1>5, <3>2, <4>1 DEF Counts
    <3> QED
      BY <3>1, <3>2
  <2>11. ASSUME NEW k, k # h
         PROVE  Counts(s, k)' <=> Counts(s, k)
    <3>1. (k \in KeysLeft(s)) <=> (n < 3 /\ k \in KeysLeft(s)')
      BY <2>3, <2>4, <2>11
    <3> QED
      BY <2>9, <2>10, <3>1
  <2>12. Counts(s, h) /\ ~Counts(s, h)'
    <3>1. h = Own(s)[n]
      BY <2>2, <2>3 DEF Own
    <3>2. h \in KeysLeft(s)
      BY <2>3, <2>4
    <3>3. n < 3 => h \notin KeysLeft(s)'
      <4>1. \A i \in (n + 1)..3 : i \in 1..3 /\ i # n
        OBVIOUS
      <4>2. \A i \in (n + 1)..3 : Boards!PeriodKeys(d)[i] # Boards!PeriodKeys(d)[n]
        BY <4>1, KeysDiffer
      <4> QED
        BY <2>3, <2>4, <4>2
    <3> QED
      BY <2>9, <2>10, <3>1, <3>2, <3>3
  <2>13. \A q \in Entries \ {s} : made'[q] = made[q] /\ counting'[q] = counting[q] /\ judged'[q] = judged[q]
    BY <1>2, <2>4
  <2> QED
    BY <1>2, <2>5, <2>6, <2>8, <2>11, <2>12, <2>13, CountStep
<1> QED
  BY <1>4, <1>6, <1>7

\* Nothing has been made when the boards start.
LEMMA BoardsInit == Boards!Init => BoardsInv
<1> SUFFICES ASSUME Boards!Init  PROVE  BoardsInv
  OBVIOUS
<1>1. /\ day = FirstDay /\ made = [s \in Entries |-> 0] /\ judged = [s \in Entries |-> "none"]
      /\ counting = [s \in Entries |-> Boards!NotCounting] /\ score = <<>>
  BY DEF Boards!Init
<1>2. Boards!NotCounting = [keys |-> <<>>, by |-> 0] /\ Boards!NotCounting \in [keys : KeyLists, by : {-1, 0, 1}]
  BY DEF Boards!NotCounting, KeyLists
<1>3. FirstDay \in Boards!Days
  BY DEF Boards!BoardsAssumption, Boards!Days
<1>4. \A s \in Entries : counting[s] = Boards!NotCounting /\ counting[s].by = 0 /\ judged[s] = "none"
  BY <1>1, <1>2
<1>5. BoardTypes
  <2>1. counting \in [Entries -> [keys : KeyLists, by : {-1, 0, 1}]]
    BY <1>1, <1>2
  <2> QED
    BY <1>1, <1>3, <2>1 DEF BoardTypes
<1>6. KeysInv
  BY <1>4 DEF KeysInv, KeyInv
<1>7. ASSUME NEW k
      PROVE  Boards!Score(k) = Cardinality(CountedIn(k))
  <2>1. CountedIn(k) = {}
    BY <1>4 DEF CountedIn, Counts
  <2>2. Cardinality(CountedIn(k)) = 0
    BY <2>1, FS_EmptySet
  <2>3. DOMAIN score = {}
    BY <1>1
  <2> QED
    BY <2>2, <2>3 DEF Boards!Score
<1> QED
  BY <1>5, <1>6, <1>7 DEF BoardsInv, ScoreInv

\* Midnight and a stutter change no key.
LEMMA MidnightKeeps == BoardsInv /\ (Boards!Midnight \/ UNCHANGED Boards!vars) => BoardsInv'
<1> SUFFICES ASSUME BoardsInv, Boards!Midnight \/ UNCHANGED Boards!vars  PROVE  BoardsInv'
  OBVIOUS
<1>1. UNCHANGED <<made, judged, counting, score, failed, crossed>>
  BY DEF Boards!Midnight, Boards!vars
<1>2. BoardTypes'
  <2>1. day' \in Boards!Days
    <3>1. day \in Boards!Days /\ FirstDay \in Nat /\ LastDay \in Nat
      BY DEF BoardsInv, BoardTypes, Boards!BoardsAssumption
    <3>2. CASE day' = day + 1 /\ day < LastDay
      BY <3>1, <3>2 DEF Boards!Days
    <3> QED
      BY <3>1, <3>2 DEF Boards!Midnight, Boards!vars
  <2> QED
    BY <1>1, <2>1 DEF BoardsInv, BoardTypes
<1>3. KeysInv'
  BY <1>1 DEF BoardsInv, KeysInv, KeyInv, Own
<1>4. ScoreInv'
  <2>1. \A k, s : Counts(s, k)' <=> Counts(s, k)
    BY <1>1 DEF Counts, Own, KeysLeft
  <2>2. \A k : CountedIn(k)' = CountedIn(k)
    BY <2>1 DEF CountedIn
  <2>3. \A k : Boards!Score(k)' = Boards!Score(k)
    BY <1>1 DEF Boards!Score
  <2> QED
    BY <1>1, <2>2, <2>3 DEF BoardsInv, ScoreInv, Spoilt
<1> QED
  BY <1>2, <1>3, <1>4 DEF BoardsInv

\* The invariant of the boards.
LEMMA BoardsAlways == PartsSpec => []BoardsInv
<1>1. BoardsInv /\ [Boards!Next]_(Boards!vars) => BoardsInv'
  <2> SUFFICES ASSUME BoardsInv, [Boards!Next]_(Boards!vars)  PROVE  BoardsInv'
    OBVIOUS
  <2>1. CASE Boards!Midnight \/ UNCHANGED Boards!vars
    BY <2>1, MidnightKeeps
  <2>2. ASSUME NEW s \in Entries, Boards!Submit(s) \/ Boards!Judge(s) \/ Boards!Rejudge(s)
        PROVE  BoardsInv'
    BY <2>2, VerdictKeeps
  <2>3. ASSUME NEW s \in Entries, Boards!BeginIncrement(s)
        PROVE  BoardsInv'
    BY <2>3, BeginKeeps
  <2>4. ASSUME NEW s \in Entries, Boards!Apply(s)
        PROVE  BoardsInv'
    BY <2>4, ApplyKeeps
  <2>5. ASSUME NEW s \in Entries, Boards!IncrementFails(s) \/ Boards!DeductFails(s)
        PROVE  BoardsInv'
    BY <2>5, FailureKeeps
  <2> QED
    BY <2>1, <2>2, <2>3, <2>4, <2>5 DEF Boards!Next
<1> QED
  BY <1>1, BoardsInit, BoardsRun, PTL

\* What BoardsExact counts is what the keys count.
LEMMA AllCounted ==
    ASSUME BoardsInv, \A s \in Entries : counting[s] = Boards!NotCounting, NEW k
    PROVE  CountedIn(k) = {s \in Entries : judged[s] = "AC" /\ \E i \in 1..3 : k = Own(s)[i]}
<1>1. \A s \in Entries : counting[s].by = 0
  BY DEF Boards!NotCounting
<1> QED
  BY <1>1 DEF CountedIn, Counts

\* Once nothing is under way, each board shows the accepted submissions of its period, unless
\* a call to Redis for that very key has failed or a submission was judged in another period
\* than it was made in: for any submissions, calendar and number of failures (increment_ac,
\* the rejudge of admin.ts and the leaderboard page compute the same keys).
THEOREM BoardsAreExact == PartsSpec => []BoardsExact
<1>1. BoardsInv => Boards!BoardsExact
  <2> SUFFICES ASSUME BoardsInv, \A s \in Entries : counting[s] = Boards!NotCounting
               PROVE  LET spoilt == failed \cup crossed
                          accepted == {s \in Entries : judged[s] = "AC"}
                      IN  /\ Boards!Key("all", 0) \notin spoilt => Boards!Shown("all") = Boards!Fallback
                          /\ Boards!WeeklyKey \notin spoilt => Boards!Shown("weekly") =
                                Cardinality({s \in accepted : Boards!PeriodKeys(made[s])[2] = Boards!PeriodKeys(day)[2]})
                          /\ Boards!MonthlyKey \notin spoilt => Boards!Shown("monthly") =
                                Cardinality({s \in accepted : Boards!MonthOf(made[s]) = Boards!MonthOf(day)})
    BY DEF Boards!BoardsExact, Boards!Cardinality, Cardinality
  <2> DEFINE accepted == {s \in Entries : judged[s] = "AC"}
  <2>1. day \in Nat
    BY DaysAreNumbers DEF BoardsInv, BoardTypes
  <2>2. \A k : k \notin failed \cup crossed => Boards!Score(k) = Cardinality(CountedIn(k))
    BY DEF BoardsInv, ScoreInv, Spoilt
  <2>3. \A s : /\ Own(s)[1] = Boards!Key("all", 0) /\ Own(s)[2] = Boards!PeriodKeys(made[s])[2]
               /\ Own(s)[3] = Boards!Key("month", Boards!MonthOf(made[s]))
    BY DEF Own, Boards!PeriodKeys
  <2>4. Boards!Key("all", 0) \notin failed \cup crossed => Boards!Shown("all") = Boards!Fallback
    <3>1. CountedIn(Boards!Key("all", 0)) = accepted
      BY AllCounted, <2>3
    <3> QED
      BY <2>2, <3>1 DEF Boards!Shown, Boards!Fallback, Boards!Cardinality, Cardinality
  <2>5. Boards!WeeklyKey \notin failed \cup crossed => Boards!Shown("weekly") =
            Cardinality({s \in accepted : Boards!PeriodKeys(made[s])[2] = Boards!PeriodKeys(day)[2]})
    <3>1. Boards!WeeklyKey = Boards!PeriodKeys(day)[2]
      BY <2>1, OneWeek DEF Boards!WeeklyKey, Boards!PeriodKeys
    <3>2. PICK k : k = Boards!PeriodKeys(day)[2]
      OBVIOUS
    <3>3. \A s \in Entries : (\E i \in 1..3 : k = Own(s)[i]) <=> Own(s)[2] = k
      BY <3>2, KeysDiffer DEF Own
    <3>4. CountedIn(k) = {s \in accepted : Own(s)[2] = k}
      BY AllCounted, <3>3
    <3>5. CountedIn(k) = {s \in accepted : Boards!PeriodKeys(made[s])[2] = Boards!PeriodKeys(day)[2]}
      BY <2>3, <3>2, <3>4
    <3> QED
      BY <2>2, <3>1, <3>2, <3>5 DEF Boards!Shown
  <2>6. Boards!MonthlyKey \notin failed \cup crossed => Boards!Shown("monthly") =
            Cardinality({s \in accepted : Boards!MonthOf(made[s]) = Boards!MonthOf(day)})
    <3>1. Boards!MonthlyKey = Boards!PeriodKeys(day)[3]
      BY DEF Boards!MonthlyKey, Boards!PeriodKeys
    <3>2. PICK k : k = Boards!PeriodKeys(day)[3]
      OBVIOUS
    <3>3. \A s \in Entries : (\E i \in 1..3 : k = Own(s)[i]) <=> Own(s)[3] = k
      BY <3>2, KeysDiffer DEF Own
    <3>4. CountedIn(k) = {s \in accepted : Own(s)[3] = k}
      BY AllCounted, <3>3
    <3>5. \A s : Own(s)[3] = k <=> Boards!MonthOf(made[s]) = Boards!MonthOf(day)
      BY <2>3, <3>1, <3>2 DEF Boards!Key, Boards!MonthlyKey
    <3>6. CountedIn(k) = {s \in accepted : Boards!MonthOf(made[s]) = Boards!MonthOf(day)}
      BY <3>4, <3>5
    <3> QED
      BY <2>2, <3>1, <3>2, <3>6 DEF Boards!Shown
  <2> QED
    BY <2>4, <2>5, <2>6
<1> QED
  BY <1>1, BoardsAlways, PTL DEF BoardsExact

\* The submissions that a key may still count: those without a verdict, and those whose
\* increment has not reached it; and those that are still to be taken from it.
ToAdd(k) ==
    {s \in Entries : \/ judged[s] \in {"none", "PENDING"}
                     \/ counting[s].by = 1 /\ (counting[s].keys = <<>> \/ k \in KeysLeft(s))}
ToTake(k) == {s \in Entries : counting[s].by = -1 /\ k \in KeysLeft(s)}

\* A counter is no higher than the submissions and the rejudges allow, what is still to be
\* added included, and no lower than the rejudges allow, what is still to be taken included.
BoundsInv ==
    /\ rejudges \in Nat
    /\ \A k : /\ Boards!Score(k) \in Int
              /\ Boards!Score(k) + Cardinality(ToAdd(k)) <= Cardinality(Entries) + rejudges
              /\ Cardinality(ToTake(k)) <= Boards!Score(k) + rejudges

\* One element more or less in a finite set.
LEMMA OneMoreOrLess ==
    ASSUME NEW A, IsFiniteSet(A), NEW s, NEW B, B \subseteq A \cup {s}
    PROVE  /\ Cardinality(A) \in Nat /\ Cardinality(B) \in Nat /\ Cardinality(B) <= Cardinality(A) + 1
           /\ B \subseteq A => Cardinality(B) <= Cardinality(A)
           /\ s \in A /\ s \notin B => Cardinality(B) <= Cardinality(A) - 1
<1>1. IsFiniteSet(A \cup {s}) /\ Cardinality(A) \in Nat /\ Cardinality(A \cup {s}) <= Cardinality(A) + 1
  <2>1. PICK n \in Nat : n = Cardinality(A)
    BY FS_CardinalityType
  <2>2. IsFiniteSet(A \cup {s}) /\ Cardinality(A \cup {s}) = IF s \in A THEN n ELSE n + 1
    BY <2>1, FS_AddElement
  <2> QED
    BY <2>1, <2>2
<1>2. IsFiniteSet(B) /\ Cardinality(B) \in Nat /\ Cardinality(B) <= Cardinality(A \cup {s}) /\ Cardinality(A \cup {s}) \in Nat
  BY <1>1, FS_Subset, FS_CardinalityType
<1>3. B \subseteq A => Cardinality(B) <= Cardinality(A)
  BY FS_Subset
<1>4. ASSUME s \in A, s \notin B  PROVE Cardinality(B) <= Cardinality(A) - 1
  <2>1. B \subseteq A \ {s}
    BY <1>4
  <2>2. IsFiniteSet(A \ {s}) /\ Cardinality(A \ {s}) = Cardinality(A) - 1
    BY <1>4, FS_RemoveElement
  <2> QED
    BY <2>1, <2>2, FS_Subset
<1> QED
  BY <1>1, <1>2, <1>3, <1>4

\* A step of one submission that adds by to the key h, or nothing, or rejudges it.
LEMMA BoundStep ==
    ASSUME BoundsInv, NEW s \in Entries, NEW h, NEW by \in {-1, 0, 1}, NEW more \in {0, 1}, rejudges' = rejudges + more,
           \A q \in Entries \ {s} : counting'[q] = counting[q] /\ judged'[q] = judged[q],
           \A k : Boards!Score(k)' = Boards!Score(k) + (IF k = h THEN by ELSE 0),
           \A k : (s \in ToAdd(k)' => s \in ToAdd(k) \/ more = 1) /\ (s \in ToTake(k)' => s \in ToTake(k) \/ more = 1),
           by = 1 => s \in ToAdd(h) /\ s \notin ToAdd(h)' /\ more = 0,
           by = -1 => s \in ToTake(h) /\ s \notin ToTake(h)' /\ more = 0
    PROVE  BoundsInv'
<1> SUFFICES ASSUME NEW k
             PROVE  /\ Boards!Score(k)' \in Int
                    /\ Boards!Score(k)' + Cardinality(ToAdd(k)') <= Cardinality(Entries) + rejudges'
                    /\ Cardinality(ToTake(k)') <= Boards!Score(k)' + rejudges'
  <2>1. rejudges' \in Nat
    BY DEF BoundsInv
  <2> QED
    BY <2>1 DEF BoundsInv
<1>1. \A q \in Entries \ {s} : (q \in ToAdd(k)' <=> q \in ToAdd(k)) /\ (q \in ToTake(k)' <=> q \in ToTake(k))
  BY DEF ToAdd, ToTake, KeysLeft
<1>2. ToAdd(k) \subseteq Entries /\ ToAdd(k)' \subseteq Entries /\ ToTake(k) \subseteq Entries /\ ToTake(k)' \subseteq Entries
  BY DEF ToAdd, ToTake
<1>3. PICK A, B, C, D : A = ToAdd(k) /\ B = ToAdd(k)' /\ C = ToTake(k) /\ D = ToTake(k)'
  OBVIOUS
<1>4. /\ B \subseteq A \cup {s} /\ D \subseteq C \cup {s} /\ (more = 0 => B \subseteq A /\ D \subseteq C)
      /\ (k = h /\ by = 1 => s \in A /\ s \notin B) /\ (k = h /\ by = -1 => s \in C /\ s \notin D)
  BY <1>1, <1>2, <1>3
<1>5. IsFiniteSet(A) /\ IsFiniteSet(C) /\ Cardinality(Entries) \in Nat
  BY <1>2, <1>3, DaysAreNumbers, FS_Subset, FS_CardinalityType
<1>6. /\ Cardinality(A) \in Nat /\ Cardinality(B) \in Nat /\ Cardinality(B) <= Cardinality(A) + 1
      /\ (more = 0 => Cardinality(B) <= Cardinality(A)) /\ (k = h /\ by = 1 => Cardinality(B) <= Cardinality(A) - 1)
  BY <1>4, <1>5, OneMoreOrLess
<1>7. /\ Cardinality(C) \in Nat /\ Cardinality(D) \in Nat /\ Cardinality(D) <= Cardinality(C) + 1
      /\ (more = 0 => Cardinality(D) <= Cardinality(C)) /\ (k = h /\ by = -1 => Cardinality(D) <= Cardinality(C) - 1)
  BY <1>4, <1>5, OneMoreOrLess
<1>8. PICK r \in Nat, x \in Int, y \in Int : r = rejudges /\ x = Boards!Score(k) /\ y = Boards!Score(k)' /\ y = x + (IF k = h THEN by ELSE 0)
  BY DEF BoundsInv
<1>9. x + Cardinality(A) <= Cardinality(Entries) + r /\ Cardinality(C) <= x + r
  BY <1>3, <1>8 DEF BoundsInv
<1>10. PICK a \in Nat, b \in Nat, c \in Nat, d \in Nat, n \in Nat :
           a = Cardinality(A) /\ b = Cardinality(B) /\ c = Cardinality(C) /\ d = Cardinality(D) /\ n = Cardinality(Entries)
  BY <1>5, <1>6, <1>7
<1>11. y \in Int /\ y + b <= n + (r + more) /\ d <= y + (r + more)
  <2>1. CASE k = h /\ by = 1
    BY <1>6, <1>7, <1>8, <1>9, <1>10, <2>1
  <2>2. CASE k = h /\ by = -1
    BY <1>6, <1>7, <1>8, <1>9, <1>10, <2>2
  <2>3. CASE k # h \/ by = 0
    BY <1>6, <1>7, <1>8, <1>9, <1>10, <2>3
  <2> QED
    BY <2>1, <2>2, <2>3
<1> QED
  BY <1>3, <1>8, <1>10, <1>11

\* A submission is made, judged, begins to be counted or is rejudged.
LEMMA BoundsOfVerdicts ==
    ASSUME BoardsInv, BoundsInv, NEW s \in Entries,
           Boards!Submit(s) \/ Boards!Judge(s) \/ Boards!BeginIncrement(s) \/ Boards!IncrementFails(s) \/ Boards!Rejudge(s)
    PROVE  BoundsInv'
<1>1. BoardTypes /\ KeyInv(s) /\ counting[s].by \in {-1, 0, 1} /\ judged[s] \in {"none", "PENDING", "WA", "AC"}
  BY DEF BoardsInv, KeysInv, BoardTypes
<1>2. score' = score
  BY DEF Boards!Submit, Boards!Judge, Boards!BeginIncrement, Boards!IncrementFails, Boards!Rejudge
<1>3. \A k : Boards!Score(k)' = Boards!Score(k) /\ Boards!Score(k) \in Int
  BY <1>2 DEF Boards!Score, BoundsInv
<1>4. \A k : Boards!Score(k)' = Boards!Score(k) + (IF k = 0 THEN 0 ELSE 0)
  BY <1>3
<1>5. Boards!NotCounting = [keys |-> <<>>, by |-> 0]
  BY DEF Boards!NotCounting
<1>6. \A q \in Entries \ {s} : counting'[q] = counting[q] /\ judged'[q] = judged[q]
  BY <1>1 DEF BoardTypes, Boards!Submit, Boards!Judge, Boards!BeginIncrement, Boards!IncrementFails, Boards!Rejudge
<1>7. CASE Boards!Rejudge(s)
  <2>1. rejudges' = rejudges + 1
    BY <1>7 DEF Boards!Rejudge
  <2> QED
    BY <1>4, <1>6, <2>1, BoundStep
<1>8. CASE Boards!Submit(s) \/ Boards!Judge(s) \/ Boards!BeginIncrement(s) \/ Boards!IncrementFails(s)
  <2>1. rejudges' = rejudges + 0
    BY <1>8 DEF Boards!Submit, Boards!Judge, Boards!BeginIncrement, Boards!IncrementFails, BoundsInv
  <2>2. \A k : s \in ToAdd(k)' => s \in ToAdd(k)
    <3>1. CASE Boards!Submit(s) \/ Boards!Judge(s)
      BY <3>1 DEF ToAdd, Boards!Submit, Boards!Judge
    <3>2. CASE Boards!BeginIncrement(s)
      BY <3>2 DEF ToAdd, Boards!BeginIncrement
    <3>3. CASE Boards!IncrementFails(s)
      <4>1. counting'[s].by = 0 /\ judged'[s] = "AC"
        BY <1>1, <1>5, <3>3 DEF KeyInv, BoardTypes, Boards!IncrementFails
      <4> QED
        BY <4>1 DEF ToAdd
    <3> QED
      BY <1>8, <3>1, <3>2, <3>3
  <2>3. \A k : s \notin ToTake(k)'
    <3>1. CASE Boards!Submit(s)
      <4>1. counting[s].by = 0
        BY <1>1, <3>1 DEF KeyInv, Boards!Submit
      <4> QED
        BY <3>1, <4>1 DEF ToTake, Boards!Submit
    <3>2. counting'[s].by # -1 \/ Boards!Submit(s)
      BY <1>1, <1>5, <1>8 DEF BoardTypes, Boards!Judge, Boards!BeginIncrement, Boards!IncrementFails
    <3> QED
      BY <3>1, <3>2 DEF ToTake
  <2> QED
    BY <1>4, <1>6, <2>1, <2>2, <2>3, BoundStep
<1> QED
  BY <1>7, <1>8

\* A key is written, or the call that takes a submission from it fails.
LEMMA BoundsOfKeys ==
    ASSUME BoardsInv, BoundsInv, NEW s \in Entries, Boards!Apply(s) \/ Boards!DeductFails(s)
    PROVE  BoundsInv'
<1>1. BoardTypes /\ KeyInv(s) /\ counting[s] \in [keys : KeyLists, by : {-1, 0, 1}]
  BY DEF BoardsInv, KeysInv, BoardTypes
<1>2. /\ counting[s].keys # <<>> /\ counting' = [counting EXCEPT ![s] = Boards!NextKey(@)]
      /\ UNCHANGED <<judged, rejudges>>
  BY DEF Boards!Apply, Boards!DeductFails
<1>3. Boards!NotCounting = [keys |-> <<>>, by |-> 0]
  BY DEF Boards!NotCounting
<1>4. counting[s].by \in {-1, 1}
  BY <1>1, <1>2, <1>3 DEF KeyInv
<1>5. PICK d \in Nat, n \in 1..3 : counting[s].keys = Rest(d, n)
  <2>1. CASE counting[s].by = 1
    BY <1>1, <1>2, <2>1, DaysAreNumbers DEF KeyInv
  <2>2. CASE counting[s].by = -1
    BY <1>1, <2>2 DEF KeyInv, BoardTypes
  <2> QED
    BY <1>4, <2>1, <2>2
<1>6. Moved(s, d, n)
  BY <1>1, <1>2, <1>5, NextOf
<1>7. PICK h : h = Boards!PeriodKeys(d)[n]
  OBVIOUS
<1>8. /\ Head(counting[s].keys) = h
      /\ KeysLeft(s) = {Boards!PeriodKeys(d)[i] : i \in n..3}
      /\ n = 3 => counting'[s] = Boards!NotCounting
      /\ n < 3 => /\ counting'[s].keys = Rest(d, n + 1) /\ counting'[s].by = counting[s].by
                  /\ KeysLeft(s)' = {Boards!PeriodKeys(d)[i] : i \in (n + 1)..3}
      /\ \A q \in Entries \ {s} : counting'[q] = counting[q]
  BY <1>6, <1>7 DEF Moved
<1>9. h \in KeysLeft(s) /\ (n < 3 => KeysLeft(s)' \subseteq KeysLeft(s) /\ h \notin KeysLeft(s)')
  <2>1. n < 3 => h \notin KeysLeft(s)'
    <3>1. \A i \in (n + 1)..3 : i \in 1..3 /\ i # n
      OBVIOUS
    <3>2. \A i \in (n + 1)..3 : Boards!PeriodKeys(d)[i] # Boards!PeriodKeys(d)[n]
      BY <3>1, KeysDiffer
    <3> QED
      BY <1>7, <1>8, <3>2
  <2>2. \A i \in (n + 1)..3 : i \in n..3
    OBVIOUS
  <2> QED
    BY <1>7, <1>8, <2>1, <2>2
<1>10. n < 3 => counting'[s].keys # <<>>
  <2>1. n < 3 => n + 1 \in 1..3
    OBVIOUS
  <2> QED
    BY <1>8, <2>1, RestFacts
<1>11. (judged[s] = "AC" /\ counting[s].by = 1) \/ (judged[s] = "PENDING" /\ counting[s].by = -1)
  BY <1>1, <1>4 DEF KeyInv
<1>12. n = 3 => counting'[s].by = 0
  BY <1>3, <1>8
<1>13. \A k : (s \in ToAdd(k)' => s \in ToAdd(k)) /\ (s \in ToTake(k)' => s \in ToTake(k))
  <2>1. n = 3 \/ n < 3
    OBVIOUS
  <2> QED
    BY <1>2, <1>8, <1>9, <1>10, <1>11, <1>12, <2>1 DEF ToAdd, ToTake
<1>14. counting[s].by = 1 => s \in ToAdd(h) /\ s \notin ToAdd(h)'
  <2>1. n = 3 \/ n < 3
    OBVIOUS
  <2> QED
    BY <1>2, <1>8, <1>9, <1>10, <1>11, <1>12, <2>1 DEF ToAdd
<1>15. counting[s].by = -1 => s \in ToTake(h) /\ s \notin ToTake(h)'
  <2>1. n = 3 \/ n < 3
    OBVIOUS
  <2> QED
    BY <1>2, <1>8, <1>9, <1>12, <2>1 DEF ToTake
<1>16. rejudges' = rejudges + 0
  BY <1>2 DEF BoundsInv
<1>17. \A q \in Entries \ {s} : counting'[q] = counting[q] /\ judged'[q] = judged[q]
  BY <1>2, <1>8
<1>18. CASE Boards!Apply(s)
  <2>1. Boards!ZIncrBy(h, counting[s].by)
    BY <1>8, <1>18 DEF Boards!Apply
  <2>2. PICK by \in {-1, 0, 1} : by = counting[s].by
    BY <1>4
  <2>3. \A k : Boards!Score(k) \in Int
    BY DEF BoundsInv
  <2>4. \A k : Boards!Score(k)' = Boards!Score(k) + (IF k = h THEN by ELSE 0)
    BY <2>1, <2>2, <2>3 DEF Boards!ZIncrBy, Boards!Score
  <2> QED
    BY <1>13, <1>14, <1>15, <1>16, <1>17, <2>2, <2>4, BoundStep
<1>19. CASE Boards!DeductFails(s)
  <2>1. \A k : Boards!Score(k)' = Boards!Score(k) /\ Boards!Score(k) \in Int
    BY <1>19 DEF Boards!DeductFails, Boards!Score, BoundsInv
  <2>2. \A k : Boards!Score(k)' = Boards!Score(k) + (IF k = h THEN 0 ELSE 0)
    BY <2>1
  <2> QED
    BY <1>13, <1>16, <1>17, <2>2, BoundStep
<1> QED
  BY <1>18, <1>19

\* What the guards and assignments bound.
BoardRanges ==
    /\ made \in [Entries -> Boards!Days \cup {0}]
    /\ boardTrouble \in 0..MaxTrouble /\ rejudges \in 0..MaxRejudges

\* The boards begin within their bounds, and no step leaves them.
LEMMA BoundsAlways == PartsSpec => [](BoundsInv /\ BoardRanges)
<1>1. Boards!Init => BoundsInv /\ BoardRanges
  <2> SUFFICES ASSUME Boards!Init  PROVE BoundsInv /\ BoardRanges
    OBVIOUS
  <2>1. /\ made = [s \in Entries |-> 0] /\ counting = [s \in Entries |-> Boards!NotCounting] /\ score = <<>>
        /\ boardTrouble = 0 /\ rejudges = 0
    BY DEF Boards!Init
  <2>2. \A s \in Entries : counting[s].by = 0
    BY <2>1 DEF Boards!NotCounting
  <2>3. ASSUME NEW k
        PROVE  /\ Boards!Score(k) \in Int
               /\ Boards!Score(k) + Cardinality(ToAdd(k)) <= Cardinality(Entries) + rejudges
               /\ Cardinality(ToTake(k)) <= Boards!Score(k) + rejudges
    <3>1. ToTake(k) = {} /\ ToAdd(k) \subseteq Entries
      BY <2>2 DEF ToTake, ToAdd
    <3>2. Cardinality(ToTake(k)) = 0
      BY <3>1, FS_EmptySet
    <3>3. Cardinality(ToAdd(k)) <= Cardinality(Entries) /\ Cardinality(ToAdd(k)) \in Nat /\ Cardinality(Entries) \in Nat
      BY <3>1, DaysAreNumbers, FS_Subset, FS_CardinalityType
    <3>4. Boards!Score(k) = 0
      BY <2>1 DEF Boards!Score
    <3> QED
      BY <2>1, <3>2, <3>3, <3>4
  <2>4. BoardRanges
    BY <2>1 DEF BoardRanges, Boards!BoardsAssumption
  <2> QED
    BY <2>1, <2>3, <2>4 DEF BoundsInv
<1>2. BoardsInv /\ BoundsInv /\ [Boards!Next]_(Boards!vars) => BoundsInv'
  <2> SUFFICES ASSUME BoardsInv, BoundsInv, [Boards!Next]_(Boards!vars)  PROVE BoundsInv'
    OBVIOUS
  <2>1. CASE Boards!Midnight \/ UNCHANGED Boards!vars
    <3>1. UNCHANGED <<judged, counting, score, rejudges>>
      BY <2>1 DEF Boards!Midnight, Boards!vars
    <3>2. \A k : ToAdd(k)' = ToAdd(k) /\ ToTake(k)' = ToTake(k) /\ Boards!Score(k)' = Boards!Score(k)
      BY <3>1 DEF ToAdd, ToTake, KeysLeft, Boards!Score
    <3> QED
      BY <3>1, <3>2 DEF BoundsInv
  <2>2. ASSUME NEW s \in Entries,
               \/ Boards!Submit(s) \/ Boards!Judge(s) \/ Boards!BeginIncrement(s)
               \/ Boards!IncrementFails(s) \/ Boards!Rejudge(s)
        PROVE  BoundsInv'
    BY <2>2, BoundsOfVerdicts
  <2>3. ASSUME NEW s \in Entries, Boards!Apply(s) \/ Boards!DeductFails(s)  PROVE BoundsInv'
    BY <2>3, BoundsOfKeys
  <2> QED
    BY <2>1, <2>2, <2>3 DEF Boards!Next
<1>3. BoardsInv /\ BoardRanges /\ [Boards!Next]_(Boards!vars) => BoardRanges'
  <2> SUFFICES ASSUME BoardsInv, BoardRanges, [Boards!Next]_(Boards!vars)  PROVE BoardRanges'
    OBVIOUS
  <2>1. day \in Boards!Days /\ MaxTrouble \in Nat /\ MaxRejudges \in Nat
    BY DEF BoardsInv, BoardTypes, Boards!BoardsAssumption
  <2>2. made' \in [Entries -> Boards!Days \cup {0}]
    <3>1. UNCHANGED made \/ \E s \in Entries : made' = [made EXCEPT ![s] = day]
      BY DEF Boards!Next, Boards!vars, Boards!Midnight, Boards!Submit, Boards!Judge, Boards!BeginIncrement,
             Boards!Apply, Boards!IncrementFails, Boards!DeductFails, Boards!Rejudge
    <3> QED
      BY <2>1, <3>1 DEF BoardRanges
  <2>3. UNCHANGED boardTrouble \/ (boardTrouble < MaxTrouble /\ boardTrouble' = boardTrouble + 1)
    BY DEF Boards!Next, Boards!vars, Boards!Midnight, Boards!Submit, Boards!Judge, Boards!BeginIncrement,
           Boards!Apply, Boards!IncrementFails, Boards!DeductFails, Boards!Rejudge
  <2>4. UNCHANGED rejudges \/ (rejudges < MaxRejudges /\ rejudges' = rejudges + 1)
    BY DEF Boards!Next, Boards!vars, Boards!Midnight, Boards!Submit, Boards!Judge, Boards!BeginIncrement,
           Boards!Apply, Boards!IncrementFails, Boards!DeductFails, Boards!Rejudge
  <2> QED
    BY <2>1, <2>2, <2>3, <2>4 DEF BoardRanges
<1> QED
  BY <1>1, <1>2, <1>3, BoardsAlways, BoardsRun, PTL

\* The types of the boards, the range of a counter included.
LEMMA BoardsTypeOK == PartsSpec => []Boards!TypeOK
<1>1. BoardsInv /\ BoundsInv /\ BoardRanges => Boards!TypeOK
  <2> SUFFICES ASSUME BoardsInv, BoundsInv, BoardRanges  PROVE Boards!TypeOK
    OBVIOUS
  <2>1. /\ day \in Boards!Days /\ made \in [Entries -> Boards!Days \cup {0}]
        /\ judged \in [Entries -> {"none", "PENDING", "WA", "AC"}]
        /\ boardTrouble \in 0..MaxTrouble /\ rejudges \in 0..MaxRejudges /\ MaxRejudges \in Nat
    BY DEF BoardsInv, BoardTypes, BoardRanges, Boards!BoardsAssumption
  <2>2. ASSUME NEW s \in Entries  PROVE Len(counting[s].keys) <= 3 /\ counting[s].by \in {-1, 0, 1}
    <3>1. counting[s].keys \in KeyLists /\ counting[s].by \in {-1, 0, 1}
      BY DEF BoardsInv, BoardTypes
    <3>2. ASSUME NEW d, NEW n \in 1..3  PROVE Len(Rest(d, n)) <= 3
      <4>1. PICK a, b, c : Boards!PeriodKeys(d) = <<a, b, c>>
        BY DEF Boards!PeriodKeys
      <4>2. n = 1 \/ n = 2 \/ n = 3
        OBVIOUS
      <4> QED
        BY <4>1, <4>2 DEF Rest
    <3>3. Len(<<>>) <= 3
      OBVIOUS
    <3> QED
      BY <3>1, <3>2, <3>3 DEF KeyLists
  <2>3. ASSUME NEW k \in DOMAIN score
        PROVE  score[k] \in -MaxRejudges - 1..Boards!Cardinality(Entries) + MaxRejudges
    <3>1. score[k] = Boards!Score(k)
      BY DEF Boards!Score
    <3>2. ToAdd(k) \subseteq Entries /\ ToTake(k) \subseteq Entries
      BY DEF ToAdd, ToTake
    <3>3. Cardinality(ToAdd(k)) \in Nat /\ Cardinality(ToTake(k)) \in Nat /\ Cardinality(Entries) \in Nat
      BY <3>2, DaysAreNumbers, FS_Subset, FS_CardinalityType
    <3>4. /\ Boards!Score(k) \in Int /\ Boards!Score(k) + Cardinality(ToAdd(k)) <= Cardinality(Entries) + rejudges
          /\ Cardinality(ToTake(k)) <= Boards!Score(k) + rejudges
      BY DEF BoundsInv
    <3>5. Boards!Cardinality(Entries) = Cardinality(Entries)
      BY DEF Boards!Cardinality, Cardinality
    <3>6. Boards!Score(k) \in -MaxRejudges - 1..Cardinality(Entries) + MaxRejudges
      BY <2>1, <3>3, <3>4
    <3> QED
      BY <3>1, <3>5, <3>6
  <2> QED
    BY <2>1, <2>2, <2>3 DEF Boards!TypeOK
<1> QED
  BY <1>1, BoardsAlways, BoundsAlways, PTL

-----------------------------------------------------------------------------
(* Imports and contests (ProblemBank)                                      *)

\* The steps of PartsSpec are steps of the problem bank or leave it alone.
LEMMA BankRuns == PartsSpec => Bank!Init /\ [][Bank!Next]_(Bank!vars)
<1>1. PartsInit => Bank!Init
  BY DEF PartsInit
<1>2. [PartsNext]_<<part, vars, statisticsVars, boardsVars, bankVars>> => [Bank!Next]_(Bank!vars)
  BY DEF PartsNext, bankVars, Bank!vars
<1> QED
  BY <1>1, <1>2, PTL DEF PartsSpec

\* An id that no request can draw any more: an id deleted does not come back.
Known(p) ==
    /\ \A actor \in Bank!Actors, n \in Nat : n >= edits => p # <<actor, n>>
    /\ \A q \in Imports : request[q].pc # "ok" => \A k \in Nat : p # <<q, k>>

ContestKinds == {"new contest", "contest"}
Stages == {"idle", "check", "begin", "open", "ok", "failed"}
IsContest(x) == x = [owner |-> x.owner, from |-> x.from, to |-> x.to, list |-> x.list]
Injective(list) == \A i, j \in DOMAIN list : list[i] = list[j] => i = j

BankTypes ==
    /\ request \in [Imports -> [pc : Stages, job : Jobs, rows : SUBSET (Nat \X Nat)]]
    /\ edits \in Nat
    /\ \A r \in Imports : request[r].pc \in {"check", "begin"} => request[r].rows = {}

\* What is there, and what a request names that has begun, was drawn before.
KnownInv ==
    /\ \A p \in DOMAIN problems : Known(p)
    /\ \A r \in Imports : request[r].job.kind = "cases" /\ request[r].pc \notin {"idle", "failed"} =>
          Known(request[r].job.id)

\* Rows of an import were written by its commit, and stay as long as their problem.
RowsInv ==
    /\ \A c \in cases : c.by = NoOne \/ (c.by \in Imports /\ request[c.by].pc = "ok")
    /\ \A r \in Imports : request[r].pc = "ok" => \A row \in Bank!RowsOf(r) :
          row.table = "cases" /\ Bank!Exists(row.problem) =>
             \E c \in cases : c.by = r /\ c.problem = row.problem /\ c.input = row.value

\* A contest has what is left of the list it was given last, which names nothing twice.
GoodList(list) == Bank!IsSequence(list) /\ Injective(list) /\ \A n \in DOMAIN list : Known(list[n])
HasItsList(c) ==
    /\ IsContest(contests[c]) /\ c \in DOMAIN listed
    /\ contests[c].list = Bank!Keeping(listed[c], DOMAIN problems)
    /\ GoodList(listed[c])
ListInv == \A c \in DOMAIN contests : HasItsList(c)

\* A list that was checked names nothing twice, and what its transaction has written is there.
EntriesInv ==
    \A r \in Imports : request[r].job.kind \in ContestKinds =>
       /\ request[r].pc \in {"begin", "open"} => Injective(request[r].job.items)
       /\ request[r].pc = "open" => \A x \in request[r].rows : Bank!Exists(request[r].job.items[x[1]])

BankInv == BankTypes /\ KnownInv /\ RowsInv /\ ListInv /\ EntriesInv

\* A list whose entries of some kind are as many different ones as it has places names
\* nothing twice (the count of CheckProblems).
LEMMA NamedOnce ==
    ASSUME NEW list, Bank!IsSequence(list), NEW ids,
           Cardinality({list[n] : n \in {k \in DOMAIN list : list[k] \in ids}}) = Len(list)
    PROVE  Injective(list)
<1> DEFINE S == {k \in DOMAIN list : list[k] \in ids}
           T == {list[n] : n \in S}
           f == [n \in S |-> list[n]]
<1>0. PICK len \in Nat : len = Len(list)
  BY DEF Bank!IsSequence
<1>1. DOMAIN list = 1..len /\ Len(list) = len
  BY <1>0 DEF Bank!IsSequence
<1>2. IsFiniteSet(DOMAIN list) /\ Cardinality(DOMAIN list) = len
  <2>2. IsFiniteSet(1..len) /\ Cardinality(1..len) = IF 1 > len THEN 0 ELSE len - 1 + 1
    BY FS_Interval
  <2>3. Cardinality(1..len) = len
    BY <2>2
  <2> QED
    BY <1>1, <2>2, <2>3
<1>3. IsFiniteSet(S) /\ Cardinality(S) <= len /\ (Cardinality(S) = len => S = DOMAIN list)
  BY <1>2, FS_Subset
<1>4. f \in Surjection(S, T)
  BY DEF Surjection
<1>5. IsFiniteSet(T) /\ Cardinality(T) <= Cardinality(S)
  BY <1>3, <1>4, FS_Surjection
<1>6. Cardinality(S) \in Nat
  BY <1>3, FS_CardinalityType
<1>7. Cardinality(S) = len /\ Cardinality(T) = Cardinality(S) /\ S = DOMAIN list
  <2>1. Cardinality(T) = len
    BY <1>1
  <2> HIDE DEF S, T
  <2> QED
    BY <1>1, <1>3, <1>5, <1>6, <2>1
<1>8. f \in Injection(S, T)
  BY <1>3, <1>4, <1>7, FS_SurjSameCardinalityImpliesInj
<1> QED
  BY <1>7, <1>8 DEF Injection, Injective, IsInjective

\* A list that names nothing twice has as many names as places.
LEMMA KeptCount ==
    ASSUME NEW list, Bank!IsSequence(list), Injective(list), NEW ids
    PROVE  Cardinality(Bank!Range(Bank!Keeping(list, ids))) = Cardinality(DOMAIN Bank!Keeping(list, ids))
<1> DEFINE K == Bank!Keeping(list, ids)
<1>1. K = [n \in DOMAIN K |-> K[n]] /\ DOMAIN K \subseteq DOMAIN list
  BY DEF Bank!Keeping
<1>2. \A i, j \in DOMAIN K : K[i] = K[j] => i = j
  BY DEF Bank!Keeping, Injective
<1>3. IsFiniteSet(DOMAIN K)
  <2>1. DOMAIN list = 1..Len(list) /\ Len(list) \in Nat
    BY DEF Bank!IsSequence
  <2>2. IsFiniteSet(DOMAIN list)
    BY <2>1, FS_Interval
  <2> QED
    BY <1>1, <2>2, FS_Subset
<1> HIDE DEF K
<1>4. Bank!Range(K) = {K[n] : n \in DOMAIN K}
  BY DEF Bank!Range
<1>5. K \in Bijection(DOMAIN K, Bank!Range(K))
  BY <1>1, <1>2, <1>4 DEF Bijection, Injection, Surjection, IsInjective
<1>6. ExistsBijection(DOMAIN K, Bank!Range(K))
  BY <1>5 DEF ExistsBijection
<1>7. Cardinality(DOMAIN K) = Cardinality(Bank!Range(K))
  BY <1>3, <1>6, FS_Bijection
<1> QED
  BY <1>7 DEF K

\* What is kept of a list depends on which of its names are still there.
LEMMA KeptAlike ==
    ASSUME NEW list, NEW ids, NEW others, \A n \in DOMAIN list : list[n] \in ids <=> list[n] \in others
    PROVE  Bank!Keeping(list, ids) = Bank!Keeping(list, others)
<1>1. {n \in DOMAIN list : list[n] \in ids} = {n \in DOMAIN list : list[n] \in others}
  OBVIOUS
<1> QED
  BY <1>1 DEF Bank!Keeping

\* Nothing is kept back of a list whose names are all there.
LEMMA KeptWhole ==
    ASSUME NEW list, Bank!IsSequence(list), NEW ids, \A n \in DOMAIN list : list[n] \in ids
    PROVE  Bank!Keeping(list, ids) = list
<1>1. {n \in DOMAIN list : list[n] \in ids} = DOMAIN list
  OBVIOUS
<1>2. Bank!Keeping(list, ids) = [n \in DOMAIN list |-> list[n]]
  BY <1>1 DEF Bank!Keeping
<1> QED
  BY <1>2 DEF Bank!IsSequence

\* ON DELETE CASCADE: the list without the entries of problem p.
Cut(list, p) == Bank!Keeping(list, Bank!Range(list) \ {p})

\* The cascade on what a list has kept is keeping one problem less of it.
LEMMA KeptLess ==
    \A list, ids, p : Cut(Bank!Keeping(list, ids), p) = Bank!Keeping(list, ids \ {p})
<1> TAKE list, ids, p
<1> DEFINE K == Bank!Keeping(list, ids)
           L == Bank!Keeping(K, Bank!Range(K) \ {p})
           M == Bank!Keeping(list, ids \ {p})
<1>1. DOMAIN K = {n \in DOMAIN list : list[n] \in ids} /\ \A n \in DOMAIN K : K[n] = list[n]
  BY DEF Bank!Keeping
<1>2. \A n \in DOMAIN K : K[n] \in Bank!Range(K)
  BY DEF Bank!Range
<1>3. DOMAIN M = {n \in DOMAIN list : list[n] \in ids \ {p}} /\ M = [n \in DOMAIN M |-> list[n]]
  BY DEF Bank!Keeping
<1> HIDE DEF K, M
<1>4. DOMAIN L = {n \in DOMAIN K : K[n] \in Bank!Range(K) \ {p}} /\ L = [n \in DOMAIN L |-> K[n]]
  BY DEF Bank!Keeping
<1> HIDE DEF L
<1>5. DOMAIN L = DOMAIN M
  BY <1>1, <1>2, <1>3, <1>4
<1>6. \A n \in DOMAIN L : K[n] = list[n]
  BY <1>1, <1>4
<1>7. L = M
  BY <1>3, <1>4, <1>5, <1>6
<1> QED
  BY <1>7 DEF K, L, M, Cut

\* ... and what is still there of it.
LEMMA KeptTwice ==
    ASSUME NEW list, NEW ids
    PROVE  Bank!Keeping(Bank!Keeping(list, ids), ids) = Bank!Keeping(list, ids)
<1> DEFINE K == Bank!Keeping(list, ids)
<1>1. \A n \in DOMAIN K : K[n] \in ids
  BY DEF Bank!Keeping
<1>2. K = [n \in DOMAIN K |-> K[n]]
  BY DEF Bank!Keeping
<1> HIDE DEF K
<1>3. {n \in DOMAIN K : K[n] \in ids} = DOMAIN K
  BY <1>1
<1>4. Bank!Keeping(K, ids) = [n \in DOMAIN K |-> K[n]]
  BY <1>3 DEF Bank!Keeping
<1> QED
  BY <1>2, <1>4 DEF K


\* What a job is, and where its rows are.
LEMMA JobFacts ==
    ASSUME NEW j \in Jobs
    PROVE  /\ j.kind \in {"problems", "cases", "new contest", "contest"}
           /\ j.actor \in Bank!Actors
           /\ Bank!IsSequence(j.items)
           /\ \A x \in Bank!Places(j) : x[1] \in DOMAIN j.items /\ x \in Nat \X Nat
           /\ \A k \in DOMAIN j.items : <<k, 0>> \in Bank!Places(j)
<1>1. j.kind \in {"problems", "cases", "new contest", "contest"} /\ j.actor \in Bank!Actors /\ Bank!IsSequence(j.items)
  BY DEF Bank!BankAssumption
<1>2. \A k \in DOMAIN j.items : k \in Nat
  <2>1. PICK len \in Nat : DOMAIN j.items = 1..len
    BY <1>1 DEF Bank!IsSequence
  <2> QED
    BY <2>1
<1>3. \A k \in DOMAIN j.items : IF j.kind = "problems" THEN Len(j.items[k].inputs) \in Nat ELSE TRUE
  BY DEF Bank!BankAssumption, Bank!IsSequence
<1>4. \A k \in DOMAIN j.items : <<k, 0>> \in Bank!Places(j)
  <2> TAKE k \in DOMAIN j.items
  <2>1. 0 \in 0..(IF j.kind = "problems" THEN Len(j.items[k].inputs) ELSE 0)
    BY <1>3
  <2> QED
    BY <2>1 DEF Bank!Places
<1>5. \A x \in Bank!Places(j) : x[1] \in DOMAIN j.items /\ x \in Nat \X Nat
  <2> TAKE x \in Bank!Places(j)
  <2>1. PICK k \in DOMAIN j.items : x \in {k} \X (0..(IF j.kind = "problems" THEN Len(j.items[k].inputs) ELSE 0))
    BY DEF Bank!Places
  <2>2. x[1] = k /\ x[2] \in 0..(IF j.kind = "problems" THEN Len(j.items[k].inputs) ELSE 0) /\ x = <<x[1], x[2]>>
    BY <2>1
  <2>3. x[2] \in Nat
    BY <2>2
  <2> QED
    BY <1>2, <2>1, <2>2, <2>3
<1> QED
  BY <1>1, <1>4, <1>5

\* The rows of an import of problems belong to ids of its request, those of an import of
\* cases to its problem; a contest has only entries.
LEMMA RowFacts ==
    ASSUME NEW r \in Imports, NEW x
    PROVE  LET j == request[r].job
               row == Bank!Row(r, x)
           IN  /\ j.kind = "problems" => row.table \in {"problems", "cases"} /\ row.problem = <<r, x[1]>>
               /\ j.kind = "cases" => row.table = "cases" /\ row.problem = j.id
               /\ j.kind \in ContestKinds => row.table = "entries" /\ row.problem = j.items[x[1]]
<1>1. CASE request[r].job.kind = "problems" /\ x[2] = 0
  BY <1>1 DEF Bank!Row, ContestKinds
<1>2. CASE request[r].job.kind = "problems" /\ x[2] # 0
  BY <1>2 DEF Bank!Row, ContestKinds
<1>3. CASE request[r].job.kind = "cases"
  BY <1>3 DEF Bank!Row, ContestKinds
<1>4. CASE request[r].job.kind \in ContestKinds
  BY <1>4 DEF Bank!Row, ContestKinds
<1> QED
  BY <1>1, <1>2, <1>3, <1>4

\* An id that cannot be drawn any more stays so.
LEMMA KnownStays ==
    ASSUME edits \in Nat, edits' \in Nat, edits' >= edits,
           \A q \in Imports : request[q].pc = "ok" => request'[q].pc = "ok"
    PROVE  \A p : Known(p) => Known(p)'
BY DEF Known

\* The problem of a row that was imported was drawn before.
LEMMA RowIsKnown ==
    ASSUME BankInv, NEW r \in Imports, request[r].pc = "ok", NEW row \in Bank!RowsOf(r), row.table = "cases"
    PROVE  Known(row.problem)
<1>1. PICK x \in Bank!Places(request[r].job) : row = Bank!Row(r, x)
  BY DEF Bank!RowsOf
<1>2. request[r].job \in Jobs
  BY DEF BankInv, BankTypes
<1>3. request[r].job.kind \in {"problems", "cases", "new contest", "contest"}
  BY <1>2, JobFacts
<1>4. CASE request[r].job.kind = "problems"
  <2>1. row.problem = <<r, x[1]>>
    BY <1>1, <1>4, RowFacts
  <2>2. r \notin Bank!Actors
    BY DEF Bank!BankAssumption
  <2> QED
    BY <2>1, <2>2 DEF Known
<1>5. CASE request[r].job.kind = "cases"
  <2>1. row.problem = request[r].job.id
    BY <1>1, <1>5, RowFacts
  <2> QED
    BY <1>5, <2>1 DEF BankInv, KnownInv
<1>6. CASE request[r].job.kind \in ContestKinds
  BY <1>1, <1>6, RowFacts
<1> QED
  BY <1>3, <1>4, <1>5, <1>6 DEF ContestKinds

\* A request goes on or ends in an error, while the tables stay as they are.
LEMMA RequestMoves ==
    ASSUME BankInv, NEW r \in Imports, NEW v, request' = [request EXCEPT ![r] = v],
           v \in [pc : Stages, job : Jobs, rows : SUBSET (Nat \X Nat)],
           request[r].pc # "ok", v.pc # "ok", UNCHANGED <<problems, cases, contests, listed, edits>>,
           v.pc \in {"check", "begin"} => v.rows = {},
           v.job.kind = "cases" /\ v.pc \notin {"idle", "failed"} => Known(v.job.id),
           v.job.kind \in ContestKinds =>
              /\ v.pc \in {"begin", "open"} => Injective(v.job.items)
              /\ v.pc = "open" => \A x \in v.rows : Bank!Exists(v.job.items[x[1]])
    PROVE  BankInv'
<1>1. BankTypes /\ edits \in Nat /\ edits' = edits
  BY DEF BankInv, BankTypes
<1>2. request'[r] = v /\ \A q \in Imports \ {r} : request'[q] = request[q]
  BY <1>1 DEF BankTypes
<1>3. BankTypes'
  BY <1>1, <1>2 DEF BankTypes
<1>4. \A q \in Imports : request[q].pc = "ok" => request'[q].pc = "ok" /\ request'[q] = request[q]
  BY <1>2
<1>5. \A p : Known(p) => Known(p)'
  BY <1>1, <1>4, KnownStays
<1>6. KnownInv'
  BY <1>2, <1>5 DEF BankInv, KnownInv
<1>7. RowsInv'
  <2>1. \A q \in Imports : request'[q].pc = "ok" => request[q].pc = "ok" /\ request'[q] = request[q]
    BY <1>2
  <2>2. \A q \in Imports : request'[q].pc = "ok" => Bank!RowsOf(q)' = Bank!RowsOf(q)
    BY <2>1 DEF Bank!RowsOf, Bank!Row
  <2>3. \A p : Bank!Exists(p)' <=> Bank!Exists(p)
    BY DEF Bank!Exists
  <2> QED
    BY <1>4, <2>1, <2>2, <2>3 DEF BankInv, RowsInv
<1>8. ListInv'
  BY <1>5 DEF BankInv, ListInv, HasItsList, GoodList
<1>9. EntriesInv'
  BY <1>2 DEF BankInv, EntriesInv, Bank!Exists
<1> QED
  BY <1>3, <1>6, <1>7, <1>8, <1>9 DEF BankInv


\* The guards of the handlers: a problem whose cases are imported exists.
LEMMA BeginRequestKeeps ==
    ASSUME BankInv, NEW r \in Imports, Bank!Begin(r)
    PROVE  BankInv'
<1>1. PICK j \in Jobs, stage \in {"failed", "check"} :
         /\ request' = [request EXCEPT ![r] = [pc |-> stage, job |-> j, rows |-> {}]]
         /\ stage = "check" /\ j.kind = "cases" => Bank!Exists(j.id)
  <2>1. PICK j \in Jobs :
           LET wrong == CASE j.kind = "problems" -> FALSE
                          [] j.kind = "cases" -> ~Bank!Exists(j.id) \/ ~Bank!MayEdit(j.actor, problems, j.id)
                          [] j.kind = "new contest" -> j.to <= j.from
                          [] j.kind = "contest" ->
                               \/ ~Bank!MayEdit(j.actor, contests, j.id)
                               \/ j.from # 0 /\ j.to # 0 /\ j.to <= j.from
           IN  request' = [request EXCEPT ![r] = [pc |-> IF wrong THEN "failed" ELSE "check", job |-> j, rows |-> {}]]
    BY DEF Bank!Begin
  <2>2. CASE j.kind = "cases"
    BY <2>1, <2>2
  <2>3. CASE j.kind # "cases"
    BY <2>1, <2>3
  <2> QED
    BY <2>2, <2>3
<1>2. request[r].pc = "idle" /\ UNCHANGED <<problems, cases, contests, listed, edits>>
  BY DEF Bank!Begin, Bank!tables
<1> DEFINE v == [pc |-> stage, job |-> j, rows |-> {}]
<1>3. v \in [pc : Stages, job : Jobs, rows : SUBSET (Nat \X Nat)] /\ v.pc = stage /\ v.job = j /\ v.rows = {}
  BY DEF Stages
<1>4. j.kind = "cases" /\ stage # "failed" => Known(j.id)
  BY <1>1 DEF BankInv, KnownInv, Bank!Exists
<1>5. request' = [request EXCEPT ![r] = v]
  BY <1>1
<1> HIDE DEF v
<1> QED
  BY <1>2, <1>3, <1>4, <1>5, RequestMoves

\* CheckProblems, BEGIN and an error.
LEMMA StageKeeps ==
    ASSUME BankInv, NEW r \in Imports, Bank!CheckProblems(r) \/ Bank!OpenTransaction(r) \/ Bank!Rollback(r)
    PROVE  BankInv'
<1>1. request[r] \in [pc : Stages, job : Jobs, rows : SUBSET (Nat \X Nat)] /\ request[r].job \in Jobs
  BY DEF BankInv, BankTypes
<1>2. PICK stage \in {"failed", "begin", "open"} : request' = [request EXCEPT ![r].pc = stage]
  BY DEF Bank!CheckProblems, Bank!OpenTransaction, Bank!Rollback, Bank!Goto
<1>3. request[r].pc \in {"check", "begin", "open"} /\ UNCHANGED <<problems, cases, contests, listed, edits>>
  BY DEF Bank!CheckProblems, Bank!OpenTransaction, Bank!Rollback, Bank!tables
<1> DEFINE v == [request[r] EXCEPT !.pc = stage]
<1>4. v \in [pc : Stages, job : Jobs, rows : SUBSET (Nat \X Nat)] /\ v.pc = stage /\ v.job = request[r].job /\ v.rows = request[r].rows
  BY <1>1 DEF Stages
<1>5. request' = [request EXCEPT ![r] = v]
  BY <1>2
<1> HIDE DEF v
<1>6. request'[r].pc = stage
  BY <1>4, <1>5 DEF BankInv, BankTypes
<1>7. stage = "begin" => Bank!CheckProblems(r)
  BY <1>2, <1>6 DEF Bank!OpenTransaction, Bank!Rollback, Bank!Goto, BankInv, BankTypes
<1>8. stage = "open" => Bank!OpenTransaction(r)
  BY <1>2, <1>6 DEF Bank!CheckProblems, Bank!Rollback, Bank!Goto, BankInv, BankTypes
<1>9. stage \in {"begin", "open"} => v.rows = {}
  BY <1>4, <1>7, <1>8 DEF Bank!CheckProblems, Bank!OpenTransaction, BankInv, BankTypes
<1>10. v.job.kind = "cases" => Known(v.job.id)
  BY <1>3, <1>4 DEF BankInv, KnownInv
<1>11. ASSUME v.job.kind \in ContestKinds, stage = "begin"
       PROVE  Injective(v.job.items)
  <2>1. PICK list : list = request[r].job.items
    OBVIOUS
  <2>2. PICK ids : ids = DOMAIN problems
    OBVIOUS
  <2>3. Bank!IsSequence(list)
    BY <1>1, <2>1, JobFacts
  <2>4. Bank!Goto(r, IF Bank!Cardinality({list[n] : n \in {k \in DOMAIN list : list[k] \in ids}}) # Len(list)
                     THEN "failed" ELSE "begin")
    BY <1>4, <1>7, <1>11, <2>1, <2>2 DEF Bank!CheckProblems, Bank!Exists, ContestKinds
  <2>5. Bank!Cardinality({list[n] : n \in {k \in DOMAIN list : list[k] \in ids}}) = Len(list)
    BY <1>6, <1>11, <2>4 DEF Bank!Goto, BankInv, BankTypes
  <2>6. Cardinality({list[n] : n \in {k \in DOMAIN list : list[k] \in ids}}) = Len(list)
    BY <2>5 DEF Bank!Cardinality, Cardinality
  <2> QED
    BY <1>4, <2>1, <2>3, <2>6, NamedOnce
<1>12. v.job.kind \in ContestKinds /\ stage = "open" => Injective(v.job.items)
  BY <1>4, <1>8 DEF Bank!OpenTransaction, BankInv, EntriesInv
<1> QED
  BY <1>2, <1>3, <1>4, <1>5, <1>9, <1>10, <1>11, <1>12, RequestMoves

\* A row is inserted, or violates a constraint: the problem of an entry exists.
LEMMA InsertKeeps ==
    ASSUME BankInv, NEW r \in Imports, Bank!InsertRow(r)
    PROVE  BankInv'
<1>1. request[r] \in [pc : Stages, job : Jobs, rows : SUBSET (Nat \X Nat)] /\ request[r].job \in Jobs
  BY DEF BankInv, BankTypes
<1>2. request[r].pc = "open" /\ UNCHANGED <<problems, cases, contests, listed, edits>>
  BY DEF Bank!InsertRow, Bank!tables
<1>3. PICK x \in Bank!Ahead(r) :
         IF Bank!Violates(r, Bank!Row(r, x)) THEN Bank!Goto(r, "failed")
         ELSE request' = [request EXCEPT ![r].rows = @ \cup {x}]
  BY DEF Bank!InsertRow
<1>4. request[r].job.kind = "cases" => Known(request[r].job.id)
  BY <1>2 DEF BankInv, KnownInv
<1>5. CASE Bank!Goto(r, "failed")
  <2> DEFINE v == [request[r] EXCEPT !.pc = "failed"]
  <2>1. v \in [pc : Stages, job : Jobs, rows : SUBSET (Nat \X Nat)] /\ v.pc = "failed"
    BY <1>1 DEF Stages
  <2>2. request' = [request EXCEPT ![r] = v]
    BY <1>5 DEF Bank!Goto
  <2> HIDE DEF v
  <2> QED
    BY <1>2, <2>1, <2>2, RequestMoves
<1>6. CASE ~Bank!Violates(r, Bank!Row(r, x)) /\ request' = [request EXCEPT ![r].rows = @ \cup {x}]
  <2> DEFINE v == [request[r] EXCEPT !.rows = @ \cup {x}]
  <2>1. x \in Bank!Places(request[r].job)
    BY DEF Bank!Ahead
  <2>2. x \in Nat \X Nat /\ request[r].job.kind \in {"problems", "cases", "new contest", "contest"}
    BY <1>1, <2>1, JobFacts
  <2>3. v \in [pc : Stages, job : Jobs, rows : SUBSET (Nat \X Nat)]
    BY <1>1, <2>2
  <2>4. v.pc = "open" /\ v.job = request[r].job /\ v.rows = request[r].rows \cup {x}
    BY <1>1, <1>2
  <2>5. request' = [request EXCEPT ![r] = v]
    BY <1>6
  <2> HIDE DEF v
  <2>6. ASSUME v.job.kind \in ContestKinds
        PROVE  /\ Injective(v.job.items)
               /\ \A y \in v.rows : Bank!Exists(v.job.items[y[1]])
    <3>1. /\ Injective(request[r].job.items)
          /\ \A y \in request[r].rows : Bank!Exists(request[r].job.items[y[1]])
      BY <1>2, <2>4, <2>6 DEF BankInv, EntriesInv
    <3>2. Bank!Row(r, x).table = "entries" /\ Bank!Row(r, x).problem = request[r].job.items[x[1]]
      BY <2>4, <2>6, RowFacts
    <3>3. \A w \in Bank!Written(r) : w.table = "entries"
      BY <2>4, <2>6, RowFacts DEF Bank!Written
    <3>4. Bank!Exists(request[r].job.items[x[1]])
      BY <1>6, <3>2, <3>3 DEF Bank!Violates
    <3> QED
      BY <2>4, <3>1, <3>4
  <2> QED
    BY <1>2, <1>4, <2>3, <2>4, <2>5, <2>6, RequestMoves
<1> QED
  BY <1>3, <1>5, <1>6


\* A request with one statement: new ids are fresh, rows of imports stay with their problem,
\* and a problem that a transaction refers to is not deleted.
LEMMA EditKeeps ==
    ASSUME BankInv, UNCHANGED <<request, listed>>, edits' = edits + 1,
           \A p \in DOMAIN problems' : p \in DOMAIN problems \/ \E actor \in Bank!Actors : p = <<actor, edits>>,
           \A c \in cases' : c \in cases \/ c.by = NoOne,
           \A c \in cases : c.by # NoOne /\ c.problem \in DOMAIN problems' => c \in cases',
           \A c \in DOMAIN contests' : /\ c \in DOMAIN contests /\ IsContest(contests'[c])
                                       /\ contests'[c].list = Bank!Keeping(listed[c], DOMAIN problems'),
           \A p \in DOMAIN problems : Bank!Referrers(p) # {} => p \in DOMAIN problems'
    PROVE  BankInv'
<1>1. BankTypes /\ edits \in Nat
  BY DEF BankInv, BankTypes
<1>2. BankTypes'
  BY <1>1 DEF BankTypes
<1>3. \A p : Known(p) => Known(p)'
  BY <1>1, KnownStays
<1>4. \A actor \in Bank!Actors : actor \notin Imports
  BY DEF Bank!BankAssumption
<1>5. ASSUME NEW p \in DOMAIN problems'
      PROVE  Known(p)'
  <2>1. CASE p \in DOMAIN problems
    BY <1>3, <2>1 DEF BankInv, KnownInv
  <2>2. CASE \E actor \in Bank!Actors : p = <<actor, edits>>
    <3>1. PICK actor \in Bank!Actors : p = <<actor, edits>>
      BY <2>2
    <3>2. \A n \in Nat : n >= edits + 1 => n # edits
      BY <1>1
    <3> QED
      BY <1>1, <1>4, <3>1, <3>2 DEF Known
  <2> QED
    BY <2>1, <2>2
<1>6. KnownInv'
  BY <1>3, <1>5 DEF BankInv, KnownInv
<1>7. \A p : Known(p) /\ Bank!Exists(p)' => Bank!Exists(p)
  BY <1>1 DEF Known, Bank!Exists
<1>8. RowsInv'
  <2>1. \A c \in cases' : c.by = NoOne \/ (c.by \in Imports /\ request[c.by].pc = "ok")
    BY DEF BankInv, RowsInv
  <2>2. ASSUME NEW r \in Imports, request[r].pc = "ok", NEW row \in Bank!RowsOf(r), row.table = "cases", Bank!Exists(row.problem)'
        PROVE  \E c \in cases' : c.by = r /\ c.problem = row.problem /\ c.input = row.value
    <3>1. Known(row.problem)
      BY <2>2, RowIsKnown
    <3>2. Bank!Exists(row.problem)
      BY <1>7, <2>2, <3>1
    <3>3. PICK c \in cases : c.by = r /\ c.problem = row.problem /\ c.input = row.value
      BY <2>2, <3>2 DEF BankInv, RowsInv
    <3>4. r # NoOne
      BY DEF Bank!BankAssumption
    <3>5. c \in cases'
      BY <2>2, <3>3, <3>4 DEF Bank!Exists
    <3> QED
      BY <3>3, <3>5
  <2>3. \A r \in Imports : Bank!RowsOf(r)' = Bank!RowsOf(r)
    BY DEF Bank!RowsOf, Bank!Row
  <2> QED
    BY <2>1, <2>2, <2>3 DEF RowsInv
<1>9. ListInv'
  BY <1>3 DEF BankInv, ListInv, HasItsList, GoodList
<1>10. EntriesInv'
  <2>1. ASSUME NEW r \in Imports, request[r].job.kind \in ContestKinds, request[r].pc = "open", NEW x \in request[r].rows
        PROVE  Bank!Exists(request[r].job.items[x[1]])'
    <3>1. PICK p : p = request[r].job.items[x[1]]
      OBVIOUS
    <3>2. p \in DOMAIN problems
      BY <2>1, <3>1 DEF BankInv, EntriesInv, Bank!Exists
    <3>3. Bank!Row(r, x).table = "entries" /\ Bank!Row(r, x).problem = p
      BY <2>1, <3>1, RowFacts
    <3>4. r \in Bank!Open /\ Bank!Row(r, x) \in Bank!Written(r)
      BY <2>1 DEF Bank!Open, Bank!Written
    <3>5. r \in Bank!Referrers(p)
      BY <3>3, <3>4 DEF Bank!Referrers
    <3> QED
      BY <3>1, <3>2, <3>5 DEF Bank!Exists
  <2> QED
    BY <2>1 DEF BankInv, EntriesInv
<1> QED
  BY <1>2, <1>6, <1>8, <1>9, <1>10 DEF BankInv

\* Problems come and change their title, test cases that no import wrote come and go: lists
\* of contests stay as they are.
LEMMA RowEditsKeep ==
    ASSUME BankInv, NEW actor \in Bank!Actors,
           \/ \E title \in Titles : Bank!CreateProblem(actor, title)
           \/ \E p \in DOMAIN problems : \/ \E title \in Titles : Bank!UpdateProblem(actor, p, title)
                                         \/ \E input \in Inputs : Bank!CreateCase(actor, p, input)
           \/ \E c \in {x \in cases : x.by = NoOne} :
                 Bank!DeleteCase(actor, c) \/ \E input \in Inputs : Bank!UpdateCase(actor, c, input)
    PROVE  BankInv'
<1>1. UNCHANGED <<request, listed, contests>> /\ edits' = edits + 1
  BY DEF Bank!CreateProblem, Bank!UpdateProblem, Bank!CreateCase, Bank!DeleteCase, Bank!UpdateCase, Bank!Edit
<1>2. DOMAIN problems' \in {DOMAIN problems, DOMAIN problems \cup {<<actor, edits>>}}
  BY DEF Bank!CreateProblem, Bank!UpdateProblem, Bank!CreateCase, Bank!DeleteCase, Bank!UpdateCase, Bank!WithKey
<1>3. (\A c \in cases' : c \in cases \/ c.by = NoOne) /\ (\A c \in cases : c.by # NoOne => c \in cases')
  <2>1. CASE cases' = cases
    BY <2>1
  <2>2. ASSUME NEW p \in DOMAIN problems, NEW input \in Inputs, Bank!CreateCase(actor, p, input)
        PROVE  (\A c \in cases' : c \in cases \/ c.by = NoOne) /\ (\A c \in cases : c.by # NoOne => c \in cases')
    BY <2>2 DEF Bank!CreateCase
  <2>3. ASSUME NEW x \in cases, x.by = NoOne,
               Bank!DeleteCase(actor, x) \/ \E input \in Inputs : Bank!UpdateCase(actor, x, input)
        PROVE  (\A c \in cases' : c \in cases \/ c.by = NoOne) /\ (\A c \in cases : c.by # NoOne => c \in cases')
    <3>1. \A input : [x EXCEPT !.input = input].by = x.by
      OBVIOUS
    <3> QED
      BY <2>3, <3>1 DEF Bank!DeleteCase, Bank!UpdateCase
  <2> QED
    BY <2>1, <2>2, <2>3 DEF Bank!CreateProblem, Bank!UpdateProblem
<1>4. ASSUME NEW c \in DOMAIN contests
      PROVE  contests[c].list = Bank!Keeping(listed[c], DOMAIN problems')
  <2>1. PICK list, ids : list = listed[c] /\ ids = DOMAIN problems'
    OBVIOUS
  <2>2. contests[c].list = Bank!Keeping(list, DOMAIN problems) /\ \A n \in DOMAIN list : Known(list[n])
    BY <2>1 DEF BankInv, ListInv, HasItsList, GoodList
  <2>3. edits \in Nat
    BY DEF BankInv, BankTypes
  <2>4. \A n \in DOMAIN list : list[n] # <<actor, edits>>
    BY <2>2, <2>3 DEF Known
  <2>5. PICK before : before = DOMAIN problems
    OBVIOUS
  <2>6. \A n \in DOMAIN list : list[n] \in before <=> list[n] \in ids
    BY <1>2, <2>1, <2>4, <2>5
  <2>7. Bank!Keeping(list, before) = Bank!Keeping(list, ids)
    BY <2>6, KeptAlike
  <2> QED
    BY <2>1, <2>2, <2>5, <2>7
<1>5. \A c \in DOMAIN contests : IsContest(contests[c])
  BY DEF BankInv, ListInv, HasItsList, GoodList
<1> QED
  BY <1>1, <1>2, <1>3, <1>4, <1>5, EditKeeps

\* A problem takes its rows with it, a contest goes with its list.
LEMMA DeletesKeep ==
    ASSUME BankInv, NEW actor \in Bank!Actors,
           \/ \E p \in DOMAIN problems : Bank!DeleteProblem(actor, p)
           \/ \E c \in DOMAIN contests : Bank!DeleteContest(actor, c)
    PROVE  BankInv'
<1>1. UNCHANGED <<request, listed>> /\ edits' = edits + 1
  BY DEF Bank!DeleteProblem, Bank!DeleteContest, Bank!Edit
<1>2. CASE \E c \in DOMAIN contests : Bank!DeleteContest(actor, c)
  <2>1. UNCHANGED <<problems, cases>>
    BY <1>2 DEF Bank!DeleteContest
  <2>2. \A c \in DOMAIN contests' : c \in DOMAIN contests /\ contests'[c] = contests[c]
    BY <1>2 DEF Bank!DeleteContest, Bank!WithoutKey
  <2>3. \A c \in DOMAIN contests : IsContest(contests[c]) /\ contests[c].list = Bank!Keeping(listed[c], DOMAIN problems)
    BY DEF BankInv, ListInv, HasItsList, GoodList
  <2> QED
    BY <1>1, <2>1, <2>2, <2>3, EditKeeps
<1>3. ASSUME NEW p \in DOMAIN problems, Bank!DeleteProblem(actor, p)
      PROVE  BankInv'
  <2>1. /\ Bank!Referrers(p) = {} /\ problems' = Bank!WithoutKey(problems, p) /\ cases' = {c \in cases : c.problem # p}
        /\ contests' = [c \in DOMAIN contests |->
                           [contests[c] EXCEPT !.list = Bank!Keeping(@, Bank!Range(@) \ {p})]]
    BY <1>3 DEF Bank!DeleteProblem
  <2>2. DOMAIN problems' = DOMAIN problems \ {p}
    BY <2>1 DEF Bank!WithoutKey
  <2>3. \A c \in cases : c.problem \in DOMAIN problems' => c \in cases'
    BY <2>1, <2>2
  <2>4. ASSUME NEW c \in DOMAIN contests
        PROVE  IsContest(contests'[c]) /\ contests'[c].list = Bank!Keeping(listed[c], DOMAIN problems')
    <3>1. PICK list, ids, kept : list = listed[c] /\ ids = DOMAIN problems /\ kept = contests[c].list
      OBVIOUS
    <3>2. IsContest(contests[c]) /\ kept = Bank!Keeping(list, ids)
      BY <3>1 DEF BankInv, ListInv, HasItsList, GoodList
    <3>3. contests'[c] = [contests[c] EXCEPT !.list = Bank!Keeping(kept, Bank!Range(kept) \ {p})]
      BY <2>1, <3>1
    <3>4. Bank!Keeping(kept, Bank!Range(kept) \ {p}) = Bank!Keeping(list, ids \ {p})
      <4>1. Cut(Bank!Keeping(list, ids), p) = Bank!Keeping(list, ids \ {p})
        BY KeptLess
      <4>2. Cut(kept, p) = Bank!Keeping(list, ids \ {p})
        BY <3>2, <4>1
      <4> QED
        BY <4>2 DEF Cut
    <3>5. PICK y : y = Bank!Keeping(list, ids \ {p})
      OBVIOUS
    <3>6. contests'[c] = [contests[c] EXCEPT !.list = y]
      BY <3>3, <3>4, <3>5
    <3>7. IsContest(contests'[c]) /\ contests'[c].list = y
      BY <3>2, <3>6 DEF IsContest
    <3> QED
      BY <2>2, <3>1, <3>5, <3>7
  <2>5. DOMAIN contests' = DOMAIN contests /\ cases' \subseteq cases
    BY <2>1
  <2> QED
    BY <1>1, <2>1, <2>2, <2>3, <2>4, <2>5, EditKeeps
<1> QED
  BY <1>2, <1>3


\* What COMMIT does to the problems: those of the import are added, under its ids.
LEMMA CommitProblems ==
    ASSUME BankInv, NEW r \in Imports, Bank!Commit(r)
    PROVE  /\ \A p \in DOMAIN problems : p \in DOMAIN problems'
           /\ \A p \in DOMAIN problems' : p \in DOMAIN problems \/ \E k \in Nat : p = <<r, k>>
           /\ request[r].job.kind # "problems" => DOMAIN problems' = DOMAIN problems
<1>1. request[r].job \in Jobs /\ request[r].rows \subseteq Nat \X Nat /\ request[r].pc = "open"
  BY DEF BankInv, BankTypes, Bank!Commit
<1>2. DOMAIN problems' = DOMAIN problems \cup {w.problem : w \in {x \in Bank!Written(r) : x.table = "problems"}}
  BY DEF Bank!Commit
<1>3. ASSUME NEW w \in Bank!Written(r), w.table = "problems"
      PROVE  request[r].job.kind = "problems" /\ \E k \in Nat : w.problem = <<r, k>>
  <2>1. PICK x \in request[r].rows : w = Bank!Row(r, x)
    BY DEF Bank!Written
  <2>2. request[r].job.kind \in {"problems", "cases", "new contest", "contest"}
    BY <1>1, JobFacts
  <2>3. request[r].job.kind = "problems"
    BY <1>3, <2>1, <2>2, RowFacts DEF ContestKinds
  <2>4. w.problem = <<r, x[1]>>
    BY <2>1, <2>3, RowFacts
  <2>5. x[1] \in Nat
    BY <1>1
  <2> QED
    BY <2>3, <2>4, <2>5
<1> QED
  BY <1>2, <1>3

\* COMMIT: the rows of the import are there together, the contest has the list of the job.
LEMMA CommitKeeps ==
    ASSUME BankInv, NEW r \in Imports, Bank!Commit(r)
    PROVE  BankInv'
<1> DEFINE ask == request[r].job
<1>1. /\ BankTypes /\ edits \in Nat /\ ask \in Jobs /\ edits' = edits
      /\ request[r].pc = "open" /\ Bank!Ahead(r) = {} /\ request' = [request EXCEPT ![r].pc = "ok"]
  BY DEF BankInv, BankTypes, Bank!Commit, Bank!Goto
<1>2. /\ request'[r].pc = "ok" /\ request'[r].job = ask /\ request'[r].rows = request[r].rows
      /\ \A q \in Imports \ {r} : request'[q] = request[q]
  BY <1>1 DEF BankTypes
<1>3. BankTypes'
  BY <1>1, <1>2 DEF BankTypes, Stages
<1>4. \A p : Known(p) => Known(p)'
  <2>1. \A q \in Imports : request[q].pc = "ok" => request'[q].pc = "ok"
    BY <1>2
  <2> QED
    BY <1>1, <2>1, KnownStays
<1>5. /\ \A p \in DOMAIN problems : p \in DOMAIN problems'
      /\ \A p \in DOMAIN problems' : p \in DOMAIN problems \/ \E k \in Nat : p = <<r, k>>
      /\ ask.kind # "problems" => DOMAIN problems' = DOMAIN problems
  BY CommitProblems
<1>6. /\ ask.kind \in {"problems", "cases", "new contest", "contest"} /\ Bank!IsSequence(ask.items)
      /\ \A k \in DOMAIN ask.items : <<k, 0>> \in Bank!Places(ask)
  BY <1>1, JobFacts
<1>7. \A p : Known(p) /\ p \in DOMAIN problems' => p \in DOMAIN problems
  BY <1>1, <1>5 DEF Known
<1>8. KnownInv'
  <2>1. \A p \in DOMAIN problems' : Known(p)'
    <3>1. \A k \in Nat : Known(<<r, k>>)'
      <4>1. \A actor \in Bank!Actors : actor # r
        BY DEF Bank!BankAssumption
      <4> QED
        BY <1>2, <4>1 DEF Known
    <3> QED
      BY <1>4, <1>5, <3>1 DEF BankInv, KnownInv
  <2>2. \A q \in Imports : request'[q].job = request[q].job /\
           (request'[q].pc \notin {"idle", "failed"} => request[q].pc \notin {"idle", "failed"})
    BY <1>1, <1>2
  <2> QED
    BY <1>4, <2>1, <2>2 DEF BankInv, KnownInv
<1>9. cases' = cases \cup {[problem |-> w.problem, input |-> w.value, by |-> r] :
                              w \in {x \in Bank!Written(r) : x.table = "cases"}}
  BY DEF Bank!Commit
<1>10. \A q \in Imports : Bank!RowsOf(q)' = Bank!RowsOf(q)
  <2>1. \A q \in Imports : request'[q].job = request[q].job
    BY <1>2
  <2>2. ASSUME NEW q \in Imports
        PROVE  Bank!RowsOf(q)' = Bank!RowsOf(q)
    <3>1. request'[q].job = request[q].job
      BY <2>1
    <3>2. \A x : Bank!Row(q, x)' = Bank!Row(q, x)
      BY <3>1 DEF Bank!Row
    <3> QED
      BY <3>1, <3>2 DEF Bank!RowsOf
  <2> QED
    BY <2>2
<1>11. RowsInv'
  <2>1. \A c \in cases' : c.by = NoOne \/ (c.by \in Imports /\ request'[c.by].pc = "ok")
    BY <1>2, <1>9 DEF BankInv, RowsInv
  <2>2. ASSUME NEW row \in Bank!RowsOf(r), row.table = "cases"
        PROVE  \E c \in cases' : c.by = r /\ c.problem = row.problem /\ c.input = row.value
    <3>1. PICK x \in Bank!Places(ask) : row = Bank!Row(r, x)
      BY DEF Bank!RowsOf
    <3>2. x \in request[r].rows
      BY <1>1 DEF Bank!Ahead
    <3>3. row \in Bank!Written(r)
      BY <1>1, <3>1, <3>2 DEF Bank!Written, Bank!Open
    <3>4. [problem |-> row.problem, input |-> row.value, by |-> r] \in cases'
      BY <1>9, <2>2, <3>3
    <3> QED
      BY <3>4
  <2>3. ASSUME NEW q \in Imports \ {r}, request'[q].pc = "ok", NEW row \in Bank!RowsOf(q), row.table = "cases",
               Bank!Exists(row.problem)'
        PROVE  \E c \in cases' : c.by = q /\ c.problem = row.problem /\ c.input = row.value
    <3>1. request[q].pc = "ok"
      BY <1>2, <2>3
    <3>2. Known(row.problem)
      BY <2>3, <3>1, RowIsKnown
    <3>3. Bank!Exists(row.problem)
      BY <1>7, <2>3, <3>2 DEF Bank!Exists
    <3>4. \E c \in cases : c.by = q /\ c.problem = row.problem /\ c.input = row.value
      BY <2>3, <3>1, <3>3 DEF BankInv, RowsInv
    <3> QED
      BY <1>9, <3>4
  <2> QED
    BY <1>10, <2>1, <2>2, <2>3 DEF RowsInv
<1>12. ListInv'
  <2>1. ASSUME NEW c \in DOMAIN contests, contests'[c].list = contests[c].list, IsContest(contests'[c]),
               c \in DOMAIN listed', listed'[c] = listed[c]
        PROVE  HasItsList(c)'
    <3>1. PICK list, ids, before : list = listed[c] /\ ids = DOMAIN problems' /\ before = DOMAIN problems
      OBVIOUS
    <3>2. GoodList(list) /\ contests[c].list = Bank!Keeping(list, before)
      BY <3>1 DEF BankInv, ListInv, HasItsList
    <3>3. \A n \in DOMAIN list : list[n] \in before <=> list[n] \in ids
      BY <1>5, <1>7, <3>1, <3>2 DEF GoodList
    <3>4. Bank!Keeping(list, before) = Bank!Keeping(list, ids)
      BY <3>3, KeptAlike
    <3>5. contests'[c].list = Bank!Keeping(list, ids)
      BY <2>1, <3>2, <3>4
    <3>6. GoodList(list)'
      BY <1>4, <3>2 DEF GoodList
    <3>7. GoodList(listed[c])'
      BY <2>1, <3>1, <3>6
    <3>8. contests'[c].list = Bank!Keeping(listed'[c], DOMAIN problems')
      BY <2>1, <3>1, <3>5
    <3> QED
      BY <2>1, <3>7, <3>8 DEF HasItsList
  <2>2. PICK items : items = ask.items
    OBVIOUS
  <2>3. ASSUME ask.kind \in ContestKinds
        PROVE  GoodList(items)' /\ items = Bank!Keeping(items, DOMAIN problems')
    <3>1. PICK ids : ids = DOMAIN problems'
      OBVIOUS
    <3>2. \A n \in DOMAIN items : <<n, 0>> \in request[r].rows
      BY <1>1, <1>6, <2>2 DEF Bank!Ahead
    <3>3. \A n \in DOMAIN items : Bank!Exists(items[n])
      <4>1. \A x \in request[r].rows : Bank!Exists(ask.items[x[1]])
        BY <1>1, <2>3 DEF BankInv, EntriesInv
      <4> QED
        BY <2>2, <3>2, <4>1
    <3>4. \A n \in DOMAIN items : items[n] \in ids
      BY <1>5, <3>1, <3>3 DEF Bank!Exists
    <3>5. Bank!IsSequence(items)
      BY <1>6, <2>2
    <3>6. Bank!Keeping(items, ids) = items
      BY <3>4, <3>5, KeptWhole
    <3>7. Injective(items)
      BY <1>1, <2>2, <2>3 DEF BankInv, EntriesInv
    <3>8. \A n \in DOMAIN items : Known(items[n])'
      BY <1>4, <3>3 DEF BankInv, KnownInv, Bank!Exists
    <3>9. GoodList(items)'
      BY <3>5, <3>7, <3>8 DEF GoodList
    <3> QED
      BY <3>1, <3>6, <3>9
  <2>4. ASSUME NEW c, ask.kind \in ContestKinds, contests'[c].list = items, IsContest(contests'[c]),
               c \in DOMAIN listed', listed'[c] = items
        PROVE  HasItsList(c)'
    <3>1. GoodList(listed[c])'
      BY <2>3, <2>4
    <3>2. contests'[c].list = Bank!Keeping(listed'[c], DOMAIN problems')
      BY <2>3, <2>4
    <3> QED
      BY <2>4, <3>1, <3>2 DEF HasItsList
  <2>5. \A c \in DOMAIN contests : IsContest(contests[c]) /\ c \in DOMAIN listed
    BY DEF BankInv, ListInv, HasItsList
  <2>6. CASE ask.kind \in {"problems", "cases"}
    <3>1. contests' = contests /\ listed' = listed
      BY <2>6 DEF Bank!Commit
    <3>2. \A c \in DOMAIN contests' : HasItsList(c)'
      BY <2>1, <2>5, <3>1
    <3> QED
      BY <3>2 DEF ListInv
  <2>7. CASE ask.kind = "new contest"
    <3>1. contests' = Bank!WithKey(contests, <<r, 1>>, Bank!NewContest(ask)) /\ listed' = Bank!WithKey(listed, <<r, 1>>, ask.items)
      BY <2>7 DEF Bank!Commit
    <3>2. PICK new : new = <<r, 1>>
      OBVIOUS
    <3>3. /\ DOMAIN contests' = DOMAIN contests \cup {new} /\ DOMAIN listed' = DOMAIN listed \cup {new}
          /\ contests'[new] = Bank!NewContest(ask) /\ listed'[new] = ask.items
          /\ \A c \in DOMAIN contests \ {new} : contests'[c] = contests[c]
          /\ \A c \in DOMAIN listed \ {new} : listed'[c] = listed[c]
      BY <3>1, <3>2 DEF Bank!WithKey
    <3>4. IsContest(contests'[new]) /\ contests'[new].list = items
      BY <2>2, <3>3 DEF IsContest, Bank!NewContest
    <3>5. HasItsList(new)'
      <4>1. ask.kind \in ContestKinds /\ new \in DOMAIN listed' /\ listed'[new] = items
        BY <2>2, <2>7, <3>3 DEF ContestKinds
      <4> QED
        BY <2>4, <3>4, <4>1
    <3>6. ASSUME NEW c \in DOMAIN contests', c # new
          PROVE  HasItsList(c)'
      <4>1. c \in DOMAIN contests /\ c \in DOMAIN listed' /\ contests'[c] = contests[c] /\ listed'[c] = listed[c]
            /\ IsContest(contests'[c])
        BY <2>5, <3>3, <3>6
      <4> QED
        BY <2>1, <4>1
    <3>7. \A c \in DOMAIN contests' : HasItsList(c)'
      BY <3>5, <3>6
    <3> QED
      BY <3>7 DEF ListInv
  <2>8. CASE ask.kind = "contest"
    <3>1. /\ contests' = [contests EXCEPT ![ask.id] = Bank!ChangedContest(ask)]
          /\ listed' = IF items # <<>> THEN [listed EXCEPT ![ask.id] = items] ELSE listed
      BY <2>2, <2>8 DEF Bank!Commit
    <3>2. PICK old : old = ask.id
      OBVIOUS
    <3>3. /\ DOMAIN contests' = DOMAIN contests /\ DOMAIN listed' = DOMAIN listed
          /\ \A c \in DOMAIN contests \ {old} : contests'[c] = contests[c]
          /\ \A c \in DOMAIN listed \ {old} : listed'[c] = listed[c]
      BY <3>1, <3>2
    <3>4. ASSUME old \in DOMAIN contests
          PROVE  /\ IsContest(contests'[old])
                 /\ contests'[old].list = IF items = <<>> THEN contests[old].list ELSE items
                 /\ listed'[old] = IF items = <<>> THEN listed[old] ELSE items
      <4>1. contests'[old] = Bank!ChangedContest(ask)
        BY <3>1, <3>2, <3>4
      <4>2. IsContest(contests[old]) /\ old \in DOMAIN listed
        BY <2>5, <3>4
      <4>3. PICK x, from, to, list :
               x = contests[old] /\ list = (IF items = <<>> THEN x.list ELSE items)
               /\ from = (IF ask.from = 0 THEN x.from ELSE ask.from) /\ to = (IF ask.to = 0 THEN x.to ELSE ask.to)
        OBVIOUS
      <4>4. Bank!ChangedContest(ask) = [x EXCEPT !.from = from, !.to = to, !.list = list]
        BY <2>2, <3>2, <4>3 DEF Bank!ChangedContest
      <4>5. x = [owner |-> x.owner, from |-> x.from, to |-> x.to, list |-> x.list]
        BY <4>2, <4>3 DEF IsContest
      <4>6. [x EXCEPT !.from = from, !.to = to, !.list = list] = [owner |-> x.owner, from |-> from, to |-> to, list |-> list]
        <5>1. PICK y : y = [x EXCEPT !.from = from]
          OBVIOUS
        <5>2. y = [owner |-> x.owner, from |-> from, to |-> x.to, list |-> x.list]
          BY <4>5, <5>1
        <5>3. PICK z : z = [y EXCEPT !.to = to]
          OBVIOUS
        <5>4. z = [owner |-> x.owner, from |-> from, to |-> to, list |-> x.list]
          BY <5>2, <5>3
        <5>5. [z EXCEPT !.list = list] = [owner |-> x.owner, from |-> from, to |-> to, list |-> list]
          BY <5>4
        <5>6. [x EXCEPT !.from = from, !.to = to, !.list = list] = [z EXCEPT !.list = list]
          BY <5>1, <5>3
        <5> QED
          BY <5>5, <5>6
      <4>7. contests'[old] = [owner |-> x.owner, from |-> from, to |-> to, list |-> list]
        BY <4>1, <4>4, <4>6
      <4>8. IsContest(contests'[old]) /\ contests'[old].list = list
        BY <4>7 DEF IsContest
      <4>9. listed'[old] = IF items = <<>> THEN listed[old] ELSE items
        BY <3>1, <3>2, <4>2
      <4> QED
        BY <4>3, <4>8, <4>9
    <3>5. ASSUME NEW c \in DOMAIN contests'
          PROVE  HasItsList(c)'
      <4>1. c \in DOMAIN contests /\ c \in DOMAIN listed'
        BY <2>5, <3>3
      <4>2. CASE c # old \/ items = <<>>
        <5>1. contests'[c].list = contests[c].list /\ IsContest(contests'[c]) /\ listed'[c] = listed[c]
          BY <2>5, <3>3, <3>4, <4>1, <4>2
        <5> QED
          BY <2>1, <4>1, <5>1
      <4>3. CASE c = old /\ items # <<>>
        <5>1. contests'[c].list = items /\ IsContest(contests'[c]) /\ listed'[c] = items
          BY <3>4, <4>1, <4>3
        <5> QED
          BY <2>4, <2>8, <4>1, <5>1 DEF ContestKinds
      <4> QED
        BY <4>2, <4>3
    <3>6. \A c \in DOMAIN contests' : HasItsList(c)'
      BY <3>5
    <3> QED
      BY <3>6 DEF ListInv
  <2> QED
    BY <1>6, <2>6, <2>7, <2>8
<1>13. EntriesInv'
  BY <1>2, <1>5 DEF BankInv, EntriesInv, Bank!Exists
<1> QED
  BY <1>3, <1>8, <1>11, <1>12, <1>13 DEF BankInv


\* The rows of init: the ids of nobody.
LEMMA BankInit == Bank!Init => BankInv
<1> SUFFICES ASSUME Bank!Init  PROVE  BankInv
  OBVIOUS
<1>1. /\ DOMAIN problems = {Bank!Seed(1), Bank!Seed(2)} /\ cases = {[problem |-> Bank!Seed(1), input |-> CHOOSE i \in Inputs : TRUE, by |-> NoOne]}
      /\ DOMAIN contests = {Bank!Seed(1)} /\ DOMAIN listed = {Bank!Seed(1)} /\ listed[Bank!Seed(1)] = <<Bank!Seed(1)>>
      /\ contests[Bank!Seed(1)] = [owner |-> Teacher, from |-> 1, to |-> 2, list |-> <<Bank!Seed(1)>>]
      /\ request = [r \in Imports |-> [pc |-> "idle", job |-> CHOOSE j \in Jobs : TRUE, rows |-> {}]]
      /\ edits = 0
  BY DEF Bank!Init
<1>2. (CHOOSE j \in Jobs : TRUE) \in Jobs
  BY DEF Bank!BankAssumption
<1>3. \A r \in Imports : request[r].pc = "idle" /\ request[r].rows = {}
  BY <1>1
<1>4. BankTypes
  <2>1. request \in [Imports -> [pc : Stages, job : Jobs, rows : SUBSET (Nat \X Nat)]]
    BY <1>1, <1>2 DEF Stages
  <2> QED
    BY <1>1, <1>3, <2>1 DEF BankTypes
<1>5. \A n : Known(Bank!Seed(n))
  <2>1. NoOne \notin Imports /\ NoOne \notin Bank!Actors
    BY DEF Bank!BankAssumption
  <2> QED
    BY <2>1 DEF Known, Bank!Seed
<1>6. KnownInv
  BY <1>1, <1>3, <1>5 DEF KnownInv
<1>7. RowsInv
  BY <1>1, <1>3 DEF RowsInv
<1>8. EntriesInv
  BY <1>3 DEF EntriesInv
<1>9. ListInv
  <2>1. PICK list, ids, first : list = <<Bank!Seed(1)>> /\ ids = DOMAIN problems /\ first = Bank!Seed(1)
    OBVIOUS
  <2>2. Bank!IsSequence(list) /\ DOMAIN list = {1} /\ list[1] = first
    BY <2>1 DEF Bank!IsSequence
  <2>3. \A n \in DOMAIN list : list[n] \in ids
    BY <1>1, <2>1, <2>2
  <2>4. Bank!Keeping(list, ids) = list
    BY <2>2, <2>3, KeptWhole
  <2>5. GoodList(list)
    BY <1>5, <2>1, <2>2 DEF GoodList, Injective
  <2>6. HasItsList(first)
    BY <1>1, <2>1, <2>4, <2>5 DEF HasItsList, IsContest
  <2> QED
    BY <1>1, <2>1, <2>6 DEF ListInv
<1> QED
  BY <1>4, <1>6, <1>7, <1>8, <1>9 DEF BankInv

\* The invariant of the problem bank.
LEMMA BankAlways == PartsSpec => []BankInv
<1>1. BankInv /\ [Bank!Next]_(Bank!vars) => BankInv'
  <2> SUFFICES ASSUME BankInv, [Bank!Next]_(Bank!vars)  PROVE  BankInv'
    OBVIOUS
  <2>1. CASE UNCHANGED Bank!vars
    <3>1. UNCHANGED <<problems, cases, contests, request, listed, edits>>
      BY <2>1 DEF Bank!vars
    <3>2. (BankTypes /\ KnownInv)' /\ ListInv' /\ EntriesInv'
      BY <3>1 DEF BankInv, BankTypes, KnownInv, Known, ListInv, HasItsList, GoodList, EntriesInv, Bank!Exists
    <3>3. \A r \in Imports : Bank!RowsOf(r)' = Bank!RowsOf(r)
      BY <3>1 DEF Bank!RowsOf, Bank!Row
    <3>4. RowsInv'
      BY <3>1, <3>3 DEF BankInv, RowsInv, Bank!Exists
    <3> QED
      BY <3>2, <3>4 DEF BankInv
  <2>2. ASSUME NEW r \in Imports,
               \/ Bank!Begin(r) \/ Bank!CheckProblems(r) \/ Bank!OpenTransaction(r) \/ Bank!InsertRow(r)
               \/ Bank!Rollback(r) \/ Bank!Commit(r)
        PROVE  BankInv'
    BY <2>2, BeginRequestKeeps, StageKeeps, InsertKeeps, CommitKeeps
  <2>3. ASSUME NEW actor \in Bank!Actors,
               \/ \E title \in Titles : Bank!CreateProblem(actor, title)
               \/ \E p \in DOMAIN problems : \/ Bank!DeleteProblem(actor, p)
                                             \/ \E title \in Titles : Bank!UpdateProblem(actor, p, title)
                                             \/ \E input \in Inputs : Bank!CreateCase(actor, p, input)
               \/ \E c \in {x \in cases : x.by = NoOne} :
                     Bank!DeleteCase(actor, c) \/ \E input \in Inputs : Bank!UpdateCase(actor, c, input)
               \/ \E c \in DOMAIN contests : Bank!DeleteContest(actor, c)
        PROVE  BankInv'
    <3>1. CASE \/ \E p \in DOMAIN problems : Bank!DeleteProblem(actor, p)
               \/ \E c \in DOMAIN contests : Bank!DeleteContest(actor, c)
      BY <3>1, DeletesKeep
    <3>2. CASE \/ \E title \in Titles : Bank!CreateProblem(actor, title)
               \/ \E p \in DOMAIN problems : \/ \E title \in Titles : Bank!UpdateProblem(actor, p, title)
                                             \/ \E input \in Inputs : Bank!CreateCase(actor, p, input)
               \/ \E c \in {x \in cases : x.by = NoOne} :
                     Bank!DeleteCase(actor, c) \/ \E input \in Inputs : Bank!UpdateCase(actor, c, input)
      BY <3>2, RowEditsKeep
    <3> QED
      BY <2>3, <3>1, <3>2
  <2> QED
    BY <2>1, <2>2, <2>3 DEF Bank!Next
<1> QED
  BY <1>1, BankInit, BankRuns, PTL

\* What a request with several statements writes is there as a whole once it was answered, and
\* not at all before or after an error; a contest has exactly the list of its last successful
\* request, in order, without the problems deleted since: for any jobs, requests and inputs,
\* whatever others write and delete meanwhile (the transactions of admin.ts and contests.ts).
THEOREM ImportsAreWhole == PartsSpec => []ImportIsWhole
<1>1. BankInv => Bank!ImportIsWhole
  <2> SUFFICES ASSUME BankInv  PROVE  Bank!ImportIsWhole
    OBVIOUS
  <2>1. ASSUME NEW r \in Imports, NEW row \in Bank!RowsOf(r)
        PROVE  LET present == {c \in cases : c.by = r /\ c.problem = row.problem /\ c.input = row.value} IN
               /\ request[r].pc # "ok" /\ row.table = "cases" => present = {}
               /\ request[r].pc = "ok" /\ row.table = "cases" /\ Bank!Exists(row.problem) => present # {}
               /\ request[r].pc # "ok" /\ row.table = "problems" => ~Bank!Exists(row.problem)
    <3>1. r # NoOne
      BY DEF Bank!BankAssumption
    <3>2. request[r].pc # "ok" => \A c \in cases : c.by # r
      BY <3>1 DEF BankInv, RowsInv
    <3>3. request[r].pc = "ok" /\ row.table = "cases" /\ Bank!Exists(row.problem) =>
             \E c \in cases : c.by = r /\ c.problem = row.problem /\ c.input = row.value
      BY DEF BankInv, RowsInv
    <3>4. ASSUME request[r].pc # "ok", row.table = "problems"
          PROVE  ~Bank!Exists(row.problem)
      <4>1. PICK x \in Bank!Places(request[r].job) : row = Bank!Row(r, x)
        BY DEF Bank!RowsOf
      <4>2. request[r].job \in Jobs
        BY DEF BankInv, BankTypes
      <4>3. x \in Nat \X Nat /\ request[r].job.kind \in {"problems", "cases", "new contest", "contest"}
        BY <4>2, JobFacts
      <4>4. row.problem = <<r, x[1]>>
        BY <3>4, <4>1, <4>3, RowFacts DEF ContestKinds
      <4>5. ~Known(row.problem)
        BY <3>4, <4>3, <4>4 DEF Known
      <4> QED
        BY <4>5 DEF BankInv, KnownInv, Bank!Exists
    <3> QED
      BY <3>2, <3>3, <3>4
  <2>2. ASSUME NEW c \in DOMAIN contests
        PROVE  /\ Bank!ContestDetail(c) = Bank!Keeping(listed[c], DOMAIN problems)
               /\ Bank!ProblemCount(c) = Bank!Cardinality(DOMAIN Bank!ContestDetail(c))
    <3>1. PICK list, ids : list = listed[c] /\ ids = DOMAIN problems
      OBVIOUS
    <3>2. Bank!IsSequence(list) /\ Injective(list) /\ Bank!ListOf(c) = Bank!Keeping(list, ids)
      BY <3>1 DEF BankInv, ListInv, HasItsList, GoodList, Bank!ListOf
    <3>3. Bank!Keeping(Bank!Keeping(list, ids), ids) = Bank!Keeping(list, ids)
      BY KeptTwice
    <3>4. Bank!ContestDetail(c) = Bank!Keeping(list, ids)
      BY <3>1, <3>2, <3>3 DEF Bank!ContestDetail
    <3>5. Cardinality(Bank!Range(Bank!Keeping(list, ids))) = Cardinality(DOMAIN Bank!Keeping(list, ids))
      BY <3>2, KeptCount
    <3>6. Bank!ProblemCount(c) = Cardinality(Bank!Range(Bank!ListOf(c)))
      BY DEF Bank!ProblemCount, Bank!Cardinality, Cardinality
    <3>7. Bank!Cardinality(DOMAIN Bank!ContestDetail(c)) = Cardinality(DOMAIN Bank!ContestDetail(c))
      BY DEF Bank!Cardinality, Cardinality
    <3> QED
      BY <3>1, <3>2, <3>4, <3>5, <3>6, <3>7
  <2> QED
    BY <2>1, <2>2 DEF Bank!ImportIsWhole
<1> QED
  BY <1>1, BankAlways, PTL DEF ImportIsWhole

\* The values in the rows, and where the rows of a transaction come from.
IsProblem(x) == x = [title |-> x.title, owner |-> x.owner] /\ x.owner \in Bank!Actors
IsCase(x) == x = [problem |-> x.problem, input |-> x.input, by |-> x.by] /\ x.input \in Inputs
ValuesInv ==
    /\ \A p \in DOMAIN problems : IsProblem(problems[p])
    /\ \A c \in cases : IsCase(c)
    /\ \A c \in DOMAIN contests : contests[c].from \in Nat
    /\ \A r \in Imports : request[r].rows \subseteq Bank!Places(request[r].job)
    /\ edits \in 0..MaxEdits

\* Test cases are only inserted with the inputs that a job names.
LEMMA InputsOfJobs ==
    ASSUME NEW r \in Imports, request[r].job \in Jobs, NEW x \in Bank!Places(request[r].job),
           Bank!Row(r, x).table = "cases"
    PROVE  Bank!Row(r, x).value \in Inputs
<1> DEFINE ask == request[r].job
<1>1. ask.kind \in {"problems", "cases", "new contest", "contest"} /\ x[1] \in DOMAIN ask.items
  BY JobFacts
<1>2. CASE ask.kind = "problems"
  <2>1. PICK k \in DOMAIN ask.items : x \in {k} \X (0..Len(ask.items[k].inputs))
    BY <1>2 DEF Bank!Places
  <2>2. x[1] = k /\ x[2] \in 0..Len(ask.items[k].inputs)
    BY <2>1
  <2>3. x[2] # 0
    BY <1>2 DEF Bank!Row
  <2>4. Bank!IsSequence(ask.items[k].inputs) /\ \A n \in DOMAIN ask.items[k].inputs : ask.items[k].inputs[n] \in Inputs
    BY <1>2 DEF Bank!BankAssumption
  <2>5. x[2] \in DOMAIN ask.items[k].inputs
    <3>1. PICK len \in Nat : len = Len(ask.items[k].inputs) /\ DOMAIN ask.items[k].inputs = 1..len
      BY <2>4 DEF Bank!IsSequence
    <3> QED
      BY <2>2, <2>3, <3>1
  <2>6. Bank!Row(r, x).value = ask.items[k].inputs[x[2]]
    BY <1>2, <2>2, <2>3 DEF Bank!Row
  <2> QED
    BY <2>4, <2>5, <2>6
<1>3. CASE ask.kind = "cases"
  <2>1. Bank!Row(r, x).value = ask.items[x[1]]
    BY <1>3 DEF Bank!Row
  <2> QED
    BY <1>1, <1>3, <2>1 DEF Bank!BankAssumption
<1>4. CASE ask.kind \in ContestKinds
  BY <1>4, RowFacts
<1> QED
  BY <1>1, <1>2, <1>3, <1>4 DEF ContestKinds

\* The first rows.
LEMMA ValuesInit == Bank!Init => ValuesInv
<1> SUFFICES ASSUME Bank!Init  PROVE  ValuesInv
  OBVIOUS
<1>1. PICK i \in Inputs : i = CHOOSE input \in Inputs : TRUE
  BY DEF Bank!BankAssumption
<1>2. cases = {[problem |-> Bank!Seed(1), input |-> i, by |-> NoOne]} /\ edits = 0
  BY <1>1 DEF Bank!Init
<1>3. \A c \in cases : IsCase(c)
  BY <1>2 DEF IsCase
<1>4. \A p \in DOMAIN problems : IsProblem(problems[p])
  <2>1. \A p \in DOMAIN problems : \/ problems[p] = [title |-> "one", owner |-> Teacher]
                                   \/ problems[p] = [title |-> "two", owner |-> Other]
    BY DEF Bank!Init
  <2> QED
    BY <2>1 DEF IsProblem, Bank!Actors
<1>5. \A c \in DOMAIN contests : contests[c].from = 1
  BY DEF Bank!Init
<1>6. \A r \in Imports : request[r].rows = {}
  BY DEF Bank!Init
<1>7. edits \in 0..MaxEdits
  <2>1. MaxEdits \in Nat
    BY DEF Bank!BankAssumption
  <2> QED
    BY <1>2, <2>1
<1> QED
  BY <1>3, <1>4, <1>5, <1>6, <1>7 DEF ValuesInv

\* A transaction goes on to a place of its job, or stays where it is.
LEMMA PlacesKept ==
    ASSUME BankInv, ValuesInv, NEW r \in Imports,
           \/ Bank!Begin(r) \/ Bank!CheckProblems(r) \/ Bank!OpenTransaction(r) \/ Bank!InsertRow(r)
           \/ Bank!Rollback(r) \/ Bank!Commit(r)
    PROVE  \A q \in Imports : request'[q].rows \subseteq Bank!Places(request'[q].job)
<1>1. /\ request \in [Imports -> [pc : Stages, job : Jobs, rows : SUBSET (Nat \X Nat)]]
      /\ \A q \in Imports : request[q].rows \subseteq Bank!Places(request[q].job)
  BY DEF BankInv, BankTypes, ValuesInv
<1>2. CASE Bank!Begin(r)
  <2>1. PICK stage, j : request' = [request EXCEPT ![r] = [pc |-> stage, job |-> j, rows |-> {}]]
    BY <1>2 DEF Bank!Begin
  <2> QED
    BY <1>1, <2>1
<1>3. CASE \E stage : Bank!Goto(r, stage)
  <2>1. \A q \in Imports : request'[q].rows = request[q].rows /\ request'[q].job = request[q].job
    BY <1>1, <1>3 DEF Bank!Goto
  <2> QED
    BY <1>1, <2>1
<1>4. ASSUME NEW x \in Bank!Ahead(r), request' = [request EXCEPT ![r].rows = @ \cup {x}]
      PROVE  \A q \in Imports : request'[q].rows \subseteq Bank!Places(request'[q].job)
  <2>1. x \in Bank!Places(request[r].job)
    BY DEF Bank!Ahead
  <2>2. request'[r].rows = request[r].rows \cup {x} /\ \A q \in Imports : request'[q].job = request[q].job
    BY <1>1, <1>4
  <2>3. \A q \in Imports \ {r} : request'[q].rows = request[q].rows
    BY <1>1, <1>4
  <2> QED
    BY <1>1, <2>1, <2>2, <2>3
<1> QED
  BY <1>2, <1>3, <1>4 DEF Bank!CheckProblems, Bank!OpenTransaction, Bank!InsertRow, Bank!Rollback, Bank!Commit

\* What COMMIT writes: problems of the one who asked, inputs and times that the job names.
LEMMA CommittedValues ==
    ASSUME BankInv, ValuesInv, NEW r \in Imports, Bank!Commit(r)
    PROVE  /\ \A p \in DOMAIN problems' : IsProblem(problems'[p])
           /\ \A c \in cases' : IsCase(c)
           /\ \A c \in DOMAIN contests' : contests'[c].from \in Nat
<1> DEFINE ask == request[r].job
<1>1. ask \in Jobs /\ ask.kind \in {"problems", "cases", "new contest", "contest"} /\ ask.actor \in Bank!Actors
  BY JobFacts DEF BankInv, BankTypes
<1>2. ASSUME NEW p \in DOMAIN problems'
      PROVE  IsProblem(problems'[p])
  <2>1. \/ problems'[p] = problems[p] /\ p \in DOMAIN problems
        \/ \E title : problems'[p] = [title |-> title, owner |-> ask.actor]
    BY DEF Bank!Commit, Bank!Exists
  <2>2. CASE p \in DOMAIN problems /\ problems'[p] = problems[p]
    <3>1. IsProblem(problems[p])
      BY <2>2 DEF ValuesInv
    <3> QED
      BY <2>2, <3>1 DEF IsProblem
  <2>3. ASSUME NEW title, problems'[p] = [title |-> title, owner |-> ask.actor]
        PROVE  IsProblem(problems'[p])
    <3>1. PICK row, owner : row = problems'[p] /\ owner = ask.actor
      OBVIOUS
    <3>2. row.title = title /\ row.owner = owner /\ row = [title |-> title, owner |-> owner]
      BY <2>3, <3>1
    <3>3. IsProblem(row)
      BY <1>1, <3>1, <3>2 DEF IsProblem
    <3> QED
      BY <3>1, <3>3
  <2> QED
    BY <2>1, <2>2, <2>3
<1>3. ASSUME NEW c \in cases'
      PROVE  IsCase(c)
  <2>1. CASE c \in cases
    BY <2>1 DEF ValuesInv
  <2>2. ASSUME NEW w \in Bank!Written(r), w.table = "cases", c = [problem |-> w.problem, input |-> w.value, by |-> r]
        PROVE  IsCase(c)
    <3>1. PICK x \in request[r].rows : w = Bank!Row(r, x)
      BY DEF Bank!Written
    <3>2. x \in Bank!Places(ask)
      BY DEF ValuesInv
    <3>3. w.value \in Inputs
      BY <1>1, <2>2, <3>1, <3>2, InputsOfJobs
    <3> QED
      BY <2>2, <3>3 DEF IsCase
  <2> QED
    BY <2>1, <2>2 DEF Bank!Commit
<1>4. ASSUME NEW c \in DOMAIN contests'
      PROVE  contests'[c].from \in Nat
  <2>1. ask.kind \in ContestKinds => ask.from \in Nat
    BY <1>1 DEF Bank!BankAssumption, ContestKinds
  <2>2. CASE ask.kind = "new contest"
    <3>1. contests' = Bank!WithKey(contests, <<r, 1>>, Bank!NewContest(ask))
      BY <2>2 DEF Bank!Commit
    <3>2. Bank!NewContest(ask).from = ask.from
      BY DEF Bank!NewContest
    <3> QED
      BY <2>1, <2>2, <3>1, <3>2 DEF Bank!WithKey, ValuesInv, ContestKinds
  <2>3. CASE ask.kind = "contest"
    <3>1. contests' = [contests EXCEPT ![ask.id] = Bank!ChangedContest(ask)] /\ c \in DOMAIN contests
      BY <2>3 DEF Bank!Commit
    <3>2. CASE c = ask.id
      <4>1. IsContest(contests[c]) /\ contests[c].from \in Nat
        BY <3>1 DEF BankInv, ListInv, HasItsList, ValuesInv
      <4>2. contests'[c].from = IF ask.from = 0 THEN contests[c].from ELSE ask.from
        BY <3>1, <3>2, <4>1 DEF Bank!ChangedContest, IsContest
      <4> QED
        BY <2>1, <2>3, <4>1, <4>2 DEF ContestKinds
    <3>3. CASE c # ask.id
      BY <3>1, <3>3 DEF ValuesInv
    <3> QED
      BY <3>2, <3>3
  <2>4. CASE ask.kind \in {"problems", "cases"}
    BY <2>4 DEF Bank!Commit, ValuesInv
  <2> QED
    BY <1>1, <2>2, <2>3, <2>4
<1> QED
  BY <1>2, <1>3, <1>4

\* A request with several statements: only its COMMIT writes.
LEMMA RequestValues ==
    ASSUME BankInv, ValuesInv, NEW r \in Imports,
           \/ Bank!Begin(r) \/ Bank!CheckProblems(r) \/ Bank!OpenTransaction(r) \/ Bank!InsertRow(r)
           \/ Bank!Rollback(r) \/ Bank!Commit(r)
    PROVE  ValuesInv'
<1>1. \A q \in Imports : request'[q].rows \subseteq Bank!Places(request'[q].job)
  BY PlacesKept
<1>2. Bank!Commit(r) \/ UNCHANGED <<problems, cases, contests, edits>>
  BY DEF Bank!Begin, Bank!CheckProblems, Bank!OpenTransaction, Bank!InsertRow, Bank!Rollback, Bank!tables
<1>3. \A j : Bank!Places(j)' = Bank!Places(j)
  BY DEF Bank!Places
<1>4. CASE Bank!Commit(r)
  <2>1. edits' = edits
    BY <1>4 DEF Bank!Commit
  <2> QED
    BY <1>1, <1>3, <1>4, <2>1, CommittedValues DEF ValuesInv, IsProblem, IsCase
<1>5. CASE UNCHANGED <<problems, cases, contests, edits>>
  BY <1>1, <1>3, <1>5 DEF ValuesInv, IsProblem, IsCase
<1> QED
  BY <1>2, <1>4, <1>5

\* A request with one statement writes a title, an input that is one, or takes rows away.
LEMMA EditValues ==
    ASSUME BankInv, ValuesInv, NEW actor \in Bank!Actors,
           \/ \E title \in Titles : Bank!CreateProblem(actor, title)
           \/ \E p \in DOMAIN problems : \/ Bank!DeleteProblem(actor, p)
                                         \/ \E title \in Titles : Bank!UpdateProblem(actor, p, title)
                                         \/ \E input \in Inputs : Bank!CreateCase(actor, p, input)
           \/ \E c \in {x \in cases : x.by = NoOne} :
                 Bank!DeleteCase(actor, c) \/ \E input \in Inputs : Bank!UpdateCase(actor, c, input)
           \/ \E c \in DOMAIN contests : Bank!DeleteContest(actor, c)
    PROVE  ValuesInv'
<1>1. Bank!Edit
  BY DEF Bank!CreateProblem, Bank!DeleteProblem, Bank!UpdateProblem, Bank!CreateCase, Bank!DeleteCase, Bank!UpdateCase, Bank!DeleteContest
<1>2. edits' \in 0..MaxEdits /\ request' = request
  <2>1. MaxEdits \in Nat
    BY DEF Bank!BankAssumption
  <2>2. edits \in 0..MaxEdits /\ edits < MaxEdits /\ edits' = edits + 1 /\ request' = request
    BY <1>1 DEF Bank!Edit, ValuesInv
  <2> QED
    BY <2>1, <2>2
<1>3. \A p \in DOMAIN problems' : IsProblem(problems'[p])
  <2>1. CASE problems' = problems
    BY <2>1 DEF ValuesInv
  <2>2. ASSUME NEW title, Bank!CreateProblem(actor, title)
        PROVE  \A p \in DOMAIN problems' : IsProblem(problems'[p])
    BY <2>2 DEF Bank!CreateProblem, Bank!WithKey, ValuesInv, IsProblem
  <2>3. ASSUME NEW p \in DOMAIN problems, NEW title, Bank!UpdateProblem(actor, p, title)
        PROVE  \A q \in DOMAIN problems' : IsProblem(problems'[q])
    <3>1. problems' = [problems EXCEPT ![p].title = title] /\ IsProblem(problems[p])
      BY <2>3 DEF Bank!UpdateProblem, ValuesInv
    <3>2. problems'[p] = [title |-> title, owner |-> problems[p].owner]
      BY <3>1 DEF IsProblem
    <3>3. IsProblem(problems'[p])
      BY <3>1, <3>2 DEF IsProblem
    <3> QED
      BY <3>1, <3>3 DEF ValuesInv
  <2>4. ASSUME NEW p \in DOMAIN problems, Bank!DeleteProblem(actor, p)
        PROVE  \A q \in DOMAIN problems' : IsProblem(problems'[q])
    BY <2>4 DEF Bank!DeleteProblem, Bank!WithoutKey, ValuesInv
  <2> QED
    BY <2>1, <2>2, <2>3, <2>4 DEF Bank!CreateCase, Bank!DeleteCase, Bank!UpdateCase, Bank!DeleteContest
<1>4. \A c \in cases' : IsCase(c)
  <2>1. CASE cases' \subseteq cases
    BY <2>1 DEF ValuesInv
  <2>2. ASSUME NEW p, NEW input \in Inputs, Bank!CreateCase(actor, p, input)
        PROVE  \A c \in cases' : IsCase(c)
    BY <2>2 DEF Bank!CreateCase, ValuesInv, IsCase
  <2>3. ASSUME NEW x \in cases, NEW input \in Inputs, Bank!UpdateCase(actor, x, input)
        PROVE  \A c \in cases' : IsCase(c)
    <3>1. cases' = (cases \ {x}) \cup {[x EXCEPT !.input = input]} /\ IsCase(x)
      BY <2>3 DEF Bank!UpdateCase, ValuesInv
    <3>2. [x EXCEPT !.input = input] = [problem |-> x.problem, input |-> input, by |-> x.by]
      BY <3>1 DEF IsCase
    <3>3. IsCase([x EXCEPT !.input = input])
      BY <3>2 DEF IsCase
    <3> QED
      BY <3>1, <3>3 DEF ValuesInv
  <2>4. ASSUME NEW p, Bank!DeleteProblem(actor, p)
        PROVE  cases' \subseteq cases
    BY <2>4 DEF Bank!DeleteProblem
  <2>5. ASSUME NEW x, Bank!DeleteCase(actor, x)
        PROVE  cases' \subseteq cases
    BY <2>5 DEF Bank!DeleteCase
  <2> QED
    BY <2>1, <2>2, <2>3, <2>4, <2>5 DEF Bank!CreateProblem, Bank!UpdateProblem, Bank!DeleteContest
<1>5. \A c \in DOMAIN contests' : contests'[c].from \in Nat
  <2>1. CASE contests' = contests
    BY <2>1 DEF ValuesInv
  <2>2. ASSUME NEW p, Bank!DeleteProblem(actor, p)
        PROVE  \A c \in DOMAIN contests' : contests'[c].from \in Nat
    <3>1. contests' = [c \in DOMAIN contests |->
                         [contests[c] EXCEPT !.list = Bank!Keeping(@, Bank!Range(@) \ {p})]]
      BY <2>2 DEF Bank!DeleteProblem
    <3>2. ASSUME NEW c \in DOMAIN contests
          PROVE  contests'[c].from \in Nat
      <4>1. IsContest(contests[c]) /\ contests[c].from \in Nat
        BY DEF BankInv, ListInv, HasItsList, ValuesInv
      <4>2. PICK y : contests'[c] = [contests[c] EXCEPT !.list = y]
        BY <3>1
      <4>3. contests'[c].from = contests[c].from
        BY <4>1, <4>2 DEF IsContest
      <4> QED
        BY <4>1, <4>3
    <3> QED
      BY <3>1, <3>2
  <2>3. ASSUME NEW x, Bank!DeleteContest(actor, x)
        PROVE  \A c \in DOMAIN contests' : contests'[c].from \in Nat
    BY <2>3 DEF Bank!DeleteContest, Bank!WithoutKey, ValuesInv
  <2> QED
    BY <2>1, <2>2, <2>3 DEF Bank!CreateProblem, Bank!UpdateProblem, Bank!CreateCase, Bank!DeleteCase, Bank!UpdateCase
<1>6. \A j : Bank!Places(j)' = Bank!Places(j)
  BY DEF Bank!Places
<1> QED
  BY <1>2, <1>3, <1>4, <1>5, <1>6 DEF ValuesInv, IsProblem, IsCase

\* The values stay what they are.
LEMMA ValuesAlways == PartsSpec => []ValuesInv
<1>1. BankInv /\ ValuesInv /\ [Bank!Next]_(Bank!vars) => ValuesInv'
  <2> SUFFICES ASSUME BankInv, ValuesInv, [Bank!Next]_(Bank!vars)  PROVE  ValuesInv'
    OBVIOUS
  <2>1. CASE UNCHANGED Bank!vars
    <3>1. UNCHANGED <<problems, cases, contests, request, edits>> /\ \A j : Bank!Places(j)' = Bank!Places(j)
      BY <2>1 DEF Bank!vars, Bank!Places
    <3> QED
      BY <3>1 DEF ValuesInv, IsProblem, IsCase
  <2>2. CASE Bank!Next
    BY <2>2, RequestValues, EditValues DEF Bank!Next
  <2> QED
    BY <2>1, <2>2
<1> QED
  BY <1>1, ValuesInit, BankAlways, BankRuns, PTL

\* The tables of problems, test cases and contests keep their types: an owner is one who may
\* write, a test case has an input and the request that has inserted it, a contest lists only
\* problems that are there (ON DELETE CASCADE), and the bound on the edits holds.
LEMMA BankTypeOK == PartsSpec => []Bank!TypeOK
<1>1. BankInv /\ ValuesInv => Bank!TypeOK
  <2> SUFFICES ASSUME BankInv, ValuesInv  PROVE  Bank!TypeOK
    OBVIOUS
  <2>1. ASSUME NEW c \in DOMAIN contests
        PROVE  Bank!Range(Bank!ListOf(c)) \subseteq DOMAIN problems
    <3>1. contests[c].list = Bank!Keeping(listed[c], DOMAIN problems)
      BY DEF BankInv, ListInv, HasItsList
    <3> QED
      BY <3>1 DEF Bank!ListOf, Bank!Range, Bank!Keeping
  <2>2. \A c \in cases : c.by \in Imports \cup {NoOne}
    BY DEF BankInv, RowsInv
  <2>3. \A r \in Imports : request[r].pc \in Stages
    BY DEF BankInv, BankTypes
  <2> QED
    BY <2>1, <2>2, <2>3 DEF Bank!TypeOK, ValuesInv, IsProblem, IsCase, Stages
<1> QED
  BY <1>1, BankAlways, ValuesAlways, PTL
=============================================================================
