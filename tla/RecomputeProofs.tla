--------------------------- MODULE RecomputeProofs ---------------------------
(***************************************************************************)
(* What a recompute does to the running sums of a statistic, for any days, *)
(* files and order of imports.                                             *)
(***************************************************************************)
EXTENDS Recompute, FiniteSums

----------------------------------------------------------------------------
(* Hours and days. *)

(* Midnights come in the order of the days. *)
LEMMA MidnightsOrdered ==
  \A d, e \in 1..(LastDay + 1) : d <= e => FirstHour[d] <= FirstHour[e]
<1> SUFFICES ASSUME NEW d \in 1..(LastDay + 1)
             PROVE  \A e \in 1..(LastDay + 1) : d <= e => FirstHour[d] <= FirstHour[e]
  OBVIOUS
<1> DEFINE Bad == {e \in 1..(LastDay + 1) : d <= e /\ ~(FirstHour[d] <= FirstHour[e])}
<1>0. LastDay \in Nat /\ \A e \in 1..(LastDay + 1) : FirstHour[e] \in Nat
  BY RecomputeAssumption
<1>1. SUFFICES ASSUME Bad # {} PROVE FALSE
  OBVIOUS
<1>2. IsFiniteSet(Bad) /\ Bad \in SUBSET Int
  <2>1. IsFiniteSet(1..(LastDay + 1))
    BY <1>0, FS_Interval
  <2>2. Bad \subseteq 1..(LastDay + 1)
    OBVIOUS
  <2>3. QED
    BY <1>0, <2>1, <2>2, FiniteParts
<1> DEFINE e == Min(Bad)
<1>3. e \in Bad /\ \A x \in Bad : e <= x
  <2> HIDE DEF Bad
  <2>1. QED
    BY <1>1, <1>2, MinIs
<1> HIDE DEF e
<1>4. e # d
  BY <1>0, <1>3
<1>5. e - 1 \in Days /\ d <= e - 1 /\ e - 1 \notin Bad
  BY <1>0, <1>3, <1>4 DEF Days
<1>6. FirstHour[e - 1] < FirstHour[(e - 1) + 1]
  BY <1>5, RecomputeAssumption
<1>7. (e - 1) + 1 = e /\ e - 1 \in 1..(LastDay + 1)
  BY <1>0, <1>3, <1>5 DEF Days
<1>8. FirstHour[d] <= FirstHour[e - 1]
  BY <1>5, <1>7
<1>9. QED
  BY <1>0, <1>3, <1>6, <1>7, <1>8

LEMMA HoursAre ==
  /\ Hours \in SUBSET Nat
  /\ \A A \in SUBSET Hours : IsFiniteSet(A) /\ A \in SUBSET Int
  /\ NoRow \notin Nat
<1>1. FirstHour[1] \in Nat /\ FirstHour[LastDay + 1] \in Nat
  BY RecomputeAssumption
<1>2. IsFiniteSet(Hours)
  <2> DEFINE first == FirstHour[1]
             last  == FirstHour[LastDay + 1] - 1
  <2>1. first \in Int /\ last \in Int /\ Hours = first..last
    BY <1>1 DEF Hours
  <2> HIDE DEF first, last
  <2>2. QED
    BY <2>1, FS_Interval
<1>3. Hours \in SUBSET Nat
  BY <1>1 DEF Hours
<1>4. NoRow \notin Nat
  BY DEF NoRow
<1>5. \A A \in SUBSET Hours : IsFiniteSet(A)
  BY <1>2, FiniteParts
<1>6. \A A \in SUBSET Hours : A \in SUBSET Int
  BY <1>3
<1>7. QED
  BY <1>3, <1>4, <1>5, <1>6

(* A day's hours, and nothing else, are between its midnights. *)
LEMMA HoursOfDay ==
  ASSUME NEW d \in Days, NEW q \in (4 * FirstHour[d])..(4 * FirstHour[d + 1] - 1)
  PROVE  /\ q \div 4 \in Hours
         /\ FirstHour[d] <= q \div 4 /\ q \div 4 < FirstHour[d + 1]
<1>1. /\ LastDay \in Nat
      /\ d \in 1..(LastDay + 1) /\ d + 1 \in 1..(LastDay + 1)
      /\ 1 \in 1..(LastDay + 1) /\ LastDay + 1 \in 1..(LastDay + 1)
      /\ 1 <= d /\ d + 1 <= LastDay + 1
  BY RecomputeAssumption DEF Days
<1>2. \A e \in 1..(LastDay + 1) : FirstHour[e] \in Nat
  BY RecomputeAssumption
<1>3. FirstHour[1] <= FirstHour[d] /\ FirstHour[d + 1] <= FirstHour[LastDay + 1]
  BY <1>1, MidnightsOrdered
<1>4. ASSUME NEW a \in Nat, NEW b \in Nat, NEW n \in (4 * a)..(4 * b - 1)
      PROVE  a <= n \div 4 /\ n \div 4 < b /\ n \div 4 \in Int
  OBVIOUS
<1>5. FirstHour[d] <= q \div 4 /\ q \div 4 < FirstHour[d + 1] /\ q \div 4 \in Int
  BY <1>1, <1>2, <1>4
<1>6. QED
  BY <1>1, <1>2, <1>3, <1>5 DEF Hours

(* What a poll stages: at least one day, a version of each. *)
LEMMA StagingIs ==
  ASSUME NEW staged \in Stagings
  PROVE  /\ DOMAIN staged \in SUBSET Days /\ DOMAIN staged # {}
         /\ \A d \in DOMAIN staged : staged[d] \in Versions
BY DEF Stagings, Partial

(* The energy of a file's hour is the sum of its quarters. *)
LEMMA HourlyIs ==
  ASSUME NEW d \in Days, NEW v \in Versions
  PROVE  LET hours == Hourly(Power[<<d, v>>])
         IN  /\ DOMAIN hours # {}
             /\ \A h \in DOMAIN hours :
                   h \in Hours /\ FirstHour[d] <= h /\ h < FirstHour[d + 1] /\ hours[h] \in Nat
<1> DEFINE file == Power[<<d, v>>]
           hours == Hourly(file)
           qs(h) == {q \in DOMAIN file : q \div 4 = h}
<1>1. /\ DOMAIN file # {}
      /\ \A q \in DOMAIN file :
            q \in (4 * FirstHour[d])..(4 * FirstHour[d + 1] - 1) /\ file[q] \in Nat
  BY RecomputeAssumption
<1>2. DOMAIN hours = {q \div 4 : q \in DOMAIN file}
  BY DEF Hourly
<1>3. \A h \in DOMAIN hours : hours[h] = SumFunctionOnSet(file, qs(h))
  BY DEF Hourly
<1>4. IsFiniteSet(DOMAIN file)
  <2>1. FirstHour[d] \in Nat /\ FirstHour[d + 1] \in Nat
    BY RecomputeAssumption DEF Days
  <2>2. IsFiniteSet((4 * FirstHour[d])..(4 * FirstHour[d + 1] - 1))
    <3>1. 4 * FirstHour[d] \in Int /\ 4 * FirstHour[d + 1] - 1 \in Int
      BY <2>1
    <3>2. QED
      BY <3>1, FS_Interval
  <2>3. QED
    BY <1>1, <2>2, FiniteParts
<1> HIDE DEF file, hours
<1>5. ASSUME NEW h \in DOMAIN hours
      PROVE  h \in Hours /\ FirstHour[d] <= h /\ h < FirstHour[d + 1] /\ hours[h] \in Nat
  <2>1. PICK q \in DOMAIN file : h = q \div 4
    BY <1>2
  <2>2. h \in Hours /\ FirstHour[d] <= h /\ h < FirstHour[d + 1]
    BY <1>1, <2>1, HoursOfDay
  <2>3. SumFunctionOnSet(file, qs(h)) \in Nat
    <3>1. IsFiniteSet(qs(h)) /\ \A x \in qs(h) : file[x] \in Nat
      BY <1>1, <1>4, FiniteParts
    <3> HIDE DEF qs
    <3>2. QED
      BY <3>1, SumIsNat
  <2>4. QED
    BY <1>3, <2>2, <2>3
<1>6. DOMAIN hours # {}
  BY <1>1, <1>2
<1>7. QED
  BY <1>5, <1>6 DEF file, hours

(* The hours a poll stages: some, all of them hours of the staged days.     *)
LEMMA NewHoursAre ==
  ASSUME NEW staged \in Stagings
  PROVE  LET hours == NewHours(staged)
         IN  /\ DOMAIN hours # {}
             /\ \A h \in DOMAIN hours :
                   /\ h \in Hours /\ hours[h] \in Nat
                   /\ FirstHour[Min(DOMAIN staged)] <= h
<1> DEFINE of(d) == Hourly(Power[<<d, staged[d]>>])
           hours == NewHours(staged)
<1>1. DOMAIN hours = UNION {DOMAIN of(d) : d \in DOMAIN staged}
  BY DEF NewHours
<1>2. \A h \in DOMAIN hours : hours[h] = of(CHOOSE d \in DOMAIN staged : h \in DOMAIN of(d))[h]
  BY DEF NewHours
<1>3. ASSUME NEW d \in DOMAIN staged
      PROVE  /\ DOMAIN of(d) # {}
             /\ \A h \in DOMAIN of(d) : h \in Hours /\ FirstHour[d] <= h /\ of(d)[h] \in Nat
  BY StagingIs, HourlyIs
<1>4. Min(DOMAIN staged) \in DOMAIN staged /\ \A d \in DOMAIN staged : Min(DOMAIN staged) <= d
  <2>1. LastDay \in Nat
    BY RecomputeAssumption
  <2>2. IsFiniteSet(Days)
    BY <2>1, FS_Interval DEF Days
  <2>3. DOMAIN staged \in SUBSET Int
    BY <2>1, StagingIs DEF Days
  <2>4. IsFiniteSet(DOMAIN staged)
    BY <2>2, StagingIs, FiniteParts
  <2>5. QED
    BY <2>3, <2>4, StagingIs, MinIs
<1>5. \A d \in DOMAIN staged : FirstHour[Min(DOMAIN staged)] <= FirstHour[d]
  <2>1. \A d \in Days : d \in 1..(LastDay + 1)
    BY RecomputeAssumption DEF Days
  <2>2. QED
    BY <1>4, <2>1, StagingIs, MidnightsOrdered
<1>6. \A d \in DOMAIN staged : FirstHour[d] \in Nat
  BY RecomputeAssumption, StagingIs DEF Days
<1> HIDE DEF of, hours
<1>7. ASSUME NEW h \in DOMAIN hours
      PROVE  h \in Hours /\ hours[h] \in Nat /\ FirstHour[Min(DOMAIN staged)] <= h
  <2> DEFINE d == CHOOSE d \in DOMAIN staged : h \in DOMAIN of(d)
  <2>1. d \in DOMAIN staged /\ h \in DOMAIN of(d)
    BY <1>1
  <2>2. hours[h] = of(d)[h]
    BY <1>2
  <2> HIDE DEF d
  <2>3. h \in Hours /\ FirstHour[d] <= h /\ hours[h] \in Nat
    BY <1>3, <2>1, <2>2
  <2>4. h \in Nat
    BY <2>3, HoursAre
  <2>5. QED
    BY <1>4, <1>5, <1>6, <2>1, <2>3, <2>4
<1>8. DOMAIN hours # {}
  BY <1>1, <1>3, StagingIs
<1>9. QED
  BY <1>7, <1>8 DEF hours

----------------------------------------------------------------------------
(* Rows before an hour. *)

(* The row before an hour is the last one from an earlier hour on, or, when *)
(* there is none, the row before that.                                      *)
LEMMA LastBeforeFrom ==
  ASSUME NEW sums, NEW hour \in Int, NEW from \in Int, from <= hour
  PROVE  LET between == {k \in RowsOf(sums) : from <= k /\ k < hour}
         IN  LastBefore(sums, hour) =
                IF between = {} THEN LastBefore(sums, from) ELSE sums[Max(between)]
<1> DEFINE between == {k \in RowsOf(sums) : from <= k /\ k < hour}
           before == {k \in RowsOf(sums) : k < hour}
           early == {k \in RowsOf(sums) : k < from}
<1>1. \A A \in SUBSET RowsOf(sums) : A \in SUBSET Int /\ IsFiniteSet(A)
  BY HoursAre DEF RowsOf
<1>2. CASE between = {}
  <2>1. before = early
    BY <1>1, <1>2
  <2>2. QED
    BY <1>2, <2>1 DEF LastBefore
<1>3. CASE between # {}
  <2>1. Max(between) \in between /\ \A k \in between : k <= Max(between)
    BY <1>1, <1>3, MaxIs
  <2>2. Max(before) \in before /\ \A k \in before : k <= Max(before)
    BY <1>1, <1>3, MaxIs
  <2>3. Max(before) = Max(between)
    <3>1. Max(between) \in before /\ Max(between) <= Max(before)
      BY <2>1, <2>2
    <3>2. Max(before) \in Int /\ Max(between) \in Int
      BY <1>1, <2>1, <2>2
    <3>3. Max(before) \in between
      BY <2>1, <2>2, <3>1, <3>2
    <3>4. QED
      BY <2>1, <3>1, <3>2, <3>3
  <2>4. QED
    BY <1>3, <2>3 DEF LastBefore
<1>4. QED
  BY <1>2, <1>3

SumsType == [Hours -> Nat \union {NoRow}]

LEMMA LastBeforeIs ==
  ASSUME NEW sums \in SumsType, NEW hour \in Int
  PROVE  /\ LastBefore(sums, hour) \in Nat
         /\ Rising(sums) =>
               \A h \in RowsOf(sums) : h >= hour => LastBefore(sums, hour) <= sums[h]
         /\ Rising(sums) =>
               \A h \in RowsOf(sums) : h < hour => sums[h] <= LastBefore(sums, hour)
<1> DEFINE before == {k \in RowsOf(sums) : k < hour}
<1>1. \A k \in RowsOf(sums) : sums[k] \in Nat /\ k \in Int
  BY HoursAre DEF RowsOf, SumsType
<1>2. CASE before = {}
  <2>1. LastBefore(sums, hour) = 0
    BY <1>2 DEF LastBefore
  <2>2. QED
    BY <1>1, <1>2, <2>1
<1>3. CASE before # {}
  <2>1. before \in SUBSET Int /\ IsFiniteSet(before)
    BY HoursAre DEF RowsOf
  <2>2. Max(before) \in before /\ \A k \in before : k <= Max(before)
    <3> HIDE DEF before
    <3>1. QED
      BY <1>3, <2>1, MaxIs
  <2>3. LastBefore(sums, hour) = sums[Max(before)]
    BY <1>3 DEF LastBefore
  <2> DEFINE m == Max(before)
  <2>4. m \in RowsOf(sums) /\ m < hour /\ \A k \in RowsOf(sums) : k < hour => k <= m
    BY <2>2
  <2> HIDE DEF m, before
  <2>5. LastBefore(sums, hour) = sums[m]
    BY <2>3 DEF m
  <2>6. QED
    BY <1>1, <2>4, <2>5 DEF Rising
<1>4. QED
  BY <1>2, <1>3

(* In sums that rise no energy is negative. *)
LEMMA EnergyIsNat ==
  ASSUME NEW sums \in SumsType, Rising(sums), NEW h \in RowsOf(sums)
  PROVE  /\ EnergyOf(sums)[h] = sums[h] - LastBefore(sums, h)
         /\ EnergyOf(sums)[h] \in Nat
<1>1. h \in Int /\ h \in Hours /\ sums[h] \in Nat /\ sums[h] # NoRow
  BY HoursAre DEF RowsOf, SumsType
<1>2. LastBefore(sums, h) \in Nat /\ LastBefore(sums, h) <= sums[h]
  BY <1>1, LastBeforeIs
<1>3. QED
  BY <1>1, <1>2 DEF EnergyOf

----------------------------------------------------------------------------
(* What is pushed. *)

(* A poll about to push: it has read the rows as they are. *)
Ready ==
  /\ Shift <= 0 /\ pc = "push"
  /\ TypeOK /\ QueueInv /\ ReadInv /\ Rising(rows)

LEMMA FromIs ==
  ASSUME Shift <= 0, NEW staged \in Stagings
  PROVE  From(staged) \in Int /\ \A h \in DOMAIN NewHours(staged) : From(staged) <= h
<1> DEFINE first == FirstHour[Min(DOMAIN staged)]
<1>1. Shift \in Int
  BY RecomputeAssumption
<1>2. first \in Nat
  <2>1. LastDay \in Nat
    BY RecomputeAssumption
  <2>2. DOMAIN staged \in SUBSET Int /\ IsFiniteSet(DOMAIN staged)
    <3>1. IsFiniteSet(Days)
      BY <2>1, FS_Interval DEF Days
    <3>2. QED
      BY <2>1, <3>1, StagingIs, FiniteParts DEF Days
  <2>3. Min(DOMAIN staged) \in Days
    BY <2>2, StagingIs, MinIs
  <2>4. QED
    BY <2>1, <2>3, RecomputeAssumption DEF Days
<1>3. \A h \in DOMAIN NewHours(staged) : h \in Nat /\ first <= h
  BY NewHoursAre, HoursAre
<1> HIDE DEF first
<1>4. From(staged) = first + Shift
  BY DEF From, first
<1>5. QED
  BY <1>1, <1>2, <1>3, <1>4

(* The overlay has every row from the first staged day on; its energies are *)
(* the new hours' and, where there is none, those the recorder's sums have. *)
LEMMA OverlaidIs ==
  ASSUME Ready
  PROVE  LET new == NewHours(items)
             from == From(items)
         IN  /\ DOMAIN Overlaid = DOMAIN new \union {k \in HasRow : k >= from}
             /\ DOMAIN Overlaid \in SUBSET Hours /\ DOMAIN Overlaid # {}
             /\ from \in Int /\ \A k \in DOMAIN Overlaid : from <= k
             /\ \A k \in DOMAIN Overlaid :
                   /\ Overlaid[k] \in Nat
                   /\ Overlaid[k] = IF k \in DOMAIN new THEN new[k] ELSE Energy[k]
<1> DEFINE new == NewHours(items)
           from == From(items)
           read == {k \in HasRow : k >= from}
<1>1. items \in Stagings /\ rows \in SumsType /\ Rising(rows)
  BY DEF Ready, QueueInv, TypeOK, SumsType
<1>2. /\ DOMAIN new # {}
      /\ \A h \in DOMAIN new : h \in Hours /\ new[h] \in Nat
  BY <1>1, NewHoursAre
<1>3. from \in Int /\ \A h \in DOMAIN new : from <= h
  BY <1>1, FromIs DEF Ready
<1>4. baseline = LastBefore(rows, from) /\ existing = [h \in read |-> rows[h]]
  BY DEF Ready, ReadInv
<1>5. read \in SUBSET Hours /\ read \in SUBSET RowsOf(rows)
  BY DEF HasRow, RowsOf
<1> HIDE DEF new, from
<1>6. DOMAIN OldDeltas = read
  BY <1>4 DEF OldDeltas
<1>7. ASSUME NEW h \in read
      PROVE  OldDeltas[h] = Energy[h] /\ OldDeltas[h] \in Nat
  <2> DEFINE earlier == {k \in read : k < h}
             between == {k \in RowsOf(rows) : from <= k /\ k < h}
  <2>1. OldDeltas[h] = rows[h] - (IF earlier = {} THEN baseline ELSE existing[Max(earlier)])
    BY <1>4 DEF OldDeltas
  <2>2. h \in Int /\ from <= h /\ h \in RowsOf(rows)
    BY <1>3, HoursAre DEF HasRow, RowsOf
  <2>3. earlier = between
    BY <1>3, <1>5, HoursAre DEF HasRow, RowsOf
  <2>4. earlier # {} => existing[Max(earlier)] = rows[Max(earlier)]
    <3>1. SUFFICES ASSUME earlier # {} PROVE Max(earlier) \in read
      BY <1>4
    <3>2. earlier \in SUBSET Int /\ IsFiniteSet(earlier)
      BY <1>5, HoursAre
    <3>3. earlier \subseteq read
      OBVIOUS
    <3> HIDE DEF earlier
    <3>4. QED
      BY <3>1, <3>2, <3>3, MaxIs
  <2>5. LastBefore(rows, h) = IF between = {} THEN LastBefore(rows, from)
                              ELSE rows[Max(between)]
    BY <1>3, <2>2, LastBeforeFrom
  <2> HIDE DEF earlier, between
  <2>6. OldDeltas[h] = rows[h] - LastBefore(rows, h)
    BY <1>4, <2>1, <2>3, <2>4, <2>5
  <2>7. Energy[h] = rows[h] - LastBefore(rows, h) /\ Energy[h] \in Nat
    BY <1>1, <2>2, EnergyIsNat DEF Energy
  <2>8. QED
    BY <2>6, <2>7
<1>8. /\ DOMAIN Overlaid = DOMAIN new \union read
      /\ \A k \in DOMAIN Overlaid :
            Overlaid[k] = IF k \in DOMAIN new THEN new[k] ELSE OldDeltas[k]
  BY <1>6 DEF Overlaid, new
<1>9. \A k \in DOMAIN Overlaid : from <= k /\ k \in Hours
  BY <1>2, <1>3, <1>5, <1>8
<1>10. \A k \in DOMAIN Overlaid :
         /\ Overlaid[k] \in Nat
         /\ Overlaid[k] = IF k \in DOMAIN new THEN new[k] ELSE Energy[k]
  BY <1>2, <1>7, <1>8
<1>11. DOMAIN Overlaid # {}
  BY <1>2, <1>8
<1>12. QED
  BY <1>3, <1>8, <1>9, <1>10, <1>11 DEF new, from

(* The sums pushed go on from the baseline: each is the energy of its hour  *)
(* more than the one before it.                                             *)
LEMMA RunningSumsAre ==
  ASSUME Ready
  PROVE  /\ DOMAIN RunningSums = DOMAIN Overlaid
         /\ \A k \in DOMAIN Overlaid :
               LET earlier == {j \in DOMAIN Overlaid : j < k}
               IN  /\ RunningSums[k] \in Nat /\ baseline <= RunningSums[k]
                   /\ RunningSums[k] = Overlaid[k] + (IF earlier = {} THEN baseline
                                                      ELSE RunningSums[Max(earlier)])
                   /\ \A j \in DOMAIN Overlaid : j <= k => RunningSums[j] <= RunningSums[k]
<1> DEFINE D == DOMAIN Overlaid
           sum(k) == SumFunctionOnSet(Overlaid, UpTo(D, k))
<1>1. DOMAIN RunningSums = D /\ \A k \in D : RunningSums[k] = baseline + sum(k)
  BY DEF RunningSums, UpTo
<1>2. baseline \in Nat
  BY DEF Ready, TypeOK
<1>3. D \in SUBSET Int /\ IsFiniteSet(D) /\ \A k \in D : Overlaid[k] \in Nat
  BY OverlaidIs, HoursAre
<1>4. ASSUME NEW k \in D
      PROVE  LET earlier == {j \in D : j < k}
             IN  /\ sum(k) \in Nat
                 /\ sum(k) = Overlaid[k] + (IF earlier = {} THEN 0 ELSE sum(Max(earlier)))
                 /\ \A j \in D : j <= k => sum(j) <= sum(k)
  <2> HIDE DEF D
  <2> DEFINE f == Overlaid
  <2>1. D \in SUBSET Int /\ IsFiniteSet(D) /\ (\A x \in D : f[x] \in Nat) /\ k \in D
    BY <1>3
  <2> HIDE DEF f
  <2>2. LET upto(j) == SumFunctionOnSet(f, UpTo(D, j))
            earlier == {j \in D : j < k}
        IN  /\ upto(k) \in Nat
            /\ upto(k) = f[k] + (IF earlier = {} THEN 0 ELSE upto(Max(earlier)))
            /\ \A j \in D : j <= k => upto(j) <= upto(k)
    BY <2>1, PrefixSums
  <2>3. QED
    BY <2>2 DEF f
<1> HIDE DEF D, sum
<1>5. ASSUME NEW k \in D
      PROVE  LET earlier == {j \in D : j < k}
             IN  /\ RunningSums[k] \in Nat /\ baseline <= RunningSums[k]
                 /\ RunningSums[k] = Overlaid[k] + (IF earlier = {} THEN baseline
                                                    ELSE RunningSums[Max(earlier)])
                 /\ \A j \in D : j <= k => RunningSums[j] <= RunningSums[k]
  <2> DEFINE earlier == {j \in D : j < k}
  <2>1. /\ sum(k) \in Nat
        /\ sum(k) = Overlaid[k] + (IF earlier = {} THEN 0 ELSE sum(Max(earlier)))
        /\ \A j \in D : j <= k => sum(j) <= sum(k)
    BY <1>4
  <2>2. earlier # {} => Max(earlier) \in D
    <3>1. earlier \in SUBSET D /\ earlier \in SUBSET Int /\ IsFiniteSet(earlier)
      BY <1>3, FiniteParts
    <3> HIDE DEF earlier
    <3>2. QED
      BY <3>1, MaxIs
  <2> HIDE DEF earlier
  <2>3. \A j \in D : sum(j) \in Nat /\ RunningSums[j] = baseline + sum(j)
    BY <1>1, <1>4
  <2>4. RunningSums[k] \in Nat /\ baseline <= RunningSums[k]
    BY <1>2, <2>3
  <2>5. \A j \in D : j <= k => RunningSums[j] <= RunningSums[k]
    BY <1>2, <2>1, <2>3
  <2>6. RunningSums[k] = Overlaid[k] + (IF earlier = {} THEN baseline
                                        ELSE RunningSums[Max(earlier)])
    <3>1. CASE earlier = {}
      BY <1>2, <1>3, <2>1, <2>3, <3>1
    <3>2. CASE earlier # {}
      <4>1. Max(earlier) \in D
        BY <2>2, <3>2
      <4>2. RunningSums[Max(earlier)] = baseline + sum(Max(earlier)) /\ sum(Max(earlier)) \in Nat
        BY <2>3, <4>1
      <4>3. sum(k) = Overlaid[k] + sum(Max(earlier)) /\ RunningSums[k] = baseline + sum(k)
        BY <2>1, <2>3, <3>2
      <4> DEFINE s == sum(Max(earlier))
                 r == RunningSums[Max(earlier)]
                 o == Overlaid[k]
                 t == RunningSums[k]
      <4>4. s \in Nat /\ o \in Nat /\ r = baseline + s /\ t = baseline + (o + s)
        BY <1>3, <4>2, <4>3
      <4>5. t = o + r
        <5> HIDE DEF s, r, o, t
        <5>1. QED
          BY <1>2, <4>4
      <4>6. QED
        BY <3>2, <4>5
    <3>3. QED
      BY <3>1, <3>2
  <2>7. QED
    BY <2>4, <2>5, <2>6 DEF earlier
<1>6. QED
  BY <1>1, <1>5 DEF D

(* The row before an hour depends on the rows before that hour only.        *)
LEMMA LastBeforeSame ==
  ASSUME NEW sums, NEW other, NEW hour \in Int,
         \A k \in Hours : k < hour => sums[k] = other[k]
  PROVE  LastBefore(sums, hour) = LastBefore(other, hour)
<1> DEFINE before == {k \in RowsOf(sums) : k < hour}
<1>1. before = {k \in RowsOf(other) : k < hour}
  BY DEF RowsOf
<1>2. before # {} => Max(before) \in before
  <2>1. before \in SUBSET Int /\ IsFiniteSet(before)
    BY HoursAre DEF RowsOf
  <2> HIDE DEF before
  <2>2. QED
    BY <2>1, MaxIs
<1>3. before # {} => sums[Max(before)] = other[Max(before)]
  <2>1. before \subseteq {k \in Hours : k < hour}
    BY DEF RowsOf
  <2> HIDE DEF before
  <2>2. QED
    BY <1>2, <2>1
<1>4. QED
  BY <1>1, <1>3 DEF LastBefore

(* What is pushed, once written, keeps the sums rising and changes the      *)
(* energy of exactly the hours staged, to what the files say.               *)
LEMMA PushedIs ==
  ASSUME Ready
  PROVE  LET batch == RunningSums
             sums  == Written(batch)
         IN  /\ DOMAIN batch \in SUBSET Hours /\ DOMAIN batch # {}
             /\ \A k \in DOMAIN batch : batch[k] \in Nat
             /\ \A h \in HasRow \ DOMAIN batch, k \in DOMAIN batch : h < k
             /\ Rising(sums)
             /\ \A h \in Hours :
                   EnergyOf(sums)[h] =
                      IF h \in DOMAIN NewHours(items) THEN NewHours(items)[h] ELSE Energy[h]
<1> DEFINE D    == DOMAIN Overlaid
           new  == NewHours(items)
           from == From(items)
           sums == Written(RunningSums)
<1>1. rows \in SumsType /\ Rising(rows) /\ baseline \in Nat /\ baseline = LastBefore(rows, from)
  BY DEF Ready, TypeOK, SumsType, ReadInv
<1>2. /\ D = DOMAIN new \union {k \in HasRow : k >= from}
      /\ D \in SUBSET Hours /\ D # {} /\ from \in Int /\ \A k \in D : from <= k
      /\ \A k \in D : /\ Overlaid[k] \in Nat
                      /\ Overlaid[k] = IF k \in DOMAIN new THEN new[k] ELSE Energy[k]
  BY OverlaidIs
<1>3. DOMAIN RunningSums = D /\ \A k \in D : RunningSums[k] \in Nat /\ baseline <= RunningSums[k]
  BY RunningSumsAre
<1>4. \A j, k \in D : j <= k => RunningSums[j] <= RunningSums[k]
  BY RunningSumsAre
<1>5. ASSUME NEW k \in D
      PROVE  LET earlier == {j \in D : j < k}
             IN  RunningSums[k] = Overlaid[k] + (IF earlier = {} THEN baseline
                                                 ELSE RunningSums[Max(earlier)])
  BY RunningSumsAre
<1>6. \A h \in Hours : sums[h] = IF h \in D THEN RunningSums[h] ELSE rows[h]
  BY <1>3 DEF Written
<1> HIDE DEF D, new, from, sums
<1>7. \A h \in HasRow : h \in D \/ h < from
  <2>1. \A h \in HasRow : h \in Int
    BY HoursAre DEF HasRow, RowsOf
  <2>2. QED
    BY <1>2, <2>1
<1>8. RowsOf(sums) = HasRow \union D
  <2>1. \A h \in D : sums[h] # NoRow /\ h \in Hours
    BY <1>2, <1>3, <1>6, HoursAre
  <2>2. \A h \in Hours : h \notin D => sums[h] = rows[h]
    BY <1>6
  <2>3. QED
    BY <2>1, <2>2 DEF RowsOf, HasRow
<1>9. \A h \in HasRow \ D, k \in D : h < k
  <2>1. \A h \in HasRow \union D : h \in Int
    BY <1>2, HoursAre DEF HasRow, RowsOf
  <2>2. QED
    BY <1>2, <1>7, <2>1
<1>10. \A k \in Hours : k < from => sums[k] = rows[k]
  <2>1. \A h \in D : h \in Int
    BY <1>2, HoursAre
  <2>2. \A k \in Hours : k < from => k \notin D
    BY <1>2, <2>1
  <2>3. QED
    BY <1>6, <2>2
<1>11. Rising(sums)
  <2> SUFFICES ASSUME NEW h \in RowsOf(sums), NEW k \in RowsOf(sums), h <= k
               PROVE  sums[h] <= sums[k]
    BY DEF Rising
  <2>1. h \in Hours /\ k \in Hours /\ h \in Int /\ k \in Int
    BY HoursAre DEF RowsOf
  <2>2. CASE h \in D /\ k \in D
    BY <1>4, <1>6, <2>1, <2>2
  <2>3. CASE h \in D /\ k \notin D
    BY <1>8, <1>9, <2>1, <2>3
  <2>4. CASE h \notin D /\ k \notin D
    BY <1>1, <1>6, <1>8, <2>1, <2>4 DEF Rising, HasRow
  <2>5. CASE h \notin D /\ k \in D
    <3>1. h \in RowsOf(rows) /\ h < from
      BY <1>7, <1>8, <2>5 DEF HasRow
    <3>2. rows[h] <= baseline /\ rows[h] \in Nat
      <4>1. rows[h] <= baseline
        BY <1>1, <1>2, <3>1, LastBeforeIs
      <4>2. QED
        BY <1>1, <3>1, <4>1 DEF SumsType, RowsOf
    <3>3. sums[h] = rows[h] /\ sums[k] = RunningSums[k]
      BY <1>6, <2>1, <2>5
    <3>4. RunningSums[k] \in Nat /\ baseline <= RunningSums[k]
      BY <1>3, <2>5
    <3>5. QED
      BY <1>1, <3>2, <3>3, <3>4
  <2>6. QED
    BY <2>2, <2>3, <2>4, <2>5
<1>12. ASSUME NEW h \in D PROVE EnergyOf(sums)[h] = Overlaid[h]
  <2> DEFINE earlier == {j \in D : j < h}
             between == {k \in RowsOf(sums) : from <= k /\ k < h}
  <2>1. h \in Hours /\ h \in Int /\ from <= h
    BY <1>2, HoursAre
  <2>2. between = earlier
    <3>1. \A k \in HasRow \union D : k \in Int
      BY <1>2, HoursAre DEF HasRow, RowsOf
    <3>2. QED
      BY <1>2, <1>7, <1>8, <3>1
  <2>3. earlier # {} => Max(earlier) \in D
    <3>1. earlier \in SUBSET D /\ earlier \in SUBSET Int /\ IsFiniteSet(earlier)
      BY <1>2, HoursAre
    <3> HIDE DEF earlier
    <3>2. QED
      BY <3>1, MaxIs
  <2>4. LastBefore(sums, from) = baseline
    BY <1>1, <1>2, <1>10, LastBeforeSame
  <2>5. LastBefore(sums, h) = IF between = {} THEN LastBefore(sums, from)
                              ELSE sums[Max(between)]
    <3>1. from \in Int /\ h \in Int /\ from <= h
      BY <1>2, <2>1
    <3>2. QED
      BY <3>1, LastBeforeFrom
  <2>6. RunningSums[h] = Overlaid[h] + (IF earlier = {} THEN baseline
                                        ELSE RunningSums[Max(earlier)])
    BY <1>5
  <2> HIDE DEF earlier, between
  <2>7. LastBefore(sums, h) = IF earlier = {} THEN baseline ELSE RunningSums[Max(earlier)]
    <3>1. earlier # {} => sums[Max(earlier)] = RunningSums[Max(earlier)]
      BY <1>2, <1>6, <2>3
    <3>2. QED
      BY <2>2, <2>4, <2>5, <3>1
  <2>8. EnergyOf(sums)[h] = RunningSums[h] - LastBefore(sums, h)
    BY <1>3, <1>6, <2>1, HoursAre DEF EnergyOf
  <2> DEFINE last == LastBefore(sums, h)
  <2>9. last \in Nat
    BY <1>1, <1>3, <2>3, <2>7
  <2>10. RunningSums[h] = Overlaid[h] + last
    BY <2>6, <2>7
  <2>11. Overlaid[h] \in Nat
    BY <1>2
  <2> HIDE DEF last
  <2>12. QED
    BY <2>8, <2>9, <2>10, <2>11 DEF last
<1>13. ASSUME NEW h \in Hours, h \notin D PROVE EnergyOf(sums)[h] = Energy[h]
  <2>1. sums[h] = rows[h]
    BY <1>6, <1>13
  <2>2. CASE h \notin HasRow
    BY <2>1, <2>2 DEF EnergyOf, Energy, HasRow, RowsOf
  <2>3. CASE h \in HasRow
    <3>1. h < from /\ h \in Int
      BY <1>7, <1>13, <2>3, HoursAre
    <3>2. \A k \in Hours : k \in Int
      BY HoursAre
    <3>3. \A k \in Hours : k < h => sums[k] = rows[k]
      BY <1>2, <1>10, <3>1, <3>2
    <3>4. LastBefore(sums, h) = LastBefore(rows, h)
      BY <3>1, <3>3, LastBeforeSame
    <3>5. QED
      BY <2>1, <3>4 DEF EnergyOf, Energy
  <2>4. QED
    BY <2>2, <2>3
<1>14. \A h \in Hours : EnergyOf(sums)[h] = IF h \in DOMAIN new THEN new[h] ELSE Energy[h]
  BY <1>2, <1>12, <1>13
<1>15. QED
  BY <1>2, <1>3, <1>9, <1>11, <1>14 DEF D, new, sums

----------------------------------------------------------------------------
(* The conditions.  The recorder has written a statistic's batch before the *)
(* next poll rewrites it, a poll of a new coordinator after a reload too;   *)
(* and the polling zone is not west of the data's: its midnight is not after*)
(* the first hour of the data's day.                                        *)
KeepsUp == Backlog = 1 /\ Shift <= 0

(* A poll about to read the baseline finds the row before the first staged  *)
(* day, if there is one, within the lookback.                               *)
ShortGaps ==
  pc = "baseline" /\ (\E h \in HasRow : h < From(items)) =>
     \E h \in HasRow : From(items) - Lookback <= h /\ h < From(items)

(* Then the baseline is the last sum before the first staged day.           *)
LEMMA BaselineIs ==
  ASSUME KeepsUp, ShortGaps, pc = "baseline", items \in Stagings
  PROVE  SumBefore(From(items)) = LastBefore(rows, From(items))
<1> DEFINE from == From(items)
           near == {h \in HasRow : h >= from - Lookback /\ h < from}
           between == {h \in RowsOf(rows) : from - Lookback <= h /\ h < from}
           before == {h \in RowsOf(rows) : h < from}
<1>1. from \in Int /\ Lookback \in Nat
  BY FromIs, RecomputeAssumption DEF KeepsUp
<1>2. \A h \in HasRow : h \in Int
  BY HoursAre DEF HasRow, RowsOf
<1> HIDE DEF from
<1>3. near = between
  BY <1>1, <1>2 DEF HasRow
<1>4. LastBefore(rows, from) = IF between = {} THEN LastBefore(rows, from - Lookback)
                               ELSE rows[Max(between)]
  <2>1. from - Lookback \in Int /\ from - Lookback <= from
    BY <1>1
  <2>2. QED
    BY <1>1, <2>1, LastBeforeFrom
<1>5. SumBefore(from) = IF near = {} THEN 0 ELSE rows[Max(near)]
  BY DEF SumBefore
<1>6. CASE near = {}
  <2>1. before = {}
    <3>1. \A h \in HasRow : ~(from - Lookback <= h /\ h < from)
      BY <1>1, <1>2, <1>6
    <3>2. QED
      BY <3>1 DEF ShortGaps, HasRow, from
  <2>2. QED
    BY <1>5, <1>6, <2>1 DEF LastBefore, from
<1>7. CASE near # {}
  BY <1>3, <1>4, <1>5, <1>7 DEF from
<1>8. QED
  BY <1>6, <1>7

----------------------------------------------------------------------------
(* Steps that write nothing. *)

(* While the rows stay, so does what they amount to.                        *)
LEMMA SameRows ==
  ASSUME rows' = rows
  PROVE  /\ HasRow' = HasRow /\ Energy' = Energy /\ LastSum' = LastSum
         /\ Rising(rows)' = Rising(rows)
         /\ \A h \in Int : LastBefore(rows, h)' = LastBefore(rows, h)
         /\ \A staged : From(staged)' = From(staged)
BY DEF HasRow, RowsOf, Energy, EnergyOf, LastBefore, LastSum, Rising, From, Hours

(* A batch that waits goes on waiting. *)
LEMMA BatchStays ==
  ASSUME BatchInv, UNCHANGED <<rows, queue>>
  PROVE  BatchInv'
<1> DEFINE batch == Head(queue)
           sums  == Written(batch)
<1>1. queue' = queue /\ rows' = rows /\ batch' = batch
  OBVIOUS
<1>2. sums' = sums
  BY <1>1 DEF Written, Hours
<1> HIDE DEF batch, sums
<1>3. Rising(sums)' = Rising(sums) /\ EnergyOf(sums)' = EnergyOf(sums)
  BY <1>2 DEF Rising, RowsOf, EnergyOf, LastBefore, Hours
<1>4. StagedHours' = StagedHours /\ Hours' = Hours
  BY DEF StagedHours, Hours
<1>5. BatchInv = (queue # <<>> =>
         /\ DOMAIN batch # {}
         /\ \A h \in HasRow \ DOMAIN batch, k \in DOMAIN batch : h < k
         /\ Rising(sums)
         /\ \E hours \in StagedHours : \A h \in Hours :
               EnergyOf(sums)[h] = IF h \in DOMAIN hours THEN hours[h] ELSE Energy[h])
  BY DEF BatchInv, batch, sums
<1>6. BatchInv' = (queue' # <<>> =>
         /\ DOMAIN batch' # {}
         /\ \A h \in HasRow' \ DOMAIN batch', k \in DOMAIN batch' : h < k
         /\ Rising(sums)'
         /\ \E hours \in StagedHours : \A h \in Hours :
               EnergyOf(sums)'[h] = IF h \in DOMAIN hours THEN hours[h] ELSE Energy'[h])
  BY DEF BatchInv, batch, sums
<1>7. QED
  BY <1>1, <1>2, <1>3, <1>5, <1>6, SameRows

(* At the start there is nothing.                                           *)
LEMMA InitOK == KeepsUp /\ Init => RecomputeInv
<1> SUFFICES ASSUME KeepsUp, Init PROVE RecomputeInv
  OBVIOUS
<1> USE DEF Init
<1>1. TypeOK
  <2>1. LastDay \in Nat /\ LastVersion \in Nat /\ Backlog \in Nat
    BY RecomputeAssumption
  <2>2. Len(queue) <= Backlog /\ DOMAIN queue = {}
    BY <2>1
  <2>3. marks \in [Days -> 0..LastVersion] /\ store \in [Days -> 0..LastVersion]
    BY <2>1
  <2>4. rows \in [Hours -> Nat \union {NoRow}] /\ DOMAIN existing \subseteq Hours
    OBVIOUS
  <2>5. QED
    BY <2>2, <2>3, <2>4 DEF TypeOK
<1>2. QueueInv /\ ReadInv /\ ShownInv /\ BatchInv
  BY DEF QueueInv, ReadInv, ShownInv, BatchInv
<1>3. Rising(rows)
  BY DEF Rising, RowsOf
<1>4. QED
  BY <1>1, <1>2, <1>3 DEF RecomputeInv

LEMMA LastSumIs ==
  ASSUME rows \in SumsType
  PROVE  LastSum \in Nat
<1>1. CASE HasRow = {}
  BY <1>1 DEF LastSum
<1>2. CASE HasRow # {}
  <2>1. HasRow \in SUBSET Int /\ IsFiniteSet(HasRow)
    BY HoursAre DEF HasRow, RowsOf
  <2>2. Max(HasRow) \in HasRow
    BY <1>2, <2>1, MaxIs
  <2>3. \A h \in HasRow : rows[h] \in Nat
    BY DEF HasRow, RowsOf, SumsType
  <2>4. QED
    BY <1>2, <2>2, <2>3 DEF LastSum
<1>3. QED
  BY <1>1, <1>2

(* As long as nothing is pushed or written, the recorder will have the same *)
(* last sum.                                                                *)
LEMMA SameComing ==
  ASSUME UNCHANGED <<rows, queue>>
  PROVE  ComingSum' = ComingSum
BY SameRows DEF ComingSum

(* Steps that neither push nor write.                                       *)
LEMMA QuietStep ==
  ASSUME RecomputeInv, UNCHANGED <<rows, queue>>
  PROVE  Rising(rows)' /\ BatchInv'
<1>1. Rising(rows)'
  BY SameRows DEF RecomputeInv
<1>2. BatchInv'
  BY BatchStays DEF RecomputeInv
<1>3. QED
  BY <1>1, <1>2

(* Steps that moreover change neither the total nor what is shown.          *)
LEMMA ShownStays ==
  ASSUME RecomputeInv, UNCHANGED <<rows, queue, showVars>>,
         pc' = "save" => pc = "save"
  PROVE  ShownInv'
BY SameComing DEF RecomputeInv, ShownInv, showVars

LEMMA SeedOK == ASSUME RecomputeInv, Seed PROVE RecomputeInv'
<1> USE DEF RecomputeInv, Seed, readVars
<1>1. TypeOK'
  BY LastSumIs DEF TypeOK, SumsType
<1>2. QueueInv' /\ ReadInv'
  BY DEF QueueInv, ReadInv
<1>3. ShownInv'
  BY DEF ShownInv, QueueInv
<1>4. QED
  BY <1>1, <1>2, <1>3, QuietStep

LEMMA BeginOK ==
  ASSUME KeepsUp, RecomputeInv, NEW staged \in Stagings, Begin(staged)
  PROVE  RecomputeInv'
<1> USE DEF RecomputeInv, Begin, showVars
<1>1. queue = <<>>
  BY DEF QueueInv, KeepsUp
<1>2. TypeOK'
  <2>1. LastVersion \in Nat
    BY RecomputeAssumption
  <2>2. \A d \in DOMAIN staged : staged[d] \in 0..LastVersion
    BY <2>1, StagingIs DEF Versions
  <2>3. marks' \in [Days -> 0..LastVersion]
    BY <2>2 DEF TypeOK
  <2>4. QED
    BY <2>3 DEF TypeOK
<1>3. QueueInv' /\ ReadInv'
  BY <1>1 DEF QueueInv, ReadInv, Stagings
<1>4. QED
  BY <1>2, <1>3, QuietStep, ShownStays

(* Reading the sum before the first staged day: no batch waits, so it is    *)
(* the sum the recorder still has when the poll pushes.                     *)
LEMMA ReadBaselineOK ==
  ASSUME KeepsUp, ShortGaps, RecomputeInv, ReadBaseline
  PROVE  RecomputeInv'
<1> USE DEF RecomputeInv, ReadBaseline, showVars
<1>1. items \in Stagings
  BY DEF QueueInv
<1>2. baseline' = LastBefore(rows, From(items))
  BY <1>1, BaselineIs
<1>3. From(items) \in Int
  BY <1>1, FromIs DEF KeepsUp
<1>4. baseline' \in Nat
  BY <1>2, <1>3, LastBeforeIs DEF TypeOK, SumsType
<1>5. TypeOK'
  BY <1>4 DEF TypeOK
<1>6. QueueInv'
  BY DEF QueueInv, Stagings
<1>7. ReadInv'
  BY <1>2, <1>3, SameRows DEF ReadInv
<1>8. QED
  BY <1>5, <1>6, <1>7, QuietStep, ShownStays

LEMMA ReadExistingOK ==
  ASSUME KeepsUp, RecomputeInv, ReadExisting
  PROVE  RecomputeInv'
<1> USE DEF RecomputeInv, ReadExisting, showVars
<1>1. items \in Stagings /\ From(items) \in Int
  BY FromIs DEF QueueInv, KeepsUp
<1>2. TypeOK'
  <2>1. DOMAIN existing' \subseteq Hours
    BY DEF HasRow, RowsOf
  <2>2. QED
    BY <2>1 DEF TypeOK
<1>3. QueueInv'
  BY DEF QueueInv, Stagings
<1>4. ReadInv'
  BY <1>1, SameRows DEF ReadInv
<1>5. QED
  BY <1>2, <1>3, <1>4, QuietStep, ShownStays

(* The end of a poll: the sensor shows the total, which is the sum pushed.  *)
LEMMA SaveOK == ASSUME RecomputeInv, Save PROVE RecomputeInv'
<1> USE DEF RecomputeInv, Save, readVars
<1>1. TypeOK'
  BY DEF TypeOK
<1>2. QueueInv' /\ ReadInv'
  BY DEF QueueInv, ReadInv
<1>3. ShownInv'
  BY SameComing DEF QueueInv, ShownInv
<1>4. QED
  BY <1>1, <1>2, <1>3, QuietStep

LEMMA ReadFailsOK == ASSUME RecomputeInv, ReadFails PROVE RecomputeInv'
<1> USE DEF RecomputeInv, ReadFails, Forget, showVars
<1>1. TypeOK'
  BY DEF TypeOK
<1>2. QueueInv' /\ ReadInv'
  BY DEF QueueInv, ReadInv
<1>3. QED
  BY <1>1, <1>2, QuietStep, ShownStays

LEMMA PollFailsOK == ASSUME RecomputeInv, PollFails PROVE RecomputeInv'
<1> USE DEF RecomputeInv, PollFails, showVars, readVars
<1>1. TypeOK'
  BY DEF TypeOK
<1>2. QueueInv' /\ ReadInv'
  BY DEF QueueInv, ReadInv
<1>3. QED
  BY <1>1, <1>2, QuietStep, ShownStays

LEMMA SaveFailsOK == ASSUME RecomputeInv, SaveFails PROVE RecomputeInv'
<1> USE DEF RecomputeInv, SaveFails, readVars
<1>1. TypeOK'
  BY DEF TypeOK
<1>2. QueueInv' /\ ReadInv'
  BY DEF QueueInv, ReadInv
<1>3. ShownInv'
  <2>1. ComingSum' = ComingSum
    BY SameComing
  <2>2. seeded /\ total = ComingSum
    BY DEF QueueInv, ShownInv
  <2>3. QED
    BY <2>1, <2>2 DEF ShownInv
<1>4. QED
  BY <1>1, <1>2, <1>3, QuietStep

(* A new coordinator; the batch that waits, if there is one, goes on waiting.*)
LEMMA ReloadOK == ASSUME RecomputeInv, Reload PROVE RecomputeInv'
<1> USE DEF RecomputeInv, Reload, NewCoordinator, Forget
<1>1. TypeOK'
  <2>1. LastVersion \in Nat
    BY RecomputeAssumption
  <2>2. DOMAIN existing' = {} /\ marks' \in [Days -> 0..LastVersion]
    BY <2>1
  <2>3. QED
    BY <2>2 DEF TypeOK
<1>2. QueueInv' /\ ReadInv' /\ ShownInv'
  BY DEF QueueInv, ReadInv, ShownInv
<1>3. QED
  BY <1>1, <1>2, QuietStep

(* A restart, or a power cut that loses the batch waiting.                  *)
LEMMA RestartOK == ASSUME RecomputeInv, Restart PROVE RecomputeInv'
<1> USE DEF RecomputeInv, Restart, NewCoordinator, Forget
<1>1. TypeOK'
  <2>1. LastVersion \in Nat /\ Backlog \in Nat
    BY RecomputeAssumption
  <2>2. Len(queue') <= Backlog /\ DOMAIN queue' = {} /\ DOMAIN existing' = {}
    BY <2>1
  <2>3. marks' \in [Days -> 0..LastVersion]
    BY <2>1
  <2>4. QED
    BY <2>2, <2>3 DEF TypeOK
<1>2. QueueInv' /\ ReadInv' /\ ShownInv' /\ BatchInv'
  BY DEF QueueInv, ReadInv, ShownInv, BatchInv
<1>3. Rising(rows)'
  BY SameRows
<1>4. QED
  BY <1>1, <1>2, <1>3

(* Pushing: the batch is the only one that waits, and ends with the total,  *)
(* which no sensor shows yet.                                               *)
LEMMA PushOK ==
  ASSUME KeepsUp, RecomputeInv, Push
  PROVE  RecomputeInv'
<1> DEFINE batch == RunningSums
           last  == Max(DOMAIN batch)
<1>1. Ready /\ items \in Stagings /\ queue = <<>>
  BY DEF Push, RecomputeInv, KeepsUp, Ready, QueueInv
<1>2. /\ DOMAIN batch \in SUBSET Hours /\ DOMAIN batch # {}
      /\ \A k \in DOMAIN batch : batch[k] \in Nat
      /\ \A h \in HasRow \ DOMAIN batch, k \in DOMAIN batch : h < k
      /\ Rising(Written(batch))
      /\ \A h \in Hours :
            EnergyOf(Written(batch))[h] =
               IF h \in DOMAIN NewHours(items) THEN NewHours(items)[h] ELSE Energy[h]
  BY <1>1, PushedIs
<1> HIDE DEF batch
<1>3. last \in DOMAIN batch
  BY <1>2, HoursAre, MaxIs
<1>4. /\ queue' = <<batch>> /\ total' = batch[last] /\ total' \in Nat
      /\ rows' = rows /\ pc' = "save" /\ seeded' = seeded
      /\ shown' = shown /\ merged' = FALSE
  BY <1>1, <1>2, <1>3 DEF Push, batch
<1> HIDE DEF last
<1>5. Head(queue') = batch /\ queue' # <<>> /\ Len(queue') = 1 /\ DOMAIN queue' = {1}
  BY <1>4
<1>6. TypeOK'
  <2>1. Len(queue') <= Backlog
    BY <1>5 DEF KeepsUp
  <2>2. \A i \in DOMAIN queue' :
           DOMAIN queue'[i] \subseteq Hours /\ \A h \in DOMAIN queue'[i] : queue'[i][h] \in Nat
    BY <1>2, <1>4, <1>5
  <2>3. items' = <<>> /\ baseline' = 0 /\ DOMAIN existing' = {}
    BY DEF Push, Forget
  <2>4. UNCHANGED <<rows, seeded, marks, store>>
    BY DEF Push
  <2>5. QED
    BY <1>4, <2>1, <2>2, <2>3, <2>4 DEF RecomputeInv, TypeOK
<1>7. ShownInv' /\ ReadInv'
  BY <1>4, <1>5 DEF ShownInv, ComingSum, ReadInv, last
<1>8. QueueInv'
  <2>1. seeded
    BY DEF Push, RecomputeInv, QueueInv
  <2>2. QED
    BY <1>4, <1>5, <2>1 DEF QueueInv
<1>9. Rising(rows)'
  BY <1>4, SameRows DEF RecomputeInv
<1>10. BatchInv'
  <2> DEFINE sums == Written(batch)
             old  == Energy
             had  == HasRow
             new  == NewHours(items)
  <2>1. Written(Head(queue))' = sums
    BY <1>4, <1>5 DEF Written, Hours
  <2>2. Energy' = old /\ HasRow' = had
    BY <1>4, SameRows
  <2>3. new \in StagedHours
    BY <1>1 DEF StagedHours
  <2>4. \A h \in Hours : EnergyOf(sums)[h] = IF h \in DOMAIN new THEN new[h] ELSE old[h]
    BY <1>2
  <2>5. (\A h \in had \ DOMAIN batch, k \in DOMAIN batch : h < k) /\ Rising(sums)
    BY <1>2
  <2> HIDE DEF sums, old, had, new
  <2>6. Rising(Written(Head(queue)))' /\ EnergyOf(Written(Head(queue)))' = EnergyOf(sums)
    BY <2>1, <2>5 DEF Rising, RowsOf, EnergyOf, LastBefore, Hours
  <2>7. StagedHours' = StagedHours /\ Hours' = Hours
    BY DEF StagedHours, Hours
  <2>8. \E hours \in StagedHours' : \A h \in Hours' :
           EnergyOf(Written(Head(queue)))'[h] =
              IF h \in DOMAIN hours THEN hours[h] ELSE Energy'[h]
    BY <2>2, <2>3, <2>4, <2>6, <2>7
  <2>9. DOMAIN Head(queue') # {}
    BY <1>2, <1>5
  <2>10. \A h \in HasRow' \ DOMAIN Head(queue'), k \in DOMAIN Head(queue') : h < k
    BY <1>5, <2>2, <2>5
  <2>11. QED
    BY <2>6, <2>8, <2>9, <2>10 DEF BatchInv
<1>11. QED
  BY <1>6, <1>7, <1>8, <1>9, <1>10 DEF RecomputeInv

(* Writing: the statistic then ends with the sum that was to come.          *)
LEMMA CommitOK ==
  ASSUME RecomputeInv, Commit
  PROVE  RecomputeInv'
<1> DEFINE batch == Head(queue)
           last  == Max(DOMAIN batch)
           sums  == Written(batch)
<1>1. /\ queue = <<batch>> /\ queue' = <<>> /\ rows' = sums /\ pc' = pc
      /\ UNCHANGED <<total, seeded, shown, merged, items>>
  <2>1. queue # <<>> /\ queue = <<batch>> /\ queue' = Tail(queue)
    BY DEF Commit, RecomputeInv, QueueInv
  <2> HIDE DEF batch
  <2>2. queue' = Tail(<<batch>>)
    BY <2>1
  <2>3. Tail(<<batch>>) = <<>>
    OBVIOUS
  <2>4. QED
    BY <2>1, <2>2, <2>3 DEF Commit, batch, showVars, readVars
<1>2. DOMAIN batch \in SUBSET Hours /\ \A k \in DOMAIN batch : batch[k] \in Nat
  <2>1. 1 \in DOMAIN queue /\ queue[1] = batch
    BY <1>1
  <2>2. QED
    BY <2>1 DEF RecomputeInv, TypeOK
<1>3. /\ DOMAIN batch # {}
      /\ \A h \in HasRow \ DOMAIN batch, k \in DOMAIN batch : h < k
      /\ Rising(sums)
  BY DEF Commit, RecomputeInv, BatchInv
<1>4. sums = [h \in Hours |-> IF h \in DOMAIN batch THEN batch[h] ELSE rows[h]]
  BY DEF Written
<1>5. rows \in SumsType /\ total \in Nat
  BY DEF RecomputeInv, TypeOK, SumsType
<1>6. pc \notin {"baseline", "existing", "push"}
  BY DEF Commit, RecomputeInv, QueueInv
<1> HIDE DEF batch, sums
<1>7. TypeOK'
  <2>1. sums \in SumsType
    BY <1>2, <1>4, <1>5 DEF SumsType
  <2>2. Len(queue') <= Backlog /\ DOMAIN queue' = {}
    BY <1>1, RecomputeAssumption
  <2>3. UNCHANGED <<total, seeded, shown, merged, marks, store, pc, items, baseline, existing>>
    BY DEF Commit, showVars, readVars
  <2>4. QED
    BY <1>1, <2>1, <2>2, <2>3 DEF RecomputeInv, TypeOK, SumsType
<1>8. ShownInv'
  <2> DEFINE had == HasRow
  <2>1. \A k \in DOMAIN batch : batch[k] # NoRow /\ k \in Hours
    BY <1>2, HoursAre
  <2>2. RowsOf(sums) = had \union DOMAIN batch
    BY <1>4, <2>1 DEF RowsOf, HasRow
  <2>3. RowsOf(sums) \in SUBSET Int /\ IsFiniteSet(RowsOf(sums))
    BY HoursAre DEF RowsOf
  <2>4. DOMAIN batch \in SUBSET Int /\ IsFiniteSet(DOMAIN batch)
    BY <1>2, HoursAre
  <2>5. last \in DOMAIN batch /\ \A k \in DOMAIN batch : k <= last
    BY <1>3, <2>4, MaxIs
  <2> HIDE DEF last, had
  <2>6. \A k \in RowsOf(sums) : k <= last
    <3>1. \A h \in had \ DOMAIN batch : h < last
      BY <1>3, <2>5 DEF had
    <3>2. QED
      BY <2>2, <2>3, <2>5, <3>1
  <2>7. Max(RowsOf(sums)) = last
    <3>1. RowsOf(sums) # {}
      BY <2>2, <2>5
    <3>2. Max(RowsOf(sums)) \in RowsOf(sums) /\ \A k \in RowsOf(sums) : k <= Max(RowsOf(sums))
      BY <2>3, <3>1, MaxIs
    <3>3. last \in RowsOf(sums)
      BY <2>2, <2>5
    <3>4. QED
      BY <2>3, <2>6, <3>2, <3>3
  <2>8. sums[last] = batch[last] /\ RowsOf(sums) # {}
    BY <1>2, <1>4, <2>2, <2>5
  <2>9. HasRow' = RowsOf(sums)
    BY <1>1 DEF HasRow, RowsOf, Hours
  <2>10. LastSum' = batch[last]
    BY <1>1, <2>7, <2>8, <2>9 DEF LastSum
  <2>11. ComingSum' = LastSum' /\ ComingSum = batch[last]
    BY <1>1 DEF ComingSum, batch, last
  <2>12. QED
    BY <1>1, <2>10, <2>11 DEF RecomputeInv, ShownInv
<1>9. QueueInv' /\ ReadInv'
  BY <1>1, <1>6 DEF RecomputeInv, QueueInv, ReadInv
<1>10. Rising(rows)'
  BY <1>1, <1>3 DEF Rising, RowsOf, Hours
<1>11. BatchInv'
  BY <1>1 DEF BatchInv
<1>12. QED
  BY <1>7, <1>8, <1>9, <1>10, <1>11 DEF RecomputeInv

----------------------------------------------------------------------------
(* The theorems. *)

LEMMA StepOK ==
  ASSUME KeepsUp, ShortGaps, RecomputeInv, [Next]_vars
  PROVE  RecomputeInv'
<1>1. CASE Seed
  BY <1>1, SeedOK
<1>2. ASSUME NEW staged \in Stagings, Begin(staged) PROVE RecomputeInv'
  BY <1>2, BeginOK
<1>3. CASE ReadBaseline
  BY <1>3, ReadBaselineOK
<1>4. CASE ReadExisting
  BY <1>4, ReadExistingOK
<1>5. CASE Push
  BY <1>5, PushOK
<1>6. CASE Save
  BY <1>6, SaveOK
<1>7. CASE ReadFails
  BY <1>7, ReadFailsOK
<1>8. CASE Commit
  BY <1>8, CommitOK
<1>9. CASE Restart
  BY <1>9, RestartOK
<1>10. CASE PollFails
  BY <1>10, PollFailsOK
<1>11. CASE Reload
  BY <1>11, ReloadOK
<1>12. CASE SaveFails
  BY <1>12, SaveFailsOK
<1>13. CASE UNCHANGED vars
  <2> USE <1>13 DEF vars, showVars, readVars, RecomputeInv
  <2>1. TypeOK' /\ QueueInv'
    BY DEF TypeOK, QueueInv
  <2>2. ReadInv'
    <3>1. pc \in {"existing", "push"} => From(items) \in Int
      BY FromIs DEF QueueInv, KeepsUp, ReadInv
    <3>2. QED
      BY <3>1, SameRows DEF ReadInv
  <2>3. QED
    BY <2>1, <2>2, QuietStep, ShownStays
<1>14. QED
  BY <1>1, <1>2, <1>3, <1>4, <1>5, <1>6, <1>7, <1>8, <1>9, <1>10, <1>11, <1>12, <1>13 DEF Next

(* A recorder that keeps up, a polling zone not west of the data's, and no  *)
(* gap longer than the lookback: whatever is imported in whatever order,    *)
(* the batch that waits changes just the hours of its files, and the sums   *)
(* rise.                                                                    *)
THEOREM RecomputeInductive ==
  ASSUME KeepsUp
  PROVE  Spec /\ []ShortGaps => []RecomputeInv
<1>1. Init => RecomputeInv
  BY InitOK
<1>2. RecomputeInv /\ ShortGaps /\ [Next]_vars => RecomputeInv'
  BY StepOK
<1>3. QED
  BY <1>1, <1>2, PTL DEF Spec

(* Every variable keeps its type; no sum turns negative. *)
THEOREM TypeCorrect ==
  ASSUME KeepsUp
  PROVE  Spec /\ []ShortGaps => []TypeOK
<1>1. RecomputeInv => TypeOK
  BY DEF RecomputeInv
<1>2. QED
  BY <1>1, RecomputeInductive, PTL

(* The sensor shows the last sum of the statistic, once what was pushed is  *)
(* written, unless the poll that pushed it failed afterwards or a new       *)
(* coordinator has not imported yet; reloads with a batch still queued,     *)
(* restarts and power cuts included.                                        *)
THEOREM SensorCorrect ==
  ASSUME KeepsUp
  PROVE  Spec /\ []ShortGaps => []SensorAgrees
<1>1. RecomputeInv => SensorAgrees
  BY DEF RecomputeInv, ShownInv, ComingSum, SensorAgrees
<1>2. QED
  BY <1>1, RecomputeInductive, PTL

(* No step but a write changes the energy of any hour, and a write changes  *)
(* it as an import of the staged hours does.                                *)
LEMMA StepIsImport ==
  ASSUME RecomputeInv, [Next]_vars
  PROVE  [\E batch \in StagedHours : HourBooks!Import(batch)]_Energy
<1>1. CASE Commit
  <2> DEFINE sums == Written(Head(queue))
  <2>1. PICK hours \in StagedHours : \A h \in Hours :
           EnergyOf(sums)[h] = IF h \in DOMAIN hours THEN hours[h] ELSE Energy[h]
    BY <1>1 DEF Commit, RecomputeInv, BatchInv
  <2>2. rows' = sums
    BY <1>1 DEF Commit
  <2> HIDE DEF sums
  <2>3. Energy' = EnergyOf(sums)
    BY <2>2 DEF Energy, EnergyOf, LastBefore, RowsOf, Hours
  <2>4. EnergyOf(sums) = [h \in Hours |-> EnergyOf(sums)[h]]
    BY DEF EnergyOf
  <2>5. EnergyOf(sums) = [h \in Hours |-> IF h \in DOMAIN hours THEN hours[h] ELSE Energy[h]]
    BY <2>1, <2>4
  <2>6. HourBooks!Import(hours)
    BY <2>3, <2>5 DEF HourBooks!Import
  <2>7. QED
    BY <2>6
<1>2. CASE rows' = rows
  BY <1>2, SameRows
<1>3. Commit \/ rows' = rows
  BY DEF Next, vars, Seed, Begin, ReadBaseline, ReadExisting, Push, Save, ReadFails, PollFails,
         SaveFails,
         Reload, Restart
<1>4. QED
  BY <1>1, <1>2, <1>3

(* What the Energy dashboard shows implements the abstract books of hours:  *)
(* corrections and late days land at the right offset, in any order, with   *)
(* failing reads, restarts and power cuts.                                  *)
THEOREM HoursRefined ==
  ASSUME KeepsUp
  PROVE  Spec /\ []ShortGaps => RefinesHours
<1>1. Init => HourBooks!LedgerInit
  <2>1. Init => Energy = [h \in Hours |-> NoRow]
    BY DEF Init, Energy, EnergyOf
  <2>2. QED
    BY <2>1 DEF HourBooks!LedgerInit, HourBooks!NoHour, NoRow
<1>2. RecomputeInv /\ [Next]_vars =>
         [\E batch \in StagedHours : HourBooks!Import(batch)]_Energy
  BY StepIsImport
<1>3. QED
  BY <1>1, <1>2, RecomputeInductive, PTL DEF Spec, RefinesHours, HourBooks!LedgerSpec
=============================================================================
