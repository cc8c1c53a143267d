-------------------------- MODULE SchedulerProofs --------------------------
(***************************************************************************)
(* The proofs about the scheduler: of the calendar and the zone's clock,   *)
(* that every step of calculate_next_run leads to a later slot of the same *)
(* time of day and day of the month; and of the transactions, that slots   *)
(* fire in their order, once each if the packages are in the transaction.  *)
(***************************************************************************)
EXTENDS Scheduler, FiniteSetTheorems, TLAPS

-----------------------------------------------------------------------------
(* Induction over the naturals. *)

\* A set of natural numbers that is not empty has a least element.
LEMMA LeastNatural ==
  ASSUME NEW T, T \subseteq Nat, T # {}
  PROVE  \E n \in T : \A m \in T : n <= m
<1> DEFINE U == {0..n : n \in T}
           R == StrictSubsetOrdering(Nat)
<1>1. U \subseteq FiniteSubsetsOf(Nat)
  <2> SUFFICES ASSUME NEW n \in T PROVE 0..n \in FiniteSubsetsOf(Nat)
    OBVIOUS
  <2>1. n \in Nat /\ 0..n \subseteq Nat
    OBVIOUS
  <2>2. IsFiniteSet(0..n)
    BY <2>1, FS_Interval
  <2> QED BY <2>1, <2>2 DEF FiniteSubsetsOf
<1>2. IsWellFoundedOn(R, FiniteSubsetsOf(Nat))
  BY FS_StrictSubsetOrderingWellFounded
<1>3. \E x \in U : \A y \in U : <<y, x>> \notin R
  <2>1. U # {}
    OBVIOUS
  <2> HIDE DEF U, R
  <2> QED BY <1>1, <1>2, <2>1, WFMin
<1>4. PICK n \in T : \A m \in T : <<0..m, 0..n>> \notin R
  BY <1>3
<1>5. ASSUME NEW m \in T, m < n PROVE FALSE
  <2>1. 0..m \in SUBSET Nat /\ 0..n \in SUBSET Nat /\ 0..m \subseteq 0..n
    BY <1>5
  <2>2. 0..m # 0..n
    BY <1>5
  <2> QED BY <1>4, <2>1, <2>2 DEF StrictSubsetOrdering
<1> QED BY <1>5

-----------------------------------------------------------------------------
(* The calendar. *)

\* The dates of the months before month k.
DaysBefore(k) == {p \in (0..(k - 1)) \X (1..31) : p[2] <= monthrange(p[1])}

\* A month has 28 to 31 days.
LEMMA MonthrangeRange ==
  ASSUME NEW k \in Nat
  PROVE  monthrange(k) \in 28..31
BY YearsAssumption DEF monthrange

\* The dates before a month are finitely many.
LEMMA DaysBeforeFinite ==
  ASSUME NEW k \in Nat
  PROVE  IsFiniteSet(DaysBefore(k)) /\ Cardinality(DaysBefore(k)) \in Nat
<1>1. IsFiniteSet(0..(k - 1)) /\ IsFiniteSet(1..31)
  <2>1. 0 \in Int /\ k - 1 \in Int /\ 1 \in Int /\ 31 \in Int
    OBVIOUS
  <2> QED BY <2>1, FS_Interval
<1>2. IsFiniteSet((0..(k - 1)) \X (1..31))
  BY <1>1, FS_Product
<1>3. DaysBefore(k) \in SUBSET ((0..(k - 1)) \X (1..31))
  BY DEF DaysBefore
<1> QED BY <1>2, <1>3, FS_Subset, FS_CardinalityType

\* Month k has monthrange(k) dates.
LEMMA DaysBeforeNext ==
  ASSUME NEW k \in Nat
  PROVE  Cardinality(DaysBefore(k + 1)) = Cardinality(DaysBefore(k)) + monthrange(k)
<1> DEFINE M == {k} \X (1..monthrange(k))
<1>1. monthrange(k) \in 28..31
  BY MonthrangeRange
<1>2. DaysBefore(k + 1) = DaysBefore(k) \cup M
  <2>1. \A p : p \in DaysBefore(k + 1) => p \in DaysBefore(k) \cup M
    BY <1>1 DEF DaysBefore
  <2>2. \A p : p \in DaysBefore(k) \cup M => p \in DaysBefore(k + 1)
    BY <1>1 DEF DaysBefore
  <2> QED BY <2>1, <2>2
<1>3. DaysBefore(k) \cap M = {}
  BY DEF DaysBefore
<1>4. IsFiniteSet(M) /\ Cardinality(M) = monthrange(k)
  <2>1. IsFiniteSet({k}) /\ Cardinality({k}) = 1
    BY FS_Singleton
  <2>2. IsFiniteSet(1..monthrange(k)) /\ Cardinality(1..monthrange(k)) = monthrange(k)
    <3>1. \A n \in Nat : IsFiniteSet(1..n) /\ Cardinality(1..n) = n
      <4> SUFFICES ASSUME NEW n \in Nat PROVE IsFiniteSet(1..n) /\ Cardinality(1..n) = n
        OBVIOUS
      <4>1. 1 \in Int /\ n \in Int
        OBVIOUS
      <4> QED BY <4>1, FS_Interval
    <3> QED BY <1>1, <3>1
  <2>3. Cardinality(M) = 1 * monthrange(k) /\ IsFiniteSet(M)
    <3> DEFINE A == {k}
               B == 1..monthrange(k)
    <3>1. IsFiniteSet(A) /\ IsFiniteSet(B) /\ Cardinality(A) = 1 /\ Cardinality(B) = monthrange(k)
      BY <2>1, <2>2
    <3> HIDE DEF A, B
    <3>2. Cardinality(A \X B) = Cardinality(A) * Cardinality(B) /\ IsFiniteSet(A \X B)
      BY <3>1, FS_Product
    <3> QED BY <3>1, <3>2 DEF A, B
  <2> QED BY <2>3, <1>1
<1>5. Cardinality(DaysBefore(k) \cap M) = 0
  BY <1>3, FS_EmptySet
<1>6. Cardinality(DaysBefore(k) \cup M)
        = Cardinality(DaysBefore(k)) + Cardinality(M) - Cardinality(DaysBefore(k) \cap M)
  BY <1>4, DaysBeforeFinite, FS_Union
<1>7. Cardinality(DaysBefore(k)) \in Nat
  BY DaysBeforeFinite
<1> HIDE DEF M
<1> QED BY <1>1, <1>2, <1>4, <1>5, <1>6, <1>7

\* The recursion that defines Before counts these dates.
LEMMA BeforeRecursion ==
  Before = [k \in Nat |-> IF k = 0 THEN 0 ELSE Before[k - 1] + monthrange(k - 1)]
<1> DEFINE g == [k \in Nat |-> Cardinality(DaysBefore(k))]
<1>1. g = [k \in Nat |-> IF k = 0 THEN 0 ELSE g[k - 1] + monthrange(k - 1)]
  <2>1. g[0] = 0
    <3>1. DaysBefore(0) = {}
      BY DEF DaysBefore
    <3> QED BY <3>1, FS_EmptySet
  <2>2. ASSUME NEW k \in Nat, k # 0
        PROVE  g[k] = g[k - 1] + monthrange(k - 1)
    <3>1. k - 1 \in Nat /\ (k - 1) + 1 = k
      BY <2>2
    <3>2. Cardinality(DaysBefore((k - 1) + 1)) = Cardinality(DaysBefore(k - 1)) + monthrange(k - 1)
      BY <3>1, DaysBeforeNext
    <3> QED BY <3>1, <3>2
  <2> HIDE DEF g
  <2>3. g \in [Nat -> Nat]
    BY DaysBeforeFinite DEF g
  <2> QED BY <2>1, <2>2, <2>3
<1> HIDE DEF g
<1> QED BY <1>1 DEF Before


\* Before[k] is the number of days before month k.
LEMMA BeforeCounts ==
  ASSUME NEW k \in Nat
  PROVE  Before[k] = Cardinality(DaysBefore(k))
<1> DEFINE T == {n \in Nat : Before[n] # Cardinality(DaysBefore(n))}
<1>1. SUFFICES ASSUME T # {} PROVE FALSE
  OBVIOUS
<1>2. PICK n \in T : \A m \in T : n <= m
  BY <1>1, LeastNatural
<1>3. CASE n = 0
  <2>1. DaysBefore(0) = {}
    BY DEF DaysBefore
  <2>2. Before[0] = 0
    BY BeforeRecursion
  <2> QED BY <1>2, <1>3, <2>1, <2>2, FS_EmptySet
<1>4. CASE n # 0
  <2>1. n - 1 \in Nat /\ (n - 1) + 1 = n /\ n - 1 \notin T
    BY <1>2, <1>4
  <2>2. Before[n] = Before[n - 1] + monthrange(n - 1)
    BY <1>2, <1>4, BeforeRecursion
  <2>3. Cardinality(DaysBefore((n - 1) + 1)) = Cardinality(DaysBefore(n - 1)) + monthrange(n - 1)
    BY <2>1, DaysBeforeNext
  <2> QED BY <1>2, <2>1, <2>2, <2>3
<1> QED BY <1>3, <1>4

\* The months lie one after the other.
LEMMA BeforeNext ==
  ASSUME NEW k \in Nat
  PROVE  /\ Before[k] \in Nat
         /\ Before[k + 1] = Before[k] + monthrange(k)
<1>1. k + 1 \in Nat
  OBVIOUS
<1> QED BY <1>1, BeforeCounts, DaysBeforeNext, DaysBeforeFinite

\* Later months have at least as many days before them.
LEMMA BeforeMonotone ==
  ASSUME NEW j \in Nat, NEW k \in Nat, j <= k
  PROVE  Before[j] <= Before[k]
<1>1. DaysBefore(j) \in SUBSET DaysBefore(k)
  BY DEF DaysBefore
<1>2. Cardinality(DaysBefore(j)) <= Cardinality(DaysBefore(k))
  BY <1>1, DaysBeforeFinite, FS_Subset
<1> QED BY <1>2, BeforeCounts

\* A moment inside the calendar has a date, which names that moment.
LEMMA DateOf ==
  ASSUME NEW t \in Nat, NEW N \in Nat, N <= 12 * (LastYear - FirstYear + 1), t < Before[N] * DAY
  PROVE  LET d == date(t)
         IN /\ d.month \in Nat /\ d.month < N
            /\ d.day \in 1..monthrange(d.month)
            /\ d.minute = t % DAY
            /\ t = datetime(d.month, d.day, d.minute)
<1> DEFINE q == t \div DAY
           T == {k \in Nat : q < Before[k]}
           In(k) == Before[k] <= q /\ q < Before[k + 1]
<1>1. q \in Nat /\ t = q * DAY + (t % DAY) /\ t % DAY \in 0..(DAY - 1)
  BY DEF DAY
<1>2. q < Before[N]
  BY <1>1, BeforeNext DEF DAY
<1>3. PICK n \in T : \A m \in T : n <= m
  <2>1. T \subseteq Nat /\ T # {}
    BY <1>2
  <2> QED BY <2>1, LeastNatural
<1>4. n # 0
  <2>1. Before[0] = 0
    BY BeforeRecursion
  <2> QED BY <1>1, <1>3, <2>1
<1>5. n - 1 \in Nat /\ (n - 1) + 1 = n /\ n <= N /\ n - 1 \notin T
  BY <1>2, <1>3, <1>4
<1>6. In(n - 1) /\ n - 1 \in Months
  <2>1. Before[n - 1] \in Nat
    BY <1>5, BeforeNext
  <2>2. In(n - 1)
    BY <1>1, <1>3, <1>5, <2>1
  <2> QED BY <1>5, <2>2, YearsAssumption DEF Months
<1> DEFINE m == CHOOSE k \in Months : In(k)
<1>7. m \in Months /\ In(m)
  BY <1>6
<1>8. m \in Nat /\ m < N
  <2>1. m \in Nat
    BY <1>7 DEF Months
  <2>2. ASSUME N <= m PROVE FALSE
    BY <1>1, <1>2, <1>7, <2>1, <2>2, BeforeMonotone, BeforeNext
  <2> QED BY <2>1, <2>2
<1>9. date(t) = [month |-> m, day |-> q - Before[m] + 1, minute |-> t % DAY]
  BY DEF date
<1>10. Before[m] \in Nat /\ Before[m + 1] = Before[m] + monthrange(m) /\ monthrange(m) \in 28..31
  BY <1>8, BeforeNext, MonthrangeRange
<1> HIDE DEF m, q
<1>11. q - Before[m] + 1 \in 1..monthrange(m)
  BY <1>1, <1>7, <1>10
<1>12. datetime(m, q - Before[m] + 1, t % DAY) = t
  BY <1>1, <1>10 DEF datetime
<1> QED BY <1>8, <1>9, <1>11, <1>12

\* The moment a date names has that date.
LEMMA DateOfDatetime ==
  ASSUME NEW k \in Months, NEW day \in 1..monthrange(k), NEW minute \in 0..(DAY - 1)
  PROVE  date(datetime(k, day, minute)) = [month |-> k, day |-> day, minute |-> minute]
<1> DEFINE t == datetime(k, day, minute)
           In(j) == Before[j] <= t \div DAY /\ t \div DAY < Before[j + 1]
<1>1. k \in Nat /\ monthrange(k) \in 28..31
  BY MonthrangeRange DEF Months
<1>2. Before[k] \in Nat /\ Before[k + 1] = Before[k] + monthrange(k)
  BY <1>1, BeforeNext
<1>3. t \div DAY = Before[k] + day - 1 /\ t % DAY = minute
  BY <1>1, <1>2 DEF datetime, DAY
<1>4. In(k)
  BY <1>1, <1>2, <1>3
<1>5. ASSUME NEW j \in Months, In(j) PROVE j = k
  <2>1. j \in Nat /\ Before[j] \in Nat /\ Before[j + 1] \in Nat
    BY BeforeNext DEF Months
  <2>2. j + 1 <= k => Before[j + 1] <= Before[k]
    BY <1>1, <2>1, BeforeMonotone
  <2>3. k + 1 <= j => Before[k + 1] <= Before[j]
    BY <1>1, <2>1, BeforeMonotone
  <2> QED BY <1>1, <1>2, <1>3, <1>5, <2>1, <2>2, <2>3
<1>6. (CHOOSE j \in Months : In(j)) = k
  BY <1>4, <1>5
<1>7. date(t) = [month |-> k, day |-> t \div DAY - Before[k] + 1, minute |-> t % DAY]
  BY <1>6 DEF date
<1> QED BY <1>1, <1>2, <1>3, <1>7

-----------------------------------------------------------------------------
(* Daylight saving. *)

\* The zone's clock has one of two offsets.
LEMMA OffsetType ==
  ASSUME NEW t \in Int
  PROVE  offset(t) \in {Base, Base + 60} /\ offset(t) \in Int /\ localtime(t) = t + offset(t)
BY BaseAssumption DEF offset, localtime

\* What is corrected is the difference of the offsets.
LEMMA CorrectedIs ==
  ASSUME NEW t \in Int, NEW u \in Int
  PROVE  Corrected(t, u) = u + offset(t) - offset(u)
<1>1. offset(t) \in Int /\ offset(u) \in Int
  BY OffsetType
<1> QED BY <1>1 DEF Corrected, localtime

\* The offset grows between t and u, at most an hour apart, where daylight saving
\* begins.
LEMMA OffsetGrows ==
  ASSUME NEW t \in Int, NEW u \in Int, t < u, offset(t) = Base, offset(u) = Base + 60
  PROVE  \E i \in Summer : i[1] \in Int /\ t < i[1] /\ i[1] <= u
<1>1. PICK i \in Summer : i[1] <= u /\ u < i[2]
  BY BaseAssumption DEF offset
<1>2. ~(i[1] <= t /\ t < i[2])
  BY BaseAssumption DEF offset
<1>3. i[1] \in Int /\ i[2] \in Int
  BY BaseAssumption
<1> QED BY <1>1, <1>2, <1>3

\* What lies less than an hour after daylight saving begins is in the changing hour.
LEMMA InChangeHour ==
  ASSUME NEW i \in Summer, NEW v \in Int, i[1] + Base <= v, v < i[1] + Base + 60
  PROVE  v % DAY \in ChangeHour
<1> DEFINE n == v - (i[1] + Base)
<1>1. PICK a \in Int : a = i[1]
  BY BaseAssumption
<1>2. n \in 0..59 /\ i[1] + Base + n = v
  BY <1>1, BaseAssumption
<1> HIDE DEF n
<1> QED BY <1>2 DEF ChangeHour

\* Outside the hour that changes the correction keeps the time on the local clock.
LEMMA CorrectedKeepsClock ==
  ASSUME NEW t \in Int, NEW u \in Int, NEW k \in Int, u = t + k * DAY,
         localtime(t) % DAY \notin ChangeHour
  PROVE  localtime(Corrected(t, u)) = u + offset(t)
<1> DEFINE v == Corrected(t, u)
           L == t + offset(t)
<1>1. /\ offset(t) \in {Base, Base + 60} /\ offset(u) \in {Base, Base + 60}
      /\ Base \in Int
  BY OffsetType, BaseAssumption
<1>2. v = u + offset(t) - offset(u) /\ v \in Int
  BY <1>1, CorrectedIs
<1>3. offset(v) \in {Base, Base + 60} /\ localtime(v) = v + offset(v)
  BY <1>2, OffsetType
<1>4. L \in Int /\ L % DAY \notin ChangeHour
  BY <1>1 DEF localtime
<1>5. \A n \in Int : n = L + k * DAY => n % DAY = L % DAY
  BY <1>4 DEF DAY
<1> HIDE DEF v
<1>6. CASE offset(u) = offset(t)
  BY <1>1, <1>2, <1>3, <1>6 DEF v
<1>7. CASE offset(t) = Base /\ offset(u) = Base + 60
  <2>1. v = u - 60
    BY <1>1, <1>2, <1>7
  <2>2. ASSUME offset(v) = Base PROVE FALSE
    <3>1. PICK i \in Summer : i[1] \in Int /\ v < i[1] /\ i[1] <= u
      BY <1>2, <1>7, <2>1, <2>2, OffsetGrows
    <3>2. u + Base = L + k * DAY /\ u + Base \in Int
      BY <1>1, <1>7 DEF DAY
    <3>3. i[1] + Base <= u + Base /\ u + Base < i[1] + Base + 60
      BY <1>1, <2>1, <3>1
    <3> QED BY <1>4, <1>5, <3>2, <3>3, InChangeHour
  <2> QED BY <1>1, <1>2, <1>3, <1>7, <2>1, <2>2 DEF v
<1>8. CASE offset(t) = Base + 60 /\ offset(u) = Base
  <2>1. v = u + 60
    BY <1>1, <1>2, <1>8
  <2>2. ASSUME offset(v) = Base + 60 PROVE FALSE
    <3>1. PICK i \in Summer : i[1] \in Int /\ u < i[1] /\ i[1] <= v
      BY <1>2, <1>8, <2>1, <2>2, OffsetGrows
    <3>2. v + Base = L + k * DAY /\ v + Base \in Int
      BY <1>1, <1>8, <2>1 DEF DAY
    <3>3. i[1] + Base <= v + Base /\ v + Base < i[1] + Base + 60
      BY <1>1, <2>1, <3>1
    <3> QED BY <1>4, <1>5, <3>2, <3>3, InChangeHour
  <2> QED BY <1>1, <1>2, <1>3, <1>8, <2>1, <2>2 DEF v
<1> QED BY <1>1, <1>6, <1>7, <1>8 DEF v

\* A CRON schedule's next run lies after the moment it is counted from.
LEMMA CroniterLater ==
  ASSUME NEW cron \in 0..(DAY - 1), cron \notin ChangeHour, NEW t \in Int
  PROVE  croniter(cron, t) \in Int /\ croniter(cron, t) > t
<1> DEFINE m == (cron - localtime(t)) % DAY
           w == IF m = 0 THEN DAY ELSE m
           u == t + w
<1>1. localtime(t) = t + offset(t) /\ offset(t) \in {Base, Base + 60} /\ Base \in Int
  BY OffsetType, BaseAssumption
<1>2. m \in 0..(DAY - 1) /\ w \in 1..DAY /\ u \in Int /\ (localtime(t) + w) % DAY = cron
  <2>1. localtime(t) \in Int
    BY <1>1
  <2>2. PICK l \in Int : l = localtime(t)
    BY <2>1
  <2>3. m = (cron - l) % DAY /\ m \in 0..(DAY - 1) /\ w \in 1..DAY
    <3>1. DAY = 1440 /\ cron \in 0..1439
      BY DEF DAY
    <3>2. m = (cron - l) % DAY /\ w = IF m = 0 THEN DAY ELSE m
      BY <2>2
    <3> HIDE DEF m, w
    <3> QED BY <3>1, <3>2
  <2>4. (l + w) % DAY = cron
    <3>1. DAY = 1440 /\ cron \in 0..1439
      BY DEF DAY
    <3>2. m = (cron - l) % 1440 /\ w = IF m = 0 THEN 1440 ELSE m
      BY <2>3, <3>1
    <3> HIDE DEF m, w
    <3>3. (l + w) % 1440 = cron
      BY <3>1, <3>2
    <3> QED BY <3>1, <3>3
  <2> QED BY <2>2, <2>3, <2>4 DEF DAY
<1> HIDE DEF m, w
<1>4. localtime(u) = u + offset(u) /\ offset(u) \in {Base, Base + 60}
  BY <1>2, OffsetType
<1>5. croniter(cron, t) = u + offset(t) - offset(u)
  BY <1>1, <1>2, <1>4 DEF croniter, w, m
<1>6. ASSUME offset(t) = Base, offset(u) = Base + 60, w <= 60 PROVE FALSE
  <2>1. PICK i \in Summer : i[1] \in Int /\ t < i[1] /\ i[1] <= u
    BY <1>2, <1>6, OffsetGrows
  <2>2. u + Base \in Int /\ u + Base = localtime(t) + w
    BY <1>1, <1>2, <1>6
  <2>3. i[1] + Base <= u + Base /\ u + Base < i[1] + Base + 60
    BY <1>1, <1>2, <1>6, <2>1
  <2> QED BY <1>2, <2>2, <2>3, InChangeHour
<1> QED BY <1>1, <1>2, <1>4, <1>5, <1>6

-----------------------------------------------------------------------------
(* The next run. *)

\* The horizon is the beginning of the calendar's last month.
LEMMA HorizonType ==
  /\ 12 * (LastYear - FirstYear + 1) - 1 \in Nat
  /\ Horizon \in Nat
<1>1. 12 * (LastYear - FirstYear + 1) - 1 \in Nat
  BY YearsAssumption
<1>2. Before[12 * (LastYear - FirstYear + 1) - 1] \in Nat
  BY <1>1, BeforeNext
<1> QED BY <1>1, <1>2 DEF Horizon, DAY

\* The date of a moment before the horizon.
LEMMA DateInCalendar ==
  ASSUME NEW t \in 0..(Horizon - 1)
  PROVE  LET d == date(t)
         IN /\ d.month \in Nat /\ d.month < 12 * (LastYear - FirstYear + 1) - 1
            /\ d.day \in 1..monthrange(d.month)
            /\ d.minute = t % DAY /\ d.minute \in 0..(DAY - 1)
            /\ t = datetime(d.month, d.day, d.minute)
<1> DEFINE N == 12 * (LastYear - FirstYear + 1) - 1
<1>1. N \in Nat /\ N <= 12 * (LastYear - FirstYear + 1)
  BY HorizonType, YearsAssumption
<1>2. t \in Nat /\ t < Before[N] * DAY
  BY HorizonType DEF Horizon
<1>3. t % DAY \in 0..(DAY - 1)
  BY <1>2 DEF DAY
<1> HIDE DEF N
<1> QED BY <1>1, <1>2, <1>3, DateOf DEF N

\* The lesser of the day and the length of the month.
LEMMA ShorterDay ==
  ASSUME NEW a \in Nat, NEW b \in Nat
  PROVE  Min({a, b}) = IF a <= b THEN a ELSE b
BY DEF Min

\* n months later is another day at the same minute.
LEMMA AddMonths ==
  ASSUME NEW t \in 0..(Horizon - 1), NEW n \in 1..12
  PROVE  LET d == date(t)
             k == d.month + n
             day == IF d.day <= monthrange(k) THEN d.day ELSE monthrange(k)
         IN /\ add_months(t, n) = datetime(k, day, d.minute)
            /\ day \in 1..monthrange(k)
            /\ \E j \in Nat \ {0} : add_months(t, n) = t + j * DAY
<1> DEFINE d == date(t)
           k == d.month + n
           day == IF d.day <= monthrange(k) THEN d.day ELSE monthrange(k)
           j == (Before[k] + day) - (Before[d.month] + d.day)
<1>1. /\ d.month \in Nat /\ d.day \in 1..monthrange(d.month) /\ d.minute \in 0..(DAY - 1)
      /\ t = datetime(d.month, d.day, d.minute)
  BY DateInCalendar
<1>2. k \in Nat /\ monthrange(k) \in 28..31 /\ monthrange(d.month) \in 28..31
  BY <1>1, MonthrangeRange
<1>3. day \in 1..monthrange(k)
  BY <1>1, <1>2
<1>4. add_months(t, n) = datetime(k, day, d.minute)
  <2>1. Min({d.day, monthrange(k)}) = day
    BY <1>1, <1>2, ShorterDay
  <2> QED BY <2>1 DEF add_months
<1>5. /\ Before[d.month] \in Nat /\ Before[k] \in Nat
      /\ Before[d.month] + monthrange(d.month) <= Before[k]
  <2>1. d.month + 1 \in Nat /\ d.month + 1 <= k
    BY <1>1
  <2>2. Before[d.month + 1] <= Before[k]
    BY <1>2, <2>1, BeforeMonotone
  <2> QED BY <1>1, <1>2, <2>2, BeforeNext
<1>6. j \in Nat \ {0}
  BY <1>1, <1>2, <1>3, <1>5
<1>7. datetime(k, day, d.minute) = t + j * DAY
  <2>1. PICK a \in Int, b \in Int, x \in Int, y \in Int, m \in Int :
          a = Before[k] /\ b = Before[d.month] /\ x = day /\ y = d.day /\ m = d.minute
    <3>1. day \in Int /\ d.day \in Int /\ d.minute \in Int /\ Before[k] \in Int /\ Before[d.month] \in Int
      BY <1>1, <1>2, <1>3, <1>5 DEF DAY
    <3> HIDE DEF day, d, k
    <3> QED BY <3>1
  <2>2. datetime(k, day, d.minute) = (a + x - 1) * 1440 + m /\ t = (b + y - 1) * 1440 + m
    BY <1>1, <2>1 DEF datetime, DAY
  <2>3. j = (a + x) - (b + y) /\ DAY = 1440
    BY <2>1 DEF DAY
  <2> HIDE DEF j
  <2> QED BY <2>2, <2>3
<1> HIDE DEF j, day
<1> QED BY <1>3, <1>4, <1>6, <1>7 DEF day

\* A year later is a later day at the same minute: the same day, or February 28.
LEMMA AddYears ==
  ASSUME NEW t \in 0..(Horizon - 1)
  PROVE  LET d == date(t)
             k == d.month + 12
             day == IF d.day <= monthrange(k) THEN d.day ELSE monthrange(k)
         IN /\ add_years(t, 1) = datetime(k, day, d.minute)
            /\ day \in 1..monthrange(k)
            /\ add_years(t, 1) \in Int /\ add_years(t, 1) > t
<1> DEFINE d == date(t)
           k == d.month + 12
           day == IF d.day <= monthrange(k) THEN d.day ELSE monthrange(k)
<1>1. /\ d.month \in Nat /\ d.day \in 1..monthrange(d.month) /\ d.minute \in 0..(DAY - 1)
      /\ t = datetime(d.month, d.day, d.minute)
  BY DateInCalendar
<1>2. k \in Nat /\ monthrange(k) \in 28..31 /\ monthrange(d.month) \in 28..31 /\ k = d.month + 12 * 1
  BY <1>1, MonthrangeRange
<1>3. add_years(t, 1) = datetime(k, day, d.minute)
  <2>1. CASE d.day <= monthrange(k)
    BY <1>2, <2>1 DEF add_years
  <2>2. CASE d.day > monthrange(k)
    <3>1. monthrange(d.month) = 29 /\ monthrange(k) = 28 /\ d.day = 29
      <4>1. k % 12 = d.month % 12 /\ d.month % 12 \in 0..11
        BY <1>1
      <4>2. ASSUME (d.month % 12) + 1 # 2 PROVE monthrange(d.month) = monthrange(k)
        BY <4>1, <4>2 DEF monthrange
      <4>3. ASSUME (d.month % 12) + 1 = 2 PROVE monthrange(d.month) \in 28..29 /\ monthrange(k) \in 28..29
        BY <4>1, <4>3 DEF monthrange
      <4> QED BY <1>1, <1>2, <2>2, <4>2, <4>3
    <3>2. /\ Before[d.month + 1] = Before[d.month] + 29 /\ Before[k + 1] = Before[k] + 28
          /\ Before[d.month] \in Nat /\ Before[k] \in Nat
      BY <1>1, <1>2, <3>1, BeforeNext
    <3>3. add_years(t, 1) = t + (Before[k + 1] - Before[d.month + 1]) * DAY
      BY <1>1, <1>2, <2>2 DEF add_years
    <3>4. day = 28
      BY <3>1
    <3>5. PICK a \in Int, b \in Int, m \in Int : a = Before[k] /\ b = Before[d.month] /\ m = d.minute
      <4>1. d.minute \in Int /\ Before[k] \in Int /\ Before[d.month] \in Int
        BY <1>1, <3>2 DEF DAY
      <4> HIDE DEF d, k
      <4> QED BY <4>1
    <3>6. t = (b + 29 - 1) * 1440 + m
      BY <1>1, <3>1, <3>5 DEF datetime, DAY
    <3>7. datetime(k, day, d.minute) = (a + 28 - 1) * 1440 + m
      BY <3>4, <3>5 DEF datetime, DAY
    <3>8. add_years(t, 1) = t + ((a + 28) - (b + 29)) * 1440
      BY <3>2, <3>3, <3>5 DEF DAY
    <3> QED BY <3>6, <3>7, <3>8
  <2> QED BY <1>1, <1>2, <2>1, <2>2
<1>4. day \in 1..monthrange(k)
  BY <1>1, <1>2
<1>5. add_years(t, 1) \in Int /\ add_years(t, 1) > t
  <2>1. d.month + 1 \in Nat /\ d.month + 1 <= k
    BY <1>1
  <2>2. Before[d.month + 1] <= Before[k] /\ Before[d.month] \in Nat /\ Before[k] \in Nat
        /\ Before[d.month + 1] = Before[d.month] + monthrange(d.month)
    BY <1>1, <1>2, <2>1, BeforeMonotone, BeforeNext
  <2>3. Before[d.month] + d.day < Before[k] + day
    BY <1>1, <1>2, <1>4, <2>2
  <2>4. PICK a \in Int, b \in Int, x \in Int, y \in Int, m \in Int :
          a = Before[k] /\ b = Before[d.month] /\ x = day /\ y = d.day /\ m = d.minute
    <3>1. day \in Int /\ d.day \in Int /\ d.minute \in Int /\ Before[k] \in Int /\ Before[d.month] \in Int
      BY <1>1, <1>2, <1>4, <2>2 DEF DAY
    <3> HIDE DEF day, d, k
    <3> QED BY <3>1
  <2>5. add_years(t, 1) = (a + x - 1) * 1440 + m /\ t = (b + y - 1) * 1440 + m /\ b + y < a + x
    BY <1>1, <1>3, <2>3, <2>4 DEF datetime, DAY
  <2> QED BY <2>5
<1> HIDE DEF day
<1> QED BY <1>3, <1>4, <1>5 DEF day

\* Only CRON schedules look at the clock.
LEMMA CalculatedFromSlot ==
  ASSUME NEW r, r.type # "CRON", NEW t, NEW n, NEW m
  PROVE  calculate_next_run(r, t, n) = calculate_next_run(r, t, m)
BY DEF calculate_next_run

\* The schedules that run days to a quarter apart.
Spans == {"DAILY", "WEEKLY", "BIWEEKLY", "MONTHLY", "BIMONTHLY", "QUARTERLY"}

\* From a day to a quarter, a whole number of days is added and corrected.
LEMMA SpanIsDays ==
  ASSUME NEW r, r.type \in Spans, NEW t \in 0..(Horizon - 1), NEW n
  PROVE  /\ \E j \in Nat \ {0} : add(r, t) = j * DAY
         /\ calculate_next_run(r, t, n) = Corrected(t, t + add(r, t))
<1>1. calculate_next_run(r, t, n) = Corrected(t, t + add(r, t))
  BY DEF calculate_next_run, Spans
<1>2. \A m \in 1..3 : \E j \in Nat \ {0} : add_months(t, m) - t = j * DAY
  <2> SUFFICES ASSUME NEW m \in 1..3 PROVE \E j \in Nat \ {0} : add_months(t, m) - t = j * DAY
    OBVIOUS
  <2>1. m \in 1..12
    OBVIOUS
  <2>2. PICK j \in Nat \ {0} : add_months(t, m) = t + j * DAY
    BY <2>1, AddMonths
  <2>3. add_months(t, m) - t = j * DAY
    BY <2>2, HorizonType DEF DAY
  <2> QED BY <2>3
<1>3. CASE r.type = "DAILY"
  <2>1. add(r, t) = 1 * DAY
    BY <1>3 DEF add, DAY
  <2> QED BY <1>1, <2>1
<1>4. CASE r.type \in {"WEEKLY", "BIWEEKLY"}
  <2>1. add(r, t) = 7 * DAY \/ add(r, t) = 14 * DAY
    BY <1>4 DEF add
  <2> QED BY <1>1, <2>1
<1>5. CASE r.type \in {"MONTHLY", "BIMONTHLY", "QUARTERLY"}
  <2>1. \E m \in 1..3 : add(r, t) = add_months(t, m) - t
    BY <1>5 DEF add
  <2> QED BY <1>1, <1>2, <2>1
<1> QED BY <1>3, <1>4, <1>5 DEF Spans

\* Every schedule but one that runs once goes on to a later moment, and a CRON
\* schedule to one after now.
LEMMA NextRunLater ==
  ASSUME NEW r \in ScheduleRow, r.type # "ONCE", r.type = "CRON" => r.cron \notin ChangeHour,
         NEW t \in 0..(Horizon - 1), NEW n \in Nat, t <= n
  PROVE  /\ calculate_next_run(r, t, n) \in Nat
         /\ calculate_next_run(r, t, n) > t
         /\ r.type = "CRON" => calculate_next_run(r, t, n) > n
<1>1. t \in Nat
  BY HorizonType
<1>2. CASE r.type = "CRON"
  <2>1. r.cron \in 0..(DAY - 1) /\ n \in Int
    BY DEF ScheduleRow
  <2>2. croniter(r.cron, n) \in Int /\ croniter(r.cron, n) > n
    BY <1>2, <2>1, CroniterLater
  <2>3. calculate_next_run(r, t, n) = croniter(r.cron, n)
    BY <1>2 DEF calculate_next_run
  <2> QED BY <1>1, <2>2, <2>3
<1>3. CASE r.type = "MINUTES"
  <2>1. r.minutes \in Nat
    BY DEF ScheduleRow
  <2>2. MinutesOf(r) \in Nat /\ MinutesOf(r) > 0
    BY <2>1 DEF MinutesOf
  <2>3. calculate_next_run(r, t, n) = t + MinutesOf(r)
    BY <1>3 DEF calculate_next_run, add
  <2> QED BY <1>1, <1>3, <2>2, <2>3
<1>4. CASE r.type = "HOURLY"
  <2>1. calculate_next_run(r, t, n) = t + 60
    BY <1>4 DEF calculate_next_run, add
  <2> QED BY <1>1, <1>4, <2>1
<1>5. CASE r.type = "YEARLY"
  <2>1. calculate_next_run(r, t, n) = t + (add_years(t, 1) - t)
    BY <1>5 DEF calculate_next_run, add
  <2>2. add_years(t, 1) \in Int /\ add_years(t, 1) > t
    BY AddYears
  <2> QED BY <1>1, <1>5, <2>1, <2>2
<1>6. CASE r.type \in Spans
  <2>1. PICK j \in Nat \ {0} : add(r, t) = j * DAY
    BY <1>6, SpanIsDays
  <2>2. calculate_next_run(r, t, n) = Corrected(t, t + add(r, t))
    BY <1>6, SpanIsDays
  <2>3. t + add(r, t) \in Int /\ t + add(r, t) >= t + 1440
    BY <1>1, <2>1 DEF DAY
  <2>4. calculate_next_run(r, t, n) = (t + add(r, t)) + offset(t) - offset(t + add(r, t))
    BY <1>1, <2>2, <2>3, CorrectedIs
  <2>5. offset(t) \in {Base, Base + 60} /\ offset(t + add(r, t)) \in {Base, Base + 60} /\ Base \in Int
    BY <1>1, <2>3, OffsetType, BaseAssumption
  <2> QED BY <1>1, <1>6, <2>3, <2>4, <2>5 DEF Spans
<1> QED BY <1>2, <1>3, <1>4, <1>5, <1>6 DEF ScheduleRow, Spans

\* Every turn goes on to a later slot, and a slot after n ends the loop.
Ascends(n, g, S) == /\ g \in [0..n -> Nat] /\ S \in SUBSET (0..n)
                    /\ \A t \in 0..n : g[t] > t /\ (g[t] > n => t \in S)

\* The loop that skips what was missed has a value for every slot up to now: where
\* each turn goes on to a later one it comes to an end.
LEMMA LoopEnds ==
  ASSUME NEW n \in Nat, NEW g, NEW S, Ascends(n, g, S)
  PROVE  \E f \in [0..n -> Nat] : \A t \in 0..n : f[t] = IF t \in S THEN g[t] ELSE f[g[t]]
<1> DEFINE From(k) == {t \in 0..n : k + t >= n}
           Loop(f, k) == \A t \in From(k) : f[t] = IF t \in S THEN g[t] ELSE f[g[t]]
           T == {k \in Nat : ~ \E f \in [0..n -> Nat] : Loop(f, k)}
<1> USE DEF Ascends
<1>1. T = {}
  <2> SUFFICES ASSUME T # {} PROVE FALSE
    OBVIOUS
  <2>1. PICK k \in T : \A m \in T : k <= m
    <3>1. T \subseteq Nat
      OBVIOUS
    <3> HIDE DEF T
    <3> QED BY <3>1, LeastNatural
  <2>2. CASE k = 0
    <3> DEFINE f == [t \in 0..n |-> g[t]]
    <3>1. f \in [0..n -> Nat]
      OBVIOUS
    <3>2. Loop(f, 0)
      OBVIOUS
    <3> QED BY <2>1, <2>2, <3>1, <3>2
  <2>3. CASE k # 0
    <3>1. k - 1 \in Nat /\ k - 1 \notin T
      <4>1. k \in Nat
        BY <2>1
      <4> HIDE DEF T
      <4> QED BY <2>1, <2>3, <4>1
    <3>2. PICK h \in [0..n -> Nat] : Loop(h, k - 1)
      BY <3>1
    <3>3. CASE n - k \in 0..n
      <4> DEFINE s == n - k
                 v == IF s \in S THEN g[s] ELSE h[g[s]]
                 f == [h EXCEPT ![s] = v]
      <4>1. s \in 0..n /\ g[s] \in Nat /\ g[s] > s /\ v \in Nat
        BY <3>3
      <4>2. f \in [0..n -> Nat]
        BY <4>1
      <4>3. ASSUME NEW t \in From(k) PROVE f[t] = IF t \in S THEN g[t] ELSE f[g[t]]
        <5>1. g[t] \in Nat /\ g[t] > t /\ t \in 0..n /\ t >= s
          BY <2>1
        <5>2. g[t] # s
          BY <4>1, <5>1
        <5>3. CASE t = s
          BY <4>1, <5>1, <5>2, <5>3
        <5>4. CASE t # s
          <6>1. t \in From(k - 1)
            BY <2>1, <5>1, <5>4
          <6>2. h[t] = IF t \in S THEN g[t] ELSE h[g[t]]
            BY <3>2, <6>1
          <6>3. f[t] = h[t]
            BY <5>1, <5>4
          <6>4. t \notin S => g[t] \in 0..n /\ f[g[t]] = h[g[t]]
            BY <5>1, <5>2
          <6> HIDE DEF f
          <6> QED BY <6>2, <6>3, <6>4
        <5> QED BY <5>3, <5>4
      <4>4. Loop(f, k)
        BY <4>3
      <4> QED BY <2>1, <4>2, <4>4
    <3>4. CASE n - k \notin 0..n
      <4>1. From(k) \subseteq From(k - 1)
        BY <2>1, <3>4
      <4>2. Loop(h, k)
        BY <3>2, <4>1
      <4> QED BY <2>1, <4>2
    <3> QED BY <3>3, <3>4
  <2> QED BY <2>2, <2>3
<1>2. PICK f \in [0..n -> Nat] : Loop(f, n)
  <2>1. n \notin T
    BY <1>1
  <2> QED BY <2>1
<1>3. From(n) = 0..n
  OBVIOUS
<1> QED BY <1>2, <1>3

\* What the loop returns: the first turn's slot, or one that lies after now.
LEMMA LoopReturns ==
  ASSUME NEW n \in Nat, NEW g \in [0..n -> Nat], \A t \in 0..n : g[t] > t, NEW S,
         \A t \in 0..n : g[t] > n => t \in S,
         NEW f, f = [t \in 0..n |-> IF t \in S THEN g[t] ELSE f[g[t]]],
         NEW t \in 0..n
  PROVE  /\ t \in S => f[t] = g[t]
         /\ (\A s \in S : g[s] > n) => f[t] \in Nat /\ f[t] > n
<1>1. \A s \in 0..n : f[s] = IF s \in S THEN g[s] ELSE f[g[s]]
  OBVIOUS
<1>2. t \in S => f[t] = g[t]
  BY <1>1
<1>3. ASSUME \A s \in S : g[s] > n PROVE f[t] \in Nat /\ f[t] > n
  <2> DEFINE Late(s) == f[s] \in Nat /\ f[s] > n
             T == {k \in Nat : k <= n /\ ~Late(n - k)}
  <2>1. SUFFICES ASSUME ~Late(t) PROVE FALSE
    OBVIOUS
  <2>2. PICK k \in T : \A m \in T : k <= m
    <3>1. T \subseteq Nat
      OBVIOUS
    <3>2. n - t \in T
      <4>1. n - t \in Nat /\ n - t <= n /\ n - (n - t) = t
        OBVIOUS
      <4> QED BY <2>1, <4>1
    <3> HIDE DEF T
    <3> QED BY <3>1, <3>2, LeastNatural
  <2>3. k \in Nat /\ k <= n /\ ~Late(n - k)
    BY <2>2
  <2> DEFINE s == n - k
  <2>4. s \in 0..n /\ g[s] \in Nat /\ g[s] > s /\ ~Late(s)
    BY <2>3
  <2>5. f[s] = IF s \in S THEN g[s] ELSE f[g[s]]
    BY <1>1, <1>3, <2>4
  <2>6. CASE s \in S
    BY <1>3, <2>4, <2>5, <2>6
  <2>7. CASE s \notin S
    <3> DEFINE u == g[s]
               m == n - u
    <3>1. m \in Nat /\ m <= n /\ m < k /\ n - m = u
      BY <2>3, <2>4, <2>7
    <3>2. m \notin T
      <4> HIDE DEF T, m
      <4> QED BY <2>2, <2>3, <3>1
    <3>3. Late(u)
      <4> HIDE DEF Late, m
      <4> QED BY <3>1, <3>2
    <3> QED BY <2>4, <2>5, <2>7, <3>3
  <2> QED BY <2>6, <2>7
<1> QED BY <1>2, <1>3

\* A row as the code makes it.
Regular(r) == r \in ScheduleRow /\ (r.type = "CRON" => r.cron \notin ChangeHour)

\* The slot the loop ends at.
LEMMA NextSlotLater ==
  ASSUME NEW r, Regular(r), r.type # "ONCE", now \in 0..(Horizon - 1), r.next_run < now,
         CATCH_UP \in BOOLEAN
  PROVE  /\ NextSlot(r) \in Nat /\ NextSlot(r) > r.next_run
         /\ CATCH_UP => NextSlot(r) = calculate_next_run(r, r.next_run, now)
         /\ ~CATCH_UP => NextSlot(r) > now
<1> DEFINE g == [t \in 0..now |-> calculate_next_run(r, t, now)]
           S == {t \in 0..now : CATCH_UP \/ g[t] > now}
           Loop(f) == f = [t \in 0..now |-> IF t \in S THEN g[t] ELSE f[g[t]]]
           step == CHOOSE f : f = [t \in 0..now |-> LET u == calculate_next_run(r, t, now)
                                                  IN IF CATCH_UP \/ u > now THEN u ELSE f[u]]
<1>1. now \in Nat /\ r.next_run \in 0..now /\ r.next_run \in Nat
  BY HorizonType DEF Regular, ScheduleRow
<1>2. ASSUME NEW t \in 0..now
      PROVE  g[t] \in Nat /\ g[t] > t /\ (g[t] > now => t \in S)
  <2>1. t \in 0..(Horizon - 1) /\ t <= now
    BY <1>1, HorizonType
  <2> QED BY <1>1, <2>1, NextRunLater DEF Regular
<1>3. /\ g \in [0..now -> Nat]
      /\ \A t \in 0..now : g[t] > t
      /\ \A t \in 0..now : g[t] > now => t \in S
  BY <1>2
<1>4. \E f : Loop(f)
  <2> HIDE DEF g, S
  <2>1. PICK f \in [0..now -> Nat] : \A t \in 0..now : f[t] = IF t \in S THEN g[t] ELSE f[g[t]]
    <3>1. Ascends(now, g, S)
      <4>1. S \in SUBSET (0..now)
        BY DEF S
      <4> QED BY <1>3, <4>1 DEF Ascends
    <3> QED BY <1>1, <3>1, LoopEnds
  <2>2. Loop(f)
    BY <2>1
  <2> QED BY <2>2
<1>5. Loop(step)
  <2>1. \A f : Loop(f) <=> f = [t \in 0..now |-> LET u == calculate_next_run(r, t, now)
                                              IN IF CATCH_UP \/ u > now THEN u ELSE f[u]]
    OBVIOUS
  <2> HIDE DEF Loop
  <2> QED BY <1>4, <2>1
<1>6. NextSlot(r) = step[r.next_run]
  BY DEF NextSlot
<1>7. /\ r.next_run \in S => step[r.next_run] = g[r.next_run]
      /\ (\A s \in S : g[s] > now) => step[r.next_run] \in Nat /\ step[r.next_run] > now
  <2> HIDE DEF g, S, step
  <2> QED BY <1>1, <1>3, <1>5, LoopReturns
<1>8. /\ g[r.next_run] = calculate_next_run(r, r.next_run, now)
      /\ g[r.next_run] \in Nat /\ g[r.next_run] > r.next_run
  BY <1>1, <1>2
<1>9. /\ CATCH_UP => r.next_run \in S
      /\ ~CATCH_UP => \A s \in S : g[s] > now
  BY <1>1
<1> HIDE DEF g, step, S
<1> QED BY <1>1, <1>6, <1>7, <1>8, <1>9

-----------------------------------------------------------------------------
(* What a step keeps. *)

\* The time of day on the local clock.
LEMMA StepKeepsClock ==
  ASSUME NEW r, r.type \in Spans, NEW t \in 0..(Horizon - 1), NEW n,
         localtime(t) % DAY \notin ChangeHour
  PROVE  /\ localtime(calculate_next_run(r, t, n)) = (t + add(r, t)) + offset(t)
         /\ localtime(calculate_next_run(r, t, n)) % DAY = localtime(t) % DAY
<1>1. PICK j \in Nat \ {0} : add(r, t) = j * DAY
  BY SpanIsDays
<1>2. t \in Int /\ t + add(r, t) = t + j * DAY /\ t + add(r, t) \in Int /\ j \in Int
  BY <1>1, HorizonType DEF DAY
<1>3. localtime(calculate_next_run(r, t, n)) = (t + add(r, t)) + offset(t)
  BY <1>2, SpanIsDays, CorrectedKeepsClock
<1>4. PICK a \in Int : a = offset(t)
  BY <1>2, OffsetType
<1>5. ((t + j * 1440) + a) % 1440 = (t + a) % 1440
  BY <1>2
<1> QED BY <1>2, <1>3, <1>4, <1>5, OffsetType DEF DAY

\* The local day of the month, where it is the day in UTC.
LEMMA MonthlyKeepsDay ==
  ASSUME NEW r, r.type \in Spans, NEW t \in 0..(Horizon - 1), NEW n,
         NEW m \in 1..3, add(r, t) = add_months(t, m) - t,
         calculate_next_run(r, t, n) \in 0..(Horizon - 1),
         localtime(t) \div DAY = t \div DAY,
         localtime(t) % DAY \notin ChangeHour
  PROVE  LET d == date(t)
             e == date(localtime(calculate_next_run(r, t, n)))
         IN e.month = d.month + m /\ SameDay(d, e)
<1> DEFINE N == 12 * (LastYear - FirstYear + 1) - 1
           v == calculate_next_run(r, t, n)
           d == date(t)
           k == d.month + m
           u == add_months(t, m)
           day == IF d.day <= monthrange(k) THEN d.day ELSE monthrange(k)
           minute == d.minute + offset(t)
<1>1. /\ d.month \in Nat /\ d.day \in 1..monthrange(d.month)
      /\ d.minute = t % DAY /\ d.minute \in 0..(DAY - 1)
  BY DateInCalendar
<1>2. u = datetime(k, day, d.minute) /\ day \in 1..monthrange(k)
  <2>1. m \in 1..12
    OBVIOUS
  <2> QED BY <2>1, AddMonths
<1>3. k \in Nat /\ monthrange(k) \in 28..31 /\ Before[k] \in Nat
  BY <1>1, MonthrangeRange, BeforeNext
<1>4. t \in Int /\ u \in Int /\ offset(t) \in {Base, Base + 60} /\ Base \in Int
      /\ localtime(t) = t + offset(t)
  <2>1. t \in Int
    BY HorizonType
  <2> QED BY <1>1, <1>2, <1>3, <2>1, OffsetType, BaseAssumption DEF datetime, DAY
<1>5. t + add(r, t) = u
  BY <1>4
<1>6. localtime(v) = u + offset(t)
  BY <1>5, StepKeepsClock
<1>7. minute \in 0..(DAY - 1)
  <2>1. PICK a \in Int, b \in Int : a = offset(t) /\ b = t
    BY <1>4
  <2>2. (b + a) \div 1440 = b \div 1440 /\ d.minute = b % 1440
    BY <1>1, <1>4, <2>1 DEF DAY
  <2>3. (b % 1440) + a \in 0..1439
    BY <2>2
  <2> QED BY <2>1, <2>2, <2>3 DEF DAY
<1>8. localtime(v) = datetime(k, day, minute)
  <2>1. PICK a \in Int, b \in Int, x \in Int, y \in Int :
          a = Before[k] /\ b = offset(t) /\ x = day /\ y = d.minute
    <3>1. Before[k] \in Int /\ offset(t) \in Int /\ day \in Int /\ d.minute \in Int
      BY <1>1, <1>2, <1>3, <1>4 DEF DAY
    <3> HIDE DEF d, k, day
    <3> QED BY <3>1
  <2>2. u = (a + x - 1) * DAY + y /\ datetime(k, day, minute) = (a + x - 1) * DAY + (y + b)
    BY <1>2, <2>1 DEF datetime
  <2> HIDE DEF u
  <2> QED BY <1>6, <2>1, <2>2 DEF DAY
<1>9. k \in Months
  <2>1. N \in Nat /\ Horizon = Before[N] * DAY /\ Before[N] \in Nat
    BY HorizonType, BeforeNext DEF Horizon
  <2>2. v \in Int /\ v < Horizon /\ v = u + offset(t) - offset(v) /\ offset(v) \in {Base, Base + 60}
    <3>1. v \in Int /\ v < Horizon
      BY HorizonType
    <3>2. localtime(v) = v + offset(v) /\ offset(v) \in {Base, Base + 60}
      BY <3>1, OffsetType
    <3>3. offset(v) \in Int /\ offset(t) \in Int
      BY <1>4, <3>2
    <3>4. v + offset(v) = u + offset(t)
      BY <1>6, <3>2
    <3> HIDE DEF v, u
    <3>5. v = u + offset(t) - offset(v)
      BY <1>4, <3>1, <3>3, <3>4
    <3> QED BY <3>1, <3>2, <3>5
  <2>3. u <= v + 60
    <3> HIDE DEF v, u
    <3> QED BY <1>4, <2>2
  <2>4. Before[k] * DAY <= u
    BY <1>1, <1>2, <1>3 DEF datetime, DAY
  <2>5. Before[k] <= Before[N]
    <3> HIDE DEF v, u, N, k
    <3> QED BY <1>3, <1>4, <2>1, <2>2, <2>3, <2>4 DEF DAY
  <2>6. ASSUME N < k PROVE FALSE
    <3>1. N + 1 \in Nat /\ N + 1 <= k
      BY <1>3, <2>1, <2>6
    <3>2. Before[N + 1] <= Before[k] /\ Before[N + 1] = Before[N] + monthrange(N) /\ monthrange(N) \in 28..31
      BY <1>3, <2>1, <3>1, BeforeMonotone, BeforeNext, MonthrangeRange
    <3> HIDE DEF N, k
    <3> QED BY <1>3, <2>1, <2>5, <3>2
  <2>7. k <= N
    <3> HIDE DEF N, k
    <3> QED BY <1>3, <2>1, <2>6
  <2> QED BY <1>3, <2>1, <2>7, YearsAssumption DEF Months
<1>10. date(datetime(k, day, minute)) = [month |-> k, day |-> day, minute |-> minute]
  <2> HIDE DEF k, day, minute
  <2> QED BY <1>2, <1>7, <1>9, DateOfDatetime
<1> QED BY <1>1, <1>2, <1>3, <1>8, <1>10 DEF SameDay

\* The day of the month in UTC.
LEMMA YearlyKeepsDay ==
  ASSUME NEW r, r.type = "YEARLY", NEW t \in 0..(Horizon - 1), NEW n,
         calculate_next_run(r, t, n) \in 0..(Horizon - 1)
  PROVE  LET d == date(t)
             e == date(calculate_next_run(r, t, n))
         IN e.month = d.month + 12 /\ SameDay(d, e)
<1> DEFINE N == 12 * (LastYear - FirstYear + 1) - 1
           v == calculate_next_run(r, t, n)
           d == date(t)
           k == d.month + 12
           day == IF d.day <= monthrange(k) THEN d.day ELSE monthrange(k)
<1>1. /\ d.month \in Nat /\ d.day \in 1..monthrange(d.month)
      /\ d.minute = t % DAY /\ d.minute \in 0..(DAY - 1)
  BY DateInCalendar
<1>2. v = datetime(k, day, d.minute) /\ day \in 1..monthrange(k)
  <2>1. v = t + (add_years(t, 1) - t) /\ t \in Int
    BY HorizonType DEF calculate_next_run, add
  <2>2. v = add_years(t, 1)
    BY <2>1, AddYears
  <2> QED BY <2>2, AddYears
<1>3. k \in Nat /\ monthrange(k) \in 28..31 /\ Before[k] \in Nat
  BY <1>1, MonthrangeRange, BeforeNext
<1>4. k \in Months
  <2>1. N \in Nat /\ Horizon = Before[N] * DAY /\ Before[N] \in Nat
    BY HorizonType, BeforeNext DEF Horizon
  <2>2. Before[k] * DAY <= v /\ v < Horizon /\ v \in Int
    BY <1>1, <1>2, <1>3, HorizonType DEF datetime, DAY
  <2>3. ~(Before[N] <= Before[k])
    <3> HIDE DEF v, N, k
    <3> QED BY <1>3, <2>1, <2>2 DEF DAY
  <2>4. k <= N
    <3> HIDE DEF N, k
    <3> QED BY <1>3, <2>1, <2>3, BeforeMonotone
  <2> QED BY <1>3, <2>1, <2>4, YearsAssumption DEF Months
<1>5. date(datetime(k, day, d.minute)) = [month |-> k, day |-> day, minute |-> d.minute]
  <2> HIDE DEF k, day
  <2> QED BY <1>1, <1>2, <1>4, DateOfDatetime
<1> QED BY <1>1, <1>2, <1>3, <1>5 DEF SameDay

-----------------------------------------------------------------------------
(* The invariant. *)

\* What a row keeps of the one it was made as.
Kept(q, r) == q = [r EXCEPT !.next_run = q.next_run, !.repeats = q.repeats]

RowsOK ==
  /\ DOMAIN rows \subseteq DOMAIN made /\ DOMAIN made \subseteq Schedules
  /\ \A s \in DOMAIN made : Regular(made[s])
  /\ \A s \in DOMAIN rows : rows[s] \in ScheduleRow /\ Kept(rows[s], made[s])

\* A transaction holds rows that are due as they were committed, each of them in one
\* place, and no other transaction holds them.
LocksOK(c) ==
  /\ Locked(c) \subseteq DOMAIN rows
  /\ DOMAIN tx[c].todo \cap DOMAIN tx[c].saved = {}
  /\ DOMAIN tx[c].todo \cap tx[c].deleted = {}
  /\ DOMAIN tx[c].saved \cap tx[c].deleted = {}
  /\ DOMAIN tx[c].out = IF sameDB THEN DOMAIN tx[c].saved \cup tx[c].deleted ELSE {}
  /\ \A s \in DOMAIN tx[c].todo : tx[c].todo[s] = rows[s]
  /\ \A s \in Locked(c) : rows[s].repeats # 0 /\ rows[s].next_run < now

Exclusive == \A c, d \in Sentinels : c # d => Locked(c) \cap Locked(d) = {}

\* What was enqueued for a row that the transaction has handled.
Enqueued(c, s) == IF sameDB THEN tx[c].out[s] ELSE Last(fired[s])

\* The slot itself and the one that follows it.
Follow(m, t) == {t, calculate_next_run(m, t, 0)}

\* Where row r goes on as q after p fired.
Advanced(q, r, p) ==
  /\ q \in ScheduleRow /\ Kept(q, r)
  /\ r.type = "ONCE" => q.next_run = r.next_run /\ q.repeats = 0
  /\ r.type # "ONCE" =>
       /\ q.repeats = Counted(r.repeats)
       /\ q.next_run > r.next_run
       /\ CATCH_UP /\ r.type # "CRON" => q.next_run = calculate_next_run(r, r.next_run, 0)
       /\ ~CATCH_UP => q.next_run > p.at

Fired == [slot : Nat, at : Nat, queue : {NameOf[c] : c \in Sentinels}]

HandledOK(c) ==
  /\ \A s \in DOMAIN tx[c].saved \cup tx[c].deleted :
       /\ fired[s] = <<>> => sameDB
       /\ Enqueued(c, s) \in Fired
       /\ Enqueued(c, s).slot = rows[s].next_run
       /\ Enqueued(c, s).slot < Enqueued(c, s).at /\ Enqueued(c, s).at <= now
  /\ \A s \in DOMAIN tx[c].saved : Advanced(tx[c].saved[s], rows[s], Enqueued(c, s))
  /\ \A s \in tx[c].deleted : rows[s].type = "ONCE"
  /\ \A s \in DOMAIN tx[c].todo \cup DOMAIN tx[c].out : Len(fired[s]) < MaxFires

\* A row that may fire again.
Live(r) == r.type # "ONCE" \/ r.repeats # 0

\* Slots fire in their order, and each of them once if packages are in the transaction.
Earlier(t, u) == t <= u /\ (sameDB => t < u)
Ascending(f) == \A i, j \in DOMAIN f : i < j => Earlier(f[i].slot, f[j].slot)
UpTo(f, t) == \A i \in DOMAIN f : Earlier(f[i].slot, t)

\* No slot is left out.
Chained(f, m) ==
  /\ f # <<>> => f[1].slot = m.next_run
  /\ \A i \in 1..(Len(f) - 1) : f[i + 1].slot \in Follow(m, f[i].slot)
ChainedTo(f, m, t) ==
  /\ f = <<>> => t = m.next_run
  /\ f # <<>> => t \in Follow(m, Last(f).slot)

\* What follows p is the same slot or lies after p fired.
Later(p, t) == t = p.slot \/ t > p.at
Timely(f) == \A i \in 1..(Len(f) - 1) : Later(f[i], f[i + 1].slot)
TimelyTo(f, t) == f # <<>> => Later(Last(f), t)

\* The slots before the next run are those the repeats were counted for.
SlotsOf(f) == {f[i].slot : i \in DOMAIN f}
Past(f, t) == {u \in SlotsOf(f) : u < t}
CountedTo(f, m, r) ==
  /\ m.repeats < 0 => r.repeats \in {m.repeats, -1}
  /\ m.repeats >= 0 => r.repeats >= 0 /\ Cardinality(Past(f, r.next_run)) = m.repeats - r.repeats

\* What has fired, for a schedule made as m ..
FiredOK(f, m) ==
  /\ Ascending(f)
  /\ CATCH_UP /\ m.type \notin {"ONCE", "CRON"} => Chained(f, m)
  /\ ~CATCH_UP => Timely(f)

\* .. whose row is r.
RowOK(f, m, r) ==
  /\ Live(r) => UpTo(f, r.next_run)
  /\ CATCH_UP /\ m.type \notin {"ONCE", "CRON"} => ChainedTo(f, m, r.next_run)
  /\ ~CATCH_UP => TimelyTo(f, r.next_run)
  /\ m.type # "ONCE" => CountedTo(f, m, r)

HistoryOK(s) ==
  /\ Len(fired[s]) <= MaxFires
  /\ \A i \in DOMAIN fired[s] : fired[s][i].slot < fired[s][i].at /\ fired[s][i].at <= now
  /\ s \notin DOMAIN made => fired[s] = <<>>
  /\ s \in DOMAIN made => FiredOK(fired[s], made[s])
  /\ s \in DOMAIN rows => RowOK(fired[s], made[s], rows[s])

StateOK == /\ CATCH_UP \in BOOLEAN /\ sameDB \in BOOLEAN
           /\ now \in Nat /\ (now = 0 \/ now < Horizon) /\ faults \in 0..MaxFaults
           /\ fired \in [Schedules -> Seq(Fired)]
           /\ tx = [c \in Sentinels |-> [todo |-> tx[c].todo, saved |-> tx[c].saved,
                                         deleted |-> tx[c].deleted, out |-> tx[c].out]]

SInv == /\ StateOK
        /\ RowsOK
        /\ Exclusive
        /\ \A c \in Sentinels : LocksOK(c) /\ HandledOK(c)
        /\ \A s \in Schedules : HistoryOK(s)

-----------------------------------------------------------------------------
(* What a package that is enqueued does to the history, and what the row does when *)
(* it goes on.                                                                      *)

\* The sequence with p at its end.
LEMMA Appends ==
  ASSUME NEW S, NEW f \in Seq(S), NEW p \in S
  PROVE  LET g == Append(f, p)
         IN /\ g \in Seq(S) /\ g # <<>>
            /\ Len(g) = Len(f) + 1 /\ Len(f) \in Nat
            /\ DOMAIN f = 1..Len(f) /\ DOMAIN g = 1..(Len(f) + 1)
            /\ \A i \in 1..Len(f) : g[i] = f[i] /\ f[i] \in S
            /\ g[Len(f) + 1] = p
            /\ Last(g) = p
            /\ f # <<>> => Len(f) # 0 /\ Last(f) = f[Len(f)]
            /\ f = <<>> => Len(f) = 0
BY DEF Last

\* The history of a row grows by the slot the row is at.
LEMMA Enqueues ==
  ASSUME NEW f \in Seq(Fired), NEW m, NEW r, NEW p \in Fired,
         FiredOK(f, m), RowOK(f, m, r), Live(r), p.slot = r.next_run
  PROVE  LET g == Append(f, p)
         IN /\ FiredOK(g, m)
            /\ \A i \in DOMAIN g : g[i].slot <= p.slot
            /\ Past(g, p.slot) = Past(f, p.slot)
            /\ sameDB => \A i \in DOMAIN f : f[i].slot < p.slot
<1> DEFINE g == Append(f, p)
           n == Len(f)
<1>1. /\ g \in Seq(Fired) /\ g # <<>>
      /\ n \in Nat /\ Len(g) = n + 1
      /\ DOMAIN f = 1..n /\ DOMAIN g = 1..(n + 1)
      /\ \A i \in 1..n : g[i] = f[i] /\ f[i] \in Fired
      /\ g[n + 1] = p
      /\ f # <<>> => n # 0 /\ Last(f) = f[n]
      /\ f = <<>> => n = 0
  BY Appends
<1> HIDE DEF g, n
<1>2. p.slot \in Nat /\ \A i \in 1..n : f[i].slot \in Nat
  BY <1>1 DEF Fired
<1>3. UpTo(f, p.slot)
  BY DEF RowOK
<1>4. Ascending(g)
  <2> SUFFICES ASSUME NEW i \in 1..(n + 1), NEW j \in 1..(n + 1), i < j
               PROVE  Earlier(g[i].slot, g[j].slot)
    BY <1>1 DEF Ascending
  <2>1. CASE j = n + 1
    <3>1. i \in 1..n
      BY <1>1, <2>1
    <3> QED BY <1>1, <1>3, <2>1, <3>1 DEF UpTo
  <2>2. CASE j # n + 1
    <3>1. i \in 1..n /\ j \in 1..n
      BY <1>1, <2>2
    <3> QED BY <1>1, <3>1 DEF FiredOK, Ascending
  <2> QED BY <2>1, <2>2
<1>5. ASSUME CATCH_UP /\ m.type \notin {"ONCE", "CRON"} PROVE Chained(g, m)
  <2>1. Chained(f, m) /\ ChainedTo(f, m, p.slot)
    BY <1>5 DEF FiredOK, RowOK
  <2>2. g[1].slot = m.next_run
    BY <1>1, <2>1 DEF Chained, ChainedTo
  <2>3. ASSUME NEW i \in 1..(Len(g) - 1) PROVE g[i + 1].slot \in Follow(m, g[i].slot)
    <3>1. CASE i = n
      BY <1>1, <2>1, <3>1 DEF ChainedTo
    <3>2. CASE i # n
      <4>1. i \in 1..(n - 1) /\ i \in 1..n /\ i + 1 \in 1..n
        BY <1>1, <3>2
      <4> QED BY <1>1, <2>1, <4>1 DEF Chained
    <3> QED BY <3>1, <3>2
  <2> QED BY <2>2, <2>3 DEF Chained
<1>6. ASSUME ~CATCH_UP PROVE Timely(g)
  <2>1. Timely(f) /\ TimelyTo(f, p.slot)
    BY <1>6 DEF FiredOK, RowOK
  <2> SUFFICES ASSUME NEW i \in 1..(Len(g) - 1) PROVE Later(g[i], g[i + 1].slot)
    BY DEF Timely
  <2>2. CASE i = n
    BY <1>1, <2>1, <2>2 DEF TimelyTo
  <2>3. CASE i # n
    <3>1. i \in 1..(n - 1) /\ i \in 1..n /\ i + 1 \in 1..n
      BY <1>1, <2>3
    <3> QED BY <1>1, <2>1, <3>1 DEF Timely
  <2> QED BY <2>2, <2>3
<1>7. \A i \in DOMAIN g : g[i].slot <= p.slot
  <2> SUFFICES ASSUME NEW i \in 1..(n + 1) PROVE g[i].slot <= p.slot
    BY <1>1
  <2>1. CASE i = n + 1
    BY <1>1, <1>2, <2>1
  <2>2. CASE i # n + 1
    <3>1. i \in 1..n
      BY <1>1, <2>2
    <3> QED BY <1>1, <1>3, <3>1 DEF UpTo, Earlier
  <2> QED BY <2>1, <2>2
<1>8. Past(g, p.slot) = Past(f, p.slot)
  <2>1. SlotsOf(g) = SlotsOf(f) \cup {p.slot}
    <3>1. ASSUME NEW u \in SlotsOf(g) PROVE u \in SlotsOf(f) \cup {p.slot}
      <4>1. PICK i \in 1..(n + 1) : u = g[i].slot
        BY <1>1 DEF SlotsOf
      <4>2. i = n + 1 \/ i \in 1..n
        BY <1>1
      <4> QED BY <1>1, <4>1, <4>2 DEF SlotsOf
    <3>2. ASSUME NEW u \in SlotsOf(f) PROVE u \in SlotsOf(g)
      <4>1. PICK i \in 1..n : u = f[i].slot
        BY <1>1 DEF SlotsOf
      <4>2. i \in 1..(n + 1) /\ g[i].slot = u
        BY <1>1, <4>1
      <4> QED BY <1>1, <4>2 DEF SlotsOf
    <3>3. p.slot \in SlotsOf(g)
      <4>1. n + 1 \in DOMAIN g
        BY <1>1
      <4> QED BY <1>1, <4>1 DEF SlotsOf
    <3> QED BY <3>1, <3>2, <3>3
  <2>2. ~(p.slot < p.slot)
    BY <1>2
  <2> QED BY <2>1, <2>2 DEF Past
<1>9. sameDB => \A i \in DOMAIN f : f[i].slot < p.slot
  BY <1>3 DEF UpTo, Earlier
<1>10. FiredOK(g, m)
  BY <1>4, <1>5, <1>6 DEF FiredOK
<1> QED BY <1>7, <1>8, <1>9, <1>10 DEF g

\* What is to come depends only on what a row keeps.
LEMMA KeptCalculates ==
  ASSUME NEW r, NEW m \in ScheduleRow, Kept(r, m), NEW t, NEW n
  PROVE  /\ r.type = m.type
         /\ calculate_next_run(r, t, n) = calculate_next_run(m, t, n)
<1>1. r.type = m.type /\ r.cron = m.cron /\ r.minutes = m.minutes
  BY DEF Kept, ScheduleRow
<1>2. add(r, t) = add(m, t)
  BY <1>1 DEF add, MinutesOf
<1> QED BY <1>1, <1>2 DEF calculate_next_run

\* What a history of packages is made of.
LEMMA FiredSlots ==
  ASSUME NEW g \in Seq(Fired)
  PROVE  /\ DOMAIN g = 1..Len(g) /\ Len(g) \in Nat
         /\ \A i \in DOMAIN g : g[i] \in Fired /\ g[i].slot \in Nat /\ g[i].at \in Nat
         /\ g # <<>> => Len(g) # 0 /\ Last(g) = g[Len(g)] /\ Last(g) \in Fired
<1>1. DOMAIN g = 1..Len(g) /\ Len(g) \in Nat /\ \A i \in DOMAIN g : g[i] \in Fired
  OBVIOUS
<1>2. g # <<>> => Len(g) # 0
  OBVIOUS
<1>3. \A x \in Fired : x.slot \in Nat /\ x.at \in Nat
  BY DEF Fired
<1> QED BY <1>1, <1>2, <1>3 DEF Last

\* A slot that has fired is counted when the row goes on to a later one.
LEMMA PastGrows ==
  ASSUME NEW g \in Seq(Fired), NEW t \in Nat, NEW u \in Nat, t < u, t \in SlotsOf(g),
         \A i \in DOMAIN g : g[i].slot <= t
  PROVE  /\ IsFiniteSet(Past(g, t)) /\ Cardinality(Past(g, t)) \in Nat
         /\ Cardinality(Past(g, u)) = Cardinality(Past(g, t)) + 1
<1>1. \A v \in SlotsOf(g) : v \in Nat /\ v <= t
  BY FiredSlots DEF SlotsOf
<1>2. Past(g, u) = Past(g, t) \cup {t} /\ t \notin Past(g, t)
  <2>1. ASSUME NEW v \in SlotsOf(g) PROVE v < u <=> v < t \/ v = t
    BY <1>1, <2>1
  <2>2. ~(t < t)
    OBVIOUS
  <2> QED BY <2>1, <2>2 DEF Past
<1>3. IsFiniteSet(Past(g, t))
  <2>1. Past(g, t) \in SUBSET (0..t)
    <3>1. ASSUME NEW v \in Past(g, t) PROVE v \in 0..t
      <4>1. v \in SlotsOf(g) /\ v < t
        BY DEF Past
      <4>2. v \in Nat
        BY <1>1, <4>1
      <4> QED BY <4>1, <4>2
    <3> QED BY <3>1
  <2>2. IsFiniteSet(0..t)
    BY FS_Interval
  <2> QED BY <2>1, <2>2, FS_Subset
<1> QED BY <1>2, <1>3, FS_AddElement, FS_CardinalityType

\* A row that goes on after the slot it is at has fired.
LEMMA GoesOn ==
  ASSUME NEW g \in Seq(Fired), g # <<>>, NEW m, NEW r \in ScheduleRow, NEW q,
         CATCH_UP \in BOOLEAN,
         r.repeats # 0,
         m \in ScheduleRow,
         Last(g).slot = r.next_run, \A i \in DOMAIN g : g[i].slot <= r.next_run,
         m.type # "ONCE" => CountedTo(g, m, r),
         Kept(r, m), Advanced(q, r, Last(g))
  PROVE  RowOK(g, m, q)
<1>1. /\ q \in ScheduleRow /\ Kept(q, r)
      /\ r.type = m.type /\ q.type = r.type
      /\ r.next_run \in Nat /\ q.next_run \in Nat /\ r.repeats \in Int /\ q.repeats \in Int
  BY KeptCalculates DEF Advanced, ScheduleRow
<1>2. Len(g) \in Nat \ {0} /\ Last(g) = g[Len(g)] /\ DOMAIN g = 1..Len(g)
      /\ \A i \in DOMAIN g : g[i] \in Fired /\ g[i].slot \in Nat
  BY FiredSlots
<1>3. Live(q) => UpTo(g, q.next_run)
  BY <1>1, <1>2 DEF Live, UpTo, Earlier, Advanced
<1>4. CATCH_UP /\ m.type \notin {"ONCE", "CRON"} => ChainedTo(g, m, q.next_run)
  BY <1>1, KeptCalculates DEF ChainedTo, Follow, Advanced
<1>5. ~CATCH_UP => TimelyTo(g, q.next_run)
  BY <1>1 DEF TimelyTo, Later, Advanced
<1>6. ASSUME m.type # "ONCE" PROVE CountedTo(g, m, q)
  <2>1. q.repeats = Counted(r.repeats) /\ q.next_run > r.next_run
    BY <1>1, <1>6 DEF Advanced
  <2>2. r.next_run \in SlotsOf(g)
    BY <1>2 DEF SlotsOf
  <2>3. /\ Cardinality(Past(g, r.next_run)) \in Nat
        /\ Cardinality(Past(g, q.next_run)) = Cardinality(Past(g, r.next_run)) + 1
    BY <1>1, <2>1, <2>2, PastGrows
  <2>4. CountedTo(g, m, r) /\ m.repeats \in Int
    BY <1>6 DEF ScheduleRow
  <2>5. CASE m.repeats < 0
    BY <1>1, <2>1, <2>4, <2>5 DEF CountedTo, Counted
  <2>6. CASE m.repeats >= 0
    BY <1>1, <2>1, <2>3, <2>4, <2>6 DEF CountedTo, Counted
  <2> QED BY <2>4, <2>5, <2>6
<1> QED BY <1>3, <1>4, <1>5, <1>6 DEF RowOK

-----------------------------------------------------------------------------
(* What a step does not touch. *)

\* A schedule's history stays in order while its row and its packages stay as they are.
LEMMA HistoryKept ==
  ASSUME NEW s \in Schedules, HistoryOK(s), fired \in [Schedules -> Seq(Fired)],
         CATCH_UP' = CATCH_UP, sameDB' = sameDB,
         now \in Int, now' \in Int, now <= now',
         fired'[s] = fired[s],
         s \in DOMAIN made <=> s \in DOMAIN made', made'[s] = made[s],
         s \in DOMAIN rows' => s \in DOMAIN rows /\ rows'[s] = rows[s]
  PROVE  HistoryOK(s)'
<1>1. DOMAIN fired[s] = 1..Len(fired[s]) /\ \A i \in DOMAIN fired[s] : fired[s][i].at \in Nat
  BY FiredSlots
<1>2. FiredOK(fired[s], made[s])' <=> FiredOK(fired[s], made[s])
  BY DEF FiredOK, Ascending, Earlier, Chained, Follow, Timely, Later
<1>3. s \in DOMAIN rows' =>
        (RowOK(fired[s], made[s], rows[s])' <=> RowOK(fired[s], made[s], rows[s]))
  BY DEF RowOK, Live, UpTo, Earlier, ChainedTo, Follow, TimelyTo, Later, CountedTo, Past, SlotsOf
<1> QED BY <1>1, <1>2, <1>3 DEF HistoryOK

\* A transaction stays in order while its rows and their packages stay as they are.
LEMMA TxKept ==
  ASSUME NEW c \in Sentinels, LocksOK(c), HandledOK(c),
         CATCH_UP' = CATCH_UP, sameDB' = sameDB,
         now \in Nat, now' \in Nat, now <= now',
         tx'[c] = tx[c],
         \A s \in Locked(c) : s \in DOMAIN rows' /\ rows'[s] = rows[s] /\ fired'[s] = fired[s],
         \A s \in DOMAIN rows : rows[s] \in ScheduleRow
  PROVE  LocksOK(c)' /\ HandledOK(c)'
<1>1. Locked(c)' = Locked(c)
  BY DEF Locked
<1>2. LocksOK(c)'
  <2>1. \A s \in Locked(c) : rows[s].next_run \in Nat
    BY DEF LocksOK, ScheduleRow
  <2> QED BY <1>1, <2>1 DEF LocksOK, Locked
<1>3. HandledOK(c)'
  <2>1. \A s \in DOMAIN tx[c].saved \cup tx[c].deleted :
          Enqueued(c, s)' = Enqueued(c, s) /\ rows'[s] = rows[s] /\ fired'[s] = fired[s]
    BY DEF Enqueued, Locked
  <2>2. \A s \in DOMAIN tx[c].saved \cup tx[c].deleted : Enqueued(c, s).at \in Nat
    BY DEF HandledOK, Fired
  <2>3. \A s \in DOMAIN tx[c].todo \cup DOMAIN tx[c].out : fired'[s] = fired[s]
    BY DEF LocksOK, Locked
  <2>4. \A s \in DOMAIN tx[c].saved : Advanced(tx[c].saved[s], rows[s], Enqueued(c, s))'
    <3> SUFFICES ASSUME NEW s \in DOMAIN tx[c].saved
                 PROVE  Advanced(tx[c].saved[s], rows[s], Enqueued(c, s))'
      OBVIOUS
    <3>1. Advanced(tx[c].saved[s], rows[s], Enqueued(c, s))
      BY DEF HandledOK
    <3>2. Enqueued(c, s)' = Enqueued(c, s) /\ rows'[s] = rows[s]
      BY <2>1
    <3> QED BY <3>1, <3>2 DEF Advanced
  <2>5. \A s \in tx[c].deleted : rows'[s].type = "ONCE"
    BY <2>1 DEF HandledOK
  <2>6. \A s \in DOMAIN tx[c].saved \cup tx[c].deleted :
          Enqueued(c, s).slot < Enqueued(c, s).at /\ Enqueued(c, s).at <= now'
    BY <2>2 DEF HandledOK
  <2> QED BY <2>1, <2>3, <2>4, <2>5, <2>6 DEF HandledOK
<1> QED BY <1>2, <1>3

-----------------------------------------------------------------------------
(* The steps. *)

\* What the invariant says of the rows.
LEMMA StateTypes ==
  ASSUME SInv
  PROVE  /\ now \in Nat /\ fired \in [Schedules -> Seq(Fired)]
         /\ \A s \in DOMAIN rows : /\ s \in Schedules /\ s \in DOMAIN made
                                   /\ rows[s] \in ScheduleRow /\ made[s] \in ScheduleRow
                                   /\ Regular(rows[s]) /\ Kept(rows[s], made[s])
                                   /\ rows[s].next_run \in Nat /\ rows[s].repeats \in Int
<1>1. now \in Nat /\ fired \in [Schedules -> Seq(Fired)]
  BY DEF SInv, StateOK
<1>2. ASSUME NEW s \in DOMAIN rows
      PROVE  /\ s \in Schedules /\ s \in DOMAIN made
             /\ rows[s] \in ScheduleRow /\ made[s] \in ScheduleRow
             /\ Regular(rows[s]) /\ Kept(rows[s], made[s])
             /\ rows[s].next_run \in Nat /\ rows[s].repeats \in Int
  <2>1. /\ s \in Schedules /\ s \in DOMAIN made
        /\ rows[s] \in ScheduleRow /\ Regular(made[s]) /\ Kept(rows[s], made[s])
    BY DEF SInv, RowsOK
  <2>2. made[s] \in ScheduleRow /\ (made[s].type = "CRON" => made[s].cron \notin ChangeHour)
    BY <2>1 DEF Regular
  <2>3. rows[s].type = made[s].type /\ rows[s].cron = made[s].cron
    BY <2>1, <2>2 DEF Kept, ScheduleRow
  <2> QED BY <2>1, <2>2, <2>3 DEF Regular, ScheduleRow
<1> QED BY <1>1, <1>2

\* A transaction that has not begun holds nothing.
LEMMA IdleIsEmpty ==
  /\ DOMAIN Idle.todo = {} /\ DOMAIN Idle.saved = {}
  /\ Idle.deleted = {} /\ DOMAIN Idle.out = {}
BY DEF Idle

\* The invariant holds in the initial states.
LEMMA SInvInit ==
  ASSUME Init
  PROVE  SInv
<1>1. StateOK
  <2>1. now = 0 /\ faults \in 0..MaxFaults
    BY BoundsAssumption DEF Init
  <2>2. fired \in [Schedules -> Seq(Fired)]
    BY DEF Init
  <2>3. tx = [c \in Sentinels |-> [todo |-> tx[c].todo, saved |-> tx[c].saved,
                                   deleted |-> tx[c].deleted, out |-> tx[c].out]]
    BY DEF Init, Idle
  <2>4. CATCH_UP \in BOOLEAN /\ sameDB \in BOOLEAN
    BY DEF Init
  <2> QED BY <2>1, <2>2, <2>3, <2>4 DEF StateOK
<1>2. RowsOK
  BY DEF Init, RowsOK
<1>3. ASSUME NEW c \in Sentinels
      PROVE  Locked(c) = {} /\ LocksOK(c) /\ HandledOK(c)
  <2>1. tx[c] = Idle
    BY DEF Init
  <2>2. Locked(c) = {}
    BY <2>1, IdleIsEmpty DEF Locked
  <2>3. LocksOK(c)
    BY <2>1, <2>2, IdleIsEmpty DEF LocksOK
  <2>4. HandledOK(c)
    BY <2>1, IdleIsEmpty DEF HandledOK
  <2> QED BY <2>2, <2>3, <2>4
<1>4. Exclusive
  BY <1>3 DEF Exclusive
<1>5. ASSUME NEW s \in Schedules PROVE HistoryOK(s)
  BY BoundsAssumption DEF Init, HistoryOK
<1> QED BY <1>1, <1>2, <1>3, <1>4, <1>5 DEF SInv

\* .. and in each step: the clock moves.
LEMMA WaitKeeps ==
  ASSUME SInv, Wait
  PROVE  SInv'
<1>1. /\ now \in Nat /\ now' \in Nat /\ now <= now' /\ now' < Horizon
      /\ UNCHANGED <<CATCH_UP, sameDB, rows, tx, made, fired, faults>>
  <2>1. now \in Nat /\ now' \in 0..(Horizon - 1)
        /\ UNCHANGED <<CATCH_UP, sameDB, rows, tx, made, fired, faults>>
    BY StateTypes DEF Wait
  <2>2. \E v : now < v /\ now' = v
    BY DEF Wait
  <2> QED BY <2>1, <2>2, HorizonType
<1>2. StateOK' /\ RowsOK'
  BY <1>1 DEF SInv, StateOK, RowsOK
<1>3. Exclusive'
  BY <1>1 DEF SInv, Exclusive, Locked
<1>4. ASSUME NEW c \in Sentinels PROVE LocksOK(c)' /\ HandledOK(c)'
  <2>1. LocksOK(c) /\ HandledOK(c) /\ Locked(c) \subseteq DOMAIN rows
    BY DEF SInv, LocksOK
  <2>2. \A s \in DOMAIN rows : rows[s] \in ScheduleRow
    BY StateTypes
  <2> QED BY <1>1, <2>1, <2>2, TxKept
<1>5. ASSUME NEW s \in Schedules PROVE HistoryOK(s)'
  <2>1. HistoryOK(s) /\ fired \in [Schedules -> Seq(Fired)]
    BY DEF SInv, StateOK
  <2> QED BY <1>1, <2>1, HistoryKept
<1> QED BY <1>2, <1>3, <1>4, <1>5 DEF SInv

\* The pass fails.
LEMMA RollbackKeeps ==
  ASSUME SInv, NEW c \in Sentinels, Rollback(c)
  PROVE  SInv'
<1>1. /\ UNCHANGED <<CATCH_UP, sameDB, now, made, fired>>
      /\ rows' = rows /\ tx' = [tx EXCEPT ![c] = Idle]
      /\ faults' \in 0..MaxFaults
  BY BoundsAssumption DEF Rollback, Restored, SInv, StateOK
<1>2. /\ tx'[c] = Idle /\ \A d \in Sentinels : d # c => tx'[d] = tx[d]
      /\ tx' = [d \in Sentinels |-> [todo |-> tx'[d].todo, saved |-> tx'[d].saved,
                                     deleted |-> tx'[d].deleted, out |-> tx'[d].out]]
  BY <1>1 DEF SInv, StateOK, Idle
<1>3. StateOK' /\ RowsOK'
  BY <1>1, <1>2 DEF SInv, StateOK, RowsOK
<1>4. Locked(c)' = {} /\ \A d \in Sentinels : d # c => Locked(d)' = Locked(d)
  BY <1>2, IdleIsEmpty DEF Locked
<1>5. Exclusive'
  BY <1>4 DEF SInv, Exclusive
<1>6. ASSUME NEW d \in Sentinels PROVE LocksOK(d)' /\ HandledOK(d)'
  <2>1. CASE d = c
    <3>1. LocksOK(c)'
      BY <1>2, <1>4, IdleIsEmpty DEF LocksOK
    <3>2. HandledOK(c)'
      BY <1>2, IdleIsEmpty DEF HandledOK
    <3> QED BY <2>1, <3>1, <3>2
  <2>2. CASE d # c
    <3>1. LocksOK(d) /\ HandledOK(d) /\ Locked(d) \subseteq DOMAIN rows
      BY DEF SInv, LocksOK
    <3>2. now \in Nat /\ \A s \in DOMAIN rows : rows[s] \in ScheduleRow
      BY StateTypes
    <3>3. \A s \in Locked(d) : s \in DOMAIN rows' /\ rows'[s] = rows[s] /\ fired'[s] = fired[s]
      BY <1>1, <3>1
    <3>4. tx'[d] = tx[d] /\ now' = now /\ CATCH_UP' = CATCH_UP /\ sameDB' = sameDB
      BY <1>1, <1>2, <2>2
    <3> QED BY <3>1, <3>2, <3>3, <3>4, TxKept
  <2> QED BY <2>1, <2>2
<1>7. ASSUME NEW s \in Schedules PROVE HistoryOK(s)'
  <2>1. HistoryOK(s) /\ fired \in [Schedules -> Seq(Fired)] /\ now \in Nat
    BY DEF SInv, StateOK
  <2> QED BY <1>1, <2>1, HistoryKept
<1> QED BY <1>3, <1>5, <1>6, <1>7 DEF SInv

\* A pass reads and locks what is due.
LEMMA BeginKeeps ==
  ASSUME SInv, NEW c \in Sentinels, Begin(c)
  PROVE  SInv'
<1>1. /\ UNCHANGED <<CATCH_UP, sameDB, now, rows, made, fired, faults>>
      /\ tx[c] = Idle /\ tx' = [tx EXCEPT ![c].todo = [s \in Due(c) |-> rows[s]]]
      /\ Unlocked(Due(c)) /\ \A s \in Due(c) : Len(fired[s]) < MaxFires
  BY DEF Begin
<1>2. /\ tx'[c].todo = [s \in Due(c) |-> rows[s]]
      /\ DOMAIN tx'[c].saved = {} /\ tx'[c].deleted = {} /\ DOMAIN tx'[c].out = {}
      /\ \A d \in Sentinels : d # c => tx'[d] = tx[d]
      /\ tx' = [d \in Sentinels |-> [todo |-> tx'[d].todo, saved |-> tx'[d].saved,
                                     deleted |-> tx'[d].deleted, out |-> tx'[d].out]]
  <2> DEFINE S == [s \in Due(c) |-> rows[s]]
  <2> HIDE DEF S
  <2>1. tx = [d \in Sentinels |-> [todo |-> tx[d].todo, saved |-> tx[d].saved,
                                   deleted |-> tx[d].deleted, out |-> tx[d].out]]
    BY DEF SInv, StateOK
  <2>2. tx' = [tx EXCEPT ![c].todo = S]
    BY <1>1 DEF S
  <2>3. /\ tx'[c].todo = S /\ tx'[c].saved = tx[c].saved
        /\ tx'[c].deleted = tx[c].deleted /\ tx'[c].out = tx[c].out
        /\ \A d \in Sentinels : d # c => tx'[d] = tx[d]
    BY <2>1, <2>2
  <2>4. tx' = [d \in Sentinels |-> [todo |-> tx'[d].todo, saved |-> tx'[d].saved,
                                    deleted |-> tx'[d].deleted, out |-> tx'[d].out]]
    BY <2>1, <2>2
  <2> QED BY <1>1, <2>3, <2>4, IdleIsEmpty DEF S
<1>3. StateOK' /\ RowsOK'
  BY <1>1, <1>2 DEF SInv, StateOK, RowsOK
<1>4. Locked(c)' = Due(c) /\ \A d \in Sentinels : d # c => Locked(d)' = Locked(d)
  BY <1>2 DEF Locked
<1>5. Exclusive'
  BY <1>1, <1>4 DEF SInv, Exclusive, Unlocked
<1>6. ASSUME NEW d \in Sentinels PROVE LocksOK(d)' /\ HandledOK(d)'
  <2>1. CASE d = c
    <3>1. \A s \in Due(c) : s \in DOMAIN rows /\ rows[s].repeats # 0 /\ rows[s].next_run < now
      BY DEF Due
    <3>2. LocksOK(c)'
      <4>1. DOMAIN tx'[c].todo = Due(c) /\ \A s \in Due(c) : tx'[c].todo[s] = rows'[s]
        BY <1>1, <1>2
      <4> QED BY <1>1, <1>2, <1>4, <3>1, <4>1 DEF LocksOK
    <3>3. HandledOK(c)'
      BY <1>1, <1>2 DEF HandledOK
    <3> QED BY <2>1, <3>2, <3>3
  <2>2. CASE d # c
    <3>1. LocksOK(d) /\ HandledOK(d) /\ Locked(d) \subseteq DOMAIN rows
      BY DEF SInv, LocksOK
    <3>2. now \in Nat /\ \A s \in DOMAIN rows : rows[s] \in ScheduleRow
      BY StateTypes
    <3>3. \A s \in Locked(d) : s \in DOMAIN rows' /\ rows'[s] = rows[s] /\ fired'[s] = fired[s]
      BY <1>1, <3>1
    <3>4. tx'[d] = tx[d] /\ now' = now /\ CATCH_UP' = CATCH_UP /\ sameDB' = sameDB
      BY <1>1, <1>2, <2>2
    <3> QED BY <3>1, <3>2, <3>3, <3>4, TxKept
  <2> QED BY <2>1, <2>2
<1>7. ASSUME NEW s \in Schedules PROVE HistoryOK(s)'
  <2>1. HistoryOK(s) /\ fired \in [Schedules -> Seq(Fired)] /\ now \in Nat
    BY DEF SInv, StateOK
  <2> QED BY <1>1, <2>1, HistoryKept
<1> QED BY <1>3, <1>5, <1>6, <1>7 DEF SInv

\* A row is made.
LEMMA ScheduleKeeps ==
  ASSUME SInv, NEW s \in Schedules, schedule(s)
  PROVE  SInv'
<1>1. /\ s \notin DOMAIN made /\ now = 0
      /\ UNCHANGED <<CATCH_UP, sameDB, now, tx, fired, faults>>
  BY DEF schedule
<1>2. PICK r \in Templates[s] : rows' = With(rows, s, save(r)) /\ made' = With(made, s, save(r))
  BY DEF schedule
<1> DEFINE m == save(r)
<1>3. Regular(m)
  <2>1. r \in ScheduleRow /\ (r.type = "CRON" => r.cron \notin ChangeHour)
    BY TemplatesAssumption
  <2>2. CASE r.type = "CRON"
    <3>1. m = [r EXCEPT !.next_run = croniter(r.cron, 0)]
      BY <1>1, <2>2 DEF save, calculate_next_run
    <3>2. croniter(r.cron, 0) \in Nat
      <4>1. r.cron \in 0..(DAY - 1)
        BY <2>1 DEF ScheduleRow
      <4>2. croniter(r.cron, 0) \in Int /\ croniter(r.cron, 0) > 0
        BY <2>1, <2>2, <4>1, CroniterLater
      <4> QED BY <4>2
    <3> QED BY <2>1, <2>2, <3>1, <3>2 DEF Regular, ScheduleRow
  <2>3. CASE r.type # "CRON"
    BY <2>1, <2>3 DEF Regular, save
  <2> QED BY <2>2, <2>3
<1>4. /\ DOMAIN rows' = DOMAIN rows \cup {s} /\ DOMAIN made' = DOMAIN made \cup {s}
      /\ rows'[s] = m /\ made'[s] = m
      /\ \A x \in DOMAIN rows : x # s => rows'[x] = rows[x]
      /\ \A x \in DOMAIN made : x # s => made'[x] = made[x]
  BY <1>2 DEF With
<1> HIDE DEF m
<1>5. s \notin DOMAIN rows
  BY <1>1 DEF SInv, RowsOK
<1>6. StateOK'
  BY <1>1 DEF SInv, StateOK
<1>7. RowsOK'
  <2>1. m \in ScheduleRow /\ Kept(m, m)
    BY <1>3 DEF Regular, Kept, ScheduleRow
  <2>2. DOMAIN rows' \subseteq DOMAIN made' /\ DOMAIN made' \subseteq Schedules
    BY <1>4 DEF SInv, RowsOK
  <2>3. \A x \in DOMAIN made' : Regular(made'[x])
    BY <1>3, <1>4 DEF SInv, RowsOK
  <2>4. ASSUME NEW x \in DOMAIN rows' PROVE rows'[x] \in ScheduleRow /\ Kept(rows'[x], made'[x])
    <3>1. CASE x = s
      BY <1>4, <2>1, <3>1
    <3>2. CASE x # s
      <4>1. x \in DOMAIN rows /\ x \in DOMAIN made
        BY <1>4, <3>2 DEF SInv, RowsOK
      <4> QED BY <1>4, <3>2, <4>1 DEF SInv, RowsOK
    <3> QED BY <3>1, <3>2
  <2> QED BY <2>2, <2>3, <2>4 DEF RowsOK
<1>8. Exclusive'
  BY <1>1 DEF SInv, Exclusive, Locked
<1>9. ASSUME NEW c \in Sentinels PROVE LocksOK(c)' /\ HandledOK(c)'
  <2>1. LocksOK(c) /\ HandledOK(c) /\ Locked(c) \subseteq DOMAIN rows
    BY DEF SInv, LocksOK
  <2>2. now \in Nat /\ \A x \in DOMAIN rows : rows[x] \in ScheduleRow
    BY StateTypes
  <2>3. \A x \in Locked(c) : x \in DOMAIN rows' /\ rows'[x] = rows[x] /\ fired'[x] = fired[x]
    BY <1>1, <1>4, <1>5, <2>1
  <2> QED BY <1>1, <2>1, <2>2, <2>3, TxKept
<1>10. ASSUME NEW x \in Schedules PROVE HistoryOK(x)'
  <2>1. HistoryOK(x) /\ fired \in [Schedules -> Seq(Fired)] /\ now \in Nat
    BY DEF SInv, StateOK
  <2>2. CASE x = s
    <3>1. fired'[s] = <<>>
      BY <1>1, <2>1, <2>2 DEF HistoryOK
    <3>2. FiredOK(fired[s], made[s])'
      BY <3>1 DEF FiredOK, Ascending, Chained, Timely
    <3>3. CountedTo(fired'[s], m, m)
      <4>1. Past(fired'[s], m.next_run) = {}
        BY <3>1 DEF Past, SlotsOf
      <4>2. Cardinality(Past(fired'[s], m.next_run)) = 0 /\ m.repeats \in Int
        BY <1>3, <4>1, FS_EmptySet DEF Regular, ScheduleRow
      <4> QED BY <4>2 DEF CountedTo
    <3>4. RowOK(fired[s], made[s], rows[s])'
      BY <1>4, <3>1, <3>3 DEF RowOK, UpTo, ChainedTo, TimelyTo
    <3> QED BY <1>4, <2>2, <3>1, <3>2, <3>4, BoundsAssumption DEF HistoryOK
  <2>3. CASE x # s
    <3>1. x \in DOMAIN made \/ x \notin DOMAIN made
      OBVIOUS
    <3>2. x \in DOMAIN made => HistoryOK(x)'
      BY <1>1, <1>4, <2>1, <2>3, HistoryKept
    <3>3. x \notin DOMAIN made => HistoryOK(x)'
      <4> SUFFICES ASSUME x \notin DOMAIN made PROVE HistoryOK(x)'
        OBVIOUS
      <4>1. fired'[x] = <<>> /\ x \notin DOMAIN rows' /\ x \notin DOMAIN made'
        BY <1>1, <1>4, <2>1, <2>3 DEF HistoryOK, SInv, RowsOK
      <4> QED BY <4>1, BoundsAssumption DEF HistoryOK
    <3> QED BY <3>2, <3>3
  <2> QED BY <2>2, <2>3
<1> QED BY <1>6, <1>7, <1>8, <1>9, <1>10 DEF SInv

\* What a package for row r is.
LEMMA PackageFired ==
  ASSUME NEW c \in Sentinels, NEW r \in ScheduleRow, now \in Nat
  PROVE  /\ Package(c, r) \in Fired
         /\ Package(c, r).slot = r.next_run /\ Package(c, r).at = now
<1>1. Target(c, r) \in {NameOf[d] : d \in Sentinels}
  BY DEF Target, ScheduleRow
<1>2. r.next_run \in Nat
  BY DEF ScheduleRow
<1> QED BY <1>1, <1>2 DEF Package, Fired

\* The row r as it is saved after it was handled.
SavedAs(q, r, n, k) == q = [r EXCEPT !.next_run = n, !.repeats = k]

\* A row that is saved is a row, made as before.
LEMMA RowGoesOn ==
  ASSUME NEW r \in ScheduleRow, NEW n \in Nat, NEW k \in Int,
         NEW q, SavedAs(q, r, n, k)
  PROVE  q \in ScheduleRow /\ Kept(q, r) /\ q.next_run = n /\ q.repeats = k
<1>1. q.next_run = n /\ q.repeats = k
  BY DEF ScheduleRow, SavedAs
<1>2. q \in ScheduleRow
  BY DEF ScheduleRow, SavedAs
<1> QED BY <1>1, <1>2 DEF Kept, SavedAs

\* Handled goes on to a later slot, as the invariant has it.
LEMMA HandledAdvances ==
  ASSUME NEW c \in Sentinels, NEW r, Regular(r), r.repeats # 0, r.next_run < now, now \in Nat,
         now < Horizon, CATCH_UP \in BOOLEAN, ~(r.type = "ONCE" /\ r.repeats < 0)
  PROVE  Advanced(Handled(r), r, Package(c, r))
<1>1. /\ r \in ScheduleRow /\ now \in 0..(Horizon - 1)
      /\ Package(c, r).at = now
      /\ r.next_run \in Nat /\ r.repeats \in Int
  BY HorizonType, PackageFired DEF Regular, ScheduleRow
<1>2. CASE r.type = "ONCE"
  <2>1. Handled(r) = [r EXCEPT !.repeats = 0]
    BY <1>2 DEF Handled
  <2>2. SavedAs(Handled(r), r, r.next_run, 0)
    BY <1>1, <2>1 DEF ScheduleRow, SavedAs
  <2>3. /\ Handled(r) \in ScheduleRow /\ Kept(Handled(r), r)
        /\ Handled(r).next_run = r.next_run /\ Handled(r).repeats = 0
    BY <1>1, <2>2, RowGoesOn
  <2> QED BY <1>2, <2>3 DEF Advanced
<1>3. CASE r.type # "ONCE"
  <2>1. /\ NextSlot(r) \in Nat /\ NextSlot(r) > r.next_run
        /\ CATCH_UP => NextSlot(r) = calculate_next_run(r, r.next_run, now)
        /\ ~CATCH_UP => NextSlot(r) > now
    BY <1>1, <1>3, NextSlotLater
  <2>2. Counted(r.repeats) \in Int
    BY <1>1 DEF Counted
  <2>3. SavedAs(Handled(r), r, NextSlot(r), Counted(r.repeats))
    BY <1>3 DEF Handled, SavedAs
  <2>4. /\ Handled(r) \in ScheduleRow /\ Kept(Handled(r), r)
        /\ Handled(r).next_run = NextSlot(r) /\ Handled(r).repeats = Counted(r.repeats)
    BY <1>1, <2>1, <2>2, <2>3, RowGoesOn
  <2>5. r.type # "CRON" =>
          calculate_next_run(r, r.next_run, now) = calculate_next_run(r, r.next_run, 0)
    BY CalculatedFromSlot
  <2> QED BY <1>1, <1>3, <2>1, <2>4, <2>5 DEF Advanced
<1> QED BY <1>2, <1>3

\* What a turn does to the transaction and to what is enqueued.
LEMMA TurnDoes ==
  ASSUME SInv, NEW c \in Sentinels, NEW s \in Schedules, Turn(c, s)
  PROVE  LET r == rows[s]
             p == Package(c, r)
             once == r.type = "ONCE" /\ r.repeats < 0
         IN /\ UNCHANGED <<CATCH_UP, sameDB, now, rows, made, faults>>
            /\ s \in DOMAIN tx[c].todo /\ s \in DOMAIN rows
            /\ \A d \in Sentinels : d # c => tx'[d] = tx[d]
            /\ tx' = [d \in Sentinels |-> [todo |-> tx'[d].todo, saved |-> tx'[d].saved,
                                           deleted |-> tx'[d].deleted, out |-> tx'[d].out]]
            /\ tx'[c].todo = [x \in DOMAIN tx[c].todo \ {s} |-> tx[c].todo[x]]
            /\ once => tx'[c].saved = tx[c].saved /\ tx'[c].deleted = tx[c].deleted \cup {s}
            /\ ~once => /\ tx'[c].saved = With(tx[c].saved, s, Handled(r))
                        /\ tx'[c].deleted = tx[c].deleted
            /\ sameDB => tx'[c].out = With(tx[c].out, s, p) /\ fired' = fired
            /\ ~sameDB => /\ tx'[c].out = tx[c].out
                          /\ fired' = [x \in Schedules |-> IF x = s THEN Append(fired[s], p)
                                                           ELSE fired[x]]
<1> DEFINE r == rows[s]
           p == Package(c, r)
           todo == [x \in DOMAIN tx[c].todo \ {s} |-> tx[c].todo[x]]
           out == IF sameDB THEN With(tx[c].out, s, p) ELSE tx[c].out
           deleted == IF r.type = "ONCE" /\ r.repeats < 0 THEN tx[c].deleted \cup {s} ELSE tx[c].deleted
           saved == IF r.type = "ONCE" /\ r.repeats < 0 THEN tx[c].saved
                    ELSE With(tx[c].saved, s, Handled(r))
<1>1. s \in DOMAIN tx[c].todo /\ tx[c].todo[s] = rows[s] /\ s \in DOMAIN rows
  BY DEF Turn, First, SInv, LocksOK, Locked
<1>2. /\ UNCHANGED <<CATCH_UP, sameDB, now, rows, made, faults>>
      /\ fired' = IF sameDB THEN fired ELSE Fires(fired, With(<<>>, s, p))
      /\ tx' = [tx EXCEPT ![c].todo = [x \in DOMAIN @ \ {s} |-> @[x]],
                          ![c].out = IF sameDB THEN With(@, s, p) ELSE @,
                          ![c].deleted = IF r.type = "ONCE" /\ r.repeats < 0 THEN @ \cup {s} ELSE @,
                          ![c].saved = IF r.type = "ONCE" /\ r.repeats < 0 THEN @
                                       ELSE With(@, s, Handled(r))]
  BY <1>1 DEF Turn
<1>3. tx = [d \in Sentinels |-> [todo |-> tx[d].todo, saved |-> tx[d].saved,
                                 deleted |-> tx[d].deleted, out |-> tx[d].out]]
  BY DEF SInv, StateOK
<1>4. tx' = [tx EXCEPT ![c].todo = todo, ![c].out = out, ![c].deleted = deleted, ![c].saved = saved]
  BY <1>2, <1>3
<1>5. /\ tx'[c].todo = todo /\ tx'[c].out = out /\ tx'[c].deleted = deleted /\ tx'[c].saved = saved
      /\ \A d \in Sentinels : d # c => tx'[d] = tx[d]
      /\ tx' = [d \in Sentinels |-> [todo |-> tx'[d].todo, saved |-> tx'[d].saved,
                                     deleted |-> tx'[d].deleted, out |-> tx'[d].out]]
  <2> HIDE DEF todo, out, deleted, saved
  <2>1. tx[c] = [todo |-> tx[c].todo, saved |-> tx[c].saved,
                 deleted |-> tx[c].deleted, out |-> tx[c].out]
    BY <1>3
  <2>2. tx' = [tx EXCEPT ![c] = [tx[c] EXCEPT !.todo = todo, !.out = out, !.deleted = deleted,
                                              !.saved = saved]]
    BY <1>3, <1>4
  <2>3. [tx[c] EXCEPT !.todo = todo, !.out = out, !.deleted = deleted, !.saved = saved]
          = [todo |-> todo, saved |-> saved, deleted |-> deleted, out |-> out]
    <3> DEFINE x == tx[c]
               y == [x EXCEPT !.todo = todo, !.out = out, !.deleted = deleted, !.saved = saved]
    <3>1. DOMAIN x = {"todo", "saved", "deleted", "out"}
      <4>1. DOMAIN [todo |-> x.todo, saved |-> x.saved, deleted |-> x.deleted, out |-> x.out]
              = {"todo", "saved", "deleted", "out"}
        OBVIOUS
      <4> HIDE DEF x
      <4> QED BY <2>1, <4>1 DEF x
    <3>2. /\ y = [i \in DOMAIN x |-> y[i]]
          /\ y.todo = todo /\ y.saved = saved /\ y.deleted = deleted /\ y.out = out
      <4> HIDE DEF x
      <4> QED BY <3>1
    <3> HIDE DEF y
    <3>3. y = [todo |-> todo, saved |-> saved, deleted |-> deleted, out |-> out]
      <4> HIDE DEF x
      <4> QED BY <3>1, <3>2
    <3> QED BY <3>3 DEF y
  <2>4. tx' = [d \in Sentinels |->
                 IF d = c THEN [todo |-> todo, saved |-> saved, deleted |-> deleted, out |-> out]
                 ELSE [todo |-> tx[d].todo, saved |-> tx[d].saved,
                       deleted |-> tx[d].deleted, out |-> tx[d].out]]
    BY <1>3, <2>2, <2>3
  <2> QED BY <1>3, <2>4
<1>6. ~sameDB => fired' = [x \in Schedules |-> IF x = s THEN Append(fired[s], p) ELSE fired[x]]
  <2>1. DOMAIN With(<<>>, s, p) = {s} /\ With(<<>>, s, p)[s] = p
    BY DEF With
  <2> HIDE DEF p
  <2> QED BY <1>2, <2>1 DEF Fires
<1> QED BY <1>1, <1>2, <1>5, <1>6

\* A turn of the loop.
LEMMA TurnKeeps ==
  ASSUME SInv, NEW c \in Sentinels, NEW s \in Schedules, Turn(c, s)
  PROVE  SInv'
<1> DEFINE r == rows[s]
           p == Package(c, r)
           once == r.type = "ONCE" /\ r.repeats < 0
           t == tx[c]
           u == tx'[c]
<1>1. /\ UNCHANGED <<CATCH_UP, sameDB, now, rows, made, faults>>
      /\ s \in DOMAIN t.todo /\ s \in DOMAIN rows
      /\ \A d \in Sentinels : d # c => tx'[d] = tx[d]
      /\ tx' = [d \in Sentinels |-> [todo |-> tx'[d].todo, saved |-> tx'[d].saved,
                                     deleted |-> tx'[d].deleted, out |-> tx'[d].out]]
      /\ u.todo = [x \in DOMAIN t.todo \ {s} |-> t.todo[x]]
      /\ once => u.saved = t.saved /\ u.deleted = t.deleted \cup {s}
      /\ ~once => u.saved = With(t.saved, s, Handled(r)) /\ u.deleted = t.deleted
      /\ sameDB => u.out = With(t.out, s, p) /\ fired' = fired
      /\ ~sameDB => /\ u.out = t.out
                    /\ fired' = [x \in Schedules |-> IF x = s THEN Append(fired[s], p)
                                                     ELSE fired[x]]
  BY TurnDoes
<1> HIDE DEF u
<1>2. /\ now \in Nat /\ fired \in [Schedules -> Seq(Fired)]
      /\ r \in ScheduleRow /\ Regular(r) /\ r.next_run \in Nat /\ r.repeats \in Int
      /\ CATCH_UP \in BOOLEAN /\ (now = 0 \/ now < Horizon)
  BY <1>1, StateTypes DEF SInv, StateOK
<1>3. LocksOK(c) /\ HandledOK(c) /\ s \in Locked(c)
  BY <1>1 DEF SInv, Locked
<1>4. r.repeats # 0 /\ r.next_run < now /\ Len(fired[s]) < MaxFires
  BY <1>1, <1>3 DEF LocksOK, HandledOK
<1>5. p \in Fired /\ p.slot = r.next_run /\ p.at = now
  BY <1>2, PackageFired
<1>6. /\ DOMAIN u.todo = DOMAIN t.todo \ {s} /\ \A x \in DOMAIN u.todo : u.todo[x] = t.todo[x]
      /\ once => DOMAIN u.saved = DOMAIN t.saved /\ u.deleted = t.deleted \cup {s}
      /\ ~once => DOMAIN u.saved = DOMAIN t.saved \cup {s} /\ u.deleted = t.deleted
      /\ ~once => u.saved[s] = Handled(r)
      /\ \A x \in DOMAIN t.saved : x # s => u.saved[x] = t.saved[x]
      /\ sameDB => DOMAIN u.out = DOMAIN t.out \cup {s} /\ u.out[s] = p
      /\ sameDB => \A x \in DOMAIN t.out : x # s => u.out[x] = t.out[x]
      /\ ~sameDB => u.out = t.out
  BY <1>1 DEF With
<1>7. /\ s \notin DOMAIN t.saved /\ s \notin t.deleted
      /\ DOMAIN t.out = IF sameDB THEN DOMAIN t.saved \cup t.deleted ELSE {}
  BY <1>1, <1>3 DEF LocksOK
<1>8. /\ \A x \in Schedules : x # s => fired'[x] = fired[x]
      /\ sameDB => fired' = fired
      /\ ~sameDB => fired'[s] = Append(fired[s], p)
      /\ fired' \in [Schedules -> Seq(Fired)]
  <2>1. Append(fired[s], p) \in Seq(Fired)
    BY <1>2, <1>5
  <2> QED BY <1>1, <1>2, <2>1
<1> HIDE DEF p
<1>9. Locked(c)' = Locked(c) /\ \A d \in Sentinels : d # c => Locked(d)' = Locked(d)
  <2>1. Locked(c)' = DOMAIN u.todo \cup DOMAIN u.saved \cup u.deleted
    BY DEF Locked, u
  <2>2. Locked(c) = DOMAIN t.todo \cup DOMAIN t.saved \cup t.deleted
    BY DEF Locked
  <2>3. Locked(c)' = Locked(c)
    <3> HIDE DEF t, once
    <3>1. CASE once
      BY <1>1, <1>6, <2>1, <2>2, <3>1
    <3>2. CASE ~once
      BY <1>1, <1>6, <2>1, <2>2, <3>2
    <3> QED BY <3>1, <3>2
  <2> QED BY <1>1, <2>3 DEF Locked
<1>10. StateOK' /\ RowsOK'
  BY <1>1, <1>8 DEF SInv, StateOK, RowsOK
<1>11. Exclusive'
  BY <1>9 DEF SInv, Exclusive
<1>12. LocksOK(c)'
  <2>1. DOMAIN u.todo \cap DOMAIN u.saved = {} /\ DOMAIN u.todo \cap u.deleted = {}
        /\ DOMAIN u.saved \cap u.deleted = {}
    <3>1. DOMAIN t.todo \cap DOMAIN t.saved = {} /\ DOMAIN t.todo \cap t.deleted = {}
          /\ DOMAIN t.saved \cap t.deleted = {}
      BY <1>3 DEF LocksOK
    <3> HIDE DEF t, once
    <3> QED BY <1>1, <1>6, <1>7, <3>1
  <2>2. DOMAIN u.out = IF sameDB THEN DOMAIN u.saved \cup u.deleted ELSE {}
    <3> HIDE DEF t, once
    <3> QED BY <1>1, <1>6, <1>7
  <2>3. \A x \in DOMAIN u.todo : u.todo[x] = rows'[x]
    BY <1>1, <1>3, <1>6 DEF LocksOK
  <2>4. Locked(c)' \subseteq DOMAIN rows'
        /\ \A x \in Locked(c)' : rows'[x].repeats # 0 /\ rows'[x].next_run < now'
    BY <1>1, <1>3, <1>9 DEF LocksOK
  <2> QED BY <1>1, <2>1, <2>2, <2>3, <2>4 DEF LocksOK, u
<1>13. HandledOK(c)'
  <2>1. Enqueued(c, s)' = p /\ (fired'[s] = <<>> => sameDB')
    <3>1. CASE sameDB
      BY <1>1, <1>6, <3>1 DEF Enqueued, u
    <3>2. CASE ~sameDB
      <4>1. fired'[s] # <<>> /\ Last(fired'[s]) = p
        <5>1. fired[s] \in Seq(Fired) /\ fired'[s] = Append(fired[s], p)
          BY <1>2, <1>8, <3>2
        <5> QED BY <1>5, <5>1, Appends
      <4> QED BY <1>1, <3>2, <4>1 DEF Enqueued
    <3> QED BY <3>1, <3>2
  <2>2. ASSUME NEW x \in DOMAIN t.saved \cup t.deleted
        PROVE  x # s /\ Enqueued(c, x)' = Enqueued(c, x) /\ fired'[x] = fired[x]
    <3>1. x # s /\ x \in Schedules
      BY <1>3, <1>7, StateTypes DEF LocksOK, Locked
    <3>2. CASE sameDB
      BY <1>1, <1>6, <1>7, <1>8, <3>1, <3>2 DEF Enqueued, u
    <3>3. CASE ~sameDB
      BY <1>1, <1>8, <3>1, <3>3 DEF Enqueued
    <3> QED BY <3>1, <3>2, <3>3
  <2>3. ASSUME NEW x \in DOMAIN u.saved \cup u.deleted
        PROVE  /\ fired'[x] = <<>> => sameDB'
               /\ Enqueued(c, x)' \in Fired
               /\ Enqueued(c, x)'.slot = rows'[x].next_run
               /\ Enqueued(c, x)'.slot < Enqueued(c, x)'.at /\ Enqueued(c, x)'.at <= now'
    <3>1. x = s \/ x \in DOMAIN t.saved \cup t.deleted
      BY <1>6
    <3>2. CASE x = s
      BY <1>1, <1>2, <1>4, <1>5, <2>1, <3>2
    <3>3. CASE x \in DOMAIN t.saved \cup t.deleted
      BY <1>1, <1>3, <2>2, <3>3 DEF HandledOK
    <3> QED BY <3>1, <3>2, <3>3
  <2>4. ASSUME NEW x \in DOMAIN u.saved
        PROVE  Advanced(tx[c].saved[x], rows[x], Enqueued(c, x))'
    <3>1. (x = s /\ ~once) \/ x \in DOMAIN t.saved
      BY <1>6
    <3>2. CASE x = s /\ ~once
      <4>1. Advanced(Handled(r), r, p)
        BY <1>2, <1>4, <3>2, HandledAdvances DEF p
      <4>2. u.saved[x] = Handled(r) /\ rows'[x] = r /\ Enqueued(c, x)' = p
        BY <1>1, <1>6, <2>1, <3>2
      <4>3. tx'[c].saved[x] = Handled(r)
        BY <4>2 DEF u
      <4> HIDE DEF r
      <4> QED BY <1>1, <4>1, <4>2, <4>3 DEF Advanced
    <3>3. CASE x \in DOMAIN t.saved
      <4>1. Advanced(t.saved[x], rows[x], Enqueued(c, x))
        BY <1>3, <3>3 DEF HandledOK
      <4>2. u.saved[x] = t.saved[x] /\ rows'[x] = rows[x] /\ Enqueued(c, x)' = Enqueued(c, x)
        BY <1>1, <1>6, <2>2, <3>3
      <4>3. tx'[c].saved[x] = tx[c].saved[x]
        BY <4>2 DEF u
      <4> QED BY <1>1, <4>1, <4>2, <4>3 DEF Advanced
    <3> QED BY <3>1, <3>2, <3>3
  <2>5. ASSUME NEW x \in u.deleted PROVE rows'[x].type = "ONCE"
    <3>1. (x = s /\ once) \/ x \in t.deleted
      BY <1>6
    <3> QED BY <1>1, <1>3, <3>1 DEF HandledOK
  <2>6. ASSUME NEW x \in DOMAIN u.todo \cup DOMAIN u.out PROVE Len(fired'[x]) < MaxFires
    <3>1. CASE x = s
      <4>1. sameDB
        BY <1>6, <1>7, <3>1
      <4> QED BY <1>4, <1>8, <3>1, <4>1
    <3>2. CASE x # s
      <4>1. x \in DOMAIN t.todo \cup DOMAIN t.out
        BY <1>6, <3>2
      <4>2. x \in Schedules
        BY <1>3, <1>7, <4>1, StateTypes DEF LocksOK, Locked
      <4> QED BY <1>3, <1>8, <3>2, <4>1, <4>2 DEF HandledOK
    <3> QED BY <3>1, <3>2
  <2> QED BY <2>3, <2>4, <2>5, <2>6 DEF HandledOK, u
<1>14. ASSUME NEW d \in Sentinels, d # c PROVE LocksOK(d)' /\ HandledOK(d)'
  <2>1. LocksOK(d) /\ HandledOK(d) /\ Locked(d) \subseteq DOMAIN rows /\ s \notin Locked(d)
    BY <1>3, <1>14 DEF SInv, LocksOK, Exclusive
  <2>2. \A x \in DOMAIN rows : rows[x] \in ScheduleRow /\ x \in Schedules
    BY StateTypes
  <2>3. \A x \in Locked(d) : x \in DOMAIN rows' /\ rows'[x] = rows[x] /\ fired'[x] = fired[x]
    BY <1>1, <1>8, <2>1, <2>2
  <2>4. tx'[d] = tx[d] /\ now' = now /\ CATCH_UP' = CATCH_UP /\ sameDB' = sameDB
    BY <1>1, <1>14
  <2> QED BY <1>2, <2>1, <2>2, <2>3, <2>4, TxKept
<1>15. ASSUME NEW x \in Schedules PROVE HistoryOK(x)'
  <2>1. HistoryOK(x)
    BY DEF SInv
  <2>2. CASE x # s \/ sameDB
    <3>1. fired'[x] = fired[x]
      BY <1>8, <2>2
    <3> QED BY <1>1, <1>2, <2>1, <3>1, HistoryKept
  <2>3. CASE x = s /\ ~sameDB
    <3> DEFINE f == fired[s]
               g == Append(f, p)
               m == made[s]
    <3>1. fired'[s] = g /\ f \in Seq(Fired) /\ s \in DOMAIN made
      BY <1>1, <1>2, <1>8, <2>3, StateTypes
    <3>2. FiredOK(f, m) /\ RowOK(f, m, r) /\ Live(r) /\ Len(f) <= MaxFires
          /\ \A i \in DOMAIN f : f[i].slot < f[i].at /\ f[i].at <= now
      BY <1>1, <1>4, <2>1, <2>3, <3>1 DEF HistoryOK, Live
    <3>3. /\ FiredOK(g, m) /\ \A i \in DOMAIN g : g[i].slot <= p.slot
          /\ Past(g, p.slot) = Past(f, p.slot)
      BY <1>5, <3>1, <3>2, Enqueues
    <3>4. /\ g \in Seq(Fired) /\ g # <<>>
          /\ Len(g) = Len(f) + 1 /\ Len(f) \in Nat
          /\ DOMAIN f = 1..Len(f) /\ DOMAIN g = 1..(Len(f) + 1)
          /\ \A i \in 1..Len(f) : g[i] = f[i]
          /\ g[Len(f) + 1] = p /\ Last(g) = p
      BY <1>5, <3>1, Appends
    <3> HIDE DEF g, f
    <3>5. RowOK(g, m, r)
      <4>1. UpTo(g, r.next_run)
        BY <1>5, <2>3, <3>3 DEF UpTo, Earlier
      <4>2. ChainedTo(g, m, r.next_run)
        BY <1>5, <3>4 DEF ChainedTo, Follow
      <4>3. TimelyTo(g, r.next_run)
        BY <1>5, <3>4 DEF TimelyTo, Later
      <4>4. m.type # "ONCE" => CountedTo(g, m, r)
        BY <1>5, <3>2, <3>3 DEF RowOK, CountedTo
      <4> QED BY <4>1, <4>2, <4>3, <4>4 DEF RowOK
    <3>6. \A i \in DOMAIN g : g[i].slot < g[i].at /\ g[i].at <= now
      <4> SUFFICES ASSUME NEW i \in 1..(Len(f) + 1) PROVE g[i].slot < g[i].at /\ g[i].at <= now
        BY <3>4
      <4>1. CASE i = Len(f) + 1
        BY <1>2, <1>4, <1>5, <3>4, <4>1
      <4>2. CASE i # Len(f) + 1
        <5>1. i \in 1..Len(f)
          BY <3>4, <4>2
        <5> QED BY <3>2, <3>4, <5>1
      <4> QED BY <4>1, <4>2
    <3>7. Len(g) <= MaxFires
      BY <1>4, <3>4, BoundsAssumption DEF f
    <3>8. FiredOK(fired[s], made[s])'
      BY <1>1, <3>1, <3>3 DEF FiredOK, Ascending, Earlier, Chained, Follow, Timely, Later
    <3>9. RowOK(fired[s], made[s], rows[s])'
      BY <1>1, <3>1, <3>5 DEF RowOK, Live, UpTo, Earlier, ChainedTo, Follow, TimelyTo, Later,
                              CountedTo, Past, SlotsOf
    <3> QED BY <1>1, <2>3, <3>1, <3>6, <3>7, <3>8, <3>9 DEF HistoryOK
  <2> QED BY <2>2, <2>3
<1> QED BY <1>10, <1>11, <1>12, <1>13, <1>14, <1>15 DEF SInv

\* What is kept twice is kept.
LEMMA KeptTogether ==
  ASSUME NEW m \in ScheduleRow, NEW r, Kept(r, m), NEW q \in ScheduleRow, Kept(q, r)
  PROVE  Kept(q, m)
<1>1. r = [m EXCEPT !.next_run = r.next_run, !.repeats = r.repeats]
  BY DEF Kept
<1>2. q = [r EXCEPT !.next_run = q.next_run, !.repeats = q.repeats]
  BY DEF Kept
<1>3. DOMAIN m = {"type", "minutes", "cron", "next_run", "repeats", "cluster", "option", "args_ok"}
  BY DEF ScheduleRow
<1>4. q = [m EXCEPT !.next_run = q.next_run, !.repeats = q.repeats]
  BY <1>1, <1>2, <1>3
<1> QED BY <1>4 DEF Kept

\* The pass ends: what it saved and enqueued becomes visible.
LEMMA CommitKeeps ==
  ASSUME SInv, NEW c \in Sentinels, Commit(c)
  PROVE  SInv'
<1> DEFINE t == tx[c]
<1>1. /\ UNCHANGED <<CATCH_UP, sameDB, now, made, faults>>
      /\ t.todo = <<>> /\ tx' = [tx EXCEPT ![c] = Idle]
      /\ rows' = [s \in (DOMAIN rows \ t.deleted) \cup DOMAIN t.saved |->
                    IF s \in DOMAIN t.saved THEN t.saved[s] ELSE rows[s]]
      /\ fired' = [s \in Schedules |-> IF s \in DOMAIN t.out THEN Append(fired[s], t.out[s])
                                       ELSE fired[s]]
  BY DEF Commit, Fires
<1>2. /\ now \in Nat /\ fired \in [Schedules -> Seq(Fired)] /\ CATCH_UP \in BOOLEAN
      /\ LocksOK(c) /\ HandledOK(c)
  BY DEF SInv, StateOK
<1>3. /\ tx'[c] = Idle /\ \A d \in Sentinels : d # c => tx'[d] = tx[d]
      /\ tx' = [d \in Sentinels |-> [todo |-> tx'[d].todo, saved |-> tx'[d].saved,
                                     deleted |-> tx'[d].deleted, out |-> tx'[d].out]]
  BY <1>1 DEF SInv, StateOK, Idle
<1>4. Locked(c)' = {} /\ \A d \in Sentinels : d # c => Locked(d)' = Locked(d)
  BY <1>3, IdleIsEmpty DEF Locked
<1>5. /\ DOMAIN t.saved \subseteq DOMAIN rows /\ t.deleted \subseteq DOMAIN rows
      /\ DOMAIN t.saved \cap t.deleted = {}
      /\ DOMAIN t.out = IF sameDB THEN DOMAIN t.saved \cup t.deleted ELSE {}
      /\ DOMAIN t.saved \subseteq Locked(c) /\ t.deleted \subseteq Locked(c)
  BY <1>2 DEF LocksOK, Locked
<1>6. \A s \in DOMAIN t.out : t.out[s] \in Fired
  BY <1>2, <1>5 DEF HandledOK, Enqueued
<1>7. fired' \in [Schedules -> Seq(Fired)]
  <2>1. ASSUME NEW s \in Schedules, s \in DOMAIN t.out PROVE Append(fired[s], t.out[s]) \in Seq(Fired)
    BY <1>2, <1>6, <2>1
  <2> HIDE DEF t
  <2> QED BY <1>1, <1>2, <2>1
<1>8. /\ DOMAIN rows' = DOMAIN rows \ t.deleted
      /\ \A s \in DOMAIN t.saved : rows'[s] = t.saved[s]
      /\ \A s \in DOMAIN rows' : s \notin DOMAIN t.saved => rows'[s] = rows[s]
  <2> HIDE DEF t
  <2> QED BY <1>1, <1>5
<1>9. ASSUME NEW s \in DOMAIN t.saved
      PROVE  Advanced(t.saved[s], rows[s], Enqueued(c, s)) /\ t.saved[s] \in ScheduleRow
  BY <1>2 DEF HandledOK, Advanced
<1>10. StateOK'
  BY <1>1, <1>3, <1>7 DEF SInv, StateOK
<1>11. RowsOK'
  <2>1. ASSUME NEW s \in DOMAIN rows'
        PROVE  rows'[s] \in ScheduleRow /\ Kept(rows'[s], made[s]) /\ s \in DOMAIN made
    <3>1. s \in DOMAIN rows
      BY <1>8
    <3>2. s \in DOMAIN made /\ rows[s] \in ScheduleRow /\ made[s] \in ScheduleRow /\ Kept(rows[s], made[s])
      BY <3>1, StateTypes
    <3>3. CASE s \in DOMAIN t.saved
      <4>1. Kept(t.saved[s], rows[s]) /\ t.saved[s] \in ScheduleRow /\ rows'[s] = t.saved[s]
        BY <1>8, <1>9, <3>3 DEF Advanced
      <4> HIDE DEF t
      <4> QED BY <3>2, <4>1, KeptTogether
    <3>4. CASE s \notin DOMAIN t.saved
      BY <1>8, <3>2, <3>4
    <3> QED BY <3>3, <3>4
  <2>2. DOMAIN made \subseteq Schedules /\ \A s \in DOMAIN made : Regular(made[s])
    BY DEF SInv, RowsOK
  <2> QED BY <1>1, <2>1, <2>2 DEF RowsOK
<1>12. Exclusive'
  BY <1>4 DEF SInv, Exclusive
<1>13. ASSUME NEW d \in Sentinels PROVE LocksOK(d)' /\ HandledOK(d)'
  <2>1. CASE d = c
    <3>1. LocksOK(c)'
      BY <1>3, <1>4, IdleIsEmpty DEF LocksOK
    <3>2. HandledOK(c)'
      BY <1>3, IdleIsEmpty DEF HandledOK
    <3> QED BY <2>1, <3>1, <3>2
  <2>2. CASE d # c
    <3>1. LocksOK(d) /\ HandledOK(d) /\ Locked(d) \subseteq DOMAIN rows
          /\ Locked(c) \cap Locked(d) = {}
      BY <2>2 DEF SInv, LocksOK, Exclusive
    <3>2. \A x \in DOMAIN rows : rows[x] \in ScheduleRow /\ x \in Schedules
      BY StateTypes
    <3>3. ASSUME NEW x \in Locked(d)
          PROVE  x \in DOMAIN rows' /\ rows'[x] = rows[x] /\ fired'[x] = fired[x]
      <4>1. /\ x \in DOMAIN rows /\ x \in Schedules
            /\ x \notin DOMAIN t.saved /\ x \notin t.deleted /\ x \notin DOMAIN t.out
        BY <1>5, <3>1, <3>2
      <4> HIDE DEF t
      <4> QED BY <1>1, <1>8, <4>1
    <3>4. tx'[d] = tx[d] /\ now' = now /\ CATCH_UP' = CATCH_UP /\ sameDB' = sameDB
      BY <1>1, <1>3, <2>2
    <3> QED BY <1>2, <3>1, <3>2, <3>3, <3>4, TxKept
  <2> QED BY <2>1, <2>2
<1>14. ASSUME NEW s \in Schedules PROVE HistoryOK(s)'
  <2>1. HistoryOK(s)
    BY DEF SInv
  <2>2. CASE s \notin DOMAIN t.saved /\ s \notin t.deleted
    <3>1. s \notin DOMAIN t.out
      BY <1>5, <2>2
    <3>2. fired'[s] = fired[s]
      <4> HIDE DEF t
      <4> QED BY <1>1, <3>1
    <3>3. s \in DOMAIN rows' => s \in DOMAIN rows /\ rows'[s] = rows[s]
      <4> HIDE DEF t
      <4> QED BY <1>8, <2>2
    <3>4. now' = now /\ CATCH_UP' = CATCH_UP /\ sameDB' = sameDB /\ made' = made
      BY <1>1
    <3> HIDE DEF t
    <3> QED BY <1>2, <2>1, <3>2, <3>3, <3>4, HistoryKept
  <2>3. CASE s \in DOMAIN t.saved \/ s \in t.deleted
    <3> DEFINE r == rows[s]
               m == made[s]
               p == Enqueued(c, s)
               f == fired[s]
               g == fired'[s]
    <3>1. /\ s \in DOMAIN rows /\ s \in DOMAIN made
          /\ r \in ScheduleRow /\ m \in ScheduleRow /\ Kept(r, m)
          /\ r.next_run \in Nat /\ r.repeats \in Int
      BY <1>5, <2>3, StateTypes
    <3>2. /\ f \in Seq(Fired) /\ p \in Fired /\ p.slot = r.next_run
          /\ p.slot < p.at /\ p.at <= now /\ (f = <<>> => sameDB)
          /\ r.repeats # 0
      <4>1. s \in Locked(c)
        BY <1>5, <2>3
      <4> QED BY <1>2, <2>3, <4>1 DEF HandledOK, LocksOK
    <3>3. FiredOK(f, m) /\ RowOK(f, m, r) /\ Live(r) /\ Len(f) <= MaxFires
          /\ \A i \in DOMAIN f : f[i].slot < f[i].at /\ f[i].at <= now
      BY <2>1, <3>1, <3>2 DEF HistoryOK, Live
    <3>4. /\ g \in Seq(Fired) /\ g # <<>> /\ Last(g) = p
          /\ FiredOK(g, m) /\ \A i \in DOMAIN g : g[i].slot <= r.next_run
          /\ m.type # "ONCE" => CountedTo(g, m, r)
          /\ Len(g) <= MaxFires
          /\ \A i \in DOMAIN g : g[i].slot < g[i].at /\ g[i].at <= now
      <4>1. CASE sameDB
        <5>1. g = Append(f, p) /\ Len(f) < MaxFires
          <6>1. s \in DOMAIN t.out /\ p = t.out[s] /\ Len(fired[s]) < MaxFires
            BY <1>2, <1>5, <2>3, <4>1 DEF HandledOK, Enqueued
          <6> HIDE DEF t
          <6> QED BY <1>1, <6>1
        <5> HIDE DEF g, p, f, r, m
        <5>2. /\ FiredOK(Append(f, p), m) /\ \A i \in DOMAIN Append(f, p) : Append(f, p)[i].slot <= p.slot
              /\ Past(Append(f, p), p.slot) = Past(f, p.slot)
          BY <3>1, <3>2, <3>3, Enqueues
        <5>3. /\ Append(f, p) \in Seq(Fired) /\ Append(f, p) # <<>>
              /\ Len(Append(f, p)) = Len(f) + 1 /\ Len(f) \in Nat
              /\ DOMAIN f = 1..Len(f) /\ DOMAIN Append(f, p) = 1..(Len(f) + 1)
              /\ \A i \in 1..Len(f) : Append(f, p)[i] = f[i]
              /\ Append(f, p)[Len(f) + 1] = p /\ Last(Append(f, p)) = p
          BY <3>2, Appends
        <5>4. \A i \in DOMAIN g : g[i].slot < g[i].at /\ g[i].at <= now
          <6> SUFFICES ASSUME NEW i \in 1..(Len(f) + 1) PROVE g[i].slot < g[i].at /\ g[i].at <= now
            BY <5>1, <5>3
          <6>1. CASE i = Len(f) + 1
            BY <3>2, <5>1, <5>3, <6>1
          <6>2. CASE i # Len(f) + 1
            <7>1. i \in 1..Len(f)
              BY <5>3, <6>2
            <7> QED BY <3>3, <5>1, <5>3, <7>1
          <6> QED BY <6>1, <6>2
        <5>5. m.type # "ONCE" => CountedTo(g, m, r)
          BY <3>2, <3>3, <5>1, <5>2 DEF RowOK, CountedTo
        <5>6. Len(g) <= MaxFires
          BY <5>1, <5>3, BoundsAssumption
        <5> QED BY <3>2, <5>1, <5>2, <5>3, <5>4, <5>5, <5>6
      <4>2. CASE ~sameDB
        <5>1. g = f /\ p = Last(f) /\ f # <<>>
          <6>1. s \notin DOMAIN t.out
            BY <1>5, <4>2
          <6>2. g = f
            <7> HIDE DEF t
            <7> QED BY <1>1, <6>1
          <6> QED BY <3>2, <4>2, <6>2 DEF Enqueued
        <5>2. \A i \in DOMAIN f : f[i].slot <= r.next_run
          BY <3>3, <4>2 DEF RowOK, UpTo, Earlier
        <5>3. m.type # "ONCE" => CountedTo(f, m, r)
          BY <3>3 DEF RowOK
        <5> HIDE DEF g, p, f, r, m
        <5> QED BY <3>2, <3>3, <5>1, <5>2, <5>3
      <4> QED BY <4>1, <4>2
    <3>5. ASSUME s \in DOMAIN rows' PROVE RowOK(g, m, rows'[s])
      <4>1. s \in DOMAIN t.saved
        BY <1>8, <2>3, <3>5
      <4>2. Advanced(t.saved[s], r, p) /\ rows'[s] = t.saved[s]
        BY <1>8, <1>9, <4>1
      <4> HIDE DEF g, p, r, m, t
      <4>3. RowOK(g, m, t.saved[s])
        BY <1>2, <3>1, <3>2, <3>4, <4>2, GoesOn
      <4> QED BY <4>2, <4>3
    <3>6. FiredOK(fired[s], made[s])'
      BY <1>1, <3>4 DEF FiredOK, Ascending, Earlier, Chained, Follow, Timely, Later
    <3>7. s \in DOMAIN rows' => RowOK(fired[s], made[s], rows[s])'
      BY <1>1, <3>5 DEF RowOK, Live, UpTo, Earlier, ChainedTo, Follow, TimelyTo, Later,
                        CountedTo, Past, SlotsOf
    <3> QED BY <1>1, <3>1, <3>4, <3>6, <3>7 DEF HistoryOK
  <2> QED BY <2>2, <2>3
<1> QED BY <1>10, <1>11, <1>12, <1>13, <1>14 DEF SInv

\* Nothing happens.
LEMMA StutterKeeps ==
  ASSUME SInv, UNCHANGED vars
  PROVE  SInv'
<1>1. UNCHANGED <<CATCH_UP, sameDB, now, rows, tx, made, fired, faults>>
  BY DEF vars
<1>2. StateOK' /\ RowsOK'
  BY <1>1 DEF SInv, StateOK, RowsOK
<1>3. Exclusive'
  BY <1>1 DEF SInv, Exclusive, Locked
<1>4. ASSUME NEW c \in Sentinels PROVE LocksOK(c)' /\ HandledOK(c)'
  <2>1. LocksOK(c) /\ HandledOK(c) /\ Locked(c) \subseteq DOMAIN rows
    BY DEF SInv, LocksOK
  <2>2. now \in Nat /\ \A s \in DOMAIN rows : rows[s] \in ScheduleRow
    BY StateTypes
  <2> QED BY <1>1, <2>1, <2>2, TxKept
<1>5. ASSUME NEW s \in Schedules PROVE HistoryOK(s)'
  <2>1. HistoryOK(s) /\ fired \in [Schedules -> Seq(Fired)] /\ now \in Nat
    BY DEF SInv, StateOK
  <2> QED BY <1>1, <2>1, HistoryKept
<1> QED BY <1>2, <1>3, <1>4, <1>5 DEF SInv

-----------------------------------------------------------------------------
(* The theorems. *)

\* The invariant of the scheduler: rows that a transaction holds are due, held by no other
\* transaction and stay as they were committed; and every history has its slots in order,
\* without gaps while it catches up, and as many before the next run as were counted.
THEOREM SchedulerInvariant == Spec => []SInv
<1>1. Init => SInv
  BY SInvInit
<1>2. SInv /\ [Next]_vars => SInv'
  <2> SUFFICES ASSUME SInv, [Next]_vars PROVE SInv'
    OBVIOUS
  <2>1. CASE Wait
    BY <2>1, WaitKeeps
  <2>2. ASSUME NEW s \in Schedules, schedule(s) PROVE SInv'
    BY <2>2, ScheduleKeeps
  <2>3. ASSUME NEW c \in Sentinels, Begin(c) PROVE SInv'
    BY <2>3, BeginKeeps
  <2>4. ASSUME NEW c \in Sentinels, Commit(c) PROVE SInv'
    BY <2>4, CommitKeeps
  <2>5. ASSUME NEW c \in Sentinels, Rollback(c) PROVE SInv'
    BY <2>5, RollbackKeeps
  <2>6. ASSUME NEW c \in Sentinels, NEW s \in Schedules, Turn(c, s) PROVE SInv'
    BY <2>6, TurnKeeps
  <2>7. CASE UNCHANGED vars
    BY <2>7, StutterKeeps
  <2> QED BY <2>1, <2>2, <2>3, <2>4, <2>5, <2>6, <2>7 DEF Next
<1> QED BY <1>1, <1>2, PTL DEF Spec

\* The state has its types: transactions hold committed rows, each once.
THEOREM SchedulerTypeOK == Spec => []TypeOK
<1>1. SInv => TypeOK
  <2> SUFFICES ASSUME SInv PROVE TypeOK
    OBVIOUS
  <2>1. /\ CATCH_UP \in BOOLEAN /\ sameDB \in BOOLEAN
        /\ now \in Nat /\ faults \in 0..MaxFaults
    BY DEF SInv, StateOK
  <2>2. /\ DOMAIN rows \subseteq DOMAIN made /\ DOMAIN made \subseteq Schedules
        /\ \A s \in DOMAIN rows : rows[s] \in ScheduleRow
    BY DEF SInv, RowsOK
  <2>3. \A c \in Sentinels : /\ Locked(c) \subseteq DOMAIN rows
                             /\ DOMAIN tx[c].todo \cap DOMAIN tx[c].saved = {}
    BY DEF SInv, LocksOK
  <2>4. \A s \in Schedules : Len(fired[s]) <= MaxFires
    BY DEF SInv, HistoryOK
  <2> QED BY <2>1, <2>2, <2>3, <2>4 DEF TypeOK
<1> QED BY <1>1, SchedulerInvariant, PTL

\* Where the slots ascend, there are as many as packages.
LEMMA SlotsCounted ==
  ASSUME NEW f \in Seq(Fired), \A i, j \in DOMAIN f : i < j => f[i].slot < f[j].slot
  PROVE  Cardinality(SlotsOf(f)) = Len(f)
<1> DEFINE n == Len(f)
           g == [i \in 1..n |-> f[i].slot]
<1>1. n \in Nat /\ DOMAIN f = 1..n /\ \A i \in 1..n : f[i].slot \in Nat
  BY FiredSlots
<1>2. g \in Bijection(1..n, SlotsOf(f))
  <2>1. \A i \in 1..n : g[i] \in SlotsOf(f)
    BY <1>1 DEF SlotsOf
  <2>2. \A i, j \in 1..n : g[i] = g[j] => i = j
    <3> SUFFICES ASSUME NEW i \in 1..n, NEW j \in 1..n, i # j PROVE g[i] # g[j]
      OBVIOUS
    <3>1. i < j \/ j < i
      BY <1>1
    <3>2. f[i].slot < f[j].slot \/ f[j].slot < f[i].slot
      BY <1>1, <3>1
    <3> QED BY <1>1, <3>2
  <2>3. \A u \in SlotsOf(f) : \E i \in 1..n : g[i] = u
    BY <1>1 DEF SlotsOf
  <2> QED BY <2>1, <2>2, <2>3 DEF Bijection, Injection, Surjection, IsInjective
<1>3. ExistsBijection(1..n, SlotsOf(f))
  BY <1>2 DEF ExistsBijection
<1> HIDE DEF g
<1> QED BY <1>1, <1>3, FS_CountingElements

\* The slots of a history are finitely many.
LEMMA SlotsFinite ==
  ASSUME NEW f \in Seq(Fired), NEW t \in Nat
  PROVE  /\ IsFiniteSet(SlotsOf(f)) /\ Cardinality(SlotsOf(f)) \in Nat
         /\ \A u \in SlotsOf(f) : u \in Nat
<1> DEFINE n == Len(f)
<1>1. n \in Nat /\ DOMAIN f = 1..n /\ \A i \in 1..n : f[i].slot \in Nat
  BY FiredSlots
<1>2. IsFiniteSet(1..n)
  BY <1>1, FS_Interval
<1>3. SlotsOf(f) = {f[i].slot : i \in 1..n}
  BY <1>1 DEF SlotsOf
<1>4. IsFiniteSet({f[i].slot : i \in 1..n})
  <2> DEFINE g == [i \in 1..n |-> f[i].slot]
             T == {f[i].slot : i \in 1..n}
  <2>1. g \in Surjection(1..n, T)
    BY DEF Surjection
  <2> HIDE DEF g, T, n
  <2>2. IsFiniteSet(T)
    BY <1>2, <2>1, FS_Surjection
  <2> QED BY <2>2 DEF T
<1>5. IsFiniteSet(SlotsOf(f))
  BY <1>3, <1>4
<1>6. \A u \in SlotsOf(f) : u \in Nat
  BY <1>1 DEF SlotsOf
<1> QED BY <1>5, <1>6, FS_CardinalityType

\* With the packages in the transaction, no slot fires twice, whatever sentinels make
\* passes and fail in them: the row lock outlives the commit that advances the row.
THEOREM EachSlotOnce == Spec => []SlotsOnce
<1>1. SInv => SlotsOnce
  <2> SUFFICES ASSUME SInv, sameDB, NEW s \in Schedules PROVE Cardinality(Slots(s)) = Len(fired[s])
    BY DEF SlotsOnce
  <2>1. fired[s] \in Seq(Fired) /\ Slots(s) = SlotsOf(fired[s])
    BY DEF SInv, StateOK, Slots, SlotsOf
  <2>2. \A i, j \in DOMAIN fired[s] : i < j => fired[s][i].slot < fired[s][j].slot
    BY DEF SInv, HistoryOK, FiredOK, Ascending, Earlier
  <2> QED BY <2>1, <2>2, SlotsCounted
<1> QED BY <1>1, SchedulerInvariant, PTL

\* Catching up, slots fire in their order and none is left out.
THEOREM CatchUpSkipsNone == Spec => []NoSlotSkipped
<1>1. SInv => NoSlotSkipped
  <2> SUFFICES ASSUME SInv, CATCH_UP, NEW s \in DOMAIN made,
                      made[s].type \notin {"ONCE", "CRON"}
               PROVE  LET r == made[s]
                          from(t) == {t, calculate_next_run(r, t, now)}
                          f == fired[s]
                      IN /\ f # <<>> => f[1].slot = r.next_run
                         /\ \A i \in 1..(Len(f) - 1) : f[i + 1].slot \in from(f[i].slot)
                         /\ s \in DOMAIN rows =>
                              rows[s].next_run \in IF f = <<>> THEN {r.next_run} ELSE from(Last(f).slot)
    BY DEF NoSlotSkipped
  <2>1. HistoryOK(s) /\ s \in Schedules
    BY DEF SInv, RowsOK
  <2>2. Chained(fired[s], made[s])
    BY <2>1 DEF HistoryOK, FiredOK
  <2>3. s \in DOMAIN rows => ChainedTo(fired[s], made[s], rows[s].next_run)
    BY <2>1 DEF HistoryOK, RowOK
  <2>4. \A t : calculate_next_run(made[s], t, now) = calculate_next_run(made[s], t, 0)
    BY CalculatedFromSlot
  <2> QED BY <2>2, <2>3, <2>4 DEF Chained, ChainedTo, Follow
<1> QED BY <1>1, SchedulerInvariant, PTL

\* Not catching up, what fires next lies after the moment of the last firing.
THEOREM MissedAreDropped == Spec => []NoBacklog
<1>1. SInv => NoBacklog
  <2> SUFFICES ASSUME SInv, ~CATCH_UP, NEW s \in Schedules, NEW i \in 1..(Len(fired[s]) - 1),
                      fired[s][i + 1].slot # fired[s][i].slot
               PROVE  fired[s][i + 1].slot > fired[s][i].at
    BY DEF NoBacklog
  <2>1. HistoryOK(s)
    BY DEF SInv
  <2>2. s \in DOMAIN made
    <3>1. fired[s] # <<>>
      OBVIOUS
    <3> QED BY <2>1, <3>1 DEF HistoryOK
  <2> QED BY <2>1, <2>2 DEF HistoryOK, FiredOK, Timely, Later
<1> QED BY <1>1, SchedulerInvariant, PTL

\* n repeats are n slots, but for one that a failed pass has enqueued elsewhere.
THEOREM RepeatsAreSlots == Spec => []RepeatsExact
<1>1. SInv => RepeatsExact
  <2> SUFFICES ASSUME SInv, NEW s \in DOMAIN rows, made[s].type # "ONCE"
               PROVE  LET used == made[s].repeats - rows[s].repeats
                          d == Cardinality(Slots(s))
                      IN IF made[s].repeats < 0 THEN rows[s].repeats \in {made[s].repeats, -1}
                         ELSE used <= d /\ d <= used + 1 /\ (sameDB => d = used)
    BY DEF RepeatsExact
  <2> DEFINE f == fired[s]
             t == rows[s].next_run
             used == made[s].repeats - rows[s].repeats
             d == Cardinality(SlotsOf(f))
  <2>1. /\ s \in Schedules /\ t \in Nat /\ rows[s].repeats \in Int
        /\ rows[s].type = made[s].type /\ made[s].repeats \in Int /\ f \in Seq(Fired)
    <3>1. made[s] \in ScheduleRow /\ Kept(rows[s], made[s])
      BY StateTypes
    <3>2. rows[s].type = made[s].type /\ made[s].repeats \in Int
      BY <3>1 DEF Kept, ScheduleRow
    <3> QED BY <3>2, StateTypes
  <2>2. RowOK(f, made[s], rows[s]) /\ Live(rows[s])
    BY <2>1, StateTypes DEF SInv, HistoryOK, Live
  <2>3. CountedTo(f, made[s], rows[s]) /\ UpTo(f, t)
    BY <2>2 DEF RowOK
  <2>4. Slots(s) = SlotsOf(f)
    BY DEF Slots, SlotsOf
  <2>5. CASE made[s].repeats < 0
    BY <2>3, <2>5 DEF CountedTo
  <2>6. CASE made[s].repeats >= 0
    <3>1. used = Cardinality(Past(f, t))
      BY <2>1, <2>3, <2>6 DEF CountedTo
    <3> HIDE DEF used, f, t
    <3>2. /\ IsFiniteSet(SlotsOf(f)) /\ d \in Nat
          /\ \A u \in SlotsOf(f) : u \in Nat
      BY <2>1, SlotsFinite
    <3>3. Past(f, t) \subseteq SlotsOf(f)
      BY DEF Past
    <3>4. IsFiniteSet(Past(f, t)) /\ used \in Nat /\ used <= d
      BY <3>1, <3>2, <3>3, FS_Subset, FS_CardinalityType
    <3>5. \A u \in SlotsOf(f) : u < t \/ u = t
      <4>1. \A i \in DOMAIN f : f[i].slot <= t
        BY <2>3 DEF UpTo, Earlier
      <4>2. ASSUME NEW u \in SlotsOf(f) PROVE u <= t
        BY <4>1 DEF SlotsOf
      <4>3. t \in Nat
        BY <2>1 DEF t
      <4> QED BY <3>2, <4>2, <4>3
    <3>6. SlotsOf(f) = Past(f, t) \/ SlotsOf(f) = Past(f, t) \cup {t}
      BY <3>5 DEF Past
    <3>7. Cardinality(Past(f, t) \cup {t}) = used \/ Cardinality(Past(f, t) \cup {t}) = used + 1
      <4>1. t \in Past(f, t) => Past(f, t) \cup {t} = Past(f, t)
        OBVIOUS
      <4> QED BY <3>1, <3>4, <4>1, FS_AddElement
    <3>8. d <= used + 1
      BY <3>1, <3>4, <3>6, <3>7
    <3>9. sameDB => d = used
      <4> SUFFICES ASSUME sameDB PROVE d = used
        OBVIOUS
      <4>1. \A i \in DOMAIN f : f[i].slot < t
        BY <2>3 DEF UpTo, Earlier
      <4>2. SlotsOf(f) = Past(f, t)
        BY <4>1 DEF SlotsOf, Past
      <4> QED BY <3>1, <4>2
    <3>10. ~(made[s].repeats < 0)
      BY <2>1, <2>6
    <3> QED BY <2>4, <3>4, <3>8, <3>9, <3>10 DEF used
  <2> QED BY <2>1, <2>5, <2>6
<1> QED BY <1>1, SchedulerInvariant, PTL

\* A step that was caught up leads from a slot inside the calendar to itself or the
\* next one.
LEMMA StepInCalendar ==
  ASSUME SInv, NEW s \in DOMAIN made, NEW p \in Steps(s), made[s].type \notin {"ONCE", "CRON"}
  PROVE  /\ p[1] \in 0..(Horizon - 1) /\ p[2] \in 0..(Horizon - 1)
         /\ p[2] = p[1] \/ p[2] = calculate_next_run(made[s], p[1], 0)
<1> DEFINE f == fired[s]
<1>1. CATCH_UP /\ \E i \in 1..(Len(f) - 1) : p = <<f[i].slot, f[i + 1].slot>>
  BY DEF Steps
<1>2. PICK i \in 1..(Len(f) - 1) : p = <<f[i].slot, f[i + 1].slot>>
  BY <1>1
<1>3. HistoryOK(s) /\ f \in Seq(Fired) /\ now \in Nat /\ (now = 0 \/ now < Horizon)
  BY DEF SInv, StateOK, RowsOK
<1>4. Len(f) \in Nat /\ DOMAIN f = 1..Len(f)
  BY <1>3, FiredSlots
<1>5. i \in DOMAIN f /\ i + 1 \in DOMAIN f
  BY <1>4
<1>6. ASSUME NEW j \in DOMAIN f PROVE f[j].slot \in 0..(Horizon - 1)
  <2>1. f[j].slot \in Nat /\ f[j].at \in Nat /\ f[j].slot < f[j].at /\ f[j].at <= now
    BY <1>3, FiredSlots DEF HistoryOK
  <2> HIDE DEF f
  <2> QED BY <1>3, <2>1, HorizonType
<1>7. f[i + 1].slot \in Follow(made[s], f[i].slot)
  BY <1>1, <1>2, <1>3 DEF HistoryOK, FiredOK, Chained
<1> HIDE DEF f
<1> QED BY <1>2, <1>5, <1>6, <1>7 DEF Follow

\* Schedules of days to quarters keep their time of day on the local clock, in every
\* calendar, zone and daylight saving, outside the hour that changes.
THEOREM ClockIsKept == Spec => []WallClockKept
<1>1. SInv => WallClockKept
  <2> SUFFICES ASSUME SInv, NEW s \in DOMAIN made, made[s].type \in Spans, NEW p \in Steps(s),
                      localtime(p[1]) % DAY \notin ChangeHour
               PROVE  localtime(p[1]) % DAY = localtime(p[2]) % DAY
    BY DEF WallClockKept, Spans
  <2>1. /\ p[1] \in 0..(Horizon - 1)
        /\ p[2] = p[1] \/ p[2] = calculate_next_run(made[s], p[1], 0)
    BY StepInCalendar DEF Spans
  <2>2. localtime(calculate_next_run(made[s], p[1], 0)) % DAY = localtime(p[1]) % DAY
    BY <2>1, StepKeepsClock
  <2> QED BY <2>1, <2>2
<1> QED BY <1>1, SchedulerInvariant, PTL

\* Monthly to yearly schedules run on the day of the last run, or a shorter month's last.
THEOREM DayIsKept == Spec => []OnItsDay
<1>1. SInv => OnItsDay
  <2> DEFINE span == [MONTHLY |-> 1, BIMONTHLY |-> 2, QUARTERLY |-> 3]
  <2> SUFFICES ASSUME SInv, NEW s \in DOMAIN made, NEW p \in Steps(s), p[1] # p[2]
               PROVE  LET d == date(p[1])
                          e == date(IF made[s].type = "YEARLY" THEN p[2] ELSE localtime(p[2]))
                      IN /\ made[s].type = "YEARLY" => e.month = d.month + 12 /\ SameDay(d, e)
                         /\ (/\ made[s].type \in DOMAIN span
                             /\ localtime(p[1]) \div DAY = p[1] \div DAY
                             /\ localtime(p[1]) % DAY \notin ChangeHour)
                              => e.month = d.month + span[made[s].type] /\ SameDay(d, e)
    BY DEF OnItsDay
  <2> DEFINE r == made[s]
             v == calculate_next_run(r, p[1], 0)
  <2>1. ASSUME r.type \notin {"ONCE", "CRON"}
        PROVE  p[1] \in 0..(Horizon - 1) /\ p[2] \in 0..(Horizon - 1) /\ p[2] = v
    BY <2>1, StepInCalendar
  <2>2. ASSUME r.type = "YEARLY"
        PROVE  date(p[2]).month = date(p[1]).month + 12 /\ SameDay(date(p[1]), date(p[2]))
    BY <2>1, <2>2, YearlyKeepsDay
  <2>3. ASSUME r.type \in DOMAIN span, localtime(p[1]) \div DAY = p[1] \div DAY,
               localtime(p[1]) % DAY \notin ChangeHour
        PROVE  /\ r.type # "YEARLY"
               /\ date(localtime(p[2])).month = date(p[1]).month + span[r.type]
               /\ SameDay(date(p[1]), date(localtime(p[2])))
    <3>1. r.type \in {"MONTHLY", "BIMONTHLY", "QUARTERLY"}
      BY <2>3
    <3>2. span[r.type] \in 1..3 /\ add(r, p[1]) = add_months(p[1], span[r.type]) - p[1]
      <4>1. CASE r.type = "MONTHLY"
        BY <4>1 DEF add
      <4>2. CASE r.type = "BIMONTHLY"
        BY <4>2 DEF add
      <4>3. CASE r.type = "QUARTERLY"
        BY <4>3 DEF add
      <4> QED BY <3>1, <4>1, <4>2, <4>3
    <3>3. r.type \in Spans /\ r.type # "YEARLY" /\ r.type \notin {"ONCE", "CRON"}
      BY <3>1 DEF Spans
    <3>4. p[1] \in 0..(Horizon - 1) /\ p[2] \in 0..(Horizon - 1) /\ p[2] = v
      BY <2>1, <3>3
    <3> HIDE DEF span, r
    <3> QED BY <2>3, <3>2, <3>3, <3>4, MonthlyKeepsDay
  <2> QED BY <2>2, <2>3
<1> QED BY <1>1, SchedulerInvariant, PTL

=============================================================================
