-------------------------- MODULE ArchiveTimeProofs --------------------------
(***************************************************************************)
(* What the names of archive files say of time, for any lengths of second, *)
(* day and fragment; used by the proofs about the file writer and about    *)
(* the retention.                                                          *)
(*                                                                         *)
(* Names are compared by folder, then by second of the day.  The lemmas go *)
(* through one number instead, the second of the epoch at which a file     *)
(* starts.                                                                 *)
(***************************************************************************)
EXTENDS ArchiveTime, TLAPS

\* The second of the epoch at which the file of a timestamp starts.
StartSecond(ts) == GetFolderName(ts) * SecondsPerDay + GetFileName(ts)

-----------------------------------------------------------------------------
LEMMA Division ==
    ASSUME NEW a \in Nat, NEW b \in Nat \ {0}
    PROVE  /\ a \div b \in Nat
           /\ a % b \in 0..(b - 1)
           /\ a = b * (a \div b) + (a % b)
OBVIOUS

LEMMA DivisionIsUnique ==
    ASSUME NEW a \in Nat, NEW b \in Nat \ {0}, NEW q \in Nat, NEW r \in 0..(b - 1),
           a = b * q + r
    PROVE  a \div b = q /\ a % b = r
OBVIOUS

LEMMA DivisionIsMonotone ==
    ASSUME NEW a \in Nat, NEW c \in Nat, NEW b \in Nat \ {0}, a <= c
    PROVE  a \div b <= c \div b
OBVIOUS

LEMMA ProductIsMonotone ==
    ASSUME NEW a \in Nat, NEW c \in Nat, NEW b \in Nat, a <= c
    PROVE  /\ a * b \in Nat
           /\ a * b <= c * b
OBVIOUS

\* Dividing by the seconds and then by the days is dividing by both.
LEMMA NestedDivision ==
    ASSUME NEW a \in Nat, NEW m \in Nat \ {0}, NEW s \in Nat \ {0}
    PROVE  /\ a \div (s * m) = (a \div m) \div s
           /\ (a % (s * m)) \div m = (a \div m) % s
<1> DEFINE x == a \div m  y == a % m  q == x \div s  r == x % s
<1>1. /\ x \in Nat /\ y \in 0..(m - 1) /\ a = m * x + y
      /\ q \in Nat /\ r \in 0..(s - 1) /\ x = s * q + r
  BY Division
<1> HIDE DEF x, y, q, r
<1>2. s * m \in Nat \ {0}
  OBVIOUS
<1>3. a = (s * m) * q + (m * r + y)
  BY <1>1
<1>4. m * r + y \in 0..(s * m - 1)
  <2>1. r + 1 <= s
    BY <1>1
  <2>2. (r + 1) * m <= s * m
    BY <2>1, <1>1, ProductIsMonotone
  <2>3. m * r + y \in Nat
    BY <1>1
  <2>4. (r + 1) * m = m * r + m
    BY <1>1
  <2> QED
    BY <1>1, <1>2, <2>2, <2>3, <2>4
<1>5. a \div (s * m) = q /\ a % (s * m) = m * r + y
  BY <1>1, <1>2, <1>3, <1>4, DivisionIsUnique
<1>6. (m * r + y) \div m = r
  BY <1>1, <1>4, DivisionIsUnique
<1> QED
  BY <1>5, <1>6 DEF x, q, r

\* Comparing day and second of the day is comparing seconds.
LEMMA Lexicographic ==
    ASSUME NEW n \in Nat \ {0}, NEW f \in Nat, NEW g \in Nat,
           NEW a \in 0..(n - 1), NEW b \in 0..(n - 1)
    PROVE  f < g \/ (f = g /\ a <= b) <=> f * n + a <= g * n + b
<1>1. CASE f < g
  <2>1. (f + 1) * n <= g * n
    BY <1>1, ProductIsMonotone
  <2>2. (f + 1) * n = f * n + n /\ f * n \in Nat /\ g * n \in Nat
    OBVIOUS
  <2> QED
    BY <1>1, <2>1, <2>2
<1>2. CASE f = g
  BY <1>2
<1>3. CASE g < f
  <2>1. (g + 1) * n <= f * n
    BY <1>3, ProductIsMonotone
  <2>2. (g + 1) * n = g * n + n /\ f * n \in Nat /\ g * n \in Nat
    OBVIOUS
  <2> QED
    BY <1>3, <2>1, <2>2
<1> QED
  BY <1>1, <1>2, <1>3

-----------------------------------------------------------------------------
LEMMA TimeConstants ==
    /\ FragmentSeconds \in Nat \ {0}
    /\ FragmentSeconds * MsPerSecond <= FragmentMs
    /\ MsPerSecond \in Nat \ {0} /\ SecondsPerDay \in Nat \ {0}
    /\ FragmentMs \in Nat
<1> USE TimeAssumption
<1>1. /\ FragmentSeconds \in Nat
      /\ FragmentMs = MsPerSecond * FragmentSeconds + (FragmentMs % MsPerSecond)
      /\ FragmentMs % MsPerSecond \in 0..(MsPerSecond - 1)
  BY Division DEF FragmentSeconds
<1>2. FragmentSeconds # 0
  BY <1>1
<1>3. FragmentSeconds * MsPerSecond <= FragmentMs
  BY <1>1
<1> QED
  BY <1>1, <1>2, <1>3

\* A file starts at or before each of its frames, and less than a fragment
\* before; its name is a second of the day.
LEMMA StartSecondBounds ==
    ASSUME NEW ts \in Nat
    PROVE  /\ GetFolderName(ts) \in Nat
           /\ GetFileName(ts) \in 0..(SecondsPerDay - 1)
           /\ StartSecond(ts) \in Nat
           /\ StartSecond(ts) * MsPerSecond <= ts
           /\ ts < StartSecond(ts) * MsPerSecond + FragmentMs
<1> DEFINE x == ts \div MsPerSecond
           r == x % SecondsPerDay
           e == r % FragmentSeconds
<1>1. /\ x \in Nat
      /\ ts % MsPerSecond \in 0..(MsPerSecond - 1)
      /\ ts = MsPerSecond * x + (ts % MsPerSecond)
  BY Division, TimeConstants
<1>2. /\ GetFolderName(ts) \in Nat
      /\ r \in 0..(SecondsPerDay - 1)
      /\ x = SecondsPerDay * GetFolderName(ts) + r
  BY <1>1, Division, TimeConstants DEF GetFolderName
<1>3. e \in 0..(FragmentSeconds - 1) /\ e <= r
  <2>0. r \in Nat
    BY <1>2, TimeConstants
  <2> HIDE DEF r
  <2>1. /\ e \in 0..(FragmentSeconds - 1)
        /\ r \div FragmentSeconds \in Nat
        /\ r = FragmentSeconds * (r \div FragmentSeconds) + e
    BY <2>0, Division, TimeConstants
  <2>2. FragmentSeconds * (r \div FragmentSeconds) \in Nat
    BY <2>1, TimeConstants
  <2> QED
    BY <2>1, <2>2
<1>4. GetFileName(ts) = r - e
  BY DEF GetFileName
<1> HIDE DEF x, r, e
<1>5. /\ StartSecond(ts) = x - e
      /\ StartSecond(ts) \in Nat
  BY <1>1, <1>2, <1>3, <1>4, TimeConstants DEF StartSecond
<1>6. /\ (x - e) * MsPerSecond <= x * MsPerSecond
      /\ x * MsPerSecond = MsPerSecond * x
  BY <1>1, <1>3, <1>5, ProductIsMonotone, TimeConstants
<1>7. (e + 1) * MsPerSecond <= FragmentMs
  <2>1. e + 1 <= FragmentSeconds
    BY <1>3, TimeConstants
  <2>2. (e + 1) * MsPerSecond <= FragmentSeconds * MsPerSecond
    BY <1>3, <2>1, ProductIsMonotone, TimeConstants
  <2>3. (e + 1) * MsPerSecond \in Nat /\ FragmentSeconds * MsPerSecond \in Nat
    BY <1>3, TimeConstants
  <2> QED
    BY <2>2, <2>3, TimeConstants
<1>8. x * MsPerSecond + MsPerSecond = (x - e) * MsPerSecond + (e + 1) * MsPerSecond
  <2>1. x \in Int /\ e \in Int /\ MsPerSecond \in Int
    BY <1>1, <1>3, TimeConstants
  <2>2. \A a, b, c \in Int : a * c + c = (a - b) * c + (b + 1) * c
    OBVIOUS
  <2> QED
    BY <2>1, <2>2
<1>9. ts < x * MsPerSecond + MsPerSecond
  BY <1>1, <1>6, TimeConstants
<1>10. (x - e) * MsPerSecond \in Nat /\ (e + 1) * MsPerSecond \in Nat
       /\ x * MsPerSecond \in Nat
  BY <1>1, <1>3, <1>5, TimeConstants
<1>11. StartSecond(ts) * MsPerSecond <= ts
  BY <1>1, <1>5, <1>6, <1>10, TimeConstants
<1>12. ts < StartSecond(ts) * MsPerSecond + FragmentMs
  BY <1>5, <1>7, <1>8, <1>9, <1>10, TimeConstants
<1> QED
  BY <1>2, <1>3, <1>4, <1>5, <1>11, <1>12, TimeConstants

LEMMA KeyType ==
    ASSUME NEW ts \in Nat
    PROVE  /\ ArchiveKey(ts) \in Nat \X Nat
           /\ ArchiveKey(ts)[1] = GetFolderName(ts)
           /\ ArchiveKey(ts)[2] = GetFileName(ts)
           /\ StartOf(ArchiveKey(ts)) = StartSecond(ts) * MsPerSecond
           /\ StartOf(ArchiveKey(ts)) \in Nat
<1>1. /\ GetFolderName(ts) \in Nat /\ GetFileName(ts) \in Nat
      /\ StartSecond(ts) \in Nat
  BY StartSecondBounds, TimeConstants
<1>2. /\ ArchiveKey(ts) \in Nat \X Nat
      /\ ArchiveKey(ts)[1] = GetFolderName(ts)
      /\ ArchiveKey(ts)[2] = GetFileName(ts)
  BY <1>1 DEF ArchiveKey
<1>3. StartOf(ArchiveKey(ts)) = StartSecond(ts) * MsPerSecond
  BY <1>2 DEF StartOf, StartSecond
<1> QED
  BY <1>1, <1>2, <1>3, TimeConstants

\* Later frames do not go to earlier files.
LEMMA KeysFollowTime ==
    ASSUME NEW t1 \in Nat, NEW t2 \in Nat, t1 <= t2
    PROVE  \/ GetFolderName(t1) < GetFolderName(t2)
           \/ /\ GetFolderName(t1) = GetFolderName(t2)
              /\ GetFileName(t1) <= GetFileName(t2)
<1> DEFINE x1 == t1 \div MsPerSecond  x2 == t2 \div MsPerSecond
           r1 == x1 % SecondsPerDay   r2 == x2 % SecondsPerDay
           f1 == GetFolderName(t1)    f2 == GetFolderName(t2)
<1>1. x1 \in Nat /\ x2 \in Nat /\ x1 <= x2
  BY Division, DivisionIsMonotone, TimeConstants
<1>2. f1 = x1 \div SecondsPerDay /\ f2 = x2 \div SecondsPerDay
  BY DEF GetFolderName
<1>3. GetFileName(t1) = r1 - (r1 % FragmentSeconds)
      /\ GetFileName(t2) = r2 - (r2 % FragmentSeconds)
  BY DEF GetFileName
<1> HIDE DEF x1, x2, f1, f2
<1>4. /\ r1 \in Nat /\ f1 \in Nat /\ x1 = SecondsPerDay * f1 + r1
      /\ r2 \in Nat /\ f2 \in Nat /\ x2 = SecondsPerDay * f2 + r2
  BY <1>1, <1>2, Division, TimeConstants
<1>5. f1 <= f2
  BY <1>1, <1>2, DivisionIsMonotone, TimeConstants
<1> HIDE DEF r1, r2
<1>6. CASE f1 = f2
  <2> DEFINE q1 == r1 \div FragmentSeconds  q2 == r2 \div FragmentSeconds
             e1 == r1 % FragmentSeconds     e2 == r2 % FragmentSeconds
  <2>1. r1 <= r2
    BY <1>1, <1>4, <1>6, TimeConstants
  <2>2. /\ q1 \in Nat /\ e1 \in Nat /\ r1 = FragmentSeconds * q1 + e1
        /\ q2 \in Nat /\ e2 \in Nat /\ r2 = FragmentSeconds * q2 + e2
        /\ q1 <= q2
    BY <1>4, <2>1, Division, DivisionIsMonotone, TimeConstants
  <2>3. GetFileName(t1) = r1 - e1 /\ GetFileName(t2) = r2 - e2
    BY <1>3
  <2> HIDE DEF q1, q2, e1, e2
  <2>4. q1 * FragmentSeconds <= q2 * FragmentSeconds
    BY <2>2, ProductIsMonotone, TimeConstants
  <2>5. GetFileName(t1) = q1 * FragmentSeconds
        /\ GetFileName(t2) = q2 * FragmentSeconds
    BY <1>4, <2>2, <2>3, TimeConstants
  <2> QED
    BY <1>6, <2>4, <2>5 DEF f1, f2
<1> QED
  BY <1>4, <1>5, <1>6 DEF f1, f2

\* Where fragments do not straddle midnight, they are counted from the epoch.
LEMMA StartSecondIsMultiple ==
    ASSUME FragmentDividesDay, NEW ts \in Nat
    PROVE  StartSecond(ts)
             = FragmentSeconds * ((ts \div MsPerSecond) \div FragmentSeconds)
<1> DEFINE n == FragmentSeconds
           x == ts \div MsPerSecond  f == GetFolderName(ts)
           r == x % SecondsPerDay
<1>1. x \in Nat /\ n \in Nat \ {0} /\ SecondsPerDay \in Nat \ {0}
  BY Division, TimeConstants
<1>2. f = x \div SecondsPerDay /\ GetFileName(ts) = r - (r % n)
  BY DEF GetFolderName, GetFileName
<1>3. SecondsPerDay % n = 0
  BY DEF FragmentDividesDay
<1>4. StartSecond(ts) = f * SecondsPerDay + GetFileName(ts)
  BY DEF StartSecond
<1> HIDE DEF n, x, f
<1>5. r \in Nat /\ f \in Nat /\ x = SecondsPerDay * f + r
  <2>1. /\ x \div SecondsPerDay \in Nat
        /\ x % SecondsPerDay \in 0..(SecondsPerDay - 1)
        /\ x = SecondsPerDay * (x \div SecondsPerDay) + (x % SecondsPerDay)
    BY <1>1, Division
  <2> QED
    BY <1>1, <1>2, <2>1
<1> HIDE DEF r
<1> DEFINE d == SecondsPerDay \div n  q == r \div n  e == r % n
<1>6. q \in Nat /\ e \in 0..(n - 1) /\ r = n * q + e
  BY <1>1, <1>5, Division
<1>7. d \in Nat /\ SecondsPerDay = n * d
  <2>1. d \in Nat /\ SecondsPerDay = n * d + (SecondsPerDay % n)
    BY <1>1, Division
  <2>2. n * d \in Nat
    BY <1>1, <2>1
  <2> QED
    BY <1>3, <2>1, <2>2
<1>8. GetFileName(ts) = r - e
  BY <1>2
<1> HIDE DEF d, q, e
<1>9. n * d * f = n * (d * f) /\ n * (d * f) + n * q = n * (d * f + q)
  <2>1. \A a, b, c \in Nat : a * b * c = a * (b * c)
    OBVIOUS
  <2>2. \A a, b, c \in Nat : a * b + a * c = a * (b + c)
    OBVIOUS
  <2>3. d * f \in Nat /\ n \in Nat
    BY <1>1, <1>5, <1>7
  <2> QED
    BY <1>5, <1>6, <1>7, <2>1, <2>2, <2>3
<1>10. d * f + q \in Nat /\ n * (d * f) \in Nat /\ n * q \in Nat
  BY <1>1, <1>5, <1>6, <1>7
<1>11. x = n * (d * f + q) + e
  BY <1>5, <1>6, <1>7, <1>9, <1>10
<1>12. x \div n = d * f + q
  BY <1>1, <1>6, <1>10, <1>11, DivisionIsUnique
<1>13. f * SecondsPerDay = n * (d * f)
  <2>1. f * SecondsPerDay = SecondsPerDay * f
    BY <1>1, <1>5
  <2> QED
    BY <1>7, <1>9, <2>1
<1>14. StartSecond(ts) = n * (d * f) + n * q
  BY <1>4, <1>6, <1>8, <1>10, <1>13
<1> QED
  BY <1>9, <1>12, <1>14 DEF n, x

\* Where fragments are whole seconds and do not straddle midnight, a frame
\* goes to the file of an earlier one for a fragment from the start of it.
LEMMA KeyIsStable ==
    ASSUME FragmentDividesDay, FragmentIsWhole,
           NEW t1 \in Nat, NEW t2 \in Nat, t1 <= t2,
           t2 < StartOf(ArchiveKey(t1)) + FragmentMs
    PROVE  ArchiveKey(t2) = ArchiveKey(t1)
<1> DEFINE n == FragmentSeconds
           x1 == t1 \div MsPerSecond  x2 == t2 \div MsPerSecond
           q == x1 \div n
<1>1. /\ x1 \in Nat /\ x2 \in Nat /\ x1 <= x2
      /\ n \in Nat \ {0} /\ MsPerSecond \in Nat \ {0}
      /\ t2 % MsPerSecond \in Nat
      /\ t2 = MsPerSecond * x2 + (t2 % MsPerSecond)
  <2>1. MsPerSecond \in Nat \ {0} /\ n \in Nat \ {0}
    BY TimeConstants
  <2>2. x1 \in Nat /\ x2 \in Nat
    BY <2>1, Division
  <2>3. x1 <= x2
    BY <2>1, DivisionIsMonotone
  <2>4. t2 % MsPerSecond \in Nat /\ t2 = MsPerSecond * x2 + (t2 % MsPerSecond)
    BY <2>1, Division
  <2> QED
    BY <2>1, <2>2, <2>3, <2>4
<1>2. StartSecond(t1) = n * q /\ StartSecond(t2) = n * (x2 \div n)
  BY StartSecondIsMultiple
<1>3. FragmentMs = MsPerSecond * n
  <2>1. /\ n \in Nat
        /\ FragmentMs = MsPerSecond * n + (FragmentMs % MsPerSecond)
    BY Division, TimeConstants DEF FragmentSeconds
  <2>2. MsPerSecond * n \in Nat
    BY <1>1, <2>1
  <2> QED
    BY <2>1, <2>2 DEF FragmentIsWhole
<1> HIDE DEF n, x1, x2
<1>4. q \in Nat /\ x1 % n \in 0..(n - 1) /\ x1 = n * q + (x1 % n)
  BY <1>1, Division
<1> HIDE DEF q
<1>5. n * q \in Nat /\ n * q <= x2
  BY <1>1, <1>4
<1>6. x2 < n * q + n
  <2> SUFFICES ASSUME n * q + n <= x2 PROVE FALSE
    BY <1>1, <1>5
  <2>1. n * q + n \in Nat
    BY <1>1, <1>5
  <2>2. (n * q + n) * MsPerSecond <= x2 * MsPerSecond
    BY <1>1, <2>1, ProductIsMonotone
  <2>3. (n * q + n) * MsPerSecond = (n * q) * MsPerSecond + FragmentMs
    <3>1. \A a, b, c \in Nat : (a + b) * c = a * c + c * b
      OBVIOUS
    <3> QED
      BY <1>1, <1>3, <1>5, <3>1
  <2>4. x2 * MsPerSecond = MsPerSecond * x2 /\ MsPerSecond * x2 \in Nat
        /\ (n * q) * MsPerSecond \in Nat
    BY <1>1, <1>5
  <2>5. t2 < (n * q) * MsPerSecond + FragmentMs
    BY <1>2, KeyType
  <2> QED
    BY <1>1, <2>2, <2>3, <2>4, <2>5, TimeConstants
<1>7. x2 \div n = q
  <2> DEFINE r == x2 - n * q
  <2>1. r \in 0..(n - 1) /\ x2 = n * q + r
    BY <1>1, <1>5, <1>6
  <2> HIDE DEF r
  <2> QED
    BY <1>1, <1>4, <2>1, DivisionIsUnique
<1>8. StartSecond(t1) = StartSecond(t2)
  BY <1>2, <1>7
<1>9. /\ GetFolderName(t1) \in Nat /\ GetFileName(t1) \in 0..(SecondsPerDay - 1)
      /\ GetFolderName(t2) \in Nat /\ GetFileName(t2) \in 0..(SecondsPerDay - 1)
      /\ StartSecond(t1) \in Nat
  BY StartSecondBounds
<1>10. GetFolderName(t1) = GetFolderName(t2) /\ GetFileName(t1) = GetFileName(t2)
  <2> DEFINE a == GetFolderName(t1)  b == GetFileName(t1)
             c == GetFolderName(t2)  e == GetFileName(t2)
  <2>1. a * SecondsPerDay + b = c * SecondsPerDay + e
    BY <1>8 DEF StartSecond
  <2>2. /\ a \in Nat /\ b \in 0..(SecondsPerDay - 1)
        /\ c \in Nat /\ e \in 0..(SecondsPerDay - 1)
        /\ SecondsPerDay \in Nat \ {0}
        /\ a * SecondsPerDay + b \in Nat
    BY <1>9, TimeConstants DEF StartSecond
  <2> HIDE DEF a, b, c, e
  <2>3. a < c \/ (a = c /\ b <= e)
    BY <2>1, <2>2, Lexicographic
  <2>4. c < a \/ (c = a /\ e <= b)
    BY <2>1, <2>2, Lexicographic
  <2>5. a = c /\ b = e
    BY <2>2, <2>3, <2>4
  <2> QED
    BY <2>5 DEF a, b, c, e
<1> QED
  BY <1>10 DEF ArchiveKey
==============================================================================
